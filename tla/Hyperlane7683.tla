--------------------------- MODULE Hyperlane7683 ----------------------------
(***************************************************************************)
(* The hyperlane7683 solver: BaseFiller's life of an order (prepare, fill, *)
(* settle) for orders whose legs lie on several chains, and the table of   *)
(* processed orders a restart begins from.  Every order is handled by an   *)
(* async task of its own; the legs of one order run in parallel, and where *)
(* one of them fails the task goes on to its catch while the others are    *)
(* still under way.  One leg of an order needs one unit of ERC-20 token.   *)
(***************************************************************************)
EXTENDS Integers, FiniteSets

CONSTANTS
  Orders,     \* the orders users may open on the origin chain
  Chains,     \* destination chains
  Legs,       \* Legs[o]: the chains order o has a leg on
  Funds,      \* Funds[c]: what the solver's account has on c at first
  Configured, \* intentSource.initialBlock, 0 when absent
  Copies,     \* Copies[o]: how often overlapping polls hand o over in a run
  Confirmations, \* confirmationBlocks, 0 when absent
  MaxBlocks,  \* bound: blocks of the origin chain
  MaxStarts   \* bound: times the solver is started

ASSUME OrdersHaveLegs == \A o \in Orders : Legs[o] \in (SUBSET Chains) \ {{}}
ASSUME FundsAreNat == \A c \in Chains : Funds[c] \in Nat
ASSUME ConfiguredIsABlock == Configured \in 0 .. MaxBlocks
ASSUME SolverBounds ==
  /\ {MaxBlocks, MaxStarts} \subseteq Nat \ {0} /\ Confirmations \in Nat
  /\ \A o \in Orders : Copies[o] \in Nat \ {0}

VARIABLES
  \* the chains
  head,       \* the last block of the origin chain
  block,      \* block[o]: where order o was opened, 0 before
  funds,      \* the account's balance on each destination chain
  approved,   \* chains where the settler may spend it
  filled,     \* legs <<o, c>> whose orderStatus is not UNKNOWN
  settled,    \* legs <<o, c>> a settle transaction went through for
  \* the solver
  up,
  starts,
  latest,     \* the block the listener started from
  polled,     \* the highest block a poll has handed over in this run
  initialBlock, processedIds,  \* what the database gave it, 0 for nothing
  backfill,   \* orders processPrevBlocks has not handed over yet
  tasks,      \* tasks[<<o, k>>]: the k-th handling of o in this run
  saves,      \* rows on their way to the database; nobody waits for them
  db,         \* rows of indexedBlocks, one order each
  savedBefore \* history: the orders with a row when the solver started

chainVars == <<head, block>>
accountVars == <<funds, approved, filled, settled>>
runVars == <<up, starts, latest, initialBlock, processedIds, savedBefore>>
vars == <<chainVars, accountVars, runVars, polled, backfill, tasks, saves, db>>

Blocks == 0 .. MaxBlocks
Handlings == UNION {{o} \X (1 .. Copies[o]) : o \in Orders}
AllLegs == {leg \in Orders \X Chains : leg[2] \in Legs[leg[1]]}
Rows == [block : 1 .. MaxBlocks, id : Orders]

\* left: the legs under way in the phase "at".  stalled: a leg waits for a
\* transaction that is never mined.  alone: no other task has been under way
\* since this one began (history).
Phases == {"none", "checking", "approving", "filling", "settling", "settled", "refused"}
Tasks == [at : Phases, left : SUBSET Chains, failed : BOOLEAN, stalled : BOOLEAN,
          alone : BOOLEAN]
NoTask == [at |-> "none", left |-> {}, failed |-> FALSE, stalled |-> FALSE, alone |-> TRUE]

TypeOK ==
  /\ head \in Blocks /\ block \in [Orders -> Blocks]
  /\ funds \in [Chains -> Nat]
  /\ approved \in SUBSET Chains
  /\ filled \in SUBSET AllLegs /\ settled \in SUBSET AllLegs
  /\ up \in BOOLEAN /\ starts \in 0 .. MaxStarts
  /\ latest \in Blocks /\ polled \in Blocks /\ initialBlock \in Blocks
  /\ processedIds \in SUBSET Orders /\ savedBefore \in SUBSET Orders
  /\ backfill \in SUBSET Orders
  /\ tasks \in [Handlings -> Tasks]
  /\ saves \in SUBSET Rows /\ db \in SUBSET Rows

NoTasks == [h \in Handlings |-> NoTask]

Init ==
  /\ head = 0 /\ block = [o \in Orders |-> 0]
  /\ funds = [c \in Chains |-> Funds[c]]
  /\ approved = {} /\ filled = {} /\ settled = {}
  /\ up = FALSE /\ starts = 0 /\ latest = 0 /\ polled = 0 /\ initialBlock = 0
  /\ processedIds = {} /\ savedBefore = {}
  /\ backfill = {} /\ tasks = NoTasks /\ saves = {} /\ db = {}

----------------------------------------------------------------------------
(* The chains. *)

MineBlock(opened) ==
  /\ head < MaxBlocks
  /\ \A o \in opened : block[o] = 0
  /\ head' = head + 1
  /\ block' = [o \in Orders |-> IF o \in opened THEN head + 1 ELSE block[o]]
  /\ UNCHANGED <<accountVars, runVars, polled, backfill, tasks, saves, db>>

\* Another solver is faster.
OtherSolverFills(o, c) ==
  /\ block[o] # 0 /\ c \in Legs[o]
  /\ filled' = filled \cup {<<o, c>>}
  /\ UNCHANGED <<chainVars, funds, approved, settled, runVars, polled, backfill, tasks, saves, db>>

----------------------------------------------------------------------------
(* The solver starts and ends. *)

\* Mutant of LastIndexed: the first block on record.
FirstIndexed ==
  IF db = {} THEN 0
  ELSE CHOOSE b \in Blocks : (\E r \in db : r.block = b) /\ \A r \in db : b <= r.block

\* getLastIndexedBlocks: the highest block with a row.
LastIndexed ==
  IF db = {} THEN 0
  ELSE CHOOSE b \in Blocks : (\E r \in db : r.block = b) /\ \A r \in db : r.block <= b

\* Where a run begins: the block on record unless the configured one is
\* higher; only the first comes with the orders processed in it.
Beginning ==
  IF LastIndexed # 0 /\ LastIndexed >= Configured
  THEN [from |-> LastIndexed, done |-> {r.id : r \in {s \in db : s.block = LastIndexed}}]
  ELSE [from |-> Configured, done |-> {}]

\* The listener's create, with the backfill of BaseListener.
Start ==
  /\ ~up /\ starts < MaxStarts
  /\ up' = TRUE /\ starts' = starts + 1
  /\ latest' = head /\ polled' = head
  /\ initialBlock' = Beginning.from /\ processedIds' = Beginning.done
  /\ savedBefore' = {r.id : r \in db}
  /\ backfill' =
       IF Beginning.from # 0 /\ Beginning.from < head - 1
       THEN {o \in Orders : /\ block[o] \in Beginning.from .. head - 1
                            /\ ~(block[o] = Beginning.from /\ o \in Beginning.done)}
       ELSE {}
  /\ UNCHANGED <<chainVars, accountVars, tasks, saves, db>>

\* The process ends (an error of the database that nobody catches ends it
\* too), with whatever it had under way.
Crash ==
  /\ up
  /\ up' = FALSE
  /\ backfill' = {} /\ tasks' = NoTasks /\ saves' = {}
  /\ UNCHANGED <<chainVars, accountVars, starts, latest, polled, initialBlock, processedIds,
                 savedBefore, db>>

----------------------------------------------------------------------------
(* Orders are handed to the filler. *)

UnderWay(t) == t.left # {} \/ t.stalled
Over(t) == t.failed \/ t.at \in {"settled", "refused"}

Begin(h) ==
  LET others == \E g \in Handlings : UnderWay(tasks[g])
      Disturbed(t) == IF UnderWay(t) THEN [t EXCEPT !.alone = FALSE] ELSE t
      new == [at |-> "checking", left |-> Legs[h[1]], failed |-> FALSE,
              stalled |-> FALSE, alone |-> ~others]
  IN
  /\ up /\ tasks[h] = NoTask
  /\ tasks' = [g \in Handlings |-> IF g = h THEN new ELSE Disturbed(tasks[g])]

\* Bound: an order comes again only when no other is open and none will be.
RepeatExplored(o) == head = MaxBlocks /\ \A p \in Orders \ {o} : block[p] = 0

\* pollEvents reads the confirmed blocks up to "to", at least two of them after
\* some earlier poll's last one (BaseListener has the record that tells which).
Poll(to) ==
  /\ up /\ to \in polled + 1 .. head - Confirmations /\ to >= latest + 2
  /\ polled' = to
  /\ UNCHANGED <<chainVars, accountVars, runVars, backfill, tasks, saves, db>>

\* A poll hands over orders of the blocks it read, lower blocks first, none
\* waited for; an order comes again when polls overlap (BaseListener).
PollHands(h) ==
  /\ block[h[1]] \in latest + 1 .. polled
  /\ h[2] > 1 => tasks[<<h[1], h[2] - 1>>] # NoTask /\ RepeatExplored(h[1])
  /\ \A o \in Orders :
       block[o] \in latest + 1 .. block[h[1]] - 1 => tasks[<<o, 1>>] # NoTask
  /\ Begin(h)
  /\ UNCHANGED <<chainVars, accountVars, runVars, polled, backfill, saves, db>>

\* Mutant of BackfillHands: it goes on only after an order that was settled.
BackfillAfterSettled(o) ==
  /\ o \in backfill
  /\ \A p \in backfill : block[o] <= block[p]
  /\ \A p \in Orders : block[p] <= latest => tasks[<<p, 1>>].at \in {"none", "settled"}
  /\ Begin(<<o, 1>>)
  /\ backfill' = backfill \ {o}
  /\ UNCHANGED <<chainVars, accountVars, runVars, polled, saves, db>>

\* processPrevBlocks: the next order when the handler of the last one is over.
BackfillHands(o) ==
  /\ o \in backfill
  /\ \A p \in backfill : block[o] <= block[p]
  /\ \A p \in Orders : block[p] <= latest => tasks[<<p, 1>>] = NoTask \/ Over(tasks[<<p, 1>>])
  /\ Begin(<<o, 1>>)
  /\ backfill' = backfill \ {o}
  /\ UNCHANGED <<chainVars, accountVars, runVars, polled, saves, db>>

----------------------------------------------------------------------------
(* The legs of a task.  A phase is over, and the next begins, when all legs *)
(* have passed; the first that fails ends the task.                         *)

Leg(h, phase, c) == up /\ tasks[h].at = phase /\ c \in tasks[h].left

After(phase) ==
  [checking |-> "approving", approving |-> "filling",
   filling |-> "settling", settling |-> "settled"][phase]

LastLeg(h, c) == tasks[h].left = {c} /\ ~tasks[h].failed /\ ~tasks[h].stalled

LegPasses(h, c) ==
  LET next == After(tasks[h].at) IN
  tasks' = IF LastLeg(h, c)
           THEN [tasks EXCEPT ![h].at = next,
                              ![h].left = IF next = "settled" THEN {} ELSE Legs[h[1]]]
           ELSE [tasks EXCEPT ![h].left = @ \ {c}]

LegFails(h, c) ==
  tasks' = [tasks EXCEPT ![h].left = @ \ {c}, ![h].failed = TRUE]

\* prepareIntent catches everything: a list or a rule refuses the order, or a
\* call fails.
Refuse(h) ==
  /\ up /\ tasks[h].at = "checking"
  /\ tasks' = [tasks EXCEPT ![h].at = "refused", ![h].left = {}]
  /\ UNCHANGED <<chainVars, accountVars, runVars, polled, backfill, saves, db>>

\* Mutant of EnoughBalance: the balance of one chain only.
EnoughOnOneChain(h, c) ==
  /\ Leg(h, "checking", c)
  /\ funds[c] >= 1
  /\ tasks' = [tasks EXCEPT ![h].at = "approving", ![h].left = Legs[h[1]]]
  /\ UNCHANGED <<chainVars, accountVars, runVars, polled, backfill, saves, db>>

\* enoughBalanceOnDestination, one chain after the other; too little refuses.
EnoughBalance(h, c) ==
  /\ Leg(h, "checking", c)
  /\ funds[c] >= 1
  /\ LegPasses(h, c)
  /\ UNCHANGED <<chainVars, accountVars, runVars, polled, backfill, saves, db>>

\* The allowance is MaxUint256 once it is given.
Approve(h, c) ==
  /\ Leg(h, "approving", c)
  /\ approved' = approved \cup {c}
  /\ LegPasses(h, c)
  /\ UNCHANGED <<chainVars, funds, filled, settled, runVars, polled, backfill, saves, db>>

ApproveFails(h, c) ==
  /\ Leg(h, "approving", c)
  /\ LegFails(h, c)
  /\ UNCHANGED <<chainVars, accountVars, runVars, polled, backfill, saves, db>>

\* The settler on c takes the tokens, once per order.
Fills(h, c) ==
  /\ Leg(h, "filling", c)
  /\ <<h[1], c>> \notin filled /\ c \in approved /\ funds[c] >= 1
  /\ filled' = filled \cup {<<h[1], c>>}
  /\ funds' = [funds EXCEPT ![c] = @ - 1]
  /\ UNCHANGED <<chainVars, approved, settled, runVars, polled, backfill, db>>

RowOf(h) == [block |-> block[h[1]], id |-> h[1]]

\* saveBlockNumber is called when the last leg is filled.
Fill(h, c) ==
  /\ Fills(h, c)
  /\ LegPasses(h, c)
  /\ saves' = IF LastLeg(h, c) THEN saves \cup {RowOf(h)} ELSE saves

\* Mutant of FillFails: the order is saved before its last leg is filled.
FailureIsSaved(h, c) ==
  /\ Leg(h, "filling", c)
  /\ LegFails(h, c)
  /\ saves' = saves \cup {RowOf(h)}
  /\ UNCHANGED <<chainVars, accountVars, runVars, polled, backfill, db>>

\* The transaction reverts (filled already, too little money), or fails.
FillFails(h, c) ==
  /\ Leg(h, "filling", c)
  /\ LegFails(h, c)
  /\ UNCHANGED <<chainVars, accountVars, runVars, polled, backfill, saves, db>>

\* It goes through but waiting for it fails.
FillReplyLost(h, c) ==
  /\ Fills(h, c)
  /\ LegFails(h, c)
  /\ UNCHANGED saves

\* The leg waits for a transaction that is never mined, behind a gap in the
\* account's nonces for one: tx.wait has no timeout.
Stalls(h, c) ==
  /\ Leg(h, tasks[h].at, c) /\ tasks[h].at \in {"approving", "filling", "settling"}
  /\ tasks' = [tasks EXCEPT ![h].left = @ \ {c}, ![h].stalled = TRUE]
  /\ UNCHANGED <<chainVars, accountVars, runVars, polled, backfill, saves, db>>

\* A row arrives in the database.
Saved(row) ==
  /\ row \in saves
  /\ saves' = saves \ {row} /\ db' = db \cup {row}
  /\ UNCHANGED <<chainVars, accountVars, runVars, polled, backfill, tasks>>

Settle(h, c) ==
  /\ Leg(h, "settling", c)
  /\ <<h[1], c>> \in filled
  /\ settled' = settled \cup {<<h[1], c>>}
  /\ LegPasses(h, c)
  /\ UNCHANGED <<chainVars, funds, approved, filled, runVars, polled, backfill, saves, db>>

\* Caught per settler: to the task it is a leg that passed.
SettleFails(h, c) ==
  /\ Leg(h, "settling", c)
  /\ LegPasses(h, c)
  /\ UNCHANGED <<chainVars, accountVars, runVars, polled, backfill, saves, db>>

----------------------------------------------------------------------------
LegStep(h, c) ==
  \/ EnoughBalance(h, c)
  \/ Approve(h, c) \/ ApproveFails(h, c)
  \/ Fill(h, c) \/ FillFails(h, c) \/ FillReplyLost(h, c)
  \/ Settle(h, c) \/ SettleFails(h, c)
  \/ Stalls(h, c)

TaskStep(h) == Refuse(h) \/ \E c \in Chains : LegStep(h, c)

Next ==
  \/ \E opened \in SUBSET Orders : MineBlock(opened)
  \/ \E o \in Orders, c \in Chains : OtherSolverFills(o, c)
  \/ Start \/ Crash
  \/ \E to \in Blocks : Poll(to)
  \/ \E h \in Handlings : PollHands(h)
  \/ \E o \in Orders : BackfillHands(o)
  \/ \E h \in Handlings : TaskStep(h)
  \/ \E row \in saves : Saved(row)

Spec == Init /\ [][Next]_vars

\* A poll reads two blocks more once they are confirmed.
SomePoll == \E to \in polled + 2 .. head - Confirmations : Poll(to)

\* Polls go on and hand over what they read; a call that is awaited returns, or
\* stalls for good.  Whether it succeeds is open.
FairSpec ==
  /\ Spec
  /\ WF_vars(SomePoll)
  /\ \A o \in Orders : WF_vars(PollHands(<<o, 1>>)) /\ WF_vars(BackfillHands(o))
  /\ \A h \in Handlings : WF_vars(TaskStep(h))
----------------------------------------------------------------------------
(* Properties. *)

Complete(o) == \A c \in Legs[o] : <<o, c>> \in filled

\* An order is on record, or on its way there, only when all its legs are
\* filled, whatever else its legs and other handlings of it went through; and
\* no leg is settled while another leg of the order is not filled.
OnlyFilledIsRecorded ==
  /\ \A row \in saves \cup db : Complete(row.id)
  /\ \A leg \in settled : Complete(leg[1])

\* An order on record when the solver starts is not handled again, although
\* only the highest block's orders are kept from the backfill by name.
SavedIsNotHandledAgain ==
  \A h \in Handlings : h[1] \in savedBefore => tasks[h] = NoTask

\* A task fills only what it may spend; and unless another task has been
\* under way at the same time, the money it checked for is still there.
FillsCanBePaid ==
  \A h \in Handlings : \A c \in tasks[h].left :
    tasks[h].at = "filling" =>
      /\ c \in approved
      /\ tasks[h].alone => funds[c] >= 1

\* processPrevBlocks waits for an earlier order's task that has stalled.
StuckBehindAnother(o) ==
  o \in backfill /\ \E p \in Orders : block[p] <= latest /\ tasks[<<p, 1>>].stalled

\* The solver comes to an end with every order opened after its start that has
\* a confirmed block after it (a last block on its own is not polled), and with
\* every order the last run may have left, from the last block on record on;
\* unless it dies before, or waits for a transaction that is never mined, the
\* order's own or, in the backfill, an earlier order's.
EveryOrderIsHandled ==
  \A o \in Orders :
    (/\ up
     /\ \/ block[o] \in latest + 1 .. head - Confirmations - 1
        \/ /\ initialBlock \in 1 .. latest - 2
           /\ block[o] \in initialBlock .. latest - 1
           /\ ~(block[o] = initialBlock /\ o \in processedIds))
      ~> (\/ ~up
          \/ \E h \in Handlings : h[1] = o /\ (Over(tasks[h]) \/ tasks[h].stalled)
          \/ StuckBehindAnother(o))
=============================================================================
