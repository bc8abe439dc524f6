------------------------ MODULE Hyperlane7683Proofs -------------------------
(***************************************************************************)
(* Proofs about Hyperlane7683, for any orders, chains, funds and bounds:   *)
(* what is on record is filled, what is checked for can be paid unless     *)
(* another task is under way, and what was on record at the start is not   *)
(* handled again.                                                          *)
(***************************************************************************)
EXTENDS Hyperlane7683, WellFoundedInduction, TLAPS

(* The invariant **********************************************************)

\* Rows, tasks and the backfill are of orders that were opened, rows with the
\* block they were opened in; a process that is down has nothing under way.
OnlyOpened ==
  /\ \A o \in Orders : block[o] <= head
  /\ \A row \in saves \cup db : block[row.id] = row.block
  /\ \A o \in backfill : block[o] # 0
  /\ \A h \in Handlings : tasks[h] # NoTask => up /\ block[h[1]] # 0

\* No leg of the task failed or stalled.
AllWell(t) == ~t.failed /\ ~t.stalled

\* How far the legs of a task are, as its phase says.
LegsAt(h) ==
  LET t == tasks[h]
      passed == Legs[h[1]] \ t.left
  IN
  /\ t.left \subseteq Legs[h[1]]
  /\ t.at \in {"none", "settled", "refused"} => t.left = {}
  /\ t.at \in {"none", "checking", "settled", "refused"} => ~t.stalled
  /\ t.at = "approving" /\ AllWell(t) => passed \subseteq approved
  /\ t.at = "filling" => Legs[h[1]] \subseteq approved
  /\ t.at = "filling" /\ AllWell(t) => \A c \in passed : <<h[1], c>> \in filled
  /\ t.at \in {"settling", "settled"} => Complete(h[1])

LegsAreDone == \A h \in Handlings : LegsAt(h)

\* A task that was alone so far is the only one under way, and what it checked
\* for and did not spend is there.
MoneyFor(h) ==
  LET t == tasks[h] IN
  UnderWay(t) /\ t.alone =>
    /\ \A g \in Handlings \ {h} : ~UnderWay(tasks[g])
    /\ t.at = "checking" /\ ~t.failed => \A c \in Legs[h[1]] \ t.left : funds[c] >= 1
    /\ t.at = "approving" => \A c \in Legs[h[1]] : funds[c] >= 1
    /\ t.at = "filling" => \A c \in t.left : funds[c] >= 1

MoneyIsThere == \A h \in Handlings : MoneyFor(h)

\* Orders on record when the solver started are below the block its polls go
\* on from, and its backfill leaves them out.
SavedStay ==
  \A o \in savedBefore : block[o] \in 1 .. latest /\ o \notin backfill

IInv ==
  /\ TypeOK /\ OnlyOpened
  /\ LegsAreDone /\ OnlyFilledIsRecorded
  /\ MoneyIsThere
  /\ SavedStay /\ SavedIsNotHandledAgain

(* What a step writes in tasks ********************************************)

\* Handlings are of orders, whose legs are on chains, at least one.
LEMMA HandlingsAreOfOrders ==
  /\ \A h \in Handlings : h[1] \in Orders /\ Legs[h[1]] \subseteq Chains /\ Legs[h[1]] # {}
  /\ \A o \in Orders : <<o, 1>> \in Handlings
<1>1. \A o \in Orders : <<o, 1>> \in {o} \X (1 .. Copies[o])
  BY SolverBounds
<1> QED
  BY <1>1, OrdersHaveLegs DEF Handlings

\* Begin: one task is new, the others are no longer alone if under way.
LEMMA BeginWrites ==
  ASSUME TypeOK, NEW h \in Handlings, Begin(h)
  PROVE  /\ up /\ tasks[h] = NoTask
         /\ tasks' \in [Handlings -> Tasks]
         /\ tasks'[h].at = "checking" /\ tasks'[h].left = Legs[h[1]] /\ ~tasks'[h].failed
         /\ ~tasks'[h].stalled
         /\ tasks'[h].alone => \A g \in Handlings : ~UnderWay(tasks[g])
         /\ \A g \in Handlings \ {h} :
              /\ tasks'[g].at = tasks[g].at /\ tasks'[g].left = tasks[g].left
              /\ tasks'[g].failed = tasks[g].failed /\ tasks'[g].stalled = tasks[g].stalled
              /\ UnderWay(tasks[g]) => ~tasks'[g].alone
              /\ ~UnderWay(tasks[g]) => tasks'[g] = tasks[g]
<1> DEFINE others == \E g \in Handlings : UnderWay(tasks[g])
           new == [at |-> "checking", left |-> Legs[h[1]], failed |-> FALSE,
                   stalled |-> FALSE, alone |-> ~others]
           Disturbed(t) == IF UnderWay(t) THEN [t EXCEPT !.alone = FALSE] ELSE t
<1>1. /\ up /\ tasks[h] = NoTask
      /\ tasks' = [g \in Handlings |-> IF g = h THEN new ELSE Disturbed(tasks[g])]
  BY DEF Begin
<1>2. tasks \in [Handlings -> Tasks]
  BY DEF TypeOK
<1>3. ASSUME NEW alone \in BOOLEAN
      PROVE  [at |-> "checking", left |-> Legs[h[1]], failed |-> FALSE,
              stalled |-> FALSE, alone |-> alone] \in Tasks
  BY HandlingsAreOfOrders DEF Tasks, Phases
<1>4. (~others) \in BOOLEAN
  BY Zenon
<1>5. new \in Tasks
  BY <1>3, <1>4, Zenon
<1>6. new.at = "checking" /\ new.left = Legs[h[1]] /\ ~new.failed /\ ~new.stalled /\ (new.alone => ~others)
  BY Zenon
<1>7. \A t \in Tasks : [t EXCEPT !.alone = FALSE] \in Tasks
  BY DEF Tasks
<1>8. ASSUME NEW t \in Tasks
      PROVE  /\ Disturbed(t) \in Tasks
             /\ Disturbed(t).at = t.at /\ Disturbed(t).left = t.left
             /\ Disturbed(t).failed = t.failed /\ Disturbed(t).stalled = t.stalled
             /\ UnderWay(t) => ~Disturbed(t).alone
             /\ ~UnderWay(t) => Disturbed(t) = t
  <2>1. CASE UnderWay(t)
    <3>1. Disturbed(t) = [t EXCEPT !.alone = FALSE]
      BY <2>1
    <3>2. /\ [t EXCEPT !.alone = FALSE].at = t.at /\ [t EXCEPT !.alone = FALSE].left = t.left
          /\ [t EXCEPT !.alone = FALSE].failed = t.failed /\ ~[t EXCEPT !.alone = FALSE].alone
          /\ [t EXCEPT !.alone = FALSE].stalled = t.stalled
      BY Zenon DEF Tasks
    <3> HIDE DEF Disturbed
    <3> QED
      BY <1>7, <2>1, <3>1, <3>2, Zenon
  <2>2. CASE ~UnderWay(t)
    BY <2>2, Zenon
  <2> QED
    BY <2>1, <2>2
<1> HIDE DEF Disturbed, new
<1>9. tasks' \in [Handlings -> Tasks]
  BY <1>1, <1>2, <1>5, <1>8
<1>10. tasks'[h] = new /\ \A g \in Handlings \ {h} : tasks'[g] = Disturbed(tasks[g])
  BY <1>1
<1> QED
  BY <1>1, <1>2, <1>6, <1>8, <1>9, <1>10, Zenon

\* The phases in which a task has legs that may pass.
LegPhases == {"checking", "approving", "filling", "settling"}

\* A leg passes: the last one takes the task to its next phase.
LEMMA PassWrites ==
  ASSUME TypeOK, NEW h \in Handlings, NEW c \in Chains,
         tasks[h].at \in LegPhases, LegPasses(h, c)
  PROVE  /\ tasks' \in [Handlings -> Tasks]
         /\ \A g \in Handlings \ {h} : tasks'[g] = tasks[g]
         /\ tasks'[h].failed = tasks[h].failed /\ tasks'[h].stalled = tasks[h].stalled
         /\ tasks'[h].alone = tasks[h].alone
         /\ LastLeg(h, c) =>
              /\ tasks'[h].at = After(tasks[h].at)
              /\ tasks'[h].left = IF tasks[h].at = "settling" THEN {} ELSE Legs[h[1]]
         /\ ~LastLeg(h, c) =>
              tasks'[h].at = tasks[h].at /\ tasks'[h].left = tasks[h].left \ {c}
<1>1. tasks \in [Handlings -> Tasks]
  BY DEF TypeOK
<1>2. CASE LastLeg(h, c)
  <2>1. PICK next \in Phases : next = After(tasks[h].at)
    BY DEF After, LegPhases, Phases
  <2>2. next = "settled" <=> tasks[h].at = "settling"
    BY <2>1 DEF After, LegPhases, Phases
  <2>3. PICK legs \in SUBSET Chains :
          legs = IF tasks[h].at = "settling" THEN {} ELSE Legs[h[1]]
    BY HandlingsAreOfOrders
  <2>4. tasks' = [tasks EXCEPT ![h].at = next, ![h].left = legs]
    BY <1>2, <2>1, <2>2, <2>3 DEF LegPasses
  <2>5. /\ tasks' \in [Handlings -> Tasks]
        /\ \A g \in Handlings \ {h} : tasks'[g] = tasks[g]
    BY <1>1, <2>4 DEF Tasks
  <2>6. /\ tasks'[h].at = next /\ tasks'[h].left = legs
        /\ tasks'[h].failed = tasks[h].failed /\ tasks'[h].stalled = tasks[h].stalled
        /\ tasks'[h].alone = tasks[h].alone
    BY <1>1, <2>4, Zenon DEF Tasks
  <2> QED
    BY <1>2, <2>1, <2>3, <2>5, <2>6
<1>3. CASE ~LastLeg(h, c)
  <2>1. tasks' = [tasks EXCEPT ![h].left = @ \ {c}]
    BY <1>3 DEF LegPasses
  <2>2. /\ tasks' \in [Handlings -> Tasks]
        /\ \A g \in Handlings \ {h} : tasks'[g] = tasks[g]
    BY <1>1, <2>1 DEF Tasks
  <2>3. /\ tasks'[h].at = tasks[h].at /\ tasks'[h].left = tasks[h].left \ {c}
        /\ tasks'[h].failed = tasks[h].failed /\ tasks'[h].stalled = tasks[h].stalled
        /\ tasks'[h].alone = tasks[h].alone
    BY <1>1, <2>1, Zenon DEF Tasks
  <2> QED
    BY <1>3, <2>2, <2>3
<1> QED
  BY <1>2, <1>3

\* A leg fails: the task stays in its phase.
LEMMA FailWrites ==
  ASSUME TypeOK, NEW h \in Handlings, NEW c \in Chains, LegFails(h, c)
  PROVE  /\ tasks' \in [Handlings -> Tasks]
         /\ \A g \in Handlings \ {h} : tasks'[g] = tasks[g]
         /\ tasks'[h].failed /\ tasks'[h].stalled = tasks[h].stalled
         /\ tasks'[h].alone = tasks[h].alone
         /\ tasks'[h].at = tasks[h].at /\ tasks'[h].left = tasks[h].left \ {c}
<1>1. tasks \in [Handlings -> Tasks]
  BY DEF TypeOK
<1>2. tasks' = [tasks EXCEPT ![h].left = @ \ {c}, ![h].failed = TRUE]
  BY DEF LegFails
<1>3. /\ tasks' \in [Handlings -> Tasks]
      /\ \A g \in Handlings \ {h} : tasks'[g] = tasks[g]
  BY <1>1, <1>2 DEF Tasks
<1>4. /\ tasks'[h].failed /\ tasks'[h].stalled = tasks[h].stalled
      /\ tasks'[h].alone = tasks[h].alone
      /\ tasks'[h].at = tasks[h].at /\ tasks'[h].left = tasks[h].left \ {c}
  BY <1>1, <1>2, Zenon DEF Tasks
<1> QED
  BY <1>3, <1>4

\* A leg stalls: the task stays in its phase.
LEMMA StallWrites ==
  ASSUME TypeOK, NEW h \in Handlings, NEW c \in Chains, Stalls(h, c)
  PROVE  /\ tasks' \in [Handlings -> Tasks]
         /\ \A g \in Handlings \ {h} : tasks'[g] = tasks[g]
         /\ tasks'[h].failed = tasks[h].failed /\ tasks'[h].stalled
         /\ tasks'[h].alone = tasks[h].alone
         /\ tasks'[h].at = tasks[h].at /\ tasks'[h].left = tasks[h].left \ {c}
<1>1. tasks \in [Handlings -> Tasks]
  BY DEF TypeOK
<1>2. tasks' = [tasks EXCEPT ![h].left = @ \ {c}, ![h].stalled = TRUE]
  BY DEF Stalls
<1>3. /\ tasks' \in [Handlings -> Tasks]
      /\ \A g \in Handlings \ {h} : tasks'[g] = tasks[g]
  BY <1>1, <1>2 DEF Tasks
<1>4. /\ tasks'[h].failed = tasks[h].failed /\ tasks'[h].stalled
      /\ tasks'[h].alone = tasks[h].alone
      /\ tasks'[h].at = tasks[h].at /\ tasks'[h].left = tasks[h].left \ {c}
  BY <1>1, <1>2, Zenon DEF Tasks
<1> QED
  BY <1>3, <1>4

\* The order is refused: the task is over.
LEMMA RefuseWrites ==
  ASSUME TypeOK, NEW h \in Handlings, Refuse(h)
  PROVE  /\ tasks[h] # NoTask
         /\ tasks' \in [Handlings -> Tasks]
         /\ \A g \in Handlings \ {h} : tasks'[g] = tasks[g]
         /\ tasks[h].at = "checking" /\ tasks'[h].stalled = tasks[h].stalled
         /\ tasks'[h].at = "refused" /\ tasks'[h].left = {}
<1>0. tasks[h].at = "checking"
  BY DEF Refuse
<1>1. tasks \in [Handlings -> Tasks]
  BY DEF TypeOK
<1>2. tasks' = [tasks EXCEPT ![h].at = "refused", ![h].left = {}]
  BY DEF Refuse
<1>3. "refused" \in Phases
  BY DEF Phases
<1>4. /\ tasks' \in [Handlings -> Tasks]
      /\ \A g \in Handlings \ {h} : tasks'[g] = tasks[g]
  BY <1>1, <1>2, <1>3 DEF Tasks
<1>5. tasks'[h].at = "refused" /\ tasks'[h].left = {} /\ tasks'[h].stalled = tasks[h].stalled
  BY <1>1, <1>2, Zenon DEF Tasks
<1>6. tasks[h] # NoTask
  BY <1>0 DEF NoTask
<1> QED
  BY <1>0, <1>4, <1>5, <1>6

(* The block a run begins from ********************************************)

\* A set of numbers up to a bound that is not empty has a highest one.
LEMMA HighestExists ==
  ASSUME NEW bound \in Nat, NEW S \in SUBSET (0 .. bound), S # {}
  PROVE  \E x \in S : \A y \in S : y <= x
<1> DEFINE less == {p \in Nat \X Nat : p[1] < p[2]}
           below == {bound - x : x \in S}
<1>1. IsWellFoundedOn(less, Nat)
  BY NatLessThanWellFounded DEF OpToRel
<1>2. below \subseteq Nat /\ below # {}
  <2>1. \A x \in S : x \in 0 .. bound /\ bound - x \in Nat
    OBVIOUS
  <2>2. PICK x \in S : TRUE
    OBVIOUS
  <2>3. bound - x \in below
    OBVIOUS
  <2> QED
    BY <2>1, <2>3
<1>3. ASSUME NEW m \in Nat, NEW n \in Nat, <<m, n>> \notin less PROVE n <= m
  <2>1. m < n => <<m, n>> \in less
    OBVIOUS
  <2> QED
    BY <1>3, <2>1
<1> HIDE DEF less
<1>4. PICK least \in below : \A n \in below : ~(<<n, least>> \in less)
  <2> HIDE DEF below
  <2> QED
    BY <1>1, <1>2, WFMin, Zenon
<1>5. PICK x \in S : least = bound - x
  BY <1>4
<1>6. ASSUME NEW y \in S PROVE y <= x
  <2>1. bound - y \in below /\ bound - y \in Nat /\ least \in Nat
    BY <1>2
  <2>2. ~(<<bound - y, least>> \in less)
    BY <1>4, <2>1
  <2>3. least <= bound - y
    BY <1>3, <2>1, <2>2
  <2> QED
    BY <1>5, <2>3
<1> QED
  BY <1>6

\* LastIndexed is the highest block on record.
LEMMA LastIndexedIsHighest ==
  ASSUME TypeOK
  PROVE  /\ db = {} => LastIndexed = 0
         /\ db # {} =>
              /\ LastIndexed \in 1 .. MaxBlocks
              /\ \A r \in db : r.block <= LastIndexed
<1>1. db = {} => LastIndexed = 0
  BY DEF LastIndexed
<1>2. CASE db # {}
  <2> DEFINE blocks == {r.block : r \in db}
  <2>1. \A r \in db : r.block \in 1 .. MaxBlocks
    BY DEF TypeOK, Rows
  <2>2. blocks \in SUBSET (0 .. MaxBlocks) /\ blocks # {}
    BY <1>2, <2>1, SolverBounds
  <2>3. PICK highest \in blocks : \A b \in blocks : b <= highest
    <3> HIDE DEF blocks
    <3> QED
      BY <2>2, HighestExists, SolverBounds
  <2>4. PICK row \in db : highest = row.block
    BY <2>3
  <2>5. \A r \in db : r.block \in blocks
    OBVIOUS
  <2>6. \A r \in db : r.block <= row.block
    BY <2>3, <2>4, <2>5
  <2> DEFINE Highest(b) == (\E r \in db : r.block = b) /\ \A r \in db : r.block <= b
  <2>7. row.block \in Blocks /\ Highest(row.block)
    BY <2>1, <2>6, SolverBounds DEF Blocks
  <2>8. LastIndexed = CHOOSE b \in Blocks : Highest(b)
    BY <1>2 DEF LastIndexed
  <2> HIDE DEF Highest
  <2>9. Highest(LastIndexed)
    BY <2>7, <2>8
  <2> QED
    BY <1>2, <2>1, <2>9 DEF Highest
<1> QED
  BY <1>1, <1>2

\* A run begins at no lower block than any row, and knows by name the orders
\* of that block.
LEMMA BeginningCoversTheRows ==
  ASSUME TypeOK
  PROVE  /\ Beginning.from \in Blocks /\ Beginning.done \in SUBSET Orders
         /\ \A r \in db :
              /\ r.block <= Beginning.from
              /\ r.block = Beginning.from => r.id \in Beginning.done
<1>1. db \in SUBSET Rows
  BY DEF TypeOK
<1>2. LastIndexed \in Blocks
  BY LastIndexedIsHighest, SolverBounds DEF Blocks
<1>3. CASE LastIndexed # 0 /\ LastIndexed >= Configured
  <2>1. /\ Beginning.from = LastIndexed
        /\ Beginning.done = {r.id : r \in {s \in db : s.block = LastIndexed}}
    BY <1>3 DEF Beginning
  <2>2. \A r \in db : r.block = LastIndexed => r.id \in Beginning.done
    BY <2>1
  <2> QED
    BY <1>1, <1>2, <2>1, <2>2, LastIndexedIsHighest DEF Rows
<1>4. CASE ~(LastIndexed # 0 /\ LastIndexed >= Configured)
  <2>1. Beginning.from = Configured /\ Beginning.done = {}
    BY <1>4 DEF Beginning
  <2>2. Configured \in Blocks
    BY ConfiguredIsABlock DEF Blocks
  <2>3. \A r \in db : r.block < Configured
    <3> SUFFICES ASSUME NEW r \in db PROVE r.block < Configured
      OBVIOUS
    <3>1. LastIndexed \in 1 .. MaxBlocks /\ r.block <= LastIndexed
      BY LastIndexedIsHighest
    <3>2. r.block \in 1 .. MaxBlocks
      BY <1>1 DEF Rows
    <3> QED
      BY <1>4, <3>1, <3>2, ConfiguredIsABlock, SolverBounds
  <2>4. \A r \in db : r.block \in Nat
    BY <1>1, SolverBounds DEF Rows
  <2> QED
    BY <2>1, <2>2, <2>3, <2>4, ConfiguredIsABlock, SolverBounds
<1> QED
  BY <1>3, <1>4

(* Types ******************************************************************)

LEMMA InitIInv == Init => IInv
<1> SUFFICES ASSUME Init PROVE IInv
  OBVIOUS
<1>1. \A h \in Handlings : tasks[h] = NoTask
  BY DEF Init, NoTasks
<1>2. NoTask \in Tasks /\ NoTask.at = "none" /\ NoTask.left = {} /\ ~NoTask.stalled
  BY DEF NoTask, Tasks, Phases
<1>3. TypeOK
  <2>1. NoTasks \in [Handlings -> Tasks]
    BY <1>2 DEF NoTasks
  <2>2. [c \in Chains |-> Funds[c]] \in [Chains -> Nat]
    BY FundsAreNat
  <2>3. 0 \in Blocks /\ 0 \in 0 .. MaxStarts
    BY SolverBounds DEF Blocks
  <2>4. /\ block \in [Orders -> Blocks]
        /\ tasks \in [Handlings -> Tasks] /\ funds \in [Chains -> Nat]
    BY <2>1, <2>2, <2>3 DEF Init
  <2> QED
    BY <2>3, <2>4 DEF Init, TypeOK
<1>4. OnlyOpened
  BY <1>1 DEF Init, OnlyOpened
<1>5. LegsAreDone
  BY <1>1, <1>2 DEF LegsAreDone, LegsAt
<1>6. MoneyIsThere
  BY <1>1, <1>2 DEF MoneyIsThere, MoneyFor, UnderWay
<1> QED
  BY <1>3, <1>4, <1>5, <1>6
     DEF IInv, Init, OnlyFilledIsRecorded, SavedStay, SavedIsNotHandledAgain

\* The transaction that fills a leg.
LEMMA FillsWrites ==
  ASSUME IInv, NEW h \in Handlings, NEW c \in Chains, Fills(h, c)
  PROVE  /\ filled' \in SUBSET AllLegs /\ <<h[1], c>> \in filled' /\ filled \subseteq filled'
         /\ funds' \in [Chains -> Nat]
         /\ \A d \in Chains \ {c} : funds'[d] = funds[d]
<1>1. funds \in [Chains -> Nat] /\ filled \in SUBSET AllLegs
  BY DEF IInv, TypeOK
<1>2. c \in Legs[h[1]]
  BY DEF IInv, LegsAreDone, LegsAt, Fills, Leg
<1>3. <<h[1], c>> \in AllLegs
  BY <1>2, HandlingsAreOfOrders DEF AllLegs
<1> QED
  BY <1>1, <1>3 DEF Fills

\* The row of an order under way.
LEMMA RowOfTask ==
  ASSUME IInv, NEW h \in Handlings, NEW c \in tasks[h].left
  PROVE  /\ RowOf(h) \in Rows
         /\ RowOf(h).id = h[1] /\ RowOf(h).block = block[h[1]]
<1>1. tasks[h] # NoTask
  BY DEF NoTask
<1>2. block[h[1]] # 0 /\ block[h[1]] \in 0 .. MaxBlocks /\ h[1] \in Orders
  BY <1>1, HandlingsAreOfOrders DEF IInv, OnlyOpened, TypeOK, Blocks
<1>3. block[h[1]] \in 1 .. MaxBlocks
  BY <1>2, SolverBounds
<1> QED
  BY <1>2, <1>3 DEF RowOf, Rows

LEMMA TypesStep == IInv /\ [Next]_vars => TypeOK'
<1> SUFFICES ASSUME IInv, [Next]_vars PROVE TypeOK'
  OBVIOUS
<1> USE DEF chainVars, accountVars, runVars
<1>0. TypeOK
  BY DEF IInv
<1>1. CASE UNCHANGED vars
  BY <1>0, <1>1 DEF TypeOK, vars
<1>2. ASSUME NEW opened \in SUBSET Orders, MineBlock(opened) PROVE TypeOK'
  BY <1>0, <1>2, SolverBounds DEF TypeOK, MineBlock, Blocks
<1>3. ASSUME NEW o \in Orders, NEW c \in Chains, OtherSolverFills(o, c) PROVE TypeOK'
  <2>1. filled' \in SUBSET AllLegs
    BY <1>0, <1>3 DEF TypeOK, OtherSolverFills, AllLegs
  <2> QED
    BY <1>0, <1>3, <2>1 DEF TypeOK, OtherSolverFills
<1>4. CASE Start
  <2>1. Beginning.from \in Blocks /\ Beginning.done \in SUBSET Orders
    BY <1>0, BeginningCoversTheRows
  <2>2. backfill' \in SUBSET Orders /\ savedBefore' \in SUBSET Orders
    BY <1>0, <1>4 DEF Start, TypeOK, Rows
  <2>3. starts' \in 0 .. MaxStarts
    BY <1>0, <1>4, SolverBounds DEF Start, TypeOK
  <2> QED
    BY <1>0, <1>4, <2>1, <2>2, <2>3 DEF TypeOK, Start
<1>5. CASE Crash
  <2>1. NoTasks \in [Handlings -> Tasks]
    BY DEF NoTasks, NoTask, Tasks, Phases
  <2> QED
    BY <1>0, <1>5, <2>1 DEF TypeOK, Crash
<1>6. ASSUME NEW h \in Handlings, PollHands(h) PROVE TypeOK'
  <2>1. tasks' \in [Handlings -> Tasks]
    BY <1>0, <1>6, BeginWrites DEF PollHands
  <2> QED
    BY <1>0, <1>6, <2>1 DEF TypeOK, PollHands
<1>7. ASSUME NEW o \in Orders, BackfillHands(o) PROVE TypeOK'
  <2>1. tasks' \in [Handlings -> Tasks]
    BY <1>0, <1>7, BeginWrites, HandlingsAreOfOrders DEF BackfillHands
  <2> QED
    BY <1>0, <1>7, <2>1 DEF TypeOK, BackfillHands
<1>8. ASSUME NEW h \in Handlings, Refuse(h) PROVE TypeOK'
  <2>1. tasks' \in [Handlings -> Tasks]
    BY <1>0, <1>8, RefuseWrites
  <2> QED
    BY <1>0, <1>8, <2>1 DEF TypeOK, Refuse
<1>9. ASSUME NEW h \in Handlings, NEW c \in Chains, LegStep(h, c) PROVE TypeOK'
  <2>1. CASE EnoughBalance(h, c)
    <3>1. tasks' \in [Handlings -> Tasks]
      BY <1>0, <2>1, PassWrites DEF EnoughBalance, Leg, LegPhases
    <3> QED
      BY <1>0, <2>1, <3>1 DEF TypeOK, EnoughBalance
  <2>2. CASE Approve(h, c)
    <3>1. tasks' \in [Handlings -> Tasks]
      BY <1>0, <2>2, PassWrites DEF Approve, Leg, LegPhases
    <3> QED
      BY <1>0, <2>2, <3>1 DEF TypeOK, Approve
  <2>3. CASE ApproveFails(h, c)
    <3>1. tasks' \in [Handlings -> Tasks]
      BY <1>0, <2>3, FailWrites DEF ApproveFails
    <3> QED
      BY <1>0, <2>3, <3>1 DEF TypeOK, ApproveFails
  <2>4. CASE Fill(h, c)
    <3>1. Fills(h, c) /\ LegPasses(h, c) /\ Leg(h, "filling", c)
      BY <2>4 DEF Fill, Fills
    <3>2. tasks' \in [Handlings -> Tasks]
      BY <1>0, <3>1, PassWrites DEF Leg, LegPhases
    <3>3. saves' \in SUBSET Rows
      <4>1. RowOf(h) \in Rows
        BY <3>1, RowOfTask DEF Leg
      <4> QED
        BY <1>0, <2>4, <4>1 DEF Fill, TypeOK
    <3>4. filled' \in SUBSET AllLegs /\ funds' \in [Chains -> Nat]
      BY <3>1, FillsWrites
    <3> QED
      BY <1>0, <3>1, <3>2, <3>3, <3>4 DEF TypeOK, Fills
  <2>5. CASE FillFails(h, c)
    <3>1. tasks' \in [Handlings -> Tasks]
      BY <1>0, <2>5, FailWrites DEF FillFails
    <3> QED
      BY <1>0, <2>5, <3>1 DEF TypeOK, FillFails
  <2>6. CASE FillReplyLost(h, c)
    <3>1. Fills(h, c) /\ LegFails(h, c) /\ UNCHANGED saves
      BY <2>6 DEF FillReplyLost
    <3>2. tasks' \in [Handlings -> Tasks]
      BY <1>0, <3>1, FailWrites
    <3>3. filled' \in SUBSET AllLegs /\ funds' \in [Chains -> Nat]
      BY <3>1, FillsWrites
    <3> QED
      BY <1>0, <3>1, <3>2, <3>3 DEF TypeOK, Fills
  <2>7. CASE Settle(h, c)
    <3>1. tasks' \in [Handlings -> Tasks]
      BY <1>0, <2>7, PassWrites DEF Settle, Leg, LegPhases
    <3> QED
      BY <1>0, <2>7, <3>1 DEF TypeOK, Settle
  <2>8. CASE SettleFails(h, c)
    <3>1. tasks' \in [Handlings -> Tasks]
      BY <1>0, <2>8, PassWrites DEF SettleFails, Leg, LegPhases
    <3> QED
      BY <1>0, <2>8, <3>1 DEF TypeOK, SettleFails
  <2>9. CASE Stalls(h, c)
    <3>1. tasks' \in [Handlings -> Tasks]
      BY <1>0, <2>9, StallWrites
    <3> QED
      BY <1>0, <2>9, <3>1 DEF TypeOK, Stalls
  <2> QED
    BY <1>9, <2>1, <2>2, <2>3, <2>4, <2>5, <2>6, <2>7, <2>8, <2>9 DEF LegStep
<1>10. ASSUME NEW row \in saves, Saved(row) PROVE TypeOK'
  BY <1>0, <1>10 DEF TypeOK, Saved
<1>11. ASSUME NEW to \in Blocks, Poll(to) PROVE TypeOK'
  BY <1>0, <1>11 DEF TypeOK, Poll
<1> QED
  BY <1>1, <1>2, <1>3, <1>4, <1>5, <1>6, <1>7, <1>8, <1>9, <1>10, <1>11 DEF Next, TaskStep

(* What is opened *********************************************************)

\* A step of a leg writes in its own task, which is under way, and takes
\* nothing back on the chains; only the last leg to be filled saves a row.
LEMMA LegStepIsLocal ==
  ASSUME IInv, NEW h \in Handlings, NEW c \in Chains, LegStep(h, c)
  PROVE  /\ up /\ c \in tasks[h].left /\ tasks[h] # NoTask
         /\ \A g \in Handlings \ {h} : tasks'[g] = tasks[g]
         /\ tasks'[h].alone = tasks[h].alone
         /\ UNCHANGED <<chainVars, runVars, polled, backfill, db>>
         /\ saves \subseteq saves' /\ saves' \subseteq saves \cup {RowOf(h)}
         /\ approved \subseteq approved' /\ filled \subseteq filled'
<1>0. TypeOK
  BY DEF IInv
<1>1. up /\ c \in tasks[h].left /\ tasks[h].at \in LegPhases
  BY DEF LegStep, EnoughBalance, Approve, ApproveFails, Fill, FillFails, FillReplyLost,
         Fills, Settle, SettleFails, Stalls, Leg, LegPhases
<1>2. tasks[h] # NoTask
  BY <1>1 DEF NoTask
<1>3. LegPasses(h, c) \/ LegFails(h, c) \/ Stalls(h, c)
  BY DEF LegStep, EnoughBalance, Approve, ApproveFails, Fill, FillFails, FillReplyLost,
         Settle, SettleFails
<1>4. /\ \A g \in Handlings \ {h} : tasks'[g] = tasks[g]
      /\ tasks'[h].alone = tasks[h].alone
  BY <1>0, <1>1, <1>3, PassWrites, FailWrites, StallWrites
<1>5. /\ UNCHANGED <<chainVars, runVars, polled, backfill, db>>
      /\ saves \subseteq saves' /\ saves' \subseteq saves \cup {RowOf(h)}
      /\ approved \subseteq approved' /\ filled \subseteq filled'
  BY DEF LegStep, EnoughBalance, Approve, ApproveFails, Fill, FillFails, FillReplyLost,
         Fills, Settle, SettleFails, Stalls, accountVars
<1> QED
  BY <1>1, <1>2, <1>4, <1>5

LEMMA OpenedStep == IInv /\ [Next]_vars => OnlyOpened'
<1> SUFFICES ASSUME IInv, [Next]_vars PROVE OnlyOpened'
  OBVIOUS
<1> USE DEF chainVars, accountVars, runVars
<1>0. TypeOK /\ OnlyOpened
  BY DEF IInv
<1>1. CASE UNCHANGED vars
  BY <1>0, <1>1 DEF OnlyOpened, vars
<1>2. ASSUME NEW opened \in SUBSET Orders, MineBlock(opened) PROVE OnlyOpened'
  <2>1. \A o \in Orders : block'[o] = IF o \in opened THEN head + 1 ELSE block[o]
    BY <1>2 DEF MineBlock
  <2>2. \A o \in Orders : block[o] # 0 => block'[o] = block[o]
    BY <1>2, <2>1 DEF MineBlock
  <2>3. head \in Nat /\ \A o \in Orders : block[o] \in Nat
    BY <1>0, SolverBounds DEF TypeOK, Blocks
  <2>4. \A o \in Orders : block'[o] <= head'
    BY <1>0, <1>2, <2>1, <2>3 DEF MineBlock, OnlyOpened
  <2>5. \A row \in saves \cup db : row.id \in Orders /\ row.block # 0
    BY <1>0, SolverBounds DEF TypeOK, Rows
  <2>6. \A row \in saves' \cup db' : block'[row.id] = row.block
    BY <1>0, <1>2, <2>2, <2>5 DEF MineBlock, OnlyOpened
  <2>7. \A o \in backfill' : block'[o] # 0
    BY <1>0, <1>2, <2>2 DEF MineBlock, OnlyOpened, TypeOK
  <2>8. \A h \in Handlings : tasks'[h] # NoTask => up' /\ block'[h[1]] # 0
    BY <1>0, <1>2, <2>2, HandlingsAreOfOrders DEF MineBlock, OnlyOpened
  <2> QED
    BY <2>4, <2>6, <2>7, <2>8 DEF OnlyOpened
<1>3. ASSUME NEW o \in Orders, NEW c \in Chains, OtherSolverFills(o, c) PROVE OnlyOpened'
  BY <1>0, <1>3 DEF OnlyOpened, OtherSolverFills
<1>4. CASE Start
  <2>1. \A h \in Handlings : tasks'[h] = NoTask
    BY <1>0, <1>4 DEF OnlyOpened, Start
  <2>2. \A o \in backfill' : block[o] # 0
    BY <1>0, <1>4, BeginningCoversTheRows, SolverBounds DEF Start, TypeOK, Blocks
  <2> QED
    BY <1>0, <1>4, <2>1, <2>2 DEF OnlyOpened, Start
<1>5. CASE Crash
  <2>1. \A h \in Handlings : tasks'[h] = NoTask
    BY <1>5 DEF Crash, NoTasks
  <2> QED
    BY <1>0, <1>5, <2>1 DEF OnlyOpened, Crash
<1>6. ASSUME NEW h \in Handlings, PollHands(h) PROVE OnlyOpened'
  <2>1. /\ up /\ \A g \in Handlings \ {h} : tasks[g] = NoTask => tasks'[g] = NoTask
    BY <1>0, <1>6, BeginWrites DEF PollHands, UnderWay, NoTask
  <2>2. block[h[1]] # 0
    BY <1>0, <1>6, SolverBounds DEF PollHands, TypeOK, Blocks
  <2> QED
    BY <1>0, <1>6, <2>1, <2>2 DEF OnlyOpened, PollHands
<1>7. ASSUME NEW o \in Orders, BackfillHands(o) PROVE OnlyOpened'
  <2> DEFINE h == <<o, 1>>
  <2>0. h \in Handlings /\ h[1] = o /\ Begin(h)
    BY <1>7, HandlingsAreOfOrders DEF BackfillHands
  <2> HIDE DEF h
  <2>1. up /\ \A g \in Handlings \ {h} : tasks[g] = NoTask => tasks'[g] = NoTask
    BY <1>0, <2>0, BeginWrites DEF UnderWay, NoTask
  <2> QED
    BY <1>0, <1>7, <2>0, <2>1 DEF OnlyOpened, BackfillHands
<1>8. ASSUME NEW h \in Handlings, Refuse(h) PROVE OnlyOpened'
  <2>1. tasks[h] # NoTask /\ \A g \in Handlings \ {h} : tasks'[g] = tasks[g]
    BY <1>0, <1>8, RefuseWrites
  <2>2. UNCHANGED <<head, block, up, backfill, saves, db>>
    BY <1>8 DEF Refuse
  <2> QED
    BY <1>0, <2>1, <2>2 DEF OnlyOpened
<1>9. ASSUME NEW h \in Handlings, NEW c \in Chains, LegStep(h, c) PROVE OnlyOpened'
  <2>1. /\ tasks[h] # NoTask /\ \A g \in Handlings \ {h} : tasks'[g] = tasks[g]
        /\ UNCHANGED <<head, block, up, backfill, db>>
        /\ saves' \subseteq saves \cup {RowOf(h)}
    BY <1>9, LegStepIsLocal
  <2>2. RowOf(h).id = h[1] /\ RowOf(h).block = block[h[1]]
    BY <1>9, LegStepIsLocal, RowOfTask
  <2> QED
    BY <1>0, <2>1, <2>2 DEF OnlyOpened
<1>10. ASSUME NEW row \in saves, Saved(row) PROVE OnlyOpened'
  BY <1>0, <1>10 DEF OnlyOpened, Saved
<1>11. ASSUME NEW to \in Blocks, Poll(to) PROVE OnlyOpened'
  BY <1>0, <1>11 DEF OnlyOpened, Poll
<1> QED
  BY <1>1, <1>2, <1>3, <1>4, <1>5, <1>6, <1>7, <1>8, <1>9, <1>10, <1>11 DEF Next, TaskStep

(* What is filled *********************************************************)

\* What is approved and filled stays so: a task that does not move is where it
\* was.
LEMMA LegsStay ==
  ASSUME NEW h \in Handlings, LegsAt(h),
         tasks'[h].at = tasks[h].at, tasks'[h].left = tasks[h].left,
         tasks'[h].failed = tasks[h].failed, tasks'[h].stalled = tasks[h].stalled,
         approved \subseteq approved', filled \subseteq filled'
  PROVE  LegsAt(h)'
BY DEF LegsAt, Complete, AllWell

LEMMA RecordStays ==
  ASSUME OnlyFilledIsRecorded, filled \subseteq filled', settled' = settled,
         saves' \cup db' \subseteq saves \cup db
  PROVE  OnlyFilledIsRecorded'
BY DEF OnlyFilledIsRecorded, Complete

\* The moves of a task.
LEMMA LegsMove ==
  ASSUME IInv, NEW h \in Handlings, NEW c \in Chains, LegStep(h, c)
  PROVE  LegsAt(h)' /\ OnlyFilledIsRecorded'
<1>0. TypeOK /\ LegsAt(h) /\ OnlyFilledIsRecorded
  BY DEF IInv, LegsAreDone
<1>1. /\ c \in tasks[h].left /\ c \in Legs[h[1]]
      /\ approved \subseteq approved' /\ filled \subseteq filled'
      /\ tasks[h].failed \in BOOLEAN /\ tasks[h].stalled \in BOOLEAN
  BY <1>0, LegStepIsLocal DEF LegsAt, TypeOK, Tasks
<1>2. CASE EnoughBalance(h, c)
  <2>1. /\ tasks[h].at = "checking" /\ LegPasses(h, c)
        /\ UNCHANGED <<saves, db, filled, settled>>
    BY <1>2 DEF EnoughBalance, Leg, accountVars
  <2>2. CASE LastLeg(h, c)
    <3>1. tasks'[h].at = "approving" /\ tasks'[h].left = Legs[h[1]]
      BY <1>0, <2>1, <2>2, PassWrites DEF LegPhases, After
    <3>2. LegsAt(h)'
      BY <3>1 DEF LegsAt, AllWell
    <3> QED
      BY <1>0, <1>1, <2>1, <3>2, RecordStays
  <2>3. CASE ~LastLeg(h, c)
    <3>1. /\ tasks'[h].at = "checking" /\ tasks'[h].left = tasks[h].left \ {c}
          /\ tasks'[h].stalled = tasks[h].stalled
      BY <1>0, <2>1, <2>3, PassWrites DEF LegPhases
    <3>2. LegsAt(h)'
      BY <1>0, <2>1, <3>1 DEF LegsAt, AllWell
    <3> QED
      BY <1>0, <1>1, <2>1, <3>2, RecordStays
  <2> QED
    BY <2>2, <2>3
<1>3. CASE Approve(h, c)
  <2>1. /\ tasks[h].at = "approving" /\ LegPasses(h, c) /\ approved' = approved \cup {c}
        /\ UNCHANGED <<saves, db, filled, settled>>
    BY <1>3 DEF Approve, Leg
  <2>2. CASE LastLeg(h, c)
    <3>1. tasks'[h].at = "filling" /\ tasks'[h].left = Legs[h[1]]
      BY <1>0, <2>1, <2>2, PassWrites DEF LegPhases, After
    <3>2. tasks[h].left = {c} /\ ~tasks[h].failed /\ ~tasks[h].stalled
      BY <2>2 DEF LastLeg
    <3>3. Legs[h[1]] \subseteq approved'
      BY <1>0, <2>1, <3>2 DEF LegsAt, AllWell
    <3>4. LegsAt(h)'
      BY <3>1, <3>3 DEF LegsAt, AllWell
    <3> QED
      BY <1>0, <1>1, <2>1, <3>4, RecordStays
  <2>3. CASE ~LastLeg(h, c)
    <3>1. /\ tasks'[h].at = "approving" /\ tasks'[h].left = tasks[h].left \ {c}
          /\ tasks'[h].failed = tasks[h].failed /\ tasks'[h].stalled = tasks[h].stalled
      BY <1>0, <2>1, <2>3, PassWrites DEF LegPhases
    <3>2. LegsAt(h)'
      BY <1>0, <2>1, <3>1 DEF LegsAt, AllWell
    <3> QED
      BY <1>0, <1>1, <2>1, <3>2, RecordStays
  <2> QED
    BY <2>2, <2>3
<1>4. CASE ApproveFails(h, c) \/ FillFails(h, c) \/ FillReplyLost(h, c)
  <2>1. /\ tasks[h].at \in {"approving", "filling"} /\ LegFails(h, c)
        /\ UNCHANGED <<saves, db, settled>>
    BY <1>4 DEF ApproveFails, FillFails, FillReplyLost, Fills, Leg, accountVars
  <2>2. /\ tasks'[h].at = tasks[h].at /\ tasks'[h].left = tasks[h].left \ {c}
        /\ tasks'[h].failed
    BY <1>0, <2>1, FailWrites
  <2>3. LegsAt(h)'
    BY <1>0, <1>1, <2>1, <2>2 DEF LegsAt, AllWell
  <2> QED
    BY <1>0, <1>1, <2>1, <2>3, RecordStays
<1>5. CASE Fill(h, c)
  <2>1. /\ tasks[h].at = "filling" /\ LegPasses(h, c)
        /\ saves' = IF LastLeg(h, c) THEN saves \cup {RowOf(h)} ELSE saves
        /\ UNCHANGED <<db, approved, settled>>
    BY <1>5 DEF Fill, Fills, Leg
  <2>2. <<h[1], c>> \in filled'
    BY <1>5, FillsWrites DEF Fill
  <2>3. CASE LastLeg(h, c)
    <3>1. tasks'[h].at = "settling" /\ tasks'[h].left = Legs[h[1]]
      BY <1>0, <2>1, <2>3, PassWrites DEF LegPhases, After
    <3>2. tasks[h].left = {c} /\ ~tasks[h].failed /\ ~tasks[h].stalled
      BY <2>3 DEF LastLeg
    <3>3. Complete(h[1])'
      BY <1>0, <1>1, <2>1, <2>2, <3>2 DEF LegsAt, AllWell, Complete
    <3>4. LegsAt(h)'
      BY <3>1, <3>3 DEF LegsAt, AllWell
    <3>5. RowOf(h).id = h[1] /\ saves' = saves \cup {RowOf(h)}
      BY <1>1, <2>1, <2>3, RowOfTask
    <3>6. \A o : Complete(o) => Complete(o)'
      BY <1>1 DEF Complete
    <3> QED
      BY <1>0, <2>1, <3>3, <3>4, <3>5, <3>6 DEF OnlyFilledIsRecorded
  <2>4. CASE ~LastLeg(h, c)
    <3>1. /\ tasks'[h].at = "filling" /\ tasks'[h].left = tasks[h].left \ {c}
          /\ tasks'[h].failed = tasks[h].failed /\ tasks'[h].stalled = tasks[h].stalled
      BY <1>0, <2>1, <2>4, PassWrites DEF LegPhases
    <3>2. LegsAt(h)'
      BY <1>0, <1>1, <2>1, <2>2, <3>1 DEF LegsAt, AllWell
    <3> QED
      BY <1>0, <1>1, <2>1, <2>4, <3>2, RecordStays
  <2> QED
    BY <2>3, <2>4
<1>6. CASE Settle(h, c) \/ SettleFails(h, c)
  <2>1. /\ tasks[h].at = "settling" /\ LegPasses(h, c)
        /\ UNCHANGED <<saves, db, filled>>
        /\ settled' \subseteq settled \cup {<<h[1], c>>}
    BY <1>6 DEF Settle, SettleFails, Leg, accountVars
  <2>2. Complete(h[1])
    BY <1>0, <2>1 DEF LegsAt, AllWell
  <2>3. /\ tasks'[h].at \in {"settling", "settled"}
        /\ tasks'[h].left \in {{}, tasks[h].left \ {c}}
        /\ tasks'[h].at = "settled" => tasks'[h].left = {} /\ ~tasks'[h].stalled
    BY <1>0, <2>1, PassWrites DEF LegPhases, After, LastLeg
  <2>4. LegsAt(h)'
    BY <1>0, <2>1, <2>2, <2>3 DEF LegsAt, AllWell, Complete
  <2>5. OnlyFilledIsRecorded'
    BY <1>0, <2>1, <2>2 DEF OnlyFilledIsRecorded, Complete
  <2> QED
    BY <2>4, <2>5
<1>7. CASE Stalls(h, c)
  <2>1. /\ tasks[h].at \in {"approving", "filling", "settling"}
        /\ UNCHANGED <<saves, db, filled, settled>>
    BY <1>7 DEF Stalls, accountVars
  <2>2. /\ tasks'[h].at = tasks[h].at /\ tasks'[h].left = tasks[h].left \ {c}
        /\ tasks'[h].stalled
    BY <1>0, <1>7, StallWrites
  <2>3. LegsAt(h)'
    BY <1>0, <1>1, <2>1, <2>2 DEF LegsAt, AllWell, Complete
  <2> QED
    BY <1>0, <1>1, <2>1, <2>3, RecordStays
<1> QED
  BY <1>2, <1>3, <1>4, <1>5, <1>6, <1>7 DEF LegStep

LEMMA LegsStep == IInv /\ [Next]_vars => LegsAreDone' /\ OnlyFilledIsRecorded'
<1> SUFFICES ASSUME IInv, [Next]_vars PROVE LegsAreDone' /\ OnlyFilledIsRecorded'
  OBVIOUS
<1> USE DEF chainVars, accountVars, runVars
<1>0. /\ TypeOK /\ OnlyFilledIsRecorded
      /\ \A h \in Handlings : LegsAt(h)
  BY DEF IInv, LegsAreDone
<1>1. CASE UNCHANGED <<tasks, approved, filled, settled>> /\ saves' \cup db' \subseteq saves \cup db
  BY <1>0, <1>1, LegsStay, RecordStays DEF LegsAreDone
<1>2. ASSUME NEW o \in Orders, NEW c \in Chains, OtherSolverFills(o, c)
      PROVE  LegsAreDone' /\ OnlyFilledIsRecorded'
  <2>1. UNCHANGED <<tasks, approved, settled, saves, db>> /\ filled \subseteq filled'
    BY <1>2 DEF OtherSolverFills
  <2> QED
    BY <1>0, <2>1, LegsStay, RecordStays DEF LegsAreDone
<1>3. CASE Crash
  <2>1. \A h \in Handlings : tasks'[h].at = "none" /\ tasks'[h].left = {} /\ ~tasks'[h].stalled
    BY <1>3 DEF Crash, NoTasks, NoTask
  <2>2. \A h \in Handlings : LegsAt(h)'
    BY <2>1 DEF LegsAt
  <2>3. filled \subseteq filled' /\ settled' = settled /\ saves' \cup db' \subseteq saves \cup db
    BY <1>3 DEF Crash
  <2> QED
    BY <1>0, <2>2, <2>3, RecordStays DEF LegsAreDone
<1>4. ASSUME NEW h \in Handlings, Begin(h), UNCHANGED <<approved, filled, settled, saves, db>>
      PROVE  LegsAreDone' /\ OnlyFilledIsRecorded'
  <2>1. tasks'[h].at = "checking" /\ tasks'[h].left = Legs[h[1]] /\ ~tasks'[h].stalled
    BY <1>0, <1>4, BeginWrites
  <2>2. LegsAt(h)'
    BY <2>1 DEF LegsAt
  <2>3. \A g \in Handlings \ {h} :
          /\ tasks'[g].at = tasks[g].at /\ tasks'[g].left = tasks[g].left
          /\ tasks'[g].failed = tasks[g].failed /\ tasks'[g].stalled = tasks[g].stalled
    BY <1>0, <1>4, BeginWrites
  <2>4. \A g \in Handlings \ {h} : LegsAt(g)'
    BY <1>0, <1>4, <2>3, LegsStay
  <2> QED
    BY <1>0, <1>4, <2>2, <2>4, RecordStays DEF LegsAreDone
<1>5. ASSUME NEW h \in Handlings, Refuse(h)
      PROVE  LegsAreDone' /\ OnlyFilledIsRecorded'
  <2>1. /\ tasks'[h].at = "refused" /\ tasks'[h].left = {} /\ ~tasks'[h].stalled
        /\ \A g \in Handlings \ {h} : tasks'[g] = tasks[g]
    BY <1>0, <1>5, RefuseWrites DEF LegsAt
  <2>2. UNCHANGED <<approved, filled, settled, saves, db>>
    BY <1>5 DEF Refuse
  <2>3. LegsAt(h)'
    BY <2>1 DEF LegsAt
  <2>4. \A g \in Handlings \ {h} : LegsAt(g)'
    BY <1>0, <2>1, <2>2, LegsStay
  <2> QED
    BY <1>0, <2>2, <2>3, <2>4, RecordStays DEF LegsAreDone
<1>6. ASSUME NEW h \in Handlings, NEW c \in Chains, LegStep(h, c)
      PROVE  LegsAreDone' /\ OnlyFilledIsRecorded'
  <2>1. LegsAt(h)' /\ OnlyFilledIsRecorded'
    BY <1>6, LegsMove
  <2>2. /\ \A g \in Handlings \ {h} : tasks'[g] = tasks[g]
        /\ approved \subseteq approved' /\ filled \subseteq filled'
    BY <1>6, LegStepIsLocal
  <2>3. \A g \in Handlings \ {h} : LegsAt(g)'
    BY <1>0, <2>2, LegsStay
  <2> QED
    BY <2>1, <2>3 DEF LegsAreDone
<1>7. CASE UNCHANGED vars
  BY <1>1, <1>7 DEF vars
<1>8. ASSUME NEW opened \in SUBSET Orders, MineBlock(opened)
      PROVE  LegsAreDone' /\ OnlyFilledIsRecorded'
  BY <1>1, <1>8 DEF MineBlock
<1>9. CASE Start
  BY <1>1, <1>9 DEF Start
<1>10. ASSUME NEW row \in saves, Saved(row) PROVE LegsAreDone' /\ OnlyFilledIsRecorded'
  BY <1>1, <1>10 DEF Saved
<1>11. ASSUME NEW h \in Handlings, PollHands(h) PROVE LegsAreDone' /\ OnlyFilledIsRecorded'
  BY <1>4, <1>11 DEF PollHands
<1>12. ASSUME NEW o \in Orders, BackfillHands(o) PROVE LegsAreDone' /\ OnlyFilledIsRecorded'
  BY <1>4, <1>12, HandlingsAreOfOrders DEF BackfillHands
<1>13. ASSUME NEW to \in Blocks, Poll(to) PROVE LegsAreDone' /\ OnlyFilledIsRecorded'
  BY <1>1, <1>13 DEF Poll
<1> QED
  BY <1>2, <1>3, <1>5, <1>6, <1>7, <1>8, <1>9, <1>10, <1>11, <1>12, <1>13 DEF Next, TaskStep

(* What can be paid *******************************************************)

\* The moves of a task: what it checked for is there until it spends it.
LEMMA MoneyMoves ==
  ASSUME IInv, NEW h \in Handlings, NEW c \in Chains, LegStep(h, c)
  PROVE  MoneyFor(h)'
<1>0. TypeOK /\ MoneyFor(h) /\ LegsAt(h)
  BY DEF IInv, MoneyIsThere, LegsAreDone
<1>1. /\ c \in tasks[h].left /\ tasks'[h].alone = tasks[h].alone
      /\ \A g \in Handlings \ {h} : tasks'[g] = tasks[g]
  BY LegStepIsLocal
<1> SUFFICES ASSUME tasks[h].alone, UnderWay(tasks'[h])
             PROVE  MoneyFor(h)'
  BY <1>1 DEF MoneyFor
<1>2. UnderWay(tasks[h]) /\ \A g \in Handlings \ {h} : ~UnderWay(tasks'[g])
  BY <1>0, <1>1 DEF MoneyFor, UnderWay
<1>3. funds \in [Chains -> Nat] /\ Legs[h[1]] \subseteq Chains
  BY <1>0, HandlingsAreOfOrders DEF TypeOK
<1>4. CASE EnoughBalance(h, c)
  <2>1. /\ tasks[h].at = "checking" /\ funds[c] >= 1 /\ LegPasses(h, c) /\ funds' = funds
    BY <1>4 DEF EnoughBalance, Leg, accountVars
  <2>2. CASE LastLeg(h, c)
    <3>1. tasks'[h].at = "approving"
      BY <1>0, <2>1, <2>2, PassWrites DEF LegPhases, After
    <3>2. \A d \in Legs[h[1]] : funds[d] >= 1
      BY <1>0, <1>2, <2>1, <2>2 DEF MoneyFor, LastLeg
    <3> QED
      BY <1>2, <2>1, <3>1, <3>2 DEF MoneyFor
  <2>3. CASE ~LastLeg(h, c)
    <3>1. /\ tasks'[h].at = "checking" /\ tasks'[h].left = tasks[h].left \ {c}
          /\ tasks'[h].failed = tasks[h].failed
      BY <1>0, <2>1, <2>3, PassWrites DEF LegPhases
    <3>2. ~tasks[h].failed => \A d \in Legs[h[1]] \ tasks'[h].left : funds[d] >= 1
      BY <1>0, <1>2, <2>1, <3>1 DEF MoneyFor
    <3> QED
      BY <1>2, <2>1, <3>1, <3>2 DEF MoneyFor
  <2> QED
    BY <2>2, <2>3
<1>5. CASE Approve(h, c) \/ ApproveFails(h, c)
  <2>1. /\ tasks[h].at = "approving" /\ (LegPasses(h, c) \/ LegFails(h, c))
        /\ funds' = funds
    BY <1>5 DEF Approve, ApproveFails, Leg, accountVars
  <2>2. \A d \in Legs[h[1]] : funds[d] >= 1
    BY <1>0, <1>2, <2>1 DEF MoneyFor
  <2>3. /\ tasks'[h].at \in {"approving", "filling"}
        /\ tasks'[h].left \subseteq Legs[h[1]]
    BY <1>0, <2>1, PassWrites, FailWrites DEF LegPhases, After, LegsAt
  <2> QED
    BY <1>2, <2>1, <2>2, <2>3 DEF MoneyFor
<1>6. CASE Fill(h, c) \/ FillFails(h, c) \/ FillReplyLost(h, c)
  <2>1. /\ tasks[h].at = "filling" /\ (LegPasses(h, c) \/ LegFails(h, c))
        /\ (Fills(h, c) \/ funds' = funds)
    BY <1>6 DEF Fill, FillFails, FillReplyLost, Fills, Leg, accountVars
  <2>2. \A d \in tasks[h].left : funds[d] >= 1
    BY <1>0, <1>2, <2>1 DEF MoneyFor
  <2>3. \A d \in Chains \ {c} : funds'[d] = funds[d]
    BY <2>1, FillsWrites
  <2>4. CASE tasks'[h].at = "filling"
    <3>1. tasks'[h].left = tasks[h].left \ {c}
      BY <1>0, <2>1, <2>4, PassWrites, FailWrites DEF LegPhases, After
    <3>2. \A d \in tasks'[h].left : funds'[d] >= 1
      BY <1>0, <1>3, <2>2, <2>3, <3>1 DEF LegsAt
    <3> QED
      BY <1>2, <2>4, <3>2 DEF MoneyFor
  <2>5. CASE tasks'[h].at # "filling"
    <3>1. tasks'[h].at = "settling"
      BY <1>0, <2>1, <2>5, PassWrites, FailWrites DEF LegPhases, After
    <3> QED
      BY <1>2, <3>1 DEF MoneyFor
  <2> QED
    BY <2>4, <2>5
<1>7. CASE Settle(h, c) \/ SettleFails(h, c)
  <2>1. tasks[h].at = "settling" /\ LegPasses(h, c)
    BY <1>7 DEF Settle, SettleFails, Leg
  <2>2. tasks'[h].at \in {"settling", "settled"}
    BY <1>0, <2>1, PassWrites DEF LegPhases, After
  <2> QED
    BY <1>2, <2>2 DEF MoneyFor
<1>8. CASE Stalls(h, c)
  <2>1. /\ tasks[h].at \in {"approving", "filling", "settling"} /\ funds' = funds
        /\ tasks'[h].at = tasks[h].at /\ tasks'[h].left = tasks[h].left \ {c}
    BY <1>0, <1>8, StallWrites DEF Stalls, accountVars
  <2> QED
    BY <1>0, <1>2, <2>1 DEF MoneyFor
<1> QED
  BY <1>4, <1>5, <1>6, <1>7, <1>8 DEF LegStep

LEMMA MoneyStep == IInv /\ [Next]_vars => MoneyIsThere'
<1> SUFFICES ASSUME IInv, [Next]_vars PROVE MoneyIsThere'
  OBVIOUS
<1> USE DEF chainVars, accountVars, runVars
<1>0. /\ TypeOK
      /\ \A h \in Handlings : MoneyFor(h)
  BY DEF IInv, MoneyIsThere
<1>1. CASE UNCHANGED <<tasks, funds>>
  BY <1>0, <1>1 DEF MoneyIsThere, MoneyFor
<1>2. CASE Crash
  <2>1. \A h \in Handlings : ~UnderWay(tasks'[h])
    BY <1>2 DEF Crash, NoTasks, NoTask, UnderWay
  <2> QED
    BY <2>1 DEF MoneyIsThere, MoneyFor
<1>3. ASSUME NEW h \in Handlings, Begin(h), funds' = funds
      PROVE  MoneyIsThere'
  <2>1. /\ tasks'[h].at = "checking" /\ tasks'[h].left = Legs[h[1]]
        /\ tasks'[h].alone => \A g \in Handlings : ~UnderWay(tasks[g])
        /\ \A g \in Handlings \ {h} :
             /\ tasks'[g].left = tasks[g].left /\ tasks'[g].stalled = tasks[g].stalled
             /\ UnderWay(tasks[g]) => ~tasks'[g].alone
    BY <1>0, <1>3, BeginWrites
  <2>2. MoneyFor(h)'
    BY <2>1 DEF MoneyFor, UnderWay
  <2>3. \A g \in Handlings \ {h} : MoneyFor(g)'
    BY <2>1 DEF MoneyFor, UnderWay
  <2> QED
    BY <2>2, <2>3 DEF MoneyIsThere
<1>4. ASSUME NEW h \in Handlings, Refuse(h) PROVE MoneyIsThere'
  <2>1. /\ ~UnderWay(tasks'[h])
        /\ \A g \in Handlings \ {h} : tasks'[g] = tasks[g]
    BY <1>0, <1>4, RefuseWrites DEF UnderWay, IInv, LegsAreDone, LegsAt
  <2>2. funds' = funds
    BY <1>4 DEF Refuse
  <2>3. \A g \in Handlings \ {h} : MoneyFor(g)'
    BY <1>0, <2>1, <2>2 DEF MoneyFor
  <2>4. MoneyFor(h)'
    BY <2>1 DEF MoneyFor
  <2> QED
    BY <2>3, <2>4 DEF MoneyIsThere
<1>5. ASSUME NEW h \in Handlings, NEW c \in Chains, LegStep(h, c) PROVE MoneyIsThere'
  <2>1. MoneyFor(h)'
    BY <1>5, MoneyMoves
  <2>2. /\ UnderWay(tasks[h])
        /\ \A g \in Handlings \ {h} : tasks'[g] = tasks[g]
    BY <1>5, LegStepIsLocal DEF UnderWay
  <2>3. ASSUME NEW g \in Handlings \ {h} PROVE MoneyFor(g)'
    <3>1. ~(UnderWay(tasks[g]) /\ tasks[g].alone)
      BY <1>0, <2>2 DEF MoneyFor
    <3> QED
      BY <2>2, <3>1 DEF MoneyFor
  <2> QED
    BY <2>1, <2>3 DEF MoneyIsThere
<1>6. CASE UNCHANGED vars
  BY <1>1, <1>6 DEF vars
<1>7. ASSUME NEW opened \in SUBSET Orders, MineBlock(opened) PROVE MoneyIsThere'
  BY <1>1, <1>7 DEF MineBlock
<1>8. ASSUME NEW o \in Orders, NEW c \in Chains, OtherSolverFills(o, c) PROVE MoneyIsThere'
  BY <1>1, <1>8 DEF OtherSolverFills
<1>9. CASE Start
  BY <1>1, <1>9 DEF Start
<1>10. ASSUME NEW row \in saves, Saved(row) PROVE MoneyIsThere'
  BY <1>1, <1>10 DEF Saved
<1>11. ASSUME NEW h \in Handlings, PollHands(h) PROVE MoneyIsThere'
  BY <1>3, <1>11 DEF PollHands
<1>12. ASSUME NEW o \in Orders, BackfillHands(o) PROVE MoneyIsThere'
  BY <1>3, <1>12, HandlingsAreOfOrders DEF BackfillHands
<1>13. ASSUME NEW to \in Blocks, Poll(to) PROVE MoneyIsThere'
  BY <1>1, <1>13 DEF Poll
<1> QED
  BY <1>2, <1>4, <1>5, <1>6, <1>7, <1>8, <1>9, <1>10, <1>11, <1>12, <1>13 DEF Next, TaskStep

(* What was saved *********************************************************)

LEMMA SavedStep == IInv /\ [Next]_vars => SavedStay' /\ SavedIsNotHandledAgain'
<1> SUFFICES ASSUME IInv, [Next]_vars PROVE SavedStay' /\ SavedIsNotHandledAgain'
  OBVIOUS
<1> USE DEF chainVars, accountVars, runVars
<1>0. TypeOK /\ OnlyOpened /\ SavedStay /\ SavedIsNotHandledAgain
  BY DEF IInv
<1>1. CASE UNCHANGED <<savedBefore, latest, block, tasks>> /\ backfill' \subseteq backfill
  BY <1>0, <1>1 DEF SavedStay, SavedIsNotHandledAgain
<1>2. ASSUME NEW opened \in SUBSET Orders, MineBlock(opened)
      PROVE  SavedStay' /\ SavedIsNotHandledAgain'
  <2>1. \A o \in Orders : block[o] # 0 => block'[o] = block[o]
    BY <1>2 DEF MineBlock
  <2>2. UNCHANGED <<savedBefore, latest, backfill, tasks>>
    BY <1>2 DEF MineBlock
  <2>3. savedBefore \subseteq Orders /\ latest \in Nat
    BY <1>0, SolverBounds DEF TypeOK, Blocks
  <2> QED
    BY <1>0, <2>1, <2>2, <2>3 DEF SavedStay, SavedIsNotHandledAgain
<1>3. CASE Start
  <2>1. \A h \in Handlings : tasks'[h] = NoTask
    BY <1>0, <1>3 DEF OnlyOpened, Start
  <2>2. ASSUME NEW o \in savedBefore' PROVE block'[o] \in 1 .. latest' /\ o \notin backfill'
    <3>1. PICK r \in db : r.id = o
      BY <1>3, <2>2 DEF Start
    <3>2. r.block \in 1 .. MaxBlocks /\ o \in Orders /\ block[o] = r.block
      BY <1>0, <3>1 DEF TypeOK, Rows, OnlyOpened
    <3>3. block[o] <= head /\ head \in Nat
      BY <1>0, <3>2, SolverBounds DEF OnlyOpened, TypeOK, Blocks
    <3>4. /\ r.block <= Beginning.from
          /\ r.block = Beginning.from => o \in Beginning.done
          /\ Beginning.from \in Nat
      BY <1>0, <3>1, BeginningCoversTheRows, SolverBounds DEF Blocks
    <3>5. o \notin backfill'
      BY <1>3, <3>2, <3>3, <3>4, SolverBounds DEF Start
    <3>6. block' = block /\ latest' = head
      BY <1>3 DEF Start
    <3> QED
      BY <3>2, <3>3, <3>5, <3>6, SolverBounds
  <2> QED
    BY <2>1, <2>2 DEF SavedStay, SavedIsNotHandledAgain
<1>4. CASE Crash
  <2>1. \A h \in Handlings : tasks'[h] = NoTask
    BY <1>4 DEF Crash, NoTasks
  <2>2. UNCHANGED <<savedBefore, latest, block>> /\ backfill' = {}
    BY <1>4 DEF Crash
  <2> QED
    BY <1>0, <2>1, <2>2 DEF SavedStay, SavedIsNotHandledAgain
<1>5. ASSUME NEW h \in Handlings, Begin(h), h[1] \notin savedBefore,
             UNCHANGED <<savedBefore, latest, block>>, backfill' \subseteq backfill
      PROVE  SavedStay' /\ SavedIsNotHandledAgain'
  <2>1. \A g \in Handlings \ {h} : tasks[g] = NoTask => tasks'[g] = NoTask
    BY <1>0, <1>5, BeginWrites DEF UnderWay, NoTask
  <2> QED
    BY <1>0, <1>5, <2>1 DEF SavedStay, SavedIsNotHandledAgain
<1>6. ASSUME NEW h \in Handlings, tasks[h] # NoTask,
             \A g \in Handlings \ {h} : tasks'[g] = tasks[g],
             UNCHANGED <<savedBefore, latest, block, backfill>>
      PROVE  SavedStay' /\ SavedIsNotHandledAgain'
  BY <1>0, <1>6 DEF SavedStay, SavedIsNotHandledAgain
<1>7. ASSUME NEW h \in Handlings, PollHands(h) PROVE SavedStay' /\ SavedIsNotHandledAgain'
  <2>1. h[1] \notin savedBefore
    BY <1>0, <1>7, HandlingsAreOfOrders, SolverBounds DEF PollHands, SavedStay, TypeOK, Blocks
  <2>2. Begin(h) /\ UNCHANGED <<savedBefore, latest, block, backfill>>
    BY <1>7 DEF PollHands
  <2> QED
    BY <1>5, <2>1, <2>2
<1>8. ASSUME NEW o \in Orders, BackfillHands(o) PROVE SavedStay' /\ SavedIsNotHandledAgain'
  <2>1. o \notin savedBefore
    BY <1>0, <1>8 DEF BackfillHands, SavedStay
  <2>2. <<o, 1>> \in Handlings
    BY HandlingsAreOfOrders
  <2>3. Begin(<<o, 1>>) /\ UNCHANGED <<savedBefore, latest, block>> /\ backfill' \subseteq backfill
    BY <1>8 DEF BackfillHands
  <2> QED
    BY <1>5, <2>1, <2>2, <2>3
<1>9. ASSUME NEW h \in Handlings, Refuse(h) PROVE SavedStay' /\ SavedIsNotHandledAgain'
  <2>1. UNCHANGED <<savedBefore, latest, block, backfill>>
    BY <1>9 DEF Refuse
  <2> QED
    BY <1>0, <1>6, <1>9, <2>1, RefuseWrites
<1>10. ASSUME NEW h \in Handlings, NEW c \in Chains, LegStep(h, c)
       PROVE  SavedStay' /\ SavedIsNotHandledAgain'
  BY <1>6, <1>10, LegStepIsLocal
<1>11. CASE UNCHANGED vars
  BY <1>1, <1>11 DEF vars
<1>12. ASSUME NEW o \in Orders, NEW c \in Chains, OtherSolverFills(o, c)
       PROVE  SavedStay' /\ SavedIsNotHandledAgain'
  BY <1>1, <1>12 DEF OtherSolverFills
<1>13. ASSUME NEW row \in saves, Saved(row) PROVE SavedStay' /\ SavedIsNotHandledAgain'
  BY <1>1, <1>13 DEF Saved
<1>14. ASSUME NEW to \in Blocks, Poll(to) PROVE SavedStay' /\ SavedIsNotHandledAgain'
  BY <1>1, <1>14 DEF Poll
<1> QED
  BY <1>2, <1>3, <1>4, <1>7, <1>8, <1>9, <1>10, <1>11, <1>12, <1>13, <1>14 DEF Next, TaskStep

(* The theorems ***********************************************************)

LEMMA NextIInv == IInv /\ [Next]_vars => IInv'
BY TypesStep, OpenedStep, LegsStep, MoneyStep, SavedStep DEF IInv

\* The invariant holds of every run of the solver.
THEOREM SolverInvariant == Spec => []IInv
<1>1. Init => IInv
  BY InitIInv
<1>2. IInv /\ [Next]_vars => IInv'
  BY NextIInv
<1> QED
  BY <1>1, <1>2, PTL DEF Spec

\* A row is written only for an order all of whose legs are filled, and a leg
\* is settled only then (fill and settleOrder of BaseFiller).
THEOREM RecordedIsFilled == Spec => []OnlyFilledIsRecorded
<1>1. IInv => OnlyFilledIsRecorded
  BY DEF IInv
<1> QED
  BY <1>1, SolverInvariant, PTL

\* What enoughBalanceOnDestination and the approvals promise holds when the
\* legs are filled, if no other order is handled at the same time.
THEOREM CheckedFillsCanBePaid == Spec => []FillsCanBePaid
<1>1. IInv => FillsCanBePaid
  <2> SUFFICES ASSUME IInv, NEW h \in Handlings, NEW c \in tasks[h].left,
                      tasks[h].at = "filling"
               PROVE  c \in approved /\ (tasks[h].alone => funds[c] >= 1)
    BY DEF FillsCanBePaid
  <2>1. LegsAt(h) /\ MoneyFor(h)
    BY DEF IInv, LegsAreDone, MoneyIsThere
  <2>2. c \in approved
    BY <2>1 DEF LegsAt
  <2>3. tasks[h].alone => funds[c] >= 1
    BY <2>1 DEF MoneyFor, UnderWay
  <2> QED
    BY <2>2, <2>3
<1> QED
  BY <1>1, SolverInvariant, PTL

\* What getLastIndexedBlocks returns keeps every order on record from being
\* handled again.
THEOREM SavedOrdersStayHandled == Spec => []SavedIsNotHandledAgain
<1>1. IInv => SavedIsNotHandledAgain
  BY DEF IInv
<1> QED
  BY <1>1, SolverInvariant, PTL
=============================================================================
