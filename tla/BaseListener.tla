---------------------------- MODULE BaseListener -----------------------------
(***************************************************************************)
(* One event source of the oif-solver's BaseListener: a backfill of past   *)
(* blocks and a timer that polls for new ones.  JavaScript runs one task   *)
(* at a time, and every await lets the others run: a timer fires again     *)
(* while earlier polls still wait for their node.  What the handler does   *)
(* with an event is not here: an event is handled when it is called.       *)
(***************************************************************************)
EXTENDS Integers, FiniteSets

CONSTANTS
  Ids,            \* the events the watched contract may log
  Confirmations,  \* confirmationBlocks ?? 0
  MaxBlocks,      \* bound: blocks of the chain
  MaxPolls        \* bound: polls waiting for the node at the same time

ASSUME ListenerBounds ==
  Confirmations \in Nat /\ MaxBlocks \in Nat \ {0} /\ MaxPolls \in Nat \ {0}

VARIABLES
  head,               \* the last block of the chain
  events,             \* the contract's events, each in its block
  up,                 \* the solver runs
  latest,             \* the block number create() read
  lastProcessedBlock, \* lastProcessedBlocks[chainName]
  initialBlock,       \* metadata.initialBlock, 0 when absent
  processedIds,       \* metadata.processedIds
  backfill,           \* processPrevBlocks: where it is and what it has left
  polls,              \* polls[p]: the state of an invocation of pollEvents
  handled,            \* handled[id]: calls of the handler: 0, 1 or many
  overlapped          \* history: a poll started while another was going on

chainVars == <<head, events>>
sourceVars == <<up, latest, initialBlock, processedIds>>
vars == <<chainVars, sourceVars, lastProcessedBlock, backfill, polls, handled,
          overlapped>>

Blocks == 0 .. MaxBlocks
Events == [block : 1 .. MaxBlocks, id : Ids]
Slots == 1 .. MaxPolls

\* An invocation waits for getBlockNumber (block) or for queryFilter (from, to).
Idle == [at |-> "idle"]
AskedBlock(n) == [at |-> "block", latestBlock |-> n]
AskedLogs(from, to) == [at |-> "logs", from |-> from, to |-> to]
Polls == {Idle} \cup {AskedBlock(n) : n \in Blocks}
                \cup {AskedLogs(f, t) : f \in 1 .. MaxBlocks + 1, t \in Blocks}

Backfills == [at : {"none", "logs", "handling"}, left : SUBSET Events]
NoBackfill == [at |-> "none", left |-> {}]

Count(n) == IF n >= 2 THEN 2 ELSE n
HandledOnceMore(evs) ==
  [id \in Ids |-> Count(handled[id] + Cardinality({e \in evs : e.id = id}))]

TypeOK ==
  /\ head \in Blocks
  /\ events \in SUBSET Events
  /\ up \in BOOLEAN
  /\ latest \in Blocks /\ lastProcessedBlock \in Blocks
  /\ initialBlock \in Blocks
  /\ processedIds \in SUBSET Ids
  /\ backfill \in Backfills
  /\ polls \in [Slots -> Polls]
  /\ handled \in [Ids -> 0 .. 2]
  /\ overlapped \in BOOLEAN

\* The chain may have any history when the solver starts.
Init ==
  /\ head \in Blocks
  /\ \E ids \in SUBSET Ids :
       \E block \in [ids -> 1 .. head] :
         events = {[block |-> block[id], id |-> id] : id \in ids}
  /\ up = FALSE /\ latest = 0 /\ lastProcessedBlock = 0
  /\ initialBlock = 0 /\ processedIds = {}
  /\ backfill = NoBackfill
  /\ polls = [p \in Slots |-> Idle]
  /\ handled = [id \in Ids |-> 0]
  /\ overlapped = FALSE

----------------------------------------------------------------------------
(* The chain.  A block does not change once it is there. *)

MineBlock(ids) ==
  /\ head < MaxBlocks
  /\ \A e \in events : e.id \notin ids
  /\ head' = head + 1
  /\ events' = events \cup {[block |-> head + 1, id |-> id] : id \in ids}
  /\ UNCHANGED <<sourceVars, lastProcessedBlock, backfill, polls, handled, overlapped>>

----------------------------------------------------------------------------
(* create() *)

\* The source's callback of forEach after getBlockNumber answered: what was
\* processed before, if anything, are events of the initial block.
Listen(initial, processed) ==
  /\ ~up /\ latest = 0 /\ head > 0
  /\ \A id \in processed : [block |-> initial, id |-> id] \in events
  /\ up' = TRUE
  /\ latest' = head
  /\ lastProcessedBlock' = head
  /\ initialBlock' = initial
  /\ processedIds' = processed
  /\ backfill' = IF initial # 0 /\ initial < head - 1
                 THEN [at |-> "logs", left |-> {}] ELSE NoBackfill
  /\ UNCHANGED <<chainVars, polls, handled, overlapped>>

\* A call of the node rejects: nobody catches it, Node.js ends the process.
\* A signal ends it too.
Die ==
  /\ up
  /\ up' = FALSE
  /\ UNCHANGED <<chainVars, latest, initialBlock, processedIds, lastProcessedBlock,
                 backfill, polls, handled, overlapped>>

----------------------------------------------------------------------------
(* processPrevBlocks(initialBlock, latest - 1) *)

\* Mutant of BackfillLogs: processedIds is not looked at.
BackfillAllLogs ==
  /\ up /\ backfill.at = "logs"
  /\ backfill' =
       [at |-> "handling",
        left |-> {e \in events : e.block \in initialBlock .. latest - 1}]
  /\ UNCHANGED <<chainVars, sourceVars, lastProcessedBlock, polls, handled, overlapped>>

BackfillLogs ==
  /\ up /\ backfill.at = "logs"
  /\ backfill' =
       [at |-> "handling",
        left |-> {e \in events :
                    /\ e.block \in initialBlock .. latest - 1
                    /\ ~(e.block = initialBlock /\ e.id \in processedIds)}]
  /\ UNCHANGED <<chainVars, sourceVars, lastProcessedBlock, polls, handled, overlapped>>

\* One turn of the loop: the handler is awaited, the next event comes after.
BackfillHandles(e) ==
  /\ up /\ backfill.at = "handling" /\ e \in backfill.left
  /\ \A other \in backfill.left : e.block <= other.block
  /\ backfill' = [backfill EXCEPT !.left = @ \ {e}]
  /\ handled' = HandledOnceMore({e})
  /\ UNCHANGED <<chainVars, sourceVars, lastProcessedBlock, polls, overlapped>>

----------------------------------------------------------------------------
(* pollEvents *)

\* The timer fires, whatever the earlier polls are doing.
TimerFires(p) ==
  /\ up /\ polls[p] = Idle
  /\ polls' = [polls EXCEPT ![p] = AskedBlock(head)]
  /\ overlapped' = (overlapped \/ \E q \in Slots : polls[q] # Idle)
  /\ UNCHANGED <<chainVars, sourceVars, lastProcessedBlock, backfill, handled>>

\* Mutants of ReadsLastProcessed: confirmations ignored; the last block read
\* again; one block more asked of the chain.
PollWithRange(p, fromBlock, toBlock, isEmpty) ==
  /\ up /\ polls[p].at = "block"
  /\ polls' = [polls EXCEPT ![p] = IF isEmpty THEN Idle ELSE AskedLogs(fromBlock, toBlock)]
  /\ UNCHANGED <<chainVars, sourceVars, lastProcessedBlock, backfill, handled, overlapped>>

PollUnconfirmed(p) ==
  PollWithRange(p, lastProcessedBlock + 1, polls[p].latestBlock,
                polls[p].latestBlock <= lastProcessedBlock + 1)

PollFromTheLastBlock(p) ==
  PollWithRange(p, lastProcessedBlock, polls[p].latestBlock - Confirmations,
                polls[p].latestBlock - Confirmations <= lastProcessedBlock)

PollTwoBlocksLate(p) ==
  PollWithRange(p, lastProcessedBlock + 1, polls[p].latestBlock - Confirmations,
                polls[p].latestBlock - Confirmations <= lastProcessedBlock + 2)

\* After the first await; lastProcessedBlocks is read only now.
ReadsLastProcessed(p) ==
  /\ up /\ polls[p].at = "block"
  /\ LET fromBlock == lastProcessedBlock + 1
         toBlock == polls[p].latestBlock - Confirmations IN
     polls' = [polls EXCEPT ![p] =
                 IF toBlock <= fromBlock THEN Idle ELSE AskedLogs(fromBlock, toBlock)]
  /\ UNCHANGED <<chainVars, sourceVars, lastProcessedBlock, backfill, handled, overlapped>>

\* Mutant of HandlesLogs: everything up to the block of this moment is taken
\* for processed.
ProcessedUpToHead(p) ==
  /\ up /\ polls[p].at = "logs"
  /\ handled' = HandledOnceMore({e \in events : e.block \in polls[p].from .. polls[p].to})
  /\ lastProcessedBlock' = head
  /\ polls' = [polls EXCEPT ![p] = Idle]
  /\ UNCHANGED <<chainVars, sourceVars, backfill, overlapped>>

\* After the second await: the handlers are started, none is waited for.
HandlesLogs(p) ==
  /\ up /\ polls[p].at = "logs"
  /\ handled' = HandledOnceMore({e \in events : e.block \in polls[p].from .. polls[p].to})
  /\ lastProcessedBlock' = polls[p].to
  /\ polls' = [polls EXCEPT ![p] = Idle]
  /\ UNCHANGED <<chainVars, sourceVars, backfill, overlapped>>

----------------------------------------------------------------------------
Next ==
  \/ \E ids \in SUBSET Ids : MineBlock(ids)
  \/ \E initial \in Blocks, processed \in SUBSET Ids : Listen(initial, processed)
  \/ Die
  \/ BackfillLogs
  \/ \E e \in backfill.left : BackfillHandles(e)
  \/ \E p \in Slots : TimerFires(p)
  \/ \E p \in Slots : ReadsLastProcessed(p)
  \/ \E p \in Slots : HandlesLogs(p)

Spec == Init /\ [][Next]_vars

\* Timers keep firing and the node answers every call, unless the process ends.
FairSpec ==
  /\ Spec
  /\ WF_vars(BackfillLogs)
  /\ WF_vars(\E e \in backfill.left : BackfillHandles(e))
  /\ \A p \in Slots :
       /\ WF_vars(TimerFires(p))
       /\ WF_vars(ReadsLastProcessed(p))
       /\ WF_vars(HandlesLogs(p))
----------------------------------------------------------------------------
(* Properties. *)

Seen(e) == handled[e.id] > 0

\* However polls overlap, and although a slow one moves lastProcessedBlock
\* back, no event of a block between the start and lastProcessedBlock is
\* skipped.
NothingPassedOver ==
  \A e \in events : e.block \in latest + 1 .. lastProcessedBlock => Seen(e)

\* Polls hand over an event only when its block is confirmed.
OnlyConfirmedIsPolled ==
  \A e \in events : e.block > latest /\ Seen(e) => e.block <= head - Confirmations

\* What an earlier run processed in the initial block is not handled again.
ProcessedIsNotRepeated ==
  \A id \in processedIds : initialBlock < latest => handled[id] = 0

\* Polls that end before the next one starts handle every event at most once.
HandledOnce == ~overlapped => \A id \in Ids : handled[id] <= 1

\* An event is handled in the end: one of the past from the initial block on,
\* and a new one when a second confirmed block follows its own (a single new
\* block is left for later by toBlock <= fromBlock).
EventsAreHandled ==
  \A id \in Ids :
    (/\ up
     /\ \E e \in events :
          /\ e.id = id
          /\ \/ e.block > latest /\ e.block < head - Confirmations
             \/ /\ initialBlock \in 1 .. latest - 2
                /\ e.block \in initialBlock .. latest - 1
                /\ ~(e.block = initialBlock /\ id \in processedIds))
      ~> (handled[id] > 0 \/ ~up)

\* solvers/randomtestnet/README.md: the solver "will listen for Hyperlane Mailbox
\* Dispatch events [...] and process them": once polls have processed blocks
\* after the start, every event from the initial block up to the last processed
\* one is handled in the end.
EveryBlockIsCovered ==
  \A id \in Ids :
    (/\ up /\ initialBlock \in 1 .. latest - 2
     /\ lastProcessedBlock > latest
     /\ \E e \in events :
          e.id = id /\ e.block \in initialBlock + 1 .. lastProcessedBlock)
      ~> (handled[id] > 0 \/ ~up)
=============================================================================
