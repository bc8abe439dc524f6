-------------------------- MODULE BaseListenerProofs --------------------------
(***************************************************************************)
(* Proofs about BaseListener, for any events, any number of overlapping    *)
(* polls and of confirmations: no event between the start and the last     *)
(* processed block is passed over, none is polled before it is confirmed,  *)
(* and, with a second invariant, none is handled again.                    *)
(***************************************************************************)
EXTENDS BaseListener, FiniteSetTheorems, TLAPS

----------------------------------------------------------------------------
(* The inductive invariant.                                                 *)

\* An event is in one block, and no event is ahead of the chain.
EventsOK ==
  /\ events \subseteq Events
  /\ \A e \in events : e.block <= head
  /\ \A e, f \in events : e.id = f.id => e = f

\* A source that does not listen yet has done nothing.
NotYetListening ==
  /\ up => latest > 0
  /\ latest = 0 => /\ lastProcessedBlock = 0 /\ \A p \in Slots : polls[p].at = "idle"
                   /\ backfill.at = "none" /\ \A id \in Ids : handled[id] = 0

\* Every event from the start to block b is handled.
SeenUpTo(b) == \A e \in events : e.block \in latest + 1 .. b => Seen(e)

\* A poll that waits for its logs, however long, asked for blocks that were
\* confirmed and left out none that is not handled.
PollOK(p) ==
  /\ polls[p].at = "block" => polls[p].latestBlock \in Nat /\ polls[p].latestBlock <= head
  /\ polls[p].at = "logs" =>
       /\ polls[p].from \in Nat /\ polls[p].to \in Nat /\ polls[p].from <= polls[p].to
       /\ polls[p].to <= head - Confirmations
       /\ SeenUpTo(polls[p].from - 1)

\* The backfill has only events of blocks before the start.
BackfillOK == \A e \in backfill.left : e \in events /\ e.block < latest

IInv ==
  /\ head \in Nat /\ latest \in Nat /\ lastProcessedBlock \in Nat
  /\ handled \in [Ids -> 0 .. 2]
  /\ DOMAIN polls = Slots
  /\ backfill \in Backfills
  /\ EventsOK /\ NotYetListening /\ BackfillOK
  /\ latest <= head /\ lastProcessedBlock <= head
  /\ \A p \in Slots : PollOK(p)
  /\ \A id \in Ids : handled[id] > 0 => \E e \in events : e.id = id
  /\ NothingPassedOver /\ OnlyConfirmedIsPolled

LEMMA InitIInv == Init => IInv
PROOF
<1> SUFFICES ASSUME Init PROVE IInv
  OBVIOUS
<1> USE DEF Init
<1>1. head \in Nat /\ head \in Blocks
  BY ListenerBounds DEF Blocks
<1>2. EventsOK
  <2>0. PICK ids \in SUBSET Ids : \E block \in [ids -> 1 .. head] :
          events = {[block |-> block[id], id |-> id] : id \in ids}
    OBVIOUS
  <2>1. PICK block \in [ids -> 1 .. head] :
          events = {[block |-> block[id], id |-> id] : id \in ids}
    BY <2>0
  <2>2. \A id \in ids : block[id] \in 1 .. MaxBlocks /\ block[id] <= head
    BY <1>1, ListenerBounds DEF Blocks
  <2>3. events \subseteq Events /\ \A e \in events : e.block <= head
    BY <2>1, <2>2 DEF Events
  <2>4. \A e, f \in events : e.id = f.id => e = f
    BY <2>1
  <2> QED BY <2>3, <2>4 DEF EventsOK
<1>3. \A p \in Slots : polls[p].at = "idle"
  BY DEF Idle
<1>4. backfill \in Backfills /\ backfill.at = "none" /\ backfill.left = {}
  BY DEF NoBackfill, Backfills
<1>5. NothingPassedOver /\ OnlyConfirmedIsPolled
  <2>1. \A e \in events : e.block \in Nat /\ e.id \in Ids
    BY <1>2, ListenerBounds DEF EventsOK, Events
  <2> QED BY <2>1 DEF NothingPassedOver, OnlyConfirmedIsPolled, Seen
<1> QED BY <1>1, <1>2, <1>3, <1>4, <1>5 DEF IInv, NotYetListening, PollOK, BackfillOK

----------------------------------------------------------------------------
(* Handling events.                                                         *)

\* What is handled afterwards was handled before or is among the events.
LEMMA HandlingSees ==
  ASSUME EventsOK, handled \in [Ids -> 0 .. 2],
         NEW evs \in SUBSET events, handled' = HandledOnceMore(evs)
  PROVE  /\ handled' \in [Ids -> 0 .. 2]
         /\ \A id \in Ids : handled'[id] > 0 <=> handled[id] > 0 \/ \E e \in evs : e.id = id
         /\ \A id \in Ids : handled[id] = 0 \/ (\A e \in evs : e.id # id)
                           => handled'[id] <= handled[id] \/ handled'[id] = 1
PROOF
<1>1. ASSUME NEW id \in Ids
      PROVE  /\ handled'[id] \in 0 .. 2
             /\ handled'[id] > 0 <=> handled[id] > 0 \/ \E e \in evs : e.id = id
             /\ handled[id] = 0 \/ (\A e \in evs : e.id # id)
                  => handled'[id] <= handled[id] \/ handled'[id] = 1
  <2> DEFINE S == {e \in evs : e.id = id}
  <2>1. handled'[id] = Count(handled[id] + Cardinality(S)) /\ handled[id] \in 0 .. 2
    BY <1>1 DEF HandledOnceMore
  <2>2. CASE S = {}
    <3>1. Cardinality(S) = 0
      BY <2>2, FS_EmptySet
    <3>2. ~\E e \in evs : e.id = id
      BY <2>2
    <3> HIDE DEF S
    <3> QED BY <2>1, <3>1, <3>2 DEF Count
  <2>3. CASE S # {}
    <3>1. PICK e \in evs : e.id = id
      BY <2>3
    <3>2. S = {e}
      BY <3>1 DEF EventsOK
    <3>3. Cardinality(S) = 1
      <4>1. Cardinality({e}) = 1
        BY FS_Singleton
      <4> QED BY <3>2, <4>1
    <3> HIDE DEF S
    <3> QED BY <2>1, <3>1, <3>3 DEF Count
  <2> QED BY <2>2, <2>3
<1>2. handled' = [id \in Ids |-> handled'[id]]
  BY DEF HandledOnceMore
<1> QED BY <1>1, <1>2

\* Handling events of the backfill, or of confirmed blocks, keeps everything
\* that is said of events, whatever poll or backfill does it.
LEMMA HandlingKeeps ==
  ASSUME IInv, NEW evs \in SUBSET events, handled' = HandledOnceMore(evs),
         UNCHANGED <<head, events, latest>>,
         \A e \in evs : e.block < latest \/ e.block <= head - Confirmations
  PROVE  /\ handled' \in [Ids -> 0 .. 2]
         /\ EventsOK' /\ OnlyConfirmedIsPolled'
         /\ \A id \in Ids : handled'[id] > 0 => \E e \in events' : e.id = id
         /\ \A e \in events : Seen(e) \/ e \in evs => Seen(e)'
         /\ \A b \in Int : SeenUpTo(b) => SeenUpTo(b)'
PROOF
<1>1. /\ handled' \in [Ids -> 0 .. 2]
      /\ \A id \in Ids : handled'[id] > 0 <=> handled[id] > 0 \/ \E e \in evs : e.id = id
  BY HandlingSees DEF IInv
<1>2. EventsOK' /\ \A e \in events : e.id \in Ids /\ e.block \in Nat
  BY ListenerBounds DEF IInv, EventsOK, Events
<1>3. \A id \in Ids : handled'[id] > 0 => \E e \in events' : e.id = id
  BY <1>1 DEF IInv
<1>4. \A e \in events : Seen(e) \/ e \in evs => Seen(e)'
  BY <1>1, <1>2 DEF Seen
<1>5. ASSUME NEW e \in events', e.block > latest', Seen(e)' PROVE e.block <= head' - Confirmations
  <2>1. Seen(e) \/ \E f \in evs : f.id = e.id
    BY <1>1, <1>2, <1>5 DEF Seen
  <2>2. CASE Seen(e)
    BY <1>5, <2>2 DEF IInv, OnlyConfirmedIsPolled
  <2>3. CASE e \in evs
    BY <1>2, <1>5, <2>3, ListenerBounds DEF IInv
  <2> QED BY <2>1, <2>2, <2>3 DEF IInv, EventsOK
<1> QED BY <1>1, <1>2, <1>3, <1>4, <1>5 DEF OnlyConfirmedIsPolled, SeenUpTo

----------------------------------------------------------------------------
(* One lemma for each kind of step.                                         *)

\* A new block is ahead of whatever was asked for.
LEMMA MineBlockKeeps == ASSUME IInv, NEW ids \in SUBSET Ids, MineBlock(ids) PROVE IInv'
PROOF
<1>1. /\ head < MaxBlocks /\ head' = head + 1
      /\ \A e \in events : e.id \notin ids
      /\ events' = events \cup {[block |-> head + 1, id |-> id] : id \in ids}
      /\ UNCHANGED <<sourceVars, lastProcessedBlock, backfill, polls, handled>>
  BY DEF MineBlock
<1>2. UNCHANGED <<up, latest>>
  BY <1>1 DEF sourceVars
<1>3. /\ head \in Nat /\ latest \in Nat /\ latest <= head
      /\ lastProcessedBlock \in Nat /\ lastProcessedBlock <= head
      /\ events \subseteq Events
      /\ \A e \in events : e.block \in Nat /\ e.block <= head /\ e.id \in Ids
  BY ListenerBounds DEF IInv, EventsOK, Events
<1>4. \A e \in events' : e \in events \/ (e.block = head + 1 /\ e.id \in ids)
  BY <1>1
<1>5. EventsOK'
  <2>1. head + 1 \in 1 .. MaxBlocks
    BY <1>1, <1>3, ListenerBounds
  <2>2. events' \subseteq Events
    BY <1>1, <1>3, <2>1 DEF Events
  <2>3. \A e \in events' : e.block <= head'
    BY <1>1, <1>3, <1>4
  <2>4. \A e, f \in events' : e.id = f.id => e = f
    BY <1>1 DEF IInv, EventsOK
  <2> QED BY <2>2, <2>3, <2>4 DEF EventsOK
<1>6. \A b \in Int : b <= head /\ SeenUpTo(b) => SeenUpTo(b)'
  BY <1>1, <1>2, <1>3, <1>4 DEF SeenUpTo, Seen
<1>7. ASSUME NEW p \in Slots PROVE PollOK(p)'
  <2>1. PollOK(p)
    BY DEF IInv
  <2>2. CASE polls[p].at = "logs"
    <3>1. /\ polls[p].from \in Nat /\ polls[p].to \in Nat
          /\ polls[p].from <= polls[p].to /\ polls[p].to <= head - Confirmations
          /\ SeenUpTo(polls[p].from - 1)
      BY <2>1, <2>2 DEF PollOK
    <3>2. polls[p].from - 1 \in Int /\ polls[p].from - 1 <= head
      BY <1>3, <3>1, ListenerBounds
    <3>3. SeenUpTo(polls[p].from - 1)'
      BY <1>1, <1>6, <3>1, <3>2
    <3> QED BY <1>1, <1>3, <2>2, <3>1, <3>3, ListenerBounds DEF PollOK
  <2>3. CASE polls[p].at # "logs"
    BY <1>1, <1>3, <2>1, <2>3 DEF PollOK
  <2> QED BY <2>2, <2>3
<1>8. NothingPassedOver'
  <2>1. SeenUpTo(lastProcessedBlock)
    BY DEF IInv, NothingPassedOver, SeenUpTo
  <2>2. SeenUpTo(lastProcessedBlock)'
    BY <1>1, <1>3, <1>6, <2>1
  <2> QED BY <2>2 DEF NothingPassedOver, SeenUpTo
<1>9. OnlyConfirmedIsPolled'
  <2>1. ASSUME NEW e \in events', Seen(e)' PROVE e \in events
    <3>1. handled[e.id] > 0
      BY <1>1, <2>1 DEF Seen
    <3>2. e.id \in Ids
      BY <1>3, <1>4
    <3>3. \E f \in events : f.id = e.id
      BY <3>1, <3>2 DEF IInv
    <3> QED BY <1>1, <1>4, <3>3
  <2> QED BY <1>1, <1>2, <1>3, <2>1, ListenerBounds DEF IInv, OnlyConfirmedIsPolled, Seen
<1>10. NotYetListening' /\ BackfillOK'
  BY <1>1, <1>2 DEF IInv, NotYetListening, BackfillOK
<1>11. \A id \in Ids : handled'[id] > 0 => \E e \in events' : e.id = id
  BY <1>1 DEF IInv
<1> QED BY <1>1, <1>2, <1>3, <1>5, <1>7, <1>8, <1>9, <1>10, <1>11 DEF IInv

\* When a source begins to listen nothing is handled and nothing is due.
LEMMA ListenKeeps ==
  ASSUME IInv, NEW initial \in Blocks, NEW processed \in SUBSET Ids, Listen(initial, processed)
  PROVE  IInv'
PROOF
<1>1. /\ latest = 0 /\ head > 0 /\ up' = TRUE /\ latest' = head /\ lastProcessedBlock' = head
      /\ UNCHANGED <<head, events, polls, handled>>
  BY DEF Listen, chainVars
<1>2. backfill' \in Backfills /\ backfill'.left = {}
  BY DEF Listen, NoBackfill, Backfills
<1>3. \A id \in Ids : handled[id] = 0
  BY <1>1 DEF IInv, NotYetListening
<1>4. \A p \in Slots : polls[p].at = "idle"
  BY <1>1 DEF IInv, NotYetListening
<1>5. \A e \in events : e.block \in Nat /\ e.id \in Ids
  BY ListenerBounds DEF IInv, EventsOK, Events
<1>6. NothingPassedOver' /\ OnlyConfirmedIsPolled'
  BY <1>1, <1>3, <1>5 DEF NothingPassedOver, OnlyConfirmedIsPolled, Seen, IInv
<1>7. EventsOK' /\ NotYetListening' /\ BackfillOK' /\ \A p \in Slots : PollOK(p)'
  BY <1>1, <1>2, <1>4 DEF IInv, EventsOK, NotYetListening, BackfillOK, PollOK
<1> QED BY <1>1, <1>2, <1>3, <1>6, <1>7 DEF IInv

\* The backfill is of the blocks before the start.
LEMMA BackfillKeeps ==
  ASSUME IInv, BackfillLogs \/ \E e \in backfill.left : BackfillHandles(e)
  PROVE  IInv'
PROOF
<1>1. /\ UNCHANGED <<head, events, latest, up, lastProcessedBlock, polls>>
      /\ up
  BY DEF BackfillLogs, BackfillHandles, chainVars, sourceVars
<1>2. CASE BackfillLogs
  <2>1. /\ UNCHANGED handled /\ backfill' \in Backfills
        /\ backfill'.left \subseteq events
        /\ \A e \in backfill'.left : e.block \in initialBlock .. latest - 1
    BY <1>2 DEF BackfillLogs, Backfills, IInv, EventsOK
  <2>2. BackfillOK'
    BY <1>1, <2>1, ListenerBounds DEF BackfillOK, IInv, EventsOK, Events
  <2>3. /\ EventsOK' /\ NotYetListening' /\ NothingPassedOver' /\ OnlyConfirmedIsPolled'
        /\ \A p \in Slots : PollOK(p)'
    BY <1>1, <2>1 DEF IInv, EventsOK, NotYetListening, NothingPassedOver,
                      OnlyConfirmedIsPolled, PollOK, SeenUpTo, Seen
  <2> QED BY <1>1, <2>1, <2>2, <2>3 DEF IInv
<1>3. ASSUME NEW e \in backfill.left, BackfillHandles(e) PROVE IInv'
  <2>1. /\ handled' = HandledOnceMore({e})
        /\ e \in events /\ e.block < latest
        /\ backfill' = [backfill EXCEPT !.left = @ \ {e}]
    BY <1>3 DEF BackfillHandles, IInv, BackfillOK
  <2>2. backfill' \in Backfills /\ backfill'.left \subseteq backfill.left /\ backfill'.at = backfill.at
    BY <2>1 DEF IInv, Backfills
  <2>3. {e} \in SUBSET events /\ \A f \in {e} : f.block < latest \/ f.block <= head - Confirmations
    BY <2>1
  <2>4. /\ handled' \in [Ids -> 0 .. 2]
        /\ EventsOK' /\ OnlyConfirmedIsPolled'
        /\ \A id \in Ids : handled'[id] > 0 => \E f \in events' : f.id = id
        /\ \A f \in events : Seen(f) \/ f \in {e} => Seen(f)'
        /\ \A b \in Int : SeenUpTo(b) => SeenUpTo(b)'
    BY <1>1, <2>1, <2>3, HandlingKeeps
  <2>5. ASSUME NEW p \in Slots PROVE PollOK(p)'
    BY <1>1, <2>4 DEF IInv, PollOK
  <2>6. NothingPassedOver'
    BY <1>1, <2>4 DEF IInv, NothingPassedOver
  <2>7. NotYetListening' /\ BackfillOK'
    BY <1>1, <2>2 DEF IInv, NotYetListening, BackfillOK
  <2> QED BY <1>1, <2>2, <2>4, <2>5, <2>6, <2>7 DEF IInv
<1> QED BY <1>2, <1>3

\* Timers only ask.
LEMMA TimerKeeps == ASSUME IInv, NEW p \in Slots, TimerFires(p) PROVE IInv'
PROOF
<1>1. /\ up /\ UNCHANGED <<head, events, up, latest, lastProcessedBlock, backfill, handled>>
      /\ polls' = [polls EXCEPT ![p] = AskedBlock(head)]
  BY DEF TimerFires, chainVars, sourceVars
<1>2. latest # 0 /\ DOMAIN polls' = Slots /\ polls'[p] = AskedBlock(head)
  BY <1>1 DEF IInv, NotYetListening
<1>3. ASSUME NEW q \in Slots PROVE PollOK(q)'
  <2>1. CASE q = p
    BY <1>1, <1>2, <2>1 DEF PollOK, AskedBlock, IInv
  <2>2. CASE q # p
    <3>1. polls'[q] = polls[q]
      BY <1>1, <2>2 DEF IInv
    <3> QED BY <1>1, <3>1 DEF IInv, PollOK, SeenUpTo, Seen
  <2> QED BY <2>1, <2>2
<1>4. /\ EventsOK' /\ NotYetListening' /\ BackfillOK'
      /\ NothingPassedOver' /\ OnlyConfirmedIsPolled'
  BY <1>1, <1>2 DEF IInv, EventsOK, NotYetListening, BackfillOK, NothingPassedOver,
                    OnlyConfirmedIsPolled, Seen
<1> QED BY <1>1, <1>2, <1>3, <1>4 DEF IInv

\* A poll asks for confirmed blocks from the one after lastProcessedBlock on,
\* up to which every event is handled.
LEMMA ReadsKeeps == ASSUME IInv, NEW p \in Slots, ReadsLastProcessed(p) PROVE IInv'
PROOF
<1> DEFINE from == lastProcessedBlock + 1
           to == polls[p].latestBlock - Confirmations
           poll == IF to <= from THEN Idle ELSE AskedLogs(from, to)
<1>1. /\ up /\ UNCHANGED <<head, events, up, latest, lastProcessedBlock, backfill, handled>>
      /\ polls[p].at = "block" /\ polls' = [polls EXCEPT ![p] = poll]
  BY DEF ReadsLastProcessed, chainVars, sourceVars
<1>2. latest # 0 /\ DOMAIN polls' = Slots /\ polls'[p] = poll
  BY <1>1 DEF IInv, NotYetListening
<1>3. polls[p].latestBlock \in Nat /\ polls[p].latestBlock <= head
  BY <1>1 DEF IInv, PollOK
<1>4. from \in Nat /\ to \in Int /\ to <= head - Confirmations /\ head \in Nat
  BY <1>3, ListenerBounds DEF IInv
<1>5. \A e \in events' : e.block \in latest' + 1 .. from - 1 => Seen(e)'
  <2>1. from - 1 = lastProcessedBlock
    BY DEF IInv
  <2> QED BY <1>1, <2>1 DEF IInv, NothingPassedOver, SeenUpTo, Seen
<1>6. ASSUME NEW q \in Slots PROVE PollOK(q)'
  <2>1. CASE q = p /\ to <= from
    BY <1>1, <1>2, <2>1 DEF PollOK, Idle
  <2>2. CASE q = p /\ ~(to <= from)
    <3>1. /\ polls'[p].at = "logs" /\ polls'[p].from = from /\ polls'[p].to = to
      BY <1>2, <2>2 DEF AskedLogs
    <3>2. to \in Nat /\ from <= to
      BY <1>4, <2>2
    <3>3. head' = head /\ q = p
      BY <1>1, <2>2
    <3> HIDE DEF from, to, poll
    <3> QED BY <1>4, <1>5, <3>1, <3>2, <3>3 DEF PollOK, SeenUpTo
  <2>3. CASE q # p
    <3>1. polls'[q] = polls[q]
      BY <1>1, <2>3 DEF IInv
    <3> QED BY <1>1, <3>1 DEF IInv, PollOK, SeenUpTo, Seen
  <2> QED BY <2>1, <2>2, <2>3
<1>7. /\ EventsOK' /\ NotYetListening' /\ BackfillOK'
      /\ NothingPassedOver' /\ OnlyConfirmedIsPolled'
  BY <1>1, <1>2 DEF IInv, EventsOK, NotYetListening, BackfillOK, NothingPassedOver,
                    OnlyConfirmedIsPolled, Seen
<1> QED BY <1>1, <1>2, <1>6, <1>7 DEF IInv

\* The blocks a poll has handled join those before them, even when the poll
\* is a slow one and lastProcessedBlock moves back.
LEMMA HandlesLogsKeeps == ASSUME IInv, NEW p \in Slots, HandlesLogs(p) PROVE IInv'
PROOF
<1> DEFINE from == polls[p].from
           to == polls[p].to
           evs == {e \in events : e.block \in from .. to}
<1>1. /\ up /\ UNCHANGED <<head, events, up, latest, backfill>>
      /\ polls[p].at = "logs" /\ handled' = HandledOnceMore(evs)
      /\ lastProcessedBlock' = to /\ polls' = [polls EXCEPT ![p] = Idle]
  BY DEF HandlesLogs, chainVars, sourceVars
<1>2. latest # 0 /\ DOMAIN polls' = Slots /\ polls'[p] = Idle
  BY <1>1 DEF IInv, NotYetListening
<1>3. /\ from \in Nat /\ to \in Nat /\ from <= to
      /\ to <= head - Confirmations /\ SeenUpTo(from - 1)
  BY <1>1 DEF IInv, PollOK
<1>4. /\ evs \in SUBSET events
      /\ head \in Nat /\ latest \in Nat
      /\ \A e \in events : e.block \in Nat
  BY ListenerBounds DEF IInv, EventsOK, Events
<1>5. \A e \in evs : e.block < latest \/ e.block <= head - Confirmations
  BY <1>3, <1>4, ListenerBounds
<1>6. /\ handled' \in [Ids -> 0 .. 2]
      /\ EventsOK' /\ OnlyConfirmedIsPolled'
      /\ \A id \in Ids : handled'[id] > 0 => \E e \in events' : e.id = id
      /\ \A e \in events : Seen(e) \/ e \in evs => Seen(e)'
      /\ \A b \in Int : SeenUpTo(b) => SeenUpTo(b)'
  <2> HIDE DEF evs
  <2> QED BY <1>1, <1>4, <1>5, HandlingKeeps
<1>7. NothingPassedOver'
  <2>1. ASSUME NEW e \in events', e.block \in latest' + 1 .. lastProcessedBlock'
        PROVE  Seen(e)'
    <3>1. e \in events /\ e.block \in latest + 1 .. to
      BY <1>1, <2>1
    <3>2. CASE e.block \in from .. to
      BY <1>6, <3>1, <3>2
    <3>3. CASE e.block \in latest + 1 .. from - 1
      BY <1>3, <1>6, <3>1, <3>3 DEF SeenUpTo
    <3> QED BY <1>3, <1>4, <3>1, <3>2, <3>3
  <2> QED BY <2>1 DEF NothingPassedOver
<1>8. ASSUME NEW q \in Slots PROVE PollOK(q)'
  <2>1. CASE q = p
    BY <1>2, <2>1 DEF PollOK, Idle
  <2>2. CASE q # p
    <3>1. polls'[q] = polls[q]
      BY <1>1, <2>2 DEF IInv
    <3> QED BY <1>1, <1>6, <3>1 DEF IInv, PollOK
  <2> QED BY <2>1, <2>2
<1>9. NotYetListening' /\ BackfillOK'
  BY <1>1, <1>2 DEF IInv, NotYetListening, BackfillOK
<1>10. lastProcessedBlock' \in Nat /\ lastProcessedBlock' <= head'
  BY <1>1, <1>3, <1>4, ListenerBounds
<1> QED BY <1>1, <1>2, <1>6, <1>7, <1>8, <1>9, <1>10 DEF IInv

----------------------------------------------------------------------------
\* Every step of the chain, the timer, the polls and the backfill keeps it.
LEMMA NextIInv == IInv /\ [Next]_vars => IInv'
PROOF
<1> SUFFICES ASSUME IInv, [Next]_vars PROVE IInv'
  OBVIOUS
<1>1. CASE Die \/ UNCHANGED vars
  <2>1. /\ UNCHANGED <<head, events, latest, lastProcessedBlock, backfill, polls, handled>>
        /\ up' => up
    BY <1>1 DEF Die, vars, chainVars, sourceVars
  <2> QED BY <2>1 DEF IInv, EventsOK, NotYetListening, BackfillOK, PollOK, SeenUpTo, Seen,
                      NothingPassedOver, OnlyConfirmedIsPolled
<1> QED BY <1>1, MineBlockKeeps, ListenKeeps, BackfillKeeps, TimerKeeps, ReadsKeeps,
           HandlesLogsKeeps DEF Next

\* The invariant holds in every behaviour of the source.
THEOREM ListenerInvariant == Spec => []IInv
BY InitIInv, NextIInv, PTL DEF Spec

\* No event between the start and lastProcessedBlocks is skipped, however many
\* polls overlap and however late they end.
THEOREM EventsAreNotSkipped == Spec => []NothingPassedOver
<1>1. IInv => NothingPassedOver
  BY DEF IInv
<1> QED BY <1>1, ListenerInvariant, PTL

\* No poll hands over an event before its block has its confirmations.
THEOREM PolledIsConfirmed == Spec => []OnlyConfirmedIsPolled
<1>1. IInv => OnlyConfirmedIsPolled
  BY DEF IInv
<1> QED BY <1>1, ListenerInvariant, PTL

----------------------------------------------------------------------------
(* No event is handled again: an invariant on top of IInv.                  *)

\* Polls are of blocks after the start; until the backfill has its events,
\* only such events are handled.
StartIsPassed ==
  /\ latest <= lastProcessedBlock
  /\ \A p \in Slots : polls[p].at = "logs" => polls[p].from > latest
  /\ backfill.at = "logs" => \A e \in events : Seen(e) => e.block > latest

\* What was processed before are events of the initial block, which the
\* backfill leaves out.
ProcessedStay ==
  /\ \A id \in processedIds : [block |-> initialBlock, id |-> id] \in events
  /\ \A e \in backfill.left : e.id \notin processedIds

\* Without an overlap one poll is under way at most, it goes on where the last
\* one ended, and nothing beyond that or left to the backfill is handled.
OneAtATime ==
  ~overlapped =>
    /\ \A p, q \in Slots : polls[p].at # "idle" /\ polls[q].at # "idle" => p = q
    /\ \A p \in Slots : polls[p].at = "logs" => polls[p].from = lastProcessedBlock + 1
    /\ \A e \in events : e.block > lastProcessedBlock => ~Seen(e)
    /\ \A e \in backfill.left : ~Seen(e)

OnceInv ==
  /\ StartIsPassed /\ ProcessedStay /\ OneAtATime
  /\ ProcessedIsNotRepeated /\ HandledOnce
LEMMA InitOnceInv == Init => OnceInv
<1> SUFFICES ASSUME Init PROVE OnceInv
  OBVIOUS
<1>1. /\ latest = 0 /\ lastProcessedBlock = 0 /\ processedIds = {}
      /\ \A p \in Slots : polls[p].at = "idle"
      /\ backfill.at = "none" /\ backfill.left = {}
      /\ \A id \in Ids : handled[id] = 0
  BY DEF Init, Idle, NoBackfill
<1>2. \A e \in events : e.id \in Ids
  BY InitIInv DEF IInv, EventsOK, Events
<1> QED
  BY <1>1, <1>2 DEF OnceInv, StartIsPassed, ProcessedStay, OneAtATime,
                    ProcessedIsNotRepeated, HandledOnce, Seen

\* What events are, and what is handled of them.
LEMMA EventTypes ==
  ASSUME IInv
  PROVE  /\ \A e \in events : e.block \in Nat /\ e.block >= 1 /\ e.id \in Ids
         /\ \A e, f \in events : e.id = f.id => e = f
         /\ backfill.left \subseteq events
         /\ \A id \in Ids : handled[id] \in 0 .. 2
BY ListenerBounds DEF IInv, EventsOK, Events, BackfillOK

\* A new block has events nobody handled.
LEMMA MineBlockKeepsOnce ==
  ASSUME IInv, OnceInv, NEW ids \in SUBSET Ids, MineBlock(ids)
  PROVE  OnceInv'
<1>1. /\ events' = events \cup {[block |-> head + 1, id |-> id] : id \in ids}
      /\ \A e \in events : e.id \notin ids
      /\ UNCHANGED <<latest, initialBlock, processedIds, lastProcessedBlock, backfill,
                     polls, handled, overlapped>>
  BY DEF MineBlock, sourceVars
<1>2. \A e \in events' \ events : e.id \in Ids /\ handled[e.id] = 0
  <2> SUFFICES ASSUME NEW e \in events' \ events PROVE e.id \in Ids /\ handled[e.id] = 0
    OBVIOUS
  <2>1. e.id \in ids
    BY <1>1
  <2>2. ~(handled[e.id] > 0)
    BY <1>1, <2>1 DEF IInv
  <2> QED
    BY <2>1, <2>2, EventTypes
<1>3. \A e \in events' : Seen(e)' => e \in events /\ Seen(e)
  BY <1>1, <1>2 DEF Seen
<1> QED
  BY <1>1, <1>3, EventTypes
     DEF OnceInv, StartIsPassed, ProcessedStay, OneAtATime, ProcessedIsNotRepeated,
         HandledOnce, Seen

LEMMA ListenKeepsOnce ==
  ASSUME IInv, OnceInv, NEW initial \in Blocks, NEW processed \in SUBSET Ids,
         Listen(initial, processed)
  PROVE  OnceInv'
<1>1. /\ latest = 0 /\ latest' = head /\ lastProcessedBlock' = head
      /\ initialBlock' = initial /\ processedIds' = processed
      /\ \A id \in processed : [block |-> initial, id |-> id] \in events
      /\ UNCHANGED <<head, events, polls, handled, overlapped>>
  BY DEF Listen, chainVars
<1>2. backfill'.left = {}
  BY DEF Listen, NoBackfill
<1>3. /\ \A id \in Ids : handled[id] = 0
      /\ \A p \in Slots : polls[p].at = "idle"
  BY <1>1 DEF IInv, NotYetListening
<1>4. head \in Nat /\ \A e \in events : ~Seen(e)
  BY <1>3, EventTypes DEF Seen, IInv
<1> QED
  BY <1>1, <1>2, <1>3, <1>4
     DEF OnceInv, StartIsPassed, ProcessedStay, OneAtATime, ProcessedIsNotRepeated,
         HandledOnce, Seen

\* The backfill takes events nobody handled, and none of those processed before.
LEMMA BackfillLogsKeepsOnce == ASSUME IInv, OnceInv, BackfillLogs PROVE OnceInv'
<1>1. /\ backfill.at = "logs" /\ backfill'.at = "handling"
      /\ backfill'.left = {e \in events :
                             /\ e.block \in initialBlock .. latest - 1
                             /\ ~(e.block = initialBlock /\ e.id \in processedIds)}
      /\ UNCHANGED <<events, latest, initialBlock, processedIds, lastProcessedBlock, polls,
                     handled, overlapped>>
  BY DEF BackfillLogs, chainVars, sourceVars
<1>2. \A e \in backfill'.left : e.id \notin processedIds
  <2> SUFFICES ASSUME NEW e \in backfill'.left, e.id \in processedIds PROVE FALSE
    OBVIOUS
  <2>1. [block |-> initialBlock, id |-> e.id] \in events
    BY DEF OnceInv, ProcessedStay
  <2>2. e = [block |-> initialBlock, id |-> e.id]
    BY <1>1, <2>1, EventTypes
  <2> QED
    BY <1>1, <2>2
<1>3. \A e \in backfill'.left : ~Seen(e)
  BY <1>1, EventTypes DEF OnceInv, StartIsPassed, IInv
<1> QED
  BY <1>1, <1>2, <1>3
     DEF OnceInv, StartIsPassed, ProcessedStay, OneAtATime, ProcessedIsNotRepeated,
         HandledOnce, Seen

\* Events are handled that were not processed before and, without an overlap,
\* not handled yet.
LEMMA HandlingKeepsOnce ==
  ASSUME IInv, OnceInv, NEW evs \in SUBSET events, handled' = HandledOnceMore(evs),
         UNCHANGED <<latest, initialBlock, processedIds>>, overlapped' = overlapped,
         \A e \in evs : initialBlock < latest => e.id \notin processedIds,
         ~overlapped => \A e \in evs : ~Seen(e)
  PROVE  /\ ProcessedIsNotRepeated' /\ HandledOnce'
         /\ \A e \in events \ evs : Seen(e)' = Seen(e)
<1>1. /\ \A id \in Ids : handled'[id] \in 0 .. 2
      /\ \A id \in Ids : handled'[id] > 0 <=> handled[id] > 0 \/ \E e \in evs : e.id = id
      /\ \A id \in Ids : handled[id] = 0 \/ (\A e \in evs : e.id # id)
                        => handled'[id] <= handled[id] \/ handled'[id] = 1
  BY HandlingSees DEF IInv
<1>2. \A e \in events \ evs : Seen(e)' = Seen(e)
  BY <1>1, EventTypes DEF Seen
<1>3. ASSUME NEW id \in processedIds, initialBlock < latest PROVE handled'[id] = 0
  <2>1. [block |-> initialBlock, id |-> id] \in events
    BY DEF OnceInv, ProcessedStay
  <2>2. id \in Ids
    BY <2>1, EventTypes
  <2>3. handled[id] = 0 /\ ~\E e \in evs : e.id = id
    BY <1>3 DEF OnceInv, ProcessedIsNotRepeated
  <2>4. handled'[id] \in 0 .. 2 /\ ~(handled'[id] > 0)
    BY <1>1, <2>2, <2>3
  <2> QED
    BY <2>4
<1>4. ASSUME ~overlapped, NEW id \in Ids PROVE handled'[id] <= 1
  <2>1. handled[id] \in 0 .. 2 /\ handled[id] <= 1
    BY <1>4, EventTypes DEF OnceInv, HandledOnce
  <2>2. handled[id] = 0 \/ \A e \in evs : e.id # id
    BY <1>4, <2>1 DEF Seen
  <2> QED
    BY <1>1, <2>1, <2>2
<1> QED
  BY <1>2, <1>3, <1>4 DEF ProcessedIsNotRepeated, HandledOnce

LEMMA BackfillHandlesKeepsOnce ==
  ASSUME IInv, OnceInv, NEW e \in backfill.left, BackfillHandles(e)
  PROVE  OnceInv'
<1>1. /\ handled' = HandledOnceMore({e}) /\ backfill.at = "handling"
      /\ backfill' = [backfill EXCEPT !.left = @ \ {e}]
      /\ UNCHANGED <<events, latest, initialBlock, processedIds, lastProcessedBlock, polls>>
      /\ overlapped' = overlapped
  BY DEF BackfillHandles, chainVars, sourceVars
<1>2. backfill'.at = "handling" /\ backfill'.left = backfill.left \ {e}
  BY <1>1 DEF IInv, Backfills
<1>3. e \in events /\ e.block < latest /\ e.id \notin processedIds
  BY DEF IInv, BackfillOK, OnceInv, ProcessedStay
<1>4. /\ ProcessedIsNotRepeated' /\ HandledOnce'
      /\ \A f \in events \ {e} : Seen(f)' = Seen(f)
  <2>1. ~overlapped => \A f \in {e} : ~Seen(f)
    BY DEF OnceInv, OneAtATime
  <2> QED
    BY <1>1, <1>3, <2>1, HandlingKeepsOnce
<1>5. StartIsPassed' /\ ProcessedStay'
  BY <1>1, <1>2 DEF OnceInv, StartIsPassed, ProcessedStay
<1>6. OneAtATime'
  <2>1. latest <= lastProcessedBlock /\ latest \in Nat /\ lastProcessedBlock \in Nat
    BY DEF OnceInv, StartIsPassed, IInv
  <2>2. ~overlapped => \A f \in events : f.block > lastProcessedBlock => ~Seen(f)'
    BY <1>3, <1>4, <2>1, EventTypes DEF OnceInv, OneAtATime
  <2>3. ~overlapped => \A f \in backfill'.left : ~Seen(f)'
    BY <1>2, <1>4, EventTypes DEF OnceInv, OneAtATime
  <2> QED
    BY <1>1, <2>2, <2>3 DEF OnceInv, OneAtATime
<1> QED
  BY <1>4, <1>5, <1>6 DEF OnceInv

\* The events of a poll are of blocks after the last one handled.
LEMMA HandlesLogsKeepsOnce ==
  ASSUME IInv, OnceInv, NEW p \in Slots, HandlesLogs(p)
  PROVE  OnceInv'
<1> DEFINE from == polls[p].from
           to == polls[p].to
           evs == {e \in events : e.block \in from .. to}
<1>1. /\ UNCHANGED <<events, latest, initialBlock, processedIds, backfill>>
      /\ overlapped' = overlapped
      /\ polls[p].at = "logs" /\ handled' = HandledOnceMore(evs)
      /\ lastProcessedBlock' = to /\ polls' = [polls EXCEPT ![p] = Idle]
  BY DEF HandlesLogs, chainVars, sourceVars
<1>2. polls'[p].at = "idle" /\ \A q \in Slots \ {p} : polls'[q] = polls[q]
  BY <1>1 DEF IInv, Idle
<1>3. /\ from \in Nat /\ to \in Nat /\ from <= to /\ from > latest
      /\ latest \in Nat /\ lastProcessedBlock \in Nat
  BY <1>1 DEF IInv, PollOK, OnceInv, StartIsPassed
<1>4. evs \in SUBSET events /\ \A e \in evs : e.block >= from
  BY <1>3, EventTypes
<1>5. ASSUME NEW e \in evs, initialBlock < latest PROVE e.id \notin processedIds
  <2> SUFFICES ASSUME e.id \in processedIds PROVE FALSE
    OBVIOUS
  <2>1. [block |-> initialBlock, id |-> e.id] \in events
    BY DEF OnceInv, ProcessedStay
  <2>2. e.block = initialBlock
    BY <1>4, <2>1, EventTypes
  <2> QED
    BY <1>3, <1>4, <1>5, <2>2, EventTypes
<1>6. ASSUME ~overlapped PROVE from = lastProcessedBlock + 1 /\ \A e \in evs : ~Seen(e)
  BY <1>1, <1>3, <1>4, <1>6, EventTypes DEF OnceInv, OneAtATime
<1>7. /\ ProcessedIsNotRepeated' /\ HandledOnce'
      /\ \A e \in events \ evs : Seen(e)' = Seen(e)
  <2> HIDE DEF evs
  <2> QED
    BY <1>1, <1>4, <1>5, <1>6, HandlingKeepsOnce
<1>8. StartIsPassed'
  <2>1. \A e \in events : Seen(e)' => Seen(e) \/ e.block > latest
    BY <1>3, <1>4, <1>7, EventTypes
  <2> QED
    BY <1>1, <1>2, <1>3, <2>1 DEF OnceInv, StartIsPassed
<1>9. ProcessedStay'
  BY <1>1 DEF OnceInv, ProcessedStay
<1>10. ASSUME ~overlapped PROVE
         /\ \A q, r \in Slots : polls'[q].at # "idle" /\ polls'[r].at # "idle" => q = r
         /\ \A q \in Slots : polls'[q].at = "idle"
  BY <1>1, <1>2, <1>10 DEF OnceInv, OneAtATime
<1>11. ASSUME ~overlapped, NEW e \in events, e.block > to \/ e \in backfill.left
       PROVE  ~Seen(e)'
  <2>1. e \notin evs
    BY <1>3, <1>11, EventTypes DEF IInv, BackfillOK
  <2>2. ~Seen(e)
    BY <1>3, <1>6, <1>11, EventTypes DEF OnceInv, OneAtATime
  <2> QED
    BY <1>7, <2>1, <2>2
<1>12. OneAtATime'
  BY <1>1, <1>10, <1>11, EventTypes DEF OneAtATime
<1> QED
  BY <1>7, <1>8, <1>9, <1>12 DEF OnceInv

\* The first await of a poll ends: it goes on after the last block handled.
LEMMA ReadsKeepsOnce ==
  ASSUME IInv, OnceInv, NEW p \in Slots, ReadsLastProcessed(p)
  PROVE  OnceInv'
<1> DEFINE from == lastProcessedBlock + 1
           to == polls[p].latestBlock - Confirmations
           poll == IF to <= from THEN Idle ELSE AskedLogs(from, to)
<1>1. /\ polls[p].at = "block" /\ polls' = [polls EXCEPT ![p] = poll]
      /\ UNCHANGED <<events, latest, initialBlock, processedIds, lastProcessedBlock, backfill,
                     handled>>
      /\ overlapped' = overlapped
  BY DEF ReadsLastProcessed, chainVars, sourceVars
<1>2. poll.at \in {"idle", "logs"} /\ (poll.at = "logs" => poll.from = from)
  BY DEF Idle, AskedLogs
<1>3. polls'[p] = poll /\ \A q \in Slots \ {p} : polls'[q] = polls[q]
  BY <1>1 DEF IInv
<1>4. from > latest
  BY DEF OnceInv, StartIsPassed, IInv
<1> HIDE DEF poll
<1>5. StartIsPassed'
  BY <1>1, <1>2, <1>3, <1>4 DEF OnceInv, StartIsPassed, Seen
<1>6. OneAtATime'
  BY <1>1, <1>2, <1>3 DEF OnceInv, OneAtATime, Seen
<1> QED
  BY <1>1, <1>5, <1>6 DEF OnceInv, ProcessedStay, ProcessedIsNotRepeated, HandledOnce

\* A timer that fires while another poll is under way is an overlap.
LEMMA TimerKeepsOnce == ASSUME IInv, OnceInv, NEW p \in Slots, TimerFires(p) PROVE OnceInv'
<1>1. /\ polls[p] = Idle /\ polls' = [polls EXCEPT ![p] = AskedBlock(head)]
      /\ UNCHANGED <<events, latest, initialBlock, processedIds, lastProcessedBlock, backfill,
                     handled>>
  BY DEF TimerFires, chainVars, sourceVars
<1>2. ~overlapped' => ~overlapped /\ \A q \in Slots : polls[q] = Idle
  BY Zenon DEF TimerFires
<1>3. polls'[p].at = "block" /\ \A q \in Slots \ {p} : polls'[q] = polls[q]
  BY <1>1 DEF IInv, AskedBlock
<1>4. Idle.at = "idle"
  BY DEF Idle
<1>5. StartIsPassed'
  BY <1>1, <1>3 DEF OnceInv, StartIsPassed, Seen
<1>6. OneAtATime'
  BY <1>1, <1>2, <1>3, <1>4 DEF OnceInv, OneAtATime, Seen
<1>7. HandledOnce'
  BY <1>1, <1>2 DEF OnceInv, HandledOnce
<1> QED
  BY <1>1, <1>5, <1>6, <1>7 DEF OnceInv, ProcessedStay, ProcessedIsNotRepeated

LEMMA NextOnceInv == IInv /\ OnceInv /\ [Next]_vars => OnceInv'
<1> SUFFICES ASSUME IInv, OnceInv, [Next]_vars PROVE OnceInv'
  OBVIOUS
<1>1. CASE Die \/ UNCHANGED vars
  <2>1. /\ UNCHANGED <<events, latest, initialBlock, processedIds, lastProcessedBlock,
                       backfill, polls, handled>>
        /\ overlapped' = overlapped
    BY <1>1 DEF Die, vars, chainVars, sourceVars
  <2> QED
    BY <2>1 DEF OnceInv, StartIsPassed, ProcessedStay, OneAtATime,
                ProcessedIsNotRepeated, HandledOnce, Seen
<1> QED
  BY <1>1, MineBlockKeepsOnce, ListenKeepsOnce, BackfillLogsKeepsOnce,
     BackfillHandlesKeepsOnce, TimerKeepsOnce, ReadsKeepsOnce, HandlesLogsKeepsOnce DEF Next

\* Both invariants together hold in every behaviour of the source.
THEOREM NothingTwiceInvariant == Spec => []OnceInv
BY InitOnceInv, NextOnceInv, ListenerInvariant, PTL DEF Spec

\* What metadata.processedIds names is not handled again.
THEOREM ProcessedStayProcessed == Spec => []ProcessedIsNotRepeated
<1>1. OnceInv => ProcessedIsNotRepeated
  BY DEF OnceInv
<1> QED
  BY <1>1, NothingTwiceInvariant, PTL

\* Unless a poll starts while another is under way, the handler is called at
\* most once for an event, whatever backfill and polls do.
THEOREM EventsAreHandledOnce == Spec => []HandledOnce
<1>1. OnceInv => HandledOnce
  BY DEF OnceInv
<1> QED
  BY <1>1, NothingTwiceInvariant, PTL

----------------------------------------------------------------------------
(* Types.                                                                   *)

\* What an invocation of pollEvents waits for tells what it has kept.
LEMMA PollsAre ==
  ASSUME NEW poll \in Polls
  PROVE  /\ poll.at = "block" => poll.latestBlock \in Blocks
         /\ poll.at = "logs" => poll.to \in Blocks
PROOF
<1>1. CASE poll = Idle
  BY <1>1 DEF Idle
<1>2. CASE \E n \in Blocks : poll = AskedBlock(n)
  BY <1>2 DEF AskedBlock
<1>3. CASE \E f \in 1 .. MaxBlocks + 1, t \in Blocks : poll = AskedLogs(f, t)
  BY <1>3 DEF AskedLogs
<1> QED BY <1>1, <1>2, <1>3 DEF Polls

LEMMA TypesKept == IInv /\ TypeOK /\ [Next]_vars => TypeOK'
PROOF
<1> SUFFICES ASSUME IInv, TypeOK, [Next]_vars PROVE TypeOK'
  OBVIOUS
<1>1. \A p \in Slots, poll \in Polls : [polls EXCEPT ![p] = poll] \in [Slots -> Polls]
  BY DEF TypeOK
<1>2. Idle \in Polls /\ (\A n \in Blocks : AskedBlock(n) \in Polls)
  BY DEF Polls
<1>3. \A evs \in SUBSET events : handled' = HandledOnceMore(evs) => handled' \in [Ids -> 0 .. 2]
  BY HandlingSees DEF IInv
<1>4. ASSUME NEW ids \in SUBSET Ids, MineBlock(ids) PROVE TypeOK'
  <2>1. head + 1 \in 1 .. MaxBlocks
    BY <1>4, ListenerBounds DEF MineBlock, TypeOK, Blocks
  <2> QED BY <1>4, <2>1 DEF MineBlock, TypeOK, Blocks, Events, sourceVars
<1>5. ASSUME NEW initial \in Blocks, NEW processed \in SUBSET Ids, Listen(initial, processed)
      PROVE  TypeOK'
  BY <1>5 DEF Listen, TypeOK, Backfills, NoBackfill, chainVars
<1>6. CASE Die
  BY <1>6 DEF Die, TypeOK, chainVars
<1>7. CASE BackfillLogs
  <2>1. backfill' \in Backfills
    BY <1>7 DEF BackfillLogs, TypeOK, Backfills
  <2> QED BY <1>7, <2>1 DEF BackfillLogs, TypeOK, chainVars, sourceVars
<1>8. ASSUME NEW e \in backfill.left, BackfillHandles(e) PROVE TypeOK'
  <2>1. backfill' \in Backfills
    BY <1>8 DEF BackfillHandles, TypeOK, Backfills
  <2>2. handled' \in [Ids -> 0 .. 2]
    BY <1>3, <1>8 DEF BackfillHandles, IInv, BackfillOK
  <2> QED BY <1>8, <2>1, <2>2 DEF BackfillHandles, TypeOK, chainVars, sourceVars
<1>9. ASSUME NEW p \in Slots, TimerFires(p) PROVE TypeOK'
  <2>1. polls' \in [Slots -> Polls]
    BY <1>1, <1>2, <1>9 DEF TimerFires, TypeOK
  <2> QED BY <1>9, <2>1 DEF TimerFires, TypeOK, chainVars, sourceVars
<1>10. ASSUME NEW p \in Slots, ReadsLastProcessed(p) PROVE TypeOK'
  <2> DEFINE fromBlock == lastProcessedBlock + 1
             toBlock == polls[p].latestBlock - Confirmations
  <2>1. fromBlock \in 1 .. MaxBlocks + 1 /\ toBlock \in Int /\ toBlock <= MaxBlocks
    BY <1>10, PollsAre, ListenerBounds DEF ReadsLastProcessed, TypeOK, Blocks
  <2>2. toBlock > fromBlock => AskedLogs(fromBlock, toBlock) \in Polls
    BY <2>1 DEF Polls, Blocks
  <2>3. polls' \in [Slots -> Polls]
    <3>1. polls' = [polls EXCEPT ![p] =
                      IF toBlock <= fromBlock THEN Idle ELSE AskedLogs(fromBlock, toBlock)]
      BY <1>10 DEF ReadsLastProcessed
    <3>2. (IF toBlock <= fromBlock THEN Idle ELSE AskedLogs(fromBlock, toBlock)) \in Polls
      BY <1>2, <2>1, <2>2
    <3> HIDE DEF fromBlock, toBlock
    <3> QED BY <1>1, <3>1, <3>2
  <2> QED BY <1>10, <2>3 DEF ReadsLastProcessed, TypeOK, chainVars, sourceVars
<1>11. ASSUME NEW p \in Slots, HandlesLogs(p) PROVE TypeOK'
  <2>1. lastProcessedBlock' \in Blocks
    BY <1>11, PollsAre DEF HandlesLogs, TypeOK
  <2>2. polls' \in [Slots -> Polls]
    BY <1>1, <1>2, <1>11 DEF HandlesLogs
  <2>3. handled' \in [Ids -> 0 .. 2]
    BY <1>3, <1>11 DEF HandlesLogs
  <2> QED BY <1>11, <2>1, <2>2, <2>3 DEF HandlesLogs, TypeOK, chainVars, sourceVars
<1>12. CASE UNCHANGED vars
  BY <1>12 DEF vars, TypeOK, chainVars, sourceVars
<1> QED
  BY <1>4, <1>5, <1>6, <1>7, <1>8, <1>9, <1>10, <1>11, <1>12 DEF Next

\* The types hold for any events, blocks and number of polls: no block number
\* leaves the chain, whichever poll writes it.
THEOREM TypesAreKept == Spec => []TypeOK
PROOF
<1>1. Init => TypeOK
  <2> SUFFICES ASSUME Init PROVE TypeOK
    OBVIOUS
  <2>1. events \in SUBSET Events /\ backfill \in Backfills
    BY InitIInv DEF IInv, EventsOK
  <2>2. 0 \in Blocks
    BY ListenerBounds DEF Blocks
  <2>3. [p \in Slots |-> Idle] \in [Slots -> Polls]
    BY DEF Polls
  <2>4. [id \in Ids |-> 0] \in [Ids -> 0 .. 2]
    OBVIOUS
  <2> QED BY <2>1, <2>2, <2>3, <2>4 DEF Init, TypeOK
<1> QED BY <1>1, TypesKept, ListenerInvariant, PTL DEF Spec
=============================================================================
