------------------------- MODULE EventIteratorProofs -------------------------
(***************************************************************************)
(* What TLAPS proves about EventIterator, for any logs, any capacity of    *)
(* the channel and any answers: no goroutine outlives its query, and the   *)
(* iterator is a log stream whichever case its selects take.               *)
(***************************************************************************)
EXTENDS EventIterator, TLAPS

\* A goroutine that nobody told to stop is over only with its work done.
OverWhenDone == producer = "over" /\ ~unsubscribed => unsent = <<>>

\* Close is what ends a query, and nothing follows a failure but Close.
ClosingOnly ==
  /\ unsubscribed => caller \in {"close", "idle"}
  /\ fail => caller \in {"false", "close", "idle"}

IInv == TypeOK /\ OverWhenDone /\ ClosingOnly /\ NoGoroutineIsLeft

\* A new channel is a channel.
LEMMA EmptyChannel == <<>> \in Seq(Logs) /\ Len(<<>>) <= Capacity
BY CapacityIsPositive

\* The invariant holds before the first query.
LEMMA InitIInv == Init => IInv
PROOF
<1> SUFFICES ASSUME Init PROVE IInv
  OBVIOUS
<1>1. unsent \in Seq(Logs) /\ logs \in Seq(Logs) /\ Len(logs) <= Capacity
  BY EmptyChannel DEF Init
<1>2. TypeOK
  BY <1>1 DEF Init, TypeOK, Callers
<1> QED BY <1>2 DEF Init, IInv, OverWhenDone, ClosingOnly, NoGoroutineIsLeft

\* Every step of the iterator, its goroutine and its caller keeps it.
LEMMA NextIInv == IInv /\ [Next]_vars => IInv'
PROOF
<1> SUFFICES ASSUME IInv, [Next]_vars PROVE IInv'
  OBVIOUS
<1> USE DEF IInv, TypeOK, OverWhenDone, ClosingOnly, NoGoroutineIsLeft, Callers
<1>1. ASSUME NEW answer \in Answers, FilterRequestReceived(answer) PROVE IInv'
  <2>1. unsent' \in Seq(Logs) /\ logs' \in Seq(Logs) /\ Len(logs') <= Capacity
    BY <1>1, EmptyChannel, AnswersAreLogs DEF FilterRequestReceived
  <2>2. event' \in Logs \cup {NoEvent} /\ queries' \in Nat
    BY <1>1 DEF FilterRequestReceived
  <2>3. /\ producer' = "sending" /\ caller' = "next"
        /\ unsubscribed' = FALSE /\ done' = FALSE /\ fail' = FALSE
    BY <1>1 DEF FilterRequestReceived
  <2> QED BY <2>1, <2>2, <2>3
<1>2. CASE ProducerSends
  BY <1>2, CapacityIsPositive DEF ProducerSends
<1>3. CASE ProducerEnds
  BY <1>3 DEF ProducerEnds
<1>4. CASE NextReturnsEvent
  BY <1>4, CapacityIsPositive DEF NextReturnsEvent, TakesLog
<1>5. CASE UnpackFails
  BY <1>5, CapacityIsPositive DEF UnpackFails, TakesLog
<1>6. CASE SubscriptionEnds
  BY <1>6 DEF SubscriptionEnds
<1>7. CASE NothingIsLeft
  BY <1>7 DEF NothingIsLeft
<1>8. CASE RequestIsTaken
  BY <1>8 DEF RequestIsTaken
<1>9. CASE Close
  BY <1>9 DEF Close
<1>10. CASE Closed
  BY <1>10 DEF Closed
<1>11. CASE UNCHANGED vars
  BY <1>11 DEF vars
<1> QED BY <1>1, <1>2, <1>3, <1>4, <1>5, <1>6, <1>7, <1>8, <1>9, <1>10, <1>11
        DEF Next, ProducerStep, CallerStep

\* The inductive invariant, for every capacity and answer.
THEOREM IteratorInvariant == Spec => []IInv
BY InitIInv, NextIInv, PTL DEF Spec

\* When the listener has no iterator no goroutine feeds one, and the end of
\* a subscription is seen only behind a goroutine that has sent everything.
THEOREM GoroutinesAreGone == Spec => []NoGoroutineIsLeft
<1>1. IInv => NoGoroutineIsLeft
  BY DEF IInv
<1> QED BY <1>1, IteratorInvariant, PTL

----------------------------------------------------------------------------
(* The refinement.  What is left of the stream is in the channel and with   *)
(* the goroutine.                                                           *)

Rest == IF fail THEN <<>> ELSE logs \o unsent

\* Between two steps of the listener the rest does not change: the goroutine
\* only moves a log from one end of it to the middle.
LEMMA MovingALog ==
  ASSUME NEW S, NEW s \in Seq(S), NEW t \in Seq(S), t # <<>>
  PROVE  Append(s, Head(t)) \o Tail(t) = s \o t
OBVIOUS

\* Taking a log from the channel takes the first of the rest.
LEMMA TakingALog ==
  ASSUME NEW S, NEW s \in Seq(S), NEW t \in Seq(S), s # <<>>
  PROVE  /\ s \o t # <<>>
         /\ Head(s \o t) = Head(s)
         /\ Tail(s \o t) = Tail(s) \o t
OBVIOUS

\* Before the first query there is no stream to read.
LEMMA StreamInit == Init => Stream!Init
BY DEF Init, Stream!Init, Reading

\* Each step queries, hands out a log, ends or abandons the stream, or leaves it.
LEMMA StreamStep == IInv /\ [Next]_vars => [Stream!Next]_(Stream!vars)
PROOF
<1> SUFFICES ASSUME IInv, [Next]_vars PROVE [Stream!Next]_(Stream!vars)
  OBVIOUS
<1>1. logs \in Seq(Logs) /\ unsent \in Seq(Logs)
  BY DEF IInv, TypeOK
<1>2. ASSUME NEW answer \in Answers, FilterRequestReceived(answer) PROVE Stream!Query
  <2>1. answer \in Seq(Logs)
    BY AnswersAreLogs
  <2>2. <<>> \o answer = answer
    BY <2>1
  <2> QED BY <1>2, <2>1, <2>2 DEF FilterRequestReceived, Stream!Query, Reading
<1>3. CASE ProducerSends
  <2>1. logs' \o unsent' = logs \o unsent
    BY <1>1, <1>3, MovingALog DEF ProducerSends
  <2> QED BY <1>3, <2>1 DEF ProducerSends, Stream!vars, Reading
<1>4. CASE NextReturnsEvent
  <2>1. ~fail /\ ~fail'
    BY <1>4 DEF NextReturnsEvent, TakesLog, IInv, ClosingOnly
  <2>2. /\ logs \o unsent # <<>>
        /\ Head(logs \o unsent) = Head(logs)
        /\ Tail(logs \o unsent) = Tail(logs) \o unsent
    BY <1>1, <1>4, TakingALog DEF NextReturnsEvent, TakesLog
  <2>3. Stream!HandOut
    BY <1>4, <2>1, <2>2 DEF NextReturnsEvent, TakesLog, Stream!HandOut, Reading
  <2> QED BY <2>3 DEF Stream!Next
<1>5. CASE UnpackFails
  <2>1. Stream!Abandon
    BY <1>5 DEF UnpackFails, TakesLog, Stream!Abandon, Reading
  <2> QED BY <2>1 DEF Stream!Next
<1>6. CASE NothingIsLeft
  <2>1. ~fail /\ unsent = <<>> /\ logs = <<>>
    BY <1>6 DEF NothingIsLeft, IInv, ClosingOnly, NoGoroutineIsLeft
  <2>2. Stream!End
    BY <1>1, <1>6, <2>1 DEF NothingIsLeft, Stream!End, Reading
  <2> QED BY <2>2 DEF Stream!Next
<1>7. CASE ProducerEnds \/ SubscriptionEnds \/ RequestIsTaken \/ Close \/ Closed
  BY <1>7 DEF ProducerEnds, SubscriptionEnds, RequestIsTaken, Close, Closed,
              Stream!vars, Reading
<1>8. CASE UNCHANGED vars
  BY <1>8 DEF vars, Stream!vars, Reading
<1> QED BY <1>2, <1>3, <1>4, <1>5, <1>6, <1>7, <1>8
        DEF Next, ProducerStep, CallerStep, Stream!Next

\* The iterator hands out the logs of an answer in order, each once, and ends
\* after the last one or when a log does not unpack.
THEOREM IteratorIsAStream == Spec => ImplementsLogStream
BY StreamInit, StreamStep, IteratorInvariant, PTL DEF Spec, Stream!Spec, ImplementsLogStream
=============================================================================
