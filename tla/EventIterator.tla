---------------------------- MODULE EventIterator ----------------------------
(***************************************************************************)
(* The iterator the Go binding of VRFCoreV1 returns for RequestReceived    *)
(* events.  FilterLogs of go-ethereum asks the node once and starts a      *)
(* goroutine that feeds the answer through a buffered channel under a      *)
(* subscription; Next chooses between the channel and the end of that      *)
(* subscription, in no fixed order when both are ready.  Its caller is the *)
(* loop of the core listener.  The iterators of the contract's other       *)
(* events are the same code.                                               *)
(***************************************************************************)
EXTENDS Naturals, Sequences

CONSTANTS
  Logs,       \* the logs the core may have made, one for each request
  NoEvent,    \* it.Event before the first Next
  Capacity,   \* of the channel logs; 128 in go-ethereum
  Answers,    \* what the node may answer to a query
  MaxQueries  \* bound: ranges the listener is given

ASSUME CapacityIsPositive == Capacity \in Nat \ {0}
ASSUME NoEventIsNoLog == NoEvent \notin Logs
ASSUME AnswersAreLogs == Answers \subseteq Seq(Logs)

VARIABLES
  unsent,        \* what the goroutine has yet to send
  logs,          \* it.logs, the buffered channel
  producer,      \* the goroutine: "sending", or "over" with sub.Err() closed
  unsubscribed,  \* whether Unsubscribe has closed its quit channel
  event,         \* it.Event
  done, fail,    \* it.done; whether it.fail is not nil
  caller,        \* what the listener is in: see Callers
  queries        \* history: queries made

vars == <<unsent, logs, producer, unsubscribed, event, done, fail, caller, queries>>

\* idle: no iterator.  next: inside Next.  event: Next returned true, and the
\* event waits for the executor.  false: Next returned false.  close: in Close.
Callers == {"idle", "next", "event", "false", "close"}

TypeOK ==
  /\ unsent \in Seq(Logs) /\ logs \in Seq(Logs)
  /\ Len(logs) <= Capacity
  /\ producer \in {"sending", "over"}
  /\ unsubscribed \in BOOLEAN
  /\ event \in Logs \cup {NoEvent}
  /\ done \in BOOLEAN /\ fail \in BOOLEAN
  /\ caller \in Callers
  /\ queries \in Nat

Init ==
  /\ unsent = <<>> /\ logs = <<>> /\ producer = "over" /\ unsubscribed = FALSE
  /\ event = NoEvent /\ done = FALSE /\ fail = FALSE
  /\ caller = "idle" /\ queries = 0

\* The node answers and an iterator is made; a query that fails makes none.
\* The listener enters its loop.
FilterRequestReceived(answer) ==
  /\ caller = "idle"
  /\ queries < MaxQueries
  /\ unsent' = answer /\ logs' = <<>> /\ producer' = "sending" /\ unsubscribed' = FALSE
  /\ event' = NoEvent /\ done' = FALSE /\ fail' = FALSE
  /\ caller' = "next"
  /\ queries' = queries + 1

----------------------------------------------------------------------------
(* The goroutine: logs <- log, or <-quit.                                   *)

ProducerSends ==
  /\ producer = "sending"
  /\ unsent # <<>>
  /\ Len(logs) < Capacity
  /\ logs' = Append(logs, Head(unsent))
  /\ unsent' = Tail(unsent)
  /\ UNCHANGED <<producer, unsubscribed, event, done, fail, caller, queries>>

\* Mutant of ProducerEnds: no look at the quit channel.
ProducerEndsWithItsWork ==
  /\ producer = "sending"
  /\ unsent = <<>>
  /\ producer' = "over"
  /\ UNCHANGED <<unsent, logs, unsubscribed, event, done, fail, caller, queries>>

ProducerEnds ==
  /\ producer = "sending"
  /\ unsent = <<>> \/ unsubscribed
  /\ producer' = "over"
  /\ UNCHANGED <<unsent, logs, unsubscribed, event, done, fail, caller, queries>>

----------------------------------------------------------------------------
(* Next.  The listener stops at the first false, so that Next is never      *)
(* entered with fail set.                                                   *)

\* A log from the channel, in either branch; its RequestId goes to the
\* listener.
TakesLog ==
  /\ caller = "next"
  /\ logs # <<>>
  /\ logs' = Tail(logs)
  /\ UNCHANGED <<unsent, producer, unsubscribed, done, queries>>

NextReturnsEvent ==
  /\ TakesLog
  /\ event' = Head(logs)
  /\ caller' = "event"
  /\ UNCHANGED fail

\* UnpackLog fails; the event it left is not looked at.
UnpackFails ==
  /\ TakesLog
  /\ fail' = TRUE
  /\ caller' = "false"
  /\ UNCHANGED event

\* err := <-it.sub.Err(), always nil here: Next calls itself with done set.
SubscriptionEnds ==
  /\ caller = "next"
  /\ ~done
  /\ producer = "over"
  /\ done' = TRUE
  /\ UNCHANGED <<unsent, logs, producer, unsubscribed, event, fail, caller, queries>>

\* Mutant of NothingIsLeft: the end of the subscription is the end.
EndsWithLogsLeft ==
  /\ caller = "next"
  /\ done
  /\ caller' = "false"
  /\ UNCHANGED <<unsent, logs, producer, unsubscribed, event, done, fail, queries>>

\* The default case of the select when done is set.
NothingIsLeft ==
  /\ caller = "next"
  /\ done
  /\ logs = <<>>
  /\ caller' = "false"
  /\ UNCHANGED <<unsent, logs, producer, unsubscribed, event, done, fail, queries>>

----------------------------------------------------------------------------
(* The listener's loop.                                                     *)

\* The executor has taken the request; the loop goes on.
RequestIsTaken ==
  /\ caller = "event"
  /\ caller' = "next"
  /\ UNCHANGED <<unsent, logs, producer, unsubscribed, event, done, fail, queries>>

\* Close: Unsubscribe closes the quit channel and waits for the goroutine.
Close ==
  /\ caller = "false"
  /\ unsubscribed' = TRUE
  /\ caller' = "close"
  /\ UNCHANGED <<unsent, logs, producer, event, done, fail, queries>>

\* Mutant of Closed: Unsubscribe does not wait.
ClosedAtOnce ==
  /\ caller = "close"
  /\ caller' = "idle"
  /\ UNCHANGED <<unsent, logs, producer, unsubscribed, event, done, fail, queries>>

Closed ==
  /\ caller = "close"
  /\ producer = "over"
  /\ caller' = "idle"
  /\ UNCHANGED <<unsent, logs, producer, unsubscribed, event, done, fail, queries>>

ProducerStep == ProducerSends \/ ProducerEnds
CallerStep ==
  \/ NextReturnsEvent \/ UnpackFails \/ SubscriptionEnds \/ NothingIsLeft
  \/ RequestIsTaken \/ Close \/ Closed

Next == (\E answer \in Answers : FilterRequestReceived(answer)) \/ ProducerStep \/ CallerStep

Spec == Init /\ [][Next]_vars

\* Goroutines that can run do, and the executor takes what it is offered
\* (RequestsAreSubmitted in VRFExecutor).
FairSpec == Spec /\ WF_vars(ProducerStep) /\ WF_vars(CallerStep)
----------------------------------------------------------------------------
(* Properties. *)

Reading == caller \in {"next", "event"}

\* Whatever the select of Next sees first, the listener gets the logs of the
\* answer in order, each once, and Next returns false only after the last of
\* them or when a log does not unpack.
Stream == INSTANCE LogStream WITH
  rest <- IF fail THEN <<>> ELSE logs \o unsent,
  reading <- Reading,
  abandoned <- fail

ImplementsLogStream == Stream!Spec

\* A goroutine of an earlier query never feeds the channel of a later one:
\* when the listener has no iterator no goroutine is left, and the loop has
\* found an end only behind a goroutine that is over.
NoGoroutineIsLeft ==
  /\ caller = "idle" => producer = "over"
  /\ done => producer = "over" /\ unsent = <<>>

\* Every query comes to its end, also one given up while the goroutine is
\* blocked on a full channel.
EveryQueryEnds == caller # "idle" ~> caller = "idle"
=============================================================================
