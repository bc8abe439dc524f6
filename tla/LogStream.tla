------------------------------ MODULE LogStream ------------------------------
(***************************************************************************)
(* What a reader of contract events promises its caller: the logs a query  *)
(* found are handed out one at a time, in order and without a gap, and     *)
(* the end is announced only after the last of them, unless the query is   *)
(* given up.  In VRFExecutor the sequence todo is the rest of a stream.    *)
(***************************************************************************)
EXTENDS Sequences

CONSTANTS
  Logs,    \* what a query may find
  NoEvent  \* nothing handed out yet

VARIABLES
  rest,      \* logs of the last query not handed out
  event,     \* the log handed out last
  reading,   \* whether the caller may ask for more
  abandoned  \* whether the last query was given up

vars == <<rest, event, reading, abandoned>>

Init == rest = <<>> /\ event = NoEvent /\ reading = FALSE /\ abandoned = FALSE

Query ==
  /\ ~reading
  /\ rest' \in Seq(Logs)
  /\ event' = NoEvent
  /\ reading' = TRUE
  /\ abandoned' = FALSE

HandOut ==
  /\ reading
  /\ rest # <<>>
  /\ event' = Head(rest)
  /\ rest' = Tail(rest)
  /\ UNCHANGED <<reading, abandoned>>

End ==
  /\ reading
  /\ rest = <<>>
  /\ reading' = FALSE
  /\ UNCHANGED <<rest, event, abandoned>>

Abandon ==
  /\ reading
  /\ rest' = <<>>
  /\ reading' = FALSE
  /\ abandoned' = TRUE
  /\ UNCHANGED event

Next == Query \/ HandOut \/ End \/ Abandon

Spec == Init /\ [][Next]_vars
=============================================================================
