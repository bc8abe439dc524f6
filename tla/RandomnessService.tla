-------------------------- MODULE RandomnessService --------------------------
(***************************************************************************)
(* What the random network promises its clients, with no contract, message *)
(* or chain in sight: a request is drawn one value, once; it ends once,    *)
(* completed or failed, for good; and when it completes its client holds   *)
(* the value drawn, unless it was answered from outside the network.       *)
(***************************************************************************)
CONSTANTS Ids, Values, None

VARIABLES
  status,    \* status[id]: "idle", "pending", "completed" or "failed"
  drawn,     \* drawn[id]: the value drawn for the request
  received,  \* received[id]: the value its client holds
  outside    \* the requests that were answered from outside

serviceVars == <<status, drawn, received, outside>>

Init ==
  /\ status = [id \in Ids |-> "idle"]
  /\ drawn = [id \in Ids |-> None]
  /\ received = [id \in Ids |-> None]
  /\ outside = {}

Ask(id) ==
  /\ status[id] = "idle"
  /\ status' = [status EXCEPT ![id] = "pending"]
  /\ UNCHANGED <<drawn, received, outside>>

Draw(id, v) ==
  /\ status[id] # "idle"
  /\ drawn[id] = None
  /\ drawn' = [drawn EXCEPT ![id] = v]
  /\ UNCHANGED <<status, received, outside>>

\* The value a request ends with is the one drawn, or comes from outside.
IsAnswer(id, v) ==
  /\ status[id] = "pending"
  /\ \/ drawn[id] = v /\ UNCHANGED outside
     \/ outside' = outside \cup {id}

Complete(id, v) ==
  /\ IsAnswer(id, v)
  /\ status' = [status EXCEPT ![id] = "completed"]
  /\ received' = [received EXCEPT ![id] = v]
  /\ UNCHANGED drawn

\* The client asks again from inside its callback.
CompleteAndAsk(id, v, next) ==
  /\ IsAnswer(id, v)
  /\ status[next] = "idle"
  /\ status' = [status EXCEPT ![id] = "completed", ![next] = "pending"]
  /\ received' = [received EXCEPT ![id] = v]
  /\ UNCHANGED drawn

Fail(id, v) ==
  /\ IsAnswer(id, v)
  /\ status' = [status EXCEPT ![id] = "failed"]
  /\ UNCHANGED <<drawn, received>>

Next ==
  \E id \in Ids :
    \/ Ask(id)
    \/ \E v \in Values :
         \/ Draw(id, v) \/ Complete(id, v) \/ Fail(id, v)
         \/ \E next \in Ids : CompleteAndAsk(id, v, next)

Spec == Init /\ [][Next]_serviceVars
=============================================================================
