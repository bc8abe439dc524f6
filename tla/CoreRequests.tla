---------------------------- MODULE CoreRequests -----------------------------
(***************************************************************************)
(* What the core keeps of its requests, for whoever looks at it: one is    *)
(* received once, and validated once and for good, never before.  The      *)
(* network (VRFNetwork), the executor with the node in front of the core   *)
(* (VRFExecutor) and the binding (VRFCoreBinding) each contain a core of   *)
(* their own; that all of them implement this one is why they can be       *)
(* looked at apart.                                                        *)
(***************************************************************************)
CONSTANT Ids

VARIABLES
  received,  \* the requests of which there is an entry
  validated  \* those an answer was accepted for

coreVars == <<received, validated>>

Init == received = {} /\ validated = {}

Receive(id) ==
  /\ id \notin received
  /\ received' = received \cup {id}
  /\ UNCHANGED validated

\* A block may hold the answers of several requests.
Validate(ids) ==
  /\ ids \subseteq received \ validated
  /\ validated' = validated \cup ids
  /\ UNCHANGED received

Next ==
  \/ \E id \in Ids : Receive(id)
  \/ \E ids \in SUBSET Ids : Validate(ids)

Spec == Init /\ [][Next]_coreVars
=============================================================================
