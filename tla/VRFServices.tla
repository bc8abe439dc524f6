----------------------------- MODULE VRFServices -----------------------------
(***************************************************************************)
(* The network with the services that carry requests and answers: the      *)
(* executor service and the solver.  Neither tries again: an executor      *)
(* drops a request after any error, a range whose filter fails and all     *)
(* that was logged while it was down or while its relayer runs; the solver *)
(* drops a message whose process() fails.  What they do not drop they do   *)
(* get to.                                                                 *)
(***************************************************************************)
EXTENDS VRFNetwork

VARIABLE dropped  \* history: the requests a service has given up

serviceNetworkVars == <<vars, dropped>>

ServicesInit == Init /\ dropped = {}

Drops(id) ==
  /\ id \notin dropped
  /\ dropped' = dropped \cup {id}
  /\ UNCHANGED vars

\* The executor service looks at the RequestReceived logs, and at nothing else.
ExecutorServes(id) ==
  /\ id \in requestReceived
  /\ \E e \in executors, answer \in Answers :
       ExecutorSubmits(e, id, answer, e) /\ UNCHANGED dropped
ExecutorDrops(id) == id \in requestReceived /\ ~Validated(id) /\ Drops(id)

\* The solver looks at the Dispatch logs.
SolverServes(id) ==
  \E m \in InFlight :
    /\ m.body.id = id
    /\ ProcessAtCore(m) \/ \E c \in Chains : ProcessAtRequest(c, m)
    /\ UNCHANGED dropped
SolverDrops(id) == (\E m \in InFlight : m.body.id = id) /\ Drops(id)

ServicesNext ==
  \/ Next /\ UNCHANGED dropped
  \/ \E id \in RequestIds : ExecutorDrops(id) \/ SolverDrops(id)

\* Each service takes up what it has seen, or drops it.
ServicesSpec ==
  /\ ServicesInit /\ [][ServicesNext]_serviceNetworkVars
  /\ \A id \in RequestIds :
       /\ WF_serviceNetworkVars(ExecutorServes(id) \/ ExecutorDrops(id))
       /\ WF_serviceNetworkVars(SolverServes(id) \/ SolverDrops(id))
----------------------------------------------------------------------------
\* A request sent to the core, once there is an executor, is answered, or a
\* service has dropped it: none is left with nobody who could take it up,
\* whatever the clients, the relayers and the order of the messages do.  A
\* request made before setRandomNetworkRecipient is sent to the zero address
\* and is not promised anything.
SentToCore(id) ==
  \E m \in dispatched : /\ m.body = [id |-> id, answer |-> NoAnswer]
                        /\ m.recipient = CoreAddress
EveryRequestIsAnswered ==
  \A id \in RequestIds :
    (SentToCore(id) /\ executors # {}) ~> (Answered(id) \/ id \in dropped)
=============================================================================
