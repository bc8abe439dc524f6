----------------------------- MODULE VRFNetwork ------------------------------
(***************************************************************************)
(* The random network end to end: clients and VRFRequestV1 on the origin   *)
(* chains, VRFCoreV1 on the random network, the mailboxes between them,    *)
(* whoever calls process() - the solver for logged messages, in any order, *)
(* and others -, and executors that answer the same request more than once *)
(* or one that is not there.                                               *)
(***************************************************************************)
EXTENDS VRFRequestV1, VRFCoreV1

vars == <<mailboxVars, requestVars, coreVars>>

TypeOK == MailboxTypeOK /\ RequestTypeOK /\ CoreTypeOK

InFlight == dispatched \ delivered

Init == MailboxInit /\ RequestInit /\ CoreInit

----------------------------------------------------------------------------
\* The admins' set-up transactions, at any time and in any order.

AdminSetsRecipient(c) ==
  SetRandomNetworkRecipient(c) /\ UNCHANGED <<mailboxVars, coreVars>>

AdminAddsRelayer(r) == AddRelayer(r) /\ UNCHANGED <<mailboxVars, requestVars>>

AdminAddsExecutor(e) == AddExecutor(e) /\ UNCHANGED <<mailboxVars, requestVars>>

----------------------------------------------------------------------------
\* Requests on their way to the core.

ClientRequests(c, client, limit) ==
  RequestRandomness(c, client, limit) /\ UNCHANGED coreVars

\* The solver's process() of a request on the random network.
ProcessAtCore(m) ==
  /\ Process(m, RandomNetwork, CoreAddress)
  /\ HandleCrossChainRequest(MailboxAccount, m.origin, m.sender, m.body.id)
  /\ UNCHANGED <<mailboxNonce, dispatched, requestVars>>

\* A relayer account hands a logged request to the core itself.
RelayerHandles(r, m) ==
  /\ m \in dispatched
  /\ m.destination = RandomNetwork
  /\ m.recipient = CoreAddress
  /\ HandleCrossChainRequest(r, m.origin, m.sender, m.body.id)
  /\ UNCHANGED <<mailboxVars, requestVars>>

----------------------------------------------------------------------------
\* Answers on their way back.

\* An account calls executeVRF; signer is whoever signed what it sends.  The
\* contract does not ask whether it knows the id.
ExecutorSubmits(e, id, answer, signer) ==
  /\ ExecuteVRF(e, id, answer, Signature(signer, id, answer))
  /\ UNCHANGED requestVars

\* The solver's process() of an answer on origin chain c, with the callback
\* of the requester inside it.
ProcessAtRequest(c, m) ==
  /\ Process(m, c, RequestAddress[c])
  /\ Callback(c, m.body.id, m.body.answer)
  /\ UNCHANGED <<foreign, coreVars>>

\* The security module the contract on c names verifies every message, and
\* handle() looks at neither the origin nor the sender nor whose key it is:
\* an answer may arrive that no executor gave, also for an id never requested.
UndispatchedAtRequest(c, id, answer) ==
  /\ ProcessUndispatched
  /\ Callback(c, id, answer)
  /\ MarkForeign(c, id)
  /\ UNCHANGED coreVars

Deliverable(c, id) ==
  {m \in InFlight : m.destination = c /\ m.recipient = RequestAddress[c] /\ m.body.id = id}

\* A message processed inside the callback of another for the same request;
\* ms are those of the two that were dispatched.
ProcessNested(c, id, answer, again, ms) ==
  /\ \A m \in ms : m.body.answer \in {answer, again}
  /\ delivered' = delivered \cup ms
  /\ CallbackRepeats(c, id, answer, again)
  /\ IF \E m, n \in ms : m # n THEN UNCHANGED foreign ELSE MarkForeign(c, id)
  /\ UNCHANGED coreVars

----------------------------------------------------------------------------
Next ==
  \/ \E c \in Chains : AdminSetsRecipient(c)
  \/ \E r \in Relayers : AdminAddsRelayer(r)
  \/ \E e \in Executors : AdminAddsExecutor(e)
  \/ \E c \in Chains, client \in Clients, limit \in GasLimits :
       ClientRequests(c, client, limit)
  \/ \E m \in dispatched : ProcessAtCore(m)
  \/ \E r \in Relayers, m \in dispatched : RelayerHandles(r, m)
  \/ \E e \in Executors, id \in RequestIds, answer \in Answers, signer \in Executors :
       ExecutorSubmits(e, id, answer, signer)
  \/ \E c \in Chains, m \in dispatched : ProcessAtRequest(c, m)
  \/ \E c \in Chains, id \in RequestIds, answer \in Answers :
       UndispatchedAtRequest(c, id, answer)
  \/ \E c \in Chains, id \in RequestIds, answer, again \in Answers :
       \E ms \in SUBSET Deliverable(c, id) : ProcessNested(c, id, answer, again, ms)

Spec == Init /\ [][Next]_vars
----------------------------------------------------------------------------
(* Properties. *)

Requested(id) == requests[id.chain][id].requester # Zero
Answered(id) == Requested(id) /\ requests[id.chain][id].status # "PENDING"

\* The core has received the request, and has validated an answer to it.
Received(id) == coreRequests[id].timestamp # 0
Validated(id) == Received(id) /\ coreRequests[id].status = "VALIDATED"

\* Answers that were sent to somebody: an id executed before it is received
\* is answered to the zero address of domain zero.
AnswerMessages == {m \in dispatched : m.body.answer # NoAnswer /\ m.destination # Zero}

\* A client is called back exactly once for a request, when it is answered
\* and never before; more often only inside the transaction that answers it
\* (DecidedStays) and with the help of a message nobody dispatched.
\* VRFRequestV1 writes the status only after the call, so that this rests on
\* the core, the mailbox and the contract together.
OneCallback ==
  \A id \in RequestIds :
    IF Answered(id)
    THEN /\ callbacks[id] >= 1
         /\ id \notin foreign => callbacks[id] = 1
    ELSE callbacks[id] = 0

\* A client holds a value for its own completed request only; and it is the
\* one the core validated for it, with a proof that verifies, unless a
\* message nobody dispatched was used to answer the request.
ClientsHoldTheCoresValue ==
  \A c \in Chains, client \in Clients, id \in RequestIds :
    randomnes[c][client][id] # Zero =>
      LET answer == coreRequests[id].answer IN
      /\ c = id.chain /\ client = id.client
      /\ Requested(id) /\ requests[c][id].status = "COMPLETED"
      /\ id \notin foreign =>
           /\ Validated(id)
           /\ answer # NoAnswer
           /\ answer.randomness = randomnes[c][client][id]
           /\ Verify(answer.publicKey, answer.proof, answer.randomness)

\* The core sends one answer to a request, to the contract that made it, also
\* when the id was executed once already before it was received: the unset
\* entry reads PENDING_EXECUTION with origin and sender zero.
OneAnswerToTheSender ==
  \A m \in AnswerMessages :
    /\ Requested(m.body.id)
    /\ m.destination = m.body.id.chain
    /\ m.recipient = RequestAddress[m.body.id.chain]
    /\ \A n \in AnswerMessages : n.body.id = m.body.id => n = m

\* The set of pending requests of the core is what its mapping says of them.
PendingSetIsExact ==
  pendingRequests = {id \in RequestIds :
    Received(id) /\ coreRequests[id].status = "PENDING_EXECUTION"}

\* A request that has no answer yet is always somewhere: its message waits
\* in the origin mailbox, or it is pending at the core, or the answer waits
\* in the mailbox of the random network.
NoRequestIsLost ==
  \A id \in RequestIds : Requested(id) /\ ~Answered(id) =>
    \/ /\ ~Received(id)
       /\ \E m \in InFlight : m.body = [id |-> id, answer |-> NoAnswer]
    \/ id \in pendingRequests
    \/ \E m \in InFlight \cap AnswerMessages : m.body.id = id

\* What is decided stays: after the transaction that answered a request its
\* entry, its callbacks and the value its client holds are as they are, and a
\* request the core has validated is never written again.
DecidedStep ==
  \A id \in RequestIds :
    /\ Answered(id) =>
         /\ requests'[id.chain][id] = requests[id.chain][id]
         /\ callbacks'[id] = callbacks[id]
         /\ randomnes'[id.chain][id.client][id] = randomnes[id.chain][id.client][id]
    /\ Validated(id) => coreRequests'[id] = coreRequests[id]
DecidedStays == [][DecidedStep]_vars

\* The whole network implements the service of RandomnessService: one draw,
\* one final status, and the value drawn unless it was answered from outside.
ServiceStatus(id) ==
  IF ~Requested(id) THEN "idle"
  ELSE CASE requests[id.chain][id].status = "PENDING" -> "pending"
         [] requests[id.chain][id].status = "COMPLETED" -> "completed"
         [] requests[id.chain][id].status = "FAILED" -> "failed"
ServiceDrawn(id) == IF Validated(id) THEN coreRequests[id].answer.randomness ELSE Zero
ServiceReceived(id) == randomnes[id.chain][id.client][id]

Service == INSTANCE RandomnessService WITH
  Ids <- RequestIds,
  None <- Zero,
  status <- [id \in RequestIds |-> ServiceStatus(id)],
  drawn <- [id \in RequestIds |-> ServiceDrawn(id)],
  received <- [id \in RequestIds |-> ServiceReceived(id)],
  outside <- foreign
ImplementsService == Service!Spec
----------------------------------------------------------------------------
(* The inductive invariant: what ties the state of the contracts and the    *)
(* messages together between two transactions.                              *)

\* An entry of the contract on c was never written by requestRandomness, or
\* its key is a request its client made there.
RequestsKnowTheirOwner ==
  \A c \in Chains, id \in RequestIds :
    requests[c][id].requester # Zero =>
      c = id.chain /\ requests[c][id].requester = id.client

\* Nonces not used yet have no requester.
NoncesAreFresh ==
  \A c \in Chains, id \in RequestIds :
    id.nonce >= requestNonce[c] => requests[c][id].requester = Zero

\* Requests and the messages that carry them match.
RequestMessagesAreRequests ==
  /\ \A m \in dispatched : m.body.answer = NoAnswer =>
       /\ m.origin = m.body.id.chain
       /\ m.sender = RequestAddress[m.body.id.chain]
       /\ m.destination = RandomNetwork
       /\ Requested(m.body.id)
  /\ \A id \in RequestIds : Requested(id) =>
       \E m \in dispatched : m.body = [id |-> id, answer |-> NoAnswer]

\* What the core knows of a request is true of it; of others it knows at most
\* what an executor sent.
CoreEntriesAreRequests ==
  \A id \in RequestIds :
    /\ ~Received(id) => coreRequests[id].origin = Zero /\ coreRequests[id].sender = Zero
    /\ Received(id) => /\ Requested(id)
                       /\ coreRequests[id].origin = id.chain
                       /\ coreRequests[id].sender = RequestAddress[id.chain]
    /\ id \in requestReceived <=> Received(id)
    /\ coreRequests[id].status = "VALIDATED" =>
         LET answer == coreRequests[id].answer IN
         answer # NoAnswer /\ Verify(answer.publicKey, answer.proof, answer.randomness)

\* Answer messages and validated requests match one to one.
AnswerMessagesAreTheCores ==
  /\ \A m \in AnswerMessages :
       Validated(m.body.id) /\ coreRequests[m.body.id].answer = m.body.answer
  /\ \A id \in RequestIds : Validated(id) => \E m \in AnswerMessages : m.body.id = id

\* A delivered message has had its effect, and every other answer is foreign.
DeliveredIsDone ==
  /\ delivered \subseteq dispatched
  /\ \A m \in delivered : IF m.body.answer = NoAnswer THEN Received(m.body.id)
                                                      ELSE Answered(m.body.id)
  /\ \A id \in RequestIds : Answered(id) => id \in foreign \/ Validated(id)
  /\ \A id \in foreign : Answered(id)

\* A client holds a value exactly for its completed requests: the core's, or
\* a foreign one.
ClientsHoldExactlyTheirs ==
  \A c \in Chains, client \in Clients, id \in RequestIds :
    IF /\ c = id.chain /\ client = id.client
       /\ Requested(id) /\ requests[c][id].status = "COMPLETED"
    THEN /\ randomnes[c][client][id] # Zero
         /\ id \notin foreign => randomnes[c][client][id] = coreRequests[id].answer.randomness
    ELSE randomnes[c][client][id] = Zero

IInv ==
  /\ TypeOK
  /\ RequestsKnowTheirOwner
  /\ NoncesAreFresh
  /\ RequestMessagesAreRequests
  /\ CoreEntriesAreRequests
  /\ PendingSetIsExact
  /\ AnswerMessagesAreTheCores
  /\ OneAnswerToTheSender
  /\ DeliveredIsDone
  /\ OneCallback
  /\ ClientsHoldExactlyTheirs
=============================================================================
