------------------------------ MODULE VRFCoreV1 ------------------------------
(***************************************************************************)
(* VRFCoreV1, the contract of the random network that records the requests *)
(* relayed from the origin chains, takes the executors' answers and sends  *)
(* each validated answer back.  A revert is the action not being taken.    *)
(***************************************************************************)
EXTENDS HyperlaneMailbox

CONSTANTS
  Relayers,       \* accounts the admin may grant RELAYER_ROLE
  MailboxAccount  \* the mailbox on the random network, granted it by initialize

VARIABLES
  coreRequests,     \* the mapping requests: id -> RequestData
  pendingRequests,  \* the enumerable set of ids waiting for an executor
  relayers,         \* holders of RELAYER_ROLE
  executors,        \* holders of EXECUTOR_ROLE
  requestReceived   \* the ids in the RequestReceived logs

coreVars == <<coreRequests, pendingRequests, relayers, executors, requestReceived>>

CoreStatuses == {"PENDING_EXECUTION", "VALIDATED"}

RequestData ==
  [origin : Domains, sender : Addresses, timestamp : {0, 1},
   status : CoreStatuses, executor : Executors \cup {Zero},
   answer : Answers \cup {NoAnswer}]

\* An id never written reads as zeros: status PENDING_EXECUTION, timestamp 0.
UnsetData ==
  [origin |-> Zero, sender |-> Zero, timestamp |-> 0,
   status |-> "PENDING_EXECUTION", executor |-> Zero, answer |-> NoAnswer]

CoreTypeOK ==
  /\ coreRequests \in [RequestIds -> RequestData]
  /\ pendingRequests \in SUBSET RequestIds
  /\ relayers \in SUBSET (Relayers \cup {MailboxAccount})
  /\ executors \in SUBSET Executors
  /\ requestReceived \in SUBSET RequestIds

CoreInit ==
  /\ coreRequests = [id \in RequestIds |-> UnsetData]
  /\ pendingRequests = {}
  /\ relayers = {MailboxAccount}
  /\ executors = {}
  /\ requestReceived = {}

AddRelayer(r) ==
  /\ relayers' = relayers \cup {r}
  /\ UNCHANGED <<coreRequests, pendingRequests, executors, requestReceived>>

AddExecutor(e) ==
  /\ executors' = executors \cup {e}
  /\ UNCHANGED <<coreRequests, pendingRequests, relayers, requestReceived>>

\* Mutants of HandleCrossChainRequest: origin and sender of an older message
\* overwritten after the duplicate check was dropped; the id left out of the
\* pending set; the event not emitted.
RepeatedRequestIsTaken(caller, origin, sender, id) ==
  /\ caller \in relayers
  /\ coreRequests' = [coreRequests EXCEPT
       ![id].origin = origin, ![id].sender = sender,
       ![id].timestamp = 1, ![id].status = "PENDING_EXECUTION"]
  /\ pendingRequests' = pendingRequests \cup {id}
  /\ requestReceived' = requestReceived \cup {id}
  /\ UNCHANGED <<relayers, executors>>

RequestIsNotPending(caller, origin, sender, id) ==
  /\ caller \in relayers
  /\ coreRequests[id].timestamp = 0
  /\ coreRequests' = [coreRequests EXCEPT
       ![id].origin = origin, ![id].sender = sender,
       ![id].timestamp = 1, ![id].status = "PENDING_EXECUTION"]
  /\ requestReceived' = requestReceived \cup {id}
  /\ UNCHANGED <<pendingRequests, relayers, executors>>

RequestIsNotLogged(caller, origin, sender, id) ==
  /\ caller \in relayers
  /\ coreRequests[id].timestamp = 0
  /\ coreRequests' = [coreRequests EXCEPT
       ![id].origin = origin, ![id].sender = sender,
       ![id].timestamp = 1, ![id].status = "PENDING_EXECUTION"]
  /\ pendingRequests' = pendingRequests \cup {id}
  /\ UNCHANGED <<relayers, executors, requestReceived>>

\* handle, called by a holder of RELAYER_ROLE: decoding takes the id alone.
\* timestamp 1 stands for block.timestamp, which is never 0.
HandleCrossChainRequest(caller, origin, sender, id) ==
  /\ caller \in relayers
  /\ coreRequests[id].timestamp = 0
  /\ coreRequests' = [coreRequests EXCEPT
       ![id].origin = origin, ![id].sender = sender,
       ![id].timestamp = 1, ![id].status = "PENDING_EXECUTION"]
  /\ pendingRequests' = pendingRequests \cup {id}
  /\ requestReceived' = requestReceived \cup {id}
  /\ UNCHANGED <<relayers, executors>>

\* A signature is the record of who signed what.
Signature(signer, id, answer) ==
  [signer |-> signer, id |-> id,
   randomness |-> answer.randomness, proof |-> answer.proof]

VerifyExecutorSignature(id, answer, signature, sender) ==
  signature = Signature(sender, id, answer)

\* Mutant of ExecuteVRF: no check of the status, so that a second executor
\* answers again.
AnsweredRequestIsExecuted(sender, id, answer, signature) ==
  /\ sender \in executors
  /\ VerifyExecutorSignature(id, answer, signature, sender)
  /\ Verify(answer.publicKey, answer.proof, answer.randomness)
  /\ coreRequests' = [coreRequests EXCEPT
       ![id].executor = sender, ![id].answer = answer, ![id].status = "VALIDATED"]
  /\ pendingRequests' = pendingRequests \ {id}
  /\ Dispatch(RandomNetwork, CoreAddress,
              coreRequests[id].origin, coreRequests[id].sender,
              [id |-> id, answer |-> answer])
  /\ UNCHANGED <<relayers, executors, requestReceived, delivered>>

ExecuteVRF(sender, id, answer, signature) ==
  /\ sender \in executors
  /\ coreRequests[id].status = "PENDING_EXECUTION"
  /\ VerifyExecutorSignature(id, answer, signature, sender)
  /\ Verify(answer.publicKey, answer.proof, answer.randomness)
  /\ coreRequests' = [coreRequests EXCEPT
       ![id].executor = sender, ![id].answer = answer, ![id].status = "VALIDATED"]
  /\ pendingRequests' = pendingRequests \ {id}
  /\ Dispatch(RandomNetwork, CoreAddress,
              coreRequests[id].origin, coreRequests[id].sender,
              [id |-> id, answer |-> answer])
  /\ UNCHANGED <<relayers, executors, requestReceived, delivered>>
=============================================================================
