---------------------------- MODULE VRFRequestV1 -----------------------------
(***************************************************************************)
(* VRFRequestV1, the contract clients ask for randomness, one per origin   *)
(* chain, with the client contracts it calls back.  Every external call is *)
(* one atomic transaction: a revert is the action not being taken.         *)
(***************************************************************************)
EXTENDS HyperlaneMailbox

VARIABLES
  requests,                \* requests[c][id]: the mapping of the contract on c
  requestNonce,            \* requestNonce[c]: its nonce
  randomNetworkRecipient,  \* randomNetworkRecipient[c]: where it sends requests
  randomnes,               \* randomnes[c][k][id]: what client k on c received
  callbacks,               \* history: callbacks[id] counts calls for the id
  foreign                  \* history: requests answered with the help of a
                           \* message that no contract dispatched

requestVars ==
  <<requests, requestNonce, randomNetworkRecipient, randomnes, callbacks, foreign>>

GasLimits == {"enough", "short"}
Statuses == {"PENDING", "COMPLETED", "FAILED"}

Requests ==
  [requester : Clients \cup {Zero}, callbackGasLimit : GasLimits, status : Statuses]

\* The EVM reads an id never written as all zeros: PENDING is enum value 0.
UnsetRequest ==
  [requester |-> Zero, callbackGasLimit |-> "short", status |-> "PENDING"]

RequestTypeOK ==
  /\ requests \in [Chains -> [RequestIds -> Requests]]
  /\ requestNonce \in [Chains -> 0 .. MaxRequests]
  /\ randomNetworkRecipient \in [Chains -> {CoreAddress, Zero}]
  /\ randomnes \in [Chains -> [Clients -> [RequestIds -> Values \cup {Zero}]]]
  /\ callbacks \in [RequestIds -> Nat]
  /\ foreign \in SUBSET RequestIds

\* initialize leaves randomNetworkRecipient unset; a transaction of its own sets it.
RequestInit ==
  /\ requests = [c \in Chains |-> [id \in RequestIds |-> UnsetRequest]]
  /\ requestNonce = [c \in Chains |-> 0]
  /\ randomNetworkRecipient = [c \in Chains |-> Zero]
  /\ randomnes = [c \in Chains |-> [k \in Clients |-> [id \in RequestIds |-> Zero]]]
  /\ callbacks = [id \in RequestIds |-> 0]
  /\ foreign = {}

SetRandomNetworkRecipient(c) ==
  /\ randomNetworkRecipient' = [randomNetworkRecipient EXCEPT ![c] = CoreAddress]
  /\ UNCHANGED <<requests, requestNonce, randomnes, callbacks, foreign>>

NextId(c, client) == [chain |-> c, client |-> client, nonce |-> requestNonce[c]]

\* The mapping after requestRandomness stored the request of client on c.
WithNewRequest(c, client, limit) ==
  [requests EXCEPT ![c][NextId(c, client)] =
     [requester |-> client, callbackGasLimit |-> limit, status |-> "PENDING"]]

\* Mutant of SendRequest: the nonce is used and not incremented.
NonceIsKept(c, client) ==
  /\ requestNonce[c] < MaxRequests
  /\ UNCHANGED requestNonce
  /\ Dispatch(c, RequestAddress[c], RandomNetwork, randomNetworkRecipient[c],
              [id |-> NextId(c, client), answer |-> NoAnswer])

\* The rest of requestRandomness: the nonce and the message to the core.
SendRequest(c, client) ==
  /\ requestNonce[c] < MaxRequests
  /\ requestNonce' = [requestNonce EXCEPT ![c] = @ + 1]
  /\ Dispatch(c, RequestAddress[c], RandomNetwork, randomNetworkRecipient[c],
              [id |-> NextId(c, client), answer |-> NoAnswer])

RequestRandomness(c, client, limit) ==
  /\ SendRequest(c, client)
  /\ requests' = WithNewRequest(c, client, limit)
  /\ UNCHANGED <<randomNetworkRecipient, randomnes, callbacks, foreign, delivered>>

\* Mutant of WithStatus: only a successful call is recorded.
OnlySuccessIsWritten(reqs, c, id, status) ==
  IF status = "FAILED" THEN reqs ELSE [reqs EXCEPT ![c][id].status = status]

\* A mapping reqs with the status rawReceiveRandomness writes after the call.
WithStatus(reqs, c, id, status) == [reqs EXCEPT ![c][id].status = status]

\* handle and rawReceiveRandomness up to the low-level call of the requester.
AcceptsAnswer(c, id, answer) ==
  /\ answer # NoAnswer
  /\ requests[c][id].status = "PENDING"
  /\ Verify(answer.publicKey, answer.proof, answer.randomness)

\* Calls of the requester, with what they leave behind.  The requester of an
\* unset request is the zero address: a call of it succeeds and does nothing.
IsClient(c, id) == requests[c][id].requester \in Clients

CallsMade(c, id, n) ==
  callbacks' = IF IsClient(c, id) THEN [callbacks EXCEPT ![id] = @ + n] ELSE callbacks

ClientStores(c, id, answer) ==
  randomnes' = IF IsClient(c, id)
               THEN [randomnes EXCEPT ![c][requests[c][id].requester][id] = answer.randomness]
               ELSE randomnes

\* A request of a client is marked when a message nobody dispatched was used.
MarkForeign(c, id) ==
  foreign' = IF IsClient(c, id) THEN foreign \cup {id} ELSE foreign

CallbackReturns(c, id, answer) ==
  /\ AcceptsAnswer(c, id, answer)
  /\ IsClient(c, id) => requests[c][id].callbackGasLimit = "enough"
  /\ CallsMade(c, id, 1)
  /\ ClientStores(c, id, answer)
  /\ requests' = WithStatus(requests, c, id, "COMPLETED")
  /\ NoDispatch
  /\ UNCHANGED <<requestNonce, randomNetworkRecipient>>

\* The requester asks for more randomness from inside its callback, before
\* the status of the request being answered is written.
CallbackReenters(c, id, answer, limit) ==
  /\ AcceptsAnswer(c, id, answer)
  /\ requests[c][id].callbackGasLimit = "enough"
  /\ IsClient(c, id)
  /\ CallsMade(c, id, 1)
  /\ ClientStores(c, id, answer)
  /\ SendRequest(c, requests[c][id].requester)
  /\ requests' = WithStatus(WithNewRequest(c, requests[c][id].requester, limit),
                            c, id, "COMPLETED")
  /\ UNCHANGED randomNetworkRecipient

\* From inside the callback a second message for the same request is
\* processed: the status still reads PENDING, so that it is taken, called
\* back and given a status, which the first call overwrites.  The value that
\* stays is the one the client stores last.  (A message for another request
\* has the same effect inside the callback and after it.)
CallbackRepeats(c, id, answer, again) ==
  /\ AcceptsAnswer(c, id, answer)
  /\ AcceptsAnswer(c, id, again)
  /\ requests[c][id].callbackGasLimit = "enough"
  /\ IsClient(c, id)
  /\ CallsMade(c, id, 2)
  /\ ClientStores(c, id, answer) \/ ClientStores(c, id, again)
  /\ requests' = WithStatus(requests, c, id, "COMPLETED")
  /\ NoDispatch
  /\ UNCHANGED <<requestNonce, randomNetworkRecipient>>

\* The callback reverts or runs out of gas; its effects are rolled back, the
\* transaction goes on.
CallbackFails(c, id, answer) ==
  /\ AcceptsAnswer(c, id, answer)
  /\ IsClient(c, id)
  /\ CallsMade(c, id, 1)
  /\ requests' = WithStatus(requests, c, id, "FAILED")
  /\ NoDispatch
  /\ UNCHANGED <<requestNonce, randomNetworkRecipient, randomnes>>

Callback(c, id, answer) ==
  \/ CallbackReturns(c, id, answer)
  \/ \E limit \in GasLimits : CallbackReenters(c, id, answer, limit)
  \/ CallbackFails(c, id, answer)
=============================================================================
