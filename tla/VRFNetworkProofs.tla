-------------------------- MODULE VRFNetworkProofs ---------------------------
(***************************************************************************)
(* Proofs about VRFNetwork, for every set of chains, clients, executors,   *)
(* relayers and values and every bound on the number of requests: types,   *)
(* then IInv and the safety properties that follow from it, then what is   *)
(* decided stays decided and the network implements RandomnessService.     *)
(***************************************************************************)
EXTENDS VRFNetwork, TLAPS

(* Types ******************************************************************)

LEMMA InitTypes == Init => TypeOK
BY BoundIsNat
   DEF Init, MailboxInit, RequestInit, CoreInit, TypeOK, MailboxTypeOK,
       RequestTypeOK, CoreTypeOK, Requests, UnsetRequest, GasLimits, Statuses,
       RequestData, UnsetData, CoreStatuses, Domains, Addresses

\* The message requestRandomness dispatches, and the id it is for.
LEMMA SendRequestTypes ==
  ASSUME TypeOK, NEW c \in Chains, NEW client \in Clients, SendRequest(c, client)
  PROVE  /\ NextId(c, client) \in RequestIds
         /\ requestNonce' \in [Chains -> 0 .. MaxRequests]
         /\ mailboxNonce' \in [Domains -> Nat]
         /\ dispatched' \in SUBSET Messages
<1> USE DEF TypeOK, MailboxTypeOK, RequestTypeOK
<1>1. requestNonce[c] \in 0 .. MaxRequests - 1
  BY BoundIsNat DEF SendRequest
<1>2. NextId(c, client) \in RequestIds
  BY <1>1 DEF NextId, RequestIds
<1>3. requestNonce' \in [Chains -> 0 .. MaxRequests]
  BY <1>1, BoundIsNat DEF SendRequest
<1>4. c \in Domains /\ RandomNetwork \in Domains
  BY DEF Domains
<1>5. mailboxNonce' \in [Domains -> Nat]
  BY <1>4 DEF SendRequest, Dispatch
<1>6. [id |-> NextId(c, client), answer |-> NoAnswer] \in Bodies
  BY <1>2 DEF Bodies
<1>7. RequestAddress[c] \in Addresses /\ randomNetworkRecipient[c] \in Addresses
  BY DEF Addresses
<1>8. Message(c, RequestAddress[c], RandomNetwork, randomNetworkRecipient[c],
              [id |-> NextId(c, client), answer |-> NoAnswer]) \in Messages
  BY <1>4, <1>6, <1>7 DEF Message, Messages
<1>9. dispatched' \in SUBSET Messages
  BY <1>8 DEF SendRequest, Dispatch
<1> QED BY <1>2, <1>3, <1>5, <1>9

LEMMA RequestRandomnessTypes ==
  ASSUME TypeOK, NEW c \in Chains, NEW client \in Clients, NEW limit \in GasLimits,
         ClientRequests(c, client, limit)
  PROVE  TypeOK'
<1>1. /\ NextId(c, client) \in RequestIds
      /\ requestNonce' \in [Chains -> 0 .. MaxRequests]
      /\ mailboxNonce' \in [Domains -> Nat]
      /\ dispatched' \in SUBSET Messages
  BY SendRequestTypes DEF ClientRequests, RequestRandomness
<1>2. [requester |-> client, callbackGasLimit |-> limit, status |-> "PENDING"] \in Requests
  BY DEF Requests, Statuses
<1>3. requests' \in [Chains -> [RequestIds -> Requests]]
  BY <1>1, <1>2 DEF TypeOK, RequestTypeOK, ClientRequests, RequestRandomness, WithNewRequest
<1> QED
  BY <1>1, <1>3 DEF TypeOK, MailboxTypeOK, RequestTypeOK, CoreTypeOK, ClientRequests,
                    RequestRandomness, coreVars

\* handle() writes the entry of one id and no other.
LEMMA HandleWritesOneEntry ==
  ASSUME NEW id \in RequestIds, coreRequests \in [RequestIds -> RequestData],
         NEW caller, NEW origin \in Domains, NEW sender \in Addresses,
         HandleCrossChainRequest(caller, origin, sender, id)
  PROVE  /\ coreRequests' \in [RequestIds -> RequestData]
         /\ coreRequests'[id].origin = origin
         /\ coreRequests'[id].sender = sender
         /\ coreRequests'[id].timestamp = 1
         /\ coreRequests'[id].status = "PENDING_EXECUTION"
         /\ \A i \in RequestIds \ {id} : coreRequests'[i] = coreRequests[i]
<1> DEFINE entry == [coreRequests[id] EXCEPT !.origin = origin, !.sender = sender,
                       !.timestamp = 1, !.status = "PENDING_EXECUTION"]
<1>1. coreRequests' = [coreRequests EXCEPT
        ![id].origin = origin, ![id].sender = sender,
        ![id].timestamp = 1, ![id].status = "PENDING_EXECUTION"]
  BY DEF HandleCrossChainRequest
<1>2. DOMAIN coreRequests = RequestIds
  OBVIOUS
<1>3. coreRequests' = [coreRequests EXCEPT ![id] = entry]
  BY <1>1, <1>2
<1>4. /\ entry \in RequestData
      /\ entry.origin = origin /\ entry.sender = sender
      /\ entry.timestamp = 1 /\ entry.status = "PENDING_EXECUTION"
  BY DEF RequestData, CoreStatuses
<1> HIDE DEF entry
<1> QED BY <1>3, <1>4

LEMMA HandleTypes ==
  ASSUME TypeOK, NEW caller, NEW m \in dispatched,
         HandleCrossChainRequest(caller, m.origin, m.sender, m.body.id)
  PROVE  CoreTypeOK'
<1> DEFINE id == m.body.id
<1>1. m.origin \in Domains /\ m.sender \in Addresses /\ id \in RequestIds
  BY DEF TypeOK, MailboxTypeOK, Messages, Bodies
<1>2. coreRequests \in [RequestIds -> RequestData]
  BY DEF TypeOK, CoreTypeOK
<1>3. coreRequests' \in [RequestIds -> RequestData]
  BY <1>1, <1>2, HandleWritesOneEntry
<1>4. /\ pendingRequests' = pendingRequests \cup {id}
      /\ requestReceived' = requestReceived \cup {id}
      /\ UNCHANGED <<relayers, executors>>
  BY DEF HandleCrossChainRequest
<1> QED
  BY <1>1, <1>3, <1>4 DEF TypeOK, CoreTypeOK

LEMMA ExecuteTypes ==
  ASSUME TypeOK, NEW e \in Executors, NEW id \in RequestIds, NEW answer \in Answers,
         NEW signer \in Executors, ExecutorSubmits(e, id, answer, signer)
  PROVE  TypeOK'
<1>1. coreRequests[id].origin \in Domains /\ coreRequests[id].sender \in Addresses
  BY DEF TypeOK, CoreTypeOK, RequestData
<1>2. coreRequests' \in [RequestIds -> RequestData]
  BY DEF TypeOK, CoreTypeOK, ExecutorSubmits, ExecuteVRF, RequestData, CoreStatuses
<1>3. [id |-> id, answer |-> answer] \in Bodies
  BY DEF Bodies
<1>4. RandomNetwork \in Domains /\ CoreAddress \in Addresses
  BY DEF Domains, Addresses
<1>5. mailboxNonce' \in [Domains -> Nat]
  BY <1>4 DEF TypeOK, MailboxTypeOK, ExecutorSubmits, ExecuteVRF, Dispatch
<1>6. dispatched' \in SUBSET Messages
  BY <1>1, <1>3, <1>4
  DEF TypeOK, MailboxTypeOK, ExecutorSubmits, ExecuteVRF, Dispatch, Message, Messages
<1> QED
  BY <1>2, <1>5, <1>6
  DEF TypeOK, MailboxTypeOK, RequestTypeOK, CoreTypeOK, ExecutorSubmits, ExecuteVRF,
      requestVars

\* Whatever the callback does, once or twice.
LEMMA CallbackTypes ==
  ASSUME TypeOK, NEW c \in Chains, NEW id \in RequestIds, NEW answer \in Answers,
         \/ Callback(c, id, answer)
         \/ \E again \in Answers : CallbackRepeats(c, id, answer, again)
  PROVE  /\ requests' \in [Chains -> [RequestIds -> Requests]]
         /\ requestNonce' \in [Chains -> 0 .. MaxRequests]
         /\ randomNetworkRecipient' \in [Chains -> {CoreAddress, Zero}]
         /\ randomnes' \in [Chains -> [Clients -> [RequestIds -> Values \cup {Zero}]]]
         /\ callbacks' \in [RequestIds -> Nat]
         /\ mailboxNonce' \in [Domains -> Nat]
         /\ dispatched' \in SUBSET Messages
<1>1. /\ requests \in [Chains -> [RequestIds -> Requests]]
      /\ requestNonce \in [Chains -> 0 .. MaxRequests]
      /\ randomNetworkRecipient \in [Chains -> {CoreAddress, Zero}]
      /\ randomnes \in [Chains -> [Clients -> [RequestIds -> Values \cup {Zero}]]]
      /\ callbacks \in [RequestIds -> Nat]
      /\ mailboxNonce \in [Domains -> Nat]
      /\ dispatched \in SUBSET Messages
  BY DEF TypeOK, RequestTypeOK, MailboxTypeOK
<1>2. ASSUME NEW r \in Requests, NEW status \in Statuses
      PROVE  [r EXCEPT !.status = status] \in Requests
  BY <1>2 DEF Requests
<1>3. ASSUME NEW reqs \in [Chains -> [RequestIds -> Requests]], NEW status \in Statuses
      PROVE  WithStatus(reqs, c, id, status) \in [Chains -> [RequestIds -> Requests]]
  BY <1>2, <1>3 DEF WithStatus
<1>4. ASSUME NEW n \in Nat, CallsMade(c, id, n) PROVE callbacks' \in [RequestIds -> Nat]
  BY <1>1, <1>4 DEF CallsMade
<1>5. ASSUME NEW a \in Answers, ClientStores(c, id, a)
      PROVE  randomnes' \in [Chains -> [Clients -> [RequestIds -> Values \cup {Zero}]]]
  BY <1>1, <1>5 DEF ClientStores, Answers, IsClient
<1>6. CASE CallbackReturns(c, id, answer)
  <2>1. requests' \in [Chains -> [RequestIds -> Requests]]
    BY <1>1, <1>3, <1>6 DEF CallbackReturns, Statuses
  <2> QED
    BY <1>1, <1>4, <1>5, <1>6, <2>1 DEF CallbackReturns, NoDispatch
<1>7. CASE \E limit \in GasLimits : CallbackReenters(c, id, answer, limit)
  <2> PICK limit \in GasLimits : CallbackReenters(c, id, answer, limit)
    BY <1>7
  <2> DEFINE client == requests[c][id].requester
  <2>1. client \in Clients /\ SendRequest(c, client)
    BY DEF CallbackReenters, IsClient
  <2>2. /\ NextId(c, client) \in RequestIds
        /\ requestNonce' \in [Chains -> 0 .. MaxRequests]
        /\ mailboxNonce' \in [Domains -> Nat]
        /\ dispatched' \in SUBSET Messages
    BY <2>1, SendRequestTypes
  <2>3. [requester |-> client, callbackGasLimit |-> limit, status |-> "PENDING"] \in Requests
    BY <2>1 DEF Requests, Statuses
  <2>4. WithNewRequest(c, client, limit) \in [Chains -> [RequestIds -> Requests]]
    BY <1>1, <2>2, <2>3 DEF WithNewRequest
  <2>5. requests' \in [Chains -> [RequestIds -> Requests]]
    BY <1>3, <2>4 DEF CallbackReenters, Statuses
  <2>6. callbacks' \in [RequestIds -> Nat]
    BY <1>4 DEF CallbackReenters
  <2>7. randomnes' \in [Chains -> [Clients -> [RequestIds -> Values \cup {Zero}]]]
    BY <1>5 DEF CallbackReenters
  <2> QED
    BY <1>1, <2>2, <2>5, <2>6, <2>7 DEF CallbackReenters
<1>8. CASE CallbackFails(c, id, answer)
  <2>1. requests' \in [Chains -> [RequestIds -> Requests]]
    BY <1>1, <1>3, <1>8 DEF CallbackFails, Statuses
  <2> QED
    BY <1>1, <1>4, <1>8, <2>1 DEF CallbackFails, NoDispatch
<1>9. CASE \E again \in Answers : CallbackRepeats(c, id, answer, again)
  <2> PICK again \in Answers : CallbackRepeats(c, id, answer, again)
    BY <1>9
  <2>1. requests' \in [Chains -> [RequestIds -> Requests]]
    BY <1>1, <1>3 DEF CallbackRepeats, Statuses
  <2>2. callbacks' \in [RequestIds -> Nat]
    BY <1>4 DEF CallbackRepeats
  <2>3. randomnes' \in [Chains -> [Clients -> [RequestIds -> Values \cup {Zero}]]]
    BY <1>5 DEF CallbackRepeats
  <2> QED
    BY <1>1, <2>1, <2>2, <2>3 DEF CallbackRepeats, NoDispatch
<1> QED BY <1>6, <1>7, <1>8, <1>9 DEF Callback

LEMMA CallbackKeepsTypes ==
  ASSUME TypeOK, NEW c \in Chains, NEW id \in RequestIds, NEW answer \in Answers,
         \/ Callback(c, id, answer)
         \/ \E again \in Answers : CallbackRepeats(c, id, answer, again),
         delivered' \in SUBSET Messages,
         UNCHANGED foreign \/ MarkForeign(c, id), UNCHANGED coreVars
  PROVE  TypeOK'
<1>1. foreign' \in SUBSET RequestIds
  BY DEF MarkForeign, TypeOK, RequestTypeOK
<1>2. CoreTypeOK'
  BY DEF TypeOK, CoreTypeOK, coreVars
<1> QED
  BY <1>1, <1>2, CallbackTypes DEF TypeOK, MailboxTypeOK, RequestTypeOK

LEMMA ProcessAtRequestTypes ==
  ASSUME TypeOK, NEW c \in Chains, NEW m \in dispatched, ProcessAtRequest(c, m)
  PROVE  TypeOK'
<1>1. Callback(c, m.body.id, m.body.answer)
  BY DEF ProcessAtRequest
<1>2. m.body.answer # NoAnswer
  BY <1>1 DEF Callback, CallbackReturns, CallbackReenters, CallbackFails, AcceptsAnswer
<1>3. m.body.id \in RequestIds /\ m.body.answer \in Answers
  BY <1>2 DEF TypeOK, MailboxTypeOK, Messages, Bodies
<1>4. delivered' \in SUBSET Messages
  BY DEF TypeOK, MailboxTypeOK, ProcessAtRequest, Process
<1> QED
  BY <1>1, <1>3, <1>4, CallbackKeepsTypes DEF ProcessAtRequest

LEMMA UndispatchedTypes ==
  ASSUME TypeOK, NEW c \in Chains, NEW id \in RequestIds, NEW answer \in Answers,
         UndispatchedAtRequest(c, id, answer)
  PROVE  TypeOK'
<1>1. delivered' \in SUBSET Messages
  BY DEF TypeOK, MailboxTypeOK, UndispatchedAtRequest, ProcessUndispatched
<1> QED
  BY <1>1, CallbackKeepsTypes DEF UndispatchedAtRequest

LEMMA ProcessNestedTypes ==
  ASSUME TypeOK, NEW c \in Chains, NEW id \in RequestIds, NEW answer \in Answers,
         NEW again \in Answers, NEW ms \in SUBSET Deliverable(c, id),
         ProcessNested(c, id, answer, again, ms)
  PROVE  TypeOK'
<1>1. delivered' \in SUBSET Messages
  BY DEF TypeOK, MailboxTypeOK, ProcessNested, Deliverable, InFlight
<1>2. UNCHANGED foreign \/ MarkForeign(c, id)
  BY DEF ProcessNested
<1> QED
  BY <1>1, <1>2, CallbackKeepsTypes DEF ProcessNested

LEMMA NextTypes == TypeOK /\ [Next]_vars => TypeOK'
<1> SUFFICES ASSUME TypeOK, [Next]_vars PROVE TypeOK'
  OBVIOUS
<1>1. ASSUME NEW c \in Chains, AdminSetsRecipient(c) PROVE TypeOK'
  BY <1>1 DEF AdminSetsRecipient, SetRandomNetworkRecipient, TypeOK, MailboxTypeOK,
              RequestTypeOK, CoreTypeOK, mailboxVars, coreVars
<1>2. ASSUME NEW r \in Relayers, AdminAddsRelayer(r) PROVE TypeOK'
  BY <1>2 DEF AdminAddsRelayer, AddRelayer, TypeOK, MailboxTypeOK,
              RequestTypeOK, CoreTypeOK, mailboxVars, requestVars
<1>3. ASSUME NEW e \in Executors, AdminAddsExecutor(e) PROVE TypeOK'
  BY <1>3 DEF AdminAddsExecutor, AddExecutor, TypeOK, MailboxTypeOK,
              RequestTypeOK, CoreTypeOK, mailboxVars, requestVars
<1>4. ASSUME NEW m \in dispatched, ProcessAtCore(m) PROVE TypeOK'
  <2>1. CoreTypeOK'
    BY <1>4, HandleTypes DEF ProcessAtCore
  <2> QED
    BY <1>4, <2>1 DEF ProcessAtCore, Process, TypeOK, MailboxTypeOK, RequestTypeOK,
                      requestVars
<1>5. ASSUME NEW r \in Relayers, NEW m \in dispatched, RelayerHandles(r, m) PROVE TypeOK'
  <2>1. CoreTypeOK'
    BY <1>5, HandleTypes DEF RelayerHandles
  <2> QED
    BY <1>5, <2>1 DEF RelayerHandles, TypeOK, MailboxTypeOK, RequestTypeOK,
                      requestVars, mailboxVars
<1>6. CASE UNCHANGED vars
  BY <1>6 DEF TypeOK, MailboxTypeOK, RequestTypeOK, CoreTypeOK, vars, mailboxVars,
              requestVars, coreVars
<1> QED
  BY <1>1, <1>2, <1>3, <1>4, <1>5, <1>6, RequestRandomnessTypes, ExecuteTypes,
     ProcessAtRequestTypes, UndispatchedTypes, ProcessNestedTypes
  DEF Next

\* Every variable keeps its type.
THEOREM TypesAreKept == Spec => []TypeOK
BY InitTypes, NextTypes, PTL DEF Spec

----------------------------------------------------------------------------
(* The invariant: one lemma per kind of transaction; in each, one step per *)
(* conjunct of IInv that the transaction can disturb.                      *)

LEMMA InitInv == Init => IInv
<1> SUFFICES ASSUME Init PROVE IInv
  OBVIOUS
<1> USE DEF Init, MailboxInit, RequestInit, CoreInit
<1>1. TypeOK
  BY InitTypes
<1>2. \A id \in RequestIds : id.chain \in Chains /\ id.client \in Clients
  BY DEF RequestIds
<1>3. RequestsKnowTheirOwner /\ NoncesAreFresh
  BY DEF RequestsKnowTheirOwner, NoncesAreFresh, UnsetRequest
<1>4. \A id \in RequestIds : ~Requested(id) /\ ~Answered(id) /\ ~Received(id) /\ ~Validated(id)
  BY <1>2 DEF Requested, Answered, Received, Validated, UnsetRequest, UnsetData
<1>5. CoreEntriesAreRequests /\ PendingSetIsExact
  BY <1>4 DEF CoreEntriesAreRequests, PendingSetIsExact, UnsetData
<1>6. RequestMessagesAreRequests /\ AnswerMessagesAreTheCores /\ OneAnswerToTheSender
  BY <1>4 DEF RequestMessagesAreRequests, AnswerMessagesAreTheCores,
              OneAnswerToTheSender, AnswerMessages
<1>7. DeliveredIsDone /\ OneCallback
  BY <1>4 DEF DeliveredIsDone, OneCallback
<1>8. ClientsHoldExactlyTheirs
  BY <1>4 DEF ClientsHoldExactlyTheirs
<1> QED
  BY <1>1, <1>3, <1>5, <1>6, <1>7, <1>8 DEF IInv

\* The admins' transactions change nothing the invariant speaks of.
LEMMA AdminInv ==
  ASSUME IInv, TypeOK',
         UNCHANGED <<mailboxVars, requests, requestNonce, randomnes, callbacks, foreign,
                     coreRequests, pendingRequests, requestReceived>>
  PROVE  IInv'
<1> USE DEF mailboxVars, IInv, Requested, Answered, Received, Validated
<1>1. (RequestsKnowTheirOwner /\ NoncesAreFresh /\ ClientsHoldExactlyTheirs /\ OneCallback)'
  BY DEF RequestsKnowTheirOwner, NoncesAreFresh, ClientsHoldExactlyTheirs, OneCallback
<1>2. (RequestMessagesAreRequests /\ DeliveredIsDone)'
  BY DEF RequestMessagesAreRequests, DeliveredIsDone
<1>3. (CoreEntriesAreRequests /\ PendingSetIsExact)'
  BY DEF CoreEntriesAreRequests, PendingSetIsExact
<1>4. (AnswerMessagesAreTheCores /\ OneAnswerToTheSender)'
  BY DEF AnswerMessagesAreTheCores, OneAnswerToTheSender, AnswerMessages
<1> QED
  BY <1>1, <1>2, <1>3, <1>4

\* handle() of the core, from the mailbox or from a relayer.  Only request
\* messages are addressed to the random network.
LEMMA HandleInv ==
  ASSUME IInv, TypeOK', NEW caller, NEW m \in dispatched,
         m.destination = RandomNetwork,
         HandleCrossChainRequest(caller, m.origin, m.sender, m.body.id),
         delivered' = delivered \/ delivered' = delivered \cup {m},
         UNCHANGED <<mailboxNonce, dispatched, requestVars>>
  PROVE  IInv'
<1> DEFINE id == m.body.id
<1> USE DEF IInv, requestVars
<1>1. id \in RequestIds /\ id.chain \in Chains
  BY DEF TypeOK, MailboxTypeOK, Messages, Bodies, RequestIds
<1>2. m.body.answer = NoAnswer
  BY <1>1, DistinctChains, ZeroIsNobody DEF OneAnswerToTheSender, AnswerMessages
<1>3. coreRequests \in [RequestIds -> RequestData]
  BY DEF TypeOK, CoreTypeOK
<1>4. /\ m.origin = id.chain /\ m.sender = RequestAddress[id.chain]
      /\ m.origin \in Domains /\ m.sender \in Addresses
  BY <1>2 DEF RequestMessagesAreRequests, TypeOK, MailboxTypeOK, Messages
<1>5. Requested(id) /\ Requested(id)'
  BY <1>2 DEF RequestMessagesAreRequests, Requested
<1>6. /\ coreRequests'[id].timestamp = 1
      /\ coreRequests'[id].status = "PENDING_EXECUTION"
      /\ coreRequests[id].timestamp = 0
      /\ coreRequests'[id].origin = id.chain
      /\ coreRequests'[id].sender = RequestAddress[id.chain]
      /\ \A i \in RequestIds \ {id} : coreRequests'[i] = coreRequests[i]
  <2>1. coreRequests[id].timestamp = 0
    BY DEF HandleCrossChainRequest
  <2>2. /\ coreRequests'[id].origin = m.origin
        /\ coreRequests'[id].sender = m.sender
        /\ coreRequests'[id].timestamp = 1
        /\ coreRequests'[id].status = "PENDING_EXECUTION"
        /\ \A i \in RequestIds \ {id} : coreRequests'[i] = coreRequests[i]
    <3> HIDE DEF IInv, requestVars
    <3>1. m.origin \in Domains /\ m.sender \in Addresses
      BY <1>4
    <3> HIDE DEF id
    <3>2. HandleCrossChainRequest(caller, m.origin, m.sender, id)
      BY DEF id
    <3> QED BY <1>1, <1>3, <3>1, <3>2, HandleWritesOneEntry
  <2> QED BY <1>4, <2>1, <2>2
<1>61. /\ Received(id)' /\ ~Validated(id)' /\ ~Received(id) /\ ~Validated(id)
       /\ \A i \in RequestIds \ {id} : /\ Received(i)' <=> Received(i)
                                       /\ Validated(i)' <=> Validated(i)
  BY <1>6 DEF Received, Validated
<1>7. /\ pendingRequests' = pendingRequests \cup {id}
      /\ requestReceived' = requestReceived \cup {id}
  BY DEF HandleCrossChainRequest
<1>71. \A i \in RequestIds : (Requested(i)' <=> Requested(i)) /\ (Answered(i)' <=> Answered(i))
  BY DEF Requested, Answered
<1>8. (RequestsKnowTheirOwner /\ NoncesAreFresh /\ OneCallback)'
  BY <1>71 DEF RequestsKnowTheirOwner, NoncesAreFresh, OneCallback
<1>9. RequestMessagesAreRequests'
  BY DEF RequestMessagesAreRequests, Requested
<1>10. CoreEntriesAreRequests'
  BY <1>1, <1>5, <1>6, <1>61, <1>7, <1>71 DEF CoreEntriesAreRequests
<1>11. PendingSetIsExact'
  BY <1>1, <1>6, <1>61, <1>7 DEF PendingSetIsExact
<1>12. AnswerMessagesAreTheCores' /\ OneAnswerToTheSender'
  <2>1. AnswerMessages' = AnswerMessages
    BY DEF AnswerMessages
  <2>2. \A n \in AnswerMessages : n.body.id \in RequestIds \ {id}
    BY <1>61 DEF AnswerMessagesAreTheCores, AnswerMessages, TypeOK, MailboxTypeOK,
                 Messages, Bodies
  <2>3. AnswerMessagesAreTheCores'
    BY <1>6, <1>61, <2>1, <2>2 DEF AnswerMessagesAreTheCores
  <2>4. OneAnswerToTheSender'
    BY <1>71, <2>1, <2>2 DEF OneAnswerToTheSender
  <2> QED BY <2>3, <2>4
<1>13. DeliveredIsDone'
  <2>1. \A n \in dispatched : n.body.id \in RequestIds
    BY DEF TypeOK, MailboxTypeOK, Messages, Bodies
  <2>2. delivered' \subseteq dispatched'
    BY DEF DeliveredIsDone
  <2>3. ASSUME NEW n \in delivered'
        PROVE  IF n.body.answer = NoAnswer THEN Received(n.body.id)' ELSE Answered(n.body.id)'
    BY <1>2, <1>61, <1>71, <2>1, <2>3 DEF DeliveredIsDone
  <2>4. \A i \in RequestIds : Answered(i)' => i \in foreign' \/ Validated(i)'
    BY <1>61, <1>71 DEF DeliveredIsDone
  <2>5. \A i \in foreign' : Answered(i)'
    BY <1>71 DEF DeliveredIsDone, TypeOK, RequestTypeOK
  <2> QED BY <2>2, <2>3, <2>4, <2>5 DEF DeliveredIsDone
<1>14. ClientsHoldExactlyTheirs'
  <2>1. Answered(id) => id \in foreign
    BY <1>1, <1>61 DEF DeliveredIsDone
  <2>2. requests[id.chain][id].status = "COMPLETED" /\ Requested(id) => Answered(id)
    BY DEF Answered
  <2>3. \A i \in RequestIds :
          /\ Requested(i)' <=> Requested(i)
          /\ i # id => coreRequests'[i].answer.randomness = coreRequests[i].answer.randomness
    BY <1>6, <1>71
  <2>4. UNCHANGED <<requests, randomnes, foreign>>
    OBVIOUS
  <2> QED BY <2>1, <2>2, <2>3, <2>4 DEF ClientsHoldExactlyTheirs
<1> QED
  BY <1>8, <1>9, <1>10, <1>11, <1>12, <1>13, <1>14

\* What SendRequest adds to the mailbox: the message of the id NextId, which
\* no client has asked with and the core has not received.
LEMMA FreshRequest ==
  ASSUME IInv, NEW c \in Chains, NEW client \in Clients, SendRequest(c, client)
  PROVE  /\ NextId(c, client) \in RequestIds
         /\ requests[c][NextId(c, client)].requester = Zero
         /\ ~Received(NextId(c, client))
         /\ \A d \in Chains : requestNonce'[d] = IF d = c THEN requestNonce[c] + 1
                                                 ELSE requestNonce[d]
         /\ AnswerMessages' = AnswerMessages
         /\ \E m \in Messages :
              /\ dispatched' = dispatched \cup {m}
              /\ m.origin = c /\ m.sender = RequestAddress[c]
              /\ m.destination = RandomNetwork
              /\ m.body = [id |-> NextId(c, client), answer |-> NoAnswer]
<1> DEFINE new == NextId(c, client)
           m == Message(c, RequestAddress[c], RandomNetwork, randomNetworkRecipient[c],
                        [id |-> new, answer |-> NoAnswer])
<1> USE DEF IInv
<1>1. new \in RequestIds /\ dispatched' \in SUBSET Messages
  BY SendRequestTypes
<1>2. new.chain = c /\ new.client = client /\ new.nonce = requestNonce[c]
  BY DEF NextId
<1>20. requestNonce[c] \in Nat
  BY BoundIsNat DEF TypeOK, RequestTypeOK
<1>3. requests[c][new].requester = Zero
  BY <1>1, <1>2, <1>20 DEF NoncesAreFresh
<1>4. ~Received(new)
  BY <1>1, <1>2, <1>3 DEF CoreEntriesAreRequests, Requested
<1>5. \A d \in Chains : requestNonce'[d] = IF d = c THEN requestNonce[c] + 1
                                           ELSE requestNonce[d]
  BY DEF SendRequest, TypeOK, RequestTypeOK
<1>6. dispatched' = dispatched \cup {m}
  BY DEF SendRequest, Dispatch
<1>7. /\ m.origin = c /\ m.sender = RequestAddress[c]
      /\ m.destination = RandomNetwork
      /\ m.body = [id |-> new, answer |-> NoAnswer]
  BY DEF Message
<1>8. AnswerMessages' = AnswerMessages
  BY <1>6, <1>7 DEF AnswerMessages
<1>9. m \in Messages
  BY <1>1, <1>6
<1> QED BY <1>1, <1>2, <1>3, <1>4, <1>5, <1>6, <1>7, <1>8, <1>9

(* What the transactions of VRFRequestV1 write ****************************)

\* The requests a transaction on c opens, none or the next one.
Stores(c, opened) ==
  \A i \in opened :
    /\ i.chain = c /\ i.nonce = requestNonce[c]
    /\ requests[c][i].requester = Zero
    /\ ~Received(i)
    /\ requests'[c][i].requester = i.client
    /\ requests'[c][i].status = "PENDING"

NextNonce(c, opened) ==
  \A d \in Chains : requestNonce'[d] = IF d = c /\ opened # {} THEN requestNonce[c] + 1
                                       ELSE requestNonce[d]

Sends(c, opened) ==
  /\ \A i \in opened : \E n \in dispatched' : n.body = [id |-> i, answer |-> NoAnswer]
  /\ dispatched \subseteq dispatched'
  /\ AnswerMessages' = AnswerMessages
  /\ \A n \in dispatched' \ dispatched :
       /\ n.origin = c /\ n.sender = RequestAddress[c] /\ n.destination = RandomNetwork
       /\ n.body.id \in opened

Opens(c, opened) == Stores(c, opened) /\ NextNonce(c, opened) /\ Sends(c, opened)

OnlyWrites(c, ids) ==
  \A d \in Chains, i \in RequestIds : d # c \/ i \notin ids => requests'[d][i] = requests[d][i]

LEMMA SendOpens ==
  ASSUME IInv, NEW c \in Chains, NEW client \in Clients, NEW limit \in GasLimits,
         SendRequest(c, client)
  PROVE  \E new \in RequestIds :
           /\ requests[c][new].requester = Zero
           /\ WithNewRequest(c, client, limit) \in [Chains -> [RequestIds -> Requests]]
           /\ \A d \in Chains, i \in RequestIds :
                d # c \/ i # new => WithNewRequest(c, client, limit)[d][i] = requests[d][i]
           /\ requests'[c][new] = WithNewRequest(c, client, limit)[c][new] => Opens(c, {new})
<1>1. PICK new \in RequestIds : new = NextId(c, client)
  BY FreshRequest
<1>2. /\ requests[c][new].requester = Zero
      /\ ~Received(new)
      /\ \A d \in Chains : requestNonce'[d] = IF d = c THEN requestNonce[c] + 1
                                              ELSE requestNonce[d]
      /\ AnswerMessages' = AnswerMessages
      /\ \E m \in Messages :
           /\ dispatched' = dispatched \cup {m}
           /\ m.origin = c /\ m.sender = RequestAddress[c]
           /\ m.destination = RandomNetwork
           /\ m.body = [id |-> new, answer |-> NoAnswer]
  BY <1>1, FreshRequest, ZenonT(40)
<1>3. new.chain = c /\ new.client = client /\ new.nonce = requestNonce[c]
  BY <1>1 DEF NextId
<1>4. requests \in [Chains -> [RequestIds -> Requests]]
  BY DEF IInv, TypeOK, RequestTypeOK
<1> DEFINE between == WithNewRequest(c, client, limit)
<1>5. /\ between \in [Chains -> [RequestIds -> Requests]]
      /\ between[c][new].requester = client
      /\ between[c][new].status = "PENDING"
      /\ \A d \in Chains, i \in RequestIds : d # c \/ i # new => between[d][i] = requests[d][i]
  BY <1>1, <1>4 DEF WithNewRequest, Requests, Statuses
<1>6. ASSUME requests'[c][new] = between[c][new] PROVE Opens(c, {new})
  <2> HIDE DEF between
  <2>1. Stores(c, {new})
    BY <1>2, <1>3, <1>5, <1>6 DEF Stores
  <2>2. NextNonce(c, {new})
    BY <1>2 DEF NextNonce
  <2>3. Sends(c, {new})
    BY <1>2 DEF Sends
  <2> QED BY <2>1, <2>2, <2>3 DEF Opens
<1> QED BY <1>2, <1>5, <1>6

LEMMA RequestWrites ==
  ASSUME IInv, NEW c \in Chains, NEW client \in Clients, NEW limit \in GasLimits,
         ClientRequests(c, client, limit)
  PROVE  \E new \in RequestIds : Opens(c, {new}) /\ OnlyWrites(c, {new})
<1>1. SendRequest(c, client) /\ requests' = WithNewRequest(c, client, limit)
  BY DEF ClientRequests, RequestRandomness
<1>2. PICK new \in RequestIds :
        /\ \A d \in Chains, i \in RequestIds :
             d # c \/ i # new => WithNewRequest(c, client, limit)[d][i] = requests[d][i]
        /\ requests'[c][new] = WithNewRequest(c, client, limit)[c][new] => Opens(c, {new})
  BY <1>1, SendOpens
<1> QED BY <1>1, <1>2 DEF OnlyWrites

\* The entries written beside the opened ones stay their requester's.
KeepsRequesters(c, opened, written) ==
  \A i \in written : /\ i \notin opened
                     /\ requests'[c][i].requester = requests[c][i].requester

AfterOpening(c, opened, written) ==
  /\ RequestsKnowTheirOwner' /\ NoncesAreFresh' /\ RequestMessagesAreRequests'
  /\ \A i \in opened : Requested(i)' /\ ~Requested(i) /\ ~Answered(i)' /\ ~Answered(i)
  /\ \A i \in RequestIds \ opened : Requested(i)' <=> Requested(i)
  /\ \A i \in RequestIds : i \notin written \/ i.chain # c => (Answered(i)' <=> Answered(i))

\* What the opening of requests leaves of the invariant: with the entries
\* written beside them, the one that is answered.
LEMMA OpenedInv ==
  ASSUME IInv, NEW c \in Chains, NEW opened \in SUBSET RequestIds, Opens(c, opened),
         NEW written \in SUBSET RequestIds, OnlyWrites(c, opened \cup written),
         KeepsRequesters(c, opened, written)
  PROVE  AfterOpening(c, opened, written)
<1> USE DEF IInv
<1>1. /\ \A i \in RequestIds : i.chain \in Chains /\ i.client \in Clients /\ i.nonce \in Nat
      /\ \A d \in Chains : requestNonce[d] \in Nat
      /\ \A i \in opened : i.client # Zero /\ i \in RequestIds
      /\ \A n \in dispatched : n.body.id \in RequestIds
  BY ZeroIsNobody, BoundIsNat
  DEF RequestIds, TypeOK, RequestTypeOK, MailboxTypeOK, Messages, Bodies
<1>2. Stores(c, opened) /\ NextNonce(c, opened) /\ Sends(c, opened)
  BY DEF Opens
<1>3. \A i \in opened :
        /\ i.chain = c /\ i.nonce = requestNonce[c]
        /\ requests[c][i].requester = Zero
        /\ requests'[c][i].requester = i.client
        /\ requests'[c][i].status = "PENDING"
  BY <1>2 DEF Stores
<1>4. \A d \in Chains, i \in RequestIds :
        d # c \/ i \notin opened => requests'[d][i].requester = requests[d][i].requester
  BY DEF OnlyWrites, KeepsRequesters
<1>5. \A i \in RequestIds \ opened : Requested(i)' <=> Requested(i)
  BY <1>1, <1>4 DEF Requested
<1>6. \A i \in opened : Requested(i)' /\ ~Requested(i) /\ ~Answered(i) /\ ~Answered(i)'
  BY <1>1, <1>3 DEF Requested, Answered
<1>7. \A i \in RequestIds : i \notin written \/ i.chain # c => (Answered(i)' <=> Answered(i))
  <2>1. \A i \in RequestIds : (i \notin opened \cup written) \/ i.chain # c =>
          (Answered(i)' <=> Answered(i))
    BY <1>1 DEF Answered, Requested, OnlyWrites
  <2> QED BY <1>6, <2>1
<1>8. RequestsKnowTheirOwner'
  <2>1. ASSUME NEW d \in Chains, NEW i \in RequestIds, requests'[d][i].requester # Zero
        PROVE  d = i.chain /\ requests'[d][i].requester = i.client
    BY <1>3, <1>4, <2>1 DEF RequestsKnowTheirOwner
  <2> QED BY <2>1 DEF RequestsKnowTheirOwner
<1>9. NoncesAreFresh'
  <2>1. ASSUME NEW d \in Chains, NEW i \in RequestIds, i.nonce >= requestNonce'[d]
        PROVE  requests'[d][i].requester = Zero
    <3>1. i.nonce >= requestNonce[d]
      BY <1>1, <1>2, <2>1 DEF NextNonce
    <3>2. requests[d][i].requester = Zero
      BY <3>1 DEF NoncesAreFresh
    <3>3. d # c \/ i \notin opened
      BY <1>1, <1>2, <1>3, <2>1 DEF NextNonce
    <3> QED BY <1>4, <3>2, <3>3
  <2> QED BY <2>1 DEF NoncesAreFresh
<1>10. RequestMessagesAreRequests'
  <2>1. ASSUME NEW n \in dispatched', n.body.answer = NoAnswer
        PROVE  /\ n.origin = n.body.id.chain
               /\ n.sender = RequestAddress[n.body.id.chain]
               /\ n.destination = RandomNetwork
               /\ Requested(n.body.id)'
    <3>1. CASE n \in dispatched
      BY <1>1, <1>5, <1>6, <2>1, <3>1 DEF RequestMessagesAreRequests
    <3>2. CASE n \notin dispatched
      <4>1. /\ n.origin = c /\ n.sender = RequestAddress[c]
            /\ n.destination = RandomNetwork
            /\ n.body.id \in opened
        BY <1>2, <3>2 DEF Sends
      <4>2. n.body.id.chain = c
        BY <1>3, <4>1
      <4> QED BY <1>6, <4>1, <4>2
    <3> QED BY <3>1, <3>2
  <2>2. ASSUME NEW i \in RequestIds, Requested(i)'
        PROVE  \E n \in dispatched' : n.body = [id |-> i, answer |-> NoAnswer]
    <3>1. CASE i \in opened
      BY <1>2, <3>1 DEF Sends
    <3>2. CASE i \notin opened
      BY <1>2, <1>5, <2>2, <3>2 DEF RequestMessagesAreRequests, Sends
    <3> QED BY <3>1, <3>2
  <2> QED BY <2>1, <2>2 DEF RequestMessagesAreRequests
<1> QED BY <1>5, <1>6, <1>7, <1>8, <1>9, <1>10 DEF AfterOpening

\* requestRandomness.
LEMMA RequestInv ==
  ASSUME IInv, TypeOK', NEW c \in Chains, NEW client \in Clients, NEW limit \in GasLimits,
         ClientRequests(c, client, limit)
  PROVE  IInv'
<1>1. PICK new \in RequestIds : Opens(c, {new}) /\ OnlyWrites(c, {new})
  BY RequestWrites
<1>2. /\ RequestsKnowTheirOwner' /\ NoncesAreFresh' /\ RequestMessagesAreRequests'
      /\ Requested(new)' /\ ~Requested(new) /\ ~Answered(new)' /\ ~Answered(new)
      /\ \A i \in RequestIds \ {new} : Requested(i)' <=> Requested(i)
      /\ \A i \in RequestIds : Answered(i)' <=> Answered(i)
  <2>1. PICK opened \in SUBSET RequestIds, written \in SUBSET RequestIds :
          opened = {new} /\ written = {}
    OBVIOUS
  <2>2. Opens(c, opened) /\ OnlyWrites(c, opened \cup written)
    BY <1>1, <2>1
  <2>3. KeepsRequesters(c, opened, written)
    BY <2>1 DEF KeepsRequesters
  <2>4. AfterOpening(c, opened, written)
    BY <2>2, <2>3, OpenedInv
  <2> QED BY <2>1, <2>4 DEF AfterOpening
<1> USE DEF IInv
<1>3. UNCHANGED <<coreRequests, pendingRequests, requestReceived, randomnes, callbacks,
                  foreign, delivered>>
  BY DEF ClientRequests, RequestRandomness, coreVars
<1>4. \A i \in RequestIds : (Received(i)' <=> Received(i)) /\ (Validated(i)' <=> Validated(i))
  BY <1>3 DEF Received, Validated
<1>5. AnswerMessages' = AnswerMessages /\ dispatched \subseteq dispatched'
  BY <1>1 DEF Opens, Sends
<1>6. \A n \in dispatched : n.body.id \in RequestIds
  BY DEF TypeOK, MailboxTypeOK, Messages, Bodies
<1>7. CoreEntriesAreRequests' /\ PendingSetIsExact'
  BY <1>2, <1>3, <1>4 DEF CoreEntriesAreRequests, PendingSetIsExact
<1>8. AnswerMessagesAreTheCores'
  BY <1>3, <1>4, <1>5, <1>6 DEF AnswerMessagesAreTheCores, AnswerMessages
<1>9. OneAnswerToTheSender'
  <2>1. \A n \in AnswerMessages : n.body.id \in RequestIds /\ Requested(n.body.id)'
    BY <1>2, <1>6 DEF OneAnswerToTheSender, AnswerMessages
  <2> QED BY <1>5, <2>1 DEF OneAnswerToTheSender
<1>10. DeliveredIsDone'
  <2>1. foreign \subseteq RequestIds /\ \A n \in delivered : n.body.id \in RequestIds
    BY <1>6 DEF DeliveredIsDone, TypeOK, RequestTypeOK
  <2> QED BY <1>2, <1>3, <1>4, <1>5, <2>1 DEF DeliveredIsDone
<1>11. OneCallback'
  BY <1>2, <1>3 DEF OneCallback
<1>12. ClientsHoldExactlyTheirs'
  <2>1. ASSUME NEW d \in Chains, NEW i \in RequestIds, d = i.chain
        PROVE  (Requested(i)' /\ requests'[d][i].status = "COMPLETED") <=>
               (Requested(i) /\ requests[d][i].status = "COMPLETED")
    <3>1. CASE i = new
      BY <1>2, <2>1, <3>1 DEF Answered
    <3>2. CASE i # new
      BY <1>1, <1>2, <3>2 DEF OnlyWrites
    <3> QED BY <3>1, <3>2
  <2> QED BY <1>3, <2>1 DEF ClientsHoldExactlyTheirs
<1> QED
  BY <1>2, <1>7, <1>8, <1>9, <1>10, <1>11, <1>12

\* executeVRF, of a request the core has received and of an id it has not.
LEMMA ExecuteInv ==
  ASSUME IInv, TypeOK', NEW e \in Executors, NEW id \in RequestIds, NEW answer \in Answers,
         NEW signer \in Executors, ExecutorSubmits(e, id, answer, signer)
  PROVE  IInv'
<1> DEFINE m == Message(RandomNetwork, CoreAddress, coreRequests[id].origin,
                        coreRequests[id].sender, [id |-> id, answer |-> answer])
<1> USE DEF IInv
<1>1. id.chain \in Chains /\ id.chain # Zero /\ answer # NoAnswer
  BY NoAnswerIsNone, DistinctChains DEF RequestIds
<1>2. coreRequests[id].status = "PENDING_EXECUTION"
  BY DEF ExecutorSubmits, ExecuteVRF
<1>3. coreRequests \in [RequestIds -> RequestData]
  BY DEF TypeOK, CoreTypeOK
<1>4. /\ coreRequests'[id].status = "VALIDATED"
      /\ coreRequests'[id].answer = answer
      /\ coreRequests'[id].timestamp = coreRequests[id].timestamp
      /\ coreRequests'[id].origin = coreRequests[id].origin
      /\ coreRequests'[id].sender = coreRequests[id].sender
      /\ \A i \in RequestIds \ {id} : coreRequests'[i] = coreRequests[i]
  BY <1>3 DEF ExecutorSubmits, ExecuteVRF, RequestData
<1>5. /\ pendingRequests' = pendingRequests \ {id}
      /\ Verify(answer.publicKey, answer.proof, answer.randomness)
      /\ UNCHANGED <<requests, requestNonce, randomnes, callbacks, foreign,
                     requestReceived, delivered>>
  BY DEF ExecutorSubmits, ExecuteVRF, requestVars
<1>6. dispatched' = dispatched \cup {m}
  BY DEF ExecutorSubmits, ExecuteVRF, Dispatch
<1>7. /\ m.destination = coreRequests[id].origin /\ m.recipient = coreRequests[id].sender
      /\ m.body = [id |-> id, answer |-> answer]
  BY DEF Message
<1>8. /\ \A i \in RequestIds : Received(i)' <=> Received(i)
      /\ \A i \in RequestIds \ {id} : Validated(i)' <=> Validated(i)
      /\ ~Validated(id) /\ (Validated(id)' <=> Received(id))
  BY <1>2, <1>4 DEF Received, Validated
<1>9. AnswerMessages' = IF Received(id) THEN AnswerMessages \cup {m} ELSE AnswerMessages
  <2>1. m.destination # Zero <=> Received(id)
    BY <1>1, <1>7 DEF CoreEntriesAreRequests
  <2> QED BY <1>1, <1>6, <1>7, <2>1 DEF AnswerMessages
<1>10. /\ \A n \in dispatched : n.body.id \in RequestIds
       /\ \A n \in AnswerMessages : n.body.id \in RequestIds \ {id}
  BY <1>8 DEF AnswerMessagesAreTheCores, AnswerMessages, TypeOK, MailboxTypeOK, Messages, Bodies
<1>11. Answered(id) => id \in foreign
  BY <1>8 DEF DeliveredIsDone
<1>12. \A i \in RequestIds : (Requested(i)' <=> Requested(i)) /\ (Answered(i)' <=> Answered(i))
  BY <1>5 DEF Requested, Answered
<1>13. (RequestsKnowTheirOwner /\ NoncesAreFresh)'
  BY <1>5 DEF RequestsKnowTheirOwner, NoncesAreFresh
<1>14. RequestMessagesAreRequests'
  BY <1>1, <1>6, <1>7, <1>10, <1>12 DEF RequestMessagesAreRequests
<1>15. CoreEntriesAreRequests'
  BY <1>1, <1>4, <1>5, <1>8, <1>12 DEF CoreEntriesAreRequests
<1>16. PendingSetIsExact'
  BY <1>4, <1>5, <1>8 DEF PendingSetIsExact
<1>17. AnswerMessagesAreTheCores'
  <2>1. \A n \in AnswerMessages :
          Validated(n.body.id)' /\ coreRequests'[n.body.id].answer = n.body.answer
    BY <1>4, <1>8, <1>10 DEF AnswerMessagesAreTheCores
  <2>2. \A i \in RequestIds \ {id} : Validated(i)' => \E n \in AnswerMessages : n.body.id = i
    BY <1>8 DEF AnswerMessagesAreTheCores
  <2>3. Received(id) => m.body.id = id /\ m.body.answer = answer
    BY <1>7
  <2> QED BY <1>4, <1>8, <1>9, <2>1, <2>2, <2>3 DEF AnswerMessagesAreTheCores
<1>18. OneAnswerToTheSender'
  <2>1. Received(id) => /\ Requested(id)' /\ m.body.id = id
                        /\ m.destination = id.chain /\ m.recipient = RequestAddress[id.chain]
    BY <1>7, <1>12 DEF CoreEntriesAreRequests
  <2> HIDE DEF m
  <2> QED BY <1>9, <1>10, <1>12, <2>1 DEF OneAnswerToTheSender
<1>19. DeliveredIsDone'
  <2>1. \A i \in foreign : i \in RequestIds
    BY DEF TypeOK, RequestTypeOK
  <2>2. \A n \in delivered : n \in dispatched /\ n.body.id \in RequestIds
    BY <1>10 DEF DeliveredIsDone
  <2>3. \A i \in RequestIds : Answered(i) => i \in foreign \/ Validated(i)'
    BY <1>8, <1>11 DEF DeliveredIsDone
  <2> QED BY <1>5, <1>6, <1>8, <1>12, <2>1, <2>2, <2>3 DEF DeliveredIsDone
<1>20. OneCallback'
  BY <1>5, <1>12 DEF OneCallback
<1>21. ClientsHoldExactlyTheirs'
  <2>1. requests[id.chain][id].status = "COMPLETED" /\ Requested(id) => id \in foreign
    BY <1>11 DEF Answered
  <2>2. \A i \in RequestIds \ {id} :
          coreRequests'[i].answer.randomness = coreRequests[i].answer.randomness
    BY <1>4
  <2> QED BY <1>5, <1>12, <2>1, <2>2 DEF ClientsHoldExactlyTheirs
<1> QED
  BY <1>13, <1>14, <1>15, <1>16, <1>17, <1>18, <1>19, <1>20, <1>21

(* Answers at VRFRequestV1 ************************************************)

\* The entry is one no client has made: the answer of the key changes its
\* status, and nothing else.
AnswersNobody(c, id) ==
  /\ ~IsClient(c, id)
  /\ requests'[c][id].requester = requests[c][id].requester
  /\ OnlyWrites(c, {id})
  /\ UNCHANGED <<mailboxVars, requestNonce, randomnes, callbacks, foreign, coreVars>>

\* A request of a client is answered with value, after n calls of the client,
\* by the core's message or with the help of one nobody dispatched.
AnswersClient(c, id, opened, status, value, n) ==
  /\ IsClient(c, id)
  /\ requests[c][id].status = "PENDING"
  /\ requests'[c][id].status = status
  /\ requests'[c][id].requester = requests[c][id].requester
  /\ id \notin opened
  /\ Opens(c, opened)
  /\ OnlyWrites(c, opened \cup {id})
  /\ callbacks' = [callbacks EXCEPT ![id] = @ + n]
  /\ randomnes' = IF status = "COMPLETED"
                  THEN [randomnes EXCEPT ![c][requests[c][id].requester][id] = value]
                  ELSE randomnes
  /\ \/ foreign' = foreign \cup {id}
     \/ /\ foreign' = foreign /\ n = 1
        /\ Validated(id) /\ coreRequests[id].answer.randomness = value
  /\ delivered \subseteq delivered'
  /\ \A m \in delivered' \ delivered :
       m \in dispatched /\ m.body.id = id /\ m.body.answer # NoAnswer
  /\ UNCHANGED coreVars

\* The three ways a transaction with an answer ends.
AnswersAt(c, id) ==
  \/ AnswersNobody(c, id)
  \/ \E value \in Values, n \in Nat \ {0} :
       \/ AnswersClient(c, id, {}, "COMPLETED", value, n)
       \/ AnswersClient(c, id, {}, "FAILED", value, n)
       \/ \E new \in RequestIds : AnswersClient(c, id, {new}, "COMPLETED", value, n)

\* WithStatus writes the status of one entry and nothing else.
LEMMA WithStatusWrites ==
  ASSUME NEW reqs \in [Chains -> [RequestIds -> Requests]], NEW c \in Chains,
         NEW id \in RequestIds, NEW status \in Statuses
  PROVE  LET after == WithStatus(reqs, c, id, status) IN
         /\ after[c][id].status = status
         /\ after[c][id].requester = reqs[c][id].requester
         /\ \A d \in Chains, i \in RequestIds :
              d # c \/ i # id => after[d][i] = reqs[d][i]
BY DEF WithStatus, Requests

\* A logged message for the contract on c with an answer in it is the core's.
LEMMA LoggedAnswersAreTheCores ==
  ASSUME IInv, NEW c \in Chains, NEW m \in dispatched, m.destination = c,
         m.body.answer # NoAnswer
  PROVE  /\ m \in AnswerMessages
         /\ m.body.id \in RequestIds /\ m.body.answer \in Answers
         /\ m.body.id.chain = c /\ IsClient(c, m.body.id)
         /\ Validated(m.body.id) /\ coreRequests[m.body.id].answer = m.body.answer
<1> USE DEF IInv
<1>1. m \in AnswerMessages
  BY DistinctChains DEF AnswerMessages
<1>2. m.body.id \in RequestIds /\ m.body.answer \in Answers
  BY DEF TypeOK, MailboxTypeOK, Messages, Bodies
<1>3. m.body.id.chain = c /\ Requested(m.body.id)
  BY <1>1 DEF OneAnswerToTheSender
<1>4. IsClient(c, m.body.id)
  BY <1>2, <1>3 DEF RequestsKnowTheirOwner, Requested, IsClient, RequestIds
<1>5. Validated(m.body.id) /\ coreRequests[m.body.id].answer = m.body.answer
  BY <1>1 DEF AnswerMessagesAreTheCores
<1> QED BY <1>1, <1>2, <1>3, <1>4, <1>5

\* What a callback writes, called once, and twice; and what becomes of foreign
\* and delivered besides.
LEMMA CallbackAnswers ==
  ASSUME IInv, NEW c \in Chains, NEW id \in RequestIds, NEW answer \in Answers,
         Callback(c, id, answer), IsClient(c, id),
         \/ foreign' = foreign \cup {id}
         \/ foreign' = foreign /\ Validated(id) /\ coreRequests[id].answer = answer,
         delivered \subseteq delivered',
         \A m \in delivered' \ delivered :
           m \in dispatched /\ m.body.id = id /\ m.body.answer # NoAnswer,
         UNCHANGED coreVars
  PROVE  AnswersAt(c, id)
<1> DEFINE value == answer.randomness
<1>1. value \in Values /\ 1 \in Nat \ {0}
  BY DEF Answers
<1>2. requests \in [Chains -> [RequestIds -> Requests]]
  BY DEF IInv, TypeOK, RequestTypeOK
<1>3. ASSUME NoDispatch, UNCHANGED requestNonce PROVE Opens(c, {})
  BY <1>3 DEF NoDispatch, Opens, Stores, NextNonce, Sends, AnswerMessages
<1>4. ASSUME NEW status \in {"COMPLETED", "FAILED"},
             requests' = WithStatus(requests, c, id, status)
      PROVE  /\ requests'[c][id].status = status
             /\ requests'[c][id].requester = requests[c][id].requester
             /\ OnlyWrites(c, {} \cup {id})
  BY <1>2, <1>4, WithStatusWrites DEF Statuses, OnlyWrites
<1>5. CallsMade(c, id, 1) => callbacks' = [callbacks EXCEPT ![id] = @ + 1]
  BY DEF CallsMade
<1>6. ClientStores(c, id, answer) =>
        randomnes' = [randomnes EXCEPT ![c][requests[c][id].requester][id] = value]
  BY DEF ClientStores
<1>7. CASE CallbackReturns(c, id, answer)
  <2>1. /\ requests[c][id].status = "PENDING"
        /\ requests' = WithStatus(requests, c, id, "COMPLETED")
        /\ CallsMade(c, id, 1) /\ ClientStores(c, id, answer)
        /\ NoDispatch /\ UNCHANGED requestNonce
    BY <1>7 DEF CallbackReturns, AcceptsAnswer
  <2>2. AnswersClient(c, id, {}, "COMPLETED", value, 1)
    BY <1>3, <1>4, <1>5, <1>6, <2>1 DEF AnswersClient
  <2> QED BY <1>1, <2>2 DEF AnswersAt
<1>8. CASE CallbackFails(c, id, answer)
  <2>1. /\ requests[c][id].status = "PENDING"
        /\ requests' = WithStatus(requests, c, id, "FAILED")
        /\ CallsMade(c, id, 1) /\ randomnes' = randomnes
        /\ NoDispatch /\ UNCHANGED requestNonce
    BY <1>8 DEF CallbackFails, AcceptsAnswer
  <2>2. AnswersClient(c, id, {}, "FAILED", value, 1)
    BY <1>3, <1>4, <1>5, <2>1 DEF AnswersClient
  <2> QED BY <1>1, <2>2 DEF AnswersAt
<1>9. CASE \E limit \in GasLimits : CallbackReenters(c, id, answer, limit)
  <2>1. PICK limit \in GasLimits : CallbackReenters(c, id, answer, limit)
    BY <1>9
  <2>2. PICK client \in Clients : client = requests[c][id].requester
    BY DEF IsClient
  <2>3. /\ requests[c][id].status = "PENDING"
        /\ SendRequest(c, client)
        /\ requests' = WithStatus(WithNewRequest(c, client, limit), c, id, "COMPLETED")
        /\ CallsMade(c, id, 1) /\ ClientStores(c, id, answer)
    BY <2>1, <2>2 DEF CallbackReenters, AcceptsAnswer
  <2> DEFINE between == WithNewRequest(c, client, limit)
  <2>4. PICK new \in RequestIds :
          /\ requests[c][new].requester = Zero
          /\ between \in [Chains -> [RequestIds -> Requests]]
          /\ \A d \in Chains, i \in RequestIds :
               d # c \/ i # new => between[d][i] = requests[d][i]
          /\ requests'[c][new] = between[c][new] => Opens(c, {new})
    BY <2>3, SendOpens
  <2>5. new # id
    BY <2>2, <2>4, ZeroIsNobody
  <2>6. requests' = WithStatus(between, c, id, "COMPLETED")
    BY <2>3
  <2> HIDE DEF between
  <2>7. /\ requests'[c][id].status = "COMPLETED"
        /\ requests'[c][id].requester = between[c][id].requester
        /\ \A d \in Chains, i \in RequestIds : d # c \/ i # id => requests'[d][i] = between[d][i]
    BY <2>4, <2>6, WithStatusWrites DEF Statuses
  <2>8. /\ requests'[c][id].requester = requests[c][id].requester
        /\ Opens(c, {new})
        /\ OnlyWrites(c, {new} \cup {id})
    BY <2>4, <2>5, <2>7 DEF OnlyWrites
  <2>9. AnswersClient(c, id, {new}, "COMPLETED", value, 1)
    BY <1>5, <1>6, <2>3, <2>5, <2>7, <2>8 DEF AnswersClient
  <2> QED BY <1>1, <2>9 DEF AnswersAt
<1> QED BY <1>7, <1>8, <1>9 DEF Callback

LEMMA ProcessAnswers ==
  ASSUME IInv, NEW c \in Chains, NEW m \in dispatched, ProcessAtRequest(c, m)
  PROVE  m.body.id \in RequestIds /\ AnswersAt(c, m.body.id)
<1>1. /\ m.destination = c
      /\ delivered' = delivered \cup {m}
      /\ Callback(c, m.body.id, m.body.answer)
      /\ UNCHANGED <<foreign, coreVars>>
  BY DEF ProcessAtRequest, Process
<1>2. m.body.answer # NoAnswer
  BY <1>1 DEF Callback, CallbackReturns, CallbackReenters, CallbackFails, AcceptsAnswer
<1>3. /\ m.body.id \in RequestIds /\ m.body.answer \in Answers
      /\ IsClient(c, m.body.id)
      /\ Validated(m.body.id) /\ coreRequests[m.body.id].answer = m.body.answer
  BY <1>1, <1>2, LoggedAnswersAreTheCores
<1> QED BY <1>1, <1>2, <1>3, CallbackAnswers

LEMMA UndispatchedAnswers ==
  ASSUME IInv, NEW c \in Chains, NEW id \in RequestIds, NEW answer \in Answers,
         UndispatchedAtRequest(c, id, answer)
  PROVE  AnswersAt(c, id)
<1>1. /\ delivered' = delivered
      /\ Callback(c, id, answer) /\ MarkForeign(c, id)
      /\ UNCHANGED coreVars
  BY DEF UndispatchedAtRequest, ProcessUndispatched
<1>2. CASE IsClient(c, id)
  <2>1. foreign' = foreign \cup {id}
    BY <1>1, <1>2 DEF MarkForeign
  <2> QED BY <1>1, <1>2, <2>1, CallbackAnswers
<1>3. CASE ~IsClient(c, id)
  <2>1. CallbackReturns(c, id, answer)
    BY <1>1, <1>3 DEF Callback, CallbackReenters, CallbackFails
  <2>2. requests \in [Chains -> [RequestIds -> Requests]]
    BY DEF IInv, TypeOK, RequestTypeOK
  <2>3. /\ requests'[c][id].requester = requests[c][id].requester
        /\ OnlyWrites(c, {id})
    BY <2>1, <2>2, WithStatusWrites DEF CallbackReturns, Statuses, OnlyWrites
  <2>4. UNCHANGED <<mailboxVars, requestNonce, randomnes, callbacks, foreign, coreVars>>
    BY <1>1, <1>3, <2>1
    DEF CallbackReturns, CallsMade, ClientStores, MarkForeign, NoDispatch, mailboxVars
  <2> QED BY <1>3, <2>3, <2>4 DEF AnswersNobody, AnswersAt
<1> QED BY <1>2, <1>3

LEMMA NestedAnswers ==
  ASSUME IInv, NEW c \in Chains, NEW id \in RequestIds, NEW answer \in Answers,
         NEW again \in Answers, NEW ms \in SUBSET Deliverable(c, id),
         ProcessNested(c, id, answer, again, ms)
  PROVE  AnswersAt(c, id)
<1>1. /\ delivered' = delivered \cup ms
      /\ \A m \in ms : m.body.answer \in Answers
      /\ CallbackRepeats(c, id, answer, again)
      /\ UNCHANGED coreVars
  BY DEF ProcessNested
<1>2. /\ IsClient(c, id)
      /\ requests[c][id].status = "PENDING"
      /\ requests' = WithStatus(requests, c, id, "COMPLETED")
      /\ CallsMade(c, id, 2)
      /\ NoDispatch /\ UNCHANGED requestNonce
  BY <1>1 DEF CallbackRepeats, AcceptsAnswer
<1>3. \A m \in ms : /\ m \in dispatched /\ m.destination = c /\ m.body.id = id
                    /\ m.body.answer # NoAnswer
  BY <1>1, NoAnswerIsNone DEF Deliverable, InFlight
<1>4. foreign' = foreign \cup {id}
  <2>1. \A m, n \in ms : m = n
    <3>1. \A m \in ms : m \in AnswerMessages
      BY <1>3, LoggedAnswersAreTheCores
    <3> QED BY <1>3, <3>1 DEF IInv, OneAnswerToTheSender
  <2> QED BY <1>2, <2>1 DEF ProcessNested, MarkForeign
<1>5. requests \in [Chains -> [RequestIds -> Requests]]
  BY DEF IInv, TypeOK, RequestTypeOK
<1>6. /\ requests'[c][id].status = "COMPLETED"
      /\ requests'[c][id].requester = requests[c][id].requester
      /\ OnlyWrites(c, {} \cup {id})
  BY <1>2, <1>5, WithStatusWrites DEF Statuses, OnlyWrites
<1>7. Opens(c, {})
  BY <1>2 DEF NoDispatch, Opens, Stores, NextNonce, Sends, AnswerMessages
<1>8. PICK value \in Values :
        randomnes' = [randomnes EXCEPT ![c][requests[c][id].requester][id] = value]
  BY <1>1, <1>2 DEF CallbackRepeats, ClientStores, Answers
<1>9. callbacks' = [callbacks EXCEPT ![id] = @ + 2]
  BY <1>2 DEF CallsMade
<1>10. AnswersClient(c, id, {}, "COMPLETED", value, 2)
  BY <1>1, <1>2, <1>3, <1>4, <1>6, <1>7, <1>8, <1>9 DEF AnswersClient
<1>11. 2 \in Nat \ {0}
  OBVIOUS
<1> QED BY <1>10, <1>11 DEF AnswersAt

LEMMA AnswersNobodyInv ==
  ASSUME IInv, TypeOK', NEW c \in Chains, NEW id \in RequestIds, AnswersNobody(c, id)
  PROVE  IInv'
<1> USE DEF IInv
<1>1. UNCHANGED <<dispatched, delivered, requestNonce, randomnes, callbacks, foreign,
                  coreRequests, pendingRequests, requestReceived>>
  BY DEF AnswersNobody, mailboxVars, coreVars
<1>2. requests[c][id].requester = Zero
  BY DEF AnswersNobody, IsClient, TypeOK, RequestTypeOK, Requests
<1>3. /\ \A d \in Chains, i \in RequestIds : requests'[d][i].requester = requests[d][i].requester
      /\ \A d \in Chains, i \in RequestIds :
           requests[d][i].requester # Zero => requests'[d][i] = requests[d][i]
  BY <1>2 DEF AnswersNobody, OnlyWrites
<1>4. \A i \in RequestIds : i.chain \in Chains
  BY DEF RequestIds
<1>5. \A i \in RequestIds : (Requested(i)' <=> Requested(i)) /\ (Answered(i)' <=> Answered(i))
  BY <1>3, <1>4 DEF Requested, Answered
<1>6. \A i \in RequestIds : (Received(i)' <=> Received(i)) /\ (Validated(i)' <=> Validated(i))
  BY <1>1 DEF Received, Validated
<1>7. /\ \A n \in dispatched : n.body.id \in RequestIds
      /\ AnswerMessages' = AnswerMessages /\ AnswerMessages \subseteq dispatched
      /\ foreign \subseteq RequestIds
  BY <1>1 DEF TypeOK, MailboxTypeOK, RequestTypeOK, Messages, Bodies, AnswerMessages
<1>8. (RequestsKnowTheirOwner /\ NoncesAreFresh)'
  BY <1>1, <1>3 DEF RequestsKnowTheirOwner, NoncesAreFresh
<1>9. RequestMessagesAreRequests'
  BY <1>1, <1>5, <1>7 DEF RequestMessagesAreRequests
<1>10. (CoreEntriesAreRequests /\ PendingSetIsExact)'
  BY <1>1, <1>5, <1>6 DEF CoreEntriesAreRequests, PendingSetIsExact
<1>11. (AnswerMessagesAreTheCores /\ OneAnswerToTheSender)'
  BY <1>1, <1>5, <1>6, <1>7 DEF AnswerMessagesAreTheCores, OneAnswerToTheSender
<1>12. DeliveredIsDone'
  BY <1>1, <1>5, <1>6, <1>7 DEF DeliveredIsDone
<1>13. OneCallback'
  BY <1>1, <1>5 DEF OneCallback
<1>14. ClientsHoldExactlyTheirs'
  BY <1>1, <1>3, <1>5 DEF ClientsHoldExactlyTheirs, Requested
<1> QED
  BY <1>8, <1>9, <1>10, <1>11, <1>12, <1>13, <1>14

LEMMA AnswersClientInv ==
  ASSUME IInv, TypeOK', NEW c \in Chains, NEW id \in RequestIds,
         NEW opened \in SUBSET RequestIds, NEW status \in {"COMPLETED", "FAILED"},
         NEW value \in Values, NEW n \in Nat \ {0},
         AnswersClient(c, id, opened, status, value, n)
  PROVE  IInv'
<1>1. /\ RequestsKnowTheirOwner' /\ NoncesAreFresh' /\ RequestMessagesAreRequests'
      /\ \A i \in opened : Requested(i)' /\ ~Requested(i) /\ ~Answered(i)' /\ ~Answered(i)
      /\ \A i \in RequestIds \ opened : Requested(i)' <=> Requested(i)
      /\ \A i \in RequestIds : i # id => (Answered(i)' <=> Answered(i))
  <2>1. PICK written \in SUBSET RequestIds : written = {id}
    OBVIOUS
  <2>2. Opens(c, opened) /\ OnlyWrites(c, opened \cup written)
    BY <2>1 DEF AnswersClient
  <2>3. KeepsRequesters(c, opened, written)
    BY <2>1 DEF AnswersClient, KeepsRequesters
  <2>4. AfterOpening(c, opened, written)
    BY <2>2, <2>3, OpenedInv
  <2> QED BY <2>1, <2>4 DEF AfterOpening
<1> USE DEF IInv
<1>2. /\ id.chain = c /\ id.client \in Clients /\ id.client # Zero
      /\ requests[c][id].requester = id.client
  BY ZeroIsNobody DEF AnswersClient, IsClient, RequestsKnowTheirOwner
<1>3. UNCHANGED <<coreRequests, pendingRequests, requestReceived>>
  BY DEF AnswersClient, coreVars
<1>4. /\ \A i \in RequestIds : (Received(i)' <=> Received(i)) /\ (Validated(i)' <=> Validated(i))
  BY <1>3 DEF Received, Validated
<1>5. Answered(id)' /\ ~Answered(id) /\ Requested(id)
  BY <1>2 DEF Answered, Requested, AnswersClient
<1>6. AnswerMessages' = AnswerMessages /\ dispatched \subseteq dispatched'
  BY DEF AnswersClient, Opens, Sends
<1>7. /\ \A m \in dispatched : m.body.id \in RequestIds
      /\ foreign \subseteq RequestIds
  BY DEF TypeOK, MailboxTypeOK, RequestTypeOK, Messages, Bodies
<1>8. \A i \in RequestIds : Requested(i) => Requested(i)'
  BY <1>1
<1>9. /\ \/ foreign' = foreign \cup {id}
         \/ /\ foreign' = foreign /\ n = 1
            /\ Validated(id) /\ coreRequests[id].answer.randomness = value
      /\ id \notin foreign
  BY <1>5 DEF AnswersClient, DeliveredIsDone
<1>10. (CoreEntriesAreRequests /\ PendingSetIsExact)'
  BY <1>3, <1>4, <1>8 DEF CoreEntriesAreRequests, PendingSetIsExact
<1>11. AnswerMessagesAreTheCores'
  BY <1>3, <1>4, <1>6, <1>7 DEF AnswerMessagesAreTheCores, AnswerMessages
<1>12. OneAnswerToTheSender'
  <2>1. \A m \in AnswerMessages : m.body.id \in RequestIds /\ Requested(m.body.id)'
    BY <1>7, <1>8 DEF OneAnswerToTheSender, AnswerMessages
  <2> QED BY <1>6, <2>1 DEF OneAnswerToTheSender
<1>13. DeliveredIsDone'
  <2>1. delivered' \subseteq dispatched'
    BY <1>6 DEF AnswersClient, DeliveredIsDone
  <2>2. ASSUME NEW m \in delivered'
        PROVE  IF m.body.answer = NoAnswer THEN Received(m.body.id)' ELSE Answered(m.body.id)'
    <3>1. CASE m \in delivered
      BY <1>1, <1>4, <1>5, <1>7, <3>1 DEF DeliveredIsDone
    <3>2. CASE m \notin delivered
      BY <1>5, <3>2 DEF AnswersClient
    <3> QED BY <3>1, <3>2
  <2>3. \A i \in RequestIds : Answered(i)' => i \in foreign' \/ Validated(i)'
    BY <1>1, <1>4, <1>9 DEF DeliveredIsDone
  <2>4. \A i \in foreign' : Answered(i)'
    BY <1>1, <1>5, <1>7, <1>9 DEF DeliveredIsDone
  <2> QED BY <2>1, <2>2, <2>3, <2>4 DEF DeliveredIsDone
<1>14. OneCallback'
  <2>1. /\ callbacks \in [RequestIds -> Nat]
        /\ callbacks' = [callbacks EXCEPT ![id] = @ + n]
    BY DEF TypeOK, RequestTypeOK, AnswersClient
  <2>2. callbacks[id] = 0
    BY <1>5 DEF OneCallback
  <2>3. callbacks'[id] = n /\ \A i \in RequestIds \ {id} : callbacks'[i] = callbacks[i]
    BY <2>1, <2>2
  <2>4. /\ n >= 1 /\ (id \notin foreign' => n = 1)
        /\ \A i \in RequestIds \ {id} : i \in foreign' <=> i \in foreign
    BY <1>9
  <2> QED BY <1>1, <1>5, <2>3, <2>4 DEF OneCallback
<1>15. ClientsHoldExactlyTheirs'
  <2>1. /\ requests'[c][id].status = status
        /\ \A d \in Chains, i \in RequestIds :
             d # c \/ i \notin opened \cup {id} => requests'[d][i] = requests[d][i]
    BY DEF AnswersClient, OnlyWrites
  <2>2. randomnes[c][id.client][id] = Zero
    BY <1>2, <1>5 DEF ClientsHoldExactlyTheirs, Answered
  <2>3. ASSUME NEW d \in Chains, NEW k \in Clients, NEW i \in RequestIds
        PROVE  randomnes'[d][k][i] =
                 IF d = c /\ k = id.client /\ i = id /\ status = "COMPLETED"
                 THEN value ELSE randomnes[d][k][i]
    BY <1>2 DEF AnswersClient, TypeOK, RequestTypeOK
  <2>4. value # Zero
    BY ZeroIsNobody
  <2>5. ASSUME NEW d \in Chains, NEW k \in Clients, NEW i \in RequestIds
        PROVE  IF /\ d = i.chain /\ k = i.client
                  /\ Requested(i)' /\ requests'[d][i].status = "COMPLETED"
               THEN /\ randomnes'[d][k][i] # Zero
                    /\ i \notin foreign' =>
                         randomnes'[d][k][i] = coreRequests'[i].answer.randomness
               ELSE randomnes'[d][k][i] = Zero
    <3>1. CASE i = id
      <4>1. Requested(id)'
        BY <1>5, <1>8
      <4>2. CASE d = c /\ k = id.client
        BY <1>2, <1>3, <1>9, <2>1, <2>2, <2>3, <2>4, <3>1, <4>1, <4>2
      <4>3. CASE ~(d = c /\ k = id.client)
        BY <1>2, <2>3, <3>1, <4>3 DEF ClientsHoldExactlyTheirs
      <4> QED BY <4>2, <4>3
    <3>2. CASE i # id /\ i \in opened
      <4>1. /\ ~Requested(i) /\ ~Answered(i)' /\ Requested(i)'
        BY <1>1, <3>2
      <4>2. d = i.chain => requests'[d][i].status # "COMPLETED"
        BY <4>1 DEF Answered
      <4>3. randomnes[d][k][i] = Zero
        BY <4>1 DEF ClientsHoldExactlyTheirs
      <4> QED BY <2>3, <3>2, <4>2, <4>3
    <3>3. CASE i # id /\ i \notin opened
      <4>1. requests'[d][i] = requests[d][i] /\ (Requested(i)' <=> Requested(i))
        BY <1>1, <2>1, <3>3
      <4>2. i \in foreign' <=> i \in foreign
        BY <1>9, <3>3
      <4> QED BY <1>3, <2>3, <3>3, <4>1, <4>2 DEF ClientsHoldExactlyTheirs
    <3> QED BY <3>1, <3>2, <3>3
  <2> QED BY <2>5 DEF ClientsHoldExactlyTheirs
<1> QED
  BY <1>1, <1>10, <1>11, <1>12, <1>13, <1>14, <1>15

LEMMA AnswersInv ==
  ASSUME IInv, TypeOK', NEW c \in Chains, NEW id \in RequestIds, AnswersAt(c, id)
  PROVE  IInv'
<1>1. CASE AnswersNobody(c, id)
  BY <1>1, AnswersNobodyInv
<1>2. ASSUME NEW value \in Values, NEW n \in Nat \ {0}, NEW opened \in SUBSET RequestIds,
             NEW status \in {"COMPLETED", "FAILED"},
             AnswersClient(c, id, opened, status, value, n)
      PROVE  IInv'
  BY <1>2, AnswersClientInv
<1>3. {} \in SUBSET RequestIds /\ \A new \in RequestIds : {new} \in SUBSET RequestIds
  OBVIOUS
<1> QED BY <1>1, <1>2, <1>3 DEF AnswersAt

LEMMA NextInv == IInv /\ [Next]_vars => IInv'
<1> SUFFICES ASSUME IInv, [Next]_vars PROVE IInv'
  OBVIOUS
<1>1. TypeOK'
  BY NextTypes DEF IInv
<1>2. ASSUME NEW c \in Chains, AdminSetsRecipient(c) PROVE IInv'
  BY <1>1, <1>2, AdminInv DEF AdminSetsRecipient, SetRandomNetworkRecipient, coreVars
<1>3. ASSUME NEW r \in Relayers, AdminAddsRelayer(r) PROVE IInv'
  BY <1>1, <1>3, AdminInv DEF AdminAddsRelayer, AddRelayer, requestVars
<1>4. ASSUME NEW e \in Executors, AdminAddsExecutor(e) PROVE IInv'
  BY <1>1, <1>4, AdminInv DEF AdminAddsExecutor, AddExecutor, requestVars
<1>5. ASSUME NEW m \in dispatched, ProcessAtCore(m) PROVE IInv'
  BY <1>1, <1>5, HandleInv DEF ProcessAtCore, Process
<1>6. ASSUME NEW r \in Relayers, NEW m \in dispatched, RelayerHandles(r, m) PROVE IInv'
  BY <1>1, <1>6, HandleInv DEF RelayerHandles, mailboxVars
<1>7. ASSUME NEW c \in Chains, NEW m \in dispatched, ProcessAtRequest(c, m) PROVE IInv'
  BY <1>1, <1>7, ProcessAnswers, AnswersInv
<1>8. ASSUME NEW c \in Chains, NEW id \in RequestIds, NEW answer \in Answers,
             UndispatchedAtRequest(c, id, answer)
      PROVE  IInv'
  BY <1>1, <1>8, UndispatchedAnswers, AnswersInv
<1>9. ASSUME NEW c \in Chains, NEW id \in RequestIds, NEW answer \in Answers,
             NEW again \in Answers, NEW ms \in SUBSET Deliverable(c, id),
             ProcessNested(c, id, answer, again, ms)
      PROVE  IInv'
  BY <1>1, <1>9, NestedAnswers, AnswersInv
<1>10. CASE UNCHANGED vars
  BY <1>1, <1>10, AdminInv DEF vars, requestVars, coreVars
<1> QED
  BY <1>1, <1>2, <1>3, <1>4, <1>5, <1>6, <1>7, <1>8, <1>9, <1>10, RequestInv, ExecuteInv
  DEF Next

----------------------------------------------------------------------------
(* Theorems *)

\* The inductive invariant holds, also for the messages the clients' security
\* module accepts although no contract dispatched them.
THEOREM InvariantHolds == Spec => []IInv
BY InitInv, NextInv, PTL DEF Spec

\* A client is called back when its request is answered and never before, and
\* exactly once unless a message nobody dispatched helped to answer it.
THEOREM CalledBackOnce == Spec => []OneCallback
BY InvariantHolds, PTL DEF IInv

\* The core answers each request at most once, to the contract and the chain
\* that sent it.
THEOREM AnsweredOnceToTheSender == Spec => []OneAnswerToTheSender
BY InvariantHolds, PTL DEF IInv

\* The enumerable set of pending requests agrees with the mapping.
THEOREM PendingSetAgrees == Spec => []PendingSetIsExact
BY InvariantHolds, PTL DEF IInv

LEMMA InvHolders == IInv => ClientsHoldTheCoresValue
<1> SUFFICES ASSUME IInv, NEW c \in Chains, NEW client \in Clients, NEW id \in RequestIds,
                    randomnes[c][client][id] # Zero
             PROVE  LET answer == coreRequests[id].answer IN
                    /\ c = id.chain /\ client = id.client
                    /\ Requested(id) /\ requests[c][id].status = "COMPLETED"
                    /\ id \notin foreign =>
                         /\ Validated(id)
                         /\ answer # NoAnswer
                         /\ answer.randomness = randomnes[c][client][id]
                         /\ Verify(answer.publicKey, answer.proof, answer.randomness)
  BY DEF ClientsHoldTheCoresValue
<1>1. /\ c = id.chain /\ client = id.client
      /\ Requested(id) /\ requests[c][id].status = "COMPLETED"
      /\ id \notin foreign =>
           randomnes[c][client][id] = coreRequests[id].answer.randomness
  BY DEF IInv, ClientsHoldExactlyTheirs
<1>2. id \notin foreign => Validated(id)
  BY <1>1 DEF IInv, DeliveredIsDone, Answered
<1> QED
  BY <1>1, <1>2 DEF IInv, CoreEntriesAreRequests, Validated

\* What a client holds is the value the core validated for its own request,
\* or the request was answered with a message nobody dispatched.
THEOREM ClientsHoldValidatedValues == Spec => []ClientsHoldTheCoresValue
BY InvariantHolds, InvHolders, PTL

LEMMA InvNotLost == IInv => NoRequestIsLost
<1> SUFFICES ASSUME IInv, NEW id \in RequestIds, Requested(id), ~Answered(id)
             PROVE  \/ /\ ~Received(id)
                       /\ \E m \in InFlight : m.body = [id |-> id, answer |-> NoAnswer]
                    \/ id \in pendingRequests
                    \/ \E m \in InFlight \cap AnswerMessages : m.body.id = id
  BY DEF NoRequestIsLost
<1> USE DEF IInv
<1>1. coreRequests[id].status \in {"PENDING_EXECUTION", "VALIDATED"}
  BY DEF TypeOK, CoreTypeOK, RequestData, CoreStatuses
<1>2. CASE ~Received(id)
  <2>1. PICK m \in dispatched : m.body = [id |-> id, answer |-> NoAnswer]
    BY DEF RequestMessagesAreRequests
  <2>2. m \notin delivered
    BY <1>2, <2>1 DEF DeliveredIsDone
  <2> QED BY <1>2, <2>1, <2>2 DEF InFlight
<1>3. CASE Received(id) /\ coreRequests[id].status = "PENDING_EXECUTION"
  BY <1>3 DEF PendingSetIsExact
<1>4. CASE Validated(id)
  <2>1. PICK m \in AnswerMessages : m.body.id = id
    BY <1>4 DEF AnswerMessagesAreTheCores
  <2>2. m \in dispatched /\ m.body.answer # NoAnswer
    BY DEF AnswerMessages
  <2>3. m \notin delivered
    BY <2>1, <2>2 DEF DeliveredIsDone
  <2> QED BY <2>1, <2>2, <2>3 DEF InFlight
<1> QED BY <1>1, <1>2, <1>3, <1>4 DEF Validated

\* A request without an answer is in a mailbox or pending at the core.
THEOREM RequestsAreNeverLost == Spec => []NoRequestIsLost
BY InvariantHolds, InvNotLost, PTL

----------------------------------------------------------------------------
(* The action property and the refinements: from IInv and from what each   *)
(* transaction writes in the entries of the two contracts.                 *)

(* Decided requests *******************************************************)

KeepsAnswered(id) ==
  Answered(id) =>
    /\ requests'[id.chain][id] = requests[id.chain][id]
    /\ callbacks'[id] = callbacks[id]
    /\ randomnes'[id.chain][id.client][id] = randomnes[id.chain][id.client][id]

LEMMA RequestKeepsAnswered ==
  ASSUME IInv, NEW id \in RequestIds,
         NEW c \in Chains, NEW client \in Clients, NEW limit \in GasLimits,
         ClientRequests(c, client, limit)
  PROVE  KeepsAnswered(id)
<1>1. PICK new \in RequestIds : Opens(c, {new}) /\ OnlyWrites(c, {new})
  BY RequestWrites
<1>2. ~Answered(new)
  BY <1>1 DEF Opens, Stores, Answered, Requested
<1>3. Answered(id) => requests'[id.chain][id] = requests[id.chain][id]
  BY <1>1, <1>2 DEF OnlyWrites, RequestIds
<1>4. UNCHANGED <<callbacks, randomnes>>
  BY DEF ClientRequests, RequestRandomness
<1> QED BY <1>3, <1>4 DEF KeepsAnswered

LEMMA AnswersKeepAnswered ==
  ASSUME IInv, NEW id \in RequestIds,
         NEW c \in Chains, NEW i \in RequestIds, AnswersAt(c, i)
  PROVE  KeepsAnswered(id)
<1>0. id.chain \in Chains /\ id.client \in Clients
  BY DEF RequestIds
<1>1. CASE AnswersNobody(c, i)
  <2>1. requests[c][i].requester = Zero
    BY <1>1 DEF AnswersNobody, IsClient, IInv, TypeOK, RequestTypeOK, Requests
  <2>2. Answered(id) => id.chain # c \/ id # i
    BY <2>1 DEF Answered, Requested
  <2> QED
    BY <1>0, <1>1, <2>2 DEF AnswersNobody, OnlyWrites, KeepsAnswered
<1>2. ASSUME NEW opened \in SUBSET RequestIds, NEW status \in {"COMPLETED", "FAILED"},
             NEW value \in Values, NEW n \in Nat \ {0},
             AnswersClient(c, i, opened, status, value, n)
      PROVE  KeepsAnswered(id)
  <2>1. i.chain = c /\ requests[c][i].requester = i.client /\ i.client \in Clients
    BY <1>2, ZeroIsNobody DEF AnswersClient, IsClient, IInv, RequestsKnowTheirOwner
  <2>2. ~Answered(i) /\ \A j \in opened : ~Answered(j)
    BY <1>2, <2>1 DEF AnswersClient, Answered, Requested, Opens, Stores
  <2>3. Answered(id) => id \notin opened \cup {i}
    BY <2>2
  <2>4. /\ callbacks \in [RequestIds -> Nat]
        /\ randomnes \in [Chains -> [Clients -> [RequestIds -> Values \cup {Zero}]]]
    BY DEF IInv, TypeOK, RequestTypeOK
  <2>5. callbacks' = [callbacks EXCEPT ![i] = @ + n]
    BY <1>2 DEF AnswersClient
  <2>6. randomnes' = IF status = "COMPLETED"
                     THEN [randomnes EXCEPT ![c][i.client][i] = value] ELSE randomnes
    BY <1>2, <2>1 DEF AnswersClient
  <2>7. id # i => /\ callbacks'[id] = callbacks[id]
                  /\ randomnes'[id.chain][id.client][id] = randomnes[id.chain][id.client][id]
    BY <1>0, <2>1, <2>4, <2>5, <2>6
  <2>8. id \notin opened \cup {i} => requests'[id.chain][id] = requests[id.chain][id]
    BY <1>0, <1>2 DEF AnswersClient, OnlyWrites
  <2> QED BY <2>3, <2>7, <2>8 DEF KeepsAnswered
<1>3. {} \in SUBSET RequestIds /\ \A new \in RequestIds : {new} \in SUBSET RequestIds
  OBVIOUS
<1> QED BY <1>1, <1>2, <1>3 DEF AnswersAt

LEMMA HandleKeepsValidated ==
  ASSUME IInv, NEW id \in RequestIds, NEW caller, NEW m \in dispatched, Validated(id),
         HandleCrossChainRequest(caller, m.origin, m.sender, m.body.id)
  PROVE  coreRequests'[id] = coreRequests[id]
<1>1. /\ m.body.id \in RequestIds /\ m.origin \in Domains /\ m.sender \in Addresses
      /\ coreRequests \in [RequestIds -> RequestData]
  BY DEF IInv, TypeOK, MailboxTypeOK, CoreTypeOK, Messages, Bodies
<1>2. coreRequests[m.body.id].timestamp = 0
  BY DEF HandleCrossChainRequest
<1>3. m.body.id # id
  BY <1>2 DEF Validated, Received
<1> QED BY <1>1, <1>3, HandleWritesOneEntry

LEMMA StepKeepsDecided == IInv /\ [Next]_vars => DecidedStep
<1> SUFFICES ASSUME IInv, [Next]_vars, NEW id \in RequestIds
             PROVE  KeepsAnswered(id) /\ (Validated(id) => coreRequests'[id] = coreRequests[id])
  BY DEF DecidedStep, KeepsAnswered
<1> DEFINE KeepsCore == coreRequests' = coreRequests
<1>1. ASSUME UNCHANGED <<requests, callbacks, randomnes>> PROVE KeepsAnswered(id)
  BY <1>1 DEF KeepsAnswered
<1>2. ASSUME NEW c \in Chains, AdminSetsRecipient(c) PROVE KeepsAnswered(id) /\ KeepsCore
  BY <1>1, <1>2 DEF AdminSetsRecipient, SetRandomNetworkRecipient, coreVars
<1>3. ASSUME NEW r \in Relayers, AdminAddsRelayer(r) PROVE KeepsAnswered(id) /\ KeepsCore
  BY <1>1, <1>3 DEF AdminAddsRelayer, AddRelayer, requestVars
<1>4. ASSUME NEW e \in Executors, AdminAddsExecutor(e) PROVE KeepsAnswered(id) /\ KeepsCore
  BY <1>1, <1>4 DEF AdminAddsExecutor, AddExecutor, requestVars
<1>5. ASSUME NEW c \in Chains, NEW client \in Clients, NEW limit \in GasLimits,
             ClientRequests(c, client, limit)
      PROVE  KeepsAnswered(id) /\ KeepsCore
  BY <1>5, RequestKeepsAnswered DEF ClientRequests, coreVars
<1>6. ASSUME NEW m \in dispatched, ProcessAtCore(m)
      PROVE  KeepsAnswered(id) /\ (Validated(id) => coreRequests'[id] = coreRequests[id])
  BY <1>1, <1>6, HandleKeepsValidated DEF ProcessAtCore, requestVars
<1>7. ASSUME NEW r \in Relayers, NEW m \in dispatched, RelayerHandles(r, m)
      PROVE  KeepsAnswered(id) /\ (Validated(id) => coreRequests'[id] = coreRequests[id])
  BY <1>1, <1>7, HandleKeepsValidated DEF RelayerHandles, requestVars
<1>8. ASSUME NEW e \in Executors, NEW i \in RequestIds, NEW answer \in Answers,
             NEW signer \in Executors, ExecutorSubmits(e, i, answer, signer)
      PROVE  KeepsAnswered(id) /\ (Validated(id) => coreRequests'[id] = coreRequests[id])
  <2>1. coreRequests \in [RequestIds -> RequestData]
    BY DEF IInv, TypeOK, CoreTypeOK
  <2>2. Validated(id) => coreRequests'[id] = coreRequests[id]
    BY <1>8, <2>1 DEF ExecutorSubmits, ExecuteVRF, Validated
  <2> QED BY <1>1, <1>8, <2>2 DEF ExecutorSubmits, requestVars
<1>9. ASSUME NEW c \in Chains, NEW m \in dispatched, ProcessAtRequest(c, m)
      PROVE  KeepsAnswered(id) /\ KeepsCore
  <2>1. KeepsAnswered(id)
    BY <1>9, ProcessAnswers, AnswersKeepAnswered
  <2> QED BY <1>9, <2>1 DEF ProcessAtRequest, coreVars
<1>10. ASSUME NEW c \in Chains, NEW i \in RequestIds, NEW answer \in Answers,
              UndispatchedAtRequest(c, i, answer)
       PROVE  KeepsAnswered(id) /\ KeepsCore
  <2>1. KeepsAnswered(id)
    BY <1>10, UndispatchedAnswers, AnswersKeepAnswered
  <2> QED BY <1>10, <2>1 DEF UndispatchedAtRequest, coreVars
<1>11. ASSUME NEW c \in Chains, NEW i \in RequestIds, NEW answer \in Answers,
              NEW again \in Answers, NEW ms \in SUBSET Deliverable(c, i),
              ProcessNested(c, i, answer, again, ms)
       PROVE  KeepsAnswered(id) /\ KeepsCore
  <2>1. KeepsAnswered(id)
    BY <1>11, NestedAnswers, AnswersKeepAnswered
  <2> QED BY <1>11, <2>1 DEF ProcessNested, coreVars
<1>12. CASE UNCHANGED vars
  BY <1>1, <1>12 DEF vars, requestVars, coreVars
<1> QED
  BY <1>2, <1>3, <1>4, <1>5, <1>6, <1>7, <1>8, <1>9, <1>10, <1>11, <1>12 DEF Next

\* An answered request, its callbacks and its client's value, and a validated
\* entry of the core, are never written again by any later transaction.
THEOREM DecidedRequestsStay == Spec => DecidedStays
<1>1. IInv /\ [Next]_vars => [DecidedStep]_vars
  BY StepKeepsDecided
<1> QED BY <1>1, InvariantHolds, PTL DEF Spec, DecidedStays

(* The service ************************************************************)

\* The state of the service, told request by request.
LEMMA ServiceInit == Init => Service!Init
<1> SUFFICES ASSUME Init PROVE Service!Init
  OBVIOUS
<1>1. ASSUME NEW id \in RequestIds
      PROVE  /\ ServiceStatus(id) = "idle"
             /\ ServiceDrawn(id) = Zero
             /\ ServiceReceived(id) = Zero
  <2>1. id.chain \in Chains /\ id.client \in Clients
    BY DEF RequestIds
  <2> QED
    BY <2>1 DEF Init, RequestInit, CoreInit, ServiceStatus, Requested, UnsetRequest,
                ServiceDrawn, Validated, Received, UnsetData, ServiceReceived
<1>2. foreign = {}
  BY DEF Init, RequestInit
<1> QED BY <1>1, <1>2 DEF Service!Init

\* A transaction that writes none of what the service is told from.
LEMMA StutterStep ==
  ASSUME UNCHANGED <<requests, randomnes, foreign>>,
         \A id \in RequestIds : ServiceDrawn(id)' = ServiceDrawn(id)
  PROVE  UNCHANGED Service!serviceVars
BY DEF Service!serviceVars, ServiceStatus, Requested, ServiceReceived

\* The status of an entry the step does not write, and of one it opens.
LEMMA StatusOfEntries ==
  ASSUME NEW id \in RequestIds
  PROVE  /\ requests'[id.chain][id] = requests[id.chain][id] =>
              ServiceStatus(id)' = ServiceStatus(id)
         /\ \A c \in Chains : Opens(c, {id}) =>
              ServiceStatus(id) = "idle" /\ ServiceStatus(id)' = "pending"
<1>1. requests'[id.chain][id] = requests[id.chain][id] =>
        ServiceStatus(id)' = ServiceStatus(id)
  BY DEF ServiceStatus, Requested
<1>2. ASSUME NEW c \in Chains, Opens(c, {id})
      PROVE  ServiceStatus(id) = "idle" /\ ServiceStatus(id)' = "pending"
  <2>1. id.client # Zero
    BY ZeroIsNobody DEF RequestIds
  <2>2. /\ requests[id.chain][id].requester = Zero
        /\ requests'[id.chain][id].requester # Zero
        /\ requests'[id.chain][id].status = "PENDING"
    BY <1>2, <2>1 DEF Opens, Stores
  <2> QED BY <2>2 DEF ServiceStatus, Requested
<1> QED BY <1>1, <1>2

\* requestRandomness asks.
LEMMA RequestAsks ==
  ASSUME IInv, NEW c \in Chains, NEW client \in Clients, NEW limit \in GasLimits,
         ClientRequests(c, client, limit)
  PROVE  Service!Next
<1>1. PICK new \in RequestIds : Opens(c, {new}) /\ OnlyWrites(c, {new})
  BY RequestWrites
<1>2. \A i \in RequestIds : i.chain \in Chains
  BY DEF RequestIds
<1>3. ServiceStatus(new) = "idle" /\ ServiceStatus(new)' = "pending"
  BY <1>1, StatusOfEntries
<1>4. \A i \in RequestIds \ {new} : ServiceStatus(i)' = ServiceStatus(i)
  BY <1>1, <1>2, StatusOfEntries DEF OnlyWrites
<1>5. /\ \A i \in RequestIds : /\ ServiceDrawn(i)' = ServiceDrawn(i)
                               /\ ServiceReceived(i)' = ServiceReceived(i)
      /\ foreign' = foreign
  BY DEF ClientRequests, RequestRandomness, coreVars, ServiceDrawn, Validated, Received,
         ServiceReceived
<1>6. Service!Ask(new)
  BY <1>3, <1>4, <1>5 DEF Service!Ask
<1> QED BY <1>6 DEF Service!Next

\* executeVRF draws, when the core has received the request.
LEMMA ExecuteDraws ==
  ASSUME IInv, NEW e \in Executors, NEW id \in RequestIds, NEW answer \in Answers,
         NEW signer \in Executors, ExecutorSubmits(e, id, answer, signer)
  PROVE  Service!Next \/ UNCHANGED Service!serviceVars
<1>1. UNCHANGED <<requests, randomnes, foreign>>
  BY DEF ExecutorSubmits, requestVars
<1>2. coreRequests \in [RequestIds -> RequestData]
  BY DEF IInv, TypeOK, CoreTypeOK
<1>3. /\ coreRequests[id].status = "PENDING_EXECUTION"
      /\ coreRequests'[id].status = "VALIDATED"
      /\ coreRequests'[id].answer = answer
      /\ coreRequests'[id].timestamp = coreRequests[id].timestamp
      /\ \A i \in RequestIds \ {id} : coreRequests'[i] = coreRequests[i]
  BY <1>2 DEF ExecutorSubmits, ExecuteVRF, RequestData
<1>4. \A i \in RequestIds \ {id} : ServiceDrawn(i)' = ServiceDrawn(i)
  BY <1>3 DEF ServiceDrawn, Validated, Received
<1>5. CASE ~Received(id)
  <2>1. ServiceDrawn(id)' = ServiceDrawn(id)
    BY <1>3, <1>5 DEF ServiceDrawn, Validated, Received
  <2> QED BY <1>1, <1>4, <2>1, StutterStep
<1>6. CASE Received(id)
  <2>1. ServiceStatus(id) # "idle"
    <3>1. Requested(id)
      BY <1>6 DEF IInv, CoreEntriesAreRequests
    <3>2. requests[id.chain][id].status \in Statuses
      BY DEF RequestIds, IInv, TypeOK, RequestTypeOK, Requests
    <3> QED BY <3>1, <3>2 DEF ServiceStatus, Statuses
  <2>2. ServiceDrawn(id) = Zero /\ ServiceDrawn(id)' = answer.randomness
    BY <1>3, <1>6 DEF ServiceDrawn, Validated, Received
  <2>3. \A i \in RequestIds : /\ ServiceStatus(i)' = ServiceStatus(i)
                              /\ ServiceReceived(i)' = ServiceReceived(i)
    BY <1>1 DEF ServiceStatus, Requested, ServiceReceived
  <2>4. answer.randomness \in Values
    BY DEF Answers
  <2>5. Service!Draw(id, answer.randomness)
    BY <1>1, <1>4, <2>1, <2>2, <2>3 DEF Service!Draw
  <2> QED BY <2>4, <2>5 DEF Service!Next
<1> QED BY <1>5, <1>6

\* An answer completes, completes and asks, or fails.
LEMMA AnswerEnds ==
  ASSUME IInv, NEW c \in Chains, NEW id \in RequestIds,
         NEW opened \in SUBSET RequestIds, NEW status \in {"COMPLETED", "FAILED"},
         NEW value \in Values, NEW n \in Nat \ {0},
         AnswersClient(c, id, opened, status, value, n)
  PROVE  /\ Service!IsAnswer(id, value)
         /\ status = "COMPLETED" => ServiceStatus(id)' = "completed"
         /\ status = "FAILED" => ServiceStatus(id)' = "failed"
         /\ \A i \in RequestIds : i \notin opened \cup {id} =>
              ServiceStatus(i)' = ServiceStatus(i)
         /\ \A i \in RequestIds : ServiceReceived(i)' =
              IF i = id /\ status = "COMPLETED" THEN value ELSE ServiceReceived(i)
         /\ \A i \in RequestIds : ServiceDrawn(i)' = ServiceDrawn(i)
<1>1. /\ id.chain = c /\ id.client \in Clients /\ id.client # Zero
      /\ requests[c][id].requester = id.client
  BY ZeroIsNobody DEF AnswersClient, IsClient, IInv, RequestsKnowTheirOwner
<1>2. \A i \in RequestIds : i.chain \in Chains /\ i.client \in Clients
  BY DEF RequestIds
<1>3. \A i \in RequestIds : ServiceDrawn(i)' = ServiceDrawn(i)
  BY DEF AnswersClient, coreVars, ServiceDrawn, Validated, Received
<1>4. Service!IsAnswer(id, value)
  <2>1. ServiceStatus(id) = "pending"
    BY <1>1 DEF AnswersClient, ServiceStatus, Requested
  <2>2. (ServiceDrawn(id) = value /\ foreign' = foreign) \/ foreign' = foreign \cup {id}
    BY DEF AnswersClient, ServiceDrawn
  <2> QED BY <2>1, <2>2 DEF Service!IsAnswer
<1>5. /\ status = "COMPLETED" => ServiceStatus(id)' = "completed"
      /\ status = "FAILED" => ServiceStatus(id)' = "failed"
  BY <1>1 DEF AnswersClient, ServiceStatus, Requested
<1>6. \A i \in RequestIds : i \notin opened \cup {id} => ServiceStatus(i)' = ServiceStatus(i)
  BY <1>2, StatusOfEntries DEF AnswersClient, OnlyWrites
<1>7. randomnes \in [Chains -> [Clients -> [RequestIds -> Values \cup {Zero}]]]
  BY DEF IInv, TypeOK, RequestTypeOK
<1>8. randomnes' = IF status = "COMPLETED"
                   THEN [randomnes EXCEPT ![c][id.client][id] = value] ELSE randomnes
  BY <1>1 DEF AnswersClient
<1>9. \A i \in RequestIds : ServiceReceived(i)' =
        IF i = id /\ status = "COMPLETED" THEN value ELSE ServiceReceived(i)
  BY <1>1, <1>2, <1>7, <1>8 DEF ServiceReceived
<1> QED BY <1>3, <1>4, <1>5, <1>6, <1>9

LEMMA AnswerIsAServiceStep ==
  ASSUME IInv, NEW c \in Chains, NEW id \in RequestIds, AnswersAt(c, id)
  PROVE  Service!Next \/ UNCHANGED Service!serviceVars
<1>1. CASE AnswersNobody(c, id)
  <2>1. requests[c][id].requester = Zero
    BY <1>1 DEF AnswersNobody, IsClient, IInv, TypeOK, RequestTypeOK, Requests
  <2>2. ASSUME NEW i \in RequestIds PROVE ServiceStatus(i)' = ServiceStatus(i)
    <3>1. CASE i = id /\ i.chain = c
      BY <1>1, <2>1, <3>1 DEF AnswersNobody, ServiceStatus, Requested
    <3>2. CASE ~(i = id /\ i.chain = c)
      <4>1. requests'[i.chain][i] = requests[i.chain][i]
        BY <1>1, <3>2 DEF AnswersNobody, OnlyWrites, RequestIds
      <4> QED BY <4>1, StatusOfEntries
    <3> QED BY <3>1, <3>2
  <2>3. \A i \in RequestIds : /\ ServiceDrawn(i)' = ServiceDrawn(i)
                              /\ ServiceReceived(i)' = ServiceReceived(i)
    BY <1>1 DEF AnswersNobody, coreVars, ServiceDrawn, Validated, Received, ServiceReceived
  <2>4. foreign' = foreign
    BY <1>1 DEF AnswersNobody
  <2> QED BY <2>2, <2>3, <2>4 DEF Service!serviceVars
<1>2. ASSUME NEW opened \in SUBSET RequestIds, NEW status \in {"COMPLETED", "FAILED"},
             NEW value \in Values, NEW n \in Nat \ {0},
             AnswersClient(c, id, opened, status, value, n),
             \/ opened = {}
             \/ status = "COMPLETED" /\ \E new \in RequestIds : opened = {new}
      PROVE  Service!Next
  <2>1. /\ Service!IsAnswer(id, value)
        /\ status = "COMPLETED" => ServiceStatus(id)' = "completed"
        /\ status = "FAILED" => ServiceStatus(id)' = "failed"
        /\ \A i \in RequestIds : i \notin opened \cup {id} =>
             ServiceStatus(i)' = ServiceStatus(i)
        /\ \A i \in RequestIds : ServiceReceived(i)' =
             IF i = id /\ status = "COMPLETED" THEN value ELSE ServiceReceived(i)
        /\ \A i \in RequestIds : ServiceDrawn(i)' = ServiceDrawn(i)
    BY <1>2, AnswerEnds
  <2>2. CASE status = "COMPLETED" /\ opened = {}
    <3>1. Service!Complete(id, value)
      BY <2>1, <2>2 DEF Service!Complete
    <3> QED BY <3>1 DEF Service!Next
  <2>3. CASE status = "FAILED"
    <3>1. Service!Fail(id, value)
      BY <1>2, <2>1, <2>3 DEF Service!Fail
    <3> QED BY <3>1 DEF Service!Next
  <2>4. CASE status = "COMPLETED" /\ \E new \in RequestIds : opened = {new}
    <3>1. PICK new \in RequestIds : opened = {new}
      BY <2>4
    <3>2. ServiceStatus(new) = "idle" /\ ServiceStatus(new)' = "pending"
      BY <1>2, <3>1, StatusOfEntries DEF AnswersClient
    <3>3. Service!CompleteAndAsk(id, value, new)
      BY <2>1, <2>4, <3>1, <3>2 DEF Service!CompleteAndAsk
    <3> QED BY <3>3 DEF Service!Next
  <2> QED BY <1>2, <2>2, <2>3, <2>4
<1>3. {} \in SUBSET RequestIds /\ \A new \in RequestIds : {new} \in SUBSET RequestIds
  OBVIOUS
<1> QED BY <1>1, <1>2, <1>3 DEF AnswersAt

\* What the core records of a new request says nothing of a draw.
LEMMA HandleDrawsNothing ==
  ASSUME IInv, NEW caller, NEW m \in dispatched,
         HandleCrossChainRequest(caller, m.origin, m.sender, m.body.id)
  PROVE  /\ m.body.id \in RequestIds
         /\ ~Received(m.body.id)
         /\ \A id \in RequestIds : Validated(id)' <=> Validated(id)
         /\ \A id \in RequestIds : ServiceDrawn(id)' = ServiceDrawn(id)
<1>1. m.body.id \in RequestIds /\ m.origin \in Domains /\ m.sender \in Addresses
  BY DEF IInv, TypeOK, MailboxTypeOK, Messages, Bodies
<1>2. coreRequests \in [RequestIds -> RequestData]
  BY DEF IInv, TypeOK, CoreTypeOK
<1>3. ~Received(m.body.id)
  BY DEF HandleCrossChainRequest, Received
<1>4. /\ coreRequests'[m.body.id].status = "PENDING_EXECUTION"
      /\ \A i \in RequestIds \ {m.body.id} : coreRequests'[i] = coreRequests[i]
  BY <1>1, <1>2, HandleWritesOneEntry
<1>5. \A id \in RequestIds : Validated(id)' <=> Validated(id)
  BY <1>3, <1>4 DEF Validated, Received
<1> QED BY <1>1, <1>3, <1>4, <1>5 DEF ServiceDrawn, Validated

LEMMA ServiceStep == IInv /\ [Next]_vars => [Service!Next]_(Service!serviceVars)
<1> SUFFICES ASSUME IInv, [Next]_vars
             PROVE  Service!Next \/ UNCHANGED Service!serviceVars
  OBVIOUS
<1>1. ASSUME UNCHANGED <<requests, randomnes, foreign, coreRequests>>
      PROVE  UNCHANGED Service!serviceVars
  BY <1>1, StutterStep DEF ServiceDrawn, Validated, Received
<1>2. ASSUME NEW c \in Chains, AdminSetsRecipient(c) PROVE UNCHANGED Service!serviceVars
  BY <1>1, <1>2 DEF AdminSetsRecipient, SetRandomNetworkRecipient, coreVars
<1>3. ASSUME NEW r \in Relayers, AdminAddsRelayer(r) PROVE UNCHANGED Service!serviceVars
  BY <1>1, <1>3 DEF AdminAddsRelayer, AddRelayer, requestVars
<1>4. ASSUME NEW e \in Executors, AdminAddsExecutor(e) PROVE UNCHANGED Service!serviceVars
  BY <1>1, <1>4 DEF AdminAddsExecutor, AddExecutor, requestVars
<1>5. ASSUME NEW m \in dispatched, ProcessAtCore(m) PROVE UNCHANGED Service!serviceVars
  BY <1>5, HandleDrawsNothing, StutterStep DEF ProcessAtCore, requestVars
<1>6. ASSUME NEW r \in Relayers, NEW m \in dispatched, RelayerHandles(r, m)
      PROVE  UNCHANGED Service!serviceVars
  BY <1>6, HandleDrawsNothing, StutterStep DEF RelayerHandles, requestVars
<1>7. ASSUME NEW c \in Chains, NEW m \in dispatched, ProcessAtRequest(c, m)
      PROVE  Service!Next \/ UNCHANGED Service!serviceVars
  BY <1>7, ProcessAnswers, AnswerIsAServiceStep
<1>8. ASSUME NEW c \in Chains, NEW id \in RequestIds, NEW answer \in Answers,
             UndispatchedAtRequest(c, id, answer)
      PROVE  Service!Next \/ UNCHANGED Service!serviceVars
  BY <1>8, UndispatchedAnswers, AnswerIsAServiceStep
<1>9. ASSUME NEW c \in Chains, NEW id \in RequestIds, NEW answer \in Answers,
             NEW again \in Answers, NEW ms \in SUBSET Deliverable(c, id),
             ProcessNested(c, id, answer, again, ms)
      PROVE  Service!Next \/ UNCHANGED Service!serviceVars
  BY <1>9, NestedAnswers, AnswerIsAServiceStep
<1>10. CASE UNCHANGED vars
  BY <1>1, <1>10 DEF vars, requestVars, coreVars
<1> QED
  BY <1>2, <1>3, <1>4, <1>5, <1>6, <1>7, <1>8, <1>9, <1>10, RequestAsks, ExecuteDraws
  DEF Next

\* Every behaviour of the contracts and the mailboxes, whatever the admins,
\* the relayers, the executors and the callbacks do and whoever calls process
\* with a message of his own, is a behaviour of the service: one draw, one
\* final status, and the value drawn unless the answer came from outside.
THEOREM NetworkImplementsService == Spec => ImplementsService
BY ServiceInit, ServiceStep, InvariantHolds, PTL DEF Spec, Service!Spec, ImplementsService

(* The core, for whoever looks at it alone ********************************)

ValidatedIds == {id \in RequestIds : Validated(id)}

Core == INSTANCE CoreRequests WITH
  Ids <- RequestIds, received <- requestReceived, validated <- ValidatedIds

\* The core of the network is the one the executor and the binding look at.
ImplementsCore == Core!Spec

\* handle() receives, by the mailbox and by a relayer.
LEMMA HandleReceives ==
  ASSUME IInv, NEW caller, NEW m \in dispatched,
         HandleCrossChainRequest(caller, m.origin, m.sender, m.body.id)
  PROVE  Core!Next
<1> DEFINE id == m.body.id
<1>1. id \in RequestIds /\ ~Received(id)
  BY HandleDrawsNothing
<1>2. id \notin requestReceived
  BY <1>1 DEF IInv, CoreEntriesAreRequests
<1>3. ValidatedIds' = ValidatedIds
  BY HandleDrawsNothing DEF ValidatedIds
<1>4. Core!Receive(id)
  BY <1>2, <1>3 DEF Core!Receive, HandleCrossChainRequest
<1> QED BY <1>1, <1>4 DEF Core!Next

\* executeVRF validates a request it finds received, and no other.
LEMMA ExecuteValidates ==
  ASSUME IInv, NEW e \in Executors, NEW id \in RequestIds, NEW answer \in Answers,
         NEW signer \in Executors, ExecutorSubmits(e, id, answer, signer)
  PROVE  Core!Next \/ UNCHANGED Core!coreVars
<1>1. coreRequests \in [RequestIds -> RequestData]
  BY DEF IInv, TypeOK, CoreTypeOK
<1>2. requestReceived' = requestReceived /\ coreRequests[id].status = "PENDING_EXECUTION"
  BY DEF ExecutorSubmits, ExecuteVRF
<1>3. /\ coreRequests'[id].status = "VALIDATED"
      /\ coreRequests'[id].timestamp = coreRequests[id].timestamp
      /\ \A i \in RequestIds \ {id} : coreRequests'[i] = coreRequests[i]
  BY <1>1 DEF ExecutorSubmits, ExecuteVRF, RequestData
<1>4. /\ id \notin ValidatedIds
      /\ ValidatedIds' = IF Received(id) THEN ValidatedIds \cup {id} ELSE ValidatedIds
  BY <1>2, <1>3 DEF ValidatedIds, Validated, Received
<1>5. CASE Received(id)
  <2>1. id \in requestReceived
    BY <1>5 DEF IInv, CoreEntriesAreRequests
  <2>2. Core!Validate({id})
    BY <1>2, <1>4, <1>5, <2>1 DEF Core!Validate
  <2> QED BY <2>2 DEF Core!Next
<1>6. CASE ~Received(id)
  BY <1>2, <1>4, <1>6 DEF Core!coreVars
<1> QED BY <1>5, <1>6

LEMMA CoreStep == IInv /\ [Next]_vars => [Core!Next]_(Core!coreVars)
<1> SUFFICES ASSUME IInv, [Next]_vars PROVE Core!Next \/ UNCHANGED Core!coreVars
  OBVIOUS
<1>1. ASSUME UNCHANGED <<coreRequests, requestReceived>> PROVE UNCHANGED Core!coreVars
  BY <1>1 DEF Core!coreVars, ValidatedIds, Validated, Received
<1>2. ASSUME NEW c \in Chains, AdminSetsRecipient(c) PROVE UNCHANGED Core!coreVars
  BY <1>1, <1>2 DEF AdminSetsRecipient, coreVars
<1>3. ASSUME NEW r \in Relayers, AdminAddsRelayer(r) PROVE UNCHANGED Core!coreVars
  BY <1>1, <1>3 DEF AdminAddsRelayer, AddRelayer
<1>4. ASSUME NEW e \in Executors, AdminAddsExecutor(e) PROVE UNCHANGED Core!coreVars
  BY <1>1, <1>4 DEF AdminAddsExecutor, AddExecutor
<1>5. ASSUME NEW c \in Chains, NEW client \in Clients, NEW limit \in GasLimits,
             ClientRequests(c, client, limit)
      PROVE  UNCHANGED Core!coreVars
  BY <1>1, <1>5 DEF ClientRequests, coreVars
<1>6. ASSUME NEW m \in dispatched, ProcessAtCore(m) PROVE Core!Next
  BY <1>6, HandleReceives DEF ProcessAtCore
<1>7. ASSUME NEW r \in Relayers, NEW m \in dispatched, RelayerHandles(r, m) PROVE Core!Next
  BY <1>7, HandleReceives DEF RelayerHandles
<1>8. ASSUME UNCHANGED coreVars PROVE UNCHANGED Core!coreVars
  BY <1>1, <1>8 DEF coreVars
<1>9. /\ \A c \in Chains, m \in dispatched : ProcessAtRequest(c, m) => UNCHANGED coreVars
      /\ \A c \in Chains, id \in RequestIds, answer \in Answers :
           UndispatchedAtRequest(c, id, answer) => UNCHANGED coreVars
      /\ \A c \in Chains, id \in RequestIds, answer \in Answers, again \in Answers :
           \A ms \in SUBSET Deliverable(c, id) :
             ProcessNested(c, id, answer, again, ms) => UNCHANGED coreVars
  BY DEF ProcessAtRequest, UndispatchedAtRequest, ProcessNested
<1>10. CASE UNCHANGED vars
  BY <1>1, <1>10 DEF vars, coreVars
<1> QED
  BY <1>2, <1>3, <1>4, <1>5, <1>6, <1>7, <1>8, <1>9, <1>10, ExecuteValidates DEF Next

\* Whatever the messages, the relayers and several executors do, the core of
\* the network receives a request once and validates it once, after that.
THEOREM NetworkContainsACore == Spec => ImplementsCore
<1>1. Init => Core!Init
  BY DEF Init, CoreInit, Core!Init, ValidatedIds, Validated, Received, UnsetData
<1> QED BY <1>1, CoreStep, InvariantHolds, PTL DEF Spec, Core!Spec, ImplementsCore
=============================================================================
