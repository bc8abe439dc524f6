--------------------------- MODULE VRFCoreBinding ----------------------------
(***************************************************************************)
(* VRFCoreV1 as the Go binding shows it: calls that read its last block,   *)
(* transactions that are estimated when they are sent and run when they    *)
(* get into a block, and queries for its events.  Behind it are the roles  *)
(* of OpenZeppelin's AccessControl, which admins change while the answers  *)
(* of executors wait to be included.  A method of the binding has a form   *)
(* with options and two forms of a session that supplies them; they are    *)
(* one operator here.                                                      *)
(***************************************************************************)
EXTENDS Naturals, Sequences, FiniteSets

CONSTANTS
  Admin,     \* granted DEFAULT_ADMIN_ROLE by initialize
  Mailbox,   \* granted RELAYER_ROLE by initialize
  Services,  \* accounts of executor services, whether they have the role or not
  Nobody,    \* an address no key is known of
  Ids,       \* the requests
  MaxAdministration  \* bound: transactions that change the roles

VARIABLES
  roles,     \* AccessControl: the holders of each role
  requests,  \* the mapping requests, by what its timestamp and status say
  logs,      \* the events of the contract, in order
  pool,      \* the transactions of each account that wait, in their order
  answered,  \* answered[<<service, id>>]: what came of the service's one answer
  administered  \* history: transactions sent that change the roles

vars == <<roles, requests, logs, pool, answered, administered>>

\* The mailbox is a contract: it sends no transactions.
Senders == {Admin} \cup Services
Accounts == Senders \cup {Mailbox}

----------------------------------------------------------------------------
(* What the contract can be asked.                                          *)

DEFAULTADMINROLE == "DEFAULT_ADMIN_ROLE"
EXECUTORROLE == "EXECUTOR_ROLE"
RELAYERROLE == "RELAYER_ROLE"
Roles == {DEFAULTADMINROLE, EXECUTORROLE, RELAYERROLE}

\* The contract never changes the admin of a role.
GetRoleAdmin(role) == DEFAULTADMINROLE

HasRole(role, account) == account \in roles[role]

\* Mutant of SignVRF: v as crypto.Sign leaves it.
SignWithRecoveryId(signer, id, parity) ==
  [rs |-> <<signer, id, parity>>, v |-> parity]

\* A signature by signer over what belongs to id: r and s are told by the two,
\* parity is the recovery id that goes with them and v the last byte.
\* crypto.Sign leaves the recovery id there, to which signVRF adds 27.
SignVRF(signer, id, parity) ==
  [rs |-> <<signer, id, parity>>, v |-> parity + 27]

SplitSignature(signature) == <<signature.rs, signature.v>>

\* ecrecover gives an address for any v of 27 and 28, and it is the signer's
\* for the message that was signed and the v that goes with r and s.
RecoverSigner(id, signature) ==
  LET rs == SplitSignature(signature)[1]
      v  == SplitSignature(signature)[2]
  IN IF v \in {27, 28} /\ rs[2] = id /\ rs[3] = v - 27 THEN rs[1] ELSE Nobody

VerifyExecutorSignature(id, signature, signer) == RecoverSigner(id, signature) = signer

----------------------------------------------------------------------------
(* Events.  A query is answered from a part of the logs, ls: those of the   *)
(* blocks in its options.  Its iterator goes over them in their order; the  *)
(* answer here is the positions it stops at.                                *)

RoleEvent(name, role, account, sender) ==
  [name |-> name, role |-> role, account |-> account, sender |-> sender]

\* sender is that of the transaction the log belongs to.
RequestEvent(name, id, sender) == [name |-> name, requestId |-> id, sender |-> sender]

\* One rule of a query: no items let everything through.
Rule(items, value) == items = {} \/ value \in items

FilterRoleGranted(ls, role, account, sender) ==
  {i \in DOMAIN ls : /\ ls[i].name = "RoleGranted"
                     /\ Rule(role, ls[i].role)
                     /\ Rule(account, ls[i].account)
                     /\ Rule(sender, ls[i].sender)}

FilterRoleRevoked(ls, role, account, sender) ==
  {i \in DOMAIN ls : /\ ls[i].name = "RoleRevoked"
                     /\ Rule(role, ls[i].role)
                     /\ Rule(account, ls[i].account)
                     /\ Rule(sender, ls[i].sender)}

FilterRequestReceived(ls, requestId) ==
  {i \in DOMAIN ls : ls[i].name = "RequestReceived" /\ Rule(requestId, ls[i].requestId)}

FilterVRFExecuted(ls, requestId) ==
  {i \in DOMAIN ls : ls[i].name = "VRFExecuted" /\ Rule(requestId, ls[i].requestId)}

----------------------------------------------------------------------------
(* What a transaction needs in order not to revert, and what it does.       *)

\* Mutant of MayChange: holders of a role may hand it on.
HoldersMayChange(sender, role) == HasRole(GetRoleAdmin(role), sender) \/ HasRole(role, sender)

\* onlyRole of grantRole and revokeRole, and of addRelayer and addExecutor.
MayChange(sender, role) == HasRole(GetRoleAdmin(role), sender)

\* Mutant of MayExecute: no look at the sender's role.
AnyoneMayExecute(sender, id, signature) ==
  /\ requests[id] # "validated"
  /\ VerifyExecutorSignature(id, signature, sender)

\* The checks of executeVRF, for an answer with a valid proof.
MayExecute(sender, id, signature) ==
  /\ HasRole(EXECUTORROLE, sender)
  /\ requests[id] # "validated"
  /\ VerifyExecutorSignature(id, signature, sender)

Passes(sender, tx) ==
  \/ tx.method \in {"addExecutor", "addRelayer", "grantRole", "revokeRole"}
       /\ MayChange(sender, tx.role)
  \/ tx.method = "renounceRole" /\ tx.account = sender
  \/ tx.method = "executeVRF" /\ MayExecute(sender, tx.requestId, tx.signature)

\* _grantRole: an event only when the role is new to the account.
Grants(sender, role, account) ==
  /\ roles' = [roles EXCEPT ![role] = @ \cup {account}]
  /\ logs' = IF HasRole(role, account) THEN logs
             ELSE Append(logs, RoleEvent("RoleGranted", role, account, sender))
  /\ UNCHANGED requests

\* _revokeRole: an event only when the account had the role.
Revokes(sender, role, account) ==
  /\ roles' = [roles EXCEPT ![role] = @ \ {account}]
  /\ logs' = IF HasRole(role, account)
             THEN Append(logs, RoleEvent("RoleRevoked", role, account, sender))
             ELSE logs
  /\ UNCHANGED requests

\* executeVRF behind its checks; the dispatch is in VRFNetwork.
Executes(sender, id) ==
  /\ requests' = [requests EXCEPT ![id] = "validated"]
  /\ logs' = Append(logs, RequestEvent("VRFExecuted", id, sender))
  /\ UNCHANGED roles

Runs(sender, tx) ==
  \/ /\ tx.method \in {"addExecutor", "addRelayer", "grantRole"}
     /\ Grants(sender, tx.role, tx.account)
  \/ tx.method \in {"revokeRole", "renounceRole"} /\ Revokes(sender, tx.role, tx.account)
  \/ tx.method = "executeVRF" /\ Executes(sender, tx.requestId)

----------------------------------------------------------------------------
(* Transactions of the binding.  Without a gas limit in the options the     *)
(* transaction is estimated first, on the last block: one that would revert *)
(* there is not sent and the method returns an error.                       *)

Transact(sender, tx) ==
  /\ Passes(sender, tx)
  /\ pool' = [pool EXCEPT ![sender] = Append(@, tx)]
  /\ UNCHANGED <<roles, requests, logs>>

AddExecutor(sender, executor) ==
  Transact(sender, [method |-> "addExecutor", role |-> EXECUTORROLE, account |-> executor])

AddRelayer(sender, relayer) ==
  Transact(sender, [method |-> "addRelayer", role |-> RELAYERROLE, account |-> relayer])

GrantRole(sender, role, account) ==
  Transact(sender, [method |-> "grantRole", role |-> role, account |-> account])

RevokeRole(sender, role, account) ==
  Transact(sender, [method |-> "revokeRole", role |-> role, account |-> account])

RenounceRole(sender, role, callerConfirmation) ==
  Transact(sender, [method |-> "renounceRole", role |-> role, account |-> callerConfirmation])

ExecuteVRF(sender, id, signature) ==
  Transact(sender, [method |-> "executeVRF", requestId |-> id, signature |-> signature])

----------------------------------------------------------------------------

\* Just initialized; the event of a role says who sent initialize, the admin.
Init ==
  /\ roles = [role \in Roles |-> CASE role = DEFAULTADMINROLE -> {Admin}
                                   [] role = RELAYERROLE -> {Mailbox}
                                   [] role = EXECUTORROLE -> {}]
  /\ requests = [id \in Ids |-> "unset"]
  /\ logs = <<RoleEvent("RoleGranted", DEFAULTADMINROLE, Admin, Admin),
              RoleEvent("RoleGranted", RELAYERROLE, Mailbox, Admin)>>
  /\ pool = [sender \in Senders |-> <<>>]
  /\ answered = [answer \in Services \X Ids |-> "none"]
  /\ administered = 0

\* The mailbox hands over a request.
HandleCrossChainRequest(id) ==
  /\ HasRole(RELAYERROLE, Mailbox)
  /\ requests[id] = "unset"
  /\ requests' = [requests EXCEPT ![id] = "pending"]
  /\ logs' = Append(logs, RequestEvent("RequestReceived", id, Mailbox))
  /\ UNCHANGED <<roles, pool, answered, administered>>

\* An account changes roles, or gives one up.
Administer(sender) ==
  /\ administered < MaxAdministration
  /\ \/ \E account \in Services : AddExecutor(sender, account) \/ AddRelayer(sender, account)
     \/ \E role \in Roles, account \in Senders : GrantRole(sender, role, account)
     \/ \E role \in Roles, account \in Accounts : RevokeRole(sender, role, account)
     \/ \E role \in Roles : RenounceRole(sender, role, sender)
  /\ administered' = administered + 1
  /\ UNCHANGED answered

\* A service reads a request in the logs, if its listener is up and hands the
\* range over, and answers it once: the executor goes on with the next request
\* after any error, that of an estimate or of the node, which may have the
\* transaction all the same.
Answer(service, id) ==
  /\ FilterRequestReceived(logs, {id}) # {}
  /\ answered[<<service, id>>] = "none"
  /\ \E parity \in {0, 1}, outcome \in {"sent", "refused", "failed"} :
       LET signature == SignVRF(service, id, parity) IN
       /\ \/ outcome \in {"sent", "failed"} /\ ExecuteVRF(service, id, signature)
          \/ /\ outcome = "refused" => ~MayExecute(service, id, signature)
             /\ outcome \in {"refused", "failed"}
             /\ UNCHANGED <<roles, requests, logs, pool>>
       /\ answered' = [answered EXCEPT ![<<service, id>>] = outcome]
  /\ UNCHANGED administered

\* The next transaction of an account gets into a block; one that reverts is
\* in it too and changes nothing.
Include(sender) ==
  /\ pool[sender] # <<>>
  /\ pool' = [pool EXCEPT ![sender] = Tail(@)]
  /\ IF Passes(sender, Head(pool[sender]))
     THEN Runs(sender, Head(pool[sender]))
     ELSE UNCHANGED <<roles, requests, logs>>
  /\ UNCHANGED <<answered, administered>>

Next ==
  \/ \E id \in Ids : HandleCrossChainRequest(id)
  \/ \E sender \in Senders : Administer(sender) \/ Include(sender)
  \/ \E service \in Services, id \in Ids : Answer(service, id)

Spec == Init /\ [][Next]_vars

\* Blocks have room for every account; whether a service answers is open.
FairSpec ==
  /\ Spec
  /\ \A sender \in Senders : WF_vars(Include(sender))
----------------------------------------------------------------------------
(* Properties. *)

\* Whether the logs ls say that account has role.
HasRoleByLogs(ls, role, account) ==
  Cardinality(FilterRoleGranted(ls, {role}, {account}, {}))
    = Cardinality(FilterRoleRevoked(ls, {role}, {account}, {})) + 1

\* Every answer the contract took was sent by an account that, by the logs
\* before it, had EXECUTOR_ROLE when the transaction ran, whatever role it
\* had when it was sent; and no request was answered twice.
AnswersAreByExecutors ==
  /\ \A i \in DOMAIN logs : logs[i].name = "VRFExecuted" =>
       HasRoleByLogs(SubSeq(logs, 1, i - 1), EXECUTORROLE, logs[i].sender)
  /\ \A id \in Ids : Cardinality(FilterVRFExecuted(logs, {id})) <= 1

\* Once nobody has DEFAULT_ADMIN_ROLE no role gains a holder, through no
\* transaction that is still waiting either.
NoAdminNoGrant ==
  [][roles[DEFAULTADMINROLE] = {} => \A role \in Roles : roles'[role] \subseteq roles[role]]_vars

\* The service's answer was sent and is not in a block yet.
AnswerWaits(service, id) ==
  /\ answered[<<service, id>>] = "sent"
  /\ \E n \in DOMAIN pool[service] :
       pool[service][n].method = "executeVRF" /\ pool[service][n].requestId = id

\* What a service signs is what the contract recovers: an executor is refused
\* only what is validated already, and an answer it sent validates the request,
\* or finds it validated, unless the service loses the role meanwhile.
AnswersAreTaken ==
  /\ [][\A service \in Services, id \in Ids :
           answered'[<<service, id>>] = "refused" /\ HasRole(EXECUTORROLE, service)
             => answered[<<service, id>>] = "refused" \/ requests[id] = "validated"]_vars
  /\ \A service \in Services, id \in Ids :
       AnswerWaits(service, id) /\ HasRole(EXECUTORROLE, service)
         ~> requests[id] = "validated" \/ ~HasRole(EXECUTORROLE, service)
=============================================================================
