------------------------ MODULE VRFCoreBindingProofs -------------------------
(***************************************************************************)
(* The safety of VRFCoreBinding for any accounts, requests and             *)
(* transactions: the logs tell who has which role, so every answer in them *)
(* is by an account that, by the logs before it, was an executor.          *)
(***************************************************************************)
EXTENDS VRFCoreBinding, FiniteSetTheorems, TLAPS

----------------------------------------------------------------------------
(* The inductive invariant.                                                 *)

\* The logs, and the transactions an account can have waiting.
RoleEvents == [name : {"RoleGranted", "RoleRevoked"},
               role : Roles, account : Accounts, sender : Senders]
RequestEvents == [name : {"RequestReceived", "VRFExecuted"}, requestId : Ids, sender : Accounts]
Events == RoleEvents \cup RequestEvents

Administration ==
  [method : {"addExecutor", "addRelayer", "grantRole", "revokeRole", "renounceRole"},
   role : Roles, account : Accounts]
Answers ==
  [method : {"executeVRF"}, requestId : Ids,
   signature : [rs : Services \X Ids \X {0, 1}, v : {27, 28}]]
Transactions == Administration \cup Answers

\* How many events the queries stop at.
Granted(ls, role, account) == Cardinality(FilterRoleGranted(ls, {role}, {account}, {}))
Revoked(ls, role, account) == Cardinality(FilterRoleRevoked(ls, {role}, {account}, {}))
Executed(ls, id) == Cardinality(FilterVRFExecuted(ls, {id}))

OneIf(condition) == IF condition THEN 1 ELSE 0

\* The holders of a role are the accounts it was granted to once more than it
\* was revoked from: an event is logged only when something changes.
RolesAreLogged ==
  \A role \in Roles, account \in Accounts :
    Granted(logs, role, account) = Revoked(logs, role, account) + OneIf(HasRole(role, account))

\* A request is validated by the one transaction that logs it.
ValidatedOnce == \A id \in Ids : Executed(logs, id) = OneIf(requests[id] = "validated")

ByExecutors ==
  \A i \in DOMAIN logs : logs[i].name = "VRFExecuted" =>
    HasRoleByLogs(SubSeq(logs, 1, i - 1), EXECUTORROLE, logs[i].sender)

\* What the contract keeps right; the transactions that wait are no matter of it.
ContractOK ==
  /\ roles \in [Roles -> SUBSET Accounts]
  /\ requests \in [Ids -> {"unset", "pending", "validated"}]
  /\ logs \in Seq(Events)
  /\ RolesAreLogged /\ ValidatedOnce /\ ByExecutors

PoolOK == pool \in [Senders -> Seq(Transactions)]

IInv == ContractOK /\ PoolOK

----------------------------------------------------------------------------
(* Queries and a log that is appended.                                      *)

\* The log before the new one is all of it, and what is before an earlier one
\* stays what it was.
LEMMA AppendedLog ==
  ASSUME NEW ls \in Seq(Events), NEW e \in Events
  PROVE  /\ Append(ls, e) \in Seq(Events)
         /\ DOMAIN Append(ls, e) = DOMAIN ls \cup {Len(ls) + 1}
         /\ Append(ls, e)[Len(ls) + 1] = e
         /\ SubSeq(Append(ls, e), 1, Len(ls)) = ls
         /\ \A i \in DOMAIN ls : /\ Append(ls, e)[i] = ls[i]
                                 /\ SubSeq(Append(ls, e), 1, i - 1) = SubSeq(ls, 1, i - 1)
                                 /\ i <= Len(ls)
OBVIOUS

\* A query's answer is finite, and one position after the log makes it one more.
LEMMA OnePositionMore ==
  ASSUME NEW n \in Nat, NEW S \in SUBSET (1 .. n)
  PROVE  /\ Cardinality(S) \in Nat
         /\ Cardinality(S \cup {n + 1}) = Cardinality(S) + 1
PROOF
<1>1. IsFiniteSet(1 .. n)
  BY FS_Interval
<1>2. IsFiniteSet(S)
  BY <1>1, FS_Subset
<1>3. n + 1 \notin S
  OBVIOUS
<1> QED BY <1>2, <1>3, FS_CardinalityType, FS_AddElement

\* How one more event, which a query lets through or not, changes its count.
LEMMA CountOfMore ==
  ASSUME NEW n \in Nat, NEW S \in SUBSET (1 .. n), NEW T, NEW C,
         C => T = S \cup {n + 1}, ~C => T = S
  PROVE  Cardinality(S) \in Nat /\ Cardinality(T) = Cardinality(S) + OneIf(C)
PROOF
<1>1. Cardinality(S) \in Nat /\ Cardinality(S \cup {n + 1}) = Cardinality(S) + 1
  BY OnePositionMore
<1>2. CASE C
  BY <1>1, <1>2 DEF OneIf
<1>3. CASE ~C
  BY <1>1, <1>3 DEF OneIf
<1> QED BY <1>2, <1>3

LEMMA GrantedOfAppended ==
  ASSUME NEW ls \in Seq(Events), NEW e \in Events, NEW role, NEW account
  PROVE  /\ Granted(ls, role, account) \in Nat
         /\ Granted(Append(ls, e), role, account) =
              Granted(ls, role, account)
                + OneIf(e.name = "RoleGranted" /\ e.role = role /\ e.account = account)
PROOF
<1> DEFINE n == Len(ls)
           C == e.name = "RoleGranted" /\ e.role = role /\ e.account = account
           S == FilterRoleGranted(ls, {role}, {account}, {})
           T == FilterRoleGranted(Append(ls, e), {role}, {account}, {})
<1>1. n \in Nat /\ S \in SUBSET (1 .. n) /\ (C => T = S \cup {n + 1}) /\ (~C => T = S)
  BY AppendedLog DEF FilterRoleGranted, Rule
<1> HIDE DEF n, C, S, T
<1>2. Cardinality(S) \in Nat /\ Cardinality(T) = Cardinality(S) + OneIf(C)
  BY <1>1, CountOfMore
<1> QED BY <1>2 DEF Granted, C, S, T

LEMMA RevokedOfAppended ==
  ASSUME NEW ls \in Seq(Events), NEW e \in Events, NEW role, NEW account
  PROVE  /\ Revoked(ls, role, account) \in Nat
         /\ Revoked(Append(ls, e), role, account) =
              Revoked(ls, role, account)
                + OneIf(e.name = "RoleRevoked" /\ e.role = role /\ e.account = account)
PROOF
<1> DEFINE n == Len(ls)
           C == e.name = "RoleRevoked" /\ e.role = role /\ e.account = account
           S == FilterRoleRevoked(ls, {role}, {account}, {})
           T == FilterRoleRevoked(Append(ls, e), {role}, {account}, {})
<1>1. n \in Nat /\ S \in SUBSET (1 .. n) /\ (C => T = S \cup {n + 1}) /\ (~C => T = S)
  BY AppendedLog DEF FilterRoleRevoked, Rule
<1> HIDE DEF n, C, S, T
<1>2. Cardinality(S) \in Nat /\ Cardinality(T) = Cardinality(S) + OneIf(C)
  BY <1>1, CountOfMore
<1> QED BY <1>2 DEF Revoked, C, S, T

LEMMA ExecutedOfAppended ==
  ASSUME NEW ls \in Seq(Events), NEW e \in Events, NEW id
  PROVE  /\ Executed(ls, id) \in Nat
         /\ Executed(Append(ls, e), id) =
              Executed(ls, id) + OneIf(e.name = "VRFExecuted" /\ e.requestId = id)
PROOF
<1> DEFINE n == Len(ls)
           C == e.name = "VRFExecuted" /\ e.requestId = id
           S == FilterVRFExecuted(ls, {id})
           T == FilterVRFExecuted(Append(ls, e), {id})
<1>1. n \in Nat /\ S \in SUBSET (1 .. n) /\ (C => T = S \cup {n + 1}) /\ (~C => T = S)
  BY AppendedLog DEF FilterVRFExecuted, Rule
<1> HIDE DEF n, C, S, T
<1>2. Cardinality(S) \in Nat /\ Cardinality(T) = Cardinality(S) + OneIf(C)
  BY <1>1, CountOfMore
<1> QED BY <1>2 DEF Executed, C, S, T

----------------------------------------------------------------------------
(* One lemma for each kind of step.                                         *)

\* The initial logs, one after the other.
LEMMA InitIInv == Init => IInv
PROOF
<1> SUFFICES ASSUME Init PROVE IInv
  OBVIOUS
<1> DEFINE none == <<>>
           first == RoleEvent("RoleGranted", DEFAULTADMINROLE, Admin, Admin)
           second == RoleEvent("RoleGranted", RELAYERROLE, Mailbox, Admin)
           one == Append(none, first)
<1>1. Admin \in Senders /\ Admin \in Accounts /\ Mailbox \in Accounts
  BY DEF Senders, Accounts
<1>2. first \in Events /\ second \in Events
  BY <1>1 DEF RoleEvent, Events, RoleEvents, Roles
<1>3. none \in Seq(Events) /\ one \in Seq(Events) /\ logs = Append(one, second)
  <2> HIDE DEF first, second
  <2>1. logs = <<first, second>>
    BY DEF Init, first, second
  <2> QED BY <1>2, <2>1
<1>4. /\ roles \in [Roles -> SUBSET Accounts]
      /\ requests \in [Ids -> {"unset", "pending", "validated"}]
      /\ logs \in Seq(Events) /\ PoolOK
  <2>1. roles \in [Roles -> SUBSET Accounts]
    BY <1>1 DEF Init, Roles, DEFAULTADMINROLE, RELAYERROLE, EXECUTORROLE
  <2>2. logs \in Seq(Events)
    BY <1>2, <1>3
  <2>3. requests \in [Ids -> {"unset", "pending", "validated"}]
        /\ pool \in [Senders -> Seq(Transactions)]
    BY DEF Init
  <2> QED BY <2>1, <2>2, <2>3 DEF PoolOK
<1>5. /\ \A role, account : Granted(none, role, account) = 0 /\ Revoked(none, role, account) = 0
      /\ \A id : Executed(none, id) = 0
  <2>1. /\ \A role, account : /\ FilterRoleGranted(none, {role}, {account}, {}) = {}
                              /\ FilterRoleRevoked(none, {role}, {account}, {}) = {}
        /\ \A id : FilterVRFExecuted(none, {id}) = {}
    BY DEF FilterRoleGranted, FilterRoleRevoked, FilterVRFExecuted
  <2> QED BY <2>1, FS_EmptySet DEF Granted, Revoked, Executed
<1>6. /\ one = Append(none, first)
      /\ first.name = "RoleGranted" /\ second.name = "RoleGranted"
      /\ first.role = DEFAULTADMINROLE /\ first.account = Admin
      /\ second.role = RELAYERROLE /\ second.account = Mailbox
  BY DEF RoleEvent
<1> HIDE DEF none, one, first, second
<1>7. \A role \in Roles, account \in Accounts :
        Granted(logs, role, account) = Revoked(logs, role, account) + OneIf(HasRole(role, account))
  <2> SUFFICES ASSUME NEW role \in Roles, NEW account \in Accounts
               PROVE  Granted(logs, role, account) =
                        Revoked(logs, role, account) + OneIf(HasRole(role, account))
    OBVIOUS
  <2>1. /\ Granted(one, role, account) =
             0 + OneIf(first.name = "RoleGranted" /\ first.role = role /\ first.account = account)
        /\ Revoked(one, role, account) =
             0 + OneIf(first.name = "RoleRevoked" /\ first.role = role /\ first.account = account)
    BY <1>2, <1>3, <1>5, <1>6, GrantedOfAppended, RevokedOfAppended
  <2>2. /\ Granted(logs, role, account) = Granted(one, role, account) +
             OneIf(second.name = "RoleGranted" /\ second.role = role /\ second.account = account)
        /\ Revoked(logs, role, account) = Revoked(one, role, account) +
             OneIf(second.name = "RoleRevoked" /\ second.role = role /\ second.account = account)
    BY <1>2, <1>3, GrantedOfAppended, RevokedOfAppended
  <2>3. /\ Granted(logs, role, account) = OneIf(DEFAULTADMINROLE = role /\ Admin = account)
                                            + OneIf(RELAYERROLE = role /\ Mailbox = account)
        /\ Revoked(logs, role, account) = 0
    BY <1>6, <2>1, <2>2 DEF OneIf
  <2>4. HasRole(role, account) <=> \/ role = DEFAULTADMINROLE /\ account = Admin
                                   \/ role = RELAYERROLE /\ account = Mailbox
    BY DEF Init, HasRole, Roles, DEFAULTADMINROLE, RELAYERROLE, EXECUTORROLE
  <2> QED BY <2>3, <2>4 DEF OneIf, DEFAULTADMINROLE, RELAYERROLE
<1>8. \A id : Executed(logs, id) = 0
  <2> SUFFICES ASSUME NEW id PROVE Executed(logs, id) = 0
    OBVIOUS
  <2>1. Executed(one, id) = 0 + OneIf(first.name = "VRFExecuted" /\ first.requestId = id)
    BY <1>2, <1>3, <1>5, <1>6, ExecutedOfAppended
  <2>2. Executed(logs, id) = Executed(one, id)
                               + OneIf(second.name = "VRFExecuted" /\ second.requestId = id)
    BY <1>2, <1>3, ExecutedOfAppended
  <2> QED BY <1>6, <2>1, <2>2 DEF OneIf
<1>9. \A i \in DOMAIN logs : logs[i].name # "VRFExecuted"
  BY DEF Init, RoleEvent
<1> QED
  BY <1>4, <1>7, <1>8, <1>9
  DEF Init, IInv, ContractOK, RolesAreLogged, ValidatedOnce, ByExecutors, OneIf

\* ByExecutors when a log is added, when one of an answer is by an executor.
LEMMA ByExecutorsKept ==
  ASSUME ByExecutors, logs \in Seq(Events), NEW e \in Events, logs' = Append(logs, e),
         e.name = "VRFExecuted" => HasRoleByLogs(logs, EXECUTORROLE, e.sender)
  PROVE  ByExecutors'
PROOF
<1> SUFFICES ASSUME NEW i \in DOMAIN logs', logs'[i].name = "VRFExecuted"
             PROVE  HasRoleByLogs(SubSeq(logs', 1, i - 1), EXECUTORROLE, logs'[i].sender)
  BY DEF ByExecutors
<1>1. CASE i \in DOMAIN logs
  <2>1. logs'[i] = logs[i] /\ SubSeq(logs', 1, i - 1) = SubSeq(logs, 1, i - 1)
    BY <1>1, AppendedLog
  <2> QED BY <1>1, <2>1 DEF ByExecutors
<1>2. CASE i = Len(logs) + 1
  <2>1. i - 1 = Len(logs)
    BY <1>2
  <2>2. logs'[i] = e /\ SubSeq(logs', 1, i - 1) = logs
    BY <1>2, <2>1, AppendedLog
  <2> QED BY <2>2
<1> QED BY <1>1, <1>2, AppendedLog

\* A grant is logged when the account is new to the role.
LEMMA GrantsKeeps ==
  ASSUME ContractOK, NEW sender \in Senders, NEW role \in Roles, NEW account \in Accounts,
         Grants(sender, role, account)
  PROVE  ContractOK'
PROOF
<1> DEFINE e == RoleEvent("RoleGranted", role, account, sender)
<1>1. /\ roles' = [roles EXCEPT ![role] = @ \cup {account}]
      /\ logs' = IF HasRole(role, account) THEN logs ELSE Append(logs, e)
      /\ requests' = requests
  BY DEF Grants
<1>2. roles' \in [Roles -> SUBSET Accounts]
  BY <1>1 DEF ContractOK
<1>3. \A r \in Roles, a \in Accounts :
        HasRole(r, a)' <=> HasRole(r, a) \/ (r = role /\ a = account)
  BY <1>1 DEF ContractOK, HasRole
<1>4. CASE HasRole(role, account)
  <2>1. \A r \in Roles, a \in Accounts : HasRole(r, a)' <=> HasRole(r, a)
    BY <1>3, <1>4
  <2>2. logs' = logs
    BY <1>1, <1>4
  <2>3. RolesAreLogged'
    BY <2>1, <2>2 DEF ContractOK, RolesAreLogged, OneIf
  <2>4. ValidatedOnce' /\ ByExecutors'
    BY <1>1, <2>2 DEF ContractOK, ValidatedOnce, ByExecutors
  <2> QED BY <1>1, <1>2, <2>2, <2>3, <2>4 DEF ContractOK
<1>5. CASE ~HasRole(role, account)
  <2>1. e \in Events
    BY DEF RoleEvent, Events, RoleEvents
  <2>2. e.name = "RoleGranted" /\ e.role = role /\ e.account = account
    BY DEF RoleEvent
  <2>3. logs' = Append(logs, e) /\ logs \in Seq(Events)
    BY <1>1, <1>5 DEF ContractOK
  <2> HIDE DEF e
  <2>4. RolesAreLogged'
    <3> SUFFICES ASSUME NEW r \in Roles, NEW a \in Accounts
                 PROVE  Granted(logs', r, a) = Revoked(logs', r, a) + OneIf(HasRole(r, a)')
      BY DEF RolesAreLogged
    <3>1. /\ Granted(logs, r, a) \in Nat /\ Revoked(logs, r, a) \in Nat
          /\ Granted(logs', r, a) = Granted(logs, r, a) + OneIf(r = role /\ a = account)
          /\ Revoked(logs', r, a) = Revoked(logs, r, a)
      BY <2>1, <2>2, <2>3, GrantedOfAppended, RevokedOfAppended DEF OneIf
    <3>2. Granted(logs, r, a) = Revoked(logs, r, a) + OneIf(HasRole(r, a))
      BY DEF ContractOK, RolesAreLogged
    <3> QED BY <1>3, <1>5, <3>1, <3>2 DEF OneIf
  <2>5. ValidatedOnce'
    <3>1. \A id : Executed(logs, id) \in Nat /\ Executed(logs', id) = Executed(logs, id)
      BY <2>1, <2>2, <2>3, ExecutedOfAppended DEF OneIf
    <3> QED BY <1>1, <3>1 DEF ContractOK, ValidatedOnce
  <2>6. ByExecutors'
    BY <2>1, <2>2, <2>3, ByExecutorsKept DEF ContractOK
  <2>7. logs' \in Seq(Events)
    BY <2>1, <2>3
  <2> QED BY <1>1, <1>2, <2>4, <2>5, <2>6, <2>7 DEF ContractOK
<1> QED BY <1>4, <1>5

\* A revocation is logged when the account had the role.
LEMMA RevokesKeeps ==
  ASSUME ContractOK, NEW sender \in Senders, NEW role \in Roles, NEW account \in Accounts,
         Revokes(sender, role, account)
  PROVE  ContractOK'
PROOF
<1> DEFINE e == RoleEvent("RoleRevoked", role, account, sender)
<1>1. /\ roles' = [roles EXCEPT ![role] = @ \ {account}]
      /\ logs' = IF HasRole(role, account) THEN Append(logs, e) ELSE logs
      /\ requests' = requests
  BY DEF Revokes
<1>2. roles' \in [Roles -> SUBSET Accounts]
  BY <1>1 DEF ContractOK
<1>3. \A r \in Roles, a \in Accounts :
        HasRole(r, a)' <=> HasRole(r, a) /\ ~(r = role /\ a = account)
  BY <1>1 DEF ContractOK, HasRole
<1>4. CASE ~HasRole(role, account)
  <2>1. \A r \in Roles, a \in Accounts : HasRole(r, a)' <=> HasRole(r, a)
    BY <1>3, <1>4
  <2>2. logs' = logs
    BY <1>1, <1>4
  <2>3. RolesAreLogged'
    BY <2>1, <2>2 DEF ContractOK, RolesAreLogged, OneIf
  <2>4. ValidatedOnce' /\ ByExecutors'
    BY <1>1, <2>2 DEF ContractOK, ValidatedOnce, ByExecutors
  <2> QED BY <1>1, <1>2, <2>2, <2>3, <2>4 DEF ContractOK
<1>5. CASE HasRole(role, account)
  <2>1. e \in Events
    BY DEF RoleEvent, Events, RoleEvents
  <2>2. e.name = "RoleRevoked" /\ e.role = role /\ e.account = account
    BY DEF RoleEvent
  <2>3. logs' = Append(logs, e) /\ logs \in Seq(Events)
    BY <1>1, <1>5 DEF ContractOK
  <2> HIDE DEF e
  <2>4. RolesAreLogged'
    <3> SUFFICES ASSUME NEW r \in Roles, NEW a \in Accounts
                 PROVE  Granted(logs', r, a) = Revoked(logs', r, a) + OneIf(HasRole(r, a)')
      BY DEF RolesAreLogged
    <3>1. /\ Granted(logs, r, a) \in Nat /\ Revoked(logs, r, a) \in Nat
          /\ Revoked(logs', r, a) = Revoked(logs, r, a) + OneIf(r = role /\ a = account)
          /\ Granted(logs', r, a) = Granted(logs, r, a)
      BY <2>1, <2>2, <2>3, GrantedOfAppended, RevokedOfAppended DEF OneIf
    <3>2. Granted(logs, r, a) = Revoked(logs, r, a) + OneIf(HasRole(r, a))
      BY DEF ContractOK, RolesAreLogged
    <3> QED BY <1>3, <1>5, <3>1, <3>2 DEF OneIf
  <2>5. ValidatedOnce'
    <3>1. \A id : Executed(logs, id) \in Nat /\ Executed(logs', id) = Executed(logs, id)
      BY <2>1, <2>2, <2>3, ExecutedOfAppended DEF OneIf
    <3> QED BY <1>1, <3>1 DEF ContractOK, ValidatedOnce
  <2>6. ByExecutors'
    BY <2>1, <2>2, <2>3, ByExecutorsKept DEF ContractOK
  <2>7. logs' \in Seq(Events)
    BY <2>1, <2>3
  <2> QED BY <1>1, <1>2, <2>4, <2>5, <2>6, <2>7 DEF ContractOK
<1> QED BY <1>4, <1>5

\* An event of a request leaves the roles as they are logged.
LEMMA RequestEventKeepsRoles ==
  ASSUME ContractOK, NEW e \in RequestEvents, logs' = Append(logs, e), roles' = roles
  PROVE  RolesAreLogged'
PROOF
<1>1. e \in Events /\ logs \in Seq(Events) /\ e.name # "RoleGranted" /\ e.name # "RoleRevoked"
  BY DEF Events, RequestEvents, ContractOK
<1> SUFFICES ASSUME NEW r \in Roles, NEW a \in Accounts
             PROVE  Granted(logs', r, a) = Revoked(logs', r, a) + OneIf(HasRole(r, a)')
  BY DEF RolesAreLogged
<1>2. /\ Granted(logs', r, a) = Granted(logs, r, a) /\ Revoked(logs', r, a) = Revoked(logs, r, a)
  BY <1>1, GrantedOfAppended, RevokedOfAppended DEF OneIf
<1>3. HasRole(r, a)' <=> HasRole(r, a)
  BY DEF HasRole
<1> QED BY <1>2, <1>3 DEF ContractOK, RolesAreLogged, OneIf

\* The first answer of a request, by an account that has the role.
LEMMA ExecutesKeeps ==
  ASSUME ContractOK, NEW sender \in Senders, NEW id \in Ids, Executes(sender, id),
         HasRole(EXECUTORROLE, sender), requests[id] # "validated"
  PROVE  ContractOK'
PROOF
<1> DEFINE e == RequestEvent("VRFExecuted", id, sender)
<1>1. e \in RequestEvents /\ e \in Events
      /\ e.name = "VRFExecuted" /\ e.requestId = id /\ e.sender = sender
  BY DEF RequestEvent, Events, RequestEvents, Accounts
<1>2. /\ logs' = Append(logs, e) /\ logs \in Seq(Events)
      /\ requests' = [requests EXCEPT ![id] = "validated"] /\ roles' = roles
  BY DEF Executes, ContractOK
<1> HIDE DEF e
<1>3. RolesAreLogged'
  BY <1>1, <1>2, RequestEventKeepsRoles
<1>4. ValidatedOnce'
  <2> SUFFICES ASSUME NEW r \in Ids
               PROVE  Executed(logs', r) = OneIf(requests'[r] = "validated")
    BY DEF ValidatedOnce
  <2>1. Executed(logs, r) \in Nat /\ Executed(logs', r) = Executed(logs, r) + OneIf(r = id)
    BY <1>1, <1>2, ExecutedOfAppended DEF OneIf
  <2>2. Executed(logs, r) = OneIf(requests[r] = "validated")
    BY DEF ContractOK, ValidatedOnce
  <2>3. requests'[r] = IF r = id THEN "validated" ELSE requests[r]
    BY <1>2 DEF ContractOK
  <2> QED BY <2>1, <2>2, <2>3 DEF OneIf
<1>5. ByExecutors'
  <2>1. EXECUTORROLE \in Roles /\ sender \in Accounts
    BY DEF Roles, Accounts
  <2>2. Granted(logs, EXECUTORROLE, sender) = Revoked(logs, EXECUTORROLE, sender) + 1
    BY <2>1 DEF ContractOK, RolesAreLogged, OneIf
  <2>3. HasRoleByLogs(logs, EXECUTORROLE, e.sender)
    BY <1>1, <2>2 DEF HasRoleByLogs, Granted, Revoked
  <2> QED BY <1>1, <1>2, <2>3, ByExecutorsKept DEF ContractOK
<1>6. /\ roles' \in [Roles -> SUBSET Accounts]
      /\ requests' \in [Ids -> {"unset", "pending", "validated"}]
      /\ logs' \in Seq(Events)
  BY <1>1, <1>2 DEF ContractOK
<1> QED BY <1>3, <1>4, <1>5, <1>6 DEF ContractOK

\* A request is new: no answer of it is in the logs, and none is added.
LEMMA RequestKeeps ==
  ASSUME ContractOK, NEW id \in Ids, HandleCrossChainRequest(id)
  PROVE  ContractOK'
PROOF
<1> DEFINE e == RequestEvent("RequestReceived", id, Mailbox)
<1>1. e \in RequestEvents /\ e \in Events /\ e.name = "RequestReceived"
  BY DEF RequestEvent, Events, RequestEvents, Accounts
<1>2. /\ logs' = Append(logs, e) /\ logs \in Seq(Events) /\ roles' = roles
      /\ requests[id] = "unset" /\ requests' = [requests EXCEPT ![id] = "pending"]
  BY DEF HandleCrossChainRequest, ContractOK
<1> HIDE DEF e
<1>3. RolesAreLogged'
  BY <1>1, <1>2, RequestEventKeepsRoles
<1>4. ValidatedOnce'
  <2> SUFFICES ASSUME NEW r \in Ids
               PROVE  Executed(logs', r) = OneIf(requests'[r] = "validated")
    BY DEF ValidatedOnce
  <2>1. Executed(logs, r) \in Nat /\ Executed(logs', r) = Executed(logs, r)
    BY <1>1, <1>2, ExecutedOfAppended DEF OneIf
  <2>2. Executed(logs, r) = OneIf(requests[r] = "validated")
    BY DEF ContractOK, ValidatedOnce
  <2>3. requests'[r] = "validated" <=> requests[r] = "validated"
    BY <1>2 DEF ContractOK
  <2> QED BY <2>1, <2>2, <2>3 DEF OneIf
<1>5. ByExecutors'
  BY <1>1, <1>2, ByExecutorsKept DEF ContractOK
<1>6. /\ roles' \in [Roles -> SUBSET Accounts]
      /\ requests' \in [Ids -> {"unset", "pending", "validated"}]
      /\ logs' \in Seq(Events)
  BY <1>1, <1>2 DEF ContractOK
<1> QED BY <1>3, <1>4, <1>5, <1>6 DEF ContractOK

\* What reads the contract only.
LEMMA ContractUntouched == ContractOK /\ UNCHANGED <<roles, requests, logs>> => ContractOK'
BY DEF ContractOK, RolesAreLogged, ValidatedOnce, ByExecutors, HasRole

\* A transaction that is sent waits behind the sender's others.
LEMMA TransactKeeps ==
  ASSUME IInv, NEW sender \in Senders, NEW tx \in Transactions, Transact(sender, tx)
  PROVE  IInv'
PROOF
<1>1. pool' = [pool EXCEPT ![sender] = Append(@, tx)] /\ UNCHANGED <<roles, requests, logs>>
  BY DEF Transact
<1>2. pool' \in [Senders -> Seq(Transactions)]
  BY <1>1 DEF IInv, PoolOK
<1> QED BY <1>1, <1>2, ContractUntouched DEF IInv, PoolOK

LEMMA AdministerSends ==
  ASSUME NEW sender \in Senders, Administer(sender)
  PROVE  \E tx \in Administration : Transact(sender, tx)
PROOF
<1>1. sender \in Accounts /\ Services \subseteq Accounts /\ Senders \subseteq Accounts
  BY DEF Senders, Accounts
<1>2. ASSUME NEW method \in {"addExecutor", "addRelayer", "grantRole", "revokeRole",
                             "renounceRole"},
             NEW role \in Roles, NEW account \in Accounts
      PROVE  [method |-> method, role |-> role, account |-> account] \in Administration
  BY DEF Administration
<1>3. EXECUTORROLE \in Roles /\ RELAYERROLE \in Roles
  BY DEF Roles
<1>4. CASE \E account \in Services : AddExecutor(sender, account) \/ AddRelayer(sender, account)
  BY <1>1, <1>2, <1>3, <1>4 DEF AddExecutor, AddRelayer
<1>5. CASE \E role \in Roles, account \in Senders : GrantRole(sender, role, account)
  BY <1>1, <1>2, <1>5 DEF GrantRole
<1>6. CASE \E role \in Roles, account \in Accounts : RevokeRole(sender, role, account)
  BY <1>2, <1>6 DEF RevokeRole
<1>7. CASE \E role \in Roles : RenounceRole(sender, role, sender)
  BY <1>1, <1>2, <1>7 DEF RenounceRole
<1> QED BY <1>4, <1>5, <1>6, <1>7 DEF Administer

\* An answer that is not sent leaves everything as it was.
LEMMA AnswerSends ==
  ASSUME NEW service \in Services, NEW id \in Ids, Answer(service, id)
  PROVE  \/ UNCHANGED <<roles, requests, logs, pool>>
         \/ \E tx \in Answers : tx.requestId = id /\ Transact(service, tx)
PROOF
<1>1. PICK parity \in {0, 1} :
        \/ ExecuteVRF(service, id, SignVRF(service, id, parity))
        \/ UNCHANGED <<roles, requests, logs, pool>>
  BY DEF Answer
<1>2. CASE ExecuteVRF(service, id, SignVRF(service, id, parity))
  <2> DEFINE tx == [method |-> "executeVRF", requestId |-> id,
                    signature |-> SignVRF(service, id, parity)]
  <2>1. parity + 27 \in {27, 28}
    OBVIOUS
  <2>2. tx \in Answers /\ tx.requestId = id
    BY <2>1 DEF SignVRF, Answers
  <2>3. Transact(service, tx)
    BY <1>2 DEF ExecuteVRF
  <2> QED BY <2>2, <2>3
<1> QED BY <1>1, <1>2

LEMMA SendingKeeps ==
  ASSUME IInv, \/ \E sender \in Senders : Administer(sender)
               \/ \E service \in Services, id \in Ids : Answer(service, id)
  PROVE  IInv'
PROOF
<1>1. Services \subseteq Senders
  BY DEF Senders
<1>2. CASE UNCHANGED <<roles, requests, logs, pool>>
  BY <1>2, ContractUntouched DEF IInv, PoolOK
<1>3. CASE \E sender \in Senders, tx \in Transactions : Transact(sender, tx)
  BY <1>3, TransactKeeps
<1> QED BY <1>1, <1>2, <1>3, AdministerSends, AnswerSends DEF Transactions

\* One that gets into a block does what its method does, if it may.
LEMMA IncludeKeeps == ASSUME IInv, NEW sender \in Senders, Include(sender) PROVE IInv'
PROOF
<1> DEFINE tx == Head(pool[sender])
<1>1. /\ pool[sender] # <<>>
      /\ pool' = [pool EXCEPT ![sender] = Tail(@)]
      /\ IF Passes(sender, tx) THEN Runs(sender, tx) ELSE UNCHANGED <<roles, requests, logs>>
  BY DEF Include
<1>2. pool[sender] \in Seq(Transactions)
  BY DEF IInv, PoolOK
<1>3. tx \in Transactions /\ pool' \in [Senders -> Seq(Transactions)]
  <2> HIDE DEF tx
  <2>1. Tail(pool[sender]) \in Seq(Transactions)
    BY <1>1, <1>2
  <2>2. pool' \in [Senders -> Seq(Transactions)]
    BY <1>1, <2>1 DEF IInv, PoolOK
  <2>3. Head(pool[sender]) \in Transactions
    BY <1>1, <1>2
  <2> QED BY <2>2, <2>3 DEF tx
<1> HIDE DEF tx
<1>4. ContractOK'
  <2> USE DEF IInv
  <2>1. CASE ~Passes(sender, tx)
    BY <1>1, <2>1, ContractUntouched
  <2>2. CASE Passes(sender, tx) /\ tx \in Administration
    <3>1. tx.role \in Roles /\ tx.account \in Accounts /\ tx.method # "executeVRF"
      BY <2>2 DEF Administration
    <3>2. Grants(sender, tx.role, tx.account) \/ Revokes(sender, tx.role, tx.account)
      BY <1>1, <2>2, <3>1 DEF Runs
    <3> QED BY <3>1, <3>2, GrantsKeeps, RevokesKeeps
  <2>3. CASE Passes(sender, tx) /\ tx \in Answers
    <3>1. tx.requestId \in Ids /\ tx.method = "executeVRF"
      BY <2>3 DEF Answers
    <3>2. HasRole(EXECUTORROLE, sender) /\ requests[tx.requestId] # "validated"
      BY <2>3, <3>1 DEF Passes, MayExecute
    <3>3. Executes(sender, tx.requestId)
      BY <1>1, <2>3, <3>1 DEF Runs
    <3> QED BY <3>1, <3>2, <3>3, ExecutesKeeps
  <2> QED BY <1>3, <2>1, <2>2, <2>3 DEF Transactions
<1> QED BY <1>3, <1>4 DEF IInv, PoolOK

----------------------------------------------------------------------------
(* The theorems.                                                            *)

\* Whatever is sent, estimated and included in whatever order, the logs and the
\* state of the core agree.
THEOREM Inductive == Spec => []IInv
PROOF
<1>1. ASSUME IInv, [Next]_vars PROVE IInv'
  <2>1. ASSUME NEW id \in Ids, HandleCrossChainRequest(id) PROVE IInv'
    <3>1. pool' = pool
      BY <2>1 DEF HandleCrossChainRequest
    <3> QED BY <1>1, <2>1, <3>1, RequestKeeps DEF IInv, PoolOK
  <2>2. ASSUME NEW sender \in Senders, Include(sender) PROVE IInv'
    BY <1>1, <2>2, IncludeKeeps
  <2>3. ASSUME \/ \E sender \in Senders : Administer(sender)
               \/ \E service \in Services, id \in Ids : Answer(service, id)
        PROVE  IInv'
    BY <1>1, <2>3, SendingKeeps
  <2>4. CASE UNCHANGED vars
    <3>1. UNCHANGED <<roles, requests, logs>> /\ pool' = pool
      BY <2>4 DEF vars
    <3> QED BY <1>1, <3>1, ContractUntouched DEF IInv, PoolOK
  <2> QED BY <1>1, <2>1, <2>2, <2>3, <2>4 DEF Next
<1> QED BY <1>1, InitIInv, PTL DEF Spec

\* Every answer the core took is by an account that, by the logs before it, was
\* an executor when the transaction ran, and no request was answered twice.
THEOREM AnsweredByExecutors == Spec => []AnswersAreByExecutors
PROOF
<1>1. IInv => AnswersAreByExecutors
  <2> SUFFICES ASSUME IInv PROVE AnswersAreByExecutors
    OBVIOUS
  <2>1. \A id \in Ids : Executed(logs, id) <= 1
    BY DEF IInv, ContractOK, ValidatedOnce, OneIf
  <2> QED BY <2>1 DEF IInv, ContractOK, ByExecutors, AnswersAreByExecutors, Executed
<1> QED BY <1>1, Inductive, PTL

\* What a query for the events of a role tells of an account is what the core
\* itself says: to the binding's users the logs are as good as hasRole.
RolesByLogs ==
  \A role \in Roles, account \in Accounts :
    HasRoleByLogs(logs, role, account) <=> HasRole(role, account)

THEOREM LogsTellRoles == Spec => []RolesByLogs
PROOF
<1>1. IInv => RolesByLogs
  <2> SUFFICES ASSUME IInv, NEW role \in Roles, NEW account \in Accounts
               PROVE  HasRoleByLogs(logs, role, account) <=> HasRole(role, account)
    BY DEF RolesByLogs
  <2>1. Granted(logs, role, account) = Revoked(logs, role, account) + OneIf(HasRole(role, account))
    BY DEF IInv, ContractOK, RolesAreLogged
  <2>2. Revoked(logs, role, account) \in Nat
    <3>1. [name |-> "RoleRevoked", role |-> role, account |-> account, sender |-> Admin] \in Events
      BY DEF Events, RoleEvents, Senders
    <3> QED BY <3>1, RevokedOfAppended DEF IInv, ContractOK
  <2> QED BY <2>1, <2>2 DEF HasRoleByLogs, Granted, Revoked, OneIf
<1> QED BY <1>1, Inductive, PTL

\* Without an account that has DEFAULT_ADMIN_ROLE no step gives anyone a role,
\* and none ever will: the transactions that wait are checked when they run.
THEOREM NoGrantWithoutAdmin == Spec => NoAdminNoGrant
PROOF
<1>1. ASSUME IInv, [Next]_vars, roles[DEFAULTADMINROLE] = {}, NEW role \in Roles
      PROVE  roles'[role] \subseteq roles[role]
  <2>1. CASE UNCHANGED roles
    BY <2>1
  <2>2. ASSUME NEW sender \in Senders, Include(sender), roles' # roles
        PROVE  roles'[role] \subseteq roles[role]
    <3> DEFINE tx == Head(pool[sender])
    <3>1. Passes(sender, tx) /\ Runs(sender, tx)
      BY <2>2 DEF Include
    <3> HIDE DEF tx
    <3>2. ~MayChange(sender, tx.role)
      BY <1>1 DEF MayChange, HasRole, GetRoleAdmin
    <3>3. Revokes(sender, tx.role, tx.account) \/ Executes(sender, tx.requestId)
      BY <3>1, <3>2 DEF Passes, Runs
    <3> QED BY <1>1, <2>2, <3>3 DEF Revokes, Executes, IInv, ContractOK
  <2>3. ASSUME NEW sender \in Senders, Administer(sender) PROVE UNCHANGED roles
    BY <2>3 DEF Administer, AddExecutor, AddRelayer, GrantRole, RevokeRole, RenounceRole, Transact
  <2>4. ASSUME NEW service \in Services, NEW id \in Ids, Answer(service, id) PROVE UNCHANGED roles
    BY <2>4 DEF Answer, ExecuteVRF, Transact
  <2>5. ASSUME NEW id \in Ids, HandleCrossChainRequest(id) PROVE UNCHANGED roles
    BY <2>5 DEF HandleCrossChainRequest
  <2>6. CASE UNCHANGED vars
    BY <2>1, <2>6 DEF vars
  <2> QED BY <1>1, <2>1, <2>2, <2>3, <2>4, <2>5, <2>6 DEF Next
<1>2. IInv /\ [Next]_vars =>
        [roles[DEFAULTADMINROLE] = {} => \A role \in Roles : roles'[role] \subseteq roles[role]]_vars
  BY <1>1
<1> QED BY <1>2, Inductive, PTL DEF Spec, NoAdminNoGrant

----------------------------------------------------------------------------
(* The core the other models have too.                                      *)

Received == {id \in Ids : requests[id] # "unset"}
Validated == {id \in Ids : requests[id] = "validated"}

Core == INSTANCE CoreRequests WITH received <- Received, validated <- Validated

\* The contract the binding's clients call is a core.
ImplementsCore == Core!Spec

\* The contract itself does not ask whether a request was received: executeVRF is
\* sent for none that was not, because services answer what is in the logs.
LoggedAreReceived ==
  \A i \in DOMAIN logs : logs[i].name = "RequestReceived" => logs[i].requestId \in Received

WaitingAreReceived ==
  \A sender \in Senders : \A i \in DOMAIN pool[sender] :
    pool[sender][i].method = "executeVRF" => pool[sender][i].requestId \in Received

\* A log of a request that is received, or of none, is added.
LEMMA LoggedStayReceived ==
  ASSUME LoggedAreReceived, logs \in Seq(Events), Received \subseteq Received',
         NEW e \in Events, e.name = "RequestReceived" => e.requestId \in Received',
         logs' \in {logs, Append(logs, e)}
  PROVE  LoggedAreReceived'
PROOF
<1>1. CASE logs' = logs
  BY <1>1 DEF LoggedAreReceived
<1>2. CASE logs' = Append(logs, e)
  BY <1>2, AppendedLog DEF LoggedAreReceived
<1> QED BY <1>1, <1>2

\* Of the transactions of an account one more waits, or one fewer.
LEMMA MoreWaiting ==
  ASSUME WaitingAreReceived, PoolOK, Received \subseteq Received',
         NEW sender \in Senders, NEW tx \in Transactions,
         pool' = [pool EXCEPT ![sender] = Append(@, tx)],
         tx.method = "executeVRF" => tx.requestId \in Received
  PROVE  WaitingAreReceived'
PROOF
<1> SUFFICES ASSUME NEW s \in Senders, NEW i \in DOMAIN pool'[s],
                    pool'[s][i].method = "executeVRF"
             PROVE  pool'[s][i].requestId \in Received
  BY DEF WaitingAreReceived
<1>1. pool[s] \in Seq(Transactions)
  BY DEF PoolOK
<1>2. CASE s = sender
  <2>1. pool'[s] = Append(pool[s], tx)
    BY <1>2 DEF PoolOK
  <2>2. CASE i = Len(pool[s]) + 1
    <3>1. pool'[s][i] = tx
      BY <1>1, <2>1, <2>2
    <3> QED BY <3>1
  <2>3. CASE i \in DOMAIN pool[s]
    <3>1. pool'[s][i] = pool[s][i]
      BY <1>1, <2>1, <2>3
    <3> QED BY <2>3, <3>1 DEF WaitingAreReceived
  <2> QED BY <1>1, <2>1, <2>2, <2>3
<1>3. CASE s # sender
  <2>1. pool'[s] = pool[s]
    BY <1>3 DEF PoolOK
  <2> QED BY <2>1 DEF WaitingAreReceived
<1> QED BY <1>2, <1>3

LEMMA FewerWaiting ==
  ASSUME WaitingAreReceived, PoolOK, Received \subseteq Received',
         NEW sender \in Senders, pool[sender] # <<>>,
         pool' = [pool EXCEPT ![sender] = Tail(@)]
  PROVE  WaitingAreReceived'
PROOF
<1> SUFFICES ASSUME NEW s \in Senders, NEW i \in DOMAIN pool'[s],
                    pool'[s][i].method = "executeVRF"
             PROVE  pool'[s][i].requestId \in Received
  BY DEF WaitingAreReceived
<1>1. pool[s] \in Seq(Transactions)
  BY DEF PoolOK
<1>2. CASE s = sender
  <2>1. pool'[s] = Tail(pool[s])
    BY <1>2 DEF PoolOK
  <2>2. ASSUME NEW q \in Seq(Transactions), q # <<>>, NEW j \in DOMAIN Tail(q)
        PROVE  j + 1 \in DOMAIN q /\ Tail(q)[j] = q[j + 1]
    OBVIOUS
  <2>3. i + 1 \in DOMAIN pool[s] /\ pool'[s][i] = pool[s][i + 1]
    BY <1>1, <1>2, <2>1, <2>2
  <2> QED BY <2>3 DEF WaitingAreReceived
<1>3. CASE s # sender
  <2>1. pool'[s] = pool[s]
    BY <1>3 DEF PoolOK
  <2> QED BY <2>1 DEF WaitingAreReceived
<1> QED BY <1>2, <1>3

ReceivedOK == LoggedAreReceived /\ WaitingAreReceived

\* Steps in which nothing happens to the requests.
LEMMA ReceivedUnchanged ==
  UNCHANGED requests => Received' = Received /\ UNCHANGED Core!coreVars
BY DEF Received, Validated, Core!coreVars

\* A transaction that is sent is of a request in the logs, if it is of any.
LEMMA TransactKeepsReceived ==
  ASSUME IInv, ReceivedOK, NEW sender \in Senders, NEW tx \in Transactions,
         Transact(sender, tx), tx.method = "executeVRF" => tx.requestId \in Received
  PROVE  ReceivedOK' /\ UNCHANGED Core!coreVars
PROOF
<1>1. pool' = [pool EXCEPT ![sender] = Append(@, tx)] /\ UNCHANGED <<requests, logs>>
  BY DEF Transact
<1>2. Received' = Received /\ UNCHANGED Core!coreVars
  BY <1>1, ReceivedUnchanged
<1>3. LoggedAreReceived'
  BY <1>1, <1>2 DEF ReceivedOK, LoggedAreReceived
<1>4. WaitingAreReceived'
  BY <1>1, <1>2, MoreWaiting DEF ReceivedOK, IInv
<1> QED BY <1>2, <1>3, <1>4 DEF ReceivedOK

LEMMA AdministerKeepsReceived ==
  ASSUME IInv, ReceivedOK, NEW sender \in Senders, Administer(sender)
  PROVE  ReceivedOK' /\ UNCHANGED Core!coreVars
PROOF
<1>1. PICK tx \in Administration : Transact(sender, tx)
  BY AdministerSends
<1>2. tx \in Transactions /\ tx.method # "executeVRF"
  BY DEF Transactions, Administration
<1> QED BY <1>1, <1>2, TransactKeepsReceived

LEMMA AnswerKeepsReceived ==
  ASSUME IInv, ReceivedOK, NEW service \in Services, NEW id \in Ids, Answer(service, id)
  PROVE  ReceivedOK' /\ UNCHANGED Core!coreVars
PROOF
<1>1. id \in Received
  BY DEF Answer, FilterRequestReceived, Rule, ReceivedOK, LoggedAreReceived
<1>2. CASE UNCHANGED <<roles, requests, logs, pool>>
  BY <1>2, ReceivedUnchanged DEF ReceivedOK, LoggedAreReceived, WaitingAreReceived
<1>3. CASE \E tx \in Answers : tx.requestId = id /\ Transact(service, tx)
  <2>1. service \in Senders /\ Answers \subseteq Transactions
    BY DEF Senders, Transactions
  <2> QED BY <1>1, <1>3, <2>1, TransactKeepsReceived
<1> QED BY <1>2, <1>3, AnswerSends

LEMMA RequestIsReceived ==
  ASSUME IInv, ReceivedOK, NEW id \in Ids, HandleCrossChainRequest(id)
  PROVE  ReceivedOK' /\ Core!Receive(id)
PROOF
<1> DEFINE e == RequestEvent("RequestReceived", id, Mailbox)
<1>1. e \in Events /\ e.requestId = id
  BY DEF RequestEvent, Events, RequestEvents, Accounts
<1>2. /\ requests[id] = "unset" /\ requests' = [requests EXCEPT ![id] = "pending"]
      /\ logs' = Append(logs, e) /\ pool' = pool
  BY DEF HandleCrossChainRequest
<1>3. id \notin Received /\ Received' = Received \cup {id} /\ Validated' = Validated
  BY <1>2 DEF Received, Validated, IInv, ContractOK
<1> HIDE DEF e
<1>4. LoggedAreReceived'
  BY <1>1, <1>2, <1>3, LoggedStayReceived DEF ReceivedOK, IInv, ContractOK
<1>5. WaitingAreReceived'
  BY <1>2, <1>3 DEF ReceivedOK, WaitingAreReceived
<1> QED BY <1>3, <1>4, <1>5 DEF ReceivedOK, Core!Receive

\* What gets into a block validates a request that is received, or none.
LEMMA IncludeValidates ==
  ASSUME IInv, ReceivedOK, NEW sender \in Senders, Include(sender)
  PROVE  ReceivedOK' /\ [Core!Next]_(Core!coreVars)
PROOF
<1> DEFINE tx == Head(pool[sender])
<1>1. /\ pool[sender] # <<>>
      /\ pool' = [pool EXCEPT ![sender] = Tail(@)]
      /\ IF Passes(sender, tx) THEN Runs(sender, tx) ELSE UNCHANGED <<roles, requests, logs>>
  BY DEF Include
<1>2. tx \in Transactions /\ (tx.method = "executeVRF" => tx.requestId \in Received)
  <2>1. pool[sender] \in Seq(Transactions)
    BY DEF IInv, PoolOK
  <2>2. 1 \in DOMAIN pool[sender] /\ tx = pool[sender][1]
    BY <1>1, <2>1
  <2> QED BY <2>1, <2>2 DEF ReceivedOK, WaitingAreReceived
<1> HIDE DEF tx
<1>3. ASSUME Received \subseteq Received' PROVE WaitingAreReceived'
  BY <1>1, <1>3, FewerWaiting DEF ReceivedOK, IInv
<1>4. CASE UNCHANGED <<requests, logs>>
  <2>1. Received' = Received /\ UNCHANGED Core!coreVars
    BY <1>4, ReceivedUnchanged
  <2> QED BY <1>3, <1>4, <2>1 DEF ReceivedOK, LoggedAreReceived
<1>5. CASE \E e \in RoleEvents : logs' = Append(logs, e) /\ UNCHANGED requests
  <2>1. Received' = Received /\ UNCHANGED Core!coreVars
    BY <1>5, ReceivedUnchanged
  <2>2. PICK e \in RoleEvents : logs' = Append(logs, e)
    BY <1>5
  <2>3. e \in Events /\ e.name # "RequestReceived"
    BY DEF Events, RoleEvents
  <2>4. LoggedAreReceived'
    BY <2>1, <2>2, <2>3, LoggedStayReceived DEF ReceivedOK, IInv, ContractOK
  <2> QED BY <1>3, <2>1, <2>4 DEF ReceivedOK
<1>6. CASE tx \in Answers /\ Passes(sender, tx) /\ Executes(sender, tx.requestId)
  <2> DEFINE id == tx.requestId
             e == RequestEvent("VRFExecuted", id, sender)
  <2>1. id \in Ids /\ id \in Received /\ requests[id] # "validated"
    BY <1>2, <1>6 DEF Answers, Passes, MayExecute
  <2>2. requests' = [requests EXCEPT ![id] = "validated"] /\ logs' = Append(logs, e)
    BY <1>6 DEF Executes
  <2>3. e \in Events /\ e.name # "RequestReceived"
    BY <2>1 DEF RequestEvent, Events, RequestEvents, Accounts
  <2> HIDE DEF id, e
  <2>4. /\ Received' = Received /\ Validated' = Validated \cup {id}
        /\ {id} \subseteq Received \ Validated
    BY <2>1, <2>2 DEF Received, Validated, IInv, ContractOK
  <2>5. LoggedAreReceived'
    BY <2>2, <2>3, <2>4, LoggedStayReceived DEF ReceivedOK, IInv, ContractOK
  <2>6. Core!Next
    BY <2>1, <2>4 DEF Core!Next, Core!Validate
  <2> QED BY <1>3, <2>4, <2>5, <2>6 DEF ReceivedOK
<1>7. CASE tx \in Administration /\ Runs(sender, tx)
  <2>1. /\ tx.role \in Roles /\ tx.account \in Accounts /\ tx.method # "executeVRF"
    BY <1>7 DEF Administration
  <2>2. \A name \in {"RoleGranted", "RoleRevoked"} :
          RoleEvent(name, tx.role, tx.account, sender) \in RoleEvents
    BY <2>1 DEF RoleEvent, RoleEvents
  <2>3. UNCHANGED requests /\ \/ logs' = logs
                              \/ \E e \in RoleEvents : logs' = Append(logs, e)
    BY <1>7, <2>1, <2>2 DEF Runs, Grants, Revokes
  <2> QED BY <1>4, <1>5, <2>3
<1>8. tx \in Answers /\ Runs(sender, tx) => Executes(sender, tx.requestId)
  BY DEF Answers, Runs
<1> QED BY <1>1, <1>2, <1>4, <1>6, <1>7, <1>8 DEF Transactions

\* The binding in front of the contract shows a core: a request is received
\* once, then validated once, by whichever of the services' transactions is
\* included first.
THEOREM BindingShowsACore == Spec => ImplementsCore
PROOF
<1>1. Init => Core!Init /\ ReceivedOK
  <2> SUFFICES ASSUME Init PROVE Core!Init /\ ReceivedOK
    OBVIOUS
  <2>1. Core!Init
    BY DEF Init, Core!Init, Received, Validated
  <2>2. \A i \in DOMAIN logs : logs[i].name # "RequestReceived"
    BY DEF Init, RoleEvent
  <2>3. \A s \in Senders : DOMAIN pool[s] = {}
    BY DEF Init
  <2> QED BY <2>1, <2>2, <2>3 DEF ReceivedOK, LoggedAreReceived, WaitingAreReceived
<1>2. IInv /\ ReceivedOK /\ [Next]_vars => ReceivedOK' /\ [Core!Next]_(Core!coreVars)
  <2> SUFFICES ASSUME IInv, ReceivedOK, [Next]_vars
               PROVE  ReceivedOK' /\ [Core!Next]_(Core!coreVars)
    OBVIOUS
  <2>1. ASSUME NEW id \in Ids, HandleCrossChainRequest(id)
        PROVE  ReceivedOK' /\ [Core!Next]_(Core!coreVars)
    BY <2>1, RequestIsReceived DEF Core!Next
  <2>2. CASE UNCHANGED vars
    BY <2>2, ReceivedUnchanged DEF vars, ReceivedOK, LoggedAreReceived, WaitingAreReceived
  <2> QED BY <2>1, <2>2, AdministerKeepsReceived, AnswerKeepsReceived, IncludeValidates DEF Next
<1> QED BY <1>1, <1>2, Inductive, PTL DEF Spec, ImplementsCore, Core!Spec
=============================================================================
