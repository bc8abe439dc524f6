-------------------------- MODULE NonceKeeperWallet --------------------------
(***************************************************************************)
(* The wallet the fillers of the oif-solver share on one chain.  Every     *)
(* transaction is sent by a task of its own; between two awaits of a task  *)
(* any other may run.  nonces[chainId] is a promise: the first task asks   *)
(* the node for the transaction count and each one takes the promise and   *)
(* leaves its successor, so that a task holds a place in the line before   *)
(* the number of it is known.                                              *)
(***************************************************************************)
EXTENDS Integers, FiniteSets

CONSTANTS
  Tasks,   \* the calls of sendTransaction
  Jobs,    \* what they do on the chain, which works once (a message, an order)
  MaxRuns  \* bound: times the solver is started

ASSUME MaxRunsIsPositive == MaxRuns \in Nat \ {0}

VARIABLES
  runs,     \* times the solver was started
  pc,       \* pc[t]: where task t is
  job,      \* job[t]: what it does
  place,    \* place[t]: its place in the line of promises, -1 without one
  taken,    \* places given out in this run: the promises made
  count,    \* the first promise: "none", "asked", "rejected" or "known"
  base,     \* the transaction count it resolved to
  \* the chain
  mined,    \* transactions of the account in blocks
  pool,     \* its transactions waiting in the node, by nonce
  done      \* jobs done

walletVars == <<runs, pc, job, place, taken, count, base>>
chainVars == <<mined, pool, done>>
vars == <<walletVars, chainVars>>

PCs == {"idle", "estimating", "naming", "waiting", "sending",
        "sent", "refused", "reverted", "failed", "dead"}
Ended == {"sent", "refused", "reverted", "failed", "dead"}

TypeOK ==
  /\ runs \in 1 .. MaxRuns
  /\ pc \in [Tasks -> PCs]
  /\ job \in [Tasks -> Jobs]
  /\ place \in [Tasks -> Nat \cup {-1}]
  /\ taken \in Nat
  /\ count \in {"none", "asked", "rejected", "known"}
  /\ base \in Nat /\ mined \in Nat
  /\ pool \in SUBSET [nonce : Nat, task : Tasks]
  /\ done \in SUBSET Jobs

Init ==
  /\ runs = 1
  /\ pc = [t \in Tasks |-> "idle"]
  /\ job \in [Tasks -> Jobs]
  /\ place = [t \in Tasks |-> -1]
  /\ taken = 0 /\ count = "none" /\ base = 0
  /\ mined = 0 /\ pool = {} /\ done = {}

Nonce(t) == base + place[t]
Goes(t, from, to) == pc[t] = from /\ pc' = [pc EXCEPT ![t] = to]

----------------------------------------------------------------------------
(* sendTransaction *)

\* The call of estimateGas starts the task.
Begins(t) ==
  /\ Goes(t, "idle", "estimating")
  /\ UNCHANGED <<runs, job, place, taken, count, base, chainVars>>

\* estimateGas passes when the job is not done yet on the chain as it is now.
EstimatePasses(t) ==
  /\ job[t] \notin done
  /\ Goes(t, "estimating", "naming")
  /\ UNCHANGED <<runs, job, place, taken, count, base, chainVars>>

\* checkError throws whatever the error is: no nonce was taken.
EstimateFails(t) ==
  /\ Goes(t, "estimating", "refused")
  /\ UNCHANGED <<runs, job, place, taken, count, base, chainVars>>

\* Mutant of TakesPlace: the next promise is left only when the count is known.
PlaceKeptUntilKnown(t) ==
  /\ Goes(t, "naming", "waiting")
  /\ place' = [place EXCEPT ![t] = taken]
  /\ taken' = IF count = "known" THEN taken + 1 ELSE taken
  /\ count' = IF count = "none" THEN "asked" ELSE count
  /\ UNCHANGED <<runs, job, base, chainVars>>

\* getNextNonce after its await of getChainId: up to the return of the promise
\* nothing else runs.
TakesPlace(t) ==
  /\ Goes(t, "naming", "waiting")
  /\ place' = [place EXCEPT ![t] = taken]
  /\ taken' = taken + 1
  /\ count' = IF count = "none" THEN "asked" ELSE count
  /\ UNCHANGED <<runs, job, base, chainVars>>

\* Mutant of CountArrives: the count is read again although it is known.
CountReadAgain ==
  /\ count \in {"asked", "known"}
  /\ count' = "known"
  /\ base' = mined
  /\ UNCHANGED <<runs, pc, job, place, taken, chainVars>>

\* getTransactionCount() asks for the latest block: what waits is not counted.
CountArrives ==
  /\ count = "asked"
  /\ count' = "known"
  /\ base' = mined
  /\ UNCHANGED <<runs, pc, job, place, taken, chainVars>>

\* The call rejects, and so does every promise made from this one, for good.
CountRejects ==
  /\ count = "asked"
  /\ count' = "rejected"
  /\ UNCHANGED <<runs, pc, job, place, taken, base, chainVars>>

\* Mutant of GetsNonce: a task waits until nothing of the account is pending.
GetsNonceWhenPoolIsEmpty(t) ==
  /\ count = "known"
  /\ pool = {}
  /\ Goes(t, "waiting", "sending")
  /\ UNCHANGED <<runs, job, place, taken, count, base, chainVars>>

GetsNonce(t) ==
  /\ count = "known"
  /\ Goes(t, "waiting", "sending")
  /\ UNCHANGED <<runs, job, place, taken, count, base, chainVars>>

NonceRejected(t) ==
  /\ count = "rejected"
  /\ Goes(t, "waiting", "failed")
  /\ UNCHANGED <<runs, job, place, taken, count, base, chainVars>>

\* super.sendTransaction: ethers estimates again, signs and sends; the node
\* takes the transaction unless its nonce is used.  One that waits with the
\* same nonce is replaced when the new one pays enough more.
Sends(t) ==
  /\ job[t] \notin done
  /\ Nonce(t) >= mined
  /\ Goes(t, "sending", "sent")
  /\ pool' = {x \in pool : x.nonce # Nonce(t)} \cup {[nonce |-> Nonce(t), task |-> t]}
  /\ UNCHANGED <<runs, job, place, taken, count, base, mined, done>>

\* The second estimate reverts: the job was done since the first one.
SendReverts(t) ==
  /\ job[t] \in done
  /\ Goes(t, "sending", "reverted")
  /\ UNCHANGED <<runs, job, place, taken, count, base, chainVars>>

\* The node refuses or cannot be reached.
SendFails(t) ==
  /\ Goes(t, "sending", "failed")
  /\ UNCHANGED <<runs, job, place, taken, count, base, chainVars>>

----------------------------------------------------------------------------
\* The solver dies and starts again with nothing: nonces is a variable of the
\* module.  Tasks that have not begun belong to the next run.
Restart ==
  /\ runs < MaxRuns
  /\ runs' = runs + 1
  /\ pc' = [t \in Tasks |-> IF pc[t] \in Ended \cup {"idle"} THEN pc[t] ELSE "dead"]
  /\ place' = [t \in Tasks |-> -1]
  /\ taken' = 0 /\ count' = "none" /\ base' = 0
  /\ UNCHANGED <<job, chainVars>>

\* A block takes the transaction whose turn it is; a second one for the same
\* job reverts and uses its nonce only.
Mines ==
  \E x \in pool :
    /\ x.nonce = mined
    /\ mined' = mined + 1
    /\ pool' = pool \ {x}
    /\ done' = done \cup {job[x.task]}
    /\ UNCHANGED walletVars

TaskSteps(t) ==
  \/ EstimatePasses(t) \/ EstimateFails(t) \/ TakesPlace(t)
  \/ GetsNonce(t) \/ NonceRejected(t)
  \/ Sends(t) \/ SendReverts(t) \/ SendFails(t)

Next ==
  \/ \E t \in Tasks : Begins(t)
  \/ \E t \in Tasks : TaskSteps(t)
  \/ CountArrives \/ CountRejects
  \/ Restart
  \/ Mines

Spec == Init /\ [][Next]_vars

\* Calls return and blocks are made.
FairSpec ==
  /\ Spec
  /\ \A t \in Tasks : WF_vars(TaskSteps(t))
  /\ WF_vars(CountArrives \/ CountRejects)
  /\ WF_vars(Mines)
----------------------------------------------------------------------------
(* Properties. *)

HasPlace(t) == place[t] >= 0

\* Tasks of one run never share a nonce, in whatever order their awaits end,
\* and leave out none: README.md says the wallet "prevents nonces race
\* conditions when the solver needs to fill different intents".
NoncesAreConsecutive ==
  /\ \A t, u \in Tasks : HasPlace(t) /\ place[t] = place[u] => t = u
  /\ {place[t] : t \in {u \in Tasks : HasPlace(u)}} = 0 .. taken - 1

\* In one run a transaction the node took is never pushed out by another one
\* of the same wallet: it is in the pool until it is in a block.
NothingReplaced ==
  \A t \in Tasks : pc[t] = "sent" /\ HasPlace(t) =>
    \/ \E x \in pool : x.task = t
    \/ mined > Nonce(t)

\* A nonce that nobody will use: its task failed, or died with the solver.
Unused(k) ==
  /\ \A x \in pool : x.nonce # k
  /\ count = "known" =>
       \A t \in Tasks : pc[t] \in {"waiting", "sending"} => Nonce(t) # k
HasGap == \E x \in pool : \E k \in mined .. x.nonce - 1 : Unused(k)

\* What the node took is mined in the end, unless an earlier nonce was given
\* to a task that did not use it.
SentIsMined ==
  \A t \in Tasks :
    (\E x \in pool : x.task = t) ~> (HasGap \/ \A x \in pool : x.task # t)
=============================================================================
