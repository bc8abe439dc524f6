----------------------------- MODULE VRFExecutor -----------------------------
(***************************************************************************)
(* The vrf-executor process: the blocks listener, the core listener and    *)
(* run(), which is in the relayer first, if that is enabled, and then in   *)
(* the executor, are goroutines that hand values to each other over        *)
(* unbuffered channels, in front of a node of the random network.  The     *)
(* process keeps nothing on disk.  What it sends back is abstracted to the *)
(* request id: a fresh value and its proof, which the core accepts once    *)
(* per request (VRFCoreV1).  The logs of a range are read as the stream    *)
(* LogStream describes, and EventIterator implements; what the relayer     *)
(* sends, with a transactor of its own, is in PeriodicSender.              *)
(***************************************************************************)
EXTENDS AccountNonces, Sequences, FiniteSets

CONSTANTS
  Ids,             \* the requests the core may receive
  None,            \* no range, no request
  MaxBlocks,       \* bound: blocks of the random network
  MaxStarts        \* bound: times the process is started

ASSUME BoundsAreNat == MaxBlocks \in Nat /\ MaxStarts \in Nat

VARIABLES
  \* the node
  head,        \* number of the last block
  logs,        \* the RequestReceived logs, in order
  answered,    \* requests the core has validated an answer for
  minedNonce,  \* transactions of the executor's account in blocks
  pool,        \* its transactions accepted and not yet in a block
  \* the process
  up,          \* whether it runs
  cancelled,   \* whether its context is done
  relaying,    \* whether run() is in relayer.Start
  lastBlock,   \* lastBlockNumber of the blocks listener
  offered,     \* the range the blocks listener is blocked on sending, or None
  todo,        \* ids the core listener has yet to send to the executor
  current,     \* the id the executor works on, or None
  nonce,       \* opts.Nonce of the transactor
  \* history of the current run of the process
  starts,      \* how often it was started
  first,       \* the first block scanned, or None
  scanned,     \* scanned[b]: ranges with block b the core listener received
  sent,        \* sent[id]: transactions the node accepted for the request
  dropped      \* requests given up after an error

nodeVars == <<head, logs, answered, minedNonce, pool>>
runVars == <<up, cancelled, relaying, starts>>
listenerVars == <<lastBlock, offered, first, scanned>>
executorVars == <<current, nonce, sent>>
vars == <<nodeVars, runVars, listenerVars, todo, executorVars, dropped>>

Blocks == 0 .. MaxBlocks
Ranges == [from : Blocks, to : Blocks]
ASSUME NoneIsNothingElse == None \notin Ids \cup Blocks \cup Ranges

Transactions == [nonce : Nat, id : Ids]

\* The histories count 0, 1, many.
Counts == 0 .. 2
OneMore(n) == IF n = 2 THEN 2 ELSE n + 1

TypeOK ==
  /\ head \in Blocks
  /\ logs \in Seq([block : 1 .. MaxBlocks, id : Ids])
  /\ answered \in SUBSET Ids
  /\ minedNonce \in Nat
  /\ pool \in SUBSET Transactions
  /\ up \in BOOLEAN /\ cancelled \in BOOLEAN /\ relaying \in BOOLEAN
  /\ lastBlock \in Blocks
  /\ offered \in Ranges \cup {None}
  /\ todo \in Seq(Ids)
  /\ current \in Ids \cup {None}
  /\ nonce \in Nat
  /\ starts \in 0 .. MaxStarts
  /\ first \in Blocks \cup {None}
  /\ scanned \in [Blocks -> Counts]
  /\ sent \in [Ids -> Counts]
  /\ dropped \in SUBSET Ids

Init ==
  /\ head = 0 /\ logs = <<>> /\ answered = {} /\ minedNonce = 0 /\ pool = {}
  /\ up = FALSE /\ cancelled = FALSE /\ relaying = FALSE /\ starts = 0
  /\ lastBlock = 0 /\ offered = None /\ todo = <<>> /\ current = None /\ nonce = 0
  /\ first = None /\ scanned = [b \in Blocks |-> 0]
  /\ sent = [id \in Ids |-> 0] /\ dropped = {}

----------------------------------------------------------------------------
(* The node.  No transaction of the account comes from elsewhere and what   *)
(* the node accepted it does not evict.                                     *)

Logged(id) == \E i \in DOMAIN logs : logs[i].id = id

\* The core logs a request; its block is the next one.
ReceiveRequest(id) ==
  /\ head < MaxBlocks
  /\ ~Logged(id)
  /\ logs' = Append(logs, [block |-> head + 1, id |-> id])
  /\ UNCHANGED <<head, answered, minedNonce, pool>>

\* A block is made, with the first n pending transactions of the account.
\* One for a request that is already answered reverts: it uses its nonce only.
MineBlock(n) ==
  /\ head < MaxBlocks
  /\ head' = head + 1
  /\ \A k \in minedNonce .. minedNonce + n - 1 : \E t \in pool : t.nonce = k
  /\ LET included == {t \in pool : t.nonce < minedNonce + n} IN
     /\ answered' = answered \cup {t.id : t \in included}
     /\ pool' = pool \ included
  /\ minedNonce' = minedNonce + n
  /\ UNCHANGED logs

\* Another executor's answer is in a block first.
OtherExecutorAnswers(id) ==
  /\ \E i \in DOMAIN logs : logs[i].id = id /\ logs[i].block <= head
  /\ answered' = answered \cup {id}
  /\ UNCHANGED <<head, logs, minedNonce, pool>>

PendingNonce == PendingCount(minedNonce, pool)

----------------------------------------------------------------------------
(* The process starts and ends.                                             *)

\* The environment may say something else at every start.
LoadConfig(relayerEnabled) == relaying' = relayerEnabled

\* transactor.New reads the nonce, once.
NewTransactor == nonce' = PendingNonce

\* main and run(): the configuration, the node, the contract, the key and the
\* transactor; then the listeners are started.  An error on the way ends the
\* process, which is the action not being taken.
Start ==
  /\ ~up
  /\ starts < MaxStarts
  /\ up' = TRUE
  /\ starts' = starts + 1
  /\ \E relayerEnabled \in BOOLEAN : LoadConfig(relayerEnabled)
  /\ NewTransactor
  /\ UNCHANGED <<nodeVars, cancelled, listenerVars, todo, current, sent, dropped>>

\* An interrupt: signal.NotifyContext ends the context.
Cancel ==
  /\ up /\ ~cancelled
  /\ cancelled' = TRUE
  /\ UNCHANGED <<nodeVars, up, relaying, starts, listenerVars, todo, executorVars, dropped>>

\* The process is gone, and what it had in memory.
Ends ==
  /\ up' = FALSE /\ cancelled' = FALSE /\ relaying' = FALSE
  /\ lastBlock' = 0 /\ offered' = None /\ todo' = <<>> /\ current' = None /\ nonce' = 0
  /\ first' = None /\ scanned' = [b \in Blocks |-> 0]
  /\ sent' = [id \in Ids |-> 0] /\ dropped' = {}
  /\ UNCHANGED <<nodeVars, starts>>

\* A crash, a kill, a deployment.
Stop == up /\ Ends

\* exec.Run sees the end of the context and returns, and main with it.
ExecutorReturns == up /\ cancelled /\ ~relaying /\ current = None /\ Ends

\* Mutant of RelayerReturns: the loop has no case for the context.
RelayerGoesOn ==
  /\ up /\ relaying /\ cancelled
  /\ relaying' = TRUE
  /\ UNCHANGED <<nodeVars, up, cancelled, starts, listenerVars, todo, executorVars, dropped>>

\* relayer.Start sees it, and run() goes on to exec.Run.
RelayerReturns ==
  /\ up /\ relaying /\ cancelled
  /\ relaying' = FALSE
  /\ UNCHANGED <<nodeVars, up, cancelled, starts, listenerVars, todo, executorVars, dropped>>

----------------------------------------------------------------------------
(* The blocks listener.  A tick whose BlockNumber call fails, as it does    *)
(* when the context is done, or that finds no new block, changes nothing.   *)

\* Mutant of NewRange: the last block of the previous range again.
RangeFromTheLastBlock ==
  IF lastBlock = 0 THEN [from |-> head, to |-> head]
  ELSE [from |-> lastBlock, to |-> head]

\* The range of a tick.  0 stands for "no block seen yet": a listener that
\* starts before the first block takes this branch again.
NewRange ==
  IF lastBlock = 0 THEN [from |-> head, to |-> head]
  ELSE [from |-> lastBlock + 1, to |-> head]

\* Mutant of Tick: a block late.
TickABlockLate ==
  /\ up /\ ~cancelled
  /\ offered = None
  /\ lastBlock = 0 \/ lastBlock + 1 < head
  /\ offered' = NewRange
  /\ UNCHANGED <<nodeVars, runVars, lastBlock, first, scanned, todo, executorVars, dropped>>

Tick ==
  /\ up /\ ~cancelled
  /\ offered = None
  /\ lastBlock = 0 \/ lastBlock < head
  /\ offered' = NewRange
  /\ UNCHANGED <<nodeVars, runVars, lastBlock, first, scanned, todo, executorVars, dropped>>

----------------------------------------------------------------------------
(* The core listener. *)

\* How many logs are in blocks before b: the first ones, as logs are in the
\* order of their blocks.
LogsBefore(b) ==
  CHOOSE n \in 0 .. Len(logs) : \A i \in DOMAIN logs : logs[i].block < b <=> i <= n

\* The requests of FilterRequestReceived over the range r, in order.
IdsOf(r) ==
  LET passed == LogsBefore(r.from) IN
  [i \in 1 .. LogsBefore(r.to + 1) - passed |-> logs[passed + i].id]

\* Mutant of TakeRange: the next range is taken before the last one is over.
TakeRangeEarly ==
  /\ up
  /\ offered # None
  /\ lastBlock' = offered.to
  /\ offered' = None
  /\ first' = IF first = None THEN offered.from ELSE first
  /\ scanned' = [b \in Blocks |-> IF b \in offered.from .. offered.to
                                  THEN OneMore(scanned[b]) ELSE scanned[b]]
  /\ UNCHANGED <<nodeVars, runVars, executorVars>>

\* The rendezvous on the blocks channel: possible when the loop over the
\* previous range is over.  The blocks listener goes on to record the range.
TakeRange ==
  /\ up
  /\ offered # None
  /\ todo = <<>>
  /\ lastBlock' = offered.to
  /\ offered' = None
  /\ first' = IF first = None THEN offered.from ELSE first
  /\ scanned' = [b \in Blocks |-> IF b \in offered.from .. offered.to
                                  THEN OneMore(scanned[b]) ELSE scanned[b]]
  /\ UNCHANGED <<nodeVars, runVars, executorVars>>

FilterLogs ==
  /\ TakeRange
  /\ ~cancelled
  /\ todo' = IdsOf(offered)
  /\ UNCHANGED dropped

\* FilterRequestReceived fails, as it does when the context is done: on to
\* the next range.
FilterLogsFails ==
  /\ TakeRange
  /\ dropped' = dropped \cup {IdsOf(offered)[i] : i \in DOMAIN IdsOf(offered)}
  /\ UNCHANGED todo

\* iter.Next returns false before the end, and iter.Error is not asked: what is
\* left of the range is given up without a word.
IterationFails ==
  /\ up
  /\ todo # <<>>
  /\ dropped' = dropped \cup {todo[i] : i \in DOMAIN todo}
  /\ todo' = <<>>
  /\ UNCHANGED <<nodeVars, runVars, listenerVars, executorVars>>

----------------------------------------------------------------------------
(* The executor.                                                            *)

\* The rendezvous on the requests channel; run() must have reached exec.Run.
TakesRequest ==
  /\ up /\ ~relaying
  /\ current = None
  /\ todo # <<>>
  /\ todo' = Tail(todo)
  /\ UNCHANGED <<nodeVars, runVars, listenerVars, nonce, sent>>

TakeRequest ==
  /\ TakesRequest
  /\ ~cancelled
  /\ current' = Head(todo)
  /\ UNCHANGED dropped

\* With the context done both cases of the select are ready; a request that
\* is taken then fails at the gas price.
TakeRequestLate ==
  /\ TakesRequest
  /\ cancelled
  /\ dropped' = dropped \cup {Head(todo)}
  /\ UNCHANGED current

Working == up /\ current # None

\* The transaction built from opts; the node accepts it unless its nonce is
\* used.
NodeAccepts ==
  /\ current \notin answered         \* the gas estimate reverts otherwise
  /\ nonce >= minedNonce
  /\ pool' = WithTransaction(pool, [nonce |-> nonce, id |-> current])
  /\ sent' = [sent EXCEPT ![current] = OneMore(@)]
  /\ UNCHANGED <<head, logs, answered, minedNonce>>

Submit ==
  /\ Working
  /\ NodeAccepts
  /\ nonce' = nonce + 1
  /\ current' = None
  /\ UNCHANGED <<runVars, listenerVars, todo, dropped>>

GiveUp ==
  /\ dropped' = dropped \cup {current}
  /\ current' = None
  /\ UNCHANGED <<runVars, listenerVars, todo, nonce>>

\* Mutant of SubmitReplyLost: a send that failed is tried again.
SubmitAgain ==
  /\ Working
  /\ NodeAccepts
  /\ UNCHANGED <<runVars, listenerVars, todo, current, nonce, dropped>>

\* The node accepts the transaction but its reply is lost.
SubmitReplyLost == Working /\ NodeAccepts /\ GiveUp

\* Mutant of SubmitFails: the nonce goes on although nothing was sent.
NonceGoesOn ==
  /\ Working
  /\ dropped' = dropped \cup {current}
  /\ current' = None
  /\ nonce' = nonce + 1
  /\ UNCHANGED <<runVars, listenerVars, todo, nodeVars, sent>>

\* GenerateRandomnessWithProof, the signature, the gas price, the gas estimate
\* or the send fails.
SubmitFails == Working /\ GiveUp /\ UNCHANGED <<nodeVars, sent>>

----------------------------------------------------------------------------
ExecutorStep == Submit \/ SubmitReplyLost \/ SubmitFails

NodeStep ==
  /\ \/ \E id \in Ids : ReceiveRequest(id)
     \/ \E n \in 0 .. Cardinality(pool) : MineBlock(n)
     \/ \E id \in Ids : OtherExecutorAnswers(id)
  /\ UNCHANGED <<runVars, listenerVars, todo, executorVars, dropped>>

Next ==
  \/ NodeStep \/ Start \/ Cancel \/ Stop
  \/ Tick \/ FilterLogs \/ FilterLogsFails \/ IterationFails
  \/ RelayerReturns
  \/ TakeRequest \/ TakeRequestLate \/ ExecutorStep \/ ExecutorReturns

Spec == Init /\ [][Next]_vars

\* The Go scheduler runs each goroutine that can run, a select that finds the
\* context done again and again takes that case, ticks keep coming and calls
\* return.
FairSpec ==
  /\ Spec
  /\ WF_vars(Tick)
  /\ WF_vars(FilterLogs \/ FilterLogsFails)
  /\ WF_vars(TakeRequest)
  /\ WF_vars(ExecutorStep)
  /\ WF_vars(RelayerReturns)
  /\ WF_vars(ExecutorReturns)
----------------------------------------------------------------------------
(* Properties.  first = 0 is the listener that started before the first     *)
(* block.                                                                   *)

StartedOnABlock == up /\ first \notin {None, 0}

\* The account's transactions have consecutive nonces and the executor never
\* runs ahead of them, whatever replies are lost and whenever it restarts:
\* no transaction waits in the node for a nonce nobody will use.
NoNonceGap ==
  /\ NoGap(minedNonce, pool)
  /\ nonce <= PendingNonce

\* Each block from the first one on is scanned exactly once.
ScannedOnce ==
  StartedOnABlock =>
    \A b \in Blocks : scanned[b] = IF b \in first .. lastBlock THEN 1 ELSE 0

\* A logged request the listeners have passed is on its way through the
\* process, was given up after an error, or its answer is with the node.
NothingForgotten ==
  StartedOnABlock =>
    \A i \in DOMAIN logs : logs[i].block \in first .. lastBlock =>
      \/ logs[i].id \in {todo[k] : k \in DOMAIN todo} \cup {current}
      \/ logs[i].id \in dropped \cup answered
      \/ \E t \in pool : t.id = logs[i].id

\* In one run of the process no request has two transactions.
SentOnce == \A id \in Ids : sent[id] <= 1

\* A request logged while run() is in the executor is submitted, answered by
\* another executor or given up with an error, unless the process is told to
\* end.
RequestsAreSubmitted ==
  \A id \in Ids :
    (/\ StartedOnABlock /\ ~relaying
     /\ \E i \in DOMAIN logs : logs[i].id = id /\ logs[i].block \in first .. head)
      ~> (sent[id] > 0 \/ id \in answered \cup dropped \/ cancelled \/ ~up)

\* An interrupt ends the process, whatever its goroutines are blocked on and
\* whether the relayer or the executor has to see it.
InterruptEndsIt == cancelled ~> ~up
=============================================================================
