-------------------------- MODULE VRFExecutorProofs ---------------------------
(***************************************************************************)
(* The safety of VRFExecutor for any requests, blocks and restarts.  The   *)
(* nonces and the ranges have an invariant each and know nothing of each   *)
(* other; SentOnce rests on the ranges and the order of the logs, and      *)
(* NothingForgotten on all of it.                                          *)
(***************************************************************************)
EXTENDS VRFExecutor, FiniteSetTheorems, WellFoundedInduction, TLAPS

----------------------------------------------------------------------------
(* The nonces of a pool.                                                    *)

\* The pending count of a pool without a gap is one more than its last nonce.
LEMMA PendingCountIs ==
  ASSUME NEW n \in Nat, NEW k \in Nat, n <= k, NEW txs,
         \A t \in txs : t.nonce \in Nat,
         NoncesOf(txs) = n .. k - 1
  PROVE  PendingCount(n, txs) = k
PROOF
<1> DEFINE Candidates == {n} \cup {t.nonce + 1 : t \in txs}
           First(x) == x \notin NoncesOf(txs) /\ n .. x - 1 \subseteq NoncesOf(txs)
<1>1. n < k => \E t \in txs : t.nonce = k - 1
  <2>1. n < k => k - 1 \in n .. k - 1
    OBVIOUS
  <2> QED BY <2>1 DEF NoncesOf
<1>2. k \in Candidates /\ First(k)
  BY <1>1
<1>3. \A x \in Candidates : x \in Nat /\ n <= x /\ (n < x => x - 1 \in NoncesOf(txs))
  BY DEF NoncesOf
<1>4. ASSUME NEW x \in Candidates, First(x) PROVE x = k
  <2>1. k < x => k \in n .. x - 1
    BY <1>3
  <2> QED BY <1>3, <1>4, <2>1
<1> HIDE DEF Candidates, First
<1>5. (CHOOSE x \in Candidates : First(x)) = k
  BY <1>2, <1>4
<1> QED BY <1>5 DEF PendingCount, Candidates, First

\* A transaction with the next nonce, or in place of one that waits, leaves a
\* pool without a gap.
LEMMA WithTransactionKeepsNoGap ==
  ASSUME NEW n \in Nat, NEW k \in Nat, n <= k, NEW txs, NEW tx,
         \A t \in txs : t.nonce \in Nat,
         NoncesOf(txs) = n .. k - 1,
         tx.nonce \in n .. k,
         NEW next, next = IF tx.nonce = k THEN k + 1 ELSE k
  PROVE  /\ NoncesOf(WithTransaction(txs, tx)) = n .. next - 1
         /\ PendingCount(n, WithTransaction(txs, tx)) = next
PROOF
<1> DEFINE more == WithTransaction(txs, tx)
<1>1. NoncesOf(more) = NoncesOf(txs) \cup {tx.nonce}
  BY DEF NoncesOf, WithTransaction
<1>2. NoncesOf(more) = n .. next - 1
  BY <1>1
<1>3. \A t \in more : t.nonce \in Nat
  BY DEF WithTransaction
<1> HIDE DEF more
<1>4. PendingCount(n, more) = next
  BY <1>2, <1>3, PendingCountIs
<1> QED BY <1>2, <1>4 DEF more

\* So does taking all that are below a nonce low.
Remaining(txs, low) == {t \in txs : ~(t.nonce < low)}

LEMMA BlockKeepsNoGap ==
  ASSUME NEW n \in Nat, NEW k \in Nat, NEW low \in Nat, n <= k, n <= low, NEW txs,
         \A t \in txs : t.nonce \in Nat,
         NoncesOf(txs) = n .. k - 1,
         low = n \/ low - 1 \in NoncesOf(txs)
  PROVE  /\ low <= k
         /\ NoncesOf(Remaining(txs, low)) = low .. k - 1
         /\ PendingCount(low, Remaining(txs, low)) = k
PROOF
<1> DEFINE rest == Remaining(txs, low)
<1>1. NoncesOf(rest) = {x \in NoncesOf(txs) : ~(x < low)}
  BY DEF NoncesOf, Remaining
<1>2. low <= k /\ NoncesOf(rest) = low .. k - 1
  BY <1>1
<1>3. \A t \in rest : t.nonce \in Nat
  BY DEF Remaining
<1> HIDE DEF rest
<1>4. PendingCount(low, rest) = k
  BY <1>2, <1>3, PendingCountIs
<1> QED BY <1>2, <1>4 DEF rest

----------------------------------------------------------------------------
(* The nonces.                                                              *)

\* NoNonceGap, with the types it speaks of.
NoncesOK ==
  /\ minedNonce \in Nat /\ nonce \in Nat
  /\ PendingNonce \in Nat /\ minedNonce <= PendingNonce
  /\ IsFiniteSet(pool) /\ \A t \in pool : t.nonce \in Nat
  /\ NoNonceGap

\* An account without transactions and a process that is down.
LEMMA NoncesInit == Init => NoncesOK
PROOF
<1> SUFFICES ASSUME Init PROVE NoncesOK
  OBVIOUS
<1>1. pool = {} /\ minedNonce = 0 /\ nonce = 0
  BY DEF Init
<1>2. NoncesOf(pool) = 0 .. 0 - 1 /\ \A t \in pool : t.nonce \in Nat
  BY <1>1 DEF NoncesOf
<1>3. PendingNonce = 0
  <2> DEFINE k == 0
  <2>1. k \in Nat /\ k <= k /\ NoncesOf(pool) = k .. k - 1 /\ minedNonce = k
    BY <1>1, <1>2
  <2> HIDE DEF k
  <2>2. PendingCount(k, pool) = k
    BY <1>2, <2>1, PendingCountIs
  <2> QED BY <2>1, <2>2 DEF PendingNonce, k
<1>4. NoGap(minedNonce, pool)
  BY <1>1, <1>2, <1>3 DEF NoGap, PendingNonce
<1>5. IsFiniteSet(pool)
  BY <1>1, FS_EmptySet
<1> QED BY <1>1, <1>2, <1>3, <1>4, <1>5 DEF NoncesOK, NoNonceGap

\* Steps that leave the account and the transactor alone.
LEMMA NoncesUntouched == NoncesOK /\ UNCHANGED <<minedNonce, pool, nonce>> => NoncesOK'
BY DEF NoncesOK, NoNonceGap, PendingNonce

\* What the node accepts takes the next nonce, or that of a transaction that
\* waits: one whose reply was lost, of this run.
LEMMA AcceptedIsNext ==
  ASSUME NoncesOK, NodeAccepts, nonce' \in {nonce, nonce + 1}
  PROVE  NoncesOK'
PROOF
<1> DEFINE tx == [nonce |-> nonce, id |-> current]
           k == PendingNonce
<1>1. /\ pool' = WithTransaction(pool, tx) /\ minedNonce' = minedNonce
      /\ nonce >= minedNonce /\ tx.nonce = nonce
  BY DEF NodeAccepts
<1>2. /\ k \in Nat /\ minedNonce \in Nat /\ minedNonce <= k /\ nonce \in Nat /\ nonce <= k
      /\ \A t \in pool : t.nonce \in Nat
      /\ NoncesOf(pool) = minedNonce .. k - 1
  BY DEF NoncesOK, NoNonceGap, NoGap, PendingNonce
<1>3. IsFiniteSet(pool')
  <2>1. IsFiniteSet({t \in pool : t.nonce # tx.nonce})
    BY FS_Subset DEF NoncesOK
  <2> HIDE DEF tx
  <2>2. IsFiniteSet({t \in pool : t.nonce # tx.nonce} \cup {tx})
    BY <2>1, FS_AddElement
  <2> QED BY <1>1, <2>2 DEF WithTransaction
<1>4. \A t \in pool' : t.nonce \in Nat
  BY <1>1, <1>2 DEF WithTransaction
<1>5. PendingNonce' = PendingCount(minedNonce, pool')
  BY <1>1 DEF PendingNonce
<1>6. tx.nonce \in minedNonce .. k
  BY <1>1, <1>2
<1> DEFINE next == IF tx.nonce = k THEN k + 1 ELSE k
<1>7. next \in Nat /\ k <= next /\ nonce' \in Nat /\ nonce' <= next
  BY <1>1, <1>2
<1> HIDE DEF tx, k
<1>8. /\ NoncesOf(WithTransaction(pool, tx)) = minedNonce .. next - 1
      /\ PendingCount(minedNonce, WithTransaction(pool, tx)) = next
  BY <1>2, <1>6, WithTransactionKeepsNoGap
<1> HIDE DEF next
<1>9. PendingNonce' = next /\ NoGap(minedNonce, pool)'
  BY <1>1, <1>5, <1>8 DEF NoGap
<1> QED BY <1>1, <1>2, <1>3, <1>4, <1>7, <1>9 DEF NoncesOK, NoNonceGap

\* A block takes the transactions with the lowest nonces.
LEMMA BlockKeepsNonces ==
  ASSUME NoncesOK, NEW n \in Nat, MineBlock(n), UNCHANGED nonce
  PROVE  NoncesOK'
PROOF
<1> DEFINE k == PendingNonce
           low == minedNonce + n
           rest == Remaining(pool, low)
<1>1. /\ k \in Nat /\ minedNonce \in Nat /\ minedNonce <= k /\ nonce \in Nat /\ nonce <= k
      /\ \A t \in pool : t.nonce \in Nat
      /\ NoncesOf(pool) = minedNonce .. k - 1
  BY DEF NoncesOK, NoNonceGap, NoGap, PendingNonce
<1>2. pool' = rest /\ minedNonce' = low
  <2>1. pool' = pool \ {t \in pool : t.nonce < low} /\ minedNonce' = low
    BY DEF MineBlock
  <2> QED BY <2>1 DEF Remaining
<1>3. low = minedNonce \/ low - 1 \in NoncesOf(pool)
  <2>1. \A y \in minedNonce .. minedNonce + n - 1 : \E t \in pool : t.nonce = y
    BY <1>1 DEF MineBlock
  <2>2. CASE n # 0
    <3>1. low - 1 \in minedNonce .. minedNonce + n - 1
      BY <1>1, <2>2
    <3> QED BY <2>1, <3>1 DEF NoncesOf
  <2> QED BY <1>1, <2>2
<1>4. IsFiniteSet(pool') /\ \A t \in pool' : t.nonce \in Nat
  BY <1>1, <1>2, FS_Subset DEF NoncesOK, Remaining
<1>5. low <= k /\ NoncesOf(rest) = low .. k - 1 /\ PendingCount(low, rest) = k
  <2>1. low \in Nat /\ minedNonce <= low
    BY <1>1
  <2>2. k \in Nat /\ minedNonce \in Nat /\ minedNonce <= k
    BY <1>1
  <2>3. \A t \in pool : t.nonce \in Nat
    BY <1>1
  <2>4. NoncesOf(pool) = minedNonce .. k - 1
    BY <1>1
  <2> HIDE DEF k, low
  <2> QED BY <1>3, <2>1, <2>2, <2>3, <2>4, BlockKeepsNoGap
<1>6. PendingNonce' = k
  BY <1>2, <1>5 DEF PendingNonce
<1>7. NoGap(minedNonce, pool)'
  BY <1>2, <1>5 DEF NoGap
<1> QED BY <1>1, <1>2, <1>4, <1>5, <1>6, <1>7 DEF NoncesOK, NoNonceGap

\* Every step of the node and the process keeps the nonces.
LEMMA NoncesStep == NoncesOK /\ [Next]_vars => NoncesOK'
PROOF
<1> SUFFICES ASSUME NoncesOK, [Next]_vars PROVE NoncesOK'
  OBVIOUS
<1>1. CASE NodeStep
  <2>1. UNCHANGED nonce
    BY <1>1 DEF NodeStep, executorVars
  <2>2. ASSUME NEW n \in 0 .. Cardinality(pool), MineBlock(n) PROVE NoncesOK'
    <3>1. Cardinality(pool) \in Nat
      BY FS_CardinalityType DEF NoncesOK
    <3>2. n \in Nat
      BY <3>1
    <3> QED BY <2>1, <2>2, <3>2, BlockKeepsNonces
  <2>3. ASSUME NEW id \in Ids, ReceiveRequest(id) \/ OtherExecutorAnswers(id) PROVE NoncesOK'
    BY <2>1, <2>3, NoncesUntouched DEF ReceiveRequest, OtherExecutorAnswers
  <2> QED BY <1>1, <2>2, <2>3 DEF NodeStep
<1>2. CASE Start
  <2>1. UNCHANGED <<minedNonce, pool>> /\ nonce' = PendingNonce
    BY <1>2 DEF Start, NewTransactor, nodeVars
  <2> QED BY <2>1 DEF NoncesOK, NoNonceGap, PendingNonce
<1>3. CASE Stop \/ ExecutorReturns
  <2>1. UNCHANGED <<minedNonce, pool>> /\ nonce' = 0
    BY <1>3 DEF Stop, ExecutorReturns, Ends, nodeVars
  <2>2. UNCHANGED PendingNonce
    BY <2>1 DEF PendingNonce
  <2> QED BY <2>1, <2>2 DEF NoncesOK, NoNonceGap
<1>4. CASE Submit
  <2>1. NodeAccepts /\ nonce' = nonce + 1
    BY <1>4 DEF Submit
  <2> QED BY <2>1, AcceptedIsNext
<1>5. CASE SubmitReplyLost
  <2>1. NodeAccepts /\ nonce' = nonce
    BY <1>5 DEF SubmitReplyLost, GiveUp
  <2> QED BY <2>1, AcceptedIsNext
<1>6. CASE Cancel \/ Tick \/ RelayerReturns
  BY <1>6, NoncesUntouched DEF Cancel, Tick, RelayerReturns, nodeVars, executorVars
<1>7. CASE FilterLogs \/ FilterLogsFails \/ IterationFails
  BY <1>7, NoncesUntouched
  DEF FilterLogs, FilterLogsFails, IterationFails, TakeRange, nodeVars, executorVars
<1>8. CASE TakeRequest \/ TakeRequestLate \/ SubmitFails
  BY <1>8, NoncesUntouched
  DEF TakeRequest, TakeRequestLate, TakesRequest, SubmitFails, GiveUp, nodeVars
<1>9. CASE UNCHANGED vars
  BY <1>9, NoncesUntouched DEF vars, nodeVars, executorVars
<1> QED BY <1>1, <1>2, <1>3, <1>4, <1>5, <1>6, <1>7, <1>8, <1>9 DEF Next, ExecutorStep

\* The executor's account never has a transaction that waits for a nonce
\* nobody will use, whatever replies are lost and whenever it restarts.
THEOREM NoncesHaveNoGap == Spec => []NoNonceGap
<1>1. NoncesOK => NoNonceGap
  BY DEF NoncesOK
<1> QED BY <1>1, NoncesInit, NoncesStep, PTL DEF Spec

----------------------------------------------------------------------------
(* The ranges.                                                              *)

\* ScannedOnce for one block.
ScannedIs(b) == scanned[b] = IF b \in first .. lastBlock THEN 1 ELSE 0

\* A range the blocks listener holds begins where the last one it handed over
\* ended; it is one block while there is none.
OfferedContinues ==
  /\ offered.from \in Blocks /\ offered.to \in Blocks /\ offered.to <= head
  /\ IF lastBlock = 0 THEN offered.from = offered.to
     ELSE offered.from = lastBlock + 1 /\ offered.from <= offered.to

RangesOK ==
  /\ head \in Blocks /\ lastBlock \in Blocks /\ lastBlock <= head
  /\ first \in Blocks \cup {None}
  /\ first = None => lastBlock = 0 /\ \A b \in Blocks : scanned[b] = 0
  /\ first \notin {None, 0} => first <= lastBlock /\ \A b \in Blocks : ScannedIs(b)
  /\ offered # None => OfferedContinues

\* Nothing is scanned before the first start.
LEMMA RangesInit == Init => RangesOK
BY BoundsAreNat DEF Init, RangesOK, Blocks

\* Steps that leave the chain and the listeners alone.
LEMMA RangesUntouched == RangesOK /\ UNCHANGED <<head, listenerVars>> => RangesOK'
BY DEF RangesOK, OfferedContinues, ScannedIs, listenerVars

\* The node may make blocks while a range is on offer.
LEMMA BlockKeepsRanges ==
  ASSUME RangesOK, head' \in {head, head + 1}, head' \in Blocks, UNCHANGED listenerVars
  PROVE  RangesOK'
BY DEF RangesOK, OfferedContinues, ScannedIs, listenerVars, Blocks

\* A tick offers the blocks after the last range.
LEMMA TickOffersTheNext == RangesOK /\ Tick => RangesOK'
PROOF
<1> SUFFICES ASSUME RangesOK, Tick PROVE RangesOK'
  OBVIOUS
<1>1. UNCHANGED <<head, lastBlock, first, scanned>> /\ offered' = NewRange
  BY DEF Tick, nodeVars
<1>2. head \in Blocks /\ lastBlock \in Blocks /\ (lastBlock = 0 \/ lastBlock < head)
  BY DEF RangesOK, Tick
<1>3. OfferedContinues'
  BY <1>1, <1>2, BoundsAreNat DEF OfferedContinues, NewRange, Blocks
<1> QED BY <1>1, <1>3 DEF RangesOK, ScannedIs

\* The range that is handed over extends what is scanned by its own blocks.
LEMMA TakenOnce == RangesOK /\ TakeRange => RangesOK'
PROOF
<1> SUFFICES ASSUME RangesOK, TakeRange PROVE RangesOK'
  OBVIOUS
<1>1. /\ offered # None /\ offered' = None /\ head' = head
      /\ lastBlock' = offered.to
      /\ first' = IF first = None THEN offered.from ELSE first
      /\ \A b \in Blocks : scanned'[b] = IF b \in offered.from .. offered.to
                                         THEN OneMore(scanned[b]) ELSE scanned[b]
  BY DEF TakeRange, nodeVars
<1>2. /\ lastBlock \in Nat /\ head \in Blocks
      /\ offered.from \in Nat /\ offered.to \in Nat
      /\ offered.from \in Blocks /\ offered.to \in Blocks /\ offered.to <= head
  BY <1>1 DEF RangesOK, OfferedContinues, Blocks
<1>3. None # 0 /\ None \notin Blocks
  BY NoneIsNothingElse, BoundsAreNat DEF Blocks
<1>4. CASE first = None
  <2>1. lastBlock = 0 /\ offered.from = offered.to /\ \A b \in Blocks : scanned[b] = 0
    BY <1>1, <1>4 DEF RangesOK, OfferedContinues
  <2>2. first' = offered.from /\ first' # None
    BY <1>1, <1>2, <1>3, <1>4
  <2>3. ASSUME NEW b \in Blocks PROVE ScannedIs(b)'
    BY <1>1, <1>2, <2>1, <2>2, <2>3 DEF ScannedIs, OneMore, Blocks
  <2> QED BY <1>1, <1>2, <2>1, <2>2, <2>3 DEF RangesOK
<1>5. CASE first = 0
  BY <1>1, <1>2, <1>3, <1>5 DEF RangesOK
<1>6. CASE first \notin {None, 0}
  <2>1. /\ first \in Blocks /\ first \in Nat /\ first # 0 /\ first <= lastBlock
        /\ first' = first
    BY <1>1, <1>6 DEF RangesOK, Blocks
  <2>2. lastBlock # 0 /\ offered.from = lastBlock + 1 /\ offered.from <= offered.to
    BY <1>1, <1>2, <2>1 DEF RangesOK, OfferedContinues
  <2>3. ASSUME NEW b \in Blocks PROVE ScannedIs(b)'
    <3>1. scanned[b] = IF b \in first .. lastBlock THEN 1 ELSE 0
      BY <1>6 DEF RangesOK, ScannedIs
    <3>2. b \in Nat /\ scanned'[b] = IF b \in offered.from .. offered.to
                                     THEN OneMore(scanned[b]) ELSE scanned[b]
      BY <1>1 DEF Blocks
    <3> QED BY <1>1, <1>2, <2>1, <2>2, <3>1, <3>2 DEF ScannedIs, OneMore
  <2> QED BY <1>1, <1>2, <1>6, <2>1, <2>2, <2>3 DEF RangesOK
<1> QED BY <1>4, <1>5, <1>6

\* Every step of the node and the process keeps the ranges.
LEMMA RangesStep == RangesOK /\ [Next]_vars => RangesOK'
PROOF
<1> SUFFICES ASSUME RangesOK, [Next]_vars PROVE RangesOK'
  OBVIOUS
<1>1. CASE NodeStep
  <2>1. UNCHANGED listenerVars /\ head \in Blocks
    BY <1>1 DEF NodeStep, RangesOK
  <2>2. head' \in {head, head + 1} /\ head' \in Blocks
    <3>1. CASE \E n \in 0 .. Cardinality(pool) : MineBlock(n)
      <4>1. head < MaxBlocks /\ head' = head + 1
        BY <3>1 DEF MineBlock
      <4> QED BY <2>1, <4>1, BoundsAreNat DEF Blocks
    <3>2. CASE \E id \in Ids : ReceiveRequest(id) \/ OtherExecutorAnswers(id)
      <4>1. head' = head
        BY <3>2 DEF ReceiveRequest, OtherExecutorAnswers
      <4> QED BY <2>1, <4>1
    <3> QED BY <1>1, <3>1, <3>2 DEF NodeStep
  <2> QED BY <2>1, <2>2, BlockKeepsRanges
<1>2. CASE Start \/ Cancel \/ RelayerReturns \/ IterationFails \/ TakeRequest \/ TakeRequestLate
  BY <1>2, RangesUntouched
  DEF Start, Cancel, RelayerReturns, IterationFails, TakeRequest, TakeRequestLate,
      TakesRequest, nodeVars
<1>3. CASE Submit \/ SubmitReplyLost \/ SubmitFails
  BY <1>3, RangesUntouched
  DEF Submit, SubmitReplyLost, SubmitFails, GiveUp, NodeAccepts, nodeVars
<1>4. CASE Stop \/ ExecutorReturns
  <2>1. /\ lastBlock' = 0 /\ offered' = None /\ first' = None /\ head' = head
        /\ scanned' = [b \in Blocks |-> 0]
    BY <1>4 DEF Stop, ExecutorReturns, Ends, nodeVars
  <2> QED BY <2>1, BoundsAreNat DEF RangesOK, Blocks
<1>5. CASE Tick
  BY <1>5, TickOffersTheNext
<1>6. CASE FilterLogs \/ FilterLogsFails
  BY <1>6, TakenOnce DEF FilterLogs, FilterLogsFails
<1>7. CASE UNCHANGED vars
  BY <1>7, RangesUntouched DEF vars, nodeVars
<1> QED BY <1>1, <1>2, <1>3, <1>4, <1>5, <1>6, <1>7 DEF Next, ExecutorStep

\* From the first block the listeners saw on, every block is scanned, and none
\* twice, in any interleaving of ticks, slow ranges and new blocks.
THEOREM BlocksAreScannedOnce == Spec => []ScannedOnce
<1>1. RangesOK => ScannedOnce
  BY DEF RangesOK, ScannedOnce, StartedOnABlock, ScannedIs
<1> QED BY <1>1, RangesInit, RangesStep, PTL DEF Spec

----------------------------------------------------------------------------
(* The logs.                                                                *)

\* The core logs a request once, in the next block, so the logs are in the
\* order of their blocks.
LogsOK ==
  /\ logs \in Seq([block : 1 .. MaxBlocks, id : Ids])
  /\ \A i \in DOMAIN logs : logs[i].block <= head + 1
  /\ \A i, j \in DOMAIN logs : i < j => logs[i].block <= logs[j].block
  /\ \A i, j \in DOMAIN logs : logs[i].id = logs[j].id => i = j

\* What a log is.
LEMMA LogsAreTyped ==
  ASSUME LogsOK
  PROVE  /\ Len(logs) \in Nat /\ DOMAIN logs = 1 .. Len(logs)
         /\ \A i \in DOMAIN logs : logs[i].block \in Nat \ {0} /\ logs[i].id \in Ids
PROOF
<1> DEFINE L == [block : 1 .. MaxBlocks, id : Ids]
<1>1. logs \in Seq(L)
  BY DEF LogsOK
<1>2. \A l \in L : l.block \in Nat \ {0} /\ l.id \in Ids
  BY BoundsAreNat
<1> HIDE DEF L
<1>3. Len(logs) \in Nat /\ DOMAIN logs = 1 .. Len(logs)
  BY <1>1
<1>4. \A i \in 1 .. Len(logs) : logs[i] \in L
  BY <1>1
<1> QED BY <1>2, <1>3, <1>4

\* A set of numbers that is not empty has a lowest one.
LEMMA LowestExists ==
  ASSUME NEW S \in SUBSET Nat, S # {}
  PROVE  \E x \in S : \A y \in S : x <= y
PROOF
<1> DEFINE less == {p \in Nat \X Nat : p[1] < p[2]}
<1>1. IsWellFoundedOn(less, Nat)
  BY NatLessThanWellFounded DEF OpToRel
<1>2. ASSUME NEW m \in Nat, NEW n \in Nat, <<m, n>> \notin less PROVE n <= m
  <2>1. m < n => <<m, n>> \in less
    OBVIOUS
  <2> QED BY <1>2, <2>1
<1> HIDE DEF less
<1>3. PICK x \in S : \A y \in S : ~(<<y, x>> \in less)
  BY <1>1, WFMin, Zenon
<1>4. ASSUME NEW y \in S PROVE x <= y
  BY <1>2, <1>3
<1> QED BY <1>4

\* LogsBefore is what it says: the logs up to it are those before the block.
LEMMA LogsBeforeIs ==
  ASSUME LogsOK, NEW b \in Nat
  PROVE  /\ LogsBefore(b) \in 0 .. Len(logs)
         /\ \A i \in DOMAIN logs : logs[i].block < b <=> i <= LogsBefore(b)
PROOF
<1> DEFINE IsIt(n) == \A i \in DOMAIN logs : logs[i].block < b <=> i <= n
           later == {i \in DOMAIN logs : ~(logs[i].block < b)}
<1>1. /\ Len(logs) \in Nat /\ DOMAIN logs = 1 .. Len(logs)
      /\ \A i \in DOMAIN logs : logs[i].block \in Nat
      /\ \A i, j \in DOMAIN logs : i < j => logs[i].block <= logs[j].block
  BY LogsAreTyped DEF LogsOK
<1>2. \E n \in 0 .. Len(logs) : IsIt(n)
  <2>1. CASE later = {}
    <3>1. IsIt(Len(logs)) /\ Len(logs) \in 0 .. Len(logs)
      BY <1>1, <2>1
    <3> HIDE DEF IsIt
    <3> QED BY <3>1
  <2>2. CASE later # {}
    <3>1. later \in SUBSET Nat
      BY <1>1
    <3>2. PICK x \in later : \A y \in later : x <= y
      <4> HIDE DEF later
      <4> QED BY <2>2, <3>1, LowestExists
    <3>3. x \in 1 .. Len(logs) /\ ~(logs[x].block < b)
      BY <1>1
    <3>4. ASSUME NEW i \in DOMAIN logs PROVE logs[i].block < b <=> i <= x - 1
      <4>1. i < x => logs[i].block < b
        BY <1>1, <3>2, <3>3
      <4>2. x < i => logs[x].block <= logs[i].block
        BY <1>1, <3>3
      <4> QED BY <1>1, <3>3, <4>1, <4>2
    <3>5. IsIt(x - 1) /\ x - 1 \in 0 .. Len(logs)
      BY <1>1, <3>3, <3>4
    <3> HIDE DEF IsIt
    <3> QED BY <3>5
  <2> QED BY <2>1, <2>2
<1> QED BY <1>2 DEF LogsBefore

\* The requests of a range are those logged in its blocks, each once.
LEMMA IdsOfIs ==
  ASSUME LogsOK, NEW r, r.from \in Nat, r.to \in Nat
  PROVE  /\ IdsOf(r) \in Seq(Ids)
         /\ \A k \in DOMAIN IdsOf(r) : \E i \in DOMAIN logs :
              logs[i].id = IdsOf(r)[k] /\ logs[i].block \in r.from .. r.to
         /\ \A k, l \in DOMAIN IdsOf(r) : IdsOf(r)[k] = IdsOf(r)[l] => k = l
         /\ \A i \in DOMAIN logs : logs[i].block \in r.from .. r.to =>
              \E k \in DOMAIN IdsOf(r) : IdsOf(r)[k] = logs[i].id
PROOF
<1> DEFINE passed == LogsBefore(r.from)
           end == LogsBefore(r.to + 1)
           size == end - passed
<1>1. /\ Len(logs) \in Nat /\ DOMAIN logs = 1 .. Len(logs)
      /\ \A i \in DOMAIN logs : logs[i].block \in Nat /\ logs[i].id \in Ids
      /\ \A i, j \in DOMAIN logs : logs[i].id = logs[j].id => i = j
  BY LogsAreTyped DEF LogsOK
<1>2. r.from \in Nat /\ r.to \in Nat /\ r.to + 1 \in Nat
  OBVIOUS
<1>3. /\ passed \in 0 .. Len(logs) /\ end \in 0 .. Len(logs)
      /\ \A i \in DOMAIN logs : logs[i].block < r.from <=> i <= passed
      /\ \A i \in DOMAIN logs : logs[i].block < r.to + 1 <=> i <= end
  BY <1>2, LogsBeforeIs
<1>4. IdsOf(r) = [i \in 1 .. size |-> logs[passed + i].id]
  BY DEF IdsOf
<1> HIDE DEF passed, end
<1>5. ASSUME NEW k \in 1 .. size
      PROVE  /\ passed + k \in DOMAIN logs /\ IdsOf(r)[k] = logs[passed + k].id
             /\ logs[passed + k].block \in r.from .. r.to
  <2>1. passed + k \in DOMAIN logs /\ passed < passed + k /\ passed + k <= end
    BY <1>1, <1>3
  <2>2. IdsOf(r)[k] = logs[passed + k].id
    BY <1>4
  <2> QED BY <1>1, <1>2, <1>3, <2>1, <2>2
<1>6. DOMAIN IdsOf(r) = 1 .. size
  BY <1>4
<1>7. IdsOf(r) \in Seq(Ids)
  <2>1. CASE size \in Nat
    <3>1. IdsOf(r) \in [1 .. size -> Ids]
      BY <1>1, <1>4, <1>5
    <3> HIDE DEF size
    <3> QED BY <2>1, <3>1
  <2>2. CASE size \notin Nat
    <3>1. 1 .. size = {}
      BY <1>3, <2>2
    <3>2. IdsOf(r) = <<>>
      BY <1>4, <3>1
    <3> QED BY <3>2
  <2> QED BY <2>1, <2>2
<1>8. ASSUME NEW k \in 1 .. size, NEW l \in 1 .. size, IdsOf(r)[k] = IdsOf(r)[l]
      PROVE  k = l
  <2>1. passed + k = passed + l
    BY <1>1, <1>5, <1>8
  <2> QED BY <1>3, <2>1
<1>9. ASSUME NEW i \in DOMAIN logs, logs[i].block \in r.from .. r.to
      PROVE  \E k \in 1 .. size : IdsOf(r)[k] = logs[i].id
  <2>1. ~(i <= passed) /\ i <= end
    BY <1>1, <1>2, <1>3, <1>9
  <2>2. i - passed \in 1 .. size /\ passed + (i - passed) = i
    BY <1>1, <1>3, <2>1
  <2> QED BY <1>5, <2>2
<1> QED BY <1>5, <1>6, <1>7, <1>8, <1>9

\* No logs before the first block.
LEMMA LogsInit == Init => LogsOK
BY DEF Init, LogsOK

\* A new log comes after the others, in the block after the head.
LEMMA LogIsAppended ==
  ASSUME LogsOK, head \in Blocks, NEW id \in Ids, ReceiveRequest(id)
  PROVE  /\ LogsOK'
         /\ DOMAIN logs \subseteq DOMAIN logs'
         /\ \A i \in DOMAIN logs : logs'[i] = logs[i]
         /\ \A i \in DOMAIN logs' \ DOMAIN logs : logs'[i].block = head + 1
PROOF
<1> DEFINE log == [block |-> head + 1, id |-> id]
           L == [block : 1 .. MaxBlocks, id : Ids]
<1>1. /\ head \in Nat /\ head + 1 \in 1 .. MaxBlocks /\ head' = head
      /\ logs' = Append(logs, log)
      /\ \A i \in DOMAIN logs : logs[i].id # id
  BY BoundsAreNat DEF ReceiveRequest, Blocks, Logged
<1>2. log \in L /\ log.block = head + 1 /\ log.id = id
  BY <1>1
<1>3. /\ logs \in Seq(L) /\ Len(logs) \in Nat /\ DOMAIN logs = 1 .. Len(logs)
      /\ \A i \in DOMAIN logs : logs[i].block \in Nat
  BY LogsAreTyped DEF LogsOK
<1> HIDE DEF log, L
<1>4. /\ logs' \in Seq(L) /\ DOMAIN logs' = 1 .. Len(logs) + 1
      /\ \A i \in 1 .. Len(logs) : logs'[i] = logs[i]
      /\ logs'[Len(logs) + 1] = log
  BY <1>1, <1>2, <1>3
<1>5. \A i \in DOMAIN logs' : i \in DOMAIN logs \/ i = Len(logs) + 1
  BY <1>3, <1>4
<1>6. \A i \in DOMAIN logs' : logs'[i].block <= head' + 1
  BY <1>1, <1>2, <1>3, <1>4, <1>5 DEF LogsOK
<1>7. \A i, j \in DOMAIN logs' : i < j => logs'[i].block <= logs'[j].block
  BY <1>1, <1>2, <1>3, <1>4, <1>5 DEF LogsOK
<1>8. \A i, j \in DOMAIN logs' : logs'[i].id = logs'[j].id => i = j
  BY <1>1, <1>2, <1>3, <1>4, <1>5 DEF LogsOK
<1>9. logs' \in Seq([block : 1 .. MaxBlocks, id : Ids])
  BY <1>4 DEF L
<1> QED BY <1>2, <1>3, <1>4, <1>5, <1>6, <1>7, <1>8, <1>9 DEF LogsOK

\* What a step of the node does to the chain: it grows.
LEMMA ChainGrows ==
  ASSUME LogsOK, head \in Blocks, NodeStep
  PROVE  /\ LogsOK'
         /\ DOMAIN logs \subseteq DOMAIN logs'
         /\ \A i \in DOMAIN logs : logs'[i] = logs[i]
         /\ \A i \in DOMAIN logs' \ DOMAIN logs : logs'[i].block = head + 1
PROOF
<1>1. CASE \E id \in Ids : ReceiveRequest(id)
  BY <1>1, LogIsAppended
<1>2. CASE \E n \in 0 .. Cardinality(pool) : MineBlock(n)
  <2>1. logs' = logs /\ head' = head + 1 /\ head \in Nat
    BY <1>2, BoundsAreNat DEF MineBlock, Blocks
  <2>2. \A i \in DOMAIN logs : logs[i].block <= head' + 1
    BY <2>1, LogsAreTyped DEF LogsOK
  <2> QED BY <2>1, <2>2 DEF LogsOK
<1>3. CASE \E id \in Ids : OtherExecutorAnswers(id)
  <2>1. UNCHANGED <<logs, head>>
    BY <1>3 DEF OtherExecutorAnswers
  <2> QED BY <2>1 DEF LogsOK
<1> QED BY <1>1, <1>2, <1>3 DEF NodeStep

\* Only the node writes the chain.
LEMMA ChainIsTheNodes ==
  ASSUME [Next]_vars
  PROVE  NodeStep \/ UNCHANGED <<head, logs>>
PROOF
<1>1. CASE Start \/ Cancel \/ Stop \/ ExecutorReturns \/ RelayerReturns \/ Tick
  BY <1>1 DEF Start, Cancel, Stop, ExecutorReturns, Ends, RelayerReturns, Tick, nodeVars
<1>2. CASE FilterLogs \/ FilterLogsFails \/ IterationFails \/ TakeRequest \/ TakeRequestLate
  BY <1>2 DEF FilterLogs, FilterLogsFails, TakeRange, IterationFails, TakeRequest,
              TakeRequestLate, TakesRequest, nodeVars
<1>3. CASE Submit \/ SubmitReplyLost \/ SubmitFails
  BY <1>3 DEF Submit, SubmitReplyLost, SubmitFails, NodeAccepts, nodeVars
<1>4. CASE UNCHANGED vars
  BY <1>4 DEF vars, nodeVars
<1> QED BY <1>1, <1>2, <1>3, <1>4 DEF Next, ExecutorStep

\* The logs keep their order whatever the process does.
LEMMA LogsStep == LogsOK /\ RangesOK /\ [Next]_vars => LogsOK'
PROOF
<1> SUFFICES ASSUME LogsOK, RangesOK, [Next]_vars PROVE LogsOK'
  OBVIOUS
<1>1. CASE NodeStep
  BY <1>1, ChainGrows DEF RangesOK
<1>2. CASE UNCHANGED <<head, logs>>
  BY <1>2 DEF LogsOK
<1> QED BY <1>1, <1>2, ChainIsTheNodes

----------------------------------------------------------------------------
(* The requests on their way through the process.                           *)

\* The listeners have passed the block the request is logged in.
Behind(id) == \E i \in DOMAIN logs : logs[i].id = id /\ logs[i].block <= lastBlock

\* What waits for the executor waits once, and nothing was sent for it.
TodoOK ==
  /\ todo \in Seq(Ids)
  /\ \A k \in DOMAIN todo : Behind(todo[k]) /\ todo[k] # current /\ sent[todo[k]] = 0
  /\ \A k, l \in DOMAIN todo : todo[k] = todo[l] => k = l

CurrentOK == current # None => current \in Ids /\ Behind(current) /\ sent[current] = 0

SentOK ==
  /\ sent \in [Ids -> {0, 1}]
  /\ \A id \in Ids : sent[id] = 1 => Behind(id)

RequestsOK == TodoOK /\ CurrentOK /\ SentOK

\* A process that has just started or ended has no requests.
LEMMA NoRequests ==
  ASSUME todo = <<>>, current = None, sent = [id \in Ids |-> 0]
  PROVE  RequestsOK
BY DEF RequestsOK, TodoOK, CurrentOK, SentOK

\* Steps that move no request and forget no block.
LEMMA RequestsUntouched ==
  ASSUME RequestsOK, UNCHANGED <<todo, current, sent>>,
         \A id \in Ids : Behind(id) => Behind(id)'
  PROVE  RequestsOK'
PROOF
<1>1. TodoOK'
  <2>1. \A k \in DOMAIN todo : todo[k] \in Ids
    BY DEF RequestsOK, TodoOK
  <2> QED BY <2>1 DEF RequestsOK, TodoOK
<1>2. CurrentOK'
  BY DEF RequestsOK, CurrentOK
<1>3. SentOK'
  BY DEF RequestsOK, SentOK
<1> QED BY <1>1, <1>2, <1>3 DEF RequestsOK

\* The blocks of a new range are past the listeners' last one, so none of its
\* requests has been in the process.
LEMMA OfferedIsNew ==
  ASSUME LogsOK, RangesOK, offered # None,
         NEW i \in DOMAIN logs, logs[i].block \in offered.from .. offered.to
  PROVE  ~Behind(logs[i].id)
PROOF
<1>1. /\ lastBlock \in Nat /\ offered.from \in Nat
      /\ lastBlock = 0 \/ offered.from = lastBlock + 1
  BY BoundsAreNat DEF RangesOK, OfferedContinues, Blocks
<1>2. ASSUME NEW j \in DOMAIN logs, logs[j].id = logs[i].id PROVE ~(logs[j].block <= lastBlock)
  <2>1. j = i
    BY <1>2 DEF LogsOK
  <2>2. logs[i].block \in Nat \ {0} /\ offered.from <= logs[i].block
    BY LogsAreTyped, <1>1
  <2> QED BY <1>1, <2>1, <2>2
<1> QED BY <1>2 DEF Behind

\* The blocks a range is taken for count as passed from then on.
LEMMA TakingPassesTheRange ==
  ASSUME LogsOK, RangesOK, TakeRange
  PROVE  /\ offered # None /\ offered.from \in Nat /\ offered.to \in Nat
         /\ UNCHANGED <<logs, current, sent, pool, answered>>
         /\ \A id : Behind(id) => Behind(id)'
         /\ \A i \in DOMAIN logs : logs[i].block \in offered.from .. offered.to =>
              Behind(logs[i].id)'
PROOF
<1>1. /\ offered # None /\ lastBlock' = offered.to
      /\ UNCHANGED <<logs, current, sent, pool, answered>>
  BY DEF TakeRange, nodeVars, executorVars
<1>2. /\ lastBlock \in Nat /\ offered.from \in Nat /\ offered.to \in Nat
      /\ lastBlock <= offered.to
  BY <1>1, BoundsAreNat DEF RangesOK, OfferedContinues, Blocks
<1>3. \A i \in DOMAIN logs : logs[i].block \in Nat
  BY LogsAreTyped
<1>4. \A id : Behind(id) => Behind(id)'
  BY <1>1, <1>2, <1>3 DEF Behind
<1>5. \A i \in DOMAIN logs : logs[i].block \in offered.from .. offered.to =>
        Behind(logs[i].id)'
  BY <1>1, <1>2, <1>3 DEF Behind
<1> QED BY <1>1, <1>2, <1>4, <1>5

\* A range is read: its requests are new, and each comes once.
LEMMA RangeIsRead == LogsOK /\ RangesOK /\ RequestsOK /\ FilterLogs => RequestsOK'
PROOF
<1> SUFFICES ASSUME LogsOK, RangesOK, RequestsOK, FilterLogs PROVE RequestsOK'
  OBVIOUS
<1>1. TakeRange /\ todo' = IdsOf(offered)
  BY DEF FilterLogs
<1>2. /\ offered # None /\ offered.from \in Nat /\ offered.to \in Nat
      /\ UNCHANGED <<logs, current, sent>>
      /\ \A id : Behind(id) => Behind(id)'
      /\ \A i \in DOMAIN logs : logs[i].block \in offered.from .. offered.to =>
           Behind(logs[i].id)'
  BY <1>1, TakingPassesTheRange
<1>3. /\ todo' \in Seq(Ids)
      /\ \A k \in DOMAIN todo' : \E i \in DOMAIN logs :
           logs[i].id = todo'[k] /\ logs[i].block \in offered.from .. offered.to
      /\ \A k, l \in DOMAIN todo' : todo'[k] = todo'[l] => k = l
  BY <1>1, <1>2, IdsOfIs
<1>4. ASSUME NEW k \in DOMAIN todo'
      PROVE  Behind(todo[k])' /\ todo'[k] # current' /\ sent'[todo'[k]] = 0
  <2>1. PICK i \in DOMAIN logs :
          logs[i].id = todo'[k] /\ logs[i].block \in offered.from .. offered.to
    BY <1>3
  <2>2. ~Behind(logs[i].id) /\ logs[i].id \in Ids
    BY <1>2, <2>1, OfferedIsNew, LogsAreTyped
  <2>3. logs[i].id # current
    BY <2>2, NoneIsNothingElse DEF RequestsOK, CurrentOK
  <2>4. sent[logs[i].id] = 0
    BY <2>2 DEF RequestsOK, SentOK
  <2>5. Behind(todo[k])'
    <3>1. Behind(logs[i].id)'
      BY <1>2, <2>1
    <3> QED BY <1>2, <2>1, <3>1 DEF Behind
  <2> QED BY <1>2, <2>1, <2>3, <2>4, <2>5
<1>5. TodoOK'
  BY <1>3, <1>4 DEF TodoOK
<1>6. CurrentOK' /\ SentOK'
  BY <1>2 DEF RequestsOK, CurrentOK, SentOK
<1> QED BY <1>5, <1>6 DEF RequestsOK

\* The executor takes the first request, or drops it; the others stay.
LEMMA RequestIsTaken ==
  ASSUME RequestsOK, TakesRequest, current' \in {current, Head(todo)}
  PROVE  RequestsOK'
PROOF
<1>1. /\ todo # <<>> /\ todo' = Tail(todo) /\ current = None
      /\ UNCHANGED <<logs, lastBlock, sent>>
  BY DEF TakesRequest, nodeVars, listenerVars
<1>2. /\ todo \in Seq(Ids)
      /\ \A k \in DOMAIN todo : Behind(todo[k]) /\ sent[todo[k]] = 0
      /\ \A k, l \in DOMAIN todo : todo[k] = todo[l] => k = l
  BY DEF RequestsOK, TodoOK
<1>3. /\ todo' \in Seq(Ids) /\ Head(todo) = todo[1] /\ 1 \in DOMAIN todo
      /\ \A k \in DOMAIN todo' : k \in Nat \ {0} /\ k + 1 \in DOMAIN todo /\ todo'[k] = todo[k + 1]
  <2>1. /\ Len(todo) \in Nat \ {0} /\ DOMAIN todo = 1 .. Len(todo)
        /\ Tail(todo) \in Seq(Ids) /\ Len(Tail(todo)) = Len(todo) - 1
    BY <1>1, <1>2
  <2>2. DOMAIN Tail(todo) = 1 .. Len(todo) - 1
    BY <2>1
  <2>3. \A k \in 1 .. Len(todo) - 1 : Tail(todo)[k] = todo[k + 1]
    BY <1>1, <1>2
  <2> QED BY <1>1, <1>2, <2>1, <2>2, <2>3
<1>4. \A k \in DOMAIN todo : todo[k] \in Ids
  BY <1>2
<1>5. \A id : Behind(id) => Behind(id)'
  BY <1>1 DEF Behind
<1>6. TodoOK'
  <2>1. \A k, l \in DOMAIN todo' : todo'[k] = todo'[l] => k = l
    <3>1. ASSUME NEW k \in DOMAIN todo', NEW l \in DOMAIN todo', todo'[k] = todo'[l]
          PROVE  k = l
      <4>1. k + 1 = l + 1 /\ k \in Nat /\ l \in Nat
        BY <1>2, <1>3, <3>1
      <4> QED BY <4>1
    <3> QED BY <3>1
  <2>2. ASSUME NEW k \in DOMAIN todo'
        PROVE  Behind(todo[k])' /\ todo'[k] # current' /\ sent'[todo'[k]] = 0
    <3>1. k + 1 \in DOMAIN todo /\ k + 1 # 1 /\ todo'[k] = todo[k + 1]
      BY <1>3
    <3>2. todo[k + 1] # todo[1] /\ todo[k + 1] # None
      BY <1>2, <1>3, <1>4, <3>1, NoneIsNothingElse
    <3>3. Behind(todo[k])'
      <4>1. Behind(todo[k + 1])
        BY <1>2, <3>1
      <4> QED BY <1>1, <3>1, <4>1 DEF Behind
    <3> QED BY <1>1, <1>2, <1>3, <3>1, <3>2, <3>3
  <2> QED BY <1>3, <2>1, <2>2 DEF TodoOK
<1>7. CurrentOK'
  BY <1>1, <1>2, <1>3, <1>4, <1>5 DEF CurrentOK
<1>8. SentOK'
  BY <1>1, <1>5 DEF RequestsOK, SentOK
<1> QED BY <1>6, <1>7, <1>8 DEF RequestsOK

\* The node accepts the transaction of the executor's request, which leaves
\* the executor, with or without the reply.
LEMMA RequestIsSent ==
  ASSUME RequestsOK, Working, NodeAccepts, current' = None, UNCHANGED <<lastBlock, todo>>
  PROVE  RequestsOK'
PROOF
<1>1. /\ current \in Ids /\ Behind(current) /\ sent[current] = 0
      /\ sent \in [Ids -> {0, 1}]
  BY DEF Working, RequestsOK, CurrentOK, SentOK
<1>2. logs' = logs /\ sent' = [sent EXCEPT ![current] = 1]
  BY <1>1 DEF NodeAccepts, OneMore
<1>3. \A id : Behind(id) => Behind(id)'
  BY <1>2 DEF Behind
<1>4. TodoOK'
  <2>1. \A k \in DOMAIN todo : todo[k] \in Ids /\ todo[k] # None
    BY NoneIsNothingElse DEF RequestsOK, TodoOK
  <2> QED BY <1>1, <1>2, <1>3, <2>1 DEF RequestsOK, TodoOK
<1>5. CurrentOK'
  BY DEF CurrentOK
<1>6. SentOK'
  BY <1>1, <1>2, <1>3 DEF RequestsOK, SentOK
<1> QED BY <1>4, <1>5, <1>6 DEF RequestsOK

\* Every step of the node and the process keeps the requests apart.
LEMMA RequestsStep == LogsOK /\ RangesOK /\ RequestsOK /\ [Next]_vars => RequestsOK'
PROOF
<1> SUFFICES ASSUME LogsOK, RangesOK, RequestsOK, [Next]_vars PROVE RequestsOK'
  OBVIOUS
<1>1. CASE NodeStep
  <2>1. UNCHANGED <<todo, current, sent, lastBlock>>
    BY <1>1 DEF NodeStep, listenerVars, executorVars
  <2>2. \A i \in DOMAIN logs : i \in DOMAIN logs' /\ logs'[i] = logs[i]
    BY <1>1, ChainGrows DEF RangesOK
  <2>3. \A id : Behind(id) => Behind(id)'
    BY <2>1, <2>2 DEF Behind
  <2> QED BY <2>1, <2>3, RequestsUntouched
<1>2. CASE Start \/ Cancel \/ RelayerReturns \/ Tick
  <2>1. UNCHANGED <<todo, current, sent, lastBlock, logs>>
    BY <1>2 DEF Start, Cancel, RelayerReturns, Tick, nodeVars, listenerVars, executorVars
  <2>2. \A id : Behind(id) => Behind(id)'
    BY <2>1 DEF Behind
  <2> QED BY <2>1, <2>2, RequestsUntouched
<1>3. CASE Stop \/ ExecutorReturns
  <2>1. todo' = <<>> /\ current' = None /\ sent' = [id \in Ids |-> 0]
    BY <1>3 DEF Stop, ExecutorReturns, Ends
  <2> QED BY <2>1 DEF RequestsOK, TodoOK, CurrentOK, SentOK
<1>4. CASE FilterLogs
  BY <1>4, RangeIsRead
<1>5. CASE FilterLogsFails
  BY <1>5, TakingPassesTheRange, RequestsUntouched DEF FilterLogsFails
<1>6. CASE IterationFails
  <2>1. todo' = <<>> /\ UNCHANGED <<current, sent, lastBlock, logs>>
    BY <1>6 DEF IterationFails, nodeVars, listenerVars, executorVars
  <2> QED BY <2>1 DEF RequestsOK, TodoOK, CurrentOK, SentOK, Behind
<1>7. CASE TakeRequest \/ TakeRequestLate
  BY <1>7, RequestIsTaken DEF TakeRequest, TakeRequestLate
<1>8. CASE Submit \/ SubmitReplyLost
  BY <1>8, RequestIsSent DEF Submit, SubmitReplyLost, GiveUp, listenerVars
<1>9. CASE SubmitFails
  <2>1. current' = None /\ UNCHANGED <<todo, sent, lastBlock, logs>>
    BY <1>9 DEF SubmitFails, GiveUp, nodeVars, listenerVars
  <2>2. \A k \in DOMAIN todo : todo[k] # None
    BY NoneIsNothingElse DEF RequestsOK, TodoOK
  <2> QED BY <2>1, <2>2 DEF RequestsOK, TodoOK, CurrentOK, SentOK, Behind
<1>10. CASE UNCHANGED vars
  <2>1. UNCHANGED <<todo, current, sent, lastBlock, logs>>
    BY <1>10 DEF vars, nodeVars, listenerVars, executorVars
  <2>2. \A id : Behind(id) => Behind(id)'
    BY <2>1 DEF Behind
  <2> QED BY <2>1, <2>2, RequestsUntouched
<1> QED BY <1>1, <1>2, <1>3, <1>4, <1>5, <1>6, <1>7, <1>8, <1>9, <1>10
        DEF Next, ExecutorStep

\* No request of a run of the process has two transactions, whatever the
\* ranges, the failures and the lost replies: what is sent for is behind the
\* listeners, and they never turn back.
THEOREM RequestsAreSentOnce == Spec => []SentOnce
<1>1. Init => RequestsOK
  BY NoRequests DEF Init
<1>2. RequestsOK => SentOnce
  BY DEF RequestsOK, SentOK, SentOnce
<1> QED BY <1>1, <1>2, LogsInit, LogsStep, RangesInit, RangesStep, RequestsStep, PTL DEF Spec

----------------------------------------------------------------------------
(* The requests that are behind the listeners.                              *)

\* A transaction that waits with a nonce the process may use again is one
\* whose reply was lost, so its request was given up.
LostAreDropped == up => \A t \in pool : t.nonce >= nonce => t.id \in dropped

\* The listeners have a first block in a running process only.
DownIsUnstarted == up \/ first = None

\* What NothingForgotten says of one request.
AccountedFor(id) ==
  \/ id \in {todo[k] : k \in DOMAIN todo} \cup {current}
  \/ id \in dropped \cup answered
  \/ \E t \in pool : t.id = id

AccountOK == LostAreDropped /\ DownIsUnstarted /\ NothingForgotten

\* Nothing is behind the listeners of a process that does not run.
LEMMA AccountInit == Init => AccountOK
BY DEF Init, AccountOK, LostAreDropped, DownIsUnstarted, NothingForgotten, StartedOnABlock

\* Steps of a running process that keep the account of each request.
LEMMA AccountKept ==
  ASSUME AccountOK, UNCHANGED <<up, first, lastBlock, logs>>, LostAreDropped',
         \A i \in DOMAIN logs : AccountedFor(logs[i].id) => AccountedFor(logs[i].id)'
  PROVE  AccountOK'
BY DEF AccountOK, DownIsUnstarted, NothingForgotten, StartedOnABlock, AccountedFor

\* The node logs requests past the listeners, and what it takes out of the
\* pool it has answered.
LEMMA NodeKeepsAccount ==
  ASSUME LogsOK, RangesOK, AccountOK, NodeStep
  PROVE  AccountOK'
PROOF
<1>1. UNCHANGED <<up, first, lastBlock, todo, current, nonce, dropped>>
  BY DEF NodeStep, runVars, listenerVars, executorVars
<1>2. \A i \in DOMAIN logs' : \/ i \in DOMAIN logs /\ logs'[i] = logs[i]
                              \/ ~(logs'[i].block <= lastBlock)
  <2>1. head \in Nat /\ lastBlock \in Nat /\ lastBlock <= head
    BY BoundsAreNat DEF RangesOK, Blocks
  <2>2. ASSUME NEW i \in DOMAIN logs' \ DOMAIN logs PROVE ~(logs'[i].block <= lastBlock)
    BY <2>1, <2>2, ChainGrows DEF RangesOK
  <2> QED BY <2>2, ChainGrows DEF RangesOK
<1>3. /\ \A t \in pool' : t \in pool
      /\ \A t \in pool : t \in pool' \/ t.id \in answered'
      /\ \A id \in answered : id \in answered'
  <2>1. CASE \E n \in 0 .. Cardinality(pool) : MineBlock(n)
    BY <2>1 DEF MineBlock
  <2>2. CASE \E id \in Ids : ReceiveRequest(id) \/ OtherExecutorAnswers(id)
    BY <2>2 DEF ReceiveRequest, OtherExecutorAnswers
  <2> QED BY <2>1, <2>2 DEF NodeStep
<1>4. LostAreDropped' /\ DownIsUnstarted'
  BY <1>1, <1>3 DEF AccountOK, LostAreDropped, DownIsUnstarted
<1>5. \A id : AccountedFor(id) => AccountedFor(id)'
  BY <1>1, <1>3 DEF AccountedFor
<1>6. NothingForgotten'
  <2>1. SUFFICES ASSUME StartedOnABlock', NEW i \in DOMAIN logs',
                        logs'[i].block \in first' .. lastBlock'
                 PROVE  AccountedFor(logs[i].id)'
    BY DEF NothingForgotten, AccountedFor
  <2>2. i \in DOMAIN logs /\ logs'[i] = logs[i]
    <3>1. logs'[i].block <= lastBlock
      BY <1>1, <2>1, BoundsAreNat, NoneIsNothingElse DEF RangesOK, StartedOnABlock, Blocks
    <3> QED BY <1>2, <3>1
  <2>3. AccountedFor(logs[i].id)
    BY <1>1, <2>1, <2>2 DEF AccountOK, NothingForgotten, StartedOnABlock, AccountedFor
  <2> QED BY <1>5, <2>2, <2>3 DEF AccountedFor
<1> QED BY <1>4, <1>6 DEF AccountOK

\* A process that starts uses no nonce that is waiting.
LEMMA StartKeepsAccount == NoncesOK /\ AccountOK /\ Start => AccountOK'
PROOF
<1> SUFFICES ASSUME NoncesOK, AccountOK, Start PROVE AccountOK'
  OBVIOUS
<1>1. /\ ~up /\ up' = TRUE /\ nonce' = PendingNonce
      /\ UNCHANGED <<pool, first, dropped>>
  BY DEF Start, NewTransactor, nodeVars, listenerVars
<1>2. first' = None
  BY <1>1 DEF AccountOK, DownIsUnstarted
<1>3. ASSUME NEW t \in pool PROVE ~(t.nonce >= PendingNonce)
  <2>1. t.nonce \in minedNonce .. PendingNonce - 1
    BY DEF NoncesOK, NoNonceGap, NoGap, NoncesOf, PendingNonce
  <2> QED BY <2>1 DEF NoncesOK
<1>4. LostAreDropped'
  BY <1>1, <1>3 DEF LostAreDropped
<1> QED BY <1>1, <1>2, <1>4 DEF AccountOK, DownIsUnstarted, NothingForgotten, StartedOnABlock

\* The requests of the range that is taken are in todo or given up, and no
\* other is behind the listeners now: the range is next to those before it.
LEMMA RangeIsAccountedFor ==
  ASSUME LogsOK, RangesOK, AccountOK, TakeRange,
         \A t \in dropped : t \in dropped',
         \A k \in DOMAIN IdsOf(offered) :
           IdsOf(offered)[k] \in {todo'[l] : l \in DOMAIN todo'} \cup dropped'
  PROVE  AccountOK'
PROOF
<1>1. /\ offered # None /\ offered.from \in Nat /\ offered.to \in Nat
      /\ UNCHANGED <<logs, current, pool, answered>>
  BY TakingPassesTheRange
<1>2. /\ todo = <<>> /\ lastBlock' = offered.to /\ up' = up /\ up /\ nonce' = nonce
      /\ first' = IF first = None THEN offered.from ELSE first
  BY DEF TakeRange, runVars, executorVars
<1>3. LostAreDropped' /\ DownIsUnstarted'
  BY <1>1, <1>2 DEF AccountOK, LostAreDropped, DownIsUnstarted
<1>4. \A id : AccountedFor(id) => AccountedFor(id)'
  BY <1>1, <1>2 DEF AccountedFor
<1>5. ASSUME NEW i \in DOMAIN logs, logs[i].block \in offered.from .. offered.to
      PROVE  AccountedFor(logs[i].id)'
  <2>1. PICK k \in DOMAIN IdsOf(offered) : IdsOf(offered)[k] = logs[i].id
    BY <1>1, <1>5, IdsOfIs
  <2>2. logs[i].id \in {todo'[l] : l \in DOMAIN todo'} \cup dropped'
    BY <2>1
  <2> QED BY <1>1, <2>2 DEF AccountedFor
<1>6. ASSUME first \notin {None, 0}, NEW i \in DOMAIN logs,
             logs[i].block \in first .. offered.to
      PROVE  AccountedFor(logs[i].id)'
  <2>1. /\ first \in Nat /\ first # 0 /\ first <= lastBlock /\ lastBlock \in Nat
        /\ offered.from = lastBlock + 1
    BY <1>1, <1>6, BoundsAreNat DEF RangesOK, OfferedContinues, Blocks
  <2>2. logs[i].block \in first .. lastBlock \/ logs[i].block \in offered.from .. offered.to
    BY <1>1, <1>6, <2>1, LogsAreTyped
  <2>3. CASE logs[i].block \in first .. lastBlock
    <3>1. AccountedFor(logs[i].id)
      BY <1>2, <1>6, <2>3 DEF AccountOK, NothingForgotten, StartedOnABlock, AccountedFor
    <3>2. AccountedFor(logs[i].id)'
      <4> DEFINE id == logs[i].id
      <4>1. id \in {current} \/ id \in dropped \cup answered \/ \E t \in pool : t.id = id
        BY <1>2, <3>1 DEF AccountedFor
      <4>2. id' = id /\ UNCHANGED <<current, answered, pool>>
        BY <1>1
      <4> QED BY <4>1, <4>2 DEF AccountedFor
    <3> QED BY <3>2
  <2> QED BY <1>5, <2>2, <2>3
<1>7. NothingForgotten'
  <2>1. SUFFICES ASSUME StartedOnABlock', NEW i \in DOMAIN logs,
                        logs[i].block \in first' .. lastBlock'
                 PROVE  AccountedFor(logs[i].id)'
    BY <1>1 DEF NothingForgotten, AccountedFor
  <2>2. CASE first = None
    BY <1>2, <1>5, <2>1, <2>2
  <2>3. CASE first # None
    BY <1>2, <1>6, <2>1, <2>3 DEF StartedOnABlock
  <2> QED BY <2>2, <2>3
<1> QED BY <1>3, <1>7 DEF AccountOK

\* What the node accepts for the executor's request takes the place of a
\* transaction whose request was given up.
LEMMA SendingKeepsAccount ==
  ASSUME NoncesOK, AccountOK, Working, NodeAccepts,
         current' = None, UNCHANGED <<up, todo, listenerVars>>,
         \/ nonce' = nonce + 1 /\ dropped' = dropped
         \/ nonce' = nonce /\ dropped' = dropped \cup {current}
  PROVE  AccountOK'
PROOF
<1> DEFINE tx == [nonce |-> nonce, id |-> current]
<1>1. /\ up /\ nonce \in Nat /\ tx.nonce = nonce /\ tx.id = current
      /\ \A t \in pool : t.nonce \in Nat
      /\ \A t \in pool : t.nonce >= nonce => t.id \in dropped
  BY DEF NoncesOK, AccountOK, LostAreDropped, Working
<1>2. /\ pool' = {t \in pool : t.nonce # tx.nonce} \cup {tx}
      /\ UNCHANGED <<logs, answered, first, lastBlock>>
  BY DEF NodeAccepts, WithTransaction, listenerVars
<1>3. LostAreDropped'
  <2> HIDE DEF tx
  <2>1. ASSUME NEW t \in pool', t.nonce >= nonce' PROVE t.id \in dropped'
    <3>1. CASE t = tx
      BY <1>1, <2>1, <3>1
    <3>2. CASE t # tx
      BY <1>1, <1>2, <2>1, <3>2
    <3> QED BY <3>1, <3>2
  <2> QED BY <2>1 DEF LostAreDropped
<1>4. ASSUME NEW id, AccountedFor(id) PROVE AccountedFor(id)'
  <2> HIDE DEF tx
  <2>1. tx \in pool' /\ \A t \in pool : t \in pool' \/ t.id \in dropped
    BY <1>1, <1>2
  <2> QED BY <1>1, <1>2, <1>4, <2>1 DEF AccountedFor
<1>5. UNCHANGED <<up, first, lastBlock, logs>>
  BY <1>2
<1>6. \A i \in DOMAIN logs : AccountedFor(logs[i].id) => AccountedFor(logs[i].id)'
  <2> SUFFICES ASSUME NEW i \in DOMAIN logs, AccountedFor(logs[i].id)
               PROVE  AccountedFor(logs[i].id)'
    OBVIOUS
  <2>1. PICK id : id = logs[i].id
    OBVIOUS
  <2>2. AccountedFor(id)'
    BY <1>4, <2>1
  <2> QED BY <1>2, <2>1, <2>2 DEF AccountedFor
<1> QED BY <1>3, <1>5, <1>6, AccountKept

\* Every step of the node and the process keeps the account.
LEMMA AccountStep ==
  NoncesOK /\ LogsOK /\ RangesOK /\ RequestsOK /\ AccountOK /\ [Next]_vars => AccountOK'
PROOF
<1> SUFFICES ASSUME NoncesOK, LogsOK, RangesOK, RequestsOK, AccountOK, [Next]_vars
             PROVE  AccountOK'
  OBVIOUS
<1>1. CASE NodeStep
  BY <1>1, NodeKeepsAccount
<1>2. CASE Start
  BY <1>2, StartKeepsAccount
<1>3. CASE Stop \/ ExecutorReturns
  <2>1. up' = FALSE /\ first' = None
    BY <1>3 DEF Stop, ExecutorReturns, Ends
  <2> QED BY <2>1 DEF AccountOK, LostAreDropped, DownIsUnstarted, NothingForgotten, StartedOnABlock
<1>4. CASE Cancel \/ RelayerReturns \/ Tick
  <2>1. UNCHANGED <<up, first, lastBlock, logs, todo, current, nonce, pool, answered, dropped>>
    BY <1>4 DEF Cancel, RelayerReturns, Tick, nodeVars, runVars, listenerVars, executorVars
  <2> QED BY <2>1 DEF AccountOK, LostAreDropped, DownIsUnstarted, NothingForgotten, StartedOnABlock
<1>5. CASE FilterLogs
  <2>1. TakeRange /\ todo' = IdsOf(offered) /\ dropped' = dropped
    BY <1>5 DEF FilterLogs
  <2> QED BY <2>1, RangeIsAccountedFor
<1>6. CASE FilterLogsFails
  <2>1. /\ TakeRange
        /\ dropped' = dropped \cup {IdsOf(offered)[i] : i \in DOMAIN IdsOf(offered)}
    BY <1>6 DEF FilterLogsFails
  <2>2. /\ \A t \in dropped : t \in dropped'
        /\ \A k \in DOMAIN IdsOf(offered) : IdsOf(offered)[k] \in dropped'
    BY <2>1
  <2> QED BY <2>1, <2>2, RangeIsAccountedFor
<1>7. CASE IterationFails
  <2>1. /\ UNCHANGED <<up, first, lastBlock, logs, current, nonce, pool, answered>>
        /\ dropped' = dropped \cup {todo[i] : i \in DOMAIN todo}
    BY <1>7 DEF IterationFails, nodeVars, runVars, listenerVars, executorVars
  <2>2. LostAreDropped'
    BY <2>1 DEF AccountOK, LostAreDropped
  <2>3. \A i \in DOMAIN logs : AccountedFor(logs[i].id) => AccountedFor(logs[i].id)'
    BY <2>1 DEF AccountedFor
  <2> QED BY <2>1, <2>2, <2>3, AccountKept
<1>8. CASE TakeRequest \/ TakeRequestLate
  <2>1. /\ UNCHANGED <<up, first, lastBlock, logs, nonce, pool, answered>>
        /\ current = None /\ todo # <<>> /\ todo' = Tail(todo)
        /\ \/ current' = Head(todo) /\ dropped' = dropped
           \/ current' = current /\ dropped' = dropped \cup {Head(todo)}
    BY <1>8 DEF TakeRequest, TakeRequestLate, TakesRequest, nodeVars, runVars, listenerVars
  <2>2. LostAreDropped'
    BY <2>1 DEF AccountOK, LostAreDropped
  <2>3. \A k \in DOMAIN todo : todo[k] = Head(todo) \/ \E l \in DOMAIN todo' : todo'[l] = todo[k]
    <3>1. /\ todo \in Seq(Ids) /\ Len(todo) \in Nat \ {0} /\ DOMAIN todo = 1 .. Len(todo)
          /\ Head(todo) = todo[1]
      BY <2>1 DEF RequestsOK, TodoOK
    <3>2. /\ DOMAIN todo' = 1 .. Len(todo) - 1
          /\ \A l \in 1 .. Len(todo) - 1 : todo'[l] = todo[l + 1]
      <4>1. Tail(todo) \in Seq(Ids) /\ Len(Tail(todo)) = Len(todo) - 1
        BY <2>1, <3>1
      <4> QED BY <2>1, <3>1, <4>1
    <3>3. ASSUME NEW k \in DOMAIN todo, k # 1
          PROVE  \E l \in DOMAIN todo' : todo'[l] = todo[k]
      <4>1. k - 1 \in 1 .. Len(todo) - 1 /\ (k - 1) + 1 = k
        BY <3>1, <3>3
      <4> QED BY <3>2, <4>1
    <3> QED BY <3>1, <3>3
  <2>4. ASSUME NEW i \in DOMAIN logs, AccountedFor(logs[i].id),
               logs[i].id # current
        PROVE  AccountedFor(logs[i].id)'
    BY <2>1, <2>3, <2>4 DEF AccountedFor
  <2>5. \A i \in DOMAIN logs : logs[i].id # current
    BY <2>1, LogsAreTyped, NoneIsNothingElse
  <2> QED BY <2>1, <2>2, <2>4, <2>5, AccountKept
<1>9. CASE Submit \/ SubmitReplyLost
  <2>1. /\ Working /\ NodeAccepts /\ current' = None /\ UNCHANGED <<up, todo, listenerVars>>
        /\ \/ nonce' = nonce + 1 /\ dropped' = dropped
           \/ nonce' = nonce /\ dropped' = dropped \cup {current}
    BY <1>9 DEF Submit, SubmitReplyLost, GiveUp, runVars
  <2> QED BY <2>1, SendingKeepsAccount
<1>10. CASE SubmitFails
  <2>1. /\ UNCHANGED <<up, first, lastBlock, logs, todo, nonce, pool, answered>>
        /\ dropped' = dropped \cup {current}
    BY <1>10 DEF SubmitFails, GiveUp, nodeVars, runVars, listenerVars
  <2>2. LostAreDropped'
    BY <2>1 DEF AccountOK, LostAreDropped
  <2>3. \A i \in DOMAIN logs : AccountedFor(logs[i].id) => AccountedFor(logs[i].id)'
    BY <2>1 DEF AccountedFor
  <2> QED BY <2>1, <2>2, <2>3, AccountKept
<1>11. CASE UNCHANGED vars
  <2>1. UNCHANGED <<up, first, lastBlock, logs, todo, current, nonce, pool, answered, dropped>>
    BY <1>11 DEF vars, nodeVars, runVars, listenerVars, executorVars
  <2> QED BY <2>1 DEF AccountOK, LostAreDropped, DownIsUnstarted, NothingForgotten, StartedOnABlock
<1> QED BY <1>1, <1>2, <1>3, <1>4, <1>5, <1>6, <1>7, <1>8, <1>9, <1>10, <1>11
        DEF Next, ExecutorStep

\* A logged request the listeners have passed is on its way, given up after an
\* error, answered, or its answer is with the node: no interleaving of ranges,
\* failed queries, lost replies and replaced transactions loses one silently.
THEOREM NothingIsForgotten == Spec => []NothingForgotten
<1>1. AccountOK => NothingForgotten
  BY DEF AccountOK
<1>2. Init => RequestsOK
  BY NoRequests DEF Init
<1> QED BY <1>1, <1>2, NoncesInit, NoncesStep, LogsInit, LogsStep, RangesInit, RangesStep,
           RequestsStep, AccountInit, AccountStep, PTL DEF Spec

----------------------------------------------------------------------------
(* Types.  Those of the logs, todo, current, nonce and the numbers of       *)
(* blocks are in the invariants above.                                      *)

RestOfTypeOK ==
  /\ answered \in SUBSET Ids /\ pool \in SUBSET Transactions /\ dropped \in SUBSET Ids
  /\ up \in BOOLEAN /\ cancelled \in BOOLEAN /\ relaying \in BOOLEAN
  /\ offered \in Ranges \cup {None}
  /\ starts \in 0 .. MaxStarts
  /\ scanned \in [Blocks -> Counts]

Types == RestOfTypeOK /\ NoncesOK /\ LogsOK /\ RangesOK /\ RequestsOK

\* The variables that are not in the other invariants, in the first state.
LEMMA RestOfTypeInit == Init => RestOfTypeOK
PROOF
<1>1. [b \in Blocks |-> 0] \in [Blocks -> Counts]
  BY DEF Counts
<1>2. 0 \in 0 .. MaxStarts
  BY BoundsAreNat
<1> QED BY <1>1, <1>2 DEF Init, RestOfTypeOK

\* A range that is taken counts for its blocks.
LEMMA TakeRangeKeepsTypes ==
  ASSUME Types, TakeRange, dropped' \in SUBSET Ids
  PROVE  RestOfTypeOK'
PROOF
<1>1. /\ UNCHANGED <<answered, pool, up, cancelled, relaying, starts>> /\ offered' = None
      /\ scanned' = [b \in Blocks |-> IF b \in offered.from .. offered.to
                                      THEN OneMore(scanned[b]) ELSE scanned[b]]
  BY DEF TakeRange, nodeVars, runVars
<1>2. \A n \in Counts : OneMore(n) \in Counts
  BY DEF Counts, OneMore
<1>3. \A b \in Blocks : scanned[b] \in Counts
  BY DEF Types, RestOfTypeOK
<1>4. scanned' \in [Blocks -> Counts]
  BY <1>1, <1>2, <1>3
<1> QED BY <1>1, <1>4 DEF Types, RestOfTypeOK

\* Every step keeps the types of those variables.
LEMMA RestOfTypeStep == Types /\ [Next]_vars => RestOfTypeOK'
PROOF
<1> SUFFICES ASSUME Types, [Next]_vars PROVE RestOfTypeOK'
  OBVIOUS
<1> USE DEF Types
<1>1. CASE NodeStep
  <2>1. UNCHANGED <<up, cancelled, relaying, starts, offered, scanned, dropped>>
    BY <1>1 DEF NodeStep, runVars, listenerVars
  <2>2. CASE \E id \in Ids : ReceiveRequest(id) \/ OtherExecutorAnswers(id)
    BY <2>1, <2>2 DEF ReceiveRequest, OtherExecutorAnswers, RestOfTypeOK
  <2>3. ASSUME NEW n \in 0 .. Cardinality(pool), MineBlock(n) PROVE RestOfTypeOK'
    <3>1. /\ answered' = answered \cup {t.id : t \in {u \in pool : u.nonce < minedNonce + n}}
          /\ pool' \subseteq pool
      BY <2>3 DEF MineBlock
    <3>2. \A t \in pool : t.id \in Ids
      BY DEF RestOfTypeOK, Transactions
    <3> QED BY <2>1, <3>1, <3>2 DEF RestOfTypeOK
  <2> QED BY <1>1, <2>2, <2>3 DEF NodeStep
<1>2. CASE Start
  <2>1. starts' \in 0 .. MaxStarts
    BY <1>2, BoundsAreNat DEF Start, RestOfTypeOK
  <2> QED BY <1>2, <2>1 DEF Start, LoadConfig, RestOfTypeOK, nodeVars, listenerVars
<1>3. CASE Stop \/ ExecutorReturns
  <2>1. [b \in Blocks |-> 0] \in [Blocks -> Counts]
    BY DEF Counts
  <2> QED BY <1>3, <2>1 DEF Stop, ExecutorReturns, Ends, RestOfTypeOK, nodeVars
<1>4. CASE Cancel \/ RelayerReturns
  BY <1>4 DEF Cancel, RelayerReturns, RestOfTypeOK, nodeVars, listenerVars
<1>5. CASE Tick
  <2>1. offered' \in Ranges
    BY <1>5, BoundsAreNat DEF Tick, NewRange, RangesOK, Ranges, Blocks
  <2> QED BY <1>5, <2>1 DEF Tick, RestOfTypeOK, nodeVars, runVars
<1>6. CASE FilterLogs
  BY <1>6, TakeRangeKeepsTypes DEF FilterLogs, RestOfTypeOK
<1>7. CASE FilterLogsFails
  <2>1. TakeRange /\ dropped' = dropped \cup {IdsOf(offered)[i] : i \in DOMAIN IdsOf(offered)}
    BY <1>7 DEF FilterLogsFails
  <2>2. IdsOf(offered) \in Seq(Ids)
    BY <2>1, TakingPassesTheRange, IdsOfIs
  <2>3. dropped' \in SUBSET Ids
    BY <2>1, <2>2 DEF RestOfTypeOK
  <2> QED BY <2>1, <2>3, TakeRangeKeepsTypes
<1>8. CASE IterationFails \/ TakeRequest \/ TakeRequestLate
  <2>1. todo \in Seq(Ids)
    BY DEF RequestsOK, TodoOK
  <2>2. dropped' \in SUBSET Ids
    BY <1>8, <2>1 DEF IterationFails, TakeRequest, TakeRequestLate, TakesRequest, RestOfTypeOK
  <2> QED BY <1>8, <2>2 DEF IterationFails, TakeRequest, TakeRequestLate, TakesRequest,
                            RestOfTypeOK, nodeVars, runVars, listenerVars
<1>9. CASE Submit \/ SubmitReplyLost \/ SubmitFails
  <2>1. current \in Ids /\ nonce \in Nat
    BY <1>9 DEF Submit, SubmitReplyLost, SubmitFails, Working, RequestsOK, CurrentOK, NoncesOK
  <2>2. pool' \in SUBSET Transactions /\ answered' = answered
    BY <1>9, <2>1 DEF Submit, SubmitReplyLost, SubmitFails, NodeAccepts, WithTransaction,
                      RestOfTypeOK, Transactions, nodeVars
  <2>3. dropped' \in SUBSET Ids
    BY <1>9, <2>1 DEF Submit, SubmitReplyLost, SubmitFails, GiveUp, RestOfTypeOK
  <2> QED BY <1>9, <2>2, <2>3 DEF Submit, SubmitReplyLost, SubmitFails, GiveUp, RestOfTypeOK,
                                 runVars, listenerVars
<1>10. CASE UNCHANGED vars
  BY <1>10 DEF vars, RestOfTypeOK, nodeVars, runVars, listenerVars
<1> QED BY <1>1, <1>2, <1>3, <1>4, <1>5, <1>6, <1>7, <1>8, <1>9, <1>10
        DEF Next, ExecutorStep

\* Type correctness of the process and the node in front of it.
THEOREM TypesAreKept == Spec => []TypeOK
<1>1. Types => TypeOK
  <2> SUFFICES ASSUME Types PROVE TypeOK
    OBVIOUS
  <2>1. head \in Blocks /\ lastBlock \in Blocks /\ first \in Blocks \cup {None}
    BY DEF Types, RangesOK
  <2>2. logs \in Seq([block : 1 .. MaxBlocks, id : Ids]) /\ minedNonce \in Nat /\ nonce \in Nat
    BY DEF Types, LogsOK, NoncesOK
  <2>3. todo \in Seq(Ids) /\ current \in Ids \cup {None} /\ sent \in [Ids -> Counts]
    BY DEF Types, RequestsOK, TodoOK, CurrentOK, SentOK, Counts
  <2> QED BY <2>1, <2>2, <2>3 DEF Types, RestOfTypeOK, TypeOK
<1>2. Init => Types
  <2>1. Init => RequestsOK
    BY NoRequests DEF Init
  <2> QED BY <2>1, NoncesInit, LogsInit, RangesInit, RestOfTypeInit DEF Types
<1>3. Types /\ [Next]_vars => Types'
  BY NoncesStep, LogsStep, RangesStep, RequestsStep, RestOfTypeStep DEF Types
<1> QED BY <1>1, <1>2, <1>3, PTL DEF Spec

----------------------------------------------------------------------------
(* The core behind the node.                                                *)

LoggedIds == {logs[i].id : i \in DOMAIN logs}

Core == INSTANCE CoreRequests WITH received <- LoggedIds, validated <- answered

\* What the executor sees of the core is a core.
ImplementsCore == Core!Spec

\* What is sent is of a request in the logs, over any number of restarts: the
\* transactions of an earlier run of the process wait with those of this one.
PoolIsLogged == \A t \in pool : t.id \in LoggedIds

\* A request that is logged is received.
LEMMA LoggingReceives ==
  ASSUME NEW id \in Ids, LogsOK, ReceiveRequest(id)
  PROVE  Core!Receive(id) /\ LoggedIds \subseteq LoggedIds'
PROOF
<1> DEFINE L == [block : 1 .. MaxBlocks, id : Ids]
           log == [block |-> head + 1, id |-> id]
<1>1. logs \in Seq(L) /\ logs' = Append(logs, log) /\ log.id = id /\ answered' = answered
  BY DEF ReceiveRequest, LogsOK
<1>2. id \notin LoggedIds
  BY DEF ReceiveRequest, Logged, LoggedIds
<1> HIDE DEF L, log
<1>3. /\ DOMAIN logs' = DOMAIN logs \cup {Len(logs) + 1}
      /\ logs'[Len(logs) + 1] = log
      /\ \A i \in DOMAIN logs : logs'[i] = logs[i]
  BY <1>1
<1>4. LoggedIds' = LoggedIds \cup {id}
  BY <1>1, <1>3 DEF LoggedIds
<1> QED BY <1>1, <1>2, <1>4 DEF Core!Receive

\* A block validates what of its transactions is not answered yet.
LEMMA BlockValidates ==
  ASSUME NEW n, MineBlock(n), PoolIsLogged, LoggedIds \subseteq Ids
  PROVE  PoolIsLogged' /\ [Core!Next]_(Core!coreVars)
PROOF
<1> DEFINE included == {t \in pool : t.nonce < minedNonce + n}
           new == {t.id : t \in included} \ answered
<1>1. logs' = logs /\ pool' = pool \ included /\ answered' = answered \cup new
  BY DEF MineBlock
<1>2. LoggedIds' = LoggedIds
  BY <1>1 DEF LoggedIds
<1>3. new \subseteq LoggedIds \ answered
  BY DEF PoolIsLogged
<1> HIDE DEF included, new
<1>4. Core!Validate(new)
  BY <1>1, <1>2, <1>3 DEF Core!Validate
<1> QED BY <1>1, <1>2, <1>3, <1>4 DEF PoolIsLogged, Core!Next

\* Another executor's answer is one more, or comes late.
LEMMA OtherAnswerValidates ==
  ASSUME NEW id \in Ids, OtherExecutorAnswers(id)
  PROVE  LoggedIds' = LoggedIds /\ [Core!Next]_(Core!coreVars)
PROOF
<1>1. logs' = logs /\ answered' = answered \cup {id} /\ id \in LoggedIds
  BY DEF OtherExecutorAnswers, LoggedIds
<1>2. LoggedIds' = LoggedIds
  BY <1>1 DEF LoggedIds
<1>3. CASE id \in answered
  BY <1>1, <1>2, <1>3 DEF Core!coreVars
<1>4. CASE id \notin answered
  <2>1. Core!Validate({id})
    BY <1>1, <1>2, <1>4 DEF Core!Validate
  <2> QED BY <1>2, <2>1 DEF Core!Next
<1> QED BY <1>2, <1>3, <1>4

\* The process has no part in it but the transactions it sends: of a request
\* it works on, which the listeners have passed.
LEMMA ProcessSendsForLogged ==
  ASSUME RequestsOK, PoolIsLogged, [Next]_vars, ~NodeStep
  PROVE  PoolIsLogged' /\ LoggedIds' = LoggedIds /\ answered' = answered
PROOF
<1>1. /\ UNCHANGED <<logs, answered>>
      /\ \/ pool' = pool
         \/ Working /\ pool' = WithTransaction(pool, [nonce |-> nonce, id |-> current])
  <2>1. CASE Start \/ Cancel \/ Stop \/ ExecutorReturns \/ RelayerReturns \/ Tick
    BY <2>1 DEF Start, Cancel, Stop, ExecutorReturns, Ends, RelayerReturns, Tick, nodeVars
  <2>2. CASE FilterLogs \/ FilterLogsFails \/ IterationFails \/ TakeRequest \/ TakeRequestLate
    BY <2>2 DEF FilterLogs, FilterLogsFails, TakeRange, IterationFails, TakeRequest,
                TakeRequestLate, TakesRequest, nodeVars
  <2>3. CASE Submit \/ SubmitReplyLost \/ SubmitFails
    BY <2>3 DEF Submit, SubmitReplyLost, SubmitFails, NodeAccepts, nodeVars
  <2>4. CASE UNCHANGED vars
    BY <2>4 DEF vars, nodeVars
  <2> QED BY <2>1, <2>2, <2>3, <2>4 DEF Next, ExecutorStep
<1>2. LoggedIds' = LoggedIds
  BY <1>1 DEF LoggedIds
<1>3. Working => current \in LoggedIds
  BY DEF Working, RequestsOK, CurrentOK, Behind, LoggedIds
<1>4. PoolIsLogged'
  BY <1>1, <1>2, <1>3 DEF PoolIsLogged, WithTransaction
<1> QED BY <1>1, <1>2, <1>4

LEMMA CoreStep ==
  ASSUME LogsOK, RequestsOK, PoolIsLogged, [Next]_vars
  PROVE  PoolIsLogged' /\ [Core!Next]_(Core!coreVars)
PROOF
<1>1. CASE ~NodeStep
  BY <1>1, ProcessSendsForLogged DEF Core!coreVars
<1>2. ASSUME NEW id \in Ids, ReceiveRequest(id)
      PROVE  PoolIsLogged' /\ [Core!Next]_(Core!coreVars)
  <2>1. pool' = pool
    BY <1>2 DEF ReceiveRequest
  <2> QED BY <1>2, <2>1, LoggingReceives DEF PoolIsLogged, Core!Next
<1>3. ASSUME NEW n, MineBlock(n) PROVE PoolIsLogged' /\ [Core!Next]_(Core!coreVars)
  <2>1. LoggedIds \subseteq Ids
    BY LogsAreTyped DEF LoggedIds
  <2> QED BY <1>3, <2>1, BlockValidates
<1>4. ASSUME NEW id \in Ids, OtherExecutorAnswers(id)
      PROVE  PoolIsLogged' /\ [Core!Next]_(Core!coreVars)
  <2>1. pool' = pool
    BY <1>4 DEF OtherExecutorAnswers
  <2> QED BY <1>4, <2>1, OtherAnswerValidates DEF PoolIsLogged
<1> QED BY <1>1, <1>2, <1>3, <1>4 DEF NodeStep

\* Behind the node is a core, whatever the executors do, restart after restart:
\* a request is logged once and validated once, after it was logged.
THEOREM NodeShowsACore == Spec => ImplementsCore
PROOF
<1>1. Init => Core!Init /\ PoolIsLogged
  BY DEF Init, Core!Init, LoggedIds, PoolIsLogged
<1>2. Init => RequestsOK
  BY NoRequests DEF Init
<1>3. LogsOK /\ RequestsOK /\ PoolIsLogged /\ [Next]_vars
        => PoolIsLogged' /\ [Core!Next]_(Core!coreVars)
  BY CoreStep
<1> QED BY <1>1, <1>2, <1>3, LogsInit, LogsStep, RangesInit, RangesStep, RequestsStep,
           PTL DEF Spec, ImplementsCore, Core!Spec
=============================================================================
