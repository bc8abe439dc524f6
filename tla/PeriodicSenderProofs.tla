------------------------ MODULE PeriodicSenderProofs -------------------------
(***************************************************************************)
(* CountsRight and AcknowledgedIsKept for any number of transactions and   *)
(* of restarts.                                                            *)
(***************************************************************************)
EXTENDS PeriodicSender, TLAPS

----------------------------------------------------------------------------
(* The nonces of a pool.                                                    *)

\* The pending count of a pool without a gap is one more than its last nonce.
LEMMA PendingCountIs ==
  ASSUME NEW n \in Nat, NEW k \in Nat, n <= k, NEW txs,
         \A t \in txs : t.nonce \in Nat,
         NoncesOf(txs) = n .. k - 1
  PROVE  PendingCount(n, txs) = k
PROOF
<1> DEFINE Candidates == {n} \cup {t.nonce + 1 : t \in txs}
           First(x) == x \notin NoncesOf(txs) /\ n .. x - 1 \subseteq NoncesOf(txs)
<1>1. n < k => \E t \in txs : t.nonce = k - 1
  <2>1. n < k => k - 1 \in n .. k - 1
    OBVIOUS
  <2> QED BY <2>1 DEF NoncesOf
<1>2. k \in Candidates /\ First(k)
  BY <1>1
<1>3. \A x \in Candidates : x \in Nat /\ n <= x /\ (n < x => x - 1 \in NoncesOf(txs))
  BY DEF NoncesOf
<1>4. ASSUME NEW x \in Candidates, First(x) PROVE x = k
  <2>1. k < x => k \in n .. x - 1
    BY <1>3
  <2> QED BY <1>3, <1>4, <2>1
<1> HIDE DEF Candidates, First
<1>5. (CHOOSE x \in Candidates : First(x)) = k
  BY <1>2, <1>4
<1> QED BY <1>5 DEF PendingCount, Candidates, First

\* A transaction with the next nonce, or in place of one that waits, leaves a
\* pool without a gap.
LEMMA WithTransactionKeepsNoGap ==
  ASSUME NEW n \in Nat, NEW k \in Nat, n <= k, NEW txs, NEW tx,
         \A t \in txs : t.nonce \in Nat,
         NoncesOf(txs) = n .. k - 1,
         tx.nonce \in n .. k,
         NEW next, next = IF tx.nonce = k THEN k + 1 ELSE k
  PROVE  /\ NoncesOf(WithTransaction(txs, tx)) = n .. next - 1
         /\ PendingCount(n, WithTransaction(txs, tx)) = next
PROOF
<1> DEFINE more == WithTransaction(txs, tx)
<1>1. NoncesOf(more) = NoncesOf(txs) \cup {tx.nonce}
  BY DEF NoncesOf, WithTransaction
<1>2. NoncesOf(more) = n .. next - 1
  BY <1>1
<1>3. \A t \in more : t.nonce \in Nat
  BY DEF WithTransaction
<1> HIDE DEF more
<1>4. PendingCount(n, more) = next
  BY <1>2, <1>3, PendingCountIs
<1> QED BY <1>2, <1>4 DEF more

\* So does taking the transaction with the lowest nonce.
LEMMA InclusionKeepsNoGap ==
  ASSUME NEW n \in Nat, NEW k \in Nat, NEW txs, NEW tx \in txs,
         \A t \in txs : t.nonce \in Nat,
         \A t \in txs : t.nonce = tx.nonce => t = tx,
         NoncesOf(txs) = n .. k - 1,
         tx.nonce = n
  PROVE  /\ n + 1 <= k
         /\ NoncesOf(txs \ {tx}) = (n + 1) .. k - 1
         /\ PendingCount(n + 1, txs \ {tx}) = k
PROOF
<1>1. n \in n .. k - 1
  BY DEF NoncesOf
<1>2. NoncesOf(txs \ {tx}) = NoncesOf(txs) \ {n}
  BY DEF NoncesOf
<1>3. (n .. k - 1) \ {n} = (n + 1) .. k - 1
  OBVIOUS
<1>4. n + 1 <= k
  BY <1>1
<1>5. NoncesOf(txs \ {tx}) = (n + 1) .. k - 1
  BY <1>2, <1>3
<1>6. \A t \in txs \ {tx} : t.nonce \in Nat
  OBVIOUS
<1>7. PendingCount(n + 1, txs \ {tx}) = k
  BY <1>4, <1>5, <1>6, PendingCountIs
<1> QED BY <1>4, <1>5, <1>7

----------------------------------------------------------------------------
(* The inductive invariant.                                                 *)

\* No nonce is used twice in the pool, and the pending count is one more than
\* the last.
PoolOK ==
  /\ PendingNonce \in Nat /\ included <= PendingNonce
  /\ NoGap(included, pool)
  /\ \A s, t \in pool : s.nonce = t.nonce => s = t

\* What no later transaction has is no serial of an earlier one.
SerialsOK ==
  /\ acked \subseteq 1 .. sends
  /\ \A t \in pool : t.serial \in 1 .. sends

NonceOK ==
  /\ up => nonce <= PendingNonce
  /\ up /\ ~behind => nonce = PendingNonce

\* Why no send of a running program takes the nonce of a transaction it, or an
\* earlier run, has an acknowledgement for: those are behind its nonce.
AckedIsBelow == up => \A t \in pool : t.serial \in acked => t.nonce < nonce

IInv == TypeOK /\ PoolOK /\ SerialsOK /\ NonceOK /\ AckedIsBelow /\ AcknowledgedIsKept

----------------------------------------------------------------------------
\* The invariant holds for an account without transactions.
LEMMA InitIInv == Init => IInv
PROOF
<1> SUFFICES ASSUME Init PROVE IInv
  OBVIOUS
<1> USE DEF Init
<1>1. TypeOK
  <2>1. 0 \in 0 .. MaxSends /\ 0 \in 0 .. MaxStarts
    BY SenderBounds
  <2> QED BY <2>1 DEF TypeOK
<1>2. NoncesOf(pool) = 0 .. 0 - 1
  BY DEF NoncesOf
<1>3. PendingNonce = 0
  <2> DEFINE k == 0
  <2>1. k \in Nat /\ k <= k /\ NoncesOf(pool) = k .. k - 1
    BY <1>2
  <2>2. \A t \in pool : t.nonce \in Nat
    OBVIOUS
  <2>3. included = k
    OBVIOUS
  <2> HIDE DEF Init, k
  <2>4. PendingCount(k, pool) = k
    BY <2>1, <2>2, PendingCountIs
  <2> QED BY <2>3, <2>4 DEF PendingNonce, k
<1>4. PoolOK
  <2>1. NoGap(included, pool)
    BY <1>2, <1>3 DEF NoGap, PendingNonce
  <2> QED BY <1>3, <2>1 DEF PoolOK
<1>5. SerialsOK /\ NonceOK /\ AckedIsBelow /\ AcknowledgedIsKept
  BY DEF SerialsOK, NonceOK, AckedIsBelow, AcknowledgedIsKept
<1> QED BY <1>1, <1>4, <1>5 DEF IInv

\* A transaction with a nonce up to the pending count keeps the pool right.
LEMMA PoolWithTransaction ==
  ASSUME PoolOK, included \in Nat, \A t \in pool : t.nonce \in Nat,
         NEW tx, tx.nonce \in included .. PendingNonce,
         pool' = WithTransaction(pool, tx), included' = included
  PROVE  /\ PoolOK'
         /\ PendingNonce' = IF tx.nonce = PendingNonce THEN PendingNonce + 1 ELSE PendingNonce
PROOF
<1> DEFINE k == PendingNonce
           next == IF tx.nonce = k THEN k + 1 ELSE k
<1>1. k \in Nat /\ included <= k /\ NoncesOf(pool) = included .. k - 1
  BY DEF PoolOK, NoGap, PendingNonce
<1>2. next \in Nat /\ k <= next
  BY <1>1
<1>3. tx.nonce \in included .. k
  OBVIOUS
<1> HIDE DEF k
<1>4. /\ NoncesOf(WithTransaction(pool, tx)) = included .. next - 1
      /\ PendingCount(included, WithTransaction(pool, tx)) = next
  BY <1>1, <1>3, WithTransactionKeepsNoGap
<1> HIDE DEF next
<1>5. PendingNonce' = next /\ NoGap(included, pool)'
  BY <1>4 DEF PendingNonce, NoGap
<1>6. \A s, t \in pool' : s.nonce = t.nonce => s = t
  BY DEF WithTransaction, PoolOK
<1>7. PoolOK'
  BY <1>1, <1>2, <1>5, <1>6 DEF PoolOK
<1> QED BY <1>5, <1>7 DEF next, k

\* What a transaction the node accepts changes, when its nonce is not above
\* the pending count and no acknowledged one waits with that nonce.
LEMMA AcceptsKeeps ==
  ASSUME IInv, NEW n \in Nat, n <= PendingNonce, Accepts(n),
         \A t \in pool : t.serial \in acked => t.nonce # n
  PROVE  /\ included' \in Nat /\ pool' \in SUBSET Transactions
         /\ sends' \in 0 .. MaxSends /\ chain' \in SUBSET Serials
         /\ sends' = sends + 1 /\ sends' \in Serials
         /\ PoolOK'
         /\ PendingNonce' = IF n = PendingNonce THEN n + 1 ELSE PendingNonce
         /\ \A t \in pool' : t.serial \in 1 .. sends'
         /\ \A t \in pool' : t.serial \in acked => t \in pool
         /\ acked \subseteq chain' \cup {t.serial : t \in pool'}
         /\ [nonce |-> n, serial |-> sends + 1] \in pool'
         /\ \A t \in pool' : t \in pool \/ t = [nonce |-> n, serial |-> sends + 1]
PROOF
<1> DEFINE tx == [nonce |-> n, serial |-> sends + 1]
<1> USE DEF IInv
<1>1. /\ pool' = WithTransaction(pool, tx)
      /\ sends' = sends + 1 /\ sends < MaxSends
      /\ included' = included /\ chain' = chain
      /\ n >= included
  BY DEF Accepts
<1>2. /\ sends \in 0 .. MaxSends /\ MaxSends \in Nat /\ included \in Nat
      /\ pool \in SUBSET Transactions /\ chain \in SUBSET Serials
  BY SenderBounds DEF TypeOK
<1>3. sends' \in Serials /\ sends' \in 0 .. MaxSends
  BY <1>1, <1>2 DEF Serials
<1>4. tx \in Transactions
  BY <1>1, <1>3 DEF Transactions
<1>5. pool' \in SUBSET Transactions
  BY <1>1, <1>2, <1>4 DEF WithTransaction
<1>6. \A t \in pool : t.nonce \in Nat
  BY <1>2 DEF Transactions
<1>7. tx.nonce \in included .. PendingNonce
  BY <1>1, <1>2 DEF PoolOK
<1>8. tx.nonce = n
  OBVIOUS
<1>9. /\ PoolOK'
      /\ PendingNonce' = IF n = PendingNonce THEN n + 1 ELSE PendingNonce
  <2> HIDE DEF tx
  <2> QED BY <1>1, <1>2, <1>6, <1>7, <1>8, PoolWithTransaction
<1>10. tx \in pool' /\ \A t \in pool' : t \in pool \/ t = tx
  BY <1>1 DEF WithTransaction
<1>11. \A t \in pool' : t.serial \in 1 .. sends'
  BY <1>1, <1>2, <1>10 DEF SerialsOK
<1>12. \A t \in pool' : t.serial \in acked => t \in pool
  <2>1. sends + 1 \notin acked
    BY <1>2 DEF SerialsOK
  <2> QED BY <1>10, <2>1
<1>13. acked \subseteq chain' \cup {t.serial : t \in pool'}
  <2> SUFFICES ASSUME NEW s \in acked, s \notin chain PROVE \E t \in pool' : t.serial = s
    BY <1>1
  <2>1. PICK t \in pool : t.serial = s
    BY DEF AcknowledgedIsKept
  <2>2. t.nonce # n
    BY <2>1
  <2> QED BY <1>1, <2>1, <2>2 DEF WithTransaction
<1> QED BY <1>1, <1>2, <1>3, <1>5, <1>9, <1>10, <1>11, <1>12, <1>13

----------------------------------------------------------------------------
(* One lemma for each kind of step.                                         *)

\* A block takes the transaction of the lowest nonce, which is still kept.
LEMMA IncludeKeeps == IInv /\ IncludeTransaction => IInv'
PROOF
<1> SUFFICES ASSUME IInv, IncludeTransaction PROVE IInv'
  OBVIOUS
<1> USE DEF IInv
<1>1. PICK t \in pool : /\ t.nonce = included
                        /\ pool' = pool \ {t}
                        /\ chain' = chain \cup {t.serial}
  BY DEF IncludeTransaction
<1>2. /\ included' = included + 1
      /\ UNCHANGED <<program, sends, up, nonce, starts, acked, behind>>
  BY DEF IncludeTransaction
<1>3. included \in Nat /\ pool \in SUBSET Transactions /\ t \in Transactions
  BY DEF TypeOK
<1>4. TypeOK'
  BY <1>1, <1>2, <1>3 DEF TypeOK, Transactions
<1>5. /\ NoncesOf(pool \ {t}) = (included + 1) .. PendingNonce - 1
      /\ PendingCount(included + 1, pool \ {t}) = PendingNonce
      /\ included + 1 <= PendingNonce
  <2> DEFINE k == PendingNonce
  <2>1. k \in Nat /\ NoncesOf(pool) = included .. k - 1
    BY DEF PoolOK, NoGap, PendingNonce
  <2>2. \A u \in pool : u.nonce \in Nat
    BY <1>3 DEF Transactions
  <2>3. \A u \in pool : u.nonce = t.nonce => u = t
    BY DEF PoolOK
  <2> HIDE DEF k
  <2>4. /\ included + 1 <= k
        /\ NoncesOf(pool \ {t}) = (included + 1) .. k - 1
        /\ PendingCount(included + 1, pool \ {t}) = k
    BY <1>1, <1>3, <2>1, <2>2, <2>3, InclusionKeepsNoGap
  <2> QED BY <2>4 DEF k
<1>6. PendingNonce' = PendingNonce
  <2>1. PendingNonce' = PendingCount(included', pool')
    BY DEF PendingNonce
  <2> QED BY <1>1, <1>2, <1>5, <2>1
<1>7. PoolOK'
  <2>1. NoncesOf(pool') = included' .. PendingCount(included', pool') - 1
    BY <1>1, <1>2, <1>5
  <2>2. \A u, v \in pool' : u.nonce = v.nonce => u = v
    BY <1>1 DEF PoolOK
  <2>3. PendingNonce' \in Nat /\ included' <= PendingNonce'
    BY <1>2, <1>5, <1>6 DEF PoolOK
  <2> QED BY <2>1, <2>2, <2>3 DEF PoolOK, NoGap
<1>8. SerialsOK' /\ NonceOK' /\ AckedIsBelow'
  BY <1>1, <1>2, <1>6 DEF SerialsOK, NonceOK, AckedIsBelow
<1>9. AcknowledgedIsKept'
  BY <1>1, <1>2 DEF AcknowledgedIsKept
<1> QED BY <1>4, <1>7, <1>8, <1>9

\* Another wallet takes the next nonce, and a running program falls behind.
LEMMA OtherWalletKeeps == IInv /\ OtherWalletSends => IInv'
PROOF
<1> SUFFICES ASSUME IInv, OtherWalletSends PROVE IInv'
  OBVIOUS
<1> USE DEF IInv
<1>1. /\ Accepts(PendingNonce) /\ behind' = up
      /\ UNCHANGED <<program, up, nonce, starts, acked>>
  BY DEF OtherWalletSends
<1>2. PICK n \in Nat : n = PendingNonce
  BY DEF PoolOK
<1>3. \A t \in pool : t.nonce # n
  <2>1. \A t \in pool : t.nonce \in included .. PendingNonce - 1
    BY DEF PoolOK, NoGap, NoncesOf, PendingNonce
  <2> QED BY <1>2, <2>1 DEF PoolOK, TypeOK
<1>4. n <= PendingNonce /\ Accepts(n)
  BY <1>1, <1>2
<1>5. /\ included' \in Nat /\ pool' \in SUBSET Transactions
      /\ sends' \in 0 .. MaxSends /\ chain' \in SUBSET Serials /\ sends' = sends + 1
      /\ PoolOK' /\ PendingNonce' = n + 1
      /\ \A t \in pool' : t.serial \in 1 .. sends'
      /\ \A t \in pool' : t.serial \in acked => t \in pool
      /\ acked \subseteq chain' \cup {t.serial : t \in pool'}
  BY <1>2, <1>3, <1>4, AcceptsKeeps
<1>6. TypeOK'
  BY <1>1, <1>5 DEF TypeOK
<1>7. SerialsOK'
  BY <1>1, <1>5 DEF SerialsOK, TypeOK
<1>8. NonceOK'
  BY <1>1, <1>2, <1>5 DEF NonceOK, TypeOK
<1>9. AckedIsBelow' /\ AcknowledgedIsKept'
  BY <1>1, <1>5 DEF AckedIsBelow, AcknowledgedIsKept
<1> QED BY <1>5, <1>6, <1>7, <1>8, <1>9

\* A start reads the nonce after every transaction that waits.
LEMMA StartsKeeps == IInv /\ Starts => IInv'
PROOF
<1> SUFFICES ASSUME IInv, Starts PROVE IInv'
  OBVIOUS
<1> USE DEF IInv
<1>1. /\ up' = TRUE /\ starts' = starts + 1 /\ starts < MaxStarts
      /\ nonce' = PendingNonce /\ behind' = FALSE
      /\ UNCHANGED <<program, included, pool, sends, chain, acked>>
  BY DEF Starts, PendingNonceAt, nodeVars
<1>2. PendingNonce' = PendingNonce
  BY <1>1 DEF PendingNonce
<1>3. starts' \in 0 .. MaxStarts
  BY <1>1, SenderBounds DEF TypeOK
<1>4. TypeOK'
  BY <1>1, <1>3 DEF TypeOK, PoolOK
<1>5. PoolOK'
  BY <1>1, <1>2 DEF PoolOK
<1>6. SerialsOK' /\ NonceOK' /\ AcknowledgedIsKept'
  BY <1>1, <1>2 DEF SerialsOK, NonceOK, AcknowledgedIsKept, PoolOK
<1>7. AckedIsBelow'
  <2>1. \A t \in pool : t.nonce \in included .. PendingNonce - 1
    BY DEF PoolOK, NoGap, NoncesOf, PendingNonce
  <2>2. \A t \in pool : t.nonce < PendingNonce
    BY <2>1 DEF PoolOK, TypeOK
  <2> QED BY <1>1, <2>2 DEF AckedIsBelow
<1> QED BY <1>4, <1>5, <1>6, <1>7

\* A program that is down promises nothing about its nonce.
LEMMA StopKeeps == IInv /\ Stop => IInv'
PROOF
<1> SUFFICES ASSUME IInv, Stop PROVE IInv'
  OBVIOUS
<1> USE DEF IInv
<1>1. /\ up' = FALSE /\ behind' = FALSE
      /\ UNCHANGED <<program, included, pool, sends, chain, nonce, starts, acked>>
  BY DEF Stop, nodeVars
<1>2. PendingNonce' = PendingNonce
  BY <1>1 DEF PendingNonce
<1>3. TypeOK' /\ PoolOK' /\ SerialsOK' /\ NonceOK' /\ AckedIsBelow' /\ AcknowledgedIsKept'
  BY <1>1, <1>2 DEF TypeOK, PoolOK, SerialsOK, NonceOK, AckedIsBelow, AcknowledgedIsKept
<1> QED BY <1>3

\* What a send of a running program does at the node.
LEMMA ProgramSends ==
  ASSUME IInv, up, Accepts(nonce)
  PROVE  /\ included' \in Nat /\ pool' \in SUBSET Transactions
         /\ sends' \in 0 .. MaxSends /\ chain' \in SUBSET Serials
         /\ sends' = sends + 1 /\ sends' \in Serials /\ sends \in Nat
         /\ PoolOK'
         /\ PendingNonce' = IF nonce = PendingNonce THEN nonce + 1 ELSE PendingNonce
         /\ \A t \in pool' : t.serial \in 1 .. sends'
         /\ \A t \in pool' : t.serial \in acked => t \in pool
         /\ acked \subseteq chain' \cup {t.serial : t \in pool'}
         /\ [nonce |-> nonce, serial |-> sends + 1] \in pool'
         /\ \A t \in pool' : t \in pool \/ t = [nonce |-> nonce, serial |-> sends + 1]
PROOF
<1> USE DEF IInv
<1>1. PICK n \in Nat : n = nonce
  BY DEF TypeOK
<1>2. n <= PendingNonce /\ Accepts(n)
  BY <1>1 DEF NonceOK
<1>3. \A t \in pool : t.serial \in acked => t.nonce # n
  BY <1>1 DEF AckedIsBelow, TypeOK, Transactions
<1>4. sends \in Nat
  BY SenderBounds DEF TypeOK
<1> QED BY <1>1, <1>2, <1>3, <1>4, AcceptsKeeps

\* An acknowledged send leaves its transaction below the nonce.
LEMMA AcknowledgedKeeps ==
  IInv /\ up /\ Acknowledged /\ UNCHANGED <<program, up, starts>> => IInv'
PROOF
<1> SUFFICES ASSUME IInv, up, Acknowledged, UNCHANGED <<program, up, starts>> PROVE IInv'
  OBVIOUS
<1> USE DEF IInv
<1>1. /\ Accepts(nonce) /\ nonce' = nonce + 1 /\ behind' = behind
      /\ acked' = acked \cup {sends + 1}
  BY DEF Acknowledged
<1>2. /\ included' \in Nat /\ pool' \in SUBSET Transactions
      /\ sends' \in 0 .. MaxSends /\ chain' \in SUBSET Serials
      /\ sends' = sends + 1 /\ sends' \in Serials /\ sends \in Nat
      /\ PoolOK'
      /\ PendingNonce' = IF nonce = PendingNonce THEN nonce + 1 ELSE PendingNonce
      /\ \A t \in pool' : t.serial \in 1 .. sends'
      /\ acked \subseteq chain' \cup {t.serial : t \in pool'}
      /\ [nonce |-> nonce, serial |-> sends + 1] \in pool'
      /\ \A t \in pool' : t \in pool \/ t = [nonce |-> nonce, serial |-> sends + 1]
  BY <1>1, ProgramSends
<1>3. TypeOK'
  BY <1>1, <1>2 DEF TypeOK
<1>4. SerialsOK'
  BY <1>1, <1>2 DEF SerialsOK
<1>5. NonceOK'
  BY <1>1, <1>2 DEF NonceOK, TypeOK, PoolOK
<1>6. AckedIsBelow'
  <2>1. \A t \in pool : t.serial # sends + 1
    BY <1>2 DEF SerialsOK
  <2>2. \A t \in pool : t.serial \in acked' => t.nonce < nonce + 1
    BY <1>1, <2>1 DEF AckedIsBelow, TypeOK, Transactions
  <2>3. \A t \in pool' : t.serial \in acked' => t.nonce < nonce + 1
    BY <1>2, <2>2 DEF TypeOK
  <2> QED BY <1>1, <2>3 DEF AckedIsBelow
<1>7. AcknowledgedIsKept'
  <2>1. sends + 1 \in {t.serial : t \in pool'}
    BY <1>2
  <2>2. acked' \subseteq chain' \cup {t.serial : t \in pool'}
    BY <1>1, <1>2, <2>1
  <2> QED BY <2>2 DEF AcknowledgedIsKept
<1> QED BY <1>2, <1>3, <1>4, <1>5, <1>6, <1>7

\* A lost reply leaves the program one nonce behind.
LEMMA ReplyLostKeeps ==
  IInv /\ up /\ ReplyLost /\ UNCHANGED <<program, up, starts>> => IInv'
PROOF
<1> SUFFICES ASSUME IInv, up, ReplyLost, UNCHANGED <<program, up, starts>> PROVE IInv'
  OBVIOUS
<1> USE DEF IInv
<1>1. Accepts(nonce) /\ behind' = TRUE /\ UNCHANGED <<nonce, acked>>
  BY DEF ReplyLost
<1>2. /\ included' \in Nat /\ pool' \in SUBSET Transactions
      /\ sends' \in 0 .. MaxSends /\ chain' \in SUBSET Serials
      /\ sends' = sends + 1 /\ sends \in Nat
      /\ PoolOK'
      /\ PendingNonce' = IF nonce = PendingNonce THEN nonce + 1 ELSE PendingNonce
      /\ \A t \in pool' : t.serial \in 1 .. sends'
      /\ \A t \in pool' : t.serial \in acked => t \in pool
      /\ acked \subseteq chain' \cup {t.serial : t \in pool'}
  BY <1>1, ProgramSends
<1>3. TypeOK'
  BY <1>1, <1>2 DEF TypeOK
<1>4. SerialsOK'
  BY <1>1, <1>2 DEF SerialsOK
<1>5. NonceOK'
  BY <1>1, <1>2 DEF NonceOK, TypeOK, PoolOK
<1>6. AckedIsBelow' /\ AcknowledgedIsKept'
  BY <1>1, <1>2 DEF AckedIsBelow, AcknowledgedIsKept
<1> QED BY <1>2, <1>3, <1>4, <1>5, <1>6

\* A panic leaves what the node accepted and no process.
LEMMA PanicKeeps == IInv /\ GeneratorPanics => IInv'
PROOF
<1> SUFFICES ASSUME IInv, GeneratorPanics PROVE IInv'
  OBVIOUS
<1> USE DEF IInv
<1>1. /\ up /\ up' = FALSE /\ behind' = FALSE
      /\ UNCHANGED <<program, nonce, starts, acked>>
  BY DEF GeneratorPanics
<1>2. CASE Accepts(nonce)
  <2>1. /\ included' \in Nat /\ pool' \in SUBSET Transactions
        /\ sends' \in 0 .. MaxSends /\ chain' \in SUBSET Serials
        /\ sends' = sends + 1 /\ sends \in Nat
        /\ PoolOK'
        /\ \A t \in pool' : t.serial \in 1 .. sends'
        /\ acked \subseteq chain' \cup {t.serial : t \in pool'}
    BY <1>1, <1>2, ProgramSends
  <2>2. TypeOK'
    BY <1>1, <2>1 DEF TypeOK
  <2>3. SerialsOK'
    BY <1>1, <2>1 DEF SerialsOK
  <2>4. NonceOK' /\ AckedIsBelow' /\ AcknowledgedIsKept'
    BY <1>1, <2>1 DEF NonceOK, AckedIsBelow, AcknowledgedIsKept
  <2> QED BY <2>1, <2>2, <2>3, <2>4
<1>3. CASE UNCHANGED nodeVars
  <2>1. UNCHANGED <<included, pool, sends, chain>>
    BY <1>3 DEF nodeVars
  <2>2. PendingNonce' = PendingNonce
    BY <2>1 DEF PendingNonce
  <2>3. TypeOK' /\ PoolOK' /\ SerialsOK' /\ NonceOK' /\ AckedIsBelow' /\ AcknowledgedIsKept'
    BY <1>1, <2>1, <2>2
       DEF TypeOK, PoolOK, SerialsOK, NonceOK, AckedIsBelow, AcknowledgedIsKept
  <2> QED BY <2>3
<1> QED BY <1>2, <1>3 DEF GeneratorPanics

\* Every step keeps the invariant.
LEMMA NextIInv == IInv /\ [Next]_vars => IInv'
PROOF
<1> SUFFICES ASSUME IInv, [Next]_vars PROVE IInv'
  OBVIOUS
<1>1. CASE IncludeTransaction
  BY <1>1, IncludeKeeps
<1>2. CASE OtherWalletSends
  BY <1>2, OtherWalletKeeps
<1>3. CASE StartGenerator \/ NewTransactor
  BY <1>3, StartsKeeps DEF StartGenerator, NewTransactor
<1>4. CASE Stop
  BY <1>4, StopKeeps
<1>5. CASE RelayerTick
  BY <1>5, AcknowledgedKeeps, ReplyLostKeeps DEF RelayerTick, RequestVRF
<1>6. CASE GeneratorSends
  BY <1>6, AcknowledgedKeeps DEF GeneratorSends
<1>7. CASE GeneratorPanics
  BY <1>7, PanicKeeps
<1>8. CASE UNCHANGED vars
  <2>1. UNCHANGED <<program, included, pool, sends, chain, up, nonce, starts, acked, behind>>
    BY <1>8 DEF vars, nodeVars
  <2>2. PendingNonce' = PendingNonce
    BY <2>1 DEF PendingNonce
  <2>3. TypeOK' /\ PoolOK' /\ SerialsOK' /\ NonceOK' /\ AckedIsBelow' /\ AcknowledgedIsKept'
    BY <2>1, <2>2
       DEF IInv, TypeOK, PoolOK, SerialsOK, NonceOK, AckedIsBelow, AcknowledgedIsKept
  <2> QED BY <2>3 DEF IInv
<1> QED
  BY <1>1, <1>2, <1>3, <1>4, <1>5, <1>6, <1>7, <1>8 DEF Next, GeneratorTick

\* The invariant holds in every behaviour of either program.
THEOREM SenderInvariant == Spec => []IInv
PROOF
<1> QED BY InitIInv, NextIInv, PTL DEF Spec

----------------------------------------------------------------------------

\* The relayer and the generator count right: their transactions have
\* consecutive nonces, and they are behind the node only after a lost reply or
\* when another wallet sends (transactor.go:94, tx-generator/main.go:111).
THEOREM SendersCountRight == Spec => []CountsRight
PROOF
<1>1. IInv => CountsRight
  BY DEF IInv, PoolOK, NonceOK, CountsRight
<1> QED BY <1>1, SenderInvariant, PTL

\* A transaction whose send was acknowledged keeps its nonce, over restarts
\* and although the nonce of one whose reply was lost is used again.
THEOREM AcknowledgedTransactionsStay == Spec => []AcknowledgedIsKept
PROOF
<1>1. IInv => AcknowledgedIsKept
  BY DEF IInv
<1> QED BY <1>1, SenderInvariant, PTL
=============================================================================
