---------------------------- MODULE AccountNonces ----------------------------
(***************************************************************************)
(* The nonces of one account at a node, as the executor, the relayer and   *)
(* the tx-generator depend on them.  A pool is a set of records with a     *)
(* field nonce: the transactions accepted and not yet in a block.          *)
(***************************************************************************)
EXTENDS Integers

NoncesOf(pool) == {t.nonce : t \in pool}

\* eth_getTransactionCount(account, "pending"), with n transactions of the
\* account in blocks: the first nonce from n on that none in the pool has.
PendingCount(n, pool) ==
  CHOOSE k \in {n} \cup {t.nonce + 1 : t \in pool} :
    /\ k \notin NoncesOf(pool)
    /\ n .. k - 1 \subseteq NoncesOf(pool)

\* The pool with tx in it: one that waits with the same nonce is replaced,
\* when the new one pays enough more.
WithTransaction(pool, tx) == {t \in pool : t.nonce # tx.nonce} \cup {tx}

\* Every transaction of the pool can get into a block, one after the other.
NoGap(n, pool) == NoncesOf(pool) = n .. PendingCount(n, pool) - 1
=============================================================================
