--------------------------- MODULE PeriodicSender ---------------------------
(***************************************************************************)
(* The two Go programs that send one transaction per tick from an account  *)
(* whose nonce they read once and then count themselves: the relayer of    *)
(* the vrf-executor, with its transactor, and the tx-generator, which      *)
(* keeps the blocks of the random network coming.  They differ in what     *)
(* they do when a send fails: the relayer logs it and goes on with the     *)
(* nonce it has, the generator panics and a restart reads the nonce again. *)
(***************************************************************************)
EXTENDS AccountNonces

CONSTANTS
  MaxSends,   \* bound: transactions of the account the node accepts
  MaxStarts   \* bound: times the program is started

ASSUME SenderBounds == {MaxSends, MaxStarts} \subseteq Nat

VARIABLES
  program,   \* which of the two
  \* the node
  included,  \* transactions of the account in blocks
  pool,      \* accepted and not yet in a block
  sends,     \* how many were accepted; the n-th has serial n
  chain,     \* history: the serials in blocks
  \* the process
  up,
  nonce,     \* nonce of the generator, opts.Nonce of the relayer's transactor
  starts,
  \* history
  acked,     \* serials whose send returned without an error
  behind     \* whether, in this run, a reply was lost or another wallet sent

nodeVars == <<included, pool, sends, chain>>
vars == <<program, nodeVars, up, nonce, starts, acked, behind>>

Programs == {"relayer", "generator"}
Serials == 1 .. MaxSends
Transactions == [nonce : Nat, serial : Serials]

TypeOK ==
  /\ program \in Programs
  /\ included \in Nat /\ pool \in SUBSET Transactions
  /\ sends \in 0 .. MaxSends /\ chain \in SUBSET Serials
  /\ up \in BOOLEAN /\ nonce \in Nat /\ starts \in 0 .. MaxStarts
  /\ acked \in SUBSET Serials /\ behind \in BOOLEAN

Init ==
  /\ program \in Programs
  /\ included = 0 /\ pool = {} /\ sends = 0 /\ chain = {}
  /\ up = FALSE /\ nonce = 0 /\ starts = 0 /\ acked = {} /\ behind = FALSE

----------------------------------------------------------------------------
(* The node.                                                                *)

PendingNonce == PendingCount(included, pool)

\* A transaction with nonce n is accepted unless the nonce is used up.
Accepts(n) ==
  /\ sends < MaxSends
  /\ n >= included
  /\ pool' = WithTransaction(pool, [nonce |-> n, serial |-> sends + 1])
  /\ sends' = sends + 1
  /\ UNCHANGED <<included, chain>>

\* The account's next transaction gets into a block.
IncludeTransaction ==
  /\ \E t \in pool :
       /\ t.nonce = included
       /\ pool' = pool \ {t}
       /\ chain' = chain \cup {t.serial}
  /\ included' = included + 1
  /\ UNCHANGED <<program, sends, up, nonce, starts, acked, behind>>

\* Another wallet of the account sends; it asks for the nonce each time.
OtherWalletSends ==
  /\ Accepts(PendingNonce)
  /\ behind' = up
  /\ UNCHANGED <<program, up, nonce, starts, acked>>

----------------------------------------------------------------------------
(* The programs.                                                            *)

\* Mutant of PendingNonceAt: the nonce of the last block.
LatestNonceAt == included

PendingNonceAt == PendingNonce

Starts ==
  /\ ~up
  /\ starts < MaxStarts
  /\ up' = TRUE /\ starts' = starts + 1
  /\ nonce' = PendingNonceAt
  /\ behind' = FALSE
  /\ UNCHANGED <<program, nodeVars, acked>>

\* run(): the configuration, the node, the key, the nonce.  An error on the
\* way ends the program, which is the action not being taken.
StartGenerator == program = "generator" /\ Starts

\* transactor.New for the relayer's key.
NewTransactor == program = "relayer" /\ Starts

\* The context is done: the loop returns.  A crash is no different.
Stop ==
  /\ up
  /\ up' = FALSE
  /\ behind' = FALSE
  /\ UNCHANGED <<program, nodeVars, nonce, starts, acked>>

\* Mutant of Acknowledged: the nonce is counted before the send and after it.
CountedTwice ==
  /\ Accepts(nonce)
  /\ acked' = acked \cup {sends + 1}
  /\ nonce' = nonce + 2
  /\ UNCHANGED behind

Acknowledged ==
  /\ Accepts(nonce)
  /\ acked' = acked \cup {sends + 1}
  /\ nonce' = nonce + 1
  /\ UNCHANGED behind

\* The node has the transaction and the program does not know.
ReplyLost ==
  /\ Accepts(nonce)
  /\ behind' = TRUE
  /\ UNCHANGED <<nonce, acked>>

\* The transactor, which counts what it has sent.
RequestVRF == Acknowledged \/ ReplyLost

\* A tick of relayer.Start.  An error is logged; one before the send (the gas
\* price, the gas estimate) changes nothing.
RelayerTick ==
  /\ up /\ program = "relayer"
  /\ RequestVRF
  /\ UNCHANGED <<program, up, starts>>

\* A tick of the generator.  An error before the send (the gas price, the
\* signature) is logged and changes nothing.
GeneratorSends ==
  /\ up /\ program = "generator"
  /\ Acknowledged
  /\ UNCHANGED <<program, up, starts>>

\* Mutant of GeneratorPanics: the error is logged and the loop goes on.
SendErrorIsLogged ==
  /\ up /\ program = "generator"
  /\ \/ ReplyLost
     \/ UNCHANGED <<nodeVars, nonce, acked, behind>>
  /\ UNCHANGED <<program, up, starts>>

\* SendTransaction returns an error: the transaction was refused, never
\* arrived, or the reply is lost.
GeneratorPanics ==
  /\ up /\ program = "generator"
  /\ \/ Accepts(nonce)
     \/ UNCHANGED nodeVars
  /\ up' = FALSE
  /\ behind' = FALSE
  /\ UNCHANGED <<program, nonce, starts, acked>>

GeneratorTick == GeneratorSends \/ GeneratorPanics

Next ==
  \/ IncludeTransaction \/ OtherWalletSends
  \/ StartGenerator \/ NewTransactor \/ Stop
  \/ RelayerTick \/ GeneratorTick

Spec == Init /\ [][Next]_vars

\* Ticks keep coming, and not all of them fail before the send; blocks have
\* room.
FairSpec == Spec /\ WF_vars(GeneratorTick) /\ WF_vars(IncludeTransaction)
----------------------------------------------------------------------------
(* Properties. *)

\* The account's transactions have consecutive nonces, and a running program
\* is never ahead of them, so that none waits for a nonce nobody will use.  It
\* falls behind only when a reply was lost, which only the relayer survives,
\* or another wallet sent.
CountsRight ==
  /\ NoGap(included, pool)
  /\ up => nonce <= PendingNonce
  /\ up /\ ~behind => nonce = PendingNonce

\* A transaction whose send was acknowledged is in a block or waits for one:
\* no later send, of this run or the next, takes its nonce, although one
\* whose reply was lost may lose it.
AcknowledgedIsKept == acked \subseteq chain \cup {t.serial : t \in pool}

\* The generator does not go on with a nonce that is used up.
StaleGeneratorEnds == program = "generator" /\ up /\ nonce < included ~> ~up
=============================================================================
