------------------------------ MODULE VRFProof -------------------------------
(***************************************************************************)
(* The vrf provider of the executor and the verifier of the contracts on a *)
(* small curve, with the library's operations beside them, against the     *)
(* group law and scalar multiplication defined from nothing but the curve. *)
(* A behaviour is one call: its inputs are chosen, then it returns.        *)
(***************************************************************************)
EXTENDS VRF, FiniteSets

CONSTANTS
  PrivateKeys,  \* the keys proofs are made with
  Alphas,       \* the random strings proofs are made for
  Nonces        \* the prover's secret nonces

ASSUME CurveIsSmall ==
  /\ {PP, NN} \subseteq Words
  /\ PP % 4 = 3
  /\ PrivateKeys \cup Nonces \subseteq 1 .. NN - 1

VARIABLES
  call,    \* what is called, and with what
  result   \* what it returned, and of which operation; NotYet before

vars == <<call, result>>

\* The points of the curve but for the one at infinity, x and y never being 0.
CurvePoints ==
  {P \in (1 .. PP - 1) \X (1 .. PP - 1) :
     (P[2] * P[2]) % PP = (P[1] * P[1] * P[1] + BB) % PP}

----------------------------------------------------------------------------
(* The reference: chord and tangent, and repeated addition. *)

InverseMod(x) == CHOOSE i \in 1 .. PP - 1 : (x * i) % PP = 1
Inverses == [x \in 1 .. PP - 1 |-> InverseMod(x)]
Mod(x) == x % PP

Plus(P, Q) ==
  LET slope == IF P = Q THEN Mod(3 * P[1] * P[1]) * Inverses[Mod(2 * P[2])]
               ELSE Mod(Q[2] - P[2]) * Inverses[Mod(Q[1] - P[1])]
      x == Mod(Mod(slope) * Mod(slope) - P[1] - Q[1])
  IN
  CASE P = NoPoint -> Q
    [] P # NoPoint /\ Q = NoPoint -> P
    [] NoPoint \notin {P, Q} ->
         IF P[1] = Q[1] /\ P[2] # Q[2] THEN NoPoint
         ELSE <<x, Mod(Mod(slope) * (P[1] - x) - P[2])>>

\* MultiplesOfG[k] is k times the generator.
MultiplesOfG[k \in 0 .. NN - 1] ==
  IF k = 0 THEN NoPoint ELSE Plus(MultiplesOfG[k - 1], G)
Multiples == [k \in 0 .. NN - 1 |-> MultiplesOfG[k]]
Logarithm == [P \in CurvePoints |-> CHOOSE k \in 1 .. NN - 1 : Multiples[k] = P]
Times(k, P) == Multiples[(k * Logarithm[P]) % NN]
Minus(P) == IF P = NoPoint THEN P ELSE <<P[1], PP - P[2]>>

----------------------------------------------------------------------------
NotYet == [of |-> "no call"]

\* GenerateRandomnessWithProof, with the go-ecvrf library behind it.
Prove(d, alpha, k) ==
  LET publicKey == Times(d, G)
      H == hashToTryAndIncrement(publicKey, alpha)
      gamma == Times(d, H)
      c == hashPoints(H, gamma, Times(k, G), Times(k, H))
  IN
  [length |-> ProofLength, gamma |-> encodePoint(gamma), c |-> c, s |-> (k + c * d) % NN]

\* What the contract may get instead of the proof as made.
Damaged(proof) ==
  {[proof EXCEPT !.s = (@ + 1) % NN], [proof EXCEPT !.gamma[1] = 4],
   [proof EXCEPT !.length = ProofLength - 1]}

Init ==
  /\ result = NotYet
  /\ \/ \E k \in Words, P \in CurvePoints :
          call = [op |-> "multiply", k |-> k, P |-> P]
     \/ \E P, Q \in CurvePoints : call = [op |-> "add", P |-> P, Q |-> Q]
     \/ \E d \in PrivateKeys, alpha \in Alphas, k \in Nonces :
          LET made == Prove(d, alpha, k) IN
          \E proof \in {made} \cup Damaged(made) :
            call = [op |-> "verify", publicKey |-> Times(d, G), alpha |-> alpha,
                    proof |-> proof, honest |-> proof = made]

Multiply ==
  /\ call.op = "multiply"
  /\ result' = [of |-> "multiply", product |-> ecMul(call.k, call.P, AA, PP)]

Add ==
  /\ call.op = "add"
  /\ result' = [of |-> "add", sum |-> ecAdd(call.P, call.Q, AA, PP),
                difference |-> ecSub(call.P, call.Q, AA, PP)]

VerifyProof ==
  LET proof == decodeProof(call.proof)
      params == computeFastVerifyParams(call.publicKey, proof, call.alpha)
      Decoded == proof.gamma # Revert
  IN
  /\ call.op = "verify"
  /\ result' = [of |-> "verify",
                verified |-> verify(call.publicKey, call.proof, call.alpha),
                fast |-> Decoded /\ fastVerify(call.publicKey, proof, call.alpha, params)]

Next ==
  /\ result = NotYet
  /\ Multiply \/ Add \/ VerifyProof
  /\ UNCHANGED call

Spec == Init /\ [][Next]_vars
----------------------------------------------------------------------------
(* Properties. *)

Returned(op) == result.of = op

\* ecMul is scalar multiplication for every word but 0, which it takes for 1,
\* and the order of the curve, for which it reverts: infinity has no z to
\* invert.  The double-and-add loop never adds a point to itself or to its
\* opposite before the end, although jacAdd cannot do that.
\* ecAdd and ecSub are the group law, doubling and opposite points included.
ArithmeticIsRight ==
  /\ Returned("multiply") /\ call.k # 0 =>
       result.product = IF call.k = NN THEN Revert ELSE Times(call.k, call.P)
  /\ Returned("add") =>
       /\ result.sum = Plus(call.P, call.Q)
       /\ result.difference = Plus(call.P, Minus(call.Q))

\* A proof of the provider passes the contracts, unless its c or s is zero,
\* which derivePoint takes for 1.
ProofsVerify ==
  Returned("verify") /\ call.honest /\ 0 \notin {call.proof.c, call.proof.s} =>
    result.verified

\* fastVerify with the points of computeFastVerifyParams gives the answer of
\* _verify, on proofs that are right and on proofs that are not but can be
\* decoded, when the abscissas are valid for ecrecover and c and s are not zero.
ForEcrecover(P) == P[1] < NN
FastVerifyAgrees ==
  LET gamma == decodeProof(call.proof).gamma IN
  (/\ Returned("verify")
   /\ gamma # Revert
   /\ 0 \notin {call.proof.c, call.proof.s}
   /\ ForEcrecover(call.publicKey)
   /\ ForEcrecover(gamma)
   /\ ForEcrecover(hashToTryAndIncrement(call.publicKey, call.alpha)))
    => (result.fast <=> result.verified)
=============================================================================
