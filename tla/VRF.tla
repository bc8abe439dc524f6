--------------------------------- MODULE VRF ---------------------------------
(***************************************************************************)
(* The library VRF and VRFVerificationLib on top of it: a proof for a      *)
(* message and a public key is checked with two multiplications and a      *)
(* subtraction on the curve, or with ecrecover and points computed before. *)
(* A hash is given as the operator Sha of what is hashed.                  *)
(***************************************************************************)
EXTENDS EllipticCurve

CONSTANTS
  PP, NN, BB,  \* the curve y^2 = x^3 + BB mod PP, of order NN (AA is 0)
  G,           \* its generator
  HalfBits,    \* width of a challenge c: 128 of 256 bits
  Sha(_)       \* sha256, from a sequence of numbers to a word

AA == 0

derivePoint(d, P) == ecMul(d, P, AA, PP)

\* An affine point as bytes: the parity of y and x.
encodePoint(P) == <<2 + (P[2] % 2), P[1]>>

\* decodePoint, and the point of decodeProof
decodePoint(point) ==
  IF CannotDerive(point[1]) THEN Revert
  ELSE <<point[2], deriveY(point[1], point[2], AA, BB, PP)>>

\* Mutant of decodeProof: the sign byte of gamma is not read.
GammaIsEven(proof) ==
  [gamma |-> decodePoint(<<2, proof.gamma[2]>>), c |-> proof.c, s |-> proof.s]

\* Proofs as bytes: their length, the encoded gamma, c and s.  Gamma is Revert
\* when decoding the proof reverts.
ProofLength == 81
decodeProof(proof) ==
  [gamma |-> IF proof.length = ProofLength THEN decodePoint(proof.gamma) ELSE Revert,
   c |-> proof.c % 2^HalfBits, s |-> proof.s]

\* The counter is a uint8: ++ reverts at 255, and the loop is never left at
\* its end.
RECURSIVE TryAndIncrement(_, _, _)
TryAndIncrement(publicKey, message, ctr) ==
  LET x == Sha(<<254, 1>> \o encodePoint(publicKey) \o <<message, ctr, 0>>)
      y == deriveY(2, x, AA, BB, PP)
  IN
  IF isOnCurve(x, y, AA, BB, PP) THEN <<x, y>>
  ELSE IF ctr = 255 THEN Revert
  ELSE TryAndIncrement(publicKey, message, ctr + 1)

hashToTryAndIncrement(publicKey, message) == TryAndIncrement(publicKey, message, 0)

\* The first half of the digest.
hashPoints(H, gamma, U, V) ==
  LET sha == Sha(<<254, 2>> \o encodePoint(H) \o encodePoint(gamma)
                   \o encodePoint(U) \o encodePoint(V) \o <<0>>)
  IN
  sha \div 2^(WordBits - HalfBits)

\* A revert of one of the multiplications reverts the whole.
SubOrRevert(M, N) == IF Revert \in {M, N} THEN Revert ELSE ecSub(M, N, AA, PP)

ecMulSubMul(s1, A, s2, B) == SubOrRevert(derivePoint(s1, A), derivePoint(s2, B))

\* _verify on a decoded proof; TRUE only if it returns true.
_verify(publicKey, proof, message) ==
  LET H == hashToTryAndIncrement(publicKey, message) IN
  H # Revert /\
  LET U == ecMulSubMul(proof.s, G, proof.c, publicKey)
      V == ecMulSubMul(proof.s, H, proof.c, proof.gamma)
  IN
  /\ Revert \notin {U, V}
  /\ hashPoints(H, proof.gamma, U, V) = proof.c

\* VRFVerificationLib.verify
verify(publicKey, proof, message) ==
  LET decoded == decodeProof(proof) IN
  decoded.gamma # Revert /\ _verify(publicKey, decoded, message)

----------------------------------------------------------------------------
(* Fast verification. *)

\* The precompile: the point r^-1 (s R - h G) for the R of abscissa r and the
\* parity v says, given as itself where the code takes 20 bytes of its hash;
\* it fails on r or s out of 1 .. NN - 1, on an r of no point and on infinity.
NoSigner == <<0>>

ecrecover(h, v, r, s) ==
  LET R == <<r, deriveY(2 + v - 27, r, AA, BB, PP)>>
      rInv == invMod(r, NN)
      Part(k, P) == IF k = 0 THEN NoPoint ELSE derivePoint(k, P)
      sR == Part(mulmod(rInv, s, NN), R)
      hG == Part(mulmod(rInv, h, NN), G)
  IN
  IF \/ r \notin 1 .. NN - 1 \/ s \notin 1 .. NN - 1
     \/ ~isOnCurve(r, R[2], AA, BB, PP)
  THEN NoSigner
  ELSE CASE hG = NoPoint -> sR
         [] hG # NoPoint /\ sR = hG -> NoSigner
         [] hG # NoPoint /\ sR # hG -> ecSub(sR, hG, AA, PP)

Parity(P) == IF (P[2] % 2) # 0 THEN 28 ELSE 27

ecMulVerify(scalar, P, Q) ==
  Q = ecrecover(0, Parity(P), P[1], mulmod(scalar, P[1], NN))

\* Mutant of ecMulSubMulVerify: scalar2 is not negated.
AddsTheSecond(scalar1, scalar2, P, Q) ==
  Q = ecrecover(mulmod((NN - scalar1) % NN, P[1], NN), Parity(P), P[1],
                mulmod(scalar2, P[1], NN))

\* NN - scalar is a checked subtraction: it reverts for a scalar above NN.
ecMulSubMulVerify(scalar1, scalar2, P, Q) ==
  /\ scalar1 <= NN /\ scalar2 <= NN
  /\ Q = ecrecover(mulmod((NN - scalar1) % NN, P[1], NN), Parity(P), P[1],
                   mulmod((NN - scalar2) % NN, P[1], NN))

computeFastVerifyParams(publicKey, proof, message) ==
  [U |-> ecMulSubMul(proof.s, G, proof.c, publicKey),
   sH |-> derivePoint(proof.s, hashToTryAndIncrement(publicKey, message)),
   cGamma |-> derivePoint(proof.c, proof.gamma)]

\* fastVerify; TRUE only if it returns true.
fastVerify(publicKey, proof, message, params) ==
  LET H == hashToTryAndIncrement(publicKey, message) IN
  /\ ecMulSubMulVerify(proof.s, proof.c, publicKey, params.U)
  /\ ecMulVerify(proof.s, H, params.sH)
  /\ ecMulVerify(proof.c, proof.gamma, params.cGamma)
  /\ hashPoints(H, proof.gamma, params.U, ecSub(params.sH, params.cGamma, AA, PP)) = proof.c
=============================================================================
