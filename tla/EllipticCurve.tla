---------------------------- MODULE EllipticCurve ----------------------------
(***************************************************************************)
(* The library EllipticCurve: arithmetic on y^2 = x^3 + ax + b over the    *)
(* integers mod p, in Jacobian coordinates.  A word is WordBits wide where *)
(* the EVM's is 256; mulmod and addmod do not overflow, and no other       *)
(* operation here is given a chance to.  A failed require is Revert.       *)
(***************************************************************************)
EXTENDS Integers, Sequences

CONSTANT WordBits

ASSUME WordBitsIsPositive == WordBits \in Nat \ {0}

Words == 0 .. 2^WordBits - 1

Revert == <<>>

\* The (0, 0) that stands for the point at infinity.
NoPoint == <<0, 0>>

mulmod(x, y, p) == (x * y) % p
addmod(x, y, p) == (x + y) % p

\* The require of invMod.
CannotInvert(x, p) == x = 0 \/ x = p \/ p = 0

RECURSIVE InvLoop(_, _, _, _, _)
InvLoop(q, newT, r, x, p) ==
  IF x = 0 THEN q
  ELSE LET t == r \div x IN
       InvLoop(newT, addmod(q, p - mulmod(t, newT, p), p), x, r - t * x, p)

invMod(x, p) == InvLoop(0, 1, p, x, p)

Bit(e, i) == (e \div 2^i) % 2

\* Square and multiply from the highest bit of a word on; the code does four
\* bits a turn.
expMod(base, e, p) ==
  LET r[i \in 0 .. WordBits] ==
        IF i = 0 THEN 1
        ELSE mulmod(mulmod(r[i - 1], r[i - 1], p), base^Bit(e, WordBits - i), p)
  IN
  IF base = 0 THEN 0 ELSE IF e = 0 THEN 1 ELSE r[WordBits]

toAffine(P, p) ==
  LET zInv == invMod(P[3], p)
      zInv2 == mulmod(zInv, zInv, p)
  IN
  IF CannotInvert(P[3], p) THEN Revert
  ELSE <<mulmod(P[1], zInv2, p), mulmod(P[2], mulmod(zInv, zInv2, p), p)>>

\* y^2 for an x on the curve
YSquared(x, a, b, p) ==
  addmod(mulmod(x, mulmod(x, x, p), p), addmod(mulmod(x, a, p), b, p), p)

\* The require of deriveY.
CannotDerive(prefix) == prefix \notin {2, 3}

deriveY(prefix, x, a, b, p) ==
  LET y == expMod(YSquared(x, a, b, p), (p + 1) \div 4, p) IN
  IF (y + prefix) % 2 = 0 THEN y ELSE p - y

isOnCurve(x, y, a, b, p) ==
  /\ x \in 1 .. p - 1
  /\ y \in 1 .. p - 1
  /\ mulmod(y, y, p) = YSquared(x, a, b, p)

ecInv(P, p) == <<P[1], (p - P[2]) % p>>

\* Mutant of jacDouble: z is doubled as if it had been 1.
DoubleForgetsZ(P, a, p) ==
  LET yy == mulmod(P[2], P[2], p)
      s == mulmod(4, mulmod(P[1], yy, p), p)
      m == mulmod(3, mulmod(P[1], P[1], p), p)
      x == addmod(mulmod(m, m, p), p - addmod(s, s, p), p)
  IN
  <<x, addmod(mulmod(m, addmod(s, p - x, p), p), p - mulmod(8, mulmod(yy, yy, p), p), p),
    mulmod(2, P[2], p)>>

jacDouble(P, a, p) ==
  LET xx == mulmod(P[1], P[1], p)
      yy == mulmod(P[2], P[2], p)
      zz == mulmod(P[3], P[3], p)
      s == mulmod(4, mulmod(P[1], yy, p), p)
      m == addmod(mulmod(3, xx, p), mulmod(a, mulmod(zz, zz, p), p), p)
      x == addmod(mulmod(m, m, p), p - addmod(s, s, p), p)
      y == addmod(mulmod(m, addmod(s, p - x, p), p),
                  p - mulmod(8, mulmod(yy, yy, p), p), p)
  IN
  IF P[3] = 0 THEN P ELSE <<x, y, mulmod(2, mulmod(P[2], P[3], p), p)>>

jacAdd(P, Q, p) ==
  LET z1 == mulmod(P[3], P[3], p)
      z2 == mulmod(Q[3], Q[3], p)
      u1 == mulmod(P[1], z2, p)
      s1 == mulmod(P[2], mulmod(Q[3], z2, p), p)
      u2 == mulmod(Q[1], z1, p)
      s2 == mulmod(Q[2], mulmod(P[3], z1, p), p)
      h == addmod(u2, p - u1, p)
      r == addmod(s2, p - s1, p)
      h2 == mulmod(h, h, p)
      h3 == mulmod(h2, h, p)
      x == addmod(addmod(mulmod(r, r, p), p - h3, p), p - mulmod(2, mulmod(u1, h2, p), p), p)
      y == addmod(mulmod(r, addmod(mulmod(u1, h2, p), p - x, p), p),
                  p - mulmod(s1, h3, p), p)
  IN
  CASE <<P[1], P[2]>> = NoPoint -> Q
    [] <<P[1], P[2]>> # NoPoint /\ <<Q[1], Q[2]>> = NoPoint -> P
    [] <<P[1], P[2]>> # NoPoint /\ <<Q[1], Q[2]>> # NoPoint ->
         IF u1 = u2 /\ s1 = s2 THEN Revert
         ELSE <<x, y, mulmod(h, mulmod(P[3], Q[3], p), p)>>

\* Double and add from the lowest bit on.
RECURSIVE MulLoop(_, _, _, _, _)
MulLoop(remaining, Q, P, a, p) ==
  IF Q = Revert \/ remaining = 0 THEN Q
  ELSE MulLoop(remaining \div 2,
               IF remaining % 2 = 1 THEN jacAdd(Q, P, p) ELSE Q,
               jacDouble(P, a, p), a, p)

jacMul(d, P, a, p) == IF d = 0 THEN P ELSE MulLoop(d, <<0, 0, 1>>, P, a, p)

AffineOrRevert(P, p) == IF P = Revert THEN Revert ELSE toAffine(P, p)

ecMul(k, P, a, p) == AffineOrRevert(jacMul(k, P \o <<1>>, a, p), p)

ecAdd(P, Q, a, p) ==
  IF P[1] = Q[1] THEN IF addmod(P[2], Q[2], p) = 0 THEN NoPoint
                      ELSE AffineOrRevert(jacDouble(P \o <<1>>, a, p), p)
  ELSE AffineOrRevert(jacAdd(P \o <<1>>, Q \o <<1>>, p), p)

ecSub(P, Q, a, p) == ecAdd(P, ecInv(Q, p), a, p)
=============================================================================
