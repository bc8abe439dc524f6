----------------------------- MODULE MCVRFProof ------------------------------
(***************************************************************************)
(* VRFProof for TLC: y^2 = x^3 + 7 mod 79, of prime order 67, in words of  *)
(* 7 bits.  Like secp256k1 in 256 bits: PP is 3 mod 4, the order is below  *)
(* PP and takes the highest bit of a word, no point has x or y zero.       *)
(***************************************************************************)
EXTENDS VRFProof, SequencesExt

MCSha(s) == FoldLeft(LAMBDA acc, n : (acc * 37 + n + 11) % 131, 5, s) % 2^WordBits

MCG == <<1, 18>>
=============================================================================
