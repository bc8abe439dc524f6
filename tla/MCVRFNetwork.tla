---------------------------- MODULE MCVRFNetwork -----------------------------
(***************************************************************************)
(* VRFNetwork for TLC.  The request contracts have the same address on     *)
(* every chain, as two deployments from one account have.                  *)
(***************************************************************************)
EXTENDS VRFNetwork, TLC

CONSTANT SharedAddress

MCRequestAddress == [c \in Chains |-> SharedAddress]

Symmetric == Permutations(Values) \cup Permutations(Chains)
=============================================================================
