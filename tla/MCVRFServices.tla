---------------------------- MODULE MCVRFServices ----------------------------
(***************************************************************************)
(* VRFServices for TLC: one address for all the request contracts.         *)
(***************************************************************************)
EXTENDS VRFServices

CONSTANT SharedAddress

MCRequestAddress == [c \in Chains |-> SharedAddress]
=============================================================================
