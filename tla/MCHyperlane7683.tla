--------------------------- MODULE MCHyperlane7683 ---------------------------
(***************************************************************************)
(* Hyperlane7683 for TLC: an order with two legs and one with one, and     *)
(* Money on each chain.  With two, both orders can be on record, in        *)
(* different blocks, and the money is gone when one of them comes again.   *)
(***************************************************************************)
EXTENDS Hyperlane7683

CONSTANTS base, ink, Large, CopiesOfSmall, Money

MCLegs == [o \in Orders |-> IF o = Large THEN {base, ink} ELSE {base}]
MCCopies == [o \in Orders |-> IF o = Large THEN 1 ELSE CopiesOfSmall]
MCFunds == [c \in Chains |-> Money]
=============================================================================
