--------------------------- MODULE MCEventIterator ---------------------------
(***************************************************************************)
(* EventIterator for TLC: a node answers with some of the logs, each once, *)
(* in any order.                                                           *)
(***************************************************************************)
EXTENDS EventIterator, SequencesExt

MCAnswers == UNION {SetToSeqs(S) : S \in SUBSET Logs}
=============================================================================
