--------------------------- MODULE MCCompression ---------------------------
(***************************************************************************)
(* HistoryCompression for TLC.                                             *)
(***************************************************************************)
EXTENDS HistoryCompression, TLC

CONSTANTS c1, c2

Symmetry == Permutations(Calls)
=============================================================================
