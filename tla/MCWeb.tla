------------------------------- MODULE MCWeb -------------------------------
(***************************************************************************)
(* WebStore for TLC.                                                       *)
(***************************************************************************)
EXTENDS WebStore, TLC

CONSTANTS s1, s2, s3

Symmetry == Permutations(Sessions)
=============================================================================
