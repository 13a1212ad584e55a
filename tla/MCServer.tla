------------------------------ MODULE MCServer ------------------------------
(***************************************************************************)
(* Small instances of PcapchuServer for TLC.                               *)
(***************************************************************************)
EXTENDS PcapchuServer, TLC

CONSTANTS s1, s2, s3, q1, q2, q3, k1, p1, p2, p3, c1, c2

\* Requests are interchangeable, and so are sessions.
Symmetry == Permutations(Requests) \cup Permutations(Sessions)
=============================================================================
