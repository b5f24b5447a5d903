--------------------------- MODULE MCDataAnalysis ---------------------------
(***************************************************************************)
(* DataAnalysis on small instances.  Queries are interchangeable; the      *)
(* requirements are not, because only some demand a value.                 *)
(***************************************************************************)
EXTENDS DataAnalysis, TLC

CONSTANTS i1, q1, q2, m1, p1, r1, r2

Symmetry == Permutations(Queries)
=============================================================================
