--------------------------- MODULE MCRunLifecycle ---------------------------
(* Symmetry of the sets of model values RunLifecycle is checked with. *)
EXTENDS RunLifecycle, TLC

Symmetry == Permutations(Requests) \cup Permutations(Runs)
            \cup Permutations(Sessions) \cup Permutations(Bodies)
=============================================================================
