---------------------------- MODULE MCSandboxPool ----------------------------
(* The pool on small instances, with its refinement of SandboxLease.       *)
EXTENDS SandboxPoolRefinement, TLC

\* Symmetry of the safety runs: Runs, sandboxes and sessions are not told apart.
Symmetry == Permutations(Runs) \cup Permutations(Sandboxes) \cup Permutations(Sessions)
=============================================================================
