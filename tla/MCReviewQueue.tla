--------------------------- MODULE MCReviewQueue ---------------------------
(***************************************************************************)
(* Values of the constants of ReviewQueue for TLC.                         *)
(***************************************************************************)
EXTENDS ReviewQueue, TLC

Symmetry == Permutations(Calls) \cup Permutations(Reviewers)
=============================================================================
