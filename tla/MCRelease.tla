----------------------------- MODULE MCRelease -----------------------------
(* TLC instances of Release: interchangeable processes and revisions. *)
EXTENDS Release, TLC

Symmetry == Permutations(Packagers) \union Permutations(Assemblers) \union Permutations(Revisions)
=============================================================================
