--------------------------- MODULE MCGenerations ---------------------------
(* TLC instances of Generations: interchangeable processes and contents. *)
EXTENDS Generations, TLC

Symmetry == Permutations(Publishers) \union Permutations(Readers)
            \union Permutations(Contents) \union Permutations(Files)
=============================================================================
