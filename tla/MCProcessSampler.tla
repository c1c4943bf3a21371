------------------------- MODULE MCProcessSampler -------------------------
\* Constants for the model checking of ProcessSampler.
EXTENDS ProcessSampler, TLC

\* The forked processes are interchangeable.
Symmetry == Permutations(Procs \ {Root})
=============================================================================
