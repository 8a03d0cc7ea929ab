-------------------------- MODULE MCRecursiveMutex --------------------------
EXTENDS RecursiveMutex, TLC

CONSTANTS t1, t2, t3

MCThread == {t1, t2, t3}
Symmetry == Permutations(MCThread)
=============================================================================
