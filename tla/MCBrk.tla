-------------------------------- MODULE MCBrk --------------------------------
EXTENDS Brk, FiniteSets, TLC
MCSymmetry == Permutations(Threads)
=============================================================================
