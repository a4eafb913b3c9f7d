----------------------------- MODULE MCForward -----------------------------
EXTENDS Forward, TLC
Symmetry == Permutations(Ports)
=============================================================================
