----------------------------- MODULE MCCartLines -----------------------------
\* CartLines with model values.  No definition singles out a constant, so every
\* set of them is symmetric.
EXTENDS CartLines, TLC

Symmetry == Permutations(Items) \cup Permutations(LineIds) \cup Permutations(Tasks)
=============================================================================
