------------------------------ MODULE MCRecovery ------------------------------
\* Recovery with model values.  No definition singles out a constant, so every
\* set of them is symmetric.
EXTENDS Recovery, TLC

Symmetry ==
  Permutations(Carts) \cup Permutations(Emails) \cup Permutations(Parties)
    \cup Permutations(Tasks) \cup Permutations(Officers)
=============================================================================
