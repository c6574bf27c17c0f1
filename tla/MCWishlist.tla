------------------------------ MODULE MCWishlist ------------------------------
\* Wishlist with model values.  No definition singles out a constant, so every
\* set of them is symmetric.
EXTENDS Wishlist, TLC

Symmetry ==
  Permutations(Visitors) \cup Permutations(Items) \cup Permutations(Wishes)
    \cup Permutations(Officers)
=============================================================================
