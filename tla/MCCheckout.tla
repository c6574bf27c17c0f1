----------------------------- MODULE MCCheckout -----------------------------
\* Checkout with model values.  No definition singles out a constant, so every
\* set of them is symmetric in the safety runs.
EXTENDS CheckoutInv, TLC

Symmetry ==
  Permutations(Carts) \cup Permutations(Ids) \cup Permutations(Tasks)
    \cup Permutations(Carriers) \cup Permutations(Parties)
    \cup Permutations(Stores)
=============================================================================
