---------------------------- MODULE MCCartIdentity ----------------------------
\* CartIdentity with model values: two visitors, each of a website of its own.
\* SiteOf tells the visitors apart, so only carts, handlers and principals are
\* symmetric.
EXTENDS CartIdentity, TLC

CONSTANTS v1, v2, s1, s2
MCSiteOf == v1 :> s1 @@ v2 :> s2

Symmetry == Permutations(Carts) \cup Permutations(Tasks) \cup Permutations(Principals)
=============================================================================
