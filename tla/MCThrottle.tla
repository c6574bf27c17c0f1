------------------------------ MODULE MCThrottle ------------------------------
\* Throttle with model values.  No definition singles out an identity, an
\* address or a handler, so these sets are symmetric.
EXTENDS Throttle, TLC

Symmetry == Permutations(Identities) \cup Permutations(Addresses) \cup Permutations(Tasks)
=============================================================================
