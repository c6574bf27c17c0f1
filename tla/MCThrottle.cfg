\* One identity behind one address, two handlers, and time for three windows.
\* The system may rightly come to rest: the clock is bounded.
SPECIFICATION Spec
CONSTANTS
  Identities = {i1}
  Addresses = {a1}
  Tasks = {t1, t2}
  None = None
  Budget = 2
  Window = 2
  MaxTime = 4
  MaxBack = 1
SYMMETRY Symmetry
INVARIANTS TypeOK SlidingBudget EveryHitAccountedFor
CHECK_DEADLOCK FALSE
