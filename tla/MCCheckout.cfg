\* One cart, two attempts to place it that reach the mint, three handlers, two lost tasks.
\* The system may rightly come to rest: nobody has to send another request.
SPECIFICATION Spec
CONSTANTS
  Carts = {c1}
  Ids = {i1, i2}
  Tasks = {t1, t2, t3}
  Carriers = {k1, k2}
  Stores = {s1, s2}
  Parties = {p1, p2}
  Amounts = {0, 5}
  None = None
  MaxFaults = 2
SYMMETRY Symmetry
INVARIANTS TypeOK IInv OneWinner ThreeWitnesses LockedTerms LockDiscipline UnpaidNeverConfirms SettledMeansSold CancelMirrors AnsweredIsRecorded
PROPERTIES ClosedRowsKeep PlaceIsAtomic
CHECK_DEADLOCK FALSE
