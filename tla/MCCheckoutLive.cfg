\* Liveness, so without symmetry: one cart, two attempts, three handlers.
\* The system may rightly come to rest: nobody has to send another request.
SPECIFICATION FairSpec
CONSTANTS
  Carts = {c1}
  Ids = {i1, i2}
  Tasks = {t1, t2, t3}
  Carriers = {k1}
  Stores = {s1}
  Parties = {p1}
  Amounts = {0, 5}
  None = None
  MaxFaults = 1
PROPERTIES PaymentsAreRecorded LocksAreReleased
CHECK_DEADLOCK FALSE
