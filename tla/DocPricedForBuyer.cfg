\* The documented property PricedForBuyer, which the code does not have.
\* The system may rightly come to rest: nobody has to send another request.
SPECIFICATION Spec
CONSTANTS
  Carts = {c1}
  Ids = {i1}
  Tasks = {t1, t2}
  Carriers = {k1}
  Stores = {s1}
  Parties = {p1}
  Amounts = {0, 5}
  None = None
  MaxFaults = 1
INVARIANTS PricedForBuyer
CHECK_DEADLOCK FALSE
