\* The documented property PlaceRefusesClosedGate, which the code does not have.
\* The system may rightly come to rest: nobody has to send another request.
SPECIFICATION Spec
CONSTANTS
  Carts = {c1}
  Items = {a, b}
  LineIds = {l1, l2}
  Tasks = {t1, t2}
  Coupons = {k1}
  None = None
  MaxCartLines = 1
  MaxQuantity = 2
  Requested = {1}
  StockLevels = {1, 6}
INVARIANTS PlaceRefusesClosedGate
CHECK_DEADLOCK FALSE
