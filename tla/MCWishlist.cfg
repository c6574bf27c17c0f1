\* Two devices, two items, one principal, three wishes in all, two officers.
\* The system may rightly come to rest: nobody has to send another request.
SPECIFICATION Spec
CONSTANTS
  Visitors = {v1, v2}
  Items = {a, b}
  Principals = {p1}
  Wishes = {w1, w2, w3}
  Officers = {o1, o2}
  None = None
SYMMETRY Symmetry
INVARIANTS TypeOK ArmAnswered StillWanted ToldOnce
CHECK_DEADLOCK FALSE
