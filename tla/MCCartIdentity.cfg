\* Two carts, two visitors on two websites, two principals, two handlers.
\* The system may rightly come to rest: nobody has to send another request.
SPECIFICATION IdSpec
CONSTANTS
  v1 = v1
  v2 = v2
  s1 = s1
  s2 = s2
  Carts = {c1, c2}
  Visitors = {v1, v2}
  Principals = {p1, p2}
  Sites = {s1, s2}
  SiteOf <- MCSiteOf
  Tasks = {t1, t2}
  None = None
SYMMETRY Symmetry
INVARIANTS IdTypeOK OffSiteOnlyLinked IdInv
PROPERTIES OnlyItsPrincipalMoves PlacedStays PlacedByAnOwner KeepsOpenCarts
CHECK_DEADLOCK FALSE
