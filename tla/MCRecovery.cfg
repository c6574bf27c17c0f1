\* Two carts, two addresses, two parties, two handlers, two officers.
\* The system may rightly come to rest: nobody has to send another request.
SPECIFICATION Spec
CONSTANTS
  Carts = {c1, c2}
  Emails = {e1, e2}
  Parties = {q1, q2}
  Tasks = {t1, t2}
  Officers = {o1, o2}
  None = None
SYMMETRY Symmetry
INVARIANTS TypeOK OneParty WaitsEnd MailsTheShopper NeverFakeSent LateMailsBounded
CHECK_DEADLOCK FALSE
