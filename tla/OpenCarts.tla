------------------------------ MODULE OpenCarts ------------------------------
(***************************************************************************)
(* What cart identity promises: a visitor holds at most one open cart, a   *)
(* cart changes hands only when a principal is linked to it, the link is   *)
(* for good, and a cart that was closed never opens again.                 *)
(***************************************************************************)
CONSTANTS
  Carts,       \* cart rows
  Visitors,    \* visitors of the company's websites
  Principals,  \* portal users
  None         \* SQL NULL

VARIABLES
  holder,  \* the visitor whose open cart each cart is
  link,    \* the principal each cart is linked to
  used     \* carts created so far

vars == <<holder, link, used>>

Init ==
  /\ holder = [c \in Carts |-> None]
  /\ link = [c \in Carts |-> None]
  /\ used = {}

\* The partial unique index: v has no open cart.
Free(v) == \A c \in Carts : holder[c] # v

Create(c, v) ==
  /\ c \notin used
  /\ Free(v)
  /\ holder' = [holder EXCEPT ![c] = v]
  /\ used' = used \cup {c}
  /\ UNCHANGED link

Link(c, p) ==
  /\ holder[c] # None
  /\ link[c] = None
  /\ link' = [link EXCEPT ![c] = p]
  /\ UNCHANGED <<holder, used>>

Move(c, v) ==
  /\ holder[c] # None
  /\ link[c] # None
  /\ Free(v)
  /\ holder' = [holder EXCEPT ![c] = v]
  /\ UNCHANGED <<link, used>>

Close(c) ==
  /\ holder[c] # None
  /\ holder' = [holder EXCEPT ![c] = None]
  /\ UNCHANGED <<link, used>>

Next ==
  \E c \in Carts :
    \/ \E v \in Visitors : Create(c, v) \/ Move(c, v)
    \/ \E p \in Principals : Link(c, p)
    \/ Close(c)

Spec == Init /\ [][Next]_vars
=============================================================================
