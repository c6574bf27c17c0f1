---------------------------- MODULE ShopperParties ----------------------------
(***************************************************************************)
(* What the map from addresses to billing parties promises: billing a cart *)
(* to an address is one step, which takes the party the map has for the    *)
(* address or enters one no other address has; an entry is for good; and   *)
(* what a place that came to nothing resolved was never seen.              *)
(***************************************************************************)
CONSTANTS
  Carts,    \* cart rows
  Emails,   \* normalized addresses, of one company
  Parties,  \* billing parties
  None      \* SQL NULL

VARIABLES
  map,     \* the party of each address
  party,   \* the party each cart is billed to
  placed   \* carts that were placed

vars == <<map, party, placed>>

Init ==
  /\ map = [e \in Emails |-> None]
  /\ party = [c \in Carts |-> None]
  /\ placed = {}

\* The party of an address, entered if it has none.
Resolve(e, p) ==
  /\ map[e] \in {None, p}
  /\ \A f \in Emails : map[f] = p => f = e
  /\ map' = [map EXCEPT ![e] = p]

Bill(c, e, p) ==
  /\ c \notin placed
  /\ Resolve(e, p)
  /\ party' = [party EXCEPT ![c] = p]

Place(c) ==
  /\ c \notin placed
  /\ party[c] # None
  /\ placed' = placed \cup {c}
  /\ UNCHANGED <<map, party>>

\* An express place bills its cart in the step that places it.
Capture(c, e, p) == Bill(c, e, p) /\ UNCHANGED placed
Express(c, e, p) == Bill(c, e, p) /\ placed' = placed \cup {c}

Next ==
  \E c \in Carts :
    \/ \E e \in Emails, p \in Parties : Capture(c, e, p) \/ Express(c, e, p)
    \/ Place(c)

Spec == Init /\ [][Next]_vars
=============================================================================
