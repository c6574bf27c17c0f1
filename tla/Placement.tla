------------------------------ MODULE Placement ------------------------------
(***************************************************************************)
(* What a checkout promises to someone who sees only the carts and the     *)
(* checkout sessions: a cart is placed in one step, which writes its       *)
(* session and freezes its terms; a session is then settled or cancelled,  *)
(* once, except that a cancel under way may still void a settled one; and  *)
(* a cart is cancelled only after its session.                             *)
(***************************************************************************)
EXTENDS Naturals

CONSTANTS Carts, Ids, Carriers, Stores, Parties, Amounts, None

VARIABLES cart, session
vars == <<cart, session>>

Init ==
  /\ cart = [c \in Carts |-> [state |-> "open", mode |-> "delivery", pin |-> None,
                              carrier |-> None, party |-> None]]
  /\ session = [i \in Ids |-> [state |-> "none", cart |-> None, amount |-> 0,
                               pin |-> None, bound |-> FALSE]]

\* A shopper verb changes the terms of an open cart.
Edit(c) ==
  /\ cart[c].state = "open"
  /\ \E m \in {"delivery", "pickup"}, s \in Stores \cup {None},
        k \in Carriers \cup {None}, p \in Parties \cup {None} :
       cart' = [cart EXCEPT ![c] = [state |-> "open", mode |-> m, pin |-> s,
                                    carrier |-> k, party |-> p]]
  /\ UNCHANGED session

\* The session an open cart gets for a total: paid online, free, or paid at
\* the store the cart is pinned to.
SessionFor(c, amount, state) ==
  [state |-> state, cart |-> c, amount |-> amount, pin |-> cart[c].pin,
   bound |-> state = "pending_payment"]

Place(c, i) ==
  /\ cart[c].state = "open"
  /\ session[i].state = "none"
  /\ \E p \in Parties : cart' = [cart EXCEPT ![c].state = "placed", ![c].party = p]
  /\ \E a \in Amounts, s \in {"pending_payment", "confirmed_free", "pending_pickup"} :
       /\ s = "pending_payment" => a # 0
       /\ s = "confirmed_free" => a = 0
       /\ s = "pending_pickup" => cart[c].pin # None
       /\ session' = [session EXCEPT ![i] = SessionFor(c, a, s)]

\* Only a payment still awaited settles: never a free, nor a cancelled one.
Settle(i) ==
  /\ session[i].state \in {"pending_payment", "pending_pickup"}
  /\ session' = [session EXCEPT ![i].state = "settled"]
  /\ UNCHANGED cart

Cancel(i) ==
  /\ session[i].state # "none"
  /\ session' = [session EXCEPT ![i].state = "cancelled"]
  /\ UNCHANGED cart

Close(i) ==
  /\ session[i].state = "cancelled"
  /\ cart' = [cart EXCEPT ![session[i].cart].state = "cancelled"]
  /\ UNCHANGED session

Next ==
  \/ \E c \in Carts : Edit(c)
  \/ \E c \in Carts, i \in Ids : Place(c, i)
  \/ \E i \in Ids : Settle(i) \/ Cancel(i) \/ Close(i)

Spec == Init /\ [][Next]_vars
=============================================================================
