----------------------------- MODULE CheckoutInv -----------------------------
(***************************************************************************)
(* The inductive invariant behind Checkout's safety properties: what each  *)
(* handler may rely on at each of its steps, and what the committed rows   *)
(* say of one another between steps.                                       *)
(***************************************************************************)
EXTENDS Checkout

Placing(t) == task[t].at \in PlaceSteps
Closing(t) == task[t].at \in Steps \ PlaceSteps

\* A cart is in pickup mode exactly when it is pinned to a store.
CartOK(c) == cart[c].mode = "pickup" <=> cart[c].pin # None

\* A place holds its cart's lock, the cart is open and carries the terms it
\* read, and its checkout id is its own.
HoldsCart(t) ==
  /\ task[t].id \in Ids
  /\ task[t].cart \in Carts
  /\ lock[task[t].cart] = t
  /\ cart[task[t].cart].state = "open"
  /\ SameTerms(task[t].row, cart[task[t].cart])
  /\ LaneAllows(task[t].lane, task[t].row)
  /\ task[t].row.party # None
  /\ session[task[t].id].state = "none"

\* What each step of place has left behind so far.
Armed(i, arm) ==
  \/ arm = "pending_pickup" /\ order[i].status = "draft" /\ gateway[i].status = "none"
  \/ /\ arm = "confirmed_free" /\ order[i].status = "confirmed"
     /\ order[i].by = "place" /\ gateway[i].status = "none"
  \/ /\ arm = "pending_payment" /\ order[i].status = "draft"
     /\ gateway[i].status = "pending" /\ gateway[i].gross = order[i].total

PlaceProgress(t) ==
  LET i == task[t].id IN
  /\ task[t].at = "mint" => order[i].status = "none"
  /\ task[t].at \in {"arm", "commit"} =>
       order[i].party = task[t].row.party /\ order[i].carrier = task[t].row.carrier
  /\ task[t].at = "arm" => order[i].status = "draft" /\ gateway[i].status = "none"
  /\ task[t].at = "commit" => Armed(i, Arm(task[t].lane, order[i].total))

PlaceOK(t) == Placing(t) => HoldsCart(t) /\ PlaceProgress(t)

OwnIds == \A t, u \in Tasks : Placing(t) /\ Placing(u) /\ task[t].id = task[u].id => t = u

\* The rows of one checkout, whether or not it came to have a session.
OrderOK(i) ==
  /\ order[i].status = "none" => session[i].state = "none" /\ gateway[i].status = "none"
  /\ order[i].status \in {"none", "draft"} => order[i].by = "nobody"
  /\ order[i].status = "cancelled" => i \in voiding
  /\ gateway[i].status = "settled" => session[i].state # "none"
  /\ order[i].status = "confirmed" =>
       \/ order[i].by = "place" /\ order[i].total = 0
       \/ order[i].by = "settlement" /\ gateway[i].status = "settled"
       \/ order[i].by = "officer" /\ gateway[i].status = "none" /\ session[i].pin # None

SessionOK(i) ==
  /\ session[i].state = "none" => session[i] = NoSession /\ i \notin voiding
  /\ session[i].state # "none" =>
       LET c == session[i].cart IN
       /\ c \in Carts
       /\ cart[c].state \in {"placed", "cancelled"}
       /\ cart[c].state = "cancelled" => session[i].state = "cancelled"
       /\ session[i].pin = cart[c].pin
       /\ order[i].carrier = cart[c].carrier
       /\ order[i].party = cart[c].party
       /\ order[i].status # "none"
       /\ session[i].amount = order[i].total
       /\ session[i].bound <=> gateway[i].status # "none"
       /\ session[i].bound => gateway[i].gross = order[i].total /\ order[i].total # 0
  /\ session[i].state = "pending_payment" => session[i].bound
  /\ session[i].state = "pending_pickup" => ~session[i].bound /\ session[i].pin # None
  /\ session[i].state = "settled" =>
       order[i].status = "confirmed" \/ i \in voiding
  /\ session[i].state = "cancelled" => order[i].status = "cancelled"

\* What each closing verb has established when it takes its next step.
CloseOK(t) ==
  LET i == task[t].id IN
  Closing(t) =>
    /\ i \in Ids
    /\ session[i].state # "none"
    /\ task[t].at \in {"settle_confirm", "settle_stamp"} =>
         session[i].bound /\ gateway[i].status = "settled"
    /\ task[t].at \in {"pickup_confirm", "pickup_stamp"} =>
         ~session[i].bound /\ session[i].pin # None
    /\ task[t].at \in {"settle_stamp", "pickup_stamp"} =>
         order[i].status \in {"confirmed", "cancelled"}
    /\ task[t].at \in {"cancel_order", "cancel_session", "cancel_cart"} => i \in voiding
    /\ task[t].at \in {"cancel_session", "cancel_cart"} => order[i].status = "cancelled"
    /\ task[t].at = "cancel_cart" => session[i].state = "cancelled"

IInv ==
  /\ TypeOK
  /\ LockDiscipline
  /\ OneWinner
  /\ OwnIds
  /\ \A c \in Carts : CartOK(c)
  /\ \A i \in Ids : OrderOK(i) /\ SessionOK(i)
  /\ \A t \in Tasks : PlaceOK(t) /\ CloseOK(t)
=============================================================================
