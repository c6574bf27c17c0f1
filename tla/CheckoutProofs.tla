---------------------------- MODULE CheckoutProofs ----------------------------
(***************************************************************************)
(* Proofs about Checkout, for every value of its constants.  IInv of       *)
(* CheckoutInv is inductive: one lemma per step, and in it one step per    *)
(* part of IInv.  The safety properties follow from IInv; the action       *)
(* property and the refinement of Placement follow from IInv and a look at *)
(* each step.                                                              *)
(***************************************************************************)
EXTENDS CheckoutInv, TLAPS

\* Moving a handler to another step leaves it a handler.
LEMMA GotoType ==
  ASSUME TypeOK, NEW t \in Tasks, NEW step \in Steps \cup {"idle"}, Goto(t, step)
  PROVE  task' \in [Tasks -> TaskState]
BY DEF TypeOK, Goto, TaskState

\* A handler that is done is idle again.
LEMMA FinishType ==
  ASSUME TypeOK, ConstantsAssumption, NEW t \in Tasks, Finish(t)
  PROVE  task' \in [Tasks -> TaskState]
<1>1. NoCart \in CartRow
  BY DEF NoCart, CartRow, CartStates
<1>2. Idle \in TaskState
  BY <1>1 DEF Idle, TaskState, Lanes
<1>3. QED
  BY <1>2 DEF TypeOK, Finish

\* Confirming an order, tolerated when it is no draft, writes a row of selling's table.
LEMMA ConfirmType ==
  ASSUME TypeOK, NEW i \in Ids, NEW who \in Confirmers, Confirm(i, who)
  PROVE  order' \in [Ids -> OrderRow]
<1>. DEFINE moved == [order[i] EXCEPT !.status = "confirmed"]
            new == [moved EXCEPT !.by = who]
<1>1. new \in OrderRow
  <2>1. moved \in OrderRow
    BY DEF TypeOK, OrderRow
  <2>. HIDE DEF moved
  <2>2. QED
    BY <2>1 DEF OrderRow
<1>2. order' = order \/ order' = [order EXCEPT ![i] = new]
  BY DEF Confirm
<1>3. QED
  BY <1>1, <1>2 DEF TypeOK

\* A single-transaction verb on an open, unlocked cart preserves the invariant: no
\* place has read the cart, and no session names it.
LEMMA StampStep ==
  ASSUME IInv, NEW c \in Carts, NEW row \in CartRow, OpenUnderLock(c), StampCart(c, row),
         row.state = "open", row.mode = "pickup" <=> row.pin # None
  PROVE  IInv'
<1>0. /\ lock[c] = None /\ cart[c].state = "open"
      /\ \A i \in Ids : session[i].cart # c
      /\ \A t \in Tasks : Placing(t) => task[t].cart # c
  BY ConstantsAssumption DEF IInv, OneWinner, OpenUnderLock, LockFree, PlaceOK, HoldsCart
<1>1. TypeOK'
  BY DEF IInv, TypeOK, StampCart
<1>2. LockDiscipline' /\ OwnIds'
  BY <1>0 DEF IInv, TypeOK, LockDiscipline, OwnIds, Placing, StampCart
<1>3. OneWinner'
  BY <1>0 DEF IInv, TypeOK, OneWinner, StampCart
<1>4. \A d \in Carts : CartOK(d)'
  BY DEF IInv, TypeOK, CartOK, StampCart
<1>5. \A j \in Ids : OrderOK(j)' /\ SessionOK(j)'
  BY <1>0 DEF IInv, TypeOK, OrderOK, SessionOK, StampCart
<1>6. \A u \in Tasks : PlaceOK(u)' /\ CloseOK(u)'
  BY <1>0 DEF IInv, TypeOK, PlaceOK, Placing, HoldsCart, PlaceProgress, Armed, CloseOK,
     Closing, StampCart
<1>7. QED
  BY <1>1, <1>2, <1>3, <1>4, <1>5, <1>6 DEF IInv

\* set_delivery, set_pickup, reset_fulfillment and capture_billing preserve the invariant.
LEMMA LockedVerbStep ==
  ASSUME IInv, NEW c \in Carts, LockedVerb(c)
  PROVE  IInv'
<1>0. /\ cart[c] \in CartRow
      /\ OpenUnderLock(c) => cart[c].state = "open"
      /\ cart[c].mode = "pickup" <=> cart[c].pin # None
  BY DEF IInv, TypeOK, CartOK, OpenUnderLock
<1>1. ASSUME NEW k \in Carriers, SetDelivery(c, k) PROVE IInv'
  <2>. DEFINE row == [cart[c] EXCEPT !.carrier = k]
  <2>1. row \in CartRow /\ row.state = cart[c].state /\ row.mode = cart[c].mode /\ row.pin = cart[c].pin
    BY <1>0 DEF CartRow
  <2>2. QED
    BY <1>0, <1>1, <2>1, StampStep DEF SetDelivery
<1>2. ASSUME NEW s \in Stores, SetPickup(c, s) PROVE IInv'
  <2>. DEFINE row == [cart[c] EXCEPT !.mode = "pickup", !.pin = s]
  <2>1. row \in CartRow /\ row.state = cart[c].state /\ row.mode = "pickup" /\ row.pin = s
    BY <1>0 DEF CartRow
  <2>2. s # None
    BY ConstantsAssumption
  <2>3. QED
    BY <1>0, <1>2, <2>1, <2>2, StampStep DEF SetPickup
<1>3. ASSUME ResetFulfillment(c) PROVE IInv'
  <2>. DEFINE row == [cart[c] EXCEPT !.mode = "delivery", !.pin = None]
  <2>1. row \in CartRow /\ row.state = cart[c].state /\ row.mode = "delivery" /\ row.pin = None
    BY <1>0 DEF CartRow
  <2>2. QED
    BY <1>0, <1>3, <2>1, StampStep DEF ResetFulfillment
<1>4. ASSUME NEW p \in Parties, CaptureBilling(c, p) PROVE IInv'
  <2>. DEFINE row == [cart[c] EXCEPT !.party = p]
  <2>1. row \in CartRow /\ row.state = cart[c].state /\ row.mode = cart[c].mode /\ row.pin = cart[c].pin
    BY <1>0 DEF CartRow
  <2>2. QED
    BY <1>0, <1>4, <2>1, StampStep DEF CaptureBilling
<1>5. QED
  BY <1>1, <1>2, <1>3, <1>4 DEF LockedVerb

\* A handler that is placing no cart moves on: if its step spares the rows no session has
\* yet, the places under way are as they were.
LEMMA PlacesStand ==
  ASSUME IInv, NEW t \in Tasks, ~Placing(t), ~Placing(t)',
         \A u \in Tasks : u # t => task'[u] = task[u],
         UNCHANGED <<cart, lock>>,
         \A j \in Ids : session[j].state = "none" =>
           session'[j] = session[j] /\ order'[j] = order[j] /\ gateway'[j] = gateway[j]
  PROVE  LockDiscipline' /\ OwnIds' /\ \A u \in Tasks : PlaceOK(u)'
<1>1. LockDiscipline'
  BY DEF IInv, LockDiscipline, Placing
<1>2. OwnIds'
  BY DEF IInv, OwnIds, Placing
<1>3. ASSUME NEW u \in Tasks, Placing(u)' PROVE HoldsCart(u)' /\ PlaceProgress(u)'
  <2>1. task'[u] = task[u] /\ Placing(u)
    BY <1>3 DEF Placing
  <2>2. HoldsCart(u) /\ PlaceProgress(u)
    BY <2>1 DEF IInv, PlaceOK
  <2>3. task[u].id \in Ids /\ session[task[u].id].state = "none"
    BY <2>2 DEF HoldsCart
  <2>4. QED
    BY <2>1, <2>2, <2>3 DEF HoldsCart, PlaceProgress, Armed
<1>4. QED
  BY <1>1, <1>2, <1>3 DEF PlaceOK

\* A handler moves on: if its step takes back nothing of what a closing verb relies on,
\* the other closing verbs are as they were.
LEMMA ClosersStand ==
  ASSUME IInv, NEW t \in Tasks, NEW u \in Tasks, u # t, task'[u] = task[u],
         voiding \subseteq voiding',
         \A j \in Ids : session[j].state # "none" =>
           /\ session'[j].state # "none"
           /\ session[j].state = "cancelled" => session'[j].state = "cancelled"
           /\ session'[j].bound = session[j].bound /\ session'[j].pin = session[j].pin
           /\ gateway[j].status = "settled" => gateway'[j].status = "settled"
           /\ order[j].status \in {"confirmed", "cancelled"} =>
                order'[j].status \in {order[j].status, "cancelled"}
  PROVE  CloseOK(u)'
<1>1. CASE Closing(u)
  BY <1>1 DEF IInv, CloseOK, Closing
<1>2. CASE ~Closing(u)
  BY <1>2 DEF CloseOK, Closing
<1>3. QED
  BY <1>1, <1>2

\* An order none of whose rows moves is as it was.
LEMMA OrderStands ==
  ASSUME NEW j, OrderOK(j), order'[j] = order[j], gateway'[j] = gateway[j],
         session'[j] = session[j], voiding' = voiding
  PROVE  OrderOK(j)'
BY DEF OrderOK

\* A checkout none of whose rows moves is as it was.
LEMMA RowsStand ==
  ASSUME NEW j, OrderOK(j), SessionOK(j),
         order'[j] = order[j], gateway'[j] = gateway[j], session'[j] = session[j],
         cart' = cart, voiding' = voiding
  PROVE  OrderOK(j)' /\ SessionOK(j)'
<1>1. OrderOK(j)'
  BY OrderStands
<1>2. SessionOK(j)'
  BY DEF SessionOK
<1>3. QED
  BY <1>1, <1>2

\* What confirming an order does to the orders: a draft confirms, all else stays.
LEMMA ConfirmEffect ==
  ASSUME TypeOK, NEW i \in Ids, NEW who, Confirm(i, who)
  PROVE  /\ \A j \in Ids : j # i => order'[j] = order[j]
         /\ order[i].status # "draft" => order'[i] = order[i]
         /\ order[i].status = "draft" =>
              /\ order'[i].status = "confirmed" /\ order'[i].by = who
              /\ order'[i].total = order[i].total /\ order'[i].party = order[i].party
              /\ order'[i].carrier = order[i].carrier
<1>1. order \in [Ids -> OrderRow] /\ order[i] \in OrderRow
  BY DEF TypeOK
<1>2. CASE order[i].status = "draft"
  <2>. DEFINE new == [order[i] EXCEPT !.status = "confirmed", !.by = who]
  <2>1. order' = [order EXCEPT ![i] = new]
    BY <1>1, <1>2 DEF Confirm
  <2>2. /\ new.status = "confirmed" /\ new.by = who /\ new.total = order[i].total
        /\ new.party = order[i].party /\ new.carrier = order[i].carrier
    BY <1>1 DEF OrderRow
  <2>. HIDE DEF new
  <2>3. QED
    BY <1>1, <1>2, <2>1, <2>2
<1>3. CASE order[i].status # "draft"
  BY <1>3 DEF Confirm
<1>4. QED
  BY <1>2, <1>3

\* A guarded stamp leaves rows of the table.
LEMMA StampType ==
  ASSUME TypeOK, NEW i \in Ids, NEW from, StampSettled(i, from)
  PROVE  session' \in [Ids -> SessionRow]
<1> DEFINE new == [session[i] EXCEPT !.state = "settled"]
<1>1. session \in [Ids -> SessionRow] /\ session[i] \in SessionRow
  BY DEF TypeOK
<1>2. session' = [session EXCEPT ![i] = new] \/ session' = session
  BY DEF StampSettled
<1>3. new \in SessionRow
  BY <1>1 DEF SessionRow, SessionStates
<1>. HIDE DEF new
<1>4. QED
  BY <1>1, <1>2, <1>3

\* What a guarded stamp does to the sessions.
LEMMA StampEffect ==
  ASSUME TypeOK, NEW i \in Ids, NEW from, StampSettled(i, from)
  PROVE  /\ \A j \in Ids : j # i => session'[j] = session[j]
         /\ session[i].state # from => session'[i] = session[i]
         /\ session[i].state = from =>
              /\ session'[i].state = "settled" /\ session'[i].cart = session[i].cart
              /\ session'[i].amount = session[i].amount /\ session'[i].pin = session[i].pin
              /\ session'[i].bound = session[i].bound
<1>1. session \in [Ids -> SessionRow] /\ session[i] \in SessionRow
  BY DEF TypeOK
<1>2. CASE session[i].state = from
  <2>. DEFINE new == [session[i] EXCEPT !.state = "settled"]
  <2>1. session' = [session EXCEPT ![i] = new]
    BY <1>1, <1>2 DEF StampSettled
  <2>2. /\ new.state = "settled" /\ new.cart = session[i].cart /\ new.bound = session[i].bound
        /\ new.amount = session[i].amount /\ new.pin = session[i].pin
    BY <1>1 DEF SessionRow
  <2>. HIDE DEF new
  <2>3. QED
    BY <1>1, <1>2, <2>1, <2>2
<1>3. CASE session[i].state # from
  BY <1>3 DEF StampSettled
<1>4. QED
  BY <1>2, <1>3

\* The consumer's confirm preserves the invariant: the gateway settled this checkout.
LEMMA ConsumeConfirmStep ==
  ASSUME IInv, NEW t \in Tasks, ConsumeConfirm(t)
  PROVE  IInv'
<1> DEFINE i == task[t].id
<1>0. /\ task[t].at = "settle_confirm" /\ i \in Ids /\ session[i].state # "none"
      /\ session[i].bound /\ gateway[i].status = "settled"
  BY DEF IInv, ConsumeConfirm, CloseOK, Closing, Steps, PlaceSteps
<1>1. TypeOK'
  <2>1. TypeOK
    BY DEF IInv
  <2>2. order' \in [Ids -> OrderRow]
    BY <1>0, <2>1, ConfirmType DEF ConsumeConfirm, Confirmers
  <2>3. task' \in [Tasks -> TaskState]
    BY <2>1, GotoType DEF ConsumeConfirm, Steps
  <2>4. QED
    BY <2>1, <2>2, <2>3 DEF TypeOK, ConsumeConfirm
<1>a. /\ task'[t].at = "settle_stamp" /\ task'[t].id = i
      /\ \A u \in Tasks : u # t => task'[u] = task[u]
      /\ UNCHANGED <<cart, lock, gateway, session, acked, voiding, faults>>
  BY DEF IInv, TypeOK, ConsumeConfirm, Goto, TaskState
<1>u. UNCHANGED <<cart, lock, gateway, session, acked, voiding, faults>>
  BY <1>a
<1>b. /\ \A j \in Ids : j # i => order'[j] = order[j]
      /\ order[i].status # "draft" => order'[i] = order[i]
      /\ order[i].status = "draft" =>
           /\ order'[i].status = "confirmed" /\ order'[i].by = "settlement"
           /\ order'[i].total = order[i].total /\ order'[i].party = order[i].party
           /\ order'[i].carrier = order[i].carrier
  BY <1>0, ConfirmEffect DEF IInv, ConsumeConfirm
<1>c. order[i].status \in {"draft", "confirmed", "cancelled"}
  BY <1>0 DEF IInv, TypeOK, OrderRow, OrderOK
<1>2. LockDiscipline' /\ OwnIds' /\ \A u \in Tasks : PlaceOK(u)'
  BY <1>0, <1>a, <1>b, PlacesStand DEF Placing, PlaceSteps
<1>3. OneWinner' /\ \A c \in Carts : CartOK(c)'
  BY <1>a DEF IInv, OneWinner, CartOK
<1>. HIDE DEF i
<1>4. ASSUME NEW j \in Ids PROVE OrderOK(j)' /\ SessionOK(j)'
  <2>0. OrderOK(j) /\ SessionOK(j)
    BY DEF IInv
  <2>1. CASE j = i
    <3>1. OrderOK(j)'
      <4>1. CASE order[i].status = "draft"
        BY <1>0, <1>u, <1>b, <2>0, <2>1, <4>1 DEF OrderOK
      <4>2. CASE order[i].status # "draft"
        BY <1>0, <1>u, <1>b, <2>0, <2>1, <4>2 DEF OrderOK
      <4>3. QED
        BY <4>1, <4>2
    <3>2. SessionOK(j)'
      BY <1>0, <1>u, <1>b, <1>c, <2>0, <2>1 DEF SessionOK
    <3>3. QED
      BY <3>1, <3>2
  <2>2. CASE j # i
    BY <1>a, <1>b, <2>0, <2>2, RowsStand
  <2>3. QED
    BY <2>1, <2>2
<1>5. \A u \in Tasks : u # t => CloseOK(u)'
  BY <1>a, <1>b, ClosersStand
<1>6. CloseOK(t)'
  BY <1>0, <1>a, <1>b, <1>c DEF CloseOK
<1>7. QED
  BY <1>1, <1>2, <1>3, <1>4, <1>5, <1>6 DEF IInv

\* The officer's confirm preserves the invariant: the session is pinned to a store and
\* bound to no gateway transaction.
LEMMA PickupConfirmStep ==
  ASSUME IInv, NEW t \in Tasks, PickupConfirm(t)
  PROVE  IInv'
<1> DEFINE i == task[t].id
<1>0. /\ task[t].at = "pickup_confirm" /\ i \in Ids /\ session[i].state # "none"
      /\ ~session[i].bound /\ session[i].pin # None /\ gateway[i].status = "none"
  BY DEF IInv, PickupConfirm, CloseOK, Closing, Steps, PlaceSteps, SessionOK
<1>1. TypeOK'
  <2>1. TypeOK
    BY DEF IInv
  <2>2. order' \in [Ids -> OrderRow]
    BY <1>0, <2>1, ConfirmType DEF PickupConfirm, Confirmers
  <2>3. task' \in [Tasks -> TaskState]
    BY <2>1, GotoType DEF PickupConfirm, Steps
  <2>4. QED
    BY <2>1, <2>2, <2>3 DEF TypeOK, PickupConfirm
<1>a. /\ task'[t].at = "pickup_stamp" /\ task'[t].id = i
      /\ \A u \in Tasks : u # t => task'[u] = task[u]
      /\ UNCHANGED <<cart, lock, gateway, session, acked, voiding, faults>>
  BY DEF IInv, TypeOK, PickupConfirm, Goto, TaskState
<1>u. UNCHANGED <<cart, lock, gateway, session, acked, voiding, faults>>
  BY <1>a
<1>b. /\ \A j \in Ids : j # i => order'[j] = order[j]
      /\ order[i].status # "draft" => order'[i] = order[i]
      /\ order[i].status = "draft" =>
           /\ order'[i].status = "confirmed" /\ order'[i].by = "officer"
           /\ order'[i].total = order[i].total /\ order'[i].party = order[i].party
           /\ order'[i].carrier = order[i].carrier
  BY <1>0, ConfirmEffect DEF IInv, PickupConfirm
<1>c. order[i].status \in {"draft", "confirmed", "cancelled"}
  BY <1>0 DEF IInv, TypeOK, OrderRow, OrderOK
<1>2. LockDiscipline' /\ OwnIds' /\ \A u \in Tasks : PlaceOK(u)'
  BY <1>0, <1>a, <1>b, PlacesStand DEF Placing, PlaceSteps
<1>3. OneWinner' /\ \A c \in Carts : CartOK(c)'
  BY <1>a DEF IInv, OneWinner, CartOK
<1>. HIDE DEF i
<1>4. ASSUME NEW j \in Ids PROVE OrderOK(j)' /\ SessionOK(j)'
  <2>0. OrderOK(j) /\ SessionOK(j)
    BY DEF IInv
  <2>1. CASE j = i
    <3>1. OrderOK(j)'
      <4>1. CASE order[i].status = "draft"
        BY <1>0, <1>u, <1>b, <2>0, <2>1, <4>1 DEF OrderOK
      <4>2. CASE order[i].status # "draft"
        BY <1>0, <1>u, <1>b, <2>0, <2>1, <4>2 DEF OrderOK
      <4>3. QED
        BY <4>1, <4>2
    <3>2. SessionOK(j)'
      BY <1>0, <1>u, <1>b, <1>c, <2>0, <2>1 DEF SessionOK
    <3>3. QED
      BY <3>1, <3>2
  <2>2. CASE j # i
    BY <1>a, <1>b, <2>0, <2>2, RowsStand
  <2>3. QED
    BY <2>1, <2>2
<1>5. \A u \in Tasks : u # t => CloseOK(u)'
  BY <1>a, <1>b, ClosersStand
<1>6. CloseOK(t)'
  BY <1>0, <1>a, <1>b, <1>c DEF CloseOK
<1>7. QED
  BY <1>1, <1>2, <1>3, <1>4, <1>5, <1>6 DEF IInv

\* The consumer's guarded stamp preserves the invariant: the order is confirmed, or
\* cancelled by a cancel that got past its check.
LEMMA ConsumeStampStep ==
  ASSUME IInv, NEW t \in Tasks, ConsumeStamp(t)
  PROVE  IInv'
<1> DEFINE i == task[t].id
<1>0. /\ task[t].at = "settle_stamp" /\ i \in Ids /\ session[i].state # "none"
      /\ session[i].bound /\ gateway[i].status = "settled"
      /\ order[i].status \in {"confirmed", "cancelled"}
  BY DEF IInv, ConsumeStamp, CloseOK, Closing, Steps, PlaceSteps
<1>1. TypeOK'
  <2>1. TypeOK
    BY DEF IInv
  <2>2. session' \in [Ids -> SessionRow]
    BY <1>0, <2>1, StampType DEF ConsumeStamp
  <2>3. task' \in [Tasks -> TaskState]
    BY <2>1, ConstantsAssumption, FinishType DEF ConsumeStamp
  <2>4. QED
    BY <1>0, <2>1, <2>2, <2>3 DEF TypeOK, ConsumeStamp
<1>a. /\ task'[t].at = "idle" /\ \A u \in Tasks : u # t => task'[u] = task[u]
      /\ UNCHANGED <<cart, lock, order, gateway, voiding, faults>>
  BY DEF IInv, TypeOK, ConsumeStamp, Finish, Idle
<1>u. UNCHANGED <<cart, lock, order, gateway, voiding, faults>>
  BY <1>a
<1>b. /\ \A j \in Ids : j # i => session'[j] = session[j]
      /\ session[i].state # "pending_payment" => session'[i] = session[i]
      /\ session[i].state = "pending_payment" =>
           /\ session'[i].state = "settled" /\ session'[i].cart = session[i].cart
           /\ session'[i].amount = session[i].amount /\ session'[i].pin = session[i].pin
           /\ session'[i].bound = session[i].bound
  BY <1>0, StampEffect DEF IInv, ConsumeStamp
<1>2. LockDiscipline' /\ OwnIds' /\ \A u \in Tasks : PlaceOK(u)'
  BY <1>0, <1>a, <1>b, PlacesStand DEF Placing, PlaceSteps
<1>3. OneWinner' /\ \A c \in Carts : CartOK(c)'
  <2>1. \A j \in Ids : session'[j].cart = session[j].cart
    BY <1>b
  <2>2. QED
    BY <1>a, <2>1 DEF IInv, OneWinner, CartOK
<1>. HIDE DEF i
<1>4. ASSUME NEW j \in Ids PROVE OrderOK(j)' /\ SessionOK(j)'
  <2>0. OrderOK(j) /\ SessionOK(j)
    BY DEF IInv
  <2>1. CASE j = i /\ session[i].state = "pending_payment"
    <3>1. OrderOK(j)'
      BY <1>0, <1>u, <1>b, <2>0, <2>1 DEF OrderOK
    <3>2. order[i].status = "cancelled" => i \in voiding
      BY <2>0, <2>1 DEF OrderOK
    <3>3. SessionOK(j)'
      BY <1>0, <1>u, <1>b, <2>0, <2>1, <3>2 DEF SessionOK
    <3>4. QED
      BY <3>1, <3>3
  <2>2. CASE j # i \/ session[i].state # "pending_payment"
    <3>1. session'[j] = session[j]
      BY <1>b, <2>2
    <3>2. QED
      BY <1>a, <2>0, <3>1, RowsStand
  <2>3. QED
    BY <2>1, <2>2
<1>5. \A u \in Tasks : u # t => CloseOK(u)'
  BY <1>a, <1>b, ClosersStand
<1>6. CloseOK(t)'
  BY <1>a DEF CloseOK, Closing, Steps, PlaceSteps
<1>7. QED
  BY <1>1, <1>2, <1>3, <1>4, <1>5, <1>6 DEF IInv

\* The officer's guarded stamp preserves the invariant.
LEMMA PickupStampStep ==
  ASSUME IInv, NEW t \in Tasks, PickupStamp(t)
  PROVE  IInv'
<1> DEFINE i == task[t].id
<1>0. /\ task[t].at = "pickup_stamp" /\ i \in Ids /\ session[i].state # "none"
      /\ ~session[i].bound /\ session[i].pin # None
      /\ order[i].status \in {"confirmed", "cancelled"}
  BY DEF IInv, PickupStamp, CloseOK, Closing, Steps, PlaceSteps
<1>1. TypeOK'
  <2>1. TypeOK
    BY DEF IInv
  <2>2. session' \in [Ids -> SessionRow]
    BY <1>0, <2>1, StampType DEF PickupStamp
  <2>3. task' \in [Tasks -> TaskState]
    BY <2>1, ConstantsAssumption, FinishType DEF PickupStamp
  <2>4. QED
    BY <1>0, <2>1, <2>2, <2>3 DEF TypeOK, PickupStamp
<1>a. /\ task'[t].at = "idle" /\ \A u \in Tasks : u # t => task'[u] = task[u]
      /\ UNCHANGED <<cart, lock, order, gateway, voiding, faults>>
  BY DEF IInv, TypeOK, PickupStamp, Finish, Idle
<1>u. UNCHANGED <<cart, lock, order, gateway, voiding, faults>>
  BY <1>a
<1>b. /\ \A j \in Ids : j # i => session'[j] = session[j]
      /\ session[i].state # "pending_pickup" => session'[i] = session[i]
      /\ session[i].state = "pending_pickup" =>
           /\ session'[i].state = "settled" /\ session'[i].cart = session[i].cart
           /\ session'[i].amount = session[i].amount /\ session'[i].pin = session[i].pin
           /\ session'[i].bound = session[i].bound
  BY <1>0, StampEffect DEF IInv, PickupStamp
<1>2. LockDiscipline' /\ OwnIds' /\ \A u \in Tasks : PlaceOK(u)'
  BY <1>0, <1>a, <1>b, PlacesStand DEF Placing, PlaceSteps
<1>3. OneWinner' /\ \A c \in Carts : CartOK(c)'
  <2>1. \A j \in Ids : session'[j].cart = session[j].cart
    BY <1>b
  <2>2. QED
    BY <1>a, <2>1 DEF IInv, OneWinner, CartOK
<1>. HIDE DEF i
<1>4. ASSUME NEW j \in Ids PROVE OrderOK(j)' /\ SessionOK(j)'
  <2>0. OrderOK(j) /\ SessionOK(j)
    BY DEF IInv
  <2>1. CASE j = i /\ session[i].state = "pending_pickup"
    <3>1. OrderOK(j)'
      BY <1>0, <1>u, <1>b, <2>0, <2>1 DEF OrderOK
    <3>2. order[i].status = "cancelled" => i \in voiding
      BY <2>0, <2>1 DEF OrderOK
    <3>3. SessionOK(j)'
      BY <1>0, <1>u, <1>b, <2>0, <2>1, <3>2 DEF SessionOK
    <3>4. QED
      BY <3>1, <3>3
  <2>2. CASE j # i \/ session[i].state # "pending_pickup"
    <3>1. session'[j] = session[j]
      BY <1>b, <2>2
    <3>2. QED
      BY <1>a, <2>0, <3>1, RowsStand
  <2>3. QED
    BY <2>1, <2>2
<1>5. \A u \in Tasks : u # t => CloseOK(u)'
  BY <1>a, <1>b, ClosersStand
<1>6. CloseOK(t)'
  BY <1>a DEF CloseOK, Closing, Steps, PlaceSteps
<1>7. QED
  BY <1>1, <1>2, <1>3, <1>4, <1>5, <1>6 DEF IInv

\* The gateway's settlement preserves the invariant: the place that armed the transaction is over.
LEMMA GatewaySettleStep ==
  ASSUME IInv, NEW i \in Ids, GatewaySettle(i)
  PROVE  IInv'
<1>1. TypeOK'
  BY DEF IInv, TypeOK, GatewaySettle, GatewayRow
<1>2. LockDiscipline' /\ OwnIds' /\ OneWinner'
  BY DEF IInv, LockDiscipline, OwnIds, OneWinner, Placing, GatewaySettle
<1>3. \A c \in Carts : CartOK(c)'
  BY DEF IInv, CartOK, GatewaySettle
<1>4. \A j \in Ids : OrderOK(j)' /\ SessionOK(j)'
  BY DEF IInv, TypeOK, OrderOK, SessionOK, GatewaySettle, GatewayRow
<1>5. \A u \in Tasks : PlaceOK(u)'
  BY DEF IInv, TypeOK, PlaceOK, Placing, HoldsCart, PlaceProgress, Armed, GatewaySettle,
     GatewayRow
<1>6. \A u \in Tasks : CloseOK(u)'
  BY DEF IInv, TypeOK, CloseOK, Closing, GatewaySettle, GatewayRow
<1>7. QED
  BY <1>1, <1>2, <1>3, <1>4, <1>5, <1>6 DEF IInv

\* The cancel mirror's call to selling preserves the invariant.
LEMMA CancelOrderStep ==
  ASSUME IInv, NEW t \in Tasks, CancelOrder(t)
  PROVE  IInv'
<1> DEFINE i == task[t].id
           new == [order[i] EXCEPT !.status = "cancelled"]
<1>0. /\ task[t].at = "cancel_order" /\ i \in Ids /\ session[i].state # "none"
      /\ i \in voiding
  BY DEF IInv, CancelOrder, CloseOK, Closing, Steps, PlaceSteps
<1>a. /\ task'[t].at = "cancel_session" /\ task'[t].id = i
      /\ \A u \in Tasks : u # t => task'[u] = task[u]
      /\ UNCHANGED <<cart, lock, gateway, session, acked, voiding, faults>>
  BY DEF IInv, TypeOK, CancelOrder, Goto, TaskState
<1>u. UNCHANGED <<cart, lock, gateway, session, acked, voiding, faults>>
  BY <1>a
<1>b. /\ new \in OrderRow /\ new.status = "cancelled" /\ new.total = order[i].total
      /\ new.party = order[i].party /\ new.carrier = order[i].carrier
  <2>1. order[i] \in OrderRow
    BY <1>0 DEF IInv, TypeOK
  <2>2. QED
    BY <2>1 DEF OrderRow
<1>c. order' = [order EXCEPT ![i] = new] /\ order \in [Ids -> OrderRow]
  BY DEF IInv, TypeOK, CancelOrder
<1>. HIDE DEF new
<1>d. order'[i] = new /\ \A j \in Ids : j # i => order'[j] = order[j]
  BY <1>0, <1>c
<1>1. TypeOK'
  <2>1. TypeOK
    BY DEF IInv
  <2>2. order' \in [Ids -> OrderRow]
    BY <1>0, <1>b, <1>c
  <2>3. task' \in [Tasks -> TaskState]
    BY <2>1, GotoType DEF CancelOrder, Steps
  <2>4. QED
    BY <2>1, <2>2, <2>3 DEF TypeOK, CancelOrder
<1>2. LockDiscipline' /\ OwnIds' /\ \A u \in Tasks : PlaceOK(u)'
  BY <1>0, <1>a, <1>d, PlacesStand DEF Placing, PlaceSteps
<1>3. OneWinner' /\ \A c \in Carts : CartOK(c)'
  BY <1>a DEF IInv, OneWinner, CartOK
<1>. HIDE DEF i
<1>4. ASSUME NEW j \in Ids PROVE OrderOK(j)' /\ SessionOK(j)'
  <2>0. OrderOK(j) /\ SessionOK(j)
    BY DEF IInv
  <2>1. CASE j = i
    <3>1. OrderOK(j)'
      BY <1>0, <1>u, <1>b, <1>d, <2>0, <2>1 DEF OrderOK
    <3>2. SessionOK(j)'
      BY <1>0, <1>u, <1>b, <1>d, <2>0, <2>1 DEF SessionOK
    <3>3. QED
      BY <3>1, <3>2
  <2>2. CASE j # i
    BY <1>a, <1>d, <2>0, <2>2, RowsStand
  <2>3. QED
    BY <2>1, <2>2
<1>5. \A u \in Tasks : u # t => CloseOK(u)'
  BY <1>a, <1>b, <1>d, ClosersStand
<1>6. CloseOK(t)'
  BY <1>0, <1>a, <1>b, <1>d DEF CloseOK
<1>7. QED
  BY <1>1, <1>2, <1>3, <1>4, <1>5, <1>6 DEF IInv

\* The session stamp of a cancel, unconditional as it is, follows its order.
LEMMA CancelSessionStep ==
  ASSUME IInv, NEW t \in Tasks, CancelSession(t)
  PROVE  IInv'
<1> DEFINE i == task[t].id
           new == [session[i] EXCEPT !.state = "cancelled"]
<1>0. /\ task[t].at = "cancel_session" /\ i \in Ids /\ session[i].state # "none"
      /\ i \in voiding /\ order[i].status = "cancelled"
  BY DEF IInv, CancelSession, CloseOK, Closing, Steps, PlaceSteps
<1>a. /\ task'[t].at = "cancel_cart" /\ task'[t].id = i
      /\ \A u \in Tasks : u # t => task'[u] = task[u]
      /\ UNCHANGED <<cart, lock, order, gateway, acked, voiding, faults>>
  BY DEF IInv, TypeOK, CancelSession, Goto, TaskState
<1>u. UNCHANGED <<cart, lock, order, gateway, acked, voiding, faults>>
  BY <1>a
<1>b. /\ new \in SessionRow /\ new.state = "cancelled" /\ new.cart = session[i].cart
      /\ new.amount = session[i].amount /\ new.pin = session[i].pin
      /\ new.bound = session[i].bound
  <2>1. session[i] \in SessionRow
    BY <1>0 DEF IInv, TypeOK
  <2>2. QED
    BY <2>1 DEF SessionRow, SessionStates
<1>c. session' = [session EXCEPT ![i] = new] /\ session \in [Ids -> SessionRow]
  BY DEF IInv, TypeOK, CancelSession
<1>. HIDE DEF new
<1>d. session'[i] = new /\ \A j \in Ids : j # i => session'[j] = session[j]
  BY <1>0, <1>c
<1>1. TypeOK'
  <2>1. TypeOK
    BY DEF IInv
  <2>2. session' \in [Ids -> SessionRow]
    BY <1>0, <1>b, <1>c
  <2>3. task' \in [Tasks -> TaskState]
    BY <2>1, GotoType DEF CancelSession, Steps
  <2>4. QED
    BY <2>1, <2>2, <2>3 DEF TypeOK, CancelSession
<1>2. LockDiscipline' /\ OwnIds' /\ \A u \in Tasks : PlaceOK(u)'
  BY <1>0, <1>a, <1>d, PlacesStand DEF Placing, PlaceSteps
<1>3. OneWinner' /\ \A c \in Carts : CartOK(c)'
  <2>1. \A j \in Ids : session'[j].cart = session[j].cart
    BY <1>b, <1>d
  <2>2. QED
    BY <1>a, <2>1 DEF IInv, OneWinner, CartOK
<1>. HIDE DEF i
<1>4. ASSUME NEW j \in Ids PROVE OrderOK(j)' /\ SessionOK(j)'
  <2>0. OrderOK(j) /\ SessionOK(j)
    BY DEF IInv
  <2>1. CASE j = i
    <3>1. OrderOK(j)'
      BY <1>0, <1>u, <1>b, <1>d, <2>0, <2>1 DEF OrderOK
    <3>2. SessionOK(j)'
      BY <1>0, <1>u, <1>b, <1>d, <2>0, <2>1 DEF SessionOK
    <3>3. QED
      BY <3>1, <3>2
  <2>2. CASE j # i
    BY <1>a, <1>d, <2>0, <2>2, RowsStand
  <2>3. QED
    BY <2>1, <2>2
<1>5. \A u \in Tasks : u # t => CloseOK(u)'
  BY <1>a, <1>b, <1>d, ClosersStand
<1>6. CloseOK(t)'
  BY <1>0, <1>a, <1>b, <1>d DEF CloseOK
<1>7. QED
  BY <1>1, <1>2, <1>3, <1>4, <1>5, <1>6 DEF IInv

\* What the cart stamp of a cancel finds and does: the session is cancelled by now, and no
\* place holds the cart.
LEMMA CancelCartEffect ==
  ASSUME IInv, NEW t \in Tasks, CancelCart(t)
  PROVE  \E i \in Ids, c \in Carts :
           /\ task[t].at = "cancel_cart" /\ task[t].id = i /\ session[i].state = "cancelled"
           /\ session[i].cart = c /\ lock[c] = None /\ cart[c].state \in {"placed", "cancelled"}
           /\ cart' = [cart EXCEPT ![c].state = "cancelled"]
           /\ UNCHANGED <<lock, order, gateway, session, acked, voiding, faults>>
<1> DEFINE i == task[t].id
           c == session[i].cart
<1>1. /\ task[t].at = "cancel_cart" /\ lock[c] = None
      /\ cart' = [cart EXCEPT ![c].state = "cancelled"]
      /\ UNCHANGED <<lock, order, gateway, session, acked, voiding, faults>>
  BY DEF CancelCart, LockFree
<1>2. i \in Ids /\ session[i].state = "cancelled" /\ SessionOK(i)
  BY <1>1 DEF IInv, CloseOK, Closing, Steps, PlaceSteps
<1>3. task[t].id = i
  OBVIOUS
<1>. HIDE DEF i
<1>4. c \in Carts /\ cart[c].state \in {"placed", "cancelled"}
  BY <1>2 DEF SessionOK
<1>5. session[i].cart = c
  OBVIOUS
<1>. HIDE DEF c
<1>6. QED
  BY <1>1, <1>2, <1>3, <1>4, <1>5

\* The cart stamp of a cancel follows its session, and no place holds that cart.
LEMMA CancelCartStep ==
  ASSUME IInv, NEW t \in Tasks, CancelCart(t)
  PROVE  IInv'
<1>0. PICK i \in Ids, c \in Carts :
        /\ task[t].at = "cancel_cart" /\ task[t].id = i /\ session[i].state = "cancelled"
        /\ session[i].cart = c /\ lock[c] = None /\ cart[c].state \in {"placed", "cancelled"}
        /\ cart' = [cart EXCEPT ![c].state = "cancelled"]
        /\ UNCHANGED <<lock, order, gateway, session, acked, voiding, faults>>
  BY CancelCartEffect
<1>. DEFINE new == [cart[c] EXCEPT !.state = "cancelled"]
<1>a. /\ task'[t].at = "idle" /\ \A u \in Tasks : u # t => task'[u] = task[u]
      /\ UNCHANGED <<lock, order, gateway, session, acked, voiding, faults>>
  BY DEF IInv, TypeOK, CancelCart, Finish, Idle
<1>u. UNCHANGED <<lock, order, gateway, session, acked, voiding, faults>>
  BY <1>a
<1>b. /\ new \in CartRow /\ new.state = "cancelled" /\ new.mode = cart[c].mode
      /\ new.pin = cart[c].pin /\ new.carrier = cart[c].carrier /\ new.party = cart[c].party
  <2>1. cart[c] \in CartRow
    BY <1>0 DEF IInv, TypeOK
  <2>2. QED
    BY <2>1 DEF CartRow, CartStates
<1>c. cart' = [cart EXCEPT ![c] = new] /\ cart \in [Carts -> CartRow]
  BY <1>0 DEF IInv, TypeOK
<1>. HIDE DEF new
<1>d. cart'[c] = new /\ \A d \in Carts : d # c => cart'[d] = cart[d]
  BY <1>0, <1>c
<1>e. ASSUME NEW u \in Tasks, Placing(u)'
      PROVE  /\ u # t /\ task'[u] = task[u] /\ Placing(u) /\ task[u].cart # c
             /\ HoldsCart(u) /\ PlaceProgress(u)
  <2>1. u # t
    BY <1>a, <1>e DEF Placing, PlaceSteps
  <2>2. task'[u] = task[u] /\ Placing(u)
    BY <1>a, <1>e, <2>1 DEF Placing
  <2>3. HoldsCart(u) /\ PlaceProgress(u)
    BY <2>2 DEF IInv, PlaceOK
  <2>4. QED
    BY <1>0, <2>1, <2>2, <2>3, ConstantsAssumption DEF HoldsCart
<1>1. TypeOK'
  <2>1. TypeOK
    BY DEF IInv
  <2>2. cart' \in [Carts -> CartRow]
    BY <1>0, <1>b, <1>c
  <2>3. task' \in [Tasks -> TaskState]
    BY <2>1, ConstantsAssumption, FinishType DEF CancelCart
  <2>4. QED
    BY <2>1, <2>2, <2>3 DEF TypeOK, CancelCart
<1>2. LockDiscipline'
  <2>1. ASSUME NEW d \in Carts, NEW u \in Tasks, lock[d] = u
        PROVE  cart'[d] = cart[d] /\ task'[u] = task[u]
    <3>1. d # c
      BY <1>0, <2>1, ConstantsAssumption
    <3>2. u # t
      BY <1>0, <2>1 DEF IInv, LockDiscipline, PlaceSteps
    <3>3. QED
      BY <1>a, <1>d, <3>1, <3>2
  <2>2. ASSUME NEW u \in Tasks, task'[u].at \in PlaceSteps
        PROVE  task'[u] = task[u]
    BY <1>a, <2>2 DEF PlaceSteps
  <2>3. QED
    BY <1>a, <2>1, <2>2 DEF IInv, LockDiscipline, SameTerms
<1>3. OwnIds' /\ OneWinner'
  <2>1. OwnIds'
    BY <1>a DEF IInv, OwnIds, Placing, PlaceSteps
  <2>2. \A d \in Carts : cart'[d].state # "open" <=> cart[d].state # "open"
    BY <1>0, <1>b, <1>d
  <2>3. OneWinner
    BY DEF IInv
  <2>4. QED
    BY <1>a, <2>1, <2>2, <2>3 DEF OneWinner
<1>4. ASSUME NEW d \in Carts PROVE CartOK(d)'
  <2>1. CartOK(d)
    BY DEF IInv
  <2>2. cart'[d].mode = cart[d].mode /\ cart'[d].pin = cart[d].pin
    BY <1>b, <1>d
  <2>3. QED
    BY <2>1, <2>2 DEF CartOK
<1>5. ASSUME NEW j \in Ids PROVE OrderOK(j)' /\ SessionOK(j)'
  <2>0. OrderOK(j) /\ SessionOK(j)
    BY DEF IInv
  <2>1. OrderOK(j)'
    BY <1>u, <2>0, OrderStands
  <2>2. CASE session[j].cart = c
    <3>1. j = i
      BY <1>0, <2>2, ConstantsAssumption DEF IInv, OneWinner
    <3>2. QED
      BY <1>0, <1>u, <1>b, <1>d, <2>0, <2>1, <3>1 DEF SessionOK
  <2>3. CASE session[j].cart # c
    BY <1>u, <1>d, <2>0, <2>1, <2>3 DEF SessionOK
  <2>4. QED
    BY <2>2, <2>3
<1>6. ASSUME NEW u \in Tasks PROVE PlaceOK(u)' /\ CloseOK(u)'
  <2>1. PlaceOK(u)'
    <3>1. SUFFICES ASSUME Placing(u)' PROVE HoldsCart(u)' /\ PlaceProgress(u)'
      BY DEF PlaceOK
    <3>2. task[u].cart \in Carts /\ cart'[task[u].cart] = cart[task[u].cart]
      BY <1>d, <1>e, <3>1 DEF HoldsCart
    <3>3. QED
      BY <1>a, <1>e, <3>1, <3>2 DEF HoldsCart, PlaceProgress, Armed
  <2>2. CASE u = t
    BY <1>a, <2>1, <2>2 DEF CloseOK, Closing, Steps, PlaceSteps
  <2>3. CASE u # t
    BY <1>a, <2>1, <2>3, ClosersStand
  <2>4. QED
    BY <2>2, <2>3
<1>7. QED
  BY <1>1, <1>2, <1>3, <1>4, <1>5, <1>6 DEF IInv

\* A cancel that selling refuses leaves no trace.
LEMMA CancelRefusedStep ==
  ASSUME IInv, NEW t \in Tasks, CancelRefused(t)
  PROVE  IInv'
<1>0. task[t].at = "cancel_order"
  BY DEF CancelRefused
<1>1. TypeOK'
  <2>1. TypeOK
    BY DEF IInv
  <2>2. task' \in [Tasks -> TaskState]
    BY <2>1, ConstantsAssumption, FinishType DEF CancelRefused
  <2>3. QED
    BY <2>1, <2>2 DEF TypeOK, CancelRefused
<1>2. LockDiscipline' /\ OwnIds' /\ OneWinner'
  BY <1>0 DEF IInv, TypeOK, LockDiscipline, OwnIds, OneWinner, Placing, CancelRefused,
     Finish, Idle, PlaceSteps, TaskState
<1>3. \A c \in Carts : CartOK(c)'
  BY DEF IInv, CartOK, CancelRefused
<1>4. \A j \in Ids : OrderOK(j)' /\ SessionOK(j)'
  BY DEF IInv, OrderOK, SessionOK, CancelRefused
<1>5. \A u \in Tasks : PlaceOK(u)'
  BY <1>0 DEF IInv, TypeOK, PlaceOK, Placing, HoldsCart, PlaceProgress, Armed,
     CancelRefused, Finish, Idle, TaskState, PlaceSteps
<1>6. \A u \in Tasks : CloseOK(u)'
  BY <1>0 DEF IInv, TypeOK, CloseOK, Closing, CancelRefused, Finish, Idle, TaskState,
     Steps, PlaceSteps
<1>7. QED
  BY <1>1, <1>2, <1>3, <1>4, <1>5, <1>6 DEF IInv

\* A lost task, at whatever step, gives up its row lock and nothing else: what it
\* committed before satisfies the invariant without it.
LEMMA FailStep ==
  ASSUME IInv, NEW t \in Tasks, Fail(t)
  PROVE  IInv'
<1>1. TypeOK'
  <2>1. TypeOK
    BY DEF IInv
  <2>2. task' \in [Tasks -> TaskState]
    BY <2>1, ConstantsAssumption, FinishType DEF Fail
  <2>3. lock' \in [Carts -> Tasks \cup {None}]
    BY <2>1 DEF TypeOK, Fail, Unlock
  <2>4. faults' \in 0..MaxFaults
    BY <2>1, ConstantsAssumption DEF TypeOK, Fail
  <2>5. QED
    BY <2>1, <2>2, <2>3, <2>4 DEF TypeOK, Fail
<1>2. LockDiscipline' /\ OwnIds' /\ OneWinner'
  BY ConstantsAssumption DEF IInv, TypeOK, LockDiscipline, OwnIds, OneWinner, Placing,
     Fail, Unlock, Finish, Idle, PlaceSteps, TaskState
<1>3. \A c \in Carts : CartOK(c)'
  BY DEF IInv, CartOK, Fail
<1>4. \A j \in Ids : OrderOK(j)' /\ SessionOK(j)'
  BY DEF IInv, OrderOK, SessionOK, Fail
<1>5. \A u \in Tasks : PlaceOK(u)'
  BY DEF IInv, TypeOK, PlaceOK, Placing, HoldsCart, PlaceProgress, Armed, Fail, Unlock,
     Finish, Idle, TaskState, PlaceSteps
<1>6. \A u \in Tasks : CloseOK(u)'
  BY DEF IInv, TypeOK, CloseOK, Closing, Fail, Finish, Idle, TaskState, Steps, PlaceSteps
<1>7. QED
  BY <1>1, <1>2, <1>3, <1>4, <1>5, <1>6 DEF IInv

\* A place that takes the lock has the cart's terms, and a checkout id of its own.
LEMMA PlaceLockStep ==
  ASSUME IInv, NEW t \in Tasks, NEW c \in Carts, NEW i \in Ids, NEW lane \in Lanes,
         NEW billing \in Parties \cup {None}, PlaceLock(t, c, i, lane, billing)
  PROVE  IInv'
<1> DEFINE row == [cart[c] EXCEPT !.party = IF billing = None THEN @ ELSE billing]
           new == [at |-> "mint", cart |-> c, id |-> i, lane |-> lane, row |-> row]
<1>0. /\ task[t].at = "idle" /\ lock[c] = None /\ cart[c].state = "open"
      /\ order[i].status = "none" /\ session[i].state = "none"
      /\ \A u \in Tasks : task[u].id # i
      /\ row.party # None /\ LaneAllows(lane, row)
      /\ lock' = [lock EXCEPT ![c] = t] /\ task' = [task EXCEPT ![t] = new]
  BY DEF IInv, OrderOK, PlaceLock, OpenUnderLock, LockFree, Fresh
<1>a. row \in CartRow /\ SameTerms(row, cart[c])
  <2>1. cart[c] \in CartRow
    BY DEF IInv, TypeOK
  <2>2. QED
    BY <2>1 DEF CartRow, SameTerms
<1>1. TypeOK'
  <2>1. new \in TaskState
    BY <1>0, <1>a DEF TaskState, Steps, PlaceSteps
  <2>2. QED
    BY <1>0, <2>1 DEF IInv, TypeOK, PlaceLock
<1>. HIDE DEF row
<1>2. LockDiscipline' /\ OwnIds' /\ OneWinner'
  <2>1. \A u \in Tasks : u # t => task'[u] = task[u]
    BY <1>0 DEF IInv, TypeOK
  <2>2. task'[t] = new
    BY <1>0 DEF IInv, TypeOK
  <2>3. LockDiscipline'
    BY <1>0, <1>a, <2>1, <2>2, ConstantsAssumption DEF IInv, TypeOK, LockDiscipline,
       PlaceLock, PlaceSteps, SameTerms
  <2>4. OwnIds' /\ OneWinner'
    BY <1>0, <2>1, <2>2 DEF IInv, OwnIds, OneWinner, Placing, PlaceLock
  <2>5. QED
    BY <2>3, <2>4
<1>3. \A d \in Carts : CartOK(d)'
  BY DEF IInv, CartOK, PlaceLock
<1>4. \A j \in Ids : OrderOK(j)' /\ SessionOK(j)'
  BY DEF IInv, OrderOK, SessionOK, PlaceLock
<1>5. ASSUME NEW u \in Tasks PROVE PlaceOK(u)' /\ CloseOK(u)'
  <2>1. CASE u = t
    <3>1. task'[u] = new
      BY <1>0, <2>1 DEF IInv, TypeOK
    <3>2. lock'[c] = t
      BY <1>0 DEF IInv, TypeOK
    <3>3. QED
      BY <1>0, <1>a, <2>1, <3>1, <3>2 DEF PlaceOK, Placing, HoldsCart, PlaceProgress,
         CloseOK, Closing, PlaceSteps, PlaceLock, SameTerms, LaneAllows
  <2>2. CASE u # t
    <3>1. task'[u] = task[u]
      BY <1>0, <2>2 DEF IInv, TypeOK
    <3>2. PlaceOK(u)'
      BY <1>0, <3>1, ConstantsAssumption DEF IInv, TypeOK, PlaceOK, Placing, HoldsCart,
         PlaceProgress, Armed, PlaceLock
    <3>3. CloseOK(u)'
      BY <3>1 DEF IInv, CloseOK, Closing, PlaceLock
    <3>4. QED
      BY <3>2, <3>3
  <2>3. QED
    BY <2>1, <2>2
<1>6. QED
  BY <1>1, <1>2, <1>3, <1>4, <1>5 DEF IInv

\* The mint, committed on its own, preserves the invariant.
LEMMA PlaceMintStep ==
  ASSUME IInv, NEW t \in Tasks, NEW total \in Amounts, PlaceMint(t, total)
  PROVE  IInv'
<1> DEFINE i == task[t].id
           draft == [status |-> "draft", total |-> total, party |-> task[t].row.party,
                     carrier |-> task[t].row.carrier,
                     pricedFor |-> cart[task[t].cart].party, by |-> "nobody"]
<1>0. /\ task[t].at = "mint" /\ i \in Ids /\ Placing(t) /\ HoldsCart(t)
      /\ order[i].status = "none" /\ session[i].state = "none" /\ gateway[i].status = "none"
      /\ order' = [order EXCEPT ![i] = draft]
  BY DEF IInv, PlaceMint, PlaceOK, Placing, HoldsCart, PlaceProgress, OrderOK, PlaceSteps
<1>1. TypeOK'
  <2>1. TypeOK
    BY DEF IInv
  <2>2. draft \in OrderRow
    BY <1>0, <2>1 DEF TypeOK, TaskState, CartRow, OrderRow, Confirmers, HoldsCart
  <2>3. task' \in [Tasks -> TaskState]
    BY <2>1, GotoType DEF PlaceMint, Steps, PlaceSteps
  <2>4. QED
    BY <1>0, <2>1, <2>2, <2>3 DEF TypeOK, PlaceMint
<1>2. LockDiscipline' /\ OwnIds' /\ OneWinner'
  BY <1>0 DEF IInv, TypeOK, LockDiscipline, OwnIds, OneWinner, Placing, PlaceMint, Goto,
     PlaceSteps, TaskState
<1>3. \A c \in Carts : CartOK(c)'
  BY DEF IInv, CartOK, PlaceMint
<1>4. \A j \in Ids : OrderOK(j)' /\ SessionOK(j)'
  BY <1>0 DEF IInv, TypeOK, OrderOK, SessionOK, PlaceMint
<1>5. ASSUME NEW u \in Tasks PROVE PlaceOK(u)'
  <2>1. CASE u = t
    BY <1>0, <2>1 DEF IInv, TypeOK, PlaceOK, Placing, HoldsCart, PlaceProgress,
       PlaceMint, Goto, TaskState
  <2>2. CASE u # t
    BY <1>0, <2>2 DEF IInv, TypeOK, OwnIds, PlaceOK, Placing, HoldsCart, PlaceProgress,
       Armed, PlaceMint, Goto, TaskState
  <2>3. QED
    BY <2>1, <2>2
<1>6. \A u \in Tasks : CloseOK(u)'
  BY <1>0 DEF IInv, TypeOK, CloseOK, Closing, PlaceMint, Goto, TaskState, Steps, PlaceSteps
<1>7. QED
  BY <1>1, <1>2, <1>3, <1>4, <1>5, <1>6 DEF IInv

\* Each of the three arms leaves exactly what Armed says of it.
LEMMA PlaceArmStep ==
  ASSUME IInv, NEW t \in Tasks, PlaceArm(t)
  PROVE  IInv'
<1> DEFINE i == task[t].id
           arm == Arm(task[t].lane, order[i].total)
<1>0. /\ task[t].at = "arm" /\ i \in Ids /\ Placing(t) /\ HoldsCart(t) /\ PlaceProgress(t)
      /\ order[i].status = "draft" /\ order[i].by = "nobody"
      /\ session[i].state = "none" /\ gateway[i].status = "none" /\ i \notin voiding
      /\ task[t].id = i
  BY DEF IInv, PlaceArm, PlaceOK, Placing, HoldsCart, PlaceProgress, OrderOK, SessionOK,
     PlaceSteps
<1>1. TypeOK'
  <2>1. TypeOK
    BY DEF IInv
  <2>2. order' \in [Ids -> OrderRow]
    BY <1>0, <2>1, ConfirmType DEF PlaceArm, Confirmers, TypeOK
  <2>3. gateway' \in [Ids -> GatewayRow]
    <3>1. order[i].total \in Amounts
      BY <1>0, <2>1 DEF TypeOK, OrderRow
    <3>2. QED
      BY <1>0, <2>1, <3>1 DEF PlaceArm, TypeOK, GatewayRow
  <2>4. task' \in [Tasks -> TaskState]
    BY <2>1, GotoType DEF PlaceArm, Steps, PlaceSteps
  <2>5. QED
    BY <2>1, <2>2, <2>3, <2>4 DEF TypeOK, PlaceArm
<1>2. LockDiscipline' /\ OwnIds' /\ OneWinner'
  BY <1>0 DEF IInv, TypeOK, LockDiscipline, OwnIds, OneWinner, Placing, PlaceArm, Goto,
     PlaceSteps, TaskState
<1>3. \A c \in Carts : CartOK(c)'
  BY DEF IInv, CartOK, PlaceArm
<1>a. /\ \A j \in Ids : j # i => order'[j] = order[j] /\ gateway'[j] = gateway[j]
      /\ order'[i].total = order[i].total /\ order'[i].party = order[i].party
      /\ order'[i].carrier = order[i].carrier
      /\ \/ arm = "pending_pickup" /\ order'[i] = order[i] /\ gateway'[i] = gateway[i]
         \/ /\ arm = "confirmed_free" /\ order'[i].status = "confirmed"
            /\ order'[i].by = "place" /\ gateway'[i] = gateway[i]
         \/ /\ arm = "pending_payment" /\ order'[i] = order[i]
            /\ gateway'[i].status = "pending" /\ gateway'[i].gross = order[i].total
  BY <1>0 DEF IInv, TypeOK, PlaceArm, Confirm, OrderRow
<1>b. arm = "confirmed_free" => order[i].total = 0
  BY DEF Arm
<1>4. ASSUME NEW j \in Ids PROVE OrderOK(j)' /\ SessionOK(j)'
  <2>. HIDE DEF i, arm
  <2>0. session' = session /\ cart' = cart /\ voiding' = voiding
    BY DEF PlaceArm
  <2>a. OrderOK(j) /\ SessionOK(j)
    BY DEF IInv
  <2>1. CASE j = i
    <3>1. OrderOK(j)'
      <4>1. CASE arm = "confirmed_free"
        BY <1>0, <1>a, <1>b, <2>0, <2>1, <4>1 DEF OrderOK
      <4>2. CASE arm # "confirmed_free"
        <5>1. order'[j] = order[j] /\ gateway'[j].status \in {"none", "pending"}
          BY <1>0, <1>a, <2>1, <4>2
        <5>2. QED
          BY <1>0, <2>0, <2>1, <5>1 DEF OrderOK
      <4>3. QED
        BY <4>1, <4>2
    <3>2. SessionOK(j)'
      BY <1>0, <2>0, <2>a, <2>1 DEF SessionOK
    <3>3. QED
      BY <3>1, <3>2
  <2>2. CASE j # i
    BY <1>a, <2>0, <2>a, <2>2, RowsStand
  <2>3. QED
    BY <2>1, <2>2
<1>5. ASSUME NEW u \in Tasks PROVE PlaceOK(u)'
  <2>0. session' = session /\ cart' = cart /\ lock' = lock
    BY DEF PlaceArm
  <2>1. CASE u = t
    <3>1. /\ task'[u].at = "commit" /\ task'[u].id = i /\ task'[u].lane = task[t].lane
          /\ task'[u].row = task[t].row /\ task'[u].cart = task[t].cart
      BY <1>0, <2>1 DEF IInv, TypeOK, PlaceArm, Goto, TaskState
    <3>2. HoldsCart(u)'
      BY <1>0, <2>0, <2>1, <3>1 DEF HoldsCart
    <3>3. Armed(i, arm)'
      BY <1>0, <1>a, <3>1, <2>1 DEF Armed, Arm
    <3>4. PlaceProgress(u)'
      BY <1>0, <1>a, <3>1, <3>3, <2>1 DEF PlaceProgress, Armed
    <3>5. QED
      BY <3>2, <3>4 DEF PlaceOK
  <2>2. CASE u # t
    <3>. HIDE DEF i, arm
    <3>1. task'[u] = task[u]
      BY <2>2 DEF IInv, TypeOK, PlaceArm, Goto
    <3>2. Placing(u) => task[u].id \in Ids /\ task[u].id # i
      BY <1>0, <2>2 DEF IInv, OwnIds, PlaceOK, HoldsCart
    <3>3. PlaceOK(u)
      BY DEF IInv
    <3>4. QED
      BY <1>a, <2>0, <3>1, <3>2, <3>3 DEF PlaceOK, Placing, HoldsCart, PlaceProgress, Armed
  <2>3. QED
    BY <2>1, <2>2
<1>6. ASSUME NEW u \in Tasks PROVE CloseOK(u)'
  <2>0. session' = session /\ voiding' = voiding
    BY DEF PlaceArm
  <2>1. CASE u = t
    BY <1>0, <2>1 DEF IInv, TypeOK, PlaceArm, Goto, TaskState, CloseOK, Closing, PlaceSteps
  <2>2. CASE u # t
    <3>. HIDE DEF i, arm
    <3>1. task'[u] = task[u]
      BY <2>2 DEF IInv, TypeOK, PlaceArm, Goto
    <3>2. Closing(u) => task[u].id \in Ids /\ task[u].id # i
      BY <1>0 DEF IInv, CloseOK
    <3>3. QED
      BY <1>a, <2>0, <3>1, <3>2 DEF IInv, CloseOK, Closing
  <2>3. QED
    BY <2>1, <2>2
<1>7. QED
  BY <1>1, <1>2, <1>3, <1>4, <1>5, <1>6 DEF IInv

\* The outer commit makes the session, the placed cart and the order agree.
LEMMA PlaceCommitStep ==
  ASSUME IInv, NEW t \in Tasks, PlaceCommit(t)
  PROVE  IInv'
<1> DEFINE i == task[t].id
           c == task[t].cart
           row == task[t].row
           arm == Arm(task[t].lane, order[i].total)
           pin == IF row.mode = "pickup" THEN row.pin ELSE None
           new == [state |-> arm, cart |-> c, amount |-> order[i].total,
                   pin |-> pin, bound |-> arm = "pending_payment"]
<1>0. /\ task[t].at = "commit" /\ i \in Ids /\ c \in Carts /\ Placing(t)
      /\ HoldsCart(t) /\ PlaceProgress(t) /\ Armed(i, arm)
      /\ lock[c] = t /\ cart[c].state = "open"
      /\ session[i] = NoSession /\ i \notin voiding
      /\ order[i] \in OrderRow /\ gateway[i] \in GatewayRow /\ row \in CartRow
      /\ task[t].id = i /\ task[t].cart = c /\ task[t].row = row
  BY DEF IInv, TypeOK, PlaceCommit, PlaceOK, Placing, HoldsCart, PlaceProgress,
     SessionOK, PlaceSteps, TaskState
<1>a. /\ UNCHANGED <<order, gateway, acked, voiding, faults>>
      /\ session'[i] = new /\ \A j \in Ids : j # i => session'[j] = session[j]
      /\ cart'[c] = [cart[c] EXCEPT !.state = "placed", !.party = row.party]
      /\ \A d \in Carts : d # c => cart'[d] = cart[d]
      /\ lock' = [d \in Carts |-> IF lock[d] = t THEN None ELSE lock[d]]
      /\ task'[t] = Idle /\ \A u \in Tasks : u # t => task'[u] = task[u]
  BY <1>0 DEF IInv, TypeOK, PlaceCommit, Unlock, Finish
<1>b. /\ cart'[c].state = "placed" /\ cart'[c].party = row.party
      /\ cart'[c].mode = cart[c].mode /\ cart'[c].pin = cart[c].pin
      /\ cart'[c].carrier = cart[c].carrier
  BY <1>0, <1>a DEF IInv, TypeOK, CartRow
<1>c. /\ arm \in Pending
      /\ arm = "pending_payment" <=> gateway[i].status # "none"
      /\ arm = "pending_payment" => order[i].total # 0 /\ gateway[i].gross = order[i].total
      /\ arm = "pending_pickup" => pin # None
      /\ pin = cart[c].pin /\ row.carrier = cart[c].carrier
      /\ order[i].status \in {"draft", "confirmed"}
  BY <1>0 DEF IInv, Armed, Arm, Pending, HoldsCart, LaneAllows, SameTerms, CartOK
<1>d. \A j \in Ids : session[j].cart # c
  BY <1>0 DEF IInv, OneWinner
<1>1. TypeOK'
  <2>1. TypeOK
    BY DEF IInv
  <2>2. new \in SessionRow
    BY <1>0, <1>c DEF SessionRow, SessionStates, OrderRow, CartRow
  <2>3. session' \in [Ids -> SessionRow]
    BY <1>0, <2>1, <2>2 DEF TypeOK, PlaceCommit
  <2>4. cart' \in [Carts -> CartRow]
    <3>1. [cart[c] EXCEPT !.state = "placed"] \in CartRow /\ row.party \in Parties \cup {None}
      BY <1>0, <2>1 DEF TypeOK, CartRow, CartStates
    <3>2. [[cart[c] EXCEPT !.state = "placed"] EXCEPT !.party = row.party] \in CartRow
      BY <3>1 DEF CartRow
    <3>3. cart'[c] \in CartRow
      BY <1>a, <3>2
    <3>4. cart' \in [Carts -> CartRow]
      BY <1>0, <1>a, <2>1, <3>3 DEF TypeOK, PlaceCommit
    <3>5. QED
      BY <3>4
  <2>5. task' \in [Tasks -> TaskState]
    BY <2>1, ConstantsAssumption, FinishType DEF PlaceCommit
  <2>6. QED
    BY <1>a, <2>1, <2>3, <2>4, <2>5 DEF TypeOK
<1>. HIDE DEF new, pin, arm, row, c, i
<1>2. LockDiscipline'
  <2>1. ASSUME NEW d \in Carts, NEW u \in Tasks, u = t
        PROVE  lock'[d] # u /\ task'[u].at \notin PlaceSteps
    BY <1>a, <2>1, ConstantsAssumption DEF Idle, PlaceSteps
  <2>2. ASSUME NEW d \in Carts, NEW u \in Tasks, u # t
        PROVE  /\ task'[u] = task[u]
               /\ lock'[d] = u <=> lock[d] = u
               /\ lock[d] = u => cart'[d] = cart[d]
    BY <1>0, <1>a, <2>2, ConstantsAssumption
  <2>3. QED
    BY <2>1, <2>2 DEF IInv, LockDiscipline, SameTerms
<1>3. OwnIds' /\ OneWinner'
  <2>1. OwnIds'
    BY <1>a DEF IInv, OwnIds, Placing, Idle, PlaceSteps
  <2>2. session'[i].cart = c
    BY <1>a DEF new
  <2>3. OneWinner'
    <3>1. ASSUME NEW d \in Carts
          PROVE  cart'[d].state # "open" <=> \E j \in Ids : session'[j].cart = d
      <4>1. CASE d = c
        BY <1>0, <1>b, <2>2, <4>1
      <4>2. CASE d # c
        <5>1. session[i].cart # d /\ session'[i].cart # d
          BY <1>0, <2>2, <4>2, ConstantsAssumption DEF NoSession
        <5>2. QED
          BY <1>a, <4>2, <5>1 DEF IInv, OneWinner
      <4>3. QED
        BY <4>1, <4>2
    <3>2. ASSUME NEW j \in Ids, NEW k \in Ids,
                 session'[j].cart # None, session'[j].cart = session'[k].cart
          PROVE  j = k
      BY <1>0, <1>a, <1>d, <2>2, <3>2 DEF IInv, OneWinner
    <3>3. QED
      BY <3>1, <3>2 DEF OneWinner
  <2>4. QED
    BY <2>1, <2>3
<1>4. ASSUME NEW d \in Carts PROVE CartOK(d)'
  <2>1. cart'[d].mode = cart[d].mode /\ cart'[d].pin = cart[d].pin
    BY <1>a, <1>b
  <2>2. QED
    BY <2>1 DEF IInv, CartOK
<1>5. ASSUME NEW j \in Ids PROVE OrderOK(j)' /\ SessionOK(j)'
  <2>1. CASE j = i
    <3>1. /\ session'[j].state = arm /\ session'[j].cart = c /\ session'[j].pin = pin
          /\ session'[j].amount = order[i].total
          /\ session'[j].bound = (arm = "pending_payment")
      BY <1>a, <2>1 DEF new
    <3>2. OrderOK(j)'
      <4>1. OrderOK(i)
        BY <1>0 DEF IInv
      <4>2. QED
        BY <1>0, <1>a, <1>c, <2>1, <3>1, <4>1 DEF OrderOK, NoSession, Pending
    <3>3. SessionOK(j)'
      <4>1. order[i].carrier = cart[c].carrier /\ order[i].party = row.party
        BY <1>0, <1>c DEF PlaceProgress
      <4>2. order'[j] = order[i] /\ gateway'[j] = gateway[i] /\ voiding' = voiding
        BY <1>a, <2>1
      <4>3. QED
        <5>1. /\ session'[j].cart \in Carts /\ cart'[session'[j].cart].state = "placed"
              /\ session'[j].pin = cart'[session'[j].cart].pin
              /\ order'[j].carrier = cart'[session'[j].cart].carrier
              /\ order'[j].party = cart'[session'[j].cart].party
          BY <1>0, <1>b, <1>c, <3>1, <4>1, <4>2
        <5>2. /\ order'[j].status # "none" /\ session'[j].amount = order'[j].total
              /\ session'[j].bound <=> gateway'[j].status # "none"
              /\ session'[j].bound => gateway'[j].gross = order'[j].total /\ order'[j].total # 0
          BY <1>c, <3>1, <4>2
        <5>3. /\ session'[j].state \in Pending
              /\ session'[j].state = "pending_payment" => session'[j].bound
              /\ session'[j].state = "pending_pickup" => ~session'[j].bound /\ session'[j].pin # None
          BY <1>c, <3>1
        <5>4. QED
          BY <5>1, <5>2, <5>3 DEF SessionOK, Pending
    <3>4. QED
      BY <3>2, <3>3
  <2>2. CASE j # i
    <3>0. OrderOK(j) /\ SessionOK(j)
      BY DEF IInv
    <3>1. OrderOK(j)'
      BY <1>a, <2>2, <3>0, OrderStands
    <3>2. SessionOK(j)'
      BY <1>a, <1>d, <2>2, <3>0 DEF SessionOK
    <3>3. QED
      BY <3>1, <3>2
  <2>3. QED
    BY <2>1, <2>2
<1>6. ASSUME NEW u \in Tasks PROVE PlaceOK(u)' /\ CloseOK(u)'
  <2>1. CASE u = t
    BY <1>a, <2>1 DEF PlaceOK, Placing, CloseOK, Closing, Idle, Steps, PlaceSteps
  <2>2. CASE u # t
    <3>1. task'[u] = task[u]
      BY <1>a, <2>2
    <3>2. Placing(u) => /\ task[u].id # i /\ task[u].cart # c
                        /\ lock'[task[u].cart] = lock[task[u].cart]
      BY <1>0, <1>a, <2>2 DEF IInv, OwnIds, PlaceOK, HoldsCart
    <3>3. PlaceOK(u)'
      <4>1. PlaceOK(u)
        BY DEF IInv
      <4>2. QED
        BY <1>a, <3>1, <3>2, <4>1 DEF PlaceOK, Placing, HoldsCart, PlaceProgress, Armed
    <3>4. Closing(u) => task[u].id # i
      BY <1>0 DEF IInv, CloseOK, NoSession
    <3>5. CloseOK(u)'
      BY <1>a, <3>1, <3>4 DEF IInv, CloseOK, Closing
    <3>6. QED
      BY <3>3, <3>5
  <2>3. QED
    BY <2>1, <2>2
<1>7. QED
  BY <1>1, <1>2, <1>3, <1>4, <1>5, <1>6 DEF IInv

\* A closing verb that starts has established what its first step relies on.
LEMMA BeginStep ==
  ASSUME IInv, NEW t \in Tasks, NEW i \in Ids,
         NEW step \in {"settle_confirm", "pickup_confirm", "cancel_order"},
         Begin(t, i, step), session[i].state # "none",
         step = "settle_confirm" => session[i].bound /\ gateway[i].status = "settled",
         step = "pickup_confirm" => ~session[i].bound /\ session[i].pin # None,
         UNCHANGED <<cart, lock, order, gateway, session, acked, faults>>,
         voiding' = IF step = "cancel_order" THEN voiding \cup {i} ELSE voiding
  PROVE  IInv'
<1>0. /\ task[t].at = "idle" /\ task'[t].at = step /\ task'[t].id = i
      /\ \A u \in Tasks : u # t => task'[u] = task[u]
      /\ voiding \subseteq voiding' /\ voiding' \subseteq Ids
      /\ \A j \in Ids : j \in voiding' => j \in voiding \/ j = i
  BY DEF IInv, TypeOK, Begin, TaskState
<1>1. TypeOK'
  <2>1. task[t] \in TaskState /\ step \in Steps
    BY DEF IInv, TypeOK, Steps
  <2>2. [task[t] EXCEPT !.at = step, !.id = i] \in TaskState
    BY <2>1 DEF TaskState
  <2>3. task' \in [Tasks -> TaskState]
    BY <2>2 DEF IInv, TypeOK, Begin
  <2>4. QED
    BY <1>0, <2>3 DEF IInv, TypeOK
<1>2. LockDiscipline' /\ OwnIds' /\ OneWinner'
  BY <1>0 DEF IInv, LockDiscipline, OwnIds, OneWinner, Placing, PlaceSteps
<1>3. \A c \in Carts : CartOK(c)'
  BY DEF IInv, CartOK
<1>4. \A j \in Ids : OrderOK(j)' /\ SessionOK(j)'
  BY <1>0 DEF IInv, OrderOK, SessionOK
<1>5. \A u \in Tasks : PlaceOK(u)'
  BY <1>0 DEF IInv, PlaceOK, Placing, HoldsCart, PlaceProgress, Armed, PlaceSteps
<1>6. ASSUME NEW u \in Tasks PROVE CloseOK(u)'
  <2>1. CASE u = t
    BY <1>0, <2>1 DEF CloseOK
  <2>2. CASE u # t
    BY <1>0, <2>2 DEF IInv, CloseOK, Closing
  <2>3. QED
    BY <2>1, <2>2
<1>7. QED
  BY <1>1, <1>2, <1>3, <1>4, <1>5, <1>6 DEF IInv

\* Whatever request a handler is given, the invariant holds after its first step.
LEMMA RequestStep ==
  ASSUME IInv, NEW t \in Tasks, Request(t)
  PROVE  IInv'
<1>1. ASSUME NEW c \in Carts, NEW i \in Ids, NEW lane \in Lanes,
             NEW billing \in Parties \cup {None}, PlaceLock(t, c, i, lane, billing)
      PROVE  IInv'
  BY <1>1, PlaceLockStep
<1>2. ASSUME NEW i \in Ids, ConsumeRead(t, i) PROVE IInv'
  <2>1. CASE session[i].state = "pending_payment"
    <3>1. session[i].bound /\ gateway[i].status = "settled"
      BY <1>2, <2>1 DEF IInv, SessionOK, ConsumeRead
    <3>2. QED
      BY <1>2, <2>1, <3>1, BeginStep DEF ConsumeRead, ConsumeFirst
  <2>2. CASE session[i].state # "pending_payment"
    <3>1. /\ acked' = acked \cup {i}
          /\ UNCHANGED <<cart, lock, order, gateway, session, task, voiding, faults>>
      BY <1>2, <2>2 DEF ConsumeRead
    <3>2. TypeOK' /\ LockDiscipline' /\ OwnIds' /\ OneWinner' /\ \A c \in Carts : CartOK(c)'
      BY <3>1 DEF IInv, TypeOK, LockDiscipline, OwnIds, OneWinner, Placing, CartOK
    <3>3. \A j \in Ids : OrderOK(j)' /\ SessionOK(j)'
      BY <3>1 DEF IInv, OrderOK, SessionOK
    <3>4. \A u \in Tasks : PlaceOK(u)' /\ CloseOK(u)'
      BY <3>1 DEF IInv, PlaceOK, Placing, HoldsCart, PlaceProgress, Armed, CloseOK, Closing
    <3>5. QED
      BY <3>2, <3>3, <3>4 DEF IInv
  <2>3. QED
    BY <2>1, <2>2
<1>3. ASSUME NEW i \in Ids, PickupRead(t, i) PROVE IInv'
  <2>1. ~session[i].bound /\ session[i].pin # None
    BY <1>3 DEF IInv, SessionOK, PickupRead
  <2>2. QED
    BY <1>3, <2>1, BeginStep DEF PickupRead
<1>4. ASSUME NEW i \in Ids, CancelRead(t, i) PROVE IInv'
  BY <1>4, BeginStep DEF CancelRead, CancelFirst, Pending
<1>5. QED
  BY <1>1, <1>2, <1>3, <1>4 DEF Request

\* Whatever step a running handler takes, the invariant holds after it.
LEMMA WorkStep ==
  ASSUME IInv, NEW t \in Tasks, Work(t)
  PROVE  IInv'
<1>1. CASE (\E total \in Amounts : PlaceMint(t, total)) \/ PlaceArm(t) \/ PlaceCommit(t)
  BY <1>1, PlaceMintStep, PlaceArmStep, PlaceCommitStep
<1>2. CASE ConsumeConfirm(t) \/ ConsumeStamp(t) \/ PickupConfirm(t) \/ PickupStamp(t)
  BY <1>2, ConsumeConfirmStep, ConsumeStampStep, PickupConfirmStep, PickupStampStep
<1>3. CASE CancelOrder(t) \/ CancelRefused(t) \/ CancelSession(t) \/ CancelCart(t)
  BY <1>3, CancelOrderStep, CancelRefusedStep, CancelSessionStep, CancelCartStep
<1>4. QED
  BY <1>1, <1>2, <1>3 DEF Work

\* A step that changes nothing keeps the invariant.
LEMMA StutterStep == IInv /\ UNCHANGED vars => IInv'
BY DEF vars, IInv, TypeOK, LockDiscipline, OwnIds, OneWinner, Placing, CartOK, OrderOK,
  SessionOK, PlaceOK, HoldsCart, PlaceProgress, Armed, CloseOK, Closing

\* The invariant holds of the empty tables.
LEMMA InitInvariant == Init => IInv
<1> SUFFICES ASSUME Init PROVE IInv
  OBVIOUS
<1>1. TypeOK
  BY ConstantsAssumption DEF Init, TypeOK, CartRow, CartStates, OrderRow, Confirmers,
     GatewayRow,
    SessionRow, SessionStates, TaskState, Lanes, NoCart, NoOrder, NoGateway, NoSession, Idle
<1>2. \A c \in Carts : CartOK(c)
  BY DEF Init, CartOK, NoCart
<1>3. LockDiscipline /\ OwnIds /\ OneWinner
  BY ConstantsAssumption DEF Init, LockDiscipline, OwnIds, OneWinner, Placing,
     PlaceSteps, Idle, NoCart, NoSession
<1>4. \A i \in Ids : OrderOK(i) /\ SessionOK(i)
  BY DEF Init, OrderOK, SessionOK, NoOrder, NoGateway, NoSession
<1>5. \A t \in Tasks : PlaceOK(t) /\ CloseOK(t)
  BY DEF Init, PlaceOK, CloseOK, Placing, Closing, Steps, PlaceSteps, Idle
<1>6. QED
  BY <1>1, <1>2, <1>3, <1>4, <1>5 DEF IInv

\* The invariant is inductive.
LEMMA NextInvariant == IInv /\ [Next]_vars => IInv'
BY LockedVerbStep, GatewaySettleStep, RequestStep, WorkStep, FailStep, StutterStep DEF Next

\* In every behaviour of the checkout, for every number of carts, checkouts, handlers
\* and lost tasks, the inductive invariant holds.
THEOREM Invariance == Spec => []IInv
<1>1. Init => IInv
  BY InitInvariant
<1>2. IInv /\ [Next]_vars => IInv'
  BY NextInvariant
<1>3. QED
  BY <1>1, <1>2, PTL DEF Spec

\* Every variable always holds a row of its table.
THEOREM TypeCorrect == Spec => []TypeOK
<1>1. IInv => TypeOK
  BY DEF IInv
<1>2. QED
  BY <1>1, Invariance, PTL

\* The row lock of place_with_lane does its work: the cart under it is open and unchanged.
THEOREM LockSafety == Spec => []LockDiscipline
<1>1. IInv => LockDiscipline
  BY DEF IInv
<1>2. QED
  BY <1>1, Invariance, PTL

\* Concurrent places of a cart have one winner, however many there are.
THEOREM WinnerSafety == Spec => []OneWinner
<1>1. IInv => OneWinner
  BY DEF IInv
<1>2. QED
  BY <1>1, Invariance, PTL

\* Order, session and gateway transaction of a checkout always agree on the amount.
THEOREM WitnessSafety == Spec => []ThreeWitnesses
<1>1. IInv => ThreeWitnesses
  BY DEF IInv, SessionOK, ThreeWitnesses
<1>2. QED
  BY <1>1, Invariance, PTL

\* Order and session always carry the terms the placed cart shows.
THEOREM TermsSafety == Spec => []LockedTerms
<1>1. IInv => LockedTerms
  BY DEF IInv, SessionOK, LockedTerms
<1>2. QED
  BY <1>1, Invariance, PTL

\* No order is confirmed unpaid, and the on-site lane confirms none.
THEOREM PaymentSafety == Spec => []UnpaidNeverConfirms
<1>1. IInv => UnpaidNeverConfirms
  <2> SUFFICES ASSUME IInv PROVE UnpaidNeverConfirms
    OBVIOUS
  <2>1. ASSUME NEW i \in Ids, order[i].status = "confirmed"
        PROVE  \/ order[i].by = "place" /\ order[i].total = 0
               \/ order[i].by = "settlement" /\ gateway[i].status = "settled"
               \/ order[i].by = "officer" /\ gateway[i].status = "none" /\ session[i].pin # None
    BY <2>1 DEF IInv, OrderOK
  <2>2. ASSUME NEW t \in Tasks, task[t].at \in PlaceSteps, task[t].lane = "onsite"
        PROVE  order[task[t].id].by = "nobody"
    <3>1. HoldsCart(t) /\ PlaceProgress(t)
      BY <2>2 DEF IInv, PlaceOK, Placing
    <3>2. order[task[t].id].status \in {"none", "draft"}
      BY <2>2, <3>1 DEF PlaceProgress, Armed, Arm, PlaceSteps
    <3>3. QED
      BY <3>1, <3>2 DEF IInv, OrderOK, HoldsCart
  <2>3. QED
    BY <2>1, <2>2 DEF UnpaidNeverConfirms
<1>2. QED
  BY <1>1, Invariance, PTL

\* A settled checkout no cancel touched has a confirmed order.
THEOREM SettlementSafety == Spec => []SettledMeansSold
<1>1. IInv => SettledMeansSold
  BY DEF IInv, SessionOK, SettledMeansSold
<1>2. QED
  BY <1>1, Invariance, PTL

\* Cancels reach the order first, then the session, then the cart.
THEOREM CancelSafety == Spec => []CancelMirrors
<1>1. IInv => CancelMirrors
  BY DEF IInv, SessionOK, NoSession, CancelMirrors
<1>2. QED
  BY <1>1, Invariance, PTL

\* Writing an open row over an open cart is an edit of Placement.
LEMMA StampSimulated ==
  ASSUME NEW c \in Carts, NEW row \in CartRow, OpenUnderLock(c), StampCart(c, row),
         row.state = "open"
  PROVE  P!Edit(c)
<1>1. row = [state |-> "open", mode |-> row.mode, pin |-> row.pin,
             carrier |-> row.carrier, party |-> row.party]
  BY DEF CartRow
<1>2. /\ row.mode \in {"delivery", "pickup"} /\ row.pin \in Stores \cup {None}
      /\ row.carrier \in Carriers \cup {None} /\ row.party \in Parties \cup {None}
  BY DEF CartRow
<1>3. cart' = [cart EXCEPT ![c] = row] /\ session' = session /\ cart[c].state = "open"
  BY DEF StampCart, OpenUnderLock
<1>4. QED
  BY <1>1, <1>2, <1>3 DEF P!Edit

\* Every single-transaction verb is an edit of Placement.
LEMMA EditSimulated ==
  ASSUME IInv, NEW c \in Carts, LockedVerb(c)
  PROVE  P!Edit(c)
<1>0. cart[c] \in CartRow /\ (OpenUnderLock(c) => cart[c].state = "open")
  BY DEF IInv, TypeOK, OpenUnderLock
<1>1. ASSUME NEW k \in Carriers, SetDelivery(c, k) PROVE P!Edit(c)
  <2>1. [cart[c] EXCEPT !.carrier = k] \in CartRow
    BY <1>0 DEF CartRow
  <2>2. QED
    BY <1>0, <1>1, <2>1, StampSimulated DEF SetDelivery, CartRow
<1>2. ASSUME NEW s \in Stores, SetPickup(c, s) PROVE P!Edit(c)
  <2>1. [cart[c] EXCEPT !.mode = "pickup", !.pin = s] \in CartRow
    BY <1>0 DEF CartRow
  <2>2. QED
    BY <1>0, <1>2, <2>1, StampSimulated DEF SetPickup, CartRow
<1>3. ASSUME ResetFulfillment(c) PROVE P!Edit(c)
  <2>1. [cart[c] EXCEPT !.mode = "delivery", !.pin = None] \in CartRow
    BY <1>0 DEF CartRow
  <2>2. QED
    BY <1>0, <1>3, <2>1, StampSimulated DEF ResetFulfillment, CartRow
<1>4. ASSUME NEW p \in Parties, CaptureBilling(c, p) PROVE P!Edit(c)
  <2>1. [cart[c] EXCEPT !.party = p] \in CartRow
    BY <1>0 DEF CartRow
  <2>2. QED
    BY <1>0, <1>4, <2>1, StampSimulated DEF CaptureBilling, CartRow
<1>5. QED
  BY <1>1, <1>2, <1>3, <1>4 DEF LockedVerb

\* The outer commit of place is Placement's whole Place.
LEMMA PlaceSimulated ==
  ASSUME IInv, NEW t \in Tasks, PlaceCommit(t)
  PROVE  P!Place(task[t].cart, task[t].id)
<1> DEFINE i == task[t].id
           c == task[t].cart
           row == task[t].row
           arm == Arm(task[t].lane, order[i].total)
<1>0. /\ i \in Ids /\ c \in Carts /\ HoldsCart(t) /\ row \in CartRow /\ CartOK(c)
      /\ order[i].total \in Amounts
  BY DEF IInv, TypeOK, PlaceCommit, PlaceOK, Placing, HoldsCart, PlaceSteps, TaskState,
     OrderRow
<1>1. cart[c].state = "open" /\ session[i].state = "none"
  BY <1>0 DEF HoldsCart
<1>2. \E p \in Parties : cart' = [cart EXCEPT ![c].state = "placed", ![c].party = p]
  BY <1>0 DEF PlaceCommit, HoldsCart, CartRow
<1>a. task[t].id = i /\ task[t].cart = c /\ task[t].row = row /\ arm = Arm(task[t].lane, order[i].total)
  OBVIOUS
<1>. HIDE DEF arm, row, c, i
<1>3. (IF row.mode = "pickup" THEN row.pin ELSE None) = cart[c].pin
  BY <1>0, <1>a DEF HoldsCart, SameTerms, CartOK
<1>4. /\ arm \in Pending
      /\ arm = "pending_payment" => order[i].total # 0
      /\ arm = "confirmed_free" => order[i].total = 0
      /\ arm = "pending_pickup" => cart[c].pin # None
  BY <1>0, <1>a DEF Arm, Pending, HoldsCart, LaneAllows, SameTerms
<1>5. session' = [session EXCEPT ![i] = P!SessionFor(c, order[i].total, arm)]
  BY <1>a, <1>3 DEF PlaceCommit, P!SessionFor
<1>6. P!Place(c, i)
  BY <1>0, <1>1, <1>2, <1>4, <1>5 DEF P!Place, Pending
<1>7. QED
  BY <1>a, <1>6

\* The other steps of a handler settle, cancel or close as Placement allows, or are
\* invisible to it.
LEMMA ClosingSimulated ==
  ASSUME IInv, NEW t \in Tasks, Work(t), ~PlaceCommit(t)
  PROVE  \/ UNCHANGED <<cart, session>>
         \/ \E i \in Ids : P!Settle(i) \/ P!Cancel(i) \/ P!Close(i)
<1> DEFINE i == task[t].id
<1>1. CASE ConsumeStamp(t) \/ PickupStamp(t)
  <2>1. i \in Ids /\ cart' = cart
    BY <1>1 DEF IInv, CloseOK, Closing, Steps, PlaceSteps, ConsumeStamp, PickupStamp
  <2>2. P!Settle(i) \/ session' = session
    BY <1>1, <2>1 DEF ConsumeStamp, PickupStamp, StampSettled, P!Settle
  <2>3. QED
    BY <2>1, <2>2
<1>2. CASE CancelSession(t)
  <2>1. i \in Ids /\ session[i].state # "none"
    BY <1>2 DEF IInv, CloseOK, Closing, Steps, PlaceSteps, CancelSession
  <2>2. QED
    BY <1>2, <2>1 DEF CancelSession, P!Cancel
<1>3. CASE CancelCart(t)
  <2>1. PICK j \in Ids, c \in Carts :
          /\ session[j].state = "cancelled" /\ session[j].cart = c
          /\ cart' = [cart EXCEPT ![c].state = "cancelled"] /\ session' = session
    BY <1>3, CancelCartEffect
  <2>2. P!Close(j)
    BY <2>1 DEF P!Close
  <2>3. QED
    BY <2>2
<1>4. CASE \/ \E total \in Amounts : PlaceMint(t, total)
           \/ PlaceArm(t) \/ ConsumeConfirm(t) \/ PickupConfirm(t)
           \/ CancelOrder(t) \/ CancelRefused(t)
  BY <1>4 DEF PlaceMint, PlaceArm, ConsumeConfirm, PickupConfirm, CancelOrder, CancelRefused
<1>5. QED
  BY <1>1, <1>2, <1>3, <1>4 DEF Work

\* Every step of Checkout is a step of Placement or a stutter.
LEMMA StepSimulated == IInv /\ [Next]_vars => [P!Next]_(P!vars)
<1> SUFFICES ASSUME IInv, [Next]_vars PROVE [P!Next]_(P!vars)
  OBVIOUS
<1>1. ASSUME NEW c \in Carts, LockedVerb(c) PROVE P!Next
  BY <1>1, EditSimulated DEF P!Next
<1>2. ASSUME NEW t \in Tasks, PlaceCommit(t) PROVE P!Next
  <2>1. task[t].cart \in Carts /\ task[t].id \in Ids
    BY <1>2 DEF IInv, PlaceCommit, PlaceOK, Placing, HoldsCart, PlaceSteps
  <2>2. QED
    BY <1>2, <2>1, PlaceSimulated DEF P!Next
<1>3. ASSUME NEW t \in Tasks, Work(t), ~PlaceCommit(t)
      PROVE  P!Next \/ UNCHANGED <<cart, session>>
  BY <1>3, ClosingSimulated DEF P!Next
<1>4. ASSUME \/ \E i \in Ids : GatewaySettle(i)
             \/ \E t \in Tasks : Request(t) \/ Fail(t)
             \/ UNCHANGED vars
      PROVE  UNCHANGED <<cart, session>>
  <2>1. ASSUME NEW t \in Tasks, Request(t) PROVE UNCHANGED <<cart, session>>
    BY <2>1 DEF Request, PlaceLock, ConsumeRead, PickupRead, CancelRead
  <2>2. ASSUME \/ \E i \in Ids : GatewaySettle(i)
               \/ \E t \in Tasks : Fail(t)
        PROVE  UNCHANGED <<cart, session>>
    BY <2>2 DEF GatewaySettle, Fail
  <2>3. ASSUME UNCHANGED vars PROVE UNCHANGED <<cart, session>>
    BY <2>3 DEF vars
  <2>4. QED
    BY <1>4, <2>1, <2>2, <2>3
<1>5. QED
  BY <1>1, <1>2, <1>3, <1>4 DEF Next, P!vars

\* The checkout implements Placement: seen through carts and sessions, the
\* multi-transaction place is one atomic step.
THEOREM PlaceAtomic == Spec => PlaceIsAtomic
<1>1. Init => P!Init
  BY DEF Init, P!Init, NoCart, NoSession
<1>2. QED
  BY <1>1, StepSimulated, Invariance, PTL DEF Spec, PlaceIsAtomic, P!Spec

\* One step keeps the closed rows.
LEMMA ClosedRowsStep ==
  ASSUME IInv, Next
  PROVE  RowsKept
<1>0. /\ \A c \in Carts : cart[c] \in CartRow /\ cart[c] = [cart[c] EXCEPT !.state = @]
      /\ \A i \in Ids : session[i] = [session[i] EXCEPT !.state = @]
  BY DEF IInv, TypeOK, CartRow, SessionRow
<1>1. ASSUME UNCHANGED <<cart, session>> PROVE RowsKept
  BY <1>0, <1>1 DEF RowsKept
<1>2. ASSUME NEW d \in Carts, NEW row, OpenUnderLock(d), StampCart(d, row) PROVE RowsKept
  BY <1>0, <1>2 DEF RowsKept, OpenUnderLock, StampCart, IInv, TypeOK
<1>3. ASSUME NEW d \in Carts, LockedVerb(d) PROVE RowsKept
  BY <1>2, <1>3 DEF LockedVerb, SetDelivery, SetPickup, ResetFulfillment, CaptureBilling
<1>4. ASSUME NEW t \in Tasks, PlaceCommit(t) PROVE RowsKept
  <2>1. HoldsCart(t)
    BY <1>4 DEF IInv, PlaceCommit, PlaceOK, Placing, PlaceSteps
  <2>2. QED
    BY <1>0, <1>4, <2>1 DEF RowsKept, PlaceCommit, HoldsCart, IInv, TypeOK
<1>5. ASSUME NEW t \in Tasks, ConsumeStamp(t) \/ PickupStamp(t) PROVE RowsKept
  BY <1>0, <1>5 DEF RowsKept, ConsumeStamp, PickupStamp, StampSettled, IInv, TypeOK
<1>6. ASSUME NEW t \in Tasks, CancelSession(t) PROVE RowsKept
  <2>1. task[t].id \in Ids /\ task[t].id \in voiding
    BY <1>6 DEF IInv, CloseOK, Closing, Steps, PlaceSteps, CancelSession
  <2>2. QED
    BY <1>0, <1>6, <2>1 DEF RowsKept, CancelSession, IInv, TypeOK
<1>7. ASSUME NEW t \in Tasks, CancelCart(t) PROVE RowsKept
  BY <1>0, <1>7 DEF RowsKept, CancelCart, IInv, TypeOK, CartRow
<1>8. QED
  <2>1. ASSUME NEW t \in Tasks, Work(t) PROVE RowsKept
    BY <1>1, <1>4, <1>5, <1>6, <1>7, <2>1 DEF Work, PlaceMint, PlaceArm, ConsumeConfirm,
      PickupConfirm, CancelOrder, CancelRefused
  <2>2. ASSUME NEW t \in Tasks, Request(t) PROVE UNCHANGED <<cart, session>>
    <3>1. ASSUME NEW c \in Carts, NEW i \in Ids, NEW lane \in Lanes,
                 NEW billing \in Parties \cup {None}, PlaceLock(t, c, i, lane, billing)
          PROVE  UNCHANGED <<cart, session>>
      BY <3>1 DEF PlaceLock
    <3>2. ASSUME NEW i \in Ids, ConsumeRead(t, i) \/ PickupRead(t, i) \/ CancelRead(t, i)
          PROVE  UNCHANGED <<cart, session>>
      BY <3>2 DEF ConsumeRead, PickupRead, CancelRead
    <3>3. QED
      BY <2>2, <3>1, <3>2 DEF Request
  <2>3. ASSUME NEW t \in Tasks, Fail(t) PROVE UNCHANGED <<cart, session>>
    BY <2>3 DEF Fail
  <2>4. QED
    BY <1>1, <1>3, <2>1, <2>2, <2>3 DEF Next, GatewaySettle

\* Placed terms are frozen, no cart reopens, and a cancelled session is final.
THEOREM ClosedRowsSafety == Spec => ClosedRowsKeep
<1>1. IInv /\ [Next]_vars => [RowsKept]_vars
  BY ClosedRowsStep
<1>2. QED
  BY <1>1, Invariance, PTL DEF Spec, ClosedRowsKeep

-----------------------------------------------------------------------------
(* The answers to the gateway. *)

\* A free checkout has no gateway transaction.  What was answered Ok is recorded.
AnswerInv ==
  /\ AnsweredIsRecorded
  /\ \A i \in Ids : session[i].state = "confirmed_free" => ~session[i].bound

\* The sessions a step leaves alone, or closes, stay answered rightly.
LEMMA SessionsAnswered ==
  ASSUME IInv, AnswerInv, acked' = acked,
         \A i \in Ids : \/ session'[i] = session[i]
                        \/ session'[i].state \in {"settled", "cancelled"}
  PROVE  AnswerInv'
BY DEF AnswerInv, AnsweredIsRecorded, IInv, TypeOK

\* A delivery that finds the session not waiting finds it closed.
LEMMA ConsumeReadAnswers ==
  ASSUME IInv, AnswerInv, NEW t \in Tasks, NEW i \in Ids, ConsumeRead(t, i)
  PROVE  AnswerInv'
<1>1. session' = session
  BY DEF ConsumeRead
<1>2. CASE acked' = acked
  BY <1>1, <1>2, SessionsAnswered
<1>3. CASE acked' = acked \cup {i} /\ session[i].state # "pending_payment"
  <2>1. /\ gateway[i].status = "settled" /\ session[i].state \in SessionStates
        /\ OrderOK(i) /\ SessionOK(i)
    BY DEF ConsumeRead, IInv, TypeOK, SessionRow
  <2>2. session[i].state # "none" /\ session[i].bound
    BY <2>1 DEF OrderOK, SessionOK
  <2>3. session[i].state \in {"settled", "cancelled"}
    BY <1>3, <2>1, <2>2 DEF SessionOK, SessionStates, Pending, AnswerInv
  <2>4. QED
    BY <1>1, <1>3, <2>3 DEF AnswerInv, AnsweredIsRecorded
<1>4. QED
  BY <1>2, <1>3 DEF ConsumeRead

\* The consumer answers Ok once no stamp is missing.
LEMMA ConsumeStampAnswers ==
  ASSUME IInv, AnswerInv, NEW t \in Tasks, ConsumeStamp(t)
  PROVE  AnswerInv'
<1>. DEFINE i == task[t].id
<1>1. /\ i \in Ids /\ session[i].state # "none" /\ session[i].bound
      /\ session[i].state \in SessionStates /\ SessionOK(i)
  BY DEF ConsumeStamp, IInv, TypeOK, SessionRow, CloseOK, Closing, Steps, PlaceSteps
<1>2. session[i].state \in {"pending_payment", "settled", "cancelled"}
  BY <1>1 DEF SessionOK, SessionStates, Pending, AnswerInv
<1>3. session'[i].state \in {"settled", "cancelled"}
  BY <1>1, <1>2 DEF ConsumeStamp, StampSettled, IInv, TypeOK
<1>4. \A j \in Ids : session'[j] = session[j] \/ session'[j].state \in {"settled", "cancelled"}
  BY <1>1, <1>3 DEF ConsumeStamp, StampSettled, IInv, TypeOK
<1>5. acked' = acked \cup {i}
  BY DEF ConsumeStamp
<1>6. QED
  BY <1>3, <1>4, <1>5 DEF AnswerInv, AnsweredIsRecorded, IInv, TypeOK

\* A new session is not answered yet, and is bound only if it waits for a payment.
LEMMA PlaceCommitAnswers ==
  ASSUME IInv, AnswerInv, NEW t \in Tasks, PlaceCommit(t)
  PROVE  AnswerInv'
<1>. DEFINE i == task[t].id
            arm == Arm(task[t].lane, order[i].total)
<1>1. i \in Ids /\ session[i].state = "none" /\ acked' = acked
  BY DEF PlaceCommit, IInv, PlaceOK, Placing, HoldsCart, PlaceSteps
<1>2. i \notin acked
  BY <1>1 DEF AnswerInv, AnsweredIsRecorded
<1>3. \A j \in Ids \ {i} : session'[j] = session[j]
  BY DEF PlaceCommit, IInv, TypeOK
<1>4. session'[i].state = arm /\ session'[i].bound = (arm = "pending_payment")
  BY <1>1 DEF PlaceCommit, IInv, TypeOK
<1>5. QED
  BY <1>1, <1>2, <1>3, <1>4 DEF AnswerInv, AnsweredIsRecorded, IInv, TypeOK

\* The other steps answer nobody.
LEMMA StepAnswers == IInv /\ AnswerInv /\ [Next]_vars => AnswerInv'
<1> SUFFICES ASSUME IInv, AnswerInv, [Next]_vars PROVE AnswerInv'
  OBVIOUS
<1>1. ASSUME NEW t \in Tasks, Request(t) PROVE AnswerInv'
  <2>1. ASSUME acked' = acked, session' = session PROVE AnswerInv'
    BY <2>1, SessionsAnswered
  <2>2. ASSUME NEW c \in Carts, NEW i \in Ids, NEW lane \in Lanes,
               NEW billing \in Parties \cup {None}, PlaceLock(t, c, i, lane, billing)
        PROVE  acked' = acked /\ session' = session
    BY <2>2 DEF PlaceLock
  <2>3. ASSUME NEW i \in Ids, PickupRead(t, i) \/ CancelRead(t, i)
        PROVE  acked' = acked /\ session' = session
    BY <2>3 DEF PickupRead, CancelRead
  <2>4. QED
    BY <1>1, <2>1, <2>2, <2>3, ConsumeReadAnswers DEF Request
<1>2. ASSUME NEW t \in Tasks, Work(t) PROVE AnswerInv'
  <2>1. CASE \E total \in Amounts : PlaceMint(t, total)
    BY <2>1, SessionsAnswered DEF PlaceMint
  <2>2. CASE PlaceArm(t) \/ ConsumeConfirm(t) \/ PickupConfirm(t) \/ CancelOrder(t)
              \/ CancelRefused(t) \/ CancelCart(t)
    <3>1. acked' = acked /\ session' = session
      BY <2>2 DEF PlaceArm, ConsumeConfirm, PickupConfirm, CancelOrder, CancelRefused, CancelCart
    <3>2. QED
      BY <3>1, SessionsAnswered
  <2>3. CASE PickupStamp(t) \/ CancelSession(t)
    <3>1. acked' = acked
      BY <2>3 DEF PickupStamp, CancelSession
    <3>2. \/ session' = session
          \/ session' = [session EXCEPT ![task[t].id].state = "settled"]
          \/ session' = [session EXCEPT ![task[t].id].state = "cancelled"]
      BY <2>3 DEF PickupStamp, CancelSession, StampSettled
    <3>3. \A j \in Ids : session'[j] = session[j] \/ session'[j].state \in {"settled", "cancelled"}
      BY <3>2 DEF IInv, TypeOK, SessionRow
    <3>4. QED
      BY <3>1, <3>3, SessionsAnswered
  <2>4. QED
    BY <1>2, <2>1, <2>2, <2>3, PlaceCommitAnswers, ConsumeStampAnswers DEF Work
<1>3. ASSUME \/ \E c \in Carts : LockedVerb(c)
             \/ \E i \in Ids : GatewaySettle(i)
             \/ \E t \in Tasks : Fail(t)
             \/ UNCHANGED vars
      PROVE  AnswerInv'
  <2>1. acked' = acked /\ session' = session
    <3>1. ASSUME NEW c \in Carts, LockedVerb(c) PROVE acked' = acked /\ session' = session
      BY <3>1 DEF LockedVerb, SetDelivery, SetPickup, ResetFulfillment, CaptureBilling,
         StampCart
    <3>2. QED
      BY <1>3, <3>1 DEF GatewaySettle, Fail, vars
  <2>2. QED
    BY <2>1, SessionsAnswered
<1>4. QED
  BY <1>1, <1>2, <1>3 DEF Next

\* The gateway is answered Ok only for a payment that is recorded, or cancelled.
THEOREM AnswersAreTrue == Spec => []AnsweredIsRecorded
<1>1. Init => AnswerInv
  BY DEF Init, AnswerInv, AnsweredIsRecorded, NoSession
<1>2. AnswerInv => AnsweredIsRecorded
  BY DEF AnswerInv
<1>3. QED
  BY <1>1, <1>2, StepAnswers, Invariance, PTL DEF Spec

-----------------------------------------------------------------------------
(* The rules of the row lock. *)

\* A handler holds the row of the cart it places, and no other: it lets go of
\* that one, or of none.
LEMMA UnlocksItsCart ==
  ASSUME IInv, NEW t \in Tasks, Unlock(t)
  PROVE  /\ Placing(t) => /\ task[t].cart \in Carts /\ lock[task[t].cart] = t
                          /\ lock' = [lock EXCEPT ![task[t].cart] = None]
         /\ ~Placing(t) => lock' = lock
<1>1. \A c \in Carts : lock[c] = t <=> Placing(t) /\ task[t].cart = c
  BY DEF IInv, LockDiscipline, Placing
<1>2. lock \in [Carts -> Tasks \cup {None}] /\ (Placing(t) => task[t].cart \in Carts)
  BY DEF IInv, TypeOK, PlaceOK, HoldsCart
<1>3. lock' = [c \in Carts |-> IF lock[c] = t THEN None ELSE lock[c]]
  BY DEF Unlock
<1>4. QED
  BY <1>1, <1>2, <1>3

\* The verbs of one transaction take the lock and let it go: the row's state stays.
LEMMA VerbKeepsLock ==
  ASSUME IInv, NEW c \in Carts, LockedVerb(c)
  PROVE  UNCHANGED L!vars
<1>1. cart[c] \in CartRow /\ cart \in [Carts -> CartRow]
  BY DEF IInv, TypeOK
<1>2. ASSUME NEW row, StampCart(c, row), row.state = cart[c].state PROVE UNCHANGED L!vars
  BY <1>1, <1>2 DEF StampCart, L!vars
<1>3. QED
  BY <1>1, <1>2 DEF LockedVerb, SetDelivery, SetPickup, ResetFulfillment, CaptureBilling, CartRow

LEMMA PlaceLockAcquires ==
  ASSUME IInv, NEW t \in Tasks, NEW c \in Carts, NEW i \in Ids, NEW lane \in Lanes,
         NEW billing \in Parties \cup {None}, PlaceLock(t, c, i, lane, billing)
  PROVE  L!Acquire(t, c)
<1>1. lock[c] = None /\ cart[c].state = "open" /\ lock' = [lock EXCEPT ![c] = t] /\ cart' = cart
  BY DEF PlaceLock, OpenUnderLock, LockFree
<1>2. task[t].at = "idle"
  BY DEF PlaceLock
<1>3. \A d \in Carts : lock[d] # t
  BY <1>2 DEF IInv, LockDiscipline, PlaceSteps
<1>4. QED
  BY <1>1, <1>3 DEF L!Acquire

LEMMA PlaceCommitPlaces ==
  ASSUME IInv, NEW t \in Tasks, PlaceCommit(t)
  PROVE  \E c \in Carts : L!Place(t, c)
<1>. DEFINE c == task[t].cart
<1>1. /\ c \in Carts /\ lock[c] = t /\ cart[c].state = "open"
      /\ lock' = [lock EXCEPT ![c] = None]
  BY UnlocksItsCart DEF PlaceCommit, IInv, PlaceOK, Placing, HoldsCart, PlaceSteps
<1>2. /\ cart' = [cart EXCEPT ![c].state = "placed", ![c].party = task[t].row.party]
      /\ cart \in [Carts -> CartRow] /\ cart[c] \in CartRow
  BY <1>1 DEF PlaceCommit, IInv, TypeOK
<1>. HIDE DEF c
<1>3. \A d \in Carts : cart'[d].state = IF d = c THEN "placed" ELSE cart[d].state
  BY <1>1, <1>2 DEF CartRow
<1>4. [d \in Carts |-> cart'[d].state]
        = [[d \in Carts |-> cart[d].state] EXCEPT ![c] = "placed"]
  BY <1>1, <1>3
<1>5. QED
  BY <1>1, <1>2, <1>4 DEF L!Place

LEMMA CancelCartCancels ==
  ASSUME IInv, NEW t \in Tasks, CancelCart(t)
  PROVE  \E c \in Carts : L!Cancel(c)
<1>1. PICK i \in Ids, c \in Carts :
        /\ session[i].cart = c /\ lock[c] = None /\ cart[c].state \in {"placed", "cancelled"}
        /\ cart' = [cart EXCEPT ![c].state = "cancelled"] /\ lock' = lock
  BY CancelCartEffect
<1>2. cart \in [Carts -> CartRow] /\ cart[c] \in CartRow
  BY DEF IInv, TypeOK
<1>3. \A d \in Carts : cart'[d].state = IF d = c THEN "cancelled" ELSE cart[d].state
  BY <1>1, <1>2 DEF CartRow
<1>4. [d \in Carts |-> cart'[d].state]
        = [[d \in Carts |-> cart[d].state] EXCEPT ![c] = "cancelled"]
  BY <1>3
<1>5. QED
  BY <1>1, <1>4 DEF L!Cancel

\* The step of a lost handler releases, if it held a row.
LEMMA FailReleases ==
  ASSUME IInv, NEW t \in Tasks, Fail(t)
  PROVE  UNCHANGED L!vars \/ \E c \in Carts : L!Release(t, c)
<1>1. cart' = cart /\ Unlock(t)
  BY DEF Fail
<1>2. QED
  BY <1>1, UnlocksItsCart DEF L!Release, L!vars

\* Every step of Checkout is a step of CartLock or invisible to it.
LEMMA LockSimulated == IInv /\ [Next]_vars => [L!Next]_(L!vars)
<1> SUFFICES ASSUME IInv, [Next]_vars PROVE [L!Next]_(L!vars)
  OBVIOUS
<1>1. ASSUME UNCHANGED <<cart, lock>> PROVE UNCHANGED L!vars
  BY <1>1 DEF L!vars
<1>2. ASSUME NEW t \in Tasks, Request(t) PROVE [L!Next]_(L!vars)
  <2>1. CASE \E i \in Ids : ConsumeRead(t, i) \/ PickupRead(t, i) \/ CancelRead(t, i)
    BY <1>1, <2>1 DEF ConsumeRead, PickupRead, CancelRead
  <2>2. QED
    BY <1>2, <2>1, PlaceLockAcquires DEF Request, L!Next
<1>3. ASSUME NEW t \in Tasks, Work(t) PROVE [L!Next]_(L!vars)
  <2>1. CASE \/ \E total \in Amounts : PlaceMint(t, total)
             \/ PlaceArm(t) \/ ConsumeConfirm(t) \/ ConsumeStamp(t)
             \/ PickupConfirm(t) \/ PickupStamp(t)
             \/ CancelOrder(t) \/ CancelRefused(t) \/ CancelSession(t)
    BY <1>1, <2>1 DEF PlaceMint, PlaceArm, ConsumeConfirm, ConsumeStamp, PickupConfirm, PickupStamp,
       CancelOrder, CancelRefused, CancelSession
  <2>2. CASE PlaceCommit(t)
    BY <2>2, PlaceCommitPlaces DEF L!Next
  <2>3. CASE CancelCart(t)
    BY <2>3, CancelCartCancels DEF L!Next
  <2>4. QED
    BY <1>3, <2>1, <2>2, <2>3 DEF Work
<1>4. ASSUME NEW t \in Tasks, Fail(t) PROVE [L!Next]_(L!vars)
  BY <1>4, FailReleases DEF L!Next
<1>5. CASE (\E i \in Ids : GatewaySettle(i)) \/ UNCHANGED vars
  BY <1>1, <1>5 DEF GatewaySettle, vars
<1>6. QED
  BY <1>2, <1>3, <1>4, <1>5, VerbKeepsLock DEF Next

\* A cart leaves open only under the lock of the handler placing it, and is
\* cancelled only while nobody holds it; a lost handler lets go of what it held.
THEOREM CheckoutKeepsLock == Spec => KeepsCartLock
<1>1. Init => L!Init
  BY DEF Init, L!Init, NoCart
<1>2. QED
  BY <1>1, LockSimulated, Invariance, PTL DEF Spec, KeepsCartLock, L!Spec
=============================================================================
