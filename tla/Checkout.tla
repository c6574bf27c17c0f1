------------------------------ MODULE Checkout ------------------------------
(***************************************************************************)
(* The checkout critical section of the storefront and the three verbs     *)
(* that finish a checkout: the settlement consumer, the officer's pickup   *)
(* confirmation and the cancel mirror.                                     *)
(*                                                                         *)
(* A verb under the cart row lock that writes only its own transaction is  *)
(* one action.  Place is several, because the order mint, the free arm's   *)
(* confirm and the gateway create each commit on a transaction of their    *)
(* own while the outer one still holds the lock; so are the three closing  *)
(* verbs, which read, call selling and stamp in separate transactions.     *)
(* Any task may fail or be dropped between two such steps.                 *)
(*                                                                         *)
(* A checkout id names the session, its order (number STF-id) and its      *)
(* gateway transaction (reference stf-id).  A verb that refuses before its *)
(* first commit leaves no trace and is a stuttering step.                  *)
(***************************************************************************)
EXTENDS Naturals

CONSTANTS
  Carts,      \* cart rows
  Ids,        \* checkout ids, bounding how many places get as far as the mint
  Tasks,      \* request handlers running at the same time
  Carriers,   \* delivery carriers the cart's company owns
  Stores,     \* active pickup locations of the cart's website
  Parties,    \* billing parties
  Amounts,    \* order totals
  None,       \* SQL NULL
  MaxFaults   \* bound on failed or dropped tasks

ASSUME ConstantsAssumption ==
  /\ 0 \in Amounts
  /\ Amounts \subseteq Nat
  /\ MaxFaults \in Nat
  /\ None \notin Carts \cup Ids \cup Tasks \cup Carriers \cup Stores \cup Parties

VARIABLES
  cart,     \* storefront.carts
  lock,     \* which task holds the FOR UPDATE lock of a cart row
  order,    \* selling.sales_orders
  gateway,  \* the payment gateway's transactions
  session,  \* storefront.checkout_sessions
  task,     \* where each handler is, and what it has read
  acked,    \* settlements the consumer has answered Ok
  voiding,  \* history: checkouts on which a cancel got past its state check
  faults    \* failed or dropped tasks so far

vars == <<cart, lock, order, gateway, session, task, acked, voiding, faults>>

-----------------------------------------------------------------------------
(* The rows. *)

CartStates == {"open", "placed", "cancelled"}
CartRow == [state : CartStates, mode : {"delivery", "pickup"},
            pin : Stores \cup {None}, carrier : Carriers \cup {None},
            party : Parties \cup {None}]

Lanes == {"online", "onsite"}
Confirmers == {"nobody", "place", "settlement", "officer"}

OrderRow == [status : {"none", "draft", "confirmed", "cancelled"},
             total : Amounts, party : Parties \cup {None},
             pricedFor : Parties \cup {None}, carrier : Carriers \cup {None}, by : Confirmers]

GatewayRow == [status : {"none", "pending", "settled"}, gross : Amounts]

Pending == {"pending_payment", "confirmed_free", "pending_pickup"}
SessionStates == Pending \cup {"none", "settled", "cancelled"}
SessionRow == [state : SessionStates, cart : Carts \cup {None},
               amount : Amounts, pin : Stores \cup {None}, bound : BOOLEAN]

PlaceSteps == {"mint", "arm", "commit"}
Steps == PlaceSteps \cup
         {"settle_confirm", "settle_stamp", "pickup_confirm", "pickup_stamp",
          "cancel_order", "cancel_session", "cancel_cart"}
NoCart == [state |-> "open", mode |-> "delivery", pin |-> None,
           carrier |-> None, party |-> None]
NoOrder == [status |-> "none", total |-> 0, party |-> None, pricedFor |-> None,
            carrier |-> None, by |-> "nobody"]
NoGateway == [status |-> "none", gross |-> 0]
NoSession == [state |-> "none", cart |-> None, amount |-> 0, pin |-> None,
              bound |-> FALSE]
Idle == [at |-> "idle", cart |-> None, id |-> None, lane |-> "online",
         row |-> NoCart]
TaskState == [at : Steps \cup {"idle"}, cart : Carts \cup {None},
              id : Ids \cup {None}, lane : Lanes, row : CartRow]

Init ==
  /\ cart = [c \in Carts |-> NoCart]
  /\ lock = [c \in Carts |-> None]
  /\ order = [i \in Ids |-> NoOrder]
  /\ gateway = [i \in Ids |-> NoGateway]
  /\ session = [i \in Ids |-> NoSession]
  /\ task = [t \in Tasks |-> Idle]
  /\ acked = {}
  /\ voiding = {}
  /\ faults = 0

-----------------------------------------------------------------------------
(* The verbs that run in one transaction under the row lock. *)

\* lock_cart: FOR UPDATE waits while another transaction holds the row.
MutLockFree(c) == TRUE
LockFree(c) == lock[c] = None

\* The state check every locked verb makes first, under the lock.
MutOpenUnderLock(c) == LockFree(c)
OpenUnderLock(c) == LockFree(c) /\ cart[c].state = "open"

StampCart(c, row) ==
  /\ cart' = [cart EXCEPT ![c] = row]
  /\ UNCHANGED <<lock, order, gateway, session, task, acked, voiding, faults>>

\* The statement alone, as it would run outside the critical section.
MutSetDelivery(c, k) ==
  cart[c].state = "open" /\ StampCart(c, [cart[c] EXCEPT !.carrier = k])
SetDelivery(c, k) ==
  OpenUnderLock(c) /\ StampCart(c, [cart[c] EXCEPT !.carrier = k])

SetPickup(c, s) ==
  OpenUnderLock(c) /\ StampCart(c, [cart[c] EXCEPT !.mode = "pickup", !.pin = s])

MutResetFulfillment(c) ==
  OpenUnderLock(c) /\ StampCart(c, [cart[c] EXCEPT !.mode = None, !.pin = None])
ResetFulfillment(c) ==
  OpenUnderLock(c) /\ StampCart(c, [cart[c] EXCEPT !.mode = "delivery", !.pin = None])

CaptureBilling(c, p) ==
  OpenUnderLock(c) /\ StampCart(c, [cart[c] EXCEPT !.party = p])

-----------------------------------------------------------------------------
(* Place, both lanes, plain and express. *)

Goto(t, step) == task' = [task EXCEPT ![t].at = step]
Finish(t) == task' = [task EXCEPT ![t] = Idle]
MutUnlock(t) == UNCHANGED lock
Unlock(t) == lock' = [c \in Carts |-> IF lock[c] = t THEN None ELSE lock[c]]

\* The on-site lane is for pickup carts, and a pickup cart has its store.
MutLaneAllows(lane, row) == row.mode = "pickup" => row.pin # None
LaneAllows(lane, row) ==
  /\ lane = "onsite" => row.mode = "pickup"
  /\ row.mode = "pickup" => row.pin # None

\* Uuid::new_v4: every attempt names its order and session afresh.
MutFresh(i) == session[i].state = "none" /\ \A t \in Tasks : task[t].id # i
Fresh(i) == order[i].status = "none" /\ \A t \in Tasks : task[t].id # i

\* The checks under the lock, up to the mint.  billing is the party an
\* express body resolves to, None on the plain verb.  The pricing, stock and
\* tax ports may refuse here: the transaction rolls back and nothing moves.
PlaceLock(t, c, i, lane, billing) ==
  LET row == [cart[c] EXCEPT !.party = IF billing = None THEN @ ELSE billing] IN
  /\ task[t].at = "idle"
  /\ OpenUnderLock(c)
  /\ LaneAllows(lane, row)
  /\ row.party # None
  /\ Fresh(i)
  /\ lock' = [lock EXCEPT ![c] = t]
  /\ task' = [task EXCEPT ![t] = [at |-> "mint", cart |-> c, id |-> i,
                                  lane |-> lane, row |-> row]]
  /\ UNCHANGED <<cart, order, gateway, session, acked, voiding, faults>>

\* create_sales_order_priced commits the draft by itself; its own total is
\* the authority for everything after it.  price_cart is given the row as
\* lock_cart read it, which an express body's party is not yet part of.
PlaceMint(t, total) ==
  /\ task[t].at = "mint"
  /\ order' = [order EXCEPT ![task[t].id] = [status |-> "draft", total |-> total,
                 party |-> task[t].row.party, carrier |-> task[t].row.carrier,
                 pricedFor |-> cart[task[t].cart].party, by |-> "nobody"]]
  /\ Goto(t, "arm")
  /\ UNCHANGED <<cart, lock, gateway, session, acked, voiding, faults>>

\* The arm the lane and the locked total decide: the new session's state.
MutArm(lane, total) ==
  IF total = 0 THEN "confirmed_free"
  ELSE IF lane = "onsite" THEN "pending_pickup" ELSE "pending_payment"
Arm(lane, total) ==
  IF lane = "onsite" THEN "pending_pickup"
  ELSE IF total = 0 THEN "confirmed_free" ELSE "pending_payment"

\* confirm_sales_order: a draft confirms; NotDraft is tolerated by callers.
Confirm(i, who) ==
  order' = IF order[i].status = "draft"
           THEN [order EXCEPT ![i].status = "confirmed", ![i].by = who]
           ELSE order

\* The on-site lane does nothing here; the free arm confirms the order; the
\* paid arm creates the pending gateway transaction.  Each commits by itself.
PlaceArm(t) ==
  LET i == task[t].id
      arm == Arm(task[t].lane, order[i].total) IN
  /\ task[t].at = "arm"
  /\ \/ arm = "pending_pickup" /\ UNCHANGED <<order, gateway>>
     \/ arm = "confirmed_free" /\ Confirm(i, "place") /\ UNCHANGED gateway
     \/ /\ arm = "pending_payment"
        /\ gateway' = [gateway EXCEPT ![i] = [status |-> "pending",
                                              gross |-> order[i].total]]
        /\ UNCHANGED order
  /\ Goto(t, "commit")
  /\ UNCHANGED <<cart, lock, session, acked, voiding, faults>>

\* The session is inserted, the flip forgotten.
MutPlaceCommit(t) ==
  /\ task[t].at = "commit"
  /\ session' = [session EXCEPT ![task[t].id] =
       [state |-> Arm(task[t].lane, order[task[t].id].total), cart |-> task[t].cart,
        amount |-> order[task[t].id].total, pin |-> task[t].row.pin,
        bound |-> gateway[task[t].id].status = "pending"]]
  /\ Unlock(t)
  /\ Finish(t)
  /\ UNCHANGED <<cart, order, gateway, acked, voiding, faults>>

\* The outer transaction: the session row, the placement flip and the party
\* an express body stamped, all at once, and the lock is released.
PlaceCommit(t) ==
  LET i == task[t].id
      c == task[t].cart
      row == task[t].row
      arm == Arm(task[t].lane, order[i].total) IN
  /\ task[t].at = "commit"
  /\ session' = [session EXCEPT ![i] = [state |-> arm, cart |-> c,
                   amount |-> order[i].total, bound |-> arm = "pending_payment",
                   pin |-> IF row.mode = "pickup" THEN row.pin ELSE None]]
  /\ cart' = [cart EXCEPT ![c].state = "placed", ![c].party = row.party]
  /\ Unlock(t)
  /\ Finish(t)
  /\ UNCHANGED <<order, gateway, acked, voiding, faults>>

-----------------------------------------------------------------------------
(* The closing verbs.  None takes the cart lock; each reads the session in   *)
(* one transaction and stamps it in a later one.                             *)

\* A handler starts working on checkout i.
Begin(t, i, step) ==
  /\ task[t].at = "idle"
  /\ task' = [task EXCEPT ![t].at = step, ![t].id = i]

\* The gateway settles a pending transaction once.  The provider knows a
\* reference only from the answer to a committed place.
GatewaySettle(i) ==
  /\ gateway[i].status = "pending"
  /\ session[i].state # "none"
  /\ gateway' = [gateway EXCEPT ![i].status = "settled"]
  /\ UNCHANGED <<cart, lock, order, session, task, acked, voiding, faults>>

\* consume_settlement, up to its early returns.  Any settled event may be
\* delivered again at any time.
MutConsumeFirst == "settle_stamp"
ConsumeFirst == "settle_confirm"
ConsumeRead(t, i) ==
  /\ gateway[i].status = "settled"
  /\ \/ /\ session[i].state = "pending_payment"
        /\ Begin(t, i, ConsumeFirst)
        /\ UNCHANGED acked
     \/ /\ session[i].state # "pending_payment"
        /\ task[t].at = "idle"
        /\ acked' = acked \cup {i}
        /\ UNCHANGED task
  /\ UNCHANGED <<cart, lock, order, gateway, session, voiding, faults>>

ConsumeConfirm(t) ==
  /\ task[t].at = "settle_confirm"
  /\ Confirm(task[t].id, "settlement")
  /\ Goto(t, "settle_stamp")
  /\ UNCHANGED <<cart, lock, gateway, session, acked, voiding, faults>>

\* UPDATE .. SET state = 'settled' WHERE state = from: a row in another
\* state is left alone, and the verb answers the same.
MutStampSettled(i, from) == session' = [session EXCEPT ![i].state = "settled"]
StampSettled(i, from) ==
  session' = IF session[i].state = from
             THEN [session EXCEPT ![i].state = "settled"] ELSE session

MutConsumeStamp(t) ==
  /\ task[t].at = "settle_stamp"
  /\ acked' = acked \cup {task[t].id}
  /\ Finish(t)
  /\ UNCHANGED <<cart, lock, order, gateway, session, voiding, faults>>
ConsumeStamp(t) ==
  /\ task[t].at = "settle_stamp"
  /\ StampSettled(task[t].id, "pending_payment")
  /\ acked' = acked \cup {task[t].id}
  /\ Finish(t)
  /\ UNCHANGED <<cart, lock, order, gateway, voiding, faults>>

\* confirm_pickup, by an officer after the store took the payment.
PickupRead(t, i) ==
  /\ session[i].state = "pending_pickup"
  /\ Begin(t, i, "pickup_confirm")
  /\ UNCHANGED <<cart, lock, order, gateway, session, acked, voiding, faults>>

PickupConfirm(t) ==
  /\ task[t].at = "pickup_confirm"
  /\ Confirm(task[t].id, "officer")
  /\ Goto(t, "pickup_stamp")
  /\ UNCHANGED <<cart, lock, gateway, session, acked, voiding, faults>>

PickupStamp(t) ==
  /\ task[t].at = "pickup_stamp"
  /\ StampSettled(task[t].id, "pending_pickup")
  /\ Finish(t)
  /\ UNCHANGED <<cart, lock, order, gateway, acked, voiding, faults>>

\* cancel_checkout refuses a settled, cancelled or failed session.
MutCancelFirst == "cancel_session"
CancelFirst == "cancel_order"
CancelRead(t, i) ==
  /\ session[i].state \in Pending
  /\ Begin(t, i, CancelFirst)
  /\ voiding' = voiding \cup {i}
  /\ UNCHANGED <<cart, lock, order, gateway, session, acked, faults>>

\* cancel_sales_order takes a draft.  Whether it takes an order that has left
\* draft is selling's business: it may cancel it, or refuse (CancelRefused).
CancelOrder(t) ==
  /\ task[t].at = "cancel_order"
  /\ order' = [order EXCEPT ![task[t].id].status = "cancelled"]
  /\ Goto(t, "cancel_session")
  /\ UNCHANGED <<cart, lock, gateway, session, acked, voiding, faults>>

CancelRefused(t) ==
  /\ task[t].at = "cancel_order"
  /\ order[task[t].id].status # "draft"
  /\ Finish(t)
  /\ UNCHANGED <<cart, lock, order, gateway, session, acked, voiding, faults>>

\* Both stamps are by id alone, whatever state the row is in by now.
CancelSession(t) ==
  /\ task[t].at = "cancel_session"
  /\ session' = [session EXCEPT ![task[t].id].state = "cancelled"]
  /\ Goto(t, "cancel_cart")
  /\ UNCHANGED <<cart, lock, order, gateway, acked, voiding, faults>>

CancelCart(t) ==
  LET c == session[task[t].id].cart IN
  /\ task[t].at = "cancel_cart"
  /\ LockFree(c)
  /\ cart' = [cart EXCEPT ![c].state = "cancelled"]
  /\ Finish(t)
  /\ UNCHANGED <<lock, order, gateway, session, acked, voiding, faults>>

-----------------------------------------------------------------------------
(* A step errs (selling, the gateway or the database refuses), or the task  *)
(* is dropped: its open transaction rolls back and its row lock goes.       *)
Fail(t) ==
  /\ task[t].at # "idle"
  /\ faults < MaxFaults
  /\ faults' = faults + 1
  /\ Unlock(t)
  /\ Finish(t)
  /\ UNCHANGED <<cart, order, gateway, session, acked, voiding>>

-----------------------------------------------------------------------------
LockedVerb(c) ==
  \/ \E k \in Carriers : SetDelivery(c, k)
  \/ \E s \in Stores : SetPickup(c, s)
  \/ ResetFulfillment(c)
  \/ \E p \in Parties : CaptureBilling(c, p)

\* A handler takes its next step.
Work(t) ==
  \/ \E total \in Amounts : PlaceMint(t, total)
  \/ PlaceArm(t) \/ PlaceCommit(t)
  \/ ConsumeConfirm(t) \/ ConsumeStamp(t)
  \/ PickupConfirm(t) \/ PickupStamp(t)
  \/ CancelOrder(t) \/ CancelRefused(t) \/ CancelSession(t) \/ CancelCart(t)

\* A handler is handed a request.
Request(t) ==
  \/ \E c \in Carts, i \in Ids, lane \in Lanes, billing \in Parties \cup {None} :
       PlaceLock(t, c, i, lane, billing)
  \/ \E i \in Ids : ConsumeRead(t, i) \/ PickupRead(t, i) \/ CancelRead(t, i)

Next ==
  \/ \E c \in Carts : LockedVerb(c)
  \/ \E i \in Ids : GatewaySettle(i)
  \/ \E t \in Tasks : Request(t) \/ Work(t) \/ Fail(t)

Spec == Init /\ [][Next]_vars

\* A running handler is scheduled.  A settlement that was not answered Ok is
\* delivered again until some handler takes it; strong fairness, because the
\* server's real tasks are not limited to Tasks and none is kept out for ever.
Fairness ==
  /\ \A t \in Tasks : WF_vars(Work(t))
  /\ \A i \in Ids : SF_vars(i \notin acked /\ \E t \in Tasks : ConsumeRead(t, i))

FairSpec == Spec /\ Fairness

-----------------------------------------------------------------------------
(* Properties. *)

\* Every variable holds a row of its table.
TypeOK ==
  /\ cart \in [Carts -> CartRow]
  /\ lock \in [Carts -> Tasks \cup {None}]
  /\ order \in [Ids -> OrderRow]
  /\ gateway \in [Ids -> GatewayRow]
  /\ session \in [Ids -> SessionRow]
  /\ task \in [Tasks -> TaskState]
  /\ acked \subseteq Ids
  /\ voiding \subseteq Ids
  /\ faults \in 0..MaxFaults

\* Concurrent places of one cart have exactly one winner: a cart that left
\* open has one session, an open cart none.
OneWinner ==
  /\ \A c \in Carts : cart[c].state # "open" <=> \E i \in Ids : session[i].cart = c
  /\ \A i, j \in Ids : session[i].cart # None /\ session[i].cart = session[j].cart
                      => i = j

\* One total, three witnesses: a session's amount is its order's total, and
\* the gateway row, which only a paid online place has, is for that amount.
ThreeWitnesses ==
  \A i \in Ids : session[i].state # "none" =>
    /\ order[i].status # "none"
    /\ session[i].amount = order[i].total
    /\ session[i].bound <=> gateway[i].status # "none"
    /\ session[i].bound => gateway[i].gross = session[i].amount /\ session[i].amount # 0

\* No torn place: the order carries the carrier and the party the placed cart
\* shows, and the session the store it is pinned to, however the delivery,
\* pickup, reset and billing verbs raced the place.
LockedTerms ==
  \A i \in Ids : session[i].state # "none" =>
    LET row == cart[session[i].cart] IN
    /\ order[i].carrier = row.carrier
    /\ order[i].party = row.party
    /\ session[i].pin = row.pin

\* An unpaid order is never confirmed, orphans of failed places included: a
\* confirmed order was free, or the gateway settled its transaction, or an
\* officer confirmed it at the store its session is pinned to; and the on-site
\* lane itself confirms nothing, whatever the total.
UnpaidNeverConfirms ==
  /\ \A i \in Ids : order[i].status = "confirmed" =>
       \/ order[i].by = "place" /\ order[i].total = 0
       \/ order[i].by = "settlement" /\ gateway[i].status = "settled"
       \/ order[i].by = "officer" /\ gateway[i].status = "none" /\ session[i].pin # None
  /\ \A t \in Tasks : task[t].at \in PlaceSteps /\ task[t].lane = "onsite"
                    => order[task[t].id].by = "nobody"

\* Unless a cancel is or was under way on it, a settled checkout has a
\* confirmed order, at whatever step a consumer or officer task was lost.
SettledMeansSold ==
  \A i \in Ids : session[i].state = "settled" /\ i \notin voiding
                => order[i].status = "confirmed"

\* The cancel mirror never runs ahead of itself: a cancelled session has a
\* cancelled order, a cancelled cart a cancelled session.
CancelMirrors ==
  \A i \in Ids :
    /\ session[i].state = "cancelled" => order[i].status = "cancelled"
    /\ session[i].cart # None /\ cart[session[i].cart].state = "cancelled"
         => session[i].state = "cancelled"

\* A cart that left open keeps the terms it was placed under and never opens
\* again; a cancelled session is final, late settlements included; a settled
\* one changes only under a cancel that had started before.
RowsKept ==
  /\ \A c \in Carts : cart[c].state # "open" =>
       /\ cart'[c].state \in {cart[c].state, "cancelled"}
       /\ cart'[c] = [cart[c] EXCEPT !.state = cart'[c].state]
  /\ \A i \in Ids :
       session[i].state = "cancelled" \/ (session[i].state = "settled" /\ i \notin voiding)
         => session'[i] = session[i]

\* No step breaks what RowsKept says of closed rows.
ClosedRowsKeep == [][RowsKept]_vars

\* An Ok ends the gateway's deliveries, so it is answered only for a payment
\* that is recorded, or that a cancel came before: whichever deliveries of it
\* raced, and whichever of their handlers was lost.
AnsweredIsRecorded ==
  \A i \in acked : session[i].state \in {"settled", "cancelled"}

\* A payment the gateway settled does not leave its checkout waiting: the
\* consumer records it, or a cancel got there.
PaymentsAreRecorded ==
  \A i \in Ids : gateway[i].status = "settled" ~> session[i].state \in {"settled", "cancelled"}

\* No place keeps a cart's row lock for ever.
LocksAreReleased == \A c \in Carts : lock[c] # None ~> lock[c] = None

SameTerms(r, s) == r.mode = s.mode /\ r.pin = s.pin /\ r.carrier = s.carrier

\* The row lock is held exactly by the task placing that cart, which is open
\* and unchanged, its own party apart, since the task read it.
LockDiscipline ==
  \A c \in Carts, t \in Tasks :
    /\ lock[c] = t <=> task[t].at \in PlaceSteps /\ task[t].cart = c
    /\ lock[c] = t => cart[c].state = "open" /\ SameTerms(task[t].row, cart[c])

\* Seen through the carts and the sessions alone, the multi-transaction place
\* is one atomic step and the closing verbs keep the promised order.
P == INSTANCE Placement
PlaceIsAtomic == P!Spec

\* The rules of the row lock that the line verbs and the captures, which are
\* specified apart, take for granted of the checkout, and it of them.
L == INSTANCE CartLock WITH state <- [c \in Carts |-> cart[c].state]
KeepsCartLock == L!Spec

-----------------------------------------------------------------------------
(* What the documentation says and the code does not do. *)

\* The not-draft guard stands for an order already confirmed: a checkout
\* stamped settled has a confirmed order.
SettledIsConfirmed ==
  \A i \in Ids : session[i].state = "settled" => order[i].status = "confirmed"

\* Place is one database transaction: an order exists only with its session,
\* or while the place that minted it still runs.
MintIsAtomic ==
  \A i \in Ids : order[i].status # "none" =>
    session[i].state # "none" \/ \E t \in Tasks : task[t].id = i

\* The price is resolved for the cart's party once billing is captured: a
\* placed order is priced for the party it is sold to.
PricedForBuyer ==
  \A i \in Ids : session[i].state # "none" => order[i].pricedFor = order[i].party
=============================================================================
