----------------------------- MODULE OrdersProofs -----------------------------
(***************************************************************************)
(* What becomes of selling's orders, for every value of Checkout's         *)
(* constants.  The mint commits by itself, so a place that fails after it  *)
(* leaves an order without a session: at most one for each failure, and    *)
(* one that nothing touches ever again.  An order is priced for the party  *)
(* it is sold to unless an express body names another than its cart's.     *)
(***************************************************************************)
EXTENDS CheckoutProofs, FiniteSetTheorems

\* An order without a session whose place is over.
Orphan(i) ==
  /\ order[i].status # "none"
  /\ session[i].state = "none"
  /\ \A t \in Tasks : Placing(t) => task[t].id # i
Orphans == {i \in Ids : Orphan(i)}

OrphansCounted == IsFiniteSet(Orphans) /\ Cardinality(Orphans) <= faults
OrphansStay ==
  \A i \in Orphans : i \in Orphans' /\ order'[i] = order[i] /\ gateway'[i] = gateway[i]

\* Every place works for the party its cart has: no express body names another.
PlacesForItsParty == \A t \in Tasks : Placing(t) => task[t].row.party = cart[task[t].cart].party
OrdersPriced == \A i \in Ids : order[i].status # "none" => order[i].pricedFor = order[i].party

-----------------------------------------------------------------------------
(* Who writes what. *)

ConfirmsOrCancels(t) == ConsumeConfirm(t) \/ PickupConfirm(t) \/ CancelOrder(t)
Stamps(t) == ConsumeStamp(t) \/ PickupStamp(t) \/ CancelSession(t)

\* The steps that begin a handler's work write none of selling's, the gateway's
\* or the checkout's rows.
LEMMA RequestsWriteNothing ==
  ASSUME NEW t \in Tasks, Request(t)
  PROVE  UNCHANGED <<order, gateway, session, faults>>
<1>1. ASSUME NEW c \in Carts, NEW i \in Ids, NEW lane \in Lanes,
             NEW billing \in Parties \cup {None}, PlaceLock(t, c, i, lane, billing)
      PROVE  UNCHANGED <<order, gateway, session, faults>>
  BY <1>1 DEF PlaceLock
<1>2. ASSUME NEW i \in Ids, ConsumeRead(t, i) \/ PickupRead(t, i) \/ CancelRead(t, i)
      PROVE  UNCHANGED <<order, gateway, session, faults>>
  BY <1>2 DEF ConsumeRead, PickupRead, CancelRead
<1>3. QED
  BY <1>1, <1>2 DEF Request

LEMMA WhoWrites ==
  ASSUME [Next]_vars
  PROVE  /\ \/ order' = order
            \/ \E t \in Tasks : \/ \E total \in Amounts : PlaceMint(t, total)
                                \/ PlaceArm(t) \/ ConfirmsOrCancels(t)
         /\ \/ gateway' = gateway
            \/ \E t \in Tasks : PlaceArm(t)
            \/ \E i \in Ids : GatewaySettle(i)
         /\ session' = session \/ \E t \in Tasks : PlaceCommit(t) \/ Stamps(t)
         /\ faults' = faults \/ \E t \in Tasks : Fail(t)
<1>1. CASE \E t \in Tasks : Request(t)
  BY <1>1, RequestsWriteNothing
<1>2. ASSUME NEW c \in Carts, LockedVerb(c) PROVE UNCHANGED <<order, gateway, session, faults>>
  BY <1>2 DEF LockedVerb, SetDelivery, SetPickup, ResetFulfillment, CaptureBilling, StampCart
<1>3. ASSUME NEW i \in Ids, GatewaySettle(i) PROVE UNCHANGED <<order, session, faults>>
  BY <1>3 DEF GatewaySettle
<1>4. ASSUME NEW t \in Tasks, \E total \in Amounts : PlaceMint(t, total)
      PROVE  UNCHANGED <<gateway, session, faults>>
  BY <1>4 DEF PlaceMint
<1>5. ASSUME NEW t \in Tasks, PlaceArm(t) PROVE UNCHANGED <<session, faults>>
  BY <1>5 DEF PlaceArm
<1>6. ASSUME NEW t \in Tasks, ConfirmsOrCancels(t) PROVE UNCHANGED <<gateway, session, faults>>
  BY <1>6 DEF ConfirmsOrCancels, ConsumeConfirm, PickupConfirm, CancelOrder
<1>7. ASSUME NEW t \in Tasks, PlaceCommit(t) \/ Stamps(t) PROVE UNCHANGED <<order, gateway, faults>>
  BY <1>7 DEF PlaceCommit, Stamps, ConsumeStamp, PickupStamp, CancelSession
<1>8. ASSUME NEW t \in Tasks, CancelRefused(t) \/ CancelCart(t)
      PROVE  UNCHANGED <<order, gateway, session, faults>>
  BY <1>8 DEF CancelRefused, CancelCart
<1>9. ASSUME NEW t \in Tasks, Fail(t) PROVE UNCHANGED <<order, gateway, session>>
  BY <1>9 DEF Fail
<1>10. CASE \E t \in Tasks : Work(t)
  <2>1. PICK t \in Tasks : Work(t)
    BY <1>10
  <2>2. \/ \E total \in Amounts : PlaceMint(t, total)
        \/ PlaceArm(t) \/ PlaceCommit(t) \/ Stamps(t) \/ ConfirmsOrCancels(t)
        \/ CancelRefused(t) \/ CancelCart(t)
    BY <2>1 DEF Work, Stamps, ConfirmsOrCancels
  <2>3. QED
    BY <1>4, <1>5, <1>6, <1>7, <1>8, <2>2
<1>11. CASE UNCHANGED vars
  BY <1>11 DEF vars
<1>12. QED
  BY <1>1, <1>2, <1>3, <1>9, <1>10, <1>11 DEF Next

\* Place goes on from one of its steps to the next with the checkout it is at.
GoesOn(t) == Placing(t) /\ Placing(t)' /\ task'[t].id = task[t].id

LEMMA PlaceGoesOn ==
  ASSUME IInv, NEW t \in Tasks,
         (\E total \in Amounts : PlaceMint(t, total)) \/ PlaceArm(t)
  PROVE  GoesOn(t)
<1>1. task \in [Tasks -> TaskState] /\ task[t] \in TaskState
  BY DEF IInv, TypeOK
<1>2. task[t].at \in PlaceSteps /\ (Goto(t, "arm") \/ Goto(t, "commit"))
  BY DEF PlaceMint, PlaceArm, PlaceSteps
<1>3. task'[t].at \in PlaceSteps /\ task'[t].id = task[t].id
  BY <1>1, <1>2 DEF Goto, TaskState, PlaceSteps
<1>4. QED
  BY <1>2, <1>3 DEF GoesOn, Placing

\* A closing verb works on a checkout that has its session, and so its order.
LEMMA ClosersHaveSessions ==
  ASSUME IInv, NEW t \in Tasks, ConfirmsOrCancels(t) \/ Stamps(t)
  PROVE  /\ task[t].id \in Ids
         /\ session[task[t].id].state # "none" /\ order[task[t].id].status # "none"
<1>1. Closing(t)
  BY DEF ConfirmsOrCancels, Stamps, ConsumeConfirm, PickupConfirm, CancelOrder, ConsumeStamp,
     PickupStamp, CancelSession, Closing, Steps, PlaceSteps
<1>2. task[t].id \in Ids /\ session[task[t].id].state # "none"
  BY <1>1 DEF IInv, CloseOK
<1>3. QED
  BY <1>2 DEF IInv, OrderOK

-----------------------------------------------------------------------------
(* What a step does to the rows of one checkout. *)

\* An order moves under the place that mints and arms it, which goes on, or
\* once it has its session.
LEMMA OrderMoves ==
  ASSUME IInv, [Next]_vars, NEW i \in Ids, order'[i] # order[i]
  PROVE  session[i].state # "none" \/ \E t \in Tasks : GoesOn(t) /\ task[t].id = i
<1>0. TypeOK /\ order \in [Ids -> OrderRow]
  BY DEF IInv, TypeOK
<1>1. PICK t \in Tasks : \/ \E total \in Amounts : PlaceMint(t, total)
                         \/ PlaceArm(t) \/ ConfirmsOrCancels(t)
  BY WhoWrites
<1>2. CASE \E total \in Amounts : PlaceMint(t, total)
  <2>1. task[t].id = i
    BY <1>0, <1>2 DEF PlaceMint
  <2>2. QED
    BY <1>2, <2>1, PlaceGoesOn
<1>3. CASE PlaceArm(t)
  <2>1. Confirm(task[t].id, "place") \/ order' = order
    BY <1>3 DEF PlaceArm
  <2>2. task[t].id = i
    BY <1>0, <2>1 DEF Confirm
  <2>3. QED
    BY <1>3, <2>2, PlaceGoesOn
<1>4. CASE ConfirmsOrCancels(t)
  <2>1. \/ \E who \in Confirmers : Confirm(task[t].id, who)
        \/ order' = [order EXCEPT ![task[t].id].status = "cancelled"]
    BY <1>4 DEF ConfirmsOrCancels, ConsumeConfirm, PickupConfirm, CancelOrder, Confirmers
  <2>2. task[t].id = i
    BY <1>0, <2>1 DEF Confirm
  <2>3. QED
    BY <1>4, <2>2, ClosersHaveSessions
<1>5. QED
  BY <1>1, <1>2, <1>3, <1>4

\* So does the gateway's row: the provider settles only a placed checkout.
LEMMA GatewayMoves ==
  ASSUME IInv, [Next]_vars, NEW i \in Ids, gateway'[i] # gateway[i]
  PROVE  session[i].state # "none" \/ \E t \in Tasks : GoesOn(t) /\ task[t].id = i
<1>0. gateway \in [Ids -> GatewayRow]
  BY DEF IInv, TypeOK
<1>1. CASE \E t \in Tasks : PlaceArm(t)
  <2>1. PICK t \in Tasks : PlaceArm(t)
    BY <1>1
  <2>2. \/ gateway' = gateway
        \/ \E r : gateway' = [gateway EXCEPT ![task[t].id] = r]
    BY <2>1 DEF PlaceArm
  <2>3. task[t].id = i
    BY <1>0, <2>2
  <2>4. QED
    BY <2>1, <2>3, PlaceGoesOn
<1>2. ASSUME NEW j \in Ids, GatewaySettle(j) PROVE session[i].state # "none"
  BY <1>0, <1>2 DEF GatewaySettle
<1>3. QED
  BY <1>1, <1>2, WhoWrites

\* A session comes of the place that holds its id, and is never taken back.
LEMMA SessionMoves ==
  ASSUME IInv, [Next]_vars, NEW i \in Ids, session'[i] # session[i]
  PROVE  /\ session'[i].state # "none"
         /\ session[i].state # "none" \/ \E t \in Tasks : Placing(t) /\ task[t].id = i
<1>0. TypeOK /\ session \in [Ids -> SessionRow] /\ session[i] \in SessionRow
  BY DEF IInv, TypeOK
<1>1. PICK t \in Tasks : PlaceCommit(t) \/ Stamps(t)
  BY WhoWrites
<1>2. CASE PlaceCommit(t)
  <2>. DEFINE arm == Arm(task[t].lane, order[task[t].id].total)
  <2>1. arm # "none"
    BY DEF Arm
  <2>2. \E r : r.state = arm /\ session' = [session EXCEPT ![task[t].id] = r]
    BY <1>2 DEF PlaceCommit
  <2>. HIDE DEF arm
  <2>3. task[t].id = i /\ session'[i].state = arm
    BY <1>0, <2>2
  <2>4. Placing(t)
    BY <1>2 DEF PlaceCommit, Placing, PlaceSteps
  <2>5. QED
    BY <2>1, <2>3, <2>4
<1>3. CASE Stamps(t)
  <2>1. \E s \in {"settled", "cancelled"} :
          session' = [session EXCEPT ![task[t].id].state = s]
    BY <1>1, <1>3 DEF Stamps, ConsumeStamp, PickupStamp, StampSettled, CancelSession
  <2>2. task[t].id = i /\ session'[i].state \in {"settled", "cancelled"}
    BY <1>0, <2>1 DEF SessionRow
  <2>3. QED
    BY <1>3, <2>2, ClosersHaveSessions
<1>4. QED
  BY <1>1, <1>2, <1>3

-----------------------------------------------------------------------------
(* What a step does to the handlers that place. *)

\* A request moves its idle handler alone; a place begins with a fresh id.
LEMMA RequestsMove ==
  ASSUME IInv, NEW t \in Tasks, Request(t), NEW u \in Tasks, task'[u] # task[u]
  PROVE  /\ u = t /\ task[t].at = "idle"
         /\ Placing(t)' => task'[t].id \in Ids /\ Fresh(task'[t].id)
<1>0. task \in [Tasks -> TaskState] /\ task[t] \in TaskState
  BY DEF IInv, TypeOK
<1>1. ASSUME NEW c \in Carts, NEW i \in Ids, NEW lane \in Lanes,
             NEW billing \in Parties \cup {None}, PlaceLock(t, c, i, lane, billing)
      PROVE  u = t /\ task[t].at = "idle" /\ task'[t].id = i /\ Fresh(i)
  <2>1. /\ task[t].at = "idle" /\ Fresh(i)
        /\ \E r : r.id = i /\ task' = [task EXCEPT ![t] = r]
    BY <1>1 DEF PlaceLock
  <2>2. QED
    BY <1>0, <2>1
<1>2. ASSUME NEW i \in Ids, NEW step \in Steps \ PlaceSteps, Begin(t, i, step)
      PROVE  u = t /\ task[t].at = "idle" /\ ~Placing(t)'
  BY <1>0, <1>2 DEF Begin, Placing, TaskState
<1>3. ASSUME NEW i \in Ids, ConsumeRead(t, i) \/ PickupRead(t, i) \/ CancelRead(t, i)
      PROVE  \E step \in Steps \ PlaceSteps : Begin(t, i, step)
  BY <1>3 DEF ConsumeRead, PickupRead, CancelRead, ConsumeFirst, CancelFirst, Steps, PlaceSteps
<1>4. QED
  <2>1. CASE \E c \in Carts, i \in Ids, lane \in Lanes, billing \in Parties \cup {None} :
               PlaceLock(t, c, i, lane, billing)
    BY <1>1, <2>1
  <2>2. CASE \E i \in Ids : ConsumeRead(t, i) \/ PickupRead(t, i) \/ CancelRead(t, i)
    BY <1>2, <1>3, <2>2
  <2>3. QED
    BY <2>1, <2>2 DEF Request

\* A handler's own steps move it alone, to another step of what it does or to rest.
LEMMA WorkMoves ==
  ASSUME IInv, NEW t \in Tasks, Work(t) \/ Fail(t), NEW u \in Tasks, task'[u] # task[u]
  PROVE  /\ u = t /\ task[t].at # "idle"
         /\ \/ GoesOn(t)
            \/ ~Placing(t)' /\ (Placing(t) => PlaceCommit(t) \/ Fail(t))
<1>0. task \in [Tasks -> TaskState] /\ task[t] \in TaskState
  BY DEF IInv, TypeOK
<1>1. ASSUME Finish(t) PROVE u = t /\ ~Placing(t)'
  BY <1>0, <1>1 DEF Finish, Idle, Placing, PlaceSteps
<1>2. ASSUME NEW step \in Steps, Goto(t, step)
      PROVE  u = t /\ task'[t].at = step
  BY <1>0, <1>2 DEF Goto, TaskState
<1>3. CASE (\E total \in Amounts : PlaceMint(t, total)) \/ PlaceArm(t)
  <2>1. \E step \in {"arm", "commit"} : Goto(t, step)
    BY <1>3 DEF PlaceMint, PlaceArm
  <2>2. task[t].at # "idle"
    BY <1>3 DEF PlaceMint, PlaceArm
  <2>3. QED
    BY <1>2, <1>3, <2>1, <2>2, PlaceGoesOn DEF Steps, PlaceSteps
<1>4. CASE PlaceCommit(t) \/ Fail(t)
  BY <1>1, <1>4 DEF PlaceCommit, Fail
<1>5. CASE ConsumeConfirm(t) \/ PickupConfirm(t) \/ CancelOrder(t) \/ CancelSession(t)
  <2>1. \E step \in {"settle_stamp", "pickup_stamp", "cancel_session", "cancel_cart"} : Goto(t, step)
    BY <1>5 DEF ConsumeConfirm, PickupConfirm, CancelOrder, CancelSession
  <2>2. task[t].at \in {"settle_confirm", "pickup_confirm", "cancel_order", "cancel_session"}
    BY <1>5 DEF ConsumeConfirm, PickupConfirm, CancelOrder, CancelSession
  <2>3. QED
    BY <1>2, <2>1, <2>2 DEF Steps, PlaceSteps, Placing
<1>6. CASE ConsumeStamp(t) \/ PickupStamp(t) \/ CancelRefused(t) \/ CancelCart(t)
  <2>1. Finish(t) /\ task[t].at \in {"settle_stamp", "pickup_stamp", "cancel_order", "cancel_cart"}
    BY <1>6 DEF ConsumeStamp, PickupStamp, CancelRefused, CancelCart
  <2>2. QED
    BY <1>1, <2>1 DEF Placing, PlaceSteps
<1>7. QED
  BY <1>3, <1>4, <1>5, <1>6 DEF Work

\* A place ends by its commit or by a failure.
LEMMA PlacesEnd ==
  ASSUME IInv, [Next]_vars, NEW t \in Tasks, Placing(t), ~GoesOn(t)
  PROVE  PlaceCommit(t) \/ Fail(t)
<1>1. task'[t] # task[t]
  BY DEF GoesOn, Placing
<1>2. PICK u \in Tasks : Request(u) \/ Work(u) \/ Fail(u)
  <2>1. ASSUME NEW c \in Carts, LockedVerb(c) PROVE task' = task
    BY <2>1 DEF LockedVerb, SetDelivery, SetPickup, ResetFulfillment, CaptureBilling, StampCart
  <2>2. QED
    BY <1>1, <2>1 DEF Next, vars, GatewaySettle
<1>3. ~Request(u)
  BY <1>1, RequestsMove DEF Placing, PlaceSteps
<1>4. QED
  BY <1>1, <1>2, <1>3, WorkMoves

\* A place begins with an id that names no order yet.
LEMMA PlacesBegin ==
  ASSUME IInv, [Next]_vars, NEW t \in Tasks, Placing(t)', ~GoesOn(t)
  PROVE  order[task'[t].id].status = "none"
<1>1. task'[t] # task[t]
  BY DEF GoesOn, Placing
<1>2. PICK u \in Tasks : Request(u) \/ Work(u) \/ Fail(u)
  <2>1. ASSUME NEW c \in Carts, LockedVerb(c) PROVE task' = task
    BY <2>1 DEF LockedVerb, SetDelivery, SetPickup, ResetFulfillment, CaptureBilling, StampCart
  <2>2. QED
    BY <1>1, <2>1 DEF Next, vars, GatewaySettle
<1>3. Request(u)
  BY <1>1, <1>2, WorkMoves
<1>4. QED
  BY <1>1, <1>3, RequestsMove DEF Fresh

-----------------------------------------------------------------------------
(* Orphans. *)

\* Nothing touches an orphan: no place takes its id, no closing verb or payment finds it.
LEMMA OrphanStays ==
  ASSUME IInv, [Next]_vars, NEW i \in Ids, Orphan(i)
  PROVE  Orphan(i)' /\ order'[i] = order[i] /\ gateway'[i] = gateway[i]
<1>1. session[i].state = "none" /\ ~\E t \in Tasks : Placing(t) /\ task[t].id = i
  BY DEF Orphan
<1>2. order'[i] = order[i] /\ gateway'[i] = gateway[i] /\ session'[i] = session[i]
  BY <1>1, OrderMoves, GatewayMoves, SessionMoves DEF GoesOn
<1>3. ASSUME NEW t \in Tasks, Placing(t)' PROVE task'[t].id # i
  BY <1>1, <1>3, PlacesBegin DEF GoesOn, Orphan
<1>4. QED
  BY <1>2, <1>3 DEF Orphan

\* An order is orphaned by the failure of the place that minted it.
LEMMA OrphanComes ==
  ASSUME IInv, [Next]_vars, NEW i \in Ids, Orphan(i)', ~Orphan(i)
  PROVE  \E t \in Tasks : Fail(t) /\ task[t].id = i
<1>1. session'[i] = session[i]
  BY SessionMoves DEF Orphan
<1>2. \A t \in Tasks : task[t].id = i => ~GoesOn(t)
  BY DEF Orphan, GoesOn
<1>3. order[i].status # "none"
  BY <1>1, <1>2, OrderMoves DEF Orphan
<1>4. PICK t \in Tasks : Placing(t) /\ task[t].id = i
  BY <1>1, <1>3 DEF Orphan
<1>5. ~PlaceCommit(t)
  <2>. DEFINE arm == Arm(task[t].lane, order[i].total)
  <2>1. arm # "none"
    BY DEF Arm
  <2>2. PlaceCommit(t) => \E r : r.state = arm /\ session' = [session EXCEPT ![i] = r]
    BY <1>4 DEF PlaceCommit
  <2>. HIDE DEF arm
  <2>3. PlaceCommit(t) => session'[i].state # "none"
    BY <2>1, <2>2 DEF IInv, TypeOK
  <2>4. QED
    BY <2>3 DEF Orphan
<1>6. QED
  BY <1>2, <1>4, <1>5, PlacesEnd

\* One failure ends one handler.
LEMMA OneFails ==
  ASSUME IInv, NEW t \in Tasks, NEW u \in Tasks, Fail(t), Fail(u)
  PROVE  t = u
<1>1. task \in [Tasks -> TaskState] /\ Idle.at = "idle"
  BY DEF IInv, TypeOK, Idle
<1>2. QED
  BY <1>1 DEF Fail, Finish

LEMMA OrphansCountedStep == IInv /\ OrphansCounted /\ [Next]_vars => OrphansCounted'
<1> SUFFICES ASSUME IInv, OrphansCounted, [Next]_vars PROVE OrphansCounted'
  OBVIOUS
<1>1. faults \in Nat /\ IsFiniteSet(Orphans) /\ Cardinality(Orphans) <= faults
  BY ConstantsAssumption DEF IInv, TypeOK, OrphansCounted
<1>2. Cardinality(Orphans) \in Nat
  BY <1>1, FS_CardinalityType
<1>3. CASE \E t \in Tasks : Fail(t)
  <2>1. PICK t \in Tasks : Fail(t)
    BY <1>3
  <2>2. PICK i : i = task[t].id
    OBVIOUS
  <2>3. Orphans' \subseteq Orphans \cup {i}
    <3>1. ASSUME NEW j \in Ids, Orphan(j)', ~Orphan(j) PROVE j = i
      BY <2>1, <2>2, <3>1, OrphanComes, OneFails
    <3>2. QED
      BY <3>1 DEF Orphans
  <2>4. /\ IsFiniteSet(Orphans \cup {i})
        /\ Cardinality(Orphans \cup {i}) =
             IF i \in Orphans THEN Cardinality(Orphans) ELSE Cardinality(Orphans) + 1
    BY <1>1, FS_AddElement
  <2>5. /\ IsFiniteSet(Orphans')
        /\ Cardinality(Orphans') <= Cardinality(Orphans \cup {i})
    BY <2>3, <2>4, FS_Subset
  <2>6. Cardinality(Orphans') \in Nat
    BY <2>5, FS_CardinalityType
  <2>7. faults' = faults + 1
    BY <2>1 DEF Fail
  <2>8. QED
    BY <1>1, <1>2, <2>4, <2>5, <2>6, <2>7 DEF OrphansCounted
<1>4. CASE ~\E t \in Tasks : Fail(t)
  <2>1. Orphans' \subseteq Orphans
    BY <1>4, OrphanComes DEF Orphans
  <2>2. IsFiniteSet(Orphans') /\ Cardinality(Orphans') <= Cardinality(Orphans)
    BY <1>1, <2>1, FS_Subset
  <2>3. Cardinality(Orphans') \in Nat
    BY <2>2, FS_CardinalityType
  <2>4. faults' = faults
    BY <1>4, WhoWrites
  <2>5. QED
    BY <1>1, <1>2, <2>2, <2>3, <2>4 DEF OrphansCounted
<1>5. QED
  BY <1>3, <1>4

\* The mint of a failed place is all it leaves: there are never more orders
\* without a session and a running place than failures.
THEOREM OneOrphanPerFailure == Spec => []OrphansCounted
<1>1. Init => OrphansCounted
  <2>1. SUFFICES ASSUME Init PROVE OrphansCounted
    OBVIOUS
  <2>2. Orphans = {} /\ faults = 0
    BY <2>1 DEF Init, Orphans, Orphan, NoOrder
  <2>3. QED
    BY <2>2, FS_EmptySet DEF OrphansCounted
<1>2. QED
  BY <1>1, OrphansCountedStep, Invariance, PTL DEF Spec

\* Place is one database transaction, as long as none has failed.
THEOREM MintsAreAtomicUnlessFailed == Spec => [](faults = 0 => MintIsAtomic)
<1>1. ASSUME IInv, OrphansCounted, faults = 0 PROVE MintIsAtomic
  <2>1. Orphans = {}
    <3>1. IsFiniteSet(Orphans) /\ Cardinality(Orphans) <= 0
      BY <1>1 DEF OrphansCounted
    <3>2. Cardinality(Orphans) \in Nat /\ (Cardinality(Orphans) = 0 <=> Orphans = {})
      BY <3>1, FS_CardinalityType, FS_EmptySet
    <3>3. QED
      BY <3>1, <3>2
  <2>2. QED
    BY <2>1 DEF Orphans, Orphan, MintIsAtomic
<1>2. IInv /\ OrphansCounted => (faults = 0 => MintIsAtomic)
  BY <1>1
<1>3. QED
  BY <1>2, Invariance, OneOrphanPerFailure, PTL

\* An orphaned order is never confirmed, cancelled, paid or placed any more.
THEOREM OrphansAreInert == Spec => [][OrphansStay]_vars
<1>1. IInv /\ [Next]_vars => [OrphansStay]_vars
  BY OrphanStays DEF OrphansStay, Orphans
<1>2. QED
  BY <1>1, Invariance, PTL DEF Spec

-----------------------------------------------------------------------------
(* The party an order is priced for. *)

\* Only the mint writes it, and the party the order is sold to.
LEMMA PartiesAreMinted ==
  ASSUME IInv, [Next]_vars, NEW i \in Ids, ~\E t \in Tasks, total \in Amounts : PlaceMint(t, total)
  PROVE  /\ order'[i].party = order[i].party /\ order'[i].pricedFor = order[i].pricedFor
         /\ order'[i].status # "none" => order[i].status # "none"
<1>0. TypeOK /\ order \in [Ids -> OrderRow] /\ order[i] \in OrderRow
  BY DEF IInv, TypeOK
<1>1. ASSUME NEW j \in Ids, NEW who, Confirm(j, who)
      PROVE  /\ order'[i].party = order[i].party /\ order'[i].pricedFor = order[i].pricedFor
             /\ order'[i].status # "none" => order[i].status # "none"
  BY <1>0, <1>1 DEF Confirm, OrderRow
<1>2. CASE order' = order
  BY <1>2
<1>3. ASSUME NEW t \in Tasks, PlaceArm(t) PROVE task[t].id \in Ids /\ (order' = order \/ Confirm(task[t].id, "place"))
  BY <1>3 DEF PlaceArm, IInv, PlaceOK, Placing, PlaceSteps, HoldsCart
<1>4. ASSUME NEW t \in Tasks, ConfirmsOrCancels(t)
      PROVE  /\ order'[i].party = order[i].party /\ order'[i].pricedFor = order[i].pricedFor
             /\ order'[i].status # "none" => order[i].status # "none"
  <2>1. task[t].id \in Ids /\ order[task[t].id].status # "none"
    BY <1>4, ClosersHaveSessions
  <2>2. CASE CancelOrder(t)
    BY <1>0, <2>1, <2>2 DEF CancelOrder, OrderRow
  <2>3. CASE ConsumeConfirm(t) \/ PickupConfirm(t)
    BY <1>1, <2>1, <2>3 DEF ConsumeConfirm, PickupConfirm
  <2>4. QED
    BY <1>4, <2>2, <2>3 DEF ConfirmsOrCancels
<1>5. QED
  BY <1>1, <1>2, <1>3, <1>4, WhoWrites

LEMMA OrdersPricedStep ==
  ASSUME IInv, OrdersPriced, PlacesForItsParty, [Next]_vars
  PROVE  OrdersPriced'
<1>1. ASSUME NEW t \in Tasks, NEW total \in Amounts, PlaceMint(t, total) PROVE OrdersPriced'
  <2>1. task[t].row.party = cart[task[t].cart].party
    BY <1>1 DEF PlacesForItsParty, Placing, PlaceSteps, PlaceMint
  <2>2. \E r : /\ r.party = task[t].row.party /\ r.pricedFor = cart[task[t].cart].party
               /\ order' = [order EXCEPT ![task[t].id] = r]
    BY <1>1 DEF PlaceMint
  <2>3. QED
    BY <2>1, <2>2 DEF OrdersPriced, IInv, TypeOK
<1>2. QED
  BY <1>1, PartiesAreMinted DEF OrdersPriced

\* A placed order is priced for the party it is sold to, as long as no express
\* body names another party than the one its cart already has.
THEOREM PlainPlacesArePriced == Spec /\ []PlacesForItsParty => []PricedForBuyer
<1>1. Init => OrdersPriced
  BY DEF Init, OrdersPriced, NoOrder
<1>2. IInv /\ OrdersPriced => PricedForBuyer
  BY DEF OrdersPriced, PricedForBuyer, IInv, OrderOK
<1>3. IInv /\ OrdersPriced /\ PlacesForItsParty /\ [Next]_vars => OrdersPriced'
  BY OrdersPricedStep
<1>4. QED
  BY <1>1, <1>2, <1>3, Invariance, PTL DEF Spec
=============================================================================
