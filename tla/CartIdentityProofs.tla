-------------------------- MODULE CartIdentityProofs --------------------------
(***************************************************************************)
(* Proofs about CartIdentity, for every value of its constants.  IdInv is  *)
(* inductive: the steps that only read are taken together, those that      *)
(* write a cart one by one.  The action properties and the refinement of   *)
(* OpenCarts follow from IdInv and a look at each step.                    *)
(***************************************************************************)
EXTENDS CartIdentity, TLAPS

\* A handler that is done, or moves on, is still a handler.
LEMMA TaskTypes ==
  ASSUME IdTypeOK, NEW t \in Tasks, NEW step \in Steps, Goto(t, step) \/ Finish(t)
  PROVE  task' \in [Tasks -> TaskState]
BY DEF IdTypeOK, Goto, Finish, Idle, TaskState, Nobody, Identity

\* While a cart that exists keeps its link once it has one, and its history
\* only grows, what a handler that did not move read of it stands.
LEMMA OthersStand ==
  ASSUME IdInv,
         \A c \in Carts : Exists(c) =>
           /\ Exists(c)' /\ past[c] \subseteq past'[c]
           /\ cart[c].principal # None => cart'[c].principal = cart[c].principal,
         NEW u \in Tasks, task'[u] = task[u]
  PROVE  ReadingStands(u)'
<1>1. ReadingStands(u)
  BY DEF IdInv
<1>2. Linked(u) => Linked(u)'
  BY DEF Linked
<1>3. QED
  BY <1>1, <1>2 DEF ReadingStands

\* A handler that is done has read nothing that must stand.
LEMMA FinishedStands ==
  ASSUME IdTypeOK, NEW t \in Tasks, Finish(t)
  PROVE  ReadingStands(t)' /\ \A u \in Tasks \ {t} : task'[u] = task[u]
BY DEF IdTypeOK, Finish, Idle, ReadingStands, MoveSteps

\* The steps that write no cart preserve the invariant, if what they read stands.
LEMMA ReadingStep ==
  ASSUME IdInv, NEW t \in Tasks, Reading, task' \in [Tasks -> TaskState],
         \A u \in Tasks \ {t} : task'[u] = task[u], ReadingStands(t)'
  PROVE  IdInv'
<1>1. IdTypeOK' /\ RowsComplete' /\ OneOpenCart' /\ OffSiteOnlyLinked'
  BY DEF IdInv, IdTypeOK, RowsComplete, Exists, OneOpenCart, Open, OffSiteOnlyLinked, Reading
<1>2. \A u \in Tasks \ {t} : ReadingStands(u)'
  BY OthersStand DEF Reading, Exists
<1>3. QED
  BY <1>1, <1>2 DEF IdInv

\* Every request, and every step that only reads, preserves the invariant.
LEMMA ReadStep ==
  ASSUME IdInv, IdentityAssumption, NEW t \in Tasks,
         \/ Request(t) \/ CreateRead(t) \/ AdoptTarget(t) \/ RecoverTarget(t) \/ MoveFree(t)
         \/ OwnVisitor(t) \/ OwnPrincipal(t) \/ Drop(t)
  PROVE  IdInv'
<1>0. IdTypeOK /\ ReadingStands(t)
  BY DEF IdInv
<1>1. ASSUME NEW step \in Steps, NEW who \in Identity, NEW c \in Carts \cup {None},
             Begin(t, step, who, c),
             step \in {"adopt_target", "recover_target"} => who.visitor # None /\ c \in Carts,
             step = "create_insert" => who.visitor # None,
             step = "adopt_target" => who.principal # None,
             step \in {"create_insert", "adopt_target", "recover_target", "own_visitor"}
      PROVE  IdInv'
  <2>1. /\ task' \in [Tasks -> TaskState] /\ Reading
        /\ \A u \in Tasks \ {t} : task'[u] = task[u]
    BY <1>0, <1>1 DEF Begin, Reading, IdTypeOK, TaskState
  <2>2. task'[t] = [at |-> step, who |-> who, cart |-> c]
    BY <1>0, <1>1 DEF Begin, IdTypeOK
  <2>3. ReadingStands(t)'
    BY <1>1, <2>2 DEF ReadingStands, MoveSteps
  <2>4. QED
    BY <2>1, <2>3, ReadingStep
<1>2. CASE Request(t)
  <2>. PICK who \in Identity :
         \/ CreateRequest(t, who) \/ OwnRequest(t, who)
         \/ \E c \in Carts : AdoptRequest(t, who, c) \/ RecoverRequest(t, who, c)
    BY <1>2 DEF Request
  <2>1. CASE CreateRequest(t, who) \/ OwnRequest(t, who)
    BY <2>1, <1>1 DEF CreateRequest, OwnRequest, Steps
  <2>2. ASSUME NEW c \in Carts, AdoptRequest(t, who, c) \/ RecoverRequest(t, who, c)
        PROVE  IdInv'
    BY <2>2, <1>1 DEF AdoptRequest, RecoverRequest, Steps, MoveSteps
  <2>3. QED
    BY <2>1, <2>2
<1>3. ASSUME Finish(t), Reading PROVE IdInv'
  BY <1>0, <1>3, FinishedStands, TaskTypes, ReadingStep DEF Steps
<1>4. ASSUME NEW step \in Steps, Goto(t, step), Reading,
             step \in {"adopt_free", "adopt_move", "recover_free", "recover_move"} =>
               Linked(t) /\ task[t].at \in MoveSteps,
             step \notin {"create_insert", "adopt_target", "recover_target", "act"}
      PROVE  IdInv'
  <2>1. task' \in [Tasks -> TaskState]
    BY <1>0, <1>4, TaskTypes
  <2>2. /\ \A u \in Tasks \ {t} : task'[u] = task[u]
        /\ task'[t].at = step /\ task'[t].who = task[t].who /\ task'[t].cart = task[t].cart
    BY <1>0, <1>4 DEF Goto, IdTypeOK, TaskState
  <2>3. Linked(t) => Linked(t)'
    BY <1>4, <2>2 DEF Linked, Exists, Reading
  <2>4. ReadingStands(t)'
    BY <1>0, <1>4, <2>2, <2>3 DEF ReadingStands, MoveSteps
  <2>5. QED
    BY <1>4, <2>1, <2>2, <2>4, ReadingStep
<1>5. CASE CreateRead(t) \/ Drop(t)
  BY <1>3, <1>5 DEF CreateRead, Drop
<1>6. CASE AdoptTarget(t) \/ RecoverTarget(t)
  <2>1. CASE task[t].at = "adopt_target" /\ Adoptable(task[t].who, cart[task[t].cart])
             /\ Goto(t, "adopt_free") /\ Reading
    <3>1. Linked(t)
      BY <1>0, <2>1 DEF ReadingStands, MoveSteps, Adoptable, Linked, Exists
    <3>2. QED
      BY <1>4, <2>1, <3>1 DEF Steps, MoveSteps
  <2>2. CASE /\ task[t].at = "recover_target" /\ Goto(t, "recover_free") /\ Reading
             /\ Owned(task[t].who, cart[task[t].cart]) /\ cart[task[t].cart].state = "open"
             /\ cart[task[t].cart].visitor # task[t].who.visitor
    <3>1. Linked(t)
      BY <1>0, <2>2 DEF ReadingStands, MoveSteps, Owned, Linked, Exists
    <3>2. QED
      BY <1>4, <2>2, <3>1 DEF Steps, MoveSteps
  <2>3. CASE Finish(t) /\ Reading
    BY <1>3, <2>3
  <2>4. QED
    BY <1>6, <2>1, <2>2, <2>3 DEF AdoptTarget, RecoverTarget
<1>7. CASE MoveFree(t)
  <2>1. CASE task[t].at \in {"adopt_free", "recover_free"} /\ Reading
             /\ \E step \in {"adopt_move", "recover_move"} : Goto(t, step)
    <3>1. Linked(t)
      BY <1>0, <2>1 DEF ReadingStands
    <3>2. QED
      BY <1>4, <2>1, <3>1 DEF Steps, MoveSteps
  <2>2. CASE Finish(t) /\ Reading
    BY <1>3, <2>2
  <2>3. QED
    BY <1>7, <2>1, <2>2 DEF MoveFree
<1>8. ASSUME NEW c \in Carts, Found(t, c), Reading, Open(c),
             \/ task[t].who.visitor # None /\ cart[c].visitor = task[t].who.visitor
             \/ task[t].who.principal # None /\ cart[c].principal = task[t].who.principal
      PROVE  IdInv'
  <2>. DEFINE new == [task[t] EXCEPT !.at = "act", !.cart = c]
  <2>0. new \in TaskState /\ new.at = "act" /\ new.who = task[t].who /\ new.cart = c
    <3>1. task[t] \in TaskState
      BY <1>0 DEF IdTypeOK
    <3>2. "act" \in Steps \cup {"idle"} /\ c \in Carts \cup {None}
      BY DEF Steps
    <3>3. QED
      BY <3>1, <3>2 DEF TaskState
  <2>1. /\ task' \in [Tasks -> TaskState]
        /\ \A u \in Tasks \ {t} : task'[u] = task[u]
        /\ task'[t].at = "act" /\ task'[t].who = task[t].who /\ task'[t].cart = c
    <3>1. task' = [task EXCEPT ![t] = new]
      BY <1>0, <1>8 DEF Found, IdTypeOK
    <3>2. QED
      BY <1>0, <2>0, <3>1 DEF IdTypeOK
  <2>2. cart' = cart /\ past' = past /\ Exists(c) /\ cart[c].visitor \in past[c]
    BY <1>8 DEF Reading, Open, Exists, IdInv, RowsComplete
  <2>3. ReadingStands(t)'
    BY <1>8, <2>1, <2>2 DEF ReadingStands, MoveSteps, Linked, Exists
  <2>4. QED
    BY <1>8, <2>1, <2>3, ReadingStep
<1>9. CASE OwnVisitor(t) \/ OwnPrincipal(t)
  BY <1>3, <1>4, <1>8, <1>9 DEF OwnVisitor, OwnPrincipal, OpenOf, OpenLinked, Steps
<1>10. QED
  BY <1>2, <1>5, <1>6, <1>7, <1>9

\* The first steps of an adopt or recover end with a handler linked to a cart
\* that is open: the move rebinds it, or leaves everything as it was.
LEMMA MoveStep ==
  ASSUME IdInv, IdentityAssumption, NEW t \in Tasks, AdoptMove(t) \/ RecoverMove(t)
  PROVE  /\ Finish(t)
         /\ \/ UNCHANGED <<cart, past>>
            \/ \E c \in Carts, v \in Visitors :
                 /\ c = task[t].cart /\ v = task[t].who.visitor
                 /\ Linked(t) /\ Open(c) /\ IndexAllows(c, v)
                 /\ cart' = [cart EXCEPT ![c].visitor = v]
                 /\ past' = [past EXCEPT ![c] = @ \cup {v}]
<1>0. IdTypeOK /\ ReadingStands(t)
  BY DEF IdInv
<1>. DEFINE c == task[t].cart
            v == task[t].who.visitor
            row == [cart[c] EXCEPT !.visitor = v, !.principal = task[t].who.principal]
<1>1. c \in Carts /\ v \in Visitors /\ Linked(t)
  BY <1>0 DEF AdoptMove, RecoverMove, ReadingStands, MoveSteps, IdTypeOK, TaskState, Identity
<1>2. row = [cart[c] EXCEPT !.visitor = v] /\ row.visitor = v
  <2>1. cart[c] \in CartRow /\ cart[c].principal = task[t].who.principal
    BY <1>0, <1>1 DEF IdTypeOK, Linked
  <2>2. QED
    BY <2>1 DEF CartRow
<1>3. Rebind(t, c, row) \/ Rebind(t, c, [cart[c] EXCEPT !.visitor = v])
  BY DEF AdoptMove, RecoverMove
<1>4. Rebind(t, c, row)
  BY <1>2, <1>3
<1>5. CASE Moves(c, v) /\ IndexAllows(c, v)
  <2>1. cart' = [cart EXCEPT ![c].visitor = v] /\ past' = [past EXCEPT ![c] = @ \cup {v}]
    BY <1>2, <1>4, <1>5 DEF Rebind
  <2>2. QED
    BY <1>1, <1>4, <1>5, <2>1 DEF Rebind, Moves
<1>6. CASE ~(Moves(c, v) /\ IndexAllows(c, v))
  BY <1>2, <1>4, <1>6 DEF Rebind
<1>7. QED
  BY <1>5, <1>6

\* create_cart preserves the invariant: the index keeps the visitor's open
\* carts to one, on the website the visitor belongs to.
LEMMA CreateStep ==
  ASSUME IdInv, IdentityAssumption, NEW t \in Tasks, CreateInsert(t)
  PROVE  IdInv'
<1>. DEFINE v == task[t].who.visitor
<1>0. IdTypeOK /\ ReadingStands(t) /\ Goto(t, "create_read")
  BY DEF IdInv, CreateInsert
<1>1. v \in Visitors
  BY <1>0 DEF CreateInsert, ReadingStands, IdTypeOK, TaskState, Identity
<1>2. /\ task' \in [Tasks -> TaskState] /\ ReadingStands(t)'
      /\ \A u \in Tasks \ {t} : task'[u] = task[u]
  <2>1. task' \in [Tasks -> TaskState]
    BY <1>0, TaskTypes DEF Steps
  <2>2. task'[t].at = "create_read" /\ \A u \in Tasks \ {t} : task'[u] = task[u]
    BY <1>0 DEF Goto, IdTypeOK, TaskState
  <2>3. QED
    BY <2>1, <2>2 DEF ReadingStands, MoveSteps
<1>3. ASSUME NEW c \in Carts, OpenOf(v) = {}, cart[c].state = "none",
             cart' = [cart EXCEPT ![c] = NewCart(v)], past' = [past EXCEPT ![c] = {v}]
      PROVE  IdInv'
  <2>1. NewCart(v) = [state |-> "open", site |-> SiteOf[v], visitor |-> v, principal |-> None]
    BY DEF NewCart
  <2>2. SiteOf[v] \in Sites
    BY <1>1 DEF IdentityAssumption
  <2>3. IdTypeOK'
    BY <1>0, <1>1, <1>2, <1>3, <2>1, <2>2 DEF IdTypeOK, CartRow
  <2>4. cart'[c] = NewCart(v) /\ past'[c] = {v}
        /\ \A d \in Carts \ {c} : cart'[d] = cart[d] /\ past'[d] = past[d]
    BY <1>0, <1>3 DEF IdTypeOK
  <2>5. RowsComplete' /\ OffSiteOnlyLinked'
    BY <1>1, <2>1, <2>2, <2>4 DEF IdInv, RowsComplete, OffSiteOnlyLinked, Exists
  <2>6. OneOpenCart'
    BY <1>3, <2>1, <2>4 DEF IdInv, OneOpenCart, OpenOf, Open
  <2>7. \A u \in Tasks \ {t} : ReadingStands(u)'
    BY <1>2, <1>3, <2>4, OthersStand DEF Exists
  <2>8. QED
    BY <1>2, <2>3, <2>5, <2>6, <2>7 DEF IdInv
<1>4. CASE UNCHANGED <<cart, past>>
  BY <1>2, <1>4, ReadingStep DEF Reading
<1>5. QED
  BY <1>3, <1>4 DEF CreateInsert

\* adopt and recover preserve the invariant: the cart they move is linked, and
\* the index lets it go to no visitor that has another.
LEMMA RebindStep ==
  ASSUME IdInv, IdentityAssumption, NEW t \in Tasks, AdoptMove(t) \/ RecoverMove(t)
  PROVE  IdInv'
<1>0. IdTypeOK /\ Finish(t)
  BY MoveStep DEF IdInv
<1>1. /\ task' \in [Tasks -> TaskState] /\ ReadingStands(t)'
      /\ \A u \in Tasks \ {t} : task'[u] = task[u]
  BY <1>0, TaskTypes, FinishedStands DEF Steps
<1>2. ASSUME NEW c \in Carts, NEW v \in Visitors, Open(c), IndexAllows(c, v),
             cart[c].principal # None,
             cart' = [cart EXCEPT ![c].visitor = v], past' = [past EXCEPT ![c] = @ \cup {v}]
      PROVE  IdInv'
  <2>1. cart[c] \in CartRow
    BY <1>0 DEF IdTypeOK
  <2>2. /\ cart'[c] = [state |-> cart[c].state, site |-> cart[c].site, visitor |-> v,
                        principal |-> cart[c].principal]
        /\ past'[c] = past[c] \cup {v}
        /\ \A d \in Carts \ {c} : cart'[d] = cart[d] /\ past'[d] = past[d]
    BY <1>0, <1>2, <2>1 DEF IdTypeOK, CartRow
  <2>3. IdTypeOK'
    BY <1>0, <1>1, <1>2, <2>1, <2>2 DEF IdTypeOK, CartRow
  <2>4. RowsComplete' /\ OffSiteOnlyLinked'
    BY <1>2, <2>2 DEF IdInv, RowsComplete, OffSiteOnlyLinked, Exists, Open
  <2>5. OneOpenCart'
    BY <1>2, <2>2 DEF IdInv, OneOpenCart, IndexAllows, OpenOf, Open
  <2>6. \A u \in Tasks \ {t} : ReadingStands(u)'
    BY <1>1, <2>2, OthersStand DEF Exists
  <2>7. QED
    BY <1>1, <2>3, <2>4, <2>5, <2>6 DEF IdInv
<1>3. CASE UNCHANGED <<cart, past>>
  BY <1>1, <1>3, ReadingStep DEF Reading
<1>4. QED
  BY <1>2, <1>3, MoveStep DEF Linked

\* place preserves the invariant.
LEMMA PlaceStep ==
  ASSUME IdInv, NEW t \in Tasks, ActPlace(t)
  PROVE  IdInv'
<1>. DEFINE c == task[t].cart
<1>0. IdTypeOK /\ Finish(t) /\ ReadingStands(t) /\ c \in Carts /\ past' = past
  BY DEF IdInv, ActPlace, ReadingStands, Linked
<1>1. /\ task' \in [Tasks -> TaskState] /\ ReadingStands(t)'
      /\ \A u \in Tasks \ {t} : task'[u] = task[u]
  BY <1>0, TaskTypes, FinishedStands DEF Steps
<1>2. CASE Open(c)
  <2>1. cart[c] \in CartRow
    BY <1>0 DEF IdTypeOK
  <2>2. /\ cart'[c] = [state |-> "placed", site |-> cart[c].site, visitor |-> cart[c].visitor,
                        principal |-> cart[c].principal]
        /\ \A d \in Carts \ {c} : cart'[d] = cart[d]
    BY <1>0, <1>2, <2>1 DEF IdTypeOK, ActPlace, CartRow
  <2>3. IdTypeOK'
    BY <1>0, <1>1, <1>2, <2>1, <2>2 DEF IdTypeOK, CartRow, ActPlace
  <2>4. RowsComplete' /\ OffSiteOnlyLinked'
    BY <1>0, <1>2, <2>2 DEF IdInv, RowsComplete, OffSiteOnlyLinked, Exists, Open
  <2>5. OneOpenCart'
    BY <2>2 DEF IdInv, OneOpenCart, Open
  <2>6. \A u \in Tasks \ {t} : ReadingStands(u)'
    BY <1>0, <1>1, <2>2, OthersStand DEF Exists
  <2>7. QED
    BY <1>1, <2>3, <2>4, <2>5, <2>6 DEF IdInv
<1>3. CASE ~Open(c)
  BY <1>0, <1>1, <1>3, ReadingStep DEF Reading, ActPlace
<1>4. QED
  BY <1>2, <1>3

\* The host's link preserves the invariant.
LEMMA LinkStep ==
  ASSUME IdInv, IdentityAssumption, NEW c \in Carts, NEW p \in Principals, HostLinks(c, p)
  PROVE  IdInv'
<1>0. IdTypeOK /\ cart[c] \in CartRow /\ task' = task /\ past' = past
  BY DEF IdInv, IdTypeOK, HostLinks
<1>1. /\ cart'[c] = [state |-> cart[c].state, site |-> cart[c].site, visitor |-> cart[c].visitor,
                      principal |-> p]
      /\ \A d \in Carts \ {c} : cart'[d] = cart[d]
  BY <1>0 DEF HostLinks, IdTypeOK, CartRow
<1>2. IdTypeOK'
  BY <1>0, <1>1 DEF IdTypeOK, CartRow, HostLinks
<1>3. RowsComplete' /\ OffSiteOnlyLinked'
  BY <1>0, <1>1 DEF IdInv, RowsComplete, OffSiteOnlyLinked, Exists, Open, HostLinks, IdentityAssumption
<1>4. OneOpenCart'
  BY <1>1 DEF IdInv, OneOpenCart, Open
<1>5. \A u \in Tasks : ReadingStands(u)'
  BY <1>0, <1>1, OthersStand DEF Exists, HostLinks
<1>6. QED
  BY <1>2, <1>3, <1>4, <1>5 DEF IdInv

\* A step of IdNext, by what it does to the carts.
LEMMA StepKeeps ==
  ASSUME IdInv, IdentityAssumption, [IdNext]_idVars
  PROVE  IdInv'
<1>1. ASSUME NEW t \in Tasks, Request(t) \/ Work(t) \/ Drop(t) PROVE IdInv'
  BY <1>1, ReadStep, CreateStep, RebindStep, PlaceStep DEF Work
<1>2. CASE UNCHANGED idVars
  BY <1>2 DEF idVars, IdInv, IdTypeOK, RowsComplete, Exists, OneOpenCart, Open, OffSiteOnlyLinked,
              ReadingStands, Linked
<1>3. QED
  BY <1>1, <1>2, LinkStep DEF IdNext

LEMMA StartsSound ==
  ASSUME IdentityAssumption, Init
  PROVE  IdInv
BY DEF IdentityAssumption, Init, IdInv, IdTypeOK, CartRow, NoCart, TaskState, Idle, Nobody, Identity,
       RowsComplete, Exists, OneOpenCart, Open, OffSiteOnlyLinked, ReadingStands, MoveSteps

\* In every state, whatever the handlers read and however late they write, the
\* carts are complete rows, one open per visitor, and what a handler read of
\* a cart's owner stands.
THEOREM IdInvariance == IdSpec => []IdInv
<1>1. Init => IdInv
  BY StartsSound, IdentityAssumption
<1>2. IdInv /\ [IdNext]_idVars => IdInv'
  BY StepKeeps, IdentityAssumption
<1>3. QED
  BY <1>1, <1>2, PTL DEF IdSpec

\* Type correctness.
THEOREM IdTypesHold == IdSpec => []IdTypeOK
<1>1. IdInv => IdTypeOK
  BY DEF IdInv
<1>2. QED
  BY <1>1, IdInvariance, PTL

\* Only a cart linked to a principal leaves the website it was created on.
THEOREM OffSiteCartsAreLinked == IdSpec => []OffSiteOnlyLinked
<1>1. IdInv => OffSiteOnlyLinked
  BY DEF IdInv
<1>2. QED
  BY <1>1, IdInvariance, PTL

-----------------------------------------------------------------------------
(* What each step makes of the cart it writes. *)

Writes(c, s, v, p) ==
  /\ cart'[c] = [state |-> s, site |-> cart[c].site, visitor |-> v, principal |-> p]
  /\ \A d \in Carts \ {c} : cart'[d] = cart[d]
Created(c, v) ==
  /\ cart[c] = NoCart /\ OpenOf(v) = {} /\ cart'[c] = NewCart(v)
  /\ \A d \in Carts \ {c} : cart'[d] = cart[d]
Moved(c, v) ==
  /\ Open(c) /\ IndexAllows(c, v) /\ Writes(c, "open", v, cart[c].principal)
  /\ \E t \in Tasks : task[t].cart = c /\ task[t].who.visitor = v /\ Linked(t)
Placed(c) ==
  /\ Open(c) /\ Writes(c, "placed", cart[c].visitor, cart[c].principal)
  /\ \E t \in Tasks : /\ task[t].at = "act" /\ task[t].cart = c /\ task'[t] = Idle
                        /\ ReadingStands(t)
Stamped(c, p) ==
  Open(c) /\ cart[c].principal = None /\ Writes(c, "open", cart[c].visitor, p)

\* Every step leaves the carts alone, or does one of these to one of them.
LEMMA StepShape ==
  ASSUME IdInv, IdentityAssumption, [IdNext]_idVars
  PROVE  \/ cart' = cart
         \/ \E c \in Carts, v \in Visitors : Created(c, v) \/ Moved(c, v)
         \/ \E c \in Carts : Placed(c)
         \/ \E c \in Carts, p \in Principals : Stamped(c, p)
<1>0. IdTypeOK /\ \A c \in Carts : cart[c] \in CartRow
  BY DEF IdInv, IdTypeOK
<1>1. ASSUME NEW t \in Tasks, CreateInsert(t), cart' # cart
      PROVE  \E c \in Carts, v \in Visitors : Created(c, v)
  <2>1. task[t].who.visitor \in Visitors
    BY <1>0, <1>1 DEF CreateInsert, IdInv, ReadingStands, IdTypeOK, TaskState, Identity
  <2>2. PICK c \in Carts : /\ OpenOf(task[t].who.visitor) = {} /\ cart[c].state = "none"
                           /\ cart' = [cart EXCEPT ![c] = NewCart(task[t].who.visitor)]
    BY <1>1 DEF CreateInsert
  <2>3. Created(c, task[t].who.visitor)
    BY <1>0, <2>2 DEF Created, IdTypeOK, IdInv, RowsComplete, Exists
  <2>4. QED
    BY <2>1, <2>3
<1>2. ASSUME NEW t \in Tasks, AdoptMove(t) \/ RecoverMove(t), cart' # cart
      PROVE  \E c \in Carts, v \in Visitors : Moved(c, v)
  <2>1. PICK c \in Carts, v \in Visitors :
               /\ c = task[t].cart /\ v = task[t].who.visitor
               /\ Linked(t) /\ Open(c) /\ IndexAllows(c, v)
               /\ cart' = [cart EXCEPT ![c].visitor = v]
    BY <1>2, MoveStep
  <2>2. Writes(c, "open", v, cart[c].principal)
    BY <1>0, <2>1 DEF Writes, IdTypeOK, CartRow, Open
  <2>3. QED
    BY <2>1, <2>2 DEF Moved
<1>3. ASSUME NEW t \in Tasks, ActPlace(t), cart' # cart
      PROVE  \E c \in Carts : Placed(c)
  <2>. DEFINE c == task[t].cart
  <2>1. c \in Carts /\ Open(c) /\ ReadingStands(t) /\ task[t].at = "act"
        /\ cart' = [cart EXCEPT ![c].state = "placed"]
    BY <1>3 DEF ActPlace, IdInv, ReadingStands, Linked
  <2>2. Writes(c, "placed", cart[c].visitor, cart[c].principal)
    BY <1>0, <2>1 DEF Writes, IdTypeOK, CartRow
  <2>3. task'[t] = Idle
    BY <1>0, <1>3 DEF ActPlace, Finish, IdTypeOK
  <2>4. QED
    BY <2>1, <2>2, <2>3 DEF Placed
<1>4. ASSUME NEW c \in Carts, NEW p \in Principals, HostLinks(c, p) PROVE Stamped(c, p)
  BY <1>0, <1>4 DEF HostLinks, Stamped, Writes, IdTypeOK, CartRow, Open
<1>5. ASSUME NEW t \in Tasks,
             \/ Request(t) \/ CreateRead(t) \/ AdoptTarget(t) \/ RecoverTarget(t) \/ MoveFree(t)
             \/ OwnVisitor(t) \/ OwnPrincipal(t) \/ Drop(t)
      PROVE  cart' = cart
  BY <1>5 DEF Request, CreateRequest, OwnRequest, AdoptRequest, RecoverRequest, Begin, CreateRead,
              AdoptTarget, RecoverTarget, MoveFree, OwnVisitor, OwnPrincipal, Drop, Reading
<1>6. QED
  BY <1>1, <1>2, <1>3, <1>4, <1>5 DEF IdNext, Work, idVars

\* A cart changes hands only to a handler of the principal it is linked to, and
\* the link stays.
THEOREM OnlyPrincipalsMove == IdSpec => OnlyItsPrincipalMoves
<1>1. IdInv /\ [IdNext]_idVars => [HandedOver]_idVars
  <2>. SUFFICES ASSUME IdInv, [IdNext]_idVars PROVE HandedOver
    OBVIOUS
  <2>1. \/ cart' = cart
        \/ \E c \in Carts, v \in Visitors : Created(c, v) \/ Moved(c, v)
        \/ \E c \in Carts : Placed(c)
        \/ \E c \in Carts, p \in Principals : Stamped(c, p)
    BY StepShape, IdentityAssumption
  <2>2. CASE cart' = cart
    BY <2>2 DEF HandedOver
  <2>3. ASSUME NEW c \in Carts, NEW v \in Visitors, Created(c, v) PROVE HandedOver
    BY <2>3 DEF HandedOver, Created, NoCart
  <2>4. ASSUME NEW c \in Carts, NEW v \in Visitors, Moved(c, v) PROVE HandedOver
    BY <2>4 DEF HandedOver, Moved, Writes, Linked
  <2>5. ASSUME NEW c \in Carts, Placed(c) PROVE HandedOver
    BY <2>5 DEF HandedOver, Placed, Writes
  <2>6. ASSUME NEW c \in Carts, NEW p \in Principals, Stamped(c, p) PROVE HandedOver
    BY <2>6 DEF HandedOver, Stamped, Writes
  <2>7. QED
    BY <2>1, <2>2, <2>3, <2>4, <2>5, <2>6
<1>2. QED
  BY <1>1, IdInvariance, PTL DEF IdSpec, OnlyItsPrincipalMoves

\* A placed cart is never written again.
THEOREM PlacedCartsStay == IdSpec => PlacedStays
<1>1. IdInv /\ [IdNext]_idVars =>
        [\A c \in Carts : cart[c].state = "placed" => cart'[c] = cart[c]]_idVars
  <2>. SUFFICES ASSUME IdInv, [IdNext]_idVars, NEW k \in Carts, cart[k].state = "placed"
                PROVE  cart'[k] = cart[k]
    OBVIOUS
  <2>1. \/ cart' = cart
        \/ \E c \in Carts, v \in Visitors : Created(c, v) \/ Moved(c, v)
        \/ \E c \in Carts : Placed(c)
        \/ \E c \in Carts, p \in Principals : Stamped(c, p)
    BY StepShape, IdentityAssumption
  <2>2. ASSUME NEW c \in Carts, NEW v \in Visitors, Created(c, v) PROVE cart'[k] = cart[k]
    BY <2>2 DEF Created, NoCart
  <2>3. ASSUME NEW c \in Carts, NEW v \in Visitors, Moved(c, v) PROVE cart'[k] = cart[k]
    BY <2>3 DEF Moved, Writes, Open
  <2>4. ASSUME NEW c \in Carts, Placed(c) PROVE cart'[k] = cart[k]
    BY <2>4 DEF Placed, Writes, Open
  <2>5. ASSUME NEW c \in Carts, NEW p \in Principals, Stamped(c, p) PROVE cart'[k] = cart[k]
    BY <2>5 DEF Stamped, Writes, Open
  <2>6. QED
    BY <2>1, <2>2, <2>3, <2>4, <2>5
<1>2. QED
  BY <1>1, IdInvariance, PTL DEF IdSpec, PlacedStays

\* Whoever places a cart had held it or acts for its principal.
THEOREM OwnersPlace == IdSpec => PlacedByAnOwner
<1>1. IdInv /\ [IdNext]_idVars => [OwnerPlaces]_idVars
  <2>. SUFFICES ASSUME IdInv, [IdNext]_idVars, NEW c \in Carts, Open(c), ~Open(c)'
                PROVE  \E t \in Tasks :
                         /\ task[t].at = "act" /\ task[t].cart = c /\ task'[t] = Idle
                         /\ \/ task[t].who.visitor \in past[c]
                            \/ /\ task[t].who.principal # None
                               /\ task[t].who.principal = cart[c].principal
    BY DEF OwnerPlaces
  <2>1. \/ cart' = cart
        \/ \E d \in Carts, v \in Visitors : Created(d, v) \/ Moved(d, v)
        \/ \E d \in Carts : Placed(d)
        \/ \E d \in Carts, p \in Principals : Stamped(d, p)
    BY StepShape, IdentityAssumption
  <2>2. cart'[c] # cart[c] /\ cart'[c].state # "open" /\ cart[c].state = "open"
    BY DEF Open
  <2>3. ASSUME NEW d \in Carts, NEW v \in Visitors, Created(d, v) PROVE FALSE
    BY <2>2, <2>3 DEF Created, NewCart
  <2>4. ASSUME NEW d \in Carts, NEW v \in Visitors, Moved(d, v) PROVE FALSE
    BY <2>2, <2>4 DEF Moved, Writes
  <2>5. ASSUME NEW d \in Carts, NEW p \in Principals, Stamped(d, p) PROVE FALSE
    BY <2>2, <2>5 DEF Stamped, Writes
  <2>6. PICK d \in Carts : Placed(d)
    BY <2>1, <2>2, <2>3, <2>4, <2>5
  <2>7. d = c
    BY <2>2, <2>6 DEF Placed, Writes
  <2>8. QED
    BY <2>6, <2>7 DEF Placed, ReadingStands, Linked
<1>2. QED
  BY <1>1, IdInvariance, PTL DEF IdSpec, PlacedByAnOwner

-----------------------------------------------------------------------------
(* The refinement. *)

\* A step of the verbs is a step of OpenCarts on the mapped state, or none.
LEMMA StepRefines ==
  ASSUME IdInv, IdInv', IdentityAssumption, [IdNext]_idVars
  PROVE  [Promise!Next]_(Promise!vars)
<1>. DEFINE holder == [c \in Carts |-> IF Open(c) THEN cart[c].visitor ELSE None]
            link == [c \in Carts |-> cart[c].principal]
            used == {c \in Carts : Exists(c)}
<1>0. None \notin Visitors /\ None \notin Principals
  BY DEF IdentityAssumption
<1>1. CASE cart' = cart
  BY <1>1 DEF Promise!vars, Open
<1>2. ASSUME NEW c \in Carts, NEW v \in Visitors, Created(c, v)
      PROVE  Promise!Create(c, v)
  <2>1. holder' = [holder EXCEPT ![c] = v]
    <3>1. \A d \in Carts : holder'[d] = IF d = c THEN v ELSE holder[d]
      BY <1>2 DEF Created, NewCart, Open
    <3>2. QED
      BY <3>1
  <2>2. link' = link
    BY <1>2 DEF Created, NewCart, NoCart
  <2>3. used' = used \cup {c} /\ c \notin used
    BY <1>2 DEF Created, NewCart, NoCart, Exists
  <2>4. \A d \in Carts : holder[d] # v
    BY <1>0, <1>2 DEF Created, OpenOf
  <2>5. QED
    BY <2>1, <2>2, <2>3, <2>4 DEF Promise!Create, Promise!Free, Exists
<1>3. ASSUME NEW c \in Carts, NEW v \in Visitors, Moved(c, v), cart' # cart
      PROVE  Promise!Move(c, v) \/ UNCHANGED Promise!vars
  <2>1. holder' = [holder EXCEPT ![c] = v]
    <3>1. \A d \in Carts : holder'[d] = IF d = c THEN v ELSE holder[d]
      BY <1>3 DEF Moved, Writes, Open
    <3>2. QED
      BY <3>1
  <2>2. link' = link
    BY <1>3 DEF Moved, Writes
  <2>3. used' = used
    BY <1>3 DEF Moved, Writes, Exists, Open
  <2>4. holder[c] # None /\ link[c] # None
    BY <1>0, <1>3 DEF Moved, Linked, IdInv, RowsComplete, Exists, Open
  <2>5. CASE cart[c].visitor = v
    <3>1. holder' = holder
      BY <1>3, <2>1, <2>5 DEF Moved
    <3>2. QED
      BY <2>2, <2>3, <3>1 DEF Promise!vars, Exists
  <2>6. CASE cart[c].visitor # v
    <3>1. \A d \in Carts : holder[d] # v
      BY <1>0, <1>3, <2>6 DEF Moved, IndexAllows, OpenOf
    <3>2. QED
      BY <2>1, <2>2, <2>3, <2>4, <3>1 DEF Promise!Move, Promise!Free, Exists
  <2>7. QED
    BY <2>5, <2>6
<1>4. ASSUME NEW c \in Carts, Placed(c)
      PROVE  Promise!Close(c)
  <2>1. holder' = [holder EXCEPT ![c] = None]
    <3>1. \A d \in Carts : holder'[d] = IF d = c THEN None ELSE holder[d]
      BY <1>4 DEF Placed, Writes, Open
    <3>2. QED
      BY <3>1
  <2>2. link' = link
    BY <1>4 DEF Placed, Writes
  <2>3. used' = used
    BY <1>4 DEF Placed, Writes, Exists, Open
  <2>4. holder[c] # None
    BY <1>0, <1>4 DEF Placed, IdInv, RowsComplete, Exists, Open
  <2>5. QED
    BY <2>1, <2>2, <2>3, <2>4 DEF Promise!Close, Exists
<1>5. ASSUME NEW c \in Carts, NEW p \in Principals, Stamped(c, p)
      PROVE  Promise!Link(c, p)
  <2>1. holder' = holder
    BY <1>5 DEF Stamped, Writes, Open
  <2>2. link' = [link EXCEPT ![c] = p]
    <3>1. \A d \in Carts : link'[d] = IF d = c THEN p ELSE link[d]
      BY <1>5 DEF Stamped, Writes
    <3>2. QED
      BY <3>1
  <2>3. used' = used
    BY <1>5 DEF Stamped, Writes, Exists, Open
  <2>4. holder[c] # None /\ link[c] = None
    BY <1>0, <1>5 DEF Stamped, IdInv, RowsComplete, Exists, Open
  <2>5. QED
    BY <2>1, <2>2, <2>3, <2>4 DEF Promise!Link, Exists
<1>6. QED
  <2>1. ASSUME NEW c \in Carts, NEW v \in Visitors, Created(c, v) \/ Moved(c, v), cart' # cart
        PROVE  Promise!Next \/ UNCHANGED Promise!vars
    BY <1>2, <1>3, <2>1 DEF Promise!Next
  <2>2. ASSUME NEW c \in Carts, Placed(c) PROVE Promise!Next
    BY <1>4, <2>2 DEF Promise!Next
  <2>3. ASSUME NEW c \in Carts, NEW p \in Principals, Stamped(c, p) PROVE Promise!Next
    BY <1>5, <2>3 DEF Promise!Next
  <2>4. QED
    BY <1>1, <2>1, <2>2, <2>3, StepShape

\* The verbs implement OpenCarts: whatever they read apart from what they
\* write, no visitor ever sees two open carts or loses one to a stranger.
THEOREM RefinesOpenCarts == IdSpec => KeepsOpenCarts
<1>1. Init => Promise!Init
  BY DEF Init, NoCart, Open, Promise!Init
<1>2. IdInv /\ IdInv' /\ [IdNext]_idVars => [Promise!Next]_(Promise!vars)
  BY StepRefines, IdentityAssumption
<1>3. QED
  BY <1>1, <1>2, IdInvariance, PTL DEF IdSpec, KeepsOpenCarts, Promise!Spec

=============================================================================
