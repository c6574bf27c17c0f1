----------------------------- MODULE CartIdentity -----------------------------
(***************************************************************************)
(* Whose cart it is: create, adopt and recover, and how a verb finds the   *)
(* cart it then works on by id alone.                                      *)
(*                                                                         *)
(* A verb reads the rows it decides on in transactions of their own and    *)
(* writes in a last one that looks at nothing but the cart's id and that   *)
(* it is open; what keeps it honest is the partial unique index, one open  *)
(* cart per visitor.  An insert or update the index forbids is refused.    *)
(*                                                                         *)
(* portal_user_id is written by adopt_cart alone, with the value it found  *)
(* there; the first stamp is the host's (HostLinks).  Of the verbs that    *)
(* work on the cart they found, only place changes what is kept here.      *)
(***************************************************************************)
CONSTANTS
  Carts,       \* cart rows, bounding how many are ever created
  Visitors,    \* visitors of the company's websites
  Principals,  \* portal users
  Sites,       \* websites of the company
  SiteOf,      \* the website each visitor belongs to
  Tasks,       \* request handlers running at the same time
  None         \* SQL NULL

ASSUME IdentityAssumption ==
  /\ SiteOf \in [Visitors -> Sites]
  /\ None \notin Carts \cup Visitors \cup Principals \cup Sites

VARIABLES
  cart,  \* storefront.carts
  task,  \* where each handler is, and what it has read
  past   \* history: the visitors that have held each cart

idVars == <<cart, task, past>>

-----------------------------------------------------------------------------
\* A cart row, site being the website it was created on.
Identity == [visitor : Visitors \cup {None}, principal : Principals \cup {None}]
Nobody == [visitor |-> None, principal |-> None]
CartRow == [state : {"none", "open", "placed"}, site : Sites \cup {None},
            visitor : Visitors \cup {None}, principal : Principals \cup {None}]
NoCart == [state |-> "none", site |-> None, visitor |-> None, principal |-> None]

MoveSteps == {"adopt_target", "adopt_free", "adopt_move",
              "recover_target", "recover_free", "recover_move"}
Steps == MoveSteps \cup {"create_insert", "create_read", "own_visitor", "own_principal", "act"}
TaskState == [at : Steps \cup {"idle"}, who : Identity, cart : Carts \cup {None}]
Idle == [at |-> "idle", who |-> Nobody, cart |-> None]

Init ==
  /\ cart = [c \in Carts |-> NoCart]
  /\ task = [t \in Tasks |-> Idle]
  /\ past = [c \in Carts |-> {}]

Open(c) == cart[c].state = "open"
OpenOf(v) == {c \in Carts : Open(c) /\ cart[c].visitor = v}
MutOpenLinked(p) == {c \in Carts : Open(c) /\ cart[c].principal # None}
OpenLinked(p) == {c \in Carts : Open(c) /\ cart[c].principal = p}

Goto(t, step) == task' = [task EXCEPT ![t].at = step]
Finish(t) == task' = [task EXCEPT ![t] = Idle]
Begin(t, step, who, c) ==
  /\ task[t].at = "idle"
  /\ task' = [task EXCEPT ![t] = [at |-> step, who |-> who, cart |-> c]]
  /\ UNCHANGED <<cart, past>>
Reading == UNCHANGED <<cart, past>>

-----------------------------------------------------------------------------
(* create_cart. *)

\* A known visitor token; a principal plays no part.
CreateRequest(t, who) ==
  who.visitor # None /\ who.principal = None /\ Begin(t, "create_insert", who, None)

MutNewCart(v) == [state |-> "open", site |-> v, visitor |-> SiteOf[v], principal |-> None]
NewCart(v) == [state |-> "open", site |-> SiteOf[v], visitor |-> v, principal |-> None]

\* INSERT .. ON CONFLICT DO NOTHING, committed.
CreateInsert(t) ==
  LET v == task[t].who.visitor IN
  /\ task[t].at = "create_insert"
  /\ \/ /\ OpenOf(v) = {}
        /\ \E c \in Carts :
             /\ cart[c].state = "none"
             /\ cart' = [cart EXCEPT ![c] = NewCart(v)]
             /\ past' = [past EXCEPT ![c] = {v}]
     \/ OpenOf(v) # {} /\ UNCHANGED <<cart, past>>
  /\ Goto(t, "create_read")

\* The surviving row is read in a later transaction: it is answered, or the
\* verb answers an internal error.
CreateRead(t) ==
  task[t].at = "create_read" /\ Finish(t) /\ Reading

-----------------------------------------------------------------------------
(* adopt_cart and recover_cart: the caller names any cart. *)

AdoptRequest(t, who, c) ==
  who.visitor # None /\ who.principal # None /\ Begin(t, "adopt_target", who, c)

MutAdoptable(who, row) == row.state = "open"
Adoptable(who, row) == row.state = "open" /\ row.principal = who.principal

AdoptTarget(t) ==
  /\ task[t].at = "adopt_target"
  /\ IF Adoptable(task[t].who, cart[task[t].cart]) THEN Goto(t, "adopt_free") ELSE Finish(t)
  /\ Reading

RecoverRequest(t, who, c) ==
  who.visitor # None /\ Begin(t, "recover_target", who, c)

\* The cart's visitor or its linked principal; the visitor's own is answered
\* as it is.
MutOwned(who, row) == row.visitor = who.visitor \/ row.principal = who.principal
Owned(who, row) ==
  row.visitor = who.visitor \/ (who.principal # None /\ row.principal = who.principal)

RecoverTarget(t) ==
  LET who == task[t].who
      row == cart[task[t].cart] IN
  /\ task[t].at = "recover_target"
  /\ IF Owned(who, row) /\ row.state = "open" /\ row.visitor # who.visitor
     THEN Goto(t, "recover_free") ELSE Finish(t)
  /\ Reading

\* The visitor's own open cart, if it is another one, refuses the move.
MoveFree(t) ==
  LET free == OpenOf(task[t].who.visitor) \subseteq {task[t].cart} IN
  /\ \/ task[t].at = "adopt_free" /\ free /\ Goto(t, "adopt_move")
     \/ task[t].at = "recover_free" /\ free /\ Goto(t, "recover_move")
     \/ task[t].at \in {"adopt_free", "recover_free"} /\ ~free /\ Finish(t)
  /\ Reading

\* UPDATE .. WHERE id AND state = 'open': no row, or a row the unique index
\* lets go to the visitor, or a unique violation.
MutMoves(c, v) == TRUE
Moves(c, v) == Open(c)
MutIndexAllows(c, v) == TRUE
IndexAllows(c, v) == OpenOf(v) \subseteq {c}

Rebind(t, c, row) ==
  /\ IF Moves(c, row.visitor) /\ IndexAllows(c, row.visitor)
     THEN /\ cart' = [cart EXCEPT ![c] = row]
          /\ past' = [past EXCEPT ![c] = @ \cup {row.visitor}]
     ELSE UNCHANGED <<cart, past>>
  /\ Finish(t)

AdoptMove(t) ==
  LET c == task[t].cart IN
  /\ task[t].at = "adopt_move"
  /\ Rebind(t, c, [cart[c] EXCEPT !.visitor = task[t].who.visitor,
                                  !.principal = task[t].who.principal])

RecoverMove(t) ==
  LET c == task[t].cart IN
  /\ task[t].at = "recover_move"
  /\ Rebind(t, c, [cart[c] EXCEPT !.visitor = task[t].who.visitor])

-----------------------------------------------------------------------------
(* A verb on the caller's own cart: own_open_cart, then the verb by id. *)

OwnRequest(t, who) == who # Nobody /\ Begin(t, "own_visitor", who, None)

Found(t, c) == task' = [task EXCEPT ![t].at = "act", ![t].cart = c]

\* The visitor's open cart.  A read that fails counts as no cart.
OwnVisitor(t) ==
  LET v == task[t].who.visitor IN
  /\ task[t].at = "own_visitor"
  /\ \/ v # None /\ \E c \in OpenOf(v) : Found(t, c)
     \/ Goto(t, "own_principal")
  /\ Reading

\* Else the principal's most recent open cart, whichever that is.
OwnPrincipal(t) ==
  LET p == task[t].who.principal IN
  /\ task[t].at = "own_principal"
  /\ \/ p # None /\ \E c \in OpenLinked(p) : Found(t, c)
     \/ (p = None \/ OpenLinked(p) = {}) /\ Finish(t)
  /\ Reading

\* place, express or not: it works on an open cart and asks no more whose it
\* is.  The other verbs leave every column that is modelled here alone.
ActPlace(t) ==
  LET c == task[t].cart IN
  /\ task[t].at = "act"
  /\ cart' = IF Open(c) THEN [cart EXCEPT ![c].state = "placed"] ELSE cart
  /\ Finish(t)
  /\ UNCHANGED past

-----------------------------------------------------------------------------
(* What happens around the verbs. *)

\* A refusal of a later gate, a failed statement, or a lost handler: whatever
\* it had not committed is gone.
Drop(t) == task[t].at # "idle" /\ Finish(t) /\ Reading

\* The host stamps a cart of a visitor that has logged in.
HostLinks(c, p) ==
  /\ Open(c)
  /\ cart[c].principal = None
  /\ cart' = [cart EXCEPT ![c].principal = p]
  /\ UNCHANGED <<task, past>>

Request(t) ==
  \E who \in Identity :
    \/ CreateRequest(t, who) \/ OwnRequest(t, who)
    \/ \E c \in Carts : AdoptRequest(t, who, c) \/ RecoverRequest(t, who, c)

Work(t) ==
  \/ CreateInsert(t) \/ CreateRead(t)
  \/ AdoptTarget(t) \/ RecoverTarget(t) \/ MoveFree(t) \/ AdoptMove(t) \/ RecoverMove(t)
  \/ OwnVisitor(t) \/ OwnPrincipal(t) \/ ActPlace(t)

IdNext ==
  \/ \E t \in Tasks : Request(t) \/ Work(t) \/ Drop(t)
  \/ \E c \in Carts, p \in Principals : HostLinks(c, p)

IdSpec == Init /\ [][IdNext]_idVars

-----------------------------------------------------------------------------
(* Properties. *)

\* Every variable holds a row of its table.
IdTypeOK ==
  /\ cart \in [Carts -> CartRow]
  /\ task \in [Tasks -> TaskState]
  /\ past \in [Carts -> SUBSET Visitors]

\* A cart changes hands only to a handler working for the principal it is
\* linked to, however old the ownership that handler had read; and the link,
\* once there, never changes.
HandedOver ==
  \A c \in Carts : cart[c].state # "none" =>
    /\ cart'[c].visitor # cart[c].visitor =>
         \E t \in Tasks : /\ task[t].cart = c
                          /\ task[t].who.visitor = cart'[c].visitor
                          /\ task[t].who.principal = cart[c].principal
                          /\ cart[c].principal # None
    /\ cart[c].principal # None => cart'[c].principal = cart[c].principal
OnlyItsPrincipalMoves == [][HandedOver]_idVars

\* A placed cart stays with the visitor and principal it was placed under,
\* whatever adopt or recover was on its way to it.
PlacedStays ==
  [][\A c \in Carts : cart[c].state = "placed" => cart'[c] = cart[c]]_idVars

\* Whoever's request placed a cart had held it as a visitor, or acted for the
\* principal it is linked to: no step between finding a cart and placing it
\* lets a stranger's place through.
OwnerPlaces ==
  \A c \in Carts : Open(c) /\ ~Open(c)' =>
    \E t \in Tasks :
      /\ task[t].at = "act" /\ task[t].cart = c /\ task'[t] = Idle
      /\ \/ task[t].who.visitor \in past[c]
         \/ task[t].who.principal # None /\ task[t].who.principal = cart[c].principal
PlacedByAnOwner == [][OwnerPlaces]_idVars

\* Only a linked cart ever leaves the website it was created on.
OffSiteOnlyLinked ==
  \A c \in Carts : cart[c].state # "none" /\ SiteOf[cart[c].visitor] # cart[c].site
                     => cart[c].principal # None

\* The verbs implement the promised hand-overs: what a visitor sees of them is
\* one open cart, which only its principal's verbs take elsewhere.
Promise == INSTANCE OpenCarts WITH
  holder <- [c \in Carts |-> IF Open(c) THEN cart[c].visitor ELSE None],
  link <- [c \in Carts |-> cart[c].principal],
  used <- {c \in Carts : cart[c].state # "none"}
KeepsOpenCarts == Promise!Spec

-----------------------------------------------------------------------------
(* Why they hold: the inductive invariant. *)

\* A cart that exists has a visitor, among those that held it, and a website.
Exists(c) == cart[c].state # "none"
RowsComplete ==
  \A c \in Carts :
    IF Exists(c) THEN /\ cart[c].visitor \in Visitors /\ cart[c].visitor \in past[c]
                      /\ cart[c].site \in Sites
    ELSE cart[c] = NoCart

\* The partial unique index.
OneOpenCart ==
  \A c, d \in Carts : Open(c) /\ Open(d) /\ cart[c].visitor = cart[d].visitor => c = d

\* What a handler read of a cart and still stands, however old: its link, and
\* who has ever held it.
Linked(t) ==
  LET c == task[t].cart IN
  /\ c \in Carts /\ Exists(c)
  /\ task[t].who.principal # None /\ task[t].who.principal = cart[c].principal
ReadingStands(t) ==
  /\ task[t].at \in MoveSteps => task[t].who.visitor # None /\ task[t].cart \in Carts
  /\ task[t].at = "create_insert" => task[t].who.visitor # None
  /\ task[t].at = "adopt_target" => task[t].who.principal # None
  /\ task[t].at \in {"adopt_free", "adopt_move", "recover_free", "recover_move"} => Linked(t)
  /\ task[t].at = "act" =>
       \/ Linked(t)
       \/ /\ task[t].cart \in Carts /\ Exists(task[t].cart)
          /\ task[t].who.visitor \in past[task[t].cart]

\* Holds in every state, and every step keeps it.
IdInv == IdTypeOK /\ RowsComplete /\ OneOpenCart /\ (\A t \in Tasks : ReadingStands(t)) /\ OffSiteOnlyLinked

=============================================================================
