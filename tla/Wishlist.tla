------------------------------- MODULE Wishlist -------------------------------
(***************************************************************************)
(* The wishes of one website, and the officers' back-in-stock alerts.      *)
(*                                                                         *)
(* A shopper's verbs are single statements over the live rows.  An         *)
(* officer's send is not: it checks the stock, reads the waiting wishes,   *)
(* and then, wish by wish, waits for the notifier and clears the arm by    *)
(* the row's id alone, each clear in a transaction of its own.             *)
(*                                                                         *)
(* contact_email is written with portal_user_id and never without it, so   *)
(* the principal stands for both.                                          *)
(***************************************************************************)
CONSTANTS
  Visitors,    \* visitors of the website
  Items,       \* catalogue items
  Principals,  \* portal users, each with a verified address
  Wishes,      \* wish rows, bounding how many are ever inserted
  Officers,    \* send_stock_alerts handlers running at the same time
  None         \* SQL NULL

ASSUME WishAssumption ==
  None \notin Visitors \cup Items \cup Principals \cup Wishes

VARIABLES
  wish,     \* storefront.wishlist_items
  inStock,  \* items with free stock in the display scope
  officer,  \* where each send is, and what it has read
  owed,     \* history: arms set and not answered by an accepted alert since
  told      \* history: the sends whose alert of a wish was accepted since its
            \* arm was set, but for those lost before they cleared it

history == <<owed, told>>
vars == <<wish, inStock, officer, history>>

-----------------------------------------------------------------------------
WishRow == [state : {"none", "live", "deleted"}, visitor : Visitors \cup {None},
            item : Items \cup {None}, principal : Principals \cup {None}, armed : BOOLEAN]
NoWish == [state |-> "none", visitor |-> None, item |-> None, principal |-> None,
           armed |-> FALSE]

\* A send: the item, the wishes it has read and not yet tried, and the one
\* whose alert was accepted and whose arm it clears next.  History: of those,
\* the ones whose arm another send has cleared since it read them.
Sending == [at : {"idle", "rows", "send", "clear"}, item : Items \cup {None},
            todo : SUBSET Wishes, wish : Wishes \cup {None},
            overtaken : SUBSET Wishes]
Idle == [at |-> "idle", item |-> None, todo |-> {}, wish |-> None,
         overtaken |-> {}]

Init ==
  /\ wish = [w \in Wishes |-> NoWish]
  /\ inStock \in SUBSET Items
  /\ officer = [o \in Officers |-> Idle]
  /\ owed = {}
  /\ told = [w \in Wishes |-> {}]

Live(w) == wish[w].state = "live"
MutOwn(v, i) == {w \in Wishes : wish[w].visitor = v /\ wish[w].item = i}
Own(v, i) == {w \in Wishes : Live(w) /\ wish[w].visitor = v /\ wish[w].item = i}

-----------------------------------------------------------------------------
(* The shopper's verbs. *)

\* add: a live wish for the item is answered as it is.  The publish gate was
\* read before, and is not looked at again.
MutNewWish(v, i) == [NoWish EXCEPT !.state = "live", !.visitor = i, !.item = v]
NewWish(v, i) == [NoWish EXCEPT !.state = "live", !.visitor = v, !.item = i]
Add(v, i) ==
  /\ Own(v, i) = {}
  /\ \E w \in Wishes : wish[w].state = "none" /\ wish' = [wish EXCEPT ![w] = NewWish(v, i)]
  /\ UNCHANGED <<inStock, officer, history>>

\* remove: the visitor's wish for the item and those the principal is stamped
\* on, of every device.
Remove(v, p, i) ==
  LET gone == {w \in Wishes : /\ Live(w) /\ wish[w].item = i
                              /\ wish[w].visitor = v \/ (p # None /\ wish[w].principal = p)} IN
  /\ gone # {}
  /\ wish' = [w \in Wishes |-> IF w \in gone
                               THEN [wish[w] EXCEPT !.state = "deleted", !.armed = FALSE]
                               ELSE wish[w]]
  /\ owed' = owed \ gone
  /\ UNCHANGED <<inStock, officer, told>>

\* reconcile: whoever is logged in now is stamped on all the visitor's wishes.
Reconcile(v, p) ==
  /\ wish' = [w \in Wishes |-> IF Live(w) /\ wish[w].visitor = v
                               THEN [wish[w] EXCEPT !.principal = p] ELSE wish[w]]
  /\ UNCHANGED <<inStock, officer, history>>

\* arm_notify: a verified principal is stamped on the way.  Arming an armed
\* wish sets nothing anew.
Unarmed(v, i) == {w \in Own(v, i) : ~wish[w].armed}
Arm(v, p, i) ==
  /\ Own(v, i) # {}
  /\ wish' = [w \in Wishes |->
       IF w \in Own(v, i)
       THEN [wish[w] EXCEPT !.armed = TRUE, !.principal = IF p = None THEN @ ELSE p]
       ELSE wish[w]]
  /\ owed' = owed \cup Unarmed(v, i)
  /\ told' = [w \in Wishes |-> IF w \in Unarmed(v, i) THEN {} ELSE told[w]]
  /\ UNCHANGED <<inStock, officer>>

-----------------------------------------------------------------------------
(* The officer's send. *)

\* Refuses an item that is not back, or has no snapshot.
StockCheck(o, i) ==
  /\ officer[o].at = "idle"
  /\ i \in inStock
  /\ officer' = [officer EXCEPT ![o] = [Idle EXCEPT !.at = "rows", !.item = i]]
  /\ UNCHANGED <<wish, inStock, history>>

\* The armed wishes with an address.
MutWaiting(i) == {w \in Wishes : wish[w].item = i /\ wish[w].principal # None}
Waiting(i) ==
  {w \in Wishes : Live(w) /\ wish[w].item = i /\ wish[w].armed /\ wish[w].principal # None}

ReadRows(o) ==
  /\ officer[o].at = "rows"
  /\ officer' = [officer EXCEPT ![o].at = "send", ![o].todo = Waiting(officer[o].item)]
  /\ UNCHANGED <<wish, inStock, history>>

\* The notifier accepts: the wait is answered, its arm yet to be cleared.
Accepted(o, w) ==
  /\ officer' = [officer EXCEPT ![o].at = "clear", ![o].todo = @ \ {w}, ![o].wish = w]
  /\ owed' = owed \ {w}
  /\ told' = [told EXCEPT ![w] = @ \cup {o}]

\* A refused transport leaves the arm set.
MutRefused(o, w) ==
  /\ officer' = [officer EXCEPT ![o].at = "clear", ![o].todo = @ \ {w}, ![o].wish = w]
  /\ UNCHANGED history
Refused(o, w) ==
  /\ officer' = [officer EXCEPT ![o].todo = @ \ {w}, ![o].overtaken = @ \ {w}]
  /\ UNCHANGED history

Send(o) ==
  /\ officer[o].at = "send"
  /\ \E w \in officer[o].todo : Accepted(o, w) \/ Refused(o, w)
  /\ UNCHANGED <<wish, inStock>>

\* UPDATE .. WHERE id, whatever has become of the row.
MutCleared(o) == {w \in Wishes : wish[w].item = officer[o].item}
Cleared(o) == {officer[o].wish}

Overtaken(q, w) == officer[q].overtaken \cup (w \cap (officer[q].todo \cup {officer[q].wish}))

ClearArm(o) ==
  /\ officer[o].at = "clear"
  /\ wish' = [w \in Wishes |-> IF w \in Cleared(o) THEN [wish[w] EXCEPT !.armed = FALSE]
                               ELSE wish[w]]
  /\ owed' = owed \ Cleared(o)
  /\ officer' = [q \in Officers |->
       IF q = o THEN [officer[o] EXCEPT !.at = "send", !.wish = None, !.overtaken = @ \ Cleared(o)]
       ELSE [officer[q] EXCEPT !.overtaken = Overtaken(q, Cleared(o))]]
  /\ UNCHANGED <<inStock, told>>

\* The summary is answered.
Done(o) ==
  /\ officer[o].at = "send" /\ officer[o].todo = {}
  /\ officer' = [officer EXCEPT ![o] = Idle]
  /\ UNCHANGED <<wish, inStock, history>>

\* A later refusal, a failed statement, or a lost handler.  An alert whose clear
\* is lost leaves the arm set, and is made again by the next send.
Drop(o) ==
  /\ officer[o].at # "idle"
  /\ officer' = [officer EXCEPT ![o] = Idle]
  /\ told' = IF officer[o].at = "clear" THEN [told EXCEPT ![officer[o].wish] = @ \ {o}] ELSE told
  /\ UNCHANGED <<wish, inStock, owed>>

-----------------------------------------------------------------------------
StockMoves(i) ==
  /\ inStock' = IF i \in inStock THEN inStock \ {i} ELSE inStock \cup {i}
  /\ UNCHANGED <<wish, officer, history>>

Shopper(v) ==
  \/ \E i \in Items :
       Add(v, i) \/ \E p \in Principals \cup {None} : Remove(v, p, i) \/ Arm(v, p, i)
  \/ \E p \in Principals : Reconcile(v, p)

Officer(o) ==
  \/ \E i \in Items : StockCheck(o, i)
  \/ ReadRows(o) \/ Send(o) \/ ClearArm(o) \/ Done(o) \/ Drop(o)

Next ==
  \/ \E v \in Visitors : Shopper(v)
  \/ \E o \in Officers : Officer(o)
  \/ \E i \in Items : StockMoves(i)

Spec == Init /\ [][Next]_vars

-----------------------------------------------------------------------------
(* Properties. *)

\* Every variable holds a row of its table.
TypeOK ==
  /\ wish \in [Wishes -> WishRow]
  /\ inStock \subseteq Items
  /\ officer \in [Officers -> Sending]
  /\ owed \subseteq Wishes
  /\ told \in [Wishes -> SUBSET Officers]

\* A shopper's one notification is not burnt: the arm a send is about to clear
\* has been answered, unless another send, at work on the same wish, cleared
\* the one this send had read and the shopper has armed it again since.
ArmAnswered ==
  \A o \in Officers :
    officer[o].wish \in owed => officer[o].wish \in officer[o].overtaken

\* A send works on wishes that still want an alert: one it has yet to alert is
\* armed, unless the shopper removed it or another send cleared it first.
StillWanted ==
  \A o \in Officers : \A w \in officer[o].todo \ officer[o].overtaken :
    Live(w) => wish[w].armed

\* Only sends that overlap tell a shopper twice.  What an officer has alerted,
\* and was not lost before clearing, is on the list of no later send of that
\* officer until the shopper arms it anew: so one arm brings at most as many
\* alerts as there are officers at work at one time, and one brings one.
Pending(w) == {o \in Officers : w \in officer[o].todo}
ToldOnce == \A w \in Wishes : told[w] \cap Pending(w) = {}
=============================================================================
