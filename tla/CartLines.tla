------------------------------ MODULE CartLines ------------------------------
(***************************************************************************)
(* The line and coupon verbs of a cart, which run outside the checkout's   *)
(* critical section, beside the place that reads the lines inside it.      *)
(*                                                                         *)
(* A verb's route reads the cart row once; the verb then checks the row it *)
(* was given, and reads the listing, the lines and the stock in short      *)
(* transactions of their own before one last transaction writes.  A line   *)
(* insert waits for the row lock of a place (its foreign key locks the     *)
(* cart row), an update or a soft delete of a line does not.               *)
(*                                                                         *)
(* Place is here what the lines can see of Checkout's: the lock, the lines *)
(* read and priced, the stock gate, and the commit.  touch_cart and the    *)
(* audit rows, which nothing here reads, are left out.                     *)
(***************************************************************************)
EXTENDS Naturals, FiniteSets, FiniteSetsExt

CONSTANTS
  Carts,        \* cart rows
  Items,        \* catalogue items
  LineIds,      \* line ids, bounding how many lines are ever inserted
  Tasks,        \* request handlers running at the same time
  Coupons,      \* well-formed coupon codes
  None,         \* SQL NULL
  MaxCartLines, \* the bound max_cart_lines reads from its env knob
  StockLevels,  \* free stock in the checkout scope; a backorder listing has a
                \* level no basket reaches
  Requested,    \* quantities a request asks for
  MaxQuantity   \* bound on the quantity of a line, however often it is folded

ASSUME LinesAssumption ==
  /\ MaxCartLines \in Nat \ {0}
  /\ MaxQuantity \in Nat \ {0}
  /\ StockLevels \subseteq Nat
  /\ Requested \subseteq 1..MaxQuantity
  /\ IsFiniteSet(LineIds) /\ IsFiniteSet(Tasks)
  /\ None \notin Carts \cup Items \cup LineIds \cup Tasks \cup Coupons

VARIABLES
  cart,     \* storefront.carts
  lock,     \* which task's place holds the cart row
  line,     \* storefront.cart_lines
  gate,     \* items whose listing passes the publish gate
  free,     \* what the stock gate lets a line ask for, item by item
  order,    \* what each cart was placed with
  task      \* where each handler is, and what it has read

vars == <<cart, lock, line, gate, free, order, task>>

-----------------------------------------------------------------------------
Quantities == 1..MaxQuantity

CartRow == [state : {"open", "placed"}, coupon : Coupons \cup {None}]
LineRow == [state : {"none", "live", "deleted"}, cart : Carts \cup {None},
            item : Items \cup {None}, quantity : 0..MaxQuantity]
NoLine == [state |-> "none", cart |-> None, item |-> None, quantity |-> 0]

\* The basket a place read: each line with its item and quantity, and the
\* coupon.  History: the items that were off the publish gate as it read them,
\* and those it asked more of than was free as it passed the stock gate.
Basket == [lines : SUBSET (LineIds \X Items \X Quantities), coupon : Coupons \cup {None},
           offGate : SUBSET Items, short : SUBSET Items]
NoBasket == [lines |-> {}, coupon |-> None, offGate |-> {}, short |-> {}]

LineSteps == {"add_gate", "add_lines", "add_clamp", "insert",
              "set_line", "set_gate", "set_clamp", "update", "remove"}
PlaceSteps == {"place_lines", "place_stock", "place_commit"}
TaskState == [at : LineSteps \cup PlaceSteps \cup {"idle", "coupon"},
              cart : Carts \cup {None}, item : Items \cup {None},
              line : LineIds \cup {None}, quantity : 0..MaxQuantity,
              coupon : Coupons \cup {None}, basket : Basket]
Idle == [at |-> "idle", cart |-> None, item |-> None, line |-> None,
         quantity |-> 0, coupon |-> None, basket |-> NoBasket]

Init ==
  /\ cart = [c \in Carts |-> [state |-> "open", coupon |-> None]]
  /\ lock = [c \in Carts |-> None]
  /\ line = [l \in LineIds |-> NoLine]
  /\ gate = Items
  /\ free \in [Items -> StockLevels]
  /\ order = [c \in Carts |-> NoBasket]
  /\ task = [t \in Tasks |-> Idle]

LiveLines(c) == {l \in LineIds : line[l].state = "live" /\ line[l].cart = c}

\* A handler moves on, or answers, right or wrong, and is done.
Goto(t, step) == task' = [task EXCEPT ![t].at = step]
Finish(t) == task' = [task EXCEPT ![t] = Idle]
Reading == UNCHANGED <<cart, lock, line, gate, free, order>>

-----------------------------------------------------------------------------
(* The requests: the route has read the cart row, the verb checks its state. *)

MutReadsOpen(c) == TRUE
ReadsOpen(c) == cart[c].state = "open"

AddRequest(t, c, i, q) ==
  /\ task[t].at = "idle"
  /\ ReadsOpen(c)
  /\ task' = [task EXCEPT ![t] = [Idle EXCEPT !.at = "add_gate", !.cart = c,
                                              !.item = i, !.quantity = q]]
  /\ Reading

SetRequest(t, c, l, q) ==
  /\ task[t].at = "idle"
  /\ ReadsOpen(c)
  /\ task' = [task EXCEPT ![t] = [Idle EXCEPT !.at = "set_line", !.cart = c,
                                              !.line = l, !.quantity = q]]
  /\ Reading

RemoveRequest(t, c, l) ==
  /\ task[t].at = "idle"
  /\ ReadsOpen(c)
  /\ task' = [task EXCEPT ![t] = [Idle EXCEPT !.at = "remove", !.cart = c, !.line = l]]
  /\ Reading

\* k = None is remove_coupon.
CouponRequest(t, c, k) ==
  /\ task[t].at = "idle"
  /\ ReadsOpen(c)
  /\ task' = [task EXCEPT ![t] = [Idle EXCEPT !.at = "coupon", !.cart = c, !.coupon = k]]
  /\ Reading

-----------------------------------------------------------------------------
(* The steps of add_line and set_line_quantity. *)

\* gated_listing: a closed door refuses the verb.
Gate(t) ==
  /\ \/ task[t].at = "add_gate" /\ task[t].item \in gate /\ Goto(t, "add_lines")
     \/ task[t].at = "set_gate" /\ task[t].item \in gate /\ Goto(t, "set_clamp")
     \/ task[t].at \in {"add_gate", "set_gate"} /\ task[t].item \notin gate /\ Finish(t)
  /\ Reading

\* The lines as add_line finds them: an item already there folds into
\* set_line_quantity with the sum, a new one meets the line bound.
MutWithinBound(c) == Cardinality(LiveLines(c)) <= MaxCartLines
WithinBound(c) == Cardinality(LiveLines(c)) < MaxCartLines

AddLines(t) ==
  LET c == task[t].cart
      same == {l \in LiveLines(c) : line[l].item = task[t].item} IN
  /\ task[t].at = "add_lines"
  /\ \/ \E l \in same :
          /\ line[l].quantity + task[t].quantity <= MaxQuantity
          /\ task' = [task EXCEPT ![t].at = "set_line", ![t].line = l, ![t].item = None,
                                  ![t].quantity = line[l].quantity + @]
     \/ same = {} /\ WithinBound(c) /\ Goto(t, "add_clamp")
     \/ same = {} /\ ~WithinBound(c) /\ Finish(t)
  /\ Reading

\* set_line_quantity looks its line up among the live lines of the cart.
SetLine(t) ==
  LET l == task[t].line IN
  /\ task[t].at = "set_line"
  /\ \/ /\ l \in LiveLines(task[t].cart)
        /\ task' = [task EXCEPT ![t].at = "set_gate", ![t].item = line[l].item]
     \/ l \notin LiveLines(task[t].cart) /\ Finish(t)
  /\ Reading

\* clamp_quantity, for one line of the cart alone.
InStock(i, q) == q <= free[i]
Clamp(t) ==
  LET fits == InStock(task[t].item, task[t].quantity) IN
  /\ \/ task[t].at = "add_clamp" /\ fits /\ Goto(t, "insert")
     \/ task[t].at = "set_clamp" /\ fits /\ Goto(t, "update")
     \/ task[t].at \in {"add_clamp", "set_clamp"} /\ ~fits /\ Finish(t)
  /\ Reading

\* The foreign key of the new line waits for a place to let the cart go, but
\* looks at nothing in it.
MutInsertLine(t, l) ==
  /\ task[t].at = "insert"
  /\ lock[task[t].cart] = None
  /\ line[l].state = "none"
  /\ line' = [line EXCEPT ![l] = [state |-> "live", cart |-> task[t].item,
                                  item |-> task[t].cart, quantity |-> task[t].quantity]]
  /\ Finish(t)
  /\ UNCHANGED <<cart, lock, gate, free, order>>
InsertLine(t, l) ==
  /\ task[t].at = "insert"
  /\ lock[task[t].cart] = None
  /\ line[l].state = "none"
  /\ line' = [line EXCEPT ![l] = [state |-> "live", cart |-> task[t].cart,
                                  item |-> task[t].item, quantity |-> task[t].quantity]]
  /\ Finish(t)
  /\ UNCHANGED <<cart, lock, gate, free, order>>

\* UPDATE .. WHERE id AND cart_id AND deleted_at IS NULL, rows unchecked.
MutHits(t) == line[task[t].line].cart = task[t].cart
Hits(t) == task[t].line \in LiveLines(task[t].cart)

UpdateLine(t) ==
  /\ task[t].at = "update"
  /\ line' = IF Hits(t) THEN [line EXCEPT ![task[t].line].quantity = task[t].quantity]
             ELSE line
  /\ Finish(t)
  /\ UNCHANGED <<cart, lock, gate, free, order>>

RemoveLine(t) ==
  /\ task[t].at = "remove"
  /\ line' = IF Hits(t) THEN [line EXCEPT ![task[t].line].state = "deleted"] ELSE line
  /\ Finish(t)
  /\ UNCHANGED <<cart, lock, gate, free, order>>

\* apply_coupon and remove_coupon: UPDATE .. WHERE state = 'open' waits for
\* the row lock, then looks at the state again.
MutCoupon(t) ==
  /\ task[t].at = "coupon"
  /\ lock[task[t].cart] = None
  /\ cart' = [cart EXCEPT ![task[t].cart].coupon = task[t].coupon]
  /\ Finish(t)
  /\ UNCHANGED <<lock, line, gate, free, order>>
Coupon(t) ==
  LET c == task[t].cart IN
  /\ task[t].at = "coupon"
  /\ lock[c] = None
  /\ cart' = IF cart[c].state = "open" THEN [cart EXCEPT ![c].coupon = task[t].coupon]
             ELSE cart
  /\ Finish(t)
  /\ UNCHANGED <<lock, line, gate, free, order>>

-----------------------------------------------------------------------------
(* What place does with the lines. *)

PlaceLock(t, c) ==
  /\ task[t].at = "idle"
  /\ lock[c] = None
  /\ cart[c].state = "open"
  /\ lock' = [lock EXCEPT ![c] = t]
  /\ task' = [task EXCEPT ![t] = [Idle EXCEPT !.at = "place_lines", !.cart = c]]
  /\ UNCHANGED <<cart, line, gate, free, order>>

Unlock(t) == lock' = [c \in Carts |-> IF lock[c] = t THEN None ELSE lock[c]]

\* lines_of and price_cart: a line is unavailable only for want of a price
\* row, and a line was not added without one.
PlaceLines(t) ==
  LET c == task[t].cart
      read == LiveLines(c)
      basket == [lines |-> {<<l, line[l].item, line[l].quantity>> : l \in read},
                 coupon |-> cart[c].coupon,
                 offGate |-> {line[l].item : l \in read} \ gate, short |-> {}] IN
  /\ task[t].at = "place_lines"
  /\ read # {}
  /\ task' = [task EXCEPT ![t].at = "place_stock", ![t].basket = basket]
  /\ Reading

\* gate_place_quantities, every line by itself.
MutGated(lines) == \E b \in lines : InStock(b[2], b[3])
Gated(lines) == \A b \in lines : InStock(b[2], b[3])

Asked(lines, i) == MapThenSumSet(LAMBDA b : b[3], {b \in lines : b[2] = i})
PlaceStock(t) ==
  LET lines == task[t].basket.lines IN
  /\ task[t].at = "place_stock"
  /\ Gated(lines)
  /\ task' = [task EXCEPT ![t].at = "place_commit",
                ![t].basket.short = {i \in Items : ~InStock(i, Asked(lines, i))}]
  /\ Reading

\* The order is minted from the basket as it was read, and the cart flips.
PlaceCommit(t) ==
  LET c == task[t].cart IN
  /\ task[t].at = "place_commit"
  /\ order' = [order EXCEPT ![c] = task[t].basket]
  /\ cart' = [cart EXCEPT ![c].state = "placed"]
  /\ Unlock(t)
  /\ Finish(t)
  /\ UNCHANGED <<line, gate, free>>

\* A place refuses or a handler is lost before its last write: no trace, and
\* the row lock goes.
Drop(t) ==
  /\ task[t].at # "idle"
  /\ Unlock(t)
  /\ Finish(t)
  /\ UNCHANGED <<cart, line, gate, free, order>>

-----------------------------------------------------------------------------
(* The officer and the warehouse. *)

\* publish_listing, unpublish_listing, the sale_ok of upsert_listing, or the
\* item's own status.
SetGate(i) ==
  /\ gate' = IF i \in gate THEN gate \ {i} ELSE gate \cup {i}
  /\ UNCHANGED <<cart, lock, line, free, order, task>>

\* Stock moves, or set_listing_backorder lifts or restores its limit.
StockMoves(i, n) ==
  /\ free' = [free EXCEPT ![i] = n]
  /\ UNCHANGED <<cart, lock, line, gate, order, task>>

-----------------------------------------------------------------------------
Request(t) ==
  \E c \in Carts :
    \/ \E i \in Items, q \in Requested : AddRequest(t, c, i, q)
    \/ \E l \in LiveLines(c), q \in Requested : SetRequest(t, c, l, q)
    \/ \E l \in LiveLines(c) : RemoveRequest(t, c, l)
    \/ \E k \in Coupons \cup {None} : CouponRequest(t, c, k)
    \/ PlaceLock(t, c)

Work(t) ==
  \/ Gate(t) \/ AddLines(t) \/ SetLine(t) \/ Clamp(t)
  \/ \E l \in LineIds : InsertLine(t, l)
  \/ UpdateLine(t) \/ RemoveLine(t) \/ Coupon(t)
  \/ PlaceLines(t) \/ PlaceStock(t) \/ PlaceCommit(t)

Next ==
  \/ \E t \in Tasks : Request(t) \/ Work(t) \/ Drop(t)
  \/ \E i \in Items : SetGate(i) \/ \E n \in StockLevels : StockMoves(i, n)

Spec == Init /\ [][Next]_vars

-----------------------------------------------------------------------------
(* Properties. *)

\* Every variable holds a row of its table.
TypeOK ==
  /\ cart \in [Carts -> CartRow]
  /\ lock \in [Carts -> Tasks \cup {None}]
  /\ line \in [LineIds -> LineRow]
  /\ gate \subseteq Items
  /\ free \in [Items -> StockLevels]
  /\ order \in [Carts -> Basket]
  /\ task \in [Tasks -> TaskState]

InFlight(c) == {t \in Tasks : task[t].cart = c /\ task[t].at \in LineSteps}

\* The coupon an order was priced with is the coupon its cart shows, however
\* the unlocked coupon verbs raced the place.
CouponIsPriced ==
  \A c \in Carts : cart[c].state = "placed" => order[c].coupon = cart[c].coupon

\* What a placed cart shows is what was ordered, except for line verbs that
\* read the cart before it was placed: no verb joins them any more, and once
\* none of them is left the lines never move again.
LateLinesKeep ==
  \A c \in Carts : cart[c].state = "placed" =>
    /\ InFlight(c)' \subseteq InFlight(c)
    /\ InFlight(c) = {} =>
         \A l \in LineIds : (line[l].cart = c \/ line'[l].cart = c) => line'[l] = line[l]
LateVerbsOnly == [][LateLinesKeep]_vars

\* A removed line stays removed as it was: an update or a fold that read it
\* live changes nothing.
RemovedStaysRemoved ==
  [][\A l \in LineIds : line[l].state = "deleted" => line'[l] = line[l]]_vars

\* Concurrent adds pass the line bound by less than their number, the lines
\* they are still going to insert counted.
Inserting(c) == {t \in Tasks : task[t].cart = c /\ task[t].at \in {"add_clamp", "insert"}}
LineBoundSlack ==
  \A c \in Carts : Cardinality(LiveLines(c)) + Cardinality(Inserting(c))
                     < MaxCartLines + Cardinality(Tasks)

\* The place-time gate looks at one line at a time: an order asks for more of
\* an item than was free only when two of its lines are for that item.
ShortOnlyByTwins ==
  \A c \in Carts : \A i \in order[c].short :
    \E a, b \in order[c].lines : a # b /\ a[2] = i /\ b[2] = i

\* The place here keeps the rules of the row lock that Checkout's keeps.
L == INSTANCE CartLock WITH state <- [c \in Carts |-> cart[c].state]
KeepsCartLock == L!Spec

-----------------------------------------------------------------------------
(* What the documentation says and the code does not do. *)

\* A repeat add folds onto the existing line: a cart has one line per item.
OneLinePerItem ==
  \A c \in Carts : \A l, m \in LiveLines(c) : line[l].item = line[m].item => l = m

\* A place refuses when a line's item left the gate since it was added.
PlaceRefusesClosedGate == \A c \in Carts : order[c].offGate = {}
=============================================================================
