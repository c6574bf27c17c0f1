--------------------------- MODULE CartLinesProofs ---------------------------
(***************************************************************************)
(* Proofs about CartLines, for every value of its constants.  A place      *)
(* relies on the row lock: from the read of the lines to the commit its    *)
(* cart is open and keeps the coupon it read.  The line verbs rely on      *)
(* nothing but what they carry.                                            *)
(***************************************************************************)
EXTENDS CartLines, FiniteSetTheorems, TLAPS

\* A line that was ever inserted has a cart, an item and a quantity.
Inserted(l) == line[l].cart \in Carts /\ line[l].item \in Items /\ line[l].quantity \in Quantities
Shaped == \A l \in LineIds : IF line[l].state = "none" THEN line[l].cart = None ELSE Inserted(l)

\* What a handler carries fits its step.
Fits(t) ==
  /\ task[t].at # "idle" => task[t].cart \in Carts
  /\ task[t].at \in {"add_gate", "add_lines", "add_clamp", "insert"} => task[t].item \in Items
  /\ task[t].at \in LineSteps \ {"remove"} => task[t].quantity \in Quantities

\* A place holds its cart's lock, and its basket has the cart's coupon.
Placing(t) ==
  task[t].at \in PlaceSteps =>
    /\ lock[task[t].cart] = t
    /\ cart[task[t].cart].state = "open"
    /\ task[t].at # "place_lines" => task[t].basket.coupon = cart[task[t].cart].coupon

\* A basket is short of an item only by two lines of it.
Twins(b) ==
  \A i \in b.short : \E x, y \in b.lines : x # y /\ x[2] = i /\ y[2] = i

Sound(t) == Fits(t) /\ Placing(t) /\ Twins(task[t].basket)

LinesInv == TypeOK /\ Shaped /\ CouponIsPriced /\ ShortOnlyByTwins /\ \A t \in Tasks : Sound(t)

-----------------------------------------------------------------------------
\* A handler's step keeps the invariant when it leaves alone the carts other
\* handlers hold.
LEMMA HandlerKeeps ==
  ASSUME LinesInv, LinesAssumption, NEW t \in Tasks, NEW new \in TaskState,
         task' = [task EXCEPT ![t] = new],
         cart' \in [Carts -> CartRow], lock' \in [Carts -> Tasks \cup {None}],
         line' \in [LineIds -> LineRow], order' \in [Carts -> Basket],
         UNCHANGED <<gate, free>>,
         \A c \in Carts : lock[c] \notin {None, t} => lock'[c] = lock[c] /\ cart'[c] = cart[c],
         Shaped', CouponIsPriced', ShortOnlyByTwins', Sound(t)'
  PROVE  LinesInv'
<1>1. task \in [Tasks -> TaskState]
  BY DEF LinesInv, TypeOK
<1>2. TypeOK'
  BY <1>1 DEF LinesInv, TypeOK
<1>3. ASSUME NEW u \in Tasks, u # t PROVE Sound(u)'
  <2>1. task'[u] = task[u] /\ u # None /\ Sound(u)
    BY <1>1, <1>3 DEF LinesInv, LinesAssumption
  <2>2. Fits(u)' /\ Twins(task[u].basket)'
    BY <2>1 DEF Sound, Fits, Twins
  <2>3. Placing(u)'
    <3>1. SUFFICES ASSUME task[u].at \in PlaceSteps
                   PROVE  lock'[task[u].cart] = u /\ cart'[task[u].cart] = cart[task[u].cart]
      BY <2>1 DEF Sound, Placing
    <3>2. task[u].cart \in Carts /\ lock[task[u].cart] = u
      BY <2>1, <3>1 DEF Sound, Fits, Placing, PlaceSteps
    <3>3. QED
      BY <1>3, <2>1, <3>2
  <2>4. QED
    BY <2>1, <2>2, <2>3 DEF Sound, Twins
<1>4. QED
  BY <1>2, <1>3 DEF LinesInv

\* A step that only reads.
LEMMA ReadingKeeps ==
  ASSUME LinesInv, LinesAssumption, NEW t \in Tasks, NEW new \in TaskState,
         task' = [task EXCEPT ![t] = new], Reading, Sound(t)'
  PROVE  LinesInv'
<1>1. Shaped' /\ CouponIsPriced' /\ ShortOnlyByTwins'
  BY DEF Reading, LinesInv, Shaped, Inserted, CouponIsPriced, ShortOnlyByTwins
<1>2. QED
  BY <1>1, HandlerKeeps DEF Reading, LinesInv, TypeOK

\* An idle handler carries nothing.
LEMMA IdleType ==
  ASSUME LinesAssumption
  PROVE  Idle \in TaskState /\ Idle.basket.short = {} /\ NoBasket \in Basket
<1>1. NoBasket \in Basket /\ NoBasket.short = {}
  BY DEF NoBasket, Basket
<1>2. 0 \in 0..MaxQuantity
  BY DEF LinesAssumption
<1>3. QED
  BY <1>1, <1>2 DEF Idle, TaskState

LEMMA IdleSound ==
  ASSUME LinesInv, LinesAssumption, NEW t \in Tasks, Finish(t)
  PROVE  Sound(t)'
<1>1. Idle \in TaskState
  BY IdleType
<1>2. task'[t] = Idle
  BY DEF LinesInv, TypeOK, Finish
<1>3. QED
  BY <1>1, <1>2, IdleType DEF Sound, Fits, Placing, Twins, Idle, LineSteps, PlaceSteps

LEMMA AnswerKeeps ==
  ASSUME LinesInv, LinesAssumption, NEW t \in Tasks, Finish(t), Reading
  PROVE  LinesInv'
BY IdleType, IdleSound, ReadingKeeps DEF Finish

-----------------------------------------------------------------------------
\* A line or coupon verb comes to rest at a step, with a row that fits it.
LEMMA VerbKeeps ==
  ASSUME LinesInv, LinesAssumption, NEW t \in Tasks, NEW new \in TaskState,
         new.at \in LineSteps \cup {"coupon"}, new.cart \in Carts,
         new.at \in {"add_gate", "add_lines", "add_clamp", "insert"} => new.item \in Items,
         new.at \in LineSteps \ {"remove"} => new.quantity \in Quantities,
         Twins(new.basket),
         task' = [task EXCEPT ![t] = new], Reading
  PROVE  LinesInv'
<1>1. task'[t] = new
  BY DEF LinesInv, TypeOK
<1>2. new.at \notin PlaceSteps
  BY DEF LineSteps, PlaceSteps
<1>3. Sound(t)'
  BY <1>1, <1>2 DEF Sound, Fits, Placing, Twins
<1>4. QED
  BY <1>3, ReadingKeeps

LEMMA RequestsKeep ==
  ASSUME LinesInv, LinesAssumption, NEW t \in Tasks, NEW c \in Carts,
         \/ \E i \in Items, q \in Requested : AddRequest(t, c, i, q)
         \/ \E l \in LiveLines(c), q \in Requested : SetRequest(t, c, l, q)
         \/ \E l \in LiveLines(c) : RemoveRequest(t, c, l)
         \/ \E k \in Coupons \cup {None} : CouponRequest(t, c, k)
  PROVE  LinesInv'
<1>1. Idle \in TaskState /\ Twins(Idle.basket)
  BY IdleType DEF Twins
<1>2. Requested \subseteq Quantities /\ Requested \subseteq 0..MaxQuantity
  BY DEF Quantities, LinesAssumption
<1>3. LiveLines(c) \subseteq LineIds
  BY DEF LiveLines
<1>4. ASSUME NEW i \in Items, NEW q \in Requested, AddRequest(t, c, i, q) PROVE LinesInv'
  <2>. DEFINE new == [Idle EXCEPT !.at = "add_gate", !.cart = c, !.item = i, !.quantity = q]
  <2>1. /\ new \in TaskState /\ new.at = "add_gate" /\ new.cart = c /\ new.item = i
        /\ new.quantity = q /\ new.basket = Idle.basket
    BY <1>1, <1>2 DEF TaskState, LineSteps
  <2>2. task' = [task EXCEPT ![t] = new] /\ Reading
    BY <1>4 DEF AddRequest
  <2>3. "add_gate" \in LineSteps
    BY DEF LineSteps
  <2>. HIDE DEF new
  <2>4. QED
    BY <1>1, <1>2, <2>1, <2>2, <2>3, VerbKeeps
<1>5. ASSUME NEW l \in LiveLines(c), NEW q \in Requested, SetRequest(t, c, l, q) PROVE LinesInv'
  <2>. DEFINE new == [Idle EXCEPT !.at = "set_line", !.cart = c, !.line = l, !.quantity = q]
  <2>1. /\ new \in TaskState /\ new.at = "set_line" /\ new.cart = c
        /\ new.quantity = q /\ new.basket = Idle.basket
    BY <1>1, <1>2, <1>3 DEF TaskState, LineSteps
  <2>2. task' = [task EXCEPT ![t] = new] /\ Reading
    BY <1>5 DEF SetRequest
  <2>3. "set_line" \in LineSteps
    BY DEF LineSteps
  <2>. HIDE DEF new
  <2>4. QED
    BY <1>1, <1>2, <2>1, <2>2, <2>3, VerbKeeps
<1>6. ASSUME NEW l \in LiveLines(c), RemoveRequest(t, c, l) PROVE LinesInv'
  <2>. DEFINE new == [Idle EXCEPT !.at = "remove", !.cart = c, !.line = l]
  <2>1. new \in TaskState /\ new.at = "remove" /\ new.cart = c /\ new.basket = Idle.basket
    BY <1>1, <1>3 DEF TaskState, LineSteps
  <2>2. task' = [task EXCEPT ![t] = new] /\ Reading
    BY <1>6 DEF RemoveRequest
  <2>3. "remove" \in LineSteps
    BY DEF LineSteps
  <2>. HIDE DEF new
  <2>4. QED
    BY <1>1, <2>1, <2>2, <2>3, VerbKeeps
<1>7. ASSUME NEW k \in Coupons \cup {None}, CouponRequest(t, c, k) PROVE LinesInv'
  <2>. DEFINE new == [Idle EXCEPT !.at = "coupon", !.cart = c, !.coupon = k]
  <2>1. new \in TaskState /\ new.at = "coupon" /\ new.cart = c /\ new.basket = Idle.basket
    BY <1>1 DEF TaskState
  <2>2. task' = [task EXCEPT ![t] = new] /\ Reading
    BY <1>7 DEF CouponRequest
  <2>3. "coupon" \notin LineSteps
    BY DEF LineSteps
  <2>. HIDE DEF new
  <2>4. QED
    BY <1>1, <2>1, <2>2, <2>3, VerbKeeps
<1>8. QED
  BY <1>4, <1>5, <1>6, <1>7

\* Handler t goes on as the update of line l, for the sum of the two quantities.
Folds(t, l) ==
  task' = [task EXCEPT ![t].at = "set_line", ![t].line = l, ![t].item = None,
                       ![t].quantity = line[l].quantity + @]

\* The three ways out of add_line's look at the lines.
LEMMA AddLinesOutcomes ==
  ASSUME NEW t \in Tasks, AddLines(t)
  PROVE  /\ task[t].at = "add_lines" /\ Reading
         /\ \/ Finish(t)
            \/ Goto(t, "add_clamp") /\ WithinBound(task[t].cart)
            \/ \E l \in LineIds : line[l].quantity + task[t].quantity <= MaxQuantity /\ Folds(t, l)
BY DEF AddLines, LiveLines, Folds

LEMMA VerbMoves ==
  ASSUME LinesInv, LinesAssumption, NEW t \in Tasks,
         Gate(t) \/ AddLines(t) \/ SetLine(t) \/ Clamp(t)
  PROVE  LinesInv'
<1>0. task[t] \in TaskState /\ Fits(t) /\ Twins(task[t].basket)
  BY DEF LinesInv, TypeOK, Sound
<1>1. ASSUME NEW at \in LineSteps, task[t].at \in LineSteps \ {"remove"}, Goto(t, at), Reading,
             at \in {"add_gate", "add_lines", "add_clamp", "insert"} => task[t].item \in Items
      PROVE  LinesInv'
  <2>. DEFINE new == [task[t] EXCEPT !.at = at]
  <2>1. /\ new \in TaskState /\ new.at = at /\ new.cart = task[t].cart /\ new.item = task[t].item
        /\ new.quantity = task[t].quantity /\ new.basket = task[t].basket
    BY <1>0 DEF TaskState
  <2>2. task' = [task EXCEPT ![t] = new]
    BY <1>1 DEF Goto
  <2>3. task[t].at # "idle"
    BY <1>1 DEF LineSteps
  <2>. HIDE DEF new
  <2>4. QED
    BY <1>0, <1>1, <2>1, <2>2, <2>3, VerbKeeps DEF Fits
<1>2. CASE Gate(t)
  <2>1. CASE task[t].at = "add_gate" /\ Goto(t, "add_lines")
    BY <1>0, <1>1, <1>2, <2>1 DEF Gate, Fits, LineSteps
  <2>2. CASE task[t].at = "set_gate" /\ Goto(t, "set_clamp")
    BY <1>0, <1>1, <1>2, <2>2 DEF Gate, Fits, LineSteps
  <2>3. \/ Finish(t) /\ Reading
        \/ task[t].at = "add_gate" /\ Goto(t, "add_lines")
        \/ task[t].at = "set_gate" /\ Goto(t, "set_clamp")
    BY <1>2 DEF Gate
  <2>4. QED
    BY <2>1, <2>2, <2>3, AnswerKeeps
<1>3. CASE Clamp(t)
  <2>1. CASE task[t].at = "add_clamp" /\ Goto(t, "insert")
    BY <1>0, <1>1, <1>3, <2>1 DEF Clamp, Fits, LineSteps
  <2>2. CASE task[t].at = "set_clamp" /\ Goto(t, "update")
    BY <1>0, <1>1, <1>3, <2>2 DEF Clamp, Fits, LineSteps
  <2>3. \/ Finish(t) /\ Reading
        \/ task[t].at = "add_clamp" /\ Goto(t, "insert")
        \/ task[t].at = "set_clamp" /\ Goto(t, "update")
    BY <1>3 DEF Clamp
  <2>4. QED
    BY <2>1, <2>2, <2>3, AnswerKeeps
<1>4. CASE AddLines(t)
  <2>1. task[t].cart \in Carts /\ task[t].quantity \in Quantities
    BY <1>0, <1>4, AddLinesOutcomes DEF Fits, LineSteps
  <2>2. ASSUME NEW l \in LineIds, line[l].quantity + task[t].quantity <= MaxQuantity, Folds(t, l)
        PROVE  LinesInv'
    <3>. DEFINE sum == line[l].quantity + task[t].quantity
                new == [task[t] EXCEPT !.at = "set_line", !.line = l, !.item = None,
                                       !.quantity = sum]
    <3>1. line[l].quantity \in Nat /\ task[t].quantity \in Nat \ {0}
      BY <2>1 DEF LinesInv, TypeOK, LineRow, Quantities
    <3>2. sum \in Quantities /\ sum \in 0..MaxQuantity
      BY <2>2, <3>1 DEF Quantities, LinesAssumption
    <3>3. /\ new \in TaskState /\ new.at = "set_line" /\ new.cart = task[t].cart
          /\ new.quantity = sum /\ new.basket = task[t].basket
      BY <1>0, <3>2 DEF TaskState, LineSteps
    <3>4. task' = [task EXCEPT ![t] = new]
      BY <1>0, <2>2 DEF Folds, TaskState, LinesInv, TypeOK
    <3>5. "set_line" \in LineSteps
      BY DEF LineSteps
    <3>. HIDE DEF new, sum
    <3>6. QED
      <4>1. "set_line" \notin {"add_gate", "add_lines", "add_clamp", "insert"} /\ Reading
        BY <1>4, AddLinesOutcomes
      <4>2. QED
        BY <1>0, <2>1, <3>2, <3>3, <3>4, <3>5, <4>1, VerbKeeps
  <2>3. CASE Goto(t, "add_clamp")
    <3>1. task[t].at = "add_lines" /\ Reading
      BY <1>4, AddLinesOutcomes
    <3>2. QED
      BY <1>0, <1>1, <2>3, <3>1 DEF Fits, LineSteps
  <2>4. QED
    BY <1>4, <2>2, <2>3, AddLinesOutcomes, AnswerKeeps
<1>5. CASE SetLine(t)
  <2>1. CASE /\ task[t].line \in LiveLines(task[t].cart)
             /\ task' = [task EXCEPT ![t].at = "set_gate", ![t].item = line[task[t].line].item]
    <3>. DEFINE i == line[task[t].line].item
                new == [task[t] EXCEPT !.at = "set_gate", !.item = i]
    <3>1. i \in Items \cup {None}
      BY <2>1 DEF LiveLines, LinesInv, TypeOK, LineRow
    <3>2. task[t].quantity \in Quantities /\ task[t].cart \in Carts
      BY <1>0, <1>5 DEF SetLine, Fits, LineSteps
    <3>3. /\ new \in TaskState /\ new.at = "set_gate" /\ new.cart = task[t].cart
          /\ new.quantity = task[t].quantity /\ new.basket = task[t].basket
      BY <1>0, <3>1 DEF TaskState, LineSteps
    <3>4. task' = [task EXCEPT ![t] = new]
      BY <1>0, <2>1 DEF TaskState, LinesInv, TypeOK
    <3>5. "set_gate" \in LineSteps
      BY DEF LineSteps
    <3>. HIDE DEF new
    <3>6. QED
      BY <1>0, <1>5, <3>2, <3>3, <3>4, <3>5, VerbKeeps DEF SetLine
  <2>2. QED
    BY <1>5, <2>1, AnswerKeeps DEF SetLine
<1>6. QED
  BY <1>2, <1>3, <1>4, <1>5

-----------------------------------------------------------------------------
\* A write of a line: whatever state its cart is in by now.
LEMMA LineKeeps ==
  ASSUME LinesInv, LinesAssumption, NEW t \in Tasks, Finish(t),
         UNCHANGED <<cart, lock, gate, free, order>>,
         NEW l \in LineIds, NEW new \in LineRow, line' = [line EXCEPT ![l] = new],
         new.state # "none" /\ new.cart \in Carts /\ new.item \in Items /\ new.quantity \in Quantities
  PROVE  LinesInv'
<1>1. line' \in [LineIds -> LineRow] /\ \A m \in LineIds : line'[m] = IF m = l THEN new ELSE line[m]
  BY DEF LinesInv, TypeOK
<1>2. Shaped'
  BY <1>1 DEF LinesInv, Shaped, Inserted
<1>3. CouponIsPriced' /\ ShortOnlyByTwins'
  BY DEF LinesInv, CouponIsPriced, ShortOnlyByTwins
<1>4. QED
  BY <1>1, <1>2, <1>3, IdleType, IdleSound, HandlerKeeps DEF Finish, LinesInv, TypeOK

LEMMA LineWrites ==
  ASSUME LinesInv, LinesAssumption, NEW t \in Tasks,
         (\E l \in LineIds : InsertLine(t, l)) \/ UpdateLine(t) \/ RemoveLine(t)
  PROVE  LinesInv'
<1>0. task[t] \in TaskState /\ Fits(t) /\ Shaped /\ line \in [LineIds -> LineRow]
  BY DEF LinesInv, TypeOK, Sound
<1>1. ASSUME NEW l \in LineIds, InsertLine(t, l) PROVE LinesInv'
  <2>. DEFINE new == [state |-> "live", cart |-> task[t].cart,
                      item |-> task[t].item, quantity |-> task[t].quantity]
  <2>1. task[t].cart \in Carts /\ task[t].item \in Items /\ task[t].quantity \in Quantities
    BY <1>0, <1>1 DEF InsertLine, Fits, LineSteps
  <2>2. new \in LineRow
    BY <1>0, <2>1 DEF LineRow, TaskState
  <2>3. QED
    BY <1>1, <2>1, <2>2, LineKeeps DEF InsertLine
<1>2. ASSUME UNCHANGED <<cart, lock, gate, free, order>>, line' = line, Finish(t) PROVE LinesInv'
  BY <1>2, AnswerKeeps DEF Reading
<1>3. ASSUME Hits(t)
      PROVE  task[t].line \in LineIds /\ Inserted(task[t].line) /\ line[task[t].line].state = "live"
  BY <1>0, <1>3 DEF Hits, LiveLines, Shaped
<1>4. CASE UpdateLine(t)
  <2>1. CASE Hits(t)
    <3>. DEFINE l == task[t].line
                new == [line[l] EXCEPT !.quantity = task[t].quantity]
    <3>1. task[t].quantity \in Quantities /\ task[t].quantity \in 0..MaxQuantity /\ line[l] \in LineRow
      BY <1>0, <1>3, <1>4, <2>1 DEF UpdateLine, Fits, LineSteps, TaskState
    <3>2. /\ new \in LineRow /\ new.state = line[l].state /\ new.cart = line[l].cart
          /\ new.item = line[l].item /\ new.quantity = task[t].quantity
      BY <3>1 DEF LineRow
    <3>3. line' = [line EXCEPT ![l] = new]
      BY <1>4, <2>1 DEF UpdateLine
    <3>. HIDE DEF new
    <3>4. QED
      BY <1>3, <1>4, <2>1, <3>1, <3>2, <3>3, LineKeeps DEF UpdateLine, Inserted
  <2>2. QED
    BY <1>2, <1>4, <2>1 DEF UpdateLine
<1>5. CASE RemoveLine(t)
  <2>1. CASE Hits(t)
    <3>. DEFINE l == task[t].line
                new == [line[l] EXCEPT !.state = "deleted"]
    <3>1. /\ new \in LineRow /\ new.state = "deleted" /\ new.cart = line[l].cart
          /\ new.item = line[l].item /\ new.quantity = line[l].quantity
      BY <1>0, <1>3, <2>1 DEF LineRow
    <3>2. line' = [line EXCEPT ![l] = new]
      BY <1>5, <2>1 DEF RemoveLine
    <3>. HIDE DEF new
    <3>3. QED
      BY <1>3, <1>5, <2>1, <3>1, <3>2, LineKeeps DEF RemoveLine, Inserted
  <2>2. QED
    BY <1>2, <1>5, <2>1 DEF RemoveLine
<1>6. QED
  BY <1>1, <1>4, <1>5

\* The coupon verbs wait for the lock and move open carts only.
LEMMA CouponKeeps ==
  ASSUME LinesInv, LinesAssumption, NEW t \in Tasks, Coupon(t)
  PROVE  LinesInv'
<1>. DEFINE c == task[t].cart
<1>0. /\ task[t] \in TaskState /\ Fits(t) /\ cart \in [Carts -> CartRow]
      /\ Finish(t) /\ UNCHANGED <<lock, line, gate, free, order>>
  BY DEF LinesInv, TypeOK, Sound, Coupon
<1>1. c \in Carts /\ lock[c] = None /\ task[t].coupon \in Coupons \cup {None}
  BY <1>0 DEF Coupon, Fits, TaskState
<1>2. \A d \in Carts : /\ cart'[d] \in CartRow /\ cart'[d].state = cart[d].state
                       /\ lock[d] # None \/ cart[d].state = "placed" => cart'[d] = cart[d]
  BY <1>0, <1>1 DEF Coupon, CartRow
<1>3. cart' \in [Carts -> CartRow]
  BY <1>0, <1>2 DEF Coupon
<1>4. Shaped' /\ CouponIsPriced' /\ ShortOnlyByTwins'
  BY <1>0, <1>2 DEF LinesInv, Shaped, Inserted, CouponIsPriced, ShortOnlyByTwins
<1>5. QED
  BY <1>0, <1>2, <1>3, <1>4, IdleType, IdleSound, HandlerKeeps DEF Finish, LinesInv, TypeOK

-----------------------------------------------------------------------------
\* The sum over the lines of an item that has no line, or one.
LEMMA AskedNone ==
  ASSUME NEW lines, NEW i, {x \in lines : x[2] = i} = {}
  PROVE  Asked(lines, i) = 0
<1>. DEFINE S == {x \in lines : x[2] = i}
            choose(s) == CHOOSE x \in s : TRUE
            body(g, s) == IF s = {} THEN 0 ELSE choose(s)[3] + g[s \ {choose(s)}]
            Fold(g) == g = [s \in SUBSET S |-> body(g, s)]
            iter == CHOOSE g : Fold(g)
<1>1. Asked(lines, i) = iter[S]
  BY Zenon DEF Asked, MapThenSumSet, MapThenFoldSet
<1>2. Fold([s \in SUBSET S |-> 0])
  OBVIOUS
<1>3. Fold(iter)
  BY <1>2, Zenon
<1>4. QED
  BY <1>1, <1>3

LEMMA AskedOne ==
  ASSUME NEW lines, NEW i, NEW b, {x \in lines : x[2] = i} = {b}, b[3] \in Nat
  PROVE  Asked(lines, i) = b[3]
<1>. DEFINE S == {x \in lines : x[2] = i}
            choose(s) == CHOOSE x \in s : TRUE
            body(g, s) == IF s = {} THEN 0 ELSE choose(s)[3] + g[s \ {choose(s)}]
            Fold(g) == g = [s \in SUBSET S |-> body(g, s)]
            iter == CHOOSE g : Fold(g)
            sum == [s \in SUBSET S |-> IF s = {} THEN 0 ELSE b[3]]
<1>1. Asked(lines, i) = iter[S]
  BY Zenon DEF Asked, MapThenSumSet, MapThenFoldSet
<1>2. \A s \in SUBSET S : s # {} => s = {b}
  OBVIOUS
<1>3. choose({b}) = b
  OBVIOUS
<1>4. Fold(sum)
  <2>1. \A s \in SUBSET S : sum[s] = body(sum, s)
    <3>1. ASSUME NEW s \in SUBSET S, s # {} PROVE sum[s] = body(sum, s)
      <4>1. s = {b} /\ s \ {choose(s)} = {} /\ {} \in SUBSET S
        BY <1>2, <1>3, <3>1
      <4>2. sum[{}] = 0 /\ sum[s] = b[3]
        BY <3>1, <4>1
      <4>. HIDE DEF sum
      <4>3. body(sum, s) = b[3] + 0
        BY <1>3, <3>1, <4>1, <4>2
      <4>4. QED
        BY <4>2, <4>3
    <3>2. QED
      BY <3>1
  <2>2. QED
    BY <2>1, Zenon
<1>5. Fold(iter)
  BY <1>4, Zenon
<1>6. QED
  <2>1. S = {b} /\ S \ {choose(S)} = {} /\ S \in SUBSET S /\ {} \in SUBSET S
    BY <1>3
  <2>. HIDE DEF iter
  <2>2. iter[{}] = 0 /\ iter[S] = choose(S)[3] + iter[S \ {choose(S)}]
    BY <1>5, <2>1
  <2>3. QED
    BY <1>1, <1>3, <2>1, <2>2

\* A basket whose every line is in stock is short only of an item two of its
\* lines ask for.
LEMMA ShortNeedsTwins ==
  ASSUME LinesAssumption, free \in [Items -> StockLevels],
         NEW lines \in SUBSET (LineIds \X Items \X Quantities), Gated(lines),
         NEW i \in Items, ~InStock(i, Asked(lines, i))
  PROVE  \E x, y \in lines : x # y /\ x[2] = i /\ y[2] = i
<1>. DEFINE S == {b \in lines : b[2] = i}
<1>1. free[i] \in Nat
  BY DEF LinesAssumption
<1>2. S # {}
  BY <1>1, AskedNone DEF InStock
<1>3. PICK b \in S : TRUE
  BY <1>2
<1>4. b[3] \in Nat /\ b[3] <= free[i]
  BY <1>3 DEF Quantities, Gated, InStock, LinesAssumption
<1>5. S # {b}
  BY <1>4, AskedOne DEF InStock
<1>6. QED
  BY <1>3, <1>5

\* Place, up to its commit.
LEMMA PlaceMoves ==
  ASSUME LinesInv, LinesAssumption, NEW t \in Tasks, PlaceLines(t) \/ PlaceStock(t)
  PROVE  LinesInv'
<1>0. task[t] \in TaskState /\ Sound(t) /\ task[t].basket \in Basket
  BY DEF LinesInv, TypeOK, TaskState
<1>. DEFINE c == task[t].cart
<1>1. CASE PlaceLines(t)
  <2>. DEFINE read == LiveLines(c)
              basket == [lines |-> {<<l, line[l].item, line[l].quantity>> : l \in read},
                         coupon |-> cart[c].coupon,
                         offGate |-> {line[l].item : l \in read} \ gate, short |-> {}]
              new == [task[t] EXCEPT !.at = "place_stock", !.basket = basket]
  <2>1. c \in Carts /\ lock[c] = t /\ cart[c].state = "open" /\ cart[c] \in CartRow
    BY <1>0, <1>1 DEF PlaceLines, Sound, Fits, Placing, PlaceSteps, LinesInv, TypeOK
  <2>2. \A l \in read : l \in LineIds /\ line[l].item \in Items /\ line[l].quantity \in Quantities
    BY DEF LinesInv, Shaped, Inserted, LiveLines
  <2>3. basket \in Basket
    <3>1. {<<l, line[l].item, line[l].quantity>> : l \in read}
            \in SUBSET (LineIds \X Items \X Quantities)
      BY <2>2
    <3>2. {line[l].item : l \in read} \ gate \in SUBSET Items
      BY <2>2
    <3>3. cart[c].coupon \in Coupons \cup {None}
      BY <2>1 DEF CartRow
    <3>4. QED
      BY <3>1, <3>2, <3>3 DEF Basket
  <2>4. basket.short = {} /\ basket.coupon = cart[c].coupon
    OBVIOUS
  <2>5. task' = [task EXCEPT ![t] = new] /\ Reading
    BY <1>1 DEF PlaceLines
  <2>. HIDE DEF basket
  <2>6. new \in TaskState /\ new.at = "place_stock" /\ new.cart = c /\ new.basket = basket
    BY <1>0, <2>3 DEF TaskState, PlaceSteps
  <2>. HIDE DEF new
  <2>7. task'[t] = new
    BY <2>5 DEF LinesInv, TypeOK
  <2>8. Sound(t)'
    BY <2>1, <2>4, <2>5, <2>6, <2>7 DEF Sound, Fits, Placing, Twins, Reading, LineSteps
  <2>9. QED
    BY <2>5, <2>6, <2>8, ReadingKeeps
<1>2. CASE PlaceStock(t)
  <2>. DEFINE lines == task[t].basket.lines
              short == {i \in Items : ~InStock(i, Asked(lines, i))}
              basket == [task[t].basket EXCEPT !.short = short]
              new == [task[t] EXCEPT !.at = "place_commit", !.basket = basket]
  <2>1. c \in Carts /\ lock[c] = t /\ cart[c].state = "open" /\ task[t].basket.coupon = cart[c].coupon
    BY <1>0, <1>2 DEF PlaceStock, Sound, Fits, Placing, PlaceSteps
  <2>2. /\ basket \in Basket /\ basket.lines = lines /\ basket.coupon = task[t].basket.coupon
        /\ basket.short = short
    BY <1>0 DEF Basket
  <2>3. Twins(basket)
    BY <1>0, <1>2, <2>2, ShortNeedsTwins DEF PlaceStock, Twins, Basket, LinesInv, TypeOK
  <2>4. task' = [task EXCEPT ![t] = new] /\ Reading
    BY <1>0, <1>2 DEF PlaceStock, TaskState, LinesInv, TypeOK
  <2>. HIDE DEF basket
  <2>5. new \in TaskState /\ new.at = "place_commit" /\ new.cart = c /\ new.basket = basket
    BY <1>0, <2>2 DEF TaskState, PlaceSteps
  <2>. HIDE DEF new
  <2>6. task'[t] = new
    BY <2>4 DEF LinesInv, TypeOK
  <2>7. Sound(t)'
    BY <2>1, <2>2, <2>3, <2>4, <2>5, <2>6 DEF Sound, Fits, Placing, Twins, Reading, LineSteps
  <2>8. QED
    BY <2>4, <2>5, <2>7, ReadingKeeps
<1>3. QED
  BY <1>1, <1>2

\* The row lock is taken on an open cart, and given back.
LEMMA LockKeeps ==
  ASSUME LinesInv, LinesAssumption, NEW t \in Tasks, NEW c \in Carts, PlaceLock(t, c)
  PROVE  LinesInv'
<1>. DEFINE new == [Idle EXCEPT !.at = "place_lines", !.cart = c]
<1>1. Idle \in TaskState /\ Idle.basket.short = {}
  BY IdleType
<1>2. new \in TaskState /\ new.at = "place_lines" /\ new.cart = c /\ new.basket = Idle.basket
  BY <1>1 DEF TaskState, PlaceSteps
<1>3. /\ task' = [task EXCEPT ![t] = new] /\ lock' = [lock EXCEPT ![c] = t]
      /\ lock[c] = None /\ cart[c].state = "open" /\ UNCHANGED <<cart, line, gate, free, order>>
  BY DEF PlaceLock
<1>. HIDE DEF new
<1>4. task'[t] = new /\ lock' \in [Carts -> Tasks \cup {None}] /\ lock'[c] = t
  BY <1>3 DEF LinesInv, TypeOK
<1>5. Sound(t)'
  BY <1>1, <1>2, <1>3, <1>4 DEF Sound, Fits, Placing, Twins, LineSteps
<1>6. Shaped' /\ CouponIsPriced' /\ ShortOnlyByTwins'
  BY <1>3 DEF LinesInv, Shaped, Inserted, CouponIsPriced, ShortOnlyByTwins
<1>7. QED
  BY <1>2, <1>3, <1>4, <1>5, <1>6, HandlerKeeps DEF LinesInv, TypeOK

LEMMA DropKeeps ==
  ASSUME LinesInv, LinesAssumption, NEW t \in Tasks, Drop(t)
  PROVE  LinesInv'
<1>1. /\ lock' \in [Carts -> Tasks \cup {None}]
      /\ \A c \in Carts : lock[c] \notin {None, t} => lock'[c] = lock[c]
      /\ Finish(t) /\ UNCHANGED <<cart, line, gate, free, order>>
  BY DEF Drop, Unlock, LinesInv, TypeOK
<1>2. Shaped' /\ CouponIsPriced' /\ ShortOnlyByTwins'
  BY <1>1 DEF LinesInv, Shaped, Inserted, CouponIsPriced, ShortOnlyByTwins
<1>3. QED
  BY <1>1, <1>2, IdleType, IdleSound, HandlerKeeps DEF Finish, LinesInv, TypeOK

LEMMA CommitKeeps ==
  ASSUME LinesInv, LinesAssumption, NEW t \in Tasks, PlaceCommit(t)
  PROVE  LinesInv'
<1>. DEFINE c == task[t].cart
<1>0. task[t] \in TaskState /\ Sound(t) /\ task[t].basket \in Basket
  BY DEF LinesInv, TypeOK, TaskState
<1>1. c \in Carts /\ lock[c] = t /\ task[t].basket.coupon = cart[c].coupon /\ Twins(task[t].basket)
  BY <1>0 DEF PlaceCommit, Sound, Fits, Placing, PlaceSteps
<1>2. /\ order' = [order EXCEPT ![c] = task[t].basket]
      /\ cart' = [cart EXCEPT ![c].state = "placed"]
      /\ Finish(t) /\ UNCHANGED <<line, gate, free>>
  BY DEF PlaceCommit
<1>3. /\ lock' \in [Carts -> Tasks \cup {None}]
      /\ \A d \in Carts : lock[d] \notin {None, t} => lock'[d] = lock[d] /\ cart'[d] = cart[d]
  BY <1>1, <1>2 DEF PlaceCommit, Unlock, LinesInv, TypeOK
<1>4. /\ order' \in [Carts -> Basket] /\ order'[c] = task[t].basket
      /\ \A d \in Carts \ {c} : order'[d] = order[d] /\ cart'[d] = cart[d]
  BY <1>0, <1>1, <1>2 DEF LinesInv, TypeOK
<1>5. cart[c] \in CartRow
  BY <1>1 DEF LinesInv, TypeOK
<1>6. cart' \in [Carts -> CartRow] /\ cart'[c].coupon = cart[c].coupon
  BY <1>1, <1>2, <1>5 DEF LinesInv, TypeOK, CartRow
<1>7. Shaped'
  BY <1>2 DEF LinesInv, Shaped, Inserted
<1>8. CouponIsPriced'
  BY <1>1, <1>4, <1>6 DEF LinesInv, CouponIsPriced
<1>9. ShortOnlyByTwins'
  BY <1>1, <1>4 DEF LinesInv, ShortOnlyByTwins, Twins
<1>10. QED
  BY <1>2, <1>3, <1>4, <1>6, <1>7, <1>8, <1>9, IdleType, IdleSound, HandlerKeeps
     DEF Finish, LinesInv, TypeOK

-----------------------------------------------------------------------------
LEMMA StepKeeps ==
  ASSUME LinesInv, LinesAssumption, [Next]_vars
  PROVE  LinesInv'
<1>1. CASE (\E i \in Items : SetGate(i) \/ \E n \in StockLevels : StockMoves(i, n)) \/ UNCHANGED vars
  BY <1>1 DEF SetGate, StockMoves, vars, LinesInv, TypeOK, Shaped, Inserted, CouponIsPriced,
     ShortOnlyByTwins, Sound, Fits, Placing, Twins
<1>2. ASSUME NEW t \in Tasks, Request(t) PROVE LinesInv'
  BY <1>2, RequestsKeep, LockKeeps DEF Request
<1>3. ASSUME NEW t \in Tasks, Work(t) PROVE LinesInv'
  BY <1>3, VerbMoves, LineWrites, CouponKeeps, PlaceMoves, CommitKeeps DEF Work
<1>4. ASSUME NEW t \in Tasks, Drop(t) PROVE LinesInv'
  BY <1>4, DropKeeps
<1>5. QED
  BY <1>1, <1>2, <1>3, <1>4 DEF Next

\* What the handlers carry stays in step with the cart their place holds.
THEOREM LinesInvariance == Spec => []LinesInv
<1>1. Init => LinesInv
  <2>1. SUFFICES ASSUME Init PROVE LinesInv
    OBVIOUS
  <2>2. Idle \in TaskState /\ NoBasket \in Basket /\ Idle.at = "idle" /\ Idle.basket.short = {}
        /\ NoBasket.short = {}
    BY IdleType, LinesAssumption DEF Idle, NoBasket
  <2>3. NoLine \in LineRow /\ NoLine.state = "none" /\ NoLine.cart = None
    BY LinesAssumption DEF NoLine, LineRow, LinesAssumption
  <2>4. TypeOK
    BY <2>1, <2>2, <2>3 DEF Init, TypeOK, CartRow
  <2>5. \A t \in Tasks : Sound(t)
    BY <2>1, <2>2 DEF Init, Sound, Fits, Placing, Twins, LineSteps, PlaceSteps
  <2>6. Shaped /\ CouponIsPriced /\ ShortOnlyByTwins
    BY <2>1, <2>2, <2>3 DEF Init, Shaped, CouponIsPriced, ShortOnlyByTwins
  <2>7. QED
    BY <2>4, <2>5, <2>6 DEF LinesInv
<1>2. LinesInv /\ [Next]_vars => LinesInv'
  BY StepKeeps, LinesAssumption
<1>3. QED
  BY <1>1, <1>2, PTL DEF Spec

\* Type correctness.
THEOREM TypesHold == Spec => []TypeOK
<1>1. LinesInv => TypeOK
  BY DEF LinesInv
<1>2. QED
  BY <1>1, LinesInvariance, PTL

\* The coupon an order was priced with is the coupon its cart shows.
THEOREM CouponsArePriced == Spec => []CouponIsPriced
<1>1. LinesInv => CouponIsPriced
  BY DEF LinesInv
<1>2. QED
  BY <1>1, LinesInvariance, PTL

\* An order is short of stock only by two lines of one item.
THEOREM TwinsAreShort == Spec => []ShortOnlyByTwins
<1>1. LinesInv => ShortOnlyByTwins
  BY DEF LinesInv
<1>2. QED
  BY <1>1, LinesInvariance, PTL

-----------------------------------------------------------------------------
\* A request of a line or coupon verb writes nothing, and its handler goes on to a step of
\* its own, which is none of a place.
LEMMA RequestsRead ==
  ASSUME NEW t \in Tasks, NEW c \in Carts,
         \/ \E i \in Items, q \in Requested : AddRequest(t, c, i, q)
         \/ \E l \in LiveLines(c), q \in Requested : SetRequest(t, c, l, q)
         \/ \E l \in LiveLines(c) : RemoveRequest(t, c, l)
         \/ \E k \in Coupons \cup {None} : CouponRequest(t, c, k)
  PROVE  Reading /\ task[t].at = "idle" /\ \E r : task' = [task EXCEPT ![t] = r]
<1>1. CASE \E i \in Items, q \in Requested : AddRequest(t, c, i, q)
  BY <1>1 DEF AddRequest
<1>2. CASE \E l \in LiveLines(c), q \in Requested : SetRequest(t, c, l, q)
  BY <1>2 DEF SetRequest
<1>3. CASE \E l \in LiveLines(c) : RemoveRequest(t, c, l)
  BY <1>3 DEF RemoveRequest
<1>4. CASE \E k \in Coupons \cup {None} : CouponRequest(t, c, k)
  BY <1>4 DEF CouponRequest
<1>5. QED
  BY <1>1, <1>2, <1>3, <1>4

\* Who writes what: the lines, the cart rows and the row locks.
LEMMA StepEffects ==
  ASSUME [Next]_vars
  PROVE  /\ \/ line' = line
            \/ \E t \in Tasks : (\E l \in LineIds : InsertLine(t, l)) \/ UpdateLine(t) \/ RemoveLine(t)
         /\ cart' = cart \/ \E t \in Tasks : Coupon(t) \/ PlaceCommit(t)
         /\ \/ lock' = lock
            \/ \E t \in Tasks : PlaceCommit(t) \/ Drop(t) \/ \E c \in Carts : PlaceLock(t, c)
<1>1. ASSUME NEW t \in Tasks, Request(t)
      PROVE  UNCHANGED <<cart, line>> /\ (lock' = lock \/ \E c \in Carts : PlaceLock(t, c))
  <2>1. ASSUME NEW c \in Carts, PlaceLock(t, c) PROVE UNCHANGED <<cart, line>>
    BY <2>1 DEF PlaceLock
  <2>2. ASSUME NEW c \in Carts,
               \/ \E i \in Items, q \in Requested : AddRequest(t, c, i, q)
               \/ \E l \in LiveLines(c), q \in Requested : SetRequest(t, c, l, q)
               \/ \E l \in LiveLines(c) : RemoveRequest(t, c, l)
               \/ \E k \in Coupons \cup {None} : CouponRequest(t, c, k)
        PROVE  UNCHANGED <<cart, line, lock>>
    <3>1. Reading
      BY <2>2, RequestsRead
    <3>2. QED
      BY <3>1 DEF Reading
  <2>3. QED
    BY <1>1, <2>1, <2>2 DEF Request
<1>2. ASSUME NEW t \in Tasks,
             Gate(t) \/ AddLines(t) \/ SetLine(t) \/ Clamp(t) \/ PlaceLines(t) \/ PlaceStock(t)
      PROVE  UNCHANGED <<cart, line, lock>>
  <2>1. CASE Gate(t) \/ AddLines(t) \/ SetLine(t)
    BY <2>1, AddLinesOutcomes DEF Gate, SetLine, Reading
  <2>2. CASE Clamp(t) \/ PlaceLines(t) \/ PlaceStock(t)
    BY <2>2 DEF Clamp, PlaceLines, PlaceStock, Reading
  <2>3. QED
    BY <1>2, <2>1, <2>2
<1>3. ASSUME NEW t \in Tasks,
             (\E l \in LineIds : InsertLine(t, l)) \/ UpdateLine(t) \/ RemoveLine(t)
      PROVE  UNCHANGED <<cart, lock>>
  BY <1>3 DEF InsertLine, UpdateLine, RemoveLine
<1>4. ASSUME NEW t \in Tasks, Coupon(t) PROVE UNCHANGED <<line, lock>>
  BY <1>4 DEF Coupon
<1>5. ASSUME NEW t \in Tasks, PlaceCommit(t) PROVE line' = line
  BY <1>5 DEF PlaceCommit
<1>6. ASSUME NEW t \in Tasks, Drop(t) PROVE UNCHANGED <<cart, line>>
  BY <1>6 DEF Drop
<1>7. CASE (\E i \in Items : SetGate(i) \/ \E n \in StockLevels : StockMoves(i, n)) \/ UNCHANGED vars
  BY <1>7 DEF SetGate, StockMoves, vars
<1>8. CASE \E t \in Tasks : Request(t) \/ Drop(t)
  BY <1>1, <1>6, <1>8
<1>9. CASE \E t \in Tasks : Work(t)
  <2>1. PICK t \in Tasks : Work(t)
    BY <1>9
  <2>2. QED
    BY <1>2, <1>3, <1>4, <1>5, <2>1 DEF Work
<1>10. QED
  BY <1>7, <1>8, <1>9 DEF Next

\* A request makes its handler's record, for a cart it read as open.
LEMMA RequestRow ==
  ASSUME NEW t \in Tasks, Request(t)
  PROVE  \E c \in Carts : \E r :
           /\ task' = [task EXCEPT ![t] = r] /\ cart[c].state = "open" /\ r.cart = c
           /\ r.at \in {"add_gate", "set_line", "remove", "coupon", "place_lines"}
<1>1. PICK c \in Carts :
        \/ \E i \in Items, q \in Requested : AddRequest(t, c, i, q)
        \/ \E l \in LiveLines(c), q \in Requested : SetRequest(t, c, l, q)
        \/ \E l \in LiveLines(c) : RemoveRequest(t, c, l)
        \/ \E k \in Coupons \cup {None} : CouponRequest(t, c, k)
        \/ PlaceLock(t, c)
  BY DEF Request
<1>2. CASE \E i \in Items, q \in Requested : AddRequest(t, c, i, q)
  <2>1. PICK i \in Items, q \in Requested : AddRequest(t, c, i, q)
    BY <1>2
  <2>. DEFINE r == [Idle EXCEPT !.at = "add_gate", !.cart = c, !.item = i, !.quantity = q]
  <2>2. r.at = "add_gate" /\ r.cart = c
    BY DEF Idle
  <2>3. task' = [task EXCEPT ![t] = r] /\ cart[c].state = "open"
    BY <2>1 DEF AddRequest, ReadsOpen
  <2>. HIDE DEF r
  <2>4. QED
    BY <2>2, <2>3
<1>3. CASE \E l \in LiveLines(c), q \in Requested : SetRequest(t, c, l, q)
  <2>1. PICK l \in LiveLines(c), q \in Requested : SetRequest(t, c, l, q)
    BY <1>3
  <2>. DEFINE r == [Idle EXCEPT !.at = "set_line", !.cart = c, !.line = l, !.quantity = q]
  <2>2. r.at = "set_line" /\ r.cart = c
    BY DEF Idle
  <2>3. task' = [task EXCEPT ![t] = r] /\ cart[c].state = "open"
    BY <2>1 DEF SetRequest, ReadsOpen
  <2>. HIDE DEF r
  <2>4. QED
    BY <2>2, <2>3
<1>4. CASE \E l \in LiveLines(c) : RemoveRequest(t, c, l)
  <2>1. PICK l \in LiveLines(c) : RemoveRequest(t, c, l)
    BY <1>4
  <2>. DEFINE r == [Idle EXCEPT !.at = "remove", !.cart = c, !.line = l]
  <2>2. r.at = "remove" /\ r.cart = c
    BY DEF Idle
  <2>3. task' = [task EXCEPT ![t] = r] /\ cart[c].state = "open"
    BY <2>1 DEF RemoveRequest, ReadsOpen
  <2>. HIDE DEF r
  <2>4. QED
    BY <2>2, <2>3
<1>5. CASE \E k \in Coupons \cup {None} : CouponRequest(t, c, k)
  <2>1. PICK k \in Coupons \cup {None} : CouponRequest(t, c, k)
    BY <1>5
  <2>. DEFINE r == [Idle EXCEPT !.at = "coupon", !.cart = c, !.coupon = k]
  <2>2. r.at = "coupon" /\ r.cart = c
    BY DEF Idle
  <2>3. task' = [task EXCEPT ![t] = r] /\ cart[c].state = "open"
    BY <2>1 DEF CouponRequest, ReadsOpen
  <2>. HIDE DEF r
  <2>4. QED
    BY <2>2, <2>3
<1>6. CASE PlaceLock(t, c)
  <2>. DEFINE r == [Idle EXCEPT !.at = "place_lines", !.cart = c]
  <2>1. r.at = "place_lines" /\ r.cart = c
    BY DEF Idle
  <2>2. task' = [task EXCEPT ![t] = r] /\ cart[c].state = "open"
    BY <1>6 DEF PlaceLock
  <2>. HIDE DEF r
  <2>3. QED
    BY <2>1, <2>2
<1>7. QED
  BY <1>1, <1>2, <1>3, <1>4, <1>5, <1>6

\* A line changes only by the last step of a verb that is about its cart.
Writes(t, l) ==
  /\ task[t].at \in LineSteps /\ task[t].cart \in Carts /\ line'[l].cart = task[t].cart
  /\ \/ line[l].state = "none"
     \/ line[l].state = "live" /\ line[l].cart = task[t].cart

LEMMA LineEffects ==
  ASSUME LinesInv, [Next]_vars, NEW l \in LineIds, line'[l] # line[l]
  PROVE  \E t \in Tasks : Writes(t, l)
<1>1. PICK t \in Tasks : (\E m \in LineIds : InsertLine(t, m)) \/ UpdateLine(t) \/ RemoveLine(t)
  BY StepEffects
<1>2. Fits(t) /\ line \in [LineIds -> LineRow] /\ line[l] \in LineRow
  BY DEF LinesInv, TypeOK, Sound
<1>3. ASSUME NEW m \in LineIds, InsertLine(t, m) PROVE Writes(t, l)
  BY <1>2, <1>3 DEF InsertLine, Writes, Fits, LineSteps
<1>4. ASSUME UpdateLine(t) \/ RemoveLine(t) PROVE Writes(t, l)
  <2>1. l = task[t].line /\ Hits(t) /\ task[t].at \in {"update", "remove"}
    BY <1>2, <1>4 DEF UpdateLine, RemoveLine
  <2>2. line'[l].cart = line[l].cart
    BY <1>2, <1>4 DEF UpdateLine, RemoveLine, LineRow
  <2>3. line[l].state = "live" /\ line[l].cart = task[t].cart
    BY <2>1 DEF Hits, LiveLines
  <2>4. task[t].at \in LineSteps /\ task[t].cart \in Carts
    BY <1>2, <2>1 DEF Fits, LineSteps
  <2>5. QED
    BY <2>2, <2>3, <2>4 DEF Writes
<1>5. QED
  BY <1>1, <1>3, <1>4

\* A request begins at the first step of its verb.
LEMMA RequestStarts ==
  ASSUME LinesInv, NEW t \in Tasks, Request(t)
  PROVE  /\ task'[t].at \notin {"add_clamp", "insert"}
         /\ \A u \in Tasks : u # t => task'[u] = task[u]
<1>1. task \in [Tasks -> TaskState]
  BY DEF LinesInv, TypeOK
<1>2. QED
  BY <1>1, RequestRow

\* A fold goes on as set_line_quantity of the same cart.
LEMMA FoldGoesOn ==
  ASSUME task \in [Tasks -> TaskState], NEW t \in Tasks, NEW l \in LineIds, Folds(t, l)
  PROVE  /\ task'[t].at = "set_line" /\ task'[t].cart = task[t].cart
         /\ \A u \in Tasks : u # t => task'[u] = task[u]
<1>. DEFINE new == [task[t] EXCEPT !.at = "set_line", !.line = l, !.item = None,
                                   !.quantity = line[l].quantity + task[t].quantity]
<1>1. task[t] \in TaskState
  OBVIOUS
<1>2. new.at = "set_line" /\ new.cart = task[t].cart
  BY <1>1 DEF TaskState
<1>3. task' = [task EXCEPT ![t] = new]
  BY <1>1 DEF Folds, TaskState
<1>. HIDE DEF new
<1>4. QED
  BY <1>2, <1>3

\* A handler starts on the lines of an open cart only.
LEMMA StartsOpen ==
  ASSUME LinesInv, [Next]_vars, NEW u \in Tasks, task'[u].at \in LineSteps, task'[u] # task[u]
  PROVE  \/ cart[task'[u].cart].state = "open"
         \/ task[u].at \in LineSteps /\ task'[u].cart = task[u].cart
<1>0. task \in [Tasks -> TaskState] /\ task[u] \in TaskState
  BY DEF LinesInv, TypeOK
<1>1. PICK t \in Tasks : Request(t) \/ Work(t) \/ Drop(t)
  BY DEF Next, vars, SetGate, StockMoves
<1>2. Idle.at = "idle" /\ "idle" \notin LineSteps /\ LineSteps \cap PlaceSteps = {}
  BY DEF Idle, LineSteps, PlaceSteps
<1>3. ~Finish(t)
  BY <1>0, <1>2 DEF Finish
<1>4. CASE Gate(t) \/ AddLines(t) \/ SetLine(t) \/ Clamp(t)
  <2>1. task[t].at \in LineSteps
    BY <1>4, AddLinesOutcomes DEF Gate, SetLine, Clamp, LineSteps
  <2>2. ASSUME NEW at \in LineSteps, Goto(t, at)
        PROVE  t = u /\ task'[u].cart = task[u].cart
    BY <1>0, <2>2 DEF Goto, TaskState
  <2>3. ASSUME Gate(t) \/ Clamp(t) PROVE \E at \in LineSteps : Goto(t, at)
    BY <1>3, <2>3 DEF Gate, Clamp, LineSteps
  <2>4. ASSUME AddLines(t), ~Goto(t, "add_clamp") PROVE t = u /\ task'[u].cart = task[u].cart
    <3>1. task'[t].cart = task[t].cart /\ \A v \in Tasks : v # t => task'[v] = task[v]
      <4>1. PICK l \in LineIds : Folds(t, l)
        BY <1>3, <2>4, AddLinesOutcomes
      <4>2. QED
        BY <1>0, <4>1, FoldGoesOn
    <3>2. QED
      BY <3>1
  <2>5. CASE SetLine(t)
    BY <1>0, <1>3, <2>1, <2>5 DEF SetLine, TaskState
  <2>6. "add_clamp" \in LineSteps
    BY DEF LineSteps
  <2>7. QED
    BY <1>4, <2>1, <2>2, <2>3, <2>4, <2>5, <2>6
<1>5. CASE Request(t)
  <2>0. PICK c \in Carts :
          \E r : task' = [task EXCEPT ![t] = r] /\ cart[c].state = "open" /\ r.cart = c
    BY <1>5, RequestRow
  <2>1. PICK r : task' = [task EXCEPT ![t] = r] /\ cart[c].state = "open" /\ r.cart = c
    BY <2>0
  <2>2. u = t /\ task'[u].cart = c
    BY <1>0, <2>1
  <2>3. QED
    BY <2>1, <2>2
<1>6. CASE PlaceLines(t) \/ PlaceStock(t)
  BY <1>0, <1>2, <1>6 DEF PlaceLines, PlaceStock, TaskState, PlaceSteps
<1>7. QED
  BY <1>1, <1>3, <1>4, <1>5, <1>6
     DEF Work, InsertLine, UpdateLine, RemoveLine, Coupon, PlaceCommit, Drop

\* Only line verbs that had read a cart open change its lines once it is placed.
THEOREM LateVerbs == Spec => LateVerbsOnly
<1>1. ASSUME LinesInv, [Next]_vars, NEW c \in Carts, cart[c].state = "placed"
      PROVE  /\ InFlight(c)' \subseteq InFlight(c)
             /\ InFlight(c) = {} =>
                  \A l \in LineIds : (line[l].cart = c \/ line'[l].cart = c) => line'[l] = line[l]
  <2>1. InFlight(c)' \subseteq InFlight(c)
    BY <1>1, StartsOpen DEF InFlight
  <2>2. ASSUME NEW l \in LineIds, line[l].cart = c \/ line'[l].cart = c, line'[l] # line[l]
        PROVE  InFlight(c) # {}
    <3>1. PICK t \in Tasks : Writes(t, l)
      BY <1>1, <2>2, LineEffects
    <3>2. line[l].cart = c => line[l].state # "none"
      BY <1>1, LinesAssumption DEF LinesInv, Shaped, LinesAssumption
    <3>3. t \in InFlight(c)
      BY <2>2, <3>1, <3>2 DEF Writes, InFlight
    <3>4. QED
      BY <3>3
  <2>3. QED
    BY <2>1, <2>2
<1>2. LinesInv /\ [Next]_vars => [LateLinesKeep]_vars
  BY <1>1 DEF LateLinesKeep
<1>3. QED
  BY <1>2, LinesInvariance, PTL DEF Spec, LateVerbsOnly

\* A removed line stays removed as it was.
THEOREM RemovedStay == Spec => RemovedStaysRemoved
<1>. DEFINE Stay == \A l \in LineIds : line[l].state = "deleted" => line'[l] = line[l]
<1>1. LinesInv /\ [Next]_vars => [Stay]_vars
  BY LineEffects DEF Writes
<1>2. QED
  BY <1>1, LinesInvariance, PTL DEF Spec, RemovedStaysRemoved

-----------------------------------------------------------------------------
\* The slack of the line bound is the handlers that have yet to insert.
LEMMA BoundKeeps ==
  ASSUME LinesInv, LinesAssumption, LineBoundSlack, [Next]_vars, NEW c \in Carts
  PROVE  Cardinality(LiveLines(c)') + Cardinality(Inserting(c)')
           < MaxCartLines + Cardinality(Tasks)
<1>. DEFINE LL == LiveLines(c)
            I  == Inserting(c)
<1>0. /\ line \in [LineIds -> LineRow] /\ task \in [Tasks -> TaskState]
      /\ Cardinality(LL) + Cardinality(I) < MaxCartLines + Cardinality(Tasks)
      /\ MaxCartLines \in Nat
  BY DEF LinesInv, TypeOK, LineBoundSlack, LinesAssumption
<1>1. IsFiniteSet(LineIds) /\ IsFiniteSet(Tasks)
  BY DEF LinesAssumption
<1>2. LL \subseteq LineIds /\ I \subseteq Tasks /\ LL' \subseteq LineIds /\ I' \subseteq Tasks
  BY DEF LiveLines, Inserting
<1>3. IsFiniteSet(LL) /\ IsFiniteSet(I) /\ IsFiniteSet(LL') /\ IsFiniteSet(I')
  BY <1>1, <1>2, FS_Subset
<1>4. /\ Cardinality(LL) \in Nat /\ Cardinality(I) \in Nat
      /\ Cardinality(LL') \in Nat /\ Cardinality(I') \in Nat /\ Cardinality(Tasks) \in Nat
  BY <1>1, <1>3, FS_CardinalityType
<1>5. ASSUME LL' \subseteq LL, I' \subseteq I
      PROVE  Cardinality(LL') + Cardinality(I') < MaxCartLines + Cardinality(Tasks)
  <2>1. Cardinality(LL') <= Cardinality(LL) /\ Cardinality(I') <= Cardinality(I)
    BY <1>3, <1>5, FS_Subset
  <2>2. QED
    BY <1>0, <1>4, <2>1
<1>6. ASSUME LL' = LL, Cardinality(LL) < MaxCartLines
      PROVE  Cardinality(LL') + Cardinality(I') < MaxCartLines + Cardinality(Tasks)
  <2>1. Cardinality(I') <= Cardinality(Tasks)
    BY <1>1, <1>2, FS_Subset
  <2>2. QED
    BY <1>0, <1>4, <1>6, <2>1
<1>7. ASSUME NEW l \in LineIds, NEW t \in I, LL' = LL \cup {l}, I' = I \ {t}
      PROVE  Cardinality(LL') + Cardinality(I') < MaxCartLines + Cardinality(Tasks)
  <2>1. Cardinality(LL') <= Cardinality(LL) + 1
    <3>1. Cardinality(LL \cup {l}) = IF l \in LL THEN Cardinality(LL) ELSE Cardinality(LL) + 1
      BY <1>3, FS_AddElement
    <3>2. QED
      BY <1>4, <1>7, <3>1
  <2>2. Cardinality(I') = Cardinality(I) - 1
    BY <1>3, <1>7, FS_RemoveElement
  <2>3. QED
    BY <1>0, <1>4, <2>1, <2>2
<1>. HIDE DEF LL, I
<1>8. ASSUME NEW t \in Tasks, NEW l \in LineIds, InsertLine(t, l)
      PROVE  Cardinality(LL') + Cardinality(I') < MaxCartLines + Cardinality(Tasks)
  <2>1. /\ I' = I \ {t}
        /\ t \in I <=> task[t].cart = c
    BY <1>0, <1>8 DEF InsertLine, Finish, Idle, Inserting, I
  <2>2. LL' = IF task[t].cart = c THEN LL \cup {l} ELSE LL
    BY <1>0, <1>8 DEF InsertLine, LiveLines, LL, LineRow
  <2>3. QED
    BY <1>5, <1>7, <2>1, <2>2
<1>9. ASSUME NEW t \in Tasks, UpdateLine(t) \/ RemoveLine(t)
      PROVE  LL' \subseteq LL /\ I' \subseteq I
  <2>1. LL' \subseteq LL
    BY <1>0, <1>9 DEF UpdateLine, RemoveLine, LiveLines, LL, LineRow
  <2>2. I' \subseteq I
    BY <1>0, <1>9 DEF UpdateLine, RemoveLine, Finish, Idle, Inserting, I
  <2>3. QED
    BY <2>1, <2>2
<1>10. ASSUME UNCHANGED line PROVE LL' = LL
  BY <1>10 DEF LiveLines, LL
<1>11. ASSUME NEW t \in Tasks, AddLines(t), ~(I' \subseteq I)
       PROVE  Cardinality(LL) < MaxCartLines
  <2>1. task[t].cart = c /\ WithinBound(c)
    <3>1. ~Finish(t) /\ task'[t].at # "set_line"
      <4>1. ASSUME \A u \in Tasks : u # t => task'[u] = task[u],
                   task'[t].at \notin {"add_clamp", "insert"}
            PROVE  FALSE
        BY <1>11, <4>1 DEF Inserting, I
      <4>2. \A u \in Tasks : u # t => task'[u] = task[u]
        BY <1>0, <1>11, AddLinesOutcomes, FoldGoesOn DEF Goto, Finish
      <4>3. Finish(t) => task'[t].at = "idle"
        BY <1>0 DEF Finish, Idle
      <4>4. QED
        BY <4>1, <4>2, <4>3
    <3>2. Goto(t, "add_clamp") /\ WithinBound(task[t].cart)
      <4>1. ASSUME NEW l \in LineIds, Folds(t, l) PROVE FALSE
        BY <1>0, <3>1, <4>1, FoldGoesOn
      <4>2. QED
        BY <1>11, <3>1, <4>1, AddLinesOutcomes
    <3>3. task'[t].cart = task[t].cart /\ \A u \in Tasks : u # t => task'[u] = task[u]
      BY <1>0, <3>2 DEF Goto, TaskState
    <3>4. task[t].cart = c
      BY <1>11, <3>3 DEF Inserting, I
    <3>5. QED
      BY <3>2, <3>4
  <2>2. QED
    BY <2>1 DEF WithinBound, LL
<1>12. ASSUME NEW t \in Tasks,
              \/ Request(t) \/ Drop(t) \/ Gate(t) \/ SetLine(t) \/ Clamp(t) \/ Coupon(t)
              \/ PlaceLines(t) \/ PlaceStock(t) \/ PlaceCommit(t)
       PROVE  LL' \subseteq LL /\ I' \subseteq I
  <2>1. line' = line
    <3>1. CASE Request(t)
      BY <3>1, RequestsRead DEF Request, PlaceLock, Reading
    <3>2. CASE ~Request(t)
      BY <1>12, <3>2 DEF Drop, Gate, SetLine, Clamp, Coupon, PlaceLines, PlaceStock, PlaceCommit, Reading
    <3>3. QED
      BY <3>1, <3>2
  <2>2. \A u \in Tasks : u # t => task'[u] = task[u]
    <3>1. CASE Request(t)
      BY <3>1, RequestStarts
    <3>2. CASE Gate(t) \/ Clamp(t) \/ Drop(t) \/ Coupon(t) \/ PlaceCommit(t)
      BY <1>0, <3>2 DEF Gate, Clamp, Drop, Coupon, PlaceCommit, Finish, Goto
    <3>3. CASE SetLine(t) \/ PlaceLines(t) \/ PlaceStock(t)
      BY <1>0, <3>3 DEF SetLine, PlaceLines, PlaceStock, Finish
    <3>4. QED
      BY <1>12, <3>1, <3>2, <3>3
  <2>3. ASSUME task'[t].at \in {"add_clamp", "insert"}
        PROVE  task[t].at \in {"add_clamp", "insert"} /\ task'[t].cart = task[t].cart
    <3>1. ~Finish(t)
      BY <1>0, <2>3 DEF Finish, Idle
    <3>2. ~Request(t)
      BY <2>3, RequestStarts
    <3>3. ~PlaceLines(t) /\ ~PlaceStock(t)
      BY <1>0, <2>3 DEF PlaceLines, PlaceStock, TaskState
    <3>4. ~SetLine(t)
      BY <1>0, <2>3, <3>1 DEF SetLine, TaskState
    <3>5. ~Gate(t)
      BY <1>0, <2>3, <3>1 DEF Gate, Goto, TaskState
    <3>6. Clamp(t) => task[t].at \in {"add_clamp", "insert"} /\ task'[t].cart = task[t].cart
      BY <1>0, <2>3, <3>1 DEF Clamp, Goto, TaskState
    <3>7. QED
      BY <1>12, <3>1, <3>2, <3>3, <3>4, <3>5, <3>6 DEF Drop, Coupon, PlaceCommit
  <2>4. I' \subseteq I
    BY <2>2, <2>3 DEF Inserting, I
  <2>5. LL' = LL
    BY <1>10, <2>1
  <2>6. QED
    BY <2>4, <2>5
<1>13. ASSUME (\E i \in Items : SetGate(i) \/ \E n \in StockLevels : StockMoves(i, n)) \/ UNCHANGED vars
       PROVE  LL' \subseteq LL /\ I' \subseteq I
  BY <1>10, <1>13 DEF SetGate, StockMoves, vars, Inserting, I
<1>14. ASSUME NEW t \in Tasks, AddLines(t) PROVE LL' = LL
  BY <1>10, <1>14, AddLinesOutcomes DEF Reading
<1>15. Cardinality(LL') + Cardinality(I') < MaxCartLines + Cardinality(Tasks)
  BY <1>5, <1>6, <1>8, <1>9, <1>11, <1>12, <1>13, <1>14 DEF Next, Work
<1>16. QED
  BY <1>15 DEF LL, I

\* Concurrent adds pass the line bound by less than their number.
THEOREM LinesAreBounded == Spec => []LineBoundSlack
<1>1. Init => LineBoundSlack
  <2>1. SUFFICES ASSUME Init, NEW c \in Carts
                 PROVE  Cardinality(LiveLines(c)) + Cardinality(Inserting(c))
                          < MaxCartLines + Cardinality(Tasks)
    BY DEF LineBoundSlack
  <2>2. LiveLines(c) = {} /\ Inserting(c) = {}
    BY <2>1 DEF Init, LiveLines, Inserting, NoLine, Idle
  <2>3. Cardinality(Tasks) \in Nat /\ MaxCartLines \in Nat \ {0}
    BY FS_CardinalityType, LinesAssumption DEF LinesAssumption
  <2>4. QED
    BY <2>2, <2>3, FS_EmptySet
<1>2. LinesInv /\ LineBoundSlack /\ [Next]_vars => LineBoundSlack'
  BY BoundKeeps, LinesAssumption DEF LineBoundSlack
<1>3. QED
  BY <1>1, <1>2, LinesInvariance, PTL DEF Spec

-----------------------------------------------------------------------------
(* The rules of the row lock. *)

\* Who holds a cart's row is placing that cart.
Holder(c, t) == lock[c] = t => task[t].at \in PlaceSteps /\ task[t].cart = c
Holders == \A c \in Carts, t \in Tasks : Holder(c, t)

\* A verb that is no place holds no row, and stays without.
LEMMA VerbsHoldNothing ==
  ASSUME LinesInv, Holders, NEW t \in Tasks, task[t].at \notin PlaceSteps, lock' = lock,
         \A u \in Tasks \ {t} : task'[u] = task[u]
  PROVE  Holders'
BY DEF Holders, Holder

\* The steps of a place after its lock, and before its end.
LEMMA PlacesHold ==
  ASSUME LinesInv, Holders, NEW t \in Tasks, PlaceLines(t) \/ PlaceStock(t)
  PROVE  Holders'
<1>1. task \in [Tasks -> TaskState] /\ task[t] \in TaskState
  BY DEF LinesInv, TypeOK
<1>2. lock' = lock /\ \A u \in Tasks \ {t} : task'[u] = task[u]
  BY <1>1 DEF PlaceLines, PlaceStock, Reading
<1>3. task'[t].at \in PlaceSteps /\ task'[t].cart = task[t].cart
  BY <1>1 DEF PlaceLines, PlaceStock, PlaceSteps, TaskState
<1>4. QED
  BY <1>2, <1>3 DEF Holders, Holder

LEMMA LockersHold ==
  ASSUME LinesInv, LinesAssumption, Holders, NEW t \in Tasks, NEW c \in Carts, PlaceLock(t, c)
  PROVE  Holders'
<1>1. Idle \in TaskState /\ task \in [Tasks -> TaskState] /\ lock \in [Carts -> Tasks \cup {None}]
  BY IdleType DEF LinesInv, TypeOK
<1>2. /\ task'[t].at = "place_lines" /\ task'[t].cart = c
      /\ \A u \in Tasks \ {t} : task'[u] = task[u]
  BY <1>1 DEF PlaceLock, TaskState
<1>3. \A d \in Carts : lock[d] # t
  BY DEF PlaceLock, PlaceSteps, Holders, Holder
<1>4. \A d \in Carts : lock'[d] = IF d = c THEN t ELSE lock[d]
  BY <1>1 DEF PlaceLock
<1>5. QED
  BY <1>2, <1>3, <1>4 DEF Holders, Holder, PlaceSteps

\* Whoever ends lets go.
LEMMA EndersLetGo ==
  ASSUME LinesInv, LinesAssumption, Holders, NEW t \in Tasks, Unlock(t), Finish(t)
  PROVE  Holders'
<1>1. \A c \in Carts : lock'[c] = IF lock[c] = t THEN None ELSE lock[c]
  BY DEF Unlock
<1>2. \A u \in Tasks \ {t} : task'[u] = task[u]
  BY DEF Finish, LinesInv, TypeOK
<1>3. None \notin Tasks
  BY DEF LinesAssumption
<1>4. QED
  BY <1>1, <1>2, <1>3 DEF Holders, Holder

LEMMA HoldersKeep == LinesInv /\ Holders /\ [Next]_vars => Holders'
<1> SUFFICES ASSUME LinesInv, Holders, [Next]_vars PROVE Holders'
  OBVIOUS
<1>0. task \in [Tasks -> TaskState]
  BY DEF LinesInv, TypeOK
<1>1. ASSUME NEW t \in Tasks, NEW c \in Carts,
             \/ \E i \in Items, q \in Requested : AddRequest(t, c, i, q)
             \/ \E l \in LiveLines(c), q \in Requested : SetRequest(t, c, l, q)
             \/ \E l \in LiveLines(c) : RemoveRequest(t, c, l)
             \/ \E k \in Coupons \cup {None} : CouponRequest(t, c, k)
      PROVE  Holders'
  <2>1. /\ task[t].at = "idle" /\ lock' = lock
        /\ \A u \in Tasks \ {t} : task'[u] = task[u]
    BY <1>0, <1>1, RequestsRead DEF Reading
  <2>2. QED
    BY <2>1, VerbsHoldNothing DEF PlaceSteps
<1>2. ASSUME NEW t \in Tasks, Request(t) PROVE Holders'
  BY <1>1, <1>2, LockersHold, LinesAssumption DEF Request
<1>3. ASSUME NEW t \in Tasks, Gate(t) \/ AddLines(t) \/ SetLine(t) \/ Clamp(t) PROVE Holders'
  <2>1. CASE AddLines(t)
    <3>1. task[t].at = "add_lines" /\ lock' = lock /\ \A u \in Tasks : u # t => task'[u] = task[u]
      BY <1>0, <2>1, AddLinesOutcomes, FoldGoesOn DEF Reading, Goto, Finish
    <3>2. QED
      BY <1>0, <3>1, VerbsHoldNothing DEF PlaceSteps
  <2>2. CASE Gate(t) \/ SetLine(t) \/ Clamp(t)
    BY <1>0, <2>2, VerbsHoldNothing DEF Gate, SetLine, Clamp, Goto, Finish, Reading, PlaceSteps
  <2>3. QED
    BY <1>3, <2>1, <2>2
<1>4. ASSUME NEW t \in Tasks,
             (\E l \in LineIds : InsertLine(t, l)) \/ UpdateLine(t) \/ RemoveLine(t) \/ Coupon(t)
      PROVE  Holders'
  BY <1>0, <1>4, VerbsHoldNothing DEF InsertLine, UpdateLine, RemoveLine, Coupon, Finish, PlaceSteps
<1>5. ASSUME NEW t \in Tasks, PlaceCommit(t) \/ Drop(t) PROVE Holders'
  BY <1>5, EndersLetGo, LinesAssumption DEF PlaceCommit, Drop
<1>6. CASE (\E i \in Items : SetGate(i) \/ \E n \in StockLevels : StockMoves(i, n)) \/ UNCHANGED vars
  BY <1>6 DEF SetGate, StockMoves, vars, Holders, Holder
<1>7. QED
  BY <1>2, <1>3, <1>4, <1>5, <1>6, PlacesHold DEF Next, Work

\* A handler that ends lets go of the row it places, or had none.
LEMMA UnlocksItsCart ==
  ASSUME LinesInv, Holders, NEW t \in Tasks, Unlock(t)
  PROVE  \/ lock' = lock
         \/ \E c \in Carts : lock[c] = t /\ lock' = [lock EXCEPT ![c] = None]
<1>1. lock \in [Carts -> Tasks \cup {None}] /\ lock' = [c \in Carts |-> IF lock[c] = t THEN None ELSE lock[c]]
  BY DEF Unlock, LinesInv, TypeOK
<1>2. \A c, d \in Carts : lock[c] = t /\ lock[d] = t => c = d
  BY DEF Holders, Holder
<1>3. QED
  BY <1>1, <1>2

\* The commit of a place is the place of CartLock.
LEMMA CommitPlaces ==
  ASSUME LinesInv, Holders, NEW t \in Tasks, PlaceCommit(t)
  PROVE  \E c \in Carts : L!Place(t, c)
<1>. DEFINE c == task[t].cart
<1>1. c \in Carts /\ lock[c] = t /\ cart[c].state = "open"
  BY DEF PlaceCommit, LinesInv, Sound, Fits, Placing, PlaceSteps
<1>2. lock' = [lock EXCEPT ![c] = None]
  <2>1. \A d \in Carts : lock[d] = t => d = c
    BY DEF Holders, Holder
  <2>2. QED
    BY <1>1, <2>1 DEF PlaceCommit, Unlock, LinesInv, TypeOK
<1>3. /\ cart' = [cart EXCEPT ![c].state = "placed"]
      /\ cart \in [Carts -> CartRow] /\ cart[c] \in CartRow
  BY <1>1 DEF PlaceCommit, LinesInv, TypeOK
<1>4. [d \in Carts |-> cart'[d].state]
        = [[d \in Carts |-> cart[d].state] EXCEPT ![c] = "placed"]
  <2>. DEFINE row == [cart[c] EXCEPT !.state = "placed"]
  <2>1. cart' = [cart EXCEPT ![c] = row] /\ row.state = "placed"
    BY <1>1, <1>3 DEF CartRow
  <2>. HIDE DEF row
  <2>2. \A d \in Carts : cart'[d].state = IF d = c THEN "placed" ELSE cart[d].state
    BY <1>1, <1>3, <2>1
  <2>. HIDE DEF c
  <2>3. QED
    BY <1>1, <2>2
<1>5. QED
  BY <1>1, <1>2, <1>4 DEF L!Place

\* No other step of this module changes the state of a cart.
LEMMA StatesStay ==
  ASSUME LinesInv, [Next]_vars, ~\E t \in Tasks : PlaceCommit(t)
  PROVE  [c \in Carts |-> cart'[c].state] = [c \in Carts |-> cart[c].state]
<1>1. ASSUME NEW t \in Tasks, Coupon(t) PROVE \A c \in Carts : cart'[c].state = cart[c].state
  BY <1>1 DEF Coupon, LinesInv, TypeOK, CartRow
<1>2. cart' = cart \/ \E t \in Tasks : Coupon(t)
  BY StepEffects
<1>3. QED
  BY <1>1, <1>2

\* Every step of CartLines is a step of CartLock or invisible to it.
LEMMA LockSimulated == LinesInv /\ Holders /\ [Next]_vars => [L!Next]_(L!vars)
<1> SUFFICES ASSUME LinesInv, Holders, [Next]_vars PROVE [L!Next]_(L!vars)
  OBVIOUS
<1>1. ASSUME NEW t \in Tasks, PlaceCommit(t) PROVE [L!Next]_(L!vars)
  BY <1>1, CommitPlaces DEF L!Next
<1>2. ASSUME ~\E t \in Tasks : PlaceCommit(t), NEW t \in Tasks, Drop(t) PROVE [L!Next]_(L!vars)
  <2>1. lock' = lock \/ \E c \in Carts : lock[c] = t /\ lock' = [lock EXCEPT ![c] = None]
    BY <1>2, UnlocksItsCart DEF Drop
  <2>2. QED
    BY <1>2, <2>1, StatesStay DEF L!Next, L!Release, L!vars
<1>3. ASSUME ~\E t \in Tasks : PlaceCommit(t), NEW t \in Tasks, NEW c \in Carts, PlaceLock(t, c)
      PROVE  [L!Next]_(L!vars)
  <2>1. \A d \in Carts : lock[d] # t
    BY <1>3 DEF PlaceLock, PlaceSteps, Holders, Holder
  <2>2. lock[c] = None /\ cart[c].state = "open" /\ lock' = [lock EXCEPT ![c] = t]
    BY <1>3 DEF PlaceLock
  <2>3. QED
    BY <1>3, <2>1, <2>2, StatesStay DEF L!Next, L!Acquire
<1>4. CASE lock' = lock /\ ~\E t \in Tasks : PlaceCommit(t)
  BY <1>4, StatesStay DEF L!vars
<1>5. QED
  <2>1. \/ lock' = lock
        \/ \E t \in Tasks : PlaceCommit(t) \/ Drop(t) \/ \E c \in Carts : PlaceLock(t, c)
    BY StepEffects
  <2>2. QED
    BY <1>1, <1>2, <1>3, <1>4, <2>1

\* The place that reads the lines keeps the rules of the row lock, and no line
\* or coupon verb breaks them.
THEOREM LinesKeepLock == Spec => KeepsCartLock
<1>1. Init => L!Init /\ Holders
  BY LinesAssumption DEF Init, L!Init, Holders, Holder, LinesAssumption
<1>2. QED
  BY <1>1, HoldersKeep, LockSimulated, LinesInvariance, PTL DEF Spec, KeepsCartLock, L!Spec
=============================================================================
