--------------------------- MODULE SerialAddsProofs ---------------------------
(***************************************************************************)
(* What CartLines promises when no two adds of one item to one cart are    *)
(* between the look at the lines and the insert at the same time: the      *)
(* documented one line per item, and no order of more than was free.  The  *)
(* hypothesis is about these two steps alone; adds of other items, updates,*)
(* removals, coupons, places and lost handlers interleave as before.       *)
(***************************************************************************)
EXTENDS CartLinesProofs

\* The steps of add_line after its look at the lines.
Adds == {"add_clamp", "insert"}

AddsDoNotOverlap ==
  \A t, u \in Tasks :
    t # u /\ task[t].at \in Adds /\ task[u].at \in Adds /\ task[t].cart = task[u].cart =>
      task[t].item # task[u].item

OnePerItem(b) == \A x, y \in b.lines : x[2] = y[2] => x = y

\* What handler t is going to insert its cart does not have yet, and what it
\* is going to order has one line per item.
Apart(t) ==
  /\ task[t].at \in Adds => \A l \in LiveLines(task[t].cart) : line[l].item # task[t].item
  /\ task[t].at \in {"place_stock", "place_commit"} => OnePerItem(task[t].basket)

ApartInv ==
  /\ OneLinePerItem
  /\ \A t \in Tasks : Apart(t)
  /\ \A c \in Carts : OnePerItem(order[c])

\* An order asks for no more of an item than was free as it passed the gate.
NothingShort == \A c \in Carts : order[c].short = {}

-----------------------------------------------------------------------------
\* An add that goes on to its insert found no line of the item.
LEMMA FirstOfItem ==
  ASSUME LinesInv, NEW t \in Tasks, AddLines(t), task'[t].at = "add_clamp"
  PROVE  \A l \in LiveLines(task[t].cart) : line[l].item # task[t].item
<1>. DEFINE same == {l \in LiveLines(task[t].cart) : line[l].item = task[t].item}
<1>1. task \in [Tasks -> TaskState]
  BY DEF LinesInv, TypeOK
<1>2. \/ \E l \in LineIds : Folds(t, l)
      \/ same = {}
  BY DEF AddLines, Folds, LiveLines
<1>3. ~\E l \in LineIds : Folds(t, l)
  BY <1>1, FoldGoesOn
<1>4. QED
  BY <1>2, <1>3

\* How a handler comes to a step at which Apart asks something of it.
LEMMA Arrivals ==
  ASSUME LinesInv, [Next]_vars, NEW u \in Tasks, task'[u] # task[u],
         task'[u].at \in Adds \cup {"place_stock", "place_commit"}
  PROVE  \/ AddLines(u) /\ Goto(u, "add_clamp")
         \/ Clamp(u) /\ Goto(u, "insert")
         \/ PlaceLines(u) \/ PlaceStock(u)
<1>0. task \in [Tasks -> TaskState] /\ task[u] \in TaskState
  BY DEF LinesInv, TypeOK
<1>1. PICK t \in Tasks : Request(t) \/ Work(t) \/ Drop(t)
  BY DEF Next, vars, SetGate, StockMoves
<1>2. ~Finish(t)
  BY <1>0 DEF Finish, Idle, Adds
<1>3. ASSUME NEW at \in LineSteps, Goto(t, at) PROVE t = u /\ task'[u].at = at
  BY <1>0, <1>3 DEF Goto, TaskState
<1>4. LineSteps \cap {"place_stock", "place_commit"} = {}
  BY DEF LineSteps
<1>5. CASE Request(t)
  <2>1. PICK c \in Carts :
          \E r : task' = [task EXCEPT ![t] = r]
                 /\ r.at \in {"add_gate", "set_line", "remove", "coupon", "place_lines"}
    BY <1>5, RequestRow
  <2>2. QED
    BY <1>0, <2>1 DEF Adds
<1>6. CASE Gate(t)
  <2>1. Goto(t, "add_lines") \/ Goto(t, "set_clamp")
    BY <1>2, <1>6 DEF Gate
  <2>2. QED
    BY <1>3, <2>1 DEF LineSteps, Adds
<1>7. CASE AddLines(t)
  <2>1. ASSUME NEW l \in LineIds, Folds(t, l) PROVE FALSE
    BY <1>0, <2>1, FoldGoesOn DEF Adds
  <2>2. Goto(t, "add_clamp")
    BY <1>2, <1>7, <2>1, AddLinesOutcomes
  <2>3. QED
    BY <1>3, <1>7, <2>2 DEF LineSteps
<1>8. CASE SetLine(t)
  <2>1. task' = [task EXCEPT ![t].at = "set_gate", ![t].item = line[task[t].line].item]
    BY <1>2, <1>8 DEF SetLine
  <2>2. QED
    BY <1>0, <2>1 DEF TaskState, Adds
<1>9. CASE Clamp(t)
  <2>1. Goto(t, "insert") \/ Goto(t, "update")
    BY <1>2, <1>9 DEF Clamp
  <2>2. QED
    BY <1>3, <1>9, <2>1 DEF LineSteps, Adds
<1>10. CASE PlaceLines(t) \/ PlaceStock(t)
  BY <1>0, <1>10 DEF PlaceLines, PlaceStock
<1>11. QED
  BY <1>1, <1>2, <1>5, <1>6, <1>7, <1>8, <1>9, <1>10
     DEF Work, InsertLine, UpdateLine, RemoveLine, Coupon, PlaceCommit, Drop

-----------------------------------------------------------------------------
\* A place reads each item once from a cart with one line per item.
LEMMA ReadsOnePerItem ==
  ASSUME LinesInv, OneLinePerItem, NEW t \in Tasks, PlaceLines(t)
  PROVE  OnePerItem(task'[t].basket)
<1>. DEFINE c == task[t].cart
            rows == {<<l, line[l].item, line[l].quantity>> : l \in LiveLines(c)}
            basket == [lines |-> rows, coupon |-> cart[c].coupon,
                       offGate |-> {line[l].item : l \in LiveLines(c)} \ gate, short |-> {}]
<1>1. c \in Carts /\ task[t] \in TaskState /\ task \in [Tasks -> TaskState]
  BY DEF PlaceLines, LinesInv, TypeOK, Sound, Fits
<1>2. task' = [task EXCEPT ![t].at = "place_stock", ![t].basket = basket]
  BY DEF PlaceLines
<1>3. basket.lines = rows
  OBVIOUS
<1>4. \A x, y \in rows : x[2] = y[2] => x = y
  BY <1>1 DEF OneLinePerItem
<1>. HIDE DEF basket, rows
<1>5. task'[t].basket = basket
  BY <1>1, <1>2 DEF TaskState
<1>6. QED
  BY <1>3, <1>4, <1>5 DEF OnePerItem

\* The stock gate orders the lines it was given.
LEMMA GateKeepsLines ==
  ASSUME LinesInv, NEW t \in Tasks, PlaceStock(t)
  PROVE  task[t].at = "place_stock" /\ task'[t].basket.lines = task[t].basket.lines
<1>. DEFINE short == {i \in Items : ~InStock(i, Asked(task[t].basket.lines, i))}
<1>1. task[t] \in TaskState /\ task \in [Tasks -> TaskState] /\ task[t].basket \in Basket
  BY DEF LinesInv, TypeOK, TaskState
<1>2. /\ task[t].at = "place_stock"
      /\ task' = [task EXCEPT ![t].at = "place_commit", ![t].basket.short = short]
  BY DEF PlaceStock
<1>. HIDE DEF short
<1>3. QED
  BY <1>1, <1>2 DEF TaskState, Basket

\* A handler carries its cart and its item from one step of an add to the next.
LEMMA AddGoesOn ==
  ASSUME LinesInv, NEW t \in Tasks, NEW at \in LineSteps, Goto(t, at)
  PROVE  /\ task'[t].at = at
         /\ task'[t].cart = task[t].cart /\ task'[t].item = task[t].item
BY DEF LinesInv, TypeOK, Goto, TaskState

-----------------------------------------------------------------------------
\* Live lines come to a cart by an insert alone, and keep their item.
LEMMA LiveLinesGrow ==
  ASSUME LinesInv, [Next]_vars, NEW c \in Carts, NEW l \in LiveLines(c)'
  PROVE  \/ l \in LiveLines(c) /\ line'[l].item = line[l].item
         \/ \E t \in Tasks :
              /\ InsertLine(t, l) /\ task[t].cart = c
              /\ line'[l].item = task[t].item
              /\ \A m \in LineIds \ {l} : line'[m] = line[m]
<1>1. l \in LineIds /\ line'[l].state = "live" /\ line'[l].cart = c
  BY DEF LiveLines
<1>2. line \in [LineIds -> LineRow] /\ line[l] \in LineRow
  BY <1>1 DEF LinesInv, TypeOK
<1>3. CASE line'[l] = line[l]
  BY <1>1, <1>3 DEF LiveLines
<1>4. CASE line'[l] # line[l]
  <2>1. PICK t \in Tasks : (\E m \in LineIds : InsertLine(t, m)) \/ UpdateLine(t) \/ RemoveLine(t)
    BY <1>4, StepEffects
  <2>2. CASE \E m \in LineIds : InsertLine(t, m)
    <3>1. PICK m \in LineIds : InsertLine(t, m)
      BY <2>2
    <3>2. m = l
      BY <1>2, <1>4, <3>1 DEF InsertLine
    <3>3. InsertLine(t, l)
      BY <3>1, <3>2
    <3>4. QED
      BY <1>1, <1>2, <3>3 DEF InsertLine
  <2>3. CASE UpdateLine(t)
    BY <1>1, <1>2, <1>4, <2>3 DEF UpdateLine, LiveLines, LineRow, Hits
  <2>4. CASE RemoveLine(t)
    BY <1>1, <1>2, <1>4, <2>4 DEF RemoveLine, LineRow
  <2>5. QED
    BY <2>1, <2>2, <2>3, <2>4
<1>5. QED
  BY <1>3, <1>4

\* The lines of a cart stay of different items: an insert adds the first one.
LEMMA LinesStayApart ==
  ASSUME LinesInv, ApartInv, [Next]_vars
  PROVE  OneLinePerItem'
<1>1. SUFFICES ASSUME NEW c \in Carts, NEW l \in LiveLines(c)', NEW m \in LiveLines(c)',
                      line'[l].item = line'[m].item, l # m
               PROVE  FALSE
  BY DEF OneLinePerItem
<1>2. l \in LineIds /\ m \in LineIds
  BY DEF LiveLines
<1>3. ASSUME NEW a \in LiveLines(c)', NEW b \in LiveLines(c)', NEW t \in Tasks, a # b,
             InsertLine(t, a), task[t].cart = c, line'[a].item = task[t].item,
             \A n \in LineIds \ {a} : line'[n] = line[n]
      PROVE  line'[a].item # line'[b].item
  <2>1. b \in LiveLines(c) /\ line'[b].item = line[b].item
    BY <1>3 DEF LiveLines
  <2>2. task[t].at \in Adds
    BY <1>3 DEF InsertLine, Adds
  <2>3. QED
    BY <1>3, <2>1, <2>2 DEF ApartInv, Apart
<1>4. l \in LiveLines(c) /\ line'[l].item = line[l].item
  BY <1>1, <1>3, LiveLinesGrow
<1>5. m \in LiveLines(c) /\ line'[m].item = line[m].item
  BY <1>1, <1>3, LiveLinesGrow
<1>6. QED
  BY <1>1, <1>4, <1>5 DEF ApartInv, OneLinePerItem

\* What a handler is about to insert stays new to its cart.
LEMMA AddsStayApart ==
  ASSUME LinesInv, ApartInv, AddsDoNotOverlap, [Next]_vars, NEW t \in Tasks,
         task'[t].at \in Adds,
         NEW l \in LineIds, line'[l].state = "live", line'[l].cart = task'[t].cart
  PROVE  line'[l].item # task'[t].item
<1>0. task \in [Tasks -> TaskState]
  BY DEF LinesInv, TypeOK
<1>1. CASE task'[t] = task[t]
  <2>1. PICK c \in Carts : task[t].cart = c
    BY <1>1 DEF LinesInv, Sound, Fits, Adds
  <2>2. l \in LiveLines(c)'
    BY <1>1, <2>1 DEF LiveLines
  <2>3. CASE l \in LiveLines(c) /\ line'[l].item = line[l].item
    BY <1>1, <2>1, <2>3 DEF ApartInv, Apart
  <2>4. ASSUME NEW u \in Tasks, InsertLine(u, l), task[u].cart = c,
               line'[l].item = task[u].item
        PROVE  line'[l].item # task'[t].item
    <3>1. task[u].at = "insert" /\ task'[u].at = "idle"
      BY <1>0, <2>4 DEF InsertLine, Finish, Idle
    <3>2. u # t /\ task[u].at \in Adds
      BY <1>1, <3>1 DEF Adds
    <3>3. QED
      BY <1>1, <2>1, <2>4, <3>2 DEF AddsDoNotOverlap
  <2>5. QED
    BY <2>2, <2>3, <2>4, LiveLinesGrow
<1>2. CASE task'[t] # task[t]
  <2>1. (AddLines(t) /\ Goto(t, "add_clamp")) \/ (Clamp(t) /\ Goto(t, "insert"))
    <3>1. ~PlaceLines(t) /\ ~PlaceStock(t)
      BY <1>0 DEF PlaceLines, PlaceStock, Adds, TaskState
    <3>2. QED
      BY <1>2, <3>1, Arrivals
  <2>2. "add_clamp" \in LineSteps /\ "insert" \in LineSteps
    BY DEF LineSteps
  <2>3. task'[t].cart = task[t].cart /\ task'[t].item = task[t].item
    BY <2>1, <2>2, AddGoesOn
  <2>4. l \in LiveLines(task[t].cart) /\ line'[l].item = line[l].item
    <3>1. line' = line
      BY <2>1, AddLinesOutcomes DEF Clamp, Reading
    <3>2. QED
      BY <2>3, <3>1 DEF LiveLines
  <2>5. CASE AddLines(t) /\ Goto(t, "add_clamp")
    BY <2>2, <2>3, <2>4, <2>5, AddGoesOn, FirstOfItem
  <2>6. CASE Clamp(t) /\ Goto(t, "insert")
    <3>1. task[t].at = "add_clamp"
      <4>1. task'[t].at = "insert"
        BY <2>2, <2>6, AddGoesOn
      <4>2. ~Goto(t, "update") /\ ~Finish(t)
        BY <1>0, <4>1 DEF Goto, Finish, Idle, TaskState
      <4>3. QED
        BY <2>6, <4>2 DEF Clamp
    <3>2. QED
      BY <2>3, <2>4, <3>1 DEF ApartInv, Apart, Adds
  <2>7. QED
    BY <2>1, <2>5, <2>6
<1>3. QED
  BY <1>1, <1>2

\* What a place is going to order stays of one line per item.
LEMMA BasketsStayApart ==
  ASSUME LinesInv, ApartInv, [Next]_vars, NEW t \in Tasks,
         task'[t].at \in {"place_stock", "place_commit"}
  PROVE  OnePerItem(task'[t].basket)
<1>0. task \in [Tasks -> TaskState]
  BY DEF LinesInv, TypeOK
<1>1. CASE task'[t] = task[t]
  BY <1>1 DEF ApartInv, Apart
<1>2. CASE task'[t] # task[t]
  <2>1. PlaceLines(t) \/ PlaceStock(t)
    <3>1. ASSUME NEW at \in LineSteps, Goto(t, at) PROVE FALSE
      BY <3>1, AddGoesOn DEF LineSteps
    <3>2. "add_clamp" \in LineSteps /\ "insert" \in LineSteps
      BY DEF LineSteps
    <3>3. QED
      BY <1>2, <3>1, <3>2, Arrivals
  <2>2. CASE PlaceLines(t)
    BY <2>2, ReadsOnePerItem DEF ApartInv
  <2>3. CASE PlaceStock(t)
    BY <2>3, GateKeepsLines DEF ApartInv, Apart, OnePerItem
  <2>4. QED
    BY <2>1, <2>2, <2>3
<1>3. QED
  BY <1>1, <1>2

\* An order is what its place carried to the commit.
LEMMA OrdersStayApart ==
  ASSUME LinesInv, ApartInv, [Next]_vars, NEW c \in Carts
  PROVE  OnePerItem(order'[c])
<1>1. ASSUME NEW t \in Tasks, PlaceCommit(t) PROVE OnePerItem(order'[c])
  <2>1. OnePerItem(task[t].basket) /\ OnePerItem(order[c])
    BY <1>1 DEF PlaceCommit, ApartInv, Apart
  <2>2. order'[c] \in {order[c], task[t].basket}
    BY <1>1 DEF PlaceCommit, LinesInv, TypeOK
  <2>3. QED
    BY <2>1, <2>2
<1>2. order' = order \/ \E t \in Tasks : PlaceCommit(t)
  <2>1. ASSUME NEW t \in Tasks, Request(t) PROVE order' = order
    <3>1. ASSUME NEW d \in Carts, PlaceLock(t, d) PROVE order' = order
      BY <3>1 DEF PlaceLock
    <3>2. QED
      BY <2>1, <3>1, RequestsRead DEF Request, Reading
  <2>2. ASSUME NEW t \in Tasks, Gate(t) \/ AddLines(t) \/ SetLine(t) \/ Clamp(t) PROVE order' = order
    BY <2>2, AddLinesOutcomes DEF Gate, SetLine, Clamp, Reading
  <2>3. ASSUME NEW t \in Tasks,
               (\E l \in LineIds : InsertLine(t, l)) \/ UpdateLine(t) \/ RemoveLine(t) \/ Coupon(t)
        PROVE  order' = order
    BY <2>3 DEF InsertLine, UpdateLine, RemoveLine, Coupon
  <2>4. ASSUME NEW t \in Tasks, PlaceLines(t) \/ PlaceStock(t) \/ Drop(t) PROVE order' = order
    BY <2>4 DEF PlaceLines, PlaceStock, Drop, Reading
  <2>5. CASE (\E i \in Items : SetGate(i) \/ \E n \in StockLevels : StockMoves(i, n)) \/ UNCHANGED vars
    BY <2>5 DEF SetGate, StockMoves, vars
  <2>6. QED
    BY <2>1, <2>2, <2>3, <2>4, <2>5 DEF Next, Work
<1>3. QED
  BY <1>1, <1>2 DEF ApartInv

-----------------------------------------------------------------------------
LEMMA ApartKeeps ==
  ASSUME LinesInv, ApartInv, AddsDoNotOverlap, [Next]_vars
  PROVE  ApartInv'
<1>1. ASSUME NEW t \in Tasks PROVE Apart(t)'
  <2>1. task'[t].at \in Adds => \A l \in LiveLines(task[t].cart)' : line'[l].item # task'[t].item
    BY AddsStayApart DEF LiveLines
  <2>2. task'[t].at \in {"place_stock", "place_commit"} => OnePerItem(task[t].basket)'
    BY BasketsStayApart DEF OnePerItem
  <2>3. QED
    BY <2>1, <2>2 DEF Apart, Adds
<1>2. \A c \in Carts : OnePerItem(order[c])'
  BY OrdersStayApart DEF OnePerItem
<1>3. QED
  BY <1>1, <1>2, LinesStayApart DEF ApartInv

LEMMA ApartInvariance == Spec /\ []AddsDoNotOverlap => []ApartInv
<1>1. Init => ApartInv
  <2>1. SUFFICES ASSUME Init PROVE ApartInv
    OBVIOUS
  <2>2. \A c \in Carts : LiveLines(c) = {} /\ OnePerItem(order[c])
    BY <2>1 DEF Init, LiveLines, NoLine, NoBasket, OnePerItem
  <2>3. \A t \in Tasks : Apart(t)
    BY <2>1 DEF Init, Apart, Idle, Adds
  <2>4. QED
    BY <2>2, <2>3 DEF ApartInv, OneLinePerItem
<1>2. LinesInv /\ ApartInv /\ AddsDoNotOverlap /\ [Next]_vars => ApartInv'
  BY ApartKeeps
<1>3. QED
  BY <1>1, <1>2, LinesInvariance, PTL DEF Spec

\* The documented fold: a cart has one line per item, as long as no two adds of
\* one item to it overlap between the look at the lines and the insert.
THEOREM SerialAddsFold == Spec /\ []AddsDoNotOverlap => []OneLinePerItem
<1>1. ApartInv => OneLinePerItem
  BY DEF ApartInv
<1>2. QED
  BY <1>1, ApartInvariance, PTL

\* Then the place-time gate, which looks at one line at a time, lets no order
\* ask for more of an item than was free.
THEOREM SerialAddsAreInStock == Spec /\ []AddsDoNotOverlap => []NothingShort
<1>1. ASSUME LinesInv, ApartInv, NEW c \in Carts PROVE order[c].short = {}
  <2>1. OnePerItem(order[c])
    BY <1>1 DEF ApartInv
  <2>2. \A i \in order[c].short : \E a, b \in order[c].lines : a # b /\ a[2] = i /\ b[2] = i
    BY <1>1 DEF LinesInv, ShortOnlyByTwins
  <2>3. QED
    BY <2>1, <2>2 DEF OnePerItem
<1>2. LinesInv /\ ApartInv => NothingShort
  BY <1>1 DEF NothingShort
<1>3. QED
  BY <1>2, LinesInvariance, ApartInvariance, PTL
=============================================================================
