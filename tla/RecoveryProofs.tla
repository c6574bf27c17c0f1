---------------------------- MODULE RecoveryProofs ----------------------------
(***************************************************************************)
(* Proofs about Billing and Recovery, for every value of their constants.  *)
(* BillInv says what a handler holds between its steps: its row lock, a    *)
(* party minted for the address it works on, and, of a map row it inserted *)
(* and has not committed, that nobody else has one.  Steps of Recovery     *)
(* leave all of it alone but the age of a cart, and rest on OneParty and   *)
(* on the map telling the addresses of two parties apart.                  *)
(***************************************************************************)
EXTENDS Recovery, FiniteSetTheorems, TLAPS

-----------------------------------------------------------------------------
(* The inductive invariant. *)

\* A handler at work holds the row of an open cart.
Working(t) ==
  LET c == task[t].cart IN
  task[t].at # "idle" => c \in Carts /\ lock[c] = t /\ cart[c].state = "open"

\* The party it has settled on was minted for its address, which the map says
\* already or will once its own insert commits.
Settled(t) ==
  LET e == task[t].email
      p == task[t].party IN
  e \in Emails /\ p \in Parties /\ minted[p] = e /\ (map[e] = p \/ fresh[e] = t)

Resolving(t) ==
  LET e == task[t].email
      p == task[t].party IN
  /\ task[t].at \in {"known", "mint", "insert", "winner"} => e \in Emails
  /\ task[t].at = "insert" => p \in Parties /\ minted[p] = e
  /\ task[t].at = "winner" => map[e] # None
  /\ task[t].at = "stamp" => Settled(t)
  /\ task[t].at = "place" =>
       IF e = None THEN p # None /\ p = cart[task[t].cart].party ELSE Settled(t)

\* An uncommitted row is its handler's, and the address has no other.
FreshRow(e) ==
  fresh[e] # None =>
    task[fresh[e]].at \in {"stamp", "place"} /\ task[fresh[e]].email = e /\ map[e] = None

\* A committed row names a party of its address.
MapRow(e) == map[e] # None => minted[map[e]] = e

BillInv ==
  /\ BillTypeOK
  /\ \A t \in Tasks : Working(t) /\ Resolving(t)
  /\ \A e \in Emails : FreshRow(e) /\ MapRow(e)
  /\ OneParty

\* A send that has found its party found the one of the address the cart was
\* billed to; it says sent of a mail the notifier accepted.
Informed(o) ==
  /\ officer[o].at # "idle" => officer[o].cart \in Carts
  /\ officer[o].at \in {"party", "address"} => officer[o].to = None /\ ~officer[o].sent
  /\ officer[o].at = "address" =>
       /\ officer[o].billed \in Emails /\ officer[o].party # None
       /\ map[officer[o].billed] = officer[o].party
  /\ officer[o].to # None => officer[o].to = officer[o].billed
  /\ officer[o].sent => officer[o].mailed

RecInv == TypeOK /\ BillInv /\ NeverFakeSent /\ \A o \in Officers : Informed(o)
-----------------------------------------------------------------------------
(* Billing. *)

\* What a handler relies on outlives the steps of others that leave its row,
\* its uncommitted map row and the committed ones alone.
LEMMA OthersKeep ==
  ASSUME BillInv, BillingAssumption, NEW u \in Tasks, task'[u] = task[u],
         \A c \in Carts : lock[c] = u =>
           /\ lock'[c] = u
           /\ cart'[c].state = cart[c].state /\ cart'[c].party = cart[c].party,
         \A e \in Emails : map[e] # None => map'[e] = map[e],
         \A e \in Emails : fresh[e] = u => fresh'[e] = u,
         \A p \in Parties : minted[p] # None => minted'[p] = minted[p]
  PROVE  Working(u)' /\ Resolving(u)'
<1>1. Working(u) /\ Resolving(u)
  BY DEF BillInv
<1>2. Settled(u) => Settled(u)'
  BY DEF Settled, BillingAssumption
<1>3. Working(u)'
  BY <1>1 DEF Working
<1>4. Resolving(u)'
  BY <1>1, <1>2, <1>3 DEF Resolving, Working, BillingAssumption
<1>5. QED
  BY <1>3, <1>4

\* A handler takes the row.
LEMMA LockKeeps ==
  ASSUME BillInv, BillingAssumption, NEW t \in Tasks, NEW c \in Carts,
         NEW verb \in {"capture", "express", "place"}, NEW e \in Emails \cup {None},
         Lock(t, verb, c, e)
  PROVE  BillInv'
<1>. DEFINE at == IF e = None THEN "place" ELSE "known"
            new == [at |-> at, verb |-> verb, cart |-> c, email |-> e, party |-> cart[c].party]
<1>0. BillTypeOK /\ cart[c] \in CartRow
  BY DEF BillInv, BillTypeOK
<1>1. new \in TaskState
  BY <1>0 DEF TaskState, TaskSteps, CartRow
<1>2. BillTypeOK'
  BY <1>0, <1>1 DEF BillTypeOK, Lock
<1>3. /\ task'[t] = new /\ \A u \in Tasks \ {t} : task'[u] = task[u]
      /\ lock'[c] = t /\ \A d \in Carts \ {c} : lock'[d] = lock[d]
  BY <1>0 DEF Lock, BillTypeOK
<1>4. UNCHANGED <<cart, map, fresh, minted, billed>> /\ lock[c] = None /\ task[t].at = "idle"
  BY DEF Lock
<1>5. \A u \in Tasks \ {t} : Working(u)' /\ Resolving(u)'
  BY <1>3, <1>4, OthersKeep DEF BillingAssumption
<1>6. Working(t)' /\ Resolving(t)'
  BY <1>3 DEF Lock, Working, Resolving
<1>7. \A d \in Emails : FreshRow(d)' /\ MapRow(d)'
  BY <1>0, <1>3, <1>4 DEF BillInv, BillTypeOK, FreshRow, MapRow
<1>8. OneParty'
  BY <1>4 DEF BillInv, OneParty
<1>9. QED
  BY <1>2, <1>5, <1>6, <1>7, <1>8 DEF BillInv

\* The steps that only resolve: the row, the map and the locks stay as they are.
LEMMA ResolveKeeps ==
  ASSUME BillInv, BillingAssumption, NEW t \in Tasks, NEW step \in TaskSteps,
         NEW p \in Parties \cup {None}, task[t].at # "idle",
         task' = [task EXCEPT ![t] = [at |-> step, verb |-> task[t].verb, cart |-> task[t].cart,
                                      email |-> task[t].email, party |-> p]],
         UNCHANGED <<cart, lock, map, billed>>,
         minted' \in [Parties -> Emails \cup {None}], fresh' \in [Emails -> Tasks \cup {None}],
         \A q \in Parties : minted[q] # None => minted'[q] = minted[q],
         \A e \in Emails : fresh'[e] = fresh[e] \/ (e = task[t].email /\ map[e] = None
                                                    /\ step \in {"stamp", "place"} /\ fresh'[e] = t
                                                    /\ fresh[e] = None),
         \A e \in Emails : fresh[e] = t => step \in {"stamp", "place"},
         Resolving(t)'
  PROVE  BillInv'
<1>0. BillTypeOK /\ task[t] \in TaskState /\ Working(t)
  BY DEF BillInv, BillTypeOK
<1>1. /\ task'[t] = [at |-> step, verb |-> task[t].verb, cart |-> task[t].cart,
                     email |-> task[t].email, party |-> p]
      /\ \A u \in Tasks \ {t} : task'[u] = task[u]
  BY <1>0 DEF BillTypeOK
<1>2. task' \in [Tasks -> TaskState]
  BY <1>0 DEF BillTypeOK, TaskState
<1>3. BillTypeOK'
  BY <1>0, <1>2 DEF BillTypeOK
<1>4. Working(t)'
  BY <1>0, <1>1 DEF Working
<1>5. \A u \in Tasks \ {t} : Working(u)' /\ Resolving(u)'
  <2>. SUFFICES ASSUME NEW u \in Tasks \ {t} PROVE Working(u)' /\ Resolving(u)'
    OBVIOUS
  <2>1. \A e \in Emails : fresh[e] = u => fresh'[e] = u
    BY DEF BillingAssumption
  <2>2. QED
    BY <1>1, <2>1, OthersKeep
<1>6. ASSUME NEW e \in Emails PROVE FreshRow(e)' /\ MapRow(e)'
  <2>1. FreshRow(e) /\ MapRow(e)
    BY DEF BillInv
  <2>2. MapRow(e)'
    BY <1>0, <2>1 DEF MapRow, BillTypeOK, BillInv
  <2>3. FreshRow(e)'
    BY <1>0, <1>1, <2>1 DEF FreshRow, BillTypeOK
  <2>4. QED
    BY <2>2, <2>3
<1>7. OneParty'
  BY DEF BillInv, OneParty
<1>8. QED
  BY <1>3, <1>4, <1>5, <1>6, <1>7 DEF BillInv

\* Known, Mint, Insert, Winner, and the stamp of an express place.
LEMMA ResolutionKeeps ==
  ASSUME BillInv, BillingAssumption, NEW t \in Tasks,
         \/ Known(t) \/ Mint(t) \/ Insert(t) \/ Winner(t)
         \/ Stamp(t) /\ task[t].verb = "express"
  PROVE  BillInv'
<1>. DEFINE e == task[t].email
            With(step, p) == [at |-> step, verb |-> task[t].verb, cart |-> task[t].cart,
                              email |-> e, party |-> p]
<1>0. /\ BillTypeOK /\ task[t] \in TaskState /\ Resolving(t)
      /\ \A f \in Emails : FreshRow(f) /\ MapRow(f)
  BY DEF BillInv, BillTypeOK
<1>1. \A step : Goto(t, step) => task' = [task EXCEPT ![t] = With(step, task[t].party)]
  BY <1>0 DEF Goto, BillTypeOK, TaskState
<1>2. ASSUME NEW step, NEW p, Take(t, step, p) PROVE task' = [task EXCEPT ![t] = With(step, p)]
  <2>. DEFINE new == [task[t] EXCEPT !.at = step]
  <2>1. task' = [task EXCEPT ![t] = [new EXCEPT !.party = p]]
    BY <1>0, <1>2 DEF Take, BillTypeOK
  <2>2. new = With(step, task[t].party)
    <3>1. task[t] \in TaskState
      BY <1>0
    <3>2. QED
      BY <3>1 DEF TaskState
  <2>. HIDE DEF new
  <2>3. [new EXCEPT !.party = p] = With(step, p)
    BY <2>2
  <2>4. QED
    BY <2>1, <2>3
<1>3. ASSUME NEW step, NEW p, task' = [task EXCEPT ![t] = With(step, p)]
      PROVE  task'[t] = With(step, p)
  <2>1. task \in [Tasks -> TaskState]
    BY <1>0 DEF BillTypeOK
  <2>. HIDE DEF With
  <2>2. QED
    BY <1>3, <2>1
<1>4. \A f \in Emails : fresh[f] = t => task[t].at \in {"stamp", "place"}
  BY <1>0 DEF FreshRow, BillingAssumption
<1>5. task[t].party \in Parties \cup {None}
  BY <1>0 DEF TaskState
<1>6. CASE Known(t)
  <2>1. ASSUME NEW p \in KnownParties(e), Resolved(t, p) PROVE BillInv'
    <3>1. p = map[e] /\ p \in Parties /\ e \in Emails /\ minted[p] = e
      BY <1>0, <1>6, <2>1 DEF Known, KnownParties, Resolving, BillTypeOK, MapRow
    <3>2. task' = [task EXCEPT ![t] = With("stamp", p)] /\ task'[t] = With("stamp", p)
      BY <1>2, <1>3, <2>1 DEF Resolved
    <3>3. Resolving(t)'
      BY <1>6, <3>1, <3>2 DEF Known, Resolving, Settled
    <3>4. QED
      BY <1>0, <1>4, <1>6, <3>1, <3>2, <3>3, ResolveKeeps DEF Known, TaskSteps, BillTypeOK
  <2>2. CASE Goto(t, "mint")
    <3>1. task' = [task EXCEPT ![t] = With("mint", task[t].party)]
          /\ task'[t] = With("mint", task[t].party)
      BY <1>1, <1>3, <2>2
    <3>2. Resolving(t)'
      BY <1>0, <1>6, <3>1 DEF Known, Resolving
    <3>3. QED
      BY <1>0, <1>4, <1>5, <1>6, <3>1, <3>2, ResolveKeeps DEF Known, TaskSteps, BillTypeOK
  <2>3. QED
    BY <1>6, <2>1, <2>2 DEF Known
<1>7. CASE Mint(t)
  <2>1. PICK p \in Parties : /\ minted[p] \in {None, e} /\ minted' = [minted EXCEPT ![p] = e]
                             /\ Take(t, "insert", p)
    BY <1>7 DEF Mint
  <2>2. task' = [task EXCEPT ![t] = With("insert", p)] /\ task'[t] = With("insert", p)
    BY <1>2, <1>3, <2>1
  <2>3. e \in Emails
    BY <1>0, <1>7 DEF Mint, Resolving
  <2>4. /\ minted' \in [Parties -> Emails \cup {None}] /\ minted'[p] = e
        /\ \A q \in Parties : minted[q] # None => minted'[q] = minted[q]
    BY <1>0, <2>1, <2>3 DEF BillTypeOK
  <2>5. Resolving(t)'
    BY <2>2, <2>3, <2>4 DEF Resolving
  <2>6. QED
    BY <1>0, <1>4, <1>7, <2>2, <2>4, <2>5, ResolveKeeps DEF Mint, TaskSteps, BillTypeOK
<1>8. CASE Insert(t)
  <2>0. e \in Emails /\ task[t].party \in Parties /\ minted[task[t].party] = e
    BY <1>0, <1>8 DEF Insert, Resolving
  <2>1. CASE map[e] = None /\ fresh' = [fresh EXCEPT ![e] = t] /\ Goto(t, "stamp")
    <3>1. task' = [task EXCEPT ![t] = With("stamp", task[t].party)]
          /\ task'[t] = With("stamp", task[t].party)
      BY <1>1, <1>3, <2>1
    <3>2. fresh' \in [Emails -> Tasks \cup {None}] /\ fresh'[e] = t /\ fresh[e] = None
          /\ \A f \in Emails : f # e => fresh'[f] = fresh[f]
      BY <1>0, <1>8, <2>0, <2>1 DEF BillTypeOK, Insert
    <3>3. Resolving(t)'
      BY <1>8, <2>0, <3>1, <3>2 DEF Insert, Resolving, Settled
    <3>4. UNCHANGED <<cart, lock, map, billed>> /\ minted' = minted
      BY <1>8 DEF Insert
    <3>5. minted' \in [Parties -> Emails \cup {None}] /\ task[t].at # "idle"
      BY <1>0, <1>8, <3>4 DEF Insert, BillTypeOK
    <3>6. "stamp" \in TaskSteps
      BY DEF TaskSteps
    <3>7. QED
      BY <1>0, <1>5, <2>1, <3>1, <3>2, <3>3, <3>4, <3>5, <3>6, ResolveKeeps
  <2>2. CASE map[e] # None /\ Goto(t, "winner") /\ UNCHANGED fresh
    <3>1. task' = [task EXCEPT ![t] = With("winner", task[t].party)]
          /\ task'[t] = With("winner", task[t].party)
      BY <1>1, <1>3, <2>2
    <3>2. Resolving(t)'
      BY <1>8, <2>0, <2>2, <3>1 DEF Insert, Resolving
    <3>3. QED
      BY <1>0, <1>4, <1>5, <1>8, <2>2, <3>1, <3>2, ResolveKeeps
         DEF Insert, TaskSteps, BillTypeOK
  <2>3. QED
    BY <1>8, <2>1, <2>2 DEF Insert, Lost
<1>9. CASE Winner(t)
  <2>0. e \in Emails /\ map[e] \in Parties /\ minted[map[e]] = e
    BY <1>0, <1>9 DEF Winner, Resolving, BillTypeOK, MapRow
  <2>1. task' = [task EXCEPT ![t] = With("stamp", map[e])] /\ task'[t] = With("stamp", map[e])
    BY <1>2, <1>3, <1>9 DEF Winner, Resolved
  <2>2. Resolving(t)'
    BY <1>9, <2>0, <2>1 DEF Winner, Resolving, Settled
  <2>3. QED
    BY <1>0, <1>4, <1>9, <2>0, <2>1, <2>2, ResolveKeeps DEF Winner, TaskSteps, BillTypeOK
<1>10. CASE Stamp(t) /\ task[t].verb = "express"
  <2>0. /\ task[t].at = "stamp" /\ Goto(t, "place")
        /\ UNCHANGED <<cart, lock, map, fresh, minted, billed>>
    BY <1>10 DEF Stamp
  <2>1. task' = [task EXCEPT ![t] = With("place", task[t].party)]
        /\ task'[t] = With("place", task[t].party)
    BY <1>1, <1>3, <2>0
  <2>2. Resolving(t)'
    BY <1>0, <2>0, <2>1 DEF Resolving, Settled, BillingAssumption
  <2>3. /\ minted' \in [Parties -> Emails \cup {None}] /\ fresh' \in [Emails -> Tasks \cup {None}]
        /\ task[t].at # "idle" /\ "place" \in TaskSteps
    BY <1>0, <2>0 DEF TaskSteps, BillTypeOK
  <2>4. QED
    BY <1>0, <1>5, <2>0, <2>1, <2>2, <2>3, ResolveKeeps
<1>11. QED
  BY <1>6, <1>7, <1>8, <1>9, <1>10

\* A handler that ends gives up its row and its uncommitted map row; if it
\* commits, the map has the party of its address, and the cart is billed to it.
LEMMA EndKeeps ==
  ASSUME BillInv, BillingAssumption, NEW t \in Tasks, task[t].at # "idle",
         Unlock(t), Finish(t), UNCHANGED minted,
         \/ UNCHANGED <<cart, map, billed>>
         \/ /\ task[t].at \in {"stamp", "place"}
            /\ \E s \in {"open", "placed"} :
                 cart' = [cart EXCEPT ![task[t].cart] =
                            [state |-> s, party |-> task[t].party, stale |-> FALSE]]
            /\ map' = [e \in Emails |-> IF fresh[e] = t THEN task[t].party ELSE map[e]]
            /\ billed' = IF task[t].email = None THEN billed
                         ELSE [billed EXCEPT ![task[t].cart] = task[t].email]
  PROVE  BillInv'
<1>. DEFINE c == task[t].cart
            e == task[t].email
            p == task[t].party
<1>0. /\ BillTypeOK /\ task[t] \in TaskState /\ Working(t) /\ Resolving(t) /\ OneParty
      /\ \A f \in Emails : FreshRow(f) /\ MapRow(f)
  BY DEF BillInv, BillTypeOK
<1>1. c \in Carts /\ lock[c] = t
  BY <1>0 DEF Working
<1>2. task[t].at \in {"stamp", "place"} =>
        /\ p \in Parties
        /\ e = None => p = cart[c].party
        /\ e # None => Settled(t) /\ e \in Emails
  BY <1>0, <1>1 DEF Resolving, Settled, TaskState, BillingAssumption
<1>3. \A f \in Emails : fresh[f] = t => e = f /\ map[f] = None
  BY <1>0 DEF FreshRow, BillingAssumption
<1>4. task' \in [Tasks -> TaskState] /\ task'[t] = Idle
      /\ \A u \in Tasks \ {t} : task'[u] = task[u]
  BY <1>0 DEF BillTypeOK, Finish, Idle, TaskState, TaskSteps
<1>5. /\ lock' \in [Carts -> Tasks \cup {None}] /\ fresh' \in [Emails -> Tasks \cup {None}]
      /\ \A u \in Tasks \ {t} : /\ \A d \in Carts : lock[d] = u => lock'[d] = u
                                /\ \A f \in Emails : fresh[f] = u => fresh'[f] = u
      /\ \A f \in Emails : fresh'[f] # None => fresh'[f] = fresh[f] /\ fresh[f] # t
  BY <1>0 DEF BillTypeOK, Unlock
<1>6. /\ cart' \in [Carts -> CartRow] /\ map' \in [Emails -> Parties \cup {None}]
      /\ billed' \in [Carts -> Emails \cup {None}]
  <2>1. CASE UNCHANGED <<cart, map, billed>>
    BY <1>0, <2>1 DEF BillTypeOK
  <2>2. ASSUME task[t].at \in {"stamp", "place"}, NEW s \in {"open", "placed"},
               cart' = [cart EXCEPT ![c] = [state |-> s, party |-> p, stale |-> FALSE]]
        PROVE  cart' \in [Carts -> CartRow]
    BY <1>0, <1>2, <2>2 DEF BillTypeOK, CartRow
  <2>3. QED
    BY <1>0, <1>2, <2>1, <2>2 DEF BillTypeOK, TaskState
<1>7. \A f \in Emails : /\ map[f] # None => map'[f] = map[f]
                        /\ map'[f] # map[f] => f = e /\ fresh[f] = t /\ map'[f] = p
  BY <1>3
<1>8. \A d \in Carts \ {c} : cart'[d] = cart[d] /\ billed'[d] = billed[d]
  BY <1>0 DEF BillTypeOK
<1>9. BillTypeOK'
  BY <1>0, <1>4, <1>5, <1>6 DEF BillTypeOK
<1>10. \A u \in Tasks : Working(u)' /\ Resolving(u)'
  <2>1. Working(t)' /\ Resolving(t)'
    BY <1>4 DEF Working, Resolving, Idle
  <2>2. ASSUME NEW u \in Tasks \ {t} PROVE Working(u)' /\ Resolving(u)'
    <3>1. \A d \in Carts : lock[d] = u =>
            /\ lock'[d] = u
            /\ cart'[d].state = cart[d].state /\ cart'[d].party = cart[d].party
      BY <1>1, <1>5, <1>8
    <3>2. QED
      BY <1>4, <1>5, <1>7, <3>1, OthersKeep
  <2>3. QED
    BY <2>1, <2>2
<1>11. ASSUME NEW f \in Emails PROVE FreshRow(f)' /\ MapRow(f)'
  <2>1. FreshRow(f)'
    BY <1>0, <1>4, <1>5, <1>7 DEF FreshRow, BillTypeOK
  <2>2. MapRow(f)'
    BY <1>0, <1>2, <1>3, <1>7 DEF MapRow, Settled
  <2>3. QED
    BY <2>1, <2>2
<1>12. OneParty'
  <2>. SUFFICES ASSUME NEW d \in Carts, cart'[d].party # None
                PROVE  billed'[d] # None /\ map'[billed'[d]] = cart'[d].party
    BY DEF OneParty
  <2>1. CASE cart'[d].party = cart[d].party /\ billed'[d] = billed[d]
    BY <1>0, <1>7, <2>1 DEF OneParty, BillTypeOK
  <2>2. CASE d = c /\ e # None /\ cart'[c].party = p /\ billed'[c] = e /\ Settled(t)
             /\ map' = [f \in Emails |-> IF fresh[f] = t THEN p ELSE map[f]]
    BY <2>2 DEF Settled, BillingAssumption
  <2>3. QED
    BY <1>0, <1>1, <1>2, <1>8, <2>1, <2>2 DEF BillTypeOK
<1>13. QED
  BY <1>9, <1>10, <1>11, <1>12 DEF BillInv

\* Every step of the shoppers' verbs preserves what a capture relies on.
LEMMA BillingKeeps ==
  ASSUME BillInv, BillingAssumption, NEW t \in Tasks, Request(t) \/ Work(t) \/ Rollback(t)
  PROVE  BillInv'
<1>1. CASE Request(t)
  BY <1>1, LockKeeps DEF Request
<1>2. ASSUME task[t].at \in {"stamp", "place"}, NEW s \in {"open", "placed"},
             Commit(t, [state |-> s, party |-> task[t].party, stale |-> FALSE])
      PROVE  BillInv'
  BY <1>2, EndKeeps DEF Commit
<1>3. CASE Stamp(t)
  <2>1. CASE task[t].verb = "express"
    BY <1>3, <2>1, ResolutionKeeps
  <2>2. CASE task[t].verb = "capture"
    BY <1>2, <1>3, <2>2 DEF Stamp
  <2>3. QED
    BY <1>3, <2>1, <2>2 DEF Stamp
<1>4. CASE Place(t)
  BY <1>2, <1>4 DEF Place
<1>5. CASE Rollback(t)
  BY <1>5, EndKeeps DEF Rollback
<1>6. QED
  BY <1>1, <1>3, <1>4, <1>5, ResolutionKeeps DEF Work

\* What a committed map row says is for good.
LEMMA MapStays ==
  ASSUME BillInv, BillingAssumption, NEW t \in Tasks, Request(t) \/ Work(t) \/ Rollback(t)
  PROVE  \A e \in Emails : map[e] # None => map'[e] = map[e]
<1>1. \A e \in Emails : fresh[e] = t => map[e] = None
  BY DEF BillInv, FreshRow, BillingAssumption
<1>2. \A row : Commit(t, row) => \A e \in Emails : map[e] # None => map'[e] = map[e]
  BY <1>1 DEF Commit
<1>3. Stamp(t) \/ Place(t) => (\E row : Commit(t, row)) \/ map' = map
  BY DEF Stamp, Place
<1>4. Request(t) \/ Known(t) \/ Mint(t) \/ Insert(t) \/ Winner(t) \/ Rollback(t) => map' = map
  BY DEF Request, Lock, Known, Mint, Insert, Winner, Rollback
<1>5. QED
  BY <1>2, <1>3, <1>4 DEF Work

\* A cart that ages is billed as it was.
LEMMA AgesKeeps ==
  ASSUME BillInv, BillingAssumption, NEW c \in Carts, Ages(c)
  PROVE  BillInv'
<1>0. BillTypeOK /\ cart[c] \in CartRow
  BY DEF BillInv, BillTypeOK
<1>1. /\ cart'[c] = [state |-> cart[c].state, party |-> cart[c].party, stale |-> TRUE]
      /\ \A d \in Carts \ {c} : cart'[d] = cart[d]
      /\ UNCHANGED <<lock, map, fresh, minted, task, billed>>
  BY <1>0 DEF Ages, BillTypeOK, CartRow
<1>2. BillTypeOK'
  BY <1>0, <1>1 DEF BillTypeOK, CartRow, Ages
<1>3. \A t \in Tasks : Working(t)' /\ Resolving(t)'
  BY <1>1, OthersKeep
<1>4. \A e \in Emails : FreshRow(e)' /\ MapRow(e)'
  BY <1>1 DEF BillInv, FreshRow, MapRow
<1>5. OneParty'
  BY <1>1 DEF BillInv, OneParty
<1>6. QED
  BY <1>2, <1>3, <1>4, <1>5 DEF BillInv

-----------------------------------------------------------------------------
(* The officer's send. *)

\* An address is found from its party, which no other address has.
LEMMA SendKeeps ==
  ASSUME RecInv, BillingAssumption, NEW o \in Officers, Officer(o)
  PROVE  RecInv'
<1>0. /\ TypeOK /\ BillInv /\ officer[o] \in Sending /\ Informed(o)
      /\ NeverFakeSent /\ OneParty
  BY DEF RecInv, TypeOK, BillInv
<1>1. ASSUME NEW new \in Sending, officer' = [officer EXCEPT ![o] = new],
             UNCHANGED <<billVars, under>>, invites' = invites, late' \in [Carts -> Nat],
             new.at # "idle" => new.cart \in Carts,
             new.at \in {"party", "address"} => new.to = None /\ ~new.sent,
             new.at = "address" => /\ new.billed \in Emails /\ new.party # None
                                   /\ map[new.billed] = new.party,
             new.to # None => new.to = new.billed,
             new.sent => new.mailed
      PROVE  RecInv'
  <2>1. BillInv'
    BY <1>0, <1>1 DEF BillInv, BillTypeOK, billVars, Working, Resolving, Settled, FreshRow, MapRow,
                      OneParty
  <2>2. officer'[o] = new /\ \A q \in Officers \ {o} : officer'[q] = officer[q]
    BY <1>0, <1>1 DEF TypeOK
  <2>3. TypeOK'
    BY <1>0, <1>1, <2>1 DEF TypeOK, BillInv
  <2>4. \A q \in Officers : Informed(q)'
    BY <1>1, <2>2 DEF RecInv, Informed, billVars
  <2>5. QED
    BY <1>1, <2>1, <2>3, <2>4 DEF RecInv, NeverFakeSent
<1>2. ASSUME Abandon(o), UNCHANGED <<billVars, invites, lateVars>> PROVE RecInv'
  <2>1. NoSend \in Sending
    BY DEF NoSend, Sending
  <2>2. QED
    BY <1>0, <1>1, <1>2, <2>1 DEF Abandon, NoSend, TypeOK, lateVars
<1>3. CASE \E c \in Carts : CheckWindow(o, c)
  <2>1. PICK c \in Carts : CheckWindow(o, c)
    BY <1>3
  <2>. DEFINE new == [NoSend EXCEPT !.at = "party", !.cart = c]
  <2>2. NoSend \in Sending /\ NoSend.to = None /\ ~NoSend.sent
    BY DEF NoSend, Sending
  <2>3. /\ new \in Sending /\ new.at = "party" /\ new.cart = c
        /\ new.to = NoSend.to /\ new.sent = NoSend.sent
    BY <2>2 DEF Sending
  <2>4. QED
    BY <1>0, <1>1, <2>1, <2>2, <2>3 DEF CheckWindow, Reading, TypeOK, lateVars
<1>4. CASE ReadParty(o)
  <2>. DEFINE c == officer[o].cart
              new == [officer[o] EXCEPT !.at = "address", !.party = cart[c].party, !.billed = billed[c]]
  <2>1. CASE cart[c].party = None
    BY <1>0, <1>2, <1>4, <2>1 DEF ReadParty, Reading
  <2>2. CASE cart[c].party # None
    <3>1. c \in Carts /\ officer[o].to = None /\ ~officer[o].sent
      BY <1>0, <1>4 DEF ReadParty, Informed
    <3>2. billed[c] \in Emails /\ map[billed[c]] = cart[c].party /\ cart[c].party \in Parties
      BY <1>0, <2>2, <3>1 DEF OneParty, TypeOK, BillTypeOK, CartRow
    <3>3. officer' = [officer EXCEPT ![o] = new]
      BY <1>4, <2>2 DEF ReadParty
    <3>4. /\ new \in Sending /\ new.at = "address" /\ new.cart = c /\ new.party = cart[c].party
          /\ new.billed = billed[c] /\ new.to = officer[o].to /\ new.sent = officer[o].sent
      BY <1>0, <3>2 DEF Sending
    <3>5. QED
      BY <1>0, <1>1, <1>4, <2>2, <3>1, <3>2, <3>3, <3>4 DEF ReadParty, Reading, TypeOK, lateVars
  <2>3. QED
    BY <2>1, <2>2
<1>5. CASE ReadAddress(o)
  <2>1. PICK e \in AddressesOf(officer[o].party) :
          officer' = [officer EXCEPT ![o].at = "send", ![o].party = None, ![o].to = e]
    BY <1>5 DEF ReadAddress
  <2>2. e \in Emails /\ map[e] = officer[o].party
    BY <2>1 DEF AddressesOf
  <2>3. e = officer[o].billed /\ officer[o].cart \in Carts /\ ~officer[o].sent
    BY <1>0, <1>5, <2>2 DEF ReadAddress, Informed, BillInv, MapRow, BillingAssumption
  <2>. DEFINE new == [officer[o] EXCEPT !.at = "send", !.party = None, !.to = e]
  <2>4. officer' = [officer EXCEPT ![o] = new]
    BY <2>1
  <2>5. /\ new \in Sending /\ new.at = "send" /\ new.cart = officer[o].cart /\ new.to = e
        /\ new.billed = officer[o].billed /\ new.sent = officer[o].sent
    BY <1>0, <2>2 DEF Sending
  <2>6. QED
    BY <1>0, <1>1, <1>5, <2>3, <2>4, <2>5 DEF ReadAddress, Reading, TypeOK, lateVars
<1>6. ASSUME NEW accepts \in BOOLEAN, Send(o, accepts) PROVE RecInv'
  <2>. DEFINE new == [officer[o] EXCEPT !.at = "stamp", !.to = None, !.billed = None,
                                        !.sent = accepts, !.mailed = accepts]
  <2>1. officer' = [officer EXCEPT ![o] = new] /\ officer[o].cart \in Carts
    BY <1>0, <1>6 DEF Send, Outcome, Informed
  <2>2. /\ new \in Sending /\ new.at = "stamp" /\ new.cart = officer[o].cart
        /\ new.to = None /\ new.sent = accepts /\ new.mailed = accepts
    BY <1>0 DEF Sending
  <2>3. late' \in [Carts -> Nat] /\ UNCHANGED <<billVars, invites, under>>
    <3>1. late \in [Carts -> Nat] /\ late[officer[o].cart] + 1 \in Nat
      BY <1>0, <2>1 DEF TypeOK
    <3>2. QED
      BY <1>6, <3>1 DEF Send
  <2>4. QED
    BY <1>1, <2>1, <2>2, <2>3
<1>7. CASE StampInvite(o)
  BY <1>0, <1>2, <1>7 DEF StampInvite, Informed
<1>8. CASE Drop(o)
  BY <1>2, <1>8 DEF Drop, Reading
<1>9. QED
  BY <1>3, <1>4, <1>5, <1>6, <1>7, <1>8 DEF Officer

\* Only so many sends are under way.
LEMMA ToMailFinite ==
  ASSUME RecoveryAssumption, NEW c
  PROVE  IsFiniteSet(ToMail(c)) /\ Cardinality(ToMail(c)) \in Nat
<1>1. ToMail(c) \subseteq Officers /\ IsFiniteSet(Officers)
  BY DEF ToMail, RecoveryAssumption
<1>2. IsFiniteSet(ToMail(c))
  BY <1>1, FS_Subset
<1>3. QED
  BY <1>2, FS_CardinalityType

\* The shoppers' verbs, and time, leave what a send has read standing.
LEMMA ShoppersKeep ==
  ASSUME RecInv, BillingAssumption, RecoveryAssumption, Bill \/ \E c \in Carts : Ages(c)
  PROVE  RecInv'
<1>0. BillInv /\ TypeOK /\ NeverFakeSent
  BY DEF RecInv
<1>1. BillInv' /\ \A e \in Emails : map[e] # None => map'[e] = map[e]
  <2>1. CASE Bill
    BY <1>0, <2>1, BillingKeeps, MapStays DEF Bill, BillNext
  <2>2. CASE \E c \in Carts : Ages(c)
    BY <1>0, <2>2, AgesKeeps DEF Ages
  <2>3. QED
    BY <2>1, <2>2
<1>2. UNCHANGED <<officer, invites>>
  BY DEF Bill, Ages
<1>3. \A o \in Officers : Informed(o)'
  BY <1>1, <1>2 DEF RecInv, Informed
<1>4. under' \in [Carts -> Nat] /\ late' \in [Carts -> Nat]
  <2>1. \A c \in Carts : Cardinality(ToMail(c)) \in Nat
    BY ToMailFinite
  <2>2. under \in [Carts -> Nat] /\ late \in [Carts -> Nat]
    BY <1>0 DEF TypeOK
  <2>3. CASE Bill
    <3>1. late' = late
      BY <2>3 DEF Bill
    <3>2. under' = [c \in Carts |-> IF ~Kept(c) /\ cart'[c] # cart[c]
                                   THEN Cardinality(ToMail(c)) ELSE under[c]]
      BY <2>3 DEF Bill
    <3>3. QED
      BY <2>1, <2>2, <3>1, <3>2
  <2>4. ASSUME NEW c \in Carts, Ages(c) PROVE under' \in [Carts -> Nat] /\ late' \in [Carts -> Nat]
    BY <2>2, <2>4 DEF Ages
  <2>5. QED
    BY <2>3, <2>4
<1>5. QED
  BY <1>0, <1>1, <1>2, <1>3, <1>4 DEF RecInv, TypeOK, BillInv, NeverFakeSent

LEMMA StepKeeps ==
  ASSUME RecInv, BillingAssumption, RecoveryAssumption, [Next]_vars
  PROVE  RecInv'
<1>1. CASE UNCHANGED vars
  BY <1>1 DEF vars, billVars, recVars, lateVars, RecInv, TypeOK, BillInv, BillTypeOK, Working, Resolving,
              Settled, FreshRow, MapRow, OneParty, NeverFakeSent, Informed
<1>2. QED
  BY <1>1, ShoppersKeep, SendKeeps DEF Next

LEMMA StartsSound ==
  ASSUME BillingAssumption, Init
  PROVE  RecInv
BY DEF BillingAssumption, Init, BillInit, RecInv, TypeOK, BillInv, BillTypeOK, NewCart, CartRow, Idle,
       TaskState, TaskSteps, NoSend, Sending, Working, Resolving, FreshRow, MapRow, OneParty,
       NeverFakeSent, Informed

\* In every state handlers hold what they rely on, however captures raced to
\* the map and places that had won rolled back.
THEOREM RecInvariance == Spec => []RecInv
<1>1. Init => RecInv
  BY StartsSound, BillingAssumption
<1>2. RecInv /\ [Next]_vars => RecInv'
  BY StepKeeps, BillingAssumption, RecoveryAssumption
<1>3. QED
  BY <1>1, <1>2, PTL DEF Spec

\* Type correctness.
THEOREM TypesHold == Spec => []TypeOK
<1>1. RecInv => TypeOK
  BY DEF RecInv
<1>2. QED
  BY <1>1, RecInvariance, PTL

\* Every cart is billed to the party the map keeps for its address.
THEOREM AddressesHaveOneParty == Spec => []OneParty
<1>1. RecInv => OneParty
  BY DEF RecInv, BillInv
<1>2. QED
  BY <1>1, RecInvariance, PTL

\* Whoever an insert waits for waits for nobody.
THEOREM CapturesEnd == Spec => []WaitsEnd
<1>1. RecInv => WaitsEnd
  BY DEF RecInv, BillInv, Resolving, FreshRow, WaitsEnd
<1>2. QED
  BY <1>1, RecInvariance, PTL

\* The mail goes to the address the cart was billed to.
THEOREM MailsReachTheShopper == Spec => []MailsTheShopper
<1>1. RecInv => MailsTheShopper
  BY DEF RecInv, Informed, MailsTheShopper
<1>2. QED
  BY <1>1, RecInvariance, PTL

\* No invite says sent of a mail that was not accepted.
THEOREM SentIsSent == Spec => []NeverFakeSent
<1>1. RecInv => NeverFakeSent
  BY DEF RecInv
<1>2. QED
  BY <1>1, RecInvariance, PTL

-----------------------------------------------------------------------------
(* The mails that come late. *)

\* Of a cart whose shopper is back, the sends counted then are enough for the
\* late mails and for the sends still to mail it; of an abandoned one no mail
\* is late yet.
Expected(c) ==
  IF Kept(c) THEN late[c] + Cardinality(ToMail(c)) <= under[c] ELSE late[c] = 0
LateInv == \A c \in Carts : Expected(c)

\* A step after which fewer sends are under way for a cart.
LEMMA FewerToMail ==
  ASSUME TypeOK, RecoveryAssumption, NEW c \in Carts, Expected(c),
         cart'[c] = cart[c], late'[c] = late[c], under'[c] = under[c], ToMail(c)' \subseteq ToMail(c)
  PROVE  Expected(c)'
<1>1. IsFiniteSet(ToMail(c)) /\ Cardinality(ToMail(c)) \in Nat
  BY ToMailFinite
<1>2. Cardinality(ToMail(c)') \in Nat /\ Cardinality(ToMail(c)') <= Cardinality(ToMail(c))
  BY <1>1, FS_Subset, FS_CardinalityType
<1>3. late[c] \in Nat /\ under[c] \in Nat
  BY DEF TypeOK
<1>4. QED
  BY <1>1, <1>2, <1>3 DEF Expected, Kept

\* A mail that comes late is one of those that were still to come.
LEMMA MailsCome ==
  ASSUME TypeOK, RecoveryAssumption, NEW o \in Officers, officer[o].cart \in Carts,
         NEW accepts \in BOOLEAN, Send(o, accepts), NEW c \in Carts, Expected(c)
  PROVE  Expected(c)'
<1>1. /\ cart' = cart /\ under' = under /\ officer[o].at = "send"
      /\ officer'[o].at = "stamp" /\ \A q \in Officers \ {o} : officer'[q] = officer[q]
      /\ late' = IF accepts /\ Kept(officer[o].cart)
                 THEN [late EXCEPT ![officer[o].cart] = @ + 1] ELSE late
  BY DEF TypeOK, Send, billVars, Sending
<1>2. late[c] \in Nat /\ under[c] \in Nat
  BY DEF TypeOK
<1>3. ToMail(c)' = ToMail(c) \ {o}
  BY <1>1 DEF ToMail
<1>4. CASE late'[c] = late[c]
  BY <1>1, <1>3, <1>4, FewerToMail
<1>5. CASE late'[c] # late[c]
  <2>1. c = officer[o].cart /\ Kept(c) /\ late'[c] = late[c] + 1
    BY <1>1, <1>5 DEF TypeOK
  <2>2. o \in ToMail(c)
    BY <1>1, <2>1 DEF ToMail
  <2>3. IsFiniteSet(ToMail(c)) /\ Cardinality(ToMail(c)) \in Nat
    BY ToMailFinite
  <2>4. Cardinality(ToMail(c) \ {o}) = Cardinality(ToMail(c)) - 1
    BY <2>2, <2>3, FS_RemoveElement
  <2>5. Kept(c)' /\ late[c] + Cardinality(ToMail(c)) <= under[c]
    BY <1>1, <2>1 DEF Expected, Kept
  <2>6. QED
    BY <1>1, <1>2, <1>3, <2>1, <2>3, <2>4, <2>5 DEF Expected
<1>6. QED
  BY <1>4, <1>5

\* A cart is written by a capture or a place, and is the shopper's again.
LEMMA CommitsKeepCarts ==
  ASSUME TypeOK, NEW t \in Tasks, Request(t) \/ Work(t) \/ Rollback(t), NEW c \in Carts
  PROVE  cart'[c] = cart[c] \/ Kept(c)'
<1>1. ASSUME NEW s, NEW p, Commit(t, [state |-> s, party |-> p, stale |-> FALSE])
      PROVE  cart'[c] = cart[c] \/ Kept(c)'
  BY <1>1 DEF Commit, Kept, TypeOK, BillTypeOK
<1>2. Stamp(t) => cart'[c] = cart[c] \/ Kept(c)'
  BY <1>1 DEF Stamp
<1>3. Place(t) => cart'[c] = cart[c] \/ Kept(c)'
  BY <1>1 DEF Place
<1>4. Request(t) \/ Known(t) \/ Mint(t) \/ Insert(t) \/ Winner(t) \/ Rollback(t) => cart' = cart
  BY DEF Request, Lock, Known, Mint, Insert, Winner, Rollback
<1>5. QED
  BY <1>2, <1>3, <1>4 DEF Work

LEMMA LateKeeps ==
  ASSUME RecInv, LateInv, BillingAssumption, RecoveryAssumption, [Next]_vars
  PROVE  LateInv'
<1>. SUFFICES ASSUME NEW c \in Carts PROVE Expected(c)'
  BY DEF LateInv
<1>0. TypeOK /\ Expected(c) /\ late[c] \in Nat /\ under[c] \in Nat
  BY DEF RecInv, LateInv, TypeOK
<1>1. ASSUME NEW o \in Officers, Officer(o) PROVE Expected(c)'
  <2>0. /\ officer \in [Officers -> Sending] /\ officer[o] \in Sending
        /\ officer[o].at # "idle" => officer[o].cart \in Carts
    BY <1>0 DEF TypeOK, RecInv, Informed
  <2>1. ASSUME NEW d \in Carts, CheckWindow(o, d) PROVE Expected(c)'
    <3>1. /\ UNCHANGED <<cart, under, late>> /\ ~Kept(d)
          /\ officer'[o].cart = d /\ \A q \in Officers \ {o} : officer'[q] = officer[q]
      BY <2>0, <2>1 DEF CheckWindow, Abandoned, Kept, Reading, billVars, lateVars, NoSend
    <3>2. CASE c = d
      BY <1>0, <3>1, <3>2 DEF Expected, Kept
    <3>3. CASE c # d
      <4>1. ToMail(c)' \subseteq ToMail(c)
        BY <3>1, <3>3 DEF ToMail
      <4>2. QED
        BY <1>0, <3>1, <4>1, FewerToMail
    <3>4. QED
      BY <3>2, <3>3
  <2>2. ASSUME NEW accepts \in BOOLEAN, Send(o, accepts) PROVE Expected(c)'
    BY <1>0, <2>0, <2>2, MailsCome DEF Send
  <2>3. ASSUME Abandon(o), UNCHANGED <<cart, under, late>> PROVE Expected(c)'
    <3>1. officer'[o].at = "idle" /\ \A q \in Officers \ {o} : officer'[q] = officer[q]
      BY <2>0, <2>3 DEF Abandon, NoSend
    <3>2. ToMail(c)' \subseteq ToMail(c)
      BY <3>1 DEF ToMail
    <3>3. QED
      BY <1>0, <2>3, <3>2, FewerToMail
  <2>4. ASSUME ReadParty(o) \/ ReadAddress(o), ~Abandon(o) PROVE Expected(c)'
    <3>1. /\ officer[o].at \in {"party", "address"} /\ officer'[o].cart = officer[o].cart
          /\ \A q \in Officers \ {o} : officer'[q] = officer[q]
          /\ UNCHANGED <<cart, under, late>>
      BY <2>0, <2>4 DEF ReadParty, ReadAddress, Reading, billVars, lateVars, Sending
    <3>2. ToMail(c)' \subseteq ToMail(c)
      BY <3>1 DEF ToMail
    <3>3. QED
      BY <1>0, <3>1, <3>2, FewerToMail
  <2>5. ReadParty(o) \/ ReadAddress(o) \/ StampInvite(o) \/ Drop(o) => UNCHANGED <<cart, under, late>>
    BY DEF ReadParty, ReadAddress, StampInvite, Drop, Reading, billVars, lateVars
  <2>6. StampInvite(o) \/ Drop(o) => Abandon(o)
    BY DEF StampInvite, Drop
  <2>7. QED
    BY <1>1, <2>1, <2>2, <2>3, <2>4, <2>5, <2>6 DEF Officer
<1>2. CASE Bill
  <2>1. /\ officer' = officer /\ late' = late
        /\ under'[c] = IF ~Kept(c) /\ cart'[c] # cart[c] THEN Cardinality(ToMail(c)) ELSE under[c]
    BY <1>2 DEF Bill
  <2>2. cart'[c] = cart[c] \/ Kept(c)'
    BY <1>0, <1>2, CommitsKeepCarts DEF Bill, BillNext
  <2>3. ToMail(c)' = ToMail(c) /\ Cardinality(ToMail(c)) \in Nat
    BY <2>1, ToMailFinite DEF ToMail
  <2>4. CASE cart'[c] = cart[c]
    BY <1>0, <2>1, <2>3, <2>4, FewerToMail
  <2>5. CASE cart'[c] # cart[c]
    BY <1>0, <2>1, <2>2, <2>3, <2>5 DEF Expected
  <2>6. QED
    BY <2>4, <2>5
<1>3. ASSUME NEW d \in Carts, Ages(d) PROVE Expected(c)'
  <2>1. CASE c = d
    <3>1. cart'[c].stale /\ cart'[c].state = "open"
      BY <1>0, <1>3, <2>1 DEF Ages, TypeOK, BillTypeOK, CartRow
    <3>2. late'[c] = 0
      BY <1>0, <1>3, <2>1 DEF Ages, TypeOK
    <3>3. QED
      BY <3>1, <3>2 DEF Expected, Kept
  <2>2. CASE c # d
    BY <1>0, <1>3, <2>2, FewerToMail DEF Ages, TypeOK, BillTypeOK, ToMail
  <2>3. QED
    BY <2>1, <2>2
<1>4. CASE UNCHANGED vars
  BY <1>0, <1>4, FewerToMail DEF vars, billVars, recVars, lateVars, ToMail
<1>5. QED
  BY <1>1, <1>2, <1>3, <1>4 DEF Next

\* No more mails come late than sends were under way as the shopper came back.
THEOREM LateMailsAreFew == Spec => []LateMailsBounded
<1>1. Init => LateInv
  <2>1. ASSUME Init, NEW c \in Carts PROVE Expected(c)
    <3>1. None \notin Carts
      BY BillingAssumption DEF BillingAssumption
    <3>2. ToMail(c) = {} /\ late[c] = 0 /\ under[c] = 0
      BY <2>1, <3>1 DEF Init, ToMail, NoSend
    <3>3. QED
      BY <3>2, FS_EmptySet DEF Expected
  <2>2. QED
    BY <2>1 DEF LateInv
<1>2. RecInv /\ LateInv /\ [Next]_vars => LateInv'
  BY LateKeeps, BillingAssumption, RecoveryAssumption
<1>3. LateInv => LateMailsBounded
  BY DEF LateInv, Expected, LateMailsBounded
<1>4. QED
  BY <1>1, <1>2, <1>3, RecInvariance, PTL DEF Spec

-----------------------------------------------------------------------------
(* What is seen of a capture or a place: its end. *)

\* Whoever holds a cart's row is at work on that cart.
Holder(c, t) == lock[c] = t => task[t].at # "idle" /\ task[t].cart = c
Holders == \A c \in Carts, t \in Tasks : Holder(c, t)

\* Until a handler ends, it works on under the row it has.
LEMMA WorkersHold ==
  ASSUME RecInv, Holders, NEW t \in Tasks, UNCHANGED <<cart, lock>>,
         Known(t) \/ Mint(t) \/ Insert(t) \/ Winner(t) \/ Stamp(t)
  PROVE  Holders'
<1>1. task \in [Tasks -> TaskState] /\ task[t] \in TaskState /\ lock \in [Carts -> Tasks \cup {None}]
  BY DEF RecInv, TypeOK, BillTypeOK
<1>2. ASSUME NEW at \in TaskSteps \ {"idle"}, NEW p, Goto(t, at) \/ Take(t, at, p) PROVE Holders'
  <2>1. task'[t].at # "idle" /\ task'[t].cart = task[t].cart /\ \A u \in Tasks \ {t} : task'[u] = task[u]
    BY <1>1, <1>2 DEF Goto, Take, TaskState
  <2>2. QED
    BY <2>1 DEF Holders, Holder
<1>3. ASSUME NEW row, Commit(t, row) PROVE Holders'
  <2>1. lock' = [c \in Carts |-> IF lock[c] = t THEN None ELSE lock[c]] /\ lock' = lock
    BY <1>3 DEF Commit, Unlock
  <2>2. \A c \in Carts : lock[c] # t
    BY <1>1, <2>1, BillingAssumption DEF BillingAssumption
  <2>3. \A u \in Tasks \ {t} : task'[u] = task[u]
    BY <1>1, <1>3 DEF Commit, Finish
  <2>4. QED
    BY <2>1, <2>2, <2>3 DEF Holders, Holder
<1>4. QED
  BY <1>2, <1>3 DEF Known, Mint, Insert, Winner, Stamp, Resolved, Lost, TaskSteps

\* Whoever ends lets go of the row it works on, and of no other.
LEMMA EndersLetGo ==
  ASSUME RecInv, Holders, NEW t \in Tasks, task[t].at # "idle", Unlock(t), Finish(t)
  PROVE  /\ Holders'
         /\ task[t].cart \in Carts /\ lock[task[t].cart] = t
         /\ lock' = [lock EXCEPT ![task[t].cart] = None]
<1>1. /\ task \in [Tasks -> TaskState] /\ lock \in [Carts -> Tasks \cup {None}] /\ None \notin Tasks
      /\ task[t].cart \in Carts /\ lock[task[t].cart] = t
  BY BillingAssumption DEF RecInv, BillInv, BillTypeOK, Working, BillingAssumption
<1>2. /\ lock' = [c \in Carts |-> IF lock[c] = t THEN None ELSE lock[c]]
      /\ \A u \in Tasks \ {t} : task'[u] = task[u]
  BY <1>1 DEF Unlock, Finish
<1>3. \A c \in Carts : lock[c] = t => c = task[t].cart
  BY DEF Holders, Holder
<1>4. lock' = [lock EXCEPT ![task[t].cart] = None]
  BY <1>1, <1>2, <1>3
<1>5. \A c \in Carts : lock'[c] = IF lock[c] = t THEN None ELSE lock[c]
  BY <1>2
<1>6. Holders'
  BY <1>1, <1>2, <1>5 DEF Holders, Holder
<1>7. QED
  BY <1>1, <1>4, <1>6

\* A capture that takes the row was idle, and had none.
LEMMA LockersHold ==
  ASSUME RecInv, Holders, NEW t \in Tasks, NEW c \in Carts,
         NEW verb \in {"capture", "express", "place"}, NEW e \in Emails \cup {None}, Lock(t, verb, c, e)
  PROVE  Holders' /\ L!Acquire(t, c)
<1>1. task \in [Tasks -> TaskState] /\ lock \in [Carts -> Tasks \cup {None}]
  BY DEF RecInv, TypeOK, BillTypeOK
<1>2. \A d \in Carts : lock[d] # t
  BY DEF Lock, Holders, Holder
<1>3. /\ lock' = [lock EXCEPT ![c] = t] /\ lock[c] = None /\ cart[c].state = "open" /\ cart' = cart
      /\ task'[t].at # "idle" /\ task'[t].cart = c /\ \A u \in Tasks \ {t} : task'[u] = task[u]
  BY <1>1 DEF Lock
<1>4. Holders'
  BY <1>1, <1>2, <1>3 DEF Holders, Holder
<1>5. L!Acquire(t, c)
  BY <1>2, <1>3 DEF L!Acquire
<1>6. QED
  BY <1>4, <1>5

-----------------------------------------------------------------------------
(* The commits. *)

\* A handler commits the party of its cart's address, or of the cart itself.
Commits(t, s) ==
  /\ task[t].at \in {"stamp", "place"}
  /\ Commit(t, [state |-> s, party |-> task[t].party, stale |-> FALSE])

\* What the commit of cart c shows of the carts.
ShowsCommit(c, s, p) ==
  /\ c \in Carts /\ cart[c].state = "open"
  /\ [d \in Carts |-> cart'[d].state] = [[d \in Carts |-> cart[d].state] EXCEPT ![c] = s]
  /\ [d \in Carts |-> cart'[d].party] = [[d \in Carts |-> cart[d].party] EXCEPT ![c] = p]
  /\ {d \in Carts : cart'[d].state = "placed"} =
       {d \in Carts : cart[d].state = "placed"} \cup (IF s = "placed" THEN {c} ELSE {})

\* A cart that is committed is the open one the handler holds.
LEMMA CommitsItsCart ==
  ASSUME RecInv, NEW t \in Tasks, NEW s \in {"open", "placed"}, Commits(t, s)
  PROVE  ShowsCommit(task[t].cart, s, task[t].party)
<1>. DEFINE c == task[t].cart
            row == [state |-> s, party |-> task[t].party, stale |-> FALSE]
<1>1. c \in Carts /\ cart[c].state = "open" /\ cart \in [Carts -> CartRow]
  BY DEF RecInv, BillInv, BillTypeOK, Working, Commits
<1>2. cart' = [cart EXCEPT ![c] = row]
  BY DEF Commits, Commit
<1>3. \A d \in Carts : cart'[d] = IF d = c THEN row ELSE cart[d]
  BY <1>1, <1>2
<1>4. row.state = s /\ row.party = task[t].party
  OBVIOUS
<1>. HIDE DEF row
<1>5. /\ [d \in Carts |-> cart'[d].state] = [[d \in Carts |-> cart[d].state] EXCEPT ![c] = s]
      /\ [d \in Carts |-> cart'[d].party] = [[d \in Carts |-> cart[d].party] EXCEPT ![c] = task[t].party]
  BY <1>1, <1>3, <1>4
<1>6. {d \in Carts : cart'[d].state = "placed"} =
        {d \in Carts : cart[d].state = "placed"} \cup (IF s = "placed" THEN {c} ELSE {})
  BY <1>1, <1>3, <1>4
<1>7. QED
  BY <1>1, <1>5, <1>6 DEF ShowsCommit

\* To the row lock, a commit that leaves the cart open releases it.
LEMMA CommitEndsLock ==
  ASSUME RecInv, Holders, NEW t \in Tasks, NEW s \in {"open", "placed"}, Commits(t, s)
  PROVE  Holders' /\ \E c \in Carts : L!Release(t, c) \/ L!Place(t, c)
<1>. DEFINE c == task[t].cart
<1>1. /\ Holders' /\ c \in Carts /\ lock[c] = t /\ lock' = [lock EXCEPT ![c] = None]
  BY EndersLetGo DEF Commits, Commit
<1>2. /\ cart[c].state = "open"
      /\ [d \in Carts |-> cart'[d].state] = [[d \in Carts |-> cart[d].state] EXCEPT ![c] = s]
  <2>1. ShowsCommit(c, s, task[t].party)
    BY CommitsItsCart
  <2>. HIDE DEF c
  <2>2. QED
    BY <2>1 DEF ShowsCommit
<1>3. CASE s = "placed"
  BY <1>1, <1>2, <1>3 DEF L!Place
<1>4. CASE s = "open"
  <2>1. [d \in Carts |-> cart'[d].state] = [d \in Carts |-> cart[d].state]
    BY <1>1, <1>2, <1>4
  <2>2. QED
    BY <1>1, <2>1 DEF L!Release
<1>5. QED
  BY <1>3, <1>4

\* To the map, it resolves the address in one step.
LEMMA CommitResolves ==
  ASSUME RecInv, NEW t \in Tasks, NEW s \in {"open", "placed"}, Commits(t, s), task[t].email # None
  PROVE  task[t].email \in Emails /\ task[t].party \in Parties /\ S!Resolve(task[t].email, task[t].party)
<1>. DEFINE e == task[t].email
            p == task[t].party
<1>1. /\ e \in Emails /\ p \in Parties /\ minted[p] = e /\ (map[e] = p \/ fresh[e] = t)
      /\ map \in [Emails -> Parties \cup {None}]
      /\ \A f \in Emails : FreshRow(f) /\ MapRow(f)
  BY DEF RecInv, BillInv, BillTypeOK, Resolving, Settled, Commits
<1>2. \A f \in Emails : fresh[f] = t => f = e /\ map[f] = None
  BY <1>1, BillingAssumption DEF FreshRow, BillingAssumption
<1>3. map' = [f \in Emails |-> IF fresh[f] = t THEN p ELSE map[f]]
  BY DEF Commits, Commit
<1>4. map' = [map EXCEPT ![e] = p]
  BY <1>1, <1>2, <1>3
<1>5. \A f \in Emails : map[f] = p => f = e
  BY <1>1, BillingAssumption DEF MapRow, BillingAssumption
<1>6. QED
  BY <1>1, <1>2, <1>4, <1>5 DEF S!Resolve

LEMMA CommitSeen ==
  ASSUME RecInv, NEW t \in Tasks, NEW s \in {"open", "placed"}, Commits(t, s),
         task[t].email = None => s = "placed"
  PROVE  S!Next
<1>. DEFINE c == task[t].cart
            e == task[t].email
            p == task[t].party
<1>0. /\ c \in Carts /\ cart[c].state = "open"
      /\ [d \in Carts |-> cart'[d].party] = [[d \in Carts |-> cart[d].party] EXCEPT ![c] = p]
      /\ {d \in Carts : cart'[d].state = "placed"} =
           {d \in Carts : cart[d].state = "placed"} \cup (IF s = "placed" THEN {c} ELSE {})
  <2>1. ShowsCommit(c, s, p)
    BY CommitsItsCart
  <2>. HIDE DEF c, p
  <2>2. QED
    BY <2>1 DEF ShowsCommit
<1>1. CASE e # None /\ s = "open"
  <2>1. e \in Emails /\ p \in Parties /\ S!Resolve(e, p)
    BY <1>1, CommitResolves
  <2>2. S!Bill(c, e, p)
    BY <1>0, <2>1 DEF S!Bill
  <2>3. {d \in Carts : cart'[d].state = "placed"} = {d \in Carts : cart[d].state = "placed"}
    BY <1>0, <1>1
  <2>4. PICK d \in Carts, f \in Emails, q \in Parties : d = c /\ f = e /\ q = p
    BY <1>0, <2>1
  <2>5. S!Capture(d, f, q)
    BY <2>1, <2>2, <2>3, <2>4 DEF S!Capture, S!Bill, S!Resolve
  <2>6. QED
    BY <2>5 DEF S!Next
<1>2. CASE e # None /\ s = "placed"
  <2>1. e \in Emails /\ p \in Parties /\ S!Resolve(e, p)
    BY <1>2, CommitResolves
  <2>2. S!Bill(c, e, p)
    BY <1>0, <2>1 DEF S!Bill
  <2>3. {d \in Carts : cart'[d].state = "placed"} = {d \in Carts : cart[d].state = "placed"} \cup {c}
    BY <1>0, <1>2
  <2>4. PICK d \in Carts, f \in Emails, q \in Parties : d = c /\ f = e /\ q = p
    BY <1>0, <2>1
  <2>5. S!Express(d, f, q)
    BY <2>1, <2>2, <2>3, <2>4 DEF S!Express, S!Bill, S!Resolve
  <2>6. QED
    BY <2>5 DEF S!Next
<1>3. CASE e = None
  <2>1. /\ s = "placed" /\ p # None /\ p = cart[c].party
        /\ map \in [Emails -> Parties \cup {None}] /\ \A f \in Emails : FreshRow(f)
    BY <1>3, BillingAssumption DEF RecInv, BillInv, BillTypeOK, Resolving, Settled, Commits, BillingAssumption
  <2>2. \A f \in Emails : fresh[f] # t
    BY <1>3, <2>1, BillingAssumption DEF FreshRow, BillingAssumption
  <2>3. map' = map
    BY <2>1, <2>2 DEF Commits, Commit
  <2>4. [d \in Carts |-> cart'[d].party] = [d \in Carts |-> cart[d].party]
    BY <1>0, <2>1
  <2>5. \E d \in Carts : S!Place(d)
    BY <1>0, <2>1, <2>3, <2>4 DEF S!Place
  <2>6. QED
    BY <2>5 DEF S!Next
<1>4. QED
  BY <1>1, <1>2, <1>3

-----------------------------------------------------------------------------
(* The refinements. *)

\* Before its end a handler shows nothing; nor does a step of an officer, or time.
Unseen ==
  /\ lock' = lock /\ map' = map
  /\ \A c \in Carts : cart'[c].state = cart[c].state /\ cart'[c].party = cart[c].party

LEMMA StepKinds ==
  ASSUME RecInv, [Next]_vars
  PROVE  \/ \E t \in Tasks, c \in Carts, verb \in {"capture", "express", "place"},
               e \in Emails \cup {None} : Lock(t, verb, c, e)
         \/ \E t \in Tasks, s \in {"open", "placed"} :
               Commits(t, s) /\ (task[t].email = None => s = "placed")
         \/ \E t \in Tasks : Rollback(t)
         \/ /\ Unseen /\ cart' = cart
            /\ \E t \in Tasks : Known(t) \/ Mint(t) \/ Insert(t) \/ Winner(t) \/ Stamp(t)
         \/ Unseen /\ task' = task
<1>1. ASSUME NEW t \in Tasks, Stamp(t)
      PROVE  \/ Commits(t, "open") /\ task[t].email # None
             \/ Unseen /\ cart' = cart
  <2>1. task[t].at = "stamp" /\ task[t].email \in Emails
    BY <1>1 DEF Stamp, RecInv, BillInv, Resolving, Settled
  <2>2. QED
    BY <1>1, <2>1, BillingAssumption DEF Stamp, Commits, Unseen, BillingAssumption
<1>2. ASSUME NEW t \in Tasks, Place(t) PROVE Commits(t, "placed")
  BY <1>2 DEF Place, Commits
<1>3. ASSUME NEW t \in Tasks, Known(t) \/ Mint(t) \/ Insert(t) \/ Winner(t)
      PROVE  Unseen /\ cart' = cart
  BY <1>3 DEF Known, Mint, Insert, Winner, Unseen
<1>4. ASSUME NEW c \in Carts, Ages(c) PROVE Unseen /\ task' = task
  <2>1. cart \in [Carts -> CartRow] /\ cart[c] \in CartRow
    BY DEF RecInv, TypeOK, BillTypeOK
  <2>. DEFINE new == [cart[c] EXCEPT !.stale = TRUE]
  <2>2. cart' = [cart EXCEPT ![c] = new] /\ UNCHANGED <<lock, map, task>>
    BY <1>4 DEF Ages
  <2>3. new.state = cart[c].state /\ new.party = cart[c].party
    BY <2>1 DEF CartRow
  <2>. HIDE DEF new
  <2>4. QED
    BY <2>1, <2>2, <2>3, Zenon DEF Unseen
<1>5. ASSUME (\E o \in Officers : Officer(o)) \/ UNCHANGED vars PROVE Unseen /\ task' = task
  <2>1. CASE UNCHANGED vars
    BY <2>1 DEF vars, billVars, Unseen
  <2>2. CASE \E o \in Officers : Officer(o)
    <3>1. UNCHANGED billVars
      BY <2>2 DEF Officer, CheckWindow, ReadParty, ReadAddress, Send, StampInvite, Drop, Reading
    <3>2. QED
      BY <3>1 DEF billVars, Unseen
  <2>3. QED
    BY <1>5, <2>1, <2>2
<1>6. QED
  BY <1>1, <1>2, <1>3, <1>4, <1>5 DEF Next, Bill, BillNext, Request, Work

\* Every step of Recovery is a step of CartLock or invisible to it.
LEMMA LockSimulated == RecInv /\ Holders /\ [Next]_vars => Holders' /\ [L!Next]_(L!vars)
<1> SUFFICES ASSUME RecInv, Holders, [Next]_vars PROVE Holders' /\ [L!Next]_(L!vars)
  OBVIOUS
<1>1. ASSUME NEW t \in Tasks, NEW c \in Carts, NEW verb \in {"capture", "express", "place"},
             NEW e \in Emails \cup {None}, Lock(t, verb, c, e)
      PROVE  Holders' /\ L!Next
  BY <1>1, LockersHold DEF L!Next
<1>2. ASSUME NEW t \in Tasks, NEW s \in {"open", "placed"}, Commits(t, s) PROVE Holders' /\ L!Next
  BY <1>2, CommitEndsLock DEF L!Next
<1>3. ASSUME NEW t \in Tasks, Rollback(t) PROVE Holders' /\ L!Next
  <2>1. cart' = cart /\ task[t].at # "idle" /\ Unlock(t) /\ Finish(t)
    BY <1>3 DEF Rollback
  <2>2. QED
    BY <2>1, EndersLetGo DEF L!Next, L!Release
<1>4. ASSUME Unseen PROVE UNCHANGED L!vars
  BY <1>4 DEF Unseen, L!vars
<1>5. ASSUME Unseen, task' = task PROVE Holders'
  BY <1>5 DEF Unseen, Holders, Holder
<1>6. ASSUME Unseen, cart' = cart, NEW t \in Tasks,
             Known(t) \/ Mint(t) \/ Insert(t) \/ Winner(t) \/ Stamp(t)
      PROVE  Holders'
  BY <1>6, WorkersHold DEF Unseen
<1>7. QED
  BY <1>1, <1>2, <1>3, <1>4, <1>5, <1>6, StepKinds

\* A capture, an express place and a plain place keep the rules of the row lock.
THEOREM BillingKeepsLock == Spec => KeepsCartLock
<1>1. Init => L!Init /\ Holders
  BY BillingAssumption DEF Init, BillInit, NewCart, L!Init, Holders, Holder, BillingAssumption
<1>2. QED
  BY <1>1, LockSimulated, RecInvariance, PTL DEF Spec, KeepsCartLock, L!Spec

\* Every step of Recovery is a step of ShopperParties or invisible to it.
LEMMA PartiesSimulated == RecInv /\ [Next]_vars => [S!Next]_(S!vars)
<1> SUFFICES ASSUME RecInv, [Next]_vars PROVE [S!Next]_(S!vars)
  OBVIOUS
<1>1. ASSUME map' = map, \A c \in Carts : cart'[c].state = cart[c].state /\ cart'[c].party = cart[c].party
      PROVE  UNCHANGED S!vars
  BY <1>1 DEF S!vars
<1>2. ASSUME NEW t \in Tasks, NEW c \in Carts, NEW verb, NEW e, Lock(t, verb, c, e) \/ Rollback(t)
      PROVE  UNCHANGED S!vars
  BY <1>1, <1>2 DEF Lock, Rollback
<1>3. ASSUME Unseen PROVE UNCHANGED S!vars
  BY <1>1, <1>3 DEF Unseen
<1>4. ASSUME NEW t \in Tasks, Rollback(t) PROVE UNCHANGED S!vars
  BY <1>1, <1>4 DEF Rollback
<1>5. QED
  BY <1>2, <1>3, <1>4, CommitSeen, StepKinds

\* Resolving an address in a transaction, beside others that win, wait or roll
\* back, is one atomic look-up or entry.
THEOREM ResolutionIsAtomic == Spec => ResolvesAtomically
<1>1. Init => S!Init
  BY DEF Init, BillInit, NewCart, S!Init
<1>2. QED
  BY <1>1, PartiesSimulated, RecInvariance, PTL DEF Spec, ResolvesAtomically, S!Spec
=============================================================================
