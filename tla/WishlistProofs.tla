---------------------------- MODULE WishlistProofs ----------------------------
(***************************************************************************)
(* Proofs about Wishlist, for every value of its constants.  What an       *)
(* officer's send still means to alert, or to clear, is armed unless it    *)
(* was removed or another send of the item overtook this one: that is      *)
(* StillWanted, and the reason for ArmAnswered.                            *)
(***************************************************************************)
EXTENDS Wishlist, TLAPS

\* What send o has in hand is an inserted wish, armed while it lives unless
\* another send overtook this one; the wish it is about to clear is not owed.
InHand(o) == officer[o].todo \cup {officer[o].wish}
Sound(o) ==
  /\ IF officer[o].at = "clear" THEN officer[o].wish \in Wishes ELSE officer[o].wish = None
  /\ officer[o].wish \notin officer[o].todo
  /\ officer[o].wish \in owed => officer[o].wish \in officer[o].overtaken
  /\ \A w \in Wishes : w \in InHand(o) =>
       /\ wish[w].state # "none"
       /\ Live(w) /\ w \notin officer[o].overtaken => wish[w].armed

ToldRows == told \in [Wishes -> SUBSET Officers]
WishInv == TypeOK /\ \A o \in Officers : Sound(o)

-----------------------------------------------------------------------------
\* The shoppers' verbs keep it: none of them disarms a live wish, or arms one
\* it finds armed.
LEMMA WishesMove ==
  ASSUME WishInv, WishAssumption, wish' \in [Wishes -> WishRow], owed' \subseteq Wishes,
         ToldRows', UNCHANGED <<inStock, officer>>,
         \A w \in Wishes : wish[w].state # "none" =>
           /\ wish'[w].state # "none"
           /\ wish'[w].state = "live" => Live(w) /\ (wish[w].armed => wish'[w].armed)
           /\ w \in owed' \ owed => Live(w) /\ ~wish[w].armed
  PROVE  WishInv'
<1>1. TypeOK'
  BY DEF WishInv, TypeOK, ToldRows
<1>2. ASSUME NEW o \in Officers PROVE Sound(o)'
  <2>1. Sound(o) /\ officer[o] \in Sending
    BY DEF WishInv, TypeOK
  <2>2. \A w \in Wishes : w \in InHand(o) =>
          /\ wish'[w].state # "none"
          /\ wish'[w].state = "live" /\ w \notin officer[o].overtaken => wish'[w].armed
    BY <2>1 DEF Sound, Live
  <2>3. officer[o].wish \in owed' => officer[o].wish \in officer[o].overtaken
    BY <2>1 DEF Sound, InHand, WishAssumption
  <2>4. QED
    BY <2>1, <2>2, <2>3 DEF Sound, InHand, Live
<1>3. QED
  BY <1>1, <1>2 DEF WishInv

LEMMA ShopperKeeps ==
  ASSUME WishInv, WishAssumption, NEW v \in Visitors, Shopper(v), ToldRows'
  PROVE  WishInv'
<1>0. TypeOK /\ \A w \in Wishes : wish[w] \in WishRow
  BY DEF WishInv, TypeOK
<1>1. ASSUME NEW i \in Items, Add(v, i) PROVE WishInv'
  <2>1. PICK n \in Wishes : wish[n].state = "none" /\ wish' = [wish EXCEPT ![n] = NewWish(v, i)]
    BY <1>1 DEF Add
  <2>2. NewWish(v, i) \in WishRow
    BY DEF NewWish, NoWish, WishRow
  <2>3. wish' \in [Wishes -> WishRow] /\ \A w \in Wishes : w # n => wish'[w] = wish[w]
    BY <1>0, <2>1, <2>2 DEF TypeOK
  <2>4. QED
    BY <1>0, <1>1, <2>1, <2>3, WishesMove DEF Add, TypeOK, Live, history
<1>2. ASSUME NEW i \in Items, NEW p \in Principals \cup {None}, Remove(v, p, i) PROVE WishInv'
  <2>. DEFINE gone == {w \in Wishes : /\ Live(w) /\ wish[w].item = i
                                      /\ wish[w].visitor = v \/ (p # None /\ wish[w].principal = p)}
  <2>0. /\ wish' = [w \in Wishes |-> IF w \in gone
                                    THEN [wish[w] EXCEPT !.state = "deleted", !.armed = FALSE]
                                    ELSE wish[w]]
        /\ owed' = owed \ gone
        /\ UNCHANGED <<inStock, officer>>
    BY <1>2 DEF Remove
  <2>. HIDE DEF gone
  <2>1. ASSUME NEW w \in Wishes
        PROVE  /\ wish'[w] \in WishRow
               /\ wish'[w] = wish[w] \/ (wish'[w].state = "deleted")
    BY <1>0, <2>0 DEF WishRow
  <2>2. wish' \in [Wishes -> WishRow]
    BY <2>0, <2>1
  <2>3. owed' \subseteq owed
    BY <2>0
  <2>4. QED
    BY <1>0, <2>0, <2>1, <2>2, <2>3, WishesMove DEF TypeOK, Live
<1>3. ASSUME NEW i \in Items, NEW p \in Principals \cup {None}, Arm(v, p, i) PROVE WishInv'
  <2>1. ASSUME NEW w \in Wishes
        PROVE  /\ wish'[w] \in WishRow /\ wish'[w].state = wish[w].state
               /\ wish[w].armed => wish'[w].armed
    BY <1>0, <1>3 DEF Arm, WishRow
  <2>2. wish' \in [Wishes -> WishRow]
    BY <1>3, <2>1 DEF Arm
  <2>3. owed' \subseteq Wishes /\ \A w \in owed' \ owed : Live(w) /\ ~wish[w].armed
    BY <1>0, <1>3 DEF Arm, Unarmed, Own, TypeOK
  <2>4. QED
    BY <1>3, <2>1, <2>2, <2>3, WishesMove DEF Arm, Live
<1>4. ASSUME NEW p \in Principals, Reconcile(v, p) PROVE WishInv'
  <2>1. ASSUME NEW w \in Wishes
        PROVE  /\ wish'[w] \in WishRow /\ wish'[w].state = wish[w].state
               /\ wish'[w].armed = wish[w].armed
    BY <1>0, <1>4 DEF Reconcile, WishRow
  <2>2. wish' \in [Wishes -> WishRow]
    BY <1>4, <2>1 DEF Reconcile
  <2>3. QED
    BY <1>0, <1>4, <2>1, <2>2, WishesMove DEF Reconcile, TypeOK, Live, history
<1>5. QED
  BY <1>1, <1>2, <1>3, <1>4 DEF Shopper

-----------------------------------------------------------------------------
\* An officer's step that clears no arm.
LEMMA SendMoves ==
  ASSUME WishInv, NEW o \in Officers, NEW new \in Sending,
         officer' = [officer EXCEPT ![o] = new], UNCHANGED <<wish, inStock>>,
         owed' \subseteq owed, ToldRows',
         Sound(o)'
  PROVE  WishInv'
<1>1. officer'[o] = new /\ \A q \in Officers \ {o} : officer'[q] = officer[q]
  BY DEF WishInv, TypeOK
<1>2. TypeOK'
  BY DEF WishInv, TypeOK, ToldRows
<1>3. \A q \in Officers \ {o} : Sound(q)'
  BY <1>1 DEF WishInv, Sound, InHand, Live
<1>4. QED
  BY <1>2, <1>3 DEF WishInv

LEMMA OfficerKeeps ==
  ASSUME WishInv, WishAssumption, NEW o \in Officers, Officer(o), ToldRows'
  PROVE  WishInv'
<1>0. TypeOK /\ Sound(o) /\ officer[o] \in Sending /\ officer \in [Officers -> Sending]
  BY DEF WishInv, TypeOK
<1>1. ASSUME NEW i \in Items \cup {None}, NEW at \in {"idle", "rows"},
             officer' = [officer EXCEPT ![o] = [Idle EXCEPT !.at = at, !.item = i]],
             UNCHANGED <<wish, inStock, owed>>
      PROVE  WishInv'
  <2>. DEFINE new == [Idle EXCEPT !.at = at, !.item = i]
  <2>1. Idle \in Sending /\ Idle.todo = {} /\ Idle.wish = None
    BY DEF Idle, Sending
  <2>2. new \in Sending /\ new.at = at /\ new.todo = Idle.todo /\ new.wish = Idle.wish
    BY <2>1 DEF Sending
  <2>3. officer'[o] = new
    BY <1>0, <1>1
  <2>4. Sound(o)'
    BY <1>0, <1>1, <2>1, <2>2, <2>3 DEF Sound, InHand, TypeOK, WishAssumption
  <2>5. QED
    BY <1>1, <2>2, <2>4, SendMoves
<1>2. ASSUME officer' = [officer EXCEPT ![o] = Idle], UNCHANGED <<wish, inStock, owed>>
      PROVE  WishInv'
  <2>1. Idle \in Sending /\ Idle.todo = {} /\ Idle.wish = None /\ Idle.at = "idle"
    BY DEF Idle, Sending
  <2>2. Sound(o)'
    BY <1>0, <1>2, <2>1 DEF Sound, InHand, TypeOK, WishAssumption
  <2>3. QED
    BY <1>2, <2>1, <2>2, SendMoves
<1>3. ASSUME NEW i \in Items, StockCheck(o, i) PROVE WishInv'
  BY <1>1, <1>3 DEF StockCheck, history
<1>4. CASE ReadRows(o)
  <2>. DEFINE new == [officer[o] EXCEPT !.at = "send", !.todo = Waiting(officer[o].item)]
  <2>1. officer' = [officer EXCEPT ![o] = new] /\ UNCHANGED <<wish, inStock, owed>>
    BY <1>4 DEF ReadRows, history
  <2>2. Waiting(officer[o].item) \subseteq Wishes
        /\ \A w \in Waiting(officer[o].item) : wish[w].state # "none" /\ wish[w].armed
    BY DEF Waiting, Live
  <2>3. /\ new \in Sending /\ new.at = "send" /\ new.todo = Waiting(officer[o].item)
        /\ new.wish = officer[o].wish /\ new.overtaken = officer[o].overtaken
    BY <1>0, <2>2 DEF Sending
  <2>4. officer'[o] = new /\ officer[o].wish = None
    BY <1>0, <1>4, <2>1 DEF ReadRows, Sound
  <2>5. Sound(o)'
    BY <1>0, <2>1, <2>2, <2>3, <2>4 DEF Sound, InHand, TypeOK, WishAssumption, Live
  <2>6. QED
    BY <2>1, <2>3, <2>5, SendMoves
<1>5. ASSUME NEW w \in officer[o].todo, officer[o].at = "send", Accepted(o, w),
             UNCHANGED <<wish, inStock>>
      PROVE  WishInv'
  <2>. DEFINE new == [officer[o] EXCEPT !.at = "clear", !.todo = @ \ {w}, !.wish = w]
  <2>1. officer' = [officer EXCEPT ![o] = new] /\ owed' = owed \ {w}
    BY <1>5 DEF Accepted
  <2>2. w \in Wishes
    BY <1>0 DEF Sending
  <2>3. /\ new \in Sending /\ new.at = "clear" /\ new.todo = officer[o].todo \ {w}
        /\ new.wish = w /\ new.overtaken = officer[o].overtaken
    BY <1>0, <2>2 DEF Sending
  <2>4. officer'[o] = new
    BY <1>0, <2>1
  <2>5. Sound(o)'
    BY <1>0, <1>5, <2>1, <2>2, <2>3, <2>4 DEF Sound, InHand, Live
  <2>6. QED
    BY <1>5, <2>1, <2>3, <2>5, SendMoves
<1>6. ASSUME NEW w \in officer[o].todo, officer[o].at = "send", Refused(o, w),
             UNCHANGED <<wish, inStock>>
      PROVE  WishInv'
  <2>. DEFINE new == [officer[o] EXCEPT !.todo = @ \ {w}, !.overtaken = @ \ {w}]
  <2>1. officer' = [officer EXCEPT ![o] = new] /\ owed' = owed
    BY <1>6 DEF Refused, history
  <2>2. w \in Wishes
    BY <1>0 DEF Sending
  <2>3. /\ new \in Sending /\ new.at = "send" /\ new.todo = officer[o].todo \ {w}
        /\ new.wish = officer[o].wish /\ new.overtaken = officer[o].overtaken \ {w}
    BY <1>0, <1>6, <2>2 DEF Sending
  <2>4. officer'[o] = new /\ officer[o].wish = None
    BY <1>0, <1>6, <2>1 DEF Sound
  <2>5. Sound(o)'
    BY <1>0, <1>6, <2>1, <2>2, <2>3, <2>4 DEF Sound, InHand, Live, TypeOK, WishAssumption
  <2>6. QED
    BY <1>6, <2>1, <2>3, <2>5, SendMoves
<1>7. CASE ClearArm(o)
  <2>. DEFINE w == officer[o].wish
              old == officer[o]
              mine == [old EXCEPT !.at = "send", !.wish = None, !.overtaken = @ \ Cleared(o)]
              theirs(q) == [officer[q] EXCEPT !.overtaken = Overtaken(q, Cleared(o))]
  <2>1. w \in Wishes /\ Cleared(o) = {w} /\ old.at = "clear" /\ w \notin old.todo
    BY <1>0, <1>7 DEF ClearArm, Sound, Cleared
  <2>2. /\ owed' = owed \ {w} /\ inStock' = inStock
        /\ officer' = [q \in Officers |-> IF q = o THEN mine ELSE theirs(q)]
    BY <1>7, <2>1 DEF ClearArm
  <2>3. \A x \in Wishes : /\ wish'[x] \in WishRow /\ wish'[x].state = wish[x].state
                          /\ x # w => wish'[x].armed = wish[x].armed
    <3>1. ASSUME NEW x \in Wishes
          PROVE  wish'[x] = IF x = w THEN [wish[x] EXCEPT !.armed = FALSE] ELSE wish[x]
      BY <1>7, <2>1 DEF ClearArm
    <3>2. ASSUME NEW x \in Wishes PROVE wish[x] \in WishRow
      BY <1>0 DEF TypeOK
    <3>3. ASSUME NEW x \in Wishes
          PROVE  /\ [wish[x] EXCEPT !.armed = FALSE] \in WishRow
                 /\ [wish[x] EXCEPT !.armed = FALSE].state = wish[x].state
      BY <3>2 DEF WishRow
    <3>4. ASSUME NEW x \in Wishes, x = w
          PROVE  wish'[x] \in WishRow /\ wish'[x].state = wish[x].state
      <4>1. wish'[x] = [wish[x] EXCEPT !.armed = FALSE]
        BY <3>1, <3>4, Zenon
      <4>2. QED
        BY <3>3, <4>1, Zenon
    <3>5. ASSUME NEW x \in Wishes, x # w PROVE wish'[x] = wish[x]
      BY <3>1, <3>5, Zenon
    <3>6. QED
      BY <3>2, <3>4, <3>5
  <2>4. wish' \in [Wishes -> WishRow]
    BY <1>7, <2>3 DEF ClearArm
  <2>5. /\ mine \in Sending /\ mine.at = "send" /\ mine.todo = old.todo /\ mine.wish = None
        /\ mine.overtaken = old.overtaken \ {w}
    BY <1>0, <2>1 DEF Sending
  <2>6. ASSUME NEW q \in Officers
        PROVE  /\ theirs(q) \in Sending /\ theirs(q).at = officer[q].at
               /\ theirs(q).todo = officer[q].todo /\ theirs(q).wish = officer[q].wish
               /\ theirs(q).overtaken = officer[q].overtaken \cup ({w} \cap InHand(q))
    <3>1. officer[q] \in Sending
      BY <1>0
    <3>2. Overtaken(q, Cleared(o)) = officer[q].overtaken \cup ({w} \cap InHand(q))
      BY <2>1 DEF Overtaken, InHand
    <3>3. Overtaken(q, Cleared(o)) \subseteq Wishes
      BY <2>1, <3>1, <3>2 DEF Sending
    <3>4. QED
      BY <3>1, <3>2, <3>3 DEF Sending
  <2>7. TypeOK'
    BY <1>0, <2>2, <2>4, <2>5, <2>6 DEF TypeOK, ToldRows
  <2>8. Sound(o)'
    <3>1. officer'[o] = mine
      BY <2>2
    <3>2. \A x \in Wishes : x \in old.todo =>
            /\ wish'[x].state # "none"
            /\ wish'[x].state = "live" /\ x \notin mine.overtaken => wish'[x].armed
      BY <1>0, <2>1, <2>3, <2>5 DEF Sound, InHand, Live
    <3>3. None \notin Wishes
      BY DEF WishAssumption
    <3>4. \A x \in Wishes : x \in InHand(o)' => x \in old.todo
      BY <2>5, <3>1, <3>3 DEF InHand
    <3>5. None \notin owed' /\ None \notin mine.todo
      BY <1>0, <2>2, <2>5, <3>3 DEF TypeOK, Sending
    <3>6. QED
      BY <2>5, <3>1, <3>2, <3>4, <3>5 DEF Sound, Live
  <2>9. ASSUME NEW q \in Officers \ {o} PROVE Sound(q)'
    <3>1. officer'[q] = theirs(q) /\ Sound(q)
      BY <2>2 DEF WishInv
    <3>2. /\ InHand(q)' = InHand(q)
          /\ officer'[q].overtaken = officer[q].overtaken \cup ({w} \cap InHand(q))
      BY <2>6, <3>1 DEF InHand
    <3>3. \A x \in Wishes : x \in InHand(q) =>
            /\ wish'[x].state # "none"
            /\ wish'[x].state = "live" /\ x \notin officer'[q].overtaken => wish'[x].armed
      BY <2>1, <2>3, <3>1, <3>2 DEF Sound, Live
    <3>4. /\ officer'[q].at = officer[q].at /\ officer'[q].wish = officer[q].wish
          /\ officer'[q].todo = officer[q].todo
      BY <2>6, <3>1
    <3>5. QED
      BY <2>2, <3>1, <3>2, <3>3, <3>4 DEF Sound, Live
  <2>10. QED
    BY <2>7, <2>8, <2>9 DEF WishInv
<1>8. QED
  BY <1>2, <1>3, <1>4, <1>5, <1>6, <1>7 DEF Officer, Send, Done, Drop, history

-----------------------------------------------------------------------------
\* Only officers are put down as having told a shopper.
LEMMA ToldTyped ==
  ASSUME TypeOK, [Next]_vars
  PROVE  ToldRows'
<1>0. ToldRows
  BY DEF TypeOK, ToldRows
<1>1. ASSUME told' = told PROVE ToldRows'
  BY <1>0, <1>1 DEF ToldRows
<1>2. ASSUME NEW v \in Visitors, Shopper(v) PROVE ToldRows'
  <2>1. \A i \in Items : Add(v, i) => told' = told
    BY DEF Add, history
  <2>2. \A i \in Items, p \in Principals \cup {None} : Remove(v, p, i) => told' = told
    BY DEF Remove
  <2>3. \A i \in Items, p \in Principals \cup {None} : Arm(v, p, i) => ToldRows'
    BY <1>0 DEF Arm, ToldRows
  <2>4. \A p \in Principals : Reconcile(v, p) => told' = told
    BY DEF Reconcile, history
  <2>5. QED
    BY <1>1, <1>2, <2>1, <2>2, <2>3, <2>4 DEF Shopper
<1>3. ASSUME NEW o \in Officers, Officer(o) PROVE ToldRows'
  <2>1. \A i \in Items : StockCheck(o, i) => told' = told
    BY DEF StockCheck, history
  <2>2. ReadRows(o) \/ ClearArm(o) \/ Done(o) => told' = told
    BY DEF ReadRows, ClearArm, Done, history
  <2>3. Send(o) => ToldRows'
    BY <1>0 DEF Send, Accepted, Refused, history, ToldRows
  <2>4. Drop(o) => ToldRows'
    BY <1>0 DEF Drop, ToldRows
  <2>5. QED
    BY <1>1, <1>3, <2>1, <2>2, <2>3, <2>4 DEF Officer
<1>4. CASE (\E i \in Items : StockMoves(i)) \/ UNCHANGED vars
  BY <1>1, <1>4 DEF StockMoves, vars, history
<1>5. QED
  BY <1>2, <1>3, <1>4 DEF Next

LEMMA StepKeeps ==
  ASSUME WishInv, WishAssumption, [Next]_vars
  PROVE  WishInv'
<1>0. ToldRows'
  BY ToldTyped DEF WishInv
<1>1. CASE (\E i \in Items : StockMoves(i)) \/ UNCHANGED vars
  BY <1>1 DEF StockMoves, vars, history, WishInv, TypeOK, Sound, InHand, Live
<1>2. QED
  BY <1>0, <1>1, ShopperKeeps, OfficerKeeps DEF Next

\* What every send has in hand is wanted still, or was overtaken.
THEOREM WishInvariance == Spec => []WishInv
<1>1. Init => WishInv
  BY WishAssumption DEF WishAssumption, Init, WishInv, TypeOK, WishRow, NoWish, Sending, Idle, Sound, InHand,
     Live
<1>2. WishInv /\ [Next]_vars => WishInv'
  BY StepKeeps, WishAssumption
<1>3. QED
  BY <1>1, <1>2, PTL DEF Spec

\* Type correctness.
THEOREM TypesHold == Spec => []TypeOK
<1>1. WishInv => TypeOK
  BY DEF WishInv
<1>2. QED
  BY <1>1, WishInvariance, PTL

\* The arm a send is about to clear was answered, or another send overtook it.
THEOREM ArmsAreAnswered == Spec => []ArmAnswered
<1>1. WishInv => ArmAnswered
  BY DEF WishInv, Sound, ArmAnswered
<1>2. QED
  BY <1>1, WishInvariance, PTL

\* A wish still to be alerted is armed, removed, or overtaken.
THEOREM AlertsAreWanted == Spec => []StillWanted
<1>1. WishInv => StillWanted
  BY DEF WishInv, TypeOK, Sending, Sound, InHand, StillWanted
<1>2. QED
  BY <1>1, WishInvariance, PTL

-----------------------------------------------------------------------------
(* Who tells a shopper again. *)

\* A send that told a shopper has the wish on no list, and while the arm is
\* still set is about to clear it.
Told(o, w) ==
  o \in told[w] =>
    /\ w \notin officer[o].todo
    /\ Live(w) /\ wish[w].armed => officer[o].at = "clear" /\ officer[o].wish = w
ToldInv == \A o \in Officers, w \in Wishes : Told(o, w)

\* A shopper's verb that arms a wish anew forgets who told of its last arm.
LEMMA ShopperKeepsTold ==
  ASSUME WishInv, ToldInv, NEW v \in Visitors, Shopper(v)
  PROVE  ToldInv'
<1>1. ASSUME officer' = officer,
             \A w \in Wishes : /\ told'[w] = {} \/ told'[w] = told[w]
                               /\ Live(w)' /\ wish'[w].armed =>
                                    told'[w] = {} \/ (Live(w) /\ wish[w].armed)
      PROVE  ToldInv'
  BY <1>1 DEF ToldInv, Told
<1>2. ASSUME NEW i \in Items, Add(v, i) PROVE ToldInv'
  <2>1. \A w \in Wishes : wish'[w] = wish[w] \/ ~wish'[w].armed
    BY <1>2 DEF Add, NewWish, NoWish, WishInv, TypeOK
  <2>2. QED
    BY <1>1, <1>2, <2>1 DEF Add, history, Live
<1>3. ASSUME NEW i \in Items, NEW p \in Principals \cup {None}, Remove(v, p, i) PROVE ToldInv'
  <2>1. \A w \in Wishes : wish'[w] = wish[w] \/ wish'[w].state = "deleted"
    BY <1>3 DEF Remove, WishInv, TypeOK, WishRow
  <2>2. QED
    BY <1>1, <1>3, <2>1 DEF Remove, Live
<1>4. ASSUME NEW i \in Items, NEW p \in Principals \cup {None}, Arm(v, p, i) PROVE ToldInv'
  <2>1. ASSUME NEW w \in Wishes
        PROVE  /\ told'[w] = IF w \in Unarmed(v, i) THEN {} ELSE told[w]
               /\ w \notin Own(v, i) => wish'[w] = wish[w]
    BY <1>4 DEF Arm
  <2>2. QED
    BY <1>1, <1>4, <2>1 DEF Arm, Unarmed, Own, Live
<1>5. ASSUME NEW p \in Principals, Reconcile(v, p) PROVE ToldInv'
  <2>1. \A w \in Wishes : wish'[w].state = wish[w].state /\ wish'[w].armed = wish[w].armed
    BY <1>5 DEF Reconcile, WishInv, TypeOK, WishRow
  <2>2. QED
    BY <1>1, <1>5, <2>1 DEF Reconcile, history, Live
<1>6. QED
  BY <1>2, <1>3, <1>4, <1>5 DEF Shopper

\* A send takes up only what is armed, so nothing it told of before.
LEMMA OfficerKeepsTold ==
  ASSUME WishInv, ToldInv, NEW o \in Officers, Officer(o)
  PROVE  ToldInv'
<1>0. /\ officer \in [Officers -> Sending] /\ officer[o] \in Sending
      /\ told \in [Wishes -> SUBSET Officers] /\ Sound(o)
  BY DEF WishInv, TypeOK
\* Unless it clears, it has nothing in hand that is armed and told of.
<1>1. \A w \in Wishes : o \in told[w] /\ Live(w) /\ wish[w].armed =>
         officer[o].at = "clear" /\ officer[o].wish = w
  BY DEF ToldInv, Told
<1>2. \A q \in Officers \ {o}, w \in Wishes :
         officer'[q] = officer[q] /\ wish' = wish /\ (q \in told'[w] => q \in told[w]) => Told(q, w)'
  BY DEF ToldInv, Told, Live
<1>3. ASSUME officer[o].at # "clear", wish' = wish, told' = told,
             \A q \in Officers \ {o} : officer'[q] = officer[q],
             \A w \in Wishes : w \in officer'[o].todo =>
               w \in officer[o].todo \/ (Live(w) /\ wish[w].armed)
      PROVE  ToldInv'
  BY <1>1, <1>2, <1>3 DEF ToldInv, Told, Live
<1>4. Idle.todo = {} /\ Idle.at = "idle"
  BY DEF Idle
<1>5. ASSUME NEW i \in Items, StockCheck(o, i) PROVE ToldInv'
  BY <1>0, <1>3, <1>4, <1>5 DEF StockCheck, history, Idle
<1>6. CASE ReadRows(o)
  BY <1>0, <1>3, <1>6 DEF ReadRows, Waiting, history, Sending
<1>7. ASSUME NEW w \in officer[o].todo, officer[o].at = "send", Accepted(o, w), wish' = wish
      PROVE  ToldInv'
  <2>1. /\ officer'[o].at = "clear" /\ officer'[o].wish = w
        /\ officer'[o].todo = officer[o].todo \ {w}
        /\ \A q \in Officers \ {o} : officer'[q] = officer[q]
    BY <1>0, <1>7 DEF Accepted, Sending
  <2>2. \A x \in Wishes : told'[x] = IF x = w THEN told[x] \cup {o} ELSE told[x]
    BY <1>0, <1>7 DEF Accepted
  <2>3. ASSUME NEW q \in Officers, NEW x \in Wishes PROVE Told(q, x)'
    <3>1. CASE q # o
      <4>1. q \in told'[x] => q \in told[x]
        BY <2>2, <3>1
      <4>2. QED
        BY <1>2, <1>7, <2>1, <3>1, <4>1
    <3>2. CASE q = o
      BY <1>1, <1>7, <2>1, <2>2, <3>2 DEF ToldInv, Told, Live
    <3>3. QED
      BY <3>1, <3>2
  <2>4. QED
    BY <2>3 DEF ToldInv
<1>8. ASSUME NEW w \in officer[o].todo, officer[o].at = "send", Refused(o, w), wish' = wish
      PROVE  ToldInv'
  BY <1>0, <1>3, <1>8 DEF Refused, history, Sending
<1>9. CASE ClearArm(o)
  <2>1. officer[o].wish \in Wishes /\ officer[o].at = "clear" /\ told' = told
    BY <1>0, <1>9 DEF ClearArm, Sound
  <2>2. \A q \in Officers : /\ officer'[q].todo = officer[q].todo
                            /\ q # o => officer'[q].at = officer[q].at /\ officer'[q].wish = officer[q].wish
    BY <1>0, <1>9 DEF ClearArm, Sending
  <2>3. ASSUME NEW x \in Wishes
        PROVE  IF x = officer[o].wish THEN ~wish'[x].armed ELSE wish'[x] = wish[x]
    <3>1. wish[x] \in WishRow
      BY DEF WishInv, TypeOK
    <3>2. wish'[x] = IF x = officer[o].wish THEN [wish[x] EXCEPT !.armed = FALSE] ELSE wish[x]
      BY <1>9 DEF ClearArm, Cleared
    <3>3. ~[wish[x] EXCEPT !.armed = FALSE].armed
      BY <3>1 DEF WishRow
    <3>4. QED
      BY <3>2, <3>3, Zenon
  <2>4. ASSUME NEW q \in Officers, NEW x \in Wishes PROVE Told(q, x)'
    <3>1. wish'[x].armed => x # officer[o].wish /\ wish'[x] = wish[x]
      BY <2>3
    <3>2. CASE q # o
      BY <2>1, <2>2, <3>1, <3>2 DEF ToldInv, Told, Live
    <3>3. CASE q = o
      BY <1>1, <2>1, <2>2, <3>1, <3>3 DEF ToldInv, Told, Live
    <3>4. QED
      BY <3>2, <3>3
  <2>5. QED
    BY <2>4 DEF ToldInv
<1>10. CASE Done(o)
  BY <1>0, <1>3, <1>4, <1>10 DEF Done, history
<1>11. CASE Drop(o)
  <2>1. /\ officer'[o] = Idle /\ wish' = wish /\ \A q \in Officers \ {o} : officer'[q] = officer[q]
    BY <1>0, <1>11 DEF Drop
  <2>2. CASE officer[o].at # "clear"
    BY <1>3, <1>4, <1>11, <2>1, <2>2 DEF Drop
  <2>3. CASE officer[o].at = "clear"
    <3>1. /\ officer[o].wish \in Wishes
          /\ \A x \in Wishes : told'[x] = IF x = officer[o].wish THEN told[x] \ {o} ELSE told[x]
      BY <1>0, <1>11, <2>3 DEF Drop, Sound
    <3>2. ASSUME NEW q \in Officers, NEW x \in Wishes PROVE Told(q, x)'
      <4>1. CASE q # o
        BY <1>2, <2>1, <3>1, <4>1
      <4>2. CASE q = o
        BY <1>1, <1>4, <2>1, <3>1, <4>2 DEF Told, Live
      <4>3. QED
        BY <4>1, <4>2
    <3>3. QED
      BY <3>2 DEF ToldInv
  <2>4. QED
    BY <2>2, <2>3
<1>12. QED
  BY <1>5, <1>6, <1>7, <1>8, <1>9, <1>10, <1>11 DEF Officer, Send

LEMMA ToldKeeps ==
  ASSUME WishInv, ToldInv, [Next]_vars
  PROVE  ToldInv'
<1>1. CASE (\E i \in Items : StockMoves(i)) \/ UNCHANGED vars
  BY <1>1 DEF StockMoves, vars, history, ToldInv, Told, Live
<1>2. QED
  BY <1>1, ShopperKeepsTold, OfficerKeepsTold DEF Next

\* Only sends that overlap tell a shopper twice of one arm.
THEOREM ShoppersAreToldOnce == Spec => []ToldOnce
<1>1. Init => ToldInv
  BY DEF Init, ToldInv, Told
<1>2. WishInv /\ ToldInv /\ [Next]_vars => ToldInv'
  BY ToldKeeps
<1>3. ToldInv => ToldOnce
  BY DEF ToldInv, Told, ToldOnce, Pending
<1>4. QED
  BY <1>1, <1>2, <1>3, WishInvariance, PTL DEF Spec
=============================================================================
