---------------------------- MODULE ThrottleProofs ----------------------------
(***************************************************************************)
(* Proofs about Throttle, for every value of its constants.  The windows   *)
(* of a key start further and further on, a Window apart at least, however *)
(* the clock is set and whoever waits for the mutex.  So of the windows    *)
(* that reach into a span of Window seconds two start before its end; a    *)
(* later one takes hits of the span only from calls that read the clock    *)
(* before it started, or after it was set back.                            *)
(***************************************************************************)
EXTENDS Throttle, FiniteSetTheorems, TLAPS

-----------------------------------------------------------------------------
(* The invariant. *)

\* A call of allow has read the clock and waits for the mutex.
Waiting(t) == task[t].at \in {"id", "ip"}

\* What a handler carries fits its step; only a clock that was set back is
\* behind the time a call has read.
Fits(t) ==
  /\ task[t].at # "idle" => task[t].id \in Identities /\ task[t].ip \in Addresses
  /\ Waiting(t) => task[t].clock \in Times /\ (back = 0 => task[t].clock <= now)

Carried == TypeOK /\ \A t \in Tasks : Fits(t)

\* The calls that wait with a time in the span from u on, and with a later one.
Inside(u) == {t \in Tasks : Waiting(t) /\ task[t].clock \in Span(u)}
Beyond(u) == {t \in Tasks : Waiting(t) /\ task[t].clock >= u + Window}

\* What n calls can still take of a span in windows of their own.
Share(n) == n * (Budget - 1)
PerSetBack == Handlers * Budget
Ceiling(b) == 2 * Budget + Handlers - 2 + b * PerSetBack

\* The bound of the h hits a key was allowed in the span from u on, by its
\* window e, the clock n, the f calls that wait with a time in the span, the p
\* with a later one, and the b times the clock was set back.
Before(u, e, h) ==
  /\ e.start = None => h = 0
  /\ e.start # None =>
       /\ e.count >= 1
       /\ e.start + Window <= u => h = 0
       /\ e.start < u => h < e.count
       /\ e.start < u + Window => h < Budget + e.count

After(u, e, h, n, f, p, b) ==
  e.start # None /\ e.start >= u + Window =>
    /\ n >= u + Window => h + f <= Ceiling(b)
    /\ n < u + Window /\ p = Handlers => h + PerSetBack <= Ceiling(b)
    /\ n < u + Window /\ p < Handlers =>
         h + (Budget - e.count) + Share(p) + Handlers <= Ceiling(b)

Bounded(k, u) ==
  /\ Before(u, inner[k], allowed[k][u])
  /\ After(u, inner[k], allowed[k][u], now, Cardinality(Inside(u)), Cardinality(Beyond(u)), back)

ThrottleInv == Carried /\ \A k \in Keys, u \in Times : Bounded(k, u)

-----------------------------------------------------------------------------
(* What the handlers carry. *)

LEMMA InitCarried ==
  ASSUME ThrottleAssumption, Init
  PROVE  Carried
<1>1. 0 \in Times /\ 0 \in 0..Budget /\ 0 \in 0..MaxBack
  BY DEF ThrottleAssumption, Times
<1>2. NoEntry \in Entry /\ Idle \in Request
  BY <1>1 DEF NoEntry, Entry, Idle, Request
<1>3. TypeOK
  BY <1>1, <1>2 DEF Init, TypeOK, Account
<1>4. QED
  BY <1>3 DEF Init, Carried, Fits, Waiting, Idle

\* The window a charge finds is one of the map's, or a new one.
LEMMA OpenedType ==
  ASSUME ThrottleAssumption, TypeOK, NEW k \in Keys, NEW c \in Times
  PROVE  Opened(k, c) \in Entry /\ Opened(k, c).start # None
<1>1. inner[k] \in Entry /\ 0 \in 0..Budget /\ c # None
  BY DEF TypeOK, ThrottleAssumption
<1>2. QED
  BY <1>1 DEF Opened, Entry

\* A new window has room, so a refusal finds the map as it was.
LEMMA RefusalWritesNothing ==
  ASSUME ThrottleAssumption, TypeOK, NEW k \in Keys, NEW c \in Times, Refuse(k, c)
  PROVE  Opened(k, c) = inner[k] /\ UNCHANGED <<inner, allowed>>
<1>1. Opened(k, c) = inner[k]
  BY DEF Refuse, HasRoom, Opened, ThrottleAssumption
<1>2. inner' = inner
  BY <1>1 DEF Refuse, TypeOK
<1>3. QED
  BY <1>1, <1>2 DEF Refuse

\* A charge keeps the map and its history in shape.
LEMMA ChargeType ==
  ASSUME ThrottleAssumption, TypeOK, NEW k \in Keys, NEW c \in Times, Hit(k, c) \/ Refuse(k, c)
  PROVE  inner' \in [Keys -> Entry] /\ allowed' \in [Keys -> [Times -> Nat]]
<1>1. CASE Hit(k, c)
  <2>. DEFINE e == Opened(k, c)
  <2>1. e \in Entry /\ e.count < Budget
    BY <1>1, OpenedType DEF Hit, HasRoom
  <2>2. [e EXCEPT !.count = e.count + 1] \in Entry
    BY <2>1 DEF Entry, ThrottleAssumption
  <2>3. inner' = [inner EXCEPT ![k] = [e EXCEPT !.count = e.count + 1]]
    BY <1>1 DEF Hit
  <2>4. inner' \in [Keys -> Entry]
    BY <2>2, <2>3 DEF TypeOK
  <2>5. [u \in Times |-> IF c \in Span(u) THEN allowed[k][u] + 1 ELSE allowed[k][u]] \in [Times -> Nat]
    BY DEF TypeOK
  <2>6. allowed' \in [Keys -> [Times -> Nat]]
    BY <1>1, <2>5 DEF Hit, TypeOK
  <2>7. QED
    BY <2>4, <2>6
<1>2. CASE Refuse(k, c)
  BY <1>2, RefusalWritesNothing DEF TypeOK
<1>3. QED
  BY <1>1, <1>2

\* A step of one handler that leaves the clock alone keeps what the others carry.
LEMMA HandlerCarries ==
  ASSUME ThrottleAssumption, Carried, NEW t \in Tasks, NEW new \in Request,
         task' = [task EXCEPT ![t] = new],
         inner' \in [Keys -> Entry], allowed' \in [Keys -> [Times -> Nat]],
         ledger' \in [Identities -> Account], UNCHANGED <<now, back>>,
         new.at # "idle" => new.id \in Identities /\ new.ip \in Addresses,
         new.at \in {"id", "ip"} => new.clock = now
  PROVE  Carried'
<1>1. TypeOK'
  BY DEF Carried, TypeOK
<1>2. now \in Times
  BY DEF Carried, TypeOK
<1>3. ASSUME NEW v \in Tasks PROVE Fits(v)'
  <2>1. CASE v = t
    <3>1. task'[v] = new
      BY <2>1 DEF Carried, TypeOK
    <3>2. QED
      BY <1>2, <3>1 DEF Fits, Waiting, Times, ThrottleAssumption
  <2>2. CASE v # t
    <3>1. task'[v] = task[v]
      BY <2>2 DEF Carried, TypeOK
    <3>2. QED
      BY <3>1 DEF Carried, Fits, Waiting
  <2>3. QED
    BY <2>1, <2>2
<1>4. QED
  BY <1>1, <1>3 DEF Carried

LEMMA IdleRequest ==
  ASSUME ThrottleAssumption
  PROVE  Idle \in Request /\ Idle.at = "idle"
BY DEF Idle, Request

LEMMA ArriveCarries ==
  ASSUME ThrottleAssumption, Carried, NEW t \in Tasks, NEW i \in Identities, NEW a \in Addresses,
         Arrive(t, i, a)
  PROVE  Carried'
<1>. DEFINE new == [at |-> "id", clock |-> now, id |-> i, ip |-> a]
<1>1. new \in Request
  BY DEF Carried, TypeOK, Request
<1>2. task' = [task EXCEPT ![t] = new] /\ UNCHANGED <<now, inner, allowed, ledger, back>>
  BY DEF Arrive
<1>3. QED
  BY <1>1, <1>2, HandlerCarries DEF Carried, TypeOK

LEMMA ReadClockCarries ==
  ASSUME ThrottleAssumption, Carried, NEW t \in Tasks, ReadClock(t)
  PROVE  Carried'
<1>. DEFINE new == [task[t] EXCEPT !.at = "ip", !.clock = now]
<1>1. task[t] \in Request /\ now \in Times /\ Fits(t) /\ task[t].at = "read"
  BY DEF Carried, TypeOK, ReadClock
<1>2. new \in Request /\ new.at = "ip" /\ new.clock = now /\ new.id = task[t].id /\ new.ip = task[t].ip
  BY <1>1 DEF Request
<1>3. task' = [task EXCEPT ![t] = new] /\ UNCHANGED <<now, inner, allowed, ledger, back>>
  BY DEF ReadClock
<1>. HIDE DEF new
<1>4. QED
  BY <1>1, <1>2, <1>3, HandlerCarries DEF Carried, TypeOK, Fits

LEMMA ChargeIdentityCarries ==
  ASSUME ThrottleAssumption, Carried, NEW t \in Tasks, ChargeIdentity(t)
  PROVE  Carried'
<1>. DEFINE i == task[t].id
            c == task[t].clock
<1>1. /\ task[t] \in Request /\ task[t].at = "id" /\ UNCHANGED <<now, back>>
      /\ i \in Identities /\ i \in Keys /\ c \in Times /\ task[t].ip \in Addresses
  BY DEF Carried, TypeOK, ChargeIdentity, Fits, Waiting, Keys
<1>2. inner' \in [Keys -> Entry] /\ allowed' \in [Keys -> [Times -> Nat]]
  BY <1>1, ChargeType DEF Carried, ChargeIdentity
<1>3. CASE Refuse(i, c) /\ TurnedAway(t) /\ UNCHANGED ledger
  BY <1>1, <1>2, <1>3, IdleRequest, HandlerCarries DEF TurnedAway, Carried, TypeOK
<1>4. CASE /\ ledger' = [ledger EXCEPT ![i].paid = @ + 1]
           /\ task' = [task EXCEPT ![t].at = "read"]
  <2>. DEFINE new == [task[t] EXCEPT !.at = "read"]
  <2>1. new \in Request /\ new.at = "read" /\ new.id = i /\ new.ip = task[t].ip
    BY <1>1 DEF Request
  <2>2. task' = [task EXCEPT ![t] = new]
    BY <1>4
  <2>3. ledger' \in [Identities -> Account]
    BY <1>1, <1>4 DEF Carried, TypeOK, Account
  <2>. HIDE DEF new
  <2>4. QED
    BY <1>1, <1>2, <2>1, <2>2, <2>3, HandlerCarries
<1>5. QED
  BY <1>3, <1>4 DEF ChargeIdentity

LEMMA ChargeAddressCarries ==
  ASSUME ThrottleAssumption, Carried, NEW t \in Tasks, ChargeAddress(t)
  PROVE  Carried'
<1>. DEFINE i == task[t].id
            a == task[t].ip
<1>1. /\ UNCHANGED <<now, back>> /\ task' = [task EXCEPT ![t] = Idle]
      /\ i \in Identities /\ a \in Keys /\ task[t].clock \in Times
  BY DEF Carried, TypeOK, ChargeAddress, Fits, Waiting, Keys
<1>2. inner' \in [Keys -> Entry] /\ allowed' \in [Keys -> [Times -> Nat]]
  BY <1>1, ChargeType DEF Carried, ChargeAddress
<1>3. \/ ledger' = [ledger EXCEPT ![i].served = @ + 1]
      \/ ledger' = [ledger EXCEPT ![i].lost = @ + 1]
  BY DEF ChargeAddress
<1>4. ledger' \in [Identities -> Account]
  <2>1. ledger \in [Identities -> Account] /\ ledger[i] \in Account
    BY <1>1 DEF Carried, TypeOK
  <2>2. /\ [ledger[i] EXCEPT !.served = ledger[i].served + 1] \in Account
        /\ [ledger[i] EXCEPT !.lost = ledger[i].lost + 1] \in Account
    BY <2>1 DEF Account
  <2>3. \/ ledger' = [ledger EXCEPT ![i] = [ledger[i] EXCEPT !.served = ledger[i].served + 1]]
        \/ ledger' = [ledger EXCEPT ![i] = [ledger[i] EXCEPT !.lost = ledger[i].lost + 1]]
    BY <1>3
  <2>4. QED
    BY <1>1, <2>1, <2>2, <2>3
<1>5. QED
  BY <1>1, <1>2, <1>4, IdleRequest, HandlerCarries

\* The clock runs on, or is set back and counted.
LEMMA ClockCarries ==
  ASSUME ThrottleAssumption, Carried, Tick \/ \E u \in Times : SetBack(u)
  PROVE  Carried'
<1>1. /\ UNCHANGED <<inner, task, allowed, ledger>> /\ now' \in Times /\ back' \in 0..MaxBack
      /\ back' = 0 => back = 0 /\ now <= now'
  BY DEF Tick, SetBack, Carried, TypeOK, Times, ThrottleAssumption
<1>2. TypeOK'
  BY <1>1 DEF Carried, TypeOK
<1>3. ASSUME NEW t \in Tasks PROVE Fits(t)'
  <2>1. Fits(t) /\ now \in Nat /\ now' \in Nat /\ Times \subseteq Nat
    BY <1>1 DEF Carried, TypeOK, Times
  <2>2. ASSUME Waiting(t)' PROVE task'[t].clock \in Times /\ (back' = 0 => task'[t].clock <= now')
    <3>1. Waiting(t) /\ task' = task
      BY <1>1, <2>2 DEF Waiting
    <3>2. task[t].clock \in Times /\ (back = 0 => task[t].clock <= now)
      BY <2>1, <3>1 DEF Fits
    <3>3. task[t].clock \in Nat
      BY <2>1, <3>2
    <3>4. QED
      BY <1>1, <2>1, <3>1, <3>2, <3>3
  <2>3. QED
    BY <1>1, <2>1, <2>2 DEF Fits
<1>4. QED
  BY <1>2, <1>3 DEF Carried

LEMMA NextCarries ==
  ASSUME ThrottleAssumption, Carried, [Next]_vars
  PROVE  Carried'
<1>1. CASE Next
  BY <1>1, ArriveCarries, ReadClockCarries, ChargeIdentityCarries, ChargeAddressCarries,
     ClockCarries DEF Next
<1>2. CASE UNCHANGED vars
  BY <1>2 DEF vars, Carried, TypeOK, Fits, Waiting
<1>3. QED
  BY <1>1, <1>2

THEOREM CarriedInvariance == Spec => []Carried
<1>1. Init => Carried
  BY ThrottleAssumption, InitCarried
<1>2. Carried /\ [Next]_vars => Carried'
  BY ThrottleAssumption, NextCarries
<1>3. QED
  BY <1>1, <1>2, PTL DEF Spec

\* Every variable always is what its declaration says.
THEOREM TypesHold == Spec => []TypeOK
BY CarriedInvariance, PTL DEF Carried

-----------------------------------------------------------------------------
(* The ledger. *)

LEMMA UnderWayFinite ==
  ASSUME ThrottleAssumption, NEW i \in Identities
  PROVE  IsFiniteSet(UnderWay(i)) /\ Cardinality(UnderWay(i)) \in Nat
<1>1. UnderWay(i) \subseteq Tasks
  BY DEF UnderWay
<1>2. QED
  BY <1>1, FS_Subset, FS_CardinalityType DEF ThrottleAssumption

\* A handler's step changes only its own part in what is under way.
LEMMA OthersUnderWay ==
  ASSUME Carried, NEW t \in Tasks, NEW new, task' = [task EXCEPT ![t] = new], NEW i \in Identities
  PROVE  UnderWay(i)' = IF new.at \in {"read", "ip"} /\ new.id = i THEN UnderWay(i) \cup {t}
                        ELSE UnderWay(i) \ {t}
BY DEF Carried, TypeOK, UnderWay

\* A step that neither pays nor answers.
LEMMA LedgerStands ==
  ASSUME Carried, EveryHitAccountedFor, NEW t \in Tasks, NEW new,
         task' = [task EXCEPT ![t] = new], UNCHANGED ledger,
         new.at \in {"read", "ip"} <=> task[t].at \in {"read", "ip"},
         new.at \in {"read", "ip"} => new.id = task[t].id
  PROVE  EveryHitAccountedFor'
<1>1. ASSUME NEW i \in Identities PROVE UnderWay(i)' = UnderWay(i)
  BY OthersUnderWay DEF UnderWay
<1>2. QED
  BY <1>1 DEF EveryHitAccountedFor

LEMMA PaysAccounted ==
  ASSUME ThrottleAssumption, Carried, EveryHitAccountedFor, NEW t \in Tasks, ChargeIdentity(t)
  PROVE  EveryHitAccountedFor'
<1>. DEFINE i == task[t].id
<1>1. task[t].at = "id" /\ i \in Identities /\ Idle.at = "idle"
  BY DEF ChargeIdentity, Carried, Fits, Idle
<1>2. CASE TurnedAway(t) /\ UNCHANGED ledger
  BY <1>1, <1>2, LedgerStands DEF TurnedAway
<1>3. CASE /\ ledger' = [ledger EXCEPT ![i].paid = @ + 1]
           /\ task' = [task EXCEPT ![t].at = "read"]
  <2>. DEFINE new == [task[t] EXCEPT !.at = "read"]
  <2>1. new.at = "read" /\ new.id = i
    BY DEF Carried, TypeOK, Request
  <2>2. task' = [task EXCEPT ![t] = new]
    BY <1>3
  <2>. HIDE DEF new
  <2>3. SUFFICES ASSUME NEW j \in Identities
                 PROVE  ledger'[j].paid = ledger'[j].served + ledger'[j].lost
                                            + Cardinality(UnderWay(j)')
    BY DEF EveryHitAccountedFor
  <2>4. t \notin UnderWay(j)
    BY <1>1 DEF UnderWay
  <2>5. UnderWay(j)' = IF j = i THEN UnderWay(j) \cup {t} ELSE UnderWay(j)
    <3>1. UnderWay(j)' = IF new.at \in {"read", "ip"} /\ new.id = j THEN UnderWay(j) \cup {t}
                         ELSE UnderWay(j) \ {t}
      BY <2>2, OthersUnderWay
    <3>2. QED
      BY <2>1, <2>4, <3>1
  <2>6. Cardinality(UnderWay(j)') = IF j = i THEN Cardinality(UnderWay(j)) + 1
                                    ELSE Cardinality(UnderWay(j))
    BY <2>4, <2>5, UnderWayFinite, FS_AddElement
  <2>7. /\ ledger[j] \in Account /\ ledger'[j].served = ledger[j].served
        /\ ledger'[j].lost = ledger[j].lost
        /\ ledger'[j].paid = IF j = i THEN ledger[j].paid + 1 ELSE ledger[j].paid
    BY <1>3 DEF Carried, TypeOK, Account
  <2>8. QED
    BY <2>6, <2>7, UnderWayFinite DEF EveryHitAccountedFor, Account
<1>4. QED
  BY <1>2, <1>3 DEF ChargeIdentity

LEMMA AnswerAccounted ==
  ASSUME ThrottleAssumption, Carried, EveryHitAccountedFor, NEW t \in Tasks, ChargeAddress(t)
  PROVE  EveryHitAccountedFor'
<1>. DEFINE i == task[t].id
<1>1. task[t].at = "ip" /\ i \in Identities /\ Idle.at = "idle" /\ task' = [task EXCEPT ![t] = Idle]
  BY DEF ChargeAddress, Carried, Fits, Idle
<1>2. SUFFICES ASSUME NEW j \in Identities
               PROVE  ledger'[j].paid = ledger'[j].served + ledger'[j].lost
                                          + Cardinality(UnderWay(j)')
  BY DEF EveryHitAccountedFor
<1>3. t \in UnderWay(j) <=> j = i
  BY <1>1 DEF UnderWay
<1>4. UnderWay(j)' = UnderWay(j) \ {t}
  BY <1>1, OthersUnderWay
<1>5. Cardinality(UnderWay(j)') = IF j = i THEN Cardinality(UnderWay(j)) - 1
                                  ELSE Cardinality(UnderWay(j))
  <2>1. IsFiniteSet(UnderWay(j))
    BY UnderWayFinite
  <2>2. Cardinality(UnderWay(j) \ {t}) = IF t \in UnderWay(j) THEN Cardinality(UnderWay(j)) - 1
                                         ELSE Cardinality(UnderWay(j))
    BY <2>1, FS_RemoveElement
  <2>. HIDE DEF i
  <2>3. QED
    BY <1>3, <1>4, <2>2
<1>6. \/ ledger' = [ledger EXCEPT ![i].served = @ + 1]
      \/ ledger' = [ledger EXCEPT ![i].lost = @ + 1]
  BY DEF ChargeAddress
<1>7. /\ ledger[j].paid \in Nat /\ ledger[j].served \in Nat /\ ledger[j].lost \in Nat
      /\ ledger \in [Identities -> Account]
  BY DEF Carried, TypeOK, Account
<1>8. /\ ledger'[j].paid = ledger[j].paid
      /\ \/ j # i /\ ledger'[j] = ledger[j]
         \/ j = i /\ ledger'[j].served = ledger[j].served + 1 /\ ledger'[j].lost = ledger[j].lost
         \/ j = i /\ ledger'[j].served = ledger[j].served /\ ledger'[j].lost = ledger[j].lost + 1
  BY <1>1, <1>6, <1>7 DEF Account
<1>9. Cardinality(UnderWay(j)) \in Nat
      /\ ledger[j].paid = ledger[j].served + ledger[j].lost + Cardinality(UnderWay(j))
  BY UnderWayFinite DEF EveryHitAccountedFor
<1>10. QED
  BY <1>5, <1>7, <1>8, <1>9

\* Nobody gets past an address without having paid as an identity, and every
\* hit an identity paid was served, refused by an address, or is under way.
THEOREM HitsAreAccounted == Spec => []EveryHitAccountedFor
<1>1. Init => EveryHitAccountedFor
  <2>. SUFFICES ASSUME Init, NEW i \in Identities
                PROVE  ledger[i].paid = ledger[i].served + ledger[i].lost
                                          + Cardinality(UnderWay(i))
    BY DEF EveryHitAccountedFor
  <2>1. UnderWay(i) = {}
    BY DEF Init, Idle, UnderWay
  <2>2. Cardinality(UnderWay(i)) = 0
    BY <2>1, FS_EmptySet
  <2>3. ledger[i] = [paid |-> 0, served |-> 0, lost |-> 0]
    BY DEF Init
  <2>4. QED
    BY <2>2, <2>3
<1>2. ASSUME Carried, EveryHitAccountedFor, [Next]_vars PROVE EveryHitAccountedFor'
  <2>1. ASSUME NEW t \in Tasks, NEW i \in Identities, NEW a \in Addresses, Arrive(t, i, a)
        PROVE  EveryHitAccountedFor'
    BY <1>2, <2>1, LedgerStands DEF Arrive
  <2>2. ASSUME NEW t \in Tasks, ReadClock(t) PROVE EveryHitAccountedFor'
    <3>. DEFINE new == [task[t] EXCEPT !.at = "ip", !.clock = now]
    <3>1. new.at = "ip" /\ new.id = task[t].id /\ task[t].at = "read"
      BY <1>2, <2>2 DEF ReadClock, Carried, TypeOK, Request
    <3>2. task' = [task EXCEPT ![t] = new] /\ UNCHANGED ledger
      BY <2>2 DEF ReadClock
    <3>. HIDE DEF new
    <3>3. QED
      BY <1>2, <3>1, <3>2, LedgerStands
  <2>3. CASE UNCHANGED <<task, ledger>>
    BY <1>2, <2>3 DEF EveryHitAccountedFor, UnderWay
  <2>4. QED
    BY <1>2, <2>1, <2>2, <2>3, ThrottleAssumption, PaysAccounted, AnswerAccounted
    DEF Next, Tick, SetBack, vars
<1>3. QED
  BY <1>1, <1>2, CarriedInvariance, PTL DEF Spec

-----------------------------------------------------------------------------
(* The numbers of the bound. *)

LEMMA Handful ==
  ASSUME ThrottleAssumption
  PROVE  Handlers \in Nat /\ Handlers >= 1
<1>1. Handlers \in Nat /\ (Handlers = 0 => Tasks = {})
  BY FS_CardinalityType, FS_EmptySet DEF Handlers, ThrottleAssumption
<1>2. QED
  BY <1>1 DEF ThrottleAssumption

LEMMA Shares ==
  ASSUME ThrottleAssumption, NEW n \in Nat
  PROVE  /\ Share(n) \in Nat
         /\ n >= 1 => Share(n - 1) + (Budget - 1) = Share(n)
         /\ \A m \in Nat : m <= n => Share(m) <= Share(n)
<1>1. Budget - 1 \in Nat
  BY DEF ThrottleAssumption
<1>. DEFINE r == Budget - 1
<1>. HIDE DEF r
<1>2. n * r \in Nat
  BY <1>1 DEF r
<1>3. n >= 1 => (n - 1) * r + r = n * r
  BY <1>1 DEF r
<1>4. ASSUME NEW m \in Nat, m <= n PROVE m * r <= n * r
  <2>1. n - m \in Nat /\ n = m + (n - m)
    BY <1>4
  <2>2. (n - m) * r \in Nat
    BY <1>1, <2>1 DEF r
  <2>3. n * r = m * r + (n - m) * r
    BY <1>1, <2>1 DEF r
  <2>4. m * r \in Nat /\ n * r \in Nat
    BY <1>1 DEF r
  <2>5. QED
    BY <2>2, <2>3, <2>4
<1>5. QED
  BY <1>2, <1>3, <1>4 DEF Share, r

LEMMA Ceilings ==
  ASSUME ThrottleAssumption, NEW b \in Nat
  PROVE  /\ PerSetBack \in Nat /\ PerSetBack = Share(Handlers) + Handlers
         /\ Ceiling(b) \in Int
         /\ Ceiling(b + 1) = Ceiling(b) + PerSetBack
         /\ Ceiling(b) >= 2 * Budget + Handlers - 2
         /\ b >= 1 => Ceiling(b) >= 2 * Budget + Handlers - 2 + PerSetBack
<1>1. Handlers \in Nat /\ Budget \in Nat
  BY Handful DEF ThrottleAssumption
<1>2. PerSetBack \in Nat /\ PerSetBack = Share(Handlers) + Handlers
  BY <1>1 DEF PerSetBack, Share
<1>. DEFINE q == PerSetBack
<1>. HIDE DEF q
<1>3. b * q \in Nat /\ (b + 1) * q = b * q + q
  BY <1>2 DEF q
<1>4. b >= 1 => b * q >= q
  <2>1. SUFFICES ASSUME b >= 1 PROVE b * q >= q
    OBVIOUS
  <2>2. (b - 1) * q \in Nat /\ b * q = (b - 1) * q + q
    BY <1>2, <2>1 DEF q
  <2>3. QED
    BY <1>2, <2>2 DEF q
<1>5. QED
  BY <1>1, <1>2, <1>3, <1>4 DEF Ceiling, q

\* Before any window starts behind the span, its key has less than two budgets.
LEMMA BeforeLeaves ==
  ASSUME ThrottleAssumption, NEW u \in Times, NEW e \in Entry, NEW h \in Nat, Before(u, e, h),
         e.start # None => e.start < u + Window
  PROVE  h <= 2 * Budget - 1
BY DEF Before, Entry, ThrottleAssumption, Times

\* A call that is over, for another key or refused, leaves no less room.
LEMMA LeavingBounded ==
  ASSUME ThrottleAssumption, NEW u \in Times, NEW e \in Entry, NEW h \in Nat, NEW n \in Times,
         NEW f \in Nat, NEW p \in Nat, NEW f2 \in Nat, NEW p2 \in Nat, NEW b \in Nat,
         f2 <= f, p2 <= p, p <= Handlers,
         Before(u, e, h), After(u, e, h, n, f, p, b)
  PROVE  After(u, e, h, n, f2, p2, b)
<1>1. SUFFICES ASSUME e.start # None, e.start >= u + Window
               PROVE  After(u, e, h, n, f2, p2, b)
  BY DEF After
<1>2. /\ Handlers \in Nat /\ Ceiling(b) \in Int /\ PerSetBack = Share(Handlers) + Handlers
      /\ Share(p) \in Nat /\ Share(p2) \in Nat /\ Share(p2) <= Share(p)
      /\ Share(Handlers) \in Nat
  BY Handful, Shares, Ceilings
<1>3. p2 < Handlers => Share(p2) + (Budget - 1) <= Share(Handlers)
  <2>1. SUFFICES ASSUME p2 < Handlers PROVE Share(p2) + (Budget - 1) <= Share(Handlers)
    OBVIOUS
  <2>2. /\ Share(Handlers - 1) + (Budget - 1) = Share(Handlers)
        /\ Handlers - 1 \in Nat /\ p2 <= Handlers - 1
    BY <1>2, <2>1, Shares
  <2>3. Share(p2) <= Share(Handlers - 1) /\ Share(Handlers - 1) \in Nat
    BY <2>2, Shares
  <2>4. QED
    BY <1>2, <2>2, <2>3 DEF ThrottleAssumption
<1>4. e.count \in Nat /\ e.count >= 1 /\ Budget \in Nat /\ n \in Nat /\ u \in Nat
  BY <1>1 DEF Before, Entry, ThrottleAssumption, Times
<1>5. CASE n >= u + Window
  BY <1>1, <1>2, <1>4, <1>5 DEF After, ThrottleAssumption
<1>6. CASE n < u + Window
  BY <1>1, <1>2, <1>3, <1>4, <1>6 DEF After, ThrottleAssumption
<1>7. QED
  BY <1>4, <1>5, <1>6 DEF ThrottleAssumption

\* The numbers of a hit by the time c its call read: the key's window is next
\* new, and h2, f2 and p2 follow h, f and p.
HitNumbers(c, u, e, h, n, f, p, b, new, h2, f2, p2) ==
  /\ c \in Times /\ u \in Times /\ n \in Times /\ e \in Entry /\ new \in Entry
  /\ h \in Nat /\ f \in Nat /\ p \in Nat /\ b \in Nat /\ f + p <= Handlers
  /\ b = 0 => c <= n
  /\ c \in Span(u) => f >= 1
  /\ c >= u + Window => p >= 1
  /\ p = Handlers => c >= u + Window
  /\ Before(u, e, h) /\ After(u, e, h, n, f, p, b)
  /\ h2 = IF c \in Span(u) THEN h + 1 ELSE h
  /\ f2 = IF c \in Span(u) THEN f - 1 ELSE f
  /\ p2 = IF c >= u + Window THEN p - 1 ELSE p

\* A hit that opens a window.
LEMMA OpeningBounded ==
  ASSUME ThrottleAssumption, NEW c, NEW u, NEW e, NEW h, NEW n, NEW f, NEW p, NEW b,
         NEW new, NEW h2, NEW f2, NEW p2, HitNumbers(c, u, e, h, n, f, p, b, new, h2, f2, p2),
         e.start = None \/ Elapsed(e.start, c), new.start = c, new.count = 1
  PROVE  Before(u, new, h2) /\ After(u, new, h2, n, f2, p2, b)
<1>0. /\ u \in Times /\ e \in Entry /\ new \in Entry /\ n \in Times /\ c \in Times
      /\ h \in Nat /\ f \in Nat /\ p \in Nat /\ b \in Nat /\ f2 \in Nat /\ p2 \in Nat
      /\ f2 <= f /\ p2 <= p /\ f + p <= Handlers /\ p <= Handlers
      /\ Before(u, e, h) /\ After(u, e, h, n, f, p, b)
      /\ c \in Span(u) => h2 = h + 1 /\ f2 = f - 1
      /\ c \notin Span(u) => h2 = h
      /\ c >= u + Window => p >= 1 /\ p2 = p - 1
      /\ p = Handlers => c >= u + Window
      /\ b = 0 => c <= n
  BY Handful DEF HitNumbers
<1>1. /\ u \in Nat /\ n \in Nat /\ c \in Nat /\ c # None /\ Budget \in Nat /\ Budget >= 1
      /\ Window \in Nat /\ Window >= 1 /\ e.count \in Nat /\ e.count <= Budget
      /\ e.start # None => e.start \in Nat /\ e.start + Window <= c
  BY <1>0 DEF Times, Entry, Elapsed, ThrottleAssumption
<1>2. CASE c < u
  <2>1. h = 0 /\ h2 = 0
    BY <1>0, <1>1, <1>2 DEF Before, Span
  <2>2. QED
    BY <1>0, <1>1, <1>2, <2>1 DEF Before, After
<1>3. CASE c \in Span(u)
  <2>1. c >= u /\ c < u + Window
    BY <1>0, <1>1, <1>3 DEF Span
  <2>2. h < Budget
    BY <1>0, <1>1, <2>1 DEF Before
  <2>3. QED
    BY <1>0, <1>1, <1>3, <2>1, <2>2 DEF Before, After
<1>4. CASE c >= u + Window
  <2>1. h2 = h /\ p >= 1 /\ p2 = p - 1 /\ p <= Handlers
    BY <1>0, <1>1, <1>4, Handful DEF Span
  <2>2. Before(u, new, h)
    BY <1>0, <1>1, <1>4 DEF Before
  <2>3. /\ Handlers \in Nat /\ Ceiling(b) \in Int /\ PerSetBack = Share(Handlers) + Handlers
        /\ Share(p) \in Nat /\ Share(p2) \in Nat /\ Share(p2) + (Budget - 1) = Share(p)
        /\ Share(Handlers) \in Nat /\ Share(p) <= Share(Handlers)
        /\ Ceiling(b) >= 2 * Budget + Handlers - 2
        /\ b >= 1 => Ceiling(b) >= 2 * Budget + Handlers - 2 + PerSetBack
    BY <1>0, <2>1, Handful, Shares, Ceilings
  <2>4. p2 < Handlers /\ Handlers >= 1 /\ f2 + 1 <= Handlers
    BY <1>0, <2>1, <2>3
  <2>5. SUFFICES /\ n >= u + Window => h + f2 <= Ceiling(b)
                 /\ n < u + Window => h + (Budget - 1) + Share(p2) + Handlers <= Ceiling(b)
    BY <1>0, <2>1, <2>2, <2>4 DEF After
  <2>6. CASE e.start # None /\ e.start >= u + Window
    <3>1. n >= u + Window => h + f <= Ceiling(b)
      BY <1>0, <2>6 DEF After
    <3>2. n < u + Window /\ p = Handlers => h + Share(p) + Handlers <= Ceiling(b)
      BY <1>0, <2>3, <2>6 DEF After
    <3>3. n < u + Window /\ p < Handlers =>
            h + (Budget - e.count) + Share(p) + Handlers <= Ceiling(b)
      BY <1>0, <2>6 DEF After
    <3>4. QED
      BY <1>0, <1>1, <2>1, <2>3, <3>1, <3>2, <3>3
  <2>7. CASE e.start # None => e.start < u + Window
    <3>1. h <= 2 * Budget - 1
      BY <1>0, <2>7, BeforeLeaves
    <3>2. n < u + Window => b >= 1
      BY <1>0, <1>1, <1>4
    <3>3. n >= u + Window => h + f2 <= Ceiling(b)
      BY <1>0, <1>1, <2>3, <2>4, <3>1
    <3>4. n < u + Window => h + (Budget - 1) + Share(p2) + Handlers <= Ceiling(b)
      BY <1>0, <1>1, <2>1, <2>3, <2>4, <3>1, <3>2
    <3>5. QED
      BY <3>3, <3>4
  <2>8. QED
    BY <1>1, <2>6, <2>7
<1>5. QED
  BY <1>0, <1>1, <1>2, <1>3, <1>4 DEF Span

\* A hit in the window its key has.
LEMMA CountingBounded ==
  ASSUME ThrottleAssumption, NEW c, NEW u, NEW e, NEW h, NEW n, NEW f, NEW p, NEW b,
         NEW new, NEW h2, NEW f2, NEW p2, HitNumbers(c, u, e, h, n, f, p, b, new, h2, f2, p2),
         e.start # None, ~Elapsed(e.start, c), new.start = e.start, new.count = e.count + 1
  PROVE  Before(u, new, h2) /\ After(u, new, h2, n, f2, p2, b)
<1>0. /\ u \in Times /\ e \in Entry /\ new \in Entry /\ n \in Times /\ c \in Times
      /\ h \in Nat /\ f \in Nat /\ p \in Nat /\ b \in Nat /\ f2 \in Nat /\ p2 \in Nat
      /\ f2 <= f /\ p2 <= p /\ f + p <= Handlers /\ p <= Handlers
      /\ Before(u, e, h) /\ After(u, e, h, n, f, p, b)
      /\ c \in Span(u) => h2 = h + 1 /\ f2 = f - 1
      /\ c \notin Span(u) => h2 = h
      /\ c >= u + Window => p >= 1 /\ p2 = p - 1
      /\ p = Handlers => c >= u + Window
      /\ b = 0 => c <= n
  BY Handful DEF HitNumbers
<1>1. /\ u \in Nat /\ n \in Nat /\ c \in Nat /\ Budget \in Nat /\ Budget >= 1
      /\ Window \in Nat /\ Window >= 1 /\ e.count \in Nat /\ e.count >= 1 /\ e.count + 1 <= Budget
      /\ e.start \in Nat /\ c < e.start + Window
      /\ c \in Span(u) <=> u <= c /\ c < u + Window
  BY <1>0 DEF Times, Entry, Elapsed, ThrottleAssumption, Before, Span
<1>2. CASE e.start < u + Window
  <2>1. e.start + Window <= u => h2 = 0
    BY <1>0, <1>1, <1>2 DEF Before
  <2>2. e.start < u => h2 < e.count + 1
    BY <1>0, <1>1, <1>2 DEF Before
  <2>3. h2 < Budget + e.count + 1
    BY <1>0, <1>1, <1>2 DEF Before
  <2>4. QED
    BY <1>0, <1>1, <1>2, <2>1, <2>2, <2>3 DEF Before, After
<1>3. CASE e.start >= u + Window
  <2>1. Before(u, new, h2)
    BY <1>0, <1>1, <1>3 DEF Before
  <2>2. After(u, e, h, n, f2, p2, b)
    BY <1>0, LeavingBounded
  <2>3. c \in Span(u) => h2 = h + 1 /\ p < Handlers /\ p2 < Handlers
    BY <1>0, <1>1, Handful
  <2>4. /\ Handlers \in Nat /\ Ceiling(b) \in Int /\ Share(p2) \in Nat
    BY <1>0, Handful, Shares, Ceilings
  <2>5. n >= u + Window => h2 + f2 <= Ceiling(b)
    BY <1>0, <1>1, <1>3, <2>2, <2>3, <2>4 DEF After
  <2>6. n < u + Window /\ p2 = Handlers => h2 + PerSetBack <= Ceiling(b)
    BY <1>0, <1>1, <1>3, <2>2, <2>3, <2>4 DEF After
  <2>7. n < u + Window /\ p2 < Handlers =>
          h2 + (Budget - (e.count + 1)) + Share(p2) + Handlers <= Ceiling(b)
    BY <1>0, <1>1, <1>3, <2>2, <2>3, <2>4 DEF After
  <2>8. QED
    BY <2>1, <2>5, <2>6, <2>7 DEF After
<1>4. QED
  BY <1>0, <1>1, <1>2, <1>3

-----------------------------------------------------------------------------
(* The steps. *)

\* The calls that wait are counted.
LEMMA Waiters ==
  ASSUME ThrottleAssumption, Carried, NEW u \in Times
  PROVE  /\ IsFiniteSet(Inside(u)) /\ IsFiniteSet(Beyond(u))
         /\ Cardinality(Inside(u)) \in Nat /\ Cardinality(Beyond(u)) \in Nat
         /\ Cardinality(Inside(u)) + Cardinality(Beyond(u)) <= Handlers
         /\ Cardinality(Beyond(u)) = Handlers => Beyond(u) = Tasks
<1>1. Inside(u) \subseteq Tasks /\ Beyond(u) \subseteq Tasks
  BY DEF Inside, Beyond
<1>2. Inside(u) \cap Beyond(u) = {}
  <2>1. SUFFICES ASSUME NEW t \in Tasks, Waiting(t), task[t].clock \in Span(u),
                        task[t].clock >= u + Window
                 PROVE  FALSE
    BY DEF Inside, Beyond
  <2>2. QED
    BY <2>1 DEF Span, Times, ThrottleAssumption
<1>3. IsFiniteSet(Tasks)
  BY DEF ThrottleAssumption
<1>4. /\ IsFiniteSet(Inside(u)) /\ IsFiniteSet(Beyond(u))
      /\ Cardinality(Inside(u)) \in Nat /\ Cardinality(Beyond(u)) \in Nat
      /\ Cardinality(Beyond(u)) = Handlers => Beyond(u) = Tasks
  BY <1>1, <1>3, FS_Subset, FS_CardinalityType DEF Handlers
<1>5. Cardinality(Inside(u) \cup Beyond(u)) = Cardinality(Inside(u)) + Cardinality(Beyond(u))
  <2>1. Cardinality(Inside(u) \cap Beyond(u)) = 0
    BY <1>2, FS_EmptySet
  <2>2. Cardinality(Inside(u) \cup Beyond(u))
          = Cardinality(Inside(u)) + Cardinality(Beyond(u)) - Cardinality(Inside(u) \cap Beyond(u))
    BY <1>4, FS_Union
  <2>3. QED
    BY <1>4, <2>1, <2>2
<1>6. Cardinality(Inside(u) \cup Beyond(u)) <= Handlers
  <2>1. Inside(u) \cup Beyond(u) \in SUBSET Tasks
    BY <1>1
  <2>2. QED
    BY <1>3, <2>1, FS_Subset DEF Handlers
<1>7. QED
  BY <1>4, <1>5, <1>6

\* A call that got the mutex waits no more.
LEMMA CallLeaves ==
  ASSUME ThrottleAssumption, Carried, NEW t \in Tasks, Waiting(t), NEW new,
         new.at \notin {"id", "ip"}, task' = [task EXCEPT ![t] = new], NEW u \in Times
  PROVE  /\ Cardinality(Inside(u)') = IF task[t].clock \in Span(u) THEN Cardinality(Inside(u)) - 1
                                     ELSE Cardinality(Inside(u))
         /\ Cardinality(Beyond(u)') = IF task[t].clock >= u + Window THEN Cardinality(Beyond(u)) - 1
                                     ELSE Cardinality(Beyond(u))
<1>1. ASSUME NEW v \in Tasks
      PROVE  /\ Waiting(v)' <=> v # t /\ Waiting(v)
             /\ v # t => task'[v] = task[v]
  BY DEF Carried, TypeOK, Waiting
<1>2. Inside(u)' = Inside(u) \ {t} /\ Beyond(u)' = Beyond(u) \ {t}
  BY <1>1 DEF Inside, Beyond, Span
<1>3. /\ t \in Inside(u) <=> task[t].clock \in Span(u)
      /\ t \in Beyond(u) <=> task[t].clock >= u + Window
  BY DEF Inside, Beyond
<1>4. IsFiniteSet(Inside(u)) /\ IsFiniteSet(Beyond(u))
  BY Waiters
<1>5. /\ Cardinality(Inside(u) \ {t}) = IF t \in Inside(u) THEN Cardinality(Inside(u)) - 1
                                        ELSE Cardinality(Inside(u))
      /\ Cardinality(Beyond(u) \ {t}) = IF t \in Beyond(u) THEN Cardinality(Beyond(u)) - 1
                                        ELSE Cardinality(Beyond(u))
  BY <1>4, FS_RemoveElement
<1>6. QED
  BY <1>2, <1>3, <1>5

\* A charge keeps the bound of every key and span.
LEMMA ChargeBounded ==
  ASSUME ThrottleAssumption, ThrottleInv, NEW t \in Tasks, Waiting(t), NEW new,
         new.at \notin {"id", "ip"}, task' = [task EXCEPT ![t] = new], UNCHANGED <<now, back>>,
         NEW x \in Keys, Hit(x, task[t].clock) \/ Refuse(x, task[t].clock),
         NEW k \in Keys, NEW u \in Times
  PROVE  Bounded(k, u)'
<1>. DEFINE c == task[t].clock
            e == inner[k]
            h == allowed[k][u]
            f == Cardinality(Inside(u))
            p == Cardinality(Beyond(u))
            f2 == Cardinality(Inside(u)')
            p2 == Cardinality(Beyond(u)')
<1>1. Carried /\ TypeOK /\ Fits(t)
  BY DEF ThrottleInv, Carried
<1>2. /\ e \in Entry /\ h \in Nat /\ now \in Times /\ back \in Nat /\ c \in Times
      /\ c \in Nat /\ u \in Nat /\ Window \in Nat /\ Window >= 1
      /\ back = 0 => c <= now
  BY <1>1 DEF TypeOK, Fits, Times, ThrottleAssumption
<1>3. /\ f \in Nat /\ p \in Nat /\ f + p <= Handlers /\ Handlers \in Nat
      /\ p = Handlers => c >= u + Window
      /\ c \in Span(u) => f >= 1
      /\ c >= u + Window => p >= 1
  <2>1. /\ f \in Nat /\ p \in Nat /\ f + p <= Handlers /\ Handlers \in Nat
        /\ p = Handlers => Beyond(u) = Tasks
    BY <1>1, Waiters, Handful
  <2>2. Beyond(u) = Tasks => c >= u + Window
    BY DEF Beyond
  <2>3. /\ c \in Span(u) => Inside(u) # {}
        /\ c >= u + Window => Beyond(u) # {}
    BY DEF Inside, Beyond
  <2>4. (f = 0 => Inside(u) = {}) /\ (p = 0 => Beyond(u) = {})
    BY <1>1, Waiters, FS_EmptySet
  <2>5. QED
    BY <2>1, <2>2, <2>3, <2>4
<1>4. /\ f2 = IF c \in Span(u) THEN f - 1 ELSE f
      /\ p2 = IF c >= u + Window THEN p - 1 ELSE p
  BY <1>1, CallLeaves
<1>5. /\ f2 \in Nat /\ p2 \in Nat /\ f2 <= f /\ p2 <= p /\ p <= Handlers
      /\ c \in Span(u) => f >= 1 /\ f2 = f - 1
      /\ c >= u + Window => p >= 1 /\ p2 = p - 1
  BY <1>3, <1>4
<1>6. Before(u, e, h) /\ After(u, e, h, now, f, p, back)
  BY DEF ThrottleInv, Bounded
<1>. HIDE DEF f, p, f2, p2
<1>7. CASE UNCHANGED <<inner[k], allowed[k]>>
  <2>1. After(u, e, h, now, f2, p2, back)
    BY <1>2, <1>3, <1>5, <1>6, LeavingBounded
  <2>2. QED
    BY <1>6, <1>7, <2>1 DEF Bounded, f2, p2, Before, After, Ceiling, Share, PerSetBack, Handlers
<1>8. CASE k = x /\ Hit(x, c)
  <2>. DEFINE o == Opened(k, c)
              new2 == [o EXCEPT !.count = o.count + 1]
              h2 == IF c \in Span(u) THEN h + 1 ELSE h
  <2>1. o \in Entry /\ o.count < Budget
    BY <1>1, <1>2, <1>8, OpenedType DEF Hit, HasRoom
  <2>2. new2 \in Entry /\ new2.start = o.start /\ new2.count = o.count + 1
    BY <2>1 DEF Entry, ThrottleAssumption
  <2>3. inner'[k] = new2
    BY <1>1, <1>8 DEF Hit, TypeOK
  <2>4. allowed'[k][u] = h2
    BY <1>1, <1>8 DEF Hit, TypeOK
  <2>5. Before(u, new2, h2) /\ After(u, new2, h2, now, f2, p2, back)
    <3>1. HitNumbers(c, u, e, h, now, f, p, back, new2, h2, f2, p2)
      <4>. HIDE DEF new2, e, h, c
      <4>1. QED
        BY <1>2, <1>3, <1>4, <1>6, <2>2 DEF HitNumbers, h2
    <3>2. CASE e.start = None \/ Elapsed(e.start, c)
      <4>1. new2.start = c /\ new2.count = 1
        BY <2>2, <3>2 DEF Opened
      <4>2. QED
        BY <3>1, <3>2, <4>1, OpeningBounded
    <3>3. CASE e.start # None /\ ~Elapsed(e.start, c)
      <4>1. new2.start = e.start /\ new2.count = e.count + 1
        BY <2>2, <3>3 DEF Opened
      <4>2. QED
        BY <3>1, <3>3, <4>1, CountingBounded
    <3>4. QED
      BY <3>2, <3>3
  <2>6. QED
    BY <2>3, <2>4, <2>5 DEF Bounded, f2, p2, Before, After, Ceiling, Share, PerSetBack, Handlers
<1>9. QED
  <2>1. CASE Refuse(x, c)
    BY <1>1, <1>2, <1>7, <2>1, RefusalWritesNothing
  <2>2. CASE Hit(x, c) /\ k # x
    BY <1>1, <1>7, <2>2 DEF Hit, TypeOK
  <2>3. QED
    BY <1>8, <2>1, <2>2

\* A call that reads the clock waits with the time it is.
LEMMA ReadBounded ==
  ASSUME ThrottleAssumption, ThrottleInv, NEW t \in Tasks, ~Waiting(t),
         Waiting(t)', task'[t].clock = now, \A v \in Tasks : v # t => task'[v] = task[v],
         UNCHANGED <<now, inner, allowed, back>>, NEW k \in Keys, NEW u \in Times
  PROVE  Bounded(k, u)'
<1>1. Carried
  BY DEF ThrottleInv
<1>2. ASSUME NEW v \in Tasks
      PROVE  v # t => task'[v] = task[v] /\ (Waiting(v)' <=> Waiting(v))
  BY DEF Waiting
<1>3. now >= u + Window => Inside(u)' = Inside(u)
  <2>1. SUFFICES ASSUME now >= u + Window PROVE t \notin Inside(u)'
    BY <1>2 DEF Inside, Span
  <2>2. now \notin Span(u)
    BY <1>1, <2>1 DEF Carried, TypeOK, Span, Times, ThrottleAssumption
  <2>3. QED
    BY <1>2, <2>2 DEF Inside, Span
<1>4. now < u + Window => Beyond(u)' = Beyond(u)
  <2>1. SUFFICES ASSUME now < u + Window PROVE t \notin Beyond(u)'
    BY <1>2 DEF Beyond
  <2>2. ~(now >= u + Window)
    BY <1>1, <2>1 DEF Carried, TypeOK, Times, ThrottleAssumption
  <2>3. QED
    BY <1>2, <2>2 DEF Beyond
<1>. DEFINE f == Cardinality(Inside(u))
            p == Cardinality(Beyond(u))
            f2 == Cardinality(Inside(u)')
            p2 == Cardinality(Beyond(u)')
<1>5. (now >= u + Window => f2 = f) /\ (now < u + Window => p2 = p)
  BY <1>3, <1>4
<1>6. Before(u, inner[k], allowed[k][u]) /\ After(u, inner[k], allowed[k][u], now, f, p, back)
  BY DEF ThrottleInv, Bounded
<1>. HIDE DEF f, p, f2, p2
<1>7. After(u, inner[k], allowed[k][u], now, f2, p2, back)
  BY <1>5, <1>6 DEF After
<1>8. QED
  BY <1>6, <1>7 DEF Bounded, f2, p2, Before, After, Ceiling, Share, PerSetBack, Handlers

\* What waits stays in its place when the clock moves; a clock that passes the
\* end of a span finds room for all that wait, one that is set back brings its own.
LEMMA ClockBounded ==
  ASSUME ThrottleAssumption, ThrottleInv, Tick \/ \E x \in Times : SetBack(x),
         NEW k \in Keys, NEW u \in Times
  PROVE  Bounded(k, u)'
<1>. DEFINE e == inner[k]
            h == allowed[k][u]
            f == Cardinality(Inside(u))
            p == Cardinality(Beyond(u))
<1>1. Carried /\ TypeOK
  BY DEF ThrottleInv, Carried
<1>2. /\ UNCHANGED <<inner, task, allowed>> /\ now \in Nat /\ now' \in Nat /\ back \in Nat
      /\ \/ back' = back /\ now' >= now
         \/ back' = back + 1 /\ now' < now
  BY <1>1 DEF TypeOK, Tick, SetBack, Times, ThrottleAssumption
<1>3. /\ e \in Entry /\ h \in Nat /\ u \in Nat /\ Budget \in Nat /\ Budget >= 1 /\ Window \in Nat
      /\ f \in Nat /\ p \in Nat /\ f + p <= Handlers /\ p <= Handlers /\ Handlers \in Nat
      /\ Handlers >= 1
  <2>1. e \in Entry /\ h \in Nat /\ u \in Nat
    BY <1>1 DEF TypeOK, Times
  <2>2. f \in Nat /\ p \in Nat /\ f + p <= Handlers
    BY <1>1, Waiters
  <2>3. QED
    BY <2>1, <2>2, Handful DEF ThrottleAssumption
<1>4. Before(u, e, h) /\ After(u, e, h, now, f, p, back)
  BY DEF ThrottleInv, Bounded
<1>5. Cardinality(Inside(u)') = f /\ Cardinality(Beyond(u)') = p
  BY <1>2 DEF Inside, Beyond, Waiting, Span
<1>6. /\ Ceiling(back) \in Int /\ Ceiling(back + 1) = Ceiling(back) + PerSetBack
      /\ PerSetBack = Share(Handlers) + Handlers /\ PerSetBack \in Nat
      /\ Share(p) \in Nat /\ Share(Handlers) \in Nat
      /\ p < Handlers => Share(p) + (Budget - 1) <= Share(Handlers)
  <2>1. p < Handlers => Share(p) + (Budget - 1) <= Share(Handlers)
    <3>1. SUFFICES ASSUME p < Handlers PROVE Share(p) + (Budget - 1) <= Share(Handlers)
      OBVIOUS
    <3>2. Share(p + 1 - 1) + (Budget - 1) = Share(p + 1) /\ p + 1 - 1 = p
      BY <1>3, Shares
    <3>3. Share(p + 1) <= Share(Handlers)
      BY <1>3, <3>1, Shares
    <3>4. QED
      BY <3>2, <3>3
  <2>2. QED
    BY <1>2, <1>3, <2>1, Shares, Ceilings
<1>. HIDE DEF e, h, f, p
<1>7. After(u, e, h, now', f, p, back')
  <2>1. SUFFICES ASSUME e.start # None, e.start >= u + Window
                 PROVE  After(u, e, h, now', f, p, back')
    BY DEF After
  <2>2. e.count \in Nat /\ e.count >= 1 /\ e.count <= Budget
    BY <1>3, <1>4, <2>1 DEF Before, Entry
  <2>3. CASE now >= u + Window
    <3>1. h + f <= Ceiling(back)
      BY <1>4, <2>1, <2>3 DEF After
    <3>2. QED
      BY <1>2, <1>3, <1>6, <2>2, <2>3, <3>1 DEF After
  <2>4. CASE now < u + Window /\ p = Handlers
    <3>1. h + PerSetBack <= Ceiling(back)
      BY <1>4, <2>1, <2>4 DEF After
    <3>2. QED
      BY <1>2, <1>3, <1>6, <2>2, <2>4, <3>1 DEF After
  <2>5. CASE now < u + Window /\ p < Handlers
    <3>1. h + (Budget - e.count) + Share(p) + Handlers <= Ceiling(back)
      BY <1>4, <2>1, <2>5 DEF After
    <3>2. QED
      BY <1>2, <1>3, <1>6, <2>2, <2>5, <3>1 DEF After
  <2>6. QED
    BY <1>2, <1>3, <2>3, <2>4, <2>5
<1>8. QED
  BY <1>2, <1>4, <1>5, <1>7
  DEF Bounded, e, h, f, p, Before, After, Ceiling, Share, PerSetBack, Handlers

\* The invariant of the windows: their spans are bounded whatever the clock does.
THEOREM ThrottleInvariance == Spec => []ThrottleInv
<1>1. Init => ThrottleInv
  <2>1. ASSUME Init, NEW k \in Keys, NEW u \in Times PROVE Bounded(k, u)
    BY <2>1 DEF Init, NoEntry, Bounded, Before, After
  <2>2. QED
    BY <2>1, ThrottleAssumption, InitCarried DEF ThrottleInv
<1>2. ASSUME ThrottleInv, [Next]_vars PROVE ThrottleInv'
  <2>1. Carried /\ Carried'
    BY <1>2, ThrottleAssumption, NextCarries DEF ThrottleInv
  <2>2. SUFFICES ASSUME NEW k \in Keys, NEW u \in Times PROVE Bounded(k, u)'
    BY <2>1 DEF ThrottleInv, Keys, Times
  <2>3. ASSUME NEW t \in Tasks, NEW i \in Identities, NEW a \in Addresses, Arrive(t, i, a)
        PROVE  Bounded(k, u)'
    <3>1. /\ ~Waiting(t) /\ Waiting(t)' /\ task'[t].clock = now
          /\ \A v \in Tasks : v # t => task'[v] = task[v]
      BY <2>1, <2>3 DEF Arrive, Waiting, Carried, TypeOK
    <3>2. UNCHANGED <<now, inner, allowed, back>>
      BY <2>3 DEF Arrive
    <3>3. QED
      BY <1>2, <3>1, <3>2, ThrottleAssumption, ReadBounded
  <2>4. ASSUME NEW t \in Tasks, ReadClock(t) PROVE Bounded(k, u)'
    <3>1. /\ ~Waiting(t) /\ Waiting(t)' /\ task'[t].clock = now
          /\ \A v \in Tasks : v # t => task'[v] = task[v]
      BY <2>1, <2>4 DEF ReadClock, Waiting, Carried, TypeOK, Request
    <3>2. UNCHANGED <<now, inner, allowed, back>>
      BY <2>4 DEF ReadClock
    <3>3. QED
      BY <1>2, <3>1, <3>2, ThrottleAssumption, ReadBounded
  <2>5. ASSUME NEW t \in Tasks, ChargeIdentity(t) PROVE Bounded(k, u)'
    <3>. DEFINE new == [task[t] EXCEPT !.at = "read"]
    <3>1. /\ Waiting(t) /\ task[t].id \in Keys /\ UNCHANGED <<now, back>>
          /\ Hit(task[t].id, task[t].clock) \/ Refuse(task[t].id, task[t].clock)
          /\ task' = [task EXCEPT ![t] = new] \/ task' = [task EXCEPT ![t] = Idle]
      BY <2>1, <2>5 DEF ChargeIdentity, TurnedAway, Waiting, Carried, Fits, Keys
    <3>2. new.at = "read" /\ Idle.at = "idle"
      BY <2>1 DEF Carried, TypeOK, Request, Idle
    <3>. HIDE DEF new
    <3>3. QED
      BY <1>2, <3>1, <3>2, ThrottleAssumption, ChargeBounded
  <2>6. ASSUME NEW t \in Tasks, ChargeAddress(t) PROVE Bounded(k, u)'
    <3>1. /\ Waiting(t) /\ task[t].ip \in Keys /\ UNCHANGED <<now, back>>
          /\ Hit(task[t].ip, task[t].clock) \/ Refuse(task[t].ip, task[t].clock)
          /\ task' = [task EXCEPT ![t] = Idle] /\ Idle.at = "idle"
      BY <2>1, <2>6 DEF ChargeAddress, Waiting, Carried, Fits, Keys, Idle
    <3>2. QED
      BY <1>2, <3>1, ThrottleAssumption, ChargeBounded
  <2>7. CASE Tick \/ \E x \in Times : SetBack(x)
    BY <1>2, <2>7, ThrottleAssumption, ClockBounded
  <2>8. CASE UNCHANGED vars
    BY <1>2, <2>8 DEF vars, ThrottleInv, Bounded, Before, After, Inside, Beyond, Waiting, Span
  <2>9. QED
    BY <1>2, <2>3, <2>4, <2>5, <2>6, <2>7, <2>8 DEF Next
<1>3. QED
  BY <1>1, <1>2, PTL DEF Spec

\* In any Window seconds a key is allowed less than two budgets, one hit more
\* for each other handler, and a budget for each when the clock is set back.
THEOREM BurstsAreBounded == Spec => []SlidingBudget
<1>1. ASSUME ThrottleInv PROVE SlidingBudget
  <2>1. SUFFICES ASSUME NEW k \in Keys, NEW u \in Times PROVE allowed[k][u] <= Ceiling(back)
    BY DEF SlidingBudget, Allowance, Ceiling, PerSetBack
  <2>. DEFINE e == inner[k]
              h == allowed[k][u]
              f == Cardinality(Inside(u))
              p == Cardinality(Beyond(u))
  <2>2. Carried /\ TypeOK
    BY <1>1 DEF ThrottleInv, Carried
  <2>3. /\ e \in Entry /\ h \in Nat /\ u \in Nat /\ back \in Nat /\ now \in Nat
        /\ Budget \in Nat /\ Window \in Nat
    BY <2>2, ThrottleAssumption DEF TypeOK, Times, ThrottleAssumption
  <2>4. f \in Nat /\ p \in Nat /\ p <= Handlers /\ Handlers \in Nat /\ Handlers >= 1
    <3>1. f \in Nat /\ p \in Nat /\ f + p <= Handlers
      BY <2>2, ThrottleAssumption, Waiters
    <3>2. QED
      BY <3>1, ThrottleAssumption, Handful
  <2>5. /\ PerSetBack \in Nat /\ Ceiling(back) \in Int /\ Share(p) \in Nat
        /\ Ceiling(back) >= 2 * Budget + Handlers - 2
    BY <2>3, <2>4, ThrottleAssumption, Ceilings, Shares
  <2>6. Before(u, e, h) /\ After(u, e, h, now, f, p, back)
    BY <1>1 DEF ThrottleInv, Bounded
  <2>. HIDE DEF e, h, f, p
  <2>7. CASE e.start # None => e.start < u + Window
    <3>1. h <= 2 * Budget - 1
      BY <2>3, <2>6, <2>7, ThrottleAssumption, BeforeLeaves
    <3>2. QED
      BY <2>3, <2>4, <2>5, <3>1 DEF h
  <2>8. CASE e.start # None /\ e.start >= u + Window
    <3>1. e.count \in Nat /\ e.count <= Budget
      BY <2>3 DEF Entry
    <3>2. h <= Ceiling(back)
      <4>1. now >= u + Window => h + f <= Ceiling(back)
        BY <2>6, <2>8 DEF After
      <4>2. now < u + Window /\ p = Handlers => h + PerSetBack <= Ceiling(back)
        BY <2>6, <2>8 DEF After
      <4>3. now < u + Window /\ p < Handlers =>
              h + (Budget - e.count) + Share(p) + Handlers <= Ceiling(back)
        BY <2>6, <2>8 DEF After
      <4>4. QED
        BY <2>3, <2>4, <2>5, <3>1, <4>1, <4>2, <4>3
    <3>3. QED
      BY <3>2 DEF h
  <2>9. QED
    BY <2>3, <2>7, <2>8 DEF Entry, Times
<1>2. QED
  BY <1>1, ThrottleInvariance, PTL
=============================================================================
