------------------------------- MODULE Throttle -------------------------------
(***************************************************************************)
(* The write throttle of the public routes, for one verb: a request is     *)
(* charged to the budget of its identity and then to that of its address,  *)
(* two calls of FixedWindows.allow that each read the clock, then wait for *)
(* the map's mutex, then charge by the time they read.                     *)
(*                                                                         *)
(* A window opens at its first hit, by the wall clock in whole seconds,    *)
(* and the clock may be set back.                                          *)
(***************************************************************************)
EXTENDS Naturals, FiniteSets

CONSTANTS
  Identities,  \* visitors, principals, and the one anonymous identity
  Addresses,   \* callers' network addresses
  Tasks,       \* request handlers running at the same time
  None,        \* no value
  Budget,      \* hits a window has room for
  Window,      \* length of a window, in seconds
  MaxTime,     \* bound on the clock
  MaxBack      \* bound on how often the clock is set back

Keys == Identities \cup Addresses
Times == 0..MaxTime

ASSUME ThrottleAssumption ==
  /\ Budget \in Nat \ {0} /\ Window \in Nat \ {0}
  /\ MaxTime \in Nat /\ MaxBack \in Nat
  /\ IsFiniteSet(Tasks) /\ Tasks # {}
  /\ Identities \cap Addresses = {}
  /\ None \notin Keys \cup Times

VARIABLES
  now,      \* SystemTime::now(), in seconds
  inner,    \* the map from each key to its window, made by its first hit
  task,     \* where each request is, and the time its last call of allow read
  allowed,  \* history: hits allowed to each key in the Window seconds from each
            \* second on, by the times their calls read
  ledger,   \* history: hits each identity was allowed, and what came of them
  back      \* history: how often the clock was set back

vars == <<now, inner, task, allowed, ledger, back>>

-----------------------------------------------------------------------------
Entry == [start : Times \cup {None}, count : 0..Budget]
NoEntry == [start |-> None, count |-> 0]

Request == [at : {"idle", "id", "read", "ip"}, clock : Times \cup {None},
            id : Identities \cup {None}, ip : Addresses \cup {None}]
Idle == [at |-> "idle", clock |-> None, id |-> None, ip |-> None]

Account == [paid : Nat, served : Nat, lost : Nat]

Init ==
  /\ now = 0
  /\ inner = [k \in Keys |-> NoEntry]
  /\ task = [t \in Tasks |-> Idle]
  /\ allowed = [k \in Keys |-> [u \in Times |-> 0]]
  /\ ledger = [i \in Identities |-> [paid |-> 0, served |-> 0, lost |-> 0]]
  /\ back = 0

-----------------------------------------------------------------------------
(* FixedWindows.allow, called with the time c it read before the mutex. *)

\* saturating_sub: a clock before the start of the window is still inside it.
MutElapsed(start, c) == c < start \/ c - start >= Window
Elapsed(start, c) == c >= start /\ c - start >= Window

\* The window of a key as a hit finds it: a new one, or the one it has.
Opened(k, c) ==
  IF inner[k].start = None \/ Elapsed(inner[k].start, c) THEN [start |-> c, count |-> 0]
  ELSE inner[k]

MutHasRoom(k, c) == Opened(k, c).count <= Budget
HasRoom(k, c) == Opened(k, c).count < Budget

Span(u) == u .. (u + Window - 1)

\* Over budget, the count is left as it is.
Hit(k, c) ==
  /\ HasRoom(k, c)
  /\ inner' = [inner EXCEPT ![k] = [Opened(k, c) EXCEPT !.count = @ + 1]]
  /\ allowed' = [allowed EXCEPT ![k] =
                   [u \in Times |-> IF c \in Span(u) THEN @[u] + 1 ELSE @[u]]]

Refuse(k, c) ==
  /\ ~HasRoom(k, c)
  /\ inner' = [inner EXCEPT ![k] = Opened(k, c)]
  /\ UNCHANGED allowed

-----------------------------------------------------------------------------
(* gate_throttle. *)

\* The first call of allow reads the clock.
Arrive(t, i, a) ==
  /\ task[t].at = "idle"
  /\ task' = [task EXCEPT ![t] = [at |-> "id", clock |-> now, id |-> i, ip |-> a]]
  /\ UNCHANGED <<now, inner, allowed, ledger, back>>

\* A refused identity never reaches the budget of its address: the && of the
\* two calls is over.
MutTurnedAway(t) == task' = [task EXCEPT ![t].at = "read"]
TurnedAway(t) == task' = [task EXCEPT ![t] = Idle]

ChargeIdentity(t) ==
  LET i == task[t].id IN
  /\ task[t].at = "id"
  /\ \/ /\ Hit(i, task[t].clock)
        /\ ledger' = [ledger EXCEPT ![i].paid = @ + 1]
        /\ task' = [task EXCEPT ![t].at = "read"]
     \/ Refuse(i, task[t].clock) /\ TurnedAway(t) /\ UNCHANGED ledger
  /\ UNCHANGED <<now, back>>

\* The second call reads the clock again.
ReadClock(t) ==
  /\ task[t].at = "read"
  /\ task' = [task EXCEPT ![t].at = "ip", ![t].clock = now]
  /\ UNCHANGED <<now, inner, allowed, ledger, back>>

\* The verb runs, or is refused though the identity has paid.
ChargeAddress(t) ==
  LET i == task[t].id
      a == task[t].ip IN
  /\ task[t].at = "ip"
  /\ \/ Hit(a, task[t].clock) /\ ledger' = [ledger EXCEPT ![i].served = @ + 1]
     \/ Refuse(a, task[t].clock) /\ ledger' = [ledger EXCEPT ![i].lost = @ + 1]
  /\ task' = [task EXCEPT ![t] = Idle]
  /\ UNCHANGED <<now, back>>

Tick ==
  /\ now < MaxTime
  /\ now' = now + 1
  /\ UNCHANGED <<inner, task, allowed, ledger, back>>

\* The wall clock is set.
SetBack(u) ==
  /\ back < MaxBack /\ u < now
  /\ now' = u
  /\ back' = back + 1
  /\ UNCHANGED <<inner, task, allowed, ledger>>

Next ==
  \/ Tick
  \/ \E u \in Times : SetBack(u)
  \/ \E t \in Tasks :
       \/ \E i \in Identities, a \in Addresses : Arrive(t, i, a)
       \/ ChargeIdentity(t) \/ ReadClock(t) \/ ChargeAddress(t)

Spec == Init /\ [][Next]_vars

-----------------------------------------------------------------------------
(* Properties. *)

\* Every variable is what its declaration says; a window holds its budget.
TypeOK ==
  /\ now \in Times
  /\ inner \in [Keys -> Entry]
  /\ task \in [Tasks -> Request]
  /\ allowed \in [Keys -> [Times -> Nat]]
  /\ ledger \in [Identities -> Account]
  /\ back \in 0..MaxBack

\* Fixed windows let a burst through around their edge, but never two budgets
\* in full: in any Window seconds a key is allowed less than that, and at most
\* one hit more for each other handler that waits for the mutex with the time
\* it read.  A clock set back costs at most a budget more for each handler.
Handlers == Cardinality(Tasks)
Allowance == 2 * Budget + Handlers - 2 + back * (Handlers * Budget)
SlidingBudget == \A k \in Keys, u \in Times : allowed[k][u] <= Allowance

\* The two charges are separate and handlers interleave between them, yet
\* nobody gets past an address without having paid as an identity: what each
\* identity paid was served, refused by an address, or is still under way.
UnderWay(i) == {t \in Tasks : task[t].at \in {"read", "ip"} /\ task[t].id = i}
EveryHitAccountedFor ==
  \A i \in Identities :
    ledger[i].paid = ledger[i].served + ledger[i].lost + Cardinality(UnderWay(i))
=============================================================================
