------------------------------- MODULE Billing -------------------------------
(***************************************************************************)
(* How a shopper's e-mail address becomes the billing party of a cart:     *)
(* capture_billing and express both resolve it through shopper_parties     *)
(* inside the transaction that holds the cart's row lock, the first in a   *)
(* transaction that ends at once, the second in one that goes on to place  *)
(* the cart and may still refuse.                                          *)
(*                                                                         *)
(* A row inserted but not committed makes an insert of the same address    *)
(* wait until it is committed (then the insert does nothing) or rolled     *)
(* back (then the insert takes place).                                     *)
(*                                                                         *)
(* The party port's idempotence is a contract on its adapter; here it may  *)
(* mint a new party at every call, so that only the map can keep one.      *)
(***************************************************************************)
CONSTANTS
  Carts,    \* cart rows
  Emails,   \* normalized addresses, of one company
  Parties,  \* parties, bounding how many are ever minted
  Tasks,    \* request handlers running at the same time
  None      \* SQL NULL

ASSUME BillingAssumption == None \notin Carts \cup Emails \cup Parties \cup Tasks

VARIABLES
  cart,    \* storefront.carts
  lock,    \* which handler holds each cart row
  map,     \* storefront.shopper_parties: the party of each address
  fresh,   \* whose uncommitted insert holds the map entry of each address
  minted,  \* the address each party was minted for
  task,    \* where each handler is, and what it has read
  billed   \* history: the address last captured on each cart

billVars == <<cart, lock, map, fresh, minted, task, billed>>

-----------------------------------------------------------------------------
\* stale: updated_at is older than the abandonment window.
CartRow == [state : {"open", "placed"}, party : Parties \cup {None}, stale : BOOLEAN]
NewCart == [state |-> "open", party |-> None, stale |-> FALSE]

TaskSteps == {"idle", "known", "mint", "insert", "winner", "stamp", "place"}
TaskState == [at : TaskSteps, verb : {"capture", "express", "place"}, cart : Carts \cup {None},
              email : Emails \cup {None}, party : Parties \cup {None}]
Idle == [at |-> "idle", verb |-> "place", cart |-> None, email |-> None, party |-> None]

BillInit ==
  /\ cart = [c \in Carts |-> NewCart]
  /\ lock = [c \in Carts |-> None]
  /\ map = [e \in Emails |-> None]
  /\ fresh = [e \in Emails |-> None]
  /\ minted = [p \in Parties |-> None]
  /\ task = [t \in Tasks |-> Idle]
  /\ billed = [c \in Carts |-> None]

Goto(t, step) == task' = [task EXCEPT ![t].at = step]
Take(t, step, p) == task' = [task EXCEPT ![t].at = step, ![t].party = p]
MutResolved(t, p) == Take(t, "stamp", task[t].email)
Resolved(t, p) == Take(t, "stamp", p)

-----------------------------------------------------------------------------
\* lock_cart, and the checks under the lock.  A place without a body works for
\* the party the cart has.
Lock(t, verb, c, e) ==
  /\ task[t].at = "idle"
  /\ lock[c] = None
  /\ cart[c].state = "open"
  /\ verb = "place" <=> e = None
  /\ verb = "place" => cart[c].party # None
  /\ lock' = [lock EXCEPT ![c] = t]
  /\ task' = [task EXCEPT ![t] =
       [at |-> IF e = None THEN "place" ELSE "known", verb |-> verb, cart |-> c,
        email |-> e, party |-> cart[c].party]]
  /\ UNCHANGED <<cart, map, fresh, minted, billed>>

\* The fast path: a committed row of the address, of this company's.
MutKnownParties(e) == {map[f] : f \in Emails} \ {None}
KnownParties(e) == {map[e]} \ {None}

Known(t) ==
  LET known == KnownParties(task[t].email) IN
  /\ task[t].at = "known"
  /\ \/ \E p \in known : Resolved(t, p)
     \/ known = {} /\ Goto(t, "mint")
  /\ UNCHANGED <<cart, lock, map, fresh, minted, billed>>

\* The port: a new party, or one it had minted for the address before.
Mint(t) ==
  LET e == task[t].email IN
  /\ task[t].at = "mint"
  /\ \E p \in Parties :
       /\ minted[p] \in {None, e}
       /\ minted' = [minted EXCEPT ![p] = e]
       /\ Take(t, "insert", p)
  /\ UNCHANGED <<cart, lock, map, fresh, billed>>

\* INSERT .. ON CONFLICT DO NOTHING.
MutLost(t) == Goto(t, "stamp")
Lost(t) == Goto(t, "winner")

Insert(t) ==
  LET e == task[t].email IN
  /\ task[t].at = "insert"
  /\ fresh[e] = None
  /\ \/ map[e] = None /\ fresh' = [fresh EXCEPT ![e] = t] /\ Goto(t, "stamp")
     \/ map[e] # None /\ Lost(t) /\ UNCHANGED fresh
  /\ UNCHANGED <<cart, lock, map, minted, billed>>

Winner(t) ==
  /\ task[t].at = "winner"
  /\ Resolved(t, map[task[t].email])
  /\ UNCHANGED <<cart, lock, map, fresh, minted, billed>>

-----------------------------------------------------------------------------
\* The handler's locks go: its row lock and its uncommitted insert.
MutUnlock(t) ==
  /\ lock' = [c \in Carts |-> IF lock[c] = t THEN None ELSE lock[c]]
  /\ UNCHANGED fresh
Unlock(t) ==
  /\ lock' = [c \in Carts |-> IF lock[c] = t THEN None ELSE lock[c]]
  /\ fresh' = [e \in Emails |-> IF fresh[e] = t THEN None ELSE fresh[e]]
Finish(t) == task' = [task EXCEPT ![t] = Idle]

\* The transaction commits, its map row with it.
Commit(t, row) ==
  /\ cart' = [cart EXCEPT ![task[t].cart] = row]
  /\ map' = [e \in Emails |-> IF fresh[e] = t THEN task[t].party ELSE map[e]]
  /\ billed' = IF task[t].email = None THEN billed
               ELSE [billed EXCEPT ![task[t].cart] = task[t].email]
  /\ Unlock(t)
  /\ Finish(t)
  /\ UNCHANGED minted

\* stamp_billing_party: capture_billing commits with it, express goes on.
Stamp(t) ==
  /\ task[t].at = "stamp"
  /\ \/ /\ task[t].verb = "capture"
        /\ Commit(t, [state |-> "open", party |-> task[t].party, stale |-> FALSE])
     \/ /\ task[t].verb = "express"
        /\ Goto(t, "place")
        /\ UNCHANGED <<cart, lock, map, fresh, minted, billed>>

\* The rest of place, as far as the billing party sees it.
Place(t) ==
  /\ task[t].at = "place"
  /\ Commit(t, [state |-> "placed", party |-> task[t].party, stale |-> FALSE])

\* A refusal, a failed statement or a lost handler: nothing of it stays but
\* the party it may have minted.
Rollback(t) ==
  /\ task[t].at # "idle"
  /\ Unlock(t)
  /\ Finish(t)
  /\ UNCHANGED <<cart, map, minted, billed>>

-----------------------------------------------------------------------------
Request(t) ==
  \E c \in Carts, verb \in {"capture", "express", "place"}, e \in Emails \cup {None} :
    Lock(t, verb, c, e)
Work(t) == Known(t) \/ Mint(t) \/ Insert(t) \/ Winner(t) \/ Stamp(t) \/ Place(t)

BillNext == \E t \in Tasks : Request(t) \/ Work(t) \/ Rollback(t)

-----------------------------------------------------------------------------
(* Properties. *)

\* Every variable holds a row of its table.
BillTypeOK ==
  /\ cart \in [Carts -> CartRow]
  /\ lock \in [Carts -> Tasks \cup {None}]
  /\ map \in [Emails -> Parties \cup {None}]
  /\ fresh \in [Emails -> Tasks \cup {None}]
  /\ minted \in [Parties -> Emails \cup {None}]
  /\ task \in [Tasks -> TaskState]
  /\ billed \in [Carts -> Emails \cup {None}]

\* One address, one party: whoever's insert lost, and whichever winner rolled
\* back, every cart is billed to the party the map keeps for its address.
OneParty ==
  \A c \in Carts : cart[c].party # None =>
    billed[c] # None /\ map[billed[c]] = cart[c].party

\* No capture waits for ever: the handler whose map row an insert waits for
\* waits for nobody itself, and is bound to commit or roll back.
WaitsEnd ==
  \A t \in Tasks :
    LET holder == fresh[task[t].email] IN
    task[t].at = "insert" /\ holder # None => task[holder].at \in {"stamp", "place"}
=============================================================================
