------------------------------- MODULE CartLock -------------------------------
(***************************************************************************)
(* The rules of the cart row that every verb of the storefront relies on,  *)
(* whatever else it does: a handler holds one cart at a time, and only an  *)
(* open one; the cart leaves open under the lock of the handler placing    *)
(* it, in the step that lets the lock go; nobody else ends that lock, and  *)
(* nobody cancels the cart under it.                                       *)
(*                                                                         *)
(* The modules that look at a place from different sides each implement    *)
(* this one, so that what one of them leaves out of a place, the others    *)
(* may take for granted.                                                   *)
(***************************************************************************)
CONSTANTS
  Carts,  \* cart rows
  Tasks,  \* request handlers
  None    \* no handler

VARIABLES
  state,  \* the state of each cart
  lock    \* which handler's transaction holds each cart row

vars == <<state, lock>>

Init ==
  /\ state = [c \in Carts |-> "open"]
  /\ lock = [c \in Carts |-> None]

\* SELECT .. FOR UPDATE, and the state check under it.
Acquire(t, c) ==
  /\ lock[c] = None
  /\ state[c] = "open"
  /\ \A d \in Carts : lock[d] # t
  /\ lock' = [lock EXCEPT ![c] = t]
  /\ UNCHANGED state

\* The transaction that places the cart commits.
Place(t, c) ==
  /\ lock[c] = t
  /\ state[c] = "open"
  /\ state' = [state EXCEPT ![c] = "placed"]
  /\ lock' = [lock EXCEPT ![c] = None]

\* It rolls back, or commits and leaves the cart open.
Release(t, c) ==
  /\ lock[c] = t
  /\ lock' = [lock EXCEPT ![c] = None]
  /\ UNCHANGED state

Cancel(c) ==
  /\ lock[c] = None
  /\ state[c] # "open"
  /\ state' = [state EXCEPT ![c] = "cancelled"]
  /\ UNCHANGED lock

Next ==
  \E c \in Carts :
    \/ \E t \in Tasks : Acquire(t, c) \/ Place(t, c) \/ Release(t, c)
    \/ Cancel(c)

Spec == Init /\ [][Next]_vars
=============================================================================
