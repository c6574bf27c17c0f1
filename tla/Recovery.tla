------------------------------- MODULE Recovery -------------------------------
(***************************************************************************)
(* The officer's recovery mail, beside the captures and places of Billing. *)
(* send_recovery checks the abandonment window and reads the cart's party  *)
(* in two statements of one short transaction, resolves the template and   *)
(* the party's address in others, waits for the notifier, and stamps the   *)
(* outcome in a last one.  Nothing it read is looked at again.             *)
(***************************************************************************)
EXTENDS Billing, Naturals, FiniteSets

CONSTANTS Officers  \* send_recovery handlers running at the same time

ASSUME RecoveryAssumption == IsFiniteSet(Officers)

VARIABLES
  officer,  \* where each send is, and what it has read
  invites,  \* storefront.recovery_invites, which nobody reads: the carts with
            \* an invite that says sent of a mail the notifier did not accept
  under,    \* history: of a cart whose shopper is back, the sends that had
            \* still to mail it at that moment
  late      \* history: the mails accepted for it since

lateVars == <<under, late>>
recVars == <<officer, invites, lateVars>>
vars == <<billVars, recVars>>

-----------------------------------------------------------------------------
\* A send: its cart, the party and address it found, whether its invite is to
\* say sent.  History: the address the cart was billed to as its party was read,
\* and whether the notifier accepted the mail.
Sending == [at : {"idle", "party", "address", "send", "stamp"}, cart : Carts \cup {None},
            party : Parties \cup {None}, to : Emails \cup {None}, sent : BOOLEAN,
            billed : Emails \cup {None}, mailed : BOOLEAN]
NoSend == [at |-> "idle", cart |-> None, party |-> None, to |-> None, sent |-> FALSE,
           billed |-> None, mailed |-> FALSE]

Init ==
  /\ BillInit
  /\ officer = [o \in Officers |-> NoSend]
  /\ invites = {}
  /\ under = [c \in Carts |-> 0]
  /\ late = [c \in Carts |-> 0]

Reading == UNCHANGED <<billVars, invites, lateVars>>
Abandon(o) == officer' = [officer EXCEPT ![o] = NoSend]

-----------------------------------------------------------------------------
\* Open and past the window, as of now.
MutAbandoned(c) == cart[c].stale \/ cart[c].state = "placed"
Abandoned(c) == cart[c].state = "open" /\ cart[c].stale

CheckWindow(o, c) ==
  /\ officer[o].at = "idle"
  /\ Abandoned(c)
  /\ officer' = [officer EXCEPT ![o] = [NoSend EXCEPT !.at = "party", !.cart = c]]
  /\ Reading

\* The second statement sees what was committed since the first.  A cart with
\* no party is refused.
ReadParty(o) ==
  LET c == officer[o].cart IN
  /\ officer[o].at = "party"
  /\ IF cart[c].party = None THEN Abandon(o)
     ELSE officer' = [officer EXCEPT ![o].at = "address", ![o].party = cart[c].party,
                                     ![o].billed = billed[c]]
  /\ Reading

\* The reverse lookup in the map.
AddressesOf(p) == {e \in Emails : map[e] = p}

ReadAddress(o) ==
  /\ officer[o].at = "address"
  /\ \E e \in AddressesOf(officer[o].party) :
       officer' = [officer EXCEPT ![o].at = "send", ![o].party = None, ![o].to = e]
  /\ Reading

\* The shopper is back: the cart was touched since it was abandoned, or placed.
Kept(c) == ~cart[c].stale \/ cart[c].state = "placed"

\* The notifier accepts the mail, or does not: not wired, or refused.
MutOutcome(accepts) == TRUE
Outcome(accepts) == accepts

Send(o, accepts) ==
  /\ officer[o].at = "send"
  /\ officer' = [officer EXCEPT ![o].at = "stamp", ![o].to = None, ![o].billed = None,
                                ![o].sent = Outcome(accepts), ![o].mailed = accepts]
  /\ late' = IF accepts /\ Kept(officer[o].cart)
             THEN [late EXCEPT ![officer[o].cart] = @ + 1] ELSE late
  /\ UNCHANGED <<billVars, invites, under>>

\* The invite row, with the outcome as its delivery state: kept if that is false.
StampInvite(o) ==
  /\ officer[o].at = "stamp"
  /\ invites' = IF officer[o].sent /\ ~officer[o].mailed
                THEN invites \cup {officer[o].cart} ELSE invites
  /\ Abandon(o)
  /\ UNCHANGED <<billVars, lateVars>>

\* No template, a failed statement or a lost handler, the mail perhaps out.
Drop(o) == officer[o].at # "idle" /\ Abandon(o) /\ Reading

-----------------------------------------------------------------------------
\* The sends that have found a cart abandoned and not mailed it yet.
ToMail(c) ==
  {o \in Officers : officer[o].cart = c /\ officer[o].at \in {"party", "address", "send"}}

\* The window passes over an untouched cart.
Ages(c) ==
  /\ cart[c].state = "open"
  /\ cart' = [cart EXCEPT ![c].stale = TRUE]
  /\ under' = [under EXCEPT ![c] = 0]
  /\ late' = [late EXCEPT ![c] = 0]
  /\ UNCHANGED <<lock, map, fresh, minted, task, billed, officer, invites>>

\* A capture or a place; the sends under way for the cart are counted as it ends.
Bill ==
  /\ BillNext
  /\ under' = [c \in Carts |-> IF ~Kept(c) /\ cart'[c] # cart[c]
                               THEN Cardinality(ToMail(c)) ELSE under[c]]
  /\ UNCHANGED <<officer, invites, late>>

Officer(o) ==
  \/ \E c \in Carts : CheckWindow(o, c)
  \/ ReadParty(o) \/ ReadAddress(o)
  \/ \E accepts \in BOOLEAN : Send(o, accepts)
  \/ StampInvite(o) \/ Drop(o)

Next ==
  \/ Bill
  \/ \E c \in Carts : Ages(c)
  \/ \E o \in Officers : Officer(o)

Spec == Init /\ [][Next]_vars

-----------------------------------------------------------------------------
(* Properties. *)

\* Every variable holds a row of its table.
TypeOK ==
  /\ BillTypeOK
  /\ officer \in [Officers -> Sending]
  /\ invites \subseteq Carts
  /\ under \in [Carts -> Nat]
  /\ late \in [Carts -> Nat]

\* A mail goes to the address the cart was billed to as its party was read,
\* though it is found by way of what the map says of that party later on.
MailsTheShopper ==
  \A o \in Officers : officer[o].to # None => officer[o].to = officer[o].billed

\* No invite says sent of a mail the notifier did not accept.
NeverFakeSent == invites = {}

\* A shopper who comes back gets no more late mails than sends had passed the
\* window check by then: those that came since the cart was touched or placed
\* and those that may yet come are at most the sends under way at that moment,
\* whichever officers have since been refused, been lost, or begun anew.
LateMailsBounded ==
  \A c \in Carts : Kept(c) => late[c] + Cardinality(ToMail(c)) <= under[c]

\* A capture and a place keep the rules of the row lock that Checkout's keep.
L == INSTANCE CartLock WITH state <- [c \in Carts |-> cart[c].state]
KeepsCartLock == L!Spec

\* Look-up, mint, insert, wait and re-read, each rolled back at any step, come
\* to one atomic look-up or entry, as seen through what is committed.
S == INSTANCE ShopperParties WITH
       party <- [c \in Carts |-> cart[c].party],
       placed <- {c \in Carts : cart[c].state = "placed"}
ResolvesAtomically == S!Spec
=============================================================================
