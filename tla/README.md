# A verification model of backbone-storefront

`backbone-storefront` is the server side of a web shop: carts bound to visitors
and principals, listings and prices per website, a checkout that mints an order
in a selling module and a payment in a gateway module, Click & Collect,
wishlists, and mails to people who left a cart. It is a library of async Rust
service verbs over PostgreSQL. Everything that can go wrong goes wrong between
two transactions: a verb reads in one, calls another module that commits in its
own, and writes in a third, while other handlers do the same.

This directory holds TLA+ models of those verbs at the grain of one action per
committed transaction or external call, TLC runs on small instances, and TLAPS
proofs of all the safety properties they find true for any number of carts, handlers,
visitors, wishes and officers.

Paths below are relative to the repository root; `service/` is
`src/application/service/`, `http/` is `src/presentation/http/`.

## 1. The system's parts

| Part | Where | State it keeps | Operations that change it | What makes it correct | Module |
|---|---|---|---|---|---|
| Checkout critical section | `service/checkout_service.rs` | `carts` (state, mode, carrier, store, party), `checkout_sessions`; selling's orders and the gateway's transactions through their services | `set_delivery`, `set_pickup`, `reset_fulfillment`, `capture_billing`, `place`, `place_on_site`, express | one winner per cart, one total in three places, the terms under the lock are the terms sold | Checkout, Placement |
| Closing verbs | the same file | the same | `consume_settlement`, `confirm_pickup`, `cancel_checkout` | no unpaid order is confirmed, a settled payment is recorded, a cancel mirrors and is final | Checkout, Placement |
| Cart lines and coupon | `service/cart_service.rs` | `cart_lines`, `carts.coupon_code` | `add_line`, `set_line_quantity`, `remove_line`, `apply_coupon`, `remove_coupon` | what was ordered is what the cart shows, up to verbs already running | CartLines |
| Availability gate | `service/availability_service.rs` | none; reads stock through a port | `clamp_quantity` per line, `gate_place_quantities` per place | nothing is sold beyond the free stock | CartLines (partly) |
| Catalogue | `service/catalog_service.rs` | `product_listings`, `product_prices`, `website_sale_settings` | upserts, `publish_listing`, `unpublish_listing`, `set_listing_backorder`, `set_price`, `set_settings` | one live row per pairing; nothing off the publish gate is sold | CartLines (partly) |
| Cart identity | `service/cart_service.rs`, `http/public_routes.rs` | `carts` (visitor, principal); website's visitors are only read | `create_cart`, `adopt_cart`, `recover_cart`; `own_open_cart` finds the cart every verb then works on by id | one open cart per visitor; no cart moves to, or is placed by, a stranger | CartIdentity, OpenCarts |
| Shopper party | `service/cart_service.rs` `resolve_shopper_party` | `shopper_parties`; parties in the host's directory | the resolve-or-mint inside billing and express | one map row and one party per email | Billing |
| Pricing | `service/pricing_service.rs` | none | a read over ports | its two decisions that matter to state are in Checkout (`pricedFor`) and CartLines (`PlaceLines`) | not a module |
| Pickup registry | `service/collect_service.rs` | `pickup_locations` | `upsert_location` | a placed pickup order names a live store | not a module, see 9 |
| Wishlist, stock alerts | `service/wishlist_service.rs` | `wishlist_items` | `add`, `remove`, `reconcile`, `arm_notify`, `send_stock_alerts` | an armed wish is notified once, and not lost | Wishlist |
| Abandoned-cart recovery | `service/recovery_service.rs` | `recovery_invites` | `send_recovery` | only an abandoned cart is written to, at the address it was billed to, and no stamp lies | Recovery |
| Throttle | `http/public_routes.rs` `FixedWindows` | a map from key to window and count | `allow` | a budget per identity and per address | Throttle |
| Connection pool | the host's | pooled connections | `place` holds one and takes a second | places do not starve each other | not a module, see 9 |
| Officer routes, tax port, audit trail, generated CRUD, migrations | `http/admin_routes.rs`, ... | append-only audit rows | thin calls of the verbs above | | not modelled, see 9 |

How they interact: a public route resolves the caller to a visitor and a
principal, finds a cart, and hands the row it read to one service verb. The
verbs share nothing but the database rows. Checkout calls the pricing, stock and
tax ports, selling (`create_sales_order_priced`, `confirm_sales_order`,
`cancel_sales_order`) and the gateway (`create_pending`); the gateway's settled
event comes back, at least once, to `consume_settlement`.

What is hard, and where:

* *Independent commits under one lock.* `place` holds the cart's `FOR UPDATE`
  lock in an outer transaction, but the mint, the free arm's confirm and the
  gateway create run in a request scope on a second connection and commit by
  themselves.
* *Read, call, stamp.* The three closing verbs read the session, call selling
  and stamp it in three transactions; none takes the cart lock.
* *Verbs without a lock.* The line and coupon verbs check the cart row their
  route read and work on in up to five transactions.
* *Redelivery and loss.* Settlements arrive again; a task may end between any
  two steps.
* *Check, then act* on everything a partial unique index arbitrates: open carts,
  listings, prices, the shopper map.
* *Waiting inside a transaction.* An insert into the shopper map waits for
  whoever has inserted the same address and not committed, which may be a whole
  place, and its fate decides what the waiter does.
* *Somebody else's answer between a read and a write.* The officers' sends wait
  for a notifier with rows in hand that shoppers and other officers go on changing.

`PROJECT.json` lists the hazards line by line with the properties that cover
them, and says of each uncovered one why no property does.

## 2. Modules

| Module | Contents |
|---|---|
| `Checkout` | the checkout's rows, the locked verbs, place step by step, the closing verbs, task loss; its properties |
| `Placement` | the abstract specification: carts and sessions only, place in one step |
| `CartLock` | the abstract specification of the row lock: who may take it, end it, and change the cart's state; implemented by `Checkout`, `CartLines` and `Recovery` |
| `CheckoutInv` | the inductive invariant `IInv` |
| `CheckoutProofs` | the proofs, the refinements of `Placement` and `CartLock` included |
| `OrdersProofs` | what becomes of the orders of failed places, and whom an order is priced for: proofs on top of `CheckoutProofs` |
| `MCCheckout` | symmetry for TLC |
| `CartLines` | the line and coupon verbs, the two gates, and what place does with the lines; its properties |
| `CartLinesProofs` | its inductive invariant and the proofs, the refinement of `CartLock` included |
| `SerialAddsProofs` | what holds of the lines as long as adds of one item do not overlap: proofs on top of `CartLinesProofs` |
| `MCCartLines` | symmetry for TLC |
| `CartIdentity` | create, adopt, recover, the lookup of the caller's cart and place by id; its properties and inductive invariant |
| `OpenCarts` | the abstract specification: who holds which open cart, and which principal it is linked to |
| `CartIdentityProofs` | the proofs, the refinement of `OpenCarts` included |
| `MCCartIdentity` | symmetry, and the website of each visitor |
| `Billing` | resolving an address to a party inside captures and express places; its properties |
| `ShopperParties` | the abstract specification: billing a cart to an address is one look-up or entry of the map |
| `Recovery` | `Billing` composed with the officer's recovery mail; the specification that is run |
| `RecoveryProofs` | the inductive invariants of both and the proofs, the refinements of `ShopperParties` and `CartLock` included |
| `MCRecovery` | symmetry for TLC |
| `Wishlist` | the wishes and the back-in-stock sends; its properties |
| `WishlistProofs` | the inductive invariant and the proofs |
| `MCWishlist` | symmetry for TLC |
| `Throttle` | the two budgets of a request; its properties |
| `ThrottleProofs` | the inductive invariant and the proofs |
| `MCThrottle` | symmetry for TLC |

The operators named `Mut...` are single plausible bugs of the definition they
precede (a dropped guard, a swapped order). No specification uses them; they are
put in a definition's place to see that each property can fail.

### Checkout and the code

| State | Code |
|---|---|
| `cart` | `storefront.carts`: `state`, `fulfillment_mode`, `pickup_location_id`, `delivery_carrier_id`, `party_id` |
| `lock` | the row lock of `lock_cart`, released by commit, rollback or a dropped connection |
| `order` | selling's order of a checkout: status, total, customer, carrier, the party its price was resolved for; `by` records which verb confirmed it |
| `gateway` | the gateway's transaction of a checkout: pending, settled, gross amount |
| `session` | `storefront.checkout_sessions`: state, cart, amount, pickup pin, whether a gateway transaction is bound |
| `task` | a handler: its next step and the locals it carries (`row` is the cart row `lock_cart` returned, with the party an express body stamped) |
| `acked` | settlements the consumer answered Ok |
| `voiding`, `faults` | history: cancels past their state check; tasks lost so far |

| Action | Code in `checkout_service.rs` |
|---|---|
| `SetDelivery`, `SetPickup`, `ResetFulfillment`, `CaptureBilling` | the locked verbs, one transaction each |
| `PlaceLock` | `place_with_lane` from `lock_cart` through the pricing, stock and tax ports, up to the mint; also the express billing capture |
| `PlaceMint` | `create_sales_order_priced` and the read-back of its total |
| `PlaceArm` | the arm the lane and the total decide: nothing on site, the free confirm, or the pending gateway transaction |
| `PlaceCommit` | the session insert, the cart's flip, and the commit that releases the lock |
| `GatewaySettle` | the gateway's own verified settlement |
| `ConsumeRead`, `ConsumeConfirm`, `ConsumeStamp` | `consume_settlement`'s three transactions |
| `PickupRead`, `PickupConfirm`, `PickupStamp` | `confirm_pickup`'s three |
| `CancelRead`, `CancelOrder` or `CancelRefused`, `CancelSession`, `CancelCart` | `cancel_checkout`'s four |
| `Fail` | a step errs or the task is dropped: the open transaction rolls back, what committed stays |

Decisions a reader should know of:

* One checkout id names the session, the order (number `STF-<id>`) and the
  gateway row (reference `stf-<id>`), as in the code, where one `Uuid::new_v4`
  makes all three. `Ids` bounds how many places reach the mint.
* A verb that refuses before its first commit leaves nothing behind and is a
  stuttering step. Refusals after it are `Fail`.
* The provider can settle only a reference it was given, and the answer that
  carries it leaves the server after place committed; so `GatewaySettle` needs
  a session.
* Whether selling cancels an order that has left draft is not this
  repository's code: both answers are in the model.
* The states `failed` and `closed` of the session enum are written nowhere, and
  are not in the model. `pending_pickup` is in a migration though the Rust enum
  lacks it; the code writes it as text, and so does the model.
* `Confirm` answers the same for a confirmed and a cancelled order, because the
  callers treat every `NotDraft` as success.

### CartLines and the code

| State | Code |
|---|---|
| `cart` | `carts.state` and `carts.coupon_code` |
| `lock` | the row lock of a place |
| `line` | `cart_lines`, soft-deleted lines included |
| `gate` | the items `gated_listing` lets through: published, `sale_ok`, active in the catalogue |
| `free` | what the stock gate lets a line ask for; a backorder listing has a level no basket reaches |
| `order` | the basket a cart was placed with, with two history fields: the items off the publish gate as it was read, and those short of stock as the place passed its gate |
| `task` | a handler's next step and its locals |

| Action | Code |
|---|---|
| `AddRequest`, `SetRequest`, `RemoveRequest`, `CouponRequest` | the routes of `http/public_routes.rs`: the cart row is read and its state checked, once |
| `Gate`, `AddLines`, `SetLine`, `Clamp`, `InsertLine`, `UpdateLine` | the transactions of `add_line` and `set_line_quantity`; a fold goes from the first to the second with the sum |
| `RemoveLine`, `Coupon` | `remove_line`; `apply_coupon` and `remove_coupon` |
| `PlaceLock`, `PlaceLines`, `PlaceStock`, `PlaceCommit` | the parts of `place_with_lane` the lines can tell apart |
| `SetGate`, `StockMoves` | officers' publish, unpublish and backorder verbs, and the warehouse |
| `Drop` | a refusal of place, or a lost handler |

A line insert has a foreign key to its cart, whose check waits for a place's
`FOR UPDATE`; an update or soft delete of a line touches no cart row and does
not wait. The coupon verbs update the cart row: they wait, then look at its
state again. `touch_cart` and the audit rows are left out, since nothing here
reads them. A live price row never goes away (`set_price` only replaces it), so
the `unavailable_count` refusal of place cannot be reached by a line that passed
`gated_listing`; `PlaceLines` therefore does not have it.

Checkout leaves the lines out, and CartLines everything about a place but the
lines: a place's order of steps is the same in both, and neither reads the
other's variables.

### CartIdentity and the code

| State | Code |
|---|---|
| `cart` | `carts`: `state`, `website_id` (`site`), `visitor_id`, `portal_user_id` (`principal`) |
| `task` | a handler: its next step, the caller it works for, the cart it found |
| `past` | history: the visitors that have held each cart |

| Action | Code |
|---|---|
| `CreateRequest`, `CreateInsert`, `CreateRead` | `create_cart`: the insert that the open-cart index lets through or not, and the read of the survivor in a later transaction |
| `AdoptRequest`, `AdoptTarget`, `MoveFree`, `AdoptMove` | `adopt_cart`: the target row, the visitor's own cart, the update |
| `RecoverRequest`, `RecoverTarget`, `MoveFree`, `RecoverMove` | `recover_cart`, the same way |
| `OwnRequest`, `OwnVisitor`, `OwnPrincipal` | `own_open_cart` of the routes; a failed read counts as no cart |
| `ActPlace` | a place of the cart that was found, by its id |
| `HostLinks` | the first stamp of `portal_user_id`, by the host (external: `adopt_cart` only writes the value it found) |
| `Drop` | a refusal, a failed statement, a lost handler |

The partial unique index `idx_carts_open_per_visitor` is a guard of every write
(`OpenOf(v) = {}`, `IndexAllows`): a statement it forbids is refused, and leaves
nothing. Of the verbs that work on the cart found, only place changes a column
kept here.

### Billing, Recovery and the code

| State | Code |
|---|---|
| `cart`, `lock` | `carts`: `state`, `party_id`, and whether `updated_at` is past the window (`stale`); the row lock |
| `map`, `fresh` | `shopper_parties`: the committed party of each address, and the task whose insert of the address is not committed |
| `minted` | the parties the host's directory has, with the address each was made for |
| `officer` | a `send_recovery`: its next step, the party and address it read |
| `invites` | `recovery_invites`, of which only what is false is kept: the carts with a row in state sent whose mail was not accepted |
| `billed`, `under`, `late` | history: the address last captured on each cart; the sends that had still to mail it as its shopper came back; the mails accepted for it since |

| Action | Code |
|---|---|
| `Lock` | `lock_cart` and the checks under it, of `capture_billing`, express and a plain place |
| `Known`, `Mint`, `Insert`, `Winner` | `resolve_shopper_party`: the map row, the port, the insert that conflicts or not, the read of the winner |
| `Stamp`, `Place`, `Rollback` | `stamp_billing_party`; the rest of the place; whatever rolls the transaction back |
| `CheckWindow`, `ReadParty`, `ReadAddress`, `Send`, `StampInvite`, `Drop` | the statements of `send_recovery` |
| `Ages` | the window passes over an untouched cart |

`Insert` waits while `fresh[e]` is another task's: committed, it makes the insert
do nothing; rolled back, the insert takes place. The party port's contract asks
its adapter to be idempotent; the model does not rely on it and lets it mint
anew at every call. The template, the settings and the audit only refuse a send.

### Wishlist and the code

| State | Code |
|---|---|
| `wish` | `wishlist_items`: live or soft-deleted, visitor, item, `portal_user_id` (with `contact_email`), `notify_on_stock` (`armed`) |
| `inStock` | items with free stock in the display scope |
| `officer` | a `send_stock_alerts`: the rows it read and has still to try, and the one whose arm it clears next |
| `owed`, `overtaken` | history: arms not answered by an accepted alert since they were set; of a send's rows, those another send has cleared since |
| `told` | history: the officers whose alert of a wish was accepted under its present arm, but for sends lost between the alert and the clear |

`Add`, `Remove`, `Reconcile`, `Arm` are the shoppers' verbs, each one statement.
`StockCheck`, `ReadRows`, `Send` (accepted or refused), `ClearArm` and `Done` are
the steps of a send; a clear is by the row's id, whatever the row has become.

### Throttle and the code

`now` is the wall clock in seconds and `inner` the map of `FixedWindows`. A request
in `task` makes two calls of `allow`, and each reads the clock before it waits for
the map's mutex: `Arrive` reads it for the first call and `ReadClock` for the
second, `ChargeIdentity` and `ChargeAddress` charge (`Hit`, `Refuse`) by the time
that was read, whatever the clock and the window have become meanwhile. `SetBack`
is a clock that is set back, which `saturating_sub` takes for no time passed.
`allowed` (per key and second, the hits of the span of `Window` seconds that starts
there, each at the time its call read) and `ledger` (per identity, what it paid and
what came of it) are history.
One verb is modelled; the keys of different verbs differ and never meet.

## 3. Properties

| Property | What it says | Hazard |
|---|---|---|
| `OneWinner` | a cart that left open has one session, an open one none | two places at once |
| `ThreeWitnesses` | order total = session amount = gateway gross | partial place, retry |
| `LockedTerms` | order and session carry the placed cart's carrier, party and store | verbs racing a place |
| `LockDiscipline` | the lock is held exactly by the task placing that cart, and the cart does not move under it | the same |
| `UnpaidNeverConfirms` | a confirmed order was free, paid at the gateway, or confirmed by an officer at its store, orphans included | lanes and arms confused |
| `SettledMeansSold` | a settled checkout no cancel started on has a confirmed order | consumer lost half way |
| `CancelMirrors` | order cancelled before session, session before cart | cancel lost half way |
| `AnsweredIsRecorded` | the gateway is answered Ok only for a payment that is recorded, or was cancelled | redelivery, lost consumer |
| `ClosedRowsKeep` | closed carts keep their terms, final sessions stay | late settlements |
| `PlaceIsAtomic` | Checkout implements Placement | independent commits |
| `PaymentsAreRecorded` | a settled payment reaches its session, or a cancel does | lost consumer |
| `LocksAreReleased` | no place holds the row lock for ever | lost place |
| `CouponIsPriced` | the coupon ordered is the coupon shown | unlocked coupon verbs |
| `LateVerbsOnly` | only line verbs that read the cart before its place may change it after | stale cart row |
| `RemovedStaysRemoved` | no update or fold revives or changes a removed line | update racing a remove |
| `LineBoundSlack` | n handlers pass the line bound by less than n | check, then insert |
| `ShortOnlyByTwins` | a placed cart asks for more than was free only with two lines of one item | per-line stock gate |
| `OnlyItsPrincipalMoves` | a cart changes hands only to a handler of the principal it is linked to; the link is for good | ownership read transactions before the move |
| `PlacedStays` | no late adopt or recover writes a placed cart | the same |
| `PlacedByAnOwner` | who places a cart had held it, or acts for its principal | the cart is found first and worked on by id; a failed read falls through |
| `OffSiteOnlyLinked` | only a linked cart leaves its website | the moves look at no website |
| `KeepsOpenCarts` | CartIdentity implements OpenCarts | check, then act on the index |
| `OneParty` | every cart is billed to the party the map keeps for its address | two captures of one address, and the winner rolls back |
| `WaitsEnd` | the holder an insert waits for waits for nobody | waits inside transactions |
| `MailsTheShopper` | a mail goes to the address the cart was billed to | the address is looked up by party, later |
| `NeverFakeSent` | no invite says sent of a mail that was not | stamp after the port's answer |
| `LateMailsBounded` | the mails a cart gets after it was touched or placed are at most the sends under way for it at that moment | stale window check, two officers at once |
| `ArmAnswered` | the arm a send is about to clear was answered, or another send overtook it | clear by id after the answer |
| `StillWanted` | a wish still to be alerted is armed, removed, or overtaken | two sends of one item |
| `ToldOnce` | one arm is alerted twice only by sends that overlap, or after one that was lost before it cleared | the same, by how much |
| `SlidingBudget` | in any window's length a key is allowed less than two budgets, one hit more for each other handler that may be late, a budget more for each handler when the clock is set back | fixed windows, the clock read before the mutex, `saturating_sub` |
| `EveryHitAccountedFor` | what each identity paid was served, refused by the address, or is under way | two charges, two mutex sections |

## 4. Runs

| Run | Instance | Distinct states | Shows |
|---|---|---|---|
| `checkout` | 1 cart, 2 checkout ids, 3 tasks, 2 carriers, 2 stores, 2 parties, totals {0, 5}, 2 lost tasks | 499,666 | the safety properties, `IInv`, the refinement |
| `checkout_live` | 1 cart, 2 ids, 3 tasks, 1 lost task, no symmetry | 278,952 | the two liveness properties |
| `cart_lines` | 1 cart, 2 items, 2 lines, 2 tasks, line bound 1, stock {1, 6} | 626,844 | the CartLines properties |
| `cart_identity` | 2 carts, 2 visitors on 2 websites, 2 principals, 2 tasks | 340,792 | the CartIdentity properties, `IdInv`, the refinement of OpenCarts |
| `wishes` | 2 devices, 2 items, 1 principal, 3 wishes, 2 officers | 1,068,833 | the Wishlist properties |
| `recovery` | 2 carts, 2 addresses, 2 parties, 2 tasks, 2 officers | 1,266,188 | the Billing and Recovery properties |
| `throttle` | 1 identity, 1 address, 2 tasks, budget 2, window 2, clock 0..4 set back once | 2,144,303 | the Throttle properties |
| `doc_settled_is_confirmed` | smaller | stops at the violation | see 5 |
| `doc_mint_is_atomic` | smaller | stops at the violation | see 5 |
| `doc_priced_for_buyer` | smaller | stops at the violation | see 5 |
| `doc_one_line_per_item` | as `cart_lines` | stops at the violation | see 5 |
| `doc_place_refuses_closed_gate` | as `cart_lines` | stops at the violation | see 5 |

Why the bounds are enough. No Checkout action relates two carts, so one cart
suffices for TLC and the proofs cover the rest; two ids allow a failed place to
leave its orphan and a second one to win; three tasks allow a place, a consumer
and a cancel to overlap, or two of one kind beside a third; a zero and a
positive total reach every arm; two carriers, stores and parties let a verb
change a value while another still carries the old one. In CartLines a line
bound of one with two lines lets the bound be passed and the twins appear, and
stock levels one and six are below and above what two lines can ask for. Two carts
let a visitor have one and be handed another; two visitors on two websites and
two principals are an owner and a stranger, twice. Two parties let two addresses
have one each, or a lost insert of one address leave a party behind; the proofs
cover more. Two officers may both mail a cart that was placed under them, or both
alert a wish before either clears it, and begin again while the other still works.
Three wishes let one be removed and added again beside another. A clock of
five seconds has two whole windows and their edge. Deadlock
is not checked: nobody has to send another request, so the system may rightly
come to rest. Model values of a set are interchangeable in every definition,
hence the symmetry of the safety runs; the liveness run has none.

`Ids`, `LineIds`, `MaxFaults`, `MaxQuantity`, `Carts` (in CartIdentity), `Parties`,
`Wishes`, `MaxTime` and `MaxBack` are the bounds on otherwise unbounded growth. Each cuts behaviours off and adds none.

## 5. Where the code and its documentation part

Each is a run that must end in a violation.

* `SettledIsConfirmed`. `consume_settlement` and `confirm_pickup` take `NotDraft`
  for "already confirmed"; beside a cancel the order is cancelled, and the
  session is stamped settled over it.
* `MintIsAtomic`. The spec's "one DB transaction" for place is four: a place lost
  after the mint leaves a draft, or in the free arm a confirmed order, that no
  session names.
* `PricedForBuyer`. Express stamps its party on the row and then prices the cart
  struct it had read before: the order is sold to one party at a price resolved
  for another, or for none.
* `OneLinePerItem`. "Same-item adds FOLD": two that run at once insert two lines.
* `PlaceRefusesClosedGate`. A comment in place says an item that left the gate
  refuses the place; only the price row is looked at, which unpublishing leaves.

Three more things the models show, where no text of the repository is plain
enough to be contradicted:

* Two sends of one item that read the same armed wishes both alert them, and the
  second one's clear may take an arm the shopper has set again in between;
  `wishlist_service.rs:24` says the arm clears only on an accepted send, and speaks
  of one send. `ArmAnswered` and `StillWanted` state exactly that margin, and
  `ToldOnce` how often one arm can be alerted: once for each send at work.
* `reconcile` stamps whoever is logged in now over an earlier login of the device.
* Nothing in the module writes the first `portal_user_id`: without the host's stamp
  no cart is adoptable, and the principal's arm of recover and of the lookup never
  applies.

## 6. Fairness

`checkout_live` assumes `WF(Work(t))` for each handler, the async runtime
polling every task, and `SF` of `ConsumeRead` for each settlement not answered
Ok: the gateway delivers again until it is, and the server's real tasks are not
limited to `Tasks`, so a delivery is not kept out for ever because the two or
three modelled ones are busy. Lost tasks are finitely many (`MaxFaults`). Nothing
is assumed fair about shoppers, officers or the provider. The free choices of
the environment inside a step (the total, selling's answer) stay free.

## 7. What is proved

All theorems are for arbitrary sets and numbers, under the named assumptions on
the constants alone: `None` is none of the other values, amounts, quantities and
bounds are naturals (the throttle's budget and window positive), and, where lines or
hits are counted, lines and handlers are finitely many, as are the officers of a recovery.

| Module | Invariant | What follows from it |
|---|---|---|
| `CheckoutProofs` | `IInv` | the eight safety invariants of `checkout`, `ClosedRowsKeep`, `PlaceIsAtomic` (Checkout implements Placement) and `KeepsCartLock` (it implements CartLock); with `AnswerInv`, `AnsweredIsRecorded` |
| `CartLinesProofs` | `LinesInv` | all six properties of `cart_lines`; with `Holders`, `KeepsCartLock` |
| `CartIdentityProofs` | `IdInv` | all the properties of `cart_identity`, and `KeepsOpenCarts`: CartIdentity implements OpenCarts |
| `RecoveryProofs` | `RecInv` (with `BillInv`) | all six properties of `recovery`, `LateMailsBounded` with `LateInv`, and `ResolvesAtomically`: Recovery implements ShopperParties; with `Holders`, `KeepsCartLock` |
| `OrdersProofs` | `IInv` with `OrphansCounted`, or with `OrdersPriced` | how many orders failed places leave and that nothing touches these; `MintIsAtomic` and `PricedForBuyer` under the conditions they need |
| `SerialAddsProofs` | `LinesInv` with `ApartInv` | `OneLinePerItem`, and no order of more than was free, as long as adds do not overlap |
| `WishlistProofs` | `WishInv` | all four properties of `wishes`; `ToldOnce` with `ToldInv` |
| `ThrottleProofs` | `ThrottleInv` | all three properties of `throttle` |

None of the invariants is inductive alone: they speak of committed rows, and
what keeps them is what each handler relies on between its steps. In every module
the strengthening says that of each handler, and one lemma per action or kind of
action shows that no other handler's step takes it away.

*Checkout.* A task inside place holds its cart's lock, the cart is open and has
the terms the task carries, and its id is its own (`HoldsCart`, `OwnIds`); what the
steps so far have left in order and gateway (`PlaceProgress`, `Armed`); what a
closing verb established before its next step (`CloseOK`: a consumer works on a
settled transaction, a cancel's session stamp follows the order's); and what the
rows of a checkout say of each other whether or not a session came of it
(`OrderOK`, `SessionOK`). The closing verbs, which overlap freely, share lemmas
about what a confirm and a stamp may change. The refinement maps every step under
a lock and every call to selling or the gateway to a stutter, `PlaceCommit` to
`Place`, and the stamps to `Settle`, `Cancel` and `Close`, or to a stutter where the
row is already so. `AnsweredIsRecorded` needs one fact more, that a free checkout has
no gateway transaction: a delivery that finds a session neither waiting nor missing
then finds it settled or cancelled, and no step takes a session out of those two.

*The row lock.* Checkout, CartLines and Recovery each see a place from one side, and
share nothing but the state of the cart and who holds its row. Each is proved to
implement `CartLock` with those two as the mapping, so each does to them only what
the others allow for: a verb that leaves the cart's row as it was is a stutter, a
place takes the row of an open cart, and its commit, its refusal or its loss is the
step that lets it go. What the invariants lacked for this is that a handler holds the
row of the cart it works on and no other (`Holders`; in Checkout, `LockDiscipline`
says so).

*CartLines.* A place holds its cart's lock, the cart is open, and its basket's
coupon is the row's (`Placing`), which the coupon verbs respect because they wait
for the lock and look at the state again. The line verbs rely on nothing but what
they carry (`Fits`), and that is the point: `LateVerbs` follows from which handlers
may write a line at all (`LineEffects`). A basket in stock line by line and short in
sum has two lines of an item, because the sum over none or one is that line's
(`AskedNone`, `AskedOne`). The slack of the line bound counts the lines and the
handlers that have yet to insert together.

*CartIdentity.* What a handler read of a cart and acts on later still stands: the
link, because it never changes, and who has held the cart, because that only grows
(`ReadingStands`). The index makes open carts unique (`OneOpenCart`), which is what
`Free` in OpenCarts asks of a create and a move.

*Billing and Recovery.* An uncommitted insert belongs to a handler past its insert,
whose party is the one the row will have, and the map never changes an entry it
has; so a loser finds the winner's party, and a party read from a cart is the map's
for one address alone (no two addresses share a party, since each was minted for
one). A commit therefore looks to everybody else like one look-up or entry
(`ResolvesAtomically`): whatever the handler waited for and lost on the way, its party
is the map's as it commits, or goes into an empty entry no other address shares. The
mail therefore finds the address the cart was billed to. When a shopper comes back, the
sends past the window check can only become fewer, since nothing but `Ages` makes the
cart abandoned again, and each of them mails at most once: `LateInv` keeps the late
mails and the sends to come together under the number counted then, and says that of
an abandoned cart no mail is late.

*Wishlist.* What a send has in hand is a wish that exists, armed while it lives
unless another send's clear overtook it (`Sound`). Only a clear disarms a live
wish, and it marks the wish in every other send that has it. Who has told a shopper
of an arm that is still set is between the alert and the clear (`ToldInv`): so a send
that reads the armed wishes has told of none of them, and `ToldOnce` follows. A slot of
`Officers` stands for whichever sends use it one after the other, and two sends that do
not overlap can be given one slot, so what no slot does twice no two of them do. The
exception is a send lost before its clear, which leaves an arm that looks unanswered.

*Throttle.* The windows of a key start further and further on, at least a Window
apart, however the clock is set, because a hit opens a new one only at a time that
is a Window or more after the start of the last. So of the windows that start
before the end of a span of Window seconds at most two can take hits of the span,
and a hit before the span makes the first of them smaller: less than two budgets
(`Before`). A window that starts after the span takes hits of it only from calls
that read the clock before that window started, one for each handler that is late,
the one that opened it excepted, or after the clock was set back. `After` keeps
account of these: `Inside` are the calls that wait with a time in the span, and once
the clock has been set back before the end of the span, each handler that can still
go ahead with a later time (`Beyond`) is reckoned with, a budget each (`PerSetBack`,
`Share`). The history
variables carry the counts, so that no sum over a set has to be proved by induction:
a step changes a count by one, and a cardinality by one member.

*Who writes what.* The longer modules state first what each step may write at all
(`StepEffects`, `LineEffects`, `WhoWrites`), or what one statement does to its table
(`ConfirmEffect`, `StampEffect`, `CancelCartEffect`), and that the handlers and the rows
it leaves alone are as they were (`HandlerKeeps`, `PlacesStand`, `ClosersStand`,
`RowsStand`). An action's own lemma then speaks of the one handler that moved.

*Where the documentation is too strong.* Three of the claims of section 5 hold of fewer
runs than the text says, and the theorems say of which:

* One line per item, as long as no two adds of the same item to the same cart are past
  the look at the lines and before the insert at once (`AddsDoNotOverlap`, a condition
  on states that the theorem assumes always). What a handler is about to insert is then
  new to its cart (`ApartInv`). By `ShortOnlyByTwins` the gate that looks at one line at
  a time is then enough: no order is for more than was free. Other verbs may overlap
  as they like.
* Place is one transaction until a handler fails. Afterwards the orders without a
  session and a running place are at most as many as the failures (`OrphansCounted`;
  the set of ids may be infinite, so the invariant also says that the orphans are
  finitely many), and no step ever changes one of them, pays it, or gives it a session
  (`OrphansStay`): the damage of a lost place is one order, which only somebody outside
  the module can clear.
* An order is priced for its buyer in every run in which no express body names another
  party than the cart has (`PlacesForItsParty`, assumed always).

The conditions are met by runs that place, pay and fail: TLC, made to stop at the
states that break them, still reaches carts placed with two lines, and two orphans.

TLC checks `IInv` and `IdInv` as invariants of their runs; `ThrottleInv`, the other
invariants, and the properties `KeepsCartLock` and `ResolvesAtomically` were checked on
the instances of the runs before they were proved, and are no run's standing question:
the theorems answer them for every instance.

Model-checked only: the two liveness properties, `PaymentsAreRecorded` and
`LocksAreReleased`, whose fairness is out of the prover's reach. What is proved of the
first is its safety half, `AnsweredIsRecorded`: the gateway stops delivering only when
there is nothing left to record. Of the second it is `KeepsCartLock`: only the holder
ends a lock, and it ends whichever way the holder ends.

## 8. What could come next

* *Checkout with CartLines*: one module that instantiates both. They share the
  cart's state and lock only, and both implement `CartLock`; the product is large
  for TLC, and would be a subject for proof.
* *Pricing*: `price_cart`'s arithmetic and the choice of the price list as
  operators against a reference definition, once a property of state depends on it.

## 9. Not modelled, and why

* *Pricing arithmetic and tax*: pure reads over ports of the host. The order's
  total is any amount; the ports' refusals are refusals of place.
* *Upserts of listings, prices, settings and stores* (`catalog_service.rs`,
  `collect_service.rs`): each reads for a live row and inserts or updates it; a
  unique index refuses the second of two inserts, two updates leave the later one,
  and no other state changes. What the shopper's verbs see of them, the publish
  gate and the backorder switch, moves freely in CartLines. That a pinned store is
  still active is checked under the lock and is one of the refusals of `PlaceLock`.
* *Audit trail*: append-only, read back by nothing. It is where a settlement that
  is delivered again can be recorded twice (listed as a hazard).
* *Generated CRUD*: entities, DTOs, repositories, handlers, events and exports,
  more than half of the repository's lines, without behaviour of their own; only
  their read routes are mounted. The share of lines the models map is small for
  that reason; of the service modules with verbs it is most.
* *Officer routes and the read routes*: the first call one verb each, modelled with
  the verb; the second change nothing.
* *Connection pool*: `place` holds one pooled connection and takes a second, so a
  full pool of places and lock waiters can wait on itself until the pool's timeout.
  The size and the timeout are the host's, and this repository sets neither.
* *Warehouse scopes and the stock badge*: `free` stands for the scope's answer.
* *Company fencing (row-level security)*: a query under the wrong scope sees no
  rows; the models assume the scope the code binds.
