# Formal models of analog-tickets

`analog-tickets` sells festival tickets against a bounded stock, takes payments
through an external provider (Stripe test mode), issues tickets, refunds them,
transfers them and checks them in at the door. Its core is a set of PL/pgSQL
functions and triggers; TypeScript server code calls them and talks to the
provider. This directory holds TLA+ models of that core, the TLC configurations
that check them, and TLAPS proofs of the properties that matter most.

The reference for the database is `scripts/promotion-install.review.sql`: it
contains all the ordered install steps, and where a function is defined more
than once the last definition is the one that is modelled. Paths below are
relative to the repository.

## The system

| Part | State | Operations | Correct when |
|---|---|---|---|
| Stock and holds | `ticket_types.quantity_total/quantity_sold/is_active`, `inventory_reservations` | reserve, confirm, release, sweep; owned preparation; nine functions write the counter | the counter equals what the rows say; never oversold; a closed hold stays closed |
| Checkout attempts | `checkout_attempts`, `checkout_expiry_recoveries` | insert behind four guards, finalize, abandon | one attempt per hold; a payable attempt keeps its stock; an abandoned one cannot be charged |
| Priced guest carts, promotions | `guest_checkout_carts`, `ticket_price_quotes`, `promotion_redemptions`, `ticket_quote_expiry_records`, `ticket_promotions` | prepare, price, begin payment, settle, release with evidence, organizer edits | codes stay within their limit; quota follows the purchase; no release without its record |
| Orders and tickets | `orders`, `order_items`, `tickets` | issue, reverse after a refund | paid means issuable; partial refunds restock exactly their tickets |
| Payment dispatch | the server process that owns the POST; the provider's session | POST once, look up, give up before the transport | no release once a request may have reached the provider |
| Webhook and ledger | `payment_webhook_events` | completion, expiry and refund deliveries, duplicates and retries | every effect once, none lost |
| Refund coordination | `refund_coordination_attempts`, `refund_ticket_claims` | claim, provider refund, reversal, reconciliation | a ticket is refunded once; money and tickets agree |
| Transfer | `pending_ticket_transfers` | initiate, issue a code, accept, lapse | only the newest code of an open transfer moves the ticket, once |
| Door | `ticket_pass_codes`, check-ins and reversals, memberships | pass replacement, check-in, reversal, revocation | one live pass per ticket, its owner's; it opens the door while it is valid |
| Guest receipts and recovery | `guest_purchase_deliveries`, sessions, account links | queue, lease, mail, finish, recover, redeem, attach | no link dies on its way; what is called sent went out; a saved purchase stays saved |
| Money | none of its own: prices, quotes, allocations, refund amounts | preview, quote, allocate, charge, refund | the buyer pays what was shown; refunds add up to the payment |
| Browser controllers | sessionStorage and the page | prepare, pay, inspect, recover, expire, show a pass | no second purchase over an open first one; nothing is shown to another account |
| Organizer edits | tiers, promotions, event details | versioned saves | no edit breaks a sale in progress |
| Read-only cores, UI, installers | none of their own | classify, render, build | not modelled |

Parts interact through rows (a hold is named by its idempotency key, which is
also the id of a guest cart; an attempt points to its hold; an order to its
attempt), through the provider (POST by the creator of the attempt, trusted GET
and signed events back), and through triggers that refuse a row which some other
function wrote at the wrong moment.

What makes it hard: every cleanup path races payment; the provider's messages are
late, duplicated and reordered; processes die between a committed row and the
request it announces; money moves outside the transaction that records it; many
functions write one counter; a page stops waiting for a call that goes on. Each such
hazard is listed in `PROJECT.json` at its line, with the properties that cover it or the
reason why none does.

## Modules

| Module | What it is |
|---|---|
| `Checkout` | stock, holds, priced carts, promotions, attempts, the provider's session, issuance, refunds' restocking, every release path of version-2 attempts, organizer edits |
| `SalePromise` | abstract: what a box office promises, in terms of sales, seats and capacities |
| `Checkout_proofs` | types, the payment invariant, the stock counter, capacity, priced carts and their codes, closed rows, and that `Checkout` implements `SalePromise` |
| `RefundPromise` | abstract: what a refund promises, in terms of claimed, paid back, taken back and inside |
| `RefundCoordination` | the coordinator call by call, claims, ledger, provider, refund events, recovery, reversal and the door |
| `Refund_proofs` | the refund invariant, its safety properties, and that `RefundCoordination` implements `RefundPromise` |
| `WebhookDelivery` | the deliveries of one attempt: handlers call by call, ledger, duplicates, redelivery, lost processes |
| `Webhook_proofs` | what a ledger row and an acknowledgement mean, for any number of handlers |
| `GuestDelivery` | the receipt of one guest purchase: lease, mail, finish, recovery link, session, attachment to an account |
| `Guest_proofs` | its invariant: leases, proofs, links |
| `Transfer` | one ticket changing hands: initiation, one-time codes, acceptance, lapse |
| `Door` | extends `Transfer`: passes, the owner's page, scans, reversals, memberships, revocation by transfers and refunds |
| `Door_proofs` | the invariants of `Transfer` and `Door`; the second builds on the first |
| `Pricing` | the money of one cart from preview to the last refund |
| `Pricing_proofs` | what sums over sets are, and that the three sums of a cart agree for all amounts |
| `LockOrder` | the rows each transaction on priced carts locks, in order |
| `PromoBuyer` | a guest's tab that buys a priced cart, its storage, its calls and the server's handlers |
| `PromoBuyer_proofs` | what a tab and its calls know of a cart, and that an open cart can be found again |
| `OwnedBuyer` | the tabs and devices of signed-in buyers that reserve, start and recover a checkout |
| `OwnedBuyer_proofs` | what tabs, storage and calls know of keys, holds and attempts, for any number of tabs and devices |
| `MC...` | instances for TLC: symmetry and small sets |

`Checkout` is the database core; the other modules look at one part of the system more
closely than it does (call by call instead of transaction by transaction) and say at
their head what they leave to it. `Door` composes with `Transfer` by extension: the
transfer's actions run in it together with the trigger that revokes passes.

### Checkout: how it corresponds to the code

An action is one committed transaction. The functions lock the rows they decide
on (`FOR UPDATE`, advisory transaction locks) before they read them, and the
guards that run in triggers lock the hold they look at, so a transaction is one
step. A refusal, a replay or a raised exception changes no row: it is a
stuttering step. Operations that the server does as several calls are several
actions: creating an attempt, sending its POST (`DispatchRequest`) or dying before
it (`LoseDispatcher`); finalizing (`FinalizePaid`), storing the payment reference
(`RecordPaymentCorrelation`) and recording the delivery (`RecordPaidDelivery`).

* `sold[t]`, `tier[t]`: `ticket_types`. `is_active` also stands for the event
  being published; both are read together.
* `hold[h]`: `inventory_reservations`, by idempotency key. `owned` tells whether
  the row has an owner: only such a row can be linked to a payment.
* `quote[h]`, `redemption[h]`, `expiryRecord[h]`: the saved quote of cart `h`, the
  state of its promotion's redemption, and the kind of evidence it was released on.
* `attempt[a]`, `order[a]`, `ticket[<<a, k>>]`: an attempt, the order it was
  finalized into (with the refund terms snapshotted on its tickets) and its tickets.
* `dispatch[a]`: the one server process that may POST for `a`. Only the creator
  posts; every other request does read-only lookups, so nobody takes over from a
  `"lost"` owner.
* `session[a]`: the provider's truth. A request that entered the transport may
  open a session later or never; an open session is paid or expires.
* Evidence from the provider carries the instant `seen` it was obtained. It may be
  old when it is used; the functions accept it only if it is not older than five
  minutes and not before the hold's deadline. Whether it comes from a signed event
  or from a trusted GET makes no difference to the rows.

Not distinguished: owners, buyers, events, prices. Calls that name the wrong owner,
tier, quantity or amount are refused by every function, and a refused call is a
stuttering step. Not written by any function in the installed schema, and so not in
the model: attempt status `failed`. `ReleaseUnsentCart` exists for priced carts
only, as in the code: a full-price attempt whose POST was never sent stays pending.

### RefundCoordination: how it corresponds to the code

A refund is not a transaction: `coordinateTestRefund` makes a dozen calls and holds no
lock between them. Each call that writes, and each point where the process may
learn something, is an action, and `at[r]` is the place in that function. The model is of
one paid order; refunds of different orders share no row but the stock counter, which
`Checkout` models.

* `ledger[S]`: the row of `refund_coordination_attempts` for the selection `S`. The
  idempotency key is a digest of the payment and the sorted ticket ids, so a selection has one
  row. `reference` says whether `provider_refund_reference` is stored; `reason` is the
  `failure_reason`, with `refused` for `provider_failed` and `configuration`, and
  `provider_final` for the two reasons a recovery writes.
* `claim[t]`: `refund_ticket_claims`, inserted by the trigger of the ledger row, never deleted.
* `SetState` is the coordinator's UPDATE by id. It may fail, and it may commit while its
  answer is lost; either way the coordinator returns. `Transition` is the recovery's UPDATE,
  which demands the state it read; its answer may be lost too.
* `CallReversal` is `reverse_refunded_tickets`: one transaction, its idempotent replay, or a
  refusal; the caller may miss that it committed.
* `post[S]`, `refund[S]`: what the provider replied to the one POST, and the refund
  as the provider has it. A pending refund (also `requires_action`) settles later, or never.
  The coordinator may hear nothing although the refund exists (`HearNothing`): a timeout, a
  server error, or a reply that does not verify.
* `event`: a signed refund event is handled in two steps, the read with its decision and
  the guarded flag; between them anything may happen. The event is recorded after the flag,
  so it is delivered again when the flag, or the recording, fails. Two handlers of one
  event at one time are not distinguished from two events: both write the same guarded flag.
* `LoseCoordinator` and `LoseRecovery`: a process dies between any two calls. Any number of
  operators may recover the same row.
* `CheckInTicket`, `ReverseTicketCheckIn`: the part of the door's transactions that
  concerns a refunded ticket. Passes, staff authority and transfers are left to `Door`.

Left out: amounts and currencies (a mismatch is a refusal or an unverified reply),
read failures of the coordinator before its claim (it returns or is lost), and the facts of
order and attempt that are immutable once the order is paid.

### WebhookDelivery: how it corresponds to the code

The handler of `payment-webhook.ts` for one attempt, one action per call. `ledger[e]` is the row of
`payment_webhook_events` for event `e` (completed, async_paid, async_failed, expired), `job[h]` the place of
handler `h`: find the ledger row, load the attempt, reconcile or release an expiry, finalize a
payment or record it for review, store the payment reference (`correlate`), record the event,
dispatch the receipt, answer. `session` is the provider's truth, `acked` what was answered with
2xx: those events never come again. `attempt` has its kind, since quoted and full-price expiries are
reconciled differently. Handlers run at once, on one event or several, die between any two calls, and
calls fail or commit unheard; `MaxFaults` bounds all of this. `refLost` remembers a fault between
finalization and the reference. `ProviderPaidLate` is a payment after the release; it is what the
review is for. `ReleasedElsewhere` is every other path that closes an attempt. The switches for
quoted pricing, expiry recovery and guest recovery are on. `markWebhookEventStatus` is merged with
the insert it follows; attempts without an owned hold (the legacy path) are left out.

An expiry can be a no-op although its attempt is pending and due. The handler then records it as `ignored`
and answers 2xx, so it never comes again. Two clocks do this. `AheadOfTheClock`: the event was created after
what the server's clock says (`checkout.server.ts:199`; `quoted-expiry-dispatch.server.ts:57`, where it is asked
before the deadline is). `NotDueOrStale`: the database compares deadline and evidence with its own clock when it
has the locks (installer, lines 3381-3386), and evidence that was four minutes and some seconds old for the
server may be five for the database; `checkout.server.ts:260-271` makes a no-op of it. For a quoted
cart the database's refusal is an error instead, which the provider retries. `clockRefused` remembers that
a pending attempt met one of these. Its stock is then released by the owner's own check or a
later command only, and the two properties about expiries make that one exception. The other
refusals of the database (`mismatch`, `payment_protected`) need rows that contradict the attempt that was
just read, and a paid attempt is `completed` here.

* `LedgerTellsTruth`: a row never claims an effect that is not there, although handlers of one event
  race and each records only after its effect.
* `AcknowledgedIsSettled`: nothing is left to do for what the provider will not send again, but for an expiry
  that a clock refused (below).
* `ReferenceLostOnlyByFault`: `correlate` is a second call after finalization; another delivery that
  overtakes it finds the attempt completed and does not write it either.
* `PaidIsIssuedOrReviewed`, `ExpiredIsReleased` (liveness, see Fairness).
* `EarlyExpiryStaysRetryable` does not hold (see Findings).

### GuestDelivery: how it corresponds to the code

`row` is the row of `guest_purchase_deliveries`, `timer` its four deadlines (request cooldown, lease,
proof, recovery window), each of which is running or over. A worker is one server process; it
also names the lease and the proof its claim created, so a superseded worker is one whose name the
row no longer has. Claim, mail and acknowledgement are three calls; a worker may be slow, die, or
mail and not hear it. Browsers redeem a link (proof to session, once), lose and revoke sessions, and
attach the purchase to the account signed in; `link` is `guest_purchase_account_links`.
`MaxSends` is the cap of mails per hour (5 in the code), `MaxFaults` bounds faults. Not modelled: pages that
read status or passes, and the choice of the latest five carts of one email address.

* `LeaseExcludes` (action property): while a worker's lease runs nobody replaces its proof, so no link
  dies on its way to the buyer.
* `SentMeansMailed`: a late acknowledgement never calls sent a proof that has not gone out.
* `SavedIsSaved`: of two accounts that attach at once, the one that was told "saved" keeps it.
* `BuyerIsLetIn` (liveness): a lost claim, mail or acknowledgement delays the buyer by at most a lease.

### Transfer and Door: how they correspond to the code

`Transfer` has one ticket (`ticket`: owner, status, inside), the newest row of
`pending_ticket_transfers` (`transfer`) and requests that read that row in one call and decide on it in
the next (`request[r]`: what was read). Codes are random; the n-th code minted is the number n, and a
digest is equality. A code that was minted may be lost with its answer, so `known` (what a recipient
was shown) is smaller than `minted`. `TransferLapses` is the quarter hour; `AttendanceChanges`
stands for the door, `ReverseRefundedTickets` for a refund. The probe of the owner's own one-time code
is left out: nothing in a transfer depends on it.

`Door` extends it. `pass[p]` is a row of `ticket_pass_codes`; `TicketChanges` is an acceptance or a
refund, in one step with the trigger `revoke_ticket_passes_on_state_change`. `tab[t]` is the
controller of `owner-pass-client.ts`: signed-in account, the call it listens to (its epoch), the
pass it saw, the code it shows; `call[c]` is that request on the server, first the inspection, then the
replacement, which takes effect only if the active pass is the one that was inspected. `member[s]` is a
staff member's role at the event and whether they have another one; `scan[d]` is a check-in or a
reversal between finding the pass and getting the ticket's lock. After the lock, everything is one
transaction and one step.

* `CodesWithinCap`: requests that race for a code share the cap (the compare-and-set on token and count).
* `NewestCodeMoves` (action property): however long ago a code was verified, the ticket moves only on the
  newest code of a transfer that is open at that moment, to the recipient who was shown it.
* `OwnerIsTold`: owner and transfers tell one story; a ticket moves at most once.
* `PassIsOwners`: one code at most opens the door, and it was shown to nobody but the present owner.
* `InsideCanLeave`: who is inside can be let out; entries and exits alternate.
* `ShownToItsOwner`: a code on a screen is the signed-in account's, also when it arrived late.
* `AuthorizedEntry` (action property): the wait for the lock lets nobody in whose pass was revoked or whose
  staff lost the event, or won a second one, meanwhile.

### Pricing: how it corresponds to the code

One cart. The preview reads tier (`ReadTier`) and offer (`ReadOffer`) in two statements without
locks; organizers edit both at any time. `PreparePricedGuestCart` compares the revision the buyer saw, `BeginPricedGuestPayment`
recomputes the stored quote (`parseStoredPriceQuote`) and the line items, `FinalizePaid` compares the
amount, `ClaimRefund` asks `read_quoted_refund_amount` for a selection and `ReverseRefundedTickets`
recomputes it. A revision is an md5 of the terms in the code and the terms themselves
here. Allocation (largest remainder, ties by position) and the refund shares are the
code's integer arithmetic. `MinPaid` is not below `MaxQuantity` (50 and 10 in the code): that is what leaves
every ticket a cent. Left out: full-price totals, currencies, time stamps.

* `PaysWhatWasShown`, `RefundsMatchPayment`: never another total than the one shown, through two unlocked
  reads and edits back and forth; refunds of all tickets, in any order, use the payment up to the cent.

### LockOrder: how it corresponds to the code

`Locks(t)` is the list of row locks of each transaction on a priced cart, in the order of its
statements, with their modes (`FOR UPDATE`, `FOR SHARE`, and the `FOR KEY SHARE` a foreign key takes).
Transactions take them one by one; `Abort` is the database's deadlock detector. `SameOrder` says that no
two wait for each other (see Findings).

### PromoBuyer: how it corresponds to the code

One tab (`guest-promo-client.ts`), one tier. `page` is the controller: phase, reference, the run under
way and what it waits for; `saved` is sessionStorage; `call[s]` is a request, with its place in
`guest-promo.server.ts`. The server's steps (read, begin, context, POST, lookup, confirm, release) are separate
actions, and a page that times out, reloads or is left leaves them running. `cart` has the states the
outcomes depend on, `clock` the start window and the deadline, `session` the provider's session;
signed events act on both. `struck` remembers carts whose dispatcher was lost between begin and the
provider: nobody may send or release those. Assumed: the lookup over the provider's session list is
complete (it reads up to 3 pages of 100), browser and server agree on the time, and the tab keeps its
sessionStorage (a closed tab is what guest recovery is for). Other accounts' purchases are left out.

* `OpenIsSaved`: whatever is lost or late, a cart that may hold stock is the one storage leads back to, so no
  second cart is started over it.
* `CartIsClosed` (liveness): a buyer who stays is led out of every open cart, paid or released.

### OwnedBuyer: how it corresponds to the code

Tabs run `owned-checkout-client.ts`; sessionStorage is per tab and account; other devices of the
account appear by their calls (`Elsewhere`). A hold is named by its idempotency key. Calls are prepare,
start, resume, recover and discover, in the steps of their handlers
(`create-checkout-attempt.ts`, `owned-checkout-discovery.server.ts`,
`owned-expired-checkout.server.ts`). `wait` is the generation check: an answer nobody waits for is dropped.
`posts` counts requests sent to the provider for a hold. Simplified: the page refreshes at the expiry and not up to a
second later; discovery reads attempt and link at once; recovery's load, provider read and reload are
one step, since an expired session stays expired. Left out: version-1 attempts, malformed storage,
prices.

* `OneReservationPerTab`: the key that may have reserved is never replaced in its tab, through lost answers,
  reloads and changes of account (a device of which only the requests are seen may hold several).
* `OnePostPerHold`: two devices that both saw no attempt still send one request.
* `ShownIsOwn`: redirect and release on a page are those of its account's hold.
* `StartIsRemembered`: a start that a tab has sent (`starts`, a history of them) is in the tab's storage, and its
  page shows it as started whenever the account's checkout is on it: storage is written before the request
  leaves, and no slow inspection, reload or change of account turns a started checkout into a fresh one.

What the model made plain about the code, as designed: after a lost prepare answer, the found hold blocks
the page for review by an operator; an account with two holds stays in review; a hold that a
signed event released is not claimed by the owner's recovery.

## Properties of Checkout

* `StockConserved`: whatever the order of the nine writers, `quantity_sold` equals
  the tickets of all active holds less the refunded tickets.
* `NeverOversold`, `CounterCoversReleases`: capacity is respected while organizers
  lower it, and `inventory_counter_invariant_violation` cannot be raised.
* `LiveAttemptKeepsHold`, `AbandonedIsUnpayable`, `PaidCanBeIssued`: the three sides of
  the race between payment and cleanup.
* `PromotionWithinLimit`, `RedemptionFollowsPurchase`, `QuotedReleaseRecorded`,
  `QuoteBindsAttempt`: codes, quotes and the evidence of releases.
* `ClosedRowsStayClosed` (action property): no late or repeated call reopens or
  rewrites what is closed; the owner's audit row appears only with the release.
* `KeepsSalePromise`: refinement of `SalePromise`. A hold is a sale and its units are seats. Seats
  are kept only within the capacity (counted one by one, not by `quantity_sold`), they are let go of only if
  nobody paid for them, nobody pays for a sale that was let go of, a paid sale is delivered with all
  its seats, and a delivered one gives seats back only by a reversal. The stage of a sale is read off
  the provider's session first and the rows second (`StageOf`), so a release behind the back of a payment
  shows up as seats that vanish from a paid sale.
* `TypeOK` is proved (`TypeCorrect`) and not part of a run.

## Properties of RefundCoordination

* `OneCoordinatorPerTicket`: overlapping selections have different idempotency keys; only
  the claims keep them apart.
* `RefundedIsReversible`: whatever the provider has paid back, or still may, is refundable,
  its tickets are issued and in no other reversal; only a guest who is inside with one of
  them stands in the way of the reversal.
* `LedgerTellsTruth`: `failed` means that no money moved or will, `provider_refunded` that it
  did, `reversed` that the tickets are void, a reference that the refund exists.
* `ClosedRefundsStayClosed` (action property): three writers, one of them unguarded, and no
  closed row is reopened. The one exception is in the code: a coordinator that did not see
  its own reversal commit flags a row that a recovery has closed meanwhile.
* `KeepsPromise`: refinement of `RefundPromise`. A selection is claimed for good before money
  moves, claims are disjoint, money goes back at most once for a selection, and its tickets
  are taken back all at once, only after the money and only while nobody is inside.
* `UnreversedIsFlagged` is what `refund-coordinator.server.ts:18` says; it does not hold (see
  Findings).

## Runs

| Run | Instance | Shows |
|---|---|---|
| `checkout` | 1 tier of capacity 2, 2 holds, 2 attempts, 1 code with limit 1 or 2, quantities 1..2, owned holds live 2 ticks, start window 2, evidence fresh for 1 tick, clock to 3 (2.3 million states) | all properties of `Checkout` but `TypeOK`, with both carts competing for stock and code |
| `refund` | 2 tickets, 2 requests, 2 operators, 1 event per refund (543,000) | all properties of `RefundCoordination` but the one below |
| `refund_unflagged` | 1 ticket, 1 request, nobody else | violates `UnreversedIsFlagged` |
| `webhook` | 2 handlers, 2 faults, 4 events, both kinds of attempt (117,000) | safety of deliveries, and liveness |
| `webhook_unread` | 1 handler, whose read of the attempt may fail | violates `EarlyExpiryStaysRetryable` |
| `guest` | 2 workers, 2 browsers, 2 accounts, 2 mails, 2 faults (869,000) | safety of receipts, and liveness |
| `transfer` | 3 accounts, 2 requests, 3 codes, 2 transfers (234,000) | the three properties of `Transfer` |
| `door` | 2 accounts, 1 transfer request, 1 tab with 2 calls, 1 device, 1 staff member, 2 passes, 2 entries (3.2 million) | the four properties of `Door` |
| `buyer` | 2 carts, 2 calls, 2 faults (740,000) | safety of the guest's tab, and liveness |
| `lock_order` | 2 carts of one tier with one code | violates `SameOrder` |
| `pricing` | prices 4, 5, 9; discounts of 3 or 14 cents or 1, 3, 5, 8 eighths; up to 4 tickets; least total 4, greatest 35; 2 edits of the offer (176,000) | both properties of `Pricing` |
| `owned` | 1 tab, 1 other device, 2 accounts, 2 keys, 3 call slots, 1 fault (9.1 million) | the four properties of `OwnedBuyer` |

Why the bounds are enough to meet the hazards.

* `checkout`: two carts exceed a capacity of 2 and a limit of 1; quantity 2 makes partial refunds and a
  two-row sweep possible; a hold made at instant 0 is due at 2, evidence seen at 2 is fresh at 3 and
  evidence seen before the deadline is offered too; two attempts let a second checkout try the same
  hold. Several tiers are covered by the proofs about stock, which are for any number of them.
  `MaxCapacity` and `MaxLimit` bound what organizers set, `MaxTime` the clock.
* `refund`: two tickets give three selections, two of which overlap a third; two requests race on one
  selection, on overlapping ones or on disjoint ones; two operators race each other and the coordinator.
* `webhook`: two handlers race on one event or on two; two faults let a redelivery fail again. How far the clocks are
  apart is not bounded: either may refuse an expiry whenever the code compares them.
* `guest`: two workers are a superseded and a superseding one; the second mail is the one that follows a
  lost first.
* `transfer`: two requests race for codes and acceptance; two transfers let one lapse and be replaced; three
  accounts tell the recipient of the old from that of the new. `door` has one transfer and one code only
  (their races are `transfer`'s), and two passes, so that every scan can be overtaken by a replacement.
* `buyer`: a second cart is what must not be started over the first; a second call is one the page no
  longer waits for; two faults are a lost answer and a lost process.
* `owned`: tab and device share the second key, so both the race for one hold and the account with two
  holds happen.
* `pricing`: prices, discounts and the least total keep the proportions of the code: discounts above the
  price, remainders at every quantity, totals just at and below the least and above the greatest one.

Deadlock is not checked where the system may rest or a bound stops it: clocks that have stopped
(`checkout`), every refund closed (`refund`), a void ticket with no transfer left (`transfer`), keys or
cart ids used up (`buyer`, `owned`), nothing left to send (`guest`), all carts closed (`lock_order`). Ids that are
interchangeable are symmetric; no run with a liveness property uses symmetry. Every property has
a mutant of the code under which its run fails (`PROJECT.json`).

## Fairness

* `WebhookDelivery`: time passes; a handler that is not killed goes on (weak fairness of its calls); the
  provider delivers an event again until it is acknowledged (strong fairness: Stripe retries what is not
  answered with 2xx). Faults are finitely many.
* `GuestDelivery`: deadlines pass, live workers go on; a buyer who is not in asks for a link again
  whenever the page allows it and opens a fresh one (strong fairness, since both are enabled only
  between deadlines). The mail itself may be lost a bounded number of times.
* `PromoBuyer`: time passes, live processes go on, the provider expires what is not paid and its paid event
  arrives; the session comes back, the buyer returns to the saved purchase and takes what the
  page offers. None is assumed for the signed expiry: the buyer's own path must close the cart.
* No other module states fairness. The repository deploys no scheduler for the database sweeps, and
  nothing obliges a coordinator, an operator or a ticket owner to go on.

## Findings

`refund_unflagged`: the coordinator's header says that a refund which the provider made
and the coordinator could not reverse is left in `reconciliation_needed`. When the UPDATE
that records the provider's success fails, the coordinator returns the *outcome*
`reconciliation_needed` (line 342), and a failed UPDATE to `reconciliation_needed` is ignored
(line 321); in both cases the *row* stays `pending` without a reference. The recovery needs
the reference, and a refund event that finds a pending row leaves it to its coordinator, so
nothing ever flags it, and the claims keep a second refund from being tried.

`webhook_unread`: `loadCheckoutAttemptStatus` answers `null` for a read that failed as well as for an
unknown attempt, and the decision made of it is a no-op: an expiry is recorded as `ignored` and
acknowledged (`payment-webhook.ts:197`) although its attempt is pending, so it never comes again; the
comment at `checkout.server.ts:189` wants a too-early delivery kept retryable. The owner's expiry check still
returns the stock.

`lock_order`: the comment in `release_priced_guest_cart` (installer, line 5213) says that locks are taken in
the order of issuance. Issuance takes the promotion before its inserts lock the tier
through a foreign key (and so does the start of a payment); the release takes the tier first. The database
then aborts one of the two, which the callers treat as a failed call: nothing is lost, but the order is
not the one that is documented.

## Proofs

`Checkout_proofs` proves, for every number of tiers, holds, attempts and promotions
and all values of the bounds:

* `TypeCorrect`: `Spec => []TypeOK`.
* `PaymentInvariant`: `Spec => []PayInv`. `LiveAttemptKeepsHold`, `AbandonedIsUnpayable`
  and `PaidCanBeIssued` are not inductive alone. `PayInv` adds: a hold has at most one
  attempt (`OneAttemptPerHold`; without it, releasing the hold for one attempt could
  hurt another), a session exists only after its request was sent
  (`SessionAfterRequest`; without it, an abandoned attempt could still be paid), a quote
  and its attempt belong together (`QuoteBindsAttempt`), and a pending quoted attempt
  still has its reserved use (`PendingReserved`; without it, finalization could raise
  `promotion_not_consumable`).
* `LiveAttemptsKeepTheirHold`, `QuotesBindAttempts`, `AbandonedNeverCharged`,
  `PaidAlwaysIssuable` follow from `PayInv`.

The proof has one lemma per group of actions. Most steps touch one hold or one attempt;
the lemmas `PayFrame` and `PayOneHold` say once what such a step leaves alone.

It goes on with `StockInvariant`: `Spec => []StockInv`, where `StockInv` is `PayInv`,
`StockConserved` and `TicketRows` (an order has exactly the tickets of its hold, and only
a completed attempt has any). It follows the set of units kept by active holds: a step
leaves it alone, adds the units of one new hold, or removes those of holds that close,
and the counter moves by the cardinality of the difference. From it:

* `StockAlwaysConserved` and `CounterAlwaysCovers`: the counter is exact, hence
  never smaller than what a release returns.
* `NeverSoldTwice`: the counter stays within the capacity (`WithinCapacity`), and issued
  tickets and open holds are in bijection with the units the counter counts.

`CartInvariant`, `Spec => []CartInv`, is about priced carts. `RedemptionFollowsPurchase` and
`QuotedReleaseRecorded` are not inductive: a step that settles or releases a use must find it in the state that
the hold and the attempt imply, so `CartInv` adds to the stock invariant that a quoted hold is confirmed or
released and nothing else, with a record exactly in the second case (`RecordedCart`), that its use follows the hold and
the payment (`SettledCart`), and that a hold without a quote has neither a use nor a record (`BlankCart`). From it:

* `RedemptionsFollow` and `QuotedReleasesRecorded`: no sequence of preparation, payment, finalization and the
  release paths leaves a use reserved for a closed cart or a release without its evidence;
* `CodesStayWithinLimit`: the number of uses grows only in the step that compared it with the limit, under the
  promotion's lock; organizers cannot save a limit below it. The step adds one element to a finite set, so the
  argument is about its cardinality;
* `ClosedStaysClosed`: the action property, action by action.

`CheckoutKeepsSalePromise`, `Spec => KeepsSalePromise`, first sorts the steps of `Checkout` by what they are for a sale
(`SaleStep`): nothing, opening a hold, closing holds, a payment, an issue, a reversal, a new capacity. Then one
lemma per kind maps it to its step of `SalePromise`, or to none. Three facts carry it:

* the seats taken of a tier are as many as `quantity_sold` says (`TakenIsSold`): a unit of an active hold is a seat, or
  came back with exactly one voided ticket, which is a bijection because a hold has one attempt;
* whoever paid is the only attempt of a hold, and the hold is confirmed (`PayerKeepsHold`), so a hold that closes has no
  payer and a payment finds its hold open;
* only a paid session completes an attempt (`CompletedIsPaid`), so a delivery follows the payment.

`Refund_proofs` proves, for any set of tickets and any number of requests, operators and
events, without assumptions, `RefundInvariant`: `Spec => []RInv`. `RInv` adds to the checked properties:
a known selection holds the claims of its tickets (`ClaimRows`), what a coordinator and an
operator may rely on at each place (`Places`, `Recoveries`), that the refund is that of the one
POST (`Posts`), and that exactly the tickets of reversed refunds are void (`Reversals`). The
heart of it is ownership: known selections are disjoint, so a coordinator past its claims is
alone on its row until it has heard the provider (everybody else writes a row only when its
state is neither absent nor pending, lemma `GuardedWrite`), and its unguarded UPDATE
(`SetStateKeeps`) can only meet rows that a recovery has moved forward. From it:

* `ClaimsExclude`, `PaidIsReversible`, `LedgerIsTrue`, and `ClosedRefundsAreFinal`, which needs from
  the invariant that a row whose provider paid is not `failed`;
* `RefundKeepsPromise`: `Spec => KeepsPromise`. A claim maps to `Claim`, the provider's success to
  `PayBack`, a committed reversal (of the coordinator or of a recovery) to `TakeBack`, the door to
  `Enter` and `Leave`, and everything else to a stuttering step (lemma `OthersStutter`).

Assumptions of the proofs about `Checkout`: its named ASSUMEs (finite tables, quantities and
durations are natural numbers, a start window not longer than a hold's life, the
markers for "no code" and "no quote" are not promotions).

`Webhook_proofs` proves, for any number of handlers and faults, `WebhookInvariant`: `Spec => []WebInv`.
`WebInv` adds to the three safety properties what each handler relies on at its place (`Relies`) and facts of
the rows alone (`RowFacts`): a payment that was sent is paid, an order that is completed has its receipt
queued. The argument is that rows only move forward (`Forward`: a closed attempt stays closed,
a terminal ledger row terminal, a tried receipt tried), so what one handler relies on is never undone by another;
each handler's own call is checked against its place. A no-op of a pending attempt is the one decision that
settles nothing: it sets `clockRefused`, which never goes back, and what is said of an acknowledged expiry
is said up to it. From this `WebhookTypeCorrect`, `LedgerAlwaysTrue`,
`ReferencesLostOnlyByFault`, and `AcknowledgedAlwaysSettled`, which assumes that attempts can be read
(`~AttemptReadFails`); without that the run `webhook_unread` is its counterexample.

`Guest_proofs` proves `GuestInvariant`, which adds that a running lease belongs to a row that is being
sent (`LeaseIsSending`, so nothing is claimable then) and that a worker which acknowledges under the
row's lease did mail (`AcknowledgedIsMailed`). From it `GuestTypeCorrect`, `SentAlwaysMeansMailed`,
`SavedStaysSaved` and the action property `LeasesExclude`. It assumes that the value "nobody" is neither a worker nor an
account, and that the bounds are natural numbers.

`Door_proofs` proves `TransferInvariant`, which adds what a request read before it decides
(`WhatRequestsRead`: a rotation read a count below the cap, an acceptance verified a code its recipient
was shown), and from it `CodesNeverExceedCap`, `OwnerAlwaysTold` and the action property
`OnlyNewestCodeMoves`. It then proves, of the larger specification `DoorSpec`, `DoorInvariant`, which contains the transfer's invariant, so each
of its steps is a step of the transfer, a change of the ticket with the revocation, or a step of the page or the door;
it adds that a tab listens to a call of its own account, that what a call brings back was minted for
its account, and so is what a screen shows (`PageInv`). From it `DoorTypeCorrect`, `PassAlwaysOwners`,
`InsideCanAlwaysLeave`, `AlwaysShownToItsOwner` and `EntriesAreAuthorized`. They assume natural bounds and
that "no call" is not a call.

`Pricing_proofs` proves `MoneyInvariant`: `Spec => []MoneyInv`, for all prices, discounts, quantities and limits that
satisfy `MoneyAssumption`. `MoneyInv` adds that the total on the screen is that of the terms its revision names
(`ShownIsPriced`), that a saved quote is computed from payable terms (`QuoteIsPayable`), and that refunds ask for what their
own tickets cost and share none (`RefundRows`). What is hard is not the steps but the sums, which are recursive
functions over the subsets of a set. The library's induction theorems cannot be instantiated with these
provers, so the induction is written out: if a law failed, a smallest part of the set would break it
(`SmallestSubset`, from the well-foundedness of strict inclusion), and one element less gives a contradiction. In
this way the module proves that the recursive function exists and is unique (`AddsExists`, `AddsAgree`), that the
order of the elements does not matter (`SumStep`), that disjoint parts add up (`SumUnion`), and with these

* `SharesAddUp`: the shares of the tickets are the total, whatever cents do not divide, and each is at least one
  cent and at most the price (`ShareOfTicket`), because the least total is not below the largest quantity;
* `LineItemsAddUp`: grouping the tickets by share into line items leaves the amount as it was;
* `RefundsAddUp`: refunds of disjoint selections ask together for what their tickets cost.

From these, `PaysTheShownTotal` and `RefundsAddUpToPayment`, for all amounts.

`PromoBuyer_proofs` proves `PageAgreesWithServer`: `Spec => []Inv`. `OpenIsSaved` compares the server's carts with the
storage of the tab, so the invariant has to say what every call and the page know of a cart at each place
(`PageKnows`, `AwaitedIsOwn`), that only carts the page drew are known to the server (`OnlyDrawn`), that a cart is prepared
once (`PreparedOnce`), and where an open cart can be (`OpenIsHere`). Calls that the page no longer waits for
are the reason: they go on, and must not open a cart that the storage has forgotten. `OpenCartIsSaved` follows.

`OwnedBuyer_proofs` proves `TabsKnowTheirHolds`: `Spec => []Inv`, for any number of tabs, devices, accounts and calls. `Inv`
says what a call knows at each place (`CallKnows`), that the one call between the insert of an attempt and its
request to the provider is alone there (`PostOnce`), what a tab shows and stores of the key, the hold and the attempt
(`TabKnows`, `StorageKnows`), that whoever reserved under a key, or may still, has it in its storage
(`ReservedIsSaved`), and that the call a tab waits for is about what the tab shows now (`AwaitedIsOwn`). From it `OneReservation`, `HoldIsPostedOnce`, `TabShowsItsOwn` and
`StartStaysRemembered`, which needs beside `Inv` that every start was sent by a tab whose storage says so
(`StartsSaved`): the storage is written in the step before, and no later write of it forgets. The proof showed that the first of these is about tabs: a device
without storage of ours (`Elsewhere`) may reserve with several keys, and the property says so.

Assumptions of these three: `MoneyAssumption` (amounts are natural numbers, a percentage is part of `Scale`, the
least total, 50 in the code, is not below the largest quantity, 10), and in `PromoBuyer` and `OwnedBuyer` that the
markers for "nothing" are none of the values they stand in for (`Apart`, `Nothing`).

## Only model-checked

* Liveness (`PaidIsIssuedOrReviewed`, `ExpiredIsReleased`, `BuyerIsLetIn`, `CartIsClosed`): fairness is out
  of the prover's reach.
* `SameOrder` of `LockOrder`, the late flag of `RefundCoordination` and the unread attempt of `WebhookDelivery` are
  counterexamples, which only a run can show.

Every invariant and every action property of the passing runs is a theorem.

## Not modelled, and why

* User interface (JSX, formatting) and read-only cores (reporting, classification, policies): they
  keep no state, and every decision is taken again by the server.
* Version-1 attempts: the legacy `abandon_expired_checkout_attempt` of the installer releases them; every attempt
  in the models is of version 2.
* Installers, migrations, snapshots and harnesses: they produce the schema that is modelled. About a quarter of
  the repository's lines are such SQL, generated types or vendored components.
* Controllers of the organizer's pages (support, workspace, promotions, setup), of the guest's recovery and
  confirmation pages and of the account panel: the server decides again what they ask for, and their races (an
  answer that arrives after the page or the account changed) are of the kind that `Door` and `OwnedBuyer`
  model. They are the first candidates for an extension.
* The owner's one-time-code probe (`send-transfer-otp`, `verify-transfer-otp`): its outcome gates nothing in
  a transfer.
* The front of the refund command (authorization, an early eligibility read): the coordinator decides
  again, and `RefundCoordination` lets a request begin at any time.
* Logging, response shaping and request parsing (a refused request changes no row); mail and payment
  transports, which appear by what the code may see of them.
* In `LockOrder`, transfers: an acceptance locks transfer then ticket, an initiation ticket then lapsed
  transfers; the two meet only when an acceptance that started before the deadline is overtaken by an
  initiation after it, and the database aborts one.

## Plan

1. `Checkout` with `SalePromise`, `RefundCoordination`, `WebhookDelivery`, `GuestDelivery`, `Transfer`, `Door`, `Pricing`,
   `LockOrder`, `PromoBuyer` and `OwnedBuyer` (done), with the proofs listed above.
2. The controllers of the organizer's and the recovery pages.
3. A refinement of `RefundCoordination`'s reversal to that of `Checkout`, which are two views of one function.
