------------------------------ MODULE Checkout ------------------------------
(* The ticket stock, the holds on it, the checkout attempts that pay for a   *)
(* hold, the priced guest carts with their promotions, and the tickets that  *)
(* a paid attempt issues: the PL/pgSQL core of the application, as the 51    *)
(* ordered steps of scripts/promotion-install.review.sql leave it (the last  *)
(* definition of a function is the one that counts).                         *)
(*                                                                           *)
(* Every action is one committed transaction of one function or trigger set. *)
(* The functions lock the rows they decide on (FOR UPDATE, advisory locks)   *)
(* before they read them, so a transaction is one step.  A refusal, a replay *)
(* or a raised exception changes no row and is a stuttering step.            *)
(*                                                                           *)
(* A hold is named by its idempotency key, which is also the cart id of a    *)
(* guest cart.  Owners, buyers, events and prices are not distinguished:     *)
(* calls that name the wrong owner, tier, quantity or amount are refused.    *)
EXTENDS Integers, FiniteSets

CONSTANTS Tiers,          \* ticket_types rows
          Holds,          \* idempotency keys of inventory_reservations rows
          Attempts,       \* ids of checkout_attempts rows
          Promotions,     \* ticket_promotions rows
          NoPromotion,    \* a quote without a code
          MaxQty,         \* tickets in one purchase (10 in the source)
          HoldLife,       \* life of an owned hold (35 minutes)
          StartWindow,    \* least time left to start a payment (1816 seconds)
          FreshFor,       \* age at which provider evidence is stale (5 minutes)
          MaxTime,        \* bound: the clock stops here
          MaxCapacity,    \* bound: largest quantity_total an organizer sets
          MaxLimit        \* bound: largest max_redemptions an organizer sets

NoQuote == "unquoted"    \* a hold without a saved quote

ASSUME FiniteRows == IsFiniteSet(Holds) /\ IsFiniteSet(Attempts)
ASSUME Amounts == /\ MaxQty \in Nat \ {0}
                  /\ MaxTime \in Nat /\ MaxCapacity \in Nat /\ FreshFor \in Nat
                  /\ MaxLimit \in Nat \ {0}
ASSUME Deadlines == /\ HoldLife \in Nat /\ StartWindow \in Nat
                    /\ 0 < StartWindow /\ StartWindow <= HoldLife
ASSUME NoCode == NoPromotion \notin Promotions /\ NoQuote \notin Promotions \union {NoPromotion}

VARIABLES
    now,           \* clock_timestamp()
    tier,          \* ticket_types: quantity_total, is_active (and its event published)
    sold,          \* ticket_types.quantity_sold
    hold,          \* inventory_reservations
    quote,         \* ticket_price_quotes, by cart: its promotion
    redemption,    \* promotion_redemptions.state, by cart
    expiryRecord,  \* ticket_quote_expiry_records.evidence_kind, by cart
    offer,         \* ticket_promotions: may be used now, max_redemptions
    attempt,       \* checkout_attempts
    audited,       \* checkout_expiry_recoveries
    order,         \* orders, by the attempt they came from: terms of the tickets
    ticket,        \* tickets.status, by attempt and ordinal
    paidDelivery,  \* attempts with a processed paid payment_webhook_events row
    dispatch,      \* the server process that owns the POST to the provider
    session        \* the provider's truth about the attempt's session

rows     == <<tier, sold, hold>>
carts    == <<quote, redemption, expiryRecord, offer>>
payments == <<attempt, audited, order, ticket, paidDelivery>>
provider == <<dispatch, session>>
vars     == <<now, rows, carts, payments, provider>>

-----------------------------------------------------------------------------
NoHold    == [status |-> "absent"]
NoAttempt == [status |-> "absent"]

HoldRow == [status   : {"held", "confirmed", "released", "expired", "refunded"},
            tier     : Tiers,
            quantity : 1..MaxQty,
            owned    : BOOLEAN,
            expires  : Nat]

AttemptRow == [status : {"pending", "completed", "abandoned"},
               hold   : Holds,
               quoted : BOOLEAN,
               intent : BOOLEAN]

EvidenceKinds == {"never_started", "start_window_closed",
                  "request_never_sent", "test_expired_unpaid_null_intent"}

Ordinals == 1..MaxQty

Absent(h)       == hold[h].status = "absent"
Due(h)          == hold[h].expires <= now
Confirmed(h)    == hold[h].status = "confirmed"
Quoted(h)       == quote[h] # NoQuote
TimeLeft(h)     == hold[h].expires - now
LinkedTo(h)     == {a \in Attempts : attempt[a].status # "absent" /\ attempt[a].hold = h}
Completed(a)    == attempt[a].status = "completed"
TiersOf(D)      == {hold[h].tier : h \in D}

\* Rows of promotion_redemptions that count against max_redemptions.
Uses(p) == {h \in Holds : quote[h] = p /\ redemption[h] \in {"reserved", "consumed"}}

\* One element per ticket that the holds in D keep of tier t.
UnitsOf(D, t) == {u \in D \X Ordinals : hold[u[1]].tier = t /\ u[2] <= hold[u[1]].quantity}
ActiveHolds   == {h \in Holds : hold[h].status \in {"held", "confirmed"}}
HeldUnits(t)  == UnitsOf(ActiveHolds, t)

\* Tickets of tier t in a given state.
TicketsIn(t, s) == {k \in Attempts \X Ordinals :
                       /\ ticket[k] = s
                       /\ attempt[k[1]].status # "absent"
                       /\ hold[attempt[k[1]].hold].tier = t}

-----------------------------------------------------------------------------
Init ==
    /\ now = 0
    /\ tier = [t \in Tiers |-> [total |-> MaxCapacity, active |-> TRUE]]
    /\ sold = [t \in Tiers |-> 0]
    /\ hold = [h \in Holds |-> NoHold]
    /\ quote = [h \in Holds |-> NoQuote]
    /\ redemption = [h \in Holds |-> "none"]
    /\ expiryRecord = [h \in Holds |-> "none"]
    /\ offer = [p \in Promotions |-> [open |-> FALSE, max |-> 1]]
    /\ attempt = [a \in Attempts |-> NoAttempt]
    /\ audited = {}
    /\ order = [a \in Attempts |-> "none"]
    /\ ticket = [k \in Attempts \X Ordinals |-> "none"]
    /\ paidDelivery = {}
    /\ dispatch = [a \in Attempts |-> "idle"]
    /\ session = [a \in Attempts |-> "none"]

Tick == /\ now < MaxTime
        /\ now' = now + 1
        /\ UNCHANGED <<rows, carts, payments, provider>>

-----------------------------------------------------------------------------
(* Stock and the four legacy functions on holds that are not confirmed yet.  *)

TakeStock(t, q) ==
    /\ tier[t].active
    /\ sold[t] + q <= tier[t].total
    /\ sold' = [sold EXCEPT ![t] = @ + q]

\* A counter below the quantity raises inventory_counter_invariant_violation.
ReturnStock(t, q) ==
    /\ sold[t] >= q
    /\ sold' = [sold EXCEPT ![t] = @ - q]

NewHold(t, q, status, owned, life) ==
    [status |-> status, tier |-> t, quantity |-> q, owned |-> owned, expires |-> now + life]

\* owned: reserve_owned_ticket_inventory, else reserve_ticket_inventory.
ReserveInventory(h, t, q, owned, life) ==
    /\ Absent(h)
    /\ life > 0
    /\ TakeStock(t, q)
    /\ hold' = [hold EXCEPT ![h] = NewHold(t, q, "held", owned, life)]
    /\ UNCHANGED <<now, tier, carts, payments, provider>>

\* Mutant: also reopens a row that a sweep has expired.
ConfirmInventoryAgain(h) ==
    /\ hold[h].status \in {"held", "expired"}
    /\ hold' = [hold EXCEPT ![h].status = "confirmed"]
    /\ UNCHANGED <<now, tier, sold, carts, payments, provider>>

\* The deadline is not read: a held row past it can still be confirmed.
ConfirmInventory(h) ==
    /\ hold[h].status = "held"
    /\ hold' = [hold EXCEPT ![h].status = "confirmed"]
    /\ UNCHANGED <<now, tier, sold, carts, payments, provider>>

ReleaseInventory(h, reason) ==
    /\ hold[h].status = "held"
    /\ ReturnStock(hold[h].tier, hold[h].quantity)
    /\ hold' = [hold EXCEPT ![h].status = reason]
    /\ UNCHANGED <<now, tier, carts, payments, provider>>

\* One sweep closes the due rows it could lock (SKIP LOCKED), all or none.
ExpireInventory(D) ==
    /\ D # {}
    /\ \A h \in D : hold[h].status = "held" /\ Due(h)
    /\ \A t \in TiersOf(D) : sold[t] >= Cardinality(UnitsOf(D, t))
    /\ sold' = [t \in Tiers |-> IF t \in TiersOf(D)
                                THEN sold[t] - Cardinality(UnitsOf(D, t)) ELSE sold[t]]
    /\ hold' = [h \in Holds |-> IF h \in D THEN [hold[h] EXCEPT !.status = "expired"]
                                           ELSE hold[h]]
    /\ UNCHANGED <<now, tier, carts, payments, provider>>

-----------------------------------------------------------------------------
(* Owned holds and priced guest carts.                                       *)

\* The caller's own hold on the same tickets, still inside its deadline.
Resumable(h, t, q) ==
    /\ hold[h].status \in {"held", "confirmed"}
    /\ hold[h].owned /\ hold[h].tier = t /\ hold[h].quantity = q
    /\ ~Due(h)
    /\ tier[t].active

\* prepare_owned_ticket_reservation: a new hold, or the one of an earlier call
\* with the deadline it had.  Either way it is confirmed when this commits.
HoldReady(h, t, q) ==
    \/ /\ Absent(h)
       /\ TakeStock(t, q)
       /\ hold' = [hold EXCEPT ![h] = NewHold(t, q, "confirmed", TRUE, HoldLife)]
    \/ /\ Resumable(h, t, q)
       /\ hold' = [hold EXCEPT ![h].status = "confirmed"]
       /\ UNCHANGED sold

\* A guest cart is one immutable purchase intent, whose id is the key of its hold.
CartReady(h, t, q) == HoldReady(h, t, q)

PrepareOwned(h, t, q) ==
    /\ HoldReady(h, t, q)
    /\ UNCHANGED <<now, tier, carts, payments, provider>>

PromotionUsable(p) ==
    p \in Promotions => offer[p].open /\ Cardinality(Uses(p)) < offer[p].max

\* Mutant: prices a hold without looking for an attempt on it.
SaveQuoteAnyway(h, p) ==
    /\ ~Quoted(h)
    /\ PromotionUsable(p)
    /\ quote' = [quote EXCEPT ![h] = p]
    /\ redemption' = [redemption EXCEPT ![h] = IF p = NoPromotion THEN "none" ELSE "reserved"]

\* A quote is saved once, before the hold has any attempt, with one use of its
\* code reserved.
SaveQuote(h, p) ==
    /\ ~Quoted(h)
    /\ PromotionUsable(p)
    /\ LinkedTo(h) = {}
    /\ quote' = [quote EXCEPT ![h] = p]
    /\ redemption' = [redemption EXCEPT ![h] = IF p = NoPromotion THEN "none" ELSE "reserved"]

\* A cart may be priced when it is made, or later on the hold it already has.
\* A refused code rolls the cart, the hold and the quota back together.
PreparePricedCart(h, t, q, p) ==
    /\ CartReady(h, t, q)
    /\ SaveQuote(h, p)
    /\ UNCHANGED <<now, tier, expiryRecord, offer, payments, provider>>

SettlePromotion(h, state) ==
    /\ redemption[h] = "reserved"
    /\ redemption' = [redemption EXCEPT ![h] = state]

-----------------------------------------------------------------------------
(* Starting a payment.  Every insert into checkout_attempts passes the same  *)
(* trigger guards and unique index, whichever function asks for it.          *)

\* guard_checkout_reservation_owner: only a live, owned, confirmed hold.
LinkableHold(h) == Confirmed(h) /\ hold[h].owned /\ ~Due(h)

\* guard_checkout_provider_deadline: time for the shortest provider session.
StartInTime(h) == TimeLeft(h) >= StartWindow

\* guard_checkout_price_quote: an attempt on a priced cart pays its quote, with
\* its code still reserved; a hold without a quote takes full-price attempts.
PriceMatches(h, quoted) ==
    /\ quoted <=> Quoted(h)
    /\ quote[h] \in Promotions => redemption[h] = "reserved"

\* One attempt in any state fills the hold (nothing sets the status failed).
InsertAttempt(a, h, quoted) ==
    /\ attempt[a].status = "absent"
    /\ LinkedTo(h) = {}
    /\ LinkableHold(h) /\ StartInTime(h) /\ PriceMatches(h, quoted)
    /\ attempt' = [attempt EXCEPT ![a] =
           [status |-> "pending", hold |-> h, quoted |-> quoted, intent |-> FALSE]]
    /\ dispatch' = [dispatch EXCEPT ![a] = "owner"]
    /\ UNCHANGED <<now, rows, carts, audited, order, ticket, paidDelivery, session>>

InsertLinkedCheckoutAttempt(a, h) == InsertAttempt(a, h, FALSE)
BeginPricedPayment(a, h)          == InsertAttempt(a, h, TRUE)

-----------------------------------------------------------------------------
(* The process that created the attempt owns the only POST; the provider.    *)

DispatchRequest(a) ==
    /\ dispatch[a] = "owner"
    /\ dispatch' = [dispatch EXCEPT ![a] = "sent"]
    /\ UNCHANGED <<now, rows, carts, payments, session>>

\* The owner dies, or never learns that its insert committed.
LoseDispatcher(a) ==
    /\ dispatch[a] = "owner"
    /\ dispatch' = [dispatch EXCEPT ![a] = "lost"]
    /\ UNCHANGED <<now, rows, carts, payments, session>>

SetSession(a, from, to) ==
    /\ session[a] = from
    /\ session' = [session EXCEPT ![a] = to]
    /\ UNCHANGED <<now, rows, carts, payments, dispatch>>

\* A request that entered the transport may arrive late, or never.
ProviderOpens(a)   == /\ dispatch[a] = "sent" /\ ~Due(attempt[a].hold)
                      /\ SetSession(a, "none", "open")
ProviderIsPaid(a)  == SetSession(a, "open", "paid")
ProviderExpires(a) == /\ attempt[a].status # "absent" /\ Due(attempt[a].hold)
                      /\ SetSession(a, "open", "expired")

-----------------------------------------------------------------------------
(* Paid outcome.                                                             *)

\* refundable is what ticket_types.is_refundable says at this moment.  The
\* deadline of the hold is not read: a late delivery still issues.
FinalizePaid(a, refundable) ==
    LET h == attempt[a].hold IN
    /\ session[a] = "paid"
    /\ attempt[a].status = "pending"
    /\ Confirmed(h)
    /\ IF attempt[a].quoted /\ quote[h] # NoPromotion
       THEN SettlePromotion(h, "consumed")
       ELSE UNCHANGED redemption
    /\ order' = [order EXCEPT ![a] = IF refundable THEN "refundable" ELSE "final"]
    /\ ticket' = [k \in Attempts \X Ordinals |->
           IF k[1] = a /\ k[2] <= hold[h].quantity THEN "issued" ELSE ticket[k]]
    /\ attempt' = [attempt EXCEPT ![a].status = "completed"]
    /\ UNCHANGED <<now, rows, quote, expiryRecord, offer, audited, paidDelivery, provider>>

\* After finalization the webhook stores the payment reference, write once ...
RecordPaymentCorrelation(a) ==
    /\ Completed(a) /\ ~attempt[a].intent
    /\ attempt' = [attempt EXCEPT ![a].intent = TRUE]
    /\ UNCHANGED <<now, rows, carts, audited, order, ticket, paidDelivery, provider>>

\* ... and then its processed ledger row.
RecordPaidDelivery(a) ==
    /\ Completed(a)
    /\ paidDelivery' = paidDelivery \union {a}
    /\ UNCHANGED <<now, rows, carts, attempt, audited, order, ticket, provider>>

\* S: ordinals of one order, refunded in full at the provider beforehand.
ReverseRefundedTickets(a, S) ==
    LET t == hold[attempt[a].hold].tier IN
    /\ S # {}
    /\ \A k \in S : ticket[<<a, k>>] = "issued"
    /\ order[a] = "refundable"
    /\ Completed(a) /\ attempt[a].intent
    /\ ReturnStock(t, Cardinality(S))
    /\ ticket' = [k \in Attempts \X Ordinals |->
           IF k[1] = a /\ k[2] \in S THEN "void" ELSE ticket[k]]
    /\ UNCHANGED <<now, tier, hold, carts, attempt, audited, order, paidDelivery, provider>>

-----------------------------------------------------------------------------
(* Releasing stock.  Nothing is released on the wall clock alone once a      *)
(* request may have reached the provider.                                    *)

PaymentProtected(a) == attempt[a].intent \/ a \in paidDelivery

\* Mutant: the deadline alone is taken as proof.
DueUnpaid(a, h, seen) == hold[h].expires <= seen /\ seen <= now /\ now - FreshFor <= seen

\* What a trusted GET, or a signed event, says of a session at instant seen.
ExpiredUnpaid(a, h, seen) ==
    /\ session[a] = "expired"
    /\ hold[h].expires <= seen /\ seen <= now
    /\ now - FreshFor <= seen

\* Mutant: releases the row and forgets the counter.
ReleaseRowOnly(h) ==
    /\ Confirmed(h)
    /\ hold' = [hold EXCEPT ![h].status = "released"]
    /\ UNCHANGED sold

\* Moves a confirmed hold to released.  On a hold with a quote the trigger
\* quoted_hold_release demands an order or the cart's own expiry record.
ReleaseConfirmed(h) ==
    /\ Confirmed(h)
    /\ ReturnStock(hold[h].tier, hold[h].quantity)
    /\ hold' = [hold EXCEPT ![h].status = "released"]

\* Mutant: the trigger quoted_hold_release is missing.
NoQuotedHoldGuard(h) == TRUE

QuotedHoldGuard(h) ==
    Quoted(h) => \/ expiryRecord[h] # "none"
                 \/ \E a \in LinkedTo(h) : attempt[a].quoted /\ order[a] # "none"

Abandon(a) == attempt' = [attempt EXCEPT ![a].status = "abandoned"]

\* release_expired_v2_checkout_attempt: the session expired unpaid.
ReleaseExpiredAttempt(a, seen) ==
    LET h == attempt[a].hold IN
    /\ attempt[a].status = "pending"
    /\ ExpiredUnpaid(a, h, seen)
    /\ LinkedTo(h) = {a}
    /\ ~PaymentProtected(a)
    /\ QuotedHoldGuard(h)
    /\ ReleaseConfirmed(h)
    /\ Abandon(a)
    /\ UNCHANGED <<now, tier, carts, order, ticket, paidDelivery, provider>>

\* Called for a signed expiry event ...
ReleaseExpiredV2(a, seen) ==
    /\ ReleaseExpiredAttempt(a, seen)
    /\ UNCHANGED audited

\* ... or for the owner, who gets an audit row in the same transaction.
ReleaseOwnedExpiredV2(a, seen) ==
    /\ ReleaseExpiredAttempt(a, seen)
    /\ audited' = audited \union {a}

\* Mutant: only a pending attempt protects the hold.
ReleaseUnlessPending(h) ==
    /\ ~Absent(h) /\ Due(h)
    /\ \A a \in LinkedTo(h) : attempt[a].status # "pending"
    /\ QuotedHoldGuard(h)
    /\ ReleaseConfirmed(h)
    /\ UNCHANGED <<now, tier, carts, payments, provider>>

\* Any attempt at all, also an abandoned one, protects the hold.
ReleaseExpiredOrphan(h) ==
    /\ ~Absent(h) /\ Due(h)
    /\ LinkedTo(h) = {}
    /\ QuotedHoldGuard(h)
    /\ ReleaseConfirmed(h)
    /\ UNCHANGED <<now, tier, carts, payments, provider>>

\* The promotion is settled, the record written and the stock returned together.
ReleaseCartRows(h, evidence) ==
    /\ Quoted(h)
    /\ expiryRecord[h] = "none"
    /\ IF quote[h] = NoPromotion THEN UNCHANGED redemption ELSE SettlePromotion(h, "released")
    /\ expiryRecord' = [expiryRecord EXCEPT ![h] = evidence]
    /\ ReleaseConfirmed(h)
    /\ UNCHANGED <<now, tier, quote, offer, audited, order, ticket, paidDelivery>>

\* Mutant: a payment that was begun does not stop the clock-based release.
ReleaseBegunCart(h, evidence) ==
    /\ ~Absent(h)
    /\ evidence = "start_window_closed" /\ TimeLeft(h) < StartWindow
    /\ ReleaseCartRows(h, evidence)
    /\ UNCHANGED <<attempt, provider>>

ReleaseUnstartedCart(h, evidence) ==
    /\ ~Absent(h)
    /\ LinkedTo(h) = {}
    /\ \/ evidence = "never_started" /\ Due(h)
       \/ evidence = "start_window_closed" /\ TimeLeft(h) < StartWindow
    /\ ReleaseCartRows(h, evidence)
    /\ UNCHANGED <<attempt, provider>>

ReleasePayableCart(a) ==
    /\ attempt[a].status = "pending" /\ attempt[a].quoted
    /\ LinkedTo(attempt[a].hold) = {a}
    /\ ~PaymentProtected(a)
    /\ order[a] = "none"
    /\ Abandon(a)

\* Mutant: releases although the transport was entered.
ReleaseSentCart(a) ==
    /\ ReleasePayableCart(a)
    /\ dispatch[a] \in {"owner", "sent"} /\ session[a] = "none"
    /\ ReleaseCartRows(attempt[a].hold, "request_never_sent")
    /\ UNCHANGED provider

\* Only the owner of the POST, and only before its transport was entered.
ReleaseUnsentCart(a) ==
    /\ ReleasePayableCart(a)
    /\ dispatch[a] = "owner"
    /\ ReleaseCartRows(attempt[a].hold, "request_never_sent")
    /\ dispatch' = [dispatch EXCEPT ![a] = "stopped"]
    /\ UNCHANGED session

ReleaseExpiredCart(a, seen) ==
    /\ ReleasePayableCart(a)
    /\ ExpiredUnpaid(a, attempt[a].hold, seen)
    /\ ReleaseCartRows(attempt[a].hold, "test_expired_unpaid_null_intent")
    /\ UNCHANGED provider

-----------------------------------------------------------------------------
(* Organizer edits.                                                          *)

\* Mutant: no comparison with quantity_sold.
SaveAnyCapacity(t, total, active) ==
    /\ tier' = [tier EXCEPT ![t] = [total |-> total, active |-> active]]
    /\ UNCHANGED <<now, sold, hold, carts, payments, provider>>

SaveTicketTier(t, total, active) ==
    /\ total >= sold[t]
    /\ [total |-> total, active |-> active] # tier[t]
    /\ tier' = [tier EXCEPT ![t] = [total |-> total, active |-> active]]
    /\ UNCHANGED <<now, sold, hold, carts, payments, provider>>

\* Mutant: the limit is not compared with the redemptions in use.
SaveAnyLimit(p, open, max) ==
    /\ offer' = [offer EXCEPT ![p] = [open |-> open, max |-> max]]
    /\ UNCHANGED <<now, rows, quote, redemption, expiryRecord, payments, provider>>

\* open: enabled and inside its window.  The window opening or closing by
\* itself has the same effect on the rows as an edit, so it is not a step.
SavePromotion(p, open, max) ==
    /\ Cardinality(Uses(p)) <= max
    /\ [open |-> open, max |-> max] # offer[p]
    /\ offer' = [offer EXCEPT ![p] = [open |-> open, max |-> max]]
    /\ UNCHANGED <<now, rows, quote, redemption, expiryRecord, payments, provider>>

-----------------------------------------------------------------------------
LegacyStep ==
    \/ \E h \in Holds, t \in Tiers, q \in Ordinals, owned \in BOOLEAN, life \in 1..HoldLife :
          ReserveInventory(h, t, q, owned, life)
    \/ \E h \in Holds : \/ ConfirmInventory(h)
                        \/ \E r \in {"expired", "released", "refunded"} : ReleaseInventory(h, r)
    \/ \E D \in SUBSET Holds : ExpireInventory(D)

BuyerStep ==
    \/ \E h \in Holds, t \in Tiers, q \in Ordinals :
          \/ PrepareOwned(h, t, q)
          \/ \E p \in Promotions \union {NoPromotion} : PreparePricedCart(h, t, q, p)
    \/ \E a \in Attempts, h \in Holds :
          \/ InsertLinkedCheckoutAttempt(a, h)
          \/ BeginPricedPayment(a, h)
    \/ \E a \in Attempts : DispatchRequest(a) \/ LoseDispatcher(a)

ProviderStep ==
    \E a \in Attempts : ProviderOpens(a) \/ ProviderIsPaid(a) \/ ProviderExpires(a)

PaidStep ==
    \E a \in Attempts :
        \/ \E refundable \in BOOLEAN : FinalizePaid(a, refundable)
        \/ RecordPaymentCorrelation(a)
        \/ RecordPaidDelivery(a)
        \/ \E S \in SUBSET Ordinals : ReverseRefundedTickets(a, S)

ReleaseStep ==
    \/ \E h \in Holds : \/ ReleaseExpiredOrphan(h)
                        \/ \E e \in EvidenceKinds : ReleaseUnstartedCart(h, e)
    \/ \E a \in Attempts :
          \/ ReleaseUnsentCart(a)
          \/ \E seen \in 0..now : \/ ReleaseExpiredV2(a, seen)
                                  \/ ReleaseOwnedExpiredV2(a, seen)
                                  \/ ReleaseExpiredCart(a, seen)

OrganizerStep ==
    \/ \E t \in Tiers, total \in 0..MaxCapacity, active \in BOOLEAN :
          SaveTicketTier(t, total, active)
    \/ \E p \in Promotions, open \in BOOLEAN, max \in 1..MaxLimit :
          SavePromotion(p, open, max)

Next == Tick \/ LegacyStep \/ BuyerStep \/ ProviderStep \/ PaidStep \/ ReleaseStep \/ OrganizerStep

Spec == Init /\ [][Next]_vars

-----------------------------------------------------------------------------
(* Properties.                                                               *)

\* Every row has the shape its table's columns and CHECK constraints allow.
TypeOK ==
    /\ now \in 0..MaxTime
    /\ tier \in [Tiers -> [total : 0..MaxCapacity, active : BOOLEAN]]
    /\ sold \in [Tiers -> Nat]
    /\ hold \in [Holds -> HoldRow \union {NoHold}]
    /\ quote \in [Holds -> Promotions \union {NoPromotion, NoQuote}]
    /\ redemption \in [Holds -> {"none", "reserved", "consumed", "released"}]
    /\ expiryRecord \in [Holds -> EvidenceKinds \union {"none"}]
    /\ offer \in [Promotions -> [open : BOOLEAN, max : 1..MaxLimit]]
    /\ attempt \in [Attempts -> AttemptRow \union {NoAttempt}]
    /\ audited \subseteq Attempts
    /\ order \in [Attempts -> {"none", "refundable", "final"}]
    /\ ticket \in [Attempts \X Ordinals -> {"none", "issued", "void"}]
    /\ paidDelivery \subseteq Attempts
    /\ dispatch \in [Attempts -> {"idle", "owner", "sent", "lost", "stopped"}]
    /\ session \in [Attempts -> {"none", "open", "paid", "expired"}]

\* quantity_sold is kept by nine different functions.  Whatever their order,
\* it equals what the rows say: the tickets of every active hold, less the
\* tickets that were refunded (a paid hold stays confirmed for ever).
StockConserved ==
    \A t \in Tiers :
        sold[t] + Cardinality(TicketsIn(t, "void")) = Cardinality(HeldUnits(t))

\* Tickets in buyers' hands plus those still held for a buyer never exceed
\* the capacity, also while an organizer lowers it.
NeverOversold ==
    \A t \in Tiers :
        LET open == {h \in ActiveHolds : \A a \in LinkedTo(h) : order[a] = "none"}
        IN  Cardinality(TicketsIn(t, "issued")) + Cardinality(UnitsOf(open, t)) <= tier[t].total

\* The inventory_counter_invariant_violation exceptions cannot be raised: the
\* counter always covers what a release or a reversal may give back.
CounterCoversReleases ==
    /\ \A h \in ActiveHolds : (\A a \in LinkedTo(h) : order[a] = "none")
                               => sold[hold[h].tier] >= hold[h].quantity
    /\ \A a \in Attempts : order[a] # "none" =>
           sold[hold[attempt[a].hold].tier] >= Cardinality({k \in Ordinals : ticket[<<a, k>>] = "issued"})

\* No cleanup path (sweep, orphan release, cart release, legacy release)
\* takes the stock from under an attempt that may be paid or is paid.
LiveAttemptKeepsHold ==
    \A a \in Attempts : attempt[a].status \in {"pending", "completed"} => Confirmed(attempt[a].hold)

\* Once an attempt is given up its buyer can no longer be charged: the session
\* is expired, or no request ever was, or will be, sent for it.
AbandonedIsUnpayable ==
    \A a \in Attempts : attempt[a].status = "abandoned" =>
        \/ session[a] = "expired"
        \/ session[a] = "none" /\ dispatch[a] = "stopped"

\* Whoever paid gets tickets: finalize_paid_checkout_attempt has nothing left
\* to refuse or to raise (not_finalizable, promotion_not_consumable).
PaidCanBeIssued ==
    \A a \in Attempts : session[a] = "paid" =>
        \/ Completed(a)
        \/ /\ attempt[a].status = "pending"
           /\ Confirmed(attempt[a].hold)
           /\ attempt[a].quoted /\ quote[attempt[a].hold] # NoPromotion
                 => redemption[attempt[a].hold] = "reserved"

\* Concurrent carts, releases and organizer edits keep a code within its limit.
PromotionWithinLimit ==
    \A p \in Promotions : Cardinality(Uses(p)) <= offer[p].max

\* The quota follows the purchase: reserved while the hold is open, consumed
\* by exactly a paid order, released by exactly the release of the stock.
RedemptionFollowsPurchase ==
    \A h \in Holds : quote[h] \in Promotions =>
        /\ redemption[h] = "consumed" <=> \E a \in LinkedTo(h) : order[a] # "none"
        /\ redemption[h] = "released" <=> hold[h].status = "released"
        /\ redemption[h] # "none"

\* A hold with a quote is released only together with its expiry record, and
\* the record's evidence agrees with whether a payment had been started.
QuotedReleaseRecorded ==
    \A h \in Holds : Quoted(h) =>
        /\ expiryRecord[h] # "none" <=> hold[h].status = "released"
        /\ expiryRecord[h] \in {"never_started", "start_window_closed"} => LinkedTo(h) = {}
        /\ expiryRecord[h] \in {"request_never_sent", "test_expired_unpaid_null_intent"}
              => \E a \in LinkedTo(h) : attempt[a].status = "abandoned" /\ attempt[a].quoted

\* Full-price and quoted payments for one cart exclude each other, however the
\* cart preparation races the attempt insert.
QuoteBindsAttempt ==
    \A a \in Attempts : attempt[a].status # "absent" => (attempt[a].quoted <=> Quoted(attempt[a].hold))

\* Closed rows stay closed, saved quotes stay as saved, and the owner audit
\* row appears only in the step that releases the hold.
ClosedRowsStayClosed ==
    [][/\ \A h \in Holds :
           /\ hold[h].status \in {"released", "expired", "refunded"} => hold'[h] = hold[h]
           /\ Quoted(h) => quote'[h] = quote[h]
           /\ redemption[h] \in {"consumed", "released"} => redemption'[h] = redemption[h]
       /\ \A a \in Attempts :
           /\ attempt[a].status \in {"completed", "abandoned"} => attempt'[a].status = attempt[a].status
           /\ a \in audited' \ audited => /\ Confirmed(attempt[a].hold)
                                         /\ hold'[attempt[a].hold].status = "released"
       /\ \A k \in Attempts \X Ordinals : ticket[k] = "void" => ticket'[k] = "void"]_vars

-----------------------------------------------------------------------------
(* Whatever functions, triggers and sweeps run, in any order, they keep the  *)
(* promise of SalePromise.  A hold is a sale, its units are the seats, a row *)
(* that is released, expired or refunded is a sale that was let go of, and a *)
(* voided ticket is a seat that came back.                                   *)

Payers(h) == {a \in Attempts : session[a] = "paid" /\ attempt[a].hold = h}

StageOf(h) ==
    IF Payers(h) # {}
    THEN IF \E a \in Payers(h) : Completed(a) THEN "delivered" ELSE "paid"
    ELSE CASE Absent(h)         -> "none"
           [] h \in ActiveHolds -> "kept"
           [] OTHER             -> "closed"

SeatsTaken ==
    {seat \in Holds \X Tiers \X Ordinals :
        /\ seat[1] \in ActiveHolds
        /\ hold[seat[1]].tier = seat[2] /\ seat[3] <= hold[seat[1]].quantity
        /\ \A a \in Attempts : ticket[<<a, seat[3]>>] = "void" => attempt[a].hold # seat[1]}

Sale == INSTANCE SalePromise WITH
    Sales    <- Holds,
    stage    <- [h \in Holds |-> StageOf(h)],
    seats    <- SeatsTaken,
    capacity <- [t \in Tiers |-> tier[t].total]

\* Seats are kept within the capacity, let go of only when nobody paid for them,
\* paid for only while they are kept, delivered after the payment, and come back
\* only by the reversal of a delivered sale: the order of the reservation, release,
\* finalization and reversal functions, seen from one sale.
KeepsSalePromise == Sale!Spec

=============================================================================
