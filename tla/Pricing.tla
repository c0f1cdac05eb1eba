------------------------------ MODULE Pricing -------------------------------
(* The money of one guest cart, from the price its buyer is shown to the     *)
(* refund of its last ticket, while organizers edit the tier and the offer.  *)
(*                                                                           *)
(* The preview reads the tier and the offer in two statements, without locks;*)
(* the preparation locks both.  Everything that decides whether a cart, an   *)
(* attempt or a refund is allowed, except for what money has to do with it,  *)
(* is left to Checkout and RefundCoordination.                               *)
EXTENDS Integers, FiniteSetsExt

CONSTANTS Prices,       \* unit prices an organizer may save, in cents
          FixedValues,  \* cents off
          Points,       \* parts of Scale off
          Scale,        \* 10000 in the code
          MaxQuantity,  \* 10 in the code
          MinPaid,      \* the least total that can be paid: 50 in the code
          MaxTotal,     \* 99999999 in the code
          MaxVersion,   \* bound: edits of the offer
          None

ASSUME MoneyAssumption ==
    /\ Prices \subseteq Nat /\ FixedValues \subseteq Nat \ {0}
    /\ Scale \in Nat \ {0} /\ Points \subseteq 1 .. Scale
    /\ MaxVersion \in Nat \ {0} /\ MaxTotal \in Nat
    /\ MaxQuantity \in Nat \ {0} /\ MinPaid \in Nat /\ MaxQuantity <= MinPaid

VARIABLES
    tier,     \* ticket_types.price_cents
    offer,    \* the row of ticket_promotions for the buyer's code
    shown,    \* what the buyer looks at: PricePreview, or a preview half read
    quote,    \* ticket_price_quotes with its ticket_quote_allocations, or None
    charged,  \* amount_total of the provider's session, 0 when there is none
    issued,   \* the payment is finalized, the tickets exist
    refunds   \* rows of refund_coordination_attempts with those of ticket_refunds

vars == <<tier, offer, shown, quote, charged, issued, refunds>>

-----------------------------------------------------------------------------
\* What decides a price; without a code the version is 0.
Terms(n, unit, o) ==
    [quantity |-> n, unit |-> unit, version |-> o.version, kind |-> o.kind, value |-> o.value]

NoOffer == [version |-> 0, kind |-> "none", value |-> 0, open |-> TRUE]

Subtotal(t) == t.unit * t.quantity

Least(a, b) == IF a < b THEN a ELSE b

Discount(t) ==
    CASE t.kind = "none"       -> 0
      [] t.kind = "fixed"      -> Least(t.value, Subtotal(t))
      [] t.kind = "percentage" -> (Subtotal(t) * t.value) \div Scale

Total(t) == Subtotal(t) - Discount(t)

Payable(t) == Subtotal(t) <= MaxTotal /\ Total(t) >= MinPaid

\* The cents of the discount that do not divide go to the first tickets.
DiscountShare(t, i) ==
    (Discount(t) \div t.quantity) + (IF i < Discount(t) % t.quantity THEN 1 ELSE 0)

Allocations(t) == [i \in 0 .. (t.quantity - 1) |-> t.unit - DiscountShare(t, i)]

PriceQuote(t) == [terms |-> t, total |-> Total(t), paid |-> Allocations(t)]

\* Mutant: a revision without the tier's price.
RevisionOfOffer(t) == <<t.quantity, t.version, t.kind, t.value>>

\* md5 of the terms: equal exactly when they are.
Revision(t) == <<t.quantity, t.unit, t.version, t.kind, t.value>>

\* Mutant: every ticket is refunded the rounded-down even share.
EvenShares(S) == Cardinality(S) * (quote.total \div quote.terms.quantity)

PaidFor(S) == MapThenSumSet(LAMBDA i : quote.paid[i], S)

\* The line items of the session: one for each distinct share, with its count.
LineItems(q) ==
    {[unit |-> p, count |-> Cardinality({i \in DOMAIN q.paid : q.paid[i] = p})] :
        p \in {q.paid[i] : i \in DOMAIN q.paid}}

AmountTotal(q) == MapThenSumSet(LAMBDA l : l.unit * l.count, LineItems(q))

Tickets == IF issued THEN DOMAIN quote.paid ELSE {}

Claimed  == UNION {r.tickets : r \in refunds}
Reversed == UNION {r.tickets : r \in {x \in refunds : x.recorded # None}}

Init ==
    /\ tier \in Prices
    /\ \/ \E v \in FixedValues : offer = [version |-> 1, kind |-> "fixed", value |-> v, open |-> TRUE]
       \/ \E v \in Points \ {Scale} :
            offer = [version |-> 1, kind |-> "percentage", value |-> v, open |-> TRUE]
    /\ shown = None /\ quote = None /\ charged = 0 /\ issued = FALSE /\ refunds = {}

-----------------------------------------------------------------------------
\* Organizers.

SaveTicketTier(p) ==
    /\ p # tier
    /\ tier' = p
    /\ UNCHANGED <<offer, shown, quote, charged, issued, refunds>>

\* A full percentage may only be saved closed.
SaveOffer(kind, value, open) ==
    /\ offer.version < MaxVersion
    /\ kind = "percentage" /\ value = Scale => ~open
    /\ offer' = [version |-> offer.version + 1, kind |-> kind, value |-> value, open |-> open]
    /\ UNCHANGED <<tier, shown, quote, charged, issued, refunds>>

\* Its dates pass, or its last use is reserved: the row and its version stay.
OfferCloses ==
    /\ offer.open
    /\ offer' = [offer EXCEPT !.open = FALSE]
    /\ UNCHANGED <<tier, shown, quote, charged, issued, refunds>>

-----------------------------------------------------------------------------
\* The buyer: preview_ticket_price, again as long as nothing has been prepared.

ReadTier(n, coded) ==
    /\ quote = None
    /\ shown' = [quantity |-> n, unit |-> tier, coded |-> coded, total |-> None, revision |-> None]
    /\ UNCHANGED <<tier, offer, quote, charged, issued, refunds>>

ReadOffer ==
    LET o == IF shown.coded THEN offer ELSE NoOffer
        t == Terms(shown.quantity, shown.unit, o)
    IN /\ quote = None /\ shown # None /\ shown.total = None
       /\ shown' = IF o.open /\ Payable(t)
                   THEN [shown EXCEPT !.total = Total(t), !.revision = Revision(t)]
                   ELSE None
       /\ UNCHANGED <<tier, offer, quote, charged, issued, refunds>>

\* prepare_priced_guest_cart: priced anew under locks, then compared.
PreparePricedGuestCart ==
    LET o == IF shown.coded THEN offer ELSE NoOffer
        t == Terms(shown.quantity, tier, o)
    IN /\ quote = None /\ shown # None /\ shown.total # None
       /\ o.open /\ Payable(t) /\ Revision(t) = shown.revision
       /\ quote' = PriceQuote(t)
       /\ UNCHANGED <<tier, offer, shown, charged, issued, refunds>>

\* parseStoredPriceQuote: the saved snapshot, never today's prices.
BeginPricedGuestPayment ==
    /\ quote # None /\ charged = 0
    /\ quote = PriceQuote(quote.terms)
    /\ charged' = AmountTotal(quote)
    /\ UNCHANGED <<tier, offer, shown, quote, issued, refunds>>

\* A payment of another amount is not this attempt's.
FinalizePaid ==
    /\ charged # 0 /\ ~issued
    /\ charged = quote.total
    /\ issued' = TRUE
    /\ UNCHANGED <<tier, offer, shown, quote, charged, refunds>>

-----------------------------------------------------------------------------
\* Refunds: the coordinator's amount, the claim, and later the reversal's own.

ReadQuotedRefundAmount(S) ==
    IF S \intersect Reversed = {} /\ PaidFor(S) <= quote.total THEN PaidFor(S) ELSE None

ClaimRefund(S) ==
    LET amount == ReadQuotedRefundAmount(S)
    IN /\ S # {} /\ S \intersect Claimed = {}
       /\ amount # None /\ amount > 0
       /\ refunds' = refunds \union {[tickets |-> S, asked |-> amount, recorded |-> None]}
       /\ UNCHANGED <<tier, offer, shown, quote, charged, issued>>

ReverseRefundedTickets(r) ==
    LET amount == PaidFor(r.tickets)
    IN /\ r.recorded = None /\ r.tickets \intersect Reversed = {}
       /\ Cardinality(Reversed) + Cardinality(r.tickets) <= quote.terms.quantity
       /\ amount <= quote.total
       /\ refunds' = (refunds \ {r}) \union {[r EXCEPT !.recorded = amount]}
       /\ UNCHANGED <<tier, offer, shown, quote, charged, issued>>

Next ==
    \/ \E p \in Prices : SaveTicketTier(p)
    \/ \E v \in FixedValues, open \in BOOLEAN : SaveOffer("fixed", v, open)
    \/ \E v \in Points, open \in BOOLEAN : SaveOffer("percentage", v, open)
    \/ OfferCloses
    \/ \E n \in 1 .. MaxQuantity, coded \in BOOLEAN : ReadTier(n, coded)
    \/ ReadOffer \/ PreparePricedGuestCart \/ BeginPricedGuestPayment \/ FinalizePaid
    \/ \E S \in SUBSET Tickets : ClaimRefund(S)
    \/ \E r \in refunds : ReverseRefundedTickets(r)

Spec == Init /\ [][Next]_vars

-----------------------------------------------------------------------------
\* The buyer is never charged, and never saves, a total other than the one last
\* shown: the preview's two unlocked reads may straddle an edit, the price and
\* the offer may change back and forth before the preparation and keep changing
\* after it (ticket_price_revision, buildSessionForm).
PaysWhatWasShown ==
    quote # None =>
        /\ quote.total = shown.total
        /\ charged # 0 => charged = shown.total

\* Whatever selections are refunded, in whatever order, the amounts asked of the
\* provider never exceed the payment and use it up with the last ticket; what the
\* reversal records later is what was asked; and no ticket is left with a share
\* that cannot be refunded because the cents did not suffice, or that is more
\* than its price.
RefundsMatchPayment ==
    LET sum == MapThenSumSet(LAMBDA r : r.asked, refunds)
    IN issued =>
        /\ sum <= charged
        /\ Claimed = Tickets => sum = charged
        /\ \A r \in refunds : r.recorded \in {None, r.asked}
        /\ \A i \in Tickets \ Claimed :
              ReadQuotedRefundAmount({i}) \in 1 .. quote.terms.unit

=============================================================================
