--------------------------- MODULE Checkout_proofs ---------------------------
(* Theorems about Checkout, for every number of tiers, holds, attempts and   *)
(* promotions and every value of the bounds: types, payments, the stock      *)
(* counter and capacity, priced carts with the uses of their codes, rows     *)
(* that are closed for good, and the refinement of SalePromise.              *)
EXTENDS Checkout, FiniteSetTheorems, TLAPS

-----------------------------------------------------------------------------
(* Helpers about rows.                                                       *)

\* A row that is there has all its columns.
LEMMA HoldPresent ==
    ASSUME TypeOK, NEW h \in Holds, ~Absent(h)
    PROVE  hold[h] \in HoldRow
BY DEF TypeOK, Absent, NoHold

LEMMA AttemptPresent ==
    ASSUME TypeOK, NEW a \in Attempts, attempt[a].status # "absent"
    PROVE  attempt[a] \in AttemptRow
BY DEF TypeOK, NoAttempt

LEMMA FiniteOrdinals ==
    /\ IsFiniteSet(Ordinals)
    /\ Cardinality(Ordinals) = MaxQty
    /\ \A S \in SUBSET Ordinals : IsFiniteSet(S) /\ Cardinality(S) \in Nat
<1>1. Ordinals = 1..MaxQty /\ MaxQty \in Nat
  BY Amounts DEF Ordinals
<1>2. IsFiniteSet(Ordinals) /\ Cardinality(Ordinals) = MaxQty
  BY <1>1, FS_Interval
<1>3. ASSUME NEW S \in SUBSET Ordinals PROVE IsFiniteSet(S) /\ Cardinality(S) \in Nat
  BY <1>2, FS_Subset, FS_CardinalityType
<1> QED BY <1>2, <1>3

LEMMA FiniteUnits ==
    ASSUME NEW D \in SUBSET Holds, NEW t
    PROVE  IsFiniteSet(UnitsOf(D, t)) /\ Cardinality(UnitsOf(D, t)) \in Nat
<1>1. IsFiniteSet(D)
  BY FiniteRows, FS_Subset
<1>2. IsFiniteSet(D \X Ordinals)
  BY <1>1, FiniteOrdinals, FS_Product
<1>3. UnitsOf(D, t) \subseteq D \X Ordinals
  BY DEF UnitsOf
<1> QED BY <1>2, <1>3, FS_Subset, FS_CardinalityType

-----------------------------------------------------------------------------
(* Type correctness.                                                         *)

LEMMA TypeInit == Init => TypeOK
BY Amounts, NoCode DEF Init, TypeOK, NoHold, NoAttempt

LEMMA TypeLegacy == TypeOK /\ LegacyStep => TypeOK'
<1> SUFFICES ASSUME TypeOK, LegacyStep PROVE TypeOK'
  OBVIOUS
<1> USE DEF TypeOK, rows, carts, payments, provider
<1>1. ASSUME NEW h \in Holds, NEW t \in Tiers, NEW q \in Ordinals,
             NEW owned \in BOOLEAN, NEW life \in 1..HoldLife,
             ReserveInventory(h, t, q, owned, life)
      PROVE  TypeOK'
  BY <1>1, Amounts, Deadlines DEF ReserveInventory, TakeStock, NewHold, HoldRow, Ordinals
<1>2. ASSUME NEW h \in Holds, ConfirmInventory(h)
      PROVE  TypeOK'
  BY <1>2 DEF ConfirmInventory, HoldRow, NoHold
<1>3. ASSUME NEW h \in Holds, NEW r \in {"expired", "released", "refunded"}, ReleaseInventory(h, r)
      PROVE  TypeOK'
  BY <1>3, Amounts DEF ReleaseInventory, ReturnStock, HoldRow, NoHold
<1>4. ASSUME NEW D \in SUBSET Holds, ExpireInventory(D)
      PROVE  TypeOK'
  <2>1. \A t \in Tiers : Cardinality(UnitsOf(D, t)) \in Nat
    BY FiniteUnits
  <2>2. sold' \in [Tiers -> Nat]
    BY <1>4, <2>1 DEF ExpireInventory
  <2>3. hold' \in [Holds -> HoldRow \union {NoHold}]
    BY <1>4 DEF ExpireInventory, HoldRow, NoHold
  <2> QED BY <1>4, <2>2, <2>3 DEF ExpireInventory
<1>5. \/ \E h \in Holds, t \in Tiers, q \in Ordinals, owned \in BOOLEAN, life \in 1..HoldLife :
             ReserveInventory(h, t, q, owned, life)
      \/ \E h \in Holds : \/ ConfirmInventory(h)
                          \/ \E r \in {"expired", "released", "refunded"} : ReleaseInventory(h, r)
      \/ \E D \in SUBSET Holds : ExpireInventory(D)
  BY DEF LegacyStep
<1> HIDE DEF TypeOK, rows, carts, payments, provider
<1> QED BY <1>1, <1>2, <1>3, <1>4, <1>5

\* Whichever way it becomes ready, the row is well-formed and confirmed.
LEMMA ReadyHold ==
    ASSUME TypeOK, NEW h \in Holds, NEW t \in Tiers, NEW q \in Ordinals, HoldReady(h, t, q)
    PROVE  /\ sold' \in [Tiers -> Nat]
           /\ hold' \in [Holds -> HoldRow \union {NoHold}]
           /\ hold'[h].status = "confirmed"
           /\ \A g \in Holds : g # h => hold'[g] = hold[g]
<1>0. sold \in [Tiers -> Nat] /\ hold \in [Holds -> HoldRow \union {NoHold}]
  BY DEF TypeOK
<1>1. CASE TakeStock(t, q) /\ hold' = [hold EXCEPT ![h] = NewHold(t, q, "confirmed", TRUE, HoldLife)]
  <2>1. NewHold(t, q, "confirmed", TRUE, HoldLife) \in HoldRow
    BY Amounts, Deadlines DEF NewHold, HoldRow, Ordinals, TypeOK
  <2>2. NewHold(t, q, "confirmed", TRUE, HoldLife).status = "confirmed"
    BY DEF NewHold
  <2>3. sold[t] + q \in Nat
    BY <1>0, Amounts DEF Ordinals
  <2>4. sold' \in [Tiers -> Nat]
    BY <1>0, <1>1, <2>3 DEF TakeStock
  <2> QED BY <1>0, <1>1, <2>1, <2>2, <2>4
<1>2. CASE Resumable(h, t, q) /\ hold' = [hold EXCEPT ![h].status = "confirmed"] /\ UNCHANGED sold
  <2>1. hold[h] \in HoldRow
    BY <1>0, <1>2 DEF Resumable, NoHold
  <2>2. /\ [hold[h] EXCEPT !.status = "confirmed"] \in HoldRow
        /\ [hold[h] EXCEPT !.status = "confirmed"].status = "confirmed"
    BY <2>1 DEF HoldRow
  <2>3. hold' = [hold EXCEPT ![h] = [hold[h] EXCEPT !.status = "confirmed"]]
    BY <1>2
  <2> QED BY <1>0, <1>2, <2>2, <2>3
<1> QED BY <1>1, <1>2 DEF HoldReady

LEMMA TypeBuyer == TypeOK /\ BuyerStep => TypeOK'
<1> SUFFICES ASSUME TypeOK, BuyerStep PROVE TypeOK'
  OBVIOUS
<1> USE DEF TypeOK, rows, carts, payments, provider
<1>1. ASSUME NEW h \in Holds, NEW t \in Tiers, NEW q \in Ordinals, PrepareOwned(h, t, q)
      PROVE  TypeOK'
  BY <1>1, ReadyHold DEF PrepareOwned
<1>2. ASSUME NEW h \in Holds, NEW t \in Tiers, NEW q \in Ordinals,
             NEW p \in Promotions \union {NoPromotion}, PreparePricedCart(h, t, q, p)
      PROVE  TypeOK'
  BY <1>2, ReadyHold DEF PreparePricedCart, CartReady, SaveQuote
<1>3. ASSUME NEW a \in Attempts, NEW h \in Holds,
             InsertLinkedCheckoutAttempt(a, h) \/ BeginPricedPayment(a, h)
      PROVE  TypeOK'
  <2>1. PICK quoted \in BOOLEAN : InsertAttempt(a, h, quoted)
    BY <1>3 DEF InsertLinkedCheckoutAttempt, BeginPricedPayment
  <2>2. [status |-> "pending", hold |-> h, quoted |-> quoted, intent |-> FALSE] \in AttemptRow
    BY DEF AttemptRow
  <2>3. attempt' \in [Attempts -> AttemptRow \union {NoAttempt}]
    BY <2>1, <2>2 DEF InsertAttempt
  <2> QED BY <2>1, <2>3 DEF InsertAttempt
<1>4. ASSUME NEW a \in Attempts, DispatchRequest(a) \/ LoseDispatcher(a)
      PROVE  TypeOK'
  BY <1>4 DEF DispatchRequest, LoseDispatcher
<1> QED BY <1>1, <1>2, <1>3, <1>4 DEF BuyerStep

LEMMA TypePaid == TypeOK /\ PaidStep => TypeOK'
<1> SUFFICES ASSUME TypeOK, PaidStep PROVE TypeOK'
  OBVIOUS
<1> USE DEF TypeOK, rows, carts, payments, provider
<1>1. ASSUME NEW a \in Attempts, NEW b \in BOOLEAN, FinalizePaid(a, b)
      PROVE  TypeOK'
  <2>1. attempt' \in [Attempts -> AttemptRow \union {NoAttempt}]
    BY <1>1 DEF FinalizePaid, AttemptRow, NoAttempt
  <2>2. redemption' \in [Holds -> {"none", "reserved", "consumed", "released"}]
    BY <1>1 DEF FinalizePaid, SettlePromotion
  <2> QED BY <1>1, <2>1, <2>2 DEF FinalizePaid
<1>2. ASSUME NEW a \in Attempts, RecordPaymentCorrelation(a)
      PROVE  TypeOK'
  <2>1. attempt[a] \in AttemptRow
    BY <1>2, AttemptPresent DEF RecordPaymentCorrelation, Completed
  <2>2. [attempt[a] EXCEPT !.intent = TRUE] \in AttemptRow
    BY <2>1 DEF AttemptRow
  <2>3. attempt' = [attempt EXCEPT ![a] = [attempt[a] EXCEPT !.intent = TRUE]]
    BY <1>2 DEF RecordPaymentCorrelation
  <2> QED BY <1>2, <2>2, <2>3 DEF RecordPaymentCorrelation
<1>3. ASSUME NEW a \in Attempts, RecordPaidDelivery(a)
      PROVE  TypeOK'
  BY <1>3 DEF RecordPaidDelivery
<1>4. ASSUME NEW a \in Attempts, NEW S \in SUBSET Ordinals, ReverseRefundedTickets(a, S)
      PROVE  TypeOK'
  <2>1. Cardinality(S) \in Nat
    BY FiniteOrdinals
  <2>2. sold' \in [Tiers -> Nat]
    <3> DEFINE t == hold[attempt[a].hold].tier
    <3>1. ReturnStock(t, Cardinality(S))
      BY <1>4 DEF ReverseRefundedTickets
    <3> HIDE DEF t
    <3>2. t \in Tiers => sold[t] - Cardinality(S) \in Nat
      BY <2>1, <3>1 DEF ReturnStock
    <3> QED BY <3>1, <3>2 DEF ReturnStock
  <2> QED BY <1>4, <2>2 DEF ReverseRefundedTickets
<1> QED BY <1>1, <1>2, <1>3, <1>4 DEF PaidStep

LEMMA TypeReleaseConfirmed ==
    ASSUME TypeOK, NEW h \in Holds, ReleaseConfirmed(h)
    PROVE  sold' \in [Tiers -> Nat] /\ hold' \in [Holds -> HoldRow \union {NoHold}]
BY Amounts DEF TypeOK, ReleaseConfirmed, ReturnStock, Confirmed, HoldRow, NoHold

LEMMA TypeAbandon ==
    ASSUME TypeOK, NEW a \in Attempts, attempt[a].status = "pending", Abandon(a)
    PROVE  attempt' \in [Attempts -> AttemptRow \union {NoAttempt}]
<1>1. attempt[a] \in AttemptRow
  BY AttemptPresent
<1>2. [attempt[a] EXCEPT !.status = "abandoned"] \in AttemptRow
  BY <1>1 DEF AttemptRow
<1> QED BY <1>2 DEF Abandon, TypeOK

LEMMA TypeCartRows ==
    ASSUME TypeOK, NEW h \in Holds, NEW e \in EvidenceKinds, ReleaseCartRows(h, e)
    PROVE  /\ redemption' \in [Holds -> {"none", "reserved", "consumed", "released"}]
           /\ expiryRecord' \in [Holds -> EvidenceKinds \union {"none"}]
BY DEF TypeOK, ReleaseCartRows, SettlePromotion

LEMMA TypeRelease == TypeOK /\ ReleaseStep => TypeOK'
<1> SUFFICES ASSUME TypeOK, ReleaseStep PROVE TypeOK'
  OBVIOUS
<1> USE DEF TypeOK, rows, carts, payments, provider
<1>1. ASSUME NEW h \in Holds, ReleaseExpiredOrphan(h)
      PROVE  TypeOK'
  BY <1>1, TypeReleaseConfirmed DEF ReleaseExpiredOrphan
<1>2. ASSUME NEW h \in Holds, NEW e \in EvidenceKinds, ReleaseUnstartedCart(h, e)
      PROVE  TypeOK'
  BY <1>2, TypeReleaseConfirmed, TypeCartRows DEF ReleaseUnstartedCart, ReleaseCartRows
<1>3. ASSUME NEW a \in Attempts, attempt[a].status = "pending"
      PROVE  attempt[a].hold \in Holds
  BY <1>3, AttemptPresent DEF AttemptRow
<1>4. ASSUME NEW a \in Attempts, ReleaseUnsentCart(a)
      PROVE  TypeOK'
  <2>1. /\ attempt[a].status = "pending" /\ Abandon(a)
        /\ ReleaseCartRows(attempt[a].hold, "request_never_sent")
    BY <1>4 DEF ReleaseUnsentCart, ReleasePayableCart
  <2>2. "request_never_sent" \in EvidenceKinds
    BY DEF EvidenceKinds
  <2> QED BY <1>3, <1>4, <2>1, <2>2, TypeReleaseConfirmed, TypeCartRows, TypeAbandon
          DEF ReleaseUnsentCart, ReleaseCartRows
<1>5. ASSUME NEW a \in Attempts, NEW seen, ReleaseExpiredCart(a, seen)
      PROVE  TypeOK'
  <2>1. /\ attempt[a].status = "pending" /\ Abandon(a)
        /\ ReleaseCartRows(attempt[a].hold, "test_expired_unpaid_null_intent")
    BY <1>5 DEF ReleaseExpiredCart, ReleasePayableCart
  <2>2. "test_expired_unpaid_null_intent" \in EvidenceKinds
    BY DEF EvidenceKinds
  <2> QED BY <1>3, <1>5, <2>1, <2>2, TypeReleaseConfirmed, TypeCartRows, TypeAbandon
          DEF ReleaseExpiredCart, ReleaseCartRows
<1>6. ASSUME NEW a \in Attempts, NEW seen, ReleaseExpiredV2(a, seen) \/ ReleaseOwnedExpiredV2(a, seen)
      PROVE  TypeOK'
  BY <1>3, <1>6, TypeReleaseConfirmed, TypeAbandon
     DEF ReleaseExpiredV2, ReleaseOwnedExpiredV2, ReleaseExpiredAttempt
<1> QED BY <1>1, <1>2, <1>4, <1>5, <1>6 DEF ReleaseStep

LEMMA TypeOther == TypeOK /\ (Tick \/ ProviderStep \/ OrganizerStep \/ UNCHANGED vars) => TypeOK'
<1> SUFFICES ASSUME TypeOK, Tick \/ ProviderStep \/ OrganizerStep \/ UNCHANGED vars
             PROVE  TypeOK'
  OBVIOUS
<1> USE DEF TypeOK, rows, carts, payments, provider
<1>1. CASE Tick
  BY <1>1, Amounts DEF Tick
<1>2. CASE ProviderStep
  BY <1>2 DEF ProviderStep, ProviderOpens, ProviderIsPaid, ProviderExpires, SetSession
<1>3. CASE OrganizerStep
  <2>1. ASSUME NEW t \in Tiers, NEW total \in 0..MaxCapacity, NEW active \in BOOLEAN,
               SaveTicketTier(t, total, active)
        PROVE  TypeOK'
    BY <2>1 DEF SaveTicketTier
  <2>2. ASSUME NEW p \in Promotions, NEW open \in BOOLEAN, NEW max \in 1..MaxLimit,
               SavePromotion(p, open, max)
        PROVE  TypeOK'
    BY <2>2 DEF SavePromotion
  <2> QED BY <1>3, <2>1, <2>2 DEF OrganizerStep
<1>4. CASE UNCHANGED vars
  BY <1>4 DEF vars
<1> QED BY <1>1, <1>2, <1>3, <1>4

LEMMA TypeStep == TypeOK /\ [Next]_vars => TypeOK'
BY TypeLegacy, TypeBuyer, TypePaid, TypeRelease, TypeOther DEF Next

\* Every row keeps the shape its table allows.
THEOREM TypeCorrect == Spec => []TypeOK
BY TypeInit, TypeStep, PTL DEF Spec

-----------------------------------------------------------------------------
(* Payments and holds.  LiveAttemptKeepsHold, AbandonedIsUnpayable and       *)
(* PaidCanBeIssued are not inductive: they need that a hold has at most one  *)
(* attempt, that a session exists only after its request was sent, that a    *)
(* quote and its attempt belong together, and that a pending quoted attempt  *)
(* still has its reserved use of the code.                                   *)

Present(a) == attempt[a].status # "absent"

OneAttemptPerHold ==
    \A a \in Attempts : Present(a) =>
        /\ ~Absent(attempt[a].hold)
        /\ \A b \in Attempts : Present(b) /\ attempt[b].hold = attempt[a].hold => b = a

SessionAfterRequest ==
    \A a \in Attempts : /\ ~Present(a) => dispatch[a] = "idle"
                        /\ session[a] # "none" => dispatch[a] = "sent"

PendingReserved ==
    \A a \in Attempts : attempt[a].status = "pending" /\ quote[attempt[a].hold] \in Promotions
        => redemption[attempt[a].hold] = "reserved"

PayInv == /\ TypeOK
          /\ OneAttemptPerHold
          /\ SessionAfterRequest
          /\ LiveAttemptKeepsHold
          /\ QuoteBindsAttempt
          /\ PendingReserved
          /\ AbandonedIsUnpayable

LEMMA PayInit == Init => PayInv
<1> SUFFICES ASSUME Init PROVE PayInv
  OBVIOUS
<1>1. TypeOK
  BY TypeInit
<1>2. \A a \in Attempts : attempt[a].status = "absent" /\ dispatch[a] = "idle" /\ session[a] = "none"
  BY DEF Init, NoAttempt
<1> QED BY <1>1, <1>2 DEF PayInv, OneAttemptPerHold, SessionAfterRequest, LiveAttemptKeepsHold,
             QuoteBindsAttempt, PendingReserved, AbandonedIsUnpayable, Present

\* A present attempt names a hold of the table.
LEMMA HoldOfAttempt ==
    ASSUME TypeOK, NEW a \in Attempts, Present(a)
    PROVE  attempt[a].hold \in Holds
BY AttemptPresent DEF Present, AttemptRow

\* Steps that leave attempts, quotes, uses and provider alone keep PayInv as
\* long as they do not move a hold that has a live attempt.
LEMMA PayFrame ==
    ASSUME PayInv, TypeOK', UNCHANGED <<attempt, quote, redemption, provider>>,
           \A h \in Holds : hold[h].status = "confirmed" /\ LinkedTo(h) # {} => hold'[h].status = "confirmed",
           \A h \in Holds : ~Absent(h) => ~Absent(h)'
    PROVE  PayInv'
<1> USE DEF PayInv, Present
<1>1. \A a \in Attempts : Present(a) => attempt[a].hold \in Holds
  BY HoldOfAttempt
<1>2. OneAttemptPerHold'
  BY <1>1 DEF OneAttemptPerHold, Absent
<1>3. SessionAfterRequest' /\ AbandonedIsUnpayable' /\ PendingReserved'
  BY DEF SessionAfterRequest, AbandonedIsUnpayable, PendingReserved, provider
<1>4. QuoteBindsAttempt'
  BY DEF QuoteBindsAttempt, Quoted
<1>5. LiveAttemptKeepsHold'
  <2> SUFFICES ASSUME NEW a \in Attempts, attempt[a].status \in {"pending", "completed"}
               PROVE  hold'[attempt[a].hold].status = "confirmed"
    BY DEF LiveAttemptKeepsHold, Confirmed
  <2>1. a \in LinkedTo(attempt[a].hold) /\ attempt[a].hold \in Holds
    BY <1>1 DEF LinkedTo
  <2>2. hold[attempt[a].hold].status = "confirmed"
    BY DEF LiveAttemptKeepsHold, Confirmed
  <2> QED BY <2>1, <2>2
<1> QED BY <1>2, <1>3, <1>4, <1>5

\* The legacy functions only move rows that are new or still held.
LEMMA LegacyRows ==
    ASSUME TypeOK, LegacyStep, NEW g \in Holds
    PROVE  \/ hold'[g] = hold[g]
           \/ hold[g].status \in {"absent", "held"} /\ hold'[g].status # "absent"
<1> DEFINE Moved == \/ hold'[g] = hold[g]
                    \/ hold[g].status \in {"absent", "held"} /\ hold'[g].status # "absent"
<1>1. ASSUME NEW h \in Holds, NEW t \in Tiers, NEW q \in Ordinals,
             NEW owned \in BOOLEAN, NEW life \in 1..HoldLife,
             ReserveInventory(h, t, q, owned, life)
      PROVE  Moved
  BY <1>1 DEF ReserveInventory, TypeOK, Absent, NewHold
<1>2. ASSUME NEW h \in Holds, ConfirmInventory(h)
      PROVE  Moved
  BY <1>2 DEF ConfirmInventory, TypeOK
<1>3. ASSUME NEW h \in Holds, NEW r \in {"expired", "released", "refunded"}, ReleaseInventory(h, r)
      PROVE  Moved
  <2>1. hold[h] \in HoldRow /\ [hold[h] EXCEPT !.status = r].status = r
    BY <1>3 DEF ReleaseInventory, TypeOK, NoHold, HoldRow
  <2>2. hold' = [hold EXCEPT ![h] = [hold[h] EXCEPT !.status = r]]
    BY <1>3 DEF ReleaseInventory
  <2> QED BY <1>3, <2>1, <2>2 DEF ReleaseInventory, TypeOK
<1>4. ASSUME NEW D \in SUBSET Holds, ExpireInventory(D)
      PROVE  Moved
  <2>1. CASE g \in D
    <3>1. hold[g].status = "held" /\ hold'[g] = [hold[g] EXCEPT !.status = "expired"]
      BY <1>4, <2>1 DEF ExpireInventory
    <3>2. hold[g] \in HoldRow
      BY <3>1 DEF TypeOK, NoHold
    <3> QED BY <3>1, <3>2 DEF HoldRow
  <2>2. CASE g \notin D
    BY <1>4, <2>2 DEF ExpireInventory
  <2> QED BY <2>1, <2>2
<1> QED BY <1>1, <1>2, <1>3, <1>4 DEF LegacyStep

\* A live attempt's row is confirmed, so the legacy functions leave it alone.
LEMMA PayLegacy == PayInv /\ LegacyStep => PayInv'
<1> SUFFICES ASSUME PayInv, LegacyStep PROVE PayInv'
  OBVIOUS
<1>1. TypeOK /\ TypeOK'
  BY TypeLegacy DEF PayInv
<1>2. UNCHANGED <<attempt, quote, redemption, provider>>
  BY DEF LegacyStep, ReserveInventory, ConfirmInventory, ReleaseInventory, ExpireInventory,
         carts, payments
<1> QED BY <1>1, <1>2, LegacyRows, PayFrame DEF Absent

\* A new hold has no attempt; pricing a hold needs that it has none.
LEMMA PayPrepare ==
    ASSUME PayInv, NEW h \in Holds, NEW t \in Tiers, NEW q \in Ordinals,
           \/ PrepareOwned(h, t, q)
           \/ \E p \in Promotions \union {NoPromotion} : PreparePricedCart(h, t, q, p)
    PROVE  PayInv'
<1>t. TypeOK /\ TypeOK'
  BY TypeBuyer DEF PayInv, BuyerStep
<1>1. CASE PrepareOwned(h, t, q)
  <2>1. UNCHANGED <<attempt, quote, redemption, provider>>
    BY <1>1 DEF PrepareOwned, carts, payments
  <2>2. hold'[h].status = "confirmed" /\ \A g \in Holds : g # h => hold'[g] = hold[g]
    BY <1>1, <1>t, ReadyHold DEF PrepareOwned
  <2> QED BY <1>t, <2>1, <2>2, PayFrame DEF Absent
<1>2. ASSUME NEW p \in Promotions \union {NoPromotion}, PreparePricedCart(h, t, q, p)
      PROVE  PayInv'
  <2>1. UNCHANGED <<attempt, provider>>
    BY <1>2 DEF PreparePricedCart, CartReady, payments
  <2>2. \A g \in Holds : g # h => /\ hold'[g] = hold[g] /\ quote'[g] = quote[g]
                                  /\ redemption'[g] = redemption[g]
    <3>2. \A g \in Holds : g # h => hold'[g] = hold[g]
      BY <1>2, <1>t, ReadyHold DEF PreparePricedCart, CartReady
    <3>3. \E r : redemption' = [redemption EXCEPT ![h] = r] /\ quote' = [quote EXCEPT ![h] = p]
      BY <1>2 DEF PreparePricedCart, CartReady, SaveQuote
    <3> QED BY <1>t, <3>2, <3>3 DEF TypeOK
  <2>3. hold'[h].status = "confirmed"
    BY <1>2, <1>t, ReadyHold DEF PreparePricedCart, CartReady
  <2>4. \A a \in Attempts : Present(a) => attempt[a].hold \in Holds /\ attempt[a].hold # h
    BY <1>2, <1>t, HoldOfAttempt DEF PreparePricedCart, CartReady, SaveQuote, LinkedTo, Present
  <2> QED BY <1>t, <2>1, <2>2, <2>3, <2>4
          DEF PayInv, OneAttemptPerHold, SessionAfterRequest, LiveAttemptKeepsHold, QuoteBindsAttempt,
              PendingReserved, AbandonedIsUnpayable, Present, Absent, Confirmed, Quoted, provider
<1> QED BY <1>1, <1>2

\* The insert guards see to it that the new attempt is the hold's only one.
LEMMA PayInsert ==
    ASSUME PayInv, NEW a \in Attempts, NEW h \in Holds,
           InsertLinkedCheckoutAttempt(a, h) \/ BeginPricedPayment(a, h)
    PROVE  PayInv'
<1>t. TypeOK /\ TypeOK'
  BY TypeBuyer DEF PayInv, BuyerStep
<1>1. PICK quoted \in BOOLEAN : InsertAttempt(a, h, quoted) /\ (quoted <=> Quoted(h))
  BY DEF InsertLinkedCheckoutAttempt, BeginPricedPayment, InsertAttempt, PriceMatches
<1>2. quote[h] \in Promotions => redemption[h] = "reserved"
  BY <1>1 DEF InsertAttempt, PriceMatches
<1>3. UNCHANGED <<hold, quote, redemption, session>>
  BY <1>1 DEF InsertAttempt, rows, carts
<1>4. /\ attempt'[a] = [status |-> "pending", hold |-> h, quoted |-> quoted, intent |-> FALSE]
      /\ dispatch'[a] = "owner"
      /\ \A b \in Attempts : b # a => attempt'[b] = attempt[b] /\ dispatch'[b] = dispatch[b]
  BY <1>1, <1>t DEF InsertAttempt, TypeOK
<1>5. ~Present(a) /\ Confirmed(h) /\ LinkedTo(h) = {}
  BY <1>1 DEF InsertAttempt, LinkableHold, Present
<1>6. \A b \in Attempts : Present(b) => attempt[b].hold # h
  BY <1>5 DEF LinkedTo, Present
<1>7. OneAttemptPerHold' /\ LiveAttemptKeepsHold'
  BY <1>3, <1>4, <1>5, <1>6
     DEF PayInv, OneAttemptPerHold, LiveAttemptKeepsHold, Present, Absent, Confirmed
<1>8. SessionAfterRequest' /\ AbandonedIsUnpayable'
  BY <1>3, <1>4, <1>5 DEF PayInv, SessionAfterRequest, AbandonedIsUnpayable, Present
<1>9. QuoteBindsAttempt' /\ PendingReserved'
  BY <1>1, <1>2, <1>3, <1>4, <1>5 DEF PayInv, QuoteBindsAttempt, PendingReserved, Present, Quoted
<1> QED BY <1>t, <1>7, <1>8, <1>9 DEF PayInv

\* The POST and the provider only advance attempts that are not abandoned.
LEMMA PayProvider ==
    ASSUME PayInv,
           \/ ProviderStep
           \/ \E a \in Attempts : DispatchRequest(a) \/ LoseDispatcher(a)
    PROVE  PayInv'
<1>t. TypeOK /\ TypeOK'
  BY TypeOther, TypeBuyer DEF PayInv, BuyerStep
<1>1. UNCHANGED <<attempt, hold, quote, redemption>>
  BY DEF ProviderStep, ProviderOpens, ProviderIsPaid, ProviderExpires, SetSession,
         DispatchRequest, LoseDispatcher, rows, carts, payments
<1>2. OneAttemptPerHold' /\ LiveAttemptKeepsHold' /\ QuoteBindsAttempt' /\ PendingReserved'
  BY <1>1 DEF PayInv, OneAttemptPerHold, LiveAttemptKeepsHold, QuoteBindsAttempt, PendingReserved,
              Present, Absent, Confirmed, Quoted
<1>3. SessionAfterRequest' /\ AbandonedIsUnpayable'
  BY <1>1, <1>t DEF PayInv, TypeOK, SessionAfterRequest, AbandonedIsUnpayable, Present,
         ProviderStep, ProviderOpens, ProviderIsPaid, ProviderExpires, SetSession,
         DispatchRequest, LoseDispatcher
<1> QED BY <1>t, <1>2, <1>3 DEF PayInv

-----------------------------------------------------------------------------
\* A step that ends the one attempt on hold h, or works on a hold without
\* attempts, leaves every other attempt and its hold as they were.
LEMMA PayOneHold ==
    ASSUME PayInv, TypeOK', NEW h \in Holds, UNCHANGED quote,
           \A b \in Attempts : Present(b) /\ attempt[b].hold = h => attempt'[b].status = "abandoned"
                                                             /\ attempt'[b].hold = h
                                                             /\ attempt'[b].quoted = attempt[b].quoted,
           \A b \in Attempts : ~(Present(b) /\ attempt[b].hold = h) => attempt'[b] = attempt[b],
           \A g \in Holds : g # h => hold'[g] = hold[g] /\ redemption'[g] = redemption[g],
           hold'[h].status # "absent",
           SessionAfterRequest', AbandonedIsUnpayable'
    PROVE  PayInv'
<1>1. \A b \in Attempts : Present(b) => attempt[b].hold \in Holds
  BY HoldOfAttempt DEF PayInv
<1>2. \A b \in Attempts : (Present(b) <=> Present(b)') /\ (Present(b) => attempt'[b].hold = attempt[b].hold)
  BY DEF Present
<1>3. OneAttemptPerHold'
  BY <1>1, <1>2 DEF PayInv, OneAttemptPerHold, Absent, Present
<1>4. QuoteBindsAttempt'
  BY <1>1, <1>2 DEF PayInv, QuoteBindsAttempt, Present, Quoted
<1>5. LiveAttemptKeepsHold'
  BY <1>1 DEF PayInv, LiveAttemptKeepsHold, Present, Confirmed
<1>6. PendingReserved'
  BY <1>1 DEF PayInv, PendingReserved, Present
<1> QED BY <1>3, <1>4, <1>5, <1>6 DEF PayInv

\* Releasing a confirmed hold touches that row only.
LEMMA ReleasedRow ==
    ASSUME TypeOK, NEW h \in Holds, ReleaseConfirmed(h)
    PROVE  /\ hold'[h].status = "released"
           /\ \A g \in Holds : g # h => hold'[g] = hold[g]
<1>1. hold[h] \in HoldRow
  BY HoldPresent DEF ReleaseConfirmed, Confirmed, Absent
<1> QED BY <1>1 DEF ReleaseConfirmed, TypeOK, HoldRow

LEMMA AbandonedRow ==
    ASSUME TypeOK, NEW a \in Attempts, attempt[a].status = "pending", Abandon(a)
    PROVE  /\ attempt'[a].status = "abandoned"
           /\ attempt'[a].hold = attempt[a].hold /\ attempt'[a].quoted = attempt[a].quoted
           /\ \A b \in Attempts : b # a => attempt'[b] = attempt[b]
<1>1. attempt[a] \in AttemptRow
  BY AttemptPresent
<1> QED BY <1>1 DEF Abandon, TypeOK, AttemptRow

\* Every release: the hold had no attempt, or its attempt ends with it and the
\* provider can no longer be paid for it.
LEMMA PayRelease == PayInv /\ ReleaseStep => PayInv'
<1> SUFFICES ASSUME PayInv, ReleaseStep PROVE PayInv'
  OBVIOUS
<1>t. TypeOK /\ TypeOK'
  BY TypeRelease DEF PayInv
<1>1. ASSUME NEW h \in Holds, LinkedTo(h) = {}, ReleaseConfirmed(h),
             UNCHANGED <<attempt, provider, quote>>,
             \A g \in Holds : g # h => redemption'[g] = redemption[g]
      PROVE  PayInv'
  <2>1. \A b \in Attempts : ~(Present(b) /\ attempt[b].hold = h)
    BY <1>1 DEF LinkedTo, Present
  <2>2. SessionAfterRequest' /\ AbandonedIsUnpayable'
    BY <1>1 DEF PayInv, SessionAfterRequest, AbandonedIsUnpayable, Present, provider
  <2> QED BY <1>t, <1>1, <2>1, <2>2, ReleasedRow, PayOneHold
<1>2. ASSUME NEW a \in Attempts, attempt[a].status = "pending", LinkedTo(attempt[a].hold) = {a},
             ReleaseConfirmed(attempt[a].hold), Abandon(a), UNCHANGED quote,
             \A g \in Holds : g # attempt[a].hold => redemption'[g] = redemption[g],
             \/ session[a] = "expired" /\ UNCHANGED provider
             \/ /\ dispatch[a] = "owner" /\ UNCHANGED session
                /\ dispatch' = [dispatch EXCEPT ![a] = "stopped"]
      PROVE  PayInv'
  <2> DEFINE h == attempt[a].hold
  <2>1. Present(a) /\ h \in Holds
    BY <1>2, <1>t, HoldOfAttempt DEF Present
  <2>2. \A b \in Attempts : Present(b) /\ attempt[b].hold = h => b = a
    BY <1>2 DEF LinkedTo, Present
  <2>3. /\ attempt'[a].status = "abandoned"
        /\ attempt'[a].hold = h /\ attempt'[a].quoted = attempt[a].quoted
        /\ \A b \in Attempts : b # a => attempt'[b] = attempt[b]
    BY <1>2, <1>t, AbandonedRow
  <2>4. SessionAfterRequest' /\ AbandonedIsUnpayable'
    <3>1. \A b \in Attempts : b # a => dispatch'[b] = dispatch[b] /\ session'[b] = session[b]
      BY <1>2, <1>t DEF TypeOK, provider
    <3>2. \A b \in Attempts : b # a => (Present(b) <=> Present(b)')
      BY <2>3 DEF Present
    <3>3. Present(a)'
      BY <2>3 DEF Present
    <3>4. \/ session'[a] = "expired" /\ dispatch'[a] = "sent"
          \/ session'[a] = "none" /\ dispatch'[a] = "stopped"
      BY <1>2, <1>t DEF PayInv, TypeOK, SessionAfterRequest, provider
    <3>5. SessionAfterRequest'
      BY <3>1, <3>2, <3>3, <3>4 DEF PayInv, SessionAfterRequest
    <3>6. AbandonedIsUnpayable'
      BY <2>3, <3>1, <3>4 DEF PayInv, AbandonedIsUnpayable
    <3> QED BY <3>5, <3>6
  <2>5. hold'[h].status = "released" /\ \A g \in Holds : g # h => hold'[g] = hold[g]
    BY <1>2, <1>t, <2>1, ReleasedRow
  <2> HIDE DEF h
  <2> QED BY <1>2, <1>t, <2>1, <2>2, <2>3, <2>4, <2>5, PayOneHold DEF h
<1>3. ASSUME NEW h \in Holds, ReleaseExpiredOrphan(h)
      PROVE  PayInv'
  BY <1>1, <1>3 DEF ReleaseExpiredOrphan, carts, payments
<1>4. ASSUME NEW h \in Holds, NEW e \in EvidenceKinds, ReleaseCartRows(h, e)
      PROVE  /\ ReleaseConfirmed(h) /\ UNCHANGED quote
             /\ \A g \in Holds : g # h => redemption'[g] = redemption[g]
  BY <1>4, <1>t DEF ReleaseCartRows, SettlePromotion, TypeOK
<1>5. ASSUME NEW h \in Holds, NEW e \in EvidenceKinds, ReleaseUnstartedCart(h, e)
      PROVE  PayInv'
  BY <1>1, <1>4, <1>5 DEF ReleaseUnstartedCart
<1>6. ASSUME NEW a \in Attempts, attempt[a].status = "pending"
      PROVE  attempt[a].hold \in Holds
  BY <1>6, <1>t, HoldOfAttempt DEF Present
<1>7. ASSUME NEW a \in Attempts, ReleaseUnsentCart(a)
      PROVE  PayInv'
  BY <1>2, <1>4, <1>6, <1>7 DEF ReleaseUnsentCart, ReleasePayableCart, EvidenceKinds
<1>8. ASSUME NEW a \in Attempts, NEW seen \in 0..now, ReleaseExpiredCart(a, seen)
      PROVE  PayInv'
  BY <1>2, <1>4, <1>6, <1>8 DEF ReleaseExpiredCart, ReleasePayableCart, ExpiredUnpaid, EvidenceKinds
<1>9. ASSUME NEW a \in Attempts, NEW seen \in 0..now,
             ReleaseExpiredV2(a, seen) \/ ReleaseOwnedExpiredV2(a, seen)
      PROVE  PayInv'
  BY <1>2, <1>6, <1>9 DEF ReleaseExpiredV2, ReleaseOwnedExpiredV2, ReleaseExpiredAttempt,
                          ExpiredUnpaid, carts
<1> QED BY <1>3, <1>5, <1>7, <1>8, <1>9 DEF ReleaseStep

\* Payment side: only FinalizePaid changes anything PayInv talks about.
LEMMA PayPaid == PayInv /\ PaidStep => PayInv'
<1> SUFFICES ASSUME PayInv, PaidStep PROVE PayInv'
  OBVIOUS
<1>t. TypeOK /\ TypeOK'
  BY TypePaid DEF PayInv
<1>1. ASSUME UNCHANGED <<hold, quote, provider>>,
             \A b \in Attempts : /\ attempt'[b].status = attempt[b].status
                                 /\ attempt'[b].hold = attempt[b].hold
                                 /\ attempt'[b].quoted = attempt[b].quoted,
             UNCHANGED redemption
      PROVE  PayInv'
  BY <1>1, <1>t DEF PayInv, OneAttemptPerHold, SessionAfterRequest, LiveAttemptKeepsHold,
     QuoteBindsAttempt, PendingReserved, AbandonedIsUnpayable, Present, Absent, Confirmed, Quoted, provider
<1>2. ASSUME NEW a \in Attempts, NEW b \in BOOLEAN, FinalizePaid(a, b)
      PROVE  PayInv'
  <2> DEFINE h == attempt[a].hold
  <2>1. /\ attempt[a].status = "pending" /\ UNCHANGED <<hold, quote, provider>>
        /\ attempt' = [attempt EXCEPT ![a].status = "completed"]
        /\ redemption' = redemption \/ redemption' = [redemption EXCEPT ![h] = "consumed"]
    BY <1>2 DEF FinalizePaid, SettlePromotion, rows
  <2>2. attempt[a] \in AttemptRow /\ h \in Holds
    BY <2>1, <1>t, AttemptPresent DEF AttemptRow
  <2>3. /\ attempt'[a].status = "completed"
        /\ attempt'[a].hold = h /\ attempt'[a].quoted = attempt[a].quoted
        /\ \A c \in Attempts : c # a => attempt'[c] = attempt[c]
    BY <2>1, <2>2, <1>t DEF TypeOK, AttemptRow
  <2>4. \A g \in Holds : g # h => redemption'[g] = redemption[g]
    BY <2>1, <1>t DEF TypeOK
  <2>5. \A c \in Attempts : c # a /\ Present(c) => attempt[c].hold # h /\ attempt[c].hold \in Holds
    BY <2>1, <1>t, HoldOfAttempt DEF PayInv, OneAttemptPerHold, Present
  <2> HIDE DEF h
  <2>6. OneAttemptPerHold' /\ LiveAttemptKeepsHold' /\ QuoteBindsAttempt'
    BY <2>1, <2>3, <1>t
       DEF PayInv, OneAttemptPerHold, LiveAttemptKeepsHold, QuoteBindsAttempt,
           Present, Absent, Confirmed, Quoted, h
  <2>7. SessionAfterRequest' /\ AbandonedIsUnpayable'
    BY <2>1, <2>3 DEF PayInv, SessionAfterRequest, AbandonedIsUnpayable, Present, provider
  <2>8. PendingReserved'
    BY <2>1, <2>3, <2>4, <2>5 DEF PayInv, PendingReserved, Present
  <2> QED BY <1>t, <2>6, <2>7, <2>8 DEF PayInv
<1>3. ASSUME NEW a \in Attempts, RecordPaymentCorrelation(a)
      PROVE  PayInv'
  <2>1. attempt[a] \in AttemptRow
    BY <1>3, <1>t, AttemptPresent DEF RecordPaymentCorrelation, Completed
  <2>2. attempt' = [attempt EXCEPT ![a].intent = TRUE]
    BY <1>3 DEF RecordPaymentCorrelation
  <2>3. \A b \in Attempts : /\ attempt'[b].status = attempt[b].status
                            /\ attempt'[b].hold = attempt[b].hold
                            /\ attempt'[b].quoted = attempt[b].quoted
    BY <2>1, <2>2, <1>t DEF TypeOK, AttemptRow
  <2> QED BY <1>1, <1>3, <2>3 DEF RecordPaymentCorrelation, rows, carts
<1>4. ASSUME NEW a \in Attempts, RecordPaidDelivery(a)
      PROVE  PayInv'
  BY <1>1, <1>4 DEF RecordPaidDelivery, rows, carts
<1>5. ASSUME NEW a \in Attempts, NEW S \in SUBSET Ordinals, ReverseRefundedTickets(a, S)
      PROVE  PayInv'
  BY <1>1, <1>5 DEF ReverseRefundedTickets, carts
<1> QED BY <1>2, <1>3, <1>4, <1>5 DEF PaidStep

LEMMA PayOther == PayInv /\ (Tick \/ OrganizerStep \/ UNCHANGED vars) => PayInv'
<1> SUFFICES ASSUME PayInv, Tick \/ OrganizerStep \/ UNCHANGED vars PROVE PayInv'
  OBVIOUS
<1>t. TypeOK'
  BY TypeOther DEF PayInv
<1>1. UNCHANGED <<hold, quote, redemption, attempt, provider>>
  BY DEF Tick, OrganizerStep, SaveTicketTier, SavePromotion, vars, rows, carts, payments
<1> QED BY <1>t, <1>1, PayFrame DEF Absent

LEMMA PayStep == PayInv /\ [Next]_vars => PayInv'
<1>1. PayInv /\ BuyerStep => PayInv'
  BY PayPrepare, PayInsert, PayProvider DEF BuyerStep
<1> QED BY <1>1, PayLegacy, PayProvider, PayPaid, PayRelease, PayOther DEF Next

THEOREM PaymentInvariant == Spec => []PayInv
BY PayInit, PayStep, PTL DEF Spec

\* No cleanup path takes the stock of an attempt that is or may still be paid.
THEOREM LiveAttemptsKeepTheirHold == Spec => []LiveAttemptKeepsHold
<1>1. PayInv => LiveAttemptKeepsHold
  BY DEF PayInv
<1> QED BY <1>1, PaymentInvariant, PTL

\* Full-price and quoted payments for one cart exclude each other.
THEOREM QuotesBindAttempts == Spec => []QuoteBindsAttempt
<1>1. PayInv => QuoteBindsAttempt
  BY DEF PayInv
<1> QED BY <1>1, PaymentInvariant, PTL

\* A buyer can never be charged for an attempt that was given up.
THEOREM AbandonedNeverCharged == Spec => []AbandonedIsUnpayable
<1>1. PayInv => AbandonedIsUnpayable
  BY DEF PayInv
<1> QED BY <1>1, PaymentInvariant, PTL

\* Whoever paid can always be given the tickets.
THEOREM PaidAlwaysIssuable == Spec => []PaidCanBeIssued
<1>1. PayInv => PaidCanBeIssued
  <2> SUFFICES ASSUME PayInv, NEW a \in Attempts, session[a] = "paid"
               PROVE  \/ Completed(a)
                      \/ /\ attempt[a].status = "pending"
                         /\ Confirmed(attempt[a].hold)
                         /\ attempt[a].quoted /\ quote[attempt[a].hold] # NoPromotion
                               => redemption[attempt[a].hold] = "reserved"
    BY DEF PaidCanBeIssued
  <2>1. Present(a) /\ attempt[a].status # "abandoned"
    BY DEF PayInv, SessionAfterRequest, AbandonedIsUnpayable
  <2>2. attempt[a] \in AttemptRow
    BY <2>1, AttemptPresent DEF PayInv, Present
  <2>3. attempt[a].status \in {"pending", "completed"} /\ attempt[a].hold \in Holds
    BY <2>1, <2>2 DEF AttemptRow
  <2>4. attempt[a].quoted /\ quote[attempt[a].hold] # NoPromotion
           => quote[attempt[a].hold] \in Promotions
    BY <2>1, <2>3 DEF PayInv, QuoteBindsAttempt, Present, Quoted, TypeOK
  <2> QED BY <2>3, <2>4 DEF PayInv, LiveAttemptKeepsHold, PendingReserved, Completed
<1> QED BY <1>1, PaymentInvariant, PTL

-----------------------------------------------------------------------------
(* The stock counter.  Every writer of quantity_sold, whatever the order they*)
(* run in, keeps it equal to what the rows say (StockConserved).  The        *)
(* argument follows the set of units that active holds keep of a tier: a     *)
(* step leaves it alone, adds the units of one new hold, or removes the units*)
(* of holds that close; the counter moves by exactly as much.                *)

(* The tickets of an order are those of its hold, and only a completed        *)
(* attempt has any.                                                           *)

TicketRows ==
    \A a \in Attempts :
        /\ order[a] # "none" <=> Completed(a)
        /\ \A k \in Ordinals :
              ticket[<<a, k>>] # "none" <=> Completed(a) /\ k <= hold[attempt[a].hold].quantity

StockInv == PayInv /\ TicketRows /\ StockConserved

-----------------------------------------------------------------------------
(* Counting.                                                                  *)

LEMMA DisjointUnion ==
    ASSUME NEW S, NEW T, IsFiniteSet(S), IsFiniteSet(T), S \intersect T = {}
    PROVE  /\ IsFiniteSet(S \union T)
           /\ Cardinality(S \union T) = Cardinality(S) + Cardinality(T)
<1>1. Cardinality(S) \in Nat /\ Cardinality(T) \in Nat /\ Cardinality({}) = 0
  BY FS_CardinalityType, FS_EmptySet
<1>2. /\ IsFiniteSet(S \union T)
      /\ Cardinality(S \union T) = Cardinality(S) + Cardinality(T) - Cardinality(S \intersect T)
  BY FS_Union
<1>3. Cardinality(S \intersect T) = 0
  BY <1>1
<1> QED BY <1>1, <1>2, <1>3

\* A subset of one row's ordinals, as units or tickets of that row.
LEMMA RowOrdinals ==
    ASSUME NEW x, NEW S \in SUBSET Ordinals
    PROVE  /\ IsFiniteSet({x} \X S)
           /\ Cardinality({x} \X S) = Cardinality(S)
<1>1. IsFiniteSet(S) /\ Cardinality(S) \in Nat
  BY FiniteOrdinals
<1>2. IsFiniteSet({x}) /\ Cardinality({x}) = 1
  BY FS_Singleton
<1> QED BY <1>1, <1>2, FS_Product

\* The units of one row of quantity q.
LEMMA RowUnits ==
    ASSUME NEW x, NEW q \in Ordinals
    PROVE  /\ IsFiniteSet({x} \X (1..q))
           /\ Cardinality({x} \X (1..q)) = q
<1>1. q \in Nat /\ q # 0 /\ 1..q \in SUBSET Ordinals
  BY Amounts DEF Ordinals
<1>2. Cardinality(1..q) = q
  BY <1>1, FS_Interval
<1> QED BY <1>1, <1>2, RowOrdinals

\* A row keeps its quantity of its own tier, nothing of another.
LEMMA UnitsOfRow ==
    ASSUME NEW h \in Holds, hold[h] \in HoldRow, NEW t
    PROVE  Cardinality(UnitsOf({h}, t)) = IF hold[h].tier = t THEN hold[h].quantity ELSE 0
<1>1. hold[h].quantity \in Ordinals
  BY DEF HoldRow, Ordinals
<1>2. CASE hold[h].tier = t
  <2>1. UnitsOf({h}, t) = {h} \X (1..hold[h].quantity)
    BY <1>1, <1>2, Amounts DEF UnitsOf, Ordinals
  <2> QED BY <1>1, <1>2, <2>1, RowUnits
<1>3. CASE hold[h].tier # t
  <2>1. UnitsOf({h}, t) = {}
    BY <1>3 DEF UnitsOf
  <2> QED BY <1>3, <2>1, FS_EmptySet
<1> QED BY <1>2, <1>3

LEMMA FiniteTickets ==
    ASSUME NEW t, NEW s
    PROVE  IsFiniteSet(TicketsIn(t, s)) /\ Cardinality(TicketsIn(t, s)) \in Nat
<1>1. IsFiniteSet(Attempts \X Ordinals)
  BY FiniteRows, FiniteOrdinals, FS_Product
<1>2. TicketsIn(t, s) \subseteq Attempts \X Ordinals
  BY DEF TicketsIn
<1> QED BY <1>1, <1>2, FS_Subset, FS_CardinalityType

-----------------------------------------------------------------------------
(* What a step that issues and voids nothing leaves alone.                    *)

\* Rows never change tier or quantity once they are there.
RowsKept == \A h \in Holds : ~Absent(h) =>
                hold'[h].tier = hold[h].tier /\ hold'[h].quantity = hold[h].quantity

\* A paid attempt stays completed and keeps its hold.
PaymentsKept ==
    \A a \in Attempts : Completed(a) => Completed(a)' /\ attempt'[a].hold = attempt[a].hold

TicketsKept == /\ UNCHANGED <<order, ticket>>
               /\ PaymentsKept
               /\ \A a \in Attempts : Completed(a)' => Completed(a)

LEMMA CompletedHold ==
    ASSUME PayInv, NEW a \in Attempts, Completed(a)
    PROVE  Present(a) /\ attempt[a].hold \in Holds /\ ~Absent(attempt[a].hold)
BY HoldOfAttempt DEF PayInv, OneAttemptPerHold, Completed, Present

\* The voided tickets of a tier stay the same set.
LEMMA VoidKept ==
    ASSUME StockInv, RowsKept, PaymentsKept,
           \A k \in Attempts \X Ordinals : ticket'[k] = "void" <=> ticket[k] = "void",
           NEW t
    PROVE  TicketsIn(t, "void")' = TicketsIn(t, "void")
<1> SUFFICES ASSUME NEW a \in Attempts, NEW k \in Ordinals, ticket[<<a, k>>] = "void"
             PROVE  /\ attempt'[a].status # "absent" /\ attempt[a].status # "absent"
                    /\ hold'[attempt'[a].hold].tier = hold[attempt[a].hold].tier
  BY DEF TicketsIn
<1>1. Completed(a)
  BY DEF StockInv, TicketRows
<1>2. Completed(a)' /\ attempt'[a].hold = attempt[a].hold
  BY <1>1 DEF PaymentsKept
<1> QED BY <1>1, <1>2, CompletedHold DEF StockInv, RowsKept, Completed

LEMMA RowsStay ==
    ASSUME StockInv, RowsKept, TicketsKept
    PROVE  TicketRows'
<1> SUFFICES ASSUME NEW a \in Attempts
             PROVE  /\ order'[a] # "none" <=> Completed(a)'
                    /\ \A k \in Ordinals : ticket'[<<a, k>>] # "none"
                          <=> Completed(a)' /\ k <= hold'[attempt'[a].hold].quantity
  BY DEF TicketRows
<1>1. Completed(a) => hold'[attempt'[a].hold].quantity = hold[attempt[a].hold].quantity
  BY CompletedHold DEF StockInv, RowsKept, TicketsKept, PaymentsKept
<1> QED BY <1>1 DEF StockInv, TicketRows, TicketsKept, PaymentsKept

-----------------------------------------------------------------------------
(* The three ways in which the held units change.                             *)

Active(h) == hold[h].status \in {"held", "confirmed"}

LEMMA UnitsSame ==
    ASSUME RowsKept, \A h \in Holds : Active(h)' <=> Active(h), NEW t
    PROVE  HeldUnits(t)' = HeldUnits(t)
<1>1. ActiveHolds' = ActiveHolds
  BY DEF ActiveHolds, Active
<1>2. \A h \in ActiveHolds : h \in Holds /\ ~Absent(h)
  BY DEF ActiveHolds, Absent
<1> QED BY <1>1, <1>2 DEF HeldUnits, UnitsOf, RowsKept

LEMMA BalanceSame ==
    ASSUME StockInv, RowsKept, TicketsKept, UNCHANGED sold,
           \A h \in Holds : Active(h)' <=> Active(h)
    PROVE  TicketRows' /\ StockConserved'
<1>1. \A t \in Tiers : TicketsIn(t, "void")' = TicketsIn(t, "void")
  BY VoidKept DEF TicketsKept
<1>2. \A t \in Tiers : HeldUnits(t)' = HeldUnits(t)
  BY UnitsSame
<1>3. StockConserved'
  BY <1>1, <1>2 DEF StockInv, StockConserved
<1> QED BY <1>3, RowsStay

LEMMA BalanceGain ==
    ASSUME StockInv, TicketsKept, NEW h \in Holds, Absent(h), NEW r \in HoldRow,
           r.status \in {"held", "confirmed"}, hold' = [hold EXCEPT ![h] = r],
           sold' = [sold EXCEPT ![r.tier] = @ + r.quantity]
    PROVE  TicketRows' /\ StockConserved'
<1>t. hold \in [Holds -> HoldRow \union {NoHold}] /\ sold \in [Tiers -> Nat]
  BY DEF StockInv, PayInv, TypeOK
<1>1. hold'[h] = r /\ \A g \in Holds : g # h => hold'[g] = hold[g]
  BY <1>t
<1>2. RowsKept
  BY <1>1 DEF RowsKept
<1>3. ASSUME NEW t \in Tiers
      PROVE  sold'[t] + Cardinality(TicketsIn(t, "void")') = Cardinality(HeldUnits(t)')
  <2>1. HeldUnits(t)' = HeldUnits(t) \union UnitsOf({h}, t)'
    BY <1>1 DEF HeldUnits, UnitsOf, ActiveHolds, Absent
  <2>2. HeldUnits(t) \intersect UnitsOf({h}, t)' = {}
    BY DEF HeldUnits, UnitsOf, ActiveHolds, Absent
  <2>3. IsFiniteSet(HeldUnits(t)) /\ Cardinality(HeldUnits(t)) \in Nat
    BY FiniteUnits DEF HeldUnits, ActiveHolds
  <2>4. r.quantity \in Ordinals
    BY DEF HoldRow, Ordinals
  <2>5. /\ IsFiniteSet(UnitsOf({h}, t)')
        /\ Cardinality(UnitsOf({h}, t)') = IF r.tier = t THEN r.quantity ELSE 0
    <3>1. CASE r.tier = t
      <4>1. UnitsOf({h}, t)' = {h} \X (1..r.quantity)
        BY <1>1, <2>4, <3>1, Amounts DEF UnitsOf, Ordinals
      <4>2. /\ IsFiniteSet({h} \X (1..r.quantity))
            /\ Cardinality({h} \X (1..r.quantity)) = r.quantity
        BY <2>4, RowUnits
      <4> QED BY <3>1, <4>1, <4>2
    <3>2. CASE r.tier # t
      <4>1. UnitsOf({h}, t)' = {}
        BY <1>1, <3>2 DEF UnitsOf
      <4> QED BY <3>2, <4>1, FS_EmptySet
    <3> QED BY <3>1, <3>2
  <2>6. Cardinality(HeldUnits(t)') = Cardinality(HeldUnits(t)) + Cardinality(UnitsOf({h}, t)')
    BY <2>1, <2>2, <2>3, <2>5, DisjointUnion
  <2>7. TicketsIn(t, "void")' = TicketsIn(t, "void")
    BY <1>2, VoidKept DEF TicketsKept
  <2>8. sold'[t] = sold[t] + (IF r.tier = t THEN r.quantity ELSE 0)
    <3>1. r.quantity \in Nat /\ r.tier \in Tiers
      BY Amounts DEF HoldRow
    <3> QED BY <1>t, <3>1
  <2>9. sold[t] + Cardinality(TicketsIn(t, "void")) = Cardinality(HeldUnits(t))
    BY DEF StockInv, StockConserved
  <2>10. Cardinality(TicketsIn(t, "void")) \in Nat /\ sold[t] \in Nat /\ r.quantity \in Nat
    BY <1>t, FiniteTickets, Amounts DEF HoldRow
  <2> QED BY <2>5, <2>6, <2>7, <2>8, <2>9, <2>10
<1> QED BY <1>2, <1>3, RowsStay DEF StockConserved

LEMMA BalanceLoss ==
    ASSUME StockInv, TicketsKept, RowsKept, NEW D \in SUBSET Holds,
           \A h \in D : Active(h) /\ ~Active(h)',
           \A h \in Holds \ D : hold'[h] = hold[h],
           \A t \in Tiers : sold'[t] = sold[t] - Cardinality(UnitsOf(D, t))
    PROVE  TicketRows' /\ StockConserved'
<1>1. ASSUME NEW t \in Tiers
      PROVE  sold'[t] + Cardinality(TicketsIn(t, "void")') = Cardinality(HeldUnits(t)')
  <2>1. HeldUnits(t)' = HeldUnits(t) \ UnitsOf(D, t)
    <3>1. ActiveHolds' = ActiveHolds \ D
      BY DEF ActiveHolds, Active
    <3> QED BY <3>1 DEF HeldUnits, UnitsOf, ActiveHolds
  <2>2. UnitsOf(D, t) \subseteq HeldUnits(t)
    BY DEF HeldUnits, UnitsOf, ActiveHolds, Active
  <2>3. HeldUnits(t) \intersect UnitsOf(D, t) = UnitsOf(D, t)
    BY <2>2
  <2>4. IsFiniteSet(HeldUnits(t)) /\ Cardinality(HeldUnits(t)) \in Nat
    BY FiniteUnits DEF HeldUnits, ActiveHolds
  <2>5. Cardinality(HeldUnits(t)') = Cardinality(HeldUnits(t)) - Cardinality(UnitsOf(D, t))
    <3>1. Cardinality(HeldUnits(t) \ UnitsOf(D, t))
             = Cardinality(HeldUnits(t)) - Cardinality(HeldUnits(t) \intersect UnitsOf(D, t))
      BY <2>4, FS_Difference
    <3> QED BY <2>1, <2>3, <3>1
  <2>6. TicketsIn(t, "void")' = TicketsIn(t, "void")
    BY VoidKept DEF TicketsKept
  <2>7. sold[t] + Cardinality(TicketsIn(t, "void")) = Cardinality(HeldUnits(t))
    BY DEF StockInv, StockConserved
  <2>8. /\ Cardinality(TicketsIn(t, "void")) \in Nat /\ sold[t] \in Nat
        /\ Cardinality(UnitsOf(D, t)) \in Nat
    BY FiniteTickets, FiniteUnits DEF StockInv, PayInv, TypeOK
  <2> QED BY <2>4, <2>5, <2>6, <2>7, <2>8
<1> QED BY <1>1, RowsStay DEF StockConserved

\* One active row closes and gives its quantity back to its tier.
LEMMA BalanceReturn ==
    ASSUME StockInv, TicketsKept, NEW h \in Holds, Active(h),
           ReturnStock(hold[h].tier, hold[h].quantity),
           NEW s \in {"expired", "released", "refunded"}, hold' = [hold EXCEPT ![h].status = s]
    PROVE  TicketRows' /\ StockConserved'
<1>t. hold \in [Holds -> HoldRow \union {NoHold}] /\ sold \in [Tiers -> Nat]
  BY DEF StockInv, PayInv, TypeOK
<1>1. hold[h] \in HoldRow
  BY <1>t DEF Active, NoHold
<1>2. hold' = [hold EXCEPT ![h] = [hold[h] EXCEPT !.status = s]]
  OBVIOUS
<1>3. /\ hold'[h].status = s /\ hold'[h].tier = hold[h].tier /\ hold'[h].quantity = hold[h].quantity
      /\ \A g \in Holds : g # h => hold'[g] = hold[g]
  BY <1>t, <1>1, <1>2 DEF HoldRow
<1>4. RowsKept
  BY <1>3 DEF RowsKept
<1>5. \A t \in Tiers : sold'[t] = sold[t] - Cardinality(UnitsOf({h}, t))
  <2>1. hold[h].tier \in Tiers /\ hold[h].quantity \in Nat
    BY <1>1, Amounts DEF HoldRow
  <2>2. \A t \in Tiers : sold'[t] = sold[t] - (IF hold[h].tier = t THEN hold[h].quantity ELSE 0)
    BY <1>t, <2>1 DEF ReturnStock
  <2>3. \A t \in Tiers : Cardinality(UnitsOf({h}, t)) = IF hold[h].tier = t THEN hold[h].quantity ELSE 0
    BY <1>1, UnitsOfRow
  <2> QED BY <2>2, <2>3
<1>6. Active(h)' <=> s \in {"held", "confirmed"}
  BY <1>3 DEF Active
<1> QED BY <1>3, <1>4, <1>5, <1>6, BalanceLoss

-----------------------------------------------------------------------------
(* One lemma per group of actions.                                            *)

LEMMA NothingPaid ==
    ASSUME UNCHANGED <<attempt, order, ticket>>
    PROVE  TicketsKept
BY DEF TicketsKept, PaymentsKept, Completed

LEMMA StockInit == Init => TicketRows /\ StockConserved
<1> SUFFICES ASSUME Init PROVE TicketRows /\ StockConserved
  OBVIOUS
<1>1. TicketRows
  BY DEF Init, TicketRows, Completed, NoAttempt
<1>2. ASSUME NEW t \in Tiers
      PROVE  sold[t] + Cardinality(TicketsIn(t, "void")) = Cardinality(HeldUnits(t))
  <2>1. TicketsIn(t, "void") = {} /\ HeldUnits(t) = {}
    BY DEF Init, TicketsIn, HeldUnits, UnitsOf, ActiveHolds, NoHold
  <2>2. sold[t] = 0
    BY DEF Init
  <2> QED BY <2>1, <2>2, FS_EmptySet
<1> QED BY <1>1, <1>2 DEF StockConserved

LEMMA StockLegacy == StockInv /\ LegacyStep => TicketRows' /\ StockConserved'
<1> SUFFICES ASSUME StockInv, LegacyStep PROVE TicketRows' /\ StockConserved'
  OBVIOUS
<1>t. hold \in [Holds -> HoldRow \union {NoHold}] /\ sold \in [Tiers -> Nat]
  BY DEF StockInv, PayInv, TypeOK
<1>k. TicketsKept
  BY NothingPaid DEF LegacyStep, ReserveInventory, ConfirmInventory, ReleaseInventory,
                     ExpireInventory, payments
<1>1. ASSUME NEW h \in Holds, NEW t \in Tiers, NEW q \in Ordinals,
             NEW owned \in BOOLEAN, NEW life \in 1..HoldLife,
             ReserveInventory(h, t, q, owned, life)
      PROVE  TicketRows' /\ StockConserved'
  <2> DEFINE r == NewHold(t, q, "held", owned, life)
  <2>1. r \in HoldRow
    BY Amounts, Deadlines DEF StockInv, PayInv, TypeOK, NewHold, HoldRow, Ordinals
  <2>2. r.status = "held" /\ r.tier = t /\ r.quantity = q
    BY DEF NewHold
  <2>3. Absent(h) /\ hold' = [hold EXCEPT ![h] = r] /\ sold' = [sold EXCEPT ![t] = @ + q]
    BY <1>1 DEF ReserveInventory, TakeStock
  <2> HIDE DEF r
  <2> QED BY <1>k, <2>1, <2>2, <2>3, BalanceGain
<1>2. ASSUME NEW h \in Holds, ConfirmInventory(h)
      PROVE  TicketRows' /\ StockConserved'
  <2>1. hold[h].status = "held" /\ hold' = [hold EXCEPT ![h].status = "confirmed"] /\ UNCHANGED sold
    BY <1>2 DEF ConfirmInventory
  <2>2. hold[h] \in HoldRow /\ hold' = [hold EXCEPT ![h] = [hold[h] EXCEPT !.status = "confirmed"]]
    BY <1>t, <2>1 DEF NoHold
  <2>3. /\ hold'[h].status = "confirmed" /\ hold'[h].tier = hold[h].tier
        /\ hold'[h].quantity = hold[h].quantity
        /\ \A g \in Holds : g # h => hold'[g] = hold[g]
    BY <1>t, <2>2 DEF HoldRow
  <2> QED BY <1>k, <2>1, <2>3, BalanceSame DEF RowsKept, Active
<1>3. ASSUME NEW h \in Holds, NEW s \in {"expired", "released", "refunded"}, ReleaseInventory(h, s)
      PROVE  TicketRows' /\ StockConserved'
  BY <1>k, <1>3, BalanceReturn DEF ReleaseInventory, Active
<1>4. ASSUME NEW D \in SUBSET Holds, ExpireInventory(D)
      PROVE  TicketRows' /\ StockConserved'
  <2>1. \A h \in Holds \ D : hold'[h] = hold[h]
    BY <1>4 DEF ExpireInventory
  <2>2. ASSUME NEW h \in D
        PROVE  /\ Active(h) /\ ~Active(h)'
               /\ hold'[h].tier = hold[h].tier /\ hold'[h].quantity = hold[h].quantity
    <3>1. hold[h].status = "held" /\ hold'[h] = [hold[h] EXCEPT !.status = "expired"]
      BY <1>4 DEF ExpireInventory
    <3>2. hold[h] \in HoldRow
      BY <1>t, <3>1 DEF NoHold
    <3> QED BY <3>1, <3>2 DEF HoldRow, Active
  <2>3. RowsKept
    BY <2>1, <2>2 DEF RowsKept
  <2>4. \A t \in Tiers : sold'[t] = sold[t] - Cardinality(UnitsOf(D, t))
    <3> SUFFICES ASSUME NEW t \in Tiers PROVE sold'[t] = sold[t] - Cardinality(UnitsOf(D, t))
      OBVIOUS
    <3>1. CASE t \in TiersOf(D)
      BY <1>4, <3>1 DEF ExpireInventory
    <3>2. CASE t \notin TiersOf(D)
      <4>1. UnitsOf(D, t) = {}
        BY <3>2 DEF UnitsOf, TiersOf
      <4>2. sold'[t] = sold[t] /\ sold[t] \in Nat
        BY <1>4, <1>t, <3>2 DEF ExpireInventory
      <4> QED BY <4>1, <4>2, FS_EmptySet
    <3> QED BY <3>1, <3>2
  <2> QED BY <1>k, <2>1, <2>2, <2>3, <2>4, BalanceLoss
<1>5. \/ \E h \in Holds, t \in Tiers, q \in Ordinals, owned \in BOOLEAN, life \in 1..HoldLife :
             ReserveInventory(h, t, q, owned, life)
      \/ \E h \in Holds : \/ ConfirmInventory(h)
                          \/ \E r \in {"expired", "released", "refunded"} : ReleaseInventory(h, r)
      \/ \E D \in SUBSET Holds : ExpireInventory(D)
  BY DEF LegacyStep
<1> QED BY <1>1, <1>2, <1>3, <1>4, <1>5

\* A prepared hold is a new row with its stock, or a row that was active before.
LEMMA StockReady ==
    ASSUME StockInv, TicketsKept, NEW h \in Holds, NEW t \in Tiers, NEW q \in Ordinals,
           HoldReady(h, t, q)
    PROVE  TicketRows' /\ StockConserved'
<1>t. hold \in [Holds -> HoldRow \union {NoHold}] /\ sold \in [Tiers -> Nat]
  BY DEF StockInv, PayInv, TypeOK
<1>1. CASE /\ Absent(h) /\ TakeStock(t, q)
           /\ hold' = [hold EXCEPT ![h] = NewHold(t, q, "confirmed", TRUE, HoldLife)]
  <2> DEFINE r == NewHold(t, q, "confirmed", TRUE, HoldLife)
  <2>1. r \in HoldRow
    BY Amounts, Deadlines DEF StockInv, PayInv, TypeOK, NewHold, HoldRow, Ordinals
  <2>2. r.status = "confirmed" /\ r.tier = t /\ r.quantity = q
    BY DEF NewHold
  <2>3. hold' = [hold EXCEPT ![h] = r] /\ sold' = [sold EXCEPT ![t] = @ + q]
    BY <1>1 DEF TakeStock
  <2> HIDE DEF r
  <2> QED BY <1>1, <2>1, <2>2, <2>3, BalanceGain
<1>2. CASE Resumable(h, t, q) /\ hold' = [hold EXCEPT ![h].status = "confirmed"] /\ UNCHANGED sold
  <2>1. hold[h] \in HoldRow /\ Active(h)
    BY <1>t, <1>2 DEF Resumable, NoHold, Active
  <2>2. hold' = [hold EXCEPT ![h] = [hold[h] EXCEPT !.status = "confirmed"]]
    BY <1>2
  <2>3. /\ hold'[h].status = "confirmed" /\ hold'[h].tier = hold[h].tier
        /\ hold'[h].quantity = hold[h].quantity
        /\ \A g \in Holds : g # h => hold'[g] = hold[g]
    BY <1>t, <2>1, <2>2 DEF HoldRow
  <2> QED BY <1>2, <2>1, <2>3, BalanceSame DEF RowsKept, Active
<1> QED BY <1>1, <1>2 DEF HoldReady

\* Steps that leave the stock and the holds alone.
LEMMA StockIdle ==
    ASSUME StockInv, TicketsKept, UNCHANGED <<sold, hold>>
    PROVE  TicketRows' /\ StockConserved'
BY BalanceSame DEF RowsKept, Active

LEMMA StockBuyer == StockInv /\ BuyerStep => TicketRows' /\ StockConserved'
<1> SUFFICES ASSUME StockInv, BuyerStep PROVE TicketRows' /\ StockConserved'
  OBVIOUS
<1>1. ASSUME NEW h \in Holds, NEW t \in Tiers, NEW q \in Ordinals,
             \/ PrepareOwned(h, t, q)
             \/ \E p \in Promotions \union {NoPromotion} : PreparePricedCart(h, t, q, p)
      PROVE  TicketRows' /\ StockConserved'
  <2>1. HoldReady(h, t, q) /\ UNCHANGED payments
    BY <1>1 DEF PrepareOwned, PreparePricedCart, CartReady
  <2> QED BY <2>1, NothingPaid, StockReady DEF payments
<1>2. ASSUME NEW a \in Attempts, NEW h \in Holds, NEW quoted \in BOOLEAN, InsertAttempt(a, h, quoted)
      PROVE  TicketRows' /\ StockConserved'
  <2>1. /\ ~Completed(a) /\ attempt'[a].status = "pending"
        /\ \A b \in Attempts : b # a => attempt'[b] = attempt[b]
    BY <1>2 DEF InsertAttempt, StockInv, PayInv, TypeOK, Completed
  <2>2. TicketsKept
    BY <1>2, <2>1 DEF InsertAttempt, TicketsKept, PaymentsKept, Completed
  <2> QED BY <1>2, <2>2, StockIdle DEF InsertAttempt, rows
<1>3. ASSUME NEW a \in Attempts, NEW h \in Holds,
             InsertLinkedCheckoutAttempt(a, h) \/ BeginPricedPayment(a, h)
      PROVE  TicketRows' /\ StockConserved'
  BY <1>2, <1>3 DEF InsertLinkedCheckoutAttempt, BeginPricedPayment
<1>4. ASSUME NEW a \in Attempts, DispatchRequest(a) \/ LoseDispatcher(a)
      PROVE  TicketRows' /\ StockConserved'
  BY <1>4, NothingPaid, StockIdle DEF DispatchRequest, LoseDispatcher, rows, payments
<1> QED BY <1>1, <1>3, <1>4 DEF BuyerStep

LEMMA StockOther ==
    StockInv /\ (Tick \/ ProviderStep \/ OrganizerStep \/ UNCHANGED vars) => TicketRows' /\ StockConserved'
<1> SUFFICES ASSUME StockInv, Tick \/ ProviderStep \/ OrganizerStep \/ UNCHANGED vars
             PROVE  TicketRows' /\ StockConserved'
  OBVIOUS
<1>1. UNCHANGED <<sold, hold, attempt, order, ticket>>
  BY DEF Tick, ProviderStep, ProviderOpens, ProviderIsPaid, ProviderExpires, SetSession,
         OrganizerStep, SaveTicketTier, SavePromotion, vars, rows, payments
<1> QED BY <1>1, NothingPaid, StockIdle

\* A release closes a confirmed row; the attempt that ends with it was pending.
LEMMA StockRelease == StockInv /\ ReleaseStep => TicketRows' /\ StockConserved'
<1> SUFFICES ASSUME StockInv, ReleaseStep PROVE TicketRows' /\ StockConserved'
  OBVIOUS
<1>t. TypeOK
  BY DEF StockInv, PayInv
<1>1. ASSUME NEW h \in Holds, ReleaseConfirmed(h), TicketsKept
      PROVE  TicketRows' /\ StockConserved'
  BY <1>1, BalanceReturn DEF ReleaseConfirmed, Confirmed, Active
<1>2. ASSUME NEW a \in Attempts, attempt[a].status = "pending", Abandon(a),
             ReleaseConfirmed(attempt[a].hold), UNCHANGED <<order, ticket>>
      PROVE  TicketRows' /\ StockConserved'
  <2>1. /\ attempt'[a].status = "abandoned" /\ \A b \in Attempts : b # a => attempt'[b] = attempt[b]
    BY <1>t, <1>2, AbandonedRow
  <2>2. TicketsKept
    BY <1>2, <2>1 DEF TicketsKept, PaymentsKept, Completed
  <2>3. attempt[a].hold \in Holds
    BY <1>t, <1>2, HoldOfAttempt DEF Present
  <2> QED BY <1>1, <1>2, <2>2, <2>3
<1>3. ASSUME NEW h \in Holds, ReleaseExpiredOrphan(h)
      PROVE  TicketRows' /\ StockConserved'
  BY <1>1, <1>3, NothingPaid DEF ReleaseExpiredOrphan, payments
<1>4. ASSUME NEW h \in Holds, NEW e \in EvidenceKinds, ReleaseUnstartedCart(h, e)
      PROVE  TicketRows' /\ StockConserved'
  BY <1>1, <1>4, NothingPaid DEF ReleaseUnstartedCart, ReleaseCartRows
<1>5. ASSUME NEW a \in Attempts, ReleaseUnsentCart(a)
      PROVE  TicketRows' /\ StockConserved'
  BY <1>2, <1>5 DEF ReleaseUnsentCart, ReleasePayableCart, ReleaseCartRows
<1>6. ASSUME NEW a \in Attempts, NEW seen \in 0..now, ReleaseExpiredCart(a, seen)
      PROVE  TicketRows' /\ StockConserved'
  BY <1>2, <1>6 DEF ReleaseExpiredCart, ReleasePayableCart, ReleaseCartRows
<1>7. ASSUME NEW a \in Attempts, NEW seen \in 0..now,
             ReleaseExpiredV2(a, seen) \/ ReleaseOwnedExpiredV2(a, seen)
      PROVE  TicketRows' /\ StockConserved'
  BY <1>2, <1>7 DEF ReleaseExpiredV2, ReleaseOwnedExpiredV2, ReleaseExpiredAttempt
<1> QED BY <1>3, <1>4, <1>5, <1>6, <1>7 DEF ReleaseStep

\* Issuing gives every unit of the hold a ticket and voids nothing.
LEMMA StockFinalize ==
    ASSUME StockInv, NEW a \in Attempts, NEW b \in BOOLEAN, FinalizePaid(a, b)
    PROVE  TicketRows' /\ StockConserved'
<1> DEFINE h == attempt[a].hold
<1>t. TypeOK
  BY DEF StockInv, PayInv
<1>1. /\ attempt[a].status = "pending" /\ UNCHANGED <<sold, hold>>
      /\ attempt' = [attempt EXCEPT ![a].status = "completed"]
      /\ order' = [order EXCEPT ![a] = IF b THEN "refundable" ELSE "final"]
      /\ ticket' = [k \in Attempts \X Ordinals |->
             IF k[1] = a /\ k[2] <= hold[h].quantity THEN "issued" ELSE ticket[k]]
  BY DEF FinalizePaid, rows
<1>2. attempt[a] \in AttemptRow
  BY <1>t, <1>1, AttemptPresent
<1>3. /\ attempt'[a].status = "completed" /\ attempt'[a].hold = h
      /\ \A c \in Attempts : c # a => attempt'[c] = attempt[c]
  BY <1>t, <1>1, <1>2 DEF TypeOK, AttemptRow
<1>4. RowsKept /\ \A g \in Holds : Active(g)' <=> Active(g)
  BY <1>1 DEF RowsKept, Active
<1>5. PaymentsKept
  BY <1>3 DEF PaymentsKept, Completed
<1>6. \A k \in Ordinals : ticket[<<a, k>>] = "none"
  BY <1>1 DEF StockInv, TicketRows, Completed
<1>7. ASSUME NEW c \in Attempts, NEW k \in Ordinals
      PROVE  ticket'[<<c, k>>] = IF c = a /\ k <= hold[h].quantity THEN "issued" ELSE ticket[<<c, k>>]
  BY <1>1
<1>8. TicketRows'
  <2>1. \A c \in Attempts : order'[c] # "none" <=> Completed(c)'
    BY <1>t, <1>1, <1>3 DEF StockInv, TicketRows, TypeOK, Completed
  <2>2. ASSUME NEW c \in Attempts, NEW k \in Ordinals
        PROVE  ticket'[<<c, k>>] # "none" <=> Completed(c)' /\ k <= hold'[attempt'[c].hold].quantity
    <3>1. CASE c = a
      BY <1>1, <1>3, <1>6, <1>7, <3>1 DEF Completed
    <3>2. CASE c # a
      BY <1>1, <1>3, <1>7, <3>2 DEF StockInv, TicketRows, Completed
    <3> QED BY <3>1, <3>2
  <2> QED BY <2>1, <2>2 DEF TicketRows
<1>9. \A k \in Attempts \X Ordinals : ticket'[k] = "void" <=> ticket[k] = "void"
  BY <1>6, <1>7
<1>10. StockConserved'
  BY <1>1, <1>4, <1>5, <1>9, VoidKept, UnitsSame DEF StockInv, StockConserved
<1> QED BY <1>8, <1>10

\* A reversal voids as many tickets as it gives back, of one tier.
LEMMA StockReverse ==
    ASSUME StockInv, NEW a \in Attempts, NEW S \in SUBSET Ordinals, ReverseRefundedTickets(a, S)
    PROVE  TicketRows' /\ StockConserved'
<1> DEFINE r == hold[attempt[a].hold].tier
<1>t. sold \in [Tiers -> Nat]
  BY DEF StockInv, PayInv, TypeOK
<1>1. /\ \A k \in S : ticket[<<a, k>>] = "issued"
      /\ ReturnStock(r, Cardinality(S)) /\ UNCHANGED <<hold, attempt, order>>
      /\ Completed(a)
  BY DEF ReverseRefundedTickets
<1>2. ASSUME NEW c \in Attempts, NEW k \in Ordinals
      PROVE  ticket'[<<c, k>>] = IF c = a /\ k \in S THEN "void" ELSE ticket[<<c, k>>]
  BY DEF ReverseRefundedTickets
<1>3. TicketRows'
  BY <1>1, <1>2 DEF StockInv, TicketRows, Completed
<1>4. RowsKept /\ \A g \in Holds : Active(g)' <=> Active(g)
  BY <1>1 DEF RowsKept, Active
<1>5. Cardinality(S) \in Nat
  BY FiniteOrdinals
<1>6. ASSUME NEW t \in Tiers
      PROVE  sold'[t] + Cardinality(TicketsIn(t, "void")') = Cardinality(HeldUnits(t)')
  <2>1. Cardinality(HeldUnits(t)') = Cardinality(HeldUnits(t))
    BY <1>4, UnitsSame
  <2>2. sold[t] + Cardinality(TicketsIn(t, "void")) = Cardinality(HeldUnits(t))
    BY DEF StockInv, StockConserved
  <2>3. Cardinality(TicketsIn(t, "void")) \in Nat /\ IsFiniteSet(TicketsIn(t, "void"))
    BY FiniteTickets
  <2>4. CASE t = r
    <3>1. TicketsIn(t, "void")' = TicketsIn(t, "void") \union ({a} \X S)
      BY <1>1, <1>2, <2>4 DEF TicketsIn, Completed
    <3>2. TicketsIn(t, "void") \intersect ({a} \X S) = {}
      BY <1>1 DEF TicketsIn
    <3>3. IsFiniteSet({a} \X S) /\ Cardinality({a} \X S) = Cardinality(S)
      BY RowOrdinals
    <3>4. Cardinality(TicketsIn(t, "void")') = Cardinality(TicketsIn(t, "void")) + Cardinality(S)
      BY <2>3, <3>1, <3>2, <3>3, DisjointUnion
    <3>5. sold'[t] = sold[t] - Cardinality(S)
      BY <1>t, <1>1, <2>4 DEF ReturnStock
    <3> QED BY <1>t, <1>5, <2>1, <2>2, <2>3, <3>4, <3>5
  <2>5. CASE t # r
    <3>1. TicketsIn(t, "void")' = TicketsIn(t, "void")
      BY <1>1, <1>2, <2>5 DEF TicketsIn
    <3>2. sold'[t] = sold[t]
      BY <1>t, <1>1, <2>5 DEF ReturnStock
    <3> QED BY <2>1, <2>2, <3>1, <3>2
  <2> QED BY <2>4, <2>5
<1> QED BY <1>3, <1>6 DEF StockConserved

LEMMA StockPaid == StockInv /\ PaidStep => TicketRows' /\ StockConserved'
<1> SUFFICES ASSUME StockInv, PaidStep PROVE TicketRows' /\ StockConserved'
  OBVIOUS
<1>1. ASSUME NEW a \in Attempts, RecordPaymentCorrelation(a)
      PROVE  TicketRows' /\ StockConserved'
  <2>1. attempt[a] \in AttemptRow
    BY <1>1, AttemptPresent DEF StockInv, PayInv, RecordPaymentCorrelation, Completed
  <2>2. \A b \in Attempts : /\ attempt'[b].status = attempt[b].status
                            /\ attempt'[b].hold = attempt[b].hold
    BY <1>1, <2>1 DEF RecordPaymentCorrelation, StockInv, PayInv, TypeOK, AttemptRow
  <2>3. TicketsKept
    BY <1>1, <2>2 DEF RecordPaymentCorrelation, TicketsKept, PaymentsKept, Completed
  <2> QED BY <1>1, <2>3, StockIdle DEF RecordPaymentCorrelation, rows
<1>2. ASSUME NEW a \in Attempts, RecordPaidDelivery(a)
      PROVE  TicketRows' /\ StockConserved'
  BY <1>2, NothingPaid, StockIdle DEF RecordPaidDelivery, rows
<1> QED BY <1>1, <1>2, StockFinalize, StockReverse DEF PaidStep

LEMMA StockStep == StockInv /\ [Next]_vars => StockInv'
<1> SUFFICES ASSUME StockInv, [Next]_vars PROVE StockInv'
  OBVIOUS
<1>1. PayInv'
  BY PayStep DEF StockInv
<1>2. TicketRows' /\ StockConserved'
  BY StockLegacy, StockBuyer, StockPaid, StockRelease, StockOther DEF Next
<1> QED BY <1>1, <1>2 DEF StockInv

THEOREM StockInvariant == Spec => []StockInv
<1>1. Init => StockInv
  BY PayInit, StockInit DEF StockInv
<1> QED BY <1>1, StockStep, PTL DEF Spec

\* quantity_sold is what the rows say, whichever functions wrote it.
THEOREM StockAlwaysConserved == Spec => []StockConserved
<1>1. StockInv => StockConserved
  BY DEF StockInv
<1> QED BY <1>1, StockInvariant, PTL

-----------------------------------------------------------------------------
(* Capacity.  The counter is the tickets in buyers' hands plus the units that *)
(* are still held for a buyer: the tickets of a tier, void or not, correspond *)
(* one to one to the units of the paid holds.                                 *)

OpenHolds == {h \in ActiveHolds : \A a \in LinkedTo(h) : order[a] = "none"}
PaidHolds == ActiveHolds \ OpenHolds

LEMMA TicketsArePaidUnits ==
    ASSUME StockInv, NEW t
    PROVE  Cardinality(UnitsOf(PaidHolds, t))
              = Cardinality(TicketsIn(t, "issued")) + Cardinality(TicketsIn(t, "void"))
<1> DEFINE X == TicketsIn(t, "issued") \union TicketsIn(t, "void")
           U == UnitsOf(PaidHolds, t)
           f == [k \in X |-> <<attempt[k[1]].hold, k[2]>>]
<1>1. ASSUME NEW a \in Attempts, NEW k \in Ordinals, <<a, k>> \in X
      PROVE  /\ Completed(a) /\ attempt[a].hold \in PaidHolds
             /\ <<attempt[a].hold, k>> \in U
  <2>1. Completed(a) /\ k <= hold[attempt[a].hold].quantity /\ order[a] # "none"
        /\ hold[attempt[a].hold].tier = t
    BY <1>1 DEF TicketsIn, StockInv, TicketRows
  <2>2. attempt[a].hold \in Holds /\ a \in LinkedTo(attempt[a].hold)
    BY <2>1, CompletedHold DEF StockInv, LinkedTo, Completed
  <2>3. attempt[a].hold \in ActiveHolds
    BY <2>1, <2>2 DEF StockInv, PayInv, LiveAttemptKeepsHold, Confirmed, Completed, ActiveHolds
  <2> QED BY <2>1, <2>2, <2>3 DEF UnitsOf, PaidHolds, OpenHolds
<1>2. \A x \in X : \E a \in Attempts, k \in Ordinals : x = <<a, k>>
  BY DEF TicketsIn
<1>3. f \in Injection(X, U)
  <2>1. f \in [X -> U]
    BY <1>1, <1>2
  <2>2. ASSUME NEW a \in Attempts, NEW b \in Attempts, NEW i \in Ordinals, NEW k \in Ordinals,
               <<a, i>> \in X, <<b, k>> \in X, f[<<a, i>>] = f[<<b, k>>]
        PROVE  <<a, i>> = <<b, k>>
    <3>1. attempt[a].hold = attempt[b].hold /\ i = k
      BY <2>2
    <3>2. Present(a) /\ Present(b)
      BY <1>1, <2>2 DEF Completed, Present
    <3> QED BY <3>1, <3>2 DEF StockInv, PayInv, OneAttemptPerHold
  <2> HIDE DEF X, U, f
  <2>3. \A x, y \in X : f[x] = f[y] => x = y
    BY <1>2, <2>2
  <2> QED BY <2>1, <2>3 DEF Injection, IsInjective
<1>4. f \in Surjection(X, U)
  <2>1. ASSUME NEW h \in PaidHolds, NEW k \in Ordinals, <<h, k>> \in U
        PROVE  \E x \in X : f[x] = <<h, k>>
    <3>1. PICK a \in LinkedTo(h) : order[a] # "none"
      BY DEF PaidHolds, OpenHolds
    <3>2. a \in Attempts /\ attempt[a].hold = h /\ attempt[a].status # "absent" /\ Completed(a)
      BY <3>1 DEF LinkedTo, StockInv, TicketRows
    <3>3. hold[h].tier = t /\ k <= hold[h].quantity
      BY <2>1 DEF UnitsOf
    <3>4. ticket[<<a, k>>] \in {"issued", "void"}
      BY <3>2, <3>3 DEF StockInv, PayInv, TypeOK, TicketRows
    <3>5. <<a, k>> \in X
      BY <3>2, <3>3, <3>4 DEF TicketsIn
    <3> QED BY <3>2, <3>5
  <2>2. \A u \in U : \E h \in PaidHolds, k \in Ordinals : u = <<h, k>>
    BY DEF UnitsOf
  <2>3. f \in [X -> U]
    BY <1>1, <1>2
  <2> HIDE DEF X, U, f
  <2>4. \A u \in U : \E x \in X : f[x] = u
    BY <2>1, <2>2
  <2> QED BY <2>3, <2>4 DEF Surjection
<1>5. ExistsBijection(X, U)
  BY <1>3, <1>4 DEF ExistsBijection, Bijection
<1>6. TicketsIn(t, "issued") \intersect TicketsIn(t, "void") = {}
  BY DEF TicketsIn
<1>7. /\ IsFiniteSet(X)
      /\ Cardinality(X) = Cardinality(TicketsIn(t, "issued")) + Cardinality(TicketsIn(t, "void"))
  BY <1>6, FiniteTickets, DisjointUnion
<1> HIDE DEF X, U, f
<1>8. Cardinality(U) = Cardinality(X)
  BY <1>5, <1>7, FS_Bijection
<1> QED BY <1>7, <1>8 DEF U

LEMMA SoldIsIssuedOrOpen ==
    ASSUME StockInv, NEW t \in Tiers
    PROVE  /\ sold[t] = Cardinality(TicketsIn(t, "issued")) + Cardinality(UnitsOf(OpenHolds, t))
           /\ Cardinality(TicketsIn(t, "issued")) \in Nat
           /\ Cardinality(UnitsOf(OpenHolds, t)) \in Nat
<1>1. HeldUnits(t) = UnitsOf(PaidHolds, t) \union UnitsOf(OpenHolds, t)
  BY DEF HeldUnits, UnitsOf, PaidHolds, OpenHolds
<1>2. UnitsOf(PaidHolds, t) \intersect UnitsOf(OpenHolds, t) = {}
  BY DEF UnitsOf, PaidHolds
<1>3. PaidHolds \in SUBSET Holds /\ OpenHolds \in SUBSET Holds
  BY DEF PaidHolds, OpenHolds, ActiveHolds
<1>4. /\ IsFiniteSet(UnitsOf(PaidHolds, t)) /\ Cardinality(UnitsOf(PaidHolds, t)) \in Nat
      /\ IsFiniteSet(UnitsOf(OpenHolds, t)) /\ Cardinality(UnitsOf(OpenHolds, t)) \in Nat
  BY <1>3, FiniteUnits
<1>5. Cardinality(HeldUnits(t)) = Cardinality(UnitsOf(PaidHolds, t)) + Cardinality(UnitsOf(OpenHolds, t))
  BY <1>1, <1>2, <1>4, DisjointUnion
<1>6. sold[t] + Cardinality(TicketsIn(t, "void")) = Cardinality(HeldUnits(t)) /\ sold[t] \in Nat
  BY DEF StockInv, StockConserved, PayInv, TypeOK
<1>7. Cardinality(TicketsIn(t, "issued")) \in Nat /\ Cardinality(TicketsIn(t, "void")) \in Nat
  BY FiniteTickets
<1> QED BY <1>4, <1>5, <1>6, <1>7, TicketsArePaidUnits

\* No release and no reversal can find the counter too small.
THEOREM CounterAlwaysCovers == Spec => []CounterCoversReleases
<1>1. StockInv => CounterCoversReleases
  <2> SUFFICES ASSUME StockInv PROVE CounterCoversReleases
    OBVIOUS
  <2>t. TypeOK
    BY DEF StockInv, PayInv
  <2>1. ASSUME NEW h \in ActiveHolds, \A a \in LinkedTo(h) : order[a] = "none"
        PROVE  sold[hold[h].tier] >= hold[h].quantity
    <3> DEFINE t == hold[h].tier
    <3>1. h \in Holds /\ h \in OpenHolds /\ hold[h] \in HoldRow
      BY <2>t, <2>1, HoldPresent DEF ActiveHolds, OpenHolds, Absent
    <3>2. t \in Tiers /\ hold[h].quantity \in Nat
      BY <3>1, Amounts DEF HoldRow
    <3>3. UnitsOf({h}, t) \subseteq UnitsOf(OpenHolds, t) /\ OpenHolds \in SUBSET Holds
      BY <3>1 DEF UnitsOf, OpenHolds, ActiveHolds
    <3>4. Cardinality(UnitsOf({h}, t)) = hold[h].quantity
      BY <3>1, UnitsOfRow
    <3>5. Cardinality(UnitsOf({h}, t)) <= Cardinality(UnitsOf(OpenHolds, t))
      BY <3>3, FiniteUnits, FS_Subset
    <3>6. /\ sold[t] = Cardinality(TicketsIn(t, "issued")) + Cardinality(UnitsOf(OpenHolds, t))
          /\ Cardinality(TicketsIn(t, "issued")) \in Nat
          /\ Cardinality(UnitsOf(OpenHolds, t)) \in Nat
      BY <3>2, SoldIsIssuedOrOpen
    <3> HIDE DEF t
    <3> QED BY <3>2, <3>4, <3>5, <3>6 DEF t
  <2>2. ASSUME NEW a \in Attempts, order[a] # "none"
        PROVE  sold[hold[attempt[a].hold].tier]
                  >= Cardinality({k \in Ordinals : ticket[<<a, k>>] = "issued"})
    <3> DEFINE t == hold[attempt[a].hold].tier
               S == {k \in Ordinals : ticket[<<a, k>>] = "issued"}
    <3>1. Completed(a) /\ attempt[a].hold \in Holds /\ ~Absent(attempt[a].hold)
      BY <2>2, CompletedHold DEF StockInv, TicketRows
    <3>2. t \in Tiers
      BY <2>t, <3>1, HoldPresent DEF HoldRow
    <3>3. {a} \X S \subseteq TicketsIn(t, "issued")
      BY <3>1 DEF TicketsIn, Completed
    <3>4. Cardinality({a} \X S) = Cardinality(S) /\ Cardinality(S) \in Nat
      BY RowOrdinals, FiniteOrdinals
    <3>5. Cardinality({a} \X S) <= Cardinality(TicketsIn(t, "issued"))
      BY <3>3, FiniteTickets, FS_Subset
    <3>6. /\ sold[t] = Cardinality(TicketsIn(t, "issued")) + Cardinality(UnitsOf(OpenHolds, t))
          /\ Cardinality(TicketsIn(t, "issued")) \in Nat
          /\ Cardinality(UnitsOf(OpenHolds, t)) \in Nat
      BY <3>2, SoldIsIssuedOrOpen
    <3> HIDE DEF t, S
    <3>7. sold[t] >= Cardinality(S)
      BY <3>4, <3>5, <3>6
    <3> QED BY <3>7 DEF t, S
  <2> QED BY <2>1, <2>2 DEF CounterCoversReleases
<1> QED BY <1>1, StockInvariant, PTL

-----------------------------------------------------------------------------
(* No tier is oversold.                                                       *)

WithinCapacity == \A t \in Tiers : sold[t] <= tier[t].total

LEMMA CapacityStep == StockInv /\ WithinCapacity /\ [Next]_vars => WithinCapacity'
<1> SUFFICES ASSUME StockInv, WithinCapacity, [Next]_vars PROVE WithinCapacity'
  OBVIOUS
<1>t. /\ sold \in [Tiers -> Nat] /\ \A t \in Tiers : tier[t].total \in Nat
      /\ tier \in [Tiers -> [total : 0..MaxCapacity, active : BOOLEAN]]
  BY Amounts DEF StockInv, PayInv, TypeOK
<1>1. ASSUME NEW t \in Tiers, NEW q \in Ordinals, TakeStock(t, q), UNCHANGED tier
      PROVE  WithinCapacity'
  BY <1>t, <1>1 DEF TakeStock, WithinCapacity
<1>2. ASSUME NEW t, NEW q \in Nat, ReturnStock(t, q), UNCHANGED tier
      PROVE  WithinCapacity'
  BY <1>t, <1>2 DEF ReturnStock, WithinCapacity
<1>3. ASSUME UNCHANGED <<sold, tier>>
      PROVE  WithinCapacity'
  BY <1>3 DEF WithinCapacity
<1>4. ASSUME NEW h, ~Absent(h), h \in Holds, ReleaseConfirmed(h), UNCHANGED tier
      PROVE  WithinCapacity'
  BY <1>2, <1>4, HoldPresent, Amounts DEF ReleaseConfirmed, StockInv, PayInv, HoldRow
<1>5. CASE LegacyStep
  <2>1. ASSUME NEW h \in Holds, NEW t \in Tiers, NEW q \in Ordinals,
               NEW owned \in BOOLEAN, NEW life \in 1..HoldLife,
               ReserveInventory(h, t, q, owned, life)
        PROVE  WithinCapacity'
    BY <1>1, <2>1 DEF ReserveInventory
  <2>2. ASSUME NEW h \in Holds, ConfirmInventory(h)
        PROVE  WithinCapacity'
    BY <1>3, <2>2 DEF ConfirmInventory
  <2>3. ASSUME NEW h \in Holds, NEW s \in {"expired", "released", "refunded"}, ReleaseInventory(h, s)
        PROVE  WithinCapacity'
    <3>1. hold[h].quantity \in Nat
      BY <2>3, HoldPresent, Amounts DEF ReleaseInventory, Absent, StockInv, PayInv, HoldRow
    <3> QED BY <1>2, <2>3, <3>1 DEF ReleaseInventory
  <2>4. ASSUME NEW D \in SUBSET Holds, ExpireInventory(D)
        PROVE  WithinCapacity'
    <3>1. \A t \in Tiers : sold'[t] <= sold[t] /\ tier'[t] = tier[t] /\ sold'[t] \in Int
      BY <1>t, <2>4, FiniteUnits DEF ExpireInventory
    <3> QED BY <1>t, <3>1 DEF WithinCapacity
  <2> QED BY <1>5, <2>1, <2>2, <2>3, <2>4 DEF LegacyStep
<1>6. CASE BuyerStep
  <2>1. ASSUME NEW h \in Holds, NEW t \in Tiers, NEW q \in Ordinals,
               \/ PrepareOwned(h, t, q)
               \/ \E p \in Promotions \union {NoPromotion} : PreparePricedCart(h, t, q, p)
        PROVE  WithinCapacity'
    BY <1>1, <1>3, <2>1 DEF PrepareOwned, PreparePricedCart, CartReady, HoldReady
  <2>2. ASSUME NEW a \in Attempts, NEW h \in Holds,
               InsertLinkedCheckoutAttempt(a, h) \/ BeginPricedPayment(a, h)
        PROVE  WithinCapacity'
    BY <1>3, <2>2 DEF InsertLinkedCheckoutAttempt, BeginPricedPayment, InsertAttempt, rows
  <2>3. ASSUME NEW a \in Attempts, DispatchRequest(a) \/ LoseDispatcher(a)
        PROVE  WithinCapacity'
    BY <1>3, <2>3 DEF DispatchRequest, LoseDispatcher, rows
  <2> QED BY <1>6, <2>1, <2>2, <2>3 DEF BuyerStep
<1>7. CASE PaidStep
  <2>1. ASSUME NEW a \in Attempts, NEW S \in SUBSET Ordinals, ReverseRefundedTickets(a, S)
        PROVE  WithinCapacity'
    BY <1>2, <2>1, FiniteOrdinals DEF ReverseRefundedTickets
  <2>2. ASSUME NEW a \in Attempts, NEW b \in BOOLEAN,
               FinalizePaid(a, b) \/ RecordPaymentCorrelation(a) \/ RecordPaidDelivery(a)
        PROVE  WithinCapacity'
    BY <1>3, <2>2 DEF FinalizePaid, RecordPaymentCorrelation, RecordPaidDelivery, rows
  <2> QED BY <1>7, <2>1, <2>2 DEF PaidStep
<1>8. CASE ReleaseStep
  <2>1. ASSUME NEW h \in Holds, ReleaseConfirmed(h), UNCHANGED tier
        PROVE  WithinCapacity'
    BY <1>4, <2>1 DEF ReleaseConfirmed, Confirmed, Absent
  <2>2. ASSUME NEW a \in Attempts, attempt[a].status = "pending",
               ReleaseConfirmed(attempt[a].hold), UNCHANGED tier
        PROVE  WithinCapacity'
    BY <2>1, <2>2, HoldOfAttempt DEF StockInv, PayInv, Present
  <2>3. ASSUME NEW h \in Holds, NEW e \in EvidenceKinds, ReleaseUnstartedCart(h, e)
        PROVE  WithinCapacity'
    BY <2>1, <2>3 DEF ReleaseUnstartedCart, ReleaseCartRows
  <2>4. ASSUME NEW a \in Attempts, NEW seen \in 0..now,
               \/ ReleaseExpiredV2(a, seen) \/ ReleaseOwnedExpiredV2(a, seen)
               \/ ReleaseExpiredCart(a, seen)
        PROVE  WithinCapacity'
    BY <2>2, <2>4 DEF ReleaseExpiredV2, ReleaseOwnedExpiredV2, ReleaseExpiredAttempt,
                      ReleaseExpiredCart, ReleasePayableCart, ReleaseCartRows
  <2>5. ASSUME NEW a \in Attempts, ReleaseUnsentCart(a)
        PROVE  WithinCapacity'
    BY <2>2, <2>5 DEF ReleaseUnsentCart, ReleasePayableCart, ReleaseCartRows
  <2>6. ASSUME NEW h \in Holds, ReleaseExpiredOrphan(h)
        PROVE  WithinCapacity'
    BY <2>1, <2>6 DEF ReleaseExpiredOrphan
  <2> QED BY <1>8, <2>3, <2>4, <2>5, <2>6 DEF ReleaseStep
<1>9. CASE OrganizerStep
  <2>1. ASSUME NEW t \in Tiers, NEW total \in 0..MaxCapacity, NEW active \in BOOLEAN,
               SaveTicketTier(t, total, active)
        PROVE  WithinCapacity'
    BY <1>t, <2>1 DEF SaveTicketTier, WithinCapacity
  <2>2. ASSUME NEW p \in Promotions, NEW open \in BOOLEAN, NEW max \in 1..MaxLimit,
               SavePromotion(p, open, max)
        PROVE  WithinCapacity'
    BY <1>3, <2>2 DEF SavePromotion, rows
  <2> QED BY <1>9, <2>1, <2>2 DEF OrganizerStep
<1>10. CASE Tick \/ ProviderStep \/ UNCHANGED vars
  BY <1>3, <1>10 DEF Tick, ProviderStep, ProviderOpens, ProviderIsPaid, ProviderExpires, SetSession,
                     vars, rows
<1> QED BY <1>5, <1>6, <1>7, <1>8, <1>9, <1>10 DEF Next

\* Tickets in buyers' hands and units held for a buyer fit in the capacity.
THEOREM NeverSoldTwice == Spec => []NeverOversold
<1>1. Init => WithinCapacity
  BY Amounts DEF Init, WithinCapacity
<1>2. Spec => []WithinCapacity
  BY <1>1, CapacityStep, StockInvariant, PTL DEF Spec
<1>3. StockInv /\ WithinCapacity => NeverOversold
  <2> SUFFICES ASSUME StockInv, WithinCapacity, NEW t \in Tiers
               PROVE  Cardinality(TicketsIn(t, "issued")) + Cardinality(UnitsOf(OpenHolds, t))
                         <= tier[t].total
    BY DEF NeverOversold, OpenHolds
  <2> QED BY SoldIsIssuedOrOpen DEF WithinCapacity
<1> QED BY <1>2, <1>3, StockInvariant, PTL

-----------------------------------------------------------------------------
(* Priced carts.  RedemptionFollowsPurchase and QuotedReleaseRecorded are not *)
(* inductive: they need that a quoted hold is open or released, by the step   *)
(* that wrote its record, and that a hold without a quote has neither a use   *)
(* of a code nor a record.                                                    *)

Paid(h)    == \E a \in LinkedTo(h) : Completed(a)
GivenUp(h) == \E a \in LinkedTo(h) : attempt[a].status = "abandoned"

BlankCart(h) == redemption[h] = "none" /\ expiryRecord[h] = "none"

RecordedCart(h) ==
    /\ hold[h].status \in {"confirmed", "released"}
    /\ expiryRecord[h] # "none" <=> hold[h].status = "released"
    /\ expiryRecord[h] \in {"never_started", "start_window_closed"} => LinkedTo(h) = {}
    /\ expiryRecord[h] \in {"request_never_sent", "test_expired_unpaid_null_intent"} => GivenUp(h)

SettledCart(h) ==
    /\ quote[h] = NoPromotion => redemption[h] = "none"
    /\ quote[h] \in Promotions =>
          /\ redemption[h] = "consumed" <=> Paid(h)
          /\ redemption[h] = "released" <=> hold[h].status = "released"
          /\ redemption[h] # "none"

CartRow(h) == IF Quoted(h) THEN RecordedCart(h) /\ SettledCart(h) ELSE BlankCart(h)

CartInv == StockInv /\ \A h \in Holds : CartRow(h)

LEMMA CartInit == Init => \A h \in Holds : CartRow(h)
BY DEF Init, CartRow, BlankCart, Quoted

\* A quoted cart whose rows and attempts a step leaves alone.
AttemptsKept(h) ==
    LinkedTo(h)' = LinkedTo(h) /\ \A a \in LinkedTo(h) : attempt'[a].status = attempt[a].status

LEMMA CartFrame ==
    ASSUME NEW h \in Holds, CartRow(h), quote'[h] = quote[h], redemption'[h] = redemption[h],
           expiryRecord'[h] = expiryRecord[h],
           Quoted(h) => hold'[h].status = hold[h].status /\ AttemptsKept(h)
    PROVE  CartRow(h)'
BY DEF CartRow, BlankCart, RecordedCart, SettledCart, Quoted, AttemptsKept, Paid, GivenUp, Completed

\* A step on one attempt leaves the attempts of every other hold alone.
LEMMA AttemptsElsewhere ==
    ASSUME NEW a \in Attempts, NEW h \in Holds,
           \A b \in Attempts : b # a => attempt'[b] = attempt[b],
           ~(Present(a) /\ attempt[a].hold = h), ~(Present(a)' /\ attempt'[a].hold = h)
    PROVE  AttemptsKept(h)
BY DEF AttemptsKept, LinkedTo, Present

\* The hold of an attempt has no other.
LEMMA OnlyAttempt ==
    ASSUME PayInv, NEW a \in Attempts, Present(a)
    PROVE  LinkedTo(attempt[a].hold) = {a}
BY DEF PayInv, OneAttemptPerHold, LinkedTo, Present

LEMMA CartLegacy == CartInv /\ LegacyStep => \A h \in Holds : CartRow(h)'
<1> SUFFICES ASSUME CartInv, LegacyStep, NEW h \in Holds PROVE CartRow(h)'
  OBVIOUS
<1>1. UNCHANGED <<attempt, quote, redemption, expiryRecord>>
  BY DEF LegacyStep, ReserveInventory, ConfirmInventory, ReleaseInventory, ExpireInventory,
         carts, payments
<1>2. AttemptsKept(h)
  BY <1>1 DEF AttemptsKept, LinkedTo
<1>3. Quoted(h) => hold'[h].status = hold[h].status
  BY LegacyRows DEF CartInv, CartRow, RecordedCart, StockInv, PayInv
<1> QED BY <1>1, <1>2, <1>3, CartFrame DEF CartInv

\* A hold that is made ready was not quoted and released before.
LEMMA CartPrepare ==
    ASSUME CartInv, NEW h \in Holds, NEW t \in Tiers, NEW q \in Ordinals,
           \/ PrepareOwned(h, t, q)
           \/ \E p \in Promotions \union {NoPromotion} : PreparePricedCart(h, t, q, p),
           NEW g \in Holds
    PROVE  CartRow(g)'
<1>t. TypeOK
  BY DEF CartInv, StockInv, PayInv
<1>1. HoldReady(h, t, q) /\ UNCHANGED <<attempt, expiryRecord>>
  BY DEF PrepareOwned, PreparePricedCart, CartReady, payments, carts
<1>2. hold'[h].status = "confirmed" /\ (g # h => hold'[g] = hold[g])
  BY <1>t, <1>1, ReadyHold
<1>3. Quoted(h) => hold[h].status = "confirmed"
  BY <1>1 DEF CartInv, CartRow, RecordedCart, HoldReady, Absent, Resumable
<1>4. AttemptsKept(g)
  BY <1>1 DEF AttemptsKept, LinkedTo
<1>5. CASE PrepareOwned(h, t, q)
  BY <1>1, <1>2, <1>3, <1>4, <1>5, CartFrame DEF CartInv, PrepareOwned, carts
<1>6. ASSUME NEW p \in Promotions \union {NoPromotion}, PreparePricedCart(h, t, q, p)
      PROVE  CartRow(g)'
  <2>1. /\ quote' = [quote EXCEPT ![h] = p] /\ ~Quoted(h) /\ LinkedTo(h) = {}
        /\ redemption' = [redemption EXCEPT ![h] = IF p = NoPromotion THEN "none" ELSE "reserved"]
    BY <1>6 DEF PreparePricedCart, SaveQuote
  <2>2. CASE g = h
    <3>1. /\ quote'[h] = p /\ redemption'[h] = IF p = NoPromotion THEN "none" ELSE "reserved"
          /\ expiryRecord'[h] = "none"
      BY <1>t, <1>1, <2>1 DEF TypeOK, CartInv, CartRow, BlankCart
    <3>2. LinkedTo(h)' = {}
      BY <1>1, <2>1 DEF LinkedTo
    <3>3. RecordedCart(h)'
      BY <1>2, <3>1 DEF RecordedCart
    <3>4. SettledCart(h)'
      BY <1>2, <3>1, <3>2, NoCode DEF SettledCart, Paid
    <3>5. Quoted(h)'
      BY <3>1, NoCode DEF Quoted
    <3> QED BY <2>2, <3>3, <3>4, <3>5 DEF CartRow
  <2>3. CASE g # h
    <3>1. quote'[g] = quote[g] /\ redemption'[g] = redemption[g]
      BY <1>t, <2>1, <2>3 DEF TypeOK
    <3> QED BY <1>1, <1>2, <1>4, <2>3, <3>1, CartFrame DEF CartInv
  <2> QED BY <2>2, <2>3
<1> QED BY <1>5, <1>6

\* The first attempt of a quoted cart finds it open and its code reserved.
LEMMA CartInsert ==
    ASSUME CartInv, NEW a \in Attempts, NEW h \in Holds, NEW quoted \in BOOLEAN,
           InsertAttempt(a, h, quoted), NEW g \in Holds
    PROVE  CartRow(g)'
<1>t. TypeOK
  BY DEF CartInv, StockInv, PayInv
<1>1. UNCHANGED <<hold, quote, redemption, expiryRecord>>
  BY DEF InsertAttempt, rows, carts
<1>2. /\ attempt'[a].status = "pending" /\ attempt'[a].hold = h
      /\ \A b \in Attempts : b # a => attempt'[b] = attempt[b]
  BY <1>t DEF InsertAttempt, TypeOK
<1>3. CASE g = h /\ Quoted(h)
  <2>1. Confirmed(h) /\ (quote[h] \in Promotions => redemption[h] = "reserved") /\ LinkedTo(h) = {}
    BY DEF InsertAttempt, LinkableHold, PriceMatches
  <2>2. RecordedCart(h) /\ SettledCart(h)
    BY <1>3 DEF CartInv, CartRow
  <2>3. RecordedCart(h)'
    BY <1>1, <2>1, <2>2 DEF RecordedCart, Confirmed
  <2>4. ~Paid(h)'
    <3>1. \A b \in Attempts : b # a => b \notin LinkedTo(h)'
      BY <1>2, <2>1 DEF LinkedTo
    <3> QED BY <1>2, <3>1 DEF Paid, LinkedTo, Completed
  <2>5. SettledCart(h)'
    BY <1>1, <2>1, <2>2, <2>4 DEF SettledCart, Confirmed
  <2> QED BY <1>1, <1>3, <2>3, <2>5 DEF CartRow, Quoted
<1>4. CASE g # h
  <2>1. ~Present(a)
    BY DEF InsertAttempt, Present
  <2>2. AttemptsKept(g)
    BY <1>2, <1>4, <2>1, AttemptsElsewhere
  <2> QED BY <1>1, <2>2, CartFrame DEF CartInv
<1>5. CASE ~Quoted(g)
  BY <1>1, <1>5, CartFrame DEF CartInv
<1> QED BY <1>3, <1>4, <1>5

\* Steps that change none of the rows a cart is read from.
LEMMA CartIdle ==
    ASSUME CartInv, UNCHANGED <<hold, quote, redemption, expiryRecord>>,
           \A b \in Attempts : attempt'[b].status = attempt[b].status
                               /\ attempt'[b].hold = attempt[b].hold
    PROVE  \A g \in Holds : CartRow(g)'
<1>1. \A g \in Holds : AttemptsKept(g)
  BY DEF AttemptsKept, LinkedTo
<1> QED BY <1>1, CartFrame DEF CartInv

LEMMA CartBuyer == CartInv /\ BuyerStep => \A h \in Holds : CartRow(h)'
<1> SUFFICES ASSUME CartInv, BuyerStep PROVE \A h \in Holds : CartRow(h)'
  OBVIOUS
<1>1. ASSUME NEW a \in Attempts, NEW h \in Holds,
             InsertLinkedCheckoutAttempt(a, h) \/ BeginPricedPayment(a, h)
      PROVE  \A g \in Holds : CartRow(g)'
  BY <1>1, CartInsert DEF InsertLinkedCheckoutAttempt, BeginPricedPayment
<1>2. ASSUME NEW a \in Attempts, DispatchRequest(a) \/ LoseDispatcher(a)
      PROVE  \A h \in Holds : CartRow(h)'
  BY <1>2, CartIdle DEF DispatchRequest, LoseDispatcher, rows, carts, payments
<1> QED BY <1>1, <1>2, CartPrepare DEF BuyerStep

\* Issuing the tickets consumes the code, of the one cart it pays for.
LEMMA CartFinalize ==
    ASSUME CartInv, NEW a \in Attempts, NEW b \in BOOLEAN, FinalizePaid(a, b), NEW g \in Holds
    PROVE  CartRow(g)'
<1> DEFINE h == attempt[a].hold
<1>t. TypeOK
  BY DEF CartInv, StockInv, PayInv
<1>1. /\ attempt[a].status = "pending" /\ Confirmed(h)
      /\ attempt' = [attempt EXCEPT ![a].status = "completed"]
      /\ UNCHANGED <<hold, quote, expiryRecord>>
  BY DEF FinalizePaid, rows
<1>2. Present(a) /\ attempt[a] \in AttemptRow /\ h \in Holds
  BY <1>t, <1>1, AttemptPresent DEF Present, AttemptRow
<1>3. /\ attempt'[a].status = "completed" /\ attempt'[a].hold = h
      /\ \A c \in Attempts : c # a => attempt'[c] = attempt[c]
  BY <1>t, <1>1, <1>2 DEF TypeOK, AttemptRow
<1>4. attempt[a].quoted <=> Quoted(h)
  BY <1>2 DEF CartInv, StockInv, PayInv, QuoteBindsAttempt, Present
<1>5. redemption' = redemption \/ redemption' = [redemption EXCEPT ![h] = "consumed"]
  BY DEF FinalizePaid, SettlePromotion
<1>6. CASE g # h
  <2>1. AttemptsKept(g)
    BY <1>3, <1>6, AttemptsElsewhere
  <2>2. redemption'[g] = redemption[g]
    BY <1>t, <1>5, <1>6 DEF TypeOK
  <2> QED BY <1>1, <2>1, <2>2, CartFrame DEF CartInv
<1>7. CASE g = h /\ Quoted(h)
  <2>1. RecordedCart(h) /\ SettledCart(h)
    BY <1>2, <1>7 DEF CartInv, CartRow
  <2>2. RecordedCart(h)'
    BY <1>1, <2>1 DEF RecordedCart, Confirmed
  <2>3. Paid(h)'
    BY <1>3 DEF Paid, LinkedTo, Completed
  <2>4. SettledCart(h)'
    <3>1. CASE quote[h] = NoPromotion
      <4>1. redemption'[h] = redemption[h]
        BY <3>1 DEF FinalizePaid
      <4> QED BY <1>1, <2>1, <3>1, <4>1, NoCode DEF SettledCart
    <3>2. CASE quote[h] # NoPromotion
      <4>1. redemption'[h] = "consumed"
        BY <1>t, <1>2, <1>4, <1>7, <3>2 DEF FinalizePaid, SettlePromotion, TypeOK
      <4> QED BY <1>1, <2>3, <3>2, <4>1 DEF SettledCart, Confirmed
    <3> QED BY <3>1, <3>2
  <2> QED BY <1>1, <1>7, <2>2, <2>4 DEF CartRow, Quoted
<1>8. CASE g = h /\ ~Quoted(h)
  <2>1. redemption' = redemption
    BY <1>4, <1>8 DEF FinalizePaid
  <2> QED BY <1>1, <1>8, <2>1, CartFrame DEF CartInv
<1> QED BY <1>6, <1>7, <1>8

LEMMA CartPaid == CartInv /\ PaidStep => \A h \in Holds : CartRow(h)'
<1> SUFFICES ASSUME CartInv, PaidStep PROVE \A h \in Holds : CartRow(h)'
  OBVIOUS
<1>1. ASSUME NEW a \in Attempts, RecordPaymentCorrelation(a)
      PROVE  \A h \in Holds : CartRow(h)'
  <2>1. attempt[a] \in AttemptRow
    BY <1>1, AttemptPresent DEF CartInv, StockInv, PayInv, RecordPaymentCorrelation, Completed
  <2>2. \A b \in Attempts : /\ attempt'[b].status = attempt[b].status
                            /\ attempt'[b].hold = attempt[b].hold
    BY <1>1, <2>1 DEF RecordPaymentCorrelation, CartInv, StockInv, PayInv, TypeOK, AttemptRow
  <2> QED BY <1>1, <2>2, CartIdle DEF RecordPaymentCorrelation, rows, carts
<1>2. ASSUME NEW a \in Attempts, RecordPaidDelivery(a)
      PROVE  \A h \in Holds : CartRow(h)'
  BY <1>2, CartIdle DEF RecordPaidDelivery, rows, carts
<1>3. ASSUME NEW a \in Attempts, NEW S \in SUBSET Ordinals, ReverseRefundedTickets(a, S)
      PROVE  \A h \in Holds : CartRow(h)'
  BY <1>3, CartIdle DEF ReverseRefundedTickets, carts
<1> QED BY <1>1, <1>2, <1>3, CartFinalize DEF PaidStep

\* The release of a priced cart closes its hold, its code and its record.
LEMMA CartClosed ==
    ASSUME CartInv, NEW h \in Holds, NEW e \in EvidenceKinds, ReleaseCartRows(h, e), ~Paid(h)',
           e \in {"never_started", "start_window_closed"} => LinkedTo(h)' = {},
           e \in {"request_never_sent", "test_expired_unpaid_null_intent"} => GivenUp(h)'
    PROVE  CartRow(h)'
<1>t. TypeOK
  BY DEF CartInv, StockInv, PayInv
<1>1. Quoted(h) /\ Quoted(h)' /\ quote'[h] = quote[h]
  BY DEF ReleaseCartRows, Quoted
<1>2. hold'[h].status = "released"
  BY <1>t, ReleasedRow DEF ReleaseCartRows
<1>3. expiryRecord'[h] = e /\ e # "none"
  BY <1>t DEF ReleaseCartRows, TypeOK, EvidenceKinds
<1>4. RecordedCart(h)'
  BY <1>2, <1>3 DEF RecordedCart
<1>5. IF quote[h] = NoPromotion THEN redemption'[h] = redemption[h] ELSE redemption'[h] = "released"
  BY <1>t DEF ReleaseCartRows, SettlePromotion, TypeOK
<1>6. SettledCart(h)
  BY <1>1 DEF CartInv, CartRow
<1>7. SettledCart(h)'
  BY <1>1, <1>2, <1>5, <1>6, NoCode DEF SettledCart
<1> QED BY <1>1, <1>4, <1>7 DEF CartRow

LEMMA CartRelease == CartInv /\ ReleaseStep => \A g \in Holds : CartRow(g)'
<1> SUFFICES ASSUME CartInv, ReleaseStep, NEW g \in Holds PROVE CartRow(g)'
  OBVIOUS
<1>t. TypeOK /\ PayInv
  BY DEF CartInv, StockInv, PayInv
<1>1. ASSUME NEW h \in Holds, ReleaseConfirmed(h), QuotedHoldGuard(h),
             \A a \in LinkedTo(h) : attempt[a].status = "pending"
      PROVE  ~Quoted(h)
  BY <1>1 DEF QuotedHoldGuard, ReleaseConfirmed, Confirmed, CartInv, CartRow, RecordedCart,
              StockInv, TicketRows, LinkedTo, Completed
<1>2. ASSUME NEW h \in Holds, LinkedTo(h) = {}, ReleaseConfirmed(h), UNCHANGED attempt
      PROVE  AttemptsKept(g) /\ ~Paid(h)' /\ LinkedTo(h)' = {} /\ (g # h => hold'[g] = hold[g])
  BY <1>t, <1>2, ReleasedRow DEF AttemptsKept, LinkedTo, Paid
<1>3. ASSUME NEW a \in Attempts, attempt[a].status = "pending", Abandon(a),
             NEW h \in Holds, h = attempt[a].hold, ReleaseConfirmed(h)
      PROVE  ~Paid(h)' /\ GivenUp(h)' /\ (g # h => AttemptsKept(g) /\ hold'[g] = hold[g])
  <2>1. Present(a)
    BY <1>3 DEF Present
  <2>2. /\ attempt'[a].status = "abandoned" /\ attempt'[a].hold = h
        /\ \A b \in Attempts : b # a => attempt'[b] = attempt[b]
    BY <1>t, <1>3, AbandonedRow
  <2>3. LinkedTo(h) = {a}
    BY <1>t, <1>3, <2>1, OnlyAttempt
  <2>4. LinkedTo(h)' = {a}
    BY <2>2, <2>3 DEF LinkedTo
  <2>5. ~Paid(h)' /\ GivenUp(h)'
    BY <2>2, <2>4 DEF Paid, GivenUp, Completed
  <2>6. g # h => AttemptsKept(g)
    BY <1>3, <2>2, AttemptsElsewhere
  <2>7. g # h => hold'[g] = hold[g]
    BY <1>t, <1>3, ReleasedRow
  <2> QED BY <2>5, <2>6, <2>7
<1>4. ASSUME NEW h \in Holds, NEW e \in EvidenceKinds, ReleaseCartRows(h, e),
             g # h => AttemptsKept(g) /\ hold'[g] = hold[g], g = h => CartRow(h)'
      PROVE  CartRow(g)'
  <2>1. g # h => quote'[g] = quote[g] /\ redemption'[g] = redemption[g]
                 /\ expiryRecord'[g] = expiryRecord[g]
    BY <1>t, <1>4 DEF ReleaseCartRows, SettlePromotion, TypeOK
  <2> QED BY <1>4, <2>1, CartFrame DEF CartInv
<1>5. ASSUME NEW h \in Holds, ReleaseExpiredOrphan(h)
      PROVE  CartRow(g)'
  BY <1>1, <1>2, <1>5, CartFrame DEF ReleaseExpiredOrphan, CartInv, carts, payments
<1>6. ASSUME NEW h \in Holds, NEW e \in EvidenceKinds, ReleaseUnstartedCart(h, e)
      PROVE  CartRow(g)'
  <2>1. /\ ReleaseCartRows(h, e) /\ LinkedTo(h) = {} /\ UNCHANGED attempt
        /\ e \in {"never_started", "start_window_closed"}
    BY <1>6 DEF ReleaseUnstartedCart
  <2>2. ReleaseConfirmed(h)
    BY <2>1 DEF ReleaseCartRows
  <2> QED BY <1>2, <1>4, <2>1, <2>2, CartClosed
<1>7. ASSUME NEW a \in Attempts, attempt[a].status = "pending", Abandon(a),
             NEW h \in Holds, h = attempt[a].hold,
             NEW e \in {"request_never_sent", "test_expired_unpaid_null_intent"}, ReleaseCartRows(h, e)
      PROVE  CartRow(g)'
  <2>1. /\ ReleaseConfirmed(h) /\ e \in EvidenceKinds
        /\ e \notin {"never_started", "start_window_closed"}
    BY <1>7 DEF ReleaseCartRows, EvidenceKinds
  <2>2. ~Paid(h)' /\ GivenUp(h)' /\ (g # h => AttemptsKept(g) /\ hold'[g] = hold[g])
    BY <1>3, <1>7, <2>1
  <2> QED BY <1>4, <1>7, <2>1, <2>2, CartClosed
<1>8. ASSUME NEW a \in Attempts, attempt[a].status = "pending"
      PROVE  attempt[a].hold \in Holds
  BY <1>t, <1>8, HoldOfAttempt DEF Present
<1>9. ASSUME NEW a \in Attempts, NEW seen,
             ReleaseUnsentCart(a) \/ ReleaseExpiredCart(a, seen)
      PROVE  CartRow(g)'
  BY <1>7, <1>8, <1>9 DEF ReleaseUnsentCart, ReleaseExpiredCart, ReleasePayableCart
<1>10. ASSUME NEW a \in Attempts, NEW seen \in 0..now, ReleaseExpiredAttempt(a, seen)
       PROVE  CartRow(g)'
  <2>1. PICK h \in Holds : h = attempt[a].hold
    BY <1>8, <1>10 DEF ReleaseExpiredAttempt
  <2>2. /\ attempt[a].status = "pending" /\ LinkedTo(h) = {a} /\ QuotedHoldGuard(h)
        /\ ReleaseConfirmed(h) /\ Abandon(a) /\ UNCHANGED <<quote, redemption, expiryRecord>>
    BY <1>10, <2>1 DEF ReleaseExpiredAttempt, carts
  <2>3. ~Quoted(h) /\ (g # h => AttemptsKept(g) /\ hold'[g] = hold[g])
    BY <1>1, <1>3, <2>1, <2>2
  <2> QED BY <2>2, <2>3, CartFrame DEF CartInv
<1> QED BY <1>5, <1>6, <1>8, <1>9, <1>10 DEF ReleaseStep, ReleaseExpiredV2, ReleaseOwnedExpiredV2

LEMMA CartOther ==
    CartInv /\ (Tick \/ ProviderStep \/ OrganizerStep \/ UNCHANGED vars) => \A h \in Holds : CartRow(h)'
<1> SUFFICES ASSUME CartInv, Tick \/ ProviderStep \/ OrganizerStep \/ UNCHANGED vars
             PROVE  \A h \in Holds : CartRow(h)'
  OBVIOUS
<1>1. UNCHANGED <<hold, quote, redemption, expiryRecord, attempt>>
  BY DEF Tick, ProviderStep, ProviderOpens, ProviderIsPaid, ProviderExpires, SetSession,
         OrganizerStep, SaveTicketTier, SavePromotion, vars, rows, carts, payments
<1> QED BY <1>1, CartIdle

LEMMA CartStep == CartInv /\ [Next]_vars => CartInv'
<1> SUFFICES ASSUME CartInv, [Next]_vars PROVE CartInv'
  OBVIOUS
<1>1. StockInv'
  BY StockStep DEF CartInv
<1>2. \A h \in Holds : CartRow(h)'
  BY CartLegacy, CartBuyer, CartPaid, CartRelease, CartOther DEF Next
<1> QED BY <1>1, <1>2 DEF CartInv

THEOREM CartInvariant == Spec => []CartInv
<1>1. Init => CartInv
  BY PayInit, StockInit, CartInit DEF CartInv, StockInv
<1> QED BY <1>1, CartStep, PTL DEF Spec

\* A code's use is consumed by exactly a paid order and given back by exactly
\* the release of the stock.
THEOREM RedemptionsFollow == Spec => []RedemptionFollowsPurchase
<1>1. CartInv => RedemptionFollowsPurchase
  <2> SUFFICES ASSUME CartInv, NEW h \in Holds, quote[h] \in Promotions
               PROVE  /\ redemption[h] = "consumed" <=> \E a \in LinkedTo(h) : order[a] # "none"
                      /\ redemption[h] = "released" <=> hold[h].status = "released"
                      /\ redemption[h] # "none"
    BY DEF RedemptionFollowsPurchase
  <2>1. SettledCart(h)
    BY NoCode DEF CartInv, CartRow, Quoted
  <2>2. Paid(h) <=> \E a \in LinkedTo(h) : order[a] # "none"
    BY DEF Paid, LinkedTo, CartInv, StockInv, TicketRows
  <2> QED BY <2>1, <2>2 DEF SettledCart
<1> QED BY <1>1, CartInvariant, PTL

\* A quoted hold is released only with its record, whose evidence agrees with
\* whether a payment had been started.
THEOREM QuotedReleasesRecorded == Spec => []QuotedReleaseRecorded
<1>1. CartInv => QuotedReleaseRecorded
  <2> SUFFICES ASSUME CartInv, NEW h \in Holds, Quoted(h)
               PROVE  /\ expiryRecord[h] # "none" <=> hold[h].status = "released"
                      /\ expiryRecord[h] \in {"never_started", "start_window_closed"} => LinkedTo(h) = {}
                      /\ expiryRecord[h] \in {"request_never_sent", "test_expired_unpaid_null_intent"}
                            => \E a \in LinkedTo(h) : attempt[a].status = "abandoned" /\ attempt[a].quoted
    BY DEF QuotedReleaseRecorded
  <2>1. RecordedCart(h)
    BY DEF CartInv, CartRow
  <2>2. GivenUp(h) => \E a \in LinkedTo(h) : attempt[a].status = "abandoned" /\ attempt[a].quoted
    BY DEF GivenUp, LinkedTo, CartInv, StockInv, PayInv, QuoteBindsAttempt
  <2> QED BY <2>1, <2>2 DEF RecordedCart
<1> QED BY <1>1, CartInvariant, PTL

-----------------------------------------------------------------------------
(* The limit of a code.  Only the pricing of a cart adds a use, and only of   *)
(* the code whose limit it has compared.                                      *)

LEMMA FiniteUses ==
    ASSUME NEW p
    PROVE  IsFiniteSet(Uses(p)) /\ Cardinality(Uses(p)) \in Nat
BY FiniteRows, FS_Subset, FS_CardinalityType DEF Uses

\* A step after which every use is a use of before, of the same limits.
LEMMA UsesShrink ==
    ASSUME PromotionWithinLimit, UNCHANGED offer, TypeOK,
           \A p \in Promotions, g \in Holds :
              quote'[g] = p /\ redemption'[g] \in {"reserved", "consumed"} =>
              quote[g] = p /\ redemption[g] \in {"reserved", "consumed"}
    PROVE  PromotionWithinLimit'
<1> SUFFICES ASSUME NEW p \in Promotions PROVE Cardinality(Uses(p)') <= offer'[p].max
  BY DEF PromotionWithinLimit
<1>1. Uses(p)' \subseteq Uses(p)
  BY DEF Uses
<1>2. Cardinality(Uses(p)') <= Cardinality(Uses(p)) /\ Cardinality(Uses(p)') \in Nat
  BY <1>1, FiniteUses, FS_Subset, FS_CardinalityType
<1>3. offer[p].max \in Int
  BY DEF TypeOK
<1> QED BY <1>2, <1>3, FiniteUses DEF PromotionWithinLimit

\* What a step can do to quotes, uses and limits.
CodesKept        == UNCHANGED <<quote, redemption, offer>>
SettlesCode(h)   == /\ UNCHANGED <<quote, offer>>
                    /\ \E s \in {"consumed", "released"} : SettlePromotion(h, s)
PricesCart(h, p) == SaveQuote(h, p) /\ UNCHANGED offer

CodeStep ==
    \/ CodesKept
    \/ \E h \in Holds : SettlesCode(h)
    \/ \E h \in Holds, p \in Promotions \union {NoPromotion} : PricesCart(h, p)
    \/ \E p \in Promotions, open \in BOOLEAN, max \in 1..MaxLimit : SavePromotion(p, open, max)

LEMMA CodeSteps == TypeOK /\ [Next]_vars => CodeStep
<1> SUFFICES ASSUME TypeOK, [Next]_vars PROVE CodeStep
  OBVIOUS
<1>1. CodesKept => CodeStep
  BY DEF CodeStep
<1>2. ASSUME NEW h \in Holds, SettlesCode(h) PROVE CodeStep
  BY <1>2 DEF CodeStep
<1>3. CASE Tick \/ LegacyStep \/ ProviderStep \/ UNCHANGED vars
  BY <1>1, <1>3 DEF CodesKept, Tick, LegacyStep, ReserveInventory, ConfirmInventory, ReleaseInventory,
                    ExpireInventory, ProviderStep, ProviderOpens, ProviderIsPaid, ProviderExpires,
                    SetSession, vars, carts
<1>4. CASE BuyerStep
  <2>1. ASSUME NEW h \in Holds, NEW t \in Tiers, NEW q \in Ordinals,
               NEW p \in Promotions \union {NoPromotion}, PreparePricedCart(h, t, q, p)
        PROVE  CodeStep
    BY <2>1 DEF PreparePricedCart, CodeStep, PricesCart
  <2>2. ASSUME NEW h \in Holds, NEW t \in Tiers, NEW q \in Ordinals, PrepareOwned(h, t, q)
        PROVE  CodesKept
    BY <2>2 DEF PrepareOwned, CodesKept, carts
  <2>3. ASSUME NEW a \in Attempts, NEW h \in Holds,
               InsertLinkedCheckoutAttempt(a, h) \/ BeginPricedPayment(a, h)
        PROVE  CodesKept
    BY <2>3 DEF InsertLinkedCheckoutAttempt, BeginPricedPayment, InsertAttempt, CodesKept, carts
  <2>4. ASSUME NEW a \in Attempts, DispatchRequest(a) \/ LoseDispatcher(a)
        PROVE  CodesKept
    BY <2>4 DEF DispatchRequest, LoseDispatcher, CodesKept, carts
  <2> QED BY <1>1, <1>4, <2>1, <2>2, <2>3, <2>4 DEF BuyerStep
<1>5. CASE PaidStep
  <2>1. ASSUME NEW a \in Attempts, NEW b \in BOOLEAN, FinalizePaid(a, b)
        PROVE  CodeStep
    <3>1. attempt[a].hold \in Holds
      BY <2>1, HoldOfAttempt DEF FinalizePaid, Present
    <3>2. CodesKept \/ SettlesCode(attempt[a].hold)
      BY <2>1 DEF FinalizePaid, CodesKept, SettlesCode
    <3> QED BY <1>1, <1>2, <3>1, <3>2
  <2>2. ASSUME NEW a \in Attempts, NEW S \in SUBSET Ordinals,
               RecordPaymentCorrelation(a) \/ RecordPaidDelivery(a) \/ ReverseRefundedTickets(a, S)
        PROVE  CodesKept
    BY <2>2 DEF RecordPaymentCorrelation, RecordPaidDelivery, ReverseRefundedTickets, CodesKept, carts
  <2> QED BY <1>1, <1>5, <2>1, <2>2 DEF PaidStep
<1>6. CASE ReleaseStep
  <2>1. ASSUME NEW h \in Holds, NEW e, ReleaseCartRows(h, e)
        PROVE  CodeStep
    BY <1>1, <1>2, <2>1 DEF ReleaseCartRows, CodesKept, SettlesCode
  <2>2. ASSUME NEW a \in Attempts, NEW seen,
               ReleaseUnsentCart(a) \/ ReleaseExpiredCart(a, seen)
        PROVE  CodeStep
    <3>1. attempt[a].hold \in Holds
      BY <2>2, HoldOfAttempt DEF ReleaseUnsentCart, ReleaseExpiredCart, ReleasePayableCart, Present
    <3> QED BY <2>1, <2>2, <3>1 DEF ReleaseUnsentCart, ReleaseExpiredCart
  <2>3. ASSUME NEW a \in Attempts, NEW seen,
               ReleaseExpiredV2(a, seen) \/ ReleaseOwnedExpiredV2(a, seen)
        PROVE  CodesKept
    BY <2>3 DEF ReleaseExpiredV2, ReleaseOwnedExpiredV2, ReleaseExpiredAttempt, CodesKept, carts
  <2>4. ASSUME NEW h \in Holds, NEW e, ReleaseExpiredOrphan(h) \/ ReleaseUnstartedCart(h, e)
        PROVE  CodeStep
    BY <1>1, <2>1, <2>4 DEF ReleaseExpiredOrphan, ReleaseUnstartedCart, CodesKept, carts
  <2> QED BY <1>1, <1>6, <2>2, <2>3, <2>4 DEF ReleaseStep
<1>7. CASE OrganizerStep
  BY <1>7 DEF OrganizerStep, SaveTicketTier, CodeStep, CodesKept, carts
<1> QED BY <1>3, <1>4, <1>5, <1>6, <1>7 DEF Next

LEMMA LimitStep == TypeOK /\ PromotionWithinLimit /\ [Next]_vars => PromotionWithinLimit'
<1> SUFFICES ASSUME TypeOK, PromotionWithinLimit, CodeStep PROVE PromotionWithinLimit'
  BY CodeSteps
<1>1. CASE CodesKept
  BY <1>1, UsesShrink DEF CodesKept
<1>2. ASSUME NEW h \in Holds, SettlesCode(h)
      PROVE  PromotionWithinLimit'
  BY <1>2, UsesShrink DEF SettlesCode, SettlePromotion, TypeOK
<1>3. ASSUME NEW h \in Holds, NEW p \in Promotions \union {NoPromotion}, PricesCart(h, p)
      PROVE  PromotionWithinLimit'
  <2> SUFFICES ASSUME NEW r \in Promotions PROVE Cardinality(Uses(r)') <= offer[r].max
    BY <1>3 DEF PricesCart, PromotionWithinLimit
  <2>1. /\ quote'[h] = p /\ \A g \in Holds : g # h => /\ quote'[g] = quote[g]
                                                    /\ redemption'[g] = redemption[g]
    BY <1>3 DEF PricesCart, SaveQuote, TypeOK
  <2>2. Cardinality(Uses(r)) <= offer[r].max /\ offer[r].max \in Int
    BY DEF PromotionWithinLimit, TypeOK
  <2>3. CASE r = p
    <3>1. Uses(r)' \subseteq Uses(r) \union {h}
      BY <2>1 DEF Uses
    <3>2. /\ IsFiniteSet(Uses(r) \union {h})
          /\ Cardinality(Uses(r) \union {h}) <= Cardinality(Uses(r)) + 1
      BY FiniteUses, FS_AddElement
    <3>3. Cardinality(Uses(r)') <= Cardinality(Uses(r)) + 1 /\ Cardinality(Uses(r)') \in Nat
      BY <3>1, <3>2, FS_Subset, FS_CardinalityType, FiniteUses
    <3>4. Cardinality(Uses(r)) < offer[r].max
      BY <1>3, <2>3 DEF PricesCart, SaveQuote, PromotionUsable
    <3> QED BY <2>2, <3>3, <3>4, FiniteUses
  <2>4. CASE r # p
    <3>1. Uses(r)' \subseteq Uses(r)
      BY <2>1, <2>4 DEF Uses
    <3>2. Cardinality(Uses(r)') <= Cardinality(Uses(r)) /\ Cardinality(Uses(r)') \in Nat
      BY <3>1, FiniteUses, FS_Subset, FS_CardinalityType
    <3> QED BY <2>2, <3>2, FiniteUses
  <2> QED BY <2>3, <2>4
<1>4. ASSUME NEW p \in Promotions, NEW open \in BOOLEAN, NEW max \in 1..MaxLimit, SavePromotion(p, open, max)
      PROVE  PromotionWithinLimit'
  <2>1. \A r \in Promotions : Uses(r)' = Uses(r)
    BY <1>4 DEF SavePromotion, Uses
  <2>2. \A r \in Promotions : offer'[r].max = IF r = p THEN max ELSE offer[r].max
    BY <1>4 DEF SavePromotion, TypeOK
  <2> QED BY <1>4, <2>1, <2>2 DEF SavePromotion, PromotionWithinLimit
<1> QED BY <1>1, <1>2, <1>3, <1>4 DEF CodeStep

\* Concurrent carts, releases and organizer edits keep a code within its limit.
THEOREM CodesStayWithinLimit == Spec => []PromotionWithinLimit
<1>1. Init => PromotionWithinLimit
  <2> SUFFICES ASSUME Init, NEW p \in Promotions PROVE Cardinality(Uses(p)) <= offer[p].max
    BY DEF PromotionWithinLimit
  <2>1. Uses(p) = {}
    BY DEF Init, Uses
  <2>2. offer[p].max = 1
    BY DEF Init
  <2> QED BY <2>1, <2>2, FS_EmptySet
<1> QED BY <1>1, LimitStep, TypeCorrect, PTL DEF Spec

-----------------------------------------------------------------------------
(* What is closed stays closed.                                               *)

LEMMA ClosedHolds ==
    ASSUME CartInv, [Next]_vars, NEW h \in Holds, hold[h].status \in {"released", "expired", "refunded"}
    PROVE  hold'[h] = hold[h]
<1>t. TypeOK
  BY DEF CartInv, StockInv, PayInv
<1>1. CASE UNCHANGED hold
  BY <1>1
<1>2. ASSUME NEW g \in Holds, NEW t \in Tiers, NEW q \in Ordinals, HoldReady(g, t, q)
      PROVE  hold'[h] = hold[h]
  BY <1>t, <1>2, ReadyHold DEF HoldReady, Absent, Resumable
<1>3. ASSUME NEW g \in Holds, ReleaseConfirmed(g)
      PROVE  hold'[h] = hold[h]
  BY <1>t, <1>3, ReleasedRow DEF ReleaseConfirmed, Confirmed
<1>4. CASE LegacyStep
  BY <1>t, <1>4, LegacyRows
<1>5. CASE BuyerStep
  <2>1. ASSUME NEW g \in Holds, NEW t \in Tiers, NEW q \in Ordinals,
               \/ PrepareOwned(g, t, q)
               \/ \E p \in Promotions \union {NoPromotion} : PreparePricedCart(g, t, q, p)
        PROVE  hold'[h] = hold[h]
    BY <1>2, <2>1 DEF PrepareOwned, PreparePricedCart, CartReady
  <2>2. ASSUME NEW a \in Attempts, NEW g \in Holds,
               InsertLinkedCheckoutAttempt(a, g) \/ BeginPricedPayment(a, g)
        PROVE  UNCHANGED hold
    BY <2>2 DEF InsertLinkedCheckoutAttempt, BeginPricedPayment, InsertAttempt, rows
  <2>3. ASSUME NEW a \in Attempts, DispatchRequest(a) \/ LoseDispatcher(a)
        PROVE  UNCHANGED hold
    BY <2>3 DEF DispatchRequest, LoseDispatcher, rows
  <2> QED BY <1>1, <1>5, <2>1, <2>2, <2>3 DEF BuyerStep
<1>6. CASE ReleaseStep
  <2>1. ASSUME NEW a \in Attempts, NEW seen,
               \/ ReleaseUnsentCart(a) \/ ReleaseExpiredCart(a, seen) \/ ReleaseExpiredAttempt(a, seen)
        PROVE  hold'[h] = hold[h]
    <3>1. attempt[a].hold \in Holds /\ ReleaseConfirmed(attempt[a].hold)
      BY <1>t, <2>1, HoldOfAttempt DEF ReleaseUnsentCart, ReleaseExpiredCart, ReleasePayableCart,
                                       ReleaseExpiredAttempt, ReleaseCartRows, Present
    <3> QED BY <1>3, <3>1
  <2>2. ASSUME NEW g \in Holds, NEW e, ReleaseExpiredOrphan(g) \/ ReleaseUnstartedCart(g, e)
        PROVE  hold'[h] = hold[h]
    BY <1>3, <2>2 DEF ReleaseExpiredOrphan, ReleaseUnstartedCart, ReleaseCartRows
  <2> QED BY <1>6, <2>1, <2>2 DEF ReleaseStep, ReleaseExpiredV2, ReleaseOwnedExpiredV2
<1>7. CASE Tick \/ ProviderStep \/ PaidStep \/ OrganizerStep \/ UNCHANGED vars
  BY <1>1, <1>7 DEF Tick, ProviderStep, ProviderOpens, ProviderIsPaid, ProviderExpires, SetSession,
     PaidStep, FinalizePaid, RecordPaymentCorrelation, RecordPaidDelivery, ReverseRefundedTickets,
     OrganizerStep, SaveTicketTier, SavePromotion, vars, rows
<1> QED BY <1>4, <1>5, <1>6, <1>7 DEF Next

\* A use that is settled belongs to a quote, and a quote is saved once.
LEMMA ClosedCarts ==
    ASSUME CartInv, [Next]_vars, NEW h \in Holds
    PROVE  /\ Quoted(h) => quote'[h] = quote[h]
           /\ redemption[h] \in {"consumed", "released"} => redemption'[h] = redemption[h]
<1>t. TypeOK /\ CodeStep
  BY CodeSteps DEF CartInv, StockInv, PayInv
<1>1. ASSUME NEW g \in Holds, NEW p, PricesCart(g, p)
      PROVE  /\ Quoted(h) => quote'[h] = quote[h]
             /\ redemption[h] \in {"consumed", "released"} => redemption'[h] = redemption[h]
  BY <1>t, <1>1 DEF PricesCart, SaveQuote, TypeOK, CartInv, CartRow, BlankCart
<1>2. ASSUME NEW g \in Holds, SettlesCode(g)
      PROVE  /\ quote'[h] = quote[h]
             /\ redemption[h] \in {"consumed", "released"} => redemption'[h] = redemption[h]
  BY <1>t, <1>2 DEF SettlesCode, SettlePromotion, TypeOK
<1>3. ASSUME CodesKept \/ \E p, open, max : SavePromotion(p, open, max)
      PROVE  UNCHANGED <<quote, redemption>>
  BY <1>3 DEF CodesKept, SavePromotion
<1> QED BY <1>t, <1>1, <1>2, <1>3 DEF CodeStep

\* Finalizing and releasing end a pending attempt; the audit row is written
\* where its hold is released.
LEMMA ClosedAttempts ==
    ASSUME CartInv, [Next]_vars, NEW a \in Attempts
    PROVE  /\ attempt[a].status \in {"completed", "abandoned"} => attempt'[a].status = attempt[a].status
           /\ a \in audited' \ audited => /\ Confirmed(attempt[a].hold)
                                          /\ hold'[attempt[a].hold].status = "released"
<1> DEFINE Kept == attempt[a].status \in {"completed", "abandoned"} => attempt'[a].status = attempt[a].status
<1>t. TypeOK
  BY DEF CartInv, StockInv, PayInv
<1>1. ASSUME NEW b \in Attempts, attempt[b].status = "pending", NEW s,
             attempt' = [attempt EXCEPT ![b].status = s]
      PROVE  Kept
  BY <1>t, <1>1 DEF TypeOK
<1>2. CASE PaidStep
  <2>1. ASSUME NEW b \in Attempts, RecordPaymentCorrelation(b)
        PROVE  Kept
    <3>1. attempt[b] \in AttemptRow
      BY <1>t, <2>1, AttemptPresent DEF RecordPaymentCorrelation, Completed
    <3>2. [attempt[b] EXCEPT !.intent = TRUE].status = attempt[b].status
      BY <3>1 DEF AttemptRow
    <3>3. attempt' = [attempt EXCEPT ![b] = [attempt[b] EXCEPT !.intent = TRUE]]
      BY <2>1 DEF RecordPaymentCorrelation
    <3> QED BY <1>t, <3>2, <3>3 DEF TypeOK
  <2>2. ASSUME NEW b \in Attempts, NEW refundable, FinalizePaid(b, refundable)
        PROVE  Kept
    BY <1>1, <2>2 DEF FinalizePaid
  <2>3. ASSUME NEW b \in Attempts, NEW S, RecordPaidDelivery(b) \/ ReverseRefundedTickets(b, S)
        PROVE  Kept
    BY <2>3 DEF RecordPaidDelivery, ReverseRefundedTickets
  <2>4. UNCHANGED audited
    BY <1>2 DEF PaidStep, FinalizePaid, RecordPaymentCorrelation, RecordPaidDelivery,
                ReverseRefundedTickets
  <2> QED BY <1>2, <2>1, <2>2, <2>3, <2>4 DEF PaidStep
<1>3. CASE ReleaseStep
  <2>1. ASSUME NEW b \in Attempts, NEW seen, ReleaseExpiredAttempt(b, seen)
        PROVE  /\ Kept /\ Confirmed(attempt[b].hold)
               /\ hold'[attempt[b].hold].status = "released"
    <3>1. attempt[b].hold \in Holds
      BY <1>t, <2>1, HoldOfAttempt DEF ReleaseExpiredAttempt, Present
    <3> QED BY <1>t, <1>1, <2>1, <3>1, ReleasedRow DEF ReleaseExpiredAttempt, Abandon, ReleaseConfirmed
  <2>2. ASSUME NEW b \in Attempts, NEW seen, ReleaseUnsentCart(b) \/ ReleaseExpiredCart(b, seen)
        PROVE  Kept /\ UNCHANGED audited
    BY <1>1, <2>2 DEF ReleaseUnsentCart, ReleaseExpiredCart, ReleasePayableCart, Abandon, ReleaseCartRows
  <2>3. ASSUME NEW h \in Holds, NEW e, ReleaseExpiredOrphan(h) \/ ReleaseUnstartedCart(h, e)
        PROVE  Kept /\ UNCHANGED audited
    BY <2>3 DEF ReleaseExpiredOrphan, ReleaseUnstartedCart, ReleaseCartRows, payments
  <2> QED BY <1>3, <2>1, <2>2, <2>3 DEF ReleaseStep, ReleaseExpiredV2, ReleaseOwnedExpiredV2
<1>4. CASE BuyerStep
  <2>1. ASSUME NEW b \in Attempts, NEW h \in Holds, NEW quoted \in BOOLEAN, InsertAttempt(b, h, quoted)
        PROVE  Kept /\ UNCHANGED audited
    BY <1>t, <2>1 DEF InsertAttempt, TypeOK
  <2>2. ASSUME NEW h \in Holds, NEW t \in Tiers, NEW q \in Ordinals,
               \/ PrepareOwned(h, t, q)
               \/ \E p \in Promotions \union {NoPromotion} : PreparePricedCart(h, t, q, p)
        PROVE  UNCHANGED <<attempt, audited>>
    BY <2>2 DEF PrepareOwned, PreparePricedCart, payments
  <2>3. ASSUME NEW b \in Attempts, DispatchRequest(b) \/ LoseDispatcher(b)
        PROVE  UNCHANGED <<attempt, audited>>
    BY <2>3 DEF DispatchRequest, LoseDispatcher, payments
  <2> QED BY <1>4, <2>1, <2>2, <2>3 DEF BuyerStep, InsertLinkedCheckoutAttempt, BeginPricedPayment
<1>5. CASE Tick \/ LegacyStep \/ ProviderStep \/ OrganizerStep \/ UNCHANGED vars
  <2>1. UNCHANGED <<attempt, audited>>
    BY <1>5 DEF Tick, LegacyStep, ReserveInventory, ConfirmInventory, ReleaseInventory, ExpireInventory,
       ProviderStep, ProviderOpens, ProviderIsPaid, ProviderExpires, SetSession,
       OrganizerStep, SaveTicketTier, SavePromotion, vars, payments
  <2> QED BY <2>1
<1> QED BY <1>2, <1>3, <1>4, <1>5 DEF Next

\* Only a pending attempt is issued tickets, and it has none yet.
LEMMA VoidTickets ==
    ASSUME CartInv, [Next]_vars, NEW a \in Attempts, NEW k \in Ordinals, ticket[<<a, k>>] = "void"
    PROVE  ticket'[<<a, k>>] = "void"
<1>1. ASSUME NEW b \in Attempts, NEW refundable, FinalizePaid(b, refundable)
      PROVE  ticket'[<<a, k>>] = "void"
  <2>1. b # a
    BY <1>1 DEF FinalizePaid, CartInv, StockInv, TicketRows, Completed
  <2> QED BY <1>1, <2>1 DEF FinalizePaid
<1>2. ASSUME NEW b \in Attempts, NEW S, ReverseRefundedTickets(b, S)
      PROVE  ticket'[<<a, k>>] = "void"
  BY <1>2 DEF ReverseRefundedTickets
<1>3. CASE PaidStep
  BY <1>1, <1>2, <1>3 DEF PaidStep, RecordPaymentCorrelation, RecordPaidDelivery
<1>4. CASE ReleaseStep
  BY <1>4 DEF ReleaseStep, ReleaseExpiredOrphan, ReleaseUnstartedCart, ReleaseUnsentCart,
     ReleaseExpiredCart, ReleaseCartRows, ReleaseExpiredV2, ReleaseOwnedExpiredV2,
     ReleaseExpiredAttempt, payments
<1>5. CASE BuyerStep
  BY <1>5 DEF BuyerStep, PrepareOwned, PreparePricedCart, InsertLinkedCheckoutAttempt,
     BeginPricedPayment, InsertAttempt, DispatchRequest, LoseDispatcher, payments
<1>6. CASE Tick \/ LegacyStep \/ ProviderStep \/ OrganizerStep \/ UNCHANGED vars
  BY <1>6 DEF Tick, LegacyStep, ReserveInventory, ConfirmInventory, ReleaseInventory, ExpireInventory,
     ProviderStep, ProviderOpens, ProviderIsPaid, ProviderExpires, SetSession,
     OrganizerStep, SaveTicketTier, SavePromotion, vars, payments
<1> QED BY <1>3, <1>4, <1>5, <1>6 DEF Next

\* Closed rows, saved quotes, settled uses and void tickets are never written
\* again, and an owner's audit row appears only with the release it records.
THEOREM ClosedStaysClosed == Spec => ClosedRowsStayClosed
<1>1. CartInv /\ [Next]_vars =>
         [/\ \A h \in Holds :
              /\ hold[h].status \in {"released", "expired", "refunded"} => hold'[h] = hold[h]
              /\ Quoted(h) => quote'[h] = quote[h]
              /\ redemption[h] \in {"consumed", "released"} => redemption'[h] = redemption[h]
          /\ \A a \in Attempts :
              /\ attempt[a].status \in {"completed", "abandoned"} => attempt'[a].status = attempt[a].status
              /\ a \in audited' \ audited => /\ Confirmed(attempt[a].hold)
                                            /\ hold'[attempt[a].hold].status = "released"
          /\ \A k \in Attempts \X Ordinals : ticket[k] = "void" => ticket'[k] = "void"]_vars
  BY ClosedHolds, ClosedCarts, ClosedAttempts, VoidTickets
<1> QED BY <1>1, CartInvariant, PTL DEF Spec, ClosedRowsStayClosed

-----------------------------------------------------------------------------
(* The promise of a box office.  Checkout implements SalePromise.  The steps *)
(* of Checkout fall into seven kinds by what they are for a sale (SaleStep): *)
(* nothing, opening or closing holds, a payment, an issue, a reversal and a  *)
(* new capacity; each maps to a step of SalePromise or to none.              *)

CompletedIsPaid == \A a \in Attempts : Completed(a) => session[a] = "paid"

SaleInv == StockInv /\ WithinCapacity /\ CompletedIsPaid

\* No attempt is paid, is completed or changes its hold in this step.
AttemptsStay ==
    \A a \in Attempts : /\ session'[a] = "paid" <=> session[a] = "paid"
                        /\ Completed(a)' <=> Completed(a)
                        /\ Present(a) => attempt'[a].hold = attempt[a].hold

NoSale ==
    /\ UNCHANGED <<tier, ticket>> /\ AttemptsStay
    /\ \A h \in Holds : \/ hold'[h] = hold[h]
                        \/ /\ Active(h) /\ Active(h)'
                           /\ hold'[h].tier = hold[h].tier /\ hold'[h].quantity = hold[h].quantity

Opens(h, r) ==
    /\ Absent(h) /\ r \in HoldRow /\ r.status \in {"held", "confirmed"}
    /\ hold' = [hold EXCEPT ![h] = r]
    /\ UNCHANGED <<tier, ticket, attempt, session>>

Closes(D) ==
    /\ D # {} /\ \A h \in D : Active(h) /\ Payers(h) = {}
    /\ \A h \in D : hold'[h].status \in {"expired", "released", "refunded"}
    /\ \A h \in Holds \ D : hold'[h] = hold[h]
    /\ UNCHANGED <<tier, ticket>> /\ AttemptsStay

SaleStep ==
    \/ NoSale
    \/ \E h \in Holds, r \in HoldRow : Opens(h, r)
    \/ \E D \in SUBSET Holds : Closes(D)
    \/ \E a \in Attempts : \/ ProviderIsPaid(a)
                           \/ \E b \in BOOLEAN : FinalizePaid(a, b)
                           \/ \E S \in SUBSET Ordinals : ReverseRefundedTickets(a, S)
    \/ \E t \in Tiers, total \in 0..MaxCapacity, active \in BOOLEAN : SaveTicketTier(t, total, active)

\* A paid attempt is the only one of its hold, and the hold is confirmed.
LEMMA PayerKeepsHold ==
    ASSUME PayInv, NEW h \in Holds, NEW a \in Payers(h)
    PROVE  /\ a \in Attempts /\ a \in LinkedTo(h) /\ Confirmed(h)
           /\ \A b \in Attempts : Present(b) /\ attempt[b].hold = h => b = a
<1>1. a \in Attempts /\ session[a] = "paid" /\ attempt[a].hold = h
  BY DEF Payers
<1>2. Present(a)
  BY <1>1 DEF PayInv, SessionAfterRequest
<1>3. attempt[a].status \in {"pending", "completed"}
  <2>1. attempt[a] \in AttemptRow
    BY <1>1, <1>2, AttemptPresent DEF PayInv, Present
  <2>2. attempt[a].status # "abandoned"
    BY <1>1 DEF PayInv, AbandonedIsUnpayable
  <2> QED BY <2>1, <2>2 DEF AttemptRow
<1>4. Confirmed(h)
  BY <1>1, <1>3 DEF PayInv, LiveAttemptKeepsHold
<1> QED BY <1>1, <1>2, <1>4 DEF PayInv, OneAttemptPerHold, LinkedTo, Present

LEMMA AttemptsUntouched ==
    ASSUME UNCHANGED <<attempt, session>>
    PROVE  AttemptsStay
BY DEF AttemptsStay, Completed

\* A new hold opens a sale; one that was ready already is none.
LEMMA ReadySale ==
    ASSUME TypeOK, NEW h \in Holds, NEW t \in Tiers, NEW q \in Ordinals, HoldReady(h, t, q),
           UNCHANGED <<tier, ticket, attempt, session>>
    PROVE  SaleStep
<1>t. hold \in [Holds -> HoldRow \union {NoHold}]
  BY DEF TypeOK
<1>1. CASE Absent(h) /\ hold' = [hold EXCEPT ![h] = NewHold(t, q, "confirmed", TRUE, HoldLife)]
  <2> DEFINE r == NewHold(t, q, "confirmed", TRUE, HoldLife)
  <2>1. r \in HoldRow
    BY Amounts, Deadlines DEF TypeOK, NewHold, HoldRow, Ordinals
  <2>2. r.status = "confirmed"
    BY DEF NewHold
  <2>3. Opens(h, r)
    BY <1>1, <2>1, <2>2 DEF Opens
  <2> HIDE DEF r
  <2> QED BY <2>1, <2>3 DEF SaleStep
<1>2. CASE Resumable(h, t, q) /\ hold' = [hold EXCEPT ![h].status = "confirmed"]
  <2>1. hold[h] \in HoldRow /\ Active(h)
    BY <1>t, <1>2 DEF Resumable, NoHold, Active
  <2>2. hold' = [hold EXCEPT ![h] = [hold[h] EXCEPT !.status = "confirmed"]]
    BY <1>2
  <2>3. /\ hold'[h].status = "confirmed" /\ hold'[h].tier = hold[h].tier
        /\ hold'[h].quantity = hold[h].quantity
        /\ \A g \in Holds : g # h => hold'[g] = hold[g]
    BY <1>t, <2>1, <2>2 DEF HoldRow
  <2>4. NoSale
    BY <2>1, <2>3, AttemptsUntouched DEF NoSale, Active
  <2> QED BY <2>4 DEF SaleStep
<1> QED BY <1>1, <1>2 DEF HoldReady

LEMMA SaleLegacy == StockInv /\ LegacyStep => SaleStep
<1> SUFFICES ASSUME StockInv, LegacyStep PROVE SaleStep
  OBVIOUS
<1>t. TypeOK /\ hold \in [Holds -> HoldRow \union {NoHold}]
  BY DEF StockInv, PayInv, TypeOK
<1>s. UNCHANGED <<tier, ticket, attempt, session>> /\ AttemptsStay
  BY AttemptsUntouched DEF LegacyStep, ReserveInventory, ConfirmInventory, ReleaseInventory,
     ExpireInventory, payments, provider
<1>1. ASSUME NEW h \in Holds, NEW t \in Tiers, NEW q \in Ordinals,
             NEW owned \in BOOLEAN, NEW life \in 1..HoldLife,
             ReserveInventory(h, t, q, owned, life)
      PROVE  SaleStep
  <2> DEFINE r == NewHold(t, q, "held", owned, life)
  <2>1. r \in HoldRow
    BY Amounts, Deadlines DEF TypeOK, StockInv, PayInv, NewHold, HoldRow, Ordinals
  <2>2. r.status = "held"
    BY DEF NewHold
  <2>3. Opens(h, r)
    BY <1>1, <1>s, <2>1, <2>2 DEF Opens, ReserveInventory
  <2> HIDE DEF r
  <2> QED BY <2>1, <2>3 DEF SaleStep
<1>2. ASSUME NEW h \in Holds, ConfirmInventory(h)
      PROVE  SaleStep
  <2>1. hold[h] \in HoldRow /\ Active(h)
    BY <1>t, <1>2 DEF ConfirmInventory, NoHold, Active
  <2>2. hold' = [hold EXCEPT ![h] = [hold[h] EXCEPT !.status = "confirmed"]]
    BY <1>2 DEF ConfirmInventory
  <2>3. /\ hold'[h].status = "confirmed" /\ hold'[h].tier = hold[h].tier
        /\ hold'[h].quantity = hold[h].quantity
        /\ \A g \in Holds : g # h => hold'[g] = hold[g]
    BY <1>t, <2>1, <2>2 DEF HoldRow
  <2>4. NoSale
    BY <1>s, <2>1, <2>3 DEF NoSale, Active
  <2> QED BY <2>4 DEF SaleStep
<1>3. ASSUME NEW h \in Holds, hold[h].status = "held"
      PROVE  Active(h) /\ Payers(h) = {}
  <2>1. \A a \in Payers(h) : Confirmed(h)
    BY PayerKeepsHold DEF StockInv
  <2> QED BY <1>3, <2>1 DEF Active, Confirmed
<1>4. ASSUME NEW h \in Holds, NEW s \in {"expired", "released", "refunded"}, ReleaseInventory(h, s)
      PROVE  SaleStep
  <2>1. hold[h] \in HoldRow /\ hold[h].status = "held"
    BY <1>t, <1>4 DEF ReleaseInventory, NoHold
  <2>2. hold' = [hold EXCEPT ![h] = [hold[h] EXCEPT !.status = s]]
    BY <1>4 DEF ReleaseInventory
  <2>3. hold'[h].status = s /\ \A g \in Holds : g # h => hold'[g] = hold[g]
    BY <1>t, <2>1, <2>2 DEF HoldRow
  <2>4. Closes({h})
    BY <1>3, <1>s, <2>1, <2>3 DEF Closes
  <2> QED BY <2>4 DEF SaleStep
<1>5. ASSUME NEW D \in SUBSET Holds, ExpireInventory(D)
      PROVE  SaleStep
  <2>1. ASSUME NEW h \in D
        PROVE  hold[h].status = "held" /\ hold'[h].status = "expired"
    <3>1. hold[h].status = "held" /\ hold'[h] = [hold[h] EXCEPT !.status = "expired"]
      BY <1>5 DEF ExpireInventory
    <3>2. hold[h] \in HoldRow
      BY <1>t, <3>1 DEF NoHold
    <3> QED BY <3>1, <3>2 DEF HoldRow
  <2>2. \A h \in Holds \ D : hold'[h] = hold[h]
    BY <1>5 DEF ExpireInventory
  <2>3. D # {}
    BY <1>5 DEF ExpireInventory
  <2>4. Closes(D)
    BY <1>3, <1>s, <2>1, <2>2, <2>3 DEF Closes
  <2> QED BY <2>4 DEF SaleStep
<1> QED BY <1>1, <1>2, <1>4, <1>5 DEF LegacyStep

\* A release closes one hold for which nothing was paid.
LEMMA SaleRelease == StockInv /\ ReleaseStep => SaleStep
<1> SUFFICES ASSUME StockInv, ReleaseStep PROVE SaleStep
  OBVIOUS
<1>t. TypeOK /\ PayInv
  BY DEF StockInv, PayInv
<1>1. ASSUME NEW h \in Holds, ReleaseConfirmed(h), \A a \in LinkedTo(h) : session[a] # "paid",
             AttemptsStay, UNCHANGED <<tier, ticket>>
      PROVE  SaleStep
  <2>1. hold'[h].status = "released" /\ \A g \in Holds : g # h => hold'[g] = hold[g]
    BY <1>t, <1>1, ReleasedRow
  <2>2. Active(h)
    BY <1>1 DEF ReleaseConfirmed, Confirmed, Active
  <2>3. Payers(h) = {}
    <3>1. \A a \in Payers(h) : a \in LinkedTo(h) /\ session[a] = "paid"
      BY <1>t, PayerKeepsHold DEF Payers
    <3> QED BY <1>1, <3>1
  <2>4. Closes({h})
    BY <1>1, <2>1, <2>2, <2>3 DEF Closes
  <2> QED BY <2>4 DEF SaleStep
<1>2. ASSUME NEW a \in Attempts, attempt[a].status = "pending", Abandon(a), session[a] # "paid",
             LinkedTo(attempt[a].hold) = {a}, ReleaseConfirmed(attempt[a].hold),
             UNCHANGED <<tier, ticket, session>>
      PROVE  SaleStep
  <2>1. /\ attempt'[a].status = "abandoned" /\ attempt'[a].hold = attempt[a].hold
        /\ \A b \in Attempts : b # a => attempt'[b] = attempt[b]
    BY <1>t, <1>2, AbandonedRow
  <2>2. AttemptsStay
    BY <1>2, <2>1 DEF AttemptsStay, Completed
  <2>3. attempt[a].hold \in Holds
    BY <1>t, <1>2, HoldOfAttempt DEF Present
  <2> QED BY <1>1, <1>2, <2>2, <2>3
<1>3. ASSUME NEW h \in Holds, ReleaseExpiredOrphan(h)
      PROVE  SaleStep
  <2>1. LinkedTo(h) = {} /\ ReleaseConfirmed(h) /\ UNCHANGED <<tier, ticket, attempt, session>>
    BY <1>3 DEF ReleaseExpiredOrphan, payments, provider
  <2> QED BY <1>1, <2>1, AttemptsUntouched
<1>4. ASSUME NEW h \in Holds, NEW e \in EvidenceKinds, ReleaseUnstartedCart(h, e)
      PROVE  SaleStep
  <2>1. LinkedTo(h) = {} /\ ReleaseConfirmed(h) /\ UNCHANGED <<tier, ticket, attempt, session>>
    BY <1>4 DEF ReleaseUnstartedCart, ReleaseCartRows, provider
  <2> QED BY <1>1, <2>1, AttemptsUntouched
<1>5. ASSUME NEW a \in Attempts, ReleaseUnsentCart(a)
      PROVE  SaleStep
  <2>1. session[a] # "paid"
    BY <1>5 DEF ReleaseUnsentCart, StockInv, PayInv, SessionAfterRequest
  <2> QED BY <1>2, <1>5, <2>1 DEF ReleaseUnsentCart, ReleasePayableCart, ReleaseCartRows
<1>6. ASSUME NEW a \in Attempts, NEW seen \in 0..now, ReleaseExpiredCart(a, seen)
      PROVE  SaleStep
  BY <1>2, <1>6 DEF ReleaseExpiredCart, ReleasePayableCart, ReleaseCartRows, ExpiredUnpaid, provider
<1>7. ASSUME NEW a \in Attempts, NEW seen \in 0..now, ReleaseExpiredAttempt(a, seen)
      PROVE  SaleStep
  BY <1>2, <1>7 DEF ReleaseExpiredAttempt, ExpiredUnpaid, provider
<1> QED BY <1>3, <1>4, <1>5, <1>6, <1>7 DEF ReleaseStep, ReleaseExpiredV2, ReleaseOwnedExpiredV2

LEMMA SaleSteps == StockInv /\ [Next]_vars => SaleStep
<1> SUFFICES ASSUME StockInv, [Next]_vars PROVE SaleStep
  OBVIOUS
<1>t. TypeOK
  BY DEF StockInv, PayInv
<1>1. ASSUME UNCHANGED <<tier, ticket, hold>>, AttemptsStay
      PROVE  SaleStep
  BY <1>1 DEF SaleStep, NoSale
<1>2. CASE BuyerStep
  <2>1. ASSUME NEW h \in Holds, NEW t \in Tiers, NEW q \in Ordinals,
               \/ PrepareOwned(h, t, q)
               \/ \E p \in Promotions \union {NoPromotion} : PreparePricedCart(h, t, q, p)
        PROVE  SaleStep
    BY <1>t, <2>1, ReadySale DEF PrepareOwned, PreparePricedCart, CartReady, payments, provider
  <2>2. ASSUME NEW a \in Attempts, NEW h \in Holds, NEW quoted \in BOOLEAN, InsertAttempt(a, h, quoted)
        PROVE  SaleStep
    <3>1. /\ ~Present(a) /\ attempt'[a].status = "pending"
          /\ \A b \in Attempts : b # a => attempt'[b] = attempt[b]
      BY <1>t, <2>2 DEF InsertAttempt, TypeOK, Present
    <3>2. AttemptsStay
      BY <2>2, <3>1 DEF InsertAttempt, AttemptsStay, Completed, Present
    <3> QED BY <1>1, <2>2, <3>2 DEF InsertAttempt, rows
  <2>3. ASSUME NEW a \in Attempts, DispatchRequest(a) \/ LoseDispatcher(a)
        PROVE  SaleStep
    BY <1>1, <2>3, AttemptsUntouched DEF DispatchRequest, LoseDispatcher, rows, payments
  <2> QED BY <1>2, <2>1, <2>2, <2>3 DEF BuyerStep, InsertLinkedCheckoutAttempt, BeginPricedPayment
<1>3. CASE ProviderStep
  <2>1. ASSUME NEW a \in Attempts, ProviderOpens(a) \/ ProviderExpires(a)
        PROVE  SaleStep
    <3>1. AttemptsStay
      BY <1>t, <2>1 DEF ProviderOpens, ProviderExpires, SetSession, AttemptsStay, Completed, payments, TypeOK
    <3> QED BY <1>1, <2>1, <3>1 DEF ProviderOpens, ProviderExpires, SetSession, rows, payments
  <2> QED BY <1>3, <2>1 DEF ProviderStep, SaleStep
<1>4. CASE PaidStep
  <2>1. ASSUME NEW a \in Attempts, RecordPaymentCorrelation(a)
        PROVE  SaleStep
    <3>1. attempt[a] \in AttemptRow
      BY <1>t, <2>1, AttemptPresent DEF RecordPaymentCorrelation, Completed
    <3>2. \A b \in Attempts : /\ attempt'[b].status = attempt[b].status
                              /\ attempt'[b].hold = attempt[b].hold
      BY <1>t, <2>1, <3>1 DEF RecordPaymentCorrelation, TypeOK, AttemptRow
    <3>3. AttemptsStay
      BY <2>1, <3>2 DEF RecordPaymentCorrelation, AttemptsStay, Completed, provider
    <3> QED BY <1>1, <2>1, <3>3 DEF RecordPaymentCorrelation, rows
  <2>2. ASSUME NEW a \in Attempts, RecordPaidDelivery(a)
        PROVE  SaleStep
    BY <1>1, <2>2, AttemptsUntouched DEF RecordPaidDelivery, rows, provider
  <2> QED BY <1>4, <2>1, <2>2 DEF PaidStep, SaleStep
<1>5. CASE OrganizerStep
  <2>1. ASSUME NEW p \in Promotions, NEW open, NEW max, SavePromotion(p, open, max)
        PROVE  SaleStep
    BY <1>1, <2>1, AttemptsUntouched DEF SavePromotion, rows, payments, provider
  <2> QED BY <1>5, <2>1 DEF OrganizerStep, SaleStep
<1>6. CASE Tick \/ UNCHANGED vars
  BY <1>1, <1>6, AttemptsUntouched DEF Tick, vars, rows, payments, provider
<1> QED BY <1>2, <1>3, <1>4, <1>5, <1>6, SaleLegacy, SaleRelease DEF Next

-----------------------------------------------------------------------------
(* The seats taken are as many as the counter says.                          *)

\* The tickets of an active hold belong to its completed attempt.
LEMMA VoidHolder ==
    ASSUME StockInv, NEW a \in Attempts, NEW k \in Ordinals, ticket[<<a, k>>] = "void"
    PROVE  /\ Completed(a) /\ Present(a) /\ attempt[a].hold \in ActiveHolds
           /\ k <= hold[attempt[a].hold].quantity
<1>1. Completed(a) /\ k <= hold[attempt[a].hold].quantity
  BY DEF StockInv, TicketRows
<1>2. Present(a) /\ attempt[a].hold \in Holds
  BY <1>1, CompletedHold DEF StockInv
<1>3. Confirmed(attempt[a].hold)
  BY <1>1 DEF StockInv, PayInv, LiveAttemptKeepsHold, Completed
<1> QED BY <1>1, <1>2, <1>3 DEF ActiveHolds, Confirmed

VoidUnits(t) == {u \in HeldUnits(t) : \E a \in Attempts : ticket[<<a, u[2]>>] = "void" /\ attempt[a].hold = u[1]}

\* One unit came back for every voided ticket.
LEMMA VoidTicketsAreUnits ==
    ASSUME StockInv, NEW t
    PROVE  Cardinality(VoidUnits(t)) = Cardinality(TicketsIn(t, "void"))
<1> DEFINE X == TicketsIn(t, "void")
           U == VoidUnits(t)
           f == [x \in X |-> <<attempt[x[1]].hold, x[2]>>]
<1>1. ASSUME NEW a \in Attempts, NEW k \in Ordinals, <<a, k>> \in X
      PROVE  Present(a) /\ <<attempt[a].hold, k>> \in U
  <2>1. ticket[<<a, k>>] = "void" /\ hold[attempt[a].hold].tier = t
    BY <1>1 DEF TicketsIn
  <2>2. Present(a) /\ attempt[a].hold \in ActiveHolds /\ k <= hold[attempt[a].hold].quantity
    BY <2>1, VoidHolder
  <2> QED BY <2>1, <2>2 DEF VoidUnits, HeldUnits, UnitsOf
<1>2. \A x \in X : \E a \in Attempts, k \in Ordinals : x = <<a, k>>
  BY DEF TicketsIn
<1>3. f \in [X -> U]
  BY <1>1, <1>2
<1>4. f \in Injection(X, U)
  <2>1. ASSUME NEW a \in Attempts, NEW b \in Attempts, NEW i \in Ordinals, NEW k \in Ordinals,
               <<a, i>> \in X, <<b, k>> \in X, f[<<a, i>>] = f[<<b, k>>]
        PROVE  <<a, i>> = <<b, k>>
    <3>1. attempt[a].hold = attempt[b].hold /\ i = k
      BY <2>1
    <3>2. Present(a) /\ Present(b)
      BY <1>1, <2>1
    <3> QED BY <3>1, <3>2 DEF StockInv, PayInv, OneAttemptPerHold
  <2> HIDE DEF X, U, f
  <2>2. \A x, y \in X : f[x] = f[y] => x = y
    BY <1>2, <2>1
  <2> QED BY <1>3, <2>2 DEF Injection, IsInjective
<1>5. f \in Surjection(X, U)
  <2>1. ASSUME NEW h \in Holds, NEW k \in Ordinals, <<h, k>> \in U
        PROVE  \E x \in X : f[x] = <<h, k>>
    <3>1. PICK a \in Attempts : ticket[<<a, k>>] = "void" /\ attempt[a].hold = h
      BY <2>1 DEF VoidUnits
    <3>2. hold[h].tier = t /\ Present(a)
      BY <2>1, <3>1, VoidHolder DEF VoidUnits, HeldUnits, UnitsOf
    <3>3. <<a, k>> \in X
      BY <3>1, <3>2 DEF TicketsIn, Present
    <3> QED BY <3>1, <3>3
  <2>2. \A u \in U : \E h \in Holds, k \in Ordinals : u = <<h, k>>
    BY DEF VoidUnits, HeldUnits, UnitsOf, ActiveHolds
  <2> HIDE DEF X, U, f
  <2>3. \A u \in U : \E x \in X : f[x] = u
    BY <2>1, <2>2
  <2> QED BY <1>3, <2>3 DEF Surjection
<1>6. ExistsBijection(X, U)
  BY <1>4, <1>5 DEF ExistsBijection, Bijection
<1>7. IsFiniteSet(X)
  BY FiniteTickets
<1> HIDE DEF X, U, f
<1>8. Cardinality(U) = Cardinality(X)
  BY <1>6, <1>7, FS_Bijection
<1> QED BY <1>8 DEF U, X

\* A seat that is taken is a unit that did not come back.
LEMMA TakenAreUnits ==
    ASSUME StockInv, NEW t \in Tiers
    PROVE  Cardinality(Sale!Taken(t)) = Cardinality(HeldUnits(t) \ VoidUnits(t))
<1> DEFINE X == HeldUnits(t) \ VoidUnits(t)
           U == Sale!Taken(t)
           f == [x \in X |-> <<x[1], t, x[2]>>]
<1>1. ASSUME NEW h \in Holds, NEW k \in Ordinals
      PROVE  <<h, k>> \in X <=> <<h, t, k>> \in U
  BY DEF HeldUnits, UnitsOf, VoidUnits, ActiveHolds, Sale!Taken, SeatsTaken
<1>2. \A x \in X : \E h \in Holds, k \in Ordinals : x = <<h, k>>
  BY DEF HeldUnits, UnitsOf, ActiveHolds
<1>3. \A u \in U : \E h \in Holds, k \in Ordinals : u = <<h, t, k>>
  BY DEF Sale!Taken, SeatsTaken
<1>4. f \in Injection(X, U)
  <2> HIDE DEF X, U
  <2>1. f \in [X -> U]
    BY <1>1, <1>2
  <2>2. \A x, y \in X : f[x] = f[y] => x = y
    BY <1>2
  <2> QED BY <2>1, <2>2 DEF Injection, IsInjective
<1>5. f \in Surjection(X, U)
  <2> HIDE DEF X, U
  <2>1. f \in [X -> U]
    BY <1>1, <1>2
  <2>2. ASSUME NEW u \in U PROVE \E x \in X : f[x] = u
    <3>1. PICK h \in Holds, k \in Ordinals : u = <<h, t, k>>
      BY <1>3
    <3>2. <<h, k>> \in X
      BY <1>1, <3>1
    <3> QED BY <3>1, <3>2
  <2> QED BY <2>1, <2>2 DEF Surjection
<1>6. ExistsBijection(X, U)
  BY <1>4, <1>5 DEF ExistsBijection, Bijection
<1>7. IsFiniteSet(X)
  <2>1. IsFiniteSet(HeldUnits(t))
    BY FiniteUnits DEF HeldUnits, ActiveHolds
  <2> QED BY <2>1, FS_Subset
<1> HIDE DEF X, U, f
<1>8. Cardinality(U) = Cardinality(X)
  BY <1>6, <1>7, FS_Bijection
<1> QED BY <1>8 DEF U, X

LEMMA TakenIsSold == StockInv => \A t \in Tiers : Cardinality(Sale!Taken(t)) = sold[t]
<1> SUFFICES ASSUME StockInv, NEW t \in Tiers PROVE Cardinality(Sale!Taken(t)) = sold[t]
  OBVIOUS
<1>1. IsFiniteSet(HeldUnits(t)) /\ Cardinality(HeldUnits(t)) \in Nat
  BY FiniteUnits DEF HeldUnits, ActiveHolds
<1>2. HeldUnits(t) \intersect VoidUnits(t) = VoidUnits(t)
  BY DEF VoidUnits
<1>3. Cardinality(HeldUnits(t) \ VoidUnits(t)) = Cardinality(HeldUnits(t)) - Cardinality(VoidUnits(t))
  BY <1>1, <1>2, FS_Difference
<1>4. sold[t] + Cardinality(TicketsIn(t, "void")) = Cardinality(HeldUnits(t)) /\ sold[t] \in Nat
  BY DEF StockInv, StockConserved, PayInv, TypeOK
<1>5. Cardinality(TicketsIn(t, "void")) \in Nat
  BY FiniteTickets
<1> QED BY <1>1, <1>3, <1>4, <1>5, VoidTicketsAreUnits, TakenAreUnits

-----------------------------------------------------------------------------
(* How the state of a sale follows from the rows.                             *)

LEMMA StageSame ==
    ASSUME NEW h \in Holds, Payers(h)' = Payers(h),
           \A a \in Payers(h) : Completed(a)' <=> Completed(a),
           Payers(h) = {} => (Absent(h)' <=> Absent(h)) /\ (Active(h)' <=> Active(h))
    PROVE  StageOf(h)' = StageOf(h)
BY DEF StageOf, ActiveHolds, Active, Absent

LEMMA PayersStay ==
    ASSUME StockInv, AttemptsStay, NEW h \in Holds
    PROVE  /\ Payers(h)' = Payers(h)
           /\ \A a \in Payers(h) : Completed(a)' <=> Completed(a)
<1>1. \A a \in Attempts : session[a] = "paid" => Present(a)
  BY DEF StockInv, PayInv, SessionAfterRequest
<1> QED BY <1>1 DEF AttemptsStay, Payers

\* A voided ticket of hold h: the seat with this ordinal came back.
CameBack(h, k) == \E a \in Attempts : ticket[<<a, k>>] = "void" /\ attempt[a].hold = h

LEMMA BackStay ==
    ASSUME StockInv, PaymentsKept, \A k \in Attempts \X Ordinals : ticket'[k] = "void" <=> ticket[k] = "void",
           NEW h \in Holds, NEW k \in Ordinals
    PROVE  CameBack(h, k)' <=> CameBack(h, k)
<1>1. ASSUME NEW a \in Attempts, ticket[<<a, k>>] = "void"
      PROVE  attempt'[a].hold = attempt[a].hold
  BY <1>1, VoidHolder DEF PaymentsKept
<1> QED BY <1>1 DEF CameBack

SeatTaken(h, t, k) ==
    Active(h) /\ ~CameBack(h, k) /\ hold[h].tier = t /\ k <= hold[h].quantity

SeatsAreRows ==
    /\ SeatsTaken \subseteq Holds \X Tiers \X Ordinals
    /\ \A h \in Holds, t \in Tiers, k \in Ordinals : <<h, t, k>> \in SeatsTaken <=> SeatTaken(h, t, k)

LEMMA SeatsByRow == SeatsAreRows /\ SeatsAreRows'
<1>1. SeatsAreRows
  BY DEF SeatsAreRows, SeatsTaken, SeatTaken, CameBack, Active, ActiveHolds
<1>2. SeatsAreRows'
  BY <1>1, PTL
<1> QED BY <1>1, <1>2

LEMMA SameSeats ==
    ASSUME NEW S, NEW T, S \subseteq Holds \X Tiers \X Ordinals, T \subseteq Holds \X Tiers \X Ordinals,
           \A h \in Holds, t \in Tiers, k \in Ordinals : <<h, t, k>> \in S <=> <<h, t, k>> \in T
    PROVE  S = T
OBVIOUS

LEMMA SameCount == \A S : Sale!Cardinality(S) = Cardinality(S)
BY DEF Sale!Cardinality, Cardinality

LEMMA StayIsKept ==
    ASSUME StockInv, AttemptsStay
    PROVE  PaymentsKept
BY DEF AttemptsStay, PaymentsKept, Completed, Present

-----------------------------------------------------------------------------
(* One lemma per kind of step.                                                *)

LEMMA NoSaleIsIdle ==
    ASSUME StockInv, NoSale
    PROVE  UNCHANGED Sale!promises
<1>1. \A h \in Holds : (Absent(h)' <=> Absent(h)) /\ (Active(h)' <=> Active(h))
  BY DEF NoSale, Absent, Active
<1>2. \A h \in Holds : StageOf(h)' = StageOf(h)
  BY <1>1, StageSame, PayersStay DEF NoSale
<1>3. \A h \in Holds, k \in Ordinals : CameBack(h, k)' <=> CameBack(h, k)
  BY BackStay, StayIsKept DEF NoSale
<1>4. \A h \in Holds, t \in Tiers, k \in Ordinals : SeatTaken(h, t, k)' <=> SeatTaken(h, t, k)
  BY <1>1, <1>3 DEF NoSale, SeatTaken
<1>5. SeatsTaken' = SeatsTaken
  <2>1. \A h \in Holds, t \in Tiers, k \in Ordinals : <<h, t, k>> \in SeatsTaken' <=> <<h, t, k>> \in SeatsTaken
    BY <1>4, SeatsByRow DEF SeatsAreRows
  <2> QED BY <2>1, SeatsByRow, SameSeats DEF SeatsAreRows
<1> QED BY <1>2, <1>5 DEF NoSale, Sale!promises

LEMMA OpeningKeeps ==
    ASSUME StockInv, StockInv', WithinCapacity', NEW h \in Holds, NEW r \in HoldRow, Opens(h, r)
    PROVE  Sale!Keep(h)
<1>t. hold \in [Holds -> HoldRow \union {NoHold}]
  BY DEF StockInv, PayInv, TypeOK
<1>1. hold'[h] = r /\ \A g \in Holds : g # h => hold'[g] = hold[g]
  BY <1>t DEF Opens
<1>2. AttemptsStay
  BY AttemptsUntouched DEF Opens
<1>3. \A a \in Attempts : Present(a) => attempt[a].hold # h
  BY DEF Opens, StockInv, PayInv, OneAttemptPerHold
<1>4. Payers(h) = {} /\ Payers(h)' = {}
  <2>1. \A a \in Attempts : session[a] = "paid" => Present(a)
    BY DEF StockInv, PayInv, SessionAfterRequest
  <2> QED BY <1>3, <2>1 DEF Payers, Opens
<1>5. StageOf(h) = "none" /\ StageOf(h)' = "kept"
  BY <1>1, <1>4 DEF StageOf, Opens, Absent, ActiveHolds
<1>6. \A g \in Holds : g # h => StageOf(g)' = StageOf(g)
  BY <1>1, <1>2, StageSame, PayersStay DEF Absent, Active
<1> DEFINE K == 1..r.quantity
<1>7. r.tier \in Tiers /\ K \in SUBSET Ordinals /\ K # {}
  <2>1. r.tier \in Tiers /\ r.quantity \in 1..MaxQty
    BY DEF HoldRow
  <2> QED BY <2>1, Amounts DEF Ordinals
<1>8. SeatsTaken' = SeatsTaken \union ({h} \X {r.tier} \X K)
  <2>1. \A k \in Ordinals : ~CameBack(h, k)
    BY <1>3, VoidHolder DEF CameBack
  <2>2. \A g \in Holds, k \in Ordinals : CameBack(g, k)' <=> CameBack(g, k)
    BY DEF CameBack, Opens
  <2>3. ~Active(h) /\ Active(h)'
    BY <1>1 DEF Opens, Active, Absent
  <2>4. \A t \in Tiers, k \in Ordinals : SeatTaken(h, t, k)' <=> t = r.tier /\ k <= r.quantity
    BY <1>1, <2>1, <2>2, <2>3 DEF SeatTaken
  <2>5. \A t \in Tiers, k \in Ordinals : ~SeatTaken(h, t, k)
    BY <2>3 DEF SeatTaken
  <2>6. \A g \in Holds, t \in Tiers, k \in Ordinals :
           g # h => (SeatTaken(g, t, k)' <=> SeatTaken(g, t, k))
    BY <1>1, <2>2 DEF SeatTaken, Active
  <2>7. \A k \in Ordinals : k <= r.quantity <=> k \in K
    BY Amounts DEF HoldRow, Ordinals
  <2> HIDE DEF K
  <2>8. SeatsTaken \union ({h} \X {r.tier} \X K) \subseteq Holds \X Tiers \X Ordinals
    BY <1>7, SeatsByRow DEF SeatsAreRows
  <2>9. \A g \in Holds, t \in Tiers, k \in Ordinals :
           <<g, t, k>> \in SeatsTaken' <=> <<g, t, k>> \in SeatsTaken \union ({h} \X {r.tier} \X K)
    BY <2>4, <2>5, <2>6, <2>7, SeatsByRow DEF SeatsAreRows
  <2> QED BY <2>8, <2>9, SeatsByRow, SameSeats DEF SeatsAreRows
<1>9. Cardinality(Sale!Taken(r.tier)') <= tier[r.tier].total
  <2>1. (\A t \in Tiers : Cardinality(Sale!Taken(t)) = sold[t])'
    BY TakenIsSold, PTL
  <2>2. Cardinality(Sale!Taken(r.tier)') = sold'[r.tier]
    BY <1>7, <2>1
  <2>3. sold'[r.tier] <= tier[r.tier].total
    BY <1>7 DEF WithinCapacity, Opens
  <2> QED BY <2>2, <2>3
<1> HIDE DEF K
<1>10. UNCHANGED tier
  BY DEF Opens
<1> QED BY <1>5, <1>6, <1>7, <1>8, <1>9, <1>10, SameCount DEF Sale!Keep

LEMMA ClosingLetsGo ==
    ASSUME StockInv, NEW D \in SUBSET Holds, Closes(D)
    PROVE  Sale!LetGo(D)
<1>1. \A h \in D : Payers(h) = {} /\ Payers(h)' = {}
  BY PayersStay DEF Closes
<1>2. \A h \in D : StageOf(h) = "kept" /\ StageOf(h)' = "closed"
  BY <1>1 DEF Closes, StageOf, ActiveHolds, Active, Absent
<1>3. \A h \in Holds \ D : StageOf(h)' = StageOf(h)
  BY StageSame, PayersStay DEF Closes, Active, Absent
<1>4. SeatsTaken' = {seat \in SeatsTaken : seat[1] \notin D}
  <2>1. \A h \in Holds, k \in Ordinals : CameBack(h, k)' <=> CameBack(h, k)
    BY BackStay, StayIsKept DEF Closes
  <2>2. \A h \in D, t \in Tiers, k \in Ordinals : ~SeatTaken(h, t, k)'
    BY DEF Closes, SeatTaken, Active
  <2>3. \A h \in Holds \ D, t \in Tiers, k \in Ordinals : SeatTaken(h, t, k)' <=> SeatTaken(h, t, k)
    BY <2>1 DEF Closes, SeatTaken, Active
  <2>4. \A h \in Holds, t \in Tiers, k \in Ordinals :
           <<h, t, k>> \in SeatsTaken' <=> <<h, t, k>> \in {seat \in SeatsTaken : seat[1] \notin D}
    BY <2>2, <2>3, SeatsByRow DEF SeatsAreRows
  <2> QED BY <2>4, SeatsByRow, SameSeats DEF SeatsAreRows
<1>5. D # {} /\ UNCHANGED tier
  BY DEF Closes
<1> QED BY <1>2, <1>3, <1>4, <1>5 DEF Sale!LetGo

LEMMA PayingPays ==
    ASSUME StockInv, CompletedIsPaid, NEW a \in Attempts, ProviderIsPaid(a)
    PROVE  \E h \in Holds : Sale!Pay(h)
<1>1. /\ session[a] = "open" /\ session'[a] = "paid" /\ UNCHANGED <<hold, tier, attempt, ticket>>
      /\ \A b \in Attempts : b # a => session'[b] = session[b]
  BY DEF ProviderIsPaid, SetSession, rows, payments, StockInv, PayInv, TypeOK
<1>2. Present(a) /\ attempt[a].hold \in Holds
  BY <1>1, HoldOfAttempt DEF StockInv, PayInv, SessionAfterRequest
<1>h. PICK h \in Holds : h = attempt[a].hold
  BY <1>2
<1>3. Confirmed(h)
  <2>1. attempt[a].status # "abandoned"
    BY <1>1 DEF StockInv, PayInv, AbandonedIsUnpayable
  <2>2. attempt[a].status \in {"pending", "completed"}
    BY <1>2, <2>1, AttemptPresent DEF StockInv, PayInv, Present, AttemptRow
  <2> QED BY <1>h, <2>2 DEF StockInv, PayInv, LiveAttemptKeepsHold
<1>4. Payers(h) = {}
  <2>1. \A b \in Payers(h) : b = a /\ session[b] = "paid"
    BY <1>2, <1>h, PayerKeepsHold DEF StockInv, Payers
  <2> QED BY <1>1, <2>1
<1>5. StageOf(h) = "kept"
  BY <1>3, <1>4 DEF StageOf, Confirmed, Absent, ActiveHolds
<1>6. StageOf(h)' = "paid"
  <2>1. Payers(h)' = {a}
    BY <1>1, <1>4, <1>h DEF Payers
  <2>2. ~Completed(a)'
    BY <1>1 DEF CompletedIsPaid, Completed
  <2> QED BY <2>1, <2>2 DEF StageOf
<1>7. ASSUME NEW g \in Holds, g # h
      PROVE  StageOf(g)' = StageOf(g)
  <2>1. Payers(g)' = Payers(g)
    BY <1>1, <1>7, <1>h DEF Payers
  <2> QED BY <1>1, <2>1, StageSame DEF Completed, Absent, Active
<1>8. UNCHANGED <<SeatsTaken, tier>>
  BY <1>1 DEF SeatsTaken, ActiveHolds
<1>9. Sale!Pay(h)
  BY <1>5, <1>6, <1>7, <1>8 DEF Sale!Pay
<1> QED BY <1>9

LEMMA FinalizingDelivers ==
    ASSUME StockInv, NEW a \in Attempts, NEW b \in BOOLEAN, FinalizePaid(a, b)
    PROVE  \E h \in Holds : Sale!Deliver(h)
<1>t. TypeOK
  BY DEF StockInv, PayInv
<1>h. PICK h \in Holds : h = attempt[a].hold
  BY <1>t, HoldOfAttempt DEF FinalizePaid, Present
<1>1. /\ session[a] = "paid" /\ attempt[a].status = "pending" /\ UNCHANGED <<hold, tier, session>>
      /\ attempt' = [attempt EXCEPT ![a].status = "completed"]
      /\ ticket' = [k \in Attempts \X Ordinals |->
             IF k[1] = a /\ k[2] <= hold[h].quantity THEN "issued" ELSE ticket[k]]
  BY <1>h DEF FinalizePaid, rows, provider
<1>2. /\ attempt'[a].status = "completed" /\ attempt'[a].hold = h
      /\ \A c \in Attempts : c # a => attempt'[c] = attempt[c]
  <2>1. attempt[a] \in AttemptRow
    BY <1>t, <1>1, AttemptPresent
  <2> QED BY <1>t, <1>h, <1>1, <2>1 DEF TypeOK, AttemptRow
<1>3. a \in Payers(h)
  BY <1>h, <1>1 DEF Payers
<1>4. Payers(h) = {a}
  <2>1. \A c \in Payers(h) : c = a
    BY <1>1, <1>3, <1>h, PayerKeepsHold DEF StockInv, Present, Payers
  <2> QED BY <1>3, <2>1
<1>5. \A g \in Holds : Payers(g)' = Payers(g)
  BY <1>1, <1>2, <1>h DEF Payers
<1>6. StageOf(h) = "paid" /\ StageOf(h)' = "delivered"
  BY <1>1, <1>2, <1>3, <1>4, <1>5 DEF StageOf, Completed
<1>7. ASSUME NEW g \in Holds, g # h
      PROVE  StageOf(g)' = StageOf(g)
  <2>1. a \notin Payers(g)
    BY <1>7, <1>h DEF Payers
  <2>2. \A c \in Payers(g) : Completed(c)' <=> Completed(c)
    BY <1>2, <2>1 DEF Completed, Payers
  <2> QED BY <1>1, <1>5, <2>2, StageSame DEF Absent, Active
<1>8. \A k \in Attempts \X Ordinals : ticket'[k] = "void" <=> ticket[k] = "void"
  <2>1. \A k \in Ordinals : ticket[<<a, k>>] = "none"
    BY <1>1 DEF StockInv, TicketRows, Completed
  <2>2. \A c \in Attempts, k \in Ordinals :
           ticket'[<<c, k>>] = IF c = a /\ k <= hold[h].quantity THEN "issued" ELSE ticket[<<c, k>>]
    BY <1>1
  <2> QED BY <2>1, <2>2
<1>9. SeatsTaken' = SeatsTaken
  <2>1. PaymentsKept
    BY <1>2, <1>h DEF PaymentsKept, Completed
  <2>2. \A g \in Holds, k \in Ordinals : CameBack(g, k)' <=> CameBack(g, k)
    BY <1>8, <2>1, BackStay
  <2>3. \A g \in Holds, t \in Tiers, k \in Ordinals : <<g, t, k>> \in SeatsTaken' <=> <<g, t, k>> \in SeatsTaken
    BY <1>1, <2>2, SeatsByRow DEF SeatsAreRows, SeatTaken, Active
  <2> QED BY <2>3, SeatsByRow, SameSeats DEF SeatsAreRows
<1>10. Sale!Deliver(h)
  BY <1>1, <1>6, <1>7, <1>9 DEF Sale!Deliver
<1> QED BY <1>10

LEMMA ReversingTakesBack ==
    ASSUME StockInv, CompletedIsPaid, NEW a \in Attempts, NEW S \in SUBSET Ordinals,
           ReverseRefundedTickets(a, S)
    PROVE  \E h \in Holds : Sale!TakeBack(h)
<1> DEFINE h == attempt[a].hold
<1>1. /\ Completed(a) /\ UNCHANGED <<hold, tier, attempt, session>>
      /\ \A k \in S : ticket[<<a, k>>] = "issued"
  BY DEF ReverseRefundedTickets, provider
<1>2. ASSUME NEW c \in Attempts, NEW k \in Ordinals
      PROVE  ticket'[<<c, k>>] = IF c = a /\ k \in S THEN "void" ELSE ticket[<<c, k>>]
  BY DEF ReverseRefundedTickets
<1>3. h \in Holds /\ a \in Payers(h)
  BY <1>1, CompletedHold DEF StockInv, CompletedIsPaid, Payers
<1>4. StageOf(h) = "delivered"
  BY <1>1, <1>3 DEF StageOf
<1>5. \A g \in Holds : StageOf(g)' = StageOf(g)
  BY <1>1 DEF StageOf, Payers, Completed, Absent, ActiveHolds
<1>6. ASSUME NEW g \in Holds, NEW k \in Ordinals
      PROVE  /\ CameBack(g, k) => CameBack(g, k)'
             /\ g # h => (CameBack(g, k)' <=> CameBack(g, k))
  BY <1>1, <1>2 DEF CameBack
<1>7. ASSUME NEW g \in Holds, NEW t \in Tiers, NEW k \in Ordinals
      PROVE  /\ <<g, t, k>> \in SeatsTaken' => <<g, t, k>> \in SeatsTaken
             /\ <<g, t, k>> \in SeatsTaken /\ g # h => <<g, t, k>> \in SeatsTaken'
  BY <1>1, <1>6, SeatsByRow DEF SeatsAreRows, SeatTaken, Active
<1>8. SeatsTaken' \subseteq SeatsTaken /\ \A seat \in SeatsTaken \ SeatsTaken' : seat[1] = h
  BY <1>7, SeatsByRow DEF SeatsAreRows
<1> HIDE DEF h
<1> QED BY <1>1, <1>3, <1>4, <1>5, <1>8 DEF Sale!TakeBack

LEMMA SavingResizes ==
    ASSUME StockInv, StockInv', WithinCapacity', NEW t \in Tiers, NEW total \in 0..MaxCapacity,
           NEW active \in BOOLEAN, SaveTicketTier(t, total, active)
    PROVE  Sale!Resize
<1>1. UNCHANGED <<sold, hold, attempt, ticket, session>>
  BY DEF SaveTicketTier, payments, provider
<1>2. UNCHANGED SeatsTaken /\ \A h \in Holds : StageOf(h)' = StageOf(h)
  BY <1>1 DEF SeatsTaken, StageOf, Payers, Completed, Absent, ActiveHolds
<1>3. \A u \in Tiers : tier'[u].total \in Nat
  BY Amounts DEF StockInv, PayInv, TypeOK
<1>4. \A u \in Tiers : Cardinality(Sale!Taken(u)) <= tier'[u].total
  BY <1>1, TakenIsSold DEF WithinCapacity
<1> QED BY <1>2, <1>3, <1>4, SameCount DEF Sale!Resize

LEMMA SaleStepKeepsPromise ==
    SaleInv /\ StockInv' /\ WithinCapacity' /\ [Next]_vars => [Sale!Next]_(Sale!promises)
<1> SUFFICES ASSUME SaleInv, StockInv', WithinCapacity', [Next]_vars
             PROVE  [Sale!Next]_(Sale!promises)
  OBVIOUS
<1>t. StockInv /\ CompletedIsPaid /\ SaleStep
  BY SaleSteps DEF SaleInv
<1>1. CASE NoSale
  BY <1>t, <1>1, NoSaleIsIdle
<1>2. ASSUME NEW h \in Holds, NEW r \in HoldRow, Opens(h, r) PROVE Sale!Next
  BY <1>t, <1>2, OpeningKeeps DEF Sale!Next
<1>3. ASSUME NEW D \in SUBSET Holds, Closes(D) PROVE Sale!Next
  BY <1>t, <1>3, ClosingLetsGo DEF Sale!Next
<1>4. ASSUME NEW a \in Attempts,
             \/ ProviderIsPaid(a)
             \/ \E b \in BOOLEAN : FinalizePaid(a, b)
             \/ \E S \in SUBSET Ordinals : ReverseRefundedTickets(a, S)
      PROVE  Sale!Next
  BY <1>t, <1>4, PayingPays, FinalizingDelivers, ReversingTakesBack DEF Sale!Next
<1>5. ASSUME NEW t \in Tiers, NEW total \in 0..MaxCapacity, NEW active \in BOOLEAN,
             SaveTicketTier(t, total, active)
      PROVE  Sale!Next
  BY <1>t, <1>5, SavingResizes DEF Sale!Next
<1> QED BY <1>t, <1>1, <1>2, <1>3, <1>4, <1>5 DEF SaleStep

\* Only a paid session lets an attempt be completed, and it stays paid.
LEMMA CompletedStep == StockInv /\ CompletedIsPaid /\ [Next]_vars => CompletedIsPaid'
<1> SUFFICES ASSUME StockInv, CompletedIsPaid, [Next]_vars, NEW a \in Attempts, Completed(a)'
             PROVE  session'[a] = "paid"
  BY DEF CompletedIsPaid
<1>t. TypeOK /\ SaleStep
  BY SaleSteps DEF StockInv, PayInv
<1>1. ASSUME AttemptsStay PROVE session'[a] = "paid"
  BY <1>1 DEF AttemptsStay, CompletedIsPaid
<1>2. ASSUME NEW b \in Attempts, ProviderIsPaid(b) PROVE session'[a] = "paid"
  BY <1>t, <1>2 DEF ProviderIsPaid, SetSession, payments, TypeOK, CompletedIsPaid, Completed
<1>3. ASSUME NEW b \in Attempts, NEW refundable, FinalizePaid(b, refundable) PROVE session'[a] = "paid"
  BY <1>t, <1>3 DEF FinalizePaid, provider, TypeOK, CompletedIsPaid, Completed
<1>4. ASSUME UNCHANGED <<attempt, session>> PROVE session'[a] = "paid"
  BY <1>1, <1>4, AttemptsUntouched
<1> QED BY <1>t, <1>1, <1>2, <1>3, <1>4
        DEF SaleStep, NoSale, Opens, Closes, ReverseRefundedTickets, SaveTicketTier, payments, provider

\* Keeping, paying for, delivering and giving back seats happen in the order,
\* and within the capacity, that SalePromise states.
THEOREM CheckoutKeepsSalePromise == Spec => KeepsSalePromise
<1>1. Init => WithinCapacity /\ CompletedIsPaid
  BY Amounts DEF Init, WithinCapacity, CompletedIsPaid, Completed, NoAttempt
<1>2. Spec => [](StockInv /\ WithinCapacity /\ CompletedIsPaid)
  BY <1>1, CapacityStep, CompletedStep, StockInvariant, PTL DEF Spec
<1>3. Init => Sale!Init
  <2> SUFFICES ASSUME Init PROVE Sale!Init
    OBVIOUS
  <2>1. ASSUME NEW h \in Holds PROVE StageOf(h) = "none"
    <3>1. Payers(h) = {} /\ Absent(h)
      BY DEF Init, Payers, Absent, NoHold
    <3>2. h \notin ActiveHolds
      BY DEF Init, ActiveHolds, NoHold
    <3> QED BY <3>1, <3>2 DEF StageOf
  <2>2. SeatsTaken = {}
    BY DEF Init, SeatsTaken, ActiveHolds, NoHold
  <2>3. \A t \in Tiers : tier[t].total \in Nat
    BY Amounts DEF Init
  <2> QED BY <2>1, <2>2, <2>3 DEF Sale!Init
<1> QED BY <1>2, <1>3, SaleStepKeepsPromise, PTL DEF Spec, KeepsSalePromise, Sale!Spec, SaleInv

=============================================================================
