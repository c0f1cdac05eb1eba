--------------------------- MODULE WebhookDelivery ---------------------------
(* Signed deliveries of the payment provider for one checkout attempt:       *)
(* routes/api/public/payment-webhook.ts call by call, with the server        *)
(* helpers it uses.  Handlers of the same or of different events run side by *)
(* side, die between any two calls, and get the event again until they       *)
(* answered 2xx.  Nothing is locked between two calls: only the functions    *)
(* of the database and the unique event id keep an effect from repeating.    *)
(*                                                                           *)
(* Attempts share no row that a delivery writes but the stock counter, which *)
(* Checkout models, so one attempt is enough.  Deliveries with a wrong       *)
(* signature, amount or quote are refused before the first write.  The       *)
(* pricing, expiry-recovery and guest-recovery switches are on.              *)
EXTENDS Naturals

CONSTANTS Handlers,          \* server processes
          MaxFaults,         \* bound: calls that fail and processes that die
          AttemptReadFails   \* whether the attempt of an expiry may be unreadable

ASSUME Faults == MaxFaults \in Nat /\ AttemptReadFails \in BOOLEAN

PaidEvents == {"completed", "async_paid"}
Events     == PaidEvents \union {"async_failed", "expired"}

VARIABLES
    session,   \* the provider's truth
    due,       \* the full deadline of the hold has passed
    attempt,   \* checkout_attempts: kind of price, status, payment reference
    ledger,    \* payment_webhook_events.status, by event
    receipt,   \* guest_purchase_deliveries: none, queued, tried
    sent,      \* events the provider has emitted
    acked,     \* events answered with 2xx
    job,       \* what each handler is doing
    faults,    \* failures so far
    refLost,   \* history: one of them took a payment reference with it
    clockRefused  \* history: a clock made an expiry a no-op, its attempt pending

outside == <<session, due, sent>>
rows    == <<attempt, ledger, receipt>>
history == <<faults, refLost, clockRefused>>
vars    == <<outside, rows, acked, job, history>>

-----------------------------------------------------------------------------
Idle == [at |-> "idle"]

Job == [at     : {"find", "load", "reconcile", "release", "finalize", "review",
                  "correlate", "record", "dispatch", "answer"},
        event  : Events,
        saw    : {"none", "failed", "terminal"},
        status : {"processed", "ignored"}]

Terminal == {"processed", "ignored"}
Quoted   == attempt.kind = "quoted"
At(h, place) == job[h].at = place
Event(h) == job[h].event
Paid(h)  == Event(h) \in PaidEvents

GoTo(h, place) == job' = [job EXCEPT ![h].at = place]
Decide(h, status) == job' = [job EXCEPT ![h].at = "record", ![h].status = status]
\* An error response, or the death of the process: the event comes again.
Leave(h)     == job' = [job EXCEPT ![h] = Idle]

Fault(lost) ==
    /\ faults < MaxFaults
    /\ faults' = faults + 1
    /\ refLost' = (refLost \/ lost)
    /\ UNCHANGED clockRefused

Init ==
    /\ session = "open"
    /\ due = FALSE
    /\ attempt \in [kind : {"quoted", "full_price"}, status : {"pending"}, intent : {FALSE}]
    /\ ledger = [e \in Events |-> "none"]
    /\ receipt = "none"
    /\ sent = {} /\ acked = {}
    /\ job = [h \in Handlers |-> Idle]
    /\ faults = 0 /\ refLost = FALSE /\ clockRefused = FALSE

-----------------------------------------------------------------------------
(* The provider and the clock.                                               *)

SessionMoves(from, to, events) ==
    /\ session = from
    /\ session' = to
    /\ sent' = sent \union events
    /\ UNCHANGED <<due, rows, acked, job, history>>

ProviderCompletes  == SessionMoves("open", "paid", {"completed"})
\* A delayed method: completed, not paid yet.  That event has no branch.
ProviderAwaits     == SessionMoves("open", "awaiting", {})
ProviderAsyncPaid  == SessionMoves("awaiting", "paid", {"async_paid"})
ProviderAsyncFails == SessionMoves("awaiting", "failed", {"async_failed"})
ProviderExpires    == SessionMoves("open", "expired", {"expired"})
\* "Unpaid is not proof that a delayed PaymentIntent cannot still succeed":
\* the fault the review of unfulfilled payments is for.
ProviderPaidLate   == SessionMoves("expired", "paid", {"async_paid"})

DeadlinePasses ==
    /\ ~due
    /\ due' = TRUE
    /\ UNCHANGED <<session, sent, rows, acked, job, history>>

\* The owner's own expiry check, or a sweep, releases the hold meanwhile.
ReleasedElsewhere ==
    /\ session = "expired" /\ due
    /\ attempt.status = "pending"
    /\ attempt' = [attempt EXCEPT !.status = "abandoned"]
    /\ UNCHANGED <<outside, ledger, receipt, acked, job, history>>

-----------------------------------------------------------------------------
(* A delivery: also a duplicate of one that was answered.                    *)

Deliver(h, e) ==
    /\ At(h, "idle")
    /\ e \in sent
    /\ job' = [job EXCEPT ![h] =
           [at |-> "find", event |-> e, saw |-> "none", status |-> "processed"]]
    /\ UNCHANGED <<outside, rows, acked, history>>

\* decideIdempotency: insert, process the failed row, or skip.
Saw(status) == IF status \in Terminal THEN "terminal" ELSE status

\* A read error counts as not found.  A known expiry or failure is answered
\* at once; a known payment is looked up first.
FindWebhookEvent(h) ==
    /\ At(h, "find")
    /\ \E found \in {ledger[Event(h)], "none"} :
          job' = [job EXCEPT ![h].saw = Saw(found),
                             ![h].at = IF Saw(found) = "terminal" /\ ~Paid(h) THEN "answer" ELSE "load"]
    /\ UNCHANGED <<outside, rows, acked, history>>

\* An attempt that cannot be read is no attempt.
LoadedStatus == {attempt.status} \union (IF AttemptReadFails THEN {"unread"} ELSE {})

\* Mutant: an abandoned attempt is as final as a completed one.
ReconciliationOfFinal(status) ==
    CASE status = "pending"   -> "finalize"
      [] status # "pending"   -> "record"

\* decideAttemptReconciliation: complete, already completed, or reject.
Reconciliation(status) ==
    CASE status = "pending"   -> "finalize"
      [] status = "completed" -> "record"
      [] status = "abandoned" -> "review"

\* The quote is proved also for a replay; an unreadable attempt is an error.
LoadPaidAttempt(h) ==
    /\ At(h, "load") /\ Paid(h)
    /\ GoTo(h, IF job[h].saw = "terminal" THEN "dispatch" ELSE Reconciliation(attempt.status))
    /\ UNCHANGED <<outside, rows, acked, history>>

\* A delayed failure is audit evidence only.
LoadFailedAttempt(h) ==
    /\ At(h, "load") /\ Event(h) = "async_failed"
    /\ Decide(h, "ignored")
    /\ UNCHANGED <<outside, rows, acked, history>>

\* decideAbandonReconciliation; and an abandoned attempt with a quote is
\* reconciled again, so that the ledger says what happened.
MustReconcile(status) == status = "pending" \/ (Quoted /\ status = "abandoned")

LoadExpiredAttempt(h) ==
    /\ At(h, "load") /\ Event(h) = "expired"
    /\ \E status \in LoadedStatus :
          IF MustReconcile(status) THEN GoTo(h, "reconcile") ELSE Decide(h, "ignored")
    /\ UNCHANGED <<outside, rows, acked, history>>

-----------------------------------------------------------------------------
(* A paid delivery.                                                          *)

Finalize ==
    /\ attempt.status = "pending"
    /\ attempt' = [attempt EXCEPT !.status = "completed"]
    /\ receipt' = "queued"

FinalizePaidCheckoutAttempt(h) ==
    /\ At(h, "finalize")
    /\ \/ Finalize /\ GoTo(h, "correlate")
       \/ /\ attempt.status = "completed"
          /\ GoTo(h, "correlate") /\ UNCHANGED <<attempt, receipt>>
       \/ /\ attempt.status = "abandoned"
          /\ GoTo(h, "review") /\ UNCHANGED <<attempt, receipt>>
    /\ UNCHANGED <<outside, ledger, acked, history>>

\* It committed, and its answer was lost: a server error.
FinalizeUnheard(h) ==
    /\ At(h, "finalize")
    /\ Finalize
    /\ Leave(h)
    /\ Fault(TRUE)
    /\ UNCHANGED <<outside, ledger, acked>>

\* Mutant: not when the event is in the ledger already.
StoreIfUnrecorded(h) ==
    /\ At(h, "correlate")
    /\ attempt' = [attempt EXCEPT !.intent = @ \/ ledger[Event(h)] = "none"]
    /\ GoTo(h, "record")
    /\ UNCHANGED <<outside, ledger, receipt, acked, history>>

\* Write once; a failure changes nothing in the answer.
RecordAttemptPaymentCorrelation(h) ==
    /\ At(h, "correlate")
    /\ attempt' = [attempt EXCEPT !.intent = TRUE]
    /\ GoTo(h, "record")
    /\ UNCHANGED <<outside, ledger, receipt, acked, history>>

CorrelationFails(h) ==
    /\ At(h, "correlate")
    /\ GoTo(h, "record")
    /\ Fault(TRUE)
    /\ UNCHANGED <<outside, rows, acked>>

\* Mutant: the review of a payment that could not be fulfilled is answered
\* with 2xx and not recorded.
ForgetReview(h) ==
    /\ At(h, "review")
    /\ GoTo(h, "answer")
    /\ UNCHANGED <<outside, rows, acked, history>>

\* Inserted, or moved from received or failed, never over a terminal row.  The
\* answer is an error in any case.
RecordUnfulfilledPaidReview(h) ==
    /\ At(h, "review")
    /\ ledger' = [ledger EXCEPT ![Event(h)] = IF @ \in Terminal THEN @ ELSE "failed"]
    /\ Leave(h)
    /\ UNCHANGED <<outside, attempt, receipt, acked, history>>

-----------------------------------------------------------------------------
(* A signed expiry.                                                          *)

\* What a GET that started after the deadline shows.
FreshlyExpired == session = "expired"

\* Mutant: a delivery that comes too early is ledgered like any other.
ReconcileEarly(h) ==
    /\ At(h, "reconcile")
    /\ IF due /\ attempt.status = "pending" THEN GoTo(h, "release") ELSE Decide(h, "ignored")
    /\ UNCHANGED <<outside, rows, acked, history>>

\* The checks before the release.  Only a quoted attempt needs the fresh look
\* in any case; for the others a recent event is evidence itself.
ReconcileSignedCheckoutExpiry(h) ==
    /\ At(h, "reconcile")
    /\ Quoted => due
    /\ \/ attempt.status = "completed" /\ Decide(h, "ignored")
       \/ attempt.status = "abandoned" /\ Decide(h, IF Quoted THEN "processed" ELSE "ignored")
       \/ /\ attempt.status = "pending" /\ due
          /\ Quoted => FreshlyExpired
          /\ GoTo(h, "release")
    /\ UNCHANGED <<outside, rows, acked, history>>

\* A no-op: the event will be ledgered and answered, whatever the attempt is.
NoOp(h) ==
    /\ Decide(h, "ignored")
    /\ clockRefused' = (clockRefused \/ attempt.status = "pending")
    /\ UNCHANGED <<outside, rows, acked, faults, refLost>>

\* The event lies ahead of the server's clock.  A full-price attempt is asked
\* for its status and its deadline first, a quoted one after this.
AheadOfTheClock(h) ==
    /\ At(h, "reconcile")
    /\ Quoted \/ (attempt.status = "pending" /\ due)
    /\ NoOp(h)

\* not_due_or_stale: the database compares the deadline and the evidence with
\* its own clock, once it has the locks.  (The function for quoted carts does
\* so too, but there a refusal is an error, one of those of Fail.)
NotDueOrStale(h) ==
    /\ At(h, "release")
    /\ ~Quoted /\ attempt.status = "pending"
    /\ NoOp(h)

\* One transaction: it releases, replays, or finds a full-price attempt paid.
ReleaseExpired(h) ==
    /\ At(h, "release")
    /\ \/ attempt.status = "completed" /\ ~Quoted /\ Decide(h, "ignored")
       \/ attempt.status # "completed" /\ Decide(h, "processed")
    /\ attempt' = [attempt EXCEPT !.status = IF @ = "pending" THEN "abandoned" ELSE @]
    /\ UNCHANGED <<outside, ledger, receipt, acked, history>>

\* Too early, not (or no longer) expired for the provider, or rows that changed
\* since they were read: an error, so that the event comes again.
RefuseExpiry(h) ==
    /\ \/ /\ At(h, "reconcile")
          /\ \/ ~due /\ (Quoted \/ attempt.status = "pending")
             \/ ~FreshlyExpired /\ attempt.status = "pending"
       \/ At(h, "release") /\ attempt.status # "pending"
    /\ Leave(h)
    /\ UNCHANGED <<outside, rows, acked, history>>

-----------------------------------------------------------------------------
(* Ledger, receipt and answer.                                               *)

\* insert: the unique event id lets one delivery win, the others are
\* duplicates; process: the row that was found is marked.
RecordWebhookEvent(h) ==
    /\ At(h, "record")
    /\ ledger' = [ledger EXCEPT ![Event(h)] =
           IF @ = "none" \/ job[h].saw = "failed" THEN job[h].status ELSE @]
    /\ GoTo(h, IF Paid(h) THEN "dispatch" ELSE "answer")
    /\ UNCHANGED <<outside, attempt, receipt, acked, history>>

\* Mutant: the receipt is dispatched only by the delivery that issued.
DispatchOnce(h) ==
    /\ At(h, "dispatch")
    /\ receipt' = IF receipt = "queued" /\ job[h].saw # "terminal" THEN "tried" ELSE receipt
    /\ GoTo(h, "answer")
    /\ UNCHANGED <<outside, attempt, ledger, acked, history>>

\* Also for a replay.  What becomes of the mail does not change the answer.
DeliverGuestReceipt(h) ==
    /\ At(h, "dispatch")
    /\ receipt' = IF receipt = "queued" THEN "tried" ELSE receipt
    /\ GoTo(h, "answer")
    /\ UNCHANGED <<outside, attempt, ledger, acked, history>>

Answer(h) ==
    /\ At(h, "answer")
    /\ acked' = acked \union {Event(h)}
    /\ Leave(h)
    /\ UNCHANGED <<outside, rows, history>>

\* A call that throws or answers an error, or a process that dies.
Fail(h) ==
    /\ ~At(h, "idle")
    /\ Leave(h)
    /\ Fault(At(h, "correlate"))
    /\ UNCHANGED <<outside, rows, acked>>

-----------------------------------------------------------------------------
ProviderStep ==
    \/ ProviderCompletes \/ ProviderAwaits \/ ProviderAsyncPaid \/ ProviderAsyncFails
    \/ ProviderExpires \/ ProviderPaidLate

Lookup(h)   == FindWebhookEvent(h) \/ LoadPaidAttempt(h) \/ LoadFailedAttempt(h) \/ LoadExpiredAttempt(h)
PaidPath(h) == \/ FinalizePaidCheckoutAttempt(h) \/ RecordAttemptPaymentCorrelation(h)
               \/ RecordUnfulfilledPaidReview(h)
Closing(h)  == \/ ReconcileSignedCheckoutExpiry(h) \/ ReleaseExpired(h) \/ RefuseExpiry(h)
               \/ AheadOfTheClock(h) \/ NotDueOrStale(h)
               \/ RecordWebhookEvent(h) \/ DeliverGuestReceipt(h) \/ Answer(h)
Work(h)     == Lookup(h) \/ PaidPath(h) \/ Closing(h)

Next ==
    \/ ProviderStep \/ DeadlinePasses \/ ReleasedElsewhere
    \/ \E h \in Handlers :
          \/ \E e \in Events : Deliver(h, e)
          \/ Work(h)
          \/ FinalizeUnheard(h) \/ CorrelationFails(h) \/ Fail(h)

\* The clock advances; a handler that goes on makes its next call; and the
\* provider delivers an event again until it is answered, however often other
\* events are delivered in between (hence strong fairness).
Fairness ==
    /\ WF_vars(DeadlinePasses)
    /\ \A h \in Handlers : WF_vars(Work(h))
    /\ \A e \in Events : SF_vars(e \notin acked /\ \E h \in Handlers : Deliver(h, e))

Spec     == Init /\ [][Next]_vars
FairSpec == Spec /\ Fairness

-----------------------------------------------------------------------------
(* Properties.                                                               *)

TypeOK ==
    /\ session \in {"open", "awaiting", "paid", "failed", "expired"}
    /\ due \in BOOLEAN /\ faults \in 0..MaxFaults
    /\ refLost \in BOOLEAN /\ clockRefused \in BOOLEAN
    /\ attempt \in [kind : {"quoted", "full_price"}, intent : BOOLEAN,
                    status : {"pending", "completed", "abandoned"}]
    /\ ledger \in [Events -> {"none", "failed"} \union Terminal]
    /\ receipt \in {"none", "queued", "tried"}
    /\ sent \subseteq Events /\ acked \subseteq sent
    /\ job \in [Handlers -> Job \union {Idle}]

\* The rows say what happened, whatever order duplicates and crashes gave the
\* deliveries: processed means issued for a payment and released for an expiry,
\* failed means a payment whose attempt had been given up.
LedgerTellsTruth ==
    /\ \A e \in PaidEvents :
          /\ ledger[e] = "processed" => attempt.status = "completed"
          /\ ledger[e] = "failed" => session = "paid" /\ attempt.status = "abandoned"
    /\ ledger["expired"] = "processed" => attempt.status = "abandoned"

\* The provider stops sending what was answered with 2xx, so nothing may be
\* left to do then: a payment is issued, recorded and its receipt was tried,
\* an expiry has found its attempt released or paid.  The one exception is the
\* code's: an expiry that a clock refused is acknowledged all the same, and its
\* attempt may stay pending (expiry branch of POST).
AcknowledgedIsSettled ==
    /\ \A e \in PaidEvents \intersect acked :
          ledger[e] = "processed" /\ attempt.status = "completed" /\ receipt = "tried"
    /\ "expired" \in acked => ledger["expired"] \in Terminal /\ (attempt.status # "pending" \/ clockRefused)

\* Without a fault between finalization and the write of the reference, every
\* issued attempt gets one, also when another delivery overtakes the write.
ReferenceLostOnlyByFault ==
    attempt.status = "completed" =>
        attempt.intent \/ refLost \/ \E h \in Handlers : At(h, "correlate")

\* Whatever the crashes and duplicates, a payment is in the end issued and
\* recorded, or recorded for review because its attempt had been given up.
PaidIsIssuedOrReviewed ==
    session = "paid" ~> \E e \in PaidEvents :
        \/ attempt.status = "completed" /\ ledger[e] = "processed" /\ receipt = "tried"
        \/ attempt.status = "abandoned" /\ ledger[e] = "failed"

\* The stock of an expired session comes back without anybody looking at it,
\* unless a clock refused the evidence: that event does not come again.
ExpiredIsReleased == session = "expired" ~> attempt.status # "pending" \/ clockRefused

\* "Keep a too-early delivery retryable without [...] terminally recording
\* ignored before the full immutable hold deadline."
EarlyExpiryStaysRetryable ==
    ledger["expired"] = "ignored" /\ ~due => attempt.status # "pending"

=============================================================================
