-------------------------- MODULE RefundCoordination --------------------------
(* Refunding tickets of one paid order: the coordinator that claims a         *)
(* selection, asks the provider and reverses the tickets; the provider; the   *)
(* signed refund events; the operator's recovery; and the door.               *)
(*                                                                            *)
(* Nothing locks across the calls of a coordinator, so each database call and *)
(* each message of the provider is a step of its own, and any of them may     *)
(* fail, or take effect while its answer is lost.  A coordinator is named by  *)
(* its request; a ledger row by its selection, because its idempotency key is *)
(* derived from the payment and the sorted selection.                         *)
EXTENDS Integers, FiniteSets

CONSTANTS Tickets,      \* the tickets issued for the order
          Requests,     \* calls of the refund command (bound)
          Operators,    \* operators that may run a recovery at one time (bound)
          Deliveries    \* refund events that the provider sends for one refund

Selections == (SUBSET Tickets) \ {{}}

VARIABLES
    refundable,  \* tickets.refundable_at_issue, the same for the whole order
    ticket,      \* tickets: status, checked_in_at
    reversed,    \* ticket_refunds with its items, by the refund's selection
    ledger,      \* refund_coordination_attempts
    claim,       \* refund_ticket_claims: the selection that claimed a ticket
    at, sel,     \* a coordinator: where it is, and the selection it refunds
    op, target,  \* an operator: where its recovery is, and of which selection
    event,       \* payment_webhook_events and handlers, by selection and event
    post,        \* the POST for a selection and what the provider replied
    refund       \* the provider's truth about the refund of a selection

database  == <<ticket, reversed, ledger, claim>>
run       == <<at, sel>>
recovery  == <<op, target>>
processes == <<run, recovery, event>>
provider  == <<post, refund>>
vars      == <<refundable, database, processes, provider>>

-----------------------------------------------------------------------------
NoRow      == [state |-> "none", reason |-> "none", reference |-> FALSE]
LedgerRows == [state     : {"none", "pending", "provider_refunded", "reversed",
                            "reconciliation_needed", "failed"},
               reason    : {"none", "refused", "provider_unverified", "provider_pending",
                            "reversal_refused", "webhook_unreconciled", "provider_final"},
               reference : BOOLEAN]

Nothing   == {}
Running   == {"gated", "eligible", "claimed", "called", "refunded", "reversed", "unreversed"}
Ended     == {"returned", "lost"}
Looking   == {"read_flagged", "read_refunded", "succeeded", "failed", "promoted", "reversed"}

Known(S) == ledger[S].state # "none"
Voided   == {t \in Tickets : ticket[t].status = "void"}
Items    == UNION {S \in Selections : reversed[S]}

Init ==
    /\ refundable \in BOOLEAN
    /\ ticket = [t \in Tickets |-> [status |-> "issued", in |-> FALSE]]
    /\ reversed = [S \in Selections |-> FALSE]
    /\ ledger = [S \in Selections |-> NoRow]
    /\ claim = [t \in Tickets |-> Nothing]
    /\ at = [r \in Requests |-> "idle"]
    /\ sel = [r \in Requests |-> Nothing]
    /\ op = [o \in Operators |-> "idle"]
    /\ target = [o \in Operators |-> Nothing]
    /\ event = [e \in Selections \X Deliveries |-> "none"]
    /\ post = [S \in Selections |-> "none"]
    /\ refund = [S \in Selections |-> "none"]

-----------------------------------------------------------------------------
(* The door, as far as refunds race it.                                       *)

CheckInTicket(t) ==
    /\ ~ticket[t].in
    /\ ticket[t].status = "issued" /\ t \notin Items
    /\ ticket' = [ticket EXCEPT ![t].in = TRUE]
    /\ UNCHANGED <<refundable, reversed, ledger, claim, processes, provider>>

\* Needs an active pass, which a void ticket has not.
ReverseTicketCheckIn(t) ==
    /\ ticket[t].in
    /\ ticket[t].status = "issued"
    /\ ticket' = [ticket EXCEPT ![t].in = FALSE]
    /\ UNCHANGED <<refundable, reversed, ledger, claim, processes, provider>>

-----------------------------------------------------------------------------
(* reverse_refunded_tickets: one transaction, or a replay, or a refusal.      *)

Reversible(S) ==
    /\ refundable
    /\ S \intersect Items = {}
    /\ \A t \in S : ticket[t].status = "issued" /\ ~ticket[t].in

ReverseRefundedTickets(S) ==
    /\ ~reversed[S]
    /\ Reversible(S)
    /\ reversed' = [reversed EXCEPT ![S] = TRUE]
    /\ ticket' = [t \in Tickets |-> IF t \in S THEN [ticket[t] EXCEPT !.status = "void"]
                                               ELSE ticket[t]]

\* What a caller may see: the reversal or its replay, or that it failed.  A
\* failure may hide a reversal that committed.
CallReversal(S, seen) ==
    \/ ReverseRefundedTickets(S)
    \/ /\ seen => reversed[S]
       /\ UNCHANGED <<ticket, reversed>>

-----------------------------------------------------------------------------
(* The coordinator.                                                           *)

Go(r, place) == /\ at' = [at EXCEPT ![r] = place]
                /\ UNCHANGED sel

Begin(r, S) ==
    /\ at[r] = "idle"
    /\ ~Known(S)
    /\ at' = [at EXCEPT ![r] = "gated"]
    /\ sel' = [sel EXCEPT ![r] = S]
    /\ UNCHANGED <<refundable, database, recovery, event, provider>>

\* Mutant: forgets the terms of the sale, as they were when it was made.
CheckUnused(r) ==
    /\ at[r] = "gated"
    /\ Go(r, IF \A t \in sel[r] : ticket[t].status = "issued" /\ ~ticket[t].in
             THEN "eligible" ELSE "returned")
    /\ UNCHANGED <<refundable, database, recovery, event, provider>>

CheckEligibility(r) ==
    /\ at[r] = "gated"
    /\ Go(r, IF Reversible(sel[r]) THEN "eligible" ELSE "returned")
    /\ UNCHANGED <<refundable, database, recovery, event, provider>>

\* Mutant: only the unique key of the row guards a claim.
ClaimSelection(r) ==
    LET S == sel[r] IN
    /\ at[r] = "eligible"
    /\ IF ~Known(S)
       THEN /\ ledger' = [ledger EXCEPT ![S] = [NoRow EXCEPT !.state = "pending"]]
            /\ claim' = [t \in Tickets |-> IF t \in S THEN S ELSE claim[t]]
            /\ Go(r, "claimed")
       ELSE /\ Go(r, "returned")
            /\ UNCHANGED <<ledger, claim>>
    /\ UNCHANGED <<refundable, ticket, reversed, recovery, event, provider>>

\* The ledger row and one claim per ticket, or neither.
ClaimTickets(r) ==
    LET S == sel[r] IN
    /\ at[r] = "eligible"
    /\ IF ~Known(S) /\ \A t \in S : claim[t] = Nothing
       THEN /\ ledger' = [ledger EXCEPT ![S] = [NoRow EXCEPT !.state = "pending"]]
            /\ claim' = [t \in Tickets |-> IF t \in S THEN S ELSE claim[t]]
            /\ Go(r, "claimed")
       ELSE /\ Go(r, "returned")
            /\ UNCHANGED <<ledger, claim>>
    /\ UNCHANGED <<refundable, ticket, reversed, recovery, event, provider>>

\* setState: an UPDATE by id that does not look at the state it replaces.  It
\* may fail, or succeed without the coordinator learning it.
SetState(r, row, next) ==
    \/ /\ ledger' = [ledger EXCEPT ![sel[r]] = row]
       /\ Go(r, next)
    \/ /\ ledger' \in {ledger, [ledger EXCEPT ![sel[r]] = row]}
       /\ Go(r, "returned")

Row(r) == ledger[sel[r]]
Flagged(row, why) == [row EXCEPT !.state = "reconciliation_needed", !.reason = why]

\* The POST leaves the process ...
CallProvider(r) ==
    /\ at[r] = "claimed"
    /\ post' = [post EXCEPT ![sel[r]] = "sent"]
    /\ Go(r, "called")
    /\ UNCHANGED <<refundable, database, recovery, event, refund>>

RecordFailure(r) ==
    SetState(r, [Row(r) EXCEPT !.state = "failed", !.reason = "refused"], "returned")

\* ... unless the server is not configured for test refunds.
RefuseConfiguration(r) ==
    /\ at[r] = "claimed"
    /\ RecordFailure(r)
    /\ UNCHANGED <<refundable, ticket, reversed, claim, recovery, event, provider>>

\* Only an explicit refusal of the client is a definite failure.
HearRefusal(r) ==
    /\ at[r] = "called"
    /\ post[sel[r]] = "refused"
    /\ RecordFailure(r)
    /\ UNCHANGED <<refundable, ticket, reversed, claim, recovery, event, provider>>

\* Mutant: takes a timeout for a failure.
HearFailure(r) ==
    /\ at[r] = "called"
    /\ RecordFailure(r)
    /\ UNCHANGED <<refundable, ticket, reversed, claim, recovery, event, provider>>

\* A timeout, a lost reply, or a reply that cannot be verified.
HearNothing(r) ==
    /\ at[r] = "called"
    /\ SetState(r, Flagged(Row(r), "provider_unverified"), "returned")
    /\ UNCHANGED <<refundable, ticket, reversed, claim, recovery, event, provider>>

HearPending(r) ==
    /\ at[r] = "called"
    /\ post[sel[r]] = "pending"
    /\ SetState(r, [Flagged(Row(r), "provider_pending") EXCEPT !.reference = TRUE], "returned")
    /\ UNCHANGED <<refundable, ticket, reversed, claim, recovery, event, provider>>

\* Mutant: takes every accepted refund for a completed one.
HearAccepted(r) ==
    /\ at[r] = "called"
    /\ post[sel[r]] \in {"succeeded", "pending"}
    /\ SetState(r, [Row(r) EXCEPT !.state = "provider_refunded", !.reference = TRUE], "refunded")
    /\ UNCHANGED <<refundable, ticket, reversed, claim, recovery, event, provider>>

HearSucceeded(r) ==
    /\ at[r] = "called"
    /\ post[sel[r]] = "succeeded"
    /\ SetState(r, [Row(r) EXCEPT !.state = "provider_refunded", !.reference = TRUE], "refunded")
    /\ UNCHANGED <<refundable, ticket, reversed, claim, recovery, event, provider>>

ReverseTickets(r) ==
    /\ at[r] = "refunded"
    /\ \E seen \in BOOLEAN : /\ CallReversal(sel[r], seen)
                             /\ Go(r, IF seen THEN "reversed" ELSE "unreversed")
    /\ UNCHANGED <<refundable, ledger, claim, recovery, event, provider>>

CloseRefund(r) ==
    /\ at[r] = "reversed"
    /\ SetState(r, [Row(r) EXCEPT !.state = "reversed"], "returned")
    /\ UNCHANGED <<refundable, ticket, reversed, claim, recovery, event, provider>>

FlagRefund(r) ==
    /\ at[r] = "unreversed"
    /\ SetState(r, Flagged(Row(r), "reversal_refused"), "returned")
    /\ UNCHANGED <<refundable, ticket, reversed, claim, recovery, event, provider>>

\* The server process dies, or its caller never learns what it did.
LoseCoordinator(r) ==
    /\ at[r] \in Running
    /\ Go(r, "lost")
    /\ UNCHANGED <<refundable, database, recovery, event, provider>>

-----------------------------------------------------------------------------
(* The provider.                                                              *)

ProviderReplies(S, reply) ==
    /\ post[S] = "sent"
    /\ reply \in {"refused", "succeeded", "pending", "failed"}
    /\ post' = [post EXCEPT ![S] = reply]
    /\ refund' = [refund EXCEPT ![S] = IF reply = "refused" THEN "none" ELSE reply]
    /\ UNCHANGED <<refundable, database, processes>>

ProviderSettles(S, status) ==
    /\ refund[S] = "pending"
    /\ status \in {"succeeded", "failed", "canceled"}
    /\ refund' = [refund EXCEPT ![S] = status]
    /\ UNCHANGED <<refundable, database, processes, post>>

-----------------------------------------------------------------------------
(* Signed refund events.                                                      *)

\* The row that the event's refund reference names, or the only row of the
\* payment; a row that knows another reference is a mismatch.
Correlated(S) ==
    {R \in Selections : Known(R) /\
        \/ R = S /\ ledger[R].reference
        \/ ~ledger[S].reference /\ ~ledger[R].reference /\ \A Q \in Selections : Known(Q) => Q = R}

\* The handler reads the row and decides.  An event seen before, or one without
\* a usable pair of references, changes no row but its own.
ReceiveRefundEvent(S, d) ==
    LET states == {ledger[R].state : R \in Correlated(S)} IN
    /\ refund[S] # "none"
    /\ event[<<S, d>>] = "none"
    /\ \/ event' = [event EXCEPT ![<<S, d>>] = "ignored"]
       \/ event' = [event EXCEPT ![<<S, d>>] =
           CASE states = {"provider_refunded"} -> "flagging"
             [] states \subseteq {"pending", "failed"} -> "ignored"
             [] OTHER -> "processed"]
    /\ UNCHANGED <<refundable, database, run, recovery, provider>>

\* Mutant: the flag does not demand the state that was read.
FlagWhateverState(S, d) ==
    /\ event[<<S, d>>] = "flagging"
    /\ ledger' = [ledger EXCEPT ![S] = Flagged(@, "webhook_unreconciled")]
    /\ event' = [event EXCEPT ![<<S, d>>] = "processed"]
    /\ UNCHANGED <<refundable, ticket, reversed, claim, run, recovery, provider>>

\* The flag is guarded by the state that was read.  The event is recorded only
\* after the UPDATE succeeded; otherwise the provider delivers it again.
FlagReconciliationNeeded(S, d) ==
    /\ event[<<S, d>>] = "flagging"
    /\ \/ /\ IF ledger[S].state = "provider_refunded"
             THEN ledger' = [ledger EXCEPT ![S] = Flagged(@, "webhook_unreconciled")]
             ELSE UNCHANGED ledger
          /\ event' \in {[event EXCEPT ![<<S, d>>] = "processed"],
                         [event EXCEPT ![<<S, d>>] = "none"]}
       \/ /\ UNCHANGED ledger
          /\ event' = [event EXCEPT ![<<S, d>>] = "none"]
    /\ UNCHANGED <<refundable, ticket, reversed, claim, run, recovery, provider>>

-----------------------------------------------------------------------------
(* An operator recovers one refund that the provider already has.             *)

Step(o, place) == /\ op' = [op EXCEPT ![o] = place]
                  /\ UNCHANGED target
Finish(o)      == /\ op' = [op EXCEPT ![o] = "idle"]
                  /\ target' = [target EXCEPT ![o] = Nothing]

Recoverable(row) ==
    /\ row.reference
    /\ \/ row.state = "reconciliation_needed" /\ row.reason = "provider_pending"
       \/ row.state = "provider_refunded" /\ row.reason = "none"

ReadLedger(o, S) ==
    /\ op[o] = "idle"
    /\ Recoverable(ledger[S])
    /\ op' = [op EXCEPT ![o] = IF ledger[S].state = "provider_refunded"
                               THEN "read_refunded" ELSE "read_flagged"]
    /\ target' = [target EXCEPT ![o] = S]
    /\ UNCHANGED <<refundable, database, run, event, provider>>

\* A refund that failed after the ledger recorded its success is left alone.
LookUpRefund(o) ==
    /\ op[o] \in {"read_flagged", "read_refunded"}
    /\ \/ /\ refund[target[o]] = "succeeded"
          /\ Step(o, IF op[o] = "read_flagged" THEN "succeeded" ELSE "promoted")
       \/ /\ refund[target[o]] \in {"failed", "canceled"}
          /\ op[o] = "read_flagged"
          /\ Step(o, "failed")
       \/ Finish(o)
    /\ UNCHANGED <<refundable, database, run, event, provider>>

\* transition: an UPDATE that demands the state that was read.
Transition(o, expected, row, next) ==
    \/ /\ expected
       /\ ledger' = [ledger EXCEPT ![target[o]] = row]
       /\ (IF next = "idle" THEN Finish(o) ELSE Step(o, next)) \/ Finish(o)
    \/ /\ UNCHANGED ledger
       /\ Finish(o)

AwaitingRecovery(S) ==
    ledger[S].state = "reconciliation_needed" /\ ledger[S].reason = "provider_pending"

MarkFailed(o) ==
    LET S == target[o] IN
    /\ op[o] = "failed"
    /\ Transition(o, AwaitingRecovery(S),
                  [ledger[S] EXCEPT !.state = "failed", !.reason = "provider_final"], "idle")
    /\ UNCHANGED <<refundable, ticket, reversed, claim, run, event, provider>>

MarkRefunded(o) ==
    LET S == target[o] IN
    /\ op[o] = "succeeded"
    /\ Transition(o, AwaitingRecovery(S),
                  [ledger[S] EXCEPT !.state = "provider_refunded", !.reason = "none"], "promoted")
    /\ UNCHANGED <<refundable, ticket, reversed, claim, run, event, provider>>

RecoverTickets(o) ==
    /\ op[o] = "promoted"
    /\ \E seen \in BOOLEAN : /\ CallReversal(target[o], seen)
                             /\ IF seen THEN Step(o, "reversed") ELSE Finish(o)
    /\ UNCHANGED <<refundable, ledger, claim, run, event, provider>>

CloseRecovery(o) ==
    LET S == target[o] IN
    /\ op[o] = "reversed"
    /\ Transition(o, ledger[S].state = "provider_refunded",
                  [ledger[S] EXCEPT !.state = "reversed", !.reason = "none"], "idle")
    /\ UNCHANGED <<refundable, ticket, reversed, claim, run, event, provider>>

\* The process behind a recovery dies.
LoseRecovery(o) ==
    /\ op[o] \in Looking
    /\ Finish(o)
    /\ UNCHANGED <<refundable, database, run, event, provider>>

-----------------------------------------------------------------------------
Coordinate(r) ==
    \/ \E S \in Selections : Begin(r, S)
    \/ CheckEligibility(r) \/ ClaimTickets(r) \/ RefuseConfiguration(r) \/ CallProvider(r)
    \/ HearRefusal(r) \/ HearNothing(r) \/ HearPending(r) \/ HearSucceeded(r)
    \/ ReverseTickets(r) \/ CloseRefund(r) \/ FlagRefund(r) \/ LoseCoordinator(r)

Recover(o) ==
    \/ \E S \in Selections : ReadLedger(o, S)
    \/ LookUpRefund(o) \/ MarkFailed(o) \/ MarkRefunded(o)
    \/ RecoverTickets(o) \/ CloseRecovery(o) \/ LoseRecovery(o)

Provide(S) ==
    \/ \E reply \in {"refused", "succeeded", "pending", "failed"} : ProviderReplies(S, reply)
    \/ \E status \in {"succeeded", "failed", "canceled"} : ProviderSettles(S, status)

Notify(S, d) == ReceiveRefundEvent(S, d) \/ FlagReconciliationNeeded(S, d)

Next ==
    \/ \E r \in Requests : Coordinate(r)
    \/ \E o \in Operators : Recover(o)
    \/ \E S \in Selections : Provide(S)
    \/ \E S \in Selections, d \in Deliveries : Notify(S, d)
    \/ \E t \in Tickets : CheckInTicket(t) \/ ReverseTicketCheckIn(t)

Spec == Init /\ [][Next]_vars

-----------------------------------------------------------------------------
(* Properties.                                                                *)

\* The shapes of rows, messages and local states.
TypeOK ==
    /\ refundable \in BOOLEAN
    /\ ticket \in [Tickets -> [status : {"issued", "void"}, in : BOOLEAN]]
    /\ reversed \in [Selections -> BOOLEAN]
    /\ ledger \in [Selections -> LedgerRows]
    /\ claim \in [Tickets -> SUBSET Tickets]
    /\ at \in [Requests -> {"idle"} \union Running \union Ended]
    /\ sel \in [Requests -> SUBSET Tickets]
    /\ op \in [Operators -> {"idle"} \union Looking]
    /\ target \in [Operators -> SUBSET Tickets]
    /\ event \in [Selections \X Deliveries -> {"none", "flagging", "ignored", "processed"}]
    /\ post \in [Selections -> {"none", "sent", "refused", "succeeded", "pending", "failed"}]
    /\ refund \in [Selections -> {"none", "succeeded", "pending", "failed", "canceled"}]

\* Two requests whose selections share a ticket never both get past the claims,
\* so at most one process ever asks the provider for a ticket's money.
Owning == Running \ {"gated", "eligible"}
OneCoordinatorPerTicket ==
    \A r, q \in Requests :
        r # q /\ at[r] \in Owning /\ at[q] \in Owning => sel[r] \intersect sel[q] = {}

\* Whatever the provider has, or may still, pay back can be reversed: only
\* somebody inside with one of the tickets stands in the way.
MayBePaid(S) == post[S] = "sent" \/ refund[S] \in {"pending", "succeeded"}
RefundedIsReversible ==
    \A S \in Selections : MayBePaid(S) /\ ~reversed[S] =>
        /\ refundable
        /\ S \intersect Items = {}
        /\ \A t \in S : ticket[t].status = "issued"

\* What the ledger says of a refund is so: a failure means that no money moved
\* or ever will, a provider refund that it did, a reversal that the tickets are
\* void, and a row that awaits recovery names a refund that exists.
LedgerTellsTruth ==
    \A S \in Selections :
        /\ ledger[S].state = "failed" => ~MayBePaid(S)
        /\ ledger[S].state = "provider_refunded" => refund[S] = "succeeded"
        /\ ledger[S].state = "reversed" => reversed[S]
        /\ ledger[S].reference => refund[S] # "none"

\* A closed row stays as it is, except that a coordinator which did not see its
\* reversal commit flags a row that a recovery has closed meanwhile.
ClosedRefundsStayClosed ==
    [][\A S \in Selections :
          /\ ledger[S].state = "failed" => ledger'[S] = ledger[S]
          /\ ledger[S].state = "reversed" =>
                 ledger'[S].state = "reversed" \/ ledger'[S].reason = "reversal_refused"]_vars

\* The coordinator, its crashes and retries, the events and the recovery keep
\* the promise of RefundPromise.
Promise == INSTANCE RefundPromise WITH
    claimed   <- {S \in Selections : Known(S)},
    paidBack  <- {S \in Selections : refund[S] = "succeeded"},
    takenBack <- {S \in Selections : reversed[S]},
    inside    <- {t \in Tickets : ticket[t].in}

KeepsPromise == Promise!Spec

\* refund-coordinator.server.ts:18 says that a refund which the provider made and
\* the coordinator could not reverse is left in reconciliation_needed.
UnreversedIsFlagged ==
    \A r \in Requests :
        at[r] = "returned" /\ post[sel[r]] = "succeeded" /\ ~reversed[sel[r]] =>
            ledger[sel[r]].state = "reconciliation_needed"
==============================================================================
