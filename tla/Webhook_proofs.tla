---------------------------- MODULE Webhook_proofs ----------------------------
(* What the ledger says and what an acknowledgement means, for any number of *)
(* handlers and faults: duplicates, any order, deaths between any two calls. *)
EXTENDS WebhookDelivery, TLAPS

-----------------------------------------------------------------------------
(* The strengthening.                                                        *)

\* What a delivery at its place relies on, of the rows as they are by now.
Relies(j, status, rowOf, mail, emitted, ruled) ==
    /\ j.event \in emitted
    /\ j.saw = "terminal" => rowOf[j.event] \in Terminal
    /\ j.at \in {"reconcile", "release"} => j.event = "expired"
    /\ j.at \in {"finalize", "review", "correlate", "dispatch"} => j.event \in PaidEvents
    /\ j.at = "review" => status = "abandoned"
    /\ j.at = "correlate" => status = "completed"
    /\ j.at = "answer" => rowOf[j.event] \in Terminal
    /\ j.event \in PaidEvents =>
          /\ j.status = "processed"
          /\ j.at \in {"record", "dispatch", "answer"} => status = "completed"
          /\ j.at \in {"dispatch", "answer"} => rowOf[j.event] = "processed"
          /\ j.at = "answer" => mail = "tried"
    /\ j.event = "expired" /\ j.at = "record" =>
          /\ j.status = "processed" => status = "abandoned"
          /\ ~AttemptReadFails => status # "pending" \/ ruled

HandlersRely ==
    \A h \in Handlers : job[h].at # "idle" =>
        Relies(job[h], attempt.status, ledger, receipt, sent, clockRefused)

\* What holds of the rows alone, before anything is answered.
RowFacts ==
    /\ \A e \in PaidEvents \intersect sent : session = "paid"
    /\ \A e \in PaidEvents : ledger[e] # "ignored"
    /\ \A e \in Events \ PaidEvents : ledger[e] # "failed"
    /\ attempt.status = "completed" <=> receipt # "none"
    /\ ledger["expired"] \in Terminal /\ ~AttemptReadFails => attempt.status # "pending" \/ clockRefused

\* AcknowledgedIsSettled, whether or not an attempt may be unreadable.
Acknowledged ==
    /\ \A e \in PaidEvents \intersect acked :
          ledger[e] = "processed" /\ attempt.status = "completed" /\ receipt = "tried"
    /\ "expired" \in acked => ledger["expired"] \in Terminal

WebInv ==
    /\ TypeOK /\ HandlersRely /\ RowFacts /\ LedgerTellsTruth
    /\ Acknowledged /\ ReferenceLostOnlyByFault

Stages == {"find", "load", "reconcile", "release", "finalize", "review",
           "correlate", "record", "dispatch", "answer"}
AttemptRows == [kind : {"quoted", "full_price"}, intent : BOOLEAN,
                status : {"pending", "completed", "abandoned"}]
Statuses == {"none", "failed"} \union Terminal

\* Rows only move forward: a closed attempt stays what it is, a terminal
\* ledger row stays terminal, a receipt that was tried stays so.
Forward ==
    /\ attempt.status # "pending" => attempt'.status = attempt.status
    /\ \A e \in Events : ledger[e] \in Terminal => ledger'[e] \in Terminal
    /\ \A e \in PaidEvents : ledger[e] = "processed" => ledger'[e] = "processed"
    /\ receipt = "tried" => receipt' = "tried"
    /\ sent \subseteq sent'
    /\ clockRefused => clockRefused'

LEMMA Types == TypeOK <=>
    /\ session \in {"open", "awaiting", "paid", "failed", "expired"}
    /\ due \in BOOLEAN /\ faults \in 0..MaxFaults /\ refLost \in BOOLEAN
    /\ clockRefused \in BOOLEAN
    /\ attempt \in AttemptRows /\ ledger \in [Events -> Statuses]
    /\ receipt \in {"none", "queued", "tried"} /\ sent \subseteq Events /\ acked \subseteq sent
    /\ job \in [Handlers -> Job \union {Idle}]
BY DEF TypeOK, AttemptRows, Statuses

-----------------------------------------------------------------------------
(* Jobs.                                                                     *)

LEMMA AtWork ==
    ASSUME TypeOK, NEW h \in Handlers, job[h].at # "idle"
    PROVE  /\ job[h] \in Job /\ job[h].event \in Events /\ job[h].at \in Stages
           /\ job[h].status \in Terminal /\ job[h].saw \in {"none", "failed", "terminal"}
BY DEF TypeOK, Idle, Job, Stages, Terminal

LEMMA NotIdle ==
    ASSUME NEW j \in Job PROVE j.at # "idle" /\ j # Idle
BY DEF Job, Idle

LEMMA GoToRow ==
    ASSUME TypeOK, NEW h \in Handlers, job[h].at # "idle", NEW place \in Stages, GoTo(h, place)
    PROVE  /\ job' \in [Handlers -> Job \union {Idle}]
           /\ job'[h].at = place /\ job'[h].event = job[h].event
           /\ job'[h].saw = job[h].saw /\ job'[h].status = job[h].status
           /\ \A x \in Handlers : x # h => job'[x] = job[x]
<1>1. job[h] \in Job
    BY AtWork
<1> DEFINE new == [job[h] EXCEPT !.at = place]
<1>2. /\ new \in Job /\ new.at = place /\ new.event = job[h].event
      /\ new.saw = job[h].saw /\ new.status = job[h].status
    BY <1>1 DEF Job, Stages
<1>3. job' = [job EXCEPT ![h] = new]
    BY DEF GoTo
<1> HIDE DEF new
<1> QED
    BY <1>2, <1>3 DEF TypeOK

LEMMA DecideRow ==
    ASSUME TypeOK, NEW h \in Handlers, job[h].at # "idle", NEW status \in Terminal,
           Decide(h, status)
    PROVE  /\ job' \in [Handlers -> Job \union {Idle}]
           /\ job'[h].at = "record" /\ job'[h].event = job[h].event
           /\ job'[h].saw = job[h].saw /\ job'[h].status = status
           /\ \A x \in Handlers : x # h => job'[x] = job[x]
<1>1. job[h] \in Job
    BY AtWork
<1> DEFINE new == [job[h] EXCEPT !.at = "record", !.status = status]
<1>2. /\ new \in Job /\ new.at = "record" /\ new.event = job[h].event
      /\ new.saw = job[h].saw /\ new.status = status
    BY <1>1 DEF Job, Terminal
<1>3. job' = [job EXCEPT ![h] = new]
    BY DEF Decide
<1> HIDE DEF new
<1> QED
    BY <1>2, <1>3 DEF TypeOK

LEMMA LeaveRow ==
    ASSUME TypeOK, NEW h \in Handlers, Leave(h)
    PROVE  /\ job' \in [Handlers -> Job \union {Idle}] /\ job'[h] = Idle
           /\ \A x \in Handlers : x # h => job'[x] = job[x]
BY DEF TypeOK, Leave

LEMMA FaultTypes ==
    ASSUME TypeOK, NEW lost \in BOOLEAN, Fault(lost)
    PROVE  faults' \in 0..MaxFaults /\ refLost' \in BOOLEAN /\ (refLost => refLost')
           /\ (lost => refLost') /\ clockRefused' = clockRefused
BY Faults DEF TypeOK, Fault

\* Nobody's reliance is broken by rows that move forward.
LEMMA ReliesOn ==
    ASSUME TypeOK, NEW h \in Handlers, job[h].at # "idle", Forward,
           Relies(job[h], attempt.status, ledger, receipt, sent, clockRefused)
    PROVE  Relies(job[h], attempt'.status, ledger', receipt', sent', clockRefused')
<1>1. job[h].event \in Events /\ attempt.status \in {"pending", "completed", "abandoned"}
    BY AtWork DEF TypeOK
<1> QED
    BY <1>1 DEF Relies, Forward

LEMMA RelyAfter ==
    ASSUME TypeOK, HandlersRely, Forward, NEW h \in Handlers,
           \A x \in Handlers : x # h => job'[x] = job[x],
           job'[h].at # "idle" => Relies(job'[h], attempt'.status, ledger', receipt', sent', clockRefused')
    PROVE  HandlersRely'
BY ReliesOn DEF HandlersRely

\* The rows stand still, one handler goes on or leaves.
LEMMA Quiet ==
    ASSUME WebInv, NEW h \in Handlers, UNCHANGED <<outside, rows, acked>>,
           job' \in [Handlers -> Job \union {Idle}],
           \A x \in Handlers : x # h => job'[x] = job[x],
           job'[h].at # "idle" => Relies(job'[h], attempt.status, ledger, receipt, sent, clockRefused'),
           faults' \in 0..MaxFaults, refLost' \in BOOLEAN, refLost => refLost',
           clockRefused' \in BOOLEAN, clockRefused => clockRefused',
           job[h].at = "correlate" => refLost' \/ attempt.intent
    PROVE  WebInv'
<1>1. UNCHANGED <<session, due, sent, attempt, ledger, receipt, acked>>
    BY DEF outside, rows
<1>2. Forward
    BY <1>1 DEF Forward
<1>3. HandlersRely'
    BY <1>1, <1>2, RelyAfter DEF WebInv
<1>4. TypeOK'
    BY <1>1 DEF WebInv, TypeOK
<1>5. RowFacts' /\ LedgerTellsTruth' /\ Acknowledged'
    BY <1>1 DEF WebInv, RowFacts, LedgerTellsTruth, Acknowledged
<1>6. ReferenceLostOnlyByFault'
    BY <1>1 DEF WebInv, ReferenceLostOnlyByFault, At
<1> QED
    BY <1>3, <1>4, <1>5, <1>6 DEF WebInv

-----------------------------------------------------------------------------
(* The provider, the clock and the other cleanup paths.                      *)

LEMMA ProviderKeeps == ASSUME WebInv, ProviderStep \/ DeadlinePasses PROVE WebInv'
<1>1. UNCHANGED <<attempt, ledger, receipt, acked, job, faults, refLost, clockRefused>>
    BY DEF ProviderStep, DeadlinePasses, ProviderCompletes, ProviderAwaits, ProviderAsyncPaid,
           ProviderAsyncFails, ProviderExpires, ProviderPaidLate, SessionMoves, rows, history
<1>2. /\ session' \in {"open", "awaiting", "paid", "failed", "expired"} /\ due' \in BOOLEAN
      /\ sent \subseteq sent' /\ sent' \subseteq Events
      /\ session = "paid" => session' = "paid"
      /\ \A e \in PaidEvents \intersect sent' : e \in sent \/ session' = "paid"
    BY DEF WebInv, TypeOK, ProviderStep, DeadlinePasses, ProviderCompletes, ProviderAwaits,
           ProviderAsyncPaid, ProviderAsyncFails, ProviderExpires, ProviderPaidLate,
           SessionMoves, Events, PaidEvents
<1>3. TypeOK'
    BY <1>1, <1>2 DEF WebInv, TypeOK
<1>4. HandlersRely'
    <2>1. Forward
        BY <1>1, <1>2 DEF Forward
    <2> QED
        BY <1>1, <2>1, ReliesOn DEF WebInv, HandlersRely
<1>5. RowFacts' /\ LedgerTellsTruth'
    BY <1>1, <1>2 DEF WebInv, RowFacts, LedgerTellsTruth
<1>6. Acknowledged' /\ ReferenceLostOnlyByFault'
    BY <1>1 DEF WebInv, Acknowledged, ReferenceLostOnlyByFault, At
<1> QED
    BY <1>3, <1>4, <1>5, <1>6 DEF WebInv

\* A step that closes a pending attempt without a payment.
LEMMA AbandonRow ==
    ASSUME NEW row \in AttemptRows
    PROVE  LET new == [row EXCEPT !.status = "abandoned"]
           IN  new \in AttemptRows /\ new.status = "abandoned" /\ new.intent = row.intent
BY DEF AttemptRows

LEMMA ReleasedElsewhereKeeps == ASSUME WebInv, ReleasedElsewhere PROVE WebInv'
<1>1. UNCHANGED <<session, due, sent, ledger, receipt, acked, job, faults, refLost, clockRefused>>
    BY DEF ReleasedElsewhere, outside, history
<1>2. attempt \in AttemptRows
    BY Types DEF WebInv
<1>3. attempt' \in AttemptRows /\ attempt'.status = "abandoned" /\ attempt.status = "pending"
    BY <1>2, AbandonRow DEF ReleasedElsewhere
<1>4. HandlersRely'
    <2>1. Forward
        BY <1>1, <1>3 DEF Forward
    <2> QED
        BY <1>1, <2>1, ReliesOn DEF WebInv, HandlersRely
<1>5. TypeOK'
    BY <1>1, <1>3 DEF WebInv, TypeOK, AttemptRows
<1>6. RowFacts'
    BY <1>1, <1>3 DEF WebInv, RowFacts
<1>7. LedgerTellsTruth' /\ Acknowledged' /\ ReferenceLostOnlyByFault'
    BY <1>1, <1>3 DEF WebInv, LedgerTellsTruth, Acknowledged, ReferenceLostOnlyByFault
<1> QED
    BY <1>4, <1>5, <1>6, <1>7 DEF WebInv

-----------------------------------------------------------------------------
(* A delivery, up to the first write.                                        *)

LEMMA NoFaultKeeps ==
    ASSUME WebInv, NEW h \in Handlers, UNCHANGED <<outside, rows, acked, history>>,
           job' \in [Handlers -> Job \union {Idle}],
           \A x \in Handlers : x # h => job'[x] = job[x],
           job'[h].at # "idle" => Relies(job'[h], attempt.status, ledger, receipt, sent, clockRefused),
           job[h].at # "correlate"
    PROVE  WebInv'
<1>1. /\ faults' \in 0..MaxFaults /\ refLost' \in BOOLEAN /\ (refLost => refLost')
      /\ clockRefused' \in BOOLEAN /\ clockRefused' = clockRefused
    BY DEF history, WebInv, TypeOK
<1> QED
    BY <1>1, Quiet

LEMMA DeliverKeeps ==
    ASSUME WebInv, NEW h \in Handlers, NEW e \in Events, Deliver(h, e) PROVE WebInv'
<1> DEFINE new == [at |-> "find", event |-> e, saw |-> "none", status |-> "processed"]
<1>1. new \in Job /\ Relies(new, attempt.status, ledger, receipt, sent, clockRefused)
    BY DEF Deliver, Job, Relies, Terminal
<1>2. job' = [job EXCEPT ![h] = new] /\ job[h].at = "idle"
    BY DEF Deliver, At
<1> HIDE DEF new
<1>3. job' \in [Handlers -> Job \union {Idle}] /\ job'[h] = new
      /\ \A x \in Handlers : x # h => job'[x] = job[x]
    BY <1>1, <1>2 DEF WebInv, TypeOK
<1> QED
    BY <1>1, <1>2, <1>3, NoFaultKeeps DEF Deliver

LEMMA FindKeeps ==
    ASSUME WebInv, NEW h \in Handlers, FindWebhookEvent(h) PROVE WebInv'
<1>1. job[h].at = "find" /\ job[h] \in Job /\ job[h].event \in Events
    BY AtWork DEF FindWebhookEvent, At, WebInv
<1>2. PICK found \in {ledger[Event(h)], "none"} :
          job' = [job EXCEPT ![h].saw = Saw(found),
                             ![h].at = IF Saw(found) = "terminal" /\ ~Paid(h) THEN "answer" ELSE "load"]
    BY DEF FindWebhookEvent
<1> DEFINE place == IF Saw(found) = "terminal" /\ ~Paid(h) THEN "answer" ELSE "load"
           new == [job[h] EXCEPT !.saw = Saw(found), !.at = place]
<1>3. Saw(found) \in {"none", "failed", "terminal"}
      /\ (Saw(found) = "terminal" => ledger[job[h].event] \in Terminal)
    BY <1>1 DEF Saw, Event, WebInv, TypeOK, Terminal
<1>4. job[h] \in Job /\ job' = [job EXCEPT ![h] = new]
    BY <1>1, <1>2 DEF WebInv, TypeOK
<1>5. place \in {"answer", "load"} /\ (place = "answer" => job[h].event \notin PaidEvents)
      /\ (place = "answer" => Saw(found) = "terminal")
    BY DEF Paid, Event
<1> HIDE DEF place
<1>6. /\ new \in Job /\ new.at = place /\ new.saw = Saw(found)
      /\ new.event = job[h].event /\ new.status = job[h].status
    BY <1>3, <1>4, <1>5 DEF Job
<1> HIDE DEF new
<1>7. job' \in [Handlers -> Job \union {Idle}] /\ job'[h] = new
      /\ \A x \in Handlers : x # h => job'[x] = job[x]
    BY <1>4, <1>6 DEF WebInv, TypeOK
<1>8. Relies(new, attempt.status, ledger, receipt, sent, clockRefused)
    BY <1>1, <1>3, <1>5, <1>6 DEF WebInv, HandlersRely, Relies
<1> QED
    BY <1>1, <1>7, <1>8, NoFaultKeeps DEF FindWebhookEvent

\* A handler that goes on without writing anything.
LEMMA GoOn ==
    ASSUME WebInv, NEW h \in Handlers, UNCHANGED <<outside, rows, acked, history>>,
           job[h].at \notin {"idle", "correlate"}, NEW place \in Stages, GoTo(h, place),
           \A j : /\ j.event = job[h].event /\ j.saw = job[h].saw
                  /\ j.status = job[h].status /\ j.at = place
                  => Relies(j, attempt.status, ledger, receipt, sent, clockRefused)
    PROVE  WebInv'
BY GoToRow, NoFaultKeeps DEF WebInv

LEMMA DecideOn ==
    ASSUME WebInv, NEW h \in Handlers, UNCHANGED <<outside, rows, acked, history>>,
           job[h].at \notin {"idle", "correlate"}, NEW status \in Terminal, Decide(h, status),
           \A j : /\ j.event = job[h].event /\ j.saw = job[h].saw
                  /\ j.status = status /\ j.at = "record"
                  => Relies(j, attempt.status, ledger, receipt, sent, clockRefused)
    PROVE  WebInv'
BY DecideRow, NoFaultKeeps DEF WebInv

LEMMA LoadPaidKeeps ==
    ASSUME WebInv, NEW h \in Handlers, LoadPaidAttempt(h) PROVE WebInv'
<1> DEFINE place == IF job[h].saw = "terminal" THEN "dispatch" ELSE Reconciliation(attempt.status)
<1>1. /\ job[h].at = "load" /\ job[h].event \in PaidEvents /\ GoTo(h, place)
      /\ UNCHANGED <<outside, rows, acked, history>>
    BY DEF LoadPaidAttempt, At, Paid, Event
<1>2. /\ place \in Stages
      /\ place = "review" => attempt.status = "abandoned"
      /\ place = "record" => attempt.status = "completed"
      /\ place = "dispatch" => job[h].saw = "terminal"
      /\ place \in {"dispatch", "finalize", "record", "review"}
    BY DEF WebInv, TypeOK, Reconciliation, Stages
<1> HIDE DEF place
<1>3. Relies(job[h], attempt.status, ledger, receipt, sent, clockRefused)
    BY <1>1 DEF WebInv, HandlersRely
<1>4. place = "dispatch" => ledger[job[h].event] = "processed" /\ attempt.status = "completed"
    BY <1>1, <1>2, <1>3 DEF Relies, WebInv, RowFacts, LedgerTellsTruth, Terminal
<1>5. ASSUME NEW j, j.event = job[h].event, j.saw = job[h].saw,
             j.status = job[h].status, j.at = place
      PROVE  Relies(j, attempt.status, ledger, receipt, sent, clockRefused)
    BY <1>1, <1>2, <1>3, <1>4, <1>5 DEF Relies, PaidEvents
<1> QED
    BY <1>1, <1>2, <1>5, GoOn

LEMMA LoadFailedKeeps ==
    ASSUME WebInv, NEW h \in Handlers, LoadFailedAttempt(h) PROVE WebInv'
<1>1. /\ job[h].at = "load" /\ job[h].event = "async_failed" /\ Decide(h, "ignored")
      /\ UNCHANGED <<outside, rows, acked, history>>
    BY DEF LoadFailedAttempt, At, Event
<1>2. Relies(job[h], attempt.status, ledger, receipt, sent, clockRefused)
    BY <1>1 DEF WebInv, HandlersRely
<1>3. ASSUME NEW j, j.event = job[h].event, j.saw = job[h].saw, j.status = "ignored",
             j.at = "record"
      PROVE  Relies(j, attempt.status, ledger, receipt, sent, clockRefused)
    BY <1>1, <1>2, <1>3 DEF Relies, PaidEvents
<1> QED
    BY <1>1, <1>3, DecideOn DEF Terminal

\* An expiry that is to be ignored has found its attempt closed, unless the
\* attempt could not be read.
LEMMA LoadExpiredKeeps ==
    ASSUME WebInv, NEW h \in Handlers, LoadExpiredAttempt(h) PROVE WebInv'
<1>1. /\ job[h].at = "load" /\ job[h].event = "expired"
      /\ UNCHANGED <<outside, rows, acked, history>>
    BY DEF LoadExpiredAttempt, At, Event
<1>2. Relies(job[h], attempt.status, ledger, receipt, sent, clockRefused)
    BY <1>1 DEF WebInv, HandlersRely
<1>3. \/ GoTo(h, "reconcile")
      \/ Decide(h, "ignored") /\ (~AttemptReadFails => attempt.status # "pending")
    BY Faults DEF LoadExpiredAttempt, LoadedStatus, MustReconcile
<1>4. CASE GoTo(h, "reconcile")
    <2>1. ASSUME NEW j, j.event = job[h].event, j.saw = job[h].saw,
                 j.status = job[h].status, j.at = "reconcile"
          PROVE  Relies(j, attempt.status, ledger, receipt, sent, clockRefused)
        BY <1>1, <1>2, <2>1 DEF Relies, PaidEvents
    <2> QED
        BY <1>1, <1>4, <2>1, GoOn DEF Stages
<1>5. CASE Decide(h, "ignored") /\ (~AttemptReadFails => attempt.status # "pending")
    <2>1. ASSUME NEW j, j.event = job[h].event, j.saw = job[h].saw, j.status = "ignored",
                 j.at = "record"
          PROVE  Relies(j, attempt.status, ledger, receipt, sent, clockRefused)
        BY <1>1, <1>2, <1>5, <2>1 DEF Relies, PaidEvents
    <2> QED
        BY <1>1, <1>5, <2>1, DecideOn DEF Terminal
<1> QED
    BY <1>3, <1>4, <1>5

LEMMA ReconcileKeeps ==
    ASSUME WebInv, NEW h \in Handlers, ReconcileSignedCheckoutExpiry(h) PROVE WebInv'
<1>1. job[h].at = "reconcile" /\ UNCHANGED <<outside, rows, acked, history>>
    BY DEF ReconcileSignedCheckoutExpiry, At
<1>2. Relies(job[h], attempt.status, ledger, receipt, sent, clockRefused)
    BY <1>1 DEF WebInv, HandlersRely
<1>3. job[h].event = "expired"
    BY <1>1, <1>2 DEF Relies
<1>4. CASE GoTo(h, "release")
    <2>1. ASSUME NEW j, j.event = job[h].event, j.saw = job[h].saw,
                 j.status = job[h].status, j.at = "release"
          PROVE  Relies(j, attempt.status, ledger, receipt, sent, clockRefused)
        BY <1>2, <1>3, <2>1 DEF Relies, PaidEvents
    <2> QED
        BY <1>1, <1>4, <2>1, GoOn DEF Stages
<1>5. ASSUME NEW status \in Terminal, Decide(h, status), attempt.status # "pending",
             status = "processed" => attempt.status = "abandoned"
      PROVE  WebInv'
    <2>1. ASSUME NEW j, j.event = job[h].event, j.saw = job[h].saw, j.status = status,
                 j.at = "record"
          PROVE  Relies(j, attempt.status, ledger, receipt, sent, clockRefused)
        BY <1>2, <1>3, <1>5, <2>1 DEF Relies, PaidEvents
    <2> QED
        BY <1>1, <1>5, <2>1, DecideOn
<1> QED
    BY <1>4, <1>5 DEF ReconcileSignedCheckoutExpiry, Terminal

\* A no-op: whatever its attempt is by now, the expiry will be ledgered, and it
\* is remembered when that was pending.
LEMMA NoOpKeeps ==
    ASSUME WebInv, NEW h \in Handlers, AheadOfTheClock(h) \/ NotDueOrStale(h) PROVE WebInv'
<1>1. /\ job[h].at \in {"reconcile", "release"} /\ Decide(h, "ignored")
      /\ UNCHANGED <<outside, rows, acked, faults, refLost>>
      /\ clockRefused' = (clockRefused \/ attempt.status = "pending")
    BY DEF AheadOfTheClock, NotDueOrStale, NoOp, At
<1>2. Relies(job[h], attempt.status, ledger, receipt, sent, clockRefused)
    BY <1>1 DEF WebInv, HandlersRely
<1>3. job[h].event = "expired"
    BY <1>1, <1>2 DEF Relies
<1>4. /\ faults' \in 0..MaxFaults /\ refLost' \in BOOLEAN /\ (refLost => refLost')
      /\ clockRefused' \in BOOLEAN /\ (clockRefused => clockRefused')
    BY <1>1 DEF WebInv, TypeOK
<1>5. /\ job' \in [Handlers -> Job \union {Idle}]
      /\ job'[h].at = "record" /\ job'[h].event = job[h].event
      /\ job'[h].saw = job[h].saw /\ job'[h].status = "ignored"
      /\ \A x \in Handlers : x # h => job'[x] = job[x]
    BY <1>1, DecideRow DEF WebInv, Terminal
<1>6. Relies(job'[h], attempt.status, ledger, receipt, sent, clockRefused')
    BY <1>1, <1>2, <1>3, <1>5 DEF Relies, PaidEvents
<1> QED
    BY <1>1, <1>4, <1>5, <1>6, Quiet

-----------------------------------------------------------------------------
(* The writes.                                                               *)

LEMMA IssueRow ==
    ASSUME NEW row \in AttemptRows
    PROVE  LET new == [row EXCEPT !.status = "completed"]
           IN  new \in AttemptRows /\ new.status = "completed" /\ new.intent = row.intent
BY DEF AttemptRows

\* A pending attempt is issued; who issued it stores the reference, or is lost.
LEMMA IssueKeeps ==
    ASSUME WebInv, NEW h \in Handlers, Finalize,
           UNCHANGED <<session, due, sent, ledger, acked>>,
           job' \in [Handlers -> Job \union {Idle}],
           \A x \in Handlers : x # h => job'[x] = job[x],
           job'[h].at # "idle" => Relies(job'[h], attempt'.status, ledger', receipt', sent', clockRefused'),
           faults' \in 0..MaxFaults, refLost' \in BOOLEAN, UNCHANGED clockRefused,
           refLost' \/ job'[h].at = "correlate"
    PROVE  WebInv'
<1>1. attempt \in AttemptRows
    BY Types DEF WebInv
<1>2. /\ attempt' \in AttemptRows /\ attempt'.status = "completed" /\ attempt.status = "pending"
      /\ receipt' = "queued"
    BY <1>1, IssueRow DEF Finalize
<1>3. receipt = "none"
    <2>1. attempt.status # "completed"
        BY <1>2
    <2> QED
        BY <2>1 DEF WebInv, RowFacts
<1>4. HandlersRely'
    <2>1. Forward
        BY <1>2, <1>3 DEF Forward
    <2> QED
        BY <2>1, RelyAfter DEF WebInv
<1>5. TypeOK'
    BY <1>2 DEF WebInv, TypeOK, AttemptRows
<1>6. RowFacts'
    BY <1>2 DEF WebInv, RowFacts
<1>7. LedgerTellsTruth'
    BY <1>2 DEF WebInv, LedgerTellsTruth
<1>8. Acknowledged'
    BY <1>2 DEF WebInv, Acknowledged
<1>9. ReferenceLostOnlyByFault'
    BY DEF ReferenceLostOnlyByFault, At
<1> QED
    BY <1>4, <1>5, <1>6, <1>7, <1>8, <1>9 DEF WebInv

LEMMA FinalizeKeeps ==
    ASSUME WebInv, NEW h \in Handlers, FinalizePaidCheckoutAttempt(h) PROVE WebInv'
<1>1. job[h].at = "finalize" /\ UNCHANGED <<session, due, sent, ledger, acked, faults, refLost, clockRefused>>
    BY DEF FinalizePaidCheckoutAttempt, At, outside, history
<1>2. Relies(job[h], attempt.status, ledger, receipt, sent, clockRefused)
    BY <1>1 DEF WebInv, HandlersRely
<1>3. job[h].event \in PaidEvents
    BY <1>1, <1>2 DEF Relies
<1>4. CASE Finalize /\ GoTo(h, "correlate")
    <2>1. /\ job' \in [Handlers -> Job \union {Idle}]
          /\ job'[h].at = "correlate" /\ job'[h].event = job[h].event
          /\ job'[h].saw = job[h].saw /\ job'[h].status = job[h].status
          /\ \A x \in Handlers : x # h => job'[x] = job[x]
        BY <1>1, <1>4, GoToRow DEF WebInv, Stages
    <2>2. attempt \in AttemptRows
        BY Types DEF WebInv
    <2>3. attempt'.status = "completed"
        BY <1>4, <2>2, IssueRow DEF Finalize
    <2>4. Relies(job'[h], attempt'.status, ledger', receipt', sent', clockRefused')
        BY <1>1, <1>2, <1>3, <2>1, <2>3 DEF Relies, PaidEvents
    <2>5. faults' \in 0..MaxFaults /\ refLost' \in BOOLEAN /\ UNCHANGED clockRefused
        BY <1>1 DEF WebInv, TypeOK
    <2> QED
        BY <1>1, <1>4, <2>1, <2>4, <2>5, IssueKeeps
<1>5. ASSUME NEW place \in {"correlate", "review"}, GoTo(h, place), UNCHANGED <<attempt, receipt>>,
             place = "correlate" => attempt.status = "completed",
             place = "review" => attempt.status = "abandoned"
      PROVE  WebInv'
    <2>1. ASSUME NEW j, j.event = job[h].event, j.saw = job[h].saw,
                 j.status = job[h].status, j.at = place
          PROVE  Relies(j, attempt.status, ledger, receipt, sent, clockRefused)
        BY <1>2, <1>3, <1>5, <2>1 DEF Relies, PaidEvents
    <2> QED
        BY <1>1, <1>5, <2>1, GoOn DEF Stages, outside, rows, history
<1> QED
    BY <1>4, <1>5 DEF FinalizePaidCheckoutAttempt

LEMMA FinalizeUnheardKeeps ==
    ASSUME WebInv, NEW h \in Handlers, FinalizeUnheard(h) PROVE WebInv'
<1>1. Finalize /\ Leave(h) /\ Fault(TRUE) /\ UNCHANGED <<session, due, sent, ledger, acked>>
    BY DEF FinalizeUnheard, outside
<1>2. /\ job' \in [Handlers -> Job \union {Idle}] /\ job'[h] = Idle
      /\ \A x \in Handlers : x # h => job'[x] = job[x]
    BY <1>1, LeaveRow DEF WebInv
<1>3. job'[h].at = "idle"
    BY <1>2 DEF Idle
<1>4. faults' \in 0..MaxFaults /\ refLost' \in BOOLEAN /\ refLost' /\ UNCHANGED clockRefused
    BY <1>1, FaultTypes DEF WebInv
<1> QED
    BY <1>1, <1>2, <1>3, <1>4, IssueKeeps

\* The reference is stored: the attempt's status and every row stay.
LEMMA CorrelateKeeps ==
    ASSUME WebInv, NEW h \in Handlers,
           RecordAttemptPaymentCorrelation(h) \/ CorrelationFails(h)
    PROVE  WebInv'
<1>1. job[h].at = "correlate" /\ GoTo(h, "record") /\ UNCHANGED <<session, due, sent, ledger, receipt, acked>>
    BY DEF RecordAttemptPaymentCorrelation, CorrelationFails, At, outside, rows
<1>2. Relies(job[h], attempt.status, ledger, receipt, sent, clockRefused)
    BY <1>1 DEF WebInv, HandlersRely
<1>3. /\ job' \in [Handlers -> Job \union {Idle}]
      /\ job'[h].at = "record" /\ job'[h].event = job[h].event
      /\ job'[h].saw = job[h].saw /\ job'[h].status = job[h].status
      /\ \A x \in Handlers : x # h => job'[x] = job[x]
    BY <1>1, GoToRow DEF WebInv, Stages
<1>4. Relies(job'[h], attempt.status, ledger, receipt, sent, clockRefused)
    BY <1>1, <1>2, <1>3 DEF Relies, PaidEvents
<1>5. CASE CorrelationFails(h)
    <2>1. /\ faults' \in 0..MaxFaults /\ refLost' \in BOOLEAN /\ refLost'
          /\ clockRefused' = clockRefused /\ clockRefused \in BOOLEAN
        BY <1>5, FaultTypes, Types DEF CorrelationFails, WebInv
    <2> QED
        BY <1>3, <1>4, <1>5, <2>1, Quiet DEF CorrelationFails
<1>6. CASE RecordAttemptPaymentCorrelation(h)
    <2>1. attempt \in AttemptRows
        BY Types DEF WebInv
    <2>2. attempt' \in AttemptRows /\ attempt'.status = attempt.status /\ attempt'.intent = TRUE
        BY <1>6, <2>1 DEF RecordAttemptPaymentCorrelation, AttemptRows
    <2>3. UNCHANGED <<faults, refLost, clockRefused>>
        BY <1>6 DEF RecordAttemptPaymentCorrelation, history
    <2>4. Forward
        BY <1>1, <2>2, <2>3 DEF Forward
    <2>5. HandlersRely'
        BY <1>1, <1>3, <1>4, <2>2, <2>3, <2>4, RelyAfter DEF WebInv
    <2>6. TypeOK'
        BY <1>1, <1>3, <2>2, <2>3 DEF WebInv, TypeOK, AttemptRows
    <2>7. RowFacts' /\ LedgerTellsTruth' /\ Acknowledged' /\ ReferenceLostOnlyByFault'
        BY <1>1, <2>2, <2>3 DEF WebInv, RowFacts, LedgerTellsTruth, Acknowledged, ReferenceLostOnlyByFault
    <2> QED
        BY <2>5, <2>6, <2>7 DEF WebInv
<1> QED
    BY <1>5, <1>6

\* A step of the ledger alone.
LEMMA LedgerKeeps ==
    ASSUME WebInv, NEW h \in Handlers, NEW e \in Events, NEW status \in Statuses,
           ledger' = [ledger EXCEPT ![e] = status],
           UNCHANGED <<session, due, sent, attempt, receipt, acked, faults, refLost, clockRefused>>,
           ledger[e] \in Terminal => status \in Terminal,
           e \notin PaidEvents => status # "failed",
           e \in PaidEvents =>
              /\ status # "ignored"
              /\ ledger[e] = "processed" => status = "processed"
              /\ status = "processed" => attempt.status = "completed"
              /\ status = "failed" => session = "paid" /\ attempt.status = "abandoned",
           e = "expired" =>
              /\ status = "processed" => attempt.status = "abandoned"
              /\ status \in Terminal /\ ~AttemptReadFails => attempt.status # "pending" \/ clockRefused,
           job' \in [Handlers -> Job \union {Idle}],
           \A x \in Handlers : x # h => job'[x] = job[x],
           job'[h].at # "idle" => Relies(job'[h], attempt'.status, ledger', receipt', sent', clockRefused'),
           job[h].at # "correlate"
    PROVE  WebInv'
<1>1. /\ ledger' \in [Events -> Statuses] /\ ledger'[e] = status
      /\ \A f \in Events : f # e => ledger'[f] = ledger[f]
    BY Types DEF WebInv
<1>2. PaidEvents \subseteq Events /\ "expired" \in Events
    BY DEF Events
<1>3. Forward
    BY <1>1, <1>2 DEF Forward
<1>4. HandlersRely'
    BY <1>3, RelyAfter DEF WebInv
<1>5. TypeOK'
    BY <1>1 DEF WebInv, TypeOK, Statuses
<1>6. RowFacts'
    <2>1. \A f \in PaidEvents : ledger'[f] # "ignored"
        BY <1>1, <1>2 DEF WebInv, RowFacts
    <2>2. ledger'["expired"] \in Terminal /\ ~AttemptReadFails => attempt.status # "pending" \/ clockRefused
        BY <1>1, <1>2 DEF WebInv, RowFacts
    <2>3. \A f \in Events \ PaidEvents : ledger'[f] # "failed"
        BY <1>1 DEF WebInv, RowFacts
    <2> QED
        BY <2>1, <2>2, <2>3 DEF WebInv, RowFacts
<1>7. LedgerTellsTruth'
    <2>1. \A f \in PaidEvents :
              /\ ledger'[f] = "processed" => attempt.status = "completed"
              /\ ledger'[f] = "failed" => session = "paid" /\ attempt.status = "abandoned"
        BY <1>1, <1>2 DEF WebInv, LedgerTellsTruth
    <2>2. ledger'["expired"] = "processed" => attempt.status = "abandoned"
        BY <1>1, <1>2 DEF WebInv, LedgerTellsTruth
    <2> QED
        BY <2>1, <2>2 DEF LedgerTellsTruth
<1>8. Acknowledged'
    BY <1>2, <1>3 DEF WebInv, Acknowledged, Forward
<1>9. ReferenceLostOnlyByFault'
    BY DEF WebInv, ReferenceLostOnlyByFault, At
<1> QED
    BY <1>4, <1>5, <1>6, <1>7, <1>8, <1>9 DEF WebInv

LEMMA ReviewKeeps ==
    ASSUME WebInv, NEW h \in Handlers, RecordUnfulfilledPaidReview(h) PROVE WebInv'
<1> DEFINE e == job[h].event
           status == IF ledger[e] \in Terminal THEN ledger[e] ELSE "failed"
<1>1. /\ job[h].at = "review" /\ Leave(h)
      /\ UNCHANGED <<session, due, sent, attempt, receipt, acked, faults, refLost, clockRefused>>
    BY DEF RecordUnfulfilledPaidReview, At, outside, history
<1>2. Relies(job[h], attempt.status, ledger, receipt, sent, clockRefused)
    BY <1>1 DEF WebInv, HandlersRely
<1>3. e \in PaidEvents /\ attempt.status = "abandoned" /\ e \in sent
    BY <1>1, <1>2 DEF Relies
<1>4. session = "paid"
    BY <1>3 DEF WebInv, RowFacts
<1>5. e \in Events /\ ledger' = [ledger EXCEPT ![e] = status]
    BY <1>3, Types DEF Events, RecordUnfulfilledPaidReview, Event, WebInv
<1>6. /\ job' \in [Handlers -> Job \union {Idle}] /\ job'[h] = Idle
      /\ \A x \in Handlers : x # h => job'[x] = job[x]
    BY <1>1, LeaveRow DEF WebInv
<1>7. job'[h].at = "idle"
    BY <1>6 DEF Idle
<1>8. /\ status \in Statuses /\ status # "ignored" /\ (ledger[e] \in Terminal => status = ledger[e])
      /\ (status = "processed" => attempt.status = "completed")
    BY <1>3, <1>5, Types DEF WebInv, RowFacts, LedgerTellsTruth, Statuses, Terminal
<1>9. e # "expired"
    BY <1>3 DEF PaidEvents
<1> HIDE DEF e, status
<1>10. /\ ledger[e] \in Terminal => status \in Terminal
       /\ ledger[e] = "processed" => status = "processed"
    BY <1>8 DEF Terminal
<1> QED
    BY <1>1, <1>3, <1>4, <1>5, <1>6, <1>7, <1>8, <1>9, <1>10, LedgerKeeps

LEMMA RecordKeeps ==
    ASSUME WebInv, NEW h \in Handlers, RecordWebhookEvent(h) PROVE WebInv'
<1> DEFINE e == job[h].event
           status == IF ledger[e] = "none" \/ job[h].saw = "failed" THEN job[h].status ELSE ledger[e]
           place == IF Paid(h) THEN "dispatch" ELSE "answer"
<1>1. /\ job[h].at = "record" /\ GoTo(h, place)
      /\ UNCHANGED <<session, due, sent, attempt, receipt, acked, faults, refLost, clockRefused>>
    BY DEF RecordWebhookEvent, At, outside, history
<1>2. Relies(job[h], attempt.status, ledger, receipt, sent, clockRefused)
    BY <1>1 DEF WebInv, HandlersRely
<1>3. e \in Events /\ job[h].status \in Terminal /\ ledger[e] \in Statuses
    BY <1>1, AtWork, Types DEF WebInv
<1>4. ledger' = [ledger EXCEPT ![e] = status]
    BY <1>3, Types DEF RecordWebhookEvent, Event, WebInv
<1>5. place \in Stages /\ (place = "dispatch" <=> e \in PaidEvents) /\ place \in {"dispatch", "answer"}
    BY DEF Stages, Paid, Event
<1> HIDE DEF place
<1>6. /\ job' \in [Handlers -> Job \union {Idle}]
      /\ job'[h].at = place /\ job'[h].event = e
      /\ job'[h].saw = job[h].saw /\ job'[h].status = job[h].status
      /\ \A x \in Handlers : x # h => job'[x] = job[x]
    BY <1>1, <1>5, GoToRow DEF WebInv
<1>7. e \in PaidEvents => attempt.status = "completed" /\ job[h].status = "processed"
    BY <1>1, <1>2 DEF Relies
<1>8. e \in PaidEvents => ledger[e] \in {"none", "processed"}
    <2> SUFFICES ASSUME e \in PaidEvents PROVE ledger[e] \in {"none", "processed"}
        OBVIOUS
    <2>1. ledger[e] # "ignored"
        BY DEF WebInv, RowFacts
    <2>2. ledger[e] # "failed"
        BY <1>7 DEF WebInv, LedgerTellsTruth
    <2> QED
        BY <1>3, <2>1, <2>2 DEF Statuses, Terminal
<1>9. status \in Statuses /\ (ledger[e] \in Terminal => status \in Terminal)
    BY <1>3 DEF Statuses
<1>10. e \in PaidEvents => status = "processed"
    BY <1>7, <1>8
<1>11. e = "expired" =>
          /\ status = "processed" => attempt.status = "abandoned"
          /\ status \in Terminal /\ ~AttemptReadFails => attempt.status # "pending" \/ clockRefused
    BY <1>1, <1>2 DEF Relies, WebInv, LedgerTellsTruth
<1>12. e \notin PaidEvents => status \in Terminal
    <2> SUFFICES ASSUME e \notin PaidEvents PROVE status \in Terminal
        OBVIOUS
    <2>1. ledger[e] # "failed"
        BY <1>3 DEF WebInv, RowFacts
    <2> QED
        BY <1>3, <2>1 DEF Statuses
<1>13. ledger'[e] = status
    BY <1>3, <1>4, Types DEF WebInv
<1> HIDE DEF e, status
<1>14. e \notin PaidEvents => status # "failed"
    BY <1>12 DEF Terminal
<1>15. Relies(job'[h], attempt'.status, ledger', receipt', sent', clockRefused')
    BY <1>1, <1>2, <1>5, <1>6, <1>7, <1>9, <1>10, <1>12, <1>13 DEF Relies, Terminal, e
<1> QED
    BY <1>1, <1>3, <1>4, <1>6, <1>7, <1>9, <1>10, <1>11, <1>14, <1>15, LedgerKeeps

\* An expiry releases what is still pending and replays what was released.
LEMMA ReleaseKeeps ==
    ASSUME WebInv, NEW h \in Handlers, ReleaseExpired(h) PROVE WebInv'
<1> DEFINE closed == IF attempt.status = "pending" THEN "abandoned" ELSE attempt.status
<1>1. /\ job[h].at = "release"
      /\ UNCHANGED <<session, due, sent, ledger, receipt, acked, faults, refLost, clockRefused>>
    BY DEF ReleaseExpired, At, outside, history
<1>2. Relies(job[h], attempt.status, ledger, receipt, sent, clockRefused)
    BY <1>1 DEF WebInv, HandlersRely
<1>3. job[h].event = "expired" /\ "expired" \notin PaidEvents
    BY <1>1, <1>2 DEF Relies, PaidEvents
<1>4. attempt \in AttemptRows
    BY Types DEF WebInv
<1>5. /\ attempt' \in AttemptRows /\ attempt'.status = closed /\ attempt'.intent = attempt.intent
    <2>1. attempt' = [attempt EXCEPT !.status = closed]
        BY <1>4 DEF ReleaseExpired, AttemptRows
    <2>2. closed \in {"pending", "completed", "abandoned"}
        BY <1>4 DEF AttemptRows
    <2> HIDE DEF closed
    <2> QED
        BY <1>4, <2>1, <2>2 DEF AttemptRows
<1>6. Forward
    BY <1>1, <1>5 DEF Forward
<1>7. PICK status \in Terminal : /\ Decide(h, status)
                                 /\ status = "processed" => attempt.status # "completed"
    BY DEF ReleaseExpired, Terminal
<1>8. /\ job' \in [Handlers -> Job \union {Idle}]
      /\ job'[h].at = "record" /\ job'[h].event = job[h].event
      /\ job'[h].saw = job[h].saw /\ job'[h].status = status
      /\ \A x \in Handlers : x # h => job'[x] = job[x]
    BY <1>1, <1>7, DecideRow DEF WebInv
<1>9. Relies(job'[h], attempt'.status, ledger', receipt', sent', clockRefused')
    BY <1>1, <1>2, <1>3, <1>4, <1>5, <1>7, <1>8 DEF Relies, AttemptRows
<1>10. HandlersRely'
    BY <1>6, <1>8, <1>9, RelyAfter DEF WebInv
<1>11. TypeOK'
    BY <1>1, <1>5, <1>8 DEF WebInv, TypeOK, AttemptRows
<1>12. RowFacts'
    BY <1>1, <1>5 DEF WebInv, RowFacts
<1>13. LedgerTellsTruth' /\ Acknowledged'
    BY <1>1, <1>5 DEF WebInv, LedgerTellsTruth, Acknowledged
<1>14. ReferenceLostOnlyByFault'
    BY <1>1, <1>5, <1>8 DEF WebInv, ReferenceLostOnlyByFault, At
<1> QED
    BY <1>10, <1>11, <1>12, <1>13, <1>14 DEF WebInv

LEMMA RefuseKeeps == ASSUME WebInv, NEW h \in Handlers, RefuseExpiry(h) PROVE WebInv'
<1>1. job[h].at # "correlate" /\ Leave(h) /\ UNCHANGED <<outside, rows, acked, history>>
    BY DEF RefuseExpiry, At
<1>2. /\ job' \in [Handlers -> Job \union {Idle}] /\ job'[h] = Idle
      /\ \A x \in Handlers : x # h => job'[x] = job[x]
    BY <1>1, LeaveRow DEF WebInv
<1>3. job'[h].at = "idle"
    BY <1>2 DEF Idle
<1> QED
    BY <1>1, <1>2, <1>3, NoFaultKeeps

LEMMA ReceiptKeeps ==
    ASSUME WebInv, NEW h \in Handlers, DeliverGuestReceipt(h) PROVE WebInv'
<1>1. /\ job[h].at = "dispatch" /\ GoTo(h, "answer")
      /\ UNCHANGED <<session, due, sent, attempt, ledger, acked, faults, refLost, clockRefused>>
    BY DEF DeliverGuestReceipt, At, outside, history
<1>2. Relies(job[h], attempt.status, ledger, receipt, sent, clockRefused)
    BY <1>1 DEF WebInv, HandlersRely
<1>3. attempt.status = "completed" /\ receipt # "none" /\ ledger[job[h].event] = "processed"
    BY <1>1, <1>2 DEF Relies, WebInv, RowFacts
<1>4. receipt' = "tried"
    BY <1>3, Types DEF DeliverGuestReceipt, WebInv
<1>5. Forward
    BY <1>1, <1>4 DEF Forward
<1>6. /\ job' \in [Handlers -> Job \union {Idle}]
      /\ job'[h].at = "answer" /\ job'[h].event = job[h].event
      /\ job'[h].saw = job[h].saw /\ job'[h].status = job[h].status
      /\ \A x \in Handlers : x # h => job'[x] = job[x]
    BY <1>1, GoToRow DEF WebInv, Stages
<1>7. Relies(job'[h], attempt'.status, ledger', receipt', sent', clockRefused')
    BY <1>1, <1>2, <1>3, <1>4, <1>6 DEF Relies, Terminal
<1>8. HandlersRely'
    BY <1>5, <1>6, <1>7, RelyAfter DEF WebInv
<1>9. TypeOK'
    BY <1>1, <1>4, <1>6 DEF WebInv, TypeOK
<1>10. RowFacts' /\ LedgerTellsTruth' /\ Acknowledged'
    BY <1>1, <1>3, <1>4 DEF WebInv, RowFacts, LedgerTellsTruth, Acknowledged
<1>11. ReferenceLostOnlyByFault'
    BY <1>1, <1>6 DEF WebInv, ReferenceLostOnlyByFault, At
<1> QED
    BY <1>8, <1>9, <1>10, <1>11 DEF WebInv

\* What a handler relies on when it answers is what an answer promises.
LEMMA AnswerKeeps == ASSUME WebInv, NEW h \in Handlers, Answer(h) PROVE WebInv'
<1>1. /\ job[h].at = "answer" /\ Leave(h) /\ acked' = acked \union {job[h].event}
      /\ UNCHANGED <<session, due, sent, attempt, ledger, receipt, faults, refLost, clockRefused>>
    BY DEF Answer, At, Event, outside, rows, history
<1>2. Relies(job[h], attempt.status, ledger, receipt, sent, clockRefused)
    BY <1>1 DEF WebInv, HandlersRely
<1>3. /\ job' \in [Handlers -> Job \union {Idle}] /\ job'[h] = Idle
      /\ \A x \in Handlers : x # h => job'[x] = job[x]
    BY <1>1, LeaveRow DEF WebInv
<1>4. job'[h].at = "idle"
    BY <1>3 DEF Idle
<1>5. Forward
    BY <1>1 DEF Forward
<1>6. HandlersRely'
    BY <1>3, <1>4, <1>5, RelyAfter DEF WebInv
<1>7. Acknowledged'
    BY <1>1, <1>2 DEF WebInv, Acknowledged, Relies
<1>8. TypeOK'
    BY <1>1, <1>2, <1>3 DEF WebInv, TypeOK, Relies
<1>9. RowFacts' /\ LedgerTellsTruth'
    BY <1>1 DEF WebInv, RowFacts, LedgerTellsTruth
<1>10. ReferenceLostOnlyByFault'
    BY <1>1, <1>3 DEF WebInv, ReferenceLostOnlyByFault, At
<1> QED
    BY <1>6, <1>7, <1>8, <1>9, <1>10 DEF WebInv

\* Who dies with a reference in hand is remembered.
LEMMA FailKeeps == ASSUME WebInv, NEW h \in Handlers, Fail(h) PROVE WebInv'
<1> DEFINE lost == job[h].at = "correlate"
<1>1. Leave(h) /\ Fault(lost) /\ UNCHANGED <<outside, rows, acked>>
    BY DEF Fail, At
<1>2. /\ job' \in [Handlers -> Job \union {Idle}] /\ job'[h] = Idle
      /\ \A x \in Handlers : x # h => job'[x] = job[x]
    BY <1>1, LeaveRow DEF WebInv
<1>3. job'[h].at = "idle"
    BY <1>2 DEF Idle
<1>4. /\ faults' \in 0..MaxFaults /\ refLost' \in BOOLEAN /\ (refLost => refLost')
      /\ (lost => refLost') /\ clockRefused' = clockRefused /\ clockRefused \in BOOLEAN
    <2>1. lost \in BOOLEAN
        OBVIOUS
    <2> HIDE DEF lost
    <2> QED
        BY <1>1, <2>1, FaultTypes, Types DEF WebInv
<1> QED
    BY <1>1, <1>2, <1>3, <1>4, Quiet

-----------------------------------------------------------------------------
(* The theorems.                                                             *)

LEMMA WebInitInv == Init => WebInv
<1> SUFFICES ASSUME Init PROVE WebInv
    OBVIOUS
<1>1. TypeOK
    <2>1. attempt \in AttemptRows
        BY DEF Init, AttemptRows
    <2>2. ledger \in [Events -> Statuses] /\ job \in [Handlers -> Job \union {Idle}]
        BY DEF Init, Statuses
    <2>3. due \in BOOLEAN /\ refLost \in BOOLEAN /\ clockRefused \in BOOLEAN
        BY Zenon DEF Init
    <2>4. faults \in 0..MaxFaults
        <3>1. faults = 0 /\ MaxFaults \in Nat
            BY Faults DEF Init
        <3> QED
            BY <3>1
    <2> QED
        BY <2>1, <2>2, <2>3, <2>4, Types DEF Init
<1>2. HandlersRely
    BY DEF Init, HandlersRely, Idle
<1>3. RowFacts
    BY DEF Init, RowFacts, PaidEvents, Events, Terminal
<1>4. LedgerTellsTruth /\ Acknowledged
    BY DEF Init, LedgerTellsTruth, Acknowledged, PaidEvents, Events
<1>5. ReferenceLostOnlyByFault
    BY DEF Init, ReferenceLostOnlyByFault
<1> QED
    BY <1>1, <1>2, <1>3, <1>4, <1>5 DEF WebInv

LEMMA WebNextKeeps == WebInv /\ [Next]_vars => WebInv'
<1> SUFFICES ASSUME WebInv, [Next]_vars PROVE WebInv'
    OBVIOUS
<1>1. CASE Next
    <2>1. ASSUME NEW h \in Handlers, Work(h) PROVE WebInv'
        BY <2>1, FindKeeps, LoadPaidKeeps, LoadFailedKeeps, LoadExpiredKeeps, FinalizeKeeps,
           CorrelateKeeps, ReviewKeeps, ReconcileKeeps, NoOpKeeps, ReleaseKeeps, RefuseKeeps, RecordKeeps,
           ReceiptKeeps, AnswerKeeps
        DEF Work, Lookup, PaidPath, Closing
    <2>2. ASSUME NEW h \in Handlers, FinalizeUnheard(h) \/ CorrelationFails(h) \/ Fail(h)
          PROVE  WebInv'
        BY <2>2, FinalizeUnheardKeeps, CorrelateKeeps, FailKeeps
    <2> QED
        BY <1>1, <2>1, <2>2, ProviderKeeps, ReleasedElsewhereKeeps, DeliverKeeps DEF Next
<1>2. CASE UNCHANGED vars
    <2>1. UNCHANGED <<session, due, sent, attempt, ledger, receipt, acked, job, faults, refLost, clockRefused>>
        BY <1>2 DEF vars, outside, rows, history
    <2>2. TypeOK' /\ HandlersRely'
        BY <2>1 DEF WebInv, TypeOK, HandlersRely
    <2> QED
        BY <2>1, <2>2 DEF WebInv, RowFacts, LedgerTellsTruth, Acknowledged,
                          ReferenceLostOnlyByFault, At
<1> QED
    BY <1>1, <1>2

\* The inductive invariant of deliveries: what each handler relies on at its
\* place, the rows, and what was answered.
THEOREM WebhookInvariant == Spec => []WebInv
BY WebInitInv, WebNextKeeps, PTL DEF Spec

\* Rows, jobs and answers keep their types.
THEOREM WebhookTypeCorrect == Spec => []TypeOK
BY WebhookInvariant, PTL DEF WebInv

\* The ledger never claims an effect that is not there.
THEOREM LedgerAlwaysTrue == Spec => []LedgerTellsTruth
BY WebhookInvariant, PTL DEF WebInv

\* An issued attempt is without its reference only because of a fault.
THEOREM ReferencesLostOnlyByFault == Spec => []ReferenceLostOnlyByFault
BY WebhookInvariant, PTL DEF WebInv

\* As long as attempts can be read, nothing is left to do when an event has
\* been answered with 2xx, but for an expiry that a clock refused.
THEOREM AcknowledgedAlwaysSettled ==
    ASSUME ~AttemptReadFails PROVE Spec => []AcknowledgedIsSettled
<1>1. WebInv => AcknowledgedIsSettled
    BY DEF WebInv, Acknowledged, RowFacts, AcknowledgedIsSettled
<1> QED
    BY WebhookInvariant, <1>1, PTL
=============================================================================
