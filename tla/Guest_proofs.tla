----------------------------- MODULE Guest_proofs -----------------------------
(* What the lease of a mail and the link to an account guarantee, for any    *)
(* workers, browsers, accounts and bounds, whatever fails and dies.          *)
EXTENDS GuestDelivery, TLAPS

-----------------------------------------------------------------------------
(* The strengthening.                                                        *)

\* A lease that runs is that of a mail under way, so nothing is claimable.
LeaseIsSending == timer.lease => row.state = "sending"

\* A worker that acknowledges the lease the row still has did mail its link.
AcknowledgedIsMailed ==
    \A w \in Workers : job[w] = "acknowledge" /\ row.lease = w => mailed

GuestInv ==
    TypeOK /\ LeaseIsSending /\ AcknowledgedIsMailed /\ SentMeansMailed /\ SavedIsSaved

RowTypes == [state : States, lease : Workers \union {None},
             consumed : BOOLEAN, sends : 0 .. MaxSends]
TimerTypes == [cooldown : BOOLEAN, lease : BOOLEAN, proof : BOOLEAN, window : BOOLEAN]
VisitTypes == [session : {"none", "open", "ended"}, saving : Accounts \union {None}]

LEMMA Types == TypeOK <=>
    /\ row \in RowTypes /\ timer \in TimerTypes /\ mailed \in BOOLEAN
    /\ job \in [Workers -> Places] /\ visit \in [Browsers -> VisitTypes]
    /\ link \in Accounts \union {None} /\ told \subseteq Accounts
    /\ opened \in BOOLEAN /\ faults \in 0 .. MaxFaults
BY DEF TypeOK, RowTypes, TimerTypes, VisitTypes

LEMMA FaultType ==
    ASSUME TypeOK, Fault \/ NoFault PROVE faults' \in 0 .. MaxFaults
BY Limits DEF TypeOK, Fault, NoFault

LEMMA GoToPlace ==
    ASSUME TypeOK, NEW w \in Workers, NEW place \in Places, GoTo(w, place)
    PROVE  /\ job' \in [Workers -> Places] /\ job'[w] = place
           /\ \A x \in Workers : x # w => job'[x] = job[x]
BY DEF TypeOK, GoTo

-----------------------------------------------------------------------------
(* Clocks and requests.                                                      *)

LEMMA ClockKeeps ==
    ASSUME GuestInv, CooldownEnds \/ LeaseEnds \/ ProofEnds \/ WindowEnds
    PROVE  GuestInv'
<1>1. UNCHANGED <<row, mailed, job, visit, link, told, opened>>
    BY DEF CooldownEnds, LeaseEnds, ProofEnds, WindowEnds, account
<1>2. timer' \in TimerTypes /\ (timer'.lease => timer.lease)
    BY Types DEF GuestInv, TimerTypes, CooldownEnds, LeaseEnds, ProofEnds, WindowEnds
<1>3. faults' \in 0 .. MaxFaults
    <2>1. Fault \/ NoFault
        BY DEF CooldownEnds, LeaseEnds, ProofEnds, WindowEnds, NoFault
    <2> QED
        BY <2>1, FaultType DEF GuestInv
<1>4. TypeOK'
    BY <1>1, <1>2, <1>3 DEF GuestInv, TypeOK, TimerTypes
<1> QED
    BY <1>1, <1>2, <1>4
    DEF GuestInv, LeaseIsSending, AcknowledgedIsMailed, SentMeansMailed, SavedIsSaved

LEMMA QueueKeeps == ASSUME GuestInv, QueueGuestPurchaseReceipt PROVE GuestInv'
<1>1. UNCHANGED <<mailed, job, visit, link, told, opened, faults>>
    BY DEF QueueGuestPurchaseReceipt, account
<1>2. row' \in RowTypes /\ row'.state = "pending" /\ row'.lease = row.lease
    BY Types DEF GuestInv, QueueGuestPurchaseReceipt, RowTypes, States
<1>3. timer' \in TimerTypes /\ timer'.lease = timer.lease
    BY Types DEF GuestInv, QueueGuestPurchaseReceipt, TimerTypes
<1>4. row.state = "none"
    BY DEF QueueGuestPurchaseReceipt
<1>5. TypeOK'
    BY <1>1, <1>2, <1>3 DEF GuestInv, TypeOK, RowTypes, TimerTypes
<1> QED
    BY <1>1, <1>2, <1>3, <1>4, <1>5
    DEF GuestInv, LeaseIsSending, AcknowledgedIsMailed, SentMeansMailed, SavedIsSaved

\* A worker that starts, stops or goes on to any place but the last.
LEMMA MoveKeeps ==
    ASSUME GuestInv, NEW w \in Workers, NEW place \in Places \ {"acknowledge"}, GoTo(w, place),
           UNCHANGED <<row, timer, visit, link, told, opened>>,
           mailed' \in BOOLEAN, mailed => mailed', Fault \/ NoFault
    PROVE  GuestInv'
<1>1. /\ job' \in [Workers -> Places] /\ job'[w] = place
      /\ \A x \in Workers : x # w => job'[x] = job[x]
    BY GoToPlace DEF GuestInv
<1>2. TypeOK'
    BY <1>1, FaultType DEF GuestInv, TypeOK
<1>3. AcknowledgedIsMailed'
    BY <1>1 DEF GuestInv, AcknowledgedIsMailed
<1> QED
    BY <1>2, <1>3 DEF GuestInv, LeaseIsSending, SentMeansMailed, SavedIsSaved

LEMMA RequestKeeps ==
    ASSUME GuestInv, NEW w \in Workers, RequestGuestRecovery(w) PROVE GuestInv'
<1>1. UNCHANGED <<mailed, visit, link, told, opened, faults>> /\ ~timer.lease
    BY DEF RequestGuestRecovery, Requestable, account
<1>2. row' \in RowTypes /\ row'.state = "pending" /\ row'.lease = row.lease
    BY Types DEF GuestInv, RequestGuestRecovery, RowTypes, States
<1>3. timer' \in TimerTypes /\ timer'.lease = timer.lease
    BY Types DEF GuestInv, RequestGuestRecovery, TimerTypes
<1>4. /\ job' \in [Workers -> Places] /\ job'[w] = "claim"
      /\ \A x \in Workers : x # w => job'[x] = job[x]
    BY GoToPlace DEF GuestInv, RequestGuestRecovery, Places
<1>5. TypeOK'
    BY <1>1, <1>2, <1>3, <1>4 DEF GuestInv, TypeOK, RowTypes, TimerTypes
<1>6. AcknowledgedIsMailed'
    BY <1>1, <1>2, <1>4 DEF GuestInv, AcknowledgedIsMailed
<1> QED
    BY <1>1, <1>2, <1>3, <1>5, <1>6 DEF GuestInv, LeaseIsSending, SentMeansMailed, SavedIsSaved

-----------------------------------------------------------------------------
(* A worker's mail.                                                          *)

\* A claim replaces the proof: it is the only step after which the row's
\* link has not been mailed, and nobody has a mail of it to acknowledge.
LEMMA ClaimKeeps ==
    ASSUME GuestInv, NEW w \in Workers, DeliverGuestPurchase(w) PROVE GuestInv'
<1>1. UNCHANGED <<visit, link, told, opened>> /\ mailed' = FALSE /\ (Fault \/ NoFault)
    BY DEF DeliverGuestPurchase, account
<1>2. row' = Claimed(w) /\ SendsLeft
    BY DEF DeliverGuestPurchase, Claimable
<1>3. (IF timer.window THEN row.sends ELSE 0) + 1 \in 0 .. MaxSends
    <2>1. row.sends \in Nat /\ timer.window \in BOOLEAN
        BY Types DEF GuestInv, RowTypes, TimerTypes
    <2> QED
        BY <1>2, <2>1, Limits DEF SendsLeft
<1>4. row' \in RowTypes /\ row'.state = "sending" /\ row'.lease = w
    BY <1>2, <1>3 DEF Claimed, RowTypes, States
<1>5. timer' \in TimerTypes
    BY Types DEF GuestInv, DeliverGuestPurchase, TimerTypes
<1>6. /\ job' \in [Workers -> Places] /\ job'[w] # "acknowledge"
      /\ \A x \in Workers : x # w => job'[x] = job[x]
    BY GoToPlace DEF GuestInv, DeliverGuestPurchase, Places
<1>7. TypeOK'
    BY <1>1, <1>4, <1>5, <1>6, FaultType DEF GuestInv, TypeOK, RowTypes, TimerTypes
<1> QED
    BY <1>1, <1>4, <1>6, <1>7
    DEF GuestInv, LeaseIsSending, AcknowledgedIsMailed, SentMeansMailed, SavedIsSaved

LEMMA MailKeeps ==
    ASSUME GuestInv, NEW w \in Workers, SendGuestRecoveryMail(w) PROVE GuestInv'
<1>1. UNCHANGED <<row, timer, visit, link, told, opened>> /\ (Fault \/ NoFault)
    BY DEF SendGuestRecoveryMail, account
<1>2. mailed \in BOOLEAN
    BY DEF GuestInv, TypeOK
<1>3. CASE HandOver(w) /\ GoTo(w, "acknowledge")
    <2>1. mailed' = (mailed \/ row.lease = w)
        BY <1>3 DEF HandOver
    <2>2. /\ job' \in [Workers -> Places] /\ \A x \in Workers : x # w => job'[x] = job[x]
        BY <1>3, GoToPlace DEF GuestInv, Places
    <2>3. mailed' \in BOOLEAN /\ (mailed => mailed')
        BY <1>2, <2>1
    <2>4. TypeOK'
        BY <1>1, <2>2, <2>3, FaultType DEF GuestInv, TypeOK
    <2>5. AcknowledgedIsMailed'
        BY <1>1, <2>1, <2>2 DEF GuestInv, AcknowledgedIsMailed
    <2> QED
        BY <1>1, <2>3, <2>4, <2>5 DEF GuestInv, LeaseIsSending, SentMeansMailed, SavedIsSaved
<1>4. CASE (HandOver(w) \/ UNCHANGED mailed) /\ GoTo(w, "finish")
    <2>1. CASE HandOver(w)
        <3>1. mailed' = (mailed \/ row.lease = w)
            BY <2>1 DEF HandOver
        <3>2. mailed' \in BOOLEAN /\ (mailed => mailed')
            BY <1>2, <3>1
        <3> QED
            BY <1>1, <1>4, <3>2, MoveKeeps DEF Places
    <2>2. CASE UNCHANGED mailed
        BY <1>1, <1>2, <1>4, <2>2, MoveKeeps DEF Places
    <2> QED
        BY <1>4, <2>1, <2>2
<1> QED
    BY <1>3, <1>4 DEF SendGuestRecoveryMail

LEMMA FinishKeeps ==
    ASSUME GuestInv, NEW w \in Workers, FinishGuestPurchaseDelivery(w) PROVE GuestInv'
<1>1. UNCHANGED <<mailed, visit, link, told, opened, faults>> /\ GoTo(w, "idle")
    BY DEF FinishGuestPurchaseDelivery, account
<1>2. CASE row.lease = w /\ row.state = "sending"
    <2>1. row' = [row EXCEPT !.state = Outcome(w)] /\ timer' = [timer EXCEPT !.lease = FALSE]
        BY <1>2 DEF FinishGuestPurchaseDelivery
    <2>2. Outcome(w) \in {"sent", "uncertain"} /\ (Outcome(w) = "sent" => mailed)
        BY <1>2 DEF Outcome, GuestInv, AcknowledgedIsMailed
    <2>3. row' \in RowTypes /\ row'.state = Outcome(w) /\ row'.lease = row.lease
        BY <2>1, <2>2, Types DEF GuestInv, RowTypes, States
    <2>4. timer' \in TimerTypes /\ ~timer'.lease
        BY <2>1, Types DEF GuestInv, TimerTypes
    <2>5. /\ job' \in [Workers -> Places] /\ job'[w] = "idle"
          /\ \A x \in Workers : x # w => job'[x] = job[x]
        BY <1>1, GoToPlace DEF GuestInv, Places
    <2>6. TypeOK'
        BY <1>1, <2>3, <2>4, <2>5 DEF GuestInv, TypeOK, RowTypes, TimerTypes
    <2> QED
        BY <1>1, <2>2, <2>3, <2>4, <2>5, <2>6
        DEF GuestInv, LeaseIsSending, AcknowledgedIsMailed, SentMeansMailed, SavedIsSaved
<1>3. CASE ~(row.lease = w /\ row.state = "sending")
    <2>1. UNCHANGED <<row, timer>>
        BY <1>3 DEF FinishGuestPurchaseDelivery
    <2>2. mailed \in BOOLEAN
        BY DEF GuestInv, TypeOK
    <2> QED
        BY <1>1, <2>1, <2>2, MoveKeeps DEF Places, NoFault
<1> QED
    BY <1>2, <1>3

LEMMA WorkKeeps ==
    ASSUME GuestInv, NEW w \in Workers,
           DeliverGuestReceiptForAttempt(w) \/ Work(w) \/ Die(w)
    PROVE  GuestInv'
<1>1. CASE \/ DeliverGuestReceiptForAttempt(w) \/ SkipDelivery(w)
           \/ LoadGuestPurchaseStatus(w) \/ Die(w)
    <2>1. \E place \in Places \ {"acknowledge"} : GoTo(w, place)
        BY <1>1 DEF DeliverGuestReceiptForAttempt, SkipDelivery, LoadGuestPurchaseStatus, Die, Places
    <2>2. UNCHANGED <<row, timer, mailed, visit, link, told, opened>> /\ (Fault \/ NoFault)
        BY <1>1 DEF DeliverGuestReceiptForAttempt, SkipDelivery, LoadGuestPurchaseStatus, Die,
                    delivery, account, NoFault
    <2>3. mailed' \in BOOLEAN
        BY <2>2 DEF GuestInv, TypeOK
    <2> QED
        BY <2>1, <2>2, <2>3, MoveKeeps
<1> QED
    BY <1>1, ClaimKeeps, MailKeeps, FinishKeeps DEF Work

-----------------------------------------------------------------------------
(* The buyer's browsers.                                                     *)

LEMMA RedeemKeeps ==
    ASSUME GuestInv, NEW b \in Browsers, RedeemGuestRecovery(b) PROVE GuestInv'
<1>1. UNCHANGED <<timer, mailed, job, link, told>> /\ (Fault \/ NoFault)
    BY DEF RedeemGuestRecovery, account
<1>2. row' \in RowTypes /\ row'.state = row.state /\ row'.lease = row.lease
    BY Types DEF GuestInv, RedeemGuestRecovery, RowTypes
<1>3. visit' \in [Browsers -> VisitTypes] /\ opened' \in BOOLEAN
    BY Types DEF GuestInv, RedeemGuestRecovery, VisitTypes
<1>4. TypeOK'
    BY <1>1, <1>2, <1>3, FaultType DEF GuestInv, TypeOK, RowTypes, VisitTypes
<1> QED
    BY <1>1, <1>2, <1>4
    DEF GuestInv, LeaseIsSending, AcknowledgedIsMailed, SentMeansMailed, SavedIsSaved

\* A step of a session that saves nothing.
LEMMA SessionKeeps ==
    ASSUME GuestInv, NEW b \in Browsers,
           EndSession(b) \/ \E a \in Accounts : AttachGuestAccount(b, a)
    PROVE  GuestInv'
<1>1. UNCHANGED <<row, timer, mailed, job, link, told, opened, faults>>
    BY DEF EndSession, AttachGuestAccount, delivery, account
<1>2. visit' \in [Browsers -> VisitTypes]
    BY Types DEF GuestInv, EndSession, AttachGuestAccount, VisitTypes
<1>3. TypeOK'
    BY <1>1, <1>2 DEF GuestInv, TypeOK, VisitTypes
<1> QED
    BY <1>1, <1>3
    DEF GuestInv, LeaseIsSending, AcknowledgedIsMailed, SentMeansMailed, SavedIsSaved

\* The first account wins; the second one is told of the conflict.
LEMMA AttachKeeps ==
    ASSUME GuestInv, NEW b \in Browsers, AttachGuestPurchaseAccount(b) PROVE GuestInv'
<1> DEFINE a == visit[b].saving
<1>1. UNCHANGED <<row, timer, mailed, job, opened, faults>>
    BY DEF AttachGuestPurchaseAccount, delivery
<1>2. a \in Accounts
    BY Types DEF GuestInv, AttachGuestPurchaseAccount, VisitTypes
<1>3. visit' \in [Browsers -> VisitTypes]
    BY Types DEF GuestInv, AttachGuestPurchaseAccount, Answer, VisitTypes
<1>4. (link' = link \/ (link = None /\ link' = a))
      /\ (told' = told \/ (link' = a /\ told' = told \union {a}))
    BY DEF AttachGuestPurchaseAccount, Answer
<1> HIDE DEF a
<1>5. SavedIsSaved'
    BY <1>2, <1>4, Types, Limits DEF GuestInv, SavedIsSaved
<1>6. TypeOK'
    BY <1>1, <1>2, <1>3, <1>4 DEF GuestInv, TypeOK, VisitTypes
<1> QED
    BY <1>1, <1>5, <1>6 DEF GuestInv, LeaseIsSending, AcknowledgedIsMailed, SentMeansMailed

-----------------------------------------------------------------------------
(* The theorems.                                                             *)

LEMMA GuestInitInv == Init => GuestInv
<1> SUFFICES ASSUME Init PROVE GuestInv
    OBVIOUS
<1>1. row \in RowTypes /\ timer \in TimerTypes /\ visit \in [Browsers -> VisitTypes]
    BY Limits DEF Init, RowTypes, TimerTypes, VisitTypes, States
<1>2. TypeOK
    <2>1. job \in [Workers -> Places]
        BY DEF Init, Places
    <2>2. mailed \in BOOLEAN /\ opened \in BOOLEAN /\ link \in Accounts \union {None}
          /\ told \subseteq Accounts
        BY DEF Init
    <2>3. faults \in 0 .. MaxFaults
        BY Limits DEF Init
    <2> QED
        BY <1>1, <2>1, <2>2, <2>3, Types
<1> QED
    BY <1>2 DEF Init, GuestInv, LeaseIsSending, AcknowledgedIsMailed, SentMeansMailed, SavedIsSaved

LEMMA GuestNextKeeps == GuestInv /\ [Next]_vars => GuestInv'
<1> SUFFICES ASSUME GuestInv, [Next]_vars PROVE GuestInv'
    OBVIOUS
<1>1. CASE Next
    <2>1. ASSUME NEW b \in Browsers,
                 \/ RedeemGuestRecovery(b) \/ RevokeGuestRecovery(b) \/ SessionExpires(b)
                 \/ \E a \in Accounts : AttachGuestAccount(b, a)
                 \/ AttachGuestPurchaseAccount(b)
          PROVE  GuestInv'
        BY <2>1, RedeemKeeps, SessionKeeps, AttachKeeps DEF RevokeGuestRecovery, SessionExpires
    <2> QED
        BY <1>1, <2>1, ClockKeeps, QueueKeeps, RequestKeeps, WorkKeeps DEF Next
<1>2. CASE UNCHANGED vars
    BY <1>2 DEF vars, delivery, account, GuestInv, TypeOK, LeaseIsSending,
                AcknowledgedIsMailed, SentMeansMailed, SavedIsSaved
<1> QED
    BY <1>1, <1>2

\* The inductive invariant of the delivery of a guest purchase.
THEOREM GuestInvariant == Spec => []GuestInv
BY GuestInitInv, GuestNextKeeps, PTL DEF Spec

\* The row, its deadlines, the workers and the sessions keep their types.
THEOREM GuestTypeCorrect == Spec => []TypeOK
BY GuestInvariant, PTL DEF GuestInv

\* No late acknowledgement calls a mail sent that has not gone out.
THEOREM SentAlwaysMeansMailed == Spec => []SentMeansMailed
BY GuestInvariant, PTL DEF GuestInv

\* An account that was told "saved" keeps the purchase.
THEOREM SavedStaysSaved == Spec => []SavedIsSaved
BY GuestInvariant, PTL DEF GuestInv

\* While its lease runs, no other claim replaces a worker's proof.
THEOREM LeasesExclude == Spec => LeaseExcludes
<1> DEFINE Excludes == \A w \in Workers : Mailing(w) /\ timer.lease =>
                           row'.lease = w \/ job'[w] = "idle"
<1>1. GuestInv /\ [Next]_vars => [Excludes]_vars
    <2> SUFFICES ASSUME GuestInv, Next, NEW w \in Workers, Mailing(w), timer.lease
                 PROVE  row'.lease = w
        OBVIOUS
    <2>1. row.lease = w /\ row.state = "sending" /\ row \in RowTypes
        BY Types DEF GuestInv, LeaseIsSending, Mailing
    <2>2. ASSUME NEW x \in Workers PROVE ~DeliverGuestPurchase(x) /\ ~RequestGuestRecovery(x)
        BY <2>1 DEF DeliverGuestPurchase, Claimable, RequestGuestRecovery, Requestable
    <2>3. \/ row' = row
          \/ \E x \in States : row' = [row EXCEPT !.state = x]
          \/ row' = [row EXCEPT !.consumed = TRUE]
        BY <2>1, <2>2 DEF Next, Work, CooldownEnds, LeaseEnds, ProofEnds, WindowEnds,
               QueueGuestPurchaseReceipt, DeliverGuestReceiptForAttempt, SkipDelivery,
               LoadGuestPurchaseStatus, SendGuestRecoveryMail, FinishGuestPurchaseDelivery,
               Outcome, States, Die, RedeemGuestRecovery, RevokeGuestRecovery, SessionExpires,
               EndSession, AttachGuestAccount, AttachGuestPurchaseAccount, delivery
    <2> QED
        BY <2>1, <2>3 DEF RowTypes
<1> QED
    BY GuestInvariant, <1>1, PTL DEF Spec, LeaseExcludes
=============================================================================
