---------------------------- MODULE GuestDelivery ----------------------------
(* The tickets of one guest purchase reach the buyer by mail: the receipt    *)
(* that finalization queues, the lease under which a server process mails a  *)
(* single-use link, the buyer's requests for a fresh link, the session a     *)
(* link opens, and the account the purchase may be saved to.                 *)
(* guest_purchase_deliveries has one row per cart and no two carts share     *)
(* anything but the rate of requests, so one cart is enough.                 *)
(*                                                                           *)
(* Time is kept as the four deadlines the code compares with the clock.  A   *)
(* lease and a proof are random, so a process stands for those of its claim: *)
(* it makes its next claim only when it has left the one before.             *)
EXTENDS Naturals

CONSTANTS Workers,    \* server processes: requests of the buyer, paid deliveries
          Browsers,   \* the buyer's devices
          Accounts,   \* confirmed accounts, signed in on any of them
          MaxSends,   \* mails per hour (5 in the code)
          MaxFaults,  \* bound: calls that fail and processes that die
          None

ASSUME Limits ==
    MaxSends \in Nat \ {0} /\ MaxFaults \in Nat /\ None \notin Workers \union Accounts

VARIABLES
    row,      \* guest_purchase_deliveries
    timer,    \* deadlines that have not passed: cooldown, lease, proof, window
    mailed,   \* the link of the row's proof was handed to the mail service
    job,      \* what each worker is doing
    visit,    \* each browser's session and what it asked to be saved
    link,     \* guest_purchase_account_links: the account, or None
    told,     \* accounts that were answered "saved"
    opened,   \* history: a browser was let in
    faults    \* failures so far

delivery == <<row, timer, mailed>>
account  == <<link, told>>
vars     == <<delivery, job, visit, account, opened, faults>>

-----------------------------------------------------------------------------
States == {"none", "pending", "sending", "sent", "uncertain"}
Places == {"idle", "claim", "read", "mail", "finish", "acknowledge"}

TypeOK ==
    /\ row \in [state : States, lease : Workers \union {None},
                consumed : BOOLEAN, sends : 0 .. MaxSends]
    /\ timer \in [cooldown : BOOLEAN, lease : BOOLEAN, proof : BOOLEAN, window : BOOLEAN]
    /\ mailed \in BOOLEAN
    /\ job \in [Workers -> Places]
    /\ visit \in [Browsers -> [session : {"none", "open", "ended"},
                               saving : Accounts \union {None}]]
    /\ link \in Accounts \union {None}
    /\ told \subseteq Accounts
    /\ opened \in BOOLEAN
    /\ faults \in 0 .. MaxFaults

Init ==
    /\ row = [state |-> "none", lease |-> None, consumed |-> FALSE, sends |-> 0]
    /\ timer = [cooldown |-> FALSE, lease |-> FALSE, proof |-> FALSE, window |-> FALSE]
    /\ mailed = FALSE
    /\ job = [w \in Workers |-> "idle"]
    /\ visit = [b \in Browsers |-> [session |-> "none", saving |-> None]]
    /\ link = None /\ told = {}
    /\ opened = FALSE
    /\ faults = 0

GoTo(w, place) == job' = [job EXCEPT ![w] = place]
Fault   == faults < MaxFaults /\ faults' = faults + 1
NoFault == UNCHANGED faults

-----------------------------------------------------------------------------
(* The clock.                                                                *)

\* A claim follows its request, so the minute of its lease ends after the
\* minute between requests, and the quarter hour of its proof after both.
CooldownEnds ==
    /\ timer.cooldown
    /\ timer' = [timer EXCEPT !.cooldown = FALSE]
    /\ UNCHANGED <<row, mailed, job, visit, account, opened, faults>>

Mailing(w) == row.lease = w /\ job[w] \in {"read", "mail", "finish", "acknowledge"}

\* A process that is slower than its lease is a failure like another: the
\* mail call is aborted after ten seconds, the others are database calls.
LeaseEnds ==
    /\ timer.lease /\ ~timer.cooldown
    /\ timer' = [timer EXCEPT !.lease = FALSE]
    /\ IF \E w \in Workers : Mailing(w) THEN Fault ELSE NoFault
    /\ UNCHANGED <<row, mailed, job, visit, account, opened>>

ProofEnds ==
    /\ timer.proof /\ ~timer.lease
    /\ timer' = [timer EXCEPT !.proof = FALSE]
    /\ UNCHANGED <<row, mailed, job, visit, account, opened, faults>>

WindowEnds ==
    /\ timer.window /\ ~timer.lease /\ ~timer.cooldown
    /\ timer' = [timer EXCEPT !.window = FALSE]
    /\ UNCHANGED <<row, mailed, job, visit, account, opened, faults>>

-----------------------------------------------------------------------------
(* Who asks for a mail.                                                      *)

\* The transaction that completes the attempt inserts the row.
QueueGuestPurchaseReceipt ==
    /\ row.state = "none"
    /\ row' = [row EXCEPT !.state = "pending"]
    /\ timer' = [timer EXCEPT !.cooldown = TRUE, !.window = TRUE]
    /\ UNCHANGED <<mailed, job, visit, account, opened, faults>>

\* Every verified delivery of the payment comes here, also a duplicate.
DeliverGuestReceiptForAttempt(w) ==
    /\ job[w] = "idle"
    /\ row.state # "none"
    /\ GoTo(w, "claim")
    /\ UNCHANGED <<delivery, visit, account, opened, faults>>

SendsLeft == row.sends < MaxSends \/ ~timer.window

\* Mutant: the lease of a mail under way is not looked at.
WhateverLease == row.state # "none" /\ ~timer.cooldown /\ SendsLeft

\* Mutant: a lease, also one that has expired, refuses the request.
UnlessLeased == row.state \notin {"none", "sending"} /\ ~timer.cooldown /\ SendsLeft

\* One mail a minute, none while a lease runs.
Requestable ==
    /\ row.state # "none"
    /\ ~timer.cooldown /\ ~timer.lease /\ SendsLeft

\* The one way back to pending.  A refused request looks the same to the
\* buyer and changes nothing.
RequestGuestRecovery(w) ==
    /\ job[w] = "idle"
    /\ Requestable
    /\ row' = [row EXCEPT !.state = "pending"]
    /\ timer' = [timer EXCEPT !.cooldown = TRUE]
    /\ GoTo(w, "claim")
    /\ UNCHANGED <<mailed, visit, account, opened, faults>>

-----------------------------------------------------------------------------
(* deliverGuestPurchase: claim, read the purchase, mail, acknowledge.        *)

\* Never automatically resend a sent, uncertain or abandoned one.
Claimable == row.state = "pending" /\ SendsLeft

Claimed(w) == [state |-> "sending", lease |-> w, consumed |-> FALSE,
               sends |-> (IF timer.window THEN row.sends ELSE 0) + 1]

\* The answer of the claim may be lost: the lease is then nobody's.
DeliverGuestPurchase(w) ==
    /\ job[w] = "claim" /\ Claimable
    /\ row' = Claimed(w)
    /\ timer' = [timer EXCEPT !.lease = TRUE, !.proof = TRUE, !.window = TRUE]
    /\ mailed' = FALSE
    /\ \/ GoTo(w, "read") /\ NoFault
       \/ GoTo(w, "idle") /\ Fault
    /\ UNCHANGED <<visit, account, opened>>

SkipDelivery(w) ==
    /\ job[w] = "claim" /\ ~Claimable
    /\ GoTo(w, "idle")
    /\ UNCHANGED <<delivery, visit, account, opened, faults>>

\* A status that cannot be proved "confirmed" mails nothing.
LoadGuestPurchaseStatus(w) ==
    /\ job[w] = "read"
    /\ \/ GoTo(w, "mail") /\ NoFault
       \/ GoTo(w, "finish") /\ Fault
    /\ UNCHANGED <<delivery, visit, account, opened>>

\* The link of a proof that has been replaced opens nothing.
HandOver(w) == mailed' = (mailed \/ row.lease = w)

\* Accepted; accepted and not heard of; refused.
SendGuestRecoveryMail(w) ==
    /\ job[w] = "mail"
    /\ \/ HandOver(w) /\ GoTo(w, "acknowledge") /\ NoFault
       \/ HandOver(w) /\ GoTo(w, "finish") /\ Fault
       \/ UNCHANGED mailed /\ GoTo(w, "finish") /\ Fault
    /\ UNCHANGED <<row, timer, visit, account, opened>>

Outcome(w) == IF job[w] = "acknowledge" THEN "sent" ELSE "uncertain"

\* Mutant: the acknowledgement names the cart only.
FinishCart(w) ==
    /\ job[w] \in {"finish", "acknowledge"}
    /\ IF row.state = "sending"
         THEN /\ row' = [row EXCEPT !.state = Outcome(w)]
              /\ timer' = [timer EXCEPT !.lease = FALSE]
         ELSE UNCHANGED <<row, timer>>
    /\ GoTo(w, "idle")
    /\ UNCHANGED <<mailed, visit, account, opened, faults>>

\* Only the lease the row still has is acknowledged.
FinishGuestPurchaseDelivery(w) ==
    /\ job[w] \in {"finish", "acknowledge"}
    /\ IF row.lease = w /\ row.state = "sending"
         THEN /\ row' = [row EXCEPT !.state = Outcome(w)]
              /\ timer' = [timer EXCEPT !.lease = FALSE]
         ELSE UNCHANGED <<row, timer>>
    /\ GoTo(w, "idle")
    /\ UNCHANGED <<mailed, visit, account, opened, faults>>

\* A process dies, or a call of it fails before it changed anything.
Die(w) ==
    /\ job[w] # "idle"
    /\ GoTo(w, "idle")
    /\ Fault
    /\ UNCHANGED <<delivery, visit, account, opened>>

-----------------------------------------------------------------------------
(* The buyer's browsers.                                                     *)

Redeemable == timer.proof /\ ~row.consumed

\* The link opens once; an answer that is lost has opened it too.
RedeemGuestRecovery(b) ==
    /\ mailed /\ Redeemable
    /\ row' = [row EXCEPT !.consumed = TRUE]
    /\ \/ /\ visit' = [visit EXCEPT ![b].session = "open"]
          /\ opened' = TRUE /\ NoFault
       \/ Fault /\ UNCHANGED <<visit, opened>>
    /\ UNCHANGED <<timer, mailed, job, account>>

\* resolveGuestRecovery: neither revoked nor older than its hour.
Resolves(b) == visit[b].session = "open"

EndSession(b) ==
    /\ Resolves(b)
    /\ visit' = [visit EXCEPT ![b].session = "ended"]
    /\ UNCHANGED <<delivery, job, account, opened, faults>>

RevokeGuestRecovery(b) == EndSession(b)
SessionExpires(b)      == EndSession(b)

\* The cookie and the account are verified, then the purchase is read.
AttachGuestAccount(b, a) ==
    /\ visit[b].saving = None /\ Resolves(b)
    /\ visit' = [visit EXCEPT ![b].saving = a]
    /\ UNCHANGED <<delivery, job, account, opened, faults>>

Answer(b, saved) ==
    /\ told' = IF saved THEN told \union {visit[b].saving} ELSE told
    /\ visit' = [visit EXCEPT ![b].saving = None]

\* Mutant: the newest account gets the purchase.
AttachOver(b) ==
    /\ visit[b].saving # None
    /\ link' = IF Resolves(b) THEN visit[b].saving ELSE link
    /\ Answer(b, Resolves(b))
    /\ UNCHANGED <<delivery, job, opened, faults>>

\* The function looks at the session again: saved, conflict or unavailable.
AttachGuestPurchaseAccount(b) ==
    /\ visit[b].saving # None
    /\ link' = IF link = None /\ Resolves(b) THEN visit[b].saving ELSE link
    /\ Answer(b, Resolves(b) /\ link' = visit[b].saving)
    /\ UNCHANGED <<delivery, job, opened, faults>>

-----------------------------------------------------------------------------
Work(w) ==
    \/ DeliverGuestPurchase(w) \/ SkipDelivery(w)
    \/ LoadGuestPurchaseStatus(w)
    \/ SendGuestRecoveryMail(w)
    \/ FinishGuestPurchaseDelivery(w)

Next ==
    \/ CooldownEnds \/ LeaseEnds \/ ProofEnds \/ WindowEnds
    \/ QueueGuestPurchaseReceipt
    \/ \E w \in Workers : \/ DeliverGuestReceiptForAttempt(w)
                          \/ RequestGuestRecovery(w)
                          \/ Work(w) \/ Die(w)
    \/ \E b \in Browsers : \/ RedeemGuestRecovery(b) \/ RevokeGuestRecovery(b) \/ SessionExpires(b)
                           \/ \E a \in Accounts : AttachGuestAccount(b, a)
                           \/ AttachGuestPurchaseAccount(b)

Spec == Init /\ [][Next]_vars

\* Clocks run, a process that is not killed goes on, a buyer who is not in
\* asks again (some process is free for that again and again) and, given one
\* fresh link after another, opens one of them.
Fairness ==
    /\ WF_vars(CooldownEnds) /\ WF_vars(LeaseEnds) /\ WF_vars(WindowEnds)
    /\ \A w \in Workers : WF_vars(Work(w))
    /\ SF_vars(\E w \in Workers : ~opened /\ RequestGuestRecovery(w))
    /\ SF_vars(\E b \in Browsers : ~opened /\ RedeemGuestRecovery(b))

FairSpec == Spec /\ Fairness

-----------------------------------------------------------------------------
\* A worker whose lease is running is never superseded: until it has
\* acknowledged its mail, no other claim replaces its proof, so no link dies
\* on its way to the buyer.
LeaseExcludes ==
    [][\A w \in Workers : Mailing(w) /\ timer.lease =>
           row'.lease = w \/ job'[w] = "idle"]_vars

\* "sent" is about the proof the row has now: the late acknowledgement of a
\* worker that was superseded never covers a mail that has not gone out.
SentMeansMailed == row.state = "sent" => mailed

\* An account that was told the purchase is saved has it, and keeps it,
\* whatever another account on another device asked at the same time.
SavedIsSaved == \A a \in told : link = a

\* A purchase that is paid for is opened in the end: a claim, mail or
\* acknowledgement that was lost keeps the buyer out no longer than its lease.
BuyerIsLetIn == row.state # "none" ~> opened
=============================================================================
