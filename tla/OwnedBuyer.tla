----------------------------- MODULE OwnedBuyer -----------------------------
(* Signed-in buyers reserve one ticket of one tier and pay for it: the tabs  *)
(* that run owned-checkout-client, what each keeps in sessionStorage for an  *)
(* account, their calls and what the server makes of them.  A tab may stop   *)
(* waiting for a call at any time, and the call goes on.  Other devices of   *)
(* an account share nothing with a tab but the account: of those, only the   *)
(* calls that may change something are here, sent whenever they could be.    *)
(*                                                                           *)
(* A hold is named by the idempotency key that creates it.  What the         *)
(* functions of the database do to stock is module Checkout's.  The wording  *)
(* of the page (its phase and message) follows from the fields kept here.    *)
EXTENDS Naturals, FiniteSets

CONSTANTS Tabs, Devices, Accounts,
          Draws,      \* bound: the idempotency keys a tab or a device may draw
          Slots,      \* bound: <<tab or device, n>> for each call under way
          MaxFaults,  \* bound: interruptions, lost answers, dead processes
          None

ASSUME Apart == Tabs \intersect Devices = {}
ASSUME Bounds == /\ Draws \in [Tabs \union Devices -> SUBSET Nat]
                 /\ Slots \subseteq (Tabs \union Devices) \X Nat
                 /\ MaxFaults \in Nat

VARIABLES
    tab,      \* createOwnedCheckoutFlow of each tab
    saved,    \* its sessionStorage for each account, or None
    by,       \* the tab or device and the account each key was drawn by, or None
    starts,   \* history: each <<tab, account, hold>> whose start a tab has sent
    hold,     \* inventory_reservations under the key, with its attempt
    clock,    \* of each hold: 0 may be started, 1 start window closed, 2 expired
    session,  \* the provider's checkout session for the hold
    posts,    \* history: requests for a session that the provider received
    call,     \* calls under way, and their answers
    faults

browser == <<tab, saved, by, starts>>
server  == <<hold, session, posts>>
vars    == <<browser, server, clock, call, faults>>

Keys == UNION {Draws[d] : d \in Tabs \union Devices}

-----------------------------------------------------------------------------
Actions == {"prepare", "start", "resume", "recover", "discover"}
Answers == {"ready", "redirect", "released", "none", "found", "started", "failed"}
Places  == {"idle", "load", "insert", "post", "look", "confirm",
            "holds", "linked", "release"}
References == [key : Keys \union {None}, hold : Keys \union {None}, started : BOOLEAN]

TypeOK ==
    /\ tab \in [Tabs -> [account : Accounts \union {None}, key : Keys \union {None},
                         hold : Keys \union {None}, started : BOOLEAN, released : BOOLEAN, clear : BOOLEAN, stopped : BOOLEAN,
                         redirect : Keys \union {None}, wait : Slots \union {None}]]
    /\ saved \in [Tabs -> [Accounts -> References \union {None}]]
    /\ by \in [Keys -> ((Tabs \union Devices) \X Accounts) \union {None}]
    /\ starts \subseteq Tabs \X Accounts \X Keys
    /\ hold \in [Keys -> {"none", "held", "orphaned", "begun", "paid", "abandoned", "recovered"}]
    /\ clock \in [Keys -> 0 .. 2]
    /\ session \in [Keys -> {"none", "open", "paid", "expired"}]
    /\ posts \in [Keys -> Nat]
    /\ call \in [Slots -> [act : Actions \union {None}, owner : Accounts \union {None},
                           ref : Keys \union {None}, at : Places \union Answers]]
    /\ faults \in 0 .. MaxFaults

NoCall == [act |-> None, owner |-> None, ref |-> None, at |-> "idle"]

\* None is nothing that a variable may otherwise hold.
ASSUME Nothing == /\ None \notin Keys /\ None \notin Slots /\ None \notin Accounts
                  /\ None \notin Actions /\ None \notin References
                  /\ None \notin (Tabs \union Devices) \X Accounts

\* setAccount: nothing of the account before is kept, and what storage holds
\* for this one is restored; it must be inspected before anything else.
Opened(t, account) ==
    LET kept == IF account = None THEN None ELSE saved[t][account] IN
    [account |-> account, released |-> FALSE, clear |-> FALSE,
     stopped |-> FALSE, redirect |-> None, wait |-> None,
     key     |-> IF kept = None THEN None ELSE kept.key,
     hold    |-> IF kept = None THEN None ELSE kept.hold,
     started |-> kept # None /\ kept.started]

Init ==
    /\ saved = [t \in Tabs |-> [a \in Accounts |-> None]]
    /\ tab = [t \in Tabs |-> Opened(t, None)]
    /\ by = [k \in Keys |-> None]
    /\ starts = {}
    /\ hold = [k \in Keys |-> "none"]
    /\ clock = [k \in Keys |-> 0]
    /\ session = [k \in Keys |-> "none"]
    /\ posts = [k \in Keys |-> 0]
    /\ call = [s \in Slots |-> NoCall]
    /\ faults = 0

Fault   == faults < MaxFaults /\ faults' = faults + 1
NoFault == UNCHANGED faults

-----------------------------------------------------------------------------
(* The clock, the provider, the signed events it sends, and the operator.    *)
\* refresh: when the hold it shows expires, a tab gives up what it awaits and
\* takes the redirect down (within a second in the code, at once here).
Refreshed(page, k) ==
    IF page.hold = k THEN [page EXCEPT !.wait = None, !.redirect = None] ELSE page

Tick(k) ==
    /\ hold[k] # "none" /\ clock[k] < 2
    /\ clock' = [clock EXCEPT ![k] = @ + 1]
    /\ tab' = IF clock'[k] = 2 THEN [t \in Tabs |-> Refreshed(tab[t], k)] ELSE tab
    /\ UNCHANGED <<saved, by, starts, server, call, faults>>

ProviderIsPaid(k) ==
    /\ session[k] = "open" /\ clock[k] < 2
    /\ session' = [session EXCEPT ![k] = "paid"]
    /\ UNCHANGED <<browser, hold, posts, clock, call, faults>>

ProviderExpires(k) ==
    /\ session[k] = "open" /\ clock[k] = 2
    /\ session' = [session EXCEPT ![k] = "expired"]
    /\ UNCHANGED <<browser, hold, posts, clock, call, faults>>

\* FinalizePaid, ReleaseExpired and ReleaseExpiredOrphan of module Checkout.
CloseHold(k) ==
    /\ \E closed \in {"paid", "abandoned", "orphaned"} :
          /\ CASE closed = "paid"      -> hold[k] = "begun" /\ session[k] = "paid"
               [] closed = "abandoned" -> hold[k] = "begun" /\ session[k] = "expired"
               [] closed = "orphaned"  -> hold[k] = "held" /\ clock[k] = 2
          /\ hold' = [hold EXCEPT ![k] = closed]
    /\ UNCHANGED <<browser, session, posts, clock, call, faults>>

-----------------------------------------------------------------------------
(* A call on the server.                                                     *)
RefOf(s) == call[s].ref
At(s, acts, place) == call[s].act \in acts /\ call[s].at = place
Answered(s) == call[s].at \in Answers

\* Mutant: an answer is taken for whatever the tab now waits for.
WaitsForSome(s) == s[1] \in Tabs /\ tab[s[1]].wait # None

\* The stamp of the call is still the tab's generation.
WaitsFor(s) == s[1] \in Tabs /\ tab[s[1]].wait = s

\* An answer goes to the tab that waits for it, and to nobody otherwise.
GoTo(s, place) ==
    call' = [call EXCEPT ![s] =
               CASE place \notin Answers -> [@ EXCEPT !.at = place]
                 [] ~WaitsFor(s)         -> NoCall
                 [] OTHER -> [NoCall EXCEPT !.at = place, !.ref = call[s].ref]]

Confirmed(k)  == hold[k] \in {"held", "begun"}
HasAttempt(k) == hold[k] \in {"begun", "paid", "abandoned", "recovered"}
OwnedBy(a)    == {k \in Keys : hold[k] # "none" /\ by[k][2] = a}

\* prepare_owned_ticket_reservation: a key that is known resumes its hold as
\* it is, and refuses one that is closed or expired.
PrepareOwned(s) ==
    /\ At(s, {"prepare"}, "load")
    /\ LET k == RefOf(s) IN
       \/ /\ hold[k] = "none"
          /\ hold' = [hold EXCEPT ![k] = "held"]
          /\ GoTo(s, "ready")
       \/ /\ Confirmed(k) /\ clock[k] < 2
          /\ GoTo(s, "ready") /\ UNCHANGED hold
       \/ GoTo(s, "failed") /\ UNCHANGED hold
    /\ UNCHANGED <<browser, session, posts, clock, faults>>

\* The hold is this caller's and still live; no attempt but a pending one.
Correlates(k) == Confirmed(k) /\ clock[k] < 2

\* The tier may also have been withdrawn or repriced meanwhile.
LoadHold(s) ==
    /\ At(s, {"start", "resume"}, "load")
    /\ LET k == RefOf(s) IN
       \/ /\ Correlates(k)
          /\ IF HasAttempt(k)
             THEN GoTo(s, IF call[s].act = "resume" THEN "look" ELSE "failed")
             ELSE GoTo(s, IF call[s].act = "start" /\ clock[k] = 0 THEN "insert" ELSE "failed")
       \/ GoTo(s, "failed")
    /\ UNCHANGED <<browser, server, clock, faults>>

\* Mutant: whoever loses the insert sends its own request all the same.
InsertOrJoin(s) ==
    /\ At(s, {"start"}, "insert")
    /\ hold' = [hold EXCEPT ![RefOf(s)] = IF @ = "held" THEN "begun" ELSE @]
    /\ GoTo(s, "post")
    /\ UNCHANGED <<browser, session, posts, clock, faults>>

\* The unique attempt of the hold is the gate: whoever loses it never sends.
InsertAttempt(s) ==
    /\ At(s, {"start"}, "insert")
    /\ LET k == RefOf(s) IN
       IF hold[k] = "held" /\ clock[k] = 0
       THEN hold' = [hold EXCEPT ![k] = "begun"] /\ GoTo(s, "post")
       ELSE GoTo(s, "failed") /\ UNCHANGED hold
    /\ UNCHANGED <<browser, session, posts, clock, faults>>

\* The provider takes a session of thirty minutes or more only, and the answer
\* may be lost; otherwise nothing is sent or nothing comes of it.
CreateSession(s) ==
    /\ At(s, {"start"}, "post")
    /\ LET k == RefOf(s) IN
       \/ /\ clock[k] = 0
          /\ session' = [session EXCEPT ![k] = "open"]
          /\ posts' = [posts EXCEPT ![k] = @ + 1]
          /\ (GoTo(s, "redirect") /\ NoFault) \/ (GoTo(s, "failed") /\ Fault)
       \/ /\ (clock[k] > 0 /\ NoFault) \/ Fault
          /\ GoTo(s, "failed") /\ UNCHANGED <<session, posts>>
    /\ UNCHANGED <<browser, hold, clock>>

\* What a complete listing and the read of the one matching session tell.
Observed(k) ==
    CASE session[k] = "open" /\ clock[k] < 2    -> "open"
      [] session[k] = "expired" /\ clock[k] = 2 -> "expired_unpaid_candidate"
      [] OTHER                                  -> "unresolved"

LookupSession(s) ==
    /\ At(s, {"resume"}, "look")
    /\ GoTo(s, IF Observed(RefOf(s)) = "open" THEN "confirm" ELSE "failed")
    /\ UNCHANGED <<browser, server, clock, faults>>

\* Between the provider's answer and the redirect the hold may have closed.
ConfirmRedirect(s) ==
    /\ At(s, {"resume"}, "confirm")
    /\ GoTo(s, IF Correlates(RefOf(s)) /\ HasAttempt(RefOf(s)) THEN "redirect" ELSE "failed")
    /\ UNCHANGED <<browser, server, clock, faults>>

\* discoverOwnedCheckout counts the holds of the account, then its attempts and
\* the hold's; what is plural, closed or disagrees is left to review.
DiscoverHolds(s) ==
    /\ At(s, {"discover"}, "holds")
    /\ LET owned == OwnedBy(call[s].owner) IN
       \/ owned = {} /\ GoTo(s, "linked")
       \/ \E k \in Keys : owned = {k} /\ Confirmed(k)
                          /\ call' = [call EXCEPT ![s].ref = k, ![s].at = "linked"]
       \/ /\ owned # {} /\ \A k \in Keys : owned = {k} => ~Confirmed(k)
          /\ GoTo(s, "failed")
    /\ UNCHANGED <<browser, server, clock, faults>>

DiscoverAttempts(s) ==
    /\ At(s, {"discover"}, "linked")
    /\ LET k == RefOf(s)
           attempts == {l \in OwnedBy(call[s].owner) : HasAttempt(l)} IN
       CASE k = None /\ attempts = {} -> GoTo(s, "none")
         [] k # None /\ attempts \subseteq {k} /\ (HasAttempt(k) => hold[k] = "begun") ->
              GoTo(s, IF HasAttempt(k) THEN "started" ELSE "found")
         [] OTHER -> GoTo(s, "failed")
    /\ UNCHANGED <<browser, server, clock, faults>>

\* recoverOwnedExpiredCheckout: a release the owner's own check recorded is
\* repeated; one that a signed event made is not claimed.
LoadExpired(s) ==
    /\ At(s, {"recover"}, "load")
    /\ LET k == RefOf(s) IN
       GoTo(s, CASE hold[k] = "recovered" -> "released"
                 [] hold[k] = "begun" /\ Observed(k) = "expired_unpaid_candidate" -> "release"
                 [] OTHER -> "failed")
    /\ UNCHANGED <<browser, server, clock, faults>>

ReleaseOwnedExpired(s) ==
    /\ At(s, {"recover"}, "release")
    /\ hold' = [hold EXCEPT ![RefOf(s)] = IF @ = "begun" THEN "recovered" ELSE @]
    /\ GoTo(s, IF hold'[RefOf(s)] = "recovered" THEN "released" ELSE "failed")
    /\ UNCHANGED <<browser, session, posts, clock, faults>>

\* The process dies, or a read or a write of it fails.
LoseCall(s) ==
    /\ call[s].at \in Places \ {"idle"} /\ Fault
    /\ GoTo(s, "failed")
    /\ UNCHANGED <<browser, server, clock>>

Serve(s) ==
    \/ PrepareOwned(s)
    \/ LoadHold(s) \/ InsertAttempt(s) \/ CreateSession(s)
    \/ LookupSession(s) \/ ConfirmRedirect(s)
    \/ DiscoverHolds(s) \/ DiscoverAttempts(s)
    \/ LoadExpired(s) \/ ReleaseOwnedExpired(s)

\* An answer nobody waits for any more.
DropAnswer(s) ==
    /\ Answered(s) /\ ~WaitsFor(s)
    /\ call' = [call EXCEPT ![s] = NoCall]
    /\ UNCHANGED <<browser, server, clock, faults>>

-----------------------------------------------------------------------------
(* A tab.                                                                    *)
Usable(t)  == tab[t].account # None /\ tab[t].wait = None /\ ~tab[t].stopped
Cleared(t) == Usable(t) /\ tab[t].clear
Expired(t) == tab[t].hold # None /\ clock[tab[t].hold] = 2

Request(t, act, ref, page) ==
    \E s \in Slots :
        /\ s[1] = t /\ call[s] = NoCall
        /\ \A r \in Slots : r[1] = t /\ r[2] < s[2] => call[r] # NoCall
        /\ call' = [call EXCEPT ![s] =
              [NoCall EXCEPT !.act = act, !.owner = page.account, !.ref = ref,
                             !.at = IF act = "discover" THEN "holds" ELSE "load"]]
        /\ tab' = [tab EXCEPT ![t] = [page EXCEPT !.wait = s, !.redirect = None]]

Reference(page) == [key |-> page.key, hold |-> page.hold, started |-> page.started]
Persist(t, page) == saved' = [saved EXCEPT ![t][page.account] = Reference(page)]

\* sessionStorage refuses the write: nothing is sent and the tab stops.
PersistFails(t, page) ==
    /\ Fault
    /\ tab' = [tab EXCEPT ![t] = [page EXCEPT !.stopped = TRUE, !.wait = None, !.redirect = None]]
    /\ UNCHANGED saved

Inspect(t) ==
    /\ Usable(t)
    /\ Request(t, "discover", None, [tab[t] EXCEPT !.clear = FALSE])
    /\ UNCHANGED <<saved, by, starts, server, clock, faults>>

\* Mutant: the key is sent before it is kept.
PrepareUnsaved(t) ==
    /\ Cleared(t) /\ tab[t].hold = None
    /\ \E k \in Keys :
          /\ IF tab[t].key # None THEN k = tab[t].key /\ UNCHANGED by
             ELSE /\ k \in Draws[t] /\ by[k] = None
                  /\ \A j \in Draws[t] : j < k => by[j] # None
                  /\ by' = [by EXCEPT ![k] = <<t, tab[t].account>>]
          /\ Request(t, "prepare", k, [tab[t] EXCEPT !.key = k])
    /\ UNCHANGED <<saved, starts, server, clock, faults>>

\* The key is drawn once, and kept before the first write it is for.
Prepare(t) ==
    /\ Cleared(t) /\ tab[t].hold = None
    /\ \E k \in Keys :
          /\ IF tab[t].key # None THEN k = tab[t].key /\ UNCHANGED by
             ELSE /\ k \in Draws[t] /\ by[k] = None
                  /\ \A j \in Draws[t] : j < k => by[j] # None
                  /\ by' = [by EXCEPT ![k] = <<t, tab[t].account>>]
          /\ LET page == [tab[t] EXCEPT !.key = k] IN
             \/ Persist(t, page) /\ Request(t, "prepare", k, page) /\ NoFault
             \/ PersistFails(t, page) /\ UNCHANGED call
    /\ UNCHANGED <<starts, server, clock>>

SendStart(t, act, page) ==
    /\ Request(t, act, page.hold, page)
    /\ starts' = starts \union {<<t, page.account, page.hold>>}

\* Mutant: a refused write of sessionStorage does not keep the start back.
CheckoutUnkept(t, act) ==
    /\ Cleared(t) /\ tab[t].hold # None /\ ~Expired(t)
    /\ tab[t].started = (act = "resume")
    /\ LET page == [tab[t] EXCEPT !.started = TRUE] IN
       /\ SendStart(t, act, page)
       /\ (Persist(t, page) /\ NoFault) \/ (Fault /\ UNCHANGED saved)
    /\ UNCHANGED <<by, server, clock>>

\* start and resume: the intent is kept before it is sent.
Checkout(t, act) ==
    /\ Cleared(t) /\ tab[t].hold # None /\ ~Expired(t)
    /\ tab[t].started = (act = "resume")
    /\ LET page == [tab[t] EXCEPT !.started = TRUE] IN
       \/ Persist(t, page) /\ SendStart(t, act, page) /\ NoFault
       \/ PersistFails(t, page) /\ UNCHANGED <<call, starts>>
    /\ UNCHANGED <<by, server, clock>>

RecoverExpired(t) ==
    /\ Cleared(t) /\ Expired(t) /\ tab[t].started /\ ~tab[t].released
    /\ Request(t, "recover", tab[t].hold, tab[t])
    /\ UNCHANGED <<saved, by, starts, server, clock, faults>>

\* Mutant: what the server found replaces what the tab had started.
AgreesLoosely(page, found) == (page.key = None \/ page.hold # None)
                              /\ page.hold \in {None, found.ref}

\* What the server found does not contradict what the tab remembers.
Agrees(page, found) ==
    /\ page.key = None \/ page.hold # None
    /\ page.hold \in {None, found.ref}
    /\ page.started => found.at = "started"

\* The tab after the answer of call s, before it is written to storage.
After(page, answer) ==
    CASE answer.at = "ready"    -> [page EXCEPT !.hold = answer.ref]
      [] answer.at = "redirect" -> [page EXCEPT !.redirect = answer.ref]
      [] answer.at = "released" -> [page EXCEPT !.released = TRUE]
      [] answer.at = "none"     -> [page EXCEPT !.clear = page.hold = None /\ ~page.started]
      [] answer.at \in {"found", "started"} /\ Agrees(page, answer) ->
            [page EXCEPT !.hold = answer.ref, !.clear = TRUE, !.started = answer.at = "started"]
      [] OTHER                  -> page

Kept(answer) == answer.at \in {"ready", "found", "started"}

Hear(s) ==
    LET t    == s[1]
        page == [After(tab[t], call[s]) EXCEPT !.wait = None] IN
    /\ Answered(s) /\ WaitsFor(s)
    /\ call' = [call EXCEPT ![s] = NoCall]
    /\ \/ /\ tab' = [tab EXCEPT ![t] = page]
          /\ IF Kept(call[s]) /\ page # [tab[t] EXCEPT !.wait = None]
             THEN Persist(t, page) ELSE UNCHANGED saved
          /\ NoFault
       \/ Kept(call[s]) /\ PersistFails(t, page)
    /\ UNCHANGED <<by, starts, server, clock>>

\* The answer does not come in time, or is lost, or cannot be read.
TimeOut(t) ==
    /\ tab[t].wait # None /\ Fault
    /\ tab' = [tab EXCEPT ![t].wait = None]
    /\ UNCHANGED <<saved, by, starts, server, clock, call>>

SignIn(t) ==
    /\ tab[t].account = None
    /\ \E a \in Accounts : tab' = [tab EXCEPT ![t] = Opened(t, a)]
    /\ UNCHANGED <<saved, by, starts, server, clock, call, faults>>

\* Signing out, leaving the page and reloading it; sessionStorage survives.
SignOut(t) ==
    /\ tab[t].account # None /\ Fault
    /\ tab' = [tab EXCEPT ![t] = Opened(t, None)]
    /\ UNCHANGED <<saved, by, starts, server, clock, call>>

\* Another device, which runs the same page: it reserves with a key of its
\* own, and starts or recovers whatever hold its discovery gave it.
Elsewhere(d) ==
    /\ \E s \in Slots, a \in Accounts, act \in {"prepare", "start", "recover"}, k \in Keys :
          /\ s[1] = d /\ call[s] = NoCall
          /\ IF act = "prepare"
             THEN k \in Draws[d] /\ by[k] = None /\ by' = [by EXCEPT ![k] = <<d, a>>]
             ELSE k \in OwnedBy(a) /\ UNCHANGED by
          /\ act = "start" => hold[k] = "held"
          /\ act = "recover" => hold[k] = "begun" /\ clock[k] = 2
          /\ call' = [call EXCEPT ![s] = [act |-> act, owner |-> a, ref |-> k, at |-> "load"]]
    /\ UNCHANGED <<tab, saved, starts, server, clock, faults>>

-----------------------------------------------------------------------------
Next ==
    \/ \E k \in Keys : Tick(k) \/ ProviderIsPaid(k) \/ ProviderExpires(k) \/ CloseHold(k)
    \/ \E s \in Slots : Serve(s) \/ LoseCall(s) \/ DropAnswer(s) \/ Hear(s)
    \/ \E t \in Tabs :
          \/ Inspect(t) \/ Prepare(t) \/ RecoverExpired(t)
          \/ \E act \in {"start", "resume"} : Checkout(t, act)
          \/ TimeOut(t) \/ SignIn(t) \/ SignOut(t)
    \/ \E d \in Devices : Elsewhere(d)

Spec == Init /\ [][Next]_vars

-----------------------------------------------------------------------------
\* Whatever answer is lost and however often the buyer reloads or signs out
\* and in, one tab never takes a second reservation for an account: the key
\* that may have reserved is never replaced (prepare and setAccount of
\* owned-checkout-client).
OneReservationPerTab ==
    \A k, l \in Keys :
        hold[k] # "none" /\ hold[l] # "none" /\ by[k] = by[l] /\ by[k][1] \in Tabs => k = l

\* A hold is sent to the provider once, by whichever of several tabs and
\* devices of its owner inserted its attempt (create-checkout-attempt).
OnePostPerHold == \A k \in Keys : posts[k] <= 1

\* The redirect a tab offers pays for the hold it shows, which belongs to the
\* account signed in there; and a release it reports is that hold's, recorded
\* by the owner's own check.  An answer asked for under another account, or
\* before a reload, never gets there (generation of owned-checkout-client).
ShownIsOwn ==
    \A t \in Tabs :
        /\ tab[t].redirect # None =>
              /\ tab[t].redirect = tab[t].hold
              /\ by[tab[t].hold][2] = tab[t].account
              /\ session[tab[t].hold] # "none"
        /\ tab[t].released => hold[tab[t].hold] = "recovered"

\* A tab that sent a start of a hold, which may have reached the provider, knows
\* so: in its storage, and on its page whenever that account is shown there,
\* through lost answers, reloads, changes of account and whatever a discovery
\* finds.  It offers recovery of that attempt and never a fresh start (persist
\* in checkout, restore in setAccount, what inspectOriginal accepts).
StartIsRemembered ==
    \A t \in Tabs, a \in Accounts, k \in Keys : <<t, a, k>> \in starts =>
        /\ saved[t][a] # None /\ saved[t][a].started /\ saved[t][a].hold = k
        /\ tab[t].account = a => tab[t].started /\ tab[t].hold = k
=============================================================================
