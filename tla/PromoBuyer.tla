----------------------------- MODULE PromoBuyer -----------------------------
(* One browser tab buys tickets of one tier as a guest: the page controller  *)
(* of guest-promo-client, the reference it keeps in sessionStorage, its      *)
(* calls and what the server makes of them.  The page may stop waiting for a *)
(* call at any time; the call goes on and its answer is dropped.             *)
(*                                                                           *)
(* What the cart functions of the database do to stock and codes is module   *)
(* Checkout's; here a cart has the states that their outcomes depend on.     *)
(* Prices are only looked at: `review` is the moment they have been, and the *)
(* page knows the quote of its reference whenever it is in phase `saved`.    *)
EXTENDS Naturals

CONSTANTS Carts,      \* cart ids the page may draw
          Calls,      \* requests under way at once
          MaxFaults,  \* bound: lost or late answers, dead processes, interruptions
          None

ASSUME Bound == MaxFaults \in Nat

VARIABLES
    page,     \* createPromoBuyer: phase, reference and the run under way
    saved,    \* sessionStorage: the reference, or None
    mine,     \* the browser's session is the one the reference belongs to
    drawn,    \* cart ids the page has used
    cart,     \* guest_checkout_carts with its hold and its attempt
    clock,    \* of each cart: 0 may be started, 1 start window closed, 2 expired
    session,  \* the provider's checkout session for the cart
    call,     \* the requests: cart, action, place and, when answered, the answer
    struck,   \* history: carts whose dispatcher failed them between begin and answer
    faults

browser == <<page, saved, mine, drawn>>
server  == <<cart, session, call, struck>>
vars    == <<browser, server, clock, faults>>

-----------------------------------------------------------------------------
Phases  == {"details", "review", "saved", "recover", "expired", "blocked", "redirect"}
Actions == {"prepare", "read", "pay", "expire"}
Answers == {"ready", "released", "complete", "redirect", "review_required", "failed"}
Places  == {"idle", "start", "close", "begin", "context", "post", "look", "confirm",
            "stop", "evidence", "release"}

TypeOK ==
    /\ page \in [phase : Phases, ref : Carts \union {None},
                 run : Actions \union {None}, wait : {"identity", "token"} \union Calls \union {None}]
    /\ saved \in Carts \union {None}
    /\ mine \in BOOLEAN
    /\ drawn \subseteq Carts
    /\ cart \in [Carts -> {"none", "ready", "begun", "paid", "released", "abandoned"}]
    /\ clock \in [Carts -> 0 .. 2]
    /\ session \in [Carts -> {"none", "open", "paid", "expired"}]
    /\ call \in [Calls -> [cart : Carts \union {None}, act : Actions \union {None},
                           at : Places \union Answers, created : BOOLEAN]]
    /\ struck \subseteq Carts
    /\ faults \in 0 .. MaxFaults

NoCall == [cart |-> None, act |-> None, at |-> "idle", created |-> FALSE]

\* None is no cart, no call and no word of the page's, and a call is no word.
ASSUME Apart == /\ None \notin Carts \union Calls \union Actions \union {"identity", "token"}
                /\ Calls \intersect {"identity", "token"} = {}

\* A page that opens: what storage holds is checked before anything else.
Opened == [phase |-> IF saved = None THEN "details" ELSE "recover", ref |-> saved,
           run |-> None, wait |-> None]

Init ==
    /\ saved = None /\ page = Opened /\ mine = TRUE /\ drawn = {}
    /\ cart = [c \in Carts |-> "none"]
    /\ clock = [c \in Carts |-> 0]
    /\ session = [c \in Carts |-> "none"]
    /\ call = [s \in Calls |-> NoCall]
    /\ struck = {}
    /\ faults = 0

Fault   == faults < MaxFaults /\ faults' = faults + 1
NoFault == UNCHANGED faults

-----------------------------------------------------------------------------
(* The clock, the provider and the signed events it sends.                   *)
Tick(c) ==
    /\ cart[c] # "none" /\ clock[c] < 2
    /\ clock' = [clock EXCEPT ![c] = @ + 1]
    /\ UNCHANGED <<browser, server, faults>>

ProviderIsPaid(c) ==
    /\ session[c] = "open" /\ clock[c] < 2
    /\ session' = [session EXCEPT ![c] = "paid"]
    /\ UNCHANGED <<browser, cart, call, struck, clock, faults>>

ProviderExpires(c) ==
    /\ session[c] = "open" /\ clock[c] = 2
    /\ session' = [session EXCEPT ![c] = "expired"]
    /\ UNCHANGED <<browser, cart, call, struck, clock, faults>>

FinalizePaid(c) ==
    /\ session[c] = "paid" /\ cart[c] = "begun"
    /\ cart' = [cart EXCEPT ![c] = "paid"]
    /\ UNCHANGED <<browser, session, call, struck, clock, faults>>

ReleaseExpired(c) ==
    /\ session[c] = "expired" /\ cart[c] = "begun"
    /\ cart' = [cart EXCEPT ![c] = "abandoned"]
    /\ UNCHANGED <<browser, session, call, struck, clock, faults>>

-----------------------------------------------------------------------------
(* A request on the server.                                                  *)
\* A request that is answered keeps its answer only.
GoTo(s, place) ==
    call' = [call EXCEPT ![s] = IF place \in Answers THEN [NoCall EXCEPT !.at = place]
                                ELSE [@ EXCEPT !.at = place]]
At(s, act, place) == call[s].act = act /\ call[s].at = place
CartOf(s) == call[s].cart
Answered(s) == call[s].at \in Answers

StartWindowClosed(c) == clock[c] >= 1
ReleaseRecorded(c) == cart[c] \in {"released", "abandoned"}

\* prepare_priced_guest_cart and the read that follows it, which may fail when
\* the cart is already there; a refusal rolls back.
PreparePricedCart(s) ==
    /\ At(s, "prepare", "start")
    /\ \/ /\ cart' = [cart EXCEPT ![CartOf(s)] = "ready"]
          /\ (GoTo(s, "ready") /\ NoFault) \/ (GoTo(s, "failed") /\ Fault)
       \/ \E refusal \in {"review_required", "failed"} :
             GoTo(s, refusal) /\ UNCHANGED <<cart, faults>>
    /\ UNCHANGED <<browser, clock, session, struck>>

ReadPricedCart(s) ==
    /\ At(s, "read", "start")
    /\ GoTo(s, CASE ReleaseRecorded(CartOf(s)) -> "released"
                 [] cart[CartOf(s)] = "none"   -> "failed"
                 [] OTHER                      -> "ready")
    /\ UNCHANGED <<browser, clock, cart, session, struck, faults>>

PayReads(s) ==
    /\ At(s, "pay", "start")
    /\ GoTo(s, LET c == CartOf(s) IN
               CASE cart[c] = "none"     -> "failed"
                 [] ReleaseRecorded(c)   -> "released"
                 [] cart[c] = "paid"     -> "complete"
                 [] cart[c] = "ready" /\ StartWindowClosed(c) -> "close"
                 [] OTHER                -> "begin")
    /\ UNCHANGED <<browser, clock, cart, session, struck, faults>>

\* begin_priced_guest_payment: exactly one caller creates the attempt.
BeginPricedPayment(s) ==
    /\ At(s, "pay", "begin")
    /\ LET c == CartOf(s) IN
       IF cart[c] = "ready" /\ ~StartWindowClosed(c)
       THEN /\ cart' = [cart EXCEPT ![c] = "begun"]
            /\ call' = [call EXCEPT ![s].at = "context", ![s].created = TRUE]
       ELSE /\ GoTo(s, IF cart[c] \in {"ready", "released"} THEN "close" ELSE "context")
            /\ UNCHANGED cart
    /\ UNCHANGED <<browser, clock, session, struck, faults>>

\* release_priced_guest_cart without an attempt.
ReleaseUnstarted(s, allowed) ==
    LET c == CartOf(s) IN
    /\ cart' = IF cart[c] = "ready" /\ allowed THEN [cart EXCEPT ![c] = "released"] ELSE cart

CloseStartWindow(s) ==
    /\ At(s, "pay", "close")
    /\ ReleaseUnstarted(s, StartWindowClosed(CartOf(s)))
    /\ GoTo(s, IF cart'[CartOf(s)] = "released" THEN "released" ELSE "failed")
    /\ UNCHANGED <<browser, clock, session, struck, faults>>

Payable(c) == cart[c] = "begun" /\ clock[c] < 2

PayContext(s) ==
    /\ At(s, "pay", "context")
    /\ GoTo(s, CASE cart[CartOf(s)] = "paid" -> "complete"
                 [] ~Payable(CartOf(s))      -> "stop"
                 [] call[s].created          -> "post"
                 [] OTHER                    -> "look")
    /\ UNCHANGED <<browser, clock, cart, session, struck, faults>>

\* The one dispatcher sends the request, and hears of the session or not.
CreateSession(s) ==
    /\ At(s, "pay", "post") /\ ~StartWindowClosed(CartOf(s))
    /\ session' = [session EXCEPT ![CartOf(s)] = "open"]
    /\ \/ GoTo(s, "confirm") /\ NoFault
       \/ GoTo(s, "failed") /\ Fault
    /\ UNCHANGED <<browser, clock, cart, struck>>

\* The transport was entered and nothing arrived.
LosePost(s) ==
    /\ At(s, "pay", "post") /\ ~StartWindowClosed(CartOf(s)) /\ Fault
    /\ GoTo(s, "failed")
    /\ struck' = struck \union {CartOf(s)}
    /\ UNCHANGED <<browser, clock, cart, session>>

\* The adapter refuses before its transport is entered: the window has closed
\* meanwhile, or its configuration is broken.
RefusePost(s) ==
    /\ At(s, "pay", "post")
    /\ \/ StartWindowClosed(CartOf(s)) /\ NoFault
       \/ Fault
    /\ GoTo(s, "stop")
    /\ UNCHANGED <<browser, clock, cart, session, struck>>

\* What a complete listing and the read of the one matching session tell.
Observed(c) ==
    CASE session[c] = "open" /\ clock[c] < 2    -> "open"
      [] session[c] = "expired" /\ clock[c] = 2 -> "expired_unpaid_candidate"
      [] OTHER                                  -> "unresolved"

LookupSession(s) ==
    /\ At(s, "pay", "look")
    /\ GoTo(s, IF Observed(CartOf(s)) = "open" THEN "confirm" ELSE "failed")
    /\ UNCHANGED <<browser, clock, cart, session, struck, faults>>

ConfirmRedirect(s) ==
    /\ At(s, "pay", "confirm")
    /\ GoTo(s, IF Payable(CartOf(s)) THEN "redirect" ELSE "failed")
    /\ UNCHANGED <<browser, clock, cart, session, struck, faults>>

\* `stop`: only a dispatcher whose transport was never entered releases.
ReleaseNeverSent(s) ==
    /\ At(s, "pay", "stop")
    /\ LET c == CartOf(s) IN
       /\ cart' = IF call[s].created /\ cart[c] = "begun"
                  THEN [cart EXCEPT ![c] = "abandoned"] ELSE cart
       /\ GoTo(s, IF call[s].created /\ cart'[c] = "abandoned" THEN "released" ELSE "failed")
    /\ UNCHANGED <<browser, clock, session, struck, faults>>

\* Mutant: the buyer's expiry never asks the provider.
ReconcileUnstartedOnly(s) ==
    /\ At(s, "expire", "start")
    /\ ReleaseUnstarted(s, clock[CartOf(s)] = 2)
    /\ GoTo(s, IF cart'[call[s].cart] \in {"released", "abandoned"} THEN "released" ELSE "failed")
    /\ UNCHANGED <<browser, clock, session, struck, faults>>

\* The buyer's expiry: a cart that never started at once, a started one with
\* the provider's word that its session expired unpaid.
ReconcilePricedCart(s) ==
    /\ At(s, "expire", "start")
    /\ LET c == CartOf(s) IN
       /\ ReleaseUnstarted(s, clock[c] = 2)
       /\ GoTo(s, CASE cart'[c] \in {"released", "abandoned"}  -> "released"
                    [] cart[c] = "begun" /\ clock[c] = 2       -> "evidence"
                    [] OTHER                                   -> "failed")
    /\ UNCHANGED <<browser, clock, session, struck, faults>>

FreshEvidence(s) ==
    /\ At(s, "expire", "evidence")
    /\ GoTo(s, IF cart[CartOf(s)] = "begun" /\ Observed(CartOf(s)) = "expired_unpaid_candidate"
               THEN "release" ELSE "failed")
    /\ UNCHANGED <<browser, clock, cart, session, struck, faults>>

ReleaseWithEvidence(s) ==
    /\ At(s, "expire", "release")
    /\ cart' = [cart EXCEPT ![CartOf(s)] = IF @ = "begun" THEN "abandoned" ELSE @]
    /\ GoTo(s, IF cart[CartOf(s)] \in {"begun", "abandoned"} THEN "released" ELSE "failed")
    /\ UNCHANGED <<browser, clock, session, struck, faults>>

\* The process dies or the database fails it.  A payment that was begun and
\* has not entered the transport is stranded.
LoseRequest(s) ==
    /\ call[s].at \in Places \ {"idle"} /\ Fault
    /\ GoTo(s, "failed")
    /\ struck' = IF call[s].created /\ call[s].at \in {"context", "post", "stop"}
                 THEN struck \union {CartOf(s)} ELSE struck
    /\ UNCHANGED <<browser, clock, cart, session>>

Serve(s) ==
    \/ PreparePricedCart(s) \/ ReadPricedCart(s)
    \/ PayReads(s) \/ BeginPricedPayment(s) \/ CloseStartWindow(s) \/ PayContext(s)
    \/ CreateSession(s) \/ RefusePost(s) \/ LookupSession(s) \/ ConfirmRedirect(s)
    \/ ReleaseNeverSent(s)
    \/ ReconcilePricedCart(s) \/ FreshEvidence(s) \/ ReleaseWithEvidence(s)

\* An answer nobody waits for any more.
DropAnswer(s) ==
    /\ Answered(s) /\ page.wait # s
    /\ call' = [call EXCEPT ![s] = NoCall]
    /\ UNCHANGED <<browser, clock, cart, session, struck, faults>>

-----------------------------------------------------------------------------
(* The page.                                                                 *)
Idle == page.run = None
Ended(p) == [p EXCEPT !.run = None, !.wait = None]

\* The catch of `run`: the reference decides whether to check it or start over.
Failed == [Ended(page) EXCEPT !.phase = IF page.ref = None THEN "details" ELSE "recover"]

Review ==
    /\ Idle /\ page.ref = None /\ page.phase \in {"details", "review"} /\ mine
    /\ page' = [page EXCEPT !.phase = IF @ = "details" THEN "review" ELSE "details"]
    /\ UNCHANGED <<saved, mine, drawn, server, clock, faults>>

\* What the view offers in each phase.
Offered(phase) ==
    CASE phase = "recover"             -> {"read"}
      [] phase \in {"review", "saved"} -> {"pay"}
      [] phase = "expired"             -> {"expire"}
      [] OTHER                         -> {}

Start(action) ==
    /\ Idle
    /\ action \in Offered(page.phase)
    /\ page' = [page EXCEPT !.run = action, !.wait = "identity"]
    /\ UNCHANGED <<saved, mine, drawn, server, clock, faults>>

\* ensureIdentity: another session than the owner's ends the run.
IdentityFails ==
    /\ page.wait = "identity" /\ ~mine
    /\ page' = Failed
    /\ UNCHANGED <<saved, mine, drawn, server, clock, faults>>

\* A new cart is written to storage before the page adopts it and asks for it.
SaveReference ==
    /\ page.wait = "identity" /\ mine /\ page.run = "pay" /\ page.ref = None
    /\ \E c \in Carts \ drawn :
          /\ drawn' = drawn \union {c}
          /\ saved' = c
          /\ page' = [page EXCEPT !.ref = c, !.run = "prepare", !.wait = "token"]
    /\ UNCHANGED <<mine, server, clock, faults>>

\* storage.write throws, before or after the first of its two keys.
SaveFails ==
    /\ page.wait = "identity" /\ mine /\ page.run = "pay" /\ page.ref = None /\ Fault
    /\ \E c \in Carts \ drawn :
          /\ drawn' = drawn \union {c}
          /\ saved' \in {saved, c}
    /\ page' = Failed
    /\ UNCHANGED <<mine, server, clock>>

UseReference ==
    /\ page.wait = "identity" /\ mine /\ page.ref # None
    /\ page' = IF page.run = "pay" /\ clock[page.ref] = 2
               THEN Failed ELSE [page EXCEPT !.wait = "token"]
    /\ UNCHANGED <<saved, mine, drawn, server, clock, faults>>

\* getToken answers for the owner only, and a session that changed since then
\* has blocked the page; the request leaves the browser.
Send(s) ==
    /\ page.wait = "token" /\ mine /\ call[s] = NoCall
    /\ call' = [call EXCEPT ![s] = [NoCall EXCEPT !.cart = page.ref, !.act = page.run, !.at = "start"]]
    /\ page' = [page EXCEPT !.wait = s]
    /\ UNCHANGED <<saved, mine, drawn, cart, session, struck, clock, faults>>

Hear(s, run, answers) ==
    /\ page.wait = s /\ page.run = run /\ call[s].at \in answers
    /\ call' = [call EXCEPT ![s] = NoCall]
    /\ UNCHANGED <<mine, drawn, cart, session, struck, clock, faults>>

\* finishReleased, and a prepare that was refused and rolled back.
Forget ==
    /\ saved' = IF saved = page.ref THEN None ELSE saved
    /\ page' = [Ended(page) EXCEPT !.phase = "details", !.ref = None]

HearRefused(s)  == Hear(s, "prepare", {"review_required"}) /\ Forget
HearReleased(s) == (\E run \in {"read", "pay", "expire"} : Hear(s, run, {"released"})) /\ Forget

\* The same run goes on to pay for what it prepared.
HearPrepared(s) ==
    /\ Hear(s, "prepare", {"ready"})
    /\ page' = IF clock[page.ref] = 2
               THEN Failed
               ELSE [page EXCEPT !.phase = "saved", !.run = "pay", !.wait = "token"]
    /\ UNCHANGED saved

HearRead(s) ==
    /\ Hear(s, "read", {"ready"})
    /\ page' = [Ended(page) EXCEPT !.phase = IF clock[page.ref] = 2 THEN "expired" ELSE "saved"]
    /\ UNCHANGED saved

HearPayment(s) ==
    /\ Hear(s, "pay", {"redirect", "complete"})
    /\ page' = [Ended(page) EXCEPT !.phase = "redirect"]
    /\ UNCHANGED saved

\* Mutant: a purchase that could not be prepared is forgotten.
ForgetUnprepared(s) ==
    \/ Hear(s, "prepare", {"failed"}) /\ Forget
    \/ /\ \E run \in Actions \ {"prepare"} : Hear(s, run, {"failed"})
       /\ page' = IF page.run = "expire" THEN Ended(page) ELSE Failed
       /\ UNCHANGED saved

HearFailed(s) ==
    /\ \E run \in Actions : Hear(s, run, {"failed"})
    /\ page' = IF page.run = "expire" THEN Ended(page) ELSE Failed
    /\ UNCHANGED saved

\* 12 seconds are over: the request goes on without the page.
TimeOut ==
    /\ ~Idle /\ Fault
    /\ page' = Failed
    /\ UNCHANGED <<saved, mine, drawn, server, clock>>

\* sessionChanged: somebody else signs in, or the owner comes back.
SessionChanges ==
    /\ mine /\ Fault
    /\ mine' = FALSE
    /\ page' = IF page.ref = None /\ page.phase = "details" /\ Idle THEN page
               ELSE [Ended(page) EXCEPT !.phase = "blocked"]
    /\ UNCHANGED <<saved, drawn, server, clock>>

SessionReturns ==
    /\ ~mine /\ mine' = TRUE
    /\ UNCHANGED <<page, saved, drawn, server, clock, faults>>

\* dispose and activate: the component is unmounted and mounted again.
Remount ==
    /\ Fault
    /\ page' = [Ended(page) EXCEPT
                   !.phase = IF page.ref # None THEN "recover"
                             ELSE IF @ = "blocked" THEN "blocked" ELSE "details"]
    /\ UNCHANGED <<saved, mine, drawn, server, clock>>

\* The page is loaded anew; back from the provider or from a blocked page
\* that is what a buyer does next.
Reload ==
    /\ \/ page.phase \in {"blocked", "redirect"} /\ NoFault
       \/ Fault
    /\ page' = Opened
    /\ UNCHANGED <<saved, mine, drawn, server, clock>>

-----------------------------------------------------------------------------
Run == \/ IdentityFails \/ SaveReference \/ UseReference
       \/ \E s \in Calls : \/ Send(s) \/ HearRefused(s) \/ HearReleased(s) \/ HearPrepared(s)
                           \/ HearRead(s) \/ HearPayment(s) \/ HearFailed(s)

Next ==
    \/ \E c \in Carts : \/ Tick(c) \/ ProviderIsPaid(c) \/ ProviderExpires(c)
                        \/ FinalizePaid(c) \/ ReleaseExpired(c)
    \/ \E s \in Calls : Serve(s) \/ LosePost(s) \/ LoseRequest(s) \/ DropAnswer(s)
    \/ Review \/ (\E action \in Actions : Start(action))
    \/ Run \/ SaveFails \/ TimeOut
    \/ SessionChanges \/ SessionReturns \/ Remount \/ Reload

Spec == Init /\ [][Next]_vars

\* Time passes, processes that are not killed go on, the provider expires
\* what is not paid and its paid event arrives; the buyer stays with the
\* saved purchase: comes back to it and takes what the page offers.
Fairness ==
    /\ \A c \in Carts : WF_vars(Tick(c)) /\ WF_vars(ProviderExpires(c)) /\ WF_vars(FinalizePaid(c))
    /\ \A s \in Calls : WF_vars(Serve(s)) /\ WF_vars(DropAnswer(s))
    /\ WF_vars(Run) /\ WF_vars(SessionReturns)
    /\ WF_vars(NoFault /\ Reload)
    /\ WF_vars(page.ref # None /\ \E action \in Actions : Start(action))

FairSpec == Spec /\ Fairness

-----------------------------------------------------------------------------
Open(c) == cart[c] \in {"ready", "begun"}
Preparing(c) == \/ \E s \in Calls : CartOf(s) = c /\ At(s, "prepare", "start")
                \/ page.ref = c /\ page.run = "prepare" /\ page.wait = "token"

\* Stock and a code are reserved for a cart, or a request that may still
\* reserve them is under way, only while the tab's storage leads back to it:
\* whatever answers are lost or late and however the page is left, the buyer
\* cannot start a second cart over an open first one.
OpenIsSaved == \A c \in Carts : Open(c) \/ Preparing(c) => saved = c

\* A buyer who stays with the purchase is led out of it: every cart the
\* server holds open is paid or gives its stock back, except one whose
\* dispatcher was lost between begin and the provider.
CartIsClosed == \A c \in Carts : Open(c) ~> (~Open(c) \/ c \in struck)
=============================================================================
