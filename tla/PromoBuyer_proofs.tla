-------------------------- MODULE PromoBuyer_proofs --------------------------
(* A guest's tab never loses the way back to an open cart, for every number  *)
(* of carts and requests and every number of faults.                         *)
EXTENDS PromoBuyer, TLAPS

PageRow == [phase : Phases, ref : Carts \union {None}, run : Actions \union {None},
            wait : {"identity", "token"} \union Calls \union {None}]
CallRow == [cart : Carts \union {None}, act : Actions \union {None},
            at : Places \union Answers, created : BOOLEAN]

Underway(s) == call[s].at \in Places \ {"idle"}
Asked(s)    == At(s, "prepare", "start")

-----------------------------------------------------------------------------
(* The invariant.  OpenIsSaved is not inductive: storage is overwritten or    *)
(* cleared on what the page knows, so the page has to stay with the open cart *)
(* too (OpenIsHere), a cart has to be asked for once, before it exists        *)
(* (PreparedOnce), a fresh cart id must not name anything (OnlyDrawn), and    *)
(* the answer that makes the page forget has to be about its own reference    *)
(* and still true when it is heard (AwaitedIsOwn).                            *)

PageKnows ==
    /\ page.wait = "identity" => page.run # "prepare"
    /\ page.wait \in Calls \union {"token"} => page.ref # None

OnlyDrawn ==
    /\ {page.ref, saved} \subseteq drawn \union {None}
    /\ \A s \in Calls : Underway(s) => CartOf(s) \in drawn
    /\ \A c \in Carts : cart[c] # "none" => c \in drawn

PreparedOnce ==
    /\ \A s \in Calls : Asked(s) =>
          /\ cart[CartOf(s)] = "none"
          /\ \A r \in Calls : Asked(r) /\ CartOf(r) = CartOf(s) => r = s
    /\ page.run = "prepare" /\ page.wait = "token" =>
          /\ cart[page.ref] = "none"
          /\ \A s \in Calls : Asked(s) => CartOf(s) # page.ref

OpenIsHere == \A c \in Carts : Open(c) \/ Preparing(c) => saved = c /\ page.ref = c

AwaitedIsOwn ==
    \A s \in Calls : page.wait = s =>
        /\ Underway(s) => CartOf(s) = page.ref
        /\ call[s].at = "released" => ReleaseRecorded(page.ref)
        /\ call[s].at = "review_required" =>
              cart[page.ref] = "none" /\ \A r \in Calls : Asked(r) => CartOf(r) # page.ref

Inv == TypeOK /\ PageKnows /\ OnlyDrawn /\ PreparedOnce /\ OpenIsHere /\ AwaitedIsOwn

LEMMA PromoInit == Init => Inv
BY Apart, Bound
   DEF Init, Inv, TypeOK, PageKnows, OnlyDrawn, PreparedOnce, OpenIsHere, AwaitedIsOwn, Opened, NoCall,
       Phases, Actions, Places, Answers, Underway, Asked, At, Open, Preparing

-----------------------------------------------------------------------------
(* Server steps.  Whatever an action on a call does, it is a move: the call   *)
(* goes on or is answered, no other call and no other cart changes, a cart    *)
(* becomes ready only where it was asked for, and a release is answered only  *)
(* when it is recorded.                                                       *)

Moves(s) ==
    /\ UNCHANGED browser
    /\ Underway(s)
    /\ \A r \in Calls : r # s => call'[r] = call[r]
    /\ ~Asked(s)' /\ (Underway(s)' => CartOf(s)' = CartOf(s))
    /\ \A c \in Carts : c # CartOf(s) => cart'[c] = cart[c]
    /\ \/ cart'[CartOf(s)] = cart[CartOf(s)]
       \/ Asked(s) /\ cart'[CartOf(s)] = "ready"
       \/ cart[CartOf(s)] \in {"ready", "begun"} /\ cart'[CartOf(s)] \in {"begun", "released", "abandoned"}
    /\ call'[s].at = "released" => cart'[CartOf(s)] \in {"released", "abandoned"}
    /\ call'[s].at = "review_required" => Asked(s) /\ cart'[CartOf(s)] = cart[CartOf(s)]

LEMMA UnderwayRow ==
    ASSUME Inv, NEW s \in Calls, Underway(s)
    PROVE  CartOf(s) \in Carts /\ CartOf(s) \in drawn
BY DEF Inv, TypeOK, OnlyDrawn

LEMMA MoveKeeps ==
    ASSUME Inv, TypeOK', NEW s \in Calls, Moves(s)
    PROVE  Inv'
<1> DEFINE c == CartOf(s)
<1>1. c \in Carts /\ c \in drawn
  BY UnderwayRow DEF Moves
<1>2. /\ page' = page /\ saved' = saved /\ drawn' = drawn
      /\ \A r \in Calls : r # s => call'[r] = call[r]
      /\ \A k \in Carts : k # c => cart'[k] = cart[k]
  BY DEF Moves, browser
<1>3. PageKnows'
  BY <1>2 DEF Inv, PageKnows
<1>4. OnlyDrawn'
  <2>1. \A r \in Calls : Underway(r)' => CartOf(r)' \in drawn
    BY <1>1, <1>2 DEF Moves, Inv, OnlyDrawn, Underway, CartOf
  <2>2. \A k \in Carts : cart'[k] # "none" => k \in drawn
    BY <1>1, <1>2 DEF Inv, OnlyDrawn
  <2> QED BY <1>2, <2>1, <2>2 DEF Inv, OnlyDrawn
<1>5. \A r \in Calls : Asked(r)' => Asked(r) /\ r # s /\ CartOf(r)' = CartOf(r) /\ CartOf(r) \in Carts
  BY <1>2, UnderwayRow DEF Moves, Asked, At, CartOf, Underway, Places
<1>6. \A r \in Calls : Asked(r)' => cart'[CartOf(r)] = "none"
  <2> SUFFICES ASSUME NEW r \in Calls, Asked(r)' PROVE cart'[CartOf(r)] = "none"
    OBVIOUS
  <2>1. cart[CartOf(r)] = "none"
    BY <1>5 DEF Inv, PreparedOnce
  <2>2. CartOf(r) = c => ~Asked(s)
    BY <1>5 DEF Inv, PreparedOnce
  <2> QED BY <1>2, <1>5, <2>1, <2>2 DEF Moves
<1>7. PreparedOnce'
  <2>1. ASSUME NEW r \in Calls, Asked(r)'
        PROVE  /\ cart'[CartOf(r)'] = "none"
               /\ \A q \in Calls : Asked(q)' /\ CartOf(q)' = CartOf(r)' => q = r
    BY <1>5, <1>6, <2>1 DEF Inv, PreparedOnce
  <2>2. ASSUME page.run = "prepare", page.wait = "token"
        PROVE  /\ cart'[page.ref] = "none"
               /\ \A r \in Calls : Asked(r)' => CartOf(r)' # page.ref
    <3>1. /\ cart[page.ref] = "none" /\ page.ref \in Carts
          /\ \A r \in Calls : Asked(r) => CartOf(r) # page.ref
      BY <2>2 DEF Inv, PreparedOnce, PageKnows, TypeOK
    <3> QED BY <1>2, <1>5, <3>1 DEF Moves
  <2> QED BY <1>2, <2>1, <2>2 DEF PreparedOnce
<1>8. OpenIsHere'
  <2>1. \A k \in Carts : Preparing(k)' => Preparing(k)
    BY <1>2, <1>5 DEF Preparing, Asked
  <2>2. \A k \in Carts : Open(k)' => Open(k) \/ (k = c /\ Asked(s))
    BY <1>2 DEF Moves, Open
  <2>3. Asked(s) => Preparing(c)
    BY DEF Asked, Preparing
  <2> QED BY <1>2, <2>1, <2>2, <2>3 DEF Inv, OpenIsHere
<1>9. AwaitedIsOwn'
  <2> SUFFICES ASSUME NEW r \in Calls, page.wait = r
               PROVE  /\ Underway(r)' => CartOf(r)' = page.ref
                      /\ call'[r].at = "released" => ReleaseRecorded(page.ref)'
                      /\ call'[r].at = "review_required" =>
                            /\ cart'[page.ref] = "none"
                            /\ \A q \in Calls : Asked(q)' => CartOf(q)' # page.ref
    BY <1>2 DEF AwaitedIsOwn
  <2>1. /\ Underway(r) => CartOf(r) = page.ref
        /\ call[r].at = "released" => ReleaseRecorded(page.ref)
        /\ call[r].at = "review_required" =>
              cart[page.ref] = "none" /\ \A q \in Calls : Asked(q) => CartOf(q) # page.ref
        /\ page.ref \in Carts
    BY DEF Inv, AwaitedIsOwn, PageKnows, TypeOK
  <2>2. Underway(r)' => CartOf(r)' = page.ref
    BY <1>2, <2>1 DEF Moves, Underway, CartOf
  <2>3. call'[r].at = "released" => ReleaseRecorded(page.ref)'
    <3>1. CASE r = s
      BY <1>2, <2>1, <3>1 DEF Moves, ReleaseRecorded
    <3>2. CASE r # s
      <4>1. \A k \in Carts : ReleaseRecorded(k) => ReleaseRecorded(k)'
        BY <1>2 DEF Moves, ReleaseRecorded, Inv, PreparedOnce
      <4> QED BY <1>2, <2>1, <3>2, <4>1
    <3> QED BY <3>1, <3>2
  <2>4. call'[r].at = "review_required" =>
           cart'[page.ref] = "none" /\ \A q \in Calls : Asked(q)' => CartOf(q)' # page.ref
    <3>1. CASE r = s
      <4> SUFFICES ASSUME call'[s].at = "review_required"
                   PROVE  cart'[page.ref] = "none" /\ \A q \in Calls : Asked(q)' => CartOf(q)' # page.ref
        BY <3>1
      <4>1. Asked(s) /\ cart'[c] = cart[c] /\ c = page.ref
        BY <2>1, <3>1 DEF Moves
      <4> QED BY <1>5, <4>1 DEF Inv, PreparedOnce
    <3>2. CASE r # s
      <4> SUFFICES ASSUME call[r].at = "review_required"
                   PROVE  cart'[page.ref] = "none" /\ \A q \in Calls : Asked(q)' => CartOf(q)' # page.ref
        BY <1>2, <3>2
      <4> QED BY <1>2, <1>5, <2>1 DEF Moves
    <3> QED BY <3>1, <3>2
  <2> QED BY <2>2, <2>3, <2>4
<1> QED BY <1>3, <1>4, <1>7, <1>8, <1>9 DEF Inv

-----------------------------------------------------------------------------
(* Every action of the server is such a move.                                 *)

LEMMA Gone ==
    ASSUME TypeOK, NEW s \in Calls, NEW place \in (Places \ {"idle", "start"}) \union Answers,
           GoTo(s, place)
    PROVE  /\ call' \in [Calls -> CallRow]
           /\ \A r \in Calls : r # s => call'[r] = call[r]
           /\ call'[s].at = place
           /\ Underway(s)' => CartOf(s)' = CartOf(s)
           /\ ~Asked(s)'
<1>1. call \in [Calls -> CallRow]
  BY DEF TypeOK, CallRow
<1>2. /\ [NoCall EXCEPT !.at = place] \in CallRow
      /\ [NoCall EXCEPT !.at = place].at = place
      /\ place \in Answers => place \notin Places
      /\ place # "start"
  BY DEF NoCall, CallRow, Places, Answers
<1>3. /\ [call[s] EXCEPT !.at = place] \in CallRow
      /\ [call[s] EXCEPT !.at = place].at = place
      /\ [call[s] EXCEPT !.at = place].cart = call[s].cart
  BY <1>1 DEF CallRow
<1>4. call'[s] = IF place \in Answers THEN [NoCall EXCEPT !.at = place] ELSE [call[s] EXCEPT !.at = place]
  BY <1>1 DEF GoTo
<1>5. /\ call' \in [Calls -> CallRow]
      /\ \A r \in Calls : r # s => call'[r] = call[r]
  BY <1>1, <1>2, <1>3 DEF GoTo
<1> QED BY <1>2, <1>3, <1>4, <1>5 DEF Underway, Asked, At, CartOf

\* A move that leaves the carts alone and answers nothing that counts.
LEMMA PlainMove ==
    ASSUME Inv, NEW s \in Calls, Underway(s),
           NEW place \in (Places \ {"idle", "start"}) \union Answers, GoTo(s, place),
           UNCHANGED <<browser, cart, clock>>,
           session' \in [Carts -> {"none", "open", "paid", "expired"}],
           struck' \subseteq Carts, faults' \in 0 .. MaxFaults,
           place = "released" => ReleaseRecorded(CartOf(s)),
           place = "review_required" => Asked(s)
    PROVE  TypeOK' /\ Moves(s)
<1>1. /\ call' \in [Calls -> CallRow]
      /\ \A r \in Calls : r # s => call'[r] = call[r]
      /\ call'[s].at = place
      /\ Underway(s)' => CartOf(s)' = CartOf(s)
      /\ ~Asked(s)'
  BY Gone DEF Inv
<1>2. TypeOK'
  BY <1>1 DEF Inv, TypeOK, CallRow, browser
<1>3. Moves(s)
  BY <1>1 DEF Moves, ReleaseRecorded
<1> QED BY <1>2, <1>3

\* A move that writes the cart of the call.
LEMMA CartMove ==
    ASSUME Inv, NEW s \in Calls, Underway(s),
           NEW place \in (Places \ {"idle", "start"}) \union Answers, GoTo(s, place),
           UNCHANGED <<browser, clock, session, struck>>, faults' \in 0 .. MaxFaults,
           NEW state, cart' = [cart EXCEPT ![CartOf(s)] = state],
           \/ Asked(s) /\ state = "ready"
           \/ cart[CartOf(s)] \in {"ready", "begun"} /\ state \in {"begun", "released", "abandoned"},
           place = "released" => state \in {"released", "abandoned"},
           place # "review_required"
    PROVE  TypeOK' /\ Moves(s)
<1>1. /\ call' \in [Calls -> CallRow]
      /\ \A r \in Calls : r # s => call'[r] = call[r]
      /\ call'[s].at = place
      /\ Underway(s)' => CartOf(s)' = CartOf(s)
      /\ ~Asked(s)'
  BY Gone DEF Inv
<1>2. CartOf(s) \in Carts
  BY UnderwayRow
<1>3. /\ cart' \in [Carts -> {"none", "ready", "begun", "paid", "released", "abandoned"}]
      /\ cart'[CartOf(s)] = state /\ \A c \in Carts : c # CartOf(s) => cart'[c] = cart[c]
  BY <1>2 DEF Inv, TypeOK
<1>4. TypeOK'
  BY <1>1, <1>3 DEF Inv, TypeOK, CallRow, browser
<1>5. Moves(s)
  BY <1>1, <1>3 DEF Moves
<1> QED BY <1>4, <1>5

LEMMA FaultType == TypeOK /\ (Fault \/ NoFault) => faults' \in 0 .. MaxFaults
BY Bound DEF TypeOK, Fault, NoFault

LEMMA PrepareMoves ==
    ASSUME Inv, NEW s \in Calls, PreparePricedCart(s) \/ ReadPricedCart(s)
    PROVE  TypeOK' /\ Moves(s)
<1>t. session \in [Carts -> {"none", "open", "paid", "expired"}] /\ struck \subseteq Carts
      /\ faults \in 0 .. MaxFaults
  BY DEF Inv, TypeOK
<1>u. Underway(s)
  BY DEF PreparePricedCart, ReadPricedCart, At, Underway, Places
<1>1. CASE PreparePricedCart(s)
  <2>0. Asked(s) /\ UNCHANGED <<browser, clock, session, struck>> /\ faults' \in 0 .. MaxFaults
    BY <1>1, FaultType DEF PreparePricedCart, Asked, Inv, NoFault
  <2>1. ASSUME NEW place \in {"ready", "failed"}, GoTo(s, place), cart' = [cart EXCEPT ![CartOf(s)] = "ready"]
        PROVE  TypeOK' /\ Moves(s)
    <3>1. place \in (Places \ {"idle", "start"}) \union Answers /\ place \notin {"released", "review_required"}
      BY DEF Answers
    <3> QED BY <1>u, <2>0, <2>1, <3>1, CartMove
  <2>2. ASSUME NEW place \in {"review_required", "failed"}, GoTo(s, place), UNCHANGED cart
        PROVE  TypeOK' /\ Moves(s)
    <3>1. place \in (Places \ {"idle", "start"}) \union Answers /\ place # "released"
      BY DEF Answers
    <3> QED BY <1>t, <1>u, <2>0, <2>2, <3>1, PlainMove
  <2> QED BY <1>1, <2>1, <2>2 DEF PreparePricedCart
<1>2. CASE ReadPricedCart(s)
  <2> DEFINE place == CASE ReleaseRecorded(CartOf(s)) -> "released"
                        [] cart[CartOf(s)] = "none"   -> "failed"
                        [] OTHER                      -> "ready"
  <2>1. GoTo(s, place) /\ UNCHANGED <<browser, clock, cart, session, struck, faults>>
    BY <1>2 DEF ReadPricedCart
  <2>2. /\ place \in {"released", "failed", "ready"}
        /\ place = "released" => ReleaseRecorded(CartOf(s))
    BY DEF ReleaseRecorded
  <2> HIDE DEF place
  <2>3. place \in (Places \ {"idle", "start"}) \union Answers /\ place # "review_required"
    BY <2>2 DEF Answers
  <2> QED BY <1>t, <1>u, <2>1, <2>2, <2>3, PlainMove
<1> QED BY <1>1, <1>2

LEMMA PayReadMoves ==
    ASSUME Inv, NEW s \in Calls, PayReads(s) \/ PayContext(s) \/ LookupSession(s) \/ ConfirmRedirect(s)
    PROVE  TypeOK' /\ Moves(s)
<1>t. /\ session \in [Carts -> {"none", "open", "paid", "expired"}] /\ struck \subseteq Carts
      /\ faults \in 0 .. MaxFaults /\ Underway(s)
      /\ UNCHANGED <<browser, clock, cart, session, struck, faults>>
  BY DEF Inv, TypeOK, PayReads, PayContext, LookupSession, ConfirmRedirect, At, Underway, Places
<1>1. ASSUME NEW place \in {"failed", "complete", "close", "begin", "stop", "post", "look", "confirm",
                            "redirect", "released"},
             GoTo(s, place), place = "released" => ReleaseRecorded(CartOf(s))
      PROVE  TypeOK' /\ Moves(s)
  <2>1. place \in (Places \ {"idle", "start"}) \union Answers /\ place # "review_required"
    BY DEF Places, Answers
  <2> QED BY <1>t, <1>1, <2>1, PlainMove
<1>2. CASE PayReads(s)
  <2> DEFINE c == CartOf(s)
             place == CASE cart[c] = "none"     -> "failed"
                        [] ReleaseRecorded(c)   -> "released"
                        [] cart[c] = "paid"     -> "complete"
                        [] cart[c] = "ready" /\ StartWindowClosed(c) -> "close"
                        [] OTHER                -> "begin"
  <2>1. GoTo(s, place)
    BY <1>2 DEF PayReads
  <2>2. /\ place \in {"failed", "released", "complete", "close", "begin"}
        /\ place = "released" => ReleaseRecorded(CartOf(s))
    BY DEF ReleaseRecorded
  <2> HIDE DEF place
  <2> QED BY <1>1, <2>1, <2>2
<1>3. CASE PayContext(s)
  <2> DEFINE place == CASE cart[CartOf(s)] = "paid" -> "complete"
                        [] ~Payable(CartOf(s))      -> "stop"
                        [] call[s].created          -> "post"
                        [] OTHER                    -> "look"
  <2>1. GoTo(s, place)
    BY <1>3 DEF PayContext
  <2>2. place \in {"complete", "stop", "post", "look"}
    OBVIOUS
  <2> HIDE DEF place
  <2> QED BY <1>1, <2>1, <2>2
<1>4. CASE LookupSession(s)
  BY <1>1, <1>4 DEF LookupSession
<1>5. CASE ConfirmRedirect(s)
  BY <1>1, <1>5 DEF ConfirmRedirect
<1> QED BY <1>2, <1>3, <1>4, <1>5

LEMMA PostMoves ==
    ASSUME Inv, NEW s \in Calls, CreateSession(s) \/ LosePost(s) \/ RefusePost(s) \/ LoseRequest(s)
    PROVE  TypeOK' /\ Moves(s)
<1>t. /\ session \in [Carts -> {"none", "open", "paid", "expired"}] /\ struck \subseteq Carts
      /\ Underway(s) /\ UNCHANGED <<browser, cart, clock>> /\ faults' \in 0 .. MaxFaults
  BY FaultType DEF Inv, TypeOK, CreateSession, LosePost, RefusePost, LoseRequest, At, Underway, Places
<1>c. CartOf(s) \in Carts
  BY <1>t, UnderwayRow
<1>1. \E place \in {"confirm", "failed", "stop"} : GoTo(s, place)
  BY DEF CreateSession, LosePost, RefusePost, LoseRequest
<1>2. /\ session' \in [Carts -> {"none", "open", "paid", "expired"}]
      /\ struck' \subseteq Carts
  BY <1>t, <1>c DEF CreateSession, LosePost, RefusePost, LoseRequest
<1>3. \A place \in {"confirm", "failed", "stop"} :
        place \in (Places \ {"idle", "start"}) \union Answers /\ place \notin {"released", "review_required"}
  BY DEF Places, Answers
<1> QED BY <1>t, <1>1, <1>2, <1>3, PlainMove

LEMMA BeginMoves ==
    ASSUME Inv, NEW s \in Calls, BeginPricedPayment(s)
    PROVE  TypeOK' /\ Moves(s)
<1> DEFINE c == CartOf(s)
<1>t. /\ session \in [Carts -> {"none", "open", "paid", "expired"}] /\ struck \subseteq Carts
      /\ faults \in 0 .. MaxFaults /\ Underway(s) /\ call \in [Calls -> CallRow]
      /\ UNCHANGED <<browser, clock, session, struck, faults>>
  BY DEF Inv, TypeOK, CallRow, BeginPricedPayment, At, Underway, Places
<1>c. c \in Carts
  BY <1>t, UnderwayRow
<1>1. CASE cart[c] = "ready" /\ ~StartWindowClosed(c)
  <2>1. /\ cart' = [cart EXCEPT ![c] = "begun"]
        /\ call' = [call EXCEPT ![s].at = "context", ![s].created = TRUE]
    BY <1>1 DEF BeginPricedPayment
  <2>2. /\ call' \in [Calls -> CallRow] /\ call'[s].at = "context" /\ call'[s].cart = call[s].cart
        /\ \A r \in Calls : r # s => call'[r] = call[r]
    BY <1>t, <2>1 DEF CallRow, Places
  <2>3. /\ cart' \in [Carts -> {"none", "ready", "begun", "paid", "released", "abandoned"}]
        /\ cart'[c] = "begun" /\ \A k \in Carts : k # c => cart'[k] = cart[k]
    BY <1>c, <2>1 DEF Inv, TypeOK
  <2>4. TypeOK'
    BY <1>t, <2>2, <2>3 DEF Inv, TypeOK, CallRow, browser
  <2>5. Moves(s)
    BY <1>t, <1>1, <2>2, <2>3 DEF Moves, Asked, At, CartOf
  <2> QED BY <2>4, <2>5
<1>2. CASE ~(cart[c] = "ready" /\ ~StartWindowClosed(c))
  <2>1. UNCHANGED cart /\ \E place \in {"close", "context"} : GoTo(s, place)
    BY <1>2 DEF BeginPricedPayment
  <2>2. \A place \in {"close", "context"} :
          place \in (Places \ {"idle", "start"}) \union Answers /\ place \notin {"released", "review_required"}
    BY DEF Places, Answers
  <2> QED BY <1>t, <2>1, <2>2, PlainMove
<1> QED BY <1>1, <1>2

\* The actions that may write a release.
LEMMA ReleaseMoves ==
    ASSUME Inv, NEW s \in Calls,
           \/ CloseStartWindow(s) \/ ReleaseNeverSent(s) \/ ReconcilePricedCart(s)
           \/ FreshEvidence(s) \/ ReleaseWithEvidence(s)
    PROVE  TypeOK' /\ Moves(s)
<1> DEFINE c == CartOf(s)
<1>t. /\ session \in [Carts -> {"none", "open", "paid", "expired"}] /\ struck \subseteq Carts
      /\ faults \in 0 .. MaxFaults /\ Underway(s)
      /\ cart \in [Carts -> {"none", "ready", "begun", "paid", "released", "abandoned"}]
      /\ UNCHANGED <<browser, clock, session, struck, faults>>
  BY DEF Inv, TypeOK, CloseStartWindow, ReleaseNeverSent, ReconcilePricedCart, FreshEvidence,
         ReleaseWithEvidence, At, Underway, Places
<1>c. c \in Carts
  BY <1>t, UnderwayRow
<1>1. \/ cart' = cart
      \/ \E state \in {"released", "abandoned"} :
            cart[c] \in {"ready", "begun"} /\ cart' = [cart EXCEPT ![c] = state]
  BY <1>t, <1>c DEF CloseStartWindow, ReleaseNeverSent, ReconcilePricedCart, FreshEvidence,
         ReleaseWithEvidence, ReleaseUnstarted
<1>2. \E place \in {"released", "failed", "evidence", "release"} :
        GoTo(s, place) /\ (place = "released" => cart'[c] \in {"released", "abandoned"})
  <2>1. CASE CloseStartWindow(s)
    BY <2>1 DEF CloseStartWindow
  <2>2. CASE ReleaseNeverSent(s)
    BY <2>2 DEF ReleaseNeverSent
  <2>3. CASE ReconcilePricedCart(s)
    <3> DEFINE place == CASE cart'[c] \in {"released", "abandoned"} -> "released"
                          [] cart[c] = "begun" /\ clock[c] = 2      -> "evidence"
                          [] OTHER                                  -> "failed"
    <3>1. GoTo(s, place)
      BY <2>3 DEF ReconcilePricedCart
    <3>2. /\ place \in {"released", "evidence", "failed"}
          /\ place = "released" => cart'[c] \in {"released", "abandoned"}
      OBVIOUS
    <3> HIDE DEF place
    <3> QED BY <3>1, <3>2
  <2>4. CASE FreshEvidence(s)
    BY <2>4 DEF FreshEvidence
  <2>5. CASE ReleaseWithEvidence(s)
    BY <1>t, <1>c, <2>5 DEF ReleaseWithEvidence
  <2> QED BY <2>1, <2>2, <2>3, <2>4, <2>5
<1>3. PICK place \in {"released", "failed", "evidence", "release"} :
        GoTo(s, place) /\ (place = "released" => cart'[c] \in {"released", "abandoned"})
  BY <1>2
<1>4. place \in (Places \ {"idle", "start"}) \union Answers /\ place # "review_required"
  BY DEF Places, Answers
<1>5. CASE cart' = cart
  <2>1. place = "released" => ReleaseRecorded(c)
    BY <1>3, <1>5 DEF ReleaseRecorded
  <2> QED BY <1>t, <1>3, <1>4, <1>5, <2>1, PlainMove
<1>6. ASSUME NEW state \in {"released", "abandoned"}, cart[c] \in {"ready", "begun"},
             cart' = [cart EXCEPT ![c] = state]
      PROVE  TypeOK' /\ Moves(s)
  BY <1>t, <1>3, <1>4, <1>6, CartMove
<1> QED BY <1>1, <1>5, <1>6

LEMMA ServerKeeps ==
    ASSUME Inv, NEW s \in Calls, Serve(s) \/ LosePost(s) \/ LoseRequest(s)
    PROVE  Inv'
<1>1. TypeOK' /\ Moves(s)
  BY PrepareMoves, PayReadMoves, PostMoves, BeginMoves, ReleaseMoves DEF Serve
<1> QED BY <1>1, MoveKeeps

LEMMA OutsideKeeps ==
    ASSUME Inv, NEW c \in Carts,
           Tick(c) \/ ProviderIsPaid(c) \/ ProviderExpires(c) \/ FinalizePaid(c) \/ ReleaseExpired(c)
    PROVE  Inv'
<1>1. UNCHANGED <<page, saved, mine, drawn, call>>
  BY DEF Tick, ProviderIsPaid, ProviderExpires, FinalizePaid, ReleaseExpired, browser, server
<1>2. \/ cart' = cart
      \/ cart[c] = "begun" /\ \E state \in {"paid", "abandoned"} : cart' = [cart EXCEPT ![c] = state]
  BY DEF Tick, ProviderIsPaid, ProviderExpires, FinalizePaid, ReleaseExpired, server
<1>3. TypeOK'
  BY <1>1 DEF Inv, TypeOK, Tick, ProviderIsPaid, ProviderExpires, FinalizePaid, ReleaseExpired, server
<1>4. \A k \in Carts : /\ cart'[k] = "none" <=> cart[k] = "none"
                       /\ Open(k)' => Open(k)
                       /\ ReleaseRecorded(k) => ReleaseRecorded(k)'
  BY <1>2 DEF Inv, TypeOK, Open, ReleaseRecorded
<1>5. \A s \in Calls : /\ Underway(s)' = Underway(s) /\ Asked(s)' = Asked(s) /\ CartOf(s)' = CartOf(s)
                       /\ Asked(s) => CartOf(s) \in Carts
  BY <1>1, UnderwayRow DEF Underway, Asked, At, CartOf, Places
<1>6. \A s \in Calls : page.wait = s => page.ref \in Carts
  BY DEF Inv, PageKnows, TypeOK
<1>7. page.wait = "token" => page.ref \in Carts
  BY DEF Inv, PageKnows, TypeOK
<1>8. PageKnows' /\ OnlyDrawn'
  BY <1>1, <1>4, <1>5 DEF Inv, PageKnows, OnlyDrawn
<1>9. PreparedOnce'
  BY <1>1, <1>4, <1>5, <1>7 DEF Inv, PreparedOnce
<1>10. OpenIsHere'
  BY <1>1, <1>4 DEF Inv, OpenIsHere, Preparing, At, CartOf
<1>11. AwaitedIsOwn'
  BY <1>1, <1>4, <1>5, <1>6 DEF Inv, AwaitedIsOwn
<1> QED BY <1>3, <1>8, <1>9, <1>10, <1>11 DEF Inv

-----------------------------------------------------------------------------
(* The page.  Calls only end here, or begin with Send.                        *)

EndCalls == \A r \in Calls : call'[r] \in {call[r], NoCall}

LEMMA FewerCalls ==
    ASSUME EndCalls, NEW r \in Calls
    PROVE  /\ Underway(r)' => Underway(r) /\ call'[r] = call[r]
           /\ Asked(r)' => Asked(r) /\ Underway(r) /\ CartOf(r)' = CartOf(r)
           /\ call'[r].at \in Answers => call'[r] = call[r]
BY DEF EndCalls, NoCall, Underway, Asked, At, CartOf, Places, Answers

\* The page keeps its reference and does not begin to prepare.
LEMMA StayKeeps ==
    ASSUME Inv, TypeOK', EndCalls, UNCHANGED <<saved, cart>>, drawn \subseteq drawn', page'.ref = page.ref,
           \/ page'.wait = None
           \/ page'.wait = page.wait /\ page'.run = page.run
           \/ page'.wait = "identity" /\ page'.run # "prepare"
           \/ page'.wait = "token" /\ page'.ref # None /\ page'.run # "prepare"
    PROVE  Inv'
<1>1. PageKnows'
  BY Apart DEF Inv, PageKnows
<1>2. OnlyDrawn'
  BY FewerCalls DEF Inv, OnlyDrawn, CartOf
<1>3. PreparedOnce'
  <2>1. page'.run = "prepare" /\ page'.wait = "token" => page.run = "prepare" /\ page.wait = "token"
    BY Apart
  <2> QED BY <2>1, FewerCalls DEF Inv, PreparedOnce
<1>4. OpenIsHere'
  <2>1. \A c \in Carts : Preparing(c)' => Preparing(c)
    BY FewerCalls, Apart DEF Preparing, Asked
  <2>2. \A c \in Carts : Open(c)' => Open(c)
    BY DEF Open
  <2> QED BY <2>1, <2>2 DEF Inv, OpenIsHere
<1>5. AwaitedIsOwn'
  <2> SUFFICES ASSUME NEW s \in Calls, page'.wait = s
               PROVE  /\ Underway(s)' => CartOf(s)' = page.ref
                      /\ call'[s].at = "released" => ReleaseRecorded(page.ref)
                      /\ call'[s].at = "review_required" =>
                            cart[page.ref] = "none" /\ \A r \in Calls : Asked(r)' => CartOf(r)' # page.ref
    BY DEF AwaitedIsOwn, ReleaseRecorded
  <2>1. page.wait = s
    BY Apart
  <2>2. "released" \in Answers /\ "review_required" \in Answers
    BY DEF Answers
  <2> QED BY <2>1, <2>2, FewerCalls DEF Inv, AwaitedIsOwn, CartOf
<1> QED BY <1>1, <1>2, <1>3, <1>4, <1>5 DEF Inv

\* The page lets go of a cart that is closed or never came to be.
LEMMA ForgetKeeps ==
    ASSUME Inv, TypeOK', EndCalls, UNCHANGED <<cart, drawn>>, Forget,
           ~Open(page.ref), \A r \in Calls : Asked(r) => CartOf(r) # page.ref
    PROVE  Inv'
<1>1. page'.ref = None /\ page'.wait = None /\ page'.run = None /\ saved' \in {saved, None}
  BY DEF Forget, Ended, Inv, TypeOK
<1>2. PageKnows' /\ AwaitedIsOwn'
  BY <1>1, Apart DEF PageKnows, AwaitedIsOwn
<1>3. OnlyDrawn'
  BY <1>1, FewerCalls DEF Inv, OnlyDrawn, CartOf
<1>4. PreparedOnce'
  BY <1>1, Apart, FewerCalls DEF Inv, PreparedOnce
<1>5. \A c \in Carts : ~Open(c)' /\ ~Preparing(c)'
  <2>1. \A c \in Carts : ~Open(c)
    BY DEF Inv, OpenIsHere
  <2>2. \A r \in Calls : ~Asked(r)
    BY UnderwayRow DEF Inv, OpenIsHere, Preparing, Asked, At, Underway, Places
  <2> QED BY <1>1, <2>1, <2>2, FewerCalls, Apart DEF Open, Preparing, Asked
<1> QED BY <1>2, <1>3, <1>4, <1>5 DEF Inv, OpenIsHere

LEMMA DropKeeps ==
    ASSUME Inv, NEW s \in Calls, DropAnswer(s)
    PROVE  Inv'
<1>1. EndCalls /\ UNCHANGED <<page, saved, mine, drawn, cart, clock, session, struck, faults>>
  BY DEF DropAnswer, browser, EndCalls, Inv, TypeOK
<1>2. TypeOK'
  BY <1>1 DEF DropAnswer, Inv, TypeOK, NoCall, Places
<1> QED BY <1>1, <1>2, StayKeeps

LEMMA NoReferenceNothingOpen ==
    ASSUME Inv, page.ref = None
    PROVE  \A c \in Carts : ~Open(c) /\ ~Preparing(c)
BY Apart DEF Inv, OpenIsHere

\* Steps of the page alone that neither save nor send.
LEMMA PageAloneKeeps ==
    ASSUME Inv,
           \/ Review \/ (\E action \in Actions : Start(action)) \/ IdentityFails \/ UseReference
           \/ TimeOut \/ SessionChanges \/ SessionReturns \/ Remount
    PROVE  Inv'
<1>1. EndCalls /\ UNCHANGED <<saved, drawn, cart, clock, session, call, struck>>
  BY DEF Review, Start, IdentityFails, UseReference, TimeOut, SessionChanges, SessionReturns, Remount,
         server, EndCalls
<1>2. faults' \in 0 .. MaxFaults /\ mine' \in BOOLEAN
  BY FaultType DEF Review, Start, IdentityFails, UseReference, TimeOut, SessionChanges, SessionReturns,
         Remount, Inv, TypeOK, NoFault
<1>3. /\ page' \in PageRow /\ page'.ref = page.ref
      /\ \/ page'.wait = None
         \/ page'.wait = page.wait /\ page'.run = page.run
         \/ page'.wait = "identity" /\ page'.run # "prepare"
         \/ page'.wait = "token" /\ page'.ref # None /\ page'.run # "prepare"
  <2>t. page \in PageRow
    BY DEF Inv, TypeOK, PageRow
  <2>f. /\ Failed \in PageRow /\ Failed.ref = page.ref /\ Failed.wait = None
        /\ Ended(page) \in PageRow /\ Ended(page).ref = page.ref /\ Ended(page).wait = None
    BY <2>t DEF Failed, Ended, PageRow, Phases
  <2>1. CASE Review
    BY <2>t, <2>1 DEF Review, PageRow, Phases
  <2>2. ASSUME NEW action \in Actions, Start(action)
        PROVE  <1>3!:
    <3>1. action # "prepare"
      BY <2>2 DEF Start, Offered
    <3> QED BY <2>t, <2>2, <3>1 DEF Start, PageRow
  <2>3. CASE IdentityFails
    BY <2>f, <2>3 DEF IdentityFails
  <2>4. CASE UseReference
    BY <2>t, <2>f, <2>4 DEF UseReference, PageRow, Inv, PageKnows
  <2>5. CASE TimeOut
    BY <2>f, <2>5 DEF TimeOut
  <2>6. CASE SessionChanges
    BY <2>t, <2>f, <2>6 DEF SessionChanges, PageRow, Phases
  <2>7. CASE SessionReturns
    BY <2>t, <2>7 DEF SessionReturns
  <2>8. CASE Remount
    BY <2>t, <2>f, <2>8 DEF Remount, PageRow, Phases
  <2> QED BY <2>1, <2>2, <2>3, <2>4, <2>5, <2>6, <2>7, <2>8
<1>4. TypeOK'
  BY <1>1, <1>2, <1>3 DEF Inv, TypeOK, PageRow
<1> QED BY <1>1, <1>3, <1>4, StayKeeps

LEMMA SaveKeeps ==
    ASSUME Inv, SaveReference
    PROVE  Inv'
<1>1. PICK c \in Carts \ drawn :
        /\ drawn' = drawn \union {c} /\ saved' = c
        /\ page' = [page EXCEPT !.ref = c, !.run = "prepare", !.wait = "token"]
  BY DEF SaveReference
<1>2. UNCHANGED <<mine, cart, session, call, struck, clock, faults>> /\ page.ref = None
  BY DEF SaveReference, server
<1>3. /\ page' \in PageRow /\ page'.ref = c /\ page'.run = "prepare" /\ page'.wait = "token"
  BY <1>1 DEF Inv, TypeOK, PageRow, Actions
<1>4. TypeOK'
  BY <1>1, <1>2, <1>3 DEF Inv, TypeOK, PageRow
<1>5. cart[c] = "none" /\ \A s \in Calls : Underway(s) => CartOf(s) # c
  BY DEF Inv, OnlyDrawn
<1>6. \A s \in Calls : /\ Underway(s)' = Underway(s) /\ Asked(s)' = Asked(s) /\ CartOf(s)' = CartOf(s)
                       /\ Asked(s) => Underway(s)
  BY <1>2 DEF Underway, Asked, At, CartOf, Places
<1>7. PageKnows' /\ AwaitedIsOwn'
  BY <1>3, Apart DEF PageKnows, AwaitedIsOwn
<1>8. OnlyDrawn'
  BY <1>1, <1>2, <1>3, <1>6 DEF Inv, OnlyDrawn
<1>9. PreparedOnce'
  BY <1>2, <1>3, <1>5, <1>6 DEF Inv, PreparedOnce
<1>10. OpenIsHere'
  <2>1. \A k \in Carts : ~Open(k)' /\ (Preparing(k)' => k = c)
    BY <1>2, <1>3, <1>6, NoReferenceNothingOpen DEF Open, Preparing, Asked
  <2> QED BY <1>1, <1>3, <2>1 DEF OpenIsHere
<1> QED BY <1>4, <1>7, <1>8, <1>9, <1>10 DEF Inv

LEMMA SaveFailsKeeps ==
    ASSUME Inv, SaveFails
    PROVE  Inv'
<1>1. PICK c \in Carts \ drawn : drawn' = drawn \union {c} /\ saved' \in {saved, c}
  BY DEF SaveFails
<1>2. /\ UNCHANGED <<mine, cart, session, call, struck, clock>> /\ page.ref = None /\ page' = Failed
      /\ faults' \in 0 .. MaxFaults
  BY FaultType DEF SaveFails, server, Inv
<1>3. page' \in PageRow /\ page'.ref = None /\ page'.run = None /\ page'.wait = None
  BY <1>2 DEF Inv, TypeOK, PageRow, Failed, Ended, Phases
<1>4. TypeOK'
  BY <1>1, <1>2, <1>3 DEF Inv, TypeOK, PageRow
<1>6. \A s \in Calls : Underway(s)' = Underway(s) /\ Asked(s)' = Asked(s) /\ CartOf(s)' = CartOf(s)
  BY <1>2 DEF Underway, Asked, At, CartOf
<1>7. PageKnows' /\ AwaitedIsOwn'
  BY <1>3, Apart DEF PageKnows, AwaitedIsOwn
<1>8. OnlyDrawn'
  BY <1>1, <1>2, <1>3, <1>6 DEF Inv, OnlyDrawn
<1>9. PreparedOnce'
  BY <1>2, <1>3, <1>6, Apart DEF Inv, PreparedOnce
<1>10. OpenIsHere'
  BY <1>2, <1>3, <1>6, NoReferenceNothingOpen, Apart DEF OpenIsHere, Open, Preparing, Asked
<1> QED BY <1>4, <1>7, <1>8, <1>9, <1>10 DEF Inv

\* The request takes over what the page was about to ask for.
LEMMA SendKeeps ==
    ASSUME Inv, NEW s \in Calls, Send(s)
    PROVE  Inv'
<1> DEFINE row == [NoCall EXCEPT !.cart = page.ref, !.act = page.run, !.at = "start"]
<1>1. /\ page.wait = "token" /\ call[s] = NoCall /\ page.ref \in Carts
      /\ call' = [call EXCEPT ![s] = row] /\ page' = [page EXCEPT !.wait = s]
      /\ UNCHANGED <<saved, mine, drawn, cart, session, struck, clock, faults>>
  BY DEF Send, Inv, PageKnows, TypeOK
<1>2. /\ row \in CallRow /\ row.cart = page.ref /\ row.act = page.run /\ row.at = "start"
  BY <1>1 DEF Inv, TypeOK, CallRow, NoCall, Places
<1>3. /\ call' \in [Calls -> CallRow] /\ call'[s] = row
      /\ \A r \in Calls : r # s => call'[r] = call[r]
  BY <1>1, <1>2 DEF Inv, TypeOK, CallRow
<1>4. page' \in PageRow /\ page'.ref = page.ref /\ page'.run = page.run /\ page'.wait = s
  BY <1>1 DEF Inv, TypeOK, PageRow
<1>5. TypeOK'
  BY <1>1, <1>3, <1>4 DEF Inv, TypeOK, PageRow, CallRow
<1>6. /\ Underway(s)' /\ CartOf(s)' = page.ref /\ ~Asked(s)
      /\ Asked(s)' => page.run = "prepare"
      /\ call'[s].at = "start"
  BY <1>1, <1>2, <1>3 DEF Underway, Asked, At, CartOf, NoCall, Places
<1>7. \A r \in Calls : r # s =>
        Underway(r)' = Underway(r) /\ Asked(r)' = Asked(r) /\ CartOf(r)' = CartOf(r)
  BY <1>3 DEF Underway, Asked, At, CartOf
<1>8. PageKnows'
  BY <1>1, <1>4, Apart DEF Inv, PageKnows
<1>9. OnlyDrawn'
  <2>1. page.ref \in drawn
    BY <1>1, Apart DEF Inv, OnlyDrawn
  <2> QED BY <1>1, <1>4, <1>6, <1>7, <2>1 DEF Inv, OnlyDrawn
<1>10. PreparedOnce'
  <2>1. page.run = "prepare" => cart[page.ref] = "none" /\ \A r \in Calls : Asked(r) => CartOf(r) # page.ref
    BY <1>1 DEF Inv, PreparedOnce
  <2>2. page'.wait # "token"
    BY <1>4, Apart
  <2>3. ASSUME NEW r \in Calls, Asked(r)'
        PROVE  /\ cart[CartOf(r)'] = "none"
               /\ \A q \in Calls : Asked(q)' /\ CartOf(q)' = CartOf(r)' => q = r
    <3>1. CASE r = s
      BY <1>6, <1>7, <2>1, <2>3, <3>1
    <3>2. CASE r # s
      BY <1>6, <1>7, <2>1, <2>3, <3>2 DEF Inv, PreparedOnce
    <3> QED BY <3>1, <3>2
  <2> QED BY <1>1, <2>2, <2>3 DEF PreparedOnce
<1>11. OpenIsHere'
  <2>1. \A c \in Carts : Preparing(c)' => Preparing(c)
    BY <1>1, <1>4, <1>6, <1>7, Apart DEF Preparing, Asked
  <2> QED BY <1>1, <1>4, <2>1 DEF Inv, OpenIsHere, Open
<1>12. AwaitedIsOwn'
  BY <1>1, <1>4, <1>6 DEF AwaitedIsOwn
<1> QED BY <1>5, <1>8, <1>9, <1>10, <1>11, <1>12 DEF Inv

\* What hearing an answer has in common: the call ends.
LEMMA Heard ==
    ASSUME Inv, NEW s \in Calls, NEW run \in Actions, NEW answers, Hear(s, run, answers),
           page' \in PageRow, saved' \in Carts \union {None}
    PROVE  TypeOK' /\ EndCalls /\ UNCHANGED <<drawn, cart>> /\ page.ref \in Carts
<1>1. NoCall \in CallRow
  BY DEF NoCall, CallRow, Places
<1>2. call' \in [Calls -> CallRow] /\ EndCalls
  BY <1>1 DEF Hear, EndCalls, Inv, TypeOK, CallRow
<1>3. page.wait = s /\ UNCHANGED <<mine, drawn, cart, session, struck, clock, faults>>
  BY DEF Hear
<1>4. page.ref \in Carts
  BY <1>3 DEF Inv, PageKnows, TypeOK
<1> QED BY <1>2, <1>3, <1>4 DEF Inv, TypeOK, PageRow, CallRow

LEMMA HearKeeps ==
    ASSUME Inv, NEW s \in Calls,
           HearRefused(s) \/ HearReleased(s) \/ HearPrepared(s) \/ HearRead(s) \/ HearPayment(s) \/ HearFailed(s)
    PROVE  Inv'
<1>t. page \in PageRow /\ saved \in Carts \union {None}
  BY DEF Inv, TypeOK, PageRow
<1>e. Ended(page) \in PageRow /\ Ended(page).ref = page.ref /\ Ended(page).wait = None
  BY <1>t DEF Ended, PageRow
<1>f. Failed \in PageRow /\ Failed.ref = page.ref /\ Failed.wait = None
  BY <1>t, <1>e DEF Failed, PageRow, Phases
<1>g. Forget => page' \in PageRow /\ saved' \in Carts \union {None}
  BY <1>t, <1>e DEF Forget, PageRow, Phases
<1>1. CASE HearRefused(s)
  <2>1. Hear(s, "prepare", {"review_required"}) /\ Forget /\ "prepare" \in Actions
    BY <1>1 DEF HearRefused, Actions
  <2>2. TypeOK' /\ EndCalls /\ UNCHANGED <<drawn, cart>>
    BY <1>g, <2>1, Heard
  <2>3. ~Open(page.ref) /\ \A r \in Calls : Asked(r) => CartOf(r) # page.ref
    BY <2>1 DEF Hear, Inv, AwaitedIsOwn, Open
  <2> QED BY <2>1, <2>2, <2>3, ForgetKeeps
<1>2. CASE HearReleased(s)
  <2>1. PICK run \in Actions : Hear(s, run, {"released"}) /\ Forget
    BY <1>2 DEF HearReleased, Actions
  <2>2. TypeOK' /\ EndCalls /\ UNCHANGED <<drawn, cart>>
    BY <1>g, <2>1, Heard
  <2>3. ReleaseRecorded(page.ref)
    BY <2>1 DEF Hear, Inv, AwaitedIsOwn
  <2>4. ~Open(page.ref) /\ \A r \in Calls : Asked(r) => CartOf(r) # page.ref
    BY <2>3 DEF Open, ReleaseRecorded, Inv, PreparedOnce
  <2> QED BY <2>1, <2>2, <2>4, ForgetKeeps
<1>3. ASSUME NEW run \in Actions, NEW answers, Hear(s, run, answers), saved' = saved,
             page' \in PageRow, page'.ref = page.ref,
             page'.wait = None \/ (page'.wait = "token" /\ page'.run = "pay")
      PROVE  Inv'
  <2>1. TypeOK' /\ EndCalls /\ UNCHANGED <<drawn, cart>> /\ page.ref \in Carts
    BY <1>t, <1>3, Heard
  <2>2. page.ref # None
    BY <2>1, Apart
  <2> QED BY <1>3, <2>1, <2>2, StayKeeps
<1>4. CASE HearPrepared(s)
  <2>1. Hear(s, "prepare", {"ready"}) /\ "prepare" \in Actions /\ saved' = saved
    BY <1>4 DEF HearPrepared, Actions
  <2>2. /\ page' \in PageRow /\ page'.ref = page.ref
        /\ page'.wait = None \/ (page'.wait = "token" /\ page'.run = "pay")
    BY <1>t, <1>f, <1>4 DEF HearPrepared, PageRow, Phases, Actions
  <2> QED BY <1>3, <2>1, <2>2
<1>5. CASE HearRead(s)
  <2>1. Hear(s, "read", {"ready"}) /\ "read" \in Actions /\ saved' = saved
    BY <1>5 DEF HearRead, Actions
  <2>2. page' \in PageRow /\ page'.ref = page.ref /\ page'.wait = None
    BY <1>e, <1>5 DEF HearRead, PageRow, Phases
  <2> QED BY <1>3, <2>1, <2>2
<1>6. CASE HearPayment(s)
  <2>1. Hear(s, "pay", {"redirect", "complete"}) /\ "pay" \in Actions /\ saved' = saved
    BY <1>6 DEF HearPayment, Actions
  <2>2. page' \in PageRow /\ page'.ref = page.ref /\ page'.wait = None
    BY <1>e, <1>6 DEF HearPayment, PageRow, Phases
  <2> QED BY <1>3, <2>1, <2>2
<1>7. CASE HearFailed(s)
  BY <1>e, <1>f, <1>3, <1>7 DEF HearFailed
<1> QED BY <1>1, <1>2, <1>4, <1>5, <1>6, <1>7

\* The page comes back with what storage holds; an open cart is there.
LEMMA ReloadKeeps ==
    ASSUME Inv, Reload
    PROVE  Inv'
<1>1. UNCHANGED <<saved, mine, drawn, cart, session, call, struck, clock>> /\ faults' \in 0 .. MaxFaults
  BY FaultType DEF Reload, server, Inv
<1>2. page' \in PageRow /\ page'.ref = saved /\ page'.run = None /\ page'.wait = None
  BY DEF Reload, Opened, PageRow, Phases, Inv, TypeOK
<1>3. TypeOK'
  BY <1>1, <1>2 DEF Inv, TypeOK, PageRow
<1>4. \A s \in Calls : Underway(s)' = Underway(s) /\ Asked(s)' = Asked(s) /\ CartOf(s)' = CartOf(s)
  BY <1>1 DEF Underway, Asked, At, CartOf
<1>5. PageKnows' /\ AwaitedIsOwn'
  BY <1>2, Apart DEF PageKnows, AwaitedIsOwn
<1>6. OnlyDrawn'
  BY <1>1, <1>2, <1>4 DEF Inv, OnlyDrawn
<1>7. PreparedOnce'
  BY <1>1, <1>2, <1>4, Apart DEF Inv, PreparedOnce
<1>8. OpenIsHere'
  BY <1>1, <1>2, <1>4, Apart DEF Inv, OpenIsHere, Open, Preparing, Asked
<1> QED BY <1>3, <1>5, <1>6, <1>7, <1>8 DEF Inv

LEMMA PromoNext == Inv /\ [Next]_vars => Inv'
<1> SUFFICES ASSUME Inv, [Next]_vars PROVE Inv'
  OBVIOUS
<1>1. ASSUME UNCHANGED vars PROVE Inv'
  <2>1. UNCHANGED <<saved, cart, drawn, page, call>> /\ TypeOK'
    BY <1>1 DEF vars, browser, server, Inv, TypeOK
  <2> QED BY <2>1, StayKeeps DEF EndCalls
<1> QED
  BY <1>1, OutsideKeeps, ServerKeeps, DropKeeps, PageAloneKeeps, SaveKeeps, SaveFailsKeeps, SendKeeps,
     HearKeeps, ReloadKeeps DEF Next, Run

-----------------------------------------------------------------------------
\* The page, the storage and the calls agree on which cart is being bought:
\* the invariant above, in every state the tab and the server reach.
THEOREM PageAgreesWithServer == Spec => []Inv
BY PromoInit, PromoNext, PTL DEF Spec

\* Stock and a code are reserved, or about to be, only for the cart the tab's
\* storage leads back to, whatever answers are lost or late and however often
\* the page is left or loaded anew.
THEOREM OpenCartIsSaved == Spec => []OpenIsSaved
<1>1. Inv => OpenIsSaved
  BY DEF Inv, OpenIsHere, OpenIsSaved
<1> QED BY <1>1, PageAgreesWithServer, PTL
=============================================================================
