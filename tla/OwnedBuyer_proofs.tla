-------------------------- MODULE OwnedBuyer_proofs --------------------------
(* Signed-in buyers: one reservation per tab, one request to the provider per *)
(* hold, and a tab that shows nothing but its own, for every number of tabs,  *)
(* devices, accounts, keys and calls and every number of faults.              *)
EXTENDS OwnedBuyer, TLAPS

TabRow == [account : Accounts \union {None}, key : Keys \union {None},
           hold : Keys \union {None}, started : BOOLEAN, released : BOOLEAN, clear : BOOLEAN,
           stopped : BOOLEAN, redirect : Keys \union {None}, wait : Slots \union {None}]
CallRow == [act : Actions \union {None}, owner : Accounts \union {None},
            ref : Keys \union {None}, at : Places \union Answers]

Starts      == Tabs \X Accounts \X Keys
Underway(s) == call[s].at \in Places \ {"idle"}
Asked(s)    == At(s, {"prepare"}, "load")
Posting(s)  == At(s, {"start"}, "post")

-----------------------------------------------------------------------------
(* The invariant.  None of the four properties is inductive.  That a hold is  *)
(* posted once needs the one call between its insert and its post to be the   *)
(* only one (PostOnce); that a tab reserves once needs every key that may     *)
(* reserve to be in storage (ReservedIsSaved) and the page not to part from   *)
(* storage (StorageKnows); what a tab shows comes from an answer, so the call *)
(* it awaits has to be about what it shows when the answer arrives            *)
(* (AwaitedIsOwn), which rests on what calls and pages know of whose the      *)
(* holds are (CallKnows, TabKnows).                                           *)

\* A hold is somebody's before it exists, and a call is about such a key.
CallKnows ==
    /\ \A k \in Keys : hold[k] # "none" => by[k] # None
    /\ \A s \in Slots : Underway(s) =>
          /\ call[s].act # "discover" => RefOf(s) # None /\ by[RefOf(s)] # None
          /\ call[s].act = "discover" /\ RefOf(s) # None =>
                hold[RefOf(s)] # "none" /\ by[RefOf(s)][2] = call[s].owner
          /\ call[s].at = "confirm" => RefOf(s) # None /\ session[RefOf(s)] # "none"

\* The one call that is about to post won the attempt, and has not posted yet.
PostOnce ==
    /\ \A k \in Keys : posts[k] <= 1 /\ (~HasAttempt(k) => posts[k] = 0)
    /\ \A s \in Slots : Posting(s) =>
          /\ HasAttempt(RefOf(s)) /\ posts[RefOf(s)] = 0
          /\ \A r \in Slots : Posting(r) /\ RefOf(r) = RefOf(s) => r = s

OwnPage(t) ==
    LET page == tab[t] IN
    /\ page.wait # None => page.wait[1] = t /\ page.account # None
    /\ page.key # None => page.account # None /\ by[page.key] = <<t, page.account>>
    /\ page.hold # None =>
          page.account # None /\ by[page.hold] # None /\ by[page.hold][2] = page.account
    /\ page.started => page.hold # None
    /\ page.redirect # None => page.redirect = page.hold /\ session[page.hold] # "none"
    /\ page.released => page.hold # None /\ hold[page.hold] = "recovered"

TabKnows == \A t \in Tabs : OwnPage(t)

\* What storage holds, and that the page has not parted from it.
OwnKept(t, a) ==
    LET kept == saved[t][a] IN
    /\ kept.key # None => by[kept.key] = <<t, a>>
    /\ kept.hold # None => by[kept.hold] # None /\ by[kept.hold][2] = a
    /\ kept.started => kept.hold # None
    /\ tab[t].account = a =>
          /\ kept.key # None => tab[t].key = kept.key
          /\ kept.started => tab[t].started /\ tab[t].hold = kept.hold

StorageKnows == \A t \in Tabs, a \in Accounts : saved[t][a] # None => OwnKept(t, a)

\* A key that reserved, or may still, is in storage.
Reserving(k) == hold[k] # "none" \/ \E s \in Slots : Asked(s) /\ RefOf(s) = k

ReservedIsSaved ==
    \A k \in Keys, t \in Tabs, a \in Accounts :
        by[k] = <<t, a>> /\ Reserving(k) => saved[t][a] # None /\ saved[t][a].key = k

\* The call a tab waits for is about what the tab shows now.
OwnCall(s) ==
    LET page == tab[s[1]] IN
    /\ Underway(s) =>
          /\ call[s].owner = page.account
          /\ call[s].act = "prepare" => page.hold = None /\ RefOf(s) = page.key
          /\ call[s].act \in {"start", "resume", "recover"} => RefOf(s) = page.hold
    /\ call[s].at = "ready" => page.hold = None /\ page.key # None /\ RefOf(s) = page.key
    /\ call[s].at = "redirect" => RefOf(s) # None /\ RefOf(s) = page.hold /\ session[RefOf(s)] # "none"
    /\ call[s].at = "released" => RefOf(s) # None /\ RefOf(s) = page.hold /\ hold[RefOf(s)] = "recovered"
    /\ call[s].at \in {"found", "started"} =>
          RefOf(s) # None /\ by[RefOf(s)] # None /\ by[RefOf(s)][2] = page.account

AwaitedIsOwn == \A s \in Slots : WaitsFor(s) => OwnCall(s)

Inv == /\ TypeOK /\ CallKnows /\ PostOnce /\ TabKnows /\ StorageKnows
       /\ ReservedIsSaved /\ AwaitedIsOwn

LEMMA OwnedInit == Init => Inv
<1> SUFFICES ASSUME Init PROVE Inv
  OBVIOUS
<1>1. \A t \in Tabs : Opened(t, None) =
         [account |-> None, released |-> FALSE, clear |-> FALSE, stopped |-> FALSE, redirect |-> None,
          wait |-> None, key |-> None, hold |-> None, started |-> FALSE]
  BY DEF Opened
<1>2. TypeOK
  <2>1. NoCall \in CallRow
    BY DEF NoCall, CallRow, Places
  <2>2. ASSUME NEW t \in Tabs PROVE Opened(t, None) \in TabRow
    <3>1. [account |-> None, key |-> None, hold |-> None, started |-> FALSE, released |-> FALSE, clear |-> FALSE,
           stopped |-> FALSE, redirect |-> None, wait |-> None] \in TabRow
      BY DEF TabRow
    <3> QED BY <1>1, <3>1
  <2>3. 0 \in 0 .. MaxFaults
    BY Bounds
  <2> QED BY <2>1, <2>2, <2>3 DEF Init, TypeOK, CallRow, TabRow
<1>3. \A s \in Slots : ~Underway(s) /\ ~Asked(s) /\ ~Posting(s) /\ ~WaitsFor(s)
  BY <1>1, Nothing DEF Init, Underway, Asked, Posting, At, NoCall, WaitsFor
<1>4. CallKnows /\ PostOnce /\ ReservedIsSaved /\ AwaitedIsOwn
  BY <1>3 DEF Init, CallKnows, PostOnce, ReservedIsSaved, Reserving, AwaitedIsOwn
<1>5. TabKnows /\ StorageKnows
  BY <1>1 DEF Init, TabKnows, OwnPage, StorageKnows
<1> QED BY <1>2, <1>4, <1>5 DEF Inv

-----------------------------------------------------------------------------
(* Server steps.  Whatever an action on a call does, it is a move: the call   *)
(* goes on, is answered to the tab that waits for it, or is gone; the hold it *)
(* is about goes one step further, and no other does.                         *)

Further(k) ==
    /\ session[k] # "none" => session'[k] # "none"
    /\ hold[k] # "none" => hold'[k] # "none"
    /\ HasAttempt(k) => HasAttempt(k)'
    /\ hold[k] = "recovered" => hold'[k] = "recovered"

Grows(s) ==
    \A k \in Keys :
        /\ Further(k)
        /\ hold[k] = "none" /\ hold'[k] # "none" => Asked(s) /\ k = RefOf(s)
        /\ \/ posts'[k] = posts[k]
           \/ Posting(s) /\ k = RefOf(s) /\ posts'[k] = posts[k] + 1

\* Where a call may go, and with what answer.
Fits(s, place) ==
    /\ place = "post" =>
          call[s].act = "start" /\ hold[RefOf(s)] = "held" /\ hold'[RefOf(s)] = "begun"
    /\ place = "confirm"  => call[s].act # "discover" /\ session'[RefOf(s)] # "none"
    /\ place = "ready"    => call[s].act = "prepare"
    /\ place = "redirect" => call[s].act \in {"start", "resume"} /\ session'[RefOf(s)] # "none"
    /\ place = "released" => call[s].act = "recover" /\ hold'[RefOf(s)] = "recovered"
    /\ place \in {"found", "started"} => call[s].act = "discover" /\ RefOf(s) # None

GoesOn(s) ==
    /\ Underway(s)' /\ ~Asked(s)'
    /\ call'[s].act = call[s].act /\ call'[s].owner = call[s].owner
    /\ call[s].act # "discover" => RefOf(s)' = RefOf(s)
    /\ call[s].act = "discover" /\ RefOf(s)' # None =>
          hold'[RefOf(s)'] # "none" /\ by[RefOf(s)'][2] = call[s].owner
    /\ Fits(s, call'[s].at)

IsAnswered(s) ==
    /\ WaitsFor(s)
    /\ call'[s].at \in Answers /\ RefOf(s)' = RefOf(s)
    /\ Fits(s, call'[s].at)

Moves(s) ==
    /\ UNCHANGED browser /\ Underway(s)
    /\ \A r \in Slots : r # s => call'[r] = call[r]
    /\ Grows(s)
    /\ call'[s] = NoCall \/ GoesOn(s) \/ IsAnswered(s)

LEMMA CallRef ==
    ASSUME Inv, NEW s \in Slots, Underway(s)
    PROVE  /\ RefOf(s) \in Keys \union {None}
           /\ call[s].act # "discover" => RefOf(s) \in Keys
BY DEF Inv, TypeOK, CallKnows, RefOf

LEMMA MoveKeeps ==
    ASSUME Inv, TypeOK', NEW s \in Slots, Moves(s)
    PROVE  Inv'
<1>1. /\ tab' = tab /\ saved' = saved /\ by' = by /\ Underway(s)
      /\ \A r \in Slots : r # s => call'[r] = call[r]
      /\ \A k \in Keys : Further(k)
  BY DEF Moves, Grows, browser
<1>2. /\ RefOf(s) \in Keys \union {None} /\ (call[s].act # "discover" => RefOf(s) \in Keys)
      /\ \A r \in Slots : call[r].ref \in Keys \union {None} /\ call'[r].ref \in Keys \union {None}
  BY <1>1, CallRef DEF Inv, TypeOK
<1>3. Underway(s)' => GoesOn(s)
  BY DEF Moves, IsAnswered, Underway, NoCall, Places, Answers
<1>4. CallKnows'
  <2>1. \A k \in Keys : hold'[k] # "none" => by[k] # None
    BY <1>1 DEF Moves, Grows, Inv, CallKnows, Asked, At
  <2>2. ASSUME NEW r \in Slots, Underway(r)'
        PROVE  /\ call'[r].act # "discover" => RefOf(r)' # None /\ by[RefOf(r)'] # None
               /\ call'[r].act = "discover" /\ RefOf(r)' # None =>
                    hold'[RefOf(r)'] # "none" /\ by[RefOf(r)'][2] = call'[r].owner
               /\ call'[r].at = "confirm" => RefOf(r)' # None /\ session'[RefOf(r)'] # "none"
    <3>1. CASE r = s
      BY <1>1, <1>2, <1>3, Nothing, <2>2, <3>1 DEF GoesOn, Fits, Inv, CallKnows
    <3>2. CASE r # s
      <4>1. Underway(r) /\ call'[r] = call[r] /\ RefOf(r) \in Keys \union {None} /\ RefOf(r)' = RefOf(r)
        BY <1>1, <1>2, <2>2, <3>2 DEF Underway, RefOf
      <4> QED BY <1>1, <4>1 DEF Inv, CallKnows, Further
    <3> QED BY <3>1, <3>2
  <2> QED BY <1>1, <2>1, <2>2 DEF CallKnows
<1>5. PostOnce'
  <2>1. Posting(s)' => /\ call[s].act = "start" /\ RefOf(s) \in Keys /\ RefOf(s)' = RefOf(s)
                       /\ hold[RefOf(s)] = "held" /\ hold'[RefOf(s)] = "begun"
    BY <1>2, <1>3 DEF GoesOn, Fits, Posting, At, Underway, Places
  <2>2. \A k \in Keys : HasAttempt(k) => HasAttempt(k)'
    BY <1>1 DEF Further
  <2>3. Posting(s) => RefOf(s) \in Keys /\ HasAttempt(RefOf(s)) /\ posts[RefOf(s)] = 0
    BY <1>1, <1>2 DEF Inv, PostOnce, Posting, At
  <2>4. ASSUME NEW k \in Keys PROVE posts'[k] <= 1 /\ (~HasAttempt(k)' => posts'[k] = 0)
    BY <2>2, <2>3 DEF Moves, Grows, Inv, PostOnce, TypeOK
  <2>5. ASSUME NEW r \in Slots, Posting(r)'
        PROVE  /\ HasAttempt(RefOf(r))' /\ posts'[RefOf(r)'] = 0
               /\ \A q \in Slots : Posting(q)' /\ RefOf(q)' = RefOf(r)' => q = r
    <3>0. \A q \in Slots : q # s => Posting(q)' = Posting(q) /\ RefOf(q)' = RefOf(q)
      BY <1>1 DEF Posting, At, RefOf
    <3>1. CASE r = s
      <4>1. ~Posting(s) /\ ~HasAttempt(RefOf(s)) /\ HasAttempt(RefOf(s))'
        BY <2>1, <2>3, <2>5, <3>1 DEF HasAttempt, RefOf
      <4>2. posts'[RefOf(s)] = 0
        BY <2>1, <2>5, <3>1, <4>1 DEF Moves, Grows, Inv, PostOnce
      <4> QED BY <2>1, <2>5, <3>0, <3>1, <4>1, <4>2 DEF Inv, PostOnce
    <3>2. CASE r # s
      <4>1. Posting(r) /\ RefOf(r)' = RefOf(r) /\ RefOf(r) \in Keys
        BY <2>5, <3>0, <3>2, CallRef DEF Posting, At, Underway, Places
      <4>2. /\ HasAttempt(RefOf(r)) /\ posts[RefOf(r)] = 0
            /\ \A q \in Slots : Posting(q) /\ RefOf(q) = RefOf(r) => q = r
        BY <4>1 DEF Inv, PostOnce
      <4>3. posts'[RefOf(r)] = 0
        BY <3>2, <4>1, <4>2 DEF Moves, Grows
      <4>4. HasAttempt(RefOf(r))'
        BY <2>2, <4>1, <4>2 DEF HasAttempt
      <4>5. Posting(s)' => RefOf(s)' # RefOf(r)
        BY <2>1, <4>2 DEF HasAttempt
      <4> QED BY <3>0, <4>1, <4>2, <4>3, <4>4, <4>5
    <3> QED BY <3>1, <3>2
  <2> QED BY <2>4, <2>5 DEF PostOnce
<1>6. TabKnows'
  <2> SUFFICES ASSUME NEW t \in Tabs PROVE OwnPage(t)'
    BY DEF TabKnows
  <2>1. OwnPage(t) /\ tab[t].hold \in Keys \union {None}
    BY DEF Inv, TypeOK, TabKnows
  <2> QED BY <1>1, <2>1, Nothing DEF OwnPage, Further, Inv, TypeOK
<1>7. StorageKnows'
  BY <1>1 DEF Inv, StorageKnows, OwnKept
<1>8. ReservedIsSaved'
  <2>1. \A r \in Slots : Asked(r)' => Asked(r) /\ r # s /\ RefOf(r)' = RefOf(r)
    BY <1>1, <1>3 DEF GoesOn, Asked, At, Underway, Places, RefOf
  <2>2. \A k \in Keys : Reserving(k)' => Reserving(k)
    BY <2>1 DEF Moves, Grows, Reserving
  <2> QED BY <1>1, <2>2 DEF Inv, ReservedIsSaved
<1>9. AwaitedIsOwn'
  <2> SUFFICES ASSUME NEW r \in Slots, WaitsFor(r) PROVE OwnCall(r)'
    BY <1>1 DEF AwaitedIsOwn, WaitsFor
  <2>0. r[1] \in Tabs /\ OwnCall(r) /\ RefOf(r) \in Keys \union {None} /\ tab[r[1]].hold \in Keys \union {None}
        /\ tab[r[1]].key \in Keys \union {None} /\ OwnPage(r[1])
    BY <1>2 DEF WaitsFor, Inv, AwaitedIsOwn, TypeOK, RefOf, TabKnows
  <2>1. CASE r # s
    BY <1>1, <2>0, <2>1, Nothing DEF OwnCall, Underway, RefOf, Further
  <2>2. CASE r = s /\ call'[s] = NoCall
    BY <2>2 DEF OwnCall, NoCall, Underway, Places
  <2>3. CASE r = s /\ GoesOn(s)
    <3>1. call'[s].at \notin {"ready", "redirect", "released", "found", "started"}
      BY <2>3 DEF GoesOn, Underway, Places
    <3> QED BY <1>1, <2>0, <2>3, <3>1 DEF GoesOn, OwnCall
  <2>4. CASE r = s /\ IsAnswered(s)
    <3>1. ~Underway(s)'
      BY <2>4 DEF IsAnswered, Underway, Places, Answers
    <3>2. /\ Fits(s, call'[s].at) /\ RefOf(s)' = RefOf(s)
          /\ call[s].act \in {"prepare", "start", "resume", "recover"} => RefOf(s) \in Keys
          /\ call[s].act = "discover" /\ RefOf(s) # None =>
               RefOf(s) \in Keys /\ by[RefOf(s)] # None /\ by[RefOf(s)][2] = call[s].owner
      BY <1>1, <1>2, <2>0, <2>4 DEF IsAnswered, Inv, CallKnows
    <3>3. /\ call[s].owner = tab[s[1]].account
          /\ call[s].act = "prepare" => tab[s[1]].hold = None /\ RefOf(s) = tab[s[1]].key
          /\ call[s].act \in {"start", "resume", "recover"} => RefOf(s) = tab[s[1]].hold
      BY <1>1, <2>0, <2>4 DEF OwnCall
    <3>4. call'[s].at = "ready" => tab[s[1]].hold = None /\ tab[s[1]].key # None /\ RefOf(s) = tab[s[1]].key
      BY <3>2, <3>3, Nothing DEF Fits
    <3>5. call'[s].at = "redirect" => RefOf(s) # None /\ RefOf(s) = tab[s[1]].hold /\ session'[RefOf(s)] # "none"
      BY <3>2, <3>3, Nothing DEF Fits
    <3>6. call'[s].at = "released" => RefOf(s) # None /\ RefOf(s) = tab[s[1]].hold /\ hold'[RefOf(s)] = "recovered"
      BY <3>2, <3>3, Nothing DEF Fits
    <3>7. call'[s].at \in {"found", "started"} =>
             RefOf(s) # None /\ by[RefOf(s)] # None /\ by[RefOf(s)][2] = tab[s[1]].account
      BY <3>2, <3>3 DEF Fits
    <3> QED BY <1>1, <2>4, <3>1, <3>2, <3>4, <3>5, <3>6, <3>7 DEF OwnCall
  <2> QED BY <2>1, <2>2, <2>3, <2>4 DEF Moves
<1> QED BY <1>4, <1>5, <1>6, <1>7, <1>8, <1>9 DEF Inv

-----------------------------------------------------------------------------
(* Every action of the server is such a move.                                 *)

HoldStates    == {"none", "held", "orphaned", "begun", "paid", "abandoned", "recovered"}
SessionStates == {"none", "open", "paid", "expired"}
Onward         == (Places \ {"idle", "load", "holds"}) \union Answers

LEMMA Gone ==
    ASSUME TypeOK, NEW s \in Slots, NEW place \in Onward, GoTo(s, place)
    PROVE  /\ call' \in [Slots -> CallRow]
           /\ \A r \in Slots : r # s => call'[r] = call[r]
           /\ \/ /\ place \notin Answers /\ Underway(s)' /\ ~Asked(s)' /\ call'[s].at = place
                 /\ call'[s].act = call[s].act /\ call'[s].owner = call[s].owner /\ RefOf(s)' = RefOf(s)
              \/ call'[s] = NoCall
              \/ WaitsFor(s) /\ place \in Answers /\ call'[s].at = place /\ RefOf(s)' = RefOf(s)
<1>1. call \in [Slots -> CallRow] /\ call[s] \in CallRow
  BY DEF TypeOK, CallRow
<1> DEFINE moved    == [call[s] EXCEPT !.at = place]
           answered == [NoCall EXCEPT !.at = place, !.ref = call[s].ref]
<1>2. NoCall \in CallRow
  BY DEF NoCall, CallRow, Places
<1>3. /\ moved \in CallRow /\ moved.at = place /\ moved.act = call[s].act
      /\ moved.owner = call[s].owner /\ moved.ref = call[s].ref
  BY <1>1 DEF CallRow, Onward
<1>4. answered \in CallRow /\ answered.at = place /\ answered.ref = call[s].ref
  BY <1>1, <1>2 DEF CallRow, Onward, NoCall
<1>5. PICK row \in CallRow :
        /\ call' = [call EXCEPT ![s] = row]
        /\ \/ place \notin Answers /\ row = moved
           \/ row = NoCall
           \/ place \in Answers /\ WaitsFor(s) /\ row = answered
  <2> DEFINE row == CASE place \notin Answers -> moved
                      [] ~WaitsFor(s)         -> NoCall
                      [] OTHER -> answered
  <2>1. call' = [call EXCEPT ![s] = row]
    BY DEF GoTo
  <2>2. row \in CallRow /\ \/ place \notin Answers /\ row = moved
                           \/ row = NoCall
                           \/ place \in Answers /\ WaitsFor(s) /\ row = answered
    BY <1>2, <1>3, <1>4
  <2> HIDE DEF row
  <2> QED BY <2>1, <2>2
<1>6. /\ call' \in [Slots -> CallRow] /\ call'[s] = row
      /\ \A r \in Slots : r # s => call'[r] = call[r]
  BY <1>1, <1>5
<1> QED BY <1>3, <1>4, <1>5, <1>6 DEF Underway, Asked, At, RefOf, Onward

LEMMA GoMoves ==
    ASSUME Inv, NEW s \in Slots, Underway(s), NEW place \in Onward, GoTo(s, place),
           UNCHANGED <<browser, clock>>, hold' \in [Keys -> HoldStates], session' \in [Keys -> SessionStates],
           posts' \in [Keys -> Nat], faults' \in 0 .. MaxFaults,
           Grows(s), Fits(s, place)
    PROVE  TypeOK' /\ Moves(s)
<1>1. /\ call' \in [Slots -> CallRow]
      /\ \A r \in Slots : r # s => call'[r] = call[r]
      /\ \/ /\ place \notin Answers /\ Underway(s)' /\ ~Asked(s)' /\ call'[s].at = place
            /\ call'[s].act = call[s].act /\ call'[s].owner = call[s].owner /\ RefOf(s)' = RefOf(s)
         \/ call'[s] = NoCall
         \/ WaitsFor(s) /\ place \in Answers /\ call'[s].at = place /\ RefOf(s)' = RefOf(s)
  BY Gone DEF Inv
<1>2. TypeOK'
  BY <1>1 DEF Inv, TypeOK, CallRow, browser, HoldStates, SessionStates
<1>3. call[s].act = "discover" /\ RefOf(s) # None =>
        hold'[RefOf(s)] # "none" /\ by[RefOf(s)][2] = call[s].owner
  BY CallRef DEF Grows, Further, Inv, CallKnows
<1>4. Moves(s)
  <2>1. CASE call'[s] = NoCall
    BY <1>1, <2>1 DEF Moves
  <2>2. CASE /\ place \notin Answers /\ Underway(s)' /\ ~Asked(s)' /\ call'[s].at = place
             /\ call'[s].act = call[s].act /\ call'[s].owner = call[s].owner /\ RefOf(s)' = RefOf(s)
    BY <1>1, <1>3, <2>2 DEF Moves, GoesOn
  <2>3. CASE WaitsFor(s) /\ place \in Answers /\ call'[s].at = place /\ RefOf(s)' = RefOf(s)
    BY <1>1, <2>3 DEF Moves, IsAnswered
  <2> QED BY <1>1, <2>1, <2>2, <2>3
<1> QED BY <1>2, <1>4

LEMMA FaultType == TypeOK /\ (Fault \/ NoFault) => faults' \in 0 .. MaxFaults
BY Bounds DEF TypeOK, Fault, NoFault

\* A move that leaves the hold, the session and the posts alone.
LEMMA PlainMoves ==
    ASSUME Inv, NEW s \in Slots, Underway(s), NEW place \in Onward, GoTo(s, place),
           UNCHANGED <<browser, clock, hold, session, posts>>, faults' \in 0 .. MaxFaults,
           place # "post", Fits(s, place)
    PROVE  TypeOK' /\ Moves(s)
<1>1. Grows(s)
  BY DEF Grows, Further, HasAttempt
<1>2. hold' \in [Keys -> HoldStates] /\ session' \in [Keys -> SessionStates] /\ posts' \in [Keys -> Nat]
  BY DEF Inv, TypeOK, HoldStates, SessionStates
<1> QED BY <1>1, <1>2, GoMoves

\* A move that takes the hold of the call one step further.
LEMMA HoldMoves ==
    ASSUME Inv, NEW s \in Slots, Underway(s), NEW place \in Onward, GoTo(s, place),
           UNCHANGED <<browser, clock, session, posts, faults>>, RefOf(s) \in Keys,
           NEW state \in HoldStates, hold' = [hold EXCEPT ![RefOf(s)] = state],
           \/ Asked(s) /\ hold[RefOf(s)] = "none" /\ state = "held"
           \/ hold[RefOf(s)] = "held" /\ state = "begun"
           \/ hold[RefOf(s)] = "begun" /\ state = "recovered",
           Fits(s, place)
    PROVE  TypeOK' /\ Moves(s)
<1>1. Grows(s)
  BY DEF Grows, Further, HasAttempt, Inv, TypeOK
<1>2. /\ hold' \in [Keys -> HoldStates] /\ session' \in [Keys -> SessionStates]
      /\ posts' \in [Keys -> Nat] /\ faults' \in 0 .. MaxFaults
  BY DEF Inv, TypeOK, HoldStates, SessionStates
<1> QED BY <1>1, <1>2, GoMoves

LEMMA PrepareOwnedMoves ==
    ASSUME Inv, NEW s \in Slots, PrepareOwned(s)
    PROVE  TypeOK' /\ Moves(s)
<1>1. /\ Underway(s) /\ call[s].act = "prepare" /\ Asked(s) /\ RefOf(s) \in Keys
      /\ UNCHANGED <<browser, session, posts, clock, faults>> /\ faults' \in 0 .. MaxFaults
  BY CallRef DEF PrepareOwned, At, Asked, Underway, Places, Inv, TypeOK
<1>2. ASSUME NEW place \in {"ready", "failed"}, GoTo(s, place)
      PROVE  place \in Onward /\ Fits(s, place) /\ place # "post"
  BY <1>1 DEF Onward, Answers, Fits
<1>3. CASE GoTo(s, "ready") /\ hold[RefOf(s)] = "none" /\ hold' = [hold EXCEPT ![RefOf(s)] = "held"]
  <2>1. "held" \in HoldStates
    BY DEF HoldStates
  <2> QED BY <1>1, <1>2, <1>3, <2>1, HoldMoves
<1>4. ASSUME NEW place \in {"ready", "failed"}, GoTo(s, place), UNCHANGED hold
      PROVE  TypeOK' /\ Moves(s)
  BY <1>1, <1>2, <1>4, PlainMoves
<1> QED BY <1>3, <1>4 DEF PrepareOwned

LEMMA StartMoves ==
    ASSUME Inv, NEW s \in Slots, LoadHold(s) \/ InsertAttempt(s) \/ CreateSession(s)
    PROVE  TypeOK' /\ Moves(s)
<1>1. /\ Underway(s) /\ call[s].act \in {"start", "resume"} /\ RefOf(s) \in Keys
      /\ UNCHANGED <<browser, clock>> /\ faults' \in 0 .. MaxFaults
  BY CallRef, FaultType DEF LoadHold, InsertAttempt, CreateSession, At, Underway, Places, Inv, TypeOK
<1>2. ASSUME NEW place \in {"look", "failed", "insert"}
      PROVE  place \in Onward /\ Fits(s, place) /\ place # "post"
  BY DEF Onward, Answers, Places, Fits
<1>3. ASSUME NEW place \in {"look", "failed", "insert"}, GoTo(s, place), UNCHANGED <<hold, session, posts>>
      PROVE  TypeOK' /\ Moves(s)
  BY <1>1, <1>2, <1>3, PlainMoves
<1>4. CASE LoadHold(s)
  BY <1>3, <1>4 DEF LoadHold, server
<1>5. CASE InsertAttempt(s)
  <2>1. CASE hold[RefOf(s)] = "held" /\ clock[RefOf(s)] = 0
    <3>1. hold' = [hold EXCEPT ![RefOf(s)] = "begun"] /\ GoTo(s, "post") /\ call[s].act = "start"
          /\ UNCHANGED <<session, posts, faults>>
      BY <1>5, <2>1 DEF InsertAttempt, At
    <3>2. /\ "post" \in Onward /\ "begun" \in HoldStates
          /\ hold'[RefOf(s)] = "begun"
      BY <1>1, <3>1 DEF Onward, Places, Answers, HoldStates, Inv, TypeOK
    <3>3. Fits(s, "post")
      BY <2>1, <3>1, <3>2 DEF Fits
    <3> QED BY <1>1, <2>1, <3>1, <3>2, <3>3, HoldMoves
  <2>2. CASE ~(hold[RefOf(s)] = "held" /\ clock[RefOf(s)] = 0)
    BY <1>3, <1>5, <2>2 DEF InsertAttempt
  <2> QED BY <2>1, <2>2
<1>6. CASE CreateSession(s)
  <2>1. Posting(s) /\ UNCHANGED hold
    BY <1>6 DEF CreateSession, Posting
  <2>2. ASSUME NEW place \in {"redirect", "failed"}, GoTo(s, place),
               session' = [session EXCEPT ![RefOf(s)] = "open"],
               posts' = [posts EXCEPT ![RefOf(s)] = @ + 1]
        PROVE  TypeOK' /\ Moves(s)
    <3>1. /\ session' \in [Keys -> SessionStates] /\ posts' \in [Keys -> Nat]
          /\ hold' \in [Keys -> HoldStates] /\ session'[RefOf(s)] = "open"
      BY <1>1, <2>1, <2>2 DEF Inv, TypeOK, HoldStates, SessionStates
    <3>2. Grows(s)
      BY <1>1, <2>1, <2>2 DEF Grows, Further, HasAttempt, Inv, TypeOK
    <3>3. place \in Onward /\ Fits(s, place)
      BY <1>1, <3>1 DEF Onward, Answers, Fits
    <3> QED BY <1>1, <2>2, <3>1, <3>2, <3>3, GoMoves
  <2>3. CASE GoTo(s, "failed") /\ UNCHANGED <<session, posts>>
    BY <1>3, <2>1, <2>3
  <2> QED BY <1>6, <2>2, <2>3 DEF CreateSession
<1> QED BY <1>4, <1>5, <1>6

LEMMA ResumeMoves ==
    ASSUME Inv, NEW s \in Slots, LookupSession(s) \/ ConfirmRedirect(s) \/ LoadExpired(s)
    PROVE  TypeOK' /\ Moves(s)
<1>1. /\ Underway(s) /\ RefOf(s) \in Keys
      /\ UNCHANGED <<browser, clock, hold, session, posts, faults>> /\ faults' \in 0 .. MaxFaults
  BY CallRef DEF LookupSession, ConfirmRedirect, LoadExpired, At, Underway, Places, server, Inv, TypeOK
<1>2. ASSUME NEW place \in {"confirm", "redirect", "released", "release", "failed"}, GoTo(s, place), Fits(s, place)
      PROVE  TypeOK' /\ Moves(s)
  <2>1. place \in Onward /\ place # "post"
    BY DEF Onward, Answers, Places
  <2> QED BY <1>1, <1>2, <2>1, PlainMoves
<1>3. CASE LookupSession(s)
  <2> DEFINE place == IF Observed(RefOf(s)) = "open" THEN "confirm" ELSE "failed"
  <2>1. GoTo(s, place) /\ call[s].act = "resume"
    BY <1>3 DEF LookupSession, At
  <2>2. Observed(RefOf(s)) = "open" => session[RefOf(s)] = "open"
    BY DEF Observed
  <2>3. Fits(s, place)
    BY <1>1, <2>1, <2>2 DEF Fits
  <2> QED BY <1>2, <2>1, <2>3
<1>4. CASE ConfirmRedirect(s)
  <2>1. \E place \in {"redirect", "failed"} : GoTo(s, place)
    BY <1>4 DEF ConfirmRedirect
  <2>2. call[s].act = "resume" /\ session[RefOf(s)] # "none"
    BY <1>1, <1>4 DEF ConfirmRedirect, At, Inv, CallKnows
  <2>3. \A place \in {"redirect", "failed"} : Fits(s, place)
    BY <1>1, <2>2 DEF Fits
  <2> QED BY <1>2, <2>1, <2>3
<1>5. CASE LoadExpired(s)
  <2> DEFINE k == RefOf(s)
             place == CASE hold[k] = "recovered" -> "released"
                        [] hold[k] = "begun" /\ Observed(k) = "expired_unpaid_candidate" -> "release"
                        [] OTHER -> "failed"
  <2>1. GoTo(s, place) /\ call[s].act = "recover"
    BY <1>5 DEF LoadExpired, At
  <2>2. place \in {"released", "release", "failed"} /\ (place = "released" => hold[k] = "recovered")
    OBVIOUS
  <2> HIDE DEF place
  <2>3. Fits(s, place)
    BY <1>1, <2>1, <2>2 DEF Fits
  <2> QED BY <1>2, <2>1, <2>2, <2>3
<1> QED BY <1>3, <1>4, <1>5

LEMMA ReleaseOwnedMoves ==
    ASSUME Inv, NEW s \in Slots, ReleaseOwnedExpired(s)
    PROVE  TypeOK' /\ Moves(s)
<1>1. /\ Underway(s) /\ RefOf(s) \in Keys /\ call[s].act = "recover"
      /\ UNCHANGED <<browser, clock, session, posts, faults>> /\ faults' \in 0 .. MaxFaults
  BY CallRef DEF ReleaseOwnedExpired, At, Underway, Places, Inv, TypeOK
<1>2. PICK place \in {"released", "failed"} :
        GoTo(s, place) /\ (place = "released" => hold'[RefOf(s)] = "recovered")
  BY DEF ReleaseOwnedExpired
<1>3. place \in Onward /\ place # "post" /\ Fits(s, place)
  BY <1>1, <1>2 DEF Onward, Answers, Fits
<1>4. CASE hold[RefOf(s)] = "begun"
  <2>1. hold' = [hold EXCEPT ![RefOf(s)] = "recovered"] /\ "recovered" \in HoldStates
    BY <1>4 DEF ReleaseOwnedExpired, HoldStates
  <2> QED BY <1>1, <1>2, <1>3, <1>4, <2>1, HoldMoves
<1>5. CASE hold[RefOf(s)] # "begun"
  <2>1. hold' = hold
    BY <1>5 DEF ReleaseOwnedExpired, Inv, TypeOK
  <2> QED BY <1>1, <1>2, <1>3, <2>1, PlainMoves
<1> QED BY <1>4, <1>5

LEMMA DiscoverMoves ==
    ASSUME Inv, NEW s \in Slots, DiscoverHolds(s) \/ DiscoverAttempts(s)
    PROVE  TypeOK' /\ Moves(s)
<1>1. /\ Underway(s) /\ RefOf(s) \in Keys \union {None} /\ call[s].act = "discover"
      /\ UNCHANGED <<browser, clock, hold, session, posts, faults>> /\ faults' \in 0 .. MaxFaults
  BY CallRef DEF DiscoverHolds, DiscoverAttempts, At, Underway, Places, server, Inv, TypeOK
<1>2. ASSUME NEW place \in {"linked", "failed", "none", "found", "started"}, GoTo(s, place),
             place \in {"found", "started"} => RefOf(s) # None
      PROVE  TypeOK' /\ Moves(s)
  <2>1. place \in Onward /\ place # "post" /\ Fits(s, place)
    BY <1>1, <1>2 DEF Onward, Answers, Places, Fits
  <2> QED BY <1>1, <1>2, <2>1, PlainMoves
<1>3. CASE DiscoverHolds(s)
  <2>1. ASSUME NEW k \in Keys, OwnedBy(call[s].owner) = {k},
               call' = [call EXCEPT ![s].ref = k, ![s].at = "linked"]
        PROVE  TypeOK' /\ Moves(s)
    <3>1. hold[k] # "none" /\ by[k][2] = call[s].owner
      BY <2>1 DEF OwnedBy
    <3>2. /\ call' \in [Slots -> CallRow] /\ call'[s].at = "linked" /\ call'[s].ref = k
          /\ call'[s].act = call[s].act /\ call'[s].owner = call[s].owner
          /\ \A r \in Slots : r # s => call'[r] = call[r]
      BY <2>1 DEF Inv, TypeOK, CallRow, Places
    <3>3. TypeOK'
      BY <1>1, <3>2 DEF Inv, TypeOK, CallRow, browser
    <3>4. GoesOn(s)
      BY <1>1, <3>1, <3>2 DEF GoesOn, Fits, Underway, Asked, At, Places, RefOf
    <3>5. Grows(s)
      BY <1>1 DEF Grows, Further, HasAttempt
    <3> QED BY <1>1, <3>2, <3>3, <3>4, <3>5 DEF Moves
  <2> QED BY <1>2, <1>3, <2>1 DEF DiscoverHolds
<1>4. CASE DiscoverAttempts(s)
  <2>1. \/ GoTo(s, "none") \/ GoTo(s, "failed")
        \/ RefOf(s) # None /\ (GoTo(s, "found") \/ GoTo(s, "started"))
    BY <1>4 DEF DiscoverAttempts
  <2> QED BY <1>2, <2>1
<1> QED BY <1>3, <1>4

LEMMA LoseCallMoves ==
    ASSUME Inv, NEW s \in Slots, LoseCall(s)
    PROVE  TypeOK' /\ Moves(s)
<1>1. /\ Underway(s) /\ GoTo(s, "failed") /\ UNCHANGED <<browser, clock, hold, session, posts>>
      /\ faults' \in 0 .. MaxFaults
  BY FaultType DEF LoseCall, Underway, server, Inv
<1>2. "failed" \in Onward /\ Fits(s, "failed")
  BY DEF Onward, Answers, Fits
<1> QED BY <1>1, <1>2, PlainMoves

LEMMA ServerKeeps ==
    ASSUME Inv, NEW s \in Slots, Serve(s) \/ LoseCall(s)
    PROVE  Inv'
<1>1. TypeOK' /\ Moves(s)
  BY PrepareOwnedMoves, StartMoves, ResumeMoves, ReleaseOwnedMoves, DiscoverMoves, LoseCallMoves DEF Serve
<1> QED BY <1>1, MoveKeeps

-----------------------------------------------------------------------------
(* Steps that begin no call.                                                  *)

EndCalls == \A r \in Slots : call'[r] \in {call[r], NoCall}

LEMMA FewerCalls ==
    ASSUME EndCalls, NEW r \in Slots
    PROVE  /\ Underway(r)' => Underway(r) /\ call'[r] = call[r] /\ RefOf(r)' = RefOf(r)
           /\ Asked(r)' => Asked(r) /\ Underway(r) /\ RefOf(r)' = RefOf(r)
           /\ Posting(r)' => Posting(r) /\ Underway(r) /\ RefOf(r)' = RefOf(r)
           /\ call'[r].at \in Answers => call'[r] = call[r] /\ RefOf(r)' = RefOf(r)
BY DEF EndCalls, NoCall, Underway, Asked, Posting, At, RefOf, Places, Answers

\* What follows about the calls, if the holds only go further.
LEMMA CallsKept ==
    ASSUME Inv, EndCalls, UNCHANGED posts, \A k \in Keys : by[k] # None => by'[k] = by[k],
           \A k \in Keys : Further(k) /\ (hold'[k] # "none" => hold[k] # "none")
    PROVE  CallKnows' /\ PostOnce'
<1>1. CallKnows'
  <2>1. \A k \in Keys : hold'[k] # "none" => by'[k] # None
    BY DEF Inv, CallKnows
  <2>2. ASSUME NEW r \in Slots, Underway(r)'
        PROVE  /\ call'[r].act # "discover" => RefOf(r)' # None /\ by'[RefOf(r)'] # None
               /\ call'[r].act = "discover" /\ RefOf(r)' # None =>
                    hold'[RefOf(r)'] # "none" /\ by'[RefOf(r)'][2] = call'[r].owner
               /\ call'[r].at = "confirm" => RefOf(r)' # None /\ session'[RefOf(r)'] # "none"
    <3>1. Underway(r) /\ call'[r] = call[r] /\ RefOf(r)' = RefOf(r) /\ RefOf(r) \in Keys \union {None}
      BY <2>2, FewerCalls, CallRef
    <3>2. /\ call[r].act # "discover" => RefOf(r) # None /\ by[RefOf(r)] # None
          /\ call[r].act = "discover" /\ RefOf(r) # None =>
                hold[RefOf(r)] # "none" /\ by[RefOf(r)][2] = call[r].owner /\ by[RefOf(r)] # None
          /\ call[r].at = "confirm" => RefOf(r) # None /\ session[RefOf(r)] # "none"
      BY <3>1 DEF Inv, CallKnows
    <3> QED BY <3>1, <3>2 DEF Further
  <2> QED BY <2>1, <2>2 DEF CallKnows
<1>2. PostOnce'
  <2>1. \A k \in Keys : posts'[k] <= 1 /\ (~HasAttempt(k)' => posts'[k] = 0)
    BY DEF Inv, PostOnce, Further
  <2>2. ASSUME NEW r \in Slots, Posting(r)'
        PROVE  /\ HasAttempt(RefOf(r))' /\ posts'[RefOf(r)'] = 0
               /\ \A q \in Slots : Posting(q)' /\ RefOf(q)' = RefOf(r)' => q = r
    <3>1. Posting(r) /\ RefOf(r)' = RefOf(r) /\ RefOf(r) \in Keys
      BY <2>2, FewerCalls, CallRef DEF Posting, At
    <3>2. HasAttempt(RefOf(r)) /\ posts[RefOf(r)] = 0
          /\ \A q \in Slots : Posting(q) /\ RefOf(q) = RefOf(r) => q = r
      BY <3>1 DEF Inv, PostOnce
    <3>3. HasAttempt(RefOf(r))'
      BY <3>1, <3>2 DEF Further, HasAttempt
    <3> QED BY <3>1, <3>2, <3>3, FewerCalls
  <2> QED BY <2>1, <2>2 DEF PostOnce
<1> QED BY <1>1, <1>2

\* The pages stay as they are, or stop waiting or offering.
LEMMA CalmKeeps ==
    ASSUME Inv, TypeOK', EndCalls, UNCHANGED <<saved, by, posts>>,
           \A k \in Keys : Further(k) /\ (hold'[k] # "none" => hold[k] # "none"),
           \A t \in Tabs : /\ tab'[t].account = tab[t].account /\ tab'[t].key = tab[t].key
                           /\ tab'[t].hold = tab[t].hold /\ tab'[t].started = tab[t].started
                           /\ tab'[t].released = tab[t].released
                           /\ tab'[t].wait \in {tab[t].wait, None}
                           /\ tab'[t].redirect \in {tab[t].redirect, None}
    PROVE  Inv'
<1>1. CallKnows' /\ PostOnce'
  BY CallsKept
<1>2. TabKnows'
  <2> SUFFICES ASSUME NEW t \in Tabs PROVE OwnPage(t)'
    BY DEF TabKnows
  <2>1. OwnPage(t) /\ tab[t].hold \in Keys \union {None}
    BY DEF Inv, TypeOK, TabKnows
  <2> QED BY <2>1 DEF OwnPage, Further
<1>3. StorageKnows'
  BY DEF Inv, StorageKnows, OwnKept
<1>4. ReservedIsSaved'
  <2>1. \A k \in Keys : Reserving(k)' => Reserving(k)
    BY FewerCalls DEF Reserving
  <2> QED BY <2>1 DEF Inv, ReservedIsSaved
<1>5. AwaitedIsOwn'
  <2> SUFFICES ASSUME NEW r \in Slots, WaitsFor(r)' PROVE OwnCall(r)'
    BY DEF AwaitedIsOwn
  <2>1. r[1] \in Tabs /\ WaitsFor(r)
    BY Nothing DEF WaitsFor
  <2>2. OwnCall(r) /\ RefOf(r) \in Keys \union {None}
    BY <2>1 DEF Inv, AwaitedIsOwn, TypeOK, RefOf
  <2>3. {"ready", "redirect", "released", "found", "started"} \subseteq Answers
    BY DEF Answers
  <2> QED BY <2>1, <2>2, <2>3, FewerCalls DEF OwnCall, Further
<1> QED BY <1>1, <1>2, <1>3, <1>4, <1>5 DEF Inv

LEMMA OutsideKeeps ==
    ASSUME Inv, NEW k \in Keys, Tick(k) \/ ProviderIsPaid(k) \/ ProviderExpires(k) \/ CloseHold(k)
    PROVE  Inv'
<1>1. /\ UNCHANGED <<saved, by, starts, posts, call, faults>> /\ EndCalls
  BY DEF Tick, ProviderIsPaid, ProviderExpires, CloseHold, browser, server, EndCalls
<1>2. /\ hold' \in [Keys -> HoldStates] /\ session' \in [Keys -> SessionStates] /\ clock' \in [Keys -> 0 .. 2]
      /\ \A l \in Keys : Further(l) /\ (hold'[l] # "none" => hold[l] # "none")
  <2>1. CASE Tick(k)
    BY <2>1 DEF Tick, server, Further, HasAttempt, Inv, TypeOK, HoldStates, SessionStates
  <2>2. CASE ProviderIsPaid(k) \/ ProviderExpires(k)
    BY <2>2 DEF ProviderIsPaid, ProviderExpires, Further, HasAttempt, Inv, TypeOK, HoldStates, SessionStates
  <2>3. CASE CloseHold(k)
    <3>1. PICK closed \in {"paid", "abandoned", "orphaned"} :
            /\ hold' = [hold EXCEPT ![k] = closed]
            /\ hold[k] = IF closed = "orphaned" THEN "held" ELSE "begun"
      BY <2>3 DEF CloseHold
    <3>2. UNCHANGED <<session, clock>>
      BY <2>3 DEF CloseHold
    <3> QED BY <3>1, <3>2 DEF Further, HasAttempt, Inv, TypeOK, HoldStates, SessionStates
  <2> QED BY <2>1, <2>2, <2>3
<1>3. /\ tab' \in [Tabs -> TabRow]
      /\ \A t \in Tabs : /\ tab'[t].account = tab[t].account /\ tab'[t].key = tab[t].key
                         /\ tab'[t].hold = tab[t].hold /\ tab'[t].started = tab[t].started
                         /\ tab'[t].released = tab[t].released
                         /\ tab'[t].wait \in {tab[t].wait, None}
                         /\ tab'[t].redirect \in {tab[t].redirect, None}
  <2>0. tab \in [Tabs -> TabRow]
    BY DEF Inv, TypeOK, TabRow
  <2>1. CASE tab' = tab
    BY <2>0, <2>1
  <2>2. CASE tab' = [t \in Tabs |-> Refreshed(tab[t], k)]
    <3> SUFFICES ASSUME NEW t \in Tabs
                 PROVE  LET page == Refreshed(tab[t], k) IN
                        /\ page \in TabRow
                        /\ page.account = tab[t].account /\ page.key = tab[t].key
                        /\ page.hold = tab[t].hold /\ page.started = tab[t].started
                        /\ page.released = tab[t].released
                        /\ page.wait \in {tab[t].wait, None}
                        /\ page.redirect \in {tab[t].redirect, None}
      BY <2>2
    <3>1. tab[t] \in TabRow
      BY <2>0
    <3> QED BY <3>1 DEF Refreshed, TabRow
  <2> QED BY <2>1, <2>2 DEF Tick, ProviderIsPaid, ProviderExpires, CloseHold, browser
<1>4. TypeOK'
  BY <1>1, <1>2, <1>3 DEF Inv, TypeOK, TabRow, HoldStates, SessionStates
<1> QED BY <1>1, <1>2, <1>3, <1>4, CalmKeeps

LEMMA DropKeeps ==
    ASSUME Inv, NEW s \in Slots, DropAnswer(s)
    PROVE  Inv'
<1>1. UNCHANGED <<tab, saved, by, starts, hold, session, posts, clock, faults>>
  BY DEF DropAnswer, browser, server
<1>2. NoCall \in CallRow
  BY DEF NoCall, CallRow, Places
<1>3. EndCalls /\ TypeOK'
  BY <1>1, <1>2 DEF DropAnswer, EndCalls, Inv, TypeOK, CallRow
<1>4. \A k \in Keys : Further(k)
  BY <1>1 DEF Further, HasAttempt
<1> QED BY <1>1, <1>3, <1>4, CalmKeeps

LEMMA TimeOutKeeps ==
    ASSUME Inv, NEW t \in Tabs, TimeOut(t)
    PROVE  Inv'
<1>1. /\ UNCHANGED <<saved, by, starts, hold, session, posts, clock, call>> /\ faults' \in 0 .. MaxFaults
      /\ EndCalls
  BY FaultType DEF TimeOut, server, Inv, EndCalls
<1>2. \A k \in Keys : Further(k)
  BY <1>1 DEF Further, HasAttempt
<1>3. tab \in [Tabs -> TabRow] /\ tab' = [tab EXCEPT ![t].wait = None]
  BY DEF Inv, TypeOK, TabRow, TimeOut
<1>4. tab' \in [Tabs -> TabRow]
  BY <1>3 DEF TabRow
<1>5. TypeOK'
  BY <1>1, <1>4 DEF Inv, TypeOK, TabRow
<1> QED BY <1>1, <1>2, <1>3, <1>5, CalmKeeps DEF TabRow

-----------------------------------------------------------------------------
(* Steps of a tab that change what it knows.                                  *)

TabStep(t) ==
    /\ UNCHANGED <<hold, session, posts>>
    /\ \A u \in Tabs : u # t => tab'[u] = tab[u] /\ saved'[u] = saved[u]
    /\ \A k \in Keys : by'[k] = by[k] \/ (by[k] = None /\ \E a \in Accounts : by'[k] = <<t, a>>)
    /\ OwnPage(t)'
    /\ \A a \in Accounts :
          /\ saved'[t][a] # None => OwnKept(t, a)'
          /\ saved[t][a] # None /\ saved[t][a].key # None =>
                saved'[t][a] # None /\ saved'[t][a].key = saved[t][a].key

LEMMA PairIsSomething ==
    ASSUME NEW t \in Tabs, NEW a \in Accounts
    PROVE  <<t, a>> # None
BY Nothing

LEMMA StepParts ==
    ASSUME Inv, TypeOK', NEW t \in Tabs, TabStep(t)
    PROVE  /\ \A k \in Keys : (by[k] # None => by'[k] = by[k]) /\ Further(k)
           /\ TabKnows' /\ StorageKnows'
           /\ \A k \in Keys, u \in Tabs, a \in Accounts :
                by'[k] = <<u, a>> /\ Reserving(k) => saved'[u][a] # None /\ saved'[u][a].key = k
<1>1. \A k \in Keys : (by[k] # None => by'[k] = by[k]) /\ Further(k)
  BY DEF TabStep, Further, HasAttempt
<1>2. TabKnows'
  <2> SUFFICES ASSUME NEW u \in Tabs, u # t PROVE OwnPage(u)'
    BY DEF TabKnows, TabStep
  <2>1. OwnPage(u) /\ tab'[u] = tab[u] /\ tab[u].hold \in Keys \union {None} /\ tab[u].key \in Keys \union {None}
    BY DEF Inv, TabKnows, TypeOK, TabStep
  <2>2. tab[u].key # None => by[tab[u].key] # None
    <3> SUFFICES ASSUME tab[u].key # None PROVE by[tab[u].key] # None
      OBVIOUS
    <3>1. by[tab[u].key] = <<u, tab[u].account>> /\ tab[u].account \in Accounts
      BY <2>1 DEF OwnPage, Inv, TypeOK
    <3> QED BY <3>1, PairIsSomething
  <2> QED BY <1>1, <2>1, <2>2 DEF OwnPage, TabStep
<1>3. StorageKnows'
  <2> SUFFICES ASSUME NEW u \in Tabs, NEW a \in Accounts, saved'[u][a] # None PROVE OwnKept(u, a)'
    BY DEF StorageKnows
  <2>1. CASE u = t
    BY <2>1 DEF TabStep
  <2>2. CASE u # t
    <3>1. /\ tab'[u] = tab[u] /\ saved'[u] = saved[u] /\ OwnKept(u, a) /\ saved[u][a] \in References
      BY <2>2 DEF TabStep, Inv, StorageKnows, TypeOK
    <3>2. saved[u][a].key # None => by[saved[u][a].key] # None
      <4>1. saved[u][a].key # None => by[saved[u][a].key] = <<u, a>>
        BY <3>1 DEF OwnKept
      <4> QED BY <4>1, PairIsSomething
    <3> QED BY <1>1, <3>1, <3>2 DEF OwnKept, References
  <2> QED BY <2>1, <2>2
<1>4. ASSUME NEW k \in Keys, NEW u \in Tabs, NEW a \in Accounts, by'[k] = <<u, a>>, Reserving(k)
      PROVE  saved'[u][a] # None /\ saved'[u][a].key = k
  <2>1. by[k] # None
    <3>1. \A r \in Slots : Asked(r) => Underway(r) /\ call[r].act = "prepare"
      BY DEF Asked, At, Underway, Places
    <3> QED BY <1>4, <3>1 DEF Reserving, Inv, CallKnows
  <2>2. saved[u][a] # None /\ saved[u][a].key = k
    BY <1>1, <1>4, <2>1 DEF Inv, ReservedIsSaved
  <2> QED BY <2>2, Nothing DEF TabStep
<1> QED BY <1>1, <1>2, <1>3, <1>4

LEMMA QuietKeeps ==
    ASSUME Inv, TypeOK', NEW t \in Tabs, TabStep(t), EndCalls, tab'[t].wait = None
    PROVE  Inv'
<1>1. /\ \A k \in Keys : (by[k] # None => by'[k] = by[k]) /\ Further(k)
      /\ TabKnows' /\ StorageKnows'
  BY StepParts
<1>2. UNCHANGED <<hold, session, posts>>
  BY DEF TabStep
<1>3. CallKnows' /\ PostOnce'
  BY <1>1, <1>2, CallsKept
<1>4. ReservedIsSaved'
  <2>1. \A k \in Keys : Reserving(k)' => Reserving(k)
    BY <1>2, FewerCalls DEF Reserving
  <2> QED BY <2>1, StepParts DEF ReservedIsSaved
<1>5. AwaitedIsOwn'
  <2> SUFFICES ASSUME NEW r \in Slots, WaitsFor(r)' PROVE OwnCall(r)'
    BY DEF AwaitedIsOwn
  <2>1. r[1] \in Tabs /\ r[1] # t /\ WaitsFor(r) /\ tab'[r[1]] = tab[r[1]]
    BY Nothing DEF WaitsFor, TabStep
  <2>2. OwnCall(r) /\ RefOf(r) \in Keys \union {None}
    BY <2>1 DEF Inv, AwaitedIsOwn, TypeOK, RefOf
  <2>3. {"ready", "redirect", "released", "found", "started"} \subseteq Answers
    BY DEF Answers
  <2> QED BY <1>1, <1>2, <2>1, <2>2, <2>3, FewerCalls DEF OwnCall
<1> QED BY <1>1, <1>3, <1>4, <1>5 DEF Inv

\* Slot s takes a new call; the others go on.
Begins(s) ==
    /\ \A r \in Slots : r # s => call'[r] = call[r]
    /\ call'[s].at = IF call'[s].act = "discover" THEN "holds" ELSE "load"
    /\ call'[s].act = "discover" => RefOf(s)' = None
    /\ call'[s].act # "discover" => RefOf(s)' # None /\ by'[RefOf(s)'] # None

LEMMA CallsBegun ==
    ASSUME Inv, NEW s \in Slots, Begins(s), UNCHANGED <<hold, session, posts>>,
           \A k \in Keys : by[k] # None => by'[k] = by[k]
    PROVE  CallKnows' /\ PostOnce'
<1>1. \A r \in Slots : r # s => /\ Underway(r)' = Underway(r) /\ Posting(r)' = Posting(r)
                                /\ RefOf(r)' = RefOf(r) /\ call'[r] = call[r]
  BY DEF Begins, Underway, Posting, At, RefOf
<1>2. ~Posting(s)' /\ call'[s].at # "confirm"
  BY DEF Begins, Posting, At
<1>3. CallKnows'
  <2>1. \A k \in Keys : hold'[k] # "none" => by'[k] # None
    BY DEF Inv, CallKnows
  <2>2. ASSUME NEW r \in Slots, Underway(r)'
        PROVE  /\ call'[r].act # "discover" => RefOf(r)' # None /\ by'[RefOf(r)'] # None
               /\ call'[r].act = "discover" /\ RefOf(r)' # None =>
                    hold'[RefOf(r)'] # "none" /\ by'[RefOf(r)'][2] = call'[r].owner
               /\ call'[r].at = "confirm" => RefOf(r)' # None /\ session'[RefOf(r)'] # "none"
    <3>1. CASE r = s
      BY <1>2, <3>1 DEF Begins
    <3>2. CASE r # s
      <4>1. Underway(r) /\ RefOf(r) \in Keys \union {None}
        BY <1>1, <2>2, <3>2, CallRef
      <4>2. /\ call[r].act # "discover" => RefOf(r) # None /\ by[RefOf(r)] # None
            /\ call[r].act = "discover" /\ RefOf(r) # None =>
                  hold[RefOf(r)] # "none" /\ by[RefOf(r)][2] = call[r].owner /\ by[RefOf(r)] # None
            /\ call[r].at = "confirm" => RefOf(r) # None /\ session[RefOf(r)] # "none"
        BY <4>1 DEF Inv, CallKnows
      <4> QED BY <1>1, <3>2, <4>1, <4>2
    <3> QED BY <3>1, <3>2
  <2> QED BY <2>1, <2>2 DEF CallKnows
<1>4. PostOnce'
  BY <1>1, <1>2 DEF Inv, PostOnce, HasAttempt
<1> QED BY <1>3, <1>4

LEMMA AskKeeps ==
    ASSUME Inv, TypeOK', NEW t \in Tabs, TabStep(t), NEW s \in Slots, s[1] = t, Begins(s),
           tab'[t].wait = s, call'[s].owner = tab'[t].account,
           call'[s].act = "prepare" =>
              /\ tab'[t].hold = None /\ RefOf(s)' = tab'[t].key
              /\ saved'[t][tab'[t].account] # None /\ saved'[t][tab'[t].account].key = RefOf(s)',
           call'[s].act \in {"start", "resume", "recover"} => RefOf(s)' = tab'[t].hold
    PROVE  Inv'
<1>1. /\ \A k \in Keys : (by[k] # None => by'[k] = by[k]) /\ Further(k)
      /\ TabKnows' /\ StorageKnows'
  BY StepParts
<1>2. UNCHANGED <<hold, session, posts>>
  BY DEF TabStep
<1>3. CallKnows' /\ PostOnce'
  BY <1>1, <1>2, CallsBegun
<1>4. ReservedIsSaved'
  <2> SUFFICES ASSUME NEW k \in Keys, NEW u \in Tabs, NEW a \in Accounts, by'[k] = <<u, a>>, Reserving(k)'
               PROVE  saved'[u][a] # None /\ saved'[u][a].key = k
    BY DEF ReservedIsSaved
  <2>1. CASE Asked(s)' /\ RefOf(s)' = k
    <3>1. call'[s].act = "prepare"
      BY <2>1 DEF Asked, At
    <3>2. tab'[t].key = k /\ k # None
      BY <2>1, <3>1, Nothing
    <3>3. by'[k] = <<t, tab'[t].account>>
      BY <3>2 DEF TabStep, OwnPage
    <3>4. u = t /\ a = tab'[t].account
      BY <3>3
    <3> QED BY <2>1, <3>1, <3>4
  <2>2. CASE ~(Asked(s)' /\ RefOf(s)' = k)
    <3>1. Reserving(k)
      BY <1>2, <2>2 DEF Reserving, Begins, Asked, At, RefOf
    <3> QED BY <3>1, StepParts
  <2> QED BY <2>1, <2>2
<1>5. AwaitedIsOwn'
  <2> SUFFICES ASSUME NEW r \in Slots, WaitsFor(r)' PROVE OwnCall(r)'
    BY DEF AwaitedIsOwn
  <2>1. CASE r = s
    BY <2>1 DEF OwnCall, Begins
  <2>2. CASE r # s
    <3>1. r[1] \in Tabs /\ r[1] # t /\ WaitsFor(r) /\ tab'[r[1]] = tab[r[1]] /\ call'[r] = call[r]
      BY <2>2 DEF WaitsFor, TabStep, Begins
    <3>2. OwnCall(r) /\ RefOf(r) \in Keys \union {None} /\ RefOf(r)' = RefOf(r)
      BY <3>1 DEF Inv, AwaitedIsOwn, TypeOK, RefOf
    <3> QED BY <1>1, <1>2, <3>1, <3>2 DEF OwnCall, Underway
  <2> QED BY <2>1, <2>2
<1> QED BY <1>1, <1>3, <1>4, <1>5 DEF Inv

\* What a signed-in tab learns, and may write to storage, never takes back its
\* key, its hold or its start.
LEMMA GrownPage ==
    ASSUME Inv, NEW t \in Tabs, NEW page \in TabRow, UNCHANGED <<hold, session, posts>>,
           page.account = tab[t].account, page.account \in Accounts,
           saved' = saved \/ Persist(t, page),
           \A u \in Tabs : u # t => tab'[u] = tab[u],
           \A k \in Keys : by'[k] = by[k] \/ (by[k] = None /\ \E a \in Accounts : by'[k] = <<t, a>>),
           tab'[t].account = page.account, tab'[t].key = page.key, tab'[t].hold = page.hold,
           tab'[t].started = page.started, tab'[t].released = page.released,
           tab'[t].redirect # None => tab'[t].redirect = page.hold /\ session[page.hold] # "none",
           tab'[t].wait # None => tab'[t].wait[1] = t,
           tab[t].key # None => page.key = tab[t].key,
           page.key # None => by'[page.key] = <<t, page.account>>,
           tab[t].hold # None => page.hold = tab[t].hold,
           page.hold # None => by'[page.hold] # None /\ by'[page.hold][2] = page.account,
           tab[t].started => page.started,
           page.started => page.hold # None,
           page.released => page.hold # None /\ hold[page.hold] = "recovered"
    PROVE  TabStep(t)
<1>0. PICK own \in Accounts : own = page.account
  OBVIOUS
<1>1. own # None
  BY Nothing
<1>2. OwnPage(t)'
  BY <1>0, <1>1 DEF OwnPage
<1>3. /\ \A u \in Tabs : u # t => saved'[u] = saved[u]
      /\ \A a \in Accounts : a # own => saved'[t][a] = saved[t][a]
      /\ saved'[t][own] = saved[t][own] \/ saved'[t][own] = Reference(page)
  BY <1>0 DEF Inv, TypeOK, Persist
<1>4. \A a \in Accounts : saved[t][a] # None => saved[t][a] \in References /\ OwnKept(t, a)
  BY DEF Inv, TypeOK, StorageKnows
<1>5. \A k \in Keys : by[k] # None => by'[k] = by[k]
  OBVIOUS
<1>6. ASSUME NEW a \in Accounts, a # own
      PROVE  /\ saved'[t][a] # None => OwnKept(t, a)'
             /\ saved[t][a] # None /\ saved[t][a].key # None =>
                   saved'[t][a] # None /\ saved'[t][a].key = saved[t][a].key
  <2> SUFFICES ASSUME saved[t][a] # None PROVE OwnKept(t, a)'
    BY <1>3, <1>6
  <2>1. saved[t][a].key # None => by[saved[t][a].key] # None
    <3>1. saved[t][a].key # None => by[saved[t][a].key] = <<t, a>>
      BY <1>4 DEF OwnKept
    <3> QED BY <3>1, PairIsSomething
  <2> QED BY <1>0, <1>3, <1>4, <1>5, <1>6, <2>1 DEF OwnKept, References
<1>7. saved'[t][own] # None => OwnKept(t, own)'
  <2>1. CASE saved'[t][own] = Reference(page)
    <3>1. /\ saved'[t][own].key = page.key /\ saved'[t][own].hold = page.hold
          /\ saved'[t][own].started = page.started
      BY <2>1 DEF Reference
    <3> QED BY <1>0, <1>1, <3>1 DEF OwnKept, TabRow
  <2>2. CASE saved'[t][own] = saved[t][own]
    <3> SUFFICES ASSUME saved[t][own] # None PROVE OwnKept(t, own)'
      BY <2>2
    <3>1. saved[t][own].key # None => by[saved[t][own].key] # None
      <4>1. saved[t][own].key # None => by[saved[t][own].key] = <<t, own>>
        BY <1>4 DEF OwnKept
      <4> QED BY <4>1, PairIsSomething
    <3> QED BY <1>0, <1>4, <1>5, <2>2, <3>1 DEF OwnKept, References, TabRow
  <2> QED BY <1>3, <2>1, <2>2
<1>8. saved[t][own] # None /\ saved[t][own].key # None =>
         saved'[t][own] # None /\ saved'[t][own].key = saved[t][own].key
  <2>1. Reference(page) # None /\ Reference(page).key = page.key
    BY Nothing DEF Reference, References, TabRow
  <2> QED BY <1>0, <1>3, <1>4, <2>1 DEF OwnKept
<1> QED BY <1>0, <1>2, <1>3, <1>6, <1>7, <1>8 DEF TabStep

\* What a request writes.
Asks(t, s, act, ref, page) ==
    /\ s[1] = t /\ tab'[t] = [page EXCEPT !.wait = s, !.redirect = None]
    /\ \A r \in Slots : r # s => call'[r] = call[r]
    /\ call'[s].act = act /\ call'[s].owner = page.account /\ call'[s].ref = ref
    /\ call'[s].at = IF act = "discover" THEN "holds" ELSE "load"

LEMMA Requested ==
    ASSUME Inv, NEW t \in Tabs, NEW act \in Actions, NEW ref \in Keys \union {None}, NEW page \in TabRow,
           page.account \in Accounts, Request(t, act, ref, page)
    PROVE  /\ tab' \in [Tabs -> TabRow] /\ call' \in [Slots -> CallRow]
           /\ \A u \in Tabs : u # t => tab'[u] = tab[u]
           /\ \E s \in Slots : Asks(t, s, act, ref, page)
<1>1. PICK s \in Slots :
        /\ s[1] = t
        /\ call' = [call EXCEPT ![s] =
              [NoCall EXCEPT !.act = act, !.owner = page.account, !.ref = ref,
                             !.at = IF act = "discover" THEN "holds" ELSE "load"]]
        /\ tab' = [tab EXCEPT ![t] = [page EXCEPT !.wait = s, !.redirect = None]]
  BY DEF Request
<1> DEFINE row == [NoCall EXCEPT !.act = act, !.owner = page.account, !.ref = ref,
                                 !.at = IF act = "discover" THEN "holds" ELSE "load"]
<1>2. /\ row \in CallRow /\ row.act = act /\ row.owner = page.account /\ row.ref = ref
      /\ row.at = IF act = "discover" THEN "holds" ELSE "load"
  BY DEF CallRow, Places, NoCall
<1>3. call' = [call EXCEPT ![s] = row]
  BY <1>1
<1> HIDE DEF row
<1>4. call \in [Slots -> CallRow] /\ tab \in [Tabs -> TabRow]
  BY DEF Inv, TypeOK, CallRow, TabRow
<1>5. [page EXCEPT !.wait = s, !.redirect = None] \in TabRow
  BY DEF TabRow
<1>6. call' \in [Slots -> CallRow] /\ call'[s] = row /\ \A r \in Slots : r # s => call'[r] = call[r]
  BY <1>2, <1>3, <1>4
<1>7. /\ tab' \in [Tabs -> TabRow] /\ tab'[t] = [page EXCEPT !.wait = s, !.redirect = None]
      /\ \A u \in Tabs : u # t => tab'[u] = tab[u]
  BY <1>1, <1>4, <1>5
<1> QED BY <1>1, <1>2, <1>6, <1>7 DEF Asks

LEMMA TabType ==
    ASSUME Inv, NEW t \in Tabs
    PROVE  /\ tab[t] \in TabRow /\ OwnPage(t)
           /\ Usable(t) => tab[t].account \in Accounts
BY DEF Inv, TypeOK, TabRow, TabKnows, Usable

LEMMA AskPlainKeeps ==
    ASSUME Inv, NEW t \in Tabs, Inspect(t) \/ RecoverExpired(t)
    PROVE  Inv'
<1>1. Usable(t) /\ tab[t] \in TabRow /\ OwnPage(t) /\ tab[t].account \in Accounts
      /\ UNCHANGED <<saved, by, starts, hold, session, posts, clock, faults>>
  BY TabType DEF Inspect, RecoverExpired, Cleared, Usable, server
<1>2. PICK act \in {"discover", "recover"}, ref \in Keys \union {None}, page \in TabRow :
        /\ Request(t, act, ref, page)
        /\ page.account = tab[t].account /\ page.key = tab[t].key /\ page.hold = tab[t].hold
        /\ page.started = tab[t].started /\ page.released = tab[t].released
        /\ IF act = "discover" THEN ref = None ELSE ref # None /\ ref = tab[t].hold
  <2>1. CASE Inspect(t)
    <3>1. [tab[t] EXCEPT !.clear = FALSE] \in TabRow
      BY <1>1 DEF TabRow
    <3> QED BY <1>1, <2>1, <3>1 DEF Inspect, TabRow
  <2>2. CASE RecoverExpired(t)
    <3>1. Request(t, "recover", tab[t].hold, tab[t]) /\ tab[t].hold # None
      BY <2>2 DEF RecoverExpired, Expired
    <3>2. tab[t].hold \in Keys \union {None}
      BY <1>1 DEF TabRow
    <3> QED BY <1>1, <3>1, <3>2
  <2> QED BY <2>1, <2>2
<1>a. act \in Actions /\ page.account \in Accounts
  BY <1>1, <1>2 DEF Actions
<1>b. Request(t, act, ref, page)
  BY <1>2
<1>3. /\ tab' \in [Tabs -> TabRow] /\ call' \in [Slots -> CallRow]
      /\ \A u \in Tabs : u # t => tab'[u] = tab[u]
      /\ \E s \in Slots : Asks(t, s, act, ref, page)
  BY <1>a, <1>b, Requested
<1>4. PICK s \in Slots : Asks(t, s, act, ref, page)
  BY <1>3
<1>5. TypeOK'
  BY <1>1, <1>3 DEF Inv, TypeOK, TabRow, CallRow
<1>6. /\ tab'[t].account = page.account /\ tab'[t].key = page.key /\ tab'[t].hold = page.hold
      /\ tab'[t].started = page.started /\ tab'[t].released = page.released
      /\ tab'[t].redirect = None /\ tab'[t].wait = s
  BY <1>2, <1>4 DEF Asks, TabRow
<1>7. TabStep(t)
  <2>1. tab'[t].wait[1] = t
    BY <1>4, <1>6 DEF Asks
  <2> QED BY <1>1, <1>2, <1>3, <1>a, <1>6, <2>1, GrownPage DEF OwnPage
<1>8. Begins(s)
  BY <1>1, <1>2, <1>4 DEF Asks, Begins, OwnPage, RefOf
<1> QED BY <1>2, <1>4, <1>5, <1>6, <1>7, <1>8, AskKeeps DEF Asks, RefOf

\* A page that a tab may turn to next, with the keys drawn by then.
Outgrows(t, page) ==
    /\ page \in TabRow /\ page.account = tab[t].account /\ page.account \in Accounts
    /\ tab[t].key # None => page.key = tab[t].key
    /\ page.key # None => by'[page.key] = <<t, page.account>>
    /\ tab[t].hold # None => page.hold = tab[t].hold
    /\ page.hold # None => by'[page.hold] # None /\ by'[page.hold][2] = page.account
    /\ tab[t].started => page.started
    /\ page.started => page.hold # None
    /\ page.released => page.hold # None /\ hold[page.hold] = "recovered"

DrawsHere(t) == /\ by' \in [Keys -> ((Tabs \union Devices) \X Accounts) \union {None}]
             /\ \A k \in Keys : by'[k] = by[k] \/ (by[k] = None /\ \E a \in Accounts : by'[k] = <<t, a>>)

LEMMA AskSavedKeeps ==
    ASSUME Inv, NEW t \in Tabs, NEW page, Outgrows(t, page), NEW act \in {"prepare", "start", "resume"},
           NEW ref \in Keys, Request(t, act, ref, page), Persist(t, page), DrawsHere(t),
           UNCHANGED <<hold, session, posts, clock, faults>>, starts' \subseteq Starts,
           IF act = "prepare" THEN page.hold = None /\ ref = page.key ELSE ref = page.hold
    PROVE  Inv'
<1>a. act \in Actions /\ page \in TabRow /\ page.account \in Accounts /\ ref \in Keys \union {None}
      /\ ref # None
  BY Nothing DEF Actions, Outgrows
<1>1. /\ tab' \in [Tabs -> TabRow] /\ call' \in [Slots -> CallRow]
      /\ \A u \in Tabs : u # t => tab'[u] = tab[u]
      /\ \E s \in Slots : Asks(t, s, act, ref, page)
  BY <1>a, Requested
<1>2. PICK s \in Slots : Asks(t, s, act, ref, page)
  BY <1>1
<1>3. Reference(page) \in References /\ Reference(page) # None /\ Reference(page).key = page.key
  BY <1>a, Nothing DEF Reference, References, TabRow
<1>4. /\ saved' \in [Tabs -> [Accounts -> References \union {None}]]
      /\ saved'[t][page.account] = Reference(page)
  BY <1>a, <1>3 DEF Persist, Inv, TypeOK
<1>5. TypeOK'
  BY <1>1, <1>4 DEF DrawsHere, Inv, TypeOK, TabRow, CallRow, Starts
<1>6. /\ tab'[t].account = page.account /\ tab'[t].key = page.key /\ tab'[t].hold = page.hold
      /\ tab'[t].started = page.started /\ tab'[t].released = page.released
      /\ tab'[t].redirect = None /\ tab'[t].wait = s /\ s[1] = t
  BY <1>a, <1>2 DEF Asks, TabRow
<1>7. TabStep(t)
  BY <1>1, <1>6, GrownPage DEF Outgrows, DrawsHere
<1>8. by'[ref] # None
  BY <1>a, PairIsSomething DEF Outgrows
<1>9. Begins(s)
  BY <1>a, <1>2, <1>8 DEF Asks, Begins, RefOf
<1>10. /\ call'[s].owner = tab'[t].account
       /\ call'[s].act = "prepare" =>
             /\ tab'[t].hold = None /\ RefOf(s)' = tab'[t].key
             /\ saved'[t][tab'[t].account] # None /\ saved'[t][tab'[t].account].key = RefOf(s)'
       /\ call'[s].act \in {"start", "resume", "recover"} => RefOf(s)' = tab'[t].hold
  BY <1>2, <1>3, <1>4, <1>6 DEF Asks, RefOf
<1> QED BY <1>5, <1>6, <1>7, <1>9, <1>10, AskKeeps

LEMMA WriteFailsKeeps ==
    ASSUME Inv, NEW t \in Tabs, NEW page, Outgrows(t, page), PersistFails(t, page), DrawsHere(t),
           EndCalls, call' \in [Slots -> CallRow], UNCHANGED <<starts, hold, session, posts, clock>>
    PROVE  Inv'
<1> DEFINE stopped == [page EXCEPT !.stopped = TRUE, !.wait = None, !.redirect = None]
<1>1. /\ saved' = saved /\ faults' \in 0 .. MaxFaults
      /\ tab' = [tab EXCEPT ![t] = stopped]
  BY FaultType DEF PersistFails, Inv
<1>2. page \in TabRow /\ tab \in [Tabs -> TabRow]
  BY DEF Outgrows, Inv, TypeOK, TabRow
<1>3. /\ stopped \in TabRow /\ stopped.account = page.account /\ stopped.key = page.key
      /\ stopped.hold = page.hold /\ stopped.started = page.started /\ stopped.released = page.released
      /\ stopped.redirect = None /\ stopped.wait = None
  BY <1>2 DEF TabRow
<1>4. tab' \in [Tabs -> TabRow] /\ tab'[t] = stopped /\ \A u \in Tabs : u # t => tab'[u] = tab[u]
  BY <1>1, <1>2, <1>3
<1> HIDE DEF stopped
<1>5. TypeOK'
  BY <1>1, <1>4 DEF DrawsHere, Inv, TypeOK, TabRow, CallRow
<1>6. TabStep(t)
  BY <1>1, <1>3, <1>4, GrownPage DEF Outgrows, DrawsHere
<1> QED BY <1>3, <1>4, <1>5, <1>6, QuietKeeps

LEMMA PrepareKeeps ==
    ASSUME Inv, NEW t \in Tabs, Prepare(t)
    PROVE  Inv'
<1>1. Cleared(t) /\ tab[t].hold = None /\ UNCHANGED <<starts, hold, session, posts, clock>>
      /\ tab[t] \in TabRow /\ OwnPage(t) /\ tab[t].account \in Accounts
  BY TabType DEF Prepare, Cleared, server
<1>2. PICK k \in Keys :
        /\ IF tab[t].key # None THEN k = tab[t].key /\ UNCHANGED by
           ELSE by[k] = None /\ by' = [by EXCEPT ![k] = <<t, tab[t].account>>]
        /\ LET page == [tab[t] EXCEPT !.key = k] IN
           \/ Persist(t, page) /\ Request(t, "prepare", k, page) /\ NoFault
           \/ PersistFails(t, page) /\ UNCHANGED call
  BY DEF Prepare
<1> DEFINE page == [tab[t] EXCEPT !.key = k]
<1>3. /\ page \in TabRow /\ page.account = tab[t].account /\ page.key = k /\ page.hold = None
      /\ page.started = tab[t].started /\ page.released = tab[t].released
  BY <1>1 DEF TabRow
<1>4. DrawsHere(t) /\ by'[k] = <<t, tab[t].account>>
  <2>1. by \in [Keys -> ((Tabs \union Devices) \X Accounts) \union {None}]
    BY DEF Inv, TypeOK
  <2> QED BY <1>1, <1>2, <2>1 DEF DrawsHere, OwnPage
<1>5. Outgrows(t, page)
  BY <1>1, <1>2, <1>3, <1>4 DEF Outgrows, OwnPage
<1>6. \/ Persist(t, page) /\ Request(t, "prepare", k, page) /\ NoFault
      \/ PersistFails(t, page) /\ UNCHANGED call
  BY <1>2
<1> HIDE DEF page
<1>7. CASE Persist(t, page) /\ Request(t, "prepare", k, page) /\ NoFault
  <2>1. starts' \subseteq Starts
    BY <1>1 DEF Inv, TypeOK, Starts
  <2> QED BY <1>1, <1>3, <1>4, <1>5, <1>7, <2>1, AskSavedKeeps DEF NoFault
<1>8. CASE PersistFails(t, page) /\ UNCHANGED call
  <2>1. EndCalls /\ call' \in [Slots -> CallRow]
    BY <1>8 DEF EndCalls, Inv, TypeOK, CallRow
  <2> QED BY <1>1, <1>4, <1>5, <1>8, <2>1, WriteFailsKeeps
<1> QED BY <1>6, <1>7, <1>8

LEMMA CheckoutKeeps ==
    ASSUME Inv, NEW t \in Tabs, NEW act \in {"start", "resume"}, Checkout(t, act)
    PROVE  Inv'
<1>1. tab[t].hold # None /\ tab[t].hold \in Keys /\ UNCHANGED <<by, hold, session, posts, clock>>
      /\ tab[t] \in TabRow /\ OwnPage(t) /\ tab[t].account \in Accounts
  BY TabType DEF Checkout, Cleared, server, TabRow
<1> DEFINE page == [tab[t] EXCEPT !.started = TRUE]
<1>2. \/ Persist(t, page) /\ SendStart(t, act, page) /\ NoFault
      \/ PersistFails(t, page) /\ UNCHANGED <<call, starts>>
  BY DEF Checkout
<1>3. /\ page \in TabRow /\ page.account = tab[t].account /\ page.key = tab[t].key
      /\ page.hold = tab[t].hold /\ page.started = TRUE /\ page.released = tab[t].released
  BY <1>1 DEF TabRow
<1>4. DrawsHere(t)
  BY <1>1 DEF DrawsHere, Inv, TypeOK
<1>5. Outgrows(t, page)
  BY <1>1, <1>3 DEF Outgrows, OwnPage
<1> HIDE DEF page
<1>7. CASE Persist(t, page) /\ SendStart(t, act, page) /\ NoFault
  <2>1. /\ Request(t, act, page.hold, page)
        /\ starts' = starts \union {<<t, page.account, page.hold>>}
    BY <1>7 DEF SendStart
  <2>2. starts' \subseteq Starts
    BY <1>1, <1>3, <2>1 DEF Inv, TypeOK, Starts
  <2> QED BY <1>1, <1>3, <1>4, <1>5, <1>7, <2>1, <2>2, AskSavedKeeps DEF NoFault
<1>8. CASE PersistFails(t, page) /\ UNCHANGED <<call, starts>>
  <2>1. EndCalls /\ call' \in [Slots -> CallRow]
    BY <1>8 DEF EndCalls, Inv, TypeOK, CallRow
  <2> QED BY <1>1, <1>4, <1>5, <1>8, <2>1, WriteFailsKeeps
<1> QED BY <1>2, <1>7, <1>8

\* What an awaited answer makes of the page.
LEMMA AfterGrows ==
    ASSUME Inv, NEW s \in Slots, NEW t \in Tabs, t = s[1], Answered(s), WaitsFor(s), UNCHANGED by,
           NEW page, page = [After(tab[t], call[s]) EXCEPT !.wait = None]
    PROVE  /\ Outgrows(t, page) /\ page.wait = None
           /\ page.redirect # None => page.redirect = page.hold /\ session[page.hold] # "none"
<1>1. /\ tab[t] \in TabRow /\ OwnPage(t) /\ OwnCall(s) /\ tab[t].wait = s
      /\ call[s].ref \in Keys \union {None} /\ tab[t].account \in Accounts
  BY TabType, Nothing DEF WaitsFor, Inv, AwaitedIsOwn, OwnPage, TabRow, TypeOK
<1>2. /\ call[s].at = "ready" => tab[t].hold = None /\ tab[t].key # None /\ call[s].ref = tab[t].key
      /\ call[s].at = "redirect" =>
            call[s].ref # None /\ call[s].ref = tab[t].hold /\ session[call[s].ref] # "none"
      /\ call[s].at = "released" =>
            call[s].ref # None /\ call[s].ref = tab[t].hold /\ hold[call[s].ref] = "recovered"
      /\ call[s].at \in {"found", "started"} =>
            call[s].ref # None /\ by[call[s].ref] # None /\ by[call[s].ref][2] = tab[t].account
  BY <1>1 DEF OwnCall, RefOf
<1>3. tab[t].key # None => by[tab[t].key] # None /\ by[tab[t].key][2] = tab[t].account
  BY <1>1, PairIsSomething DEF OwnPage
<1>4. ASSUME NEW next \in TabRow, page = [next EXCEPT !.wait = None]
      PROVE  /\ page \in TabRow /\ page.wait = None /\ page.account = next.account /\ page.key = next.key
             /\ page.hold = next.hold /\ page.started = next.started /\ page.released = next.released
             /\ page.redirect = next.redirect
  BY <1>4 DEF TabRow
<1>5. CASE call[s].at = "ready"
  <2> DEFINE next == [tab[t] EXCEPT !.hold = call[s].ref]
  <2>1. page = [next EXCEPT !.wait = None]
    BY <1>5 DEF After
  <2>2. next \in TabRow /\ next.account = tab[t].account /\ next.key = tab[t].key /\ next.hold = call[s].ref
        /\ next.started = tab[t].started /\ next.released = tab[t].released /\ next.redirect = tab[t].redirect
    BY <1>1 DEF TabRow
  <2> HIDE DEF next
  <2> QED BY <1>1, <1>2, <1>3, <1>4, <1>5, <2>1, <2>2, Nothing DEF Outgrows, OwnPage
<1>6. CASE call[s].at = "redirect"
  <2> DEFINE next == [tab[t] EXCEPT !.redirect = call[s].ref]
  <2>1. page = [next EXCEPT !.wait = None]
    BY <1>6 DEF After
  <2>2. next \in TabRow /\ next.account = tab[t].account /\ next.key = tab[t].key /\ next.hold = tab[t].hold
        /\ next.started = tab[t].started /\ next.released = tab[t].released /\ next.redirect = call[s].ref
    BY <1>1 DEF TabRow
  <2> HIDE DEF next
  <2> QED BY <1>1, <1>2, <1>4, <1>6, <2>1, <2>2 DEF Outgrows, OwnPage
<1>7. CASE call[s].at = "released"
  <2> DEFINE next == [tab[t] EXCEPT !.released = TRUE]
  <2>1. page = [next EXCEPT !.wait = None]
    BY <1>7 DEF After
  <2>2. next \in TabRow /\ next.account = tab[t].account /\ next.key = tab[t].key /\ next.hold = tab[t].hold
        /\ next.started = tab[t].started /\ next.redirect = tab[t].redirect
    BY <1>1 DEF TabRow
  <2> HIDE DEF next
  <2> QED BY <1>1, <1>2, <1>4, <1>7, <2>1, <2>2 DEF Outgrows, OwnPage
<1>8. CASE call[s].at \in {"found", "started"} /\ Agrees(tab[t], call[s])
  <2> DEFINE next == [tab[t] EXCEPT !.hold = call[s].ref, !.clear = TRUE, !.started = call[s].at = "started"]
  <2>1. page = [next EXCEPT !.wait = None]
    BY <1>8 DEF After
  <2>2. next \in TabRow /\ next.account = tab[t].account /\ next.key = tab[t].key /\ next.hold = call[s].ref
        /\ next.started = (call[s].at = "started") /\ next.released = tab[t].released
        /\ next.redirect = tab[t].redirect
    BY <1>1 DEF TabRow
  <2>3. /\ tab[t].hold \in {None, call[s].ref}
        /\ tab[t].started => call[s].at = "started"
    BY <1>8 DEF Agrees
  <2> HIDE DEF next
  <2>4. /\ page \in TabRow /\ page.wait = None /\ page.account = tab[t].account /\ page.key = tab[t].key
        /\ page.hold = call[s].ref /\ page.started = (call[s].at = "started")
        /\ page.released = tab[t].released /\ page.redirect = tab[t].redirect
    BY <1>4, <2>1, <2>2
  <2>5. tab[t].hold # None => page.hold = tab[t].hold
    BY <2>3, <2>4
  <2>6. page.hold # None /\ by[page.hold] # None /\ by[page.hold][2] = page.account
    BY <1>2, <1>8, <2>4
  <2>7. tab[t].started => page.started
    BY <2>3, <2>4
  <2>8. /\ page.released => hold[page.hold] = "recovered"
        /\ page.redirect # None => page.redirect = page.hold /\ session[page.hold] # "none"
    BY <1>1, <2>4, <2>5, Nothing DEF OwnPage, TabRow
  <2> QED BY <1>1, <2>4, <2>5, <2>6, <2>7, <2>8 DEF Outgrows, OwnPage
<1>9. CASE \/ call[s].at \notin {"ready", "redirect", "released", "found", "started"}
           \/ call[s].at \in {"found", "started"} /\ ~Agrees(tab[t], call[s])
  <2>1. PICK next \in TabRow :
          /\ page = [next EXCEPT !.wait = None]
          /\ next.account = tab[t].account /\ next.key = tab[t].key /\ next.hold = tab[t].hold
          /\ next.started = tab[t].started /\ next.released = tab[t].released /\ next.redirect = tab[t].redirect
    <3>1. CASE call[s].at = "none"
      <4> DEFINE next == [tab[t] EXCEPT !.clear = tab[t].hold = None /\ ~tab[t].started]
      <4>1. page = [next EXCEPT !.wait = None]
        BY <3>1 DEF After
      <4>2. next \in TabRow /\ next.account = tab[t].account /\ next.key = tab[t].key /\ next.hold = tab[t].hold
            /\ next.started = tab[t].started /\ next.released = tab[t].released
            /\ next.redirect = tab[t].redirect
        BY <1>1 DEF TabRow
      <4> HIDE DEF next
      <4> QED BY <4>1, <4>2
    <3>2. CASE call[s].at # "none"
      <4>1. page = [tab[t] EXCEPT !.wait = None]
        BY <1>9, <3>2 DEF After
      <4> QED BY <1>1, <4>1
    <3> QED BY <3>1, <3>2
  <2>2. /\ page \in TabRow /\ page.wait = None /\ page.account = next.account /\ page.key = next.key
        /\ page.hold = next.hold /\ page.started = next.started /\ page.released = next.released
        /\ page.redirect = next.redirect
    BY <1>4, <2>1
  <2> QED BY <1>1, <1>3, <2>1, <2>2 DEF Outgrows, OwnPage
<1> QED BY <1>5, <1>6, <1>7, <1>8, <1>9

LEMMA HearKeeps ==
    ASSUME Inv, NEW s \in Slots, Hear(s)
    PROVE  Inv'
<1>1. PICK t \in Tabs : t = s[1]
  BY DEF Hear, WaitsFor
<1>2. PICK page : page = [After(tab[t], call[s]) EXCEPT !.wait = None]
  OBVIOUS
<1>3. /\ Answered(s) /\ WaitsFor(s) /\ call' = [call EXCEPT ![s] = NoCall]
      /\ UNCHANGED <<by, starts, hold, session, posts, clock>>
      /\ \/ /\ tab' = [tab EXCEPT ![t] = page] /\ NoFault
            /\ Persist(t, page) \/ saved' = saved
         \/ PersistFails(t, page)
  BY <1>1, <1>2 DEF Hear, server
<1>4. /\ Outgrows(t, page) /\ page.wait = None
      /\ page.redirect # None => page.redirect = page.hold /\ session[page.hold] # "none"
  BY <1>1, <1>2, <1>3, AfterGrows
<1>5. EndCalls /\ call' \in [Slots -> CallRow]
  <2>1. NoCall \in CallRow
    BY DEF NoCall, CallRow, Places
  <2> QED BY <1>3, <2>1 DEF EndCalls, Inv, TypeOK, CallRow
<1>6. DrawsHere(t)
  BY <1>3 DEF DrawsHere, Inv, TypeOK
<1>7. CASE PersistFails(t, page)
  BY <1>3, <1>4, <1>5, <1>6, <1>7, WriteFailsKeeps
<1>8. CASE tab' = [tab EXCEPT ![t] = page] /\ NoFault /\ (Persist(t, page) \/ saved' = saved)
  <2>1. page \in TabRow /\ page.account \in Accounts /\ tab \in [Tabs -> TabRow]
    BY <1>4 DEF Outgrows, Inv, TypeOK, TabRow
  <2>2. tab' \in [Tabs -> TabRow] /\ tab'[t] = page /\ \A u \in Tabs : u # t => tab'[u] = tab[u]
    BY <1>8, <2>1
  <2>3. Reference(page) \in References
    BY <2>1 DEF Reference, References, TabRow
  <2>4. saved' \in [Tabs -> [Accounts -> References \union {None}]]
    <3>1. saved \in [Tabs -> [Accounts -> References \union {None}]]
      BY DEF Inv, TypeOK
    <3>2. ASSUME Persist(t, page) PROVE saved' \in [Tabs -> [Accounts -> References \union {None}]]
      BY <2>1, <2>3, <3>1, <3>2 DEF Persist
    <3> QED BY <1>8, <3>1, <3>2
  <2>5. TypeOK'
    <3>1. UNCHANGED <<by, starts, hold, session, posts, clock, faults>>
      BY <1>3, <1>8 DEF NoFault
    <3> QED BY <1>5, <2>2, <2>4, <3>1 DEF Inv, TypeOK, TabRow, CallRow
  <2>6. TabStep(t)
    BY <1>3, <1>4, <1>6, <1>8, <2>1, <2>2, GrownPage DEF Outgrows, DrawsHere
  <2> QED BY <1>4, <1>5, <2>2, <2>5, <2>6, QuietKeeps
<1> QED BY <1>3, <1>7, <1>8

LEMMA SignKeeps ==
    ASSUME Inv, NEW t \in Tabs, SignIn(t) \/ SignOut(t)
    PROVE  Inv'
<1>1. PICK account \in Accounts \union {None} : tab' = [tab EXCEPT ![t] = Opened(t, account)]
  BY DEF SignIn, SignOut
<1>2. UNCHANGED <<saved, by, starts, hold, session, posts, clock, call>> /\ faults' \in 0 .. MaxFaults
  <2>1. faults \in 0 .. MaxFaults
    BY DEF Inv, TypeOK
  <2> QED BY <2>1, FaultType DEF SignIn, SignOut, server, Inv
<1>3. ASSUME account # None, saved[t][account] # None
      PROVE  saved[t][account] \in References /\ OwnKept(t, account)
  BY <1>3 DEF Inv, TypeOK, StorageKnows
<1> DEFINE page == Opened(t, account)
<1>4. /\ page \in TabRow /\ page.account = account /\ page.wait = None /\ page.redirect = None
      /\ page.released = FALSE
      /\ IF account # None /\ saved[t][account] # None
         THEN /\ page.key = saved[t][account].key /\ page.hold = saved[t][account].hold
              /\ page.started = saved[t][account].started
         ELSE page.key = None /\ page.hold = None /\ page.started = FALSE
  <2>1. CASE account # None /\ saved[t][account] # None
    <3>1. page = [account |-> account, released |-> FALSE, clear |-> FALSE, stopped |-> FALSE,
                  redirect |-> None, wait |-> None, key |-> saved[t][account].key,
                  hold |-> saved[t][account].hold, started |-> saved[t][account].started]
      BY <1>3, <2>1 DEF Opened, References
    <3>2. [account |-> account, key |-> saved[t][account].key, hold |-> saved[t][account].hold,
           started |-> saved[t][account].started, released |-> FALSE, clear |-> FALSE,
           stopped |-> FALSE, redirect |-> None, wait |-> None] \in TabRow
      BY <1>3, <2>1 DEF TabRow, References
    <3> HIDE DEF page
    <3> QED BY <2>1, <3>1, <3>2
  <2>2. CASE ~(account # None /\ saved[t][account] # None)
    <3>1. page = [account |-> account, released |-> FALSE, clear |-> FALSE, stopped |-> FALSE,
                  redirect |-> None, wait |-> None, key |-> None, hold |-> None, started |-> FALSE]
      BY <2>2 DEF Opened
    <3>2. [account |-> account, key |-> None, hold |-> None, started |-> FALSE, released |-> FALSE,
           clear |-> FALSE, stopped |-> FALSE, redirect |-> None, wait |-> None] \in TabRow
      BY DEF TabRow
    <3> HIDE DEF page
    <3> QED BY <2>2, <3>1, <3>2
  <2> QED BY <2>1, <2>2
<1> HIDE DEF page
<1>5. tab' \in [Tabs -> TabRow] /\ tab'[t] = page /\ \A u \in Tabs : u # t => tab'[u] = tab[u]
  BY <1>1, <1>4 DEF Inv, TypeOK, TabRow, page
<1>6. TypeOK' /\ EndCalls
  BY <1>2, <1>5 DEF Inv, TypeOK, TabRow, EndCalls
<1>7. OwnPage(t)'
  BY <1>2, <1>3, <1>4, <1>5 DEF OwnPage, OwnKept
<1>8. ASSUME NEW a \in Accounts, saved[t][a] # None PROVE OwnKept(t, a)'
  <2>1. OwnKept(t, a) /\ saved[t][a] \in References
    BY <1>8 DEF Inv, StorageKnows, TypeOK
  <2>2. a = account => tab'[t].key = saved[t][a].key /\ tab'[t].hold = saved[t][a].hold
                       /\ tab'[t].started = saved[t][a].started
    BY <1>4, <1>5, <1>8, Nothing
  <2> QED BY <1>2, <1>4, <1>5, <2>1, <2>2 DEF OwnKept, References
<1>9. TabStep(t)
  BY <1>2, <1>5, <1>7, <1>8 DEF TabStep
<1> QED BY <1>4, <1>5, <1>6, <1>9, QuietKeeps

\* Another device: its calls are awaited by no tab, and its keys are no tab's.
LEMMA ElsewhereKeeps ==
    ASSUME Inv, NEW d \in Devices, Elsewhere(d)
    PROVE  Inv'
<1>1. PICK s \in Slots, a \in Accounts, act \in {"prepare", "start", "recover"}, k \in Keys :
        /\ s[1] = d
        /\ IF act = "prepare"
           THEN by[k] = None /\ by' = [by EXCEPT ![k] = <<d, a>>]
           ELSE k \in OwnedBy(a) /\ UNCHANGED by
        /\ call' = [call EXCEPT ![s] = [act |-> act, owner |-> a, ref |-> k, at |-> "load"]]
  <2>1. PICK s \in Slots, a \in Accounts, act \in {"prepare", "start", "recover"}, k \in Keys :
          /\ s[1] = d /\ call[s] = NoCall
          /\ IF act = "prepare"
             THEN k \in Draws[d] /\ by[k] = None /\ by' = [by EXCEPT ![k] = <<d, a>>]
             ELSE k \in OwnedBy(a) /\ UNCHANGED by
          /\ act = "start" => hold[k] = "held"
          /\ act = "recover" => hold[k] = "begun" /\ clock[k] = 2
          /\ call' = [call EXCEPT ![s] = [act |-> act, owner |-> a, ref |-> k, at |-> "load"]]
    BY DEF Elsewhere
  <2>2. IF act = "prepare"
        THEN by[k] = None /\ by' = [by EXCEPT ![k] = <<d, a>>]
        ELSE k \in OwnedBy(a) /\ UNCHANGED by
    BY <2>1
  <2> QED BY <2>1, <2>2
<1>2. UNCHANGED <<tab, saved, starts, hold, session, posts, clock, faults>>
  BY DEF Elsewhere, server
<1>3. /\ \A l \in Keys : by'[l] = by[l] \/ (by[l] = None /\ by'[l] = <<d, a>>)
      /\ by'[k] # None
      /\ by' \in [Keys -> ((Tabs \union Devices) \X Accounts) \union {None}]
  <2>1. by \in [Keys -> ((Tabs \union Devices) \X Accounts) \union {None}]
    BY DEF Inv, TypeOK
  <2>2. <<d, a>> # None
    BY Nothing
  <2>3. k \in OwnedBy(a) => by[k] # None
    BY DEF OwnedBy, Inv, CallKnows
  <2> QED BY <1>1, <2>1, <2>2, <2>3
<1>4. /\ call' \in [Slots -> CallRow] /\ \A r \in Slots : r # s => call'[r] = call[r]
      /\ call'[s].act = act /\ call'[s].at = "load" /\ RefOf(s)' = k
  <2>1. [act |-> act, owner |-> a, ref |-> k, at |-> "load"] \in CallRow
    BY DEF CallRow, Actions, Places
  <2> QED BY <1>1, <2>1 DEF Inv, TypeOK, CallRow, RefOf
<1>5. TypeOK'
  BY <1>2, <1>3, <1>4 DEF Inv, TypeOK, CallRow
<1>6. Begins(s) /\ \A l \in Keys : by[l] # None => by'[l] = by[l]
  BY <1>3, <1>4, Nothing DEF Begins
<1>7. CallKnows' /\ PostOnce'
  BY <1>2, <1>6, CallsBegun
<1>8. TabKnows'
  <2> SUFFICES ASSUME NEW t \in Tabs PROVE OwnPage(t)'
    BY DEF TabKnows
  <2>1. OwnPage(t) /\ tab[t] \in TabRow
    BY TabType
  <2>2. tab[t].key # None => by[tab[t].key] # None
    <3>1. tab[t].key # None => by[tab[t].key] = <<t, tab[t].account>> /\ tab[t].account \in Accounts
      BY <2>1 DEF OwnPage, TabRow
    <3> QED BY <3>1, PairIsSomething
  <2> QED BY <1>2, <1>6, <2>1, <2>2 DEF OwnPage, TabRow
<1>9. StorageKnows'
  <2> SUFFICES ASSUME NEW t \in Tabs, NEW b \in Accounts, saved[t][b] # None PROVE OwnKept(t, b)'
    BY <1>2 DEF StorageKnows
  <2>1. OwnKept(t, b) /\ saved[t][b] \in References
    BY DEF Inv, StorageKnows, TypeOK
  <2>2. saved[t][b].key # None => by[saved[t][b].key] # None
    <3>1. saved[t][b].key # None => by[saved[t][b].key] = <<t, b>>
      BY <2>1 DEF OwnKept
    <3> QED BY <3>1, PairIsSomething
  <2> QED BY <1>2, <1>6, <2>1, <2>2 DEF OwnKept, References
<1>10. ReservedIsSaved'
  <2> SUFFICES ASSUME NEW l \in Keys, NEW t \in Tabs, NEW b \in Accounts, by'[l] = <<t, b>>, Reserving(l)'
               PROVE  saved[t][b] # None /\ saved[t][b].key = l
    BY <1>2 DEF ReservedIsSaved
  <2>1. t # d
    BY Apart
  <2>2. by[l] = <<t, b>>
    BY <1>3, <2>1
  <2>3. Reserving(l)
    <3>1. l = k => hold[l] # "none"
      <4>1. act = "prepare" => by'[k] = <<d, a>>
        BY <1>1 DEF Inv, TypeOK
      <4>2. act # "prepare" => hold[k] # "none"
        BY <1>1 DEF OwnedBy
      <4> QED BY <2>1, <4>1, <4>2
    <3> QED BY <1>2, <1>4, <3>1 DEF Reserving, Asked, At, RefOf
  <2> QED BY <2>2, <2>3 DEF Inv, ReservedIsSaved
<1>11. AwaitedIsOwn'
  <2> SUFFICES ASSUME NEW r \in Slots, WaitsFor(r)' PROVE OwnCall(r)'
    BY DEF AwaitedIsOwn
  <2>1. WaitsFor(r) /\ r # s /\ r[1] \in Tabs
    BY <1>1, <1>2, Apart DEF WaitsFor
  <2>2. OwnCall(r) /\ call'[r] = call[r] /\ RefOf(r)' = RefOf(r) /\ RefOf(r) \in Keys \union {None}
    BY <1>4, <2>1 DEF Inv, AwaitedIsOwn, TypeOK, RefOf
  <2> QED BY <1>2, <1>6, <2>2 DEF OwnCall, Underway
<1> QED BY <1>5, <1>7, <1>8, <1>9, <1>10, <1>11 DEF Inv

LEMMA OwnedNext == Inv /\ [Next]_vars => Inv'
<1> SUFFICES ASSUME Inv, [Next]_vars PROVE Inv'
  OBVIOUS
<1>1. ASSUME UNCHANGED vars PROVE Inv'
  <2>1. UNCHANGED <<tab, saved, by, starts, hold, clock, session, posts, call, faults>>
    BY <1>1 DEF vars, browser, server
  <2>2. TypeOK' /\ EndCalls /\ \A k \in Keys : Further(k)
    BY <2>1 DEF Inv, TypeOK, EndCalls, Further, HasAttempt
  <2> QED BY <2>1, <2>2, CalmKeeps
<1> QED
  BY <1>1, OutsideKeeps, ServerKeeps, DropKeeps, HearKeeps, AskPlainKeeps, PrepareKeeps, CheckoutKeeps,
     TimeOutKeeps, SignKeeps, ElsewhereKeeps DEF Next

-----------------------------------------------------------------------------
\* What the tabs, their storage and the calls under way know of the holds is
\* true, in every state the tabs, the devices and the server reach.
THEOREM TabsKnowTheirHolds == Spec => []Inv
BY OwnedInit, OwnedNext, PTL DEF Spec

\* Whatever answer is lost and however often the buyer reloads or signs out
\* and in, one tab never takes a second reservation for an account.
THEOREM OneReservation == Spec => []OneReservationPerTab
<1>1. ASSUME Inv PROVE OneReservationPerTab
  <2> SUFFICES ASSUME NEW k \in Keys, NEW l \in Keys, hold[k] # "none", hold[l] # "none",
                      by[k] = by[l], by[k][1] \in Tabs
               PROVE  k = l
    BY DEF OneReservationPerTab
  <2>1. PICK t \in Tabs, a \in Accounts : by[k] = <<t, a>>
    BY <1>1 DEF Inv, CallKnows, TypeOK
  <2>2. Reserving(k) /\ Reserving(l) /\ by[l] = <<t, a>>
    BY <2>1 DEF Reserving
  <2>3. saved[t][a].key = k /\ saved[t][a].key = l
    BY <1>1, <2>1, <2>2 DEF Inv, ReservedIsSaved
  <2> QED BY <2>3
<1> QED BY <1>1, TabsKnowTheirHolds, PTL

\* Of several tabs and devices that start one hold, one sends it to the
\* provider, once.
THEOREM HoldIsPostedOnce == Spec => []OnePostPerHold
<1>1. Inv => OnePostPerHold
  BY DEF Inv, PostOnce, OnePostPerHold
<1> QED BY <1>1, TabsKnowTheirHolds, PTL

\* A redirect and a release that a tab shows are those of its own hold, which
\* is the signed-in account's.
THEOREM TabShowsItsOwn == Spec => []ShownIsOwn
<1>1. ASSUME Inv PROVE ShownIsOwn
  <2> SUFFICES ASSUME NEW t \in Tabs
               PROVE  /\ tab[t].redirect # None =>
                            /\ tab[t].redirect = tab[t].hold
                            /\ by[tab[t].hold][2] = tab[t].account
                            /\ session[tab[t].hold] # "none"
                      /\ tab[t].released => hold[tab[t].hold] = "recovered"
    BY DEF ShownIsOwn
  <2> QED BY <1>1 DEF Inv, TabKnows, OwnPage
<1> QED BY <1>1, TabsKnowTheirHolds, PTL

-----------------------------------------------------------------------------
(* Starts.  The page knows what storage knows (OwnKept), so it is enough that *)
(* storage knows of each start that was sent: a start is written before it is *)
(* sent, and what is written later never takes it back.                       *)
StartsSaved ==
    \A t \in Tabs, a \in Accounts, k \in Keys : <<t, a, k>> \in starts =>
        saved[t][a] # None /\ saved[t][a].started /\ saved[t][a].hold = k

\* No step makes storage forget a start or its hold: a tab writes only what it
\* has grown to.
LEMMA WritesRemember ==
    ASSUME Inv, NEW t \in Tabs, NEW page, Outgrows(t, page), Persist(t, page),
           NEW u \in Tabs, NEW a \in Accounts, saved[u][a] # None, saved[u][a].started
    PROVE  /\ saved'[u][a] # None /\ saved'[u][a].started
           /\ saved'[u][a].hold = saved[u][a].hold
<1>1. /\ page \in TabRow /\ page.account = tab[t].account /\ page.account \in Accounts
      /\ tab[t].started => page.started
      /\ tab[t].hold # None => page.hold = tab[t].hold
  BY DEF Outgrows
<1>2. OwnKept(u, a)
  BY DEF Inv, StorageKnows
<1>3. CASE u = t /\ a = page.account
  <2>1. tab[t].started /\ tab[t].hold = saved[u][a].hold /\ saved[u][a].hold # None
    BY <1>1, <1>2, <1>3 DEF OwnKept
  <2>2. saved'[u][a] = Reference(page)
    BY <1>3 DEF Persist, Inv, TypeOK
  <2>3. Reference(page) # None /\ Reference(page).started = page.started /\ Reference(page).hold = page.hold
    BY <1>1, Nothing DEF Reference, References, TabRow
  <2> QED BY <1>1, <2>1, <2>2, <2>3
<1>4. CASE ~(u = t /\ a = page.account)
  <2>1. saved'[u][a] = saved[u][a]
    BY <1>1, <1>4 DEF Persist, Inv, TypeOK
  <2> QED BY <2>1
<1> QED BY <1>3, <1>4

\* What a step may write: nothing, or such a page; and a start is sent only with
\* the page that tells of it.
Writes(t, page) ==
    /\ Outgrows(t, page) /\ Persist(t, page)
    /\ \/ starts' = starts
       \/ page.started /\ starts' = starts \union {<<t, page.account, page.hold>>}

NothingNew == saved' = saved /\ starts' = starts

LEMMA StorageWrites ==
    ASSUME Inv, [Next]_vars
    PROVE  NothingNew \/ \E t \in Tabs, page \in TabRow : Writes(t, page)
<1>1. ASSUME NEW t \in Tabs, Prepare(t)
      PROVE  NothingNew \/ \E page \in TabRow : Writes(t, page)
  <2>1. /\ tab[t] \in TabRow /\ OwnPage(t) /\ tab[t].account \in Accounts /\ tab[t].hold = None
        /\ UNCHANGED <<hold, starts>>
    BY <1>1, TabType DEF Prepare, Cleared, server
  <2>2. PICK k \in Keys :
          /\ IF tab[t].key # None THEN k = tab[t].key /\ UNCHANGED by
             ELSE by' = [by EXCEPT ![k] = <<t, tab[t].account>>]
          /\ Persist(t, [tab[t] EXCEPT !.key = k]) \/ saved' = saved
    BY <1>1 DEF Prepare, PersistFails
  <2> DEFINE page == [tab[t] EXCEPT !.key = k]
  <2>3. /\ page \in TabRow /\ page.account = tab[t].account /\ page.key = k /\ page.hold = None
        /\ page.started = tab[t].started /\ page.released = tab[t].released
    BY <2>1 DEF TabRow
  <2>4. by'[k] = <<t, tab[t].account>>
    BY <2>1, <2>2 DEF OwnPage, Inv, TypeOK
  <2>5. Persist(t, page) \/ saved' = saved
    BY <2>2
  <2> HIDE DEF page
  <2>6. Outgrows(t, page)
    BY <2>1, <2>2, <2>3, <2>4 DEF Outgrows, OwnPage
  <2> QED BY <2>1, <2>3, <2>5, <2>6 DEF Writes, NothingNew
<1>2. ASSUME NEW t \in Tabs, NEW act \in {"start", "resume"}, Checkout(t, act)
      PROVE  NothingNew \/ \E page \in TabRow : Writes(t, page)
  <2> DEFINE page == [tab[t] EXCEPT !.started = TRUE]
  <2>1. /\ tab[t] \in TabRow /\ OwnPage(t) /\ tab[t].account \in Accounts /\ tab[t].hold # None
        /\ UNCHANGED <<by, hold>>
        /\ \/ Persist(t, page) /\ starts' = starts \union {<<t, page.account, page.hold>>}
           \/ NothingNew
    BY <1>2, TabType DEF Checkout, SendStart, Cleared, PersistFails, server, NothingNew
  <2>2. /\ page \in TabRow /\ page.account = tab[t].account /\ page.key = tab[t].key
        /\ page.hold = tab[t].hold /\ page.started = TRUE /\ page.released = tab[t].released
    BY <2>1 DEF TabRow
  <2> HIDE DEF page
  <2>3. Outgrows(t, page)
    BY <2>1, <2>2 DEF Outgrows, OwnPage
  <2> QED BY <2>1, <2>2, <2>3 DEF Writes
<1>3. ASSUME NEW s \in Slots, Hear(s)
      PROVE  NothingNew \/ \E t \in Tabs, page \in TabRow : Writes(t, page)
  <2>1. PICK t \in Tabs : t = s[1]
    BY <1>3 DEF Hear, WaitsFor
  <2>2. PICK page : page = [After(tab[t], call[s]) EXCEPT !.wait = None]
    OBVIOUS
  <2>3. /\ Answered(s) /\ WaitsFor(s) /\ UNCHANGED <<by, starts>>
        /\ Persist(t, page) \/ saved' = saved
    BY <1>3, <2>1, <2>2 DEF Hear, PersistFails
  <2>4. Outgrows(t, page)
    BY <2>1, <2>2, <2>3, AfterGrows
  <2>5. page \in TabRow
    BY <2>4 DEF Outgrows
  <2> QED BY <2>3, <2>4, <2>5 DEF Writes, NothingNew
<1>4. ASSUME UNCHANGED vars PROVE NothingNew
  BY <1>4 DEF vars, browser, NothingNew
<1>5. ASSUME NEW k \in Keys, Tick(k) \/ ProviderIsPaid(k) \/ ProviderExpires(k) \/ CloseHold(k)
      PROVE  NothingNew
  BY <1>5 DEF Tick, ProviderIsPaid, ProviderExpires, CloseHold, browser, NothingNew
<1>6. ASSUME NEW s \in Slots, Serve(s) \/ LoseCall(s) \/ DropAnswer(s) PROVE NothingNew
  BY <1>6 DEF Serve, LoseCall, DropAnswer, PrepareOwned, LoadHold, InsertAttempt, CreateSession,
              LookupSession, ConfirmRedirect, DiscoverHolds, DiscoverAttempts, LoadExpired,
              ReleaseOwnedExpired, browser, NothingNew
<1>7. ASSUME NEW t \in Tabs, Inspect(t) \/ RecoverExpired(t) \/ TimeOut(t) \/ SignIn(t) \/ SignOut(t)
      PROVE  NothingNew
  BY <1>7 DEF Inspect, RecoverExpired, TimeOut, SignIn, SignOut, NothingNew
<1>8. ASSUME NEW d \in Devices, Elsewhere(d) PROVE NothingNew
  BY <1>8 DEF Elsewhere, NothingNew
<1> QED BY <1>1, <1>2, <1>3, <1>4, <1>5, <1>6, <1>7, <1>8 DEF Next

LEMMA StartsKept ==
    ASSUME Inv, StartsSaved, [Next]_vars
    PROVE  StartsSaved'
<1>1. CASE NothingNew
  BY <1>1 DEF NothingNew, StartsSaved
<1>2. ASSUME NEW u \in Tabs, NEW page \in TabRow, Writes(u, page) PROVE StartsSaved'
  <2> SUFFICES ASSUME NEW t \in Tabs, NEW a \in Accounts, NEW k \in Keys, <<t, a, k>> \in starts'
               PROVE  saved'[t][a] # None /\ saved'[t][a].started /\ saved'[t][a].hold = k
    BY DEF StartsSaved
  <2>1. CASE <<t, a, k>> \in starts
    BY <1>2, <2>1, WritesRemember DEF Writes, StartsSaved
  <2>2. CASE <<t, a, k>> \notin starts
    <3>1. t = u /\ a = page.account /\ k = page.hold /\ page.started
      BY <1>2, <2>2 DEF Writes
    <3>2. saved'[t][a] = Reference(page)
      BY <1>2, <3>1 DEF Writes, Persist, Inv, TypeOK
    <3>3. Reference(page) # None /\ Reference(page).started = page.started /\ Reference(page).hold = page.hold
      BY Nothing DEF Reference, References, TabRow
    <3> QED BY <3>1, <3>2, <3>3
  <2> QED BY <2>1, <2>2
<1> QED BY <1>1, <1>2, StorageWrites

\* A start that a tab has sent is remembered with its hold, by the tab's storage
\* and by its page while that account is shown, whatever else the tab hears.
THEOREM StartStaysRemembered == Spec => []StartIsRemembered
<1>1. Init => StartsSaved
  BY DEF Init, StartsSaved
<1>2. Inv /\ StartsSaved /\ [Next]_vars => StartsSaved'
  BY StartsKept
<1>3. Inv /\ StartsSaved => StartIsRemembered
  BY DEF Inv, StorageKnows, OwnKept, StartsSaved, StartIsRemembered
<1> QED BY <1>1, <1>2, <1>3, TabsKnowTheirHolds, PTL DEF Spec
=============================================================================
