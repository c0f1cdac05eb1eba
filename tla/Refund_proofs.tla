---------------------------- MODULE Refund_proofs ----------------------------
(* RefundCoordination keeps its invariants and implements RefundPromise, for  *)
(* any set of tickets and any number of requests, recoveries and events.      *)
(*                                                                            *)
(* The argument is about ownership.  A selection that is known to the ledger  *)
(* holds the claims of its tickets for ever, so known selections are disjoint *)
(* and at most one coordinator works on each; while that coordinator has not  *)
(* heard the provider, nobody else may write the selection's row.             *)
EXTENDS RefundCoordination, TLAPS

\* A known selection holds the claim of each of its tickets.
ClaimRows ==
    \A S \in Selections : Known(S) => refundable /\ \A t \in S : claim[t] = S

\* What a coordinator may rely on at each place.
Places ==
    \A r \in Requests :
        /\ at[r] # "idle" => sel[r] \in Selections
        /\ at[r] = "eligible" => refundable
        /\ at[r] \in {"claimed", "called"} => ledger[sel[r]].state = "pending"
        /\ at[r] = "claimed" => post[sel[r]] = "none"
        /\ at[r] \in {"refunded", "reversed", "unreversed"} =>
               Known(sel[r]) /\ post[sel[r]] = "succeeded"
        /\ at[r] = "reversed" => reversed[sel[r]]

\* What an operator may rely on at each place.
Recoveries ==
    \A o \in Operators :
        /\ op[o] # "idle" => target[o] \in Selections /\ Known(target[o])
        /\ op[o] \in {"succeeded", "promoted"} => refund[target[o]] = "succeeded"
        /\ op[o] = "failed" => refund[target[o]] \in {"failed", "canceled"}
        /\ op[o] = "reversed" => reversed[target[o]]

\* The provider's refund is that of the one POST.
Posts ==
    \A S \in Selections :
        /\ post[S] # "none" => Known(S)
        /\ refund[S] = "none" <=> post[S] \in {"none", "sent", "refused"}
        /\ post[S] = "succeeded" => refund[S] = "succeeded"

\* Exactly the tickets of reversed refunds are void.
Reversals ==
    /\ \A S \in Selections : reversed[S] => Known(S) /\ refund[S] = "succeeded"
    /\ \A t \in Tickets : ticket[t].status = "void" <=> t \in Items

RInv ==
    /\ TypeOK
    /\ ClaimRows /\ Places /\ OneCoordinatorPerTicket
    /\ Recoveries /\ Posts /\ Reversals /\ LedgerTellsTruth

-----------------------------------------------------------------------------
(* Facts about a state.                                                       *)

LEMMA KnownDisjoint ==
    ASSUME ClaimRows, NEW S \in Selections, NEW Q \in Selections,
           Known(S), Known(Q), S # Q
    PROVE  S \intersect Q = {}
BY DEF ClaimRows

\* Two owners are of different selections.
LEMMA OwnersDiffer ==
    ASSUME Places, OneCoordinatorPerTicket,
           NEW r \in Requests, NEW q \in Requests, r # q, at[r] \in Owning, at[q] \in Owning
    PROVE  sel[r] # sel[q]
<1>1. at[r] # "idle" /\ at[q] # "idle"
  BY DEF Owning, Running
<1>2. sel[r] \in Selections /\ sel[q] \in Selections
  BY <1>1 DEF Places
<1>3. sel[r] \intersect sel[q] = {}
  BY DEF OneCoordinatorPerTicket
<1> QED BY <1>2, <1>3 DEF Selections

\* RefundedIsReversible follows from who owns which ticket.
LEMMA RefundsAreReversible ==
    ASSUME RInv PROVE RefundedIsReversible
<1> SUFFICES ASSUME NEW S \in Selections, MayBePaid(S), ~reversed[S]
             PROVE  /\ refundable
                    /\ S \intersect Items = {}
                    /\ \A t \in S : ticket[t].status = "issued"
  BY DEF RefundedIsReversible
<1>1. Known(S)
  BY DEF RInv, Posts, MayBePaid
<1>2. refundable
  BY <1>1 DEF RInv, ClaimRows
<1>3. S \intersect Items = {}
  <2> SUFFICES ASSUME NEW Q \in Selections, reversed[Q] PROVE S \intersect Q = {}
    BY DEF Items
  <2>1. Known(Q) /\ Q # S
    BY DEF RInv, Reversals
  <2> QED BY <1>1, <2>1, KnownDisjoint DEF RInv
<1>4. ASSUME NEW t \in S PROVE ticket[t].status = "issued"
  <2>1. t \in Tickets /\ t \notin Items
    BY <1>3 DEF Selections
  <2>2. ticket[t].status \in {"issued", "void"}
    BY <2>1 DEF RInv, TypeOK
  <2> QED BY <2>1, <2>2 DEF RInv, Reversals
<1> QED BY <1>2, <1>3, <1>4

-----------------------------------------------------------------------------
LEMMA RefundInit == Init => RInv
<1> SUFFICES ASSUME Init PROVE RInv
  OBVIOUS
<1>1. TypeOK
  <2>1. NoRow \in LedgerRows
    BY DEF NoRow, LedgerRows
  <2> QED BY <2>1 DEF Init, TypeOK, Nothing, Selections
<1>2. \A S \in Selections : ~Known(S)
  BY DEF Init, Known, NoRow
<1>3. ClaimRows /\ Posts
  BY <1>2 DEF ClaimRows, Posts, Init
<1>4. Places /\ OneCoordinatorPerTicket /\ Recoveries
  BY DEF Init, Places, OneCoordinatorPerTicket, Recoveries, Owning, Running
<1>5. Reversals
  <2>1. Items = {}
    BY DEF Init, Items
  <2> QED BY <2>1 DEF Init, Reversals
<1>6. LedgerTellsTruth
  BY DEF Init, LedgerTellsTruth, NoRow
<1> QED BY <1>1, <1>3, <1>4, <1>5, <1>6 DEF RInv

-----------------------------------------------------------------------------
(* Steps that write one row of the ledger.                                    *)

\* A row that tells the truth about the refund of S.
Truthful(S, row) ==
    /\ row \in LedgerRows /\ row.state # "none"
    /\ row.state = "failed" => ~MayBePaid(S)
    /\ row.state = "provider_refunded" => refund[S] = "succeeded"
    /\ row.state = "reversed" => reversed[S]
    /\ row.reference => refund[S] # "none"

LEMMA RowWritten ==
    ASSUME RInv, NEW S \in Selections, Known(S), NEW row, Truthful(S, row),
           ledger' \in {ledger, [ledger EXCEPT ![S] = row]},
           UNCHANGED <<refundable, ticket, reversed, claim, provider>>
    PROVE  /\ ledger' \in [Selections -> LedgerRows]
           /\ \A Q \in Selections : Q # S => ledger'[Q] = ledger[Q]
           /\ ledger'[S] \in {ledger[S], row}
           /\ \A Q \in Selections : Known(Q)' <=> Known(Q)
           /\ ClaimRows' /\ Posts' /\ Reversals' /\ LedgerTellsTruth'
<1>1. ledger \in [Selections -> LedgerRows]
  BY DEF RInv, TypeOK
<1>2. /\ ledger' \in [Selections -> LedgerRows]
      /\ \A Q \in Selections : Q # S => ledger'[Q] = ledger[Q]
      /\ ledger'[S] \in {ledger[S], row}
  BY <1>1 DEF Truthful
<1>3. \A Q \in Selections : Known(Q)' <=> Known(Q)
  BY <1>2 DEF Known, Truthful
<1>4. UNCHANGED <<refundable, ticket, reversed, claim, post, refund>>
  BY DEF provider
<1>5. ClaimRows' /\ Posts'
  BY <1>3, <1>4 DEF ClaimRows, Posts, RInv
<1>6. Reversals'
  BY <1>3, <1>4 DEF Reversals, RInv, Items
<1>7. LedgerTellsTruth'
  <2>1. \A Q \in Selections : MayBePaid(Q)' <=> MayBePaid(Q)
    BY <1>4 DEF MayBePaid
  <2>2. \A Q \in Selections : Q # S =>
           /\ ledger'[Q].state = "failed" => ~MayBePaid(Q)
           /\ ledger'[Q].state = "provider_refunded" => refund[Q] = "succeeded"
           /\ ledger'[Q].state = "reversed" => reversed[Q]
           /\ ledger'[Q].reference => refund[Q] # "none"
    BY <1>2 DEF RInv, LedgerTellsTruth
  <2>3. /\ ledger'[S].state = "failed" => ~MayBePaid(S)
        /\ ledger'[S].state = "provider_refunded" => refund[S] = "succeeded"
        /\ ledger'[S].state = "reversed" => reversed[S]
        /\ ledger'[S].reference => refund[S] # "none"
    BY <1>2 DEF RInv, LedgerTellsTruth, Truthful
  <2> QED BY <1>4, <2>1, <2>2, <2>3 DEF LedgerTellsTruth
<1> QED BY <1>2, <1>3, <1>5, <1>6, <1>7

\* A coordinator writes its own row, which no other coordinator owns.
LEMMA SetStateKeeps ==
    ASSUME RInv, NEW r \in Requests, at[r] \in Owning,
           NEW row, Truthful(sel[r], row),
           NEW next \in {"refunded", "returned"},
           next = "refunded" => post[sel[r]] = "succeeded",
           SetState(r, row, next),
           UNCHANGED <<refundable, ticket, reversed, claim, recovery, event, provider>>
    PROVE  RInv'
<1> DEFINE S == sel[r]
<1>1. S \in Selections /\ Known(S)
  BY DEF RInv, Places, Owning, Running, Known
<1>2. ledger' \in {ledger, [ledger EXCEPT ![S] = row]}
  BY DEF SetState
<1>3. /\ UNCHANGED <<refundable, ticket, reversed, claim, op, target, event, post, refund, sel>>
      /\ UNCHANGED <<refundable, ticket, reversed, claim, provider>>
  BY DEF SetState, Go, recovery, provider
<1>4. at \in [Requests -> {"idle"} \union Running \union Ended]
  BY DEF RInv, TypeOK
<1>5. /\ at' \in [Requests -> {"idle"} \union Running \union Ended]
      /\ \A q \in Requests : q # r => at'[q] = at[q]
      /\ at'[r] \in {"refunded", "returned"}
      /\ at'[r] = "refunded" => post[S] = "succeeded"
  BY <1>4 DEF SetState, Go, Running, Ended
<1> HIDE DEF S
<1>6. /\ ledger' \in [Selections -> LedgerRows]
      /\ \A Q \in Selections : Q # S => ledger'[Q] = ledger[Q]
      /\ \A Q \in Selections : Known(Q)' <=> Known(Q)
      /\ ClaimRows' /\ Posts' /\ Reversals' /\ LedgerTellsTruth'
  BY <1>1, <1>2, <1>3, RowWritten DEF S
<1>7. TypeOK'
  BY <1>3, <1>5, <1>6 DEF RInv, TypeOK
<1>8. OneCoordinatorPerTicket'
  BY <1>3, <1>5 DEF RInv, OneCoordinatorPerTicket, Owning, Running, S
<1>9. Recoveries'
  BY <1>3, <1>6 DEF RInv, Recoveries
<1>10. Places'
  <2> SUFFICES ASSUME NEW q \in Requests
               PROVE  /\ at'[q] # "idle" => sel[q] \in Selections
                      /\ at'[q] = "eligible" => refundable
                      /\ at'[q] \in {"claimed", "called"} => ledger'[sel[q]].state = "pending"
                      /\ at'[q] = "claimed" => post[sel[q]] = "none"
                      /\ at'[q] \in {"refunded", "reversed", "unreversed"} =>
                             ledger'[sel[q]].state # "none" /\ post[sel[q]] = "succeeded"
                      /\ at'[q] = "reversed" => reversed[sel[q]]
    BY <1>3 DEF Places, Known
  <2> sel[q] \in Selections /\ Known(sel[q]) => ledger'[sel[q]].state # "none"
    BY <1>6 DEF Known
  <2>1. CASE q = r
    BY <1>1, <1>5, <2>1 DEF S
  <2>2. CASE q # r /\ at[q] \in Owning
    <3>1. sel[q] # S /\ sel[q] \in Selections /\ at'[q] = at[q]
      BY <1>5, <2>2, OwnersDiffer DEF RInv, S, Places, Owning, Running
    <3>2. ledger'[sel[q]] = ledger[sel[q]]
      BY <1>6, <3>1
    <3> QED BY <3>1, <3>2 DEF RInv, Places, Known
  <2>3. CASE q # r /\ at[q] \notin Owning
    <3>1. at'[q] = at[q]
      BY <1>5, <2>3
    <3> QED BY <2>3, <3>1 DEF RInv, Places, Owning, Running
  <2> QED BY <2>1, <2>2, <2>3
<1> QED BY <1>6, <1>7, <1>8, <1>9, <1>10 DEF RInv

\* Everyone else writes a row only after its coordinator has heard the provider.
LEMMA GuardedWrite ==
    ASSUME RInv, NEW S \in Selections, ledger[S].state \notin {"none", "pending"},
           NEW row, Truthful(S, row),
           ledger' \in {ledger, [ledger EXCEPT ![S] = row]},
           UNCHANGED <<refundable, ticket, reversed, claim, run, provider>>
    PROVE  /\ ledger' \in [Selections -> LedgerRows]
           /\ \A Q \in Selections : Known(Q)' <=> Known(Q)
           /\ ClaimRows' /\ Posts' /\ Reversals' /\ LedgerTellsTruth'
           /\ Places' /\ OneCoordinatorPerTicket'
<1>1. Known(S)
  BY DEF Known
<1>2. UNCHANGED <<refundable, ticket, reversed, claim, provider>>
  OBVIOUS
<1>3. UNCHANGED <<refundable, reversed, at, sel, post>>
  BY DEF run, provider
<1>4. /\ ledger' \in [Selections -> LedgerRows]
      /\ \A Q \in Selections : Q # S => ledger'[Q] = ledger[Q]
      /\ \A Q \in Selections : Known(Q)' <=> Known(Q)
      /\ ClaimRows' /\ Posts' /\ Reversals' /\ LedgerTellsTruth'
  BY <1>1, <1>2, RowWritten
<1>5. OneCoordinatorPerTicket'
  BY <1>3 DEF RInv, OneCoordinatorPerTicket
<1>6. \A Q \in Selections : /\ Known(Q) => ledger'[Q].state # "none"
                            /\ ledger[Q].state = "pending" => ledger'[Q].state = "pending"
  BY <1>4 DEF Known
<1>7. Places'
  BY <1>3, <1>6 DEF RInv, Places, Known
<1> QED BY <1>4, <1>5, <1>7

-----------------------------------------------------------------------------
(* Steps that may reverse the tickets of a refund.                            *)

LEMMA ReversalKeeps ==
    ASSUME RInv, NEW S \in Selections, Known(S), refund[S] = "succeeded",
           NEW seen \in BOOLEAN, CallReversal(S, seen),
           UNCHANGED <<refundable, ledger, claim, provider>>
    PROVE  /\ ticket' \in [Tickets -> [status : {"issued", "void"}, in : BOOLEAN]]
           /\ reversed' \in [Selections -> BOOLEAN]
           /\ \A Q \in Selections : reversed[Q] => reversed'[Q]
           /\ seen => reversed'[S]
           /\ ClaimRows' /\ Posts' /\ Reversals' /\ LedgerTellsTruth'
<1> DEFINE Rows == [status : {"issued", "void"}, in : BOOLEAN]
<1>1. ticket \in [Tickets -> Rows] /\ reversed \in [Selections -> BOOLEAN]
  BY DEF RInv, TypeOK
<1>2. UNCHANGED <<refundable, ledger, claim, post, refund>>
  BY DEF provider
<1>3. \A Q \in Selections : Known(Q)' <=> Known(Q)
  BY <1>2 DEF Known
<1>4. ClaimRows' /\ Posts'
  BY <1>2, <1>3 DEF RInv, ClaimRows, Posts
<1>5. CASE UNCHANGED <<ticket, reversed>> /\ (seen => reversed[S])
  <2>1. Reversals' /\ LedgerTellsTruth'
    BY <1>2, <1>3, <1>5 DEF RInv, Reversals, LedgerTellsTruth, Items, MayBePaid
  <2> QED BY <1>1, <1>4, <1>5, <2>1
<1>6. CASE ReverseRefundedTickets(S)
  <2>1. /\ reversed' = [reversed EXCEPT ![S] = TRUE]
        /\ ticket' = [t \in Tickets |-> IF t \in S THEN [ticket[t] EXCEPT !.status = "void"]
                                                   ELSE ticket[t]]
    BY <1>6 DEF ReverseRefundedTickets
  <2>2. \A t \in Tickets : [ticket[t] EXCEPT !.status = "void"] \in Rows
    BY <1>1
  <2>3. ticket' \in [Tickets -> Rows]
    BY <1>1, <2>1, <2>2
  <2>4. /\ reversed' \in [Selections -> BOOLEAN]
        /\ reversed'[S]
        /\ \A Q \in Selections : Q # S => reversed'[Q] = reversed[Q]
    BY <1>1, <2>1
  <2>5. Items' = Items \union S
    BY <2>4 DEF Items
  <2>6. ASSUME NEW t \in Tickets
        PROVE  ticket'[t].status = "void" <=> t \in Items \union S
    <3>1. CASE t \in S
      <4>1. ticket[t] \in Rows
        BY <1>1
      <4>2. ticket'[t] = [ticket[t] EXCEPT !.status = "void"]
        BY <2>1, <3>1
      <4>3. ticket'[t].status = "void"
        BY <4>1, <4>2
      <4> QED BY <3>1, <4>3
    <3>2. CASE t \notin S
      BY <2>1, <3>2 DEF RInv, Reversals
    <3> QED BY <3>1, <3>2
  <2>7. \A Q \in Selections : reversed'[Q] => Known(Q)' /\ refund'[Q] = "succeeded"
    BY <1>2, <1>3, <2>4 DEF RInv, Reversals
  <2>8. Reversals'
    BY <2>5, <2>6, <2>7 DEF Reversals
  <2>9. LedgerTellsTruth'
    BY <1>2, <2>4 DEF RInv, LedgerTellsTruth, MayBePaid
  <2> QED BY <1>4, <2>3, <2>4, <2>8, <2>9
<1> QED BY <1>5, <1>6 DEF CallReversal

-----------------------------------------------------------------------------
(* The coordinator.                                                           *)

\* A coordinator that moves without touching a table.
LEMMA MoveKeeps ==
    ASSUME RInv, NEW r \in Requests,
           UNCHANGED <<refundable, database, recovery, event, provider>>,
           NEW place \in {"gated", "eligible", "returned", "lost"},
           NEW S \in SUBSET Tickets, S \in Selections,
           at' = [at EXCEPT ![r] = place],
           sel' = [sel EXCEPT ![r] = S],
           place = "eligible" => refundable
    PROVE  RInv'
<1>1. UNCHANGED <<refundable, ticket, reversed, ledger, claim, op, target, event, post, refund>>
  BY DEF database, recovery, provider
<1>2. /\ at \in [Requests -> {"idle"} \union Running \union Ended]
      /\ sel \in [Requests -> SUBSET Tickets]
  BY DEF RInv, TypeOK
<1>3. /\ at' \in [Requests -> {"idle"} \union Running \union Ended]
      /\ sel' \in [Requests -> SUBSET Tickets]
      /\ at'[r] = place /\ sel'[r] = S
      /\ \A q \in Requests : q # r => at'[q] = at[q] /\ sel'[q] = sel[q]
  BY <1>2 DEF Running, Ended
<1>4. TypeOK'
  BY <1>1, <1>3 DEF RInv, TypeOK
<1>5. \A Q \in Selections : Known(Q)' <=> Known(Q)
  BY <1>1 DEF Known
<1>6. ClaimRows' /\ Posts' /\ Recoveries'
  BY <1>1, <1>5 DEF RInv, ClaimRows, Posts, Recoveries
<1>7. Reversals' /\ LedgerTellsTruth'
  BY <1>1, <1>5 DEF RInv, Reversals, LedgerTellsTruth, MayBePaid, Items
<1>8. OneCoordinatorPerTicket'
  BY <1>3 DEF RInv, OneCoordinatorPerTicket, Owning, Running
<1>9. Places'
  BY <1>1, <1>3 DEF RInv, Places, Known
<1> QED BY <1>4, <1>6, <1>7, <1>8, <1>9 DEF RInv

\* The claim: from here on the selection is the coordinator's own.
LEMMA ClaimKeeps ==
    ASSUME RInv, NEW r \in Requests, ClaimTickets(r)
    PROVE  RInv'
<1> DEFINE S == sel[r]
<1>1. S \in Selections /\ refundable
  BY DEF RInv, Places, ClaimTickets
<1>2. CASE ~(~Known(S) /\ \A t \in S : claim[t] = Nothing)
  <2>1. /\ at' = [at EXCEPT ![r] = "returned"]
        /\ UNCHANGED <<refundable, database, recovery, event, provider, sel>>
    BY <1>2 DEF ClaimTickets, Go, database
  <2>2. sel' = [sel EXCEPT ![r] = S]
    BY <2>1 DEF RInv, TypeOK
  <2> QED BY <1>1, <2>1, <2>2, MoveKeeps DEF Selections
<1>3. CASE ~Known(S) /\ \A t \in S : claim[t] = Nothing
  <2> DEFINE row == [NoRow EXCEPT !.state = "pending"]
  <2>1. /\ ledger' = [ledger EXCEPT ![S] = row]
        /\ claim' = [t \in Tickets |-> IF t \in S THEN S ELSE claim[t]]
        /\ at' = [at EXCEPT ![r] = "claimed"]
        /\ UNCHANGED <<refundable, ticket, reversed, op, target, event, post, refund, sel>>
    BY <1>3 DEF ClaimTickets, Go, recovery, provider
  <2>2. /\ ledger \in [Selections -> LedgerRows]
        /\ claim \in [Tickets -> SUBSET Tickets]
        /\ at \in [Requests -> {"idle"} \union Running \union Ended]
    BY DEF RInv, TypeOK
  <2>3. row \in LedgerRows /\ row.state = "pending" /\ row.reference = FALSE
    BY DEF NoRow, LedgerRows
  <2> HIDE DEF S, row
  <2>4. /\ ledger' \in [Selections -> LedgerRows]
        /\ ledger'[S] = row
        /\ \A Q \in Selections : Q # S => ledger'[Q] = ledger[Q]
    BY <1>1, <2>1, <2>2, <2>3
  <2>5. /\ at' \in [Requests -> {"idle"} \union Running \union Ended]
        /\ at'[r] = "claimed"
        /\ \A q \in Requests : q # r => at'[q] = at[q]
    BY <2>1, <2>2 DEF Running
  <2>6. S \in SUBSET Tickets /\ S # {}
    BY <1>1 DEF Selections
  <2>7. TypeOK'
    <3>1. claim' \in [Tickets -> SUBSET Tickets]
      BY <2>1, <2>2, <2>6
    <3> QED BY <2>1, <2>4, <2>5, <3>1 DEF RInv, TypeOK
  <2>8. \A Q \in Selections : Known(Q)' <=> Known(Q) \/ Q = S
    BY <2>3, <2>4 DEF Known
  <2>9. ClaimRows'
    <3> SUFFICES ASSUME NEW Q \in Selections, Known(Q)'
                 PROVE  refundable' /\ \A t \in Q : claim'[t] = Q
      BY DEF ClaimRows
    <3>1. refundable'
      BY <1>1, <2>1
    <3>2. CASE Q = S
      BY <2>1, <2>6, <3>1, <3>2
    <3>3. CASE Q # S
      <4>1. \A t \in Q : claim[t] = Q
        BY <2>8, <3>3 DEF RInv, ClaimRows
      <4>2. Q # {} /\ Q \in SUBSET Tickets
        BY DEF Selections
      <4>3. \A t \in Q : t \notin S
        BY <1>3, <4>1, <4>2 DEF Nothing, S
      <4> QED BY <2>1, <3>1, <4>1, <4>2, <4>3
    <3> QED BY <3>2, <3>3
  <2>10. post[S] = "none"
    BY <1>1, <1>3 DEF RInv, Posts, S
  <2>11. ASSUME NEW q \in Requests, q # r, at[q] \in Owning
         PROVE  sel[q] \in Selections /\ sel[q] # S /\ S \intersect sel[q] = {}
    <3>1. sel[q] \in Selections /\ Known(sel[q])
      BY <2>11 DEF RInv, Places, Owning, Running, Known
    <3>2. \A t \in sel[q] : claim[t] = sel[q]
      BY <3>1 DEF RInv, ClaimRows
    <3>3. sel[q] # {}
      BY <3>1 DEF Selections
    <3> QED BY <1>3, <3>1, <3>2, <3>3 DEF Nothing, S
  <2>12. OneCoordinatorPerTicket'
    BY <2>1, <2>5, <2>11 DEF RInv, OneCoordinatorPerTicket, Owning, Running, S
  <2>13. Places'
    <3> SUFFICES ASSUME NEW q \in Requests
                 PROVE  /\ at'[q] # "idle" => sel[q] \in Selections
                        /\ at'[q] = "eligible" => refundable
                        /\ at'[q] \in {"claimed", "called"} => ledger'[sel[q]].state = "pending"
                        /\ at'[q] = "claimed" => post[sel[q]] = "none"
                        /\ at'[q] \in {"refunded", "reversed", "unreversed"} =>
                               ledger'[sel[q]].state # "none" /\ post[sel[q]] = "succeeded"
                        /\ at'[q] = "reversed" => reversed[sel[q]]
      BY <2>1 DEF Places, Known
    <3>1. CASE q = r
      BY <1>1, <2>3, <2>4, <2>5, <2>10, <3>1 DEF S
    <3>2. CASE q # r /\ at[q] \in Owning
      <4>1. sel[q] \in Selections /\ sel[q] # S /\ at'[q] = at[q]
        BY <2>5, <2>11, <3>2
      <4>2. ledger'[sel[q]] = ledger[sel[q]]
        BY <2>4, <4>1
      <4> QED BY <4>1, <4>2 DEF RInv, Places, Known
    <3>3. CASE q # r /\ at[q] \notin Owning
      <4>1. at'[q] = at[q]
        BY <2>5, <3>3
      <4> QED BY <3>3, <4>1 DEF RInv, Places, Owning, Running
    <3> QED BY <3>1, <3>2, <3>3
  <2>14. Recoveries' /\ Posts'
    BY <2>1, <2>8 DEF RInv, Recoveries, Posts
  <2>15. Reversals'
    BY <2>1, <2>8 DEF RInv, Reversals, Items
  <2>16. LedgerTellsTruth'
    <3>1. \A Q \in Selections : MayBePaid(Q)' <=> MayBePaid(Q)
      BY <2>1 DEF MayBePaid
    <3>2. \A Q \in Selections : Q # S =>
             /\ ledger'[Q].state = "failed" => ~MayBePaid(Q)
             /\ ledger'[Q].state = "provider_refunded" => refund[Q] = "succeeded"
             /\ ledger'[Q].state = "reversed" => reversed[Q]
             /\ ledger'[Q].reference => refund[Q] # "none"
      BY <2>4 DEF RInv, LedgerTellsTruth
    <3>3. ledger'[S].state = "pending" /\ ledger'[S].reference = FALSE
      BY <2>3, <2>4
    <3> QED BY <2>1, <3>1, <3>2, <3>3 DEF LedgerTellsTruth
  <2> QED BY <2>7, <2>9, <2>12, <2>13, <2>14, <2>15, <2>16 DEF RInv
<1> QED BY <1>2, <1>3

\* The POST is the only one for the selection.
LEMMA CallKeeps ==
    ASSUME RInv, NEW r \in Requests, CallProvider(r)
    PROVE  RInv'
<1> DEFINE S == sel[r]
<1>1. /\ S \in Selections
      /\ at[r] = "claimed" /\ ledger[S].state = "pending" /\ post[S] = "none"
  BY DEF RInv, Places, CallProvider
<1>2. /\ post' = [post EXCEPT ![S] = "sent"]
      /\ at' = [at EXCEPT ![r] = "called"]
      /\ UNCHANGED <<refundable, ticket, reversed, ledger, claim, op, target, event, refund, sel>>
  BY DEF CallProvider, Go, database, recovery
<1>3. /\ post \in [Selections -> {"none", "sent", "refused", "succeeded", "pending", "failed"}]
      /\ at \in [Requests -> {"idle"} \union Running \union Ended]
  BY DEF RInv, TypeOK
<1> HIDE DEF S
<1>4. /\ post' \in [Selections -> {"none", "sent", "refused", "succeeded", "pending", "failed"}]
      /\ post'[S] = "sent"
      /\ \A Q \in Selections : Q # S => post'[Q] = post[Q]
  BY <1>1, <1>2, <1>3
<1>5. /\ at' \in [Requests -> {"idle"} \union Running \union Ended]
      /\ at'[r] = "called"
      /\ \A q \in Requests : q # r => at'[q] = at[q]
  BY <1>2, <1>3 DEF Running
<1>6. TypeOK'
  BY <1>2, <1>4, <1>5 DEF RInv, TypeOK
<1>7. \A Q \in Selections : Known(Q)' <=> Known(Q)
  BY <1>2 DEF Known
<1>8. ClaimRows' /\ Recoveries'
  BY <1>2, <1>7 DEF RInv, ClaimRows, Recoveries
<1>9. Posts'
  BY <1>1, <1>2, <1>4, <1>7 DEF RInv, Posts, Known
<1>10. Reversals'
  BY <1>2, <1>7 DEF RInv, Reversals, Items
<1>11. LedgerTellsTruth'
  BY <1>1, <1>2, <1>4 DEF RInv, LedgerTellsTruth, MayBePaid
<1>12. OneCoordinatorPerTicket'
  BY <1>1, <1>2, <1>5 DEF RInv, OneCoordinatorPerTicket, Owning, Running, S
<1>13. Places'
  <2> SUFFICES ASSUME NEW q \in Requests
               PROVE  /\ at'[q] # "idle" => sel[q] \in Selections
                      /\ at'[q] = "eligible" => refundable
                      /\ at'[q] \in {"claimed", "called"} => ledger[sel[q]].state = "pending"
                      /\ at'[q] = "claimed" => post'[sel[q]] = "none"
                      /\ at'[q] \in {"refunded", "reversed", "unreversed"} =>
                             Known(sel[q]) /\ post'[sel[q]] = "succeeded"
                      /\ at'[q] = "reversed" => reversed[sel[q]]
    BY <1>2 DEF Places, Known
  <2>1. CASE q = r
    BY <1>1, <1>5, <2>1 DEF S
  <2>2. CASE q # r /\ at[q] \in Owning
    <3>1. sel[q] # S /\ sel[q] \in Selections /\ at'[q] = at[q]
      BY <1>1, <1>5, <2>2, OwnersDiffer DEF RInv, S, Places, Owning, Running
    <3>2. post'[sel[q]] = post[sel[q]]
      BY <1>4, <3>1
    <3> QED BY <3>1, <3>2 DEF RInv, Places
  <2>3. CASE q # r /\ at[q] \notin Owning
    <3>1. at'[q] = at[q]
      BY <1>5, <2>3
    <3> QED BY <2>3, <3>1 DEF RInv, Places, Owning, Running
  <2> QED BY <2>1, <2>2, <2>3
<1> QED BY <1>6, <1>8, <1>9, <1>10, <1>11, <1>12, <1>13 DEF RInv

LEMMA ReverseKeeps ==
    ASSUME RInv, NEW r \in Requests, ReverseTickets(r)
    PROVE  RInv'
<1> DEFINE S == sel[r]
<1>1. PICK seen \in BOOLEAN : /\ CallReversal(S, seen)
                              /\ Go(r, IF seen THEN "reversed" ELSE "unreversed")
  BY DEF ReverseTickets
<1>2. S \in Selections /\ Known(S) /\ post[S] = "succeeded" /\ refund[S] = "succeeded"
  BY DEF ReverseTickets, RInv, Places, Posts
<1>3. /\ at[r] = "refunded"
      /\ UNCHANGED <<refundable, ledger, claim, op, target, event, post, refund, sel>>
      /\ UNCHANGED <<refundable, ledger, claim, provider>>
  BY DEF ReverseTickets, Go, recovery, provider
<1> HIDE DEF S
<1>4. /\ ticket' \in [Tickets -> [status : {"issued", "void"}, in : BOOLEAN]]
      /\ reversed' \in [Selections -> BOOLEAN]
      /\ \A Q \in Selections : reversed[Q] => reversed'[Q]
      /\ seen => reversed'[S]
      /\ ClaimRows' /\ Posts' /\ Reversals' /\ LedgerTellsTruth'
  BY <1>1, <1>2, <1>3, ReversalKeeps
<1>5. at \in [Requests -> {"idle"} \union Running \union Ended]
  BY DEF RInv, TypeOK
<1>6. /\ at' \in [Requests -> {"idle"} \union Running \union Ended]
      /\ at'[r] = IF seen THEN "reversed" ELSE "unreversed"
      /\ \A q \in Requests : q # r => at'[q] = at[q]
  BY <1>1, <1>5 DEF Go, Running
<1>7. TypeOK'
  BY <1>3, <1>4, <1>6 DEF RInv, TypeOK
<1>8. OneCoordinatorPerTicket'
  BY <1>3, <1>6 DEF RInv, OneCoordinatorPerTicket, Owning, Running
<1>9. Places'
  BY <1>2, <1>3, <1>4, <1>6 DEF RInv, Places, Known, S
<1>10. Recoveries'
  BY <1>3, <1>4 DEF RInv, Recoveries, Known
<1> QED BY <1>4, <1>7, <1>8, <1>9, <1>10 DEF RInv

\* The rows that are written: the state is one that tells the truth, and the
\* reference was there before or is that of a refund that exists.
Tells(S, state) ==
    /\ state = "failed" => ~MayBePaid(S)
    /\ state = "provider_refunded" => refund[S] = "succeeded"
    /\ state = "reversed" => reversed[S]

Rewritten ==
    {"provider_refunded", "reversed", "reconciliation_needed", "failed"}

Reasons ==
    {"none", "refused", "provider_unverified", "provider_pending",
     "reversal_refused", "webhook_unreconciled", "provider_final"}

LEMMA StateWritten ==
    ASSUME NEW S \in Selections, NEW row \in LedgerRows,
           row.reference => refund[S] # "none",
           NEW state \in Rewritten, Tells(S, state)
    PROVE  Truthful(S, [row EXCEPT !.state = state])
<1> DEFINE new == [row EXCEPT !.state = state]
<1>1. /\ new \in LedgerRows
      /\ new.state = state /\ new.reference = row.reference
  BY DEF LedgerRows, Rewritten
<1> HIDE DEF new
<1>2. Truthful(S, new)
  BY <1>1 DEF Truthful, Tells, Rewritten
<1> QED BY <1>2 DEF new

LEMMA StateAndReasonWritten ==
    ASSUME NEW S \in Selections, NEW row \in LedgerRows,
           row.reference => refund[S] # "none",
           NEW state \in Rewritten, Tells(S, state), NEW why \in Reasons
    PROVE  Truthful(S, [row EXCEPT !.state = state, !.reason = why])
<1> DEFINE new == [row EXCEPT !.state = state, !.reason = why]
<1>1. /\ new \in LedgerRows
      /\ new.state = state /\ new.reference = row.reference
  BY DEF LedgerRows, Rewritten, Reasons
<1> HIDE DEF new
<1>2. Truthful(S, new)
  BY <1>1 DEF Truthful, Tells, Rewritten
<1> QED BY <1>2 DEF new

LEMMA StateAndReferenceWritten ==
    ASSUME NEW S \in Selections, NEW row \in LedgerRows, refund[S] # "none",
           NEW state \in Rewritten, Tells(S, state)
    PROVE  Truthful(S, [row EXCEPT !.state = state, !.reference = TRUE])
<1> DEFINE new == [row EXCEPT !.state = state, !.reference = TRUE]
<1>1. /\ new \in LedgerRows
      /\ new.state = state
  BY DEF LedgerRows, Rewritten
<1> HIDE DEF new
<1>2. Truthful(S, new)
  BY <1>1 DEF Truthful, Tells, Rewritten
<1> QED BY <1>2 DEF new

LEMMA FlagWritten ==
    ASSUME NEW S \in Selections, NEW row \in LedgerRows,
           row.reference => refund[S] # "none", NEW why \in Reasons
    PROVE  Truthful(S, Flagged(row, why))
<1>1. "reconciliation_needed" \in Rewritten /\ Tells(S, "reconciliation_needed")
  BY DEF Rewritten, Tells
<1>2. Truthful(S, [row EXCEPT !.state = "reconciliation_needed", !.reason = why])
  BY <1>1, StateAndReasonWritten
<1> QED BY <1>2 DEF Flagged

LEMMA CoordinatorKeeps ==
    ASSUME RInv, NEW r \in Requests, Coordinate(r)
    PROVE  RInv'
<1> DEFINE S == sel[r]
           Others == UNCHANGED <<refundable, ticket, reversed, claim, recovery, event, provider>>
<1>1. ASSUME at[r] \in Owning
      PROVE  /\ S \in Selections
             /\ Row(r) \in LedgerRows
             /\ Row(r).reference => refund[S] # "none"
  <2>1. at[r] # "idle"
    BY <1>1 DEF Owning, Running
  <2>2. S \in Selections
    BY <2>1 DEF RInv, Places
  <2> QED BY <2>2 DEF RInv, TypeOK, LedgerTellsTruth, Row
<1>2. ASSUME NEW Q \in Selections, Begin(r, Q) PROVE RInv'
  <2>1. /\ UNCHANGED <<refundable, database, recovery, event, provider>>
        /\ at' = [at EXCEPT ![r] = "gated"] /\ sel' = [sel EXCEPT ![r] = Q]
    BY <1>2 DEF Begin
  <2>2. Q \in SUBSET Tickets
    BY DEF Selections
  <2> QED BY <2>1, <2>2, MoveKeeps
<1>3. ASSUME CheckEligibility(r) PROVE RInv'
  <2>1. PICK place \in {"eligible", "returned"} :
           /\ at' = [at EXCEPT ![r] = place]
           /\ place = "eligible" => refundable
           /\ UNCHANGED <<refundable, database, recovery, event, provider, sel>>
    BY <1>3 DEF CheckEligibility, Go, Reversible
  <2>2. S \in Selections /\ S \in SUBSET Tickets
    BY <1>3 DEF CheckEligibility, RInv, Places, Selections
  <2>3. sel' = [sel EXCEPT ![r] = S]
    BY <2>1 DEF RInv, TypeOK
  <2> QED BY <2>1, <2>2, <2>3, MoveKeeps
<1>4. ASSUME RefuseConfiguration(r) \/ HearRefusal(r) PROVE RInv'
  <2> DEFINE row == [Row(r) EXCEPT !.state = "failed", !.reason = "refused"]
  <2>1. at[r] \in Owning /\ SetState(r, row, "returned") /\ Others
    BY <1>4 DEF RefuseConfiguration, HearRefusal, RecordFailure, Owning, Running
  <2>2. post[S] \in {"none", "refused"}
    BY <1>4 DEF RefuseConfiguration, HearRefusal, RInv, Places
  <2>3. Tells(S, "failed")
    BY <1>1, <2>1, <2>2 DEF Tells, MayBePaid, RInv, Posts
  <2>4. "failed" \in Rewritten /\ "refused" \in Reasons
    BY DEF Rewritten, Reasons
  <2>5. Truthful(S, row)
    BY <1>1, <2>1, <2>3, <2>4, StateAndReasonWritten
  <2> HIDE DEF row
  <2> QED BY <2>1, <2>5, SetStateKeeps
<1>5. ASSUME HearNothing(r) PROVE RInv'
  <2> DEFINE row == Flagged(Row(r), "provider_unverified")
  <2>1. at[r] \in Owning /\ SetState(r, row, "returned") /\ Others
    BY <1>5 DEF HearNothing, Owning, Running
  <2>2. "provider_unverified" \in Reasons
    BY DEF Reasons
  <2>3. Truthful(S, row)
    BY <1>1, <2>1, <2>2, FlagWritten
  <2> HIDE DEF row
  <2> QED BY <2>1, <2>3, SetStateKeeps
<1>6. ASSUME HearPending(r) PROVE RInv'
  <2> DEFINE flag == Flagged(Row(r), "provider_pending")
             row  == [flag EXCEPT !.reference = TRUE]
  <2>1. at[r] \in Owning /\ SetState(r, row, "returned") /\ Others /\ post[S] = "pending"
    BY <1>6 DEF HearPending, Owning, Running
  <2>2. refund[S] # "none"
    BY <1>1, <2>1 DEF RInv, Posts
  <2>3. "provider_pending" \in Reasons
    BY DEF Reasons
  <2>4. Truthful(S, flag)
    BY <1>1, <2>1, <2>3, FlagWritten
  <2>5. flag.state = "reconciliation_needed"
    BY <1>1, <2>1 DEF Flagged, LedgerRows
  <2> HIDE DEF flag
  <2>6. row \in LedgerRows /\ row.state = flag.state
    BY <2>4 DEF Truthful, LedgerRows
  <2>7. Truthful(S, row)
    BY <2>2, <2>5, <2>6 DEF Truthful
  <2> HIDE DEF row
  <2> QED BY <2>1, <2>7, SetStateKeeps
<1>7. ASSUME HearSucceeded(r) PROVE RInv'
  <2> DEFINE row == [Row(r) EXCEPT !.state = "provider_refunded", !.reference = TRUE]
  <2>1. at[r] \in Owning /\ SetState(r, row, "refunded") /\ Others /\ post[S] = "succeeded"
    BY <1>7 DEF HearSucceeded, Owning, Running
  <2>2. refund[S] = "succeeded"
    BY <1>1, <2>1 DEF RInv, Posts
  <2>3. "provider_refunded" \in Rewritten /\ Tells(S, "provider_refunded")
    BY <2>2 DEF Rewritten, Tells
  <2>4. Truthful(S, row)
    BY <1>1, <2>1, <2>2, <2>3, StateAndReferenceWritten
  <2> HIDE DEF row
  <2> QED BY <2>1, <2>4, SetStateKeeps
<1>8. ASSUME CloseRefund(r) PROVE RInv'
  <2> DEFINE row == [Row(r) EXCEPT !.state = "reversed"]
  <2>1. at[r] \in Owning /\ SetState(r, row, "returned") /\ Others /\ at[r] = "reversed"
    BY <1>8 DEF CloseRefund, Owning, Running
  <2>2. "reversed" \in Rewritten /\ Tells(S, "reversed")
    BY <2>1 DEF RInv, Places, Rewritten, Tells
  <2>3. Truthful(S, row)
    BY <1>1, <2>1, <2>2, StateWritten
  <2> HIDE DEF row
  <2> QED BY <2>1, <2>3, SetStateKeeps
<1>9. ASSUME FlagRefund(r) PROVE RInv'
  <2> DEFINE row == Flagged(Row(r), "reversal_refused")
  <2>1. at[r] \in Owning /\ SetState(r, row, "returned") /\ Others
    BY <1>9 DEF FlagRefund, Owning, Running
  <2>2. "reversal_refused" \in Reasons
    BY DEF Reasons
  <2>3. Truthful(S, row)
    BY <1>1, <2>1, <2>2, FlagWritten
  <2> HIDE DEF row
  <2> QED BY <2>1, <2>3, SetStateKeeps
<1>10. ASSUME LoseCoordinator(r) PROVE RInv'
  <2>1. /\ at' = [at EXCEPT ![r] = "lost"]
        /\ UNCHANGED <<refundable, database, recovery, event, provider, sel>>
        /\ at[r] # "idle"
    BY <1>10 DEF LoseCoordinator, Go, Running
  <2>2. S \in Selections /\ S \in SUBSET Tickets
    BY <2>1 DEF RInv, Places, Selections
  <2>3. sel' = [sel EXCEPT ![r] = S]
    BY <2>1 DEF RInv, TypeOK
  <2> QED BY <2>1, <2>2, <2>3, MoveKeeps
<1> QED BY <1>2, <1>3, <1>4, <1>5, <1>6, <1>7, <1>8, <1>9, <1>10,
           ClaimKeeps, CallKeeps, ReverseKeeps DEF Coordinate

-----------------------------------------------------------------------------
(* The provider, the events, the operator and the door.                       *)

\* A refund that may be paid is never forgotten: a reply only resolves the POST,
\* and a settled refund only resolves a pending one.
LEMMA ProviderKeeps ==
    ASSUME RInv, NEW S \in Selections, Provide(S)
    PROVE  RInv'
<1>1. /\ post \in [Selections -> {"none", "sent", "refused", "succeeded", "pending", "failed"}]
      /\ refund \in [Selections -> {"none", "succeeded", "pending", "failed", "canceled"}]
  BY DEF RInv, TypeOK
<1>2. PICK reply \in {"none", "sent", "refused", "succeeded", "pending", "failed"},
           status \in {"none", "succeeded", "failed", "canceled", "pending"} :
         /\ UNCHANGED <<refundable, database, processes>>
         /\ post' = [post EXCEPT ![S] = reply]
         /\ refund' = [refund EXCEPT ![S] = status]
         /\ \/ /\ post[S] = "sent"
               /\ \/ reply = "refused" /\ status = "none"
                  \/ reply \in {"succeeded", "pending", "failed"} /\ status = reply
            \/ reply = post[S] /\ refund[S] = "pending"
               /\ status \in {"succeeded", "failed", "canceled"}
  <2>1. ASSUME NEW reply \in {"refused", "succeeded", "pending", "failed"},
               ProviderReplies(S, reply)
        PROVE  /\ UNCHANGED <<refundable, database, processes>>
               /\ post[S] = "sent"
               /\ post' = [post EXCEPT ![S] = reply]
               /\ refund' = [refund EXCEPT ![S] = IF reply = "refused" THEN "none" ELSE reply]
    BY <2>1 DEF ProviderReplies
  <2>2. ASSUME NEW status \in {"succeeded", "failed", "canceled"}, ProviderSettles(S, status)
        PROVE  /\ UNCHANGED <<refundable, database, processes>>
               /\ refund[S] = "pending"
               /\ post' = [post EXCEPT ![S] = post[S]]
               /\ refund' = [refund EXCEPT ![S] = status]
    BY <1>1, <2>2 DEF ProviderSettles
  <2> QED BY <1>1, <2>1, <2>2 DEF Provide
<1>3. /\ post' \in [Selections -> {"none", "sent", "refused", "succeeded", "pending", "failed"}]
      /\ refund' \in [Selections -> {"none", "succeeded", "pending", "failed", "canceled"}]
      /\ post'[S] = reply /\ refund'[S] = status
      /\ \A Q \in Selections : Q # S => post'[Q] = post[Q] /\ refund'[Q] = refund[Q]
  BY <1>1, <1>2
<1>4. UNCHANGED <<refundable, ticket, reversed, ledger, claim, at, sel, op, target, event>>
  BY <1>2 DEF database, processes, run, recovery
<1>5. /\ Known(S)
      /\ post[S] = "sent" => refund[S] = "none"
      /\ refund[S] = "pending" => post[S] \notin {"none", "sent", "refused", "succeeded"}
  BY <1>2 DEF RInv, Posts
<1>6. \A Q \in Selections : /\ Known(Q)' <=> Known(Q)
                            /\ MayBePaid(Q)' => MayBePaid(Q)
                            /\ refund[Q] = "succeeded" => refund'[Q] = "succeeded"
                            /\ refund[Q] \in {"failed", "canceled"} => refund'[Q] = refund[Q]
                            /\ refund[Q] # "none" => refund'[Q] # "none"
                            /\ post[Q] = "succeeded" => post'[Q] = "succeeded"
                            /\ post[Q] = "none" => post'[Q] = "none"
  BY <1>2, <1>3, <1>4, <1>5 DEF Known, MayBePaid
<1>7. TypeOK'
  BY <1>3, <1>4 DEF RInv, TypeOK
<1>8. ClaimRows' /\ OneCoordinatorPerTicket'
  BY <1>4, <1>6 DEF RInv, ClaimRows, OneCoordinatorPerTicket
<1>9. Places'
  <2> SUFFICES ASSUME NEW q \in Requests
               PROVE  /\ at[q] # "idle" => sel[q] \in Selections
                      /\ at[q] = "eligible" => refundable
                      /\ at[q] \in {"claimed", "called"} => ledger[sel[q]].state = "pending"
                      /\ at[q] = "claimed" => post'[sel[q]] = "none"
                      /\ at[q] \in {"refunded", "reversed", "unreversed"} =>
                             Known(sel[q]) /\ post'[sel[q]] = "succeeded"
                      /\ at[q] = "reversed" => reversed[sel[q]]
    BY <1>4 DEF Places, Known
  <2> QED BY <1>6 DEF RInv, Places
<1>10. Recoveries'
  <2> SUFFICES ASSUME NEW o \in Operators
               PROVE  /\ op[o] # "idle" => target[o] \in Selections /\ Known(target[o])
                      /\ op[o] \in {"succeeded", "promoted"} => refund'[target[o]] = "succeeded"
                      /\ op[o] = "failed" => refund'[target[o]] \in {"failed", "canceled"}
                      /\ op[o] = "reversed" => reversed[target[o]]
    BY <1>4 DEF Recoveries, Known
  <2> QED BY <1>6 DEF RInv, Recoveries
<1>11. Posts'
  <2>1. /\ post'[S] # "none" => Known(S)
        /\ refund'[S] = "none" <=> post'[S] \in {"none", "sent", "refused"}
        /\ post'[S] = "succeeded" => refund'[S] = "succeeded"
    BY <1>2, <1>3, <1>5
  <2> QED BY <1>3, <1>6, <2>1 DEF RInv, Posts
<1>12. Reversals'
  BY <1>4, <1>6 DEF RInv, Reversals, Items
<1>13. LedgerTellsTruth'
  BY <1>4, <1>6 DEF RInv, LedgerTellsTruth
<1> QED BY <1>7, <1>8, <1>9, <1>10, <1>11, <1>12, <1>13 DEF RInv

\* Only what everybody keeps and the events change.
LEMMA EventKeeps ==
    ASSUME RInv, NEW S \in Selections, NEW d \in Deliveries, Notify(S, d)
    PROVE  RInv'
<1> DEFINE Phases == {"none", "flagging", "ignored", "processed"}
<1>1. event \in [Selections \X Deliveries -> Phases]
  BY DEF RInv, TypeOK
<1>2. ASSUME ReceiveRefundEvent(S, d) PROVE RInv'
  <2>1. event' \in [Selections \X Deliveries -> Phases]
    BY <1>1, <1>2 DEF ReceiveRefundEvent
  <2>2. UNCHANGED <<refundable, ticket, reversed, ledger, claim, at, sel, op, target, post, refund>>
    BY <1>2 DEF ReceiveRefundEvent, database, run, recovery, provider
  <2>3. \A Q \in Selections : (Known(Q)' <=> Known(Q)) /\ (MayBePaid(Q)' <=> MayBePaid(Q))
    BY <2>2 DEF Known, MayBePaid
  <2>4. TypeOK'
    BY <2>1, <2>2 DEF RInv, TypeOK
  <2>5. ClaimRows' /\ OneCoordinatorPerTicket' /\ Posts' /\ LedgerTellsTruth'
    BY <2>2, <2>3 DEF RInv, ClaimRows, OneCoordinatorPerTicket, Posts, LedgerTellsTruth
  <2>6. Places' /\ Recoveries'
    BY <2>2 DEF RInv, Places, Recoveries, Known
  <2>7. Reversals'
    BY <2>2, <2>3 DEF RInv, Reversals, Items
  <2> QED BY <2>4, <2>5, <2>6, <2>7 DEF RInv
<1>3. ASSUME FlagReconciliationNeeded(S, d) PROVE RInv'
  <2> DEFINE row == Flagged(ledger[S], "webhook_unreconciled")
  <2>1. event' \in [Selections \X Deliveries -> Phases]
    BY <1>1, <1>3 DEF FlagReconciliationNeeded
  <2>2. /\ UNCHANGED <<refundable, ticket, reversed, claim, run, recovery, provider>>
        /\ UNCHANGED <<refundable, ticket, reversed, claim, at, sel, op, target, post, refund>>
    BY <1>3 DEF FlagReconciliationNeeded, run, recovery, provider
  <2>3. \/ UNCHANGED ledger
        \/ ledger[S].state = "provider_refunded" /\ ledger' = [ledger EXCEPT ![S] = row]
    BY <1>3 DEF FlagReconciliationNeeded
  <2>4. /\ ledger' \in [Selections -> LedgerRows]
        /\ \A Q \in Selections : Known(Q)' <=> Known(Q)
        /\ ClaimRows' /\ Posts' /\ Reversals' /\ LedgerTellsTruth'
        /\ Places' /\ OneCoordinatorPerTicket'
    <3>1. CASE ledger[S].state = "provider_refunded" /\ ledger' = [ledger EXCEPT ![S] = row]
      <4>1. ledger[S] \in LedgerRows /\ (ledger[S].reference => refund[S] # "none")
        BY DEF RInv, TypeOK, LedgerTellsTruth
      <4>2. "webhook_unreconciled" \in Reasons
        BY DEF Reasons
      <4>3. Truthful(S, row)
        BY <4>1, <4>2, FlagWritten
      <4> HIDE DEF row
      <4> QED BY <2>2, <3>1, <4>3, GuardedWrite
    <3>2. CASE UNCHANGED ledger
      <4>1. ledger' \in [Selections -> LedgerRows]
        BY <3>2 DEF RInv, TypeOK
      <4>2. \A Q \in Selections : (Known(Q)' <=> Known(Q)) /\ (MayBePaid(Q)' <=> MayBePaid(Q))
        BY <2>2, <3>2 DEF Known, MayBePaid
      <4>3. ClaimRows' /\ Posts' /\ LedgerTellsTruth' /\ OneCoordinatorPerTicket'
        BY <2>2, <3>2, <4>2 DEF RInv, ClaimRows, Posts, LedgerTellsTruth, OneCoordinatorPerTicket
      <4>4. Reversals'
        BY <2>2, <4>2 DEF RInv, Reversals, Items
      <4>5. Places'
        BY <2>2, <3>2 DEF RInv, Places, Known
      <4> QED BY <4>1, <4>2, <4>3, <4>4, <4>5
    <3> QED BY <2>3, <3>1, <3>2
  <2>5. TypeOK'
    BY <2>1, <2>2, <2>4 DEF RInv, TypeOK
  <2>6. Recoveries'
    BY <2>2, <2>4 DEF RInv, Recoveries
  <2> QED BY <2>4, <2>5, <2>6 DEF RInv
<1> QED BY <1>2, <1>3 DEF Notify

\* What an operator's step leaves: the recovery of o is where it may be.
RecoveryAt(o, place, S) ==
    /\ place # "idle" => S \in Selections /\ Known(S)
    /\ place \in {"succeeded", "promoted"} => refund[S] = "succeeded"
    /\ place = "failed" => refund[S] \in {"failed", "canceled"}
    /\ place = "reversed" => reversed'[S]

LEMMA RecoveryMoves ==
    ASSUME RInv, NEW o \in Operators,
           NEW place \in {"idle"} \union Looking, NEW S \in SUBSET Tickets,
           RecoveryAt(o, place, S),
           op' = [op EXCEPT ![o] = place], target' = [target EXCEPT ![o] = S],
           \A Q \in Selections : Known(Q)' <=> Known(Q),
           \A Q \in Selections : reversed[Q] => reversed'[Q],
           UNCHANGED refund
    PROVE  /\ op' \in [Operators -> {"idle"} \union Looking]
           /\ target' \in [Operators -> SUBSET Tickets]
           /\ Recoveries'
<1>1. op \in [Operators -> {"idle"} \union Looking] /\ target \in [Operators -> SUBSET Tickets]
  BY DEF RInv, TypeOK
<1>2. /\ op' \in [Operators -> {"idle"} \union Looking]
      /\ target' \in [Operators -> SUBSET Tickets]
      /\ op'[o] = place /\ target'[o] = S
      /\ \A p \in Operators : p # o => op'[p] = op[p] /\ target'[p] = target[p]
  BY <1>1
<1>3. ASSUME NEW p \in Operators
      PROVE  /\ op'[p] # "idle" => target'[p] \in Selections /\ ledger'[target'[p]].state # "none"
             /\ op'[p] \in {"succeeded", "promoted"} => refund[target'[p]] = "succeeded"
             /\ op'[p] = "failed" => refund[target'[p]] \in {"failed", "canceled"}
             /\ op'[p] = "reversed" => reversed'[target'[p]]
  <2>1. CASE p = o
    BY <1>2, <2>1 DEF RecoveryAt, Known
  <2>2. CASE p # o
    <3>1. op'[p] = op[p] /\ target'[p] = target[p]
      BY <1>2, <2>2
    <3>2. /\ op[p] # "idle" => target[p] \in Selections /\ Known(target[p])
          /\ op[p] \in {"succeeded", "promoted"} => refund[target[p]] = "succeeded"
          /\ op[p] = "failed" => refund[target[p]] \in {"failed", "canceled"}
          /\ op[p] = "reversed" => reversed[target[p]]
      BY DEF RInv, Recoveries
    <3>3. op[p] # "idle" => ledger'[target[p]].state # "none"
      BY <3>2 DEF Known
    <3> QED BY <3>1, <3>2, <3>3
  <2> QED BY <2>1, <2>2
<1>4. Recoveries'
  BY <1>2, <1>3 DEF Recoveries, Known
<1> QED BY <1>2, <1>4

\* A recovery that reads, or gives up, without touching a table.
LEMMA LookKeeps ==
    ASSUME RInv, NEW o \in Operators,
           NEW place \in {"idle"} \union Looking, NEW S \in SUBSET Tickets,
           RecoveryAt(o, place, S),
           op' = [op EXCEPT ![o] = place], target' = [target EXCEPT ![o] = S],
           UNCHANGED <<refundable, database, run, event, provider>>
    PROVE  RInv'
<1>1. UNCHANGED <<refundable, ticket, reversed, ledger, claim, at, sel, event, post, refund>>
  BY DEF database, run, provider
<1>2. \A Q \in Selections : (Known(Q)' <=> Known(Q)) /\ (MayBePaid(Q)' <=> MayBePaid(Q))
  BY <1>1 DEF Known, MayBePaid
<1>3. /\ op' \in [Operators -> {"idle"} \union Looking]
      /\ target' \in [Operators -> SUBSET Tickets]
      /\ Recoveries'
  BY <1>1, <1>2, RecoveryMoves
<1>4. TypeOK'
  BY <1>1, <1>3 DEF RInv, TypeOK
<1>5. ClaimRows' /\ Posts' /\ LedgerTellsTruth' /\ OneCoordinatorPerTicket'
  BY <1>1, <1>2 DEF RInv, ClaimRows, Posts, LedgerTellsTruth, OneCoordinatorPerTicket
<1>6. Reversals'
  BY <1>1, <1>2 DEF RInv, Reversals, Items
<1>7. Places'
  BY <1>1 DEF RInv, Places, Known
<1> QED BY <1>3, <1>4, <1>5, <1>6, <1>7 DEF RInv

\* A guarded UPDATE of the recovery.
LEMMA TransitionKeeps ==
    ASSUME RInv, NEW o \in Operators, op[o] # "idle",
           NEW expected \in BOOLEAN, NEW row,
           expected => /\ ledger[target[o]].state \notin {"none", "pending"}
                       /\ Truthful(target[o], row),
           NEW next \in {"idle", "promoted"},
           next = "promoted" => refund[target[o]] = "succeeded",
           Transition(o, expected, row, next),
           UNCHANGED <<refundable, ticket, reversed, claim, run, event, provider>>
    PROVE  RInv'
<1> DEFINE S == target[o]
<1>1. S \in Selections /\ Known(S) /\ S \in SUBSET Tickets
  BY DEF RInv, Recoveries, Selections
<1>2. /\ UNCHANGED <<refundable, ticket, reversed, claim, run, provider>>
      /\ UNCHANGED <<refundable, ticket, reversed, claim, at, sel, event, post, refund>>
  BY DEF run, provider
<1>3. target \in [Operators -> SUBSET Tickets]
  BY DEF RInv, TypeOK
<1>4. PICK place \in {"idle", next}, goal \in {S, Nothing} :
         /\ op' = [op EXCEPT ![o] = place] /\ target' = [target EXCEPT ![o] = goal]
         /\ place # "idle" => goal = S
         /\ UNCHANGED ledger \/ (expected /\ ledger' = [ledger EXCEPT ![S] = row])
  BY <1>3 DEF Transition, Finish, Step
<1>5. RecoveryAt(o, place, goal)
  BY <1>1, <1>4 DEF RecoveryAt
<1>6. place \in {"idle"} \union Looking /\ goal \in SUBSET Tickets
  BY <1>1 DEF Looking, Nothing
<1>7. CASE UNCHANGED ledger
  <2>1. UNCHANGED <<refundable, database, run, event, provider>>
    BY <1>2, <1>7 DEF database
  <2> QED BY <1>4, <1>5, <1>6, <2>1, LookKeeps
<1>8. CASE expected /\ ledger' = [ledger EXCEPT ![S] = row]
  <2>1. ledger[S].state \notin {"none", "pending"} /\ Truthful(S, row)
    BY <1>8
  <2> HIDE DEF S
  <2>2. /\ ledger' \in [Selections -> LedgerRows]
        /\ \A Q \in Selections : Known(Q)' <=> Known(Q)
        /\ ClaimRows' /\ Posts' /\ Reversals' /\ LedgerTellsTruth'
        /\ Places' /\ OneCoordinatorPerTicket'
    BY <1>1, <1>2, <1>8, <2>1, GuardedWrite
  <2>3. /\ op' \in [Operators -> {"idle"} \union Looking]
        /\ target' \in [Operators -> SUBSET Tickets]
        /\ Recoveries'
    BY <1>2, <1>4, <1>5, <1>6, <2>2, RecoveryMoves
  <2>4. TypeOK'
    BY <1>2, <2>2, <2>3 DEF RInv, TypeOK
  <2> QED BY <2>2, <2>3, <2>4 DEF RInv
<1> QED BY <1>4, <1>7, <1>8

LEMMA OperatorKeeps ==
    ASSUME RInv, NEW o \in Operators, Recover(o)
    PROVE  RInv'
<1> DEFINE S == target[o]
           Others == UNCHANGED <<refundable, ticket, reversed, claim, run, event, provider>>
<1>1. ASSUME op[o] # "idle"
      PROVE  /\ S \in Selections /\ S \in SUBSET Tickets /\ Known(S)
             /\ ledger[S] \in LedgerRows
             /\ ledger[S].reference => refund[S] # "none"
  <2>1. S \in Selections /\ Known(S)
    BY <1>1 DEF RInv, Recoveries
  <2> QED BY <2>1 DEF RInv, TypeOK, LedgerTellsTruth, Selections
<1>2. target \in [Operators -> SUBSET Tickets]
  BY DEF RInv, TypeOK
<1>3. ASSUME UNCHANGED <<refundable, database, run, event, provider>>, Finish(o) PROVE RInv'
  <2>1. Nothing \in SUBSET Tickets /\ RecoveryAt(o, "idle", Nothing)
    BY DEF Nothing, RecoveryAt
  <2> QED BY <1>3, <2>1, LookKeeps DEF Finish
<1>4. ASSUME NEW Q \in Selections, ReadLedger(o, Q) PROVE RInv'
  <2>1. PICK place \in {"read_refunded", "read_flagged"} :
           /\ op' = [op EXCEPT ![o] = place] /\ target' = [target EXCEPT ![o] = Q]
           /\ UNCHANGED <<refundable, database, run, event, provider>>
    BY <1>4 DEF ReadLedger
  <2>2. Known(Q)
    BY <1>4 DEF ReadLedger, Recoverable, Known
  <2>3. RecoveryAt(o, place, Q)
    BY <2>2 DEF RecoveryAt
  <2>4. place \in {"idle"} \union Looking /\ Q \in SUBSET Tickets
    BY DEF Looking, Selections
  <2> QED BY <2>1, <2>3, <2>4, LookKeeps
<1>5. ASSUME LookUpRefund(o) PROVE RInv'
  <2>1. /\ op[o] # "idle"
        /\ UNCHANGED <<refundable, database, run, event, provider>>
    BY <1>5 DEF LookUpRefund
  <2>2. CASE Finish(o)
    BY <1>3, <2>1, <2>2
  <2>3. ASSUME NEW place \in {"succeeded", "promoted", "failed"}, Step(o, place),
               place \in {"succeeded", "promoted"} => refund[S] = "succeeded",
               place = "failed" => refund[S] \in {"failed", "canceled"}
        PROVE  RInv'
    <3>1. RecoveryAt(o, place, S)
      BY <1>1, <2>1, <2>3 DEF RecoveryAt
    <3>2. place \in {"idle"} \union Looking
      BY DEF Looking
    <3>3. op' = [op EXCEPT ![o] = place] /\ target' = [target EXCEPT ![o] = S]
      BY <1>2, <2>3 DEF Step
    <3> QED BY <1>1, <2>1, <3>1, <3>2, <3>3, LookKeeps
  <2> QED BY <1>5, <2>2, <2>3 DEF LookUpRefund
<1>6. ASSUME MarkFailed(o) PROVE RInv'
  <2> DEFINE row == [ledger[S] EXCEPT !.state = "failed", !.reason = "provider_final"]
  <2>1. op[o] = "failed" /\ Others /\ Transition(o, AwaitingRecovery(S), row, "idle")
    BY <1>6 DEF MarkFailed
  <2>2. refund[S] \in {"failed", "canceled"}
    BY <2>1 DEF RInv, Recoveries
  <2>3. post[S] # "sent"
    BY <1>1, <2>1, <2>2 DEF RInv, Posts
  <2>4. "failed" \in Rewritten /\ Tells(S, "failed") /\ "provider_final" \in Reasons
    BY <2>2, <2>3 DEF Rewritten, Tells, MayBePaid, Reasons
  <2>5. Truthful(S, row)
    BY <1>1, <2>1, <2>4, StateAndReasonWritten
  <2>6. /\ AwaitingRecovery(S) \in BOOLEAN
        /\ AwaitingRecovery(S) => ledger[S].state \notin {"none", "pending"}
    BY DEF AwaitingRecovery
  <2> HIDE DEF row
  <2> QED BY <2>1, <2>5, <2>6, TransitionKeeps
<1>7. ASSUME MarkRefunded(o) PROVE RInv'
  <2> DEFINE row == [ledger[S] EXCEPT !.state = "provider_refunded", !.reason = "none"]
  <2>1. op[o] = "succeeded" /\ Others /\ Transition(o, AwaitingRecovery(S), row, "promoted")
    BY <1>7 DEF MarkRefunded
  <2>2. refund[S] = "succeeded"
    BY <2>1 DEF RInv, Recoveries
  <2>3. "provider_refunded" \in Rewritten /\ Tells(S, "provider_refunded") /\ "none" \in Reasons
    BY <2>2 DEF Rewritten, Tells, Reasons
  <2>4. Truthful(S, row)
    BY <1>1, <2>1, <2>3, StateAndReasonWritten
  <2>5. /\ AwaitingRecovery(S) \in BOOLEAN
        /\ AwaitingRecovery(S) => ledger[S].state \notin {"none", "pending"}
    BY DEF AwaitingRecovery
  <2> HIDE DEF row
  <2> QED BY <2>1, <2>2, <2>4, <2>5, TransitionKeeps
<1>8. ASSUME CloseRecovery(o) PROVE RInv'
  <2> DEFINE row == [ledger[S] EXCEPT !.state = "reversed", !.reason = "none"]
             expected == ledger[S].state = "provider_refunded"
  <2>1. op[o] = "reversed" /\ Others /\ Transition(o, expected, row, "idle")
    BY <1>8 DEF CloseRecovery
  <2>2. "reversed" \in Rewritten /\ Tells(S, "reversed") /\ "none" \in Reasons
    BY <2>1 DEF RInv, Recoveries, Rewritten, Tells, Reasons
  <2>3. Truthful(S, row)
    BY <1>1, <2>1, <2>2, StateAndReasonWritten
  <2>4. expected \in BOOLEAN /\ (expected => ledger[S].state \notin {"none", "pending"})
    OBVIOUS
  <2> HIDE DEF row, expected
  <2> QED BY <2>1, <2>3, <2>4, TransitionKeeps
<1>9. ASSUME RecoverTickets(o) PROVE RInv'
  <2>1. PICK seen \in BOOLEAN :
           /\ CallReversal(S, seen)
           /\ IF seen THEN Step(o, "reversed") ELSE Finish(o)
    BY <1>9 DEF RecoverTickets
  <2>2. /\ op[o] = "promoted"
        /\ UNCHANGED <<refundable, ledger, claim, provider>>
        /\ UNCHANGED <<refundable, ledger, claim, at, sel, event, post, refund>>
    BY <1>9 DEF RecoverTickets, run, provider
  <2>3. refund[S] = "succeeded"
    BY <2>2 DEF RInv, Recoveries
  <2>4. /\ ticket' \in [Tickets -> [status : {"issued", "void"}, in : BOOLEAN]]
        /\ reversed' \in [Selections -> BOOLEAN]
        /\ \A Q \in Selections : reversed[Q] => reversed'[Q]
        /\ seen => reversed'[S]
        /\ ClaimRows' /\ Posts' /\ Reversals' /\ LedgerTellsTruth'
    BY <1>1, <2>1, <2>2, <2>3, ReversalKeeps
  <2>5. PICK place \in {"idle", "reversed"}, goal \in {S, Nothing} :
           /\ op' = [op EXCEPT ![o] = place] /\ target' = [target EXCEPT ![o] = goal]
           /\ place = "reversed" => seen /\ goal = S
    BY <1>2, <2>1 DEF Step, Finish
  <2>6. RecoveryAt(o, place, goal)
    BY <1>1, <2>2, <2>4, <2>5 DEF RecoveryAt
  <2>7. place \in {"idle"} \union Looking /\ goal \in SUBSET Tickets
    BY <1>1, <2>2 DEF Looking, Nothing
  <2>8. \A Q \in Selections : Known(Q)' <=> Known(Q)
    BY <2>2 DEF Known
  <2>9. /\ op' \in [Operators -> {"idle"} \union Looking]
        /\ target' \in [Operators -> SUBSET Tickets]
        /\ Recoveries'
    BY <2>2, <2>4, <2>5, <2>6, <2>7, <2>8, RecoveryMoves
  <2>10. TypeOK' /\ OneCoordinatorPerTicket'
    BY <2>2, <2>4, <2>9 DEF RInv, TypeOK, OneCoordinatorPerTicket
  <2>11. Places'
    BY <2>2, <2>4 DEF RInv, Places, Known
  <2> QED BY <2>4, <2>9, <2>10, <2>11 DEF RInv
<1>10. ASSUME LoseRecovery(o) PROVE RInv'
  BY <1>3, <1>10 DEF LoseRecovery
<1> QED BY <1>4, <1>5, <1>6, <1>7, <1>8, <1>9, <1>10 DEF Recover

\* The door changes who is inside, and nothing a refund relies on.
LEMMA DoorKeeps ==
    ASSUME RInv, NEW t \in Tickets, CheckInTicket(t) \/ ReverseTicketCheckIn(t)
    PROVE  RInv'
<1>1. PICK in \in BOOLEAN : ticket' = [ticket EXCEPT ![t].in = in]
  BY DEF CheckInTicket, ReverseTicketCheckIn
<1>2. UNCHANGED <<refundable, reversed, ledger, claim, at, sel, op, target, event, post, refund>>
  BY DEF CheckInTicket, ReverseTicketCheckIn, processes, run, recovery, provider
<1>3. ticket \in [Tickets -> [status : {"issued", "void"}, in : BOOLEAN]]
  BY DEF RInv, TypeOK
<1>4. [ticket[t] EXCEPT !.in = in] \in [status : {"issued", "void"}, in : BOOLEAN]
      /\ [ticket[t] EXCEPT !.in = in].status = ticket[t].status
  BY <1>3
<1>5. /\ ticket' \in [Tickets -> [status : {"issued", "void"}, in : BOOLEAN]]
      /\ \A u \in Tickets : ticket'[u].status = ticket[u].status
  BY <1>1, <1>3, <1>4
<1>6. \A Q \in Selections : (Known(Q)' <=> Known(Q)) /\ (MayBePaid(Q)' <=> MayBePaid(Q))
  BY <1>2 DEF Known, MayBePaid
<1>7. TypeOK'
  BY <1>2, <1>5 DEF RInv, TypeOK
<1>8. ClaimRows' /\ Posts' /\ LedgerTellsTruth' /\ OneCoordinatorPerTicket'
  BY <1>2, <1>6 DEF RInv, ClaimRows, Posts, LedgerTellsTruth, OneCoordinatorPerTicket
<1>9. Reversals'
  BY <1>2, <1>5, <1>6 DEF RInv, Reversals, Items
<1>10. Places' /\ Recoveries'
  BY <1>2 DEF RInv, Places, Recoveries, Known
<1> QED BY <1>7, <1>8, <1>9, <1>10 DEF RInv

LEMMA RefundStep == RInv /\ [Next]_vars => RInv'
<1> SUFFICES ASSUME RInv, [Next]_vars PROVE RInv'
  OBVIOUS
<1>1. ASSUME Next PROVE RInv'
  BY <1>1, CoordinatorKeeps, OperatorKeeps, ProviderKeeps, EventKeeps, DoorKeeps DEF Next
<1>2. CASE UNCHANGED vars
  <2>1. UNCHANGED <<refundable, ticket, reversed, ledger, claim, at, sel, op, target, event, post, refund>>
    BY <1>2 DEF vars, database, processes, run, recovery, provider
  <2>2. \A Q \in Selections : (Known(Q)' <=> Known(Q)) /\ (MayBePaid(Q)' <=> MayBePaid(Q))
    BY <2>1 DEF Known, MayBePaid
  <2>3. TypeOK'
    BY <2>1 DEF RInv, TypeOK
  <2>4. ClaimRows' /\ Posts' /\ LedgerTellsTruth' /\ OneCoordinatorPerTicket'
    BY <2>1, <2>2 DEF RInv, ClaimRows, Posts, LedgerTellsTruth, OneCoordinatorPerTicket
  <2>5. Reversals'
    BY <2>1, <2>2 DEF RInv, Reversals, Items
  <2>6. Places' /\ Recoveries'
    BY <2>1 DEF RInv, Places, Recoveries, Known
  <2> QED BY <2>3, <2>4, <2>5, <2>6 DEF RInv
<1> QED BY <1>1, <1>2

-----------------------------------------------------------------------------
(* The theorems.                                                              *)

\* The inductive invariant: rows, claims, places, recoveries, posts and
\* reversals agree in every reachable state.
THEOREM RefundInvariant == Spec => []RInv
BY RefundInit, RefundStep, PTL DEF Spec

\* The tables, messages and local states keep their types.
THEOREM RefundTypes == Spec => []TypeOK
<1>1. RInv => TypeOK
  BY DEF RInv
<1> QED BY <1>1, RefundInvariant, PTL

\* claim_refund_tickets keeps two coordinators off one ticket.
THEOREM ClaimsExclude == Spec => []OneCoordinatorPerTicket
<1>1. RInv => OneCoordinatorPerTicket
  BY DEF RInv
<1> QED BY <1>1, RefundInvariant, PTL

\* What the provider has paid, or may pay, back is refundable, and its tickets
\* are neither void nor in another reversal.
THEOREM PaidIsReversible == Spec => []RefundedIsReversible
BY RefundInvariant, RefundsAreReversible, PTL

\* What a ledger row says of the provider's refund and the reversal is so.
THEOREM LedgerIsTrue == Spec => []LedgerTellsTruth
<1>1. RInv => LedgerTellsTruth
  BY DEF RInv
<1> QED BY <1>1, RefundInvariant, PTL

-----------------------------------------------------------------------------
(* What becomes of a row once it is there.                                    *)

MayBecome(S, row) ==
    \/ row = ledger[S]
    \/ /\ Known(S) /\ row.state # "none"
       /\ \/ ledger[S].state \notin {"failed", "reversed"}
          \/ /\ refund[S] = "succeeded"
             /\ row.state = "reversed" \/ row.reason = "reversal_refused"

\* What SetState and the guarded updates write is one row.
LEMMA OneRowWritten ==
    ASSUME RInv, NEW R \in Selections, NEW row,
           ledger' \in {ledger, [ledger EXCEPT ![R] = row]},
           MayBecome(R, row)
    PROVE  \A S \in Selections : MayBecome(S, ledger'[S])
<1>1. ledger \in [Selections -> LedgerRows]
  BY DEF RInv, TypeOK
<1> QED BY <1>1 DEF MayBecome

LEMMA CoordinatorWrites ==
    ASSUME RInv, NEW r \in Requests, Coordinate(r), ~ClaimTickets(r)
    PROVE  \A S \in Selections : MayBecome(S, ledger'[S])
<1> DEFINE R == sel[r]
<1>1. CASE UNCHANGED ledger
  BY <1>1 DEF MayBecome
<1>2. ASSUME at[r] \in Owning
      PROVE  R \in Selections /\ Row(r) \in LedgerRows /\ Row(r) = ledger[R]
  <2>1. at[r] # "idle"
    BY <1>2 DEF Owning, Running
  <2>2. R \in Selections
    BY <2>1 DEF RInv, Places
  <2> QED BY <2>2 DEF RInv, TypeOK, Row
<1>3. ASSUME at[r] \in {"claimed", "called"},
             NEW row, row.state # "none", NEW next, SetState(r, row, next)
      PROVE  \A S \in Selections : MayBecome(S, ledger'[S])
  <2>1. R \in Selections /\ ledger[R].state = "pending"
    BY <1>2, <1>3 DEF RInv, Places, Owning, Running
  <2>2. MayBecome(R, row)
    BY <1>3, <2>1 DEF MayBecome, Known
  <2>3. ledger' \in {ledger, [ledger EXCEPT ![R] = row]}
    BY <1>3 DEF SetState
  <2> QED BY <2>1, <2>2, <2>3, OneRowWritten
<1>4. CASE RefuseConfiguration(r) \/ HearRefusal(r)
  <2> DEFINE row == [Row(r) EXCEPT !.state = "failed", !.reason = "refused"]
  <2>1. at[r] \in {"claimed", "called"} /\ SetState(r, row, "returned")
    BY <1>4 DEF RefuseConfiguration, HearRefusal, RecordFailure
  <2>2. row.state # "none"
    BY <1>2, <2>1 DEF Owning, Running, LedgerRows
  <2> HIDE DEF row
  <2> QED BY <1>3, <2>1, <2>2
<1>5. CASE HearNothing(r)
  <2> DEFINE row == Flagged(Row(r), "provider_unverified")
  <2>1. at[r] \in {"claimed", "called"} /\ SetState(r, row, "returned")
    BY <1>5 DEF HearNothing
  <2>2. row.state # "none"
    BY <1>2, <2>1 DEF Owning, Running, LedgerRows, Flagged
  <2> HIDE DEF row
  <2> QED BY <1>3, <2>1, <2>2
<1>6. CASE HearPending(r)
  <2> DEFINE row == [Flagged(Row(r), "provider_pending") EXCEPT !.reference = TRUE]
  <2>1. at[r] \in {"claimed", "called"} /\ SetState(r, row, "returned")
    BY <1>6 DEF HearPending
  <2>2. row.state # "none"
    BY <1>2, <2>1 DEF Owning, Running, LedgerRows, Flagged
  <2> HIDE DEF row
  <2> QED BY <1>3, <2>1, <2>2
<1>7. CASE HearSucceeded(r)
  <2> DEFINE row == [Row(r) EXCEPT !.state = "provider_refunded", !.reference = TRUE]
  <2>1. at[r] \in {"claimed", "called"} /\ SetState(r, row, "refunded")
    BY <1>7 DEF HearSucceeded
  <2>2. row.state # "none"
    BY <1>2, <2>1 DEF Owning, Running, LedgerRows
  <2> HIDE DEF row
  <2> QED BY <1>3, <2>1, <2>2
<1>8. ASSUME at[r] \in {"reversed", "unreversed"}, NEW row, row.state # "none",
             row.state = "reversed" \/ row.reason = "reversal_refused",
             NEW next, SetState(r, row, next)
      PROVE  \A S \in Selections : MayBecome(S, ledger'[S])
  <2>1. R \in Selections /\ Known(R) /\ refund[R] = "succeeded"
    BY <1>2, <1>8 DEF RInv, Places, Posts, Owning, Running
  <2>2. MayBecome(R, row)
    BY <1>8, <2>1 DEF MayBecome
  <2>3. ledger' \in {ledger, [ledger EXCEPT ![R] = row]}
    BY <1>8 DEF SetState
  <2> QED BY <2>1, <2>2, <2>3, OneRowWritten
<1>9. CASE CloseRefund(r)
  <2> DEFINE row == [Row(r) EXCEPT !.state = "reversed"]
  <2>1. at[r] \in {"reversed", "unreversed"} /\ SetState(r, row, "returned")
    BY <1>9 DEF CloseRefund
  <2>2. row.state = "reversed"
    BY <1>2, <2>1 DEF Owning, Running, LedgerRows
  <2> HIDE DEF row
  <2> QED BY <1>8, <2>1, <2>2
<1>10. CASE FlagRefund(r)
  <2> DEFINE row == Flagged(Row(r), "reversal_refused")
  <2>1. at[r] \in {"reversed", "unreversed"} /\ SetState(r, row, "returned")
    BY <1>10 DEF FlagRefund
  <2>2. row.state = "reconciliation_needed" /\ row.reason = "reversal_refused"
    BY <1>2, <2>1 DEF Owning, Running, LedgerRows, Flagged
  <2> HIDE DEF row
  <2> QED BY <1>8, <2>1, <2>2
<1> QED BY <1>1, <1>4, <1>5, <1>6, <1>7, <1>9, <1>10
        DEF Coordinate, Begin, CheckEligibility, CallProvider, ReverseTickets, LoseCoordinator,
            database

LEMMA OperatorWrites ==
    ASSUME RInv, NEW o \in Operators, Recover(o)
    PROVE  \A S \in Selections : MayBecome(S, ledger'[S])
<1> DEFINE R == target[o]
<1>1. CASE UNCHANGED ledger
  BY <1>1 DEF MayBecome
<1>2. ASSUME op[o] # "idle"
      PROVE  R \in Selections /\ Known(R) /\ ledger[R] \in LedgerRows
  BY <1>2 DEF RInv, Recoveries, TypeOK
<1>3. ASSUME op[o] # "idle", NEW expected \in BOOLEAN,
             expected => ledger[R].state \notin {"failed", "reversed"},
             NEW row, row.state # "none", NEW next, Transition(o, expected, row, next)
      PROVE  \A S \in Selections : MayBecome(S, ledger'[S])
  <2>1. CASE expected /\ ledger' = [ledger EXCEPT ![R] = row]
    <3>1. R \in Selections /\ MayBecome(R, row)
      BY <1>2, <1>3, <2>1 DEF MayBecome
    <3>2. ledger' \in {ledger, [ledger EXCEPT ![R] = row]}
      BY <2>1
    <3> HIDE DEF R
    <3> QED BY <3>1, <3>2, OneRowWritten
  <2> QED BY <1>1, <1>3, <2>1 DEF Transition
<1>4. CASE MarkFailed(o)
  <2> DEFINE row == [ledger[R] EXCEPT !.state = "failed", !.reason = "provider_final"]
  <2>1. op[o] # "idle" /\ Transition(o, AwaitingRecovery(R), row, "idle")
    BY <1>4 DEF MarkFailed
  <2>2. row.state # "none"
    BY <1>2, <2>1 DEF LedgerRows
  <2>3. AwaitingRecovery(R) \in BOOLEAN
        /\ (AwaitingRecovery(R) => ledger[R].state \notin {"failed", "reversed"})
    BY DEF AwaitingRecovery
  <2> HIDE DEF row
  <2> QED BY <1>3, <2>1, <2>2, <2>3
<1>5. CASE MarkRefunded(o)
  <2> DEFINE row == [ledger[R] EXCEPT !.state = "provider_refunded", !.reason = "none"]
  <2>1. op[o] # "idle" /\ Transition(o, AwaitingRecovery(R), row, "promoted")
    BY <1>5 DEF MarkRefunded
  <2>2. row.state # "none"
    BY <1>2, <2>1 DEF LedgerRows
  <2>3. AwaitingRecovery(R) \in BOOLEAN
        /\ (AwaitingRecovery(R) => ledger[R].state \notin {"failed", "reversed"})
    BY DEF AwaitingRecovery
  <2> HIDE DEF row
  <2> QED BY <1>3, <2>1, <2>2, <2>3
<1>6. CASE CloseRecovery(o)
  <2> DEFINE row == [ledger[R] EXCEPT !.state = "reversed", !.reason = "none"]
             expected == ledger[R].state = "provider_refunded"
  <2>1. op[o] # "idle" /\ Transition(o, expected, row, "idle")
    BY <1>6 DEF CloseRecovery
  <2>2. row.state # "none"
    BY <1>2, <2>1 DEF LedgerRows
  <2>3. expected \in BOOLEAN /\ (expected => ledger[R].state \notin {"failed", "reversed"})
    OBVIOUS
  <2> HIDE DEF row, expected
  <2> QED BY <1>3, <2>1, <2>2, <2>3
<1> QED BY <1>1, <1>4, <1>5, <1>6
        DEF Recover, ReadLedger, LookUpRefund, RecoverTickets, LoseRecovery, database

LEMMA FlagWrites ==
    ASSUME RInv, NEW S \in Selections, NEW d \in Deliveries, FlagReconciliationNeeded(S, d)
    PROVE  \A Q \in Selections : MayBecome(Q, ledger'[Q])
<1> DEFINE row == Flagged(ledger[S], "webhook_unreconciled")
<1>1. CASE UNCHANGED ledger
  BY <1>1 DEF MayBecome
<1>2. CASE ledger[S].state = "provider_refunded" /\ ledger' = [ledger EXCEPT ![S] = row]
  <2>1. row.state # "none"
    BY DEF RInv, TypeOK, LedgerRows, Flagged
  <2> HIDE DEF row
  <2>2. MayBecome(S, row)
    BY <1>2, <2>1 DEF MayBecome, Known
  <2>3. ledger' \in {ledger, [ledger EXCEPT ![S] = row]}
    BY <1>2
  <2> QED BY <2>2, <2>3, OneRowWritten
<1> QED BY <1>1, <1>2 DEF FlagReconciliationNeeded

LEMMA LedgerWrites ==
    ASSUME RInv, [Next]_vars, \A r \in Requests : ~ClaimTickets(r)
    PROVE  \A S \in Selections : MayBecome(S, ledger'[S])
<1>1. CASE UNCHANGED ledger
  BY <1>1 DEF MayBecome
<1>2. CASE UNCHANGED vars
  BY <1>1, <1>2 DEF vars, database
<1>3. ASSUME NEW S \in Selections, Provide(S) \/ \E d \in Deliveries : ReceiveRefundEvent(S, d)
      PROVE  UNCHANGED ledger
  BY <1>3 DEF Provide, ProviderReplies, ProviderSettles, ReceiveRefundEvent, database
<1>4. ASSUME NEW t \in Tickets, CheckInTicket(t) \/ ReverseTicketCheckIn(t)
      PROVE  UNCHANGED ledger
  BY <1>4 DEF CheckInTicket, ReverseTicketCheckIn
<1> QED BY <1>1, <1>2, <1>3, <1>4, CoordinatorWrites, OperatorWrites, FlagWrites
        DEF Next, Notify

\* A claim writes a row that was not there.
LEMMA ClaimWrites ==
    ASSUME RInv, NEW r \in Requests, ClaimTickets(r),
           NEW S \in Selections, ledger'[S] # ledger[S]
    PROVE  /\ S = sel[r] /\ ~Known(S) /\ ledger'[S].state = "pending"
           /\ \A t \in S : claim[t] = Nothing
<1>1. ledger \in [Selections -> LedgerRows]
  BY DEF RInv, TypeOK
<1>2. /\ ledger' = [ledger EXCEPT ![sel[r]] = [NoRow EXCEPT !.state = "pending"]]
      /\ ~Known(sel[r]) /\ \A t \in sel[r] : claim[t] = Nothing
  BY DEF ClaimTickets
<1>3. S = sel[r] /\ ledger'[S] = [NoRow EXCEPT !.state = "pending"]
  BY <1>1, <1>2
<1> QED BY <1>2, <1>3 DEF NoRow

\* No UPDATE of a coordinator, an event or a recovery reopens a closed row.
THEOREM ClosedRefundsAreFinal == Spec => ClosedRefundsStayClosed
<1> DEFINE Closed(S) ==
              /\ ledger[S].state = "failed" => ledger'[S] = ledger[S]
              /\ ledger[S].state = "reversed" =>
                     ledger'[S].state = "reversed" \/ ledger'[S].reason = "reversal_refused"
<1>1. ASSUME RInv, [Next]_vars PROVE \A S \in Selections : Closed(S)
  <2>1. CASE \A r \in Requests : ~ClaimTickets(r)
    <3> SUFFICES ASSUME NEW S \in Selections PROVE Closed(S)
      OBVIOUS
    <3>1. MayBecome(S, ledger'[S])
      BY <1>1, <2>1, LedgerWrites
    <3>2. ledger[S].state = "failed" => refund[S] # "succeeded"
      BY <1>1 DEF RInv, LedgerTellsTruth, MayBePaid
    <3> QED BY <3>1, <3>2 DEF MayBecome
  <2>2. ASSUME NEW r \in Requests, ClaimTickets(r) PROVE \A S \in Selections : Closed(S)
    <3> SUFFICES ASSUME NEW S \in Selections PROVE Closed(S)
      OBVIOUS
    <3>1. ledger'[S] = ledger[S] \/ ledger[S].state = "none"
      BY <1>1, <2>2, ClaimWrites DEF Known
    <3> QED BY <3>1
  <2> QED BY <2>1, <2>2
<1>2. RInv /\ [Next]_vars => [\A S \in Selections : Closed(S)]_vars
  BY <1>1
<1> QED BY <1>2, RefundInvariant, PTL DEF Spec, ClosedRefundsStayClosed

-----------------------------------------------------------------------------
(* Every step of the coordination is one of the promise, or none of it.       *)

LEMMA ClaimPromised ==
    ASSUME RInv, NEW r \in Requests, ClaimTickets(r)
    PROVE  [Promise!Next]_(Promise!promises)
<1> DEFINE S == sel[r]
           Claims == {Q \in Selections : Known(Q)}
<1>1. UNCHANGED <<ticket, reversed, refund>>
  BY DEF ClaimTickets, provider
<1>2. S \in Selections /\ S \in SUBSET Tickets /\ S # {}
  BY DEF ClaimTickets, RInv, Places, Selections
<1>3. CASE UNCHANGED ledger
  BY <1>1, <1>3 DEF Promise!promises, Known
<1>4. CASE ledger' # ledger
  <2>1. /\ ~Known(S) /\ \A t \in S : claim[t] = Nothing
        /\ ledger' = [ledger EXCEPT ![S] = [NoRow EXCEPT !.state = "pending"]]
    BY <1>4 DEF ClaimTickets
  <2>2. ledger \in [Selections -> LedgerRows]
    BY DEF RInv, TypeOK
  <2> HIDE DEF S
  <2>3. Claims' = Claims \union {S}
    BY <1>2, <2>1, <2>2 DEF Known, NoRow
  <2>4. S \intersect UNION Claims = {}
    <3> SUFFICES ASSUME NEW Q \in Selections, Known(Q) PROVE S \intersect Q = {}
      OBVIOUS
    <3>1. \A t \in Q : claim[t] = Q /\ Q # {}
      BY DEF RInv, ClaimRows, Selections
    <3> QED BY <2>1, <3>1 DEF Nothing
  <2>5. Promise!Claim(S)
    BY <1>1, <1>2, <2>3, <2>4 DEF Promise!Claim
  <2> QED BY <1>2, <2>5 DEF Promise!Next
<1> QED BY <1>3, <1>4

LEMMA ReversalPromised ==
    ASSUME RInv, NEW S \in Selections, refund[S] = "succeeded",
           NEW seen \in BOOLEAN, CallReversal(S, seen), UNCHANGED <<ledger, refund>>
    PROVE  [Promise!Next]_(Promise!promises)
<1> DEFINE Taken  == {Q \in Selections : reversed[Q]}
           Inside == {t \in Tickets : ticket[t].in}
<1>1. S \in SUBSET Tickets
  BY DEF Selections
<1>2. CASE UNCHANGED <<ticket, reversed>>
  BY <1>2 DEF Promise!promises, Known
<1>3. CASE ReverseRefundedTickets(S)
  <2>1. /\ ~reversed[S] /\ \A t \in S : ~ticket[t].in
        /\ reversed' = [reversed EXCEPT ![S] = TRUE]
        /\ ticket' = [t \in Tickets |-> IF t \in S THEN [ticket[t] EXCEPT !.status = "void"]
                                                   ELSE ticket[t]]
    BY <1>3 DEF ReverseRefundedTickets, Reversible
  <2>2. reversed \in [Selections -> BOOLEAN]
        /\ ticket \in [Tickets -> [status : {"issued", "void"}, in : BOOLEAN]]
    BY DEF RInv, TypeOK
  <2>3. Taken' = Taken \union {S}
    BY <2>1, <2>2
  <2>4. \A t \in Tickets : ticket'[t].in = ticket[t].in
    BY <2>1, <2>2
  <2>5. Inside' = Inside /\ S \intersect Inside = {} /\ S \notin Taken
    BY <2>1, <2>4
  <2>6. Known(S)
    BY DEF RInv, Posts
  <2>7. Promise!TakeBack(S)
    BY <2>3, <2>5, <2>6 DEF Promise!TakeBack, Known
  <2> QED BY <1>1, <2>7 DEF Promise!Next
<1> QED BY <1>2, <1>3 DEF CallReversal

LEMMA ProviderPromised ==
    ASSUME RInv, NEW S \in Selections, Provide(S)
    PROVE  [Promise!Next]_(Promise!promises)
<1> DEFINE Paid == {Q \in Selections : refund[Q] = "succeeded"}
<1>1. refund \in [Selections -> {"none", "succeeded", "pending", "failed", "canceled"}]
  BY DEF RInv, TypeOK
<1>2. PICK status \in {"none", "succeeded", "pending", "failed", "canceled"} :
         /\ refund' = [refund EXCEPT ![S] = status]
         /\ UNCHANGED <<ticket, reversed, ledger>>
         /\ refund[S] # "succeeded" /\ post[S] # "none"
  <2>1. ASSUME NEW reply \in {"refused", "succeeded", "pending", "failed"},
               ProviderReplies(S, reply)
        PROVE  /\ refund' = [refund EXCEPT ![S] = IF reply = "refused" THEN "none" ELSE reply]
               /\ UNCHANGED <<ticket, reversed, ledger>> /\ post[S] = "sent"
    BY <2>1 DEF ProviderReplies, database
  <2>2. ASSUME NEW status \in {"succeeded", "failed", "canceled"}, ProviderSettles(S, status)
        PROVE  /\ refund' = [refund EXCEPT ![S] = status]
               /\ UNCHANGED <<ticket, reversed, ledger>> /\ refund[S] = "pending"
    BY <2>2 DEF ProviderSettles, database
  <2>3. /\ post[S] = "sent" => refund[S] # "succeeded"
        /\ refund[S] = "pending" => post[S] # "none"
    BY DEF RInv, Posts
  <2> QED BY <2>1, <2>2, <2>3 DEF Provide
<1>3. Known(S) /\ S \in SUBSET Tickets
  BY <1>2 DEF RInv, Posts, Selections
<1>4. CASE status = "succeeded"
  <2>1. Paid' = Paid \union {S} /\ S \notin Paid
    BY <1>1, <1>2, <1>4
  <2>2. Promise!PayBack(S)
    BY <1>2, <1>3, <2>1 DEF Promise!PayBack, Known
  <2> QED BY <1>3, <2>2 DEF Promise!Next
<1>5. CASE status # "succeeded"
  <2>1. Paid' = Paid
    BY <1>1, <1>2, <1>5
  <2> QED BY <1>2, <2>1 DEF Promise!promises, Known
<1> QED BY <1>4, <1>5

LEMMA DoorPromised ==
    ASSUME RInv, NEW t \in Tickets, CheckInTicket(t) \/ ReverseTicketCheckIn(t)
    PROVE  [Promise!Next]_(Promise!promises)
<1> DEFINE Inside == {u \in Tickets : ticket[u].in}
<1>1. UNCHANGED <<ledger, reversed, refund>>
  BY DEF CheckInTicket, ReverseTicketCheckIn, provider
<1>2. ticket \in [Tickets -> [status : {"issued", "void"}, in : BOOLEAN]]
  BY DEF RInv, TypeOK
<1>3. CASE CheckInTicket(t)
  <2>1. /\ ~ticket[t].in /\ t \notin Items
        /\ ticket' = [ticket EXCEPT ![t].in = TRUE]
    BY <1>3 DEF CheckInTicket
  <2>2. Inside' = Inside \union {t}
    BY <1>2, <2>1
  <2>3. Promise!Enter(t)
    BY <1>1, <2>1, <2>2 DEF Promise!Enter, Known, Items
  <2> QED BY <2>3 DEF Promise!Next
<1>4. CASE ReverseTicketCheckIn(t)
  <2>1. ticket[t].in /\ ticket' = [ticket EXCEPT ![t].in = FALSE]
    BY <1>4 DEF ReverseTicketCheckIn
  <2>2. Inside' = Inside \ {t}
    BY <1>2, <2>1
  <2>3. Promise!Leave(t)
    BY <1>1, <2>1, <2>2 DEF Promise!Leave, Known
  <2> QED BY <2>3 DEF Promise!Next
<1> QED BY <1>3, <1>4

\* The other steps: they keep who is known, and touch nothing else of it.
LEMMA OthersStutter ==
    ASSUME \A S \in Selections : MayBecome(S, ledger'[S]),
           UNCHANGED <<ticket, reversed, refund>>
    PROVE  UNCHANGED Promise!promises
<1>1. \A S \in Selections : (ledger'[S].state # "none") <=> (ledger[S].state # "none")
  BY DEF MayBecome, Known
<1> QED BY <1>1 DEF Promise!promises, Known

LEMMA PromiseKept == RInv /\ [Next]_vars => [Promise!Next]_(Promise!promises)
<1> SUFFICES ASSUME RInv, [Next]_vars PROVE [Promise!Next]_(Promise!promises)
  OBVIOUS
<1>1. ASSUME NEW r \in Requests, Coordinate(r) PROVE [Promise!Next]_(Promise!promises)
  <2>1. CASE ClaimTickets(r)
    BY <2>1, ClaimPromised
  <2>2. CASE ReverseTickets(r)
    <3>1. PICK seen \in BOOLEAN : CallReversal(sel[r], seen)
      BY <2>2 DEF ReverseTickets
    <3>2. sel[r] \in Selections /\ refund[sel[r]] = "succeeded" /\ UNCHANGED <<ledger, refund>>
      BY <2>2 DEF ReverseTickets, RInv, Places, Posts, provider
    <3> QED BY <3>1, <3>2, ReversalPromised
  <2>3. CASE ~ClaimTickets(r) /\ ~ReverseTickets(r)
    <3>1. UNCHANGED <<ticket, reversed, refund>>
      BY <1>1, <2>3
         DEF Coordinate, Begin, CheckEligibility, RefuseConfiguration, CallProvider, HearRefusal,
             HearNothing, HearPending, HearSucceeded, CloseRefund, FlagRefund, LoseCoordinator,
             database, provider
    <3>2. \A S \in Selections : MayBecome(S, ledger'[S])
      BY <1>1, <2>3, CoordinatorWrites
    <3> QED BY <3>1, <3>2, OthersStutter
  <2> QED BY <2>1, <2>2, <2>3
<1>2. ASSUME NEW o \in Operators, Recover(o) PROVE [Promise!Next]_(Promise!promises)
  <2>1. CASE RecoverTickets(o)
    <3>1. PICK seen \in BOOLEAN : CallReversal(target[o], seen)
      BY <2>1 DEF RecoverTickets
    <3>2. target[o] \in Selections /\ refund[target[o]] = "succeeded" /\ UNCHANGED <<ledger, refund>>
      BY <2>1 DEF RecoverTickets, RInv, Recoveries, provider
    <3> QED BY <3>1, <3>2, ReversalPromised
  <2>2. CASE ~RecoverTickets(o)
    <3>1. UNCHANGED <<ticket, reversed, refund>>
      BY <1>2, <2>2 DEF Recover, ReadLedger, LookUpRefund, MarkFailed, MarkRefunded,
                        CloseRecovery, LoseRecovery, database, provider
    <3>2. \A S \in Selections : MayBecome(S, ledger'[S])
      BY <1>2, OperatorWrites
    <3> QED BY <3>1, <3>2, OthersStutter
  <2> QED BY <2>1, <2>2
<1>3. ASSUME NEW S \in Selections, NEW d \in Deliveries, Notify(S, d)
      PROVE  [Promise!Next]_(Promise!promises)
  <2>1. UNCHANGED <<ticket, reversed, refund>>
    BY <1>3 DEF Notify, ReceiveRefundEvent, FlagReconciliationNeeded, database, provider
  <2>2. CASE UNCHANGED ledger
    BY <2>1, <2>2, OthersStutter DEF MayBecome
  <2>3. CASE FlagReconciliationNeeded(S, d)
    BY <2>1, <2>3, FlagWrites, OthersStutter
  <2> QED BY <1>3, <2>2, <2>3 DEF Notify, ReceiveRefundEvent, database
<1>4. CASE UNCHANGED vars
  <2>1. UNCHANGED <<ticket, reversed, refund, ledger>>
    BY <1>4 DEF vars, database, provider
  <2> QED BY <2>1, OthersStutter DEF MayBecome
<1> QED BY <1>1, <1>2, <1>3, <1>4, ProviderPromised, DoorPromised DEF Next

\* The coordinator with its crashes and lost answers, the events, the recovery
\* and the door implement RefundPromise.
THEOREM RefundKeepsPromise == Spec => KeepsPromise
<1>1. Init => Promise!Init
  BY DEF Init, Promise!Init, Known, NoRow
<1> QED BY <1>1, PromiseKept, RefundInvariant, PTL DEF Spec, KeepsPromise, Promise!Spec

==============================================================================
