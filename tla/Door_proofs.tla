------------------------------ MODULE Door_proofs ------------------------------
(* What the requests of a transfer rely on between their two calls, and, over *)
(* it, that the pass of a ticket belongs to its owner and a screen shows it to *)
(* nobody else: for any accounts, requests, tabs, calls, devices, staff and    *)
(* bounds. The transfer's theorems are about its own specification, Spec; the  *)
(* door's are about DoorSpec, in which the transfer's steps are some of many.  *)
EXTENDS Door, TLAPS

-----------------------------------------------------------------------------
(* The transfer: the strengthening.                                          *)

\* A process that is about to write a code read a row that still had one to
\* give; a process that is about to accept verified a code the recipient saw.
WhatRequestsRead ==
    \A r \in Requests :
        /\ request[r].at = "rotate" => request[r].count < MaxIssues
        /\ request[r].at = "accept" =>
              /\ request[r].user \in Users
              /\ [id |-> request[r].id, token |-> request[r].token] \in known

TransferInv == TransferType /\ CodesWithinCap /\ WhatRequestsRead /\ OwnerIsTold

TicketRows == [owner : Users, status : {"issued", "void"}, inside : BOOLEAN]
TransferRows ==
    [id : 0 .. MaxTransfers, status : Statuses, sender : Users \union {None},
     recipient : Users \union {None}, token : 0 .. MaxIssues,
     count : 0 .. MaxIssues, live : BOOLEAN]
RequestRows ==
    [at : {"idle", "initiate", "rotate", "accept"},
     user : Users \union {None}, other : Users \union {None},
     id : 0 .. MaxTransfers, token : 0 .. MaxIssues, count : 0 .. MaxIssues]

LEMMA RowTypes == TransferType <=>
    /\ ticket \in TicketRows /\ transfer \in TransferRows
    /\ request \in [Requests -> RequestRows]
BY DEF TransferType, TicketRows, TransferRows, RequestRows

LEMMA IdleRow == Idle \in RequestRows
BY Bounds DEF Idle, RequestRows

LEMMA InitiatingRow ==
    ASSUME NEW row \in RequestRows, NEW user \in Users, NEW other \in Users
    PROVE  LET new == [row EXCEPT !.at = "initiate", !.user = user, !.other = other]
           IN  new \in RequestRows /\ new.at = "initiate"
BY DEF RequestRows

LEMMA FinishKeepsRows ==
    ASSUME NEW r \in Requests, request \in [Requests -> RequestRows], Finish(r)
    PROVE  /\ request' \in [Requests -> RequestRows]
           /\ request'[r] = Idle
           /\ \A q \in Requests : q # r => request'[q] = request[q]
BY IdleRow DEF Finish

\* A request that is finished relies on nothing.
LEMMA FinishKeepsReads ==
    ASSUME TransferInv, NEW r \in Requests, Finish(r), known \subseteq known'
    PROVE  WhatRequestsRead'
<1>1. /\ request'[r] = Idle
      /\ \A q \in Requests : q # r => request'[q] = request[q]
    BY RowTypes, FinishKeepsRows DEF TransferInv
<1>2. Idle.at = "idle"
    BY DEF Idle
<1> QED
    BY <1>1, <1>2 DEF TransferInv, WhatRequestsRead

-----------------------------------------------------------------------------
(* One lemma per action.                                                     *)

LEMMA InitInv == Init => TransferInv
<1> SUFFICES ASSUME Init PROVE TransferInv
    OBVIOUS
<1>1. TransferType
    BY Bounds DEF Init, TransferType, Statuses, Idle
<1>2. WhatRequestsRead
    BY DEF Init, WhatRequestsRead, Idle
<1>3. CodesWithinCap /\ OwnerIsTold
    BY Bounds DEF Init, CodesWithinCap, OwnerIsTold
<1> QED
    BY <1>1, <1>2, <1>3 DEF TransferInv

LEMMA RequestTransferKeeps ==
    ASSUME TransferInv, NEW r \in Requests, NEW user \in Users, NEW other \in Users,
           RequestTransfer(r, user, other)
    PROVE  TransferInv'
<1> DEFINE row == [Idle EXCEPT !.at = "initiate", !.user = user, !.other = other]
<1>1. row \in RequestRows /\ row.at = "initiate"
    BY IdleRow, InitiatingRow
<1>2. request' = [request EXCEPT ![r] = row]
    BY DEF RequestTransfer
<1> HIDE DEF row
<1>3. request' \in [Requests -> RequestRows] /\ request'[r] = row
      /\ \A q \in Requests : q # r => request'[q] = request[q]
    BY <1>1, <1>2, RowTypes DEF TransferInv
<1>4. UNCHANGED <<ticket, transfer, minted, known>>
    BY DEF RequestTransfer
<1>5. TransferType'
    BY <1>3, <1>4 DEF TransferInv, TransferType, RequestRows
<1>6. WhatRequestsRead'
    BY <1>1, <1>3, <1>4 DEF TransferInv, WhatRequestsRead
<1> QED
    BY <1>4, <1>5, <1>6 DEF TransferInv, CodesWithinCap, OwnerIsTold

LEMMA InitiateKeeps ==
    ASSUME TransferInv, NEW r \in Requests, InitiateTicketTransfer(r)
    PROVE  TransferInv'
<1>1. WhatRequestsRead'
    BY FinishKeepsReads DEF InitiateTicketTransfer
<1>2. request' \in [Requests -> RequestRows]
    BY FinishKeepsRows, RowTypes DEF InitiateTicketTransfer, TransferInv
<1>3. request[r] \in RequestRows
    BY RowTypes DEF TransferInv
<1>4. CASE Initiable(request[r].user)
    <2> DEFINE row == [id |-> transfer.id + 1, status |-> "pending",
                       sender |-> request[r].user, recipient |-> request[r].other,
                       token |-> 0, count |-> 0, live |-> TRUE]
    <2>1. transfer' = row /\ minted' = 0 /\ ticket' = ticket /\ transfer.id < MaxTransfers
        BY <1>4 DEF InitiateTicketTransfer
    <2>2. row \in TransferRows
        BY <1>3, <2>1, RowTypes, Bounds DEF TransferInv, TransferRows, RequestRows, Statuses
    <2>3. TransferType'
        BY <1>2, <2>1, <2>2 DEF TransferInv, TransferType, TransferRows, RequestRows
    <2>4. CodesWithinCap'
        BY <2>1, Bounds DEF CodesWithinCap
    <2>5. OwnerIsTold'
        BY <1>4, <2>1 DEF TransferInv, OwnerIsTold, Initiable
    <2> QED
        BY <1>1, <2>3, <2>4, <2>5 DEF TransferInv
<1>5. CASE ~Initiable(request[r].user)
    <2>1. UNCHANGED <<ticket, transfer, minted>>
        BY <1>5 DEF InitiateTicketTransfer
    <2> QED
        BY <1>1, <1>2, <2>1 DEF TransferInv, TransferType, RequestRows, CodesWithinCap, OwnerIsTold
<1> QED
    BY <1>4, <1>5

LEMMA LoadKeeps ==
    ASSUME TransferInv, NEW r \in Requests, NEW user \in Users, NEW place \in {"rotate", "accept"},
           request' = [request EXCEPT ![r] = Loaded(place, user)],
           UNCHANGED <<ticket, transfer, minted, known>>,
           place = "rotate" => transfer.count < MaxIssues,
           place = "accept" => [id |-> transfer.id, token |-> transfer.token] \in known
    PROVE  TransferInv'
<1> DEFINE row == Loaded(place, user)
<1>1. row \in RequestRows /\ row.at = place /\ row.user = user /\ row.count = transfer.count
      /\ row.id = transfer.id /\ row.token = transfer.token
    BY RowTypes DEF TransferInv, TransferRows, RequestRows, Loaded
<1> HIDE DEF row
<1>2. request' \in [Requests -> RequestRows] /\ request'[r] = row
      /\ \A q \in Requests : q # r => request'[q] = request[q]
    BY <1>1, RowTypes DEF TransferInv, row
<1>3. TransferType'
    BY <1>2 DEF TransferInv, TransferType, RequestRows
<1>4. WhatRequestsRead'
    BY <1>1, <1>2 DEF TransferInv, WhatRequestsRead
<1> QED
    BY <1>3, <1>4 DEF TransferInv, CodesWithinCap, OwnerIsTold

LEMMA RotatedRow ==
    ASSUME NEW row \in TransferRows, NEW n \in Nat, n < MaxIssues
    PROVE  LET new == [row EXCEPT !.token = n + 1, !.count = n + 1]
           IN  /\ new \in TransferRows /\ new.token = n + 1 /\ new.count = n + 1
               /\ new.status = row.status /\ new.recipient = row.recipient
<1>1. n + 1 \in 0 .. MaxIssues
    BY Bounds
<1> QED
    BY <1>1 DEF TransferRows

LEMMA RotateKeeps ==
    ASSUME TransferInv, NEW r \in Requests, RotateRecipientOtp(r)
    PROVE  TransferInv'
<1>1. known \subseteq known'
    BY DEF RotateRecipientOtp
<1>2. WhatRequestsRead'
    BY <1>1, FinishKeepsReads DEF RotateRecipientOtp
<1>3. request' \in [Requests -> RequestRows]
    BY FinishKeepsRows, RowTypes DEF RotateRecipientOtp, TransferInv
<1>4. CASE Unchanged(r)
    <2> DEFINE row == [transfer EXCEPT !.token = minted + 1, !.count = request[r].count + 1]
    <2>1. transfer' = row /\ minted' = minted + 1 /\ ticket' = ticket
        BY <1>4 DEF RotateRecipientOtp
    <2>2. transfer.count = request[r].count /\ request[r].count < MaxIssues
        BY <1>4 DEF Unchanged, RotateRecipientOtp, TransferInv, WhatRequestsRead
    <2>3. transfer \in TransferRows /\ minted = transfer.count
        BY RowTypes DEF TransferInv, CodesWithinCap
    <2>4. transfer.count \in 0 .. MaxIssues
        BY <2>3 DEF TransferRows
    <2>5. row \in TransferRows /\ row.token = minted + 1 /\ row.count = minted + 1
          /\ row.status = transfer.status /\ row.recipient = transfer.recipient
        <3>1. minted \in Nat /\ minted < MaxIssues /\ request[r].count = minted
            BY <2>2, <2>3, <2>4, Bounds
        <3> QED
            BY <2>3, <3>1, RotatedRow
    <2>6. TransferType'
        BY <1>3, <2>1, <2>5 DEF TransferInv, TransferType, TransferRows, RequestRows
    <2>7. CodesWithinCap'
        BY <2>1, <2>2, <2>3, <2>4, <2>5, Bounds DEF CodesWithinCap
    <2>8. OwnerIsTold'
        BY <2>1, <2>5 DEF TransferInv, OwnerIsTold
    <2> QED
        BY <1>2, <2>6, <2>7, <2>8 DEF TransferInv
<1>5. CASE ~Unchanged(r)
    <2>1. UNCHANGED <<ticket, transfer, minted>>
        BY <1>5 DEF RotateRecipientOtp
    <2> QED
        BY <1>2, <1>3, <2>1 DEF TransferInv, TransferType, RequestRows, CodesWithinCap, OwnerIsTold
<1> QED
    BY <1>4, <1>5

\* An acceptance moves the ticket to the recipient, or at most closes a
\* transfer that has lapsed.
LEMMA AcceptKeeps ==
    ASSUME TransferInv, NEW r \in Requests, AcceptTicketTransfer(r)
    PROVE  TransferInv'
<1>1. WhatRequestsRead'
    BY FinishKeepsReads DEF AcceptTicketTransfer
<1>2. request' \in [Requests -> RequestRows]
    BY FinishKeepsRows, RowTypes DEF AcceptTicketTransfer, TransferInv
<1>3. request[r] \in RequestRows /\ transfer \in TransferRows /\ ticket \in TicketRows
    BY RowTypes DEF TransferInv
<1>4. CASE MayAccept(r) /\ Transferable(transfer.sender)
    <2>1. /\ ticket' = [ticket EXCEPT !.owner = request[r].user]
          /\ transfer' = [transfer EXCEPT !.status = "accepted"]
          /\ minted' = minted
        BY <1>4 DEF AcceptTicketTransfer
    <2>2. request[r].user = transfer.recipient
        BY <1>4 DEF MayAccept
    <2>3. request[r].user \in Users
        BY <1>4 DEF AcceptTicketTransfer, TransferInv, WhatRequestsRead
    <2> QED
        BY <1>1, <1>2, <1>3, <2>1, <2>2, <2>3
        DEF TransferInv, TransferType, TicketRows, TransferRows, RequestRows, Statuses,
            CodesWithinCap, OwnerIsTold
<1>5. CASE ~(MayAccept(r) /\ Transferable(transfer.sender))
    <2>1. /\ ticket' = ticket /\ minted' = minted
          /\ \/ transfer' = transfer
             \/ transfer' = [transfer EXCEPT !.status = "expired"] /\ transfer.status = "pending"
        BY <1>5 DEF AcceptTicketTransfer, Lapsed
    <2> QED
        BY <1>1, <1>2, <1>3, <2>1
        DEF TransferInv, TransferType, TicketRows, TransferRows, RequestRows, Statuses,
            CodesWithinCap, OwnerIsTold
<1> QED
    BY <1>4, <1>5

LEMMA OthersKeep ==
    ASSUME TransferInv, TransferLapses \/ ReverseRefundedTickets \/ AttendanceChanges
    PROVE  TransferInv'
<1>1. request' = request /\ known' = known /\ minted' = minted
    BY DEF TransferLapses, ReverseRefundedTickets, AttendanceChanges
<1>2. WhatRequestsRead'
    BY <1>1 DEF TransferInv, WhatRequestsRead
<1>3. transfer \in TransferRows /\ ticket \in TicketRows
    BY RowTypes DEF TransferInv
<1>4. transfer' = transfer \/ transfer' = [transfer EXCEPT !.live = FALSE]
    BY DEF TransferLapses, ReverseRefundedTickets, AttendanceChanges
<1>5. \/ ticket' = ticket \/ ticket' = [ticket EXCEPT !.status = "void"]
      \/ ticket' = [ticket EXCEPT !.inside = ~@]
    BY DEF TransferLapses, ReverseRefundedTickets, AttendanceChanges
<1>6. /\ transfer' \in TransferRows /\ transfer'.token = transfer.token
      /\ transfer'.count = transfer.count /\ transfer'.status = transfer.status
      /\ transfer'.recipient = transfer.recipient
    BY <1>3, <1>4 DEF TransferRows
<1>7. ticket' \in TicketRows /\ ticket'.owner = ticket.owner
    BY <1>3, <1>5 DEF TicketRows
<1>8. TransferType'
    BY <1>1, <1>6, <1>7 DEF TransferInv, TransferType, TransferRows, TicketRows
<1> QED
    BY <1>1, <1>2, <1>6, <1>7, <1>8 DEF TransferInv, CodesWithinCap, OwnerIsTold

LEMMA TransferStutters ==
    ASSUME TransferInv, UNCHANGED <<ticket, transfer, request, minted, known>>
    PROVE  TransferInv'
BY DEF TransferInv, TransferType, CodesWithinCap, WhatRequestsRead, OwnerIsTold

\* An entry or an exit by any other rule of the door.
LEMMA AttendanceKeeps ==
    ASSUME TransferInv, NEW b \in BOOLEAN, ticket' = [ticket EXCEPT !.inside = b],
           UNCHANGED <<transfer, request, minted, known>>
    PROVE  TransferInv' /\ ticket' \in TicketRows /\ ticket'.inside = b
           /\ ticket'.owner = ticket.owner /\ ticket'.status = ticket.status
<1>1. /\ ticket' \in TicketRows /\ ticket'.owner = ticket.owner
      /\ ticket'.status = ticket.status /\ ticket'.inside = b
    BY RowTypes DEF TransferInv, TicketRows
<1>2. TransferType' /\ WhatRequestsRead'
    BY <1>1 DEF TransferInv, TransferType, TicketRows, WhatRequestsRead
<1> QED
    BY <1>1, <1>2 DEF TransferInv, CodesWithinCap, OwnerIsTold

LEMMA OwnerUnchangedKeeps ==
    ASSUME TransferInv, OwnerUnchanged PROVE TransferInv'
<1>1. ASSUME NEW r \in Requests, NEW user \in Users, NEW other \in Users,
             RequestTransfer(r, user, other)
      PROVE  TransferInv'
    BY <1>1, RequestTransferKeeps
<1>2. ASSUME NEW r \in Requests, NEW user \in Users, RequestTransferAcceptOtp(r, user)
      PROVE  TransferInv'
    BY <1>2, LoadKeeps DEF RequestTransferAcceptOtp
<1>3. ASSUME NEW r \in Requests, NEW user \in Users, AcceptRequest(r, user)
      PROVE  TransferInv'
    BY <1>3, LoadKeeps DEF AcceptRequest
<1>4. ASSUME NEW r \in Requests, InitiateTicketTransfer(r) PROVE TransferInv'
    BY <1>4, InitiateKeeps
<1>5. ASSUME NEW r \in Requests, RotateRecipientOtp(r) PROVE TransferInv'
    BY <1>5, RotateKeeps
<1> QED
    BY <1>1, <1>2, <1>3, <1>4, <1>5, OthersKeep DEF OwnerUnchanged

\* What moves a ticket, in any composition that takes these steps.
LEMMA MovesOnlyOnCode ==
    ASSUME TransferInv, NEW r \in Requests, AcceptTicketTransfer(r),
           ticket'.owner # ticket.owner
    PROVE  /\ transfer.status = "pending" /\ transfer.live
           /\ [id |-> transfer.id, token |-> transfer.token] \in known
           /\ request[r].at = "accept" /\ request'[r] = Idle
           /\ request[r].id = transfer.id /\ request[r].token = transfer.token
           /\ request[r].user = ticket'.owner
<1>1. MayAccept(r) /\ Transferable(transfer.sender)
    BY DEF AcceptTicketTransfer
<1>2. ticket' = [ticket EXCEPT !.owner = request[r].user] /\ request[r].at = "accept"
    BY <1>1 DEF AcceptTicketTransfer
<1>3. request'[r] = Idle
    BY FinishKeepsRows, RowTypes DEF AcceptTicketTransfer, TransferInv
<1>4. ticket'.owner = request[r].user
    BY <1>2, RowTypes DEF TransferInv, TicketRows
<1> QED
    BY <1>1, <1>2, <1>3, <1>4 DEF MayAccept, Open, TransferInv, WhatRequestsRead

-----------------------------------------------------------------------------
(* The theorems.                                                             *)

\* Rows, processes and histories keep their types, codes stay within their
\* cap, and every process may rely on what it read.
THEOREM TransferInvariant == Spec => []TransferInv
<1>1. TransferInv /\ [Next]_base => TransferInv'
    <2> SUFFICES ASSUME TransferInv, [Next]_base PROVE TransferInv'
        OBVIOUS
    <2>1. CASE Next
        BY <2>1, OwnerUnchangedKeeps, AcceptKeeps, OthersKeep DEF Next
    <2>2. CASE UNCHANGED base
        BY <2>2, TransferStutters DEF base
    <2> QED
        BY <2>1, <2>2
<1> QED
    BY InitInv, <1>1, PTL DEF Spec

\* The two processes that race for the last code never get one each.
THEOREM CodesNeverExceedCap == Spec => []CodesWithinCap
BY TransferInvariant, PTL DEF TransferInv

\* The ticket has moved exactly when its newest transfer was accepted.
THEOREM OwnerAlwaysTold == Spec => []OwnerIsTold
BY TransferInvariant, PTL DEF TransferInv

\* However long ago a code was verified, the ticket moves only on the newest
\* code of an open transfer.
THEOREM OnlyNewestCodeMoves == Spec => NewestCodeMoves
<1> DEFINE Moves ==
        ticket'.owner # ticket.owner =>
          /\ transfer.status = "pending" /\ transfer.live
          /\ [id |-> transfer.id, token |-> transfer.token] \in known
          /\ \E r \in Requests : /\ request[r].at = "accept" /\ request'[r] = Idle
                                 /\ request[r].id = transfer.id
                                 /\ request[r].token = transfer.token
                                 /\ request[r].user = ticket'.owner
<1>1. TransferInv /\ [Next]_base => [Moves]_base
    <2> SUFFICES ASSUME TransferInv, Next, ticket'.owner # ticket.owner PROVE Moves
        OBVIOUS
    <2>1. ~OwnerUnchanged
        BY DEF OwnerUnchanged, RequestTransfer, RequestTransferAcceptOtp, AcceptRequest,
               InitiateTicketTransfer, RotateRecipientOtp, TransferLapses
    <2>2. ~ReverseRefundedTickets /\ ~AttendanceChanges
        BY RowTypes DEF TransferInv, TicketRows, ReverseRefundedTickets, AttendanceChanges
    <2>3. PICK r \in Requests : AcceptTicketTransfer(r)
        BY <2>1, <2>2 DEF Next
    <2> QED
        BY <2>3, MovesOnlyOnCode
<1> QED
    BY TransferInvariant, <1>1, PTL DEF Spec, NewestCodeMoves

-----------------------------------------------------------------------------
(* The door: the strengthening.                                              *)

\* A tab listens to a call of its own account; what a call brings back was
\* minted for the account that asked; a code on a screen was minted.
Listening ==
    \A t \in Tabs : tab[t].call # None =>
        LET c == tab[t].call
        IN  call[c].at # "idle" /\ call[c].tab = t /\ call[c].user = tab[t].user

Minted(p, user) == p \in Passes /\ pass[p].status # "fresh" /\ pass[p].holder = user

Answers ==
    \A c \in Calls : call[c].at # "idle" =>
        /\ call[c].tab \in Tabs /\ call[c].user \in Users
        /\ call[c].at = "issued" => Minted(call[c].saw, call[c].user)

Screens == \A t \in Tabs : tab[t].shown # NoPass => Minted(tab[t].shown, tab[t].user)

PageInv == Listening /\ Answers /\ Screens

DoorInv == TypeOK /\ TransferInv /\ PassIsOwners /\ InsideCanLeave /\ PageInv

PassRows == [status : {"fresh", "active", "revoked"}, holder : Users \union {None}]
TabRows  == [user : Users, call : Calls \union {None},
             saw : 0 .. MaxPasses + 1, shown : 0 .. MaxPasses]
CallRows == [at : {"idle", "inspect", "issue", "ready", "issued", "refused"},
             tab : Tabs \union {None}, user : Users \union {None},
             saw : 0 .. MaxPasses + 1]
ScanRows == [at : {"idle", "entry", "exit"}, staff : Staff \union {None},
             pass : 0 .. MaxPasses]
GateRows == [entries : 0 .. MaxEntries, exits : 0 .. MaxEntries, pass : 0 .. MaxPasses]

LEMMA DoorTypes == TypeOK <=>
    /\ TransferType
    /\ pass \in [Passes -> PassRows] /\ tab \in [Tabs -> TabRows]
    /\ call \in [Calls -> CallRows]
    /\ member \in [Staff -> [role : Roles, elsewhere : BOOLEAN]]
    /\ scan \in [Devices -> ScanRows] /\ gate \in GateRows
BY DEF TypeOK, PassRows, TabRows, CallRows, ScanRows, GateRows

-----------------------------------------------------------------------------
(* Rows.                                                                     *)

LEMMA FreshTab == ASSUME NEW user \in Users
                  PROVE  /\ Tab(user) \in TabRows /\ Tab(user).user = user
                         /\ Tab(user).call = None /\ Tab(user).shown = NoPass
BY DoorBounds DEF Tab, TabRows, Unknown, NoPass

LEMMA ListeningRow ==
    ASSUME NEW row \in TabRows, NEW c \in Calls
    PROVE  LET new == [row EXCEPT !.call = c]
           IN  new \in TabRows /\ new.call = c /\ new.user = row.user /\ new.shown = row.shown
BY DEF TabRows

LEMMA SilentRow == Silent \in CallRows /\ Silent.at = "idle"
BY DoorBounds DEF Silent, CallRows, Unknown

LEMMA ActivePassType == ActivePass \in 0 .. MaxPasses + 1
BY DoorBounds DEF ActivePass, Active, Passes, NoPass

LEMMA RevokedPasses ==
    ASSUME TypeOK
    PROVE  /\ Revoked \in [Passes -> PassRows]
           /\ \A p \in Passes : /\ Revoked[p].status # "active"
                                /\ Revoked[p].holder = pass[p].holder
                                /\ (Revoked[p].status = "fresh") = (pass[p].status = "fresh")
<1>1. pass \in [Passes -> PassRows]
    BY DoorTypes
<1>2. ASSUME NEW row \in PassRows
      PROVE  LET new == [row EXCEPT !.status = "revoked"]
             IN  new \in PassRows /\ new.status = "revoked" /\ new.holder = row.holder
    BY DEF PassRows
<1>3. ASSUME NEW p \in Passes
      PROVE  /\ Revoked[p] \in PassRows /\ Revoked[p].status # "active"
             /\ Revoked[p].holder = pass[p].holder
             /\ (Revoked[p].status = "fresh") = (pass[p].status = "fresh")
    <2>1. Revoked[p] = IF pass[p].status = "active"
                       THEN [pass[p] EXCEPT !.status = "revoked"] ELSE pass[p]
        BY DEF Revoked, Active
    <2> QED
        BY <1>1, <1>2, <2>1
<1>4. Revoked = [p \in Passes |-> Revoked[p]]
    BY DEF Revoked
<1> QED
    BY <1>3, <1>4

\* Minting and revoking take nobody's code away: what was minted for an
\* account stays minted for it.
LEMMA PassesGrow ==
    ASSUME PageInv, \A p \in Passes : pass[p].status # "fresh" =>
                        pass'[p].status # "fresh" /\ pass'[p].holder = pass[p].holder
    PROVE  /\ tab' = tab => Screens'
           /\ tab' = tab /\ call' = call => PageInv'
BY DEF PageInv, Listening, Answers, Screens, Minted

\* The ticket, its passes and the gate are left alone.
LEMMA DoorFrame ==
    ASSUME DoorInv, UNCHANGED <<ticket, pass, gate>>
    PROVE  PassIsOwners' /\ InsideCanLeave'
<1>1. PassIsOwners'
    BY DEF DoorInv, PassIsOwners, Active
<1>2. InsideCanLeave'
    BY DEF DoorInv, InsideCanLeave, Active
<1> QED
    BY <1>1, <1>2

-----------------------------------------------------------------------------
(* The owner's controller.                                                   *)

\* A tab that stops listening shows nothing that was not minted for it.
LEMMA TabSet ==
    ASSUME DoorInv, NEW t \in Tabs, NEW row \in TabRows, row.call = None,
           row.shown # NoPass => Minted(row.shown, row.user),
           tab' = [tab EXCEPT ![t] = row], pass' = pass
    PROVE  /\ tab' \in [Tabs -> TabRows] /\ Screens' /\ tab'[t].call = None
           /\ \A u \in Tabs : u # t => tab'[u] = tab[u]
<1>1. tab \in [Tabs -> TabRows]
    BY DoorTypes DEF DoorInv
<1>2. tab'[t] = row /\ \A u \in Tabs : u # t => tab'[u] = tab[u]
    BY <1>1
<1>3. Screens'
    BY <1>2 DEF DoorInv, PageInv, Screens, Minted
<1> QED
    BY <1>1, <1>2, <1>3

LEMMA ForgetKeeps ==
    ASSUME DoorInv, NEW t \in Tabs, NEW user \in Users,
           tab' = [tab EXCEPT ![t] = Tab(user)],
           UNCHANGED <<base, pass, call, member, scan, gate>>
    PROVE  DoorInv'
<1>1. UNCHANGED <<ticket, transfer, request, minted, known>>
    BY DEF base
<1>2. /\ tab' \in [Tabs -> TabRows] /\ Screens' /\ tab'[t].call = None
      /\ \A u \in Tabs : u # t => tab'[u] = tab[u]
    BY FreshTab, TabSet
<1>3. Listening' /\ Answers'
    <2>1. Answers'
        BY DEF DoorInv, PageInv, Answers, Minted
    <2>2. Listening'
        BY <1>2 DEF DoorInv, PageInv, Listening
    <2> QED
        BY <2>1, <2>2
<1>4. TypeOK'
    BY <1>1, <1>2 DEF DoorInv, TypeOK, TransferType, TabRows
<1>5. TransferInv'
    BY <1>1, TransferStutters DEF DoorInv
<1> QED
    BY <1>1, <1>2, <1>3, <1>4, <1>5, DoorFrame DEF DoorInv, PageInv

LEMMA SendKeeps ==
    ASSUME DoorInv, NEW c \in Calls, NEW t \in Tabs, NEW place \in {"inspect", "issue"},
           Send(c, t, place)
    PROVE  DoorInv'
<1> DEFINE row == [at |-> place, tab |-> t, user |-> tab[t].user, saw |-> tab[t].saw]
           new == [Tab(tab[t].user) EXCEPT !.call = c]
<1>1. UNCHANGED <<ticket, transfer, request, minted, known, pass, member, scan, gate>>
    BY DEF Send, base
<1>2. call' = [call EXCEPT ![c] = row] /\ tab' = [tab EXCEPT ![t] = new]
      /\ call[c] = Silent /\ tab[t].call = None
    BY DEF Send
<1>3. tab \in [Tabs -> TabRows] /\ call \in [Calls -> CallRows] /\ tab[t] \in TabRows
    BY DoorTypes DEF DoorInv
<1>4. tab[t].user \in Users /\ tab[t].saw \in 0 .. MaxPasses + 1
    BY <1>3 DEF TabRows
<1>5. row \in CallRows /\ row.at = place /\ row.tab = t /\ row.user = tab[t].user
    BY <1>4 DEF CallRows
<1>6. new \in TabRows /\ new.call = c /\ new.user = tab[t].user /\ new.shown = NoPass
    BY <1>4, FreshTab, ListeningRow
<1> HIDE DEF row, new
<1>7. call' \in [Calls -> CallRows] /\ call'[c] = row
      /\ \A d \in Calls : d # c => call'[d] = call[d]
    BY <1>2, <1>3, <1>5
<1>8. tab' \in [Tabs -> TabRows] /\ tab'[t] = new
      /\ \A u \in Tabs : u # t => tab'[u] = tab[u]
    BY <1>2, <1>3, <1>6
<1>9. Screens'
    BY <1>1, <1>6, <1>8 DEF DoorInv, PageInv, Screens, Minted
<1>10. Answers'
    BY <1>1, <1>4, <1>5, <1>7 DEF DoorInv, PageInv, Answers, Minted
<1>11. Listening'
    <2> SUFFICES ASSUME NEW u \in Tabs, tab'[u].call # None
                 PROVE  /\ call'[tab'[u].call].at # "idle" /\ call'[tab'[u].call].tab = u
                        /\ call'[tab'[u].call].user = tab'[u].user
        BY DEF Listening
    <2>1. CASE u = t
        BY <2>1, <1>5, <1>6, <1>7, <1>8
    <2>2. CASE u # t
        <3>1. tab'[u] = tab[u] /\ tab[u].call \in Calls
            BY <2>2, <1>3, <1>8 DEF TabRows
        <3>2. call[tab[u].call].at # "idle"
            BY <3>1 DEF DoorInv, PageInv, Listening
        <3>3. tab[u].call # c
            BY <3>2, <1>2, SilentRow
        <3> QED
            BY <3>1, <3>3, <1>7 DEF DoorInv, PageInv, Listening
    <2> QED
        BY <2>1, <2>2
<1>12. TypeOK'
    BY <1>1, <1>7, <1>8 DEF DoorInv, TypeOK, TransferType, TabRows, CallRows
<1>13. TransferInv'
    BY <1>1, TransferStutters DEF DoorInv
<1> QED
    BY <1>1, <1>9, <1>10, <1>11, <1>12, <1>13, DoorFrame DEF DoorInv, PageInv

\* What the server replies for a call at work: the tabs go on listening, and
\* a code that is sent back was minted for who asked.
LEMMA ReplyKeepsPage ==
    ASSUME DoorInv, NEW c \in Calls, NEW content \in 0 .. MaxPasses + 1,
           NEW place \in {"ready", "issued", "refused"}, Reply(c, place, content),
           call[c].at # "idle", tab' = tab,
           \A p \in Passes : pass[p].status # "fresh" =>
               pass'[p].status # "fresh" /\ pass'[p].holder = pass[p].holder,
           place = "issued" => content \in Passes /\ pass'[content].status # "fresh"
                               /\ pass'[content].holder = call[c].user
    PROVE  PageInv' /\ call' \in [Calls -> CallRows]
<1> DEFINE row == [call[c] EXCEPT !.at = place, !.saw = content]
<1>1. call \in [Calls -> CallRows]
    BY DoorTypes DEF DoorInv
<1>2. row \in CallRows /\ row.at = place /\ row.saw = content
      /\ row.tab = call[c].tab /\ row.user = call[c].user
    <2>1. call[c] \in CallRows
        BY <1>1
    <2> QED
        BY <2>1 DEF CallRows
<1>3. call' = [call EXCEPT ![c] = row]
    BY <1>1 DEF Reply
<1> HIDE DEF row
<1>4. call' \in [Calls -> CallRows] /\ call'[c] = row
      /\ \A d \in Calls : d # c => call'[d] = call[d]
    BY <1>1, <1>2, <1>3
<1>5. Screens'
    BY DEF DoorInv, PageInv, Screens, Minted
<1>6. Answers'
    BY <1>2, <1>4 DEF DoorInv, PageInv, Answers, Minted
<1>7. Listening'
    <2> SUFFICES ASSUME NEW u \in Tabs, tab[u].call # None
                 PROVE  /\ call'[tab[u].call].at # "idle" /\ call'[tab[u].call].tab = u
                        /\ call'[tab[u].call].user = tab[u].user
        BY DEF Listening
    <2>1. tab[u].call \in Calls
        BY DoorTypes DEF DoorInv, TabRows
    <2>2. /\ call[tab[u].call].at # "idle" /\ call[tab[u].call].tab = u
          /\ call[tab[u].call].user = tab[u].user
        BY DEF DoorInv, PageInv, Listening
    <2> QED
        BY <2>1, <2>2, <1>2, <1>4
<1> QED
    BY <1>4, <1>5, <1>6, <1>7 DEF PageInv

LEMMA InspectKeeps ==
    ASSUME DoorInv, NEW c \in Calls, InspectOwnerPass(c) PROVE DoorInv'
<1>1. UNCHANGED <<ticket, transfer, request, minted, known, pass, tab, member, scan, gate>>
    BY DEF InspectOwnerPass, base
<1>2. PageInv' /\ call' \in [Calls -> CallRows]
    <2>1. call[c].at # "idle"
        BY DEF InspectOwnerPass
    <2>2. Unknown \in 0 .. MaxPasses + 1
        BY DoorBounds DEF Unknown
    <2>3. Reply(c, "ready", ActivePass) \/ Reply(c, "refused", Unknown)
        BY DEF InspectOwnerPass
    <2> QED
        BY <1>1, <2>1, <2>2, <2>3, ActivePassType, ReplyKeepsPage
<1>3. TypeOK'
    BY <1>1, <1>2 DEF DoorInv, TypeOK, TransferType, CallRows
<1>4. TransferInv'
    BY <1>1, TransferStutters DEF DoorInv
<1> QED
    BY <1>1, <1>2, <1>3, <1>4, DoorFrame DEF DoorInv

LEMMA MintedRow ==
    ASSUME NEW user \in Users
    PROVE  [status |-> "active", holder |-> user] \in PassRows
BY DEF PassRows

LEMMA IssueKeeps ==
    ASSUME DoorInv, NEW c \in Calls, ReplaceOwnerTicketPass(c) PROVE DoorInv'
<1>1. UNCHANGED <<ticket, transfer, request, minted, known, tab, member, scan, gate>>
    BY DEF ReplaceOwnerTicketPass, base
<1>2. call[c].at # "idle"
    BY DEF ReplaceOwnerTicketPass
<1>3. TypeOK /\ pass \in [Passes -> PassRows]
    BY DoorTypes DEF DoorInv
<1>4. TransferInv'
    BY <1>1, TransferStutters DEF DoorInv
<1>5. CASE Replaceable(c)
    <2>1. PICK p \in Passes :
              /\ pass[p].status = "fresh"
              /\ pass' = [Revoked EXCEPT ![p] = [status |-> "active", holder |-> call[c].user]]
              /\ Reply(c, "issued", p)
        BY <1>5 DEF ReplaceOwnerTicketPass
    <2>2. /\ call[c].user = ticket.owner /\ ticket.status = "issued" /\ ~ticket.inside
        BY <1>5 DEF Replaceable, Transferable
    <2>3. call[c].user \in Users
        BY <1>2 DEF DoorInv, PageInv, Answers
    <2>4. /\ pass' \in [Passes -> PassRows]
          /\ pass'[p] = [status |-> "active", holder |-> call[c].user]
          /\ \A q \in Passes : q # p => pass'[q] = Revoked[q]
        BY <1>3, <2>1, <2>3, MintedRow, RevokedPasses
    <2>5. \A q \in Passes : pass[q].status # "fresh" =>
               pass'[q].status # "fresh" /\ pass'[q].holder = pass[q].holder
        BY <1>3, <2>1, <2>4, RevokedPasses
    <2>6. p \in 0 .. MaxPasses + 1
        BY DoorBounds DEF Passes
    <2>7. PageInv' /\ call' \in [Calls -> CallRows]
        BY <1>1, <1>2, <2>1, <2>4, <2>5, <2>6, ReplyKeepsPage
    <2>8. PassIsOwners'
        BY <1>1, <1>3, <2>2, <2>4, RevokedPasses DEF PassIsOwners, Active
    <2>9. InsideCanLeave'
        BY <1>1, <2>2 DEF DoorInv, InsideCanLeave
    <2>10. TypeOK'
        BY <1>1, <2>4, <2>7 DEF DoorInv, TypeOK, TransferType, CallRows, PassRows
    <2> QED
        BY <1>4, <2>7, <2>8, <2>9, <2>10 DEF DoorInv
<1>6. CASE ~Replaceable(c)
    <2>1. Reply(c, "refused", Unknown) /\ pass' = pass
        BY <1>6 DEF ReplaceOwnerTicketPass
    <2>2. Unknown \in 0 .. MaxPasses + 1
        BY DoorBounds DEF Unknown
    <2>3. PageInv' /\ call' \in [Calls -> CallRows]
        BY <1>1, <1>2, <2>1, <2>2, ReplyKeepsPage
    <2>4. TypeOK'
        BY <1>1, <2>1, <2>3 DEF DoorInv, TypeOK, TransferType, CallRows
    <2> QED
        BY <1>1, <1>4, <2>1, <2>3, <2>4, DoorFrame DEF DoorInv
<1> QED
    BY <1>5, <1>6

\* A call that is answered is forgotten; a tab that listened to it takes what
\* it brings, no other tab does.
LEMMA AnsweredKeeps ==
    ASSUME DoorInv, NEW c \in Calls, Answered(c) PROVE DoorInv'
<1> DEFINE t == call[c].tab
           saw == IF call[c].at = "ready" THEN call[c].saw ELSE Unknown
           shown == IF call[c].at = "issued" THEN call[c].saw ELSE NoPass
           row == [Tab(tab[t].user) EXCEPT !.saw = saw, !.shown = shown]
<1>1. UNCHANGED <<ticket, transfer, request, minted, known, pass, member, scan, gate>>
    BY DEF Answered, base
<1>2. tab \in [Tabs -> TabRows] /\ call \in [Calls -> CallRows] /\ call[c] \in CallRows
    BY DoorTypes DEF DoorInv
<1>3. t \in Tabs /\ call[c].user \in Users
      /\ (call[c].at = "issued" => Minted(call[c].saw, call[c].user))
    BY DEF Answered, DoorInv, PageInv, Answers
<1>4. tab[t].user \in Users
    BY <1>2, <1>3 DEF TabRows
<1>5. call'[c] = Silent /\ call' \in [Calls -> CallRows]
      /\ \A d \in Calls : d # c => call'[d] = call[d]
    BY <1>2, SilentRow DEF Answered
<1>6. /\ tab' \in [Tabs -> TabRows] /\ Screens'
      /\ \A u \in Tabs : tab'[u] = tab[u] \/ (u = t /\ tab'[u].call = None)
      /\ tab'[t].call # c
    <2>1. CASE tab[t].call # c
        <3>1. tab' = tab
            BY <2>1 DEF Answered, Heard
        <3> QED
            BY <2>1, <3>1, <1>1, <1>2 DEF DoorInv, PageInv, Screens, Minted
    <2>2. CASE tab[t].call = c
        <3>1. tab' = [tab EXCEPT ![t] = row]
            BY <2>2, <1>2, <1>3 DEF Answered, Heard
        <3>2. saw \in 0 .. MaxPasses + 1
            BY <1>2, DoorBounds DEF CallRows, Unknown
        <3>3. shown \in 0 .. MaxPasses
            BY <1>3, DoorBounds DEF NoPass, Minted, Passes
        <3>4. row \in TabRows /\ row.call = None /\ row.user = tab[t].user /\ row.shown = shown
            <4> DEFINE empty == Tab(tab[t].user)
            <4>1. empty \in TabRows /\ empty.call = None /\ empty.user = tab[t].user
                BY <1>4, FreshTab
            <4> HIDE DEF empty, saw, shown
            <4>2. [empty EXCEPT !.saw = saw, !.shown = shown] \in TabRows
                  /\ [empty EXCEPT !.saw = saw, !.shown = shown].call = None
                  /\ [empty EXCEPT !.saw = saw, !.shown = shown].user = tab[t].user
                  /\ [empty EXCEPT !.saw = saw, !.shown = shown].shown = shown
                BY <4>1, <3>2, <3>3 DEF TabRows
            <4> QED
                BY <4>2 DEF empty
        <3>5. call[c].user = tab[t].user
            BY <2>2, <1>3, DoorBounds DEF DoorInv, PageInv, Listening
        <3>6. row.shown # NoPass => Minted(row.shown, row.user)
            BY <1>3, <3>4, <3>5
        <3>7. pass' = pass
            BY <1>1
        <3> HIDE DEF row, t
        <3> QED
            BY <1>3, <3>1, <3>4, <3>6, <3>7, TabSet, DoorBounds
    <2> QED
        BY <2>1, <2>2
<1>7. Answers'
    BY <1>1, <1>5, SilentRow DEF DoorInv, PageInv, Answers, Minted
<1>8. Listening'
    <2> SUFFICES ASSUME NEW u \in Tabs, tab'[u].call # None
                 PROVE  /\ call'[tab'[u].call].at # "idle" /\ call'[tab'[u].call].tab = u
                        /\ call'[tab'[u].call].user = tab'[u].user
        BY DEF Listening
    <2>1. tab'[u] = tab[u] /\ tab[u].call \in Calls
        BY <1>2, <1>6 DEF TabRows
    <2>2. /\ call[tab[u].call].at # "idle" /\ call[tab[u].call].tab = u
          /\ call[tab[u].call].user = tab[u].user
        BY <2>1 DEF DoorInv, PageInv, Listening
    <2>3. tab[u].call # c
        BY <1>6, <2>1, <2>2
    <2> QED
        BY <2>1, <2>2, <2>3, <1>5
<1>9. TypeOK'
    BY <1>1, <1>5, <1>6 DEF DoorInv, TypeOK, TransferType, TabRows, CallRows
<1>10. TransferInv'
    BY <1>1, TransferStutters DEF DoorInv
<1> QED
    BY <1>1, <1>6, <1>7, <1>8, <1>9, <1>10, DoorFrame DEF DoorInv, PageInv

-----------------------------------------------------------------------------
(* The ticket changes, the door.                                             *)

\* A step that touches neither tabs nor calls, and at most revokes passes.
LEMMA PageKept ==
    ASSUME DoorInv, UNCHANGED <<tab, call>>, pass' = pass \/ pass' = Revoked
    PROVE  PageInv'
<1>1. \A p \in Passes : pass[p].status # "fresh" =>
          pass'[p].status # "fresh" /\ pass'[p].holder = pass[p].holder
    BY RevokedPasses DEF DoorInv
<1> QED
    BY <1>1, PassesGrow DEF DoorInv

\* Only a ticket that is outside changes hands or is refunded, and then none of
\* its passes is left.
LEMMA TicketChangesKeeps ==
    ASSUME DoorInv, TicketChanges PROVE DoorInv'
<1>1. TransferInv'
    BY AcceptKeeps, OthersKeep DEF TicketChanges, DoorInv
<1>2. UNCHANGED <<tab, call, member, scan, gate>> /\ (pass' = pass \/ pass' = Revoked)
    BY DEF TicketChanges, RevokeTicketPassesOnStateChange
<1>3. pass' \in [Passes -> PassRows]
    BY <1>2, DoorTypes, RevokedPasses DEF DoorInv
<1>4. TypeOK'
    BY <1>1, <1>2, <1>3, DoorTypes DEF DoorInv, TransferInv, TypeOK, PassRows
<1>5. ticket \in TicketRows /\ ticket' \in TicketRows
    BY <1>1 DEF DoorInv, TransferInv, TransferType, TicketRows
<1>6. \/ ticket' = ticket
      \/ ~ticket.inside /\ ~ticket'.inside
    BY <1>5 DEF TicketChanges, ReverseRefundedTickets, AcceptTicketTransfer, Transferable, TicketRows
<1>7. \/ pass' = Revoked
      \/ pass' = pass /\ ticket'.owner = ticket.owner /\ ticket'.status = ticket.status
    <2>1. ticket'.status = ticket.status \/ ticket'.status # "issued"
        BY <1>5 DEF TicketChanges, ReverseRefundedTickets, AcceptTicketTransfer, TicketRows
    <2> QED
        BY <2>1 DEF TicketChanges, RevokeTicketPassesOnStateChange
<1>8. PassIsOwners'
    <2>1. CASE pass' = Revoked
        BY <2>1, RevokedPasses DEF DoorInv, PassIsOwners, Active
    <2>2. CASE pass' = pass /\ ticket'.owner = ticket.owner /\ ticket'.status = ticket.status
        BY <2>2 DEF DoorInv, PassIsOwners, Active
    <2> QED
        BY <1>2, <1>7, <2>1, <2>2
<1>9. InsideCanLeave'
    <2>1. CASE ticket' = ticket
        <3>1. pass' = pass
            BY <2>1 DEF TicketChanges, RevokeTicketPassesOnStateChange
        <3> QED
            BY <2>1, <3>1, <1>2 DEF DoorInv, InsideCanLeave, Active
    <2>2. CASE ~ticket.inside /\ ~ticket'.inside
        BY <2>2, <1>2 DEF DoorInv, InsideCanLeave
    <2> QED
        BY <1>6, <2>1, <2>2
<1> QED
    BY <1>1, <1>2, <1>4, <1>8, <1>9, PageKept DEF DoorInv

LEMMA TransferGoesOnKeeps ==
    ASSUME DoorInv, TransferGoesOn PROVE DoorInv'
<1>1. TransferInv'
    BY OwnerUnchangedKeeps DEF TransferGoesOn, DoorInv
<1>2. UNCHANGED <<pass, tab, call, member, scan, gate>>
    BY DEF TransferGoesOn, doorVars
<1>3. ticket' = ticket
    BY DEF TransferGoesOn, OwnerUnchanged, RequestTransfer, RequestTransferAcceptOtp, AcceptRequest,
           InitiateTicketTransfer, RotateRecipientOtp, TransferLapses
<1>4. TypeOK'
    BY <1>1, <1>2 DEF DoorInv, TypeOK, TransferInv
<1> QED
    BY <1>1, <1>2, <1>3, <1>4, PageKept, DoorFrame DEF DoorInv

\* Staff and devices, as long as nobody goes in or out.
LEMMA WaitKeeps ==
    ASSUME DoorInv, UNCHANGED <<ticket, transfer, request, minted, known, pass, tab, call, gate>>,
           member' \in [Staff -> [role : Roles, elsewhere : BOOLEAN]],
           scan' \in [Devices -> ScanRows]
    PROVE  DoorInv'
<1>1. TypeOK'
    BY DEF DoorInv, TypeOK, TransferType, ScanRows
<1> QED
    BY <1>1, TransferStutters, PageKept, DoorFrame DEF DoorInv

LEMMA ChangeMembershipKeeps ==
    ASSUME DoorInv, NEW s \in Staff, NEW role \in Roles, NEW elsewhere \in BOOLEAN,
           ChangeMembership(s, role, elsewhere)
    PROVE  DoorInv'
<1>1. member' \in [Staff -> [role : Roles, elsewhere : BOOLEAN]]
    BY DoorTypes DEF DoorInv, ChangeMembership
<1>2. UNCHANGED <<ticket, transfer, request, minted, known, pass, tab, call, scan, gate>>
    BY DEF ChangeMembership, base
<1> QED
    BY <1>1, <1>2, WaitKeeps, DoorTypes DEF DoorInv

LEMMA PresentKeeps ==
    ASSUME DoorInv, NEW d \in Devices, NEW s \in Staff, NEW p \in Passes,
           NEW place \in {"entry", "exit"}, Present(d, s, p, place)
    PROVE  DoorInv'
<1>1. [at |-> place, staff |-> s, pass |-> p] \in ScanRows
    BY DoorBounds DEF ScanRows, Passes
<1>2. scan' \in [Devices -> ScanRows]
    BY <1>1, DoorTypes DEF DoorInv, Present
<1>3. UNCHANGED <<ticket, transfer, request, minted, known, pass, tab, call, member, gate>>
    BY DEF Present, base
<1> QED
    BY <1>2, <1>3, WaitKeeps, DoorTypes DEF DoorInv

LEMMA NoScanRow == NoScan \in ScanRows
BY DoorBounds DEF NoScan, ScanRows, NoPass

\* Somebody goes in with an active pass or goes out.
LEMMA GateKeeps ==
    ASSUME DoorInv, NEW b \in BOOLEAN, ticket' = [ticket EXCEPT !.inside = b],
           UNCHANGED <<transfer, request, minted, known, pass, tab, call, member>>,
           scan' \in [Devices -> ScanRows], gate' \in GateRows,
           b => Active(gate'.pass), gate'.entries = gate'.exits + (IF b THEN 1 ELSE 0)
    PROVE  DoorInv'
<1>1. TransferInv' /\ ticket' \in TicketRows /\ ticket'.inside = b
      /\ ticket'.owner = ticket.owner /\ ticket'.status = ticket.status
    BY AttendanceKeeps DEF DoorInv
<1>2. TypeOK'
    BY <1>1 DEF DoorInv, TransferInv, TypeOK, ScanRows, GateRows
<1>3. PassIsOwners'
    BY <1>1 DEF DoorInv, PassIsOwners, Active
<1>4. InsideCanLeave'
    BY <1>1 DEF InsideCanLeave, Active
<1> QED
    BY <1>1, <1>2, <1>3, <1>4, PageKept DEF DoorInv

LEMMA EntryRow ==
    ASSUME NEW row \in GateRows, row.entries < MaxEntries, NEW p \in 0 .. MaxPasses
    PROVE  LET new == [row EXCEPT !.entries = @ + 1, !.pass = p]
           IN  /\ new \in GateRows /\ new.pass = p
               /\ new.exits = row.exits /\ new.entries = row.entries + 1
<1>1. row.entries + 1 \in 0 .. MaxEntries
    BY DoorBounds DEF GateRows
<1> QED
    BY <1>1 DEF GateRows

LEMMA ExitRow ==
    ASSUME NEW row \in GateRows, NEW p \in 0 .. MaxPasses
    PROVE  LET new == [row EXCEPT !.exits = row.entries, !.pass = p]
           IN  new \in GateRows /\ new.entries = row.entries /\ new.exits = row.entries
BY DEF GateRows

LEMMA CheckInKeeps ==
    ASSUME DoorInv, NEW d \in Devices, CheckInTicket(d) PROVE DoorInv'
<1>1. UNCHANGED <<transfer, request, minted, known, pass, tab, call, member>>
    BY DEF CheckInTicket
<1>2. scan' \in [Devices -> ScanRows]
    BY NoScanRow, DoorTypes DEF DoorInv, CheckInTicket
<1>3. gate \in GateRows
    BY DoorTypes DEF DoorInv
<1>4. CASE Admissible(d)
    <2>1. /\ gate.entries < MaxEntries /\ ticket' = [ticket EXCEPT !.inside = TRUE]
          /\ gate' = [gate EXCEPT !.entries = @ + 1, !.pass = scan[d].pass]
        BY <1>4 DEF CheckInTicket
    <2>2. Active(scan[d].pass) /\ scan[d].pass \in 0 .. MaxPasses /\ ~ticket.inside
        BY <1>4, DoorBounds DEF Admissible, Active, Passes
    <2>3. gate' \in GateRows /\ gate'.pass = scan[d].pass /\ gate'.exits = gate.exits
          /\ gate'.entries = gate.entries + 1
        BY <1>3, <2>1, <2>2, EntryRow
    <2>4. gate'.entries = gate'.exits + 1
        BY <2>2, <2>3 DEF DoorInv, InsideCanLeave, GateRows
    <2> QED
        BY <1>1, <1>2, <2>1, <2>2, <2>3, <2>4, GateKeeps
<1>5. CASE ~Admissible(d)
    BY <1>1, <1>2, <1>5, WaitKeeps, DoorTypes DEF CheckInTicket, DoorInv
<1> QED
    BY <1>4, <1>5

LEMMA ReverseKeeps ==
    ASSUME DoorInv, NEW d \in Devices, ReverseTicketCheckIn(d) PROVE DoorInv'
<1>1. UNCHANGED <<transfer, request, minted, known, pass, tab, call, member>>
    BY DEF ReverseTicketCheckIn
<1>2. scan' \in [Devices -> ScanRows]
    BY NoScanRow, DoorTypes DEF DoorInv, ReverseTicketCheckIn
<1>3. gate \in GateRows
    BY DoorTypes DEF DoorInv
<1>4. CASE Reversible(d)
    <2>1. /\ ticket' = [ticket EXCEPT !.inside = FALSE]
          /\ gate' = [gate EXCEPT !.exits = gate.entries, !.pass = NoPass]
        BY <1>4 DEF ReverseTicketCheckIn
    <2>2. gate' \in GateRows /\ gate'.entries = gate.entries /\ gate'.exits = gate.entries
        <3>1. NoPass \in 0 .. MaxPasses
            BY DoorBounds DEF NoPass
        <3> QED
            BY <1>3, <2>1, <3>1, ExitRow
    <2>3. gate'.entries = gate'.exits + 0
        BY <1>3, <2>2 DEF GateRows
    <2> QED
        BY <1>1, <1>2, <2>1, <2>2, <2>3, GateKeeps
<1>5. CASE ~Reversible(d)
    BY <1>1, <1>2, <1>5, WaitKeeps, DoorTypes DEF ReverseTicketCheckIn, DoorInv
<1> QED
    BY <1>4, <1>5

-----------------------------------------------------------------------------
(* The theorems.                                                             *)

LEMMA DoorInitInv == DoorInit => DoorInv
<1> SUFFICES ASSUME DoorInit PROVE DoorInv
    OBVIOUS
<1>1. TransferInv
    BY InitInv DEF DoorInit
<1>2. Seller \in Users
    BY Bounds
<1>3. /\ pass \in [Passes -> PassRows] /\ call \in [Calls -> CallRows]
      /\ scan \in [Devices -> ScanRows] /\ gate \in GateRows
      /\ member \in [Staff -> [role : Roles, elsewhere : BOOLEAN]]
    BY SilentRow, NoScanRow, DoorBounds DEF DoorInit, PassRows, GateRows, Roles, NoPass
<1>4. /\ tab \in [Tabs -> TabRows]
      /\ \A t \in Tabs : tab[t].call = None /\ tab[t].shown = NoPass
    BY <1>2, FreshTab DEF DoorInit
<1>5. TypeOK
    BY <1>1, <1>3, <1>4, DoorTypes DEF TransferInv
<1>6. PageInv
    BY <1>4, SilentRow DEF DoorInit, PageInv, Listening, Answers, Screens
<1>7. PassIsOwners
    BY DEF DoorInit, PassIsOwners, Active
<1>8. InsideCanLeave
    BY DEF DoorInit, Init, InsideCanLeave
<1> QED
    BY <1>1, <1>5, <1>6, <1>7, <1>8 DEF DoorInv

LEMMA OwnerStepKeeps == ASSUME DoorInv, OwnerStep PROVE DoorInv'
<1>1. ASSUME NEW t \in Tabs, NEW user \in Users, Invalidate(t, user) PROVE DoorInv'
    BY <1>1, ForgetKeeps DEF Invalidate
<1>2. ASSUME NEW t \in Tabs, GivesUp(t) PROVE DoorInv'
    <2>1. tab[t].user \in Users
        BY DoorTypes DEF DoorInv, TabRows
    <2>2. tab' = [tab EXCEPT ![t] = Tab(tab[t].user)]
        BY <1>2, DoorTypes DEF GivesUp, DoorInv
    <2> QED
        BY <1>2, <2>1, <2>2, ForgetKeeps DEF GivesUp
<1>3. ASSUME NEW t \in Tabs, NEW c \in Calls, AskToInspect(c, t) \/ AskToIssue(c, t)
      PROVE  DoorInv'
    BY <1>3, SendKeeps DEF AskToInspect, AskToIssue
<1> QED
    BY <1>1, <1>2, <1>3, InspectKeeps, IssueKeeps, AnsweredKeeps DEF OwnerStep

LEMMA DoorStepKeeps == ASSUME DoorInv, DoorStep PROVE DoorInv'
<1>1. ASSUME NEW d \in Devices, NEW s \in Staff, NEW p \in Passes,
             ScanPass(d, s, p) \/ ScanToLeave(d, s, p)
      PROVE  DoorInv'
    BY <1>1, PresentKeeps DEF ScanPass, ScanToLeave
<1> QED
    BY <1>1, ChangeMembershipKeeps, CheckInKeeps, ReverseKeeps DEF DoorStep

\* The inductive invariant of the door: types, what transfers rely on, the
\* owner's pass, who is inside, and what calls and screens hold.
THEOREM DoorInvariant == DoorSpec => []DoorInv
<1>1. DoorInv /\ [DoorNext]_vars => DoorInv'
    <2> SUFFICES ASSUME DoorInv, [DoorNext]_vars PROVE DoorInv'
        OBVIOUS
    <2>1. CASE DoorNext
        BY <2>1, OwnerStepKeeps, DoorStepKeeps, TicketChangesKeeps, TransferGoesOnKeeps DEF DoorNext
    <2>2. CASE UNCHANGED vars
        BY <2>2, WaitKeeps, DoorTypes DEF vars, base, doorVars, DoorInv
    <2> QED
        BY <2>1, <2>2
<1> QED
    BY DoorInitInv, <1>1, PTL DEF DoorSpec

\* Rows, tabs, calls and scans keep their types.
THEOREM DoorTypeCorrect == DoorSpec => []TypeOK
BY DoorInvariant, PTL DEF DoorInv

\* Whatever meets whatever, at most one code opens the door, its owner's.
THEOREM PassAlwaysOwners == DoorSpec => []PassIsOwners
BY DoorInvariant, PTL DEF DoorInv

\* Whoever is inside can be let out with the pass they came in with.
THEOREM InsideCanAlwaysLeave == DoorSpec => []InsideCanLeave
BY DoorInvariant, PTL DEF DoorInv

\* No screen shows a code minted for another account.
THEOREM AlwaysShownToItsOwner == DoorSpec => []ShownToItsOwner
<1>1. DoorInv => ShownToItsOwner
    BY DEF DoorInv, PageInv, Screens, Minted, ShownToItsOwner
<1> QED
    BY DoorInvariant, <1>1, PTL

\* An entry is made with a pass that is active, by staff who may admit, at the
\* moment it is made.
THEOREM EntriesAreAuthorized == DoorSpec => AuthorizedEntry
<1> DEFINE Authorized ==
        gate'.entries > gate.entries =>
          /\ Active(gate'.pass)
          /\ \E d \in Devices : /\ scan[d].at = "entry" /\ scan'[d] = NoScan
                                /\ scan[d].pass = gate'.pass
                                /\ MayAdmit(scan[d].staff)
<1>1. DoorInv /\ [DoorNext]_vars => [Authorized]_vars
    <2> SUFFICES ASSUME DoorInv, DoorNext, gate'.entries > gate.entries PROVE Authorized
        OBVIOUS
    <2>1. gate \in GateRows /\ scan \in [Devices -> ScanRows]
        BY DoorTypes DEF DoorInv
    <2>2. gate' # gate
        BY <2>1 DEF GateRows
    <2>3. PICK d \in Devices : CheckInTicket(d) \/ ReverseTicketCheckIn(d)
        BY <2>2 DEF DoorNext, TransferGoesOn, doorVars, TicketChanges, OwnerStep, DoorStep,
                    Invalidate, GivesUp, AskToInspect, AskToIssue, Send, InspectOwnerPass,
                    ReplaceOwnerTicketPass, Answered, ChangeMembership, ScanPass, ScanToLeave,
                    Present
    <2>4. ~ReverseTicketCheckIn(d)
        <3>1. ASSUME ReverseTicketCheckIn(d) PROVE gate'.entries = gate.entries
            BY <2>1, <3>1 DEF ReverseTicketCheckIn, GateRows
        <3>2. gate.entries \in Nat
            BY <2>1, DoorBounds DEF GateRows
        <3> QED
            BY <3>1, <3>2
    <2>5. CheckInTicket(d) /\ Admissible(d)
        BY <2>2, <2>3, <2>4 DEF CheckInTicket
    <2>6. gate'.pass = scan[d].pass /\ scan'[d] = NoScan
        BY <2>1, <2>5 DEF CheckInTicket, GateRows
    <2> QED
        BY <2>5, <2>6 DEF CheckInTicket, Admissible
<1> QED
    BY DoorInvariant, <1>1, PTL DEF DoorSpec, AuthorizedEntry
=============================================================================
