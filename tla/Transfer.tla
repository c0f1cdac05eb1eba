------------------------------- MODULE Transfer -------------------------------
(* One ticket is given to another account: its owner names the recipient,    *)
(* the recipient asks for a one-time code and hands it back.  Each request   *)
(* reads the transfer and then writes it in a second call, so requests meet  *)
(* one another, the end of the quarter hour, the door and refunds in between.*)
(* Codes are random; the n-th code of a transfer is the number n, and 0 is   *)
(* the placeholder nobody knows.                                             *)
EXTENDS Naturals

CONSTANTS Users, Seller,
          Requests,      \* server processes
          MaxIssues,     \* codes per transfer (3 in the code)
          MaxTransfers,  \* bound: transfers opened for the ticket
          None

ASSUME Bounds == Seller \in Users /\ MaxIssues \in Nat /\ MaxTransfers \in Nat

VARIABLES
    ticket,    \* the row of tickets; void: with its ticket_refund_items row
    transfer,  \* the newest row of pending_ticket_transfers; older ones expired
    request,   \* what each process read and is about to write
    minted,    \* history: codes written for the newest transfer
    known      \* history: codes the recipients were shown, [id, token]

base == <<ticket, transfer, request, minted, known>>

-----------------------------------------------------------------------------
Statuses == {"none", "pending", "expired", "accepted"}
Idle == [at |-> "idle", user |-> None, other |-> None, id |-> 0, token |-> 0, count |-> 0]

Init ==
    /\ ticket = [owner |-> Seller, status |-> "issued", inside |-> FALSE]
    /\ transfer = [id |-> 0, status |-> "none", sender |-> None, recipient |-> None,
                   token |-> 0, count |-> 0, live |-> FALSE]
    /\ request = [r \in Requests |-> Idle]
    /\ minted = 0
    /\ known = {}

Finish(r) == request' = [request EXCEPT ![r] = Idle]

\* The database and the routes ask the same of a ticket that changes hands.
Transferable(user) ==
    ticket.owner = user /\ ticket.status = "issued" /\ ~ticket.inside

-----------------------------------------------------------------------------
(* The owner opens a transfer.                                               *)

RequestTransfer(r, user, other) ==
    /\ request[r] = Idle
    /\ Transferable(user) /\ other # user
    /\ request' = [request EXCEPT ![r] = [Idle EXCEPT !.at = "initiate",
                                          !.user = user, !.other = other]]
    /\ UNCHANGED <<ticket, transfer, minted, known>>

\* Lapsed pending transfers no longer block a new initiation.
Lapsed == transfer.status = "pending" /\ ~transfer.live

\* Mutant: any transfer that is not pending any more gives way to a new one.
InitiableAgain(user) ==
    Transferable(user) /\ (transfer.status = "pending" => Lapsed)

Initiable(user) ==
    /\ Transferable(user)
    /\ transfer.status # "accepted"
    /\ transfer.status = "pending" => Lapsed

InitiateTicketTransfer(r) ==
    /\ request[r].at = "initiate"
    /\ IF Initiable(request[r].user)
       THEN /\ transfer.id < MaxTransfers
            /\ transfer' = [id |-> transfer.id + 1, status |-> "pending",
                            sender |-> request[r].user, recipient |-> request[r].other,
                            token |-> 0, count |-> 0, live |-> TRUE]
            /\ minted' = 0
       ELSE UNCHANGED <<transfer, minted>>
    /\ Finish(r)
    /\ UNCHANGED <<ticket, known>>

-----------------------------------------------------------------------------
(* The recipient asks for a code.                                            *)

Usable(user) ==
    transfer.status = "pending" /\ transfer.recipient = user /\ transfer.live

\* loadPendingTransfer: what the process keeps of the row.
Loaded(place, user) ==
    [at |-> place, user |-> user, other |-> None, id |-> transfer.id,
     token |-> transfer.token, count |-> transfer.count]

RequestTransferAcceptOtp(r, user) ==
    /\ request[r] = Idle
    /\ Usable(user)
    /\ transfer.count < MaxIssues
    /\ request' = [request EXCEPT ![r] = Loaded("rotate", user)]
    /\ UNCHANGED <<ticket, transfer, minted, known>>

\* Mutant: the row is found by its id and its status only.
StillPending(r) ==
    transfer.id = request[r].id /\ transfer.status = "pending" /\ transfer.live

\* The compare-and-set: the row is as it was read.
Unchanged(r) ==
    /\ transfer.id = request[r].id /\ transfer.status = "pending" /\ transfer.live
    /\ transfer.token = request[r].token /\ transfer.count = request[r].count

\* The answer, and the code with it, may be lost on its way.
RotateRecipientOtp(r) ==
    /\ request[r].at = "rotate"
    /\ IF Unchanged(r)
       THEN /\ transfer' = [transfer EXCEPT !.token = minted + 1,
                                            !.count = request[r].count + 1]
            /\ minted' = minted + 1
            /\ known' \in {known, known \union {[id |-> transfer.id, token |-> minted + 1]}}
       ELSE UNCHANGED <<transfer, minted, known>>
    /\ Finish(r)
    /\ UNCHANGED ticket

-----------------------------------------------------------------------------
(* The recipient hands the code back.                                        *)

\* A code verifies against the digest of the row that was read; one that does
\* not is refused here.
AcceptRequest(r, user) ==
    /\ request[r] = Idle
    /\ Usable(user) /\ transfer.count >= 1
    /\ [id |-> transfer.id, token |-> transfer.token] \in known
    /\ request' = [request EXCEPT ![r] = Loaded("accept", user)]
    /\ UNCHANGED <<ticket, transfer, minted, known>>

Open(r) == transfer.id = request[r].id /\ transfer.status = "pending"

\* Mutant: the digest that was verified is not compared again.
WhateverToken(r) ==
    Open(r) /\ transfer.live /\ transfer.recipient = request[r].user

MayAccept(r) ==
    /\ Open(r) /\ transfer.live
    /\ transfer.recipient = request[r].user
    /\ transfer.token = request[r].token /\ transfer.count >= 1

\* Ownership switches exactly once.
AcceptTicketTransfer(r) ==
    /\ request[r].at = "accept"
    /\ IF MayAccept(r) /\ Transferable(transfer.sender)
       THEN /\ ticket' = [ticket EXCEPT !.owner = request[r].user]
            /\ transfer' = [transfer EXCEPT !.status = "accepted"]
       ELSE /\ UNCHANGED ticket
            /\ transfer' = IF Open(r) /\ Lapsed
                           THEN [transfer EXCEPT !.status = "expired"] ELSE transfer
    /\ Finish(r)
    /\ UNCHANGED <<minted, known>>

-----------------------------------------------------------------------------
(* The clock, refunds and the door.                                          *)

\* The quarter hour of the transfer is over.
TransferLapses ==
    /\ transfer.live /\ transfer.status = "pending"
    /\ transfer' = [transfer EXCEPT !.live = FALSE]
    /\ UNCHANGED <<ticket, request, minted, known>>

ReverseRefundedTickets ==
    /\ ~ticket.inside /\ ticket.status = "issued"
    /\ ticket' = [ticket EXCEPT !.status = "void"]
    /\ UNCHANGED <<transfer, request, minted, known>>

\* Who is admitted, and with what, is module Door's.
AttendanceChanges ==
    /\ ticket.status = "issued"
    /\ ticket' = [ticket EXCEPT !.inside = ~@]
    /\ UNCHANGED <<transfer, request, minted, known>>

OwnerUnchanged ==
    \/ \E r \in Requests, user, other \in Users : RequestTransfer(r, user, other)
    \/ \E r \in Requests, user \in Users :
          RequestTransferAcceptOtp(r, user) \/ AcceptRequest(r, user)
    \/ \E r \in Requests : InitiateTicketTransfer(r) \/ RotateRecipientOtp(r)
    \/ TransferLapses

Next ==
    \/ OwnerUnchanged
    \/ \E r \in Requests : AcceptTicketTransfer(r)
    \/ ReverseRefundedTickets
    \/ AttendanceChanges

Spec == Init /\ [][Next]_base

-----------------------------------------------------------------------------
TransferType ==
    /\ ticket \in [owner : Users, status : {"issued", "void"}, inside : BOOLEAN]
    /\ transfer \in [id : 0 .. MaxTransfers, status : Statuses, sender : Users \union {None},
                     recipient : Users \union {None}, token : 0 .. MaxIssues,
                     count : 0 .. MaxIssues, live : BOOLEAN]
    /\ request \in [Requests -> [at : {"idle", "initiate", "rotate", "accept"},
                                 user : Users \union {None}, other : Users \union {None},
                                 id : 0 .. MaxTransfers, token : 0 .. MaxIssues,
                                 count : 0 .. MaxIssues]]

\* Requests that race for a code do not get more of them than the cap, and
\* the digest that is stored is that of the last one.
CodesWithinCap ==
    minted <= MaxIssues /\ transfer.token = minted /\ transfer.count = minted

\* However long ago a process verified a code, the ticket moves only on the
\* newest code of a transfer that is open at that moment, and only to the
\* recipient who was shown it.
NewestCodeMoves ==
    [][ ticket'.owner # ticket.owner =>
          /\ transfer.status = "pending" /\ transfer.live
          /\ [id |-> transfer.id, token |-> transfer.token] \in known
          /\ \E r \in Requests : /\ request[r].at = "accept" /\ request'[r] = Idle
                                 /\ request[r].id = transfer.id
                                 /\ request[r].token = transfer.token
                                 /\ request[r].user = ticket'.owner ]_base

\* The ticket and its transfers tell the same story: it has moved if and only
\* if its newest transfer was accepted, it moved to the recipient, and a
\* refund of it afterwards changes neither.
OwnerIsTold ==
    ticket.owner = IF transfer.status = "accepted" THEN transfer.recipient ELSE Seller
=============================================================================
