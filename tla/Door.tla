--------------------------------- MODULE Door ---------------------------------
(* The pass of a ticket: the owner's browser looks at it and replaces it, the*)
(* ticket's transfer or refund revokes it, the door scans it in and out.     *)
(* The owner's controller keeps at most one call it still listens to; a call *)
(* it has turned away from goes on at the server all the same.               *)
(* A scan finds the pass and the staff first and then waits for the ticket's *)
(* lock; everything after the lock is one step, since memberships and passes *)
(* are locked too until the scan commits.                                    *)
EXTENDS Transfer, FiniteSets

CONSTANTS Tabs, Calls,   \* browser tabs of the owners, requests of theirs
          Devices,       \* scanners at the door
          Staff,
          MaxPasses,     \* bound: codes minted for the ticket
          MaxEntries     \* bound: entries of the ticket

ASSUME DoorBounds ==
    MaxPasses \in Nat \ {0} /\ MaxEntries \in Nat /\ None \notin Calls

VARIABLES
    pass,     \* ticket_pass_codes: status of each code, oldest first
    tab,      \* each tab's controller: account, call it listens to, what it saw
    call,     \* requests of the tabs, at the server or on their way back
    member,   \* event_memberships of the staff: for the ticket's event, for others
    scan,     \* what each device found before it waits for the ticket
    gate      \* ticket_check_ins and their reversals, the pass of who is inside

doorVars == <<pass, tab, call, member, scan, gate>>
vars     == <<base, doorVars>>

-----------------------------------------------------------------------------
Passes  == 1 .. MaxPasses
NoPass  == 0        \* the ticket has no active pass
Unknown == MaxPasses + 1    \* the tab has not looked, or its look is used up
Roles   == {"none", "box_office", "organizer"}

Tab(user)  == [user |-> user, call |-> None, saw |-> Unknown, shown |-> NoPass]
Silent     == [at |-> "idle", tab |-> None, user |-> None, saw |-> Unknown]
NoScan     == [at |-> "idle", staff |-> None, pass |-> NoPass]

DoorInit ==
    /\ Init
    /\ pass = [p \in Passes |-> [status |-> "fresh", holder |-> None]]
    /\ tab = [t \in Tabs |-> Tab(Seller)]
    /\ call = [c \in Calls |-> Silent]
    /\ member = [s \in Staff |-> [role |-> "none", elsewhere |-> FALSE]]
    /\ scan = [d \in Devices |-> NoScan]
    /\ gate = [entries |-> 0, exits |-> 0, pass |-> NoPass]

Active(p) == p \in Passes /\ pass[p].status = "active"

ActivePass == IF \E p \in Passes : Active(p)
              THEN CHOOSE p \in Passes : Active(p) ELSE NoPass

Revoked == [p \in Passes |-> IF Active(p) THEN [pass[p] EXCEPT !.status = "revoked"]
                                          ELSE pass[p]]

-----------------------------------------------------------------------------
(* The owner's controller.                                                   *)

\* A tab signs in, another ticket is selected, the code is hidden by hand or
\* after two minutes: the tab forgets what it saw and the call it waits for.
Invalidate(t, user) ==
    /\ tab' = [tab EXCEPT ![t] = Tab(user)]
    /\ UNCHANGED <<base, pass, call, member, scan, gate>>

Send(c, t, place) ==
    /\ call[c] = Silent
    /\ tab[t].call = None
    /\ call' = [call EXCEPT ![c] = [at |-> place, tab |-> t, user |-> tab[t].user,
                                    saw |-> tab[t].saw]]
    /\ tab' = [tab EXCEPT ![t] = [Tab(tab[t].user) EXCEPT !.call = c]]
    /\ UNCHANGED <<base, pass, member, scan, gate>>

AskToInspect(c, t) == Send(c, t, "inspect")
AskToIssue(c, t)   == tab[t].saw # Unknown /\ Send(c, t, "issue")

\* The answer of a call, its content in saw.
Reply(c, place, content) ==
    call' = [call EXCEPT ![c] = [@ EXCEPT !.at = place, !.saw = content]]

\* One statement: ownership and pass metadata are of one moment.
InspectOwnerPass(c) ==
    /\ call[c].at = "inspect"
    /\ IF Transferable(call[c].user) THEN Reply(c, "ready", ActivePass)
                                     ELSE Reply(c, "refused", Unknown)
    /\ UNCHANGED <<base, pass, tab, member, scan, gate>>

\* Mutant: someone inside the event gets a new pass too.
WhereverTheTicket(c) ==
    /\ ticket.owner = call[c].user /\ ticket.status = "issued"
    /\ ActivePass = call[c].saw

Replaceable(c) == Transferable(call[c].user) /\ ActivePass = call[c].saw

\* The code is generated for this call, so its digest is a fresh one.
ReplaceOwnerTicketPass(c) ==
    /\ call[c].at = "issue"
    /\ IF Replaceable(c)
       THEN \E p \in Passes :
               /\ pass[p].status = "fresh" /\ \A q \in 1 .. p - 1 : pass[q].status # "fresh"
               /\ pass' = [Revoked EXCEPT ![p] = [status |-> "active", holder |-> call[c].user]]
               /\ Reply(c, "issued", p)
       ELSE Reply(c, "refused", Unknown) /\ UNCHANGED pass
    /\ UNCHANGED <<base, tab, member, scan, gate>>

\* Mutant: the answer is taken whatever the tab did since it asked.
HearAnyway(c) ==
    [tab EXCEPT ![call[c].tab] =
        [Tab(@.user) EXCEPT !.saw   = IF call[c].at = "ready" THEN call[c].saw ELSE Unknown,
                            !.shown = IF call[c].at = "issued" THEN call[c].saw ELSE NoPass]]

\* The tab takes an answer only from the call it listens to.
Heard(c) ==
    IF tab[call[c].tab].call # c THEN tab
    ELSE [tab EXCEPT ![call[c].tab] =
        [Tab(@.user) EXCEPT !.saw   = IF call[c].at = "ready" THEN call[c].saw ELSE Unknown,
                            !.shown = IF call[c].at = "issued" THEN call[c].saw ELSE NoPass]]

Answered(c) ==
    /\ call[c].at \in {"ready", "issued", "refused"}
    /\ tab' = Heard(c)
    /\ call' = [call EXCEPT ![c] = Silent]
    /\ UNCHANGED <<base, pass, member, scan, gate>>

\* The tab's deadline passes, or the answer is lost: what the server did, or
\* does later, is not known.
GivesUp(t) ==
    /\ tab[t].call # None
    /\ tab' = [tab EXCEPT ![t] = Tab(@.user)]
    /\ UNCHANGED <<base, pass, call, member, scan, gate>>

-----------------------------------------------------------------------------
(* The ticket changes: the trigger on tickets.                               *)

\* Mutant: only a ticket that is void loses its pass.
RevokeWhenVoid ==
    pass' = IF ticket'.status # ticket.status THEN Revoked ELSE pass

RevokeTicketPassesOnStateChange ==
    pass' = IF \/ ticket'.owner # ticket.owner
               \/ ticket'.status # ticket.status /\ ticket'.status # "issued"
            THEN Revoked ELSE pass

TicketChanges ==
    /\ ReverseRefundedTickets \/ \E r \in Requests : AcceptTicketTransfer(r)
    /\ RevokeTicketPassesOnStateChange
    /\ UNCHANGED <<tab, call, member, scan, gate>>

TransferGoesOn == OwnerUnchanged /\ UNCHANGED doorVars

-----------------------------------------------------------------------------
(* The door.                                                                 *)

\* Memberships are granted and revoked elsewhere, at any moment but under the
\* locks of a scan.
ChangeMembership(s, role, elsewhere) ==
    /\ member[s] # [role |-> role, elsewhere |-> elsewhere]
    /\ member' = [member EXCEPT ![s] = [role |-> role, elsewhere |-> elsewhere]]
    /\ UNCHANGED <<base, pass, tab, call, scan, gate>>

\* The sole event this member of staff works for is this one.
MayAdmit(s)   == member[s].role # "none" /\ ~member[s].elsewhere
MayReverse(s) == member[s].role = "organizer"

Present(d, s, p, place) ==
    /\ scan[d] = NoScan
    /\ Active(p)
    /\ scan' = [scan EXCEPT ![d] = [at |-> place, staff |-> s, pass |-> p]]
    /\ UNCHANGED <<base, pass, tab, call, member, gate>>

ScanPass(d, s, p)    == MayAdmit(s) /\ Present(d, s, p, "entry")
ScanToLeave(d, s, p) == MayReverse(s) /\ Present(d, s, p, "exit")

\* Mutant: what was found before the wait for the ticket still counts.
AsFound(d) == ~ticket.inside /\ ticket.status = "issued"

\* All of it read again behind the ticket lock.
Admissible(d) ==
    /\ Active(scan[d].pass)
    /\ MayAdmit(scan[d].staff)
    /\ ~ticket.inside /\ ticket.status = "issued"

CheckInTicket(d) ==
    /\ scan[d].at = "entry"
    /\ IF Admissible(d)
       THEN /\ gate.entries < MaxEntries
            /\ ticket' = [ticket EXCEPT !.inside = TRUE]
            /\ gate' = [gate EXCEPT !.entries = @ + 1, !.pass = scan[d].pass]
       ELSE UNCHANGED <<ticket, gate>>
    /\ scan' = [scan EXCEPT ![d] = NoScan]
    /\ UNCHANGED <<transfer, request, minted, known, pass, tab, call, member>>

\* The last entry has no reversal yet.
Reversible(d) ==
    /\ Active(scan[d].pass) /\ MayReverse(scan[d].staff)
    /\ ticket.inside /\ gate.exits < gate.entries

ReverseTicketCheckIn(d) ==
    /\ scan[d].at = "exit"
    /\ IF Reversible(d)
       THEN /\ ticket' = [ticket EXCEPT !.inside = FALSE]
            /\ gate' = [gate EXCEPT !.exits = gate.entries, !.pass = NoPass]
       ELSE UNCHANGED <<ticket, gate>>
    /\ scan' = [scan EXCEPT ![d] = NoScan]
    /\ UNCHANGED <<transfer, request, minted, known, pass, tab, call, member>>

OwnerStep ==
    \/ \E t \in Tabs, user \in Users : Invalidate(t, user)
    \/ \E t \in Tabs : GivesUp(t)
    \/ \E t \in Tabs, c \in Calls : AskToInspect(c, t) \/ AskToIssue(c, t)
    \/ \E c \in Calls : InspectOwnerPass(c) \/ ReplaceOwnerTicketPass(c) \/ Answered(c)

DoorStep ==
    \/ \E s \in Staff, role \in Roles, elsewhere \in BOOLEAN :
          ChangeMembership(s, role, elsewhere)
    \/ \E d \in Devices, s \in Staff, p \in Passes : ScanPass(d, s, p) \/ ScanToLeave(d, s, p)
    \/ \E d \in Devices : CheckInTicket(d) \/ ReverseTicketCheckIn(d)

DoorNext == TransferGoesOn \/ TicketChanges \/ OwnerStep \/ DoorStep

DoorSpec == DoorInit /\ [][DoorNext]_vars

-----------------------------------------------------------------------------
TypeOK ==
    /\ TransferType
    /\ pass \in [Passes -> [status : {"fresh", "active", "revoked"}, holder : Users \union {None}]]
    /\ tab \in [Tabs -> [user : Users, call : Calls \union {None},
                         saw : 0 .. MaxPasses + 1, shown : 0 .. MaxPasses]]
    /\ call \in [Calls -> [at : {"idle", "inspect", "issue", "ready", "issued", "refused"},
                           tab : Tabs \union {None}, user : Users \union {None},
                           saw : 0 .. MaxPasses + 1]]
    /\ member \in [Staff -> [role : Roles, elsewhere : BOOLEAN]]
    /\ scan \in [Devices -> [at : {"idle", "entry", "exit"}, staff : Staff \union {None},
                             pass : 0 .. MaxPasses]]
    /\ gate \in [entries : 0 .. MaxEntries, exits : 0 .. MaxEntries, pass : 0 .. MaxPasses]

\* Whatever meets whatever, at most one code of the ticket opens the door,
\* and it was shown to nobody but the account that owns the ticket now; a
\* ticket that was refunded has none.
PassIsOwners ==
    \A p \in Passes : Active(p) =>
        /\ pass[p].holder = ticket.owner /\ ticket.status = "issued"
        /\ \A q \in Passes : Active(q) => q = p

\* As long as a ticket is inside, the pass it came in with stays the active
\* one, so that an organizer can let it out; its entries and exits alternate.
InsideCanLeave ==
    /\ ticket.inside => Active(gate.pass)
    /\ gate.entries = gate.exits + (IF ticket.inside THEN 1 ELSE 0)

\* The wait for the ticket does not let anyone in whose pass was revoked or
\* whose staff has lost the event or won a second one meanwhile.
AuthorizedEntry ==
    [][ gate'.entries > gate.entries =>
          /\ Active(gate'.pass)
          /\ \E d \in Devices : /\ scan[d].at = "entry" /\ scan'[d] = NoScan
                                /\ scan[d].pass = gate'.pass
                                /\ MayAdmit(scan[d].staff) ]_vars

\* A code on a screen was minted for the account that is signed in there,
\* also when the account changed while the code was on its way.
ShownToItsOwner ==
    \A t \in Tabs : tab[t].shown # NoPass => pass[tab[t].shown].holder = tab[t].user
=============================================================================
