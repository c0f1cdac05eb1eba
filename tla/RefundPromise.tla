---------------------------- MODULE RefundPromise ----------------------------
(* What the refund of tickets promises, whoever coordinates it and whatever  *)
(* fails on the way: a selection of tickets is claimed for good before any   *)
(* money moves, no ticket is in two selections, money goes back at most once *)
(* for a selection, and its tickets are taken back, all at once, only after  *)
(* the money went back and while nobody is inside with one of them.          *)
EXTENDS Integers, FiniteSets

CONSTANT Tickets        \* the tickets of one paid order

VARIABLES
    claimed,    \* the selections that somebody began to refund
    paidBack,   \* those whose money went back to the buyer
    takenBack,  \* those whose tickets were voided and restocked
    inside      \* the tickets that are checked in at the door

promises == <<claimed, paidBack, takenBack, inside>>

Init == /\ claimed = {}
        /\ paidBack = {}
        /\ takenBack = {}
        /\ inside = {}

Claim(S) == /\ S \in (SUBSET Tickets) \ {{}}
            /\ S \intersect UNION claimed = {}
            /\ claimed' = claimed \union {S}
            /\ UNCHANGED <<paidBack, takenBack, inside>>

PayBack(S) == /\ S \in claimed \ paidBack
              /\ paidBack' = paidBack \union {S}
              /\ UNCHANGED <<claimed, takenBack, inside>>

TakeBack(S) == /\ S \in paidBack \ takenBack
               /\ S \intersect inside = {}
               /\ takenBack' = takenBack \union {S}
               /\ UNCHANGED <<claimed, paidBack, inside>>

Enter(t) == /\ t \in Tickets \ (inside \union UNION takenBack)
            /\ inside' = inside \union {t}
            /\ UNCHANGED <<claimed, paidBack, takenBack>>

Leave(t) == /\ t \in inside
            /\ inside' = inside \ {t}
            /\ UNCHANGED <<claimed, paidBack, takenBack>>

Next == \/ \E S \in SUBSET Tickets : Claim(S) \/ PayBack(S) \/ TakeBack(S)
        \/ \E t \in Tickets : Enter(t) \/ Leave(t)

Spec == Init /\ [][Next]_promises

==============================================================================
