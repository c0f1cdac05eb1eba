----------------------------- MODULE SalePromise -----------------------------
(* What a box office promises, whoever runs it and whatever fails on the way:*)
(* seats are kept for a sale while the capacity of their tier covers them;   *)
(* they are let go of only if the sale was not paid, and nobody pays for a   *)
(* sale that was let go of; what was paid is delivered with all its seats;   *)
(* a seat comes back from a delivered sale only when it is taken back; and   *)
(* no capacity is set below the seats that are taken.                        *)
EXTENDS Integers, FiniteSets

CONSTANTS Sales, Tiers, Ordinals

VARIABLES
    stage,      \* what became of each sale: none, kept, closed, paid, delivered
    seats,      \* the seats that are taken: <<sale, tier, ordinal>>
    capacity    \* how many there may be, by tier

promises == <<stage, seats, capacity>>

Taken(t) == {seat \in seats : seat[2] = t}

Init == /\ stage = [s \in Sales |-> "none"]
        /\ seats = {}
        /\ capacity \in [Tiers -> Nat]

Keep(s) ==
    /\ stage[s] = "none"
    /\ stage' = [stage EXCEPT ![s] = "kept"]
    /\ \E t \in Tiers, K \in SUBSET Ordinals :
          /\ K # {}
          /\ seats' = seats \union ({s} \X {t} \X K)
          /\ Cardinality(Taken(t)') <= capacity[t]
    /\ UNCHANGED capacity

LetGo(S) ==
    /\ S # {} /\ \A s \in S : stage[s] = "kept"
    /\ stage' = [s \in Sales |-> IF s \in S THEN "closed" ELSE stage[s]]
    /\ seats' = {seat \in seats : seat[1] \notin S}
    /\ UNCHANGED capacity

Pay(s) ==
    /\ stage[s] = "kept"
    /\ stage' = [stage EXCEPT ![s] = "paid"]
    /\ UNCHANGED <<seats, capacity>>

Deliver(s) ==
    /\ stage[s] = "paid"
    /\ stage' = [stage EXCEPT ![s] = "delivered"]
    /\ UNCHANGED <<seats, capacity>>

TakeBack(s) ==
    /\ stage[s] = "delivered"
    /\ seats' \subseteq seats
    /\ \A seat \in seats \ seats' : seat[1] = s
    /\ UNCHANGED <<stage, capacity>>

Resize ==
    /\ capacity' \in [Tiers -> Nat]
    /\ \A t \in Tiers : Cardinality(Taken(t)) <= capacity'[t]
    /\ UNCHANGED <<stage, seats>>

\* Most of what happens around a sale is no step of it.
Elsewhere == UNCHANGED promises

Next ==
    \/ Elsewhere
    \/ \E s \in Sales : Keep(s) \/ Pay(s) \/ Deliver(s) \/ TakeBack(s)
    \/ \E S \in SUBSET Sales : LetGo(S)
    \/ Resize

Spec == Init /\ [][Next]_promises

==============================================================================
