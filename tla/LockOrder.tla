----------------------------- MODULE LockOrder ------------------------------
(* The row locks of the transactions on priced carts.  Carts of one tier     *)
(* with one code share two rows, the tier and the promotion; each            *)
(* transaction takes its locks one after another, waits for the ones that    *)
(* are taken, and gives all of them back at its end.                         *)
(*                                                                           *)
(* A lock is a row and a mode.  A foreign key that is checked locks the row  *)
(* it refers to FOR KEY SHARE: an attempt and an issued ticket refer to      *)
(* their tier.                                                               *)
EXTENDS Naturals, Sequences

CONSTANTS Carts, None

VARIABLES
    stage,    \* of each cart: new, quoted, begun, closed
    taken     \* transactions under way: how many of their locks they hold

vars == <<stage, taken>>

-----------------------------------------------------------------------------
Row(table, cart, mode) == [row |-> <<table, cart>>, mode |-> mode]
Tier(mode) == Row("ticket_types", None, mode)
Promotion  == Row("ticket_promotions", None, "update")

\* Every call on one cart takes its advisory lock first.
CartLock(c) == Row("advisory", c, "update")
Attempt(c)  == Row("checkout_attempts", c, "update")
Hold(c)     == Row("inventory_reservations", c, "update")

Prepare(c)  == <<CartLock(c), Tier("update"), Hold(c), Promotion>>
Begin(c)    == <<CartLock(c), Hold(c), Promotion, Tier("key share")>>
Finalize(c) == <<Attempt(c), Hold(c), Promotion, Tier("key share")>>
Release(c)  == <<CartLock(c), Attempt(c), Hold(c), Tier("update"), Promotion>>
SavePromotion == <<Tier("share"), Promotion>>

Kinds == {"prepare", "begin", "finalize", "release"}
Transactions == (Kinds \X Carts) \union {<<"save", None>>}

Locks(t) ==
    CASE t[1] = "prepare"  -> Prepare(t[2])
      [] t[1] = "begin"    -> Begin(t[2])
      [] t[1] = "finalize" -> Finalize(t[2])
      [] t[1] = "release"  -> Release(t[2])
      [] t[1] = "save"     -> SavePromotion

\* What each transaction finds and what it leaves.
Finds(t) ==
    CASE t[1] = "prepare"  -> stage[t[2]] = "new"
      [] t[1] = "begin"    -> stage[t[2]] = "quoted"
      [] t[1] = "finalize" -> stage[t[2]] = "begun"
      [] t[1] = "release"  -> stage[t[2]] \in {"quoted", "begun"}
      [] t[1] = "save"     -> TRUE

Leaves(t) ==
    CASE t[1] = "prepare" -> [stage EXCEPT ![t[2]] = "quoted"]
      [] t[1] = "begin"   -> [stage EXCEPT ![t[2]] = "begun"]
      [] t[1] = "save"    -> stage
      [] OTHER            -> [stage EXCEPT ![t[2]] = "closed"]

-----------------------------------------------------------------------------
Conflict(m, n) ==
    \/ m = "update" \/ n = "update"

Held(t)   == {Locks(t)[i] : i \in 1 .. taken[t]}
Done(t)   == taken[t] = Len(Locks(t))
Wanted(t) == Locks(t)[taken[t] + 1]

\* u holds what t has to wait for.
Blocks(u, t) ==
    /\ u # t /\ t \in DOMAIN taken /\ u \in DOMAIN taken /\ ~Done(t)
    /\ \E lock \in Held(u) : lock.row = Wanted(t).row /\ Conflict(lock.mode, Wanted(t).mode)

Init ==
    /\ stage = [c \in Carts |-> "new"]
    /\ taken = [t \in {} |-> 0]

Run(t, locks) == taken' = [u \in DOMAIN taken \union {t} |-> IF u = t THEN locks ELSE taken[u]]
End(t) == taken' = [u \in DOMAIN taken \ {t} |-> taken[u]]

Start(t) ==
    /\ t \notin DOMAIN taken /\ Finds(t)
    /\ Run(t, 0)
    /\ UNCHANGED stage

Acquire(t) ==
    /\ t \in DOMAIN taken /\ ~Done(t)
    /\ ~\E u \in DOMAIN taken : Blocks(u, t)
    /\ Run(t, taken[t] + 1)
    /\ UNCHANGED stage

\* Behind its locks a transaction looks again: it has its effect or none.
Commit(t) ==
    /\ t \in DOMAIN taken /\ (Done(t) \/ (taken[t] > 0 /\ ~Finds(t)))
    /\ stage' = IF Finds(t) THEN Leaves(t) ELSE stage
    /\ End(t)

\* The database ends a deadlock by aborting one of those that are in it.
Abort(t) ==
    /\ \E u \in DOMAIN taken : Blocks(u, t) /\ Blocks(t, u)
    /\ End(t)
    /\ UNCHANGED stage

Next == \E t \in Transactions : Start(t) \/ Acquire(t) \/ Commit(t) \/ Abort(t)

Spec == Init /\ [][Next]_vars

-----------------------------------------------------------------------------
\* "Existing attempts follow the same attempt -> hold -> tier -> promotion
\* order as issuance": a release and an issuance that follow one order never
\* block each other.  Issuance takes the promotion before the foreign keys of
\* its lines take the tier.
SameOrder ==
    \A c, d \in Carts :
        LET release == <<"release", c>> issuance == <<"finalize", d>> IN
        ~(Blocks(release, issuance) /\ Blocks(issuance, release))
=============================================================================
