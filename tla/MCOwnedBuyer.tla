---------------------------- MODULE MCOwnedBuyer ----------------------------
EXTENDS OwnedBuyer, TLC
\* One tab and another device, which share the second key: either may draw it.
MCDraws == (1 :> {1, 2}) @@ (2 :> {2})
MCSlots == {<<1, 1>>, <<1, 2>>, <<2, 1>>}
MCSymmetry == Permutations(Accounts)
=============================================================================
