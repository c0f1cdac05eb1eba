----------------------------- MODULE MCCheckout -----------------------------
(* Small instances of Checkout for TLC.  Hold and attempt ids are            *)
(* interchangeable: no definition orders or names one of them.               *)
EXTENDS Checkout, TLC

Symmetry == Permutations(Holds) \union Permutations(Attempts)

=============================================================================
