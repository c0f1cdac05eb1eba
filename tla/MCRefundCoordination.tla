------------------------ MODULE MCRefundCoordination ------------------------
(* Small instances of RefundCoordination for TLC.                            *)
EXTENDS RefundCoordination, TLC

Symmetry == Permutations(Tickets) \union Permutations(Requests) \union Permutations(Operators)
=============================================================================
