------------------------------ MODULE MCPricing -----------------------------
(* A small instance of Pricing for TLC: prices, discounts and limits in the  *)
(* proportions of the code (the least total is not below the most tickets).  *)
EXTENDS Pricing

MCPrices      == {4, 5, 9}
MCFixedValues == {3, 14}
MCPoints      == {1, 3, 5, 8}
=============================================================================
