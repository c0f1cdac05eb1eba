---------------------------- MODULE MCLockOrder -----------------------------
\* Two carts of the same tier with the same code.
EXTENDS LockOrder
=============================================================================
