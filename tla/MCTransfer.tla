----------------------------- MODULE MCTransfer -----------------------------
\* Three accounts, two processes, two transfers of three codes each.
EXTENDS Transfer
=============================================================================
