---------------------------- MODULE MCPromoBuyer ----------------------------
\* Two carts, so that a second purchase can be tried over the first; two
\* requests, so that one may go on while the page has moved to the next.
EXTENDS PromoBuyer
=============================================================================
