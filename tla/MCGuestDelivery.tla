--------------------------- MODULE MCGuestDelivery ---------------------------
\* Two workers, so that a slow one can be superseded; two devices and two
\* accounts, so that a purchase can be asked for twice.
EXTENDS GuestDelivery
=============================================================================
