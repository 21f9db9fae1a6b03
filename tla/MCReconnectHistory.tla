------------------------- MODULE MCReconnectHistory -------------------------
(* One sign whose connection is made once, one call of Apply at a time.     *)
EXTENDS ReconnectHistory

CONSTANTS c1, page
=============================================================================
