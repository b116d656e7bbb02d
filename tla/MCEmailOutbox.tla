--------------------------- MODULE MCEmailOutbox ---------------------------
(* EmailOutbox for TLC.                                                     *)
EXTENDS EmailOutbox
=============================================================================
