------------------------------ MODULE MCPlenty ------------------------------
(* The limits and requests of the run in which nothing fails. *)
EXTENDS MCHttpd

ASSUME PlentyHolds == Plenty
=============================================================================
