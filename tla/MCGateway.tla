----------------------------- MODULE MCGateway -----------------------------
(* One account, one caller, one goroutine.                                *)
EXTENDS Gateway

CONSTANTS u, g1
=============================================================================
