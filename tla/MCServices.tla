----------------------------- MODULE MCServices -----------------------------
(* Two toggles of the tunnel, two sockets of the hub, the process. *)
EXTENDS Services

CONSTANTS a, b
=============================================================================
