------------------------------- MODULE MCLogger -------------------------------
(* Two clients, for checking Logger on small instances. *)
EXTENDS Logger

CONSTANTS c1, c2
=============================================================================
