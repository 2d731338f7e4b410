------------------------------- MODULE MCCwSlru -------------------------------
(* Keys with chunk indices, for checking CwSlru on small instances. *)
EXTENDS CwSlru, TLC

CONSTANTS k1, k2, k3, k4

FourKeys == {k1, k2, k3, k4}

(* Two prefix chunks and two suffix chunks *)
Chunks == (k1 :> 0) @@ (k2 :> 0) @@ (k3 :> 1) @@ (k4 :> 2)
=============================================================================
