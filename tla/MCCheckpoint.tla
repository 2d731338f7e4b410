----------------------------- MODULE MCCheckpoint -----------------------------
(* Model values and symmetry for checking Checkpoint on small instances. *)
EXTENDS Checkpoint, TLC

CONSTANTS k1, k2, c1

TwoKeys == {k1, k2}
OneClient == {c1}
=============================================================================
