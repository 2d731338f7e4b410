------------------------------ MODULE MCRecovery ------------------------------
(* Two keys and two clients, for checking Recovery on small instances. *)
EXTENDS Recovery, TLC

CONSTANTS k1, k2, c1, c2

TwoKeys == {k1, k2}
TwoClients == {c1, c2}
KeySymmetry == Permutations(TwoKeys) \cup Permutations(TwoClients)
=============================================================================
