------------------------------- MODULE MCEngine -------------------------------
(* Clients and what they call, for checking Engine on small instances. *)
EXTENDS Engine, TLC

CONSTANTS k1, k2, k3, c1, c2, c3

TwoKeys == {k1, k2}
ThreeKeys == {k1, k2, k3}
LargeKeys == {k3}
OneClient == {c1}
TwoClients == {c1, c2}
ThreeClients == {c1, c2, c3}

AllOps == [c \in Clients |-> {"put", "get", "del"}]
OnlyPuts == [c \in Clients |-> {"put"}]
PutsAndGets == [c \in Clients |-> {"put", "get"}]

KeySymmetry == Permutations(ThreeKeys)
AllSymmetry == KeySymmetry \cup Permutations(TwoClients)
PutSymmetry == Permutations(TwoKeys) \cup Permutations(ThreeClients)
=============================================================================
