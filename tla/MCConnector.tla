------------------------------ MODULE MCConnector ------------------------------
(* Threads, sizes and batches, for checking Connector on small instances. *)
EXTENDS Connector, TLC

CONSTANTS k1, k2, k3, t1, t2

SmallMediumLarge == (k1 :> 1) @@ (k2 :> 2) @@ (k3 :> 3)
PairsWithNull == {<<k1, k2>>, <<k2, None>>, <<k3, k1>>}
=============================================================================
