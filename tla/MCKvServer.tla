------------------------------ MODULE MCKvServer ------------------------------
(* KvServer on small instances. *)
EXTENDS KvServerInv, TLC

CONSTANTS k1, k2, v1, v2

\* Snapshots that differ in what they hold for k1 and in whether they hold k2.
MCMaps == { k1 :> v1, (k1 :> v2) @@ (k2 :> v1) }

\* One snapshot, of one key.
MCMapsOfOne == { k1 :> v1 }

Symmetry == Permutations(Clients)

===============================================================================
