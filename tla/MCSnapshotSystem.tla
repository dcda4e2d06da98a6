--------------------------- MODULE MCSnapshotSystem ---------------------------
(* SnapshotSystem on small instances. *)
EXTENDS SnapshotSystemInv, MCSnapshotFiles, TLC

\* Keys other than the all-zero one are interchangeable.
Symmetry == Permutations(Keys \ {ZeroKey})

===============================================================================
