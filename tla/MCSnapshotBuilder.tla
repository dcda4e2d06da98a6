-------------------------- MODULE MCSnapshotBuilder ---------------------------
(* SnapshotBuilder, the copies of its files and the reports on them, on small instances. *)
EXTENDS SnapshotBuilderInv, SnapshotCopy, SnapshotReports, MCSnapshotFiles, TLC

\* Keys and values other than the all-zero ones are interchangeable.
Symmetry ==
  Permutations(Keys \ {ZeroKey}) \cup Permutations(Values \ {ZeroValue})

===============================================================================
