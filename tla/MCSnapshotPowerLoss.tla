------------------------- MODULE MCSnapshotPowerLoss --------------------------
(* SnapshotPowerLoss, and the reports on the files it leaves, on a small instance. *)
EXTENDS SnapshotPowerLoss, SnapshotReports, MCSnapshotFiles, TLC

\* Keys and values other than the all-zero ones are interchangeable.
Symmetry ==
  Permutations(Keys \ {ZeroKey}) \cup Permutations(Values \ {ZeroValue})

===============================================================================
