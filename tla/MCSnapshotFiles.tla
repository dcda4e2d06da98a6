--------------------------- MODULE MCSnapshotFiles ----------------------------
(* What reads across the bounds of what was written may yield, for TLC. *)
EXTENDS SnapshotFiles, FiniteSetsExt

\* The worst: a key that the file holds, and a value other than zero after it.
MCMisread(file, offset) ==
  [ key   |-> IF file.data = <<>> THEN ZeroKey ELSE file.data[Min(DOMAIN file.data)].key,
    value |-> CHOOSE value \in Values : value # ZeroValue ]

\* The mildest: bytes that are no key of the data set.
MCNoRecord(file, offset) == [key |-> None, value |-> None]

===============================================================================
