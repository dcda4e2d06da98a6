----------------------------- MODULE SnapshotCopy -----------------------------
(***************************************************************************)
(* Copies of a finished snapshot whose transfer was cut short, and what    *)
(* KvStore::open makes of them.                                            *)
(***************************************************************************)
EXTENDS SnapshotBuilder

CONSTANT CutLens   \* the lengths at which a transfer may stop

ASSUME CopyAssumption == CutLens \subseteq Nat

\* External: the first len bytes of a file. Bytes at its end that are not a
\* whole record are no record; a part of the header page reads as zeros, and an
\* index that is not whole is rejected, if it is looked at.
Prefix(file, len) ==
  [ size  |-> len,
    page  |-> IF len >= HEADER_SIZE THEN file.page ELSE ZeroPage,
    index |-> IF len >= HEADER_SIZE + parse(file.page).mphf_size THEN file.index ELSE BlankIndex,
    data  |-> [o \in { o \in DOMAIN file.data : o + RECORD_SIZE <= len } |-> file.data[o]] ]

\* The copies a transfer of p's snapshot may leave.
Copies(p) == { Prefix(files[p], len) : len \in { len \in CutLens : len < files[p].size } }

\* The length checks of open suffice: no copy that is cut short opens, although
\* nothing compares its length or its checksum with the original's.
CutNeverOpens ==
  \A p \in Paths : built[p] => \A copy \in Copies(p) : open(copy) # "Ok"

\* store.rs:81-87: what is wrong with a file "Returns an error". No cut makes
\* open panic.
CopyNeverPanics ==
  \A p \in Paths : built[p] => \A copy \in Copies(p) : open(copy) # "panic"

===============================================================================
