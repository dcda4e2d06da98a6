---------------------------- MODULE SnapshotFiles -----------------------------
(***************************************************************************)
(* The snapshot files and what KvStore makes of one: store.rs as functions *)
(* of a file's contents. SnapshotBuilder writes the files step by step,    *)
(* KvStore reads them step by step; both use these definitions.            *)
(*                                                                         *)
(* A file is its length, its header page, its index section and, by byte   *)
(* offset, the records written to it. A byte that was never written is 0.  *)
(* What the bytes of the header, of the index or of the middle of a record *)
(* would be as a record is not modelled: Misread stands for it.            *)
(***************************************************************************)
EXTENDS Mphf

CONSTANTS
  Paths,          \* the file names
  Misread(_, _)   \* what a file's bytes at an offset are as a record, where some
                  \* other thing was written; any key and any value, or neither

VARIABLE files   \* path -> its file

\* A file of size bytes, all of them zero.
ZeroFile(size) ==
  [size |-> size, page |-> ZeroPage, index |-> BlankIndex, data |-> <<>>]

\* What a path holds that does not exist: no file has a negative length.
NoFile == ZeroFile(-1)

\* Nothing was written to any of the bytes a record at the offset would take: the
\* fields of the header, the index and the records all lie apart from them.
Untouched(file, offset) ==
  LET apart(start, len) == offset + RECORD_SIZE <= start \/ start + len <= offset
  IN  /\ file.page = ZeroPage \/ apart(0, FIELDS_SIZE)
      /\ apart(HEADER_SIZE, file.index.len)
      /\ \A o \in DOMAIN file.data : apart(o, RECORD_SIZE)

\* Record::from_bytes of the bytes at an offset, whatever they are.
read_record(file, offset) ==
  IF offset \in DOMAIN file.data THEN file.data[offset]
  ELSE IF Untouched(file, offset) THEN ZeroRecord
  ELSE Misread(file, offset)

\* Seeded fault: a digest of the right length is taken for the right one.
verify_length_only(h, file) == h.checksum.len = file.size - h.data_offset

\* Header::verify_checksum over mmap[data_offset..].
verify_checksum(h, file) ==
  h.checksum = compute_checksum(file.size - h.data_offset, file.data)

-------------------------------------------------------------------------------
(* KvStore::open and KvStore::get on a file that does not change meanwhile. *)

\* Seeded fault: the file's length is not compared with what the header says.
open_index_unsized(len, h, index) ==
  IF (HEADER_SIZE + h.mphf_size) % U64 > len THEN "panic"
  ELSE IF deserialize_error(h.mphf_size, index) # "Ok" THEN deserialize_error(h.mphf_size, index)
  ELSE IF index.key_count # h.record_count THEN "InvalidMphf"
  ELSE "Ok"

\* The part of open after the header: the slice mmap[mphf_start..mphf_end] is
\* taken before any length check, then the index is parsed and counts and
\* sizes are compared.
open_index(len, h, index) ==
  LET mphf_end == (HEADER_SIZE + h.mphf_size) % U64
      expected_size == (h.data_offset + h.record_count * RECORD_SIZE) % U64
  IN  IF mphf_end > len \/ mphf_end < HEADER_SIZE THEN "panic"
      ELSE IF deserialize_error(h.mphf_size, index) # "Ok"
        THEN deserialize_error(h.mphf_size, index)
      ELSE IF index.key_count # h.record_count THEN "InvalidMphf"
      ELSE IF len < expected_size THEN "FileTooSmall"
      ELSE "Ok"

\* KvStore::open: "Ok", the error it returns, or "panic".
open(file) ==
  LET header_error == from_bytes(file.size, file.page)
  IN  IF file = NoFile THEN "Io"
      ELSE IF header_error # "Ok" THEN header_error
      ELSE open_index(file.size, parse(file.page), file.index)

\* KvStore::get on a store opened over the file.
get(file, key) ==
  LET h == parse(file.page)
      slot == mphf_get(deserialize(file.index), key)
      record == read_record(file, record_offset(h.data_offset, slot))
  IN  IF slot = None \/ slot >= h.record_count THEN None
      ELSE IF key_equals(record, key) THEN record.value
      ELSE None

===============================================================================
