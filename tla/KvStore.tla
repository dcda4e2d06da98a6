------------------------------- MODULE KvStore --------------------------------
(***************************************************************************)
(* KvStore (store.rs) as the steps of a process that opens a snapshot and  *)
(* looks keys up while its file may change: the header, the index, a       *)
(* record's key and a record's value are read from the mapping at          *)
(* different moments. The length and the index are copied when the store   *)
(* is opened, records never are.                                           *)
(*                                                                         *)
(* A mapping is of the file, not of its contents: the store sees what      *)
(* others write to it, and an access to a page that lies beyond the file's *)
(* end raises SIGBUS.                                                      *)
(***************************************************************************)
EXTENDS SnapshotFiles

CONSTANT Readers    \* the processes that hold a store

VARIABLE reader     \* reader -> its state

NoStore ==
  [pc |-> "closed", path |-> None, len |-> 0, header |-> parse(ZeroPage),
   mphf |-> deserialize(BlankIndex), key |-> None, answer |-> None]

ReaderInit == reader = [r \in Readers |-> NoStore]

\* External: the access touches a page that the file no longer has.
Faults(r, offset) ==
  LET file == files[reader[r].path]
  IN  offset - (offset % 4096) >= file.size

Die(r) == reader' = [reader EXCEPT ![r] = [NoStore EXCEPT !.pc = "dead"]]

\* File::open, metadata and Mmap::map. (A path that does not exist is an error.)
OpenFile(r, p) ==
  /\ reader[r].pc = "closed"
  /\ files[p] # NoFile
  /\ reader' = [reader EXCEPT ![r] =
       [NoStore EXCEPT !.pc = "mapped", !.path = p, !.len = files[p].size]]
  /\ UNCHANGED files

\* Header::from_bytes: open returns its error or goes on.
ParseHeader(r) ==
  LET me == reader[r]
      file == files[me.path]
  IN  /\ me.pc = "mapped"
      /\ IF me.len >= HEADER_SIZE /\ Faults(r, 0) THEN Die(r)
         ELSE IF from_bytes(me.len, file.page) # "Ok"
           THEN reader' = [reader EXCEPT ![r] = NoStore]
         ELSE reader' = [reader EXCEPT ![r].pc = "parsed", ![r].header = parse(file.page)]
      /\ UNCHANGED files

\* Seeded fault: an index that does not fit the header is used all the same.
LoadIndex_lenient(r) ==
  LET me == reader[r]
      file == files[me.path]
  IN  /\ me.pc = "parsed"
      /\ IF open_index(me.len, me.header, file.index) = "panic" \/ Faults(r, HEADER_SIZE) THEN Die(r)
         ELSE reader' = [reader EXCEPT ![r].pc = "ready", ![r].mphf = deserialize(file.index)]
      /\ UNCHANGED files

\* The rest of open: a store, an error, or the panic of the slice.
LoadIndex(r) ==
  LET me == reader[r]
      file == files[me.path]
      result == open_index(me.len, me.header, file.index)
  IN  /\ me.pc = "parsed"
      /\ IF result = "panic" \/ Faults(r, HEADER_SIZE) THEN Die(r)
         ELSE IF result # "Ok" THEN reader' = [reader EXCEPT ![r] = NoStore]
         ELSE reader' = [reader EXCEPT ![r].pc = "ready", ![r].mphf = deserialize(file.index)]
      /\ UNCHANGED files

\* Preload touches one byte of every page of the mapping.
Preload(r) ==
  /\ reader[r].pc = "ready"
  /\ IF Faults(r, reader[r].len - 1) THEN Die(r) ELSE UNCHANGED reader
  /\ UNCHANGED files

\* get, up to the slot: a key without one is not found.
Get(r, key) ==
  LET slot == mphf_get(reader[r].mphf, key)
  IN  /\ reader[r].pc = "ready"
      /\ reader' = [reader EXCEPT
           ![r].pc = IF slot = None \/ slot >= reader[r].header.record_count
                       THEN "answered" ELSE "record",
           ![r].key = key]
      /\ UNCHANGED files

\* get_record, which panics if the record is not inside the mapping, and
\* key_equals: another key's record means not found.
CompareKey(r) ==
  LET me == reader[r]
      offset == record_offset(me.header.data_offset, mphf_get(me.mphf, me.key))
  IN  /\ me.pc = "record"
      /\ IF offset + RECORD_SIZE > me.len \/ Faults(r, offset + KEY_SIZE - 1) THEN Die(r)
         ELSE reader' = [reader EXCEPT ![r].pc =
                IF key_equals(read_record(files[me.path], offset), me.key)
                  THEN "value" ELSE "answered"]
      /\ UNCHANGED files

\* The caller copies the value out of the mapping.
CopyValue(r) ==
  LET me == reader[r]
      offset == record_offset(me.header.data_offset, mphf_get(me.mphf, me.key))
  IN  /\ me.pc = "value"
      /\ IF Faults(r, offset + RECORD_SIZE - 1) THEN Die(r)
         ELSE reader' = [reader EXCEPT ![r].pc = "answered",
                ![r].answer = read_record(files[me.path], offset).value]
      /\ UNCHANGED files

\* The caller has used the answer.
Return(r) ==
  /\ reader[r].pc = "answered"
  /\ reader' = [reader EXCEPT ![r].pc = "ready", ![r].key = None, ![r].answer = None]
  /\ UNCHANGED files

\* The store is dropped and unmapped.
Close(r) ==
  /\ reader[r].pc = "ready"
  /\ reader' = [reader EXCEPT ![r] = NoStore]
  /\ UNCHANGED files

ReaderStep(r) ==
  \/ ParseHeader(r)
  \/ LoadIndex(r)
  \/ Preload(r)
  \/ \E key \in Keys : Get(r, key)
  \/ CompareKey(r)
  \/ CopyValue(r)
  \/ Return(r)
  \/ Close(r)

===============================================================================
