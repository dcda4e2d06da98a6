--------------------------- MODULE SnapshotSystemInv --------------------------
(***************************************************************************)
(* The inductive invariant of SnapshotSystem when nothing is built in      *)
(* place: what a reader holds agrees with the file it has mapped, although *)
(* the file's header may still be written while it is open.                *)
(***************************************************************************)
EXTENDS SnapshotSystem, SnapshotBuilderInv

ReaderPCs == {"closed", "mapped", "parsed"} \cup Opened
StoreFields == {"pc", "path", "len", "header", "mphf", "key", "answer"}

\* Every word of the header that was read is zero or what the page holds now.
HeaderSeen(h, file) ==
  /\ h = parse(to_bytes(h))
  /\ h.magic = MAGIC_NUMBER
  /\ \A o \in FieldOffsets : to_bytes(h)[o] \in {ZeroPage[o], file.page[o]}

\* Where the record of the reader's key would be, and what is there.
Slot(me) == mphf_get(me.mphf, me.key)
RecordOffset(me) == record_offset(me.header.data_offset, Slot(me))
RecordAt(me, file) == read_record(file, RecordOffset(me))

\* What a process that has mapped file knows of it.
StoreInv(me, file) ==
  /\ file # NoFile
  /\ me.len \in {0, file.size}
  /\ me.pc \in {"parsed"} \cup Opened =>
       /\ me.len = file.size
       /\ HeaderSeen(me.header, file)
  /\ me.pc \in Opened =>
       /\ open_index(me.len, me.header, file.index) = "Ok"
       /\ me.mphf = deserialize(file.index)

\* Where a process is in a lookup.
LookupInv(me, file) ==
  /\ me.pc \in {"mapped", "parsed", "ready"} => me.key = None
  /\ me.pc # "answered" => me.answer = None
  /\ me.pc \in {"record", "value", "answered"} => me.key \in Keys
  /\ me.pc \in {"record", "value"} =>
       Slot(me) # None /\ ~(Slot(me) >= me.header.record_count)
  /\ me.pc = "value" /\ me.header.data_offset # 0 =>
       /\ RecordOffset(me) \in DOMAIN file.data
       /\ key_equals(RecordAt(me, file), me.key)

ReaderInv(me) ==
  /\ me.pc \in ReaderPCs
  /\ DOMAIN me = StoreFields
  /\ me.pc = "closed" => me = NoStore
  /\ me.pc # "closed" =>
       /\ me.path \in Paths
       /\ StoreInv(me, files[me.path])
       /\ LookupInv(me, files[me.path])

\* A path that a build is about to create does not exist.
NothingInPlace == pc \in {"adding", "create"} => files[path] = NoFile

SystemInv ==
  /\ IInv
  /\ NothingInPlace
  /\ reader = [r \in Readers |-> reader[r]]
  /\ \A r \in Readers : ReaderInv(reader[r])

===============================================================================
