--------------------------- MODULE SnapshotBuilder ----------------------------
(***************************************************************************)
(* snapshot-builder's SnapshotBuilder: records are collected in memory and *)
(* build writes them to a memory-mapped file in this order: truncate, set  *)
(* the length, index, records, header, flush. The process may be killed,   *)
(* or a system call fail, between any two of these steps; what it had      *)
(* written by then stays in the file.                                      *)
(*                                                                         *)
(* The 4 KB copy of the header is not atomic: a kill, or another process   *)
(* reading the file, can find any subset of its words written.             *)
(***************************************************************************)
EXTENDS SnapshotFiles

CONSTANTS
  MphfLens,     \* the lengths in bytes a serialized index may have
  Timestamps,   \* the values of the build clock
  MaxRecords,   \* bound: records added to one builder
  MaxBuilds     \* bound: builds started

\* The key count alone takes eight bytes; and the vectors a builder holds in
\* memory are too small for the layout arithmetic to overflow.
ASSUME BuilderAssumption ==
  /\ MphfLens \subseteq Nat
  /\ \A len \in MphfLens : len >= 8
  /\ Timestamps \subseteq Nat
  /\ MaxRecords \in Nat
  /\ MaxBuilds \in Nat
  /\ \A len \in MphfLens : len + MaxRecords * RECORD_SIZE + 8192 < U64

VARIABLES
  pc,       \* the step of build the process is at, or how the last one ended
  path,     \* output_path
  keys,     \* the builder's key vector ...
  values,   \* ... and its value vector
  mphf,     \* the index
  header,   \* the header
  next,     \* the record being written
  builds,   \* builds started so far
  source,   \* history: path -> what the last build to write it was given
  built,    \* history: path -> the last build to write it returned Ok
  synced    \* history: path -> the file is on disk as it is in the page cache

input == <<path, keys, values, builds>>
history == <<source, built, synced>>
vars == <<files, pc, input, mphf, header, next, history>>

Ended == {"done", "failed", "killed"}
Idle == {"idle"} \cup Ended
Steps == {"adding", "create", "set_len", "map", "records", "value", "header", "flush"}

NoMphf == [function |-> [k \in Keys |-> None], key_count |-> 0]
NoHeader == new_header(0, 0, 0)
NoSource == [keys |-> <<>>, values |-> <<>>, mphf |-> NoMphf, header |-> NoHeader]

Init ==
  /\ files = [p \in Paths |-> NoFile]
  /\ pc = "idle"
  /\ path \in Paths
  /\ keys = <<>>
  /\ values = <<>>
  /\ mphf = NoMphf
  /\ header = NoHeader
  /\ next = 1
  /\ builds = 0
  /\ source = [p \in Paths |-> NoSource]
  /\ built = [p \in Paths |-> FALSE]
  /\ synced = [p \in Paths |-> FALSE]

-------------------------------------------------------------------------------
(* Collecting records *)

\* SnapshotBuilder::new in a process that is to write p.
Start(p) ==
  /\ pc \in Idle
  /\ builds < MaxBuilds
  /\ pc' = "adding"
  /\ path' = p
  /\ keys' = <<>>
  /\ values' = <<>>
  /\ mphf' = NoMphf
  /\ header' = NoHeader
  /\ next' = 1
  /\ builds' = builds + 1
  /\ UNCHANGED <<files, history>>

add_record(key, value) ==
  /\ pc = "adding"
  /\ Len(keys) < MaxRecords
  /\ keys' = Append(keys, key)
  /\ values' = Append(values, value)
  /\ UNCHANGED <<files, pc, path, mphf, header, next, builds, history>>

-------------------------------------------------------------------------------
(* build *)

\* The build stops with the given outcome; its file stays as it is.
Halt(outcome) ==
  /\ pc' = outcome
  /\ UNCHANGED <<files, input, mphf, header, next, history>>

\* Mphf::build refuses an empty key set.
BuildEmpty == pc = "adding" /\ keys = <<>> /\ Halt("failed")

\* Mphf::build on keys that have no perfect hash function: no index, no file.
BuildAbort ==
  pc = "adding" /\ keys # <<>> /\ build_mphf(keys) = {} /\ Halt("killed")

BuildIndex(m, mphf_size, timestamp) ==
  /\ pc = "adding"
  /\ keys # <<>>
  /\ m \in build_mphf(keys)
  /\ mphf' = m
  /\ header' = new_header(Len(keys), mphf_size, timestamp)
  /\ pc' = "create"
  /\ UNCHANGED <<files, input, next, history>>

\* Seeded fault: a file that exists is not truncated.
CreateFile_append ==
  /\ pc = "create"
  /\ files' = [files EXCEPT ![path] = IF @ = NoFile THEN ZeroFile(0) ELSE @]
  /\ source' = [source EXCEPT ![path] =
       [keys |-> keys, values |-> values, mphf |-> mphf, header |-> header]]
  /\ built' = [built EXCEPT ![path] = FALSE]
  /\ synced' = [synced EXCEPT ![path] = FALSE]
  /\ pc' = "set_len"
  /\ UNCHANGED <<input, mphf, header, next>>

\* OpenOptions: create or truncate.
CreateFile ==
  /\ pc = "create"
  /\ files' = [files EXCEPT ![path] = ZeroFile(0)]
  /\ source' = [source EXCEPT ![path] =
       [keys |-> keys, values |-> values, mphf |-> mphf, header |-> header]]
  /\ built' = [built EXCEPT ![path] = FALSE]
  /\ synced' = [synced EXCEPT ![path] = FALSE]
  /\ pc' = "set_len"
  /\ UNCHANGED <<input, mphf, header, next>>

\* Seeded fault: the pages of the index are not counted.
total_size_no_index(h) == HEADER_SIZE + h.record_count * RECORD_SIZE

total_size(h) == (h.data_offset + h.record_count * RECORD_SIZE) % U64

SetLen ==
  /\ pc = "set_len"
  /\ files' = [files EXCEPT ![path].size = total_size(header)]
  /\ pc' = "map"
  /\ UNCHANGED <<input, mphf, header, next, history>>

\* The mapping is long enough for the index and the padding after it.
IndexFits ==
  /\ HEADER_SIZE + header.mphf_size <= files[path].size
  /\ header.data_offset <= files[path].size

\* The index and, up to the data section, zeros; a slice out of bounds panics.
WriteMphf ==
  /\ pc = "map"
  /\ IF IndexFits
       THEN /\ files' = [files EXCEPT ![path].index = serialize(mphf, header.mphf_size)]
            /\ pc' = "records"
            /\ UNCHANGED <<input, mphf, header, next, history>>
       ELSE Halt("killed")

\* The file after a record's bytes were stored at offset. Bytes stored below
\* the data section go over the index.
put(file, offset, record) ==
  [ size  |-> file.size,
    page  |-> file.page,
    index |-> IF offset < HEADER_SIZE + header.mphf_size
                THEN [BlankIndex EXCEPT !.len = file.index.len] ELSE file.index,
    data  |-> [o \in DOMAIN file.data \cup {offset} |->
                 IF o = offset THEN record ELSE file.data[o]] ]

\* The i-th key has a slot, and the mapping is long enough for its record.
RecordFits(i) ==
  LET slot == mphf_get(mphf, keys[i])
  IN  slot # None /\ record_offset(header.data_offset, slot) + RECORD_SIZE <= files[path].size

\* mphf.get(key).expect(...) and the store of the key: the process dies of a key
\* without a slot and of a slice out of bounds.
WriteKey ==
  /\ pc = "records"
  /\ next <= Len(keys)
  /\ LET offset == record_offset(header.data_offset, mphf_get(mphf, keys[next]))
         record == [key |-> keys[next], value |-> read_record(files[path], offset).value]
     IN  IF RecordFits(next)
           THEN /\ files' = [files EXCEPT ![path] = put(files[path], offset, record)]
                /\ pc' = "value"
                /\ UNCHANGED <<input, mphf, header, next, history>>
           ELSE Halt("killed")

WriteValue ==
  /\ pc = "value"
  /\ LET offset == record_offset(header.data_offset, mphf_get(mphf, keys[next]))
         record == [key |-> keys[next], value |-> values[next]]
     IN  files' = [files EXCEPT ![path] = put(files[path], offset, record)]
  /\ next' = next + 1
  /\ pc' = "records"
  /\ UNCHANGED <<input, mphf, header, history>>

\* Seeded fault: the loop over the records stops one short.
ChecksumEarly ==
  /\ pc = "records"
  /\ next >= Len(keys)
  /\ header' = [header EXCEPT !.checksum =
       compute_checksum(files[path].size - header.data_offset, files[path].data)]
  /\ pc' = "header"
  /\ UNCHANGED <<files, input, mphf, next, history>>

\* The digest of mmap[data_offset..], into the header in memory.
Checksum ==
  /\ pc = "records"
  /\ next > Len(keys)
  /\ header' = [header EXCEPT !.checksum =
       compute_checksum(files[path].size - header.data_offset, files[path].data)]
  /\ pc' = "header"
  /\ UNCHANGED <<files, input, mphf, next, history>>

\* One word of copy_from_slice(&final_header.to_bytes()), in any order.
WriteHeaderWord(o) ==
  /\ pc = "header"
  /\ files[path].page[o] # to_bytes(header)[o]
  /\ files' = [files EXCEPT ![path].page[o] = to_bytes(header)[o]]
  /\ UNCHANGED <<pc, input, mphf, header, next, history>>

HeaderWritten ==
  /\ pc = "header"
  /\ files[path].page = to_bytes(header)
  /\ pc' = "flush"
  /\ UNCHANGED <<files, input, mphf, header, next, history>>

\* Seeded fault: flush_async() in the place of flush().
FlushAsync ==
  /\ pc = "flush"
  /\ pc' = "done"
  /\ built' = [built EXCEPT ![path] = TRUE]
  /\ UNCHANGED <<files, input, mphf, header, next, source, synced>>

\* mmap.flush(), after which build returns Ok.
Flush ==
  /\ pc = "flush"
  /\ pc' = "done"
  /\ built' = [built EXCEPT ![path] = TRUE]
  /\ synced' = [synced EXCEPT ![path] = TRUE]
  /\ UNCHANGED <<files, input, mphf, header, next, source>>

\* A failing open, set_len, map_mut or flush is returned with ?.
IoError == pc \in {"create", "set_len", "map", "flush"} /\ Halt("failed")

\* The process is killed, or dies of a page it cannot allocate.
Kill == pc \in Steps /\ Halt("killed")

-------------------------------------------------------------------------------

\* The steps build takes of its own accord.
Work ==
  \/ BuildEmpty
  \/ \E m \in build_mphf(keys), mphf_size \in MphfLens, t \in Timestamps :
       BuildIndex(m, mphf_size, t)
  \/ CreateFile
  \/ SetLen
  \/ WriteMphf
  \/ WriteKey
  \/ WriteValue
  \/ Checksum
  \/ \E o \in FieldOffsets : WriteHeaderWord(o)
  \/ HeaderWritten
  \/ Flush

Next ==
  \/ \E p \in Paths : Start(p)
  \/ \E key \in Keys, value \in Values : add_record(key, value)
  \/ Work
  \/ BuildAbort
  \/ IoError
  \/ Kill

Spec == Init /\ [][Next]_vars

-------------------------------------------------------------------------------
(* Properties *)

\* The pairs the last build to write p was given.
Given(p) ==
  { <<source[p].keys[i], source[p].values[i]>> : i \in 1..Len(source[p].keys) }

\* A lookup in p's file finds a key's own value, and nothing else.
Exact(p) ==
  \A key \in Keys :
    /\ get(files[p], key) # None => <<key, get(files[p], key)>> \in Given(p)
    /\ get(files[p], key) = None => \A value \in Values : <<key, value>> \notin Given(p)

\* The state of a snapshot build and of the files it writes is well formed.
TypeOK ==
  /\ pc \in {"idle"} \cup Ended \cup Steps
  /\ path \in Paths
  /\ keys \in Seq(Keys)
  /\ values \in Seq(Values)
  /\ Len(values) = Len(keys)
  /\ Len(keys) <= MaxRecords
  /\ next \in 1..MaxRecords + 1
  /\ builds \in 0..MaxBuilds
  /\ built \in [Paths -> BOOLEAN]
  /\ synced \in [Paths -> BOOLEAN]
  /\ DOMAIN source = Paths
  /\ DOMAIN files = Paths
  /\ \A p \in Paths : files[p] # NoFile =>
       /\ files[p].size \in 0..U64-1
       /\ DOMAIN files[p].page = FieldOffsets
       /\ \A o \in DOMAIN files[p].data :
            /\ o \in HEADER_SIZE..files[p].size - RECORD_SIZE
            /\ files[p].data[o] \in Record

\* build's success means a usable snapshot: every file whose last build
\* returned Ok opens (unless it has more records than Header::validate admits,
\* which build does not check), its checksum verifies and every key added is
\* found with its value, every other key is not found.
BuiltIsExact ==
  \A p \in Paths : built[p] =>
    /\ open(files[p]) = (IF Len(source[p].keys) <= MAX_RECORDS THEN "Ok" ELSE "TooManyRecords")
    /\ verify_checksum(parse(files[p].page), files[p])
    /\ Exact(p)

\* Kill safety of the write order (records, then header): whatever a build has
\* left behind at the time it is killed, a file that KvStore::open accepts and
\* whose checksum verifies (Header::verify_checksum, which open does not call)
\* answers exactly.
CheckedIsExact ==
  \A p \in Paths :
    /\ files[p] # NoFile
    /\ open(files[p]) = "Ok"
    /\ verify_checksum(parse(files[p].page), files[p])
    => Exact(p)

\* The header is written last, so that even without the checksum, which open does
\* not verify, a file of a running or killed build that opens answers exactly, if
\* the one word that nothing in open depends on is there: where the records begin.
LocatedIsExact ==
  \A p \in Paths :
    /\ files[p] # NoFile
    /\ open(files[p]) = "Ok"
    /\ parse(files[p].page).data_offset # 0
    => Exact(p)

\* store.rs:160, of get: "The 256-byte value if found, or `None` if the key
\* doesn't exist", in any file that opens.
FoundIsGiven ==
  \A p \in Paths : files[p] # NoFile /\ open(files[p]) = "Ok" =>
    \A key \in Keys : get(files[p], key) # None => <<key, get(files[p], key)>> \in Given(p)

\* build never dies of its own arithmetic: the expect("Key should be in MPHF")
\* of its loop never fails, and the index and every record lie inside the file,
\* whose length was computed before the index was there to look at.
BuildNeverPanics ==
  /\ pc = "map" => IndexFits
  /\ pc = "records" => \A i \in next..Len(keys) : RecordFits(i)

\* The slice open takes before it checks any size is in bounds at every point
\* of a build: a server pointed at an unfinished snapshot gets an error.
OpenNeverPanics ==
  \A p \in Paths : files[p] # NoFile => open(files[p]) # "panic"

===============================================================================
