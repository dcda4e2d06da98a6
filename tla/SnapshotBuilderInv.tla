-------------------------- MODULE SnapshotBuilderInv --------------------------
(***************************************************************************)
(* The inductive invariant of SnapshotBuilder, from which its properties   *)
(* follow: what each step of build has established in memory and in the    *)
(* file it writes, and what any file, whether its build ended or was       *)
(* killed, can look like: nothing in its header page yet, or everything    *)
(* but the header page in place.                                           *)
(***************************************************************************)
EXTENDS SnapshotBuilder

\* The headers build may make for n records, before the checksum.
Headers(n) == { new_header(n, len, t) : len \in MphfLens, t \in Timestamps }

\* What a build that has an index was given and has made of it.
SourceOK(s) ==
  /\ s.keys \in Seq(Keys)
  /\ s.values \in Seq(Values)
  /\ Len(s.values) = Len(s.keys)
  /\ Len(s.keys) \in 1..MaxRecords
  /\ s.mphf \in build_mphf(s.keys)
  /\ s.header \in Headers(Len(s.keys))

\* Where the i-th record goes.
Offset(s, i) == record_offset(s.header.data_offset, mphf_get(s.mphf, s.keys[i]))

GivenRecord(s, i) == [key |-> s.keys[i], value |-> s.values[i]]

\* d holds the first j records, each at its place, and nothing else.
Holds(s, d, j) ==
  /\ DOMAIN d = { Offset(s, i) : i \in 1..j }
  /\ \A i \in 1..j : d[Offset(s, i)] = GivenRecord(s, i)

\* d holds the first j records, but of the last one only the key.
HoldsKey(s, d, j) ==
  /\ DOMAIN d = { Offset(s, i) : i \in 1..j }
  /\ \A i \in 1..j-1 : d[Offset(s, i)] = GivenRecord(s, i)
  /\ d[Offset(s, j)] \in Record

\* The header with the digest of the data section.
FinalHeader(s, file) ==
  [s.header EXCEPT !.checksum =
     compute_checksum(file.size - s.header.data_offset, file.data)]

\* The file has its full length and its index.
Indexed(s, file) ==
  /\ file.size = total_size(s.header)
  /\ file.index = serialize(s.mphf, s.header.mphf_size)

\* All of the file but its header page is in place.
Complete(s, file) ==
  /\ SourceOK(s)
  /\ Indexed(s, file)
  /\ Holds(s, file.data, Len(s.keys))

\* Every word of the header page is zero or that of the final header.
PagePartial(s, file) ==
  \A o \in FieldOffsets : file.page[o] \in {ZeroPage[o], to_bytes(FinalHeader(s, file))[o]}

PageFinal(s, file) == file.page = to_bytes(FinalHeader(s, file))

FileOK(file) ==
  /\ file = [size |-> file.size, page |-> file.page, index |-> file.index, data |-> file.data]
  /\ file.size \in 0..U64-1
  /\ file.page = [o \in FieldOffsets |-> file.page[o]]
  /\ \A o \in DOMAIN file.data :
       /\ o \in HEADER_SIZE..file.size - RECORD_SIZE
       /\ file.data[o] \in Record

FilesInv ==
  \A p \in Paths :
    /\ files[p] # NoFile =>
         /\ FileOK(files[p])
         /\ \/ files[p].page = ZeroPage
            \/ Complete(source[p], files[p]) /\ PagePartial(source[p], files[p])
    /\ built[p] =>
         /\ files[p] # NoFile
         /\ Complete(source[p], files[p])
         /\ PageFinal(source[p], files[p])

MemoryInv ==
  /\ pc \in {"idle"} \cup Ended \cup Steps
  /\ path \in Paths
  /\ keys \in Seq(Keys)
  /\ values \in Seq(Values)
  /\ Len(values) = Len(keys)
  /\ Len(keys) <= MaxRecords
  /\ next \in 1..MaxRecords + 1
  /\ builds \in 0..MaxBuilds
  /\ built \in [Paths -> BOOLEAN]
  /\ synced \in [Paths -> BOOLEAN]
  /\ source = [p \in Paths |-> source[p]]
  /\ files = [p \in Paths |-> files[p]]

\* What this build's source is, from its first write to the file.
ThisSource(h) == [keys |-> keys, values |-> values, mphf |-> mphf, header |-> h]

Writing == {"set_len", "map", "records", "value", "header", "flush"}

StepInv ==
  /\ pc \in {"adding", "create"} => next = 1
  /\ pc = "create" => SourceOK(ThisSource(header))
  /\ pc \in Writing =>
       /\ files[path] # NoFile
       /\ ~built[path]
       /\ SourceOK(source[path])
       /\ source[path] = ThisSource(source[path].header)
  /\ pc \in {"set_len", "map", "records", "value"} =>
       /\ header = source[path].header
       /\ files[path].page = ZeroPage
  /\ pc \in {"set_len", "map"} => next = 1
  /\ pc = "set_len" => files[path] = ZeroFile(0)
  /\ pc = "map" => files[path] = ZeroFile(total_size(header))
  /\ pc \in {"records", "value"} => Indexed(source[path], files[path])
  /\ pc = "records" =>
       /\ next <= Len(keys) + 1
       /\ Holds(source[path], files[path].data, next - 1)
  /\ pc = "value" =>
       /\ next <= Len(keys)
       /\ HoldsKey(source[path], files[path].data, next)
  /\ pc \in {"header", "flush"} =>
       /\ Complete(source[path], files[path])
       /\ PagePartial(source[path], files[path])
       /\ header = FinalHeader(source[path], files[path])
  /\ pc = "flush" => PageFinal(source[path], files[path])

IInv == MemoryInv /\ FilesInv /\ StepInv

===============================================================================
