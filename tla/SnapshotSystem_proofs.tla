------------------------- MODULE SnapshotSystem_proofs -------------------------
(***************************************************************************)
(* Builders and the processes that read their files, interleaved: when     *)
(* nothing is built in place of another snapshot, a path may be opened at  *)
(* any moment of its build. For any number of readers, paths, builds and   *)
(* records.                                                                *)
(***************************************************************************)
EXTENDS SnapshotSystemInv, SnapshotSafety_proofs

-------------------------------------------------------------------------------
(* A header that was read while it was being written *)

\* Whoever has read the magic number has a complete file mapped.
LEMMA SeenComplete ==
  ASSUME IInv, NEW p \in Paths, files[p] # NoFile, NEW h, HeaderSeen(h, files[p])
  PROVE  /\ files[p].page # ZeroPage
         /\ Complete(source[p], files[p])
         /\ PagePartial(source[p], files[p])
  <1>1. to_bytes(h)[0] = MAGIC_NUMBER /\ ZeroPage[0] = 0
    <2>1. to_bytes(h)[0] = h.magic
      BY DEF to_bytes, FieldOffsets
    <2>2. ZeroPage[0] = 0
      BY DEF ZeroPage, FieldOffsets
    <2> QED
      BY <2>1, <2>2 DEF HeaderSeen
  <1>2. to_bytes(h)[0] \in {ZeroPage[0], files[p].page[0]}
    BY DEF HeaderSeen, FieldOffsets
  <1>3. files[p].page[0] # ZeroPage[0]
    BY <1>1, <1>2, FormatAssumption
  <1> QED
    BY <1>3, FileCases

\* The file as a reader has seen it: its header page may be older.
SeenFile(h, file) ==
  [size |-> file.size, page |-> to_bytes(h), index |-> file.index, data |-> file.data]

\* That file is one a build may leave as well.
LEMMA SeenFileComplete ==
  ASSUME NEW s, NEW file, Complete(s, file), PagePartial(s, file), NEW h, HeaderSeen(h, file)
  PROVE  /\ Complete(s, SeenFile(h, file))
         /\ PagePartial(s, SeenFile(h, file))
         /\ parse(SeenFile(h, file).page) = h
  <1> DEFINE seen == SeenFile(h, file)
  <1>1. /\ seen.size = file.size /\ seen.page = to_bytes(h)
        /\ seen.index = file.index /\ seen.data = file.data
    BY DEF SeenFile
  <1> HIDE DEF seen
  <1>2. Complete(s, seen)
    BY <1>1 DEF Complete, Indexed
  <1>3. FinalHeader(s, seen) = FinalHeader(s, file)
    BY <1>1 DEF FinalHeader
  <1>4. PagePartial(s, seen)
    BY <1>1, <1>3 DEF PagePartial, HeaderSeen
  <1>5. parse(seen.page) = h
    BY <1>1 DEF HeaderSeen
  <1> QED
    BY <1>2, <1>4, <1>5 DEF seen

\* open does not panic on it, ...
LEMMA SeenIndexEnd ==
  ASSUME NEW s, NEW file, Complete(s, file), PagePartial(s, file), NEW h, HeaderSeen(h, file)
  PROVE  open_index(file.size, h, file.index) # "panic"
  <1> DEFINE seen == SeenFile(h, file)
  <1>1. Complete(s, seen) /\ PagePartial(s, seen) /\ parse(seen.page) = h
    BY SeenFileComplete
  <1>2. seen.size = file.size
    BY DEF SeenFile
  <1> HIDE DEF seen
  <1>3. LET mphf_end == (HEADER_SIZE + h.mphf_size) % U64 IN
        ~(mphf_end > file.size \/ mphf_end < HEADER_SIZE)
    BY <1>1, <1>2, IndexEnd
  <1>4. deserialize_error(h.mphf_size, file.index) # "panic"
    BY DEF deserialize_error
  <1> QED
    BY <1>3, <1>4 DEF open_index

\* ... and a store that it does open has the true count and index, while its
\* data offset may still be zero.
LEMMA SeenOpened ==
  ASSUME NEW s, NEW file, Complete(s, file), PagePartial(s, file), NEW h, HeaderSeen(h, file),
         open_index(file.size, h, file.index) = "Ok"
  PROVE  /\ h.record_count = Len(s.keys)
         /\ h.data_offset \in {0, s.header.data_offset}
         /\ deserialize(file.index) = s.mphf
  <1> DEFINE seen == SeenFile(h, file)
  <1>1. Complete(s, seen) /\ PagePartial(s, seen) /\ parse(seen.page) = h
    BY SeenFileComplete
  <1>2. SourceOK(s)
    BY DEF Complete
  <1> HIDE DEF seen
  <1>3. h.data_offset \in {0, s.header.data_offset}
    BY <1>1, <1>2, ParsedWords
  <1>4. file.index.key_count = h.record_count
    BY DEF open_index
  <1>5. s.mphf.key_count = Len(s.keys)
    BY <1>2, PerfectSlots DEF SourceOK
  <1> QED
    BY <1>3, <1>4, <1>5, IndexRead DEF Complete, Indexed, serialize

\* A byte inside the file is in a page of the file.
LEMMA PageInside ==
  ASSUME NEW x \in Nat, NEW size \in Int, x < size
  PROVE  ~(x - (x % 4096) >= size)
  BY SMT

\* The record of any slot lies inside the file, wherever the data section is
\* taken to begin.
LEMMA SlotInside ==
  ASSUME NEW s, NEW file, Complete(s, file), NEW data_offset \in {0, s.header.data_offset},
         NEW slot \in 0..Len(s.keys)-1
  PROVE  /\ record_offset(data_offset, slot) \in Nat
         /\ record_offset(data_offset, slot) + RECORD_SIZE <= file.size
  <1> DEFINE n == Len(s.keys)
             off == s.header.data_offset
  <1>1. /\ n \in Nat /\ off \in Nat
        /\ off + n * RECORD_SIZE < U64
        /\ file.size = off + n * RECORD_SIZE
    BY CompleteSizes
  <1>2. data_offset \in Nat /\ data_offset <= off
    BY <1>1
  <1>3. data_offset + n * RECORD_SIZE < U64
    BY <1>1, <1>2, FormatAssumption DEF RECORD_SIZE, KEY_SIZE, VALUE_SIZE
  <1>4. record_offset(data_offset, slot)
          \in data_offset..data_offset + n * RECORD_SIZE - RECORD_SIZE
    <2> HIDE DEF n
    <2> QED
      BY <1>1, <1>2, <1>3, SlotsDisjoint DEF n
  <1> HIDE DEF n, off
  <1> QED
    BY <1>1, <1>2, <1>4 DEF RECORD_SIZE, KEY_SIZE, VALUE_SIZE

-------------------------------------------------------------------------------
(* What a build does to a file that exists *)

\* It stays, gets its length once, and from the first word of its header on
\* only further words of the header come.
Grown(old, new) ==
  /\ new # NoFile
  /\ old.size \in {0, new.size}
  /\ old.page # ZeroPage =>
       /\ new.size = old.size
       /\ new.index = old.index
       /\ new.data = old.data
  /\ \A o \in FieldOffsets : old.page[o] \in {ZeroPage[o], new.page[o]}

LEMMA GrownNot ==
  ASSUME NEW file, file # NoFile
  PROVE  Grown(file, file)
  BY DEF Grown

\* The steps of a build that write no file and forget no source.
LEMMA FilesKept ==
  ASSUME [Next]_vars
  PROVE  \/ files' = files /\ source' = source
         \/ CreateFile \/ SetLen \/ WriteMphf \/ WriteKey \/ WriteValue
         \/ \E o \in FieldOffsets : WriteHeaderWord(o)
  BY DEF Next, vars, history, Work, Start, add_record, BuildEmpty, BuildAbort, BuildIndex,
         Checksum, HeaderWritten, Flush, IoError, Kill, Halt

LEMMA BuilderGrows ==
  ASSUME IInv, NothingInPlace, [Next]_vars, NEW p \in Paths, files[p] # NoFile
  PROVE  Grown(files[p], files'[p]) /\ source'[p] = source[p]
  <1>1. /\ path \in Paths
        /\ files = [q \in Paths |-> files[q]]
        /\ source = [q \in Paths |-> source[q]]
    BY DEF IInv, MemoryInv
  <1>2. CASE files' = files /\ source' = source
    BY <1>2, GrownNot
  <1>3. CASE CreateFile
    <2>1. p # path
      BY <1>3 DEF CreateFile, NothingInPlace
    <2>2. files'[p] = files[p] /\ source'[p] = source[p]
      BY <1>1, <1>3, <2>1 DEF CreateFile
    <2> QED
      BY <2>2, GrownNot
  <1>4. ASSUME source' = source, files[path].page = ZeroPage,
               NEW file, files' = [files EXCEPT ![path] = file], file.size # -1,
               file.page = ZeroPage, files[path].size \in {0, file.size}
        PROVE  Grown(files[p], files'[p]) /\ source'[p] = source[p]
    <2>1. CASE p = path
      <3>1. file # NoFile
        BY <1>4 DEF NoFile, ZeroFile
      <3> QED
        BY <1>1, <1>4, <2>1, <3>1 DEF Grown
    <2>2. CASE p # path
      <3>1. files'[p] = files[p]
        BY <1>1, <1>4, <2>2
      <3> QED
        BY <1>4, <3>1, GrownNot
    <2> QED
      BY <2>1, <2>2
  <1>5. CASE SetLen
    <2> DEFINE file == [files[path] EXCEPT !.size = total_size(header)]
    <2>1. /\ source' = source /\ files[path] = ZeroFile(0)
          /\ SourceOK(source[path]) /\ header = source[path].header
      BY <1>5 DEF SetLen, history, IInv, StepInv, Writing
    <2>2. /\ file.size = total_size(header) /\ file.page = ZeroPage
          /\ files[path].size = 0 /\ files[path].page = ZeroPage
      BY <2>1 DEF ZeroFile
    <2>3. total_size(header) # -1
      BY <2>1, Layout DEF RECORD_SIZE, KEY_SIZE, VALUE_SIZE
    <2>4. files' = [files EXCEPT ![path] = file]
      BY <1>1, <1>5 DEF SetLen
    <2> HIDE DEF file
    <2> QED
      BY <1>4, <2>1, <2>2, <2>3, <2>4
  <1>6. CASE (WriteMphf \/ WriteKey \/ WriteValue) /\ pc \in {"map", "records", "value"}
             /\ (UNCHANGED history)
    <2>1. /\ source' = source /\ files[path].page = ZeroPage
          /\ FileOK(files[path]) /\ files[path].size # -1
      BY <1>6, WritingFacts, FormatAssumption DEF history, IInv, StepInv, Writing, FileOK
    <2>2. ASSUME NEW file, files' = [files EXCEPT ![path] = file],
                 file.size = files[path].size, file.page = files[path].page
          PROVE  Grown(files[p], files'[p]) /\ source'[p] = source[p]
      BY <1>4, <2>1, <2>2
    <2>3. ASSUME NEW offset, NEW record,
                 files' = [files EXCEPT ![path] = put(files[path], offset, record)]
          PROVE  Grown(files[p], files'[p]) /\ source'[p] = source[p]
      <3>1. /\ put(files[path], offset, record).size = files[path].size
            /\ put(files[path], offset, record).page = files[path].page
        BY DEF put
      <3> QED
        BY <2>2, <2>3, <3>1
    <2>4. CASE WriteMphf /\ IndexFits
      <3> DEFINE file == [files[path] EXCEPT !.index = serialize(mphf, header.mphf_size)]
      <3>1. file.page = files[path].page /\ file.size = files[path].size
        BY <2>1 DEF FileOK
      <3>2. files' = [files EXCEPT ![path] = file]
        BY <1>1, <2>4 DEF WriteMphf
      <3> HIDE DEF file
      <3> QED
        BY <2>2, <3>1, <3>2
    <2>5. CASE WriteKey /\ RecordFits(next)
      BY <2>3, <2>5 DEF WriteKey
    <2>6. CASE WriteValue
      BY <2>3, <2>6 DEF WriteValue
    <2>7. CASE (WriteMphf /\ ~IndexFits) \/ (WriteKey /\ ~RecordFits(next))
      BY <1>2, <2>7 DEF WriteMphf, WriteKey, Halt, history
    <2>8. WriteMphf \/ WriteKey \/ WriteValue
      BY <1>6
    <2> QED
      BY <2>4, <2>5, <2>6, <2>7, <2>8
  <1>7. ASSUME NEW o \in FieldOffsets, WriteHeaderWord(o)
        PROVE  Grown(files[p], files'[p]) /\ source'[p] = source[p]
    <2>1. /\ source' = source /\ FileOK(files[path])
          /\ files' = [files EXCEPT ![path].page[o] = to_bytes(header)[o]]
          /\ files[path].page[o] = ZeroPage[o]
      <3>1. /\ pc = "header" /\ files[path].page[o] # to_bytes(header)[o]
            /\ files' = [files EXCEPT ![path].page[o] = to_bytes(header)[o]]
            /\ source' = source
        BY <1>7 DEF WriteHeaderWord, history
      <3>2. FileOK(files[path])
        BY <3>1, WritingFacts DEF Writing
      <3>3. /\ PagePartial(source[path], files[path])
            /\ header = FinalHeader(source[path], files[path])
        BY <3>1 DEF IInv, StepInv
      <3> QED
        BY <3>1, <3>2, <3>3 DEF PagePartial
    <2> DEFINE file == [files[path] EXCEPT !.page[o] = to_bytes(header)[o]]
    <2>2. /\ file.size = files[path].size
          /\ file.index = files[path].index
          /\ file.data = files[path].data
          /\ \A w \in FieldOffsets : files[path].page[w] \in {ZeroPage[w], file.page[w]}
      BY <2>1 DEF FileOK
    <2>3. files' = [files EXCEPT ![path] = file]
      BY <1>1, <2>1
    <2>4. file # NoFile
      BY <2>1, <2>2, FormatAssumption DEF FileOK, NoFile, ZeroFile
    <2> HIDE DEF file
    <2>5. CASE p = path
      BY <1>1, <2>1, <2>2, <2>3, <2>4, <2>5 DEF Grown
    <2>6. CASE p # path
      BY <1>1, <2>1, <2>3, <2>6, GrownNot
    <2> QED
      BY <2>5, <2>6
  <1>8. WriteMphf \/ WriteKey \/ WriteValue =>
          pc \in {"map", "records", "value"} /\ (UNCHANGED history)
    BY DEF WriteMphf, WriteKey, WriteValue, Halt
  <1> QED
    BY <1>2, <1>3, <1>5, <1>6, <1>7, <1>8, FilesKept

-------------------------------------------------------------------------------
(* Steps of a build *)

\* What a reader knows of its file stays true while the file is built.
LEMMA ReaderGrown ==
  ASSUME NEW me, NEW old, NEW new, StoreInv(me, old), LookupInv(me, old), Grown(old, new)
  PROVE  StoreInv(me, new) /\ LookupInv(me, new)
  <1>1. new # NoFile /\ me.len \in {0, new.size}
    BY DEF StoreInv, Grown
  <1>2. CASE me.pc \in {"parsed"} \cup Opened
    <2>1. HeaderSeen(me.header, old) /\ me.len = old.size
      BY <1>2 DEF StoreInv
    <2>2. old.page # ZeroPage
      <3>1. /\ to_bytes(me.header)[0] = MAGIC_NUMBER
            /\ to_bytes(me.header)[0] \in {ZeroPage[0], old.page[0]}
        BY <2>1 DEF HeaderSeen, to_bytes, FieldOffsets
      <3>2. ZeroPage[0] = 0
        BY DEF ZeroPage, FieldOffsets
      <3> QED
        BY <3>1, <3>2, FormatAssumption
    <2>3. new.size = old.size /\ new.index = old.index /\ new.data = old.data
      BY <2>2 DEF Grown
    <2>4. HeaderSeen(me.header, new)
      <3>1. \A o \in FieldOffsets : to_bytes(me.header)[o] \in {ZeroPage[o], old.page[o]}
        BY <2>1 DEF HeaderSeen
      <3>2. \A o \in FieldOffsets : old.page[o] \in {ZeroPage[o], new.page[o]}
        BY DEF Grown
      <3>3. \A o \in FieldOffsets : to_bytes(me.header)[o] \in {ZeroPage[o], new.page[o]}
        BY <3>1, <3>2
      <3> QED
        BY <2>1, <3>3 DEF HeaderSeen
    <2>5. ASSUME RecordOffset(me) \in DOMAIN old.data
          PROVE  RecordAt(me, new) = RecordAt(me, old)
      BY <2>3, <2>5 DEF RecordAt, read_record
    <2> QED
      BY <1>1, <2>1, <2>3, <2>4, <2>5 DEF StoreInv, LookupInv
  <1>3. CASE ~(me.pc \in {"parsed"} \cup Opened)
    BY <1>1, <1>3 DEF StoreInv, LookupInv, Opened
  <1> QED
    BY <1>2, <1>3

LEMMA BuilderStepInv ==
  ASSUME ~InPlace, SystemInv, BuilderStep
  PROVE  SystemInv'
  <1>1. Next /\ reader' = reader
    BY DEF BuilderStep, Next
  <1>2. IInv'
    BY <1>1, NextInv DEF SystemInv
  <1>3. NothingInPlace'
    <2>1. CASE \E p \in Paths : files[p] = NoFile /\ Start(p)
      BY <2>1 DEF NothingInPlace, Start
    <2>2. CASE UNCHANGED <<files, path>> /\ (pc' \in {"adding", "create"} => pc = "adding")
      BY <2>2 DEF NothingInPlace, SystemInv
    <2>3. CASE pc' \notin {"adding", "create"}
      BY <2>3 DEF NothingInPlace
    <2> QED
      BY <2>1, <2>2, <2>3
      DEF BuilderStep, add_record, Work, BuildEmpty, BuildAbort, BuildIndex, CreateFile,
          SetLen, WriteMphf, WriteKey, WriteValue, Checksum, WriteHeaderWord,
          HeaderWritten, Flush, IoError, Kill, Halt, input
  <1>4. ASSUME NEW r \in Readers
        PROVE  ReaderInv(reader[r])'
    <2> DEFINE me == reader[r]
    <2>1. ReaderInv(me) /\ me' = me
      BY <1>1 DEF SystemInv
    <2>2. ASSUME me.pc # "closed"
          PROVE  StoreInv(me, files'[me.path]) /\ LookupInv(me, files'[me.path])
      <3>1. /\ me.path \in Paths
            /\ StoreInv(me, files[me.path])
            /\ LookupInv(me, files[me.path])
        BY <2>1, <2>2 DEF ReaderInv
      <3>2. Grown(files[me.path], files'[me.path])
        BY <1>1, <3>1, BuilderGrows DEF SystemInv, StoreInv
      <3> QED
        BY <3>1, <3>2, ReaderGrown
    <2> HIDE DEF me
    <2>3. ReaderInv(me)'
      BY <2>1, <2>2 DEF ReaderInv, StoreInv, LookupInv, RecordAt, RecordOffset
    <2> QED
      BY <2>3 DEF me
  <1> QED
    BY <1>1, <1>2, <1>3, <1>4 DEF SystemInv

-------------------------------------------------------------------------------
(* Steps of a reader *)

\* What SystemInv says of a reader that has read a header.
LEMMA ParsedFacts ==
  ASSUME SystemInv, NEW r \in Readers, reader[r].pc \in {"parsed"} \cup Opened
  PROVE  LET me == reader[r]
             file == files[me.path]
         IN  /\ me.path \in Paths
             /\ me.len = file.size
             /\ HeaderSeen(me.header, file)
             /\ Complete(source[me.path], file)
             /\ PagePartial(source[me.path], file)
  <1>1. ReaderInv(reader[r]) /\ reader[r].pc # "closed"
    BY DEF SystemInv, Opened
  <1>2. /\ reader[r].path \in Paths
        /\ StoreInv(reader[r], files[reader[r].path])
    BY <1>1 DEF ReaderInv
  <1> QED
    BY <1>2, SeenComplete DEF SystemInv, StoreInv

\* Of one that has a store: all but its data offset is that of the source.
LEMMA OpenedFacts ==
  ASSUME SystemInv, NEW r \in Readers, reader[r].pc \in Opened
  PROVE  LET me == reader[r]
             s == source[me.path]
         IN  /\ SourceOK(s)
             /\ Complete(s, files[me.path])
             /\ me.mphf = s.mphf
             /\ me.header.record_count = Len(s.keys)
             /\ me.header.data_offset \in {0, s.header.data_offset}
  <1>1. ReaderInv(reader[r]) /\ reader[r].pc # "closed"
    BY DEF SystemInv, Opened
  <1>2. StoreInv(reader[r], files[reader[r].path])
    BY <1>1 DEF ReaderInv
  <1>3. /\ open_index(reader[r].len, reader[r].header, files[reader[r].path].index) = "Ok"
        /\ reader[r].mphf = deserialize(files[reader[r].path].index)
    BY <1>2 DEF StoreInv
  <1> QED
    BY <1>3, ParsedFacts, SeenOpened DEF Complete

\* A slot the index gives is that of a key that was added.
LEMMA SlotTaken ==
  ASSUME NEW s, SourceOK(s), NEW key \in Keys, mphf_get(s.mphf, key) # None
  PROVE  /\ mphf_get(s.mphf, key) \in 0..Len(s.keys)-1
         /\ \E i \in 1..Len(s.keys) : mphf_get(s.mphf, s.keys[i]) = mphf_get(s.mphf, key)
  BY PerfectSlots DEF SourceOK

\* In the middle of a lookup: the record is inside the file.
LEMMA RecordFacts ==
  ASSUME SystemInv, NEW r \in Readers, reader[r].pc \in {"record", "value"}
  PROVE  LET me == reader[r]
             offset == record_offset(me.header.data_offset, mphf_get(me.mphf, me.key))
         IN  /\ me.key \in Keys
             /\ Slot(me) # None
             /\ offset \in Nat
             /\ offset + RECORD_SIZE <= me.len
             /\ me.len = files[me.path].size
             /\ me.len \in Nat
  <1> DEFINE me == reader[r]
             s == source[me.path]
  <1>1. ReaderInv(me) /\ me.pc # "closed" /\ me.pc \in Opened
    BY DEF SystemInv, Opened
  <1>2. me.key \in Keys /\ Slot(me) # None
    BY <1>1 DEF ReaderInv, LookupInv
  <1>3. /\ SourceOK(s) /\ Complete(s, files[me.path])
        /\ me.mphf = s.mphf /\ me.header.data_offset \in {0, s.header.data_offset}
    BY <1>1, OpenedFacts
  <1>4. mphf_get(me.mphf, me.key) \in 0..Len(s.keys)-1
    BY <1>2, <1>3, SlotTaken DEF Slot
  <1>5. me.len = files[me.path].size
    BY <1>1, ParsedFacts
  <1>6. files[me.path].size \in Nat
    BY <1>3, CompleteSizes DEF RECORD_SIZE, KEY_SIZE, VALUE_SIZE
  <1> QED
    BY <1>2, <1>3, <1>4, <1>5, <1>6, SlotInside

\* A step of one reader touches no other and no file.
LEMMA OneReader ==
  ASSUME SystemInv, NEW r \in Readers, NEW me, ReaderInv(me),
         reader' = [reader EXCEPT ![r] = me], UNCHANGED vars
  PROVE  SystemInv'
  <1>1. IInv'
    BY NextInv DEF SystemInv
  <1>2. NothingInPlace'
    BY DEF SystemInv, NothingInPlace, vars, input
  <1>3. ASSUME NEW q \in Readers
        PROVE  ReaderInv(reader[q])'
    <2>1. ReaderInv(reader'[q])
      BY DEF SystemInv
    <2>2. files' = files
      BY DEF vars
    <2> QED
      BY <2>1, <2>2 DEF ReaderInv, StoreInv, LookupInv, RecordAt, RecordOffset
  <1> QED
    BY <1>1, <1>2, <1>3 DEF SystemInv

LEMMA ClosedInv == ReaderInv(NoStore)
  BY DEF ReaderInv, NoStore, ReaderPCs, StoreFields

LEMMA OpenFileInv ==
  ASSUME SystemInv, NEW r \in Readers, NEW p \in Paths, OpenFile(r, p), UNCHANGED vars
  PROVE  SystemInv'
  <1> DEFINE me == [NoStore EXCEPT !.pc = "mapped", !.path = p, !.len = files[p].size]
  <1>1. reader' = [reader EXCEPT ![r] = me] /\ files[p] # NoFile
    BY DEF OpenFile
  <1>2. ReaderInv(me)
    <2>1. /\ DOMAIN me = StoreFields /\ me.pc = "mapped" /\ me.path = p
          /\ me.len = files[p].size /\ me.key = None /\ me.answer = None
      BY DEF NoStore, StoreFields
    <2> HIDE DEF me
    <2>2. StoreInv(me, files[p]) /\ LookupInv(me, files[p])
      BY <1>1, <2>1 DEF StoreInv, LookupInv, Opened
    <2> QED
      BY <2>1, <2>2 DEF ReaderInv, ReaderPCs
  <1> HIDE DEF me
  <1> QED
    BY <1>1, <1>2, OneReader

LEMMA ParseHeaderInv ==
  ASSUME SystemInv, NEW r \in Readers, ParseHeader(r), UNCHANGED vars
  PROVE  SystemInv'
  <1> DEFINE me == reader[r]
             file == files[me.path]
             new == [me EXCEPT !.pc = "parsed", !.header = parse(file.page)]
  <1>1. /\ me.pc = "mapped" /\ ReaderInv(me)
        /\ me.path \in Paths /\ StoreInv(me, file) /\ LookupInv(me, file)
    BY DEF SystemInv, ParseHeader, ReaderInv
  <1>2. FileOK(file) /\ me.len \in {0, file.size} /\ file.size \in Nat
    BY <1>1 DEF SystemInv, IInv, FilesInv, StoreInv, FileOK
  <1>3. CASE from_bytes(me.len, file.page) # "Ok"
    <2>1. ~(me.len >= HEADER_SIZE /\ Faults(r, 0))
      BY <1>2 DEF Faults, HEADER_SIZE
    <2>2. reader' = [reader EXCEPT ![r] = NoStore]
      BY <1>3, <2>1 DEF ParseHeader
    <2> QED
      BY <2>2, ClosedInv, OneReader
  <1>4. CASE from_bytes(me.len, file.page) = "Ok"
    <2>1. /\ ~(me.len < HEADER_SIZE)
          /\ parse(file.page).magic = MAGIC_NUMBER
      BY <1>4 DEF from_bytes, validate
    <2>2. me.len = file.size /\ ~Faults(r, 0)
      BY <1>2, <2>1 DEF Faults, HEADER_SIZE
    <2>3. reader' = [reader EXCEPT ![r] = new]
      BY <1>1, <1>4, <2>1, <2>2 DEF ParseHeader, SystemInv
    <2>4. to_bytes(parse(file.page)) = file.page
      BY <1>2 DEF FileOK, to_bytes, parse, FieldOffsets
    <2>5. HeaderSeen(parse(file.page), file)
      BY <2>1, <2>4 DEF HeaderSeen
    <2>6. ReaderInv(new)
      <3>1. /\ DOMAIN new = StoreFields /\ new.pc = "parsed" /\ new.path = me.path
            /\ new.len = me.len /\ new.header = parse(file.page)
            /\ new.key = me.key /\ new.answer = me.answer
        <4>1. DOMAIN me = StoreFields
          BY <1>1 DEF ReaderInv
        <4> HIDE DEF me, file
        <4> QED
          BY <4>1 DEF StoreFields
      <3> HIDE DEF new
      <3>2. StoreInv(new, file) /\ LookupInv(new, file)
        BY <1>1, <2>2, <2>5, <3>1 DEF StoreInv, LookupInv, Opened
      <3> QED
        BY <1>1, <3>1, <3>2 DEF ReaderInv, ReaderPCs
    <2> HIDE DEF new
    <2> QED
      BY <2>3, <2>6, OneReader
  <1> QED
    BY <1>3, <1>4

LEMMA LoadIndexInv ==
  ASSUME SystemInv, NEW r \in Readers, LoadIndex(r), UNCHANGED vars
  PROVE  SystemInv'
  <1> DEFINE me == reader[r]
             file == files[me.path]
             result == open_index(me.len, me.header, file.index)
             new == [me EXCEPT !.pc = "ready", !.mphf = deserialize(file.index)]
  <1>1. /\ me.pc = "parsed" /\ ReaderInv(me)
        /\ me.path \in Paths /\ StoreInv(me, file) /\ LookupInv(me, file)
    BY DEF SystemInv, LoadIndex, ReaderInv
  <1>2. /\ me.len = file.size /\ HeaderSeen(me.header, file)
        /\ Complete(source[me.path], file) /\ PagePartial(source[me.path], file)
    BY <1>1, ParsedFacts
  <1>3. result # "panic" /\ ~Faults(r, HEADER_SIZE)
    <2>1. file.size \in Int /\ HEADER_SIZE < file.size
      <3> DEFINE n == Len(source[me.path].keys)
                 h == source[me.path].header
      <3>1. /\ n \in Nat \ {0} /\ h.mphf_size \in Nat /\ h.mphf_size >= 8
            /\ h.data_offset \in Nat /\ h.data_offset >= HEADER_SIZE + h.mphf_size
            /\ file.size = h.data_offset + n * RECORD_SIZE
        BY <1>2, CompleteSizes
      <3> HIDE DEF n, h, file
      <3> QED
        BY <3>1 DEF HEADER_SIZE, RECORD_SIZE, KEY_SIZE, VALUE_SIZE
    <2>2. ~(HEADER_SIZE - (HEADER_SIZE % 4096) >= file.size)
      BY <2>1, PageInside DEF HEADER_SIZE
    <2> QED
      BY <1>2, <2>2, SeenIndexEnd DEF Faults
  <1>4. CASE result # "Ok"
    <2>1. reader' = [reader EXCEPT ![r] = NoStore]
      BY <1>3, <1>4 DEF LoadIndex
    <2> QED
      BY <2>1, ClosedInv, OneReader
  <1>5. CASE result = "Ok"
    <2>1. reader' = [reader EXCEPT ![r] = new]
      BY <1>3, <1>5 DEF LoadIndex, SystemInv
    <2>2. ReaderInv(new)
      <3>1. /\ DOMAIN new = StoreFields /\ new.pc = "ready" /\ new.path = me.path
            /\ new.len = me.len /\ new.header = me.header
            /\ new.mphf = deserialize(file.index)
            /\ new.key = me.key /\ new.answer = me.answer
        <4>1. DOMAIN me = StoreFields
          BY <1>1 DEF ReaderInv
        <4> HIDE DEF me, file
        <4> QED
          BY <4>1 DEF StoreFields
      <3>2. open_index(me.len, me.header, file.index) = "Ok"
        BY <1>5
      <3> HIDE DEF new
      <3>3. StoreInv(new, file) /\ LookupInv(new, file)
        BY <1>1, <1>2, <3>1, <3>2 DEF StoreInv, LookupInv, Opened
      <3> QED
        BY <1>1, <3>1, <3>3 DEF ReaderInv, ReaderPCs, Opened
    <2> HIDE DEF new
    <2> QED
      BY <2>1, <2>2, OneReader
  <1> QED
    BY <1>4, <1>5

\* From here on a reader changes its place in a lookup only.
LEMMA LookupStepInv ==
  ASSUME SystemInv, NEW r \in Readers, reader[r].pc \in Opened, NEW me,
         DOMAIN me = StoreFields, me.pc \in Opened,
         me.path = reader[r].path, me.len = reader[r].len,
         me.header = reader[r].header, me.mphf = reader[r].mphf,
         LookupInv(me, files[me.path])
  PROVE  ReaderInv(me)
  <1>1. ReaderInv(reader[r]) /\ reader[r].pc # "closed" /\ me.pc # "closed"
    BY DEF SystemInv, Opened
  <1>2. me.path \in Paths /\ StoreInv(me, files[me.path])
    BY <1>1 DEF ReaderInv, StoreInv
  <1> QED
    BY <1>1, <1>2 DEF ReaderInv, ReaderPCs

LEMMA PreloadAlive ==
  ASSUME SystemInv, NEW r \in Readers, Preload(r)
  PROVE  UNCHANGED reader
  <1> DEFINE size == files[reader[r].path].size
  <1>1. reader[r].pc \in Opened
    BY DEF Preload, Opened
  <1>2. reader[r].len = size /\ Complete(source[reader[r].path], files[reader[r].path])
    BY <1>1, ParsedFacts
  <1>3. size \in Nat \ {0}
    BY <1>2, CompleteSizes DEF HEADER_SIZE, RECORD_SIZE, KEY_SIZE, VALUE_SIZE
  <1> HIDE DEF size
  <1>4. size - 1 \in Nat /\ size - 1 < size
    BY <1>3
  <1>5. ~((size - 1) - ((size - 1) % 4096) >= size)
    BY <1>3, <1>4, PageInside
  <1> QED
    BY <1>2, <1>5 DEF Preload, Faults, size

LEMMA GetInv ==
  ASSUME SystemInv, NEW r \in Readers, NEW key \in Keys, Get(r, key), UNCHANGED vars
  PROVE  SystemInv'
  <1> DEFINE me == reader[r]
             slot == mphf_get(me.mphf, key)
             found == IF slot = None \/ slot >= me.header.record_count
                        THEN "answered" ELSE "record"
             new == [me EXCEPT !.pc = found, !.key = key]
  <1>1. me.pc = "ready" /\ ReaderInv(me) /\ me.pc \in Opened /\ LookupInv(me, files[me.path])
    BY DEF SystemInv, Get, ReaderInv, Opened
  <1>2. reader' = [reader EXCEPT ![r] = new]
    BY DEF Get, SystemInv
  <1>3. ReaderInv(new)
    <2>1. /\ DOMAIN new = StoreFields /\ new.pc = found /\ new.path = me.path
          /\ new.len = me.len /\ new.header = me.header /\ new.mphf = me.mphf
          /\ new.key = key /\ new.answer = me.answer
      <3>1. DOMAIN me = StoreFields
        BY <1>1 DEF ReaderInv
      <3> HIDE DEF me, found
      <3> QED
        BY <3>1 DEF StoreFields
    <2>2. Slot(new) = slot
      BY <2>1 DEF Slot
    <2> HIDE DEF new
    <2>3. LookupInv(new, files[me.path])
      BY <1>1, <2>1, <2>2 DEF LookupInv
    <2> QED
      BY <1>1, <2>1, <2>3, LookupStepInv DEF Opened
  <1> HIDE DEF new
  <1> QED
    BY <1>2, <1>3, OneReader

\* A record that was not touched beyond the file's end.
LEMMA RecordInside ==
  ASSUME NEW offset \in Nat, NEW size \in Nat, offset + RECORD_SIZE <= size
  PROVE  /\ ~((offset + KEY_SIZE - 1) - ((offset + KEY_SIZE - 1) % 4096) >= size)
         /\ ~((offset + RECORD_SIZE - 1) - ((offset + RECORD_SIZE - 1) % 4096) >= size)
  <1>1. /\ offset + KEY_SIZE - 1 \in Nat /\ offset + KEY_SIZE - 1 < size
        /\ offset + RECORD_SIZE - 1 \in Nat /\ offset + RECORD_SIZE - 1 < size
    BY DEF RECORD_SIZE, KEY_SIZE, VALUE_SIZE
  <1> QED
    BY <1>1, PageInside

\* The record is inside the file, so the step only compares its key.
LEMMA CompareKeyStep ==
  ASSUME SystemInv, NEW r \in Readers, CompareKey(r)
  PROVE  LET me == reader[r] IN
         reader' = [reader EXCEPT ![r] = [me EXCEPT !.pc =
           IF key_equals(RecordAt(me, files[me.path]), me.key) THEN "value" ELSE "answered"]]
  <1> DEFINE me == reader[r]
             file == files[me.path]
             offset == record_offset(me.header.data_offset, mphf_get(me.mphf, me.key))
  <1>1. me.pc = "record"
    BY DEF CompareKey
  <1>2. ~(offset + RECORD_SIZE > me.len \/ Faults(r, offset + KEY_SIZE - 1))
    <2>1. /\ offset \in Nat /\ offset + RECORD_SIZE <= me.len
          /\ me.len = file.size /\ me.len \in Nat
      BY <1>1, RecordFacts
    <2> HIDE DEF offset
    <2>2. ~(offset + RECORD_SIZE > me.len)
      BY <2>1 DEF RECORD_SIZE, KEY_SIZE, VALUE_SIZE
    <2> QED
      BY <2>1, <2>2, RecordInside DEF Faults
  <1> QED
    BY <1>2 DEF CompareKey, RecordAt, RecordOffset, Slot, SystemInv

\* Where a reader looks that has the data offset, there is an added record.
LEMMA RecordLocated ==
  ASSUME SystemInv, NEW r \in Readers, reader[r].pc \in {"record", "value"},
         reader[r].header.data_offset # 0
  PROVE  LET me == reader[r]
             file == files[me.path]
         IN  /\ RecordOffset(me) \in DOMAIN file.data
             /\ \E i \in 1..Len(source[me.path].keys) :
                  RecordAt(me, file) = GivenRecord(source[me.path], i)
  <1> DEFINE me == reader[r]
             file == files[me.path]
             s == source[me.path]
  <1>1. /\ SourceOK(s) /\ Complete(s, file) /\ me.mphf = s.mphf
        /\ me.header.data_offset = s.header.data_offset
    BY OpenedFacts DEF Opened
  <1>2. me.key \in Keys /\ Slot(me) # None
    BY RecordFacts
  <1>3. PICK i \in 1..Len(s.keys) : mphf_get(s.mphf, s.keys[i]) = mphf_get(s.mphf, me.key)
    BY <1>1, <1>2, SlotTaken DEF Slot
  <1>4. Offset(s, i) = RecordOffset(me)
    BY <1>1, <1>3 DEF Offset, Slot, RecordOffset
  <1>5. Offset(s, i) \in DOMAIN file.data /\ file.data[Offset(s, i)] = GivenRecord(s, i)
    BY <1>1 DEF Complete, Holds
  <1> QED
    BY <1>4, <1>5 DEF RecordAt, read_record

LEMMA CompareKeyInv ==
  ASSUME SystemInv, NEW r \in Readers, CompareKey(r), UNCHANGED vars
  PROVE  SystemInv'
  <1> DEFINE me == reader[r]
             file == files[me.path]
             found == IF key_equals(RecordAt(me, file), me.key) THEN "value" ELSE "answered"
             new == [me EXCEPT !.pc = found]
  <1>1. me.pc = "record" /\ ReaderInv(me) /\ me.pc \in Opened /\ LookupInv(me, file)
    BY DEF SystemInv, CompareKey, ReaderInv, Opened
  <1>2. reader' = [reader EXCEPT ![r] = new]
    BY CompareKeyStep
  <1>3. ReaderInv(new)
    <2>1. /\ DOMAIN new = StoreFields /\ new.pc = found /\ new.path = me.path
          /\ new.len = me.len /\ new.header = me.header /\ new.mphf = me.mphf
          /\ new.key = me.key /\ new.answer = me.answer
      <3>1. DOMAIN me = StoreFields
        BY <1>1 DEF ReaderInv
      <3> HIDE DEF me, found
      <3> QED
        BY <3>1 DEF StoreFields
    <2>2. /\ Slot(new) = Slot(me) /\ RecordOffset(new) = RecordOffset(me)
          /\ RecordAt(new, file) = RecordAt(me, file)
      BY <2>1 DEF Slot, RecordAt, RecordOffset
    <2> HIDE DEF new
    <2>3. me.header.data_offset # 0 => RecordOffset(me) \in DOMAIN file.data
      BY <1>1, RecordLocated
    <2>4. LookupInv(new, file)
      BY <1>1, <2>1, <2>2, <2>3 DEF LookupInv
    <2> QED
      BY <1>1, <2>1, <2>4, LookupStepInv DEF Opened
  <1> HIDE DEF new
  <1> QED
    BY <1>2, <1>3, OneReader

\* The value that is copied is the one of the record found.
LEMMA CopyValueStep ==
  ASSUME SystemInv, NEW r \in Readers, CopyValue(r)
  PROVE  LET me == reader[r] IN
         reader' = [reader EXCEPT ![r] =
           [me EXCEPT !.pc = "answered", !.answer = RecordAt(me, files[me.path]).value]]
  <1> DEFINE me == reader[r]
             file == files[me.path]
             offset == record_offset(me.header.data_offset, mphf_get(me.mphf, me.key))
  <1>1. me.pc = "value"
    BY DEF CopyValue
  <1>2. ~Faults(r, offset + RECORD_SIZE - 1)
    <2>1. /\ offset \in Nat /\ offset + RECORD_SIZE <= me.len
          /\ me.len = file.size /\ me.len \in Nat
      BY <1>1, RecordFacts
    <2> HIDE DEF offset
    <2> QED
      BY <2>1, RecordInside DEF Faults
  <1> QED
    BY <1>2 DEF CopyValue, RecordAt, RecordOffset, Slot, SystemInv

LEMMA CopyValueInv ==
  ASSUME SystemInv, NEW r \in Readers, CopyValue(r), UNCHANGED vars
  PROVE  SystemInv'
  <1> DEFINE me == reader[r]
             new == [me EXCEPT !.pc = "answered", !.answer = RecordAt(me, files[me.path]).value]
  <1>1. me.pc = "value" /\ ReaderInv(me) /\ me.pc \in Opened /\ LookupInv(me, files[me.path])
    BY DEF SystemInv, CopyValue, ReaderInv, Opened
  <1>2. reader' = [reader EXCEPT ![r] = new]
    BY CopyValueStep
  <1>3. ReaderInv(new)
    <2>1. /\ DOMAIN new = StoreFields /\ new.pc = "answered" /\ new.path = me.path
          /\ new.len = me.len /\ new.header = me.header /\ new.mphf = me.mphf
          /\ new.key = me.key
      <3>1. DOMAIN me = StoreFields
        BY <1>1 DEF ReaderInv
      <3> HIDE DEF me
      <3> QED
        BY <3>1 DEF StoreFields
    <2> HIDE DEF new
    <2>2. LookupInv(new, files[me.path])
      BY <1>1, <2>1 DEF LookupInv
    <2> QED
      BY <1>1, <2>1, <2>2, LookupStepInv DEF Opened
  <1> HIDE DEF new
  <1> QED
    BY <1>2, <1>3, OneReader

LEMMA ReturnInv ==
  ASSUME SystemInv, NEW r \in Readers, Return(r), UNCHANGED vars
  PROVE  SystemInv'
  <1> DEFINE me == reader[r]
             new == [me EXCEPT !.pc = "ready", !.key = None, !.answer = None]
  <1>1. me.pc = "answered" /\ ReaderInv(me) /\ me.pc \in Opened
    BY DEF SystemInv, Return, ReaderInv, Opened
  <1>2. reader' = [reader EXCEPT ![r] = new]
    BY DEF Return, SystemInv
  <1>3. ReaderInv(new)
    <2>1. /\ DOMAIN new = StoreFields /\ new.pc = "ready" /\ new.path = me.path
          /\ new.len = me.len /\ new.header = me.header /\ new.mphf = me.mphf
          /\ new.key = None /\ new.answer = None
      <3>1. DOMAIN me = StoreFields
        BY <1>1 DEF ReaderInv
      <3> HIDE DEF me
      <3> QED
        BY <3>1 DEF StoreFields
    <2> HIDE DEF new
    <2>2. LookupInv(new, files[me.path])
      BY <2>1 DEF LookupInv
    <2> QED
      BY <1>1, <2>1, <2>2, LookupStepInv DEF Opened
  <1> HIDE DEF new
  <1> QED
    BY <1>2, <1>3, OneReader

LEMMA CloseInv ==
  ASSUME SystemInv, NEW r \in Readers, Close(r), UNCHANGED vars
  PROVE  SystemInv'
  BY ClosedInv, OneReader DEF Close

LEMMA StutterInv ==
  ASSUME SystemInv, UNCHANGED <<vars, reader>>
  PROVE  SystemInv'
  <1>1. IInv'
    BY NextInv DEF SystemInv
  <1>2. NothingInPlace'
    BY DEF SystemInv, NothingInPlace, vars, input
  <1> QED
    BY <1>1, <1>2 DEF SystemInv, vars, ReaderInv, StoreInv, LookupInv, RecordAt, RecordOffset

\* Readers change no file.
LEMMA StoreStepKeeps ==
  ASSUME StoreStep
  PROVE  UNCHANGED vars
  BY DEF StoreStep, ReaderStep, OpenFile, ParseHeader, LoadIndex, Preload, Get, CompareKey,
         CopyValue, Return, Close, vars

\* Every step of builder and readers keeps SystemInv.
LEMMA SystemNextInv ==
  ASSUME ~InPlace, SystemInv, [SystemNext]_<<vars, reader>>
  PROVE  SystemInv'
  <1>1. CASE UNCHANGED <<vars, reader>>
    BY <1>1, StutterInv
  <1>2. CASE BuilderStep
    BY <1>2, BuilderStepInv
  <1>3. CASE StoreStep
    <2>1. UNCHANGED vars
      BY <1>3, StoreStepKeeps
    <2>2. PICK r \in Readers :
            \/ \E p \in Paths : (OpenUnfinished \/ built[p]) /\ OpenFile(r, p)
            \/ ReaderStep(r)
      BY <1>3 DEF StoreStep
    <2>3. CASE \E p \in Paths : (OpenUnfinished \/ built[p]) /\ OpenFile(r, p)
      BY <2>1, <2>3, OpenFileInv
    <2>4. CASE Preload(r)
      BY <2>1, <2>4, PreloadAlive, StutterInv
    <2>5. CASE \E key \in Keys : Get(r, key)
      BY <2>1, <2>5, GetInv
    <2> QED
      BY <2>1, <2>2, <2>3, <2>4, <2>5, ParseHeaderInv, LoadIndexInv, CompareKeyInv,
         CopyValueInv, ReturnInv, CloseInv DEF ReaderStep
  <1> QED
    BY <1>1, <1>2, <1>3 DEF SystemNext

LEMMA SystemInitInv == SystemInit => SystemInv
  <1> SUFFICES ASSUME SystemInit PROVE SystemInv
    OBVIOUS
  <1>1. IInv
    BY InitInv DEF SystemInit
  <1>2. NothingInPlace
    BY DEF SystemInit, Init, NothingInPlace
  <1> QED
    BY <1>1, <1>2, ClosedInv DEF SystemInv, SystemInit, ReaderInit

\* What a reader knows of the file it has mapped holds in every reachable state,
\* although the file may still be built.
THEOREM SystemInductive ==
  ASSUME ~InPlace
  PROVE  SystemSpec => []SystemInv
  <1>1. SystemInv /\ [SystemNext]_<<vars, reader>> => SystemInv'
    BY SystemNextInv
  <1> QED
    BY <1>1, SystemInitInv, PTL DEF SystemSpec

\* No process that reads a snapshot while it is built dies of it: open does not
\* panic, and every access is to a page the file has.
THEOREM Survival ==
  ASSUME ~InPlace
  PROVE  SystemSpec => []ReadersSurvive
  <1>1. SystemInv => ReadersSurvive
    BY DEF SystemInv, ReaderInv, ReaderPCs, Opened, ReadersSurvive
  <1> QED
    BY <1>1, SystemInductive, PTL

\* The value copied for a key, by a reader whose header says where the records begin,
\* is the value the file's build was given for it, although open looks at no checksum
\* and other words of the header may not have been there when it was read.
THEOREM AnswersGiven ==
  ASSUME ~InPlace
  PROVE  SystemSpec => AnswersNeverForeign
  <1>1. ASSUME SystemInv, [SystemNext]_<<vars, reader>>, NEW r \in Readers,
               reader[r].pc = "value", reader'[r].pc = "answered",
               reader[r].header.data_offset # 0
        PROVE  <<reader[r].key, reader'[r].answer>> \in Given(reader[r].path)
    <2> DEFINE me == reader[r]
               file == files[me.path]
               record == RecordAt(me, file)
    <2>1. CopyValue(r)
      <3>1. StoreStep
        BY <1>1 DEF SystemNext, BuilderStep
      <3>2. PICK q \in Readers :
              \/ \E p \in Paths : (OpenUnfinished \/ built[p]) /\ OpenFile(q, p)
              \/ ReaderStep(q)
        BY <3>1 DEF StoreStep
      <3>3. q = r
        BY <1>1, <3>2 DEF OpenFile, ReaderStep, ParseHeader, LoadIndex, Preload, Get,
                          CompareKey, CopyValue, Return, Close, Die, SystemInv
      <3> QED
        BY <1>1, <3>2, <3>3 DEF OpenFile, ReaderStep, ParseHeader, LoadIndex, Preload, Get,
                                CompareKey, Return, Close
    <2>2. /\ me.pc \in Opened /\ ReaderInv(me) /\ LookupInv(me, file)
      BY <1>1 DEF SystemInv, ReaderInv, Opened
    <2>3. reader'[r].answer = record.value
      <3>1. reader' = [reader EXCEPT ![r] = [me EXCEPT !.pc = "answered", !.answer = record.value]]
        BY <1>1, <2>1, CopyValueStep
      <3>2. [me EXCEPT !.pc = "answered", !.answer = record.value].answer = record.value
        <4>1. DOMAIN me = StoreFields
          BY <2>2 DEF ReaderInv
        <4> HIDE DEF me, record
        <4> QED
          BY <4>1 DEF StoreFields
      <3> QED
        BY <1>1, <3>1, <3>2 DEF SystemInv
    <2>4. record.key = me.key
      BY <1>1, <2>2 DEF LookupInv, key_equals
    <2>5. PICK i \in 1..Len(source[me.path].keys) : record = GivenRecord(source[me.path], i)
      BY <1>1, RecordLocated
    <2> QED
      BY <2>3, <2>4, <2>5 DEF GivenRecord, Given
  <1>2. SystemInv /\ [SystemNext]_<<vars, reader>> =>
          [\A r \in Readers :
             /\ reader[r].pc = "value" /\ reader'[r].pc = "answered"
             /\ reader[r].header.data_offset # 0
             => <<reader[r].key, reader'[r].answer>> \in Given(reader[r].path)]_<<vars, reader>>
    BY <1>1
  <1> QED
    BY <1>2, SystemInductive, PTL DEF SystemSpec, AnswersNeverForeign

-------------------------------------------------------------------------------
(* The atomic service: what is published *)

\* The mapping a source stands for.
Mapping(s) ==
  LET index(key) == CHOOSE i \in 1..Len(s.keys) : s.keys[i] = key
  IN  [key \in {s.keys[i] : i \in 1..Len(s.keys)} |-> s.values[index(key)]]

LEMMA MappingOfSource ==
  ASSUME NEW s, SourceOK(s)
  PROVE  /\ Mapping(s) \in Service!Snapshots
         /\ Mapping(s) # None
         /\ \A key : key \in DOMAIN Mapping(s) <=> \E i \in 1..Len(s.keys) : key = s.keys[i]
         /\ \A i \in 1..Len(s.keys) : Mapping(s)[s.keys[i]] = s.values[i]
  <1> DEFINE n == Len(s.keys)
             K == {s.keys[i] : i \in 1..n}
             index(key) == CHOOSE i \in 1..n : s.keys[i] = key
  <1>1. /\ s.keys \in Seq(Keys) /\ s.values \in Seq(Values) /\ Len(s.values) = n
        /\ n \in Nat /\ n >= 1
    BY BuilderAssumption DEF SourceOK
  <1>2. \A i \in 1..n : s.keys[i] \in Keys /\ s.values[i] \in Values
    BY <1>1
  <1>3. \A key \in K : index(key) \in 1..n /\ s.keys[index(key)] = key
    OBVIOUS
  <1>4. \A i \in 1..n : index(s.keys[i]) = i
    <2> SUFFICES ASSUME NEW i \in 1..n PROVE index(s.keys[i]) = i
      OBVIOUS
    <2>1. index(s.keys[i]) \in 1..n /\ s.keys[index(s.keys[i])] = s.keys[i]
      BY <1>3
    <2> HIDE DEF index
    <2> QED
      BY <2>1, PerfectSlots DEF SourceOK
  <1>5. Mapping(s) = [key \in K |-> s.values[index(key)]]
    BY DEF Mapping
  <1> HIDE DEF index, K, n
  <1>6. K \in (SUBSET Keys) \ {{}}
    <2>1. s.keys[1] \in K
      BY <1>1 DEF K
    <2> QED
      BY <1>2, <2>1 DEF K
  <1>7. Mapping(s) \in [K -> Values]
    BY <1>2, <1>3, <1>5
  <1>8. Mapping(s) \in Service!Snapshots
    BY <1>6, <1>7 DEF Service!Snapshots
  <1>9. \A i \in 1..n : s.keys[i] \in K
    BY DEF K
  <1> QED
    BY <1>4, <1>5, <1>6, <1>7, <1>8, <1>9, AbsentAssumption DEF K, n

LEMMA MapOfSource ==
  ASSUME NEW p
  PROVE  /\ MapOf(p) = Mapping(source[p])
         /\ MapOf(p)' = Mapping(source'[p])
  BY DEF MapOf, Mapping

\* Whoever has seen all of a header has seen the last state of the page.
LEMMA WholeIsFinal ==
  ASSUME NEW p, NEW file, FileOK(file), Complete(source[p], file), PagePartial(source[p], file),
         NEW h, HeaderSeen(h, file), Whole(p, h)
  PROVE  /\ file.page = to_bytes(h)
         /\ h = FinalHeader(source[p], file)
  <1> DEFINE s == source[p]
             final == FinalHeader(s, file)
             b == to_bytes(final)
             w == to_bytes(h)
  <1>1. /\ h = [s.header EXCEPT !.checksum = h.checksum]
        /\ h.checksum # ZeroSum
        /\ final = [s.header EXCEPT !.checksum = final.checksum]
    <2>1. parse(ZeroPage).checksum = ZeroSum
      BY DEF parse, ZeroPage, FieldOffsets
    <2>2. PICK len \in MphfLens, t \in Timestamps : s.header = new_header(Len(s.keys), len, t)
      BY DEF Complete, SourceOK, Headers
    <2>3. final = [s.header EXCEPT !.checksum = final.checksum]
      BY <2>2 DEF FinalHeader, new_header
    <2> QED
      BY <2>1, <2>3 DEF Whole
  <1>2. \A o \in FieldOffsets : /\ w[o] \in {ZeroPage[o], file.page[o]}
                                /\ file.page[o] \in {ZeroPage[o], b[o]}
    BY DEF HeaderSeen, PagePartial
  <1>3. \A o \in FieldOffsets \ {64} : w[o] = b[o]
    <2>0. PICK len \in MphfLens, t \in Timestamps : s.header = new_header(Len(s.keys), len, t)
      BY DEF Complete, SourceOK, Headers
    <2> HIDE DEF final, s
    <2>1. /\ h.magic = final.magic
          /\ h.version = final.version
          /\ h.record_count = final.record_count
          /\ h.mphf_size = final.mphf_size
          /\ h.data_offset = final.data_offset
          /\ h.build_timestamp = final.build_timestamp
      BY <1>1, <2>0 DEF new_header
    <2> QED
      BY <2>1 DEF to_bytes, FieldOffsets
  <1>4. w[64] = b[64]
    <2>1. w[64] = h.checksum /\ ZeroPage[64] = ZeroSum
      BY DEF to_bytes, ZeroPage, FieldOffsets
    <2>2. 64 \in FieldOffsets
      BY DEF FieldOffsets
    <2> HIDE DEF w, b
    <2> QED
      BY <1>1, <1>2, <2>1, <2>2
  <1>5. to_bytes(parse(file.page)) = file.page
    BY DEF FileOK, to_bytes, parse, FieldOffsets
  <1>6. h = parse(w)
    BY DEF HeaderSeen
  <1>7. parse(b) = final
    <2>1. PICK len \in MphfLens, t \in Timestamps : s.header = new_header(Len(s.keys), len, t)
      BY DEF Complete, SourceOK, Headers
    <2>2. final = [new_header(Len(s.keys), len, t) EXCEPT !.checksum = final.checksum]
      BY <1>1, <2>1
    <2> HIDE DEF final, s
    <2> QED
      BY <2>2 DEF parse, to_bytes, new_header, FieldOffsets
  <1> HIDE DEF w, b, final
  <1>8. \A o \in FieldOffsets : w[o] = b[o] /\ file.page[o] = b[o]
    <2>1. \A o \in FieldOffsets : w[o] = b[o]
      BY <1>3, <1>4
    <2> QED
      BY <1>2, <2>1
  <1>9. parse(w) = parse(b) /\ parse(file.page) = parse(b)
    BY <1>8 DEF parse, FieldOffsets
  <1> QED
    BY <1>5, <1>6, <1>7, <1>9 DEF final

\* A page of zeros is not a whole header.
LEMMA BlankNotWhole ==
  ASSUME NEW p
  PROVE  ~Whole(p, parse(ZeroPage))
  BY DEF Whole

\* A whole header has its magic number, so the file is complete.
LEMMA WholeSeen ==
  ASSUME NEW p, NEW file, FileOK(file), SourceOK(source[p]), Whole(p, parse(file.page))
  PROVE  HeaderSeen(parse(file.page), file)
  <1> DEFINE h == parse(file.page)
  <1>1. to_bytes(h) = file.page
    BY DEF FileOK, to_bytes, parse, FieldOffsets
  <1>2. h.magic = MAGIC_NUMBER
    <2>1. source[p].header.magic = MAGIC_NUMBER
      BY Layout
    <2>2. PICK len \in MphfLens, t \in Timestamps :
            source[p].header = new_header(Len(source[p].keys), len, t)
      BY DEF SourceOK, Headers
    <2>3. h = [source[p].header EXCEPT !.checksum = h.checksum]
      BY DEF Whole
    <2> HIDE DEF h
    <2>4. h.magic = source[p].header.magic
      BY <2>2, <2>3 DEF new_header
    <2> QED
      BY <2>1, <2>4
  <1> HIDE DEF h
  <1> QED
    BY <1>1, <1>2 DEF HeaderSeen, h

\* Whatever path holds a file, what it has published is what its build was given.
LEMMA PublishedFiles ==
  ASSUME IInv, NEW p \in Paths
  PROVE  /\ files[p].page = ZeroPage => Published[p] = None
         /\ files[p].page # ZeroPage =>
              /\ SourceOK(source[p])
              /\ Published[p] \in {None, MapOf(p)}
  <1>1. files[p].page = ZeroPage => Published[p] = None
    BY BlankNotWhole DEF Published
  <1>2. ASSUME files[p].page # ZeroPage
        PROVE  SourceOK(source[p])
    <2>1. files[p] # NoFile
      BY <1>2 DEF NoFile, ZeroFile
    <2> QED
      BY <1>2, <2>1, FileCases DEF Complete
  <1>3. Published[p] \in {None, MapOf(p)}
    BY DEF Published
  <1> QED
    BY <1>1, <1>2, <1>3

\* Steps of a build touch one path.
LEMMA OnePath ==
  ASSUME IInv, [Next]_vars, NEW p \in Paths, p # path
  PROVE  files'[p] = files[p] /\ source'[p] = source[p]
  <1>1. /\ files = [q \in Paths |-> files[q]]
        /\ source = [q \in Paths |-> source[q]]
    BY DEF IInv, MemoryInv
  <1> QED
    BY <1>1, FilesKept DEF CreateFile, SetLen, WriteMphf, WriteKey, WriteValue,
                           WriteHeaderWord, Halt, history

\* A path gets its file as one of zeros.
LEMMA CreatedBlank ==
  ASSUME IInv, [Next]_vars, NEW p \in Paths, files[p] = NoFile
  PROVE  files'[p].page = ZeroPage
  <1>1. CASE files' = files
    BY <1>1 DEF NoFile, ZeroFile
  <1>2. CASE p # path
    BY <1>2, OnePath DEF NoFile, ZeroFile
  <1>3. CASE p = path /\ CreateFile
    BY <1>3 DEF CreateFile, ZeroFile, IInv, MemoryInv
  <1>4. CASE p = path /\ pc \in Writing
    BY <1>4 DEF IInv, StepInv
  <1> QED
    BY <1>1, <1>2, <1>3, <1>4, FilesKept
    DEF SetLen, WriteMphf, WriteKey, WriteValue, WriteHeaderWord, Writing

\* What is published stays.
LEMMA PublishedStays ==
  ASSUME IInv, NothingInPlace, [Next]_vars, NEW p \in Paths, Published[p] # None
  PROVE  Published'[p] = Published[p]
  <1> DEFINE old == files[p]
             new == files'[p]
             h == parse(old.page)
  <1>1. /\ old.page # ZeroPage /\ Whole(p, h)
        /\ SourceOK(source[p]) /\ Published[p] = MapOf(p)
    BY PublishedFiles DEF Published
  <1>2. old # NoFile
    BY <1>1 DEF NoFile, ZeroFile
  <1>3. Grown(old, new) /\ source'[p] = source[p]
    BY <1>2, BuilderGrows
  <1>4. FileOK(old) /\ Complete(source[p], old) /\ PagePartial(source[p], old)
    BY <1>1, <1>2 DEF IInv, FilesInv
  <1>5. HeaderSeen(h, old)
    BY <1>1, <1>4, WholeSeen
  <1>6. HeaderSeen(h, new)
    <2>1. /\ h = parse(to_bytes(h)) /\ h.magic = MAGIC_NUMBER
          /\ \A o \in FieldOffsets : to_bytes(h)[o] \in {ZeroPage[o], old.page[o]}
      BY <1>5 DEF HeaderSeen
    <2>2. \A o \in FieldOffsets : old.page[o] \in {ZeroPage[o], new.page[o]}
      BY <1>3 DEF Grown
    <2> HIDE DEF h, old, new
    <2>3. \A o \in FieldOffsets : to_bytes(h)[o] \in {ZeroPage[o], new.page[o]}
      BY <2>1, <2>2
    <2> QED
      BY <2>1, <2>3 DEF HeaderSeen
  <1>7. new.page # ZeroPage
    <2>1. /\ to_bytes(h)[0] = h.magic
          /\ ZeroPage[0] = 0
          /\ 0 \in FieldOffsets
      BY DEF to_bytes, ZeroPage, FieldOffsets
    <2> HIDE DEF h, new
    <2> QED
      BY <1>6, <2>1, FormatAssumption DEF HeaderSeen
  <1>8. FileOK(new) /\ Complete(source[p], new) /\ PagePartial(source[p], new)
    <2>1. FilesInv'
      BY NextInv DEF IInv
    <2> QED
      BY <1>3, <1>7, <2>1 DEF FilesInv, Grown
  <1>9. new.page = to_bytes(h)
    BY <1>1, <1>6, <1>8, WholeIsFinal
  <1>10. parse(new.page) = h
    BY <1>5, <1>9 DEF HeaderSeen
  <1>11. Whole(p, parse(files[p].page))' /\ MapOf(p)' = MapOf(p)
    <2> HIDE DEF h
    <2> QED
      BY <1>1, <1>3, <1>10 DEF Whole, MapOf
  <1> QED
    BY <1>1, <1>11 DEF Published

-------------------------------------------------------------------------------
(* The atomic service: its sessions *)

\* What the service is taken to be.
LEMMA ServiceState ==
  /\ Service!Init <=>
       /\ Published = [p \in Paths |-> None]
       /\ Session = [r \in Readers |-> Service!NoSession]
  /\ \A p \in Paths : Service!Publish(p) <=>
       /\ Published[p] = None
       /\ \E snapshot \in Service!Snapshots : Published' = [Published EXCEPT ![p] = snapshot]
       /\ Session' = Session
  BY DEF Service!Init, Service!Publish, Published, Session, SessionOf, InSession, Opened

\* A build publishes its snapshot at most once, and changes no session.
LEMMA BuilderServed ==
  ASSUME ~InPlace, SystemInv, BuilderStep
  PROVE  [Service!Next]_<<Published, Session>>
  <1>1. IInv /\ NothingInPlace /\ Next /\ IInv' /\ reader' = reader /\ path \in Paths
    BY NextInv DEF SystemInv, BuilderStep, Next, IInv, MemoryInv
  <1>2. ASSUME NEW r \in Readers
        PROVE  SessionOf(r)' = SessionOf(r)
    <2> DEFINE me == reader[r]
    <2>1. CASE me.pc \in Opened
      <3>1. me.path \in Paths /\ files[me.path] # NoFile
        BY <2>1 DEF SystemInv, ReaderInv, StoreInv, Opened
      <3>2. source'[me.path] = source[me.path]
        BY <1>1, <3>1, BuilderGrows
      <3> QED
        BY <1>1, <3>2 DEF SessionOf, InSession, Whole, MapOf
    <2>2. CASE me.pc \notin Opened
      BY <1>1, <2>2 DEF SessionOf, InSession
    <2> QED
      BY <2>1, <2>2
  <1>3. Session' = Session
    BY <1>2 DEF Session
  <1>4. \A p \in Paths \ {path} : Published'[p] = Published[p]
    <2> SUFFICES ASSUME NEW p \in Paths, p # path PROVE Published'[p] = Published[p]
      OBVIOUS
    <2>1. files'[p] = files[p] /\ source'[p] = source[p]
      BY <1>1, OnePath
    <2>2. Whole(p, parse(files[p].page))' <=> Whole(p, parse(files[p].page))
      BY <2>1 DEF Whole
    <2>3. MapOf(p)' = MapOf(p)
      BY <2>1, MapOfSource
    <2> QED
      BY <2>2, <2>3 DEF Published
  <1>5. Published = [p \in Paths |-> Published[p]] /\ Published' = [p \in Paths |-> Published'[p]]
    BY DEF Published
  <1>6. CASE Published'[path] = Published[path]
    <2>1. Published' = Published
      BY <1>4, <1>5, <1>6
    <2> QED
      BY <1>3, <2>1
  <1>7. ASSUME NEW p \in Paths, p = path, Published'[p] # Published[p]
        PROVE  \E q \in Paths : Service!Publish(q)
    <2>1. Published[p] = None
      BY <1>1, <1>7, PublishedStays
    <2>2. Published'[p] \in Service!Snapshots
      <3>1. Whole(p, parse(files[p].page))' /\ Published'[p] = MapOf(p)'
        <4>1. Published'[p] = IF Whole(p, parse(files[p].page))' THEN MapOf(p)' ELSE None
          BY DEF Published
        <4> QED
          BY <1>7, <2>1, <4>1
      <3>2. files'[p].page # ZeroPage
        BY <3>1 DEF Whole
      <3>3. files'[p] # NoFile
        BY <3>2 DEF NoFile, ZeroFile
      <3>4. SourceOK(source'[p])
        BY <1>1, <3>2, <3>3 DEF IInv, FilesInv, Complete
      <3> QED
        BY <3>1, <3>4, MapOfSource, MappingOfSource
    <2>3. Published' = [Published EXCEPT ![p] = Published'[p]]
      BY <1>4, <1>5, <1>7
    <2> HIDE DEF Published, Session
    <2>4. Service!Publish(p)
      BY <1>1, <1>3, <2>1, <2>2, <2>3, ServiceState
    <2> QED
      BY <2>4
  <1> QED
    BY <1>1, <1>6, <1>7 DEF Service!Next

\* A session by its parts.
InView(view, key, answered, answer) ==
  [view |-> view, key |-> key, answered |-> answered, answer |-> answer]

\* A step of one reader changes its session and no other.
LEMMA OneSession ==
  ASSUME NEW r \in Readers, \A q \in Readers \ {r} : reader'[q] = reader[q], UNCHANGED vars
  PROVE  /\ Published' = Published
         /\ Session' = [Session EXCEPT ![r] = SessionOf(r)']
         /\ Session[r] = SessionOf(r)
  <1>1. files' = files /\ source' = source
    BY DEF vars, history
  <1>2. ASSUME NEW p
        PROVE  MapOf(p)' = MapOf(p) /\ (\A h : Whole(p, h)' <=> Whole(p, h))
    BY <1>1, MapOfSource DEF Whole
  <1>3. Published' = Published
    BY <1>1, <1>2 DEF Published
  <1>4. \A q \in Readers \ {r} : SessionOf(q)' = SessionOf(q)
    BY <1>2 DEF SessionOf, InSession
  <1> QED
    BY <1>3, <1>4 DEF Session

\* What each action of the service does to one session.
LEMMA SessionServed ==
  ASSUME NEW r \in Readers, \A q \in Readers \ {r} : reader'[q] = reader[q], UNCHANGED vars,
         NEW view, NEW key, NEW answered, NEW answer,
         SessionOf(r) = InView(view, key, answered, answer),
         \/ SessionOf(r)' = SessionOf(r)
         \/ /\ InView(view, key, answered, answer) = Service!NoSession
            /\ \E p \in Paths : /\ Published[p] # None
                                /\ SessionOf(r)' = InView(Published[p], None, FALSE, None)
         \/ /\ view # None /\ key = None
            /\ \E k \in Keys : SessionOf(r)' = InView(view, k, answered, answer)
         \/ /\ key # None /\ ~answered
            /\ SessionOf(r)' = InView(view, key, TRUE, Service!Lookup(view, key))
         \/ /\ view # None /\ key = None
            /\ \E k \in Keys \ DOMAIN view : SessionOf(r)' = InView(view, k, TRUE, answer)
         \/ /\ answered
            /\ SessionOf(r)' = InView(view, None, FALSE, None)
         \/ /\ view # None /\ key = None
            /\ SessionOf(r)' = Service!NoSession
  PROVE  [Service!Next]_<<Published, Session>>
  <1> DEFINE new == SessionOf(r)'
  <1>1. /\ Published' = Published
        /\ Session' = [Session EXCEPT ![r] = new]
        /\ Session[r] = InView(view, key, answered, answer)
        /\ Session = [q \in Readers |-> Session[q]]
    BY OneSession DEF Session
  <1>2. /\ Service!Open(r) <=>
             /\ Session[r] = Service!NoSession
             /\ \E p \in Paths : /\ Published[p] # None
                                 /\ Session' = [Session EXCEPT ![r].view = Published[p]]
             /\ Published' = Published
        /\ Service!Ask(r) <=>
             /\ Session[r].view # None /\ Session[r].key = None
             /\ \E k \in Keys : Session' = [Session EXCEPT ![r].key = k]
             /\ Published' = Published
        /\ Service!Answer(r) <=>
             /\ Session[r].key # None /\ ~Session[r].answered
             /\ Session' = [Session EXCEPT ![r].answered = TRUE,
                              ![r].answer = Service!Lookup(Session[r].view, Session[r].key)]
             /\ Published' = Published
        /\ Service!AskMissing(r) <=>
             /\ Session[r].view # None /\ Session[r].key = None
             /\ \E k \in Keys \ DOMAIN Session[r].view :
                  Session' = [Session EXCEPT ![r].key = k, ![r].answered = TRUE]
             /\ Published' = Published
        /\ Service!Return(r) <=>
             /\ Session[r].answered
             /\ Session' = [Session EXCEPT ![r] = [Service!NoSession EXCEPT !.view = Session[r].view]]
             /\ Published' = Published
        /\ Service!Close(r) <=>
             /\ Session[r].view # None /\ Session[r].key = None
             /\ Session' = [Session EXCEPT ![r] = Service!NoSession]
             /\ Published' = Published
    BY DEF Service!Open, Service!Ask, Service!Answer, Service!AskMissing, Service!Return,
           Service!Close, Session, SessionOf, InSession, Published, Opened
  <1> DEFINE no == FALSE
  <1>3. Service!NoSession = InView(None, None, no, None)
    BY DEF Service!NoSession, InView
  <1>0. \A v, k, a, w, x : [InView(v, k, a, w) EXCEPT !.view = x] = InView(x, k, a, w)
    BY DEF InView
  <1>4. /\ Session[r].view = view /\ Session[r].key = key
        /\ Session[r].answered = answered /\ Session[r].answer = answer
    <2> HIDE DEF Session
    <2> QED
      BY <1>1 DEF InView
  <1>5. Service!Open(r) \/ Service!Ask(r) \/ Service!Answer(r) \/ Service!AskMissing(r)
          \/ Service!Return(r) \/ Service!Close(r) => [Service!Next]_<<Published, Session>>
    BY DEF Service!Next
  <1>6. CASE new = SessionOf(r)
    <2>1. Session' = Session
      <3> HIDE DEF Session, new
      <3> QED
        BY <1>1, <1>6
    <2> QED
      BY <1>1, <2>1
  <1> HIDE DEF new, no, Session, Published
  <1>7. ASSUME InView(view, key, answered, answer) = Service!NoSession,
               NEW p \in Paths, Published[p] # None, new = InView(Published[p], None, no, None)
        PROVE  Service!Open(r)
    <2>1. [Session[r] EXCEPT !.view = Published[p]] = new
      BY <1>0, <1>1, <1>3, <1>7
    <2>2. Session' = [Session EXCEPT ![r].view = Published[p]]
      BY <1>1, <2>1
    <2> QED
      BY <1>1, <1>2, <1>7, <2>2
  <1>8. ASSUME view # None, key = None, NEW k \in Keys, new = InView(view, k, answered, answer)
        PROVE  Service!Ask(r)
    <2>1. [Session[r] EXCEPT !.key = k] = new
      BY <1>1, <1>8 DEF InView
    <2>2. Session' = [Session EXCEPT ![r].key = k]
      BY <1>1, <2>1
    <2> QED
      BY <1>1, <1>2, <1>4, <1>8, <2>2
  <1>9. ASSUME key # None, ~answered, new = InView(view, key, TRUE, Service!Lookup(view, key))
        PROVE  Service!Answer(r)
    <2> DEFINE found == Service!Lookup(view, key)
    <2>1. Session' = [Session EXCEPT ![r].answered = TRUE, ![r].answer = found]
      BY <1>1, <1>4, <1>9 DEF InView
    <2> QED
      BY <1>1, <1>2, <1>4, <1>9, <2>1
  <1>10. ASSUME view # None, key = None, NEW k \in Keys \ DOMAIN view,
                new = InView(view, k, TRUE, answer)
         PROVE  Service!AskMissing(r)
    <2>1. Session' = [Session EXCEPT ![r].key = k, ![r].answered = TRUE]
      BY <1>1, <1>4, <1>10 DEF InView
    <2> QED
      BY <1>1, <1>2, <1>4, <1>10, <2>1
  <1>11. ASSUME answered, new = InView(view, None, no, None)
         PROVE  Service!Return(r)
    <2>1. [Service!NoSession EXCEPT !.view = view] = new
      BY <1>0, <1>3, <1>11
    <2> QED
      BY <1>1, <1>2, <1>4, <1>11, <2>1
  <1>12. ASSUME view # None, key = None, new = Service!NoSession
         PROVE  Service!Close(r)
    BY <1>1, <1>2, <1>4, <1>12
  <1> QED
    BY <1>5, <1>6, <1>7, <1>8, <1>9, <1>10, <1>11, <1>12 DEF new, no

\* The session of a reader, before and after a step.
LEMMA SessionParts ==
  ASSUME NEW r
  PROVE  /\ InSession(reader[r]) =>
              SessionOf(r) = InView(MapOf(reader[r].path), reader[r].key,
                                    reader[r].pc = "answered", reader[r].answer)
         /\ ~InSession(reader[r]) => SessionOf(r) = InView(None, None, FALSE, None)
  BY DEF SessionOf, InView

LEMMA SessionNext ==
  ASSUME NEW r, UNCHANGED vars
  PROVE  /\ InSession(reader'[r]) =>
              SessionOf(r)' = InView(MapOf(reader'[r].path), reader'[r].key,
                                     reader'[r].pc = "answered", reader'[r].answer)
         /\ ~InSession(reader'[r]) => SessionOf(r)' = InView(None, None, FALSE, None)
  <1>1. source' = source
    BY DEF vars, history
  <1>2. MapOf(reader[r].path)' = MapOf(reader'[r].path)
    BY <1>1 DEF MapOf
  <1>3. InSession(reader[r])' <=> InSession(reader'[r])
    BY <1>1 DEF InSession, Whole
  <1> QED
    BY <1>2, <1>3 DEF SessionOf, InView

\* A reader that has no store yet, or none any more, is in no session.
LEMMA OutsideServed ==
  ASSUME NEW r \in Readers, \A q \in Readers \ {r} : reader'[q] = reader[q], UNCHANGED vars,
         reader[r].pc \notin Opened, reader'[r].pc \notin Opened
  PROVE  [Service!Next]_<<Published, Session>>
  <1>1. ~InSession(reader[r]) /\ ~InSession(reader'[r])
    BY DEF InSession
  <1>2. SessionOf(r) = InView(None, None, FALSE, None) /\ SessionOf(r)' = SessionOf(r)
    BY <1>1, SessionParts, SessionNext
  <1> QED
    BY <1>2, SessionServed

\* A store that is in a session has the true header, so the snapshot is published.
LEMMA WholeFacts ==
  ASSUME SystemInv, NEW r \in Readers, reader[r].pc \in {"parsed"} \cup Opened,
         Whole(reader[r].path, reader[r].header)
  PROVE  LET me == reader[r] IN
         /\ Published[me.path] = MapOf(me.path)
         /\ me.header.data_offset = source[me.path].header.data_offset
         /\ MapOf(me.path) = Mapping(source[me.path])
         /\ SourceOK(source[me.path])
  <1> DEFINE me == reader[r]
             file == files[me.path]
             s == source[me.path]
  <1>1. /\ me.path \in Paths /\ HeaderSeen(me.header, file)
        /\ Complete(s, file) /\ PagePartial(s, file)
    BY ParsedFacts
  <1>2. FileOK(file) /\ SourceOK(s)
    <2>1. file # NoFile
      BY DEF SystemInv, ReaderInv, StoreInv, Opened
    <2> QED
      BY <1>1, <2>1 DEF SystemInv, IInv, FilesInv, Complete
  <1>3. file.page = to_bytes(me.header)
    <2>1. Whole(me.path, me.header)
      OBVIOUS
    <2> HIDE DEF me, file
    <2> QED
      BY <1>1, <1>2, <2>1, WholeIsFinal DEF s
  <1>4. parse(file.page) = me.header
    BY <1>1, <1>3 DEF HeaderSeen
  <1>5. Published[me.path] = MapOf(me.path)
    BY <1>1, <1>4 DEF Published
  <1>6. me.header.data_offset = s.header.data_offset
    <2>1. PICK len \in MphfLens, t \in Timestamps : s.header = new_header(Len(s.keys), len, t)
      BY <1>2 DEF SourceOK, Headers
    <2>2. me.header = [s.header EXCEPT !.checksum = me.header.checksum]
      BY DEF Whole
    <2> HIDE DEF me, s
    <2> QED
      BY <2>1, <2>2 DEF new_header
  <1> QED
    BY <1>2, <1>5, <1>6, MapOfSource

\* In a session, the record at the slot of a key is the key's own, if it was given.
LEMMA WholeRecord ==
  ASSUME SystemInv, NEW r \in Readers, reader[r].pc \in {"record", "value"},
         InSession(reader[r])
  PROVE  LET me == reader[r]
             record == RecordAt(me, files[me.path])
         IN  /\ key_equals(record, me.key) =>
                  record.value = Service!Lookup(MapOf(me.path), me.key)
             /\ ~key_equals(record, me.key) =>
                  Service!Lookup(MapOf(me.path), me.key) = None
  <1> DEFINE me == reader[r]
             file == files[me.path]
             s == source[me.path]
             n == Len(s.keys)
             record == RecordAt(me, file)
  <1>1. /\ SourceOK(s) /\ Complete(s, file) /\ me.mphf = s.mphf
        /\ me.header.data_offset = s.header.data_offset
        /\ MapOf(me.path) = Mapping(s)
    BY OpenedFacts, WholeFacts DEF InSession
  <1>2. me.key \in Keys /\ Slot(me) # None
    BY RecordFacts
  <1>3. PICK i \in 1..n : mphf_get(s.mphf, s.keys[i]) = mphf_get(s.mphf, me.key)
    BY <1>1, <1>2, SlotTaken DEF Slot
  <1>4. record = GivenRecord(s, i)
    <2>1. Offset(s, i) = record_offset(me.header.data_offset, Slot(me))
      BY <1>1, <1>3 DEF Offset, Slot
    <2>2. Offset(s, i) \in DOMAIN file.data /\ file.data[Offset(s, i)] = GivenRecord(s, i)
      BY <1>1 DEF Complete, Holds
    <2> QED
      BY <2>1, <2>2 DEF RecordAt, RecordOffset, read_record
  <1>5. /\ \A key : key \in DOMAIN Mapping(s) <=> \E j \in 1..n : key = s.keys[j]
        /\ \A j \in 1..n : Mapping(s)[s.keys[j]] = s.values[j]
    BY <1>1, MappingOfSource
  <1>6. CASE me.key = s.keys[i]
    <2>1. record.key = me.key /\ record.value = s.values[i]
      BY <1>4, <1>6 DEF GivenRecord
    <2>2. Service!Lookup(Mapping(s), me.key) = s.values[i]
      BY <1>5, <1>6 DEF Service!Lookup
    <2> QED
      BY <1>1, <2>1, <2>2 DEF key_equals
  <1>7. CASE me.key # s.keys[i]
    <2>1. record.key # me.key
      BY <1>4, <1>7 DEF GivenRecord
    <2>2. me.key \notin DOMAIN Mapping(s)
      <3>1. ASSUME NEW j \in 1..n, me.key = s.keys[j] PROVE FALSE
        <4>1. j = i
          BY <1>1, <1>3, <3>1, PerfectSlots DEF SourceOK
        <4> QED
          BY <1>7, <3>1, <4>1
      <3> QED
        BY <1>5, <3>1
    <2>3. Service!Lookup(Mapping(s), me.key) = None
      BY <2>2 DEF Service!Lookup
    <2> QED
      BY <1>1, <2>1, <2>3 DEF key_equals
  <1> QED
    BY <1>6, <1>7

\* A step of a lookup leaves the snapshot and the header that was read.
LEMMA LookupServed ==
  ASSUME SystemInv, NEW r \in Readers, reader[r].pc \in Opened,
         NEW new, new.pc \in Opened,
         new.path = reader[r].path, new.header = reader[r].header,
         reader' = [reader EXCEPT ![r] = new], UNCHANGED vars
  PROVE  LET me == reader[r] IN
         /\ \A q \in Readers \ {r} : reader'[q] = reader[q]
         /\ ~InSession(me) => [Service!Next]_<<Published, Session>>
         /\ InSession(me) =>
              /\ MapOf(me.path) # None
              /\ SessionOf(r) = InView(MapOf(me.path), me.key, me.pc = "answered", me.answer)
              /\ SessionOf(r)' = InView(MapOf(me.path), new.key, new.pc = "answered", new.answer)
  <1> DEFINE me == reader[r]
  <1>1. \A q \in Readers \ {r} : reader'[q] = reader[q]
    BY DEF SystemInv
  <1>2. reader'[r] = new
    BY DEF SystemInv
  <1>3. InSession(new) <=> InSession(me)
    BY DEF InSession
  <1>4. CASE ~InSession(me)
    <2>1. SessionOf(r) = InView(None, None, FALSE, None) /\ SessionOf(r)' = SessionOf(r)
      BY <1>2, <1>3, <1>4, SessionParts, SessionNext
    <2>2. [Service!Next]_<<Published, Session>>
      BY <1>1, <2>1, SessionServed
    <2> QED
      BY <1>1, <1>4, <2>2
  <1>5. CASE InSession(me)
    <2>1. /\ SessionOf(r) = InView(MapOf(me.path), me.key, me.pc = "answered", me.answer)
          /\ SessionOf(r)' = InView(MapOf(me.path), new.key, new.pc = "answered", new.answer)
      BY <1>2, <1>3, <1>5, SessionParts, SessionNext
    <2>2. MapOf(me.path) # None
      BY <1>5, WholeFacts, MappingOfSource DEF InSession
    <2> QED
      BY <1>1, <1>5, <2>1, <2>2
  <1> QED
    BY <1>4, <1>5

-------------------------------------------------------------------------------
(* The atomic service: what each action of a reader is there *)

LEMMA OpenFileServed ==
  ASSUME SystemInv, NEW r \in Readers, NEW p \in Paths, OpenFile(r, p), UNCHANGED vars
  PROVE  [Service!Next]_<<Published, Session>>
  <1> DEFINE me == [NoStore EXCEPT !.pc = "mapped", !.path = p, !.len = files[p].size]
  <1>1. reader' = [reader EXCEPT ![r] = me] /\ reader[r].pc = "closed" /\ me.pc = "mapped"
    BY DEF OpenFile, NoStore
  <1> HIDE DEF me
  <1>2. reader'[r] = me /\ \A q \in Readers \ {r} : reader'[q] = reader[q]
    BY <1>1 DEF SystemInv
  <1> QED
    BY <1>1, <1>2, OutsideServed DEF Opened

LEMMA ParseHeaderServed ==
  ASSUME SystemInv, NEW r \in Readers, ParseHeader(r), UNCHANGED vars
  PROVE  [Service!Next]_<<Published, Session>>
  <1> DEFINE new == [reader[r] EXCEPT !.pc = "parsed",
                                      !.header = parse(files[reader[r].path].page)]
  <1>1. reader[r].pc = "mapped" /\ ReaderInv(reader[r])
    BY DEF ParseHeader, SystemInv
  <1>2. new.pc = "parsed"
    <2>1. DOMAIN reader[r] = StoreFields
      BY <1>1 DEF ReaderInv
    <2> QED
      BY <2>1 DEF StoreFields
  <1>3. \/ reader' = [reader EXCEPT ![r] = [NoStore EXCEPT !.pc = "dead"]]
        \/ reader' = [reader EXCEPT ![r] = NoStore]
        \/ reader' = [reader EXCEPT ![r] = new]
    BY DEF ParseHeader, Die, SystemInv
  <1> HIDE DEF new
  <1>4. reader'[r].pc \notin Opened /\ \A q \in Readers \ {r} : reader'[q] = reader[q]
    BY <1>2, <1>3 DEF SystemInv, NoStore, Opened
  <1> QED
    BY <1>1, <1>4, OutsideServed DEF Opened

\* A store whose header was read whole is the opening of a session.
LEMMA LoadIndexServed ==
  ASSUME SystemInv, NEW r \in Readers, LoadIndex(r), UNCHANGED vars
  PROVE  [Service!Next]_<<Published, Session>>
  <1> DEFINE me == reader[r]
             new == [me EXCEPT !.pc = "ready", !.mphf = deserialize(files[me.path].index)]
  <1>1. me.pc = "parsed" /\ ReaderInv(me) /\ me.path \in Paths
        /\ me.key = None /\ me.answer = None
    BY DEF LoadIndex, SystemInv, ReaderInv, LookupInv
  <1>2. /\ new.pc = "ready" /\ new.path = me.path /\ new.header = me.header
        /\ new.key = me.key /\ new.answer = me.answer
    <2>1. DOMAIN me = StoreFields
      BY <1>1 DEF ReaderInv
    <2> HIDE DEF me
    <2> QED
      BY <2>1 DEF StoreFields
  <1>3. \/ reader' = [reader EXCEPT ![r] = [NoStore EXCEPT !.pc = "dead"]]
        \/ reader' = [reader EXCEPT ![r] = NoStore]
        \/ reader' = [reader EXCEPT ![r] = new]
    BY DEF LoadIndex, Die, SystemInv
  <1> HIDE DEF new
  <1>4. ~InSession(me)
    BY <1>1 DEF InSession, Opened
  <1>5. \A q \in Readers \ {r} : reader'[q] = reader[q]
    BY <1>3 DEF SystemInv
  <1>6. CASE reader'[r] = new /\ Whole(me.path, me.header)
    <2>1. Published[me.path] = MapOf(me.path) /\ MapOf(me.path) # None
      BY <1>1, <1>6, WholeFacts, MappingOfSource
    <2>2. SessionOf(r) = InView(None, None, FALSE, None)
      BY <1>4, SessionParts
    <2>3. SessionOf(r)' = InView(MapOf(me.path), None, FALSE, None)
      <3>1. InSession(new) /\ ~(new.pc = "answered")
        BY <1>2, <1>6 DEF InSession, Opened
      <3>2. SessionOf(r)' = InView(MapOf(new.path), new.key, new.pc = "answered", new.answer)
        BY <1>6, <3>1, SessionNext
      <3> QED
        BY <1>1, <1>2, <3>1, <3>2
    <2>4. InView(None, None, FALSE, None) = Service!NoSession
      BY DEF InView, Service!NoSession
    <2>5. SessionOf(r)' = InView(Published[me.path], None, FALSE, None)
      BY <2>1, <2>3
    <2> HIDE DEF Published
    <2>6. \E p \in Paths : /\ Published[p] # None
                           /\ SessionOf(r)' = InView(Published[p], None, FALSE, None)
      BY <1>1, <2>1, <2>5
    <2> QED
      BY <1>5, <2>2, <2>4, <2>6, SessionServed
  <1>7. CASE ~(reader'[r] = new /\ Whole(me.path, me.header))
    <2>1. ~InSession(reader'[r])
      <3>1. CASE reader'[r] = new
        BY <1>2, <1>7, <3>1 DEF InSession
      <3>2. CASE reader'[r].pc \notin Opened
        BY <3>2 DEF InSession
      <3> QED
        BY <1>3, <3>1, <3>2 DEF SystemInv, NoStore, Opened
    <2>2. SessionOf(r) = InView(None, None, FALSE, None) /\ SessionOf(r)' = SessionOf(r)
      BY <1>4, <2>1, SessionParts, SessionNext
    <2> QED
      BY <1>5, <2>2, SessionServed
  <1> QED
    BY <1>6, <1>7

\* A key without a slot was not given; any other is looked up.
LEMMA GetServed ==
  ASSUME SystemInv, NEW r \in Readers, NEW key \in Keys, Get(r, key), UNCHANGED vars
  PROVE  [Service!Next]_<<Published, Session>>
  <1> DEFINE me == reader[r]
             s == source[me.path]
             slot == mphf_get(me.mphf, key)
             found == IF slot = None \/ slot >= me.header.record_count
                        THEN "answered" ELSE "record"
             new == [me EXCEPT !.pc = found, !.key = key]
  <1>1. /\ me.pc = "ready" /\ ReaderInv(me) /\ me.pc \in Opened
        /\ me.key = None /\ me.answer = None
    BY DEF SystemInv, Get, ReaderInv, LookupInv, Opened
  <1>2. reader' = [reader EXCEPT ![r] = new]
    BY DEF Get, SystemInv
  <1>3. /\ new.pc = found /\ new.path = me.path /\ new.header = me.header
        /\ new.key = key /\ new.answer = me.answer
    <2>1. DOMAIN me = StoreFields
      BY <1>1 DEF ReaderInv
    <2> HIDE DEF me, found
    <2> QED
      BY <2>1 DEF StoreFields
  <1>4. found \in Opened
    BY DEF Opened
  <1> HIDE DEF new
  <1>5. CASE ~InSession(me)
    BY <1>1, <1>2, <1>3, <1>4, <1>5, LookupServed
  <1>6. CASE InSession(me)
    <2> DEFINE view == MapOf(me.path)
               no == FALSE
    <2>1. /\ \A q \in Readers \ {r} : reader'[q] = reader[q]
          /\ view # None
          /\ SessionOf(r) = InView(view, me.key, me.pc = "answered", me.answer)
          /\ SessionOf(r)' = InView(view, new.key, new.pc = "answered", new.answer)
      BY <1>1, <1>2, <1>3, <1>4, <1>6, LookupServed
    <2>2. SessionOf(r) = InView(view, None, no, None)
      BY <1>1, <2>1
    <2>3. CASE found = "record"
      <3>1. SessionOf(r)' = InView(view, key, no, None)
        BY <1>1, <1>3, <2>1, <2>3
      <3> HIDE DEF no, view
      <3> QED
        BY <2>1, <2>2, <3>1, SessionServed
    <2>4. CASE found = "answered"
      <3>1. SessionOf(r)' = InView(view, key, TRUE, None)
        BY <1>1, <1>3, <2>1, <2>4
      <3>2. key \notin DOMAIN view
        <4>1. /\ SourceOK(s) /\ me.mphf = s.mphf /\ me.header.record_count = Len(s.keys)
              /\ view = Mapping(s)
          BY <1>1, <1>6, OpenedFacts, WholeFacts DEF InSession
        <4>2. slot = None
          <5>1. CASE slot # None
            <6>1. slot \in 0..Len(s.keys)-1
              BY <4>1, <5>1, SlotTaken
            <6>2. Len(s.keys) \in Nat
              BY <4>1 DEF SourceOK
            <6> HIDE DEF slot, s
            <6>3. ~(slot >= me.header.record_count)
              BY <4>1, <6>1, <6>2
            <6> QED
              BY <2>4, <5>1, <6>3
          <5> QED
            BY <5>1
        <4>3. \A i \in 1..Len(s.keys) : mphf_get(s.mphf, s.keys[i]) # None
          BY <4>1, PerfectSlots, NoneAssumption DEF SourceOK
        <4> QED
          BY <4>1, <4>2, <4>3, MappingOfSource
      <3> HIDE DEF no, view
      <3> QED
        BY <2>1, <2>2, <3>1, <3>2, SessionServed
    <2> QED
      BY <2>3, <2>4
  <1> QED
    BY <1>5, <1>6

\* Another key's record answers that the key is not there.
LEMMA CompareKeyServed ==
  ASSUME SystemInv, NEW r \in Readers, CompareKey(r), UNCHANGED vars
  PROVE  [Service!Next]_<<Published, Session>>
  <1> DEFINE me == reader[r]
             record == RecordAt(me, files[me.path])
             found == IF key_equals(record, me.key) THEN "value" ELSE "answered"
             new == [me EXCEPT !.pc = found]
  <1>1. /\ me.pc = "record" /\ ReaderInv(me) /\ me.pc \in Opened
        /\ me.key \in Keys /\ me.key # None /\ me.answer = None
    BY AbsentAssumption DEF SystemInv, CompareKey, ReaderInv, LookupInv, Opened
  <1>2. reader' = [reader EXCEPT ![r] = new]
    BY CompareKeyStep
  <1>3. /\ new.pc = found /\ new.path = me.path /\ new.header = me.header
        /\ new.key = me.key /\ new.answer = me.answer
    <2>1. DOMAIN me = StoreFields
      BY <1>1 DEF ReaderInv
    <2> HIDE DEF me, found
    <2> QED
      BY <2>1 DEF StoreFields
  <1>4. found \in Opened
    BY DEF Opened
  <1> HIDE DEF new
  <1>5. CASE ~InSession(me)
    BY <1>1, <1>2, <1>3, <1>4, <1>5, LookupServed
  <1>6. CASE InSession(me)
    <2> DEFINE view == MapOf(me.path)
               no == FALSE
    <2>1. /\ \A q \in Readers \ {r} : reader'[q] = reader[q]
          /\ view # None
          /\ SessionOf(r) = InView(view, me.key, me.pc = "answered", me.answer)
          /\ SessionOf(r)' = InView(view, new.key, new.pc = "answered", new.answer)
      BY <1>1, <1>2, <1>3, <1>4, <1>6, LookupServed
    <2>2. SessionOf(r) = InView(view, me.key, no, None)
      BY <1>1, <2>1
    <2>3. CASE key_equals(record, me.key)
      <3>1. SessionOf(r)' = InView(view, me.key, no, None)
        BY <1>1, <1>3, <2>1, <2>3
      <3>2. SessionOf(r)' = SessionOf(r)
        BY <2>2, <3>1
      <3>3. /\ Published' = Published
            /\ Session' = [Session EXCEPT ![r] = Session[r]]
        BY <2>1, <3>2, OneSession
      <3>4. Session' = Session
        BY <3>3 DEF Session
      <3> QED
        BY <3>3, <3>4
    <2>4. CASE ~key_equals(record, me.key)
      <3>1. SessionOf(r)' = InView(view, me.key, TRUE, None)
        BY <1>1, <1>3, <2>1, <2>4
      <3>2. Service!Lookup(view, me.key) = None
        BY <1>1, <1>6, <2>4, WholeRecord
      <3>3. ~no
        OBVIOUS
      <3> HIDE DEF no, view
      <3> QED
        BY <1>1, <2>1, <2>2, <3>1, <3>2, <3>3, SessionServed
    <2> QED
      BY <2>3, <2>4
  <1> QED
    BY <1>5, <1>6

\* A record of the key answers its value.
LEMMA CopyValueServed ==
  ASSUME SystemInv, NEW r \in Readers, CopyValue(r), UNCHANGED vars
  PROVE  [Service!Next]_<<Published, Session>>
  <1> DEFINE me == reader[r]
             record == RecordAt(me, files[me.path])
             new == [me EXCEPT !.pc = "answered", !.answer = record.value]
  <1>1. /\ me.pc = "value" /\ ReaderInv(me) /\ me.pc \in Opened
        /\ me.key # None /\ me.answer = None
        /\ me.header.data_offset # 0 => key_equals(record, me.key)
    BY AbsentAssumption DEF SystemInv, CopyValue, ReaderInv, LookupInv, Opened
  <1>2. reader' = [reader EXCEPT ![r] = new]
    BY CopyValueStep
  <1>3. /\ new.pc = "answered" /\ new.path = me.path /\ new.header = me.header
        /\ new.key = me.key /\ new.answer = record.value
    <2>1. DOMAIN me = StoreFields
      BY <1>1 DEF ReaderInv
    <2> HIDE DEF me, record
    <2> QED
      BY <2>1 DEF StoreFields
  <1>4. new.pc \in Opened
    BY <1>3 DEF Opened
  <1> HIDE DEF new
  <1>5. CASE ~InSession(me)
    BY <1>1, <1>2, <1>3, <1>4, <1>5, LookupServed
  <1>6. CASE InSession(me)
    <2> DEFINE view == MapOf(me.path)
               no == FALSE
    <2>1. /\ \A q \in Readers \ {r} : reader'[q] = reader[q]
          /\ view # None
          /\ SessionOf(r) = InView(view, me.key, me.pc = "answered", me.answer)
          /\ SessionOf(r)' = InView(view, new.key, new.pc = "answered", new.answer)
      BY <1>1, <1>2, <1>3, <1>4, <1>6, LookupServed
    <2>2. SessionOf(r) = InView(view, me.key, no, None)
      BY <1>1, <2>1
    <2>3. SessionOf(r)' = InView(view, me.key, TRUE, record.value)
      BY <1>3, <2>1
    <2>7. key_equals(record, me.key)
      <3>1. me.header.data_offset = source[me.path].header.data_offset /\ SourceOK(source[me.path])
        BY <1>1, <1>6, WholeFacts DEF InSession
      <3>2. me.header.data_offset # 0
        BY <3>1, Layout DEF HEADER_SIZE
      <3> QED
        BY <1>1, <3>2
    <2>4. Service!Lookup(view, me.key) = record.value
      BY <1>1, <1>6, <2>7, WholeRecord
    <2>5. SessionOf(r)' = InView(view, me.key, TRUE, Service!Lookup(view, me.key))
      BY <2>3, <2>4
    <2>6. ~no
      OBVIOUS
    <2> HIDE DEF no, view, record, me
    <2> QED
      BY <1>1, <2>1, <2>2, <2>5, <2>6, SessionServed
  <1> QED
    BY <1>5, <1>6

LEMMA ReturnServed ==
  ASSUME SystemInv, NEW r \in Readers, Return(r), UNCHANGED vars
  PROVE  [Service!Next]_<<Published, Session>>
  <1> DEFINE me == reader[r]
             new == [me EXCEPT !.pc = "ready", !.key = None, !.answer = None]
  <1>1. me.pc = "answered" /\ ReaderInv(me) /\ me.pc \in Opened
    BY DEF SystemInv, Return, Opened
  <1>2. reader' = [reader EXCEPT ![r] = new]
    BY DEF Return, SystemInv
  <1>3. /\ new.pc = "ready" /\ new.path = me.path /\ new.header = me.header
        /\ new.key = None /\ new.answer = None
    <2>1. DOMAIN me = StoreFields
      BY <1>1 DEF ReaderInv
    <2> HIDE DEF me
    <2> QED
      BY <2>1 DEF StoreFields
  <1>4. new.pc \in Opened
    BY <1>3 DEF Opened
  <1> HIDE DEF new
  <1>5. CASE ~InSession(me)
    BY <1>1, <1>2, <1>3, <1>4, <1>5, LookupServed
  <1>6. CASE InSession(me)
    <2> DEFINE view == MapOf(me.path)
               answered == TRUE
    <2>1. /\ \A q \in Readers \ {r} : reader'[q] = reader[q]
          /\ SessionOf(r) = InView(view, me.key, me.pc = "answered", me.answer)
          /\ SessionOf(r)' = InView(view, new.key, new.pc = "answered", new.answer)
      BY <1>1, <1>2, <1>3, <1>4, <1>6, LookupServed
    <2>2. SessionOf(r) = InView(view, me.key, answered, me.answer) /\ answered
      BY <1>1, <2>1
    <2>3. SessionOf(r)' = InView(view, None, FALSE, None)
      BY <1>3, <2>1
    <2> HIDE DEF view, answered
    <2> QED
      BY <2>1, <2>2, <2>3, SessionServed
  <1> QED
    BY <1>5, <1>6

LEMMA CloseServed ==
  ASSUME SystemInv, NEW r \in Readers, Close(r), UNCHANGED vars
  PROVE  [Service!Next]_<<Published, Session>>
  <1> DEFINE me == reader[r]
             no == FALSE
             view == MapOf(me.path)
  <1>1. /\ me.pc = "ready" /\ me.pc \in Opened /\ me.key = None /\ me.answer = None
        /\ reader' = [reader EXCEPT ![r] = NoStore]
    BY DEF SystemInv, Close, ReaderInv, LookupInv, Opened
  <1>2. reader'[r] = NoStore /\ \A q \in Readers \ {r} : reader'[q] = reader[q]
    BY <1>1 DEF SystemInv
  <1>3. ~InSession(NoStore)
    BY DEF InSession, NoStore, Opened
  <1>4. SessionOf(r)' = InView(None, None, no, None)
    BY <1>2, <1>3, SessionNext
  <1>5. CASE ~InSession(me)
    <2>1. SessionOf(r) = InView(None, None, no, None)
      BY <1>5, SessionParts
    <2> HIDE DEF no
    <2> QED
      BY <1>2, <1>4, <2>1, SessionServed
  <1>6. CASE InSession(me)
    <2>1. SessionOf(r) = InView(view, None, no, None)
      BY <1>1, <1>6, SessionParts
    <2>2. view # None
      BY <1>1, <1>6, WholeFacts, MappingOfSource DEF InSession
    <2>3. Service!NoSession = InView(None, None, no, None)
      BY DEF Service!NoSession, InView
    <2> HIDE DEF no, view
    <2> QED
      BY <1>2, <1>4, <2>1, <2>2, <2>3, SessionServed
  <1> QED
    BY <1>5, <1>6

\* Every step of builder and readers is a step of the service, or none.
LEMMA SystemServed ==
  ASSUME ~InPlace, SystemInv, [SystemNext]_<<vars, reader>>
  PROVE  [Service!Next]_<<Published, Session>>
  <1>1. ASSUME UNCHANGED <<vars, reader>>
        PROVE  [Service!Next]_<<Published, Session>>
    <2>1. files' = files /\ source' = source /\ reader' = reader
      BY <1>1 DEF vars, history
    <2>2. Published' = Published /\ Session' = Session
      BY <2>1 DEF Published, Session, SessionOf, InSession, Whole, MapOf
    <2> QED
      BY <2>2
  <1>2. CASE BuilderStep
    BY <1>2, BuilderServed
  <1>3. CASE StoreStep
    <2>1. UNCHANGED vars
      BY <1>3, StoreStepKeeps
    <2>2. PICK r \in Readers :
            \/ \E p \in Paths : (OpenUnfinished \/ built[p]) /\ OpenFile(r, p)
            \/ ReaderStep(r)
      BY <1>3 DEF StoreStep
    <2>3. CASE \E p \in Paths : (OpenUnfinished \/ built[p]) /\ OpenFile(r, p)
      BY <2>1, <2>3, OpenFileServed
    <2>4. CASE Preload(r)
      BY <1>1, <2>1, <2>4, PreloadAlive
    <2>5. CASE \E key \in Keys : Get(r, key)
      BY <2>1, <2>5, GetServed
    <2> QED
      BY <2>1, <2>2, <2>3, <2>4, <2>5, ParseHeaderServed, LoadIndexServed, CompareKeyServed,
         CopyValueServed, ReturnServed, CloseServed DEF ReaderStep
  <1> QED
    BY <1>1, <1>2, <1>3 DEF SystemNext

LEMMA InitServed == SystemInit => Service!Init
  <1> SUFFICES ASSUME SystemInit PROVE Service!Init
    OBVIOUS
  <1>1. \A p \in Paths : Published[p] = None
    <2>1. \A p \in Paths : files[p].page = ZeroPage
      BY DEF SystemInit, Init, NoFile, ZeroFile
    <2> QED
      BY <2>1, BlankNotWhole DEF Published
  <1>2. Published = [p \in Paths |-> None]
    BY <1>1 DEF Published
  <1>3. \A r \in Readers : SessionOf(r) = Service!NoSession
    <2>1. \A r \in Readers : ~InSession(reader[r])
      BY DEF SystemInit, ReaderInit, NoStore, InSession, Opened
    <2> QED
      BY <2>1 DEF SessionOf, Service!NoSession
  <1>4. Session = [r \in Readers |-> Service!NoSession]
    BY <1>3 DEF Session
  <1> QED
    BY <1>2, <1>4, ServiceState

\* Builder and readers together implement the atomic snapshot service: a snapshot
\* appears at once, with the last word of its header, and every lookup of a process
\* that has read that header whole answers what the snapshot's build was given.
THEOREM ServiceImplemented ==
  ASSUME ~InPlace
  PROVE  SystemSpec => ImplementsService
  <1>1. SystemInv /\ [SystemNext]_<<vars, reader>> => [Service!Next]_<<Published, Session>>
    BY SystemServed
  <1> QED
    BY <1>1, InitServed, SystemInductive, PTL
    DEF SystemSpec, ImplementsService, Service!Spec

===============================================================================
