------------------------ MODULE SnapshotBuilder_proofs ------------------------
(***************************************************************************)
(* SnapshotBuilder's properties for every set of keys and values, every    *)
(* number of records, every index size and every number of builds.         *)
(***************************************************************************)
EXTENDS SnapshotBuilderInv, TLAPS

-------------------------------------------------------------------------------
(* The arithmetic of the layout, for sizes that fit into the address space *)

\* A sum that fits into 64 bits is not changed by wrapping.
LEMMA ModSmall ==
  ASSUME NEW a \in Nat, NEW b \in Nat, a < b
  PROVE  a % b = a
  BY SMT

\* align_to_4k (header.rs) rounds up, by less than a page, to a multiple of
\* 4096, unless the addition wraps.
THEOREM AlignUp ==
  ASSUME NEW v \in Nat, v + 4095 < U64
  PROVE  /\ align_to_4k(v) \in Nat
         /\ align_to_4k(v) >= v
         /\ align_to_4k(v) <= v + 4095
         /\ align_to_4k(v) % 4096 = 0
  <1>1. (v + 4095) % U64 = v + 4095
    BY ModSmall, FormatAssumption
  <1>2. align_to_4k(v) = (v + 4095) - ((v + 4095) % 4096)
    BY <1>1 DEF align_to_4k
  <1> QED
    BY <1>2, SMT

\* The slots of a snapshot (get_record in store.rs, the loop in builder.rs) are
\* disjoint 320-byte ranges between the data offset and the end of the file.
THEOREM SlotsDisjoint ==
  ASSUME NEW offset \in Nat, NEW n \in Nat, offset + n * RECORD_SIZE < U64,
         NEW i \in 0..n-1, NEW j \in 0..n-1
  PROVE  /\ record_offset(offset, i) \in offset..offset + n * RECORD_SIZE - RECORD_SIZE
         /\ record_offset(offset, i) = record_offset(offset, j) => i = j
         /\ i < j => record_offset(offset, i) + RECORD_SIZE <= record_offset(offset, j)
  <1>1. /\ record_offset(offset, i) = offset + i * RECORD_SIZE
        /\ record_offset(offset, j) = offset + j * RECORD_SIZE
    <2>1. /\ offset + i * RECORD_SIZE \in Nat /\ offset + i * RECORD_SIZE < U64
          /\ offset + j * RECORD_SIZE \in Nat /\ offset + j * RECORD_SIZE < U64
      BY FormatAssumption DEF RECORD_SIZE, KEY_SIZE, VALUE_SIZE
    <2> QED
      BY <2>1, ModSmall, FormatAssumption DEF record_offset
  <1> QED
    BY <1>1 DEF RECORD_SIZE, KEY_SIZE, VALUE_SIZE

\* Header::from_bytes reads back what Header::to_bytes wrote.
THEOREM HeaderRoundTrip ==
  ASSUME NEW n, NEW len, NEW t, NEW sum,
         NEW h, h = [new_header(n, len, t) EXCEPT !.checksum = sum]
  PROVE  parse(to_bytes(h)) = h
  BY DEF parse, to_bytes, new_header, FieldOffsets

-------------------------------------------------------------------------------
(* The index and the layout *)

\* The index of a key vector sends its keys one to one onto the slots below
\* their number, and any other key to one of these slots or to none.
LEMMA PerfectSlots ==
  ASSUME NEW ks \in Seq(Keys), NEW m \in build_mphf(ks)
  PROVE  /\ m.key_count = Len(ks)
         /\ m.function \in [Keys -> (0..Len(ks)-1) \cup {None}]
         /\ \A k \in Keys : mphf_get(m, k) = m.function[k]
         /\ \A i \in 1..Len(ks) : mphf_get(m, ks[i]) \in 0..Len(ks)-1
         /\ \A i, j \in 1..Len(ks) : mphf_get(m, ks[i]) = mphf_get(m, ks[j]) => i = j
         /\ \A k \in Keys : mphf_get(m, k) # None =>
              \E i \in 1..Len(ks) : mphf_get(m, ks[i]) = mphf_get(m, k)
  <1> DEFINE n == Len(ks)
  <1>1. PICK f \in GOFunctions(ks) : m = [function |-> f, key_count |-> n]
    BY DEF build_mphf
  <1>2. /\ f \in [Keys -> (0..n-1) \cup {None}]
        /\ \A i, j \in 1..n : f[ks[i]] = f[ks[j]] => i = j
        /\ \A s \in 0..n-1 : \E i \in 1..n : f[ks[i]] = s
        /\ \A i \in 1..n : f[ks[i]] # None
    BY <1>1 DEF GOFunctions
  <1>3. n \in Nat
    OBVIOUS
  <1>4. \A i \in 1..n : ks[i] \in Keys
    OBVIOUS
  <1>5. \A k \in Keys : mphf_get(m, k) = f[k]
    <2> SUFFICES ASSUME NEW k \in Keys PROVE mphf_get(m, k) = f[k]
      OBVIOUS
    <2>1. f[k] = None \/ f[k] \in 0..n-1
      BY <1>2
    <2> QED
      BY <1>1, <1>3, <2>1 DEF mphf_get
  <1>6. /\ m.key_count = n
        /\ m.function = f
    BY <1>1
  <1>7. \A i \in 1..n : mphf_get(m, ks[i]) = f[ks[i]] /\ f[ks[i]] \in 0..n-1
    BY <1>2, <1>4, <1>5
  <1>8. \A k \in Keys : mphf_get(m, k) # None =>
          \E i \in 1..n : mphf_get(m, ks[i]) = mphf_get(m, k)
    <2> SUFFICES ASSUME NEW k \in Keys, mphf_get(m, k) # None
                 PROVE  \E i \in 1..n : mphf_get(m, ks[i]) = mphf_get(m, k)
      OBVIOUS
    <2>1. f[k] \in 0..n-1
      BY <1>2, <1>5
    <2>2. PICK i \in 1..n : f[ks[i]] = f[k]
      BY <1>2, <2>1
    <2> QED
      BY <1>5, <1>7, <2>2
  <1>9. \A i, j \in 1..n : mphf_get(m, ks[i]) = mphf_get(m, ks[j]) => i = j
    BY <1>2, <1>7
  <1> QED
    BY <1>2, <1>5, <1>6, <1>7, <1>8, <1>9

\* The fields of the header that build makes for a source, and the length of
\* its file: nothing overlaps and nothing wraps.
LEMMA Layout ==
  ASSUME NEW s, SourceOK(s)
  PROVE  /\ Len(s.keys) \in Nat \ {0}
         /\ s.header.magic = MAGIC_NUMBER
         /\ s.header.version = FORMAT_VERSION
         /\ s.header.record_count = Len(s.keys)
         /\ s.header.mphf_size \in Nat
         /\ s.header.mphf_size >= 8
         /\ s.header.data_offset \in Nat
         /\ s.header.data_offset >= HEADER_SIZE + s.header.mphf_size
         /\ s.header.data_offset + Len(s.keys) * RECORD_SIZE < U64
         /\ total_size(s.header) = s.header.data_offset + Len(s.keys) * RECORD_SIZE
  <1> DEFINE n == Len(s.keys)
  <1>1. n \in 1..MaxRecords /\ n \in Nat \ {0}
    BY BuilderAssumption DEF SourceOK
  <1>2. PICK len \in MphfLens, t \in Timestamps : s.header = new_header(n, len, t)
    BY DEF SourceOK, Headers
  <1>3. len \in Nat /\ len >= 8 /\ len + MaxRecords * RECORD_SIZE + 8192 < U64
    BY BuilderAssumption
  <1>4. n * RECORD_SIZE <= MaxRecords * RECORD_SIZE /\ MaxRecords * RECORD_SIZE \in Nat
    BY <1>1, BuilderAssumption DEF RECORD_SIZE, KEY_SIZE, VALUE_SIZE
  <1>5. /\ s.header.magic = MAGIC_NUMBER
        /\ s.header.version = FORMAT_VERSION
        /\ s.header.record_count = n
        /\ s.header.mphf_size = len
        /\ s.header.data_offset = align_to_4k((HEADER_SIZE + len) % U64)
    BY <1>2 DEF new_header
  <1>6. (HEADER_SIZE + len) % U64 = HEADER_SIZE + len
    BY <1>3, <1>4, ModSmall, FormatAssumption DEF HEADER_SIZE
  <1>7. /\ s.header.data_offset \in Nat
        /\ s.header.data_offset >= HEADER_SIZE + len
        /\ s.header.data_offset <= HEADER_SIZE + len + 4095
    <2>1. HEADER_SIZE + len \in Nat /\ HEADER_SIZE + len + 4095 < U64
      BY <1>3, <1>4, FormatAssumption DEF HEADER_SIZE
    <2> QED
      BY <2>1, <1>5, <1>6, AlignUp
  <1>8. s.header.data_offset + n * RECORD_SIZE \in Nat
        /\ s.header.data_offset + n * RECORD_SIZE < U64
    BY <1>1, <1>3, <1>4, <1>7, FormatAssumption DEF HEADER_SIZE, RECORD_SIZE, KEY_SIZE, VALUE_SIZE
  <1>9. total_size(s.header) = s.header.data_offset + n * RECORD_SIZE
    BY <1>5, <1>8, ModSmall, FormatAssumption DEF total_size
  <1> QED
    BY <1>1, <1>3, <1>5, <1>7, <1>8, <1>9

\* The records of a source lie above its index, inside its file, each at a
\* place of its own.
LEMMA Offsets ==
  ASSUME NEW s, SourceOK(s)
  PROVE  /\ \A i \in 1..Len(s.keys) :
              /\ mphf_get(s.mphf, s.keys[i]) # None
              /\ Offset(s, i) \in Nat
              /\ Offset(s, i) >= HEADER_SIZE + s.header.mphf_size
              /\ Offset(s, i) \in HEADER_SIZE..total_size(s.header) - RECORD_SIZE
         /\ \A i, j \in 1..Len(s.keys) : Offset(s, i) = Offset(s, j) => i = j
  <1> DEFINE n == Len(s.keys)
             off == s.header.data_offset
             slot(i) == mphf_get(s.mphf, s.keys[i])
  <1>1. s.keys \in Seq(Keys) /\ s.mphf \in build_mphf(s.keys)
    BY DEF SourceOK
  <1>2. /\ \A i \in 1..n : slot(i) \in 0..n-1
        /\ \A i, j \in 1..n : slot(i) = slot(j) => i = j
    BY <1>1, PerfectSlots
  <1>3. /\ n \in Nat /\ off \in Nat /\ off + n * RECORD_SIZE < U64
        /\ s.header.mphf_size \in Nat
        /\ off >= HEADER_SIZE + s.header.mphf_size
        /\ total_size(s.header) = off + n * RECORD_SIZE
    BY Layout
  <1>4. \A i, j \in 1..n :
          /\ Offset(s, i) \in off..off + n * RECORD_SIZE - RECORD_SIZE
          /\ Offset(s, i) = Offset(s, j) => slot(i) = slot(j)
    <2> SUFFICES ASSUME NEW i \in 1..n, NEW j \in 1..n
                 PROVE  /\ Offset(s, i) \in off..off + n * RECORD_SIZE - RECORD_SIZE
                        /\ Offset(s, i) = Offset(s, j) => slot(i) = slot(j)
      OBVIOUS
    <2>1. slot(i) \in 0..n-1 /\ slot(j) \in 0..n-1
      BY <1>2
    <2> QED
      BY <2>1, <1>3, SlotsDisjoint DEF Offset
  <1>5. \A i \in 1..n : slot(i) # None
    BY <1>2, NoneAssumption
  <1>6. \A i \in 1..n :
          /\ Offset(s, i) \in Nat
          /\ Offset(s, i) >= HEADER_SIZE + s.header.mphf_size
          /\ Offset(s, i) \in HEADER_SIZE..total_size(s.header) - RECORD_SIZE
    <2> TAKE i \in 1..n
    <2> DEFINE end == n * RECORD_SIZE
    <2>1. Offset(s, i) \in off..off + end - RECORD_SIZE
      BY <1>4
    <2>2. end \in Int /\ RECORD_SIZE \in Int /\ HEADER_SIZE \in Nat
      BY <1>3 DEF HEADER_SIZE, RECORD_SIZE, KEY_SIZE, VALUE_SIZE
    <2> HIDE DEF end
    <2>3. total_size(s.header) = off + end
      BY <1>3 DEF end
    <2>4. off \in Nat /\ s.header.mphf_size \in Nat /\ off >= HEADER_SIZE + s.header.mphf_size
      BY <1>3
    <2> HIDE DEF off, n
    <2> QED
      BY <2>1, <2>2, <2>3, <2>4
  <1> QED
    BY <1>2, <1>4, <1>5, <1>6

\* No two of them overlap.
LEMMA OffsetsApart ==
  ASSUME NEW s, SourceOK(s), NEW i \in 1..Len(s.keys), NEW j \in 1..Len(s.keys), i # j
  PROVE  \/ Offset(s, i) + RECORD_SIZE <= Offset(s, j)
         \/ Offset(s, j) + RECORD_SIZE <= Offset(s, i)
  <1> DEFINE n == Len(s.keys)
             slot(k) == mphf_get(s.mphf, s.keys[k])
  <1>1. s.keys \in Seq(Keys) /\ s.mphf \in build_mphf(s.keys)
    BY DEF SourceOK
  <1>2. /\ slot(i) \in 0..n-1 /\ slot(j) \in 0..n-1
        /\ slot(i) # slot(j)
    BY <1>1, PerfectSlots
  <1>3. n \in Nat /\ s.header.data_offset \in Nat /\ s.header.data_offset + n * RECORD_SIZE < U64
    BY Layout
  <1>4. slot(i) < slot(j) => Offset(s, i) + RECORD_SIZE <= Offset(s, j)
    BY <1>2, <1>3, SlotsDisjoint DEF Offset
  <1>5. slot(j) < slot(i) => Offset(s, j) + RECORD_SIZE <= Offset(s, i)
    BY <1>2, <1>3, SlotsDisjoint DEF Offset
  <1> HIDE DEF slot
  <1>6. slot(i) < slot(j) \/ slot(j) < slot(i)
    BY <1>2, <1>3
  <1> QED
    BY <1>4, <1>5, <1>6

-------------------------------------------------------------------------------
(* Steps that leave the files alone *)

\* What FilesInv says depends on the files and the histories only.
LEMMA FilesInvUnchanged ==
  ASSUME FilesInv, files' = files, source' = source, built' = built
  PROVE  FilesInv'
  BY DEF FilesInv

\* A halted build keeps its memory, and its files stay.
LEMMA HaltStep ==
  ASSUME IInv, NEW outcome \in Ended, Halt(outcome)
  PROVE  IInv'
  <1>1. MemoryInv'
    BY DEF IInv, MemoryInv, Halt, input, history
  <1>2. FilesInv'
    BY FilesInvUnchanged DEF IInv, Halt, history
  <1>3. StepInv'
    BY DEF StepInv, Halt, Ended, Writing
  <1> QED
    BY <1>1, <1>2, <1>3 DEF IInv

LEMMA InitInv == Init => IInv
  <1> SUFFICES ASSUME Init PROVE IInv
    OBVIOUS
  <1>1. MemoryInv
    BY BuilderAssumption DEF Init, MemoryInv
  <1>2. FilesInv
    BY DEF Init, FilesInv
  <1>3. StepInv
    BY DEF Init, StepInv, Writing
  <1> QED
    BY <1>1, <1>2, <1>3 DEF IInv

LEMMA StartStep ==
  ASSUME IInv, NEW p \in Paths, Start(p)
  PROVE  IInv'
  <1>1. MemoryInv'
    BY BuilderAssumption DEF IInv, MemoryInv, Start, history, Steps
  <1>2. FilesInv'
    BY FilesInvUnchanged DEF IInv, Start, history
  <1>3. StepInv'
    BY DEF StepInv, Start, Writing
  <1> QED
    BY <1>1, <1>2, <1>3 DEF IInv

LEMMA AddRecordStep ==
  ASSUME IInv, NEW key \in Keys, NEW value \in Values, add_record(key, value)
  PROVE  IInv'
  <1>1. MemoryInv'
    <2>1. /\ keys' \in Seq(Keys) /\ Len(keys') = Len(keys) + 1
          /\ values' \in Seq(Values) /\ Len(values') = Len(values) + 1
      BY DEF IInv, MemoryInv, add_record
    <2>2. Len(keys') <= MaxRecords
      BY <2>1, BuilderAssumption DEF IInv, MemoryInv, add_record
    <2> QED
      BY <2>1, <2>2 DEF IInv, MemoryInv, add_record, history
  <1>2. FilesInv'
    BY FilesInvUnchanged DEF IInv, add_record, history
  <1>3. StepInv'
    BY DEF IInv, StepInv, add_record, Writing
  <1> QED
    BY <1>1, <1>2, <1>3 DEF IInv

LEMMA BuildIndexStep ==
  ASSUME IInv, NEW m \in build_mphf(keys), NEW len \in MphfLens, NEW t \in Timestamps,
         BuildIndex(m, len, t)
  PROVE  IInv'
  <1>1. MemoryInv'
    BY DEF IInv, MemoryInv, BuildIndex, input, history, Steps
  <1>2. FilesInv'
    BY FilesInvUnchanged DEF IInv, BuildIndex, history
  <1>3. SourceOK(ThisSource(header)')
    <2>1. Len(keys) \in 1..MaxRecords
      BY BuilderAssumption DEF IInv, MemoryInv, BuildIndex
    <2>2. header' \in Headers(Len(keys))
      BY DEF BuildIndex, Headers
    <2> QED
      BY <2>1, <2>2 DEF IInv, MemoryInv, BuildIndex, input, SourceOK, ThisSource
  <1>4. StepInv'
    BY <1>3 DEF IInv, StepInv, BuildIndex, Writing, ThisSource
  <1> QED
    BY <1>1, <1>2, <1>4 DEF IInv

-------------------------------------------------------------------------------
(* Steps that write the file *)

\* A path that does not exist holds no well-formed file.
LEMMA FileExists ==
  ASSUME NEW file, FileOK(file)
  PROVE  file # NoFile
  BY FormatAssumption DEF FileOK, NoFile, ZeroFile

\* Writing the file of a build that has not returned keeps FilesInv, if the
\* file's header page is still empty or all the rest of it is in place.
LEMMA FilesInvWritten ==
  ASSUME MemoryInv, FilesInv, NEW file,
         files' = [files EXCEPT ![path] = file],
         source' = source, built' = built, ~built[path],
         FileOK(file),
         \/ file.page = ZeroPage
         \/ Complete(source[path], file) /\ PagePartial(source[path], file)
  PROVE  FilesInv' /\ files' = [p \in Paths |-> files'[p]]
  <1>1. files' = [p \in Paths |-> IF p = path THEN file ELSE files[p]]
    BY DEF MemoryInv
  <1>0. file # NoFile
    BY FileExists
  <1>2. ASSUME NEW p \in Paths
        PROVE  /\ files'[p] # NoFile =>
                    /\ FileOK(files'[p])
                    /\ \/ files'[p].page = ZeroPage
                       \/ Complete(source[p], files'[p]) /\ PagePartial(source[p], files'[p])
               /\ built[p] =>
                    /\ files'[p] # NoFile
                    /\ Complete(source[p], files'[p])
                    /\ PageFinal(source[p], files'[p])
    <2>1. CASE p = path
      BY <1>0, <1>1, <2>1
    <2>2. CASE p # path
      <3>1. files'[p] = files[p]
        BY <1>1, <2>2
      <3> QED
        BY <3>1 DEF FilesInv
    <2> QED
      BY <2>1, <2>2
  <1> QED
    BY <1>1, <1>2 DEF FilesInv

\* A file of zeros is well formed.
LEMMA ZeroFileOK ==
  ASSUME NEW size \in 0..U64-1
  PROVE  FileOK(ZeroFile(size)) /\ ZeroFile(size).page = ZeroPage
  BY DEF FileOK, ZeroFile, ZeroPage

\* Blank data holds the first zero records.
LEMMA HoldsNothing ==
  ASSUME NEW s
  PROVE  Holds(s, <<>>, 0)
  BY DEF Holds

LEMMA CreateFileStep ==
  ASSUME IInv, CreateFile
  PROVE  IInv'
  <1> DEFINE file == ZeroFile(0)
             s == ThisSource(header)
  <1>1. FileOK(file) /\ file.page = ZeroPage /\ file # NoFile
    BY ZeroFileOK, FileExists, FormatAssumption
  <1>2. /\ files' = [p \in Paths |-> IF p = path THEN file ELSE files[p]]
        /\ source' = [p \in Paths |-> IF p = path THEN s ELSE source[p]]
        /\ built' = [p \in Paths |-> IF p = path THEN FALSE ELSE built[p]]
        /\ synced' = [p \in Paths |-> IF p = path THEN FALSE ELSE synced[p]]
    BY DEF IInv, MemoryInv, CreateFile, ThisSource
  <1>3. MemoryInv'
    BY <1>2 DEF IInv, MemoryInv, CreateFile, input, Steps
  <1>4. FilesInv'
    <2> SUFFICES ASSUME NEW p \in Paths
                 PROVE  /\ files'[p] # NoFile =>
                             /\ FileOK(files'[p])
                             /\ \/ files'[p].page = ZeroPage
                                \/ /\ Complete(source'[p], files'[p])
                                   /\ PagePartial(source'[p], files'[p])
                        /\ built'[p] =>
                             /\ files'[p] # NoFile
                             /\ Complete(source'[p], files'[p])
                             /\ PageFinal(source'[p], files'[p])
      BY DEF FilesInv
    <2>1. CASE p = path
      BY <1>1, <1>2, <2>1
    <2>2. CASE p # path
      <3>1. files'[p] = files[p] /\ source'[p] = source[p] /\ built'[p] = built[p]
        BY <1>2, <2>2
      <3> QED
        BY <3>1 DEF IInv, FilesInv
    <2> QED
      BY <2>1, <2>2
  <1>5. StepInv'
    <2>1. /\ pc = "create" /\ pc' = "set_len" /\ path' = path /\ path \in Paths
          /\ keys' = keys /\ values' = values /\ mphf' = mphf /\ header' = header
          /\ next' = next /\ next = 1
      BY DEF IInv, MemoryInv, StepInv, CreateFile, input
    <2>2. files'[path] = file /\ source'[path] = s /\ built'[path] = FALSE
      BY <1>2, <2>1
    <2>3. SourceOK(s) /\ s.header = header
      BY <2>1 DEF IInv, StepInv, ThisSource
    <2>4. source'[path] = ThisSource(source[path].header)'
      BY <2>1, <2>2 DEF ThisSource
    <2> QED
      BY <1>1, <2>1, <2>2, <2>3, <2>4 DEF StepInv, Writing
  <1> QED
    BY <1>3, <1>4, <1>5 DEF IInv

LEMMA SetLenStep ==
  ASSUME IInv, SetLen
  PROVE  IInv'
  <1> DEFINE s == source[path]
             file == ZeroFile(total_size(header))
  <1>1. /\ pc = "set_len" /\ pc' = "map" /\ path' = path /\ path \in Paths
        /\ keys' = keys /\ values' = values /\ mphf' = mphf /\ header' = header
        /\ next' = next /\ next = 1 /\ builds' = builds
        /\ source' = source /\ built' = built /\ synced' = synced
    BY DEF IInv, MemoryInv, StepInv, SetLen, input, history
  <1>2. /\ ~built[path] /\ SourceOK(s) /\ s = ThisSource(s.header) /\ header = s.header
    BY <1>1 DEF IInv, StepInv, Writing
  <1>3. total_size(header) \in 0..U64-1
    BY <1>2, Layout, FormatAssumption DEF RECORD_SIZE, KEY_SIZE, VALUE_SIZE
  <1>4. FileOK(file) /\ file.page = ZeroPage /\ file # NoFile
    BY <1>3, ZeroFileOK, FileExists
  <1>0. files' = [files EXCEPT ![path] = file]
    <2>1. files[path] = ZeroFile(0) /\ files = [p \in Paths |-> files[p]]
      BY <1>1 DEF IInv, MemoryInv, StepInv
    <2>2. [files[path] EXCEPT !.size = total_size(header)] = file
      BY <2>1 DEF ZeroFile
    <2> QED
      BY <2>1, <2>2 DEF SetLen
  <1>5. FilesInv' /\ files' = [p \in Paths |-> files'[p]]
    BY <1>0, <1>1, <1>2, <1>4, FilesInvWritten DEF IInv
  <1>6. MemoryInv'
    BY <1>1, <1>5 DEF IInv, MemoryInv, Steps
  <1>7. StepInv'
    <2>1. files'[path] = file
      BY <1>0, <1>1 DEF IInv, MemoryInv
    <2>2. ThisSource(s.header)' = ThisSource(s.header)
      BY <1>1 DEF ThisSource
    <2> QED
      BY <1>1, <1>2, <1>4, <2>1, <2>2 DEF StepInv, Writing, ThisSource
  <1> QED
    BY <1>5, <1>6, <1>7 DEF IInv

\* What holds of a build that writes its file.
LEMMA WritingFacts ==
  ASSUME IInv, pc \in Writing
  PROVE  /\ path \in Paths
         /\ files[path] # NoFile
         /\ FileOK(files[path])
         /\ ~built[path]
         /\ SourceOK(source[path])
         /\ source[path] = ThisSource(source[path].header)
         /\ source[path].keys = keys
         /\ source[path].values = values
         /\ source[path].mphf = mphf
  <1>1. /\ path \in Paths
        /\ files[path] # NoFile
        /\ ~built[path]
        /\ SourceOK(source[path])
        /\ source[path] = ThisSource(source[path].header)
    BY DEF IInv, MemoryInv, StepInv
  <1>2. FileOK(files[path])
    BY <1>1 DEF IInv, FilesInv
  <1>3. /\ source[path].keys = keys
        /\ source[path].values = values
        /\ source[path].mphf = mphf
    BY <1>1 DEF ThisSource
  <1> QED
    BY <1>1, <1>2, <1>3

\* The index of a build that has mapped its file lies inside it.
LEMMA IndexAlwaysFits ==
  ASSUME IInv, pc = "map"
  PROVE  IndexFits
  <1> DEFINE s == source[path]
  <1>1. SourceOK(s) /\ header = s.header /\ files[path].size = total_size(s.header)
    BY DEF IInv, StepInv, Writing, ZeroFile
  <1>2. /\ Len(s.keys) \in Nat /\ s.header.mphf_size \in Nat /\ s.header.data_offset \in Nat
        /\ s.header.data_offset >= HEADER_SIZE + s.header.mphf_size
        /\ total_size(s.header) = s.header.data_offset + Len(s.keys) * RECORD_SIZE
    BY <1>1, Layout
  <1> QED
    BY <1>1, <1>2 DEF IndexFits, HEADER_SIZE, RECORD_SIZE, KEY_SIZE, VALUE_SIZE

LEMMA WriteMphfStep ==
  ASSUME IInv, WriteMphf
  PROVE  IInv'
  <1> DEFINE s == source[path]
             file == [files[path] EXCEPT !.index = serialize(mphf, header.mphf_size)]
  <1>1. /\ pc = "map" /\ pc' = "records" /\ path' = path
        /\ keys' = keys /\ values' = values /\ mphf' = mphf /\ header' = header
        /\ next' = next /\ next = 1 /\ builds' = builds
        /\ source' = source /\ built' = built /\ synced' = synced
        /\ files' = [files EXCEPT ![path] = file]
        /\ files[path] = ZeroFile(total_size(header))
        /\ header = s.header
    BY IndexAlwaysFits DEF IInv, MemoryInv, StepInv, WriteMphf, input, history
  <1>2. /\ path \in Paths /\ FileOK(files[path]) /\ ~built[path] /\ SourceOK(s)
        /\ s = ThisSource(s.header) /\ s.keys = keys /\ s.mphf = mphf
    BY <1>1, WritingFacts DEF Writing
  <1>3. file = [size |-> total_size(header), page |-> ZeroPage,
                index |-> serialize(mphf, header.mphf_size), data |-> <<>>]
    BY <1>1 DEF ZeroFile
  <1>4. FileOK(file) /\ file.page = ZeroPage /\ file # NoFile
    <2>1. FileOK(file)
      BY <1>1, <1>2, <1>3 DEF FileOK, ZeroFile
    <2> QED
      BY <1>3, <2>1, FileExists
  <1>5. FilesInv' /\ files' = [p \in Paths |-> files'[p]]
    BY <1>1, <1>2, <1>4, FilesInvWritten DEF IInv
  <1>6. MemoryInv'
    BY <1>1, <1>5 DEF IInv, MemoryInv, Steps
  <1>7. StepInv'
    <2>1. files'[path] = file
      BY <1>1, <1>2 DEF IInv, MemoryInv
    <2>2. ThisSource(source[path].header)' = ThisSource(source[path].header)
      BY <1>1 DEF ThisSource
    <2>3. Indexed(s, file) /\ Holds(s, file.data, next - 1)
      BY <1>1, <1>2, <1>3, HoldsNothing DEF Indexed
    <2>4. next <= Len(keys) + 1
      BY <1>1, <1>2, Layout
    <2> QED
      BY <1>1, <1>2, <1>4, <2>1, <2>2, <2>3, <2>4 DEF StepInv, Writing
  <1> QED
    BY <1>5, <1>6, <1>7 DEF IInv

\* A record stored above the index changes the file's records only.
LEMMA PutRecord ==
  ASSUME NEW file, FileOK(file), NEW record \in Record,
         NEW offset \in HEADER_SIZE..file.size - RECORD_SIZE,
         header.mphf_size \in Nat, offset >= HEADER_SIZE + header.mphf_size
  PROVE  /\ put(file, offset, record) =
              [size |-> file.size, page |-> file.page, index |-> file.index,
               data |-> [o \in DOMAIN file.data \cup {offset} |->
                           IF o = offset THEN record ELSE file.data[o]]]
         /\ FileOK(put(file, offset, record))
  <1> DEFINE d == [o \in DOMAIN file.data \cup {offset} |->
                     IF o = offset THEN record ELSE file.data[o]]
  <1>1. ~(offset < HEADER_SIZE + header.mphf_size)
    BY FormatAssumption DEF FileOK, HEADER_SIZE
  <1>2. file = [size |-> file.size, page |-> file.page, index |-> file.index,
                data |-> file.data]
    BY DEF FileOK
  <1>3. put(file, offset, record) =
          [size |-> file.size, page |-> file.page, index |-> file.index, data |-> d]
    BY <1>1 DEF put
  <1>4. \A o \in DOMAIN d : o \in HEADER_SIZE..file.size - RECORD_SIZE /\ d[o] \in Record
    BY DEF FileOK
  <1> QED
    BY <1>3, <1>4 DEF FileOK

\* The key of the next record, stored with whatever lay in its value's place.
LEMMA StoreKey ==
  ASSUME NEW s, SourceOK(s), NEW d, NEW j \in 1..Len(s.keys), NEW r \in Record,
         Holds(s, d, j - 1)
  PROVE  HoldsKey(s, [o \in DOMAIN d \cup {Offset(s, j)} |->
                        IF o = Offset(s, j) THEN r ELSE d[o]], j)
  <1> DEFINE e == [o \in DOMAIN d \cup {Offset(s, j)} |->
                     IF o = Offset(s, j) THEN r ELSE d[o]]
  <1>1. Len(s.keys) \in Nat
    BY Layout
  <1>2. DOMAIN e = { Offset(s, i) : i \in 1..j }
    BY <1>1 DEF Holds
  <1>3. ASSUME NEW i \in 1..j-1 PROVE e[Offset(s, i)] = GivenRecord(s, i)
    <2>1. Offset(s, i) # Offset(s, j)
      BY <1>1, Offsets
    <2>2. Offset(s, i) \in DOMAIN d /\ d[Offset(s, i)] = GivenRecord(s, i)
      BY DEF Holds
    <2> QED
      BY <2>1, <2>2
  <1>4. e[Offset(s, j)] = r
    OBVIOUS
  <1> QED
    BY <1>2, <1>3, <1>4 DEF HoldsKey

\* The value of the record whose key has been stored.
LEMMA StoreValue ==
  ASSUME NEW s, SourceOK(s), NEW d, NEW j \in 1..Len(s.keys), HoldsKey(s, d, j)
  PROVE  Holds(s, [o \in DOMAIN d \cup {Offset(s, j)} |->
                     IF o = Offset(s, j) THEN GivenRecord(s, j) ELSE d[o]], j)
  <1> DEFINE e == [o \in DOMAIN d \cup {Offset(s, j)} |->
                     IF o = Offset(s, j) THEN GivenRecord(s, j) ELSE d[o]]
  <1>1. Len(s.keys) \in Nat
    BY Layout
  <1>2. DOMAIN e = { Offset(s, i) : i \in 1..j }
    BY <1>1 DEF HoldsKey
  <1>3. ASSUME NEW i \in 1..j PROVE e[Offset(s, i)] = GivenRecord(s, i)
    <2>1. CASE i = j
      BY <2>1
    <2>2. CASE i # j
      <3>1. i \in 1..j-1 /\ Offset(s, i) # Offset(s, j)
        BY <1>1, <2>2, Offsets
      <3>2. Offset(s, i) \in DOMAIN d /\ d[Offset(s, i)] = GivenRecord(s, i)
        BY <3>1 DEF HoldsKey
      <3> QED
        BY <3>1, <3>2
    <2> QED
      BY <2>1, <2>2
  <1> QED
    BY <1>2, <1>3 DEF Holds

\* Every record of a build that writes them has its place inside the file.
LEMMA RecordsFit ==
  ASSUME IInv, pc \in {"records", "value"}, NEW i \in 1..Len(keys)
  PROVE  RecordFits(i)
  <1> DEFINE s == source[path]
  <1>1. /\ SourceOK(s) /\ s.keys = keys /\ s.mphf = mphf /\ header = s.header
        /\ files[path].size = total_size(s.header)
    BY WritingFacts DEF IInv, StepInv, Writing, Indexed
  <1>2. /\ mphf_get(mphf, keys[i]) # None
        /\ record_offset(header.data_offset, mphf_get(mphf, keys[i])) = Offset(s, i)
        /\ Offset(s, i) \in HEADER_SIZE..files[path].size - RECORD_SIZE
    BY <1>1, Offsets DEF Offset
  <1>3. files[path].size \in Nat
    BY <1>1, Layout DEF RECORD_SIZE, KEY_SIZE, VALUE_SIZE
  <1>4. Offset(s, i) + RECORD_SIZE <= files[path].size
    BY <1>2, <1>3 DEF HEADER_SIZE, RECORD_SIZE, KEY_SIZE, VALUE_SIZE
  <1> QED
    BY <1>2, <1>4 DEF RecordFits

\* Where the next record goes, and that it can be stored there.
LEMMA NextOffset ==
  ASSUME IInv, pc \in {"records", "value"}, next <= Len(keys)
  PROVE  LET s == source[path] IN
         /\ header = s.header
         /\ next \in 1..Len(s.keys)
         /\ mphf_get(mphf, keys[next]) # None
         /\ record_offset(header.data_offset, mphf_get(mphf, keys[next])) = Offset(s, next)
         /\ Offset(s, next) \in HEADER_SIZE..files[path].size - RECORD_SIZE
         /\ header.mphf_size \in Nat
         /\ Offset(s, next) >= HEADER_SIZE + header.mphf_size
  <1> DEFINE s == source[path]
  <1>1. /\ SourceOK(s) /\ s.keys = keys /\ s.mphf = mphf /\ header = s.header
        /\ Indexed(s, files[path])
    BY WritingFacts DEF IInv, StepInv, Writing
  <1>2. next \in 1..Len(s.keys)
    BY <1>1, Layout, BuilderAssumption DEF IInv, MemoryInv
  <1>3. files[path].size = total_size(s.header)
    BY <1>1 DEF Indexed
  <1>4. s.header.mphf_size \in Nat
    BY <1>1, Layout
  <1>5. record_offset(header.data_offset, mphf_get(mphf, keys[next])) = Offset(s, next)
    BY <1>1 DEF Offset
  <1>6. /\ mphf_get(s.mphf, s.keys[next]) # None
        /\ Offset(s, next) >= HEADER_SIZE + s.header.mphf_size
        /\ Offset(s, next) \in HEADER_SIZE..total_size(s.header) - RECORD_SIZE
    BY <1>1, <1>2, Offsets
  <1> QED
    BY <1>1, <1>2, <1>3, <1>4, <1>5, <1>6

\* Where the loop stores its next record there is nothing yet.
LEMMA NextUntouched ==
  ASSUME NEW s, SourceOK(s), NEW file, NEW i \in 1..Len(s.keys),
         file.page = ZeroPage, Indexed(s, file), Holds(s, file.data, i - 1)
  PROVE  read_record(file, Offset(s, i)) = ZeroRecord
  <1> DEFINE offset == Offset(s, i)
  <1>1. Len(s.keys) \in Nat
    BY Layout
  <1>2. /\ s.header.mphf_size \in Nat
        /\ offset \in Nat
        /\ offset >= HEADER_SIZE + s.header.mphf_size
    BY Layout, Offsets
  <1>3. file.index.len = s.header.mphf_size
    BY DEF Indexed, serialize
  <1>4. HEADER_SIZE + file.index.len <= offset
    BY <1>2, <1>3 DEF HEADER_SIZE
  <1>5. ASSUME NEW o \in DOMAIN file.data
        PROVE  /\ offset + RECORD_SIZE <= o \/ o + RECORD_SIZE <= offset
               /\ o # offset
    <2>1. PICK j \in 1..i-1 : o = Offset(s, j)
      BY DEF Holds
    <2>2. j \in 1..Len(s.keys) /\ j # i
      BY <1>1
    <2>3. o \in Nat
      BY <2>1, <2>2, Offsets
    <2>4. offset + RECORD_SIZE <= o \/ o + RECORD_SIZE <= offset
      BY <2>1, <2>2, OffsetsApart
    <2> HIDE DEF offset
    <2> QED
      BY <1>2, <2>3, <2>4 DEF RECORD_SIZE, KEY_SIZE, VALUE_SIZE
  <1>6. Untouched(file, offset)
    BY <1>4, <1>5 DEF Untouched
  <1> QED
    BY <1>5, <1>6 DEF read_record

LEMMA WriteKeyStep ==
  ASSUME IInv, WriteKey
  PROVE  IInv'
  <1> DEFINE s == source[path]
             offset == Offset(s, next)
             record == [key |-> keys[next], value |-> read_record(files[path], offset).value]
             file == put(files[path], offset, record)
  <1>1. /\ pc = "records" /\ next <= Len(keys) /\ path \in Paths
        /\ FileOK(files[path]) /\ ~built[path] /\ SourceOK(s)
        /\ s = ThisSource(s.header) /\ s.keys = keys /\ s.mphf = mphf
        /\ header = s.header /\ files[path].page = ZeroPage
        /\ Indexed(s, files[path]) /\ Holds(s, files[path].data, next - 1)
    BY WritingFacts DEF WriteKey, IInv, StepInv, Writing
  <1>2. /\ next \in 1..Len(s.keys)
        /\ mphf_get(mphf, keys[next]) # None
        /\ record_offset(header.data_offset, mphf_get(mphf, keys[next])) = offset
        /\ offset \in HEADER_SIZE..files[path].size - RECORD_SIZE
        /\ header.mphf_size \in Nat
        /\ offset >= HEADER_SIZE + header.mphf_size
    BY <1>1, NextOffset
  <1>3. /\ files' = [files EXCEPT ![path] = file]
        /\ pc' = "value" /\ path' = path /\ keys' = keys /\ values' = values
        /\ mphf' = mphf /\ header' = header /\ next' = next /\ builds' = builds
        /\ source' = source /\ built' = built /\ synced' = synced
    BY <1>1, <1>2, RecordsFit DEF WriteKey, input, history
  <1>4. record \in Record
    <2>1. read_record(files[path], offset).value \in Values
      BY <1>1, <1>2, NextUntouched, FormatAssumption DEF ZeroRecord
    <2>2. keys[next] \in Keys
      BY <1>1, <1>2 DEF IInv, MemoryInv
    <2> QED
      BY <2>1, <2>2 DEF Record
  <1>5. /\ file = [size |-> files[path].size, page |-> files[path].page,
                   index |-> files[path].index,
                   data |-> [o \in DOMAIN files[path].data \cup {offset} |->
                               IF o = offset THEN record ELSE files[path].data[o]]]
        /\ FileOK(file)
    BY <1>1, <1>2, <1>4, PutRecord
  <1>6. file.page = ZeroPage /\ file # NoFile /\ Indexed(s, file)
    BY <1>1, <1>5, FileExists DEF Indexed
  <1>7. HoldsKey(s, file.data, next)
    <2> DEFINE d == files[path].data
               e == [o \in DOMAIN d \cup {Offset(s, next)} |->
                       IF o = Offset(s, next) THEN record ELSE d[o]]
    <2>1. HoldsKey(s, e, next)
      BY <1>1, <1>2, <1>4, StoreKey
    <2>2. file.data = e
      BY <1>4, <1>5
    <2> HIDE DEF file, e
    <2> QED
      BY <2>1, <2>2
  <1>8. FilesInv' /\ files' = [p \in Paths |-> files'[p]]
    BY <1>1, <1>3, <1>5, <1>6, FilesInvWritten DEF IInv
  <1>9. MemoryInv'
    BY <1>3, <1>8 DEF IInv, MemoryInv, Steps
  <1>10. StepInv'
    <2>1. files'[path] = file
      BY <1>1, <1>3 DEF IInv, MemoryInv
    <2>2. ThisSource(source[path].header)' = ThisSource(source[path].header)
      BY <1>3 DEF ThisSource
    <2> HIDE DEF file
    <2> QED
      BY <1>1, <1>2, <1>3, <1>6, <1>7, <2>1, <2>2 DEF StepInv, Writing
  <1> QED
    BY <1>8, <1>9, <1>10 DEF IInv

LEMMA WriteValueStep ==
  ASSUME IInv, WriteValue
  PROVE  IInv'
  <1> DEFINE s == source[path]
             offset == Offset(s, next)
             record == [key |-> keys[next], value |-> values[next]]
             file == put(files[path], offset, record)
  <1>1. /\ pc = "value" /\ next <= Len(keys) /\ path \in Paths
        /\ FileOK(files[path]) /\ ~built[path] /\ SourceOK(s)
        /\ s = ThisSource(s.header) /\ s.keys = keys /\ s.values = values /\ s.mphf = mphf
        /\ header = s.header /\ files[path].page = ZeroPage
        /\ Indexed(s, files[path]) /\ HoldsKey(s, files[path].data, next)
    BY WritingFacts DEF WriteValue, IInv, StepInv, Writing
  <1>2. /\ next \in 1..Len(s.keys)
        /\ record_offset(header.data_offset, mphf_get(mphf, keys[next])) = offset
        /\ offset \in HEADER_SIZE..files[path].size - RECORD_SIZE
        /\ header.mphf_size \in Nat
        /\ offset >= HEADER_SIZE + header.mphf_size
    BY <1>1, NextOffset
  <1>3. /\ files' = [files EXCEPT ![path] = file]
        /\ pc' = "records" /\ path' = path /\ keys' = keys /\ values' = values
        /\ mphf' = mphf /\ header' = header /\ next' = next + 1 /\ builds' = builds
        /\ source' = source /\ built' = built /\ synced' = synced
    BY <1>2 DEF WriteValue, input, history
  <1>4. record \in Record /\ record = GivenRecord(s, next)
    BY <1>1, <1>2 DEF IInv, MemoryInv, Record, GivenRecord
  <1>5. /\ file = [size |-> files[path].size, page |-> files[path].page,
                   index |-> files[path].index,
                   data |-> [o \in DOMAIN files[path].data \cup {offset} |->
                               IF o = offset THEN record ELSE files[path].data[o]]]
        /\ FileOK(file)
    BY <1>1, <1>2, <1>4, PutRecord
  <1>6. file.page = ZeroPage /\ file # NoFile /\ Indexed(s, file)
    BY <1>1, <1>5, FileExists DEF Indexed
  <1>7. Holds(s, file.data, next)
    <2> DEFINE d == files[path].data
               e == [o \in DOMAIN d \cup {Offset(s, next)} |->
                       IF o = Offset(s, next) THEN GivenRecord(s, next) ELSE d[o]]
    <2>1. Holds(s, e, next)
      BY <1>1, <1>2, <1>4, StoreValue
    <2>2. file.data = e
      BY <1>4, <1>5
    <2> HIDE DEF file, e
    <2> QED
      BY <2>1, <2>2
  <1>8. FilesInv' /\ files' = [p \in Paths |-> files'[p]]
    BY <1>1, <1>3, <1>5, <1>6, FilesInvWritten DEF IInv
  <1>9. MemoryInv'
    <2>1. Len(s.keys) <= MaxRecords
      BY <1>1 DEF IInv, MemoryInv
    <2>2. next' \in 1..MaxRecords + 1
      BY <1>2, <1>3, <2>1, BuilderAssumption DEF IInv, MemoryInv
    <2> QED
      BY <1>3, <1>8, <2>2 DEF IInv, MemoryInv, Steps
  <1>10. StepInv'
    <2>1. files'[path] = file
      BY <1>1, <1>3 DEF IInv, MemoryInv
    <2>2. ThisSource(source[path].header)' = ThisSource(source[path].header)
      BY <1>3 DEF ThisSource
    <2>3. next' - 1 = next /\ next' <= Len(keys) + 1
      BY <1>1, <1>2, <1>3, Layout
    <2> HIDE DEF file
    <2> QED
      BY <1>1, <1>3, <1>6, <1>7, <2>1, <2>2, <2>3 DEF StepInv, Writing
  <1> QED
    BY <1>8, <1>9, <1>10 DEF IInv

LEMMA ChecksumStep ==
  ASSUME IInv, Checksum
  PROVE  IInv'
  <1> DEFINE s == source[path]
  <1>1. /\ pc = "records" /\ next > Len(keys) /\ path \in Paths
        /\ files[path] # NoFile /\ ~built[path] /\ SourceOK(s)
        /\ s = ThisSource(s.header) /\ s.keys = keys
        /\ header = s.header /\ files[path].page = ZeroPage
        /\ Indexed(s, files[path]) /\ Holds(s, files[path].data, next - 1)
        /\ next <= Len(keys) + 1
    BY WritingFacts DEF Checksum, IInv, StepInv, Writing
  <1>2. /\ header' = [header EXCEPT !.checksum =
             compute_checksum(files[path].size - header.data_offset, files[path].data)]
        /\ pc' = "header" /\ path' = path /\ keys' = keys /\ values' = values
        /\ mphf' = mphf /\ next' = next /\ builds' = builds /\ files' = files
        /\ source' = source /\ built' = built /\ synced' = synced
    BY DEF Checksum, input, history
  <1>3. Complete(s, files[path])
    <2>1. next - 1 = Len(s.keys)
      BY <1>1, Layout, BuilderAssumption DEF IInv, MemoryInv
    <2> QED
      BY <1>1, <2>1 DEF Complete
  <1>4. PagePartial(s, files[path])
    BY <1>1 DEF PagePartial
  <1>5. header' = FinalHeader(s, files[path])
    BY <1>1, <1>2 DEF FinalHeader
  <1>6. MemoryInv'
    BY <1>2 DEF IInv, MemoryInv, Steps
  <1>7. FilesInv'
    BY <1>2, FilesInvUnchanged DEF IInv
  <1>8. StepInv'
    <2>1. ThisSource(source[path].header)' = ThisSource(source[path].header)
      BY <1>2 DEF ThisSource
    <2> QED
      BY <1>1, <1>2, <1>3, <1>4, <1>5, <2>1 DEF StepInv, Writing
  <1> QED
    BY <1>6, <1>7, <1>8 DEF IInv

LEMMA WriteHeaderWordStep ==
  ASSUME IInv, NEW o \in FieldOffsets, WriteHeaderWord(o)
  PROVE  IInv'
  <1> DEFINE s == source[path]
             f == files[path]
             page == [f.page EXCEPT ![o] = to_bytes(header)[o]]
             file == [size |-> f.size, page |-> page, index |-> f.index, data |-> f.data]
  <1>1. /\ pc = "header" /\ path \in Paths
        /\ FileOK(f) /\ ~built[path] /\ SourceOK(s) /\ s = ThisSource(s.header)
        /\ Complete(s, f) /\ PagePartial(s, f) /\ header = FinalHeader(s, f)
    BY WritingFacts DEF WriteHeaderWord, IInv, StepInv, Writing
  <1>2. /\ files' = [files EXCEPT ![path].page[o] = to_bytes(header)[o]]
        /\ pc' = pc /\ path' = path /\ keys' = keys /\ values' = values
        /\ mphf' = mphf /\ header' = header /\ next' = next /\ builds' = builds
        /\ source' = source /\ built' = built /\ synced' = synced
    BY DEF WriteHeaderWord, input, history
  <1>3. f = [size |-> f.size, page |-> f.page, index |-> f.index, data |-> f.data]
        /\ f.page = [w \in FieldOffsets |-> f.page[w]]
    BY <1>1 DEF FileOK
  <1>4. files' = [files EXCEPT ![path] = file]
    <2>1. [f EXCEPT !.page[o] = to_bytes(header)[o]] = file
      BY <1>3
    <2> QED
      BY <1>1, <1>2, <2>1
  <1>5. FileOK(file)
    <2>1. page = [w \in FieldOffsets |-> page[w]]
      BY <1>3
    <2> HIDE DEF page
    <2> QED
      BY <1>1, <2>1 DEF FileOK
  <1>6. FinalHeader(s, file) = FinalHeader(s, f)
    BY DEF FinalHeader
  <1>7. Complete(s, file)
    BY <1>1 DEF Complete, Indexed
  <1>8. PagePartial(s, file)
    <2> SUFFICES ASSUME NEW w \in FieldOffsets
                 PROVE  page[w] \in {ZeroPage[w], to_bytes(FinalHeader(s, f))[w]}
      BY <1>6 DEF PagePartial
    <2>1. CASE w = o
      BY <1>1, <1>3, <2>1
    <2>2. CASE w # o
      BY <1>1, <1>3, <2>2 DEF PagePartial
    <2> QED
      BY <2>1, <2>2
  <1> HIDE DEF file
  <1>9. FilesInv' /\ files' = [p \in Paths |-> files'[p]]
    BY <1>1, <1>2, <1>4, <1>5, <1>7, <1>8, FilesInvWritten DEF IInv
  <1>10. MemoryInv'
    BY <1>2, <1>9 DEF IInv, MemoryInv
  <1>11. StepInv'
    <2>1. files'[path] = file
      BY <1>1, <1>4 DEF IInv, MemoryInv
    <2>2. ThisSource(source[path].header)' = ThisSource(source[path].header)
      BY <1>2 DEF ThisSource
    <2>3. file # NoFile
      BY <1>5, FileExists
    <2> QED
      BY <1>1, <1>2, <1>6, <1>7, <1>8, <2>1, <2>2, <2>3 DEF StepInv, Writing
  <1> QED
    BY <1>9, <1>10, <1>11 DEF IInv

LEMMA HeaderWrittenStep ==
  ASSUME IInv, HeaderWritten
  PROVE  IInv'
  <1>1. /\ pc = "header" /\ pc' = "flush" /\ path' = path
        /\ keys' = keys /\ values' = values /\ mphf' = mphf /\ header' = header
        /\ next' = next /\ builds' = builds /\ files' = files
        /\ source' = source /\ built' = built /\ synced' = synced
        /\ files[path].page = to_bytes(header)
    BY DEF HeaderWritten, input, history
  <1>2. MemoryInv'
    BY <1>1 DEF IInv, MemoryInv, Steps
  <1>3. FilesInv'
    BY <1>1, FilesInvUnchanged DEF IInv
  <1>4. StepInv'
    <2>1. ThisSource(source[path].header)' = ThisSource(source[path].header)
      BY <1>1 DEF ThisSource
    <2> QED
      BY <1>1, <2>1 DEF IInv, StepInv, Writing, PageFinal
  <1> QED
    BY <1>2, <1>3, <1>4 DEF IInv

LEMMA FlushStep ==
  ASSUME IInv, Flush
  PROVE  IInv'
  <1>1. /\ pc = "flush" /\ pc' = "done" /\ path' = path
        /\ keys' = keys /\ values' = values /\ mphf' = mphf /\ header' = header
        /\ next' = next /\ builds' = builds /\ files' = files /\ source' = source
        /\ built' = [built EXCEPT ![path] = TRUE]
        /\ synced' = [synced EXCEPT ![path] = TRUE]
    BY DEF Flush, input
  <1>2. MemoryInv'
    BY <1>1 DEF IInv, MemoryInv, Ended
  <1>3. FilesInv'
    <2>1. /\ files[path] # NoFile
          /\ Complete(source[path], files[path])
          /\ PageFinal(source[path], files[path])
      BY <1>1 DEF IInv, StepInv, Writing
    <2>2. \A p \in Paths : built'[p] => built[p] \/ p = path
      BY <1>1 DEF IInv, MemoryInv
    <2> QED
      BY <1>1, <2>1, <2>2 DEF IInv, FilesInv
  <1>4. StepInv'
    BY <1>1 DEF StepInv, Writing
  <1> QED
    BY <1>2, <1>3, <1>4 DEF IInv

\* Every step of a build, and its interruption at any point, keeps IInv.
LEMMA NextInv == IInv /\ [Next]_vars => IInv'
  <1> SUFFICES ASSUME IInv, [Next]_vars PROVE IInv'
    OBVIOUS
  <1>1. CASE UNCHANGED vars
    <2>1. MemoryInv' /\ StepInv'
      BY <1>1 DEF IInv, MemoryInv, StepInv, vars, input, history, Writing, ThisSource
    <2>2. FilesInv'
      BY <1>1, FilesInvUnchanged DEF IInv, vars, history
    <2> QED
      BY <2>1, <2>2 DEF IInv
  <1>2. CASE \E p \in Paths : Start(p)
    BY <1>2, StartStep
  <1>3. CASE \E key \in Keys, value \in Values : add_record(key, value)
    BY <1>3, AddRecordStep
  <1>4. CASE BuildEmpty
    BY <1>4, HaltStep DEF BuildEmpty, Ended
  <1>5. CASE BuildAbort
    BY <1>5, HaltStep DEF BuildAbort, Ended
  <1>6. CASE \E m \in build_mphf(keys), mphf_size \in MphfLens, t \in Timestamps :
               BuildIndex(m, mphf_size, t)
    BY <1>6, BuildIndexStep
  <1>7. CASE CreateFile
    BY <1>7, CreateFileStep
  <1>8. CASE SetLen
    BY <1>8, SetLenStep
  <1>9. CASE WriteMphf
    BY <1>9, WriteMphfStep
  <1>10. CASE WriteKey
    BY <1>10, WriteKeyStep
  <1>11. CASE WriteValue
    BY <1>11, WriteValueStep
  <1>12. CASE Checksum
    BY <1>12, ChecksumStep
  <1>13. CASE \E o \in FieldOffsets : WriteHeaderWord(o)
    BY <1>13, WriteHeaderWordStep
  <1>14. CASE HeaderWritten
    BY <1>14, HeaderWrittenStep
  <1>15. CASE Flush
    BY <1>15, FlushStep
  <1>16. CASE IoError
    BY <1>16, HaltStep DEF IoError, Ended
  <1>17. CASE Kill
    BY <1>17, HaltStep DEF Kill, Ended
  <1> QED
    BY <1>1, <1>2, <1>3, <1>4, <1>5, <1>6, <1>7, <1>8, <1>9, <1>10, <1>11, <1>12,
       <1>13, <1>14, <1>15, <1>16, <1>17 DEF Next, Work

\* The strengthening of all of SnapshotBuilder's safety properties holds in
\* every reachable state.
THEOREM Inductive == Spec => []IInv
  <1>1. Init => IInv
    BY InitInv
  <1>2. IInv /\ [Next]_vars => IInv'
    BY NextInv
  <1> QED
    BY <1>1, <1>2, PTL DEF Spec

\* The state of the builder and its files is well formed: in particular every
\* record lies between the header page and the end of the file.
THEOREM TypeCorrect == Spec => []TypeOK
  <1>1. IInv => TypeOK
    BY DEF IInv, MemoryInv, FilesInv, FileOK, TypeOK
  <1> QED
    BY <1>1, Inductive, PTL

\* build never dies of its own arithmetic, whatever the keys, their number and
\* the length of their index.
THEOREM PanicFree == Spec => []BuildNeverPanics
  <1>1. IInv => BuildNeverPanics
    <2> SUFFICES ASSUME IInv PROVE BuildNeverPanics
      OBVIOUS
    <2>1. pc = "map" => IndexFits
      BY IndexAlwaysFits
    <2>2. ASSUME pc = "records", NEW i \in next..Len(keys) PROVE RecordFits(i)
      <3>1. i \in 1..Len(keys)
        BY BuilderAssumption DEF IInv, MemoryInv
      <3> QED
        BY <2>2, <3>1, RecordsFit
    <2> QED
      BY <2>1, <2>2 DEF BuildNeverPanics
  <1> QED
    BY <1>1, Inductive, PTL

===============================================================================
