------------------------ MODULE SnapshotSafety_proofs -------------------------
(***************************************************************************)
(* What KvStore finds in the files of SnapshotBuilder, for every set of    *)
(* keys and values, every perfect hash function and every file size, at    *)
(* any moment of a build and after it was killed at any moment.            *)
(***************************************************************************)
EXTENDS SnapshotBuilder_proofs

-------------------------------------------------------------------------------
(* The words of the header page *)

\* The header page a build ends with.
LEMMA FinalWords ==
  ASSUME NEW s, SourceOK(s), NEW file
  PROVE  LET b == to_bytes(FinalHeader(s, file)) IN
         /\ b[0] = MAGIC_NUMBER
         /\ b[8] = FORMAT_VERSION
         /\ b[16] = Len(s.keys)
         /\ b[24] = s.header.mphf_size
         /\ b[32] = s.header.data_offset
         /\ b[64] = compute_checksum(file.size - s.header.data_offset, file.data)
  <1>1. PICK len \in MphfLens, t \in Timestamps : s.header = new_header(Len(s.keys), len, t)
    BY DEF SourceOK, Headers
  <1> DEFINE c == compute_checksum(file.size - s.header.data_offset, file.data)
             h == FinalHeader(s, file)
  <1>2. /\ h.magic = MAGIC_NUMBER
        /\ h.version = FORMAT_VERSION
        /\ h.record_count = Len(s.keys)
        /\ h.mphf_size = s.header.mphf_size
        /\ h.data_offset = s.header.data_offset
        /\ h.checksum = c
    BY <1>1 DEF FinalHeader, new_header
  <1> HIDE DEF h, c
  <1>3. /\ to_bytes(h)[0] = h.magic
        /\ to_bytes(h)[8] = h.version
        /\ to_bytes(h)[16] = h.record_count
        /\ to_bytes(h)[24] = h.mphf_size
        /\ to_bytes(h)[32] = h.data_offset
        /\ to_bytes(h)[64] = h.checksum
    BY DEF to_bytes, FieldOffsets
  <1> QED
    BY <1>2, <1>3 DEF h, c

\* The header a store parses from a page that is being written: each field is
\* zero or final.
LEMMA ParsedWords ==
  ASSUME NEW s, SourceOK(s), NEW file, PagePartial(s, file)
  PROVE  LET h == parse(file.page) IN
         /\ h.record_count \in {0, Len(s.keys)}
         /\ h.mphf_size \in {0, s.header.mphf_size}
         /\ h.data_offset \in {0, s.header.data_offset}
         /\ h.checksum \in {ZeroSum,
              compute_checksum(file.size - s.header.data_offset, file.data)}
  <1> DEFINE b == to_bytes(FinalHeader(s, file))
  <1>1. \A o \in {16, 24, 32, 64} : file.page[o] \in {ZeroPage[o], b[o]}
    BY DEF PagePartial, FieldOffsets
  <1>2. /\ ZeroPage[16] = 0
        /\ ZeroPage[24] = 0
        /\ ZeroPage[32] = 0
        /\ ZeroPage[64] = ZeroSum
    BY DEF ZeroPage, FieldOffsets
  <1>3. /\ b[16] = Len(s.keys)
        /\ b[24] = s.header.mphf_size
        /\ b[32] = s.header.data_offset
        /\ b[64] = compute_checksum(file.size - s.header.data_offset, file.data)
    BY FinalWords
  <1> HIDE DEF b
  <1>4. /\ file.page[16] \in {0, Len(s.keys)}
        /\ file.page[24] \in {0, s.header.mphf_size}
        /\ file.page[32] \in {0, s.header.data_offset}
        /\ file.page[64] \in {ZeroSum,
             compute_checksum(file.size - s.header.data_offset, file.data)}
    BY <1>1, <1>2, <1>3
  <1> QED
    BY <1>4 DEF parse

\* A page of zeros has no magic number: its file does not open.
LEMMA BlankNeverOpens ==
  ASSUME NEW file, file.page = ZeroPage
  PROVE  open(file) \in {"Io", "FileTooSmall", "InvalidMagic"}
  <1>1. parse(file.page).magic = 0
    BY DEF parse, ZeroPage, FieldOffsets
  <1>2. validate(parse(file.page)) = "InvalidMagic"
    BY <1>1, FormatAssumption DEF validate
  <1>3. from_bytes(file.size, file.page) \in {"FileTooSmall", "InvalidMagic"}
    BY <1>2 DEF from_bytes
  <1> QED
    BY <1>3 DEF open

\* What is there of a file of FilesInv.
LEMMA FileCases ==
  ASSUME IInv, NEW p \in Paths, files[p] # NoFile
  PROVE  \/ files[p].page = ZeroPage
         \/ Complete(source[p], files[p]) /\ PagePartial(source[p], files[p])
  BY DEF IInv, FilesInv

-------------------------------------------------------------------------------
(* open *)

\* The sizes of a complete file.
LEMMA CompleteSizes ==
  ASSUME NEW s, NEW file, Complete(s, file)
  PROVE  /\ SourceOK(s)
         /\ Len(s.keys) \in Nat \ {0}
         /\ s.header.mphf_size \in Nat
         /\ s.header.mphf_size >= 8
         /\ s.header.data_offset \in Nat
         /\ s.header.data_offset >= HEADER_SIZE + s.header.mphf_size
         /\ s.header.data_offset + Len(s.keys) * RECORD_SIZE < U64
         /\ file.size = s.header.data_offset + Len(s.keys) * RECORD_SIZE
  BY Layout DEF Complete, Indexed

\* The index section a reader takes from a header being written is in the file.
LEMMA IndexEnd ==
  ASSUME NEW s, NEW file, Complete(s, file), PagePartial(s, file)
  PROVE  LET mphf_end == (HEADER_SIZE + parse(file.page).mphf_size) % U64 IN
         ~(mphf_end > file.size \/ mphf_end < HEADER_SIZE)
  <1> DEFINE n == Len(s.keys)
             size == parse(file.page).mphf_size
  <1>1. /\ SourceOK(s)
        /\ n \in Nat
        /\ s.header.mphf_size \in Nat
        /\ s.header.data_offset \in Nat
        /\ s.header.data_offset >= HEADER_SIZE + s.header.mphf_size
        /\ file.size = s.header.data_offset + n * RECORD_SIZE
        /\ file.size < U64
    BY CompleteSizes
  <1>2. size \in {0, s.header.mphf_size}
    BY <1>1, ParsedWords
  <1> HIDE DEF size, n
  <1>0. /\ file.size \in Nat
        /\ file.size >= s.header.data_offset
    BY <1>1 DEF RECORD_SIZE, KEY_SIZE, VALUE_SIZE
  <1>3. /\ size \in Nat
        /\ HEADER_SIZE + size \in Nat
        /\ HEADER_SIZE + size <= file.size
    <2>1. CASE size = 0
      BY <1>0, <1>1, <2>1 DEF HEADER_SIZE
    <2>2. CASE size = s.header.mphf_size
      BY <1>0, <1>1, <2>2 DEF HEADER_SIZE
    <2> QED
      BY <1>2, <2>1, <2>2
  <1>4. (HEADER_SIZE + size) % U64 = HEADER_SIZE + size
    <2>1. HEADER_SIZE + size < U64
      BY <1>0, <1>1, <1>3, FormatAssumption
    <2> QED
      BY <1>3, <2>1, ModSmall, FormatAssumption
  <1>5. ~(HEADER_SIZE + size > file.size \/ HEADER_SIZE + size < HEADER_SIZE)
    BY <1>0, <1>2, <1>1, <1>3 DEF HEADER_SIZE
  <1> QED
    BY <1>4, <1>5 DEF size

\* open never panics on what a build has written, whatever it has written.
LEMMA OpenCases ==
  ASSUME IInv, NEW p \in Paths, files[p] # NoFile
  PROVE  open(files[p]) # "panic"
  <1> DEFINE file == files[p]
             s == source[p]
             h == parse(file.page)
  <1>1. CASE file.page = ZeroPage
    BY <1>1, BlankNeverOpens
  <1>2. CASE Complete(s, file) /\ PagePartial(s, file)
    <2>1. LET mphf_end == (HEADER_SIZE + h.mphf_size) % U64 IN
          ~(mphf_end > file.size \/ mphf_end < HEADER_SIZE)
      BY <1>2, IndexEnd
    <2>2. deserialize_error(h.mphf_size, file.index) # "panic"
      BY DEF deserialize_error
    <2>3. open_index(file.size, h, file.index) # "panic"
      BY <2>1, <2>2 DEF open_index
    <2>4. from_bytes(file.size, file.page) # "panic"
      BY DEF from_bytes, validate
    <2> QED
      BY <2>3, <2>4 DEF open
  <1> QED
    BY <1>1, <1>2, FileCases

\* A store that a complete file opens as knows its true number of records.
LEMMA OpenedCount ==
  ASSUME NEW s, NEW file, Complete(s, file), PagePartial(s, file), open(file) = "Ok"
  PROVE  parse(file.page).record_count = Len(s.keys)
  <1> DEFINE h == parse(file.page)
  <1>1. open_index(file.size, h, file.index) = "Ok"
    BY DEF open
  <1>2. file.index.key_count = h.record_count
    BY <1>1 DEF open_index
  <1>3. s.mphf.key_count = Len(s.keys)
    BY PerfectSlots DEF Complete, SourceOK
  <1> QED
    BY <1>2, <1>3 DEF Complete, Indexed, serialize

-------------------------------------------------------------------------------
(* get *)

\* The index of a complete file is the one that was built.
LEMMA IndexRead ==
  ASSUME NEW s, NEW file, Complete(s, file)
  PROVE  deserialize(file.index) = s.mphf
  <1>1. /\ file.index.key_count = s.mphf.key_count
        /\ file.index.body = s.mphf.function
    BY DEF Complete, Indexed, serialize
  <1>2. PICK f \in GOFunctions(s.keys) :
          s.mphf = [function |-> f, key_count |-> Len(s.keys)]
    BY DEF Complete, SourceOK, build_mphf
  <1> QED
    BY <1>1, <1>2 DEF deserialize

\* Any record of a complete file is one that was added.
LEMMA RecordsGiven ==
  ASSUME NEW s, NEW file, Complete(s, file), NEW o \in DOMAIN file.data
  PROVE  \E i \in 1..Len(s.keys) : o = Offset(s, i) /\ file.data[o] = GivenRecord(s, i)
  BY DEF Complete, Holds

\* A lookup in a complete file with the right count and offset is exact.
LEMMA GetExact ==
  ASSUME NEW p \in Paths, Complete(source[p], files[p]),
         parse(files[p].page).record_count = Len(source[p].keys),
         parse(files[p].page).data_offset = source[p].header.data_offset
  PROVE  Exact(p)
  <1> DEFINE s == source[p]
             file == files[p]
             n == Len(s.keys)
             slot(key) == mphf_get(s.mphf, key)
             r(key) == read_record(file, record_offset(s.header.data_offset, slot(key)))
  <1>1. /\ s.keys \in Seq(Keys) /\ s.values \in Seq(Values) /\ Len(s.values) = n
        /\ s.mphf \in build_mphf(s.keys) /\ n \in Nat /\ SourceOK(s)
    BY DEF Complete, SourceOK
  <1>2. ASSUME NEW key \in Keys
        PROVE  get(file, key) =
                 IF slot(key) = None \/ slot(key) >= n THEN None
                 ELSE IF r(key).key = key THEN r(key).value ELSE None
    BY IndexRead DEF get, key_equals
  <1>3. ASSUME NEW i \in 1..n
        PROVE  /\ s.keys[i] \in Keys
               /\ slot(s.keys[i]) \in 0..n-1
               /\ slot(s.keys[i]) # None
               /\ r(s.keys[i]) = GivenRecord(s, i)
    <2>1. s.keys[i] \in Keys /\ slot(s.keys[i]) \in 0..n-1
      BY <1>1, PerfectSlots
    <2>2. Offset(s, i) \in DOMAIN file.data /\ file.data[Offset(s, i)] = GivenRecord(s, i)
      BY DEF Complete, Holds
    <2>3. r(s.keys[i]) = GivenRecord(s, i)
      BY <2>2 DEF read_record, Offset
    <2> QED
      BY <2>1, <2>3, NoneAssumption
  <1>4. ASSUME NEW i \in 1..n
        PROVE  get(file, s.keys[i]) = s.values[i] /\ s.values[i] # None
    <2>1. ~(slot(s.keys[i]) >= n)
      BY <1>1, <1>3
    <2>2. r(s.keys[i]).key = s.keys[i] /\ r(s.keys[i]).value = s.values[i]
      <3> HIDE DEF r, slot
      <3>1. r(s.keys[i]) = GivenRecord(s, i)
        BY <1>3
      <3> QED
        BY <3>1 DEF GivenRecord
    <2>3. s.values[i] \in Values
      BY <1>1
    <2> HIDE DEF r, slot
    <2> QED
      BY <1>2, <1>3, <2>1, <2>2, <2>3, NoneAssumption
  <1>5. ASSUME NEW key \in Keys, get(file, key) # None
        PROVE  <<key, get(file, key)>> \in Given(p)
    <2>1. slot(key) # None /\ r(key).key = key /\ get(file, key) = r(key).value
      BY <1>2, <1>5
    <2>2. PICK i \in 1..n : slot(s.keys[i]) = slot(key)
      BY <1>1, <2>1, PerfectSlots
    <2>3. r(key) = GivenRecord(s, i)
      BY <1>3, <2>2
    <2>4. key = s.keys[i] /\ get(file, key) = s.values[i]
      BY <2>1, <2>3 DEF GivenRecord
    <2> QED
      BY <2>4 DEF Given
  <1>6. ASSUME NEW key \in Keys, get(file, key) = None, NEW value \in Values
        PROVE  <<key, value>> \notin Given(p)
    <2> SUFFICES ASSUME NEW i \in 1..n, key = s.keys[i] PROVE FALSE
      BY DEF Given
    <2> QED
      BY <1>4, <1>6
  <1> QED
    BY <1>5, <1>6 DEF Exact

-------------------------------------------------------------------------------
(* Files that are checked or whole *)

\* The checksum tells where the data section begins, and what it holds.
LEMMA VerifiedOffset ==
  ASSUME NEW s, NEW file, Complete(s, file), PagePartial(s, file), NEW data,
         LET h == parse(file.page) IN
           h.checksum = compute_checksum(file.size - h.data_offset, data)
  PROVE  parse(file.page).data_offset = s.header.data_offset /\ data = file.data
  <1> DEFINE h == parse(file.page)
  <1>1. /\ SourceOK(s)
        /\ s.header.data_offset \in Nat
        /\ file.size \in Nat
        /\ file.size >= s.header.data_offset
    BY CompleteSizes DEF RECORD_SIZE, KEY_SIZE, VALUE_SIZE
  <1>2. /\ h.data_offset \in {0, s.header.data_offset}
        /\ h.checksum \in {ZeroSum,
             compute_checksum(file.size - s.header.data_offset, file.data)}
    BY <1>1, ParsedWords
  <1>3. h.checksum.len = file.size - h.data_offset /\ h.checksum.data = data
    BY DEF compute_checksum
  <1>4. \/ h.checksum.len = -1
        \/ /\ h.checksum.len = file.size - s.header.data_offset
           /\ h.checksum.data = file.data
    BY <1>2 DEF ZeroSum, compute_checksum
  <1> HIDE DEF h
  <1>5. h.checksum.len # -1
    BY <1>1, <1>2, <1>3
  <1>6. h.data_offset = s.header.data_offset /\ data = file.data
    BY <1>1, <1>2, <1>3, <1>4, <1>5
  <1> QED
    BY <1>6 DEF h

\* What any build has left of a file that opens and verifies.
LEMMA CheckedFiles ==
  ASSUME IInv
  PROVE  CheckedIsExact
  <1> SUFFICES ASSUME NEW p \in Paths, files[p] # NoFile, open(files[p]) = "Ok",
                      verify_checksum(parse(files[p].page), files[p])
               PROVE  Exact(p)
    BY DEF CheckedIsExact
  <1>1. Complete(source[p], files[p]) /\ PagePartial(source[p], files[p])
    BY FileCases, BlankNeverOpens
  <1>2. parse(files[p].page).record_count = Len(source[p].keys)
    BY <1>1, OpenedCount
  <1>3. parse(files[p].page).data_offset = source[p].header.data_offset
    BY <1>1, VerifiedOffset DEF verify_checksum
  <1> QED
    BY <1>1, <1>2, <1>3, GetExact

\* What a build that returned Ok has left.
LEMMA BuiltFiles ==
  ASSUME IInv
  PROVE  BuiltIsExact
  <1> SUFFICES ASSUME NEW p \in Paths, built[p]
               PROVE  /\ open(files[p]) = (IF Len(source[p].keys) <= MAX_RECORDS
                                             THEN "Ok" ELSE "TooManyRecords")
                      /\ verify_checksum(parse(files[p].page), files[p])
                      /\ Exact(p)
    BY DEF BuiltIsExact
  <1> DEFINE s == source[p]
             file == files[p]
             h == parse(file.page)
             n == Len(s.keys)
  <1>1. Complete(s, file) /\ PageFinal(s, file) /\ file # NoFile
    BY DEF IInv, FilesInv
  <1>2. /\ SourceOK(s)
        /\ n \in Nat \ {0}
        /\ s.header.mphf_size \in Nat
        /\ s.header.mphf_size >= 8
        /\ s.header.data_offset \in Nat
        /\ s.header.data_offset >= HEADER_SIZE + s.header.mphf_size
        /\ file.size = s.header.data_offset + n * RECORD_SIZE
        /\ s.header.data_offset + n * RECORD_SIZE < U64
    BY <1>1, CompleteSizes
  <1>3. /\ h.magic = MAGIC_NUMBER
        /\ h.version = FORMAT_VERSION
        /\ h.record_count = n
        /\ h.mphf_size = s.header.mphf_size
        /\ h.data_offset = s.header.data_offset
        /\ h.checksum = compute_checksum(file.size - s.header.data_offset, file.data)
    BY <1>1, <1>2, FinalWords DEF PageFinal, parse
  <1>4. verify_checksum(h, file)
    BY <1>3 DEF verify_checksum
  <1>5. Exact(p)
    BY <1>1, <1>3, GetExact
  <1>6. file.size \in Nat /\ ~(file.size < HEADER_SIZE)
    BY <1>2 DEF HEADER_SIZE, RECORD_SIZE, KEY_SIZE, VALUE_SIZE
  <1>7. from_bytes(file.size, file.page) = IF n <= MAX_RECORDS THEN "Ok" ELSE "TooManyRecords"
    <2>1. n > MAX_RECORDS <=> ~(n <= MAX_RECORDS)
      BY <1>2, FormatAssumption
    <2> HIDE DEF h
    <2>2. validate(h) = IF n <= MAX_RECORDS THEN "Ok" ELSE "TooManyRecords"
      BY <1>3, <2>1 DEF validate
    <2> QED
      BY <1>6, <2>2 DEF from_bytes, h
  <1>8. open_index(file.size, h, file.index) = "Ok"
    <2>1. deserialize_error(h.mphf_size, file.index) = "Ok"
      <3>1. s.mphf.function \in [Keys -> (0..n-1) \cup {None}]
        BY <1>2, PerfectSlots DEF SourceOK
      <3>2. [Keys -> (0..n-1) \cup {None}] \subseteq [Keys -> Int \cup {None}]
        BY <1>2
      <3>3. file.index.body # Garbled
        BY <1>1, <3>1, <3>2, GarbledAssumption DEF Complete, Indexed, serialize
      <3>4. ~(h.mphf_size < 8)
        BY <1>2, <1>3
      <3> QED
        BY <3>3, <3>4 DEF deserialize_error
    <2>2. file.index.key_count = h.record_count
      <3>1. s.mphf.key_count = n
        BY <1>2, PerfectSlots DEF SourceOK
      <3> QED
        BY <1>1, <1>3, <3>1 DEF Complete, Indexed, serialize
    <2>3. ~((HEADER_SIZE + h.mphf_size) % U64 > file.size
            \/ (HEADER_SIZE + h.mphf_size) % U64 < HEADER_SIZE)
      <3>1. PagePartial(s, file)
        BY <1>1 DEF PagePartial, PageFinal
      <3> QED
        BY <1>1, <3>1, IndexEnd
    <2>4. ~(file.size < (h.data_offset + h.record_count * RECORD_SIZE) % U64)
      <3>1. (h.data_offset + h.record_count * RECORD_SIZE) % U64 = file.size
        BY <1>2, <1>3, <1>6, ModSmall, FormatAssumption
      <3> QED
        BY <1>6, <3>1
    <2> HIDE DEF h
    <2> QED
      BY <2>1, <2>2, <2>3, <2>4 DEF open_index
  <1>9. open(file) = IF n <= MAX_RECORDS THEN "Ok" ELSE "TooManyRecords"
    BY <1>1, <1>7, <1>8 DEF open
  <1> QED
    BY <1>4, <1>5, <1>9

-------------------------------------------------------------------------------
(* The theorems *)

\* KvStore::open never panics on a file of the builder, at any moment of its
\* build or after a kill.
THEOREM OpenPanicFree == Spec => []OpenNeverPanics
  <1>1. IInv => OpenNeverPanics
    BY OpenCases DEF OpenNeverPanics
  <1> QED
    BY <1>1, Inductive, PTL

\* A store over any file that opens and whose header says where the records begin,
\* its checksum unchecked and perhaps unwritten, answers exactly.
THEOREM LocatedSafe == Spec => []LocatedIsExact
  <1>1. ASSUME IInv PROVE LocatedIsExact
    <2> SUFFICES ASSUME NEW p \in Paths, files[p] # NoFile, open(files[p]) = "Ok",
                        parse(files[p].page).data_offset # 0
                 PROVE  Exact(p)
      BY DEF LocatedIsExact
    <2>1. Complete(source[p], files[p]) /\ PagePartial(source[p], files[p])
      BY <1>1, FileCases, BlankNeverOpens
    <2>2. parse(files[p].page).record_count = Len(source[p].keys)
      BY <2>1, OpenedCount
    <2>3. parse(files[p].page).data_offset = source[p].header.data_offset
      BY <2>1, ParsedWords DEF Complete
    <2> QED
      BY <2>1, <2>2, <2>3, GetExact
  <1> QED
    BY <1>1, Inductive, PTL

\* Whatever a killed build leaves behind: a file that opens and whose checksum
\* verifies answers exactly.
THEOREM KillSafe == Spec => []CheckedIsExact
  BY CheckedFiles, Inductive, PTL

\* A build that returned Ok has made a snapshot that opens, whose checksum
\* verifies and which answers exactly, unless it holds more records than a
\* header may say.
THEOREM BuiltUsable == Spec => []BuiltIsExact
  BY BuiltFiles, Inductive, PTL

===============================================================================
