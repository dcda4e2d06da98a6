----------------------------- MODULE Ingest_proofs ------------------------------
(***************************************************************************)
(* What a command of snapshot-builder that succeeds has put into its       *)
(* snapshot, and what one with bad input leaves alone, for any widths of   *)
(* keys and values, any texts and any number of rows.                      *)
(***************************************************************************)
EXTENDS Ingest, SnapshotSafety_proofs, SequenceTheorems, FiniteSetTheorems

-------------------------------------------------------------------------------
(* Conversion of a row *)

\* Padding gives a text its width, and leaves alone what has it.
LEMMA PadText ==
  ASSUME NEW s \in Seq(Bytes), NEW w \in Nat
  PROVE  /\ pad(s, w) \in [1..w -> Bytes]
         /\ s \in [1..w -> Bytes] => pad(s, w) = s
  <1>1. Len(s) \in Nat /\ \A i \in 1..Len(s) : s[i] \in Bytes
    OBVIOUS
  <1>2. pad(s, w) \in [1..w -> Bytes]
    BY <1>1, IngestAssumption DEF pad
  <1>3. ASSUME s \in [1..w -> Bytes] PROVE pad(s, w) = s
    <2>1. Len(s) = w
      BY <1>3, LenProperties
    <2>2. \A i \in 1..w : pad(s, w)[i] = s[i]
      BY <2>1 DEF pad
    <2> QED
      BY <1>2, <1>3, <2>2
  <1> QED
    BY <1>2, <1>3

\* Keys and values are texts of their width.
LEMMA FixedWidth ==
  /\ Keys \subseteq Seq(Bytes) /\ Values \subseteq Seq(Bytes)
  /\ \A k \in Keys : string_to_key(k) = k
  /\ \A v \in Values : string_to_value(v) = v
  /\ \A s \in Seq(Bytes) : string_to_key(s) \in Keys /\ string_to_value(s) \in Values
  <1>1. Keys \subseteq Seq(Bytes) /\ Values \subseteq Seq(Bytes)
    BY IngestAssumption
  <1> QED
    BY <1>1, PadText, IngestAssumption DEF string_to_key, string_to_value

\* A row that is not refused has texts, and becomes what csv would make of them.
LEMMA Converted ==
  ASSUME NEW row \in Row, row # Ragged
  PROVE  /\ row.key \in Seq(Bytes) /\ row.value \in Seq(Bytes)
         /\ row_key(row) = string_to_key(row.key) /\ row_key(row) \in Keys
         /\ row_value(row) = string_to_value(row.value) /\ row_value(row) \in Values
  <1>1. CASE command = "csv"
    <2>1. PICK k \in KeyTexts, v \in ValueTexts : row = [key |-> k, value |-> v]
      BY <1>1 DEF Row, CsvRows
    <2>2. row.key \in Seq(Bytes) /\ row.value \in Seq(Bytes)
      BY <2>1, IngestAssumption
    <2> QED
      BY <1>1, <2>2, FixedWidth DEF row_key, row_value
  <1>2. CASE command # "csv"
    <2>1. row.key \in Keys /\ row.value \in Values
      BY <1>2 DEF Row
    <2> QED
      BY <1>2, <2>1, FixedWidth DEF row_key, row_value
  <1> QED
    BY <1>1, <1>2

\* Texts that a reader cannot tell apart are those that become the same key.
LEMMA SameKeys ==
  ASSUME NEW s \in Seq(Bytes), NEW t \in Seq(Bytes)
  PROVE  SameKey(s, t) <=> string_to_key(s) = string_to_key(t)
  <1>1. Len(s) \in Nat /\ Len(t) \in Nat /\ KeyWidth \in Nat
    BY IngestAssumption
  <1> DEFINE a == string_to_key(s)
             b == string_to_key(t)
  <1>2. /\ a = [i \in 1..KeyWidth |-> IF i > Len(s) THEN 0 ELSE s[i]]
        /\ b = [i \in 1..KeyWidth |-> IF i > Len(t) THEN 0 ELSE t[i]]
    BY <1>1 DEF string_to_key, pad
  <1>3. a = b <=> \A i \in 1..KeyWidth : a[i] = b[i]
    BY <1>2
  <1>4. \A i \in 1..KeyWidth : /\ a[i] = (IF i > Len(s) THEN 0 ELSE s[i])
                               /\ b[i] = (IF i > Len(t) THEN 0 ELSE t[i])
    BY <1>2
  <1> HIDE DEF a, b
  <1>5. SameKey(s, t) <=> \A i \in 1..KeyWidth : a[i] = b[i]
    BY <1>4 DEF SameKey
  <1> QED
    BY <1>3, <1>5 DEF a, b

-------------------------------------------------------------------------------
(* The rows of an input *)

LEMMA FunctionIsSeq ==
  ASSUME NEW S, NEW n \in Nat, NEW f \in [1..n -> S]
  PROVE  f \in Seq(S)
  OBVIOUS

LEMMA BoundedSeqs ==
  ASSUME NEW S, NEW n \in Nat, NEW s \in BoundedSeq(S, n)
  PROVE  s \in Seq(S)
  <1>1. PICK m \in 0..n : s \in [1..m -> S]
    BY DEF BoundedSeq, SeqOf
  <1> QED
    BY <1>1

LEMMA TailOfHeader ==
  ASSUME NEW S, NEW x, NEW s \in Seq(S)
  PROVE  Tail(<<x>> \o s) = s
  <1>1. s \in Seq(S \cup {x}) /\ <<x>> \in Seq(S \cup {x})
    BY SeqMonotonic
  <1>2. Tail(<<x>> \o s) = s
    BY <1>1
  <1> QED
    BY <1>2

\* A row ends before the file does.
LEMMA RowFits ==
  ASSUME NEW n \in Nat, NEW w \in Nat \ {0}, NEW i \in 1..n \div w
  PROVE  (i - 1) * w \in Nat /\ i * w = (i - 1) * w + w /\ i * w <= n
  <1> DEFINE q == n \div w
  <1>1. q \in Nat /\ q * w <= n
    OBVIOUS
  <1>2. i \in Nat /\ i - 1 \in Nat /\ i <= q
    BY <1>1
  <1> HIDE DEF q
  <1>3. i * w <= q * w
    BY <1>1, <1>2
  <1> QED
    BY <1>1, <1>2, <1>3

\* The bytes of a part of a file.
LEMMA Slice ==
  ASSUME NEW file \in Seq(Bytes), NEW o \in Nat, NEW w \in Nat, o + w <= Len(file)
  PROVE  SubSeq(file, o + 1, o + w) \in [1..w -> Bytes]
  <1> DEFINE s == SubSeq(file, o + 1, o + w)
  <1>1. \A i \in (o + 1)..(o + w) : file[i] \in Bytes
    OBVIOUS
  <1>2. s \in Seq(Bytes) /\ Len(s) = w
    BY <1>1, SubSeqProperties
  <1> HIDE DEF s
  <1>3. s \in [1..w -> Bytes]
    BY <1>2, LenProperties
  <1> QED
    BY <1>3 DEF s

LEMMA CsvTyped ==
  ASSUME NEW lines \in CsvFiles
  PROVE  csv_rows(lines) \in Seq(CsvRows \cup {Ragged})
  <1> DEFINE S == CsvRows \cup {Ragged}
  <1>1. CASE lines = <<>>
    BY <1>1 DEF csv_rows
  <1>2. CASE lines # <<>>
    <2>1. PICK l \in BoundedSeq(S, MaxRecords) : lines = <<"header">> \o l
      BY <1>2 DEF CsvFiles
    <2>2. l \in Seq(S)
      BY <2>1, BoundedSeqs, BuilderAssumption
    <2> HIDE DEF S
    <2>3. csv_rows(lines) = l
      BY <1>2, <2>1, <2>2, TailOfHeader DEF csv_rows
    <2> QED
      BY <2>2, <2>3 DEF S
  <1> QED
    BY <1>1, <1>2

LEMMA BinaryTyped ==
  ASSUME NEW file \in BinaryFiles
  PROVE  binary_rows(file) \in Seq([key : Keys, value : Values])
  <1> DEFINE w == KeyWidth + ValueWidth
             n == Len(file)
  <1>1. /\ KeyWidth \in Nat \ {0} /\ ValueWidth \in Nat \ {0} /\ w \in Nat \ {0}
        /\ MaxRecords * w \in Nat
    BY IngestAssumption, BuilderAssumption
  <1>2. file \in Seq(Bytes) /\ n \in Nat
    BY <1>1, BoundedSeqs DEF BinaryFiles
  <1>3. ASSUME NEW i \in 1..n \div w
        PROVE  /\ SubSeq(file, (i - 1) * w + 1, (i - 1) * w + KeyWidth) \in Keys
               /\ SubSeq(file, (i - 1) * w + KeyWidth + 1, i * w) \in Values
    <2> DEFINE o == (i - 1) * w
    <2>1. o \in Nat /\ i * w = o + w /\ i * w <= n
      BY <1>1, <1>2, RowFits
    <2> HIDE DEF o
    <2>2. SubSeq(file, o + 1, o + KeyWidth) \in [1..KeyWidth -> Bytes]
      BY <1>1, <1>2, <2>1, Slice
    <2>3. SubSeq(file, o + KeyWidth + 1, o + KeyWidth + ValueWidth)
            \in [1..ValueWidth -> Bytes]
      <3>1. o + KeyWidth \in Nat /\ o + KeyWidth + ValueWidth <= n
        BY <1>1, <1>2, <2>1
      <3> QED
        BY <1>1, <1>2, <3>1, Slice
    <2>4. o + KeyWidth + ValueWidth = i * w
      BY <1>1, <2>1
    <2> QED
      BY <2>2, <2>3, <2>4, IngestAssumption DEF o
  <1>4. n \div w \in Nat
    BY <1>1, <1>2
  <1>5. binary_rows(file) \in [1..n \div w -> [key : Keys, value : Values]]
    BY <1>3 DEF binary_rows
  <1> QED
    BY <1>4, <1>5, FunctionIsSeq

LEMMA RandomTyped ==
  ASSUME NEW n \in 0..MaxRecords, NEW made \in random_rows(n)
  PROVE  made \in Seq([key : Keys, value : Values])
  <1>1. made \in [1..n -> [key : Keys, value : Values]]
    BY DEF random_rows
  <1>2. n \in Nat
    BY BuilderAssumption
  <1> QED
    BY <1>1, <1>2, FunctionIsSeq

-------------------------------------------------------------------------------
(* The steps *)

LEMMA IngestInitInv == IngestInit => IInv /\ RowsInv
  <1> SUFFICES ASSUME IngestInit PROVE IInv /\ RowsInv
    OBVIOUS
  <1>1. IInv
    BY InitInv DEF IngestInit
  <1>2. RowsInv
    BY DEF IngestInit, Init, RowsInv, Steps
  <1> QED
    BY <1>1, <1>2

LEMMA RunStep ==
  ASSUME IInv, NEW p \in Paths, NEW cmd, NEW input_rows, Run(p, cmd, input_rows),
         input_rows \in Seq(Row')
  PROVE  IInv' /\ RowsInv'
  <1>1. IInv'
    BY StartStep DEF Run
  <1>2. rows' = input_rows /\ data' = input_rows /\ keys' = <<>> /\ pc' = "adding"
    BY DEF Run, Start
  <1>3. ReadInv'
    BY <1>2 DEF ReadInv
  <1> QED
    BY <1>1, <1>2, <1>3 DEF RowsInv

LEMMA CsvStep ==
  ASSUME IInv, NEW p \in Paths, NEW lines \in CsvFiles, build_from_csv(p, lines)
  PROVE  IInv' /\ RowsInv'
  <1>1. Row' = CsvRows \cup {Ragged}
    BY DEF build_from_csv, Run, Row
  <1>2. csv_rows(lines) \in Seq(Row')
    BY <1>1, CsvTyped
  <1> QED
    BY <1>2, RunStep DEF build_from_csv

LEMMA BinaryStep ==
  ASSUME IInv, NEW p \in Paths, NEW file \in BinaryFiles, build_from_binary(p, file)
  PROVE  IInv' /\ RowsInv'
  <1>1. Row' = [key : Keys, value : Values]
    BY DEF build_from_binary, Run, Row
  <1>2. binary_rows(file) \in Seq(Row')
    BY <1>1, BinaryTyped
  <1> QED
    BY <1>2, RunStep DEF build_from_binary

LEMMA RandomStep ==
  ASSUME IInv, NEW p \in Paths, NEW n \in 0..MaxRecords, NEW made \in random_rows(n),
         build_random(p, made)
  PROVE  IInv' /\ RowsInv'
  <1>1. Row' = [key : Keys, value : Values]
    BY DEF build_random, Run, Row
  <1>2. made \in Seq(Row')
    BY <1>1, RandomTyped
  <1> QED
    BY <1>2, RunStep DEF build_random

\* A row that is read goes to the end of the builder's vectors.
LEMMA ReadRowStep ==
  ASSUME IInv, RowsInv, ReadRow
  PROVE  IInv' /\ RowsInv'
  <1> DEFINE row == Head(rows)
  <1>1. /\ rows \in Seq(Row) /\ rows # <<>> /\ row \in Row /\ row = rows[1]
        /\ rows' = Tail(rows) /\ command' = command /\ data' = data
        /\ data \in Seq(Row)
    BY DEF RowsInv, ReadRow
  <1>2. /\ Tail(rows) \in Seq(Row) /\ Len(Tail(rows)) = Len(rows) - 1
        /\ \A i \in 1..Len(Tail(rows)) : Tail(rows)[i] = rows[i + 1]
        /\ Len(rows) \in Nat \ {0}
    BY <1>1
  <1>3. Row' = Row
    BY <1>1 DEF Row
  <1>4. CASE row = Ragged
    <2>1. Halt("failed")
      BY <1>4 DEF ReadRow
    <2>2. IInv'
      BY <2>1, HaltStep DEF Ended
    <2>3. pc' = "failed"
      BY <2>1 DEF Halt
    <2> QED
      BY <1>1, <1>2, <1>3, <2>2, <2>3 DEF RowsInv, Steps
  <1>5. CASE row # Ragged
    <2> DEFINE key == row_key(row)
               value == row_value(row)
    <2>1. add_record(key, value)
      BY <1>5 DEF ReadRow
    <2>2. key \in Keys /\ value \in Values
      BY <1>1, <1>5, Converted
    <2>3. IInv'
      BY <2>1, <2>2, AddRecordStep
    <2>4. /\ pc = "adding" /\ pc' = "adding"
          /\ keys' = Append(keys, key) /\ values' = Append(values, value)
          /\ keys \in Seq(Keys) /\ values \in Seq(Values) /\ Len(values) = Len(keys)
      BY <2>1 DEF add_record, IInv, MemoryInv
    <2>5. ReadInv
      BY <2>4 DEF RowsInv, Steps
    <2>6. \A x : row_key(x)' = row_key(x) /\ row_value(x)' = row_value(x)
      BY <1>1 DEF row_key, row_value
    <2>7. ReadInv'
      <3>1. /\ Len(keys') = Len(keys) + 1 /\ Len(keys) \in Nat
            /\ \A i \in 1..Len(keys) : keys'[i] = keys[i] /\ values'[i] = values[i]
            /\ keys'[Len(keys) + 1] = key /\ values'[Len(keys) + 1] = value
        <4> HIDE DEF key, value
        <4> QED
          BY <2>2, <2>4
      <3>2. row = data[Len(keys) + 1]
        BY <1>1, <1>2, <2>5 DEF ReadInv
      <3>3. Len(data') = Len(keys') + Len(rows')
        BY <1>1, <1>2, <2>5, <3>1 DEF ReadInv
      <3>4. ASSUME NEW i \in 1..Len(rows') PROVE rows'[i] = data'[Len(keys') + i]
        <4>1. i + 1 \in 1..Len(rows) /\ rows'[i] = rows[i + 1]
          BY <1>1, <1>2
        <4>2. rows[i + 1] = data[Len(keys) + (i + 1)]
          BY <2>5, <4>1 DEF ReadInv
        <4>3. Len(keys) + (i + 1) = Len(keys') + i
          BY <3>1
        <4> QED
          BY <1>1, <4>1, <4>2, <4>3
      <3>5. ASSUME NEW i \in 1..Len(keys')
            PROVE  data[i] # Ragged /\ keys'[i] = row_key(data[i]) /\ values'[i] = row_value(data[i])
        <4>1. CASE i = Len(keys) + 1
          BY <1>5, <3>1, <3>2, <4>1
        <4>2. CASE i \in 1..Len(keys)
          BY <2>5, <3>1, <4>2 DEF ReadInv
        <4> QED
          BY <3>1, <4>1, <4>2
      <3> QED
        BY <1>1, <2>6, <3>3, <3>4, <3>5 DEF ReadInv
    <2> QED
      BY <1>1, <1>2, <1>3, <2>3, <2>4, <2>7 DEF RowsInv
  <1> QED
    BY <1>4, <1>5

\* The steps of build keep what was added, and its source when it returns Ok.
LEMMA BuildFrame ==
  ASSUME IInv, Work \/ BuildAbort \/ IoError
  PROVE  /\ pc \in Steps
         /\ UNCHANGED <<path, keys, values>>
         /\ pc' # "adding"
         /\ pc' = "done" => /\ built'[path]
                            /\ source'[path].keys = keys
                            /\ source'[path].values = values
  <1>1. CASE Flush
    <2>1. pc = "flush" /\ source[path] = ThisSource(source[path].header)
      BY <1>1 DEF IInv, StepInv, Flush, Writing
    <2>2. built'[path]
      BY <1>1 DEF Flush, IInv, MemoryInv
    <2> QED
      BY <1>1, <2>1, <2>2 DEF Flush, input, ThisSource, Steps
  <1>2. CASE BuildEmpty \/ BuildAbort \/ IoError
    BY <1>2 DEF BuildEmpty, BuildAbort, IoError, Halt, input, Steps
  <1>3. CASE \/ \E m \in build_mphf(keys), mphf_size \in MphfLens, t \in Timestamps :
                  BuildIndex(m, mphf_size, t)
             \/ CreateFile \/ SetLen
    BY <1>3 DEF BuildIndex, CreateFile, SetLen, input, Steps
  <1>4. CASE WriteMphf \/ WriteKey \/ WriteValue
    BY <1>4 DEF WriteMphf, WriteKey, WriteValue, Halt, input, Steps
  <1>5. CASE Checksum \/ (\E o \in FieldOffsets : WriteHeaderWord(o)) \/ HeaderWritten
    BY <1>5 DEF Checksum, WriteHeaderWord, HeaderWritten, input, Steps
  <1> QED
    BY <1>1, <1>2, <1>3, <1>4, <1>5 DEF Work

\* What a step that adds no record leaves of the relation of rows and records.
LEMMA ReadFrame ==
  ASSUME ReadInv, UNCHANGED <<keys, values, command, rows, data>>
  PROVE  ReadInv'
  BY DEF ReadInv, row_key, row_value

LEMMA BuildStep ==
  ASSUME IInv, RowsInv, Build
  PROVE  IInv' /\ RowsInv'
  <1>1. IInv'
    BY NextInv DEF Build, Next
  <1>2. /\ pc \in Steps /\ pc' # "adding" /\ rows = <<>>
        /\ UNCHANGED <<path, keys, values, command, rows, data>>
        /\ pc' = "done" => /\ built'[path]
                           /\ source'[path].keys = keys
                           /\ source'[path].values = values
    BY BuildFrame DEF Build, cli
  <1>3. ReadInv'
    BY <1>2, ReadFrame DEF RowsInv
  <1>4. Row' = Row
    BY <1>2 DEF Row
  <1> QED
    BY <1>1, <1>2, <1>3, <1>4 DEF RowsInv

LEMMA KillCommandStep ==
  ASSUME IInv, RowsInv, KillCommand
  PROVE  IInv' /\ RowsInv'
  <1>1. IInv'
    BY HaltStep DEF KillCommand, Kill, Ended
  <1>2. pc' = "killed" /\ UNCHANGED <<command, rows, data>>
    BY DEF KillCommand, Kill, Halt, cli
  <1>3. Row' = Row
    BY <1>2 DEF Row
  <1> QED
    BY <1>1, <1>2, <1>3 DEF RowsInv, Steps

LEMMA IngestNextInv == IInv /\ RowsInv /\ [IngestNext]_<<vars, cli>> => IInv' /\ RowsInv'
  <1> SUFFICES ASSUME IInv, RowsInv, [IngestNext]_<<vars, cli>> PROVE IInv' /\ RowsInv'
    OBVIOUS
  <1>1. CASE UNCHANGED <<vars, cli>>
    <2>1. IInv'
      BY <1>1, NextInv
    <2>2. UNCHANGED <<pc, path, keys, values, command, rows, data, built, source>>
      BY <1>1 DEF vars, cli, input, history
    <2>3. Row' = Row /\ (ReadInv => ReadInv')
      BY <2>2, ReadFrame DEF Row
    <2> QED
      BY <2>1, <2>2, <2>3 DEF RowsInv
  <1>2. CASE \E p \in Paths, lines \in CsvFiles : build_from_csv(p, lines)
    BY <1>2, CsvStep
  <1>3. CASE \E p \in Paths, file \in BinaryFiles : build_from_binary(p, file)
    BY <1>3, BinaryStep
  <1>4. CASE \E p \in Paths : \E made \in UNION { random_rows(n) : n \in 0..MaxRecords } :
               build_random(p, made)
    BY <1>4, RandomStep
  <1>5. CASE ReadRow
    BY <1>5, ReadRowStep
  <1>6. CASE Build
    BY <1>6, BuildStep
  <1>7. CASE KillCommand
    BY <1>7, KillCommandStep
  <1> QED
    BY <1>1, <1>2, <1>3, <1>4, <1>5, <1>6, <1>7 DEF IngestNext

-------------------------------------------------------------------------------
(* The theorems *)

\* Two rows of one key make a key vector without an index.
LEMMA DistinctKeys ==
  ASSUME NEW s, SourceOK(s), NEW i \in 1..Len(s.keys), NEW j \in 1..Len(s.keys),
         s.keys[i] = s.keys[j]
  PROVE  i = j
  BY PerfectSlots DEF SourceOK

\* Past the input, every row is a record, under the key that its text becomes.
LEMMA AllRead ==
  ASSUME IInv, RowsInv, pc \in Steps \cup {"done"}, pc # "adding"
  PROVE  /\ Len(keys) = Len(data) /\ Len(keys) \in Nat
         /\ \A i \in 1..Len(data) :
              /\ data[i] # Ragged
              /\ data[i].key \in Seq(Bytes) /\ data[i].value \in Seq(Bytes)
              /\ keys[i] = string_to_key(data[i].key) /\ keys[i] \in Keys
              /\ values[i] = string_to_value(data[i].value) /\ values[i] \in Values
  <1>1. ReadInv /\ rows = <<>> /\ data \in Seq(Row)
    BY DEF RowsInv
  <1>2. Len(keys) = Len(data) /\ Len(keys) \in Nat
    BY <1>1 DEF ReadInv, IInv, MemoryInv
  <1>3. ASSUME NEW i \in 1..Len(data)
        PROVE  /\ data[i] # Ragged
               /\ data[i].key \in Seq(Bytes) /\ data[i].value \in Seq(Bytes)
               /\ keys[i] = string_to_key(data[i].key) /\ keys[i] \in Keys
               /\ values[i] = string_to_value(data[i].value) /\ values[i] \in Values
    <2>1. /\ data[i] \in Row /\ data[i] # Ragged
          /\ keys[i] = row_key(data[i]) /\ values[i] = row_value(data[i])
      BY <1>1, <1>2 DEF ReadInv
    <2> QED
      BY <2>1, Converted
  <1> QED
    BY <1>2, <1>3

\* While the file is written, the builder's vectors are those of a source.
LEMMA WritingSource ==
  ASSUME IInv, pc \in Writing \cup {"create"}
  PROVE  \E s : SourceOK(s) /\ s.keys = keys
  <1>1. CASE pc = "create"
    BY <1>1 DEF IInv, StepInv, ThisSource
  <1>2. CASE pc \in Writing
    BY <1>2 DEF IInv, StepInv, ThisSource
  <1> QED
    BY <1>1, <1>2

\* While a command runs, and when it has succeeded, its rows are those added so
\* far and those to come: the loops over the input lose and change none.
THEOREM RowsKept == IngestSpec => []RowsInv
  <1>1. IngestInit => IInv /\ RowsInv
    BY IngestInitInv
  <1>2. (IInv /\ RowsInv) /\ [IngestNext]_<<vars, cli>> => (IInv /\ RowsInv)'
    BY IngestNextInv
  <1> QED
    BY <1>1, <1>2, PTL DEF IngestSpec

LEMMA Exactness ==
  ASSUME IInv, RowsInv
  PROVE  IngestIsExact
  <1> SUFFICES ASSUME pc = "done", NEW text \in KeyTexts
               PROVE  LET matching == { i \in 1..Len(data) :
                                          data[i] # Ragged /\ SameKey(data[i].key, text) }
                          answer == get(files[path], string_to_key(text))
                      IN  /\ Cardinality(matching) <= 1
                          /\ (answer = None) = (matching = {})
                          /\ \A i \in matching : \A b \in 1..ValueWidth :
                               answer[b] = (IF b > Len(data[i].value) THEN 0
                                            ELSE data[i].value[b])
    BY DEF IngestIsExact
  <1> DEFINE matching == { i \in 1..Len(data) :
                             data[i] # Ragged /\ SameKey(data[i].key, text) }
             key == string_to_key(text)
             answer == get(files[path], key)
  <1>1. text \in Seq(Bytes) /\ key \in Keys
    BY IngestAssumption, FixedWidth
  <1>2. /\ Len(keys) = Len(data) /\ Len(keys) \in Nat
        /\ \A i \in 1..Len(data) :
             /\ data[i] # Ragged
             /\ data[i].key \in Seq(Bytes) /\ data[i].value \in Seq(Bytes)
             /\ keys[i] = string_to_key(data[i].key) /\ keys[i] \in Keys
             /\ values[i] = string_to_value(data[i].value) /\ values[i] \in Values
    BY AllRead
  <1>3. /\ path \in Paths /\ built[path]
        /\ source[path].keys = keys /\ source[path].values = values
    BY DEF IInv, MemoryInv, RowsInv
  <1>4. SourceOK(source[path]) /\ Exact(path)
    BY <1>3, BuiltFiles DEF IInv, FilesInv, Complete, BuiltIsExact
  <1>5. \A i \in 1..Len(data) : i \in matching <=> keys[i] = key
    BY <1>1, <1>2, SameKeys
  <1>6. \A i, j \in matching : i = j
    BY <1>2, <1>3, <1>4, <1>5, DistinctKeys
  <1>7. \A v : <<key, v>> \in Given(path) <=> \E i \in matching : v = values[i]
    <2>1. Given(path) = { <<keys[i], values[i]>> : i \in 1..Len(data) }
      BY <1>2, <1>3 DEF Given
    <2> QED
      BY <1>5, <2>1
  <1> HIDE DEF matching
  <1>8. Cardinality(matching) <= 1
    <2>1. CASE matching = {}
      BY <2>1, FS_EmptySet
    <2>2. CASE matching # {}
      <3>1. PICK i : matching = {i}
        BY <1>6, <2>2
      <3>2. Cardinality({i}) = 1
        BY FS_Singleton
      <3> QED
        BY <3>1, <3>2
    <2> QED
      BY <2>1, <2>2
  <1>9. matching \subseteq 1..Len(data)
    BY DEF matching
  <1>10. ASSUME answer = None PROVE matching = {}
    BY <1>1, <1>2, <1>4, <1>7, <1>9, <1>10 DEF Exact
  <1>11. ASSUME answer # None PROVE \E i \in matching : answer = values[i]
    BY <1>1, <1>4, <1>7, <1>11 DEF Exact
  <1>12. ASSUME NEW i \in matching, NEW b \in 1..ValueWidth
         PROVE  answer[b] = IF b > Len(data[i].value) THEN 0 ELSE data[i].value[b]
    <2>1. answer = values[i]
      BY <1>6, <1>10, <1>11
    <2> DEFINE v == data[i].value
    <2>2. v \in Seq(Bytes) /\ Len(v) \in Nat /\ b \in Nat
      BY <1>2, <1>9, IngestAssumption
    <2>3. answer = string_to_value(v)
      BY <1>2, <1>9, <2>1
    <2> HIDE DEF v, answer
    <2>4. answer[b] = IF b <= Len(v) THEN v[b] ELSE 0
      BY <2>3 DEF string_to_value, pad
    <2>5. b <= Len(v) <=> ~(b > Len(v))
      BY <2>2
    <2> QED
      BY <2>4, <2>5 DEF v
  <1>13. (answer = None) = (matching = {})
    BY <1>10, <1>11
  <1> QED
    BY <1>8, <1>12, <1>13 DEF matching

\* A command that succeeds has put exactly its rows into the snapshot, no line
\* dropped and no two merged, whatever the widths of keys, values and texts.
THEOREM IngestExact == IngestSpec => []IngestIsExact
  <1>1. IngestInit => IInv /\ RowsInv
    BY IngestInitInv
  <1>2. (IInv /\ RowsInv) /\ [IngestNext]_<<vars, cli>> => (IInv /\ RowsInv)'
    BY IngestNextInv
  <1>3. IInv /\ RowsInv => IngestIsExact
    BY Exactness
  <1> QED
    BY <1>1, <1>2, <1>3, PTL DEF IngestSpec

\* The steps that change a file are those of a build that has its index.
LEMMA FilesKept ==
  ASSUME [IngestNext]_<<vars, cli>>, files' # files
  PROVE  Build /\ pc \in Writing \cup {"create"}
  <1>1. Build
    <2>1. ~UNCHANGED <<vars, cli>> /\ ~ReadRow /\ ~KillCommand
      BY DEF vars, ReadRow, add_record, Halt, KillCommand, Kill
    <2>2. \A p, cmd, input_rows : ~Run(p, cmd, input_rows)
      BY DEF Run, Start
    <2> QED
      BY <2>1, <2>2 DEF IngestNext, build_from_csv, build_from_binary, build_random
  <1>2. ~BuildEmpty /\ ~BuildAbort /\ ~IoError /\ ~Checksum /\ ~HeaderWritten /\ ~Flush
    BY DEF BuildEmpty, BuildAbort, IoError, Checksum, HeaderWritten, Flush, Halt
  <1>3. \A m, mphf_size, t : ~BuildIndex(m, mphf_size, t)
    BY DEF BuildIndex
  <1>4. \/ CreateFile \/ SetLen \/ WriteMphf \/ WriteKey \/ WriteValue
        \/ \E o \in FieldOffsets : WriteHeaderWord(o)
    BY <1>1, <1>2, <1>3 DEF Build, Work
  <1> QED
    BY <1>1, <1>4
       DEF CreateFile, SetLen, WriteMphf, WriteKey, WriteValue, WriteHeaderWord, Writing

\* A bad line, or two rows of one key, and a build that has its index exclude
\* each other.
LEMMA BadInputStops ==
  ASSUME IInv, RowsInv, [IngestNext]_<<vars, cli>>, files' # files
  PROVE  /\ \A i \in 1..Len(data) : data[i] # Ragged
         /\ \A i, j \in 1..Len(data) : ~Collide(i, j)
  <1>1. pc \in Writing \cup {"create"}
    BY FilesKept
  <1>2. PICK s : SourceOK(s) /\ s.keys = keys
    BY <1>1, WritingSource
  <1>3. /\ Len(keys) = Len(data)
        /\ \A i \in 1..Len(data) :
             /\ data[i] # Ragged
             /\ data[i].key \in Seq(Bytes)
             /\ keys[i] = string_to_key(data[i].key)
    BY <1>1, AllRead DEF Writing, Steps
  <1>4. ASSUME NEW i \in 1..Len(data), NEW j \in 1..Len(data), Collide(i, j) PROVE FALSE
    <2>1. i # j /\ SameKey(data[i].key, data[j].key)
      BY <1>4 DEF Collide
    <2>2. keys[i] = keys[j]
      BY <1>3, <2>1, SameKeys
    <2> QED
      BY <1>2, <1>3, <2>1, <2>2, DistinctKeys
  <1> QED
    BY <1>3, <1>4

\* A command given a bad line, or two rows of one key, changes no file, at no
\* step, however many good rows it has read before.
THEOREM BadInputHarmless == IngestSpec => BadInputLeavesFiles
  <1>1. IngestInit => IInv /\ RowsInv
    BY IngestInitInv
  <1>2. (IInv /\ RowsInv) /\ [IngestNext]_<<vars, cli>> => (IInv /\ RowsInv)'
    BY IngestNextInv
  <1>3. IInv /\ RowsInv /\ [IngestNext]_<<vars, cli>> =>
          [\/ \E i \in 1..Len(data) : data[i] = Ragged
           \/ \E i, j \in 1..Len(data) : Collide(i, j)
           => files' = files]_<<vars, cli>>
    BY BadInputStops
  <1> QED
    BY <1>1, <1>2, <1>3, PTL DEF IngestSpec, BadInputLeavesFiles

===============================================================================
