-------------------------------- MODULE Ingest ---------------------------------
(***************************************************************************)
(* The input side of snapshot-builder's command line (main.rs): csv,       *)
(* binary and random read or make rows, convert each to a key and a value  *)
(* of fixed width and add it to a SnapshotBuilder, which then builds.      *)
(* A key is here the sequence of its KeyWidth bytes.                       *)
(***************************************************************************)
EXTENDS SnapshotBuilderInv, SequencesExt

CONSTANTS
  Bytes,        \* the values of a byte, 0 among them
  KeyWidth,     \* KEY_SIZE, counted in bytes of the model
  ValueWidth,   \* VALUE_SIZE, likewise
  KeyTexts,     \* the fields a key column may have
  ValueTexts,   \* the fields a value column may have
  Ragged        \* a line the csv reader refuses, or one without the columns

ASSUME IngestAssumption ==
  /\ 0 \in Bytes /\ Bytes \subseteq Nat
  /\ KeyWidth \in Nat \ {0} /\ ValueWidth \in Nat \ {0}
  /\ Keys = [1..KeyWidth -> Bytes]
  /\ Values = [1..ValueWidth -> Bytes]
  /\ KeyTexts \subseteq Seq(Bytes)
  /\ ValueTexts \subseteq Seq(Bytes)

VARIABLES
  command,   \* which of the commands runs
  rows,      \* its rows that are not yet read
  data       \* history: all its rows

cli == <<command, rows, data>>

\* Seeded fault: the last of the bytes is not copied.
pad_short(text, width) == [i \in 1..width |-> IF i < Len(text) THEN text[i] ELSE 0]

\* Zeros, over which as much of the text is copied as there is room for.
pad(text, width) == [i \in 1..width |-> IF i <= Len(text) THEN text[i] ELSE 0]

string_to_key(s) == pad(s, KeyWidth)
string_to_value(s) == pad(s, ValueWidth)

\* What a row becomes: csv converts the texts of its columns.
row_key(row) == IF command = "csv" THEN string_to_key(row.key) ELSE row.key
row_value(row) == IF command = "csv" THEN string_to_value(row.value) ELSE row.value

CsvRows == { [key |-> k, value |-> v] : k \in KeyTexts, v \in ValueTexts }

\* The files csv may be given: nothing, or a header line and at most MaxRecords
\* others. has_header is a flag whose default is set: it cannot be cleared.
CsvFiles == {<<>>} \cup
  { <<"header">> \o lines : lines \in BoundedSeq(CsvRows \cup {Ragged}, MaxRecords) }

csv_rows(lines) == IF lines = <<>> THEN <<>> ELSE Tail(lines)

\* The files binary may be given.
BinaryFiles == BoundedSeq(Bytes, MaxRecords * (KeyWidth + ValueWidth))

\* A file whose size is no multiple of the record's is refused.
Divisible(file) == Len(file) % (KeyWidth + ValueWidth) = 0

binary_rows(file) ==
  LET width == KeyWidth + ValueWidth
  IN  [i \in 1..Len(file) \div width |->
        [key   |-> SubSeq(file, (i - 1) * width + 1, (i - 1) * width + KeyWidth),
         value |-> SubSeq(file, (i - 1) * width + KeyWidth + 1, i * width)]]

\* A random key begins with the record's number, the rest and the value is any.
random_rows(count) ==
  { made \in [1..count -> [key : Keys, value : Values]] :
      \A i \in 1..count : made[i].key[1] = i - 1 }

-------------------------------------------------------------------------------

IngestInit == Init /\ command = "none" /\ rows = <<>> /\ data = <<>>

Run(p, cmd, input_rows) ==
  /\ Start(p)
  /\ command' = cmd
  /\ rows' = input_rows
  /\ data' = input_rows

build_from_csv(p, lines) == Run(p, "csv", csv_rows(lines))
build_from_binary(p, file) == Divisible(file) /\ Run(p, "binary", binary_rows(file))
build_random(p, made) == Run(p, "random", made)

\* Seeded fault: a bad line is skipped.
ReadRow_lenient ==
  /\ rows # <<>>
  /\ IF Head(rows) = Ragged
       THEN pc = "adding" /\ UNCHANGED vars
       ELSE add_record(row_key(Head(rows)), row_value(Head(rows)))
  /\ rows' = Tail(rows)
  /\ UNCHANGED <<command, data>>

\* The next row becomes a record; a bad line ends the command.
ReadRow ==
  /\ rows # <<>>
  /\ IF Head(rows) = Ragged
       THEN pc = "adding" /\ Halt("failed")
       ELSE add_record(row_key(Head(rows)), row_value(Head(rows)))
  /\ rows' = Tail(rows)
  /\ UNCHANGED <<command, data>>

\* builder.build(&output), when all rows are read.
Build ==
  /\ rows = <<>>
  /\ Work \/ BuildAbort \/ IoError
  /\ UNCHANGED cli

\* The process is killed, while it reads or while it builds.
KillCommand == Kill /\ UNCHANGED cli

IngestNext ==
  \/ \E p \in Paths :
       \/ \E lines \in CsvFiles : build_from_csv(p, lines)
       \/ \E file \in BinaryFiles : build_from_binary(p, file)
       \/ \E made \in UNION { random_rows(n) : n \in 0..MaxRecords } : build_random(p, made)
  \/ ReadRow
  \/ Build
  \/ KillCommand

IngestSpec == IngestInit /\ [][IngestNext]_<<vars, cli>>

-------------------------------------------------------------------------------
(* The invariant of the proofs *)

Row == IF command = "csv" THEN CsvRows \cup {Ragged} ELSE [key : Keys, value : Values]

\* The rows added so far and those to come are all rows of the input, in order.
ReadInv ==
  /\ Len(data) = Len(keys) + Len(rows)
  /\ \A i \in 1..Len(rows) : rows[i] = data[Len(keys) + i]
  /\ \A i \in 1..Len(keys) :
       /\ data[i] # Ragged
       /\ keys[i] = row_key(data[i])
       /\ values[i] = row_value(data[i])

\* While a command runs, and when it has succeeded, nothing of its input is lost;
\* the build begins when all of it was read.
RowsInv ==
  /\ rows \in Seq(Row)
  /\ data \in Seq(Row)
  /\ pc \in Steps \cup {"done"} => ReadInv
  /\ pc \in Steps \cup {"done"} /\ pc # "adding" => rows = <<>>
  /\ pc = "done" =>
       /\ built[path]
       /\ source[path].keys = keys
       /\ source[path].values = values

-------------------------------------------------------------------------------
(* Properties *)

\* Two texts that a reader of the snapshot cannot tell apart: equal as far as a
\* key goes, once the end of the shorter one is filled up.
SameKey(s, t) ==
  \A i \in 1..KeyWidth :
    (IF i > Len(s) THEN 0 ELSE s[i]) = (IF i > Len(t) THEN 0 ELSE t[i])

\* The fields of two rows that become the same key.
Collide(i, j) ==
  i # j /\ data[i] # Ragged /\ data[j] # Ragged /\ SameKey(data[i].key, data[j].key)

\* A successful command means that every row of its input, no line dropped, no
\* two merged, is in the snapshot: a text is found just if a row has it in its
\* key column (as far as a key goes), with the bytes of that row's value.
IngestIsExact ==
  pc = "done" =>
    \A text \in KeyTexts :
      LET matching == { i \in 1..Len(data) : data[i] # Ragged /\ SameKey(data[i].key, text) }
          answer == get(files[path], string_to_key(text))
      IN  /\ Cardinality(matching) <= 1
          /\ (answer = None) = (matching = {})
          /\ \A i \in matching : \A b \in 1..ValueWidth :
               answer[b] = (IF b > Len(data[i].value) THEN 0 ELSE data[i].value[b])

\* A command given a bad line, or rows that share a key, changes no file: the
\* snapshot an earlier build left at the path is still there.
BadInputLeavesFiles ==
  [][\/ \E i \in 1..Len(data) : data[i] = Ragged
     \/ \E i, j \in 1..Len(data) : Collide(i, j)
     => files' = files]_<<vars, cli>>

===============================================================================
