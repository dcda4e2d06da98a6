---------------------------- MODULE SnapshotTools -----------------------------
(***************************************************************************)
(* The tools that read a snapshot and report on it: validator's check,     *)
(* verify, bench and diff, and snapshot-builder's validate and info, as    *)
(* functions of the files' contents. Their printing is left out; what they *)
(* count and with what status they exit is kept.                           *)
(***************************************************************************)
EXTENDS SnapshotFiles, FiniteSetsExt

CONSTANTS
  ShortKey,   \* a text of hex digits for other than 64 bytes
  LongValue,  \* a text of hex digits for more than 256 bytes
  OddHex,     \* a text with an odd number of hex digits
  NotHex      \* a text with a character that is no hex digit

\* None of these is the text of a key, or of values that begin alike.
ASSUME TextAssumption ==
  /\ {ShortKey, OddHex, NotHex} \cap Keys = {}
  /\ ShortKey \notin {OddHex, NotHex}
  /\ {LongValue, OddHex, NotHex} \cap ({ {v} : v \in Values } \cup {Values}) = {}

\* Seeded fault: the last slot is left out.
iter_short(file) ==
  LET h == parse(file.page)
  IN  [slot \in 0..h.record_count - 2 |-> read_record(file, record_offset(h.data_offset, slot))]

\* Seeded fault: 0..=record_count.
iter_inclusive(file) ==
  LET h == parse(file.page)
  IN  [slot \in 0..h.record_count |-> read_record(file, record_offset(h.data_offset, slot))]

\* KvStore::iter: the records in the order of their slots.
iter(file) ==
  LET h == parse(file.page)
  IN  [slot \in 0..h.record_count - 1 |-> read_record(file, record_offset(h.data_offset, slot))]

\* What get may return for a key that iter yielded. When that is a piece of the
\* header page the index sends it anywhere, so it is found or not.
lookups(file, key) ==
  IF key \in Keys THEN {get(file, key)}
  ELSE {None} \cup { record.value : record \in
         { iter(file)[slot] : slot \in { s \in DOMAIN iter(file) : iter(file)[s].key = key } } }

\* The samples choose_multiple may draw, as sets of slots.
choose_multiple(file, sample_size) ==
  LET slots == DOMAIN iter(file)
  IN  kSubset(Min({sample_size, Cardinality(slots)}), slots)

\* validator check: what open returned, or the verdicts a sample may get.
check_snapshot(file, sample) ==
  IF open(file) # "Ok" THEN {open(file)}
  ELSE LET found(slot) == lookups(file, iter(file)[slot].key)
       IN  (IF \A slot \in sample : found(slot) # {None} THEN {"PASS"} ELSE {})
             \cup (IF \E slot \in sample : None \in found(slot) THEN {"FAIL"} ELSE {})

\* snapshot-builder validate asks the same.
validate_snapshot(file, sample) == check_snapshot(file, sample)

\* snapshot-builder info, on a file that opens.
print_info(file) ==
  LET h == parse(file.page)
  IN  [record_count |-> h.record_count, file_size |-> file.size,
       build_timestamp |-> h.build_timestamp, data_size |-> h.record_count * RECORD_SIZE]

\* validator bench: preload touches every page, the keys are looked up in turn
\* and the answers dropped. An empty snapshot is refused.
benchmark_lookups(file) ==
  IF open(file) # "Ok" THEN open(file)
  ELSE IF DOMAIN iter(file) = {} THEN "Err" ELSE "Ok"

\* The slice s[i..i + 2] of an odd last digit is out of bounds.
hex_decode(text) ==
  IF text = OddHex THEN "panic" ELSE IF text = NotHex THEN "Err" ELSE "Ok"

\* Seeded fault: a value that differs is not counted as failed.
value_matches_any(value, prefixes) == TRUE

\* value[..expected.len()] == expected: the text is given as the set of values
\* that begin with its bytes.
value_matches(value, prefixes) == value \in prefixes

\* One pair of the expected file.
verify_pair(file, pair) ==
  IF hex_decode(pair.key) # "Ok" THEN hex_decode(pair.key)
  ELSE IF hex_decode(pair.value) # "Ok" THEN hex_decode(pair.value)
  ELSE IF pair.key = ShortKey THEN "skipped"
  ELSE IF get(file, pair.key) = None THEN "failed"
  ELSE IF pair.value = LongValue THEN "panic"
  ELSE IF value_matches(get(file, pair.key), pair.value) THEN "passed" ELSE "failed"

\* validator verify: what open returned, "Ok", "Err" or "panic".
verify_expected(file, pairs) ==
  LET stops == { i \in 1..Len(pairs) : verify_pair(file, pairs[i]) \in {"Err", "panic"} }
  IN  IF open(file) # "Ok" THEN open(file)
      ELSE IF stops # {} THEN verify_pair(file, pairs[Min(stops)])
      ELSE IF \E i \in 1..Len(pairs) : verify_pair(file, pairs[i]) = "failed" THEN "Err"
      ELSE "Ok"

\* validator diff of two files that open and whose iter yields keys.
diff_snapshots(a, b) ==
  LET missing(f, g) == { slot \in DOMAIN iter(f) : get(g, iter(f)[slot].key) = None }
      differing == { slot \in DOMAIN iter(a) \ missing(a, b) :
                       get(b, iter(a)[slot].key) # iter(a)[slot].value }
  IN  [in_a_only |-> Cardinality(missing(a, b)), in_b_only |-> Cardinality(missing(b, a)),
       value_differs |-> Cardinality(differing)]

===============================================================================
