------------------------ MODULE SnapshotReports_proofs ------------------------
(***************************************************************************)
(* What the tools say of a snapshot, and what KvStore::open makes of a     *)
(* copy that was cut short: for every set of keys and values, every index, *)
(* every sample and every expected file that lists what was added.         *)
(***************************************************************************)
EXTENDS SnapshotCopy, SnapshotReports, SnapshotSafety_proofs, FiniteSetTheorems

-------------------------------------------------------------------------------
(* Copies *)

\* A shorter file is refused: by the length of the header page, or by what the
\* header says the file must have.
LEMMA CutRefused ==
  ASSUME NEW s, NEW file, Complete(s, file), PageFinal(s, file),
         NEW len \in CutLens, len < file.size
  PROVE  open(Prefix(file, len)) # "Ok"
  <1> DEFINE copy == Prefix(file, len)
             h == parse(copy.page)
             n == Len(s.keys)
  <1>1. copy.size = len /\ len \in Nat
    BY CopyAssumption DEF Prefix
  <1>2. CASE len < HEADER_SIZE
    <2>1. from_bytes(copy.size, copy.page) # "Ok"
      BY <1>1, <1>2 DEF from_bytes
    <2> HIDE DEF copy
    <2> QED
      BY <2>1 DEF open, copy
  <1>3. CASE ~(len < HEADER_SIZE)
    <2>1. /\ SourceOK(s)
          /\ n \in Nat \ {0}
          /\ s.header.data_offset \in Nat
          /\ file.size = s.header.data_offset + n * RECORD_SIZE
          /\ s.header.data_offset + n * RECORD_SIZE < U64
      BY CompleteSizes
    <2>2. len >= HEADER_SIZE
      BY <1>1, <1>3 DEF HEADER_SIZE
    <2>3. copy.page = file.page
      BY <2>2 DEF Prefix
    <2>4. h.record_count = n /\ h.data_offset = s.header.data_offset
      BY <2>1, <2>3, FinalWords DEF PageFinal, parse
    <2>5. (h.data_offset + h.record_count * RECORD_SIZE) % U64 = file.size
      <3>1. file.size \in 0..U64-1
        BY <2>1, FormatAssumption DEF RECORD_SIZE, KEY_SIZE, VALUE_SIZE
      <3>2. file.size % U64 = file.size
        BY <3>1, FormatAssumption
      <3> QED
        BY <2>1, <2>4, <3>2
    <2>6. open_index(copy.size, h, copy.index) # "Ok"
      <3> HIDE DEF copy, h
      <3> QED
        BY <1>1, <2>5 DEF open_index, deserialize_error
    <2> HIDE DEF copy
    <2> QED
      BY <2>6 DEF open, copy
  <1> QED
    BY <1>2, <1>3

\* A copy of a finished snapshot that is shorter than it never opens, wherever
\* it was cut: the length checks of open (store.rs) suffice.
THEOREM CutRejected == Spec => []CutNeverOpens
  <1>1. ASSUME IInv PROVE CutNeverOpens
    <2> SUFFICES ASSUME NEW p \in Paths, built[p], NEW copy \in Copies(p)
                 PROVE  open(copy) # "Ok"
      BY DEF CutNeverOpens
    <2>1. Complete(source[p], files[p]) /\ PageFinal(source[p], files[p])
      BY <1>1 DEF IInv, FilesInv
    <2>2. PICK len \in CutLens : len < files[p].size /\ copy = Prefix(files[p], len)
      BY DEF Copies
    <2> QED
      BY <2>1, <2>2, CutRefused
  <1> QED
    BY <1>1, Inductive, PTL

-------------------------------------------------------------------------------
(* A file whose index may be damaged *)

\* A file answers as its build was told.
ExactFile(s, file) ==
  \A key \in Keys :
    /\ get(file, key) # None =>
         \E i \in 1..Len(s.keys) : key = s.keys[i] /\ get(file, key) = s.values[i]
    /\ get(file, key) = None => \A i \in 1..Len(s.keys) : key # s.keys[i]

LEMMA ExactFileIs ==
  ASSUME NEW p
  PROVE  /\ ExactFile(source[p], files[p]) => Exact(p)
         /\ ExactFile(source'[p], files'[p]) => Exact(p)'
  BY DEF ExactFile, Exact, Given

\* An index that is of the size of the one built, and sends keys anywhere.
SomeIndex(s, index) ==
  /\ index.key_count = Len(s.keys)
  /\ index.body \in [Keys -> (0..Len(s.keys)-1) \cup {None}]

LEMMA BuiltIndex ==
  ASSUME NEW s, NEW file, Complete(s, file)
  PROVE  SomeIndex(s, file.index)
  <1>1. SourceOK(s) /\ file.index = serialize(s.mphf, s.header.mphf_size)
    BY DEF Complete, Indexed
  <1> QED
    BY <1>1, PerfectSlots DEF SomeIndex, SourceOK, serialize

\* The index that was built leaves no slot free.
LEMMA EverySlot ==
  ASSUME NEW s, SourceOK(s), NEW slot \in 0..Len(s.keys)-1
  PROVE  \E i \in 1..Len(s.keys) : mphf_get(s.mphf, s.keys[i]) = slot
  <1> DEFINE n == Len(s.keys)
  <1>1. PICK f \in GOFunctions(s.keys) : s.mphf = [function |-> f, key_count |-> n]
    BY DEF SourceOK, build_mphf
  <1>2. PICK i \in 1..n : f[s.keys[i]] = slot
    BY <1>1 DEF GOFunctions
  <1>3. s.keys[i] \in Keys
    BY DEF SourceOK
  <1>4. mphf_get(s.mphf, s.keys[i]) = f[s.keys[i]]
    BY <1>1, <1>3, PerfectSlots DEF SourceOK
  <1> QED
    BY <1>2, <1>4

\* With all records in place and the right data offset, a damaged index can
\* make a lookup miss, but not find what was not added.
LEMMA AddedOrMissed ==
  ASSUME NEW s, SourceOK(s), NEW file, Holds(s, file.data, Len(s.keys)),
         parse(file.page).data_offset = s.header.data_offset,
         SomeIndex(s, file.index),
         NEW key \in Keys, get(file, key) # None
  PROVE  \E i \in 1..Len(s.keys) : key = s.keys[i] /\ get(file, key) = s.values[i]
  <1> DEFINE n == Len(s.keys)
             m == deserialize(file.index)
             slot == mphf_get(m, key)
             o == record_offset(s.header.data_offset, slot)
             r == read_record(file, o)
  <1>1. slot # None /\ key_equals(r, key) /\ get(file, key) = r.value
    BY DEF get
  <1>2. slot = file.index.body[key]
    BY <1>1 DEF mphf_get, deserialize, SomeIndex
  <1>3. slot \in 0..n-1
    BY <1>1, <1>2 DEF SomeIndex
  <1>4. PICK i \in 1..n : mphf_get(s.mphf, s.keys[i]) = slot
    BY <1>3, EverySlot
  <1> HIDE DEF slot
  <1>5. o = Offset(s, i)
    BY <1>4 DEF Offset
  <1>6. r = GivenRecord(s, i)
    BY <1>5 DEF Holds, read_record
  <1> HIDE DEF r
  <1> QED
    BY <1>1, <1>6 DEF key_equals, GivenRecord

\* What iter yields: of every record that was added one, and nothing else.
LEMMA Scanned ==
  ASSUME NEW s, SourceOK(s), NEW file, Holds(s, file.data, Len(s.keys)),
         parse(file.page).data_offset = s.header.data_offset,
         parse(file.page).record_count = Len(s.keys)
  PROVE  /\ DOMAIN iter(file) = 0..Len(s.keys)-1
         /\ \A slot \in 0..Len(s.keys)-1 :
              \E i \in 1..Len(s.keys) : iter(file)[slot] = GivenRecord(s, i)
         /\ \A i \in 1..Len(s.keys) :
              \E slot \in 0..Len(s.keys)-1 : iter(file)[slot] = GivenRecord(s, i)
  <1> DEFINE n == Len(s.keys)
  <1>1. iter(file) = [slot \in 0..n-1 |->
                        read_record(file, record_offset(s.header.data_offset, slot))]
    BY DEF iter
  <1>2. \A i \in 1..n : read_record(file, Offset(s, i)) = GivenRecord(s, i)
    BY DEF Holds, read_record
  <1>3. ASSUME NEW slot \in 0..n-1, NEW i \in 1..n, mphf_get(s.mphf, s.keys[i]) = slot
        PROVE  iter(file)[slot] = GivenRecord(s, i)
    BY <1>1, <1>2, <1>3 DEF Offset
  <1>4. \A i \in 1..n : mphf_get(s.mphf, s.keys[i]) \in 0..n-1
    BY PerfectSlots DEF SourceOK
  <1> HIDE DEF n
  <1>5. \A slot \in 0..n-1 : \E i \in 1..n : iter(file)[slot] = GivenRecord(s, i)
    BY <1>3, EverySlot DEF n
  <1>6. DOMAIN iter(file) = 0..n-1
    BY <1>1
  <1> QED
    BY <1>3, <1>4, <1>5, <1>6 DEF n

\* check and validate look up the key of every record of their sample.
LEMMA Sampled ==
  ASSUME NEW s, SourceOK(s), NEW file, Holds(s, file.data, Len(s.keys)),
         parse(file.page).data_offset = s.header.data_offset,
         parse(file.page).record_count = Len(s.keys),
         NEW slot \in DOMAIN iter(file)
  PROVE  lookups(file, iter(file)[slot].key) = {get(file, iter(file)[slot].key)}
  <1>0. /\ DOMAIN iter(file) = 0..Len(s.keys)-1
        /\ \A o \in 0..Len(s.keys)-1 :
             \E i \in 1..Len(s.keys) : iter(file)[o] = GivenRecord(s, i)
    BY Scanned
  <1>1. PICK i \in 1..Len(s.keys) : iter(file)[slot] = GivenRecord(s, i)
    BY <1>0
  <1>2. iter(file)[slot].key = s.keys[i] /\ s.keys[i] \in Keys
    BY <1>1 DEF GivenRecord, SourceOK
  <1> QED
    BY <1>2 DEF lookups

\* A check of every record covers the index.
LEMMA CheckedAllExact ==
  ASSUME NEW s, SourceOK(s), NEW file, Holds(s, file.data, Len(s.keys)),
         parse(file.page).data_offset = s.header.data_offset,
         parse(file.page).record_count = Len(s.keys),
         SomeIndex(s, file.index),
         open(file) = "Ok", "PASS" \in check_snapshot(file, DOMAIN iter(file))
  PROVE  ExactFile(s, file)
  <1>1. \A slot \in DOMAIN iter(file) : get(file, iter(file)[slot].key) # None
    <2>1. \A slot \in DOMAIN iter(file) : lookups(file, iter(file)[slot].key) # {None}
      BY DEF check_snapshot
    <2> QED
      BY <2>1, Sampled
  <1>2. \A i \in 1..Len(s.keys) : get(file, s.keys[i]) # None
    <2> SUFFICES ASSUME NEW i \in 1..Len(s.keys) PROVE get(file, s.keys[i]) # None
      OBVIOUS
    <2>0. /\ DOMAIN iter(file) = 0..Len(s.keys)-1
          /\ \E slot \in 0..Len(s.keys)-1 : iter(file)[slot] = GivenRecord(s, i)
      BY Scanned
    <2>1. PICK slot \in DOMAIN iter(file) : iter(file)[slot] = GivenRecord(s, i)
      BY <2>0
    <2>2. iter(file)[slot].key = s.keys[i]
      BY <2>1 DEF GivenRecord
    <2> QED
      BY <1>1, <2>2
  <1>3. \A key \in Keys : get(file, key) # None =>
          \E i \in 1..Len(s.keys) : key = s.keys[i] /\ get(file, key) = s.values[i]
    BY AddedOrMissed
  <1> QED
    BY <1>2, <1>3 DEF ExactFile

-------------------------------------------------------------------------------
(* verify *)

\* What verify counts of one pair of a key and its value.
LEMMA PairChecked ==
  ASSUME NEW file, NEW key \in Keys, NEW value \in Values
  PROVE  verify_pair(file, [key |-> key, value |-> {value}]) =
           IF get(file, key) = value THEN "passed" ELSE "failed"
  <1> DEFINE pair == [key |-> key, value |-> {value}]
  <1>1. pair.key = key /\ pair.value = {value}
    OBVIOUS
  <1>2. hex_decode(key) = "Ok" /\ hex_decode({value}) = "Ok" /\ key # ShortKey
        /\ {value} # LongValue
    BY TextAssumption DEF hex_decode
  <1>3. value # None
    BY NoneAssumption
  <1> HIDE DEF pair
  <1> QED
    BY <1>1, <1>2, <1>3 DEF verify_pair, value_matches, pair

\* A run of verify that ends with Ok has confirmed every pair it did not skip.
LEMMA VerifyOk ==
  ASSUME NEW file, NEW pairs, verify_expected(file, pairs) = "Ok"
  PROVE  /\ open(file) = "Ok"
         /\ \A i \in 1..Len(pairs) : verify_pair(file, pairs[i]) \in {"passed", "skipped"}
  <1>1. \A pair : verify_pair(file, pair) \in {"Err", "panic", "skipped", "failed", "passed"}
    BY DEF verify_pair, hex_decode
  <1> QED
    BY <1>1 DEF verify_expected

\* Two keys that are found are found at different slots, as they are there: the
\* keys that were added use up all slots.
LEMMA NoSlotLeft ==
  ASSUME NEW s, SourceOK(s), NEW file, SomeIndex(s, file.index),
         \A i \in 1..Len(s.keys) : get(file, s.keys[i]) # None,
         NEW key \in Keys, get(file, key) # None
  PROVE  \E i \in 1..Len(s.keys) : key = s.keys[i]
  <1> DEFINE n == Len(s.keys)
             slot(k) == mphf_get(deserialize(file.index), k)
             at(o) == read_record(file, record_offset(parse(file.page).data_offset, o))
             taken == [i \in 1..n |-> slot(s.keys[i])]
  <1>1. n \in Nat /\ \A i \in 1..n : s.keys[i] \in Keys
    BY DEF SourceOK
  <1>2. ASSUME NEW k \in Keys, get(file, k) # None
        PROVE  slot(k) \in 0..n-1 /\ at(slot(k)).key = k
    <2>1. slot(k) # None /\ key_equals(at(slot(k)), k)
      BY <1>2 DEF get
    <2>2. slot(k) = file.index.body[k]
      BY <2>1 DEF mphf_get, deserialize
    <2> QED
      BY <2>1, <2>2 DEF SomeIndex, key_equals
  <1>3. \A i, j \in 1..n : s.keys[i] = s.keys[j] => i = j
    BY PerfectSlots DEF SourceOK
  <1> HIDE DEF slot, at, n
  <1>4. taken \in Injection(1..n, 0..n-1)
    <2>1. taken \in [1..n -> 0..n-1]
      BY <1>1, <1>2 DEF n
    <2>2. ASSUME NEW i \in 1..n, NEW j \in 1..n, taken[i] = taken[j]
          PROVE  i = j
      <3>1. at(slot(s.keys[i])).key = s.keys[i] /\ at(slot(s.keys[j])).key = s.keys[j]
        BY <1>1, <1>2 DEF n
      <3> QED
        BY <1>3, <2>2, <3>1
    <2> HIDE DEF taken
    <2> QED
      BY <2>1, <2>2 DEF Injection, IsInjective
  <1>5. taken \in Surjection(1..n, 0..n-1)
    <2>1. /\ IsFiniteSet(0..n-1) /\ Cardinality(0..n-1) = n
          /\ Cardinality(1..n) = n
      BY <1>1, FS_Interval
    <2> HIDE DEF taken
    <2> QED
      BY <1>4, <2>1, FS_Injection
  <1>6. PICK i \in 1..n : taken[i] = slot(key)
    <2>1. slot(key) \in 0..n-1
      BY <1>2
    <2> HIDE DEF taken
    <2> QED
      BY <1>5, <2>1 DEF Surjection
  <1>7. at(slot(s.keys[i])).key = s.keys[i] /\ at(slot(key)).key = key
    BY <1>1, <1>2 DEF n
  <1> QED
    BY <1>6, <1>7 DEF n

\* A file of which verify confirms all that was added answers exactly.
LEMMA VerifiedExact ==
  ASSUME NEW s, SourceOK(s), NEW file, SomeIndex(s, file.index), NEW pairs,
         pairs = [i \in 1..Len(s.keys) |-> [key |-> s.keys[i], value |-> {s.values[i]}]],
         verify_expected(file, pairs) = "Ok"
  PROVE  ExactFile(s, file)
  <1> DEFINE n == Len(s.keys)
  <1>1. /\ n \in Nat
        /\ \A i \in 1..n : s.keys[i] \in Keys /\ s.values[i] \in Values
    BY DEF SourceOK
  <1>2. \A i \in 1..n : verify_pair(file, pairs[i]) # "failed"
    <2>1. Len(pairs) = n
      BY <1>1
    <2> QED
      BY <2>1, VerifyOk
  <1>3. \A i \in 1..n : get(file, s.keys[i]) = s.values[i]
    <2> SUFFICES ASSUME NEW i \in 1..n PROVE get(file, s.keys[i]) = s.values[i]
      OBVIOUS
    <2>1. pairs[i] = [key |-> s.keys[i], value |-> {s.values[i]}]
      OBVIOUS
    <2>2. verify_pair(file, [key |-> s.keys[i], value |-> {s.values[i]}]) # "failed"
      BY <1>2, <2>1
    <2> QED
      BY <1>1, <2>2, PairChecked
  <1>4. \A i \in 1..n : get(file, s.keys[i]) # None
    BY <1>1, <1>3, NoneAssumption
  <1>5. ASSUME NEW key \in Keys, get(file, key) # None
        PROVE  \E i \in 1..n : key = s.keys[i] /\ get(file, key) = s.values[i]
    <2>1. PICK i \in 1..n : key = s.keys[i]
      BY <1>4, <1>5, NoSlotLeft
    <2> QED
      BY <1>3, <2>1
  <1> QED
    BY <1>4, <1>5 DEF ExactFile

-------------------------------------------------------------------------------
(* Reports on a snapshot whose build returned Ok *)

\* The files the reports are about.
LEMMA UsableFacts ==
  ASSUME IInv, NEW p \in Paths, Usable(p)
  PROVE  LET s == source[p]
             file == files[p]
             n == Len(s.keys)
         IN  /\ SourceOK(s) /\ Holds(s, file.data, n) /\ n \in Nat \ {0}
             /\ parse(file.page).record_count = n
             /\ parse(file.page).data_offset = s.header.data_offset
             /\ s.header.data_offset \in Nat
             /\ s.header.data_offset >= HEADER_SIZE
             /\ file.size = s.header.data_offset + n * RECORD_SIZE
             /\ open(file) = "Ok"
             /\ \A i \in 1..n : get(file, s.keys[i]) = s.values[i] /\ s.values[i] # None
             /\ \A key \in Keys : get(file, key) # None => <<key, get(file, key)>> \in Given(p)
  <1> DEFINE s == source[p]
             file == files[p]
             n == Len(s.keys)
  <1>1. Complete(s, file) /\ PageFinal(s, file) /\ open(file) = "Ok"
    BY DEF IInv, FilesInv, Usable
  <1>2. /\ SourceOK(s) /\ Holds(s, file.data, n) /\ n \in Nat \ {0}
        /\ s.header.data_offset \in Nat
        /\ s.header.data_offset >= HEADER_SIZE
        /\ file.size = s.header.data_offset + n * RECORD_SIZE
    BY <1>1, CompleteSizes DEF Complete, HEADER_SIZE
  <1>3. parse(file.page).record_count = n /\ parse(file.page).data_offset = s.header.data_offset
    BY <1>1, <1>2, FinalWords DEF PageFinal, parse
  <1>4. Exact(p)
    BY <1>1, <1>3, GetExact
  <1>5. \A i \in 1..n : s.keys[i] \in Keys /\ s.values[i] \in Values /\ s.values[i] # None
    BY <1>2, NoneAssumption DEF SourceOK
  <1>6. ASSUME NEW i \in 1..n
        PROVE  get(file, s.keys[i]) = s.values[i]
    <2>1. <<s.keys[i], s.values[i]>> \in Given(p)
      BY DEF Given
    <2>2. get(file, s.keys[i]) # None
      BY <1>4, <1>5, <2>1 DEF Exact
    <2>3. <<s.keys[i], get(file, s.keys[i])>> \in Given(p)
      BY <1>4, <1>5, <2>2 DEF Exact
    <2>4. PICK j \in 1..n : s.keys[i] = s.keys[j] /\ get(file, s.keys[i]) = s.values[j]
      BY <2>3 DEF Given
    <2>5. i = j
      BY <1>2, <2>4, PerfectSlots DEF SourceOK
    <2> QED
      BY <2>4, <2>5
  <1> HIDE DEF n, s, file
  <1>7. \A key \in Keys : get(file, key) # None => <<key, get(file, key)>> \in Given(p)
    BY <1>4 DEF Exact, file
  <1> QED
    BY <1>1, <1>2, <1>3, <1>5, <1>6, <1>7 DEF n, s, file

\* Whatever records are drawn, their keys are found.
LEMMA SamplesPass ==
  ASSUME IInv, NEW p \in Paths, Usable(p), NEW sample \in SUBSET DOMAIN iter(files[p])
  PROVE  validate_snapshot(files[p], sample) = {"PASS"}
  <1> DEFINE s == source[p]
             file == files[p]
             n == Len(s.keys)
  <1>1. /\ SourceOK(s) /\ Holds(s, file.data, n) /\ open(file) = "Ok"
        /\ parse(file.page).record_count = n
        /\ parse(file.page).data_offset = s.header.data_offset
        /\ \A i \in 1..n : get(file, s.keys[i]) # None
    BY UsableFacts
  <1>2. ASSUME NEW slot \in sample
        PROVE  lookups(file, iter(file)[slot].key) # {None}
               /\ None \notin lookups(file, iter(file)[slot].key)
    <2>1. /\ DOMAIN iter(file) = 0..n-1
          /\ \A o \in 0..n-1 : \E i \in 1..n : iter(file)[o] = GivenRecord(s, i)
      BY <1>1, Scanned
    <2>2. PICK i \in 1..n : iter(file)[slot] = GivenRecord(s, i)
      BY <2>1
    <2>3. iter(file)[slot].key = s.keys[i]
      BY <2>2 DEF GivenRecord
    <2>4. lookups(file, iter(file)[slot].key) = {get(file, iter(file)[slot].key)}
      BY <1>1, Sampled
    <2>5. get(file, iter(file)[slot].key) # None
      BY <1>1, <2>3
    <2> QED
      BY <2>4, <2>5
  <1> QED
    BY <1>1, <1>2 DEF validate_snapshot, check_snapshot

\* The snapshot does not differ from itself.
LEMMA SelfDiff ==
  ASSUME IInv, NEW p \in Paths, Usable(p)
  PROVE  diff_snapshots(files[p], files[p]) =
           [in_a_only |-> 0, in_b_only |-> 0, value_differs |-> 0]
  <1> DEFINE s == source[p]
             file == files[p]
             n == Len(s.keys)
  <1>1. /\ SourceOK(s) /\ Holds(s, file.data, n)
        /\ parse(file.page).record_count = n
        /\ parse(file.page).data_offset = s.header.data_offset
        /\ \A i \in 1..n : get(file, s.keys[i]) = s.values[i] /\ s.values[i] # None
    BY UsableFacts
  <1>2. ASSUME NEW slot \in DOMAIN iter(file)
        PROVE  /\ get(file, iter(file)[slot].key) # None
               /\ get(file, iter(file)[slot].key) = iter(file)[slot].value
    <2>1. /\ DOMAIN iter(file) = 0..n-1
          /\ \A o \in 0..n-1 : \E i \in 1..n : iter(file)[o] = GivenRecord(s, i)
      <3> HIDE DEF file, s
      <3> QED
        BY <1>1, Scanned
    <2>2. PICK i \in 1..n : iter(file)[slot] = GivenRecord(s, i)
      BY <2>1
    <2>3. iter(file)[slot].key = s.keys[i] /\ iter(file)[slot].value = s.values[i]
      BY <2>2 DEF GivenRecord
    <2> QED
      BY <1>1, <2>3
  <1> HIDE DEF file
  <1>3. { slot \in DOMAIN iter(file) : get(file, iter(file)[slot].key) = None } = {}
    BY <1>2
  <1>4. { slot \in DOMAIN iter(file) \ {} :
            get(file, iter(file)[slot].key) # iter(file)[slot].value } = {}
    BY <1>2
  <1> QED
    BY <1>3, <1>4, FS_EmptySet DEF diff_snapshots, file

\* What verify makes of one more pair.
LEMMA AnyPairChecked ==
  ASSUME IInv, NEW p \in Paths, Usable(p), NEW pair \in AnyPair
  PROVE  LET verdict == verify_pair(files[p], pair) IN
         /\ verdict \in {"Err", "panic", "skipped", "failed", "passed"}
         /\ verdict = "skipped" <=> pair.key = ShortKey /\ pair.value \notin {OddHex, NotHex}
         /\ verdict = "passed" <=>
              \E v \in Values : pair.value \in {{v}, Values} /\ <<pair.key, v>> \in Given(p)
  <1> DEFINE file == files[p]
             s == source[p]
             n == Len(s.keys)
             true_pair == \E v \in Values :
               pair.value \in {{v}, Values} /\ <<pair.key, v>> \in Given(p)
             found == get(file, pair.key)
  <1>1. /\ \A i \in 1..n : /\ get(file, s.keys[i]) = s.values[i]
                           /\ s.values[i] # None /\ s.values[i] \in Values
                           /\ s.keys[i] \in Keys
        /\ \A key \in Keys : get(file, key) # None => <<key, get(file, key)>> \in Given(p)
    BY UsableFacts DEF SourceOK
  <1>2. Given(p) = { <<s.keys[i], s.values[i]>> : i \in 1..n }
    BY DEF Given
  <1>3. \A v : <<pair.key, v>> \in Given(p) =>
          pair.key \in Keys /\ v = found /\ found # None /\ v \in Values
    BY <1>1, <1>2
  <1>4. CASE pair.key \in {OddHex, NotHex}
    <2>1. ~true_pair
      BY <1>3, <1>4, TextAssumption
    <2>2. verify_pair(file, pair) \in {"Err", "panic"}
      BY <1>4 DEF verify_pair, hex_decode
    <2>3. pair.key # ShortKey
      BY <1>4, TextAssumption
    <2> QED
      BY <2>1, <2>2, <2>3
  <1>9. CASE pair.key = ShortKey /\ pair.key \notin {OddHex, NotHex}
    <2>1. ~true_pair
      BY <1>3, <1>9, TextAssumption
    <2>2. CASE pair.value \in {OddHex, NotHex}
      <3>1. verify_pair(file, pair) \in {"Err", "panic"}
        BY <1>9, <2>2 DEF verify_pair, hex_decode
      <3> QED
        BY <2>1, <2>2, <3>1
    <2>3. CASE pair.value \notin {OddHex, NotHex}
      <3>1. verify_pair(file, pair) = "skipped"
        BY <1>9, <2>3 DEF verify_pair, hex_decode
      <3> QED
        BY <1>9, <2>1, <2>3, <3>1
    <2> QED
      BY <2>2, <2>3
  <1>5. CASE pair.key \in Keys /\ pair.value \in {OddHex, NotHex}
    <2>1. ~true_pair
      BY <1>5, TextAssumption
    <2>2. hex_decode(pair.key) = "Ok"
      BY <1>5, TextAssumption DEF hex_decode
    <2>3. verify_pair(file, pair) \in {"Err", "panic"}
      BY <1>5, <2>2 DEF verify_pair, hex_decode
    <2> QED
      BY <1>5, <2>1, <2>3
  <1>6. CASE pair.key \in Keys /\ pair.value = LongValue /\ pair.value \notin {OddHex, NotHex}
    <2>1. ~true_pair
      BY <1>6, TextAssumption
    <2>2. /\ hex_decode(pair.key) = "Ok" /\ hex_decode(pair.value) = "Ok"
          /\ pair.key # ShortKey
      BY <1>6, TextAssumption DEF hex_decode
    <2>3. verify_pair(file, pair) \in {"failed", "panic"}
      BY <1>6, <2>2 DEF verify_pair
    <2> QED
      BY <2>1, <2>2, <2>3
  <1>7. CASE pair.key \in Keys /\ pair.value \in { {v} : v \in Values } \cup {Values}
    <2>1. /\ hex_decode(pair.key) = "Ok" /\ hex_decode(pair.value) = "Ok"
          /\ pair.key # ShortKey /\ pair.value # LongValue
      BY <1>7, TextAssumption DEF hex_decode
    <2>2. verify_pair(file, pair) =
            IF found # None /\ found \in pair.value THEN "passed" ELSE "failed"
      BY <2>1 DEF verify_pair, value_matches
    <2>3. ASSUME found # None, found \in pair.value
          PROVE  true_pair
      <3>1. <<pair.key, found>> \in Given(p) /\ found \in Values
        BY <1>1, <1>3, <1>7, <2>3
      <3>2. pair.value \in {{found}, Values}
        BY <1>7, <2>3
      <3> QED
        BY <3>1, <3>2
    <2>4. ASSUME true_pair
          PROVE  found # None /\ found \in pair.value
      BY <1>3, <2>4
    <2> HIDE DEF true_pair, found
    <2> QED
      BY <2>1, <2>2, <2>3, <2>4 DEF true_pair
  <1>8. /\ pair.key \in Keys \cup {ShortKey, OddHex, NotHex}
        /\ pair.value \in { {v} : v \in Values } \cup {Values, LongValue, OddHex, NotHex}
    BY DEF AnyPair
  <1> QED
    BY <1>4, <1>5, <1>6, <1>7, <1>8, <1>9

\* verify of the pairs that were added, and one more.
LEMMA ExpectedVerified ==
  ASSUME IInv, NEW p \in Paths, Usable(p)
  PROVE  /\ verify_expected(files[p], Expected(p)) = "Ok"
         /\ \A pair \in AnyPair :
              verify_expected(files[p], Append(Expected(p), pair)) = "Ok" <=>
                \/ \E v \in Values : pair.value \in {{v}, Values} /\ <<pair.key, v>> \in Given(p)
                \/ pair.key = ShortKey /\ pair.value \notin {OddHex, NotHex}
  <1> DEFINE file == files[p]
             s == source[p]
             n == Len(s.keys)
             given == Expected(p)
  <1>1. /\ n \in Nat /\ open(file) = "Ok"
        /\ \A i \in 1..n : /\ get(file, s.keys[i]) = s.values[i]
                           /\ s.keys[i] \in Keys /\ s.values[i] \in Values
    BY UsableFacts DEF SourceOK
  <1>2. /\ Len(given) = n
        /\ \A i \in 1..n : given[i] = [key |-> s.keys[i], value |-> {s.values[i]}]
    BY <1>1 DEF Expected
  <1>3. ASSUME NEW i \in 1..n
        PROVE  verify_pair(file, given[i]) = "passed"
    <2>1. verify_pair(file, [key |-> s.keys[i], value |-> {s.values[i]}]) = "passed"
      BY <1>1, PairChecked
    <2> QED
      BY <1>2, <2>1
  <1>4. verify_expected(file, given) = "Ok"
    BY <1>1, <1>2, <1>3 DEF verify_expected
  <1>5. ASSUME NEW pair \in AnyPair
        PROVE  verify_expected(file, Append(given, pair)) = "Ok" <=>
                 verify_pair(file, pair) \in {"passed", "skipped"}
    <2> DEFINE pairs == Append(given, pair)
    <2>1. /\ Len(pairs) = n + 1 /\ pairs[n + 1] = pair
          /\ \A i \in 1..n : pairs[i] = given[i]
      <3>1. given \in Seq([key : Keys, value : { {v} : v \in Values }])
        BY <1>1 DEF Expected
      <3> HIDE DEF given
      <3> QED
        BY <1>2, <3>1
    <2>2. verify_pair(file, pair) \in {"Err", "panic", "skipped", "failed", "passed"}
      BY AnyPairChecked
    <2> DEFINE stops == { i \in 1..Len(pairs) : verify_pair(file, pairs[i]) \in {"Err", "panic"} }
    <2>3. stops = IF verify_pair(file, pair) \in {"Err", "panic"} THEN {n + 1} ELSE {}
      BY <1>1, <1>3, <2>1
    <2>4. Min({n + 1}) = n + 1
      BY <1>1 DEF Min
    <2> HIDE DEF pairs, given, file
    <2> DEFINE confirmed == verify_expected(file, pairs) = "Ok"
    <2>5. ASSUME verify_pair(file, pair) \in {"Err", "panic"} PROVE ~confirmed
      BY <1>1, <2>1, <2>3, <2>4, <2>5 DEF verify_expected
    <2>6. ASSUME verify_pair(file, pair) = "failed" PROVE ~confirmed
      BY <1>1, <2>1, <2>3, <2>6 DEF verify_expected
    <2>7. ASSUME verify_pair(file, pair) \in {"passed", "skipped"} PROVE confirmed
      BY <1>1, <1>3, <2>1, <2>3, <2>7 DEF verify_expected
    <2> QED
      BY <2>2, <2>5, <2>6, <2>7 DEF pairs
  <1>6. ASSUME NEW pair \in AnyPair
        PROVE  verify_expected(file, Append(given, pair)) = "Ok" <=>
                 \/ \E v \in Values : pair.value \in {{v}, Values} /\ <<pair.key, v>> \in Given(p)
                 \/ pair.key = ShortKey /\ pair.value \notin {OddHex, NotHex}
    <2> HIDE DEF file, given
    <2> QED
      BY <1>5, AnyPairChecked DEF file
  <1> QED
    BY <1>4, <1>6

-------------------------------------------------------------------------------
(* The theorem *)

\* No report of the tools on a snapshot whose build returned Ok raises a false
\* alarm, and verify confirms no pair that was not added, but for those it passes
\* over.
THEOREM ReportsClean == Spec => []BuiltReportsClean
  <1>1. ASSUME IInv PROVE BuiltReportsClean
    <2> SUFFICES ASSUME NEW p \in Paths, Usable(p)
                 PROVE  LET f == files[p] IN
                        /\ \A n \in 0..MaxRecords : \A sample \in choose_multiple(f, n) :
                             validate_snapshot(f, sample) = {"PASS"}
                        /\ print_info(f).record_count = Len(source[p].keys)
                        /\ print_info(f).file_size >= print_info(f).data_size + HEADER_SIZE
                        /\ benchmark_lookups(f) = "Ok"
                        /\ diff_snapshots(f, f) =
                             [in_a_only |-> 0, in_b_only |-> 0, value_differs |-> 0]
                        /\ verify_expected(f, Expected(p)) = "Ok"
                        /\ \A pair \in AnyPair :
                             verify_expected(f, Append(Expected(p), pair)) = "Ok" <=>
                               \/ \E v \in Values : /\ pair.value \in {{v}, Values}
                                                    /\ <<pair.key, v>> \in Given(p)
                               \/ pair.key = ShortKey /\ pair.value \notin {OddHex, NotHex}
      BY Zenon DEF BuiltReportsClean
    <2> DEFINE f == files[p]
               s == source[p]
               n == Len(s.keys)
    <2>1. /\ SourceOK(s) /\ Holds(s, f.data, n) /\ n \in Nat \ {0}
          /\ parse(f.page).record_count = n
          /\ parse(f.page).data_offset = s.header.data_offset
          /\ s.header.data_offset \in Nat
          /\ s.header.data_offset >= HEADER_SIZE
          /\ f.size = s.header.data_offset + n * RECORD_SIZE
          /\ open(f) = "Ok"
      BY <1>1, UsableFacts
    <2>2. \A k \in 0..MaxRecords : \A sample \in choose_multiple(f, k) :
            validate_snapshot(f, sample) = {"PASS"}
      <3>1. \A k : choose_multiple(f, k) \subseteq SUBSET DOMAIN iter(f)
        BY DEF choose_multiple, kSubset
      <3> QED
        BY <1>1, <3>1, SamplesPass
    <2>3. /\ print_info(f).record_count = n
          /\ print_info(f).file_size >= print_info(f).data_size + HEADER_SIZE
      BY <2>1 DEF print_info, HEADER_SIZE, RECORD_SIZE, KEY_SIZE, VALUE_SIZE
    <2>4. benchmark_lookups(f) = "Ok"
      <3> HIDE DEF f, s
      <3>1. DOMAIN iter(f) = 0..n-1
        BY <2>1, Scanned
      <3>2. 0 \in DOMAIN iter(f)
        BY <2>1, <3>1
      <3> QED
        BY <2>1, <3>2 DEF benchmark_lookups
    <2> QED
      BY <1>1, <2>2, <2>3, <2>4, SelfDiff, ExpectedVerified
  <1> QED
    BY <1>1, Inductive, PTL

===============================================================================
