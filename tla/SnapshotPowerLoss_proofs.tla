----------------------- MODULE SnapshotPowerLoss_proofs -----------------------
(***************************************************************************)
(* What a power failure leaves of a snapshot, for every set of keys and    *)
(* values, every index and every choice of pages that are lost.            *)
(***************************************************************************)
EXTENDS SnapshotPowerLoss, SnapshotReports_proofs

-------------------------------------------------------------------------------
(* A file that has lost pages *)

\* What is left of an unsynced file opens only with its header page, and with an
\* index of the size of the one built.
LEMMA SurvivorOpens ==
  ASSUME IInv, NEW p \in Paths, files[p] # NoFile, NEW f \in Survivors(files[p]),
         f # NoFile, open(f) = "Ok"
  PROVE  /\ Complete(source[p], files[p]) /\ PagePartial(source[p], files[p])
         /\ f.size = files[p].size
         /\ f.page = files[p].page
         /\ SomeIndex(source[p], f.index)
         /\ parse(f.page).record_count = Len(source[p].keys)
  <1> DEFINE s == source[p]
             file == files[p]
             n == Len(s.keys)
  <1>1. f.page # ZeroPage
    BY BlankNeverOpens
  <1>2. ZeroFile(0).page = ZeroPage
    BY DEF ZeroFile
  <1>3. PICK page \in {ZeroPage, file.page}, index \in IndexSurvivors(file.index),
             data \in RecordSurvivors(file.data) :
          f = [size |-> file.size, page |-> page, index |-> index, data |-> data]
    BY <1>1, <1>2 DEF Survivors
  <1>4. f.size = file.size /\ f.page = file.page /\ f.index = index
    BY <1>1, <1>3
  <1>5. Complete(s, file) /\ PagePartial(s, file)
    BY <1>1, <1>4, FileCases
  <1>6. SomeIndex(s, file.index)
    BY <1>5, BuiltIndex
  <1>7. /\ deserialize_error(parse(f.page).mphf_size, f.index) = "Ok"
        /\ f.index.key_count = parse(f.page).record_count
    BY DEF open, open_index
  <1>8. f.index # BlankIndex
    BY <1>7 DEF deserialize_error, BlankIndex
  <1>9. SomeIndex(s, f.index)
    <2>1. \/ f.index = file.index
          \/ \E g \in [Keys -> (0..file.index.key_count - 1) \cup {None}] :
               f.index = [len |-> file.index.len, key_count |-> file.index.key_count, body |-> g]
      BY <1>4, <1>8 DEF IndexSurvivors
    <2>2. CASE f.index = file.index
      BY <1>6, <2>2
    <2>3. ASSUME NEW g \in [Keys -> (0..file.index.key_count - 1) \cup {None}],
                 f.index = [len |-> file.index.len, key_count |-> file.index.key_count, body |-> g]
          PROVE  SomeIndex(s, f.index)
      <3>1. f.index.key_count = file.index.key_count /\ f.index.body = g
        BY <2>3
      <3> QED
        BY <1>6, <2>3, <3>1 DEF SomeIndex
    <2> QED
      BY <2>1, <2>2, <2>3
  <1> QED
    BY <1>4, <1>5, <1>7, <1>9 DEF SomeIndex

\* If its checksum verifies, all of its records are there.
LEMMA SurvivorVerified ==
  ASSUME IInv, NEW p \in Paths, files[p] # NoFile, NEW f \in Survivors(files[p]),
         f # NoFile, open(f) = "Ok", verify_checksum(parse(f.page), f)
  PROVE  /\ parse(f.page).data_offset = source[p].header.data_offset
         /\ Holds(source[p], f.data, Len(source[p].keys))
  <1> DEFINE s == source[p]
             file == files[p]
  <1>1. Complete(s, file) /\ PagePartial(s, file) /\ f.size = file.size /\ f.page = file.page
    BY SurvivorOpens
  <1>2. LET h == parse(file.page) IN
          h.checksum = compute_checksum(file.size - h.data_offset, f.data)
    BY <1>1 DEF verify_checksum
  <1>3. parse(file.page).data_offset = s.header.data_offset /\ f.data = file.data
    BY <1>1, <1>2, VerifiedOffset
  <1> QED
    BY <1>1, <1>3 DEF Complete

\* So what is found in it was added under its key.
LEMMA SurvivorGiven ==
  ASSUME IInv, NEW p \in Paths, files[p] # NoFile, NEW f \in Survivors(files[p]),
         f # NoFile, open(f) = "Ok", verify_checksum(parse(f.page), f),
         NEW key \in Keys, get(f, key) # None
  PROVE  <<key, get(f, key)>> \in Given(p)
  <1>1. SourceOK(source[p]) /\ SomeIndex(source[p], f.index)
    BY SurvivorOpens DEF Complete
  <1>2. PICK i \in 1..Len(source[p].keys) :
          key = source[p].keys[i] /\ get(f, key) = source[p].values[i]
    BY <1>1, SurvivorVerified, AddedOrMissed
  <1> QED
    BY <1>2 DEF Given

\* A check of all records finds a lost index, ...
LEMMA SurvivorChecked ==
  ASSUME IInv, NEW p \in Paths, files[p] # NoFile, NEW f \in Survivors(files[p]),
         f # NoFile, open(f) = "Ok", verify_checksum(parse(f.page), f), CheckPasses(f)
  PROVE  ExactFile(source[p], f)
  <1>1. /\ SourceOK(source[p]) /\ SomeIndex(source[p], f.index)
        /\ parse(f.page).record_count = Len(source[p].keys)
    BY SurvivorOpens DEF Complete
  <1> QED
    BY <1>1, SurvivorVerified, CheckedAllExact DEF CheckPasses

\* ... and a verify of all that was added finds any loss.
LEMMA SurvivorConfirmed ==
  ASSUME IInv, NEW p \in Paths, files[p] # NoFile, NEW f \in Survivors(files[p]),
         f # NoFile, verify_expected(f, Expected(p)) = "Ok"
  PROVE  ExactFile(source[p], f)
  <1>1. open(f) = "Ok"
    BY VerifyOk
  <1>2. SourceOK(source[p]) /\ SomeIndex(source[p], f.index)
    BY <1>1, SurvivorOpens DEF Complete
  <1> QED
    BY <1>2, VerifiedExact DEF Expected

\* What a build leaves of a file of which verify confirms all that was added.
LEMMA ConfirmedFiles ==
  ASSUME IInv
  PROVE  VerifiedIsExact
  <1> SUFFICES ASSUME NEW p \in Paths, files[p] # NoFile,
                      verify_expected(files[p], Expected(p)) = "Ok"
               PROVE  Exact(p)
    BY DEF VerifiedIsExact
  <1>1. open(files[p]) = "Ok"
    BY VerifyOk
  <1>2. Complete(source[p], files[p])
    BY <1>1, FileCases, BlankNeverOpens
  <1>3. SourceOK(source[p]) /\ SomeIndex(source[p], files[p].index)
    BY <1>2, BuiltIndex DEF Complete
  <1>4. ExactFile(source[p], files[p])
    BY <1>3, VerifiedExact DEF Expected
  <1> QED
    BY <1>4, ExactFileIs

-------------------------------------------------------------------------------
(* The machine *)

\* While there is power, a build is as in SnapshotBuilder, and what has been
\* reported as built has been synced; when it has gone, nothing moves any more.
PowerInv ==
  /\ power \in BOOLEAN
  /\ power => IInv /\ \A p \in Paths : built[p] => synced[p]
  /\ ~power => /\ BuiltIsExact /\ CheckedNeverForeign
               /\ PassedAndCheckedIsExact /\ VerifiedIsExact

\* Only the flush makes build return Ok.
LEMMA SyncedStep ==
  ASSUME IInv, \A p \in Paths : built[p] => synced[p], [Next]_vars
  PROVE  (\A p \in Paths : built[p] => synced[p])'
  <1>1. path \in Paths /\ built \in [Paths -> BOOLEAN] /\ synced \in [Paths -> BOOLEAN]
    BY DEF IInv, MemoryInv
  <1>2. CASE UNCHANGED history
    BY <1>2 DEF history
  <1>3. CASE CreateFile
    BY <1>1, <1>3 DEF CreateFile
  <1>4. CASE Flush
    BY <1>1, <1>4 DEF Flush
  <1>5. \/ UNCHANGED history
        \/ CreateFile
        \/ Flush
    BY DEF Next, vars, Work, Start, add_record, BuildEmpty, BuildAbort, BuildIndex, SetLen,
           WriteMphf, WriteKey, WriteValue, Checksum, WriteHeaderWord, HeaderWritten,
           IoError, Kill, Halt
  <1> QED
    BY <1>2, <1>3, <1>4, <1>5

\* The failure leaves synced files alone, and of the others nothing that verifies
\* and is foreign.
LEMMA PowerFailStep ==
  ASSUME PowerInv, PowerFail
  PROVE  PowerInv'
  <1>1. /\ IInv
        /\ \A p \in Paths : built[p] => synced[p]
        /\ ~power'
        /\ source' = source /\ built' = built
    BY DEF PowerInv, PowerFail, history
  <1>2. PICK left \in (IF synced[path] THEN {files[path]} ELSE Survivors(files[path])) :
          files' = [files EXCEPT ![path] = left]
    BY DEF PowerFail
  <1>3. /\ path \in Paths
        /\ files = [p \in Paths |-> files[p]]
        /\ files[path] # NoFile
    BY <1>1 DEF IInv, MemoryInv, PowerFail
  <1>4. \A p \in Paths : built[p] => files'[p] = files[p]
    BY <1>1, <1>2, <1>3
  <1>5. BuiltIsExact'
    <2>1. BuiltIsExact
      BY <1>1, BuiltFiles
    <2> SUFFICES ASSUME NEW p \in Paths, built[p]
                 PROVE  /\ open(files'[p]) = (IF Len(source[p].keys) <= MAX_RECORDS
                                                THEN "Ok" ELSE "TooManyRecords")
                        /\ verify_checksum(parse(files'[p].page), files'[p])
                        /\ Exact(p)'
      BY <1>1 DEF BuiltIsExact
    <2>2. files'[p] = files[p] /\ source'[p] = source[p]
      BY <1>1, <1>4
    <2>3. Exact(p)'
      BY <2>1, <2>2 DEF BuiltIsExact, Exact, Given
    <2> QED
      BY <2>1, <2>2, <2>3 DEF BuiltIsExact
  <1>6. CheckedNeverForeign'
    <2> SUFFICES ASSUME NEW p \in Paths, files'[p] # NoFile, open(files'[p]) = "Ok",
                        verify_checksum(parse(files'[p].page), files'[p]),
                        NEW key \in Keys, get(files'[p], key) # None
                 PROVE  <<key, get(files'[p], key)>> \in Given(p)'
      BY DEF CheckedNeverForeign
    <2>1. Given(p)' = Given(p)
      BY <1>1 DEF Given
    <2>2. CASE files'[p] = files[p]
      <3>1. Exact(p)
        BY <1>1, <2>2, CheckedFiles DEF CheckedIsExact
      <3> QED
        BY <2>1, <2>2, <3>1 DEF Exact
    <2>3. CASE p = path /\ files'[p] \in Survivors(files[p])
      BY <1>1, <1>3, <2>1, <2>3, SurvivorGiven
    <2>4. files'[p] = files[p] \/ (p = path /\ files'[p] \in Survivors(files[p]))
      BY <1>2, <1>3
    <2> QED
      BY <2>2, <2>3, <2>4
  <1>7. ASSUME NEW p \in Paths
        PROVE  \/ files'[p] = files[p]
               \/ files[p] # NoFile /\ files'[p] \in Survivors(files[p])
    BY <1>2, <1>3
  <1>8. PassedAndCheckedIsExact'
    <2> SUFFICES ASSUME NEW p \in Paths, files'[p] # NoFile, open(files'[p]) = "Ok",
                        CheckPasses(files'[p]), verify_checksum(parse(files'[p].page), files'[p])
                 PROVE  Exact(p)'
      BY DEF PassedAndCheckedIsExact
    <2>1. CASE files'[p] = files[p]
      <3>1. Exact(p)
        BY <1>1, <2>1, CheckedFiles DEF CheckedIsExact
      <3> QED
        BY <1>1, <2>1, <3>1 DEF Exact, Given
    <2>2. ASSUME NEW f, f = files'[p], files[p] # NoFile, f \in Survivors(files[p])
          PROVE  Exact(p)'
      <3>1. ExactFile(source[p], f)
        BY <1>1, <2>2, SurvivorChecked
      <3> QED
        BY <1>1, <2>2, <3>1, ExactFileIs
    <2> QED
      BY <1>7, <2>1, <2>2
  <1>9. VerifiedIsExact'
    <2> SUFFICES ASSUME NEW p \in Paths, files'[p] # NoFile, source'[p].keys # <<>>,
                        verify_expected(files'[p], Expected(p)') = "Ok"
                 PROVE  Exact(p)'
      BY DEF VerifiedIsExact
    <2>1. Expected(p)' = Expected(p)
      BY <1>1 DEF Expected
    <2>2. CASE files'[p] = files[p]
      <3>1. Exact(p)
        BY <1>1, <2>1, <2>2, ConfirmedFiles DEF VerifiedIsExact
      <3> QED
        BY <1>1, <2>2, <3>1 DEF Exact, Given
    <2>3. ASSUME NEW f, f = files'[p], files[p] # NoFile, f \in Survivors(files[p])
          PROVE  Exact(p)'
      <3>1. ExactFile(source[p], f)
        BY <1>1, <2>1, <2>3, SurvivorConfirmed
      <3> QED
        BY <1>1, <2>3, <3>1, ExactFileIs
    <2> QED
      BY <1>7, <2>2, <2>3
  <1> QED
    BY <1>1, <1>5, <1>6, <1>8, <1>9 DEF PowerInv, PowerFail

\* PowerInv holds from the start on.
LEMMA PowerInductive == PowerSpec => []PowerInv
  <1>1. PowerInit => PowerInv
    BY InitInv DEF PowerInit, PowerInv, Init
  <1>2. PowerInv /\ [PowerNext]_<<vars, power>> => PowerInv'
    <2> SUFFICES ASSUME PowerInv, [PowerNext]_<<vars, power>> PROVE PowerInv'
      OBVIOUS
    <2>1. CASE power /\ [Next]_vars /\ UNCHANGED power
      BY <2>1, NextInv, SyncedStep DEF PowerInv
    <2>2. CASE PowerFail
      BY <2>2, PowerFailStep
    <2>3. CASE ~power /\ UNCHANGED <<vars, power>>
      <3>1. UNCHANGED <<files, source, built, power>>
        BY <2>3 DEF vars, history
      <3> QED
        BY <2>3, <3>1 DEF PowerInv, BuiltIsExact, CheckedNeverForeign, PassedAndCheckedIsExact,
                          VerifiedIsExact, Expected, Exact, Given
    <2> QED
      BY <2>1, <2>2, <2>3 DEF PowerNext, PowerInv
  <1> QED
    BY <1>1, <1>2, PTL DEF PowerSpec

-------------------------------------------------------------------------------
(* The theorems *)

\* A snapshot that build has reported as done is whole after a power failure:
\* it opens, verifies and answers exactly.
THEOREM Durable == PowerSpec => []BuiltIsDurable
  <1>1. PowerInv => BuiltIsDurable
    BY DEF PowerInv, BuiltIsDurable
  <1> QED
    BY <1>1, PowerInductive, PTL

\* Before and after a power failure, whatever pages are lost: a value found in a
\* file that opens and whose checksum verifies was added under its key.
THEOREM NeverForeignAfterLoss == PowerSpec => []CheckedNeverForeign
  <1>1. PowerInv => CheckedNeverForeign
    BY CheckedFiles DEF PowerInv, CheckedIsExact, CheckedNeverForeign, Exact
  <1> QED
    BY <1>1, PowerInductive, PTL

\* Whatever a kill or a power failure did to it: a file that opens, whose
\* checksum verifies and of which check, given every key, reports PASS answers
\* exactly.
THEOREM CheckMissesNothing == PowerSpec => []PassedAndCheckedIsExact
  <1>1. PowerInv => PassedAndCheckedIsExact
    BY CheckedFiles DEF PowerInv, CheckedIsExact, PassedAndCheckedIsExact
  <1> QED
    BY <1>1, PowerInductive, PTL

\* Whatever a kill or a power failure did to it: a file of which verify confirms
\* every pair that was added answers exactly, for all other keys too.
THEOREM VerifyMissesNothing == PowerSpec => []VerifiedIsExact
  <1>1. PowerInv => VerifiedIsExact
    BY ConfirmedFiles DEF PowerInv
  <1> QED
    BY <1>1, PowerInductive, PTL

===============================================================================
