-------------------------- MODULE SnapshotPowerLoss ---------------------------
(***************************************************************************)
(* A machine that loses power while or after it builds a snapshot. build   *)
(* writes through a memory map and syncs it once, at the end: until then   *)
(* the kernel may have written back any of the file's pages, in any order, *)
(* and the pages it had not are lost.                                      *)
(***************************************************************************)
EXTENDS SnapshotBuilder

\* With one build per machine there is no older content that could come back.
ASSUME OneBuild == MaxBuilds = 1

VARIABLE power   \* FALSE once the machine has lost power

\* External: what the disk may hold of the records d. A key and its value can
\* lie in different pages.
RecordSurvivors(d) ==
  { s \in [DOMAIN d -> Record] :
      \A o \in DOMAIN d : /\ s[o].key \in {d[o].key, ZeroKey}
                          /\ s[o].value \in {d[o].value, ZeroValue} }

\* External: what the disk may hold of an index, a part of which makes a
\* function that sends keys to wrong slots, or does not parse.
IndexSurvivors(index) ==
  {index, BlankIndex} \cup
    { [len |-> index.len, key_count |-> index.key_count, body |-> f] :
        f \in [Keys -> (0..index.key_count - 1) \cup {None}] }

\* External: what is left of a file that was not synced.
Survivors(f) ==
  {NoFile, ZeroFile(0)} \cup
    { [size |-> f.size, page |-> page, index |-> index, data |-> data] :
        page \in {ZeroPage, f.page},
        index \in IndexSurvivors(f.index),
        data \in RecordSurvivors(f.data) }

PowerFail ==
  /\ power
  /\ power' = FALSE
  /\ pc' = IF pc \in Steps THEN "killed" ELSE pc
  /\ files[path] # NoFile
  /\ \E f \in (IF synced[path] THEN {files[path]} ELSE Survivors(files[path])) :
       files' = [files EXCEPT ![path] = f]
  /\ UNCHANGED <<input, mphf, header, next, history>>

PowerInit == Init /\ power = TRUE

PowerNext ==
  \/ power /\ Next /\ UNCHANGED power
  \/ PowerFail

PowerSpec == PowerInit /\ [][PowerNext]_<<vars, power>>

\* A snapshot that passes the checksum test after a power failure may have lost
\* its index, which the checksum does not cover, and so miss keys; a value it
\* does find is the one that was added.
CheckedNeverForeign ==
  \A p \in Paths :
    /\ files[p] # NoFile
    /\ open(files[p]) = "Ok"
    /\ verify_checksum(parse(files[p].page), files[p])
    => \A key \in Keys : get(files[p], key) # None =>
         <<key, get(files[p], key)>> \in Given(p)

\* build returns only after the flush: a snapshot reported as built is whole
\* after a power failure.
BuiltIsDurable == ~power => BuiltIsExact

===============================================================================
