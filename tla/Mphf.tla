--------------------------------- MODULE Mphf ---------------------------------
(***************************************************************************)
(* The wrapper of mphf.rs around ph's GOFunction, a minimal perfect hash   *)
(* function: n distinct keys go to the n slots 0..n-1, any other key to a  *)
(* slot or to nothing.                                                     *)
(***************************************************************************)
EXTENDS SnapshotFormat, Sequences

CONSTANTS
  None,     \* Rust's Option::None
  Garbled   \* index bytes that GOFunction::read rejects

ASSUME NoneAssumption == None \notin Int /\ None \notin Values

ASSUME GarbledAssumption == Garbled \notin [Keys -> Int \cup {None}]

(***************************************************************************)
(* External: every function GOFunction::from_slice_with_conf may return.   *)
(* It is perfect (no two of the keys share a slot) and minimal (every slot *)
(* belongs to a key). There is none when a key occurs twice: the           *)
(* construction then returns no index.                                     *)
(***************************************************************************)
GOFunctions(keys) ==
  LET n == Len(keys)
  IN  { f \in [Keys -> (0..n-1) \cup {None}] :
          /\ \A i, j \in 1..n : f[keys[i]] = f[keys[j]] => i = j
          /\ \A s \in 0..n-1 : \E i \in 1..n : f[keys[i]] = s
          /\ \A i \in 1..n : f[keys[i]] # None }

\* The results of Mphf::build on a non-empty key vector.
build_mphf(keys) ==
  { [function |-> f, key_count |-> Len(keys)] : f \in GOFunctions(keys) }

\* Mphf::get: the slot, or None when the function has none or it is out of range.
mphf_get(m, key) ==
  LET slot == m.function[key]
  IN  IF slot # None /\ slot < m.key_count THEN slot ELSE None

\* The index section, of len bytes: eight of key count, then the function.
serialize(m, len) == [len |-> len, key_count |-> m.key_count, body |-> m.function]

\* The index section of a file in which it was never written.
BlankIndex == [len |-> 0, key_count |-> 0, body |-> Garbled]

\* Mphf::deserialize on len bytes: "Ok" or the error it returns ...
deserialize_error(len, bytes) ==
  IF len < 8 THEN "InvalidMphf"
  ELSE IF bytes.body = Garbled THEN "Serialization"
  ELSE "Ok"

\* ... and the index it yields when that is "Ok".
deserialize(bytes) == [function |-> bytes.body, key_count |-> bytes.key_count]

===============================================================================
