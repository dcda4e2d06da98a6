--------------------------- MODULE SnapshotReports ----------------------------
(***************************************************************************)
(* What the reports of the tools say of the files that builds leave: the   *)
(* requirements of SnapshotTools, stated over SnapshotBuilder's state, to  *)
(* be checked of Spec and of PowerSpec.                                    *)
(***************************************************************************)
EXTENDS SnapshotBuilder, SnapshotTools

\* An expected file that lists what the last build to write p was given.
Expected(p) ==
  [i \in 1..Len(source[p].keys) |-> [key |-> source[p].keys[i], value |-> {source[p].values[i]}]]

\* Pairs of an expected file, well formed or not.
AnyPair ==
  [key : Keys \cup {ShortKey, OddHex, NotHex},
   value : { {v} : v \in Values } \cup {Values, LongValue, OddHex, NotHex}]

CheckPasses(f) == "PASS" \in check_snapshot(f, DOMAIN iter(f))

Usable(p) == built[p] /\ open(files[p]) = "Ok"

\* No false alarm, and no false comfort: of a snapshot whose build returned Ok
\* every sample of check and of validate passes, info tells its size and count,
\* bench runs and diff finds no difference to itself; verify confirms the pairs it
\* was built from, with another pair after them only if that is true as well or is
\* one that verify passes over without counting it: hex digits, but not a key's.
BuiltReportsClean ==
  \A p \in Paths : Usable(p) =>
    LET f == files[p]
        true_pair(pair) == \E v \in Values :
          pair.value \in {{v}, Values} /\ <<pair.key, v>> \in Given(p)
        passed_over(pair) == pair.key = ShortKey /\ pair.value \notin {OddHex, NotHex}
    IN  /\ \A n \in 0..MaxRecords : \A sample \in choose_multiple(f, n) :
             validate_snapshot(f, sample) = {"PASS"}
        /\ print_info(f).record_count = Len(source[p].keys)
        /\ print_info(f).file_size >= print_info(f).data_size + HEADER_SIZE
        /\ benchmark_lookups(f) = "Ok"
        /\ diff_snapshots(f, f) = [in_a_only |-> 0, in_b_only |-> 0, value_differs |-> 0]
        /\ verify_expected(f, Expected(p)) = "Ok"
        /\ \A pair \in AnyPair :
             verify_expected(f, Append(Expected(p), pair)) = "Ok"
               <=> true_pair(pair) \/ passed_over(pair)

\* No missed damage, if check is given every key and the checksum is looked at:
\* the digest covers the records, check covers the index, and a file that
\* passes both answers exactly, whatever a kill or a power failure did to it.
PassedAndCheckedIsExact ==
  \A p \in Paths :
    /\ files[p] # NoFile
    /\ open(files[p]) = "Ok"
    /\ CheckPasses(files[p])
    /\ verify_checksum(parse(files[p].page), files[p])
    => Exact(p)

\* No missed damage by verify: a file, in whatever state, of which verify
\* confirms every pair the build was given, answers exactly, for the keys that
\* were not given too: there is no slot left that another key could be found in.
VerifiedIsExact ==
  \A p \in Paths :
    files[p] # NoFile /\ source[p].keys # <<>> /\ verify_expected(files[p], Expected(p)) = "Ok"
      => Exact(p)

===============================================================================
