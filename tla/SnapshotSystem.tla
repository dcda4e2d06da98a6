---------------------------- MODULE SnapshotSystem ----------------------------
(***************************************************************************)
(* A snapshot builder and the processes that read its files, interleaved.  *)
(*                                                                         *)
(* Nothing in the code coordinates the two: which files are opened and     *)
(* which are rebuilt is up to the operator. Two constants choose what the  *)
(* operator does.                                                          *)
(***************************************************************************)
EXTENDS SnapshotBuilder, KvStore

CONSTANTS
  InPlace,          \* a path may be built again while it holds a snapshot
  OpenUnfinished    \* a path may be opened whose build has not returned Ok

ASSUME OperatorAssumption == InPlace \in BOOLEAN /\ OpenUnfinished \in BOOLEAN

\* No key is None, and no mapping of keys to values is.
ASSUME AbsentAssumption ==
  None \notin Keys /\ \A K \in SUBSET Keys : None \notin [K -> Values]

SystemInit == Init /\ ReaderInit

BuilderStep ==
  /\ \/ \E p \in Paths : (InPlace \/ files[p] = NoFile) /\ Start(p)
     \/ \E key \in Keys, value \in Values : add_record(key, value)
     \/ Work \/ BuildAbort \/ IoError \/ Kill
  /\ UNCHANGED reader

StoreStep ==
  /\ \E r \in Readers :
       \/ \E p \in Paths : (OpenUnfinished \/ built[p]) /\ OpenFile(r, p)
       \/ ReaderStep(r)
  /\ UNCHANGED <<pc, input, mphf, header, next, history>>

SystemNext == BuilderStep \/ StoreStep

SystemSpec == SystemInit /\ [][SystemNext]_<<vars, reader>>

-------------------------------------------------------------------------------
(* Properties *)

\* The mapping the last build to write p was given.
MapOf(p) ==
  LET s == source[p]
      index(key) == CHOOSE i \in 1..Len(s.keys) : s.keys[i] = key
  IN  [key \in {s.keys[i] : i \in 1..Len(s.keys)} |-> s.values[index(key)]]

\* All words of p's header, but perhaps zeros, are there.
Whole(p, h) ==
  /\ h.checksum # parse(ZeroPage).checksum
  /\ h = [source[p].header EXCEPT !.checksum = h.checksum]

\* A snapshot is published by the last word of its header.
Published == [p \in Paths |-> IF Whole(p, parse(files[p].page)) THEN MapOf(p) ELSE None]

Opened == {"ready", "record", "value", "answered"}

\* A process that has a store whose header it read whole is in a session.
InSession(me) == me.pc \in Opened /\ Whole(me.path, me.header)

SessionOf(r) ==
  LET me == reader[r]
  IN  IF InSession(me)
        THEN [view |-> MapOf(me.path), key |-> me.key,
              answered |-> me.pc = "answered", answer |-> me.answer]
        ELSE [view |-> None, key |-> None, answered |-> FALSE, answer |-> None]

Session == [r \in Readers |-> SessionOf(r)]

\* Builder and store together implement the atomic snapshot service, although
\* paths are opened at any moment of their build: a snapshot is published by the
\* last word of its header, and whoever has read that header whole is a session of
\* the service. Nothing is built in place of another snapshot.
Service == INSTANCE SnapshotService WITH published <- Published, session <- Session

ImplementsService == Service!Spec

\* No reader is killed, by a panic of open or by a page that has gone.
ReadersSurvive == \A r \in Readers : reader[r].pc # "dead"

\* A reader may open a snapshot whose header is being written, or that a killed
\* build has left. If it read where the records begin, the value it copies for a
\* key is the one the file's build was given for it, whatever else is missing.
AnswersNeverForeign ==
  [][\A r \in Readers :
       /\ reader[r].pc = "value" /\ reader'[r].pc = "answered"
       /\ reader[r].header.data_offset # 0
       => <<reader[r].key, reader'[r].answer>> \in Given(reader[r].path)]_<<vars, reader>>

\* The pairs in the data section whose digest the store's own header holds.
OpenedPairs(r) ==
  LET data == reader[r].header.checksum.data
  IN  { <<data[o].key, data[o].value>> : o \in DOMAIN data }

\* store.rs: "The store is safe to share across threads ... because the memory
\* map is read-only": a lookup of a key (the all-zero one, found in any hole of
\* the file, aside) finds what the snapshot held when it was opened.
OpenedStoreIsStable ==
  [][\A r \in Readers :
       reader[r].pc = "value" /\ reader'[r].pc = "answered" /\ reader[r].key # ZeroKey =>
         <<reader[r].key, reader'[r].answer>> \in OpenedPairs(r)]_<<vars, reader>>

===============================================================================
