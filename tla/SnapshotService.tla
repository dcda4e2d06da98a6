--------------------------- MODULE SnapshotService ----------------------------
(***************************************************************************)
(* What the snapshot builder and KvStore promise together: a snapshot      *)
(* appears at once and whole, never changes, and a lookup in it returns    *)
(* the value its key has there, or None.                                   *)
(***************************************************************************)
EXTENDS Integers

CONSTANTS Keys, Values, None, Paths, Readers

VARIABLES
  published,  \* path -> the mapping from keys to values published there, or None
  session     \* reader -> the snapshot it has open and its lookup, if any

Snapshots == UNION { [K -> Values] : K \in (SUBSET Keys) \ {{}} }

NoSession == [view |-> None, key |-> None, answered |-> FALSE, answer |-> None]

Init ==
  /\ published = [p \in Paths |-> None]
  /\ session = [r \in Readers |-> NoSession]

Publish(p) ==
  /\ published[p] = None
  /\ \E snapshot \in Snapshots : published' = [published EXCEPT ![p] = snapshot]
  /\ UNCHANGED session

Open(r) ==
  /\ session[r] = NoSession
  /\ \E p \in Paths :
       /\ published[p] # None
       /\ session' = [session EXCEPT ![r].view = published[p]]
  /\ UNCHANGED published

Ask(r) ==
  /\ session[r].view # None
  /\ session[r].key = None
  /\ \E key \in Keys : session' = [session EXCEPT ![r].key = key]
  /\ UNCHANGED published

Lookup(snapshot, key) == IF key \in DOMAIN snapshot THEN snapshot[key] ELSE None

Answer(r) ==
  /\ session[r].key # None
  /\ ~session[r].answered
  /\ session' = [session EXCEPT ![r].answered = TRUE,
                   ![r].answer = Lookup(session[r].view, session[r].key)]
  /\ UNCHANGED published

\* A lookup that needs no record is answered as it is asked.
AskMissing(r) ==
  /\ session[r].view # None
  /\ session[r].key = None
  /\ \E key \in Keys \ DOMAIN session[r].view :
       session' = [session EXCEPT ![r].key = key, ![r].answered = TRUE]
  /\ UNCHANGED published

Return(r) ==
  /\ session[r].answered
  /\ session' = [session EXCEPT ![r] = [NoSession EXCEPT !.view = session[r].view]]
  /\ UNCHANGED published

Close(r) ==
  /\ session[r].view # None
  /\ session[r].key = None
  /\ session' = [session EXCEPT ![r] = NoSession]
  /\ UNCHANGED published

Next ==
  \/ \E p \in Paths : Publish(p)
  \/ \E r \in Readers :
       Open(r) \/ Ask(r) \/ Answer(r) \/ AskMissing(r) \/ Return(r) \/ Close(r)

Spec == Init /\ [][Next]_<<published, session>>

===============================================================================
