------------------------------- MODULE KvService ------------------------------
(***************************************************************************)
(* What kv-server promises its clients: every call is answered from the    *)
(* one snapshot that is current at some moment between the call and the    *)
(* reply; a batch is answered from one snapshot as a whole; a call with a  *)
(* malformed key is refused.                                               *)
(***************************************************************************)
EXTENDS KvReply

CONSTANTS
  Clients,     \* at most one call of each is in progress
  Snapshots,   \* the snapshots that may be served
  Requests     \* the calls that may be made

VARIABLES
  snapshot,    \* the snapshot being served
  call         \* client -> its call

NoCall == [stage |-> "none", request |-> None, reply |-> None]

Init ==
  /\ snapshot \in Snapshots
  /\ call = [c \in Clients |-> NoCall]

Invoke(c) ==
  /\ call[c].stage = "none"
  /\ \E request \in Requests :
       call' = [call EXCEPT ![c] = [stage |-> "called", request |-> request, reply |-> None]]
  /\ UNCHANGED snapshot

Serve(c) ==
  /\ call[c].stage = "called"
  /\ call' = [call EXCEPT ![c] = [stage |-> "served", request |-> call[c].request,
                                  reply |-> Reply(call[c].request, snapshot)]]
  /\ UNCHANGED snapshot

Return(c) ==
  /\ call[c].stage = "served"
  /\ call' = [call EXCEPT ![c] = NoCall]
  /\ UNCHANGED snapshot

Reload ==
  /\ snapshot' \in Snapshots
  /\ UNCHANGED call

Next == Reload \/ \E c \in Clients : Invoke(c) \/ Serve(c) \/ Return(c)

Spec == Init /\ [][Next]_<<snapshot, call>>

===============================================================================
