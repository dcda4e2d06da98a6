-------------------------------- MODULE KvReply -------------------------------
(***************************************************************************)
(* The reply the gRPC interface (proto/kv.proto) owes a request from one   *)
(* snapshot.                                                               *)
(***************************************************************************)
EXTENDS Integers, Sequences

CONSTANTS
  None,        \* not found
  BadKey       \* a byte string that is not 64 bytes long

InvalidArgument == [ok |-> FALSE, results |-> <<>>]

Lookup(map, key) == IF key \in DOMAIN map THEN map[key] ELSE None

\* A malformed key refuses the whole call.
Malformed(request) == \E i \in 1..Len(request.keys) : request.keys[i] = BadKey

Reply(request, snapshot) ==
  IF request.kind = "health" THEN
    [ok |-> TRUE, results |-> <<snapshot.build_timestamp, snapshot.record_count>>]
  ELSE IF Malformed(request) THEN InvalidArgument
  ELSE [ok |-> TRUE,
        results |-> [i \in 1..Len(request.keys) |-> Lookup(snapshot.map, request.keys[i])]]

===============================================================================
