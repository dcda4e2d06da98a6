------------------------------- MODULE KvServer -------------------------------
(***************************************************************************)
(* kv-server's KvServiceImpl (server.rs) and its counters (metrics.rs):    *)
(* handlers of concurrent calls, which share the store through an ArcSwap  *)
(* and the Prometheus counters, and reload, which swaps the store.         *)
(*                                                                         *)
(* A handler has no await point, so it is never abandoned half way; but    *)
(* handlers run on several threads and interleave with each other and with *)
(* reload between any two accesses to shared state. A store is here the    *)
(* mapping its snapshot holds: SnapshotSystem shows when it is one.        *)
(***************************************************************************)
EXTENDS KvReply, FiniteSets

CONSTANTS
  Keys,        \* the 64-byte keys
  Values,      \* the values
  Clients,     \* at most one call of each is in progress
  Maps,        \* the mappings a snapshot may hold
  MaxReloads,  \* bound: reloads
  MaxCalls,    \* bound: calls made
  MaxBatch     \* bound: keys of one batch

ASSUME ServerAssumption ==
  /\ None \notin Values
  /\ BadKey \notin Keys
  /\ MaxReloads \in Nat
  /\ MaxCalls \in Nat
  /\ MaxBatch \in Nat
  /\ IsFiniteSet(Clients)
  /\ \A map \in Maps :
       /\ IsFiniteSet(DOMAIN map)
       /\ DOMAIN map \subseteq Keys
       /\ \A key \in DOMAIN map : map[key] \in Values

VARIABLES
  stores,    \* the stores opened so far, in order
  current,   \* the store the ArcSwap holds
  mapped,    \* the stores that are still memory-mapped
  task,      \* client -> the handler of its call
  metrics,   \* the Prometheus counters
  replies    \* history: lookups answered with Ok and with Err, and health checks

vars == <<stores, current, mapped, task, metrics, replies>>

Requests ==
  { [kind |-> "get", keys |-> <<key>>] : key \in Keys \cup {BadKey} } \cup
  { [kind |-> "batch_get", keys |-> keys] :
      keys \in UNION { [1..n -> Keys \cup {BadKey}] : n \in 0..MaxBatch } } \cup
  { [kind |-> "health", keys |-> <<>>] }

\* A snapshot: the mapping it holds and the header fields that clients see.
Snapshot(map, build_timestamp) ==
  [map |-> map, build_timestamp |-> build_timestamp, record_count |-> Cardinality(DOMAIN map)]

Snapshots ==
  { Snapshot(map, build_timestamp) : map \in Maps, build_timestamp \in 1..MaxReloads + 1 }

NoRequest == [kind |-> "none", keys |-> <<>>]

\* A handler: where it is, the store it has loaded (0: none), what it has found.
NoTask == [pc |-> "none", request |-> NoRequest, store |-> 0, results |-> <<>>, reply |-> None]

\* Metrics::new: the counters, and the number of latency observations.
NewMetrics == [requests |-> 0, hits |-> 0, misses |-> 0, errors |-> 0, latency |-> 0]

Init ==
  /\ \E map \in Maps : stores = <<Snapshot(map, 1)>>
  /\ current = 1
  /\ mapped = {1}
  /\ task = [c \in Clients |-> NoTask]
  /\ metrics = NewMetrics
  /\ replies = [ok |-> 0, err |-> 0, health |-> 0]

-------------------------------------------------------------------------------
(* The ArcSwap *)

\* Seeded fault: a store is unmapped as soon as the swap lets go of it.
InUse_swap_only(swap, tasks) == {swap}

\* External: the swap and the handlers keep the stores they hold mapped.
InUse(swap, tasks) == {swap} \cup { tasks[c].store : c \in Clients }

\* Seeded fault: the new store is opened and never put into the swap.
reload_unswapped(map) ==
  /\ Len(stores) <= MaxReloads
  /\ stores' = Append(stores, Snapshot(map, Len(stores) + 1))
  /\ mapped' = mapped \cap InUse(current, task)
  /\ UNCHANGED <<current, task, metrics, replies>>

\* The operator opens a new snapshot and passes it to reload.
reload(map) ==
  /\ Len(stores) <= MaxReloads
  /\ stores' = Append(stores, Snapshot(map, Len(stores) + 1))
  /\ current' = Len(stores) + 1
  /\ mapped' = (mapped \cup {Len(stores) + 1}) \cap InUse(Len(stores) + 1, task)
  /\ UNCHANGED <<task, metrics, replies>>

-------------------------------------------------------------------------------
(* Handlers *)

InFlight == { c \in Clients : task[c].pc # "none" }

\* A call arrives; its handler starts.
Invoke(c, request) ==
  /\ task[c].pc = "none"
  /\ replies.ok + replies.err + replies.health + Cardinality(InFlight) < MaxCalls
  /\ task' = [task EXCEPT ![c].pc = "start", ![c].request = request]
  /\ UNCHANGED <<stores, current, mapped, metrics, replies>>

\* Seeded fault: the early return does not count the error.
RejectKey_uncounted(c) ==
  /\ task[c].pc = "start"
  /\ task[c].request.kind = "get"
  /\ task[c].request.keys[1] = BadKey
  /\ task' = [task EXCEPT ![c].pc = "return", ![c].reply = InvalidArgument]
  /\ UNCHANGED <<stores, current, mapped, metrics, replies>>

\* get validates the key before it loads the store.
RejectKey(c) ==
  /\ task[c].pc = "start"
  /\ task[c].request.kind = "get"
  /\ task[c].request.keys[1] = BadKey
  /\ metrics' = [metrics EXCEPT !.errors = @ + 1]
  /\ task' = [task EXCEPT ![c].pc = "return", ![c].reply = InvalidArgument]
  /\ UNCHANGED <<stores, current, mapped, replies>>

\* self.store.load(), once for all of a batch's keys.
Load(c) ==
  /\ task[c].pc = "start"
  /\ ~(task[c].request.kind = "get" /\ task[c].request.keys[1] = BadKey)
  /\ task' = [task EXCEPT ![c].store = current,
                          ![c].pc = IF task[c].request.kind = "health" THEN "health" ELSE "lookup"]
  /\ UNCHANGED <<stores, current, mapped, metrics, replies>>

\* Seeded fault: every key of a batch is looked up in the store of the moment.
CurrentStore(c) == stores[current]

\* The store the handler has loaded.
LoadedStore(c) == stores[task[c].store]

\* store.get, on the mapping the store's snapshot holds.
get(store, key) == IF key \in DOMAIN store.map THEN store.map[key] ELSE None

\* One key: store.get and the counter of its outcome; or the refusal of a key
\* in the middle of a batch, whose earlier lookups stay counted.
LookupKey(c) ==
  LET me == task[c]
      key == me.request.keys[Len(me.results) + 1]
      value == get(LoadedStore(c), key)
  IN  /\ me.pc = "lookup"
      /\ Len(me.results) < Len(me.request.keys)
      /\ IF key = BadKey
           THEN /\ metrics' = [metrics EXCEPT !.errors = @ + 1]
                /\ task' = [task EXCEPT ![c].pc = "return", ![c].reply = InvalidArgument]
           ELSE /\ metrics' = IF value # None THEN [metrics EXCEPT !.hits = @ + 1]
                                              ELSE [metrics EXCEPT !.misses = @ + 1]
                /\ task' = [task EXCEPT ![c].results = Append(@, value)]
      /\ UNCHANGED <<stores, current, mapped, replies>>

\* record_latency, when all keys are done.
RecordLatency(c) ==
  /\ task[c].pc = "lookup"
  /\ Len(task[c].results) = Len(task[c].request.keys)
  /\ metrics' = [metrics EXCEPT !.latency = @ + 1]
  /\ task' = [task EXCEPT ![c].pc = "count"]
  /\ UNCHANGED <<stores, current, mapped, replies>>

\* increment_requests, and the response.
CountRequest(c) ==
  /\ task[c].pc = "count"
  /\ metrics' = [metrics EXCEPT !.requests = @ + 1]
  /\ task' = [task EXCEPT ![c].pc = "return", ![c].reply = [ok |-> TRUE, results |-> task[c].results]]
  /\ UNCHANGED <<stores, current, mapped, replies>>

\* health: the loaded store's timestamp and record count; no counter.
Health(c) ==
  /\ task[c].pc = "health"
  /\ task' = [task EXCEPT ![c].pc = "return",
       ![c].reply = [ok |-> TRUE, results |->
         <<LoadedStore(c).build_timestamp, LoadedStore(c).record_count>>]]
  /\ UNCHANGED <<stores, current, mapped, metrics, replies>>

\* How a finished handler's call counts.
Outcome(me) ==
  IF me.request.kind = "health" THEN "health"
  ELSE IF me.reply.ok THEN "ok" ELSE "err"

\* Seeded fault: a handler that returns keeps its reference to the store.
Return_leaking(c) ==
  /\ task[c].pc = "return"
  /\ task' = [task EXCEPT ![c] = NoTask]
  /\ replies' = [replies EXCEPT ![Outcome(task[c])] = @ + 1]
  /\ UNCHANGED <<stores, current, mapped, metrics>>

\* The handler returns and drops its store.
Return(c) ==
  /\ task[c].pc = "return"
  /\ task' = [task EXCEPT ![c] = NoTask]
  /\ mapped' = mapped \cap InUse(current, task')
  /\ replies' = [replies EXCEPT ![Outcome(task[c])] = @ + 1]
  /\ UNCHANGED <<stores, current, metrics>>

Handle(c) ==
  \/ RejectKey(c)
  \/ Load(c)
  \/ LookupKey(c)
  \/ RecordLatency(c)
  \/ CountRequest(c)
  \/ Health(c)
  \/ Return(c)

Next ==
  \/ \E map \in Maps : reload(map)
  \/ \E c \in Clients :
       \/ \E request \in Requests : Invoke(c, request)
       \/ Handle(c)

Spec == Init /\ [][Next]_vars

-------------------------------------------------------------------------------
(* Properties *)

\* The state of the server is well formed.
TypeOK ==
  /\ \A s \in 1..Len(stores) : stores[s].map \in Maps
  /\ current = Len(stores)
  /\ Len(stores) \in 1..MaxReloads + 1
  /\ mapped \subseteq 1..Len(stores)
  /\ task \in [Clients ->
       [pc : {"none", "start", "lookup", "health", "count", "return"},
        request : Requests \cup {NoRequest},
        store : 0..Len(stores),
        results : Seq(Values \cup {None}),
        reply : {None} \cup [ok : BOOLEAN, results : Seq(Values \cup {None} \cup Nat)]]]
  /\ metrics \in [{"requests", "hits", "misses", "errors", "latency"} -> Nat]
  /\ replies \in [{"ok", "err", "health"} -> Nat]

\* How a caller's call stands: from its load on, its reply is settled.
Seen(c) ==
  CASE task[c].pc = "none" ->
         [stage |-> "none", request |-> None, reply |-> None]
    [] task[c].pc = "start" ->
         [stage |-> "called", request |-> task[c].request, reply |-> None]
    [] task[c].pc \in {"lookup", "health", "count"} ->
         [stage |-> "served", request |-> task[c].request,
          reply |-> Reply(task[c].request, stores[task[c].store])]
    [] task[c].pc = "return" ->
         [stage |-> "served", request |-> task[c].request, reply |-> task[c].reply]

\* server.rs on reload: "This is atomic and lock-free. Existing requests complete
\* with the old snapshot while new requests use the new one." Every handler, its
\* steps interleaved with reloads, gives the reply of a server that answers each
\* call at once from the one snapshot it has.
Service == INSTANCE KvService WITH
  snapshot <- stores[current],
  call <- [c \in Clients |-> Seen(c)]

ImplementsService == Service!Spec

\* A handler never reads a store that has been unmapped, however many reloads
\* happen between its load and its last lookup.
NoUseAfterUnmap ==
  \A c \in Clients : task[c].pc \in {"lookup", "health"} => task[c].store \in mapped

\* The counters agree with what clients were answered: each is off by no more
\* than the handlers that have already counted and not yet gone on, or returned.
CountersAddUp ==
  LET counting == { c \in Clients : task[c].pc = "count" }
      returning(outcome) ==
        { c \in Clients : task[c].pc = "return" /\ Outcome(task[c]) = outcome }
  IN  /\ metrics.latency = metrics.requests + Cardinality(counting)
      /\ metrics.requests = replies.ok + Cardinality(returning("ok"))
      /\ metrics.errors = replies.err + Cardinality(returning("err"))

\* A store that reload has replaced is unmapped in the end: no sequence of new
\* calls keeps two snapshots in memory for ever.
ReplacedIsUnmapped ==
  \A s \in 1..MaxReloads : (s \in mapped /\ s # current) ~> s \notin mapped

===============================================================================
