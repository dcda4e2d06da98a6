---------------------------- MODULE KvServer_proofs ----------------------------
(***************************************************************************)
(* The server's invariants, that it implements KvService, and what a       *)
(* scrape of its metrics is right about, for any number of clients, calls, *)
(* reloads and keys in a batch.                                            *)
(***************************************************************************)
EXTENDS KvScrape, FiniteSetTheorems, TLAPS

-------------------------------------------------------------------------------
(* Requests, and counting handlers *)

\* A request is a kind and a sequence of keys; get has one.
LEMMA RequestShape ==
  ASSUME NEW r \in Requests \cup {NoRequest}
  PROVE  /\ r.keys \in Seq(Keys \cup {BadKey})
         /\ r = [kind |-> r.kind, keys |-> r.keys]
         /\ r.kind = "get" => Len(r.keys) = 1
  <1>1. CASE r = NoRequest
    BY <1>1 DEF NoRequest
  <1>2. CASE \E key \in Keys \cup {BadKey} : r = [kind |-> "get", keys |-> <<key>>]
    BY <1>2
  <1>3. CASE \E n \in 0..MaxBatch : \E keys \in [1..n -> Keys \cup {BadKey}] :
               r = [kind |-> "batch_get", keys |-> keys]
    <2>0. PICK n \in 0..MaxBatch : \E keys \in [1..n -> Keys \cup {BadKey}] :
                 r = [kind |-> "batch_get", keys |-> keys]
      BY <1>3
    <2>1. PICK keys \in [1..n -> Keys \cup {BadKey}] : r = [kind |-> "batch_get", keys |-> keys]
      BY <2>0
    <2>2. n \in Nat
      BY ServerAssumption
    <2>3. keys \in Seq(Keys \cup {BadKey})
      BY <2>2
    <2> QED
      BY <2>1, <2>3
  <1>4. CASE r = [kind |-> "health", keys |-> <<>>]
    BY <1>4
  <1> QED
    BY <1>1, <1>2, <1>3, <1>4 DEF Requests

\* The fields of a snapshot.
LEMMA SnapshotFields ==
  ASSUME NEW s \in Snapshots
  PROVE  s.map \in Maps /\ s.build_timestamp \in Nat /\ s.record_count \in Nat
  <1>1. PICK map \in Maps, build_timestamp \in 1..MaxReloads + 1 : s = Snapshot(map, build_timestamp)
    BY DEF Snapshots
  <1>2. Cardinality(DOMAIN map) \in Nat
    BY ServerAssumption, FS_CardinalityType
  <1> QED
    BY <1>1, <1>2, ServerAssumption DEF Snapshot

\* Two sets that differ in one element at most.
LEMMA Recount ==
  ASSUME NEW S, NEW T, NEW x, IsFiniteSet(S), T \ {x} = S \ {x}
  PROVE  /\ IsFiniteSet(T)
         /\ Cardinality(S) \in Nat
         /\ Cardinality(T) \in Nat
         /\ x \in S <=> x \in T => Cardinality(T) = Cardinality(S)
         /\ x \notin S /\ x \in T => Cardinality(T) = Cardinality(S) + 1
         /\ x \in S /\ x \notin T => Cardinality(T) = Cardinality(S) - 1
  <1>1. Cardinality(S) \in Nat
    BY FS_CardinalityType
  <1>2. CASE x \in T
    <2>1. T = S \cup {x}
      BY <1>2
    <2> QED
      BY <1>1, <1>2, <2>1, FS_AddElement, FS_CardinalityType
  <1>3. CASE x \notin T
    <2>1. T = S \ {x}
      BY <1>3
    <2> QED
      BY <1>1, <1>3, <2>1, FS_RemoveElement, FS_CardinalityType
  <1> QED
    BY <1>2, <1>3

\* The handlers that have counted and not gone on, and those that return.
Counting == { c \in Clients : task[c].pc = "count" }
Returning(outcome) == { c \in Clients : task[c].pc = "return" /\ Outcome(task[c]) = outcome }

LEMMA CountersAddUpSets ==
  CountersAddUp <=>
    /\ metrics.latency = metrics.requests + Cardinality(Counting)
    /\ metrics.requests = replies.ok + Cardinality(Returning("ok"))
    /\ metrics.errors = replies.err + Cardinality(Returning("err"))
  BY DEF CountersAddUp, Counting, Returning

\* A step of one handler moves it into these sets or out of them.
LEMMA OneMoves ==
  ASSUME NEW c \in Clients, \A d \in Clients \ {c} : task'[d] = task[d], NEW o
  PROVE  /\ IsFiniteSet(Counting)
         /\ Counting' \ {c} = Counting \ {c}
         /\ c \in Counting <=> task[c].pc = "count"
         /\ c \in Counting' <=> task'[c].pc = "count"
         /\ IsFiniteSet(Returning(o))
         /\ Returning(o)' \ {c} = Returning(o) \ {c}
         /\ c \in Returning(o) <=> task[c].pc = "return" /\ Outcome(task[c]) = o
         /\ c \in Returning(o)' <=> task'[c].pc = "return" /\ Outcome(task'[c]) = o
  <1>1. Counting \subseteq Clients /\ Returning(o) \subseteq Clients
    BY DEF Counting, Returning
  <1>2. IsFiniteSet(Counting) /\ IsFiniteSet(Returning(o))
    BY <1>1, FS_Subset, ServerAssumption
  <1> QED
    BY <1>2 DEF Counting, Returning, Outcome

LEMMA MovesCounted ==
  ASSUME NEW c \in Clients, \A d \in Clients \ {c} : task'[d] = task[d]
  PROVE  /\ Cardinality(Counting) \in Nat
         /\ (task[c].pc = "count" <=> task'[c].pc = "count") =>
              Cardinality(Counting') = Cardinality(Counting)
         /\ task[c].pc # "count" /\ task'[c].pc = "count" =>
              Cardinality(Counting') = Cardinality(Counting) + 1
         /\ task[c].pc = "count" /\ task'[c].pc # "count" =>
              Cardinality(Counting') = Cardinality(Counting) - 1
  BY OneMoves, Recount

LEMMA MovesReturned ==
  ASSUME NEW c \in Clients, \A d \in Clients \ {c} : task'[d] = task[d], NEW o
  PROVE  /\ Cardinality(Returning(o)) \in Nat
         /\ task[c].pc # "return" /\ task'[c].pc # "return" =>
              Cardinality(Returning(o)') = Cardinality(Returning(o))
         /\ task[c].pc # "return" /\ task'[c].pc = "return" =>
              Cardinality(Returning(o)') =
                IF Outcome(task'[c]) = o THEN Cardinality(Returning(o)) + 1
                                         ELSE Cardinality(Returning(o))
         /\ task[c].pc = "return" /\ task'[c].pc # "return" =>
              Cardinality(Returning(o)') =
                IF Outcome(task[c]) = o THEN Cardinality(Returning(o)) - 1
                                        ELSE Cardinality(Returning(o))
  BY OneMoves, Recount

-------------------------------------------------------------------------------
(* The initial state, and reload *)

LEMMA InitInv == Init => IInv
  <1> SUFFICES ASSUME Init PROVE IInv
    OBVIOUS
  <1>1. NoTask \in Tasks /\ TaskInv(NoTask)
    <2>1. Len(stores) = 1
      BY DEF Init
    <2> QED
      BY <2>1 DEF TaskInv, NoTask, Tasks, PCs
  <1>2. StateInv
    <2>1. PICK map \in Maps : stores = <<Snapshot(map, 1)>>
      BY DEF Init
    <2>2. Snapshot(map, 1) \in Snapshots
      BY ServerAssumption DEF Snapshots
    <2>3. stores \in Seq(Snapshots) /\ Len(stores) = 1
      BY <2>1, <2>2
    <2> QED
      BY <1>1, <2>3, ServerAssumption DEF Init, StateInv, NewMetrics
  <1>3. MappedInv
    BY DEF Init, MappedInv, InUse, NoTask
  <1>4. CountersAddUp
    <2>1. \A c \in Clients : task[c].pc = "none"
      BY DEF Init, NoTask
    <2>2. Counting = {} /\ Returning("ok") = {} /\ Returning("err") = {}
      BY <2>1 DEF Counting, Returning
    <2>3. Cardinality({}) = 0
      BY FS_EmptySet
    <2>4. /\ metrics.latency = 0 /\ metrics.requests = 0 /\ metrics.errors = 0
          /\ replies.ok = 0 /\ replies.err = 0
      BY DEF Init, NewMetrics
    <2> QED
      BY <2>2, <2>3, <2>4, CountersAddUpSets
  <1> QED
    BY <1>1, <1>2, <1>3, <1>4 DEF IInv, Init

\* What TaskInv says of a handler stays true when stores are added.
LEMMA TaskInvAppend ==
  ASSUME NEW s \in Snapshots, stores \in Seq(Snapshots), stores' = Append(stores, s),
         NEW c \in Clients, TaskInv(task[c]), task' = task
  PROVE  TaskInv(task[c])'
  <1>1. /\ Len(stores') = Len(stores) + 1
        /\ Len(stores) \in Nat
        /\ \A i \in 1..Len(stores) : stores'[i] = stores[i]
    OBVIOUS
  <1>2. task[c].store \in 0..Len(stores)
    BY DEF TaskInv
  <1>3. task[c].store # 0 => stores'[task[c].store] = stores[task[c].store]
    BY <1>1, <1>2
  <1>4. task[c].store # 0 /\ Found(task[c]) => Found(task[c])'
    BY <1>3 DEF Found
  <1> QED
    BY <1>1, <1>4 DEF TaskInv

LEMMA OneMore ==
  ASSUME IInv, NEW map \in Maps, reload(map)
  PROVE  Snapshot(map, Len(stores) + 1) \in Snapshots
  <1>1. Len(stores) + 1 \in 1..MaxReloads + 1
    BY ServerAssumption DEF reload, IInv, StateInv
  <1> QED
    BY <1>1 DEF Snapshots

LEMMA ReloadInv ==
  ASSUME IInv, NEW map \in Maps, reload(map)
  PROVE  IInv'
  <1> DEFINE s == Snapshot(map, Len(stores) + 1)
  <1>1. s \in Snapshots /\ stores' = Append(stores, s)
    BY OneMore DEF reload
  <1>2. /\ stores' \in Seq(Snapshots)
        /\ Len(stores') = Len(stores) + 1
        /\ Len(stores) \in Nat
    BY <1>1 DEF IInv, StateInv
  <1>3. StateInv'
    BY <1>2, ServerAssumption DEF reload, StateInv, IInv
  <1>4. MappedInv'
    BY <1>2 DEF reload, MappedInv, InUse, IInv, StateInv
  <1>5. \A c \in Clients : TaskInv(task[c])'
    BY <1>1, TaskInvAppend DEF IInv, StateInv, reload
  <1>6. CountersAddUp'
    BY DEF reload, IInv, CountersAddUp, Outcome
  <1> QED
    BY <1>3, <1>4, <1>5, <1>6 DEF IInv

-------------------------------------------------------------------------------
(* The steps of handlers *)

\* What a step of one handler has to show: the state's types, and what TaskInv
\* says of that handler.
LEMMA OthersKeep ==
  ASSUME IInv, NEW c \in Clients, \A d \in Clients \ {c} : task'[d] = task[d],
         stores' = stores, TaskInv(task[c])'
  PROVE  \A d \in Clients : TaskInv(task[d])'
  <1> SUFFICES ASSUME NEW d \in Clients \ {c}
               PROVE  TaskInv(task[d])'
    OBVIOUS
  <1>1. TaskInv(task[d])
    BY DEF IInv
  <1> QED
    BY <1>1 DEF TaskInv, Found

\* A handler that keeps its store leaves the mapped stores as they are.
LEMMA StoreKept ==
  ASSUME IInv, NEW c \in Clients, \A d \in Clients \ {c} : task'[d] = task[d],
         task'[c].store = task[c].store, current' = current, mapped' = mapped
  PROVE  MappedInv'
  BY DEF IInv, MappedInv, InUse

\* One counter of the metrics, raised by one.
LEMMA Raised ==
  ASSUME IInv, NEW f \in {"requests", "hits", "misses", "errors", "latency"},
         metrics' = [metrics EXCEPT ![f] = @ + 1]
  PROVE  /\ metrics' \in [{"requests", "hits", "misses", "errors", "latency"} -> Nat]
         /\ metrics'[f] = metrics[f] + 1
         /\ \A g \in {"requests", "hits", "misses", "errors", "latency"} \ {f} :
              metrics'[g] = metrics[g]
  BY DEF IInv, StateInv

\* What CountersAddUp and StateInv say of the numbers.
LEMMA Numbers ==
  ASSUME IInv
  PROVE  /\ metrics.latency = metrics.requests + Cardinality(Counting)
         /\ metrics.requests = replies.ok + Cardinality(Returning("ok"))
         /\ metrics.errors = replies.err + Cardinality(Returning("err"))
         /\ Cardinality(Counting) \in Int
         /\ Cardinality(Returning("ok")) \in Int
         /\ Cardinality(Returning("err")) \in Int
         /\ metrics.requests \in Int /\ replies.ok \in Int /\ replies.err \in Int
  <1>1. Counting \subseteq Clients /\ \A o : Returning(o) \subseteq Clients
    BY DEF Counting, Returning
  <1>2. IsFiniteSet(Counting) /\ IsFiniteSet(Returning("ok")) /\ IsFiniteSet(Returning("err"))
    BY <1>1, FS_Subset, ServerAssumption
  <1>3. /\ Cardinality(Counting) \in Int
        /\ Cardinality(Returning("ok")) \in Int
        /\ Cardinality(Returning("err")) \in Int
    BY <1>2, FS_CardinalityType
  <1>4. metrics.requests \in Int /\ replies.ok \in Int /\ replies.err \in Int
    BY DEF IInv, StateInv
  <1> QED
    BY <1>3, <1>4, CountersAddUpSets DEF IInv

LEMMA CountersAddUpNext ==
  ASSUME metrics'.latency = metrics'.requests + Cardinality(Counting'),
         metrics'.requests = replies'.ok + Cardinality(Returning("ok")'),
         metrics'.errors = replies'.err + Cardinality(Returning("err")')
  PROVE  CountersAddUp'
  BY DEF CountersAddUp, Counting, Returning

LEMMA InvokeInv ==
  ASSUME IInv, NEW c \in Clients, NEW request \in Requests, Invoke(c, request)
  PROVE  IInv'
  <1>1. task[c] = NoTask /\ task \in [Clients -> Tasks]
    BY DEF Invoke, IInv, TaskInv, StateInv
  <1>2. task' = [task EXCEPT ![c].pc = "start", ![c].request = request]
    BY DEF Invoke
  <1>3. /\ task'[c].pc = "start" /\ task'[c].request = request
        /\ task'[c].store = 0 /\ task'[c].results = <<>>
        /\ \A d \in Clients \ {c} : task'[d] = task[d]
    BY <1>1, <1>2 DEF NoTask, Tasks
  <1>4. task' \in [Clients -> Tasks]
    BY <1>1, <1>2 DEF Tasks, PCs
  <1>5. StateInv'
    BY <1>4 DEF Invoke, IInv, StateInv
  <1>6. MappedInv'
    BY <1>1, <1>3, StoreKept DEF Invoke, NoTask
  <1>7. TaskInv(task[c])'
    BY <1>3, <1>5 DEF TaskInv, StateInv
  <1>8. CountersAddUp'
    <2>1. task[c].pc = "none" /\ task'[c].pc = "start"
      BY <1>1, <1>3 DEF NoTask
    <2>2. Counting' = Counting /\ \A o : Returning(o)' = Returning(o)
      BY <1>3, <2>1 DEF Counting, Returning, Outcome
    <2> QED
      BY <2>2, CountersAddUpSets DEF Invoke, IInv, CountersAddUp, Counting, Returning
  <1> QED
    BY <1>3, <1>5, <1>6, <1>7, <1>8, OthersKeep DEF Invoke, IInv

LEMMA RejectKeyInv ==
  ASSUME IInv, NEW c \in Clients, RejectKey(c)
  PROVE  IInv'
  <1>1. /\ task[c].pc = "start" /\ task[c].request.kind = "get"
        /\ task \in [Clients -> Tasks] /\ TaskInv(task[c])
    BY DEF RejectKey, IInv, StateInv
  <1>2. /\ task' = [task EXCEPT ![c].pc = "return", ![c].reply = InvalidArgument]
        /\ InvalidArgument \in Replies
        /\ InvalidArgument.ok = FALSE
    BY DEF RejectKey, InvalidArgument, Replies
  <1>3. /\ task'[c].pc = "return" /\ task'[c].request = task[c].request
        /\ task'[c].store = task[c].store /\ task'[c].reply = InvalidArgument
        /\ \A d \in Clients \ {c} : task'[d] = task[d]
        /\ task' \in [Clients -> Tasks]
    BY <1>1, <1>2 DEF Tasks, PCs
  <1>4. metrics' = [metrics EXCEPT !["errors"] = @ + 1]
    BY DEF RejectKey
  <1>5. StateInv'
    BY <1>3, <1>4, Raised DEF RejectKey, IInv, StateInv
  <1>6. MappedInv'
    BY <1>3, StoreKept DEF RejectKey
  <1>7. TaskInv(task[c])'
    BY <1>1, <1>2, <1>3 DEF TaskInv, RejectKey
  <1>8. CountersAddUp'
    <2>1. Outcome(task'[c]) = "err"
      BY <1>1, <1>2, <1>3 DEF Outcome
    <2>2. /\ Cardinality(Counting') = Cardinality(Counting)
          /\ Cardinality(Returning("ok")') = Cardinality(Returning("ok"))
          /\ Cardinality(Returning("err")') = Cardinality(Returning("err")) + 1
      BY <1>1, <1>3, <2>1, MovesCounted, MovesReturned
    <2>3. metrics'.errors = metrics.errors + 1 /\ metrics'.latency = metrics.latency
          /\ metrics'.requests = metrics.requests /\ replies' = replies
      BY <1>4, Raised DEF RejectKey
    <2>4. metrics'.errors = replies'.err + Cardinality(Returning("err")')
      BY <2>2, <2>3, Numbers
    <2> QED
      BY <2>2, <2>3, <2>4, Numbers, CountersAddUpNext
  <1> QED
    BY <1>3, <1>5, <1>6, <1>7, <1>8, OthersKeep DEF RejectKey, IInv

\* A step of a handler that neither counts nor returns leaves the counts alone.
LEMMA Steady ==
  ASSUME IInv, NEW c \in Clients, \A d \in Clients \ {c} : task'[d] = task[d],
         task[c].pc \notin {"count", "return"}, task'[c].pc \notin {"count", "return"},
         metrics'.latency = metrics.latency, metrics'.requests = metrics.requests,
         replies'.ok = replies.ok, replies'.err = replies.err,
         metrics'.errors = metrics.errors
  PROVE  CountersAddUp'
  <1>1. /\ Cardinality(Counting') = Cardinality(Counting)
        /\ Cardinality(Returning("ok")') = Cardinality(Returning("ok"))
        /\ Cardinality(Returning("err")') = Cardinality(Returning("err"))
    BY MovesCounted, MovesReturned
  <1> QED
    BY <1>1, Numbers, CountersAddUpNext

LEMMA LoadInv ==
  ASSUME IInv, NEW c \in Clients, Load(c)
  PROVE  IInv'
  <1> DEFINE pc == IF task[c].request.kind = "health" THEN "health" ELSE "lookup"
  <1>1. /\ task[c].pc = "start" /\ task \in [Clients -> Tasks] /\ TaskInv(task[c])
        /\ task[c].store = 0 /\ task[c].results = <<>>
    BY DEF Load, IInv, StateInv, TaskInv
  <1>2. task' = [task EXCEPT ![c].store = current, ![c].pc = pc]
    BY DEF Load
  <1>3. current \in 1..Len(stores) /\ current \in Nat
    BY DEF IInv, StateInv
  <1>4. /\ task'[c].pc = pc /\ task'[c].request = task[c].request
        /\ task'[c].store = current /\ task'[c].results = <<>>
        /\ \A d \in Clients \ {c} : task'[d] = task[d]
    BY <1>1, <1>2 DEF Tasks
  <1>5. task' \in [Clients -> Tasks]
    BY <1>1, <1>2, <1>3 DEF Tasks, PCs
  <1>6. StateInv'
    BY <1>5 DEF Load, IInv, StateInv
  <1>7. MappedInv'
    BY <1>1, <1>3, <1>4 DEF Load, IInv, MappedInv, InUse
  <1>8. TaskInv(task[c])'
    <2>1. Len(task[c].request.keys) \in Nat
      BY <1>1, RequestShape DEF TaskInv
    <2>2. Found(task[c])'
      BY <1>4, <2>1 DEF Found
    <2>3. stores' = stores /\ pc \in {"lookup", "health"} /\ current # 0
      BY <1>3 DEF Load
    <2> QED
      BY <1>1, <1>3, <1>4, <2>2, <2>3 DEF TaskInv
  <1>9. CountersAddUp'
    BY <1>1, <1>4, Steady DEF Load
  <1> QED
    BY <1>4, <1>6, <1>7, <1>8, <1>9, OthersKeep DEF Load, IInv

\* A refused key in a batch ends the call with an error.
LEMMA RefusedInv ==
  ASSUME IInv, NEW c \in Clients, task[c].pc = "lookup",
         metrics' = [metrics EXCEPT !["errors"] = @ + 1],
         task' = [task EXCEPT ![c].pc = "return", ![c].reply = InvalidArgument],
         UNCHANGED <<stores, current, mapped, replies>>
  PROVE  IInv'
  <1>1. task \in [Clients -> Tasks] /\ TaskInv(task[c]) /\ task[c].request.kind # "health"
    BY DEF IInv, StateInv, TaskInv
  <1>2. InvalidArgument \in Replies /\ InvalidArgument.ok = FALSE
    BY DEF InvalidArgument, Replies
  <1>3. /\ task'[c].pc = "return" /\ task'[c].request = task[c].request
        /\ task'[c].store = task[c].store /\ task'[c].reply = InvalidArgument
        /\ \A d \in Clients \ {c} : task'[d] = task[d]
        /\ task' \in [Clients -> Tasks]
    BY <1>1, <1>2 DEF Tasks, PCs
  <1>4. StateInv'
    BY <1>3, Raised DEF IInv, StateInv
  <1>5. MappedInv'
    BY <1>3, StoreKept
  <1>6. TaskInv(task[c])'
    BY <1>1, <1>2, <1>3 DEF TaskInv
  <1>7. CountersAddUp'
    <2>1. Outcome(task'[c]) = "err"
      BY <1>1, <1>2, <1>3 DEF Outcome
    <2>2. /\ Cardinality(Counting') = Cardinality(Counting)
          /\ Cardinality(Returning("ok")') = Cardinality(Returning("ok"))
          /\ Cardinality(Returning("err")') = Cardinality(Returning("err")) + 1
      BY <1>3, <2>1, MovesCounted, MovesReturned
    <2>3. metrics'.errors = metrics.errors + 1 /\ metrics'.latency = metrics.latency
          /\ metrics'.requests = metrics.requests /\ replies' = replies
      BY Raised
    <2>4. metrics'.errors = replies'.err + Cardinality(Returning("err")')
      BY <2>2, <2>3, Numbers
    <2> QED
      BY <2>2, <2>3, <2>4, Numbers, CountersAddUpNext
  <1> QED
    BY <1>3, <1>4, <1>5, <1>6, <1>7, OthersKeep DEF IInv

\* A key that was looked up adds to what the handler has found.
LEMMA LookedUpInv ==
  ASSUME IInv, NEW c \in Clients, task[c].pc = "lookup",
         Len(task[c].results) < Len(task[c].request.keys),
         task[c].request.keys[Len(task[c].results) + 1] # BadKey,
         NEW value,
         value = get(LoadedStore(c), task[c].request.keys[Len(task[c].results) + 1]),
         NEW f \in {"hits", "misses"},
         metrics' = [metrics EXCEPT ![f] = @ + 1],
         task' = [task EXCEPT ![c].results = Append(@, value)],
         UNCHANGED <<stores, current, mapped, replies>>
  PROVE  IInv'
  <1> DEFINE n == Len(task[c].results)
  <1> DEFINE key == task[c].request.keys[n + 1]
  <1>1. /\ task \in [Clients -> Tasks] /\ TaskInv(task[c]) /\ Found(task[c])
        /\ task[c].request.kind # "health" /\ task[c].request \in Requests
        /\ task[c].store \in 1..Len(stores)
    BY DEF IInv, StateInv, TaskInv
  <1>2. task[c].results \in Seq(Values \cup {None}) /\ n \in Nat
    BY <1>1 DEF Tasks
  <1>3. value \in Values \cup {None} /\ value = Lookup(stores[task[c].store].map, key)
    <2>1. stores[task[c].store] \in Snapshots
      BY <1>1 DEF IInv, StateInv
    <2>2. stores[task[c].store].map \in Maps
      BY <2>1, SnapshotFields
    <2> QED
      BY <2>2, ServerAssumption DEF get, LoadedStore, Lookup
  <1>4. Append(task[c].results, value) \in Seq(Values \cup {None})
    <2> DEFINE r == task[c].results
    <2>1. r \in Seq(Values \cup {None}) /\ value \in Values \cup {None}
      BY <1>2, <1>3
    <2> HIDE DEF r
    <2>2. Append(r, value) \in Seq(Values \cup {None})
      BY <2>1
    <2> QED
      BY <2>2 DEF r
  <1>5. /\ task'[c].pc = "lookup" /\ task'[c].request = task[c].request
        /\ task'[c].store = task[c].store
        /\ task'[c].results = Append(task[c].results, value)
        /\ \A d \in Clients \ {c} : task'[d] = task[d]
    BY <1>1 DEF Tasks
  <1>6. task' \in [Clients -> Tasks]
    BY <1>1, <1>4 DEF Tasks
  <1>7. StateInv'
    BY <1>6, Raised DEF IInv, StateInv
  <1>8. MappedInv'
    BY <1>5, StoreKept
  <1>9. TaskInv(task[c])'
    <2>1. /\ Len(task'[c].results) = n + 1
          /\ \A i \in 1..n : task'[c].results[i] = task[c].results[i]
          /\ task'[c].results[n + 1] = value
      <3> DEFINE r == task[c].results
      <3>1. r \in Seq(Values \cup {None}) /\ value \in Values \cup {None}
        BY <1>2, <1>3
      <3>2. /\ Len(Append(r, value)) = Len(r) + 1
            /\ \A i \in 1..Len(r) : Append(r, value)[i] = r[i]
            /\ Append(r, value)[Len(r) + 1] = value
        <4> HIDE DEF r
        <4> QED
          BY <3>1
      <3> QED
        BY <1>5, <3>2
    <2>2. Len(task[c].request.keys) \in Nat
      BY <1>1, RequestShape
    <2>3. n + 1 <= Len(task[c].request.keys)
      BY <1>2, <2>2
    <2>4. ASSUME NEW i \in 1..n + 1
          PROVE  /\ task[c].request.keys[i] # BadKey
                 /\ task'[c].results[i] = Lookup(stores[task[c].store].map, task[c].request.keys[i])
      <3>1. CASE i = n + 1
        BY <1>3, <2>1, <3>1
      <3>2. CASE i # n + 1
        BY <1>1, <1>2, <2>1, <3>2 DEF Found
      <3> QED
        BY <3>1, <3>2
    <2>5. Found(task[c])'
      BY <1>5, <2>1, <2>3, <2>4 DEF Found
    <2> QED
      BY <1>1, <1>5, <2>5 DEF TaskInv
  <1>10. CountersAddUp'
    <2>1. metrics'.errors = metrics.errors /\ metrics'.latency = metrics.latency
          /\ metrics'.requests = metrics.requests /\ replies' = replies
      BY Raised
    <2> QED
      BY <1>5, <2>1, Steady
  <1> QED
    BY <1>5, <1>7, <1>8, <1>9, <1>10, OthersKeep DEF IInv

LEMMA LookupKeyInv ==
  ASSUME IInv, NEW c \in Clients, LookupKey(c)
  PROVE  IInv'
  <1> DEFINE key == task[c].request.keys[Len(task[c].results) + 1]
  <1> DEFINE value == get(LoadedStore(c), key)
  <1>1. CASE key = BadKey
    BY <1>1, RefusedInv DEF LookupKey
  <1>2. CASE key # BadKey /\ value # None
    BY <1>2, LookedUpInv DEF LookupKey
  <1>3. CASE key # BadKey /\ value = None
    BY <1>3, LookedUpInv DEF LookupKey
  <1> QED
    BY <1>1, <1>2, <1>3

LEMMA RecordLatencyInv ==
  ASSUME IInv, NEW c \in Clients, RecordLatency(c)
  PROVE  IInv'
  <1>1. /\ task[c].pc = "lookup" /\ Len(task[c].results) = Len(task[c].request.keys)
        /\ task \in [Clients -> Tasks] /\ TaskInv(task[c])
    BY DEF RecordLatency, IInv, StateInv
  <1>2. task' = [task EXCEPT ![c].pc = "count"]
    BY DEF RecordLatency
  <1>3. /\ task'[c].pc = "count" /\ task'[c].request = task[c].request
        /\ task'[c].store = task[c].store /\ task'[c].results = task[c].results
        /\ \A d \in Clients \ {c} : task'[d] = task[d]
        /\ task' \in [Clients -> Tasks]
    BY <1>1, <1>2 DEF Tasks, PCs
  <1>4. metrics' = [metrics EXCEPT !["latency"] = @ + 1]
    BY DEF RecordLatency
  <1>5. StateInv'
    BY <1>3, <1>4, Raised DEF RecordLatency, IInv, StateInv
  <1>6. MappedInv'
    BY <1>3, StoreKept DEF RecordLatency
  <1>7. TaskInv(task[c])'
    BY <1>1, <1>3 DEF TaskInv, Found, RecordLatency
  <1>8. CountersAddUp'
    <2>1. /\ Cardinality(Counting') = Cardinality(Counting) + 1
          /\ Cardinality(Returning("ok")') = Cardinality(Returning("ok"))
          /\ Cardinality(Returning("err")') = Cardinality(Returning("err"))
      BY <1>1, <1>3, MovesCounted, MovesReturned
    <2>2. metrics'.errors = metrics.errors /\ metrics'.latency = metrics.latency + 1
          /\ metrics'.requests = metrics.requests /\ replies' = replies
      BY <1>4, Raised DEF RecordLatency
    <2>3. metrics'.latency = metrics'.requests + Cardinality(Counting')
      BY <2>1, <2>2, Numbers
    <2> QED
      BY <2>1, <2>2, <2>3, Numbers, CountersAddUpNext
  <1> QED
    BY <1>3, <1>5, <1>6, <1>7, <1>8, OthersKeep DEF RecordLatency, IInv

LEMMA CountRequestInv ==
  ASSUME IInv, NEW c \in Clients, CountRequest(c)
  PROVE  IInv'
  <1> DEFINE reply == [ok |-> TRUE, results |-> task[c].results]
  <1>1. /\ task[c].pc = "count" /\ task \in [Clients -> Tasks] /\ TaskInv(task[c])
        /\ task[c].request.kind # "health"
    BY DEF CountRequest, IInv, StateInv, TaskInv
  <1>2. task' = [task EXCEPT ![c].pc = "return", ![c].reply = reply]
    BY DEF CountRequest
  <1>3. reply \in Replies /\ reply.ok = TRUE
    <2>1. task[c].results \in Seq(Values \cup {None})
      BY <1>1 DEF Tasks
    <2>2. task[c].results \in Seq(Values \cup {None} \cup Nat)
      BY <2>1
    <2> QED
      BY <2>2 DEF Replies
  <1>4. /\ task'[c].pc = "return" /\ task'[c].request = task[c].request
        /\ task'[c].store = task[c].store /\ task'[c].reply = reply
        /\ \A d \in Clients \ {c} : task'[d] = task[d]
        /\ task' \in [Clients -> Tasks]
    BY <1>1, <1>2, <1>3 DEF Tasks, PCs
  <1>5. metrics' = [metrics EXCEPT !["requests"] = @ + 1]
    BY DEF CountRequest
  <1>6. StateInv'
    BY <1>4, <1>5, Raised DEF CountRequest, IInv, StateInv
  <1>7. MappedInv'
    BY <1>4, StoreKept DEF CountRequest
  <1>8. TaskInv(task[c])'
    BY <1>1, <1>3, <1>4 DEF TaskInv, CountRequest
  <1>9. CountersAddUp'
    <2>1. Outcome(task'[c]) = "ok"
      BY <1>1, <1>3, <1>4 DEF Outcome
    <2>2. /\ Cardinality(Counting') = Cardinality(Counting) - 1
          /\ Cardinality(Returning("ok")') = Cardinality(Returning("ok")) + 1
          /\ Cardinality(Returning("err")') = Cardinality(Returning("err"))
      BY <1>1, <1>4, <2>1, MovesCounted, MovesReturned
    <2>3. metrics'.errors = metrics.errors /\ metrics'.latency = metrics.latency
          /\ metrics'.requests = metrics.requests + 1 /\ replies' = replies
      BY <1>5, Raised DEF CountRequest
    <2>4. metrics'.latency = metrics'.requests + Cardinality(Counting')
      <3>1. Cardinality(Counting) \in Int /\ metrics.requests \in Int
            /\ metrics.latency = metrics.requests + Cardinality(Counting)
        BY Numbers
      <3> QED
        BY <2>2, <2>3, <3>1
    <2>5. metrics'.requests = replies'.ok + Cardinality(Returning("ok")')
      <3>1. Cardinality(Returning("ok")) \in Int /\ replies.ok \in Int
            /\ metrics.requests = replies.ok + Cardinality(Returning("ok"))
        BY Numbers
      <3> QED
        BY <2>2, <2>3, <3>1
    <2> QED
      BY <2>2, <2>3, <2>4, <2>5, Numbers, CountersAddUpNext
  <1> QED
    BY <1>4, <1>6, <1>7, <1>8, <1>9, OthersKeep DEF CountRequest, IInv

LEMMA HealthInv ==
  ASSUME IInv, NEW c \in Clients, Health(c)
  PROVE  IInv'
  <1> DEFINE store == LoadedStore(c)
  <1> DEFINE reply == [ok |-> TRUE, results |->
                        <<store.build_timestamp, store.record_count>>]
  <1>1. /\ task[c].pc = "health" /\ task \in [Clients -> Tasks] /\ TaskInv(task[c])
        /\ task[c].request.kind = "health" /\ task[c].store \in 1..Len(stores)
    BY DEF Health, IInv, StateInv, TaskInv
  <1>2. task' = [task EXCEPT ![c].pc = "return", ![c].reply = reply]
    BY DEF Health
  <1>3. reply \in Replies /\ reply.ok = TRUE
    <2>1. store \in Snapshots
      BY <1>1 DEF LoadedStore, IInv, StateInv
    <2>2. store.build_timestamp \in Nat
      BY <2>1, SnapshotFields
    <2>3. store.record_count \in Nat
      BY <2>1, SnapshotFields
    <2>4. reply.results \in Seq(Values \cup {None} \cup Nat)
      BY <2>2, <2>3
    <2> QED
      BY <2>4 DEF Replies
  <1> HIDE DEF reply
  <1>4. /\ task'[c].pc = "return" /\ task'[c].request = task[c].request
        /\ task'[c].store = task[c].store /\ task'[c].reply = reply
        /\ \A d \in Clients \ {c} : task'[d] = task[d]
        /\ task' \in [Clients -> Tasks]
    BY <1>1, <1>2, <1>3 DEF Tasks, PCs
  <1>5. StateInv'
    BY <1>4 DEF Health, IInv, StateInv
  <1>6. MappedInv'
    BY <1>4, StoreKept DEF Health
  <1>7. TaskInv(task[c])'
    BY <1>1, <1>3, <1>4 DEF TaskInv, Health
  <1>8. CountersAddUp'
    <2>1. Outcome(task'[c]) = "health"
      BY <1>1, <1>4 DEF Outcome
    <2>2. /\ Cardinality(Counting') = Cardinality(Counting)
          /\ Cardinality(Returning("ok")') = Cardinality(Returning("ok"))
          /\ Cardinality(Returning("err")') = Cardinality(Returning("err"))
      BY <1>1, <1>4, <2>1, MovesCounted, MovesReturned
    <2> QED
      BY <2>2, Numbers, CountersAddUpNext DEF Health
  <1> QED
    BY <1>4, <1>5, <1>6, <1>7, <1>8, OthersKeep DEF Health, IInv

LEMMA ReturnInv ==
  ASSUME IInv, NEW c \in Clients, Return(c)
  PROVE  IInv'
  <1>1. task[c].pc = "return" /\ task \in [Clients -> Tasks] /\ TaskInv(task[c])
    BY DEF Return, IInv, StateInv
  <1>2. task' = [task EXCEPT ![c] = NoTask] /\ NoTask \in Tasks
    BY DEF Return, NoTask, Tasks, PCs
  <1>3. /\ task'[c] = NoTask /\ task'[c].pc = "none" /\ task'[c].store = 0
        /\ \A d \in Clients \ {c} : task'[d] = task[d]
        /\ task' \in [Clients -> Tasks]
    BY <1>1, <1>2 DEF NoTask
  <1>4. Outcome(task[c]) \in {"ok", "err", "health"}
    BY DEF Outcome
  <1>5. replies' = [replies EXCEPT ![Outcome(task[c])] = @ + 1]
    BY DEF Return
  <1>6. StateInv'
    BY <1>3, <1>4, <1>5 DEF Return, IInv, StateInv
  <1>7. MappedInv'
    BY <1>3 DEF Return, IInv, MappedInv, InUse
  <1>8. TaskInv(task[c])'
    BY <1>3, <1>6 DEF TaskInv, NoTask, StateInv
  <1>9. CountersAddUp'
    <2>1. /\ Cardinality(Counting') = Cardinality(Counting)
          /\ Cardinality(Returning("ok")') = IF Outcome(task[c]) = "ok"
               THEN Cardinality(Returning("ok")) - 1 ELSE Cardinality(Returning("ok"))
          /\ Cardinality(Returning("err")') = IF Outcome(task[c]) = "err"
               THEN Cardinality(Returning("err")) - 1 ELSE Cardinality(Returning("err"))
      BY <1>1, <1>3, MovesCounted, MovesReturned
    <2>2. metrics' = metrics
      BY DEF Return
    <2>3. /\ replies'.ok = IF Outcome(task[c]) = "ok" THEN replies.ok + 1 ELSE replies.ok
          /\ replies'.err = IF Outcome(task[c]) = "err" THEN replies.err + 1 ELSE replies.err
      BY <1>4, <1>5 DEF IInv, StateInv
    <2>4. metrics'.requests = replies'.ok + Cardinality(Returning("ok")')
      BY <2>1, <2>2, <2>3, Numbers
    <2>5. metrics'.errors = replies'.err + Cardinality(Returning("err")')
      BY <2>1, <2>2, <2>3, Numbers
    <2> QED
      BY <2>1, <2>2, <2>4, <2>5, Numbers, CountersAddUpNext
  <1> QED
    BY <1>3, <1>6, <1>7, <1>8, <1>9, OthersKeep DEF Return, IInv

-------------------------------------------------------------------------------
(* Every reachable state *)

LEMMA NextInv == IInv /\ [Next]_vars => IInv'
  <1> SUFFICES ASSUME IInv, [Next]_vars PROVE IInv'
    OBVIOUS
  <1>1. CASE UNCHANGED vars
    BY <1>1 DEF vars, IInv, StateInv, MappedInv, InUse, TaskInv, Found, CountersAddUp, Outcome
  <1>2. ASSUME NEW map \in Maps, reload(map) PROVE IInv'
    BY <1>2, ReloadInv
  <1>3. ASSUME NEW c \in Clients, NEW request \in Requests, Invoke(c, request) PROVE IInv'
    BY <1>3, InvokeInv
  <1>4. ASSUME NEW c \in Clients, Handle(c) PROVE IInv'
    BY <1>4, RejectKeyInv, LoadInv, LookupKeyInv, RecordLatencyInv, CountRequestInv,
       HealthInv, ReturnInv DEF Handle
  <1> QED
    BY <1>1, <1>2, <1>3, <1>4 DEF Next

\* In every reachable state of the server its stores, its handlers and its
\* counters (server.rs, metrics.rs) are as the invariant says.
THEOREM Inductive == Spec => []IInv
  <1>1. Init => IInv
    BY InitInv
  <1>2. IInv /\ [Next]_vars => IInv'
    BY NextInv
  <1> QED
    BY <1>1, <1>2, PTL DEF Spec

\* The state of the server is well formed, for any number of clients, calls,
\* reloads and keys in a batch.
THEOREM TypeCorrect == Spec => []TypeOK
  <1>1. IInv => TypeOK
    <2> SUFFICES ASSUME IInv PROVE TypeOK
      OBVIOUS
    <2>1. \A s \in 1..Len(stores) : stores[s].map \in Maps
      <3>1. \A s \in 1..Len(stores) : stores[s] \in Snapshots
        BY DEF IInv, StateInv
      <3> QED
        BY <3>1, SnapshotFields
    <2>2. mapped \subseteq 1..Len(stores)
      BY DEF IInv, StateInv, MappedInv, InUse, TaskInv
    <2>3. ASSUME NEW c \in Clients
          PROVE  task[c] \in
                   [pc : {"none", "start", "lookup", "health", "count", "return"},
                    request : Requests \cup {NoRequest},
                    store : 0..Len(stores),
                    results : Seq(Values \cup {None}),
                    reply : {None} \cup [ok : BOOLEAN, results : Seq(Values \cup {None} \cup Nat)]]
      <3>1. task[c] \in Tasks /\ task[c].store \in 0..Len(stores)
        BY DEF IInv, StateInv, TaskInv
      <3> QED
        BY <3>1 DEF Tasks, PCs, Replies
    <2> QED
      BY <2>1, <2>2, <2>3 DEF TypeOK, IInv, StateInv
  <1> QED
    BY <1>1, Inductive, PTL

\* However many reloads happen between a handler's load of the store and its
\* last lookup (server.rs), the store it reads is still mapped.
THEOREM NeverUsedAfterUnmap == Spec => []NoUseAfterUnmap
  <1>1. IInv => NoUseAfterUnmap
    BY DEF IInv, NoUseAfterUnmap, MappedInv, InUse, TaskInv
  <1> QED
    BY <1>1, Inductive, PTL

\* The counters of metrics.rs agree with what clients were answered, whatever
\* the interleaving of the handlers that move them.
THEOREM CountersCorrect == Spec => []CountersAddUp
  <1>1. IInv => CountersAddUp
    BY DEF IInv
  <1> QED
    BY <1>1, Inductive, PTL

-------------------------------------------------------------------------------
(* The handlers, interleaved with each other and with reload, implement a  *)
(* server that answers every call at once from the one snapshot it has:    *)
(* a handler answers its call when it loads the store, or refuses it.      *)

Calls == [c \in Clients |-> Seen(c)]

LEMMA SameReply == \A request, store : Service!Reply(request, store) = Reply(request, store)
  BY DEF Reply, Service!Reply, Malformed, Service!Malformed, Lookup, Service!Lookup,
         InvalidArgument, Service!InvalidArgument

\* The stages of a call, by where its handler is.
LEMMA SeenBy ==
  ASSUME NEW c
  PROVE  /\ task[c].pc = "none" =>
              Seen(c) = [stage |-> "none", request |-> None, reply |-> None]
         /\ task[c].pc = "start" =>
              Seen(c) = [stage |-> "called", request |-> task[c].request, reply |-> None]
         /\ task[c].pc \in {"lookup", "health", "count"} =>
              Seen(c) = [stage |-> "served", request |-> task[c].request,
                         reply |-> Reply(task[c].request, stores[task[c].store])]
         /\ task[c].pc = "return" =>
              Seen(c) = [stage |-> "served", request |-> task[c].request,
                         reply |-> task[c].reply]
  BY DEF Seen

LEMMA SeenNext ==
  ASSUME NEW c
  PROVE  /\ task'[c].pc = "none" =>
              Seen(c)' = [stage |-> "none", request |-> None, reply |-> None]
         /\ task'[c].pc = "start" =>
              Seen(c)' = [stage |-> "called", request |-> task'[c].request, reply |-> None]
         /\ task'[c].pc \in {"lookup", "health", "count"} =>
              Seen(c)' = [stage |-> "served", request |-> task'[c].request,
                          reply |-> Reply(task'[c].request, stores'[task'[c].store])]
         /\ task'[c].pc = "return" =>
              Seen(c)' = [stage |-> "served", request |-> task'[c].request,
                          reply |-> task'[c].reply]
  BY DEF Seen, Reply, Malformed, Lookup, InvalidArgument

\* A step of one handler changes its call and no other.
LEMMA OneCall ==
  ASSUME NEW c \in Clients, \A d \in Clients \ {c} : task'[d] = task[d], stores' = stores
  PROVE  Calls' = [Calls EXCEPT ![c] = Seen(c)']
  <1>1. \A d \in Clients \ {c} : Seen(d)' = Seen(d)
    BY DEF Seen
  <1> QED
    BY <1>1 DEF Calls

\* It does nothing that a caller sees, or it is a step of the service.
LEMMA Served ==
  ASSUME NEW c \in Clients, \A d \in Clients \ {c} : task'[d] = task[d],
         UNCHANGED <<stores, current>>,
         \/ Seen(c)' = Seen(c)
         \/ /\ Seen(c).stage = "none"
            /\ \E request \in Requests :
                 Seen(c)' = [stage |-> "called", request |-> request, reply |-> None]
         \/ /\ Seen(c) = [stage |-> "called", request |-> task[c].request, reply |-> None]
            /\ Seen(c)' = [stage |-> "served", request |-> task[c].request,
                           reply |-> Reply(task[c].request, stores[current])]
         \/ /\ Seen(c).stage = "served"
            /\ Seen(c)' = [stage |-> "none", request |-> None, reply |-> None]
  PROVE  [Service!Next]_<<stores[current], Calls>>
  <1>1. Calls' = [Calls EXCEPT ![c] = Seen(c)'] /\ Calls[c] = Seen(c)
    BY OneCall DEF Calls
  <1>2. CASE Seen(c)' = Seen(c)
    BY <1>1, <1>2 DEF Calls
  <1>3. CASE /\ Seen(c).stage = "none"
             /\ \E request \in Requests :
                  Seen(c)' = [stage |-> "called", request |-> request, reply |-> None]
    <2>1. Service!Invoke(c)
      BY <1>1, <1>3 DEF Service!Invoke, Service!NoCall, Calls
    <2> QED
      BY <2>1 DEF Service!Next
  <1>4. CASE /\ Seen(c) = [stage |-> "called", request |-> task[c].request, reply |-> None]
             /\ Seen(c)' = [stage |-> "served", request |-> task[c].request,
                            reply |-> Reply(task[c].request, stores[current])]
    <2>1. Calls[c].stage = "called" /\ Calls[c].request = task[c].request
      BY <1>1, <1>4
    <2>2. Reply(task[c].request, stores[current]) = Service!Reply(Calls[c].request, stores[current])
      BY <2>1, SameReply
    <2>3. Calls' = [Calls EXCEPT ![c] = [stage |-> "served", request |-> Calls[c].request,
                      reply |-> Service!Reply(Calls[c].request, stores[current])]]
      BY <1>1, <1>4, <2>1, <2>2
    <2>4. Service!Serve(c)
      BY <2>1, <2>3 DEF Service!Serve, Calls
    <2> QED
      BY <2>4 DEF Service!Next
  <1>5. CASE /\ Seen(c).stage = "served"
             /\ Seen(c)' = [stage |-> "none", request |-> None, reply |-> None]
    <2>1. Service!Return(c)
      BY <1>1, <1>5 DEF Service!Return, Service!NoCall, Calls
    <2> QED
      BY <2>1 DEF Service!Next
  <1> QED
    BY <1>2, <1>3, <1>4, <1>5

-------------------------------------------------------------------------------
(* The steps *)

LEMMA InitServed == Init => Service!Init
  <1> SUFFICES ASSUME Init PROVE Service!Init
    OBVIOUS
  <1>1. IInv
    BY InitInv
  <1>2. stores[current] \in Snapshots
    BY <1>1 DEF IInv, StateInv
  <1>3. \A c \in Clients : Seen(c) = [stage |-> "none", request |-> None, reply |-> None]
    BY SeenBy DEF Init, NoTask
  <1> QED
    BY <1>2, <1>3 DEF Service!Init, Service!NoCall

LEMMA ReloadServed ==
  ASSUME IInv, NEW map \in Maps, reload(map)
  PROVE  [Service!Next]_<<stores[current], Calls>>
  <1> DEFINE s == Snapshot(map, Len(stores) + 1)
  <1>1. s \in Snapshots /\ stores' = Append(stores, s)
    BY OneMore DEF reload
  <1>2. /\ stores'[current'] \in Snapshots
        /\ \A i \in 1..Len(stores) : stores'[i] = stores[i]
    <2> HIDE DEF s
    <2> QED
      BY <1>1 DEF reload, IInv, StateInv
  <1>3. \A c \in Clients : Seen(c)' = Seen(c)
    <2> SUFFICES ASSUME NEW c \in Clients PROVE Seen(c)' = Seen(c)
      OBVIOUS
    <2>1. task' = task /\ TaskInv(task[c]) /\ task[c].pc \in PCs
      BY DEF reload, IInv, StateInv, Tasks
    <2>2. CASE task[c].pc \in {"lookup", "health", "count"}
      <3>1. task[c].store \in 1..Len(stores)
        BY <2>1, <2>2 DEF TaskInv
      <3>2. stores'[task[c].store] = stores[task[c].store]
        BY <1>2, <3>1
      <3> QED
        BY <2>1, <2>2, <3>2, SeenBy, SeenNext
    <2>3. CASE task[c].pc \in {"none", "start", "return"}
      BY <2>1, <2>3, SeenBy, SeenNext
    <2> QED
      BY <2>1, <2>2, <2>3 DEF PCs
  <1>4. Calls' = Calls
    BY <1>3 DEF Calls
  <1>5. Service!Reload
    BY <1>2, <1>4 DEF Service!Reload, Calls
  <1> QED
    BY <1>5 DEF Service!Next

LEMMA InvokeServed ==
  ASSUME IInv, NEW c \in Clients, NEW request \in Requests, Invoke(c, request)
  PROVE  [Service!Next]_<<stores[current], Calls>>
  <1>1. task[c].pc = "none" /\ task \in [Clients -> Tasks]
    BY DEF Invoke, IInv, StateInv
  <1>2. task' = [task EXCEPT ![c].pc = "start", ![c].request = request]
    BY DEF Invoke
  <1>3. /\ task'[c].pc = "start" /\ task'[c].request = request
        /\ \A d \in Clients \ {c} : task'[d] = task[d]
    BY <1>1, <1>2 DEF Tasks
  <1>4. /\ Seen(c).stage = "none"
        /\ Seen(c)' = [stage |-> "called", request |-> request, reply |-> None]
    BY <1>1, <1>3, SeenBy, SeenNext
  <1> QED
    BY <1>3, <1>4, Served DEF Invoke

LEMMA RejectKeyServed ==
  ASSUME IInv, NEW c \in Clients, RejectKey(c)
  PROVE  [Service!Next]_<<stores[current], Calls>>
  <1>1. /\ task[c].pc = "start" /\ task[c].request.kind = "get"
        /\ task[c].request.keys[1] = BadKey
        /\ task[c].request \in Requests /\ task \in [Clients -> Tasks]
    BY DEF RejectKey, IInv, StateInv, TaskInv
  <1>2. task' = [task EXCEPT ![c].pc = "return", ![c].reply = InvalidArgument]
    BY DEF RejectKey
  <1>3. /\ task'[c].pc = "return" /\ task'[c].request = task[c].request
        /\ task'[c].reply = InvalidArgument
        /\ \A d \in Clients \ {c} : task'[d] = task[d]
    BY <1>1, <1>2 DEF Tasks
  <1>4. Reply(task[c].request, stores[current]) = InvalidArgument
    <2>1. Len(task[c].request.keys) = 1
      BY <1>1, RequestShape
    <2> QED
      BY <1>1, <2>1 DEF Reply, Malformed
  <1> QED
    BY <1>1, <1>3, <1>4, SeenBy, SeenNext, Served DEF RejectKey

LEMMA LoadServed ==
  ASSUME IInv, NEW c \in Clients, Load(c)
  PROVE  [Service!Next]_<<stores[current], Calls>>
  <1> DEFINE pc == IF task[c].request.kind = "health" THEN "health" ELSE "lookup"
  <1>1. task[c].pc = "start" /\ task \in [Clients -> Tasks]
    BY DEF Load, IInv, StateInv
  <1>2. task' = [task EXCEPT ![c].store = current, ![c].pc = pc]
    BY DEF Load
  <1>3. /\ task'[c].pc = pc /\ task'[c].request = task[c].request
        /\ task'[c].store = current
        /\ \A d \in Clients \ {c} : task'[d] = task[d]
    BY <1>1, <1>2 DEF Tasks
  <1>4. pc \in {"lookup", "health", "count"} /\ stores' = stores /\ current' = current
    BY DEF Load
  <1> HIDE DEF pc
  <1> QED
    BY <1>1, <1>3, <1>4, SeenBy, SeenNext, Served

LEMMA LookupKeyServed ==
  ASSUME IInv, NEW c \in Clients, LookupKey(c)
  PROVE  [Service!Next]_<<stores[current], Calls>>
  <1> DEFINE n == Len(task[c].results)
  <1> DEFINE key == task[c].request.keys[n + 1]
  <1>1. /\ task[c].pc = "lookup" /\ task \in [Clients -> Tasks] /\ n < Len(task[c].request.keys)
        /\ task[c].request \in Requests /\ task[c].request.kind # "health"
        /\ stores' = stores /\ current' = current
    BY DEF LookupKey, IInv, StateInv, TaskInv
  <1>2. CASE key = BadKey
    <2>1. task' = [task EXCEPT ![c].pc = "return", ![c].reply = InvalidArgument]
      BY <1>2 DEF LookupKey
    <2>2. /\ task'[c].pc = "return" /\ task'[c].request = task[c].request
          /\ task'[c].reply = InvalidArgument
          /\ \A d \in Clients \ {c} : task'[d] = task[d]
      BY <1>1, <2>1 DEF Tasks
    <2>3. Reply(task[c].request, stores[task[c].store]) = InvalidArgument
      <3>1. task[c].results \in Seq(Values \cup {None})
        BY <1>1 DEF Tasks
      <3>2. n \in Nat /\ Len(task[c].request.keys) \in Nat
        BY <1>1, <3>1, RequestShape
      <3>3. n + 1 \in 1..Len(task[c].request.keys)
        BY <1>1, <3>2
      <3> QED
        BY <1>1, <1>2, <3>3 DEF Reply, Malformed
    <2> QED
      BY <1>1, <2>2, <2>3, SeenBy, SeenNext, Served
  <1>3. CASE key # BadKey
    <2>1. task' = [task EXCEPT ![c].results = Append(@, get(LoadedStore(c), key))]
      BY <1>3 DEF LookupKey
    <2>2. /\ task'[c].pc = "lookup" /\ task'[c].request = task[c].request
          /\ task'[c].store = task[c].store
          /\ \A d \in Clients \ {c} : task'[d] = task[d]
      BY <1>1, <2>1 DEF Tasks
    <2> QED
      BY <1>1, <2>2, SeenBy, SeenNext, Served
  <1> QED
    BY <1>2, <1>3

LEMMA RecordLatencyServed ==
  ASSUME IInv, NEW c \in Clients, RecordLatency(c)
  PROVE  [Service!Next]_<<stores[current], Calls>>
  <1>1. task[c].pc = "lookup" /\ task \in [Clients -> Tasks]
    BY DEF RecordLatency, IInv, StateInv
  <1>2. task' = [task EXCEPT ![c].pc = "count"]
    BY DEF RecordLatency
  <1>3. /\ task'[c].pc = "count" /\ task'[c].request = task[c].request
        /\ task'[c].store = task[c].store
        /\ \A d \in Clients \ {c} : task'[d] = task[d]
    BY <1>1, <1>2 DEF Tasks
  <1> QED
    BY <1>1, <1>3, SeenBy, SeenNext, Served DEF RecordLatency

\* What a handler has found when all keys are done is the service's reply.
LEMMA AllFound ==
  ASSUME IInv, NEW c \in Clients, task[c].pc = "count"
  PROVE  Reply(task[c].request, stores[task[c].store]) = [ok |-> TRUE, results |-> task[c].results]
  <1> DEFINE keys == task[c].request.keys
  <1>1. /\ task[c] \in Tasks /\ task[c].request \in Requests /\ task[c].request.kind # "health"
        /\ Found(task[c]) /\ Len(task[c].results) = Len(keys)
    BY DEF IInv, StateInv, TaskInv
  <1>2. task[c].results \in Seq(Values \cup {None})
    BY <1>1 DEF Tasks
  <1>3. ~Malformed(task[c].request)
    BY <1>1 DEF Found, Malformed
  <1>4. task[c].results =
          [i \in 1..Len(keys) |-> Lookup(stores[task[c].store].map, keys[i])]
    <2>1. task[c].results = [i \in 1..Len(task[c].results) |-> task[c].results[i]]
      BY <1>2
    <2> QED
      BY <1>1, <2>1 DEF Found
  <1> QED
    BY <1>1, <1>3, <1>4 DEF Reply

LEMMA CountRequestServed ==
  ASSUME IInv, NEW c \in Clients, CountRequest(c)
  PROVE  [Service!Next]_<<stores[current], Calls>>
  <1> DEFINE reply == [ok |-> TRUE, results |-> task[c].results]
  <1>1. task[c].pc = "count" /\ task \in [Clients -> Tasks]
    BY DEF CountRequest, IInv, StateInv
  <1>2. task' = [task EXCEPT ![c].pc = "return", ![c].reply = reply]
    BY DEF CountRequest
  <1>3. /\ task'[c].pc = "return" /\ task'[c].request = task[c].request
        /\ task'[c].reply = reply
        /\ \A d \in Clients \ {c} : task'[d] = task[d]
    BY <1>1, <1>2 DEF Tasks
  <1>4. reply = Reply(task[c].request, stores[task[c].store])
    BY <1>1, AllFound
  <1> HIDE DEF reply
  <1>5. /\ Seen(c) = [stage |-> "served", request |-> task[c].request, reply |-> reply]
        /\ Seen(c)' = [stage |-> "served", request |-> task[c].request, reply |-> reply]
    BY <1>1, <1>3, <1>4, SeenBy, SeenNext
  <1> QED
    BY <1>3, <1>4, <1>5, Served DEF CountRequest

LEMMA HealthServed ==
  ASSUME IInv, NEW c \in Clients, Health(c)
  PROVE  [Service!Next]_<<stores[current], Calls>>
  <1> DEFINE reply == [ok |-> TRUE, results |->
         <<LoadedStore(c).build_timestamp, LoadedStore(c).record_count>>]
  <1>1. task[c].pc = "health" /\ task \in [Clients -> Tasks] /\ task[c].request.kind = "health"
    BY DEF Health, IInv, StateInv, TaskInv
  <1>2. task' = [task EXCEPT ![c].pc = "return", ![c].reply = reply]
    BY DEF Health
  <1>3. reply = Reply(task[c].request, stores[task[c].store])
    BY <1>1 DEF Reply, LoadedStore
  <1> HIDE DEF reply
  <1>4. /\ task'[c].pc = "return" /\ task'[c].request = task[c].request
        /\ task'[c].reply = reply
        /\ \A d \in Clients \ {c} : task'[d] = task[d]
    BY <1>1, <1>2 DEF Tasks
  <1>5. /\ Seen(c) = [stage |-> "served", request |-> task[c].request, reply |-> reply]
        /\ Seen(c)' = [stage |-> "served", request |-> task[c].request, reply |-> reply]
    BY <1>1, <1>3, <1>4, SeenBy, SeenNext
  <1> QED
    BY <1>3, <1>4, <1>5, Served DEF Health

LEMMA ReturnServed ==
  ASSUME IInv, NEW c \in Clients, Return(c)
  PROVE  [Service!Next]_<<stores[current], Calls>>
  <1>1. task[c].pc = "return" /\ task \in [Clients -> Tasks]
    BY DEF Return, IInv, StateInv
  <1>2. /\ task'[c].pc = "none"
        /\ \A d \in Clients \ {c} : task'[d] = task[d]
    BY <1>1 DEF Return, NoTask
  <1> QED
    BY <1>1, <1>2, SeenBy, SeenNext, Served DEF Return

LEMMA StepServed ==
  ASSUME IInv, [Next]_vars
  PROVE  [Service!Next]_<<stores[current], Calls>>
  <1>1. CASE UNCHANGED vars
    <2>1. \A c \in Clients : Seen(c)' = Seen(c)
      BY <1>1 DEF vars, Seen
    <2> QED
      BY <1>1, <2>1 DEF vars, Calls
  <1>2. ASSUME NEW map \in Maps, reload(map) PROVE [Service!Next]_<<stores[current], Calls>>
    BY <1>2, ReloadServed
  <1>3. ASSUME NEW c \in Clients, NEW request \in Requests, Invoke(c, request)
        PROVE  [Service!Next]_<<stores[current], Calls>>
    BY <1>3, InvokeServed
  <1>4. ASSUME NEW c \in Clients, Handle(c)
        PROVE  [Service!Next]_<<stores[current], Calls>>
    BY <1>4, RejectKeyServed, LoadServed, LookupKeyServed, RecordLatencyServed,
       CountRequestServed, HealthServed, ReturnServed DEF Handle
  <1> QED
    BY <1>1, <1>2, <1>3, <1>4 DEF Next

-------------------------------------------------------------------------------

\* server.rs on reload: requests in flight complete with the old snapshot, new
\* ones use the new. For any clients, batches, snapshots and reloads, callers
\* see the service of KvService.
THEOREM ServiceImplemented == Spec => ImplementsService
  <1>1. Init => Service!Init
    BY InitServed
  <1>2. IInv /\ [Next]_vars => [Service!Next]_<<stores[current], [c \in Clients |-> Seen(c)]>>
    BY StepServed DEF Calls
  <1> QED
    BY <1>1, <1>2, Inductive, PTL DEF Spec, ImplementsService, Service!Spec

-------------------------------------------------------------------------------
(* Scrapes: they rest on the handlers' invariant, which bounds how far each
   counter may be ahead of the replies at one moment, and on the counters and
   the replies only ever growing. *)

LEMMA FamilyNames == Families = {"requests", "hits", "misses", "errors", "latency"}
  BY DEF Families, NewMetrics

\* A handler that counts or returns is in progress, and does only one of them.
LEMMA InProgress ==
  ASSUME NEW o
  PROVE  /\ IsFiniteSet(InFlight) /\ Cardinality(InFlight) \in Nat
         /\ Cardinality(Counting) \in Nat /\ Cardinality(Returning(o)) \in Nat
         /\ Cardinality(Counting) + Cardinality(Returning(o)) <= Cardinality(InFlight)
  <1>1. /\ InFlight \subseteq Clients /\ Counting \cup Returning(o) \subseteq InFlight
        /\ Counting \cap Returning(o) = {}
    BY DEF InFlight, Counting, Returning
  <1>2. IsFiniteSet(InFlight)
    BY <1>1, FS_Subset, ServerAssumption
  <1>3. IsFiniteSet(Counting) /\ IsFiniteSet(Returning(o))
    BY <1>1, <1>2, FS_Subset
  <1>4. Cardinality(Counting \cup Returning(o)) = Cardinality(Counting) + Cardinality(Returning(o))
    <2>1. Cardinality(Counting \cap Returning(o)) = 0
      BY <1>1, FS_EmptySet
    <2>2. Cardinality(Counting) \in Nat /\ Cardinality(Returning(o)) \in Nat
      BY <1>3, FS_CardinalityType
    <2>3. Cardinality(Counting \cup Returning(o)) =
            Cardinality(Counting) + Cardinality(Returning(o))
              - Cardinality(Counting \cap Returning(o))
      BY <1>3, FS_Union
    <2> QED
      BY <2>1, <2>2, <2>3
  <1>5. Cardinality(Counting \cup Returning(o)) <= Cardinality(InFlight)
    BY <1>1, <1>2, FS_Subset
  <1>6. /\ Cardinality(InFlight) \in Nat
        /\ Cardinality(Counting) \in Nat /\ Cardinality(Returning(o)) \in Nat
    BY <1>2, <1>3, FS_CardinalityType
  <1> QED
    BY <1>2, <1>4, <1>5, <1>6

\* At every moment, each counter of calls is at least the replies it counts, and
\* ahead of them by no more than the calls in progress.
LEMMA CountersBounded ==
  ASSUME IInv, NEW f \in Families \ {"hits", "misses"}
  PROVE  /\ metrics[f] \in Nat /\ replies[CountedBy(f)] \in Nat
         /\ replies[CountedBy(f)] <= metrics[f]
         /\ metrics[f] <= replies[CountedBy(f)] + Cardinality(InFlight)
  <1>1. f \in {"requests", "errors", "latency"}
    BY FamilyNames
  <1>2. /\ metrics.requests \in Nat /\ metrics.errors \in Nat /\ metrics.latency \in Nat
        /\ replies.ok \in Nat /\ replies.err \in Nat
    BY DEF IInv, StateInv
  <1>3. /\ metrics.latency = metrics.requests + Cardinality(Counting)
        /\ metrics.requests = replies.ok + Cardinality(Returning("ok"))
        /\ metrics.errors = replies.err + Cardinality(Returning("err"))
    BY Numbers
  <1>4. /\ Cardinality(InFlight) \in Nat /\ Cardinality(Counting) \in Nat
        /\ Cardinality(Returning("ok")) \in Nat /\ Cardinality(Returning("err")) \in Nat
        /\ Cardinality(Counting) + Cardinality(Returning("ok")) <= Cardinality(InFlight)
        /\ Cardinality(Counting) + Cardinality(Returning("err")) <= Cardinality(InFlight)
    BY InProgress
  <1>5. CASE f = "latency"
    BY <1>2, <1>3, <1>4, <1>5 DEF CountedBy
  <1>6. CASE f = "requests"
    BY <1>2, <1>3, <1>4, <1>6 DEF CountedBy
  <1>7. CASE f = "errors"
    BY <1>2, <1>3, <1>4, <1>7 DEF CountedBy
  <1> QED
    BY <1>1, <1>5, <1>6, <1>7

\* No step takes a counter or a reply back.
LEMMA OnlyGrow ==
  ASSUME IInv, [Next]_vars
  PROVE  /\ \A f \in Families : metrics'[f] \in Nat /\ metrics[f] \in Nat /\ metrics[f] <= metrics'[f]
         /\ \A o \in {"ok", "err", "health"} :
              replies'[o] \in Nat /\ replies[o] \in Nat /\ replies[o] <= replies'[o]
  <1>1. /\ metrics \in [Families -> Nat] /\ replies \in [{"ok", "err", "health"} -> Nat]
        /\ metrics' \in [Families -> Nat] /\ replies' \in [{"ok", "err", "health"} -> Nat]
    BY NextInv, FamilyNames DEF IInv, StateInv
  <1>2. \/ metrics' = metrics
        \/ \E f \in Families : metrics' = [metrics EXCEPT ![f] = @ + 1]
    <2>1. CASE UNCHANGED vars
      BY <2>1 DEF vars
    <2>2. ASSUME NEW map \in Maps, reload(map) PROVE metrics' = metrics
      BY <2>2 DEF reload
    <2>3. ASSUME NEW c \in Clients, NEW request \in Requests, Invoke(c, request)
          PROVE  metrics' = metrics
      BY <2>3 DEF Invoke
    <2>4. ASSUME NEW c \in Clients, Handle(c) PROVE <1>2!:
      BY <2>4, FamilyNames DEF Handle, RejectKey, Load, LookupKey, RecordLatency,
         CountRequest, Health, Return
    <2> QED
      BY <2>1, <2>2, <2>3, <2>4 DEF Next
  <1>3. \/ replies' = replies
        \/ \E o \in {"ok", "err", "health"} : replies' = [replies EXCEPT ![o] = @ + 1]
    <2>1. CASE UNCHANGED vars
      BY <2>1 DEF vars
    <2>2. ASSUME NEW map \in Maps, reload(map) PROVE replies' = replies
      BY <2>2 DEF reload
    <2>3. ASSUME NEW c \in Clients, NEW request \in Requests, Invoke(c, request)
          PROVE  replies' = replies
      BY <2>3 DEF Invoke
    <2>4. ASSUME NEW c \in Clients, Handle(c) PROVE <1>3!:
      BY <2>4 DEF Handle, RejectKey, Load, LookupKey, RecordLatency,
         CountRequest, Health, Return, Outcome
    <2> QED
      BY <2>1, <2>2, <2>3, <2>4 DEF Next
  <1> QED
    BY <1>1, <1>2, <1>3

-------------------------------------------------------------------------------
(* The invariant *)

LEMMA ScrapeInitInv == ScrapeInit => ScrapeInv
  <1> SUFFICES ASSUME ScrapeInit PROVE ScrapeInv
    OBVIOUS
  <1>1. IInv
    BY InitInv DEF ScrapeInit
  <1>2. replies \in [{"ok", "err", "health"} -> Nat] /\ begun = replies
    BY <1>1 DEF IInv, StateInv, ScrapeInit
  <1>3. DOMAIN scrape = {}
    BY DEF ScrapeInit
  <1> QED
    BY <1>1, <1>2, <1>3 DEF ScrapeInv, GatheredInv

\* A step of the server under a scrape: the counters have only grown.
LEMMA ServeInv ==
  ASSUME ScrapeInv, [Next]_vars, UNCHANGED scraping
  PROVE  ScrapeInv'
  <1>1. IInv'
    BY NextInv DEF ScrapeInv
  <1>2. GatheredInv'
    <2>1. /\ \A f \in Families : metrics'[f] \in Nat /\ metrics[f] \in Nat /\ metrics[f] <= metrics'[f]
          /\ \A o \in {"ok", "err", "health"} :
               replies'[o] \in Nat /\ replies[o] \in Nat /\ replies[o] <= replies'[o]
      BY OnlyGrow DEF ScrapeInv
    <2>2. scrape' = scrape /\ begun' = begun
      BY DEF scraping
    <2> QED
      BY <2>1, <2>2 DEF ScrapeInv, GatheredInv, Families, NewMetrics, CountedBy
  <1> QED
    BY <1>1, <1>2 DEF ScrapeInv

\* A family is gathered: its counter is at least the replies, which are at least
\* those of the scrape's begin.
LEMMA GatherInv ==
  ASSUME ScrapeInv, NEW family \in Families, Gather(family)
  PROVE  ScrapeInv'
  <1>1. IInv /\ IInv' /\ metrics' = metrics /\ replies' = replies /\ begun' = begun
    BY NextInv DEF ScrapeInv, Gather, vars
  <1>2. /\ DOMAIN scrape' = DOMAIN scrape \cup {family}
        /\ scrape'[family] = metrics[family]
        /\ \A f \in DOMAIN scrape : scrape'[f] = scrape[f]
    BY DEF Gather
  <1>3. metrics[family] \in Nat
    BY <1>1, FamilyNames DEF IInv, StateInv
  <1>4. family \notin {"hits", "misses"} => begun[CountedBy(family)] <= metrics[family]
    <2> SUFFICES ASSUME family \notin {"hits", "misses"}
                 PROVE  begun[CountedBy(family)] <= metrics[family]
      OBVIOUS
    <2>1. replies[CountedBy(family)] \in Nat /\ replies[CountedBy(family)] <= metrics[family]
      BY <1>1, CountersBounded
    <2>2. begun[CountedBy(family)] \in Nat /\ begun[CountedBy(family)] <= replies[CountedBy(family)]
      BY DEF ScrapeInv, GatheredInv, CountedBy
    <2> QED
      BY <1>3, <2>1, <2>2
  <1>5. GatheredInv'
    <2>1. \A f \in DOMAIN scrape' : scrape'[f] \in Nat /\ scrape'[f] <= metrics'[f]
      BY <1>1, <1>2, <1>3 DEF ScrapeInv, GatheredInv
    <2>2. \A f \in DOMAIN scrape' \ {"hits", "misses"} : begun'[CountedBy(f)] <= scrape'[f]
      BY <1>1, <1>2, <1>4 DEF ScrapeInv, GatheredInv
    <2>3. DOMAIN scrape' \subseteq Families
      BY <1>2 DEF ScrapeInv, GatheredInv
    <2> QED
      BY <1>1, <2>1, <2>2, <2>3 DEF ScrapeInv, GatheredInv, Families, NewMetrics, CountedBy
  <1> QED
    BY <1>1, <1>5 DEF ScrapeInv

LEMMA BeginScrapeInv ==
  ASSUME ScrapeInv, BeginScrape
  PROVE  ScrapeInv'
  <1>1. IInv' /\ replies' = replies /\ begun' = replies /\ DOMAIN scrape' = {}
    BY NextInv DEF ScrapeInv, BeginScrape, vars
  <1>2. replies \in [{"ok", "err", "health"} -> Nat]
    BY DEF ScrapeInv, IInv, StateInv
  <1> QED
    BY <1>1, <1>2 DEF ScrapeInv, GatheredInv

LEMMA ScrapeNextInv == ScrapeInv /\ [ScrapeNext]_<<vars, scraping>> => ScrapeInv'
  <1> SUFFICES ASSUME ScrapeInv, [ScrapeNext]_<<vars, scraping>> PROVE ScrapeInv'
    OBVIOUS
  <1>1. CASE UNCHANGED <<vars, scraping>>
    BY <1>1, ServeInv
  <1>2. CASE Next /\ UNCHANGED scraping
    BY <1>2, ServeInv
  <1>3. ASSUME NEW family \in Families, Gather(family) PROVE ScrapeInv'
    BY <1>3, GatherInv
  <1>4. CASE BeginScrape
    BY <1>4, BeginScrapeInv
  <1> QED
    BY <1>1, <1>2, <1>3, <1>4 DEF ScrapeNext

-------------------------------------------------------------------------------

\* Whatever the handlers do while /metrics gathers the families one after the
\* other (metrics.rs encode), what it has gathered stays between the counters'
\* value of now and the replies given when the scrape began.
THEOREM ScrapeInductive == ScrapeSpec => []ScrapeInv
  <1>1. ScrapeInit => ScrapeInv
    BY ScrapeInitInv
  <1>2. ScrapeInv /\ [ScrapeNext]_<<vars, scraping>> => ScrapeInv'
    BY ScrapeNextInv
  <1> QED
    BY <1>1, <1>2, PTL DEF ScrapeSpec

\* A scrape of /metrics, though no picture of one moment, is right about the
\* calls up to those in progress, for any number of clients and calls.
THEOREM ScrapesMatch == ScrapeSpec => []ScrapeMatchesReplies
  <1>1. ScrapeInv => ScrapeMatchesReplies
    <2> SUFFICES ASSUME ScrapeInv, NEW f \in DOMAIN scrape \ {"hits", "misses"}
                 PROVE  scrape[f] \in
                          begun[CountedBy(f)]..replies[CountedBy(f)] + Cardinality(InFlight)
      BY DEF ScrapeMatchesReplies
    <2>1. /\ f \in Families \ {"hits", "misses"} /\ begun[CountedBy(f)] <= scrape[f]
          /\ scrape[f] \in Nat /\ scrape[f] <= metrics[f] /\ begun[CountedBy(f)] \in Nat
      BY DEF ScrapeInv, GatheredInv, CountedBy
    <2>2. /\ metrics[f] \in Nat /\ replies[CountedBy(f)] \in Nat
          /\ metrics[f] <= replies[CountedBy(f)] + Cardinality(InFlight)
      BY <2>1, CountersBounded DEF ScrapeInv
    <2>3. Cardinality(InFlight) \in Nat
      BY InProgress
    <2> QED
      BY <2>1, <2>2, <2>3
  <1> QED
    BY <1>1, ScrapeInductive, PTL

===============================================================================
