--------------------------- MODULE Deployment_proofs --------------------------
(***************************************************************************)
(* What clients of the live pool get, for any nodes, pools, versions,      *)
(* deployments and faults: a listener is up only over a snapshot, a node   *)
(* of the pool serves while fewer faults have occurred than it has nodes,  *)
(* and what it serves was verified and is what was deployed last, but for  *)
(* a process that outlived its stop.                                       *)
(***************************************************************************)
EXTENDS DeploymentInv, SequenceTheorems, FiniteSetTheorems, TLAPS

-------------------------------------------------------------------------------
(* The nodes *)

\* main's end keeps what is said of the processes.
LEMMA ExitInv ==
  ASSUME ProcessInv, StartedInv, NEW n \in Nodes, Exit(n)
  PROVE  (ProcessInv /\ StartedInv)'
  BY DEF ProcessInv, StartedInv, Exit, Mains

LEMMA FaultInv ==
  ASSUME HostInv, Fault
  PROVE  faults' \in 0..MaxFaults
  BY NodeAssumption DEF HostInv, Fault

LEMMA OpenInv ==
  ASSUME IInv, NEW n \in Nodes, Open(n)
  PROVE  (ProcessInv /\ StartedInv /\ HostInv)'
  <1> DEFINE loaded == [version |-> unit[n], content |-> disk[n][unit[n]]]
  <1>1. HostInv'
    BY DEF IInv, HostInv, Open
  <1>2. CASE Exit(n)
    BY <1>1, <1>2, ExitInv DEF IInv
  <1>3. CASE /\ disk[n][unit[n]] # "absent"
             /\ store' = [store EXCEPT ![n] = loaded]
             /\ main' = [main EXCEPT ![n] = "preload"]
             /\ UNCHANGED listener
    <2>1. loaded \in Loaded
      BY <1>3 DEF IInv, HostInv, Loaded
    <2>2. loaded # None
      BY <2>1, NodeAssumption DEF Loaded
    <2>3. main[n] = "open"
      BY DEF Open
    <2> HIDE DEF loaded
    <2> QED
      BY <1>1, <1>3, <2>1, <2>2, <2>3 DEF IInv, ProcessInv, StartedInv, Mains
  <1> QED
    BY <1>2, <1>3 DEF Open

\* Every step of a node keeps the invariant.
LEMMA NodeInv ==
  ASSUME IInv, NEW n \in Nodes, Launch(n) \/ Progress(n) \/ Failure(n), Beside
  PROVE  IInv'
  <1>1. ScriptInv' /\ BalancerInv'
    BY DEF IInv, ScriptInv, BalancerInv, Beside, operator, balancer
  <1>2. CASE Launch(n)
    BY <1>1, <1>2 DEF IInv, ProcessInv, StartedInv, HostInv, Launch, Mains
  <1>3. CASE Open(n)
    BY <1>1, <1>3, OpenInv DEF IInv
  <1>4. CASE Preload(n)
    BY <1>1, <1>4 DEF IInv, ProcessInv, StartedInv, HostInv, Preload, Mains
  <1>5. CASE SpawnMetrics(n)
    BY <1>1, <1>5 DEF IInv, ProcessInv, StartedInv, HostInv, SpawnMetrics, Mains
  <1>6. CASE BindMetrics(n)
    BY <1>1, <1>6 DEF IInv, ProcessInv, StartedInv, HostInv, BindMetrics, Mains
  <1>7. CASE BindGrpc(n)
    BY <1>1, <1>7 DEF IInv, ProcessInv, StartedInv, HostInv, BindGrpc, Mains
  <1>8. CASE MetricsError(n)
    <2>1. HostInv'
      BY <1>8, FaultInv DEF IInv, HostInv, MetricsError
    <2> QED
      BY <1>1, <1>8, <2>1 DEF IInv, ProcessInv, StartedInv, MetricsError, Mains
  <1>9. CASE GrpcError(n) \/ Crash(n)
    <2>1. HostInv'
      BY <1>9, FaultInv DEF IInv, HostInv, GrpcError, Crash
    <2>2. Exit(n)
      BY <1>9 DEF GrpcError, Crash
    <2> QED
      BY <1>1, <2>1, <2>2, ExitInv DEF IInv
  <1> QED
    BY <1>2, <1>3, <1>4, <1>5, <1>6, <1>7, <1>8, <1>9 DEF Progress, Failure

-------------------------------------------------------------------------------
(* The script *)

\* While the script works it has a node to work on.
LEMMA NodeIsOne ==
  ASSUME ScriptInv, script.stage \in Working
  PROVE  /\ Node \in Nodes
         /\ Tail(script.todo) \in Seq(Nodes)
         /\ Len(script.todo) # 1 => Tail(script.todo) # <<>>
  <1> DEFINE todo == script.todo
  <1>1. todo \in Seq(Nodes) /\ todo # <<>>
    BY DEF ScriptInv
  <1> HIDE DEF todo
  <1>2. Head(todo) \in Nodes /\ Tail(todo) \in Seq(Nodes)
    BY <1>1, HeadTailProperties
  <1>3. Len(todo) # 1 => Tail(todo) # <<>>
    <2>1. Len(Tail(todo)) = Len(todo) - 1 /\ Len(todo) \in Nat
      BY <1>1, HeadTailProperties
    <2>2. Tail(todo) = <<>> => Len(Tail(todo)) = 0
      BY EmptySeq
    <2> QED
      BY <2>1, <2>2
  <1> QED
    BY <1>2, <1>3 DEF todo, Node

LEMMA DeployInv ==
  ASSUME IInv, NEW pool \in DOMAIN Pools, NEW v \in Versions, Deploy(pool, v)
  PROVE  IInv'
  <1>1. Pools[pool] \in Seq(Nodes) /\ Pools[pool] # <<>> /\ 0 \in 0..MaxTries - 1
    BY DeploymentAssumption
  <1>2. ScriptInv'
    BY <1>1 DEF IInv, ScriptInv, Deploy, Working
  <1>3. HostInv'
    BY DEF IInv, HostInv, Deploy
  <1> QED
    BY <1>2, <1>3 DEF IInv, ProcessInv, StartedInv, BalancerInv, Deploy, process, balancer

\* A step to another stage for the same node.
LEMMA GotoInv ==
  ASSUME ScriptInv, script.stage \in Working,
         NEW stage \in Working \cup {"aborted"}, Goto(stage),
         checksum' \in [Nodes -> Versions \cup {None}], UNCHANGED ready
  PROVE  ScriptInv'
  BY DEF ScriptInv, Goto, Working

LEMMA NextNodeInv ==
  ASSUME ScriptInv, script.stage = "probe", NextNode, UNCHANGED checksum
  PROVE  ScriptInv'
  <1>1. /\ Tail(script.todo) \in Seq(Nodes)
        /\ Len(script.todo) # 1 => Tail(script.todo) # <<>>
    BY NodeIsOne DEF Working
  <1> QED
    BY <1>1 DEF ScriptInv, NextNode, Working

LEMMA ScriptStepInv ==
  ASSUME IInv, ScriptStep
  PROVE  IInv'
  <1>1. CASE Download
    <2>1. Node \in Nodes /\ script.version \in Versions
      BY <1>1, NodeIsOne DEF IInv, ScriptInv, Download, At, Working
    <2>2. PICK content \in {"good", "bad"} :
            /\ disk' = [disk EXCEPT ![Node][script.version] = content]
            /\ IF content = "bad" THEN Fault ELSE UNCHANGED faults
      BY <1>1 DEF Download
    <2>3. faults' \in 0..MaxFaults
      BY <2>2, FaultInv DEF IInv, HostInv
    <2>4. HostInv'
      BY <1>1, <2>1, <2>2, <2>3 DEF IInv, HostInv, Download
    <2>5. ScriptInv'
      BY <1>1, GotoInv DEF IInv, ScriptInv, Download, At, Working
    <2> QED
      BY <1>1, <2>4, <2>5 DEF IInv, ProcessInv, StartedInv, BalancerInv, Download, process, balancer
  <1>2. CASE FetchChecksum
    <2>1. Node \in Nodes /\ script.version \in Versions
      BY <1>2, NodeIsOne DEF IInv, ScriptInv, FetchChecksum, At, Working
    <2>2. checksum' \in [Nodes -> Versions \cup {None}]
      BY <1>2, <2>1 DEF IInv, ScriptInv, FetchChecksum
    <2>3. ScriptInv'
      BY <1>2, <2>2, GotoInv DEF IInv, FetchChecksum, At, Working
    <2>4. HostInv'
      BY <1>2, FaultInv DEF IInv, HostInv, FetchChecksum
    <2> QED
      BY <1>2, <2>3, <2>4 DEF IInv, ProcessInv, StartedInv, BalancerInv, FetchChecksum, process, balancer
  <1>3. CASE VerifyChecksum \/ Warmup
    <2>1. ScriptInv'
      BY <1>3, GotoInv DEF IInv, ScriptInv, VerifyChecksum, Warmup, At, Working
    <2> QED
      BY <1>3, <2>1 DEF IInv, ProcessInv, StartedInv, HostInv, BalancerInv, VerifyChecksum,
         Warmup, nodeVars, process, balancer
  <1>4. CASE Stop
    <2>1. Node \in Nodes
      BY <1>4, NodeIsOne DEF IInv, Stop, At, Working
    <2>2. ScriptInv'
      BY <1>4, GotoInv DEF IInv, ScriptInv, Stop, At, Working
    <2>3. HostInv'
      BY <1>4, <2>1, FaultInv DEF IInv, HostInv, Stop
    <2>4. BalancerInv'
      BY <1>4, <2>1 DEF IInv, BalancerInv, Stop, balancer
    <2>5. CASE Exit(Node)
      BY <2>1, <2>2, <2>3, <2>4, <2>5, ExitInv DEF IInv
    <2>6. CASE UNCHANGED process
      BY <2>2, <2>3, <2>4, <2>6 DEF IInv, ProcessInv, StartedInv, process
    <2> QED
      BY <1>4, <2>5, <2>6 DEF Stop
  <1>5. CASE Start
    <2>1. Node \in Nodes /\ 0 \in 0..MaxTries - 1
      BY <1>5, NodeIsOne, DeploymentAssumption DEF IInv, Start, At, Working
    <2>2. ScriptInv'
      BY <1>5, <2>1 DEF IInv, ScriptInv, Start, At, Working
    <2>3. HostInv'
      BY <1>5, <2>1 DEF IInv, HostInv, Start
    <2> QED
      BY <1>5, <2>2, <2>3 DEF IInv, ProcessInv, StartedInv, BalancerInv, Start, process, balancer
  <1>6. CASE ProbeOk
    <2>1. ScriptInv'
      BY <1>6, NextNodeInv DEF IInv, ProbeOk, At
    <2> QED
      BY <1>6, <2>1 DEF IInv, ProcessInv, StartedInv, HostInv, BalancerInv, ProbeOk,
         nodeVars, process, balancer
  <1>7. CASE ProbeFails
    <2>1. ASSUME script.tries + 1 < MaxTries
          PROVE  ScriptInv'
      <3>1. script.tries + 1 \in 0..MaxTries - 1
        BY <2>1, DeploymentAssumption DEF IInv, ScriptInv
      <3>2. script' = [script EXCEPT !.tries = script.tries + 1]
        BY <1>7, <2>1 DEF ProbeFails
      <3> QED
        BY <1>7, <2>1, <3>1, <3>2 DEF IInv, ScriptInv, ProbeFails
    <2>2. ASSUME ~(script.tries + 1 < MaxTries)
          PROVE  ScriptInv'
      BY <1>7, <2>2, NextNodeInv DEF IInv, ProbeFails, At
    <2>3. ScriptInv'
      BY <2>1, <2>2
    <2> QED
      BY <1>7, <2>3 DEF IInv, ProcessInv, StartedInv, HostInv, BalancerInv, ProbeFails,
         nodeVars, process, balancer
  <1> QED
    BY <1>1, <1>2, <1>3, <1>4, <1>5, <1>6, <1>7 DEF ScriptStep

LEMMA AbortInv ==
  ASSUME IInv, Abort
  PROVE  IInv'
  <1>1. ScriptInv'
    BY GotoInv DEF IInv, ScriptInv, Abort, Working
  <1>2. HostInv'
    BY FaultInv DEF IInv, HostInv, Abort
  <1> QED
    BY <1>1, <1>2 DEF IInv, ProcessInv, StartedInv, BalancerInv, Abort, process, balancer

-------------------------------------------------------------------------------

LEMMA InitInv == Init => IInv
  <1> SUFFICES ASSUME Init PROVE IInv
    OBVIOUS
  <1>1. PICK v \in Versions :
    /\ main = [n \in Nodes |-> "serve"]
    /\ store = [n \in Nodes |-> [version |-> v, content |-> "good"]]
    /\ listener = [n \in Nodes |-> "up"]
    /\ disk = [n \in Nodes |-> [w \in Versions |-> IF w = v THEN "good" ELSE "absent"]]
    /\ unit = [n \in Nodes |-> v]
    /\ active = [n \in Nodes |-> TRUE]
    /\ faults = 0
    /\ script = [stage |-> "none", pool |-> "blue", version |-> v, todo |-> <<>>, tries |-> 0]
    /\ checksum = [n \in Nodes |-> v]
    /\ ready = DOMAIN Pools
    /\ live = "blue"
    /\ target = [n \in Nodes |-> TRUE]
    /\ unstopped = {} /\ looked = TRUE
    BY DEF Init
  <1>2. [version |-> v, content |-> "good"] \in Loaded
    BY DEF Loaded
  <1>3. ProcessInv /\ StartedInv
    BY <1>1, <1>2, NodeAssumption DEF ProcessInv, StartedInv, Loaded, Mains
  <1>4. HostInv
    BY <1>1, NodeAssumption DEF HostInv
  <1>5. ScriptInv
    BY <1>1, DeploymentAssumption DEF ScriptInv, Working
  <1>6. BalancerInv
    BY <1>1, DeploymentAssumption DEF BalancerInv
  <1> QED
    BY <1>3, <1>4, <1>5, <1>6 DEF IInv

LEMMA NextInv == IInv /\ [Next]_vars => IInv'
  <1> SUFFICES ASSUME IInv, [Next]_vars PROVE IInv'
    OBVIOUS
  <1>1. CASE UNCHANGED vars
    BY <1>1 DEF vars, nodeVars, process, operator, balancer, IInv, ProcessInv, StartedInv,
       HostInv, ScriptInv, BalancerInv
  <1>2. ASSUME NEW n \in Nodes, Launch(n) \/ Progress(n) \/ Failure(n), Beside
        PROVE  IInv'
    BY <1>2, NodeInv
  <1>3. ASSUME NEW n \in Nodes, HealthCheck(n) PROVE IInv'
    BY <1>3 DEF HealthCheck, Healthy, nodeVars, process, operator, IInv, ProcessInv,
       StartedInv, HostInv, ScriptInv, BalancerInv
  <1>4. ASSUME NEW pool \in DOMAIN Pools, NEW v \in Versions, Deploy(pool, v) PROVE IInv'
    BY <1>4, DeployInv
  <1>5. ASSUME NEW pool \in DOMAIN Pools, Cutover(pool) PROVE IInv'
    BY <1>5 DEF Cutover, nodeVars, process, operator, IInv, ProcessInv, StartedInv,
       HostInv, ScriptInv, BalancerInv
  <1> QED
    BY <1>1, <1>2, <1>3, <1>4, <1>5, ScriptStepInv, AbortInv DEF Next

LEMMA Inductive == Spec => []IInv
  BY InitInv, NextInv, PTL DEF Spec

\* The state of the nodes, the script and the load balancer is well formed; the
\* script always has a node to work on until it ends.
THEOREM TypeCorrect == Spec => []TypeOK
  <1>1. IInv => TypeOK
    BY DEF IInv, ProcessInv, HostInv, ScriptInv, BalancerInv, TypeOK, Mains, Loaded, Working
  <1> QED
    BY <1>1, Inductive, PTL

\* In any start of main (main.rs), after any crash and restart, a node whose
\* /health or whose gRPC listener answers has a snapshot in memory.
THEOREM ReachableLoaded == Spec => []ReachableIsLoaded
  <1>1. IInv => ReachableIsLoaded
    BY DEF IInv, StartedInv, ReachableIsLoaded, Healthy, Serves
  <1> QED
    BY <1>1, Inductive, PTL

-------------------------------------------------------------------------------
(* The pools, and the nodes that are down *)

LEMMA PoolNodes ==
  ASSUME NEW pool \in DOMAIN Pools
  PROVE  InPool(pool) \subseteq Nodes /\ IsFiniteSet(InPool(pool)) /\ InPool(pool) # {}
  <1> DEFINE s == Pools[pool]
  <1>1. s \in Seq(Nodes) /\ Len(s) > 0
    BY DeploymentAssumption
  <1> HIDE DEF s
  <1>2. s \in Surjection(1..Len(s), { s[i] : i \in 1..Len(s) })
    BY <1>1 DEF Surjection
  <1>3. IsFiniteSet(1..Len(s))
    BY <1>1, FS_Interval
  <1>4. IsFiniteSet({ s[i] : i \in 1..Len(s) })
    BY <1>2, <1>3, FS_Surjection
  <1>5. { s[i] : i \in 1..Len(s) } \subseteq Nodes /\ { s[i] : i \in 1..Len(s) } # {}
    BY <1>1
  <1> QED
    BY <1>4, <1>5 DEF InPool, s

LEMMA Apart ==
  ASSUME NEW p \in DOMAIN Pools, NEW q \in DOMAIN Pools, p # q, NEW n
  PROVE  ~(n \in InPool(p) /\ n \in InPool(q))
  BY DeploymentAssumption DEF InPool

LEMMA DownFinite ==
  ASSUME IInv
  PROVE  /\ Down \subseteq InPool(live) /\ IsFiniteSet(Down) /\ Cardinality(Down) \in Nat
         /\ faults \in Nat
  <1>1. IsFiniteSet(InPool(live))
    BY PoolNodes DEF IInv, BalancerInv
  <1>2. Down \subseteq InPool(live)
    BY DEF Down
  <1>3. faults \in Nat
    BY DEF IInv, HostInv
  <1> QED
    BY <1>1, <1>2, <1>3, FS_Subset, FS_CardinalityType

\* No more nodes are down than before.
LEMMA DownKept ==
  ASSUME IInv, DownInv, looked' = looked, Down' \subseteq Down, faults' \in Nat, faults <= faults'
  PROVE  DownInv'
  <1>1. Cardinality(Down') <= Cardinality(Down) /\ Cardinality(Down') \in Nat
    BY DownFinite, FS_Subset, FS_CardinalityType
  <1>2. Cardinality(Down) \in Nat /\ faults \in Nat
    BY DownFinite
  <1> QED
    BY <1>1, <1>2 DEF DownInv

\* One node more is down, and a fault more has occurred.
LEMMA OneDown ==
  ASSUME IInv, DownInv, looked' = looked, NEW n, Down' \subseteq Down \cup {n}, faults' = faults + 1
  PROVE  DownInv'
  <1>1. IsFiniteSet(Down \cup {n}) /\ Cardinality(Down \cup {n}) <= Cardinality(Down) + 1
    <2>1. /\ IsFiniteSet(Down \cup {n})
          /\ Cardinality(Down \cup {n}) =
               IF n \in Down THEN Cardinality(Down) ELSE Cardinality(Down) + 1
      BY DownFinite, FS_AddElement
    <2> QED
      BY <2>1, DownFinite
  <1>2. Cardinality(Down') <= Cardinality(Down \cup {n})
    BY <1>1, FS_Subset
  <1>3. /\ IsFiniteSet(Down') /\ Cardinality(Down') \in Nat
        /\ Cardinality(Down \cup {n}) \in Nat
    BY <1>1, FS_Subset, FS_CardinalityType
  <1> QED
    BY <1>1, <1>2, <1>3, DownFinite DEF DownInv

-------------------------------------------------------------------------------
(* Steps of the nodes *)

\* What any step of a node does to what the invariant is about.
LEMMA NodeEffect ==
  ASSUME IInv, NEW n \in Nodes, Launch(n) \/ Progress(n) \/ Failure(n)
  PROVE  /\ disk' = disk /\ unit' = unit
         /\ faults' \in {faults, faults + 1}
         /\ \A m \in Nodes \ {n} : store'[m] = store[m] /\ main'[m] = main[m]
         /\ \/ store'[n] = store[n]
            \/ store'[n] = None
            \/ /\ disk[n][unit[n]] # "absent"
               /\ store'[n] = [version |-> unit[n], content |-> disk[n][unit[n]]]
         /\ main[n] = "serve" /\ main'[n] # "serve" => faults' = faults + 1
  <1>1. main \in [Nodes -> Mains] /\ store \in [Nodes -> {None} \cup Loaded]
    BY DEF IInv, ProcessInv
  <1>2. CASE Launch(n)
    BY <1>1, <1>2 DEF Launch
  <1>3. CASE Open(n)
    BY <1>1, <1>3 DEF Open, Exit
  <1>4. CASE Preload(n) \/ SpawnMetrics(n) \/ BindMetrics(n) \/ BindGrpc(n)
    BY <1>1, <1>4 DEF Preload, SpawnMetrics, BindMetrics, BindGrpc
  <1>5. CASE Failure(n)
    BY <1>1, <1>5 DEF Failure, MetricsError, GrpcError, Crash, Fault, Exit
  <1> QED
    BY <1>2, <1>3, <1>4, <1>5 DEF Progress

\* The file of a node that the script has made sure of is good.
LEMMA RenewedFile ==
  ASSUME FleetInv, NEW n, Renewed(n)
  PROVE  disk[n][unit[n]] = "good"
  BY DEF FleetInv, FileInv, Renewed, Restarted, Verified

LEMMA NodeFleet ==
  ASSUME FleetInv, NEW n \in Nodes, Launch(n) \/ Progress(n) \/ Failure(n), Beside
  PROVE  FleetInv'
  <1>1. IInv /\ IInv'
    BY NodeInv DEF FleetInv
  <1>2. /\ disk' = disk /\ unit' = unit
        /\ faults \in Nat /\ faults' \in {faults, faults + 1}
        /\ script' = script /\ ready' = ready /\ live' = live /\ looked' = looked
    <2>1. disk' = disk /\ unit' = unit /\ faults' \in {faults, faults + 1}
      BY <1>1, NodeEffect
    <2>2. faults \in Nat
      BY <1>1 DEF IInv, HostInv
    <2> QED
      BY <2>1, <2>2 DEF Beside, operator, balancer
  <1>3. /\ \A m \in Nodes \ {n} : store'[m] = store[m] /\ main'[m] = main[m]
        /\ \/ store'[n] = store[n]
           \/ store'[n] = None
           \/ /\ disk[n][unit[n]] # "absent"
              /\ store'[n] = [version |-> unit[n], content |-> disk[n][unit[n]]]
        /\ main[n] = "serve" /\ main'[n] # "serve" => faults' = faults + 1
    BY <1>1, NodeEffect
  <1>4. Todo' = Todo /\ Node' = Node
    BY <1>2 DEF Todo, Node
  <1>5. WorkInv' /\ FileInv'
    BY <1>2, <1>4 DEF FleetInv, WorkInv, FileInv, Verified, InPool, Node
  <1>6. \A pool \in DOMAIN Pools : InPool(pool) \subseteq Nodes
    BY PoolNodes
  <1>7. live \in DOMAIN Pools /\ script.pool \in DOMAIN Pools /\ ready \subseteq DOMAIN Pools
    BY <1>1 DEF IInv, BalancerInv, ScriptInv
  <1>8. ASSUME NEW m \in Nodes, GoodStore(m), m = n => disk[n][unit[n]] # "bad"
        PROVE  GoodStore(m)'
    <2>1. unit[n] \in Versions /\ disk[n][unit[n]] \in {"absent", "good", "bad"}
      BY <1>1 DEF IInv, HostInv
    <2> QED
      BY <1>3, <1>8, <2>1 DEF GoodStore
  <1>9. \A m : Renewed(m)' <=> Renewed(m)
    BY <1>2, <1>4 DEF Renewed, Restarted, InPool
  <1>10. \A m \in Nodes : m \notin unstopped' /\ store'[m] # None => m \notin unstopped
    BY <1>1 DEF Beside, IInv, StartedInv
  <1>11. ContentInv'
    <2>1. ASSUME faults' = 0, NEW m \in Nodes
          PROVE  GoodStore(m)' /\ \A v \in Versions : disk'[m][v] # "bad"
      <3>1. faults = 0
        BY <1>2, <2>1
      <3>2. GoodStore(m) /\ \A k \in Nodes : \A v \in Versions : disk[k][v] # "bad"
        BY <3>1 DEF FleetInv, ContentInv
      <3>3. unit[n] \in Versions
        BY <1>1 DEF IInv, HostInv
      <3> QED
        BY <1>2, <1>8, <3>2, <3>3
    <2>2. ASSUME NEW m \in Nodes, Renewed(m), m \notin unstopped' \/ faults' < 2
          PROVE  GoodStore(m)'
      <3>1. CASE store'[m] = None
        BY <3>1 DEF GoodStore
      <3>2. CASE store'[m] # None
        <4>1. m \notin unstopped \/ faults < 2
          BY <1>2, <1>10, <2>2, <3>2
        <4>2. GoodStore(m) /\ disk[m][unit[m]] = "good"
          BY <2>2, <4>1, RenewedFile DEF FleetInv, ContentInv
        <4> QED
          BY <1>8, <4>2
      <3> QED
        BY <3>1, <3>2
    <2> QED
      BY <1>2, <1>9, <2>1, <2>2 DEF ContentInv
  <1>12. VersionInv'
    <2> SUFFICES ASSUME NEW m \in Nodes, m \notin unstopped', Renewed(m), store'[m] # None
                 PROVE  store'[m].version = unit[m]
      BY <1>2, <1>9 DEF VersionInv
    <2>1. store[m] # None => store[m].version = unit[m]
      BY <1>10 DEF FleetInv, VersionInv
    <2> QED
      BY <1>3, <2>1
  <1>13. DownInv'
    <2>1. CASE faults' = faults
      <3>1. Down' \subseteq Down
        BY <1>2, <1>3, <1>6, <1>7, <2>1 DEF Down, InPool
      <3> QED
        BY <1>1, <1>2, <2>1, <3>1, DownKept DEF FleetInv
    <2>2. CASE faults' = faults + 1
      <3>1. Down' \subseteq Down \cup {n}
        BY <1>2, <1>3, <1>6, <1>7 DEF Down, InPool
      <3> QED
        BY <1>1, <1>2, <2>2, <3>1, OneDown DEF FleetInv
    <2> QED
      BY <1>2, <2>1, <2>2
  <1> QED
    BY <1>1, <1>5, <1>11, <1>12, <1>13 DEF FleetInv

-------------------------------------------------------------------------------
(* Steps that leave the nodes of the live pool alone *)

\* No node of the live pool goes down while nobody touches them.
LEMMA LiveKept ==
  ASSUME FleetInv, live' = live, looked' = looked, faults' \in Nat, faults <= faults',
         \A n \in InPool(live) : main'[n] = main[n]
  PROVE  DownInv'
  <1>1. Down' \subseteq Down
    BY DEF Down, InPool
  <1> QED
    BY <1>1, DownKept DEF FleetInv

\* What is said of the nodes the script has made sure of stays true while no process
\* opens or closes anything and none of them is added.
LEMMA StoresKept ==
  ASSUME FleetInv, UNCHANGED <<store, unstopped>>,
         faults \in Nat, faults' \in {faults, faults + 1},
         \A n \in Nodes : Renewed(n)' => Renewed(n) /\ unit'[n] = unit[n],
         faults' = 0 => \A n \in Nodes : \A v \in Versions : disk'[n][v] # "bad"
  PROVE  (ContentInv /\ VersionInv)'
  <1>1. \A n : GoodStore(n)' <=> GoodStore(n)
    BY DEF GoodStore
  <1>2. (faults' = 0 => faults = 0) /\ (faults' < 2 => faults < 2)
    OBVIOUS
  <1> QED
    BY <1>1, <1>2 DEF FleetInv, ContentInv, VersionInv

\* A step to another stage for the same node.
LEMMA GotoKeeps ==
  ASSUME IInv, NEW stage, Goto(stage)
  PROVE  /\ script'.stage = stage /\ script'.todo = script.todo
         /\ script'.pool = script.pool /\ script'.version = script.version
         /\ Todo' = Todo /\ Node' = Node
  <1>1. /\ script'.stage = stage /\ script'.todo = script.todo
        /\ script'.pool = script.pool /\ script'.version = script.version
    BY DEF Goto, IInv, ScriptInv
  <1> QED
    BY <1>1 DEF Todo, Node

\* The script works on nodes of its own pool, and none of them is live.
LEMMA OwnNodes ==
  ASSUME FleetInv, script.stage \in Working
  PROVE  /\ script.pool \in DOMAIN Pools /\ script.pool \notin ready /\ script.pool # live
         /\ Node \in Todo /\ Node \in InPool(script.pool) /\ Node \in Nodes
         /\ unit[Node] = script.version /\ script.version \in Versions
         /\ \A pool \in ready : Node \notin InPool(pool)
  <1>1. /\ script.pool \in DOMAIN Pools /\ script.pool \notin ready /\ script.pool # live
        /\ ready \subseteq DOMAIN Pools /\ script.version \in Versions
    BY DEF FleetInv, IInv, ScriptInv, BalancerInv, WorkInv
  <1>2. Node \in Todo
    <2> DEFINE todo == script.todo
    <2>1. todo \in Seq(Nodes) /\ todo # <<>>
      BY DEF FleetInv, IInv, ScriptInv
    <2> HIDE DEF todo
    <2>2. 1 \in 1..Len(todo) /\ Head(todo) = todo[1]
      BY <2>1
    <2> QED
      BY <2>2 DEF todo, Todo, Node
  <1>3. Node \in InPool(script.pool)
    BY <1>2 DEF FleetInv, WorkInv
  <1>4. Node \in Nodes /\ unit[Node] = script.version
    BY <1>1, <1>3, PoolNodes DEF FleetInv, WorkInv
  <1> QED
    BY <1>1, <1>2, <1>3, <1>4, Apart

-------------------------------------------------------------------------------
(* Steps of the script and of its operator *)

\* What is said of the script's pool while it goes on with the same node.
LEMMA WorkKept ==
  ASSUME WorkInv, script'.stage \in Working => script.stage \in Working,
         script'.pool = script.pool, script'.version = script.version, Todo' = Todo,
         ready' = ready, live' = live, unit' = unit
  PROVE  WorkInv'
  BY DEF WorkInv, InPool

\* A step that opens no file, changes none on the disk and stays with the node. It
\* may only go on from a verification that has succeeded, or from a stop.
LEMMA StageKept ==
  ASSUME FleetInv, IInv', UNCHANGED <<main, store, disk, unit, ready, live, looked, unstopped>>,
         faults' \in {faults, faults + 1}, script'.pool = script.pool,
         script'.version = script.version, script'.todo = script.todo,
         script'.stage \in Working => script.stage \in Working,
         script'.stage \in {"warmup", "stop", "start", "probe"} =>
           \/ script.stage \in {"warmup", "stop", "start", "probe"}
           \/ disk[Node][unit[Node]] = "good",
         script'.stage \in {"start", "probe"} => script.stage \in {"start", "probe"}
  PROVE  FleetInv'
  <1>1. Todo' = Todo /\ Node' = Node
    BY DEF Todo, Node
  <1>2. faults \in Nat
    BY DEF FleetInv, IInv, HostInv
  <1>3. WorkInv'
    BY <1>1, WorkKept DEF FleetInv
  <1>4. FileInv'
    <2>1. \A n : Verified(n)' => Verified(n) \/ disk[n][unit[n]] = "good"
      BY <1>1 DEF Verified
    <2> QED
      BY <2>1 DEF FleetInv, FileInv, InPool
  <1>5. (ContentInv /\ VersionInv)'
    <2>1. \A n : Renewed(n)' => Renewed(n)
      BY <1>1 DEF Renewed, Restarted, InPool
    <2>2. faults' = 0 => \A n \in Nodes : \A v \in Versions : disk'[n][v] # "bad"
      BY <1>2 DEF FleetInv, ContentInv
    <2> QED
      BY <1>2, <2>1, <2>2, StoresKept
  <1>6. DownInv'
    BY <1>2, LiveKept
  <1> QED
    BY <1>3, <1>4, <1>5, <1>6 DEF FleetInv

LEMMA DeployFleet ==
  ASSUME FleetInv, NEW pool \in DOMAIN Pools, NEW v \in Versions, Deploy(pool, v)
  PROVE  FleetInv'
  <1>1. IInv /\ IInv' /\ live \in DOMAIN Pools /\ ready \subseteq DOMAIN Pools
    BY DeployInv DEF FleetInv, IInv, BalancerInv, ScriptInv
  <1>2. /\ pool # live /\ ready' = ready \ {pool} /\ live' = live /\ looked' = looked
        /\ main' = main /\ store' = store /\ disk' = disk
        /\ faults' = faults /\ faults \in Nat /\ unstopped' = unstopped
        /\ script' = [stage |-> "download", pool |-> pool, version |-> v,
                      todo |-> Pools[pool], tries |-> 0]
        /\ unit' = [n \in Nodes |-> IF n \in InPool(pool) THEN v ELSE unit[n]]
    BY <1>1 DEF Deploy, process, balancer, IInv, HostInv
  <1>3. Todo' = InPool(pool)
    BY <1>2 DEF Todo, InPool
  <1>4. /\ \A n \in InPool(pool) : unit'[n] = v
        /\ \A p \in DOMAIN Pools \ {pool} : \A n \in InPool(p) : unit'[n] = unit[n]
    <2>1. \A p \in DOMAIN Pools : InPool(p) \subseteq Nodes
      BY PoolNodes
    <2> QED
      BY <1>2, <2>1, Apart
  <1>5. WorkInv'
    <2>1. live' \in ready'
      BY <1>2 DEF FleetInv, WorkInv
    <2>2. \A p \in DOMAIN Pools : \A m, n \in InPool(p) : unit'[m] = unit'[n]
      <3> SUFFICES ASSUME NEW p \in DOMAIN Pools, NEW m \in InPool(p), NEW n \in InPool(p)
                   PROVE  unit'[m] = unit'[n]
        OBVIOUS
      <3>1. unit[m] = unit[n]
        BY DEF FleetInv, WorkInv
      <3> QED
        BY <1>4, <3>1
    <2> QED
      BY <1>2, <1>3, <1>4, <2>1, <2>2 DEF WorkInv
  <1>6. \A n \in InPool(pool) : n \in Todo' /\ ~Verified(n)' /\ ~Restarted(n)'
    BY <1>2, <1>3 DEF Verified, Restarted
  <1>7. FileInv'
    <2>1. \A p \in ready' : \A n \in InPool(p) : disk'[n][unit'[n]] = "good"
      <3> SUFFICES ASSUME NEW p \in ready', NEW n \in InPool(p)
                   PROVE  disk[n][unit'[n]] = "good"
        BY <1>2
      <3>1. p \in ready /\ p \in DOMAIN Pools \ {pool}
        BY <1>1, <1>2
      <3>2. disk[n][unit[n]] = "good"
        BY <3>1 DEF FleetInv, FileInv
      <3> QED
        BY <1>4, <3>1, <3>2
    <2> QED
      BY <1>2, <1>6, <2>1 DEF FileInv
  <1>8. (ContentInv /\ VersionInv)'
    <2>1. ASSUME NEW n \in Nodes, Renewed(n)'
          PROVE  Renewed(n) /\ unit'[n] = unit[n]
      <3>1. PICK p \in ready' : n \in InPool(p)
        BY <1>2, <1>6, <2>1 DEF Renewed, InPool
      <3>2. p \in ready /\ p \in DOMAIN Pools \ {pool}
        BY <1>1, <1>2, <3>1
      <3> QED
        BY <1>4, <3>1, <3>2 DEF Renewed
    <2>2. faults' = 0 => \A n \in Nodes : \A w \in Versions : disk'[n][w] # "bad"
      BY <1>2 DEF FleetInv, ContentInv
    <2> QED
      BY <1>2, <2>1, <2>2, StoresKept
  <1>9. DownInv'
    BY <1>1, <1>2, LiveKept
  <1> QED
    BY <1>1, <1>5, <1>7, <1>8, <1>9 DEF FleetInv

LEMMA DownloadFleet ==
  ASSUME FleetInv, Download
  PROVE  FleetInv'
  <1>1. IInv' /\ IInv
    BY ScriptStepInv DEF FleetInv, ScriptStep
  <1>2. script.stage = "download" /\ script.stage \in Working /\ Goto("fetch")
    BY DEF Download, At, Working
  <1>3. /\ script'.stage = "fetch" /\ script'.pool = script.pool
        /\ script'.version = script.version /\ Todo' = Todo /\ Node' = Node
    BY <1>1, <1>2, GotoKeeps
  <1>4. /\ main' = main /\ store' = store /\ unit' = unit /\ ready' = ready /\ live' = live
        /\ looked' = looked /\ unstopped' = unstopped /\ faults \in Nat
    BY <1>1 DEF Download, process, balancer, IInv, HostInv
  <1>5. PICK content \in {"good", "bad"} :
          /\ disk' = [disk EXCEPT ![Node][script.version] = content]
          /\ IF content = "bad" THEN Fault ELSE UNCHANGED faults
    BY DEF Download
  <1>6. faults' \in {faults, faults + 1} /\ (faults' = faults => content = "good")
    BY <1>4, <1>5 DEF Fault
  <1>7. /\ \A n \in Nodes \ {Node} : disk'[n] = disk[n]
        /\ \A v \in Versions : disk'[Node][v] = IF v = script.version THEN content ELSE disk[Node][v]
    BY <1>1, <1>2, <1>5, OwnNodes DEF IInv, HostInv
  <1>8. WorkInv'
    BY <1>2, <1>3, <1>4, WorkKept DEF FleetInv
  <1>9. \A n : (Verified(n)' => n # Node /\ Verified(n)) /\ (Restarted(n)' => Restarted(n))
    BY <1>2, <1>3, OwnNodes DEF Verified, Restarted
  <1>10. \A p \in DOMAIN Pools : InPool(p) \subseteq Nodes
    BY PoolNodes
  <1>11. FileInv'
    <2>1. \A p \in ready : \A n \in InPool(p) : disk'[n][unit[n]] = "good"
      <3> SUFFICES ASSUME NEW p \in ready, NEW n \in InPool(p)
                   PROVE  disk'[n][unit[n]] = "good"
        OBVIOUS
      <3>1. n # Node /\ n \in Nodes
        BY <1>1, <1>2, <1>10, OwnNodes DEF IInv, ScriptInv
      <3> QED
        BY <1>7, <3>1 DEF FleetInv, FileInv
    <2>2. ASSUME NEW n \in InPool(script.pool), Verified(n)'
          PROVE  disk'[n][unit[n]] = "good"
      <3>1. n # Node /\ n \in Nodes /\ Verified(n)
        BY <1>2, <1>9, <1>10, <2>2, OwnNodes
      <3> QED
        BY <1>2, <1>7, <3>1 DEF FleetInv, FileInv
    <2> QED
      BY <1>3, <1>4, <2>1, <2>2 DEF FileInv, InPool
  <1>12. (ContentInv /\ VersionInv)'
    <2>1. \A n : Renewed(n)' => Renewed(n)
      BY <1>2, <1>3, <1>4, <1>9 DEF Renewed, InPool
    <2>2. ASSUME faults' = 0
          PROVE  \A n \in Nodes : \A v \in Versions : disk'[n][v] # "bad"
      <3>1. faults = 0 /\ content = "good"
        BY <1>4, <1>6, <2>2
      <3>2. \A n \in Nodes : \A v \in Versions : disk[n][v] # "bad"
        BY <3>1 DEF FleetInv, ContentInv
      <3> QED
        BY <1>7, <3>1, <3>2
    <2> QED
      BY <1>4, <1>6, <2>1, <2>2, StoresKept
  <1>13. DownInv'
    BY <1>4, <1>6, LiveKept
  <1> QED
    BY <1>1, <1>8, <1>11, <1>12, <1>13 DEF FleetInv

LEMMA FaultCount ==
  ASSUME Fault \/ UNCHANGED faults
  PROVE  faults' \in {faults, faults + 1}
  BY DEF Fault

LEMMA FetchFleet ==
  ASSUME FleetInv, FetchChecksum
  PROVE  FleetInv'
  <1>1. IInv' /\ IInv
    BY ScriptStepInv DEF FleetInv, ScriptStep
  <1>2. script.stage = "fetch" /\ Goto("verify") /\ (Fault \/ UNCHANGED faults)
    BY DEF FetchChecksum, At
  <1>3. /\ script'.stage = "verify" /\ script'.todo = script.todo
        /\ script'.pool = script.pool /\ script'.version = script.version
    BY <1>1, <1>2, GotoKeeps
  <1>4. faults' \in {faults, faults + 1}
    BY <1>2, FaultCount
  <1> QED
    BY <1>1, <1>2, <1>3, <1>4, StageKept DEF FetchChecksum, process, balancer, Working

LEMMA VerifyFleet ==
  ASSUME FleetInv, VerifyChecksum
  PROVE  FleetInv'
  <1>1. IInv' /\ IInv
    BY ScriptStepInv DEF FleetInv, ScriptStep
  <1> DEFINE stage == IF Matches THEN "warmup" ELSE "aborted"
  <1>2. script.stage = "verify" /\ Goto(stage)
    BY DEF VerifyChecksum, At
  <1>3. /\ script'.stage = stage /\ script'.todo = script.todo
        /\ script'.pool = script.pool /\ script'.version = script.version
    BY <1>1, <1>2, GotoKeeps
  <1>4. Matches => disk[Node][unit[Node]] = "good"
    BY <1>2, OwnNodes DEF Matches, Working
  <1> QED
    BY <1>1, <1>2, <1>3, <1>4, StageKept DEF VerifyChecksum, nodeVars, process, balancer, Working

LEMMA WarmupFleet ==
  ASSUME FleetInv, Warmup
  PROVE  FleetInv'
  <1>1. IInv' /\ IInv
    BY ScriptStepInv DEF FleetInv, ScriptStep
  <1>2. script.stage = "warmup" /\ Goto("stop")
    BY DEF Warmup, At
  <1>3. /\ script'.stage = "stop" /\ script'.todo = script.todo
        /\ script'.pool = script.pool /\ script'.version = script.version
    BY <1>1, <1>2, GotoKeeps
  <1> QED
    BY <1>1, <1>2, <1>3, StageKept DEF Warmup, nodeVars, process, balancer, Working

LEMMA StartFleet ==
  ASSUME FleetInv, Start
  PROVE  FleetInv'
  <1>1. IInv' /\ IInv
    BY ScriptStepInv DEF FleetInv, ScriptStep
  <1>2. script.stage = "start" /\ script' = [script EXCEPT !.stage = "probe", !.tries = 0]
    BY DEF Start, At
  <1>3. /\ script'.stage = "probe" /\ script'.todo = script.todo
        /\ script'.pool = script.pool /\ script'.version = script.version
    BY <1>1, <1>2 DEF IInv, ScriptInv
  <1> QED
    BY <1>1, <1>2, <1>3, StageKept DEF Start, process, balancer, Working

LEMMA AbortFleet ==
  ASSUME FleetInv, Abort
  PROVE  FleetInv'
  <1>1. IInv' /\ IInv
    BY AbortInv DEF FleetInv
  <1>2. /\ script'.stage = "aborted" /\ script'.todo = script.todo
        /\ script'.pool = script.pool /\ script'.version = script.version
    BY <1>1, GotoKeeps DEF Abort
  <1>3. faults' \in {faults, faults + 1}
    BY FaultCount DEF Abort
  <1> QED
    BY <1>1, <1>2, <1>3, StageKept DEF Abort, process, balancer, Working

\* A stop makes the node's process end; or it fails, which is a fault: if it is the
\* first one, what the process has open is good.
LEMMA StopFleet ==
  ASSUME FleetInv, Stop
  PROVE  FleetInv'
  <1>1. IInv' /\ IInv
    BY ScriptStepInv DEF FleetInv, ScriptStep
  <1>2. script.stage = "stop" /\ script.stage \in Working /\ Goto("start")
    BY DEF Stop, At, Working
  <1>3. /\ script'.stage = "start" /\ script'.todo = script.todo
        /\ script'.pool = script.pool /\ script'.version = script.version
        /\ Todo' = Todo /\ Node' = Node
    BY <1>1, <1>2, GotoKeeps
  <1>4. /\ disk' = disk /\ unit' = unit /\ ready' = ready /\ live' = live
        /\ looked' = looked /\ faults \in Nat
    BY <1>1 DEF Stop, balancer, IInv, HostInv
  <1>5. /\ faults' \in {faults, faults + 1}
        /\ \A n \in Nodes \ {Node} :
             /\ store'[n] = store[n] /\ main'[n] = main[n]
             /\ n \in unstopped' <=> n \in unstopped
        /\ \/ store'[Node] = None
           \/ store'[Node] = store[Node] /\ faults' = faults + 1 /\ Node \in unstopped'
    <2>1. /\ Node \in Nodes /\ store \in [Nodes -> {None} \cup Loaded]
          /\ main \in [Nodes -> Mains]
          /\ main[Node] = "stopped" => store[Node] = None
      BY <1>1, <1>2, OwnNodes DEF IInv, ProcessInv, StartedInv
    <2>2. CASE Exit(Node) /\ unstopped' = unstopped \ {Node} /\ UNCHANGED faults
      BY <2>1, <2>2 DEF Exit
    <2>3. CASE /\ Fault
               /\ unstopped' = unstopped \cup { n \in {Node} : main[n] # "stopped" }
               /\ UNCHANGED <<process, active>>
      BY <2>1, <2>3 DEF Fault, process
    <2> QED
      BY <2>2, <2>3 DEF Stop
  <1>6. WorkInv'
    BY <1>2, <1>3, <1>4, WorkKept DEF FleetInv
  <1>7. FileInv'
    <2>1. \A n : Verified(n)' => Verified(n)
      BY <1>2, <1>3 DEF Verified
    <2> QED
      BY <1>2, <1>3, <1>4, <2>1 DEF FleetInv, FileInv, InPool
  <1>8. ASSUME NEW n \in Nodes, Renewed(n)', n # Node
        PROVE  Renewed(n)
    BY <1>2, <1>3, <1>4, <1>8 DEF Renewed, Restarted, InPool
  <1>9. ASSUME NEW n \in Nodes, GoodStore(n)
        PROVE  GoodStore(n)'
    BY <1>5, <1>9 DEF GoodStore
  <1>10. ContentInv'
    <2>1. ASSUME NEW n \in Nodes, Renewed(n)', n \notin unstopped' \/ faults' < 2
          PROVE  GoodStore(n)'
      <3>1. CASE n = Node
        <4>1. CASE store'[Node] = None
          BY <3>1, <4>1 DEF GoodStore
        <4>2. CASE faults' = faults + 1 /\ Node \in unstopped'
          <5>1. faults = 0
            BY <1>4, <2>1, <3>1, <4>2
          <5>2. GoodStore(n)
            BY <5>1 DEF FleetInv, ContentInv
          <5> QED
            BY <1>9, <5>2
        <4> QED
          BY <1>5, <4>1, <4>2
      <3>2. CASE n # Node
        <4>1. Renewed(n) /\ (n \notin unstopped \/ faults < 2)
          BY <1>4, <1>5, <1>8, <2>1, <3>2
        <4>2. GoodStore(n)
          BY <4>1 DEF FleetInv, ContentInv
        <4> QED
          BY <1>9, <4>2
      <3> QED
        BY <3>1, <3>2
    <2>2. ASSUME faults' = 0
          PROVE  \A n \in Nodes : GoodStore(n)' /\ \A v \in Versions : disk'[n][v] # "bad"
      <3>1. faults = 0
        BY <1>4, <1>5, <2>2
      <3>2. \A n \in Nodes : GoodStore(n) /\ \A v \in Versions : disk[n][v] # "bad"
        BY <3>1 DEF FleetInv, ContentInv
      <3> QED
        BY <1>4, <1>9, <3>2
    <2> QED
      BY <2>1, <2>2 DEF ContentInv
  <1>11. VersionInv'
    <2> SUFFICES ASSUME NEW n \in Nodes, n \notin unstopped', Renewed(n)', store'[n] # None
                 PROVE  store'[n].version = unit[n]
      BY <1>4 DEF VersionInv
    <2>1. n # Node
      BY <1>5
    <2> QED
      BY <1>5, <1>8, <2>1 DEF FleetInv, VersionInv
  <1>12. DownInv'
    <2>1. \A n \in InPool(live) : n \in Nodes \ {Node}
      <3>1. live \in DOMAIN Pools
        BY <1>1 DEF IInv, BalancerInv
      <3> QED
        BY <1>2, <3>1, PoolNodes, OwnNodes, Apart
    <2>2. faults' \in Nat /\ faults <= faults'
      BY <1>4, <1>5
    <2> QED
      BY <1>4, <1>5, <2>1, <2>2, LiveKept
  <1> QED
    BY <1>1, <1>6, <1>7, <1>10, <1>11, <1>12 DEF FleetInv

\* On to the next node: the one before has a file that was verified.
LEMMA NextNodeFleet ==
  ASSUME FleetInv, IInv', script.stage = "probe", NextNode,
         UNCHANGED <<nodeVars, live, looked, unstopped>>
  PROVE  FleetInv'
  <1> DEFINE todo == script.todo
  <1>1. /\ IInv /\ script.stage \in Working
        /\ main' = main /\ store' = store /\ disk' = disk /\ unit' = unit
        /\ faults' = faults /\ faults \in Nat /\ unstopped' = unstopped
    BY DEF FleetInv, IInv, HostInv, nodeVars, process, Working
  <1>2. /\ script'.pool = script.pool /\ script'.version = script.version
        /\ script'.todo = Tail(todo)
        /\ script'.stage = IF Len(todo) = 1 THEN "complete" ELSE "download"
        /\ ready' = IF Len(todo) = 1 THEN ready \cup {script.pool} ELSE ready
    BY <1>1 DEF NextNode, IInv, ScriptInv
  <1>3. /\ Todo' \subseteq Todo /\ Todo \subseteq Todo' \cup {Node}
        /\ Len(todo) = 1 => Todo' = {}
    <2>1. todo \in Seq(Nodes) /\ todo # <<>>
      BY <1>1 DEF IInv, ScriptInv
    <2>2. /\ Len(todo) \in Nat /\ Len(todo) >= 1 /\ Len(Tail(todo)) = Len(todo) - 1
          /\ \A i \in 1..Len(todo) - 1 : Tail(todo)[i] = todo[i + 1]
          /\ Head(todo) = todo[1]
      <3> HIDE DEF todo
      <3> QED
        BY <2>1
    <2>3. Todo = { todo[i] : i \in 1..Len(todo) } /\ Node = Head(todo)
      BY DEF Todo, Node
    <2>4. Todo' = { Tail(todo)[i] : i \in 1..Len(todo) - 1 }
      BY <1>2, <2>2 DEF Todo
    <2> HIDE DEF todo
    <2>5. Todo' \subseteq Todo
      BY <2>2, <2>3, <2>4
    <2>6. ASSUME NEW i \in 1..Len(todo), todo[i] # Head(todo)
          PROVE  todo[i] \in Todo'
      <3>1. i - 1 \in 1..Len(todo) - 1 /\ (i - 1) + 1 = i
        BY <2>2, <2>6
      <3> QED
        BY <2>2, <2>4, <3>1
    <2> QED
      BY <2>2, <2>3, <2>4, <2>5, <2>6
  <1> HIDE DEF todo
  <1>4. /\ script.pool \in DOMAIN Pools /\ script.pool \notin ready
        /\ \A n \in InPool(script.pool) : n \notin Todo' => Verified(n) /\ Restarted(n)
    BY <1>1, <1>3, OwnNodes DEF Verified, Restarted
  <1>5. \A n \in InPool(script.pool) : n \notin Todo' => disk[n][unit[n]] = "good"
    BY <1>1, <1>4 DEF FleetInv, FileInv
  <1>6. ASSUME NEW n \in Nodes, Renewed(n)'
        PROVE  Renewed(n)
    <2>1. CASE \E p \in ready : n \in InPool(p)
      BY <2>1 DEF Renewed
    <2>2. CASE n \in InPool(script.pool) /\ n \notin Todo'
      BY <1>1, <1>4, <2>2 DEF Renewed
    <2>3. script'.stage \in Working /\ Restarted(n)' => n \notin Todo'
      BY <1>2 DEF Restarted, Working
    <2>4. \A p \in ready' : p \in ready \/ (p = script.pool /\ Todo' = {})
      BY <1>2, <1>3
    <2> QED
      BY <1>2, <1>6, <2>1, <2>2, <2>3, <2>4 DEF Renewed, InPool
  <1>7. WorkInv'
    <2>1. script'.stage \in Working => script'.pool \notin ready' /\ Todo' \subseteq InPool(script.pool)
      BY <1>1, <1>2, <1>3, <1>4 DEF FleetInv, WorkInv, Working
    <2>2. \A n \in InPool(script.pool) : unit[n] = script.version
      BY <1>1 DEF FleetInv, WorkInv
    <2> QED
      BY <1>1, <1>2, <2>1, <2>2 DEF FleetInv, WorkInv, InPool
  <1>8. FileInv'
    <2>1. \A p \in ready' : \A n \in InPool(p) : disk[n][unit[n]] = "good"
      BY <1>2, <1>3, <1>5 DEF FleetInv, FileInv
    <2>2. script'.stage \in Working => \A n : Verified(n)' => n \notin Todo'
      BY <1>2 DEF Verified, Working
    <2> QED
      BY <1>1, <1>2, <1>5, <2>1, <2>2 DEF FileInv, InPool
  <1>9. (ContentInv /\ VersionInv)'
    <2>1. faults' = 0 => \A n \in Nodes : \A v \in Versions : disk'[n][v] # "bad"
      BY <1>1 DEF FleetInv, ContentInv
    <2> QED
      BY <1>1, <1>6, <2>1, StoresKept
  <1>10. DownInv'
    BY <1>1, LiveKept
  <1> QED
    BY <1>7, <1>8, <1>9, <1>10 DEF FleetInv

LEMMA ProbeFleet ==
  ASSUME FleetInv, ProbeOk \/ ProbeFails
  PROVE  FleetInv'
  <1>1. IInv' /\ IInv /\ script.stage = "probe"
    BY ScriptStepInv DEF FleetInv, ScriptStep, ProbeOk, ProbeFails, At
  <1>2. CASE NextNode /\ UNCHANGED <<nodeVars, balancer, unstopped>>
    BY <1>1, <1>2, NextNodeFleet DEF balancer
  <1>3. CASE /\ script' = [script EXCEPT !.tries = @ + 1]
             /\ UNCHANGED <<ready, nodeVars, balancer, unstopped>>
    <2>1. /\ script'.stage = script.stage /\ script'.todo = script.todo
          /\ script'.pool = script.pool /\ script'.version = script.version
      BY <1>1, <1>3 DEF IInv, ScriptInv
    <2> QED
      BY <1>1, <1>3, <2>1, StageKept DEF nodeVars, process, balancer
  <1> QED
    BY <1>2, <1>3 DEF ProbeOk, ProbeFails

\* A cutover goes to a pool that is ready, and looked says whether all of it serves.
LEMMA CutoverFleet ==
  ASSUME FleetInv, IInv', NEW pool \in DOMAIN Pools, Cutover(pool)
  PROVE  FleetInv'
  <1>1. /\ main' = main /\ store' = store /\ disk' = disk /\ unit' = unit /\ faults' = faults
        /\ script' = script /\ ready' = ready /\ live' = pool /\ pool \in ready
        /\ looked' => \A n \in InPool(pool) : Serves(n)
        /\ faults \in Nat /\ unstopped' = unstopped
    BY DEF Cutover, nodeVars, process, operator, FleetInv, IInv, HostInv
  <1>2. Todo' = Todo /\ Node' = Node
    BY <1>1 DEF Todo, Node
  <1>3. /\ \A n : Verified(n)' <=> Verified(n)
        /\ \A n : Renewed(n)' <=> Renewed(n)
    BY <1>1, <1>2 DEF Verified, Renewed, Restarted, InPool
  <1>4. WorkInv' /\ FileInv'
    BY <1>1, <1>2, <1>3 DEF FleetInv, WorkInv, FileInv, InPool
  <1>5. (ContentInv /\ VersionInv)'
    <2>1. faults' = 0 => \A n \in Nodes : \A v \in Versions : disk'[n][v] # "bad"
      BY <1>1 DEF FleetInv, ContentInv
    <2> QED
      BY <1>1, <1>3, <2>1, StoresKept
  <1>6. DownInv'
    <2>1. looked' => Down' = {}
      BY <1>1 DEF Down, InPool, Serves
    <2>2. Cardinality({}) = 0
      BY FS_EmptySet
    <2> QED
      BY <1>1, <2>1, <2>2 DEF DownInv
  <1> QED
    BY <1>4, <1>5, <1>6 DEF FleetInv

-------------------------------------------------------------------------------

LEMMA InitFleet == Init => FleetInv
  <1> SUFFICES ASSUME Init PROVE FleetInv
    OBVIOUS
  <1>1. PICK v \in Versions :
    /\ main = [n \in Nodes |-> "serve"]
    /\ store = [n \in Nodes |-> [version |-> v, content |-> "good"]]
    /\ disk = [n \in Nodes |-> [w \in Versions |-> IF w = v THEN "good" ELSE "absent"]]
    /\ unit = [n \in Nodes |-> v]
    /\ faults = 0
    /\ script = [stage |-> "none", pool |-> "blue", version |-> v, todo |-> <<>>, tries |-> 0]
    /\ ready = DOMAIN Pools
    /\ live = "blue"
    /\ unstopped = {} /\ looked = TRUE
    BY DEF Init
  <1>2. IInv /\ live \in DOMAIN Pools /\ script.stage \notin Working
    BY <1>1, InitInv, DeploymentAssumption DEF Working
  <1>3. \A pool \in DOMAIN Pools : InPool(pool) \subseteq Nodes
    BY PoolNodes
  <1>4. WorkInv
    BY <1>1, <1>2, <1>3 DEF WorkInv
  <1>5. FileInv
    BY <1>1, <1>2, <1>3 DEF FileInv
  <1>6. ContentInv
    BY <1>1, <1>2, <1>3 DEF ContentInv, GoodStore
  <1>7. VersionInv
    BY <1>1, <1>2, <1>3 DEF VersionInv
  <1>8. DownInv
    <2>1. Down = {}
      BY <1>1, <1>2, <1>3 DEF Down
    <2>2. Cardinality({}) = 0
      BY FS_EmptySet
    <2> QED
      BY <1>1, <2>1, <2>2 DEF DownInv
  <1> QED
    BY <1>2, <1>4, <1>5, <1>6, <1>7, <1>8 DEF FleetInv

LEMMA NextFleet == FleetInv /\ [Next]_vars => FleetInv'
  <1> SUFFICES ASSUME FleetInv, [Next]_vars PROVE FleetInv'
    OBVIOUS
  <1>1. IInv /\ IInv' /\ faults \in Nat
    BY NextInv DEF FleetInv, IInv, HostInv
  <1>2. CASE UNCHANGED vars
    BY <1>1, <1>2, StageKept DEF vars, nodeVars, process, operator, balancer
  <1>3. ASSUME NEW n \in Nodes, Launch(n) \/ Progress(n) \/ Failure(n), Beside
        PROVE  FleetInv'
    BY <1>3, NodeFleet
  <1>4. ASSUME NEW n \in Nodes, HealthCheck(n) PROVE FleetInv'
    BY <1>1, <1>4, StageKept DEF HealthCheck, nodeVars, process, operator
  <1>5. ASSUME NEW pool \in DOMAIN Pools, NEW v \in Versions, Deploy(pool, v) PROVE FleetInv'
    BY <1>5, DeployFleet
  <1>6. ASSUME NEW pool \in DOMAIN Pools, Cutover(pool) PROVE FleetInv'
    BY <1>1, <1>6, CutoverFleet
  <1>7. CASE ScriptStep
    BY <1>7, DownloadFleet, FetchFleet, VerifyFleet, WarmupFleet, StopFleet, StartFleet,
       ProbeFleet DEF ScriptStep
  <1> QED
    BY <1>2, <1>3, <1>4, <1>5, <1>6, <1>7, AbortFleet DEF Next

\* In every reachable state of the deployment (deploy-snapshot.sh, cutover.sh) the
\* files, the open stores and the nodes that are down are as the invariant says,
\* for any pools, versions, deployments, cutovers and faults.
THEOREM FleetInductive == Spec => []FleetInv
  BY InitFleet, NextFleet, PTL DEF Spec

\* The script has made sure of the nodes of the live pool.
LEMMA LiveRenewed ==
  ASSUME FleetInv, NEW n \in InPool(live), Serves(n)
  PROVE  n \in Nodes /\ Renewed(n) /\ store[n] # None
  <1>1. live \in ready /\ live \in DOMAIN Pools
    BY DEF FleetInv, WorkInv, IInv, BalancerInv
  <1> QED
    BY <1>1, PoolNodes DEF Renewed, Serves, FleetInv, IInv, StartedInv

\* No downtime: through any number of deployments (deploy-snapshot.sh), aborted
\* ones and rollbacks a node of the live pool serves as long as fewer faults have
\* occurred than the pool has nodes, if all of these served at the cutover, which
\* cutover.sh does not look at.
THEOREM AlwaysServes == Spec => []LiveServes
  <1>1. FleetInv => LiveServes
    <2> SUFFICES ASSUME FleetInv, looked, faults < Cardinality(InPool(live)),
                        \A n \in InPool(live) : ~Serves(n)
                 PROVE  FALSE
      BY DEF LiveServes
    <2>1. Down = InPool(live)
      BY DEF Down, Serves
    <2>2. Cardinality(Down) <= faults /\ Cardinality(Down) \in Nat /\ faults \in Nat
      BY DownFinite DEF FleetInv, DownInv
    <2> QED
      BY <2>1, <2>2
  <1> QED
    BY <1>1, FleetInductive, PTL

\* What the live pool serves was verified: no number of damaged downloads, stale
\* checksum files (deploy-snapshot.sh), crashes and restarts at any moment brings a
\* damaged snapshot to it, whether or not the operator waits; with a stop whose
\* failure the script hides it takes two faults.
THEOREM DataVerified == Spec => []LiveDataIsVerified
  <1>1. FleetInv => LiveDataIsVerified
    <2> SUFFICES ASSUME FleetInv, NEW n \in InPool(live), Serves(n),
                        n \notin unstopped \/ faults < 2
                 PROVE  store[n].content = "good"
      BY DEF LiveDataIsVerified
    <2>1. n \in Nodes /\ Renewed(n) /\ store[n] # None
      BY LiveRenewed
    <2> QED
      BY <2>1 DEF FleetInv, ContentInv, GoodStore
  <1> QED
    BY <1>1, FleetInductive, PTL

\* A node of the live pool that serves has the version open that was last deployed
\* to the pool (deploy-snapshot.sh), whatever number of faults, restarts, aborted
\* deployments and cutovers that wait for nothing, unless its process outlived a
\* stop that failed.
THEOREM DeployedServed == Spec => []LiveIsDeployed
  <1>1. FleetInv => LiveIsDeployed
    <2> SUFFICES ASSUME FleetInv, NEW n \in InPool(live), n \notin unstopped, Serves(n)
                 PROVE  store[n].version = unit[n]
      BY DEF LiveIsDeployed
    <2>1. n \in Nodes /\ Renewed(n) /\ store[n] # None
      BY LiveRenewed
    <2> QED
      BY <2>1 DEF FleetInv, VersionInv
  <1> QED
    BY <1>1, FleetInductive, PTL

===============================================================================
