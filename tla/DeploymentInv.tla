----------------------------- MODULE DeploymentInv -----------------------------
(***************************************************************************)
(* The inductive invariants of Deployment: the types and what main has     *)
(* done (IInv), and, for what the live pool serves (FleetInv), which files *)
(* and stores the script has made sure of, and how many nodes are down.    *)
(***************************************************************************)
EXTENDS Deployment

Mains == {"stopped", "open", "preload", "spawn", "bind", "serve"}

Loaded == [version : Versions, content : {"good", "bad"}]

Working == {"download", "fetch", "verify", "warmup", "stop", "start", "probe"}

ProcessInv ==
  /\ main \in [Nodes -> Mains]
  /\ store \in [Nodes -> {None} \cup Loaded]
  /\ listener \in [Nodes -> {"off", "spawned", "up", "ended"}]

\* main has a snapshot open exactly when it has gone on, and a listener is up only
\* while it is.
StartedInv ==
  \A n \in Nodes :
    /\ main[n] \in {"stopped", "open"} <=> store[n] = None
    /\ listener[n] # "off" => main[n] \in {"bind", "serve"}

HostInv ==
  /\ disk \in [Nodes -> [Versions -> {"absent", "good", "bad"}]]
  /\ unit \in [Nodes -> Versions]
  /\ active \in [Nodes -> BOOLEAN]
  /\ faults \in 0..MaxFaults

\* The script works on a node as long as it is not at its end.
ScriptInv ==
  /\ script \in [stage : Working \cup {"none", "complete", "aborted"}, pool : DOMAIN Pools,
                 version : Versions, todo : Seq(Nodes), tries : 0..MaxTries - 1]
  /\ script.stage \in Working => script.todo # <<>>
  /\ checksum \in [Nodes -> Versions \cup {None}]
  /\ ready \subseteq DOMAIN Pools

BalancerInv ==
  /\ live \in DOMAIN Pools
  /\ target \in [Nodes -> BOOLEAN]
  /\ unstopped \subseteq Nodes
  /\ looked \in BOOLEAN

IInv == ProcessInv /\ StartedInv /\ HostInv /\ ScriptInv /\ BalancerInv

-------------------------------------------------------------------------------

\* The nodes the script has not finished with.
Todo == { script.todo[i] : i \in 1..Len(script.todo) }

\* The script works on a pool that nobody may cut over to, whose units all name
\* its version; the units of a pool name one version anyway.
WorkInv ==
  /\ live \in ready
  /\ script.stage \in Working =>
       /\ script.pool \notin ready
       /\ Todo \subseteq InPool(script.pool)
       /\ \A n \in InPool(script.pool) : unit[n] = script.version
  /\ \A pool \in DOMAIN Pools : \A m, n \in InPool(pool) : unit[m] = unit[n]

\* The script has compared the node's file with the checksum.
Verified(n) ==
  n \notin Todo \/ (n = Node /\ script.stage \in {"warmup", "stop", "start", "probe"})

\* A restart opens a good file, in the pools one may cut over to and on the nodes
\* that the script has verified.
FileInv ==
  /\ \A pool \in ready : \A n \in InPool(pool) : disk[n][unit[n]] = "good"
  /\ script.stage \in Working =>
       \A n \in InPool(script.pool) : Verified(n) => disk[n][unit[n]] = "good"

GoodStore(n) == store[n] # None => store[n].content = "good"

\* The script has stopped the node, or believes so.
Restarted(n) ==
  n \notin Todo \/ (n = Node /\ script.stage \in {"start", "probe"})

\* The script has made sure that what the node has open is of a file it verified:
\* in the pools one may cut over to, and on the nodes it has stopped.
Renewed(n) ==
  \/ \E pool \in ready : n \in InPool(pool)
  \/ script.stage \in Working /\ n \in InPool(script.pool) /\ Restarted(n)

\* Nothing is damaged without a fault. What was opened of a damaged file goes with
\* the process that the script stops before the pool can be live; a process that
\* outlives its stop has a damaged file open only after a second fault.
ContentInv ==
  /\ faults = 0 => \A n \in Nodes : GoodStore(n) /\ \A v \in Versions : disk[n][v] # "bad"
  /\ \A n \in Nodes : Renewed(n) /\ (n \notin unstopped \/ faults < 2) => GoodStore(n)

\* What the nodes the script has made sure of have open is what their units name,
\* unless their process outlived its stop.
VersionInv ==
  \A n \in Nodes \ unstopped :
    Renewed(n) /\ store[n] # None => store[n].version = unit[n]

\* Each node of the live pool that went down since it served, when traffic was moved
\* to the pool, took a fault.
Down == { n \in InPool(live) : main[n] # "serve" }

DownInv == looked => Cardinality(Down) <= faults

FleetInv == IInv /\ WorkInv /\ FileInv /\ ContentInv /\ VersionInv /\ DownInv

===============================================================================
