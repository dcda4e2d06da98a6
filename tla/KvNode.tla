-------------------------------- MODULE KvNode --------------------------------
(***************************************************************************)
(* kv-server's main and run_metrics_server (main.rs) on each node: the     *)
(* snapshot is opened and preloaded, the metrics listener is spawned in    *)
(* the background, the gRPC listener is bound and served. The two          *)
(* listeners come up and go down independently of each other.              *)
(*                                                                         *)
(* What a file holds is "absent", "good" (what was built) or "bad"         *)
(* (anything else), and systemd runs the server: both are external.        *)
(***************************************************************************)
EXTENDS Integers, Sequences, FiniteSets

CONSTANTS
  Nodes,
  Versions,    \* of snapshots
  None,        \* no snapshot
  MaxFaults    \* bound: crashes and failing calls

ASSUME NodeAssumption ==
  /\ None \notin Versions
  /\ None \notin [version : Versions, content : {"good", "bad"}]
  /\ MaxFaults \in Nat

VARIABLES
  main,       \* node -> where main is, "stopped" when there is no process
  store,      \* node -> the snapshot it has opened, or None
  listener,   \* node -> the metrics listener
  disk,       \* node -> version -> what /data/snapshots/<version> holds
  unit,       \* node -> the version that the systemd unit names
  active,     \* node -> systemd is to keep the service running
  faults      \* crashes and failing calls so far

process == <<main, store, listener>>
nodeVars == <<process, disk, unit, active, faults>>

Fault == faults < MaxFaults /\ faults' = faults + 1

\* main returns or dies; its runtime and with it the metrics listener go down.
Exit(n) ==
  /\ main' = [main EXCEPT ![n] = "stopped"]
  /\ store' = [store EXCEPT ![n] = None]
  /\ listener' = [listener EXCEPT ![n] = "off"]

\* External: systemd starts the process, or starts it again after it has died.
Launch(n) ==
  /\ active[n]
  /\ main[n] = "stopped"
  /\ main' = [main EXCEPT ![n] = "open"]
  /\ UNCHANGED <<store, listener, disk, unit, active, faults>>

\* Seeded fault: main goes on when the snapshot cannot be opened.
Open_lenient(n) ==
  LET content == disk[n][unit[n]]
  IN  /\ main[n] = "open"
      /\ store' = [store EXCEPT ![n] =
           IF content = "absent" THEN None ELSE [version |-> unit[n], content |-> content]]
      /\ main' = [main EXCEPT ![n] = "preload"]
      /\ UNCHANGED <<listener, disk, unit, active, faults>>

\* KvStore::open on the path of the unit, returned with ? when it fails. A file
\* that is not what was built is refused or not: no checksum is looked at.
Open(n) ==
  LET content == disk[n][unit[n]]
  IN  /\ main[n] = "open"
      /\ \/ /\ content # "absent"
            /\ store' = [store EXCEPT ![n] = [version |-> unit[n], content |-> content]]
            /\ main' = [main EXCEPT ![n] = "preload"]
            /\ UNCHANGED listener
         \/ content # "good" /\ Exit(n)
      /\ UNCHANGED <<disk, unit, active, faults>>

\* store.preload(): --preload is a flag whose default is set.
Preload(n) ==
  /\ main[n] = "preload"
  /\ main' = [main EXCEPT ![n] = "spawn"]
  /\ UNCHANGED <<store, listener, disk, unit, active, faults>>

\* Seeded fault: the metrics server is awaited in the place of being spawned.
SpawnMetrics_awaited(n) ==
  /\ main[n] = "spawn"
  /\ listener' = [listener EXCEPT ![n] = IF @ = "off" THEN "spawned" ELSE @]
  /\ main' = [main EXCEPT ![n] = IF listener[n] = "ended" THEN "bind" ELSE @]
  /\ UNCHANGED <<store, disk, unit, active, faults>>

\* tokio::spawn(run_metrics_server).
SpawnMetrics(n) ==
  /\ main[n] = "spawn"
  /\ listener' = [listener EXCEPT ![n] = "spawned"]
  /\ main' = [main EXCEPT ![n] = "bind"]
  /\ UNCHANGED <<store, disk, unit, active, faults>>

\* TcpListener::bind in that task.
BindMetrics(n) ==
  /\ listener[n] = "spawned"
  /\ listener' = [listener EXCEPT ![n] = "up"]
  /\ UNCHANGED <<main, store, disk, unit, active, faults>>

\* A failing bind or accept ends the task for good; main only logs a warning.
MetricsError(n) ==
  /\ listener[n] \in {"spawned", "up"}
  /\ Fault
  /\ listener' = [listener EXCEPT ![n] = "ended"]
  /\ UNCHANGED <<main, store, disk, unit, active>>

\* serve binds the gRPC listener and answers calls.
BindGrpc(n) ==
  /\ main[n] = "bind"
  /\ main' = [main EXCEPT ![n] = "serve"]
  /\ UNCHANGED <<store, listener, disk, unit, active, faults>>

\* Seeded fault: an error of the gRPC server is logged and main lives on.
GrpcError_logged(n) ==
  /\ main[n] \in {"bind", "serve"}
  /\ Fault
  /\ main' = [main EXCEPT ![n] = "hung"]
  /\ UNCHANGED <<store, listener, disk, unit, active>>

\* "gRPC server error" is returned from main.
GrpcError(n) ==
  /\ main[n] \in {"bind", "serve"}
  /\ Fault
  /\ Exit(n)
  /\ UNCHANGED <<disk, unit, active>>

\* External: the process is killed.
Crash(n) ==
  /\ main[n] # "stopped"
  /\ Fault
  /\ Exit(n)
  /\ UNCHANGED <<disk, unit, active>>

-------------------------------------------------------------------------------

\* What the program does of its own accord.
Progress(n) ==
  \/ Open(n)
  \/ Preload(n)
  \/ SpawnMetrics(n)
  \/ BindMetrics(n)
  \/ BindGrpc(n)

Failure(n) == MetricsError(n) \/ GrpcError(n) \/ Crash(n)

\* GET /health answers 200 as long as the metrics listener accepts.
Healthy(n) == listener[n] = "up"

\* gRPC calls are answered, from the snapshot in store.
Serves(n) == main[n] = "serve"

===============================================================================
