------------------------------ MODULE Deployment ------------------------------
(***************************************************************************)
(* Blue/green deployment: deploy-snapshot.sh, run by an operator on one    *)
(* pool of nodes, cutover.sh, and the environment they work in: systemd,   *)
(* S3 and the network load balancer (nlb.tf), which sends calls to the     *)
(* nodes of the live pool whose metrics port accepts connections.          *)
(***************************************************************************)
EXTENDS KvNode

CONSTANTS
  Pools,          \* pool -> the sequence of its instances
  MaxTries,       \* the 30 tries of the health loop
  MaxDeploys      \* bound: deployments

ASSUME DeploymentAssumption ==
  /\ MaxTries \in Nat \ {0}
  /\ MaxDeploys \in Nat
  /\ DOMAIN Pools = {"blue", "green"}
  /\ \A pool \in DOMAIN Pools : Pools[pool] \in Seq(Nodes) /\ Len(Pools[pool]) > 0
  /\ \A i \in 1..Len(Pools["blue"]), j \in 1..Len(Pools["green"]) :
       Pools["blue"][i] # Pools["green"][j]

VARIABLES
  script,     \* deploy-snapshot.sh: where it is, its arguments, the nodes left
  checksum,   \* node -> the version that /tmp/checksum.sha256 is for, or None
  ready,      \* the pools on which no deployment failed or is under way
  deploys,    \* deployments so far
  live,       \* the pool the listener forwards to
  target,     \* node -> the load balancer takes it for healthy
  unstopped,  \* history: the nodes whose process outlived a stop that failed
  looked      \* history: the live pool's nodes all served when traffic was moved
              \* to it

balancer == <<live, target, looked>>
operator == <<script, checksum, ready, deploys>>
vars == <<nodeVars, operator, balancer, unstopped>>

InPool(pool) == { Pools[pool][i] : i \in 1..Len(Pools[pool]) }

\* All nodes serve one version, which the script has brought them; the listener
\* forwards to blue (nlb.tf).
Init ==
  \E v \in Versions :
    /\ main = [n \in Nodes |-> "serve"]
    /\ store = [n \in Nodes |-> [version |-> v, content |-> "good"]]
    /\ listener = [n \in Nodes |-> "up"]
    /\ disk = [n \in Nodes |-> [w \in Versions |-> IF w = v THEN "good" ELSE "absent"]]
    /\ unit = [n \in Nodes |-> v]
    /\ active = [n \in Nodes |-> TRUE]
    /\ faults = 0
    /\ script = [stage |-> "none", pool |-> "blue", version |-> v, todo |-> <<>>, tries |-> 0]
    /\ checksum = [n \in Nodes |-> v]
    /\ ready = DOMAIN Pools
    /\ deploys = 0
    /\ live = "blue"
    /\ target = [n \in Nodes |-> TRUE]
    /\ unstopped = {}
    /\ looked = TRUE

-------------------------------------------------------------------------------
(* deploy-snapshot.sh *)

Node == Head(script.todo)

At(stage) == script.stage = stage

Goto(stage) == script' = [script EXCEPT !.stage = stage]

\* Seeded fault: the script takes the instances of the other pool.
Deploy_swapped(pool, v) ==
  /\ script.stage \in {"none", "complete", "aborted"}
  /\ pool # live
  /\ deploys < MaxDeploys
  /\ deploys' = deploys + 1
  /\ script' = [stage |-> "download", pool |-> pool, version |-> v,
                todo |-> Pools[live], tries |-> 0]
  /\ unit' = [n \in Nodes |-> IF n \in InPool(pool) THEN v ELSE unit[n]]
  /\ ready' = ready \ {pool}
  /\ UNCHANGED <<process, disk, active, faults, checksum, balancer, unstopped>>

\* External: an operator lets the units of the standby pool name the version,
\* which the script itself does not, and runs the script.
Deploy(pool, v) ==
  /\ script.stage \in {"none", "complete", "aborted"}
  /\ pool # live
  /\ deploys < MaxDeploys
  /\ deploys' = deploys + 1
  /\ script' = [stage |-> "download", pool |-> pool, version |-> v,
                todo |-> Pools[pool], tries |-> 0]
  /\ unit' = [n \in Nodes |-> IF n \in InPool(pool) THEN v ELSE unit[n]]
  /\ ready' = ready \ {pool}
  /\ UNCHANGED <<process, disk, active, faults, checksum, balancer, unstopped>>

\* aws s3 cp of the snapshot. What arrives may be damaged.
Download ==
  /\ At("download")
  /\ \E content \in {"good", "bad"} :
       /\ disk' = [disk EXCEPT ![Node][script.version] = content]
       /\ IF content = "bad" THEN Fault ELSE UNCHANGED faults
  /\ Goto("fetch")
  /\ UNCHANGED <<process, unit, active, checksum, ready, deploys, balancer, unstopped>>

\* aws s3 cp of the checksum: the remote shell goes on when that fails, and
\* looks at the file of an earlier deployment.
FetchChecksum ==
  /\ At("fetch")
  /\ \/ checksum' = [checksum EXCEPT ![Node] = script.version] /\ UNCHANGED faults
     \/ Fault /\ UNCHANGED checksum
  /\ Goto("verify")
  /\ UNCHANGED <<process, disk, unit, active, ready, deploys, balancer, unstopped>>

\* Seeded fault: the file of another snapshot's digest is taken for this one's.
Matches_any == checksum[Node] # None

\* sha256sum -c: what it finds ends the script or lets it go on.
Matches == checksum[Node] = script.version /\ disk[Node][script.version] = "good"

VerifyChecksum ==
  /\ At("verify")
  /\ Goto(IF Matches THEN "warmup" ELSE "aborted")
  /\ UNCHANGED <<nodeVars, checksum, ready, deploys, balancer, unstopped>>

\* vmtouch or cat; nothing but the page cache changes.
Warmup ==
  /\ At("warmup")
  /\ Goto("stop")
  /\ UNCHANGED <<nodeVars, checksum, ready, deploys, balancer, unstopped>>

\* Seeded fault: the restart is a start only, which does nothing to a server that
\* runs.
Stop_left_out ==
  /\ At("stop")
  /\ Goto("start")
  /\ UNCHANGED <<nodeVars, checksum, ready, deploys, balancer, unstopped>>

\* systemctl stop kv-server || true: a stop that fails goes unnoticed.
Stop ==
  /\ At("stop")
  /\ Goto("start")
  /\ \/ /\ Exit(Node)
        /\ active' = [active EXCEPT ![Node] = FALSE]
        /\ unstopped' = unstopped \ {Node}
        /\ UNCHANGED faults
     \/ /\ Fault
        /\ unstopped' = unstopped \cup { n \in {Node} : main[n] # "stopped" }
        /\ UNCHANGED <<process, active>>
  /\ UNCHANGED <<disk, unit, checksum, ready, deploys, balancer>>

\* systemctl start kv-server: nothing happens to a service that runs.
Start ==
  /\ At("start")
  /\ script' = [script EXCEPT !.stage = "probe", !.tries = 0]
  /\ active' = [active EXCEPT ![Node] = TRUE]
  /\ UNCHANGED <<process, disk, unit, faults, checksum, ready, deploys, balancer, unstopped>>

\* Seeded fault: the loop ends with the first node that is healthy.
NextNode_first ==
  /\ script' = [script EXCEPT !.todo = <<>>, !.stage = "complete"]
  /\ ready' = ready \cup {script.pool}

\* On to the next node, or "Deployment complete!".
NextNode ==
  /\ script' = [script EXCEPT !.todo = Tail(@),
                  !.stage = IF Len(script.todo) = 1 THEN "complete" ELSE "download"]
  /\ ready' = IF Len(script.todo) = 1 THEN ready \cup {script.pool} ELSE ready

\* curl of /health succeeds: "Node is healthy!"
ProbeOk ==
  /\ At("probe")
  /\ Healthy(Node)
  /\ NextNode
  /\ UNCHANGED <<nodeVars, checksum, deploys, balancer, unstopped>>

\* Seeded fault: the loop has no last try.
ProbeFails_forever ==
  /\ At("probe")
  /\ ~Healthy(Node)
  /\ UNCHANGED vars

\* curl fails. After the last try the script goes on as after a success.
ProbeFails ==
  /\ At("probe")
  /\ ~Healthy(Node)
  /\ IF script.tries + 1 < MaxTries
       THEN script' = [script EXCEPT !.tries = @ + 1] /\ UNCHANGED ready
       ELSE NextNode
  /\ UNCHANGED <<nodeVars, checksum, deploys, balancer, unstopped>>

\* set -e: a remote command that fails ends the script where it is.
Abort ==
  /\ script.stage \in {"download", "verify", "warmup", "stop", "start"}
  /\ Fault
  /\ Goto("aborted")
  /\ UNCHANGED <<process, disk, unit, active, checksum, ready, deploys, balancer, unstopped>>

ScriptStep ==
  \/ Download
  \/ FetchChecksum
  \/ VerifyChecksum
  \/ Warmup
  \/ Stop
  \/ Start
  \/ ProbeOk
  \/ ProbeFails

-------------------------------------------------------------------------------
(* cutover.sh and the load balancer *)

\* modify-listener. The script asks for nothing; its operator uses it on a pool
\* that no deployment has left unfinished, also to roll back.
Cutover(pool) ==
  /\ pool # live
  /\ pool \in ready
  /\ live' = pool
  /\ looked' = (\A n \in InPool(pool) : Serves(n))
  /\ UNCHANGED <<nodeVars, operator, target, unstopped>>

\* Seeded fault: a target that was taken out is never looked at again.
HealthCheck_drain(n) ==
  /\ target[n] /\ ~Healthy(n)
  /\ target' = [target EXCEPT ![n] = FALSE]
  /\ UNCHANGED <<nodeVars, operator, live, looked, unstopped>>

\* External: the load balancer's health check, a TCP connection to port 9091.
HealthCheck(n) ==
  /\ target[n] # Healthy(n)
  /\ target' = [target EXCEPT ![n] = Healthy(n)]
  /\ UNCHANGED <<nodeVars, operator, live, looked, unstopped>>

\* External: the targets calls go to. It fails open: all, if none is healthy.
Routed ==
  LET up == { n \in InPool(live) : target[n] }
  IN  IF up = {} THEN InPool(live) ELSE up

-------------------------------------------------------------------------------

\* What a node does leaves the others alone; history forgets a process that ends.
Beside ==
  /\ unstopped' = { n \in unstopped : main'[n] # "stopped" }
  /\ UNCHANGED <<operator, balancer>>

Next ==
  \/ \E n \in Nodes :
       \/ (Launch(n) \/ Progress(n) \/ Failure(n)) /\ Beside
       \/ HealthCheck(n)
  \/ \E pool \in DOMAIN Pools :
       \/ \E v \in Versions : Deploy(pool, v)
       \/ Cutover(pool)
  \/ ScriptStep
  \/ Abort

Spec == Init /\ [][Next]_vars

\* The processes, systemd's restarts and the health checks go on; so does the
\* script, whose commands return. Nothing makes an operator act, or a fault occur.
Fairness ==
  /\ \A n \in Nodes :
       /\ WF_vars((Launch(n) \/ Open(n) \/ Preload(n) \/ SpawnMetrics(n) \/ BindGrpc(n))
                  /\ Beside)
       /\ WF_vars(BindMetrics(n) /\ Beside)
       /\ WF_vars(HealthCheck(n))
  /\ WF_vars(ScriptStep)

FairSpec == Spec /\ Fairness

-------------------------------------------------------------------------------
(* Properties *)

\* The state of the nodes, the script and the load balancer is well formed.
TypeOK ==
  /\ main \in [Nodes -> {"stopped", "open", "preload", "spawn", "bind", "serve"}]
  /\ store \in [Nodes -> {None} \cup [version : Versions, content : {"good", "bad"}]]
  /\ listener \in [Nodes -> {"off", "spawned", "up", "ended"}]
  /\ disk \in [Nodes -> [Versions -> {"absent", "good", "bad"}]]
  /\ unit \in [Nodes -> Versions]
  /\ active \in [Nodes -> BOOLEAN]
  /\ faults \in 0..MaxFaults
  /\ script.stage \in {"none", "download", "fetch", "verify", "warmup", "stop", "start",
                       "probe", "complete", "aborted"}
  /\ script.todo \in Seq(Nodes)
  /\ script.tries \in 0..MaxTries - 1
  /\ checksum \in [Nodes -> Versions \cup {None}]
  /\ live \in DOMAIN Pools
  /\ ready \subseteq DOMAIN Pools
  /\ target \in [Nodes -> BOOLEAN]
  /\ unstopped \subseteq Nodes
  /\ looked \in BOOLEAN

\* Nothing answers for a node that has no snapshot in memory: neither /health nor
\* a call, in any start, after any crash, whatever the listeners come up in.
ReachableIsLoaded ==
  \A n \in Nodes : Healthy(n) \/ Serves(n) => store[n] # None

\* No downtime, with N+1 nodes: while a pool is deployed to, or its deployment is
\* aborted, and traffic is moved over and back, a node of the live pool serves
\* calls, if fewer faults occur than it has nodes, and traffic was not moved to it
\* while one of them did not serve, which cutover.sh does not look at.
LiveServes ==
  looked /\ faults < Cardinality(InPool(live)) => \E n \in InPool(live) : Serves(n)

\* What clients are served was verified: any number of damaged downloads, stale
\* checksum files, aborted deployments, crashes and restarts by systemd, in any
\* number of deployments, bring no damaged snapshot to the live pool, whenever its
\* operator cuts over. The exception takes two faults: a server restarted onto a
\* download that nobody has verified yet, and a stop whose failure the script hides.
LiveDataIsVerified ==
  \A n \in InPool(live) :
    Serves(n) /\ (n \notin unstopped \/ faults < 2) => store[n].content = "good"

\* What a node of the live pool serves is the version that was last deployed to its
\* pool, and so the version of the pool's other nodes, though no script looks at it
\* and a cutover waits for nothing: whatever is aborted, crashes or is restarted,
\* unless the process outlived a stop that failed.
LiveIsDeployed ==
  \A n \in InPool(live) \ unstopped : Serves(n) => store[n].version = unit[n]

\* architecture.md:312: "Zero-downtime updates via AWS NLB target group
\* switching". After "Deployment complete!" the pool can take the traffic.
ZeroDowntime == \E n \in InPool(live) : Serves(n)

\* deploy-snapshot.sh ends whatever its health checks find, if the commands that
\* it runs return.
DeployEnds == At("download") ~> script.stage \in {"complete", "aborted"}

\* When faults have ceased, every node of the live pool serves, and calls go to
\* exactly those whose metrics listener is up, or to all if it is up nowhere:
\* although the load balancer looks at that listener and not at the gRPC one.
ServiceRecovers ==
  <>[](LET up == { n \in InPool(live) : Healthy(n) }
       IN  /\ \A n \in InPool(live) : Serves(n)
           /\ Routed = IF up = {} THEN InPool(live) ELSE up)

===============================================================================
