----------------------------- MODULE MCDeployment -----------------------------
(* Deployment on small pools. *)
EXTENDS DeploymentInv, TLC

CONSTANTS b1, b2, g1, g2

\* One node a pool, and a pool with a node more than is needed.
MCSinglePools == [blue |-> <<b1>>, green |-> <<g1>>]
MCPools == [blue |-> <<b1>>, green |-> <<g1, g2>>]

\* A live pool of two, for the load balancer to choose from.
MCLivePools == [blue |-> <<b1, b2>>, green |-> <<g1>>]

Symmetry == Permutations(Versions)

\* What the properties of safety depend on: nothing looks at target but HealthCheck
\* and Routed.
SafetyView == <<nodeVars, operator, live, looked, unstopped>>

===============================================================================
