---------------------------- MODULE MCAgentFoundry ----------------------------
(* AgentFoundry for TLC: what is submitted, and the symmetry.              *)
EXTENDS AgentFoundry, TLC

Sound(action, cost) ==
  [action |-> action, tier |-> 1, proven |-> TRUE, cost |-> cost]

(* Each of the actions with side effects, and one without.                 *)
OfEachAction == { Sound("create_agent", 0), Sound("deploy_staging", 0),
                  Sound("spend_budget", 1), Sound("analysis", 0) }
Payments     == { Sound("spend_budget", 1) }
Deployments  == { Sound("deploy_staging", 0) }

SamePackagesAndGrants == Permutations(Packages) \cup Permutations(Grants)
=============================================================================
