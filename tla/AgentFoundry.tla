----------------------------- MODULE AgentFoundry -----------------------------
(***************************************************************************)
(* The agent foundry (core/agent-foundry/foundry.js) over the governance   *)
(* kernel: executeAction spends a grant on a side effect -- a new agent, a *)
(* deployment, a payment -- in the order claim a run, do it, consume the   *)
(* grant, close the run, each in a transaction of its own.                 *)
(*                                                                         *)
(* It runs in the kernel's process and never awaits, so no other request   *)
(* comes in between; but the clock runs on (a payment may take the         *)
(* provider 30 seconds), the process may end at any step, and the          *)
(* surroundings may fail as Faults says.                                   *)
(*                                                                         *)
(* Abstracted: names, artifact hashes and files of a release (a row stands *)
(* for its release), agents' lineage depth, and every reason to refuse an  *)
(* action before its side effect, which is a choice.  The payment provider *)
(* is the configured command, whose answer carries no rollback.            *)
(***************************************************************************)
EXTENDS Governance

CONSTANTS Faults,      \* what may go wrong besides crashes
          MaxChildren, \* maxChildrenPerAgent
          MaxPayments  \* bound of the model on the payments of one grant

(* "lost_answer": the provider pays, but times out or answers garbage.     *)
(* "disk": a file or a row cannot be written or removed.                   *)
ASSUME FoundryAssumption ==
  Faults \subseteq {"lost_answer", "disk"} /\ {MaxChildren, MaxPayments} \subseteq Nat

VARIABLES run,        \* foundry_action_runs.status of the grant, or "absent"
          resources,  \* grants with an agent, deployment or receipt row
          paid,       \* how often the provider moved money for the grant
          doing       \* the action in progress

foundryVars == <<run, resources, paid, doing>>
vars        == <<governanceVars, foundryVars>>

RunStates == {"running", "succeeded", "failed", "reconciliation_required"}
Stages    == {"effect", "receipt", "consume", "settle", "undo"}
Idle      == [stage |-> "idle", grant |-> NoGrant, cost |-> 0]

Init ==
  /\ GovernanceInit
  /\ run = [g \in Grants |-> "absent"]
  /\ resources = {}
  /\ paid  = [g \in Grants |-> 0]
  /\ doing = Idle

TypeOK ==
  /\ GovernanceTypeOK
  /\ run \in [Grants -> RunStates \cup {"absent"}]
  /\ resources \subseteq Grants
  /\ paid \in [Grants -> Nat]
  /\ doing \in [ stage : Stages \cup {"idle"}, grant : Grants \cup {NoGrant},
                 cost : Nat ]

-----------------------------------------------------------------------------
Action(g) == work[grantPackage[g]].action

(* A mutant: an authorized package is taken for an active grant.           *)
Inspect_PackageOnly(u, g, cost) ==
  /\ grantStatus[g] # "absent" /\ g \notin overdue
  /\ u = worker[grantPackage[g]]
  /\ Action(g) \in SensitiveActions
  /\ cost <= MaximumCost(g)
  /\ status[grantPackage[g]] = "authorized" /\ grantOf[grantPackage[g]] = g
  /\ ControlsPermit(Action(g), cost)

(* inspect: the grant is fit for this action, by this worker, at this cost.*)
Inspect(u, g, cost) ==
  /\ grantStatus[g] = "active" /\ g \notin overdue
  /\ u = worker[grantPackage[g]]
  /\ Action(g) \in SensitiveActions
  /\ cost <= MaximumCost(g)
  /\ status[grantPackage[g]] = "authorized" /\ grantOf[grantPackage[g]] = g
  /\ ControlsPermit(Action(g), cost)

(* A mutant: an unsettled run may be claimed again.                        *)
Execute_Again(u, g, cost) ==
  /\ doing = Idle
  /\ Inspect(u, g, cost)
  /\ run[g] # "succeeded"
  /\ run'   = [run EXCEPT ![g] = "running"]
  /\ doing' = [stage |-> "effect", grant |-> g, cost |-> cost]
  /\ UNCHANGED <<resources, paid, governanceVars>>

(* inspect and _claimRun: a grant has one run row, and only a failed run   *)
(* may be claimed again.  The amount of a payment must not be zero, but is *)
(* asked so before it is rounded to cents: it may still become 0.          *)
Execute(u, g, cost) ==
  /\ doing = Idle
  /\ Inspect(u, g, cost)
  /\ run[g] \in {"absent", "failed"}
  /\ run'   = [run EXCEPT ![g] = "running"]
  /\ doing' = [stage |-> "effect", grant |-> g, cost |-> cost]
  /\ UNCHANGED <<resources, paid, governanceVars>>

At(stage) == doing.stage = stage
Goto(stage) == doing' = [doing EXCEPT !.stage = stage]

Close(outcome) ==
  /\ run'   = [run EXCEPT ![doing.grant] = outcome]
  /\ doing' = Idle

(* The executor throws before its side effect: nothing to roll back.       *)
Refuse ==
  /\ At("effect")
  /\ Close("failed")
  /\ UNCHANGED <<resources, paid, governanceVars>>

Children(u) ==
  {g \in resources : Action(g) = "create_agent" /\ worker[grantPackage[g]] = u}

(* The identity and the foundry_agents row, in one transaction.            *)
CreateAgent(g) ==
  /\ At("effect") /\ doing.grant = g /\ Action(g) = "create_agent"
  /\ g \notin resources
  /\ Cardinality(Children(worker[grantPackage[g]])) < MaxChildren
  /\ resources' = resources \cup {g}
  /\ Goto("consume")
  /\ UNCHANGED <<run, paid, governanceVars>>

Deploying(g) ==
  /\ At("effect") /\ doing.grant = g
  /\ Action(g) \in {"deploy_staging", "deploy_production"}
  /\ g \notin resources

(* The release is copied, its row inserted and current.json written.       *)
Deploy(g) ==
  /\ Deploying(g)
  /\ resources' = resources \cup {g}
  /\ Goto("consume")
  /\ UNCHANGED <<run, paid, governanceVars>>

(* current.json cannot be written: the row and its release stay, and there *)
(* is no envelope yet whose rollback the caller could run.                 *)
DeployHalfway(g) ==
  /\ Deploying(g)
  /\ "disk" \in Faults
  /\ resources' = resources \cup {g}
  /\ Close("failed")
  /\ UNCHANGED <<paid, governanceVars>>

(* The provider is called and pays; a retry may come with an idempotency   *)
(* key of its own, as input_hash is stored but never compared ...          *)
Pay(g) ==
  /\ At("effect") /\ doing.grant = g /\ Action(g) = "spend_budget"
  /\ g \notin resources /\ paid[g] < MaxPayments
  /\ paid' = [paid EXCEPT ![g] = @ + 1]
  /\ Goto("receipt")
  /\ UNCHANGED <<run, resources, governanceVars>>

(* ... and its answer is stored as a receipt ...                           *)
StoreReceipt(g) ==
  /\ At("receipt") /\ doing.grant = g
  /\ resources' = resources \cup {g}
  /\ Goto("consume")
  /\ UNCHANGED <<run, paid, governanceVars>>

(* ... or lost, or not stored, which both look like a failure without a    *)
(* side effect.                                                            *)
LoseAnswer ==
  /\ At("receipt")
  /\ Faults # {}
  /\ Close("failed")
  /\ UNCHANGED <<resources, paid, governanceVars>>

(* A mutant: the run goes on when the grant could not be consumed.         *)
ConsumeAfter_Anyway ==
  LET g == doing.grant IN
  /\ At("consume")
  /\ IF MayConsume(g, doing.cost) THEN ConsumeGrant(g, doing.cost)
                                  ELSE UNCHANGED governanceVars
  /\ Goto("settle")
  /\ UNCHANGED <<run, resources, paid>>

(* consumeGrant, which looks at everything again.                          *)
ConsumeAfter ==
  LET g == doing.grant IN
  /\ At("consume")
  /\ IF MayConsume(g, doing.cost)
       THEN ConsumeGrant(g, doing.cost) /\ Goto("settle")
       ELSE UNCHANGED governanceVars /\ Goto("undo")
  /\ UNCHANGED <<run, resources, paid>>

Settle ==
  /\ At("settle")
  /\ Close("succeeded")
  /\ UNCHANGED <<resources, paid, governanceVars>>

(* The success cannot be recorded: the same catch block undoes the effect, *)
(* though its grant is consumed by now.                                    *)
SettleFails ==
  /\ At("settle")
  /\ "disk" \in Faults
  /\ Goto("undo")
  /\ UNCHANGED <<run, resources, paid, governanceVars>>

(* A mutant: what cannot be rolled back is recorded as failed.             *)
Undo_Failed ==
  LET g == doing.grant IN
  /\ At("undo")
  /\ resources' = IF Action(g) = "spend_budget" THEN resources
                                                ELSE resources \ {g}
  /\ Close("failed")
  /\ UNCHANGED <<paid, governanceVars>>

(* A mutant: the receipt of a payment is removed with the rest.            *)
Undo_DropReceipt ==
  LET g == doing.grant IN
  /\ At("undo")
  /\ resources' = resources \ {g}
  /\ Close(IF Action(g) = "spend_budget" THEN "reconciliation_required"
                                         ELSE "failed")
  /\ UNCHANGED <<paid, governanceVars>>

(* A mutant: an action that is rolled back gives its grant back.           *)
Undo_GiveBack ==
  LET g == doing.grant IN
  /\ At("undo")
  /\ resources' = resources \ {g}
  /\ Close("failed")
  /\ grantStatus' = [grantStatus EXCEPT ![g] = "active"]
  /\ UNCHANGED <<packageVars, grantPackage, overdue, spend, thisMonth, controls, paid>>

(* The catch block: agents and deployments are rolled back unless that     *)
(* fails halfway; a payment has no rollback.                               *)
Undo ==
  LET g == doing.grant IN
  /\ At("undo")
  /\ \/ /\ Action(g) # "spend_budget"
        /\ resources' = resources \ {g}
        /\ Close("failed")
     \/ /\ Action(g) # "spend_budget" /\ "disk" \in Faults
        /\ resources' \in {resources, resources \ {g}}
        /\ Close("reconciliation_required")
     \/ /\ Action(g) = "spend_budget"
        /\ UNCHANGED resources
        /\ Close("reconciliation_required")
  /\ UNCHANGED <<paid, governanceVars>>

(* The process ends; whoever starts it again finds the run as it is.       *)
Crash ==
  /\ doing # Idle
  /\ doing' = Idle
  /\ UNCHANGED <<run, resources, paid, governanceVars>>

FoundryStep ==
  \/ \E u \in Users, g \in Grants, c \in Costs : Execute(u, g, c)
  \/ Refuse
  \/ \E g \in Grants :
       CreateAgent(g) \/ Deploy(g) \/ DeployHalfway(g) \/ Pay(g) \/ StoreReceipt(g)
  \/ LoseAnswer \/ ConsumeAfter \/ Settle \/ SettleFails \/ Undo \/ Crash

KernelStep ==
  /\ doing = Idle
  /\ \/ Review \/ Oversee
     \/ \E caller \in Users, g \in Grants, c \in Costs : Consume(caller, g, c)
  /\ UNCHANGED foundryVars

Next == FoundryStep \/ KernelStep \/ (Clock /\ UNCHANGED foundryVars)

Spec == Init /\ [][Next]_vars

-----------------------------------------------------------------------------
(* A grant of a sensitive action is consumed by the foundry only, for an   *)
(* effect that is there: its resource is stored and stays, a payment was   *)
(* made, and its run succeeded or was cut off just before it said so.      *)
ConsumedMeansDone ==
  \A g \in Grants :
    grantStatus[g] = "consumed" /\ Action(g) \in SensitiveActions =>
      /\ g \in resources
      /\ run[g] \in {"running", "succeeded"}
      /\ Action(g) = "spend_budget" => paid[g] > 0

(* Also when files and rows cannot be written and answers are lost: a run  *)
(* that succeeded has consumed its grant, and a payment the budget ledger  *)
(* knows of was made and has its receipt, whatever became of its run.      *)
LedgerMatchesReceipts ==
  \A g \in Grants :
    /\ run[g] = "succeeded" => grantStatus[g] = "consumed"
    /\ grantStatus[g] = "consumed" /\ Action(g) = "spend_budget" =>
         paid[g] > 0 /\ g \in resources /\ run[g] # "failed"

(* docs/GRANT_GATED_AGENT_FOUNDRY.md: failures "are rolled back and        *)
(* recorded as failed"; a failed run, whose grant may be used again, has   *)
(* left no agent, deployment or payment behind.                            *)
FailedMeansUndone ==
  \A g \in Grants : run[g] = "failed" => g \notin resources /\ paid[g] = 0

(* The same document: after a side effect that cannot be rolled back "the  *)
(* same grant cannot execute again": no grant pays twice, also over        *)
(* crashes, retries and grants that lapse while the provider is called.    *)
PaidOnce == \A g \in Grants : paid[g] <= 1

(* Whatever the foundry did under a grant that was then not consumed can   *)
(* be found: its run is marked for reconciliation or still says running.   *)
LooseEndsAreMarked ==
  \A g \in Grants :
    (g \in resources \/ paid[g] > 0) /\ grantStatus[g] # "consumed"
      => run[g] \in {"running", "reconciliation_required"}

(* To the kernel the foundry is one more client, also through crashes and  *)
(* faults: whatever executeAction does to packages and grants is a step of *)
(* the kernel, so the kernel's guarantees survive the foundry.             *)
ImplementsGovernance == GovernanceSpec

(* No side effect starts but under a grant that two keys stand behind and  *)
(* that no stop has ended.                                                 *)
EffectIsAuthorized ==
  [][ \A g \in Grants :
        paid'[g] > paid[g] \/ g \in resources' \ resources =>
          /\ grantStatus[g] = "active" /\ status[grantPackage[g]] = "authorized"
          /\ controls \cap HardStops = {} ]_vars

=============================================================================
