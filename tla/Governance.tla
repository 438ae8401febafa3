------------------------------ MODULE Governance ------------------------------
(***************************************************************************)
(* The governance kernel (core/governance/kernel.js): work packages under  *)
(* a two-key review, the capability grants issued for them, the kill       *)
(* switches and the budget.                                                *)
(*                                                                         *)
(* The kernel runs in one process and every handler is synchronous, so an  *)
(* operation is one action; a refused one throws, rolls its transaction    *)
(* back and is not enabled.  What comes between two operations is time:    *)
(* a grant passes its expires_at, and a month ends.                        *)
(*                                                                         *)
(* Abstracted: the texts and findings of a review, signatures, the event   *)
(* chain, the mission a package is about; organizations (one is modelled); *)
(* the constitution's lists of actions, to one representative of each.     *)
(***************************************************************************)
EXTENDS Integers, FiniteSetsExt

CONSTANTS Users, NoUser,
          Agents, Admins,       \* users by auth.role: agent, admin
          Supervisors, Bosses,  \* active rows of governance_principals
          Packages, NoPackage, Grants, NoGrant,
          Submissions,          \* what may be submitted
          MaxActionCost,        \* maximum_action_cost_usd
          MaxMonthlyCost        \* maximum_monthly_cost_usd

(* The actions of a package: the foundry's four, one that is prohibited,   *)
(* one that is prohibited and reserved to a human exception, and any other.*)
SensitiveActions   == {"create_agent", "deploy_staging", "deploy_production",
                       "spend_budget"}
HumanExceptions    == {"sign_contract"}
ProhibitedActions  == HumanExceptions \cup {"export_credentials"}
Actions            == SensitiveActions \cup ProhibitedActions \cup {"analysis"}
MaxAutonomousTier  == 2

(* proven: all tests passed, enough evidence, a rollback plan from tier 1. *)
ASSUME GovernanceAssumption ==
  /\ NoUser \notin Users /\ NoPackage \notin Packages /\ NoGrant \notin Grants
  /\ Agents \subseteq Users /\ Admins \subseteq Users
  /\ Supervisors \subseteq Users /\ Bosses \subseteq Users
  /\ Submissions \subseteq [ action : Actions, tier : 0 .. 3,
                             proven : BOOLEAN, cost : Nat ]
  /\ MaxActionCost \in Nat /\ MaxMonthlyCost \in Nat

Switches  == {"global_stop", "spending_frozen", "agent_creation_disabled",
              "external_actions_disabled"}
HardStops == {"global_stop", "external_actions_disabled"}

PackageStates == { "awaiting_supervisor", "remediation_required", "awaiting_boss",
                   "authorized", "blocked", "rejected", "denied", "quarantined",
                   "human_exception", "consumed" }
GrantStates   == {"active", "consumed", "revoked", "expired"}

VARIABLES status,        \* governance_packages.status, or "absent"
          work,          \* what was submitted
          worker,        \* worker_id
          supervisor,    \* the review supervisor_review_id points to
          boss,          \* the review boss_review_id points to
          grantOf,       \* capability_grant_id
          grantStatus,   \* governance_capability_grants.status, or "absent"
          grantPackage,  \* package_id of the grant
          overdue,       \* active grants whose expires_at has passed
          spend,         \* actual_cost_usd of the grant's spend entry
          thisMonth,     \* grants whose spend entry is of this month
          controls       \* the switches that are on

packageVars == <<status, work, worker, supervisor, boss, grantOf>>
grantVars   == <<grantStatus, grantPackage, overdue, spend, thisMonth>>
governanceVars == <<packageVars, grantVars, controls>>

NoReview == [by |-> NoUser, decision |-> "none"]
NoWork   == [action |-> "analysis", tier |-> 0, proven |-> FALSE, cost |-> 0]

SupervisorDecisions == {"approved", "rejected", "remediation_required",
                        "escalation_required"}
BossDecisions == {"authorize", "deny", "return_for_revision", "quarantine",
                  "human_exception"}

GovernanceInit ==
  /\ status     = [p \in Packages |-> "absent"]
  /\ work       = [p \in Packages |-> NoWork]
  /\ worker     = [p \in Packages |-> NoUser]
  /\ supervisor = [p \in Packages |-> NoReview]
  /\ boss       = [p \in Packages |-> NoReview]
  /\ grantOf    = [p \in Packages |-> NoGrant]
  /\ grantStatus  = [g \in Grants |-> "absent"]
  /\ grantPackage = [g \in Grants |-> NoPackage]
  /\ overdue = {} /\ thisMonth = {} /\ controls = {}
  /\ spend = [g \in Grants |-> 0]

GovernanceTypeOK ==
  /\ status     \in [Packages -> PackageStates \cup {"absent"}]
  /\ work       \in [Packages -> Submissions \cup {NoWork}]
  /\ worker     \in [Packages -> Users \cup {NoUser}]
  /\ supervisor \in [Packages -> [ by : Users \cup {NoUser},
                                   decision : SupervisorDecisions \cup {"none"} ]]
  /\ boss       \in [Packages -> [ by : Users \cup {NoUser},
                                   decision : BossDecisions \cup {"none"} ]]
  /\ grantOf      \in [Packages -> Grants \cup {NoGrant}]
  /\ grantStatus  \in [Grants -> GrantStates \cup {"absent"}]
  /\ grantPackage \in [Grants -> Packages \cup {NoPackage}]
  /\ overdue \subseteq Grants /\ thisMonth \subseteq Grants
  /\ spend \in [Grants -> Nat]
  /\ controls \subseteq Switches

-----------------------------------------------------------------------------
(* Packages and their reviews.                                             *)

(* Who calls submit: an agent for itself, an admin for anyone.             *)
Submit(caller, who, p, s) ==
  /\ caller \in Admins \/ (caller \in Agents /\ who = caller)
  /\ status[p] = "absent"
  /\ status' = [status EXCEPT ![p] = "awaiting_supervisor"]
  /\ work'   = [work   EXCEPT ![p] = s]
  /\ worker' = [worker EXCEPT ![p] = who]
  /\ UNCHANGED <<supervisor, boss, grantOf, grantVars, controls>>

(* _supervisorChecks finds something blocking.                             *)
BlockingFindings(s) == ~ s.proven \/ s.action \in ProhibitedActions

AfterSupervisor(decision) ==
  [approved |-> "awaiting_boss", rejected |-> "rejected",
   remediation_required |-> "remediation_required",
   escalation_required |-> "human_exception"][decision]

SupervisorReview(u, p, decision) ==
  /\ u \in Supervisors
  /\ status[p] \in {"awaiting_supervisor", "remediation_required"}
  /\ u # worker[p]
  /\ decision = "approved" => ~ BlockingFindings(work[p])
  /\ status' = [status EXCEPT ![p] = AfterSupervisor(decision)]
  /\ supervisor' = [supervisor EXCEPT ![p] = [by |-> u, decision |-> decision]]
  /\ UNCHANGED <<work, worker, boss, grantOf, grantVars, controls>>

(* A mutant: the boss is only compared with the worker.                    *)
BossMayReview_Worker(u, p) ==
  /\ u \in Bosses
  /\ status[p] = "awaiting_boss"
  /\ supervisor[p].decision = "approved"
  /\ u # worker[p]

BossMayReview(u, p) ==
  /\ u \in Bosses
  /\ status[p] = "awaiting_boss"
  /\ supervisor[p].decision = "approved"
  /\ u \notin {worker[p], supervisor[p].by}

AfterBoss(decision) ==
  [deny |-> "denied", return_for_revision |-> "remediation_required",
   quarantine |-> "quarantined", human_exception |-> "human_exception"][decision]

(* bossReview with any decision but "authorize".                           *)
BossReview(u, p, decision) ==
  /\ BossMayReview(u, p)
  /\ status' = [status EXCEPT ![p] = AfterBoss(decision)]
  /\ boss'   = [boss   EXCEPT ![p] = [by |-> u, decision |-> decision]]
  /\ UNCHANGED <<work, worker, supervisor, grantOf, grantVars, controls>>

-----------------------------------------------------------------------------
(* The policy gate.                                                        *)

Active == {g \in Grants : grantStatus[g] = "active"}

MaximumCost(g) == work[grantPackage[g]].cost

(* _monthlySpend; no code writes credits.                                  *)
MonthlySpend == MapThenSumSet(LAMBDA g : spend[g], thisMonth)

(* A mutant: what is reserved by other grants is forgotten.                *)
ActiveReservations_None == 0

(* _activeReservations, which expires the overdue grants first.            *)
ActiveReservations == MapThenSumSet(MaximumCost, Active \ overdue)

(* _assertControlsPermit, and the same four conditions in the policy and   *)
(* in the foundry's gateway.                                               *)
ControlsPermit(action, cost) ==
  /\ controls \cap HardStops = {}
  /\ "spending_frozen" \in controls => cost = 0
  /\ action = "create_agent" => "agent_creation_disabled" \notin controls

PolicyAllows(p) ==
  /\ ControlsPermit(work[p].action, work[p].cost)
  /\ work[p].tier <= MaxAutonomousTier
  /\ work[p].action \notin ProhibitedActions
  /\ work[p].proven
  /\ work[p].cost <= MaxActionCost
  /\ MonthlySpend + ActiveReservations + work[p].cost <= MaxMonthlyCost

NeedsHuman(s) == s.action \in HumanExceptions \/ s.tier > MaxAutonomousTier

(* _expireGrants, followed by whatever a handler sets itself.              *)
Expired == [g \in Grants |-> IF g \in overdue THEN "expired" ELSE grantStatus[g]]

(* bossReview with "authorize": the policy is evaluated, and a grant       *)
(* issued, in the same transaction.  Grants bounds how many are issued.    *)
Authorize(u, p) ==
  /\ BossMayReview(u, p)
  /\ boss' = [boss EXCEPT ![p] = [by |-> u, decision |-> "authorize"]]
  /\ overdue' = {}
  /\ IF PolicyAllows(p)
       THEN \E g \in Grants :
              /\ grantStatus[g] = "absent"
              /\ grantStatus'  = [Expired EXCEPT ![g] = "active"]
              /\ grantPackage' = [grantPackage EXCEPT ![g] = p]
              /\ grantOf'      = [grantOf EXCEPT ![p] = g]
              /\ status'       = [status EXCEPT ![p] = "authorized"]
       ELSE /\ grantStatus' = Expired
            /\ status' = [status EXCEPT ![p] = IF NeedsHuman(work[p])
                                                 THEN "human_exception"
                                                 ELSE "blocked"]
            /\ UNCHANGED <<grantPackage, grantOf>>
  /\ UNCHANGED <<work, worker, supervisor, spend, thisMonth, controls>>

-----------------------------------------------------------------------------
(* Grants.                                                                 *)

(* A mutant: expires_at is not looked at.                                  *)
MayConsume_Overdue(g, cost) ==
  /\ grantStatus[g] = "active"
  /\ ControlsPermit(work[grantPackage[g]].action, cost)
  /\ cost <= MaximumCost(g)

(* consumeGrant marks an overdue grant expired, then throws, which rolls   *)
(* the mark back: it has no effect.                                        *)
MayConsume(g, cost) ==
  /\ grantStatus[g] = "active" /\ g \notin overdue
  /\ ControlsPermit(work[grantPackage[g]].action, cost)
  /\ cost <= MaximumCost(g)

(* A mutant: the package is not moved on.                                  *)
ConsumeGrant_PackageLeft(g, cost) ==
  /\ MayConsume(g, cost)
  /\ grantStatus' = [grantStatus EXCEPT ![g] = "consumed"]
  /\ overdue'     = overdue \ {g}
  /\ spend'       = [spend EXCEPT ![g] = cost]
  /\ thisMonth'   = thisMonth \cup {g}
  /\ UNCHANGED <<packageVars, grantPackage, controls>>

ConsumeGrant(g, cost) ==
  /\ MayConsume(g, cost)
  /\ grantStatus' = [grantStatus EXCEPT ![g] = "consumed"]
  /\ overdue'     = overdue \ {g}
  /\ spend'       = [spend EXCEPT ![g] = cost]
  /\ thisMonth'   = thisMonth \cup {g}
  /\ status'      = [status EXCEPT ![grantPackage[g]] = "consumed"]
  /\ UNCHANGED <<work, worker, supervisor, boss, grantOf, grantPackage, controls>>

(* A mutant: the route leaves it to the kernel.                            *)
Consume_AnyGrant(caller, g, cost) ==
  /\ grantStatus[g] = "active"
  /\ caller \in Admins \cup {worker[grantPackage[g]]}
  /\ ConsumeGrant(g, cost)

(* POST .../consume: by the worker it was issued to, or an admin, and not  *)
(* for the foundry's actions, which consume their grants themselves.       *)
Consume(caller, g, cost) ==
  /\ grantStatus[g] = "active"
  /\ caller \in Admins \cup {worker[grantPackage[g]]}
  /\ work[grantPackage[g]].action \notin SensitiveActions
  /\ ConsumeGrant(g, cost)

(* The foundry consumes the grants of its own actions, for their grantee.  *)
FoundryConsume(g, cost) ==
  /\ grantStatus[g] = "active"
  /\ work[grantPackage[g]].action \in SensitiveActions
  /\ ConsumeGrant(g, cost)

(* revokeGrant, by an admin, at any time: an overdue grant is still active.*)
RevokeGrant(g) ==
  /\ grantStatus[g] = "active"
  /\ grantStatus' = [grantStatus EXCEPT ![g] = "revoked"]
  /\ overdue'     = overdue \ {g}
  /\ status'      = [status EXCEPT ![grantPackage[g]] = "quarantined"]
  /\ UNCHANGED <<work, worker, supervisor, boss, grantOf, grantPackage, spend,
                 thisMonth, controls>>

(* A mutant: only the global stop revokes.                                 *)
SetControls_StopOnly(new) ==
  /\ controls' = new
  /\ IF "global_stop" \in new
       THEN /\ grantStatus' = [g \in Grants |->
                  IF g \in Active THEN "revoked" ELSE grantStatus[g]]
            /\ overdue' = {}
       ELSE UNCHANGED <<grantStatus, overdue>>
  /\ UNCHANGED <<packageVars, grantPackage, spend, thisMonth>>

(* setControls: a hard stop revokes every active grant; their packages     *)
(* stay authorized.                                                        *)
SetControls(new) ==
  /\ controls' = new
  /\ IF new \cap HardStops # {}
       THEN /\ grantStatus' = [g \in Grants |->
                  IF g \in Active THEN "revoked" ELSE grantStatus[g]]
            /\ overdue' = {}
       ELSE UNCHANGED <<grantStatus, overdue>>
  /\ UNCHANGED <<packageVars, grantPackage, spend, thisMonth>>

(* The dashboard expires what is overdue.                                  *)
ExpireGrants ==
  /\ grantStatus' = Expired
  /\ overdue' = {}
  /\ UNCHANGED <<packageVars, grantPackage, spend, thisMonth, controls>>

(* Time: a grant passes its expiry, a month ends.                          *)
GrantLapses(g) ==
  /\ g \in Active
  /\ overdue' = overdue \cup {g}
  /\ UNCHANGED <<packageVars, grantStatus, grantPackage, spend, thisMonth, controls>>

MonthEnds ==
  /\ thisMonth' = {}
  /\ UNCHANGED <<packageVars, grantStatus, grantPackage, overdue, spend, controls>>

Costs == {s.cost : s \in Submissions} \cup {0}

(* All operations but consumption, which has two callers.                  *)
Review ==
  \E p \in Packages :
    \/ \E caller, who \in Users, s \in Submissions : Submit(caller, who, p, s)
    \/ \E u \in Users :
         \/ \E d \in SupervisorDecisions : SupervisorReview(u, p, d)
         \/ \E d \in BossDecisions \ {"authorize"} : BossReview(u, p, d)
         \/ Authorize(u, p)

Oversee ==
  \/ \E g \in Grants : RevokeGrant(g)
  \/ \E new \in SUBSET Switches : SetControls(new)
  \/ ExpireGrants

Clock == (\E g \in Grants : GrantLapses(g)) \/ MonthEnds

GovernanceNext ==
  \/ Review \/ Oversee \/ Clock
  \/ \E caller \in Users, g \in Grants, c \in Costs : Consume(caller, g, c)
  \/ \E g \in Grants, c \in Costs : FoundryConsume(g, c)

GovernanceSpec == GovernanceInit /\ [][GovernanceNext]_governanceVars

-----------------------------------------------------------------------------
(* Two keys: behind every grant ever issued stand a supervisor's approval  *)
(* and a boss's authorization, by two different principals of those roles, *)
(* neither of them the worker, however often the package was returned and  *)
(* reviewed again before, and whoever holds several roles.                 *)
TwoKeys ==
  \A g \in Grants : grantStatus[g] # "absent" =>
    LET p == grantPackage[g]
    IN /\ supervisor[p].decision = "approved" /\ boss[p].decision = "authorize"
       /\ supervisor[p].by \in Supervisors /\ boss[p].by \in Bosses
       /\ supervisor[p].by # boss[p].by
       /\ worker[p] \notin {supervisor[p].by, boss[p].by}

(* A package has at most one grant, for good, and the two agree: used once *)
(* and for all, revoked by hand or still authorized.                       *)
GrantMatchesPackage ==
  \A g \in Grants : grantStatus[g] # "absent" =>
    LET p == grantPackage[g]
    IN /\ grantOf[p] = g
       /\ grantStatus[g] = "consumed" <=> status[p] = "consumed"
       /\ grantStatus[g] \in {"active", "expired"} => status[p] = "authorized"
       /\ grantStatus[g] = "revoked" => status[p] \in {"authorized", "quarantined"}

(* The month's spend and all grants that can still be used stay within the *)
(* constitution's monthly limit, though grants expire unnoticed, months    *)
(* end and reservations turn into spend.                                   *)
BudgetHolds == MonthlySpend + ActiveReservations <= MaxMonthlyCost

(* While a hard stop is on there is no active grant, also none issued      *)
(* since for a package that was already in front of the boss.              *)
StopMeansStop == controls \cap HardStops # {} => Active = {}

(* Actions the constitution reserves are never granted, whatever the       *)
(* supervisor and the boss decide.                                         *)
NeverAutonomous ==
  \A g \in Grants : grantStatus[g] # "absent" =>
    LET s == work[grantPackage[g]]
    IN s.proven /\ ~ NeedsHuman(s) /\ s.action \notin ProhibitedActions

(* A grant that was used, revoked or expired is never usable again, and    *)
(* none is used once the clock or a stop has ended it.                     *)
GrantIsSingleUse ==
  [][ \A g \in Grants :
        /\ grantStatus[g] \in {"consumed", "revoked", "expired"}
             => grantStatus'[g] = grantStatus[g]
        /\ g \in overdue => grantStatus'[g] # "consumed" ]_governanceVars

=============================================================================
