---------------------------- MODULE FoundryProofs ----------------------------
(***************************************************************************)
(* The agent foundry for any number of users, packages and grants.         *)
(* Whatever Faults there are: to the kernel it is one more client, every   *)
(* side effect happens under a grant in force, and the ledger and the      *)
(* receipts agree.  On a disk that works a consumed grant has had its      *)
(* effect, and when the provider's answers arrive as well a failed run has *)
(* left nothing, no grant pays twice, and loose ends are marked.           *)
(*                                                                         *)
(* What makes it inductive is what executeAction knows at each of its      *)
(* stages about the one grant it holds.                                    *)
(***************************************************************************)
EXTENDS AgentFoundry, GovernanceProofs

USE FoundryAssumption

Pays(g) == Action(g) = "spend_budget"

DoingOK ==
  doing.stage # "idle" =>
    LET g == doing.grant IN
    /\ g \in Grants /\ doing.cost \in Costs /\ Action(g) \in SensitiveActions
    /\ run[g] = "running"
    /\ doing.stage \in {"effect", "receipt", "consume"} => grantStatus[g] = "active"
    /\ doing.stage = "settle" => grantStatus[g] = "consumed"
    /\ doing.stage = "receipt" => Pays(g)
    /\ doing.stage # "effect" /\ Pays(g) => paid[g] > 0
    /\ doing.stage \in {"consume", "settle", "undo"} /\ Pays(g) => g \in resources

FoundryTypeOK ==
  /\ run \in [Grants -> RunStates \cup {"absent"}]
  /\ resources \subseteq Grants
  /\ paid \in [Grants -> Nat]
  /\ doing \in [ stage : Stages \cup {"idle"}, grant : Grants \cup {NoGrant},
                 cost : Nat ]

FoundryInv == GovernanceInv /\ FoundryTypeOK /\ DoingOK /\ LedgerMatchesReceipts

-----------------------------------------------------------------------------
(* The kernel never changes what an issued grant is for.                   *)
LEMMA GrantsKeepTheirAction ==
  ASSUME GovernanceInv, [GovernanceNext]_governanceVars, NEW g \in Grants, Issued(g)
  PROVE  Action(g)' = Action(g) /\ grantStatus'[g] # "absent"
BY GrantsKeepTheirWork DEF Action

(* Each step of the foundry is one of the kernel, or none.                 *)
LEMMA KernelStepOrNone ==
  ASSUME FoundryInv, [Next]_vars
  PROVE  [GovernanceNext]_governanceVars
<1>1. CASE ConsumeAfter
  <2>1. doing.grant \in Grants /\ doing.cost \in Costs
        /\ Action(doing.grant) \in SensitiveActions
        /\ grantStatus[doing.grant] = "active"
    BY <1>1 DEF ConsumeAfter, At, FoundryInv, DoingOK
  <2>2. CASE UNCHANGED governanceVars
    BY <2>2
  <2>3. CASE ConsumeGrant(doing.grant, doing.cost)
    BY <2>1, <2>3 DEF FoundryConsume, GovernanceNext, Action
  <2> QED
    BY <1>1, <2>2, <2>3 DEF ConsumeAfter
<1>2. CASE FoundryStep /\ ~ ConsumeAfter
  <2>1. UNCHANGED governanceVars
    BY <1>2 DEF FoundryStep, Execute, Refuse, CreateAgent, Deploy, DeployHalfway,
                Pay, StoreReceipt, LoseAnswer, Settle, SettleFails, Undo, Crash
  <2> QED
    BY <2>1
<1>3. CASE KernelStep
  BY <1>3 DEF KernelStep, GovernanceNext
<1>4. CASE Clock
  BY <1>4 DEF GovernanceNext
<1>5. CASE UNCHANGED vars
  BY <1>5 DEF vars
<1> QED
  BY <1>1, <1>2, <1>3, <1>4, <1>5 DEF Next

LEMMA KernelInvHolds ==
  ASSUME FoundryInv, [Next]_vars
  PROVE  GovernanceInv'
BY KernelStepOrNone, StepHolds DEF FoundryInv

-----------------------------------------------------------------------------
(* Steps of the kernel and the clock consume no grant of the foundry's.    *)
LEMMA KernelUsesNoEffect ==
  ASSUME FoundryInv, KernelStep \/ (Clock /\ UNCHANGED foundryVars) \/ UNCHANGED vars,
         NEW g \in Grants, grantStatus'[g] = "consumed", Action(g)' \in SensitiveActions
  PROVE  grantStatus[g] = "consumed" /\ Action(g)' = Action(g) /\ spend'[g] = spend[g]
<1>1. [GovernanceNext]_governanceVars
  BY DEF KernelStep, GovernanceNext, vars
<1>2. ASSUME NEW u \in Users, NEW h \in Grants, NEW c \in Costs, Consume(u, h, c)
      PROVE  h # g
  <2>1. Action(h)' = Action(h)
    BY <1>2 DEF Consume, ConsumeGrant, Action
  <2> QED
    BY <1>2, <2>1 DEF Consume, Action
<1>3. CASE grantStatus[g] = "consumed"
  <2>1. Action(g)' = Action(g)
    BY <1>1, <1>3, GrantsKeepTheirAction DEF FoundryInv, Issued
  <2>2. Review \/ Oversee \/ Clock \/ UNCHANGED governanceVars => spend' = spend
    BY DEF Review, Submit, SupervisorReview, BossReview, Authorize, Oversee, RevokeGrant,
           SetControls, ExpireGrants, Clock, GrantLapses, MonthEnds, governanceVars,
           grantVars
  <2>3. ASSUME NEW u \in Users, NEW h \in Grants, NEW c \in Costs, Consume(u, h, c)
        PROVE  spend'[g] = spend[g]
    BY <1>2, <2>3 DEF Consume, ConsumeGrant, FoundryInv, GovernanceInv, GovernanceTypeOK
  <2> QED
    BY <1>3, <2>1, <2>2, <2>3 DEF KernelStep, vars
<1>4. CASE grantStatus[g] # "consumed"
  <2>1. CASE UNCHANGED grantStatus \/ grantStatus' = Expired
    BY <1>4, <2>1, ExpiredGrants DEF FoundryInv
  <2>2. ASSUME NEW h \in Grants, grantStatus' = [Expired EXCEPT ![h] = "active"]
        PROVE  FALSE
    BY <1>4, <2>2, ExpiredGrants DEF FoundryInv, Expired
  <2>3. CASE Review
    <3>1. CASE \E p \in Packages, u \in Users : Authorize(u, p)
      BY <2>1, <2>2, <3>1 DEF Authorize
    <3> QED
      BY <2>1, <2>3, <3>1 DEF Review, Submit, SupervisorReview, BossReview, grantVars
  <2>4. CASE Oversee
    BY <1>4, <2>1, <2>4 DEF Oversee, RevokeGrant, SetControls, ExpireGrants,
                            FoundryInv, GovernanceInv, GovernanceTypeOK
  <2>5. ASSUME NEW u \in Users, NEW h \in Grants, NEW c \in Costs, Consume(u, h, c)
        PROVE  FALSE
    BY <1>2, <1>4, <2>5 DEF Consume, ConsumeGrant, FoundryInv, GovernanceInv,
                            GovernanceTypeOK
  <2>6. CASE Clock \/ UNCHANGED governanceVars
    BY <2>1, <2>6 DEF Clock, GrantLapses, MonthEnds, governanceVars, grantVars
  <2> QED
    BY <2>3, <2>4, <2>5, <2>6 DEF KernelStep, vars
<1> QED
  BY <1>3, <1>4

(* They leave the foundry's own state alone.                               *)
LEMMA KernelLeavesFoundry ==
  ASSUME FoundryInv, KernelStep \/ (Clock /\ UNCHANGED foundryVars) \/ UNCHANGED vars
  PROVE  FoundryTypeOK' /\ DoingOK' /\ LedgerMatchesReceipts'
<1>1. UNCHANGED foundryVars /\ [GovernanceNext]_governanceVars
  BY DEF KernelStep, GovernanceNext, vars
<1>2. FoundryTypeOK'
  BY <1>1 DEF FoundryInv, FoundryTypeOK, foundryVars
<1>3. DoingOK'
  <2>1. CASE KernelStep
    BY <2>1 DEF KernelStep, DoingOK, foundryVars, Idle
  <2>2. CASE Clock \/ UNCHANGED vars
    <3>1. UNCHANGED <<grantStatus, grantPackage, work>>
      BY <2>2 DEF Clock, GrantLapses, MonthEnds, vars, governanceVars, packageVars,
                  grantVars
    <3> QED
      BY <1>1, <3>1 DEF FoundryInv, DoingOK, Pays, Action, foundryVars
  <2> QED
    BY <2>1, <2>2
<1>4. \A g \in Grants : grantStatus[g] = "consumed" => grantStatus'[g] = "consumed"
  BY <1>1, EndedGrantsStay DEF FoundryInv
<1>5. LedgerMatchesReceipts'
  BY <1>1, <1>4, KernelUsesNoEffect
     DEF FoundryInv, LedgerMatchesReceipts, foundryVars, SensitiveActions
<1> QED
  BY <1>2, <1>3, <1>5

-----------------------------------------------------------------------------
(* The stages of an action.                                                *)
LEMMA ExecuteKeeps ==
  ASSUME FoundryInv, NEW u \in Users, NEW g \in Grants, NEW c \in Costs,
         Execute(u, g, c)
  PROVE  FoundryTypeOK' /\ DoingOK' /\ LedgerMatchesReceipts'
<1>1. c \in Nat
  BY CostsAreNat
<1>2. /\ doing' = [stage |-> "effect", grant |-> g, cost |-> c]
      /\ run' = [run EXCEPT ![g] = "running"] /\ grantStatus[g] = "active"
      /\ Action(g) \in SensitiveActions
      /\ UNCHANGED <<resources, paid, grantStatus, grantPackage, work>>
  BY DEF Execute, Inspect, governanceVars, grantVars, packageVars
<1>3. FoundryTypeOK'
  BY <1>1, <1>2 DEF FoundryInv, FoundryTypeOK, RunStates, Stages
<1>4. DoingOK'
  BY <1>2 DEF FoundryInv, FoundryTypeOK, DoingOK, Pays, Action
<1>5. LedgerMatchesReceipts'
  BY <1>2 DEF FoundryInv, FoundryTypeOK, LedgerMatchesReceipts, Action
<1> QED
  BY <1>3, <1>4, <1>5

(* The run is closed with one outcome or another.                          *)
LEMMA CloseKeeps ==
  ASSUME FoundryInv, NEW outcome \in RunStates, Close(outcome), doing.stage # "idle",
         UNCHANGED <<governanceVars, paid>>,
         resources' \subseteq Grants,
         \A g \in Grants : g \in resources /\ Pays(g) => g \in resources',
         outcome = "succeeded" => grantStatus[doing.grant] = "consumed",
         outcome = "failed" => grantStatus[doing.grant] # "consumed" \/ ~ Pays(doing.grant)
  PROVE  FoundryTypeOK' /\ DoingOK' /\ LedgerMatchesReceipts'
<1>1. UNCHANGED <<grantStatus, grantPackage, work>>
  BY DEF governanceVars, grantVars, packageVars
<1>2. FoundryTypeOK'
  BY DEF FoundryInv, FoundryTypeOK, Close, Idle
<1>3. DoingOK'
  BY DEF DoingOK, Close, Idle
<1>4. LedgerMatchesReceipts'
  BY <1>1 DEF FoundryInv, FoundryTypeOK, LedgerMatchesReceipts, Close, Pays, Action,
              DoingOK
<1> QED
  BY <1>2, <1>3, <1>4

LEMMA EffectKeeps ==
  ASSUME FoundryInv, NEW g \in Grants,
         CreateAgent(g) \/ Deploy(g) \/ Pay(g) \/ StoreReceipt(g)
  PROVE  FoundryTypeOK' /\ DoingOK' /\ LedgerMatchesReceipts'
<1>1. /\ doing.grant = g /\ doing.stage \in {"effect", "receipt"}
      /\ UNCHANGED <<run, grantStatus, grantPackage, work>>
      /\ \/ /\ doing' = [doing EXCEPT !.stage = "consume"]
            /\ resources' = resources \cup {g} /\ UNCHANGED paid
            /\ Pays(g) => doing.stage = "receipt"
         \/ /\ doing' = [doing EXCEPT !.stage = "receipt"] /\ Pays(g)
            /\ paid' = [paid EXCEPT ![g] = @ + 1] /\ UNCHANGED resources
  BY DEF CreateAgent, Deploy, Deploying, Pay, StoreReceipt, At, Goto, Pays,
         governanceVars, grantVars, packageVars
<1>2. FoundryTypeOK'
  BY <1>1 DEF FoundryInv, FoundryTypeOK, Stages
<1>3. DoingOK'
  BY <1>1 DEF FoundryInv, FoundryTypeOK, DoingOK, Pays, Action, Stages
<1>4. \A h \in Grants : paid[h] > 0 => paid'[h] > 0
  BY <1>1 DEF FoundryInv, FoundryTypeOK
<1>5. LedgerMatchesReceipts'
  BY <1>1, <1>4 DEF FoundryInv, LedgerMatchesReceipts, Action
<1> QED
  BY <1>2, <1>3, <1>5

LEMMA ConsumeAfterKeeps ==
  ASSUME FoundryInv, ConsumeAfter
  PROVE  FoundryTypeOK' /\ DoingOK' /\ LedgerMatchesReceipts'
<1> DEFINE g == doing.grant
<1>1. /\ doing.stage = "consume" /\ g \in Grants /\ grantStatus[g] = "active"
      /\ run[g] = "running"
      /\ Pays(g) => paid[g] > 0 /\ g \in resources
      /\ UNCHANGED <<run, resources, paid, grantPackage, work>>
      /\ Action(g) \in SensitiveActions
      /\ \/ /\ grantStatus' = [grantStatus EXCEPT ![g] = "consumed"]
            /\ doing' = [doing EXCEPT !.stage = "settle"]
         \/ UNCHANGED grantStatus /\ doing' = [doing EXCEPT !.stage = "undo"]
  BY DEF ConsumeAfter, ConsumeGrant, At, Goto, FoundryInv, DoingOK, governanceVars,
         grantVars, packageVars
<1>2. FoundryTypeOK'
  BY <1>1 DEF FoundryInv, FoundryTypeOK, Stages
<1>3. DoingOK'
  BY <1>1 DEF FoundryInv, FoundryTypeOK, GovernanceInv, GovernanceTypeOK, DoingOK,
              Pays, Action
<1>4. LedgerMatchesReceipts'
  BY <1>1 DEF FoundryInv, FoundryTypeOK, GovernanceInv, GovernanceTypeOK,
              LedgerMatchesReceipts, Pays, Action
<1> QED
  BY <1>2, <1>3, <1>4

LEMMA SettleFailsKeeps ==
  ASSUME FoundryInv, SettleFails
  PROVE  FoundryTypeOK' /\ DoingOK' /\ LedgerMatchesReceipts'
<1>1. /\ doing.stage = "settle" /\ doing' = [doing EXCEPT !.stage = "undo"]
      /\ UNCHANGED <<run, resources, paid, grantStatus, grantPackage, work>>
  BY DEF SettleFails, At, Goto, governanceVars, grantVars, packageVars
<1> QED
  BY <1>1 DEF FoundryInv, FoundryTypeOK, Stages, DoingOK, LedgerMatchesReceipts,
              Pays, Action

(* Everything that ends an action.                                         *)
LEMMA EndKeeps ==
  ASSUME FoundryInv,
         \/ Refuse \/ LoseAnswer \/ Settle \/ Undo
         \/ \E g \in Grants : DeployHalfway(g)
  PROVE  FoundryTypeOK' /\ DoingOK' /\ LedgerMatchesReceipts'
<1>1. CASE Refuse \/ LoseAnswer
  <2>1. doing.stage \in {"effect", "receipt"} /\ Close("failed")
        /\ UNCHANGED <<resources, paid, governanceVars>>
    BY <1>1 DEF Refuse, LoseAnswer, At
  <2>2. grantStatus[doing.grant] = "active" /\ resources \subseteq Grants
    BY <2>1 DEF FoundryInv, FoundryTypeOK, DoingOK
  <2> QED
    BY <2>1, <2>2, CloseKeeps DEF RunStates
<1>2. CASE Settle
  BY <1>2, CloseKeeps DEF Settle, At, FoundryInv, FoundryTypeOK, DoingOK, RunStates
<1>3. CASE Undo
  <2>1. PICK outcome \in {"failed", "reconciliation_required"} :
          /\ Close(outcome) /\ UNCHANGED <<paid, governanceVars>>
          /\ resources' \in {resources, resources \ {doing.grant}}
          /\ Pays(doing.grant) => outcome # "failed" /\ resources' = resources
    BY <1>3 DEF Undo, Pays
  <2> QED
    BY <1>3, <2>1, CloseKeeps DEF Undo, At, FoundryInv, FoundryTypeOK, DoingOK, RunStates
<1>4. ASSUME NEW g \in Grants, DeployHalfway(g)
      PROVE  FoundryTypeOK' /\ DoingOK' /\ LedgerMatchesReceipts'
  <2>1. doing.stage = "effect" /\ Close("failed") /\ resources' = resources \cup {g}
        /\ UNCHANGED <<paid, governanceVars>>
    BY <1>4 DEF DeployHalfway, Deploying, At
  <2>2. grantStatus[doing.grant] = "active" /\ resources \subseteq Grants
    BY <2>1 DEF FoundryInv, FoundryTypeOK, DoingOK
  <2> QED
    BY <2>1, <2>2, CloseKeeps DEF RunStates
<1> QED
  BY <1>1, <1>2, <1>3, <1>4

LEMMA CrashKeeps ==
  ASSUME FoundryInv, Crash
  PROVE  FoundryTypeOK' /\ DoingOK' /\ LedgerMatchesReceipts'
<1>1. UNCHANGED <<grantStatus, grantPackage, work>>
  BY DEF Crash, governanceVars, grantVars, packageVars
<1> QED
  BY <1>1 DEF Crash, FoundryInv, FoundryTypeOK, DoingOK, LedgerMatchesReceipts, Idle,
              Action

LEMMA FoundryInitHolds == Init => FoundryInv
<1> SUFFICES ASSUME Init PROVE FoundryInv
  OBVIOUS
<1> QED
  BY InitHolds DEF Init, GovernanceInit, FoundryInv, FoundryTypeOK, DoingOK,
                   LedgerMatchesReceipts, Idle

LEMMA FoundryStepHolds == FoundryInv /\ [Next]_vars => FoundryInv'
<1> SUFFICES ASSUME FoundryInv, [Next]_vars PROVE FoundryInv'
  OBVIOUS
<1>1. CASE FoundryStep
  BY <1>1, KernelInvHolds, ExecuteKeeps, EffectKeeps, ConsumeAfterKeeps,
     SettleFailsKeeps, EndKeeps, CrashKeeps DEF FoundryStep, FoundryInv
<1>2. CASE KernelStep \/ (Clock /\ UNCHANGED foundryVars) \/ UNCHANGED vars
  BY <1>2, KernelInvHolds, KernelLeavesFoundry DEF FoundryInv
<1> QED
  BY <1>1, <1>2 DEF Next

LEMMA FoundryInductive == Spec => []FoundryInv
BY FoundryInitHolds, FoundryStepHolds, PTL DEF Spec

-----------------------------------------------------------------------------
(* executeAction with the kernel: whatever the foundry does, the kernel    *)
(* only sees requests it could have had from anyone.                       *)
THEOREM FoundryIsKernel == Spec => ImplementsGovernance
<1>1. Init => GovernanceInit
  BY DEF Init
<1>2. FoundryInv /\ [Next]_vars => [GovernanceNext]_governanceVars
  BY KernelStepOrNone
<1> QED
  BY <1>1, <1>2, FoundryInductive, PTL DEF Spec, GovernanceSpec, ImplementsGovernance

(* The foundry and the kernel keep their types.                            *)
THEOREM FoundryTypeCorrect == Spec => []TypeOK
<1>1. FoundryInv => TypeOK
  BY DEF FoundryInv, FoundryTypeOK, GovernanceInv, TypeOK
<1> QED
  BY <1>1, FoundryInductive, PTL

(* executeAction and its catch block: through crashes, lost answers and    *)
(* failing disks, success means a consumed grant, and the ledger knows of  *)
(* no payment without its receipt.                                         *)
THEOREM LedgerTheorem == Spec => []LedgerMatchesReceipts
BY FoundryInductive, PTL DEF FoundryInv

(* inspect before every side effect: it happens under an active grant of   *)
(* an authorized package while no hard stop is on.                         *)
THEOREM EffectTheorem == Spec => EffectIsAuthorized
<1>1. ASSUME FoundryInv, [Next]_vars, NEW g \in Grants,
             paid'[g] > paid[g] \/ g \in resources' \ resources
      PROVE  grantStatus[g] = "active"
  <2>1. CASE FoundryStep
    <3>1. CASE \E h \in Grants : \/ CreateAgent(h) \/ Deploy(h) \/ DeployHalfway(h)
                                 \/ Pay(h) \/ StoreReceipt(h)
      BY <1>1, <3>1 DEF CreateAgent, Deploy, DeployHalfway, Deploying, Pay,
                        StoreReceipt, At, FoundryInv, FoundryTypeOK, DoingOK
    <3>2. resources' \subseteq resources /\ paid' = paid => FALSE
      BY <1>1 DEF FoundryInv, FoundryTypeOK
    <3> QED
      BY <2>1, <3>1, <3>2
         DEF FoundryStep, Execute, Refuse, LoseAnswer, ConsumeAfter, Settle,
             SettleFails, Undo, Crash
  <2>2. CASE UNCHANGED foundryVars
    BY <1>1, <2>2 DEF foundryVars, FoundryInv, FoundryTypeOK
  <2> QED
    BY <1>1, <2>1, <2>2 DEF Next, KernelStep, vars
<1>2. ASSUME FoundryInv, NEW g \in Grants, grantStatus[g] = "active"
      PROVE  status[grantPackage[g]] = "authorized" /\ controls \cap HardStops = {}
  BY <1>2 DEF FoundryInv, GovernanceInv, GrantMatchesPackage, StopMeansStop, Active
<1>3. FoundryInv /\ [Next]_vars =>
        \A g \in Grants :
          paid'[g] > paid[g] \/ g \in resources' \ resources =>
            /\ grantStatus[g] = "active" /\ status[grantPackage[g]] = "authorized"
            /\ controls \cap HardStops = {}
  BY <1>1, <1>2
<1> QED
  BY <1>3, FoundryInductive, PTL DEF Spec, EffectIsAuthorized

(* The kernel's guarantees about grants and money hold of the kernel with  *)
(* the foundry at work on them, through crashes and whatever Faults.       *)
THEOREM GuaranteesSurvive ==
  Spec => [](TwoKeys /\ GrantMatchesPackage /\ BudgetHolds /\ StopMeansStop)
BY FoundryIsKernel, TwoKeysTheorem, GrantMatchesTheorem, BudgetTheorem, StopTheorem,
   PTL DEF ImplementsGovernance

-----------------------------------------------------------------------------
(* With files and rows that can be written.                                *)
DoneInv ==
  /\ FoundryInv /\ ConsumedMeansDone
  /\ doing.stage \in {"consume", "settle"} => doing.grant \in resources
  /\ doing.stage = "undo" => grantStatus[doing.grant] # "consumed"

(* And with answers that arrive.                                           *)
CleanInv ==
  /\ FoundryInv /\ PaidOnce
  /\ \A g \in Grants : run[g] \in {"absent", "failed"} => g \notin resources /\ paid[g] = 0
  /\ \A g \in Grants : paid[g] > 0 => Issued(g) /\ Pays(g)
  /\ doing.stage = "effect" => doing.grant \notin resources /\ paid[doing.grant] = 0

(* The kernel and the clock.                                               *)
LEMMA KernelKeepsDone ==
  ASSUME DoneInv, FoundryInv',
         KernelStep \/ (Clock /\ UNCHANGED foundryVars) \/ UNCHANGED vars
  PROVE  DoneInv'
<1>1. UNCHANGED foundryVars /\ [GovernanceNext]_governanceVars
  BY DEF KernelStep, GovernanceNext, vars
<1>2. ConsumedMeansDone'
  BY <1>1, KernelUsesNoEffect DEF DoneInv, ConsumedMeansDone, foundryVars
<1>3. CASE doing.stage = "idle"
  BY <1>1, <1>2, <1>3 DEF DoneInv, foundryVars
<1>4. CASE doing.stage # "idle"
  <2>1. doing # Idle
    BY <1>4 DEF Idle
  <2>2. UNCHANGED <<grantStatus, grantPackage, work>>
    BY <2>1 DEF KernelStep, Clock, GrantLapses, MonthEnds, vars, governanceVars,
                packageVars, grantVars
  <2> QED
    BY <1>1, <1>2, <2>2 DEF DoneInv, foundryVars, Pays, Action
<1> QED
  BY <1>3, <1>4

LEMMA KernelKeepsClean ==
  ASSUME CleanInv, FoundryInv',
         KernelStep \/ (Clock /\ UNCHANGED foundryVars) \/ UNCHANGED vars
  PROVE  CleanInv'
<1>1. UNCHANGED foundryVars /\ [GovernanceNext]_governanceVars
  BY DEF KernelStep, GovernanceNext, vars
<1>2. \A g \in Grants : Issued(g) => Issued(g)' /\ (Pays(g) => Pays(g)')
  BY <1>1, GrantsKeepTheirAction DEF CleanInv, FoundryInv, Issued, Pays
<1> QED
  BY <1>1, <1>2 DEF CleanInv, PaidOnce, foundryVars

(* executeAction.                                                          *)
LEMMA FoundryKeepsDone ==
  ASSUME DoneInv, FoundryInv', FoundryStep, "disk" \notin Faults
  PROVE  DoneInv'
<1> USE DEF DoneInv, Pays
<1>0. FoundryTypeOK /\ DoingOK /\ GovernanceTypeOK
  BY DEF FoundryInv, GovernanceInv
<1>1. ASSUME NEW u \in Users, NEW g \in Grants, NEW c \in Costs, Execute(u, g, c)
      PROVE  DoneInv'
  <2>1. /\ doing' = [stage |-> "effect", grant |-> g, cost |-> c]
        /\ run' = [run EXCEPT ![g] = "running"] /\ grantStatus[g] = "active"
        /\ UNCHANGED <<resources, paid, spend, grantStatus, grantPackage, work>>
    BY <1>1 DEF Execute, Inspect, governanceVars, grantVars, packageVars
  <2> QED
    BY <1>0, <2>1 DEF ConsumedMeansDone, FoundryTypeOK, Action
<1>2. CASE Refuse \/ LoseAnswer \/ \E g \in Grants : DeployHalfway(g)
  <2>1. /\ doing.stage \in {"effect", "receipt"} /\ Close("failed")
        /\ resources \subseteq resources'
        /\ UNCHANGED <<paid, spend, grantStatus, grantPackage, work>>
    BY <1>2 DEF Refuse, LoseAnswer, DeployHalfway, Deploying, At, governanceVars,
                grantVars, packageVars
  <2>2. grantStatus[doing.grant] = "active"
    BY <1>0, <2>1 DEF DoingOK
  <2> QED
    BY <1>0, <2>1, <2>2 DEF ConsumedMeansDone, FoundryTypeOK, Action, Close, Idle
<1>3. ASSUME NEW g \in Grants, CreateAgent(g) \/ Deploy(g) \/ Pay(g) \/ StoreReceipt(g)
      PROVE  DoneInv'
  <2>1. /\ doing.grant = g /\ doing.stage \in {"effect", "receipt"}
        /\ doing' \in {[doing EXCEPT !.stage = "consume"], [doing EXCEPT !.stage = "receipt"]}
        /\ doing'.stage = "consume" => resources' = resources \cup {g}
        /\ resources \subseteq resources'
        /\ paid' = paid \/ paid' = [paid EXCEPT ![g] = @ + 1]
        /\ UNCHANGED <<run, spend, grantStatus, grantPackage, work>>
    BY <1>0, <1>3 DEF CreateAgent, Deploy, Deploying, Pay, StoreReceipt, At, Goto,
                governanceVars, grantVars, packageVars, FoundryTypeOK
  <2>2. /\ doing'.grant = g /\ doing'.cost = doing.cost
        /\ doing'.stage \in {"consume", "receipt"}
    BY <1>0, <2>1 DEF FoundryTypeOK
  <2>3. ASSUME NEW h \in Grants, paid[h] > 0
        PROVE  paid'[h] > 0
    BY <1>0, <2>1, <2>3 DEF FoundryTypeOK
  <2>4. ConsumedMeansDone'
    BY <2>1, <2>3 DEF ConsumedMeansDone, Action
  <2> QED
    BY <2>1, <2>2, <2>4 DEF Action
<1>4. CASE ConsumeAfter
  <2> DEFINE g == doing.grant
  <2>1. /\ doing.stage = "consume" /\ g \in Grants /\ grantStatus[g] = "active"
        /\ run[g] = "running" /\ g \in resources
        /\ Pays(g) => paid[g] > 0
        /\ UNCHANGED <<run, resources, paid, grantPackage, work>>
        /\ \/ /\ grantStatus' = [grantStatus EXCEPT ![g] = "consumed"]
              /\ spend' = [spend EXCEPT ![g] = doing.cost]
              /\ doing' = [doing EXCEPT !.stage = "settle"]
           \/ /\ UNCHANGED <<grantStatus, spend>>
              /\ doing' = [doing EXCEPT !.stage = "undo"]
    BY <1>0, <1>4 DEF ConsumeAfter, ConsumeGrant, At, Goto, DoingOK, governanceVars,
                      grantVars, packageVars
  <2>2. ConsumedMeansDone'
    BY <1>0, <2>1 DEF ConsumedMeansDone, GovernanceTypeOK, FoundryTypeOK, Action
  <2>3. doing'.grant = g /\ doing'.cost = doing.cost
    BY <1>0, <2>1 DEF FoundryTypeOK
  <2> QED
    BY <1>0, <2>1, <2>2, <2>3 DEF Action, FoundryTypeOK
<1>5. CASE Settle
  <2>1. /\ doing.stage = "settle" /\ doing.grant \in Grants /\ Close("succeeded")
        /\ UNCHANGED <<resources, paid, spend, grantStatus, grantPackage, work>>
    BY <1>0, <1>5 DEF Settle, At, DoingOK, governanceVars, grantVars, packageVars
  <2> QED
    BY <1>0, <2>1 DEF ConsumedMeansDone, FoundryTypeOK, Action, Close, Idle
<1>6. CASE SettleFails
  BY <1>6 DEF SettleFails
<1>7. CASE Undo
  <2>1. /\ doing.stage = "undo" /\ resources \ {doing.grant} \subseteq resources'
        /\ Close("failed") \/ Close("reconciliation_required")
        /\ UNCHANGED <<paid, spend, grantStatus, grantPackage, work>>
    BY <1>7 DEF Undo, At, governanceVars, grantVars, packageVars
  <2> QED
    BY <1>0, <2>1 DEF ConsumedMeansDone, FoundryTypeOK, Action, Close, Idle
<1>8. CASE Crash
  BY <1>8 DEF Crash, ConsumedMeansDone, Action, Idle, governanceVars, grantVars,
              packageVars
<1> QED
  BY <1>1, <1>2, <1>3, <1>4, <1>5, <1>6, <1>7, <1>8 DEF FoundryStep

LEMMA FoundryKeepsClean ==
  ASSUME CleanInv, FoundryInv', FoundryStep, Faults = {}
  PROVE  CleanInv'
<1> USE DEF CleanInv, PaidOnce, Pays
<1>0. FoundryTypeOK /\ DoingOK /\ GovernanceTypeOK
  BY DEF FoundryInv, GovernanceInv
<1>1. ASSUME NEW u \in Users, NEW g \in Grants, NEW c \in Costs, Execute(u, g, c)
      PROVE  CleanInv'
  <2>1. /\ doing' = [stage |-> "effect", grant |-> g, cost |-> c]
        /\ run[g] \in {"absent", "failed"} /\ run' = [run EXCEPT ![g] = "running"]
        /\ UNCHANGED <<resources, paid, grantStatus, grantPackage, work>>
    BY <1>1 DEF Execute, governanceVars, grantVars, packageVars
  <2> QED
    BY <1>0, <2>1 DEF FoundryTypeOK, Issued, Action
<1>2. CASE Refuse
  <2>1. /\ doing.stage = "effect" /\ Close("failed")
        /\ UNCHANGED <<resources, paid, grantStatus, grantPackage, work>>
    BY <1>2 DEF Refuse, At, governanceVars, grantVars, packageVars
  <2> QED
    BY <1>0, <2>1 DEF FoundryTypeOK, DoingOK, Issued, Action, Close, Idle
<1>3. ASSUME NEW g \in Grants, CreateAgent(g) \/ Deploy(g) \/ StoreReceipt(g)
      PROVE  CleanInv'
  <2>1. /\ doing.grant = g /\ doing' = [doing EXCEPT !.stage = "consume"]
        /\ doing.stage # "idle" /\ resources' = resources \cup {g}
        /\ UNCHANGED <<run, paid, grantStatus, grantPackage, work>>
    BY <1>3 DEF CreateAgent, Deploy, Deploying, StoreReceipt, At, Goto,
                governanceVars, grantVars, packageVars
  <2> QED
    BY <1>0, <2>1 DEF FoundryTypeOK, DoingOK, Issued, Action
<1>4. ASSUME NEW g \in Grants, Pay(g)
      PROVE  CleanInv'
  <2>1. /\ doing.grant = g /\ doing' = [doing EXCEPT !.stage = "receipt"]
        /\ doing.stage = "effect" /\ paid' = [paid EXCEPT ![g] = @ + 1]
        /\ Action(g) = "spend_budget"
        /\ UNCHANGED <<run, resources, grantStatus, grantPackage, work>>
    BY <1>4 DEF Pay, At, Goto, governanceVars, grantVars, packageVars
  <2>2. paid[g] = 0 /\ run[g] = "running" /\ grantStatus[g] = "active"
    BY <1>0, <2>1 DEF DoingOK
  <2> QED
    BY <1>0, <2>1, <2>2 DEF FoundryTypeOK, Issued, Action
<1>5. CASE LoseAnswer \/ SettleFails \/ \E g \in Grants : DeployHalfway(g)
  BY <1>5 DEF LoseAnswer, SettleFails, DeployHalfway
<1>6. CASE ConsumeAfter
  <2>1. /\ doing.stage = "consume" /\ doing'.stage # "effect"
        /\ UNCHANGED <<run, resources, paid, grantPackage, work>>
        /\ \A g \in Grants : grantStatus[g] # "absent" => grantStatus'[g] # "absent"
    BY <1>0, <1>6 DEF ConsumeAfter, ConsumeGrant, At, Goto, governanceVars,
                      grantVars, packageVars, FoundryTypeOK, GovernanceTypeOK
  <2> QED
    BY <2>1 DEF Issued, Action
<1>7. CASE Settle
  <2>1. /\ doing.stage = "settle" /\ Close("succeeded")
        /\ UNCHANGED <<resources, paid, grantStatus, grantPackage, work>>
    BY <1>7 DEF Settle, At, governanceVars, grantVars, packageVars
  <2> QED
    BY <1>0, <2>1 DEF FoundryTypeOK, Issued, Action, Close, Idle
<1>8. CASE Undo
  <2>1. /\ doing.stage = "undo" /\ doing.grant \in Grants
        /\ \/ /\ ~ Pays(doing.grant) /\ Close("failed")
              /\ resources' = resources \ {doing.grant}
           \/ Close("reconciliation_required") /\ UNCHANGED resources
        /\ UNCHANGED <<paid, grantStatus, grantPackage, work>>
    BY <1>0, <1>8 DEF Undo, At, DoingOK, governanceVars, grantVars, packageVars
  <2>2. ~ Pays(doing.grant) => paid[doing.grant] = 0
    BY <1>0, <2>1 DEF FoundryTypeOK
  <2> QED
    BY <1>0, <2>1, <2>2 DEF FoundryTypeOK, Issued, Action, Close, Idle
<1>9. CASE Crash
  BY <1>9 DEF Crash, Issued, Action, Idle, governanceVars, grantVars, packageVars
<1> QED
  BY <1>1, <1>2, <1>3, <1>4, <1>5, <1>6, <1>7, <1>8, <1>9 DEF FoundryStep

LEMMA DoneInductive == "disk" \notin Faults => (Spec => []DoneInv)
<1> SUFFICES ASSUME "disk" \notin Faults PROVE Spec => []DoneInv
  OBVIOUS
<1>1. Init => DoneInv
  BY FoundryInitHolds DEF Init, GovernanceInit, DoneInv, ConsumedMeansDone, Idle
<1>2. DoneInv /\ [Next]_vars => DoneInv'
  <2> SUFFICES ASSUME DoneInv, [Next]_vars PROVE DoneInv'
    OBVIOUS
  <2>1. FoundryInv'
    BY FoundryStepHolds DEF DoneInv
  <2> QED
    BY <2>1, KernelKeepsDone, FoundryKeepsDone DEF Next
<1> QED
  BY <1>1, <1>2, PTL DEF Spec

LEMMA CleanInductive == Faults = {} => (Spec => []CleanInv)
<1> SUFFICES ASSUME Faults = {} PROVE Spec => []CleanInv
  OBVIOUS
<1>1. Init => CleanInv
  BY FoundryInitHolds DEF Init, CleanInv, PaidOnce, Idle
<1>2. CleanInv /\ [Next]_vars => CleanInv'
  <2> SUFFICES ASSUME CleanInv, [Next]_vars PROVE CleanInv'
    OBVIOUS
  <2>1. FoundryInv'
    BY FoundryStepHolds DEF CleanInv
  <2> QED
    BY <2>1, KernelKeepsClean, FoundryKeepsClean DEF Next
<1> QED
  BY <1>1, <1>2, PTL DEF Spec

(* executeAction, on a disk that works and whether or not answers arrive:  *)
(* a consumed grant of a sensitive action has had its effect.              *)
THEOREM ConsumedTheorem == "disk" \notin Faults => (Spec => []ConsumedMeansDone)
<1>1. DoneInv => ConsumedMeansDone
  BY DEF DoneInv
<1> QED
  BY <1>1, DoneInductive, PTL

(* Without faults, whatever crashes, lapses and is retried: a failed run   *)
(* left nothing behind.                                                    *)
THEOREM FailedTheorem == Faults = {} => (Spec => []FailedMeansUndone)
<1>1. CleanInv => FailedMeansUndone
  BY DEF CleanInv, FailedMeansUndone
<1> QED
  BY <1>1, CleanInductive, PTL

(* Without faults no grant pays twice.                                     *)
THEOREM PaidOnceTheorem == Faults = {} => (Spec => []PaidOnce)
<1>1. CleanInv => PaidOnce
  BY DEF CleanInv
<1> QED
  BY <1>1, CleanInductive, PTL

(* Without faults what was done under a grant that was not consumed is     *)
(* under a run that is marked, or still says running.                      *)
THEOREM LooseEndsTheorem == Faults = {} => (Spec => []LooseEndsAreMarked)
<1>1. CleanInv => LooseEndsAreMarked
  BY DEF CleanInv, LooseEndsAreMarked, FoundryInv, FoundryTypeOK, LedgerMatchesReceipts,
         RunStates
<1> QED
  BY <1>1, CleanInductive, PTL
==============================================================================
