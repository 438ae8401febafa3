------------------------- MODULE MissionEngineProofs -------------------------
(***************************************************************************)
(* The mission engine's invariants for any number of missions and jobs.    *)
(*                                                                         *)
(* None of the invariants of MissionEngine is inductive alone: a failed    *)
(* mission becomes queued again by the requeue trigger, so consent has to  *)
(* be known of failed missions too (Consented), a second decision is only  *)
(* refused because of what the mission's status says about the approval    *)
(* record (Undecided, Refused), and an outcome excludes a later one only   *)
(* because it is never found in a status complete() accepts.               *)
(***************************************************************************)
EXTENDS MissionEngine, TLAPS

Consented == {"approved", "queued", "running", "paused", "blocked",
              "completed", "failed"}
Early     == {"absent", "draft", "validated", "planned"}

EngineInv ==
  /\ EngineTypeOK
  /\ \A m \in Missions :
       /\ mission[m] \in Consented => approval[m] = "approved"
       /\ mission[m] \in Early => approval[m] = "none"
       /\ mission[m] = "awaiting_approval" => approval[m] = "pending"
       /\ approval[m] = "rejected"
            => mission[m] \in {"cancelled", "evaluated", "learned"}
       /\ outcomes[m] > 0 => mission[m] \in {"completed", "evaluated", "learned"}
       /\ outcomes[m] <= 1
       /\ capabilities[m] = IF mission[m] = "learned" THEN 1 ELSE 0

(* The table as a case distinction.                                        *)
LEMMA TransitionCases ==
  ASSUME NEW from, NEW to, CanTransition(from, to)
  PROVE  /\ from \in MissionStates /\ to \in MissionStates
         /\ to = "validated" => from = "draft"
         /\ to = "planned" => from = "validated"
         /\ to = "awaiting_approval" => from = "planned"
         /\ to = "approved" => from = "awaiting_approval"
         /\ to = "queued" => from = "approved"
         /\ to = "running" => from \in {"queued", "paused", "blocked"}
         /\ to \in {"completed", "failed"} => from = "running"
         /\ to = "evaluated" => from \in {"completed", "failed", "cancelled"}
         /\ to = "cancelled" => from \in Early \cup Consented \cup {"awaiting_approval"}
         /\ to = "cancelled" => from \notin {"absent", "running", "completed"}
  BY DEF CanTransition, ValidTransitions, MissionStates, Early, Consented

LEMMA WorkMoves ==
  ASSUME NEW from, NEW to, CanTransition(from, to),
         to \in {"queued", "running", "paused", "blocked", "failed"}
  PROVE  from \in {"approved", "queued", "running", "paused", "blocked"}
  BY DEF CanTransition, ValidTransitions

LEMMA TransitionTargets ==
  ASSUME NEW from, NEW to, CanTransition(from, to), to # "learned"
  PROVE  to \in {"validated", "planned", "awaiting_approval", "approved",
                 "queued", "running", "paused", "blocked", "failed",
                 "completed", "cancelled", "evaluated"}
  BY DEF CanTransition, ValidTransitions

LEMMA CancelledMoves ==
  ASSUME NEW to, CanTransition("cancelled", to)
  PROVE  to = "evaluated"
  BY DEF CanTransition, ValidTransitions

LEMMA EngineInvInit == EngineInit => EngineInv
  BY DEF EngineInit, EngineInv, EngineTypeOK, Consented, Early

LEMMA EngineInvStep == EngineInv /\ [EngineNext]_engineVars => EngineInv'
<1> SUFFICES ASSUME EngineInv, [EngineNext]_engineVars PROVE EngineInv'
  OBVIOUS
<1> USE DEF EngineInv, EngineTypeOK, Consented, Early
<1>1. CASE UNCHANGED engineVars
  BY <1>1 DEF engineVars
<1>2. ASSUME NEW m \in Missions, CreateMission(m) PROVE EngineInv'
  BY <1>2 DEF CreateMission, SetStatus, MissionStates
<1>3. ASSUME NEW m \in Missions, ValidateMission(m) PROVE EngineInv'
  BY <1>3, TransitionCases DEF ValidateMission, Transition, SetStatus
<1>4. ASSUME NEW m \in Missions, PlanMission(m) PROVE EngineInv'
  BY <1>4, TransitionCases DEF PlanMission, Transition, SetStatus
<1>5. ASSUME NEW m \in Missions, RequestApproval(m) PROVE EngineInv'
  BY <1>5, TransitionCases DEF RequestApproval, Transition, SetStatus
<1>6. ASSUME NEW m \in Missions, NEW d \in {"approved", "rejected"},
             DecideApproval(m, d)
      PROVE  EngineInv'
  BY <1>6, TransitionCases DEF DecideApproval, Transition, SetStatus
<1>7. ASSUME NEW m \in Missions, AssignAgent(m) PROVE EngineInv'
  BY <1>7, TransitionCases DEF AssignAgent, Transition, SetStatus
<1>8. ASSUME NEW m \in Missions, Execute(m) PROVE EngineInv'
  BY <1>8, TransitionCases DEF Execute, Transition, SetStatus
<1>9. ASSUME NEW m \in Missions, Complete(m) PROVE EngineInv'
  BY <1>9, TransitionCases DEF Complete, CanComplete, Transition, SetStatus
<1>10. ASSUME NEW m \in Missions, FailMission(m) PROVE EngineInv'
  BY <1>10, TransitionCases DEF FailMission, Transition, SetStatus
<1>11. ASSUME NEW m \in Missions, Evaluate(m) PROVE EngineInv'
  BY <1>11, TransitionCases DEF Evaluate, Transition, SetStatus
<1>12. ASSUME NEW m \in Missions, LearnCapability(m) PROVE EngineInv'
  BY <1>12 DEF LearnCapability, SetStatus, MissionStates
<1>13. ASSUME NEW m \in Missions, CancelMission(m) PROVE EngineInv'
  BY <1>13, TransitionCases DEF CancelMission, Transition, SetStatus
<1>14. ASSUME NEW m \in Missions, RequeueMission(m) PROVE EngineInv'
  BY <1>14 DEF RequeueMission, MissionStates
<1>15. ASSUME NEW m \in Missions, NEW j \in Jobs, LinkOutcome(m, j)
       PROVE  EngineInv'
  BY <1>15 DEF LinkOutcome
<1>16. ASSUME NEW S \in SUBSET Missions, MissionFailure(S) PROVE EngineInv'
  BY <1>16 DEF MissionFailure, Interruptible, MissionStates
<1> QED
  BY <1>1, <1>2, <1>3, <1>4, <1>5, <1>6, <1>7, <1>8, <1>9, <1>10, <1>11,
     <1>12, <1>13, <1>14, <1>15, <1>16 DEF EngineNext

(* EngineInv is an invariant of the mission engine on its own.             *)
THEOREM EngineInvariance == EngineSpec => []EngineInv
  BY EngineInvInit, EngineInvStep, PTL DEF EngineSpec

(* The type invariant.                                                     *)
THEOREM EngineTypeCorrect == EngineSpec => []EngineTypeOK
<1>1. EngineInv => EngineTypeOK
  BY DEF EngineInv
<1> QED
  BY <1>1, EngineInvariance, PTL

(* No mission is approved, queued, running or completed without an         *)
(* approval record that says so, whatever is requeued or decided late.     *)
THEOREM ConsentTheorem == EngineSpec => []ApprovedBeforeWork
<1>1. EngineInv => ApprovedBeforeWork
  BY DEF EngineInv, ApprovedBeforeWork, Consented
<1> QED
  BY <1>1, EngineInvariance, PTL

(* A mission with an outcome is past execution for good.                   *)
THEOREM OutcomeTheorem == EngineSpec => []OutcomeMeansFinished
<1>1. EngineInv => OutcomeMeansFinished
  BY DEF EngineInv, OutcomeMeansFinished
<1> QED
  BY <1>1, EngineInvariance, PTL

(* A learned mission has one capability, any other none.                   *)
THEOREM CapabilityTheorem == EngineSpec => []OneCapability
<1>1. EngineInv => OneCapability
  BY DEF EngineInv, OneCapability
<1> QED
  BY <1>1, EngineInvariance, PTL

-----------------------------------------------------------------------------
(* The action properties.                                                  *)

LEMMA CancelledStep ==
  ASSUME EngineInv, [EngineNext]_engineVars, NEW m \in Missions,
         mission[m] = "cancelled"
  PROVE  mission'[m] \in {"cancelled", "evaluated"}
<1> USE DEF EngineInv, EngineTypeOK
<1>1. CASE UNCHANGED engineVars
  BY <1>1 DEF engineVars
<1>2. ASSUME NEW n \in Missions, NEW to, Transition(n, to) 
      PROVE  mission'[m] \in {"cancelled", "evaluated"}
  BY <1>2, CancelledMoves DEF Transition, SetStatus
<1>3. ASSUME NEW n \in Missions,
             CreateMission(n) \/ LearnCapability(n) \/ RequeueMission(n)
               \/ \E j \in Jobs : LinkOutcome(n, j)
      PROVE  mission'[m] \in {"cancelled", "evaluated"}
  BY <1>3 DEF CreateMission, LearnCapability, RequeueMission, LinkOutcome,
              SetStatus
<1>4. ASSUME NEW S \in SUBSET Missions, MissionFailure(S)
      PROVE  mission'[m] \in {"cancelled", "evaluated"}
  BY <1>4 DEF MissionFailure, Interruptible
<1> QED
  BY <1>1, <1>2, <1>3, <1>4
  DEF EngineNext, ValidateMission, PlanMission, RequestApproval,
      DecideApproval, AssignAgent, Execute, Complete, FailMission, Evaluate,
      CancelMission

(* A cancelled mission is never worked on again.                           *)
THEOREM CancelledTheorem == EngineSpec => CancelledStaysCancelled
<1>1. EngineInv /\ [EngineNext]_engineVars
        => [\A m \in Missions : mission[m] = "cancelled"
               => mission'[m] \in {"cancelled", "evaluated"}]_engineVars
  BY CancelledStep
<1> QED
  BY <1>1, EngineInvariance, PTL DEF EngineSpec, CancelledStaysCancelled

LEMMA RejectedStep ==
  ASSUME EngineInv, [EngineNext]_engineVars, NEW m \in Missions,
         approval[m] = "rejected"
  PROVE  approval'[m] = "rejected"
<1> USE DEF EngineInv, EngineTypeOK
<1>1. CASE UNCHANGED engineVars
  BY <1>1 DEF engineVars
<1>2. ASSUME NEW n \in Missions, RequestApproval(n)
      PROVE  approval'[m] = "rejected"
  BY <1>2, TransitionCases DEF RequestApproval, Transition
<1>3. ASSUME NEW n \in Missions, NEW d \in {"approved", "rejected"},
             DecideApproval(n, d)
      PROVE  approval'[m] = "rejected"
  BY <1>3, TransitionCases DEF DecideApproval, Transition
<1>4. CASE UNCHANGED approval
  BY <1>4
<1> QED
  BY <1>1, <1>2, <1>3, <1>4
  DEF EngineNext, CreateMission, ValidateMission, PlanMission, AssignAgent,
      Execute, Complete, FailMission, Evaluate, LearnCapability, LinkOutcome,
      CancelMission, RequeueMission, MissionFailure

(* A rejection is final.                                                   *)
THEOREM RejectionTheorem == EngineSpec => RejectionIsFinal
<1>1. EngineInv /\ [EngineNext]_engineVars
        => [\A m \in Missions : approval[m] = "rejected"
               => approval'[m] = "rejected"]_engineVars
  BY RejectedStep
<1> QED
  BY <1>1, EngineInvariance, PTL DEF EngineSpec, RejectionIsFinal

-----------------------------------------------------------------------------
(* The engine implements MissionContract: an engine step moves at most one *)
(* mission's phase, and only where the contract allows it.                 *)

Phases == [m \in Missions |-> Phase(m)]

(* A step that leaves what Phase reads of every other mission alone moves  *)
(* the phase of one mission.                                               *)
LEMMA OnePhaseMoves ==
  ASSUME NEW m \in Missions,
         \A n \in Missions \ {m} : /\ mission'[n]  = mission[n]
                                   /\ approval'[n] = approval[n]
                                   /\ outcomes'[n] = outcomes[n]
  PROVE  Phases' = [Phases EXCEPT ![m] = Phase(m)']
<1>1. \A n \in Missions \ {m} : Phase(n)' = Phase(n)
  BY DEF Phase
<1> QED
  BY <1>1 DEF Phases

(* A contract step, or a stutter, from the phases of one mission.          *)
LEMMA ContractMove ==
  ASSUME NEW m \in Missions,
         Phases' = [Phases EXCEPT ![m] = Phase(m)'],
         capabilities' = capabilities,
         \/ Phase(m)' = Phase(m)
         \/ Phase(m) = "open"      /\ Phase(m)' \in {"cleared", "withdrawn"}
         \/ Phase(m) = "cleared"   /\ Phase(m)' \in {"delivered", "withdrawn", "closed"}
         \/ Phase(m) = "withdrawn" /\ Phase(m)' = "closed"
  PROVE  [Contract!Next]_(Contract!contractVars)
<1>1. /\ Phases \in [Missions -> {Phase(n) : n \in Missions}]
      /\ \A n \in Missions : Phases[n] = Phase(n)
  BY DEF Phases
<1>2. CASE Phase(m)' = Phase(m)
  <2>1. Phases' = Phases
    BY <1>1, <1>2
  <2> QED
    BY <2>1 DEF Contract!contractVars, Phases
<1>3. CASE Phase(m)' # Phase(m)
  <2>1. Contract!Clear(m) \/ Contract!Withdraw(m) \/ Contract!Deliver(m)
          \/ Contract!Close(m)
    BY <1>1, <1>3
    DEF Contract!Clear, Contract!Withdraw, Contract!Deliver, Contract!Close,
        Contract!Move, Phases
  <2> QED
    BY <2>1 DEF Contract!Next
<1> QED
  BY <1>2, <1>3

(* A step of mission m to status `to' that learns nothing: what every      *)
(* action but missionFailure, linking and learning is.                     *)
MovesTo(m, to) ==
  /\ to \in MissionStates \ {"learned"}
  /\ mission' = [mission EXCEPT ![m] = to]
  /\ capabilities' = capabilities
  /\ \/ CanTransition(mission[m], to)
     \/ mission[m] = "absent" /\ to = "draft"
     \/ mission[m] = "failed" /\ to = "queued"
  /\ \/ to = "approved" /\ approval' = [approval EXCEPT ![m] = "approved"]
     \/ to = "cancelled" /\ approval' = [approval EXCEPT ![m] = "rejected"]
     \/ to = "awaiting_approval" /\ approval' = [approval EXCEPT ![m] = "pending"]
     \/ to # "approved" /\ approval' = approval
  /\ \/ to = "completed" /\ outcomes' = [outcomes EXCEPT ![m] = outcomes[m] + 1]
     \/ to # "completed" /\ outcomes' = outcomes

LEMMA MoveRefines ==
  ASSUME EngineInv, NEW m \in Missions, NEW to, MovesTo(m, to)
  PROVE  [Contract!Next]_(Contract!contractVars)
<1> USE DEF EngineInv, EngineTypeOK, Consented, Early, MovesTo
<1>1. Phases' = [Phases EXCEPT ![m] = Phase(m)']
  BY OnePhaseMoves
<1>2. \/ Phase(m)' = Phase(m)
      \/ Phase(m) = "open"      /\ Phase(m)' \in {"cleared", "withdrawn"}
      \/ Phase(m) = "cleared"   /\ Phase(m)' \in {"delivered", "withdrawn", "closed"}
      \/ Phase(m) = "withdrawn" /\ Phase(m)' = "closed"
  <2>1. /\ mission'[m] = to
        /\ outcomes'[m] = IF to = "completed" THEN outcomes[m] + 1 ELSE outcomes[m]
        /\ approval'[m] \in {"approved", "rejected", "pending", approval[m]}
        /\ to = "approved" => approval'[m] = "approved"
        /\ to = "cancelled" => approval'[m] \in {"rejected", approval[m]}
        /\ to \notin {"approved", "cancelled", "awaiting_approval"}
             => approval'[m] = approval[m]
        /\ to = "awaiting_approval" => approval'[m] \in {"pending", approval[m]}
    OBVIOUS
  <2>2. CASE CanTransition(mission[m], to)
    <3>1. CASE to \in {"validated", "planned", "awaiting_approval", "approved"}
      BY <2>1, <2>2, <3>1, TransitionCases DEF Phase
    <3>2. CASE to \in {"queued", "running", "paused", "blocked", "failed"}
      BY <2>1, <2>2, <3>2, WorkMoves DEF Phase
    <3>3. CASE to = "completed"
      BY <2>1, <2>2, <3>3, TransitionCases DEF Phase
    <3>4. CASE to = "cancelled"
      BY <2>1, <2>2, <3>4, TransitionCases DEF Phase
    <3>5. CASE to = "evaluated"
      BY <2>1, <2>2, <3>5, TransitionCases DEF Phase
    <3> QED
      BY <2>2, <3>1, <3>2, <3>3, <3>4, <3>5, TransitionTargets
  <2>3. CASE mission[m] = "absent" /\ to = "draft"
    BY <2>1, <2>3 DEF Phase
  <2>4. CASE mission[m] = "failed" /\ to = "queued"
    BY <2>1, <2>4 DEF Phase
  <2> QED
    BY <2>2, <2>3, <2>4
<1> QED
  BY <1>1, <1>2, ContractMove

LEMMA RefinementStep ==
  ASSUME EngineInv, [EngineNext]_engineVars
  PROVE  [Contract!Next]_(Contract!contractVars)
<1> USE DEF EngineInv, EngineTypeOK, Consented, Early
<1>1. CASE UNCHANGED engineVars
  BY <1>1 DEF engineVars, Contract!contractVars, Phase
<1>2. ASSUME NEW m \in Missions, NEW to, Transition(m, to),
             to \notin {"learned", "approved", "completed"},
             capabilities' = capabilities, outcomes' = outcomes,
             \/ approval' = approval
             \/ to = "cancelled" /\ approval' = [approval EXCEPT ![m] = "rejected"]
             \/ to = "awaiting_approval" /\ approval' = [approval EXCEPT ![m] = "pending"]
      PROVE  MovesTo(m, to)
  BY <1>2, TransitionCases DEF Transition, SetStatus, MovesTo
<1>3. ASSUME NEW m \in Missions, CreateMission(m)
      PROVE  MovesTo(m, "draft")
  BY <1>3 DEF CreateMission, SetStatus, MovesTo, MissionStates
<1>4. ASSUME NEW m \in Missions,
             \/ ValidateMission(m) \/ PlanMission(m) \/ RequestApproval(m)
             \/ AssignAgent(m) \/ Execute(m) \/ FailMission(m)
             \/ Evaluate(m) \/ CancelMission(m) \/ DecideApproval(m, "rejected")
      PROVE  \E to : MovesTo(m, to)
  BY <1>4, <1>2
  DEF ValidateMission, PlanMission, RequestApproval, AssignAgent, Execute,
      FailMission, Evaluate, CancelMission, DecideApproval
<1>5. ASSUME NEW m \in Missions, DecideApproval(m, "approved")
      PROVE  MovesTo(m, "approved")
  BY <1>5 DEF DecideApproval, Transition, SetStatus, MovesTo, MissionStates
<1>6. ASSUME NEW m \in Missions, Complete(m)
      PROVE  MovesTo(m, "completed")
  BY <1>6 DEF Complete, Transition, SetStatus, MovesTo, MissionStates
<1>7. ASSUME NEW m \in Missions, RequeueMission(m), mission[m] = "failed"
      PROVE  MovesTo(m, "queued")
  BY <1>7 DEF RequeueMission, MovesTo, MissionStates
<1>8. ASSUME NEW m \in Missions, RequeueMission(m), mission[m] # "failed"
      PROVE  [Contract!Next]_(Contract!contractVars)
  <2>1. mission' = mission
    BY <1>8 DEF RequeueMission
  <2> QED
    BY <1>8, <2>1 DEF RequeueMission, Contract!contractVars, Phase
<1>9. ASSUME NEW m \in Missions, NEW j \in Jobs, LinkOutcome(m, j)
      PROVE  [Contract!Next]_(Contract!contractVars)
  BY <1>9 DEF LinkOutcome, Contract!contractVars, Phase
(* Giving a mission up does not move its phase: it stays cleared.          *)
<1>10. ASSUME NEW S \in SUBSET Missions, MissionFailure(S)
       PROVE  [Contract!Next]_(Contract!contractVars)
  <2>1. \A m \in Missions : Phase(m)' = Phase(m)
    BY <1>10 DEF MissionFailure, Interruptible, Phase
  <2> QED
    BY <1>10, <2>1 DEF MissionFailure, Contract!contractVars
(* Learning banks the capability of a mission that is over.                *)
<1>11. ASSUME NEW m \in Missions, LearnCapability(m)
       PROVE  [Contract!Next]_(Contract!contractVars)
  <2>1. \A n \in Missions : Phase(n)' = Phase(n)
    BY <1>11 DEF LearnCapability, SetStatus, Phase
  <2>2. Phase(m) \in {"delivered", "closed"} /\ capabilities[m] = 0
    BY <1>11 DEF LearnCapability, Phase
  <2>3. Contract!Bank(m)
    BY <1>11, <2>1, <2>2 DEF LearnCapability, Contract!Bank
  <2> QED
    BY <2>3 DEF Contract!Next
<1> QED
  BY <1>1, <1>3, <1>4, <1>5, <1>6, <1>7, <1>8, <1>9, <1>10, <1>11, MoveRefines
  DEF EngineNext

(* Delivered at most once and only after consent, never after an end;      *)
(* learned from at most once.                                              *)
THEOREM ContractTheorem == EngineSpec => ImplementsContract
<1>1. EngineInit => Contract!Init
  BY DEF EngineInit, Contract!Init, Phase
<1>2. EngineInv /\ [EngineNext]_engineVars
        => [Contract!Next]_(Contract!contractVars)
  BY RefinementStep
<1> QED
  BY <1>1, <1>2, EngineInvariance, PTL
  DEF EngineSpec, ImplementsContract, Contract!Spec

=============================================================================
