----------------------------- MODULE CompanyProofs -----------------------------
(***************************************************************************)
(* Operator and agents of any number of companies, with any plan length,   *)
(* tasks, dependencies, attempts and concurrent callers, and with whatever *)
(* other callers of the mission engine do.                                 *)
(*                                                                         *)
(* UndecidedMeansUntouched rests on the mission's status alone, since that *)
(* of the company and of the team may be "active" without an approval.     *)
(* BuiltOnArtifacts must be known of the callers that hold a task, because *)
(* one that was overtaken still completes it.                              *)
(*                                                                         *)
(* The guarantees of the mission engine are carried over as well, since    *)
(* EngineInv also holds after each of the operator's longer steps.         *)
(***************************************************************************)
EXTENDS CompanyRuntime, MissionEngineProofs

USE PlanAssumption, NullAssumption

Undecided == {"absent", "awaiting_approval"}

Untouched == \A m \in Missions : mission[m] \in Undecided => NothingStarted(m)

HasArtifact(m, k) == proof[m][k] # 0 /\ file[m][FileOf[m][k]] # NoOutput

BuiltUpon(m, k) == \A d \in needs[m][k] : HasArtifact(m, d)

Delivered ==
  \A m \in Missions, k \in Tasks :
    task[m][k] = "completed" => HasArtifact(m, k)

Started(m, k, n) == n # 0 /\ task[m][k] # "absent" /\ BuiltUpon(m, k)

RunsAreStarted ==
  \A r \in Runs : run[r] # NoRun =>
    Started(run[r].company, run[r].task, run[r].attempt)

CompanyInv ==
  /\ TypeOK /\ Untouched /\ Delivered /\ BuiltOnArtifacts /\ RunsAreStarted
  /\ "torn" \notin Faults => ProofMatches

-----------------------------------------------------------------------------
LEMMA InitCompany == ASSUME Init PROVE CompanyInv
<1>1. EngineTypeOK
  BY DEF Init, OperatorInit, EngineInit, EngineTypeOK
<1>2. TypeOK
  BY <1>1 DEF Init, OperatorInit, TypeOK, OperatorTypeOK, ActionStates
<1>3. Untouched
  BY DEF Init, OperatorInit, Untouched, NothingStarted
<1> QED
  BY <1>2, <1>3 DEF Init, CompanyInv, Delivered, BuiltOnArtifacts,
     RunsAreStarted, Started, ProofMatches

-----------------------------------------------------------------------------
(* The operator and the engine's other callers.                            *)

(* What such a step may do to missions and plans.                          *)
OperatorMoves ==
  /\ OperatorTypeOK'
  /\ \A m \in Missions :
       mission'[m] \in Undecided => /\ mission[m] \in Undecided
                                    /\ plan'[m] = plan[m]

LEMMA TransitionTarget ==
  ASSUME NEW from, NEW to, CanTransition(from, to)
  PROVE  to \in MissionStates /\ (to = "awaiting_approval" => from = "planned")
BY DEF CanTransition, ValidTransitions, MissionStates

LEMMA TransitionMoves ==
  ASSUME OperatorTypeOK, NEW m \in Missions,
         NEW to \in MissionStates \ {"awaiting_approval"},
         SetStatus(m, to), EngineTypeOK', UNCHANGED operatorVars
  PROVE  OperatorMoves
BY DEF OperatorTypeOK, EngineTypeOK, SetStatus, operatorVars, OperatorMoves,
       Undecided, MissionStates

LEMMA CallersMove ==
  ASSUME OperatorTypeOK, NEW m \in Missions, EngineCallers(m)
  PROVE  OperatorMoves
<1> USE DEF OperatorTypeOK
<1>1. UNCHANGED operatorVars
  BY DEF EngineCallers
<1>2. ASSUME NEW to \in {"approved", "cancelled", "queued", "running", "failed",
                         "completed", "evaluated"},
             Transition(m, to),
             \/ UNCHANGED <<approval, outcomes, outcomeJob, capabilities>>
             \/ \E d \in {"approved", "rejected"} :
                  /\ approval' = [approval EXCEPT ![m] = d]
                  /\ UNCHANGED <<outcomes, outcomeJob, capabilities>>
             \/ /\ outcomes'   = [outcomes EXCEPT ![m] = @ + 1]
                /\ outcomeJob' = [outcomeJob EXCEPT ![m] = NoJob]
                /\ UNCHANGED <<approval, capabilities>>
      PROVE  OperatorMoves
  <2>1. mission' \in [Missions -> MissionStates \cup {"absent"}]
    BY <1>2 DEF EngineTypeOK, Transition, SetStatus, MissionStates
  <2>2. approval' \in [Missions -> {"none", "pending", "approved", "rejected"}]
    BY <1>2 DEF EngineTypeOK
  <2>3. outcomes' \in [Missions -> Nat]
    BY <1>2 DEF EngineTypeOK
  <2>4. capabilities' \in [Missions -> Nat]
    BY <1>2 DEF EngineTypeOK
  <2>5. outcomeJob' \in [Missions -> Jobs \cup {NoJob}]
    BY <1>2 DEF EngineTypeOK
  <2> QED
    BY <1>1, <1>2, <2>1, <2>2, <2>3, <2>4, <2>5, TransitionMoves
    DEF EngineTypeOK, Transition, MissionStates
<1>3. ASSUME NEW d \in {"approved", "rejected"}, DecideApproval(m, d)
      PROVE  OperatorMoves
  BY <1>2, <1>3 DEF DecideApproval
<1>4. CASE AssignAgent(m) \/ Execute(m) \/ Complete(m) \/ FailMission(m)
           \/ Evaluate(m) \/ CancelMission(m)
  BY <1>2, <1>4 DEF AssignAgent, Execute, Complete, FailMission, Evaluate,
     CancelMission
<1>5. CASE LearnCapability(m)
  <2>1. EngineTypeOK'
    BY <1>5 DEF LearnCapability, EngineTypeOK, SetStatus, MissionStates
  <2> QED
    BY <1>1, <1>5, <2>1, TransitionMoves DEF LearnCapability, MissionStates
<1>6. CASE MissionFailure({m})
  <2>1. EngineTypeOK'
    BY <1>6 DEF MissionFailure, EngineTypeOK, MissionStates
  <2> QED
    BY <1>1, <1>6, <2>1 DEF MissionFailure, operatorVars, OperatorMoves,
       Undecided
<1>7. CASE RequeueMission(m)
  <2>1. EngineTypeOK'
    BY <1>7 DEF RequeueMission, EngineTypeOK, MissionStates
  <2> QED
    BY <1>1, <1>7, <2>1 DEF RequeueMission, operatorVars, OperatorMoves,
       Undecided, EngineTypeOK
<1> QED
  BY <1>3, <1>4, <1>5, <1>6, <1>7 DEF EngineCallers

LEMMA OwnerMoves ==
  ASSUME OperatorTypeOK, NEW m \in Missions,
         \/ CreateCompany(m)
         \/ \E to \in {"active", "paused", "stopped"} : ControlCompany(m, to)
         \/ \E end \in Ends : EvaluateContract(m, end)
  PROVE  OperatorMoves
<1> USE DEF OperatorTypeOK
<1>1. CASE CreateCompany(m)
  <2>1. EngineTypeOK'
    BY <1>1 DEF CreateCompany, SetStatus, EngineTypeOK, MissionStates
  <2> QED
    BY <1>1, <2>1 DEF CreateCompany, SetStatus, OperatorMoves, Undecided,
       EngineTypeOK
<1>2. CASE \/ \E to \in {"active", "paused", "stopped"} : ControlCompany(m, to)
           \/ \E end \in Ends : EvaluateContract(m, end)
  <2>1. UNCHANGED <<engineVars, activation, plan>>
        /\ \E s \in {"active", "paused", "stopped", "completed"} :
             company' = [company EXCEPT ![m] = s]
    BY <1>2 DEF ControlCompany, EvaluateContract, Ends
  <2> QED
    BY <2>1 DEF OperatorMoves, EngineTypeOK, engineVars
<1> QED
  BY <1>1, <1>2

LEMMA ApproveMoves ==
  ASSUME OperatorTypeOK, NEW m \in Missions, NEW n, ApproveCompany(m, n)
  PROVE  OperatorMoves
<1> USE DEF OperatorTypeOK
<1>1. EngineTypeOK'
  BY DEF ApproveCompany, SetStatus, EngineTypeOK, MissionStates
<1> QED
  BY <1>1 DEF ApproveCompany, SetStatus, OperatorMoves, Undecided, EngineTypeOK

-----------------------------------------------------------------------------
(* The operator's ticks.                                                   *)

LEMMA NotDone ==
  ASSUME NEW m \in Missions, NothingStarted(m)
  PROVE  ~PlanDone(m)
BY DEF NothingStarted, PlanDone, Steps

LEMMA TicksUnderWork ==
  ASSUME OperatorTypeOK, NEW m \in Missions, MayTick(m)
  PROVE  Begun(m) \in MissionStates \ Undecided
BY DEF MayTick, Executable, MissionStates, Undecided

LEMMA PlanMoves ==
  ASSUME OperatorTypeOK, NEW m \in Missions, NEW s,
         NEW result \in ActionStates, NEW status,
         status \in {"active", "paused", company[m]},
         MayTick(m), SetStatus(m, Begun(m)), Begins(m),
         plan' = [plan EXCEPT ![m][s] = result],
         company' = [company EXCEPT ![m] = status],
         UNCHANGED <<approval, outcomes, outcomeJob, capabilities>>
  PROVE  OperatorMoves
<1> USE DEF OperatorTypeOK
<1>1. Begun(m) \in MissionStates \ Undecided
  BY TicksUnderWork
<1>2. EngineTypeOK'
  BY <1>1 DEF SetStatus, EngineTypeOK
<1>3. plan' \in [Missions -> [Steps -> ActionStates]]
  OBVIOUS
<1>4. activation' \in [Missions -> {"planned", "queued", "running", "learned"}]
  BY DEF Begins
<1>5. \A x \in Missions : mission'[x] \in Undecided =>
        mission[x] \in Undecided /\ plan'[x] = plan[x]
  BY <1>1 DEF SetStatus, EngineTypeOK
<1> QED
  BY <1>2, <1>3, <1>4, <1>5 DEF OperatorMoves

LEMMA FinalMoves ==
  ASSUME OperatorTypeOK, Untouched, NEW m \in Missions,
         NEW status \in {mission[m], Begun(m)}, NEW last \in MissionStates,
         FinalizeActivation(m, status, last)
  PROVE  OperatorMoves
<1> USE DEF OperatorTypeOK
<1>1. status \notin Undecided
  BY NotDone DEF FinalizeActivation, Untouched, Begun, Undecided
<1>2. last \notin Undecided
  BY <1>1 DEF FinalizeActivation, ClosedAt, Closing, Undecided
<1>3. outcomes' \in [Missions -> Nat] /\ capabilities' \in [Missions -> Nat]
  BY DEF FinalizeActivation, EngineTypeOK
<1>4. EngineTypeOK'
  BY <1>3 DEF FinalizeActivation, SetStatus, EngineTypeOK
<1>5. activation' \in [Missions -> {"planned", "queued", "running", "learned"}]
  BY DEF FinalizeActivation, Begins
<1>6. \A x \in Missions : mission'[x] \in Undecided => mission[x] \in Undecided
  BY <1>2 DEF FinalizeActivation, SetStatus, EngineTypeOK
<1> QED
  BY <1>4, <1>5, <1>6 DEF FinalizeActivation, OperatorMoves

LEMMA TicksMove ==
  ASSUME OperatorTypeOK, Untouched, NEW m \in Missions, RunTick(m)
  PROVE  OperatorMoves
<1>1. ASSUME NEW next \in {"active", "paused"}, TickBlocked(m, next)
      PROVE  OperatorMoves
  BY <1>1, PlanMoves DEF TickBlocked, ActionStates
<1>2. ASSUME NEW result \in {"completed", "failed", "running"},
             TickActed(m, result)
      PROVE  OperatorMoves
  <2> DEFINE status == IF result = "failed" THEN "paused" ELSE company[m]
  <2>1. company' = [company EXCEPT ![m] = status]
    BY <1>2 DEF TickActed
  <2> QED
    BY <1>2, <2>1, PlanMoves DEF TickActed, ActionStates
<1>3. ASSUME NEW last \in MissionStates, TickFinalized(m, last)
      PROVE  OperatorMoves
  BY <1>3, FinalMoves DEF TickFinalized
<1> QED
  BY <1>1, <1>2, <1>3 DEF RunTick

(* A step that leaves the tasks alone keeps what is known of them.         *)
LEMMA OperatorKeeps ==
  ASSUME CompanyInv, OperatorMoves, UNCHANGED runtimeVars
  PROVE  CompanyInv'
<1> USE DEF CompanyInv, runtimeVars, taskVars
<1>1. TypeOK'
  BY DEF TypeOK, OperatorMoves
<1>2. Untouched'
  BY DEF Untouched, OperatorMoves, NothingStarted
<1> QED
  BY <1>1, <1>2 DEF Delivered, BuiltOnArtifacts, RunsAreStarted, Started,
     ProofMatches, BuiltUpon, HasArtifact

-----------------------------------------------------------------------------
(* The owner's writes to team and tasks.                                   *)

LEMMA ApprovePreserves ==
  ASSUME CompanyInv, NEW m \in Missions, NEW n \in 1..Approvals, Approve(m, n)
  PROVE  CompanyInv'
<1> USE DEF CompanyInv
<1>1. OperatorMoves
  BY ApproveMoves DEF Approve, TypeOK
<1>2. TypeOK'
  <2>1. team' \in [Missions -> {"planned", "active", "completed"}]
    BY DEF Approve, TypeOK
  <2>2. task' \in [Missions -> [Tasks -> {"absent", "pending", "running",
                                          "completed", "failed"}]]
    BY DEF Approve, TypeOK
  <2>3. needs' \in [Missions -> [Tasks -> SUBSET Tasks]]
    BY TaskAssumption DEF Approve, TypeOK
  <2> QED
    BY <1>1, <2>1, <2>2, <2>3 DEF Approve, TypeOK, OperatorMoves
<1>3. Untouched'
  BY <1>1 DEF Untouched, OperatorMoves, NothingStarted, Approve
<1>4. \A x \in Missions, k \in Tasks :
        \/ task'[x][k] = task[x][k] /\ needs'[x][k] = needs[x][k]
        \/ task[x][k] = "absent" /\ task'[x][k] = "pending"
  BY DEF Approve, TypeOK
<1> QED
  BY <1>2, <1>3, <1>4 DEF Delivered, BuiltOnArtifacts, RunsAreStarted, Started,
     ProofMatches, BuiltUpon, HasArtifact, Approve, TypeOK, Snapshots

LEMMA QueuePreserves ==
  ASSUME CompanyInv, NEW m \in Missions, NEW k \in Tasks,
         NEW kinds \in SUBSET Tasks, NEW later \in BOOLEAN,
         Queue(m, k, kinds, later),
         team' \in [Missions -> {"planned", "active", "completed"}]
  PROVE  CompanyInv'
<1> USE DEF CompanyInv
<1>1. TypeOK'
  BY DEF Queue, TypeOK, OperatorTypeOK, EngineTypeOK, engineVars, operatorVars
<1>2. Untouched'
  BY DEF Untouched, NothingStarted, Queue, engineVars, operatorVars
<1>3. \A x \in Missions, i \in Tasks :
        \/ task'[x][i] = task[x][i] /\ needs'[x][i] = needs[x][i]
        \/ task[x][i] = "absent" /\ task'[x][i] = "pending"
  BY DEF Queue, TypeOK
<1> QED
  BY <1>1, <1>2, <1>3 DEF Delivered, BuiltOnArtifacts, RunsAreStarted, Started,
     ProofMatches, BuiltUpon, HasArtifact, Queue, TypeOK, Snapshots

-----------------------------------------------------------------------------
(* The agents' ticks.                                                      *)

(* Releasing changes only running tasks, to pending.                       *)
LEMMA ReleasedTasks ==
  ASSUME TypeOK, NEW m \in Missions
  PROVE  /\ Released(m) \in [Tasks -> {"absent", "pending", "running",
                                       "completed", "failed"}]
         /\ \A k \in Tasks :
              \/ Released(m)[k] = task[m][k]
              \/ task[m][k] = "running" /\ Released(m)[k] = "pending"
BY DEF Released, TypeOK

LEMMA RestPreserves ==
  ASSUME CompanyInv, NEW m \in Missions, RestTeam(m)
  PROVE  CompanyInv'
<1> USE DEF CompanyInv
<1>1. TypeOK'
  BY ReleasedTasks DEF RestTeam, TypeOK, OperatorTypeOK, EngineTypeOK,
     engineVars, operatorVars
<1>2. Untouched'
  BY DEF Untouched, NothingStarted, RestTeam, engineVars, operatorVars
<1>3. \A x \in Missions, k \in Tasks :
        \/ task'[x][k] = task[x][k]
        \/ task[x][k] = "running" /\ task'[x][k] = "pending"
  BY ReleasedTasks DEF RestTeam, TypeOK
<1>4. UNCHANGED <<needs, file, proof, run>>
  BY DEF RestTeam
<1>5. Delivered' /\ BuiltOnArtifacts' /\ ("torn" \notin Faults => ProofMatches')
  BY <1>3, <1>4 DEF Delivered, BuiltOnArtifacts, HasArtifact, ProofMatches
<1>6. \A r \in Runs : run[r] # NoRun =>
        run[r].company \in Missions /\ run[r].task \in Tasks
  BY DEF TypeOK, Snapshots
<1>7. RunsAreStarted'
  BY <1>3, <1>4, <1>6 DEF RunsAreStarted, Started, BuiltUpon, HasArtifact
<1> QED
  BY <1>1, <1>2, <1>5, <1>7

LEMMA ClaimedIsBuilt ==
  ASSUME CompanyInv, NEW m \in Missions, NEW k \in Claimable(m)
  PROVE  k \in Tasks /\ BuiltUpon(m, k)
<1>1. k \in Tasks /\ \A d \in needs[m][k] : d \in Tasks /\ task[m][d] = "completed"
  BY DEF Claimable, Candidates, DependenciesSatisfied, CompanyInv, TypeOK
<1> QED
  BY <1>1 DEF CompanyInv, Delivered, BuiltUpon

LEMMA ClaimPreservesCompany ==
  ASSUME CompanyInv, NEW m \in Missions, NEW r \in Runs, NEW k \in Tasks,
         ClaimTask(r, m, k)
  PROVE  CompanyInv'
<1> USE DEF CompanyInv
<1> DEFINE row == [company |-> m, task |-> k, attempt |-> attempts[m][k] + 1]
<1>1. /\ row \in Snapshots /\ row.attempt # 0
      /\ run' = [run EXCEPT ![r] = row]
      /\ BuiltUpon(m, k)
  BY ClaimedIsBuilt DEF ClaimTask, Snapshots, TypeOK
<1>2. /\ task' = [task EXCEPT ![m] = [Released(m) EXCEPT ![k] = "running"]]
      /\ UNCHANGED <<engineVars, operatorVars, team, needs, waiting, file, proof>>
  BY DEF ClaimTask
<1>3. \A x \in Missions, i \in Tasks :
        \/ task'[x][i] = task[x][i]
        \/ task[x][i] = "running" /\ task'[x][i] = "pending"
        \/ x = m /\ i = k /\ task'[x][i] = "running"
  BY <1>2, ReleasedTasks DEF TypeOK
<1>4. TypeOK'
  <2>1. task' \in [Missions -> [Tasks -> {"absent", "pending", "running",
                                          "completed", "failed"}]]
    BY <1>2, ReleasedTasks DEF TypeOK
  <2>2. attempts' \in [Missions -> [Tasks -> Nat]]
        /\ lapsed' \in [Missions -> SUBSET Tasks]
    BY DEF ClaimTask, TypeOK
  <2>3. run' \in [Runs -> Snapshots \cup {NoRun}]
    BY <1>1 DEF TypeOK
  <2> QED
    BY <1>2, <2>1, <2>2, <2>3 DEF TypeOK, OperatorTypeOK, EngineTypeOK,
       engineVars, operatorVars
<1>5. Untouched'
  <2>1. mission[m] \notin Undecided
    BY NotDone DEF ClaimTask, AgentsMayWork, Untouched
  <2> QED
    BY <1>2, <2>1 DEF Untouched, NothingStarted, ClaimTask, engineVars,
       operatorVars, TypeOK
<1>6. Delivered' /\ ("torn" \notin Faults => ProofMatches')
  BY <1>2, <1>3 DEF Delivered, HasArtifact, ProofMatches
<1>7. BuiltOnArtifacts'
  BY <1>1, <1>2, <1>3 DEF BuiltOnArtifacts, BuiltUpon, HasArtifact
<1>8. RunsAreStarted'
  <2> SUFFICES ASSUME NEW q \in Runs, run'[q] # NoRun
               PROVE  /\ run'[q].attempt # 0
                      /\ task'[run'[q].company][run'[q].task] # "absent"
                      /\ \A d \in needs'[run'[q].company][run'[q].task] :
                           /\ proof'[run'[q].company][d] # 0
                           /\ file'[run'[q].company][FileOf[run'[q].company][d]]
                                # NoOutput
    BY DEF RunsAreStarted, Started, BuiltUpon, HasArtifact
  <2>1. CASE q = r
    <3>1. run'[q] = row /\ task'[m][k] = "running"
      BY <1>1, <1>2, <2>1, ReleasedTasks DEF TypeOK
    <3> QED
      BY <1>1, <1>2, <3>1 DEF BuiltUpon, HasArtifact
  <2>2. CASE q # r
    <3>1. run'[q] = run[q] /\ run[q] \in Snapshots
      BY <1>1, <2>2 DEF TypeOK
    <3> QED
      BY <1>2, <1>3, <3>1 DEF RunsAreStarted, Started, BuiltUpon, HasArtifact, Snapshots
  <2> QED
    BY <2>1, <2>2
<1> QED
  BY <1>4, <1>5, <1>6, <1>7, <1>8

-----------------------------------------------------------------------------
(* A run ends: at most the row and the file of its own task are written.   *)

LEMMA EndPreserves ==
  ASSUME CompanyInv, NEW r \in Runs, run[r] # NoRun,
         NEW status \in {"pending", "running", "completed", "failed"},
         NEW m, NEW k, NEW n, NEW g,
         m = run[r].company, k = run[r].task, n = run[r].attempt,
         g \in {n, proof[m][k]},
         file' = file \/ file' = Written(m, k, n),
         status = "completed" =>
           \/ g = n /\ file' = Written(m, k, n)
           \/ /\ g = proof[m][k] /\ task[m][k] = "completed"
              /\ "torn" \notin Faults => file' = file,
         proof' = [proof EXCEPT ![m][k] = g],
         task'  = [task  EXCEPT ![m][k] = status],
         status = "running" => task[m][k] = "running",
         run'   = [run EXCEPT ![r] = NoRun],
         waiting' \in [Missions -> SUBSET Tasks],
         lapsed' \in [Missions -> SUBSET Tasks],
         UNCHANGED <<engineVars, operatorVars, team, needs, attempts>>
  PROVE  CompanyInv'
<1> USE DEF CompanyInv
<1> DEFINE out == [task |-> k, attempt |-> n]
<1>1. /\ run[r] \in Snapshots /\ m \in Missions /\ k \in Tasks
      /\ n \in Nat \ {0} /\ BuiltUpon(m, k)
  BY DEF TypeOK, RunsAreStarted, Started, Snapshots
<1>2. out \in Outputs /\ out # NoOutput /\ FileOf[m][k] \in Files
  BY <1>1, TaskAssumption DEF Outputs
<1>3. file' = file \/ file' = [file EXCEPT ![m][FileOf[m][k]] = out]
  BY DEF Written
<1> HIDE DEF out
<1>4. TypeOK'
  <2>1. file' \in [Missions -> [Files -> Outputs \cup {NoOutput}]]
    <3>1. CASE file' = [file EXCEPT ![m][FileOf[m][k]] = out]
      <4>1. [file[m] EXCEPT ![FileOf[m][k]] = out]
              \in [Files -> Outputs \cup {NoOutput}]
        BY <1>1, <1>2 DEF TypeOK
      <4>2. file' = [file EXCEPT ![m] = [file[m] EXCEPT ![FileOf[m][k]] = out]]
        BY <3>1
      <4> QED
        BY <1>1, <4>1, <4>2 DEF TypeOK
    <3> QED
      BY <1>3, <3>1 DEF TypeOK
  <2>2. proof' \in [Missions -> [Tasks -> Nat]]
    BY <1>1 DEF TypeOK
  <2> QED
    BY <2>1, <2>2 DEF TypeOK, OperatorTypeOK, EngineTypeOK, engineVars,
       operatorVars
<1>5. Untouched'
  BY DEF Untouched, NothingStarted, engineVars, operatorVars
<1>6. \A x \in Missions, i \in Tasks :
        x # m \/ i # k => /\ proof'[x][i] = proof[x][i]
                          /\ task'[x][i] = task[x][i]
  BY <1>1 DEF TypeOK
<1>7. proof'[m][k] = g /\ task'[m][k] = status
  BY <1>1 DEF TypeOK
<1>8. \A x \in Missions, f \in Files :
        \/ file'[x][f] = file[x][f]
        \/ x = m /\ f = FileOf[m][k] /\ file'[x][f] = out
  BY <1>1, <1>3 DEF TypeOK
<1>9. file' # file => file'[m][FileOf[m][k]] = out
  BY <1>1, <1>2, <1>3 DEF TypeOK
<1>10. \A x \in Missions, i \in Tasks : FileOf[x][i] \in Files
  BY TaskAssumption
<1>11. \A x \in Missions, i \in Tasks :
         HasArtifact(x, i) => HasArtifact(x, i)'
  BY <1>1, <1>2, <1>6, <1>7, <1>8, <1>10 DEF HasArtifact
<1>12. ASSUME status = "completed" PROVE HasArtifact(m, k)'
  <2>1. CASE g = n /\ file' = Written(m, k, n)
    <3>1. file'[m][FileOf[m][k]] = out
      BY <1>1, <1>2, <2>1 DEF Written, out, TypeOK
    <3> QED
      BY <1>1, <1>2, <1>7, <2>1, <3>1 DEF HasArtifact
  <2>2. CASE task[m][k] = "completed"
    BY <1>1, <1>11, <2>2 DEF Delivered
  <2> QED
    BY <1>12, <2>1, <2>2
<1>13. Delivered'
  BY <1>6, <1>7, <1>11, <1>12 DEF Delivered
<1>14. ASSUME "torn" \notin Faults PROVE ProofMatches'
  <2> SUFFICES ASSUME NEW x \in Missions, NEW i \in Tasks,
                      task'[x][i] = "completed"
               PROVE  LET holds == file'[x][FileOf[x][i]] IN
                      /\ holds # NoOutput
                      /\ FileOf[x][holds.task] = FileOf[x][i]
                      /\ holds.task = i => holds.attempt = proof'[x][i]
    BY DEF ProofMatches
  <2>1. CASE x = m /\ i = k /\ file' = Written(m, k, n) /\ g = n
    <3>1. file'[m][FileOf[m][k]] = out
      BY <1>1, <1>2, <2>1 DEF Written, out, TypeOK
    <3> QED
      BY <1>2, <1>7, <2>1, <3>1 DEF out
  <2>2. CASE x = m /\ i = k /\ file' = file /\ g = proof[m][k]
             /\ task[m][k] = "completed"
    BY <1>1, <1>7, <1>14, <2>2 DEF ProofMatches
  <2>3. CASE x # m \/ i # k
    <3>1. task[x][i] = "completed" /\ proof'[x][i] = proof[x][i]
      BY <1>6, <2>3
    <3>2. CASE file'[x][FileOf[x][i]] = file[x][FileOf[x][i]]
      BY <1>14, <3>1, <3>2 DEF ProofMatches
    <3>3. CASE x = m /\ FileOf[x][i] = FileOf[m][k]
               /\ file'[x][FileOf[x][i]] = out
      BY <1>2, <2>3, <3>3 DEF out
    <3> QED
      BY <1>8, <1>10, <3>2, <3>3
  <2> QED
    BY <1>7, <1>14, <2>1, <2>2, <2>3
<1>15. BuiltOnArtifacts'
  <2> SUFFICES ASSUME NEW x \in Missions, NEW i \in Tasks,
                      task'[x][i] \in {"running", "completed"},
                      NEW d \in needs[x][i]
               PROVE  HasArtifact(x, d)'
    BY DEF BuiltOnArtifacts, HasArtifact
  <2>1. d \in Tasks /\ HasArtifact(x, d)
    BY <1>1, <1>6, <1>7 DEF BuiltOnArtifacts, BuiltUpon, HasArtifact, TypeOK
  <2> QED
    BY <1>11, <2>1
<1>16. RunsAreStarted'
  <2> SUFFICES ASSUME NEW q \in Runs, run'[q] # NoRun
               PROVE  /\ run'[q].attempt # 0
                      /\ task'[run'[q].company][run'[q].task] # "absent"
                      /\ \A d \in needs'[run'[q].company][run'[q].task] :
                           /\ proof'[run'[q].company][d] # 0
                           /\ file'[run'[q].company][FileOf[run'[q].company][d]]
                                # NoOutput
    BY DEF RunsAreStarted, Started, BuiltUpon, HasArtifact
  <2>1. run'[q] = run[q] /\ run[q] \in Snapshots
    BY DEF TypeOK
  <2>2. run[q].company \in Missions /\ run[q].task \in Tasks
    BY <2>1 DEF Snapshots
  <2>3. \A d \in needs[run[q].company][run[q].task] :
          d \in Tasks /\ HasArtifact(run[q].company, d)
    BY <2>1, <2>2 DEF RunsAreStarted, Started, BuiltUpon, TypeOK
  <2> QED
    BY <1>6, <1>7, <1>11, <2>1, <2>2, <2>3
    DEF RunsAreStarted, Started, BuiltUpon, HasArtifact
<1> QED
  BY <1>4, <1>5, <1>13, <1>14, <1>15, <1>16

LEMMA AnsweredPreserves ==
  ASSUME CompanyInv, NEW r \in Runs, Answered(r)
  PROVE  CompanyInv'
<1> DEFINE m == run[r].company
           k == run[r].task
           n == run[r].attempt
<1>1. run[r] # NoRun
  BY DEF Answered, CompleteTask, FailTask
<1>2. m \in Missions /\ k \in Tasks /\ n \in Nat \ {0}
  BY <1>1 DEF CompanyInv, TypeOK, RunsAreStarted, Started, Snapshots
<1>3. CASE CompleteTask(r)
  <2>1. waiting' \in [Missions -> SUBSET Tasks] /\ lapsed' \in [Missions -> SUBSET Tasks]
    BY <1>3 DEF CompleteTask, CompanyInv, TypeOK
  <2> QED
    BY <1>1, <1>2, <1>3, <2>1, EndPreserves DEF CompleteTask
<1>4. ASSUME NEW wrote \in BOOLEAN, FailTask(r, wrote)
      PROVE  CompanyInv'
  <2>1. waiting' \in [Missions -> SUBSET Tasks] /\ lapsed' \in [Missions -> SUBSET Tasks]
    BY <1>2, <1>4 DEF FailTask, CompanyInv, TypeOK
  <2>2. proof' = [proof EXCEPT ![m][k] = proof[m][k]]
    BY <1>2, <1>4 DEF FailTask, CompanyInv, TypeOK
  <2> DEFINE s == IF n >= MaxAttempts[m][k] THEN "failed" ELSE "pending"
  <2>3. /\ file' = file \/ file' = Written(m, k, n)
        /\ task' = [task EXCEPT ![m][k] = s]
        /\ run' = [run EXCEPT ![r] = NoRun]
        /\ UNCHANGED <<engineVars, operatorVars, team, needs, attempts>>
    BY <1>4 DEF FailTask
  <2>4. s \in {"failed", "pending"}
    OBVIOUS
  <2> HIDE DEF s
  <2> QED
    BY <1>1, <1>2, <2>1, <2>2, <2>3, <2>4, EndPreserves
<1> QED
  BY <1>3, <1>4 DEF Answered

LEMMA CrashPreservesCompany ==
  ASSUME CompanyInv, NEW r \in Runs, NEW wrote \in BOOLEAN, Crash(r, wrote)
  PROVE  CompanyInv'
<1> DEFINE m == run[r].company
           k == run[r].task
           n == run[r].attempt
<1>1. m \in Missions /\ k \in Tasks /\ n \in Nat \ {0}
  BY DEF CompanyInv, Crash, TypeOK, RunsAreStarted, Started, Snapshots
<1>2. task[m][k] \in {"pending", "running", "completed", "failed"}
  BY <1>1 DEF CompanyInv, Crash, TypeOK, RunsAreStarted, Started
<1>3. /\ proof' = [proof EXCEPT ![m][k] = proof[m][k]]
      /\ task' = [task EXCEPT ![m][k] = task[m][k]]
  <2>1. proof' = proof /\ task' = task
    BY DEF Crash
  <2>2. proof = [proof EXCEPT ![m][k] = proof[m][k]]
    BY <1>1 DEF CompanyInv, TypeOK
  <2>3. task = [task EXCEPT ![m][k] = task[m][k]]
    BY <1>1 DEF CompanyInv, TypeOK
  <2> QED
    BY <2>1, <2>2, <2>3
<1>4. waiting' \in [Missions -> SUBSET Tasks] /\ lapsed' \in [Missions -> SUBSET Tasks]
  BY DEF CompanyInv, Crash, TypeOK
<1>5. /\ run[r] # NoRun /\ run' = [run EXCEPT ![r] = NoRun]
      /\ file' = file \/ file' = Written(m, k, n)
      /\ "torn" \notin Faults => file' = file
      /\ UNCHANGED <<engineVars, operatorVars, team, needs, attempts>>
  BY DEF Crash
<1> QED
  BY <1>1, <1>2, <1>3, <1>4, <1>5, EndPreserves

-----------------------------------------------------------------------------
LEMMA TimePreserves ==
  ASSUME CompanyInv, NEW m \in Missions, NEW k \in Tasks,
         LeaseLapses(m, k) \/ RetryTimeComes(m, k)
  PROVE  CompanyInv'
<1> USE DEF CompanyInv, LeaseLapses, RetryTimeComes
<1>1. TypeOK'
  <2>1. lapsed' \in [Missions -> SUBSET Tasks]
    <3>1. lapsed' = [lapsed EXCEPT ![m] = @ \cup {k}] \/ lapsed' = lapsed
      OBVIOUS
    <3>2. lapsed \in [Missions -> SUBSET Tasks]
      BY DEF TypeOK
    <3> HIDE DEF LeaseLapses, RetryTimeComes, CompanyInv
    <3> QED
      BY <3>1, <3>2
  <2>2. waiting' \in [Missions -> SUBSET Tasks]
    <3>1. waiting' = [waiting EXCEPT ![m] = @ \ {k}] \/ waiting' = waiting
      OBVIOUS
    <3>2. waiting \in [Missions -> SUBSET Tasks]
      BY DEF TypeOK
    <3> HIDE DEF LeaseLapses, RetryTimeComes, CompanyInv
    <3> QED
      BY <3>1, <3>2
  <2>3. OperatorTypeOK'
    BY DEF TypeOK, OperatorTypeOK, EngineTypeOK, engineVars, operatorVars
  <2>4. UNCHANGED <<team, task, needs, attempts, file, proof, run>>
    OBVIOUS
  <2> QED
    BY <2>1, <2>2, <2>3, <2>4 DEF TypeOK
<1>2. UNCHANGED <<mission, plan, task, needs, attempts, file, proof, run>>
  BY DEF engineVars, operatorVars
<1>3. Untouched'
  BY <1>2 DEF Untouched, NothingStarted
<1>4. Delivered' /\ BuiltOnArtifacts' /\ ("torn" \notin Faults => ProofMatches')
  BY <1>2 DEF Delivered, BuiltOnArtifacts, HasArtifact, ProofMatches
<1>5. RunsAreStarted'
  BY <1>2 DEF RunsAreStarted, Started, BuiltUpon, HasArtifact
<1> QED
  BY <1>1, <1>3, <1>4, <1>5

LEMMA CompanyStep == ASSUME CompanyInv, [Next]_vars PROVE CompanyInv'
<1>1. ASSUME NEW m \in Missions, OperatorStep(m)
      PROVE  CompanyInv'
  <2>1. OperatorTypeOK /\ Untouched
    BY DEF CompanyInv, TypeOK
  <2> QED
    BY <1>1, <2>1, TicksMove, OwnerMoves, CallersMove, OperatorKeeps
    DEF OperatorStep
<1>2. ASSUME NEW m \in Missions, AgentTick(m)
      PROVE  CompanyInv'
  BY <1>2, RestPreserves, ClaimPreservesCompany DEF AgentTick
<1>3. ASSUME NEW m \in Missions, NEW k \in Tasks, NEW kinds \in SUBSET Tasks,
             NEW later \in BOOLEAN, QueueTask(m, k, kinds, later)
      PROVE  CompanyInv'
  <2>1. Queue(m, k, kinds, later) /\ team' = team
    BY <1>3 DEF QueueTask
  <2>2. team \in [Missions -> {"planned", "active", "completed"}]
    BY DEF CompanyInv, TypeOK
  <2> QED
    BY <2>1, <2>2, QueuePreserves
<1>4. ASSUME NEW m \in Missions, NEW k \in Tasks, RecordOutcome(m, k)
      PROVE  CompanyInv'
  <2>1. {} \in SUBSET Tasks /\ FALSE \in BOOLEAN
    OBVIOUS
  <2>2. Queue(m, k, {}, FALSE) /\ team' = [team EXCEPT ![m] = "active"]
    BY <1>4 DEF RecordOutcome
  <2>3. team' \in [Missions -> {"planned", "active", "completed"}]
    BY <2>2 DEF CompanyInv, TypeOK
  <2> QED
    BY <2>1, <2>2, <2>3, QueuePreserves
<1>5. CASE UNCHANGED vars
  <2>1. OperatorMoves
    BY <1>5 DEF vars, engineVars, operatorVars, OperatorMoves, CompanyInv,
       TypeOK, OperatorTypeOK, EngineTypeOK
  <2> QED
    BY <1>5, <2>1, OperatorKeeps DEF vars
<1> QED
  BY <1>1, <1>2, <1>3, <1>4, <1>5, ApprovePreserves, TimePreserves,
     AnsweredPreserves, CrashPreservesCompany DEF Next

LEMMA AlwaysCompany == Spec => []CompanyInv
<1>1. Init => CompanyInv
  BY InitCompany
<1>2. CompanyInv /\ [Next]_vars => CompanyInv'
  BY CompanyStep
<1> QED
  BY <1>1, <1>2, PTL DEF Spec

(* Operator and agents keep their types.                                   *)
THEOREM CompanyTypes == Spec => []TypeOK
<1>1. CompanyInv => TypeOK
  BY DEF CompanyInv
<1> QED
  BY <1>1, AlwaysCompany, PTL

(* While the owner's decision is asked for, neither runTick of the         *)
(* operator nor claimTask of the agents has started anything.              *)
THEOREM UndecidedTheorem == Spec => []UndecidedMeansUntouched
<1>1. CompanyInv => UndecidedMeansUntouched
  BY DEF CompanyInv, Untouched, UndecidedMeansUntouched, Undecided
<1> QED
  BY <1>1, AlwaysCompany, PTL

(* An agent's task is begun, and finished, on delivered artifacts only,    *)
(* whoever completes it.                                                   *)
THEOREM BuiltTheorem == Spec => []BuiltOnArtifacts
<1>1. CompanyInv => BuiltOnArtifacts
  BY DEF CompanyInv
<1> QED
  BY <1>1, AlwaysCompany, PTL

(* If no process stops between an artifact's file and its row, a completed *)
(* task's file holds the output its digest is of, or that of another task  *)
(* whose kind has the same file name, however the names are shared.        *)
THEOREM ProofTheorem ==
  ASSUME "torn" \notin Faults PROVE Spec => []ProofMatches
<1>1. CompanyInv => ProofMatches
  BY DEF CompanyInv
<1> QED
  BY <1>1, AlwaysCompany, PTL

-----------------------------------------------------------------------------
(* The operator over the engine.  One of its handlers is several of the    *)
(* engine's transactions, or a prefix of them when it crashes, so its      *)
(* steps are none of EngineNext; EngineInv survives them all the same.     *)

(* A step of the operator or of anybody else who moves a mission.          *)
EngineMoves ==
  \/ UNCHANGED engineVars
  \/ \E m \in Missions :
       \/ CreateCompany(m) \/ RunTick(m) \/ EngineCallers(m)
       \/ \E n \in 1..Approvals : ApproveCompany(m, n)

LEMMA CompanySteps == ASSUME [Next]_vars PROVE EngineMoves
<1>1. ASSUME NEW m \in Missions, OperatorStep(m)
      PROVE  EngineMoves
  BY <1>1 DEF OperatorStep, ControlCompany, EvaluateContract, EngineMoves
<1>2. ASSUME NEW m \in Missions, NEW n \in 1..Approvals, Approve(m, n)
      PROVE  EngineMoves
  BY <1>2 DEF Approve, EngineMoves
<1>3. ASSUME NEW m \in Missions, AgentTick(m)
      PROVE  UNCHANGED engineVars
  BY <1>3 DEF AgentTick, RestTeam, ClaimTask
<1>4. ASSUME NEW m \in Missions, NEW k \in Tasks,
             \/ \E kinds \in SUBSET Tasks, later \in BOOLEAN :
                  QueueTask(m, k, kinds, later)
             \/ RecordOutcome(m, k)
             \/ LeaseLapses(m, k) \/ RetryTimeComes(m, k)
      PROVE  UNCHANGED engineVars
  BY <1>4 DEF QueueTask, RecordOutcome, Queue, LeaseLapses, RetryTimeComes
<1>5. ASSUME NEW r \in Runs,
             Answered(r) \/ \E wrote \in BOOLEAN : Crash(r, wrote)
      PROVE  UNCHANGED engineVars
  BY <1>5 DEF Answered, CompleteTask, FailTask, Crash
<1>6. CASE UNCHANGED vars
  BY <1>6 DEF vars, EngineMoves
<1> QED
  BY <1>1, <1>2, <1>3, <1>4, <1>5, <1>6 DEF Next, EngineMoves

(* What the other callers do is a step of the engine.                      *)
LEMMA CallersAreEngine ==
  ASSUME NEW m \in Missions, EngineCallers(m)
  PROVE  EngineNext
<1>1. {m} \in SUBSET Missions
  OBVIOUS
<1> QED
  BY <1>1 DEF EngineCallers, EngineNext

(* Work on the plan executes a queued mission and moves no other.          *)
LEMMA WorkKeepsEngine ==
  ASSUME EngineInv, NEW m \in Missions, SetStatus(m, Begun(m)), MayTick(m),
         UNCHANGED <<approval, outcomes, outcomeJob, capabilities>>
  PROVE  EngineInv'
BY DEF EngineInv, EngineTypeOK, Consented, Early, SetStatus, Begun, MayTick,
       Executable, MissionStates

(* How far a mission may have been closed.                                 *)
LEMMA ClosedTargets ==
  ASSUME NEW status, NEW last \in ClosedAt(status)
  PROVE  \/ last = status
         \/ /\ status = "running"
            /\ last \in {"completed", "evaluated", "learned"}
         \/ status = "completed" /\ last \in {"evaluated", "learned"}
         \/ status = "evaluated" /\ last = "learned"
BY DEF ClosedAt, Closing

(* An outcome and a capability are written once, since a running mission   *)
(* has no outcome and one that is not learned no capability.               *)
LEMMA FinalKeepsEngine ==
  ASSUME EngineInv, NEW m \in Missions, NEW status \in {mission[m], Begun(m)},
         NEW last \in MissionStates, FinalizeActivation(m, status, last)
  PROVE  EngineInv'
<1> USE DEF EngineInv, EngineTypeOK, Consented, Early
<1>1. /\ mission' = [mission EXCEPT ![m] = last]
      /\ outcomes' = [outcomes EXCEPT ![m] =
           IF status = "running" /\ last # status THEN @ + 1 ELSE @]
      /\ capabilities' = [capabilities EXCEPT ![m] =
           IF last = "learned" /\ last # status THEN @ + 1 ELSE @]
      /\ UNCHANGED <<approval, outcomeJob>>
      /\ status \notin {"failed", "cancelled"}
  BY DEF FinalizeActivation, SetStatus
<1>2. \/ status = mission[m]
      \/ mission[m] = "queued" /\ status = "running"
  BY DEF Begun
<1>3. \/ last = status
      \/ status = "running" /\ last \in {"completed", "evaluated", "learned"}
      \/ status = "completed" /\ last \in {"evaluated", "learned"}
      \/ status = "evaluated" /\ last = "learned"
  BY ClosedTargets DEF FinalizeActivation
<1> QED
  BY <1>1, <1>2, <1>3 DEF MissionStates

LEMMA OperatorKeepsEngine ==
  ASSUME EngineInv, EngineMoves PROVE EngineInv'
<1>1. CASE UNCHANGED engineVars
  BY <1>1 DEF engineVars, EngineInv, EngineTypeOK
<1>2. ASSUME NEW m \in Missions, EngineCallers(m) PROVE EngineInv'
  BY <1>2, CallersAreEngine, EngineInvStep
<1>3. ASSUME NEW m \in Missions, CreateCompany(m) PROVE EngineInv'
  BY <1>3 DEF CreateCompany, SetStatus, EngineInv, EngineTypeOK, Consented,
     Early, MissionStates
<1>4. ASSUME NEW m \in Missions, NEW n, ApproveCompany(m, n) PROVE EngineInv'
  BY <1>4, TransitionCases DEF ApproveCompany, SetStatus, EngineInv,
     EngineTypeOK, Consented, Early, MissionStates
<1>5. ASSUME NEW m \in Missions, RunTick(m) PROVE EngineInv'
  BY <1>5, WorkKeepsEngine, FinalKeepsEngine
  DEF RunTick, TickBlocked, TickActed, TickFinalized
<1> QED
  BY <1>1, <1>2, <1>3, <1>4, <1>5 DEF EngineMoves

LEMMA AlwaysEngine == Spec => []EngineInv
<1>1. Init => EngineInv
  BY EngineInvInit DEF Init, OperatorInit
<1>2. EngineInv /\ [Next]_vars => EngineInv'
  BY CompanySteps, OperatorKeepsEngine
<1> QED
  BY <1>1, <1>2, PTL DEF Spec

(* No mission of a company is queued, executed or completed unless its     *)
(* approval record says so, with its operator, a crash between the         *)
(* operator's transactions and every other caller at work.                 *)
THEOREM CompanyConsent == Spec => []ApprovedBeforeWork
<1>1. EngineInv => ApprovedBeforeWork
  BY DEF EngineInv, ApprovedBeforeWork, Consented
<1> QED
  BY <1>1, AlwaysEngine, PTL

(* finalizeActivation, crashed, repeated or overtaken by another caller,   *)
(* learns a mission once, and one with an outcome is never worked on.      *)
THEOREM CompanyBanksOnce == Spec => [](OneCapability /\ OutcomeMeansFinished)
<1>1. EngineInv => OneCapability /\ OutcomeMeansFinished
  BY DEF EngineInv, OneCapability, OutcomeMeansFinished
<1> QED
  BY <1>1, AlwaysEngine, PTL

-----------------------------------------------------------------------------
Ended(m) ==
  /\ mission[m] = "cancelled" => mission'[m] \in {"cancelled", "evaluated"}
  /\ approval[m] = "rejected" => approval'[m] = "rejected"

LEMMA EndsHold ==
  ASSUME EngineInv, EngineMoves, NEW m \in Missions PROVE Ended(m)
<1> USE DEF EngineInv, EngineTypeOK, Ended
<1>1. CASE UNCHANGED engineVars
  BY <1>1 DEF engineVars
<1>2. ASSUME NEW n \in Missions, EngineCallers(n) PROVE Ended(m)
  BY <1>2, CallersAreEngine, CancelledStep, RejectedStep
<1>3. ASSUME NEW n \in Missions, CreateCompany(n) PROVE Ended(m)
  BY <1>3 DEF CreateCompany, SetStatus, Early
<1>4. ASSUME NEW n \in Missions, NEW i, ApproveCompany(n, i) PROVE Ended(m)
  BY <1>4, TransitionCases DEF ApproveCompany, SetStatus
<1>5. ASSUME NEW n \in Missions, RunTick(n) PROVE Ended(m)
  BY <1>5 DEF RunTick, TickBlocked, TickActed, TickFinalized,
     FinalizeActivation, MayTick, Executable, Begun, SetStatus
<1> QED
  BY <1>1, <1>2, <1>3, <1>4, <1>5 DEF EngineMoves

(* A cancelled company's mission is never worked on again, and no decision *)
(* after a rejection approves it.                                          *)
THEOREM CompanyEnds == Spec => CancelledStaysCancelled /\ RejectionIsFinal
<1>1. EngineInv /\ [Next]_vars
        => /\ [\A m \in Missions : mission[m] = "cancelled"
                 => mission'[m] \in {"cancelled", "evaluated"}]_engineVars
           /\ [\A m \in Missions : approval[m] = "rejected"
                 => approval'[m] = "rejected"]_engineVars
  BY CompanySteps, EndsHold DEF Ended
<1> QED
  BY <1>1, AlwaysEngine, PTL DEF Spec, CancelledStaysCancelled, RejectionIsFinal

=============================================================================
