---------------------------- MODULE CompanyRuntime ----------------------------
(***************************************************************************)
(* services/company-runtime/index.js (AutonomousCompanyRuntime) over the   *)
(* CompanyOperator: once the operator's plan is done, the company's agents *)
(* work off tasks with dependencies, leases and retries.                   *)
(*                                                                         *)
(* runTick is synchronous up to the model call it awaits, and again from   *)
(* its answer to its end; callers (the scheduler, HTTP ticks and runs, of  *)
(* any number of processes over one database) overlap at that await.       *)
(*                                                                         *)
(* Abstracted: priorities (any claimable task may be taken), the agents'   *)
(* rows, memories, metrics, events.  What a run writes is named by the     *)
(* task and the attempt that wrote it.  What a row is inserted with and    *)
(* keeps (its max_attempts, its role and so its file) is a constant of it. *)
(***************************************************************************)
EXTENDS CompanyOperator, Functions, FiniteSets

CONSTANTS Tasks,       \* acr_tasks.kind
          Seeds,       \* the kinds of AGENT_DEFINITIONS
          DependsOn,   \* the depends_on of a seed
          MaxAttempts, \* acr_tasks.max_attempts of a company's tasks
          Files,       \* <role>/<safeFilePart(kind)>.json of a workspace
          FileOf,      \* the file of a task; kinds may share one
          NoOutput,    \* the content of a file that does not exist
          Runs,        \* callers inside runTick
          NoRun,
          Scheduled,   \* companies of the organization the scheduler ticks
          Apart,       \* a bound: nobody but the operator's ticks moves a
                       \* company whose plan is done, which is all of it
                       \* the agents read
          MaxClaims    \* a bound: faults hit a company of fewer attempts than this

Outputs == [task : Tasks, attempt : Nat]

ASSUME TaskAssumption ==
  /\ Seeds \subseteq Tasks
  /\ DependsOn \in [Seeds -> SUBSET Seeds]
  /\ MaxAttempts \in [Missions -> [Tasks -> Nat \ {0}]]
  /\ FileOf \in [Missions -> [Tasks -> Files]]
  /\ NoOutput \notin Outputs
  /\ Scheduled \subseteq Missions
  /\ MaxClaims \in Nat /\ Apart \in BOOLEAN

VARIABLES team,     \* acr_teams.status
          task,     \* acr_tasks.status
          needs,    \* acr_tasks.dependencies
          attempts, \* acr_tasks.attempts
          waiting,  \* tasks whose run_after has not come
          lapsed,   \* running tasks whose lease_until has passed
          file,     \* the output an artifact file holds
          proof,    \* the attempt whose digest is in artifact_sha256
          run       \* what each caller awaits: a task's row as it claimed it

taskVars    == <<task, needs, attempts, waiting, lapsed, file, proof>>
runtimeVars == <<team, taskVars, run>>
vars        == <<engineVars, operatorVars, runtimeVars>>

Init ==
  /\ OperatorInit
  /\ team     = [m \in Missions |-> "planned"]
  /\ task     = [m \in Missions |-> [k \in Tasks |-> "absent"]]
  /\ needs    = [m \in Missions |-> [k \in Tasks |-> {}]]
  /\ attempts = [m \in Missions |-> [k \in Tasks |-> 0]]
  /\ waiting  = [m \in Missions |-> {}]
  /\ lapsed   = [m \in Missions |-> {}]
  /\ file     = [m \in Missions |-> [f \in Files |-> NoOutput]]
  /\ proof    = [m \in Missions |-> [k \in Tasks |-> 0]]
  /\ run      = [r \in Runs |-> NoRun]

Snapshots == [company : Missions, task : Tasks, attempt : Nat]

TypeOK ==
  /\ OperatorTypeOK
  /\ team     \in [Missions -> {"planned", "active", "completed"}]
  /\ task     \in [Missions -> [Tasks -> {"absent", "pending", "running",
                                          "completed", "failed"}]]
  /\ needs    \in [Missions -> [Tasks -> SUBSET Tasks]]
  /\ attempts \in [Missions -> [Tasks -> Nat]]
  /\ waiting  \in [Missions -> SUBSET Tasks]
  /\ lapsed   \in [Missions -> SUBSET Tasks]
  /\ file     \in [Missions -> [Files -> Outputs \cup {NoOutput}]]
  /\ proof    \in [Missions -> [Tasks -> Nat]]
  /\ run      \in [Runs -> Snapshots \cup {NoRun}]

-----------------------------------------------------------------------------
(* The owner's side.  The operator's own scheduler ticks an active company *)
(* as well as the team's ticks do.                                         *)

OperatorStep(m) ==
  /\ \/ RunTick(m)
     \/ /\ ~(Apart /\ PlanDone(m))
        /\ \/ CreateCompany(m)
           \/ \E to \in {"active", "paused", "stopped"} : ControlCompany(m, to)
           \/ \E end \in Ends : EvaluateContract(m, end)
           \/ EngineCallers(m)
  /\ UNCHANGED runtimeVars

Approvals == Len(ApprovalWrites) + 2

(* approveCompany of the operator, then the team and seedTasks.            *)
Approve(m, n) ==
  LET seeds == IF n = Approvals THEN {k \in Seeds : task[m][k] = "absent"}
                                ELSE {} IN
  /\ n = Approvals \/ "crash" \in Faults
  /\ ApproveCompany(m, n)
  /\ team'  = [team EXCEPT ![m] = IF n > Approvals - 2 THEN "active" ELSE @]
  /\ task'  = [task EXCEPT ![m] = [k \in Tasks |->
                  IF k \in seeds THEN "pending" ELSE @[k]]]
  /\ needs' = [needs EXCEPT ![m] = [k \in Tasks |->
                  IF k \in seeds THEN DependsOn[k] ELSE @[k]]]
  /\ UNCHANGED <<attempts, waiting, lapsed, file, proof, run>>

(* The INSERT of queueTask: a kind is queued once, a seed's perhaps before *)
(* seedTasks would.                                                        *)
Queue(m, k, kinds, later) ==
  /\ company[m] # "absent" /\ task[m][k] = "absent"
  /\ task'    = [task    EXCEPT ![m][k] = "pending"]
  /\ needs'   = [needs   EXCEPT ![m][k] = kinds]
  /\ waiting' = [waiting EXCEPT ![m] = IF later THEN @ \cup {k} ELSE @]
  /\ UNCHANGED <<engineVars, operatorVars, attempts, lapsed, file, proof, run>>

(* queueTask asks only that the team exists; the dependencies are whatever *)
(* the caller says, the task's own kind included, and so is run_after.     *)
QueueTask(m, k, kinds, later) ==
  /\ Queue(m, k, kinds, later)
  /\ UNCHANGED team

(* recordOutcome queues an improvement, whose kind is no seed's, and makes *)
(* the team active, whatever it was: the owner need not have approved the  *)
(* company.                                                                *)
RecordOutcome(m, k) ==
  /\ k \notin Seeds /\ Queue(m, k, {}, FALSE)
  /\ team' = [team EXCEPT ![m] = "active"]

-----------------------------------------------------------------------------
(* runTick.                                                                *)

(* Until the plan is done a tick of the team is one of the operator.       *)
AgentsMayWork(m) == team[m] = "active" /\ PlanDone(m)

(* A mutant: a task whose lease has lapsed stays with its dead worker.     *)
Released_Never(m) == task[m]

(* releaseExpiredLeases: the attempts are not looked at.                   *)
Released(m) ==
  [k \in Tasks |-> IF task[m][k] = "running" /\ k \in lapsed[m]
                     THEN "pending" ELSE task[m][k]]

(* A mutant: a dependency that has been started will do.                   *)
DependenciesSatisfied_Started(m, k) ==
  \A d \in needs[m][k] : task[m][d] \in {"running", "completed"}

DependenciesSatisfied(m, k) ==
  \A d \in needs[m][k] : task[m][d] = "completed"

(* claimTask looks at no more candidates than this.                        *)
CandidateLimit == 50

Candidates(m) == {k \in Tasks \ waiting[m] : Released(m)[k] = "pending"}

Claimable(m) == {k \in Candidates(m) : DependenciesSatisfied(m, k)}

(* claimTask; the caller keeps the row it read and awaits the model.       *)
ClaimTask(r, m, k) ==
  /\ AgentsMayWork(m) /\ run[r] = NoRun /\ k \in Claimable(m)
  /\ task'     = [task EXCEPT ![m] = [Released(m) EXCEPT ![k] = "running"]]
  /\ attempts' = [attempts EXCEPT ![m][k] = @ + 1]
  /\ lapsed'   = [lapsed EXCEPT ![m] = {}]
  /\ run'      = [run EXCEPT ![r] = [company |-> m, task |-> k,
                                     attempt |-> attempts[m][k] + 1]]
  /\ UNCHANGED <<engineVars, operatorVars, team, needs, waiting, file, proof>>

(* Nothing to claim, or nothing among the candidates looked at: the team   *)
(* is done once nothing is left.                                           *)
RestTeam(m) ==
  /\ AgentsMayWork(m)
  /\ Claimable(m) = {} \/ Cardinality(Candidates(m)) > CandidateLimit
  /\ task'   = [task EXCEPT ![m] = Released(m)]
  /\ lapsed' = [lapsed EXCEPT ![m] = {}]
  /\ team'   = [team EXCEPT ![m] =
                  IF \E k \in Tasks : Released(m)[k] \in {"pending", "running"}
                    THEN @ ELSE "completed"]
  /\ UNCHANGED <<engineVars, operatorVars, needs, attempts, waiting, file, proof,
                 run>>

(* writeArtifact: another task whose kind has the same file name loses its *)
(* output.                                                                 *)
Written(m, k, n) ==
  [file EXCEPT ![m][FileOf[m][k]] = [task |-> k, attempt |-> n]]

(* A mutant: the row is written only for the attempt it still counts.      *)
CompleteTask_Current(r) ==
  /\ run[r] # NoRun
  /\ LET m == run[r].company  k == run[r].task  n == run[r].attempt IN
       /\ file' = Written(m, k, n)
       /\ IF attempts[m][k] = n
            THEN /\ proof'  = [proof EXCEPT ![m][k] = n]
                 /\ task'   = [task EXCEPT ![m][k] = "completed"]
                 /\ lapsed' = [lapsed EXCEPT ![m] = @ \ {k}]
            ELSE UNCHANGED <<proof, task, lapsed>>
  /\ run' = [run EXCEPT ![r] = NoRun]
  /\ UNCHANGED <<engineVars, operatorVars, team, needs, attempts, waiting>>

(* writeArtifact and completeTask, by task id: neither asks whose task it  *)
(* is by now, or what became of it during the model call.                  *)
CompleteTask(r) ==
  /\ run[r] # NoRun
  /\ LET m == run[r].company  k == run[r].task  n == run[r].attempt IN
       /\ file'   = Written(m, k, n)
       /\ proof'  = [proof EXCEPT ![m][k] = n]
       /\ task'   = [task EXCEPT ![m][k] = "completed"]
       /\ lapsed' = [lapsed EXCEPT ![m] = @ \ {k}]
  /\ run' = [run EXCEPT ![r] = NoRun]
  /\ UNCHANGED <<engineVars, operatorVars, team, needs, attempts, waiting>>

(* failTask, with the attempts of the row as it was claimed.  The error    *)
(* may also come from the database, when the file is there already.        *)
FailTask(r, wrote) ==
  /\ run[r] # NoRun
  /\ LET m == run[r].company  k == run[r].task  n == run[r].attempt IN
       /\ task'    = [task EXCEPT ![m][k] =
                        IF n >= MaxAttempts[m][k] THEN "failed" ELSE "pending"]
       /\ waiting' = [waiting EXCEPT ![m] = @ \cup {k}]
       /\ lapsed'  = [lapsed EXCEPT ![m] = @ \ {k}]
       /\ file'    = IF wrote THEN Written(m, k, n) ELSE file
  /\ run' = [run EXCEPT ![r] = NoRun]
  /\ UNCHANGED <<engineVars, operatorVars, team, needs, attempts, proof>>

MoreFaults(m) == SumFunction(attempts[m]) < MaxClaims

(* A process stops while it awaits the model, or ("torn") between the file *)
(* and the row.                                                            *)
Crash(r, wrote) ==
  /\ "crash" \in Faults /\ (wrote => "torn" \in Faults)
  /\ run[r] # NoRun
  /\ LET m == run[r].company  k == run[r].task  n == run[r].attempt IN
       /\ MoreFaults(m)
       /\ file' = IF wrote THEN Written(m, k, n) ELSE file
  /\ run' = [run EXCEPT ![r] = NoRun]
  /\ UNCHANGED <<engineVars, operatorVars, team, task, needs, attempts, waiting,
                 lapsed, proof>>

-----------------------------------------------------------------------------
(* Time.  The lease is not renewed: a model that takes longer than it      *)
(* ("late") is overtaken.                                                  *)

HeldBy(r, m, k) ==
  run[r] # NoRun /\ run[r] = [company |-> m, task |-> k,
                              attempt |-> attempts[m][k]]

LeaseLapses(m, k) ==
  /\ task[m][k] = "running" /\ k \notin lapsed[m]
  /\ \/ \A r \in Runs : ~HeldBy(r, m, k)
     \/ "late" \in Faults /\ MoreFaults(m)
  /\ lapsed' = [lapsed EXCEPT ![m] = @ \cup {k}]
  /\ UNCHANGED <<engineVars, operatorVars, team, task, needs, attempts, waiting,
                 file, proof, run>>

RetryTimeComes(m, k) ==
  /\ k \in waiting[m]
  /\ waiting' = [waiting EXCEPT ![m] = @ \ {k}]
  /\ UNCHANGED <<engineVars, operatorVars, team, task, needs, attempts, lapsed,
                 file, proof, run>>

-----------------------------------------------------------------------------
AgentTick(m) ==
  \/ RestTeam(m)
  \/ \E r \in Runs, k \in Tasks : ClaimTask(r, m, k)

Answered(r) ==
  \/ CompleteTask(r)
  \/ \E wrote \in BOOLEAN : FailTask(r, wrote)

Next ==
  \/ \E m \in Missions :
       \/ OperatorStep(m)
       \/ \E n \in 1..Approvals : Approve(m, n)
       \/ AgentTick(m)
       \/ \E k \in Tasks :
            \/ \E kinds \in SUBSET Tasks, later \in BOOLEAN :
                 QueueTask(m, k, kinds, later)
            \/ RecordOutcome(m, k)
            \/ LeaseLapses(m, k) \/ RetryTimeComes(m, k)
  \/ \E r \in Runs :
       \/ Answered(r)
       \/ \E wrote \in BOOLEAN : Crash(r, wrote)

(* The scheduler ticks the active teams of its own organization, for the   *)
(* others nobody need ever call; a model call ends, time passes.           *)
Fairness ==
  /\ \A m \in Scheduled : WF_vars(AgentTick(m))
  /\ \A m \in Missions, k \in Tasks :
       WF_vars(LeaseLapses(m, k)) /\ WF_vars(RetryTimeComes(m, k))
  /\ \A r \in Runs : WF_vars(Answered(r))

Spec == Init /\ [][Next]_vars /\ Fairness

-----------------------------------------------------------------------------
(* The approval boundary: as long as the owner's decision is asked for, no *)
(* action of the operator and no agent's task was started, although a      *)
(* metric and a resume, or an outcome, make company and team active.       *)
NothingStarted(m) ==
  /\ \A s \in Steps : plan[m][s] \in {"pending", "blocked"}
  /\ \A k \in Tasks : attempts[m][k] = 0

UndecidedMeansUntouched ==
  \A m \in Missions : mission[m] = "awaiting_approval" => NothingStarted(m)

(* An agent that works, or has, builds on what was delivered: every task   *)
(* it depends on has the digest of an artifact, and its file is there,     *)
(* whatever was retried since.                                             *)
BuiltOnArtifacts ==
  \A m \in Missions, k \in Tasks :
    task[m][k] \in {"running", "completed"} =>
      \A d \in needs[m][k] :
        proof[m][d] # 0 /\ file[m][FileOf[m][d]] # NoOutput

(* SHA-256 proof: the file of a completed task holds the output its digest *)
(* is of, even when an overtaken worker delivers after its successor.  It  *)
(* can only have lost it to another task whose kind has the same file name *)
(* (then the digest is wrong without any fault).                           *)
ProofMatches ==
  \A m \in Missions, k \in Tasks :
    LET holds == file[m][FileOf[m][k]] IN
    task[m][k] = "completed" =>
      /\ holds # NoOutput
      /\ FileOf[m][holds.task] = FileOf[m][k]
      /\ holds.task = k => holds.attempt = proof[m][k]

(* The pending tasks that wait for one another, for themselves, or for a   *)
(* task that failed or was never queued.                                   *)
InVain(m) ==
  UNION {S \in SUBSET {k \in Tasks : task[m][k] = "pending"} :
           \A k \in S : \E d \in needs[m][k] :
             d \in S \/ task[m][d] \in {"absent", "failed"}}

Unfinished(m) == {k \in Tasks : task[m][k] \in {"pending", "running"}}

(* Expired-lease recovery and bounded retries: an active team whose plan   *)
(* is done and that the scheduler ticks comes to rest, through crashes and *)
(* overtaken workers.  It is completed, or all that is left waits in vain. *)
(* (A team has at most CandidateLimit tasks here.)                         *)
TeamSettles ==
  \A m \in Scheduled :
    team[m] = "active" /\ PlanDone(m)
      ~> \/ team[m] = "completed"
         \/ InVain(m) # {} /\ Unfinished(m) = InVain(m)

(* The document's "No action executes until an owner or approver           *)
(* authorizes the contract".                                               *)
NothingUnapproved ==
  \A m \in Missions :
    approval[m] \in {"none", "pending"} => NothingStarted(m)

=============================================================================
