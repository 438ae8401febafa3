--------------------------- MODULE DurabilityProofs ---------------------------
(***************************************************************************)
(* What the runtime keeps, for any number of missions, jobs and uploads.   *)
(*                                                                         *)
(* No mission is lost between the mission table and the jobs table, for    *)
(* any number of workers: a mission that is waiting for the workers or     *)
(* being worked on has a job one of them may still take, and a failed one  *)
(* has a job an operator can requeue.  Two things make it inductive.  A    *)
(* mission comes back to "queued" only by a requeue, together with its     *)
(* job, or from "approved", where it has no jobs yet (NoJobsYet); and a    *)
(* job that completes leaves behind a mission that is learned (ProofInv).  *)
(*                                                                         *)
(* Evidence keeps its shape for any number of workers (Numbered: the rows  *)
(* of a mission have a last one), and with a single worker it is           *)
(* append-only and its chains verify: nobody records a worker's job        *)
(* between its look and its append (Fresh), so rows are only added, and a  *)
(* new row's number is the number of rows (Distinct, Countable).           *)
(***************************************************************************)
EXTENDS MissionRuntimeProofs, FiniteSetTheorems

Unassigned == {"absent", "draft", "validated", "planned", "awaiting_approval",
               "approved"}

NoJobsYet ==
  \A m \in Missions : mission[m] \in Unassigned =>
    /\ JobsOf(m) = {}
    /\ \A k \in asked : k[1] # m

HandoverInv ==
  ProofInv /\ NoJobsYet /\ NoStrandedMission /\ FailedMissionIsRecoverable

-----------------------------------------------------------------------------
LEMMA UnassignedBefore ==
  ASSUME EngineInv, [EngineNext]_engineVars, NEW m \in Missions,
         mission'[m] \in Unassigned
  PROVE  mission[m] \in Unassigned
<1> USE DEF EngineInv, EngineTypeOK, Unassigned
<1>1. ASSUME NEW n \in Missions, NEW to, Transition(n, to)
      PROVE  mission[m] \in Unassigned
  <2>1. to \in Unassigned => mission[n] \in Unassigned
    BY <1>1, TransitionCases DEF Transition, CanTransition, ValidTransitions
  <2>2. mission' = [mission EXCEPT ![n] = to]
    BY <1>1 DEF Transition, SetStatus
  <2> QED
    BY <2>1, <2>2
<1>2. ASSUME NEW n \in Missions,
             CreateMission(n) \/ LearnCapability(n) \/ RequeueMission(n)
               \/ \E j \in Jobs : LinkOutcome(n, j)
      PROVE  mission[m] \in Unassigned
  BY <1>2 DEF CreateMission, LearnCapability, RequeueMission, LinkOutcome,
              SetStatus
<1>3. ASSUME NEW S \in SUBSET Missions, MissionFailure(S)
      PROVE  mission[m] \in Unassigned
  BY <1>3 DEF MissionFailure
<1>4. CASE UNCHANGED engineVars
  BY <1>4 DEF engineVars
<1> QED
  BY <1>1, <1>2, <1>3, <1>4
  DEF EngineNext, ValidateMission, PlanMission, RequestApproval,
      DecideApproval, AssignAgent, Execute, Complete, FailMission, Evaluate,
      CancelMission

(* Jobs come to a mission only through executeMission.                     *)
LEMMA JobsComeFromRequests ==
  ASSUME [Next]_vars, ~ \E k \in ClientKeys : EnqueueAsked(k[1], k[2])
  PROVE  jobMission' = jobMission
<1>1. ASSUME NEW w \in Workers, WorkerStep(w) PROVE jobMission' = jobMission
  BY <1>1 DEF WorkerStep, ClaimNext, Claim, Start, StartJob, Begin, Heartbeat,
      Finish, CompleteJob, Fail, FailJob, ExecuteMission, Reread, Checkpoint,
      RecordArtifact, AppendEvidence, RecordEffect, Settle, CompleteMission,
      LinkToJob, Weigh, EvaluateMission, Reflect, LearnFromMission,
      RecordLesson, Read, Call, queueVars
<1>2. ASSUME GatewayStep PROVE jobMission' = jobMission
  BY <1>2 DEF GatewayStep, EngineRequest, Cancel, CancelJobs, AskExecute,
      GatewayCrash, Requeue, RequeueJob, Upload, Operate, queueVars
<1>3. ASSUME \/ \E w \in Workers : Crash(w) \/ Restart(w)
             \/ \E j \in Jobs : Tick(j)
             \/ UNCHANGED vars
      PROVE  jobMission' = jobMission
  BY <1>3 DEF Crash, Restart, Tick, LeaseLapse, BackoffElapse, vars, queueVars
<1> QED
  BY <1>1, <1>2, <1>3 DEF Next

LEMMA RequestsAreForQueued ==
  ASSUME [Next]_vars, NEW k \in asked', k \notin asked
  PROVE  mission[k[1]] = "queued"
<1>1. ASSUME NEW i \in ClientKeys, AskExecute(i[1], i[2])
      PROVE  mission[k[1]] = "queued"
  BY <1>1 DEF AskExecute
<1>2. ASSUME GatewayStep, ~ \E i \in ClientKeys : AskExecute(i[1], i[2])
      PROVE  asked' \subseteq asked
  BY <1>2 DEF GatewayStep, EngineRequest, Cancel, EnqueueAsked, GatewayCrash,
      Requeue, Upload, Operate, gatewayVars
<1>3. ASSUME NEW w \in Workers, WorkerStep(w) PROVE asked' = asked
  BY <1>3 DEF WorkerStep, ClaimNext, Start, Begin, Finish, Fail,
      ExecuteMission, Reread, Checkpoint, RecordArtifact, AppendEvidence,
      RecordEffect, Settle, CompleteMission, LinkToJob, Weigh,
      EvaluateMission, Reflect, LearnFromMission, RecordLesson, Read, Call,
      gatewayVars
<1>4. ASSUME \/ \E w \in Workers : Crash(w) \/ Restart(w)
             \/ \E j \in Jobs : Tick(j)
             \/ UNCHANGED vars
      PROVE  asked' = asked
  BY <1>4 DEF Crash, Restart, Tick, vars, gatewayVars
<1> QED
  BY <1>1, <1>2, <1>3, <1>4 DEF Next

LEMMA NoJobsYetStep ==
  ASSUME BaseInv, NoJobsYet, [Next]_vars
  PROVE  NoJobsYet'
<1> SUFFICES ASSUME NEW m \in Missions, mission'[m] \in Unassigned
             PROVE  JobsOf(m)' = {} /\ \A k \in asked' : k[1] # m
  BY DEF NoJobsYet
<1>1. mission[m] \in Unassigned
  BY Composition, UnassignedBefore DEF BaseInv
<1>2. JobsOf(m) = {} /\ \A k \in asked : k[1] # m
  BY <1>1 DEF NoJobsYet
<1>3. \A k \in asked' : k[1] # m
  BY <1>1, <1>2, RequestsAreForQueued DEF Unassigned
<1>4. JobsOf(m)' = {}
  <2>1. ASSUME NEW k \in ClientKeys, EnqueueAsked(k[1], k[2])
        PROVE  JobsOf(m)' = {}
    <3>1. k[1] # m
      BY <1>2, <2>1 DEF EnqueueAsked
    <3>2. CASE jobStatus[k[2]] # "absent"
      BY <1>2, <2>1, <3>2 DEF EnqueueAsked, Enqueue, queueVars, JobsOf
    <3>3. CASE jobStatus[k[2]] = "absent"
      BY <1>2, <2>1, <3>1, <3>3
      DEF EnqueueAsked, Enqueue, JobsOf, BaseInv, QueueInv, QueueTypeOK
    <3> QED
      BY <3>2, <3>3
  <2>2. CASE jobMission' = jobMission
    BY <1>2, <2>2 DEF JobsOf
  <2> QED
    BY <2>1, <2>2, JobsComeFromRequests
<1> QED
  BY <1>3, <1>4

-----------------------------------------------------------------------------
(* A step that ends no job, fails no mission, and brings no mission back   *)
(* in front of the workers.                                                *)
Quiet ==
  /\ jobMission' = jobMission
  /\ \A j \in Jobs : /\ jobStatus[j] \in Live => jobStatus'[j] \in Live
                     /\ jobStatus[j] = "failed" => jobStatus'[j] = "failed"
  /\ \A m \in Missions :
       /\ mission'[m] = "failed" => mission[m] = "failed"
       /\ m \notin OperatorMissions =>
            /\ mission'[m] = "running" =>
                 \/ mission[m] = "running"
                 \/ (mission[m] = "queued" /\ JobsOf(m) # {})
            /\ mission'[m] = "queued" =>
                 mission[m] = "queued" \/ JobsOf(m) = {}

HandedOver == NoStrandedMission /\ FailedMissionIsRecoverable

LEMMA QuietSteps ==
  ASSUME HandedOver, Quiet
  PROVE  HandedOver'
<1>1. \A m : JobsOf(m)' = JobsOf(m)
  BY DEF JobsOf, Quiet
<1>2. FailedMissionIsRecoverable'
  <2> SUFFICES ASSUME NEW m \in Missions, mission'[m] = "failed"
               PROVE  \E j \in JobsOf(m)' : jobStatus'[j] = "failed"
    BY DEF FailedMissionIsRecoverable
  <2>1. PICK j \in JobsOf(m) : jobStatus[j] = "failed"
    BY DEF Quiet, HandedOver, FailedMissionIsRecoverable
  <2> QED
    BY <1>1, <2>1 DEF Quiet, JobsOf
<1>3. NoStrandedMission'
  <2> SUFFICES ASSUME NEW m \in Missions \ OperatorMissions,
                      \/ mission'[m] = "running"
                      \/ (mission'[m] = "queued" /\ JobsOf(m)' # {})
               PROVE  \E j \in JobsOf(m)' : jobStatus'[j] \in Live
    BY DEF NoStrandedMission
  <2>1. \/ mission[m] = "running"
        \/ (mission[m] = "queued" /\ JobsOf(m) # {})
    BY <1>1 DEF Quiet
  <2>2. PICK j \in JobsOf(m) : jobStatus[j] \in Live
    BY <2>1 DEF HandedOver, NoStrandedMission
  <2> QED
    BY <1>1, <2>2 DEF Quiet, JobsOf
<1> QED
  BY <1>2, <1>3 DEF HandedOver

-----------------------------------------------------------------------------
LEMMA QuietWorker ==
  ASSUME HandoverInv, NEW w \in Workers, WorkerStep(w),
         ~ ClaimNext(w), ~ Finish(w), ~ Fail(w)
  PROVE  Quiet
<1> USE DEF HandoverInv, ProofInv, BaseInv, EngineInv, EngineTypeOK, QueueInv,
            QueueTypeOK
<1>1. pc[w] \notin Away => Job(w) \in Jobs /\ Mission(w) \in Missions
  BY HeldJob
<1>2. ASSUME UNCHANGED engineVars, UNCHANGED queueVars PROVE Quiet
  BY <1>2 DEF Quiet, engineVars, queueVars
<1>3. ASSUME Start(w) PROVE Quiet
  <2>1. CASE StartJob(w, Job(w)) /\ UNCHANGED engineVars
    BY <2>1 DEF StartJob, Quiet, Live, engineVars
  <2> QED
    BY <1>2, <1>3, <2>1 DEF Start
<1>4. ASSUME Begin(w) PROVE Quiet
  BY <1>4 DEF Begin, Heartbeat, Quiet, engineVars
<1>5. ASSUME ExecuteMission(w) PROVE Quiet
  <2>1. Job(w) \in JobsOf(Mission(w)) /\ Mission(w) \in Missions
    BY <1>1, <1>5 DEF ExecuteMission, At, Away, JobsOf, Mission, Job
  <2>2. CASE Execute(Mission(w)) /\ UNCHANGED queueVars
    BY <2>1, <2>2 DEF Execute, Transition, SetStatus, Quiet, queueVars
  <2> QED
    BY <1>2, <1>5, <2>2 DEF ExecuteMission, Call
<1>6. ASSUME CompleteMission(w) \/ EvaluateMission(w) \/ LearnFromMission(w)
      PROVE  Quiet
  <2>1. Mission(w) \in Missions
    BY <1>1, <1>6 DEF CompleteMission, EvaluateMission, LearnFromMission, At, Away
  <2>2. ASSUME Complete(Mission(w)) \/ Evaluate(Mission(w))
                 \/ LearnCapability(Mission(w)),
               UNCHANGED queueVars
        PROVE  Quiet
    BY <2>1, <2>2 DEF Complete, Evaluate, LearnCapability, Transition,
       SetStatus, Quiet, queueVars
  <2> QED
    BY <1>2, <1>6, <2>2
    DEF CompleteMission, EvaluateMission, LearnFromMission, Call
<1>7. ASSUME LinkToJob(w) PROVE Quiet
  BY <1>7 DEF LinkToJob, LinkOutcome, Quiet, queueVars
<1>8. ASSUME \/ Reread(w) \/ Checkpoint(w) \/ RecordArtifact(w)
             \/ AppendEvidence(w) \/ RecordEffect(w) \/ Settle(w) \/ Weigh(w)
             \/ Reflect(w) \/ RecordLesson(w)
      PROVE  UNCHANGED engineVars /\ UNCHANGED queueVars
  BY <1>8 DEF Reread, Checkpoint, RecordArtifact, AppendEvidence,
      RecordEffect, Settle, Weigh, Reflect, RecordLesson, Read
<1> QED
  BY <1>2, <1>3, <1>4, <1>5, <1>6, <1>7, <1>8 DEF WorkerStep

LEMMA QuietGateway ==
  ASSUME HandoverInv,
         \/ \E m \in Missions : EngineRequest(m)
         \/ \E k \in ClientKeys : AskExecute(k[1], k[2])
         \/ GatewayCrash
         \/ \E e \in Uploads, m \in Missions : Upload(e, m)
         \/ \E m \in OperatorMissions : Operate(m)
  PROVE  Quiet
<1> USE DEF HandoverInv, ProofInv, BaseInv, EngineInv, EngineTypeOK
<1>1. ASSUME NEW m \in Missions, EngineRequest(m) PROVE Quiet
  <2>1. jobMission' = jobMission /\ jobStatus' = jobStatus
    BY <1>1 DEF EngineRequest, queueVars
  <2>2. ASSUME NEW to, SetStatus(m, to), to \notin {"queued", "running", "failed"}
        PROVE  Quiet
    BY <2>1, <2>2 DEF SetStatus, Quiet
  <2>3. CASE AssignAgent(m)
    <3>1. JobsOf(m) = {}
      BY <2>3 DEF AssignAgent, NoJobsYet, Unassigned
    <3> QED
      BY <2>1, <2>3, <3>1 DEF AssignAgent, Transition, SetStatus, Quiet
  <2> QED
    BY <1>1, <2>2, <2>3
    DEF EngineRequest, CreateMission, ValidateMission, PlanMission,
        RequestApproval, DecideApproval, Evaluate, LearnCapability, Transition
<1>2. ASSUME NEW m \in OperatorMissions, Operate(m) PROVE Quiet
  <2>1. jobMission' = jobMission /\ jobStatus' = jobStatus
    BY <1>2 DEF Operate, queueVars
  <2> QED
    BY <1>2, <2>1, RuntimeAssumption
    DEF Operate, Execute, Complete, Transition, SetStatus, Quiet
<1>3. ASSUME \/ \E k \in ClientKeys : AskExecute(k[1], k[2])
             \/ GatewayCrash
             \/ \E e \in Uploads, m \in Missions : Upload(e, m)
      PROVE  mission' = mission /\ jobMission' = jobMission /\ jobStatus' = jobStatus
  BY <1>3 DEF AskExecute, GatewayCrash, Upload, engineVars, queueVars
<1>4. mission' = mission /\ jobMission' = jobMission /\ jobStatus' = jobStatus
        => Quiet
  BY DEF Quiet
<1> QED
  BY <1>1, <1>2, <1>3, <1>4

-----------------------------------------------------------------------------
(* The steps that end jobs, fail missions or bring them back.              *)

LEMMA ClaimHandsOver ==
  ASSUME HandoverInv, NEW w \in Workers, ClaimNext(w)
  PROVE  HandedOver'
<1> DEFINE S == {jobMission[j] : j \in Exhausted}
<1>1. PICK pick \in Picks : Claim(w, pick)
  BY DEF ClaimNext
<1>2. \A j \in Jobs : jobStatus'[j] =
        IF j = pick THEN "leased"
        ELSE IF j \in Exhausted THEN "failed"
        ELSE IF j \in Expired THEN "retryable" ELSE jobStatus[j]
  <2>1. pick \notin Expired /\ Exhausted \subseteq Expired
    BY NullAssumption
    DEF Picks, Claimable, Expired, Exhausted, Leasable, UnderWork
  <2> QED
    BY <1>1, <2>1 DEF Claim
<1>3. /\ pick \in Jobs => jobStatus[pick] \in Leasable
      /\ \A j \in Expired : j \in Jobs /\ jobStatus[j] \in UnderWork
      /\ Exhausted \subseteq Expired
  BY NullAssumption DEF Picks, Claimable, Expired, Exhausted
<1>4. jobMission' = jobMission
  BY <1>1 DEF Claim
<1>5. \A m : JobsOf(m)' = JobsOf(m)
  BY <1>4 DEF JobsOf
<1>6. \A m \in Missions :
        mission'[m] = IF m \in S /\ mission[m] \in Interruptible
                        THEN "failed" ELSE mission[m]
  BY DEF ClaimNext, MissionFailure
<1>7. FailedMissionIsRecoverable'
  <2> SUFFICES ASSUME NEW m \in Missions, mission'[m] = "failed"
               PROVE  \E j \in JobsOf(m)' : jobStatus'[j] = "failed"
    BY DEF FailedMissionIsRecoverable
  <2>1. CASE mission[m] = "failed"
    <3>1. PICK j \in JobsOf(m) : jobStatus[j] = "failed"
      BY <2>1 DEF HandoverInv, FailedMissionIsRecoverable
    <3> QED
      BY <1>2, <1>3, <1>5, <3>1 DEF Leasable, UnderWork, JobsOf
  <2>2. CASE mission[m] # "failed"
    <3>1. PICK j \in Exhausted : jobMission[j] = m
      BY <1>6, <2>2
    <3>2. jobStatus'[j] = "failed" /\ j \in JobsOf(m)
      BY <1>2, <1>3, <3>1 DEF Leasable, UnderWork, JobsOf
    <3> QED
      BY <1>5, <3>2
  <2> QED
    BY <2>1, <2>2
<1>8. NoStrandedMission'
  <2> SUFFICES ASSUME NEW m \in Missions \ OperatorMissions,
                      \/ mission'[m] = "running"
                      \/ (mission'[m] = "queued" /\ JobsOf(m)' # {})
               PROVE  \E j \in JobsOf(m)' : jobStatus'[j] \in Live
    BY DEF NoStrandedMission
  <2>1. mission[m] = mission'[m] /\ m \notin S
    BY <1>6 DEF Interruptible
  <2>2. PICK j \in JobsOf(m) : jobStatus[j] \in Live
    BY <1>5, <2>1 DEF HandoverInv, NoStrandedMission
  <2>3. j \notin Exhausted
    BY <2>1, <2>2 DEF JobsOf
  <2>4. jobStatus'[j] \in Live
    BY <1>2, <2>2, <2>3 DEF JobsOf, Live
  <2> QED
    BY <1>5, <2>2, <2>4
<1> QED
  BY <1>7, <1>8 DEF HandedOver

(* One job ends or is revived; what becomes of its mission decides.        *)
LEMMA OneJob ==
  ASSUME HandedOver, NEW i \in Jobs, jobMission' = jobMission,
         \A j \in Jobs \ {i} : jobStatus'[j] = jobStatus[j],
         jobStatus[i] # "failed" \/ mission'[jobMission[i]] # "failed",
         \/ jobStatus'[i] \in Live
         \/ mission'[jobMission[i]] \notin {"queued", "running"},
         \A m \in Missions : m # jobMission[i] => mission'[m] = mission[m],
         \/ mission'[jobMission[i]] # "failed"
         \/ mission[jobMission[i]] = "failed"
         \/ jobStatus'[i] = "failed"
  PROVE  HandedOver'
<1>1. \A m : JobsOf(m)' = JobsOf(m)
  BY DEF JobsOf
<1>2. FailedMissionIsRecoverable'
  <2> SUFFICES ASSUME NEW m \in Missions, mission'[m] = "failed"
               PROVE  \E j \in JobsOf(m)' : jobStatus'[j] = "failed"
    BY DEF FailedMissionIsRecoverable
  <2>1. CASE m = jobMission[i] /\ jobStatus'[i] = "failed"
    BY <1>1, <2>1 DEF JobsOf
  <2>2. CASE ~ (m = jobMission[i] /\ jobStatus'[i] = "failed")
    <3>1. mission[m] = "failed"
      BY <2>2
    <3>2. PICK j \in JobsOf(m) : jobStatus[j] = "failed"
      BY <3>1 DEF HandedOver, FailedMissionIsRecoverable
    <3>3. j # i
      BY <3>2 DEF JobsOf
    <3> QED
      BY <1>1, <3>2, <3>3 DEF JobsOf
  <2> QED
    BY <2>1, <2>2
<1>3. NoStrandedMission'
  <2> SUFFICES ASSUME NEW m \in Missions \ OperatorMissions,
                      \/ mission'[m] = "running"
                      \/ (mission'[m] = "queued" /\ JobsOf(m)' # {})
               PROVE  \E j \in JobsOf(m)' : jobStatus'[j] \in Live
    BY DEF NoStrandedMission
  <2>1. CASE m = jobMission[i]
    BY <1>1, <2>1 DEF JobsOf
  <2>2. CASE m # jobMission[i]
    <3>1. PICK j \in JobsOf(m) : jobStatus[j] \in Live
      BY <1>1, <2>2 DEF HandedOver, NoStrandedMission
    <3>2. j # i
      BY <2>2, <3>1 DEF JobsOf
    <3> QED
      BY <1>1, <3>1, <3>2 DEF JobsOf
  <2> QED
    BY <2>1, <2>2
<1> QED
  BY <1>2, <1>3 DEF HandedOver

LEMMA FinishHandsOver ==
  ASSUME HandoverInv, NEW w \in Workers, Finish(w)
  PROVE  HandedOver'
<1>1. Job(w) \in Jobs /\ mission[jobMission[Job(w)]] = "learned"
  BY HeldJob
  DEF Finish, At, Away, Job, HandoverInv, ProofInv, BaseInv, WorkerInv, Ready
<1>2. mission' = mission
  BY DEF Finish, engineVars
<1>3. CASE UNCHANGED queueVars
  BY <1>2, <1>3, QuietSteps DEF Quiet, queueVars, HandedOver, HandoverInv
<1>4. CASE CompleteJob(w, Job(w))
  <2>1. /\ jobMission' = jobMission
        /\ \A j \in Jobs \ {Job(w)} : jobStatus'[j] = jobStatus[j]
        /\ jobStatus[Job(w)] = "running"
    BY <1>1, <1>4
    DEF CompleteJob, Release, HandoverInv, ProofInv, BaseInv, QueueInv, QueueTypeOK
  <2> QED
    BY <1>1, <1>2, <2>1, OneJob DEF HandedOver, HandoverInv
<1> QED
  BY <1>3, <1>4 DEF Finish

LEMMA FailHandsOver ==
  ASSUME HandoverInv, NEW w \in Workers, Fail(w)
  PROVE  HandedOver'
<1> USE DEF HandoverInv, ProofInv, BaseInv, QueueInv, QueueTypeOK
<1>1. Job(w) \in Jobs /\ Mission(w) \in Missions
  BY HeldJob DEF Fail, At, Away
<1>2. CASE UNCHANGED <<queueVars, engineVars>>
  BY <1>2, QuietSteps DEF Quiet, queueVars, engineVars, HandedOver
<1>3. CASE Owns(w, Job(w))
  <2>1. FailJob(w, Job(w))
    BY <1>3 DEF Fail
  <2>2. MissionFailure(IF OutOfAttempts(Job(w)) THEN {Mission(w)} ELSE {})
    BY <1>3 DEF Fail
  <2>3. jobStatus[Job(w)] \in UnderWork
    BY <1>1, <1>3, NullAssumption DEF Owns, LeaseMatchesStatus
  <2>4. /\ jobMission' = jobMission
        /\ \A j \in Jobs \ {Job(w)} : jobStatus'[j] = jobStatus[j]
        /\ OutOfAttempts(Job(w)) => jobStatus'[Job(w)] = "failed"
        /\ ~ OutOfAttempts(Job(w)) => jobStatus'[Job(w)] = "retryable"
    BY <1>1, <2>1 DEF FailJob, Release
  <2>5. /\ \A m \in Missions : m # Mission(w) => mission'[m] = mission[m]
        /\ OutOfAttempts(Job(w))
             => mission'[Mission(w)] \notin {"queued", "running"}
        /\ ~ OutOfAttempts(Job(w)) => mission'[Mission(w)] = mission[Mission(w)]
    BY <1>1, <2>2 DEF MissionFailure, Interruptible
  <2>6. jobStatus[Job(w)] # "failed"
    BY <2>3 DEF UnderWork
  <2>7. Mission(w) = jobMission[Job(w)]
    BY DEF Mission, Job
  <2>8. CASE OutOfAttempts(Job(w))
    BY <1>1, <2>4, <2>5, <2>6, <2>7, <2>8, OneJob DEF HandedOver
  <2>9. CASE ~ OutOfAttempts(Job(w))
    BY <1>1, <2>4, <2>5, <2>6, <2>7, <2>9, OneJob DEF HandedOver, Live
  <2> QED
    BY <2>8, <2>9
<1> QED
  BY <1>2, <1>3 DEF Fail

LEMMA RequeueHandsOver ==
  ASSUME HandoverInv, NEW i \in Jobs, Requeue(i)
  PROVE  HandedOver'
<1> USE DEF HandoverInv, ProofInv, BaseInv, QueueInv, QueueTypeOK, EngineInv,
            EngineTypeOK
<1>1. jobMission[i] \in Missions
  BY JobMissions DEF Requeue, RequeueJob
<1>2. /\ jobMission' = jobMission
      /\ \A j \in Jobs \ {i} : jobStatus'[j] = jobStatus[j]
      /\ jobStatus'[i] = "queued"
  BY DEF Requeue, RequeueJob, Release
<1>3. /\ \A m \in Missions : m # jobMission[i] => mission'[m] = mission[m]
      /\ mission'[jobMission[i]] # "failed"
  BY <1>1 DEF Requeue, RequeueMission
<1> QED
  BY <1>2, <1>3, OneJob DEF HandedOver, Live

LEMMA CancelHandsOver ==
  ASSUME HandoverInv, NEW m \in Missions, Cancel(m)
  PROVE  HandedOver'
<1> USE DEF HandoverInv, ProofInv, BaseInv, QueueInv, QueueTypeOK, EngineInv,
            EngineTypeOK
<1>1. /\ mission'[m] = "cancelled"
      /\ \A n \in Missions : n # m => mission'[n] = mission[n]
  BY DEF Cancel, CancelMission, Transition, SetStatus
<1>2. /\ jobMission' = jobMission
      /\ \A j \in Jobs : jobStatus'[j] = jobStatus[j] \/
           (/\ jobMission[j] = m
            /\ jobStatus[j] \in Leasable \cup {"leased"})
  BY DEF Cancel, CancelJobs
<1>3. \A n : JobsOf(n)' = JobsOf(n)
  BY <1>2 DEF JobsOf
<1>4. FailedMissionIsRecoverable'
  <2> SUFFICES ASSUME NEW n \in Missions, mission'[n] = "failed"
               PROVE  \E j \in JobsOf(n)' : jobStatus'[j] = "failed"
    BY DEF FailedMissionIsRecoverable
  <2>1. PICK j \in JobsOf(n) : jobStatus[j] = "failed"
    BY <1>1 DEF FailedMissionIsRecoverable
  <2> QED
    BY <1>2, <1>3, <2>1 DEF JobsOf, Leasable
<1>5. NoStrandedMission'
  <2> SUFFICES ASSUME NEW n \in Missions \ OperatorMissions,
                      \/ mission'[n] = "running"
                      \/ (mission'[n] = "queued" /\ JobsOf(n)' # {})
               PROVE  \E j \in JobsOf(n)' : jobStatus'[j] \in Live
    BY DEF NoStrandedMission
  <2>1. n # m
    BY <1>1
  <2>2. PICK j \in JobsOf(n) : jobStatus[j] \in Live
    BY <1>1, <1>3, <2>1 DEF NoStrandedMission
  <2> QED
    BY <1>2, <1>3, <2>1, <2>2 DEF JobsOf
<1> QED
  BY <1>4, <1>5 DEF HandedOver

LEMMA EnqueueHandsOver ==
  ASSUME HandoverInv, NEW k \in ClientKeys, EnqueueAsked(k[1], k[2])
  PROVE  HandedOver'
<1> USE DEF HandoverInv, ProofInv, BaseInv, QueueInv, QueueTypeOK
<1>1. k[1] \in Missions /\ k[2] \in Jobs
  BY RuntimeAssumption
<1>2. mission' = mission
  BY DEF EnqueueAsked, engineVars
<1>3. CASE jobStatus[k[2]] # "absent"
  BY <1>2, <1>3, QuietSteps
  DEF EnqueueAsked, Enqueue, queueVars, Quiet, HandedOver
<1>4. CASE jobStatus[k[2]] = "absent"
  <2>1. /\ jobStatus'[k[2]] = "queued" /\ jobMission'[k[2]] = k[1]
        /\ \A j \in Jobs \ {k[2]} : /\ jobStatus'[j] = jobStatus[j]
                                    /\ jobMission'[j] = jobMission[j]
    BY <1>1, <1>4 DEF EnqueueAsked, Enqueue
  <2>2. \A n : \A j \in JobsOf(n) :
          j # k[2] => j \in JobsOf(n)' /\ jobStatus'[j] = jobStatus[j]
    BY <2>1 DEF JobsOf
  <2>3. FailedMissionIsRecoverable'
    <3> SUFFICES ASSUME NEW n \in Missions, mission'[n] = "failed"
                 PROVE  \E j \in JobsOf(n)' : jobStatus'[j] = "failed"
      BY DEF FailedMissionIsRecoverable
    <3>1. PICK j \in JobsOf(n) : jobStatus[j] = "failed"
      BY <1>2 DEF FailedMissionIsRecoverable
    <3> QED
      BY <1>4, <2>2, <3>1
  <2>4. NoStrandedMission'
    <3> SUFFICES ASSUME NEW n \in Missions \ OperatorMissions,
                        \/ mission'[n] = "running"
                        \/ (mission'[n] = "queued" /\ JobsOf(n)' # {})
                 PROVE  \E j \in JobsOf(n)' : jobStatus'[j] \in Live
      BY DEF NoStrandedMission
    <3>1. CASE n = k[1]
      BY <1>1, <2>1, <3>1 DEF JobsOf, Live
    <3>2. CASE n # k[1]
      <4>1. JobsOf(n)' \subseteq JobsOf(n)
        BY <1>1, <2>1, <3>2 DEF JobsOf
      <4>2. PICK j \in JobsOf(n) : jobStatus[j] \in Live
        BY <1>2, <4>1 DEF NoStrandedMission
      <4> QED
        BY <1>4, <2>2, <4>2 DEF Live
    <3> QED
      BY <3>1, <3>2
  <2> QED
    BY <2>3, <2>4 DEF HandedOver
<1> QED
  BY <1>3, <1>4

LEMMA HandoverInit == Init => HandoverInv
  BY ProofInvInit, NullAssumption
  DEF Init, EngineInit, QueueInit, HandoverInv, NoJobsYet, NoStrandedMission,
      FailedMissionIsRecoverable, JobsOf, Unassigned

LEMMA HandoverStep == HandoverInv /\ [Next]_vars => HandoverInv'
<1> SUFFICES ASSUME HandoverInv, [Next]_vars PROVE HandoverInv'
  OBVIOUS
<1>1. ProofInv'
  BY ProofInvStep DEF HandoverInv
<1>2. NoJobsYet'
  BY NoJobsYetStep DEF HandoverInv, ProofInv
<1>3. HandedOver
  BY DEF HandoverInv, HandedOver
<1>4. ASSUME NEW w \in Workers, WorkerStep(w) PROVE HandedOver'
  BY <1>3, <1>4, QuietWorker, QuietSteps, ClaimHandsOver, FinishHandsOver,
     FailHandsOver
<1>5. ASSUME GatewayStep PROVE HandedOver'
  BY <1>3, <1>5, QuietGateway, QuietSteps, CancelHandsOver, RequeueHandsOver,
     EnqueueHandsOver DEF GatewayStep
<1>6. ASSUME \/ \E w \in Workers : Crash(w) \/ Restart(w)
             \/ UNCHANGED vars
      PROVE  HandedOver'
  <2>1. Quiet
    BY <1>6 DEF Crash, Restart, vars, engineVars, queueVars, Quiet
  <2> QED
    BY <1>3, <2>1, QuietSteps
<1>7. ASSUME NEW j \in Jobs, Tick(j) PROVE HandedOver'
  <2>1. Quiet
    BY <1>7 DEF Tick, LeaseLapse, BackoffElapse, engineVars, Quiet
  <2> QED
    BY <1>3, <2>1, QuietSteps
<1>8. HandedOver'
  BY <1>4, <1>5, <1>6, <1>7 DEF Next
<1> QED
  BY <1>1, <1>2, <1>8 DEF HandoverInv, HandedOver

(* A mission waiting for the workers or being worked on always has a job   *)
(* that one of them may still take or finish.                              *)
THEOREM HandoverTheorem == Spec => []NoStrandedMission
<1>1. HandoverInv => NoStrandedMission
  BY DEF HandoverInv
<1> QED
  BY <1>1, HandoverInit, HandoverStep, PTL DEF Spec

(* A failed mission always has a failed job, which a requeue revives.      *)
THEOREM RecoveryTheorem == Spec => []FailedMissionIsRecoverable
<1>1. HandoverInv => FailedMissionIsRecoverable
  BY DEF HandoverInv
<1> QED
  BY <1>1, HandoverInit, HandoverStep, PTL DEF Spec

-----------------------------------------------------------------------------
(* The evidence rows.                                                      *)

(* The mission's sequence numbers have a largest one.                      *)
Numbers(m) == {evidence[e].sequence : e \in RowsOf(m)} \cup {0}
Numbered   == \A m \in Missions : \E n \in Numbers(m) : \A k \in Numbers(m) : n >= k

(* No two rows of a mission have the same number.                          *)
Distinct ==
  \A m \in Missions : \A e, f \in RowsOf(m) :
    evidence[e].sequence = evidence[f].sequence => e = f

LEMMA LastRow ==
  ASSUME EvidenceTypeOK, Numbered, NEW m \in Missions
  PROVE  /\ LastSequence(m) \in Numbers(m) /\ LastSequence(m) \in Nat
         /\ \A k \in Numbers(m) : LastSequence(m) >= k
         /\ LastHash(m) \in Hashes
<1>1. PICK n \in Numbers(m) : \A k \in Numbers(m) : n >= k
  BY DEF Numbered
<1>2. LastSequence(m) \in Numbers(m) /\ \A k \in Numbers(m) : LastSequence(m) >= k
  BY <1>1 DEF LastSequence, Max, Numbers
<1>3. \A e \in RowsOf(m) :
        /\ evidence[e].sequence \in Nat \ {0} /\ evidence[e].sequence \in Numbers(m)
        /\ evidence[e].chain_hash \in Hashes
  BY DEF RowsOf, EvidenceTypeOK, Numbers
<1>4. LastSequence(m) \in Nat
  BY <1>2, <1>3 DEF Numbers
<1>5. CASE RowsOf(m) = {}
  BY <1>2, <1>4, <1>5 DEF LastHash, GENESIS, Hashes
<1>6. CASE RowsOf(m) # {}
  <2>1. PICK e \in RowsOf(m) : TRUE
    BY <1>6
  <2>2. LastSequence(m) # 0
    BY <1>2, <1>3, <2>1
  <2>3. \E r \in RowsOf(m) : evidence[r].sequence = LastSequence(m)
    BY <1>2, <2>2 DEF Numbers
  <2> QED
    BY <1>2, <1>3, <1>4, <1>6, <2>3 DEF LastHash
<1> QED
  BY <1>2, <1>4, <1>5, <1>6

Row(e, m) ==
  [ mission |-> m, sequence |-> LastSequence(m) + 1,
    previous_chain_hash |-> LastHash(m),
    chain_hash |-> Append(LastHash(m), <<e, LastSequence(m) + 1>>) ]

LEMMA AppendedRow ==
  ASSUME NEW e, NEW m, AppendRow(e, m)
  PROVE  /\ Recorded' = Recorded \cup {e} /\ evidence'[e] = Row(e, m)
         /\ \A x \in Recorded : x # e => evidence'[x] = evidence[x]
BY DEF AppendRow, Upsert, Recorded, Row

(* An append numbers its row past all the others, also when it overwrites  *)
(* a row of the same mission.                                              *)
LEMMA AppendKeepsRows ==
  ASSUME EvidenceTypeOK, Numbered, Distinct, NEW e \in Records, NEW m \in Missions,
         AppendRow(e, m), e \in Recorded => evidence[e].mission = m,
         artifacts' \subseteq Records
  PROVE  EvidenceTypeOK' /\ Numbered' /\ Distinct'
<1>1. /\ Recorded' = Recorded \cup {e} /\ evidence'[e] = Row(e, m)
      /\ \A x \in Recorded : x # e => evidence'[x] = evidence[x]
  BY AppendedRow
<1>2. /\ LastSequence(m) \in Nat /\ LastHash(m) \in Hashes
      /\ \A k \in Numbers(m) : LastSequence(m) >= k
  BY LastRow
<1>3. <<e, LastSequence(m) + 1>> \in Records \X Nat
  BY <1>2
<1>4. Append(LastHash(m), <<e, LastSequence(m) + 1>>) \in Hashes
  BY <1>2, <1>3 DEF Hashes
<1>5. Row(e, m) \in [ mission : Missions, sequence : Nat \ {0},
                      previous_chain_hash : Hashes, chain_hash : Hashes ]
  BY <1>2, <1>4 DEF Row
<1>6. EvidenceTypeOK'
  BY <1>1, <1>5 DEF EvidenceTypeOK
<1>7. ASSUME NEW n \in Missions
      PROVE  \E top \in Numbers(n)' : \A k \in Numbers(n)' : top >= k
  <2>1. CASE n = m
    <3>1. /\ evidence'[e].sequence = LastSequence(m) + 1 /\ e \in RowsOf(m)'
          /\ \A x \in RowsOf(m)' : x # e => x \in RowsOf(m) /\ evidence'[x] = evidence[x]
      BY <1>1 DEF Row, RowsOf
    <3>2. LastSequence(m) + 1 \in Numbers(m)'
      BY <3>1 DEF Numbers
    <3>3. \A k \in Numbers(m)' : k \in Numbers(m) \/ k = LastSequence(m) + 1
      BY <3>1 DEF Numbers
    <3>4. Numbers(m) \subseteq Nat
      BY DEF Numbers, RowsOf, EvidenceTypeOK
    <3>5. \A k \in Numbers(m)' : LastSequence(m) + 1 >= k
      BY <1>2, <3>3, <3>4
    <3> QED
      BY <2>1, <3>2, <3>5
  <2>2. CASE n # m
    <3>1. /\ RowsOf(n)' = RowsOf(n)
          /\ \A x \in RowsOf(n) : evidence'[x] = evidence[x]
      BY <1>1, <2>2 DEF Row, RowsOf
    <3>2. Numbers(n)' = Numbers(n)
      BY <3>1 DEF Numbers
    <3> QED
      BY <3>2 DEF Numbered
  <2> QED
    BY <2>1, <2>2
<1>8. ASSUME NEW n \in Missions, NEW x \in RowsOf(n)', NEW y \in RowsOf(n)',
             evidence'[x].sequence = evidence'[y].sequence
      PROVE  x = y
  <2>1. CASE n # m
    <3>1. /\ x \in RowsOf(n) /\ evidence'[x] = evidence[x]
          /\ y \in RowsOf(n) /\ evidence'[y] = evidence[y]
      BY <1>1, <2>1 DEF Row, RowsOf
    <3> QED
      BY <1>8, <3>1 DEF Distinct
  <2>2. CASE n = m
    <3>1. /\ \A z \in RowsOf(m)' : z # e => z \in RowsOf(m) /\ evidence'[z] = evidence[z]
          /\ evidence'[e].sequence = LastSequence(m) + 1
      BY <1>1 DEF Row, RowsOf
    <3>2. ASSUME NEW z \in RowsOf(m)
          PROVE  evidence[z].sequence # LastSequence(m) + 1
      <4>1. evidence[z].sequence \in Numbers(m) /\ evidence[z].sequence \in Nat
        BY DEF Numbers, RowsOf, EvidenceTypeOK
      <4> QED
        BY <1>2, <4>1
    <3> QED
      BY <1>8, <2>2, <3>1, <3>2 DEF Distinct
  <2> QED
    BY <2>1, <2>2
<1> QED
  BY <1>6, <1>7, <1>8 DEF Numbered, Distinct

-----------------------------------------------------------------------------
(* What changes the evidence table.                                        *)
LEMMA OnlyAppends ==
  ASSUME ProofInv, [Next]_vars
  PROVE  \/ evidence' = evidence
         \/ \E w \in Workers : AppendEvidence(w)
         \/ \E e \in Uploads, m \in Missions : Upload(e, m)
<1>1. ASSUME NEW w \in Workers, WorkerStep(w), ~ AppendEvidence(w)
      PROVE  evidence' = evidence
  BY <1>1 DEF WorkerStep, ClaimNext, Start, Begin, ExecuteMission, Reread, Checkpoint,
      RecordArtifact, RecordEffect, Settle, CompleteMission, LinkToJob, Weigh,
      EvaluateMission, Reflect, LearnFromMission, RecordLesson, Finish, Fail, Read,
      Call, evidenceVars
<1>2. ASSUME GatewayStep, ~ \E e \in Uploads, m \in Missions : Upload(e, m)
      PROVE  evidence' = evidence
  BY <1>2 DEF GatewayStep, EngineRequest, Cancel, AskExecute, EnqueueAsked,
      GatewayCrash, Requeue, Operate, evidenceVars
<1>3. ASSUME \/ \E w \in Workers : Crash(w) \/ Restart(w)
             \/ \E j \in Jobs : Tick(j)
             \/ UNCHANGED vars
      PROVE  evidence' = evidence
  BY <1>3 DEF Crash, Restart, Tick, vars, evidenceVars
<1> QED
  BY <1>1, <1>2, <1>3 DEF Next

LEMMA RowsOfHeld ==
  ASSUME ProofInv, NEW w \in Workers, AppendEvidence(w)
  PROVE  /\ Job(w) \in Jobs \cap artifacts /\ Mission(w) \in Missions
         /\ AppendRow(Job(w), Mission(w)) /\ artifacts' = artifacts
         /\ Job(w) \in Recorded => evidence[Job(w)].mission = Mission(w)
<1>1. Job(w) \in Jobs /\ Mission(w) \in Missions
  BY HeldJob DEF AppendEvidence, At, Away, ProofInv
<1> QED
  BY <1>1 DEF AppendEvidence, At, Job, Mission, ProofInv, BaseInv, WorkerInv, Ready,
              RecordInv

-----------------------------------------------------------------------------
(* Types.                                                                  *)
RuntimeTypeInv ==
  /\ ProofInv /\ EvidenceTypeOK /\ Numbered /\ Distinct
  /\ saw \in [Workers -> MissionStates \cup {"absent"}]
  /\ lessons \subseteq Jobs
  /\ requeues \in Nat

LEMMA EvidenceTypeStep ==
  ASSUME ProofInv, EvidenceTypeOK, Numbered, Distinct, [Next]_vars
  PROVE  EvidenceTypeOK' /\ Numbered' /\ Distinct'
<1>1. artifacts' \subseteq Records
  <2>1. ASSUME NEW w \in Workers, RecordArtifact(w) PROVE artifacts' \subseteq Records
    <3>1. Job(w) \in Jobs
      BY <2>1, HeldJob DEF RecordArtifact, At, Away, ProofInv
    <3> QED
      BY <2>1, <3>1 DEF RecordArtifact, WriteArtifact, Records, EvidenceTypeOK
  <2>2. ASSUME NEW w \in Workers, WorkerStep(w), ~ RecordArtifact(w)
        PROVE  artifacts' = artifacts
    BY <2>2 DEF WorkerStep, ClaimNext, Start, Begin, ExecuteMission, Reread, Checkpoint,
        AppendEvidence, RecordEffect, Settle, CompleteMission, LinkToJob, Weigh,
        EvaluateMission, Reflect, LearnFromMission, RecordLesson, Finish, Fail, Read,
        Call, evidenceVars
  <2>3. ASSUME GatewayStep PROVE artifacts' \subseteq Records
    BY <2>3 DEF GatewayStep, EngineRequest, Cancel, AskExecute, EnqueueAsked,
        GatewayCrash, Requeue, Operate, Upload, WriteArtifact, evidenceVars, Records,
        EvidenceTypeOK
  <2>4. ASSUME \/ \E w \in Workers : Crash(w) \/ Restart(w)
               \/ \E j \in Jobs : Tick(j)
               \/ UNCHANGED vars
        PROVE  artifacts' = artifacts
    BY <2>4 DEF Crash, Restart, Tick, vars, evidenceVars
  <2> QED
    BY <2>1, <2>2, <2>3, <2>4 DEF Next, EvidenceTypeOK
<1>2. CASE evidence' = evidence
  BY <1>1, <1>2 DEF EvidenceTypeOK, Numbered, Numbers, Distinct, RowsOf, Recorded
<1>3. ASSUME NEW w \in Workers, AppendEvidence(w) PROVE EvidenceTypeOK' /\ Numbered' /\ Distinct'
  BY <1>1, <1>3, RowsOfHeld, AppendKeepsRows DEF Records
<1>4. ASSUME NEW e \in Uploads, NEW m \in Missions, Upload(e, m)
      PROVE  EvidenceTypeOK' /\ Numbered' /\ Distinct'
  BY <1>1, <1>4, AppendKeepsRows DEF Upload, Records
<1> QED
  BY <1>2, <1>3, <1>4, OnlyAppends

LEMMA SawStep ==
  ASSUME ProofInv, saw \in [Workers -> MissionStates \cup {"absent"}], [Next]_vars
  PROVE  saw' \in [Workers -> MissionStates \cup {"absent"}]
<1>1. ASSUME NEW w \in Workers, Begin(w) \/ Reread(w)
      PROVE  saw' \in [Workers -> MissionStates \cup {"absent"}]
  <2>1. Mission(w) \in Missions
    BY <1>1, HeldJob DEF Begin, Reread, At, Away, ProofInv
  <2>2. StatusOf(w) \in MissionStates \cup {"absent"}
    BY <2>1 DEF StatusOf, ProofInv, BaseInv, EngineInv, EngineTypeOK
  <2>3. saw' = [saw EXCEPT ![w] = StatusOf(w)]
    BY <1>1 DEF Begin, Reread, Look
  <2> QED
    BY <2>2, <2>3
<1>2. ASSUME NEW w \in Workers, WorkerStep(w), ~ Begin(w), ~ Reread(w)
      PROVE  saw' = saw \/ saw' = [saw EXCEPT ![w] = "absent"]
  BY <1>2 DEF WorkerStep, ClaimNext, Start, ExecuteMission, Checkpoint,
      RecordArtifact, AppendEvidence, RecordEffect, Settle, CompleteMission, LinkToJob,
      Weigh, EvaluateMission, Reflect, LearnFromMission, RecordLesson, Finish, Fail, Read,
      Call, Goto, Drop
<1>3. ASSUME NEW w \in Workers, Crash(w) \/ Restart(w)
      PROVE  saw' = [saw EXCEPT ![w] = "absent"]
  BY <1>3 DEF Crash, Restart, Drop
<1>4. ASSUME GatewayStep \/ (\E j \in Jobs : Tick(j)) \/ UNCHANGED vars
      PROVE  saw' = saw
  BY <1>4 DEF GatewayStep, EngineRequest, Cancel, AskExecute, EnqueueAsked,
      GatewayCrash, Requeue, Operate, Upload, Tick, vars, workerVars
<1> QED
  BY <1>1, <1>2, <1>3, <1>4 DEF Next

LEMMA CountsStep ==
  ASSUME ProofInv, lessons \subseteq Jobs, requeues \in Nat, [Next]_vars
  PROVE  lessons' \subseteq Jobs /\ requeues' \in Nat
<1>1. ASSUME NEW w \in Workers, RecordLesson(w)
      PROVE  lessons' \subseteq Jobs /\ requeues' \in Nat
  <2>1. Job(w) \in Jobs
    BY <1>1, HeldJob DEF RecordLesson, At, Away, ProofInv
  <2> QED
    BY <1>1, <2>1 DEF RecordLesson, gatewayVars
<1>2. ASSUME NEW w \in Workers, WorkerStep(w), ~ RecordLesson(w)
      PROVE  lessons' = lessons /\ requeues' = requeues
  BY <1>2 DEF WorkerStep, ClaimNext, Start, Begin, Reread, ExecuteMission, Checkpoint,
      RecordArtifact, AppendEvidence, RecordEffect, Settle, CompleteMission, LinkToJob,
      Weigh, EvaluateMission, Reflect, LearnFromMission, Finish, Fail, Read,
      Call, recordVars, gatewayVars
<1>3. ASSUME GatewayStep
      PROVE  lessons' = lessons /\ requeues' \in {requeues, requeues + 1}
  BY <1>3 DEF GatewayStep, EngineRequest, Cancel, AskExecute, EnqueueAsked,
      GatewayCrash, Requeue, Operate, Upload, recordVars, gatewayVars
<1>4. ASSUME \/ \E w \in Workers : Crash(w) \/ Restart(w)
             \/ \E j \in Jobs : Tick(j)
             \/ UNCHANGED vars
      PROVE  lessons' = lessons /\ requeues' = requeues
  BY <1>4 DEF Crash, Restart, Tick, vars, recordVars, gatewayVars
<1> QED
  BY <1>1, <1>2, <1>3, <1>4 DEF Next

LEMMA RuntimeTypeInductive == Spec => []RuntimeTypeInv
<1>1. Init => RuntimeTypeInv
  <2> SUFFICES ASSUME Init PROVE RuntimeTypeInv
    OBVIOUS
  <2>1. ProofInv
    BY ProofInvInit
  <2>2. Recorded = {} /\ artifacts = {}
    BY DEF Init, EvidenceInit, Recorded
  <2>3. EvidenceTypeOK /\ Numbered /\ Distinct
    BY <2>2 DEF EvidenceTypeOK, Numbered, Numbers, Distinct, RowsOf
  <2> QED
    BY <2>1, <2>3 DEF Init, RuntimeTypeInv
<1>2. RuntimeTypeInv /\ [Next]_vars => RuntimeTypeInv'
  BY ProofInvStep, EvidenceTypeStep, SawStep, CountsStep DEF RuntimeTypeInv
<1> QED
  BY <1>1, <1>2, PTL DEF Spec

(* The types of everything the runtime stores, for any number of workers   *)
(* that overwrite each other's evidence.                                   *)
THEOREM RuntimeTypeCorrect == Spec => []TypeOK
<1>1. RuntimeTypeInv => TypeOK
  BY DEF RuntimeTypeInv, TypeOK, ProofInv, BaseInv, EngineInv, QueueInv, WorkerInv,
         RecordInv
<1> QED
  BY <1>1, RuntimeTypeInductive, PTL

(* However many workers overwrite each other's evidence, and whatever      *)
(* crashes, no two rows of a mission ever have the same number: a late     *)
(* worker leaves a gap or a broken link in the chain, but never a tie.     *)
THEOREM NumbersTheorem == Spec => []Distinct
<1>1. RuntimeTypeInv => Distinct
  BY DEF RuntimeTypeInv
<1> QED
  BY <1>1, RuntimeTypeInductive, PTL

(* No row is lost or moved to another mission, and an uploaded one is      *)
(* never changed, however many workers there are.                          *)
RowsStay ==
  [][ \A e \in Recorded :
        /\ e \in Recorded' /\ evidence'[e].mission = evidence[e].mission
        /\ e \in Uploads => evidence'[e] = evidence[e] ]_vars

(* What the append transaction leaves alone, also when it upserts over a   *)
(* row that another worker appended since it looked.                       *)
THEOREM RowsStayTheorem == Spec => RowsStay
<1>1. ProofInv /\ [Next]_vars =>
        [\A e \in Recorded :
           /\ e \in Recorded' /\ evidence'[e].mission = evidence[e].mission
           /\ e \in Uploads => evidence'[e] = evidence[e]]_vars
  <2> SUFFICES ASSUME ProofInv, [Next]_vars, NEW e \in Recorded
               PROVE  /\ e \in Recorded' /\ evidence'[e].mission = evidence[e].mission
                      /\ e \in Uploads => evidence'[e] = evidence[e]
    OBVIOUS
  <2>1. CASE evidence' = evidence
    BY <2>1 DEF Recorded
  <2>2. ASSUME NEW w \in Workers, AppendEvidence(w)
        PROVE  /\ e \in Recorded' /\ evidence'[e].mission = evidence[e].mission
               /\ e \in Uploads => evidence'[e] = evidence[e]
    BY <2>2, RowsOfHeld, AppendGrows, UploadAssumption
  <2>3. ASSUME NEW f \in Uploads, NEW m \in Missions, Upload(f, m)
        PROVE  e \in Recorded' /\ evidence'[e] = evidence[e]
    BY <2>3, AppendGrows DEF Upload
  <2> QED
    BY <2>1, <2>2, <2>3, OnlyAppends
<1> QED
  BY <1>1, ProofInvInit, ProofInvStep, PTL DEF Spec, RowsStay

-----------------------------------------------------------------------------
(* With a single worker process.                                           *)
OneWorker == \A v, w \in Workers : v = w

(* Between its look and its append nobody records a worker's job.          *)
Fresh == \A w \in Workers : pc[w] = "append" => held[w] \notin Recorded

LEMMA ToAppend ==
  ASSUME [Next]_vars, OneWorker, BaseInv, NEW w \in Workers, pc'[w] = "append"
  PROVE  /\ held'[w] = held[w]
         /\ \/ RecordArtifact(w) /\ held[w] \notin Recorded
            \/ pc[w] = "append" /\ ~ \E v \in Workers : WorkerStep(v)
<1> USE DEF BaseInv, WorkerInv
<1>1. ASSUME NEW v \in Workers, WorkerStep(v), ~ RecordArtifact(v) PROVE pc'[w] # "append"
  BY <1>1 DEF OneWorker, WorkerStep, ClaimNext, Start, Begin, Reread, ExecuteMission,
      Checkpoint, AppendEvidence, RecordEffect, Settle, CompleteMission, LinkToJob,
      Weigh, EvaluateMission, Reflect, LearnFromMission, RecordLesson, Finish, Fail,
      Read, Call, Look, Goto, Drop
<1>2. ASSUME NEW v \in Workers, RecordArtifact(v)
      PROVE  v = w /\ held' = held /\ held[w] \notin Recorded
  BY <1>2 DEF OneWorker, RecordArtifact, Goto, Job
<1>3. ASSUME NEW v \in Workers, Crash(v) \/ Restart(v) PROVE pc'[w] # "append"
  BY <1>3 DEF OneWorker, Crash, Restart, Drop
<1>4. ASSUME GatewayStep \/ (\E j \in Jobs : Tick(j)) \/ UNCHANGED vars
      PROVE  pc' = pc /\ held' = held
  BY <1>4 DEF GatewayStep, EngineRequest, Cancel, AskExecute, EnqueueAsked,
      GatewayCrash, Requeue, Operate, Upload, Tick, vars, workerVars
<1>5. CASE \E v \in Workers : WorkerStep(v)
  BY <1>1, <1>2, <1>5
<1>6. CASE ~ \E v \in Workers : WorkerStep(v)
  BY <1>3, <1>4, <1>6 DEF Next
<1> QED
  BY <1>5, <1>6

LEMMA FreshStep ==
  ASSUME ProofInv, Fresh, OneWorker, [Next]_vars
  PROVE  Fresh'
<1> SUFFICES ASSUME NEW w \in Workers, pc'[w] = "append"
             PROVE  held'[w] \notin Recorded'
  BY DEF Fresh
<1>1. /\ held'[w] = held[w]
      /\ \/ RecordArtifact(w) /\ held[w] \notin Recorded
         \/ pc[w] = "append" /\ ~ \E v \in Workers : WorkerStep(v)
  BY ToAppend DEF ProofInv
<1>2. CASE RecordArtifact(w) /\ held[w] \notin Recorded
  BY <1>1, <1>2 DEF RecordArtifact, Recorded
<1>3. CASE pc[w] = "append" /\ ~ \E v \in Workers : WorkerStep(v)
  <2>1. held[w] \in Jobs /\ held[w] \notin Recorded
    BY <1>3 DEF Fresh, ProofInv, BaseInv, WorkerInv, Ready, Away
  <2>2. evidence' = evidence \/ \E e \in Uploads : Recorded' = Recorded \cup {e}
    BY <1>3, OnlyAppends, AppendGrows DEF WorkerStep, Upload
  <2> QED
    BY <1>1, <2>1, <2>2, UploadAssumption DEF Recorded
<1> QED
  BY <1>1, <1>2, <1>3

(* A new row, for a record that had none.                                  *)
LEMMA NewRow ==
  ASSUME ProofInv, Fresh, [Next]_vars, evidence' # evidence
  PROVE  \E e \in Records, m \in Missions :
           AppendRow(e, m) /\ e \notin Recorded /\ e \in artifacts'
<1>1. ASSUME NEW w \in Workers, AppendEvidence(w)
      PROVE  /\ Job(w) \in Records /\ Mission(w) \in Missions
             /\ AppendRow(Job(w), Mission(w)) /\ Job(w) \notin Recorded
             /\ Job(w) \in artifacts'
  BY <1>1, RowsOfHeld DEF AppendEvidence, At, Job, Fresh, Records
<1>2. ASSUME NEW e \in Uploads, NEW m \in Missions, Upload(e, m)
      PROVE  /\ e \in Records /\ AppendRow(e, m) /\ e \notin Recorded
             /\ e \in artifacts'
  BY <1>2 DEF Upload, WriteArtifact, Records
<1> QED
  BY <1>1, <1>2, OnlyAppends

FreshInv == RuntimeTypeInv /\ Fresh

LEMMA FreshInductive == OneWorker => (Spec => []FreshInv)
<1> SUFFICES ASSUME OneWorker PROVE Spec => []FreshInv
  OBVIOUS
<1>1. Init => Fresh
  BY DEF Init, Fresh
<1>2. RuntimeTypeInv /\ Fresh /\ [Next]_vars => Fresh'
  BY FreshStep DEF RuntimeTypeInv
<1> QED
  BY <1>1, <1>2, RuntimeTypeInductive, PTL DEF Spec, FreshInv

(* With one worker process a row, once written, is never changed, through  *)
(* crashes, recovered leases and requeues.                                 *)
THEOREM AppendOnlyTheorem == OneWorker => (Spec => EvidenceAppendOnly)
<1> SUFFICES ASSUME OneWorker PROVE Spec => EvidenceAppendOnly
  OBVIOUS
<1>1. FreshInv /\ [Next]_vars =>
        [\A e \in Recorded : e \in Recorded' /\ evidence'[e] = evidence[e]]_evidenceVars
  <2> SUFFICES ASSUME FreshInv, [Next]_vars, NEW e \in Recorded
               PROVE  e \in Recorded' /\ evidence'[e] = evidence[e]
    OBVIOUS
  <2>1. CASE evidence' = evidence
    BY <2>1 DEF Recorded
  <2>2. CASE evidence' # evidence
    <3>1. PICK f \in Records, m \in Missions : AppendRow(f, m) /\ f \notin Recorded
      BY <2>2, NewRow DEF FreshInv, RuntimeTypeInv
    <3> QED
      BY <3>1, AppendGrows
  <2> QED
    BY <2>1, <2>2
<1> QED
  BY <1>1, FreshInductive, PTL DEF Spec, EvidenceAppendOnly

-----------------------------------------------------------------------------
(* The chain.                                                              *)

(* A mission's rows can be counted.                                        *)
Countable == \A m \in Missions : IsFiniteSet(RowsOf(m))

(* What verify() asks of one row.                                          *)
Linked(m, e) ==
  LET row == evidence[e]
      n   == row.sequence
  IN /\ row.previous_chain_hash = HashAt(m, n - 1)
     /\ row.chain_hash = Append(HashAt(m, n - 1), <<e, n>>)
     /\ e \in artifacts

LEMMA LinkedNext ==
  ASSUME NEW m, NEW e, NEW i \in Nat, evidence'[e].sequence = i + 1,
         evidence'[e].previous_chain_hash = HashAt(m, i)',
         evidence'[e].chain_hash = Append(HashAt(m, i)', <<e, i + 1>>),
         e \in artifacts'
  PROVE  Linked(m, e)'
<1>1. evidence'[e].sequence - 1 = i
  OBVIOUS
<1>2. HashAt(m, evidence[e].sequence - 1)' = HashAt(m, i)'
  BY <1>1 DEF HashAt, RowAt
<1> QED
  BY <1>2 DEF Linked

AllWalksValid == \A m \in Missions : WalkIsValid(m)

ChainInv == FreshInv /\ Countable /\ AllWalksValid

(* The last row of a chain that verifies is the one its length says.       *)
LEMMA EndOfChain ==
  ASSUME EvidenceTypeOK, Numbered, NEW m \in Missions,
         IsFiniteSet(RowsOf(m)), WalkIsValid(m)
  PROVE  /\ Cardinality(RowsOf(m)) \in Nat
         /\ LastSequence(m) = Cardinality(RowsOf(m))
         /\ LastHash(m) = HashAt(m, LastSequence(m))
<1> DEFINE k == Cardinality(RowsOf(m))
<1>1. k \in Nat /\ (RowsOf(m) = {} <=> k = 0)
  BY FS_CardinalityType, FS_EmptySet
<1>2. Numbers(m) = 0 .. k
  BY <1>1 DEF WalkIsValid, Numbers
<1>3. LastSequence(m) \in 0 .. k /\ \A i \in 0 .. k : LastSequence(m) >= i
  BY <1>2, LastRow
<1> HIDE DEF k
<1>4. LastSequence(m) = k
  BY <1>1, <1>3
<1>5. LastHash(m) = HashAt(m, LastSequence(m))
  BY <1>1, <1>4 DEF LastHash, HashAt, RowAt
<1> QED
  BY <1>1, <1>4, <1>5 DEF k

LEMMA AppendLinks ==
  ASSUME EvidenceTypeOK, Numbered, Distinct, Countable, AllWalksValid,
         NEW e \in Records, e \notin Recorded, NEW m \in Missions, AppendRow(e, m),
         Distinct', e \in artifacts', artifacts \subseteq artifacts'
  PROVE  Countable' /\ AllWalksValid'
<1>0. PICK k \in Nat : k = Cardinality(RowsOf(m))
  BY FS_CardinalityType DEF Countable
<1>1. /\ Recorded' = Recorded \cup {e} /\ evidence'[e] = Row(e, m)
      /\ \A x \in Recorded : evidence'[x] = evidence[x]
  BY AppendedRow
<1>2. /\ k = Cardinality(RowsOf(m)) /\ k \in 0 .. Cardinality(RowsOf(m))
      /\ LastSequence(m) = k /\ LastHash(m) = HashAt(m, k)
  BY <1>0, EndOfChain DEF Countable, AllWalksValid
<1>3. \A n \in Missions : n # m => RowsOf(n)' = RowsOf(n)
  BY <1>1 DEF RowsOf, Row
<1>4. RowsOf(m)' = RowsOf(m) \cup {e} /\ e \notin RowsOf(m)
  BY <1>1 DEF RowsOf, Row
<1>5. \A n \in Missions : RowsOf(n) \subseteq Recorded
  BY DEF RowsOf
<1>6. \A n \in Missions : \A x \in RowsOf(n) :
        evidence'[x] = evidence[x] /\ evidence[x].sequence \in 1 .. Cardinality(RowsOf(n))
  BY <1>1, <1>5 DEF AllWalksValid, WalkIsValid
<1>7. evidence'[e].sequence = k + 1
  BY <1>1, <1>2 DEF Row
<1>8. Countable'
  <2>1. IsFiniteSet(RowsOf(m)')
    BY <1>4, FS_AddElement DEF Countable
  <2> QED
    BY <1>3, <2>1 DEF Countable
(* What the hashes of the old rows were, they stay.                        *)
<1>10. ASSUME NEW n \in Missions, NEW i \in 0 .. Cardinality(RowsOf(n))
       PROVE  HashAt(n, i)' = HashAt(n, i)
  <2>1. CASE i = 0
    BY <2>1 DEF HashAt
  <2>2. CASE i # 0
    <3>1. PICK x \in RowsOf(n) : evidence[x].sequence = i
      <4>1. Cardinality(RowsOf(n)) \in Nat
        BY FS_CardinalityType DEF Countable
      <4>2. i \in 1 .. Cardinality(RowsOf(n))
        BY <2>2, <4>1
      <4> QED
        BY <4>2 DEF AllWalksValid, WalkIsValid
    <3>2. x \in RowsOf(n)' /\ evidence'[x] = evidence[x]
      BY <1>3, <1>4, <1>6
    <3>3. RowAt(n, i) = x
      BY <3>1 DEF RowAt, Distinct
    <3>4. RowAt(n, i)' = x
      BY <3>1, <3>2 DEF RowAt, Distinct
    <3> QED
      BY <2>2, <3>2, <3>3, <3>4 DEF HashAt
  <2> QED
    BY <2>1, <2>2
<1>11. ASSUME NEW n \in Missions, NEW x \in RowsOf(n)
       PROVE  Linked(n, x)'
  <2>1. Cardinality(RowsOf(n)) \in Nat
    BY FS_CardinalityType DEF Countable
  <2>2. PICK i \in Nat : i = evidence[x].sequence - 1
    BY <1>6, <2>1
  <2>3. i \in 0 .. Cardinality(RowsOf(n)) /\ evidence[x].sequence = i + 1
    BY <1>6, <2>1, <2>2
  <2>4. HashAt(n, i)' = HashAt(n, i)
    BY <1>10, <2>3
  <2>5. /\ evidence[x].previous_chain_hash = HashAt(n, i)
        /\ evidence[x].chain_hash = Append(HashAt(n, i), <<x, i + 1>>)
        /\ x \in artifacts
    BY <2>2, <2>3 DEF AllWalksValid, WalkIsValid
  <2> QED
    BY <1>6, <2>3, <2>4, <2>5, LinkedNext
<1>12. Linked(m, e)'
  <2>1. HashAt(m, k)' = HashAt(m, k)
    BY <1>2, <1>10
  <2> QED
    BY <1>1, <1>2, <1>7, <2>1, LinkedNext DEF Row
<1>13. ASSUME NEW n \in Missions
       PROVE  {evidence[x].sequence : x \in RowsOf(n)}' = 1 .. Cardinality(RowsOf(n)')
  <2>1. {evidence[x].sequence : x \in RowsOf(n)} = 1 .. Cardinality(RowsOf(n))
    BY DEF AllWalksValid, WalkIsValid
  <2>2. CASE n # m
    BY <1>3, <1>6, <2>1, <2>2
  <2>3. CASE n = m
    <3>1. Cardinality(RowsOf(m)') = k + 1
      <4>1. IsFiniteSet(RowsOf(m))
        BY DEF Countable
      <4>2. Cardinality(RowsOf(m) \cup {e}) = Cardinality(RowsOf(m)) + 1
        BY <1>4, <4>1, FS_AddElement
      <4> QED
        BY <1>2, <1>4, <4>2
    <3>2. {evidence'[x].sequence : x \in RowsOf(m)'} = 1 .. k \cup {k + 1}
      BY <1>2, <1>4, <1>6, <1>7, <2>1, <2>3
    <3> QED
      BY <1>2, <2>3, <3>1, <3>2
  <2> QED
    BY <2>2, <2>3
<1>14. ASSUME NEW n \in Missions, NEW x \in RowsOf(n)'
       PROVE  Linked(n, x)'
  BY <1>3, <1>4, <1>11, <1>12
<1>15. \A n \in Missions : WalkIsValid(n)'
  BY <1>13, <1>14 DEF WalkIsValid, Linked
<1> QED
  BY <1>8, <1>15 DEF AllWalksValid

LEMMA ChainInductive == OneWorker => (Spec => []ChainInv)
<1> SUFFICES ASSUME OneWorker PROVE Spec => []ChainInv
  OBVIOUS
<1>1. Init => Countable /\ AllWalksValid
  <2> SUFFICES ASSUME Init PROVE Countable /\ AllWalksValid
    OBVIOUS
  <2>1. \A m \in Missions : RowsOf(m) = {}
    BY DEF Init, EvidenceInit, RowsOf, Recorded
  <2>2. \A m \in Missions : Cardinality(RowsOf(m)) = 0 /\ IsFiniteSet(RowsOf(m))
    BY <2>1, FS_EmptySet
  <2> QED
    BY <2>1, <2>2 DEF Countable, AllWalksValid, WalkIsValid
<1>2. FreshInv /\ Countable /\ AllWalksValid /\ [Next]_vars
        => Countable' /\ AllWalksValid'
  <2> SUFFICES ASSUME FreshInv, Countable, AllWalksValid, [Next]_vars
               PROVE  Countable' /\ AllWalksValid'
    OBVIOUS
  <2>1. artifacts \subseteq artifacts'
    BY Growth DEF Grow
  <2>2. CASE evidence' = evidence
    <3>1. \A m \in Missions : RowsOf(m)' = RowsOf(m)
      BY <2>2 DEF RowsOf, Recorded
    <3>2. Countable'
      BY <3>1 DEF Countable
    <3>3. ASSUME NEW m \in Missions, NEW e \in RowsOf(m)
          PROVE  Linked(m, e)'
      <4>1. Linked(m, e)
        BY DEF AllWalksValid, WalkIsValid, Linked
      <4>2. evidence[e].sequence \in Nat \ {0}
        BY DEF FreshInv, RuntimeTypeInv, EvidenceTypeOK, RowsOf
      <4>3. PICK i \in Nat : evidence[e].sequence = i + 1 /\ evidence[e].sequence - 1 = i
        <5>1. evidence[e].sequence - 1 \in Nat
          BY <4>2
        <5> QED
          BY <4>2, <5>1
      <4>4. HashAt(m, i)' = HashAt(m, i)
        <5>1. RowAt(m, i)' = RowAt(m, i)
          BY <2>2 DEF RowAt, RowsOf, Recorded
        <5> QED
          BY <2>2, <5>1 DEF HashAt
      <4> QED
        BY <2>1, <2>2, <4>1, <4>3, <4>4, LinkedNext DEF Linked
    <3>4. ASSUME NEW m \in Missions
          PROVE  WalkIsValid(m)'
      <4>1. {evidence[x].sequence : x \in RowsOf(m)} = 1 .. Cardinality(RowsOf(m))
        BY DEF AllWalksValid, WalkIsValid
      <4>2. {evidence[x].sequence : x \in RowsOf(m)}' = 1 .. Cardinality(RowsOf(m)')
        BY <2>2, <3>1, <4>1
      <4> QED
        BY <3>1, <3>3, <4>2 DEF WalkIsValid, Linked
    <3> QED
      BY <3>2, <3>4 DEF AllWalksValid
  <2>3. CASE evidence' # evidence
    <3>1. Distinct'
      BY EvidenceTypeStep DEF FreshInv, RuntimeTypeInv
    <3> QED
      BY <2>1, <2>3, <3>1, NewRow, AppendLinks DEF FreshInv, RuntimeTypeInv
  <2> QED
    BY <2>2, <2>3
<1> QED
  BY <1>1, <1>2, FreshInductive, PTL DEF Spec, ChainInv

(* With one worker process GET .../verify finds every chain valid, at any  *)
(* moment of any run: whatever crashed between a file, its look-up and its *)
(* row, and however uploads come in between.                               *)
THEOREM ChainTheorem == OneWorker => (Spec => []EvidenceChainVerifies)
<1>1. ChainInv => EvidenceChainVerifies
  BY DEF ChainInv, AllWalksValid, EvidenceChainVerifies, ChainVerifies
<1> QED
  BY <1>1, ChainInductive, PTL

==============================================================================
