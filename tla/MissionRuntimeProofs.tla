------------------------- MODULE MissionRuntimeProofs -------------------------
(***************************************************************************)
(* The runtime for any number of missions, jobs, workers, uploads and      *)
(* requeues, with crashes at any step.                                     *)
(*                                                                         *)
(* First the job queue on its own: LeaseMatchesStatus and AttemptsBounded  *)
(* need one another's types and what is known of a row before its INSERT.  *)
(* Then the composition: every step of the runtime is a step of the        *)
(* mission engine or leaves it alone, and likewise for the job queue, so   *)
(* their invariants and the contract carry over.  Then what the workers'   *)
(* checkpoints add up to: CompletedJobIsProven.                            *)
(***************************************************************************)
EXTENDS MissionRuntime, MissionEngineProofs

-----------------------------------------------------------------------------
(* The job queue on its own.                                               *)

QueueInv ==
  /\ QueueTypeOK
  /\ LeaseMatchesStatus
  /\ AttemptsBounded
  /\ \A j \in Jobs :
       IF jobStatus[j] = "absent" THEN attempts[j] = 0
                                  ELSE jobMission[j] \in Missions

LEMMA QueueInvInit == QueueInit => QueueInv
  BY NullAssumption, LimitsAssumption
  DEF QueueInit, QueueInv, QueueTypeOK, LeaseMatchesStatus, AttemptsBounded,
      DefaultLimit, UnderWork, Leasable

LEMMA ClaimPreserves ==
  ASSUME QueueInv, NEW w \in Workers, NEW pick \in Picks, Claim(w, pick)
  PROVE  QueueInv'
<1> USE NullAssumption, LimitsAssumption
    DEF QueueInv, QueueTypeOK, UnderWork, Leasable
<1>1. /\ Exhausted \subseteq Expired
      /\ \A j \in Expired : j \in Jobs /\ jobStatus[j] \in UnderWork
      /\ \A j \in Expired \ Exhausted : ~ Reached(attempts[j], limit[j])
      /\ pick \in Jobs => jobStatus[pick] \in Leasable
  BY DEF Expired, Exhausted, Picks, Claimable
<1>2. pick \notin Expired
  BY <1>1
<1>3. \A j \in Jobs : jobStatus'[j] =
        IF j = pick THEN "leased"
        ELSE IF j \notin Expired THEN jobStatus[j]
        ELSE IF j \in Exhausted THEN "failed" ELSE "retryable"
  BY <1>1, <1>2 DEF Claim
<1>4. \A j \in Jobs : owner'[j] =
        IF j = pick THEN w ELSE IF j \in Expired THEN NoWorker ELSE owner[j]
  BY <1>2 DEF Claim
<1>5. \A j \in Jobs : attempts'[j] = IF j = pick THEN attempts[j] + 1 ELSE attempts[j]
  BY DEF Claim
<1>6. \A j \in Jobs : lapsed'[j] => lapsed[j] /\ j \notin Expired /\ j # pick
  BY DEF Claim
<1>7. QueueTypeOK'
  <2>1. jobStatus' \in [Jobs -> JobStates \cup {"absent"}]
    BY DEF Claim, JobStates
  <2>2. attempts' \in [Jobs -> Nat]
    BY DEF Claim
  <2>3. owner' \in [Jobs -> Workers \cup {NoWorker}]
    BY DEF Claim
  <2>4. /\ lapsed' \in [Jobs -> BOOLEAN]
        /\ due' \in [Jobs -> BOOLEAN]
        /\ jobMission' \in [Jobs -> Missions \cup {NoMission}]
        /\ limit' \in [Jobs -> Int \cup {Unlimited}]
    BY DEF Claim
  <2> QED
    BY <2>1, <2>2, <2>3, <2>4
<1>8. LeaseMatchesStatus'
  BY <1>1, <1>3, <1>4, <1>6 DEF LeaseMatchesStatus
<1>9. AttemptsBounded'
  BY <1>1, <1>3, <1>5 DEF AttemptsBounded, Reached, Claim
<1>10. \A j \in Jobs : IF jobStatus'[j] = "absent" THEN attempts'[j] = 0
                                                ELSE jobMission'[j] \in Missions
  BY <1>1, <1>3, <1>5 DEF Claim
<1> QED
  BY <1>7, <1>8, <1>9, <1>10

LEMMA QueueInvStep == QueueInv /\ [QueueNext]_queueVars => QueueInv'
<1> SUFFICES ASSUME QueueInv, [QueueNext]_queueVars PROVE QueueInv'
  OBVIOUS
<1> USE NullAssumption, LimitsAssumption
    DEF QueueInv, QueueTypeOK, LeaseMatchesStatus, AttemptsBounded,
        UnderWork, Leasable, JobStates
<1>1. CASE UNCHANGED queueVars
  BY <1>1 DEF queueVars
<1>2. ASSUME NEW j \in Jobs, NEW m \in Missions, NEW n \in Limits, Enqueue(j, m, n)
      PROVE  QueueInv'
  <2>1. CASE jobStatus[j] # "absent"
    BY <1>2, <2>1, <1>1 DEF Enqueue
  <2>2. CASE jobStatus[j] = "absent"
    <3>1. /\ jobStatus'  = [jobStatus  EXCEPT ![j] = "queued"]
          /\ jobMission' = [jobMission EXCEPT ![j] = m]
          /\ limit'      = [limit EXCEPT ![j] = IF n = 0 THEN DefaultLimit ELSE n]
          /\ due'        = [due        EXCEPT ![j] = TRUE]
          /\ UNCHANGED <<attempts, owner, lapsed>>
      BY <1>2, <2>2 DEF Enqueue
    <3>2. attempts[j] = 0 /\ owner[j] = NoWorker /\ ~ lapsed[j]
      BY <2>2
    <3>3. QueueTypeOK'
      BY <3>1 DEF DefaultLimit
    <3>4. LeaseMatchesStatus'
      BY <3>1, <3>2
    <3>5. AttemptsBounded'
      BY <3>1, <3>2
    <3>6. \A k \in Jobs : IF jobStatus'[k] = "absent" THEN attempts'[k] = 0
                                                      ELSE jobMission'[k] \in Missions
      BY <3>1
    <3> QED
      BY <3>3, <3>4, <3>5, <3>6
  <2> QED
    BY <2>1, <2>2
<1>3. ASSUME NEW j \in Jobs, RequeueJob(j) PROVE QueueInv'
  BY <1>3 DEF RequeueJob, Release
<1>4. ASSUME NEW j \in Jobs, LeaseLapse(j) PROVE QueueInv'
  BY <1>4 DEF LeaseLapse
<1>5. ASSUME NEW j \in Jobs, BackoffElapse(j) PROVE QueueInv'
  BY <1>5 DEF BackoffElapse
<1>6. ASSUME NEW j \in Jobs, NEW w \in Workers, StartJob(w, j) PROVE QueueInv'
  BY <1>6 DEF StartJob
<1>7. ASSUME NEW j \in Jobs, NEW w \in Workers, Heartbeat(w, j) PROVE QueueInv'
  BY <1>7 DEF Heartbeat, Owns
<1>8. ASSUME NEW j \in Jobs, NEW w \in Workers, CompleteJob(w, j) PROVE QueueInv'
  BY <1>8 DEF CompleteJob, Release
<1>9. ASSUME NEW j \in Jobs, NEW w \in Workers, FailJob(w, j) PROVE QueueInv'
  BY <1>9 DEF FailJob, Release, OutOfAttempts, Reached, Owns
<1>10. ASSUME NEW w \in Workers, NEW pick \in Picks, Claim(w, pick)
       PROVE  QueueInv'
  BY <1>10, ClaimPreserves
<1>11. ASSUME NEW m \in Missions, CancelJobs(m) PROVE QueueInv'
  BY <1>11 DEF CancelJobs
<1> QED
  BY <1>1, <1>2, <1>3, <1>4, <1>5, <1>6, <1>7, <1>8, <1>9, <1>10, <1>11
  DEF QueueNext

(* QueueInv is an invariant of the job queue on its own.                   *)
THEOREM QueueInvariance == QueueSpec => []QueueInv
  BY QueueInvInit, QueueInvStep, PTL DEF QueueSpec

(* The type invariant.                                                     *)
THEOREM QueueTypeCorrect == QueueSpec => []QueueTypeOK
<1>1. QueueInv => QueueTypeOK
  BY DEF QueueInv
<1> QED
  BY <1>1, QueueInvariance, PTL

(* A lease is held exactly by the jobs under work.                         *)
THEOREM LeaseTheorem == QueueSpec => []LeaseMatchesStatus
<1>1. QueueInv => LeaseMatchesStatus
  BY DEF QueueInv
<1> QED
  BY <1>1, QueueInvariance, PTL

(* No job is claimed more than max_attempts times between two requeues.    *)
THEOREM AttemptsTheorem == QueueSpec => []AttemptsBounded
<1>1. QueueInv => AttemptsBounded
  BY DEF QueueInv
<1> QED
  BY <1>1, QueueInvariance, PTL

LEMMA FinalStep ==
  ASSUME QueueInv, [QueueNext]_queueVars, NEW k \in Jobs,
         jobStatus[k] \in {"completed", "cancelled"}
  PROVE  jobStatus'[k] = jobStatus[k]
<1> USE DEF QueueInv, QueueTypeOK, LeaseMatchesStatus, UnderWork, Leasable
<1>0. owner[k] = NoWorker
  OBVIOUS
<1>1. CASE UNCHANGED queueVars
  BY <1>1 DEF queueVars
<1>2. ASSUME NEW j \in Jobs, NEW m \in Missions, NEW n \in Limits,
             Enqueue(j, m, n)
      PROVE  jobStatus'[k] = jobStatus[k]
  BY <1>2 DEF Enqueue, queueVars
<1>3. ASSUME NEW j \in Jobs, NEW w \in Workers,
             StartJob(w, j) \/ CompleteJob(w, j) \/ FailJob(w, j)
      PROVE  jobStatus'[k] = jobStatus[k]
  BY <1>0, <1>3, NullAssumption DEF StartJob, CompleteJob, FailJob, Release, Owns
<1>4. ASSUME NEW j \in Jobs, RequeueJob(j)
      PROVE  jobStatus'[k] = jobStatus[k]
  BY <1>4 DEF RequeueJob, Release
<1>5. ASSUME NEW w \in Workers, NEW pick \in Picks, Claim(w, pick)
      PROVE  jobStatus'[k] = jobStatus[k]
  BY <1>5, NullAssumption DEF Claim, Picks, Claimable, Expired, Exhausted
<1>6. ASSUME NEW m \in Missions, CancelJobs(m)
      PROVE  jobStatus'[k] = jobStatus[k]
  BY <1>6 DEF CancelJobs
<1> QED
  BY <1>1, <1>2, <1>3, <1>4, <1>5, <1>6
  DEF QueueNext, LeaseLapse, BackoffElapse, Heartbeat

(* A completed or cancelled job is final.                                  *)
THEOREM FinalTheorem == QueueSpec => FinalIsFinal
<1>1. QueueInv /\ [QueueNext]_queueVars
        => [\A j \in Jobs : jobStatus[j] \in {"completed", "cancelled"}
               => jobStatus'[j] = jobStatus[j]]_queueVars
  BY FinalStep
<1> QED
  BY <1>1, QueueInvariance, PTL DEF QueueSpec, FinalIsFinal

-----------------------------------------------------------------------------
(* The composition.                                                        *)

Away == {"idle", "down"}

PastEffect == {"settle", "complete", "link", "weigh", "evaluate", "reflect",
               "learn", "lesson", "finish"}

(* What a worker may rely on at a stage, about the job it holds: it never   *)
(* rests on the lease, only on rows and files that are never taken away.   *)
Ready(stage, j) ==
  /\ stage \notin Away => j \in Jobs /\ jobStatus[j] # "absent"
  /\ stage = "append" => j \in artifacts
  /\ stage = "effect" => j \in Recorded
  /\ stage \in PastEffect => j \in effects
  /\ stage = "link" => outcomes[jobMission[j]] > 0
  /\ stage = "finish" => j \in lessons /\ mission[jobMission[j]] = "learned"

WorkerInv ==
  /\ pc   \in [Workers -> Stages]
  /\ held \in [Workers -> Jobs \cup {NoJob}]
  /\ asked \subseteq ClientKeys
  /\ \A w \in Workers : Ready(pc[w], held[w])

BaseInv == EngineInv /\ QueueInv /\ WorkerInv

-----------------------------------------------------------------------------
(* What no later step of the engine or the queue undoes.                   *)

LEMMA EngineStable ==
  ASSUME EngineInv, [EngineNext]_engineVars, NEW m \in Missions
  PROVE  /\ outcomes[m] > 0 => outcomes'[m] > 0
         /\ mission[m] = "learned" => mission'[m] = "learned"
<1> USE DEF EngineInv, EngineTypeOK
<1>1. outcomes[m] > 0 => outcomes'[m] > 0
  <2>1. ASSUME NEW n \in Missions, Complete(n)
        PROVE  outcomes[m] > 0 => outcomes'[m] > 0
    BY <2>1 DEF Complete, CanComplete
  <2>2. CASE outcomes' = outcomes
    BY <2>2
  <2> QED
    BY <2>1, <2>2
    DEF EngineNext, engineVars, CreateMission, ValidateMission, PlanMission,
        RequestApproval, DecideApproval, AssignAgent, Execute, FailMission,
        Evaluate, LearnCapability, CancelMission, RequeueMission, LinkOutcome,
        MissionFailure
<1>2. mission[m] = "learned" => mission'[m] = "learned"
  <2>1. ASSUME NEW n \in Missions, NEW to, Transition(n, to)
        PROVE  mission[m] = "learned" => mission'[m] = "learned"
    BY <2>1 DEF Transition, SetStatus, CanTransition, ValidTransitions
  <2>2. ASSUME NEW n \in Missions,
               CreateMission(n) \/ LearnCapability(n) \/ RequeueMission(n)
                 \/ \E j \in Jobs : LinkOutcome(n, j)
        PROVE  mission[m] = "learned" => mission'[m] = "learned"
    BY <2>2 DEF CreateMission, LearnCapability, RequeueMission, LinkOutcome,
                SetStatus
  <2>3. ASSUME NEW S \in SUBSET Missions, MissionFailure(S)
        PROVE  mission[m] = "learned" => mission'[m] = "learned"
    BY <2>3 DEF MissionFailure, Interruptible
  <2>4. CASE UNCHANGED engineVars
    BY <2>4 DEF engineVars
  <2> QED
    BY <2>1, <2>2, <2>3, <2>4
    DEF EngineNext, ValidateMission, PlanMission, RequestApproval,
        DecideApproval, AssignAgent, Execute, Complete, FailMission, Evaluate,
        CancelMission
<1> QED
  BY <1>1, <1>2

LEMMA QueueStable ==
  ASSUME QueueInv, [QueueNext]_queueVars, NEW k \in Jobs,
         jobStatus[k] # "absent"
  PROVE  jobStatus'[k] # "absent" /\ jobMission'[k] = jobMission[k]
<1> USE DEF QueueInv, QueueTypeOK
<1>1. CASE UNCHANGED queueVars
  BY <1>1 DEF queueVars
<1>2. ASSUME NEW j \in Jobs, NEW m \in Missions, NEW n \in Limits,
             Enqueue(j, m, n)
      PROVE  jobStatus'[k] # "absent" /\ jobMission'[k] = jobMission[k]
  BY <1>2 DEF Enqueue, queueVars
<1>3. ASSUME NEW j \in Jobs, NEW w \in Workers,
             StartJob(w, j) \/ CompleteJob(w, j) \/ FailJob(w, j)
      PROVE  jobStatus'[k] # "absent" /\ jobMission'[k] = jobMission[k]
  BY <1>3 DEF StartJob, CompleteJob, FailJob, Release
<1>4. ASSUME NEW j \in Jobs, RequeueJob(j)
      PROVE  jobStatus'[k] # "absent" /\ jobMission'[k] = jobMission[k]
  BY <1>4 DEF RequeueJob, Release
<1>5. ASSUME NEW w \in Workers, NEW pick \in Picks, Claim(w, pick)
      PROVE  jobStatus'[k] # "absent" /\ jobMission'[k] = jobMission[k]
  BY <1>5 DEF Claim
<1>6. ASSUME NEW m \in Missions, CancelJobs(m)
      PROVE  jobStatus'[k] # "absent" /\ jobMission'[k] = jobMission[k]
  BY <1>6 DEF CancelJobs
<1> QED
  BY <1>1, <1>2, <1>3, <1>4, <1>5, <1>6
  DEF QueueNext, LeaseLapse, BackoffElapse, Heartbeat

-----------------------------------------------------------------------------
(* The composition: what a step does to the engine's variables the engine  *)
(* could have done by itself, and likewise for the queue.                  *)

LEMMA HeldJob ==
  ASSUME BaseInv, NEW w \in Workers, pc[w] \notin Away
  PROVE  Job(w) \in Jobs /\ Mission(w) \in Missions
  BY DEF BaseInv, WorkerInv, Ready, QueueInv, QueueTypeOK, Job, Mission

LEMMA JobMissions ==
  ASSUME BaseInv, NEW j \in Jobs, jobStatus[j] # "absent"
  PROVE  jobMission[j] \in Missions
  BY DEF BaseInv, QueueInv

LEMMA WorkerEngine ==
  ASSUME BaseInv, NEW w \in Workers, WorkerStep(w)
  PROVE  [EngineNext]_engineVars
<1>1. pc[w] \notin Away => Job(w) \in Jobs /\ Mission(w) \in Missions
  BY HeldJob
<1>2. ASSUME ClaimNext(w) PROVE [EngineNext]_engineVars
  <2>1. \A j \in Exhausted : jobMission[j] \in Missions
    BY JobMissions DEF Exhausted, Expired, UnderWork
  <2>2. {jobMission[j] : j \in Exhausted} \in SUBSET Missions
    BY <2>1
  <2> QED
    BY <1>2, <2>2 DEF ClaimNext, EngineNext
<1>3. ASSUME ExecuteMission(w) PROVE [EngineNext]_engineVars
  BY <1>1, <1>3 DEF ExecuteMission, At, Away, Call, EngineNext
<1>4. ASSUME CompleteMission(w) PROVE [EngineNext]_engineVars
  BY <1>1, <1>4 DEF CompleteMission, At, Away, Call, EngineNext
<1>5. ASSUME EvaluateMission(w) PROVE [EngineNext]_engineVars
  BY <1>1, <1>5 DEF EvaluateMission, At, Away, Call, EngineNext
<1>6. ASSUME LearnFromMission(w) PROVE [EngineNext]_engineVars
  BY <1>1, <1>6 DEF LearnFromMission, At, Away, Call, EngineNext
<1>7. ASSUME LinkToJob(w) PROVE [EngineNext]_engineVars
  <2>1. outcomes[Mission(w)] > 0
    BY <1>7 DEF LinkToJob, At, BaseInv, WorkerInv, Ready, Mission
  <2> QED
    BY <1>1, <1>7, <2>1 DEF LinkToJob, At, Away, EngineNext
<1>8. ASSUME Fail(w) PROVE [EngineNext]_engineVars
  <2>1. (IF OutOfAttempts(Job(w)) THEN {Mission(w)} ELSE {}) \in SUBSET Missions
    BY <1>1, <1>8 DEF Fail, At, Away
  <2> QED
    BY <1>8, <2>1 DEF Fail, EngineNext
<1>9. ASSUME \/ Start(w) \/ Begin(w) \/ Reread(w) \/ Checkpoint(w)
             \/ RecordArtifact(w) \/ AppendEvidence(w) \/ RecordEffect(w)
             \/ Settle(w) \/ Weigh(w) \/ Reflect(w) \/ RecordLesson(w)
             \/ Finish(w)
      PROVE  UNCHANGED engineVars
  BY <1>9 DEF Start, Begin, Reread, Checkpoint, RecordArtifact, AppendEvidence,
      RecordEffect, Settle, Weigh, Reflect, RecordLesson, Finish, Read
<1> QED
  BY <1>2, <1>3, <1>4, <1>5, <1>6, <1>7, <1>8, <1>9 DEF WorkerStep

LEMMA WorkerQueue ==
  ASSUME BaseInv, NEW w \in Workers, WorkerStep(w)
  PROVE  [QueueNext]_queueVars
<1>1. pc[w] \notin Away => Job(w) \in Jobs
  BY HeldJob
<1>2. ASSUME ClaimNext(w) PROVE [QueueNext]_queueVars
  BY <1>2 DEF ClaimNext, QueueNext
<1>3. ASSUME Start(w) PROVE [QueueNext]_queueVars
  BY <1>1, <1>3 DEF Start, At, Away, QueueNext
<1>4. ASSUME Begin(w) PROVE [QueueNext]_queueVars
  BY <1>1, <1>4 DEF Begin, At, Away, QueueNext
<1>5. ASSUME Finish(w) PROVE [QueueNext]_queueVars
  BY <1>1, <1>5 DEF Finish, At, Away, QueueNext
<1>6. ASSUME Fail(w) PROVE [QueueNext]_queueVars
  BY <1>1, <1>6 DEF Fail, At, Away, QueueNext
<1>7. ASSUME \/ ExecuteMission(w) \/ Reread(w) \/ Checkpoint(w)
             \/ RecordArtifact(w) \/ AppendEvidence(w) \/ RecordEffect(w)
             \/ Settle(w) \/ CompleteMission(w) \/ LinkToJob(w) \/ Weigh(w)
             \/ EvaluateMission(w) \/ Reflect(w) \/ LearnFromMission(w)
             \/ RecordLesson(w)
      PROVE  UNCHANGED queueVars
  BY <1>7 DEF ExecuteMission, Reread, Checkpoint, RecordArtifact,
      AppendEvidence, RecordEffect, Settle, CompleteMission, LinkToJob, Weigh,
      EvaluateMission, Reflect, LearnFromMission, RecordLesson, Read, Call
<1> QED
  BY <1>2, <1>3, <1>4, <1>5, <1>6, <1>7 DEF WorkerStep

LEMMA GatewayEngine ==
  ASSUME BaseInv, GatewayStep
  PROVE  [EngineNext]_engineVars
<1>1. ASSUME NEW m \in Missions, EngineRequest(m) PROVE EngineNext
  BY <1>1 DEF EngineRequest, EngineNext
<1>2. ASSUME NEW m \in Missions, Cancel(m) PROVE EngineNext
  BY <1>2 DEF Cancel, EngineNext
<1>3. ASSUME NEW j \in Jobs, Requeue(j) PROVE EngineNext
  <2>1. jobMission[j] \in Missions
    BY <1>3, JobMissions DEF Requeue, RequeueJob
  <2> QED
    BY <1>3, <2>1 DEF Requeue, EngineNext
<1>4. ASSUME NEW m \in OperatorMissions, Operate(m) PROVE EngineNext
  BY <1>4, RuntimeAssumption DEF Operate, EngineNext
<1>5. ASSUME \/ \E k \in ClientKeys : \/ AskExecute(k[1], k[2])
                                      \/ EnqueueAsked(k[1], k[2])
             \/ GatewayCrash
             \/ \E e \in Uploads, m \in Missions : Upload(e, m)
      PROVE  UNCHANGED engineVars
  BY <1>5 DEF AskExecute, EnqueueAsked, GatewayCrash, Upload
<1> QED
  BY <1>1, <1>2, <1>3, <1>4, <1>5 DEF GatewayStep

LEMMA GatewayQueue ==
  ASSUME BaseInv, GatewayStep
  PROVE  [QueueNext]_queueVars
<1>1. ASSUME NEW m \in Missions, Cancel(m) PROVE QueueNext
  BY <1>1 DEF Cancel, QueueNext
<1>2. ASSUME NEW j \in Jobs, Requeue(j) PROVE QueueNext
  BY <1>2 DEF Requeue, QueueNext
<1>3. ASSUME NEW k \in ClientKeys, EnqueueAsked(k[1], k[2])
      PROVE  QueueNext
  <2>1. k[1] \in Missions /\ k[2] \in Jobs
    BY RuntimeAssumption
  <2> QED
    BY <1>3, <2>1 DEF EnqueueAsked, QueueNext
<1>4. ASSUME \/ \E m \in Missions : EngineRequest(m)
             \/ \E k \in ClientKeys : AskExecute(k[1], k[2])
             \/ GatewayCrash
             \/ \E e \in Uploads, m \in Missions : Upload(e, m)
             \/ \E m \in OperatorMissions : Operate(m)
      PROVE  UNCHANGED queueVars
  BY <1>4 DEF EngineRequest, AskExecute, GatewayCrash, Upload, Operate
<1> QED
  BY <1>1, <1>2, <1>3, <1>4 DEF GatewayStep

LEMMA Composition ==
  ASSUME BaseInv, [Next]_vars
  PROVE  [EngineNext]_engineVars /\ [QueueNext]_queueVars
<1>1. ASSUME NEW w \in Workers, Crash(w) \/ Restart(w)
      PROVE  UNCHANGED <<engineVars, queueVars>>
  BY <1>1 DEF Crash, Restart
<1>2. ASSUME NEW j \in Jobs, Tick(j)
      PROVE  QueueNext /\ UNCHANGED engineVars
  BY <1>2 DEF Tick, QueueNext
<1>3. CASE UNCHANGED vars
  BY <1>3 DEF vars
<1> QED
  BY <1>1, <1>2, <1>3, WorkerEngine, WorkerQueue, GatewayEngine, GatewayQueue
  DEF Next

-----------------------------------------------------------------------------
(* Files and rows are added, never taken away.                             *)

Grow ==
  /\ artifacts \subseteq artifacts'
  /\ Recorded  \subseteq Recorded'
  /\ effects   \subseteq effects'
  /\ lessons   \subseteq lessons'

LEMMA AppendGrows ==
  ASSUME NEW e, NEW m, AppendRow(e, m)
  PROVE  /\ Recorded' = Recorded \cup {e}
         /\ evidence'[e].mission = m
         /\ \A x \in Recorded : x # e => evidence'[x] = evidence[x]
  BY DEF AppendRow, Upsert, Recorded

LEMMA Growth ==
  ASSUME [Next]_vars
  PROVE  Grow
<1>1. CASE UNCHANGED <<evidenceVars, recordVars>>
  BY <1>1 DEF evidenceVars, recordVars, Recorded, Grow
<1>2. ASSUME NEW w \in Workers, RecordArtifact(w) PROVE Grow
  BY <1>2 DEF RecordArtifact, WriteArtifact, recordVars, Recorded, Grow
<1>3. ASSUME NEW w \in Workers, AppendEvidence(w) PROVE Grow
  BY <1>3, AppendGrows DEF AppendEvidence, recordVars, Grow
<1>4. ASSUME NEW w \in Workers, RecordEffect(w) \/ RecordLesson(w) PROVE Grow
  BY <1>4 DEF RecordEffect, RecordLesson, evidenceVars, Recorded, Grow
<1>5. ASSUME NEW e \in Uploads, NEW m \in Missions, Upload(e, m) PROVE Grow
  BY <1>5, AppendGrows DEF Upload, WriteArtifact, recordVars, Grow
<1>6. ASSUME NEW w \in Workers,
             \/ ClaimNext(w) \/ Start(w) \/ Begin(w) \/ ExecuteMission(w)
             \/ Reread(w) \/ Checkpoint(w) \/ Settle(w) \/ CompleteMission(w)
             \/ LinkToJob(w) \/ Weigh(w) \/ EvaluateMission(w) \/ Reflect(w)
             \/ LearnFromMission(w) \/ Finish(w) \/ Fail(w)
             \/ Crash(w) \/ Restart(w)
      PROVE  UNCHANGED <<evidenceVars, recordVars>>
  BY <1>6 DEF ClaimNext, Start, Begin, ExecuteMission, Reread, Checkpoint,
      Settle, CompleteMission, LinkToJob, Weigh, EvaluateMission, Reflect,
      LearnFromMission, Finish, Fail, Crash, Restart, Read, Call
<1>7. ASSUME \/ \E m \in Missions : EngineRequest(m) \/ Cancel(m)
             \/ \E k \in ClientKeys : \/ AskExecute(k[1], k[2])
                                      \/ EnqueueAsked(k[1], k[2])
             \/ GatewayCrash
             \/ \E j \in Jobs : Requeue(j) \/ Tick(j)
             \/ \E m \in OperatorMissions : Operate(m)
             \/ UNCHANGED vars
      PROVE  UNCHANGED <<evidenceVars, recordVars>>
  BY <1>7 DEF EngineRequest, Cancel, AskExecute, EnqueueAsked, GatewayCrash,
      Requeue, Tick, Operate, vars
<1> QED
  BY <1>1, <1>2, <1>3, <1>4, <1>5, <1>6, <1>7
  DEF Next, WorkerStep, GatewayStep

-----------------------------------------------------------------------------
(* What a worker relies on stays true whatever the others do.              *)

LEMMA ReadyStays ==
  ASSUME BaseInv, [Next]_vars, NEW s, NEW j, Ready(s, j)
  PROVE  Ready(s, j)'
<1>1. [EngineNext]_engineVars /\ [QueueNext]_queueVars /\ Grow
  BY Composition, Growth
<1>2. EngineInv /\ QueueInv
  BY DEF BaseInv
<1>3. CASE s \in Away
  BY <1>3 DEF Ready, Away, PastEffect
<1>4. CASE s \notin Away
  <2>1. j \in Jobs /\ jobStatus[j] # "absent"
    BY <1>4 DEF Ready
  <2>2. jobMission[j] \in Missions
    BY <2>1, JobMissions
  <2>3. jobStatus'[j] # "absent" /\ jobMission'[j] = jobMission[j]
    BY <1>1, <1>2, <2>1, QueueStable
  <2>4. /\ outcomes[jobMission[j]] > 0 => outcomes'[jobMission[j]] > 0
        /\ mission[jobMission[j]] = "learned"
             => mission'[jobMission[j]] = "learned"
    BY <1>1, <1>2, <2>2, EngineStable
  <2> QED
    BY <1>1, <2>1, <2>3, <2>4 DEF Ready, Grow
<1> QED
  BY <1>3, <1>4

LEMMA Others ==
  ASSUME BaseInv, [Next]_vars, NEW w \in Workers,
         pc' \in [Workers -> Stages], held' \in [Workers -> Jobs \cup {NoJob}],
         asked' \subseteq ClientKeys,
         \A v \in Workers \ {w} : pc'[v] = pc[v] /\ held'[v] = held[v],
         NEW s, NEW j, pc'[w] = s, held'[w] = j, Ready(s, j)'
  PROVE  WorkerInv'
<1>1. ASSUME NEW v \in Workers \ {w}, NEW t, NEW k, t = pc[v], k = held[v]
      PROVE  Ready(t, k)'
  BY <1>1, ReadyStays DEF BaseInv, WorkerInv
<1>2. \A v \in Workers : Ready(pc[v], held[v])'
  BY <1>1 DEF Ready
<1> QED
  BY <1>2 DEF WorkerInv

LEMMA Advance ==
  ASSUME BaseInv, [Next]_vars, NEW w \in Workers, pc[w] \notin Away,
         NEW s \in Stages, pc' = [pc EXCEPT ![w] = s], held' = held,
         asked' = asked,
         s = "append" => held[w] \in artifacts',
         s = "effect" => held[w] \in Recorded',
         s \in PastEffect => held[w] \in effects',
         s = "link" => outcomes'[Mission(w)] > 0,
         s = "finish" => held[w] \in lessons' /\ mission'[Mission(w)] = "learned"
  PROVE  WorkerInv'
<1>1. held[w] \in Jobs /\ jobStatus[held[w]] # "absent"
  BY DEF BaseInv, WorkerInv, Ready
<1>2. jobStatus'[held[w]] # "absent" /\ jobMission'[held[w]] = jobMission[held[w]]
  BY <1>1, Composition, QueueStable DEF BaseInv
<1>3. PICK j \in Jobs : j = held[w]
  BY <1>1
<1>4. Ready(s, j)'
  BY <1>1, <1>2, <1>3 DEF Ready, Mission
<1>5. /\ pc' \in [Workers -> Stages] /\ pc'[w] = s
      /\ held' \in [Workers -> Jobs \cup {NoJob}] /\ held'[w] = j
      /\ \A v \in Workers \ {w} : pc'[v] = pc[v] /\ held'[v] = held[v]
      /\ asked' \subseteq ClientKeys
  BY <1>3 DEF BaseInv, WorkerInv
<1> QED
  BY <1>4, <1>5, Others

LEMMA Leave ==
  ASSUME BaseInv, [Next]_vars, NEW w \in Workers, NEW s \in Away, Drop(w, s),
         asked' = asked
  PROVE  WorkerInv'
<1>1. Ready(s, NoJob)'
  BY DEF Ready, Away, PastEffect
<1>2. s \in Stages
  BY DEF Away, Stages
<1>3. /\ pc' \in [Workers -> Stages] /\ pc'[w] = s
      /\ held' \in [Workers -> Jobs \cup {NoJob}] /\ held'[w] = NoJob
      /\ \A v \in Workers \ {w} : pc'[v] = pc[v] /\ held'[v] = held[v]
      /\ asked' \subseteq ClientKeys
  BY <1>2 DEF BaseInv, WorkerInv, Drop
<1> QED
  BY <1>1, <1>3, Others

LEMMA WorkerInvByWorker ==
  ASSUME BaseInv, [Next]_vars, NEW w \in Workers, WorkerStep(w)
  PROVE  WorkerInv'
<1>0. Ready(pc[w], held[w])
  BY DEF BaseInv, WorkerInv
<1>1. pc[w] \notin Away => Mission(w) \in Missions
  BY HeldJob
<1>2. EngineInv /\ Grow
  BY Growth DEF BaseInv
<1>3. pc[w] \in PastEffect => held[w] \in effects'
  BY <1>0, <1>2 DEF Ready, Grow
<1>4. ASSUME ClaimNext(w) PROVE WorkerInv'
  <2>1. PICK pick \in Picks :
          /\ Claim(w, pick)
          /\ held' = [held EXCEPT ![w] = pick]
          /\ pc'   = [pc EXCEPT ![w] = IF pick = NoJob THEN "idle" ELSE "claimed"]
    BY <1>4 DEF ClaimNext
  <2>2. pick = NoJob \/ (pick \in Jobs /\ pick # NoJob)
    BY NullAssumption DEF Picks, Claimable
  <2>3. asked' = asked
    BY <1>4 DEF ClaimNext, gatewayVars
  <2>4. CASE pick = NoJob
    <3>1. Ready("idle", NoJob)'
      BY DEF Ready, Away, PastEffect
    <3>2. /\ pc' \in [Workers -> Stages] /\ pc'[w] = "idle"
          /\ held' \in [Workers -> Jobs \cup {NoJob}] /\ held'[w] = NoJob
          /\ \A v \in Workers \ {w} : pc'[v] = pc[v] /\ held'[v] = held[v]
          /\ asked' \subseteq ClientKeys
      BY <2>1, <2>3, <2>4 DEF BaseInv, WorkerInv, Stages
    <3> QED
      BY <3>1, <3>2, Others
  <2>5. CASE (pick \in Jobs /\ pick # NoJob)
    <3>0. Claim(w, pick)
      BY <2>1
    <3>1. pick \notin Expired /\ pick \notin Exhausted
      BY <2>5 DEF Picks, Claimable, Expired, Exhausted, Leasable, UnderWork
    <3>2. jobStatus'[pick] # "absent"
      BY <2>5, <3>0, <3>1 DEF Claim
    <3>3. Ready("claimed", pick)'
      BY <2>5, <3>2 DEF Ready, Away, PastEffect
    <3>4. /\ pc' \in [Workers -> Stages] /\ pc'[w] = "claimed"
          /\ held' \in [Workers -> Jobs \cup {NoJob}] /\ held'[w] = pick
          /\ \A v \in Workers \ {w} : pc'[v] = pc[v] /\ held'[v] = held[v]
          /\ asked' \subseteq ClientKeys
      BY <2>1, <2>3, <2>5 DEF BaseInv, WorkerInv, Stages
    <3> QED
      BY <3>3, <3>4, Others
  <2> QED
    BY <2>2, <2>4, <2>5
<1>5. ASSUME Start(w) PROVE WorkerInv'
  <2>1. PICK s \in {"started", "failing"} : pc' = [pc EXCEPT ![w] = s]
    BY <1>5 DEF Start, Goto
  <2> QED
    BY <1>5, <2>1, Advance
    DEF Start, Goto, At, Away, Stages, PastEffect, gatewayVars
<1>6. ASSUME Begin(w) \/ Reread(w) PROVE WorkerInv'
  <2>1. PICK s \in {"checkpoint", "execute", "failing"} :
          pc' = [pc EXCEPT ![w] = s]
    BY <1>6 DEF Begin, Reread, Look
  <2> QED
    BY <1>6, <2>1, Advance
    DEF Begin, Reread, Look, At, Away, Stages, PastEffect, gatewayVars
<1>7. ASSUME ExecuteMission(w) PROVE WorkerInv'
  <2>1. PICK s \in {"reread", "failing"} : pc' = [pc EXCEPT ![w] = s]
    BY <1>7 DEF ExecuteMission, Call, Goto
  <2> QED
    BY <1>7, <2>1, Advance
    DEF ExecuteMission, Call, Goto, At, Away, Stages, PastEffect, gatewayVars
<1>8. ASSUME Checkpoint(w) PROVE WorkerInv'
  <2>1. PICK s \in {"settle", "effect", "record", "failing"} :
          /\ pc' = [pc EXCEPT ![w] = s]
          /\ s = "settle" => Job(w) \in effects
          /\ s = "effect" => Job(w) \in Recorded
    BY <1>8 DEF Checkpoint
  <2> QED
    BY <1>2, <1>8, <2>1, Advance
    DEF Checkpoint, Job, At, Away, Stages, PastEffect, Grow, gatewayVars
<1>9. ASSUME RecordArtifact(w) PROVE WorkerInv'
  <2>1. PICK s \in {"effect", "append"} :
          pc' = [pc EXCEPT ![w] = s] /\ (s = "effect" => Job(w) \in Recorded)
    BY <1>9 DEF RecordArtifact, Goto
  <2>2. held[w] \in artifacts'
    BY <1>9 DEF RecordArtifact, WriteArtifact, Job
  <2> QED
    BY <1>2, <1>9, <2>1, <2>2, Advance
    DEF RecordArtifact, Goto, Job, At, Away, Stages, PastEffect, Grow, gatewayVars
<1>10. ASSUME AppendEvidence(w) PROVE WorkerInv'
  <2>1. held[w] \in Recorded'
    BY <1>10, AppendGrows DEF AppendEvidence, Job
  <2> QED
    BY <1>10, <2>1, Advance
    DEF AppendEvidence, Goto, At, Away, Stages, PastEffect, gatewayVars
<1>11. ASSUME RecordEffect(w) PROVE WorkerInv'
  <2>1. held[w] \in effects'
    BY <1>11 DEF RecordEffect, Job
  <2> QED
    BY <1>11, <2>1, Advance
    DEF RecordEffect, Goto, At, Away, Stages, gatewayVars
<1>12. ASSUME Settle(w) \/ Weigh(w) \/ Reflect(w) PROVE WorkerInv'
  <2>1. PICK s \in {"complete", "weigh", "evaluate", "reflect", "learn", "lesson"} :
          pc' = [pc EXCEPT ![w] = s]
    BY <1>12 DEF Settle, Weigh, Reflect, Read, Goto
  <2>2. pc[w] \in PastEffect
    BY <1>12 DEF Settle, Weigh, Reflect, At, PastEffect
  <2> QED
    BY <1>3, <1>12, <2>1, <2>2, Advance
    DEF Settle, Weigh, Reflect, Read, Goto, At, Away, Stages, gatewayVars
<1>13. ASSUME CompleteMission(w) PROVE WorkerInv'
  <2>1. CASE ~ CanComplete(Mission(w))
    BY <1>3, <1>13, <2>1, Advance
    DEF CompleteMission, Call, Goto, At, Away, Stages, PastEffect, gatewayVars
  <2>2. CASE CanComplete(Mission(w))
    <3>1. Mission(w) \in Missions
      BY <1>1, <1>13 DEF CompleteMission, At, Away
    <3>2. outcomes'[Mission(w)] > 0
      BY <1>2, <1>13, <2>2, <3>1
      DEF CompleteMission, Call, Complete, EngineInv, EngineTypeOK
    <3> QED
      BY <1>3, <1>13, <2>2, <3>2, Advance
      DEF CompleteMission, Call, Goto, At, Away, Stages, PastEffect, gatewayVars
  <2> QED
    BY <2>1, <2>2
<1>14. ASSUME EvaluateMission(w) \/ LearnFromMission(w) PROVE WorkerInv'
  <2>1. PICK s \in {"reflect", "lesson", "failing"} : pc' = [pc EXCEPT ![w] = s]
    BY <1>14 DEF EvaluateMission, LearnFromMission, Call, Goto
  <2>2. pc[w] \in PastEffect
    BY <1>14 DEF EvaluateMission, LearnFromMission, At, PastEffect
  <2> QED
    BY <1>3, <1>14, <2>1, <2>2, Advance
    DEF EvaluateMission, LearnFromMission, Call, Goto, At, Away, Stages,
        gatewayVars
<1>15. ASSUME LinkToJob(w) PROVE WorkerInv'
  BY <1>3, <1>15, Advance
  DEF LinkToJob, Goto, At, Away, Stages, PastEffect, gatewayVars
<1>16. ASSUME RecordLesson(w) PROVE WorkerInv'
  <2>1. PICK s \in {"finish", "failing"} :
          /\ pc' = [pc EXCEPT ![w] = s]
          /\ s = "finish" => mission[Mission(w)] = "learned"
    BY <1>16 DEF RecordLesson, Goto, StatusOf
  <2>2. held[w] \in lessons' /\ mission' = mission
    BY <1>16 DEF RecordLesson, Job, engineVars
  <2> QED
    BY <1>3, <1>16, <2>1, <2>2, Advance
    DEF RecordLesson, Goto, At, Away, Stages, PastEffect, gatewayVars
<1>17. ASSUME Finish(w) PROVE WorkerInv'
  <2>1. CASE Drop(w, "idle")
    BY <1>17, <2>1, Leave DEF Finish, Away, gatewayVars
  <2>2. CASE Goto(w, "failing")
    BY <1>17, <2>2, Advance
    DEF Finish, Goto, At, Away, Stages, PastEffect, gatewayVars
  <2> QED
    BY <1>17, <2>1, <2>2 DEF Finish
<1>18. ASSUME Fail(w) PROVE WorkerInv'
  BY <1>18, Leave DEF Fail, Away, gatewayVars
<1> QED
  BY <1>4, <1>5, <1>6, <1>7, <1>8, <1>9, <1>10, <1>11, <1>12, <1>13, <1>14,
     <1>15, <1>16, <1>17, <1>18 DEF WorkerStep

LEMMA WorkerInvStep == BaseInv /\ [Next]_vars => WorkerInv'
<1> SUFFICES ASSUME BaseInv, [Next]_vars PROVE WorkerInv'
  OBVIOUS
<1>1. ASSUME NEW w \in Workers, Crash(w) \/ Restart(w) PROVE WorkerInv'
  BY <1>1, Leave DEF Crash, Restart, Away, gatewayVars
<1>2. ASSUME UNCHANGED workerVars, asked' \subseteq ClientKeys
      PROVE  WorkerInv'
  <2>1. ASSUME NEW v \in Workers, NEW t, NEW k, t = pc[v], k = held[v]
        PROVE  Ready(t, k)'
    BY <2>1, ReadyStays DEF BaseInv, WorkerInv
  <2>2. \A v \in Workers : Ready(pc[v], held[v])'
    BY <1>2, <2>1 DEF Ready, workerVars
  <2> QED
    BY <1>2, <2>2 DEF WorkerInv, BaseInv, workerVars
<1>3. ASSUME GatewayStep PROVE UNCHANGED workerVars /\ asked' \subseteq ClientKeys
  <2>1. asked \subseteq ClientKeys
    BY DEF BaseInv, WorkerInv
  <2>2. ASSUME NEW k \in ClientKeys, AskExecute(k[1], k[2])
        PROVE  UNCHANGED workerVars /\ asked' \subseteq ClientKeys
    <3>1. <<k[1], k[2]>> = k
      BY RuntimeAssumption
    <3> QED
      BY <2>2, <3>1 DEF AskExecute
  <2>3. ASSUME \/ \E m \in Missions : EngineRequest(m) \/ Cancel(m)
               \/ \E k \in ClientKeys : EnqueueAsked(k[1], k[2])
               \/ GatewayCrash
               \/ \E j \in Jobs : Requeue(j)
               \/ \E e \in Uploads, m \in Missions : Upload(e, m)
               \/ \E m \in OperatorMissions : Operate(m)
        PROVE  UNCHANGED workerVars /\ (asked' = asked \/ asked' = {})
    BY <2>3 DEF EngineRequest, Cancel, EnqueueAsked, GatewayCrash, Requeue,
        Upload, Operate, gatewayVars
  <2> QED
    BY <1>3, <2>1, <2>2, <2>3 DEF GatewayStep
<1>4. ASSUME NEW j \in Jobs, Tick(j)
      PROVE  UNCHANGED workerVars /\ asked' \subseteq ClientKeys
  BY <1>4 DEF Tick, gatewayVars, BaseInv, WorkerInv
<1>5. CASE UNCHANGED vars
  BY <1>2, <1>5 DEF vars, gatewayVars, BaseInv, WorkerInv
<1> QED
  BY <1>1, <1>2, <1>3, <1>4, <1>5, WorkerInvByWorker DEF Next

LEMMA BaseInvInit == Init => BaseInv
<1> SUFFICES ASSUME Init PROVE BaseInv
  OBVIOUS
<1>1. EngineInv /\ QueueInv
  BY EngineInvInit, QueueInvInit DEF Init
<1>2. WorkerInv
  BY DEF Init, WorkerInv, Ready, Away, PastEffect, Stages
<1> QED
  BY <1>1, <1>2 DEF BaseInv

LEMMA BaseInvStep == BaseInv /\ [Next]_vars => BaseInv'
<1> SUFFICES ASSUME BaseInv, [Next]_vars PROVE BaseInv'
  OBVIOUS
<1>1. EngineInv'
  BY Composition, EngineInvStep DEF BaseInv
<1>2. QueueInv'
  BY Composition, QueueInvStep DEF BaseInv
<1>3. WorkerInv'
  BY WorkerInvStep
<1> QED
  BY <1>1, <1>2, <1>3 DEF BaseInv

(* Every behaviour of the runtime is a behaviour of the mission engine ... *)
THEOREM RuntimeIsEngine == Spec => EngineSpec
<1>1. Init => EngineInit
  BY DEF Init
<1>2. BaseInv /\ [Next]_vars => [EngineNext]_engineVars
  BY Composition
<1> QED
  BY <1>1, <1>2, BaseInvInit, BaseInvStep, PTL DEF Spec, EngineSpec

(* ... and of the job queue, each on its own.                              *)
THEOREM RuntimeIsQueue == Spec => QueueSpec
<1>1. Init => QueueInit
  BY DEF Init
<1>2. BaseInv /\ [Next]_vars => [QueueNext]_queueVars
  BY Composition
<1> QED
  BY <1>1, <1>2, BaseInvInit, BaseInvStep, PTL DEF Spec, QueueSpec

(* The composed runtime implements the contract of MissionContract.        *)
THEOREM RuntimeImplementsContract == Spec => ImplementsContract
  BY RuntimeIsEngine, ContractTheorem, PTL

-----------------------------------------------------------------------------
(* What the checkpoints add up to.                                         *)

(* Rows rest on files, effects on rows, and a job's row names its mission. *)
RecordInv ==
  /\ Recorded \subseteq artifacts
  /\ effects \subseteq Recorded \cap Jobs
  /\ \A j \in Jobs \cap Recorded :
       jobStatus[j] # "absent" /\ evidence[j].mission = jobMission[j]

Delivered ==
  \A j \in Jobs : jobStatus[j] = "completed" =>
    mission[jobMission[j]] = "learned" /\ j \in effects \cap lessons

ProofInv == BaseInv /\ RecordInv /\ Delivered

LEMMA RecordInvStep ==
  ASSUME BaseInv, RecordInv, [Next]_vars
  PROVE  RecordInv'
<1>1. Grow
  BY Growth
<1>2. ASSUME NEW j \in Jobs \cap Recorded
      PROVE  jobStatus'[j] # "absent" /\ jobMission'[j] = jobMission[j]
  BY Composition, QueueStable DEF RecordInv, BaseInv
<1>3. ASSUME evidence' = evidence,
             effects' = effects \/ \E j \in Recorded \cap Jobs : effects' = effects \cup {j}
      PROVE  RecordInv'
  BY <1>1, <1>2, <1>3 DEF RecordInv, Recorded, Grow
<1>4. ASSUME NEW w \in Workers, AppendEvidence(w) PROVE RecordInv'
  <2>1. /\ Job(w) \in Jobs /\ Job(w) \in artifacts
        /\ jobStatus[Job(w)] # "absent"
    BY <1>4 DEF AppendEvidence, At, Away, Job, BaseInv, WorkerInv, Ready
  <2>2. /\ Recorded' = Recorded \cup {Job(w)}
        /\ evidence'[Job(w)].mission = jobMission[Job(w)]
        /\ \A x \in Recorded : x # Job(w) => evidence'[x] = evidence[x]
    BY <1>4, AppendGrows DEF AppendEvidence, Mission, Job
  <2>3. artifacts' = artifacts /\ effects' = effects /\ UNCHANGED queueVars
    BY <1>4 DEF AppendEvidence, recordVars
  <2>4. jobStatus' = jobStatus /\ jobMission' = jobMission
    BY <2>3 DEF queueVars
  <2>5. \A j \in Jobs \cap Recorded' :
          jobStatus'[j] # "absent" /\ evidence'[j].mission = jobMission'[j]
    BY <2>1, <2>2, <2>4 DEF RecordInv
  <2>6. Recorded' \subseteq artifacts' /\ effects' \subseteq Recorded' \cap Jobs
    BY <2>1, <2>2, <2>3 DEF RecordInv
  <2> QED
    BY <2>5, <2>6 DEF RecordInv
<1>5. ASSUME NEW e \in Uploads, NEW m \in Missions, Upload(e, m)
      PROVE  RecordInv'
  <2>1. e \notin Jobs
    BY UploadAssumption
  <2>2. /\ Recorded' = Recorded \cup {e}
        /\ \A x \in Recorded : x # e => evidence'[x] = evidence[x]
    BY <1>5, AppendGrows DEF Upload
  <2>3. artifacts' = artifacts \cup {e} /\ effects' = effects
    BY <1>5 DEF Upload, WriteArtifact, recordVars
  <2>4. jobStatus' = jobStatus /\ jobMission' = jobMission
    BY <1>5 DEF Upload, queueVars
  <2>5. \A j \in Jobs \cap Recorded' :
          jobStatus'[j] # "absent" /\ evidence'[j].mission = jobMission'[j]
    BY <2>1, <2>2, <2>4 DEF RecordInv
  <2>6. Recorded' \subseteq artifacts' /\ effects' \subseteq Recorded' \cap Jobs
    BY <2>1, <2>2, <2>3 DEF RecordInv
  <2> QED
    BY <2>5, <2>6 DEF RecordInv
<1>6. ASSUME NEW w \in Workers, RecordEffect(w) PROVE RecordInv'
  <2>1. Job(w) \in Recorded \cap Jobs
    BY <1>6, HeldJob
    DEF RecordEffect, At, Away, Job, BaseInv, WorkerInv, Ready
  <2> QED
    BY <1>3, <1>6, <2>1 DEF RecordEffect, evidenceVars
<1>7. ASSUME NEW w \in Workers, RecordArtifact(w) \/ RecordLesson(w)
      PROVE  evidence' = evidence /\ effects' = effects
  BY <1>7 DEF RecordArtifact, RecordLesson, evidenceVars, recordVars
<1>8. ASSUME NEW w \in Workers,
             \/ ClaimNext(w) \/ Start(w) \/ Begin(w) \/ ExecuteMission(w)
             \/ Reread(w) \/ Checkpoint(w) \/ Settle(w) \/ CompleteMission(w)
             \/ LinkToJob(w) \/ Weigh(w) \/ EvaluateMission(w) \/ Reflect(w)
             \/ LearnFromMission(w) \/ Finish(w) \/ Fail(w)
             \/ Crash(w) \/ Restart(w)
      PROVE  evidence' = evidence /\ effects' = effects
  BY <1>8 DEF ClaimNext, Start, Begin, ExecuteMission, Reread, Checkpoint,
      Settle, CompleteMission, LinkToJob, Weigh, EvaluateMission, Reflect,
      LearnFromMission, Finish, Fail, Crash, Restart, Read, Call,
      evidenceVars, recordVars
<1>9. ASSUME \/ \E m \in Missions : EngineRequest(m) \/ Cancel(m)
             \/ \E k \in ClientKeys : \/ AskExecute(k[1], k[2])
                                      \/ EnqueueAsked(k[1], k[2])
             \/ GatewayCrash
             \/ \E j \in Jobs : Requeue(j) \/ Tick(j)
             \/ \E m \in OperatorMissions : Operate(m)
             \/ UNCHANGED vars
      PROVE  evidence' = evidence /\ effects' = effects
  BY <1>9 DEF EngineRequest, Cancel, AskExecute, EnqueueAsked, GatewayCrash,
      Requeue, Tick, Operate, vars, evidenceVars, recordVars
<1> QED
  BY <1>3, <1>4, <1>5, <1>6, <1>7, <1>8, <1>9
  DEF Next, WorkerStep, GatewayStep

(* Only Finish completes a job.                                            *)
LEMMA OnlyFinishCompletes ==
  ASSUME BaseInv, [Next]_vars, NEW j \in Jobs,
         jobStatus'[j] = "completed", jobStatus[j] # "completed"
  PROVE  \E w \in Workers : Finish(w) /\ held[w] = j
<1> USE DEF BaseInv, QueueInv, QueueTypeOK
<1>1. ASSUME UNCHANGED queueVars PROVE FALSE
  BY <1>1 DEF queueVars
<1>2. ASSUME NEW i \in Jobs, NEW m, NEW n, Enqueue(i, m, n) PROVE FALSE
  BY <1>1, <1>2 DEF Enqueue
<1>3. ASSUME NEW i \in Jobs, NEW w \in Workers, StartJob(w, i) \/ FailJob(w, i)
      PROVE  FALSE
  BY <1>3 DEF StartJob, FailJob, Release
<1>4. ASSUME NEW i \in Jobs, RequeueJob(i) PROVE FALSE
  BY <1>4 DEF RequeueJob, Release
<1>5. ASSUME NEW w \in Workers, NEW pick \in Picks, Claim(w, pick) PROVE FALSE
  <2>1. pick \in Expired \/ jobStatus'[j] \in {"leased", "failed", "retryable", jobStatus[j]}
    BY <1>5 DEF Claim
  <2>2. pick \notin Expired
    BY NullAssumption DEF Picks, Claimable, Expired, Leasable, UnderWork
  <2> QED
    BY <2>1, <2>2
<1>6. ASSUME NEW m, CancelJobs(m) PROVE FALSE
  BY <1>6 DEF CancelJobs
<1>7. ASSUME UNCHANGED jobStatus PROVE FALSE
  BY <1>7
<1>8. ASSUME NEW w \in Workers, Finish(w) PROVE held[w] = j
  <2>1. CASE CompleteJob(w, Job(w))
    BY <1>8, <2>1 DEF CompleteJob, Release, Job
  <2> QED
    BY <1>1, <1>8, <2>1 DEF Finish
<1>9. ASSUME NEW w \in Workers, WorkerStep(w), ~ Finish(w) PROVE FALSE
  <2>1. pc[w] \notin Away => Job(w) \in Jobs
    BY HeldJob
  <2>2. ClaimNext(w) => FALSE
    BY <1>5 DEF ClaimNext
  <2>3. Start(w) => FALSE
    BY <1>1, <1>3, <2>1 DEF Start, At, Away
  <2>4. Begin(w) => FALSE
    BY <1>7 DEF Begin, Heartbeat
  <2>5. Fail(w) => FALSE
    BY <1>1, <1>3, <2>1 DEF Fail, At, Away
  <2> QED
    BY <1>1, <1>9, <2>2, <2>3, <2>4, <2>5
    DEF WorkerStep, ExecuteMission, Reread, Checkpoint, RecordArtifact,
        AppendEvidence, RecordEffect, Settle, CompleteMission, LinkToJob,
        Weigh, EvaluateMission, Reflect, LearnFromMission, RecordLesson, Read,
        Call
<1>10. ASSUME GatewayStep PROVE FALSE
  <2>1. ASSUME NEW k \in ClientKeys, EnqueueAsked(k[1], k[2]) PROVE FALSE
    BY <1>2, <2>1, RuntimeAssumption DEF EnqueueAsked
  <2>2. ASSUME \/ \E m \in Missions : EngineRequest(m)
               \/ \E k \in ClientKeys : AskExecute(k[1], k[2])
               \/ GatewayCrash
               \/ \E e \in Uploads, m \in Missions : Upload(e, m)
               \/ \E m \in OperatorMissions : Operate(m)
        PROVE  UNCHANGED queueVars
    BY <2>2 DEF EngineRequest, AskExecute, GatewayCrash, Upload, Operate
  <2> QED
    BY <1>1, <1>4, <1>6, <1>10, <2>1, <2>2 DEF GatewayStep, Cancel, Requeue
<1>11. ASSUME NEW i \in Jobs, Tick(i) PROVE FALSE
  BY <1>7, <1>11 DEF Tick, LeaseLapse, BackoffElapse
<1>12. ASSUME NEW w \in Workers, Crash(w) \/ Restart(w) PROVE FALSE
  BY <1>1, <1>12 DEF Crash, Restart
<1> QED
  BY <1>1, <1>8, <1>9, <1>10, <1>11, <1>12 DEF Next, vars

LEMMA DeliveredStep ==
  ASSUME BaseInv, Delivered, [Next]_vars
  PROVE  Delivered'
<1> SUFFICES ASSUME NEW j \in Jobs, jobStatus'[j] = "completed"
             PROVE  /\ mission'[jobMission'[j]] = "learned"
                    /\ j \in effects' \cap lessons'
  BY DEF Delivered
<1>1. mission[jobMission[j]] = "learned" /\ j \in effects \cap lessons
  <2>1. CASE jobStatus[j] = "completed"
    BY <2>1 DEF Delivered
  <2>2. CASE jobStatus[j] # "completed"
    <3>1. PICK w \in Workers : Finish(w) /\ held[w] = j
      BY <2>2, OnlyFinishCompletes
    <3> QED
      BY <3>1 DEF Finish, At, BaseInv, WorkerInv, Ready, PastEffect
  <2> QED
    BY <2>1, <2>2
<1>2. jobStatus[j] # "absent"
  <2>1. CASE jobStatus[j] = "completed"
    BY <2>1
  <2>2. CASE jobStatus[j] # "completed"
    <3>1. PICK w \in Workers : Finish(w) /\ held[w] = j
      BY <2>2, OnlyFinishCompletes
    <3> QED
      BY <3>1 DEF Finish, At, BaseInv, WorkerInv, Ready, Away
  <2> QED
    BY <2>1, <2>2
<1>3. jobMission[j] \in Missions /\ jobMission'[j] = jobMission[j]
  BY <1>2, JobMissions, Composition, QueueStable DEF BaseInv
<1>4. mission'[jobMission[j]] = "learned"
  BY <1>1, <1>3, Composition, EngineStable DEF BaseInv
<1> QED
  BY <1>1, <1>3, <1>4, Growth DEF Grow

LEMMA ProofInvInit == Init => ProofInv
<1>1. Init => RecordInv /\ Delivered
  BY DEF Init, EvidenceInit, QueueInit, Recorded, RecordInv, Delivered
<1> QED
  BY <1>1, BaseInvInit DEF ProofInv

LEMMA ProofInvStep == ProofInv /\ [Next]_vars => ProofInv'
  BY BaseInvStep, RecordInvStep, DeliveredStep DEF ProofInv

(* A completed job is a finished delivery, through any crashes, retries,   *)
(* lost leases, requeues and other workers.                                *)
THEOREM CompletedTheorem == Spec => []CompletedJobIsProven
<1>1. ProofInv => CompletedJobIsProven
  BY DEF ProofInv, RecordInv, Delivered, CompletedJobIsProven
<1> QED
  BY <1>1, ProofInvInit, ProofInvStep, PTL DEF Spec

-----------------------------------------------------------------------------
(* Outcomes.                                                               *)

(* Outside the operator's missions an outcome is written by a worker that   *)
(* has recorded its effect.                                                *)
LEMMA OutcomeChanges ==
  ASSUME BaseInv, [Next]_vars, NEW m \in Missions \ OperatorMissions
  PROVE  \/ outcomes'[m] = outcomes[m] /\ outcomeJob'[m] = outcomeJob[m]
         \/ \E w \in Workers : /\ pc[w] \in PastEffect
                               /\ jobMission[held[w]] = m
                               /\ outcomeJob'[m] \in {NoJob, held[w]}
<1> USE DEF BaseInv, EngineInv, EngineTypeOK
<1> DEFINE Same == outcomes'[m] = outcomes[m] /\ outcomeJob'[m] = outcomeJob[m]
<1>1. ASSUME UNCHANGED engineVars PROVE Same
  BY <1>1 DEF engineVars
<1>2. ASSUME NEW n, \/ CreateMission(n) \/ ValidateMission(n)
                    \/ PlanMission(n) \/ RequestApproval(n)
                    \/ \E d \in {"approved", "rejected"} : DecideApproval(n, d)
                    \/ AssignAgent(n) \/ Execute(n) \/ Evaluate(n)
                    \/ LearnCapability(n) \/ CancelMission(n)
                    \/ RequeueMission(n)
      PROVE  Same
  BY <1>2 DEF CreateMission, ValidateMission, PlanMission, RequestApproval,
      DecideApproval, AssignAgent, Execute, Evaluate, LearnCapability,
      CancelMission, RequeueMission
<1>3. ASSUME NEW S, MissionFailure(S) PROVE Same
  BY <1>3 DEF MissionFailure
<1>4. ASSUME NEW n \in Missions, Complete(n) PROVE n # m => Same
  BY <1>4 DEF Complete
<1>5. ASSUME NEW w \in Workers, CompleteMission(w)
      PROVE  Same \/ (/\ pc[w] \in PastEffect
                      /\ jobMission[held[w]] = m
                      /\ outcomeJob'[m] \in {NoJob, held[w]})
  <2>1. Mission(w) \in Missions /\ pc[w] \in PastEffect
    BY <1>5, HeldJob DEF CompleteMission, At, Away, PastEffect
  <2>2. CASE Complete(Mission(w))
    <3>1. CASE Mission(w) = m
      BY <2>1, <2>2, <3>1 DEF Complete, Mission
    <3> QED
      BY <1>4, <2>1, <2>2, <3>1
  <2> QED
    BY <1>1, <1>5, <2>2 DEF CompleteMission, Call
<1>6. ASSUME NEW w \in Workers, LinkToJob(w)
      PROVE  Same \/ (/\ pc[w] \in PastEffect
                      /\ jobMission[held[w]] = m
                      /\ outcomeJob'[m] \in {NoJob, held[w]})
  <2>1. Mission(w) \in Missions /\ pc[w] \in PastEffect
    BY <1>6, HeldJob DEF LinkToJob, At, Away, PastEffect
  <2>2. outcomes' = outcomes /\ outcomeJob' = [outcomeJob EXCEPT ![Mission(w)] = held[w]]
    BY <1>6 DEF LinkToJob, LinkOutcome, Job
  <2> QED
    BY <2>1, <2>2 DEF Mission
<1>7. ASSUME NEW w \in Workers, WorkerStep(w), ~ CompleteMission(w), ~ LinkToJob(w)
      PROVE  Same
  <2>1. ASSUME \/ ClaimNext(w) \/ Fail(w) PROVE Same
    BY <1>1, <1>3, <2>1 DEF ClaimNext, Fail
  <2>2. ASSUME \/ ExecuteMission(w) \/ EvaluateMission(w) \/ LearnFromMission(w)
        PROVE  Same
    BY <1>1, <1>2, <2>2 DEF ExecuteMission, EvaluateMission, LearnFromMission, Call
  <2>3. ASSUME \/ Start(w) \/ Begin(w) \/ Reread(w) \/ Checkpoint(w)
               \/ RecordArtifact(w) \/ AppendEvidence(w) \/ RecordEffect(w)
               \/ Settle(w) \/ Weigh(w) \/ Reflect(w) \/ RecordLesson(w)
               \/ Finish(w)
        PROVE  UNCHANGED engineVars
    BY <2>3 DEF Start, Begin, Reread, Checkpoint, RecordArtifact,
        AppendEvidence, RecordEffect, Settle, Weigh, Reflect, RecordLesson,
        Finish, Read
  <2> QED
    BY <1>1, <1>7, <2>1, <2>2, <2>3 DEF WorkerStep
<1>8. ASSUME GatewayStep PROVE Same
  <2>1. ASSUME NEW n \in OperatorMissions, Operate(n) PROVE Same
    BY <1>2, <1>4, <2>1, RuntimeAssumption DEF Operate
  <2>2. ASSUME NEW n \in Missions, EngineRequest(n) \/ Cancel(n) PROVE Same
    BY <1>2, <2>2 DEF EngineRequest, Cancel
  <2>3. ASSUME NEW j \in Jobs, Requeue(j) PROVE Same
    BY <1>2, <2>3 DEF Requeue
  <2>4. ASSUME \/ \E k \in ClientKeys : \/ AskExecute(k[1], k[2])
                                        \/ EnqueueAsked(k[1], k[2])
               \/ GatewayCrash
               \/ \E e \in Uploads, n \in Missions : Upload(e, n)
        PROVE  UNCHANGED engineVars
    BY <2>4 DEF AskExecute, EnqueueAsked, GatewayCrash, Upload
  <2> QED
    BY <1>1, <1>8, <2>1, <2>2, <2>3, <2>4 DEF GatewayStep
<1>9. ASSUME \/ \E w \in Workers : Crash(w) \/ Restart(w)
             \/ \E j \in Jobs : Tick(j)
             \/ UNCHANGED vars
      PROVE  UNCHANGED engineVars
  BY <1>9 DEF Crash, Restart, Tick, vars
<1> QED
  BY <1>1, <1>5, <1>6, <1>7, <1>8, <1>9 DEF Next

LEMMA OutcomeStep ==
  ASSUME ProofInv, OutcomeHasEvidence, [Next]_vars
  PROVE  OutcomeHasEvidence'
<1> SUFFICES ASSUME NEW m \in Missions \ OperatorMissions, outcomes'[m] > 0
             PROVE  /\ JobsOf(m)' \cap effects' \cap Recorded' # {}
                    /\ outcomeJob'[m] \in (JobsOf(m)' \cap effects') \cup {NoJob}
  BY DEF OutcomeHasEvidence
<1>1. BaseInv /\ RecordInv
  BY DEF ProofInv
<1>2. Grow
  BY Growth
<1>3. ASSUME NEW j \in effects
      PROVE  /\ j \in effects' \cap Recorded'
             /\ jobMission[j] = m => j \in JobsOf(m)'
  <2>1. j \in Jobs \cap Recorded /\ jobStatus[j] # "absent"
    BY <1>1, <1>3 DEF RecordInv
  <2>2. jobMission'[j] = jobMission[j]
    BY <1>1, <2>1, Composition, QueueStable DEF BaseInv
  <2> QED
    BY <1>2, <1>3, <2>1, <2>2 DEF Grow, JobsOf
<1>4. CASE outcomes'[m] = outcomes[m] /\ outcomeJob'[m] = outcomeJob[m]
  <2>1. /\ JobsOf(m) \cap effects \cap Recorded # {}
        /\ outcomeJob[m] \in (JobsOf(m) \cap effects) \cup {NoJob}
    BY <1>4 DEF OutcomeHasEvidence
  <2>2. \A j \in JobsOf(m) \cap effects : j \in JobsOf(m)' \cap effects' \cap Recorded'
    BY <1>3 DEF JobsOf
  <2> QED
    BY <1>4, <2>1, <2>2
<1>5. ASSUME NEW w \in Workers, pc[w] \in PastEffect, jobMission[held[w]] = m,
             outcomeJob'[m] \in {NoJob, held[w]}
      PROVE  /\ JobsOf(m)' \cap effects' \cap Recorded' # {}
             /\ outcomeJob'[m] \in (JobsOf(m)' \cap effects') \cup {NoJob}
  <2>1. held[w] \in effects
    BY <1>1, <1>5 DEF BaseInv, WorkerInv, Ready
  <2> QED
    BY <1>3, <1>5, <2>1
<1> QED
  BY <1>1, <1>4, <1>5, OutcomeChanges

(* What the runtime delivered it can show: an outcome has a job of its     *)
(* mission with effect and evidence, and names no job but such a one.      *)
THEOREM OutcomeEvidenceTheorem == Spec => []OutcomeHasEvidence
<1>1. Init => OutcomeHasEvidence
  BY DEF Init, EngineInit, OutcomeHasEvidence
<1>2. ProofInv /\ OutcomeHasEvidence /\ [Next]_vars => OutcomeHasEvidence'
  BY OutcomeStep
<1> QED
  BY <1>1, <1>2, ProofInvInit, ProofInvStep, PTL DEF Spec

-----------------------------------------------------------------------------
(* Who ends an attempt.                                                    *)

LEMMA EndStep ==
  ASSUME BaseInv, [Next]_vars, NEW j \in Jobs,
         jobStatus[j] \in UnderWork,
         jobStatus'[j] \notin UnderWork \cup {"cancelled"}
  PROVE  \/ lapsed[j]
         \/ \E w \in Workers :
              owner[j] = w /\ held[w] = j /\ pc[w] \in {"finish", "failing"}
<1> DEFINE Ended == \/ lapsed[j]
                    \/ \E w \in Workers :
                         /\ owner[j] = w /\ held[w] = j
                         /\ pc[w] \in {"finish", "failing"}
<1> USE DEF BaseInv, QueueInv, QueueTypeOK, UnderWork
<1>1. ASSUME UNCHANGED queueVars PROVE FALSE
  BY <1>1 DEF queueVars
<1>2. ASSUME NEW i \in Jobs, NEW m, NEW n, Enqueue(i, m, n) PROVE FALSE
  BY <1>1, <1>2 DEF Enqueue
<1>3. ASSUME NEW i \in Jobs, NEW w \in Workers, StartJob(w, i) PROVE FALSE
  BY <1>3 DEF StartJob
<1>4. ASSUME NEW i \in Jobs, RequeueJob(i) PROVE FALSE
  BY <1>4 DEF RequeueJob, Release
<1>5. ASSUME NEW w \in Workers, NEW pick \in Picks, Claim(w, pick) PROVE lapsed[j]
  BY <1>5 DEF Claim, Expired, Exhausted
<1>6. ASSUME NEW m, CancelJobs(m) PROVE FALSE
  BY <1>6 DEF CancelJobs
<1>7. ASSUME UNCHANGED jobStatus PROVE FALSE
  BY <1>7
<1>8. ASSUME NEW w \in Workers, WorkerStep(w) PROVE Ended
  <2>1. pc[w] \notin Away => Job(w) \in Jobs
    BY HeldJob
  <2>2. ClaimNext(w) => Ended
    BY <1>5 DEF ClaimNext
  <2>3. Start(w) => FALSE
    BY <1>1, <1>3, <2>1 DEF Start, At, Away
  <2>4. Begin(w) => FALSE
    BY <1>7 DEF Begin, Heartbeat
  <2>5. ASSUME Finish(w) PROVE Ended
    <3>1. pc[w] = "finish" /\ CompleteJob(w, Job(w))
      BY <1>1, <2>5 DEF Finish, At
    <3> QED
      BY <3>1 DEF CompleteJob, Release, Owns, Job
  <2>6. ASSUME Fail(w) PROVE Ended
    <3>1. pc[w] = "failing" /\ FailJob(w, Job(w))
      BY <1>1, <2>6 DEF Fail, At
    <3> QED
      BY <3>1 DEF FailJob, Release, Owns, Job
  <2> QED
    BY <1>1, <1>8, <2>2, <2>3, <2>4, <2>5, <2>6
    DEF WorkerStep, ExecuteMission, Reread, Checkpoint, RecordArtifact,
        AppendEvidence, RecordEffect, Settle, CompleteMission, LinkToJob,
        Weigh, EvaluateMission, Reflect, LearnFromMission, RecordLesson, Read,
        Call
<1>9. ASSUME GatewayStep PROVE FALSE
  <2>1. ASSUME NEW k \in ClientKeys, EnqueueAsked(k[1], k[2]) PROVE FALSE
    BY <1>2, <2>1, RuntimeAssumption DEF EnqueueAsked
  <2>2. ASSUME \/ \E m \in Missions : EngineRequest(m)
               \/ \E k \in ClientKeys : AskExecute(k[1], k[2])
               \/ GatewayCrash
               \/ \E e \in Uploads, m \in Missions : Upload(e, m)
               \/ \E m \in OperatorMissions : Operate(m)
        PROVE  UNCHANGED queueVars
    BY <2>2 DEF EngineRequest, AskExecute, GatewayCrash, Upload, Operate
  <2> QED
    BY <1>1, <1>4, <1>6, <1>9, <2>1, <2>2 DEF GatewayStep, Cancel, Requeue
<1>10. ASSUME NEW i \in Jobs, Tick(i) PROVE FALSE
  BY <1>7, <1>10 DEF Tick, LeaseLapse, BackoffElapse
<1>11. ASSUME NEW w \in Workers, Crash(w) \/ Restart(w) PROVE FALSE
  BY <1>1, <1>11 DEF Crash, Restart
<1> QED
  BY <1>1, <1>8, <1>9, <1>10, <1>11 DEF Next, vars

(* Only the worker that makes an attempt, its expired lease or a           *)
(* cancellation ends it, however many workers hold the same job.           *)
THEOREM EndTheorem == Spec => EndedByItsWorker
<1>1. BaseInv /\ [Next]_vars
        => [\A j \in Jobs :
              /\ jobStatus[j] \in UnderWork
              /\ jobStatus'[j] \notin UnderWork \cup {"cancelled"}
              => \/ lapsed[j]
                 \/ \E w \in Workers :
                      owner[j] = w /\ held[w] = j /\ pc[w] \in {"finish", "failing"}]_vars
  BY EndStep
<1> QED
  BY <1>1, BaseInvInit, BaseInvStep, PTL DEF Spec, EndedByItsWorker

=============================================================================
