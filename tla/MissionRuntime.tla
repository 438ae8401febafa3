---------------------------- MODULE MissionRuntime ----------------------------
(***************************************************************************)
(* The durable mission runtime: one HTTP gateway and a set of worker       *)
(* processes over one SQLite database.                                     *)
(*                                                                         *)
(* A worker (MissionWorker.runOnce) is sequential code whose every         *)
(* transaction and every autocommitted read is a step of its own here, and *)
(* it keeps no lock between two of them: its lease may expire, its job be  *)
(* recovered, requeued or claimed by another worker, and its mission be    *)
(* changed by the gateway, while it goes on with what it last read.  It    *)
(* may crash at any step, and it exits when it cannot record a failure     *)
(* because its lease is gone.                                              *)
(*                                                                         *)
(* The gateway is one process: a request runs to its end before the next   *)
(* one starts, so only workers come between the two transactions of        *)
(* executeMission.                                                         *)
(***************************************************************************)
EXTENDS MissionEngine, JobQueue, EvidenceLog

CONSTANTS ClientKeys,        \* pairs <<mission, key>> clients may execute with
          OperatorMissions,  \* missions an operator service runs by itself
          MaxRequeues        \* how often an operator requeues a job

ASSUME RuntimeAssumption ==
  /\ ClientKeys \subseteq Missions \X Jobs
  /\ OperatorMissions \subseteq Missions
  /\ MaxRequeues \in Nat

VARIABLES pc,        \* where each worker is in runOnce
          held,      \* the job it claimed
          saw,       \* the mission status it last read, while it matters
          effects,   \* jobs with an execution_effects row
          lessons,   \* jobs with a learning_records row
          asked,     \* executeMission between its check and its enqueue
          requeues   \* jobs requeued so far (a bound, not code)

workerVars  == <<pc, held, saw>>
recordVars  == <<effects, lessons>>
gatewayVars == <<asked, requeues>>
vars == <<engineVars, queueVars, evidenceVars, workerVars, recordVars,
          gatewayVars>>

Stages == { "idle", "claimed", "started", "execute", "reread", "checkpoint",
            "record", "append", "effect", "settle", "complete", "link",
            "weigh", "evaluate", "reflect", "learn", "lesson", "finish",
            "failing", "down" }

Init ==
  /\ EngineInit /\ QueueInit /\ EvidenceInit
  /\ pc   = [w \in Workers |-> "idle"]
  /\ held = [w \in Workers |-> NoJob]
  /\ saw  = [w \in Workers |-> "absent"]
  /\ effects = {} /\ lessons = {}
  /\ asked = {}   /\ requeues = 0

TypeOK ==
  /\ EngineTypeOK /\ QueueTypeOK /\ EvidenceTypeOK
  /\ pc   \in [Workers -> Stages]
  /\ held \in [Workers -> Jobs \cup {NoJob}]
  /\ saw  \in [Workers -> MissionStates \cup {"absent"}]
  /\ effects \subseteq Jobs /\ lessons \subseteq Jobs
  /\ asked \subseteq ClientKeys
  /\ requeues \in Nat

-----------------------------------------------------------------------------
(* The worker.  At(w, s) is a step from stage s with the held job, Goto     *)
(* the stage that follows.                                                 *)

At(w, stage)   == pc[w] = stage
Job(w)         == held[w]
Mission(w)     == jobMission[held[w]]
StatusOf(w)    == mission[Mission(w)]
Goto(w, stage) == /\ pc' = [pc EXCEPT ![w] = stage]
                  /\ UNCHANGED <<held, saw>>
Drop(w, stage) == /\ pc'   = [pc   EXCEPT ![w] = stage]
                  /\ held' = [held EXCEPT ![w] = NoJob]
                  /\ saw'  = [saw  EXCEPT ![w] = "absent"]

(* A step that reads the mission and only chooses where to go.             *)
Read(w, stage) ==
  /\ Goto(w, stage)
  /\ UNCHANGED <<engineVars, queueVars, evidenceVars, recordVars, gatewayVars>>

(* An engine call: refused, it throws and the run fails.                   *)
Call(w, accepted, Op, stage) ==
  /\ IF accepted THEN Op /\ Goto(w, stage)
                 ELSE Goto(w, "failing") /\ UNCHANGED engineVars
  /\ UNCHANGED <<queueVars, evidenceVars, recordVars, gatewayVars>>

(* claim, with missionFailure for every job the recovery gives up.         *)
ClaimNext(w) ==
  /\ At(w, "idle")
  /\ \E pick \in Picks :
       /\ Claim(w, pick)
       /\ held' = [held EXCEPT ![w] = pick]
       /\ pc'   = [pc EXCEPT ![w] = IF pick = NoJob THEN "idle" ELSE "claimed"]
  /\ MissionFailure({jobMission[j] : j \in Exhausted})
  /\ UNCHANGED <<saw, evidenceVars, recordVars, gatewayVars>>

Start(w) ==
  /\ At(w, "claimed")
  /\ IF jobStatus[Job(w)] = "leased" /\ Owns(w, Job(w))
       THEN StartJob(w, Job(w)) /\ Goto(w, "started")
       ELSE Goto(w, "failing") /\ UNCHANGED queueVars
  /\ UNCHANGED <<engineVars, evidenceVars, recordVars, gatewayVars>>

Executable == {"running", "completed", "evaluated", "learned"}

(* The mission is read, and must be queued or further on.                  *)
Look(w, stages) ==
  /\ pc'  = [pc EXCEPT ![w] = IF StatusOf(w) \in Executable THEN "checkpoint"
                              ELSE IF StatusOf(w) \in stages THEN "execute"
                              ELSE "failing"]
  /\ saw' = [saw EXCEPT ![w] = StatusOf(w)]
  /\ UNCHANGED held

(* One heartbeat per run, whose result is ignored, then the first read:    *)
(* between the two only a lapse of the lease could be seen, and it may     *)
(* follow as well.                                                         *)
Begin(w) ==
  /\ At(w, "started")
  /\ Heartbeat(w, Job(w))
  /\ Look(w, {"queued"})
  /\ UNCHANGED <<engineVars, evidenceVars, recordVars, gatewayVars>>

ExecuteMission(w) ==
  /\ At(w, "execute")
  /\ Call(w, StatusOf(w) = "queued", Execute(Mission(w)), "reread")

Reread(w) ==
  /\ At(w, "reread")
  /\ Look(w, {})
  /\ UNCHANGED <<engineVars, queueVars, evidenceVars, recordVars, gatewayVars>>

(* A mutant: a mission past running is taken to be fully recorded.         *)
Checkpoint_Trusting(w) ==
  /\ At(w, "checkpoint")
  /\ pc' = [pc EXCEPT ![w] =
       CASE Job(w) \in effects         -> "settle"
         [] Job(w) \in Recorded \ effects -> "effect"
         [] Job(w) \notin Recorded \cup effects /\ saw[w] = "running" -> "record"
         [] OTHER                      -> "settle"]
  /\ saw' = [saw EXCEPT ![w] = "absent"]
  /\ UNCHANGED <<held, engineVars, queueVars, evidenceVars, recordVars, gatewayVars>>

(* What an earlier attempt left decides where this one resumes; evidence   *)
(* is only recorded for a mission seen running.                            *)
Checkpoint(w) ==
  /\ At(w, "checkpoint")
  /\ pc' = [pc EXCEPT ![w] =
       CASE Job(w) \in effects         -> "settle"
         [] Job(w) \in Recorded \ effects -> "effect"
         [] Job(w) \notin Recorded \cup effects /\ saw[w] = "running" -> "record"
         [] OTHER                      -> "failing"]
  /\ saw' = [saw EXCEPT ![w] = "absent"]
  /\ UNCHANGED <<held, engineVars, queueVars, evidenceVars, recordVars, gatewayVars>>

(* A mutant: the file on disk is taken for the evidence row.               *)
RecordArtifact_FileOnly(w) ==
  /\ At(w, "record")
  /\ WriteArtifact(Job(w))
  /\ Goto(w, IF Job(w) \in artifacts THEN "effect" ELSE "append")
  /\ UNCHANGED <<evidence, engineVars, queueVars, recordVars, gatewayVars>>

(* evidence.record: the file, and the look whether the row is there ...    *)
RecordArtifact(w) ==
  /\ At(w, "record")
  /\ WriteArtifact(Job(w))
  /\ Goto(w, IF Job(w) \in Recorded THEN "effect" ELSE "append")
  /\ UNCHANGED <<evidence, engineVars, queueVars, recordVars, gatewayVars>>

(* ... then the transaction that appends it without a second look.         *)
AppendEvidence(w) ==
  /\ At(w, "append")
  /\ AppendRow(Job(w), Mission(w))
  /\ Goto(w, "effect")
  /\ UNCHANGED <<artifacts, engineVars, queueVars, recordVars, gatewayVars>>

(* INSERT OR IGNORE INTO execution_effects.                                *)
RecordEffect(w) ==
  /\ At(w, "effect")
  /\ effects' = effects \cup {Job(w)}
  /\ Goto(w, "settle")
  /\ UNCHANGED <<lessons, engineVars, queueVars, evidenceVars, gatewayVars>>

Settle(w) ==
  /\ At(w, "settle")
  /\ Read(w, IF StatusOf(w) = "running" THEN "complete" ELSE "weigh")

CompleteMission(w) ==
  /\ At(w, "complete")
  /\ Call(w, CanComplete(Mission(w)), Complete(Mission(w)), "link")

(* The outcome gets its job_id only now, in a transaction of its own.      *)
LinkToJob(w) ==
  /\ At(w, "link")
  /\ LinkOutcome(Mission(w), Job(w))
  /\ Goto(w, "weigh")
  /\ UNCHANGED <<queueVars, evidenceVars, recordVars, gatewayVars>>

Weigh(w) ==
  /\ At(w, "weigh")
  /\ Read(w, IF StatusOf(w) = "completed" THEN "evaluate" ELSE "reflect")

EvaluateMission(w) ==
  /\ At(w, "evaluate")
  /\ Call(w, StatusOf(w) \in {"completed", "failed", "cancelled"},
          Evaluate(Mission(w)), "reflect")

Reflect(w) ==
  /\ At(w, "reflect")
  /\ Read(w, IF StatusOf(w) = "evaluated" THEN "learn" ELSE "lesson")

LearnFromMission(w) ==
  /\ At(w, "learn")
  /\ Call(w, StatusOf(w) = "evaluated", LearnCapability(Mission(w)), "lesson")

(* INSERT OR IGNORE INTO learning_records, and the last read.              *)
RecordLesson(w) ==
  /\ At(w, "lesson")
  /\ lessons' = lessons \cup {Job(w)}
  /\ Goto(w, IF StatusOf(w) = "learned" THEN "finish" ELSE "failing")
  /\ UNCHANGED <<effects, engineVars, queueVars, evidenceVars, gatewayVars>>

(* complete: a job already completed with the same result is accepted; all  *)
(* attempts at a learned mission have the same result.                     *)
Finish(w) ==
  /\ At(w, "finish")
  /\ IF jobStatus[Job(w)] = "running" /\ Owns(w, Job(w))
       THEN CompleteJob(w, Job(w)) /\ Drop(w, "idle")
       ELSE /\ UNCHANGED queueVars
            /\ IF jobStatus[Job(w)] = "completed" THEN Drop(w, "idle")
                                                  ELSE Goto(w, "failing")
  /\ UNCHANGED <<engineVars, evidenceVars, recordVars, gatewayVars>>

(* A mutant: the mission of a job that is given up is left as it is.       *)
Fail_JobOnly(w) ==
  /\ At(w, "failing")
  /\ IF Owns(w, Job(w))
       THEN FailJob(w, Job(w)) /\ UNCHANGED engineVars /\ Drop(w, "idle")
       ELSE UNCHANGED <<queueVars, engineVars>> /\ Drop(w, "down")
  /\ UNCHANGED <<evidenceVars, recordVars, gatewayVars>>

(* The catch block: fail(), and missionFailure with the last attempt.      *)
(* fail() throws when the lease is gone, which ends the process.           *)
Fail(w) ==
  /\ At(w, "failing")
  /\ IF Owns(w, Job(w))
       THEN /\ FailJob(w, Job(w))
            /\ MissionFailure(IF OutOfAttempts(Job(w)) THEN {Mission(w)} ELSE {})
            /\ Drop(w, "idle")
       ELSE UNCHANGED <<queueVars, engineVars>> /\ Drop(w, "down")
  /\ UNCHANGED <<evidenceVars, recordVars, gatewayVars>>

(* The process ends at any point of a run.                                 *)
Crash(w) ==
  /\ pc[w] \notin {"idle", "down"}
  /\ Drop(w, "down")
  /\ UNCHANGED <<engineVars, queueVars, evidenceVars, recordVars, gatewayVars>>

(* A replacement process with the same worker id.                          *)
Restart(w) ==
  /\ At(w, "down")
  /\ Drop(w, "idle")
  /\ UNCHANGED <<engineVars, queueVars, evidenceVars, recordVars, gatewayVars>>

WorkerStep(w) ==
  \/ ClaimNext(w)       \/ Start(w)          \/ Begin(w)
  \/ ExecuteMission(w)  \/ Reread(w)         \/ Checkpoint(w)
  \/ RecordArtifact(w)  \/ AppendEvidence(w) \/ RecordEffect(w)
  \/ Settle(w)          \/ CompleteMission(w) \/ LinkToJob(w)
  \/ Weigh(w)           \/ EvaluateMission(w) \/ Reflect(w)
  \/ LearnFromMission(w) \/ RecordLesson(w)
  \/ Finish(w)          \/ Fail(w)

-----------------------------------------------------------------------------
(* The gateway: one request at a time.                                     *)

GatewayFree == asked = {}

(* Requests that are one engine transaction.                               *)
EngineRequest(m) ==
  /\ GatewayFree
  /\ \/ CreateMission(m)
     \/ ValidateMission(m)
     \/ PlanMission(m)
     \/ RequestApproval(m)
     \/ \E d \in {"approved", "rejected"} : DecideApproval(m, d)
     \/ AssignAgent(m)
     \/ Evaluate(m)
     \/ LearnCapability(m)
  /\ UNCHANGED <<queueVars, evidenceVars, workerVars, recordVars, gatewayVars>>

(* executeMission: the mission is read and must be queued ...              *)
AskExecute(m, j) ==
  /\ GatewayFree
  /\ mission[m] = "queued"
  /\ asked' = {<<m, j>>}
  /\ UNCHANGED <<requeues, engineVars, queueVars, evidenceVars, workerVars,
                 recordVars>>

(* ... and the job is inserted, or found, in a later transaction, with the *)
(* limit of the request's body.                                            *)
EnqueueAsked(m, j) ==
  /\ <<m, j>> \in asked
  /\ \E n \in Limits : Enqueue(j, m, n)
  /\ asked' = {}
  /\ UNCHANGED <<requeues, engineVars, evidenceVars, workerVars, recordVars>>

(* The gateway restarts between the two.                                   *)
GatewayCrash ==
  /\ ~ GatewayFree
  /\ asked' = {}
  /\ UNCHANGED <<requeues, engineVars, queueVars, evidenceVars, workerVars,
                 recordVars>>

Cancel(m) ==
  /\ GatewayFree
  /\ CancelMission(m)
  /\ CancelJobs(m)
  /\ UNCHANGED <<evidenceVars, workerVars, recordVars, gatewayVars>>

(* A mutant: a requeue without its trigger, which revives the mission.     *)
Requeue_NoTrigger(j) ==
  /\ GatewayFree
  /\ requeues < MaxRequeues
  /\ RequeueJob(j)
  /\ requeues' = requeues + 1
  /\ UNCHANGED <<asked, engineVars, evidenceVars, workerVars, recordVars>>

Requeue(j) ==
  /\ GatewayFree
  /\ requeues < MaxRequeues
  /\ RequeueJob(j)
  /\ RequeueMission(jobMission[j])
  /\ requeues' = requeues + 1
  /\ UNCHANGED <<asked, evidenceVars, workerVars, recordVars>>

(* A mutant: a repeated upload reuses the id of the first.                 *)
Upload_SameId(e, m) ==
  /\ GatewayFree
  /\ mission[m] # "absent"
  /\ Len(LastHash(m)) < 4
  /\ WriteArtifact(e)
  /\ AppendRow(e, m)
  /\ UNCHANGED <<engineVars, queueVars, workerVars, recordVars, gatewayVars>>

(* POST .../evidence asks nothing of the mission but that it exists.       *)
Upload(e, m) ==
  /\ GatewayFree
  /\ mission[m] # "absent"
  /\ e \notin Recorded
  /\ WriteArtifact(e)
  /\ AppendRow(e, m)
  /\ UNCHANGED <<engineVars, queueVars, workerVars, recordVars, gatewayVars>>

(* An operator service drives its missions through the engine, without a   *)
(* job: execute when queued, complete when running.                        *)
Operate(m) ==
  /\ GatewayFree
  /\ Execute(m) \/ Complete(m)
  /\ UNCHANGED <<queueVars, evidenceVars, workerVars, recordVars, gatewayVars>>

GatewayStep ==
  \/ \E m \in Missions : EngineRequest(m) \/ Cancel(m)
  \/ \E k \in ClientKeys : AskExecute(k[1], k[2]) \/ EnqueueAsked(k[1], k[2])
  \/ GatewayCrash
  \/ \E j \in Jobs : Requeue(j)
  \/ \E e \in Uploads, m \in Missions : Upload(e, m)
  \/ \E m \in OperatorMissions : Operate(m)

(* Time.                                                                   *)
Tick(j) ==
  /\ LeaseLapse(j) \/ BackoffElapse(j)
  /\ UNCHANGED <<engineVars, evidenceVars, workerVars, recordVars, gatewayVars>>

Next ==
  \/ \E w \in Workers : WorkerStep(w) \/ Crash(w) \/ Restart(w)
  \/ GatewayStep
  \/ \E j \in Jobs : Tick(j)

Spec == Init /\ [][Next]_vars

(* Workers run and are replaced, leases and backoffs end by the clock; the  *)
(* gateway and its clients owe nothing.                                    *)
FairSpec ==
  /\ Spec
  /\ \A w \in Workers : WF_vars(WorkerStep(w)) /\ WF_vars(Restart(w))
  /\ \A j \in Jobs : WF_vars(Tick(j))

-----------------------------------------------------------------------------
JobsOf(m) == {j \in Jobs : jobMission[j] = m}

(* A completed job is a finished delivery, whichever crashes and retries   *)
(* led to it: its mission is learned, and its evidence, artifact, effect   *)
(* and lesson are all stored and about that mission.                       *)
CompletedJobIsProven ==
  \A j \in Jobs : jobStatus[j] = "completed" =>
    /\ mission[jobMission[j]] = "learned"
    /\ j \in effects \cap lessons \cap artifacts \cap Recorded
    /\ evidence[j].mission = jobMission[j]

(* What the runtime delivered it can show: a completed outcome of a        *)
(* mission no operator service ran has a job of that mission with effect   *)
(* and evidence, and the outcome names no other job.                       *)
OutcomeHasEvidence ==
  \A m \in Missions \ OperatorMissions : outcomes[m] > 0 =>
    /\ JobsOf(m) \cap effects \cap Recorded # {}
    /\ outcomeJob[m] \in (JobsOf(m) \cap effects) \cup {NoJob}

(* No mission is stranded: one that is running, or queued with jobs, has a *)
(* job a worker may still take or is working on.  Leases expire, attempts  *)
(* run out, late workers move the mission on and operators cancel and      *)
(* requeue; none of it may leave a mission nobody will ever finish.        *)
NoStrandedMission ==
  \A m \in Missions \ OperatorMissions :
    \/ mission[m] = "running"
    \/ mission[m] = "queued" /\ JobsOf(m) # {}
    => \E j \in JobsOf(m) : jobStatus[j] \in Live

(* A failed mission can be recovered: it has a failed job to requeue.      *)
FailedMissionIsRecoverable ==
  \A m \in Missions : mission[m] = "failed" =>
    \E j \in JobsOf(m) : jobStatus[j] = "failed"

(* An attempt is ended by the worker that makes it or by its expired       *)
(* lease, or cancelled; a worker that was overtaken does not end the       *)
(* attempt of its successor, although it fails or finishes the same job.   *)
EndedByItsWorker ==
  [][ \A j \in Jobs :
        /\ jobStatus[j] \in UnderWork
        /\ jobStatus'[j] \notin UnderWork \cup {"cancelled"}
        => \/ lapsed[j]
           \/ \E w \in Workers :
                owner[j] = w /\ held[w] = j /\ pc[w] \in {"finish", "failing"}
    ]_vars

(* Every job of finite limit settles: once operators stop requeueing, it   *)
(* is completed, failed or cancelled for good, however often workers crash.*)
JobsSettle ==
  \A j \in Jobs : <>[](jobStatus[j] \notin Live \/ limit[j] = Unlimited)

(* A mission that was handed to the workers does not hang.                 *)
LeftToWorkers(m) ==
  /\ mission[m] \in {"queued", "running"} /\ JobsOf(m) # {}
  /\ \A j \in JobsOf(m) : limit[j] # Unlimited

NoMissionHangs ==
  \A m \in Missions \ OperatorMissions :
    LeftToWorkers(m) ~> mission[m] \notin {"queued", "running"}

=============================================================================
