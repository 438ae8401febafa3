------------------------------- MODULE JobQueue -------------------------------
(***************************************************************************)
(* The durable job queue of runtime/missions/jobs.js (class JobQueue) over *)
(* the jobs table, its requeue trigger and the job half of cancelMission.  *)
(* Every operation is one BEGIN IMMEDIATE ... COMMIT transaction or one    *)
(* autocommitted UPDATE, hence one action.                                 *)
(*                                                                         *)
(* Time is abstracted to the two comparisons the code makes with now():    *)
(* lapsed[j] is lease_expires_at <= now, due[j] is available_at <= now.    *)
(* LeaseLapse and BackoffElapse are the passage of time.                   *)
(***************************************************************************)
EXTENDS MissionIds, Integers

CONSTANTS Limits,    \* what clients send as max_attempts
          Unlimited  \* the limit Infinity

(* A limit is any number a client sends.  attempts is whole and at least 1 *)
(* when it is compared, so a fraction limits like the next integer above   *)
(* it, and all limits below 1 alike, but for 0 itself, which like no       *)
(* number at all is stored as the default 3: the integers stand for all.   *)
ASSUME LimitsAssumption ==
  Unlimited \notin Int /\ Limits \subseteq Int \cup {Unlimited}

VARIABLES jobStatus,   \* jobs.status, or "absent" before the INSERT
          jobMission,  \* jobs.mission_id
          attempts,    \* jobs.attempts
          limit,       \* jobs.max_attempts
          owner,       \* jobs.lease_owner
          lapsed,      \* jobs.lease_expires_at is set and in the past
          due          \* jobs.available_at is in the past

queueVars == <<jobStatus, jobMission, attempts, limit, owner, lapsed, due>>

JobStates == { "queued", "leased", "running", "completed",
               "retryable", "failed", "cancelled" }

Live      == {"queued", "retryable", "leased", "running"}
Leasable  == {"queued", "retryable"}
UnderWork == {"leased", "running"}

DefaultLimit == 3

QueueInit ==
  /\ jobStatus  = [j \in Jobs |-> "absent"]
  /\ jobMission = [j \in Jobs |-> NoMission]
  /\ attempts   = [j \in Jobs |-> 0]
  /\ limit      = [j \in Jobs |-> DefaultLimit]
  /\ owner      = [j \in Jobs |-> NoWorker]
  /\ lapsed     = [j \in Jobs |-> FALSE]
  /\ due        = [j \in Jobs |-> FALSE]

QueueTypeOK ==
  /\ jobStatus  \in [Jobs -> JobStates \cup {"absent"}]
  /\ jobMission \in [Jobs -> Missions \cup {NoMission}]
  /\ attempts   \in [Jobs -> Nat]
  /\ limit      \in [Jobs -> Int \cup {Unlimited}]
  /\ owner      \in [Jobs -> Workers \cup {NoWorker}]
  /\ lapsed     \in [Jobs -> BOOLEAN]
  /\ due        \in [Jobs -> BOOLEAN]

-----------------------------------------------------------------------------
(* The queue's operations.                                                 *)

(* enqueue: a key that exists already returns its row and writes nothing.  *)
Enqueue(j, m, n) ==
  IF jobStatus[j] # "absent" THEN UNCHANGED queueVars ELSE
  /\ jobStatus'  = [jobStatus  EXCEPT ![j] = "queued"]
  /\ jobMission' = [jobMission EXCEPT ![j] = m]
  /\ limit'      = [limit      EXCEPT ![j] = IF n = 0 THEN DefaultLimit ELSE n]
  /\ due'        = [due        EXCEPT ![j] = TRUE]
  /\ UNCHANGED <<attempts, owner, lapsed>>

(* The comparison of fail and of recoverExpired; it is false for Infinity. *)
Reached(n, max) == max # Unlimited /\ n >= max

(* A mutant: recovery only looks at jobs that were never started.          *)
Expired_Leased == {j \in Jobs : jobStatus[j] = "leased" /\ lapsed[j]}

(* The leases recoverExpired finds, and those of them that are out of      *)
(* attempts.                                                               *)
Expired   == {j \in Jobs : jobStatus[j] \in UnderWork /\ lapsed[j]}
Exhausted == {j \in Expired : Reached(attempts[j], limit[j])}
Claimable == {j \in Jobs : jobStatus[j] \in Leasable /\ due[j]}

(* claim: the recovery and the lease are one transaction.  A job it has    *)
(* just recovered is not due, so the pick is from the state before.  The   *)
(* order of the candidates (available_at, created_at) is left open.        *)
Picks == IF Claimable = {} THEN {NoJob} ELSE Claimable

Claim(w, pick) ==
  /\ jobStatus' = [j \in Jobs |-> CASE j = pick        -> "leased"
                                    [] j \in Exhausted -> "failed"
                                    [] j \in Expired \ Exhausted -> "retryable"
                                    [] OTHER           -> jobStatus[j]]
  /\ attempts' = [j \in Jobs |-> attempts[j] + IF j = pick THEN 1 ELSE 0]
  /\ owner'    = [j \in Jobs |-> CASE j = pick      -> w
                                   [] j \in Expired -> NoWorker
                                   [] OTHER         -> owner[j]]
  /\ lapsed'   = [j \in Jobs |-> lapsed[j] /\ j \notin Expired \cup {pick}]
  /\ due'      = [j \in Jobs |-> due[j] /\ j \notin Expired \ Exhausted]
  /\ UNCHANGED <<jobMission, limit>>

(* A mutant: the job must be leased, but not to the caller.                *)
Owns_Anyone(w, j) == owner[j] # NoWorker

Owns(w, j) == owner[j] = w

StartJob(w, j) ==
  /\ jobStatus[j] = "leased" /\ Owns(w, j)
  /\ jobStatus' = [jobStatus EXCEPT ![j] = "running"]
  /\ lapsed'    = [lapsed    EXCEPT ![j] = FALSE]
  /\ UNCHANGED <<jobMission, attempts, limit, owner, due>>

(* heartbeat reports a lost lease in its result, which its caller ignores. *)
Heartbeat(w, j) ==
  /\ lapsed' = [lapsed EXCEPT
                  ![j] = @ /\ ~(jobStatus[j] \in UnderWork /\ Owns(w, j))]
  /\ UNCHANGED <<jobStatus, jobMission, attempts, limit, owner, due>>

(* A mutant: the owner stays on the row.                                   *)
Release_KeepOwner(j, status) ==
  /\ jobStatus' = [jobStatus EXCEPT ![j] = status]
  /\ owner'     = owner
  /\ lapsed'    = [lapsed    EXCEPT ![j] = FALSE]

Release(j, status) ==
  /\ jobStatus' = [jobStatus EXCEPT ![j] = status]
  /\ owner'     = [owner     EXCEPT ![j] = NoWorker]
  /\ lapsed'    = [lapsed    EXCEPT ![j] = FALSE]

CompleteJob(w, j) ==
  /\ jobStatus[j] = "running" /\ Owns(w, j)
  /\ Release(j, "completed")
  /\ UNCHANGED <<jobMission, attempts, limit, due>>

(* A mutant: off by one, the last attempt is retried once more.            *)
OutOfAttempts_Late(j) == Reached(attempts[j] - 1, limit[j])

OutOfAttempts(j) == Reached(attempts[j], limit[j])

(* fail asks for the owner only, not for the status.                       *)
FailJob(w, j) ==
  /\ Owns(w, j)
  /\ Release(j, IF OutOfAttempts(j) THEN "failed" ELSE "retryable")
  /\ due' = [due EXCEPT ![j] = @ /\ OutOfAttempts(j)]
  /\ UNCHANGED <<jobMission, attempts, limit>>

(* requeue with its trigger trg_jobs_safe_requeue, which resets the count. *)
RequeueJob(j) ==
  /\ jobStatus[j] \in {"failed", "retryable"}
  /\ Release(j, "queued")
  /\ attempts' = [attempts EXCEPT ![j] = 0]
  /\ due'      = [due      EXCEPT ![j] = TRUE]
  /\ UNCHANGED <<jobMission, limit>>

(* A mutant: the cancellation leaves the lease of a leased job in place.   *)
CancelJobs_KeepOwner(m) ==
  LET hit == {j \in Jobs : jobMission[j] = m
                        /\ jobStatus[j] \in Leasable \cup {"leased"}}
  IN /\ jobStatus' = [j \in Jobs |-> IF j \in hit THEN "cancelled"
                                                  ELSE jobStatus[j]]
     /\ UNCHANGED <<jobMission, attempts, limit, owner, lapsed, due>>

(* The job half of cancelMission: a running job is left to its worker.     *)
CancelJobs(m) ==
  LET hit == {j \in Jobs : jobMission[j] = m
                        /\ jobStatus[j] \in Leasable \cup {"leased"}}
  IN /\ jobStatus' = [j \in Jobs |-> IF j \in hit THEN "cancelled"
                                                  ELSE jobStatus[j]]
     /\ owner'     = [j \in Jobs |-> IF j \in hit THEN NoWorker ELSE owner[j]]
     /\ lapsed'    = [j \in Jobs |-> lapsed[j] /\ j \notin hit]
     /\ UNCHANGED <<jobMission, attempts, limit, due>>

(* Time passes: a lease runs out, a backoff is over.                       *)
LeaseLapse(j) ==
  /\ jobStatus[j] \in UnderWork
  /\ lapsed' = [lapsed EXCEPT ![j] = TRUE]
  /\ UNCHANGED <<jobStatus, jobMission, attempts, limit, owner, due>>

BackoffElapse(j) ==
  /\ jobStatus[j] \in Leasable
  /\ due' = [due EXCEPT ![j] = TRUE]
  /\ UNCHANGED <<jobStatus, jobMission, attempts, limit, owner, lapsed>>

-----------------------------------------------------------------------------
(* The queue on its own: every operation by any caller, in any order.      *)

QueueNext ==
  \/ \E j \in Jobs :
       \/ \E m \in Missions, n \in Limits : Enqueue(j, m, n)
       \/ RequeueJob(j)
       \/ LeaseLapse(j)
       \/ BackoffElapse(j)
       \/ \E w \in Workers :
            \/ StartJob(w, j)
            \/ Heartbeat(w, j)
            \/ CompleteJob(w, j)
            \/ FailJob(w, j)
  \/ \E w \in Workers, pick \in Picks : Claim(w, pick)
  \/ \E m \in Missions : CancelJobs(m)

QueueSpec == QueueInit /\ [][QueueNext]_queueVars

-----------------------------------------------------------------------------
(* A lease is held exactly by the jobs under work, and only those can have *)
(* an expired one.  fail asks for the owner alone (start and complete for  *)
(* the status too), so a stale owner on a finished or cancelled job would  *)
(* let a late worker fail() it back to life.                               *)
LeaseMatchesStatus ==
  \A j \in Jobs :
    /\ owner[j] # NoWorker <=> jobStatus[j] \in UnderWork
    /\ lapsed[j] => jobStatus[j] \in UnderWork

(* max_attempts, whatever the client sent, is a bound on claims between    *)
(* two requeues, whichever of fail and recoverExpired ends each attempt.   *)
(* It is only looked at after an attempt, so there is always a first one;  *)
(* any further attempt starts below the limit, and a job waits for one     *)
(* only while it has one left.                                             *)
AttemptsBounded ==
  \A j \in Jobs :
    /\ attempts[j] > 1 => ~ Reached(attempts[j] - 1, limit[j])
    /\ jobStatus[j] \in Leasable =>
         attempts[j] = 0 \/ ~ Reached(attempts[j], limit[j])

(* A finished or cancelled job is final: neither a late fail() of its      *)
(* former worker nor a lease recovery nor a requeue reopens it.            *)
FinalIsFinal ==
  [][ \A j \in Jobs :
        jobStatus[j] \in {"completed", "cancelled"}
          => jobStatus'[j] = jobStatus[j] ]_queueVars

=============================================================================
