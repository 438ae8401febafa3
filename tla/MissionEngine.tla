---------------------------- MODULE MissionEngine ----------------------------
(***************************************************************************)
(* The mission engine (core/missions/mission_engine.js) over the SQLite    *)
(* store (runtime/missions/store.js).  Every operation is one              *)
(* BEGIN IMMEDIATE ... COMMIT transaction: a rejected operation throws and *)
(* is rolled back, so it is simply not enabled here.                       *)
(*                                                                         *)
(* The module also holds the three places that write a mission's status    *)
(* without the engine: cancelMission of the HTTP runtime, missionFailure   *)
(* of the job queue and the requeue trigger of the schema.                 *)
(*                                                                         *)
(* Abstracted: titles, plans, metrics, events and audit rows; the assigned *)
(* agent's name; infeasible validations (they throw).                      *)
(***************************************************************************)
EXTENDS MissionIds, MissionLifecycle, Naturals

VARIABLES mission,      \* missions.status, or "absent" before createMission
          approval,     \* approvals.status of the mission's approval record
          outcomes,     \* number of outcome rows with status 'completed'
          outcomeJob,   \* outcomes.job_id of that row
          capabilities  \* number of capability rows learned from the mission

engineVars == <<mission, approval, outcomes, outcomeJob, capabilities>>

EngineInit ==
  /\ mission      = [m \in Missions |-> "absent"]
  /\ approval     = [m \in Missions |-> "none"]
  /\ outcomes     = [m \in Missions |-> 0]
  /\ outcomeJob   = [m \in Missions |-> NoJob]
  /\ capabilities = [m \in Missions |-> 0]

EngineTypeOK ==
  /\ mission      \in [Missions -> MissionStates \cup {"absent"}]
  /\ approval     \in [Missions -> {"none", "pending", "approved", "rejected"}]
  /\ outcomes     \in [Missions -> Nat]
  /\ outcomeJob   \in [Missions -> Jobs \cup {NoJob}]
  /\ capabilities \in [Missions -> Nat]

-----------------------------------------------------------------------------
(* The engine's operations.                                                *)

SetStatus(m, s) == mission' = [mission EXCEPT ![m] = s]

(* _transitionMission: refuses whatever the table does not list.           *)
Transition(m, to) ==
  /\ CanTransition(mission[m], to)
  /\ SetStatus(m, to)

CreateMission(m) ==
  /\ mission[m] = "absent"
  /\ SetStatus(m, "draft")
  /\ UNCHANGED <<approval, outcomes, outcomeJob, capabilities>>

ValidateMission(m) ==
  /\ Transition(m, "validated")
  /\ UNCHANGED <<approval, outcomes, outcomeJob, capabilities>>

PlanMission(m) ==
  /\ Transition(m, "planned")
  /\ UNCHANGED <<approval, outcomes, outcomeJob, capabilities>>

RequestApproval(m) ==
  /\ Transition(m, "awaiting_approval")
  /\ approval' = [approval EXCEPT ![m] = "pending"]
  /\ UNCHANGED <<outcomes, outcomeJob, capabilities>>

(* A mutant: the decision is stored and only an approval consults the      *)
(* table.                                                                  *)
DecideApproval_Unchecked(m, decision) ==
  /\ approval[m] # "none"
  /\ approval' = [approval EXCEPT ![m] = decision]
  /\ IF decision = "approved" THEN Transition(m, "approved")
                              ELSE UNCHANGED mission
  /\ UNCHANGED <<outcomes, outcomeJob, capabilities>>

(* A mutant: the decision's effect on the mission is a plain assignment.   *)
DecideApproval_Assign(m, decision) ==
  /\ approval[m] # "none"
  /\ approval' = [approval EXCEPT ![m] = decision]
  /\ SetStatus(m, IF decision = "approved" THEN "approved" ELSE "cancelled")
  /\ UNCHANGED <<outcomes, outcomeJob, capabilities>>

(* decideApproval does not ask whether the record was already decided: a   *)
(* second decision passes whenever the table allows the mission's move.    *)
DecideApproval(m, decision) ==
  /\ approval[m] # "none"
  /\ approval' = [approval EXCEPT ![m] = decision]
  /\ Transition(m, IF decision = "approved" THEN "approved" ELSE "cancelled")
  /\ UNCHANGED <<outcomes, outcomeJob, capabilities>>

AssignAgent(m) ==
  /\ mission[m] = "approved"
  /\ Transition(m, "queued")
  /\ UNCHANGED <<approval, outcomes, outcomeJob, capabilities>>

Execute(m) ==
  /\ mission[m] = "queued"
  /\ Transition(m, "running")
  /\ UNCHANGED <<approval, outcomes, outcomeJob, capabilities>>

(* The unique index on completed outcomes rejects a second row, which rolls *)
(* the whole transaction back.                                             *)
CanComplete(m) ==
  /\ mission[m] \in {"running", "paused"}
  /\ outcomes[m] = 0
  /\ CanTransition(mission[m], "completed")

Complete(m) ==
  /\ CanComplete(m)
  /\ outcomes'   = [outcomes EXCEPT ![m] = @ + 1]
  /\ outcomeJob' = [outcomeJob EXCEPT ![m] = NoJob]
  /\ Transition(m, "completed")
  /\ UNCHANGED <<approval, capabilities>>

(* fail() also lists "queued", which the table then refuses.               *)
FailMission(m) ==
  /\ mission[m] \in {"running", "queued"}
  /\ Transition(m, "failed")
  /\ UNCHANGED <<approval, outcomes, outcomeJob, capabilities>>

Evaluate(m) ==
  /\ mission[m] \in {"completed", "failed", "cancelled"}
  /\ Transition(m, "evaluated")
  /\ UNCHANGED <<approval, outcomes, outcomeJob, capabilities>>

LearnCapability(m) ==
  /\ mission[m] = "evaluated"
  /\ SetStatus(m, "learned")
  /\ capabilities' = [capabilities EXCEPT ![m] = @ + 1]
  /\ UNCHANGED <<approval, outcomes, outcomeJob>>

-----------------------------------------------------------------------------
(* Writers of missions.status and outcomes that bypass the engine.         *)

(* The worker's UPDATE outcomes SET job_id after engine.complete.          *)
LinkOutcome(m, j) ==
  /\ outcomeJob' = [outcomeJob EXCEPT ![m] = j]
  /\ UNCHANGED <<mission, approval, outcomes, capabilities>>

CancelMission(m) ==
  /\ Transition(m, "cancelled")
  /\ UNCHANGED <<approval, outcomes, outcomeJob, capabilities>>

Interruptible == {"queued", "running", "blocked", "paused"}

(* A mutant: only missions that are over are spared.                       *)
MissionFailure_Completed(S) ==
  /\ mission' = [m \in Missions |->
                   IF m \in S /\ mission[m] \in Interruptible \cup {"completed"}
                     THEN "failed" ELSE mission[m]]
  /\ UNCHANGED <<approval, outcomes, outcomeJob, capabilities>>

(* missionFailure for every mission of S, in the transaction of the queue. *)
MissionFailure(S) ==
  /\ mission' = [m \in Missions |->
                   IF m \in S /\ mission[m] \in Interruptible
                     THEN "failed" ELSE mission[m]]
  /\ UNCHANGED <<approval, outcomes, outcomeJob, capabilities>>

(* A mutant: the trigger also revives a cancelled mission.                 *)
RequeueMission_Revive(m) ==
  /\ mission' = [mission EXCEPT ![m] = IF @ \in {"failed", "cancelled"}
                                         THEN "queued" ELSE @]
  /\ UNCHANGED <<approval, outcomes, outcomeJob, capabilities>>

(* trg_jobs_safe_requeue: a failed mission is queued again.                *)
RequeueMission(m) ==
  /\ mission' = [mission EXCEPT ![m] = IF @ = "failed" THEN "queued" ELSE @]
  /\ UNCHANGED <<approval, outcomes, outcomeJob, capabilities>>

-----------------------------------------------------------------------------
(* The store on its own: any caller, any order.  A worker links only the   *)
(* outcome it has just completed.                                          *)

EngineNext ==
  \/ \E m \in Missions :
       \/ CreateMission(m)
       \/ ValidateMission(m)
       \/ PlanMission(m)
       \/ RequestApproval(m)
       \/ \E d \in {"approved", "rejected"} : DecideApproval(m, d)
       \/ AssignAgent(m)
       \/ Execute(m)
       \/ Complete(m)
       \/ FailMission(m)
       \/ Evaluate(m)
       \/ LearnCapability(m)
       \/ CancelMission(m)
       \/ RequeueMission(m)
       \/ outcomes[m] > 0 /\ \E j \in Jobs : LinkOutcome(m, j)
  \/ \E S \in SUBSET Missions : MissionFailure(S)

EngineSpec == EngineInit /\ [][EngineNext]_engineVars

-----------------------------------------------------------------------------
(* No work without consent: from approval to completion the mission's      *)
(* approval record says "approved".  decideApproval, the requeue trigger   *)
(* and missionFailure move the mission behind one another's back, and a    *)
(* late rejection may arrive at any of those states.                       *)
ApprovedBeforeWork ==
  \A m \in Missions :
    mission[m] \in {"approved", "queued", "running", "completed"}
      => approval[m] = "approved"

(* A mission with a completed outcome is past execution for good: neither  *)
(* an exhausted job nor a requeue may put it back in front of a worker.    *)
OutcomeMeansFinished ==
  \A m \in Missions :
    outcomes[m] > 0 => mission[m] \in {"completed", "evaluated", "learned"}

(* One capability per learned mission, none for any other.                 *)
OneCapability ==
  \A m \in Missions :
    capabilities[m] = IF mission[m] = "learned" THEN 1 ELSE 0

(* A cancelled mission is never worked on again: it can only be evaluated  *)
(* and learned from, whatever is requeued or decided later.                *)
CancelledStaysCancelled ==
  [][ \A m \in Missions :
        mission[m] = "cancelled" => mission'[m] \in {"cancelled", "evaluated"}
    ]_engineVars

(* A rejection is final: no later decision turns the record to approved.   *)
RejectionIsFinal ==
  [][ \A m \in Missions :
        approval[m] = "rejected" => approval'[m] = "rejected" ]_engineVars

(* The engine implements MissionContract.  A mission with an outcome was   *)
(* delivered, whatever became of it since; the status decides among the    *)
(* other ends, and the approval record whether work was ever cleared.      *)
Phase(m) ==
  CASE outcomes[m] > 0                          -> "delivered"
    [] outcomes[m] = 0 /\ mission[m] = "cancelled" -> "withdrawn"
    [] outcomes[m] = 0 /\ mission[m] \in {"evaluated", "learned"} -> "closed"
    [] OTHER -> IF approval[m] = "approved" THEN "cleared" ELSE "open"

Contract == INSTANCE MissionContract
              WITH phase  <- [m \in Missions |-> Phase(m)],
                   banked <- capabilities

(* Delivered at most once, only after consent, never after an end; learned *)
(* from at most once: see MissionContract.                                 *)
ImplementsContract == Contract!Spec

=============================================================================
