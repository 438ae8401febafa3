------------------------------ MODULE MissionIds ------------------------------
(***************************************************************************)
(* The identities the modules of the mission runtime share, for one        *)
(* organization: every query of the runtime is scoped to one.              *)
(***************************************************************************)

CONSTANTS Missions,   \* mission rows
          Jobs,       \* job rows, named by their idempotency key
          Workers,    \* worker ids (CYVX_WORKER_ID)
          NoJob,      \* SQL NULL in a job column
          NoMission,  \* the mission of a job row that does not exist
          NoWorker    \* SQL NULL in jobs.lease_owner

ASSUME NullAssumption ==
  /\ NoJob     \notin Jobs
  /\ NoMission \notin Missions
  /\ NoWorker  \notin Workers

=============================================================================
