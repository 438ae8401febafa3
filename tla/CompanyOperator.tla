---------------------------- MODULE CompanyOperator ----------------------------
(***************************************************************************)
(* services/operator/index.js (CompanyOperator): a company is approved by  *)
(* its owner through a mission of the engine, its operator then executes a *)
(* fixed plan of actions, one per tick, and closes the mission.            *)
(*                                                                         *)
(* A company is named by its mission.  The operator's handlers are         *)
(* synchronous, but they call the engine and write their own tables in     *)
(* separate transactions: a crash leaves a prefix.  The mission is an      *)
(* ordinary one, open to every other caller of the engine in between.      *)
(*                                                                         *)
(* Abstracted: the contract's numbers (its evaluation is an input of the   *)
(* step that consults it), artifacts, leads, ticks and audit rows.  The    *)
(* approval of single actions is left out: every action buildActionPlan    *)
(* writes is free and needs none, so no code reaches it.                   *)
(***************************************************************************)
EXTENDS MissionEngine, Sequences

CONSTANTS PlanLength,  \* actions in buildActionPlan
          Faults       \* of "crash", "late" and "torn"

ASSUME PlanAssumption == PlanLength \in Nat \ {0}

VARIABLES company,     \* operator_companies.status
          activation,  \* operator_companies.activation_status
          plan         \* operator_actions.status, by sequence

operatorVars == <<company, activation, plan>>

Steps == 1..PlanLength

ActionStates == {"pending", "running", "completed", "failed", "blocked"}

OperatorInit ==
  /\ EngineInit
  /\ company    = [m \in Missions |-> "absent"]
  /\ activation = [m \in Missions |-> "planned"]
  /\ plan       = [m \in Missions |-> [s \in Steps |-> "pending"]]

OperatorTypeOK ==
  /\ EngineTypeOK
  /\ company    \in [Missions -> {"absent", "awaiting_approval", "active",
                                  "paused", "stopped", "completed"}]
  /\ activation \in [Missions -> {"planned", "queued", "running", "learned"}]
  /\ plan       \in [Missions -> [Steps -> ActionStates]]

-----------------------------------------------------------------------------
(* The owner's side.                                                       *)

(* createCompany: create, validate, plan and submit the mission, then the  *)
(* company's rows, with every action pending.                              *)
CreateCompany(m) ==
  /\ mission[m] = "absent"
  /\ SetStatus(m, "awaiting_approval")
  /\ approval' = [approval EXCEPT ![m] = "pending"]
  /\ company'  = [company EXCEPT ![m] = "awaiting_approval"]
  /\ UNCHANGED <<outcomes, outcomeJob, capabilities, activation, plan>>

ApprovalWrites == <<"decision", "assignment", "company">>

(* approveCompany: decideApproval, assignAgent and the company's own row,  *)
(* of which the first n were written.                                      *)
ApproveCompany(m, n) ==
  /\ company[m] = "awaiting_approval"
  /\ approval[m] # "none" /\ CanTransition(mission[m], "approved")
  /\ approval' = [approval EXCEPT ![m] = "approved"]
  /\ SetStatus(m, IF n = 1 THEN "approved" ELSE "queued")
  /\ company'    = [company    EXCEPT ![m] = IF n >= 3 THEN "active" ELSE @]
  /\ activation' = [activation EXCEPT ![m] = IF n >= 3 THEN "queued" ELSE @]
  /\ UNCHANGED <<outcomes, outcomeJob, capabilities, plan>>

Commands ==
  ({"active"} \X {"paused"}) \cup ({"paused"} \X {"active"})
  \cup ({"active", "paused", "awaiting_approval"} \X {"stopped"})

ControlCompany(m, to) ==
  /\ <<company[m], to>> \in Commands
  /\ company' = [company EXCEPT ![m] = to]
  /\ UNCHANGED <<engineVars, activation, plan>>

(* applyContractTerminal: what the three terminal verdicts do.             *)
Ends == {"completed", "stopped", "paused"}

(* recordMetric re-evaluates the contract of a company in any status, the  *)
(* stopped and the unapproved included; runTick and recordLead do so for   *)
(* an active one.                                                          *)
EvaluateContract(m, end) ==
  /\ company[m] # "absent"
  /\ company' = [company EXCEPT ![m] = end]
  /\ UNCHANGED <<engineVars, activation, plan>>

-----------------------------------------------------------------------------
(* runTick of an active company whose contract is still open.              *)

Pending(m) == {s \in Steps : plan[m][s] = "pending"}

FirstPending(m) == CHOOSE s \in Pending(m) : \A t \in Pending(m) : s <= t

(* A mutant: the mission's status is taken as it is.                       *)
Executable_Any == MissionStates

Executable == {"running", "completed", "evaluated", "learned"}

(* The mission the tick works under: a queued one is executed first.       *)
Begun(m) == IF mission[m] = "queued" THEN "running" ELSE mission[m]

Begins(m) ==
  activation' = [activation EXCEPT ![m] =
                   IF mission[m] = "queued" THEN "running" ELSE @]

MayTick(m) == company[m] = "active" /\ Begun(m) \in Executable

(* The next action is prohibited, or does not fit the budget (paused).     *)
TickBlocked(m, next) ==
  /\ MayTick(m) /\ Pending(m) # {}
  /\ plan'    = [plan    EXCEPT ![m][FirstPending(m)] = "blocked"]
  /\ company' = [company EXCEPT ![m] = next]
  /\ SetStatus(m, Begun(m)) /\ Begins(m)
  /\ UNCHANGED <<approval, outcomes, outcomeJob, capabilities>>

(* The action is executed: it succeeds, throws, or the process stops in    *)
(* the middle of it.  The last action of a plan is TickFinalized's first   *)
(* half; stopping between the two leaves the second to a later tick.       *)
TickActed(m, result) ==
  /\ MayTick(m) /\ Pending(m) # {}
  /\ result = "running" => "crash" \in Faults
  /\ plan'    = [plan    EXCEPT ![m][FirstPending(m)] = result]
  /\ company' = [company EXCEPT ![m] = IF result = "failed" THEN "paused" ELSE @]
  /\ SetStatus(m, Begun(m)) /\ Begins(m)
  /\ UNCHANGED <<approval, outcomes, outcomeJob, capabilities>>

Closing == <<"running", "completed", "evaluated", "learned">>

(* Where closing a mission may stop: at its end, earlier if it crashes; a  *)
(* mission in another state is not moved at all.                           *)
ClosedAt(status) ==
  IF \E i \in 1..4 : Closing[i] = status
    THEN {Closing[j] : j \in {j \in 1..4 :
            /\ \E i \in 1..j : Closing[i] = status
            /\ j = 4 \/ "crash" \in Faults}}
    ELSE {status}

PlanDone(m) == \A s \in Steps : plan[m][s] = "completed"

(* finalizeActivation: complete, evaluate and learn, as far as is missing. *)
(* Only a plan that was completed is closed, but a mission learned by some *)
(* other caller is taken for activated whatever the plan.                  *)
FinalizeActivation(m, status, last) ==
  /\ status \notin {"failed", "cancelled"}
  /\ PlanDone(m) \/ status = "learned"
  /\ last \in ClosedAt(status)
  /\ SetStatus(m, last)
  /\ outcomes' = [outcomes EXCEPT ![m] =
                    IF status = "running" /\ last # status THEN @ + 1 ELSE @]
  /\ capabilities' = [capabilities EXCEPT ![m] =
                    IF last = "learned" /\ last # status THEN @ + 1 ELSE @]
  /\ IF last \in {"running", "completed", "evaluated"}
       THEN Begins(m)
       ELSE activation' = [activation EXCEPT ![m] = "learned"]
  /\ UNCHANGED <<approval, outcomeJob, company, plan>>

(* By a tick without an action left, or by runToIdle, which does not ask   *)
(* for the mission's status.                                               *)
TickFinalized(m, last) ==
  /\ company[m] = "active" /\ Pending(m) = {}
  /\ \/ Begun(m) \in Executable /\ FinalizeActivation(m, Begun(m), last)
     \/ FinalizeActivation(m, mission[m], last)

RunTick(m) ==
  \/ \E next \in {"active", "paused"} : TickBlocked(m, next)
  \/ \E result \in {"completed", "failed", "running"} : TickActed(m, result)
  \/ \E last \in MissionStates : TickFinalized(m, last)

(* Everybody else who may move the mission of a company.                   *)
EngineCallers(m) ==
  /\ \/ \E d \in {"approved", "rejected"} : DecideApproval(m, d)
     \/ AssignAgent(m) \/ Execute(m) \/ Complete(m) \/ FailMission(m)
     \/ Evaluate(m) \/ LearnCapability(m)
     \/ CancelMission(m) \/ MissionFailure({m}) \/ RequeueMission(m)
  /\ UNCHANGED operatorVars

=============================================================================
