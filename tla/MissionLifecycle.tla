-------------------------- MODULE MissionLifecycle --------------------------
(***************************************************************************)
(* The mission state machine of core/missions/mission_engine.js: the       *)
(* states a mission row can be in and the transition table that            *)
(* _transitionMission consults.                                            *)
(***************************************************************************)

MissionStates ==
  { "draft", "validated", "planned", "awaiting_approval", "approved",
    "queued", "running", "paused", "blocked", "completed", "failed",
    "cancelled", "evaluated", "learned" }

(* VALID_TRANSITIONS: the pairs <<from, to>> the engine accepts.           *)
ValidTransitions ==
  UNION { {"draft"}             \X {"validated", "cancelled"},
          {"validated"}         \X {"planned", "cancelled"},
          {"planned"}           \X {"awaiting_approval", "cancelled"},
          {"awaiting_approval"} \X {"approved", "cancelled"},
          {"approved"}          \X {"queued", "cancelled"},
          {"queued"}            \X {"running", "blocked", "cancelled"},
          {"running"}           \X {"completed", "failed", "paused", "blocked"},
          {"paused", "blocked"} \X {"running", "cancelled"},
          {"completed"}         \X {"evaluated"},
          {"failed"}            \X {"cancelled", "evaluated"},
          {"cancelled"}         \X {"evaluated"},
          {"evaluated"}         \X {"learned"} }

CanTransition(from, to) == <<from, to>> \in ValidTransitions

=============================================================================
