--------------------------- MODULE MissionContract ---------------------------
(***************************************************************************)
(* What the mission system promises of a mission, without its fourteen     *)
(* states, jobs, leases and retries: work is delivered at most once, only  *)
(* after it was cleared by an approval, and never after the mission was    *)
(* withdrawn or closed; and a mission is learned from at most once, after  *)
(* it is over.                                                             *)
(***************************************************************************)
EXTENDS Naturals

CONSTANT Missions

VARIABLES phase,   \* open, cleared, delivered, withdrawn or closed
          banked   \* capabilities learned from the mission

contractVars == <<phase, banked>>

Init ==
  /\ phase  = [m \in Missions |-> "open"]
  /\ banked = [m \in Missions |-> 0]

Move(m, from, to) ==
  /\ phase[m] \in from
  /\ phase' = [phase EXCEPT ![m] = to]
  /\ UNCHANGED banked

Clear(m)    == Move(m, {"open"}, "cleared")
Withdraw(m) == Move(m, {"open", "cleared"}, "withdrawn")
Deliver(m)  == Move(m, {"cleared"}, "delivered")
Close(m)    == Move(m, {"cleared", "withdrawn"}, "closed")

Bank(m) ==
  /\ phase[m] \in {"delivered", "closed"}
  /\ banked[m] = 0
  /\ banked' = [banked EXCEPT ![m] = 1]
  /\ UNCHANGED phase

Next == \E m \in Missions :
          Clear(m) \/ Withdraw(m) \/ Deliver(m) \/ Close(m) \/ Bank(m)

Spec == Init /\ [][Next]_contractVars

=============================================================================
