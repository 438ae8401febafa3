--------------------------- MODULE MCCompanyRuntime ---------------------------
(* CompanyRuntime for TLC: one company, a seeded task and one that is      *)
(* queued, in any order and with any dependencies.  Their files have the   *)
(* same name and their limits differ.                                      *)
EXTENDS CompanyRuntime

CONSTANTS m1, t1, t2

NoDependencies == [k \in Seeds |-> {}]
OneFile        == [m \in Missions |-> [k \in Tasks |-> "artifact.json"]]
ArtifactFiles  == {"artifact.json"}
TwoThenOne     == [m \in Missions |-> [k \in Tasks |-> IF k = t1 THEN 2 ELSE 1]]

=============================================================================
