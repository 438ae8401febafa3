----------------------------- MODULE MCGovernance -----------------------------
(* Governance for TLC: which packages are submitted, and the symmetry.     *)
EXTENDS Governance, TLC

(* A sound package and one of each kind the policy must treat otherwise:   *)
(* work of the foundry, work that is too risky, unproven or reserved.      *)
(* The sound one costs more than what a second like it leaves of the month.*)
EveryKind ==
  { [action |-> k[1], tier |-> k[2], proven |-> k[3], cost |-> k[4]] :
      k \in { <<"analysis", 1, TRUE, 2>>,
              <<"create_agent", 1, TRUE, 1>>,
              <<"analysis", 3, TRUE, 1>>,
              <<"analysis", 1, FALSE, 1>>,
              <<"sign_contract", 1, TRUE, 1>> } }

SamePackagesAndGrants == Permutations(Packages) \cup Permutations(Grants)
=============================================================================
