--------------------------- MODULE MCRevenueOutreach ---------------------------
(* RevenueOutreach for TLC: no definition tells one prospect, or one run,  *)
(* from another.                                                           *)
EXTENDS RevenueOutreach, TLC

SameProspectsAndRuns == Permutations(Prospects) \cup Permutations(Runs)
=============================================================================
