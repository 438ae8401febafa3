--------------------------- MODULE MCMissionRuntime ---------------------------
(* MissionRuntime for TLC: which keys clients use, and with which limits.  *)
EXTENDS MissionRuntime

CONSTANTS m1, m2, j1

OneKey    == {<<m1, j1>>}
SharedKey == {<<m1, j1>>, <<m2, j1>>}

SomeLimits == {-1, 2}
=============================================================================
