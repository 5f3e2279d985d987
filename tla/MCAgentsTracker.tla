--------------------------- MODULE MCAgentsTracker ---------------------------
(* An instance of AgentsTracker for TLC: fewer threads than executions.      *)
EXTENDS AgentsTracker

CONSTANTS d1, d2, d3, t1, t2
=============================================================================
