--------------------------- MODULE MCExecutionStart ---------------------------
(* An instance of ExecutionStart for TLC: the environment's creation and the *)
(* workflow, each with up to two batches of events.                          *)
EXTENDS ExecutionStart

CONSTANTS creation, workflow
=============================================================================
