--------------------------- MODULE MCExecutionWait ---------------------------
(* An instance of ExecutionWait for TLC: events fill two batches and a half. *)
EXTENDS ExecutionWait

CONSTANTS e1

MCTimeouts == {0, 1, 3, 6, None}
=============================================================================
