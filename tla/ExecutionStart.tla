---------------------------- MODULE ExecutionStart ----------------------------
(***************************************************************************)
(* `cfy executions start` (cloudify_cli/commands/executions.py,            *)
(* manager_start): start a workflow on a deployment; if the deployment's   *)
(* environment is still being created, wait for that first and start it    *)
(* again, within what is left of the timeout.                              *)
(*                                                                         *)
(* Both waits are the one of ExecutionWait.                                *)
(***************************************************************************)
EXTENDS ExecutionWait, Integers

CONSTANTS
  EnvCreation,  \* the create_deployment_environment execution
  Workflow      \* the execution of the user's workflow, once started

ASSUME StartAssumption ==
  /\ EnvCreation \in Execs /\ Workflow \in Execs
  /\ EnvCreation # Workflow
  /\ Timeouts \subseteq Nat /\ None \notin Int

\* No report is not one of the reports.
ASSUME ReportAssumption == None \notin {"queued", "scheduled", "finished", "failed"}

VARIABLES
  phase,   \* where manager_start is
  allowed, \* original_timeout, the --timeout option
  budget,  \* its timeout variable
  before,  \* its `now', the time when the first wait began
  record,  \* status in the execution record it holds
  report   \* what the user is told in the end

startVars == <<phase, allowed, budget, before, record, report>>
allVars == <<vars, startVars>>

\* The workflow does not exist before it is started.
StartInit ==
  /\ InitWait
  /\ \E s \in {"started"} \cup END_STATES :
       status = [e \in Execs |-> IF e = Workflow THEN "absent" ELSE s]
  /\ log = [e \in Execs |-> 0]
  /\ phase = "start"
  /\ allowed \in Timeouts /\ budget = allowed
  /\ before = None
  /\ record = None
  /\ report = None
-----------------------------------------------------------------------------
\* A remote call of up to Latency units.
TakesTime == \E d \in 0 .. Latency : now' = now + d

Tell(r) == phase' = "done" /\ report' = r

\* The manager runs the workflow, or queues or schedules it.
StartAccepted ==
  /\ phase \in {"start", "restart"}
  /\ status[EnvCreation] # "started"
  /\ \E s \in {"started", "queued", "scheduled"} :
       /\ status' = [status EXCEPT ![Workflow] = s]
       /\ record' = s
       /\ IF s = "started" THEN phase' = "call" /\ UNCHANGED report ELSE Tell(s)
  /\ TakesTime
  /\ UNCHANGED <<log, waited, timeout, deadline, remaining, fetchEnd, pc, ended,
                 shown, fromEvent, result, allowed, budget, before>>

\* The environment is still being created; the second time this is not caught.
StartRefused ==
  /\ phase \in {"start", "restart"}
  /\ status[EnvCreation] = "started"
  /\ IF phase = "start" THEN phase' = "list" /\ UNCHANGED report ELSE Tell("error")
  /\ TakesTime
  /\ before' = now'
  /\ UNCHANGED <<serverVars, waited, timeout, deadline, remaining, fetchEnd, pc,
                 ended, shown, fromEvent, result, allowed, budget, record>>

\* Any other error of the start or of the listing is raised.
StartFails ==
  /\ phase \in {"start", "restart", "list"}
  /\ Tell("error")
  /\ UNCHANGED <<vars, allowed, budget, before, record>>

\* get_deployment_environment_execution: the record of the latest creation,
\* which may have ended meanwhile.
ListCreation ==
  /\ phase = "list"
  /\ phase' = "call_creation"
  /\ record' = status[EnvCreation]
  /\ TakesTime
  /\ UNCHANGED <<serverVars, waited, timeout, deadline, remaining, fetchEnd, pc,
                 ended, shown, fromEvent, result, allowed, budget, before, report>>

CallWait(from, e, to) ==
  /\ phase = from
  /\ phase' = to
  /\ Call(e, record, budget)
  /\ UNCHANGED <<allowed, budget, before, record, report>>

WaitForCreation == CallWait("call_creation", EnvCreation, "creation")
WaitForWorkflow == CallWait("call", Workflow, "workflow")

\* (mutant) The second wait gets the whole timeout again.
LeftAfterFirstWaitAll == budget

\* remaining_timeout = time.time() - now; timeout -= remaining_timeout.
LeftAfterFirstWait == budget - (now - before)

Succeeded == result \in {"ended", "ended_before"}

\* A wait that failed: only ExecutionTimeoutError is turned into a message.
TellFailure == Tell(IF result = "execution_timeout" THEN "timed_out" ELSE "error")

CreationWaited ==
  /\ phase = "creation" /\ pc = "returned"
  /\ IF Succeeded
     THEN phase' = "restart" /\ budget' = LeftAfterFirstWait /\ UNCHANGED report
     ELSE TellFailure /\ UNCHANGED budget
  /\ UNCHANGED <<vars, allowed, before, record>>

\* (mutant) The workflow is reported finished whatever became of it.
OutcomeOfOptimistic(s) == "finished"

\* execution.error is set when the workflow failed.
OutcomeOf(s) == IF s = "failed" THEN "failed" ELSE "finished"

WorkflowWaited ==
  /\ phase = "workflow" /\ pc = "returned"
  /\ IF Succeeded THEN Tell(OutcomeOf(status[Workflow])) ELSE TellFailure
  /\ UNCHANGED <<vars, allowed, budget, before, record>>

ClientStep ==
  \/ (WaitStep /\ UNCHANGED startVars)
  \/ StartAccepted \/ StartRefused \/ ListCreation
  \/ WaitForCreation \/ WaitForWorkflow \/ CreationWaited \/ WorkflowWaited

Faults == StartFails \/ (CallFails /\ UNCHANGED startVars)

StartNext == (Server /\ UNCHANGED startVars) \/ ClientStep \/ Faults

StartSpec == StartInit /\ [][StartNext]_allVars /\ WF_allVars(ClientStep)
-----------------------------------------------------------------------------
StartTypeOK ==
  /\ status \in [Execs -> {"absent", "queued", "scheduled", "started"} \cup END_STATES]
  /\ phase \in {"start", "list", "call_creation", "creation", "restart", "call",
                "workflow", "done"}
  /\ allowed \in Nat
  /\ budget \in Int /\ budget <= allowed
  /\ before \in Times
  /\ record \in {None, "queued", "scheduled", "started"} \cup END_STATES
  /\ report \in {None, "queued", "scheduled", "finished", "failed", "timed_out",
                 "error"}

\* The user is told the truth about how the workflow ended, after all of its
\* events, even when another execution was waited for first.
ReportIsTrue ==
  /\ report = "finished" => /\ status[Workflow] \in {"terminated", "cancelled"}
                            /\ Len(shown) = log[Workflow]
  /\ report = "failed" => status[Workflow] = "failed" /\ Len(shown) = log[Workflow]

\* --timeout bounds the whole command: the two waits share it ("timeout -="),
\* and only the calls under way when it expires come on top.
TotalTimeIsBounded == now <= allowed + 6 * Latency + 1

\* What is left of the timeout is never more than was given, and enough that
\* the command is done in time.
TimeoutIsShared == StartTypeOK /\ TotalTimeIsBounded

\* The command ends, whether or not the executions do.
CommandEnds == <>(phase = "done")

\* "Timed out waiting for workflow ... The execution may still be running
\* properly": told only of a workflow that was started.
TimedOutWasStarted == report = "timed_out" => status[Workflow] # "absent"
=============================================================================
