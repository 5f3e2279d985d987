---------------------------- MODULE AgentsTracker ----------------------------
(***************************************************************************)
(* `cfy agents install', `cfy agents validate' (commands/agents.py,        *)
(* get_deployments_and_run_workers): start the workflow on each deployment *)
(* the filters chose, then track the executions from a pool of threads     *)
(* that take them from one queue.                                          *)
(*                                                                         *)
(* Each deployment gets one execution, which is named after it.  A thread  *)
(* waits with wait_for_execution and no timeout (module ExecutionWait):    *)
(* one step here, taken once the execution has ended or a call failed.     *)
(***************************************************************************)
EXTENDS Naturals, Sequences, FiniteSets

CONSTANTS
  Deployments,  \* the eligible deployments, over all tenants
  Trackers,     \* the threads; MAX_TRACKER_THREADS of them
  None          \* no execution, no report

ASSUME TrackerAssumption ==
  /\ Deployments # {}      \* "No eligible deployments found" otherwise
  /\ None \notin Deployments

\* A command that has not ended has no report.
ASSUME NoneAssumption ==
  None \notin {"raised", "not waited", "ok", "errors", "interrupted"}

VARIABLES
  status,   \* each deployment's execution on the manager
  started,  \* started_executions
  wait,     \* agents_wait
  phase,    \* where the main thread is
  queue,    \* executions_queue
  thread,   \* state of each tracker thread
  job,      \* the execution each thread is waiting for
  errors,   \* errors_summary
  report    \* how the command ended

mainVars == <<started, wait, phase, report>>
vars == <<status, mainVars, queue, thread, job, errors>>

END_STATES == {"terminated", "failed", "cancelled"}
Ended(d) == status[d] \in END_STATES
Elements(s) == {s[i] : i \in DOMAIN s}

Init ==
  /\ status = [d \in Deployments |-> "absent"]
  /\ started = <<>>
  /\ wait \in BOOLEAN
  /\ phase = "starting"
  /\ queue = <<>>
  /\ thread = [t \in Trackers |-> "new"]
  /\ job = [t \in Trackers |-> None]
  /\ errors = <<>>
  /\ report = None
-----------------------------------------------------------------------------
\* The manager runs an execution to its end.
EndExecution(d) ==
  /\ status[d] = "started"
  /\ \E s \in END_STATES : status' = [status EXCEPT ![d] = s]
  /\ UNCHANGED <<mainVars, queue, thread, job, errors>>

Report(r) == phase' = "done" /\ report' = r

\* The main thread starts the executions one after the other ...
Start(d) ==
  /\ phase = "starting" /\ d \notin Elements(started)
  /\ status' = [status EXCEPT ![d] = "started"]
  /\ started' = Append(started, d)
  /\ UNCHANGED <<wait, phase, queue, thread, job, errors, report>>

\* ... and an error of one start is raised at once.
StartFails ==
  /\ phase = "starting" /\ Elements(started) # Deployments
  /\ Report("raised")
  /\ UNCHANGED <<status, started, wait, queue, thread, job, errors>>

\* All are started: without --wait that is all; otherwise they are queued,
\* before any thread runs.
AllStarted ==
  /\ phase = "starting" /\ Elements(started) = Deployments
  /\ IF wait THEN phase' = "spawning" /\ queue' = started /\ UNCHANGED report
             ELSE Report("not waited") /\ UNCHANGED queue
  /\ UNCHANGED <<status, started, wait, thread, job, errors>>

\* thread.start(): the first threads work while others are not started yet.
Spawn(t) ==
  /\ phase = "spawning" /\ thread[t] = "new"
  /\ thread' = [thread EXCEPT ![t] = "running"]
  /\ phase' = IF \A u \in Trackers \ {t} : thread[u] # "new" THEN "polling" ELSE phase
  /\ UNCHANGED <<status, started, wait, queue, job, errors, report>>

\* (mutant) The main thread goes on when one thread has ended.
AllDeadAny == \E t \in Trackers : thread[t] = "ended"

AllDead == \A t \in Trackers : thread[t] = "ended"

\* The main thread looks at the threads every second, until none is alive.
Finish ==
  /\ phase = "polling" /\ AllDead
  /\ Report(IF errors = <<>> THEN "ok" ELSE "errors")
  /\ UNCHANGED <<status, started, wait, queue, thread, job, errors>>

\* The main thread is interrupted: the daemon threads die with the process.
Interrupt ==
  /\ phase # "done"
  /\ Report("interrupted")
  /\ thread' = [t \in Trackers |-> "ended"]
  /\ job' = [t \in Trackers |-> None]
  /\ UNCHANGED <<status, started, wait, queue, errors>>
-----------------------------------------------------------------------------
Idle(t) == thread[t] = "running" /\ job[t] = None

\* (mutant) The execution is looked up in the queue, not taken out of it.
RestAfterPeek == queue

\* What get_nowait leaves in the queue.
RestAfterGet == Tail(queue)

\* executions_queue.get_nowait()
Take(t) ==
  /\ Idle(t) /\ queue # <<>>
  /\ job' = [job EXCEPT ![t] = Head(queue)]
  /\ queue' = RestAfterGet
  /\ UNCHANGED <<status, mainVars, thread, errors>>

\* (mutant) get() blocks on the empty queue.
NothingLeftBlocks(t) ==
  /\ Idle(t) /\ queue = <<>>
  /\ UNCHANGED vars

\* queue.Empty ends the thread.
NothingLeft(t) ==
  /\ Idle(t) /\ queue = <<>>
  /\ thread' = [thread EXCEPT ![t] = "ended"]
  /\ UNCHANGED <<status, mainVars, queue, job, errors>>

\* An execution that ended with an error is put in the summary.
ErrorsAfter(t) ==
  IF status[job[t]] = "failed" THEN Append(errors, job[t]) ELSE errors

\* wait_for_execution returns the execution that ended.
Waited(t) ==
  /\ job[t] # None /\ Ended(job[t])
  /\ errors' = ErrorsAfter(t)
  /\ job' = [job EXCEPT ![t] = None]
  /\ UNCHANGED <<status, mainVars, queue, thread>>

\* A call of the wait raises: the error is recorded and the thread goes on.
WaitFails(t) ==
  /\ job[t] # None
  /\ errors' = Append(errors, job[t])
  /\ job' = [job EXCEPT ![t] = None]
  /\ UNCHANGED <<status, mainVars, queue, thread>>

Main == \/ \E d \in Deployments : Start(d)
        \/ \E t \in Trackers : Spawn(t)
        \/ AllStarted \/ Finish

Track(t) == Take(t) \/ NothingLeft(t) \/ Waited(t)

Next ==
  \/ \E d \in Deployments : EndExecution(d)
  \/ Main \/ StartFails \/ Interrupt
  \/ \E t \in Trackers : Track(t) \/ WaitFails(t)

\* The threads of the process run on; nothing is assumed of the executions.
Spec == /\ Init /\ [][Next]_vars
        /\ WF_vars(Main) /\ \A t \in Trackers : WF_vars(Track(t))
-----------------------------------------------------------------------------
Distinct(s) == \A i, j \in DOMAIN s : s[i] = s[j] => i = j

\* Types of the variables; no execution is started, queued or reported twice.
TypeOK ==
  /\ status \in [Deployments -> {"absent", "started"} \cup END_STATES]
  /\ started \in Seq(Deployments) /\ Distinct(started)
  /\ wait \in BOOLEAN
  /\ phase \in {"starting", "spawning", "polling", "done"}
  /\ queue \in Seq(Deployments) /\ Distinct(queue)
  /\ thread \in [Trackers -> {"new", "running", "ended"}]
  /\ job \in [Trackers -> Deployments \cup {None}]
  /\ errors \in Seq(Deployments) /\ Distinct(errors)
  /\ report \in {None, "raised", "not waited", "ok", "errors", "interrupted"}

\* No two threads track the same execution, and none tracks one that another
\* thread has reported on: the output is not doubled.
TrackedByOne ==
  /\ \A t, u \in Trackers : job[t] # None /\ job[t] = job[u] => t = u
  /\ \A t \in Trackers : job[t] \notin Elements(queue) \cup Elements(errors)

\* Every execution is with one tracker, with its type.
TrackerInv == TypeOK /\ TrackedByOne

\* "If we get to this point, all threads have already ended": when the command
\* has its result, no execution is still queued or waited for.
ResultIsFinal ==
  report \in {"ok", "errors"} =>
    queue = <<>> /\ \A t \in Trackers : job[t] = None

\* The command succeeds only if the execution of every eligible deployment
\* was started, has ended, and did not fail.
OkMeansAllSucceeded ==
  report = "ok" => \A d \in Deployments : status[d] \in {"terminated", "cancelled"}

\* Every failure reaches the summary, whichever thread meets it.
FailuresAreListed ==
  report = "errors" =>
    \A d \in Deployments : status[d] = "failed" => d \in Elements(errors)

\* The result is final and says what became of every execution.
ResultIsTrue == ResultIsFinal /\ OkMeansAllSucceeded /\ FailuresAreListed

\* Once all executions have ended, so does the command, however few threads
\* there are.
CommandEnds ==
  (phase # "starting" /\ \A d \in Deployments : Ended(d)) ~> phase = "done"
=============================================================================
