---------------------------- MODULE ExecutionWait ----------------------------
(***************************************************************************)
(* Waiting for an execution while printing its events                      *)
(* (cloudify_cli/execution_events_fetcher.py): wait_for_execution, its     *)
(* twin wait_for_execution_group and the ExecutionEventsFetcher they use.  *)
(*                                                                         *)
(* The manager is external: an execution logs events, numbered from 1 in   *)
(* the order events.list returns them, and ends after its last event.      *)
(* Time is counted in units of the sleep between two polls; it passes in   *)
(* remote calls, each at most Latency units long, and in the sleep.        *)
(***************************************************************************)
EXTENDS Naturals, Sequences

CONSTANTS
  Execs,      \* executions on the manager
  None,       \* no execution, no timeout, no result
  BatchSize,  \* batch_size of the fetcher (100 in the code)
  MaxEvents,  \* bound: events an execution logs
  Latency,    \* bound: duration of a remote call
  Timeouts    \* values of the timeout argument; None waits for ever

ASSUME WaitAssumption ==
  /\ None \notin Execs \cup Nat
  /\ BatchSize \in Nat \ {0}
  /\ MaxEvents \in Nat
  /\ Latency \in Nat
  /\ Timeouts \subseteq Nat \cup {None}

\* A wait that has not returned has no result.
ASSUME ResultAssumption ==
  None \notin {"ended_before", "ended", "execution_timeout", "events_timeout", "client_error"}

END_STATES == {"terminated", "failed", "cancelled"}

VARIABLES
  status,     \* status of each execution on the manager
  log,        \* number of events each execution has logged
  now,        \* time.time(); stands still while no timeout is set
  waited,     \* the execution wait_for_execution was called with
  timeout,    \* (history) the timeout it was called with
  deadline,   \* when the wait times out, or None
  remaining,  \* `timeout' after the last check of the deadline
  fetchEnd,   \* deadline of the running fetch_and_process_events
  pc,         \* where the wait is
  ended,      \* execution_ended
  shown,      \* events passed to the events handler, in order
  fromEvent,  \* the fetcher's _from_event
  result      \* how the last wait returned

serverVars == <<status, log>>
waitVars == <<now, waited, timeout, deadline, remaining, fetchEnd, pc, ended, shown,
              fromEvent, result>>
vars == <<serverVars, waitVars>>

InitServer ==
  /\ status \in [Execs -> {"started"} \cup END_STATES]
  /\ log = [e \in Execs |-> 0]

InitWait ==
  /\ now = 0
  /\ waited = None
  /\ timeout = None
  /\ deadline = None
  /\ remaining = None
  /\ fetchEnd = None
  /\ pc = "idle"
  /\ ended = FALSE
  /\ shown = <<>>
  /\ fromEvent = 0
  /\ result = None
-----------------------------------------------------------------------------
\* The manager: an execution logs events until it ends.
LogEvent(e) ==
  /\ status[e] = "started" /\ log[e] < MaxEvents
  /\ log' = [log EXCEPT ![e] = @ + 1]
  /\ UNCHANGED <<status, waitVars>>

EndExecution(e) ==
  /\ status[e] = "started"
  /\ \E s \in END_STATES : status' = [status EXCEPT ![e] = s]
  /\ UNCHANGED <<log, waitVars>>

Server == \E e \in Execs : LogEvent(e) \/ EndExecution(e)
-----------------------------------------------------------------------------
Timed == deadline # None

\* d units pass. Time that no deadline measures is not counted.
Elapse(d) == now' = IF Timed THEN now + d ELSE now

Return(r) == pc' = "returned" /\ result' = r

\* (mutant) A timeout of zero is taken for none.
CallTruthy(e, known, t) ==
  /\ waited' = e
  /\ timeout' = t
  /\ deadline' = IF t \in {None, 0} THEN None ELSE now + t
  /\ ended' = FALSE
  /\ shown' = <<>>
  /\ fromEvent' = 0
  /\ IF known \in END_STATES THEN Return("ended_before")
                             ELSE pc' = "open" /\ result' = None
  /\ UNCHANGED <<serverVars, now, remaining, fetchEnd>>

\* wait_for_execution(execution, timeout): an execution whose record, got by the
\* caller before, had already ended is returned without fetching any event.
Call(e, known, t) ==
  /\ waited' = e
  /\ timeout' = t
  /\ deadline' = IF t = None THEN None ELSE now + t
  /\ ended' = FALSE
  /\ shown' = <<>>
  /\ fromEvent' = 0
  /\ IF known \in END_STATES THEN Return("ended_before")
                             ELSE pc' = "open" /\ result' = None
  /\ UNCHANGED <<serverVars, now, remaining, fetchEnd>>

\* ExecutionEventsFetcher(): asks for the execution, a 404 would be raised.
OpenFetcher ==
  /\ pc = "open"
  /\ pc' = "check"
  /\ \E d \in 0 .. Latency : Elapse(d)
  /\ UNCHANGED <<serverVars, waited, timeout, deadline, remaining, fetchEnd, ended, shown,
                 fromEvent, result>>

\* The deadline has passed: ExecutionTimeoutError.
TimeOut ==
  /\ pc = "check" /\ Timed /\ now > deadline
  /\ Return("execution_timeout")
  /\ UNCHANGED <<serverVars, now, waited, timeout, deadline, remaining, fetchEnd, ended,
                 shown, fromEvent>>

\* (mutant) The deadline is not looked at.
CheckDeadlineUnguarded ==
  /\ pc = "check"
  /\ remaining' = IF Timed THEN deadline - now ELSE None
  /\ pc' = "status"
  /\ UNCHANGED <<serverVars, now, waited, timeout, deadline, fetchEnd, ended, shown,
                 fromEvent, result>>

\* (mutant) The remaining timeout is not updated.
CheckDeadlineOnce ==
  /\ pc = "check" /\ (Timed => now <= deadline)
  /\ remaining' = IF ~Timed THEN None ELSE IF remaining = None THEN deadline - now
                                                               ELSE remaining
  /\ pc' = "status"
  /\ UNCHANGED <<serverVars, now, waited, timeout, deadline, fetchEnd, ended, shown,
                 fromEvent, result>>

\* The deadline has not passed: what is left of it bounds the fetching.
CheckDeadline ==
  /\ pc = "check" /\ (Timed => now <= deadline)
  /\ remaining' = IF Timed THEN deadline - now ELSE None
  /\ pc' = "status"
  /\ UNCHANGED <<serverVars, now, waited, timeout, deadline, fetchEnd, ended, shown,
                 fromEvent, result>>

\* The status is polled BEFORE the events are fetched, then the fetching starts
\* with a deadline of its own.
ReadStatus ==
  /\ pc = "status"
  /\ ended' = (status[waited] \in END_STATES)
  /\ \E d \in 0 .. Latency : Elapse(d)
  /\ fetchEnd' = IF Timed THEN now' + remaining ELSE None
  /\ pc' = "batch"
  /\ UNCHANGED <<serverVars, waited, timeout, deadline, remaining, shown, fromEvent, result>>

\* The deadline of the fetching has passed: EventProcessingTimeoutError.
FetchTimeOut ==
  /\ pc = "batch" /\ Timed /\ now > fetchEnd
  /\ Return("events_timeout")
  /\ UNCHANGED <<serverVars, now, waited, timeout, deadline, remaining, fetchEnd, ended,
                 shown, fromEvent>>

\* (mutant) A batch is taken for the last one though it is full.
AfterBatchFull(n) == IF ended THEN "returned" ELSE "sleep"

\* (mutant) The end of the execution is not acted on.
AfterBatchNeverEnds(n) == IF n = BatchSize THEN "batch" ELSE "sleep"

\* A batch smaller than BatchSize holds the last events found so far: the wait
\* ends if the execution had ended before the events were fetched.
AfterBatch(n) ==
  IF n = BatchSize THEN "batch" ELSE IF ended THEN "returned" ELSE "sleep"

NextOffset(n) == fromEvent + n

\* One round of fetch_and_process_events: the next batch goes to the handler.
FetchBatch ==
  LET left == log[waited] - fromEvent
      n == IF left < BatchSize THEN left ELSE BatchSize
  IN  /\ pc = "batch" /\ (Timed => now <= fetchEnd)
      /\ shown' = shown \o [i \in 1 .. n |-> fromEvent + i]
      /\ fromEvent' = NextOffset(n)
      /\ pc' = AfterBatch(n)
      /\ result' = IF AfterBatch(n) = "returned" THEN "ended" ELSE result
      /\ \E d \in 0 .. Latency : Elapse(d)
      /\ UNCHANGED <<serverVars, waited, timeout, deadline, remaining, fetchEnd, ended>>

\* WAIT_FOR_EXECUTION_SLEEP_INTERVAL, the unit of time.
Sleep ==
  /\ pc = "sleep"
  /\ pc' = "check"
  /\ Elapse(1)
  /\ UNCHANGED <<serverVars, waited, timeout, deadline, remaining, fetchEnd, ended, shown,
                 fromEvent, result>>

\* A remote call raises: so does the wait.
CallFails ==
  /\ pc \in {"open", "status", "batch"}
  /\ pc = "batch" /\ Timed => now <= fetchEnd
  /\ Return("client_error")
  /\ \E d \in 0 .. Latency : Elapse(d)
  /\ UNCHANGED <<serverVars, waited, timeout, deadline, remaining, fetchEnd, ended, shown,
                 fromEvent>>

WaitStep ==
  \/ OpenFetcher \/ TimeOut \/ CheckDeadline \/ ReadStatus
  \/ FetchTimeOut \/ FetchBatch \/ Sleep

Waiting == pc \notin {"idle", "returned"}

\* Alone: one wait for an execution that was started a moment ago.
Start == pc = "idle" /\ \E e \in Execs, t \in Timeouts : Call(e, status[e], t)

Init == InitServer /\ InitWait
Next == Server \/ Start \/ WaitStep \/ CallFails
Spec == Init /\ [][Next]_vars

\* The client's thread runs on: its remote calls return.
FairSpec == Spec /\ WF_vars(WaitStep)
-----------------------------------------------------------------------------
Times == Nat \cup {None}

\* Types. Time never goes past the end of the longest wait by more than the
\* calls that were under way.
TypeOK ==
  /\ status \in [Execs -> {"started"} \cup END_STATES]
  /\ log \in [Execs -> 0 .. MaxEvents]
  /\ now \in Nat
  /\ waited \in Execs \cup {None}
  /\ timeout \in Times /\ deadline \in Times
  /\ remaining \in Times /\ fetchEnd \in Times
  /\ pc \in {"idle", "open", "check", "status", "batch", "sleep", "returned"}
  /\ ended \in BOOLEAN
  /\ shown \in Seq(Nat)
  /\ fromEvent \in Nat
  /\ result \in {None, "ended_before", "ended", "execution_timeout",
                 "events_timeout", "client_error"}

\* Every event is handled at most once and in the order of the manager, however
\* batches and polls fall (offset pagination of _fetch_events_batch).
EventsOnceInOrder == \A i \in DOMAIN shown : shown[i] = i

\* A wait that saw its execution end has handled every event the execution
\* logged, the ones logged between two polls included.
EndMeansAllEvents ==
  result = "ended" => /\ status[waited] \in END_STATES
                      /\ Len(shown) = log[waited]

\* What a wait shows is the whole log of an execution that ended, in its order.
EventsComplete == EventsOnceInOrder /\ EndMeansAllEvents

\* A wait is not given up before its time (the checks of the deadline).
TimeoutIsDue ==
  result \in {"execution_timeout", "events_timeout"} => Timed /\ now > deadline

\* A wait overstays its deadline by at most a poll, a batch of events and the
\* sleep, however many batches the events fill ("update the remaining timeout").
TimeoutIsTimely == Timed => now <= deadline + 2 * Latency + 1

\* A wait times out when its time is up, neither before nor much later.
TimeoutIsExact == TimeoutIsDue /\ TimeoutIsTimely

\* The wait returns soon after its execution has ended, even without a timeout.
EndIsNoticed ==
  \A e \in Execs : (Waiting /\ waited = e /\ status[e] \in END_STATES) ~> ~Waiting

\* With a timeout the wait returns, whatever the execution does.
TimeoutFires == (Waiting /\ timeout # None) ~> ~Waiting
=============================================================================
