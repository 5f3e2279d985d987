-------------------------- MODULE ExecutionProofs ---------------------------
(***************************************************************************)
(* Machine-checked proofs about waiting for an execution and starting one, *)
(* for every batch size, latency and timeout and any number of events.     *)
(* What the first part proves of the steps of a wait (EventsInv, FetchInv) *)
(* holds of any execution and however the wait was called: the second part,*)
(* about `executions start', uses it for both of its waits.                *)
(***************************************************************************)
EXTENDS ExecutionStart, SequenceTheorems, TLAPS

\* Statuses an execution may have on the manager, the ones before its start too.
Statuses == {"absent", "queued", "scheduled", "started"} \cup END_STATES

WaitTypes ==
  /\ status \in [Execs -> Statuses]
  /\ log \in [Execs -> 0 .. MaxEvents]
  /\ now \in Nat
  /\ waited \in Execs \cup {None}
  /\ deadline \in Times /\ remaining \in Times /\ fetchEnd \in Times
  /\ pc \in {"idle", "open", "check", "status", "batch", "sleep", "returned"}
  /\ ended \in BOOLEAN
  /\ shown \in Seq(Nat)
  /\ fromEvent \in Nat
  /\ result \in {None, "ended_before", "ended", "execution_timeout",
                 "events_timeout", "client_error"}

\* The strengthening behind EventsComplete: the fetcher's offset counts what
\* was shown and never runs past the log, and an execution that was seen ended
\* logs nothing more.
EventsInv ==
  /\ Len(shown) = fromEvent
  /\ EventsOnceInOrder
  /\ pc # "idle" => waited \in Execs /\ fromEvent <= log[waited]
  /\ pc = "idle" => fromEvent = 0
  /\ pc # "idle" /\ ended => status[waited] \in END_STATES
  /\ pc # "returned" => result = None
  /\ result = "ended" => ended /\ fromEvent = log[waited]

\* The strengthening behind TimeoutIsExact: where a timed wait stands bounds the
\* time, and the deadline of the fetching is that of the wait, put off by no
\* more than the call that read the status.
ClockInv ==
  Timed =>
    /\ pc = "status" => now <= deadline /\ remaining = deadline - now
    /\ pc = "batch" => /\ fetchEnd \in Nat
                       /\ deadline <= fetchEnd /\ fetchEnd <= deadline + Latency
                       /\ now <= deadline + 2 * Latency
    /\ pc = "sleep" => now <= deadline + 2 * Latency

FetchInv == WaitTypes /\ EventsInv /\ ClockInv
-----------------------------------------------------------------------------
\* The numbers of the events of a batch.
NextEvents(from, n) == [i \in 1 .. n |-> from + i]

\* The next batch continues what was shown: event i stays at position i.
LEMMA BatchContinues ==
  ASSUME NEW s \in Seq(Nat), NEW from \in Nat, NEW n \in Nat, Len(s) = from,
         \A i \in DOMAIN s : s[i] = i
  PROVE  /\ s \o NextEvents(from, n) \in Seq(Nat)
         /\ Len(s \o NextEvents(from, n)) = from + n
         /\ \A i \in DOMAIN (s \o NextEvents(from, n)) : (s \o NextEvents(from, n))[i] = i
<1> DEFINE b == NextEvents(from, n)
           t == s \o b
<1>1. b \in Seq(Nat) /\ Len(b) = n /\ \A i \in 1 .. n : b[i] = from + i
  <2>1. \A i \in 1 .. n : from + i \in Nat
    OBVIOUS
  <2> QED
    BY <2>1 DEF NextEvents
<1> HIDE DEF b
<1>2. /\ t \in Seq(Nat) /\ Len(t) = from + n /\ DOMAIN t = 1 .. from + n
      /\ \A i \in 1 .. from + n : t[i] = IF i <= from THEN s[i] ELSE b[i - from]
  <2>1. /\ t \in Seq(Nat) /\ Len(t) = Len(s) + Len(b)
        /\ \A i \in 1 .. Len(s) + Len(b) : t[i] = IF i <= Len(s) THEN s[i] ELSE b[i - Len(s)]
    <3>1. s \in Seq(Nat) /\ b \in Seq(Nat)
      BY <1>1
    <3> QED
      BY <3>1, ConcatProperties, Zenon
  <2> HIDE DEF t
  <2>2. t \in Seq(Nat) /\ Len(t) = from + n /\ DOMAIN t = 1 .. from + n
    BY <2>1, <1>1
  <2>3. Len(s) + Len(b) = from + n /\ Len(s) = from
    BY <1>1
  <2> QED
    BY <2>1, <2>2, <2>3
<1>3. ASSUME NEW i \in 1 .. from + n PROVE t[i] = i
  <2>1. CASE i <= from
    BY <1>2, <2>1
  <2>2. CASE ~(i <= from)
    <3>1. i - from \in 1 .. n /\ from + (i - from) = i
      BY <2>2
    <3>2. t[i] = b[i - from]
      BY <1>2, <2>2
    <3> QED
      BY <3>1, <3>2, <1>1
  <2> QED
    BY <2>1, <2>2
<1> QED
  BY <1>2, <1>3 DEF b

\* A remote call takes a natural number of units, and no time if none is set.
LEMMA ElapseBound ==
  ASSUME WaitTypes, NEW d \in 0 .. Latency, Elapse(d)
  PROVE  now' \in Nat /\ now <= now' /\ now' <= now + Latency
<1> QED
  BY WaitAssumption DEF WaitTypes, Elapse

\* The manager's steps leave the wait alone; an execution that has ended logs
\* no more events.
LEMMA ServerKeeps ==
  ASSUME FetchInv, Server
  PROVE  FetchInv'
<1>1. PICK e \in Execs : LogEvent(e) \/ EndExecution(e)
  BY DEF Server
<1>2. /\ UNCHANGED waitVars
      /\ status' \in [Execs -> Statuses] /\ log' \in [Execs -> 0 .. MaxEvents]
      /\ \A f \in Execs : log[f] <= log'[f]
      /\ \A f \in Execs : status[f] \in END_STATES =>
           status'[f] = status[f] /\ log'[f] = log[f]
  <2>1. CASE LogEvent(e)
    BY <2>1, WaitAssumption DEF LogEvent, FetchInv, WaitTypes, END_STATES
  <2>2. CASE EndExecution(e)
    BY <2>2, WaitAssumption DEF EndExecution, FetchInv, WaitTypes, Statuses, END_STATES
  <2> QED
    BY <1>1, <2>1, <2>2
<1>3. WaitTypes'
  BY <1>2 DEF FetchInv, WaitTypes, waitVars
<1>4. EventsInv'
  <2>1. pc' # "idle" => fromEvent' <= log'[waited']
    BY <1>2 DEF FetchInv, EventsInv, WaitTypes, waitVars
  <2>2. result' = "ended" => fromEvent' = log'[waited']
    BY <1>2, ResultAssumption DEF FetchInv, EventsInv, waitVars
  <2> QED
    BY <1>2, <2>1, <2>2 DEF FetchInv, EventsInv, EventsOnceInOrder, waitVars
<1>5. ClockInv'
  BY <1>2 DEF FetchInv, ClockInv, Timed, waitVars
<1> QED
  BY <1>3, <1>4, <1>5 DEF FetchInv
-----------------------------------------------------------------------------
\* The wait returns without having fetched anything in this step.
LEMMA ReturnKeeps ==
  ASSUME FetchInv, pc \notin {"idle", "returned"},
         NEW r \in {"execution_timeout", "events_timeout", "client_error"}, Return(r),
         now' \in Nat,
         UNCHANGED <<serverVars, waited, timeout, deadline, remaining, fetchEnd, ended,
                     shown, fromEvent>>
  PROVE  FetchInv'
<1>1. WaitTypes'
  BY DEF FetchInv, WaitTypes, Return, serverVars
<1>2. EventsInv'
  BY DEF FetchInv, EventsInv, EventsOnceInOrder, Return, serverVars
<1>3. ClockInv'
  BY DEF ClockInv, Return
<1> QED
  BY <1>1, <1>2, <1>3 DEF FetchInv

\* A round of fetching shows the next events of the log, and is the last one
\* only if it emptied the log of an execution that had ended before.
LEMMA FetchBatchKeeps ==
  ASSUME FetchInv, FetchBatch
  PROVE  FetchInv'
<1> DEFINE left == log[waited] - fromEvent
           n == IF left < BatchSize THEN left ELSE BatchSize
<1>1. /\ pc = "batch" /\ (Timed => now <= fetchEnd)
      /\ shown' = shown \o [i \in 1 .. n |-> fromEvent + i]
      /\ fromEvent' = fromEvent + n
      /\ pc' = AfterBatch(n)
      /\ result' = IF AfterBatch(n) = "returned" THEN "ended" ELSE result
      /\ UNCHANGED <<serverVars, waited, timeout, deadline, remaining, fetchEnd, ended>>
  BY DEF FetchBatch, NextOffset
<1>2. /\ waited \in Execs /\ log[waited] \in Nat /\ fromEvent \in Nat
      /\ fromEvent <= log[waited] /\ BatchSize \in Nat \ {0}
  BY <1>1, WaitAssumption DEF FetchInv, WaitTypes, EventsInv
<1>3. /\ n \in Nat /\ fromEvent + n \in Nat /\ fromEvent + n <= log[waited]
      /\ n # BatchSize => fromEvent + n = log[waited]
  BY <1>2
<1> HIDE DEF n
<1>4. /\ shown' \in Seq(Nat) /\ Len(shown') = fromEvent'
      /\ \A i \in DOMAIN shown' : shown'[i] = i
  <2>1. shown \in Seq(Nat) /\ Len(shown) = fromEvent /\ \A i \in DOMAIN shown : shown[i] = i
    BY DEF FetchInv, WaitTypes, EventsInv, EventsOnceInOrder
  <2> DEFINE r == shown \o NextEvents(fromEvent, n)
  <2>2. shown' = r /\ fromEvent' = fromEvent + n
    BY <1>1 DEF NextEvents
  <2>3. r \in Seq(Nat) /\ Len(r) = fromEvent + n /\ \A i \in DOMAIN r : r[i] = i
    BY <1>2, <1>3, <2>1, BatchContinues
  <2> HIDE DEF r
  <2> QED
    BY <2>2, <2>3
<1>5. /\ pc' \in {"batch", "returned", "sleep"}
      /\ pc' = "returned" => ended /\ n # BatchSize /\ result' = "ended"
      /\ pc' # "returned" => result' = result
  BY <1>1 DEF AfterBatch
<1>6. PICK d \in 0 .. Latency : Elapse(d)
  BY DEF FetchBatch
<1>7. now' \in Nat /\ now <= now' /\ now' <= now + Latency
  BY <1>6, ElapseBound DEF FetchInv
<1>8. result = None
  BY <1>1 DEF FetchInv, EventsInv
<1>9. WaitTypes'
  BY <1>1, <1>3, <1>4, <1>5, <1>7, <1>8 DEF FetchInv, WaitTypes, serverVars
<1>10. EventsInv'
  BY <1>1, <1>2, <1>3, <1>4, <1>5, <1>8, ResultAssumption
     DEF FetchInv, EventsInv, EventsOnceInOrder, serverVars
<1>11. ClockInv'
  <2> SUFFICES ASSUME Timed PROVE ClockInv'
    BY <1>1 DEF ClockInv, Timed
  <2>1. /\ now <= fetchEnd /\ fetchEnd <= deadline + Latency /\ deadline <= fetchEnd
        /\ deadline \in Nat /\ fetchEnd \in Nat /\ now \in Nat /\ Latency \in Nat
    <3>1. deadline \in Nat
      BY DEF Timed, FetchInv, WaitTypes, Times
    <3>2. now <= fetchEnd /\ fetchEnd <= deadline + Latency /\ deadline <= fetchEnd
      BY <1>1 DEF FetchInv, ClockInv
    <3>3. fetchEnd \in Nat
      BY <1>1 DEF FetchInv, ClockInv
    <3> QED
      BY <3>1, <3>2, <3>3, WaitAssumption DEF FetchInv, WaitTypes, Times
  <2>2. now' <= deadline + 2 * Latency
    BY <1>7, <2>1
  <2> QED
    BY <1>1, <1>5, <2>1, <2>2 DEF ClockInv
<1> QED
  BY <1>9, <1>10, <1>11 DEF FetchInv

\* Every step of a wait preserves the invariant, whoever called it.
LEMMA WaitStepKeeps ==
  ASSUME FetchInv, WaitStep \/ CallFails
  PROVE  FetchInv'
<1>1. CASE OpenFetcher
  <2>1. PICK d \in 0 .. Latency : Elapse(d)
    BY <1>1 DEF OpenFetcher
  <2>2. now' \in Nat
    BY <2>1, ElapseBound DEF FetchInv
  <2>3. WaitTypes'
    BY <1>1, <2>2 DEF OpenFetcher, FetchInv, WaitTypes, serverVars
  <2>4. EventsInv' /\ ClockInv'
    BY <1>1 DEF OpenFetcher, FetchInv, EventsInv, EventsOnceInOrder, ClockInv, serverVars
  <2> QED
    BY <2>3, <2>4 DEF FetchInv
<1>2. CASE TimeOut
  BY <1>2, ReturnKeeps DEF TimeOut, FetchInv, WaitTypes
<1>3. CASE CheckDeadline
  <2>1. remaining' \in Times /\ (Timed => deadline \in Nat /\ now \in Nat /\ remaining' = deadline - now)
    BY <1>3 DEF CheckDeadline, FetchInv, WaitTypes, Times, Timed
  <2>2. WaitTypes'
    BY <1>3, <2>1 DEF CheckDeadline, FetchInv, WaitTypes, serverVars
  <2>3. EventsInv'
    BY <1>3 DEF CheckDeadline, FetchInv, EventsInv, EventsOnceInOrder, serverVars
  <2>4. ClockInv'
    BY <1>3, <2>1 DEF CheckDeadline, ClockInv, Timed
  <2> QED
    BY <2>2, <2>3, <2>4 DEF FetchInv
<1>4. CASE ReadStatus
  <2>1. PICK d \in 0 .. Latency : Elapse(d)
    BY <1>4 DEF ReadStatus
  <2>2. now' \in Nat /\ now <= now' /\ now' <= now + Latency
    BY <2>1, ElapseBound DEF FetchInv
  <2>3. Timed => /\ deadline \in Nat /\ now \in Nat /\ Latency \in Nat /\ now <= deadline
                 /\ fetchEnd' = now' + (deadline - now)
    BY <1>4, WaitAssumption DEF ReadStatus, FetchInv, WaitTypes, ClockInv, Timed, Times
  <2>4. Timed => /\ fetchEnd' \in Nat /\ deadline <= fetchEnd'
                 /\ fetchEnd' <= deadline + Latency /\ now' <= deadline + 2 * Latency
    BY <2>2, <2>3
  <2>5. fetchEnd' \in Times /\ ended' \in BOOLEAN
    BY <1>4, <2>4 DEF ReadStatus, Times
  <2>6. WaitTypes'
    BY <1>4, <2>2, <2>5 DEF ReadStatus, FetchInv, WaitTypes, serverVars
  <2>7. EventsInv'
    BY <1>4, ResultAssumption
       DEF ReadStatus, FetchInv, EventsInv, EventsOnceInOrder, serverVars
  <2>8. ClockInv'
    BY <1>4, <2>4 DEF ReadStatus, ClockInv, Timed
  <2> QED
    BY <2>6, <2>7, <2>8 DEF FetchInv
<1>5. CASE FetchTimeOut
  BY <1>5, ReturnKeeps DEF FetchTimeOut, FetchInv, WaitTypes
<1>6. CASE FetchBatch
  BY <1>6, FetchBatchKeeps
<1>7. CASE Sleep
  <2>1. now' \in Nat
    BY <1>7 DEF Sleep, Elapse, FetchInv, WaitTypes
  <2>2. WaitTypes'
    BY <1>7, <2>1 DEF Sleep, FetchInv, WaitTypes, serverVars
  <2>3. EventsInv' /\ ClockInv'
    BY <1>7 DEF Sleep, FetchInv, EventsInv, EventsOnceInOrder, ClockInv, serverVars
  <2> QED
    BY <2>2, <2>3 DEF FetchInv
<1>8. CASE CallFails
  <2>1. PICK d \in 0 .. Latency : Elapse(d)
    BY <1>8 DEF CallFails
  <2>2. now' \in Nat
    BY <2>1, ElapseBound DEF FetchInv
  <2> QED
    BY <1>8, <2>2, ReturnKeeps DEF CallFails
<1> QED
  BY <1>1, <1>2, <1>3, <1>4, <1>5, <1>6, <1>7, <1>8 DEF WaitStep

\* A wait that does not look at the time takes no more than the calls before it
\* looks again: a step ends at most a poll, a batch and the sleep after the
\* deadline, unless time was up before it.
LEMMA StepIsTimely ==
  ASSUME FetchInv, WaitStep \/ CallFails, Timed
  PROVE  /\ deadline' = deadline /\ deadline \in Nat /\ now \in Nat /\ now' \in Nat
         /\ now <= now'
         /\ \/ now' = now
            \/ pc = "open" /\ now' <= now + Latency
            \/ now' <= deadline + 2 * Latency + 1
<1>1. deadline \in Nat /\ now \in Nat /\ Latency \in Nat
  BY WaitAssumption DEF Timed, FetchInv, WaitTypes, Times
<1>2. deadline' = deadline
  BY DEF WaitStep, OpenFetcher, TimeOut, CheckDeadline, ReadStatus, FetchTimeOut,
         FetchBatch, Sleep, CallFails
<1>3. CASE TimeOut \/ CheckDeadline \/ FetchTimeOut
  BY <1>1, <1>2, <1>3 DEF TimeOut, CheckDeadline, FetchTimeOut
<1>4. CASE Sleep
  BY <1>1, <1>2, <1>4 DEF Sleep, Elapse, FetchInv, ClockInv
<1>5. ASSUME NEW d \in 0 .. Latency, Elapse(d),
             pc \in {"open", "status"} \/ (pc = "batch" /\ now <= fetchEnd)
      PROVE  /\ now' \in Nat /\ now <= now'
             /\ \/ pc = "open" /\ now' <= now + Latency
                \/ now' <= deadline + 2 * Latency + 1
  <2>1. now' \in Nat /\ now <= now' /\ now' <= now + Latency
    BY <1>5, ElapseBound DEF FetchInv
  <2>2. CASE pc = "open"
    BY <2>1, <2>2
  <2>3. CASE pc = "status"
    <3>1. now <= deadline
      BY <2>3 DEF FetchInv, ClockInv
    <3> QED
      BY <1>1, <2>1, <3>1
  <2>4. CASE pc = "batch" /\ now <= fetchEnd
    <3>1. fetchEnd \in Nat /\ fetchEnd <= deadline + Latency
      BY <2>4 DEF FetchInv, ClockInv
    <3> QED
      BY <1>1, <2>1, <2>4, <3>1
  <2> QED
    BY <1>5, <2>2, <2>3, <2>4
<1>6. CASE OpenFetcher \/ ReadStatus \/ FetchBatch \/ CallFails
  <2>1. PICK d \in 0 .. Latency : Elapse(d)
    BY <1>6 DEF OpenFetcher, ReadStatus, FetchBatch, CallFails
  <2>2. pc \in {"open", "status"} \/ (pc = "batch" /\ now <= fetchEnd)
    BY <1>6 DEF OpenFetcher, ReadStatus, FetchBatch, CallFails
  <2>3. /\ now' \in Nat /\ now <= now'
        /\ (pc = "open" /\ now' <= now + Latency) \/ now' <= deadline + 2 * Latency + 1
    BY <1>5, <2>1, <2>2
  <2> QED
    BY <1>1, <1>2, <2>3
<1> QED
  BY <1>3, <1>4, <1>6 DEF WaitStep

\* A call starts afresh: nothing shown, nothing known to have ended.
LEMMA CallKeeps ==
  ASSUME FetchInv, NEW e \in Execs, NEW known, NEW t, Call(e, known, t), deadline' \in Times
  PROVE  FetchInv'
<1>1. WaitTypes'
  <2>1. pc' \in {"open", "returned"} /\ result' \in {None, "ended_before"}
    BY DEF Call, Return
  <2>2. UNCHANGED <<status, log, now, remaining, fetchEnd>> /\ waited' = e
        /\ ended' = FALSE /\ shown' = <<>> /\ fromEvent' = 0
    BY DEF Call, serverVars
  <2>3. remaining' \in Times /\ fetchEnd' \in Times /\ waited' \in Execs \cup {None}
    BY <2>2 DEF FetchInv, WaitTypes
  <2>4. /\ status' \in [Execs -> Statuses] /\ log' \in [Execs -> 0 .. MaxEvents]
        /\ now' \in Nat /\ shown' \in Seq(Nat)
    BY <2>2 DEF FetchInv, WaitTypes
  <2> QED
    BY <2>1, <2>2, <2>3, <2>4 DEF WaitTypes
<1>2. EventsInv'
  BY WaitAssumption, ResultAssumption
     DEF Call, Return, FetchInv, WaitTypes, EventsInv, EventsOnceInOrder, serverVars
<1>3. ClockInv'
  BY DEF Call, Return, ClockInv
<1> QED
  BY <1>1, <1>2, <1>3 DEF FetchInv
-----------------------------------------------------------------------------
\* Alone, the wait is called once, and its timeout is a natural number.
WaitInv ==
  /\ FetchInv
  /\ status \in [Execs -> {"started"} \cup END_STATES]
  /\ timeout \in Times
  /\ Timed /\ pc = "open" => now <= deadline
  /\ TimeoutIsExact

\* The system starts without a wait.
LEMMA WaitInit == Init => WaitInv
<1> SUFFICES ASSUME Init PROVE WaitInv
  OBVIOUS
<1>1. /\ WaitTypes /\ status \in [Execs -> {"started"} \cup END_STATES]
  <2>1. status \in [Execs -> {"started"} \cup END_STATES] /\ status \in [Execs -> Statuses]
    BY DEF Init, InitServer, Statuses, END_STATES
  <2>2. log \in [Execs -> 0 .. MaxEvents]
    BY WaitAssumption DEF Init, InitServer
  <2>3. pc = "idle" /\ result = None
    BY DEF Init, InitWait
  <2>4. /\ now = 0 /\ waited = None /\ deadline = None /\ remaining = None
        /\ fetchEnd = None /\ ended = FALSE /\ fromEvent = 0 /\ shown \in Seq(Nat)
    BY DEF Init, InitWait
  <2> QED
    BY <2>1, <2>2, <2>3, <2>4 DEF WaitTypes, Times
<1>2. EventsInv /\ ClockInv /\ TimeoutIsExact
  BY ResultAssumption DEF Init, InitServer, InitWait, EventsInv, EventsOnceInOrder, ClockInv,
         Timed, TimeoutIsExact, TimeoutIsDue, TimeoutIsTimely
<1> QED
  BY <1>1, <1>2 DEF Init, InitWait, WaitInv, FetchInv, Times

\* Every step preserves the invariant of the wait on its own.
LEMMA WaitInvStep == WaitInv /\ [Next]_vars => WaitInv'
<1> SUFFICES ASSUME WaitInv, [Next]_vars PROVE WaitInv'
  OBVIOUS
<1>0. FetchInv /\ TimeoutIsDue /\ TimeoutIsTimely
  BY DEF WaitInv, TimeoutIsExact
<1>1. CASE Server
  <2>1. FetchInv'
    BY <1>0, <1>1, ServerKeeps
  <2>2. UNCHANGED waitVars /\ status' \in [Execs -> {"started"} \cup END_STATES]
    BY <1>1 DEF Server, LogEvent, EndExecution, WaitInv
  <2> QED
    BY <2>1, <2>2 DEF WaitInv, waitVars, Timed, TimeoutIsExact, TimeoutIsDue, TimeoutIsTimely
<1>2. CASE Start
  <2>1. PICK e \in Execs, t \in Timeouts : Call(e, status[e], t) /\ pc = "idle"
    BY <1>2 DEF Start
  <2>2. /\ t \in Times /\ now \in Nat /\ deadline' \in Times
        /\ deadline' # None => deadline' \in Nat /\ now <= deadline'
    BY <1>0, <2>1, WaitAssumption DEF Call, FetchInv, WaitTypes, Times
  <2>3. FetchInv'
    BY <1>0, <2>1, <2>2, CallKeeps
  <2>4. Timed' /\ pc' = "open" => now' <= deadline'
    BY <2>1, <2>2 DEF Call, Timed
  <2>5. TimeoutIsDue' /\ TimeoutIsTimely'
    <3>1. result' \notin {"execution_timeout", "events_timeout"}
      BY <2>1, ResultAssumption DEF Call, Return
    <3>2. now' = now /\ (Timed' => now <= deadline' + 2 * Latency + 1)
      BY <2>1, <2>2, WaitAssumption DEF Call, Timed
    <3> QED
      BY <3>1, <3>2 DEF TimeoutIsDue, TimeoutIsTimely
  <2>6. timeout' = t /\ status' = status
    BY <2>1 DEF Call, serverVars
  <2> QED
    BY <2>2, <2>3, <2>4, <2>5, <2>6 DEF WaitInv, TimeoutIsExact
<1>3. CASE WaitStep \/ CallFails
  <2>1. FetchInv'
    BY <1>0, <1>3, WaitStepKeeps
  <2>2. UNCHANGED <<status, timeout, deadline>> /\ pc' # "open" /\ pc \notin {"idle", "returned"}
    BY <1>3 DEF WaitStep, OpenFetcher, TimeOut, CheckDeadline, ReadStatus, FetchTimeOut,
         FetchBatch, AfterBatch, Sleep, CallFails, Return, serverVars
  <2>3. TimeoutIsTimely'
    <3>1. Timed /\ pc = "open" => now <= deadline
      BY DEF WaitInv
    <3>2. Timed => now' <= deadline + 2 * Latency + 1
      BY <1>0, <1>3, <3>1, StepIsTimely, WaitAssumption DEF TimeoutIsTimely
    <3> QED
      BY <2>2, <3>2 DEF TimeoutIsTimely, Timed
  <2>4. TimeoutIsDue'
    <3>1. result = None
      BY <1>0, <2>2 DEF FetchInv, EventsInv
    <3>2. CASE TimeOut
      BY <3>2 DEF TimeOut, TimeoutIsDue, Timed
    <3>3. CASE FetchTimeOut
      <4>1. Timed /\ now > fetchEnd /\ deadline <= fetchEnd /\ fetchEnd \in Nat
            /\ deadline \in Nat /\ now \in Nat
        BY <1>0, <3>3 DEF FetchTimeOut, FetchInv, ClockInv, WaitTypes, Times, Timed
      <4>2. now > deadline
        BY <4>1
      <4> QED
        BY <3>3, <4>1, <4>2 DEF FetchTimeOut, TimeoutIsDue, Timed
    <3>4. CASE ~TimeOut /\ ~FetchTimeOut
      <4>1. result' \in {None, "ended", "client_error"}
        BY <1>3, <3>1, <3>4 DEF WaitStep, OpenFetcher, CheckDeadline, ReadStatus,
             FetchBatch, Sleep, CallFails, Return
      <4> QED
        BY <4>1, ResultAssumption DEF TimeoutIsDue
    <3> QED
      BY <3>2, <3>3, <3>4
  <2> QED
    BY <2>1, <2>2, <2>3, <2>4 DEF WaitInv, TimeoutIsExact
<1>4. CASE UNCHANGED vars
  BY <1>4 DEF vars, serverVars, waitVars, WaitInv, FetchInv, WaitTypes, EventsInv,
     EventsOnceInOrder, ClockInv, Timed, TimeoutIsExact, TimeoutIsDue, TimeoutIsTimely
<1> QED
  BY <1>1, <1>2, <1>3, <1>4 DEF Next

\* WaitInv holds in every reachable state.
LEMMA WaitInvAlways == Spec => []WaitInv
<1> QED
  BY WaitInit, WaitInvStep, PTL DEF Spec

\* Every variable keeps its type: no step fetches a negative batch or computes
\* a negative time.
THEOREM TypeCorrect == Spec => []TypeOK
<1>1. WaitInv => TypeOK
  BY DEF WaitInv, FetchInv, WaitTypes, TypeOK
<1> QED
  BY <1>1, WaitInvAlways, PTL

\* Whatever the batch size, and however events and polls interleave, events are
\* shown once and in order, and a wait that saw the end has shown them all.
THEOREM WaitShowsAllEvents == Spec => []EventsComplete
<1>1. WaitInv => EventsComplete
  <2> SUFFICES ASSUME WaitInv PROVE EventsOnceInOrder /\ EndMeansAllEvents
    BY DEF EventsComplete
  <2>1. EventsInv
    BY DEF WaitInv, FetchInv
  <2> QED
    BY <2>1, ResultAssumption DEF EventsInv, EndMeansAllEvents
<1> QED
  BY <1>1, WaitInvAlways, PTL

\* A timed wait neither gives up before its deadline nor overstays it by more
\* than a poll, a batch and the sleep, for any latency and any number of events.
THEOREM WaitTimesOutOnTime == Spec => []TimeoutIsExact
<1> QED
  BY WaitInvAlways, PTL DEF WaitInv
-----------------------------------------------------------------------------
Phases == {"start", "list", "call_creation", "creation", "restart", "call", "workflow",
           "done"}

\* Where the wait is and what it waits for, in each phase of the command.
PhaseInv ==
  /\ phase \in {"start", "list", "call_creation"} => pc = "idle"
  /\ phase \in {"restart", "call", "done"} => pc \in {"idle", "returned"}
  /\ phase \in {"start", "restart"} => pc = "idle" \/ waited = EnvCreation
  /\ phase = "creation" => waited = EnvCreation /\ pc # "idle"
  /\ phase = "call" => record = "started"
  /\ phase = "workflow" => waited = Workflow /\ pc # "idle" /\ result # "ended_before"
  /\ phase # "done" => report = None

\* The first wait may take what was allowed and one wait's overstay.
FirstEnd == allowed + 4 * Latency + 1

\* How much time has passed at most, and when the current wait is up: the part
\* of the timeout the first wait took is missing from the budget of the second.
BudgetInv ==
  /\ phase \in {"start", "list", "call_creation", "creation"} => budget = allowed
  /\ phase = "start" => now = 0
  /\ phase = "list" => before = now /\ now <= Latency
  /\ phase \in {"call_creation", "creation"} =>
       before \in Nat /\ before <= Latency /\ before <= now
  /\ phase = "call_creation" => now <= 2 * Latency
  /\ phase = "creation" =>
       /\ deadline \in Nat /\ deadline <= allowed + 2 * Latency
       /\ IF pc = "open" THEN now <= 2 * Latency ELSE now <= FirstEnd
  /\ phase = "restart" =>
       now <= FirstEnd /\ 0 <= now + budget /\ now + budget <= allowed + Latency
  /\ phase = "call" => /\ now <= FirstEnd + Latency
                       /\ 0 <= now + budget /\ now + budget <= allowed + 2 * Latency
  /\ phase = "workflow" =>
       /\ deadline \in Nat /\ deadline <= allowed + 2 * Latency
       /\ now <= FirstEnd + IF pc = "open" THEN Latency ELSE 2 * Latency
  /\ phase = "done" => now <= FirstEnd + 2 * Latency

\* The creation of the environment was started with the deployment.
CreationExists == status[EnvCreation] # "absent"

StartInv ==
  /\ FetchInv /\ StartTypeOK /\ CreationExists
  /\ PhaseInv /\ BudgetInv
  /\ ReportIsTrue
-----------------------------------------------------------------------------
\* Types of the numbers the proofs calculate with.
LEMMA Numbers ==
  ASSUME StartInv
  PROVE  now \in Nat /\ allowed \in Nat /\ budget \in Int /\ Latency \in Nat
<1> QED
  BY WaitAssumption DEF StartInv, FetchInv, WaitTypes, StartTypeOK

\* The command begins with the whole timeout and no wait.
LEMMA StartInvInit == StartInit => StartInv
<1> SUFFICES ASSUME StartInit PROVE StartInv
  OBVIOUS
<1>1. /\ phase = "start" /\ pc = "idle" /\ result = None /\ report = None /\ record = None
      /\ now = 0 /\ waited = None /\ deadline = None /\ remaining = None /\ fetchEnd = None
      /\ ended = FALSE /\ fromEvent = 0 /\ shown = <<>> /\ before = None
      /\ allowed \in Timeouts /\ budget = allowed
  BY DEF StartInit, InitWait
<1>2. status \in [Execs -> Statuses] /\ log \in [Execs -> 0 .. MaxEvents]
  BY WaitAssumption DEF StartInit, Statuses, END_STATES
<1>3. allowed \in Nat /\ budget \in Int /\ budget <= allowed
  BY <1>1, StartAssumption
<1>4. WaitTypes
  <2>1. shown \in Seq(Nat)
    BY <1>1
  <2> QED
    BY <1>1, <1>2, <2>1 DEF WaitTypes, Times
<1>5. EventsInv /\ ClockInv
  BY <1>1, ResultAssumption DEF EventsInv, EventsOnceInOrder, ClockInv, Timed
<1>6. StartTypeOK
  BY <1>1, <1>2, <1>3 DEF StartTypeOK, Times, Statuses
<1>7. PhaseInv /\ BudgetInv
  BY <1>1 DEF PhaseInv, BudgetInv
<1>8. ReportIsTrue
  BY <1>1, ReportAssumption DEF ReportIsTrue
<1>9. CreationExists
  BY StartAssumption DEF StartInit, CreationExists, END_STATES
<1> QED
  BY <1>4, <1>5, <1>6, <1>7, <1>8, <1>9 DEF StartInv, FetchInv
-----------------------------------------------------------------------------
\* The manager ends and logs only what is running: a report stays true.
LEMMA ServerKeepsStart ==
  ASSUME StartInv, Server, UNCHANGED startVars
  PROVE  StartInv'
<1>1. FetchInv'
  BY ServerKeeps DEF StartInv
<1>2. /\ UNCHANGED waitVars
      /\ \A f \in Execs : status[f] \in END_STATES => status'[f] = status[f] /\ log'[f] = log[f]
  BY DEF Server, LogEvent, EndExecution, StartInv, FetchInv, WaitTypes, END_STATES
<1>3. StartTypeOK'
  BY <1>1 DEF StartInv, StartTypeOK, startVars, FetchInv, WaitTypes, Statuses
<1>4. PhaseInv' /\ BudgetInv'
  BY <1>2 DEF StartInv, PhaseInv, BudgetInv, FirstEnd, startVars, waitVars
<1>5. ReportIsTrue'
  BY <1>2, StartAssumption DEF StartInv, ReportIsTrue, startVars, waitVars, END_STATES
<1>6. CreationExists'
  BY StartAssumption DEF Server, LogEvent, EndExecution, StartInv, FetchInv, WaitTypes,
     CreationExists, END_STATES
<1> QED
  BY <1>1, <1>3, <1>4, <1>5, <1>6 DEF StartInv

\* A step of the wait, in the phase of the command that waits.
LEMMA WaitKeepsStart ==
  ASSUME StartInv, WaitStep \/ CallFails, UNCHANGED startVars
  PROVE  StartInv'
<1>1. FetchInv'
  BY WaitStepKeeps DEF StartInv
<1>2. /\ UNCHANGED <<status, log, waited, deadline>> /\ pc' \notin {"idle", "open"}
      /\ pc \notin {"idle", "returned"}
      /\ result' = result \/ result' # "ended_before"
  BY DEF WaitStep, OpenFetcher, TimeOut, CheckDeadline, ReadStatus, FetchTimeOut,
         FetchBatch, AfterBatch, Sleep, CallFails, Return, serverVars
<1>3. phase \in {"creation", "workflow"}
  BY <1>2 DEF StartInv, PhaseInv, StartTypeOK
<1>4. StartTypeOK'
  BY <1>1 DEF StartInv, StartTypeOK, startVars, FetchInv, WaitTypes, Statuses
<1>5. PhaseInv'
  BY <1>2, <1>3 DEF StartInv, PhaseInv, startVars
<1>6. BudgetInv'
  <2>1. deadline \in Nat /\ Timed /\ deadline <= allowed + 2 * Latency
    BY <1>3, WaitAssumption DEF StartInv, BudgetInv, Timed
  <2>2. /\ now' \in Nat
        /\ \/ now' = now
           \/ pc = "open" /\ now' <= now + Latency
           \/ now' <= deadline + 2 * Latency + 1
    BY <2>1, StepIsTimely DEF StartInv
  <2>3. now' <= deadline + 2 * Latency + 1 => now' <= FirstEnd
    BY <2>1, <2>2, Numbers DEF FirstEnd
  <2>4. CASE phase = "creation"
    <3>1. now' <= FirstEnd
      <4>1. IF pc = "open" THEN now <= 2 * Latency ELSE now <= FirstEnd
        BY <2>4 DEF StartInv, BudgetInv
      <4> QED
        BY <4>1, <2>2, <2>3, Numbers DEF FirstEnd
    <3>2. before \in Nat /\ before <= now'
      <4>1. before \in Nat /\ before <= now /\ now <= now'
        BY <2>1, <2>4, StepIsTimely DEF StartInv, BudgetInv
      <4> QED
        BY <2>2, <4>1, Numbers
    <3> QED
      BY <1>2, <2>4, <3>1, <3>2 DEF StartInv, BudgetInv, FirstEnd, startVars
  <2>5. CASE phase = "workflow"
    <3>1. now' <= FirstEnd + 2 * Latency
      <4>1. now <= FirstEnd + IF pc = "open" THEN Latency ELSE 2 * Latency
        BY <2>5 DEF StartInv, BudgetInv
      <4> QED
        BY <4>1, <2>2, <2>3, Numbers DEF FirstEnd
    <3> QED
      BY <1>2, <2>1, <2>5, <3>1 DEF StartInv, BudgetInv, FirstEnd, startVars
  <2> QED
    BY <1>3, <2>4, <2>5
<1>7. ReportIsTrue'
  <2>1. report' = None
    BY <1>3 DEF StartInv, PhaseInv, startVars
  <2> QED
    BY <2>1, ReportAssumption DEF ReportIsTrue
<1> QED
  BY <1>1, <1>2, <1>4, <1>5, <1>6, <1>7 DEF StartInv, CreationExists
-----------------------------------------------------------------------------
\* While no wait is running, a remote call of the command leaves its last wait
\* as it was.
LEMMA CallElsewhereKeeps ==
  ASSUME StartInv, pc \in {"idle", "returned"}, now' \in Nat,
         UNCHANGED <<log, waited, deadline, remaining, fetchEnd, pc, ended, shown,
                     fromEvent, result>>,
         status' \in [Execs -> Statuses],
         pc = "idle" \/ status'[waited] = status[waited]
  PROVE  FetchInv'
<1>1. WaitTypes'
  BY DEF StartInv, FetchInv, WaitTypes
<1>2. EventsInv'
  BY DEF StartInv, FetchInv, EventsInv, EventsOnceInOrder
<1>3. ClockInv'
  BY DEF ClockInv
<1> QED
  BY <1>1, <1>2, <1>3 DEF FetchInv

\* Calls of the command take at most Latency.
LEMMA CallTime ==
  ASSUME StartInv, TakesTime
  PROVE  now' \in Nat /\ now <= now' /\ now' <= now + Latency
<1> QED
  BY Numbers DEF TakesTime

\* The workflow is started: at once, or after the environment's creation with
\* what is left of the timeout.
LEMMA AcceptedKeeps ==
  ASSUME StartInv, StartAccepted
  PROVE  StartInv'
<1>1. PICK s \in {"started", "queued", "scheduled"} :
        /\ status' = [status EXCEPT ![Workflow] = s]
        /\ record' = s
        /\ IF s = "started" THEN phase' = "call" /\ UNCHANGED report ELSE Tell(s)
  BY DEF StartAccepted
<1>2. /\ phase \in {"start", "restart"} /\ TakesTime /\ phase' \in {"call", "done"}
      /\ UNCHANGED <<log, waited, timeout, deadline, remaining, fetchEnd, pc, ended,
                     shown, fromEvent, result, allowed, budget, before>>
  BY <1>1 DEF StartAccepted, Tell
<1>3. now' \in Nat /\ now <= now' /\ now' <= now + Latency
  BY <1>2, CallTime
<1>4. status' \in [Execs -> Statuses]
  BY <1>1 DEF StartInv, FetchInv, WaitTypes, Statuses
<1>5. pc \in {"idle", "returned"} /\ (pc = "idle" \/ waited = EnvCreation)
  BY <1>2 DEF StartInv, PhaseInv
<1>6. status'[EnvCreation] = status[EnvCreation]
  BY <1>1, StartAssumption DEF StartInv, FetchInv, WaitTypes
<1>7. FetchInv'
  BY <1>2, <1>3, <1>4, <1>5, <1>6, CallElsewhereKeeps
<1>8. report' \in {None, "queued", "scheduled"} /\ (phase' # "done" => report' = None)
      /\ (phase' = "call" => record' = "started")
  BY <1>1, <1>2 DEF Tell, StartInv, PhaseInv
<1>9. StartTypeOK'
  BY <1>1, <1>2, <1>4, <1>8 DEF StartInv, StartTypeOK, Statuses
<1>10. PhaseInv'
  BY <1>2, <1>5, <1>8 DEF PhaseInv
<1>11. BudgetInv'
  <2>1. now <= FirstEnd /\ 0 <= now + budget /\ now + budget <= allowed + Latency
    <3>1. CASE phase = "start"
      BY <3>1, Numbers DEF StartInv, BudgetInv, FirstEnd
    <3>2. CASE phase = "restart"
      BY <3>2 DEF StartInv, BudgetInv
    <3> QED
      BY <1>2, <3>1, <3>2
  <2>2. /\ now' <= FirstEnd + Latency
        /\ 0 <= now' + budget /\ now' + budget <= allowed + 2 * Latency
    BY <1>3, <2>1, Numbers DEF FirstEnd
  <2>3. now' <= FirstEnd + 2 * Latency
    BY <1>3, <2>1, Numbers DEF FirstEnd
  <2> QED
    BY <1>2, <2>2, <2>3 DEF BudgetInv, FirstEnd
<1>12. ReportIsTrue'
  BY <1>8, ReportAssumption DEF ReportIsTrue
<1> QED
  BY <1>6, <1>7, <1>9, <1>10, <1>11, <1>12 DEF StartInv, CreationExists

\* The start is refused, once or for good.
LEMMA RefusedKeeps ==
  ASSUME StartInv, StartRefused
  PROVE  StartInv'
<1>1. /\ phase \in {"start", "restart"} /\ TakesTime /\ before' = now'
      /\ phase = "start" => phase' = "list" /\ report' = report
      /\ phase = "restart" => phase' = "done" /\ report' = "error"
      /\ UNCHANGED <<serverVars, waited, timeout, deadline, remaining, fetchEnd, pc,
                     ended, shown, fromEvent, result, allowed, budget, record>>
  BY DEF StartRefused, Tell
<1>2. now' \in Nat /\ now <= now' /\ now' <= now + Latency
  BY <1>1, CallTime
<1>3. pc \in {"idle", "returned"} /\ (phase = "start" => pc = "idle" /\ report = None)
  BY <1>1 DEF StartInv, PhaseInv
<1>4. FetchInv'
  <2>1. status' \in [Execs -> Statuses] /\ status'[waited] = status[waited]
    BY <1>1 DEF serverVars, StartInv, FetchInv, WaitTypes
  <2> QED
    BY <1>1, <1>2, <1>3, <2>1, CallElsewhereKeeps DEF serverVars
<1>5. StartTypeOK'
  BY <1>1, <1>2 DEF StartInv, StartTypeOK, serverVars, Times
<1>6. PhaseInv'
  BY <1>1, <1>3 DEF StartInv, PhaseInv
<1>7. BudgetInv'
  <2>1. CASE phase = "start"
    <3>1. now = 0 /\ budget = allowed /\ phase' = "list"
      BY <1>1, <2>1 DEF StartInv, BudgetInv
    <3>2. now' <= Latency
      BY <1>2, <3>1, Numbers
    <3> QED
      BY <1>1, <3>1, <3>2 DEF BudgetInv
  <2>2. CASE phase = "restart"
    <3>1. now <= FirstEnd /\ phase' = "done"
      BY <1>1, <2>2 DEF StartInv, BudgetInv
    <3>2. now' <= FirstEnd + 2 * Latency
      BY <1>2, <3>1, Numbers DEF FirstEnd
    <3> QED
      BY <1>1, <3>1, <3>2 DEF BudgetInv, FirstEnd
  <2> QED
    BY <1>1, <2>1, <2>2
<1>8. ReportIsTrue'
  BY <1>1, <1>3, ReportAssumption DEF ReportIsTrue
<1> QED
  BY <1>1, <1>4, <1>5, <1>6, <1>7, <1>8 DEF StartInv, CreationExists, serverVars

\* Other steps that end the command without a report about the workflow.
LEMMA FailureKeeps ==
  ASSUME StartInv, phase # "done", pc \in {"idle", "returned"},
         NEW r \in {"timed_out", "error"}, Tell(r),
         now <= FirstEnd + 2 * Latency,
         UNCHANGED <<vars, allowed, budget, before, record>>
  PROVE  StartInv'
<1>1. phase' = "done" /\ report' = r
  BY DEF Tell
<1>2. FetchInv'
  BY DEF StartInv, FetchInv, WaitTypes, EventsInv, EventsOnceInOrder, ClockInv, Timed,
         vars, serverVars, waitVars
<1>3. StartTypeOK'
  BY <1>1 DEF StartInv, StartTypeOK, vars, serverVars, waitVars
<1>4. PhaseInv' /\ BudgetInv'
  BY <1>1 DEF PhaseInv, BudgetInv, FirstEnd, vars, waitVars
<1>5. ReportIsTrue'
  BY <1>1 DEF ReportIsTrue
<1> QED
  BY <1>2, <1>3, <1>4, <1>5 DEF StartInv, CreationExists, vars, serverVars
-----------------------------------------------------------------------------
\* The record of the creation is got; the start or the listing may fail.
LEMMA ListCreationKeeps ==
  ASSUME StartInv, ListCreation
  PROVE  StartInv'
<1>1. /\ phase = "list" /\ phase' = "call_creation" /\ record' = status[EnvCreation]
      /\ TakesTime
      /\ UNCHANGED <<serverVars, waited, timeout, deadline, remaining, fetchEnd, pc,
                     ended, shown, fromEvent, result, allowed, budget, before, report>>
  BY DEF ListCreation
<1>2. now' \in Nat /\ now <= now' /\ now' <= now + Latency
  BY <1>1, CallTime
<1>3. pc = "idle" /\ report = None
  BY <1>1 DEF StartInv, PhaseInv
<1>4. FetchInv'
  <2>1. status' \in [Execs -> Statuses]
    BY <1>1 DEF serverVars, StartInv, FetchInv, WaitTypes
  <2> QED
    BY <1>1, <1>2, <1>3, <2>1, CallElsewhereKeeps DEF serverVars
<1>5. record' \in {"absent", "queued", "scheduled", "started"} \cup END_STATES
  BY <1>1, StartAssumption DEF StartInv, StartTypeOK
<1>6. record' # "absent"
  BY <1>1 DEF StartInv, CreationExists
<1>7. StartTypeOK'
  BY <1>1, <1>5, <1>6 DEF StartInv, StartTypeOK, serverVars
<1>8. PhaseInv'
  BY <1>1, <1>3 DEF StartInv, PhaseInv
<1>9. BudgetInv'
  <2>1. before = now /\ now <= Latency /\ budget = allowed
    BY <1>1 DEF StartInv, BudgetInv
  <2>2. now' <= 2 * Latency /\ before \in Nat /\ before <= Latency /\ before <= now'
    BY <1>2, <2>1, Numbers
  <2> QED
    BY <1>1, <2>1, <2>2 DEF BudgetInv
<1>10. ReportIsTrue'
  BY <1>1, <1>3, ReportAssumption DEF ReportIsTrue
<1> QED
  BY <1>1, <1>4, <1>7, <1>8, <1>9, <1>10 DEF StartInv, CreationExists, serverVars

\* The command calls a wait: for the creation, then for the workflow.
LEMMA CallWaitKeeps ==
  ASSUME StartInv, WaitForCreation \/ WaitForWorkflow
  PROVE  StartInv'
<1>1. PICK e \in {EnvCreation, Workflow} :
        /\ e = EnvCreation => CallWait("call_creation", e, "creation")
        /\ e = Workflow => CallWait("call", e, "workflow")
  BY StartAssumption DEF WaitForCreation, WaitForWorkflow
<1>2. /\ Call(e, record, budget) /\ UNCHANGED <<allowed, budget, before, record, report>>
      /\ e = EnvCreation => phase = "call_creation" /\ phase' = "creation"
      /\ e = Workflow => phase = "call" /\ phase' = "workflow"
  BY <1>1 DEF CallWait
<1>3. /\ UNCHANGED <<status, log, now>> /\ waited' = e
      /\ pc' \in {"open", "returned"} /\ result' \in {None, "ended_before"}
      /\ record = "started" => result' = None
      /\ deadline' = now + budget
  BY <1>2, StartAssumption DEF Call, Return, serverVars, StartInv, StartTypeOK, END_STATES
<1>4. deadline' \in Nat /\ deadline' <= allowed + 2 * Latency
  <2>1. CASE e = EnvCreation
    <3>1. budget = allowed /\ now <= 2 * Latency
      BY <1>2, <2>1 DEF StartInv, BudgetInv
    <3> QED
      BY <1>3, <3>1, Numbers
  <2>2. CASE e = Workflow
    <3>1. 0 <= now + budget /\ now + budget <= allowed + 2 * Latency
      BY <1>2, <2>2 DEF StartInv, BudgetInv
    <3> QED
      BY <1>3, <3>1, Numbers
  <2> QED
    BY <2>1, <2>2
<1>5. FetchInv'
  BY <1>2, <1>4, StartAssumption, CallKeeps DEF StartInv, Times
<1>6. StartTypeOK'
  BY <1>2, <1>3 DEF StartInv, StartTypeOK
<1>7. report' = None
  BY <1>2 DEF StartInv, PhaseInv
<1>8. PhaseInv'
  BY <1>2, <1>3, <1>7, ResultAssumption DEF StartInv, PhaseInv
<1>9. BudgetInv'
  <2>1. CASE e = EnvCreation
    <3>1. /\ budget = allowed /\ now <= 2 * Latency
          /\ before \in Nat /\ before <= Latency /\ before <= now
      BY <1>2, <2>1 DEF StartInv, BudgetInv
    <3>2. now <= FirstEnd
      BY <3>1, Numbers DEF FirstEnd
    <3> QED
      BY <1>2, <1>3, <1>4, <2>1, <3>1, <3>2 DEF BudgetInv, FirstEnd
  <2>2. CASE e = Workflow
    <3>1. now <= FirstEnd + Latency
      BY <1>2, <2>2 DEF StartInv, BudgetInv
    <3>2. now <= FirstEnd + 2 * Latency
      BY <3>1, Numbers DEF FirstEnd
    <3> QED
      BY <1>2, <1>3, <1>4, <2>2, <3>1, <3>2 DEF BudgetInv, FirstEnd
  <2> QED
    BY <2>1, <2>2
<1>10. ReportIsTrue'
  BY <1>7, ReportAssumption DEF ReportIsTrue
<1> QED
  BY <1>3, <1>5, <1>6, <1>8, <1>9, <1>10 DEF StartInv, CreationExists

\* After the creation, the second start gets what its wait left of the timeout.
LEMMA CreationWaitedKeeps ==
  ASSUME StartInv, CreationWaited
  PROVE  StartInv'
<1>1. phase = "creation" /\ pc = "returned" /\ UNCHANGED <<vars, allowed, before, record>>
  BY DEF CreationWaited
<1>2. /\ waited = EnvCreation /\ report = None /\ budget = allowed
      /\ before \in Nat /\ before <= Latency /\ now <= FirstEnd
  BY <1>1 DEF StartInv, PhaseInv, BudgetInv
<1>3. CASE Succeeded
  <2>1. phase' = "restart" /\ budget' = budget - (now - before) /\ report' = None
    BY <1>2, <1>3 DEF CreationWaited, LeftAfterFirstWait
  <2>2. FetchInv'
    BY <1>1 DEF StartInv, FetchInv, WaitTypes, EventsInv, EventsOnceInOrder, ClockInv,
            Timed, vars, serverVars, waitVars
  <2>3. budget' \in Int /\ budget' <= allowed
    <3>1. before <= now
      BY <1>1 DEF StartInv, BudgetInv
    <3> QED
      BY <1>2, <2>1, <3>1, Numbers
  <2>4. StartTypeOK'
    BY <1>1, <2>1, <2>3 DEF StartInv, StartTypeOK, vars, serverVars, waitVars
  <2>5. PhaseInv'
    BY <1>1, <1>2, <2>1 DEF PhaseInv, vars, waitVars
  <2>6. BudgetInv'
    <3>1. now + budget' = allowed + before
      BY <1>2, <2>1, Numbers
    <3>2. 0 <= now + budget' /\ now + budget' <= allowed + Latency
      BY <1>2, <3>1, Numbers
    <3> QED
      BY <1>1, <1>2, <2>1, <3>2 DEF BudgetInv, FirstEnd, vars, waitVars
  <2>7. ReportIsTrue'
    BY <2>1, ReportAssumption DEF ReportIsTrue
  <2> QED
    BY <1>1, <2>2, <2>4, <2>5, <2>6, <2>7 DEF StartInv, CreationExists, vars, serverVars
<1>4. CASE ~Succeeded
  <2>1. PICK r \in {"timed_out", "error"} : Tell(r)
    BY <1>4 DEF CreationWaited, TellFailure
  <2>2. UNCHANGED budget
    BY <1>4 DEF CreationWaited
  <2>3. now <= FirstEnd + 2 * Latency
    BY <1>2, Numbers DEF FirstEnd
  <2> QED
    BY <1>1, <2>1, <2>2, <2>3, FailureKeeps
<1> QED
  BY <1>3, <1>4

\* The outcome is told of a workflow whose wait saw its end.
LEMMA WorkflowWaitedKeeps ==
  ASSUME StartInv, WorkflowWaited
  PROVE  StartInv'
<1>1. phase = "workflow" /\ pc = "returned" /\ UNCHANGED <<vars, allowed, budget, before, record>>
  BY DEF WorkflowWaited
<1>2. now <= FirstEnd + 2 * Latency /\ waited = Workflow /\ result # "ended_before"
  BY <1>1 DEF StartInv, PhaseInv, BudgetInv
<1>3. CASE Succeeded
  <2>1. /\ phase' = "done"
        /\ report' = IF status[Workflow] = "failed" THEN "failed" ELSE "finished"
    BY <1>3 DEF WorkflowWaited, Tell, OutcomeOf
  <2>2. /\ status[Workflow] \in END_STATES /\ Len(shown) = log[Workflow]
    BY <1>1, <1>2, <1>3 DEF Succeeded, StartInv, FetchInv, EventsInv
  <2>3. FetchInv'
    BY <1>1 DEF StartInv, FetchInv, WaitTypes, EventsInv, EventsOnceInOrder, ClockInv,
            Timed, vars, serverVars, waitVars
  <2>4. StartTypeOK'
    BY <1>1, <2>1 DEF StartInv, StartTypeOK, vars, serverVars, waitVars
  <2>5. PhaseInv' /\ BudgetInv'
    BY <1>1, <1>2, <2>1 DEF PhaseInv, BudgetInv, FirstEnd, vars, waitVars
  <2>6. ReportIsTrue'
    BY <1>1, <2>1, <2>2 DEF ReportIsTrue, END_STATES, vars, serverVars, waitVars
  <2> QED
    BY <1>1, <2>3, <2>4, <2>5, <2>6 DEF StartInv, CreationExists, vars, serverVars
<1>4. CASE ~Succeeded
  <2>1. PICK r \in {"timed_out", "error"} : Tell(r)
    BY <1>4 DEF WorkflowWaited, TellFailure
  <2> QED
    BY <1>1, <1>2, <2>1, FailureKeeps
<1> QED
  BY <1>3, <1>4

\* Any other error ends the command.
LEMMA StartFailsKeeps ==
  ASSUME StartInv, StartFails
  PROVE  StartInv'
<1>1. phase \in {"start", "restart", "list"} /\ Tell("error")
      /\ UNCHANGED <<vars, allowed, budget, before, record>>
  BY DEF StartFails
<1>2. pc \in {"idle", "returned"}
  BY <1>1 DEF StartInv, PhaseInv
<1>3. now <= FirstEnd + 2 * Latency
  <2>1. now <= Latency \/ now <= FirstEnd
    BY <1>1, Numbers DEF StartInv, BudgetInv
  <2> QED
    BY <2>1, Numbers DEF FirstEnd
<1> QED
  BY <1>1, <1>2, <1>3, FailureKeeps
-----------------------------------------------------------------------------
\* StartInv holds in every reachable state.
LEMMA StartInvAlways == StartSpec => []StartInv
<1>1. StartInv /\ [StartNext]_allVars => StartInv'
  <2> SUFFICES ASSUME StartInv, [StartNext]_allVars PROVE StartInv'
    OBVIOUS
  <2>1. CASE (WaitStep \/ CallFails) /\ UNCHANGED startVars
    BY <2>1, WaitKeepsStart
  <2>2. CASE Server /\ UNCHANGED startVars
    BY <2>2, ServerKeepsStart
  <2>3. CASE StartAccepted
    BY <2>3, AcceptedKeeps
  <2>4. CASE StartRefused
    BY <2>4, RefusedKeeps
  <2>5. CASE ListCreation
    BY <2>5, ListCreationKeeps
  <2>6. CASE WaitForCreation \/ WaitForWorkflow
    BY <2>6, CallWaitKeeps
  <2>7. CASE CreationWaited
    BY <2>7, CreationWaitedKeeps
  <2>8. CASE WorkflowWaited
    BY <2>8, WorkflowWaitedKeeps
  <2>9. CASE StartFails
    BY <2>9, StartFailsKeeps
  <2>10. CASE UNCHANGED allVars
    <3>1. FetchInv'
      BY <2>10 DEF StartInv, FetchInv, WaitTypes, EventsInv, EventsOnceInOrder, ClockInv,
              Timed, allVars, vars, serverVars, waitVars
    <3>2. StartTypeOK' /\ CreationExists' /\ ReportIsTrue'
      BY <2>10 DEF StartInv, StartTypeOK, CreationExists, ReportIsTrue,
              allVars, vars, serverVars, waitVars, startVars
    <3>3. PhaseInv' /\ BudgetInv'
      BY <2>10 DEF StartInv, PhaseInv, BudgetInv, FirstEnd, allVars, vars, waitVars,
              startVars
    <3> QED
      BY <3>1, <3>2, <3>3 DEF StartInv
  <2> QED
    BY <2>1, <2>2, <2>3, <2>4, <2>5, <2>6, <2>7, <2>8, <2>9, <2>10
       DEF StartNext, ClientStep, Faults
<1> QED
  BY <1>1, StartInvInit, PTL DEF StartSpec

\* What the user is told of the workflow is how it ended, and all of its events
\* were shown before, with or without a first wait for the environment.
THEOREM OutcomeIsTold == StartSpec => []ReportIsTrue
<1> QED
  BY StartInvAlways, PTL DEF StartInv

\* The two waits share the timeout: for every timeout and latency the command is
\* done six calls and a sleep after it at the latest.
THEOREM CommandKeepsTimeout == StartSpec => []TimeoutIsShared
<1>1. StartInv => TimeoutIsShared
  <2> SUFFICES ASSUME StartInv PROVE StartTypeOK /\ now <= allowed + 6 * Latency + 1
    BY DEF TimeoutIsShared, TotalTimeIsBounded
  <2>1. StartTypeOK
    BY DEF StartInv
  <2>2. now <= FirstEnd + 2 * Latency
    <3>1. /\ now <= FirstEnd + Latency \/ now <= FirstEnd + 2 * Latency
             \/ now <= 2 * Latency \/ now <= FirstEnd
      BY <2>1, Numbers DEF StartInv, BudgetInv, StartTypeOK
    <3> QED
      BY <3>1, Numbers DEF FirstEnd
  <2> QED
    BY <2>1, <2>2, Numbers DEF FirstEnd
<1> QED
  BY <1>1, StartInvAlways, PTL
=============================================================================
