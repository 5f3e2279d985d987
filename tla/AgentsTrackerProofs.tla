-------------------------- MODULE AgentsTrackerProofs --------------------------
(***************************************************************************)
(* Machine-checked proofs about AgentsTracker, for any set of deployments  *)
(* and any number of tracker threads.                                      *)
(***************************************************************************)
EXTENDS AgentsTracker, TLAPS

\* The strengthening that makes TrackerInv inductive: no thread runs before the
\* executions are queued, only a running one has a job, and an execution is in
\* one place at a time.
WorkInv ==
  /\ phase = "starting" => /\ queue = <<>> /\ errors = <<>>
                           /\ \A t \in Trackers : thread[t] = "new"
  /\ \A t \in Trackers : thread[t] # "running" => job[t] = None
  /\ Elements(queue) \cap Elements(errors) = {}

\* Where the execution of d is to be found.
Accounted(d) ==
  \/ d \in Elements(queue)
  \/ \E t \in Trackers : job[t] = d
  \/ d \in Elements(errors)
  \/ status[d] \in {"terminated", "cancelled"}

\* The executions are being tracked, or have been.
Tracking == phase \in {"spawning", "polling"} \/ report \in {"ok", "errors"}

\* The strengthening behind ResultIsTrue: a thread ends by itself only when the
\* queue is empty, and an execution that leaves the queue stays accounted for.
ResultInv ==
  /\ phase # "done" => report = None
  /\ report \in {"raised", "not waited"} => \A t \in Trackers : thread[t] = "new"
  /\ phase = "polling" => Trackers # {}
  /\ \A t \in Trackers : thread[t] = "ended" => queue = <<>> \/ report = "interrupted"
  /\ report \in {"ok", "errors"} => AllDead /\ queue = <<>>
  /\ report = "ok" => errors = <<>>
  /\ Tracking => \A d \in Deployments : Accounted(d)

Inv == TrackerInv /\ WorkInv
-----------------------------------------------------------------------------
\* Appending an element a list does not hold keeps its elements distinct.
LEMMA AppendNew ==
  ASSUME NEW S, NEW s \in Seq(S), NEW e \in S, Distinct(s), e \notin Elements(s)
  PROVE  /\ Append(s, e) \in Seq(S)
         /\ Distinct(Append(s, e))
         /\ Elements(Append(s, e)) = Elements(s) \cup {e}
<1> DEFINE t == Append(s, e)
           n == Len(s)
<1>1. /\ t \in Seq(S) /\ n \in Nat /\ DOMAIN s = 1 .. n /\ DOMAIN t = 1 .. n + 1
      /\ t[n + 1] = e /\ \A i \in 1 .. n : t[i] = s[i]
  OBVIOUS
<1> HIDE DEF t, n
<1>2. \A i \in DOMAIN t : i \in DOMAIN s \/ i = n + 1
  BY <1>1
<1>3. \A i \in DOMAIN s : t[i] # e
  BY <1>1 DEF Elements
<1>4. Distinct(t)
  BY <1>1, <1>2, <1>3 DEF Distinct
<1>5. Elements(t) = Elements(s) \cup {e}
  <2>1. \A i \in DOMAIN t : t[i] \in Elements(s) \cup {e}
    BY <1>1, <1>2 DEF Elements
  <2>2. \A i \in DOMAIN s : s[i] \in Elements(t)
    BY <1>1 DEF Elements
  <2>3. e \in Elements(t)
    BY <1>1 DEF Elements
  <2> QED
    BY <2>1, <2>2, <2>3 DEF Elements
<1> QED
  BY <1>1, <1>4, <1>5 DEF t

\* The head of a list of distinct elements is not in its tail.
LEMMA TakeFirst ==
  ASSUME NEW S, NEW s \in Seq(S), s # <<>>, Distinct(s)
  PROVE  /\ Head(s) \in S
         /\ Tail(s) \in Seq(S)
         /\ Distinct(Tail(s))
         /\ Head(s) \notin Elements(Tail(s))
         /\ Elements(s) = Elements(Tail(s)) \cup {Head(s)}
<1> DEFINE t == Tail(s)
           n == Len(s)
<1>1. /\ n \in Nat /\ n # 0 /\ DOMAIN s = 1 .. n /\ s[1] = Head(s) /\ Head(s) \in S
      /\ t \in Seq(S) /\ DOMAIN t = 1 .. n - 1
      /\ \A i \in 1 .. n - 1 : t[i] = s[i + 1]
  OBVIOUS
<1> HIDE DEF t, n
<1>2. \A i \in 1 .. n - 1 : i + 1 \in 1 .. n /\ i + 1 # 1
  BY <1>1
<1>3. Distinct(t)
  <2> SUFFICES ASSUME NEW i \in DOMAIN t, NEW j \in DOMAIN t, t[i] = t[j] PROVE i = j
    BY DEF Distinct
  <2>1. i + 1 = j + 1
    BY <1>1, <1>2 DEF Distinct
  <2> QED
    BY <2>1, <1>1
<1>4. Head(s) \notin Elements(t)
  <2> SUFFICES ASSUME NEW i \in DOMAIN t, t[i] = s[1] PROVE FALSE
    BY <1>1 DEF Elements
  <2>1. i + 1 = 1
    BY <1>1, <1>2 DEF Distinct
  <2> QED
    BY <2>1, <1>1, <1>2
<1>5. Elements(s) = Elements(t) \cup {Head(s)}
  <2>1. ASSUME NEW i \in DOMAIN s PROVE s[i] \in Elements(t) \cup {Head(s)}
    <3>1. CASE i = 1
      BY <3>1, <1>1
    <3>2. CASE i # 1
      <4>1. i - 1 \in 1 .. n - 1 /\ (i - 1) + 1 = i
        BY <3>2, <1>1
      <4> QED
        BY <4>1, <1>1 DEF Elements
    <3> QED
      BY <3>1, <3>2
  <2>2. \A i \in DOMAIN t : t[i] \in Elements(s)
    BY <1>1, <1>2 DEF Elements
  <2>3. Head(s) \in Elements(s)
    BY <1>1 DEF Elements
  <2> QED
    BY <2>1, <2>2, <2>3 DEF Elements
<1> QED
  BY <1>1, <1>3, <1>4, <1>5 DEF t
\* The elements of a list of deployments are deployments.
LEMMA ElementsIn ==
  ASSUME NEW S, NEW s \in Seq(S)
  PROVE  Elements(s) \subseteq S /\ Elements(<<>>) = {}
<1>1. \A i \in DOMAIN s : s[i] \in S
  OBVIOUS
<1> QED
  BY <1>1 DEF Elements
-----------------------------------------------------------------------------
\* The command starts with nothing queued and no thread.
LEMMA InvInit == Init => Inv
<1> QED
  BY TrackerAssumption
     DEF Init, Inv, TrackerInv, TypeOK, TrackedByOne, WorkInv, Distinct, Elements, END_STATES

\* A job leaves its thread: it is recorded as an error or not at all.
LEMMA JobDone ==
  ASSUME Inv, NEW t \in Trackers, job[t] # None,
         errors' = errors \/ errors' = Append(errors, job[t]),
         job' = [job EXCEPT ![t] = None], UNCHANGED <<status, mainVars, queue, thread>>
  PROVE  Inv'
<1> USE DEF Inv, TrackerInv
<1>1. job[t] \in Deployments /\ thread[t] = "running" /\ phase # "starting"
  BY DEF TypeOK, WorkInv
<1>2. /\ errors' \in Seq(Deployments) /\ Distinct(errors')
      /\ Elements(errors') \subseteq Elements(errors) \cup {job[t]}
  <2>1. CASE errors' = errors
    BY <2>1 DEF TypeOK
  <2>2. CASE errors' = Append(errors, job[t])
    <3>1. errors \in Seq(Deployments) /\ Distinct(errors) /\ job[t] \notin Elements(errors)
      BY DEF TypeOK, TrackedByOne
    <3> QED
      BY <2>2, <3>1, <1>1, AppendNew
  <2> QED
    BY <2>1, <2>2
<1>3. Elements(queue') = Elements(queue)
  BY DEF mainVars
<1>4. TypeOK'
  BY <1>2 DEF TypeOK, mainVars
<1>5. TrackedByOne'
  <2>1. \A u \in Trackers : u # t => job'[u] = job[u] /\ job[u] # job[t]
    BY DEF TypeOK, TrackedByOne
  <2>2. job'[t] = None /\ None \notin Elements(queue) \cup Elements(errors')
    <3>1. Elements(queue) \subseteq Deployments /\ Elements(errors') \subseteq Deployments
      BY <1>2, ElementsIn DEF TypeOK
    <3> QED
      BY <3>1, TrackerAssumption DEF TypeOK
  <2> QED
    BY <1>2, <1>3, <2>1, <2>2 DEF TrackedByOne
<1>6. WorkInv'
  <2>1. Elements(queue') \cap Elements(errors') = {}
    BY <1>2, <1>3 DEF TrackedByOne, WorkInv
  <2> QED
    BY <1>1, <2>1 DEF TypeOK, WorkInv, mainVars
<1> QED
  BY <1>4, <1>5, <1>6

\* Every step keeps every execution in one place.
LEMMA InvStep == Inv /\ [Next]_vars => Inv'
<1> SUFFICES ASSUME Inv, [Next]_vars PROVE Inv'
  OBVIOUS
<1> USE DEF Inv, TrackerInv
<1>1. ASSUME NEW d \in Deployments, EndExecution(d) PROVE Inv'
  <2>1. TypeOK'
    BY <1>1 DEF EndExecution, TypeOK, mainVars
  <2>2. TrackedByOne' /\ WorkInv'
    BY <1>1 DEF EndExecution, TrackedByOne, WorkInv, mainVars, Elements
  <2> QED
    BY <2>1, <2>2
<1>2. ASSUME NEW d \in Deployments, Start(d) PROVE Inv'
  <2>1. started' \in Seq(Deployments) /\ Distinct(started')
    BY <1>2, AppendNew DEF Start, TypeOK
  <2>2. TypeOK'
    BY <1>2, <2>1 DEF Start, TypeOK
  <2>3. TrackedByOne' /\ WorkInv'
    BY <1>2 DEF Start, TrackedByOne, WorkInv, Elements
  <2> QED
    BY <2>2, <2>3
<1>3. CASE StartFails
  <2>1. TypeOK'
    BY <1>3 DEF StartFails, Report, TypeOK
  <2>2. TrackedByOne' /\ WorkInv'
    BY <1>3 DEF StartFails, Report, TrackedByOne, WorkInv, Elements
  <2> QED
    BY <2>1, <2>2
<1>4. CASE AllStarted
  <2>1. phase = "starting" /\ errors = <<>> /\ UNCHANGED <<status, started, wait, thread, job, errors>>
    BY <1>4 DEF AllStarted, WorkInv
  <2>2. \A t \in Trackers : job[t] = None
    BY <2>1 DEF WorkInv
  <2>3. /\ queue' \in Seq(Deployments) /\ Distinct(queue')
        /\ phase' \in {"spawning", "done"} /\ report' \in {report, "not waited"}
    BY <1>4 DEF AllStarted, Report, TypeOK
  <2>4. TypeOK'
    BY <2>1, <2>3 DEF TypeOK
  <2>5. Elements(queue') \subseteq Deployments /\ Elements(errors') = {}
    BY <2>1, <2>3, ElementsIn
  <2>6. TrackedByOne' /\ WorkInv'
    BY <2>1, <2>2, <2>3, <2>5, TrackerAssumption DEF TrackedByOne, WorkInv
  <2> QED
    BY <2>4, <2>6
<1>5. ASSUME NEW t \in Trackers, Spawn(t) PROVE Inv'
  <2>1. phase' \in {"spawning", "polling"}
    BY <1>5 DEF Spawn
  <2>2. TypeOK'
    BY <1>5, <2>1 DEF Spawn, TypeOK
  <2>3. TrackedByOne' /\ WorkInv'
    <3>1. \A u \in Trackers : thread'[u] # "running" => thread[u] # "running"
      BY <1>5 DEF Spawn, TypeOK
    <3> QED
      BY <1>5, <2>1, <3>1 DEF Spawn, TrackedByOne, WorkInv, Elements
  <2> QED
    BY <2>2, <2>3
<1>6. CASE Finish
  <2>1. TypeOK'
    BY <1>6 DEF Finish, Report, TypeOK
  <2>2. TrackedByOne' /\ WorkInv'
    BY <1>6 DEF Finish, Report, TrackedByOne, WorkInv, Elements
  <2> QED
    BY <2>1, <2>2
<1>7. CASE Interrupt
  <2>1. TypeOK'
    BY <1>7 DEF Interrupt, Report, TypeOK
  <2>2. Elements(queue') \subseteq Deployments /\ Elements(errors') \subseteq Deployments
    BY <2>1, ElementsIn DEF TypeOK
  <2>3. TrackedByOne' /\ WorkInv'
    BY <1>7, <2>2, TrackerAssumption DEF Interrupt, Report, TrackedByOne, WorkInv, Elements
  <2> QED
    BY <2>1, <2>3
<1>8. ASSUME NEW t \in Trackers, Take(t) PROVE Inv'
  <2> DEFINE d == Head(queue)
  <2>1. /\ Idle(t) /\ queue # <<>> /\ job' = [job EXCEPT ![t] = d] /\ queue' = Tail(queue)
        /\ UNCHANGED <<status, mainVars, thread, errors>>
    BY <1>8 DEF Take, RestAfterGet
  <2>2. /\ d \in Deployments /\ queue' \in Seq(Deployments) /\ Distinct(queue')
        /\ d \notin Elements(queue') /\ Elements(queue) = Elements(queue') \cup {d}
    BY <2>1, TakeFirst DEF TypeOK
  <2> HIDE DEF d
  <2>3. TypeOK'
    BY <2>1, <2>2 DEF TypeOK, mainVars
  <2>4. d \notin Elements(errors) /\ \A u \in Trackers : job[u] # d
    BY <2>2 DEF WorkInv, TrackedByOne
  <2>5. Elements(errors') = Elements(errors)
    BY <2>1
  <2>6. TrackedByOne'
    BY <2>1, <2>2, <2>4, <2>5 DEF TrackedByOne, TypeOK
  <2>7. WorkInv'
    BY <2>1, <2>2, <2>5 DEF WorkInv, Idle, TypeOK, mainVars
  <2> QED
    BY <2>3, <2>6, <2>7
<1>9. ASSUME NEW t \in Trackers, NothingLeft(t) PROVE Inv'
  <2>1. TypeOK'
    BY <1>9 DEF NothingLeft, TypeOK, mainVars
  <2>2. TrackedByOne' /\ WorkInv'
    <3>1. \A u \in Trackers : u # t => thread'[u] = thread[u]
      BY <1>9 DEF NothingLeft, TypeOK
    <3>2. job[t] = None /\ phase # "starting"
      BY <1>9 DEF NothingLeft, Idle, WorkInv
    <3>3. UNCHANGED <<phase, queue, errors, job>>
      BY <1>9 DEF NothingLeft, mainVars
    <3> QED
      BY <3>1, <3>2, <3>3 DEF TrackedByOne, WorkInv, Elements
  <2> QED
    BY <2>1, <2>2
<1>10. ASSUME NEW t \in Trackers, Waited(t) PROVE Inv'
  BY <1>10, JobDone DEF Waited, ErrorsAfter
<1>11. ASSUME NEW t \in Trackers, WaitFails(t) PROVE Inv'
  BY <1>11, JobDone DEF WaitFails
<1>12. CASE UNCHANGED vars
  <2>1. TypeOK'
    BY <1>12 DEF vars, mainVars, TypeOK
  <2>2. TrackedByOne' /\ WorkInv'
    BY <1>12 DEF vars, mainVars, TrackedByOne, WorkInv, Elements
  <2> QED
    BY <2>1, <2>2
<1> QED
  BY <1>1, <1>2, <1>3, <1>4, <1>5, <1>6, <1>7, <1>8, <1>9, <1>10, <1>11, <1>12
     DEF Next, Main, Track

\* Inv holds in every reachable state.
LEMMA InvAlways == Spec => []Inv
<1> QED
  BY InvInit, InvStep, PTL DEF Spec

\* However many threads there are, every execution is queued, tracked and
\* reported at most once, by one thread.
THEOREM TrackedOnce == Spec => []TrackerInv
<1> QED
  BY InvAlways, PTL DEF Inv
-----------------------------------------------------------------------------
\* Nothing is queued, tracked or reported when the command starts.
LEMMA ResultInit == Init => ResultInv
<1> QED
  BY NoneAssumption DEF Init, ResultInv, Tracking

\* A thread drops its job: the execution has succeeded, or is in the summary.
LEMMA JobAccounted ==
  ASSUME Inv, ResultInv, NEW t \in Trackers, job[t] # None,
         \/ errors' = errors /\ status[job[t]] \in {"terminated", "cancelled"}
         \/ errors' = Append(errors, job[t]),
         job' = [job EXCEPT ![t] = None], UNCHANGED <<status, mainVars, queue, thread>>
  PROVE  ResultInv'
<1> USE DEF Inv, TrackerInv
<1>1. job[t] \in Deployments /\ thread[t] = "running" /\ errors \in Seq(Deployments)
  BY DEF TypeOK, WorkInv
<1>2. report \notin {"ok", "errors"}
  BY <1>1 DEF ResultInv, AllDead
<1>3. Elements(queue') = Elements(queue)
  BY DEF mainVars
<1>4. /\ Elements(errors) \subseteq Elements(errors')
      /\ job[t] \in Elements(errors') \/ status'[job[t]] \in {"terminated", "cancelled"}
  <2>1. CASE errors' = errors /\ status[job[t]] \in {"terminated", "cancelled"}
    BY <2>1
  <2>2. CASE errors' = Append(errors, job[t])
    <3>1. Distinct(errors) /\ job[t] \notin Elements(errors)
      BY DEF TypeOK, TrackedByOne
    <3> QED
      BY <2>2, <3>1, <1>1, AppendNew
  <2> QED
    BY <2>1, <2>2
<1>5. ASSUME NEW d \in Deployments, Accounted(d) PROVE Accounted(d)'
  <2>1. CASE job[t] = d
    BY <2>1, <1>4 DEF Accounted
  <2>2. CASE job[t] # d
    <3>1. \A u \in Trackers : job[u] = d => job'[u] = d
      BY <2>2 DEF TypeOK
    <3> QED
      BY <1>3, <1>4, <1>5, <3>1 DEF Accounted
  <2> QED
    BY <2>1, <2>2
<1>6. Tracking' => Tracking
  BY <1>2 DEF Tracking, mainVars
<1> QED
  BY <1>2, <1>5, <1>6 DEF ResultInv, mainVars

\* Every step keeps the executions accounted for.
LEMMA ResultStep == Inv /\ ResultInv /\ [Next]_vars => ResultInv'
<1> SUFFICES ASSUME Inv, ResultInv, [Next]_vars PROVE ResultInv'
  OBVIOUS
<1> USE DEF Inv, TrackerInv
<1>1. ASSUME NEW d \in Deployments, EndExecution(d) PROVE ResultInv'
  <2>1. UNCHANGED <<phase, report, queue, thread, job, errors>>
    BY <1>1 DEF EndExecution, mainVars
  <2>2. \A e \in Deployments : status[e] \in {"terminated", "cancelled"} => status'[e] = status[e]
    BY <1>1 DEF EndExecution, TypeOK
  <2>3. \A e \in Deployments : Accounted(e) => Accounted(e)'
    BY <2>1, <2>2 DEF Accounted, Elements
  <2> QED
    BY <2>1, <2>3 DEF ResultInv, Tracking, AllDead
<1>2. ASSUME NEW d \in Deployments, Start(d) PROVE ResultInv'
  <2>1. phase = "starting" /\ UNCHANGED <<phase, report, queue, thread, errors>>
    BY <1>2 DEF Start
  <2>2. ~Tracking'
    BY <2>1, NoneAssumption DEF Tracking, ResultInv
  <2> QED
    BY <2>1, <2>2 DEF ResultInv, Tracking
<1>3. CASE StartFails
  <2>1. \A t \in Trackers : thread[t] = "new"
    BY <1>3 DEF StartFails, WorkInv
  <2> QED
    BY <1>3, <2>1, TrackerAssumption DEF StartFails, Report, ResultInv, Tracking
<1>4. CASE AllStarted
  <2>1. /\ phase = "starting" /\ report = None /\ Elements(started) = Deployments
        /\ \A t \in Trackers : thread[t] = "new"
        /\ UNCHANGED <<thread, errors>>
    BY <1>4 DEF AllStarted, WorkInv, ResultInv
  <2>2. CASE wait
    <3>1. phase' = "spawning" /\ queue' = started /\ report' = report
      BY <1>4, <2>2 DEF AllStarted
    <3>2. \A d \in Deployments : Accounted(d)'
      BY <2>1, <3>1 DEF Accounted
    <3> QED
      BY <2>1, <3>1, <3>2, NoneAssumption DEF ResultInv, Tracking
  <2>3. CASE ~wait
    BY <1>4, <2>1, <2>3 DEF AllStarted, Report, ResultInv, Tracking
  <2> QED
    BY <2>2, <2>3
<1>5. ASSUME NEW t \in Trackers, Spawn(t) PROVE ResultInv'
  <2>1. /\ phase = "spawning" /\ phase' \in {"spawning", "polling"} /\ report = None
        /\ UNCHANGED <<status, report, queue, job, errors>>
    BY <1>5 DEF Spawn, ResultInv
  <2>2. \A u \in Trackers : thread'[u] = "ended" => thread[u] = "ended"
    BY <1>5 DEF Spawn, TypeOK
  <2>3. \A d \in Deployments : Accounted(d)'
    BY <2>1 DEF ResultInv, Tracking, Accounted, Elements
  <2> QED
    BY <2>1, <2>2, <2>3, NoneAssumption DEF ResultInv
<1>6. CASE Finish
  <2>1. /\ phase = "polling" /\ AllDead /\ phase' = "done"
        /\ report' = (IF errors = <<>> THEN "ok" ELSE "errors") /\ report = None
        /\ UNCHANGED <<status, queue, thread, job, errors>>
    BY <1>6 DEF Finish, Report, ResultInv
  <2>2. queue = <<>>
    BY <2>1, NoneAssumption DEF ResultInv, AllDead
  <2>3. \A d \in Deployments : Accounted(d)'
    BY <2>1 DEF ResultInv, Tracking, Accounted, Elements
  <2> QED
    BY <2>1, <2>2, <2>3 DEF ResultInv, AllDead
<1>7. CASE Interrupt
  BY <1>7 DEF Interrupt, Report, ResultInv, Tracking
<1>8. ASSUME NEW t \in Trackers, Take(t) PROVE ResultInv'
  <2>1. /\ Idle(t) /\ queue # <<>> /\ job' = [job EXCEPT ![t] = Head(queue)]
        /\ queue' = Tail(queue) /\ UNCHANGED <<status, mainVars, thread, errors>>
    BY <1>8 DEF Take, RestAfterGet
  <2>2. Elements(queue) = Elements(queue') \cup {Head(queue)}
    BY <2>1, TakeFirst DEF TypeOK
  <2>3. report \notin {"ok", "errors"} /\ \A u \in Trackers : thread[u] = "ended" =>
          report = "interrupted"
    BY <2>1 DEF ResultInv
  <2>4. ASSUME NEW d \in Deployments, Accounted(d) PROVE Accounted(d)'
    <3>1. CASE d = Head(queue)
      <4>1. job'[t] = d
        BY <2>1, <3>1 DEF TypeOK
      <4> QED
        BY <4>1 DEF Accounted
    <3>2. CASE d # Head(queue)
      <4>1. \A u \in Trackers : job[u] = d => job'[u] = d
        BY <2>1, TrackerAssumption DEF TypeOK, Idle
      <4>2. Elements(errors') = Elements(errors) /\ status' = status
        BY <2>1
      <4> QED
        BY <2>2, <2>4, <3>2, <4>1, <4>2 DEF Accounted
    <3> QED
      BY <3>1, <3>2
  <2> QED
    BY <2>1, <2>3, <2>4 DEF ResultInv, Tracking, mainVars
<1>9. ASSUME NEW t \in Trackers, NothingLeft(t) PROVE ResultInv'
  <2>1. /\ thread[t] = "running" /\ queue = <<>>
        /\ UNCHANGED <<status, phase, report, queue, job, errors>>
        /\ thread' = [thread EXCEPT ![t] = "ended"]
    BY <1>9 DEF NothingLeft, Idle, mainVars
  <2>2. report \notin {"ok", "errors", "raised", "not waited"}
    BY <2>1 DEF ResultInv, AllDead
  <2>3. \A d \in Deployments : Accounted(d) => Accounted(d)'
    BY <2>1 DEF Accounted, Elements
  <2> QED
    BY <2>1, <2>2, <2>3 DEF ResultInv, Tracking
<1>10. ASSUME NEW t \in Trackers, Waited(t) PROVE ResultInv'
  BY <1>10, JobAccounted DEF Waited, ErrorsAfter, Ended, END_STATES
<1>11. ASSUME NEW t \in Trackers, WaitFails(t) PROVE ResultInv'
  BY <1>11, JobAccounted DEF WaitFails
<1>12. CASE UNCHANGED vars
  <2>1. \A d \in Deployments : Accounted(d) => Accounted(d)'
    BY <1>12 DEF vars, mainVars, Accounted, Elements
  <2> QED
    BY <1>12, <2>1 DEF vars, mainVars, ResultInv, Tracking, AllDead
<1> QED
  BY <1>1, <1>2, <1>3, <1>4, <1>5, <1>6, <1>7, <1>8, <1>9, <1>10, <1>11, <1>12
     DEF Next, Main, Track

\* The command's result is final and true of every execution: it reports
\* success only if all ended without a failure, and it lists every failure,
\* whichever threads met them and in whatever order.
THEOREM ReportIsTrue == Spec => []ResultIsTrue
<1>1. Inv /\ ResultInv => ResultIsTrue
  <2> SUFFICES ASSUME Inv, ResultInv PROVE ResultIsTrue
    OBVIOUS
  <2>1. ResultIsFinal
    BY DEF ResultIsFinal, ResultInv, AllDead, Inv, WorkInv
  <2>2. report \in {"ok", "errors"} =>
          \A d \in Deployments :
            d \in Elements(errors) \/ status[d] \in {"terminated", "cancelled"}
    <3> SUFFICES ASSUME report \in {"ok", "errors"}, NEW d \in Deployments
                 PROVE  d \in Elements(errors) \/ status[d] \in {"terminated", "cancelled"}
      OBVIOUS
    <3>1. Elements(queue) = {} /\ \A t \in Trackers : job[t] # d
      BY <2>1, TrackerAssumption DEF ResultIsFinal, Elements
    <3>2. Accounted(d)
      BY DEF ResultInv, Tracking
    <3> QED
      BY <3>1, <3>2 DEF Accounted
  <2>3. OkMeansAllSucceeded
    BY <2>2 DEF OkMeansAllSucceeded, ResultInv, Elements
  <2>4. FailuresAreListed
    BY <2>2 DEF FailuresAreListed
  <2> QED
    BY <2>1, <2>3, <2>4 DEF ResultIsTrue
<1> QED
  BY <1>1, InvAlways, ResultInit, ResultStep, PTL DEF Spec
=============================================================================
