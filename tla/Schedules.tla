------------------------------- MODULE Schedules -------------------------------
(***************************************************************************)
(* A deployment's schedule (commands/deployments.py, schedule_create,      *)
(* _update, _enable, _disable and _delete).  Each command is a call that   *)
(* names some fields of the schedule, and enabling and disabling read it   *)
(* first and decide; several shells may do so at once.  The manager takes  *)
(* the calls one by one and changes the fields a call names; a call may    *)
(* raise although it was obeyed.                                           *)
(***************************************************************************)
EXTENDS Naturals

CONSTANTS
  Users,
  Rules,            \* since, until, recurrence and the like
  NoRule,           \* no option that gives one
  MaxScheduleCalls

ASSUME ScheduleAssumption == NoRule \notin Rules /\ MaxScheduleCalls \in Nat

ScheduleFields == {"there", "rule", "stop", "enabled"}
FieldValues == Rules \cup {NoRule} \cup BOOLEAN
\* A call names a field by the set of the one value it gives it.
NoFields == [f \in ScheduleFields |-> {}]

VARIABLES
  schedule,     \* of the manager, a value for each field
  schedulePc,   \* of each shell: "idle", "decided" to switch, "sent", "obeyed"
  seen,         \* the schedule that each shell has read, if any
  asked,        \* what the command of each shell asks for
  calls,
  possible,     \* (history) values a field may have by what shells were told
  meanwhile     \* (history) values asked for while a shell's call is under way

scheduleVars == <<schedule, schedulePc, seen, asked, calls, possible, meanwhile>>
toldVars == <<possible, meanwhile>>

ScheduleInit ==
  /\ schedule = [f \in ScheduleFields |-> IF f = "rule" THEN NoRule ELSE FALSE]
  /\ schedulePc = [s \in Users |-> "idle"]
  /\ seen = [s \in Users |-> {}] /\ asked = [s \in Users |-> NoFields]
  /\ calls = 0
  /\ possible = [f \in ScheduleFields |-> {schedule[f]}]
  /\ meanwhile = [s \in Users |-> NoFields]
-----------------------------------------------------------------------------
Idle(s) == schedulePc[s] = "idle"
UnderWay(s) == schedulePc[s] \in {"sent", "obeyed"}

\* A call of shell s is sent, beside those that are under way.
SendCall(s, want) ==
  /\ calls < MaxScheduleCalls
  /\ calls' = calls + 1
  /\ schedulePc' = [schedulePc EXCEPT ![s] = "sent"]
  /\ asked' = [asked EXCEPT ![s] = want]
  /\ possible' = [f \in ScheduleFields |-> possible[f] \cup want[f]]
  /\ meanwhile' =
       [u \in Users |-> [f \in ScheduleFields |->
          IF u = s THEN want[f] \cup UNION {asked[w][f] : w \in {w \in Users : UnderWay(w)}}
          ELSE IF UnderWay(u) THEN meanwhile[u][f] \cup want[f]
          ELSE {}]]
  /\ UNCHANGED <<schedule, seen>>

CreateSchedule(s, rule, stop) ==
  /\ Idle(s)
  /\ SendCall(s, [NoFields EXCEPT !.there = {TRUE}, !.rule = {rule}, !.stop = {stop},
                                  !.enabled = {TRUE}])

\* The flag --stop-on-fail is false, and sent, when it is not given.
UpdateSchedule(s, rule, stop) ==
  /\ Idle(s)
  /\ SendCall(s, [NoFields EXCEPT !.rule = {rule} \ {NoRule}, !.stop = {stop}])

DeleteSchedule(s) == Idle(s) /\ SendCall(s, [NoFields EXCEPT !.there = {FALSE}])

\* execution_schedules.get(), which fails without a schedule, and the refusal
\* to do what is done.
ReadSchedule(s, to) ==
  /\ Idle(s) /\ schedule.there /\ schedule.enabled # to
  /\ schedulePc' = [schedulePc EXCEPT ![s] = "decided"]
  /\ seen' = [seen EXCEPT ![s] = {schedule}]
  /\ UNCHANGED <<schedule, asked, calls, toldVars>>

\* update(enabled=...), the opposite of what was read.
SwitchSchedule(s) ==
  /\ schedulePc[s] = "decided"
  /\ \E was \in seen[s] : SendCall(s, [NoFields EXCEPT !.enabled = {~was.enabled}])

\* The fields of d, those that are named changed.
WithFields(d, want) ==
  [f \in ScheduleFields |-> IF want[f] = {} THEN d[f] ELSE CHOOSE v \in want[f] : TRUE]

\* (mutant) What was read is sent back, changed.
CopyWithFields(s) ==
  WithFields(IF seen[s] = {} THEN schedule ELSE CHOOSE d \in seen[s] : TRUE, asked[s])

\* What the manager has when it has obeyed the call.
Outcome(s) == WithFields(schedule, asked[s])

\* The manager obeys: it creates what is not there, and changes what is.
Obey(s) ==
  /\ schedulePc[s] = "sent"
  /\ schedule.there = (TRUE \notin asked[s].there)
  /\ schedule' = Outcome(s)
  /\ schedulePc' = [schedulePc EXCEPT ![s] = "obeyed"]
  /\ UNCHANGED <<seen, asked, calls, toldVars>>

CallEnds(s) ==
  /\ schedulePc' = [schedulePc EXCEPT ![s] = "idle"]
  /\ seen' = [seen EXCEPT ![s] = {}]
  /\ asked' = [asked EXCEPT ![s] = NoFields]
  /\ meanwhile' = [meanwhile EXCEPT ![s] = NoFields]
  /\ UNCHANGED <<schedule, calls>>

\* 'Deployment schedule ... successfully': a field that the command named has
\* the value it gave, or one that was asked for meanwhile.
ReportSchedule(s) ==
  /\ schedulePc[s] = "obeyed" /\ CallEnds(s)
  /\ possible' = [f \in ScheduleFields |->
                    IF asked[s][f] = {} THEN possible[f] ELSE meanwhile[s][f]]

\* The call raises, refused, lost, or obeyed and its answer lost.
ScheduleFails(s) ==
  /\ UnderWay(s) /\ CallEnds(s)
  /\ UNCHANGED possible

ScheduleNext ==
  \E s \in Users :
    \/ \E rule \in Rules, stop \in BOOLEAN : CreateSchedule(s, rule, stop)
    \/ \E rule \in Rules \cup {NoRule}, stop \in BOOLEAN : UpdateSchedule(s, rule, stop)
    \/ DeleteSchedule(s) \/ SwitchSchedule(s)
    \/ \E to \in BOOLEAN : ReadSchedule(s, to)
    \/ Obey(s) \/ ReportSchedule(s) \/ ScheduleFails(s)
-----------------------------------------------------------------------------
\* Types of the variables; only a shell that switches has read the schedule,
\* and only one with a call under way asks for something.
ScheduleTypeOK ==
  /\ schedule \in [ScheduleFields -> FieldValues]
  /\ schedulePc \in [Users -> {"idle", "decided", "sent", "obeyed"}]
  /\ seen \in [Users -> SUBSET [ScheduleFields -> FieldValues]]
  /\ asked \in [Users -> [ScheduleFields -> SUBSET FieldValues]]
  /\ calls \in 0..MaxScheduleCalls
  /\ possible \in [ScheduleFields -> SUBSET FieldValues]
  /\ meanwhile \in [Users -> [ScheduleFields -> SUBSET FieldValues]]
  /\ \A s \in Users : (Idle(s) => seen[s] = {}) /\ (~UnderWay(s) => asked[s] = NoFields)

\* Although decisions may be taken on a schedule that has changed since, and
\* calls may be obeyed and not answered, no report is undone by a command about
\* something else: each field (whether the schedule is there, its rule, its
\* stop_on_fail, whether it is enabled) has a value that was asked for by the
\* last command that was reported to set it, by one that was under way together
\* with that or since, or by one that failed since.  (Every update sets stop_on_fail.)
ReportsStand == \A f \in ScheduleFields : schedule[f] \in possible[f]

\* What shells report of a schedule adds up to what it is.
ScheduleInv == ScheduleTypeOK /\ ReportsStand
=============================================================================
