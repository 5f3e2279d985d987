------------------------- MODULE ManagerCommandsProofs -------------------------
(***************************************************************************)
(* Machine-checked proofs about the commands that CfyCommand puts side by  *)
(* side and that change what the manager has.                              *)
(***************************************************************************)
EXTENDS CfyCommand, ListsProofs, FiniteSetTheorems, SequenceTheorems, TLAPS
-----------------------------------------------------------------------------
\* Behind ScheduleInv: the types, ...
Wants == [ScheduleFields -> SUBSET FieldValues]
CallsTypeOK ==
  /\ schedule \in [ScheduleFields -> FieldValues]
  /\ schedulePc \in [Users -> {"idle", "decided", "sent", "obeyed"}]
  /\ seen \in [Users -> SUBSET [ScheduleFields -> FieldValues]]
  /\ asked \in [Users -> Wants] /\ possible \in Wants /\ meanwhile \in [Users -> Wants]
  /\ calls \in 0..MaxScheduleCalls
IdleShells == \A s \in Users : (Idle(s) => seen[s] = {}) /\ (~UnderWay(s) => asked[s] = NoFields)

\* ... that what is asked for by calls under way is possible, and counts as
\* asked meanwhile for each of them, ...
AskedIsKnown ==
  \A s \in Users, f \in ScheduleFields : UnderWay(s) =>
    /\ asked[s][f] \subseteq possible[f]
    /\ \A u \in Users : UnderWay(u) => asked[u][f] \subseteq meanwhile[s][f]

\* ... and that a field which an obeyed call named has a value asked for meanwhile.
ObeyedIsKnown ==
  \A s \in Users, f \in ScheduleFields :
    schedulePc[s] = "obeyed" /\ asked[s][f] # {} => schedule[f] \in meanwhile[s][f]

ScheduleIInv == CallsTypeOK /\ IdleShells /\ AskedIsKnown /\ ObeyedIsKnown /\ ReportsStand

\* The first and the last part are what shells are told.
LEMMA ScheduleIInvImplies == ScheduleIInv => ScheduleInv
BY DEF ScheduleIInv, CallsTypeOK, IdleShells, Wants, ScheduleInv, ScheduleTypeOK

\* No schedule, and no call.
LEMMA ScheduleStarts == ScheduleInit => ScheduleIInv
<1> SUFFICES ASSUME ScheduleInit PROVE ScheduleIInv
  OBVIOUS
<1>1. NoFields \in Wants
  BY DEF NoFields, Wants
<1>2. /\ schedule \in [ScheduleFields -> FieldValues]
      /\ \A f \in ScheduleFields : schedule[f] \in FieldValues
  <2>1. NoRule \in FieldValues /\ FALSE \in FieldValues
    BY DEF FieldValues
  <2> QED BY <2>1 DEF ScheduleInit
<1>3. possible \in Wants /\ ReportsStand
  BY <1>2 DEF ScheduleInit, Wants, ReportsStand
<1>4. MaxScheduleCalls \in Nat
  BY ScheduleAssumption
<1>5. CallsTypeOK
  <2>1. 0 \in 0..MaxScheduleCalls
    BY <1>4
  <2>2. calls \in 0..MaxScheduleCalls
    BY <2>1 DEF ScheduleInit
  <2>3. seen \in [Users -> SUBSET [ScheduleFields -> FieldValues]]
    BY DEF ScheduleInit
  <2>4. asked \in [Users -> Wants] /\ meanwhile \in [Users -> Wants]
    BY <1>1 DEF ScheduleInit
  <2>5. schedulePc \in [Users -> {"idle", "decided", "sent", "obeyed"}]
    BY DEF ScheduleInit
  <2> QED BY <1>2, <1>3, <2>2, <2>3, <2>4, <2>5 DEF CallsTypeOK
<1>6. IdleShells /\ AskedIsKnown /\ ObeyedIsKnown
  BY DEF ScheduleInit, IdleShells, AskedIsKnown, ObeyedIsKnown, UnderWay
<1> QED BY <1>3, <1>5, <1>6 DEF ScheduleIInv

\* A call that is sent is known to all that are under way, and knows them.
LEMMA SendCallKeeps ==
  ASSUME ScheduleIInv, NEW s \in Users, NEW want \in Wants, ~UnderWay(s), SendCall(s, want)
  PROVE  ScheduleIInv'
<1> DEFINE About(f) == UNION {asked[w][f] : w \in {w \in Users : UnderWay(w)}}
<1>1. /\ schedulePc' = [schedulePc EXCEPT ![s] = "sent"]
      /\ asked' = [asked EXCEPT ![s] = want]
      /\ possible' = [f \in ScheduleFields |-> possible[f] \cup want[f]]
      /\ meanwhile' =
           [u \in Users |-> [f \in ScheduleFields |->
              IF u = s THEN want[f] \cup About(f)
              ELSE IF UnderWay(u) THEN meanwhile[u][f] \cup want[f]
              ELSE {}]]
      /\ calls < MaxScheduleCalls /\ calls' = calls + 1 /\ UNCHANGED <<schedule, seen>>
  BY DEF SendCall
<1>2. /\ asked \in [Users -> Wants] /\ possible \in Wants /\ meanwhile \in [Users -> Wants]
      /\ schedulePc \in [Users -> {"idle", "decided", "sent", "obeyed"}]
      /\ calls \in 0..MaxScheduleCalls
  BY DEF ScheduleIInv, CallsTypeOK
<1>3. \A f \in ScheduleFields :
        /\ want[f] \subseteq FieldValues /\ possible[f] \subseteq FieldValues
        /\ \A u \in Users : asked[u][f] \subseteq FieldValues /\ meanwhile[u][f] \subseteq FieldValues
  BY <1>2 DEF Wants
<1>4. \A f \in ScheduleFields : About(f) \subseteq FieldValues
  BY <1>3
<1>5. \A f \in ScheduleFields, u \in Users : UnderWay(u) => asked[u][f] \subseteq About(f)
  OBVIOUS
<1> HIDE DEF About
<1>6. /\ \A u \in Users : u # s => schedulePc'[u] = schedulePc[u] /\ asked'[u] = asked[u]
      /\ schedulePc'[s] = "sent" /\ asked'[s] = want
  BY <1>1, <1>2
<1>7. /\ \A f \in ScheduleFields : possible'[f] = possible[f] \cup want[f]
      /\ \A f \in ScheduleFields : meanwhile'[s][f] = want[f] \cup About(f)
      /\ \A u \in Users, f \in ScheduleFields : u # s =>
           meanwhile'[u][f] = IF UnderWay(u) THEN meanwhile[u][f] \cup want[f] ELSE {}
  BY <1>1
<1>8. CallsTypeOK'
  <2>1. asked' \in [Users -> Wants]
    BY <1>1, <1>2
  <2>2. possible' \in Wants
    BY <1>1, <1>3 DEF Wants
  <2>3. meanwhile' \in [Users -> Wants]
    BY <1>1, <1>3, <1>4 DEF Wants
  <2>4. schedulePc' \in [Users -> {"idle", "decided", "sent", "obeyed"}]
    BY <1>1, <1>2
  <2>5. calls' \in 0..MaxScheduleCalls
    BY <1>1, <1>2, ScheduleAssumption
  <2> QED BY <1>1, <2>1, <2>2, <2>3, <2>4, <2>5 DEF ScheduleIInv, CallsTypeOK
<1>9. IdleShells'
  BY <1>1, <1>6 DEF ScheduleIInv, IdleShells, Idle, UnderWay
<1>10. \A u \in Users : UnderWay(u)' => u = s \/ UnderWay(u)
  BY <1>6 DEF UnderWay
<1>11. AskedIsKnown'
  <2> SUFFICES ASSUME NEW u \in Users, NEW f \in ScheduleFields, UnderWay(u)'
               PROVE  /\ asked'[u][f] \subseteq possible'[f]
                      /\ \A w \in Users : UnderWay(w)' => asked'[w][f] \subseteq meanwhile'[u][f]
    BY DEF AskedIsKnown
  <2>1. asked'[u][f] \subseteq possible'[f]
    BY <1>6, <1>7, <1>10 DEF ScheduleIInv, AskedIsKnown
  <2>2. ASSUME NEW w \in Users, UnderWay(w)' PROVE asked'[w][f] \subseteq meanwhile'[u][f]
    <3>1. CASE u = s
      BY <2>2, <3>1, <1>5, <1>6, <1>7, <1>10
    <3>2. CASE u # s
      <4>1. UnderWay(u) /\ meanwhile'[u][f] = meanwhile[u][f] \cup want[f]
        BY <3>2, <1>7, <1>10
      <4> QED BY <2>2, <4>1, <1>6, <1>10 DEF ScheduleIInv, AskedIsKnown
    <3> QED BY <3>1, <3>2
  <2> QED BY <2>1, <2>2
<1>12. ObeyedIsKnown'
  <2> SUFFICES ASSUME NEW u \in Users, NEW f \in ScheduleFields,
                      schedulePc'[u] = "obeyed", asked'[u][f] # {}
               PROVE  schedule'[f] \in meanwhile'[u][f]
    BY DEF ObeyedIsKnown
  <2>1. u # s /\ schedulePc[u] = "obeyed" /\ asked[u][f] # {}
    BY <1>6
  <2>2. meanwhile'[u][f] = meanwhile[u][f] \cup want[f]
    BY <2>1, <1>7 DEF UnderWay
  <2> QED BY <1>1, <2>1, <2>2 DEF ScheduleIInv, ObeyedIsKnown
<1>13. ReportsStand'
  BY <1>1, <1>7 DEF ScheduleIInv, ReportsStand
<1> QED BY <1>8, <1>9, <1>11, <1>12, <1>13 DEF ScheduleIInv

\* A call that has ended is not under way any more.
LEMMA CallEndKeeps ==
  ASSUME ScheduleIInv, NEW s \in Users, CallEnds(s), possible' \in Wants,
         \A f \in ScheduleFields : /\ schedule[f] \in possible'[f]
                                   /\ \A u \in Users : UnderWay(u) => asked[u][f] \subseteq possible'[f]
  PROVE  ScheduleIInv'
<1>1. /\ schedulePc' = [schedulePc EXCEPT ![s] = "idle"] /\ seen' = [seen EXCEPT ![s] = {}]
      /\ asked' = [asked EXCEPT ![s] = NoFields] /\ meanwhile' = [meanwhile EXCEPT ![s] = NoFields]
      /\ UNCHANGED <<schedule, calls>>
  BY DEF CallEnds
<1>2. CallsTypeOK
  BY DEF ScheduleIInv
<1>3. NoFields \in Wants
  BY DEF NoFields, Wants
<1>4. CallsTypeOK'
  BY <1>1, <1>2, <1>3 DEF CallsTypeOK
<1>5. /\ \A u \in Users : u # s => /\ schedulePc'[u] = schedulePc[u] /\ seen'[u] = seen[u]
                                   /\ asked'[u] = asked[u] /\ meanwhile'[u] = meanwhile[u]
      /\ schedulePc'[s] = "idle" /\ seen'[s] = {} /\ asked'[s] = NoFields
  BY <1>1, <1>2 DEF CallsTypeOK
<1>6. IdleShells'
  BY <1>5 DEF ScheduleIInv, IdleShells, Idle, UnderWay
<1>7. \A u \in Users : UnderWay(u)' => u # s /\ UnderWay(u)
  BY <1>5 DEF UnderWay
<1>8. AskedIsKnown'
  BY <1>5, <1>7 DEF ScheduleIInv, AskedIsKnown
<1>9. ObeyedIsKnown'
  BY <1>1, <1>5 DEF ScheduleIInv, ObeyedIsKnown
<1>10. ReportsStand'
  BY <1>1 DEF ReportsStand
<1> QED BY <1>4, <1>6, <1>8, <1>9, <1>10 DEF ScheduleIInv

\* What the manager makes of a call.
LEMMA ObeyKeeps ==
  ASSUME ScheduleIInv, NEW s \in Users, Obey(s)
  PROVE  ScheduleIInv'
<1>1. /\ schedulePc[s] = "sent" /\ schedulePc' = [schedulePc EXCEPT ![s] = "obeyed"]
      /\ UNCHANGED <<seen, asked, calls, possible, meanwhile>>
      /\ schedule' = [f \in ScheduleFields |-> IF asked[s][f] = {} THEN schedule[f]
                                               ELSE CHOOSE v \in asked[s][f] : TRUE]
  BY DEF Obey, Outcome, WithFields, toldVars
<1>2. CallsTypeOK
  BY DEF ScheduleIInv
<1>3. \A f \in ScheduleFields : \/ asked[s][f] = {} /\ schedule'[f] = schedule[f]
                                \/ asked[s][f] # {} /\ schedule'[f] \in asked[s][f]
  BY <1>1
<1>4. \A f \in ScheduleFields : asked[s][f] \subseteq FieldValues /\ schedule[f] \in FieldValues
  BY <1>2 DEF CallsTypeOK, Wants
<1>5. schedule' \in [ScheduleFields -> FieldValues]
  <2>1. \A f \in ScheduleFields : schedule'[f] \in FieldValues
    BY <1>3, <1>4
  <2> QED BY <1>1, <2>1
<1>6. CallsTypeOK'
  BY <1>1, <1>2, <1>5 DEF CallsTypeOK
<1>7. /\ \A u \in Users : u # s => schedulePc'[u] = schedulePc[u]
      /\ schedulePc'[s] = "obeyed"
  BY <1>1, <1>2 DEF CallsTypeOK
<1>8. \A u \in Users : (UnderWay(u)' <=> UnderWay(u)) /\ (Idle(u)' <=> Idle(u))
  BY <1>1, <1>7 DEF UnderWay, Idle
<1>9. IdleShells'
  BY <1>1, <1>8 DEF ScheduleIInv, IdleShells
<1>10. AskedIsKnown'
  BY <1>1, <1>8 DEF ScheduleIInv, AskedIsKnown
<1>11. UnderWay(s)
  BY <1>1 DEF UnderWay
<1>12. ObeyedIsKnown'
  <2> SUFFICES ASSUME NEW u \in Users, NEW f \in ScheduleFields,
                      schedulePc'[u] = "obeyed", asked[u][f] # {}
               PROVE  schedule'[f] \in meanwhile[u][f]
    BY <1>1 DEF ObeyedIsKnown
  <2>1. UnderWay(u)
    BY <1>1, <1>7 DEF UnderWay
  <2>2. asked[s][f] \subseteq meanwhile[u][f]
    BY <2>1, <1>11 DEF ScheduleIInv, AskedIsKnown
  <2>3. CASE asked[s][f] = {}
    <3>1. u # s /\ schedulePc[u] = "obeyed"
      BY <1>7, <2>3
    <3> QED BY <1>3, <2>3, <3>1 DEF ScheduleIInv, ObeyedIsKnown
  <2>4. CASE asked[s][f] # {}
    BY <1>3, <2>2, <2>4
  <2> QED BY <2>3, <2>4
<1>13. ReportsStand'
  BY <1>1, <1>3, <1>11 DEF ScheduleIInv, ReportsStand, AskedIsKnown
<1> QED BY <1>6, <1>9, <1>10, <1>12, <1>13 DEF ScheduleIInv

\* Every step of every shell keeps it.
LEMMA ScheduleKeeps ==
  ASSUME ScheduleIInv, [ScheduleNext]_scheduleVars
  PROVE  ScheduleIInv'
<1>0. CallsTypeOK /\ AskedIsKnown /\ ReportsStand
  BY DEF ScheduleIInv
<1>1. CASE UNCHANGED scheduleVars
  BY <1>1 DEF scheduleVars, ScheduleIInv, CallsTypeOK, IdleShells, AskedIsKnown, ObeyedIsKnown,
              ReportsStand, Idle, UnderWay
<1>2. NoFields \in Wants
  BY DEF NoFields, Wants
<1>3. ASSUME NEW s \in Users, NEW rule \in Rules, NEW stop \in BOOLEAN,
             CreateSchedule(s, rule, stop)
      PROVE  ScheduleIInv'
  <2> DEFINE want == [NoFields EXCEPT !.there = {TRUE}, !.rule = {rule}, !.stop = {stop},
                                      !.enabled = {TRUE}]
  <2>1. want \in Wants
    <3>1. {TRUE} \subseteq FieldValues /\ {rule} \subseteq FieldValues /\ {stop} \subseteq FieldValues
      BY DEF FieldValues
    <3> QED BY <3>1 DEF Wants, NoFields
  <2>2. ~UnderWay(s) /\ SendCall(s, want)
    BY <1>3 DEF CreateSchedule, Idle, UnderWay
  <2> QED BY <2>1, <2>2, SendCallKeeps
<1>4. ASSUME NEW s \in Users, NEW rule \in Rules \cup {NoRule}, NEW stop \in BOOLEAN,
             UpdateSchedule(s, rule, stop)
      PROVE  ScheduleIInv'
  <2> DEFINE want == [NoFields EXCEPT !.rule = {rule} \ {NoRule}, !.stop = {stop}]
  <2>1. want \in Wants
    <3>1. {rule} \ {NoRule} \subseteq FieldValues /\ {stop} \subseteq FieldValues
      BY DEF FieldValues
    <3> QED BY <3>1 DEF Wants, NoFields
  <2>2. ~UnderWay(s) /\ SendCall(s, want)
    BY <1>4 DEF UpdateSchedule, Idle, UnderWay
  <2> QED BY <2>1, <2>2, SendCallKeeps
<1>5. ASSUME NEW s \in Users, DeleteSchedule(s) PROVE ScheduleIInv'
  <2> DEFINE want == [NoFields EXCEPT !.there = {FALSE}]
  <2>1. want \in Wants
    BY DEF Wants, NoFields, FieldValues
  <2>2. ~UnderWay(s) /\ SendCall(s, want)
    BY <1>5 DEF DeleteSchedule, Idle, UnderWay
  <2> QED BY <2>1, <2>2, SendCallKeeps
<1>6. ASSUME NEW s \in Users, SwitchSchedule(s) PROVE ScheduleIInv'
  <2>1. PICK was \in seen[s] : SendCall(s, [NoFields EXCEPT !.enabled = {~was.enabled}])
    BY <1>6 DEF SwitchSchedule
  <2>2. [NoFields EXCEPT !.enabled = {~was.enabled}] \in Wants
    <3>1. {~was.enabled} \subseteq FieldValues
      BY DEF FieldValues
    <3> QED BY <3>1 DEF Wants, NoFields
  <2>3. ~UnderWay(s)
    BY <1>6 DEF SwitchSchedule, UnderWay
  <2> QED BY <2>1, <2>2, <2>3, SendCallKeeps
<1>7. ASSUME NEW s \in Users, NEW to \in BOOLEAN, ReadSchedule(s, to) PROVE ScheduleIInv'
  <2>1. /\ schedulePc[s] = "idle" /\ schedulePc' = [schedulePc EXCEPT ![s] = "decided"]
        /\ seen' = [seen EXCEPT ![s] = {schedule}]
        /\ UNCHANGED <<schedule, asked, calls, possible, meanwhile>>
    BY <1>7 DEF ReadSchedule, Idle, toldVars
  <2>2. CallsTypeOK'
    BY <1>0, <2>1 DEF CallsTypeOK
  <2>3. /\ \A u \in Users : u # s => schedulePc'[u] = schedulePc[u] /\ seen'[u] = seen[u]
        /\ schedulePc'[s] = "decided"
    BY <1>0, <2>1 DEF CallsTypeOK
  <2>4. \A u \in Users : (UnderWay(u)' <=> UnderWay(u)) /\ (Idle(u)' <=> Idle(u) /\ u # s)
    BY <2>1, <2>3 DEF UnderWay, Idle
  <2>5. IdleShells'
    BY <2>1, <2>3, <2>4 DEF ScheduleIInv, IdleShells
  <2>6. AskedIsKnown' /\ ReportsStand'
    BY <1>0, <2>1, <2>4 DEF AskedIsKnown, ReportsStand
  <2>7. ObeyedIsKnown'
    BY <2>1, <2>3 DEF ScheduleIInv, ObeyedIsKnown
  <2> QED BY <2>2, <2>5, <2>6, <2>7 DEF ScheduleIInv
<1>8. ASSUME NEW s \in Users, ReportSchedule(s) PROVE ScheduleIInv'
  <2>1. /\ schedulePc[s] = "obeyed" /\ CallEnds(s)
        /\ possible' = [f \in ScheduleFields |->
                          IF asked[s][f] = {} THEN possible[f] ELSE meanwhile[s][f]]
    BY <1>8 DEF ReportSchedule
  <2>2. possible' \in Wants
    BY <1>0, <2>1 DEF CallsTypeOK, Wants
  <2>3. UnderWay(s)
    BY <2>1 DEF UnderWay
  <2>4. \A f \in ScheduleFields :
          /\ schedule[f] \in possible'[f]
          /\ \A u \in Users : UnderWay(u) => asked[u][f] \subseteq possible'[f]
    BY <2>1, <2>3 DEF ScheduleIInv, AskedIsKnown, ObeyedIsKnown, ReportsStand
  <2> QED BY <2>1, <2>2, <2>4, CallEndKeeps
<1>9. ASSUME NEW s \in Users, ScheduleFails(s) PROVE ScheduleIInv'
  <2>1. CallEnds(s) /\ possible' = possible
    BY <1>9 DEF ScheduleFails
  <2>2. /\ possible' \in Wants
        /\ \A f \in ScheduleFields :
             /\ schedule[f] \in possible'[f]
             /\ \A u \in Users : UnderWay(u) => asked[u][f] \subseteq possible'[f]
    BY <1>0, <2>1 DEF CallsTypeOK, AskedIsKnown, ReportsStand
  <2> QED BY <2>1, <2>2, CallEndKeeps
<1> QED BY <1>1, <1>3, <1>4, <1>5, <1>6, <1>7, <1>8, <1>9, ObeyKeeps DEF ScheduleNext

\* What any command does is one of these calls or leaves schedules alone.
LEMMA ScheduleSteps == [CfyNext]_cfyVars => [ScheduleNext]_scheduleVars
BY DEF CfyNext, cfyVars, InAgents, InUpload, InPluginsInstall, InPluginsUpdate, InFlow, InLabels,
       InProfiles, InCluster, InCertificates, InLocal, InEvents, InMaintenance, InSchedules,
       InArchive, InLocalFlow

\* Shells that create, update, enable, disable and delete a deployment's schedule
\* at once, deciding on what they read before, with calls that may raise although
\* they were obeyed: each field has a value asked for by the last command reported
\* to set it, or by one that was under way with it, or that failed since.
THEOREM SchedulesAreAsTold == CfySpec => []ScheduleInv
<1>1. CfyInit => ScheduleIInv
  BY ScheduleStarts DEF CfyInit
<1>2. ScheduleIInv /\ [CfyNext]_cfyVars => ScheduleIInv'
  BY ScheduleSteps, ScheduleKeeps
<1>3. ScheduleIInv => ScheduleInv
  BY ScheduleIInvImplies
<1> QED BY <1>1, <1>2, <1>3, PTL DEF CfySpec
-----------------------------------------------------------------------------
\* Behind LabelInv: the types of what the manager has and was sent, ...
ChangeOf == [op : {"none", "add", "delete"}, pairs : SUBSET (Keys \X (Values \cup {AnyValue}))]
WriteOf == [op : {"none", "add", "delete"}, pairs : SUBSET (Keys \X (Values \cup {AnyValue})),
            read : Nat]
ContentTypeOK ==
  /\ resource \in {"labels", "metadata"}
  /\ content \subseteq LabelPairs /\ firstLabels \subseteq LabelPairs
  /\ emptyKeys \subseteq Keys \ {p[1] : p \in content}
  /\ resource = "labels" => emptyKeys = {}
  /\ writes \in Seq(WriteOf) /\ keptWrites \subseteq 1 .. Len(writes)

\* ... and of what the shells have, ...
ShellsHaveState ==
  /\ change \in [Shells -> ChangeOf]
  /\ labelPc \in [Shells -> {"idle", "read", "write"}]
  /\ copy \in [Shells -> SUBSET LabelPairs] /\ copyEmpty \in [Shells -> SUBSET Keys]
  /\ copyKept \in [Shells -> SUBSET Nat] /\ readAt \in [Shells -> Nat]
ShellsAgree ==
  \A s \in Shells :
    /\ change[s].op = "add" => change[s].pairs \subseteq LabelPairs
    /\ labelPc[s] # "idle" => change[s].op # "none"
    /\ copyKept[s] \subseteq 1 .. readAt[s] /\ readAt[s] <= Len(writes)

\* ... that labels are what the changes `kept' make of the first, ...
AddUp(have, kept) ==
  \A p \in LabelPairs :
    p \in have <=>
      \/ p \in firstLabels /\ \A i \in kept : ~Deletes(i, p)
      \/ \E i \in kept : Adds(i, p) /\ \A j \in kept : j > i => ~Deletes(j, p)

\* ... and the others of the first n were overwritten, on the manager and in
\* each copy that is to be sent back.
LostBefore(kept, n) ==
  \A i \in (1 .. n) \ kept : \E j \in kept : i < j /\ writes[j].read < i
CopiesAddUp ==
  \A s \in Shells : labelPc[s] = "write" =>
    AddUp(copy[s], copyKept[s]) /\ LostBefore(copyKept[s], readAt[s])

LabelIInv ==
  /\ ContentTypeOK /\ ShellsHaveState /\ ShellsAgree
  /\ LastChangeCounts /\ OnlyOverlapLoses /\ CopiesAddUp

\* What the shells hold has the types that LabelInv names.
LEMMA LabelIInvImplies == LabelIInv => LabelInv
<1> SUFFICES ASSUME LabelIInv PROVE LabelTypeOK
  BY DEF LabelIInv, LabelInv
<1>1. Len(writes) \in Nat
  BY LenProperties DEF LabelIInv, ContentTypeOK
<1>2. \A s \in Shells : readAt[s] \in 0 .. Len(writes)
  BY <1>1 DEF LabelIInv, ShellsHaveState, ShellsAgree
<1> QED BY <1>2 DEF LabelIInv, LabelTypeOK, ContentTypeOK, ShellsHaveState, ShellsAgree, ChangeOf

\* No shell has read anything yet.
LEMMA LabelStarts == LabelInit => LabelIInv
<1> SUFFICES ASSUME LabelInit PROVE LabelIInv
  OBVIOUS
<1>1. NoChange \in ChangeOf /\ NoChange.op = "none"
  BY DEF NoChange, ChangeOf
<1>2. ShellsHaveState
  BY <1>1 DEF LabelInit, ShellsHaveState
<1>3. writes = <<>> /\ Len(writes) = 0 /\ keptWrites = {} /\ writes \in Seq(WriteOf)
  BY DEF LabelInit
<1>4. firstLabels \subseteq LabelPairs
  BY LabelAssumption DEF LabelInit
<1>5. ContentTypeOK
  BY <1>3, <1>4 DEF LabelInit, ContentTypeOK
<1>6. ShellsAgree
  BY <1>1, <1>3 DEF LabelInit, ShellsAgree
<1>7. LastChangeCounts /\ OnlyOverlapLoses /\ CopiesAddUp
  BY <1>3 DEF LabelInit, LastChangeCounts, OnlyOverlapLoses, CopiesAddUp
<1> QED BY <1>2, <1>5, <1>6, <1>7 DEF LabelIInv

\* A command that ends leaves the other shells, and what they have read, as they are.
LEMMA LabelEndKeeps ==
  ASSUME LabelIInv, NEW s \in Shells, LabelEnds(s),
         UNCHANGED firstLabels, Len(writes)' >= Len(writes),
         \A i \in 1 .. Len(writes) : writes'[i] = writes[i], Len(writes)' \in Nat
  PROVE  ShellsHaveState' /\ ShellsAgree' /\ CopiesAddUp'
<1>1. NoChange \in ChangeOf /\ NoChange.op = "none"
  BY DEF NoChange, ChangeOf
<1>2. ShellsHaveState
  BY DEF LabelIInv
<1>3. ShellsHaveState'
  BY <1>1, <1>2 DEF ShellsHaveState, LabelEnds
<1>4. /\ \A u \in Shells : u # s =>
           /\ change'[u] = change[u] /\ labelPc'[u] = labelPc[u] /\ copy'[u] = copy[u]
           /\ copyKept'[u] = copyKept[u] /\ readAt'[u] = readAt[u]
      /\ change'[s] = NoChange /\ labelPc'[s] = "idle" /\ copyKept'[s] = {} /\ readAt'[s] = 0
  BY <1>2 DEF ShellsHaveState, LabelEnds
<1>5. Len(writes) \in Nat
  BY LenProperties DEF LabelIInv, ContentTypeOK
<1>6. ShellsAgree'
  <2> SUFFICES ASSUME NEW u \in Shells
               PROVE  /\ change'[u].op = "add" => change'[u].pairs \subseteq LabelPairs
                      /\ labelPc'[u] # "idle" => change'[u].op # "none"
                      /\ copyKept'[u] \subseteq 1 .. readAt'[u] /\ readAt'[u] <= Len(writes)'
    BY DEF ShellsAgree
  <2>1. CASE u = s
    BY <1>1, <1>4, <2>1
  <2>2. CASE u # s
    <3>1. /\ change[u].op = "add" => change[u].pairs \subseteq LabelPairs
          /\ labelPc[u] # "idle" => change[u].op # "none"
          /\ copyKept[u] \subseteq 1 .. readAt[u] /\ readAt[u] <= Len(writes) /\ readAt[u] \in Nat
      BY <1>2 DEF LabelIInv, ShellsAgree, ShellsHaveState
    <3> QED BY <1>4, <1>5, <2>2, <3>1
  <2> QED BY <2>1, <2>2
<1>7. CopiesAddUp'
  <2> SUFFICES ASSUME NEW u \in Shells, labelPc'[u] = "write"
               PROVE  AddUp(copy[u], copyKept[u])' /\ LostBefore(copyKept[u], readAt[u])'
    BY DEF CopiesAddUp
  <2>1. u # s /\ labelPc[u] = "write"
    BY <1>4
  <2>2. copyKept[u] \subseteq 1 .. Len(writes)
    BY <1>2, <1>5 DEF LabelIInv, ShellsAgree, ShellsHaveState
  <2>3. \A i \in copyKept[u] : \A p : (Adds(i, p)' <=> Adds(i, p)) /\ (Deletes(i, p)' <=> Deletes(i, p))
    BY <2>2 DEF Adds, Deletes
  <2>4. copy'[u] = copy[u] /\ copyKept'[u] = copyKept[u] /\ readAt'[u] = readAt[u]
    BY <1>4, <2>1
  <2>5. AddUp(copy[u], copyKept[u]) /\ LostBefore(copyKept[u], readAt[u])
    BY <2>1 DEF LabelIInv, CopiesAddUp
  <2>6. AddUp(copy[u], copyKept[u])'
    BY <2>3, <2>4, <2>5 DEF AddUp
  <2>7. LostBefore(copyKept[u], readAt[u])'
    BY <2>2, <2>4, <2>5 DEF LostBefore
  <2> QED BY <2>6, <2>7
<1> QED BY <1>3, <1>6, <1>7

\* What is written back has labels only, and no key twice.
LEMMA WrittenTypes ==
  ASSUME LabelIInv, NEW s \in Shells
  PROVE  /\ Changed(copy[s], change[s]) \subseteq LabelPairs
         /\ EmptyAfter(s) \subseteq Keys \ {p[1] : p \in Changed(copy[s], change[s])}
         /\ resource = "labels" => EmptyAfter(s) = {}
<1>1. copy[s] \subseteq LabelPairs /\ copyEmpty[s] \subseteq Keys
  BY DEF LabelIInv, ShellsHaveState
<1>2. change[s].op = "add" => change[s].pairs \subseteq LabelPairs
  BY DEF LabelIInv, ShellsAgree
<1>3. {p[1] : p \in copy[s]} \subseteq Keys
  BY <1>1 DEF LabelPairs
<1> QED BY <1>1, <1>2, <1>3 DEF Changed, EmptyAfter

\* A copy is sent back changed: that change counts last, and what was sent
\* since the copy was read is overwritten.
LEMMA WriteKeeps ==
  ASSUME LabelIInv, NEW s \in Shells, WriteLabels(s)
  PROVE  LabelIInv'
<1> DEFINE n == Len(writes)
           new == [op |-> change[s].op, pairs |-> change[s].pairs, read |-> readAt[s]]
<1>1. /\ labelPc[s] = "write" /\ LabelEnds(s) /\ UNCHANGED <<resource, firstLabels>>
      /\ content' = Changed(copy[s], change[s]) /\ emptyKeys' = EmptyAfter(s)
      /\ writes' = Append(writes, new) /\ keptWrites' = copyKept[s] \cup {n + 1}
  BY DEF WriteLabels
<1>2. change[s] \in ChangeOf /\ readAt[s] \in Nat /\ writes \in Seq(WriteOf)
  BY DEF LabelIInv, ShellsHaveState, ContentTypeOK
<1>3. new \in WriteOf
  BY <1>2 DEF ChangeOf, WriteOf
<1>4. /\ writes' \in Seq(WriteOf) /\ Len(writes') = n + 1 /\ n \in Nat
      /\ \A i \in 1 .. n : writes'[i] = writes[i]
      /\ writes'[n + 1] = new
  BY <1>1, <1>2, <1>3, AppendProperties, LenProperties
<1>5. new.op = change[s].op /\ new.pairs = change[s].pairs /\ new.read = readAt[s]
  OBVIOUS
<1> HIDE DEF n, new
<1>6. /\ copyKept[s] \subseteq 1 .. readAt[s] /\ readAt[s] <= n /\ change[s].op \in {"add", "delete"}
      /\ change[s].op = "add" => change[s].pairs \subseteq LabelPairs
  BY <1>1, <1>2 DEF LabelIInv, ShellsAgree, ChangeOf, n
<1>7. copyKept[s] \subseteq 1 .. n
  BY <1>2, <1>4, <1>6
<1>8. ShellsHaveState' /\ ShellsAgree' /\ CopiesAddUp'
  <2>1. Len(writes)' >= Len(writes) /\ Len(writes)' \in Nat
    BY <1>4 DEF n
  <2>2. \A i \in 1 .. Len(writes) : writes'[i] = writes[i]
    BY <1>4 DEF n
  <2> QED BY <1>1, <2>1, <2>2, LabelEndKeeps
<1>9. ContentTypeOK'
  <2>1. keptWrites' \subseteq 1 .. Len(writes')
    BY <1>1, <1>4, <1>7
  <2> QED BY <1>1, <1>4, <2>1, WrittenTypes DEF LabelIInv, ContentTypeOK, LabelPairs
<1> DEFINE NewAdds(i, p) == writes'[i].op = "add" /\ p \in writes'[i].pairs
           NewDeletes(i, p) == /\ writes'[i].op = "delete"
                               /\ \E q \in writes'[i].pairs : q \in {p, <<p[1], AnyValue>>}
<1>10. /\ \A i \in copyKept[s] : \A p : (NewAdds(i, p) <=> Adds(i, p)) /\ (NewDeletes(i, p) <=> Deletes(i, p))
       /\ \A i \in copyKept[s] : i \in Nat /\ i < n + 1
  BY <1>4, <1>7 DEF Adds, Deletes
<1>11. ASSUME NEW p \in LabelPairs
       PROVE  /\ NewAdds(n + 1, p) <=> change[s].op = "add" /\ p \in change[s].pairs
              /\ NewDeletes(n + 1, p) <=> change[s].op = "delete" /\ Matches(p, change[s].pairs)
  <2>1. NewAdds(n + 1, p) <=> change[s].op = "add" /\ p \in change[s].pairs
    BY <1>4, <1>5
  <2>2. NewDeletes(n + 1, p) <=> /\ change[s].op = "delete"
                                /\ \E q \in change[s].pairs : q \in {p, <<p[1], AnyValue>>}
    BY <1>4, <1>5
  <2>3. (\E q \in change[s].pairs : q \in {p, <<p[1], AnyValue>>}) <=> Matches(p, change[s].pairs)
    BY DEF Matches
  <2> QED BY <2>1, <2>2, <2>3
<1>12. LastChangeCounts'
  <2> SUFFICES ASSUME NEW p \in LabelPairs
               PROVE  p \in content' <=>
                        \/ p \in firstLabels /\ \A i \in keptWrites' : ~NewDeletes(i, p)
                        \/ \E i \in keptWrites' : NewAdds(i, p) /\ \A j \in keptWrites' : j > i => ~NewDeletes(j, p)
    BY <1>1 DEF LastChangeCounts, Adds, Deletes
  <2> HIDE DEF NewAdds, NewDeletes
  <2> DEFINE Old == \/ p \in firstLabels /\ \A i \in copyKept[s] : ~Deletes(i, p)
                    \/ \E i \in copyKept[s] :
                         Adds(i, p) /\ \A j \in copyKept[s] : j > i => ~Deletes(j, p)
  <2>1. p \in copy[s] <=> Old
    BY <1>1 DEF LabelIInv, CopiesAddUp, AddUp
  <2>2. n + 1 > n /\ \A i \in copyKept[s] : n + 1 > i /\ ~(i > n + 1)
    BY <1>4, <1>10
  <2>3. CASE change[s].op = "add"
    <3>1. ~NewDeletes(n + 1, p) /\ (NewAdds(n + 1, p) <=> p \in change[s].pairs)
      BY <1>11, <2>3
    <3>2. p \in content' <=> Old \/ p \in change[s].pairs
      BY <1>1, <2>1, <2>3 DEF Changed
    <3>3. (\A i \in keptWrites' : ~NewDeletes(i, p)) <=> (\A i \in copyKept[s] : ~Deletes(i, p))
      BY <1>1, <1>10, <3>1
    <3>4. \A i \in copyKept[s] :
            (\A j \in keptWrites' : j > i => ~NewDeletes(j, p))
              <=> (\A j \in copyKept[s] : j > i => ~Deletes(j, p))
      BY <1>1, <1>10, <3>1
    <3>5. \A j \in keptWrites' : j > n + 1 => ~NewDeletes(j, p)
      BY <1>1, <2>2, <3>1
    <3>6. (\E i \in keptWrites' : NewAdds(i, p) /\ \A j \in keptWrites' : j > i => ~NewDeletes(j, p))
            <=> \/ p \in change[s].pairs
                \/ \E i \in copyKept[s] :
                     Adds(i, p) /\ \A j \in copyKept[s] : j > i => ~Deletes(j, p)
      BY <1>1, <1>10, <3>1, <3>4, <3>5
    <3> QED BY <3>2, <3>3, <3>6
  <2>4. CASE change[s].op = "delete" /\ Matches(p, change[s].pairs)
    <3>1. NewDeletes(n + 1, p) /\ ~NewAdds(n + 1, p) /\ n + 1 \in keptWrites'
      BY <1>1, <1>11, <2>4
    <3>2. p \notin content'
      BY <1>1, <2>4 DEF Changed
    <3>3. ASSUME NEW i \in keptWrites', NewAdds(i, p) PROVE n + 1 > i
      BY <1>1, <2>2, <3>1, <3>3
    <3> QED BY <3>1, <3>2, <3>3
  <2>5. CASE change[s].op = "delete" /\ ~Matches(p, change[s].pairs)
    <3>1. ~NewDeletes(n + 1, p) /\ ~NewAdds(n + 1, p)
      BY <1>11, <2>5
    <3>2. p \in content' <=> Old
      BY <1>1, <2>1, <2>5 DEF Changed
    <3>3. (\A i \in keptWrites' : ~NewDeletes(i, p)) <=> (\A i \in copyKept[s] : ~Deletes(i, p))
      BY <1>1, <1>10, <3>1
    <3>4. \A i \in copyKept[s] :
            (\A j \in keptWrites' : j > i => ~NewDeletes(j, p))
              <=> (\A j \in copyKept[s] : j > i => ~Deletes(j, p))
      BY <1>1, <1>10, <3>1
    <3>5. (\E i \in keptWrites' : NewAdds(i, p) /\ \A j \in keptWrites' : j > i => ~NewDeletes(j, p))
            <=> \E i \in copyKept[s] :
                  Adds(i, p) /\ \A j \in copyKept[s] : j > i => ~Deletes(j, p)
      BY <1>1, <1>10, <3>1, <3>4
    <3> QED BY <3>2, <3>3, <3>5
  <2> QED BY <1>6, <2>3, <2>4, <2>5
<1>13. OnlyOverlapLoses'
  <2>1. Len(writes)' \in keptWrites'
    BY <1>1, <1>4
  <2>2. ASSUME NEW i \in (1 .. Len(writes')) \ keptWrites'
        PROVE  \E j \in keptWrites' : i < j /\ writes'[j].read < i
    <3>1. i \in 1 .. n /\ i \notin copyKept[s]
      BY <1>1, <1>4
    <3>2. CASE i <= readAt[s]
      <4>1. PICK j \in copyKept[s] : i < j /\ writes[j].read < i
        BY <1>1, <1>2, <3>1, <3>2 DEF LabelIInv, CopiesAddUp, LostBefore
      <4>2. j \in keptWrites' /\ writes'[j] = writes[j]
        BY <1>1, <1>4, <1>7
      <4> QED BY <4>1, <4>2
    <3>3. CASE ~(i <= readAt[s])
      BY <1>1, <1>2, <1>4, <1>5, <3>1, <3>3
    <3> QED BY <3>2, <3>3
  <2> QED BY <2>1, <2>2 DEF OnlyOverlapLoses
<1> QED BY <1>8, <1>9, <1>12, <1>13 DEF LabelIInv

\* Reading, writing back and ending keep it, by any shell.
LEMMA LabelKeeps ==
  ASSUME LabelIInv, [LabelNext]_labelVars
  PROVE  LabelIInv'
<1>0. ContentTypeOK /\ ShellsHaveState /\ ShellsAgree /\ LastChangeCounts /\ OnlyOverlapLoses
  BY DEF LabelIInv
<1>1. ASSUME UNCHANGED <<resource, content, emptyKeys, writes, keptWrites, firstLabels>>
      PROVE  /\ ContentTypeOK' /\ LastChangeCounts' /\ OnlyOverlapLoses'
             /\ \A s \in Shells : UNCHANGED <<copy[s], copyKept[s], readAt[s]>> =>
                  /\ AddUp(copy[s], copyKept[s])' <=> AddUp(copy[s], copyKept[s])
                  /\ LostBefore(copyKept[s], readAt[s])' <=> LostBefore(copyKept[s], readAt[s])
  <2>1. ContentTypeOK'
    BY <1>0, <1>1 DEF ContentTypeOK
  <2>2. LastChangeCounts' /\ OnlyOverlapLoses'
    BY <1>0, <1>1 DEF LastChangeCounts, OnlyOverlapLoses, Adds, Deletes
  <2>3. ASSUME NEW s \in Shells, UNCHANGED <<copy[s], copyKept[s], readAt[s]>>
        PROVE  /\ AddUp(copy[s], copyKept[s])' <=> AddUp(copy[s], copyKept[s])
               /\ LostBefore(copyKept[s], readAt[s])' <=> LostBefore(copyKept[s], readAt[s])
    BY <1>1, <2>3 DEF AddUp, LostBefore, Adds, Deletes
  <2> QED BY <2>1, <2>2, <2>3
<1>2. CASE UNCHANGED labelVars
  <2>1. UNCHANGED <<resource, content, emptyKeys, writes, keptWrites, firstLabels>>
        /\ UNCHANGED <<change, labelPc, copy, copyEmpty, copyKept, readAt>>
    BY <1>2 DEF labelVars
  <2>2. ShellsHaveState' /\ ShellsAgree'
    BY <1>0, <2>1 DEF ShellsHaveState, ShellsAgree
  <2>3. CopiesAddUp'
    BY <1>1, <2>1 DEF LabelIInv, CopiesAddUp
  <2> QED BY <1>1, <2>1, <2>2, <2>3 DEF LabelIInv
<1>3. ASSUME NEW s \in Shells, NEW op \in {"add", "delete"},
             NEW pairs \in SUBSET (Keys \X (Values \cup {AnyValue})), LabelCall(s, op, pairs)
      PROVE  LabelIInv'
  <2> DEFINE new == [op |-> op, pairs |-> pairs]
  <2>1. new \in ChangeOf /\ new.op = op /\ new.pairs = pairs
    BY DEF ChangeOf
  <2> HIDE DEF new
  <2>2. /\ change' = [change EXCEPT ![s] = new] /\ labelPc' = [labelPc EXCEPT ![s] = "read"]
        /\ op = "add" => pairs \subseteq LabelPairs
        /\ UNCHANGED <<resource, content, emptyKeys, writes, keptWrites, firstLabels>>
        /\ UNCHANGED <<copy, copyEmpty, copyKept, readAt>>
    BY <1>3 DEF LabelCall, labelStore, new
  <2>3. ShellsHaveState'
    BY <1>0, <2>1, <2>2 DEF ShellsHaveState
  <2>4. /\ \A u \in Shells : u # s => change'[u] = change[u] /\ labelPc'[u] = labelPc[u]
        /\ change'[s] = new /\ labelPc'[s] = "read"
    BY <1>0, <2>2 DEF ShellsHaveState
  <2>5. ShellsAgree'
    BY <1>0, <2>1, <2>2, <2>4 DEF ShellsAgree
  <2>6. CopiesAddUp'
    <3> SUFFICES ASSUME NEW u \in Shells, labelPc'[u] = "write"
                 PROVE  AddUp(copy[u], copyKept[u])' /\ LostBefore(copyKept[u], readAt[u])'
      BY DEF CopiesAddUp
    <3>1. labelPc[u] = "write"
      BY <2>4
    <3> QED BY <1>1, <2>2, <3>1 DEF LabelIInv, CopiesAddUp
  <2> QED BY <1>1, <2>2, <2>3, <2>5, <2>6 DEF LabelIInv
<1>4. ASSUME NEW s \in Shells, ReadLabels(s) PROVE LabelIInv'
  <2>1. /\ copy' = [copy EXCEPT ![s] = content] /\ copyEmpty' = [copyEmpty EXCEPT ![s] = emptyKeys]
        /\ copyKept' = [copyKept EXCEPT ![s] = keptWrites]
        /\ readAt' = [readAt EXCEPT ![s] = Len(writes)]
        /\ labelPc[s] = "read" /\ labelPc' = [labelPc EXCEPT ![s] = "write"]
        /\ UNCHANGED <<resource, content, emptyKeys, writes, keptWrites, firstLabels>>
        /\ UNCHANGED change
    BY <1>4 DEF ReadLabels, labelStore
  <2>2. /\ content \in SUBSET LabelPairs /\ emptyKeys \in SUBSET Keys /\ Len(writes) \in Nat
        /\ keptWrites \subseteq 1 .. Len(writes)
    BY <1>0, LenProperties DEF ContentTypeOK
  <2>3. keptWrites \in SUBSET Nat
    BY <2>2
  <2>4. ShellsHaveState'
    BY <1>0, <2>1, <2>2, <2>3 DEF ShellsHaveState
  <2>5. /\ \A u \in Shells : u # s => /\ labelPc'[u] = labelPc[u] /\ copy'[u] = copy[u]
                                      /\ copyKept'[u] = copyKept[u] /\ readAt'[u] = readAt[u]
        /\ copy'[s] = content /\ copyKept'[s] = keptWrites /\ readAt'[s] = Len(writes)
        /\ labelPc'[s] = "write"
    BY <1>0, <2>1 DEF ShellsHaveState
  <2>6. ShellsAgree'
    <3> SUFFICES ASSUME NEW u \in Shells
                 PROVE  /\ change'[u].op = "add" => change'[u].pairs \subseteq LabelPairs
                        /\ labelPc'[u] # "idle" => change'[u].op # "none"
                        /\ copyKept'[u] \subseteq 1 .. readAt'[u] /\ readAt'[u] <= Len(writes)'
      BY DEF ShellsAgree
    <3>1. CASE u # s
      BY <1>0, <2>1, <2>5, <3>1 DEF ShellsAgree
    <3>2. CASE u = s
      <4>1. Len(writes)' = Len(writes) /\ change'[u] = change[u]
        BY <2>1
      <4>2. copyKept'[u] \subseteq 1 .. readAt'[u] /\ readAt'[u] <= Len(writes)'
        <5>1. copyKept'[u] = keptWrites /\ readAt'[u] = Len(writes)
          BY <2>5, <3>2
        <5>2. Len(writes) <= Len(writes)
          BY <2>2
        <5> QED BY <2>2, <4>1, <5>1, <5>2
      <4>3. change[u].op = "add" => change[u].pairs \subseteq LabelPairs
        BY <1>0 DEF ShellsAgree
      <4>4. change[u].op # "none"
        BY <1>0, <2>1, <3>2 DEF ShellsAgree
      <4> QED BY <4>1, <4>2, <4>3, <4>4
    <3> QED BY <3>1, <3>2
  <2>7. CopiesAddUp'
    <3> SUFFICES ASSUME NEW u \in Shells, labelPc'[u] = "write"
                 PROVE  AddUp(copy[u], copyKept[u])' /\ LostBefore(copyKept[u], readAt[u])'
      BY DEF CopiesAddUp
    <3>1. CASE u # s
      BY <1>1, <2>1, <2>5, <3>1 DEF LabelIInv, CopiesAddUp
    <3>2. CASE u = s
      <4>1. LastChangeCounts' /\ OnlyOverlapLoses'
        BY <1>1, <2>1
      <4> QED BY <2>1, <2>5, <3>2, <4>1
              DEF AddUp, LostBefore, LastChangeCounts, OnlyOverlapLoses
    <3> QED BY <3>1, <3>2
  <2> QED BY <1>1, <2>1, <2>4, <2>6, <2>7 DEF LabelIInv
<1>5. ASSUME NEW s \in Shells, LeaveLabels(s) \/ LabelCallFails(s) PROVE LabelIInv'
  <2>1. /\ LabelEnds(s)
        /\ UNCHANGED <<resource, content, emptyKeys, writes, keptWrites, firstLabels>>
    BY <1>5 DEF LeaveLabels, LabelCallFails, labelStore
  <2>2. Len(writes) \in Nat
    BY <1>0, LenProperties DEF ContentTypeOK
  <2>3. /\ Len(writes)' >= Len(writes) /\ Len(writes)' \in Nat
        /\ \A i \in 1 .. Len(writes) : writes'[i] = writes[i]
    BY <2>1, <2>2
  <2>4. ShellsHaveState' /\ ShellsAgree' /\ CopiesAddUp'
    BY <2>1, <2>3, LabelEndKeeps
  <2> QED BY <1>1, <2>1, <2>4 DEF LabelIInv
<1> QED BY <1>2, <1>3, <1>4, <1>5, WriteKeeps DEF LabelNext

\* What any command does is a step of a shell or leaves labels alone.
LEMMA LabelSteps == [CfyNext]_cfyVars => [LabelNext]_labelVars
BY DEF CfyNext, cfyVars, InAgents, InUpload, InPluginsInstall, InPluginsUpdate, InFlow, InLabels,
       InProfiles, InCluster, InCertificates, InLocal, InEvents, InMaintenance, InSchedules,
       InArchive, InLocalFlow

\* Shells that each send all labels back, changed: the labels are what the changes
\* that are not lost add up to, and a change is lost only to a command that had
\* read before it was made and wrote after it.
THEOREM LabelsAddUp == CfySpec => []LabelInv
<1>1. CfyInit => LabelIInv
  BY LabelStarts DEF CfyInit
<1>2. LabelIInv /\ [CfyNext]_cfyVars => LabelIInv'
  BY LabelSteps, LabelKeeps
<1>3. LabelIInv => LabelInv
  BY LabelIInvImplies
<1> QED BY <1>1, <1>2, <1>3, PTL DEF CfySpec
-----------------------------------------------------------------------------
\* Behind UploadInv: what the manager has, ...
UploadStates == {"absent", "uploading"} \cup END_UPLOAD
ServerTypeOK ==
  /\ blueprint \in [state : UploadStates, execution : BOOLEAN, events : Nat, ended : Nat]
  /\ blueprint.ended <= blueprint.events

\* ... and what each place of the command has come to know.  An upload that is
\* seen to have ended stays as it was seen.
BeforeUpload == uploadPc \in {"idle", "get", "validate", "send"}
WaitsForUpload == uploadPc \in {"lookup", "check", "poll", "fetch", "final"}
DirectoryLeft(dir) ==
  /\ source.depth = 0 => dir \in {"none", "removed"}
  /\ source.depth = 1 => dir = "emptied"
UploadPhase ==
  /\ BeforeUpload => blueprint.state = "absent" /\ seenState = "absent" /\ lookups = 0
  /\ BeforeUpload \/ uploadPc = "lookup" => timeLeft = UploadTimeout
  /\ BeforeUpload \/ WaitsForUpload => uploadResult = "none"
  /\ uploadPc = "get" => (source.depth # 0 => source.kind = "archive")
  /\ uploadPc \in {"validate", "send"} =>
       tempDir \in {"none", "made"} /\ (source.depth # 0 => tempDir = "made")
  /\ WaitsForUpload => DirectoryLeft(tempDir)
  /\ uploadPc = "lookup" => lookups < LookupAttempts
  /\ uploadPc = "poll" => timeLeft >= 0
  /\ uploadPc = "fetch" => timeLeft >= -UploadLatency
  /\ uploadPc = "final" => seenState \in END_UPLOAD
  /\ seenState \in END_UPLOAD => blueprint.state = seenState

UploadIInv == UploadInv /\ ServerTypeOK /\ UploadPhase

\* What the clock and the counters are made of.
LEMMA UploadBounds ==
  /\ UploadTimeout \in Nat /\ UploadLatency \in Nat /\ LookupAttempts \in Nat \ {0}
BY UploadAssumption

\* Nothing was sent yet.
LEMMA UploadStarts == UploadInit => UploadIInv
<1> SUFFICES ASSUME UploadInit PROVE UploadIInv
  OBVIOUS
<1> USE DEF UploadInit
<1>1. UploadTypeOK
  BY UploadBounds DEF UploadTypeOK
<1>2. UploadReportIsTrue /\ UploadEventsComplete /\ ExtractedIsRemoved
  BY DEF UploadReportIsTrue, UploadEventsComplete, ExtractedIsRemoved, DirectoryLeft
<1>3. ServerTypeOK
  BY DEF ServerTypeOK, UploadStates
<1>4. UploadPhase
  BY UploadBounds DEF UploadPhase, BeforeUpload, WaitsForUpload, DirectoryLeft, END_UPLOAD,
     FAILED_UPLOAD
<1> QED BY <1>1, <1>2, <1>3, <1>4 DEF UploadIInv, UploadInv

\* The manager: an upload ends once, and then only logs.
LEMMA UploadServerKeeps == UploadIInv /\ UploadServer => UploadIInv'
<1> SUFFICES ASSUME UploadIInv, UploadServer PROVE UploadIInv'
  OBVIOUS
<1>1. UNCHANGED <<source, uploadPc, tempDir, lookups, timeLeft, seenState, seenEvents,
                  uploadResult>>
  BY DEF UploadServer, clock
<1>2. ServerTypeOK' /\ blueprint.events <= blueprint'.events
  <2>1. /\ blueprint \in [state : UploadStates, execution : BOOLEAN, events : Nat, ended : Nat]
        /\ blueprint.ended <= blueprint.events
    BY DEF UploadIInv, ServerTypeOK
  <2>2. CASE CreateUploadExecution
    <3>1. blueprint' = [blueprint EXCEPT !.execution = TRUE]
      BY <2>2 DEF CreateUploadExecution
    <3>2. blueprint' \in [state : UploadStates, execution : BOOLEAN, events : Nat, ended : Nat]
      BY <2>1, <3>1
    <3>3. blueprint'.ended = blueprint.ended /\ blueprint'.events = blueprint.events
      BY <2>1, <3>1
    <3> QED BY <2>1, <3>2, <3>3 DEF ServerTypeOK, UploadStates
  <2>3. CASE LogUploadEvent
    BY <2>1, <2>3 DEF LogUploadEvent, ServerTypeOK
  <2>4. CASE EndUpload
    <3>1. PICK s \in END_UPLOAD :
            blueprint' = [blueprint EXCEPT !.state = s, !.ended = blueprint.events]
      BY <2>4 DEF EndUpload
    <3>2. blueprint' \in [state : UploadStates, execution : BOOLEAN, events : Nat, ended : Nat]
      BY <2>1, <3>1 DEF UploadStates
    <3>3. blueprint'.ended = blueprint.events /\ blueprint'.events = blueprint.events
      BY <2>1, <3>1
    <3> QED BY <2>1, <3>2, <3>3 DEF ServerTypeOK, UploadStates
  <2> QED BY <2>2, <2>3, <2>4 DEF UploadServer
<1>3. /\ blueprint.state \notin {"uploading"} =>
           blueprint'.state = blueprint.state /\ blueprint'.ended = blueprint.ended
      /\ blueprint.state = "absent" => blueprint'.state = "absent"
  BY DEF UploadServer, CreateUploadExecution, LogUploadEvent, EndUpload, UploadIInv, ServerTypeOK
<1>4. "uploading" \notin END_UPLOAD /\ "uploaded" # "uploading" /\ "uploading" \notin FAILED_UPLOAD
  BY DEF END_UPLOAD, FAILED_UPLOAD
<1>5. UploadTypeOK'
  BY <1>1, <1>2 DEF UploadIInv, UploadInv, UploadTypeOK, ServerTypeOK, UploadStates
<1>6. UploadPhase'
  BY <1>1, <1>3, <1>4 DEF UploadIInv, UploadPhase, BeforeUpload, WaitsForUpload, DirectoryLeft
<1>7. UploadReportIsTrue'
  BY <1>1, <1>3, <1>4 DEF UploadIInv, UploadInv, UploadReportIsTrue
<1>8. UploadEventsComplete'
  BY <1>1, <1>3, <1>4 DEF UploadIInv, UploadInv, UploadEventsComplete, UploadPhase
<1>9. ExtractedIsRemoved'
  BY <1>1 DEF UploadIInv, UploadInv, ExtractedIsRemoved, DirectoryLeft
<1> QED BY <1>2, <1>5, <1>6, <1>7, <1>8, <1>9 DEF UploadIInv, UploadInv

\* The command: what it leaves alone.
LEMMA UploadCallKeeps ==
  ASSUME UploadIInv, NEW s \in Sources, UploadCall(s)
  PROVE  UploadIInv'
<1> USE DEF UploadCall, UploadGoto, uploadWait
<1>1. UploadTypeOK'
  BY DEF UploadIInv, UploadInv, UploadTypeOK
<1>2. source' = s /\ (s.depth # 0 => s.kind = "archive")
  BY DEF Sources
<1>3. UploadPhase'
  BY <1>2 DEF UploadIInv, UploadPhase, BeforeUpload, WaitsForUpload, DirectoryLeft
<1> QED BY <1>1, <1>3 DEF UploadIInv, UploadInv, ServerTypeOK, UploadReportIsTrue,
                          UploadEventsComplete, ExtractedIsRemoved, DirectoryLeft

\* The source is found, downloaded or extracted, or is not.
LEMMA GetBlueprintKeeps == UploadIInv /\ GetBlueprint => UploadIInv'
<1> SUFFICES ASSUME UploadIInv, GetBlueprint PROVE UploadIInv'
  OBVIOUS
<1>1. /\ uploadPc = "get" /\ uploadPc' \in {"done", "validate", "send"}
      /\ tempDir' \in {"made", "none"}
      /\ source.kind = "archive" => tempDir' = "made"
      /\ uploadPc' = "done" => uploadResult' \in {"bad_source", "bad_visibility"}
      /\ uploadPc' # "done" => uploadResult' = uploadResult
      /\ UNCHANGED <<blueprint, lookups, timeLeft, seenState, seenEvents, source>>
  BY DEF GetBlueprint, UploadEnd, UploadGoto, uploadWait
<1>2. UploadTypeOK'
  BY <1>1 DEF UploadIInv, UploadInv, UploadTypeOK
<1>3. UploadPhase'
  BY <1>1 DEF UploadIInv, UploadPhase, BeforeUpload, WaitsForUpload, DirectoryLeft
<1> QED BY <1>1, <1>2, <1>3 DEF UploadIInv, UploadInv, ServerTypeOK, UploadReportIsTrue,
                          UploadEventsComplete, ExtractedIsRemoved, DirectoryLeft

\* What is left after the finally block.
LEMMA TempAfterIs ==
  ASSUME UploadIInv, uploadPc \in {"validate", "send"}
  PROVE  DirectoryLeft(TempAfter) /\ TempAfter \in {"none", "partly", "emptied", "removed"}
<1>1. tempDir \in {"none", "made"} /\ (source.depth # 0 => tempDir = "made")
  BY DEF UploadIInv, UploadPhase
<1>2. CASE tempDir = "made"
  BY <1>2 DEF TempAfter, DirectoryLeft
<1>3. CASE tempDir = "none"
  BY <1>1, <1>3 DEF TempAfter, DirectoryLeft
<1> QED BY <1>1, <1>2, <1>3

\* The blueprint is validated before it is sent.
LEMMA ValidateKeeps == UploadIInv /\ Validate => UploadIInv'
<1> SUFFICES ASSUME UploadIInv, Validate PROVE UploadIInv'
  OBVIOUS
<1>1. /\ uploadPc = "validate" /\ uploadPc' \in {"done", "send"}
      /\ uploadPc' = "done" => uploadResult' = "error" /\ tempDir' = TempAfter
      /\ uploadPc' # "done" => uploadResult' = uploadResult /\ tempDir' = tempDir
      /\ UNCHANGED <<blueprint, lookups, timeLeft, seenState, seenEvents, source>>
  BY DEF Validate, UploadEnd, UploadGoto, uploadWait
<1>2. DirectoryLeft(TempAfter) /\ TempAfter \in {"none", "partly", "emptied", "removed"}
  BY <1>1, TempAfterIs
<1>3. UploadTypeOK'
  BY <1>1, <1>2 DEF UploadIInv, UploadInv, UploadTypeOK
<1>4. UploadPhase'
  BY <1>1, <1>2 DEF UploadIInv, UploadPhase, BeforeUpload, WaitsForUpload, DirectoryLeft
<1> QED BY <1>1, <1>2, <1>3, <1>4 DEF UploadIInv, UploadInv, ServerTypeOK, UploadReportIsTrue,
                          UploadEventsComplete, ExtractedIsRemoved, DirectoryLeft

\* The upload is accepted, and the manager goes to work.
LEMMA SendKeeps == UploadIInv /\ Send => UploadIInv'
<1> SUFFICES ASSUME UploadIInv, Send PROVE UploadIInv'
  OBVIOUS
<1>1. /\ uploadPc = "send" /\ uploadPc' \in {"done", "lookup"} /\ tempDir' = TempAfter
      /\ uploadPc' = "done" => uploadResult' \in {"started", "error"}
      /\ uploadPc' # "done" => uploadResult' = uploadResult
      /\ UNCHANGED <<lookups, timeLeft, seenState, seenEvents, source>>
      /\ \E state \in {blueprint.state, "uploading"} :
           blueprint' = [blueprint EXCEPT !.state = state]
  BY DEF Send, UploadEnd, UploadGoto, clock
<1>2. DirectoryLeft(TempAfter) /\ TempAfter \in {"none", "partly", "emptied", "removed"}
  BY <1>1, TempAfterIs
<1>3. ServerTypeOK' /\ blueprint'.events = blueprint.events
  BY <1>1 DEF UploadIInv, ServerTypeOK, UploadStates
<1>4. UploadTypeOK'
  BY <1>1, <1>2, <1>3 DEF UploadIInv, UploadInv, UploadTypeOK, ServerTypeOK, UploadStates
<1>5. UploadPhase'
  BY <1>1, <1>2, UploadBounds DEF UploadIInv, UploadPhase, BeforeUpload, WaitsForUpload,
     DirectoryLeft, END_UPLOAD,
     FAILED_UPLOAD
<1>6. ExtractedIsRemoved'
  BY <1>1, <1>2 DEF ExtractedIsRemoved, DirectoryLeft
<1>7. UploadReportIsTrue' /\ UploadEventsComplete'
  BY <1>1 DEF UploadIInv, UploadReportIsTrue, UploadEventsComplete, UploadPhase, BeforeUpload
<1> QED BY <1>3, <1>4, <1>5, <1>6, <1>7 DEF UploadIInv, UploadInv

\* Looking for the upload's execution, which may not be there yet.
LEMMA LookupKeeps == UploadIInv /\ Lookup => UploadIInv'
<1> SUFFICES ASSUME UploadIInv, Lookup PROVE UploadIInv'
  OBVIOUS
<1>1. /\ uploadPc = "lookup" /\ uploadPc' \in {"done", "lookup", "check"}
      /\ lookups' = lookups + 1 /\ seenState' = blueprint.state
      /\ uploadPc' = "lookup" => lookups' # LookupAttempts
      /\ uploadPc' = "done" =>
           \/ uploadResult' = "no_execution"
           \/ uploadResult' = UploadVerdict(blueprint.state) /\ blueprint.state \in END_UPLOAD
      /\ uploadPc' # "done" => uploadResult' = uploadResult
      /\ UNCHANGED <<blueprint, source, tempDir, timeLeft, seenEvents>>
  BY DEF Lookup, UploadEnd, UploadGoto, clock
<1>2. lookups \in Nat /\ lookups < LookupAttempts /\ DirectoryLeft(tempDir) /\ uploadResult = "none"
  BY <1>1 DEF UploadIInv, UploadInv, UploadTypeOK, UploadPhase, WaitsForUpload, DirectoryLeft
<1>3. UploadTypeOK'
  <2>1. lookups' \in 0 .. LookupAttempts
    BY <1>1, <1>2, UploadBounds
  <2>2. seenState' \in {"absent", "uploading"} \cup END_UPLOAD
    BY <1>1 DEF UploadIInv, UploadInv, UploadTypeOK
  <2>3. uploadResult' \in {"none", "no_execution", "failed", "uploaded"}
    BY <1>1, <1>2 DEF UploadVerdict
  <2> QED BY <1>1, <2>1, <2>2, <2>3 DEF UploadIInv, UploadInv, UploadTypeOK
<1>4. UploadPhase'
  <2>1. uploadPc' = "lookup" => lookups' < LookupAttempts
    BY <1>1, <1>2, UploadBounds
  <2> QED BY <1>1, <1>2, <2>1 DEF UploadIInv, UploadPhase, BeforeUpload, WaitsForUpload,
     DirectoryLeft
<1>5. UploadReportIsTrue'
  BY <1>1, <1>2 DEF UploadReportIsTrue, UploadVerdict, END_UPLOAD
<1> QED BY <1>1, <1>2, <1>3, <1>4, <1>5 DEF UploadIInv, UploadInv, ServerTypeOK,
                          UploadEventsComplete, ExtractedIsRemoved, DirectoryLeft

\* The deadline is checked at the head of the loop.
LEMMA CheckDeadlineKeeps == UploadIInv /\ CheckUploadDeadline => UploadIInv'
<1> SUFFICES ASSUME UploadIInv, CheckUploadDeadline PROVE UploadIInv'
  OBVIOUS
<1>1. /\ uploadPc = "check" /\ uploadPc' \in {"done", "fetch", "poll"}
      /\ uploadPc' # "done" => ~(timeLeft < 0)
      /\ uploadPc' = "done" => uploadResult' = "timeout"
      /\ uploadPc' # "done" => uploadResult' = uploadResult
      /\ UNCHANGED <<blueprint, source, tempDir, lookups, timeLeft, seenState, seenEvents>>
  BY DEF CheckUploadDeadline, UploadEnd, UploadGoto
<1>2. DirectoryLeft(tempDir) /\ uploadResult = "none"
  BY <1>1 DEF UploadIInv, UploadPhase, WaitsForUpload, DirectoryLeft
<1>3. UploadTypeOK'
  BY <1>1 DEF UploadIInv, UploadInv, UploadTypeOK
<1>4. timeLeft \in Int
  BY UploadBounds DEF UploadIInv, UploadInv, UploadTypeOK
<1>5. uploadPc' # "done" => timeLeft >= 0 /\ timeLeft >= -UploadLatency
  BY <1>1, <1>4, UploadBounds
<1>6. UploadPhase'
  BY <1>1, <1>2, <1>5 DEF UploadIInv, UploadPhase, BeforeUpload, WaitsForUpload, DirectoryLeft
<1> QED BY <1>1, <1>2, <1>3, <1>6 DEF UploadIInv, UploadInv, ServerTypeOK, UploadReportIsTrue,
                          UploadEventsComplete, ExtractedIsRemoved, DirectoryLeft

\* The blueprint's state is read.
LEMMA PollKeeps == UploadIInv /\ PollUpload => UploadIInv'
<1> SUFFICES ASSUME UploadIInv, PollUpload PROVE UploadIInv'
  OBVIOUS
<1>1. /\ uploadPc = "poll" /\ uploadPc' = "fetch" /\ seenState' = blueprint.state
      /\ UNCHANGED <<blueprint, source, tempDir, lookups, seenEvents, uploadResult>>
  BY DEF PollUpload, UploadGoto
<1>2. PICK d \in 0 .. UploadLatency : timeLeft' = timeLeft - d
  BY DEF PollUpload, TakesTime
<1>3. timeLeft \in Int /\ timeLeft >= 0 /\ timeLeft <= UploadTimeout
  BY <1>1, UploadBounds DEF UploadIInv, UploadInv, UploadTypeOK, UploadPhase
<1>4. timeLeft' \in -(2 * UploadLatency + 1) .. UploadTimeout /\ timeLeft' >= -UploadLatency
  BY <1>2, <1>3, UploadBounds
<1>5. UploadTypeOK'
  BY <1>1, <1>4 DEF UploadIInv, UploadInv, UploadTypeOK
<1>6. UploadPhase'
  BY <1>1, <1>4 DEF UploadIInv, UploadPhase, BeforeUpload, WaitsForUpload, DirectoryLeft
<1> QED BY <1>1, <1>5, <1>6 DEF UploadIInv, UploadInv, ServerTypeOK, UploadReportIsTrue,
                          UploadEventsComplete, ExtractedIsRemoved, DirectoryLeft

\* The next events are fetched, the last ones after the state was final.
LEMMA FetchKeeps == UploadIInv /\ FetchEvents => UploadIInv'
<1> SUFFICES ASSUME UploadIInv, FetchEvents PROVE UploadIInv'
  OBVIOUS
<1>1. /\ uploadPc = "fetch"
      /\ UNCHANGED <<blueprint, source, tempDir, lookups, seenState>>
  BY DEF FetchEvents
<1>2. PICK n \in seenEvents .. blueprint.events, d \in 0 .. UploadLatency :
       \/ /\ n = blueprint.events /\ seenEvents' = n
          /\ timeLeft' = timeLeft - d - IF UploadEnded THEN 0 ELSE 1
          /\ UploadGoto(IF UploadEnded THEN "final" ELSE "check")
       \/ /\ d > fetchTime /\ seenEvents' = n
          /\ timeLeft' = timeLeft - d
          /\ UploadEnd("timeout")
  BY DEF FetchEvents
<1>3. /\ DirectoryLeft(tempDir) /\ uploadResult = "none"
      /\ timeLeft \in Int /\ timeLeft >= -UploadLatency /\ timeLeft <= UploadTimeout
  BY <1>1, UploadBounds DEF UploadIInv, UploadInv, UploadTypeOK, UploadPhase, WaitsForUpload,
     DirectoryLeft
<1>4. timeLeft' \in {timeLeft - d, timeLeft - d - 1}
  BY <1>2, <1>3
<1>5. timeLeft' \in -(2 * UploadLatency + 1) .. UploadTimeout
  BY <1>3, <1>4, UploadBounds
<1>6. seenEvents' \in 0 .. blueprint.events /\ blueprint.ended <= blueprint.events
      /\ blueprint.ended \in Nat /\ blueprint.events \in Nat
  BY <1>2 DEF UploadIInv, UploadInv, UploadTypeOK, ServerTypeOK
<1>7. /\ uploadPc' \in {"final", "check", "done"}
      /\ uploadPc' = "final" => seenState \in END_UPLOAD /\ seenEvents' = blueprint.events
      /\ uploadPc' = "done" => uploadResult' = "timeout"
      /\ uploadPc' # "done" => uploadResult' = uploadResult
  BY <1>2 DEF UploadEnd, UploadGoto, UploadEnded
<1>8. UploadTypeOK'
  BY <1>1, <1>5, <1>6, <1>7 DEF UploadIInv, UploadInv, UploadTypeOK
<1>9. UploadPhase'
  BY <1>1, <1>3, <1>7 DEF UploadIInv, UploadPhase, BeforeUpload, WaitsForUpload, DirectoryLeft
<1>10. UploadEventsComplete'
  BY <1>1, <1>6, <1>7 DEF UploadEventsComplete
<1> QED BY <1>1, <1>3, <1>7, <1>8, <1>9, <1>10
        DEF UploadIInv, UploadInv, ServerTypeOK, UploadReportIsTrue, ExtractedIsRemoved,
     DirectoryLeft

\* The final state decides what is told.
LEMMA ReadResultKeeps == UploadIInv /\ ReadResult => UploadIInv'
<1> SUFFICES ASSUME UploadIInv, ReadResult PROVE UploadIInv'
  OBVIOUS
<1>1. /\ uploadPc = "final" /\ uploadPc' = "done" /\ seenState' = blueprint.state
      /\ uploadResult' = UploadVerdict(blueprint.state)
      /\ UNCHANGED <<blueprint, source, tempDir, lookups, timeLeft, seenEvents>>
  BY DEF ReadResult, UploadEnd, clock
<1>2. DirectoryLeft(tempDir) /\ blueprint.state \in END_UPLOAD
  BY <1>1 DEF UploadIInv, UploadPhase, WaitsForUpload, DirectoryLeft
<1>3. UploadTypeOK'
  BY <1>1, <1>2 DEF UploadIInv, UploadInv, UploadTypeOK, UploadVerdict
<1>4. UploadPhase'
  BY <1>1 DEF UploadIInv, UploadPhase, BeforeUpload, WaitsForUpload, DirectoryLeft
<1>5. UploadReportIsTrue'
  BY <1>1, <1>2 DEF UploadReportIsTrue, UploadVerdict, END_UPLOAD
<1> QED BY <1>1, <1>2, <1>3, <1>4, <1>5 DEF UploadIInv, UploadInv, ServerTypeOK,
                          UploadEventsComplete, ExtractedIsRemoved, DirectoryLeft

\* A request fails, wherever it is.
LEMMA CallFailsKeeps == UploadIInv /\ UploadCallFails => UploadIInv'
<1> SUFFICES ASSUME UploadIInv, UploadCallFails PROVE UploadIInv'
  OBVIOUS
<1>1. /\ uploadPc \in {"lookup", "poll", "fetch", "final"}
      /\ UNCHANGED <<blueprint, source, tempDir, timeLeft, seenState, seenEvents>>
  BY DEF UploadCallFails, clock
<1>2. DirectoryLeft(tempDir) /\ lookups \in Nat
  BY <1>1 DEF UploadIInv, UploadInv, UploadTypeOK, UploadPhase, WaitsForUpload, DirectoryLeft
<1>3. \/ /\ uploadPc = "lookup" /\ lookups' = lookups + 1 /\ lookups' < LookupAttempts
         /\ UNCHANGED <<uploadPc, uploadResult>>
      \/ uploadPc' = "done" /\ uploadResult' = "error" /\ lookups' = lookups
  BY DEF UploadCallFails, UploadEnd
<1>4. lookups' \in 0 .. LookupAttempts
  BY <1>2, <1>3, UploadBounds DEF UploadIInv, UploadInv, UploadTypeOK
<1>5. UploadTypeOK'
  BY <1>1, <1>3, <1>4 DEF UploadIInv, UploadInv, UploadTypeOK
<1>6. UploadPhase'
  BY <1>1, <1>3 DEF UploadIInv, UploadPhase, BeforeUpload, WaitsForUpload, DirectoryLeft
<1> QED BY <1>1, <1>2, <1>3, <1>5, <1>6 DEF UploadIInv, UploadInv, ServerTypeOK,
           UploadReportIsTrue, UploadEventsComplete, ExtractedIsRemoved, DirectoryLeft

\* The command and the manager keep it.
LEMMA UploadKeeps ==
  ASSUME UploadIInv, [UploadNext]_uploadVars
  PROVE  UploadIInv'
<1>1. CASE UNCHANGED uploadVars
  BY <1>1 DEF uploadVars, UploadIInv, UploadInv, UploadTypeOK, ServerTypeOK, UploadPhase,
     BeforeUpload, WaitsForUpload, DirectoryLeft, UploadReportIsTrue, UploadEventsComplete,
     ExtractedIsRemoved, DirectoryLeft
<1>2. CASE UploadNext
  BY <1>2, UploadServerKeeps, UploadCallKeeps, GetBlueprintKeeps, ValidateKeeps, SendKeeps,
     LookupKeeps, CheckDeadlineKeeps, PollKeeps, FetchKeeps, ReadResultKeeps, CallFailsKeeps
     DEF UploadNext, UploadStep
<1> QED BY <1>1, <1>2

\* What any command does is a step of the upload or leaves it alone.
LEMMA UploadSteps == [CfyNext]_cfyVars => [UploadNext]_uploadVars
BY DEF CfyNext, cfyVars, InAgents, InUpload, InPluginsInstall, InPluginsUpdate, InFlow, InLabels,
       InProfiles, InCluster, InCertificates, InLocal, InEvents, InMaintenance, InSchedules,
       InArchive, InLocalFlow

\* Whenever an upload ends, fails or is never started on the manager: what `cfy
\* blueprints upload' says of it is so, with all that it logged, within a turn of
\* the deadline.  An upload that came to its try statement has removed what it
\* extracted, if the blueprint's file is at most one subdirectory down.
THEOREM UploadIsFollowed == CfySpec => []UploadInv
<1>1. CfyInit => UploadIInv
  BY UploadStarts DEF CfyInit
<1>2. UploadIInv /\ [CfyNext]_cfyVars => UploadIInv'
  BY UploadSteps, UploadKeeps
<1>3. UploadIInv => UploadInv
  BY DEF UploadIInv
<1> QED BY <1>1, <1>2, <1>3, PTL DEF CfySpec
-----------------------------------------------------------------------------
\* Behind InstallInv: who is waited for has not been reported of, who is reported
\* as installed stays so, and a result is given when nobody is waited for.
Unreported == requested = {} /\ awaited = {} /\ errorCount = 0
              /\ reportedState = [t \in Targets |-> "unknown"]
InstallPhase ==
  /\ installPc = "idle" => Unreported
  /\ installPc # "done" => installResult = "none"
  /\ installResult \in {"installed", "errors"} => awaited = {}
  /\ installPc \in {"check", "poll"} => requested # {}
  /\ \A t \in requested :
       /\ t \in awaited <=> reportedState[t] = "unknown"
       /\ reportedState[t] = "installed" => installState[t] = "installed"

InstallIInv == InstallInv /\ InstallPhase

\* The targets that are reported as failed.
Failed == {t \in requested : reportedState[t] = "error"}

\* What the constants are: some hosts, finitely many targets.
LEMMA TargetsAreFinite == IsFiniteSet(Targets) /\ Hosts # {} /\ InstallTimeouts \subseteq Nat
                          /\ PollLatency \in Nat
BY InstallAssumption DEF Targets

\* Targets can be counted.
LEMMA SomeAreFinite ==
  ASSUME NEW S \in SUBSET Targets
  PROVE  IsFiniteSet(S) /\ Cardinality(S) \in 0 .. Cardinality(Targets)
<1>1. IsFiniteSet(S) /\ Cardinality(S) <= Cardinality(Targets)
  BY TargetsAreFinite, FS_Subset
<1>2. Cardinality(S) \in Nat /\ Cardinality(Targets) \in Nat
  BY <1>1, TargetsAreFinite, FS_CardinalityType
<1> QED BY <1>1, <1>2

\* Nothing was asked for yet.
LEMMA InstallStarts == InstallInit => InstallIInv
<1> SUFFICES ASSUME InstallInit PROVE InstallIInv
  OBVIOUS
<1> USE DEF InstallInit
<1>1. Failed = {} /\ Cardinality({}) = 0
  BY FS_EmptySet DEF Failed
<1>2. 0 \in 0 .. Cardinality(Targets)
  BY TargetsAreFinite, FS_CardinalityType
<1>3. InstallTypeOK
  BY <1>2 DEF InstallTypeOK
<1>4. InstallReportIsTrue /\ ErrorsAreKept
  BY <1>1 DEF InstallReportIsTrue, ErrorsAreKept, Failed
<1>5. InstallPhase
  BY DEF InstallPhase, Unreported
<1> QED BY <1>3, <1>4, <1>5 DEF InstallIInv, InstallInv

\* The targets are asked for, and awaited.
LEMMA InstallCallKeeps ==
  ASSUME InstallIInv, NEW targets \in SUBSET Targets, NEW timeout \in InstallTimeouts,
         InstallCall(targets, timeout)
  PROVE  InstallIInv'
<1>1. /\ installPc = "idle" /\ Unreported /\ installResult = "none"
      /\ requested' = IF targets = {} THEN Hosts ELSE targets
      /\ awaited' = requested' /\ remainingTime' = timeout
      /\ UNCHANGED <<installState, errorCount, reportedState>>
      /\ \/ installPc' = "check" /\ installResult' = installResult
         \/ installPc' = "done" /\ installResult' = "refused"
  BY DEF InstallCall, InstallIInv, InstallPhase
<1>2. requested' \subseteq Targets /\ requested' # {}
  BY <1>1, TargetsAreFinite DEF Targets
<1>3. InstallTypeOK'
  <2>1. remainingTime' \in Int
    BY <1>1, TargetsAreFinite
  <2> QED BY <1>1, <1>2, <2>1 DEF InstallIInv, InstallInv, InstallTypeOK
<1>4. Failed' = {} /\ \A t \in requested' : reportedState'[t] = "unknown"
  BY <1>1, <1>2 DEF Failed, Unreported
<1>5. InstallReportIsTrue' /\ ErrorsAreKept'
  BY <1>1, <1>4, FS_EmptySet DEF InstallReportIsTrue, ErrorsAreKept, Failed, Unreported
<1>6. InstallPhase'
  BY <1>1, <1>2, <1>4 DEF InstallPhase
<1> QED BY <1>3, <1>5, <1>6 DEF InstallIInv, InstallInv

\* An installation goes on, ends or fails; an end stays.
LEMMA MovesKeep ==
  ASSUME InstallIInv, NEW t \in Targets, InstallationMoves(t)
  PROVE  InstallIInv'
<1>1. /\ installPc \in {"check", "poll"} /\ t \in requested /\ installState[t] # "installed"
      /\ UNCHANGED <<requested, awaited, errorCount, remainingTime, installPc, installResult,
                     reportedState>>
  BY DEF InstallationMoves
<1>2. PICK s \in {"installing", "installed", "error"} :
        installState' = [installState EXCEPT ![t] = s]
  BY DEF InstallationMoves
<1>3. installState \in [Targets -> {"unknown", "installing", "installed", "error"}]
  BY DEF InstallIInv, InstallInv, InstallTypeOK
<1>4. \A u \in Targets : installState[u] = "installed" => installState'[u] = "installed"
  BY <1>1, <1>2, <1>3
<1>5. InstallTypeOK'
  BY <1>1, <1>2, <1>3 DEF InstallIInv, InstallInv, InstallTypeOK
<1>6. InstallReportIsTrue' /\ ErrorsAreKept'
  BY <1>1 DEF InstallReportIsTrue, ErrorsAreKept, InstallIInv, InstallInv, InstallPhase
<1>7. InstallPhase'
  BY <1>1, <1>4 DEF InstallIInv, InstallInv, InstallTypeOK, InstallPhase, Unreported
<1> QED BY <1>5, <1>6, <1>7 DEF InstallIInv, InstallInv

\* The deadline is checked at the head of the loop.
LEMMA InstallDeadlineKeeps == InstallIInv /\ CheckInstallDeadline => InstallIInv'
<1> SUFFICES ASSUME InstallIInv, CheckInstallDeadline PROVE InstallIInv'
  OBVIOUS
<1>1. /\ installPc = "check" /\ installResult = "none"
      /\ installPc' \in {"poll", "done"} /\ installResult' \in {"none", "timeout"}
      /\ installPc' = "poll" => installResult' = "none"
      /\ UNCHANGED <<installState, requested, awaited, errorCount, remainingTime, reportedState>>
  BY DEF CheckInstallDeadline, InstallIInv, InstallPhase
<1>2. InstallTypeOK'
  BY <1>1 DEF InstallIInv, InstallInv, InstallTypeOK
<1>3. InstallReportIsTrue' /\ ErrorsAreKept'
  BY <1>1 DEF InstallReportIsTrue, ErrorsAreKept, InstallIInv, InstallInv
<1>4. InstallPhase'
  BY <1>1 DEF InstallIInv, InstallPhase
<1> QED BY <1>2, <1>3, <1>4 DEF InstallIInv, InstallInv

\* The states cannot be read.
LEMMA PollFailsKeeps == InstallIInv /\ PollFails => InstallIInv'
<1> SUFFICES ASSUME InstallIInv, PollFails PROVE InstallIInv'
  OBVIOUS
<1> USE DEF PollFails
<1>1. InstallTypeOK'
  BY DEF InstallIInv, InstallInv, InstallTypeOK
<1>2. InstallReportIsTrue' /\ ErrorsAreKept'
  BY DEF InstallReportIsTrue, ErrorsAreKept, InstallIInv, InstallInv
<1>3. InstallPhase'
  BY DEF InstallIInv, InstallPhase
<1> QED BY <1>1, <1>2, <1>3 DEF InstallIInv, InstallInv

\* What fails now was not counted before.
LEMMA PollCountsOnce ==
  ASSUME InstallIInv, PollStates
  PROVE  /\ Failed' = Failed \cup Failing
         /\ ErrorsAfterPoll = Cardinality(Failed')
         /\ Failed' \in SUBSET Targets
<1>1. /\ awaited \subseteq requested /\ requested \subseteq Targets
      /\ errorCount = Cardinality(Failed)
      /\ \A t \in requested : t \in awaited <=> reportedState[t] = "unknown"
  BY DEF InstallIInv, InstallInv, InstallTypeOK, ErrorsAreKept, InstallPhase, Failed
<1>2. /\ requested' = requested
      /\ reportedState' =
           [t \in Targets |-> IF t \in Leaving THEN installState[t] ELSE reportedState[t]]
  BY DEF PollStates
<1>3. Failed' = Failed \cup Failing
  BY <1>1, <1>2 DEF Failed, Failing, Leaving, Installed
<1>4. Failed \cap Failing = {}
  BY <1>1 DEF Failed, Failing
<1>5. Failed \in SUBSET Targets /\ Failing \in SUBSET Targets
  BY <1>1 DEF Failed, Failing
<1>6. IsFiniteSet(Failed) /\ IsFiniteSet(Failing)
  BY <1>5, SomeAreFinite
<1>7. /\ Cardinality(Failed \cup Failing) =
           Cardinality(Failed) + Cardinality(Failing) - Cardinality(Failed \cap Failing)
      /\ Cardinality({}) = 0 /\ Cardinality(Failed) \in Nat /\ Cardinality(Failing) \in Nat
  BY <1>6, FS_Union, FS_EmptySet, FS_CardinalityType
<1>8. Cardinality(Failed \cup Failing) = Cardinality(Failed) + Cardinality(Failing)
  <2>1. Cardinality(Failed \cap Failing) = 0
    BY <1>4, FS_EmptySet, Zenon
  <2> HIDE DEF Failed
  <2> QED BY <1>7, <2>1
<1>9. ErrorsAfterPoll = Cardinality(Failed \cup Failing)
  BY <1>1, <1>8 DEF ErrorsAfterPoll
<1>10. Failed \cup Failing \in SUBSET Targets
  BY <1>5
<1> QED BY <1>3, <1>9, <1>10

\* The targets that have ended are awaited no more.
LEMMA PollStatesKeeps == InstallIInv /\ PollStates => InstallIInv'
<1> SUFFICES ASSUME InstallIInv, PollStates PROVE InstallIInv'
  OBVIOUS
<1>1. /\ installPc = "poll" /\ installResult = "none" /\ awaited' = awaited \ Leaving
      /\ reportedState' =
           [t \in Targets |-> IF t \in Leaving THEN installState[t] ELSE reportedState[t]]
      /\ UNCHANGED <<installState, requested>>
      /\ \/ /\ awaited' = {} /\ installPc' = "done" /\ remainingTime' = remainingTime
            /\ installResult' = IF errorCount' > 0 THEN "errors" ELSE "installed"
         \/ /\ awaited' # {} /\ installPc' = "check" /\ installResult' = installResult
            /\ \E d \in 0 .. PollLatency : remainingTime' = remainingTime - d - 1
  BY DEF PollStates, InstallIInv, InstallPhase
<1>2. errorCount' = Cardinality(Failed') /\ Failed' \in SUBSET Targets
  BY PollCountsOnce DEF PollStates
<1>3. /\ awaited \subseteq requested /\ requested \subseteq Targets /\ requested # {}
      /\ remainingTime \in Int
      /\ installState \in [Targets -> {"unknown", "installing", "installed", "error"}]
      /\ reportedState \in [Targets -> {"unknown", "installed", "error"}]
      /\ \A t \in requested :
           /\ t \in awaited <=> reportedState[t] = "unknown"
           /\ reportedState[t] = "installed" => installState[t] = "installed"
  BY <1>1 DEF InstallIInv, InstallInv, InstallTypeOK, InstallPhase
<1>4. /\ reportedState' \in [Targets -> {"unknown", "installed", "error"}]
      /\ \A t \in requested :
           /\ t \in awaited' <=> reportedState'[t] = "unknown"
           /\ reportedState'[t] = "installed" => installState[t] = "installed"
  BY <1>1, <1>3 DEF Leaving, Installed, Failing
<1>5. InstallTypeOK'
  <2>1. errorCount' \in 0 .. Cardinality(Targets)
    BY <1>2, SomeAreFinite
  <2>2. remainingTime' \in Int
    BY <1>1, <1>3, TargetsAreFinite
  <2>3. awaited' \subseteq requested /\ installPc' \in {"check", "done"}
        /\ installResult' \in {"none", "errors", "installed"}
    BY <1>1, <1>3
  <2> QED BY <1>1, <1>3, <1>4, <2>1, <2>2, <2>3 DEF InstallTypeOK
<1>6. IsFiniteSet(Failed') /\ Cardinality(Failed') \in Nat
  BY <1>2, SomeAreFinite
<1>7. InstallReportIsTrue'
  <2>1. CASE installResult' = "installed"
    <3>1. awaited' = {} /\ ~(errorCount' > 0)
      BY <1>1, <2>1
    <3>2. Cardinality(Failed') = 0
      BY <1>2, <1>6, <3>1
    <3>3. Failed' = {}
      BY <1>6, <3>2, FS_EmptySet
    <3>4. \A t \in requested : reportedState'[t] = "installed"
      BY <1>1, <1>3, <1>4, <3>1, <3>3 DEF Failed
    <3> QED BY <1>1, <1>4, <2>1, <3>4 DEF InstallReportIsTrue
  <2>2. CASE installResult' = "errors"
    <3>1. errorCount' > 0
      BY <1>1, <2>2
    <3>2. Failed' # {}
      BY <1>2, <3>1, FS_EmptySet
    <3> QED BY <2>2, <3>2 DEF InstallReportIsTrue, Failed
  <2> QED BY <2>1, <2>2 DEF InstallReportIsTrue
<1>8. ErrorsAreKept'
  BY <1>1, <1>2, <1>4 DEF ErrorsAreKept, Failed
<1>9. InstallPhase'
  BY <1>1, <1>3, <1>4 DEF InstallPhase
<1> QED BY <1>5, <1>7, <1>8, <1>9 DEF InstallIInv, InstallInv

\* The command and the installations keep it.
LEMMA InstallKeeps ==
  ASSUME InstallIInv, [InstallNext]_installVars
  PROVE  InstallIInv'
<1>1. CASE UNCHANGED installVars
  BY <1>1 DEF installVars, InstallIInv, InstallInv, InstallTypeOK, InstallReportIsTrue,
     ErrorsAreKept, InstallPhase, Unreported
<1>2. CASE InstallNext
  BY <1>2, InstallCallKeeps, MovesKeep, InstallDeadlineKeeps, PollFailsKeeps, PollStatesKeeps
     DEF InstallNext, InstallStep
<1> QED BY <1>1, <1>2

\* What any command does is a step of this one or leaves it alone.
LEMMA InstallSteps == [CfyNext]_cfyVars => [InstallNext]_installVars
BY DEF CfyNext, cfyVars, InAgents, InUpload, InPluginsInstall, InPluginsUpdate, InFlow, InLabels,
       InProfiles, InCluster, InCertificates, InLocal, InEvents, InMaintenance, InSchedules,
       InArchive, InLocalFlow

\* However the installation states change between polls: `cfy plugins install'
\* counts each target once, says that the plugin is installed only when it is on
\* all that were asked for, and forgets no error.
THEOREM InstallationIsTold == CfySpec => []InstallInv
<1>1. CfyInit => InstallIInv
  BY InstallStarts DEF CfyInit
<1>2. InstallIInv /\ [CfyNext]_cfyVars => InstallIInv'
  BY InstallSteps, InstallKeeps
<1>3. InstallIInv => InstallInv
  BY DEF InstallIInv
<1> QED BY <1>1, <1>2, <1>3, PTL DEF CfySpec
-----------------------------------------------------------------------------
\* Behind FlowInv: what is left to do, for each command, ...
StepsLeft(op) ==
  CASE op = "install" ->
         {<<"path", "upload", "create", "start">>, <<"upload", "create", "start">>,
          <<"create", "start">>, <<"start">>}
    [] op = "installGroup" ->
         {<<"path", "upload", "createGroup", "extendGroup", "startGroup">>,
          <<"upload", "createGroup", "extendGroup", "startGroup">>,
          <<"createGroup", "extendGroup", "startGroup">>, <<"extendGroup", "startGroup">>,
          <<"startGroup">>}
    [] op = "apply" ->
         {<<"path", "find">>, <<"find">>, <<"upload", "create", "start">>, <<"create", "start">>,
          <<"start">>, <<"upload", "update">>, <<"upload", "update", "labels">>, <<"update">>,
          <<"update", "labels">>, <<"labels">>}
    [] op = "uninstall" ->
         {<<"start", "getBlueprint", "delete", "await", "deleteBlueprint">>,
          <<"getBlueprint", "delete", "await", "deleteBlueprint">>,
          <<"delete", "await", "deleteBlueprint">>, <<"await", "deleteBlueprint">>,
          <<"deleteBlueprint">>}
    [] op = "delete" -> {<<"delete", "await">>, <<"await">>}
    [] op = "update" -> {<<"update">>}
    [] OTHER -> {}
FlowPlace ==
  /\ steps # <<>> => flow \in Options /\ flowResult = "none" /\ steps \in StepsLeft(flow.op)
  /\ steps = <<>> /\ flowResult = "none" => flow = NoFlow

\* ... what has been extracted is in the hands of the try statement, ...
Extracting ==
  /\ extracted = "made" =>
       flowResult = "bad_arguments" \/ (steps # <<>> /\ Head(steps) \in TryBlock)
  /\ extracted = "partly" => flow.nested
  /\ flow.nested => At("path") \/ extracted \in {"made", "partly"}

\* ... only two commands delete, ...
NothingDeleted ==
  flow.op \notin {"uninstall", "delete"} => deployment # "deleting" /\ deletion = "none"

\* ... and what each command relies on when it reports.
UninstallPhase ==
  flow.op = "uninstall" /\ steps # <<>> =>
    IF At("start") THEN deployment # "deleting" /\ deletion = "none"
                   ELSE workflow \in {"terminated", "cancelled", "queued", "late"}
DeletePhase ==
  flow.op = "delete" /\ steps # <<>> /\ At("await") =>
    deployment \in {"deleting", "absent"} \/ deletion = "failed"
GroupPhase ==
  flow.op = "installGroup" /\ steps # <<>> =>
    /\ Head(steps) \in {"createGroup", "extendGroup", "startGroup"} => "app" \in uploaded
    /\ At("startGroup") => group # "absent"
IsUpdate == At("update") \/ At("labels") \/ (At("upload") /\ Len(steps) > 1 /\ steps[2] = "update")
ApplyPhase ==
  flow.op = "apply" /\ steps # <<>> =>
    /\ IsUpdate \/ At("start") => deployment # "absent"
    /\ At("update") => "app-time" \in uploaded
    /\ At("start") => basedOn \in uploaded
    /\ At("labels") /\ ~flow.preview /\ workflow # "cancelled" => basedOn \in uploaded
FlowPhase == UninstallPhase /\ DeletePhase /\ GroupPhase /\ ApplyPhase

FlowIInv == FlowInv /\ FlowPlace /\ Extracting /\ NothingDeleted /\ FlowPhase

\* No command has been called yet.
LEMMA FlowStarts == FlowInit => FlowIInv
<1> SUFFICES ASSUME FlowInit PROVE FlowIInv
  OBVIOUS
<1> USE DEF FlowInit
<1>1. FlowInv
  BY DEF FlowInv, FlowTypeOK, FlowReportIsTrue, DeletedAfterUninstall, FlowCleansUp,
         DeploymentStates, NoFlow
<1>2. FlowPlace /\ Extracting /\ NothingDeleted /\ FlowPhase
  BY DEF FlowPlace, Extracting, NothingDeleted, FlowPhase, UninstallPhase, DeletePhase, GroupPhase,
         ApplyPhase, NoFlow
<1> QED BY <1>1, <1>2 DEF FlowIInv

\* Where a command is when a step is next.
LEMMA StepsAt ==
  ASSUME FlowIInv, NEW s, At(s)
  PROVE  /\ flow \in Options /\ flowResult = "none" /\ steps # <<>>
         /\ s = "path" => \/ flow.op = "install" /\ steps = <<"path", "upload", "create", "start">>
                          \/ /\ flow.op = "installGroup"
                             /\ steps = <<"path", "upload", "createGroup", "extendGroup", "startGroup">>
                          \/ flow.op = "apply" /\ steps = <<"path", "find">>
         /\ s = "find" => flow.op = "apply" /\ steps = <<"find">>
         /\ s = "upload" =>
              \/ flow.op \in {"install", "apply"} /\ steps = <<"upload", "create", "start">>
              \/ /\ flow.op = "installGroup"
                 /\ steps = <<"upload", "createGroup", "extendGroup", "startGroup">>
              \/ /\ flow.op = "apply"
                 /\ steps \in {<<"upload", "update">>, <<"upload", "update", "labels">>}
         /\ s = "create" => flow.op \in {"install", "apply"} /\ steps = <<"create", "start">>
         /\ s = "start" =>
              \/ flow.op \in {"install", "apply"} /\ steps = <<"start">>
              \/ /\ flow.op = "uninstall"
                 /\ steps = <<"start", "getBlueprint", "delete", "await", "deleteBlueprint">>
         /\ s = "update" => \/ flow.op \in {"apply", "update"} /\ steps = <<"update">>
                            \/ flow.op = "apply" /\ steps = <<"update", "labels">>
         /\ s = "labels" => flow.op = "apply" /\ steps = <<"labels">>
         /\ s = "createGroup" =>
              flow.op = "installGroup" /\ steps = <<"createGroup", "extendGroup", "startGroup">>
         /\ s = "extendGroup" =>
              flow.op = "installGroup" /\ steps = <<"extendGroup", "startGroup">>
         /\ s = "startGroup" => flow.op = "installGroup" /\ steps = <<"startGroup">>
         /\ s = "getBlueprint" =>
              /\ flow.op = "uninstall"
              /\ steps = <<"getBlueprint", "delete", "await", "deleteBlueprint">>
         /\ s = "delete" => \/ /\ flow.op = "uninstall"
                               /\ steps = <<"delete", "await", "deleteBlueprint">>
                            \/ flow.op = "delete" /\ steps = <<"delete", "await">>
         /\ s = "await" => \/ flow.op = "uninstall" /\ steps = <<"await", "deleteBlueprint">>
                           \/ flow.op = "delete" /\ steps = <<"await">>
         /\ s = "deleteBlueprint" => flow.op = "uninstall" /\ steps = <<"deleteBlueprint">>
<1>1. flow \in Options /\ flowResult = "none" /\ steps # <<>> /\ Head(steps) = s
      /\ steps \in StepsLeft(flow.op)
  BY DEF FlowIInv, FlowPlace, At
<1>2. flow.op \in Ops
  BY <1>1 DEF Options
<1>3. CASE flow.op = "install"
  BY <1>1, <1>3 DEF StepsLeft
<1>4. CASE flow.op = "installGroup"
  BY <1>1, <1>4 DEF StepsLeft
<1>5. CASE flow.op = "apply"
  BY <1>1, <1>5 DEF StepsLeft
<1>6. CASE flow.op = "uninstall"
  BY <1>1, <1>6 DEF StepsLeft
<1>7. CASE flow.op \in {"delete", "update"}
  BY <1>1, <1>7 DEF StepsLeft
<1> QED BY <1>2, <1>3, <1>4, <1>5, <1>6, <1>7 DEF Ops

\* The step failed: nothing is left to do, and the directory is gone, as far as
\* the path of the blueprint file leads to it.
LEMMA FlowFails ==
  ASSUME FlowIInv, NEW s, At(s), s # "path", Fail,
         uploaded' \subseteq {"app", "app-time"}, deployment' \in DeploymentStates,
         basedOn' \in {"none", "app", "app-time"}, sharing' \in BOOLEAN,
         group' \in {"absent", "empty", "created", "installed"},
         deletion' = deletion, NothingDeleted', DeletedAfterUninstall'
  PROVE  FlowIInv'
<1>1. /\ steps' = <<>> /\ flowResult' = "error" /\ flow' = flow
      /\ extracted' = IF extracted = "made" /\ Head(steps) \in TryBlock
                      THEN AfterRmtree ELSE extracted
  BY DEF Fail, RemoveExtracted
<1>2. flowResult = "none" /\ ~At("path")
  BY DEF FlowIInv, FlowPlace, At
<1>3. extracted' \in IF flow.nested THEN {"partly"} ELSE {"none", "removed"}
  BY <1>1, <1>2 DEF FlowIInv, Extracting, FlowInv, FlowTypeOK, AfterRmtree
<1>4. FlowTypeOK'
  BY <1>1, <1>3 DEF FlowIInv, FlowInv, FlowTypeOK
<1>5. FlowPlace' /\ Extracting' /\ FlowPhase' /\ FlowReportIsTrue' /\ FlowCleansUp'
  BY <1>1, <1>3 DEF FlowPlace, Extracting, FlowPhase, UninstallPhase, DeletePhase, GroupPhase,
                    ApplyPhase, FlowReportIsTrue, FlowCleansUp, At
<1> QED BY <1>4, <1>5 DEF FlowIInv, FlowInv

\* The step succeeded: the directory is gone unless the next one may fail too.
LEMMA FlowGoesOn ==
  ASSUME FlowIInv, NEW s, At(s), s # "path", NEW rest, ContinueWith(rest),
         Range(rest) \cap TryBlock # {} => rest # <<>> /\ Head(rest) \in TryBlock
  PROVE  /\ steps' = rest /\ flow' = flow
         /\ flowResult' = IF rest = <<>> THEN "done" ELSE "none"
         /\ extracted' \in {"none", "made", "partly", "removed"}
         /\ Extracting' /\ FlowCleansUp'
<1>1. /\ steps' = rest /\ flow' = flow
      /\ flowResult' = (IF rest = <<>> THEN "done" ELSE "none")
      /\ extracted' = IF /\ extracted = "made" /\ Head(steps) \in TryBlock
                         /\ Range(rest) \cap TryBlock = {}
                      THEN AfterRmtree ELSE extracted
  BY DEF ContinueWith, RemoveExtracted
<1>2. /\ flowResult = "none" /\ ~At("path")
      /\ extracted \in (IF flow.nested THEN {"made", "partly"} ELSE {"none", "made", "removed"})
  BY DEF FlowIInv, FlowPlace, FlowInv, FlowTypeOK, Extracting, At
<1>3. extracted = "made" => Head(steps) \in TryBlock
  BY <1>2 DEF FlowIInv, Extracting
<1>4. TryBlock' = TryBlock
  BY <1>1 DEF TryBlock
<1>5. extracted' = "made" => rest # <<>> /\ Head(rest) \in TryBlock
  BY <1>1, <1>2, <1>3 DEF AfterRmtree
<1>6. extracted' \in IF flow.nested THEN {"made", "partly"} ELSE {"none", "made", "removed"}
  BY <1>1, <1>2 DEF AfterRmtree
<1>7. Extracting' /\ FlowCleansUp'
  BY <1>1, <1>4, <1>5, <1>6 DEF Extracting, FlowCleansUp
<1> QED BY <1>1, <1>6, <1>7

\* ... so that this is left to show when a step goes on to its successors.
LEMMA FlowGoes ==
  ASSUME FlowIInv, NEW s, At(s), s # "path", NEW rest, ContinueWith(rest),
         Range(rest) \cap TryBlock # {} => rest # <<>> /\ Head(rest) \in TryBlock,
         rest = <<>> \/ rest \in StepsLeft(flow.op),
         uploaded' \subseteq {"app", "app-time"}, deployment' \in DeploymentStates,
         basedOn' \in {"none", "app", "app-time"}, sharing' \in BOOLEAN,
         group' \in {"absent", "empty", "created", "installed"},
         deletion' = deletion, NothingDeleted', DeletedAfterUninstall',
         FlowPhase', FlowReportIsTrue'
  PROVE  FlowIInv'
<1>1. /\ steps' = rest /\ flow' = flow
      /\ flowResult' = IF rest = <<>> THEN "done" ELSE "none"
      /\ extracted' \in {"none", "made", "partly", "removed"}
      /\ Extracting' /\ FlowCleansUp'
  BY FlowGoesOn
<1>2. flow \in Options
  BY DEF FlowIInv, FlowPlace, At
<1>3. FlowTypeOK'
  BY <1>1 DEF FlowIInv, FlowInv, FlowTypeOK
<1>4. StepsLeft(flow.op)' = StepsLeft(flow.op)
  BY <1>1 DEF StepsLeft
<1>5. FlowPlace'
  BY <1>1, <1>2, <1>4 DEF FlowPlace
<1> QED BY <1>1, <1>3, <1>5 DEF FlowIInv, FlowInv

\* A step that has nothing to do with the manager's deployment.
LEMMA FlowCallKeeps ==
  ASSUME FlowIInv, NEW o \in Options, FlowCall(o)
  PROVE  FlowIInv'
<1>1. /\ flowResult = "none" /\ steps = <<>> /\ flow' = o /\ steps' = Plan(o)
      /\ deployment' \in {"absent", "created", "installed", "partly", "uninstalled"}
      /\ basedOn' \in {"none", "app"} /\ uploaded' \subseteq {"app"} /\ sharing' \in BOOLEAN
      /\ UNCHANGED <<flowResult, extracted, group, workflow, deletion>>
  BY DEF FlowCall
<1>2. flow = NoFlow
  BY <1>1 DEF FlowIInv, FlowPlace
<1>3. deletion = "none" /\ extracted \in {"none", "removed"}
  BY <1>1, <1>2 DEF FlowIInv, FlowInv, FlowTypeOK, NothingDeleted, Extracting, NoFlow
<1>4. o.op \in Ops
  BY DEF Options
<1>5. /\ o.op = "install" => steps' = <<"path", "upload", "create", "start">>
      /\ o.op = "installGroup" =>
           steps' = <<"path", "upload", "createGroup", "extendGroup", "startGroup">>
      /\ o.op = "apply" => steps' = <<"path", "find">>
      /\ o.op = "uninstall" =>
           steps' = <<"start", "getBlueprint", "delete", "await", "deleteBlueprint">>
      /\ o.op = "delete" => steps' = <<"delete", "await">>
      /\ o.op = "update" => steps' = <<"update">>
  BY <1>1 DEF Plan
<1>6. steps' # <<>> /\ steps' \in StepsLeft(o.op)
  <2>1. CASE o.op \in {"install", "installGroup"}
    BY <1>5, <2>1 DEF StepsLeft
  <2>2. CASE o.op \in {"apply", "uninstall"}
    BY <1>5, <2>2 DEF StepsLeft
  <2>3. CASE o.op \in {"delete", "update"}
    BY <1>5, <2>3 DEF StepsLeft
  <2> QED BY <1>4, <2>1, <2>2, <2>3 DEF Ops
<1>7. FlowPlace'
  BY <1>1, <1>6 DEF FlowPlace, StepsLeft
<1>8. FlowTypeOK'
  BY <1>1 DEF FlowIInv, FlowInv, FlowTypeOK, DeploymentStates
<1>9. NothingDeleted' /\ FlowReportIsTrue' /\ DeletedAfterUninstall' /\ FlowCleansUp'
  BY <1>1, <1>3 DEF NothingDeleted, FlowReportIsTrue, DeletedAfterUninstall, FlowCleansUp
<1>10. FlowPhase'
  BY <1>1, <1>3, <1>4, <1>5 DEF Ops, FlowPhase, UninstallPhase, DeletePhase, GroupPhase, ApplyPhase, At,
     IsUpdate
<1>11. Extracting'
  <2>1. o.nested => o.op \in {"install", "installGroup", "apply"}
    BY DEF Options
  <2> QED BY <1>1, <1>3, <1>5, <2>1 DEF Extracting, At
<1> QED BY <1>7, <1>8, <1>9, <1>10, <1>11 DEF FlowIInv, FlowInv

\* What follows each step.
LEMMA Tails ==
  /\ Tail(<<"path", "upload", "create", "start">>) = <<"upload", "create", "start">>
  /\ Tail(<<"path", "upload", "createGroup", "extendGroup", "startGroup">>) =
       <<"upload", "createGroup", "extendGroup", "startGroup">>
  /\ Tail(<<"path", "find">>) = <<"find">>
  /\ Tail(<<"upload", "create", "start">>) = <<"create", "start">>
  /\ Tail(<<"upload", "createGroup", "extendGroup", "startGroup">>) =
       <<"createGroup", "extendGroup", "startGroup">>
  /\ Tail(<<"upload", "update">>) = <<"update">>
  /\ Tail(<<"upload", "update", "labels">>) = <<"update", "labels">>
  /\ Tail(<<"create", "start">>) = <<"start">>
  /\ Tail(<<"update", "labels">>) = <<"labels">>
  /\ Tail(<<"createGroup", "extendGroup", "startGroup">>) = <<"extendGroup", "startGroup">>
  /\ Tail(<<"extendGroup", "startGroup">>) = <<"startGroup">>
  /\ Tail(<<"start", "getBlueprint", "delete", "await", "deleteBlueprint">>) =
       <<"getBlueprint", "delete", "await", "deleteBlueprint">>
  /\ Tail(<<"getBlueprint", "delete", "await", "deleteBlueprint">>) =
       <<"delete", "await", "deleteBlueprint">>
  /\ Tail(<<"delete", "await", "deleteBlueprint">>) = <<"await", "deleteBlueprint">>
  /\ Tail(<<"delete", "await">>) = <<"await">>
  /\ Tail(<<"await", "deleteBlueprint">>) = <<"deleteBlueprint">>
  /\ Tail(<<"start">>) = <<>> /\ Tail(<<"update">>) = <<>> /\ Tail(<<"labels">>) = <<>>
  /\ Tail(<<"startGroup">>) = <<>> /\ Tail(<<"await">>) = <<>>
  /\ Tail(<<"deleteBlueprint">>) = <<>>
OBVIOUS

\* The blueprint's path, extracted from an archive or not.
LEMMA GetPathKeeps == FlowIInv /\ GetPath => FlowIInv'
<1> SUFFICES ASSUME FlowIInv, GetPath PROVE FlowIInv'
  OBVIOUS
<1>1. /\ At("path") /\ extracted' = IF flow.archive THEN "made" ELSE "none"
      /\ \/ steps' = Tail(steps) /\ flowResult' = flowResult
         \/ steps' = <<>> /\ flowResult' = "bad_arguments"
      /\ UNCHANGED <<flow, uploaded, deployment, basedOn, sharing, group, workflow, deletion>>
  BY DEF GetPath, managerVars
<1>2. /\ flow \in Options /\ flowResult = "none" /\ steps # <<>>
      /\ \/ flow.op = "install" /\ steps = <<"path", "upload", "create", "start">>
         \/ /\ flow.op = "installGroup"
            /\ steps = <<"path", "upload", "createGroup", "extendGroup", "startGroup">>
         \/ flow.op = "apply" /\ steps = <<"path", "find">>
  BY <1>1, StepsAt
<1>3. \/ steps' = <<>> /\ flowResult' = "bad_arguments"
      \/ /\ flowResult' = "none"
         /\ \/ flow.op = "install" /\ steps' = <<"upload", "create", "start">>
            \/ /\ flow.op = "installGroup"
               /\ steps' = <<"upload", "createGroup", "extendGroup", "startGroup">>
            \/ flow.op = "apply" /\ steps' = <<"find">>
  BY <1>1, <1>2, Tails
<1>4. FlowTypeOK'
  BY <1>1, <1>3 DEF FlowIInv, FlowInv, FlowTypeOK
<1>5. FlowPlace'
  BY <1>1, <1>2, <1>3 DEF FlowPlace, StepsLeft
<1>6. Extracting'
  <2>1. flow.nested => flow.archive
    BY <1>2 DEF Options
  <2> QED BY <1>1, <1>3, <2>1 DEF Extracting, TryBlock
<1>7. NothingDeleted' /\ FlowReportIsTrue' /\ DeletedAfterUninstall' /\ FlowCleansUp'
  BY <1>1, <1>3 DEF FlowIInv, FlowInv, NothingDeleted, FlowReportIsTrue, DeletedAfterUninstall,
     FlowCleansUp
<1>8. FlowPhase'
  BY <1>1, <1>2, <1>3 DEF FlowPhase, UninstallPhase, DeletePhase, GroupPhase, ApplyPhase, At,
     IsUpdate
<1> QED BY <1>4, <1>5, <1>6, <1>7, <1>8 DEF FlowIInv, FlowInv

\* What is left after a step is what is left of a command, inside the try
\* statement or after it.
LEMMA NextSteps ==
  ASSUME FlowIInv, NEW s, At(s), s # "path", s # "find"
  PROVE  /\ Tail(steps) = <<>> \/ Tail(steps) \in StepsLeft(flow.op)
         /\ Range(Tail(steps)) \cap TryBlock # {} =>
              Tail(steps) # <<>> /\ Head(Tail(steps)) \in TryBlock
<1>1. flow \in Options /\ steps # <<>> /\ Head(steps) = s /\ steps \in StepsLeft(flow.op)
  BY DEF FlowIInv, FlowPlace, At
<1>2. flow.op \in Ops
  BY <1>1 DEF Options
<1>3. Range(<<>>) = {}
  BY DEF Range
<1>4. CASE flow.op = "install"
  <2>1. Tail(steps) \in {<<"create", "start">>, <<"start">>, <<>>}
    <3>1. steps \in {<<"upload", "create", "start">>, <<"create", "start">>, <<"start">>}
      BY <1>1, <1>4 DEF StepsLeft
    <3> QED BY <3>1, Tails
  <2>2. Range(<<"create", "start">>) = {"create", "start"} /\ Range(<<"start">>) = {"start"}
    BY DEF Range
  <2> QED BY <1>3, <1>4, <2>1, <2>2 DEF TryBlock, StepsLeft
<1>5. CASE flow.op = "installGroup"
  <2>1. Tail(steps) \in {<<"createGroup", "extendGroup", "startGroup">>,
                         <<"extendGroup", "startGroup">>, <<"startGroup">>, <<>>}
    <3>1. steps \in {<<"upload", "createGroup", "extendGroup", "startGroup">>,
                     <<"createGroup", "extendGroup", "startGroup">>,
                     <<"extendGroup", "startGroup">>, <<"startGroup">>}
      BY <1>1, <1>5 DEF StepsLeft
    <3> QED BY <3>1, Tails
  <2>2. /\ Range(<<"createGroup", "extendGroup", "startGroup">>) =
             {"createGroup", "extendGroup", "startGroup"}
        /\ Range(<<"extendGroup", "startGroup">>) = {"extendGroup", "startGroup"}
        /\ Range(<<"startGroup">>) = {"startGroup"}
    BY DEF Range
  <2> QED BY <1>3, <1>5, <2>1, <2>2 DEF TryBlock, StepsLeft
<1>6. CASE flow.op = "apply"
  <2>1. Tail(steps) \in {<<"create", "start">>, <<"start">>, <<"update">>, <<"update", "labels">>,
                         <<"labels">>, <<>>}
    <3>1. steps \in {<<"upload", "create", "start">>, <<"create", "start">>, <<"start">>,
                     <<"upload", "update">>, <<"upload", "update", "labels">>, <<"update">>,
                     <<"update", "labels">>, <<"labels">>}
      BY <1>1, <1>6 DEF StepsLeft
    <3> QED BY <3>1, Tails
  <2>2. Tail(steps) # <<>> => Head(Tail(steps)) \in TryBlock
    <3>1. TryBlock = {"find", "upload", "create", "start", "update", "labels"}
      BY <1>6 DEF TryBlock
    <3>2. ASSUME NEW t \in {<<"create", "start">>, <<"start">>, <<"update">>,
                            <<"update", "labels">>, <<"labels">>}
          PROVE  Head(t) \in {"create", "start", "update", "labels"}
      OBVIOUS
    <3> QED BY <2>1, <3>1, <3>2
  <2>3. Tail(steps) = <<>> \/ Tail(steps) \in StepsLeft(flow.op)
    BY <1>6, <2>1 DEF StepsLeft
  <2>4. Tail(steps) = <<>> => Range(Tail(steps)) = {}
    BY <1>3
  <2> QED BY <2>2, <2>3, <2>4
<1>7. CASE flow.op = "uninstall"
  <2>1. Tail(steps) \in {<<"getBlueprint", "delete", "await", "deleteBlueprint">>,
          <<"delete", "await", "deleteBlueprint">>, <<"await", "deleteBlueprint">>,
          <<"deleteBlueprint">>, <<>>}
    BY <1>1, <1>7, Tails DEF StepsLeft
  <2>2. "upload" \notin Range(Tail(steps))
    <3>1. /\ Range(<<"getBlueprint", "delete", "await", "deleteBlueprint">>) =
               {"getBlueprint", "delete", "await", "deleteBlueprint"}
          /\ Range(<<"delete", "await", "deleteBlueprint">>) =
               {"delete", "await", "deleteBlueprint"}
          /\ Range(<<"await", "deleteBlueprint">>) = {"await", "deleteBlueprint"}
          /\ Range(<<"deleteBlueprint">>) = {"deleteBlueprint"}
      BY DEF Range
    <3>2. ASSUME NEW t \in {<<"getBlueprint", "delete", "await", "deleteBlueprint">>,
            <<"delete", "await", "deleteBlueprint">>, <<"await", "deleteBlueprint">>,
            <<"deleteBlueprint">>, <<>>}
          PROVE  "upload" \notin Range(t)
      BY <1>3, <3>1
    <3> QED BY <2>1, <3>2
  <2> QED BY <1>7, <2>1, <2>2 DEF TryBlock, StepsLeft
<1>8. CASE flow.op \in {"delete", "update"}
  <2>1. \/ flow.op = "delete" /\ Tail(steps) \in {<<"await">>, <<>>}
        \/ flow.op = "update" /\ Tail(steps) = <<>>
    BY <1>1, <1>8, Tails DEF StepsLeft
  <2>2. Range(<<"await">>) = {"await"}
    BY DEF Range
  <2> QED BY <1>3, <1>8, <2>1, <2>2 DEF TryBlock, StepsLeft
<1> QED BY <1>2, <1>4, <1>5, <1>6, <1>7, <1>8 DEF Ops

\* A step that succeeds goes on to what follows it.
LEMMA FlowContinues ==
  ASSUME FlowIInv, NEW s, At(s), s # "path", s # "find", Continue,
         uploaded' \subseteq {"app", "app-time"}, deployment' \in DeploymentStates,
         basedOn' \in {"none", "app", "app-time"}, sharing' \in BOOLEAN,
         group' \in {"absent", "empty", "created", "installed"},
         deletion' = deletion, NothingDeleted', DeletedAfterUninstall',
         FlowPhase', FlowReportIsTrue'
  PROVE  FlowIInv'
<1>1. steps # <<>> /\ ContinueWith(Tail(steps))
  BY DEF At, Continue
<1> QED BY <1>1, NextSteps, FlowGoes

\* What the manager has, and what a step that leaves it alone does not disturb.
LEMMA ManagerTypes ==
  ASSUME FlowIInv
  PROVE  /\ uploaded \subseteq {"app", "app-time"} /\ deployment \in DeploymentStates
         /\ basedOn \in {"none", "app", "app-time"} /\ sharing \in BOOLEAN
         /\ group \in {"absent", "empty", "created", "installed"}
         /\ DeletedAfterUninstall
BY DEF FlowIInv, FlowInv, FlowTypeOK

\* The deployment is there or not, which decides how `apply' goes on.
LEMMA FindKeeps == FlowIInv /\ FindDeployment => FlowIInv'
<1> SUFFICES ASSUME FlowIInv, FindDeployment PROVE FlowIInv'
  OBVIOUS
<1>1. /\ At("find")
      /\ UNCHANGED <<uploaded, deployment, basedOn, sharing, group, workflow, deletion>>
  BY DEF FindDeployment, managerVars
<1>2. flow.op = "apply" /\ steps = <<"find">> /\ steps # <<>>
  BY <1>1, StepsAt
<1>3. deployment # "deleting" /\ deletion = "none"
  BY <1>2 DEF FlowIInv, NothingDeleted
<1>4. CASE Fail
  <2>1. flow' = flow
    BY <1>4 DEF Fail
  <2>2. NothingDeleted' /\ DeletedAfterUninstall'
    BY <1>1, <1>2, <1>3, <2>1 DEF NothingDeleted, DeletedAfterUninstall
  <2> QED BY <1>1, <1>2, <1>4, <2>2, FlowFails, ManagerTypes
<1>5. ASSUME NEW rest, ContinueWith(rest),
             \/ rest = <<"upload", "create", "start">>
             \/ deployment # "absent" /\ rest = <<"upload", "update", "labels">>
             \/ deployment # "absent" /\ rest = <<"upload", "update">>
      PROVE  FlowIInv'
  <2>1. flow' = flow /\ steps' = rest
    BY <1>5 DEF ContinueWith
  <2>2. NothingDeleted' /\ DeletedAfterUninstall'
    BY <1>1, <1>2, <1>3, <2>1 DEF NothingDeleted, DeletedAfterUninstall
  <2>3. rest # <<>> /\ Head(rest) = "upload" /\ rest \in StepsLeft(flow.op) /\ "upload" \in TryBlock
    BY <1>2, <1>5 DEF StepsLeft, TryBlock
  <2>4. flowResult' = "none"
    BY <1>5, <2>3 DEF ContinueWith
  <2>5. FlowReportIsTrue'
    BY <2>4 DEF FlowReportIsTrue
  <2>6. FlowPhase'
    BY <1>1, <1>2, <1>5, <2>1 DEF FlowPhase, UninstallPhase, DeletePhase, GroupPhase, ApplyPhase, At,
       IsUpdate
  <2> QED BY <1>1, <1>2, <1>5, <2>2, <2>3, <2>5, <2>6, FlowGoes, ManagerTypes
<1> QED BY <1>4, <1>5 DEF FindDeployment

\* A blueprint is uploaded, under an id that may be taken.
LEMMA UploadBlueprintKeeps == FlowIInv /\ UploadBlueprint => FlowIInv'
<1> SUFFICES ASSUME FlowIInv, UploadBlueprint PROVE FlowIInv'
  OBVIOUS
<1>1. /\ At("upload")
      /\ UNCHANGED <<deployment, basedOn, sharing, group, workflow, deletion>>
      /\ \/ uploaded' = uploaded \cup {NewName} /\ Continue
         \/ uploaded' \in {uploaded, uploaded \cup {NewName}} /\ Fail
  BY DEF UploadBlueprint
<1>2. /\ steps # <<>>
      /\ \/ flow.op \in {"install", "apply"} /\ steps = <<"upload", "create", "start">>
         \/ /\ flow.op = "installGroup"
            /\ steps = <<"upload", "createGroup", "extendGroup", "startGroup">>
         \/ /\ flow.op = "apply"
            /\ steps \in {<<"upload", "update">>, <<"upload", "update", "labels">>}
  BY <1>1, StepsAt
<1>3. deployment # "deleting" /\ deletion = "none"
  BY <1>2 DEF FlowIInv, NothingDeleted
<1>4. NewName \in {"app", "app-time"}
  BY DEF NewName
<1>5. uploaded' \subseteq {"app", "app-time"}
  BY <1>1, <1>4, ManagerTypes
<1>6. flow' = flow
  BY <1>1 DEF Fail, Continue, ContinueWith
<1>7. NothingDeleted' /\ DeletedAfterUninstall'
  BY <1>1, <1>2, <1>3, <1>6 DEF NothingDeleted, DeletedAfterUninstall
<1>8. CASE Fail
  BY <1>1, <1>2, <1>5, <1>7, <1>8, FlowFails, ManagerTypes
<1>9. CASE Continue /\ uploaded' = uploaded \cup {NewName}
  <2>1. steps' = Tail(steps) /\ flowResult' = IF Tail(steps) = <<>> THEN "done" ELSE "none"
    BY <1>9 DEF Continue, ContinueWith
  <2>2. \/ flow.op \in {"install", "apply"} /\ steps' = <<"create", "start">>
        \/ flow.op = "installGroup" /\ steps' = <<"createGroup", "extendGroup", "startGroup">>
        \/ flow.op = "apply" /\ steps' \in {<<"update">>, <<"update", "labels">>}
    BY <1>2, <2>1, Tails
  <2>3. flowResult' = "none"
    BY <2>1, <2>2
  <2>4. flow.op = "installGroup" => "app" \in uploaded'
    BY <1>1, <1>2, <1>9 DEF NewName, At
  <2>5. Head(steps') = "update" => "app-time" \in uploaded' /\ deployment # "absent"
    <3>1. CASE Head(steps') = "update"
      <4>1. flow.op = "apply" /\ steps \in {<<"upload", "update">>, <<"upload", "update", "labels">>}
        BY <1>2, <2>1, <3>1, Tails
      <4>2. Len(steps) > 1 /\ steps[2] = "update"
        BY <4>1
      <4> QED BY <1>1, <1>2, <1>9, <4>1, <4>2
              DEF NewName, FlowIInv, FlowPhase, ApplyPhase, IsUpdate
    <3> QED BY <3>1
  <2>6. FlowReportIsTrue'
    BY <2>3 DEF FlowReportIsTrue
  <2>7. FlowPhase'
    BY <1>1, <1>6, <2>2, <2>4, <2>5 DEF FlowPhase, UninstallPhase, DeletePhase, GroupPhase,
       ApplyPhase, At, IsUpdate
  <2> QED BY <1>1, <1>5, <1>7, <1>9, <2>6, <2>7, FlowContinues, ManagerTypes
<1> QED BY <1>1, <1>8, <1>9

\* A deployment is created of what was uploaded.
LEMMA CreateDeploymentKeeps == FlowIInv /\ CreateDeployment => FlowIInv'
<1> SUFFICES ASSUME FlowIInv, CreateDeployment PROVE FlowIInv'
  OBVIOUS
<1>1. /\ At("create")
      /\ UNCHANGED <<uploaded, sharing, group, workflow, deletion>>
      /\ \/ /\ "app" \in uploaded /\ deployment' = "created" /\ basedOn' = "app" /\ Continue
         \/ deployment' = deployment /\ basedOn' = basedOn /\ Fail
  BY DEF CreateDeployment
<1>2. steps # <<>> /\ flow.op \in {"install", "apply"} /\ steps = <<"create", "start">>
  BY <1>1, StepsAt
<1>3. deployment # "deleting" /\ deletion = "none"
  BY <1>2 DEF FlowIInv, NothingDeleted
<1>4. flow' = flow
  BY <1>1 DEF Fail, Continue, ContinueWith
<1>5. NothingDeleted' /\ DeletedAfterUninstall'
  BY <1>1, <1>2, <1>3, <1>4 DEF NothingDeleted, DeletedAfterUninstall
<1>6. CASE Fail /\ deployment' = deployment /\ basedOn' = basedOn
  BY <1>1, <1>2, <1>5, <1>6, FlowFails, ManagerTypes
<1>7. CASE Continue /\ "app" \in uploaded /\ deployment' = "created" /\ basedOn' = "app"
  <2>1. steps' = <<"start">> /\ flowResult' = "none"
    BY <1>2, <1>7, Tails DEF Continue, ContinueWith
  <2>2. FlowReportIsTrue'
    BY <2>1 DEF FlowReportIsTrue
  <2>3. FlowPhase'
    BY <1>1, <1>2, <1>4, <1>7, <2>1 DEF FlowPhase, UninstallPhase, DeletePhase, GroupPhase,
       ApplyPhase, At, IsUpdate
  <2>4. deployment' \in DeploymentStates /\ basedOn' \in {"none", "app", "app-time"}
    BY <1>7 DEF DeploymentStates
  <2> QED BY <1>1, <1>5, <1>7, <2>2, <2>3, <2>4, FlowContinues, ManagerTypes
<1> QED BY <1>1, <1>6, <1>7

\* The workflow of a flow: what it leaves is what the flow may say of it.
LEMMA StartWorkflowKeeps == FlowIInv /\ StartWorkflow => FlowIInv'
<1> SUFFICES ASSUME FlowIInv, StartWorkflow PROVE FlowIInv'
  OBVIOUS
<1>1. PICK how \in {"queued", "terminated", "cancelled", "failed", "timeout", "refused"} :
       /\ deployment = "absent" => how = "refused"
       /\ workflow' = how
       /\ deployment' = IF how \in {"queued", "refused"} THEN deployment
                        ELSE IF how = "terminated" THEN Achieved ELSE "partly"
       /\ IF ReturnsNormally(how) THEN Continue ELSE Fail
  BY DEF StartWorkflow
<1>2. At("start") /\ UNCHANGED <<uploaded, basedOn, sharing, group, deletion>>
  BY DEF StartWorkflow
<1>3. /\ steps # <<>>
      /\ \/ flow.op \in {"install", "apply"} /\ steps = <<"start">>
         \/ /\ flow.op = "uninstall"
            /\ steps = <<"start", "getBlueprint", "delete", "await", "deleteBlueprint">>
  BY <1>2, StepsAt
<1>4. deployment # "deleting" /\ deletion = "none"
  BY <1>2, <1>3 DEF FlowIInv, NothingDeleted, FlowPhase, UninstallPhase
<1>5. flow' = flow
  BY <1>1 DEF Fail, Continue, ContinueWith
<1>6. deployment' # "deleting" /\ deployment' \in DeploymentStates
  BY <1>1, <1>4, ManagerTypes DEF DeploymentStates, Achieved
<1>7. NothingDeleted' /\ DeletedAfterUninstall'
  BY <1>2, <1>4, <1>6 DEF NothingDeleted, DeletedAfterUninstall
<1>8. CASE Fail
  BY <1>2, <1>3, <1>6, <1>7, <1>8, FlowFails, ManagerTypes
<1>9. CASE Continue /\ how \in {"queued", "terminated", "cancelled"}
  <2>1. /\ steps' = Tail(steps) /\ flowResult' = (IF Tail(steps) = <<>> THEN "done" ELSE "none")
        /\ workflow' = how
        /\ how = "terminated" /\ flow.op # "uninstall" => deployment' = "installed"
        /\ deployment' # "absent"
    BY <1>1, <1>9 DEF Continue, ContinueWith, Achieved
  <2>2. \/ flow.op \in {"install", "apply"} /\ steps' = <<>>
        \/ /\ flow.op = "uninstall" /\ flowResult' = "none"
           /\ steps' = <<"getBlueprint", "delete", "await", "deleteBlueprint">>
    <3>1. CASE flow.op \in {"install", "apply"} /\ steps = <<"start">>
      BY <2>1, <3>1, Tails
    <3>2. CASE /\ flow.op = "uninstall"
               /\ steps = <<"start", "getBlueprint", "delete", "await", "deleteBlueprint">>
      <4>1. steps' = <<"getBlueprint", "delete", "await", "deleteBlueprint">> /\ steps' # <<>>
        BY <2>1, <3>2, Tails
      <4> QED BY <2>1, <3>2, <4>1
    <3> QED BY <1>3, <3>1, <3>2
  <2>3. flow.op = "apply" => basedOn \in uploaded
    BY <1>2, <1>3 DEF FlowIInv, FlowPhase, ApplyPhase
  <2>4. FlowReportIsTrue'
    BY <1>2, <1>5, <1>9, <2>1, <2>2, <2>3 DEF FlowReportIsTrue
  <2>5. FlowPhase'
    <3>1. CASE steps' = <<>>
      BY <3>1 DEF FlowPhase, UninstallPhase, DeletePhase, GroupPhase, ApplyPhase
    <3>2. CASE /\ flow.op = "uninstall"
               /\ steps' = <<"getBlueprint", "delete", "await", "deleteBlueprint">>
      <4>1. ~At("start")'
        BY <3>2 DEF At
      <4> QED BY <1>5, <1>9, <2>1, <3>2, <4>1
              DEF FlowPhase, UninstallPhase, DeletePhase, GroupPhase, ApplyPhase
    <3> QED BY <2>2, <3>1, <3>2
  <2> QED BY <1>2, <1>6, <1>7, <1>9, <2>4, <2>5, FlowContinues, ManagerTypes
<1> QED BY <1>1, <1>8, <1>9 DEF ReturnsNormally

\* The deployment is updated to the new blueprint.
LEMMA UpdateDeploymentKeeps == FlowIInv /\ UpdateDeployment => FlowIInv'
<1> SUFFICES ASSUME FlowIInv, UpdateDeployment PROVE FlowIInv'
  OBVIOUS
<1>1. PICK how \in {"terminated", "cancelled", "failed", "refused", "invalid"} :
       /\ deployment = "absent" => how \in {"refused", "invalid"}
       /\ flow.preview => how \in {"terminated", "refused", "invalid"}
       /\ IF how \in {"refused", "invalid"} \/ flow.preview
          THEN UNCHANGED <<deployment, basedOn, workflow>>
          ELSE /\ workflow' = how
               /\ basedOn' \in (IF flow.op # "apply" THEN {basedOn}
                                ELSE IF how = "terminated" THEN {"app-time"}
                                ELSE {basedOn, "app-time"})
               /\ deployment' = IF how = "terminated" THEN deployment ELSE "partly"
       /\ IF how \in {"terminated", "cancelled"} THEN Continue ELSE Fail
  BY DEF UpdateDeployment
<1>2. At("update") /\ UNCHANGED <<uploaded, sharing, group, deletion>>
  BY DEF UpdateDeployment
<1>3. /\ steps # <<>>
      /\ \/ flow.op \in {"apply", "update"} /\ steps = <<"update">>
         \/ flow.op = "apply" /\ steps = <<"update", "labels">>
  BY <1>2, StepsAt
<1>4. deployment # "deleting" /\ deletion = "none"
  BY <1>3 DEF FlowIInv, NothingDeleted
<1>5. flow' = flow
  BY <1>1 DEF Fail, Continue, ContinueWith
<1>6. deployment' # "deleting" /\ deployment' \in DeploymentStates
  BY <1>1, <1>4, ManagerTypes DEF DeploymentStates
<1>7. basedOn' \in {"none", "app", "app-time"}
  BY <1>1, ManagerTypes
<1>8. NothingDeleted' /\ DeletedAfterUninstall'
  BY <1>2, <1>3, <1>4, <1>5, <1>6 DEF NothingDeleted, DeletedAfterUninstall
<1>9. CASE Fail
  BY <1>2, <1>3, <1>6, <1>7, <1>8, <1>9, FlowFails, ManagerTypes
<1>10. CASE Continue /\ how \in {"terminated", "cancelled"}
  <2>1. steps' = Tail(steps) /\ flowResult' = (IF Tail(steps) = <<>> THEN "done" ELSE "none")
    BY <1>10 DEF Continue, ContinueWith
  <2>2. \/ steps' = <<>> /\ flow.op \in {"apply", "update"}
        \/ flow.op = "apply" /\ flowResult' = "none" /\ steps' = <<"labels">>
    BY <1>3, <2>1, Tails
  <2>3. flow.op = "apply" => deployment' # "absent"
    BY <1>1, <1>2, <1>3 DEF FlowIInv, FlowPhase, ApplyPhase, IsUpdate
  <2>4. flow.op = "apply" /\ ~flow.preview /\ workflow' # "cancelled" => basedOn' \in uploaded
    <3>1. flow.op = "apply" => "app-time" \in uploaded
      BY <1>2, <1>3 DEF FlowIInv, FlowPhase, ApplyPhase
    <3> QED BY <1>1, <1>10, <3>1
  <2>5. FlowReportIsTrue'
    BY <1>2, <1>5, <2>2, <2>3, <2>4 DEF FlowReportIsTrue
  <2>6. FlowPhase'
    BY <1>2, <1>5, <2>2, <2>3, <2>4 DEF FlowPhase, UninstallPhase, DeletePhase, GroupPhase,
       ApplyPhase, At, IsUpdate
  <2> QED BY <1>2, <1>6, <1>7, <1>8, <1>10, <2>5, <2>6, FlowContinues, ManagerTypes
<1> QED BY <1>1, <1>9, <1>10

\* Labels are added after the update.
LEMMA AddLabelsKeeps == FlowIInv /\ AddLabels => FlowIInv'
<1> SUFFICES ASSUME FlowIInv, AddLabels PROVE FlowIInv'
  OBVIOUS
<1>1. /\ At("labels") /\ (Continue \/ Fail)
      /\ UNCHANGED <<uploaded, deployment, basedOn, sharing, group, workflow, deletion>>
  BY DEF AddLabels, managerVars
<1>2. steps # <<>> /\ flow.op = "apply" /\ steps = <<"labels">>
  BY <1>1, StepsAt
<1>3. flow' = flow
  BY <1>1 DEF Fail, Continue, ContinueWith
<1>4. NothingDeleted' /\ DeletedAfterUninstall'
  BY <1>1, <1>2, <1>3 DEF FlowIInv, NothingDeleted, DeletedAfterUninstall
<1>5. CASE Fail
  BY <1>1, <1>2, <1>4, <1>5, FlowFails, ManagerTypes
<1>6. CASE Continue
  <2>1. steps' = <<>>
    BY <1>2, <1>6, Tails DEF Continue, ContinueWith
  <2>2. FlowReportIsTrue'
    BY <1>1, <1>2, <1>3 DEF FlowReportIsTrue, FlowIInv, FlowPhase, ApplyPhase, IsUpdate
  <2>3. FlowPhase'
    BY <2>1 DEF FlowPhase, UninstallPhase, DeletePhase, GroupPhase, ApplyPhase
  <2> QED BY <1>1, <1>4, <1>6, <2>2, <2>3, FlowContinues, ManagerTypes
<1> QED BY <1>1, <1>5, <1>6

\* A group is created, extended, and its executions are started.
LEMMA GroupKeeps == FlowIInv /\ (CreateGroup \/ ExtendGroup \/ StartGroup) => FlowIInv'
<1> SUFFICES ASSUME FlowIInv, CreateGroup \/ ExtendGroup \/ StartGroup PROVE FlowIInv'
  OBVIOUS
<1>1. /\ UNCHANGED <<uploaded, deployment, basedOn, sharing, deletion>>
      /\ group' \in {group, "empty", "created", "installed"}
      /\ Continue \/ Fail
  BY DEF CreateGroup, ExtendGroup, StartGroup
<1>2. /\ steps # <<>> /\ flow.op = "installGroup"
      /\ steps \in {<<"createGroup", "extendGroup", "startGroup">>,
                    <<"extendGroup", "startGroup">>, <<"startGroup">>}
  BY StepsAt DEF CreateGroup, ExtendGroup, StartGroup
<1>3. PICK s \in {"createGroup", "extendGroup", "startGroup"} : At(s)
  BY DEF CreateGroup, ExtendGroup, StartGroup
<1>4. flow' = flow
  BY <1>1 DEF Fail, Continue, ContinueWith
<1>5. NothingDeleted' /\ DeletedAfterUninstall'
  BY <1>1, <1>2, <1>4 DEF FlowIInv, NothingDeleted, DeletedAfterUninstall
<1>6. group' \in {"absent", "empty", "created", "installed"}
  BY <1>1, ManagerTypes
<1>7. "app" \in uploaded /\ (At("startGroup") => group # "absent")
  BY <1>2 DEF FlowIInv, FlowPhase, GroupPhase
<1>8. CASE Fail
  BY <1>1, <1>2, <1>3, <1>5, <1>6, <1>8, FlowFails, ManagerTypes
<1>9. CASE Continue /\ ~Fail
  <2>1. /\ steps' = Tail(steps)
        /\ flowResult' = (IF Tail(steps) = <<>> THEN "done" ELSE "none")
    BY <1>9 DEF Continue, ContinueWith
  <2>2. \/ steps' \in {<<"extendGroup", "startGroup">>, <<"startGroup">>} /\ flowResult' = "none"
        \/ steps' = <<>> /\ steps = <<"startGroup">>
    <3>1. CASE steps = <<"startGroup">>
      BY <2>1, <3>1, Tails
    <3>2. CASE steps = <<"extendGroup", "startGroup">>
      <4>1. steps' = <<"startGroup">> /\ steps' # <<>>
        BY <2>1, <3>2, Tails
      <4> QED BY <2>1, <4>1
    <3>3. CASE steps = <<"createGroup", "extendGroup", "startGroup">>
      <4>1. steps' = <<"extendGroup", "startGroup">> /\ steps' # <<>>
        BY <2>1, <3>3, Tails
      <4> QED BY <2>1, <4>1
    <3> QED BY <1>2, <3>1, <3>2, <3>3
  <2>3. At("startGroup")' \/ steps' = <<>> => group' # "absent"
    <3>1. CASE steps = <<"startGroup">>
      BY <1>7, <1>9, <3>1 DEF CreateGroup, ExtendGroup, StartGroup, At
    <3>2. CASE steps = <<"extendGroup", "startGroup">>
      BY <1>9, <3>2 DEF CreateGroup, ExtendGroup, StartGroup, At
    <3>3. CASE steps = <<"createGroup", "extendGroup", "startGroup">>
      BY <1>9, <3>3 DEF CreateGroup, ExtendGroup, StartGroup, At
    <3> QED BY <1>2, <3>1, <3>2, <3>3
  <2>4. FlowReportIsTrue'
    BY <1>1, <1>2, <1>4, <1>7, <2>2, <2>3 DEF FlowReportIsTrue
  <2>5. FlowPhase'
    BY <1>1, <1>2, <1>4, <1>7, <2>2, <2>3 DEF FlowPhase, UninstallPhase, DeletePhase, GroupPhase,
       ApplyPhase
  <2> QED BY <1>1, <1>3, <1>5, <1>6, <1>9, <2>4, <2>5, FlowContinues, ManagerTypes
<1> QED BY <1>1, <1>8, <1>9

\* The deployment is looked up, for its blueprint.
LEMMA GetDeploymentKeeps == FlowIInv /\ GetDeployment => FlowIInv'
<1> SUFFICES ASSUME FlowIInv, GetDeployment PROVE FlowIInv'
  OBVIOUS
<1>1. /\ At("getBlueprint") /\ (Continue \/ Fail)
      /\ UNCHANGED <<uploaded, deployment, basedOn, sharing, group, workflow, deletion>>
  BY DEF GetDeployment, managerVars
<1>2. /\ steps # <<>> /\ flow.op = "uninstall"
      /\ steps = <<"getBlueprint", "delete", "await", "deleteBlueprint">>
  BY <1>1, StepsAt
<1>3. flow' = flow
  BY <1>1 DEF Fail, Continue, ContinueWith
<1>4. workflow \in {"terminated", "cancelled", "queued", "late"}
  BY <1>2 DEF FlowIInv, FlowPhase, UninstallPhase, At
<1>5. NothingDeleted' /\ DeletedAfterUninstall'
  BY <1>1, <1>2, <1>3, <1>4 DEF NothingDeleted, DeletedAfterUninstall
<1>6. CASE Fail
  BY <1>1, <1>2, <1>5, <1>6, FlowFails, ManagerTypes
<1>7. CASE Continue
  <2>1. steps' = <<"delete", "await", "deleteBlueprint">> /\ flowResult' = "none"
    BY <1>2, <1>7, Tails DEF Continue, ContinueWith
  <2>2. FlowReportIsTrue'
    BY <2>1 DEF FlowReportIsTrue
  <2>3. FlowPhase'
    BY <1>1, <1>2, <1>3, <1>4, <2>1
       DEF FlowPhase, UninstallPhase, DeletePhase, GroupPhase, ApplyPhase, At
  <2> QED BY <1>1, <1>5, <1>7, <2>2, <2>3, FlowContinues, ManagerTypes
<1> QED BY <1>1, <1>6, <1>7

\* Its deletion is asked for, and goes on in the background.
LEMMA DeleteDeploymentKeeps == FlowIInv /\ DeleteDeployment => FlowIInv'
<1> SUFFICES ASSUME FlowIInv, DeleteDeployment PROVE FlowIInv'
  OBVIOUS
<1>1. /\ At("delete")
      /\ \/ deployment' = "deleting" /\ Continue
         \/ deployment' = deployment /\ Fail
      /\ UNCHANGED <<uploaded, basedOn, sharing, group, workflow, deletion>>
  BY DEF DeleteDeployment
<1>2. /\ steps # <<>>
      /\ \/ flow.op = "uninstall" /\ steps = <<"delete", "await", "deleteBlueprint">>
         \/ flow.op = "delete" /\ steps = <<"delete", "await">>
  BY <1>1, StepsAt
<1>3. flow' = flow
  BY <1>1 DEF Fail, Continue, ContinueWith
<1>4. flow.op = "uninstall" => workflow \in {"terminated", "cancelled", "queued", "late"}
  BY <1>1, <1>2 DEF FlowIInv, FlowPhase, UninstallPhase, At
<1>5. NothingDeleted' /\ DeletedAfterUninstall'
  BY <1>1, <1>2, <1>3, <1>4 DEF NothingDeleted, DeletedAfterUninstall
<1>6. deployment' \in DeploymentStates
  BY <1>1, ManagerTypes DEF DeploymentStates
<1>7. CASE Fail
  BY <1>1, <1>2, <1>5, <1>6, <1>7, FlowFails, ManagerTypes
<1>8. CASE Continue /\ deployment' = "deleting"
  <2>1. \/ flow.op = "uninstall" /\ steps' = <<"await", "deleteBlueprint">>
        \/ flow.op = "delete" /\ steps' = <<"await">>
    BY <1>2, <1>8, Tails DEF Continue, ContinueWith
  <2>2. flowResult' = "none"
    BY <1>8, <2>1 DEF Continue, ContinueWith
  <2>3. FlowReportIsTrue'
    BY <2>2 DEF FlowReportIsTrue
  <2>4. FlowPhase'
    BY <1>1, <1>3, <1>4, <1>8, <2>1
       DEF FlowPhase, UninstallPhase, DeletePhase, GroupPhase, ApplyPhase, At
  <2> QED BY <1>1, <1>5, <1>6, <1>8, <2>3, <2>4, FlowContinues, ManagerTypes
<1> QED BY <1>1, <1>7, <1>8

\* Its deletion is waited for.
LEMMA AwaitDeletionKeeps == FlowIInv /\ AwaitDeletion => FlowIInv'
<1> SUFFICES ASSUME FlowIInv, AwaitDeletion PROVE FlowIInv'
  OBVIOUS
<1>1. /\ At("await") /\ ((deployment # "deleting" /\ Continue) \/ Fail)
      /\ UNCHANGED <<uploaded, deployment, basedOn, sharing, group, workflow, deletion>>
  BY DEF AwaitDeletion, managerVars
<1>2. /\ steps # <<>>
      /\ \/ flow.op = "uninstall" /\ steps = <<"await", "deleteBlueprint">>
         \/ flow.op = "delete" /\ steps = <<"await">>
  BY <1>1, StepsAt
<1>3. flow' = flow
  BY <1>1 DEF Fail, Continue, ContinueWith
<1>4. flow.op = "uninstall" => workflow \in {"terminated", "cancelled", "queued", "late"}
  BY <1>1, <1>2 DEF FlowIInv, FlowPhase, UninstallPhase, At
<1>5. NothingDeleted' /\ DeletedAfterUninstall'
  BY <1>1, <1>2, <1>3, <1>4 DEF NothingDeleted, DeletedAfterUninstall
<1>6. CASE Fail
  BY <1>1, <1>2, <1>5, <1>6, FlowFails, ManagerTypes
<1>7. CASE Continue /\ deployment # "deleting"
  <2>1. CASE flow.op = "uninstall" /\ steps = <<"await", "deleteBlueprint">>
    <3>1. steps' = <<"deleteBlueprint">> /\ flowResult' = "none"
      BY <1>7, <2>1, Tails DEF Continue, ContinueWith
    <3>2. FlowReportIsTrue'
      BY <3>1 DEF FlowReportIsTrue
    <3>3. FlowPhase'
      BY <1>1, <1>3, <1>4, <2>1, <3>1
         DEF FlowPhase, UninstallPhase, DeletePhase, GroupPhase, ApplyPhase, At
    <3> QED BY <1>1, <1>5, <1>7, <3>2, <3>3, FlowContinues, ManagerTypes
  <2>2. CASE flow.op = "delete" /\ steps = <<"await">>
    <3>1. steps' = <<>>
      BY <1>7, <2>2, Tails DEF Continue, ContinueWith
    <3>2. deployment = "absent" \/ deletion = "failed"
      BY <1>1, <1>7, <2>2 DEF FlowIInv, FlowPhase, DeletePhase
    <3>3. FlowReportIsTrue'
      BY <1>1, <1>3, <2>2, <3>2 DEF FlowReportIsTrue
    <3>4. FlowPhase'
      BY <3>1 DEF FlowPhase, UninstallPhase, DeletePhase, GroupPhase, ApplyPhase
    <3> QED BY <1>1, <1>5, <1>7, <3>3, <3>4, FlowContinues, ManagerTypes
  <2> QED BY <1>2, <2>1, <2>2
<1> QED BY <1>1, <1>6, <1>7

\* The blueprint is deleted after the deployment.
LEMMA DeleteBlueprintKeeps == FlowIInv /\ DeleteBlueprint => FlowIInv'
<1> SUFFICES ASSUME FlowIInv, DeleteBlueprint PROVE FlowIInv'
  OBVIOUS
<1>1. /\ At("deleteBlueprint")
      /\ \/ deployment = "absent" /\ uploaded' = uploaded \ {"app"} /\ Continue
         \/ uploaded' = uploaded /\ Fail
      /\ UNCHANGED <<deployment, basedOn, sharing, group, workflow, deletion>>
  BY DEF DeleteBlueprint
<1>2. steps # <<>> /\ flow.op = "uninstall" /\ steps = <<"deleteBlueprint">>
  BY <1>1, StepsAt
<1>3. flow' = flow
  BY <1>1 DEF Fail, Continue, ContinueWith
<1>4. workflow \in {"terminated", "cancelled", "queued", "late"}
  BY <1>1, <1>2 DEF FlowIInv, FlowPhase, UninstallPhase, At
<1>5. NothingDeleted' /\ DeletedAfterUninstall'
  BY <1>1, <1>2, <1>3, <1>4 DEF NothingDeleted, DeletedAfterUninstall
<1>6. uploaded' \subseteq {"app", "app-time"}
  BY <1>1, ManagerTypes
<1>7. CASE Fail
  BY <1>1, <1>2, <1>5, <1>6, <1>7, FlowFails, ManagerTypes
<1>8. CASE Continue /\ deployment = "absent" /\ uploaded' = uploaded \ {"app"}
  <2>1. steps' = <<>>
    BY <1>2, <1>8, Tails DEF Continue, ContinueWith
  <2>2. FlowReportIsTrue'
    BY <1>1, <1>2, <1>3, <1>8 DEF FlowReportIsTrue
  <2>3. FlowPhase'
    BY <2>1 DEF FlowPhase, UninstallPhase, DeletePhase, GroupPhase, ApplyPhase
  <2> QED BY <1>1, <1>5, <1>6, <1>8, <2>2, <2>3, FlowContinues, ManagerTypes
<1> QED BY <1>1, <1>7, <1>8

\* The manager deletes in the background, also after the command has ended.
LEMMA DeletionEndsKeeps == FlowIInv /\ DeletionEnds => FlowIInv'
<1> SUFFICES ASSUME FlowIInv, DeletionEnds PROVE FlowIInv'
  OBVIOUS
<1>1. /\ deployment = "deleting"
      /\ \/ deployment' = "absent" /\ deletion' = "terminated"
         \/ deployment' = "uninstalled" /\ deletion' = "failed"
      /\ UNCHANGED <<flow, steps, flowResult, extracted, uploaded, basedOn, sharing, group, workflow>>
  BY DEF DeletionEnds
<1>2. flow.op \in {"uninstall", "delete"}
  BY <1>1 DEF FlowIInv, NothingDeleted
<1>3. FlowTypeOK'
  BY <1>1 DEF FlowIInv, FlowInv, FlowTypeOK, DeploymentStates
<1>4. FlowPlace' /\ Extracting' /\ NothingDeleted' /\ FlowCleansUp'
  BY <1>1, <1>2 DEF FlowIInv, FlowInv, FlowPlace, Extracting, NothingDeleted, FlowCleansUp, TryBlock,
                    StepsLeft, At
<1>5. DeletedAfterUninstall'
  BY <1>1 DEF FlowIInv, FlowInv, DeletedAfterUninstall
<1>6. FlowReportIsTrue'
  BY <1>1, <1>2 DEF FlowIInv, FlowInv, FlowReportIsTrue
<1>7. FlowPhase'
  BY <1>1, <1>2 DEF FlowIInv, FlowPhase, UninstallPhase, DeletePhase, GroupPhase, ApplyPhase, At
<1> QED BY <1>3, <1>4, <1>5, <1>6, <1>7 DEF FlowIInv, FlowInv

\* A workflow that was queued runs while the command goes on, or after it.
LEMMA QueuedRunsKeeps == FlowIInv /\ QueuedRuns => FlowIInv'
<1> SUFFICES ASSUME FlowIInv, QueuedRuns PROVE FlowIInv'
  OBVIOUS
<1>1. /\ workflow = "queued" /\ workflow' = "late" /\ deployment \notin {"absent", "deleting"}
      /\ deployment' \in {"installed", "uninstalled", "partly"}
      /\ UNCHANGED <<flow, steps, flowResult, extracted, uploaded, basedOn, sharing, group, deletion>>
  BY DEF QueuedRuns, Achieved
<1>2. FlowTypeOK'
  BY <1>1 DEF FlowIInv, FlowInv, FlowTypeOK, DeploymentStates
<1>3. FlowPlace' /\ Extracting' /\ NothingDeleted' /\ FlowCleansUp'
  BY <1>1 DEF FlowIInv, FlowInv, FlowPlace, Extracting, NothingDeleted, FlowCleansUp, TryBlock,
              StepsLeft, At
<1>4. DeletedAfterUninstall'
  BY <1>1 DEF FlowIInv, FlowInv, DeletedAfterUninstall
<1>5. FlowReportIsTrue'
  BY <1>1 DEF FlowIInv, FlowInv, FlowReportIsTrue
<1>6. FlowPhase'
  BY <1>1 DEF FlowIInv, FlowPhase, UninstallPhase, DeletePhase, GroupPhase, ApplyPhase, At, IsUpdate
<1> QED BY <1>2, <1>3, <1>4, <1>5, <1>6 DEF FlowIInv, FlowInv

\* Every step of every flow, and of others meanwhile, keeps it.
LEMMA FlowKeeps ==
  ASSUME FlowIInv, [FlowNext]_flowVars
  PROVE  FlowIInv'
<1>1. ASSUME UNCHANGED <<flow, steps, flowResult, extracted, uploaded, deployment, basedOn, group,
                         workflow, deletion>>, sharing' \in BOOLEAN
      PROVE  FlowIInv'
  <2>1. FlowInv'
    BY <1>1 DEF FlowIInv, FlowInv, FlowTypeOK, FlowReportIsTrue, DeletedAfterUninstall, FlowCleansUp
  <2>2. FlowPlace'
    BY <1>1 DEF FlowIInv, FlowPlace, StepsLeft
  <2>3. Extracting' /\ NothingDeleted'
    BY <1>1 DEF FlowIInv, Extracting, NothingDeleted, TryBlock, At
  <2>4. FlowPhase'
    BY <1>1 DEF FlowIInv, FlowPhase, UninstallPhase, DeletePhase, GroupPhase, ApplyPhase, At,
                IsUpdate
  <2> QED BY <2>1, <2>2, <2>3, <2>4 DEF FlowIInv
<1>2. CASE UNCHANGED flowVars
  BY <1>1, <1>2, ManagerTypes DEF flowVars
<1>3. CASE OthersDeploy
  BY <1>1, <1>3 DEF OthersDeploy
<1>4. CASE FlowStep
  BY <1>4, GetPathKeeps, FindKeeps, UploadBlueprintKeeps, CreateDeploymentKeeps, StartWorkflowKeeps,
     UpdateDeploymentKeeps, AddLabelsKeeps, GroupKeeps, GetDeploymentKeeps, DeleteDeploymentKeeps,
     AwaitDeletionKeeps, DeleteBlueprintKeeps DEF FlowStep
<1> QED BY <1>2, <1>3, <1>4, DeletionEndsKeeps, QueuedRunsKeeps, FlowCallKeeps DEF FlowNext

\* What any command does is a step of a flow or leaves it alone.
LEMMA FlowSteps == [CfyNext]_cfyVars => [FlowNext]_flowVars
BY DEF CfyNext, cfyVars, InAgents, InUpload, InPluginsInstall, InPluginsUpdate, InFlow, InLabels,
       InProfiles, InCluster, InCertificates, InLocal, InEvents, InMaintenance, InSchedules,
       InArchive, InLocalFlow

\* Commands made of commands, on a manager that queues workflows, deletes in the
\* background and has other users: what `install', `uninstall', `apply', and
\* creating, updating and deleting deployments report is so, with the exceptions
\* that FlowReportIsTrue names, nothing is deleted after a workflow that was
\* refused, failed or did not end in time, and the archive's directory is removed,
\* completely if the blueprint file is at its top.
THEOREM FlowsTellTheTruth == CfySpec => []FlowInv
<1>1. CfyInit => FlowIInv
  BY FlowStarts DEF CfyInit
<1>2. FlowIInv /\ [CfyNext]_cfyVars => FlowIInv'
  BY FlowSteps, FlowKeeps
<1>3. FlowIInv => FlowInv
  BY DEF FlowIInv
<1> QED BY <1>1, <1>2, <1>3, PTL DEF CfySpec
-----------------------------------------------------------------------------
\* Behind FilterInv: while the instances are paged through, the deployments left
\* are those without a host that is known not to be up.
Wanted(d) ==
  /\ request.allTenants \/ d[1] = CurrentTenant
  /\ request.deployments # {} => d[2] \in request.deployments
  /\ request.nodes # {} => NodesFound(request, d) # {}
Looked(t) == IF t \in unpaged THEN 0 ELSE IF t \in paging THEN offset ELSE Len(instances[t])
IsDown(ni, d) == ni.dep = d[2] /\ ni.compute /\ ~ni.started
UpSoFar(d) == \A i \in 1 .. Len(instances[d[1]]) :
  i <= Looked(d[1]) => ~IsDown(instances[d[1]][i], d)
FilterPhase ==
  /\ filterPc = "read" => request \in Requests /\ instances \in Inventories
  /\ filterPc \in {"idle", "read"} => DOMAIN selected = {} /\ paging = {} /\ unpaged = {}
  /\ filterPc = "page" =>
       /\ request.instances = {} /\ request.deployments = {}
       /\ instances \in Inventories /\ offset \in Nat
       /\ \A t \in paging : paging = {t} /\ offset <= Len(instances[t])
       /\ DOMAIN selected = {d \in Existing : Wanted(d) /\ UpSoFar(d)}

FilterIInv == FilterTypeOK /\ SelectsEligible /\ FilterPhase

\* Deployments and instances are of tenants; a page is not empty.
LEMMA FilterBounds ==
  /\ PageSize \in Nat \ {0} /\ CurrentTenant \in Tenants
  /\ \A d \in Existing : d[1] \in Tenants /\ d = <<d[1], d[2]>>
  /\ \A r \in Requests : \A id \in r.instances : id[1] \in Tenants
BY FilterAssumption DEF Existing

\* What a list of instances is.
LEMMA ListOf ==
  ASSUME NEW inv \in Inventories, NEW t \in Tenants
  PROVE  /\ Len(inv[t]) \in Nat /\ DOMAIN inv[t] = 1 .. Len(inv[t])
         /\ \A i \in DOMAIN inv[t] : <<t, inv[t][i].dep>> \in Existing
         /\ \A i \in DOMAIN inv[t] : inv[t][i].compute \in BOOLEAN /\ inv[t][i].started \in BOOLEAN
<1> DEFINE Ids == {d[2] : d \in DOMAIN NodesOf}
<1>1. inv \in [Tenants -> Seq([dep : Ids, compute : BOOLEAN, started : BOOLEAN])]
  BY FilterAssumption
<1>2. inv[t] \in Seq([dep : Ids, compute : BOOLEAN, started : BOOLEAN])
  BY <1>1
<1>3. \A i \in DOMAIN inv[t] : <<t, inv[t][i].dep>> \in Existing
  BY FilterAssumption DEF Existing
<1> HIDE DEF Ids
<1>4. Len(inv[t]) \in Nat /\ DOMAIN inv[t] = 1 .. Len(inv[t])
  BY <1>2
<1>5. \A i \in DOMAIN inv[t] : inv[t][i] \in [dep : Ids, compute : BOOLEAN, started : BOOLEAN]
  BY <1>2, <1>4, ElementOfSeq
<1> QED BY <1>3, <1>4, <1>5

\* Nothing is selected yet.
LEMMA FilterStarts == FilterInit => FilterIInv
<1> SUFFICES ASSUME FilterInit PROVE FilterIInv
  OBVIOUS
<1> USE DEF FilterInit
<1>1. Cardinality({}) = 0 /\ DOMAIN selected = {}
  BY FS_EmptySet
<1>2. FilterTypeOK
  BY <1>1 DEF FilterTypeOK
<1>3. SelectsEligible /\ FilterPhase
  BY <1>1 DEF SelectsEligible, FilterPhase
<1> QED BY <1>2, <1>3 DEF FilterIInv

\* The command is called, with options that agree or not.
LEMMA FilterCallKeeps ==
  ASSUME FilterIInv, NEW r \in Requests, NEW inv \in Inventories, FilterCall(r, inv)
  PROVE  FilterIInv'
<1> USE DEF FilterCall
<1>1. FilterTypeOK'
  BY DEF FilterIInv, FilterTypeOK
<1>2. SelectsEligible' /\ FilterPhase'
  BY DEF SelectsEligible, FilterIInv, FilterPhase
<1> QED BY <1>1, <1>2 DEF FilterIInv

\* The command ends with an error and leaves all as it was.
LEMMA FilterErrs ==
  ASSUME FilterIInv, filterPc' \in {"error", "KeyError"}, filterPc \in {"read", "page"},
         UNCHANGED <<request, instances, tenantKeys, selected, unpaged, paging, offset>>
  PROVE  FilterIInv'
<1>1. FilterTypeOK'
  BY DEF FilterIInv, FilterTypeOK
<1>2. SelectsEligible' /\ FilterPhase'
  BY DEF SelectsEligible, FilterPhase
<1> QED BY <1>1, <1>2 DEF FilterIInv

\* The map of the deployments of the instances that were named.
LEMMA SelectInstancesKeeps == FilterIInv /\ SelectInstances => FilterIInv'
<1> SUFFICES ASSUME FilterIInv, SelectInstances PROVE FilterIInv'
  OBVIOUS
<1> DEFINE Bad == \/ request.deployments # {} \/ request.nodes # {}
                  \/ \E id \in request.instances : id[2] \notin DOMAIN instances[id[1]]
           DepOf(id) == <<id[1], instances[id[1]][id[2]].dep>>
           deps == {DepOf(id) : id \in request.instances}
<1>1. /\ filterPc = "read" /\ request.instances # {}
      /\ UNCHANGED <<request, instances, paging, offset>>
      /\ \/ Bad /\ FilterEnd("error")
         \/ /\ ~Bad /\ filterPc' = "map" /\ unpaged' = unpaged
            /\ Select([d \in deps |-> Filter({id \in request.instances : DepOf(id) = d}, {})])
  BY DEF SelectInstances
<1>2. CASE Bad /\ FilterEnd("error")
  BY <1>1, <1>2, FilterErrs DEF FilterEnd
<1>3. CASE /\ ~Bad /\ filterPc' = "map" /\ unpaged' = unpaged
           /\ Select([d \in deps |-> Filter({id \in request.instances : DepOf(id) = d}, {})])
  <2>1. request \in Requests /\ instances \in Inventories /\ unpaged = {} /\ paging = {}
    BY <1>1 DEF FilterIInv, FilterPhase
  <2>2. DOMAIN selected' = deps /\ tenantKeys' = {d[1] : d \in DOMAIN selected'}
    BY <1>3 DEF Select
  <2>3. ASSUME NEW id \in request.instances PROVE DepOf(id) \in Existing
    <3>1. id[1] \in Tenants /\ id[2] \in DOMAIN instances[id[1]]
      BY <1>3, <2>1, FilterBounds
    <3> QED BY <2>1, <3>1, ListOf
  <2>4. deps \subseteq Existing
    BY <2>3
  <2>5. FilterTypeOK'
    BY <1>1, <1>3, <2>1, <2>2, <2>4 DEF FilterIInv, FilterTypeOK
  <2>6. DOMAIN selected' = {d \in Existing : \E id \in request.instances : d = DepOf(id)}
    BY <2>2, <2>4
  <2>7. SelectsEligible'
    BY <1>1, <2>6 DEF SelectsEligible, Existing
  <2>8. FilterPhase'
    BY <1>3 DEF FilterPhase
  <2> QED BY <2>5, <2>7, <2>8 DEF FilterIInv
<1> QED BY <1>1, <1>2, <1>3

\* The map of the deployments that were named, or of all.
LEMMA SelectDeploymentsKeeps == FilterIInv /\ SelectDeployments => FilterIInv'
<1> SUFFICES ASSUME FilterIInv, SelectDeployments PROVE FilterIInv'
  OBVIOUS
<1> DEFINE byId == {d \in Listed(request) : request.deployments = {} \/ d[2] \in request.deployments}
           chosen == {d \in byId : request.nodes = {} \/ NodesFound(request, d) # {}}
<1>1. /\ filterPc = "read" /\ request.instances = {}
      /\ UNCHANGED <<request, instances, paging, offset>>
      /\ \/ FilterEnd("error")
         \/ /\ Select([d \in chosen |-> Filter({}, request.nodes)])
            /\ IF request.deployments = {}
               THEN filterPc' = "page" /\ unpaged' = {d[1] : d \in chosen}
               ELSE filterPc' = "map" /\ unpaged' = {}
  BY DEF SelectDeployments
<1>2. CASE FilterEnd("error")
  BY <1>1, <1>2, FilterErrs DEF FilterEnd
<1>3. CASE /\ Select([d \in chosen |-> Filter({}, request.nodes)])
           /\ IF request.deployments = {}
              THEN filterPc' = "page" /\ unpaged' = {d[1] : d \in chosen}
              ELSE filterPc' = "map" /\ unpaged' = {}
  <2>1. request \in Requests /\ instances \in Inventories /\ unpaged = {} /\ paging = {}
    BY <1>1 DEF FilterIInv, FilterPhase
  <2>2. DOMAIN selected' = chosen /\ tenantKeys' = {d[1] : d \in DOMAIN selected'}
    BY <1>3 DEF Select
  <2>3. chosen = {d \in Existing : Wanted(d)}
    BY DEF Listed, Wanted
  <2> HIDE DEF chosen
  <2>4. unpaged' \subseteq Tenants /\ unpaged' \in {{d[1] : d \in chosen}, {}}
    BY <1>3, <2>3, FilterBounds
  <2>5. FilterTypeOK'
    BY <1>1, <1>3, <2>1, <2>2, <2>3, <2>4 DEF FilterIInv, FilterTypeOK
  <2>6. CASE request.deployments = {}
    <3>1. filterPc' = "page" /\ unpaged' = {d[1] : d \in chosen}
      BY <1>3, <2>6
    <3>2. ASSUME NEW d \in Existing, Wanted(d) PROVE UpSoFar(d)'
      <4>1. d \in chosen
        BY <2>3, <3>2
      <4>2. Looked(d[1])' = 0
        BY <3>1, <4>1 DEF Looked
      <4> QED BY <4>2 DEF UpSoFar
    <3>3. \A d : Wanted(d)' <=> Wanted(d)
      BY <1>1 DEF Wanted, NodesFound
    <3>4. DOMAIN selected' = {d \in Existing : Wanted(d)' /\ UpSoFar(d)'}
      BY <2>2, <2>3, <3>2, <3>3
    <3>5. FilterPhase'
      BY <1>1, <2>1, <2>6, <3>1, <3>4 DEF FilterIInv, FilterTypeOK, FilterPhase, Existing
    <3> QED BY <2>5, <3>1, <3>5 DEF FilterIInv, SelectsEligible
  <2>7. CASE request.deployments # {}
    <3>1. filterPc' = "map"
      BY <1>3, <2>7
    <3>2. SelectsEligible'
      BY <1>1, <2>2, <2>3, <2>7 DEF SelectsEligible, Wanted, NodesFound, Existing
    <3> QED BY <2>5, <3>1, <3>2 DEF FilterIInv, FilterPhase
  <2> QED BY <2>6, <2>7
<1> QED BY <1>1, <1>2, <1>3

\* The paging of a tenant begins, or all have been paged.
LEMMA NextTenantKeeps == FilterIInv /\ NextTenant => FilterIInv'
<1> SUFFICES ASSUME FilterIInv, NextTenant PROVE FilterIInv'
  OBVIOUS
<1>1. /\ filterPc = "page" /\ paging = {} /\ offset' = 0
      /\ UNCHANGED <<request, instances, tenantKeys, selected>>
  BY DEF NextTenant
<1>2. /\ request.instances = {} /\ request.deployments = {}
      /\ instances \in Inventories
      /\ DOMAIN selected = {d \in Existing : Wanted(d) /\ UpSoFar(d)}
  BY <1>1 DEF FilterIInv, FilterPhase
<1>3. \A d : Wanted(d)' <=> Wanted(d)
  BY <1>1 DEF Wanted, NodesFound
<1>4. CASE unpaged = {} /\ filterPc' = "map" /\ UNCHANGED <<unpaged, paging>>
  <2>1. FilterTypeOK'
    BY <1>1, <1>4 DEF FilterIInv, FilterTypeOK
  <2>2. ASSUME NEW d \in Existing PROVE UpSoFar(d) <=> HostsAreUp(d)
    <3>1. d[1] \in Tenants
      BY FilterBounds
    <3>2. Len(instances[d[1]]) \in Nat /\ DOMAIN instances[d[1]] = 1 .. Len(instances[d[1]])
      BY <1>2, <3>1, ListOf
    <3>3. Looked(d[1]) = Len(instances[d[1]])
      BY <1>1, <1>4 DEF Looked
    <3> QED BY <3>2, <3>3 DEF UpSoFar, HostsAreUp, IsDown
  <2>3. \A d : HostsAreUp(d)' <=> HostsAreUp(d)
    BY <1>1 DEF HostsAreUp
  <2>4. DOMAIN selected' = {d \in Existing : Wanted(d) /\ HostsAreUp(d)}
    BY <1>1, <1>2, <2>2
  <2>5. SelectsEligible'
    BY <1>1, <1>2, <2>3, <2>4 DEF SelectsEligible, Wanted, NodesFound, Existing
  <2> QED BY <1>4, <2>1, <2>5 DEF FilterIInv, FilterPhase
<1>5. ASSUME NEW t \in unpaged, paging' = {t}, unpaged' = unpaged \ {t}, filterPc' = filterPc
      PROVE  FilterIInv'
  <2>1. t \in Tenants
    BY DEF FilterIInv, FilterTypeOK
  <2>2. Cardinality(paging') = 1
    BY <1>5, FS_Singleton
  <2>3. FilterTypeOK'
    BY <1>1, <1>5, <2>1, <2>2 DEF FilterIInv, FilterTypeOK
  <2>4. \A u : Looked(u)' = Looked(u)
    BY <1>1, <1>5 DEF Looked
  <2>5. \A d : UpSoFar(d)' <=> UpSoFar(d)
    BY <1>1, <2>4 DEF UpSoFar, IsDown
  <2>6. 0 <= Len(instances[t])
    BY <1>2, <2>1, ListOf
  <2>7. FilterPhase'
    BY <1>1, <1>2, <1>3, <1>5, <2>5, <2>6 DEF FilterPhase, Existing
  <2> QED BY <1>1, <1>5, <2>3, <2>7 DEF FilterIInv, SelectsEligible
<1> QED BY <1>4, <1>5 DEF NextTenant

\* The arithmetic of a page that starts after offset instances and ends at the n-th.
LEMMA PageArithmetic ==
  ASSUME NEW a \in Nat, NEW len \in Nat, NEW size \in Nat \ {0}, NEW m \in Nat,
         a <= m, m <= len, m <= a + size, m = a + size \/ m = len
  PROVE  /\ (m - a < size \/ size = len) => m = len
         /\ ~(m - a < size \/ size = len) => m = a + size
         /\ \A i \in 1 .. m - a : a + i \in 1 .. len /\ a < a + i /\ a + i <= m
         /\ \A j \in 1 .. len : a < j /\ j <= m => j - a \in 1 .. m - a /\ a + (j - a) = j
OBVIOUS

\* The instances of a page are the next ones of the tenant's list.
LEMMA PageIs ==
  ASSUME NEW t \in Tenants, instances \in Inventories, offset \in Nat,
         offset <= Len(instances[t])
  PROVE  \E n \in Nat :
           /\ offset <= n /\ n <= Len(instances[t])
           /\ n = offset + PageSize \/ n = Len(instances[t])
           /\ LastPage(t) => n = Len(instances[t])
           /\ ~LastPage(t) => n = offset + PageSize
           /\ \A d \in Existing :
                (d \in Unstarted(t)) <=>
                  /\ d[1] = t
                  /\ \E i \in 1 .. Len(instances[t]) :
                       offset < i /\ i <= n /\ IsDown(instances[t][i], d)
<1> DEFINE all == instances[t]
           n == IF offset + PageSize < Len(all) THEN offset + PageSize ELSE Len(all)
           page == InstancePage(t)
<1>1. /\ Len(all) \in Nat /\ DOMAIN all = 1 .. Len(all)
      /\ PageSize \in Nat \ {0}
  BY ListOf, FilterBounds
<1>2. /\ n \in Nat /\ offset <= n /\ n <= Len(all) /\ n <= offset + PageSize
      /\ n = offset + PageSize \/ n = Len(all)
  BY <1>1
<1>3. page = SubSeq(all, offset + 1, n)
  BY DEF InstancePage
<1> HIDE DEF n, page
<1>4. /\ Len(page) = n - offset
      /\ \A i \in 1 .. n - offset : page[i] = all[offset + i]
      /\ DOMAIN page = 1 .. n - offset
  <2>1. \A i \in offset + 1 .. n : all[i] \in {all[j] : j \in DOMAIN all}
    BY <1>1, <1>2
  <2>2. /\ page \in Seq({all[j] : j \in DOMAIN all})
        /\ Len(page) = IF offset + 1 <= n THEN n - (offset + 1) + 1 ELSE 0
        /\ \A i \in 1 .. n - (offset + 1) + 1 : page[i] = all[offset + 1 + i - 1]
    BY <1>2, <1>3, <2>1, SubSeqProperties
  <2> HIDE DEF all
  <2>3. Len(page) = n - offset
    BY <1>2, <2>2
  <2>4. \A i \in 1 .. n - offset : page[i] = all[offset + i]
    BY <1>2, <2>2
  <2> QED BY <2>2, <2>3, <2>4
<1>a. /\ (n - offset < PageSize \/ PageSize = Len(all)) => n = Len(all)
      /\ ~(n - offset < PageSize \/ PageSize = Len(all)) => n = offset + PageSize
      /\ \A i \in 1 .. n - offset :
           offset + i \in 1 .. Len(all) /\ offset < offset + i /\ offset + i <= n
      /\ \A j \in 1 .. Len(all) :
           offset < j /\ j <= n => j - offset \in 1 .. n - offset /\ offset + (j - offset) = j
  <2>1. offset \in Nat /\ Len(all) \in Nat /\ PageSize \in Nat \ {0} /\ n \in Nat
    BY <1>1, <1>2
  <2>2. /\ offset <= n /\ n <= Len(all) /\ n <= offset + PageSize
        /\ n = offset + PageSize \/ n = Len(all)
    BY <1>2
  <2> QED BY <2>1, <2>2, PageArithmetic
<1>5. LastPage(t) => n = Len(all)
  <2>1. LastPage(t) <=> (Len(page) < PageSize \/ PageSize = Len(all))
    BY DEF LastPage, page
  <2> HIDE DEF all
  <2> QED BY <1>a, <1>4, <2>1
<1>6. ~LastPage(t) => n = offset + PageSize
  <2>1. LastPage(t) <=> (Len(page) < PageSize \/ PageSize = Len(all))
    BY DEF LastPage, page
  <2> HIDE DEF all
  <2> QED BY <1>a, <1>4, <2>1
<1>7. ASSUME NEW d \in Existing
      PROVE  (d \in Unstarted(t)) <=>
               /\ d[1] = t
               /\ \E i \in 1 .. Len(all) : offset < i /\ i <= n /\ IsDown(all[i], d)
  <2>1. d = <<d[1], d[2]>>
    BY FilterBounds
  <2>2. (d \in Unstarted(t)) <=>
          \E i \in DOMAIN page : page[i].compute /\ ~page[i].started /\ d = <<t, page[i].dep>>
    BY DEF Unstarted, Range, page
  <2>3. (d \in Unstarted(t)) <=> d[1] = t /\ \E i \in DOMAIN page : IsDown(page[i], d)
    BY <2>1, <2>2 DEF IsDown
  <2> HIDE DEF all
  <2>4. ASSUME NEW i \in DOMAIN page, IsDown(page[i], d)
        PROVE  \E j \in 1 .. Len(all) : offset < j /\ j <= n /\ IsDown(all[j], d)
    <3>1. offset + i \in 1 .. Len(all) /\ offset < offset + i /\ offset + i <= n
      BY <1>a, <1>4
    <3>2. page[i] = all[offset + i]
      BY <1>4
    <3> QED BY <2>4, <3>1, <3>2
  <2>5. ASSUME NEW j \in 1 .. Len(all), offset < j, j <= n, IsDown(all[j], d)
        PROVE  \E i \in DOMAIN page : IsDown(page[i], d)
    <3>1. j - offset \in DOMAIN page /\ offset + (j - offset) = j
      BY <1>a, <1>4, <2>5
    <3>2. page[j - offset] = all[j]
      BY <1>4, <3>1
    <3> QED BY <2>5, <3>1, <3>2
  <2> QED BY <2>3, <2>4, <2>5
<1> QED BY <1>2, <1>5, <1>6, <1>7

\* A page excludes the deployments of the hosts on it that are not up.
LEMMA ReadPageKeeps == FilterIInv /\ ReadPage => FilterIInv'
<1> SUFFICES ASSUME FilterIInv, ReadPage PROVE FilterIInv'
  OBVIOUS
<1>1. PICK t \in paging :
    LET kept == Restrict(selected, DOMAIN selected \ Unstarted(t))
        emptied == \A d \in DOMAIN kept : d[1] # t
    IN  /\ filterPc = "page"
        /\ IF emptied /\ t \notin tenantKeys
           THEN /\ filterPc' = "KeyError"
                /\ UNCHANGED <<tenantKeys, selected, paging, offset>>
           ELSE /\ selected' = kept
                /\ tenantKeys' = IF emptied THEN tenantKeys \ {t} ELSE tenantKeys
                /\ IF LastPage(t) THEN paging' = {} /\ UNCHANGED offset
                                  ELSE offset' = offset + PageSize /\ UNCHANGED paging
                /\ UNCHANGED filterPc
        /\ UNCHANGED <<request, instances, unpaged>>
  BY DEF ReadPage
<1> DEFINE kept == Restrict(selected, DOMAIN selected \ Unstarted(t))
           emptied == \A d \in DOMAIN kept : d[1] # t
<1>2. filterPc = "page" /\ UNCHANGED <<request, instances, unpaged>>
  BY <1>1
<1>3. CASE filterPc' = "KeyError" /\ UNCHANGED <<tenantKeys, selected, paging, offset>>
  BY <1>2, <1>3, FilterErrs
<1>4. CASE /\ selected' = kept
           /\ tenantKeys' = IF emptied THEN tenantKeys \ {t} ELSE tenantKeys
           /\ IF LastPage(t) THEN paging' = {} /\ UNCHANGED offset
                             ELSE offset' = offset + PageSize /\ UNCHANGED paging
           /\ UNCHANGED filterPc
  <2>1. /\ request.instances = {} /\ request.deployments = {}
        /\ instances \in Inventories /\ offset \in Nat
        /\ paging = {t} /\ offset <= Len(instances[t])
        /\ DOMAIN selected = {d \in Existing : Wanted(d) /\ UpSoFar(d)}
    BY <1>2 DEF FilterIInv, FilterPhase
  <2>2. t \in Tenants /\ t \notin unpaged
    BY DEF FilterIInv, FilterTypeOK
  <2>3. PICK n \in Nat :
           /\ offset <= n /\ n <= Len(instances[t])
           /\ LastPage(t) => n = Len(instances[t])
           /\ ~LastPage(t) => n = offset + PageSize
           /\ \A d \in Existing :
                (d \in Unstarted(t)) <=>
                  /\ d[1] = t
                  /\ \E i \in 1 .. Len(instances[t]) :
                       offset < i /\ i <= n /\ IsDown(instances[t][i], d)
    BY <2>1, <2>2, PageIs
  <2>4. DOMAIN kept = DOMAIN selected \ Unstarted(t)
    BY DEF Restrict
  <2>5. DOMAIN selected' = DOMAIN selected \ Unstarted(t)
    BY <1>4, <2>4
  <2>6. tenantKeys' = {d[1] : d \in DOMAIN selected'}
    <3>1. tenantKeys = {d[1] : d \in DOMAIN selected} /\ DOMAIN selected \subseteq Existing
      BY DEF FilterIInv, FilterTypeOK
    <3>2. \A d \in DOMAIN selected : d[1] # t => d \in DOMAIN kept
      BY <2>3, <2>4, <3>1
    <3>3. DOMAIN kept \subseteq DOMAIN selected
      BY <2>4
    <3> HIDE DEF kept
    <3>4. CASE emptied
      BY <1>4, <3>1, <3>2, <3>3, <3>4
    <3>5. CASE ~emptied
      BY <1>4, <3>1, <3>2, <3>3, <3>5
    <3> QED BY <3>4, <3>5
  <2> HIDE DEF kept
  <2>7. Len(instances[t]) \in Nat /\ PageSize \in Nat
    BY <2>1, <2>2, ListOf, FilterBounds
  <2>8. /\ offset' \in Nat /\ paging' \in {{t}, {}}
        /\ paging' = {t} => offset' = n
        /\ paging' = {} => n = Len(instances[t])
    BY <1>4, <2>1, <2>3, <2>7
  <2>9. FilterTypeOK'
    <3>1. Cardinality({t}) = 1 /\ Cardinality({}) = 0
      BY FS_Singleton, FS_EmptySet
    <3>2. Cardinality(paging') <= 1
      BY <2>8, <3>1
    <3>3. DOMAIN selected' \subseteq Existing
      BY <2>5 DEF FilterIInv, FilterTypeOK
    <3> QED BY <1>2, <1>4, <2>2, <2>6, <2>8, <3>2, <3>3 DEF FilterIInv, FilterTypeOK
  <2>10. Looked(t) = offset /\ Looked(t)' = n
    BY <1>2, <2>1, <2>2, <2>8 DEF Looked
  <2>11. \A u : u # t => Looked(u)' = Looked(u)
    BY <1>2, <2>1, <2>8 DEF Looked
  <2>12. ASSUME NEW d \in Existing
         PROVE  UpSoFar(d)' <=> UpSoFar(d) /\ d \notin Unstarted(t)
    <3>1. CASE d[1] # t
      BY <1>2, <2>3, <2>11, <3>1 DEF UpSoFar, IsDown
    <3>2. CASE d[1] = t
      <4>1. UpSoFar(d)' <=> \A i \in 1 .. Len(instances[t]) :
                              i <= n => ~IsDown(instances[t][i], d)
        BY <1>2, <2>10, <3>2 DEF UpSoFar, IsDown
      <4>2. UpSoFar(d) <=> \A i \in 1 .. Len(instances[t]) :
                              i <= offset => ~IsDown(instances[t][i], d)
        BY <2>10, <3>2 DEF UpSoFar
      <4>3. (d \in Unstarted(t)) <=>
              \E i \in 1 .. Len(instances[t]) :
                       offset < i /\ i <= n /\ IsDown(instances[t][i], d)
        BY <2>3, <3>2
      <4>4. \A i \in 1 .. Len(instances[t]) :
              (i <= n) <=> (i <= offset \/ (offset < i /\ i <= n))
        BY <2>1, <2>3, <2>7
      <4> QED BY <4>1, <4>2, <4>3, <4>4
    <3> QED BY <3>1, <3>2
  <2>13. \A d : Wanted(d)' <=> Wanted(d)
    BY <1>2 DEF Wanted, NodesFound
  <2>14. DOMAIN selected' = {d \in Existing : Wanted(d)' /\ UpSoFar(d)'}
    BY <2>1, <2>5, <2>12, <2>13
  <2>15. FilterPhase'
    BY <1>2, <1>4, <2>1, <2>3, <2>8, <2>14 DEF FilterPhase, Existing
  <2> QED BY <1>2, <1>4, <2>9, <2>15 DEF FilterIInv, SelectsEligible
<1> QED BY <1>1, <1>3, <1>4

\* Every step of the filtering keeps it.
LEMMA FilterKeeps ==
  ASSUME FilterIInv, [FilterNext]_filterVars
  PROVE  FilterIInv'
<1>1. CASE UNCHANGED filterVars
  <2>1. FilterTypeOK' /\ SelectsEligible'
    BY <1>1 DEF filterVars, FilterIInv, FilterTypeOK, SelectsEligible, HostsAreUp, Existing
  <2>2. \A d : /\ Wanted(d)' <=> Wanted(d)
               /\ UpSoFar(d)' <=> UpSoFar(d)
    BY <1>1 DEF filterVars, Wanted, NodesFound, UpSoFar, Looked, IsDown
  <2>3. FilterPhase'
    BY <1>1, <2>2 DEF filterVars, FilterIInv, FilterPhase, Existing
  <2> QED BY <2>1, <2>3 DEF FilterIInv
<1>2. CASE FilterNext
  BY <1>2, FilterCallKeeps, SelectInstancesKeeps, SelectDeploymentsKeeps, NextTenantKeeps,
     ReadPageKeeps DEF FilterNext, FilterStep
<1> QED BY <1>1, <1>2

\* What any command does is a step of the filtering or leaves it alone.
LEMMA FilterSteps == [CfyNext]_cfyVars => [FilterNext]_filterVars
BY DEF CfyNext, cfyVars, InAgents, InUpload, InPluginsInstall, InPluginsUpdate, InFlow, InLabels,
       InProfiles, InCluster, InCertificates, InLocal, InEvents, InMaintenance, InSchedules,
       InArchive, InLocalFlow

\* `agents install' and `agents validate' act on exactly the deployments that
\* the filters select: none that they exclude or that has a host known not to
\* be up, and every other, for each tenant and however many pages of instances
\* the manager has - a filter of nodes excluding what the manager's list of
\* these nodes leaves out, and so nothing if it lists every node.
THEOREM FiltersSelectExactly == CfySpec => []FilterInv
<1>1. CfyInit => FilterIInv
  BY FilterStarts DEF CfyInit
<1>2. FilterIInv /\ [CfyNext]_cfyVars => FilterIInv'
  BY FilterSteps, FilterKeeps
<1>3. FilterIInv => FilterInv
  BY DEF FilterIInv, FilterInv
<1> QED BY <1>1, <1>2, <1>3, PTL DEF CfySpec
-----------------------------------------------------------------------------
\* Behind UpdateInv: what was there when the command began and is not done yet
\* is on the page or on a page still to come.
Handled == ToSet(successful) \cup ToSet(failed)
Beyond(b) == \E i \in DOMAIN listed : i > pageOffset /\ listed[i] = b
UpdatePhase ==
  /\ updatePc = "idle" => /\ successful = <<>> /\ failed = <<>> /\ broken = {}
                          /\ pageOffset = 0 /\ deletions = 0
  /\ updatePc # "done" => updateResult = "none"
  /\ updatePc = "list" /\ deletions = 0 =>
       \A b \in before \ skipped : b \in Handled \/ Beyond(b)
  /\ updatePc = "update" /\ deletions = 0 =>
       \A b \in before \ skipped : \/ b \in Handled \/ b \in ToSet(onPage)
                                   \/ ~lastOne /\ Beyond(b)

UpdateIInv == UpdateInv /\ UpdatePhase

\* What the constants are: lists without repetitions, pages not empty.
LEMMA UpdateBounds ==
  /\ UpdatePageSize \in Nat \ {0} /\ MaxDeletions \in Nat
  /\ \A l \in InitialLists : l \in Seq(Blueprints) /\ IsInjective(l)
BY UpdateAssumption

\* Nothing is listed yet, and all is still to come.
LEMMA UpdateStarts == UpdateInit => UpdateIInv
<1> SUFFICES ASSUME UpdateInit PROVE UpdateIInv
  OBVIOUS
<1> USE DEF UpdateInit
<1>1. <<>> \in Seq(Blueprints) /\ ToSet(<<>>) = {}
  BY DEF ToSet
<1>2. UpdateTypeOK
  <2>1. listed \in Seq(Blueprints) /\ IsInjective(listed)
    BY UpdateBounds
  <2>2. deletions \in 0 .. MaxDeletions
    BY UpdateBounds
  <2> QED BY <1>1, <2>1, <2>2 DEF UpdateTypeOK
<1> QED BY <1>1, <1>2 DEF UpdateIInv, UpdateInv, UpdateCoversAll, SummaryIsTrue, UpdatePhase

\* What is uploaded moves the others further back.
LEMMA InsertedAt ==
  ASSUME NEW s \in Seq(Blueprints), IsInjective(s), NEW b \in Blueprints, b \notin ToSet(s),
         NEW i \in 1 .. Len(s) + 1
  PROVE  /\ InsertAt(s, i, b) \in Seq(Blueprints) /\ IsInjective(InsertAt(s, i, b))
         /\ \A j \in DOMAIN s : \E k \in DOMAIN InsertAt(s, i, b) :
              k >= j /\ InsertAt(s, i, b)[k] = s[j]
<1> DEFINE f == SubSeq(s, 1, i - 1)
           g == SubSeq(s, i, Len(s))
           h == f \o <<b>>
           r == InsertAt(s, i, b)
<1>1. Len(s) \in Nat /\ DOMAIN s = 1 .. Len(s) /\ i \in Nat /\ i >= 1 /\ i <= Len(s) + 1
  OBVIOUS
<1>2. /\ f \in Seq(Blueprints) /\ Len(f) = i - 1 /\ \A k \in 1 .. i - 1 : f[k] = s[k]
  BY <1>1
<1>3. /\ g \in Seq(Blueprints) /\ Len(g) = (Len(s) - i) + 1
      /\ \A k \in 1 .. (Len(s) - i) + 1 : g[k] = s[(i - 1) + k]
  BY <1>1
<1>4. r = h \o g
  BY DEF InsertAt
<1> HIDE DEF f, g, r
<1>5. /\ h \in Seq(Blueprints) /\ Len(h) = i /\ h[i] = b
      /\ \A k \in 1 .. i - 1 : h[k] = s[k]
  <2>1. <<b>> \in Seq(Blueprints) /\ Len(<<b>>) = 1 /\ <<b>>[1] = b
    OBVIOUS
  <2>2. /\ h \in Seq(Blueprints) /\ Len(h) = Len(f) + Len(<<b>>)
        /\ \A k \in 1 .. Len(f) + Len(<<b>>) :
             h[k] = IF k <= Len(f) THEN f[k] ELSE <<b>>[k - Len(f)]
    BY <1>2, <2>1, ConcatProperties
  <2> HIDE DEF h
  <2>3. Len(h) = i
    BY <1>1, <1>2, <2>1, <2>2
  <2>4. h[i] = b
    <3>1. i \in 1 .. Len(f) + Len(<<b>>) /\ ~(i <= Len(f)) /\ i - Len(f) = 1
      BY <1>1, <1>2, <2>1
    <3> QED BY <2>1, <2>2, <3>1
  <2>5. ASSUME NEW k \in 1 .. i - 1 PROVE h[k] = s[k]
    <3>1. k \in 1 .. Len(f) + Len(<<b>>) /\ k <= Len(f)
      BY <1>1, <1>2, <2>1
    <3> QED BY <1>2, <2>2, <3>1
  <2> QED BY <2>2, <2>3, <2>4, <2>5
<1> HIDE DEF h
<1>6. /\ r \in Seq(Blueprints) /\ Len(r) = Len(s) + 1 /\ r[i] = b
      /\ \A k \in 1 .. i - 1 : r[k] = s[k]
      /\ \A k \in i .. Len(s) : r[k + 1] = s[k]
  <2>1. /\ r \in Seq(Blueprints) /\ Len(r) = Len(h) + Len(g)
        /\ \A k \in 1 .. Len(h) + Len(g) :
             r[k] = IF k <= Len(h) THEN h[k] ELSE g[k - Len(h)]
    <3>1. h \in Seq(Blueprints) /\ g \in Seq(Blueprints)
      BY <1>3, <1>5
    <3> QED BY <1>4, <3>1, ConcatProperties
  <2>2. Len(r) = Len(s) + 1
    BY <1>1, <1>3, <1>5, <2>1
  <2>3. \A k \in 1 .. i : r[k] = h[k]
    <3>1. \A k \in 1 .. i : k \in 1 .. Len(h) + Len(g) /\ k <= Len(h)
      BY <1>1, <1>3, <1>5
    <3> QED BY <2>1, <3>1
  <2>4. ASSUME NEW k \in i .. Len(s) PROVE r[k + 1] = s[k]
    <3>1. /\ k + 1 \in 1 .. Len(h) + Len(g) /\ ~(k + 1 <= Len(h))
          /\ (k + 1) - Len(h) \in 1 .. (Len(s) - i) + 1
          /\ (i - 1) + ((k + 1) - Len(h)) = k
      BY <1>1, <1>3, <1>5
    <3>2. r[k + 1] = g[(k + 1) - Len(h)]
      BY <2>1, <3>1
    <3> QED BY <1>3, <3>1, <3>2
  <2>5. i \in 1 .. i /\ \A k \in 1 .. i - 1 : k \in 1 .. i
    BY <1>1
  <2> QED BY <1>5, <2>1, <2>2, <2>3, <2>4, <2>5
<1>7. DOMAIN r = 1 .. Len(s) + 1
  BY <1>1, <1>6
<1>8. ASSUME NEW j \in DOMAIN s PROVE \E k \in DOMAIN r : k >= j /\ r[k] = s[j]
  <2>1. CASE j < i
    <3>1. j \in 1 .. i - 1 /\ j \in DOMAIN r
      BY <1>1, <1>7, <2>1
    <3> QED BY <1>1, <1>6, <3>1
  <2>2. CASE ~(j < i)
    <3>1. j \in i .. Len(s) /\ j + 1 \in DOMAIN r /\ j + 1 >= j
      BY <1>1, <1>7, <2>2
    <3> QED BY <1>6, <3>1
  <2> QED BY <2>1, <2>2
<1>9. IsInjective(r)
  <2> DEFINE Old(k) == IF k < i THEN k ELSE k - 1
  <2>1. ASSUME NEW k \in DOMAIN r, k # i PROVE Old(k) \in DOMAIN s /\ r[k] = s[Old(k)]
    <3>1. CASE k < i
      <4>1. k \in 1 .. i - 1 /\ k \in DOMAIN s
        BY <1>1, <1>7, <3>1
      <4> QED BY <1>6, <3>1, <4>1
    <3>2. CASE ~(k < i)
      <4>1. k - 1 \in i .. Len(s) /\ (k - 1) + 1 = k /\ k - 1 \in DOMAIN s
        BY <1>1, <1>7, <2>1, <3>2
      <4> QED BY <1>6, <3>2, <4>1
    <3> QED BY <3>1, <3>2
  <2>2. \A k \in DOMAIN r : k # i => r[k] # b
    BY <2>1 DEF ToSet
  <2>3. \A k, l \in DOMAIN r : k # i /\ l # i /\ Old(k) = Old(l) => k = l
    BY <1>1, <1>7
  <2> HIDE DEF Old
  <2>4. \A k, l \in DOMAIN r : r[k] = r[l] => k = l
    <3> SUFFICES ASSUME NEW k \in DOMAIN r, NEW l \in DOMAIN r, r[k] = r[l] PROVE k = l
      OBVIOUS
    <3>1. CASE k = i \/ l = i
      BY <1>6, <2>2, <3>1
    <3>2. CASE k # i /\ l # i
      <4>1. s[Old(k)] = s[Old(l)] /\ Old(k) \in DOMAIN s /\ Old(l) \in DOMAIN s
        BY <2>1, <3>2
      <4>2. Old(k) = Old(l)
        BY <4>1 DEF IsInjective
      <4> QED BY <2>3, <3>2, <4>2
    <3> QED BY <3>1, <3>2
  <2> QED BY <2>4 DEF IsInjective
<1> QED BY <1>6, <1>8, <1>9 DEF r

\* Others upload and delete; a deletion is counted.
LEMMA OthersKeep == UpdateIInv /\ Others => UpdateIInv'
<1> SUFFICES ASSUME UpdateIInv, Others PROVE UpdateIInv'
  OBVIOUS
<1>1. /\ UNCHANGED <<before, skipped, updatePc, onPage, pageOffset, lastOne, successful, failed,
                     broken, updateResult>>
      /\ updatePc # "idle"
  BY DEF Others, argVars
<1>2. PICK b \in Blueprints : OthersUpload(b) \/ OthersDelete(b)
  BY DEF Others
<1>3. listed \in Seq(Blueprints) /\ IsInjective(listed) /\ Len(listed) \in Nat
      /\ deletions \in Nat /\ pageOffset \in Nat
  BY DEF UpdateIInv, UpdateInv, UpdateTypeOK
<1>4. /\ listed' \in Seq(Blueprints) /\ IsInjective(listed') /\ deletions' \in 0 .. MaxDeletions
      /\ deletions' = 0 => deletions = 0 /\ \A c : Beyond(c) => Beyond(c)'
  <2>1. CASE OthersUpload(b)
    <3>1. PICK i \in 1 .. Len(listed) + 1 : listed' = InsertAt(listed, i, b)
      BY <2>1 DEF OthersUpload
    <3>2. /\ listed' \in Seq(Blueprints) /\ IsInjective(listed')
          /\ \A j \in DOMAIN listed : \E k \in DOMAIN listed' : k >= j /\ listed'[k] = listed[j]
      BY <1>3, <2>1, <3>1, InsertedAt DEF OthersUpload
    <3>3. deletions' = deletions /\ deletions \in 0 .. MaxDeletions
      BY <2>1 DEF OthersUpload, UpdateIInv, UpdateInv, UpdateTypeOK
    <3>4. ASSUME NEW c, Beyond(c) PROVE Beyond(c)'
      <4>1. PICK j \in DOMAIN listed : j > pageOffset /\ listed[j] = c
        BY <3>4 DEF Beyond
      <4>2. PICK k \in DOMAIN listed' : k >= j /\ listed'[k] = c
        BY <3>2, <4>1
      <4>3. j \in Nat /\ k \in Nat
        BY <1>3, <3>2
      <4>4. k > pageOffset'
        BY <1>1, <1>3, <4>1, <4>2, <4>3
      <4> QED BY <4>2, <4>4 DEF Beyond
    <3> QED BY <3>2, <3>3, <3>4
  <2>2. CASE OthersDelete(b)
    <3>1. listed' = Filtered(listed, Blueprints \ {b}) /\ deletions' = deletions + 1
          /\ deletions < MaxDeletions
      BY <2>2 DEF OthersDelete
    <3>2. listed' \in Seq(Blueprints) /\ IsInjective(listed')
      BY <1>3, <3>1, ListFiltered
    <3>3. deletions' # 0 /\ deletions' \in 0 .. MaxDeletions
      BY <1>3, <3>1, UpdateBounds
    <3> QED BY <3>2, <3>3
  <2> QED BY <1>2, <2>1, <2>2
<1>5. UpdateTypeOK'
  BY <1>1, <1>4 DEF UpdateIInv, UpdateInv, UpdateTypeOK
<1>6. UpdateCoversAll' /\ SummaryIsTrue'
  BY <1>1, <1>4 DEF UpdateIInv, UpdateInv, UpdateCoversAll, SummaryIsTrue
<1>7. UpdatePhase'
  BY <1>1, <1>4 DEF UpdateIInv, UpdatePhase, Handled
<1> QED BY <1>5, <1>6, <1>7 DEF UpdateIInv, UpdateInv

\* The command is called, and what it has to update is fixed.
LEMMA UpdateCallKeeps ==
  ASSUME UpdateIInv, NEW a \in UpdateArgs, UpdateCall(a)
  PROVE  UpdateIInv'
<1> USE DEF UpdateCall
<1>1. /\ a.except \subseteq Blueprints
      /\ a.blueprint = {} \/ \E b \in Blueprints : a.blueprint = {b}
      /\ a.all \in BOOLEAN
  BY DEF UpdateArgs
<1>2. /\ updatePc = "idle" /\ before' = ToSet(listed) /\ skipped' = a.except
      /\ UNCHANGED <<listed, deletions, pageOffset, lastOne, successful, failed, broken>>
  OBVIOUS
<1>3. /\ listed \in Seq(Blueprints) /\ DOMAIN listed = 1 .. Len(listed) /\ Len(listed) \in Nat
      /\ ToSet(listed) \subseteq Blueprints
      /\ successful = <<>> /\ failed = <<>> /\ broken = {} /\ pageOffset = 0
      /\ updateResult = "none"
  BY <1>2 DEF UpdateIInv, UpdateInv, UpdateTypeOK, UpdatePhase, ToSet
<1>4. /\ onPage' \in Seq(Blueprints) /\ updatePc' \in {"done", "list", "one"}
      /\ updateResult' \in {"invalid", "none"} /\ (updatePc' # "done" => updateResult' = "none")
  <2>1. CASE ~ValidUpdate(a)
    BY <2>1 DEF UpdateIInv, UpdateInv, UpdateTypeOK
  <2>2. CASE ValidUpdate(a) /\ a.all
    BY <1>3, <2>2 DEF UpdateIInv, UpdateInv, UpdateTypeOK
  <2>3. CASE ValidUpdate(a) /\ ~a.all
    <3>1. a.blueprint # {}
      BY <1>1, <2>3 DEF ValidUpdate
    <3>2. PICK b \in Blueprints : a.blueprint = {b}
      BY <1>1, <3>1
    <3>3. Cardinality({b}) = 1
      BY FS_Singleton
    <3>4. \E f \in [1 .. 1 -> {b}] : IsInjective(f)
      <4> DEFINE f == [i \in 1 .. 1 |-> b]
      <4>1. f \in [1 .. 1 -> {b}] /\ \A i, j \in 1 .. 1 : i = j
        OBVIOUS
      <4>2. IsInjective(f)
        BY <4>1 DEF IsInjective
      <4> QED BY <4>1, <4>2
    <3>5. SetToSeq({b}) \in [1 .. 1 -> {b}]
      BY <3>3, <3>4 DEF SetToSeq
    <3>6. SetToSeq({b}) \in Seq(Blueprints)
      <4>1. SetToSeq({b}) \in [1 .. 1 -> Blueprints]
        BY <3>5
      <4>2. \A f \in [1 .. 1 -> Blueprints] : f = <<f[1]>> /\ f[1] \in Blueprints
        OBVIOUS
      <4>3. \A c \in Blueprints : <<c>> \in Seq(Blueprints)
        OBVIOUS
      <4> HIDE DEF SetToSeq
      <4> QED BY <4>1, <4>2, <4>3
    <3> QED BY <1>3, <2>3, <3>2, <3>6
  <2> QED BY <2>1, <2>2, <2>3
<1>5. ToSet(<<>>) = {}
  BY DEF ToSet
<1>6. UpdateTypeOK'
  BY <1>1, <1>2, <1>3, <1>4 DEF UpdateIInv, UpdateInv, UpdateTypeOK
<1>7. UpdateCoversAll' /\ SummaryIsTrue'
  BY <1>2, <1>3, <1>4, <1>5 DEF UpdateCoversAll, SummaryIsTrue
<1>8. \A b \in before' : Beyond(b)'
  BY <1>2, <1>3 DEF Beyond, ToSet
<1>9. UpdatePhase'
  BY <1>2, <1>4, <1>8 DEF UpdatePhase
<1> QED BY <1>6, <1>7, <1>9 DEF UpdateIInv, UpdateInv

\* The arithmetic of a page of size elements after the first a of len.
LEMMA PlacesOnPage ==
  ASSUME NEW a \in Nat, NEW len \in Nat, NEW size \in Nat \ {0},
         NEW m, m = IF a + size < len THEN a + size ELSE len
  PROVE  /\ m \in Nat /\ m <= len /\ (m - (a + 1)) + 1 \in Int
         /\ \A i \in a + 1 .. m : i \in 1 .. len
         /\ \A i \in 1 .. len : i > a /\ i <= m =>
              /\ i - a \in 1 .. (m - (a + 1)) + 1 /\ a + 1 <= m
              /\ ((a + 1) + (i - a)) - 1 = i
         /\ \A i \in 1 .. len : i > a /\ ~(i <= m) =>
              i > a + size /\ a + 1 <= m /\ (m - (a + 1)) + 1 = size
OBVIOUS

\* A page is read, and what it has is before the next offset.
LEMMA ListBlueprintsKeeps == UpdateIInv /\ ListBlueprints => UpdateIInv'
<1> SUFFICES ASSUME UpdateIInv, ListBlueprints PROVE UpdateIInv'
  OBVIOUS
<1> DEFINE n == IF pageOffset + UpdatePageSize < Len(listed)
                THEN pageOffset + UpdatePageSize ELSE Len(listed)
           page == SubSeq(listed, pageOffset + 1, n)
<1>1. /\ updatePc = "list" /\ onPage' = page /\ lastOne' = IsLastPage(page)
      /\ pageOffset' = pageOffset + UpdatePageSize /\ updatePc' = "update"
      /\ UNCHANGED <<listed, before, deletions, skipped, successful, failed, broken, updateResult>>
  BY DEF ListBlueprints, othersVars
<1>2. /\ listed \in Seq(Blueprints) /\ Len(listed) \in Nat /\ DOMAIN listed = 1 .. Len(listed)
      /\ pageOffset \in Nat /\ UpdatePageSize \in Nat \ {0}
  BY UpdateBounds DEF UpdateIInv, UpdateInv, UpdateTypeOK
<1> HIDE DEF page
<1>3. /\ n \in Nat /\ n <= Len(listed) /\ (n - (pageOffset + 1)) + 1 \in Int
      /\ \A i \in pageOffset + 1 .. n : i \in 1 .. Len(listed)
      /\ \A i \in 1 .. Len(listed) : i > pageOffset /\ i <= n =>
           /\ i - pageOffset \in 1 .. (n - (pageOffset + 1)) + 1 /\ pageOffset + 1 <= n
           /\ ((pageOffset + 1) + (i - pageOffset)) - 1 = i
      /\ \A i \in 1 .. Len(listed) : i > pageOffset /\ ~(i <= n) =>
           /\ i > pageOffset + UpdatePageSize /\ pageOffset + 1 <= n
           /\ (n - (pageOffset + 1)) + 1 = UpdatePageSize
  <2>1. pageOffset \in Nat /\ Len(listed) \in Nat /\ UpdatePageSize \in Nat \ {0}
    BY <1>2
  <2>2. n = IF pageOffset + UpdatePageSize < Len(listed)
            THEN pageOffset + UpdatePageSize ELSE Len(listed)
    OBVIOUS
  <2> QED BY <2>1, <2>2, PlacesOnPage
<1> HIDE DEF n
<1>4. /\ page \in Seq(Blueprints)
      /\ Len(page) = IF pageOffset + 1 <= n THEN (n - (pageOffset + 1)) + 1 ELSE 0
      /\ \A i \in 1 .. (n - (pageOffset + 1)) + 1 : page[i] = listed[((pageOffset + 1) + i) - 1]
  <2>1. \A i \in pageOffset + 1 .. n : listed[i] \in Blueprints
    BY <1>2, <1>3
  <2>2. pageOffset + 1 \in Int /\ n \in Int
    BY <1>2, <1>3
  <2> QED BY <1>2, <2>1, <2>2, SubSeqProperties DEF page
<1>5. lastOne' \in BOOLEAN /\ (lastOne' <=> Len(page) < UpdatePageSize)
  <2>1. IsLastPage(page) \in BOOLEAN /\ (IsLastPage(page) <=> Len(page) < UpdatePageSize)
    BY DEF IsLastPage
  <2> QED BY <1>1, <2>1
<1>6. UpdateTypeOK'
  BY <1>1, <1>2, <1>4, <1>5 DEF UpdateIInv, UpdateInv, UpdateTypeOK
<1>7. UpdateCoversAll' /\ SummaryIsTrue'
  BY <1>1 DEF UpdateIInv, UpdateInv, UpdateCoversAll, SummaryIsTrue
<1>8. ASSUME NEW b, Beyond(b)
      PROVE  b \in ToSet(onPage') \/ (~lastOne' /\ Beyond(b)')
  <2>1. PICK i \in 1 .. Len(listed) : i > pageOffset /\ listed[i] = b
    BY <1>2, <1>8 DEF Beyond
  <2>2. CASE i <= n
    <3>1. /\ i - pageOffset \in 1 .. (n - (pageOffset + 1)) + 1 /\ pageOffset + 1 <= n
          /\ ((pageOffset + 1) + (i - pageOffset)) - 1 = i
      BY <1>3, <2>1, <2>2
    <3>2. page[i - pageOffset] = listed[((pageOffset + 1) + (i - pageOffset)) - 1]
      BY <1>4, <3>1
    <3>3. page[i - pageOffset] = b
      BY <2>1, <3>1, <3>2
    <3>4. DOMAIN page = 1 .. (n - (pageOffset + 1)) + 1
      BY <1>4, <3>1
    <3> QED BY <1>1, <3>1, <3>3, <3>4 DEF ToSet
  <2>3. CASE ~(i <= n)
    <3>1. /\ i > pageOffset + UpdatePageSize /\ pageOffset + 1 <= n
          /\ (n - (pageOffset + 1)) + 1 = UpdatePageSize
      BY <1>3, <2>1, <2>3
    <3>2. ~lastOne'
      BY <1>2, <1>4, <1>5, <3>1
    <3>3. Beyond(b)'
      BY <1>1, <1>2, <2>1, <3>1 DEF Beyond
    <3> QED BY <3>2, <3>3
  <2> QED BY <2>2, <2>3
<1>9. UpdatePhase'
  BY <1>1, <1>8 DEF UpdateIInv, UpdatePhase, Handled
<1> QED BY <1>6, <1>7, <1>9 DEF UpdateIInv, UpdateInv

\* A blueprint that was excepted.
LEMMA SkipKeeps == UpdateIInv /\ SkipBlueprint => UpdateIInv'
<1> SUFFICES ASSUME UpdateIInv, SkipBlueprint PROVE UpdateIInv'
  OBVIOUS
<1>1. /\ updatePc = "update" /\ onPage # <<>> /\ Head(onPage) \in skipped /\ onPage' = Tail(onPage)
      /\ UNCHANGED <<listed, before, deletions, skipped, updatePc, pageOffset, lastOne, successful,
                     failed, broken, updateResult>>
  BY DEF SkipBlueprint, othersVars
<1>2. onPage' \in Seq(Blueprints) /\ ToSet(onPage) = {Head(onPage)} \cup ToSet(onPage')
  BY <1>1, FirstAndRest DEF UpdateIInv, UpdateInv, UpdateTypeOK
<1>3. UpdateTypeOK'
  BY <1>1, <1>2 DEF UpdateIInv, UpdateInv, UpdateTypeOK
<1>4. UpdateCoversAll' /\ SummaryIsTrue'
  BY <1>1 DEF UpdateIInv, UpdateInv, UpdateCoversAll, SummaryIsTrue
<1>5. UpdatePhase'
  BY <1>1, <1>2 DEF UpdateIInv, UpdatePhase, Handled, Beyond
<1> QED BY <1>3, <1>4, <1>5 DEF UpdateIInv, UpdateInv

\* A blueprint is updated, or its update fails.
LEMMA UpdateBlueprintKeeps == UpdateIInv /\ UpdateBlueprint => UpdateIInv'
<1> SUFFICES ASSUME UpdateIInv, UpdateBlueprint PROVE UpdateIInv'
  OBVIOUS
<1> DEFINE b == Head(onPage)
<1>1. /\ updatePc = "update" /\ onPage # <<>> /\ b \notin skipped /\ onPage' = Tail(onPage)
      /\ UNCHANGED <<listed, before, deletions, skipped, updatePc, pageOffset, lastOne, updateResult>>
  BY DEF UpdateBlueprint, othersVars
<1>2. /\ b \in Blueprints /\ onPage' \in Seq(Blueprints)
      /\ ToSet(onPage) = {b} \cup ToSet(onPage')
  BY <1>1, FirstAndRest DEF UpdateIInv, UpdateInv, UpdateTypeOK
<1>3. successful \in Seq(Blueprints) /\ failed \in Seq(Blueprints)
  BY DEF UpdateIInv, UpdateInv, UpdateTypeOK
<1>4. \/ /\ failed' = Append(failed, b) /\ UNCHANGED successful /\ broken' = broken \cup {b}
      \/ /\ successful' = Append(successful, b) /\ UNCHANGED <<failed, broken>>
  BY DEF UpdateBlueprint, Result
<1> HIDE DEF b
<1>5. /\ successful' \in Seq(Blueprints) /\ failed' \in Seq(Blueprints)
      /\ \/ ToSet(failed') = ToSet(failed) \cup {b} /\ ToSet(successful') = ToSet(successful)
            /\ broken' = broken \cup {b}
         \/ ToSet(failed') = ToSet(failed) /\ ToSet(successful') = ToSet(successful) \cup {b}
            /\ broken' = broken
  <2>1. CASE failed' = Append(failed, b) /\ UNCHANGED successful /\ broken' = broken \cup {b}
    BY <1>2, <1>3, <2>1, ListAppended
  <2>2. CASE successful' = Append(successful, b) /\ UNCHANGED <<failed, broken>>
    BY <1>2, <1>3, <2>2, ListAppended
  <2> QED BY <1>4, <2>1, <2>2
<1>6. Handled' = Handled \cup {b}
  BY <1>5 DEF Handled
<1>7. UpdateTypeOK'
  BY <1>1, <1>2, <1>5 DEF UpdateIInv, UpdateInv, UpdateTypeOK
<1>8. UpdateCoversAll'
  BY <1>1, <1>5 DEF UpdateIInv, UpdateInv, UpdateCoversAll
<1>9. SummaryIsTrue'
  BY <1>1, <1>2, <1>5 DEF UpdateIInv, UpdateInv, SummaryIsTrue
<1>10. UpdatePhase'
  BY <1>1, <1>2, <1>6 DEF UpdateIInv, UpdatePhase, Beyond
<1> QED BY <1>7, <1>8, <1>9, <1>10 DEF UpdateIInv, UpdateInv

\* The command ends without a summary.
LEMMA UpdateEndKeeps ==
  ASSUME UpdateIInv, NEW r \in {"error", "updated", "raised"}, UpdateEnd(r),
         UNCHANGED <<listed, before, deletions, skipped, onPage, pageOffset, lastOne, successful,
                     failed, broken>>
  PROVE  UpdateIInv'
BY DEF UpdateEnd, UpdateIInv, UpdateInv, UpdateTypeOK, UpdateCoversAll, SummaryIsTrue, UpdatePhase

\* The next page, or the summary after the last one.
LEMMA EndOfPageKeeps == UpdateIInv /\ EndOfPage => UpdateIInv'
<1> SUFFICES ASSUME UpdateIInv, EndOfPage PROVE UpdateIInv'
  OBVIOUS
<1>1. /\ updatePc = "update" /\ onPage = <<>>
      /\ UNCHANGED <<listed, before, deletions, skipped, onPage, pageOffset, lastOne, successful,
                     failed, broken>>
      /\ \/ lastOne /\ updatePc' = "done" /\ updateResult' = "summary"
         \/ ~lastOne /\ updatePc' = "list" /\ updateResult' = updateResult
  BY DEF EndOfPage, othersVars, UpdateEnd
<1>2. ToSet(onPage) = {}
  BY <1>1 DEF ToSet
<1>3. UpdateTypeOK' /\ SummaryIsTrue'
  BY <1>1 DEF UpdateIInv, UpdateInv, UpdateTypeOK, SummaryIsTrue
<1>4. UpdateCoversAll'
  BY <1>1, <1>2 DEF UpdateIInv, UpdateInv, UpdateCoversAll, UpdatePhase, Handled
<1>5. UpdatePhase'
  BY <1>1, <1>2 DEF UpdateIInv, UpdatePhase, Handled, Beyond
<1> QED BY <1>3, <1>4, <1>5 DEF UpdateIInv, UpdateInv

\* The command and the others keep it.
LEMMA UpdateKeeps ==
  ASSUME UpdateIInv, [UpdateNext]_updateVars
  PROVE  UpdateIInv'
<1>1. CASE UNCHANGED updateVars
  BY <1>1 DEF updateVars, UpdateIInv, UpdateInv, UpdateTypeOK, UpdateCoversAll, SummaryIsTrue,
              UpdatePhase, Handled, Beyond
<1>2. CASE UpdateOne
  BY <1>2, UpdateEndKeeps DEF UpdateOne, othersVars
<1>3. CASE UpdateRaises
  BY <1>3, UpdateEndKeeps DEF UpdateRaises, othersVars
<1> QED BY <1>1, <1>2, <1>3, OthersKeep, UpdateCallKeeps, ListBlueprintsKeeps, SkipKeeps,
           UpdateBlueprintKeeps, EndOfPageKeeps DEF UpdateNext, UpdateStep

\* What any command does is a step of this one or leaves it alone.
LEMMA UpdateSteps == [CfyNext]_cfyVars => [UpdateNext]_updateVars
BY DEF CfyNext, cfyVars, InAgents, InUpload, InPluginsInstall, InPluginsUpdate, InFlow, InLabels,
       InProfiles, InCluster, InCertificates, InLocal, InEvents, InMaintenance, InSchedules,
       InArchive, InLocalFlow

\* `plugins update' has told of every blueprint there was when it began, unless
\* it was excepted or something was deleted meanwhile, and its list of failures
\* is true: for every page size, number of blueprints and upload meanwhile.
THEOREM EveryBlueprintIsUpdated == CfySpec => []UpdateInv
<1>1. CfyInit => UpdateIInv
  BY UpdateStarts DEF CfyInit
<1>2. UpdateIInv /\ [CfyNext]_cfyVars => UpdateIInv'
  BY UpdateSteps, UpdateKeeps
<1>3. UpdateIInv => UpdateInv
  BY DEF UpdateIInv
<1> QED BY <1>1, <1>2, <1>3, PTL DEF CfySpec
-----------------------------------------------------------------------------
\* The executions whose events are not fetched yet.
ToFetch == CASE deletePc \in {"title", "fetch"} -> ToSet(toStore)
             [] deletePc = "count" -> ToSet(Tail(toStore))
             [] OTHER -> {}
Numbered == \A e \in ToSet(eventLog) \cup known : e.n <= loggedCount
LoggedLater(e) == \A k \in known : k.run = e.run => k.n < e.n

\* Behind EventsInv: only titles are after the place of the events' handle, and
\* the events of the executions that were fetched are stored or were logged later.
EventsIInv ==
  /\ EventsInv
  /\ Numbered
  /\ \A i \in 1 .. Len(cells) : i > place => cells[i] \notin LogEvents
  /\ deletePc # "done" => gone = {}
  /\ deletePc \in {"idle", "list"} => known = {} /\ handed = <<>>
  /\ deletePc \in {"list", "title", "fetch", "count"} => storeArgs.store /\ storeArgs.path
  /\ deletePc \in {"fetch", "count"} => toStore # <<>>
  /\ deletePc \in {"title", "fetch", "count", "delete"} /\ storeArgs.store /\ storeArgs.path =>
       /\ \A e \in known : HasOutput(e) => e \in ToSet(handed)
       /\ \A e \in ToSet(eventLog) :
            e.inRange /\ e.run \in ToSet(FirstPage) \ ToFetch =>
              e \in ToSet(handed) \/ LoggedLater(e) \/ ~HasOutput(e)

\* What the constants are.
LEMMA EventBounds ==
  /\ FirstPage \in Seq(LogRuns) /\ MaxDeleteEvents \in Nat
  /\ \A e \in LogEvents : e.run \in LogRuns /\ e.n \in Nat /\ e.inRange \in BOOLEAN
<1>1. DeploymentRuns \in Seq(LogRuns) /\ RunsPerPage \in 1 .. Len(DeploymentRuns)
  BY EventsAssumption DEF LogRuns
<1>2. \A i \in 1 .. RunsPerPage : DeploymentRuns[i] \in LogRuns
  BY <1>1
<1>3. FirstPage \in Seq(LogRuns)
  BY <1>1, <1>2, SubSeqProperties DEF FirstPage
<1>4. MaxDeleteEvents \in Nat
  BY EventsAssumption
<1> QED BY <1>3, <1>4 DEF LogEvents

\* A title is told from an event.
LEMMA TitlesAreNoEvents ==
  /\ LogEvents \subseteq Texts
  /\ \A r \in LogRuns \cup {"deployment", "count"} : Title(r) \in Texts /\ Title(r) \notin LogEvents
<1>1. \A r : Title(r) \notin LogEvents
  BY DEF Title, LogEvents
<1> QED BY <1>1 DEF Texts

\* Nothing is logged or written yet.
LEMMA EventsStart == EventsInit => EventsIInv
<1> SUFFICES ASSUME EventsInit PROVE EventsIInv
  OBVIOUS
<1> USE DEF EventsInit
<1>1. ToSet(<<>>) = {} /\ \A S : <<>> \in Seq(S)
  BY DEF ToSet
<1>2. Filtered(<<>>, LogEvents) = <<>>
  <2>1. <<>> \in Seq(LogEvents) /\ \A i \in 1 .. Len(<<>>) : <<>>[i] \in LogEvents
    OBVIOUS
  <2> QED BY <2>1, FilteredAll
<1>3. EventsTypeOK
  <2>1. loggedCount \in 0 .. MaxDeleteEvents /\ place \in 0 .. Len(cells)
    BY EventBounds
  <2>2. storeArgs \in [store : BOOLEAN, path : BOOLEAN, verbose : BOOLEAN]
    OBVIOUS
  <2> QED BY <1>1, <2>1, <2>2 DEF EventsTypeOK
<1>4. EventsInv
  BY <1>1, <1>2, <1>3 DEF EventsInv, EventsInFile, StoredBeforeDeleted, OnlyInRange
<1>5. 1 .. Len(cells) = {}
  OBVIOUS
<1> QED BY <1>1, <1>4, <1>5 DEF EventsIInv, Numbered

\* A list without its part after the p-th element, where nothing is kept.
LEMMA FilteredBefore ==
  ASSUME NEW S, NEW c \in Seq(S), NEW p \in 0 .. Len(c), NEW keep,
         \A i \in 1 .. Len(c) : i > p => c[i] \notin keep
  PROVE  /\ SubSeq(c, 1, p) \in Seq(S)
         /\ Filtered(c, keep) = Filtered(SubSeq(c, 1, p), keep)
<1> DEFINE a == SubSeq(c, 1, p)
           b == SubSeq(c, p + 1, Len(c))
<1>1. Len(c) \in Nat /\ p \in Nat /\ p <= Len(c)
  OBVIOUS
<1>2. /\ a \in Seq(S)
      /\ b \in Seq(S) /\ Len(b) = IF p + 1 <= Len(c) THEN (Len(c) - (p + 1)) + 1 ELSE 0
      /\ \A i \in 1 .. (Len(c) - (p + 1)) + 1 : b[i] = c[((p + 1) + i) - 1]
  <2>1. \A i \in 1 .. Len(c) : c[i] \in S
    OBVIOUS
  <2>2. \A i \in 1 .. p : i \in 1 .. Len(c)
    BY <1>1
  <2>3. \A i \in p + 1 .. Len(c) : i \in 1 .. Len(c)
    BY <1>1
  <2>4. a \in Seq(S)
    BY <1>1, <2>1, <2>2, SubSeqProperties
  <2> QED BY <1>1, <2>1, <2>3, <2>4, SubSeqProperties
<1>3. c = a \o b
  <2>1. a \o b = SubSeq(c, 1, Len(c))
    <3>1. 1 \in 1 .. Len(c) + 1 /\ p \in 1 - 1 .. Len(c) /\ Len(c) \in p .. Len(c)
      BY <1>1
    <3> QED BY <3>1, ConcatAdjacentSubSeq
  <2> QED BY <2>1, SubSeqFull
<1> HIDE DEF a, b
<1>4. ASSUME NEW i \in 1 .. Len(b) PROVE b[i] \notin keep
  <2>1. /\ i \in 1 .. (Len(c) - (p + 1)) + 1
        /\ ((p + 1) + i) - 1 \in 1 .. Len(c) /\ ((p + 1) + i) - 1 > p
    BY <1>1, <1>2
  <2> QED BY <1>2, <2>1
<1>5. Filtered(b, keep) = <<>>
  BY <1>2, <1>4, FilteredNothing
<1>6. Filtered(a \o b, keep) = Filtered(a, keep) \o Filtered(b, keep)
  BY <1>2, FilteredConcat
<1>7. Filtered(a, keep) \in Seq(S)
  BY <1>2, FilteredPicks
<1>8. Filtered(a, keep) \o <<>> = Filtered(a, keep)
  BY <1>7, ConcatEmptySeq
<1> QED BY <1>2, <1>3, <1>5, <1>6, <1>8 DEF a

\* A line that is appended.
LEMMA TitleAppended ==
  ASSUME EventsIInv, NEW r \in LogRuns \cup {"deployment", "count"}, AppendText(Title(r))
  PROVE  /\ cells' \in Seq(Texts) /\ place \in 0 .. Len(cells')
         /\ Filtered(cells', LogEvents) = Filtered(cells, LogEvents)
         /\ \A i \in 1 .. Len(cells') : i > place => cells'[i] \notin LogEvents
<1> DEFINE t == Title(r)
           c == Append(cells, t)
<1>1. t \in Texts /\ t \notin LogEvents
  BY TitlesAreNoEvents
<1>2. /\ cells \in Seq(Texts) /\ place \in 0 .. Len(cells)
      /\ \A i \in 1 .. Len(cells) : i > place => cells[i] \notin LogEvents
  BY DEF EventsIInv, EventsInv, EventsTypeOK
<1>3. cells' = c
  BY DEF AppendText
<1> HIDE DEF t
<1>4. /\ Len(cells) \in Nat /\ c \in Seq(Texts) /\ Len(c) = Len(cells) + 1 /\ c[Len(cells) + 1] = t
      /\ \A i \in 1 .. Len(cells) : c[i] = cells[i]
  BY <1>1, <1>2
<1>5. \A i \in 1 .. Len(cells) + 1 : i \in 1 .. Len(cells) \/ i = Len(cells) + 1
  BY <1>4
<1>6. place \in 0 .. Len(c)
  BY <1>2, <1>4
<1> HIDE DEF c
<1>7. \A i \in 1 .. Len(c) : i > place => c[i] \notin LogEvents
  BY <1>1, <1>2, <1>4, <1>5
<1>8. Filtered(c, LogEvents) = Filtered(cells, LogEvents)
  <2>1. Filtered(c, LogEvents) = Filtered(SubSeq(c, 1, place), LogEvents)
    BY <1>4, <1>6, <1>7, FilteredBefore
  <2>2. Filtered(cells, LogEvents) = Filtered(SubSeq(cells, 1, place), LogEvents)
    BY <1>2, FilteredBefore
  <2>3. SubSeq(c, 1, place) = SubSeq(cells, 1, place)
    <3> DEFINE x == SubSeq(c, 1, place)
               y == SubSeq(cells, 1, place)
    <3>1. place \in Nat /\ place <= Len(cells)
      BY <1>2, <1>4
    <3>2. x \in Seq(Texts) /\ Len(x) = place /\ \A i \in 1 .. place : x[i] = c[i]
      BY <1>4, <3>1
    <3>3. y \in Seq(Texts) /\ Len(y) = place /\ \A i \in 1 .. place : y[i] = cells[i]
      BY <1>2, <3>1
    <3> HIDE DEF x, y
    <3>4. \A i \in 1 .. place : x[i] = y[i]
      BY <1>4, <3>1, <3>2, <3>3
    <3> QED BY <3>2, <3>3, <3>4, SeqEqual
  <2> QED BY <2>1, <2>2, <2>3
<1> QED BY <1>3, <1>4, <1>6, <1>7, <1>8

\* Events written over the file from their handle's place on.
LEMMA EventsWritten ==
  ASSUME cells \in Seq(Texts), place \in 0 .. Len(cells),
         \A i \in 1 .. Len(cells) : i > place => cells[i] \notin LogEvents,
         NEW q \in Seq(LogEvents)
  PROVE  /\ Overwritten(q) \in Seq(Texts) /\ place + Len(q) \in 0 .. Len(Overwritten(q))
         /\ \A i \in 1 .. Len(Overwritten(q)) :
              i > place + Len(q) => Overwritten(q)[i] \notin LogEvents
         /\ Filtered(Overwritten(q), LogEvents) = Filtered(cells, LogEvents) \o q
<1> DEFINE w == Overwritten(q)
           m == IF place + Len(q) > Len(cells) THEN place + Len(q) ELSE Len(cells)
           k == place + Len(q)
           a == SubSeq(cells, 1, place)
<1>1. /\ Len(cells) \in Nat /\ Len(q) \in Nat /\ place \in Nat /\ place <= Len(cells)
      /\ q \in Seq(Texts) /\ \A i \in 1 .. Len(q) : q[i] \in LogEvents /\ q[i] \in Texts
      /\ \A i \in 1 .. Len(cells) : cells[i] \in Texts
  <2>1. \A i \in 1 .. Len(q) : q[i] \in LogEvents /\ q[i] \in Texts
    BY TitlesAreNoEvents
  <2>2. q \in Seq(Texts)
    BY <2>1
  <2>3. Len(cells) \in Nat /\ Len(q) \in Nat /\ place \in Nat /\ place <= Len(cells)
    OBVIOUS
  <2>4. \A i \in 1 .. Len(cells) : cells[i] \in Texts
    OBVIOUS
  <2> QED BY <2>1, <2>2, <2>3, <2>4
<1>2. m \in Nat /\ k <= m /\ k \in Nat /\ place <= k /\ (m # Len(cells) => m = k) /\ Len(cells) <= m
  BY <1>1
<1>3. /\ w = [i \in 1 .. m |-> IF i \in place + 1 .. k THEN q[i - place] ELSE cells[i]]
  BY DEF Overwritten
<1> HIDE DEF w, m
<1>4. \A i \in 1 .. m : i \in place + 1 .. k => i - place \in 1 .. Len(q)
  BY <1>1
<1>5. \A i \in 1 .. m : i \notin place + 1 .. k => i \in 1 .. Len(cells)
  BY <1>1, <1>2
<1>6. w \in Seq(Texts) /\ Len(w) = m
  <2>1. w \in [1 .. m -> Texts]
    BY <1>1, <1>3, <1>4, <1>5
  <2> QED BY <1>2, <2>1
<1>7. \A i \in 1 .. Len(w) : i > k => w[i] \notin LogEvents
  <2> SUFFICES ASSUME NEW i \in 1 .. m, i > k PROVE w[i] \notin LogEvents
    BY <1>6
  <2>1. i \notin place + 1 .. k /\ i > place /\ i \in 1 .. Len(cells)
    BY <1>1, <1>2, <1>5
  <2> QED BY <1>3, <2>1
<1>8. k \in 0 .. Len(w)
  BY <1>2, <1>6
<1>9. SubSeq(w, 1, k) = a \o q
  <2> DEFINE v == SubSeq(w, 1, k)
  <2>1. /\ v \in Seq(Texts) /\ Len(v) = k /\ \A i \in 1 .. k : v[i] = w[i]
    BY <1>2, <1>6
  <2>2. /\ a \in Seq(Texts) /\ Len(a) = place /\ \A i \in 1 .. place : a[i] = cells[i]
    BY <1>1
  <2> HIDE DEF v, a, k
  <2>3. /\ a \o q \in Seq(Texts) /\ Len(a \o q) = Len(a) + Len(q)
        /\ \A i \in 1 .. Len(a) + Len(q) :
             (a \o q)[i] = IF i <= Len(a) THEN a[i] ELSE q[i - Len(a)]
    BY <1>1, <2>2, ConcatProperties
  <2>4. k = place + Len(q)
    BY DEF k
  <2>5. ASSUME NEW i \in 1 .. k PROVE v[i] = (a \o q)[i]
    <3>1. i \in 1 .. m /\ i \in 1 .. Len(a) + Len(q)
      BY <1>1, <1>2, <2>2, <2>4
    <3>2. CASE i <= place
      <4>1. i \notin place + 1 .. k /\ i \in 1 .. place
        BY <1>1, <3>2
      <4> QED BY <1>3, <2>1, <2>2, <2>3, <3>1, <3>2, <4>1
    <3>3. CASE ~(i <= place)
      <4>1. i \in place + 1 .. k
        BY <1>1, <1>2, <3>3
      <4> QED BY <1>3, <2>1, <2>2, <2>3, <3>1, <3>3, <4>1
    <3> QED BY <3>2, <3>3
  <2>6. Len(a \o q) = k
    BY <2>2, <2>3, <2>4
  <2> QED BY <2>1, <2>3, <2>5, <2>6, SeqEqual
<1>10. Filtered(w, LogEvents) = Filtered(a \o q, LogEvents)
  <2> HIDE DEF k, a
  <2>1. Filtered(w, LogEvents) = Filtered(SubSeq(w, 1, k), LogEvents)
    BY <1>6, <1>7, <1>8, FilteredBefore
  <2> QED BY <1>9, <2>1
<1>11. a \in Seq(Texts) /\ Filtered(cells, LogEvents) = Filtered(a, LogEvents)
  BY FilteredBefore
<1> HIDE DEF a
<1>12. Filtered(a \o q, LogEvents) = Filtered(a, LogEvents) \o Filtered(q, LogEvents)
  <2>1. a \in Seq(Texts) /\ q \in Seq(Texts)
    BY <1>1, <1>11
  <2> QED BY <2>1, FilteredConcat
<1>13. Filtered(q, LogEvents) = q
  BY <1>1, FilteredAll
<1> QED BY <1>6, <1>7, <1>8, <1>10, <1>11, <1>12, <1>13 DEF w

\* An execution logs an event, which is later than all that is known.
LEMMA LogEventKeeps ==
  ASSUME EventsIInv, NEW r \in LogRuns, NEW sort \in EventSorts, LogEvent(r, sort)
  PROVE  EventsIInv'
<1>1. /\ deletePc # "done" /\ loggedCount' = loggedCount + 1 /\ loggedCount < MaxDeleteEvents
      /\ UNCHANGED <<storeArgs, deletePc, toStore, cells, place, known, handed, gone, deleteResult>>
  BY DEF LogEvent, fileVars
<1>2. /\ loggedCount \in Nat /\ eventLog \in Seq(LogEvents) /\ known \subseteq LogEvents
  BY EventBounds DEF EventsIInv, EventsInv, EventsTypeOK
<1>3. PICK e \in LogEvents : e.n = loggedCount + 1 /\ eventLog' = Append(eventLog, e)
  <2>1. loggedCount + 1 \in 1 .. MaxDeleteEvents
    BY <1>1, <1>2, EventBounds
  <2>2. [run |-> r, n |-> loggedCount + 1, inRange |-> sort # "outside", debug |-> sort = "debug"]
          \in LogEvents
    BY <2>1 DEF LogEvents
  <2> QED BY <2>2 DEF LogEvent
<1>4. eventLog' \in Seq(LogEvents) /\ ToSet(eventLog') = ToSet(eventLog) \cup {e}
  BY <1>1, <1>2, <1>3, ListAppended
<1>5. ToSet(eventLog) \subseteq LogEvents
  BY <1>2 DEF ToSet
<1>6. loggedCount' \in 0 .. MaxDeleteEvents
  BY <1>1, <1>2, EventBounds
<1>7. EventsTypeOK'
  BY <1>1, <1>4, <1>6 DEF EventsIInv, EventsInv, EventsTypeOK
<1>8. EventsInv'
  BY <1>1, <1>7 DEF EventsIInv, EventsInv, EventsInFile, StoredBeforeDeleted, OnlyInRange, HasOutput
<1>9. \A k \in known : k.n < e.n
  <2>1. \A k \in known : k.n \in Nat /\ k.n <= loggedCount
    BY <1>2, EventBounds DEF EventsIInv, Numbered
  <2> QED BY <1>2, <1>3, <2>1
<1>10. Numbered'
  <2>1. \A k \in ToSet(eventLog) \cup known : k.n \in Nat /\ k.n <= loggedCount
    BY <1>2, <1>5, EventBounds DEF EventsIInv, Numbered
  <2> QED BY <1>1, <1>2, <1>3, <1>4, <2>1 DEF Numbered
<1>11. LoggedLater(e)' /\ \A k : LoggedLater(k)' <=> LoggedLater(k)
  BY <1>1, <1>9 DEF LoggedLater
<1>13. \A k : HasOutput(k)' <=> HasOutput(k)
  BY <1>1 DEF HasOutput
<1>12. ToFetch' = ToFetch
  BY <1>1 DEF ToFetch
<1> QED BY <1>1, <1>4, <1>8, <1>10, <1>11, <1>12, <1>13 DEF EventsIInv

\* The command is called.
LEMMA DeleteCallKeeps ==
  ASSUME EventsIInv, NEW args \in [store : BOOLEAN, path : BOOLEAN, verbose : BOOLEAN],
         DeleteCall(args)
  PROVE  EventsIInv'
<1>1. /\ deletePc = "idle" /\ storeArgs' = args
      /\ UNCHANGED <<eventLog, loggedCount, toStore, cells, place, known, handed, gone>>
      /\ \/ args.store /\ args.path /\ deletePc' = "list" /\ UNCHANGED deleteResult
         \/ ~(args.store /\ args.path) /\ deletePc' = "delete" /\ UNCHANGED deleteResult
         \/ deletePc' = "done" /\ deleteResult' = "raised"
  BY DEF DeleteCall, fileVars
<1>2. gone = {} /\ known = {} /\ handed = <<>>
  BY <1>1 DEF EventsIInv
<1>3. EventsTypeOK'
  BY <1>1 DEF EventsIInv, EventsInv, EventsTypeOK
<1>4. EventsInv'
  BY <1>1, <1>2, <1>3 DEF EventsIInv, EventsInv, EventsInFile, StoredBeforeDeleted, OnlyInRange
<1>5. Numbered'
  BY <1>1 DEF EventsIInv, Numbered
<1> QED BY <1>1, <1>2, <1>4, <1>5 DEF EventsIInv

\* The executions are listed, the file made, with its first line.
LEMMA OpenOutputKeeps == EventsIInv /\ OpenOutput => EventsIInv'
<1> SUFFICES ASSUME EventsIInv, OpenOutput PROVE EventsIInv'
  OBVIOUS
<1> DEFINE t == Title("deployment")
<1>1. /\ deletePc = "list" /\ toStore' = FirstPage /\ cells' = <<t>> /\ place' = 1
      /\ deletePc' = "title"
      /\ UNCHANGED <<eventLog, loggedCount, storeArgs, known, handed, gone, deleteResult>>
  BY DEF OpenOutput
<1>2. t \in Texts /\ t \notin LogEvents
  BY TitlesAreNoEvents
<1> HIDE DEF t
<1>3. gone = {} /\ known = {} /\ handed = <<>> /\ storeArgs.store /\ storeArgs.path
  BY <1>1 DEF EventsIInv
<1>4. /\ <<t>> \in Seq(Texts) /\ Len(<<t>>) = 1 /\ <<t>>[1] = t
  BY <1>2
<1>5. Filtered(<<t>>, LogEvents) = <<>>
  <2>1. \A i \in 1 .. 1 : <<t>>[i] \notin LogEvents
    BY <1>2
  <2> QED BY <1>4, <2>1, FilteredNothing
<1>6. EventsTypeOK'
  <2>1. cells' \in Seq(Texts) /\ place' \in 0 .. Len(cells')
    BY <1>1, <1>4
  <2> QED BY <1>1, <2>1, EventBounds DEF EventsIInv, EventsInv, EventsTypeOK
<1>7. EventsInv'
  BY <1>1, <1>3, <1>5, <1>6
     DEF EventsIInv, EventsInv, EventsInFile, StoredBeforeDeleted, OnlyInRange
<1>8. Numbered'
  BY <1>1 DEF EventsIInv, Numbered
<1>9. ToFetch' = ToSet(FirstPage)
  BY <1>1 DEF ToFetch
<1>10. \A i \in 1 .. Len(cells') : ~(i > place')
  BY <1>1, <1>4
<1> QED BY <1>1, <1>3, <1>7, <1>8, <1>9, <1>10 DEF EventsIInv

\* The line above an execution's events, at the end of the file.
LEMMA WriteTitleKeeps == EventsIInv /\ WriteTitle => EventsIInv'
<1> SUFFICES ASSUME EventsIInv, WriteTitle PROVE EventsIInv'
  OBVIOUS
<1>1. /\ deletePc = "title"
      /\ UNCHANGED <<eventLog, loggedCount, storeArgs, toStore, place, known, handed, gone,
                     deleteResult>>
      /\ \/ toStore = <<>> /\ deletePc' = "delete" /\ UNCHANGED cells
         \/ toStore # <<>> /\ deletePc' = "fetch" /\ AppendText(Title(Head(toStore)))
  BY DEF WriteTitle
<1>2. gone = {} /\ storeArgs.store /\ storeArgs.path
  BY <1>1 DEF EventsIInv
<1>3. /\ cells' \in Seq(Texts) /\ place \in 0 .. Len(cells')
      /\ Filtered(cells', LogEvents) = Filtered(cells, LogEvents)
      /\ \A i \in 1 .. Len(cells') : i > place => cells'[i] \notin LogEvents
  <2>1. CASE UNCHANGED cells
    BY <2>1 DEF EventsIInv, EventsInv, EventsTypeOK
  <2>2. CASE toStore # <<>> /\ AppendText(Title(Head(toStore)))
    <3>1. Head(toStore) \in LogRuns
      BY <2>2, FirstAndRest DEF EventsIInv, EventsInv, EventsTypeOK
    <3> QED BY <2>2, <3>1, TitleAppended
  <2> QED BY <1>1, <2>1, <2>2
<1>4. EventsTypeOK'
  BY <1>1, <1>3 DEF EventsIInv, EventsInv, EventsTypeOK
<1>5. EventsInv'
  BY <1>1, <1>2, <1>3, <1>4
     DEF EventsIInv, EventsInv, EventsInFile, StoredBeforeDeleted, OnlyInRange
<1>6. Numbered'
  BY <1>1 DEF EventsIInv, Numbered
<1>7. ToFetch' = ToFetch
  <2>1. toStore = <<>> => ToSet(toStore) = {}
    BY DEF ToSet
  <2> QED BY <1>1, <2>1 DEF ToFetch
<1>8. \A e : /\ LoggedLater(e)' <=> LoggedLater(e)
            /\ HasOutput(e)' <=> HasOutput(e)
  BY <1>1 DEF LoggedLater, HasOutput
<1> QED BY <1>1, <1>2, <1>3, <1>5, <1>6, <1>7, <1>8 DEF EventsIInv, HasOutput

\* How many events there were, at the end of the file.
LEMMA WriteCountKeeps == EventsIInv /\ WriteCount => EventsIInv'
<1> SUFFICES ASSUME EventsIInv, WriteCount PROVE EventsIInv'
  OBVIOUS
<1>1. /\ deletePc = "count" /\ AppendText(Title("count")) /\ toStore' = Tail(toStore)
      /\ deletePc' = "title"
      /\ UNCHANGED <<eventLog, loggedCount, storeArgs, place, known, handed, gone, deleteResult>>
  BY DEF WriteCount
<1>2. gone = {} /\ storeArgs.store /\ storeArgs.path /\ toStore # <<>>
  BY <1>1 DEF EventsIInv
<1>3. /\ cells' \in Seq(Texts) /\ place \in 0 .. Len(cells')
      /\ Filtered(cells', LogEvents) = Filtered(cells, LogEvents)
      /\ \A i \in 1 .. Len(cells') : i > place => cells'[i] \notin LogEvents
  BY <1>1, TitleAppended
<1>4. toStore' \in Seq(LogRuns)
  BY <1>1, <1>2, FirstAndRest DEF EventsIInv, EventsInv, EventsTypeOK
<1>5. EventsTypeOK'
  BY <1>1, <1>3, <1>4 DEF EventsIInv, EventsInv, EventsTypeOK
<1>6. EventsInv'
  BY <1>1, <1>2, <1>3, <1>5
     DEF EventsIInv, EventsInv, EventsInFile, StoredBeforeDeleted, OnlyInRange
<1>7. Numbered'
  BY <1>1 DEF EventsIInv, Numbered
<1>8. ToFetch' = ToFetch
  BY <1>1 DEF ToFetch
<1>9. \A e : /\ LoggedLater(e)' <=> LoggedLater(e)
            /\ HasOutput(e)' <=> HasOutput(e)
  BY <1>1 DEF LoggedLater, HasOutput
<1> QED BY <1>1, <1>2, <1>3, <1>6, <1>7, <1>8, <1>9 DEF EventsIInv, HasOutput

\* What the manager selects.
LEMMA Selected ==
  ASSUME eventLog \in Seq(LogEvents)
  PROVE  /\ InTimeRange(eventLog) \in Seq(LogEvents)
         /\ ToSet(InTimeRange(eventLog)) = {e \in ToSet(eventLog) : e.inRange}
<1> DEFINE in == {e \in LogEvents : e.inRange}
<1>1. InTimeRange(eventLog) = Filtered(eventLog, in)
  BY DEF InTimeRange
<1>2. ToSet(eventLog) \subseteq LogEvents
  BY DEF ToSet
<1>3. ToSet(eventLog) \cap in = {e \in ToSet(eventLog) : e.inRange}
  BY <1>2
<1> HIDE DEF in
<1> QED BY <1>1, <1>3, ListFiltered

\* Events are fetched and written, all or some before a failure.
LEMMA StoreEventsKeeps == EventsIInv /\ StoreEvents => EventsIInv'
<1> SUFFICES ASSUME EventsIInv, StoreEvents PROVE EventsIInv'
  OBVIOUS
<1> DEFINE run == Head(toStore)
           ofRun == {e \in LogEvents : e.run = run}
           es == Filtered(InTimeRange(eventLog), ofRun)
<1>1. PICK k \in 0 .. Len(es) :
        /\ cells' = Overwritten(WithOutput(SubSeq(es, 1, k)))
        /\ place' = place + Len(WithOutput(SubSeq(es, 1, k)))
        /\ handed' = handed \o WithOutput(SubSeq(es, 1, k)) /\ known' = known \cup ToSet(es)
        /\ \/ k = Len(es) /\ deletePc' = "count" /\ UNCHANGED deleteResult
           \/ deletePc' = "done" /\ deleteResult' = "raised"
  BY DEF StoreEvents
<1>2. /\ deletePc = "fetch"
      /\ UNCHANGED <<eventLog, loggedCount, storeArgs, toStore, gone>>
  BY DEF StoreEvents
<1>3. /\ gone = {} /\ storeArgs.store /\ storeArgs.path /\ toStore # <<>>
      /\ \A e \in known : HasOutput(e) => e \in ToSet(handed)
      /\ known \subseteq LogEvents
      /\ handed \in Seq(LogEvents) /\ eventLog \in Seq(LogEvents)
      /\ Filtered(cells, LogEvents) = handed
      /\ \A e \in ToSet(eventLog) :
            e.inRange /\ e.run \in ToSet(FirstPage) \ ToSet(toStore) =>
              e \in ToSet(handed) \/ LoggedLater(e) \/ ~HasOutput(e)
  BY <1>2 DEF EventsIInv, EventsInv, EventsTypeOK, EventsInFile, ToFetch
<1>4. run \in LogRuns /\ ToSet(toStore) = {run} \cup ToSet(Tail(toStore))
  BY <1>3, FirstAndRest DEF EventsIInv, EventsInv, EventsTypeOK
<1>5. /\ es \in Seq(LogEvents)
      /\ ToSet(es) = {e \in ToSet(eventLog) : e.inRange /\ e.run = run}
  <2>1. /\ InTimeRange(eventLog) \in Seq(LogEvents)
        /\ ToSet(InTimeRange(eventLog)) = {e \in ToSet(eventLog) : e.inRange}
    BY <1>3, Selected
  <2>2. es \in Seq(LogEvents) /\ ToSet(es) = ToSet(InTimeRange(eventLog)) \cap ofRun
    BY <2>1, ListFiltered
  <2>3. ToSet(eventLog) \subseteq LogEvents
    BY <1>3 DEF ToSet
  <2> HIDE DEF es
  <2> QED BY <2>1, <2>2, <2>3
<1> DEFINE p == SubSeq(es, 1, k)
           q == WithOutput(p)
<1> HIDE DEF es, run
<1>a. /\ p \in Seq(LogEvents) /\ ToSet(p) \subseteq ToSet(es)
      /\ k = Len(es) => p = es
  <2>1. Len(es) \in Nat /\ k \in Nat /\ k <= Len(es) /\ DOMAIN es = 1 .. Len(es)
    BY <1>5
  <2>2. /\ p \in Seq(LogEvents) /\ Len(p) = k /\ \A i \in 1 .. k : p[i] = es[i]
    BY <1>5, <2>1
  <2>3. k = Len(es) => p = es
    BY <1>5, SubSeqFull
  <2> HIDE DEF p
  <2>4. DOMAIN p = 1 .. k /\ \A i \in 1 .. k : i \in DOMAIN es
    BY <2>1, <2>2
  <2>5. ToSet(p) \subseteq ToSet(es)
    BY <2>2, <2>4 DEF ToSet
  <2> QED BY <2>2, <2>3, <2>5
<1> HIDE DEF p
<1>b. ToSet(es) \subseteq LogEvents
  BY <1>5 DEF ToSet
<1>6. /\ q \in Seq(LogEvents) /\ ToSet(q) \subseteq ToSet(es)
      /\ k = Len(es) => \A e \in ToSet(es) : HasOutput(e) => e \in ToSet(q)
  <2> DEFINE loud == {e \in LogEvents : HasOutput(e)}
  <2>1. q = Filtered(p, loud)
    BY DEF WithOutput
  <2>2. \A e \in ToSet(es) : HasOutput(e) => e \in loud
    BY <1>b
  <2> HIDE DEF loud, q
  <2>3. q \in Seq(LogEvents) /\ ToSet(q) = ToSet(p) \cap loud
    BY <1>a, <2>1, ListFiltered
  <2> QED BY <1>a, <2>2, <2>3
<1>7. cells' = Overwritten(q) /\ place' = place + Len(q) /\ handed' = handed \o q
  BY <1>1 DEF p
<1> HIDE DEF q
<1>8. /\ cells' \in Seq(Texts) /\ place' \in 0 .. Len(cells')
      /\ Filtered(cells', LogEvents) = handed'
      /\ \A i \in 1 .. Len(cells') : i > place' => cells'[i] \notin LogEvents
  <2>1. /\ cells \in Seq(Texts) /\ place \in 0 .. Len(cells)
        /\ \A i \in 1 .. Len(cells) : i > place => cells[i] \notin LogEvents
    BY DEF EventsIInv, EventsInv, EventsTypeOK
  <2>2. /\ Overwritten(q) \in Seq(Texts) /\ place + Len(q) \in 0 .. Len(Overwritten(q))
        /\ \A i \in 1 .. Len(Overwritten(q)) :
             i > place + Len(q) => Overwritten(q)[i] \notin LogEvents
        /\ Filtered(Overwritten(q), LogEvents) = Filtered(cells, LogEvents) \o q
    BY <1>6, <2>1, EventsWritten
  <2> QED BY <1>3, <1>6, <1>7, <2>2
<1>9. handed' \in Seq(LogEvents) /\ ToSet(handed') = ToSet(handed) \cup ToSet(q)
  BY <1>3, <1>6, <1>7, ListsJoined
<1>10. known' = known \cup ToSet(es) /\ ToSet(es) \subseteq ToSet(eventLog)
       /\ ToSet(eventLog) \subseteq LogEvents
  <2>1. ToSet(eventLog) \subseteq LogEvents
    BY <1>3 DEF ToSet
  <2> QED BY <1>1, <1>5, <2>1
<1>11. EventsTypeOK'
  BY <1>1, <1>2, <1>3, <1>8, <1>9, <1>10 DEF EventsIInv, EventsInv, EventsTypeOK
<1>12. OnlyInRange'
  BY <1>2, <1>3, <1>5, <1>6, <1>9 DEF EventsIInv, EventsInv, OnlyInRange
<1>13. EventsInv'
  BY <1>2, <1>3, <1>8, <1>11, <1>12 DEF EventsInv, EventsInFile, StoredBeforeDeleted
<1>14. Numbered'
  BY <1>2, <1>10 DEF EventsIInv, Numbered
<1>15. deletePc' = "count" => k = Len(es) /\ ToFetch' = ToSet(Tail(toStore))
  BY <1>1, <1>2 DEF ToFetch
<1>18. \A e : HasOutput(e)' <=> HasOutput(e)
  BY <1>2 DEF HasOutput
<1>16. ASSUME deletePc' = "count"
       PROVE  /\ \A e \in known' : HasOutput(e)' => e \in ToSet(handed')
              /\ \A e \in ToSet(eventLog') :
                   e.inRange /\ e.run \in ToSet(FirstPage) \ ToFetch' =>
                     e \in ToSet(handed') \/ LoggedLater(e)' \/ ~HasOutput(e)'
  <2>1. \A e \in known' : HasOutput(e) => e \in ToSet(handed')
    BY <1>3, <1>6, <1>9, <1>10, <1>15, <1>16
  <2>2. ASSUME NEW e \in ToSet(eventLog), e.inRange, e.run \in ToSet(FirstPage) \ ToSet(Tail(toStore)),
               e \notin ToSet(handed'), HasOutput(e)
        PROVE  LoggedLater(e)'
    <3>1. e.run # run
      BY <1>5, <1>6, <1>9, <1>15, <1>16, <2>2
    <3>2. LoggedLater(e)
      BY <1>3, <1>4, <1>9, <2>2, <3>1
    <3> QED BY <1>5, <1>10, <3>1, <3>2 DEF LoggedLater
  <2> QED BY <1>2, <1>15, <1>16, <1>18, <2>1, <2>2
<1>17. deletePc' \in {"count", "done"}
  BY <1>1
<1> QED BY <1>2, <1>3, <1>8, <1>13, <1>14, <1>16, <1>17 DEF EventsIInv

\* The manager deletes what is in the range.
LEMMA DeleteEventsKeeps == EventsIInv /\ DeleteEvents => EventsIInv'
<1> SUFFICES ASSUME EventsIInv, DeleteEvents PROVE EventsIInv'
  OBVIOUS
<1>1. /\ deletePc = "delete" /\ deletePc' = "done"
      /\ UNCHANGED <<loggedCount, storeArgs, toStore, cells, place, known, handed>>
      /\ \/ /\ eventLog' = Filtered(eventLog, {e \in LogEvents : ~e.inRange})
            /\ gone' = ToSet(InTimeRange(eventLog))
            /\ deleteResult' \in {"nothing", "deleted", "raised"}
         \/ deleteResult' = "raised" /\ UNCHANGED <<eventLog, gone>>
  BY DEF DeleteEvents, fileVars
<1>2. eventLog \in Seq(LogEvents) /\ ToSet(eventLog) \subseteq LogEvents /\ gone = {}
  BY <1>1 DEF EventsIInv, EventsInv, EventsTypeOK, ToSet
<1>3. /\ eventLog' \in Seq(LogEvents) /\ ToSet(eventLog') \subseteq ToSet(eventLog)
      /\ gone' \subseteq {e \in ToSet(eventLog) : e.inRange}
      /\ deleteResult' \in {"none", "raised", "nothing", "deleted"}
  <2>1. CASE deleteResult' = "raised" /\ UNCHANGED <<eventLog, gone>>
    BY <1>2, <2>1
  <2>2. CASE /\ eventLog' = Filtered(eventLog, {e \in LogEvents : ~e.inRange})
             /\ gone' = ToSet(InTimeRange(eventLog))
             /\ deleteResult' \in {"nothing", "deleted", "raised"}
    BY <1>2, <2>2, ListFiltered, Selected
  <2> QED BY <1>1, <2>1, <2>2
<1>4. EventsTypeOK'
  BY <1>1, <1>2, <1>3 DEF EventsIInv, EventsInv, EventsTypeOK
<1>5. StoredBeforeDeleted'
  <2>1. ToFetch = {}
    BY <1>1 DEF ToFetch
  <2>2. storeArgs.store /\ storeArgs.path =>
          /\ \A e \in known : HasOutput(e) => e \in ToSet(handed)
          /\ \A e \in ToSet(eventLog) :
               e.inRange /\ e.run \in ToSet(FirstPage) =>
                 e \in ToSet(handed) \/ LoggedLater(e) \/ ~HasOutput(e)
    BY <1>1, <2>1 DEF EventsIInv
  <2> QED BY <1>1, <1>3, <2>2 DEF StoredBeforeDeleted, LoggedLater, HasOutput
<1>6. OnlyInRange'
  BY <1>1, <1>3 DEF EventsIInv, EventsInv, OnlyInRange
<1>7. EventsInv'
  BY <1>1, <1>4, <1>5, <1>6 DEF EventsIInv, EventsInv, EventsInFile
<1>8. Numbered'
  BY <1>1, <1>3 DEF EventsIInv, Numbered
<1> QED BY <1>1, <1>7, <1>8 DEF EventsIInv

\* The command fails before anything was written.
LEMMA ListingFailsKeeps == EventsIInv /\ ListingFails => EventsIInv'
<1> SUFFICES ASSUME EventsIInv, ListingFails PROVE EventsIInv'
  OBVIOUS
<1>1. /\ deletePc = "list" /\ deletePc' = "done" /\ deleteResult' = "raised"
      /\ UNCHANGED <<eventLog, loggedCount, storeArgs, toStore, cells, place, known, handed, gone>>
  BY DEF ListingFails, fileVars
<1>2. EventsInv'
  BY <1>1 DEF EventsIInv, EventsInv, EventsTypeOK, EventsInFile, StoredBeforeDeleted, OnlyInRange,
                HasOutput
<1> QED BY <1>1, <1>2 DEF EventsIInv, Numbered

\* The command and the executions keep it.
LEMMA EventsKeep ==
  ASSUME EventsIInv, [EventsNext]_eventsVars
  PROVE  EventsIInv'
<1>1. CASE UNCHANGED eventsVars
  <2>1. EventsInv'
    BY <1>1 DEF eventsVars, EventsIInv, EventsInv, EventsTypeOK, EventsInFile, StoredBeforeDeleted,
                OnlyInRange, HasOutput
  <2>2. /\ ToFetch' = ToFetch
        /\ \A e : LoggedLater(e)' <=> LoggedLater(e)
        /\ \A e : HasOutput(e)' <=> HasOutput(e)
    BY <1>1 DEF eventsVars, ToFetch, LoggedLater, HasOutput
  <2>3. Numbered'
    BY <1>1 DEF eventsVars, EventsIInv, Numbered
  <2> QED BY <1>1, <2>1, <2>2, <2>3 DEF eventsVars, EventsIInv
<1>2. ASSUME NEW store \in BOOLEAN, NEW path \in BOOLEAN, NEW verbose \in BOOLEAN,
             DeleteCall([store |-> store, path |-> path, verbose |-> verbose])
      PROVE  EventsIInv'
  BY <1>2, DeleteCallKeeps
<1> QED BY <1>1, <1>2, LogEventKeeps, OpenOutputKeeps, WriteTitleKeeps, StoreEventsKeeps,
           WriteCountKeeps, DeleteEventsKeeps, ListingFailsKeeps DEF EventsNext, EventsStep

\* What any command does is a step of this one or leaves it alone.
LEMMA EventsSteps == [CfyNext]_cfyVars => [EventsNext]_eventsVars
BY DEF CfyNext, cfyVars, InAgents, InUpload, InPluginsInstall, InPluginsUpdate, InFlow, InLabels,
       InProfiles, InCluster, InCertificates, InLocal, InEvents, InMaintenance, InSchedules,
       InArchive, InLocalFlow

\* What `events delete --store-before --output-path' deletes is in the file,
\* although two handles write to it - save events of executions that were not
\* listed, those logged after their execution was fetched and, without -vv, the
\* debug logs; and it touches no event out of the range.
THEOREM StoredBeforeTheyAreDeleted == CfySpec => []EventsInv
<1>1. CfyInit => EventsIInv
  BY EventsStart DEF CfyInit
<1>2. EventsIInv /\ [CfyNext]_cfyVars => EventsIInv'
  BY EventsSteps, EventsKeep
<1>3. EventsIInv => EventsInv
  BY DEF EventsIInv
<1> QED BY <1>1, <1>2, <1>3, PTL DEF CfySpec
=============================================================================
