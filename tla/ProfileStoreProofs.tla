-------------------------- MODULE ProfileStoreProofs --------------------------
(***************************************************************************)
(* Machine-checked proofs about ProfileStore with one process at a time,   *)
(* for any number of profiles and managers, any choice of commands, and    *)
(* kills between any two file operations. (Of several processes one may    *)
(* rename a profile while another changes it: what it then copies is old.) *)
(***************************************************************************)
EXTENDS ProfileStore, SequenceTheorems, TLAPS

Data == Managers \cup {Blank}
AllNames == Names \cup {Local}

\* Unless a process has died, no context.json but those of `busy' is damaged.
Undamaged(busy) ==
  ~crashed => \A n \in Names \ busy : file[n].state \in {"absent", "whole"}

\* Unless a process has died, the active profile is the one chosen last.
Undisturbed == ~crashed => active = chosen

There(n) == n \in Names => file[n].state # "absent" \/ n \in deleted

\* Single file operations of the commands.
MkdirOp(n) == Op("mkdir", n, Blank)
OpenOp(n) == Op("open", n, Blank)
WriteOp(n, m) == Op("write", n, m)
TruncateOp == Op("truncate", NoName, Blank)
ActivateOp(n) == Op("activate", n, Blank)
RemoveOp(n) == Op("rmtree", n, Blank)
VisitOp(n) == Op("visit", n, Blank)
LoadOp(n) == Op("load", n, Blank)
RestoreOp == Op("restore", NoName, Blank)

\* What may follow the saving of profile n: nothing, its activation, or the
\* last half of a renaming.
Switch(n) == <<TruncateOp, ActivateOp(n)>>
SwitchFrom(old, n) == <<TruncateOp, ActivateOp(n), RemoveOp(old)>>
Rests(n) == {<<>>, Switch(n)} \cup {SwitchFrom(old, n) : old \in AllNames}

\* Profile `old' is still whole when it is being renamed to n with settings m.
Kept(old, n, m) == old \in Names => old # n /\ Exists(old) /\ file[old].data = m

\* The new profile n has all that the old one has.
Copied(old, n) == Exists(n) /\ (old \in Names => old # n /\ file[old].data = file[n].data)

Saving(p, n, m, rest) ==
  /\ \/ todo[p] = <<MkdirOp(n)>> \o (<<OpenOp(n)>> \o (<<WriteOp(n, m)>> \o rest))
     \/ /\ todo[p] = <<OpenOp(n)>> \o (<<WriteOp(n, m)>> \o rest)
        /\ file[n].state # "absent"
     \/ todo[p] = <<WriteOp(n, m)>> \o rest /\ file[n].state = "torn"
  /\ rest = <<>> => Undisturbed
  /\ \A old \in AllNames : rest = SwitchFrom(old, n) => Kept(old, n, m)

Resting(p) == todo[p] = <<>> /\ Undamaged({}) /\ Undisturbed

Deleting(p) ==
  /\ \E n \in Names : todo[p] = <<Op("delete", n, Blank)>> /\ Exists(n)
  /\ Undamaged({}) /\ Undisturbed /\ visit[p] = {}

Switching(p) ==
  /\ \E n \in AllNames : /\ todo[p] \in {Switch(n), <<ActivateOp(n)>>}
                         /\ n \in Names => Exists(n)
  /\ Undamaged({}) /\ visit[p] = {}

Renaming(p) ==
  /\ \E n \in Names, old \in AllNames :
       /\ todo[p] \in {SwitchFrom(old, n), <<ActivateOp(n), RemoveOp(old)>>}
       /\ Copied(old, n)
  /\ Undamaged({}) /\ visit[p] = {}

Removing(p) ==
  /\ \E old \in AllNames : /\ todo[p] = <<RemoveOp(old)>>
                           /\ active \in Names /\ Copied(old, active)
  /\ Undamaged({}) /\ Undisturbed /\ visit[p] = {}

Visiting(p) ==
  /\ \E n \in Names :
       /\ todo[p] \in {VisitOps(n),
                       <<VisitOp(n), LoadOp(n), TruncateOp, RestoreOp>>,
                       <<LoadOp(n), TruncateOp, RestoreOp>>,
                       <<TruncateOp, RestoreOp>>, <<RestoreOp>>}
       /\ file[n].state # "absent"
  /\ Undamaged({}) /\ There(kept[p]) /\ (~crashed => kept[p] = chosen)

\* Where the process is in its command, and what holds there.
Phase(p) ==
  \/ Resting(p) \/ Deleting(p) \/ Switching(p) \/ Renaming(p) \/ Removing(p) \/ Visiting(p)
  \/ /\ \E n \in Names, m \in Data : \E rest \in Rests(n) :
          Saving(p, n, m, rest) /\ Undamaged({n})
     /\ visit[p] = {}

\* A listing visits only profiles that are there.
Listed(p) == \A n \in visit[p] : file[n].state # "absent"

Inv(p) ==
  /\ TypeOK /\ NoProfileLost /\ ActiveNotDangling
  /\ Phase(p) /\ Listed(p)
-----------------------------------------------------------------------------
\* The first of a sequence of operations, and what it leaves.
LEMMA FirstOperation ==
  ASSUME NEW o \in Operations, NEW t \in Seq(Operations)
  PROVE  /\ <<o>> \o t \in Seq(Operations) /\ <<o>> \o t # <<>>
         /\ Head(<<o>> \o t) = o /\ Tail(<<o>> \o t) = t
<1> QED
  OBVIOUS

\* What short sequences leave.
LEMMA TailsOf ==
  ASSUME NEW a, NEW b, NEW c, NEW d, NEW e
  PROVE  /\ Tail(<<a>>) = <<>> /\ Tail(<<a, b>>) = <<b>> /\ Tail(<<a, b, c>>) = <<b, c>>
         /\ Tail(<<a, b, c, d>>) = <<b, c, d>> /\ Tail(<<a, b, c, d, e>>) = <<b, c, d, e>>
<1> QED
  OBVIOUS

\* The operations of the commands are operations.
LEMMA OperationTypes ==
  /\ TruncateOp \in Operations /\ RestoreOp \in Operations
  /\ \A n \in AllNames : ActivateOp(n) \in Operations /\ RemoveOp(n) \in Operations
  /\ \A n \in Names : /\ MkdirOp(n) \in Operations /\ OpenOp(n) \in Operations
                      /\ VisitOp(n) \in Operations /\ LoadOp(n) \in Operations
                      /\ Op("delete", n, Blank) \in Operations
                      /\ \A m \in Data : WriteOp(n, m) \in Operations
<1> QED
  BY DEF TruncateOp, RestoreOp, ActivateOp, RemoveOp, MkdirOp, OpenOp, VisitOp, LoadOp,
         WriteOp, Op, Operations, AllNames, Data

\* What follows a saving is a sequence of operations.
LEMMA RestTypes ==
  /\ \A n \in AllNames : Switch(n) \in Seq(Operations)
  /\ \A n, old \in AllNames : SwitchFrom(old, n) \in Seq(Operations)
  /\ \A n \in AllNames : Rests(n) \subseteq Seq(Operations)
<1>1. \A n \in AllNames : Switch(n) \in Seq(Operations)
  BY OperationTypes DEF Switch
<1>2. \A n, old \in AllNames : SwitchFrom(old, n) \in Seq(Operations)
  BY OperationTypes DEF SwitchFrom
<1>3. <<>> \in Seq(Operations)
  OBVIOUS
<1> QED
  BY <1>1, <1>2, <1>3 DEF Rests

\* A saving in front of what follows it, taken apart.
LEMMA SaveThen ==
  ASSUME NEW n \in Names, NEW m \in Data, NEW rest \in Seq(Operations)
  PROVE  LET written == <<OpenOp(n)>> \o (<<WriteOp(n, m)>> \o rest)
         IN  /\ written \in Seq(Operations)
             /\ Save(n, m) \o rest = IF file[n].state = "absent" THEN <<MkdirOp(n)>> \o written
                                                                 ELSE written
<1> DEFINE mk == <<MkdirOp(n)>>  op == <<OpenOp(n)>>  wr == <<WriteOp(n, m)>>
           both == <<OpenOp(n), WriteOp(n, m)>>
           ops == Seq(Operations)
<1>1. /\ MkdirOp(n) \in Operations /\ OpenOp(n) \in Operations /\ WriteOp(n, m) \in Operations
  BY OperationTypes
<1>2. mk \in ops /\ op \in ops /\ wr \in ops /\ both \in ops /\ <<>> \in ops
  BY <1>1
<1>3. both = op \o wr
  <2>1. op \o wr \in ops /\ Len(op \o wr) = 2 /\ (op \o wr)[1] = op[1] /\ (op \o wr)[2] = wr[1]
    <3>1. Len(op) = 1 /\ Len(wr) = 1
      OBVIOUS
    <3>2. /\ op \o wr \in ops /\ Len(op \o wr) = Len(op) + Len(wr)
          /\ \A i \in 1 .. Len(op) + Len(wr) :
               (op \o wr)[i] = IF i <= Len(op) THEN op[i] ELSE wr[i - Len(op)]
      BY <1>2, ConcatProperties
    <3> HIDE DEF op, wr
    <3> QED
      BY <3>1, <3>2
  <2>2. Len(both) = 2 /\ both[1] = op[1] /\ both[2] = wr[1]
    OBVIOUS
  <2>3. \A i \in 1 .. Len(both) : both[i] = (op \o wr)[i]
    <3> HIDE DEF both, op, wr
    <3> QED
      BY <2>1, <2>2
  <2> HIDE DEF both, op, wr
  <2> QED
    BY <1>2, <2>1, <2>2, <2>3, SeqEqual
<1>4. Save(n, m) = IF file[n].state = "absent" THEN mk \o both ELSE <<>> \o both
  BY DEF Save, MkdirOp, OpenOp, WriteOp
<1>5. (<<>> \o both) \o rest = op \o (wr \o rest)
  <2> HIDE DEF both, op, wr
  <2> QED
    BY <1>2, <1>3, ConcatEmptySeq, ConcatAssociative
<1>6. (mk \o both) \o rest = mk \o (op \o (wr \o rest))
  <2> HIDE DEF mk, both, op, wr
  <2>1. (mk \o both) \o rest = mk \o (both \o rest)
    BY <1>2, ConcatAssociative
  <2>2. both \o rest = op \o (wr \o rest)
    BY <1>2, <1>3, ConcatAssociative
  <2> QED
    BY <2>1, <2>2
<1>7. op \o (wr \o rest) \in ops
  <2> HIDE DEF op, wr
  <2> QED
    BY <1>2, ConcatProperties
<1> QED
  BY <1>4, <1>5, <1>6, <1>7

\* The operations of a renaming: a saving, an activation and a removal.
LEMMA RenameIsSaveThen ==
  ASSUME NEW old \in AllNames, NEW n \in Names, NEW m \in Data
  PROVE  RenameOps(old, n, m) = Save(n, m) \o SwitchFrom(old, n)
<1> DEFINE rm == <<RemoveOp(old)>>  sw == Switch(n)
           ops == Seq(Operations)
<1>1. /\ rm \in ops /\ sw \in ops /\ Save(n, m) \in ops
  <2>1. RemoveOp(old) \in Operations /\ MkdirOp(n) \in Operations /\ OpenOp(n) \in Operations
        /\ WriteOp(n, m) \in Operations
    BY OperationTypes
  <2>2. Save(n, m) = (IF file[n].state = "absent" THEN <<MkdirOp(n)>> ELSE <<>>)
                       \o <<OpenOp(n), WriteOp(n, m)>>
    BY DEF Save, MkdirOp, OpenOp, WriteOp
  <2>3. <<OpenOp(n), WriteOp(n, m)>> \in ops /\ <<MkdirOp(n)>> \in ops /\ <<>> \in ops
    BY <2>1
  <2> QED
    BY <2>1, <2>2, <2>3, RestTypes, ConcatProperties DEF AllNames
<1>2. sw \o rm = SwitchFrom(old, n)
  <2>1. Len(sw) = 2 /\ Len(rm) = 1 /\ sw[1] = TruncateOp /\ sw[2] = ActivateOp(n)
        /\ rm[1] = RemoveOp(old)
    BY DEF Switch
  <2>2. /\ Len(SwitchFrom(old, n)) = 3 /\ SwitchFrom(old, n)[1] = TruncateOp
        /\ SwitchFrom(old, n)[2] = ActivateOp(n) /\ SwitchFrom(old, n)[3] = RemoveOp(old)
    BY DEF SwitchFrom
  <2> HIDE DEF sw, rm
  <2>3. /\ sw \o rm \in ops /\ Len(sw \o rm) = 3
        /\ (sw \o rm)[1] = sw[1] /\ (sw \o rm)[2] = sw[2] /\ (sw \o rm)[3] = rm[1]
    <3>1. /\ sw \o rm \in ops /\ Len(sw \o rm) = Len(sw) + Len(rm)
          /\ \A i \in 1 .. Len(sw) + Len(rm) :
               (sw \o rm)[i] = IF i <= Len(sw) THEN sw[i] ELSE rm[i - Len(sw)]
      BY <1>1, ConcatProperties
    <3> QED
      BY <2>1, <3>1
  <2>4. \A i \in 1 .. Len(sw \o rm) : (sw \o rm)[i] = SwitchFrom(old, n)[i]
    BY <2>1, <2>2, <2>3
  <2>5. SwitchFrom(old, n) \in ops
    BY RestTypes DEF AllNames
  <2> QED
    BY <2>2, <2>3, <2>4, <2>5, SeqEqual
<1>3. RenameOps(old, n, m) = (Save(n, m) \o sw) \o rm
  BY DEF RenameOps, Activate, Switch, TruncateOp, ActivateOp, RemoveOp
<1>4. (Save(n, m) \o sw) \o rm = Save(n, m) \o (sw \o rm)
  <2> HIDE DEF sw, rm
  <2> QED
    BY <1>1, ConcatAssociative
<1> HIDE DEF sw, rm
<1> QED
  BY <1>2, <1>3, <1>4
-----------------------------------------------------------------------------
\* The next operation tells where the process is.
LEMMA NextOperation ==
  ASSUME NEW p \in Procs, todo[p] # <<>>
  PROVE  LET o == Head(todo[p]).op
         IN  /\ ~Resting(p)
             /\ Deleting(p) => o = "delete"
             /\ Switching(p) => o \in {"truncate", "activate"}
             /\ Renaming(p) => o \in {"truncate", "activate"}
             /\ Removing(p) => o = "rmtree"
             /\ Visiting(p) => o \in {"truncate", "visit", "load", "restore"}
             /\ \A n \in Names, m \in Data : \A rest \in Rests(n) :
                  Saving(p, n, m, rest) => o \in {"mkdir", "open", "write"}
<1>1. ~Resting(p)
  BY DEF Resting
<1>2. Deleting(p) => Head(todo[p]).op = "delete"
  BY DEF Deleting, Op
<1>3. Switching(p) => Head(todo[p]).op \in {"truncate", "activate"}
  BY DEF Switching, Switch, TruncateOp, ActivateOp, Op
<1>4. Renaming(p) => Head(todo[p]).op \in {"truncate", "activate"}
  BY DEF Renaming, SwitchFrom, TruncateOp, ActivateOp, Op
<1>5. Removing(p) => Head(todo[p]).op = "rmtree"
  BY DEF Removing, RemoveOp, Op
<1>6. Visiting(p) => Head(todo[p]).op \in {"truncate", "visit", "load", "restore"}
  BY DEF Visiting, VisitOps, VisitOp, LoadOp, TruncateOp, RestoreOp, Op
<1>7. ASSUME NEW n \in Names, NEW m \in Data, NEW rest \in Rests(n), Saving(p, n, m, rest)
      PROVE  Head(todo[p]).op \in {"mkdir", "open", "write"}
  <2>1. /\ MkdirOp(n) \in Operations /\ OpenOp(n) \in Operations /\ WriteOp(n, m) \in Operations
        /\ rest \in Seq(Operations)
    BY OperationTypes, RestTypes DEF AllNames
  <2>2. /\ <<WriteOp(n, m)>> \o rest \in Seq(Operations)
        /\ <<OpenOp(n)>> \o (<<WriteOp(n, m)>> \o rest) \in Seq(Operations)
    BY <2>1, FirstOperation
  <2>3. Head(todo[p]) \in {MkdirOp(n), OpenOp(n), WriteOp(n, m)}
    <3>1. Head(<<WriteOp(n, m)>> \o rest) = WriteOp(n, m)
      BY <2>1, FirstOperation
    <3>2. Head(<<OpenOp(n)>> \o (<<WriteOp(n, m)>> \o rest)) = OpenOp(n)
      BY <2>1, <2>2, FirstOperation
    <3>3. Head(<<MkdirOp(n)>> \o (<<OpenOp(n)>> \o (<<WriteOp(n, m)>> \o rest))) = MkdirOp(n)
      BY <2>1, <2>2, FirstOperation
    <3> QED
      BY <1>7, <3>1, <3>2, <3>3 DEF Saving
  <2> QED
    BY <2>3 DEF MkdirOp, OpenOp, WriteOp, Op
<1> QED
  BY <1>1, <1>2, <1>3, <1>4, <1>5, <1>6, <1>7

\* The operations of a saving, one after the other.
LEMMA SavingNext ==
  ASSUME NEW p \in Procs, NEW n \in Names, NEW m \in Data, NEW rest \in Rests(n),
         Saving(p, n, m, rest)
  PROVE  LET write == <<WriteOp(n, m)>> \o rest
             open == <<OpenOp(n)>> \o write
         IN  /\ todo[p] # <<>> /\ Does(p) \in {MkdirOp(n), OpenOp(n), WriteOp(n, m)}
             /\ rest \in Seq(Operations) /\ write \in Seq(Operations) /\ open \in Seq(Operations)
             /\ Does(p).op = "mkdir" => Does(p) = MkdirOp(n) /\ Tail(todo[p]) = open
             /\ Does(p).op = "open" => /\ Does(p) = OpenOp(n) /\ Tail(todo[p]) = write
                                       /\ file[n].state # "absent"
             /\ Does(p).op = "write" => /\ Does(p) = WriteOp(n, m) /\ Tail(todo[p]) = rest
                                        /\ file[n].state = "torn"
<1> DEFINE write == <<WriteOp(n, m)>> \o rest
           open == <<OpenOp(n)>> \o write
           mkdir == <<MkdirOp(n)>> \o open
<1>1. /\ MkdirOp(n) \in Operations /\ OpenOp(n) \in Operations /\ WriteOp(n, m) \in Operations
      /\ rest \in Seq(Operations)
  BY OperationTypes, RestTypes DEF AllNames
<1>2. /\ write \in Seq(Operations) /\ write # <<>>
      /\ Head(write) = WriteOp(n, m) /\ Tail(write) = rest
  BY <1>1, FirstOperation
<1> HIDE DEF write
<1>3. /\ open \in Seq(Operations) /\ open # <<>>
      /\ Head(open) = OpenOp(n) /\ Tail(open) = write
  BY <1>1, <1>2, FirstOperation
<1> HIDE DEF open
<1>4. mkdir # <<>> /\ Head(mkdir) = MkdirOp(n) /\ Tail(mkdir) = open
  BY <1>1, <1>3, FirstOperation
<1> HIDE DEF mkdir
<1>5. \/ todo[p] = mkdir
      \/ todo[p] = open /\ file[n].state # "absent"
      \/ todo[p] = write /\ file[n].state = "torn"
  BY DEF Saving, mkdir, open, write
<1>6. /\ todo[p] # <<>> /\ Does(p) \in {MkdirOp(n), OpenOp(n), WriteOp(n, m)}
      /\ Does(p).op = "mkdir" => Does(p) = MkdirOp(n) /\ Tail(todo[p]) = open
      /\ Does(p).op = "open" => /\ Does(p) = OpenOp(n) /\ Tail(todo[p]) = write
                                /\ file[n].state # "absent"
      /\ Does(p).op = "write" => /\ Does(p) = WriteOp(n, m) /\ Tail(todo[p]) = rest
                                 /\ file[n].state = "torn"
  <2>1. MkdirOp(n).op = "mkdir" /\ OpenOp(n).op = "open" /\ WriteOp(n, m).op = "write"
    BY DEF MkdirOp, OpenOp, WriteOp, Op
  <2>2. CASE todo[p] = mkdir
    BY <1>4, <2>1, <2>2 DEF Does
  <2>3. CASE todo[p] = open /\ file[n].state # "absent"
    BY <1>3, <2>1, <2>3 DEF Does
  <2>4. CASE todo[p] = write /\ file[n].state = "torn"
    BY <1>2, <2>1, <2>4 DEF Does
  <2> QED
    BY <1>5, <2>2, <2>3, <2>4
<1> QED
  BY <1>1, <1>2, <1>3, <1>6 DEF open, write

\* A process that creates, opens or writes a context.json is saving a profile.
LEMMA IsSaving ==
  ASSUME NEW p \in Procs, Inv(p), todo[p] # <<>>, Does(p).op \in {"mkdir", "open", "write"}
  PROVE  /\ \E n \in Names, m \in Data : \E rest \in Rests(n) :
              Saving(p, n, m, rest) /\ Undamaged({n})
         /\ visit[p] = {}
<1> QED
  BY NextOperation DEF Inv, Phase, Does

\* A directory is made for a profile that had none.
LEMMA MakeDirStep ==
  ASSUME NEW p, Procs = {p}, Inv(p), MakeDir(p)
  PROVE  Inv(p)'
<1>1. todo[p] # <<>> /\ Does(p).op = "mkdir" /\ todo' = [todo EXCEPT ![p] = Tail(@)]
  BY DEF MakeDir, Doing, Does
<1>2. PICK n \in Names, m \in Data : \E rest \in Rests(n) :
        Saving(p, n, m, rest) /\ Undamaged({n}) /\ visit[p] = {}
  BY <1>1, IsSaving
<1>3. PICK rest \in Rests(n) : Saving(p, n, m, rest) /\ Undamaged({n}) /\ visit[p] = {}
  BY <1>2
<1> DEFINE open == <<OpenOp(n)>> \o (<<WriteOp(n, m)>> \o rest)
<1>4. Does(p) = MkdirOp(n) /\ Tail(todo[p]) = open /\ open \in Seq(Operations)
  BY <1>1, <1>3, SavingNext DEF Does
<1> HIDE DEF open
<1>5. /\ IF file[n].state = "absent" THEN Put(n, "dir", Blank) ELSE UNCHANGED file
      /\ UNCHANGED <<active, env, visit, kept, running, history>>
  BY <1>4 DEF MakeDir, MkdirOp, Op
<1>6. TypeOK
  BY DEF Inv
<1>7. /\ todo' \in [Procs -> Seq(Operations)] /\ todo'[p] = open
  BY <1>1, <1>4, <1>6 DEF TypeOK
<1>8. /\ file' \in [Names -> [state : States, data : Data]]
      /\ file'[n].state # "absent"
      /\ \A k \in Names : k # n \/ Exists(k) => file'[k] = file[k]
  BY <1>5, <1>6 DEF TypeOK, Put, States, Data, Exists
<1>9. TypeOK'
  BY <1>1, <1>5, <1>6, <1>7, <1>8 DEF TypeOK, history, Data
<1>10. NoProfileLost'
  BY <1>5, <1>8 DEF Inv, NoProfileLost, Exists, history
<1>11. ActiveNotDangling' /\ Listed(p)'
  BY <1>3, <1>5, <1>8 DEF Inv, ActiveNotDangling, Listed, history
<1>12. Phase(p)'
  <2>1. Undamaged({n})' /\ visit'[p] = {}
    BY <1>3, <1>5, <1>8 DEF Undamaged, history
  <2>2. \A old \in AllNames : rest = SwitchFrom(old, n) => Kept(old, n, m)'
    BY <1>3, <1>8 DEF Saving, Kept, Exists
  <2>3. rest = <<>> => Undisturbed'
    BY <1>3, <1>5 DEF Saving, Undisturbed, history
  <2>4. Saving(p, n, m, rest)'
    BY <1>7, <1>8, <2>2, <2>3 DEF Saving, open
  <2> QED
    BY <2>1, <2>4 DEF Phase
<1> QED
  BY <1>9, <1>10, <1>11, <1>12 DEF Inv

\* context.json is emptied; its old settings still count as the user's.
LEMMA OpenContextStep ==
  ASSUME NEW p, Procs = {p}, Inv(p), OpenContext(p)
  PROVE  Inv(p)'
<1>1. todo[p] # <<>> /\ Does(p).op = "open"
  BY DEF OpenContext
<1>2. PICK n \in Names, m \in Data : \E rest \in Rests(n) :
        Saving(p, n, m, rest) /\ Undamaged({n}) /\ visit[p] = {}
  BY <1>1, IsSaving
<1>3. PICK rest \in Rests(n) : Saving(p, n, m, rest) /\ Undamaged({n}) /\ visit[p] = {}
  BY <1>2
<1> DEFINE write == <<WriteOp(n, m)>> \o rest
<1>4. /\ Does(p) = OpenOp(n) /\ Tail(todo[p]) = write /\ write \in Seq(Operations)
      /\ file[n].state # "absent"
  BY <1>1, <1>3, SavingNext
<1> HIDE DEF write
<1>5. /\ todo' = [todo EXCEPT ![p] = Tail(@)] /\ Put(n, "torn", file[n].data)
      /\ UNCHANGED <<active, env, visit, kept, running, history>>
  BY <1>4 DEF OpenContext, OpenOp, Op
<1>6. TypeOK
  BY DEF Inv
<1>7. /\ todo' \in [Procs -> Seq(Operations)] /\ todo'[p] = write
  BY <1>4, <1>5, <1>6 DEF TypeOK
<1>8. /\ file' \in [Names -> [state : States, data : Data]]
      /\ file'[n] = [state |-> "torn", data |-> file[n].data]
      /\ \A k \in Names : k # n => file'[k] = file[k]
  BY <1>5, <1>6 DEF TypeOK, Put, States, Data
<1>9. TypeOK'
  BY <1>1, <1>5, <1>6, <1>7, <1>8 DEF TypeOK, history, Data
<1>10. NoProfileLost'
  BY <1>5, <1>8 DEF Inv, NoProfileLost, Exists, history
<1>11. ActiveNotDangling' /\ Listed(p)'
  BY <1>3, <1>5, <1>8 DEF Inv, ActiveNotDangling, Listed, history
<1>12. Phase(p)'
  <2>1. Undamaged({n})' /\ visit'[p] = {}
    BY <1>3, <1>5, <1>8 DEF Undamaged, history
  <2>2. \A old \in AllNames : rest = SwitchFrom(old, n) => Kept(old, n, m)'
    BY <1>3, <1>8 DEF Saving, Kept, Exists
  <2>3. rest = <<>> => Undisturbed'
    BY <1>3, <1>5 DEF Saving, Undisturbed, history
  <2>4. Saving(p, n, m, rest)'
    BY <1>7, <1>8, <2>2, <2>3 DEF Saving, write
  <2> QED
    BY <2>1, <2>4 DEF Phase
<1> QED
  BY <1>9, <1>10, <1>11, <1>12 DEF Inv

\* context.json is written: the profile is whole, and what follows may rely on
\* it.
LEMMA WriteContextStep ==
  ASSUME NEW p, Procs = {p}, Inv(p), WriteContext(p)
  PROVE  Inv(p)'
<1>1. /\ todo[p] # <<>> /\ Does(p).op = "write" /\ todo' = [todo EXCEPT ![p] = Tail(@)]
  BY DEF WriteContext, Doing, Does
<1>2. PICK n \in Names, m \in Data : \E rest \in Rests(n) :
        Saving(p, n, m, rest) /\ Undamaged({n}) /\ visit[p] = {}
  BY <1>1, IsSaving
<1>3. PICK rest \in Rests(n) : Saving(p, n, m, rest) /\ Undamaged({n}) /\ visit[p] = {}
  BY <1>2
<1>4. /\ Does(p) = WriteOp(n, m) /\ Tail(todo[p]) = rest /\ rest \in Seq(Operations)
      /\ file[n].state = "torn"
  BY <1>1, <1>3, SavingNext
<1>5. /\ Put(n, "whole", m)
      /\ owned' = (owned \ {file[n].data}) \cup ({m} \ {Blank})
      /\ deleted' = deleted \ {n}
      /\ UNCHANGED <<active, env, visit, kept, running, chosen, strayed, crashed>>
  BY <1>4 DEF WriteContext, WriteOp, Op
<1>6. TypeOK
  BY DEF Inv
<1>7. /\ todo' \in [Procs -> Seq(Operations)] /\ todo'[p] = rest
  BY <1>1, <1>4, <1>6 DEF TypeOK
<1>8. /\ file' \in [Names -> [state : States, data : Data]]
      /\ file'[n] = [state |-> "whole", data |-> m]
      /\ \A k \in Names : k # n => file'[k] = file[k]
  BY <1>5, <1>6 DEF TypeOK, Put, States, Data
<1>9. TypeOK'
  <2>1. owned' \subseteq Managers /\ deleted' \subseteq Names
    BY <1>5, <1>6 DEF TypeOK, Data
  <2> QED
    BY <1>1, <1>5, <1>6, <1>7, <1>8, <2>1 DEF TypeOK, Data
<1>10. NoProfileLost'
  <2> SUFFICES ASSUME NEW k \in owned' PROVE \E l \in Names : Exists(l)' /\ file'[l].data = k
    BY DEF NoProfileLost
  <2>1. CASE k = m
    BY <1>8, <2>1 DEF Exists
  <2>2. CASE k # m
    <3>1. k \in owned /\ k # file[n].data
      BY <1>5, <2>2
    <3>2. PICK l \in Names : Exists(l) /\ file[l].data = k
      BY <3>1 DEF Inv, NoProfileLost
    <3> QED
      BY <1>8, <3>1, <3>2 DEF Exists
  <2> QED
    BY <2>1, <2>2
<1>11. ActiveNotDangling' /\ Listed(p)'
  BY <1>3, <1>5, <1>8 DEF Inv, ActiveNotDangling, Listed
<1>12. Phase(p)'
  <2>1. Undamaged({})' /\ visit'[p] = {}
    BY <1>3, <1>5, <1>8 DEF Undamaged
  <2>2. CASE rest = <<>>
    BY <1>3, <1>5, <1>7, <2>1, <2>2 DEF Saving, Phase, Resting, Undisturbed
  <2>3. CASE rest = Switch(n)
    BY <1>7, <1>8, <2>1, <2>3 DEF Phase, Switching, AllNames, Exists
  <2>4. ASSUME NEW old \in AllNames, rest = SwitchFrom(old, n)
        PROVE  Phase(p)'
    <3>1. Copied(old, n)'
      BY <1>3, <1>8, <2>4 DEF Saving, Kept, Copied, Exists
    <3> QED
      BY <1>7, <2>1, <2>4, <3>1 DEF Phase, Renaming
  <2> QED
    BY <2>2, <2>3, <2>4 DEF Rests
<1> QED
  BY <1>9, <1>10, <1>11, <1>12 DEF Inv

\* active.profile is emptied, to be written at once.
LEMMA TruncateActiveStep ==
  ASSUME NEW p, Procs = {p}, Inv(p), TruncateActive(p)
  PROVE  Inv(p)'
<1>1. /\ todo[p] # <<>> /\ Does(p).op = "truncate" /\ todo' = [todo EXCEPT ![p] = Tail(@)]
      /\ active' = NoName /\ UNCHANGED <<file, env, visit, kept, running, history>>
  BY DEF TruncateActive, Doing, Does
<1>2. TypeOK
  BY DEF Inv
<1>3. /\ todo' \in [Procs -> Seq(Operations)] /\ todo'[p] = Tail(todo[p])
  BY <1>1, <1>2 DEF TypeOK
<1>4. TypeOK'
  BY <1>1, <1>2, <1>3 DEF TypeOK, history
<1>5. NoProfileLost' /\ Listed(p)'
  BY <1>1 DEF Inv, NoProfileLost, Exists, Listed, history
<1>6. ActiveNotDangling'
  BY <1>1, NamesAssumption DEF ActiveNotDangling
<1>7. Undamaged({}) => Undamaged({})'
  BY <1>1 DEF Undamaged, history
<1>8. Switching(p) \/ Renaming(p) \/ Visiting(p)
  BY <1>1, NextOperation DEF Inv, Phase, Does
<1>9. ASSUME Switching(p) PROVE Phase(p)'
  <2>1. PICK n \in AllNames : /\ todo[p] \in {Switch(n), <<ActivateOp(n)>>}
                              /\ n \in Names => Exists(n)
    BY <1>9 DEF Switching
  <2>2. todo[p] = <<TruncateOp, ActivateOp(n)>>
    BY <1>1, <2>1 DEF Switch, ActivateOp, Op, Does
  <2>3. todo'[p] = <<ActivateOp(n)>>
    BY <1>3, <2>2, TailsOf
  <2>4. Switching(p)'
    BY <1>1, <1>7, <1>9, <2>1, <2>3 DEF Switching, Exists
  <2> QED
    BY <2>4 DEF Phase
<1>10. ASSUME Renaming(p) PROVE Phase(p)'
  <2>1. PICK n \in Names, old \in AllNames :
          /\ todo[p] \in {SwitchFrom(old, n), <<ActivateOp(n), RemoveOp(old)>>}
          /\ Copied(old, n)
    BY <1>10 DEF Renaming
  <2>2. todo[p] = <<TruncateOp, ActivateOp(n), RemoveOp(old)>>
    BY <1>1, <2>1 DEF SwitchFrom, ActivateOp, Op, Does
  <2>3. todo'[p] = <<ActivateOp(n), RemoveOp(old)>>
    BY <1>3, <2>2, TailsOf
  <2>4. Copied(old, n)'
    BY <1>1, <2>1 DEF Copied, Exists
  <2>5. Renaming(p)'
    BY <1>1, <1>7, <1>10, <2>3, <2>4 DEF Renaming
  <2> QED
    BY <2>5 DEF Phase
<1>11. ASSUME Visiting(p) PROVE Phase(p)'
  <2>1. PICK n \in Names :
          /\ todo[p] \in {VisitOps(n),
                          <<VisitOp(n), LoadOp(n), TruncateOp, RestoreOp>>,
                          <<LoadOp(n), TruncateOp, RestoreOp>>,
                          <<TruncateOp, RestoreOp>>, <<RestoreOp>>}
          /\ file[n].state # "absent"
    BY <1>11 DEF Visiting
  <2>2. VisitOps(n) = <<TruncateOp, VisitOp(n), LoadOp(n), TruncateOp, RestoreOp>>
    BY DEF VisitOps, TruncateOp, VisitOp, LoadOp, RestoreOp
  <2>3. todo[p] = VisitOps(n) \/ todo[p] = <<TruncateOp, RestoreOp>>
    BY <1>1, <2>1 DEF VisitOp, LoadOp, RestoreOp, Op, Does
  <2>4. \/ todo'[p] = <<VisitOp(n), LoadOp(n), TruncateOp, RestoreOp>>
        \/ todo'[p] = <<RestoreOp>>
    <3>1. CASE todo[p] = VisitOps(n)
      <4>1. Tail(VisitOps(n)) = <<VisitOp(n), LoadOp(n), TruncateOp, RestoreOp>>
        BY <2>2, TailsOf
      <4> QED
        BY <1>3, <3>1, <4>1
    <3>2. CASE todo[p] = <<TruncateOp, RestoreOp>>
      BY <1>3, <3>2, TailsOf
    <3> QED
      BY <2>3, <3>1, <3>2
  <2>5. There(kept[p])' /\ (~crashed' => kept'[p] = chosen')
    BY <1>1, <1>11 DEF Visiting, There, history
  <2>6. Visiting(p)'
    BY <1>1, <1>7, <1>11, <2>1, <2>4, <2>5 DEF Visiting
  <2> QED
    BY <2>6 DEF Phase
<1> QED
  BY <1>4, <1>5, <1>6, <1>8, <1>9, <1>10, <1>11 DEF Inv

\* What a profile of that name is loaded as.
LEMMA LoadedTypes ==
  ASSUME TypeOK, NEW n \in AllNames \cup {NoName}
  PROVE  Loaded(n) \in Profiles
<1> QED
  BY DEF TypeOK, Loaded, Unused, Profiles, AllNames

\* active.profile is written: by an activation or a listing.
LEMMA WriteActiveStep ==
  ASSUME NEW p, Procs = {p}, Inv(p), WriteActive(p)
  PROVE  Inv(p)'
<1> DEFINE o == Does(p)
           n == IF o.op = "restore" THEN kept[p] ELSE o.name
<1>1. /\ todo[p] # <<>> /\ o.op \in {"activate", "visit", "restore"}
      /\ active' = n /\ env' = [env EXCEPT ![p] = Loaded(n)]
      /\ IF Unreadable(n)
         THEN todo' = [todo EXCEPT ![p] = <<>>] /\ visit' = [visit EXCEPT ![p] = {}]
         ELSE todo' = [todo EXCEPT ![p] = Tail(@)] /\ UNCHANGED visit
      /\ chosen' = IF o.op = "activate" THEN n ELSE chosen
      /\ UNCHANGED <<file, kept, running, owned, deleted, strayed, crashed>>
  BY DEF WriteActive
<1>2. TypeOK
  BY DEF Inv
<1>3. Tail(todo[p]) \in Seq(Operations)
  BY <1>1, <1>2, HeadTailProperties DEF TypeOK
<1>4. /\ todo' \in [Procs -> Seq(Operations)] /\ visit' \in [Procs -> SUBSET Names]
      /\ todo'[p] = IF Unreadable(n) THEN <<>> ELSE Tail(todo[p])
      /\ visit'[p] = IF Unreadable(n) THEN {} ELSE visit[p]
  <2>1. <<>> \in Seq(Operations)
    OBVIOUS
  <2> QED
    BY <1>1, <1>2, <1>3, <2>1 DEF TypeOK
<1>5. NoProfileLost' /\ Listed(p)' /\ (Undamaged({}) => Undamaged({})')
  BY <1>1, <1>4 DEF Inv, NoProfileLost, Exists, Listed, Undamaged
<1>6. ASSUME n \in AllNames \cup {NoName}, o.op = "activate" => n \in AllNames, There(n)
      PROVE  TypeOK' /\ ActiveNotDangling'
  <2>1. Loaded(n) \in Profiles
    BY <1>2, <1>6, LoadedTypes
  <2>2. active' \in AllNames \cup {NoName} /\ chosen' \in AllNames
    BY <1>1, <1>2, <1>6 DEF TypeOK, AllNames
  <2>3. env' \in [Procs -> Profiles]
    BY <1>1, <1>2, <2>1 DEF TypeOK
  <2> HIDE DEF n, o
  <2>4. TypeOK'
    BY <1>1, <1>2, <1>4, <2>2, <2>3 DEF TypeOK, AllNames
  <2>5. ActiveNotDangling'
    BY <1>1, <1>6 DEF ActiveNotDangling, There
  <2> QED
    BY <2>4, <2>5
<1>7. Switching(p) \/ Renaming(p) \/ Visiting(p)
  BY <1>1, NextOperation DEF Inv, Phase, Does
<1>8. CASE Switching(p)
  <2>1. PICK k \in AllNames : /\ todo[p] \in {Switch(k), <<ActivateOp(k)>>}
                              /\ k \in Names => Exists(k)
    BY <1>8 DEF Switching
  <2>2. todo[p] = <<ActivateOp(k)>> /\ o = ActivateOp(k)
    BY <1>1, <2>1 DEF Switch, TruncateOp, Op, Does
  <2>3. n = k /\ o.op = "activate"
    BY <2>2 DEF ActivateOp, Op
  <2>4. todo'[p] = <<>>
    BY <1>4, <2>2, TailsOf
  <2>5. There(k)
    BY <2>1 DEF There, Exists
  <2>6. Resting(p)'
    BY <1>1, <1>5, <1>8, <2>3, <2>4 DEF Resting, Switching, Undisturbed
  <2> QED
    BY <1>5, <1>6, <2>3, <2>5, <2>6 DEF Inv, Phase
<1>9. CASE Renaming(p)
  <2>1. PICK k \in Names, old \in AllNames :
          /\ todo[p] \in {SwitchFrom(old, k), <<ActivateOp(k), RemoveOp(old)>>}
          /\ Copied(old, k)
    BY <1>9 DEF Renaming
  <2>2. todo[p] = <<ActivateOp(k), RemoveOp(old)>> /\ o = ActivateOp(k)
    BY <1>1, <2>1 DEF SwitchFrom, TruncateOp, Op, Does
  <2>3. n = k /\ o.op = "activate" /\ k \in AllNames
    BY <2>2 DEF ActivateOp, Op, AllNames
  <2>4. todo'[p] = <<>> \/ todo'[p] = <<RemoveOp(old)>>
    BY <1>4, <2>2, TailsOf
  <2>5. There(k)
    BY <2>1 DEF There, Copied, Exists
  <2>6. Undamaged({})' /\ Undisturbed' /\ visit'[p] = {} /\ active' \in Names
    BY <1>1, <1>4, <1>5, <1>9, <2>3 DEF Renaming, Undisturbed
  <2>7. Copied(old, active)'
    BY <1>1, <2>1, <2>3 DEF Copied, Exists
  <2>8. Resting(p)' \/ Removing(p)'
    BY <2>4, <2>6, <2>7 DEF Resting, Removing
  <2> QED
    BY <1>5, <1>6, <2>3, <2>5, <2>8 DEF Inv, Phase
<1>10. CASE Visiting(p)
  <2>1. PICK k \in Names :
          /\ todo[p] \in {VisitOps(k),
                          <<VisitOp(k), LoadOp(k), TruncateOp, RestoreOp>>,
                          <<LoadOp(k), TruncateOp, RestoreOp>>,
                          <<TruncateOp, RestoreOp>>, <<RestoreOp>>}
          /\ file[k].state # "absent"
    BY <1>10 DEF Visiting
  <2>2. VisitOps(k) = <<TruncateOp, VisitOp(k), LoadOp(k), TruncateOp, RestoreOp>>
    BY DEF VisitOps, TruncateOp, VisitOp, LoadOp, RestoreOp
  <2>3. Undamaged({}) /\ There(kept[p]) /\ (~crashed => kept[p] = chosen)
    BY <1>10 DEF Visiting
  <2>4. \/ todo[p] = <<VisitOp(k), LoadOp(k), TruncateOp, RestoreOp>> /\ o = VisitOp(k)
        \/ todo[p] = <<RestoreOp>> /\ o = RestoreOp
    BY <1>1, <2>1, <2>2 DEF TruncateOp, LoadOp, Op, Does
  <2>5. CASE o = VisitOp(k) /\ todo[p] = <<VisitOp(k), LoadOp(k), TruncateOp, RestoreOp>>
    <3>1. n = k /\ o.op = "visit" /\ k \in AllNames /\ There(k)
      BY <2>1, <2>5 DEF VisitOp, Op, AllNames, There
    <3>2. /\ UNCHANGED <<file, kept, deleted, crashed, chosen>>
          /\ Undamaged({})'
      BY <1>1, <1>5, <2>3, <3>1
    <3>3. CASE Unreadable(k)
      <4>1. crashed
        BY <2>3, <3>3 DEF Undamaged, Unreadable
      <4>2. todo'[p] = <<>>
        BY <1>4, <3>1, <3>3
      <4>3. Resting(p)'
        BY <3>2, <4>1, <4>2 DEF Resting, Undisturbed
      <4> QED
        BY <1>5, <1>6, <3>1, <4>3 DEF Inv, Phase
    <3>4. CASE ~Unreadable(k)
      <4>1. todo'[p] = <<LoadOp(k), TruncateOp, RestoreOp>>
        BY <1>4, <2>5, <3>1, <3>4, TailsOf
      <4>2. There(kept[p])' /\ (~crashed' => kept'[p] = chosen')
        BY <2>3, <3>2 DEF There
      <4>3. Visiting(p)'
        BY <2>1, <3>2, <4>1, <4>2 DEF Visiting
      <4> QED
        BY <1>5, <1>6, <3>1, <4>3 DEF Inv, Phase
    <3> QED
      BY <3>3, <3>4
  <2>6. CASE o = RestoreOp /\ todo[p] = <<RestoreOp>>
    <3>1. n = kept[p] /\ o.op = "restore"
      BY <2>6 DEF RestoreOp, Op
    <3>2. kept[p] \in AllNames \cup {NoName}
      BY <1>2 DEF TypeOK, AllNames
    <3>3. todo'[p] = <<>>
      BY <1>4, <2>6, TailsOf
    <3>4. Resting(p)'
      BY <1>1, <1>5, <2>3, <3>1, <3>3 DEF Resting, Undisturbed
    <3> QED
      BY <1>5, <1>6, <2>3, <3>1, <3>2, <3>4 DEF Inv, Phase
  <2> QED
    BY <2>4, <2>5, <2>6
<1> QED
  BY <1>7, <1>8, <1>9, <1>10

\* A listed profile is loaded; without a whole context.json the listing ends.
LEMMA LoadListedStep ==
  ASSUME NEW p, Procs = {p}, Inv(p), LoadListed(p)
  PROVE  Inv(p)'
<1>1. /\ todo[p] # <<>> /\ Does(p).op = "load"
      /\ IF file[Does(p).name].state = "whole"
         THEN todo' = [todo EXCEPT ![p] = Tail(@)] /\ UNCHANGED visit
         ELSE todo' = [todo EXCEPT ![p] = <<>>] /\ visit' = [visit EXCEPT ![p] = {}]
      /\ UNCHANGED <<disk, env, kept, running, history>>
  BY DEF LoadListed
<1>2. TypeOK
  BY DEF Inv
<1>3. Visiting(p)
  BY <1>1, NextOperation DEF Inv, Phase, Does
<1>4. PICK k \in Names :
        /\ todo[p] \in {VisitOps(k),
                        <<VisitOp(k), LoadOp(k), TruncateOp, RestoreOp>>,
                        <<LoadOp(k), TruncateOp, RestoreOp>>,
                        <<TruncateOp, RestoreOp>>, <<RestoreOp>>}
        /\ file[k].state # "absent"
  BY <1>3 DEF Visiting
<1>5. VisitOps(k) = <<TruncateOp, VisitOp(k), LoadOp(k), TruncateOp, RestoreOp>>
  BY DEF VisitOps, TruncateOp, VisitOp, LoadOp, RestoreOp
<1>6. todo[p] = <<LoadOp(k), TruncateOp, RestoreOp>> /\ Does(p) = LoadOp(k)
  BY <1>1, <1>4, <1>5 DEF TruncateOp, VisitOp, RestoreOp, Op, Does
<1>7. Does(p).name = k
  BY <1>6 DEF LoadOp, Op
<1>8. /\ <<TruncateOp, RestoreOp>> \in Seq(Operations) /\ <<>> \in Seq(Operations)
      /\ Tail(todo[p]) = <<TruncateOp, RestoreOp>>
  BY <1>6, OperationTypes, TailsOf
<1>9. /\ todo' \in [Procs -> Seq(Operations)] /\ visit' \in [Procs -> SUBSET Names]
      /\ todo'[p] = IF file[k].state = "whole" THEN <<TruncateOp, RestoreOp>> ELSE <<>>
      /\ visit'[p] \subseteq visit[p]
  <2>1. todo \in [Procs -> Seq(Operations)] /\ visit \in [Procs -> SUBSET Names]
    BY <1>2 DEF TypeOK
  <2>2. CASE file[k].state = "whole"
    BY <1>1, <1>7, <1>8, <2>1, <2>2
  <2>3. CASE file[k].state # "whole"
    BY <1>1, <1>7, <1>8, <2>1, <2>3
  <2> QED
    BY <2>2, <2>3
<1>10. TypeOK'
  BY <1>1, <1>2, <1>9 DEF TypeOK, disk, history
<1>11. NoProfileLost' /\ ActiveNotDangling' /\ Listed(p)'
  BY <1>1, <1>9 DEF Inv, NoProfileLost, Exists, ActiveNotDangling, Listed, disk, history
<1>12. Undamaged({}) /\ Undamaged({})'
  BY <1>1, <1>3 DEF Visiting, Undamaged, disk, history
<1>13. CASE file[k].state = "whole"
  <2>1. There(kept[p])' /\ (~crashed' => kept'[p] = chosen')
    BY <1>1, <1>3 DEF Visiting, There, disk, history
  <2>2. Visiting(p)'
    BY <1>1, <1>4, <1>9, <1>12, <1>13, <2>1 DEF Visiting, disk
  <2> QED
    BY <1>10, <1>11, <2>2 DEF Inv, Phase
<1>14. CASE file[k].state # "whole"
  <2>1. crashed /\ crashed' = crashed
    BY <1>1, <1>4, <1>12, <1>14 DEF Undamaged, history
  <2>2. Resting(p)'
    BY <1>9, <1>12, <1>14, <2>1 DEF Resting, Undisturbed
  <2> QED
    BY <1>10, <1>11, <2>2 DEF Inv, Phase
<1> QED
  BY <1>13, <1>14

\* A profile goes: deleted by the user, or after all it has was copied.
LEMMA RemoveTreeStep ==
  ASSUME NEW p, Procs = {p}, Inv(p), RemoveTree(p)
  PROVE  Inv(p)'
<1> DEFINE n == Does(p).name
<1>1. /\ todo[p] # <<>> /\ Does(p).op \in {"delete", "rmtree"}
      /\ todo' = [todo EXCEPT ![p] = Tail(@)]
      /\ Does(p).op = "delete" => /\ owned' = owned \ {file[n].data}
                                  /\ deleted' = deleted \cup {n}
      /\ Does(p).op = "rmtree" => UNCHANGED <<owned, deleted>>
      /\ IF n \in Names /\ Exists(n) THEN file' = [file EXCEPT ![n] = Absent]
                                     ELSE UNCHANGED file
      /\ UNCHANGED <<active, env, visit, kept, running, chosen, strayed, crashed>>
  BY DEF RemoveTree, Doing, Does
<1>2. TypeOK
  BY DEF Inv
<1>3. Deleting(p) \/ Removing(p)
  BY <1>1, NextOperation DEF Inv, Phase, Does
<1>4. PICK o \in Operations : /\ todo[p] = <<o>> /\ Does(p) = o
                              /\ o.name \in AllNames
                              /\ Deleting(p) => o.op = "delete" /\ n \in Names /\ Exists(n)
                              /\ Removing(p) => o.op = "rmtree" /\ active \in Names
                                                /\ Copied(n, active)
  <2>1. CASE Deleting(p)
    <3>1. PICK k \in Names : todo[p] = <<Op("delete", k, Blank)>> /\ Exists(k)
      BY <2>1 DEF Deleting
    <3>2. Does(p) = Op("delete", k, Blank) /\ Does(p).name = k /\ Does(p).op = "delete"
      BY <3>1 DEF Does, Op
    <3>3. ~Removing(p)
      BY <1>1, <3>2, NextOperation DEF Does
    <3> QED
      BY <3>1, <3>2, <3>3, OperationTypes DEF AllNames
  <2>2. CASE Removing(p)
    <3>1. PICK k \in AllNames : todo[p] = <<RemoveOp(k)>> /\ active \in Names /\ Copied(k, active)
      BY <2>2 DEF Removing
    <3>2. Does(p) = RemoveOp(k) /\ Does(p).name = k /\ Does(p).op = "rmtree"
      BY <3>1 DEF Does, RemoveOp, Op
    <3>3. ~Deleting(p)
      BY <1>1, <3>2, NextOperation DEF Does
    <3> QED
      BY <3>1, <3>2, <3>3, OperationTypes
  <2> QED
    BY <1>3, <2>1, <2>2
<1> HIDE DEF n
<1>5. todo' \in [Procs -> Seq(Operations)] /\ todo'[p] = <<>>
  <2>1. Tail(todo[p]) = <<>> /\ <<>> \in Seq(Operations)
    BY <1>4, TailsOf
  <2> QED
    BY <1>1, <1>2, <2>1 DEF TypeOK
<1>6. /\ file' \in [Names -> [state : States, data : Data]]
      /\ \A k \in Names : k # n => file'[k] = file[k]
      /\ \A k \in Names : file'[k] = file[k] \/ (k = n /\ file'[k].state = "absent")
  BY <1>1, <1>2 DEF TypeOK, Absent, States, Data
<1>7. owned' \subseteq owned /\ deleted' \subseteq Names /\ deleted \subseteq deleted'
  <2>1. deleted \subseteq Names
    BY <1>2 DEF TypeOK
  <2>2. CASE Deleting(p)
    BY <1>1, <1>4, <2>1, <2>2
  <2>3. CASE Removing(p)
    BY <1>1, <1>4, <2>1, <2>3
  <2> QED
    BY <1>3, <2>2, <2>3
<1>8. TypeOK'
  BY <1>1, <1>2, <1>5, <1>6, <1>7 DEF TypeOK, Data
<1>9. visit[p] = {} /\ Undamaged({}) /\ Undisturbed
  BY <1>3 DEF Deleting, Removing
<1>10. Listed(p)' /\ Resting(p)'
  BY <1>1, <1>5, <1>6, <1>9 DEF Listed, Resting, Undamaged, Undisturbed
<1>11. CASE Deleting(p)
  <2>1. owned' = owned \ {file[n].data} /\ deleted' = deleted \cup {n}
    BY <1>1, <1>4, <1>11
  <2>2. NoProfileLost'
    BY <1>6, <2>1 DEF Inv, NoProfileLost, Exists
  <2>3. ActiveNotDangling'
    BY <1>1, <1>6, <2>1 DEF Inv, ActiveNotDangling
  <2> QED
    BY <1>8, <1>10, <2>2, <2>3 DEF Inv, Phase
<1>12. CASE Removing(p)
  <2>1. /\ active \in Names /\ Exists(active)
        /\ n \in Names => n # active /\ file[n].data = file[active].data
    BY <1>4, <1>12 DEF Copied
  <2>2. UNCHANGED <<owned, deleted, active>>
    BY <1>1, <1>4, <1>12
  <2>3. NoProfileLost'
    <3> SUFFICES ASSUME NEW m \in owned PROVE \E k \in Names : Exists(k)' /\ file'[k].data = m
      BY <2>2 DEF NoProfileLost
    <3>1. PICK k \in Names : Exists(k) /\ file[k].data = m
      BY DEF Inv, NoProfileLost
    <3>2. CASE k = n
      <4>1. file'[active] = file[active] /\ file[active].data = m
        BY <1>6, <2>1, <3>1, <3>2
      <4> QED
        BY <2>1, <4>1 DEF Exists
    <3>3. CASE k # n
      BY <1>6, <3>1, <3>3 DEF Exists
    <3> QED
      BY <3>2, <3>3
  <2>4. ActiveNotDangling'
    BY <1>6, <2>1, <2>2 DEF Inv, ActiveNotDangling
  <2> QED
    BY <1>8, <1>10, <2>3, <2>4 DEF Inv, Phase
<1> QED
  BY <1>3, <1>11, <1>12
-----------------------------------------------------------------------------
\* A process that dies leaves what it has done so far.
LEMMA CrashStep ==
  ASSUME NEW p, Procs = {p}, Inv(p), Crash(p)
  PROVE  Inv(p)'
<1>1. <<>> \in Seq(Operations) /\ Unused \in Profiles
  BY DEF Unused, Profiles
<1>2. TypeOK'
  BY <1>1 DEF Inv, TypeOK, Crash, disk
<1>3. NoProfileLost' /\ ActiveNotDangling' /\ Listed(p)'
  BY DEF Inv, TypeOK, Crash, NoProfileLost, Exists, ActiveNotDangling, Listed, disk
<1>4. todo'[p] = <<>> /\ crashed'
  BY DEF Inv, TypeOK, Crash
<1>5. Resting(p)'
  BY <1>4 DEF Resting, Undamaged, Undisturbed
<1> QED
  BY <1>2, <1>3, <1>5 DEF Inv, Phase

\* A process without anything left to do is resting.
LEMMA IsResting ==
  ASSUME NEW p \in Procs, Inv(p), todo[p] = <<>>
  PROVE  Resting(p)
<1>1. ~Deleting(p) /\ ~Switching(p) /\ ~Renaming(p) /\ ~Removing(p) /\ ~Visiting(p)
  BY DEF Deleting, Switching, Switch, Renaming, SwitchFrom, Removing, Visiting, VisitOps
<1>2. ASSUME NEW n \in Names, NEW m \in Data, NEW rest \in Rests(n), Saving(p, n, m, rest)
      PROVE  FALSE
  BY <1>2, SavingNext
<1> QED
  BY <1>1, <1>2 DEF Inv, Phase

\* The process ends, or goes on with the next listed profile.
LEMMA EndStep ==
  ASSUME NEW p, Procs = {p}, Inv(p), End(p) \/ VisitNext(p)
  PROVE  Inv(p)'
<1>1. Resting(p) /\ todo[p] = <<>>
  BY IsResting DEF End, VisitNext
<1>2. CASE End(p)
  <2>1. Unused \in Profiles
    BY DEF Unused, Profiles
  <2>2. TypeOK'
    BY <1>2, <2>1 DEF Inv, TypeOK, End, disk, history
  <2>3. NoProfileLost' /\ ActiveNotDangling' /\ Listed(p)'
    BY <1>2 DEF Inv, End, NoProfileLost, Exists, ActiveNotDangling, Listed, disk, history
  <2>4. Resting(p)'
    BY <1>1, <1>2 DEF Resting, Undamaged, Undisturbed, End, disk, history
  <2> QED
    BY <2>2, <2>3, <2>4 DEF Inv, Phase
<1>3. CASE VisitNext(p)
  <2>1. PICK n \in visit[p] : /\ visit' = [visit EXCEPT ![p] = @ \ {n}]
                              /\ todo' = [todo EXCEPT ![p] = VisitOps(n)]
    BY <1>3 DEF VisitNext
  <2>2. /\ running[p] /\ kept' = [kept EXCEPT ![p] = active]
        /\ UNCHANGED <<disk, env, running, history>>
    BY <1>3 DEF VisitNext
  <2>3. n \in Names /\ file[n].state # "absent"
    BY <2>1 DEF Inv, TypeOK, Listed
  <2>4. VisitOps(n) = <<TruncateOp, VisitOp(n), LoadOp(n), TruncateOp, RestoreOp>>
    BY DEF VisitOps, TruncateOp, VisitOp, LoadOp, RestoreOp
  <2>5. VisitOps(n) \in Seq(Operations)
    BY <2>3, <2>4, OperationTypes
  <2>6. /\ todo' \in [Procs -> Seq(Operations)] /\ todo'[p] = VisitOps(n)
        /\ visit' \in [Procs -> SUBSET Names] /\ visit'[p] \subseteq visit[p]
        /\ kept' \in [Procs -> Names \cup {Local, NoName}] /\ kept'[p] = active
    BY <2>1, <2>2, <2>5 DEF Inv, TypeOK
  <2>7. TypeOK'
    BY <2>2, <2>6 DEF Inv, TypeOK, disk, history
  <2>8. NoProfileLost' /\ ActiveNotDangling' /\ Listed(p)'
    BY <2>2, <2>6 DEF Inv, NoProfileLost, Exists, ActiveNotDangling, Listed, disk, history
  <2>9. Visiting(p)'
    <3>1. There(kept[p])' /\ (~crashed' => kept'[p] = chosen')
      BY <1>1, <2>2, <2>6 DEF Inv, ActiveNotDangling, There, Resting, Undisturbed, disk, history
    <3>2. Undamaged({})' /\ file'[n].state # "absent"
      BY <1>1, <2>2, <2>3 DEF Resting, Undamaged, disk, history
    <3> QED
      BY <2>3, <2>6, <3>1, <3>2 DEF Visiting
  <2> QED
    BY <2>7, <2>8, <2>9 DEF Inv, Phase
<1> QED
  BY <1>2, <1>3

\* A command begins between two commands, and has changed nothing yet.
LEMMA BeginStep ==
  ASSUME NEW p, Procs = {p}, Inv(p), NEW ops \in Seq(Operations), NEW cmd, Begin(p, ops, cmd),
         UNCHANGED <<chosen, owned, deleted, crashed>>, strayed' \in BOOLEAN,
         visit' \in [Procs -> SUBSET Names]
  PROVE  /\ TypeOK' /\ NoProfileLost' /\ ActiveNotDangling'
         /\ Undamaged({})' /\ Undisturbed'
         /\ todo'[p] = ops /\ visit[p] = {} /\ UNCHANGED <<file, active>>
         /\ active \in AllNames \cup {NoName}
<1>1. /\ ~running[p] /\ env' = [env EXCEPT ![p] = Loaded(active)]
      /\ todo' = [todo EXCEPT ![p] = ops] /\ running' = [running EXCEPT ![p] = TRUE]
      /\ UNCHANGED <<file, active, kept>>
  BY DEF Begin, disk
<1>2. TypeOK /\ todo[p] = <<>> /\ visit[p] = {} /\ active \in AllNames \cup {NoName}
  BY <1>1 DEF Inv, TypeOK, AllNames
<1>3. Resting(p)
  BY <1>2, IsResting
<1>4. Loaded(active) \in Profiles
  BY <1>2, LoadedTypes
<1>5. TypeOK'
  BY <1>1, <1>2, <1>4 DEF TypeOK
<1>6. NoProfileLost' /\ ActiveNotDangling'
  BY <1>1 DEF Inv, NoProfileLost, Exists, ActiveNotDangling
<1>7. Undamaged({})' /\ Undisturbed'
  BY <1>1, <1>3 DEF Resting, Undamaged, Undisturbed
<1> QED
  BY <1>1, <1>2, <1>5, <1>6, <1>7 DEF TypeOK

\* The beginning of a command that saves a profile.
LEMMA SaveBegins ==
  ASSUME NEW p \in Procs, NEW n \in Names, NEW m \in Data, NEW rest \in Rests(n),
         todo'[p] = Save(n, m) \o rest, visit'[p] = {}, UNCHANGED file, Undamaged({})',
         rest = <<>> => Undisturbed',
         \A old \in AllNames : rest = SwitchFrom(old, n) => Kept(old, n, m)
  PROVE  Phase(p)'
<1> DEFINE written == <<OpenOp(n)>> \o (<<WriteOp(n, m)>> \o rest)
<1>1. rest \in Seq(Operations)
  BY RestTypes DEF AllNames
<1>2. Save(n, m) \o rest = IF file[n].state = "absent" THEN <<MkdirOp(n)>> \o written
                                                       ELSE written
  BY <1>1, SaveThen
<1>3. \A old \in AllNames : rest = SwitchFrom(old, n) => Kept(old, n, m)'
  BY DEF Kept, Exists
<1>4. Saving(p, n, m, rest)'
  BY <1>2, <1>3 DEF Saving
<1>5. Undamaged({n})'
  BY DEF Undamaged
<1> QED
  BY <1>4, <1>5 DEF Phase

\* The first step of every command.
LEMMA CommandStep ==
  ASSUME NEW p, Procs = {p}, Inv(p), Command(p)
  PROVE  Inv(p)'
<1>1. TypeOK /\ visit \in [Procs -> SUBSET Names]
  BY DEF Inv, TypeOK
<1>2. <<>> \in Seq(Operations) /\ \A n \in Names : <<>> \in Rests(n) /\ Switch(n) \in Rests(n)
  BY DEF Rests
<1>3. \A n \in Names, m \in Data : /\ Save(n, m) \in Seq(Operations)
                                   /\ Save(n, m) \o <<>> = Save(n, m)
  <2> SUFFICES ASSUME NEW n \in Names, NEW m \in Data
               PROVE  Save(n, m) \in Seq(Operations) /\ Save(n, m) \o <<>> = Save(n, m)
    OBVIOUS
  <2>1. /\ MkdirOp(n) \in Operations /\ OpenOp(n) \in Operations
        /\ WriteOp(n, m) \in Operations
    BY OperationTypes
  <2>2. Save(n, m) = (IF file[n].state = "absent" THEN <<MkdirOp(n)>> ELSE <<>>)
                       \o <<OpenOp(n), WriteOp(n, m)>>
    BY DEF Save, MkdirOp, OpenOp, WriteOp
  <2>3. <<OpenOp(n), WriteOp(n, m)>> \in Seq(Operations) /\ <<MkdirOp(n)>> \in Seq(Operations)
    BY <2>1
  <2>4. Save(n, m) \in Seq(Operations)
    BY <1>2, <2>2, <2>3, ConcatProperties
  <2> QED
    BY <2>4, ConcatEmptySeq
<1>4. ASSUME NEW n \in AllNames, Use(p, n) PROVE Inv(p)'
  <2>1. Activate(n) = Switch(n) /\ Switch(n) \in Seq(Operations)
    BY RestTypes DEF Activate, Switch, TruncateOp, ActivateOp
  <2>2. /\ Begin(p, Switch(n), "use") /\ UNCHANGED <<visit, history>>
        /\ n \in Names => Exists(n)
    BY <1>4, <2>1, NamesAssumption DEF Use
  <2>3. /\ TypeOK' /\ NoProfileLost' /\ ActiveNotDangling' /\ Undamaged({})'
        /\ todo'[p] = Switch(n) /\ visit[p] = {} /\ UNCHANGED file
    BY <1>1, <2>1, <2>2, BeginStep DEF history, TypeOK
  <2>4. Switching(p)' /\ Listed(p)'
    BY <2>2, <2>3 DEF Switching, Exists, Listed
  <2> QED
    BY <2>3, <2>4 DEF Inv, Phase
<1>5. CASE List(p)
  <2>1. /\ Begin(p, <<>>, "list") /\ UNCHANGED history
        /\ visit' = [visit EXCEPT ![p] = {n \in Names : file[n].state # "absent"}]
    BY <1>5 DEF List
  <2>2. visit' \in [Procs -> SUBSET Names]
    BY <1>1, <2>1
  <2>3. /\ TypeOK' /\ NoProfileLost' /\ ActiveNotDangling' /\ Undamaged({})' /\ Undisturbed'
        /\ todo'[p] = <<>> /\ UNCHANGED file
    BY <1>1, <1>2, <2>1, <2>2, BeginStep DEF history, TypeOK
  <2>4. Resting(p)' /\ Listed(p)'
    BY <1>1, <2>1, <2>3 DEF Resting, Listed
  <2> QED
    BY <2>3, <2>4 DEF Inv, Phase
<1>6. ASSUME NEW n \in Names, NEW m \in Managers, Create(p, n, m) PROVE Inv(p)'
  <2>1. Activate(n) = Switch(n) /\ n \in AllNames /\ Switch(n) \in Seq(Operations)
    BY RestTypes DEF Activate, Switch, TruncateOp, ActivateOp, AllNames
  <2>2. Save(n, m) \o Switch(n) \in Seq(Operations)
    BY <1>3, <2>1, ConcatProperties DEF Data
  <2>3. Begin(p, Save(n, m) \o Switch(n), "create") /\ UNCHANGED <<visit, history>>
    BY <1>6, <2>1 DEF Create
  <2>4. /\ TypeOK' /\ NoProfileLost' /\ ActiveNotDangling' /\ Undamaged({})'
        /\ todo'[p] = Save(n, m) \o Switch(n) /\ visit[p] = {} /\ UNCHANGED file
    BY <1>1, <2>2, <2>3, BeginStep DEF history, TypeOK
  <2>5. Switch(n) # <<>> /\ \A old \in AllNames : Switch(n) # SwitchFrom(old, n)
    <3>1. Len(Switch(n)) = 2 /\ \A old \in AllNames : Len(SwitchFrom(old, n)) = 3
      BY DEF Switch, SwitchFrom
    <3>2. Switch(n) # <<>>
      BY DEF Switch
    <3>3. \A old \in AllNames : Switch(n) # SwitchFrom(old, n)
      BY <3>1
    <3> QED
      BY <3>2, <3>3
  <2>6. Phase(p)'
    BY <1>2, <2>3, <2>4, <2>5, SaveBegins DEF Data
  <2> QED
    BY <2>3, <2>4, <2>6 DEF Inv, Listed
<1>7. ASSUME NEW n \in Names, Delete(p, n) PROVE Inv(p)'
  <2>1. /\ Begin(p, <<Op("delete", n, Blank)>>, "delete") /\ UNCHANGED <<visit, history>>
        /\ Exists(n)
    BY <1>7 DEF Delete
  <2>2. <<Op("delete", n, Blank)>> \in Seq(Operations)
    BY OperationTypes
  <2>3. /\ TypeOK' /\ NoProfileLost' /\ ActiveNotDangling' /\ Undamaged({})' /\ Undisturbed'
        /\ todo'[p] = <<Op("delete", n, Blank)>> /\ visit[p] = {} /\ UNCHANGED file
    BY <1>1, <2>1, <2>2, BeginStep DEF history, TypeOK
  <2>4. Deleting(p)' /\ Listed(p)'
    BY <2>1, <2>3 DEF Deleting, Exists, Listed
  <2> QED
    BY <2>3, <2>4 DEF Inv, Phase
<1>8. ASSUME NEW n \in Names, Rename(p, n) PROVE Inv(p)'
  <2> DEFINE old == Loaded(active).name
             m == Loaded(active).data
             rest == IF old = NoName THEN <<>> ELSE SwitchFrom(old, n)
  <2>1. active \in AllNames \cup {NoName}
    BY <1>1 DEF TypeOK, AllNames
  <2>2. m \in Data /\ old \in AllNames \cup {NoName}
    BY <1>1, <2>1, LoadedTypes DEF Profiles, Data, AllNames
  <2>3. old \in Names => file[old].state = "whole" /\ file[old].data = m
    BY NamesAssumption DEF Loaded, Unused
  <2>4. ~Exists(n) /\ UNCHANGED <<visit, history>>
        /\ Begin(p, IF old = NoName THEN Save(n, m) ELSE RenameOps(old, n, m), "rename")
    BY <1>8 DEF Rename
  <2> HIDE DEF old, m
  <2>5. /\ rest \in Rests(n) /\ rest \in Seq(Operations)
        /\ Save(n, m) \o rest
             = IF old = NoName THEN Save(n, m) ELSE RenameOps(old, n, m)
    <3>1. CASE old = NoName
      BY <1>2, <1>3, <2>2, <3>1
    <3>2. CASE old # NoName
      <4>1. old \in AllNames /\ n \in AllNames
        BY <2>2, <3>2 DEF AllNames
      <4>2. rest = SwitchFrom(old, n)
        BY <3>2
      <4>3. SwitchFrom(old, n) \in Rests(n) /\ SwitchFrom(old, n) \in Seq(Operations)
        BY <4>1, RestTypes DEF Rests
      <4> QED
        BY <2>2, <3>2, <4>1, <4>2, <4>3, RenameIsSaveThen
    <3> QED
      BY <3>1, <3>2
  <2>6. \A o \in AllNames : rest = SwitchFrom(o, n) => Kept(o, n, m)
    <3> SUFFICES ASSUME NEW o \in AllNames, rest = SwitchFrom(o, n) PROVE Kept(o, n, m)
      OBVIOUS
    <3>1. SwitchFrom(o, n) # <<>>
      BY DEF SwitchFrom
    <3>2. old # NoName /\ SwitchFrom(old, n) = SwitchFrom(o, n)
      BY <3>1
    <3>3. RemoveOp(old) = RemoveOp(o)
      <4>1. SwitchFrom(old, n)[3] = RemoveOp(old) /\ SwitchFrom(o, n)[3] = RemoveOp(o)
        BY DEF SwitchFrom
      <4> QED
        BY <3>2, <4>1
    <3>4. old = o
      <4>1. RemoveOp(old).name = old /\ RemoveOp(o).name = o
        BY DEF RemoveOp, Op
      <4> QED
        BY <3>3, <4>1
    <3> QED
      BY <2>3, <2>4, <3>4 DEF Kept, Exists
  <2> HIDE DEF rest
  <2>7. Save(n, m) \o rest \in Seq(Operations)
    BY <1>3, <2>2, <2>5, ConcatProperties
  <2>8. Begin(p, Save(n, m) \o rest, "rename")
    BY <2>4, <2>5
  <2>9. /\ TypeOK' /\ NoProfileLost' /\ ActiveNotDangling' /\ Undamaged({})' /\ Undisturbed'
        /\ todo'[p] = Save(n, m) \o rest /\ visit[p] = {} /\ UNCHANGED file
    BY <1>1, <2>4, <2>7, <2>8, BeginStep DEF history, TypeOK
  <2>10. Phase(p)'
    BY <2>2, <2>4, <2>5, <2>6, <2>9, SaveBegins
  <2> QED
    BY <2>4, <2>9, <2>10 DEF Inv, Listed
<1>9. ASSUME NEW m \in Managers, Set(p, m) PROVE Inv(p)'
  <2> DEFINE n == Loaded(active).name
  <2>1. /\ n \in Names /\ Begin(p, Save(n, m), "set")
        /\ strayed' = (strayed \/ n # chosen)
        /\ UNCHANGED <<visit, chosen, owned, deleted, crashed>>
    BY <1>9 DEF Set
  <2> HIDE DEF n
  <2>2. m \in Data /\ Save(n, m) \in Seq(Operations) /\ Save(n, m) \o <<>> = Save(n, m)
    BY <1>3, <2>1 DEF Data
  <2>3. strayed' \in BOOLEAN /\ visit' \in [Procs -> SUBSET Names]
    BY <1>1, <2>1
  <2>4. /\ TypeOK' /\ NoProfileLost' /\ ActiveNotDangling' /\ Undamaged({})' /\ Undisturbed'
        /\ todo'[p] = Save(n, m) /\ visit[p] = {} /\ UNCHANGED file
    BY <2>1, <2>2, <2>3, BeginStep
  <2>5. \A old \in AllNames : <<>> # SwitchFrom(old, n)
    BY DEF SwitchFrom
  <2>6. Phase(p)'
    BY <1>2, <2>1, <2>2, <2>4, <2>5, SaveBegins
  <2> QED
    BY <2>1, <2>4, <2>6 DEF Inv, Listed
<1> QED
  BY <1>4, <1>5, <1>6, <1>7, <1>8, <1>9 DEF Command, AllNames
-----------------------------------------------------------------------------
\* Every step of the process, and every kill, preserves the invariant.
LEMMA InvStep ==
  ASSUME NEW p, Procs = {p}, Inv(p), [Next]_vars
  PROVE  Inv(p)'
<1>1. CASE UNCHANGED vars
  <2>1. TypeOK' /\ NoProfileLost' /\ ActiveNotDangling' /\ Listed(p)'
    BY <1>1 DEF Inv, TypeOK, NoProfileLost, Exists, ActiveNotDangling, Listed, vars, disk,
            history
  <2>2. /\ UNCHANGED <<file, active, todo, visit, kept, chosen, deleted, crashed>>
    BY <1>1 DEF vars, disk, history
  <2>3. /\ Resting(p) => Resting(p)'
        /\ Deleting(p) => Deleting(p)'
        /\ Switching(p) => Switching(p)'
        /\ Visiting(p) => Visiting(p)'
    BY <2>2 DEF Resting, Deleting, Switching, Visiting, Exists, There, Undamaged, Undisturbed
  <2>4. /\ Renaming(p) => Renaming(p)'
        /\ Removing(p) => Removing(p)'
    BY <2>2 DEF Renaming, Removing, Copied, Exists, Undamaged, Undisturbed
  <2>5. ASSUME NEW n \in Names, NEW m \in Data, NEW rest \in Rests(n),
               Saving(p, n, m, rest), Undamaged({n})
        PROVE  Saving(p, n, m, rest)' /\ Undamaged({n})'
    BY <2>2, <2>5 DEF Saving, Kept, Exists, Undamaged, Undisturbed
  <2>6. Phase(p)'
    BY <2>2, <2>3, <2>4, <2>5 DEF Inv, Phase
  <2> QED
    BY <2>1, <2>6 DEF Inv
<1>2. CASE Next
  <2>1. Command(p) \/ VisitNext(p) \/ FileOp(p) \/ End(p) \/ Crash(p)
    BY <1>2 DEF Next
  <2> QED
    BY <2>1, CommandStep, EndStep, CrashStep, MakeDirStep, OpenContextStep, WriteContextStep,
       TruncateActiveStep, WriteActiveStep, LoadListedStep, RemoveTreeStep DEF FileOp
<1> QED
  BY <1>1, <1>2

\* The invariant holds in every reachable state.
LEMMA InvAlways ==
  ASSUME NEW p, Procs = {p}
  PROVE  Spec => []Inv(p)
<1>1. Init => Inv(p)
  <2> SUFFICES ASSUME Init PROVE Inv(p)
    OBVIOUS
  <2>1. <<>> \in Seq(Operations) /\ Unused \in Profiles
    BY DEF Unused, Profiles
  <2>2. TypeOK
    BY <2>1 DEF Init, TypeOK, Absent, States
  <2>3. NoProfileLost /\ ActiveNotDangling /\ Listed(p)
    BY NamesAssumption DEF Init, NoProfileLost, ActiveNotDangling, Listed
  <2>4. Resting(p)
    BY DEF Init, Resting, Undamaged, Undisturbed, Absent
  <2> QED
    BY <2>2, <2>3, <2>4 DEF Inv, Phase
<1>2. Inv(p) /\ [Next]_vars => Inv(p)'
  BY InvStep
<1> QED
  BY <1>1, <1>2, PTL DEF Spec

\* With one process at a time, no kill loses a profile of the user: of any number
\* of profiles each is on disk, at worst with its own file half written.
THEOREM ProfilesSurviveKills ==
  ASSUME NEW p, Procs = {p}
  PROVE  Spec => []StoreInv
<1>1. Inv(p) => StoreInv
  BY DEF Inv, StoreInv
<1> QED
  BY <1>1, InvAlways, PTL

\* With one process at a time, the active profile is there unless the user
\* deleted it, and until a process dies it is the one the user chose last.
THEOREM ActiveStaysRight ==
  ASSUME NEW p, Procs = {p}
  PROVE  Spec => []ActiveIsRight
<1>1. Inv(p) => ActiveIsRight
  <2> SUFFICES ASSUME Inv(p) PROVE ActiveNotDangling /\ ActiveIsChosen
    BY DEF ActiveIsRight
  <2>1. ASSUME ~running[p] PROVE Resting(p)
    BY <2>1, IsResting DEF Inv, TypeOK
  <2>2. ActiveIsChosen
    BY <2>1 DEF ActiveIsChosen, Resting, Undisturbed
  <2> QED
    BY <2>2 DEF Inv
<1> QED
  BY <1>1, InvAlways, PTL
=============================================================================
