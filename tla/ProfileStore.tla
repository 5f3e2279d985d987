----------------------------- MODULE ProfileStore -----------------------------
(***************************************************************************)
(* The profiles on disk (cloudify_cli/env.py) and the `cfy profiles'       *)
(* commands that change them (cloudify_cli/commands/profiles.py): a        *)
(* directory per profile with its context.json, and active.profile with    *)
(* the name of the one in use.                                             *)
(*                                                                         *)
(* A command is the sequence of its file operations; its process may die   *)
(* between any two of them, and other processes may run in between.  Of a  *)
(* profile's settings only the manager they are for is kept.  The commands *)
(* are modelled with --skip-credentials-validation, which leaves the       *)
(* manager out of them.                                                    *)
(***************************************************************************)
EXTENDS Naturals, Sequences, FiniteSets

CONSTANTS
  Procs,     \* cfy processes that may run at the same time
  Names,     \* profile names, without `local'
  Local,     \* the name `local'
  NoName,    \* active.profile is empty
  Managers,  \* manager addresses; each profile gets one of its own
  Blank,     \* no manager
  Commands,  \* the commands that are used
  Crashes    \* whether processes may die

ASSUME NamesAssumption ==
  /\ Local \notin Names /\ NoName \notin Names \cup {Local}
  /\ Blank \notin Managers
  /\ Commands \subseteq {"use", "create", "delete", "rename", "set", "list"}
  /\ Crashes \in BOOLEAN

VARIABLES
  file,    \* the directory of each profile, and its context.json
  active,  \* content of active.profile
  env,     \* env.profile of each process
  todo,    \* file operations left of each process' command
  visit,   \* profiles a listing has not shown yet
  kept,    \* `current_profile' of _get_profile
  running, \* whether each process is inside a command
  chosen,  \* (history) the profile the user chose last
  owned,   \* (history) managers of the profiles the user has
  deleted, \* (history) names of the profiles the user has deleted
  strayed, \* (history) `profiles set' has changed another profile than chosen
  crashed  \* (history) a process has died

disk == <<file, active>>
history == <<chosen, owned, deleted, strayed, crashed>>
vars == <<disk, env, todo, visit, kept, running, history>>

Absent == [state |-> "absent", data |-> Blank]
Unused == [name |-> NoName, data |-> Blank]
\* os.path.isfile(context.json)
Exists(n) == file[n].state \in {"torn", "whole"}

\* What get_profile_context(n) makes of what is on disk.
Loaded(n) ==
  IF n = Local THEN [name |-> Local, data |-> Blank]
  ELSE IF n \in Names /\ file[n].state = "whole" THEN [name |-> n, data |-> file[n].data]
  ELSE Unused

\* json.load fails on a file whose writing was interrupted.
Unreadable(n) == n \in Names /\ file[n].state = "torn"

\* After `cfy init': no manager profiles, the local one in use.
Init ==
  /\ file = [n \in Names |-> Absent]
  /\ active = Local
  /\ env = [p \in Procs |-> Unused]
  /\ todo = [p \in Procs |-> <<>>]
  /\ visit = [p \in Procs |-> {}]
  /\ kept = [p \in Procs |-> NoName]
  /\ running = [p \in Procs |-> FALSE]
  /\ chosen = Local
  /\ owned = {} /\ deleted = {}
  /\ strayed = FALSE /\ crashed = FALSE
-----------------------------------------------------------------------------
Op(op, n, m) == [op |-> op, name |-> n, data |-> m]

\* ProfileContext.save
Save(n, m) ==
  (IF file[n].state = "absent" THEN <<Op("mkdir", n, Blank)>> ELSE <<>>)
    \o <<Op("open", n, Blank), Op("write", n, m)>>

\* set_active_profile
Activate(n) == <<Op("truncate", NoName, Blank), Op("activate", n, Blank)>>

\* A command begins with the profile that is active then; a profile that
\* cannot be read ends the process at once (the import of env).
Begin(p, ops, cmd) ==
  /\ ~running[p] /\ cmd \in Commands /\ ~Unreadable(active)
  /\ env' = [env EXCEPT ![p] = Loaded(active)]
  /\ todo' = [todo EXCEPT ![p] = ops]
  /\ running' = [running EXCEPT ![p] = TRUE]
  /\ UNCHANGED <<disk, kept>>

\* profiles use: an existing profile, or local, only becomes active ...
Use(p, n) ==
  /\ n # Local => Exists(n)
  /\ Begin(p, Activate(n), "use")
  /\ UNCHANGED <<visit, history>>

\* ... a new one is saved and becomes active.
Create(p, n, m) ==
  /\ n # Local /\ ~Exists(n) /\ m \notin owned
  /\ Begin(p, Save(n, m) \o Activate(n), "create")
  /\ UNCHANGED <<visit, history>>

\* profiles delete: active.profile is left alone.
Delete(p, n) ==
  /\ Exists(n)
  /\ Begin(p, <<Op("delete", n, Blank)>>, "delete")
  /\ UNCHANGED <<visit, history>>

\* (mutants) The old profile is deleted first, or before the new one is active.
RenameOpsDeleteFirst(old, n, m) ==
  <<Op("rmtree", old, Blank)>> \o Save(n, m) \o Activate(n)
RenameOpsDeleteSecond(old, n, m) ==
  Save(n, m) \o <<Op("rmtree", old, Blank)>> \o Activate(n)

\* set_cmd with a profile name: the settings are saved under the new name, the
\* new profile becomes active and the old one goes.
RenameOps(old, n, m) ==
  Save(n, m) \o Activate(n) \o <<Op("rmtree", old, Blank)>>

\* profiles set --profile-name; a profile that could not be loaded has no old
\* name, and its new one is saved without being made active.
Rename(p, n) ==
  LET current == Loaded(active)
  IN  /\ ~Exists(n)
      /\ Begin(p, IF current.name = NoName THEN Save(n, current.data)
                  ELSE RenameOps(current.name, n, current.data), "rename")
      /\ UNCHANGED <<visit, history>>

\* profiles set --manager-ip, in the current profile.
Set(p, m) ==
  LET current == Loaded(active)
  IN  /\ current.name \in Names /\ m \notin owned
      /\ Begin(p, Save(current.name, m), "set")
      /\ strayed' = (strayed \/ current.name # chosen)
      /\ UNCHANGED <<visit, chosen, owned, deleted, crashed>>

\* profiles list: get_profile_names, then each of them in turn.
List(p) ==
  /\ Begin(p, <<>>, "list")
  /\ visit' = [visit EXCEPT ![p] = {n \in Names : file[n].state # "absent"}]
  /\ UNCHANGED history

\* _get_profile: each listed profile is active while it is loaded.
VisitOps(n) ==
  <<Op("truncate", NoName, Blank), Op("visit", n, Blank), Op("load", n, Blank),
    Op("truncate", NoName, Blank), Op("restore", NoName, Blank)>>

VisitNext(p) ==
  /\ running[p] /\ todo[p] = <<>>
  /\ \E n \in visit[p] :
       /\ visit' = [visit EXCEPT ![p] = @ \ {n}]
       /\ todo' = [todo EXCEPT ![p] = VisitOps(n)]
  /\ kept' = [kept EXCEPT ![p] = active]
  /\ UNCHANGED <<disk, env, running, history>>

\* The process ends, and env.profile with it.
End(p) ==
  /\ running[p] /\ todo[p] = <<>> /\ visit[p] = {}
  /\ running' = [running EXCEPT ![p] = FALSE]
  /\ env' = [env EXCEPT ![p] = Unused]
  /\ kept' = [kept EXCEPT ![p] = NoName]
  /\ UNCHANGED <<disk, todo, visit, history>>
-----------------------------------------------------------------------------
Put(n, state, m) == file' = [file EXCEPT ![n] = [state |-> state, data |-> m]]

\* The next file operation of p's command is `op', and it succeeds.
Doing(p, op) ==
  /\ todo[p] # <<>> /\ Head(todo[p]).op = op
  /\ todo' = [todo EXCEPT ![p] = Tail(@)]

Does(p) == Head(todo[p])

MakeDir(p) ==
  /\ Doing(p, "mkdir")
  /\ IF file[Does(p).name].state = "absent" THEN Put(Does(p).name, "dir", Blank)
                                          ELSE UNCHANGED file
  /\ UNCHANGED <<active, env, visit, kept, running, history>>

\* open(..., 'w') truncates; what was there is remembered for the properties.
\* Without the directory, deleted meanwhile, it raises.
OpenContext(p) ==
  LET n == Does(p).name
  IN  /\ todo[p] # <<>> /\ Does(p).op = "open"
      /\ IF file[n].state = "absent"
         THEN todo' = [todo EXCEPT ![p] = <<>>] /\ UNCHANGED file
         ELSE todo' = [todo EXCEPT ![p] = Tail(@)] /\ Put(n, "torn", file[n].data)
      /\ UNCHANGED <<active, env, visit, kept, running, history>>

WriteContext(p) ==
  LET n == Does(p).name  m == Does(p).data
  IN  /\ Doing(p, "write")
      /\ IF file[n].state = "absent" THEN UNCHANGED file   \* written to a deleted file
                                     ELSE Put(n, "whole", m)
      /\ owned' = (owned \ {file[n].data}) \cup ({m} \ {Blank})
      /\ deleted' = deleted \ {n}
      /\ UNCHANGED <<active, env, visit, kept, running, chosen, strayed, crashed>>

TruncateActive(p) ==
  /\ Doing(p, "truncate")
  /\ active' = NoName
  /\ UNCHANGED <<file, env, visit, kept, running, history>>

\* The name is written, and the profile loaded; the command fails if it is
\* unreadable.
WriteActive(p) ==
  LET o == Does(p)
      n == IF o.op = "restore" THEN kept[p] ELSE o.name
  IN  /\ todo[p] # <<>> /\ o.op \in {"activate", "visit", "restore"}
      /\ active' = n
      /\ env' = [env EXCEPT ![p] = Loaded(n)]
      /\ IF Unreadable(n)
         THEN /\ todo' = [todo EXCEPT ![p] = <<>>]
              /\ visit' = [visit EXCEPT ![p] = {}]
         ELSE /\ todo' = [todo EXCEPT ![p] = Tail(@)]
              /\ UNCHANGED visit
      /\ chosen' = IF o.op = "activate" THEN n ELSE chosen
      /\ UNCHANGED <<file, kept, running, owned, deleted, strayed, crashed>>

\* get_profile_context of a listed profile: no context is an error here.
LoadListed(p) ==
  LET n == Does(p).name
  IN  /\ todo[p] # <<>> /\ Does(p).op = "load"
      /\ IF file[n].state = "whole"
         THEN todo' = [todo EXCEPT ![p] = Tail(@)] /\ UNCHANGED visit
         ELSE /\ todo' = [todo EXCEPT ![p] = <<>>]
              /\ visit' = [visit EXCEPT ![p] = {}]
      /\ UNCHANGED <<disk, env, kept, running, history>>

\* shutil.rmtree, as what was asked for or as the end of a renaming.
RemoveTree(p) ==
  LET n == Does(p).name
  IN  /\ \/ Doing(p, "delete") /\ owned' = owned \ {file[n].data}
                               /\ deleted' = deleted \cup {n}
         \/ Doing(p, "rmtree") /\ UNCHANGED <<owned, deleted>>
      /\ IF n \in Names /\ Exists(n) THEN file' = [file EXCEPT ![n] = Absent]
                                     ELSE UNCHANGED file
      /\ UNCHANGED <<active, env, visit, kept, running, chosen, strayed, crashed>>

\* The process is killed.
Crash(p) ==
  /\ Crashes /\ running[p]
  /\ todo' = [todo EXCEPT ![p] = <<>>]
  /\ visit' = [visit EXCEPT ![p] = {}]
  /\ running' = [running EXCEPT ![p] = FALSE]
  /\ env' = [env EXCEPT ![p] = Unused]
  /\ kept' = [kept EXCEPT ![p] = NoName]
  /\ crashed' = TRUE
  /\ UNCHANGED <<disk, chosen, owned, deleted, strayed>>

Command(p) ==
  \/ Use(p, Local) \/ List(p)
  \/ \E n \in Names : Use(p, n) \/ Delete(p, n) \/ Rename(p, n)
  \/ \E m \in Managers : Set(p, m) \/ \E n \in Names : Create(p, n, m)

FileOp(p) ==
  \/ MakeDir(p) \/ OpenContext(p) \/ WriteContext(p) \/ TruncateActive(p)
  \/ WriteActive(p) \/ LoadListed(p) \/ RemoveTree(p)

Next == \E p \in Procs : Command(p) \/ VisitNext(p) \/ FileOp(p) \/ End(p) \/ Crash(p)

Spec == Init /\ [][Next]_vars
-----------------------------------------------------------------------------
States == {"absent", "dir", "torn", "whole"}
Profiles == [name : Names \cup {Local, NoName}, data : Managers \cup {Blank}]
Operations ==
  [op : {"mkdir", "open", "write", "truncate", "activate", "visit", "load", "restore",
         "delete", "rmtree"},
   name : Names \cup {Local, NoName}, data : Managers \cup {Blank}]

\* Types of the variables; a process between two commands has nothing to do.
TypeOK ==
  /\ file \in [Names -> [state : States, data : Managers \cup {Blank}]]
  /\ active \in Names \cup {Local, NoName}
  /\ env \in [Procs -> Profiles]
  /\ todo \in [Procs -> Seq(Operations)]
  /\ visit \in [Procs -> SUBSET Names]
  /\ kept \in [Procs -> Names \cup {Local, NoName}]
  /\ running \in [Procs -> BOOLEAN]
  /\ \A p \in Procs : ~running[p] => todo[p] = <<>> /\ visit[p] = {}
  /\ chosen \in Names \cup {Local}
  /\ owned \subseteq Managers /\ deleted \subseteq Names
  /\ strayed \in BOOLEAN /\ crashed \in BOOLEAN

\* Whenever a process dies, every profile the user has is still there, or is
\* the one whose own context.json was being rewritten (set_cmd saves a renamed
\* profile before it deletes the old one).
NoProfileLost ==
  \A m \in owned : \E n \in Names : Exists(n) /\ file[n].data = m

\* What is on disk after any kill.
StoreInv == TypeOK /\ NoProfileLost

\* active.profile never names a profile that is not there, unless the user
\* deleted it: a created or renamed profile is complete when it becomes active,
\* and an old name is not active any more when it goes.
ActiveNotDangling ==
  active \in Names => file[active].state # "absent" \/ active \in deleted

\* _get_profile puts the active profile back: as long as no process has died,
\* the profile in use after a command is the one that `profiles use', or a
\* renaming, chose last, whatever was listed, set or deleted meanwhile.
ActiveIsChosen ==
  ~crashed /\ (\A p \in Procs : ~running[p]) => active = chosen

\* The active profile is there, and is the one the user wants.
ActiveIsRight == ActiveNotDangling /\ ActiveIsChosen

\* set_cmd: "Set the profile name, manager username and/or password ... in the
\* *current* profile": a setting is saved to no other profile than the one
\* chosen last.
SetsCurrent == ~strayed
=============================================================================
