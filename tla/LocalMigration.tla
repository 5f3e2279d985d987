---------------------------- MODULE LocalMigration -----------------------------
(***************************************************************************)
(* Moving an old local profile to the present layout (local.py,            *)
(* storage_dir): the first command that finds the old layout copies it to  *)
(* a backup directory and then moves blueprint by blueprint.  A command    *)
(* may be killed, and several shells may do it at once.                    *)
(***************************************************************************)
EXTENDS Naturals, FiniteSets

CONSTANTS Cmds, LocalBlueprints

VARIABLES
  old,         \* blueprints in the old layout, in full
  removing,    \* ... of which a part has been removed
  newBlueprint, newDeployment,   \* none, partial or whole, for each
  backup,      \* what each command has copied to its newest backup directory
  movePc, toMove, moving         \* where each command is

moveVars == <<old, removing, newBlueprint, newDeployment, backup, movePc, toMove, moving>>

MoveInit ==
  /\ old = LocalBlueprints /\ removing = {}
  /\ newBlueprint = [b \in LocalBlueprints |-> "none"]
  /\ newDeployment = [b \in LocalBlueprints |-> "none"]
  /\ backup = [c \in Cmds |-> {}]
  /\ movePc = [c \in Cmds |-> "idle"]
  /\ toMove = [c \in Cmds |-> {}] /\ moving = [c \in Cmds |-> {}]
-----------------------------------------------------------------------------
NewLayout == \E b \in LocalBlueprints : newBlueprint[b] # "none"
MoveGoto(c, where) == movePc' = [movePc EXCEPT ![c] = where]

\* _is_old_local_profile
IsOld == old \cup removing # {} /\ ~NewLayout

FindLayout(c) ==
  /\ movePc[c] = "idle"
  /\ MoveGoto(c, IF IsOld THEN "backup" ELSE "done")
  /\ backup' = [backup EXCEPT ![c] = IF IsOld THEN {} ELSE @]
  /\ UNCHANGED <<old, removing, newBlueprint, newDeployment, toMove, moving>>

\* shutil.copytree to the backup directory, an entry at a time.
BackUp(c) ==
  /\ movePc[c] = "backup"
  /\ \E b \in old \ backup[c] : backup' = [backup EXCEPT ![c] = @ \cup {b}]
  /\ UNCHANGED <<old, removing, newBlueprint, newDeployment, movePc, toMove, moving>>

\* os.listdir(storage_dir)
ListOld(c) ==
  /\ movePc[c] = "backup" /\ old \subseteq backup[c]
  /\ toMove' = [toMove EXCEPT ![c] = old \cup removing]
  /\ MoveGoto(c, IF NewLayout THEN "failed" ELSE "move")
  /\ UNCHANGED <<old, removing, newBlueprint, newDeployment, backup, moving>>

\* The next one: its data are read and its directory made, which fails if
\* it is there; at the end the command goes on with what it is for.
BeginMove(c) ==
  /\ movePc[c] = "move" /\ moving[c] = {}
  /\ IF toMove[c] = {} THEN MoveGoto(c, "done") /\ UNCHANGED <<newBlueprint, toMove, moving>>
     ELSE \E b \in toMove[c] :
            IF b \in old /\ newBlueprint[b] = "none"
            THEN /\ newBlueprint' = [newBlueprint EXCEPT ![b] = "partial"]
                 /\ moving' = [moving EXCEPT ![c] = {b}]
                 /\ toMove' = [toMove EXCEPT ![c] = @ \ {b}]
                 /\ UNCHANGED movePc
            ELSE MoveGoto(c, "failed") /\ UNCHANGED <<newBlueprint, toMove, moving>>
  /\ UNCHANGED <<old, removing, newDeployment, backup>>

CopyBlueprint(c) ==
  /\ movePc[c] = "move"
  /\ \E b \in moving[c] :
       /\ newBlueprint[b] = "partial" /\ b \in old
       /\ newBlueprint' = [newBlueprint EXCEPT ![b] = "whole"]
  /\ UNCHANGED <<old, removing, newDeployment, backup, movePc, toMove, moving>>

CopyDeployment(c) ==
  /\ movePc[c] = "move"
  /\ \E b \in moving[c] :
       /\ newBlueprint[b] = "whole" /\ newDeployment[b] # "whole" /\ b \in old
       /\ newDeployment' =
            [newDeployment EXCEPT ![b] = IF @ = "none" THEN "partial" ELSE "whole"]
  /\ UNCHANGED <<old, removing, newBlueprint, backup, movePc, toMove, moving>>

\* (mutant) The old directory goes when the blueprint has been copied.
CopiedBlueprint(b) == newBlueprint[b] = "whole"

Copied(b) == newBlueprint[b] = "whole" /\ newDeployment[b] = "whole"

\* shutil.rmtree(source_blueprint_dir)
RemoveOld(c) ==
  /\ movePc[c] = "move"
  /\ \E b \in moving[c] :
       /\ Copied(b)
       /\ IF b \in old
          THEN old' = old \ {b} /\ removing' = removing \cup {b} /\ UNCHANGED moving
          ELSE /\ removing' = removing \ {b} /\ moving' = [moving EXCEPT ![c] = {}]
               /\ UNCHANGED old
  /\ UNCHANGED <<newBlueprint, newDeployment, backup, movePc, toMove>>

\* Killed, or a file cannot be read or written.  Then another command.
Killed(c) ==
  /\ movePc[c] \in {"backup", "move"} /\ MoveGoto(c, "failed")
  /\ UNCHANGED <<old, removing, newBlueprint, newDeployment, backup, toMove, moving>>
NextCommand(c) ==
  /\ movePc[c] \in {"failed", "done"} /\ MoveGoto(c, "idle")
  /\ toMove' = [toMove EXCEPT ![c] = {}] /\ moving' = [moving EXCEPT ![c] = {}]
  /\ UNCHANGED <<old, removing, newBlueprint, newDeployment, backup>>

MoveNext ==
  \E c \in Cmds :
    \/ FindLayout(c) \/ BackUp(c) \/ ListOld(c) \/ BeginMove(c) \/ CopyBlueprint(c)
    \/ CopyDeployment(c) \/ RemoveOld(c) \/ Killed(c) \/ NextCommand(c)
-----------------------------------------------------------------------------
MoveTypeOK ==
  /\ old \subseteq LocalBlueprints /\ removing \subseteq LocalBlueprints \ old
  /\ newBlueprint \in [LocalBlueprints -> {"none", "partial", "whole"}]
  /\ newDeployment \in [LocalBlueprints -> {"none", "partial", "whole"}]
  /\ \A c \in Cmds :
       /\ backup[c] \subseteq LocalBlueprints /\ toMove[c] \subseteq LocalBlueprints
       /\ Cardinality(moving[c]) <= 1
       /\ movePc[c] \in {"idle", "backup", "move", "failed", "done"}

\* No blueprint is lost: at every moment it is whole in the old layout or in
\* the new one, whoever is killed and however two migrations interleave.
NothingLost == \A b \in LocalBlueprints :
  b \in old \/ (newBlueprint[b] = "whole" /\ newDeployment[b] = "whole")

\* Before anything is moved, somebody has backed up all of it.
BackupFirst == NewLayout => \E c \in Cmds : backup[c] = LocalBlueprints

\* Two commands never move the same blueprint.
MovedByOne == \A c, d \in Cmds : c # d => moving[c] \cap moving[d] = {} \/ "failed" \in {movePc[c], movePc[d]}

\* The profile's data survive its migration.
MigrationInv == MoveTypeOK /\ NothingLost /\ BackupFirst /\ MovedByOne
=============================================================================
