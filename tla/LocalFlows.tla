------------------------------ MODULE LocalFlows -------------------------------
(***************************************************************************)
(* Applications without a manager: `cfy init BLUEPRINT', `cfy install',    *)
(* `cfy uninstall' and `cfy executions start' of a local profile           *)
(* (commands/init.py, install.local, uninstall.local,                      *)
(* executions.local_start, local.py).  A blueprint and its one deployment  *)
(* are stored under one id; initializing the blueprint again replaces      *)
(* both.  A command may fail, or be killed, at any step, and is given any  *)
(* version of the blueprint.                                               *)
(*                                                                         *)
(* The storage, the workflows and pip are external; a workflow runs on     *)
(* what is stored.                                                         *)
(***************************************************************************)
EXTENDS Naturals, Sequences, Functions

CONSTANTS
  Versions,         \* of the blueprint
  MaxLocalCommands  \* bound: commands, one after the other

ASSUME LocalAssumption == MaxLocalCommands \in Nat

VARIABLES
  localBlueprint,  \* the version stored, in a set of one; {}: none
  localDeployment, \* the version the stored deployment was made from, likewise
  application,     \* what that deployment says of the application
  localOp,         \* the command and its options
  localSteps,      \* what is left to do
  givenVersion,    \* the version the command was given, in a set
  localTemp,       \* the temporary directory of the archive the command extracted
  localResult,     \* how the command ended
  localCount,      \* how many commands were run
  ranOn,           \* (history) the version the command's workflow ran on
  executed,        \* (history) the workflow succeeded
  storedBefore     \* (history) what was stored before the command

storage == <<localBlueprint, localDeployment, application>>
localVars == <<storage, localOp, localSteps, givenVersion, localTemp, localResult, localCount,
               ranOn, executed, storedBefore>>

\* An archive's one directory has the blueprint's file, or with -n some
\* directory in it, or one in that.
Archives == {"flat", "nested", "deeper"}

LocalOps ==
  [op : {"init", "install"}, archive : Archives \cup {"no"}, validate : BOOLEAN, plugins : BOOLEAN]
    \cup [op : {"uninstall", "start"}, archive : {"no"}, validate : {FALSE}, plugins : {FALSE}]
NoOp == [op |-> "none", archive |-> "no", validate |-> FALSE, plugins |-> FALSE]

LocalInit ==
  /\ localBlueprint = {} /\ localDeployment = {} /\ application = "none"
  /\ localOp = NoOp /\ localSteps = <<>> /\ givenVersion = {} /\ localTemp = "none"
  /\ localResult = "none" /\ localCount = 0 /\ ranOn = {} /\ executed = FALSE
  /\ storedBefore = <<{}, {}, "none">>

Optional(wanted, step) == IF wanted THEN <<step>> ELSE <<>>

\* (mutant) The blueprint first.
RemovalSwapped == <<"remove_blueprint", "remove_deployment">>

\* local.remove()
Removal == <<"remove_deployment", "remove_blueprint">>

\* init() with a blueprint
InitPlan(o) ==
  <<"activate">> \o Optional(o.op = "init", "path") \o Removal
    \o Optional(o.plugins, "plugins") \o <<"store_blueprint", "store_deployment">>

\* local() of install.py and uninstall.py, local_start()
LocalPlan(o) ==
  CASE o.op = "init"      -> InitPlan(o)
    [] o.op = "install"   -> <<"path">> \o Optional(o.validate, "validate") \o InitPlan(o)
                               \o <<"clean_up", "load", "execute">>
    [] o.op = "start"     -> <<"load", "execute">>
    [] o.op = "uninstall" -> <<"load", "execute">> \o Removal

LocalCall(o, v) ==
  /\ localSteps = <<>> /\ localCount < MaxLocalCommands
  /\ localOp' = o /\ localSteps' = LocalPlan(o) /\ givenVersion' = {v}
  /\ localTemp' = "none" /\ localResult' = "none" /\ localCount' = localCount + 1
  /\ ranOn' = {} /\ executed' = FALSE /\ storedBefore' = storage
  /\ UNCHANGED storage
-----------------------------------------------------------------------------
LocalAt(step) == localSteps # <<>> /\ Head(localSteps) = step

Proceed ==
  /\ localSteps' = Tail(localSteps)
  /\ localResult' = IF localSteps' = <<>> /\ localResult = "none" THEN "done" ELSE localResult

\* The steps of install that are in its try statement, whose finally removes
\* what an archive was extracted to.
InTryBlock == Head(localSteps) # "path" /\ "clean_up" \in Range(localSteps)

\* An exception: install's try statement still cleans up.
Raise ==
  /\ localResult' = "failed"
  /\ localSteps' = IF InTryBlock THEN <<"clean_up">> ELSE <<>>

Command == <<localOp, givenVersion, localCount, storedBefore>>
Kept == <<Command, localTemp, ranOn, executed>>

\* blueprint.get, or get_blueprint_path_and_id: the blueprint may be missing
\* from the archive, which is not removed then.
GetLocalPath ==
  /\ LocalAt("path")
  /\ localTemp' = IF localOp.archive = "no" THEN "none" ELSE "there"
  /\ \/ Proceed
     \/ localSteps' = <<>> /\ localResult' = "bad_path"
  /\ UNCHANGED <<Command, storage, ranOn, executed>>

\* validate_blueprint; init_local_profile and set_active_profile (their files
\* are in ProfileStore); _install_plugins.
CheckOrPrepare ==
  /\ LocalAt("validate") \/ LocalAt("activate") \/ LocalAt("plugins")
  /\ Proceed \/ Raise
  /\ UNCHANGED <<Kept, storage>>

\* remove() is called if the blueprint is stored; without it there is nothing
\* to remove.
RemoveDeployment ==
  /\ LocalAt("remove_deployment")
  /\ \/ localDeployment' = {} /\ application' = "none" /\ Proceed
     \/ UNCHANGED <<localDeployment, application>> /\ Raise
  /\ UNCHANGED <<Kept, localBlueprint>>

RemoveBlueprint ==
  /\ LocalAt("remove_blueprint")
  /\ \/ localBlueprint' = {} /\ Proceed
     \/ UNCHANGED localBlueprint /\ Raise
  /\ UNCHANGED <<Kept, localDeployment, application>>

\* initialize_blueprint: init_env parses (the error says to install the
\* plugins if one is missing) and stores the blueprint and the deployment.
StoreBlueprint ==
  /\ LocalAt("store_blueprint")
  /\ \/ localBlueprint' = givenVersion /\ Proceed
     \/ UNCHANGED localBlueprint /\ Raise
  /\ UNCHANGED <<Kept, localDeployment, application>>

StoreDeployment ==
  /\ LocalAt("store_deployment")
  /\ \/ localDeployment' = givenVersion /\ application' = "none" /\ Proceed
     \/ UNCHANGED <<localDeployment, application>> /\ Raise
  /\ UNCHANGED <<Kept, localBlueprint>>

\* What is left of the temporary directory without the directory that has the
\* directory of the blueprint's file: nothing, an empty one, or all the rest.
LocalTempAfter ==
  CASE localOp.archive = "flat"   -> "removed"
    [] localOp.archive = "nested" -> "emptied"
    [] localOp.archive = "deeper" -> "partly"
    [] OTHER                      -> "none"

\* shutil.rmtree, if the path is not the user's; an error in the finally block
\* is the command's.
CleanUp ==
  /\ LocalAt("clean_up")
  /\ \/ localTemp' = LocalTempAfter /\ Proceed
     \/ /\ localTemp = "there" /\ localTemp' = "partly"
        /\ localSteps' = <<>> /\ localResult' = "unclean"
  /\ UNCHANGED <<Command, storage, ranOn, executed>>

\* load_env: "Please initialize a blueprint" without a deployment.
LoadEnv ==
  /\ LocalAt("load")
  /\ IF localDeployment = {} THEN Raise /\ UNCHANGED <<ranOn, application>>
     ELSE /\ Proceed
          /\ ranOn' = localDeployment /\ application' = "partly"
  /\ UNCHANGED <<Command, localBlueprint, localDeployment, localTemp, executed>>

\* env.execute
Execute ==
  /\ LocalAt("execute")
  /\ \/ /\ application' = IF localOp.op = "uninstall" THEN "uninstalled" ELSE "installed"
        /\ executed' = TRUE /\ Proceed
     \/ UNCHANGED <<application, executed>> /\ Raise
  /\ UNCHANGED <<Command, localBlueprint, localDeployment, localTemp, ranOn>>

LocalKilled ==
  /\ localSteps # <<>> /\ localSteps' = <<>> /\ localResult' = "killed"
  /\ UNCHANGED <<Kept, storage>>

LocalFlowStep ==
  \/ GetLocalPath \/ CheckOrPrepare \/ RemoveDeployment \/ RemoveBlueprint
  \/ StoreBlueprint \/ StoreDeployment \/ CleanUp \/ LoadEnv \/ Execute
LocalNext ==
  \/ LocalFlowStep \/ LocalKilled
  \/ \E o \in LocalOps, v \in Versions : LocalCall(o, v)
-----------------------------------------------------------------------------
\* Types of the variables.
LocalTypeOK ==
  LET AtMostOne == {{}} \cup {{v} : v \in Versions}
      States == {"none", "partly", "installed", "uninstalled"}
  IN  /\ {localBlueprint, localDeployment, givenVersion, ranOn} \subseteq AtMostOne
      /\ application \in States /\ storedBefore \in AtMostOne \X AtMostOne \X States
      /\ localOp \in LocalOps \cup {NoOp}
      /\ localTemp \in {"none", "there", "removed", "emptied", "partly"}
      /\ executed \in BOOLEAN /\ localCount \in 0..MaxLocalCommands
      /\ localResult \in {"none", "done", "failed", "unclean", "bad_path", "killed"}

\* Wherever earlier commands stopped, a stored deployment was made from the
\* stored blueprint: else blueprint_exists would say no, init would not remove
\* it, and the record of an application would belong to another blueprint.
DeploymentIsOfBlueprint == localDeployment # {} => localDeployment = localBlueprint

\* `cfy install' runs its workflow on the blueprint it was given, not on one
\* stored before under the same id, and success means it was installed.
RunsWhatWasGiven ==
  localOp.op = "install" =>
    /\ ranOn \in {{}, givenVersion}
    /\ localResult = "done" => application = "installed" /\ localDeployment = givenVersion

\* Until its workflow has succeeded, an `uninstall' that fails or is killed can
\* be repeated with what is stored; from then on, whatever is left when it stops
\* while it removes that, no record says that the application is installed.
UninstallIsRepeatable ==
  localOp.op = "uninstall" =>
    /\ ~executed => <<localBlueprint, localDeployment>> = <<storedBefore[1], storedBefore[2]>>
    /\ executed => application \in {"uninstalled", "none"}
    /\ localResult = "done" => localBlueprint = {} /\ localDeployment = {}

\* Until the checks of `init' and `install' are passed, nothing is lost.
ChecksComeFirst ==
  {"path", "validate"} \cap Range(localSteps) # {} \/ localResult = "bad_path" =>
    storage = storedBefore

\* "a temp folder will be created that should be later removed": it is, before
\* the workflow runs and when checking or initializing fails, if the blueprint's
\* file is not in a directory of the archive's; else some of it, and the file.
TempIsRemoved ==
  localOp.op = "install" =>
    \/ localTemp = "none"
    \/ localTemp = IF localOp.archive = "flat" THEN "removed" ELSE LocalTempAfter
    \/ "clean_up" \in Range(localSteps)
    \/ localResult \in {"unclean", "bad_path", "killed"}

\* What local commands, repeated and interrupted, leave: records that belong
\* together, tell of no application that is gone, and no temporary directory.
LocalInv ==
  /\ LocalTypeOK /\ DeploymentIsOfBlueprint /\ RunsWhatWasGiven
  /\ UninstallIsRepeatable /\ ChecksComeFirst /\ TempIsRemoved
=============================================================================
