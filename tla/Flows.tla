-------------------------------- MODULE Flows ---------------------------------
(***************************************************************************)
(* Commands made of other commands: `cfy install' (of a deployment or of a *)
(* group), `cfy uninstall' and `cfy apply' (commands/install.py,           *)
(* uninstall.py, apply.py), and the commands of deployments.py that they   *)
(* invoke, create, update and delete.  A flow is a list of steps; the      *)
(* first that fails ends it, and nothing is undone but the directory an    *)
(* archive was extracted to.                                               *)
(*                                                                         *)
(* The manager is external: one deployment, whose blueprint other users    *)
(* may deploy too.  It refuses a blueprint that it has already, to delete  *)
(* a blueprint with deployments, and, unless forced, a deployment that is  *)
(* not uninstalled.  It deletes deployments in the background, and may     *)
(* queue the execution of a workflow, to run it later or never.            *)
(***************************************************************************)
EXTENDS Naturals, Sequences, Functions

VARIABLES
  flow,           \* the command and its options
  steps,          \* what is left to do
  flowResult,     \* how the command ended
  extracted,      \* the temporary directory
  uploaded,       \* the blueprints on the manager
  deployment,     \* the deployment's state ...
  basedOn,        \* ... and blueprint
  sharing,        \* whether others have deployed its blueprint
  group,          \* the deployment group
  workflow,       \* (history) how the workflow of the flow ended, or that it was
                  \* queued, and run `late', if at all
  deletion        \* (history) how the manager's deletion ended

flowVars == <<flow, steps, flowResult, extracted, uploaded, deployment, basedOn, sharing,
              group, workflow, deletion>>
managerVars == <<uploaded, deployment, basedOn, sharing, group>>

Ops == {"install", "installGroup", "apply", "uninstall", "delete", "update"}
\* The options that the command has; `nested': -n names a file in a subdirectory.
Options ==
  {o \in [op : Ops, archive : BOOLEAN, nested : BOOLEAN, force : BOOLEAN, preview : BOOLEAN,
          labels : BOOLEAN] :
     /\ o.nested => o.archive
     /\ o.archive => o.op \in {"install", "installGroup", "apply"}
     /\ o.force => o.op \in {"uninstall", "delete"}
     /\ o.preview => o.op \in {"apply", "update"}
     /\ o.labels => o.op = "apply"}
NoFlow == [op |-> "none", archive |-> FALSE, nested |-> FALSE, force |-> FALSE,
           preview |-> FALSE, labels |-> FALSE]

DeploymentStates == {"absent", "created", "installed", "partly", "uninstalled", "deleting"}

FlowInit ==
  /\ flow = NoFlow /\ steps = <<>> /\ flowResult = "none" /\ extracted = "none"
  /\ uploaded = {} /\ deployment = "absent" /\ basedOn = "none" /\ sharing = FALSE
  /\ group = "absent" /\ workflow = "none" /\ deletion = "none"

Plan(o) ==
  CASE o.op = "install"      -> <<"path", "upload", "create", "start">>
    [] o.op = "installGroup" -> <<"path", "upload", "createGroup", "extendGroup", "startGroup">>
    [] o.op = "apply"        -> <<"path", "find">>
    [] o.op = "uninstall"    -> <<"start", "getBlueprint", "delete", "await", "deleteBlueprint">>
    [] o.op = "delete"       -> <<"delete", "await">>
    [] o.op = "update"       -> <<"update">>

\* A command on a manager that has nothing, the blueprint, or the deployment.
FlowCall(o) ==
  /\ flowResult = "none" /\ steps = <<>>
  /\ flow' = o /\ steps' = Plan(o)
  /\ \/ deployment' = "absent" /\ basedOn' = "none" /\ uploaded' \in SUBSET {"app"}
     \/ /\ deployment' \in {"created", "installed", "partly", "uninstalled"}
        /\ basedOn' = "app" /\ uploaded' = {"app"}
  /\ sharing' \in (IF "app" \in uploaded' THEN BOOLEAN ELSE {FALSE})
  /\ UNCHANGED <<flowResult, extracted, group, workflow, deletion>>
-----------------------------------------------------------------------------
At(step) == steps # <<>> /\ Head(steps) = step

\* The steps inside the try statement whose finally removes the directory.
TryBlock == IF flow.op = "apply" THEN {"find", "upload", "create", "start", "update", "labels"}
                                 ELSE {"upload"}

\* rmtree(dirname(dirname(processed_blueprint_path))): the temporary directory, or
\* a part of what is in it if the file is in a subdirectory.
AfterRmtree == IF flow.nested THEN "partly" ELSE "removed"

RemoveExtracted(left, failed) ==
  extracted' = IF /\ extracted = "made" /\ Head(steps) \in TryBlock
                  /\ failed \/ Range(left) \cap TryBlock = {}
               THEN AfterRmtree ELSE extracted

ContinueWith(left) ==
  /\ steps' = left /\ flowResult' = (IF left = <<>> THEN "done" ELSE "none")
  /\ RemoveExtracted(left, FALSE)
  /\ UNCHANGED flow
Continue == ContinueWith(Tail(steps))
Fail == /\ steps' = <<>> /\ flowResult' = "error" /\ RemoveExtracted(<<>>, TRUE)
        /\ UNCHANGED flow

\* get_blueprint_path_and_id.  What is downloaded or extracted is not removed
\* if the blueprint is not in it, nor if install's options are wrong: both are
\* found out before the try statement.
GetPath ==
  /\ At("path")
  /\ extracted' = IF flow.archive THEN "made" ELSE "none"
  /\ \/ steps' = Tail(steps) /\ UNCHANGED flowResult
     \/ steps' = <<>> /\ flowResult' = "bad_arguments"
  /\ UNCHANGED <<flow, managerVars, workflow, deletion>>

\* apply: the deployment's existence decides between install and an update
\* with a blueprint of a new name; labels are added after the update.
FindDeployment ==
  /\ At("find")
  /\ \/ IF deployment = "absent" THEN ContinueWith(<<"upload", "create", "start">>)
        ELSE ContinueWith(IF flow.labels THEN <<"upload", "update", "labels">>
                                         ELSE <<"upload", "update">>)
     \/ Fail
  /\ UNCHANGED <<managerVars, workflow, deletion>>

NewName == IF At("upload") /\ Len(steps) > 1 /\ steps[2] = "update" THEN "app-time" ELSE "app"

\* blueprints.upload, module BlueprintUpload.
UploadBlueprint ==
  /\ At("upload")
  /\ \/ /\ NewName \notin uploaded
        /\ uploaded' = uploaded \cup {NewName} /\ Continue
     \/ uploaded' \in {uploaded, uploaded \cup {NewName}} /\ Fail
  /\ UNCHANGED <<deployment, basedOn, sharing, group, workflow, deletion>>

CreateDeployment ==
  /\ At("create")
  /\ \/ /\ deployment = "absent" /\ "app" \in uploaded
        /\ deployment' = "created" /\ basedOn' = "app" /\ Continue
     \/ UNCHANGED <<deployment, basedOn>> /\ Fail
  /\ UNCHANGED <<uploaded, sharing, group, workflow, deletion>>

\* (mutant) A workflow that failed is reported like one that was cancelled.
ReturnsWithoutState(how) == how \in {"queued", "terminated", "cancelled", "failed"}

\* executions.manager_start returns at once if the execution is queued, and else
\* if the execution that it waited for has no error: a cancelled one has none.
ReturnsNormally(how) == how \in {"queued", "terminated", "cancelled"}

\* What the workflow of the flow makes of the deployment.
Achieved == IF flow.op = "uninstall" THEN "uninstalled" ELSE "installed"

StartWorkflow ==
  /\ At("start")
  /\ \E how \in {"queued", "terminated", "cancelled", "failed", "timeout", "refused"} :
       /\ deployment = "absent" => how = "refused"
       /\ workflow' = how
       /\ deployment' = IF how \in {"queued", "refused"} THEN deployment
                        ELSE IF how = "terminated" THEN Achieved ELSE "partly"
       /\ IF ReturnsNormally(how) THEN Continue ELSE Fail
  /\ UNCHANGED <<uploaded, basedOn, sharing, group, deletion>>

UpdateDeployment ==
  /\ At("update")
  /\ \E how \in {"terminated", "cancelled", "failed", "refused", "invalid"} :
       /\ deployment = "absent" => how \in {"refused", "invalid"}
       /\ flow.preview => how \in {"terminated", "refused", "invalid"}
       /\ IF how \in {"refused", "invalid"} \/ flow.preview
          THEN UNCHANGED <<deployment, basedOn, workflow>>
          ELSE /\ workflow' = how
               /\ basedOn' \in (IF flow.op # "apply" THEN {basedOn}
                                ELSE IF how = "terminated" THEN {"app-time"}
                                ELSE {basedOn, "app-time"})
               /\ deployment' = IF how = "terminated" THEN deployment ELSE "partly"
       /\ IF how \in {"terminated", "cancelled"} THEN Continue ELSE Fail
  /\ UNCHANGED <<uploaded, sharing, group, deletion>>

AddLabels ==
  /\ At("labels") /\ (Continue \/ Fail)
  /\ UNCHANGED <<managerVars, workflow, deletion>>
-----------------------------------------------------------------------------
\* deployment_groups.put and add_deployments, then an execution group, whose
\* executions' errors are not looked at when it ended.
CreateGroup ==
  /\ At("createGroup")
  /\ (group' = "empty" /\ Continue) \/ (UNCHANGED group /\ Fail)
  /\ UNCHANGED <<uploaded, deployment, basedOn, sharing, workflow, deletion>>
ExtendGroup ==
  /\ At("extendGroup")
  /\ (group' = "created" /\ Continue) \/ (UNCHANGED group /\ Fail)
  /\ UNCHANGED <<uploaded, deployment, basedOn, sharing, workflow, deletion>>
StartGroup ==
  /\ At("startGroup")
  /\ \E how \in {"terminated", "failed", "cancelled", "timeout", "refused"} :
       /\ workflow' = how
       /\ group' = IF how = "terminated" THEN "installed" ELSE group
       /\ IF how \in {"timeout", "refused"} THEN Fail ELSE Continue
  /\ UNCHANGED <<uploaded, deployment, basedOn, sharing, deletion>>
-----------------------------------------------------------------------------
\* uninstall: the blueprint's name is read while the deployment is there.
GetDeployment ==
  /\ At("getBlueprint")
  /\ (deployment # "absent" /\ Continue) \/ Fail
  /\ UNCHANGED <<managerVars, workflow, deletion>>

DeleteDeployment ==
  /\ At("delete")
  /\ \/ /\ deployment # "absent" /\ (flow.force \/ deployment \in {"created", "uninstalled"})
        /\ deployment' = "deleting" /\ Continue
     \/ UNCHANGED deployment /\ Fail
  /\ UNCHANGED <<uploaded, basedOn, sharing, group, workflow, deletion>>

\* The execution that deletes it is waited for: what went with the deployment
\* is not found, which is fine, and its error is not looked at.
AwaitDeletion ==
  /\ At("await")
  /\ (deployment # "deleting" /\ Continue) \/ Fail
  /\ UNCHANGED <<managerVars, workflow, deletion>>

DeleteBlueprint ==
  /\ At("deleteBlueprint")
  /\ \/ /\ deployment = "absent" /\ ~sharing
        /\ uploaded' = uploaded \ {"app"} /\ Continue
     \/ UNCHANGED uploaded /\ Fail
  /\ UNCHANGED <<deployment, basedOn, sharing, group, workflow, deletion>>

\* The manager deletes, or fails to; other users deploy the blueprint.
DeletionEnds ==
  /\ deployment = "deleting"
  /\ \/ deployment' = "absent" /\ deletion' = "terminated"
     \/ deployment' = "uninstalled" /\ deletion' = "failed"
  /\ UNCHANGED <<flow, steps, flowResult, extracted, uploaded, basedOn, sharing, group, workflow>>
\* A queued workflow runs, if the deployment is still there.
QueuedRuns ==
  /\ workflow = "queued" /\ deployment \notin {"absent", "deleting"}
  /\ workflow' = "late" /\ deployment' \in {Achieved, "partly"}
  /\ UNCHANGED <<flow, steps, flowResult, extracted, uploaded, basedOn, sharing, group, deletion>>
OthersDeploy ==
  /\ steps # <<>> /\ "app" \in uploaded /\ ~sharing /\ sharing' = TRUE
  /\ UNCHANGED <<flow, steps, flowResult, extracted, uploaded, deployment, basedOn, group,
                 workflow, deletion>>

FlowStep ==
  \/ GetPath \/ FindDeployment \/ UploadBlueprint \/ CreateDeployment \/ StartWorkflow
  \/ UpdateDeployment \/ AddLabels \/ CreateGroup \/ ExtendGroup \/ StartGroup
  \/ GetDeployment \/ DeleteDeployment \/ AwaitDeletion \/ DeleteBlueprint
FlowNext == FlowStep \/ DeletionEnds \/ QueuedRuns \/ OthersDeploy \/ \E o \in Options : FlowCall(o)
-----------------------------------------------------------------------------
FlowTypeOK ==
  /\ flow \in Options \cup {NoFlow}
  /\ flowResult \in {"none", "done", "error", "bad_arguments"}
  /\ extracted \in {"none", "made", "partly", "removed"}
  /\ uploaded \subseteq {"app", "app-time"} /\ deployment \in DeploymentStates
  /\ basedOn \in {"none", "app", "app-time"} /\ sharing \in BOOLEAN
  /\ group \in {"absent", "empty", "created", "installed"}
  /\ deletion \in {"none", "terminated", "failed"}

\* What a flow that ends without an error claims is so: the application is
\* installed, or the deployment is gone and its blueprint too, although nobody
\* looks at the deletion's error.  A workflow that was queued or cancelled is told
\* as that and the flow goes on; so it does after a deletion that failed, which
\* `deployments delete' tells as done.
FlowReportIsTrue ==
  flowResult = "done" =>
    /\ flow.op = "uninstall" => deployment = "absent" /\ "app" \notin uploaded
    /\ flow.op = "delete" => deployment = "absent" \/ deletion = "failed"
    /\ flow.op = "install" =>
         deployment = "installed" \/ workflow \in {"cancelled", "queued", "late"}
    /\ flow.op = "installGroup" => group # "absent" /\ "app" \in uploaded
    /\ flow.op = "apply" /\ ~flow.preview /\ workflow # "cancelled" =>
         deployment # "absent" /\ basedOn \in uploaded

\* Nothing is deleted when the uninstall workflow was refused, failed or did not
\* end in time, not even with --force, which the manager would obey.  (It is when
\* the workflow is only queued, and then the workflow finds nothing to do.)
DeletedAfterUninstall ==
  flow.op = "uninstall" /\ (deployment = "deleting" \/ deletion # "none") =>
    workflow \in {"terminated", "cancelled", "queued", "late"}

\* "a temp folder will be created that should be later removed": however the
\* upload and, in apply, all that follows it ends, it is removed, all of it if the
\* blueprint file is at the top of the archive, and otherwise in part.
FlowCleansUp ==
  flowResult \in {"done", "error"} =>
    extracted \in (IF flow.nested THEN {"partly"} ELSE {"none", "removed"})

\* What a flow reports is so, it destroys nothing after a failure, and the extracted
\* files are removed, as far as the path of the blueprint file leads to them.
FlowInv == FlowTypeOK /\ FlowReportIsTrue /\ DeletedAfterUninstall /\ FlowCleansUp
=============================================================================
