------------------------------ MODULE CfyCommand -------------------------------
(***************************************************************************)
(* The commands whose modules share no state, put side by side: a cfy      *)
(* process runs one command, and a behaviour is that of one command, of    *)
(* the manager and of the other users and processes it meets.              *)
(***************************************************************************)
EXTENDS AgentFilters, BlueprintUpload, PluginInstall, PluginsUpdate, Flows,
        Labels, Credentials, ClusterProfile, ReplaceCertificates, LocalMigration,
        EventsDelete, Maintenance, Schedules, ProfileArchive, LocalFlows

VARIABLE command

CommandNames == {"agents", "upload", "plugins_install", "plugins_update", "flow",
                 "labels", "profiles", "cluster", "certificates", "local", "events",
                 "maintenance", "schedules", "archive", "local_flow"}

cfyVars == <<command, filterVars, uploadVars, installVars, updateVars, flowVars, labelVars,
             authVars, clusterVars, certVars, moveVars, eventsVars, modeVars, scheduleVars,
             archiveVars, localVars>>

\* Only the command that is run needs its choice of initial states.
CfyInit ==
  /\ command \in CommandNames
  /\ FilterInit /\ UploadInit /\ InstallInit /\ UpdateInit /\ FlowInit
  /\ LabelInit /\ AuthInit /\ ClusterInit /\ CertInit /\ MoveInit
  /\ EventsInit /\ ModeInit /\ ScheduleInit /\ ArchiveInit /\ LocalInit
  /\ command # "plugins_update" => listed = CHOOSE l \in InitialLists : TRUE
  /\ command # "labels" => resource = "labels" /\ firstLabels = CHOOSE i \in InitialLabels : TRUE
  /\ command # "maintenance" => ~working
  /\ command # "archive" => <<keyPath, keyFile>> = CHOOSE b \in Beginnings : TRUE
-----------------------------------------------------------------------------
\* One command runs, and the state of the others stands still.
InAgents ==
  /\ command = "agents"
  /\ UNCHANGED <<command, uploadVars, installVars, updateVars, flowVars, labelVars,
                 authVars, clusterVars, certVars, moveVars, eventsVars, modeVars, scheduleVars,
                 archiveVars, localVars>>
InUpload ==
  /\ command = "upload"
  /\ UNCHANGED <<command, filterVars, installVars, updateVars, flowVars, labelVars,
                 authVars, clusterVars, certVars, moveVars, eventsVars, modeVars, scheduleVars,
                 archiveVars, localVars>>
InPluginsInstall ==
  /\ command = "plugins_install"
  /\ UNCHANGED <<command, filterVars, uploadVars, updateVars, flowVars, labelVars,
                 authVars, clusterVars, certVars, moveVars, eventsVars, modeVars, scheduleVars,
                 archiveVars, localVars>>
InPluginsUpdate ==
  /\ command = "plugins_update"
  /\ UNCHANGED <<command, filterVars, uploadVars, installVars, flowVars, labelVars,
                 authVars, clusterVars, certVars, moveVars, eventsVars, modeVars, scheduleVars,
                 archiveVars, localVars>>
InFlow ==
  /\ command = "flow"
  /\ UNCHANGED <<command, filterVars, uploadVars, installVars, updateVars, labelVars,
                 authVars, clusterVars, certVars, moveVars, eventsVars, modeVars, scheduleVars,
                 archiveVars, localVars>>
InLabels ==
  /\ command = "labels"
  /\ UNCHANGED <<command, filterVars, uploadVars, installVars, updateVars, flowVars,
                 authVars, clusterVars, certVars, moveVars, eventsVars, modeVars, scheduleVars,
                 archiveVars, localVars>>
InProfiles ==
  /\ command = "profiles"
  /\ UNCHANGED <<command, filterVars, uploadVars, installVars, updateVars, flowVars,
                 labelVars, clusterVars, certVars, moveVars, eventsVars, modeVars, scheduleVars,
                 archiveVars, localVars>>
InCluster ==
  /\ command = "cluster"
  /\ UNCHANGED <<command, filterVars, uploadVars, installVars, updateVars, flowVars,
                 labelVars, authVars, certVars, moveVars, eventsVars, modeVars, scheduleVars,
                 archiveVars, localVars>>
InCertificates ==
  /\ command = "certificates"
  /\ UNCHANGED <<command, filterVars, uploadVars, installVars, updateVars, flowVars,
                 labelVars, authVars, clusterVars, moveVars, eventsVars, modeVars, scheduleVars,
                 archiveVars, localVars>>
InLocal ==
  /\ command = "local"
  /\ UNCHANGED <<command, filterVars, uploadVars, installVars, updateVars, flowVars,
                 labelVars, authVars, clusterVars, certVars, eventsVars, modeVars, scheduleVars,
                 archiveVars, localVars>>
InEvents ==
  /\ command = "events"
  /\ UNCHANGED <<command, filterVars, uploadVars, installVars, updateVars, flowVars,
                 labelVars, authVars, clusterVars, certVars, moveVars, modeVars, scheduleVars,
                 archiveVars, localVars>>
InMaintenance ==
  /\ command = "maintenance"
  /\ UNCHANGED <<command, filterVars, uploadVars, installVars, updateVars, flowVars,
                 labelVars, authVars, clusterVars, certVars, moveVars, eventsVars, scheduleVars,
                 archiveVars, localVars>>
InSchedules ==
  /\ command = "schedules"
  /\ UNCHANGED <<command, filterVars, uploadVars, installVars, updateVars, flowVars,
                 labelVars, authVars, clusterVars, certVars, moveVars, eventsVars, modeVars,
                 archiveVars, localVars>>
InArchive ==
  /\ command = "archive"
  /\ UNCHANGED <<command, filterVars, uploadVars, installVars, updateVars, flowVars,
                 labelVars, authVars, clusterVars, certVars, moveVars, eventsVars, modeVars,
                 scheduleVars, localVars>>
InLocalFlow ==
  /\ command = "local_flow"
  /\ UNCHANGED <<command, filterVars, uploadVars, installVars, updateVars, flowVars,
                 labelVars, authVars, clusterVars, certVars, moveVars, eventsVars, modeVars,
                 scheduleVars, archiveVars>>

CfyNext ==
  \/ InAgents /\ FilterNext
  \/ InUpload /\ UploadNext
  \/ InPluginsInstall /\ InstallNext
  \/ InPluginsUpdate /\ UpdateNext
  \/ InFlow /\ FlowNext
  \/ InLabels /\ LabelNext
  \/ InProfiles /\ AuthNext
  \/ InCluster /\ ClusterNext
  \/ InCertificates /\ CertNext
  \/ InLocal /\ MoveNext
  \/ InEvents /\ EventsNext
  \/ InMaintenance /\ ModeNext
  \/ InSchedules /\ ScheduleNext
  \/ InArchive /\ ArchiveNext
  \/ InLocalFlow /\ LocalNext

\* The process of the command runs on; the manager and others need not.  The
\* steps of a command that is not run are never enabled.
Fairness ==
  /\ WF_filterVars(FilterStep)
  /\ WF_uploadVars(UploadStep)
  /\ WF_installVars(InstallStep)
  /\ WF_updateVars(UpdateStep)
  /\ WF_flowVars(FlowStep)
  /\ WF_certVars(CertStep)
  /\ WF_eventsVars(EventsStep)
  /\ WF_modeVars(ModeStep)
  /\ WF_archiveVars(TransferStep)
  /\ WF_localVars(LocalFlowStep)

CfySpec == CfyInit /\ [][CfyNext]_cfyVars /\ Fairness
-----------------------------------------------------------------------------
\* Commands that have begun and not ended.
Running ==
  \/ filterPc \in {"read", "page"}
  \/ uploadPc \notin {"idle", "done"}
  \/ installPc \notin {"idle", "done"}
  \/ updatePc \notin {"idle", "done"}
  \/ steps # <<>>
  \/ certsPc \notin {"idle", "failed", "replaced"}
  \/ deletePc \notin {"idle", "done"}
  \/ ModeWaits
  \/ transferPc \notin Resting
  \/ localSteps # <<>>

\* A command returns, whatever the manager does and leaves undone: each of
\* its waits has an end.  (The waits for executions are in ExecutionWait.)
CommandReturns == Running ~> ~Running
=============================================================================
