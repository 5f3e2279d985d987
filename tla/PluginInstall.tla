----------------------------- MODULE PluginInstall -----------------------------
(***************************************************************************)
(* `cfy plugins install' (commands/plugins.py, install and                 *)
(* _wait_for_plugin_to_be_installed): ask for a plugin to be installed on  *)
(* managers and agents, then poll its installation states until each of    *)
(* them has reported, or the time is up.                                   *)
(*                                                                         *)
(* The manager is external: it lists the installation state of a target,   *)
(* a manager or an agent, from some time on, and changes it at any moment; *)
(* an installation that failed may be tried again.                         *)
(***************************************************************************)
EXTENDS Integers, FiniteSets

CONSTANTS
  Hosts,           \* managers; the default is all of them
  Agents,
  InstallTimeouts, \* values of --timeout
  PollLatency      \* bound: duration of a poll, in units of the sleep

ASSUME InstallAssumption ==
  /\ Hosts # {} /\ Hosts \cap Agents = {} /\ IsFiniteSet(Hosts \cup Agents)
  /\ InstallTimeouts \subseteq Nat /\ PollLatency \in Nat

Targets == Hosts \cup Agents

VARIABLES
  installState,  \* state of each target on the manager
  requested,     \* the targets that were asked for
  awaited,       \* wait_managers and wait_agents
  errorCount,    \* errors
  remainingTime, \* deadline - time.time()
  installPc,
  installResult,
  reportedState  \* (history) the state with which a target left `awaited'

installVars == <<installState, requested, awaited, errorCount, remainingTime, installPc,
                 installResult, reportedState>>

InstallInit ==
  /\ installState = [t \in Targets |-> "unknown"]
  /\ requested = {} /\ awaited = {} /\ errorCount = 0
  /\ remainingTime = 0
  /\ installPc = "idle" /\ installResult = "none"
  /\ reportedState = [t \in Targets |-> "unknown"]

\* plugins.install(); without arguments the plugin goes to all managers.
InstallCall(targets, timeout) ==
  /\ installPc = "idle"
  /\ requested' = IF targets = {} THEN Hosts ELSE targets
  /\ awaited' = requested'
  /\ remainingTime' = timeout
  /\ \/ installPc' = "check" /\ UNCHANGED installResult
     \/ installPc' = "done" /\ installResult' = "refused"
  /\ UNCHANGED <<installState, errorCount, reportedState>>

\* The manager, once it has been asked.
InstallationMoves(t) ==
  /\ installPc \in {"check", "poll"}
  /\ t \in requested /\ installState[t] # "installed"
  /\ \E s \in {"installing", "installed", "error"} :
       installState' = [installState EXCEPT ![t] = s]
  /\ UNCHANGED <<requested, awaited, errorCount, remainingTime, installPc, installResult,
                 reportedState>>

\* while time.time() < deadline, else: the timeout
CheckInstallDeadline ==
  /\ installPc = "check"
  /\ IF remainingTime > 0 THEN installPc' = "poll" /\ UNCHANGED installResult
     ELSE installPc' = "done" /\ installResult' = "timeout"
  /\ UNCHANGED <<installState, requested, awaited, errorCount, remainingTime, reportedState>>

Installed == {t \in awaited : installState[t] = "installed"}
Failing == {t \in awaited : installState[t] = "error"}

\* (mutant) A target that is being installed is not waited for.
LeavingKnown == {t \in awaited : installState[t] # "unknown"}

\* A target is no longer waited for when it is installed or has failed.
Leaving == Installed \cup Failing

ErrorsAfterPoll == errorCount + Cardinality(Failing)

\* One poll of the states, with what the loop over them does; then the end, or
\* a sleep.
PollStates ==
  /\ installPc = "poll"
  /\ awaited' = awaited \ Leaving
  /\ errorCount' = ErrorsAfterPoll
  /\ reportedState' = [t \in Targets |-> IF t \in Leaving THEN installState[t] ELSE reportedState[t]]
  /\ IF awaited' = {}
     THEN /\ installPc' = "done"
          /\ installResult' = IF errorCount' > 0 THEN "errors" ELSE "installed"
          /\ UNCHANGED remainingTime
     ELSE /\ installPc' = "check" /\ UNCHANGED installResult
          /\ \E d \in 0 .. PollLatency : remainingTime' = remainingTime - d - 1
  /\ UNCHANGED <<installState, requested>>

PollFails ==
  /\ installPc = "poll"
  /\ installPc' = "done" /\ installResult' = "raised"
  /\ UNCHANGED <<installState, requested, awaited, errorCount, remainingTime, reportedState>>

InstallStep == CheckInstallDeadline \/ PollStates
InstallNext ==
  \/ InstallStep \/ PollFails
  \/ \E t \in Targets : InstallationMoves(t)
  \/ \E targets \in SUBSET Targets, timeout \in InstallTimeouts : InstallCall(targets, timeout)
-----------------------------------------------------------------------------
\* Types of the variables.
InstallTypeOK ==
  /\ installState \in [Targets -> {"unknown", "installing", "installed", "error"}]
  /\ requested \subseteq Targets /\ awaited \subseteq requested
  /\ errorCount \in 0 .. Cardinality(Targets)
  /\ remainingTime \in Int
  /\ installPc \in {"idle", "check", "poll", "done"}
  /\ installResult \in {"none", "refused", "raised", "timeout", "errors", "installed"}
  /\ reportedState \in [Targets -> {"unknown", "installed", "error"}]

\* Every target counts once, however often it is polled: a success says that
\* the plugin is installed on all that were asked for, an error that it failed
\* on one.
InstallReportIsTrue ==
  /\ installResult = "installed" => \A t \in requested : installState[t] = "installed"
  /\ installResult = "errors" => \E t \in requested : reportedState[t] = "error"

\* An error on one target is not forgotten while the others are waited for,
\* and does not stop the wait for them.
ErrorsAreKept ==
  /\ errorCount = Cardinality({t \in requested : reportedState[t] = "error"})
  /\ installResult = "errors" => \A t \in requested : reportedState[t] # "unknown"

\* The result is that of all targets, each counted once.
InstallInv == InstallTypeOK /\ InstallReportIsTrue /\ ErrorsAreKept
=============================================================================
