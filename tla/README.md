# Verification of the Cloudify command line client

This directory holds TLA+ models of `cloudify_cli` (the `cfy` command), the TLC
configurations that check them, and proofs, for every value of the constants, of the
safety properties that TLC checks on small instances.
`PROJECT.json` relates every definition to the source lines it stands for, lists the
runs, the hazards of the code and the results.

    tlc -workers 2 -config ClusterClient.cfg MCClusterClient     # one of the runs below
    tlapm ClusterClientProofs.tla                                # the proofs

## 1. The system

`cfy` is a Python program that starts, reads its *active profile* from disk, runs one
command against a Cloudify Manager (or a cluster of managers) over REST, and ends.
Most of its 171 source files declare options or print the answer of one call. The parts
with logic of their own:

| Part | State | Operations | What makes it hard | What must hold |
|---|---|---|---|---|
| Cluster client (`env.py` 527-671) | `env.profile.cluster`, the client's host, port and certificate, the copies of a streamed body, the saved profile | a request, the failover loop, `_use_node`, `_update_profile` | hosts go down during the loop; the loop reorders the list it runs over; the next process starts from what was saved; state of one request stays for the next | no node is lost but by a kill inside `save()`, all are tried once, each with a fresh body, "all offline" is true, the node that answered is saved |
| The same in threads (`agents.py` 304-361 with `env.py`) | one list and one file, one client per thread | as above | unlocked read-modify-write, truncating saves | no node is lost, the list never gets empty |
| Waiting (`execution_events_fetcher.py`) | deadline, `_from_event`, `execution_ended` | poll the status, fetch pages of events, handle them, time out | events logged between poll and fetch, pages that are exactly full, two nested deadlines | no event missed, repeated or reordered; time-outs neither early nor late; the wait returns |
| Starting an execution (`executions.py` 198-334) | what is left of the timeout | start, wait for `create_deployment_environment`, start again, wait | one timeout for two waits, one handler for both | the report is true, the total time is bounded, the command ends |
| `cfy agents ...` (`agents.py` 264-368) | the queue of executions, threads, summary of errors | start one execution per deployment, track them in threads | starting, tracking and ending interleave; a tracker fails; Ctrl-C | each is tracked by one thread, success means all succeeded, every failure is listed |
| Profiles on disk (`env.py`, `profiles.py`) | `context.json` of each profile, `active.profile`, `env.profile` | use, create, delete, set, rename, list | several file operations per command, a kill between two of them, another shell | no profile is lost, the active one is there and is the chosen one |
| Cluster commands (`cluster.py`) | the profile's node lists, by host name | `update-profile`, `set-cluster`, add and remove managers and brokers | the request that lists the nodes reorders the list that is merged; three saves | every known node is kept with its details, removed ones go |
| Credentials (`env.py` 108-165, 303-409; `profiles.py`) | four fields, each in the profile or the environment | use, set, unset, making a client | three functions read them separately | one method, the one that was set |
| Export and import of profiles (`profiles.py` 563-674) | the profiles' directory, the SSH keys, a directory for copies | back up, pack, remove; extract, restore | a failure or a kill at any step, also half way through a file, what it leaves | an archive told to be complete is, its keys are put back, other profiles and their keys stay |
| Flows (`install`, `uninstall`, `apply`, `deployments`, execution groups) | what the manager has got so far | upload, create, start, delete, update | a step fails half way; results that are not looked at; executions that are only queued | no step runs after a failed one, reports are true |
| The same without a manager (`init`, `install`, `uninstall`; `local.py`) | the stored blueprint and deployment | validate, remove, initialize, execute | what was stored goes before what replaces it | a workflow runs on what it was given, what is stored belongs together |
| Uploads and plugins (`utils.py` 420-485, `plugins.py`) | sets still awaited, deadline, offset | poll, count errors, page | retries, time-outs, failures of some, a list that changes while it is paged | every result is counted, paging covers all |
| Agent filters (`agents.py` 116-261) | tenants -> deployments -> filters | page through node instances | deletion from the map inside the page loop | the filters select exactly the eligible deployments |
| Labels and metadata (`labels_utils.py`, `plugins.py` 1028-1088) | what was read, what is written back | add, delete | two shells | the labels are what the changes in them add up to; only an overlap loses one |
| Maintenance mode (`maintenance_mode.py`) | deadline | activate, wait, deactivate | other users, a timeout of zero | reports are true, the wait returns |
| Deleting events (`events.py` 241-304) | one file, two handles | list, fetch, write, delete | writes through both handles, events logged meanwhile, debug logs that are not written | what is deleted and was fetched is in the file, debug logs aside |
| Schedules (`deployments.py` 1481-1690) | the schedule as read | create, update, enable, disable, delete | read, decide and update are three calls, one may raise although it was obeyed | no report is undone by a command about something else |
| Local profile migration (`local.py` 75-143) | a directory tree | backup, move blueprint after blueprint | a kill in between, a second shell | nothing is lost |
| Certificate replacement (`replace_certificates_config.py`) | internal and external certificates of nodes, agents, profile | validate, replace, hand on CAs | no rollback | agents trust the nodes at every step, the client in the end |

They interact through one module-level object and one library call. `env.profile` is the
shared object: `profiles.py` writes it, the cluster client reads and *reorders* it,
everything else gets its client from it (`env.get_rest_client`).
`wait_for_execution` is the call: executions, deployments, blueprints and agents end
in it. Nothing is a server; the concurrency is that of the tracker threads, of the
managers that change while a command runs, of several shells, and of a process
that ends anywhere.

Everything else (users, tenants, secrets, sites, tokens, tables, option
declarations, ...) is listed under `components` in `PROJECT.json` with the reason why it is not modelled:
almost always a single REST call and the printing of its result.

## 2. The modules

| Module | Models | Composed with |
|---|---|---|
| `FailoverService` | abstract: what a cluster client promises | - |
| `ClusterClient` | `ClusterHTTPClient`, `get_rest_client`, successive processes | implements `FailoverService` |
| `ClusterThreads` | the failover of several threads, step by step, and its saves | - |
| `ExecutionWait` | `ExecutionEventsFetcher`, `wait_for_execution`, `wait_for_execution_group`, the manager's executions | - |
| `ExecutionStart` | `executions.manager_start` | extends `ExecutionWait`: its two waits are that module's |
| `AgentsTracker` | `get_deployments_and_run_workers` and `_tracker_thread` | a wait is one step, what it promises being checked in `ExecutionWait` |
| `Lists` | `[x for x in s if x in keep]` of Python | extended by `ClusterProfile`, `PluginsUpdate`, `EventsDelete` |
| `ProfileStore` | the `profiles` commands, one action per file operation | - |
| `AgentFilters` | `get_filters_map` and what it calls | `CfyCommand` |
| `BlueprintUpload` | `blueprints.upload`, `wait_for_blueprint_upload` | `CfyCommand` |
| `PluginInstall` | `plugins.install`, `_wait_for_plugin_to_be_installed` | `CfyCommand` |
| `PluginsUpdate` | `plugins.update`, `_update_a_blueprint` | `CfyCommand` |
| `Flows` | `install`, `uninstall`, `apply`, `deployments create/update/delete`, groups | `CfyCommand` |
| `LocalFlows` | `init`, `install`, `uninstall` and `executions start` of a local profile | `CfyCommand` |
| `Labels` | `labels_utils.add_labels/delete_labels`, plugin metadata | `CfyCommand` |
| `Credentials` | the authentication fields: `profiles use/set/unset`, `get_rest_client` | `CfyCommand` |
| `ClusterProfile` | `cluster update-profile`, `set-cluster`, adding and removing nodes | `CfyCommand` |
| `ProfileArchive` | `profiles export/import` with the SSH keys | `CfyCommand` |
| `ReplaceCertificates` | `certificates replace` | `CfyCommand` |
| `LocalMigration` | `local.storage_dir`, `_update_local_profile` | `CfyCommand` |
| `EventsDelete` | `events delete` | `CfyCommand` |
| `Maintenance` | `maintenance-mode activate/deactivate` | `CfyCommand` |
| `Schedules` | the `deployments schedule` commands that change something | `CfyCommand` |
| `CfyCommand` | the fifteen modules above side by side | extends them |
| `MC*` | values for TLC | - |
| `*Proofs` | theorems and their proofs, section 4 | extend the modules they are about |

A definition whose comment begins with `(mutant)` is not part of a model: it is
the variant of the definition that follows it which a plausible mistake would produce, and
`PROJECT.json` names the property that finds it.

### ClusterClient

`up` is the set of managers that answer and may change at any time. `configured` is the
profile as the user made it, `disk` the saved one, `profile` `env.profile` of the
running process. `client` is the `CloudifyClusterClient` (its current host and certificate,
and `size`, the number of nodes its list had when it was built, from which the copies of a streamed
body are made); `pc`, `snapshot` and `cursor` are the control of `do_request`, the last two being
`list(enumerate(...))` and the position in it. A node is a host with a certificate or
none; port and protocol take the same path through `_use_node` and are left out.
One process follows another: `CloseClient` ends one at any point, which is also a kill;
`OpenClient` starts the next from `disk`.

Actions follow the code: `StartRequest` (the request to `manager_ip`, or, with `--manager`, to that host only), `Respond`, `DirectFails`, `MainFails` (the loop begins),
`SkipMainManager` (the turn for the node of `manager_ip`), `TryNode` (`_use_node` with
`_update_profile`; `save` opens the file and thereby empties it), `SaveProfile` (the file is written, the next attempt follows), `NodeFails`, `GiveUp`.
`CloseClient` may come between `TryNode` and `SaveProfile`: the saved list is then lost (`Truncated`), which is what the code does and all that
`NodesKept` allows; the next process cannot start from such a file.

`up` and `Toggle` (the hosts), `Trusted` (certificate verification) and `Answers` (the
base client) are external and modelled as `env.py` uses them: connection errors
and 502 continue with the next node, every other answer is the answer.

### ClusterThreads

The same loop with the three steps of `_update_profile` (remove, concatenate, assign)
and the two of `save` (truncate, write) apart, as another thread may run between any two.
`list` and `file` are shared, the rest is per thread. Hosts do not change
here: what goes wrong needs only two threads.

### ExecutionWait and ExecutionStart

The manager is two external actions: an execution logs events and ends, at any moment.
`events.list` returns events in the order they were logged, and an execution logs
nothing after it ended: this is assumed of the manager. Time advances with every call (between nothing and
`Latency` units) and every sleep. `pc` walks through the loop: the check of the deadline, the poll of
the status, the batches (each with the fetch's own deadline), the sleep. `CallFails` is any exception of a
remote call. `fromEvent` is `_from_event`; `shown` is what the handler printed.

`ExecutionStart` puts `manager_start` around it: a refused start leads to the wait for the
environment's creation, then to a second start and a second wait with what the first one left of the timeout.

### AgentsTracker

The main thread starts executions, fills the queue, spawns the threads and polls them; each
thread takes, waits, records. `Interrupt` is Ctrl-C during the polling: the threads are daemons and go with the process.

### ProfileStore

`file[n]` is the state of a profile's directory: `absent`, `dir` (made, without context), `torn`
(truncated) or `whole`. A command computes its list of file operations (`todo`) when its decisions are made in the
code, and each is a step (`MakeDir`, `OpenContext`, `WriteContext`, `TruncateActive`, `WriteActive`,
`LoadListed`, `RemoveTree`); a process may be killed between any two. `visit` is
what `profiles list` has still to show. `owned`, `deleted`, `chosen`, `strayed` and `crashed` are history:
what the user created, deleted and chose, whether a setting went elsewhere, whether a process died.
The commands run with `--skip-credentials-validation`, so that no request decides their course;
`set --manager-ip` is issued in a profile that has a manager already, and no two profiles share one (a bound that lets `NoProfileLost` tell profiles
apart).

### CfyCommand

A `cfy` process runs one command, and the commands of the following modules share no state but the manager's and the
disk's, each its own part. `CfyCommand` therefore puts them side by side: `command` says which one a
behaviour is about, and the variables of the others stand still. A behaviour of one module is a behaviour of its command, of the manager
(external actions) and of the other users, shells and processes that it meets. `CommandReturns` is about all of them:
whatever has begun comes to an end.

### AgentFilters

`SelectInstances` and `SelectDeployments` are `get_filters_map` up to its loop: the forms of the request (node instances, or deployments
and nodes), the errors for what does not exist, and the map of tenants to deployments. `ReadPage` is a turn of the loop over pages, with the two deletions, of deployments and,
in the wrong place, of tenants. `SelectsEligible` compares the result with a set comprehension: a deployment is selected
exactly if it was asked for and none of its agent hosts is down. `NodesFound` is the manager's answer to `nodes.list(id=...)`, with or without
regard to the ids (`idsHonoured`): the code leaves that filter to the manager, and takes a deployment for one that has the node if any node of it is listed.

### BlueprintUpload, PluginInstall, PluginsUpdate

`BlueprintUpload` has the temporary directory and its `finally` (`TempAfter`: what `rmtree(dirname(dirname(path)))` leaves depends on the `depth` of the file in the archive), the lookup of the upload execution's id with its retries, and the loop over the
blueprint's state and the events. In `PluginInstall` the targets report at any moment; `Leaving` is the set
arithmetic on those still awaited, `errors` what is counted. In `PluginsUpdate` the list of blueprints is sorted by tenant
and age, others insert and delete between two pages, and `UpdateCoversAll` says which blueprints the
paging must reach all the same: every one that was there at first, if nobody deletes one.

### Flows, LocalFlows

A flow is a list of `steps`; a step may fail, and `Fail` ends the flow but for the `finally` that removes what an archive was
extracted to. In `Flows` the manager holds one deployment; the manager deletes it in the background, which is why `uninstall` waits
between its two deletions. `client.deployments.delete` is taken to create its execution before it returns, so that
"Failed to get" means that the deployment is gone already. A workflow may be queued, upon which `manager_start` returns and the flow goes on
(`ReturnsNormally`); `QueuedRuns` is when the manager runs it. In `LocalFlows` the blueprint and its deployment are stored under one id; `remove()` and `init_env`
are two steps each, and a process may be killed between any two. With a file in a subdirectory of the archive only a part of the temporary directory is removed
(`LocalTempAfter`, and `AfterRmtree` in `Flows`).

### Labels, Credentials, Schedules

Labels and metadata are read, changed and written back as a whole by several shells. `writes` records the changes as the manager got them and `keptWrites` those that
are in what it has: `LastChangeCounts` says that the labels are what these add up to, one after the other, and `OnlyOverlapLoses` which changes may be missing. In `Credentials` a profile and the environment are
the sets of fields that have a value. `MethodsIn` is `check_configured_auth`,
`CredentialsSet` is `assert_credentials_set`, `ClientMethod` is what `get_rest_client` builds: the invariant relates the three. In `Schedules`
a call of a shell is sent, obeyed by the manager or not, and ends with a report or an exception, whatever was done. Calls name the fields they change. `possible` has the values each field may have by what
the shells were told: the one that was reported last, those asked for at the same time, and those of calls that failed since. `ReportsStand` would not hold if a
switch sent back the whole of the schedule that it has `seen`.

### ClusterProfile, ProfileArchive, LocalMigration

These three are about files. `ClusterProfile` has the profile's lists of nodes, which the failover of any request (`MoveToFront`, module `ClusterClient`) reorders
while `update-profile` merges into them, type after type. `ProfileArchive` has the keys, whose files have one name in different directories, the
directory they are copied to, and the archive. `PackFails` is an exception inside `tar.add`, upon which `closing()` completes an archive that has some of the files (`ArchiveOf`); extraction
goes file by file, and any file may stay half written. `complete` is what the export has told of the archive; `leftOver` marks histories in which keys are around that belong to no profile
of the archive, about which the code promises nothing. `LocalMigration` has the old and the new layout of every blueprint and the copy, with two
processes that may both find the old one.

### ReplaceCertificates, EventsDelete, Maintenance

`ReplaceCertificates` goes through the validation of all nodes, the bundle of old and new CAs for the agents, the nodes in their
order, the client, and the new CAs alone; it stops at the first error. `AgentsTrustAll` is why the bundle is
sent first. A manager has an internal certificate (`signedBy`), which agents are served, and an external one (`outside`), and the client verifies one of them or none (`verifies`);
`SwitchClient` gives it the new CA of the internal ones, whichever it is served. Only a client that is served the internal one, and a replacement that has got through or was not begun, are what
`ClientTrustsManagers` is about. `EventsDelete` writes a file through two handles, one of which appends; a text is a cell of the file. `HasOutput` is `if output` of the logger, which drops debug logs without `-vv`. In
`Maintenance` the manager drains its executions while others start some, or turn the mode on or off.

## 3. The runs

Runs that must pass:

| Run | Instance | Shows |
|---|---|---|
| `cluster_client` | lists of 2 and 3 nodes, `manager_ip` one of them or a load balancer outside; one CA; hosts going up and down at any time; any number of processes and requests | `NodesKept`, `OfflineMeansAllContacted`, `NoHostTriedTwice`, `FreshCopyPerAttempt`, `FailoverRecorded`, `ActiveManagerFound`; refinement of `FailoverService` |
| `cluster_threads` | 2 threads, 3 nodes, one request each, any set of live hosts | `ThreadsInv`: the main manager's node stays in the list (it is never empty); every request ends |
| `execution_wait` | 1 execution, up to 5 events, pages of 2, calls of 0-2 units, no timeout, zero and positive ones | `EventsComplete` (each event once and in order; all of them when the wait ends), `TimeoutIsExact` (neither early nor late), `EndIsNoticed`, `TimeoutFires` |
| `execution_start` | 2 executions of one event, timeouts 0 and 8, calls of 0-1 units | `ReportIsTrue`, `TimeoutIsShared` (both waits together stay in the timeout), `CommandEnds` |
| `agents_tracker` | 3 executions, 2 threads, with and without `--wait` | `TrackerInv` (each execution tracked by one thread), `ResultIsTrue` (success means all succeeded, failures are listed, the result is final), `CommandEnds` |
| `profile_store` | 2 names, 2 managers, every command, kills | `StoreInv` (no profile is lost), `ActiveIsRight` (the active profile is there, and is the chosen one) |
| `cfy_command` | fifteen commands, instances below | one invariant per module: `FilterInv`, `UploadInv`, `InstallInv`, `UpdateInv`, `FlowInv`, `LabelInv`, `AuthInv`, `ClusterInv`, `CertInv`, `MigrationInv`, `EventsInv`, `MaintenanceInv`, `ScheduleInv`, `ArchiveInv`, `LocalInv`, each a conjunction of named parts; `CommandReturns` |

Runs that find a disagreement between the code and what its comments or messages say (`findings` has the quotations):

| Run | Property | What happens |
|---|---|---|
| `cluster_client_cas` | `ActiveManagerFound` | each node has its own CA. A request fails over, so the client keeps the node's certificate; the next request goes to `manager_ip` with it and fails; the loop skips `manager_ip`'s entry. If the others are down by now, "All cluster nodes are offline" is raised although the main manager is up |
| `cluster_threads_lost` | `NoNodeLost` | two threads each move a node to the front; one assigns a list it built while the other had its node taken out: that node is gone, and the shorter list is saved |
| `execution_start_message` | `TimedOutWasStarted` | the wait for the environment's creation times out and the user is told that the workflow, which was never started, may still be running |
| `profile_store_shells` | `SetsCurrent` | `profiles list` makes every profile active for a moment; a `profiles set` in another shell then changes the wrong one |
| `agent_filters_keyerror` | `FilteringReturns` | the last deployment of a tenant is filtered out before the tenant's last page: the tenant goes from the map, and the next page ends the command with a `KeyError` |

### Why the bounds are enough

* Three nodes are the smallest list in which the loop has a node to skip, a first and a
  last node to move, and one more that must keep its place. The number of processes and requests is not bounded.
* `ClusterThreads` has `MaxRequests` = 1: the race needs two overlapping failovers, and a thread's second request differs
  from its first only in the list it finds, which the other thread's interleavings vary already.
* Five events in pages of two give an empty, a partial, an exactly full, two full and two full and one partial page,
  and a batch may become full while it is fetched. Latency 2 lets one call overrun a deadline and the
  sleep after it.
* In `ExecutionStart` a timeout of 8 lets the first wait take all, part or none of it, so that the second starts with less than
  a call's duration, with a negative rest, or with plenty.
* Two trackers and three executions make one thread take two and the queue run empty under the other.
* Two profile names suffice for a renaming, a deletion and a later profile of the same name.
* In `MCCfyCommand`, the least in which each part's case arises:
  agent filters: two tenants, one with five instances on three pages, two deployments, hosts and other nodes (`cfy_command` leaves out the inventories of
  `agent_filters_keyerror`); plugins update: three blueprints of two tenants in pages of two, any insertions and one deletion; upload:
  timeout 2, calls of 0-1 units, two events, three lookups instead of five; plugin installation: a manager and an agent, timeouts 0 and 3;
  labels: two shells, one key with two values (what a bare key deletes, and what one pair does), one label or none at first, three commands that write (one to read before a second and write after it, and a third to
  follow); cluster: two managers, a broker and a database;
  certificates: these four with three status checks instead of thirty; migration: two blueprints and two processes, as a third of either meets
  nothing new; events: three executions in pages of two with three events; maintenance mode: timeouts 0 and 4, a sleep of 2, two acts of others; schedules: two
  shells, two rules and three calls (two that overlap and one that follows, or that failed before them); archive: two profiles with keys in two directories or one key unset, one change by the user and three exports or imports (one that fails and leaves something,
  one that meets it, and an import of the outcome); local
  flows: two versions and three commands (a failed one, a killed one and a repetition).

### Fairness and termination

* `ClusterClient`: none, its properties are safety properties. That a request ends is not claimed: the client sets no read timeout (`env.py` 568), and given that its calls return the loop over a copy of the list ends by its form.
* `ClusterThreads`: `WF` of each thread's steps: Python schedules every runnable thread.
* `ExecutionWait` and `ExecutionStart`: `WF` of the client's steps. `EndIsNoticed` needs no fairness of the manager because its condition
  is that the execution ended; `TimeoutFires` needs none either, time being driven by the client's own calls and
  sleeps. An unbounded stream of full pages is excluded by `MaxEvents`: real executions log finitely
  many events, and with a timeout the fetch has a deadline of its own.
* `AgentsTracker`: `WF` of the main thread and of each tracker. Nothing is assumed of the executions: the threads wait without a
  timeout, so `CommandEnds` says that the command ends once all executions have.
* `CfyCommand`: `WF` of the steps of each command: the process runs on, its calls return or fail and its sleeps end. Nothing is assumed of
  the manager, its executions or other users. `maintenance-mode activate --wait` without a timeout may wait for ever and
  is outside `CommandReturns`; so are the waits for executions, which are in `ExecutionWait`. The steps of a command that is not run are never enabled, so
  that its fairness asks for nothing.

`CHECK_DEADLOCK FALSE` stands where the system really stops: after a command has returned, after the last request of a thread,
and in `ProfileStore` when the active profile is unreadable (below).

## 4. What is proved

Every invariant that a passing run checks is a theorem, and so is the refinement. A run shows it on the instance of section 3, the
theorem for every value of the constants that the modules' `ASSUME`s allow: any number of nodes, threads, processes, events, profiles, ...

| Module | Theorem | Property |
|---|---|---|
| `ClusterClientProofs` | `TypeCorrect`, `ClusterKept`, `OfflineIsExhaustive`, `AttemptsAreDistinct`, `CopiesAreFresh`, `FailoverIsSaved` | `TypeOK`, `NodesKept`, `OfflineMeansAllContacted`, `NoHostTriedTwice`, `FreshCopyPerAttempt`, `FailoverRecorded` |
| | `ActiveManagerIsFound`, `ClientImplementsService` | `ActiveManagerFound`, `ImplementsService`, under one CA |
| `ClusterThreadsProofs` | `ListSurvivesThreads` | `ThreadsInv` |
| `ExecutionProofs` | `TypeCorrect`, `WaitShowsAllEvents`, `WaitTimesOutOnTime` | `TypeOK`, `EventsComplete`, `TimeoutIsExact` |
| | `OutcomeIsTold`, `CommandKeepsTimeout` | `ReportIsTrue`, `TimeoutIsShared` |
| `AgentsTrackerProofs` | `TrackedOnce`, `ReportIsTrue` | `TrackerInv`, `ResultIsTrue` |
| `ProfileStoreProofs` | `ProfilesSurviveKills`, `ActiveStaysRight` | `StoreInv`, `ActiveIsRight`, with one process at a time |
| `LocalCommandsProofs` | `OneMethodIsUsed`, `AgentsAreNotCutOff`, `MigrationLosesNothing`, `ModeIsTold`, `LocalRecordsBelongTogether`, `KeysArePutBack`, `DetailsSurviveUpdates` | `AuthInv`, `CertInv`, `MigrationInv`, `MaintenanceInv`, `LocalInv`, `ArchiveInv`, `ClusterInv` |
| `ManagerCommandsProofs` | `SchedulesAreAsTold`, `LabelsAddUp`, `UploadIsFollowed`, `InstallationIsTold`, `FlowsTellTheTruth`, `FiltersSelectExactly`, `EveryBlueprintIsUpdated`, `StoredBeforeTheyAreDeleted` | `ScheduleInv`, `LabelInv`, `UploadInv`, `InstallInv`, `FlowInv`, `FilterInv`, `UpdateInv`, `EventsInv` |
| `ListsProofs` | lemmas | what `Filtered` returns |

### Assumptions

* Two hypotheses are stated in the theorems themselves, because the property is false without them, as a run of section 3 shows. `SignedBy(c)`:
  one certificate `c` verifies every host and is the one the client uses for every node (`cluster_client_cas` is the
  counterexample with a CA per node). `Procs = {p}`: one process at a time works on the profiles, killed at any point and followed by any
  other (`profile_store_shells`).
* The rest are the modules' `ASSUME`s, which TLC evaluates in the runs. They say what the code's inputs are: lists have no repetitions
  (host names of a cluster, the listing of blueprints), that listing is sorted by tenant (`plugins.py` 591), an instance is one of
  a deployment of its tenant, a node is of one of the three types, bounds and latencies are natural numbers, the page size is not zero,
  0 is a timeout of the maintenance mode (its default); and that placeholders such as `None` are not also results.
  `TimeoutIsShared` is about a `--timeout`, so that `Timeouts` has numbers only.

### The arguments

All follow one scheme: an inductive invariant (`...IInv` or `Inv`) that contains the property, the lemma that it holds initially, a
lemma per action (`...Keeps`), and a theorem that puts them together. In the modules of `CfyCommand` a lemma `...Steps` shows first
that a step of any command is one of this module's or leaves its variables alone. What the properties need to be inductive:

* **ClusterClient.** `ListInv`: while the loop runs, `snapshot` has the same nodes as the profile's list, without repetition, so
  `MoveToFront` always finds the node and returns a permutation. Without it, moving a node of the snapshot to the front could lengthen the list.
  `RequestProps`: the hosts contacted so far are `manager_ip` and the nodes of the snapshot up to the cursor, and the copy indices grow;
  at `GiveUp` that is everything (`LoopCoversCluster`). `FailoverInv`: nothing is unsaved but while the file is being written, and the client's current host was contacted, so
  that `_use_node` never believes to be there already and skips the update. For `ActiveManagerFound`: the client trusts every manager, and a contacted host that was up all the time
  is the one about to answer. The refinement maps each step with these invariants.
* **ClusterThreads.** `TurnInv`: a thread's turn stands at a node that is not the main manager's, and a list about to be assigned names the main
  manager if the shared one does. So no interleaving of the unlocked steps can lose that node, though others are lost.
* **ExecutionWait, ExecutionStart.** `EventsInv`: `_from_event` is the number of events shown, an execution seen as ended logs nothing more,
  and a fetch that ended has emptied the log. `ClockInv` bounds the time at each place of the loop by the deadline and the calls made since.
  `BudgetInv`: what the first wait took is missing from the budget of the second. `FetchInv` does not depend on how a wait was
  called, and serves both modules.
* **AgentsTracker.** `WorkInv`: an execution is in one place at a time (queue, a thread's job, the errors, done). `ResultInv`: a thread ends
  by itself only on an empty queue, and an execution that has left the queue is accounted for.
* **ProfileStore.** `Phase(p)` says, for each command and each rest of its file operations, what is on disk: which one file may be
  torn, that the old profile is whole while it is renamed, and that the new one has all that the old one had when that one is removed.
* **Credentials.** A profile that was validated was valid in the environment it was validated in, which may have changed since.
* **ReplaceCertificates.** `CertPhase`: how far the replacement is determines which nodes have new certificates; so the bundle is in force whenever both kinds of node exist, and the client's CA is that of all managers outside of the
  loop over the nodes.
* **LocalMigration.** As long as the new layout is not there the old one is whole, what a process is about to copy is backed up, and no two
  processes move the same blueprint.
* **Maintenance, BlueprintUpload.** The lateness at each place of the loop; the last state that was seen; that the state which ends the loop stays.
* **LocalFlows, Flows.** `LocalSequence`, `FlowPlace`: the steps still to do are an end of the command's list, which is why "before the
  checks" can be told from the place alone; `LocalProgress`, `FlowPhase`: which steps have left what behind.
* **ProfileArchive.** `ArchiveOfSome`: an archive of any of the files has, for the profiles it names, the keys that were backed up. `KeysOnTheirWay`: which keys are still on their way, from the copies'
  directory or to it.
* **ClusterProfile.** The command has the profile that is on disk, the types before the one that is merged next are as received, and
  nothing is told of a node that is not stored.
* **Labels.** `CopiesAddUp`: each shell's copy is what the changes in it add up to, and every change that was made before it read and is not in the copy is lost to one that is. So the labels that are written are, too, those of the copy with one more change.
* **Schedules.** What a shell asks for with a call under way may be the value of the field, and so may what others asked for since it was sent (`meanwhile`); what it reports leaves these.
* **PluginInstall.** A target is awaited exactly as long as its state was not seen.
* **AgentFilters.** `FilterPhase`: between two pages the map is that of all deployments asked for, without those that a page read so far excludes.
* **PluginsUpdate.** Whatever was there at first and is not done yet is on the page or beyond the offset. An upload moves blueprints back
  and never before the offset: the step that shows why only deletions can hide one.
* **EventsDelete.** Only titles are behind the place of the events' handle. That is why overwriting loses no event, which is not true of any two handles of a file.

`Filtered` is a recursive function instead of the built-in `SelectSeq`, whose definition the prover does not have. That the function exists and unfolds as defined
(`FilteredIs`), and what it returns (`FilteredPicks`: the places of its elements in the argument), is proved by an induction that is itself derived from the well-founded
order of `Nat` (`Induction`): a statement about a set of numbers, which needs no operator as a parameter.

### What is only model-checked

* Liveness: `RequestsEnd`, `EndIsNoticed`, `TimeoutFires`, `CommandEnds` (twice) and `CommandReturns`. It rests on fairness and on `ENABLED`, which the
  prover does not handle.
* The properties of the five runs that expect a violation: the code does not have them (`ActiveManagerFound` not without the hypothesis above).
* `StoreInv` and `ActiveIsRight` for several processes are not claimed: see `profile_store_shells`.

## 5. Observations outside the runs

Met while modelling. Most of them are behaviours of the models that no property forbids; the others (names of options and fields, paths of
certificates) are details the models abstract.

Profiles and credentials

* `save()` truncates `context.json` in place. If the process is killed there, the profile is unreadable; if it is the active one,
  `env.py` raises a `ValueError` at import (line 670), and no `cfy` command, not even `profiles use`, starts. The affected
  process of the model just cannot continue. `ClusterClient`, `ClusterThreads` and `ProfileStore` have the truncation and the write as two steps; `ClusterProfile` and
  `ReplaceCertificates` take a save as one and are about what is saved.
* `profiles list` that dies leaves the profile it was showing active (`ActiveIsChosen` is therefore stated for histories without a kill).
* `active.profile` holds a name: if that profile is deleted by another shell and a new one made with its name, the new one is active. Choices are compared by
  name in `ActiveIsRight`, so it does not tell the two apart.
* `manager_ip` stays the first host tried after a failover, although the docstring of `_update_profile` says the last active manager is.
* Two threads saving at the same time may leave the tail of a longer dump behind a shorter one (`Corrupt` in `ClusterThreads`).
* The default REST certificate is looked up in the active profile's directory, also for a profile that is being created (`env.py` 434).
* `assert_credentials_set` accepts the environment variable for Kerberos, which `get_rest_client` does not pass on (`env.py` 323).
  `env.py` 386 advises `cfy profiles unset --manager-token`, an option that does not exist.
* `update-profile` keeps the old address of a node that comes back under the same host name with another one.
* `profiles export --include-keys` without any key writes the archive and then fails to remove a directory that was not made
  (`profiles.py` 585). A stopped export or import leaves keys in `.exported-ssh-keys`; a later export packs them, also without
  `--include-keys`, and a later import may restore them over newer keys. An export truncates the previous archive before it has packed a new one.
  An export that fails half way leaves an archive that can be read and has only a part (`utils.py` 132): if it has keys without the profile they belong to, importing it puts them
  where the profiles that are there keep theirs. `ArchiveInv` therefore is about complete archives, and about keys of the profiles in them.

Flows

* `EventProcessingTimeoutError` is raised by a fetch's own deadline and is no `ExecutionTimeoutError`: the handlers of `executions start` and
  `deployments delete` do not catch it.
* "Deployment deleted" is printed although the deletion's execution failed (`deployments.py` 727-752). A queued execution is told of with exit
  code 0 and the flow goes on (`executions.py` 280-283): `install` returns with nothing installed yet, and `uninstall` goes on to delete before the workflow ran, which with `--force` the manager obeys;
  `FlowInv` speaks of workflows that were not queued. A cancelled execution counts as success;
  `uninstall` then goes on to delete, and with `--force` the manager obeys.
* `apply` cannot be repeated after it failed to create the deployment, because the blueprint's id is taken by then.
* The temporary directory, or a part of it, stays if the blueprint's file name has a directory in it (`rmtree(dirname(dirname(path)))`, `blueprints.py` 171-174, `install.py` 121-123
  and 233-235): it is emptied with one directory, and with more only the innermost but one goes. It also stays if the blueprint is missing from the archive, if the visibility is invalid
  (`blueprints.py` 126), or if `install`'s options contradict each other; `cfy init ARCHIVE` never removes it.
* `wait_for_blueprint_upload` returns without showing the events when the upload has ended by the time it looks (`utils.py` 450-452).
* Local `init` and `install` remove the stored deployment of the same id, which defaults to the folder's name, before the new one is
  initialized: a failure there loses the record of what is installed. A kill between the two steps of `remove()` leaves a blueprint that
  `uninstall` cannot remove, because `load_env` finds no deployment.
* When one start fails in `cfy agents ...`, the executions that were started already are not tracked (`agents.py` 287).

Others

* Two shells that change labels at once: the first one's change is lost, though both are told that theirs was made (`OnlyOverlapLoses` says that nothing else loses one).
* `cfy agents ... --node-id` leaves the filter by node to the manager (`agents.py` 196-212). The repository's test "filtering by just node-id, still returns deployments that don't have that node"
  (`tests/commands/test_agents.py` 242-250) runs against a mock manager that disregards the ids it is given (131-139); of such a manager (`idsHonoured` is false) the model says what the
  test says. With one that filters by the ids, a deployment without the node is not selected.
* Two shells that enable the same schedule both report success. `schedule update` without `--stop-on-fail` sends false and so resets it.
* Deletions by others during `plugins update --all` may hide a blueprint from the paging.
* `events delete` without `-vv` does not write the debug logs that it fetched (`events.py` 328-330, `logs.create_event_message_prefix`), and deletes them; the waits do not show them either, so that
  `EventsComplete` is about what is handed to the handler. It stores the events of the first page of executions only; events logged between the fetch and the deletion are deleted unstored; titles
  and counts in the file are overwritten by events (`events.py` 265, 279), although no event is.
* `maintenance-mode activate --wait` has no time-out by default and then waits as long as executions run, which is for ever if others keep starting some.
* The time-out message of `maintenance-mode activate` may be untrue when another user turned the mode off.
* Only `new_ca_cert`, not `new_external_ca_cert`, updates the profile, so that a client that is served external certificates of another CA cannot verify them any more. If the replacement stops between the first
  manager and `_handle_new_ca_certs`, the client is left with the old CA. The check for co-located nodes reads `manager.new_rabbitmq_ca_cert`
  (`certificates.py` 245), and for such nodes empty names of RabbitMQ certificates are passed on (`replace_certificates_config.py` 263-269).
* After a kill of the migration, local blueprints that were not moved yet stay in the old layout, where nothing looks for them.
  A second process whose `os.listdir` finds the new layout, made meanwhile, moves what is listed before it and then fails; in the model it fails at the listing.

## 6. Not modelled, and the plan

Proofs to come: an abstract specification for the waits (a command that ends with the outcome of what it waited for),
refined by `ExecutionWait`, `BlueprintUpload` and `PluginInstall`; action properties, such as that a summary once told is not taken back. Liveness
stays with TLC.

Not modelled:

* Certificates and ports of a profile (`env.py` 411-462): read from a file or a constant; no module has the files. One hazard (`env.py` 434) therefore has no
  property.
* Parsing of inputs, of filter rules and of labels, option declarations (`cfy.py`), tables and output: text
  handling, whose results the modelled commands take as given.
* Users, groups, tenants, permissions, secrets, sites, tokens, snapshots, licenses, log bundles, listings: a REST call and the printing of its
  result, with no state and no second step that could meet the first.
* The REST client library, the workflow engine and the file storage of local profiles (external), vendored `prettytable`, packaging, which
  includes a `get-pip.py` of 17853 lines that is nearly half of the repository's Python, and the test suite.
