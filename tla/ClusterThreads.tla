---------------------------- MODULE ClusterThreads ----------------------------
(***************************************************************************)
(* Cluster clients of several threads of one process.                      *)
(*                                                                         *)
(* `cfy agents install' and its like track executions from up to           *)
(* MAX_TRACKER_THREADS threads (cloudify_cli/commands/agents.py), each     *)
(* with a client of its own (env.get_rest_client).  Every client fails     *)
(* over on the one env.profile of the process, and saves it to the one     *)
(* context.json.  _update_profile is three bytecode steps on the shared    *)
(* list (list.remove, the concatenation, the assignment) and save() two on *)
(* the file (open truncates, the buffered dump is written at close): the   *)
(* threads may be switched between any two of them.                        *)
(*                                                                         *)
(* ClusterClient has the rest of do_request; nodes are addresses here.     *)
(***************************************************************************)
EXTENDS Naturals, Sequences

CONSTANTS
  Threads,    \* the tracker threads
  Hosts,      \* addresses
  ManagerIp,  \* profile.manager_ip
  Cluster,    \* the cluster list of the profile, as loaded
  MaxRequests \* bound: requests per thread (a tracker polls until its
              \* execution ends)

ASSUME ClusterAssumption ==
  /\ ManagerIp \in Hosts
  /\ Cluster \in Seq(Hosts) /\ Cluster # <<>>
  /\ \A i, j \in DOMAIN Cluster : Cluster[i] = Cluster[j] => i = j
  /\ MaxRequests \in Nat

VARIABLES
  up,         \* hosts that answer; fixed for a behaviour
  list,       \* profile.cluster['manager'], shared
  file,       \* context.json: its list, <<>> while truncated, or Corrupt
  pc,         \* where each thread is in do_request
  snapshot,   \* each thread's list(enumerate(...))
  cursor,     \* and its position in it
  fresh,      \* the list a thread has built and not assigned yet
  sent,       \* requests each thread has sent
  outcome     \* how its last request ended

vars == <<up, list, file, pc, snapshot, cursor, fresh, sent, outcome>>

Listed(s) == {s[i] : i \in DOMAIN s}
Corrupt == <<"corrupt">>

Init ==
  /\ up \in SUBSET Hosts
  /\ list = Cluster
  /\ file = Cluster
  /\ pc = [t \in Threads |-> "idle"]
  /\ snapshot = [t \in Threads |-> <<>>]
  /\ cursor = [t \in Threads |-> 0]
  /\ fresh = [t \in Threads |-> <<>>]
  /\ sent = [t \in Threads |-> 0]
  /\ outcome = [t \in Threads |-> "none"]
-----------------------------------------------------------------------------
Goto(t, to) == pc' = [pc EXCEPT ![t] = to]

End(t, how) ==
  /\ Goto(t, "idle")
  /\ outcome' = [outcome EXCEPT ![t] = how]
  /\ snapshot' = [snapshot EXCEPT ![t] = <<>>]
  /\ cursor' = [cursor EXCEPT ![t] = 0]
  /\ fresh' = [fresh EXCEPT ![t] = <<>>]

Node(t) == snapshot[t][cursor[t]]

\* s without the first occurrence of h: list.remove(node).
Removed(s, h) ==
  LET k == CHOOSE i \in DOMAIN s : s[i] = h /\ \A j \in 1 .. i - 1 : s[j] # h
  IN  SubSeq(s, 1, k - 1) \o SubSeq(s, k + 1, Len(s))

\* A request goes to the main manager first.
Begin(t) ==
  /\ pc[t] = "idle" /\ sent[t] < MaxRequests
  /\ sent' = [sent EXCEPT ![t] = @ + 1]
  /\ outcome' = [outcome EXCEPT ![t] = "none"]
  /\ Goto(t, "main")
  /\ UNCHANGED <<up, list, file, snapshot, cursor, fresh>>

\* The contacted host answers.
Respond(t) ==
  /\ \/ pc[t] = "main" /\ ManagerIp \in up
     \/ pc[t] = "node" /\ Node(t) \in up
  /\ End(t, "ok")
  /\ UNCHANGED <<up, list, file, sent>>

\* No connection to the main manager, or a 502: the loop starts, over a copy.
MainFails(t) ==
  /\ pc[t] = "main" /\ ManagerIp \notin up
  /\ Goto(t, "loop")
  /\ snapshot' = [snapshot EXCEPT ![t] = list]
  /\ UNCHANGED <<up, list, file, cursor, fresh, sent, outcome>>

\* (mutant) A node that fails is asked again.
NodeFailsRetried(t) ==
  /\ pc[t] = "node" /\ Node(t) \notin up
  /\ UNCHANGED vars

\* No connection to the node, or a 502: the loop goes on.
NodeFails(t) ==
  /\ pc[t] = "node" /\ Node(t) \notin up
  /\ Goto(t, "loop")
  /\ UNCHANGED <<up, list, file, snapshot, cursor, fresh, sent, outcome>>

\* (mutant) The loop also moves the node of the main manager.
NextNodeAll(t) ==
  /\ pc[t] = "loop" /\ cursor[t] < Len(snapshot[t])
  /\ cursor' = [cursor EXCEPT ![t] = @ + 1]
  /\ Goto(t, "remove")
  /\ UNCHANGED <<up, list, file, snapshot, fresh, sent, outcome>>

\* The next turn of the loop; the node of the main manager is skipped.
NextNode(t) ==
  /\ pc[t] = "loop" /\ cursor[t] < Len(snapshot[t])
  /\ cursor' = [cursor EXCEPT ![t] = @ + 1]
  /\ Goto(t, IF snapshot[t][cursor[t] + 1] = ManagerIp THEN "loop" ELSE "remove")
  /\ UNCHANGED <<up, list, file, snapshot, fresh, sent, outcome>>

GiveUp(t) ==
  /\ pc[t] = "loop" /\ cursor[t] = Len(snapshot[t])
  /\ End(t, "offline")
  /\ UNCHANGED <<up, list, file, sent>>

\* profile.cluster[...].remove(node): ValueError if another thread has taken
\* the node out of the list and not put it back yet.
Remove(t) ==
  /\ pc[t] = "remove"
  /\ \/ /\ Node(t) \in Listed(list)
        /\ list' = Removed(list, Node(t))
        /\ Goto(t, "concatenate")
        /\ UNCHANGED <<snapshot, cursor, fresh, outcome>>
     \/ /\ Node(t) \notin Listed(list)
        /\ End(t, "ValueError")
        /\ UNCHANGED list
  /\ UNCHANGED <<up, file, sent>>

\* [node] + profile.cluster[...]
Concatenate(t) ==
  /\ pc[t] = "concatenate"
  /\ fresh' = [fresh EXCEPT ![t] = <<Node(t)>> \o list]
  /\ Goto(t, "assign")
  /\ UNCHANGED <<up, list, file, snapshot, cursor, sent, outcome>>

\* profile.cluster[...] = ...
Assign(t) ==
  /\ pc[t] = "assign"
  /\ list' = fresh[t]
  /\ Goto(t, "open")
  /\ UNCHANGED <<up, file, snapshot, cursor, fresh, sent, outcome>>

\* profile.save(): open(path, 'w') truncates the file ...
OpenFile(t) ==
  /\ pc[t] = "open"
  /\ file' = <<>>
  /\ Goto(t, "write")
  /\ UNCHANGED <<up, list, snapshot, cursor, fresh, sent, outcome>>

\* ... and the dump is written over whatever another thread has written since:
\* the tail of a longer dump stays behind a shorter one.
WriteFile(t) ==
  /\ pc[t] = "write"
  /\ file' = IF Len(file) > Len(list) \/ file = Corrupt THEN Corrupt ELSE list
  /\ Goto(t, "node")
  /\ UNCHANGED <<up, list, snapshot, cursor, fresh, sent, outcome>>

Failover(t) ==
  \/ Respond(t) \/ MainFails(t) \/ NodeFails(t) \/ NextNode(t) \/ GiveUp(t)
  \/ Remove(t) \/ Concatenate(t) \/ Assign(t) \/ OpenFile(t) \/ WriteFile(t)

Next == \E t \in Threads : Begin(t) \/ Failover(t)

\* Every thread is scheduled again and again, and its calls return.
Spec == Init /\ [][Next]_vars /\ \A t \in Threads : WF_vars(Failover(t))
-----------------------------------------------------------------------------
TypeOK ==
  /\ up \subseteq Hosts
  /\ list \in Seq(Hosts)
  /\ file = Corrupt \/ file \in Seq(Hosts)
  /\ pc \in [Threads -> {"idle", "main", "loop", "remove", "concatenate",
                         "assign", "open", "write", "node"}]
  /\ snapshot \in [Threads -> Seq(Hosts)]
  /\ fresh \in [Threads -> Seq(Hosts)]
  /\ sent \in [Threads -> 0 .. MaxRequests]
  /\ outcome \in [Threads -> {"none", "ok", "offline", "ValueError"}]
  /\ \A t \in Threads : cursor[t] \in 0 .. Len(snapshot[t])

Quiet == \A t \in Threads : pc[t] = "idle"

\* Whatever the threads do to the list, the node of the main manager stays in
\* it, so that it is never empty and every new client finds its first node
\* (ClusterHTTPClient.__init__; is_cluster would otherwise deny the cluster).
MainManagerKept == ManagerIp \in Listed(Cluster) => ManagerIp \in Listed(list)

\* What the threads may find in the list they share.
ThreadsInv == TypeOK /\ MainManagerKept

\* Every thread's request ends, though the others reorder the list under its
\* loop (the loop runs over a copy).
RequestsEnd == \A t \in Threads : pc[t] = "main" ~> pc[t] = "idle"

\* _update_profile: "Put the node at the start of the cluster list in profile":
\* the node moves, no other node goes away.
NoNodeLost == Quiet => Listed(list) = Listed(Cluster)
=============================================================================
