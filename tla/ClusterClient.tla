---------------------------- MODULE ClusterClient ----------------------------
(***************************************************************************)
(* The REST client of a Cloudify Manager cluster (cloudify_cli/env.py,     *)
(* ClusterHTTPClient): one CLI process after another, each with a single   *)
(* thread, sends requests to the managers listed in the active profile.    *)
(*                                                                         *)
(* A node of profile.cluster['manager'] is an entry [host, cert]: `host'   *)
(* stands for the node's host_ip and hostname, `cert' for the connection   *)
(* attributes the node may carry (cert, trust_all, rest_port,              *)
(* rest_protocol), which the client all treats in the same way.            *)
(* The transport (cloudify_rest_client.HTTPClient) is external: a host     *)
(* answers when it is up and the client trusts its certificate, otherwise  *)
(* the attempt ends in a ConnectionError or in a 502 of its proxy.         *)
(***************************************************************************)
EXTENDS Naturals, Sequences, FiniteSets

CONSTANTS
  Hosts,        \* addresses a manager may answer on
  NoHost,       \* no address
  ManagerIp,    \* profile.manager_ip: a node of the cluster, or an address
                \* of its own (a load balancer)
  Certs,        \* CA certificates
  NoCert,       \* no certificate configured
  ServerCert,   \* the certificate that verifies each host
  ProfileCert,  \* the certificate of the profile itself (get_ssl_cert)
  Configs       \* the cluster lists a stored profile may start with

Entry == [host : Hosts, cert : Certs \cup {NoCert}]

\* s lists every member of E exactly once.
Arranges(s, E) ==
  /\ \A i \in DOMAIN s : s[i] \in E
  /\ \A i, j \in DOMAIN s : s[i] = s[j] => i = j
  /\ \A e \in E : \E i \in DOMAIN s : s[i] = e

ASSUME HostAssumption ==
  /\ ManagerIp \in Hosts
  /\ NoHost \notin Hosts
  /\ ServerCert \in [Hosts -> Certs]
  /\ ProfileCert \in Certs \cup {NoCert}

\* A stored cluster list is a non-empty list of nodes with distinct hosts.
ASSUME ConfigAssumption ==
  \A c \in Configs :
    /\ c \in Seq(Entry)
    /\ c # <<>>
    /\ \A i, j \in DOMAIN c : c[i].host = c[j].host => i = j

VARIABLES
  up,         \* the hosts that are up and reachable
  configured, \* (history) the nodes the profile was configured with
  disk,       \* context.json of the active profile; Truncated while it is
              \* rewritten, and for good when the process is killed meanwhile
  profile,    \* env.profile, the copy this process loaded
  client,     \* the process' ClusterHTTPClient
  target,     \* env.target_manager, set by the --manager option
  pc,         \* where the process is in do_request
  snapshot,   \* list(enumerate(profile.cluster)) taken by the loop
  cursor,     \* position of the loop in the snapshot
  request,    \* (history) what happened to the current request
  outcome     \* how the last request ended, and who answered it

vars == <<up, configured, disk, profile, client, target, pc, snapshot, cursor,
          request, outcome>>
-----------------------------------------------------------------------------
\* (mutant) The node takes the first place without leaving its own.
MoveToFrontOverwrites(s, e) == [s EXCEPT ![1] = e]

\* list.remove(node) followed by [node] + list: the first occurrence of e in s
\* moves to the front, the entries before it move back by one.
MoveToFront(s, e) ==
  LET k == CHOOSE i \in DOMAIN s : s[i] = e /\ \A j \in 1 .. i - 1 : s[j] # e
  IN  [i \in 1 .. Len(s) |-> IF i = 1 THEN e
                             ELSE IF i <= k THEN s[i - 1]
                             ELSE s[i]]

\* `node.get("cert") or self.cert': a node without a certificate of its own
\* is contacted with the one used last.
CertFor(e, current) == IF e.cert = NoCert THEN current ELSE e.cert

Trusted(h, cert) == cert = ServerCert[h]
Answers(h) == h \in up /\ Trusted(h, client.cert)

\* (mutants) One copy too few is made, or the main manager shares its copy with
\* the first listed node.
CopyOfMainBeyondTee == client.size + 2
CopyOfMainShared == 1

\* itertools.tee(data, len(self._cluster) + 1), one copy per possible attempt.
CopyOfMain == client.size + 1
CopySent(i) == IF request.gen THEN Append(request.copies, i) ELSE <<>>

\* context.json opened with 'w' and not completely written: it holds no list.
Truncated == [cluster |-> <<>>, hostIp |-> NoHost]

NoRequest == [gen |-> FALSE, contacted |-> <<>>, copies |-> <<>>, alive |-> {}]
NoOutcome == [result |-> "none", by |-> NoHost]
NoClient == [host |-> NoHost, cert |-> NoCert, size |-> 0]

Init ==
  /\ up \in SUBSET Hosts
  /\ disk \in [cluster : Configs, hostIp : {NoHost}]
  /\ configured = {disk.cluster[i] : i \in DOMAIN disk.cluster}
  /\ profile = disk
  /\ client = NoClient
  /\ target = NoHost
  /\ pc = "closed"
  /\ snapshot = <<>>
  /\ cursor = 0
  /\ request = NoRequest
  /\ outcome = NoOutcome
-----------------------------------------------------------------------------
\* A host goes down, or comes back.
Toggle(h) ==
  /\ up' = IF h \in up THEN up \ {h} ELSE up \cup {h}
  /\ request' = [request EXCEPT !.alive = @ \ {h}]
  /\ UNCHANGED <<configured, disk, profile, client, target, pc, snapshot,
                 cursor, outcome>>

\* A new cfy process loads the profile and builds its client; the certificate
\* of the first listed node wins over the one of the profile. json.load raises
\* a ValueError on a truncated file, so that no process starts with it.
OpenClient(t) ==
  /\ pc = "closed"
  /\ disk # Truncated
  /\ pc' = "ready"
  /\ profile' = disk
  /\ target' = t
  /\ client' = [host |-> ManagerIp,
                cert |-> CertFor(disk.cluster[1], ProfileCert),
                size |-> Len(disk.cluster)]
  /\ UNCHANGED <<up, configured, disk, snapshot, cursor, request, outcome>>

\* do_request: with --manager the request goes to that host only, otherwise
\* the main manager IP is tried first.
StartRequest(gen) ==
  LET h == IF target # NoHost THEN target ELSE ManagerIp
  IN  /\ pc = "ready"
      /\ pc' = IF target # NoHost THEN "direct" ELSE "main"
      /\ client' = [client EXCEPT !.host = h]
      /\ request' = [gen |-> gen, contacted |-> <<h>>, alive |-> up,
                     copies |-> IF gen THEN <<CopyOfMain>> ELSE <<>>]
      /\ outcome' = NoOutcome
      /\ UNCHANGED <<up, configured, disk, profile, target, snapshot, cursor>>

InFlight == pc \in {"direct", "main", "node"}

Finish(result, by) ==
  /\ pc' = "ready"
  /\ outcome' = [result |-> result, by |-> by]
  /\ snapshot' = <<>>
  /\ cursor' = 0
  /\ UNCHANGED <<up, configured, disk, profile, client, target, request>>

\* The contacted manager answers, with a response or with an error status
\* other than 502, which is raised to the caller.
Respond ==
  /\ InFlight /\ Answers(client.host)
  /\ \E result \in {"ok", "error"} : Finish(result, client.host)

\* No connection to the --manager host: raised to the caller, no failover.
DirectFails ==
  /\ pc = "direct" /\ ~Answers(client.host)
  /\ Finish("error", NoHost)

\* (mutant) An unreachable main manager ends the request.
MainFailsForGood ==
  /\ pc = "main" /\ ~Answers(client.host)
  /\ Finish("offline", NoHost)

\* No connection, or a 502, from the main manager IP: the loop over a copy of
\* the cluster list starts.
MainFails ==
  /\ pc = "main" /\ ~Answers(client.host)
  /\ pc' = "loop"
  /\ snapshot' = profile.cluster
  /\ cursor' = 0
  /\ UNCHANGED <<up, configured, disk, profile, client, target, request, outcome>>

\* No connection, or a 502, from a listed node: on to the next one.
NodeFails ==
  /\ pc = "node" /\ ~Answers(client.host)
  /\ pc' = "loop"
  /\ UNCHANGED <<up, configured, disk, profile, client, target, snapshot,
                 cursor, request, outcome>>

Current == snapshot[cursor + 1]

\* (mutant) The loop runs over the list itself: list.remove moves the nodes
\* behind the current one up, and the next one is passed over.
NextTurnLive == IF cursor + 2 < Len(snapshot) THEN cursor + 2 ELSE Len(snapshot)

NextTurn == cursor + 1

\* (mutant) The node of the main manager is not recognised.
TriedFirstNever(e) == FALSE

\* manager_ip in [node['host_ip'], node['hostname']]
TriedFirst(e) == e.host = ManagerIp

\* The node behind manager_ip was the first to be tried: the loop skips it.
SkipMainManager ==
  /\ pc = "loop" /\ cursor < Len(snapshot)
  /\ TriedFirst(Current)
  /\ cursor' = cursor + 1
  /\ UNCHANGED <<up, configured, disk, profile, client, target, pc, snapshot,
                 request, outcome>>

\* (mutant) The reordered profile is not saved.
PromoteInMemory(e) ==
  /\ profile' = [cluster |-> MoveToFront(profile.cluster, e), hostIp |-> e.host]
  /\ pc' = "node"
  /\ disk' = disk

\* _update_profile: the node goes first in the list, its attributes become the
\* profile's (manager_ip stays), and save() opens the file, which empties it.
Promote(e) ==
  /\ profile' = [cluster |-> MoveToFront(profile.cluster, e), hostIp |-> e.host]
  /\ pc' = "save"
  /\ disk' = Truncated

\* _use_node: the client is pointed at the next node, and the profile updated
\* before it is known whether the node answers.
TryNode ==
  /\ pc = "loop" /\ cursor < Len(snapshot)
  /\ ~TriedFirst(Current)
  /\ cursor' = NextTurn
  /\ IF Current.host = client.host
     THEN pc' = "node" /\ UNCHANGED <<client, profile, disk>>
     ELSE /\ client' = [client EXCEPT !.host = Current.host,
                                      !.cert = CertFor(Current, @)]
          /\ Promote(Current)
  /\ request' = [request EXCEPT !.contacted = Append(@, client'.host),
                                !.copies = CopySent(cursor + 1)]
  /\ UNCHANGED <<up, configured, target, snapshot, outcome>>

\* save() has written the profile; the attempt at the node follows.
SaveProfile ==
  /\ pc = "save"
  /\ disk' = profile
  /\ pc' = "node"
  /\ UNCHANGED <<up, configured, profile, client, target, snapshot, cursor,
                 request, outcome>>

\* Every listed node was tried: 'All cluster nodes are offline'.
GiveUp ==
  /\ pc = "loop" /\ cursor = Len(snapshot)
  /\ Finish("offline", NoHost)

\* The command ends or is killed, in the middle of save() too.
CloseClient ==
  /\ pc # "closed"
  /\ pc' = "closed"
  /\ client' = NoClient
  /\ target' = NoHost
  /\ snapshot' = <<>>
  /\ cursor' = 0
  /\ request' = NoRequest
  /\ outcome' = NoOutcome
  /\ UNCHANGED <<up, configured, disk, profile>>

RequestStep ==
  \/ Respond \/ DirectFails \/ MainFails \/ NodeFails
  \/ SkipMainManager \/ TryNode \/ SaveProfile \/ GiveUp

Next ==
  \/ \E h \in Hosts : Toggle(h)
  \/ \E t \in Hosts \cup {NoHost} : OpenClient(t)
  \/ \E gen \in BOOLEAN : StartRequest(gen)
  \/ RequestStep
  \/ CloseClient

Spec == Init /\ [][Next]_vars
-----------------------------------------------------------------------------
Listed(c) == {c[i].host : i \in DOMAIN c}
Contacted == {request.contacted[i] : i \in DOMAIN request.contacted}

\* Types of the variables, and the bounds the code's indexing relies on: the
\* loop stays within its snapshot, and a generator body is only ever asked for
\* copies that itertools.tee made.
TypeOK ==
  /\ up \subseteq Hosts
  /\ configured \subseteq Entry
  /\ disk \in [cluster : Seq(Entry), hostIp : Hosts \cup {NoHost}]
  /\ profile \in [cluster : Seq(Entry), hostIp : Hosts \cup {NoHost}]
  /\ client \in [host : Hosts \cup {NoHost}, cert : Certs \cup {NoCert}, size : Nat]
  /\ target \in Hosts \cup {NoHost}
  /\ pc \in {"closed", "ready", "direct", "main", "loop", "save", "node"}
  /\ snapshot \in Seq(Entry)
  /\ cursor \in 0 .. Len(snapshot)
  /\ request \in [gen : BOOLEAN, contacted : Seq(Hosts), alive : SUBSET Hosts,
                  copies : Seq(Nat)]
  /\ \A i \in DOMAIN request.copies : request.copies[i] \in 1 .. client.size + 1
  /\ outcome \in [result : {"none", "ok", "error", "offline"},
                  by : Hosts \cup {NoHost}]

\* Failing over reorders the cluster list and never loses or duplicates a node
\* of it (list.remove and the reassignment in _update_profile). The saved list
\* is lost in one way only, by a kill inside save(), which empties the file
\* before it writes it: a process that lives and is not saving has it whole.
NodesKept ==
  /\ Arranges(profile.cluster, configured)
  /\ disk # Truncated => Arranges(disk.cluster, configured)
  /\ disk = Truncated => pc \in {"save", "closed"}

\* 'All cluster nodes are offline' is only raised after the main manager IP
\* and every listed node were contacted, though the list is reordered while
\* the loop runs over it (do_request).
OfflineMeansAllContacted ==
  outcome.result = "offline" =>
    Contacted = {ManagerIp} \cup Listed(profile.cluster)

\* A request is sent to no host twice: the caller's operation is not repeated
\* on a manager that may have executed it (the skip of manager_ip, do_request).
NoHostTriedTwice ==
  \A i, j \in DOMAIN request.contacted :
    request.contacted[i] = request.contacted[j] => i = j

\* Every attempt of a request with a streamed body sends a copy of its own:
\* no attempt finds its generator already consumed (copied_data, do_request).
FreshCopyPerAttempt ==
  /\ request.gen => Len(request.copies) = Len(request.contacted)
  /\ \A i, j \in DOMAIN request.copies :
       request.copies[i] = request.copies[j] => i = j

\* When another manager than the main one answered, the saved profile names it
\* first and carries its address, so that it survives the process ("When an
\* active manager is found, the profile will be updated with its address").
FailoverRecorded ==
  (outcome.result = "ok" /\ target = NoHost /\ outcome.by # ManagerIp) =>
    /\ disk.cluster[1].host = outcome.by
    /\ disk.hostIp = outcome.by

\* CloudifyClusterClient: "this will keep trying with every node in the
\* cluster, until it finds an active manager": no node that was up all along,
\* and whose certificate the profile holds, is reported offline.
ActiveManagerFound ==
  outcome.result = "offline" =>
    \A e \in configured :
      ~(e.host \in request.alive /\ Trusted(e.host, CertFor(e, ProfileCert)))

\* What callers of the client rely on, see FailoverService.
Service == INSTANCE FailoverService WITH
  members <- {ManagerIp} \cup {e.host : e \in configured},
  busy <- pc \notin {"closed", "ready"},
  candidates <- IF pc \in {"closed", "ready"} THEN {}
                ELSE IF target # NoHost THEN {target}
                ELSE {ManagerIp} \cup {e.host : e \in configured},
  alive <- IF pc \in {"closed", "ready"} THEN {} ELSE request.alive

\* The client implements the service: it answers from a manager that is up,
\* and reports a failure only when no candidate stayed up.
ImplementsService == Service!Spec
=============================================================================
