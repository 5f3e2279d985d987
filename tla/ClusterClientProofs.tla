------------------------- MODULE ClusterClientProofs -------------------------
(***************************************************************************)
(* Machine-checked proofs about ClusterClient, for every set of hosts, any *)
(* stored cluster list and any assignment of certificates.                 *)
(***************************************************************************)
EXTENDS ClusterClient, TLAPS

\* The loop of do_request is running: its snapshot lists the cluster.
Looping == pc \in {"loop", "save", "node"}

\* What the loop has contacted so far: the main manager IP, and the listed
\* nodes up to the cursor.
Visited == {ManagerIp} \cup {snapshot[i].host : i \in 1 .. cursor}

\* The strengthening that makes TypeOK and NodesKept inductive: a process that
\* has a client loaded a list as long as the one its client was built for, and
\* the snapshot of the loop is a rearrangement of the configured nodes.
LoopInv ==
  /\ \A e, f \in configured : e.host = f.host => e = f
  /\ profile.cluster # <<>>
  /\ pc = "closed" => request.copies = <<>>
  /\ pc # "closed" => client.size = Len(profile.cluster)
  /\ disk # Truncated => Len(disk.cluster) = Len(profile.cluster)
  /\ Looping => Arranges(snapshot, configured) /\ Len(snapshot) = client.size

ListInv == TypeOK /\ NodesKept /\ LoopInv

\* The strengthening behind the properties of a request: until it ends, it has
\* contacted exactly the hosts the loop has passed, each once, and sent each of
\* them the copy of the body that its position selects.
RequestInv ==
  /\ pc = "main" => request.contacted = <<ManagerIp>>
  /\ Looping => Contacted = Visited
  /\ pc # "ready" => outcome = NoOutcome
  /\ pc \in {"main", "loop", "save", "node"} =>
       /\ \A i \in DOMAIN request.copies :
            request.copies[i] = client.size + 1 \/ request.copies[i] <= cursor
       /\ cursor <= client.size
  /\ pc \notin {"loop", "save", "node"} => cursor = 0
-----------------------------------------------------------------------------
\* In a list without repetitions the position MoveToFront removes is the only
\* one that holds the entry.
LEMMA FirstPosition ==
  ASSUME NEW S, NEW E, NEW s \in Seq(S), NEW e \in E, Arranges(s, E)
  PROVE  \E k \in 1 .. Len(s) :
           /\ k = CHOOSE i \in DOMAIN s : s[i] = e /\ \A j \in 1 .. i - 1 : s[j] # e
           /\ s[k] = e
           /\ \A j \in 1 .. Len(s) : s[j] = e => j = k
<1>1. DOMAIN s = 1 .. Len(s) /\ Len(s) \in Nat
  OBVIOUS
<1>2. PICK k \in DOMAIN s : s[k] = e
  BY DEF Arranges
<1>3. \A j \in DOMAIN s : s[j] = e => j = k
  BY <1>2 DEF Arranges
<1>4. s[k] = e /\ \A j \in 1 .. k - 1 : s[j] # e
  BY <1>1, <1>2, <1>3
<1>5. k = CHOOSE i \in DOMAIN s : s[i] = e /\ \A j \in 1 .. i - 1 : s[j] # e
  BY <1>2, <1>3, <1>4
<1> QED
  BY <1>1, <1>2, <1>3, <1>5

\* Putting a listed node first keeps the list's type, its length and its nodes.
LEMMA MoveToFrontKeeps ==
  ASSUME NEW S, NEW E, NEW s \in Seq(S), NEW e \in E, E \subseteq S, Arranges(s, E)
  PROVE  /\ MoveToFront(s, e) \in Seq(S)
         /\ Len(MoveToFront(s, e)) = Len(s)
         /\ Arranges(MoveToFront(s, e), E)
<1> DEFINE t == MoveToFront(s, e)
<1>1. PICK k \in 1 .. Len(s) :
        /\ k = CHOOSE i \in DOMAIN s : s[i] = e /\ \A j \in 1 .. i - 1 : s[j] # e
        /\ s[k] = e
        /\ \A j \in 1 .. Len(s) : s[j] = e => j = k
  BY FirstPosition
<1>2. t = [i \in 1 .. Len(s) |-> IF i = 1 THEN e
                                 ELSE IF i <= k THEN s[i - 1] ELSE s[i]]
  BY <1>1 DEF MoveToFront
<1> HIDE DEF t
<1>3. Len(s) \in Nat /\ DOMAIN s = 1 .. Len(s) /\ \A i \in 1 .. Len(s) : s[i] \in S
  OBVIOUS
<1>4. t \in Seq(S) /\ Len(t) = Len(s) /\ DOMAIN t = 1 .. Len(s)
  <2>1. \A i \in 1 .. Len(s) : t[i] \in S
    BY <1>1, <1>2, <1>3
  <2>2. DOMAIN t = 1 .. Len(s) /\ t = [i \in 1 .. Len(s) |-> t[i]]
    BY <1>2
  <2> QED
    BY <2>1, <2>2, <1>3
<1>5. \A i \in DOMAIN t : t[i] \in E
  BY <1>1, <1>2, <1>3, <1>4 DEF Arranges
<1>6. ASSUME NEW i \in DOMAIN t, NEW j \in DOMAIN t, t[i] = t[j]
      PROVE  i = j
  <2>1. \A a, b \in 1 .. Len(s) : s[a] = s[b] => a = b
    BY <1>3 DEF Arranges
  <2> DEFINE from(n) == IF n = 1 THEN k ELSE IF n <= k THEN n - 1 ELSE n
  <2>2. \A n \in DOMAIN t : from(n) \in 1 .. Len(s) /\ t[n] = s[from(n)]
    BY <1>1, <1>2, <1>3, <1>4
  <2>3. from(i) = from(j)
    BY <2>1, <2>2, <1>6
  <2> QED
    BY <2>3, <1>1, <1>3, <1>4
<1>7. ASSUME NEW f \in E
      PROVE  \E i \in DOMAIN t : t[i] = f
  <2>1. PICK n \in 1 .. Len(s) : s[n] = f
    BY <1>3 DEF Arranges
  <2>2. CASE n = k
    BY <2>1, <2>2, <1>1, <1>2, <1>3, <1>4
  <2>3. CASE n < k
    <3>1. n + 1 \in 1 .. Len(s) /\ n + 1 <= k /\ n + 1 # 1 /\ (n + 1) - 1 = n
      BY <2>3, <1>1, <1>3
    <3> QED
      BY <3>1, <2>1, <1>2, <1>4
  <2>4. CASE n > k
    <3>1. n # 1 /\ ~(n <= k) /\ n \in 1 .. Len(s)
      BY <2>4, <1>1, <1>3
    <3>2. t[n] = s[n]
      BY <3>1, <1>2
    <3> QED
      BY <3>1, <3>2, <2>1, <1>4
  <2> QED
    BY <2>2, <2>3, <2>4, <1>1, <1>3
<1> QED
  BY <1>4, <1>5, <1>6, <1>7 DEF Arranges, t
-----------------------------------------------------------------------------
\* A process starts from a stored list of distinct nodes and no request.
LEMMA ListInvInit == Init => ListInv
<1> SUFFICES ASSUME Init PROVE ListInv
  OBVIOUS
<1>1. PICK c \in Configs : disk = [cluster |-> c, hostIp |-> NoHost]
  BY DEF Init
<1>2. /\ disk.cluster = c /\ c \in Seq(Entry) /\ c # <<>>
      /\ \A i, j \in DOMAIN c : c[i].host = c[j].host => i = j
  BY <1>1, ConfigAssumption
<1>3. Arranges(c, configured) /\ configured \subseteq Entry
  BY <1>1, <1>2 DEF Init, Arranges
<1>4. TypeOK
  BY <1>1, <1>2, <1>3 DEF Init, TypeOK, NoRequest, NoOutcome, NoClient
<1>5. NodesKept
  BY <1>1, <1>3 DEF Init, NodesKept
<1>6. LoopInv
  BY <1>1, <1>2, <1>3 DEF Init, LoopInv, Looping, Arranges, NoRequest
<1> QED
  BY <1>4, <1>5, <1>6 DEF ListInv

\* The node the loop stands at is one of the profile's, so list.remove(node)
\* finds it, and moving it to the front keeps the cluster.
LEMMA PromoteKeeps ==
  ASSUME ListInv, pc = "loop", cursor < Len(snapshot)
  PROVE  LET moved == MoveToFront(profile.cluster, Current)
         IN  /\ cursor + 1 \in DOMAIN snapshot
             /\ Current \in configured /\ Current \in Entry
             /\ moved \in Seq(Entry)
             /\ Len(moved) = Len(profile.cluster)
             /\ Arranges(moved, configured)
<1>1. /\ snapshot \in Seq(Entry) /\ cursor \in Nat /\ configured \subseteq Entry
      /\ profile.cluster \in Seq(Entry)
  BY DEF ListInv, TypeOK
<1>2. cursor + 1 \in DOMAIN snapshot
  BY <1>1
<1>3. Arranges(snapshot, configured) /\ Arranges(profile.cluster, configured)
  BY DEF ListInv, LoopInv, Looping, NodesKept
<1>4. Current \in configured
  BY <1>2, <1>3 DEF Current, Arranges
<1> QED
  BY <1>1, <1>2, <1>3, <1>4, MoveToFrontKeeps

\* Every step preserves the types, the nodes and the shape of the loop.
LEMMA ListInvStep == ListInv /\ [Next]_vars => ListInv'
<1> SUFFICES ASSUME ListInv, [Next]_vars PROVE ListInv'
  OBVIOUS
<1> USE DEF ListInv
<1>1. ASSUME NEW h \in Hosts, Toggle(h) PROVE ListInv'
  <2>1. request'.copies = request.copies
    BY <1>1 DEF Toggle, TypeOK
  <2>2. TypeOK'
    BY <1>1, <2>1 DEF Toggle, TypeOK
  <2>3. NodesKept' /\ LoopInv'
    BY <1>1, <2>1 DEF Toggle, NodesKept, LoopInv, Looping
  <2> QED
    BY <2>2, <2>3
<1>2. ASSUME NEW t \in Hosts \cup {NoHost}, OpenClient(t) PROVE ListInv'
  <2>1. disk.cluster[1] \in Entry /\ disk.cluster # <<>>
    <3>1. /\ disk.cluster \in Seq(Entry) /\ profile.cluster \in Seq(Entry)
          /\ profile.cluster # <<>> /\ Len(disk.cluster) = Len(profile.cluster)
      BY <1>2 DEF OpenClient, TypeOK, LoopInv
    <3> QED
      BY <3>1
  <2>2. CertFor(disk.cluster[1], ProfileCert) \in Certs \cup {NoCert}
    BY <2>1, HostAssumption DEF CertFor, Entry
  <2>3. TypeOK'
    BY <1>2, <2>2, HostAssumption DEF OpenClient, TypeOK, LoopInv, NoRequest
  <2>4. NodesKept' /\ LoopInv'
    BY <1>2 DEF OpenClient, NodesKept, LoopInv, Looping, TypeOK
  <2> QED
    BY <2>3, <2>4
<1>3. ASSUME NEW gen \in BOOLEAN, StartRequest(gen) PROVE ListInv'
  <2> DEFINE h == IF target # NoHost THEN target ELSE ManagerIp
             copies == IF gen THEN <<CopyOfMain>> ELSE <<>>
  <2>3. h \in Hosts /\ client.size \in Nat
    BY HostAssumption DEF TypeOK
  <2>4. copies \in Seq(Nat) /\ \A i \in DOMAIN copies : copies[i] \in 1 .. client.size + 1
    BY <2>3 DEF CopyOfMain
  <2>5. request' = [gen |-> gen, contacted |-> <<h>>, alive |-> up, copies |-> copies]
    BY <1>3 DEF StartRequest
  <2>6. client' = [client EXCEPT !.host = h]
    BY <1>3 DEF StartRequest
  <2> HIDE DEF h, copies
  <2>7. client'.size = client.size /\ client' \in
          [host : Hosts \cup {NoHost}, cert : Certs \cup {NoCert}, size : Nat]
    BY <2>3, <2>6 DEF TypeOK
  <2>8. request' \in [gen : BOOLEAN, contacted : Seq(Hosts), alive : SUBSET Hosts,
                      copies : Seq(Nat)]
        /\ \A i \in DOMAIN request'.copies :
             request'.copies[i] \in 1 .. client'.size + 1
    BY <2>3, <2>4, <2>5, <2>7 DEF TypeOK
  <2>1. TypeOK'
    BY <1>3, <2>7, <2>8 DEF StartRequest, TypeOK, NoOutcome
  <2>2. NodesKept' /\ LoopInv'
    BY <1>3 DEF StartRequest, NodesKept, LoopInv, Looping, TypeOK
  <2> QED
    BY <2>1, <2>2
<1>4. ASSUME NEW result \in {"ok", "error", "offline"}, NEW by \in Hosts \cup {NoHost},
             pc \notin {"closed", "save"}, Finish(result, by)
      PROVE  ListInv'
  BY <1>4 DEF Finish, TypeOK, NodesKept, LoopInv, Looping
<1>5. CASE Respond
  BY <1>4, <1>5 DEF Respond, InFlight, Answers, TypeOK
<1>6. CASE DirectFails
  BY <1>4, <1>6 DEF DirectFails
<1>7. CASE MainFails
  BY <1>7 DEF MainFails, TypeOK, NodesKept, LoopInv, Looping
<1>8. CASE NodeFails
  BY <1>8 DEF NodeFails, TypeOK, NodesKept, LoopInv, Looping
<1>9. CASE SkipMainManager
  BY <1>9 DEF SkipMainManager, TriedFirst, TypeOK, NodesKept, LoopInv, Looping
<1>10. CASE TryNode
  <2> DEFINE moved == MoveToFront(profile.cluster, Current)
  <2>1. /\ cursor + 1 \in DOMAIN snapshot
        /\ Current \in configured /\ Current \in Entry
        /\ moved \in Seq(Entry)
        /\ Len(moved) = Len(profile.cluster)
        /\ Arranges(moved, configured)
    BY <1>10, PromoteKeeps DEF TryNode, NextTurn, TriedFirst
  <2>2. \/ profile' = profile /\ disk' = disk /\ pc' = "node"
        \/ /\ profile' = [cluster |-> moved, hostIp |-> Current.host]
           /\ disk' = Truncated /\ pc' = "save"
    BY <1>10 DEF TryNode, NextTurn, TriedFirst, Promote
  <2>10. pc = "loop" /\ UNCHANGED <<configured, snapshot>>
    BY <1>10 DEF TryNode, NextTurn, TriedFirst
  <2>11. disk # Truncated
    BY <2>10 DEF NodesKept
  <2> HIDE DEF moved
  <2>3. Current.host \in Hosts /\ CertFor(Current, client.cert) \in Certs \cup {NoCert}
    BY <2>1 DEF TypeOK, Entry, CertFor
  <2>4. client' \in [host : Hosts \cup {NoHost}, cert : Certs \cup {NoCert}, size : Nat]
        /\ client'.size = client.size /\ client'.host = Current.host
    BY <1>10, <2>3 DEF TryNode, NextTurn, TriedFirst, TypeOK
  <2>5. NodesKept'
    BY <2>1, <2>2, <2>10, <2>11 DEF NodesKept
  <2>6. /\ Len(profile'.cluster) = Len(profile.cluster) /\ profile'.cluster # <<>>
        /\ disk' # Truncated => Len(disk'.cluster) = Len(profile'.cluster)
    <3>1. profile.cluster \in Seq(Entry) /\ profile.cluster # <<>>
      BY DEF TypeOK, LoopInv
    <3>2. moved # <<>>
      BY <2>1, <3>1
    <3> QED
      BY <2>1, <2>2, <2>11, <3>1, <3>2 DEF LoopInv
  <2>7. LoopInv'
    BY <2>2, <2>4, <2>6, <2>10 DEF LoopInv, Looping
  <2>8. /\ request' \in [gen : BOOLEAN, contacted : Seq(Hosts), alive : SUBSET Hosts,
                         copies : Seq(Nat)]
        /\ \A i \in DOMAIN request'.copies : request'.copies[i] \in 1 .. client'.size + 1
    <3>1. cursor + 1 \in 1 .. client.size + 1
      BY <1>10, <2>1 DEF TryNode, NextTurn, TriedFirst, LoopInv, Looping, TypeOK
    <3>2. CopySent(cursor + 1) \in Seq(Nat)
          /\ \A i \in DOMAIN CopySent(cursor + 1) :
               CopySent(cursor + 1)[i] \in 1 .. client.size + 1
      BY <3>1 DEF CopySent, TypeOK
    <3>3. request' = [request EXCEPT !.contacted = Append(@, Current.host),
                                     !.copies = CopySent(cursor + 1)]
      BY <1>10, <2>4 DEF TryNode, NextTurn, TriedFirst
    <3>4. request'.copies = CopySent(cursor + 1)
          /\ request'.contacted = Append(request.contacted, Current.host)
          /\ request' \in [gen : BOOLEAN, contacted : Seq(Hosts),
                           alive : SUBSET Hosts, copies : Seq(Nat)]
      <4>1. Append(request.contacted, Current.host) \in Seq(Hosts)
        BY <2>3 DEF TypeOK
      <4>2. request = [gen |-> request.gen, contacted |-> request.contacted,
                       alive |-> request.alive, copies |-> request.copies]
        BY DEF TypeOK
      <4>3. request' = [gen |-> request.gen, alive |-> request.alive,
                        contacted |-> Append(request.contacted, Current.host),
                        copies |-> CopySent(cursor + 1)]
        BY <3>3, <4>2
      <4> QED
        BY <4>1, <4>3, <3>2 DEF TypeOK
    <3> QED
      BY <2>4, <3>2, <3>4
  <2>9. TypeOK'
    <3>1. /\ profile' \in [cluster : Seq(Entry), hostIp : Hosts \cup {NoHost}]
          /\ disk' \in [cluster : Seq(Entry), hostIp : Hosts \cup {NoHost}]
      <4>1. Truncated \in [cluster : Seq(Entry), hostIp : Hosts \cup {NoHost}]
        BY DEF Truncated
      <4>2. [cluster |-> moved, hostIp |-> Current.host]
              \in [cluster : Seq(Entry), hostIp : Hosts \cup {NoHost}]
        BY <2>1, <2>3
      <4> QED
        BY <2>2, <4>1, <4>2 DEF TypeOK
    <3>2. /\ cursor' \in 0 .. Len(snapshot') /\ pc' \in {"save", "node"}
          /\ UNCHANGED <<up, configured, target, snapshot, outcome>>
      BY <1>10, <2>1, <2>2 DEF TryNode, NextTurn, TriedFirst, TypeOK
    <3> QED
      BY <3>1, <3>2, <2>4, <2>8 DEF TypeOK
  <2> QED
    BY <2>5, <2>7, <2>9
<1>14. CASE SaveProfile
  <2>1. profile # Truncated
    BY DEF LoopInv, Truncated
  <2>2. TypeOK'
    BY <1>14 DEF SaveProfile, TypeOK
  <2>3. NodesKept' /\ LoopInv'
    BY <1>14, <2>1 DEF SaveProfile, NodesKept, LoopInv, Looping
  <2> QED
    BY <2>2, <2>3
<1>11. CASE GiveUp
  BY <1>4, <1>11 DEF GiveUp
<1>12. CASE CloseClient
  BY <1>12 DEF CloseClient, TypeOK, NodesKept, LoopInv, Looping, NoRequest,
               NoOutcome, NoClient
<1>13. CASE UNCHANGED vars
  BY <1>13 DEF vars, TypeOK, NodesKept, LoopInv, Looping
<1> QED
  BY <1>1, <1>2, <1>3, <1>5, <1>6, <1>7, <1>8, <1>9, <1>10, <1>11, <1>12, <1>13, <1>14
     DEF Next, RequestStep

\* ListInv is an invariant of the specification.
LEMMA ListInvAlways == Spec => []ListInv
<1> QED
  BY ListInvInit, ListInvStep, PTL DEF Spec

\* Every variable keeps its type, the loop stays within its snapshot and a
\* streamed body is only asked for copies that were made.
THEOREM TypeCorrect == Spec => []TypeOK
<1> QED
  BY ListInvAlways, PTL DEF ListInv

\* No sequence of requests and failures makes the profile lose or duplicate a
\* node, in memory or on disk; a killed process leaves the stored list whole
\* too, or has emptied its file because it was killed inside save().
THEOREM ClusterKept == Spec => []NodesKept
<1> QED
  BY ListInvAlways, PTL DEF ListInv
-----------------------------------------------------------------------------
RequestProps ==
  /\ RequestInv
  /\ OfflineMeansAllContacted
  /\ NoHostTriedTwice
  /\ FreshCopyPerAttempt

\* Between requests and in new processes the request's facts hold trivially.
LEMMA RequestInit == Init => RequestProps
<1> SUFFICES ASSUME Init PROVE RequestProps
  OBVIOUS
<1> QED
  BY DEF Init, RequestProps, RequestInv, Looping, OfflineMeansAllContacted,
         NoHostTriedTwice, FreshCopyPerAttempt, NoRequest, NoOutcome

\* At the end of the loop every listed node has been passed.
LEMMA LoopCoversCluster ==
  ASSUME ListInv, RequestInv, pc = "loop", cursor = Len(snapshot)
  PROVE  Contacted = {ManagerIp} \cup Listed(profile.cluster)
<1>1. /\ snapshot \in Seq(Entry) /\ profile.cluster \in Seq(Entry)
      /\ Contacted = {ManagerIp} \cup {snapshot[i].host : i \in 1 .. Len(snapshot)}
  BY DEF ListInv, TypeOK, RequestInv, Looping, Visited
<1>2. Arranges(snapshot, configured) /\ Arranges(profile.cluster, configured)
  BY DEF ListInv, LoopInv, Looping, NodesKept
<1>3. \A i \in DOMAIN snapshot : \E j \in DOMAIN profile.cluster :
        profile.cluster[j] = snapshot[i]
  BY <1>2 DEF Arranges
<1>4. \A j \in DOMAIN profile.cluster : \E i \in DOMAIN snapshot :
        snapshot[i] = profile.cluster[j]
  BY <1>2 DEF Arranges
<1>5. {snapshot[i].host : i \in 1 .. Len(snapshot)} = Listed(profile.cluster)
  <2>1. DOMAIN snapshot = 1 .. Len(snapshot)
    BY <1>1
  <2>2. ASSUME NEW i \in DOMAIN snapshot
        PROVE  snapshot[i].host \in Listed(profile.cluster)
    BY <1>3 DEF Listed
  <2>3. ASSUME NEW j \in DOMAIN profile.cluster
        PROVE  \E i \in 1 .. Len(snapshot) : profile.cluster[j].host = snapshot[i].host
    BY <1>4, <2>1
  <2> QED
    BY <2>1, <2>2, <2>3 DEF Listed
<1> QED
  BY <1>1, <1>5

\* The next node of the loop is a host that was not contacted yet.
LEMMA NextNodeIsNew ==
  ASSUME ListInv, RequestInv, TryNode
  PROVE  /\ Current.host \in Hosts
         /\ Current.host \notin Contacted
         /\ request'.gen = request.gen
         /\ request'.contacted = Append(request.contacted, Current.host)
         /\ request'.copies = CopySent(cursor + 1)
<1>1. pc = "loop" /\ cursor < Len(snapshot) /\ Current.host # ManagerIp
  BY DEF TryNode, NextTurn, TriedFirst
<1>2. cursor + 1 \in DOMAIN snapshot /\ Current \in configured /\ Current \in Entry
  BY <1>1, PromoteKeeps
<1>3. Arranges(snapshot, configured) /\ cursor \in Nat /\ snapshot \in Seq(Entry)
  BY <1>1 DEF ListInv, LoopInv, Looping, TypeOK
<1>4. ASSUME NEW i \in 1 .. cursor PROVE snapshot[i].host # Current.host
  <2>1. i \in DOMAIN snapshot /\ i # cursor + 1
    BY <1>1, <1>2, <1>3
  <2>2. snapshot[i] # Current /\ snapshot[i] \in configured
    BY <1>2, <1>3, <2>1 DEF Arranges, Current
  <2> QED
    BY <1>2, <2>2 DEF ListInv, LoopInv
<1>5. Current.host \notin Contacted
  BY <1>1, <1>4 DEF RequestInv, Looping, Visited
<1>6. client'.host = Current.host
  <2>1. client \in [host : Hosts \cup {NoHost}, cert : Certs \cup {NoCert}, size : Nat]
    BY DEF ListInv, TypeOK
  <2>2. CASE Current.host = client.host
    BY <2>2 DEF TryNode, NextTurn, TriedFirst
  <2>3. CASE Current.host # client.host
    <3>1. client' = [client EXCEPT !.host = Current.host,
                                   !.cert = CertFor(Current, @)]
      BY <2>3 DEF TryNode, NextTurn, TriedFirst
    <3> QED
      BY <2>1, <3>1
  <2> QED
    BY <2>2, <2>3
<1>7. request \in [gen : BOOLEAN, contacted : Seq(Hosts), alive : SUBSET Hosts,
                   copies : Seq(Nat)]
  BY DEF ListInv, TypeOK
<1>8. request' = [request EXCEPT !.contacted = Append(@, Current.host),
                                 !.copies = CopySent(cursor + 1)]
  BY <1>6 DEF TryNode, NextTurn, TriedFirst
<1> QED
  BY <1>2, <1>5, <1>7, <1>8 DEF Entry

\* The members of an extended list.
LEMMA AppendRange ==
  ASSUME NEW S, NEW s \in Seq(S), NEW e \in S
  PROVE  {Append(s, e)[i] : i \in DOMAIN Append(s, e)} = {s[i] : i \in DOMAIN s} \cup {e}
<1> DEFINE t == Append(s, e)
<1>1. /\ Len(s) \in Nat /\ DOMAIN s = 1 .. Len(s) /\ DOMAIN t = 1 .. Len(s) + 1
      /\ t[Len(s) + 1] = e /\ \A i \in 1 .. Len(s) : t[i] = s[i]
  OBVIOUS
<1> HIDE DEF t
<1>2. \A i \in DOMAIN t : i \in DOMAIN s \/ i = Len(s) + 1
  BY <1>1
<1>3. DOMAIN s \subseteq DOMAIN t /\ Len(s) + 1 \in DOMAIN t
  BY <1>1
<1>4. {t[i] : i \in DOMAIN t} = {s[i] : i \in DOMAIN s} \cup {e}
  <2>1. ASSUME NEW i \in DOMAIN t PROVE t[i] \in {s[n] : n \in DOMAIN s} \cup {e}
    BY <1>1, <1>2
  <2>2. ASSUME NEW i \in DOMAIN s PROVE s[i] \in {t[n] : n \in DOMAIN t}
    BY <1>1, <1>3
  <2>3. e \in {t[n] : n \in DOMAIN t}
    BY <1>1, <1>3
  <2> QED
    BY <2>1, <2>2, <2>3
<1> QED
  BY <1>4 DEF t

\* Every step preserves what is known of the request under way.
LEMMA RequestStepKeeps == ListInv /\ ListInv' /\ RequestProps /\ [Next]_vars => RequestProps'
<1> SUFFICES ASSUME ListInv, ListInv', RequestProps, [Next]_vars PROVE RequestProps'
  OBVIOUS
<1>0. TypeOK /\ TypeOK'
  BY DEF ListInv
<1> USE DEF RequestProps
<1>1. ASSUME NEW h \in Hosts, Toggle(h) PROVE RequestProps'
  <2>1. /\ request'.contacted = request.contacted /\ request'.copies = request.copies
        /\ request'.gen = request.gen
        /\ UNCHANGED <<configured, disk, profile, client, target, pc, snapshot,
                       cursor, outcome>>
    BY <1>1, <1>0 DEF Toggle, TypeOK
  <2>2. Contacted' = Contacted
    BY <2>1 DEF Contacted
  <2>3. Visited' = Visited /\ Listed(profile'.cluster) = Listed(profile.cluster)
    BY <2>1 DEF Visited
  <2> QED
    BY <2>1, <2>2, <2>3 DEF RequestInv, Looping,
         OfflineMeansAllContacted, NoHostTriedTwice, FreshCopyPerAttempt
<1>2. ASSUME NEW t \in Hosts \cup {NoHost}, OpenClient(t) PROVE RequestProps'
  BY <1>2 DEF OpenClient, RequestInv, Looping, NoOutcome, OfflineMeansAllContacted,
       NoHostTriedTwice, FreshCopyPerAttempt
<1>3. ASSUME NEW gen \in BOOLEAN, StartRequest(gen) PROVE RequestProps'
  <2> DEFINE h == IF target # NoHost THEN target ELSE ManagerIp
             copies == IF gen THEN <<CopyOfMain>> ELSE <<>>
  <2>1. /\ request'.contacted = <<h>> /\ request'.copies = copies /\ request'.gen = gen
        /\ pc' = (IF target # NoHost THEN "direct" ELSE "main")
        /\ outcome' = NoOutcome /\ UNCHANGED <<cursor, snapshot>>
        /\ client'.size = client.size
    BY <1>3, <1>0 DEF StartRequest, TypeOK
  <2>2. Len(copies) <= 1 /\ (gen => Len(copies) = 1)
        /\ \A i \in DOMAIN copies : i = 1 /\ copies[i] = client.size + 1
    BY DEF CopyOfMain
  <2>3. pc = "ready" /\ (pc' = "main" => h = ManagerIp)
    BY <1>3, <2>1 DEF StartRequest
  <2> HIDE DEF h, copies
  <2>4. RequestInv'
    <3>1. cursor = 0 /\ client.size \in Nat
      BY <2>3, <1>0 DEF RequestInv, TypeOK
    <3> QED
      BY <2>1, <2>2, <2>3, <3>1 DEF RequestInv, Looping
  <2>5. OfflineMeansAllContacted' /\ NoHostTriedTwice' /\ FreshCopyPerAttempt'
    BY <2>1, <2>2 DEF NoOutcome, OfflineMeansAllContacted, NoHostTriedTwice,
         FreshCopyPerAttempt
  <2> QED
    BY <2>4, <2>5
<1>4. ASSUME NEW result, NEW by, result \in {"ok", "error"}, Finish(result, by)
      PROVE  RequestProps'
  BY <1>4 DEF Finish, RequestInv, Looping, OfflineMeansAllContacted,
       NoHostTriedTwice, FreshCopyPerAttempt
<1>5. CASE Respond
  BY <1>4, <1>5 DEF Respond
<1>6. CASE DirectFails
  BY <1>4, <1>6 DEF DirectFails
<1>7. CASE MainFails
  <2>1. /\ pc = "main" /\ pc' = "loop" /\ cursor' = 0 /\ snapshot' = profile.cluster
        /\ UNCHANGED <<request, client, outcome, profile>>
    BY <1>7 DEF MainFails
  <2>2. Contacted' = {ManagerIp} /\ Visited' = {ManagerIp}
    <3>1. request.contacted = <<ManagerIp>>
      BY <2>1 DEF RequestInv
    <3> QED
      BY <2>1, <3>1 DEF Contacted, Visited
  <2>3. RequestInv'
    BY <2>1, <2>2, <1>0 DEF RequestInv, Looping, TypeOK
  <2> QED
    BY <2>1, <2>3 DEF RequestInv, NoOutcome, OfflineMeansAllContacted,
         NoHostTriedTwice, FreshCopyPerAttempt
<1>8. CASE NodeFails
  BY <1>8 DEF NodeFails, RequestInv, Looping, Contacted, Visited, NoOutcome,
       OfflineMeansAllContacted, NoHostTriedTwice, FreshCopyPerAttempt
<1>9. CASE SkipMainManager
  <2>1. /\ pc = "loop" /\ cursor' = cursor + 1 /\ Current.host = ManagerIp
        /\ cursor < Len(snapshot)
        /\ UNCHANGED <<client, profile, pc, snapshot, request, outcome>>
    BY <1>9 DEF SkipMainManager, TriedFirst
  <2>2. cursor \in Nat /\ Len(snapshot) = client.size /\ client.size \in Nat
    BY <2>1, <1>0 DEF ListInv, LoopInv, Looping, TypeOK
  <2>3. Visited' = Visited
    BY <2>1, <2>2 DEF Visited, Current
  <2>4. cursor + 1 <= client.size /\ \A i \in DOMAIN request.copies :
          request.copies[i] <= cursor => request.copies[i] <= cursor + 1
    BY <2>1, <2>2, <1>0 DEF TypeOK
  <2>5. RequestInv'
    BY <2>1, <2>3, <2>4 DEF RequestInv, Looping, Contacted
  <2> QED
    BY <2>1, <2>5 DEF RequestInv, NoOutcome, OfflineMeansAllContacted,
         NoHostTriedTwice, FreshCopyPerAttempt
<1>10. CASE TryNode
  <2>1. /\ Current.host \in Hosts /\ Current.host \notin Contacted
        /\ request'.gen = request.gen
        /\ request'.contacted = Append(request.contacted, Current.host)
        /\ request'.copies = CopySent(cursor + 1)
    BY <1>10, NextNodeIsNew
  <2>2. /\ pc = "loop" /\ pc' \in {"save", "node"} /\ cursor' = cursor + 1
        /\ cursor < Len(snapshot) /\ UNCHANGED <<snapshot, outcome>>
        /\ outcome = NoOutcome
    BY <1>10 DEF TryNode, NextTurn, TriedFirst, Promote, RequestInv
  <2>3. /\ cursor \in Nat /\ Len(snapshot) = client.size /\ client.size \in Nat
        /\ client'.size = client.size
        /\ request.contacted \in Seq(Hosts) /\ request.copies \in Seq(Nat)
    <3>1. Len(snapshot) = client.size /\ Len(snapshot') = client'.size
      BY <2>2 DEF ListInv, LoopInv, Looping
    <3> QED
      BY <3>1, <2>2, <1>0 DEF TypeOK
  <2>4. Contacted' = Contacted \cup {Current.host}
    <3>1. Contacted' = {Append(request.contacted, Current.host)[i] :
                          i \in DOMAIN Append(request.contacted, Current.host)}
      BY <2>1 DEF Contacted
    <3>2. {Append(request.contacted, Current.host)[i] :
             i \in DOMAIN Append(request.contacted, Current.host)}
            = {request.contacted[i] : i \in DOMAIN request.contacted} \cup {Current.host}
      <4> DEFINE s == request.contacted
                 e == Current.host
      <4>1. s \in Seq(Hosts) /\ e \in Hosts
        BY <2>1, <2>3
      <4> HIDE DEF s, e
      <4>2. {Append(s, e)[i] : i \in DOMAIN Append(s, e)} = {s[i] : i \in DOMAIN s} \cup {e}
        BY <4>1, AppendRange
      <4> QED
        BY <4>2 DEF s, e
    <3> QED
      BY <3>1, <3>2 DEF Contacted
  <2>5. Visited' = Visited \cup {Current.host}
    BY <2>2, <2>3 DEF Visited, Current
  <2>6. NoHostTriedTwice'
    BY <2>1, <2>3 DEF NoHostTriedTwice, Contacted
  <2>7. /\ \A i \in DOMAIN request'.copies :
             request'.copies[i] = client.size + 1 \/ request'.copies[i] <= cursor + 1
        /\ \A i, j \in DOMAIN request'.copies :
             request'.copies[i] = request'.copies[j] => i = j
        /\ request.gen => Len(request'.copies) = Len(request'.contacted)
    <3>1. CASE ~request.gen
      BY <2>1, <3>1 DEF CopySent
    <3>2. CASE request.gen
      <4>1. request'.copies = Append(request.copies, cursor + 1)
        BY <2>1, <3>2 DEF CopySent
      <4>2. cursor + 1 # client.size + 1
        BY <2>2, <2>3
      <4>3. \A i \in DOMAIN request.copies :
              /\ request.copies[i] \in Nat
              /\ request.copies[i] = client.size + 1 \/ request.copies[i] <= cursor
        BY <2>2, <2>3 DEF RequestInv
      <4>4. \A i \in DOMAIN request.copies : request.copies[i] # cursor + 1
        BY <4>2, <4>3, <2>3
      <4>5. Len(request.copies) = Len(request.contacted)
        BY <3>2 DEF FreshCopyPerAttempt
      <4>6. \A i, j \in DOMAIN request.copies :
              request.copies[i] = request.copies[j] => i = j
        BY DEF FreshCopyPerAttempt
      <4>7. /\ Len(request'.copies) = Len(request.copies) + 1
            /\ DOMAIN request'.copies = 1 .. Len(request.copies) + 1
            /\ request'.copies[Len(request.copies) + 1] = cursor + 1
            /\ \A i \in 1 .. Len(request.copies) :
                 request'.copies[i] = request.copies[i] /\ i \in DOMAIN request.copies
        BY <4>1, <2>3
      <4>11. \A i \in DOMAIN request'.copies :
               i \in 1 .. Len(request.copies) \/ i = Len(request.copies) + 1
        BY <4>7, <2>3
      <4>8. Len(request'.contacted) = Len(request.contacted) + 1
        BY <2>1, <2>3
      <4>9. \A i \in DOMAIN request'.copies :
              request'.copies[i] = client.size + 1 \/ request'.copies[i] <= cursor + 1
        <5>1. ASSUME NEW i \in 1 .. Len(request.copies)
              PROVE  request'.copies[i] = client.size + 1 \/ request'.copies[i] <= cursor + 1
          <6>1. request'.copies[i] = request.copies[i] /\ i \in DOMAIN request.copies
            BY <4>7
          <6>2. /\ request.copies[i] \in Nat
                /\ request.copies[i] = client.size + 1 \/ request.copies[i] <= cursor
            BY <4>3, <6>1
          <6> HIDE <4>3
          <6> QED
            BY <6>1, <6>2, <2>3
        <5>2. cursor + 1 <= cursor + 1
          BY <2>3
        <5> QED
          BY <4>7, <4>11, <5>1, <5>2
      <4>10. \A i, j \in DOMAIN request'.copies :
               request'.copies[i] = request'.copies[j] => i = j
        BY <4>4, <4>6, <4>7, <4>11, <2>3
      <4> QED
        BY <4>5, <4>7, <4>8, <4>9, <4>10
    <3> QED
      BY <3>1, <3>2
  <2>8. RequestInv'
    <3>1. Contacted' = Visited'
      BY <2>2, <2>4, <2>5 DEF RequestInv, Looping
    <3> QED
      BY <2>2, <2>3, <2>7, <3>1 DEF RequestInv, Looping
  <2>9. OfflineMeansAllContacted' /\ FreshCopyPerAttempt'
    BY <2>1, <2>2, <2>7 DEF OfflineMeansAllContacted, FreshCopyPerAttempt, NoOutcome
  <2> QED
    BY <2>6, <2>8, <2>9
<1>14. CASE SaveProfile
  BY <1>14 DEF SaveProfile, RequestInv, Looping, Contacted, Visited, NoOutcome,
       OfflineMeansAllContacted, NoHostTriedTwice, FreshCopyPerAttempt
<1>11. CASE GiveUp
  <2>1. pc' = "ready" /\ UNCHANGED <<request, profile>> /\ outcome'.result = "offline"
        /\ cursor' = 0
    BY <1>11 DEF GiveUp, Finish
  <2>2. Contacted = {ManagerIp} \cup Listed(profile.cluster)
    BY <1>11, LoopCoversCluster DEF GiveUp
  <2>3. Contacted' = {ManagerIp} \cup Listed(profile'.cluster)
    BY <2>1, <2>2 DEF Contacted
  <2>4. RequestInv'
    BY <2>1 DEF RequestInv, Looping
  <2> QED
    BY <2>1, <2>3, <2>4 DEF OfflineMeansAllContacted, NoHostTriedTwice,
         FreshCopyPerAttempt
<1>12. CASE CloseClient
  BY <1>12 DEF CloseClient, RequestInv, Looping, NoRequest, NoOutcome,
       OfflineMeansAllContacted, NoHostTriedTwice, FreshCopyPerAttempt
<1>13. CASE UNCHANGED vars
  <2>1. Contacted' = Contacted /\ Visited' = Visited
    BY <1>13 DEF vars, Contacted, Visited
  <2> QED
    BY <1>13, <2>1 DEF vars, RequestInv, Looping,
         OfflineMeansAllContacted, NoHostTriedTwice, FreshCopyPerAttempt
<1> QED
  BY <1>1, <1>2, <1>3, <1>5, <1>6, <1>7, <1>8, <1>9, <1>10, <1>11, <1>12, <1>13, <1>14
     DEF Next, RequestStep

\* So are the facts about the request under way.
LEMMA RequestPropsAlways == Spec => []RequestProps
<1> QED
  BY ListInvAlways, RequestInit, RequestStepKeeps, PTL DEF Spec

\* 'All cluster nodes are offline' is raised only after every node was tried.
THEOREM OfflineIsExhaustive == Spec => []OfflineMeansAllContacted
<1> QED
  BY RequestPropsAlways, PTL DEF RequestProps

\* No request reaches the same host twice.
THEOREM AttemptsAreDistinct == Spec => []NoHostTriedTwice
<1> QED
  BY RequestPropsAlways, PTL DEF RequestProps

\* Every attempt of a streamed request sends a fresh copy of its body.
THEOREM CopiesAreFresh == Spec => []FreshCopyPerAttempt
<1> QED
  BY RequestPropsAlways, PTL DEF RequestProps
-----------------------------------------------------------------------------
\* The strengthening behind FailoverRecorded: the profile in memory and the
\* saved one never differ but while the file is rewritten, and a listed node under way is the one they name
\* first. client.host is among the contacted hosts, so that _use_node never
\* finds the client already pointed at the node and skips the update.
FailoverInv ==
  /\ disk \in {profile, Truncated}
  /\ disk = Truncated => pc \in {"save", "closed"}
  /\ pc \in {"main", "loop", "save", "node"} => target = NoHost
  /\ pc = "main" => client.host = ManagerIp
  /\ pc = "direct" => client.host = target /\ target # NoHost
  /\ Looping => client.host \in Contacted
  /\ pc \in {"save", "node"} => /\ profile.cluster[1].host = client.host
                              /\ profile.hostIp = client.host

\* The entry MoveToFront is given becomes the first of the list.
LEMMA MoveToFrontLeads ==
  ASSUME NEW S, NEW s \in Seq(S), s # <<>>, NEW e
  PROVE  MoveToFront(s, e)[1] = e
<1>1. 1 \in 1 .. Len(s)
  OBVIOUS
<1> QED
  BY <1>1 DEF MoveToFront

\* An attempt at a listed node always updates and saves the profile: the node
\* was not contacted before, so the client is not pointed at it.
LEMMA TryNodePromotes ==
  ASSUME ListInv, RequestInv, FailoverInv, TryNode
  PROVE  /\ Promote(Current)
         /\ client'.host = Current.host
         /\ client'.cert = CertFor(Current, client.cert)
<1>1. pc = "loop" /\ Current.host \notin Contacted /\ client.host \in Contacted
  BY NextNodeIsNew DEF TryNode, NextTurn, TriedFirst, FailoverInv, Looping
<1>2. /\ client' = [client EXCEPT !.host = Current.host, !.cert = CertFor(Current, @)]
      /\ Promote(Current)
  BY <1>1 DEF TryNode, NextTurn, TriedFirst
<1>3. client \in [host : Hosts \cup {NoHost}, cert : Certs \cup {NoCert}, size : Nat]
  BY DEF ListInv, TypeOK
<1> QED
  BY <1>2, <1>3

\* A process starts with the stored profile.
LEMMA FailoverInit == Init => FailoverInv /\ FailoverRecorded
<1> QED
  BY DEF Init, FailoverInv, FailoverRecorded, Looping, NoOutcome

\* Every step keeps the two profiles equal and the first node the one in use.
LEMMA FailoverStep ==
  ListInv /\ RequestProps /\ RequestProps' /\ FailoverInv /\ FailoverRecorded /\ [Next]_vars
    => FailoverInv' /\ FailoverRecorded'
<1> SUFFICES ASSUME ListInv, RequestProps, RequestProps', FailoverInv, FailoverRecorded,
                    [Next]_vars
             PROVE  FailoverInv' /\ FailoverRecorded'
  OBVIOUS
<1>0. TypeOK /\ RequestInv /\ RequestInv'
  BY DEF ListInv, RequestProps
<1>1. ASSUME NEW h \in Hosts, Toggle(h) PROVE FailoverInv' /\ FailoverRecorded'
  <2>1. Contacted' = Contacted
    <3>1. request'.contacted = request.contacted
      BY <1>1, <1>0 DEF Toggle, TypeOK
    <3> QED
      BY <3>1 DEF Contacted
  <2> QED
    BY <1>1, <2>1 DEF Toggle, FailoverInv, FailoverRecorded, Looping
<1>2. ASSUME NEW t \in Hosts \cup {NoHost}, OpenClient(t)
      PROVE  FailoverInv' /\ FailoverRecorded'
  <2>1. outcome = NoOutcome
    BY <1>2, <1>0 DEF OpenClient, RequestInv
  <2> QED
    BY <1>2, <2>1 DEF OpenClient, FailoverInv, FailoverRecorded, Looping, NoOutcome
<1>3. ASSUME NEW gen \in BOOLEAN, StartRequest(gen)
      PROVE  FailoverInv' /\ FailoverRecorded'
  BY <1>3, <1>0 DEF StartRequest, FailoverInv, FailoverRecorded, Looping, NoOutcome,
     TypeOK
<1>4. ASSUME NEW result, NEW by, Finish(result, by),
             pc \in {"direct", "main", "loop", "node"},
             by = ManagerIp \/ target # NoHost \/ result # "ok"
               \/ (profile.cluster[1].host = by /\ profile.hostIp = by)
      PROVE  FailoverInv' /\ FailoverRecorded'
  BY <1>4 DEF Finish, FailoverInv, FailoverRecorded, Looping
<1>5. CASE Respond
  BY <1>4, <1>5 DEF Respond, InFlight, FailoverInv
<1>6. CASE DirectFails
  BY <1>4, <1>6 DEF DirectFails
<1>7. CASE MainFails
  <2>1. /\ pc = "main" /\ pc' = "loop" /\ client.host = ManagerIp /\ outcome = NoOutcome
        /\ UNCHANGED <<disk, profile, client, target, request, outcome>>
    BY <1>7, <1>0 DEF MainFails, FailoverInv, RequestInv
  <2>2. client.host \in Contacted'
    BY <2>1, <1>0 DEF RequestInv, Contacted
  <2> QED
    BY <2>1, <2>2 DEF FailoverInv, FailoverRecorded, Looping, NoOutcome
<1>8. CASE NodeFails
  <2>1. Contacted' = Contacted
    BY <1>8 DEF NodeFails, Contacted
  <2> QED
    BY <1>8, <2>1 DEF NodeFails, FailoverInv, FailoverRecorded, Looping
<1>9. CASE SkipMainManager
  <2>1. Contacted' = Contacted
    BY <1>9 DEF SkipMainManager, TriedFirst, Contacted
  <2> QED
    BY <1>9, <2>1 DEF SkipMainManager, TriedFirst, FailoverInv, FailoverRecorded, Looping
<1>10. CASE TryNode
  <2>1. /\ Promote(Current) /\ client'.host = Current.host
        /\ request'.contacted = Append(request.contacted, Current.host)
        /\ Current.host \in Hosts
    BY <1>10, <1>0, TryNodePromotes, NextNodeIsNew
  <2>2. /\ pc = "loop" /\ pc' = "save" /\ UNCHANGED <<target, outcome>>
        /\ outcome = NoOutcome
    BY <1>10, <1>0, <2>1 DEF TryNode, NextTurn, TriedFirst, RequestInv, Promote
  <2>3. profile.cluster \in Seq(Entry) /\ profile.cluster # <<>>
    BY <1>0 DEF TypeOK, ListInv, LoopInv
  <2>4. profile'.cluster[1].host = Current.host /\ profile'.hostIp = Current.host
        /\ disk' = Truncated
    <3>1. profile' = [cluster |-> MoveToFront(profile.cluster, Current),
                      hostIp |-> Current.host]
          /\ disk' = Truncated
      BY <2>1 DEF Promote
    <3>2. MoveToFront(profile.cluster, Current)[1] = Current
      BY <2>3, MoveToFrontLeads
    <3> QED
      BY <3>1, <3>2
  <2>5. client'.host \in Contacted'
    <3>1. request.contacted \in Seq(Hosts)
      BY <1>0 DEF TypeOK
    <3>2. /\ Len(request.contacted) + 1 \in DOMAIN request'.contacted
          /\ request'.contacted[Len(request.contacted) + 1] = Current.host
      BY <2>1, <3>1
    <3> QED
      BY <2>1, <3>2 DEF Contacted
  <2> QED
    BY <2>1, <2>2, <2>4, <2>5 DEF FailoverInv, FailoverRecorded, Looping, NoOutcome
<1>14. CASE SaveProfile
  <2>1. Contacted' = Contacted /\ outcome' = NoOutcome
    BY <1>14, <1>0 DEF SaveProfile, Contacted, RequestInv
  <2>2. profile # Truncated
    BY DEF ListInv, LoopInv, Truncated
  <2> QED
    BY <1>14, <2>1, <2>2 DEF SaveProfile, FailoverInv, FailoverRecorded, Looping, NoOutcome
<1>11. CASE GiveUp
  BY <1>4, <1>11 DEF GiveUp
<1>12. CASE CloseClient
  BY <1>12 DEF CloseClient, FailoverInv, FailoverRecorded, Looping, NoOutcome
<1>13. CASE UNCHANGED vars
  <2>1. Contacted' = Contacted
    BY <1>13 DEF vars, Contacted
  <2> QED
    BY <1>13, <2>1 DEF vars, FailoverInv, FailoverRecorded, Looping
<1> QED
  BY <1>1, <1>2, <1>3, <1>5, <1>6, <1>7, <1>8, <1>9, <1>10, <1>11, <1>12, <1>13, <1>14
     DEF Next, RequestStep

\* Both hold in every reachable state.
LEMMA FailoverAlways == Spec => [](FailoverInv /\ FailoverRecorded)
<1> QED
  BY ListInvAlways, RequestPropsAlways, FailoverInit, FailoverStep, PTL DEF Spec

\* When a manager other than the main one answered, the saved profile names it
\* first and carries its address.
THEOREM FailoverIsSaved == Spec => []FailoverRecorded
<1> QED
  BY FailoverAlways, PTL
-----------------------------------------------------------------------------
\* One CA signs the certificates of all the managers, and the profile leads to
\* it: on its own, or at every node. This is what ClusterClient.cfg instantiates,
\* and what ActiveManagerFound needs: ClusterClientCAs.cfg shows it violated
\* when each manager has a CA of its own.
SignedBy(c) ==
  /\ c \in Certs
  /\ \A h \in Hosts : ServerCert[h] = c
  /\ \A list \in Configs : \A i \in DOMAIN list : CertFor(list[i], ProfileCert) = c

\* The strengthening behind ActiveManagerFound: the client always trusts the
\* managers, and a host that was contacted and has been up since the request
\* started is the one that is about to answer.
ReachInv(c) ==
  /\ \A e \in configured : CertFor(e, ProfileCert) = c
  /\ pc # "closed" => client.cert = c
  /\ request.alive \subseteq up
  /\ pc \in {"direct", "main", "save", "node"} => Contacted \cap request.alive \subseteq {client.host}
  /\ pc = "loop" => Contacted \cap request.alive = {}
  /\ outcome.result = "offline" => Contacted \cap request.alive = {}

\* A node without a certificate of its own keeps the one the client has.
LEMMA SameCertEverywhere ==
  ASSUME NEW c \in Certs, NEW e, CertFor(e, ProfileCert) = c
  PROVE  CertFor(e, c) = c
<1> QED
  BY DEF CertFor

\* The certificates of the configured nodes are those of the stored list.
LEMMA ReachInit ==
  ASSUME NEW c, SignedBy(c), Init
  PROVE  ReachInv(c)
<1>1. PICK list \in Configs : disk = [cluster |-> list, hostIp |-> NoHost]
  BY DEF Init
<1>2. configured = {list[i] : i \in DOMAIN list}
  BY <1>1 DEF Init
<1> QED
  BY <1>2 DEF Init, ReachInv, SignedBy, NoRequest, NoOutcome

\* Under one CA an attempt fails only at a host that is down, and such a host
\* has not been up since the request started.
LEMMA FailedIsDown ==
  ASSUME NEW c, SignedBy(c), ListInv, ReachInv(c), pc \in {"direct", "main", "node"},
         client.host \in Hosts, ~Answers(client.host)
  PROVE  Contacted \cap request.alive = {}
<1>1. client.host \notin up
  BY DEF Answers, Trusted, ReachInv, SignedBy
<1> QED
  BY <1>1 DEF ReachInv

\* Every step preserves what is known of the contacted hosts.
LEMMA ReachStep ==
  ASSUME NEW c, SignedBy(c), ListInv, ListInv', RequestInv, RequestInv', FailoverInv,
         ReachInv(c), [Next]_vars
  PROVE  ReachInv(c)'
<1>0. TypeOK /\ TypeOK'
  BY DEF ListInv
<1>1. ASSUME NEW h \in Hosts, Toggle(h) PROVE ReachInv(c)'
  <2>1. request'.contacted = request.contacted /\ request'.alive = request.alive \ {h}
    BY <1>1, <1>0 DEF Toggle, TypeOK
  <2>2. Contacted' = Contacted
    BY <2>1 DEF Contacted
  <2>3. request'.alive \subseteq up'
    BY <1>1, <2>1 DEF Toggle, ReachInv
  <2> QED
    BY <1>1, <2>1, <2>2, <2>3 DEF Toggle, ReachInv
<1>2. ASSUME NEW t \in Hosts \cup {NoHost}, OpenClient(t) PROVE ReachInv(c)'
  <2>1. disk.cluster[1] \in configured
    <3>1. disk.cluster \in Seq(Entry) /\ Arranges(disk.cluster, configured)
      BY <1>0, <1>2 DEF OpenClient, ListInv, TypeOK, NodesKept
    <3>3. /\ profile.cluster \in Seq(Entry) /\ profile.cluster # <<>>
          /\ Len(disk.cluster) = Len(profile.cluster)
      BY <1>0, <1>2 DEF OpenClient, ListInv, TypeOK, LoopInv
    <3>2. 1 \in DOMAIN disk.cluster
      BY <3>1, <3>3
    <3> QED
      BY <3>1, <3>2 DEF Arranges
  <2>2. client'.cert = c
    BY <1>2, <2>1 DEF OpenClient, ReachInv
  <2>3. outcome = NoOutcome /\ Contacted' = Contacted
    BY <1>2 DEF OpenClient, RequestInv, Contacted
  <2> QED
    BY <1>2, <2>2, <2>3 DEF OpenClient, ReachInv, NoOutcome
<1>3. ASSUME NEW gen \in BOOLEAN, StartRequest(gen) PROVE ReachInv(c)'
  <2> DEFINE h == IF target # NoHost THEN target ELSE ManagerIp
  <2>1. /\ request'.contacted = <<h>> /\ request'.alive = up /\ up' = up
        /\ client'.host = h /\ client'.cert = client.cert
        /\ pc = "ready" /\ pc' \in {"direct", "main"}
        /\ outcome' = NoOutcome /\ UNCHANGED configured
    BY <1>3, <1>0 DEF StartRequest, TypeOK
  <2> HIDE DEF h
  <2>2. Contacted' = {h}
    BY <2>1 DEF Contacted
  <2> QED
    BY <2>1, <2>2 DEF ReachInv, NoOutcome
<1>4. ASSUME NEW result, NEW by, Finish(result, by), pc # "closed",
             result = "offline" => Contacted \cap request.alive = {}
      PROVE  ReachInv(c)'
  <2>1. Contacted' = Contacted
    BY <1>4 DEF Finish, Contacted
  <2> QED
    BY <1>4, <2>1 DEF Finish, ReachInv
<1>5. CASE Respond
  BY <1>4, <1>5 DEF Respond, InFlight
<1>6. CASE DirectFails
  BY <1>4, <1>6 DEF DirectFails
<1>7. CASE MainFails
  <2>1. Contacted \cap request.alive = {}
    BY <1>7, FailedIsDown, HostAssumption DEF MainFails, FailoverInv
  <2>2. Contacted' = Contacted
    BY <1>7 DEF MainFails, Contacted
  <2> QED
    BY <1>7, <2>1, <2>2 DEF MainFails, ReachInv
<1>8. CASE NodeFails
  <2>1. client.host \in Contacted /\ Contacted \subseteq Hosts
    BY <1>8, <1>0 DEF NodeFails, FailoverInv, Looping, TypeOK, Contacted
  <2>2. Contacted \cap request.alive = {}
    BY <1>8, <2>1, FailedIsDown DEF NodeFails
  <2>3. Contacted' = Contacted
    BY <1>8 DEF NodeFails, Contacted
  <2> QED
    BY <1>8, <2>2, <2>3 DEF NodeFails, ReachInv
<1>9. CASE SkipMainManager
  <2>1. Contacted' = Contacted
    BY <1>9 DEF SkipMainManager, TriedFirst, Contacted
  <2> QED
    BY <1>9, <2>1 DEF SkipMainManager, TriedFirst, ReachInv
<1>10. CASE TryNode
  <2>1. /\ client'.host = Current.host /\ client'.cert = CertFor(Current, client.cert)
        /\ request'.contacted = Append(request.contacted, Current.host)
        /\ Current.host \in Hosts
    BY <1>10, TryNodePromotes, NextNodeIsNew
  <2>2. /\ pc = "loop" /\ pc' \in {"save", "node"} /\ cursor < Len(snapshot)
        /\ UNCHANGED <<up, configured, outcome>> /\ request'.alive = request.alive
        /\ outcome = NoOutcome
    BY <1>10, <1>0 DEF TryNode, NextTurn, TriedFirst, Promote, RequestInv, TypeOK
  <2>3. Current \in configured
    BY <2>2, PromoteKeeps
  <2>4. client'.cert = c
    BY <2>1, <2>2, <2>3, SameCertEverywhere DEF ReachInv, SignedBy
  <2>5. Contacted' \subseteq Contacted \cup {Current.host}
    BY <2>1, <1>0 DEF Contacted, TypeOK
  <2> QED
    BY <2>1, <2>2, <2>4, <2>5 DEF ReachInv, NoOutcome
<1>14. CASE SaveProfile
  <2>1. Contacted' = Contacted
    BY <1>14 DEF SaveProfile, Contacted
  <2> QED
    BY <1>14, <2>1 DEF SaveProfile, ReachInv
<1>11. CASE GiveUp
  BY <1>4, <1>11 DEF GiveUp, ReachInv
<1>12. CASE CloseClient
  BY <1>12 DEF CloseClient, ReachInv, NoRequest, NoOutcome
<1>13. CASE UNCHANGED vars
  <2>1. Contacted' = Contacted
    BY <1>13 DEF vars, Contacted
  <2> QED
    BY <1>13, <2>1 DEF vars, ReachInv
<1> QED
  BY <1>1, <1>2, <1>3, <1>5, <1>6, <1>7, <1>8, <1>9, <1>10, <1>11, <1>12, <1>13, <1>14
     DEF Next, RequestStep

\* Under one CA it holds in every reachable state.
LEMMA ReachAlways ==
  ASSUME NEW c, SignedBy(c)
  PROVE  Spec => [](ListInv /\ RequestProps /\ FailoverInv /\ ReachInv(c))
<1>1. Init => ReachInv(c)
  BY ReachInit
<1>2. /\ ListInv /\ ListInv' /\ RequestProps /\ RequestProps' /\ FailoverInv
      /\ ReachInv(c) /\ [Next]_vars
      => ReachInv(c)'
  BY ReachStep DEF RequestProps
<1> QED
  BY <1>1, <1>2, ListInvAlways, RequestPropsAlways, FailoverAlways, PTL DEF Spec

\* Under one CA a request is reported offline only when every node of the
\* cluster was down at some moment of it.
THEOREM ActiveManagerIsFound ==
  ASSUME NEW c, SignedBy(c)
  PROVE  Spec => []ActiveManagerFound
<1>1. ListInv /\ RequestProps /\ FailoverInv /\ ReachInv(c) => ActiveManagerFound
  <2> SUFFICES ASSUME ListInv, RequestProps, ReachInv(c), outcome.result = "offline",
                      NEW e \in configured
               PROVE  e.host \notin request.alive
    BY DEF ActiveManagerFound
  <2>1. PICK i \in DOMAIN profile.cluster : profile.cluster[i] = e
    BY DEF ListInv, NodesKept, Arranges
  <2>2. e.host \in Contacted
    BY <2>1 DEF RequestProps, OfflineMeansAllContacted, Listed
  <2> QED
    BY <2>2 DEF ReachInv
<1> QED
  BY <1>1, ReachAlways, PTL
-----------------------------------------------------------------------------
\* The hosts that may answer a request without --manager.
Members == {ManagerIp} \cup {e.host : e \in configured}

\* All that the refinement needs to know of a state.
ServiceInv(c) == ListInv /\ RequestProps /\ FailoverInv /\ ReachInv(c)

\* While the loop runs it contacts members of the cluster only.
LEMMA ContactedAreMembers ==
  ASSUME ListInv, RequestInv, Looping
  PROVE  Contacted \subseteq Members
<1>1. /\ Arranges(snapshot, configured) /\ snapshot \in Seq(Entry)
      /\ cursor \in 0 .. Len(snapshot)
  BY DEF ListInv, LoopInv, TypeOK
<1>2. \A i \in 1 .. cursor : i \in DOMAIN snapshot /\ snapshot[i] \in configured
  BY <1>1 DEF Arranges
<1> QED
  BY <1>2 DEF RequestInv, Visited, Members

\* A stored profile and an idle client are an idle service.
LEMMA ServiceInit == Init => Service!Init
<1> SUFFICES ASSUME Init PROVE Service!Init
  OBVIOUS
<1>1. configured \subseteq Entry
  BY ListInvInit DEF ListInv, TypeOK
<1>2. \A e \in configured : e.host \in Hosts
  BY <1>1 DEF Entry
<1> QED
  BY <1>2, HostAssumption DEF Init, Service!Init, NoOutcome, Service!NoOutcome

\* Every step of the client is a step of the service or leaves it unchanged:
\* the turns of the loop are invisible, and a request ends with an answer of a
\* candidate that is up, or after all the candidates were down.
LEMMA ServiceStep ==
  ASSUME NEW c, SignedBy(c), ServiceInv(c), ServiceInv(c)', [Next]_vars
  PROVE  [Service!Next]_(Service!vars)
<1>0. TypeOK /\ TypeOK' /\ RequestInv
  BY DEF ServiceInv, ListInv, RequestProps
<1> USE DEF ServiceInv
<1> DEFINE quiet == Service!vars' = Service!vars
<1>1. ASSUME NEW h \in Hosts, Toggle(h) PROVE Service!Toggle(h)
  <2>1. request'.alive = request.alive \ {h}
    BY <1>1, <1>0 DEF Toggle, TypeOK
  <2> QED
    BY <1>1, <2>1 DEF Toggle, Service!Toggle
<1>2. ASSUME NEW t \in Hosts \cup {NoHost}, OpenClient(t) PROVE quiet
  BY <1>2 DEF OpenClient, Service!vars
<1>3. ASSUME NEW gen \in BOOLEAN, StartRequest(gen)
      PROVE  Service!Begin(Members) \/ \E h \in Hosts : Service!Begin({h})
  <2>1. /\ request'.alive = up /\ pc = "ready"
        /\ UNCHANGED <<up, configured, target>> /\ outcome' = NoOutcome
    BY <1>3, <1>0 DEF StartRequest, TypeOK
  <2>2. CASE target = NoHost
    <3>1. pc' = "main"
      BY <1>3, <2>2 DEF StartRequest
    <3>2. Service!Begin(Members)
      BY <2>1, <2>2, <3>1 DEF Service!Begin, Members, NoOutcome, Service!NoOutcome
    <3> QED
      BY <3>2
  <2>3. CASE target # NoHost
    <3>1. PICK h \in Hosts : h = target
      BY <2>3, <1>0 DEF TypeOK
    <3>2. pc' = "direct"
      BY <1>3, <2>3 DEF StartRequest
    <3>3. Service!Begin({h})
      BY <2>1, <2>3, <3>1, <3>2 DEF Service!Begin, NoOutcome, Service!NoOutcome
    <3> QED
      BY <3>3
  <2> QED
    BY <2>2, <2>3
<1>4. ASSUME NEW result, NEW by, Finish(result, by), InFlight \/ pc = "loop"
      PROVE  Service!End(result, by)
  BY <1>4 DEF Finish, InFlight, Service!End
<1>5. CASE Respond
  <2>1. PICK h \in Hosts : h = client.host
    BY <1>5, <1>0 DEF Respond, InFlight, FailoverInv, Answers, TypeOK
  <2>2. PICK result \in {"ok", "error"} : Finish(result, h) /\ InFlight /\ h \in up
    BY <1>5, <2>1 DEF Respond, Answers
  <2>3. h \in (IF target # NoHost THEN {target} ELSE Members)
    BY <2>1, <2>2, ContactedAreMembers, <1>0 DEF InFlight, FailoverInv, Looping, Members
  <2>4. Service!End(result, h)
    BY <2>2, <1>4
  <2>5. Service!Answer(h)
    BY <2>2, <2>3, <2>4 DEF Service!Answer, InFlight, Members
  <2> QED
    BY <2>5 DEF Service!Next
<1>6. CASE DirectFails
  <2>1. /\ pc = "direct" /\ client.host = target /\ target # NoHost
        /\ ~Answers(client.host) /\ Finish("error", NoHost)
    BY <1>6 DEF DirectFails, FailoverInv
  <2>2. client.host \notin request.alive
    BY <2>1, <1>0 DEF Answers, Trusted, ReachInv, SignedBy, TypeOK
  <2>3. Service!Unanswered
    BY <2>1, <2>2, <1>4 DEF Service!Unanswered, InFlight
  <2> QED
    BY <2>3 DEF Service!Next
<1>7. CASE MainFails
  BY <1>7 DEF MainFails, Service!vars
<1>8. CASE NodeFails
  BY <1>8 DEF NodeFails, Service!vars
<1>9. CASE SkipMainManager
  BY <1>9 DEF SkipMainManager, TriedFirst, Service!vars
<1>10. CASE TryNode
  <2>1. request'.alive = request.alive
    BY <1>10, <1>0 DEF TryNode, NextTurn, TriedFirst, TypeOK
  <2> QED
    BY <1>10, <2>1 DEF TryNode, NextTurn, TriedFirst, Promote, Service!vars
<1>14. CASE SaveProfile
  BY <1>14 DEF SaveProfile, Service!vars
<1>11. CASE GiveUp
  <2>1. /\ pc = "loop" /\ target = NoHost /\ Finish("offline", NoHost)
    BY <1>11 DEF GiveUp, FailoverInv
  <2>2. Contacted = {ManagerIp} \cup Listed(profile.cluster)
    BY <1>11, <1>0, LoopCoversCluster DEF GiveUp
  <2>3. Members \subseteq Contacted
    <3>1. \A e \in configured : \E i \in DOMAIN profile.cluster : profile.cluster[i] = e
      BY DEF ListInv, NodesKept, Arranges
    <3> QED
      BY <2>2, <3>1 DEF Members, Listed
  <2>4. Members \cap request.alive = {}
    BY <2>1, <2>3 DEF ReachInv
  <2>5. Service!Unanswered
    BY <2>1, <2>4, <1>4 DEF Service!Unanswered, Members
  <2> QED
    BY <2>5 DEF Service!Next
<1>12. CASE CloseClient
  BY <1>12 DEF CloseClient, Service!Leave, Service!Next, NoOutcome, Service!NoOutcome
<1>13. CASE UNCHANGED vars
  BY <1>13 DEF vars, Service!vars
<1> QED
  BY <1>1, <1>2, <1>3, <1>5, <1>6, <1>7, <1>8, <1>9, <1>10, <1>11, <1>12, <1>13, <1>14
     DEF Next, RequestStep, Service!Next, Members

\* Under one CA the client implements the service: whatever order it tries the
\* managers in, a request is answered by a candidate that is up, or reported
\* unanswered when no candidate stayed up.
THEOREM ClientImplementsService ==
  ASSUME NEW c, SignedBy(c)
  PROVE  Spec => ImplementsService
<1>1. ServiceInv(c) /\ ServiceInv(c)' /\ [Next]_vars => [Service!Next]_(Service!vars)
  BY ServiceStep
<1> QED
  BY <1>1, ServiceInit, ReachAlways, PTL
     DEF Spec, ImplementsService, Service!Spec, ServiceInv
=============================================================================
