------------------------- MODULE ClusterThreadsProofs -------------------------
(***************************************************************************)
(* Machine-checked proofs about ClusterThreads, for any number of threads  *)
(* and requests, any cluster list and any set of hosts that answer.        *)
(***************************************************************************)
EXTENDS ClusterThreads, SequenceTheorems, WellFoundedInduction, TLAPS

\* The thread is at a node of its snapshot.
AtNode == {"remove", "concatenate", "assign", "open", "write", "node"}

\* The strengthening that makes ThreadsInv inductive: a thread that is past a
\* turn of its loop stands at a node that is not the main manager's, and the
\* list it is about to assign names the main manager if the shared one does.
TurnInv ==
  /\ cursor \in [Threads -> Nat]
  /\ \A t \in Threads :
       /\ pc[t] \in {"idle", "main"} => cursor[t] = 0
       /\ pc[t] \in AtNode => cursor[t] # 0 /\ Node(t) # ManagerIp
       /\ pc[t] = "assign" /\ ManagerIp \in Listed(Cluster) => ManagerIp \in Listed(fresh[t])

Inv == ThreadsInv /\ TurnInv
-----------------------------------------------------------------------------
\* An element of a list has a first position in it: the one list.remove takes.
LEMMA FirstPosition ==
  ASSUME NEW S, NEW s \in Seq(S), NEW h \in Listed(s)
  PROVE  \E k \in 1 .. Len(s) : s[k] = h /\ \A j \in 1 .. k - 1 : s[j] # h
<1> DEFINE T == {i \in 1 .. Len(s) : s[i] = h}
           R == OpToRel(<, Nat)
<1>1. T \subseteq Nat /\ T # {}
  BY DEF Listed
<1>2. IsWellFoundedOn(R, Nat)
  BY NatLessThanWellFounded
<1>3. \A i, j \in Nat : j < i => <<j, i>> \in R
  BY DEF OpToRel
<1> HIDE DEF T, R
<1>4. PICK k \in T : \A j \in T : ~(<<j, k>> \in R)
  BY <1>1, <1>2, WFMin
<1>5. k \in 1 .. Len(s) /\ s[k] = h
  BY <1>4 DEF T
<1>6. ASSUME NEW j \in 1 .. k - 1, s[j] = h PROVE FALSE
  <2>1. j \in T /\ j \in Nat /\ k \in Nat /\ j < k
    BY <1>5, <1>6 DEF T
  <2> QED
    BY <2>1, <1>3, <1>4
<1> QED
  BY <1>5, <1>6

\* list.remove(node) leaves the other nodes of the list in it.
LEMMA RemovedKeepsOthers ==
  ASSUME NEW S, NEW s \in Seq(S), NEW h \in Listed(s)
  PROVE  /\ Removed(s, h) \in Seq(S)
         /\ \A m \in Listed(s) : m # h => m \in Listed(Removed(s, h))
<1> DEFINE first(i) == s[i] = h /\ \A j \in 1 .. i - 1 : s[j] # h
           k == CHOOSE i \in DOMAIN s : first(i)
           a == SubSeq(s, 1, k - 1)
           b == SubSeq(s, k + 1, Len(s))
<1>1. DOMAIN s = 1 .. Len(s) /\ Len(s) \in Nat /\ \A i \in 1 .. Len(s) : s[i] \in S
  OBVIOUS
<1>2. \E i \in DOMAIN s : first(i)
  BY <1>1, FirstPosition
<1>3. k \in DOMAIN s /\ first(k)
  BY <1>2
<1>4. Removed(s, h) = a \o b
  BY DEF Removed
<1> HIDE DEF k
<1>5. k \in 1 .. Len(s) /\ k \in Int /\ s[k] = h
  BY <1>1, <1>3
<1>6. /\ a \in Seq(S) /\ Len(a) = k - 1
      /\ \A i \in 1 .. k - 1 : a[i] = s[i]
  <2>1. \A i \in 1 .. k - 1 : s[i] \in S
    BY <1>1, <1>5
  <2> QED
    BY <2>1, <1>1, <1>5, SubSeqProperties
<1>7. /\ b \in Seq(S) /\ Len(b) = Len(s) - k
      /\ \A i \in 1 .. Len(s) - k : b[i] = s[k + i]
  <2>1. \A i \in k + 1 .. Len(s) : s[i] \in S
    BY <1>1, <1>5
  <2>2. /\ b \in Seq(S)
        /\ Len(b) = IF k + 1 <= Len(s) THEN Len(s) - (k + 1) + 1 ELSE 0
        /\ \A i \in 1 .. Len(s) - (k + 1) + 1 : b[i] = s[(k + 1) + i - 1]
    BY <2>1, <1>1, <1>5, SubSeqProperties
  <2>3. Len(b) = Len(s) - k
    BY <2>2, <1>1, <1>5
  <2>4. ASSUME NEW i \in 1 .. Len(s) - k PROVE b[i] = s[k + i]
    <3>1. i \in 1 .. Len(s) - (k + 1) + 1 /\ (k + 1) + i - 1 = k + i
      BY <1>1, <1>5
    <3> QED
      BY <3>1, <2>2
  <2> QED
    BY <2>2, <2>3, <2>4
<1> HIDE DEF a, b
<1>8. /\ a \o b \in Seq(S) /\ Len(a \o b) = Len(s) - 1
      /\ \A i \in 1 .. Len(s) - 1 :
           (a \o b)[i] = IF i <= k - 1 THEN a[i] ELSE b[i - (k - 1)]
  <2>1. /\ a \o b \in Seq(S) /\ Len(a \o b) = Len(a) + Len(b)
        /\ \A i \in 1 .. Len(a) + Len(b) :
             (a \o b)[i] = IF i <= Len(a) THEN a[i] ELSE b[i - Len(a)]
    BY <1>6, <1>7, ConcatProperties
  <2>2. Len(a) + Len(b) = Len(s) - 1 /\ Len(a) = k - 1
    BY <1>1, <1>5, <1>6, <1>7
  <2> HIDE <1>6, <1>7
  <2> QED
    BY <2>1, <2>2
<1>9. ASSUME NEW m \in Listed(s), m # h
      PROVE  m \in Listed(a \o b)
  <2>1. PICK i \in 1 .. Len(s) : s[i] = m
    BY <1>1 DEF Listed
  <2>2. i # k
    BY <2>1, <1>5, <1>9
  <2>3. CASE i < k
    <3>1. i \in 1 .. Len(s) - 1 /\ i <= k - 1 /\ i \in 1 .. k - 1
      BY <2>1, <2>3, <1>1, <1>5
    <3>2. (a \o b)[i] = m /\ i \in DOMAIN (a \o b)
      BY <3>1, <2>1, <1>6, <1>8
    <3> QED
      BY <3>2 DEF Listed
  <2>4. CASE i > k
    <3>1. /\ i - 1 \in 1 .. Len(s) - 1 /\ ~(i - 1 <= k - 1)
          /\ i - k \in 1 .. Len(s) - k /\ (i - 1) - (k - 1) = i - k /\ k + (i - k) = i
      BY <2>1, <2>4, <1>1, <1>5
    <3>2. (a \o b)[i - 1] = b[i - k]
      BY <3>1, <1>8
    <3>3. b[i - k] = m
      BY <3>1, <2>1, <1>7
    <3>4. i - 1 \in DOMAIN (a \o b)
      BY <3>1, <1>8
    <3> QED
      BY <3>2, <3>3, <3>4 DEF Listed
  <2> QED
    BY <2>1, <2>2, <2>3, <2>4, <1>5
<1> QED
  BY <1>4, <1>8, <1>9

\* [node] + list holds the node and the nodes of the list.
LEMMA PrependedKeepsAll ==
  ASSUME NEW S, NEW s \in Seq(S), NEW h \in S
  PROVE  /\ <<h>> \o s \in Seq(S)
         /\ Listed(s) \subseteq Listed(<<h>> \o s)
<1>1. <<h>> \in Seq(S) /\ Len(<<h>>) = 1
  OBVIOUS
<1>2. /\ <<h>> \o s \in Seq(S) /\ Len(<<h>> \o s) = 1 + Len(s)
      /\ \A i \in 1 .. 1 + Len(s) : (<<h>> \o s)[i] = IF i <= 1 THEN <<h>>[i] ELSE s[i - 1]
  BY <1>1, ConcatProperties
<1>3. ASSUME NEW m \in Listed(s) PROVE m \in Listed(<<h>> \o s)
  <2>1. PICK i \in 1 .. Len(s) : s[i] = m
    BY DEF Listed
  <2>2. i + 1 \in 1 .. 1 + Len(s) /\ ~(i + 1 <= 1) /\ (i + 1) - 1 = i
    BY <2>1
  <2>3. (<<h>> \o s)[i + 1] = m /\ i + 1 \in DOMAIN (<<h>> \o s)
    BY <2>1, <2>2, <1>2
  <2> QED
    BY <2>3 DEF Listed
<1> QED
  BY <1>2, <1>3
-----------------------------------------------------------------------------
\* A process starts with the list it loaded, and idle threads.
LEMMA InvInit == Init => Inv
<1> SUFFICES ASSUME Init PROVE Inv
  OBVIOUS
<1>1. 0 \in 0 .. MaxRequests /\ <<>> \in Seq(Hosts) /\ Len(<<>>) = 0
  BY ClusterAssumption
<1> QED
  BY <1>1, ClusterAssumption
     DEF Init, Inv, ThreadsInv, TypeOK, MainManagerKept, TurnInv, AtNode

\* A request ends: its thread is idle again and the list stays as it is.
LEMMA EndKeeps ==
  ASSUME Inv, NEW t \in Threads, NEW how \in {"ok", "offline", "ValueError"},
         End(t, how), UNCHANGED <<up, list, file, sent>>
  PROVE  Inv'
<1>1. ThreadsInv'
  BY DEF Inv, ThreadsInv, TypeOK, MainManagerKept, TurnInv, End, Goto
<1>2. TurnInv'
  BY DEF Inv, ThreadsInv, TypeOK, TurnInv, AtNode, Node, End, Goto
<1> QED
  BY <1>1, <1>2 DEF Inv

\* The node a thread stands at is one of its snapshot.
LEMMA NodeIsHost ==
  ASSUME Inv, NEW t \in Threads, pc[t] \in AtNode
  PROVE  Node(t) \in Hosts /\ Node(t) # ManagerIp
<1> QED
  BY DEF Inv, ThreadsInv, TypeOK, TurnInv, Node

\* Every step of every thread preserves the invariant.
LEMMA InvStep == Inv /\ [Next]_vars => Inv'
<1> SUFFICES ASSUME Inv, [Next]_vars PROVE Inv'
  OBVIOUS
<1> USE DEF Inv, ThreadsInv
<1>1. ASSUME NEW t \in Threads, Begin(t) PROVE Inv'
  <2>1. sent'[t] \in 0 .. MaxRequests
    BY <1>1, ClusterAssumption DEF Begin, TypeOK
  <2>2. TypeOK' /\ MainManagerKept'
    BY <1>1, <2>1 DEF Begin, Goto, TypeOK, MainManagerKept
  <2>3. TurnInv'
    BY <1>1 DEF Begin, Goto, TypeOK, TurnInv, AtNode, Node
  <2> QED
    BY <2>2, <2>3
<1>2. ASSUME NEW t \in Threads, Respond(t) PROVE Inv'
  BY <1>2, EndKeeps DEF Respond
<1>3. ASSUME NEW t \in Threads, MainFails(t) PROVE Inv'
  <2>1. TypeOK' /\ MainManagerKept'
    BY <1>3 DEF MainFails, Goto, TypeOK, MainManagerKept, TurnInv
  <2>2. TurnInv'
    BY <1>3 DEF MainFails, Goto, TypeOK, TurnInv, AtNode, Node
  <2> QED
    BY <2>1, <2>2
<1>4. ASSUME NEW t \in Threads, NodeFails(t) PROVE Inv'
  <2>1. TypeOK' /\ MainManagerKept'
    BY <1>4 DEF NodeFails, Goto, TypeOK, MainManagerKept
  <2>2. TurnInv'
    BY <1>4 DEF NodeFails, Goto, TypeOK, TurnInv, AtNode, Node
  <2> QED
    BY <2>1, <2>2
<1>5. ASSUME NEW t \in Threads, NextNode(t) PROVE Inv'
  <2>1. TypeOK' /\ MainManagerKept'
    BY <1>5 DEF NextNode, Goto, TypeOK, MainManagerKept, TurnInv
  <2>2. TurnInv'
    BY <1>5 DEF NextNode, Goto, TypeOK, TurnInv, AtNode, Node
  <2> QED
    BY <2>1, <2>2
<1>6. ASSUME NEW t \in Threads, GiveUp(t) PROVE Inv'
  BY <1>6, EndKeeps DEF GiveUp
<1>7. ASSUME NEW t \in Threads, Remove(t) PROVE Inv'
  <2>1. CASE Node(t) \in Listed(list)
    <3>1. /\ pc[t] = "remove" /\ list' = Removed(list, Node(t)) /\ Goto(t, "concatenate")
          /\ UNCHANGED <<up, file, sent, snapshot, cursor, fresh, outcome>>
      BY <1>7, <2>1 DEF Remove
    <3>2. Node(t) # ManagerIp
      BY <3>1, NodeIsHost DEF AtNode
    <3>3. /\ list' \in Seq(Hosts)
          /\ ManagerIp \in Listed(list) => ManagerIp \in Listed(list')
      BY <3>1, <3>2, <2>1, RemovedKeepsOthers DEF TypeOK
    <3>4. TypeOK' /\ MainManagerKept'
      BY <3>1, <3>3 DEF Goto, TypeOK, MainManagerKept
    <3>5. TurnInv'
      BY <3>1 DEF Goto, TypeOK, TurnInv, AtNode, Node
    <3> QED
      BY <3>4, <3>5
  <2>2. CASE Node(t) \notin Listed(list)
    BY <1>7, <2>2, EndKeeps DEF Remove
  <2> QED
    BY <2>1, <2>2
<1>8. ASSUME NEW t \in Threads, Concatenate(t) PROVE Inv'
  <2>1. /\ pc[t] = "concatenate" /\ fresh' = [fresh EXCEPT ![t] = <<Node(t)>> \o list]
        /\ Goto(t, "assign")
        /\ UNCHANGED <<up, list, file, snapshot, cursor, sent, outcome>>
    BY <1>8 DEF Concatenate
  <2>2. /\ <<Node(t)>> \o list \in Seq(Hosts)
        /\ Listed(list) \subseteq Listed(<<Node(t)>> \o list)
    BY <2>1, NodeIsHost, PrependedKeepsAll DEF AtNode, TypeOK
  <2> DEFINE longer == <<Node(t)>> \o list
  <2>3. fresh' = [fresh EXCEPT ![t] = longer] /\ longer \in Seq(Hosts)
        /\ Listed(list) \subseteq Listed(longer)
    BY <2>1, <2>2
  <2> HIDE DEF longer
  <2>4. TypeOK' /\ MainManagerKept'
    BY <2>1, <2>3 DEF Goto, TypeOK, MainManagerKept
  <2>5. TurnInv'
    <3>1. ManagerIp \in Listed(Cluster) => ManagerIp \in Listed(longer)
      BY <2>3 DEF MainManagerKept
    <3>2. \A u \in Threads : u # t => fresh'[u] = fresh[u] /\ pc'[u] = pc[u]
      BY <2>1, <2>3 DEF Goto, TypeOK
    <3>3. fresh'[t] = longer /\ pc'[t] = "assign"
      BY <2>1, <2>3 DEF Goto, TypeOK
    <3> QED
      BY <2>1, <3>1, <3>2, <3>3 DEF TurnInv, AtNode, Node
  <2> QED
    BY <2>4, <2>5
<1>9. ASSUME NEW t \in Threads, Assign(t) PROVE Inv'
  <2>1. TypeOK' /\ MainManagerKept'
    BY <1>9 DEF Assign, Goto, TypeOK, MainManagerKept, TurnInv
  <2>2. TurnInv'
    BY <1>9 DEF Assign, Goto, TypeOK, TurnInv, AtNode, Node
  <2> QED
    BY <2>1, <2>2
<1>10. ASSUME NEW t \in Threads, OpenFile(t) PROVE Inv'
  <2>1. TypeOK' /\ MainManagerKept'
    BY <1>10 DEF OpenFile, Goto, TypeOK, MainManagerKept
  <2>2. TurnInv'
    BY <1>10 DEF OpenFile, Goto, TypeOK, TurnInv, AtNode, Node
  <2> QED
    BY <2>1, <2>2
<1>11. ASSUME NEW t \in Threads, WriteFile(t) PROVE Inv'
  <2>1. file' = Corrupt \/ file' \in Seq(Hosts)
    BY <1>11 DEF WriteFile, TypeOK
  <2>2. TypeOK' /\ MainManagerKept'
    BY <1>11, <2>1 DEF WriteFile, Goto, TypeOK, MainManagerKept
  <2>3. TurnInv'
    BY <1>11 DEF WriteFile, Goto, TypeOK, TurnInv, AtNode, Node
  <2> QED
    BY <2>2, <2>3
<1>12. CASE UNCHANGED vars
  <2>1. TurnInv'
    BY <1>12 DEF vars, TurnInv, Node
  <2> QED
    BY <1>12, <2>1 DEF vars, TypeOK, MainManagerKept
<1> QED
  BY <1>1, <1>2, <1>3, <1>4, <1>5, <1>6, <1>7, <1>8, <1>9, <1>10, <1>11, <1>12
     DEF Next, Failover

\* However many threads fail over at once, and wherever they are switched, the
\* list they share keeps its type and the node of the main manager, though
\* other nodes may be lost or doubled (ClusterThreadsLost.cfg).
THEOREM ListSurvivesThreads == Spec => []ThreadsInv
<1> QED
  BY InvInit, InvStep, PTL DEF Spec, Inv
=============================================================================
