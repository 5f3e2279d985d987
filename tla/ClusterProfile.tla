---------------------------- MODULE ClusterProfile -----------------------------
(***************************************************************************)
(* The nodes of a cluster in the profile (commands/cluster.py): `cfy       *)
(* cluster update-profile' merges what the manager lists, one type of      *)
(* nodes after the other, into what is stored, which has details of its    *)
(* own, set with `cfy profiles set-cluster'.  Nodes are added to and       *)
(* removed from the cluster by these commands and by others; each request  *)
(* may move the manager that answers to the front (module ClusterClient),  *)
(* and a command may be killed between two saves.                          *)
(*                                                                         *)
(* A stored node is a record [name, cert]; a name is a pair <<type, n>>.   *)
(***************************************************************************)
EXTENDS Naturals, Sequences, SequencesExt, Lists

CONSTANTS NodeNames, Certs, NoCert

NodeTypes == <<"manager", "broker", "db">>   \* the order of the updates
Types == ToSet(NodeTypes)

ASSUME ClusterAssumption ==
  /\ NoCert \notin Certs
  /\ \A n \in NodeNames : n[1] \in Types

VARIABLES
  cluster,      \* names of the nodes of each type, in the manager's order
  stored,       \* the profile on disk
  loaded,       \* the profile in the memory of the command
  received,     \* what the requests of update-profile have returned
  clusterPc,    \* idle, or the request or update that is next
  certOf        \* (history) what set-cluster set for a node that is stored

clusterVars == <<cluster, stored, loaded, received, clusterPc, certOf>>

NoLists == [t \in Types |-> <<>>]
Names(nodes) == {nodes[i].name : i \in DOMAIN nodes}
\* Names say what type a node has.
NodesOfType(t) == {n \in NodeNames : n[1] = t}

ClusterInit ==
  /\ cluster = NoLists /\ stored = NoLists /\ loaded = NoLists /\ received = NoLists
  /\ clusterPc = <<"idle">>
  /\ certOf = [n \in NodeNames |-> NoCert]
-----------------------------------------------------------------------------
\* remove_node, add_broker, remove_broker: the list is read and checked first;
\* what others did meanwhile is for the manager to refuse.
AddNode(n) ==
  /\ n \notin ToSet(cluster[n[1]])
  /\ cluster' = [cluster EXCEPT ![n[1]] = Append(@, n)]
  /\ UNCHANGED <<stored, loaded, received, clusterPc, certOf>>
RemoveNode(n) ==
  /\ n \in ToSet(cluster[n[1]])
  /\ cluster' = [cluster EXCEPT ![n[1]] = Filtered(@, NodeNames \ {n})]
  /\ UNCHANGED <<stored, loaded, received, clusterPc, certOf>>

\* profiles.set_cluster
SetCluster(n, c) ==
  /\ clusterPc[1] = "idle" /\ n[1] = "manager" /\ n \in Names(stored["manager"])
  /\ stored' = [stored EXCEPT !["manager"] =
       [i \in DOMAIN @ |-> IF @[i].name = n THEN [@[i] EXCEPT !.cert = c] ELSE @[i]]]
  /\ certOf' = [certOf EXCEPT ![n] = c]
  /\ UNCHANGED <<cluster, loaded, received, clusterPc>>

UpdateProfile ==
  /\ clusterPc[1] = "idle"
  /\ loaded' = stored /\ received' = NoLists
  /\ clusterPc' = <<"get", 1>>
  /\ UNCHANGED <<cluster, stored, certOf>>

MoveToFront(nodes, i) == <<nodes[i]>> \o RemoveAt(nodes, i)

\* get_managers, get_brokers, get_db_nodes.  The manager that answers may be
\* another than the first, which is then moved, and the profile saved.
GetNodes ==
  /\ clusterPc[1] = "get"
  /\ received' = [received EXCEPT ![NodeTypes[clusterPc[2]]] = cluster[NodeTypes[clusterPc[2]]]]
  /\ clusterPc' = IF clusterPc[2] = 3 THEN <<"merge", 1>> ELSE <<"get", clusterPc[2] + 1>>
  /\ \/ UNCHANGED <<stored, loaded>>
     \/ \E i \in DOMAIN loaded["manager"] :
          /\ loaded' = [loaded EXCEPT !["manager"] = MoveToFront(@, i)]
          /\ stored' = loaded'
  /\ UNCHANGED <<cluster, certOf>>

\* (mutant) "just set the profile list to the received nodes".
MergedSet(nodes, names) == [i \in DOMAIN names |-> [name |-> names[i], cert |-> NoCert]]

\* _update_cluster_nodes: what is not stored is added at the end, then what
\* was not received is removed.
Merged(nodes, names) ==
  LET new == Filtered(names, NodeNames \ Names(nodes))
      all == nodes \o [i \in DOMAIN new |-> [name |-> new[i], cert |-> NoCert]]
  IN  Filtered(all, [name : ToSet(names), cert : Certs \cup {NoCert}])

\* One type of nodes, and a save.
UpdateClusterNodes ==
  /\ clusterPc[1] = "merge"
  /\ LET t == NodeTypes[clusterPc[2]]
     IN  /\ loaded' = [loaded EXCEPT ![t] = Merged(@, received[t])]
         /\ certOf' = [n \in NodeNames |->
              IF n[1] = t /\ n \notin ToSet(received[t]) THEN NoCert ELSE certOf[n]]
  /\ stored' = loaded'
  /\ clusterPc' = IF clusterPc[2] = 3 THEN <<"idle", "updated">> ELSE <<"merge", clusterPc[2] + 1>>
  /\ UNCHANGED <<cluster, received>>

\* Killed, or a request fails.
UpdateEnds ==
  /\ clusterPc[1] # "idle" /\ clusterPc' = <<"idle">>
  /\ received' = NoLists /\ loaded' = NoLists
  /\ UNCHANGED <<cluster, stored, certOf>>

ClusterNext ==
  \/ UpdateProfile \/ GetNodes \/ UpdateClusterNodes \/ UpdateEnds
  \/ \E n \in NodeNames :
       AddNode(n) \/ RemoveNode(n) \/ \E c \in Certs : SetCluster(n, c)
-----------------------------------------------------------------------------
\* Types; a node is stored once, and among those of its type.
ClusterTypeOK ==
  /\ \A t \in Types :
       /\ ToSet(cluster[t]) \subseteq NodesOfType(t) /\ IsInjective(cluster[t])
       /\ Names(stored[t]) \subseteq NodesOfType(t)
       /\ \A i, j \in DOMAIN stored[t] : stored[t][i].name = stored[t][j].name => i = j
       /\ \A i \in DOMAIN stored[t] : stored[t][i].cert \in Certs \cup {NoCert}
  /\ clusterPc \in {<<"idle">>, <<"idle", "updated">>} \cup ({"get", "merge"} \X (1 .. 3))

\* "the profile might have more details about the nodes (eg. a certificate
\* path)": what the user has set for a node stays with it through updates,
\* failovers and interrupted updates, as long as the manager lists it.
DetailsKept == \A i \in DOMAIN stored["manager"] :
  stored["manager"][i].cert = certOf[stored["manager"][i].name]

\* "Profile is up to date": a finished update stored the nodes it was told of,
\* whatever failovers did to the profile in between.
UpToDate ==
  clusterPc = <<"idle", "updated">> => \A t \in Types : Names(stored[t]) = ToSet(received[t])

\* Merging is neither forgetful nor greedy.
ClusterInv == ClusterTypeOK /\ DetailsKept /\ UpToDate
=============================================================================
