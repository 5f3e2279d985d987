--------------------------- MODULE MCClusterClient ---------------------------
(* Instances of ClusterClient for TLC: clusters of two or three nodes whose  *)
(* main manager address is one of them, or is an address of its own.         *)
EXTENDS ClusterClient

CONSTANTS h1, h2, h3, h4, c1, c2

\* Every order of the hosts in S, as a list of addresses.
Orders(S) == {s \in [1 .. Cardinality(S) -> S] :
                \A i, j \in DOMAIN s : s[i] = s[j] => i = j}

\* h1 is the main manager of the first two, and a load balancer in the last.
MCHosts == {h1, h2, h3, h4}
Memberships == {{h1, h2}, {h1, h2, h3}, {h2, h3, h4}}

\* One CA for the whole cluster, known to the profile or to every node.
OneCA == [h \in MCHosts |-> c1]
ListsWithOneCA ==
  UNION {{[i \in DOMAIN s |-> [host |-> s[i], cert |-> NoCert]] : s \in Orders(S)} :
           S \in Memberships}

\* A CA per node, each stored with its node (cfy profiles set-cluster).
TwoCAs == [h \in MCHosts |-> IF h = h2 THEN c2 ELSE c1]
ListWithTheirCAs == {<<[host |-> h1, cert |-> c1], [host |-> h2, cert |-> c2]>>}
=============================================================================
