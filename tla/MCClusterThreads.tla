--------------------------- MODULE MCClusterThreads ---------------------------
(* Two tracker threads on a cluster of three nodes.                          *)
EXTENDS ClusterThreads

CONSTANTS t1, t2, h1, h2, h3

MCCluster == <<h1, h2, h3>>
=============================================================================
