---------------------------- MODULE MCProfileStore ----------------------------
(* Instances of ProfileStore for TLC: two or three profile names.            *)
EXTENDS ProfileStore

CONSTANTS p1, p2, n1, n2, n3, m1, m2, m3

AllCommands == {"use", "create", "delete", "rename", "set", "list"}
=============================================================================
