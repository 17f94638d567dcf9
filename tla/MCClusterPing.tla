----------------------------- MODULE MCClusterPing -----------------------------
(* Small instances of ClusterPing for TLC. *)
EXTENDS ClusterPing

MCFirstByte == [d \in TaskData |-> 0]
===============================================================================
