------------------------------ MODULE MCCluster ------------------------------
(* Instances of Cluster for TLC; the constants are set in the configurations. *)
EXTENDS Cluster
=============================================================================
