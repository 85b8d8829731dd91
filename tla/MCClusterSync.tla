--------------------------- MODULE MCClusterSync ---------------------------
(* One worker: the workers share nothing but the controller's files, which    *)
(* change under a worker's feet here without the others.                      *)
EXTENDS ClusterSync, TLC

CONSTANTS n1, v1
=============================================================================
