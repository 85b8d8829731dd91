---------------------------- MODULE MCConfigStore ----------------------------
(* One device, registered or not, and one firewall rule.                      *)
EXTENDS ConfigStore, TLC

CONSTANTS d1, r1
=============================================================================
