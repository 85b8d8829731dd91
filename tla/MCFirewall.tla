----------------------------- MODULE MCFirewall -----------------------------
(* Firewall over the configurations of MCFirewallCases.                      *)
EXTENDS Firewall, MCFirewallCases
=============================================================================
