-------------------------- MODULE MCFirewallCases ---------------------------
(* Configurations for Firewall: a LAN and an isolated bridge, two tunnels    *)
(* that change places, without zones and with them.                          *)
EXTENDS TLC

CONSTANTS wan0, lan0, guest0, vpn1, vpn2, g1, g2, d1

Via(g, i) == [id |-> g, interface |-> i]
Zone(id, isolated, allow) ==
  [id |-> id, interfaces |-> {id}, isolate |-> isolated, allow |-> allow]

\* One isolated bridge, no zones, the tunnels in order.
Flat == [local |-> (lan0 :> FALSE) @@ (guest0 :> TRUE), zones |-> <<>>,
         evasion |-> {"doh", "vpn"}, inputs |-> 1,
         gateways |-> <<Via("default", wan0), Via(g1, vpn1), Via(g2, vpn2)>>,
         override |-> d1 :> g2]

\* Zones: the guests' may reach the printers of lan0 and both tunnels; the first gateway
\* is gone.
Tunnels == [Zone("tunnels", TRUE, {}) EXCEPT !.interfaces = {vpn1, vpn2}]
Zoned == [Flat EXCEPT !.zones = <<Zone(lan0, FALSE, {}), Tunnels,
                                  Zone(guest0, TRUE, {"wan", lan0, "tunnels"})>>,
                      !.evasion = {"quic"},
                      !.gateways = <<Via("default", wan0), Via(g2, vpn2)>>]

\* No local network yet, the tunnels in the other order, and one of them listed twice.
Bare == [Flat EXCEPT !.local = <<>>, !.gateways = <<Via(g2, vpn2), Via(g1, vpn1), Via(g2, vpn1)>>]

Households == {Flat, Zoned, Bare}
=============================================================================
