------------------------------ MODULE Firewall ------------------------------
(***************************************************************************)
(* What FirewallManager compiles and who applies it: the nftables file,    *)
(* written and loaded when the configuration is (firewall_services.py),    *)
(* and the policy routes of the gateways, set by every scheduler check     *)
(* (allowance_tracker.setup_policy_routing).                               *)
(*                                                                         *)
(* A configuration keeps what forwarding and routing depend on.  Of the    *)
(* ruleset's text only the nesting is kept; of its rules, those of the     *)
(* forward chain and the marks.  A packet is told apart by the interfaces, *)
(* the sets its sender is in, and the kind of service it asks for.         *)
(***************************************************************************)
EXTENDS Naturals, FiniteSets, Sequences

CONSTANTS
  Iface, Wan,     \* interface names; the WAN's
  Gateway,        \* ids of gateways, "default" is one
  Mac,
  Config,         \* the configurations that may be loaded
  None

\* A configuration: local[i] tells whether bridge or VLAN i is isolated; zones
\* is a sequence of [id, interfaces, isolate, allow]; evasion has the kinds of
\* traffic to refuse; inputs counts the user's rules; gateways is a sequence of
\* [id, interface]; override[m] is a gateway or None.
FirewallAssumption ==
  /\ Wan \in Iface /\ "default" \in Gateway /\ None \notin Config \cup Iface
  /\ \A c \in Config :
       /\ DOMAIN c.local \subseteq Iface \ {Wan}
       /\ \A i \in DOMAIN c.local : c.local[i] \in BOOLEAN
       /\ c.evasion \subseteq {"doh", "quic", "vpn"} /\ c.inputs \in Nat
       /\ \A k \in DOMAIN c.zones : c.zones[k].interfaces \subseteq Iface
       /\ c.gateways \in Seq([id : Gateway, interface : Iface])
       /\ c.override \in [Mac -> Gateway \cup {None}]

VARIABLES
  disk,      \* the configuration in the files
  config,    \* the one the daemon's FirewallManager was made with
  text,      \* the one /etc/nftables.conf was compiled from, or None
  kernel,    \* the one the loaded ruleset was compiled from, or None
  route,     \* the default route of each mark's table: an interface or None
  rule,      \* marks with an ip rule
  settled    \* a check has set every route since the last reload

vars == <<disk, config, text, kernel, route, rule, settled>>

-----------------------------------------------------------------------------
(* Gateway marks. *)

\* Of the entries of one id, a map made of them keeps the last.
Latest(list, id) ==
  {k \in DOMAIN list : list[k].id = id /\ \A l \in DOMAIN list : list[l].id = id => l <= k}

Others(c) == {j \in DOMAIN c.gateways : c.gateways[j].id # "default"}

\* The marks count up from 100 over the other gateways.
Mark(c, j) == 99 + Cardinality({k \in Others(c) : k <= j})

Marks == UNION {{Mark(c, j) : j \in Others(c)} : c \in Config}

\* gateway_marks.get(g), if it has one.
MarkOf(c, g) == {Mark(c, j) : j \in Latest(c.gateways, g) \cap Others(c)}

\* The mark prerouting stamps on m's packets, if any.
Stamp(c, m) == MarkOf(c, c.override[m])

TypeOK ==
  /\ {disk, config} \subseteq Config
  /\ {text, kernel} \subseteq Config \cup {None}
  /\ route \in [Marks -> Iface \cup {None}]
  /\ rule \subseteq Marks
  /\ settled \in BOOLEAN

-----------------------------------------------------------------------------
(* The forward chain. *)

\* What may be opened towards interface e.
Opened(e) ==
  [from : Iface, to : {e},
   sets : SUBSET {"quarantined", "schedule_blocked", "admin_blocked", "blocked_clients"},
   service : {"doh", "quic", "vpn", "other"}]

Local(c) == DOMAIN c.local
Lan(c) == {i \in Local(c) : ~c.local[i]}
Guest(c) == {i \in Local(c) : c.local[i]}
ZoneIds(c) == {c.zones[k].id : k \in DOMAIN c.zones}

\* Pairs of interfaces that one zone's rules let new connections cross.
ZoneAccepts(c, z) ==
  IF z.id = "wan" THEN {}
  ELSE IF z.allow # {}
    THEN {p \in z.interfaces \X Iface :
            \/ "wan" \in z.allow /\ p[2] = Wan
            \/ \E id \in z.allow \ {"wan"} : \E k \in Latest(c.zones, id) :
                 p[2] \in c.zones[k].interfaces}
    ELSE {p \in z.interfaces \X Iface :
            p[2] = Wan \/ (~z.isolate /\ p[2] \in Local(c) /\ p[2] # p[1])}

Accepts(c) ==
  IF c.zones # <<>> THEN UNION {ZoneAccepts(c, c.zones[k]) : k \in DOMAIN c.zones}
  ELSE (Local(c) \X {Wan}) \cup (Lan(c) \X Guest(c))

\* The chain for a packet of a new connection: what each stage does to it.
Dropped(c, p) ==
  \/ p.sets \cap {"quarantined", "blocked_clients"} # {}
  \/ p.sets \cap {"schedule_blocked", "admin_blocked"} # {} /\ p.to = Wan
  \/ p.service \in c.evasion

\* Drops first, then the zones' accepts, then the chain's policy, which drops.
Passes(c, p) == ~Dropped(c, p) /\ <<p.from, p.to>> \in Accepts(c)

-----------------------------------------------------------------------------
(* The text. *)

Lines(n) == [i \in 1 .. n |-> "line"]
Block(n) == <<"open">> \o Lines(n) \o <<"close">>

\* The filter and nat tables; six sets, then the chains.  The input chain is
\* closed before the lines that belong to it.
Text(c) ==
  <<"open">>
  \o Block(1) \o Block(1) \o Block(1) \o Block(1) \o Block(3) \o Block(2)
  \o Block(5)
  \o Lines(2 * Cardinality(Local(c)) + c.inputs) \o Lines(1) \o <<"close">>
  \o Block(7 + Cardinality(c.evasion) + Cardinality(Accepts(c)))
  \o Block(2)
  \o <<"close">>
  \o <<"open">>
  \o Block(1 + Cardinality({m \in Mac : Stamp(c, m) # {}}))
  \o Block(2 + Cardinality(Others(c)))
  \o <<"close">>

\* Depth[n]: blocks open after the first n items.
Depth(t) == LET d[n \in 0 .. Len(t)] ==
                  IF n = 0 THEN 0
                  ELSE CASE t[n] = "open" -> d[n - 1] + 1
                         [] t[n] = "close" -> d[n - 1] - 1
                         [] OTHER -> d[n - 1]
            IN  d

\* nft's grammar: tables at the top, sets and chains in them, lines in those.
Loads(t) ==
  LET d == Depth(t)
  IN  /\ d[Len(t)] = 0
      /\ \A n \in DOMAIN t :
           IF t[n] = "line" THEN d[n - 1] = 2
           ELSE d[n] \in 0 .. 2

-----------------------------------------------------------------------------

\* A save or a commit.
Edit ==
  /\ disk' \in Config \ {disk}
  /\ UNCHANGED <<config, text, kernel, route, rule, settled>>

\* FirewallServicesSubsystem.update: the write may fail, and nft runs only after
\* one that did not; a refused file leaves the loaded ruleset.
Apply(c) ==
  \E written \in BOOLEAN :
    /\ text' = IF written THEN c ELSE text
    /\ kernel' = IF written /\ Loads(Text(c)) THEN c ELSE kernel

\* reload_config makes a new FirewallManager and updates the subsystems.
Reload ==
  /\ config' = disk
  /\ Apply(disk)
  /\ settled' = FALSE
  /\ UNCHANGED <<disk, route, rule>>

\* Mutant: routes are added, and one that is there stays.
TablesFilled(routed) ==
  [n \in Marks |->
     LET set == {j \in routed : n \in MarkOf(config, config.gateways[j].id)}
     IN  IF set = {} \/ route[n] # None THEN route[n]
         ELSE config.gateways[CHOOSE j \in set : \A k \in set : k <= j].interface]

\* "ip route replace default" for these gateways, in their order.
Tables(routed) ==
  [n \in Marks |->
     LET set == {j \in routed : n \in MarkOf(config, config.gateways[j].id)}
     IN  IF set = {} THEN route[n]
         ELSE config.gateways[CHOOSE j \in set : \A k \in set : k <= j].interface]

\* setup_policy_routing: a route and a rule per gateway; any command may fail.
Check ==
  \E routed, ruled \in SUBSET Others(config) :
    /\ route' = Tables(routed)
    /\ rule' = rule \cup UNION {MarkOf(config, config.gateways[j].id) : j \in ruled}
    /\ settled' = (routed = Others(config) /\ ruled = Others(config))
    /\ UNCHANGED <<disk, config, text, kernel>>

\* The host restarts: the kernel's tables are empty, the daemon reads its files.
Reboot ==
  /\ config' = disk
  /\ \E written \in BOOLEAN : text' = IF written THEN disk ELSE text
  /\ kernel' = IF text' # None /\ Loads(Text(text')) THEN text' ELSE None
  /\ route' = [m \in Marks |-> None] /\ rule' = {}
  /\ settled' = FALSE
  /\ UNCHANGED disk

Init ==
  /\ disk \in Config /\ config = disk
  /\ text = None /\ kernel = None
  /\ route = [m \in Marks |-> None] /\ rule = {} /\ settled = FALSE

Next == Edit \/ Reload \/ Check \/ Reboot

Spec == Init /\ [][Next]_vars

-----------------------------------------------------------------------------

\* The zones, but the WAN's own, that have interface i.
ZonesOf(c, i) == {c.zones[k] : k \in {k \in DOMAIN c.zones : c.zones[k].id # "wan"
                                                          /\ i \in c.zones[k].interfaces}}

\* Nothing but isolated zones that allow no other has interface i; or, without zones, it
\* is an isolated bridge or VLAN.
Isolated(c, i) ==
  IF c.zones = <<>> THEN i \in Guest(c)
                    ELSE \A z \in ZonesOf(c, i) : z.isolate /\ z.allow = {}

\* The compiled chain lets an isolated network open connections to the WAN only, and the
\* WAN open none, whatever zones there are, unless a zone of another name has the WAN's
\* interface (compile_ruleset, forward).
NetworksApart ==
  text # None =>
    \A a \in Accepts(text) :
      /\ a[1] = Wan => ZonesOf(text, Wan) # {}
      /\ Isolated(text, a[1]) => a[2] = Wan

\* The gateway of its own that device m has, if the configuration has it.
OwnGateways(c, m) == Latest(c.gateways, c.override[m]) \cap Others(c)

\* Where the first packet of what m opens to the outside is sent: by the table of its
\* mark, or by the host's own, to the WAN.
Looked(c, m) == {n \in Stamp(c, m) \cap rule : route[n] # None}
Exits(c, m) == IF Looked(c, m) = {} THEN {Wan} ELSE {route[n] : n \in Looked(c, m)}

\* Some zone has interface i, or it is a network of the house.
Known(c, i) == i \in Local(c) \/ \E k \in DOMAIN c.zones : i \in c.zones[k].interfaces

\* Once a check has run after a reload without a failed command, and until the next, what
\* a device with a gateway of its own opens is sent to that gateway, the last of its id,
\* and never to the WAN, however the gateways, and with them their marks, were reordered
\* since (gateway_marks, setup_policy_routing).  Sent is not let through: that takes a zone
\* with the gateway's interface, and where the chain does let it through, a schedule or the
\* administrator's block, which look at the WAN's interface only, do not stop it; nothing
\* else is opened by a client that is in one of the sets.
SentByGateway ==
  settled /\ text = config =>
    \A m \in Mac :
      /\ \A j \in OwnGateways(config, m) : Exits(config, m) = {config.gateways[j].interface}
      /\ \A e \in Exits(config, m) : \A p \in Opened(e) : Passes(config, p) =>
           /\ e # Wan => Known(config, e)
           /\ p.sets # {} => OwnGateways(config, m) # {}

\* Networks are kept apart, and what devices open is sent where their gateway is.
PolicyHolds == NetworksApart /\ SentByGateway

\* Every file that is written can be loaded (compile_ruleset, update).
RulesetLoads == text # None => Loads(Text(text))
=============================================================================
