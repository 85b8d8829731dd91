----------------------------- MODULE EdgeGateway -----------------------------
(***************************************************************************)
(* The tunnel between a home and its VPS (edge_manager.py,                 *)
(* ingress_helper.py, edge_peers.py, edge.py and the edge commands): the   *)
(* gateway records in the network configuration with their peers and       *)
(* ingress routes, and the WireGuard file of the hub.                      *)
(*                                                                         *)
(* The web application edits the staged overlay, the command line rewrites *)
(* the active file.  EdgeTokens has the tokens that admit a home server.   *)
(* Keys, endpoints and the certificates of routes are not kept.  A peer's  *)
(* address is its octet in the tunnel's /24.                               *)
(***************************************************************************)
EXTENDS Naturals, FiniteSets, SequencesExt

CONSTANTS
  Gateway,       \* ids of gateway records
  Edge01,        \* the id every connection writes
  Peer, Route,
  Home,          \* the home server, as a peer of the hub
  None,          \* there is no staged file
  FirstSite, FirstMobile, LastOctet,  \* 3, 10 and 249 in the code
  HomeOctet,     \* 2: the address the home server is given
  EdgeNode       \* the nodes file has a node with the edge gateway role

EdgeAssumption ==
  /\ Edge01 \in Gateway /\ Home \notin Peer /\ EdgeNode \in BOOLEAN
  /\ HomeOctet \in Nat /\ FirstSite \in Nat /\ FirstMobile \in Nat /\ LastOctet \in Nat
  /\ HomeOctet < FirstSite /\ FirstSite <= FirstMobile /\ FirstMobile <= LastOctet

VARIABLES
  active,   \* the gateways in network.yaml, in order
  staged,   \* those of the staged file, or None
  hub,      \* the peers that 50-wg-edge.netdev has
  keyed,    \* edge_server.key is there
  created   \* peers and routes that have been made

vars == <<active, staged, hub, keyed, created>>

PeerEntry == [peer : Peer \cup {Home}, octet : HomeOctet .. LastOctet]
Record == [id : Gateway, peers : SUBSET PeerEntry, routes : SUBSET Route]

IsList(gateways) ==
  /\ gateways \in Seq(Record)
  /\ \A i, j \in DOMAIN gateways : gateways[i].id = gateways[j].id => i = j

TypeOK ==
  /\ IsList(active)
  /\ staged = None \/ IsList(staged)
  /\ hub \subseteq PeerEntry
  /\ keyed \in BOOLEAN
  /\ created \subseteq Peer \cup Route

-----------------------------------------------------------------------------
(* The gateway records. *)

Blank(g) == [id |-> g, peers |-> {}, routes |-> {}]

View == IF staged = None THEN active ELSE staged

\* The records of the list with other ids: all but the one with that id.
Others(gateways, g) ==
  LET places == {i \in DOMAIN gateways : gateways[i].id = g}
  IN  IF places = {} THEN gateways ELSE RemoveAt(gateways, CHOOSE i \in places : TRUE)

\* _save_gateway: the record leaves its place and comes last.
Saved(gateways, record) == Append(Others(gateways, record.id), record)

\* _get_active_gateways: a node with the role stands in for a missing record.
ActiveGateways == IF View = <<>> /\ EdgeNode THEN <<Blank(Edge01)>> ELSE View

Fresh(x) == x \notin created /\ created' = created \cup {x}

Stage(gateways) ==
  /\ staged' = gateways
  /\ UNCHANGED active

\* connect_to_edge_gateway, after the invite was applied or the VPS answered: a new
\* record, with neither peers nor routes.
Connect ==
  /\ Stage(Saved(View, Blank(Edge01)))
  /\ hub' = {}
  /\ UNCHANGED <<keyed, created>>

UpdateEndpoint ==
  /\ ActiveGateways # <<>>
  /\ Stage(Saved(View, Head(ActiveGateways)))
  /\ UNCHANGED <<hub, keyed, created>>

\* create_ingress_route, and provision_ingress_route for a plugin.
CreateRoute(r) ==
  /\ ActiveGateways # <<>>
  /\ Fresh(r)
  /\ LET gateway == Head(ActiveGateways)
     IN  Stage(Saved(View, [gateway EXCEPT !.routes = @ \cup {r}]))
  /\ UNCHANGED <<hub, keyed>>

\* provision_ingress_route changes the record in its place.
ProvisionRoute(r) ==
  /\ View # <<>>
  /\ Fresh(r)
  /\ Stage([View EXCEPT ![1].routes = @ \cup {r}])
  /\ UNCHANGED <<hub, keyed>>

\* Every gateway is saved, one after the other: the order is the old one again.
DeleteRoute(r) ==
  /\ ActiveGateways # <<>>
  /\ Stage([i \in DOMAIN ActiveGateways |-> [ActiveGateways[i] EXCEPT !.routes = @ \ {r}]])
  /\ UNCHANGED <<hub, keyed, created>>

\* Mutant: the first octet after the number of peers.
FreeByCount(gateway, first) == {first + Cardinality(gateway.peers)} \cap (first .. LastOctet)

\* The first free octet from where this kind of peer starts; none may be left.
Free(gateway, first) ==
  LET free == (first .. LastOctet) \ {entry.octet : entry \in gateway.peers}
  IN  {octet \in free : \A other \in free : octet <= other}

\* create_edge_peer: the hub, if its key is on this host, gets the peers of the
\* record and no other, before the record is saved.
CreatePeer(p, first) ==
  /\ View # <<>>
  /\ Fresh(p)
  /\ \E octet \in Free(Head(View), first) :
       LET gateway == [Head(View) EXCEPT !.peers = @ \cup {[peer |-> p, octet |-> octet]}]
       IN  /\ hub' = IF keyed THEN gateway.peers ELSE hub
           /\ Stage(Saved(View, gateway))
  /\ UNCHANGED keyed

\* delete_edge_peer leaves the hub alone.
DeletePeer(p) ==
  /\ View # <<>>
  /\ \E entry \in Head(View).peers :
       /\ entry.peer = p
       /\ Stage(Saved(View, [Head(View) EXCEPT !.peers = @ \ {entry}]))
  /\ UNCHANGED <<hub, keyed, created>>

Commit ==
  /\ staged # None
  /\ active' = staged
  /\ staged' = None
  /\ UNCHANGED <<hub, keyed, created>>

Discard ==
  /\ staged # None
  /\ staged' = None
  /\ UNCHANGED <<active, hub, keyed, created>>

\* The commands token and connect write the active file: persist_gateway_config keeps
\* the routes of the record and drops its peers.  A new invitation is the hub's only
\* peer.
Persisted(gateways) ==
  LET routes == UNION {gateways[i].routes : i \in {j \in DOMAIN gateways : gateways[j].id = Edge01}}
  IN  Append(Others(gateways, Edge01), [Blank(Edge01) EXCEPT !.routes = routes])

Invite ==
  /\ keyed' = TRUE
  /\ hub' = {[peer |-> Home, octet |-> HomeOctet]}
  /\ active' = Persisted(active)
  /\ UNCHANGED <<staged, created>>

\* enroll_home_server: whoever has a token is the hub's only peer.
Enroll ==
  /\ keyed' = TRUE
  /\ hub' = {[peer |-> Home, octet |-> HomeOctet]}
  /\ UNCHANGED <<active, staged, created>>

ConnectCommand ==
  /\ hub' = {}
  /\ active' = Persisted(active)
  /\ UNCHANGED <<staged, keyed, created>>

-----------------------------------------------------------------------------
Init ==
  /\ active \in {<<>>} \cup {<<Blank(Edge01), Blank(g)>> : g \in Gateway \ {Edge01}}
  /\ staged = None
  /\ hub = {} /\ keyed \in BOOLEAN
  /\ created = {}

Next ==
  \/ Connect \/ UpdateEndpoint \/ Commit \/ Discard
  \/ Invite \/ Enroll \/ ConnectCommand
  \/ \E r \in Route : CreateRoute(r) \/ ProvisionRoute(r) \/ DeleteRoute(r)
  \/ \E p \in Peer :
       CreatePeer(p, FirstSite) \/ CreatePeer(p, FirstMobile) \/ DeletePeer(p)

Spec == Init /\ [][Next]_vars

-----------------------------------------------------------------------------
(* Properties. *)

Distinct(entries) == \A a, b \in entries : a.octet = b.octet => a = b

\* The free octet is looked up in a list that staged edits, commits, reconnections and
\* the command line change: no gateway, in any copy, and no hub has two peers with
\* one address, and none has the address of the home server.
AddressesDistinct ==
  /\ Distinct(hub)
  /\ \A gateways \in {active, View} : \A i \in DOMAIN gateways :
       /\ Distinct(gateways[i].peers)
       /\ \A entry \in gateways[i].peers : entry.octet # HomeOctet
=============================================================================
