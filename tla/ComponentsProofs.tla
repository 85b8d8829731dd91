-------------------------- MODULE ComponentsProofs --------------------------
(***************************************************************************)
(* What holds of the network, for any gateways, peers, nodes, zones and    *)
(* marks: EdgeGateway, ClusterRegistry and Firewall; and, with the modules *)
(* about the other components, of the types of all. The results at the end *)
(* are of the behaviours of Components, and rest on nothing but            *)
(* ComponentsAssumption.                                                   *)
(***************************************************************************)
EXTENDS Components, HouseholdProofs, ServicesProofs, AccessProofs, ClusterSyncProofs,
        Sequences, SequenceTheorems, FiniteSetTheorems, WellFoundedInduction, TLAPS

-----------------------------------------------------------------------------
(* Edge gateways. *)

\* The peers of a record: one address each, and none the home server's.
Sound(record) ==
  /\ record \in Gateways!Record
  /\ Gateways!Distinct(record.peers)
  /\ \A entry \in record.peers : entry.octet # HomeOctet

Sounds == {record \in Gateways!Record : Sound(record)}

\* A list of gateways as every copy of it is: one record for an id, each of them sound.
SoundList(gateways) ==
  /\ gateways \in Seq(Sounds)
  /\ \A i, j \in DOMAIN gateways : gateways[i].id = gateways[j].id => i = j

GatewaysInv ==
  /\ SoundList(active)
  /\ staged = None \/ SoundList(staged)
  /\ hub \subseteq Gateways!PeerEntry /\ Gateways!Distinct(hub)
  /\ keyed \in BOOLEAN
  /\ created \subseteq Peer \cup Route

\* What is left of a list without the record of an id is a list that has it not.
LEMMA OthersList ==
  ASSUME NEW s, SoundList(s), NEW g
  PROVE  SoundList(Gateways!Others(s, g)) /\ \A i \in DOMAIN Gateways!Others(s, g) : Gateways!Others(s, g)[i].id # g
<1> DEFINE places == {i \in DOMAIN s : s[i].id = g}
<1>1. CASE places = {}
  BY <1>1 DEF Gateways!Others
<1>2. CASE places # {}
  <2> DEFINE k == CHOOSE i \in places : TRUE
             front == SubSeq(s, 1, k - 1)
             back == SubSeq(s, k + 1, Len(s))
             rest == front \o back
  <2>1. k \in DOMAIN s /\ s[k].id = g
    BY <1>2
  <2>2. Gateways!Others(s, g) = rest
    BY <1>2 DEF Gateways!Others, Gateways!RemoveAt
  <2> HIDE DEF k
  <2>3. s \in Seq(Sounds) /\ DOMAIN s = 1 .. Len(s) /\ Len(s) \in Nat
    BY DEF SoundList
  <2>4. k \in 1 .. Len(s)
    BY <2>1, <2>3
  <2>5. /\ front \in Seq(Sounds) /\ Len(front) = k - 1
        /\ \A i \in 1 .. k - 1 : front[i] = s[i]
    BY <2>3, <2>4, SubSeqProperties
  <2>6. /\ back \in Seq(Sounds) /\ Len(back) = Len(s) - k
        /\ \A i \in 1 .. Len(s) - k : back[i] = s[k + i]
    <3>1. k + 1 \in Int /\ Len(s) \in Int /\ \A i \in k + 1 .. Len(s) : s[i] \in Sounds
      BY <2>3, <2>4
    <3>2. /\ back \in Seq(Sounds)
          /\ Len(back) = IF k + 1 <= Len(s) THEN Len(s) - (k + 1) + 1 ELSE 0
          /\ \A i \in 1 .. Len(s) - (k + 1) + 1 : back[i] = s[(k + 1) + i - 1]
      BY <3>1, SubSeqProperties
    <3> HIDE DEF back
    <3>3. Len(back) = Len(s) - k
      <4>1. k \in Int /\ Len(s) \in Int /\ k <= Len(s)
        BY <2>3, <2>4
      <4>2. k + 1 <= Len(s) => Len(s) - (k + 1) + 1 = Len(s) - k
        BY <4>1
      <4>3. ~(k + 1 <= Len(s)) => Len(s) - k = 0
        BY <4>1
      <4>4. QED
        BY <3>2, <4>2, <4>3
    <3>4. ASSUME NEW i \in 1 .. Len(s) - k PROVE back[i] = s[k + i]
      <4>1. i \in 1 .. Len(s) - (k + 1) + 1 /\ (k + 1) + i - 1 = k + i
        BY <2>3, <2>4
      <4>2. QED
        BY <3>2, <4>1
    <3>5. QED
      BY <3>2, <3>3, <3>4
  <2> HIDE DEF front, back
  <2>7. /\ rest \in Seq(Sounds) /\ Len(rest) = (k - 1) + (Len(s) - k)
        /\ \A i \in 1 .. (k - 1) + (Len(s) - k) :
             rest[i] = IF i <= k - 1 THEN front[i] ELSE back[i - (k - 1)]
    BY <2>5, <2>6, ConcatProperties
  <2> HIDE DEF rest
  <2>8. DOMAIN rest = 1 .. Len(s) - 1
    <3>1. DOMAIN rest = 1 .. Len(rest) /\ (k - 1) + (Len(s) - k) = Len(s) - 1
      BY <2>3, <2>4, <2>7
    <3>2. QED
      BY <2>7, <3>1
  <2>9. ASSUME NEW i \in 1 .. Len(s) - 1 PROVE rest[i] = IF i < k THEN s[i] ELSE s[i + 1]
    <3>1. i \in 1 .. (k - 1) + (Len(s) - k)
      BY <2>3, <2>4
    <3>2. CASE i < k
      <4>1. i \in 1 .. k - 1
        BY <2>4, <3>2
      <4>2. QED
        BY <2>5, <2>7, <3>1, <3>2, <4>1
    <3>3. CASE ~(i < k)
      <4>1. i - (k - 1) \in 1 .. Len(s) - k /\ k + (i - (k - 1)) = i + 1 /\ ~(i <= k - 1)
        BY <2>3, <2>4, <3>3
      <4>2. QED
        BY <2>6, <2>7, <3>1, <3>3, <4>1
    <3>4. QED
      BY <3>2, <3>3
  <2>10. ASSUME NEW i \in DOMAIN rest PROVE rest[i].id # g
    <3> DEFINE j == IF i < k THEN i ELSE i + 1
    <3>1. j \in DOMAIN s /\ j # k /\ rest[i] = s[j]
      BY <2>3, <2>4, <2>8, <2>9
    <3>2. QED
      BY <2>1, <3>1 DEF SoundList
  <2>11. ASSUME NEW i \in DOMAIN rest, NEW j \in DOMAIN rest, rest[i].id = rest[j].id PROVE i = j
    <3> DEFINE old(n) == IF n < k THEN n ELSE n + 1
    <3>1. /\ old(i) \in DOMAIN s /\ rest[i] = s[old(i)]
          /\ old(j) \in DOMAIN s /\ rest[j] = s[old(j)]
      BY <2>3, <2>4, <2>8, <2>9
    <3>2. old(i) = old(j)
      BY <2>11, <3>1 DEF SoundList
    <3>3. i \in Int /\ j \in Int /\ k \in Int
      BY <2>3, <2>4, <2>8
    <3>4. QED
      BY <3>2, <3>3
  <2>12. QED
    BY <2>2, <2>7, <2>10, <2>11 DEF SoundList
<1>3. QED
  BY <1>1, <1>2

\* A sound record put last in a list that has not its id.
LEMMA AppendSound ==
  ASSUME NEW s, SoundList(s), NEW record \in Sounds, \A i \in DOMAIN s : s[i].id # record.id
  PROVE  SoundList(Append(s, record))
<1> DEFINE new == Append(s, record)
<1>1. s \in Seq(Sounds) /\ DOMAIN s = 1 .. Len(s) /\ Len(s) \in Nat
  BY DEF SoundList
<1>2. /\ new \in Seq(Sounds) /\ Len(new) = Len(s) + 1
      /\ \A i \in 1 .. Len(s) : new[i] = s[i]
      /\ new[Len(s) + 1] = record
  BY <1>1, AppendProperties
<1> HIDE DEF new
<1>3. DOMAIN new = 1 .. Len(s) + 1
  BY <1>2
<1>4. ASSUME NEW i \in DOMAIN new, NEW j \in DOMAIN new, new[i].id = new[j].id PROVE i = j
  <2>1. CASE i \in 1 .. Len(s) /\ j \in 1 .. Len(s)
    BY <1>1, <1>2, <1>4, <2>1 DEF SoundList
  <2>2. CASE i = Len(s) + 1 /\ j \in 1 .. Len(s)
    BY <1>1, <1>2, <1>4, <2>2
  <2>3. CASE i \in 1 .. Len(s) /\ j = Len(s) + 1
    BY <1>1, <1>2, <1>4, <2>3
  <2>4. QED
    BY <1>1, <1>3, <2>1, <2>2, <2>3
<1>5. QED
  BY <1>2, <1>4 DEF SoundList

LEMMA SavedSound ==
  ASSUME NEW s, SoundList(s), NEW record \in Sounds
  PROVE  SoundList(Gateways!Saved(s, record))
  BY OthersList, AppendSound DEF Gateways!Saved

\* An element of a list changed in its place, its id kept.
LEMMA InPlaceSound ==
  ASSUME NEW s, SoundList(s), NEW new, DOMAIN new = DOMAIN s, new \in Seq(Sounds),
         \A i \in DOMAIN s : new[i].id = s[i].id
  PROVE  SoundList(new)
  BY DEF SoundList

LEMMA BlankSound == ASSUME NEW g \in Edge PROVE Gateways!Blank(g) \in Sounds
  BY DEF Gateways!Blank, Sounds, Sound, Gateways!Record, Gateways!Distinct

\* Routes have no part in whether a record is sound.
LEMMA RoutesSound ==
  ASSUME NEW record \in Sounds, NEW served \in SUBSET Route
  PROVE  /\ [record EXCEPT !.routes = served] \in Sounds
         /\ [record EXCEPT !.routes = served].id = record.id
  BY DEF Sounds, Sound, Gateways!Record, Gateways!Distinct

LEMMA ListElements ==
  ASSUME NEW s, SoundList(s)
  PROVE  /\ \A i \in DOMAIN s : s[i] \in Sounds
         /\ s # <<>> => Head(s) \in Sounds /\ Head(s) = s[1] /\ 1 \in DOMAIN s
  BY DEF SoundList

LEMMA ViewSound ==
  ASSUME GatewaysInv, Gateways!EdgeAssumption
  PROVE  SoundList(Gateways!View) /\ SoundList(Gateways!ActiveGateways)
<1>1. SoundList(Gateways!View)
  BY DEF Gateways!View, GatewaysInv
<1>2. SoundList(<<Gateways!Blank(Edge01)>>)
  <2>1. Gateways!Blank(Edge01) \in Sounds
    BY BlankSound DEF Gateways!EdgeAssumption
  <2>2. <<Gateways!Blank(Edge01)>> \in Seq(Sounds) /\ DOMAIN <<Gateways!Blank(Edge01)>> = {1}
    BY <2>1
  <2>3. QED
    BY <2>2 DEF SoundList
<1>3. QED
  BY <1>1, <1>2 DEF Gateways!ActiveGateways

\* A free octet is nobody's, and not that of the home server.
LEMMA FreeOctet ==
  ASSUME Gateways!EdgeAssumption, NEW gateway, NEW first \in {FirstSite, FirstMobile},
         NEW octet \in Gateways!Free(gateway, first)
  PROVE  /\ octet \in HomeOctet .. LastOctet /\ octet # HomeOctet
         /\ \A entry \in gateway.peers : entry.octet # octet
<1>1. octet \in first .. LastOctet /\ \A entry \in gateway.peers : entry.octet # octet
  BY DEF Gateways!Free
<1>2. HomeOctet \in Nat /\ first \in Nat /\ LastOctet \in Nat /\ HomeOctet < first
  BY DEF Gateways!EdgeAssumption
<1>3. QED
  BY <1>1, <1>2

LEMMA WithPeerSound ==
  ASSUME Gateways!EdgeAssumption, NEW gateway \in Sounds, NEW p \in Peer,
         NEW first \in {FirstSite, FirstMobile}, NEW octet \in Gateways!Free(gateway, first)
  PROVE  LET new == [gateway EXCEPT !.peers = @ \cup {[peer |-> p, octet |-> octet]}]
         IN  new \in Sounds /\ new.peers \subseteq Gateways!PeerEntry /\ Gateways!Distinct(new.peers)
<1> DEFINE peers == gateway.peers \cup {[peer |-> p, octet |-> octet]}
           new == [gateway EXCEPT !.peers = peers]
<1>1. gateway \in Gateways!Record /\ gateway.peers \subseteq Gateways!PeerEntry /\ Gateways!Distinct(gateway.peers)
      /\ \A entry \in gateway.peers : entry.octet # HomeOctet
  BY DEF Sounds, Sound, Gateways!Record
<1>2. peers \subseteq Gateways!PeerEntry /\ \A entry \in peers : entry.octet # HomeOctet
  BY <1>1, FreeOctet DEF Gateways!PeerEntry
<1>3. Gateways!Distinct(peers)
  BY <1>1, FreeOctet DEF Gateways!Distinct
<1>4. new \in Gateways!Record /\ new.peers = peers
  BY <1>1, <1>2 DEF Gateways!Record
<1>5. QED
  BY <1>2, <1>3, <1>4 DEF Sounds, Sound

\* What the commands write: the record of the VPS with its routes and without peers.
LEMMA PersistedSound ==
  ASSUME Gateways!EdgeAssumption, NEW s, SoundList(s)
  PROVE  SoundList(Gateways!Persisted(s))
<1> DEFINE served == UNION {s[i].routes : i \in {j \in DOMAIN s : s[j].id = Edge01}}
           new == [Gateways!Blank(Edge01) EXCEPT !.routes = served]
<1>1. served \in SUBSET Route
  BY ListElements DEF Sounds, Gateways!Record
<1>2. new \in Sounds /\ new.id = Edge01
  BY <1>1, BlankSound, RoutesSound DEF Gateways!EdgeAssumption, Gateways!Blank
<1>3. Gateways!Persisted(s) = Append(Gateways!Others(s, Edge01), new)
  BY DEF Gateways!Persisted
<1> HIDE DEF new
<1>4. QED
  BY <1>2, <1>3, OthersList, AppendSound

-----------------------------------------------------------------------------
LEMMA GatewaysBegin == Gateways!EdgeAssumption /\ Gateways!Init => GatewaysInv
<1> SUFFICES ASSUME Gateways!EdgeAssumption, Gateways!Init PROVE GatewaysInv
  OBVIOUS
<1>1. SoundList(active)
  <2>1. CASE active = <<>>
    BY <2>1 DEF SoundList
  <2>2. ASSUME NEW g \in Edge \ {Edge01}, active = <<Gateways!Blank(Edge01), Gateways!Blank(g)>>
        PROVE  SoundList(active)
    <3>1. Gateways!Blank(Edge01) \in Sounds /\ Gateways!Blank(g) \in Sounds
          /\ Gateways!Blank(Edge01).id = Edge01 /\ Gateways!Blank(g).id = g
      BY BlankSound DEF Gateways!EdgeAssumption, Gateways!Blank
    <3>2. active \in Seq(Sounds) /\ DOMAIN active = {1, 2}
          /\ active[1] = Gateways!Blank(Edge01) /\ active[2] = Gateways!Blank(g)
      BY <2>2, <3>1
    <3>3. QED
      BY <3>1, <3>2 DEF SoundList
  <2>3. QED
    BY <2>1, <2>2 DEF Gateways!Init
<1>2. QED
  BY <1>1 DEF Gateways!Init, GatewaysInv, Gateways!Distinct

\* The peer the hub gets with an invitation.
LEMMA HomeEntry ==
  ASSUME Gateways!EdgeAssumption
  PROVE  LET peers == {[peer |-> Home, octet |-> HomeOctet]}
         IN  peers \subseteq Gateways!PeerEntry /\ Gateways!Distinct(peers)
  BY DEF Gateways!EdgeAssumption, Gateways!PeerEntry, Gateways!Distinct

LEMMA GatewaysKeep == Gateways!EdgeAssumption /\ GatewaysInv /\ [Gateways!Next]_Gateways!vars => GatewaysInv'
<1> SUFFICES ASSUME Gateways!EdgeAssumption, GatewaysInv, [Gateways!Next]_Gateways!vars PROVE GatewaysInv'
  OBVIOUS
<1> USE DEF GatewaysInv
<1>a. SoundList(Gateways!View) /\ SoundList(Gateways!ActiveGateways)
  BY ViewSound
<1>1. CASE Gateways!Connect
  <2>1. SoundList(Gateways!Saved(Gateways!View, Gateways!Blank(Edge01)))
    BY <1>a, SavedSound, BlankSound DEF Gateways!EdgeAssumption
  <2>2. QED
    BY <1>1, <2>1 DEF Gateways!Connect, Gateways!Stage, Gateways!Distinct
<1>2. CASE Gateways!UpdateEndpoint
  <2>1. SoundList(Gateways!Saved(Gateways!View, Head(Gateways!ActiveGateways)))
    BY <1>2, <1>a, SavedSound, ListElements DEF Gateways!UpdateEndpoint
  <2>2. QED
    BY <1>2, <2>1 DEF Gateways!UpdateEndpoint, Gateways!Stage
<1>3. CASE Gateways!Commit \/ Gateways!Discard
  BY <1>3 DEF Gateways!Commit, Gateways!Discard
<1>4. CASE Gateways!Invite \/ Gateways!Enroll
  BY <1>4, HomeEntry, PersistedSound DEF Gateways!Invite, Gateways!Enroll
<1>5. CASE Gateways!ConnectCommand
  BY <1>5, PersistedSound DEF Gateways!ConnectCommand, Gateways!Distinct
<1>6. ASSUME NEW r \in Route, Gateways!CreateRoute(r) PROVE GatewaysInv'
  <2> DEFINE gateway == Head(Gateways!ActiveGateways)
             new == [gateway EXCEPT !.routes = @ \cup {r}]
  <2>1. gateway \in Sounds
    BY <1>6, <1>a, ListElements DEF Gateways!CreateRoute
  <2>2. gateway.routes \cup {r} \in SUBSET Route
    BY <2>1 DEF Sounds, Gateways!Record
  <2>3. new \in Sounds
    BY <2>1, <2>2, RoutesSound
  <2> HIDE DEF new
  <2>4. SoundList(Gateways!Saved(Gateways!View, new))
    BY <1>a, <2>3, SavedSound
  <2>5. staged' = Gateways!Saved(Gateways!View, new) /\ UNCHANGED <<active, hub, keyed>>
        /\ created' = created \cup {r}
    BY <1>6 DEF Gateways!CreateRoute, Gateways!Stage, Gateways!Fresh, new
  <2>6. QED
    BY <2>4, <2>5
<1>7. ASSUME NEW r \in Route, Gateways!ProvisionRoute(r) PROVE GatewaysInv'
  <2> DEFINE new == [Gateways!View EXCEPT ![1].routes = @ \cup {r}]
  <2>1. 1 \in DOMAIN Gateways!View /\ Gateways!View[1] \in Sounds /\ Gateways!View \in Seq(Sounds)
    BY <1>7, <1>a, ListElements DEF Gateways!ProvisionRoute, SoundList
  <2>2. Gateways!View[1].routes \cup {r} \in SUBSET Route
    BY <2>1 DEF Sounds, Gateways!Record
  <2> DEFINE first == [Gateways!View[1] EXCEPT !.routes = Gateways!View[1].routes \cup {r}]
  <2>3. first \in Sounds /\ first.id = Gateways!View[1].id
    BY <2>1, <2>2, RoutesSound
  <2>4. new = [Gateways!View EXCEPT ![1] = first]
    OBVIOUS
  <2> HIDE DEF first, new
  <2>5. new \in Seq(Sounds) /\ DOMAIN new = DOMAIN Gateways!View
        /\ \A i \in DOMAIN Gateways!View : new[i] = IF i = 1 THEN first ELSE Gateways!View[i]
    BY <2>1, <2>3, <2>4
  <2>6. SoundList(new)
    BY <1>a, <2>3, <2>5, InPlaceSound
  <2>7. staged' = new /\ UNCHANGED <<active, hub, keyed>> /\ created' = created \cup {r}
    BY <1>7 DEF Gateways!ProvisionRoute, Gateways!Stage, Gateways!Fresh, new
  <2>8. QED
    BY <2>6, <2>7
<1>8. ASSUME NEW r \in Route, Gateways!DeleteRoute(r) PROVE GatewaysInv'
  <2> DEFINE s == Gateways!ActiveGateways
             new == [i \in DOMAIN s |-> [s[i] EXCEPT !.routes = @ \ {r}]]
  <2>1. \A i \in DOMAIN s : s[i] \in Sounds /\ s[i].routes \ {r} \in SUBSET Route
    BY <1>a, ListElements DEF Sounds, Gateways!Record
  <2>2. s \in Seq(Sounds)
    BY <1>a DEF SoundList
  <2> HIDE DEF s
  <2>3. \A i \in DOMAIN s : new[i] \in Sounds /\ new[i].id = s[i].id
    BY <2>1, RoutesSound
  <2>4. DOMAIN new = DOMAIN s
    OBVIOUS
  <2> HIDE DEF new
  <2>5. new \in [1 .. Len(s) -> Sounds] /\ Len(s) \in Nat
    BY <2>2, <2>3, <2>4 DEF new
  <2>6. SoundList(new)
    BY <1>a, <2>3, <2>4, <2>5, InPlaceSound DEF s
  <2>7. staged' = new /\ UNCHANGED <<active, hub, keyed, created>>
    BY <1>8 DEF Gateways!DeleteRoute, Gateways!Stage, new, s
  <2>8. QED
    BY <2>6, <2>7
<1>9. ASSUME NEW p \in Peer, NEW first \in {FirstSite, FirstMobile}, Gateways!CreatePeer(p, first)
      PROVE  GatewaysInv'
  <2>1. Head(Gateways!View) \in Sounds
    BY <1>9, <1>a, ListElements DEF Gateways!CreatePeer
  <2>2. PICK octet \in Gateways!Free(Head(Gateways!View), first) :
          LET gateway == [Head(Gateways!View) EXCEPT !.peers = @ \cup {[peer |-> p, octet |-> octet]}]
          IN  /\ hub' = IF keyed THEN gateway.peers ELSE hub
              /\ Gateways!Stage(Gateways!Saved(Gateways!View, gateway))
    BY <1>9 DEF Gateways!CreatePeer
  <2> DEFINE new == [Head(Gateways!View) EXCEPT !.peers = @ \cup {[peer |-> p, octet |-> octet]}]
  <2>3. new \in Sounds /\ new.peers \subseteq Gateways!PeerEntry /\ Gateways!Distinct(new.peers)
    BY <2>1, WithPeerSound
  <2>4. hub' = (IF keyed THEN new.peers ELSE hub) /\ Gateways!Stage(Gateways!Saved(Gateways!View, new))
    BY <2>2
  <2> HIDE DEF new
  <2>5. SoundList(Gateways!Saved(Gateways!View, new))
    BY <1>a, <2>3, SavedSound
  <2>6. created' = created \cup {p} /\ UNCHANGED keyed
    BY <1>9 DEF Gateways!CreatePeer, Gateways!Fresh
  <2>7. QED
    BY <2>3, <2>4, <2>5, <2>6 DEF Gateways!Stage
<1>10. ASSUME NEW p \in Peer, Gateways!DeletePeer(p) PROVE GatewaysInv'
  <2>1. Head(Gateways!View) \in Sounds
    BY <1>10, <1>a, ListElements DEF Gateways!DeletePeer
  <2>2. PICK entry \in Head(Gateways!View).peers :
          Gateways!Stage(Gateways!Saved(Gateways!View, [Head(Gateways!View) EXCEPT !.peers = @ \ {entry}]))
    BY <1>10 DEF Gateways!DeletePeer
  <2> DEFINE new == [Head(Gateways!View) EXCEPT !.peers = @ \ {entry}]
  <2>3. new \in Sounds
    BY <2>1 DEF Sounds, Sound, Gateways!Record, Gateways!Distinct
  <2> HIDE DEF new
  <2>4. SoundList(Gateways!Saved(Gateways!View, new))
    BY <1>a, <2>3, SavedSound
  <2>5. QED
    BY <1>10, <2>2, <2>4 DEF Gateways!DeletePeer, Gateways!Stage, new
<1>11. CASE UNCHANGED Gateways!vars
  BY <1>11 DEF Gateways!vars
<1>12. QED
  BY <1>1, <1>2, <1>3, <1>4, <1>5, <1>6, <1>7, <1>8, <1>9, <1>10, <1>11 DEF Gateways!Next

LEMMA SoundHolds == Gateways!EdgeAssumption /\ GatewaysInv => Gateways!TypeOK /\ Gateways!AddressesDistinct
<1> SUFFICES ASSUME Gateways!EdgeAssumption, GatewaysInv PROVE Gateways!TypeOK /\ Gateways!AddressesDistinct
  OBVIOUS
<1>1. \A s : SoundList(s) => Gateways!IsList(s) /\ \A i \in DOMAIN s : Sound(s[i])
  BY DEF SoundList, Sounds, Gateways!IsList
<1>2. SoundList(Gateways!View)
  BY ViewSound
<1>3. Gateways!TypeOK
  BY <1>1 DEF GatewaysInv, Gateways!TypeOK
<1>4. Gateways!AddressesDistinct
  BY <1>1, <1>2 DEF GatewaysInv, Gateways!AddressesDistinct, Sound
<1>5. QED
  BY <1>3, <1>4

LEMMA GatewaysHold ==
  ASSUME Gateways!EdgeAssumption PROVE Gateways!Spec => [](Gateways!TypeOK /\ Gateways!AddressesDistinct)
<1>1. Gateways!Init => GatewaysInv
  BY GatewaysBegin
<1>2. GatewaysInv /\ [Gateways!Next]_Gateways!vars => GatewaysInv'
  BY GatewaysKeep
<1>3. GatewaysInv => Gateways!TypeOK /\ Gateways!AddressesDistinct
  BY SoundHolds
<1>4. QED
  BY <1>1, <1>2, <1>3, PTL DEF Gateways!Spec

-----------------------------------------------------------------------------
(* The cluster registry. *)

Call == [roster : Registry!Roster, then : Registry!Enrollment \cup {None}]

RegistryTypes ==
  /\ active \in Registry!Roster /\ staged \in Registry!Roster \cup {None}
  /\ bus \in Seq(Call)
  /\ replies \subseteq Registry!Enrollment
  /\ tokens \subseteq JoinToken
  /\ system \in [epoch : {1, Epoch}, accounts : BOOLEAN]
  /\ routes \subseteq Route /\ added \subseteq Route /\ raced \subseteq Route
  /\ linked \subseteq Node /\ missed \subseteq Node
  /\ changes \in 0 .. MaxRosterChanges

\* A token that is still there was not used, and none was used twice.
UsedOnce ==
  /\ uses \in [JoinToken -> 0 .. 1]
  /\ \A t \in tokens : uses[t] = 0

\* Of a node that nothing happened to, the last call says what the view does; every call
\* says what the active file does when nothing is staged; the active file has it when
\* nothing is under way; and it is in the view when it was told it is.
Agrees(n) ==
  /\ bus # <<>> => (n \in Registry!Ids(bus[Len(bus)].roster) <=> n \in Registry!Ids(Registry!View))
  /\ staged = None =>
       \A i \in DOMAIN bus : n \in Registry!Ids(bus[i].roster) <=> n \in Registry!Ids(active)
  /\ (bus = <<>> /\ n \in Registry!Ids(Registry!View)) => n \in Registry!Ids(active)
  /\ n \in linked => n \in Registry!Ids(Registry!View)

RosterAgrees == \A n \in Node \ missed : Agrees(n)

\* What an enrollment will write into the gateway's record has every route but those made
\* since an enrollment began.
Carries(e) == (e # None /\ e.link # None) => added \subseteq e.link \cup raced

RoutesCarried ==
  /\ added \subseteq routes \cup raced
  /\ \A e \in replies : Carries(e)
  /\ \A i \in DOMAIN bus : Carries(bus[i].then)

RegistryInv == RegistryTypes /\ UsedOnce /\ RosterAgrees /\ RoutesCarried

LEMMA RegistryBegins ==
  ASSUME Registry!RegistryAssumption, Registry!Init
  PROVE  RegistryInv
<1>1. /\ staged = None /\ bus = <<>> /\ replies = {}
      /\ tokens = {} /\ uses = [t \in JoinToken |-> 0]
      /\ system = [epoch |-> Epoch, accounts |-> TRUE]
      /\ routes = {} /\ added = {} /\ raced = {}
      /\ linked = {} /\ missed = {} /\ changes = 0 /\ MaxRosterChanges \in Nat
  BY DEF Registry!Init, Registry!RegistryAssumption
<1>2. active \in Registry!Roster
  <2>1. active = [n \in Node |-> IF n = Controller THEN {"controller", "gateway_router"} ELSE None]
    BY DEF Registry!Init
  <2>2. {"controller", "gateway_router"} \in (SUBSET Registry!Role) \ {{}}
    BY DEF Registry!Role
  <2> QED BY <2>1, <2>2 DEF Registry!Roster
<1>3. RegistryTypes
  <2>1. bus \in Seq(Call)
    BY <1>1
  <2>2. system \in [epoch : {1, Epoch}, accounts : BOOLEAN]
    BY <1>1
  <2> QED BY <1>1, <1>2, <2>1, <2>2 DEF RegistryTypes
<1>4. UsedOnce
  BY <1>1 DEF UsedOnce
<1>5. RosterAgrees
  BY <1>1 DEF RosterAgrees, Agrees, Registry!View
<1>6. RoutesCarried
  BY <1>1 DEF RoutesCarried
<1> QED BY <1>3, <1>4, <1>5, <1>6 DEF RegistryInv

\* The view is one of the rosters, and None is none of them.
LEMMA ViewIsRoster ==
  ASSUME Registry!RegistryAssumption, RegistryTypes
  PROVE  Registry!View \in Registry!Roster /\ None \notin Registry!Roster
BY DEF Registry!View, RegistryTypes, Registry!RegistryAssumption

\* A change of one node's roles keeps a roster, and changes its entry alone.
LEMMA RosterChanged ==
  ASSUME Registry!RegistryAssumption, NEW roster \in Registry!Roster, NEW n \in Node,
         NEW roles \in ((SUBSET Registry!Role) \ {{}}) \cup {None}
  PROVE  /\ [roster EXCEPT ![n] = roles] \in Registry!Roster
         /\ n \in Registry!Ids([roster EXCEPT ![n] = roles]) <=> roles # None
         /\ \A m \in Node \ {n} :
              m \in Registry!Ids([roster EXCEPT ![n] = roles]) <=> m \in Registry!Ids(roster)
BY DEF Registry!Roster, Registry!Ids

\* A roster that is saved is staged and called, and keeps the nodes of the view but those
\* it removes.
LEMMA SavesAgree ==
  ASSUME Registry!RegistryAssumption, RegistryInv, NEW roster \in Registry!Roster,
         NEW then \in Registry!Enrollment \cup {None}, Registry!SaveNodes(roster, then),
         missed' = missed, linked' \subseteq linked,
         \A n \in linked' : n \in Registry!Ids(Registry!View) => n \in Registry!Ids(roster)
  PROVE  /\ active' \in Registry!Roster /\ staged' \in Registry!Roster \cup {None}
         /\ bus' \in Seq(Call) /\ changes' \in 0 .. MaxRosterChanges
         /\ \A i \in DOMAIN bus' : (i \in DOMAIN bus /\ bus'[i] = bus[i]) \/ bus'[i].then = then
         /\ RosterAgrees' /\ system' = system
<1> DEFINE call == [roster |-> roster, then |-> then]
<1>1. staged' = roster /\ bus' = Append(bus, call) /\ UNCHANGED <<active, system>>
      /\ changes < MaxRosterChanges /\ changes' = changes + 1
  BY DEF Registry!SaveNodes, Registry!Counted
<1>2. call \in Call /\ call.roster = roster /\ call.then = then
  BY DEF Call
<1> HIDE DEF call
<1>3. bus \in Seq(Call) /\ roster # None /\ active \in Registry!Roster
  BY ViewIsRoster DEF RegistryInv, RegistryTypes
<1>4. /\ bus' \in Seq(Call) /\ Len(bus') = Len(bus) + 1 /\ bus'[Len(bus')] = call /\ bus' # <<>>
      /\ \A i \in DOMAIN bus' : (i \in DOMAIN bus /\ bus'[i] = bus[i]) \/ bus'[i] = call
  BY <1>1, <1>2, <1>3
<1>5. changes' \in 0 .. MaxRosterChanges
  BY <1>1 DEF RegistryInv, RegistryTypes, Registry!RegistryAssumption
<1>6. Registry!View' = roster
  BY <1>1, <1>3 DEF Registry!View
<1>7. ASSUME NEW n \in Node \ missed
      PROVE  Agrees(n)'
  <2>1. n \in linked => n \in Registry!Ids(Registry!View)
    BY DEF RegistryInv, RosterAgrees, Agrees
  <2>2. n \in linked' => n \in Registry!Ids(roster)
    BY <2>1
  <2>3. Registry!Ids(Registry!View)' = Registry!Ids(roster)
    BY <1>6 DEF Registry!Ids
  <2>4. staged' # None
    BY <1>1, <1>3
  <2>5. Registry!Ids(bus[Len(bus)].roster)' = Registry!Ids(roster)
    BY <1>2, <1>4 DEF Registry!Ids
  <2> QED BY <1>4, <2>2, <2>3, <2>4, <2>5 DEF Agrees
<1>8. RosterAgrees'
  BY <1>7 DEF RosterAgrees
<1> QED BY <1>1, <1>2, <1>3, <1>4, <1>5, <1>8

\* Whoever saves the roster without a token keeps the tokens and the routes.
LEMMA SavingKeeps ==
  ASSUME Registry!RegistryAssumption, RegistryInv, NEW n \in Node,
         NEW roles \in ((SUBSET Registry!Role) \ {{}}) \cup {None},
         NEW then \in Registry!Enrollment \cup {None},
         then # None /\ then.link # None => then.link = routes,
         Registry!SaveNodes([Registry!View EXCEPT ![n] = roles], then),
         linked' = linked \/ (roles = None /\ linked' = linked \ {n}),
         roles = None => linked' = linked \ {n},
         tokens' \subseteq JoinToken, UsedOnce',
         UNCHANGED <<replies, routes, added, raced, missed>>
  PROVE  RegistryInv'
<1>1. Registry!View \in Registry!Roster /\ None \notin Registry!Roster
  BY ViewIsRoster DEF RegistryInv
<1> DEFINE roster == [Registry!View EXCEPT ![n] = roles]
<1>2. /\ roster \in Registry!Roster
      /\ n \in Registry!Ids(roster) <=> roles # None
      /\ \A m \in Node \ {n} : m \in Registry!Ids(roster) <=> m \in Registry!Ids(Registry!View)
  BY <1>1, RosterChanged
<1>3. Registry!SaveNodes(roster, then)
  OBVIOUS
<1> HIDE DEF roster
<1>4. linked' \subseteq linked /\ linked \subseteq Node
      /\ \A m \in linked' : m \in Registry!Ids(Registry!View) => m \in Registry!Ids(roster)
  BY <1>2 DEF RegistryInv, RegistryTypes
<1>5. /\ active' \in Registry!Roster /\ staged' \in Registry!Roster \cup {None}
      /\ bus' \in Seq(Call) /\ changes' \in 0 .. MaxRosterChanges
      /\ \A i \in DOMAIN bus' : (i \in DOMAIN bus /\ bus'[i] = bus[i]) \/ bus'[i].then = then
      /\ RosterAgrees' /\ system' = system
  BY <1>2, <1>3, <1>4, SavesAgree
<1>6. RegistryTypes'
  BY <1>4, <1>5 DEF RegistryInv, RegistryTypes
<1>7. RoutesCarried'
  BY <1>5 DEF RegistryInv, RoutesCarried, Carries
<1> QED BY <1>5, <1>6, <1>7 DEF RegistryInv

\* A call that is answered leaves the others as they are, and its enrollment goes on.
LEMMA AnswerLeaves ==
  ASSUME RegistryInv, Registry!Answer, UNCHANGED <<routes, added, raced>>
  PROVE  /\ bus # <<>> /\ bus \in Seq(Call) /\ bus' \in Seq(Call) /\ replies' \subseteq Registry!Enrollment
         /\ Head(bus) = bus[1] /\ bus[1] \in Call /\ 1 \in DOMAIN bus /\ Len(bus') = Len(bus) - 1
         /\ \A i \in DOMAIN bus' : i + 1 \in DOMAIN bus /\ bus'[i] = bus[i + 1]
         /\ RoutesCarried'
<1>1. bus # <<>> /\ bus' = Tail(bus) /\ bus \in Seq(Call)
      /\ replies' = IF Head(bus).then = None THEN replies ELSE replies \cup {Head(bus).then}
  BY DEF RegistryInv, RegistryTypes, Registry!Answer
<1>2. Head(bus) = bus[1] /\ 1 \in DOMAIN bus /\ bus[1] \in Call /\ Len(bus') = Len(bus) - 1
      /\ bus' \in Seq(Call) /\ \A i \in DOMAIN bus' : i + 1 \in DOMAIN bus /\ bus'[i] = bus[i + 1]
  BY <1>1
<1>3. replies' \subseteq Registry!Enrollment
  BY <1>1, <1>2 DEF RegistryInv, RegistryTypes, Call
<1>4. \A e \in replies' : Carries(e)
  BY <1>1, <1>2 DEF RegistryInv, RoutesCarried
<1>5. \A i \in DOMAIN bus' : Carries(bus'[i].then)
  BY <1>2 DEF RegistryInv, RoutesCarried
<1>6. RoutesCarried'
  BY <1>4, <1>5 DEF RegistryInv, RoutesCarried, Carries
<1> QED BY <1>1, <1>2, <1>3, <1>6

LEMMA DeliverKeeps ==
  ASSUME Registry!RegistryAssumption, RegistryInv, Registry!Deliver
  PROVE  RegistryInv'
<1>1. active' = Head(bus).roster /\ Registry!Answer
      /\ UNCHANGED <<staged, tokens, system, routes, added, raced, uses, linked, missed, changes>>
  BY DEF Registry!Deliver, Registry!edge
<1>2. /\ bus # <<>> /\ bus \in Seq(Call) /\ bus' \in Seq(Call) /\ replies' \subseteq Registry!Enrollment
      /\ Head(bus) = bus[1] /\ bus[1] \in Call /\ 1 \in DOMAIN bus /\ Len(bus') = Len(bus) - 1
      /\ \A i \in DOMAIN bus' : i + 1 \in DOMAIN bus /\ bus'[i] = bus[i + 1]
      /\ RoutesCarried'
  BY <1>1, AnswerLeaves
<1>3. active' \in Registry!Roster
  BY <1>1, <1>2 DEF Call
<1>4. ASSUME NEW n \in Node \ missed
      PROVE  Agrees(n)'
  <2>1. Agrees(n)
    BY DEF RegistryInv, RosterAgrees
  <2>2. n \in Registry!Ids(active)' <=> n \in Registry!Ids(bus[1].roster)
    BY <1>1, <1>2 DEF Registry!Ids
  <2>3. \A i \in DOMAIN bus' : (n \in Registry!Ids(bus[i].roster))' <=> n \in Registry!Ids(bus[i + 1].roster)
    BY <1>2 DEF Registry!Ids
  <2>4. bus' # <<>> => Len(bus') \in DOMAIN bus' /\ Len(bus') + 1 = Len(bus)
    BY <1>2
  <2>5. bus' = <<>> => Len(bus) = 1
    BY <1>2
  <2>6. bus' # <<>> => ((n \in Registry!Ids(bus[Len(bus)].roster))' <=> n \in Registry!Ids(bus[Len(bus)].roster))
    BY <2>3, <2>4
  <2>7. CASE staged = None
    <3>1. Registry!Ids(Registry!View)' = Registry!Ids(active)' /\ Registry!Ids(Registry!View) = Registry!Ids(active)
      BY <1>1, <2>7 DEF Registry!View, Registry!Ids
    <3>2. \A i \in DOMAIN bus : n \in Registry!Ids(bus[i].roster) <=> n \in Registry!Ids(active)
      BY <2>1, <2>7 DEF Agrees
    <3>3. n \in Registry!Ids(active)' <=> n \in Registry!Ids(active)
      BY <1>2, <2>2, <3>2
    <3>4. \A i \in DOMAIN bus' : (n \in Registry!Ids(bus[i].roster))' <=> n \in Registry!Ids(active)'
      BY <1>2, <2>3, <3>2, <3>3
    <3>5. bus' # <<>> => ((n \in Registry!Ids(bus[Len(bus)].roster))' <=> n \in Registry!Ids(active)')
      BY <2>4, <3>4
    <3>6. n \in linked' => n \in Registry!Ids(active)'
      BY <1>1, <2>1, <3>1, <3>3 DEF Agrees
    <3> QED BY <3>1, <3>4, <3>5, <3>6 DEF Agrees
  <2>8. CASE staged # None
    <3>1. Registry!Ids(Registry!View)' = Registry!Ids(Registry!View)
      BY <1>1, <2>8 DEF Registry!View, Registry!Ids
    <3> QED BY <1>1, <1>2, <2>1, <2>2, <2>5, <2>6, <2>8, <3>1 DEF Agrees
  <2> QED BY <2>7, <2>8
<1>5. RosterAgrees'
  BY <1>1, <1>4 DEF RosterAgrees
<1>6. RegistryTypes' /\ UsedOnce'
  BY <1>1, <1>2, <1>3 DEF RegistryInv, RegistryTypes, UsedOnce
<1> QED BY <1>2, <1>5, <1>6 DEF RegistryInv

LEMMA FailDeliveryKeeps ==
  ASSUME Registry!RegistryAssumption, RegistryInv, Registry!FailDelivery
  PROVE  RegistryInv'
<1>1. missed' = missed \cup (Registry!Ids(Head(bus).roster) \ Registry!Ids(active)) /\ Registry!Answer
      /\ UNCHANGED <<active, staged, tokens, system, routes, added, raced, uses, linked, changes>>
  BY DEF Registry!FailDelivery, Registry!edge, Registry!files
<1>2. /\ bus # <<>> /\ bus \in Seq(Call) /\ bus' \in Seq(Call) /\ replies' \subseteq Registry!Enrollment
      /\ Head(bus) = bus[1] /\ 1 \in DOMAIN bus /\ Len(bus') = Len(bus) - 1
      /\ \A i \in DOMAIN bus' : i + 1 \in DOMAIN bus /\ bus'[i] = bus[i + 1]
      /\ RoutesCarried'
  BY <1>1, AnswerLeaves
<1>3. missed' \subseteq Node
  BY <1>1 DEF RegistryInv, RegistryTypes, Registry!Ids
<1>4. ASSUME NEW n \in Node \ missed'
      PROVE  Agrees(n)'
  <2>1. Agrees(n) /\ (n \in Registry!Ids(bus[1].roster) => n \in Registry!Ids(active))
    BY <1>1, <1>2 DEF RegistryInv, RosterAgrees
  <2>2. Registry!Ids(active)' = Registry!Ids(active) /\ Registry!Ids(Registry!View)' = Registry!Ids(Registry!View)
    BY <1>1 DEF Registry!Ids, Registry!View
  <2>3. \A i \in DOMAIN bus' : (n \in Registry!Ids(bus[i].roster))' <=> n \in Registry!Ids(bus[i + 1].roster)
    BY <1>2 DEF Registry!Ids
  <2>4. bus' # <<>> => Len(bus') \in DOMAIN bus' /\ Len(bus') + 1 = Len(bus)
    BY <1>2
  <2>5. bus' = <<>> => Len(bus) = 1
    BY <1>2
  <2>6. bus' # <<>> => ((n \in Registry!Ids(bus[Len(bus)].roster))' <=> n \in Registry!Ids(bus[Len(bus)].roster))
    BY <2>3, <2>4
  <2>7. staged' = None => \A i \in DOMAIN bus' : (n \in Registry!Ids(bus[i].roster))' <=> n \in Registry!Ids(active)'
    BY <1>1, <1>2, <2>1, <2>2, <2>3 DEF Agrees
  <2> QED BY <1>1, <1>2, <2>1, <2>2, <2>5, <2>6, <2>7 DEF Agrees
<1>5. RosterAgrees'
  BY <1>4 DEF RosterAgrees
<1>6. RegistryTypes' /\ UsedOnce'
  BY <1>1, <1>2, <1>3 DEF RegistryInv, RegistryTypes, UsedOnce
<1> QED BY <1>2, <1>5, <1>6 DEF RegistryInv

\* A node is enrolled with the daemon's answer, or by the command line in the active file.
LEMMA AdoptKeeps ==
  ASSUME Registry!RegistryAssumption, RegistryInv, NEW n \in Node, Registry!Adopt(n, "gateway_router")
  PROVE  RegistryInv'
<1> DEFINE roles == IF active[n] = None THEN {"gateway_router"} ELSE active[n] \cup {"gateway_router"}
<1>1. /\ active' = [active EXCEPT ![n] = roles]
      /\ missed' = IF staged = None /\ \E i \in DOMAIN bus : n \notin Registry!Ids(bus[i].roster)
                     THEN missed \cup {n} ELSE missed
      /\ changes < MaxRosterChanges /\ changes' = changes + 1
      /\ UNCHANGED <<staged, bus, replies, tokens, system, routes, added, raced, uses, linked>>
  BY DEF Registry!Adopt, Registry!Adopted, Registry!Counted, Registry!flight, Registry!edge
<1>2. active \in Registry!Roster /\ None \notin Registry!Roster
  BY ViewIsRoster DEF RegistryInv, RegistryTypes
<1>3. roles \in (SUBSET Registry!Role) \ {{}} /\ roles # None
  <2>1. active[n] \in ((SUBSET Registry!Role) \ {{}}) \cup {None}
    BY <1>2 DEF Registry!Roster
  <2>2. "gateway_router" \in Registry!Role /\ \A s \in SUBSET Registry!Role : s # None
    BY DEF Registry!Role, Registry!RegistryAssumption
  <2> QED BY <2>1, <2>2
<1> HIDE DEF roles
<1>4. /\ active' \in Registry!Roster /\ n \in Registry!Ids(active)'
      /\ \A m \in Node \ {n} : m \in Registry!Ids(active)' <=> m \in Registry!Ids(active)
  BY <1>1, <1>2, <1>3 DEF Registry!Roster, Registry!Ids
<1>5. missed' \subseteq Node /\ missed \subseteq missed'
  BY <1>1 DEF RegistryInv, RegistryTypes
<1>6. ASSUME NEW m \in Node \ missed'
      PROVE  Agrees(m)'
  <2>1. Agrees(m)
    BY <1>5 DEF RegistryInv, RosterAgrees
  <2>2. \A i \in DOMAIN bus : (m \in Registry!Ids(bus[i].roster))' <=> m \in Registry!Ids(bus[i].roster)
    BY <1>1 DEF Registry!Ids
  <2>3. m \in Registry!Ids(active) => m \in Registry!Ids(active)'
    BY <1>4
  <2>4. bus \in Seq(Call) /\ (bus # <<>> => Len(bus) \in DOMAIN bus)
    BY DEF RegistryInv, RegistryTypes
  <2>5. bus # <<>> => ((m \in Registry!Ids(bus[Len(bus)].roster))' <=> m \in Registry!Ids(bus[Len(bus)].roster))
    BY <1>1 DEF Registry!Ids
  <2>6. CASE staged # None
    <3>1. Registry!Ids(Registry!View)' = Registry!Ids(Registry!View)
      BY <1>1, <2>6 DEF Registry!Ids, Registry!View
    <3> QED BY <1>1, <2>1, <2>3, <2>5, <2>6, <3>1 DEF Agrees
  <2>7. CASE staged = None
    <3>1. Registry!Ids(Registry!View)' = Registry!Ids(active)' /\ Registry!Ids(Registry!View) = Registry!Ids(active)
      BY <1>1, <2>7 DEF Registry!Ids, Registry!View
    <3>2. \A i \in DOMAIN bus : (m \in Registry!Ids(bus[i].roster))' <=> m \in Registry!Ids(active)'
      <4>1. CASE m = n
        BY <1>1, <1>4, <2>2, <2>7, <4>1
      <4>2. CASE m # n
        BY <1>4, <2>1, <2>2, <2>7, <4>2 DEF Agrees
      <4> QED BY <4>1, <4>2
    <3>3. bus' # <<>> => ((m \in Registry!Ids(bus[Len(bus)].roster))' <=> m \in Registry!Ids(active)')
      BY <1>1, <2>4, <2>5, <3>2
    <3>4. \A i \in DOMAIN bus' : (m \in Registry!Ids(bus[i].roster))' <=> m \in Registry!Ids(active)'
      BY <1>1, <3>2
    <3>5. m \in linked' => m \in Registry!Ids(active)'
      BY <1>1, <2>1, <2>3, <3>1 DEF Agrees
    <3> QED BY <3>1, <3>3, <3>4, <3>5 DEF Agrees
  <2> QED BY <2>6, <2>7
<1>7. RosterAgrees'
  BY <1>6 DEF RosterAgrees
<1>8. RegistryTypes'
  BY <1>1, <1>4, <1>5 DEF RegistryInv, RegistryTypes, Registry!RegistryAssumption
<1>9. UsedOnce' /\ RoutesCarried'
  BY <1>1 DEF RegistryInv, UsedOnce, RoutesCarried, Carries
<1> QED BY <1>7, <1>8, <1>9 DEF RegistryInv

\* A roster that is only staged has the nodes of the view.
LEMMA StagingKeeps ==
  ASSUME Registry!RegistryAssumption, RegistryInv, NEW roster \in Registry!Roster,
         Registry!Ids(roster) = Registry!Ids(Registry!View),
         Registry!StageNodes(roster), system' \in [epoch : {1, Epoch}, accounts : BOOLEAN]
  PROVE  RegistryInv'
<1>1. /\ staged' = roster /\ changes < MaxRosterChanges /\ changes' = changes + 1
      /\ UNCHANGED <<active, bus, replies, tokens, routes, added, raced, uses, linked, missed>>
  BY DEF Registry!StageNodes, Registry!Counted, Registry!flight, Registry!edge
<1>2. staged' # None
  BY <1>1, ViewIsRoster DEF RegistryInv
<1>3. Registry!Ids(Registry!View)' = Registry!Ids(Registry!View) /\ Registry!Ids(active)' = Registry!Ids(active)
  BY <1>1, <1>2 DEF Registry!View, Registry!Ids
<1>4. ASSUME NEW n \in Node \ missed
      PROVE  Agrees(n)'
  <2>1. Agrees(n)
    BY DEF RegistryInv, RosterAgrees
  <2>2. bus # <<>> => ((n \in Registry!Ids(bus[Len(bus)].roster))' <=> n \in Registry!Ids(bus[Len(bus)].roster))
    BY <1>1 DEF Registry!Ids
  <2> QED BY <1>1, <1>2, <1>3, <2>1, <2>2 DEF Agrees
<1>5. RosterAgrees'
  BY <1>1, <1>4 DEF RosterAgrees
<1>6. RegistryTypes'
  BY <1>1 DEF RegistryInv, RegistryTypes, Registry!RegistryAssumption
<1>7. UsedOnce' /\ RoutesCarried'
  BY <1>1 DEF RegistryInv, UsedOnce, RoutesCarried, Carries
<1> QED BY <1>5, <1>6, <1>7 DEF RegistryInv

LEMMA PromoteKeeps ==
  ASSUME Registry!RegistryAssumption, RegistryInv, NEW n \in Node, NEW force \in BOOLEAN,
         Registry!Promote(n, force)
  PROVE  RegistryInv'
<1> DEFINE roster == Registry!Promoted(Registry!View, n, force)
<1>1. /\ Registry!KeepsRoles(roster) /\ Registry!StageNodes(roster)
      /\ system' = [epoch |-> 1, accounts |-> FALSE]
  BY DEF Registry!Promote
<1>2. Registry!View \in Registry!Roster /\ \A s \in SUBSET Registry!Role : s # None
  BY ViewIsRoster DEF RegistryInv, Registry!RegistryAssumption
<1>3. \A m \in Node : roster[m] # {}
  BY <1>1 DEF Registry!KeepsRoles
<1>4. roster = [m \in Node |->
                  IF Registry!View[m] = None THEN None
                  ELSE IF m = n THEN Registry!View[m] \cup {"controller"}
                  ELSE IF force THEN Registry!View[m]
                  ELSE Registry!View[m] \ {"controller"}]
  BY DEF Registry!Promoted
<1> HIDE DEF roster
<1>5. \A m \in Node : /\ roster[m] \in (SUBSET Registry!Role) \cup {None}
                      /\ roster[m] = None <=> Registry!View[m] = None
  <2>1. \A m \in Node : Registry!View[m] \in (SUBSET Registry!Role) \cup {None}
    BY <1>2 DEF Registry!Roster
  <2>2. "controller" \in Registry!Role
    BY DEF Registry!Role
  <2> QED BY <1>2, <1>4, <2>1, <2>2
<1>6. roster \in Registry!Roster
  <2>1. \A m \in Node : roster[m] \in ((SUBSET Registry!Role) \ {{}}) \cup {None}
    BY <1>3, <1>5
  <2> QED BY <1>4, <2>1 DEF Registry!Roster
<1>7. Registry!Ids(roster) = Registry!Ids(Registry!View)
  BY <1>5 DEF Registry!Ids
<1>8. system' \in [epoch : {1, Epoch}, accounts : BOOLEAN]
  BY <1>1
<1> QED BY <1>1, <1>6, <1>7, <1>8, StagingKeeps

LEMMA DemoteKeeps ==
  ASSUME Registry!RegistryAssumption, RegistryInv, NEW n \in Node, Registry!Demote(n)
  PROVE  RegistryInv'
<1> DEFINE rest == Registry!View[n] \ {"controller"}
           roles == IF rest = {} THEN {"gateway_router"} ELSE rest
           roster == [Registry!View EXCEPT ![n] = roles]
<1>1. Registry!StageNodes(roster) /\ UNCHANGED system /\ n \in Registry!Ids(Registry!View)
  BY DEF Registry!Demote
<1>2. Registry!View \in Registry!Roster /\ \A s \in SUBSET Registry!Role : s # None
  BY ViewIsRoster DEF RegistryInv, Registry!RegistryAssumption
<1>3. roles \in (SUBSET Registry!Role) \ {{}} /\ roles # None
  <2>1. Registry!View[n] \in SUBSET Registry!Role
    BY <1>1, <1>2 DEF Registry!Roster, Registry!Ids
  <2>2. "gateway_router" \in Registry!Role
    BY DEF Registry!Role
  <2> QED BY <1>2, <2>1, <2>2
<1> HIDE DEF roles
<1>4. roster \in Registry!Roster /\ Registry!Ids(roster) = Registry!Ids(Registry!View)
  <2>1. /\ roster \in Registry!Roster /\ n \in Registry!Ids(roster)
        /\ \A m \in Node \ {n} : m \in Registry!Ids(roster) <=> m \in Registry!Ids(Registry!View)
    BY <1>2, <1>3, RosterChanged
  <2> HIDE DEF roster
  <2> QED BY <1>1, <2>1 DEF Registry!Ids
<1> HIDE DEF roster
<1>5. system' \in [epoch : {1, Epoch}, accounts : BOOLEAN]
  BY <1>1 DEF RegistryInv, RegistryTypes
<1> QED BY <1>1, <1>4, <1>5, StagingKeeps

\* A node that is not unsettled is in every copy and every call, or in none.
LEMMA SettledAgrees ==
  ASSUME RegistryTypes, NEW n \in Node, n \notin Registry!Unsettled
  PROVE  /\ \A i \in DOMAIN bus : n \in Registry!Ids(bus[i].roster) <=> n \in Registry!Ids(Registry!View)
         /\ bus # <<>> => (n \in Registry!Ids(active) <=> n \in Registry!Ids(Registry!View))
         /\ bus # <<>> => Len(bus) \in DOMAIN bus
<1>1. /\ \A i \in DOMAIN bus : (n \in Registry!Ids(bus[i].roster)) = (n \in Registry!Ids(Registry!View))
      /\ bus # <<>> => (n \in Registry!Ids(active)) = (n \in Registry!Ids(Registry!View))
  BY DEF Registry!Unsettled
<1>2. bus \in Seq(Call)
  BY DEF RegistryTypes
<1> QED BY <1>1, <1>2

LEMMA RegistryCommitKeeps ==
  ASSUME Registry!RegistryAssumption, RegistryInv, Registry!Commit
  PROVE  RegistryInv'
<1>1. /\ staged # None /\ active' = staged /\ staged' = None
      /\ missed' = missed \cup Registry!Unsettled
      /\ UNCHANGED <<bus, replies, tokens, system, routes, added, raced, uses, linked, changes>>
  BY DEF Registry!Commit, Registry!flight, Registry!edge
<1>2. Registry!Ids(Registry!View)' = Registry!Ids(Registry!View)
      /\ Registry!Ids(active)' = Registry!Ids(Registry!View)
  BY <1>1 DEF Registry!View, Registry!Ids
<1>3. ASSUME NEW n \in Node \ missed'
      PROVE  Agrees(n)'
  <2>1. Agrees(n) /\ n \notin Registry!Unsettled /\ RegistryTypes
    BY <1>1, <1>3 DEF RegistryInv, RosterAgrees
  <2>2. \A i \in DOMAIN bus : n \in Registry!Ids(bus[i].roster) <=> n \in Registry!Ids(Registry!View)
    BY <2>1, SettledAgrees
  <2>3. \A i \in DOMAIN bus' : (n \in Registry!Ids(bus[i].roster))' <=> n \in Registry!Ids(bus[i].roster)
    BY <1>1 DEF Registry!Ids
  <2>4. bus # <<>> => ((n \in Registry!Ids(bus[Len(bus)].roster))' <=> n \in Registry!Ids(bus[Len(bus)].roster))
    BY <1>1 DEF Registry!Ids
  <2>5. \A i \in DOMAIN bus' : (n \in Registry!Ids(bus[i].roster))' <=> n \in Registry!Ids(active)'
    BY <1>1, <1>2, <2>2, <2>3
  <2> QED BY <1>1, <1>2, <2>1, <2>4, <2>5 DEF Agrees
<1>4. RosterAgrees'
  BY <1>3 DEF RosterAgrees
<1>5. RegistryTypes'
  BY <1>1 DEF RegistryInv, RegistryTypes, Registry!Unsettled
<1>6. UsedOnce' /\ RoutesCarried'
  BY <1>1 DEF RegistryInv, UsedOnce, RoutesCarried, Carries
<1> QED BY <1>4, <1>5, <1>6 DEF RegistryInv

LEMMA DiscardKeeps ==
  ASSUME Registry!RegistryAssumption, RegistryInv, Registry!Discard
  PROVE  RegistryInv'
<1>1. /\ staged # None /\ staged' = None
      /\ linked' = linked \cap Registry!Ids(active)
      /\ missed' = missed \cup Registry!Unsettled
      /\ UNCHANGED <<active, bus, replies, tokens, system, routes, added, raced, uses, changes>>
  BY DEF Registry!Discard, Registry!flight, Registry!edge
<1>2. Registry!Ids(Registry!View)' = Registry!Ids(active)
      /\ Registry!Ids(active)' = Registry!Ids(active)
  BY <1>1 DEF Registry!View, Registry!Ids
<1>3. ASSUME NEW n \in Node \ missed'
      PROVE  Agrees(n)'
  <2>1. n \notin Registry!Unsettled /\ RegistryTypes
    BY <1>1, <1>3 DEF RegistryInv
  <2>2. /\ \A i \in DOMAIN bus : n \in Registry!Ids(bus[i].roster) <=> n \in Registry!Ids(Registry!View)
        /\ bus # <<>> => (n \in Registry!Ids(active) <=> n \in Registry!Ids(Registry!View))
        /\ bus # <<>> => Len(bus) \in DOMAIN bus
    BY <2>1, SettledAgrees
  <2>3. \A i \in DOMAIN bus : bus # <<>>
    OBVIOUS
  <2>4. \A i \in DOMAIN bus : (n \in Registry!Ids(bus[i].roster))' <=> n \in Registry!Ids(active)
    BY <1>1, <2>2, <2>3 DEF Registry!Ids
  <2>5. bus # <<>> => ((n \in Registry!Ids(bus[Len(bus)].roster))' <=> n \in Registry!Ids(active))
    BY <1>1, <2>2, <2>4
  <2>6. \A i \in DOMAIN bus' : (n \in Registry!Ids(bus[i].roster))' <=> n \in Registry!Ids(active)'
    BY <1>1, <1>2, <2>4
  <2> QED BY <1>1, <1>2, <2>5, <2>6 DEF Agrees
<1>4. RosterAgrees'
  BY <1>3 DEF RosterAgrees
<1>5. RegistryTypes'
  BY <1>1 DEF RegistryInv, RegistryTypes, Registry!Unsettled
<1>6. UsedOnce' /\ RoutesCarried'
  BY <1>1 DEF RegistryInv, UsedOnce, RoutesCarried, Carries
<1> QED BY <1>4, <1>5, <1>6 DEF RegistryInv

\* What leaves the files and the calls as they are leaves what they agree on.
LEMMA AgreementKept ==
  ASSUME RosterAgrees, UNCHANGED <<active, staged, bus, missed>>,
         linked' \subseteq linked \cup Registry!Ids(Registry!View)
  PROVE  RosterAgrees'
<1>1. Registry!Ids(Registry!View)' = Registry!Ids(Registry!View) /\ Registry!Ids(active)' = Registry!Ids(active)
      /\ \A i \in DOMAIN bus : (Registry!Ids(bus[i].roster))' = Registry!Ids(bus[i].roster)
      /\ (Registry!Ids(bus[Len(bus)].roster))' = Registry!Ids(bus[Len(bus)].roster)
  BY DEF Registry!View, Registry!Ids
<1>2. ASSUME NEW n \in Node \ missed
      PROVE  Agrees(n)'
  <2>1. Agrees(n)
    BY DEF RosterAgrees
  <2> QED BY <1>1, <2>1 DEF Agrees
<1> QED BY <1>2 DEF RosterAgrees

LEMMA FinishKeeps ==
  ASSUME Registry!RegistryAssumption, RegistryInv, NEW e \in replies, NEW answered \in BOOLEAN,
         Registry!Finish(e, answered)
  PROVE  RegistryInv'
<1>1. /\ replies' = replies \ {e}
      /\ routes' = IF e.link = None THEN routes ELSE e.link
      /\ linked' = IF answered /\ e.node \in Registry!Ids(Registry!View) THEN linked \cup {e.node} ELSE linked
      /\ UNCHANGED <<active, staged, bus, tokens, system, added, raced, uses, missed, changes>>
  BY DEF Registry!Finish, Registry!Linked, Registry!files
<1>2. e \in Registry!Enrollment /\ e # None /\ Carries(e)
  BY DEF RegistryInv, RegistryTypes, RoutesCarried, Registry!RegistryAssumption
<1>3. RosterAgrees'
  BY <1>1, AgreementKept DEF RegistryInv
<1>4. RegistryTypes'
  BY <1>1, <1>2 DEF RegistryInv, RegistryTypes, Registry!Enrollment
<1>5. UsedOnce' /\ RoutesCarried'
  BY <1>1, <1>2 DEF RegistryInv, UsedOnce, RoutesCarried, Carries
<1> QED BY <1>3, <1>4, <1>5 DEF RegistryInv

LEMMA AddRouteKeeps ==
  ASSUME Registry!RegistryAssumption, RegistryInv, NEW r \in Route, Registry!AddRoute(r)
  PROVE  RegistryInv'
<1>1. /\ added' = added \cup {r} /\ routes' = routes \cup {r}
      /\ raced' = IF Registry!Enrolling THEN raced \cup {r} ELSE raced
      /\ UNCHANGED <<active, staged, bus, replies, tokens, system, uses, linked, missed, changes>>
  BY DEF Registry!AddRoute, Registry!files, Registry!flight
<1>2. RosterAgrees'
  BY <1>1, AgreementKept DEF RegistryInv
<1>3. RegistryTypes' /\ UsedOnce'
  BY <1>1 DEF RegistryInv, RegistryTypes, UsedOnce
<1>4. RoutesCarried'
  <2>1. CASE Registry!Enrolling
    BY <1>1, <2>1 DEF RegistryInv, RoutesCarried, Carries
  <2>2. CASE ~Registry!Enrolling
    <3>1. replies = {} /\ \A i \in DOMAIN bus : bus[i].then = None
      BY <2>2 DEF Registry!Enrolling
    <3> QED BY <1>1, <2>2, <3>1 DEF RegistryInv, RoutesCarried, Carries
  <2> QED BY <2>1, <2>2
<1> QED BY <1>2, <1>3, <1>4 DEF RegistryInv

LEMMA WebRestartKeeps ==
  ASSUME Registry!RegistryAssumption, RegistryInv, Registry!WebRestart
  PROVE  RegistryInv'
<1> DEFINE cut(call) == [call EXCEPT !.then = None]
<1>1. /\ tokens' = {} /\ replies' = {}
      /\ bus' = [i \in DOMAIN bus |-> cut(bus[i])]
      /\ UNCHANGED <<active, staged, system, routes, added, raced, uses, linked, missed, changes>>
  BY DEF Registry!WebRestart, Registry!files, Registry!edge
<1>2. bus \in Seq(Call)
  BY DEF RegistryInv, RegistryTypes
<1>3. \A call \in Call : cut(call) \in Call /\ cut(call).roster = call.roster /\ cut(call).then = None
  BY DEF Call
<1> HIDE DEF cut
<1>4. bus' \in Seq(Call) /\ DOMAIN bus' = DOMAIN bus /\ Len(bus') = Len(bus) /\ (bus' = <<>> <=> bus = <<>>)
      /\ \A i \in DOMAIN bus : bus'[i].roster = bus[i].roster /\ bus'[i].then = None
  BY <1>1, <1>2, <1>3
<1>5. Registry!Ids(Registry!View)' = Registry!Ids(Registry!View) /\ Registry!Ids(active)' = Registry!Ids(active)
  BY <1>1 DEF Registry!View, Registry!Ids
<1>6. ASSUME NEW n \in Node \ missed
      PROVE  Agrees(n)'
  <2>1. Agrees(n)
    BY DEF RegistryInv, RosterAgrees
  <2>2. \A i \in DOMAIN bus : (n \in Registry!Ids(bus[i].roster))' <=> n \in Registry!Ids(bus[i].roster)
    BY <1>4 DEF Registry!Ids
  <2>3. bus # <<>> => Len(bus) \in DOMAIN bus
    BY <1>2
  <2>4. bus # <<>> => ((n \in Registry!Ids(bus[Len(bus)].roster))' <=> n \in Registry!Ids(bus[Len(bus)].roster))
    BY <1>4, <2>3 DEF Registry!Ids
  <2>5. staged' = None => \A i \in DOMAIN bus' : (n \in Registry!Ids(bus[i].roster))' <=> n \in Registry!Ids(active)'
    BY <1>1, <1>4, <1>5, <2>1, <2>2 DEF Agrees
  <2> QED BY <1>1, <1>4, <1>5, <2>1, <2>4, <2>5 DEF Agrees
<1>7. RosterAgrees'
  BY <1>1, <1>6 DEF RosterAgrees
<1>8. RegistryTypes'
  BY <1>1, <1>4 DEF RegistryInv, RegistryTypes
<1>9. UsedOnce' /\ RoutesCarried'
  BY <1>1, <1>4 DEF RegistryInv, UsedOnce, RoutesCarried, Carries
<1> QED BY <1>7, <1>8, <1>9 DEF RegistryInv

LEMMA TokenKeeps ==
  ASSUME Registry!RegistryAssumption, RegistryInv, NEW t \in JoinToken, Registry!GenerateToken(t)
  PROVE  RegistryInv'
<1>1. /\ uses[t] = 0 /\ tokens' = tokens \cup {t}
      /\ UNCHANGED <<active, staged, bus, replies, system, routes, added, raced, uses, linked, missed, changes>>
  BY DEF Registry!GenerateToken, Registry!files, Registry!flight, Registry!edge
<1>2. RosterAgrees'
  BY <1>1, AgreementKept DEF RegistryInv
<1>3. RegistryTypes' /\ UsedOnce' /\ RoutesCarried'
  BY <1>1 DEF RegistryInv, RegistryTypes, UsedOnce, RoutesCarried, Carries
<1> QED BY <1>2, <1>3 DEF RegistryInv

LEMMA JoinKeeps ==
  ASSUME Registry!RegistryAssumption, RegistryInv, NEW n \in Node,
         NEW role \in {"gateway_router", "edge_gateway"}, NEW t \in JoinToken \cup {Admin},
         Registry!Join(t, n, {role})
  PROVE  RegistryInv'
<1> DEFINE then == [node |-> n, link |-> IF "edge_gateway" \in {role} THEN routes ELSE None]
<1>1. /\ Registry!Validate(t)
      /\ Registry!SaveNodes([Registry!View EXCEPT ![n] = {role}], then)
      /\ UNCHANGED <<replies, routes, added, raced, linked, missed>>
  BY DEF Registry!Join, Registry!edge
<1>2. then \in Registry!Enrollment /\ (then.link # None => then.link = routes)
  BY DEF RegistryInv, RegistryTypes, Registry!Enrollment
<1> HIDE DEF then
<1>3. tokens' \subseteq JoinToken /\ UsedOnce'
  <2>1. CASE t = Admin
    <3>1. UNCHANGED <<tokens, uses>>
      BY <1>1, <2>1 DEF Registry!Validate, Registry!RegistryAssumption
    <3> QED BY <3>1 DEF RegistryInv, RegistryTypes, UsedOnce
  <2>2. CASE t \in JoinToken
    <3>1. t \in tokens /\ tokens' = tokens \ {t} /\ uses' = [uses EXCEPT ![t] = IF @ < 2 THEN @ + 1 ELSE @]
      BY <1>1, <2>2 DEF Registry!Validate, Registry!ConsumeToken, Registry!RegistryAssumption
    <3>2. uses \in [JoinToken -> 0 .. 1] /\ uses[t] = 0 /\ tokens \subseteq JoinToken
      BY <3>1 DEF RegistryInv, RegistryTypes, UsedOnce
    <3>3. uses' = [uses EXCEPT ![t] = 1]
      BY <3>1, <3>2
    <3> QED BY <3>1, <3>2, <3>3 DEF RegistryInv, UsedOnce
  <2> QED BY <2>1, <2>2
<1>4. {role} \in (SUBSET Registry!Role) \ {{}} /\ {role} # None
  BY DEF Registry!Role, Registry!RegistryAssumption
<1> QED BY <1>1, <1>2, <1>3, <1>4, SavingKeeps

LEMMA SaveNodeKeeps ==
  ASSUME Registry!RegistryAssumption, RegistryInv, NEW n \in Node, Registry!SaveNode(n, {"gateway_router"})
  PROVE  RegistryInv'
<1>1. /\ Registry!SaveNodes([Registry!View EXCEPT ![n] = {"gateway_router"}], None)
      /\ UNCHANGED <<replies, tokens, routes, added, raced, uses, linked, missed>>
  BY DEF Registry!SaveNode, Registry!edge
<1>2. tokens' \subseteq JoinToken /\ UsedOnce'
  BY <1>1 DEF RegistryInv, RegistryTypes, UsedOnce
<1>3. {"gateway_router"} \in (SUBSET Registry!Role) \ {{}} /\ {"gateway_router"} # None
  BY DEF Registry!Role, Registry!RegistryAssumption
<1> QED BY <1>1, <1>2, <1>3, SavingKeeps

LEMMA RemoveNodeKeeps ==
  ASSUME Registry!RegistryAssumption, RegistryInv, NEW n \in Node, Registry!RemoveNode(n)
  PROVE  RegistryInv'
<1>1. /\ Registry!SaveNodes([Registry!View EXCEPT ![n] = None], None)
      /\ linked' = linked \ {n}
      /\ UNCHANGED <<replies, tokens, routes, added, raced, uses, missed>>
  BY DEF Registry!RemoveNode, Registry!edge
<1>2. tokens' \subseteq JoinToken /\ UsedOnce'
  BY <1>1 DEF RegistryInv, RegistryTypes, UsedOnce
<1> QED BY <1>1, <1>2, SavingKeeps

LEMMA RegistryHolds ==
  ASSUME Registry!RegistryAssumption
  PROVE  Registry!Spec => [](Registry!TypeOK /\ Registry!EnrollmentHolds)
<1>1. ASSUME RegistryInv, [Registry!Next]_Registry!vars
      PROVE  RegistryInv'
  <2>1. CASE UNCHANGED Registry!vars
    <3>1. UNCHANGED <<active, staged, bus, replies, tokens, system, routes, added, raced, uses, linked, missed, changes>>
      BY <2>1 DEF Registry!vars, Registry!files, Registry!flight, Registry!edge
    <3>2. RosterAgrees'
      BY <1>1, <3>1, AgreementKept DEF RegistryInv
    <3>3. RegistryTypes' /\ UsedOnce' /\ RoutesCarried'
      BY <1>1, <3>1 DEF RegistryInv, RegistryTypes, UsedOnce, RoutesCarried, Carries
    <3> QED BY <3>2, <3>3 DEF RegistryInv
  <2>2. CASE Registry!Next
    BY <1>1, <2>2, SaveNodeKeeps, AdoptKeeps, JoinKeeps, RemoveNodeKeeps, DemoteKeeps, PromoteKeeps,
       TokenKeeps, DeliverKeeps, FailDeliveryKeeps, FinishKeeps, AddRouteKeeps, WebRestartKeeps,
       RegistryCommitKeeps, DiscardKeeps
       DEF Registry!Next
  <2> QED BY <1>1, <2>1, <2>2
<1>2. RegistryInv => Registry!TypeOK /\ Registry!EnrollmentHolds
  <2> SUFFICES ASSUME RegistryInv
               PROVE  Registry!TypeOK /\ Registry!EnrollmentHolds
    OBVIOUS
  <2>1. Registry!TokenAdmitsOneNode
    BY DEF RegistryInv, UsedOnce, Registry!TokenAdmitsOneNode
  <2>2. Registry!RosterKept
    BY DEF RegistryInv, RegistryTypes, RosterAgrees, Agrees, Registry!RosterKept
  <2>3. Registry!RoutesKept
    BY DEF RegistryInv, RoutesCarried, Registry!RoutesKept
  <2>4. uses \in [JoinToken -> 0 .. 2]
    BY DEF RegistryInv, UsedOnce
  <2>5. \A i \in DOMAIN bus : bus[i] \in Call
    BY DEF RegistryInv, RegistryTypes
  <2>6. \A i \in DOMAIN bus :
          bus[i].roster \in Registry!Roster /\ (bus[i].then = None \/ bus[i].then \in Registry!Enrollment)
    BY <2>5 DEF Call
  <2>7. Registry!TypeOK
    BY <2>4, <2>6 DEF RegistryInv, RegistryTypes, Registry!TypeOK
  <2> QED BY <2>1, <2>2, <2>3, <2>7 DEF Registry!EnrollmentHolds
<1> QED BY <1>1, <1>2, RegistryBegins, PTL DEF Registry!Spec

-----------------------------------------------------------------------------
(* The firewall. *)

\* What a check sets, until the daemon's configuration changes.
RoutesSet ==
  settled =>
    \A g \in Gateway : \A j \in Firewall!Latest(config.gateways, g) \cap Firewall!Others(config) :
      Firewall!Mark(config, j) \in rule
      /\ route[Firewall!Mark(config, j)] = config.gateways[j].interface

FirewallInv == Firewall!TypeOK /\ RoutesSet

LEMMA Least ==
  ASSUME NEW T, T \subseteq Nat, T # {}
  PROVE  \E x \in T : \A y \in T : x <= y
<1> DEFINE R == OpToRel(<, Nat)
<1>1. IsWellFoundedOn(R, Nat)
  BY NatLessThanWellFounded
<1>2. \A x, y \in Nat : <<y, x>> \in R <=> y < x
  BY DEF OpToRel
<1> HIDE DEF R
<1>3. \E x \in T : \A y \in T : <<y, x>> \notin R
  BY <1>1, WFMin
<1>4. PICK x \in T : \A y \in T : <<y, x>> \notin R
  BY <1>3
<1>5. \A y \in T : x <= y
  <2>1. ASSUME NEW y \in T PROVE x <= y
    <3>1. x \in Nat /\ y \in Nat
      OBVIOUS
    <3>2. ~(y < x)
      BY <1>2, <1>4, <3>1
    <3> QED BY <3>1, <3>2
  <2> QED BY <2>1
<1> QED BY <1>5

LEMMA Greatest ==
  ASSUME NEW n \in Nat, NEW T, T \subseteq 1 .. n, T # {}
  PROVE  \E x \in T : \A y \in T : y <= x
<1> DEFINE U == {m \in Nat : \A y \in T : y <= m}
<1>1. n \in U
  OBVIOUS
<1>2. PICK m \in U : \A k \in U : m <= k
  <2>1. U # {} /\ U \subseteq Nat
    BY <1>1
  <2> HIDE DEF U
  <2> QED BY <2>1, Least
<1>3. m \in T
  <2> SUFFICES ASSUME m \notin T PROVE FALSE
    OBVIOUS
  <2>1. \A y \in T : y \in Nat /\ y <= m - 1
    BY <1>2
  <2>2. m - 1 \in Nat
    <3>1. PICK y \in T : TRUE
      OBVIOUS
    <3>2. y \in 1 .. n /\ y <= m /\ y # m /\ m \in Nat
      BY <1>2, <3>1
    <3> QED BY <3>2
  <2> QED BY <1>2, <2>1, <2>2
<1> QED BY <1>2, <1>3
LEMMA SameCardinality == ASSUME NEW S PROVE Firewall!Cardinality(S) = Cardinality(S)
  BY DEF Firewall!Cardinality, Cardinality

\* Two gateways never share a number.
LEMMA MarksApart ==
  ASSUME Firewall!FirewallAssumption, NEW c \in Config,
         NEW i \in Firewall!Others(c), NEW j \in Firewall!Others(c),
         Firewall!Mark(c, i) = Firewall!Mark(c, j)
  PROVE  i = j
<1> DEFINE S(n) == {k \in Firewall!Others(c) : k <= n}
<1>1. c.gateways \in Seq([id : Gateway, interface : Iface])
  BY DEF Firewall!FirewallAssumption
<1>2. DOMAIN c.gateways = 1 .. Len(c.gateways) /\ Len(c.gateways) \in Nat
  BY <1>1
<1>3. IsFiniteSet(DOMAIN c.gateways) /\ Firewall!Others(c) \subseteq DOMAIN c.gateways
  BY <1>2, FS_Interval DEF Firewall!Others
<1>4. i \in Nat /\ j \in Nat /\ Firewall!Others(c) \subseteq Nat
  BY <1>2, <1>3
<1>5. \A n \in Nat : IsFiniteSet(S(n)) /\ Cardinality(S(n)) \in Nat
  <2>1. ASSUME NEW n \in Nat
        PROVE  IsFiniteSet(S(n)) /\ Cardinality(S(n)) \in Nat
    <3>1. S(n) \subseteq DOMAIN c.gateways
      BY <1>3
    <3>2. IsFiniteSet(S(n))
      BY <1>3, <3>1, FS_Subset
    <3> QED BY <3>2, FS_CardinalityType
  <2> QED BY <2>1
<1>6. Cardinality(S(i)) = Cardinality(S(j))
  <2>1. 99 + Cardinality(S(i)) = 99 + Cardinality(S(j))
    BY SameCardinality DEF Firewall!Mark
  <2>2. Cardinality(S(i)) \in Nat /\ Cardinality(S(j)) \in Nat
    BY <1>4, <1>5
  <2> HIDE DEF S
  <2> QED BY <2>1, <2>2
<1>7. S(i) = S(j)
  <2>1. CASE i <= j
    <3>1. S(i) \subseteq S(j)
      BY <1>4, <2>1
    <3> QED BY <1>4, <1>5, <1>6, <3>1, FS_Subset
  <2>2. CASE j <= i
    <3>1. S(j) \subseteq S(i)
      BY <1>4, <2>2
    <3> QED BY <1>4, <1>5, <1>6, <3>1, FS_Subset
  <2> QED BY <1>4, <2>1, <2>2
<1>8. i \in S(i) /\ j \in S(j)
  BY <1>4
<1> QED BY <1>4, <1>7, <1>8

\* The numbers of an id are that of its last gateway.
LEMMA MarkIsLatest ==
  ASSUME Firewall!FirewallAssumption, NEW c \in Config, NEW g,
         NEW j \in Firewall!Latest(c.gateways, g) \cap Firewall!Others(c)
  PROVE  /\ Firewall!MarkOf(c, g) = {Firewall!Mark(c, j)}
         /\ c.gateways[j] \in [id : Gateway, interface : Iface] /\ c.gateways[j].id = g
         /\ Firewall!Mark(c, j) \in Firewall!Marks
<1>1. c.gateways \in Seq([id : Gateway, interface : Iface])
  BY DEF Firewall!FirewallAssumption
<1>2. DOMAIN c.gateways \subseteq Nat
  BY <1>1
<1>3. \A k \in Firewall!Latest(c.gateways, g) : k = j
  BY <1>2 DEF Firewall!Latest
<1>4. Firewall!MarkOf(c, g) = {Firewall!Mark(c, j)}
  BY <1>3 DEF Firewall!MarkOf
<1>5. j \in DOMAIN c.gateways /\ c.gateways[j].id = g
  BY DEF Firewall!Latest
<1>6. c.gateways[j] \in [id : Gateway, interface : Iface]
  <2> DEFINE Entry == [id : Gateway, interface : Iface]
  <2>1. \A list \in Seq(Entry) : \A k \in DOMAIN list : list[k] \in Entry
    <3> HIDE DEF Entry
    <3> QED OBVIOUS
  <2> QED BY <1>1, <1>5, <2>1
<1>7. Firewall!Mark(c, j) \in Firewall!Marks
  BY DEF Firewall!Marks
<1> QED BY <1>4, <1>5, <1>6, <1>7

LEMMA CheckSets ==
  ASSUME Firewall!FirewallAssumption, FirewallInv, Firewall!Check
  PROVE  FirewallInv'
<1>0. config \in Config /\ route \in [Firewall!Marks -> Iface \cup {None}] /\ rule \subseteq Firewall!Marks
  BY DEF FirewallInv, Firewall!TypeOK
<1>1. PICK routed \in SUBSET Firewall!Others(config), ruled \in SUBSET Firewall!Others(config) :
        /\ route' = [m \in Firewall!Marks |->
             LET set == {j \in routed : m \in Firewall!MarkOf(config, config.gateways[j].id)}
             IN  IF set = {} THEN route[m]
                 ELSE config.gateways[CHOOSE j \in set : \A k \in set : k <= j].interface]
        /\ rule' = rule \cup UNION {Firewall!MarkOf(config, config.gateways[j].id) : j \in ruled}
        /\ settled' = (routed = Firewall!Others(config) /\ ruled = Firewall!Others(config))
        /\ UNCHANGED <<disk, config, text, kernel>>
  BY DEF Firewall!Check, Firewall!Tables
<1> DEFINE set(m) == {j \in routed : m \in Firewall!MarkOf(config, config.gateways[j].id)}
           last(m) == CHOOSE j \in set(m) : \A k \in set(m) : k <= j
<1>2. config.gateways \in Seq([id : Gateway, interface : Iface])
      /\ Firewall!Others(config) \subseteq DOMAIN config.gateways
  BY <1>0 DEF Firewall!FirewallAssumption, Firewall!Others
<1>3. DOMAIN config.gateways \subseteq 1 .. Len(config.gateways) /\ Len(config.gateways) \in Nat
  BY <1>2
<1>4. \A m \in Firewall!Marks :
        route'[m] = IF set(m) = {} THEN route[m] ELSE config.gateways[last(m)].interface
  BY <1>1
\* The last of several is one of them.
<1>5. \A m \in Firewall!Marks : set(m) # {} => last(m) \in set(m) /\ \A k \in set(m) : k <= last(m)
  <2> SUFFICES ASSUME NEW m \in Firewall!Marks, set(m) # {}
               PROVE  \E j \in set(m) : \A k \in set(m) : k <= j
    OBVIOUS
  <2>1. set(m) \subseteq 1 .. Len(config.gateways)
    BY <1>2, <1>3
  <2> HIDE DEF set
  <2> QED BY <1>3, <2>1, Greatest
<1>6. \A j \in routed : config.gateways[j].interface \in Iface
  <2> DEFINE Entry == [id : Gateway, interface : Iface]
  <2>1. \A list \in Seq(Entry) : \A k \in DOMAIN list : list[k] \in Entry
    <3> HIDE DEF Entry
    <3> QED OBVIOUS
  <2>2. \A j \in routed : config.gateways[j] \in Entry
    BY <1>2, <2>1
  <2> QED BY <2>2
<1>7. route' \in [Firewall!Marks -> Iface \cup {None}]
  <2>1. DOMAIN route' = Firewall!Marks /\ route' = [m \in Firewall!Marks |-> route'[m]]
    BY <1>1
  <2>2. \A m \in Firewall!Marks : route'[m] \in Iface \cup {None}
    <3>1. \A m \in Firewall!Marks : set(m) # {} => last(m) \in routed
      BY <1>5
    <3> HIDE DEF set, last
    <3> QED BY <1>0, <1>4, <1>6, <3>1
  <2> QED BY <2>1, <2>2
<1>8. rule' \subseteq Firewall!Marks
  <2>1. \A g : Firewall!MarkOf(config, g) \subseteq Firewall!Marks
    BY <1>0 DEF Firewall!MarkOf, Firewall!Marks
  <2> QED BY <1>0, <1>1, <2>1
<1>9. Firewall!TypeOK'
  BY <1>0, <1>1, <1>7, <1>8 DEF FirewallInv, Firewall!TypeOK
<1>10. ASSUME settled', NEW g \in Gateway,
              NEW j \in Firewall!Latest(config.gateways, g) \cap Firewall!Others(config)
       PROVE  /\ Firewall!Mark(config, j) \in rule'
              /\ route'[Firewall!Mark(config, j)] = config.gateways[j].interface
  <2> DEFINE n == Firewall!Mark(config, j)
  <2>1. routed = Firewall!Others(config) /\ ruled = Firewall!Others(config)
    BY <1>1, <1>10
  <2>2. Firewall!MarkOf(config, g) = {n} /\ config.gateways[j].id = g /\ n \in Firewall!Marks
    BY <1>0, MarkIsLatest
  <2>3. j \in set(n)
    BY <2>1, <2>2
  <2>4. \A k \in set(n) : k <= j
    <3>1. ASSUME NEW k \in set(n) PROVE k <= j
      <4>1. PICK l \in Firewall!Latest(config.gateways, config.gateways[k].id) \cap Firewall!Others(config) :
              Firewall!Mark(config, l) = n
        BY DEF Firewall!MarkOf
      <4>2. l = j
        BY <1>0, <4>1, MarksApart
      <4>3. config.gateways[k].id = g /\ k \in DOMAIN config.gateways
        BY <1>2, <2>2, <4>2 DEF Firewall!Latest
      <4> QED BY <4>3 DEF Firewall!Latest
    <3> QED BY <3>1
  <2>5. last(n) = j
    <3>1. last(n) \in set(n) /\ \A k \in set(n) : k <= last(n)
      BY <1>5, <2>2, <2>3
    <3>2. last(n) <= j /\ j <= last(n)
      BY <2>3, <2>4, <3>1
    <3>3. last(n) \in Nat /\ j \in Nat
      BY <1>2, <1>3, <2>3, <3>1
    <3> HIDE DEF last
    <3> QED BY <3>2, <3>3
  <2>6. route'[n] = config.gateways[j].interface
    BY <1>4, <2>2, <2>3, <2>5
  <2>7. n \in rule'
    BY <1>1, <2>1, <2>2
  <2> QED BY <2>6, <2>7
<1>11. RoutesSet'
  BY <1>1, <1>10 DEF RoutesSet
<1> QED BY <1>9, <1>11 DEF FirewallInv

LEMMA FirewallInductive ==
  ASSUME Firewall!FirewallAssumption
  PROVE  /\ Firewall!Init => FirewallInv
         /\ FirewallInv /\ [Firewall!Next]_Firewall!vars => FirewallInv'
<1>1. ASSUME Firewall!Init PROVE FirewallInv
  BY <1>1 DEF Firewall!Init, FirewallInv, Firewall!TypeOK, RoutesSet
<1>2. ASSUME FirewallInv, [Firewall!Next]_Firewall!vars PROVE FirewallInv'
  <2>1. CASE Firewall!Edit
    BY <1>2, <2>1 DEF Firewall!Edit, FirewallInv, Firewall!TypeOK, RoutesSet
  <2>2. CASE Firewall!Reload
    BY <1>2, <2>2 DEF Firewall!Reload, Firewall!Apply, FirewallInv, Firewall!TypeOK, RoutesSet
  <2>3. CASE Firewall!Check
    BY <1>2, <2>3, CheckSets
  <2>4. CASE Firewall!Reboot
    <3>1. text' \in Config \cup {None} /\ kernel' \in Config \cup {None}
      BY <1>2, <2>4 DEF Firewall!Reboot, FirewallInv, Firewall!TypeOK
    <3> QED BY <1>2, <2>4, <3>1 DEF Firewall!Reboot, FirewallInv, Firewall!TypeOK, RoutesSet
  <2>5. CASE UNCHANGED Firewall!vars
    BY <1>2, <2>5 DEF Firewall!vars, FirewallInv, Firewall!TypeOK, RoutesSet
  <2> QED BY <1>2, <2>1, <2>2, <2>3, <2>4, <2>5 DEF Firewall!Next
<1> QED BY <1>1, <1>2

\* A device's own gateway is where its packets are sent.
LEMMA OverrideCarried ==
  ASSUME Firewall!FirewallAssumption, FirewallInv, settled, text = config, NEW m \in Mac,
         NEW j \in Firewall!OwnGateways(config, m)
  PROVE  Firewall!Exits(config, m) = {config.gateways[j].interface}
<1>1. config \in Config
  BY DEF FirewallInv, Firewall!TypeOK
<1> DEFINE n == Firewall!Mark(config, j)
<1>2. /\ Firewall!Stamp(config, m) = {n}
      /\ config.gateways[j] \in [id : Gateway, interface : Iface]
      /\ config.gateways[j].id = config.override[m]
  BY <1>1, MarkIsLatest DEF Firewall!Stamp, Firewall!OwnGateways
<1>3. config.override[m] \in Gateway /\ config.gateways[j].interface # None
  BY <1>2 DEF Firewall!FirewallAssumption
<1>4. n \in rule /\ route[n] = config.gateways[j].interface
  BY <1>3 DEF FirewallInv, RoutesSet, Firewall!OwnGateways
<1>5. Firewall!Looked(config, m) = {n}
  BY <1>2, <1>3, <1>4 DEF Firewall!Looked
<1> QED BY <1>4, <1>5 DEF Firewall!Exits

\* A device without one is sent to the WAN.
LEMMA OthersToWan ==
  ASSUME NEW m \in Mac, Firewall!OwnGateways(config, m) = {}
  PROVE  Firewall!Exits(config, m) = {Wan}
BY DEF Firewall!Exits, Firewall!Looked, Firewall!Stamp, Firewall!MarkOf, Firewall!OwnGateways

\* What the chain accepts between two interfaces.
LEMMA AcceptedPairs ==
  ASSUME Firewall!FirewallAssumption, NEW c \in Config, NEW a \in Firewall!Accepts(c)
  PROVE  /\ a[1] = Wan => Firewall!ZonesOf(c, Wan) # {}
         /\ Firewall!Isolated(c, a[1]) => a[2] = Wan
         /\ a[2] # Wan => Firewall!Known(c, a[2])
<1>1. DOMAIN c.local \subseteq Iface \ {Wan}
      /\ \A i \in DOMAIN c.local : c.local[i] \in BOOLEAN
  BY DEF Firewall!FirewallAssumption
<1>2. CASE c.zones = <<>>
  <2>1. a \in (Firewall!Local(c) \X {Wan}) \cup (Firewall!Lan(c) \X Firewall!Guest(c))
    BY <1>2 DEF Firewall!Accepts
  <2>2. /\ a[1] \in DOMAIN c.local /\ (a[2] = Wan \/ ~c.local[a[1]])
        /\ a[2] # Wan => a[2] \in DOMAIN c.local
    BY <2>1 DEF Firewall!Local, Firewall!Lan, Firewall!Guest
  <2>3. Firewall!Isolated(c, a[1]) => c.local[a[1]]
    BY <1>2 DEF Firewall!Isolated, Firewall!Guest
  <2> QED BY <1>1, <2>2, <2>3 DEF Firewall!Known, Firewall!Local
<1>3. CASE c.zones # <<>>
  <2>1. PICK k \in DOMAIN c.zones : a \in Firewall!ZoneAccepts(c, c.zones[k])
    BY <1>3 DEF Firewall!Accepts
  <2> DEFINE z == c.zones[k]
  <2>2. z.id # "wan" /\ a[1] \in z.interfaces
        /\ (z.allow = {} => (a[2] = Wan \/ (~z.isolate /\ a[2] \in Firewall!Local(c))))
    BY <2>1 DEF Firewall!ZoneAccepts
  <2>3. z.allow # {} /\ a[2] # Wan => Firewall!Known(c, a[2])
    <3> SUFFICES ASSUME z.allow # {}, a[2] # Wan PROVE Firewall!Known(c, a[2])
      OBVIOUS
    <3>1. PICK id \in z.allow : \E l \in Firewall!Latest(c.zones, id) : a[2] \in c.zones[l].interfaces
      BY <2>1, <2>2 DEF Firewall!ZoneAccepts
    <3> QED BY <3>1 DEF Firewall!Known, Firewall!Latest
  <2>4. z \in Firewall!ZonesOf(c, a[1])
    BY <2>2 DEF Firewall!ZonesOf
  <2>5. Firewall!Isolated(c, a[1]) => z.isolate /\ z.allow = {}
    BY <1>3, <2>4 DEF Firewall!Isolated
  <2> QED BY <2>2, <2>3, <2>4, <2>5 DEF Firewall!Known
<1> QED BY <1>2, <1>3

\* Networks are kept apart, and what is opened is sent where it should be.
LEMMA PolicyFollows ==
  ASSUME Firewall!FirewallAssumption, FirewallInv
  PROVE  Firewall!PolicyHolds
<1>1. config \in Config /\ (text # None => text \in Config)
  BY DEF FirewallInv, Firewall!TypeOK
<1>2. Firewall!NetworksApart
  BY <1>1, AcceptedPairs DEF Firewall!NetworksApart
<1>3. Firewall!SentByGateway
  <2> SUFFICES ASSUME settled, text = config, NEW m \in Mac
               PROVE  /\ \A j \in Firewall!OwnGateways(config, m) :
                           Firewall!Exits(config, m) = {config.gateways[j].interface}
                      /\ \A e \in Firewall!Exits(config, m) : \A p \in Firewall!Opened(e) :
                           Firewall!Passes(config, p) =>
                             /\ e # Wan => Firewall!Known(config, e)
                             /\ p.sets # {} => Firewall!OwnGateways(config, m) # {}
    BY DEF Firewall!SentByGateway
  <2>1. ASSUME NEW e \in Firewall!Exits(config, m), NEW p \in Firewall!Opened(e),
               Firewall!Passes(config, p)
        PROVE  /\ e # Wan => Firewall!Known(config, e)
               /\ p.sets # {} => Firewall!OwnGateways(config, m) # {}
    <3>1. p.to = e /\ <<p.from, e>> \in Firewall!Accepts(config) /\ ~Firewall!Dropped(config, p)
      BY <2>1 DEF Firewall!Opened, Firewall!Passes
    <3>2. e # Wan => Firewall!Known(config, e)
      BY <1>1, <3>1, AcceptedPairs
    <3>3. ASSUME Firewall!OwnGateways(config, m) = {} PROVE p.sets = {}
      <4>1. e = Wan
        BY <2>1, <3>3, OthersToWan
      <4>2. p.sets \subseteq {"quarantined", "schedule_blocked", "admin_blocked", "blocked_clients"}
        BY DEF Firewall!Opened
      <4> QED BY <3>1, <4>1, <4>2 DEF Firewall!Dropped
    <3> QED BY <3>2, <3>3
  <2> QED BY <2>1, OverrideCarried
<1> QED BY <1>2, <1>3 DEF Firewall!PolicyHolds

LEMMA FirewallHolds ==
  ASSUME Firewall!FirewallAssumption
  PROVE  Firewall!Spec => [](Firewall!TypeOK /\ Firewall!PolicyHolds)
<1>1. Firewall!Init => FirewallInv
  BY FirewallInductive
<1>2. FirewallInv /\ [Firewall!Next]_Firewall!vars => FirewallInv'
  BY FirewallInductive
<1>3. FirewallInv => Firewall!TypeOK /\ Firewall!PolicyHolds
  BY PolicyFollows DEF FirewallInv
<1> QED BY <1>1, <1>2, <1>3, PTL DEF Firewall!Spec

-----------------------------------------------------------------------------
(* The whole and its parts. *)

\* A step of the whole is one of its part.
LEMMA PartSteps ==
  ASSUME Next
  PROVE  /\ part' = part
         /\ part = "Gateways" => Gateways!Next
         /\ part = "Registry" => Registry!Next
         /\ part = "Firewall" => Firewall!Next
  BY DEF Next, HouseholdStep, GatewaysStep, TokensStep, RegistryStep, SyncStep, AlertingStep, AppsStep,
       BackupStep, SessionsStep, AccountsStep, CertsStep, SetupStep, UpdatesStep, SettingsStep,
       FirewallStep, BuildsStep, Rest

\* A behaviour of the whole is one of Gateways, or never its own.
LEMMA GatewaysPart == Spec => (Gateways!Spec /\ [](part = "Gateways")) \/ []~(part = "Gateways")
<1>1. Init /\ part = "Gateways" => Gateways!Init
  BY DEF Init
<1>2. [Next]_vars => part' = part /\ (part = "Gateways" => [Gateways!Next]_Gateways!vars)
  <2>1. ASSUME UNCHANGED vars
        PROVE  part' = part /\ UNCHANGED Gateways!vars
    BY <2>1 DEF vars, GatewaysOwn, Shared, Gateways!vars
  <2> QED BY <2>1, PartSteps
<1>3. [Next]_vars /\ part = "Gateways" => (part = "Gateways")' /\ [Gateways!Next]_Gateways!vars
  BY <1>2
<1>4. [Next]_vars /\ ~(part = "Gateways") => (~(part = "Gateways"))'
  BY <1>2
<1> QED BY <1>1, <1>3, <1>4, PTL DEF Spec, Gateways!Spec

\* A behaviour of the whole is one of Registry, or never its own.
LEMMA RegistryPart == Spec => (Registry!Spec /\ [](part = "Registry")) \/ []~(part = "Registry")
<1>1. Init /\ part = "Registry" => Registry!Init
  BY DEF Init
<1>2. [Next]_vars => part' = part /\ (part = "Registry" => [Registry!Next]_Registry!vars)
  <2>1. ASSUME UNCHANGED vars
        PROVE  part' = part /\ UNCHANGED Registry!vars
    BY <2>1 DEF vars, RegistryOwn, Shared, Registry!vars, Registry!files, Registry!flight,
       Registry!edge
  <2> QED BY <2>1, PartSteps
<1>3. [Next]_vars /\ part = "Registry" => (part = "Registry")' /\ [Registry!Next]_Registry!vars
  BY <1>2
<1>4. [Next]_vars /\ ~(part = "Registry") => (~(part = "Registry"))'
  BY <1>2
<1> QED BY <1>1, <1>3, <1>4, PTL DEF Spec, Registry!Spec

\* A behaviour of the whole is one of Firewall, or never its own.
LEMMA FirewallPart == Spec => (Firewall!Spec /\ [](part = "Firewall")) \/ []~(part = "Firewall")
<1>1. Init /\ part = "Firewall" => Firewall!Init
  BY DEF Init
<1>2. [Next]_vars => part' = part /\ (part = "Firewall" => [Firewall!Next]_Firewall!vars)
  <2>1. ASSUME UNCHANGED vars
        PROVE  part' = part /\ UNCHANGED Firewall!vars
    BY <2>1 DEF vars, FirewallOwn, Shared, Firewall!vars
  <2> QED BY <2>1, PartSteps
<1>3. [Next]_vars /\ part = "Firewall" => (part = "Firewall")' /\ [Firewall!Next]_Firewall!vars
  BY <1>2
<1>4. [Next]_vars /\ ~(part = "Firewall") => (~(part = "Firewall"))'
  BY <1>2
<1> QED BY <1>1, <1>3, <1>4, PTL DEF Spec, Firewall!Spec

-----------------------------------------------------------------------------
(* Results. *)

\* Every part keeps the types of its variables, whatever it does: the whole has the type
\* invariant that the runs check.
THEOREM TypeCorrect == Spec => []TypeOK
<1>1. Gateways!Spec => [](Gateways!TypeOK /\ Gateways!AddressesDistinct)
  BY GatewaysHold, ComponentsAssumption
<1>2. Registry!Spec => [](Registry!TypeOK /\ Registry!EnrollmentHolds)
  BY RegistryHolds, ComponentsAssumption
<1>3. Firewall!Spec => [](Firewall!TypeOK /\ Firewall!PolicyHolds)
  BY FirewallHolds, ComponentsAssumption
<1>4. Spec => [](part = "Gateways" => Gateways!TypeOK)
  BY <1>1, GatewaysPart, PTL
<1>5. Spec => [](part = "Registry" => Registry!TypeOK)
  BY <1>2, RegistryPart, PTL
<1>6. Spec => [](part = "Firewall" => Firewall!TypeOK)
  BY <1>3, FirewallPart, PTL
<1>7. Spec => [](part = "Sync" => Sync!TypeOK)
  BY SyncPart, SyncHolds, PTL
<1>8. /\ part = "Gateways" => Gateways!TypeOK
      /\ part = "Registry" => Registry!TypeOK
      /\ part = "Firewall" => Firewall!TypeOK
      /\ part = "Sync" => Sync!TypeOK
      /\ HouseholdTyped /\ ServicesTyped /\ AccessTyped
      => TypeOK
  BY DEF HouseholdTyped, ServicesTyped, AccessTyped, TypeOK
<1> QED
  BY <1>4, <1>5, <1>6, <1>7, <1>8, HouseholdTypes, ServicesTypes, AccessTypes, PTL

\* No gateway, in any copy of the configuration, and no hub has two peers with one
\* address, and none has the home server's, whatever is staged, committed, discarded,
\* connected anew or written by the command line in between.
THEOREM AddressesStayDistinct == Spec => []AddressesDistinct
<1>1. Gateways!Spec => [](Gateways!TypeOK /\ Gateways!AddressesDistinct)
  BY GatewaysHold, ComponentsAssumption
<1> QED BY GatewaysPart, <1>1, PTL DEF AddressesDistinct

\* Whatever is saved, enrolled, adopted, promoted, committed, discarded or restarted, and
\* however late the daemon answers, a token admits one node, a node told that it is on
\* the roster is kept there, and an enrollment loses no route made before it (join_cluster
\* and its callers, services/cluster.py).
THEOREM EnrollmentKept == Spec => []EnrollmentHolds
<1>1. Registry!Spec => [](Registry!TypeOK /\ Registry!EnrollmentHolds)
  BY RegistryHolds, ComponentsAssumption
<1> QED BY RegistryPart, <1>1, PTL DEF EnrollmentHolds

\* (FirewallManager.compile_ruleset, setup_policy_routing)  Whatever was edited, reloaded,
\* refused or restarted, and for any gateways, zones and devices: the compiled chain keeps
\* the networks apart, and after a check without a failed command what a device with a
\* gateway of its own opens is sent there and not to the WAN.  (Whether it is let through is
\* the zones' affair, and whether the text loads, another run's.)
THEOREM PolicyKept == Spec => []PolicyHolds
<1>1. Firewall!Spec => [](Firewall!TypeOK /\ Firewall!PolicyHolds)
  BY FirewallHolds, ComponentsAssumption
<1> QED BY FirewallPart, <1>1, PTL DEF PolicyHolds
=============================================================================
