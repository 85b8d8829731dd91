--------------------------- MODULE ClusterRegistry ---------------------------
(***************************************************************************)
(* The roster of a cluster (services/cluster.py of the web application,    *)
(* cluster_manager.py, the daemon's SaveNodes, the cluster commands):      *)
(* pairing tokens, enrollment, promotion, and the file nodes.yaml, which   *)
(* the web application stages and at the same time has the daemon save as  *)
(* the active one.                                                         *)
(*                                                                         *)
(* Names, addresses, interfaces and certificates are not kept; of the      *)
(* network configuration, the routes of the gateway edge-01.  ClusterSync  *)
(* has the heartbeats, the commands and the replicas.                      *)
(***************************************************************************)
EXTENDS Naturals, Sequences

CONSTANTS
  Node, Token, Route,
  Admin,      \* the session of an administrator, accepted in place of a token
  None,       \* not on the roster, no staged file, nothing to link
  Controller, \* the node the cluster begins with
  Epoch,      \* the epoch it begins with
  MaxChanges  \* bound: requests that change the roster

VARIABLES
  active, staged,  \* nodes.yaml of the two directories: roles by node
  bus,             \* calls of save_nodes the daemon has not answered
  replies,         \* enrollments whose handler goes on after the daemon's answer
  tokens,          \* join tokens in the memory of the web process
  system,          \* epoch and accounts in the view of system.yaml
  routes,          \* the ingress routes of edge-01 in the view of network.yaml
  uses,            \* history: enrollments by token
  linked,          \* nodes that recorded their controller, and were not removed
  missed,          \* history: nodes in a call that the daemon failed, or that a commit
                   \* or a discard overtook, or adopted with calls under way without them
  added, raced,    \* history: routes made, and those made during an enrollment
  changes

files == <<active, staged>>
flight == <<bus, replies>>
edge == <<routes, added, raced>>
vars == <<files, flight, tokens, system, edge, uses, linked, missed, changes>>

Role == {"controller", "gateway_router", "edge_gateway"}
Roster == [Node -> ((SUBSET Role) \ {{}}) \cup {None}]
Enrollment == [node : Node, link : (SUBSET Route) \cup {None}]

RegistryAssumption ==
  /\ Epoch \in Nat \ {0} /\ MaxChanges \in Nat
  /\ Admin \notin Token /\ Controller \in Node
  /\ \A s \in (SUBSET Role) \cup (SUBSET Route) : s # None
  /\ None \notin Roster /\ None \notin Enrollment

TypeOK ==
  /\ active \in Roster
  /\ staged = None \/ staged \in Roster
  /\ \A i \in DOMAIN bus : bus[i].roster \in Roster
  /\ \A i \in DOMAIN bus : bus[i].then = None \/ bus[i].then \in Enrollment
  /\ replies \subseteq Enrollment
  /\ tokens \subseteq Token /\ uses \in [Token -> 0 .. 2]
  /\ system \in [epoch : {1, Epoch}, accounts : BOOLEAN]
  /\ routes \subseteq Route /\ added \subseteq Route /\ raced \subseteq Route
  /\ linked \subseteq Node /\ missed \subseteq Node
  /\ changes \in 0 .. MaxChanges

-----------------------------------------------------------------------------
(* The roster. *)

Ids(roster) == {n \in Node : roster[n] # None}
View == IF staged = None THEN active ELSE staged

\* This node among the others: what the status reports.
PrimaryRole(roster, n) ==
  IF roster[n] = None \/ "controller" \notin roster[n] THEN "node"
  ELSE IF Ids(roster) = {n} THEN "standalone" ELSE "controller"

Counted == changes < MaxChanges /\ changes' = changes + 1

\* The view with the change is staged, and the same list goes to the daemon.
SaveNodes(roster, then) ==
  /\ Counted
  /\ staged' = roster
  /\ bus' = Append(bus, [roster |-> roster, then |-> then])
  /\ UNCHANGED <<active, system>>

SaveNode(n, roles) ==
  /\ SaveNodes([View EXCEPT ![n] = roles], None)
  /\ UNCHANGED <<replies, tokens, edge, uses, linked, missed>>

RemoveNode(n) ==
  /\ n \in Ids(View)
  /\ SaveNodes([View EXCEPT ![n] = None], None)
  /\ linked' = linked \ {n}
  /\ UNCHANGED <<replies, tokens, edge, uses, missed>>

\* SaveNodes of the daemon: the list is saved and loaded; the reply lets an
\* enrollment go on.
Answer ==
  /\ bus # <<>>
  /\ bus' = Tail(bus)
  /\ replies' = IF Head(bus).then = None THEN replies ELSE replies \cup {Head(bus).then}

Deliver ==
  /\ Answer
  /\ active' = Head(bus).roster
  /\ UNCHANGED <<staged, tokens, system, edge, uses, linked, missed, changes>>

\* The daemon is not there, or fails to save; the web application does not mind.
FailDelivery ==
  /\ Answer
  /\ missed' = missed \cup (Ids(Head(bus).roster) \ Ids(active))
  /\ UNCHANGED <<files, tokens, system, edge, uses, linked, changes>>

-----------------------------------------------------------------------------
(* Tokens and enrollment. *)

GenerateToken(t) ==
  /\ t \notin tokens /\ uses[t] = 0
  /\ tokens' = tokens \cup {t}
  /\ UNCHANGED <<files, flight, system, edge, uses, linked, missed, changes>>

\* Mutant: a valid token stays.
AcceptToken(t) ==
  /\ t \in tokens
  /\ tokens' = tokens

ConsumeToken(t) ==
  /\ t \in tokens
  /\ tokens' = tokens \ {t}

\* validate_join_token: an administrator's session, else a token, once.  The web
\* application gives its copy of the token no end of life, and the daemon, which has
\* one too, is never asked.
Validate(t) ==
  \/ t = Admin /\ UNCHANGED <<tokens, uses>>
  \/ t \in Token /\ ConsumeToken(t) /\ uses' = [uses EXCEPT ![t] = IF @ < 2 THEN @ + 1 ELSE @]

\* join_cluster up to the call: the network is read with the roster.  The node chooses
\* its id and its roles.
Join(t, n, roles) ==
  /\ Validate(t)
  /\ SaveNodes([View EXCEPT ![n] = roles],
               [node |-> n, link |-> IF "edge_gateway" \in roles THEN routes ELSE None])
  /\ UNCHANGED <<replies, edge, linked, missed>>

\* The gateway record is written with the routes it had when the network was read.
Linked(link) == link

\* ... and its end: the gateway's record, and the answer, which the joining node may
\* never see.  A node that sees it records its controller.
Finish(e, answered) ==
  /\ e \in replies
  /\ replies' = replies \ {e}
  /\ routes' = IF e.link = None THEN routes ELSE Linked(e.link)
  /\ linked' = IF answered /\ e.node \in Ids(View) THEN linked \cup {e.node} ELSE linked
  /\ UNCHANGED <<files, bus, tokens, system, added, raced, uses, missed, changes>>

Enrolling == \/ \E i \in DOMAIN bus : bus[i].then # None
             \/ replies # {}

\* A route is made on the edge page.
AddRoute(r) ==
  /\ r \notin added
  /\ added' = added \cup {r} /\ routes' = routes \cup {r}
  /\ raced' = IF Enrolling THEN raced \cup {r} ELSE raced
  /\ UNCHANGED <<files, flight, tokens, system, uses, linked, missed, changes>>

Adopted(n, role) == [active EXCEPT ![n] = IF @ = None THEN {role} ELSE @ \cup {role}]

\* The adopt command rewrites the active file.  (The token command makes a token in a
\* memory of its own: nobody accepts it.)
Adopt(n, role) ==
  /\ Counted
  /\ active' = Adopted(n, role)
  /\ missed' = IF staged = None /\ \E i \in DOMAIN bus : n \notin Ids(bus[i].roster)
                  THEN missed \cup {n} ELSE missed
  /\ UNCHANGED <<staged, flight, tokens, system, edge, uses, linked>>

\* The tokens live in the web process, and so does a handler that waits for the daemon.
WebRestart ==
  /\ tokens' = {} /\ replies' = {}
  /\ bus' = [i \in DOMAIN bus |-> [bus[i] EXCEPT !.then = None]]
  /\ UNCHANGED <<files, system, edge, uses, linked, missed, changes>>

-----------------------------------------------------------------------------
(* Promotion. *)

StageNodes(roster) ==
  /\ Counted
  /\ staged' = roster
  /\ UNCHANGED <<active, flight, tokens, edge, uses, linked, missed>>

Promoted(roster, n, force) ==
  [m \in Node |->
     IF roster[m] = None THEN None
     ELSE IF m = n THEN roster[m] \cup {"controller"}
     ELSE IF force THEN roster[m]
     ELSE roster[m] \ {"controller"}]

\* A node needs a role: a promotion that would take the last one of another node fails
\* before anything is staged.
KeepsRoles(roster) == \A m \in Node : roster[m] # {}

\* What is saved is the settings without the section they belong to: the file loads
\* with the defaults, the first epoch and no accounts.
Promote(n, force) ==
  /\ KeepsRoles(Promoted(View, n, force))
  /\ StageNodes(Promoted(View, n, force))
  /\ system' = [epoch |-> 1, accounts |-> FALSE]

\* A node that has no other role becomes a router.
Demote(n) ==
  /\ n \in Ids(View)
  /\ LET rest == View[n] \ {"controller"}
     IN  StageNodes([View EXCEPT ![n] = IF rest = {} THEN {"gateway_router"} ELSE rest])
  /\ UNCHANGED system

\* The nodes that not every copy has, or every call.
Unsettled == {n \in Node : \E i \in DOMAIN bus : (n \in Ids(bus[i].roster)) # (n \in Ids(View))}
             \cup {n \in Node : bus # <<>> /\ (n \in Ids(active)) # (n \in Ids(View))}

Commit ==
  /\ staged # None
  /\ active' = staged /\ staged' = None
  /\ missed' = missed \cup Unsettled
  /\ UNCHANGED <<flight, tokens, system, edge, uses, linked, changes>>

Discard ==
  /\ staged # None
  /\ staged' = None
  /\ linked' = linked \cap Ids(active)
  /\ missed' = missed \cup Unsettled
  /\ UNCHANGED <<active, flight, tokens, system, edge, uses, changes>>

-----------------------------------------------------------------------------
Init ==
  /\ active = [n \in Node |-> IF n = Controller THEN {"controller", "gateway_router"} ELSE None]
  /\ staged = None
  /\ bus = <<>> /\ replies = {}
  /\ tokens = {} /\ uses = [t \in Token |-> 0]
  /\ system = [epoch |-> Epoch, accounts |-> TRUE]
  /\ routes = {} /\ added = {} /\ raced = {}
  /\ linked = {} /\ missed = {}
  /\ changes = 0

Next ==
  \/ \E n \in Node :
       \/ SaveNode(n, {"gateway_router"}) \/ Adopt(n, "gateway_router")
       \/ \E role \in {"gateway_router", "edge_gateway"}, t \in Token \cup {Admin} :
            Join(t, n, {role})
       \/ RemoveNode(n) \/ Demote(n) \/ \E force \in BOOLEAN : Promote(n, force)
  \/ \E t \in Token : GenerateToken(t)
  \/ Deliver \/ FailDelivery
  \/ \E e \in replies, answered \in BOOLEAN : Finish(e, answered)
  \/ \E r \in Route : AddRoute(r)
  \/ WebRestart \/ Commit \/ Discard

Spec == Init /\ [][Next]_vars

-----------------------------------------------------------------------------
(* Properties. *)

\* A pairing token admits one node, whatever else is enrolled, saved or restarted
\* between its making and its use.
TokenAdmitsOneNode == \A t \in Token : uses[t] <= 1

\* A node that was told it is enrolled, and was not removed, is on the roster in both
\* copies once the daemon has answered every call, whatever else was saved, adopted or
\* promoted, unless the daemon failed a call that carried it, the staged roster was
\* committed or discarded while one was under way, or the node itself was adopted while
\* calls that did not carry it were.
RosterKept ==
  bus = <<>> => linked \ missed \subseteq Ids(View) \cap Ids(active)

\* An enrollment keeps the gateway's routes, except those made while it waited.
RoutesKept == added \subseteq routes \cup raced

\* Enrollments admit a node a token, and lose neither the nodes nor the routes of others.
EnrollmentHolds == TokenAdmitsOneNode /\ RosterKept /\ RoutesKept
=============================================================================
