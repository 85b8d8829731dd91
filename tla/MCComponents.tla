---------------------------- MODULE MCComponents ----------------------------
(* The components on small values of their constants.                        *)
EXTENDS Components, MCFirewallCases

CONSTANTS a, b, x, y, u, c1, n1, n2

\* The names of a certificate: the domain and one more.
NamesOf(d) == {d, u}

\* Names that differ in case only: a is another spelling of the built-in administrator.
AlikeOf(name) == IF name \in {Admin, a} THEN {Admin, a} ELSE {name}

\* Hosts of a build: y, x below it, and u, which is the router itself.
DomainsOf(h) == IF h = x THEN {x, y} ELSE {h}

\* The ports a port's digits begin with, among those of a build.
BeginningsOf(p) == IF p = 2222 THEN {22, 2222} ELSE {p}

\* What the manifest of a source asks for: a network, one that is not allowed, an
\* unrestricted one that it approves itself, one in a container, and another network than
\* the isolated one; endpoints that it approves itself; nothing, with and without a socket.
Asks(needs, approved, allow, restricted, rootless, contained) ==
  [required |-> needs, approved |-> approved, allow |-> allow, restricted |-> restricted,
   net |-> "isolated", rootless |-> rootless, contained |-> contained,
   listed |-> {[host |-> y, port |-> 0]}, chosen |-> {}]
Networked == Asks(TRUE, FALSE, TRUE, TRUE, TRUE, FALSE)
Sources == {
  Networked, Asks(TRUE, FALSE, FALSE, TRUE, TRUE, FALSE),
  Asks(TRUE, TRUE, TRUE, FALSE, TRUE, FALSE), Asks(TRUE, FALSE, TRUE, TRUE, TRUE, TRUE),
  [Networked EXCEPT !.net = "other"], [Networked EXCEPT !.chosen = {[host |-> x, port |-> 22]}],
  Asks(FALSE, FALSE, TRUE, TRUE, TRUE, TRUE), Asks(FALSE, FALSE, TRUE, TRUE, FALSE, TRUE)}

\* What the user of a restricted build may have chosen.
Choices == {{}, {[host |-> x, port |-> 2222], [host |-> x, port |-> 0]}}

RulesOf == <<a, b>>
=============================================================================
