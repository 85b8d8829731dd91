-------------------------------- MODULE Setup --------------------------------
(***************************************************************************)
(* The two setup programs: the guided one (setup_tool.py) and the wizard   *)
(* behind the setup command and the setup page (wizard.py,                 *)
(* routers/setup.py).  Each writes its files into the configuration        *)
(* directory one after the other.  The guided one loads the directory      *)
(* first and merges into what it has; the wizard writes documents of its   *)
(* own over it.                                                            *)
(*                                                                         *)
(* Of a file, what counts is whether it has the entries the household has  *)
(* made since (accounts, nodes, rules, schedules, plugins); network.yaml   *)
(* has three kinds of them, as the guided setup treats them differently:   *)
(* the links (interfaces and bridges), the Wi-Fi, and the rest (VLANs,     *)
(* zones, gateways, VPNs).  Then the WAN interface, and the rules of the   *)
(* firewall that open the WAN.  A setup that is cancelled, or finds a      *)
(* directory that does not load, writes nothing.  Roles, addresses, pools, *)
(* DNS servers, the answers about DoH and VPNs, packages and services are  *)
(* not kept.                                                               *)
(***************************************************************************)
EXTENDS Naturals, Sequences

CONSTANTS
  Interface,
  Service,  \* what may be opened to the WAN: ssh and the web interface
  Used,     \* the things the household makes
  None,     \* no setup has chosen a WAN interface
  MaxRuns   \* bound: setups

FileName == {"system", "nodes", "network", "firewall", "schedules", "plugins"}

\* What the household makes, named for its file; network.yaml has the links and the
\* Wi-Fi besides.
Thing == FileName \cup {"links", "wifi"}
Within(f) == IF f = "network" THEN {"network", "links", "wifi"} ELSE {f}

SetupAssumption == Used \subseteq Thing /\ None \notin Interface /\ MaxRuns \in Nat

VARIABLES
  own,      \* the things the household made that the files have
  wan,      \* the WAN interface of network.yaml
  open,     \* the rules of firewall.yaml that open a service to the WAN
  setup,    \* the setup under way: what it has loaded, was told and has yet to write
  runs,
  made,     \* history: the things the household has made
  excused,  \* history: those a wizard wrote over, a save failed on, a setup overtook, or
            \* was told to do without
  granted,  \* history: the rules of the last setup that wrote its firewall.yaml
  apart     \* history: network.yaml and firewall.yaml are not of one setup

files == <<own, wan, open>>
history == <<made, excused, granted, apart>>
vars == <<files, setup, runs, history>>

Kind == {"guided", "wizard"}
Rule == [by : Kind, service : Service, interface : Interface]
Idle == [by |-> "guided", left |-> <<>>, own |-> {}, wifi |-> TRUE, open |-> {},
         wan |-> None, grant |-> {}]

TypeOK ==
  /\ own \subseteq Thing /\ made \subseteq Thing /\ excused \subseteq Thing
  /\ wan \in Interface \cup {None}
  /\ open \subseteq Rule /\ granted \subseteq Rule
  /\ apart \in BOOLEAN
  /\ setup.by \in Kind /\ setup.left \in Seq(FileName)
  /\ setup.own \subseteq Thing /\ setup.wifi \in BOOLEAN /\ setup.open \subseteq Rule
  /\ setup.wan \in Interface \cup {None} /\ setup.grant \subseteq Rule
  /\ runs \in 0 .. MaxRuns

-----------------------------------------------------------------------------
Running == setup.left # <<>>

\* The rules that open the services on the interface, under the names this setup uses.
Rules(by, services, interface) ==
  {[by |-> by, service |-> s, interface |-> interface] : s \in services}

Starts(by, order, interface, services, wifi) ==
  /\ ~Running /\ runs < MaxRuns
  /\ runs' = runs + 1
  /\ setup' = [by |-> by, left |-> order, own |-> own, wifi |-> wifi, open |-> open,
               wan |-> interface, grant |-> Rules(by, services, interface)]
  /\ UNCHANGED <<files, history>>

\* What the prompts leave of use here: the interface of the WAN, and the services it
\* is to reach.  Whoever cancels one, or declines the review, changes nothing.
Answers == [interface : Interface, services : SUBSET Service]

\* main, after the prompts and the review; it asks whether there is to be Wi-Fi, too.
GuidedSetup(interface, services, wifi) ==
  Starts("guided", <<"system", "nodes", "network", "firewall", "schedules">>,
         interface, services, wifi)

\* The documents each role of the wizard writes, in order; a workstation's are elsewhere.
GatewayFiles == <<"network", "system", "firewall", "plugins">>
ControllerFiles == <<"system", "nodes">>
EdgeFiles == <<"system", "network">>
StandaloneFiles == GatewayFiles \o ControllerFiles \o <<"system">>

\* run_setup
Wizard(order, interface, services) == Starts("wizard", order, interface, services, TRUE)

\* Mutant: the rules of the same name stay, too.
MergedAll(rules, new) == rules \cup new

\* The rules that are there and have no name of a new one, and the new ones.  (Those
\* of the same name that nobody asked for this time stay.)
Merged(rules, new) ==
  {r \in rules : \A n \in new : r.by # n.by \/ r.service # n.service} \cup new

\* What a guided setup makes anew: the node it runs on, the interfaces and the bridge.
Anew == {"nodes", "links"}

\* The rest it writes as it loaded it, the Wi-Fi unless it was declined; a wizard has
\* loaded nothing.
Declined(t) == t = "wifi" /\ ~setup.wifi
Kept(t) == setup.by = "guided" /\ t \in setup.own \ Anew /\ ~Declined(t)

Written(f) ==
  /\ own' = (own \ Within(f)) \cup {t \in Within(f) : Kept(t)}
  /\ wan' = IF f = "network" THEN setup.wan ELSE wan
  /\ open' = IF f # "firewall" THEN open
             ELSE IF setup.by = "guided" THEN Merged(setup.open, setup.grant)
             ELSE setup.grant

\* What is written over otherwise: by a wizard, as it was declined, or as the household
\* made it after the setup had loaded the directory.
Overwrites(t) == setup.by = "wizard" \/ Declined(t) \/ (t \in own /\ t \notin setup.own)

SaveNext ==
  /\ Running
  /\ LET f == Head(setup.left)
     IN  /\ Written(f)
         /\ excused' = excused \cup {t \in Within(f) : Overwrites(t)}
         /\ granted' = IF f = "firewall" THEN setup.grant ELSE granted
         /\ apart' = CASE f = "network"  -> TRUE
                       [] f = "firewall" -> wan # setup.wan
                       [] OTHER          -> apart
  /\ setup' = IF Len(setup.left) = 1 THEN Idle ELSE [setup EXCEPT !.left = Tail(@)]
  /\ UNCHANGED <<runs, made>>

\* A save fails, or the program is killed: the file is as it was, or empty, and the
\* files that were to follow are as they were.
SaveFails ==
  /\ Running
  /\ LET f == Head(setup.left)
     IN  \/ UNCHANGED <<files, excused, apart>>
         \/ /\ own' = own \ Within(f)
            /\ wan' = IF f = "network" THEN None ELSE wan
            /\ open' = IF f = "firewall" THEN {} ELSE open
            /\ excused' = excused \cup Within(f)
            /\ apart' = (apart \/ f \in {"network", "firewall"})
  /\ setup' = Idle
  /\ UNCHANGED <<runs, made, granted>>

\* The household makes an entry in one of the files, through the web application or the
\* daemon, which load and save the settings they know.
Use(t) ==
  /\ own' = own \cup {t}
  /\ made' = made \cup {t}
  /\ excused' = IF Running THEN excused \cup {t} ELSE excused \ {t}
  /\ UNCHANGED <<wan, open, setup, runs, granted, apart>>

-----------------------------------------------------------------------------
Init ==
  /\ own = {} /\ wan = None /\ open = {}
  /\ setup = Idle /\ runs = 0
  /\ made = {} /\ excused = {} /\ granted = {} /\ apart = FALSE

Next ==
  \/ \E told \in Answers :
       \/ \E wifi \in BOOLEAN : GuidedSetup(told.interface, told.services, wifi)
       \/ Wizard(GatewayFiles, told.interface, told.services)
       \/ Wizard(StandaloneFiles, told.interface, told.services)
  \/ Wizard(ControllerFiles, None, {})
  \/ \E interface \in Interface : Wizard(EdgeFiles, interface, {})
  \/ SaveNext \/ SaveFails
  \/ \E t \in Used : Use(t)

Spec == Init /\ [][Next]_vars

-----------------------------------------------------------------------------
(* Properties. *)

\* What the household made outlives guided setups, also those that fail midway, but for
\* what these make anew (the nodes, the interfaces and the bridges), a Wi-Fi that the
\* setup was told to do without, what was made while the setup ran, and the file whose
\* save failed; a wizard's setup keeps nothing of the files it writes.  A service the
\* last setup was told to open is open on one interface under that setup's name, the one
\* that is the WAN now, unless the network was written by another setup than the firewall.
SetupKeepsHousehold ==
  /\ made \ Anew \subseteq own \cup excused
  /\ ~apart => \A g \in granted :
       {r.interface : r \in {o \in open : o.by = g.by /\ o.service = g.service}} = {wan}
=============================================================================
