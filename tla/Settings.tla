------------------------------- MODULE Settings -------------------------------
(***************************************************************************)
(* The settings of the system, the network, the firewall and the plugins,  *)
(* and everyone who edits them.  The web application reads a whole file,   *)
(* through the staged copy if there is one, changes its own settings in it *)
(* and stages the whole file (dns.py, protection.py, schedules.py,         *)
(* network.py, topology.py, kea_service.py, system_service.py).  The daemon *)
(* (config_adapter.py) and the fw commands (firewall_cmd.py) do so with    *)
(* the active firewall.yaml, between a read and a write of their own.      *)
(*                                                                         *)
(* A request of the web application awaits nothing between its read and    *)
(* its write, so it is one action.  Commits are one, too: ConfigStore      *)
(* has their steps and what a crash makes of them.  A setting is a value   *)
(* of a few, or a set of named entries.  Creating the guest network and    *)
(* switching it always fail before they save (the parsed configuration has *)
(* its Wi-Fi in another place), so they are no actions.                    *)
(***************************************************************************)
EXTENDS Naturals

CONSTANTS
  Record,   \* DNS records
  Forward,  \* port forwards
  Rule,     \* input rules
  Bridge,   \* networks that can be created
  Subnet,   \* subnets the topology page can add
  Link,     \* links between them
  None,     \* no value
  MaxEdits  \* bound: edits

SettingsAssumption == MaxEdits \in Nat

File == {"system", "network", "firewall", "plugins"}

SettingsOf(f) ==
  CASE f = "system"   -> {"names", "dns", "records", "safe", "rest"}
    [] f = "network"  -> {"bridges", "subnets", "links", "pool", "wifi"}
    [] f = "firewall" -> {"evasion", "forwards", "rules"}
    [] f = "plugins"  -> {"technitium", "other"}

Setting == UNION {SettingsOf(f) : f \in File}
FileOf(s) == CHOOSE f \in File : s \in SettingsOf(f)

Editor == {"daemon", "command"}

VARIABLES
  active,   \* the settings in the active files
  invalid,  \* firewall.yaml holds a forward no model accepts
  staged,   \* the files that are staged
  copy,     \* the settings in them, None in the others
  editor,   \* what the daemon or a command has read of firewall.yaml and is to write
  page,     \* the network settings an open page shows, or None
  edits,
  wanted    \* history: what every setting should be as the accepted edits have it

files == <<active, invalid, staged, copy>>
vars == <<files, editor, page, edits, wanted>>

Values(s) ==
  CASE s = "records"    -> SUBSET Record
    [] s = "forwards"   -> SUBSET Forward
    [] s = "rules"      -> SUBSET Rule
    [] s = "bridges"    -> SUBSET Bridge
    [] s = "subnets"    -> SUBSET Subnet
    [] s = "links"      -> SUBSET Link
    [] s = "dns"        -> {"local", "technitium"}
    [] s = "technitium" -> {"absent", "off", "on"}
    [] OTHER            -> BOOLEAN

\* SystemSettings, NetworkSettings, FirewallSettings and PluginsConfig with nothing given.
Default(s) ==
  CASE s \in {"records", "forwards", "rules", "bridges", "subnets", "links"} -> {}
    [] s = "dns"        -> "local"
    [] s = "technitium" -> "absent"
    [] OTHER            -> s = "safe"

Part(f, v) == [s \in SettingsOf(f) |-> v[s]]

TypeOK ==
  /\ \A s \in Setting :
       /\ active[s] \in Values(s) /\ wanted[s] \in Values(s)
       /\ FileOf(s) \in staged => copy[s] \in Values(s)
       /\ FileOf(s) \notin staged => copy[s] = None
  /\ staged \subseteq File /\ invalid \in BOOLEAN
  /\ \A e \in Editor : editor[e] # None =>
       \A s \in SettingsOf("firewall") : editor[e].read[s] \in Values(s)
  /\ page # None => \A s \in SettingsOf("network") : page[s] \in Values(s)
  /\ edits \in 0 .. MaxEdits

-----------------------------------------------------------------------------
\* load_config_directory: about a file that does not validate it means to warn and go on
\* from the defaults, but the warning fails (NameError: sys is not imported) and with it
\* the load of the whole directory.
Loads == ~invalid

\* StagingConfigRepository.get_config, where the active files load.
View == [s \in Setting |-> IF FileOf(s) \in staged THEN copy[s] ELSE active[s]]

\* Mutant: the file is made of the settings that were given, like the whole of a form.
StagedAlone(fs, changes) == [s \in Setting |->
  IF FileOf(s) \notin fs THEN copy[s]
  ELSE IF s \in DOMAIN changes THEN changes[s] ELSE Default(s)]

\* What is staged when these files are saved with these changes to what was read.
\* (Of network.yaml a request may give only the network part: what the staged or active
\* file has beside it is kept.)
Staged(fs, changes) == [s \in Setting |->
  IF FileOf(s) \notin fs THEN copy[s]
  ELSE IF s \in DOMAIN changes THEN changes[s] ELSE View[s]]

\* The settings v with these changes.
With(changes, v) == [s \in Setting |-> IF s \in DOMAIN changes THEN changes[s] ELSE v[s]]

Only(s, v) == [one \in {s} |-> v]

Counts == edits < MaxEdits /\ edits' = edits + 1

Put(fs, changes) ==
  /\ Counts
  /\ staged' = staged \cup fs
  /\ copy' = Staged(fs, changes)
  /\ wanted' = With(changes, wanted)
  /\ UNCHANGED <<active, invalid, editor, page>>

\* A request that reads the settings first, and fails if they do not load.
Save(fs, changes) == Loads /\ Put(fs, changes)

-----------------------------------------------------------------------------
(* The web application. *)

\* SystemService.update_system_config: the host's names in settings that are otherwise new.
UpdateSystem(v) ==
  Save({"system"}, [s \in SettingsOf("system") |-> IF s = "names" THEN v ELSE Default(s)])

\* The DNS settings are new but for the resolver; the plugins are only reached when there
\* are none (a list that is not empty has no attribute plugins, and the request fails).
UpdateDns(v) ==
  LET given == IF View["technitium"] = "absent" /\ ~View["other"]
               THEN {"dns", "records", "safe", "technitium"} ELSE {"dns", "records", "safe"}
  IN  Save({FileOf(s) : s \in given},
           [s \in given |-> IF s = "dns" THEN v
                            ELSE IF s = "technitium" /\ v = "technitium" THEN "on"
                            ELSE Default(s)])

SaveRecord(r) == Save({"system"}, Only("records", View["records"] \cup {r}))

DeleteRecord(r) ==
  /\ r \in View["records"]
  /\ Save({"system"}, Only("records", View["records"] \ {r}))

UpdateShields(v) == Save({"system"}, Only("safe", v))

UpdateAntiEvasion(v) == Save({"firewall"}, Only("evasion", v))

SavePortForward(p) == Save({"firewall"}, Only("forwards", View["forwards"] \cup {p}))

DeletePortForward(p) ==
  /\ p \in View["forwards"]
  /\ Save({"firewall"}, Only("forwards", View["forwards"] \ {p}))

\* KeaService.update_scope, create_scope
UpdateScope(v) == Save({"network"}, Only("pool", v))
CreateScope(b) == Save({"network"}, Only("bridges", View["bridges"] \cup {b}))

\* The page sends back the whole section it was given, with what was changed on it.
OpenPage ==
  /\ Loads
  /\ page # Part("network", View)
  /\ page' = Part("network", View)
  /\ UNCHANGED <<files, editor, edits, wanted>>

UpdateNetwork(s, v) ==
  /\ page # None
  /\ Put({"network"}, [page EXCEPT ![s] = v])

\* The topology page.  Subnets and links are read from the file as plain dictionaries,
\* which have no attribute id: a request that has one to look at fails before it saves, so
\* a subnet or a link is only ever the first, and to delete one changes nothing.
UpsertSubnet(n) == View["subnets"] = {} /\ Save({"network"}, Only("subnets", {n}))
UpsertLink(l) == View["links"] = {} /\ Save({"network"}, Only("links", {l}))

\* Its links go with the subnet.
DeleteSubnet(n) ==
  /\ View["subnets"] = {} /\ View["links"] = {}
  /\ Save({"network"}, [s \in {"subnets", "links"} |-> IF s = "subnets" THEN View[s] \ {n} ELSE View[s]])

DeleteLink(l) ==
  /\ View["links"] = {}
  /\ Save({"network"}, Only("links", View["links"] \ {l}))

InstallPlugin == ~View["other"] /\ Save({"plugins"}, Only("other", TRUE))

TogglePlugin(v) ==
  /\ View["technitium"] # "absent"
  /\ Save({"plugins"}, Only("technitium", v))

Commit ==
  /\ staged # {}
  /\ active' = [s \in Setting |-> IF FileOf(s) \in staged THEN copy[s] ELSE active[s]]
  /\ invalid' = (invalid /\ "firewall" \notin staged)
  /\ staged' = {} /\ copy' = [s \in Setting |-> None]
  /\ UNCHANGED <<editor, page, edits, wanted>>

Discard ==
  /\ staged # {}
  /\ staged' = {} /\ copy' = [s \in Setting |-> None]
  /\ wanted' = active
  /\ UNCHANGED <<active, invalid, editor, page, edits>>

-----------------------------------------------------------------------------
(* The daemon and the commands, on the active firewall.yaml. *)

\* The daemon loads the directory, a command reads the text of the file.
CanRead(e) == e = "daemon" => Loads
Read == Part("firewall", active)

Changed(s, remove, x, v) == [v EXCEPT ![s] = IF remove THEN @ \ {x} ELSE @ \cup {x}]

BeginEdit(e, s, remove, x, bad) ==
  /\ editor[e] = None /\ CanRead(e) /\ Counts
  /\ editor' = [editor EXCEPT ![e] =
       [read |-> Read, new |-> Changed(s, remove, x, Read), of |-> s, invalid |-> bad]]
  /\ UNCHANGED <<files, page, wanted>>

\* UpdateFirewallRule, rules_add_cmd
UpdateRule(e, r) == BeginEdit(e, "rules", FALSE, r, e = "command" /\ invalid)

\* DeleteFirewallRule, rules_remove_cmd; the daemon does not mind if there is none
DeleteRule(e, r) ==
  /\ e = "daemon" \/ r \in active["rules"]
  /\ BeginEdit(e, "rules", TRUE, r, e = "command" /\ invalid)

\* forward_cmd: a forward of both protocols is one the model of the file refuses.
ForwardCommand(p, both) == BeginEdit("command", "forwards", FALSE, p, both \/ invalid)

\* The file is written as it was read, with the change, and what no model accepted of it
\* stays in it.  What is staged does not change, and will replace it.  If the file was
\* changed in between, it is what it was before that, with the change.
EndEdit(e) ==
  /\ editor[e] # None
  /\ active' = With(editor[e].new, active)
  /\ invalid' = editor[e].invalid
  /\ editor' = [editor EXCEPT ![e] = None]
  /\ LET s == editor[e].of
     IN  wanted' = IF "firewall" \in staged THEN wanted
                   ELSE IF editor[e].read = Read THEN With(Only(s, editor[e].new[s]), wanted)
                   ELSE With(editor[e].new, wanted)
  /\ UNCHANGED <<staged, copy, page, edits>>

-----------------------------------------------------------------------------
\* A household that has settled in: the rest of system.yaml and the Wi-Fi are configured.
Init ==
  /\ active = [s \in Setting |-> IF s \in {"rest", "wifi"} THEN TRUE ELSE Default(s)]
  /\ invalid = FALSE
  /\ staged = {} /\ copy = [s \in Setting |-> None]
  /\ editor = [e \in Editor |-> None] /\ page = None
  /\ edits = 0
  /\ wanted = active

Next ==
  \/ \E v \in BOOLEAN :
       \/ UpdateSystem(v) \/ UpdateShields(v) \/ UpdateAntiEvasion(v) \/ UpdateScope(v)
       \/ \E s \in {"pool", "wifi"} : UpdateNetwork(s, v)
       \/ \E p \in Forward : ForwardCommand(p, v)
  \/ \E v \in {"local", "technitium"} : UpdateDns(v)
  \/ \E r \in Record : SaveRecord(r) \/ DeleteRecord(r)
  \/ \E p \in Forward : SavePortForward(p) \/ DeletePortForward(p)
  \/ \E b \in Bridge : CreateScope(b)
  \/ \E n \in Subnet : UpsertSubnet(n) \/ DeleteSubnet(n)
  \/ \E l \in Link : UpsertLink(l) \/ DeleteLink(l)
  \/ \E v \in {"off", "on"} : TogglePlugin(v)
  \/ \E e \in Editor :
       \/ EndEdit(e)
       \/ \E r \in Rule : UpdateRule(e, r) \/ DeleteRule(e, r)
  \/ OpenPage \/ InstallPlugin \/ Commit \/ Discard

Spec == Init /\ [][Next]_vars

-----------------------------------------------------------------------------
(* Properties. *)

\* Every setting is in the files as the accepted edits have made it, through the edits of
\* other settings of its file, through commits, and through the edits of the daemon and
\* the commands: nothing else changes but by a save that names it, a discard, or a write of
\* firewall.yaml over one that came in between.  (New names for the host and a new
\* resolver name more settings than a user would think: see UpdateSystem and UpdateDns.
\* Whether the files load is another matter: a forward of both protocols, which the fw
\* commands accept, leaves settings that are kept and that nobody can read.)
SettingsKept == wanted = View
=============================================================================
