--------------------------------- MODULE Apps ---------------------------------
(***************************************************************************)
(* Applications, which are plugins with containers: the local catalog and  *)
(* the builds from source (catalog_manager.py, source_builder.py), the     *)
(* routes and commands that install, toggle, update and delete them, and   *)
(* the daemon's subsystem that makes Docker's containers follow its        *)
(* configuration (plugins_sync.py).                                        *)
(*                                                                         *)
(* A source and a build are the commit they are of; 0 is an image nobody   *)
(* built here.  Ports, volumes, environments, manifests, remote catalogs   *)
(* and what the sandbox checks are not kept.                               *)
(***************************************************************************)
EXTENDS Naturals

CONSTANTS
  App,
  Box, Main,  \* names of an app's containers, and the one it has from a catalog or a build
  Elsewhere,  \* those another node of the cluster is to run
  None,       \* not installed, not in the catalog, no container, no staged file
  MaxCommit,  \* bound: commits of a source
  MaxChanges  \* bound: changes of the configuration, the sources and the catalog

AppsAssumption ==
  /\ Elsewhere \subseteq App /\ Main \in Box /\ MaxCommit \in Nat \ {0} /\ MaxChanges \in Nat
  /\ None \notin [built : 0 .. MaxCommit, running : BOOLEAN]

VARIABLES
  remote,         \* head of each app's source
  clone,          \* what is checked out of it
  image,          \* the commit each local image was built of
  catalog,        \* local_catalog.json: the commit that was built
  active, staged, \* plugins.yaml of the two directories
  config,         \* the daemon's copy
  container,      \* Docker
  behind,         \* history: containers that the last synchronisation failed to start or
                  \* to remove, that were stopped by hand after it, or whose plugin the
                  \* daemon has found changed since when it started
  changes

sources == <<remote, clone, image, catalog>>
files == <<active, staged>>
docker == <<config, container, behind>>
vars == <<sources, files, docker, changes>>

Commit == 0 .. MaxCommit
Plugins == [App -> [enabled : BOOLEAN, boxes : SUBSET Box] \cup {None}]

\* roostos-plugin-<id>-<name>, of the plugin that it is labelled with.
Container == App \X Box

TypeOK ==
  /\ remote \in [App -> 1 .. MaxCommit] /\ image \in [App -> Commit]
  /\ clone \in [App -> Commit \cup {None}] /\ catalog \in [App -> Commit \cup {None}]
  /\ active \in Plugins /\ config \in Plugins /\ (staged = None \/ staged \in Plugins)
  /\ container \in [Container -> [built : Commit, running : BOOLEAN] \cup {None}]
  /\ behind \subseteq Container /\ changes \in 0 .. MaxChanges

-----------------------------------------------------------------------------
(* The configuration. *)

View == IF staged = None THEN active ELSE staged
Installed(plugins) == {p \in App : plugins[p] # None}

Counted == changes < MaxChanges /\ changes' = changes + 1

Stage(plugins) ==
  /\ Counted
  /\ staged' = plugins
  /\ UNCHANGED <<active, docker>>

Enabled(boxes) == [enabled |-> TRUE, boxes |-> boxes]

\* The three routes that register a plugin, after its interface was extracted: with the
\* containers of its manifest, or one.  One that is there is replaced, and enabled.
Register(p, boxes) ==
  /\ Stage([View EXCEPT ![p] = Enabled(boxes)])
  /\ UNCHANGED sources

\* install_catalog_app: from the local catalog, or a remote one.
InstallFromCatalog(p) ==
  /\ p \notin Installed(View)
  /\ Stage([View EXCEPT ![p] = Enabled({Main})])
  /\ UNCHANGED sources

TogglePlugin(p, enabled) ==
  /\ p \in Installed(View)
  /\ Stage([View EXCEPT ![p].enabled = enabled])
  /\ UNCHANGED sources

DeletePlugin(p) ==
  /\ p \in Installed(View)
  /\ Stage([View EXCEPT ![p] = None])
  /\ UNCHANGED sources

\* The install command writes the active file.
InstallCommand(p) ==
  /\ Counted
  /\ active' = [active EXCEPT ![p] = Enabled({Main})]
  /\ UNCHANGED <<staged, sources, docker>>

CommitStaged ==
  /\ staged # None
  /\ active' = staged /\ staged' = None
  /\ UNCHANGED <<sources, docker, changes>>

Discard ==
  /\ staged # None
  /\ staged' = None
  /\ UNCHANGED <<active, sources, docker, changes>>

-----------------------------------------------------------------------------
(* Sources, builds and the local catalog. *)

Push(p) ==
  /\ Counted
  /\ remote[p] < MaxCommit
  /\ remote' = [remote EXCEPT ![p] = @ + 1]
  /\ UNCHANGED <<clone, image, catalog, files, docker>>

\* clone_or_resolve_source: a first clone has the head.  In a clone that is there the
\* branch is fetched and checked out, which leaves the branch where it was.
Resolved(p) == IF clone[p] = None THEN remote[p] ELSE clone[p]

\* The source is resolved, a build that needs the network must have been approved, and
\* the sandbox may refuse it, fail or run out of time: then the clone is all there is.
Build(p, succeeds) ==
  /\ clone' = [clone EXCEPT ![p] = Resolved(p)]
  /\ image' = IF succeeds THEN [image EXCEPT ![p] = Resolved(p)] ELSE image
  /\ UNCHANGED remote

Cataloged(p, succeeds) ==
  catalog' = IF succeeds THEN [catalog EXCEPT ![p] = Resolved(p)] ELSE catalog

ImportFromSource(p, succeeds) ==
  /\ Counted
  /\ Build(p, succeeds)
  /\ Cataloged(p, succeeds)
  /\ UNCHANGED <<files, docker>>

\* The plugin that is installed is given the new build, in memory: saving it fails, as
\* the list is no configuration, and the failure is swallowed.
UpdateImported(p, succeeds) ==
  /\ catalog[p] # None
  /\ ImportFromSource(p, succeeds)

BuildAndInstall(p) ==
  /\ Build(p, TRUE)
  /\ UNCHANGED catalog
  /\ Stage([View EXCEPT ![p] = Enabled({Main})])

\* Only the view is asked whether the app is installed.
DeleteLocalApp(p) ==
  /\ p \notin Installed(View)
  /\ catalog[p] # None
  /\ catalog' = [catalog EXCEPT ![p] = None]
  /\ UNCHANGED <<remote, clone, image, files, docker, changes>>

-----------------------------------------------------------------------------
(* The daemon and Docker. *)

\* The plugins this node is to run.
Wanted(plugins) == {p \in Installed(plugins) : plugins[p].enabled} \ Elsewhere

Present == {c \in Container : container[c] # None}

\* Mutant: the containers of plugins that are gone; a disabled one's keep running.
UnwantedGone(plugins) == {c \in Present : c[1] \notin Installed(plugins)}

\* Only its plugin decides whether a container goes.
Unwanted(plugins) == {c \in Present : c[1] \notin Wanted(plugins)}

Listed(plugins) == {c \in Container : c[1] \in Wanted(plugins) /\ c[2] \in plugins[c[1]].boxes}

\* What is unwanted is stopped and removed; what a wanted plugin lists is started, with the
\* image it was made of, if it is there and stopped, and is made if it is not; what it no
\* longer lists is left as it is.
Synchronized(c, plugins, fails, stops) ==
  IF c \in Unwanted(plugins)
    THEN IF ~fails THEN None
         ELSE [container[c] EXCEPT !.running = @ /\ ~stops]
  ELSE IF c \notin Listed(plugins) \/ (fails /\ c \notin Present) THEN container[c]
  ELSE IF c \in Present THEN [container[c] EXCEPT !.running = @ \/ ~fails]
  ELSE [built |-> image[c[1]], running |-> TRUE]

\* reload_config, at any time: whoever reads the configuration reloads it.
Reload ==
  /\ config' = active
  /\ \E failing \in SUBSET (Unwanted(active) \cup Listed(active)), stops \in BOOLEAN :
       /\ container' = [c \in Container |-> Synchronized(c, active, c \in failing, stops)]
       /\ behind' = failing
  /\ UNCHANGED <<sources, files, changes>>

\* Docker does not answer: every container stays as it is.
ReloadWithoutDocker ==
  /\ config' = active
  /\ behind' = Container
  /\ UNCHANGED <<sources, files, container, changes>>

\* Docker restarts what ends on its own, but not what was stopped by hand.
StopByHand(c) ==
  /\ c \in Present /\ container[c].running
  /\ container' = [container EXCEPT ![c].running = FALSE]
  /\ behind' = behind \cup {c}
  /\ UNCHANGED <<config, sources, files, changes>>

\* The daemon starts again: it loads the active file and synchronises nothing until
\* somebody asks for a reload.
DaemonRestart ==
  /\ config' = active
  /\ behind' = behind \cup {c \in Container : active[c[1]] # config[c[1]]}
  /\ UNCHANGED <<container, sources, files, changes>>

-----------------------------------------------------------------------------
Init ==
  /\ remote = [p \in App |-> 1] /\ clone = [p \in App |-> None]
  /\ image = [p \in App |-> 0] /\ catalog = [p \in App |-> None]
  /\ active = [p \in App |-> None] /\ staged = None /\ config = active
  /\ container = [c \in Container |-> None]
  /\ behind = {}
  /\ changes = 0

Next ==
  \/ \E p \in App :
       \/ \E boxes \in SUBSET Box : Register(p, boxes)
       \/ InstallFromCatalog(p) \/ DeletePlugin(p) \/ InstallCommand(p)
       \/ \E enabled \in BOOLEAN : TogglePlugin(p, enabled)
       \/ Push(p) \/ BuildAndInstall(p) \/ DeleteLocalApp(p)
       \/ \E succeeds \in BOOLEAN : ImportFromSource(p, succeeds) \/ UpdateImported(p, succeeds)
  \/ \E c \in Container : StopByHand(c)
  \/ CommitStaged \/ Discard
  \/ Reload \/ ReloadWithoutDocker \/ DaemonRestart

Spec == Init /\ [][Next]_vars

-----------------------------------------------------------------------------
(* Properties. *)

\* Whatever was registered anew, toggled, deleted, committed, discarded or restarted: what
\* a plugin lists that the daemon's configuration wants on this node runs, and no container
\* is there whose plugin it does not want.  Left out are the containers behind: those that
\* Docker failed to start or remove at the last reload, those stopped by hand since, and
\* those of plugins that changed before the daemon started.  And a container that its
\* plugin has ceased to list when it was registered anew may go on.
ContainersFollow ==
  \A c \in Container \ behind :
    /\ c \in Present => c[1] \in Wanted(config)
    /\ c \in Listed(config) => c \in Present /\ container[c].running
=============================================================================
