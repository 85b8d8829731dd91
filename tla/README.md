# RoostOS in TLA+

RoostOS turns a Linux host into a household router: a Python daemon owns the
network and the bedtime rules, a web application edits the configuration, small
clients on workstations enforce screen time. This directory holds TLA+ models
of the parts whose correctness depends on ordering, failure or time, the TLC
configurations that check them, and machine-checked proofs about the core.

    tlc  -config MCEnforcement.cfg MCEnforcement.tla      model checking
    tlapm EnforcementProofs.tla                           proofs (any *Proofs.tla)

## 1. Inventory

| Part | State it keeps | Operations | Talks to |
|---|---|---|---|
| Daemon `roostos-core` (`daemon/dbus_service.py`) | `_config`, `_firewall_manager` | D-Bus handlers, `reload_config`, start, stop | configuration directory, nft, state.db, signals to clients |
| Scheduler and AllowanceTracker (`scheduler.py`, `daemon/allowance_tracker.py`) | `currently_blocked`, `allowance_usage`, `temporary_bypasses`, `_last_allowance_date`, the loop's task | check, grant, remove, start/stop loop | the kernel's set `blocked_clients`, active leases, policy routes |
| State database (`state_db.py`) | `active_leases`, pending UPnP requests | upsert, remove, list | Kea's lease file as fallback |
| Firewall and other subsystems (`firewall_manager.py`, `subsystems/`) | rendered files, kernel state | `update`, in dependency order | nft, systemd, Kea, hostapd |
| Configuration repository (`repository.py`, `git_engine.py`) | active and staged directory, git history | save, commit, discard, rollback, listeners | the daemon through `GetConfig` |
| Household and settings (web routes, `config_adapter.py`, `upnp_handler.py`, fw commands) | devices.yaml, system.yaml, network.yaml, firewall.yaml, plugins.yaml | edit a section of the overlay or of the active file | repository, daemon |
| Setup (`setup_tool.py`, `wizard.py`) | the same files, all at once | guided setup, wizard by role | the files |
| TimeGuard (`roostos-timeguardd`) | state.json, its copy in memory | tick, MQTT message, PAM check, lock | logind, loginctl, MQTT |
| Cluster (`cluster_manager.py`, `cluster_sync.py`, `cluster_replicator.py`, web `services/cluster.py`) | join tokens, roster, heartbeats, pending commands, manifests | join, adopt, heartbeat, queue, promote, demote, sync, failover | HTTP between nodes, `SaveNodes` of the daemon |
| Edge gateway (`edge_*.py`, `ingress_helper.py`, web `routers/edge*.py`) | bootstrap tokens in memory and in registers, gateways, peers, routes, the hub's netdev file | generate, connect, create and delete peer and route | VPS over HTTP, WireGuard |
| Alerts and telemetry (`alert_manager.py`, ...) | active alerts, history | evaluate, acknowledge, dispatch | VictoriaMetrics, webhooks |
| Applications (`plugins_sync.py`, `catalog_manager.py`, `source_builder.py`, `build_sandbox.py`) | plugins.yaml, local catalog, clones, images, containers, proxies | import, build, install, toggle, delete, synchronise | Docker, git |
| Backup, certificates, updates | archives, key files, packages | back up, restore, issue, order, install | gpg, ACME, DNS provider, apt/dnf |
| Sessions, accounts, domain accounts (`auth.py`, `identity_manager.py`) | codes, tokens, accounts, users.json | log in, exchange, edit accounts | PAM, Samba |
| Command line, SDK, views | none of their own | requests, files | D-Bus, HTTP |

How they interact. The web application never writes the active files while a
user edits: routes read the overlay of staged over active sections, save to the
staged directory, and one commit moves the files. The daemon and the commands
write active files. Each side learns of the other's writes only by loading
again: almost every daemon handler begins with `reload_config`, which also
rewrites the firewall ruleset and synchronises the containers. The tracker
decides who is blocked and emits *deltas* against its own view of the kernel's
set, which the ruleset load empties.

What is hard here:

- two processes and a kernel hold copies of the same facts and change them
  without telling each other (tracker and nftables set; daemon and files; web
  and daemon; a command's memory and the web application's; TimeGuard's memory,
  its file and the PAM check);
- files are truncated and rewritten in place, as a whole section, from a view
  that may be old, read by other processes at any moment, and survive crashes in
  any state;
- errors of external commands are logged and swallowed, so the program goes on
  with a view that reality did not follow;
- threads and requests overlap where nothing locks (alert evaluations, update
  installations, enrollments that wait for the daemon, builds that time out);
- time: windows over midnight and the end of the week, counters reset by
  whoever looks first on a new day, extensions, tokens and codes that run out.

`PROJECT.json` lists every component with what is modelled of it, and every
hazard at its line with the property that covers it.

What makes each part correct, in a line. *Enforcement:* the packet filter drops
whom the tracker blocks, no one else, and not a device with a live extension, unless
a command failed or somebody went behind the tracker.
*TimeGuard:* a used-up user is locked out today and only today. *Configuration:*
what the user committed is what the daemon runs with, whatever is interleaved or
crashes; an edit changes what it names and nothing else. *Cluster:* takeovers
from a silent controller only, commands in order, replicas equal to the master,
nobody enrolled is lost. *Edge:* a token works once, two peers never share an
address. *Alerts:* an alert lives as long as its condition. *Applications:* the
containers are the enabled plugins; a confined build reaches what somebody agreed
to. *Access:*
rights end when they are taken away and a token's life is over.

## 2. Modules

### Scheduler, Enforcement (`MCEnforcement`, `EnforcementProofs`)

`Scheduler` is `scheduler.py`: `IsScheduleActive` over a clock of minutes in a
cycle of days, and `WindowCovers`, a calendar reading of the same window that
knows nothing of the code's cases.

`Enforcement` is the tracker inside the daemon. Variables and code:

| Variable | Code |
|---|---|
| `disk` | the configuration directory, a member of `Config` or `Broken` (does not load) |
| `up`, `config` | the process, `daemon._config` (`NoConfig`: the attribute is not set) |
| `armed`, `due` | the task `_scheduler_loop`, its sleep is over |
| `now`, `stale` | the wall clock; `_last_allowance_date` is not today |
| `usage`, `bypass`, `blocked` | `allowance_usage`, `temporary_bypasses`, `currently_blocked` |
| `kernel` | members of the nftables set `blocked_clients` |
| `leases` | table `active_leases` |
| `drift` | history: why the kernel may hold another membership of a device than the tracker believes (a failed command, `fw block` and `fw unblock`, a flush) |

The handlers and the check have no `await`, so each is one action. `LoopCheck`
is a turn of the loop, `GrantTimeExtension` and `RemoveTimeExtension` include the
check they run, `StartGood` the ruleset load, the creation of the task and the
check of `start_loop`; `StartBroken` is a start on a directory that does not
load. `ReloadConfig` stands for every getter that reloads. `Stop` is a crash or
a stop, with the kernel's ruleset kept, or lost with the host. Any set of nft
commands of a check may fail, as may a ruleset load. `FwBlock` and `FwUnblock` are
the commands `fw block` and `fw unblock`, which change the kernel's set without
telling the daemon, at any time: a device blocked by hand stays cut off through an
extension, until a ruleset load or a check that lets it out.

Abstractions. Durations of extensions: a live one runs out at any moment
(`BypassRunsOut`). Usage saturates at `UsageCap`, at or above every limit, so
every comparison with a limit is exact. With an empty lease table the code reads
Kea's lease file, so any set of devices may be online. The node has the gateway
role, in which the firewall subsystem runs. Signals and notifications are left
out: they change no state of the daemon. Targets are resolved addresses: people,
tags and groups are data. The loop is not forced to run within its minute.

### TimeGuard (`MCTimeGuard`, `TimeGuardProofs`)

The main loop is split where another thread or process can see the difference:
`Poll`, `VisitUser` (entry, reset, read), `Charge` (write back), `Check`,
`Lock`, `Save` (truncate) and `FlushSave` (text). The MQTT thread is `Message`,
`MessageSave`, `MessageFlush`. `Login` is a login that passes `pam_check`, in
its own process, against the file as it is at that moment. `Crash`, `Start`,
`Midnight`, `PollFails` and `LockFails` are the environment.

A tick is 30 seconds and a started tick counts whole. The two reads of the
remaining time before the write are one (a message between them has the outcome
of one before the first or after the write). Two writers with the same file open
leave either text, or a mix that does not parse (`Torn`). A disk-full error in
`save_json` and the heartbeat message are left out; `pam_check` is called with a
user name.

### ConfigStore (`MCConfigStore`, `ConfigStoreProofs`)

Two directories of three files (`devices`, `schedules`, `firewall`, the ones that
refer to each other or have two writers), the daemon's parsed copy, a commit in
progress and the git history. `CommitStart`, `CopyBegin`, `CopyEnd`, `Remove`,
`GitCommit` are one commit, file by file in any order of `listdir`; `copy2` and
`save_config_file` truncate first, and a truncated file loads as an empty
section. `GitCommit` ends with the call that makes the daemon reload under way
(`asked`); the listener's and the route's own call are one, as they carry
nothing. `UpdateDevice`, `UpdateFirewallRule` and `ApproveRequest` with `SaveEnd`
are the daemon's writers; deleting is the same action with another list.
`EditSchedules` is the administrator. `WebCrash` and `Restart` are crashes. Text that is not YAML, or that
its schema refuses, would make the load of the whole directory fail; no writer of
this module leaves any (`Settings` has the one that does).

Abstractions. A section is the set of things registered in it, schedules the set
of devices they name. `git checkout` is one step. A legacy firewall section inside
schedules.yaml is left out. At the start setup has written devices.yaml and
schedules.yaml. `outside` remembers a change the daemon has not been told of.

### CommandQueue, ClusterSync (`MCClusterSync`, `ClusterSyncProofs`)

`ClusterSync` is a worker's sync agent and the controller's side of its requests.

| Variable | Code |
|---|---|
| `files`, `replica` | the configuration directory of the controller and of each worker |
| `ctrl`, `pending` | the controller's web process, its `_pending_commands` |
| `pc`, `answer`, `reply` | where `_sync_loop` is, the commands it got, the manifest or bundle in the making or in hand |
| `eligible`, `failures`, `promoted` | `auto_failover` with a positive priority, `consecutive_heartbeat_failures`, `is_promoted_master` |
| `late` | a heartbeat the agent has given up and the controller may still handle |
| `queued`, `received`, `silent` | history: commands queued, commands run, rounds without an answer |

A round is `HandleHeartbeat` (the controller's half, which pops the commands),
`ReceiveAnswer`, `ExecuteCommand` for each, `FetchSlice`, the manifest file by
file (`ReadFile`, `CompareManifest`) and, if it differs, the bundle file by file,
then `ApplyFile` for each. `Failure` is the handler around the whole round:
a failing slice counts like a failing heartbeat, a failing manifest or bundle
does not count (`FetchFails`). The sleep is no state: an agent in `waiting` has
asked or is about to.

`CommandQueue` is the promise about commands: in order and at most once, with
losses at either end. `ClusterSync` implements it with the commands of the answer
followed by the controller's as the abstract queue. It is a weak promise because
the code keeps no stronger one: the controller forgets a command when it answers.

Abstractions. A file's hash is its content. `UpdateManager` is called with a
keyword its constructor does not take, the error is swallowed: `ExecuteCommand`
records that the command ran. One abandoned heartbeat per node is under way at a
time. `Counted` saturates at the threshold. Commands are distinct.

### The other components (`Components`, `MCComponents`)

Each is a module of its own with its state, one action for each operation, the
other users of its files as actions of their own, and one property aimed at its
hazard. What a module leaves out is in the comment at its head.

| Module | Code | State | What interferes |
|---|---|---|---|
| `Household` | devices.yaml through `devices.py`, `family.py`, `dhcp.py`, `DeviceService`, the daemon's handlers, `upnp_handler.py`, rollback, restore and replication | active and staged document, `daemon._config`, the UPnP queue | the daemon writes, and whole files are put in place, while edits are staged; approvals write the daemon's old copy |
| `Settings` | system, network, firewall and plugins files through the web routes, the daemon and the fw commands | active and staged settings, what an editor has read, what an open page shows | whole-section writes of several editors; a firewall file that no load accepts |
| `Setup` | `setup_tool.py`, `wizard.py` | which files, and which parts of network.yaml, hold what the household made, the WAN and what is opened to it | a save that fails, edits meanwhile, a second setup |
| `Firewall` | `firewall_manager.py`, `firewall_services.py`, `setup_policy_routing` | configuration on disk, parsed, written, loaded; routes and rules of the marks | edits, failing commands, a reboot between reload and check |
| `EdgeGateway` | `edge_manager.py`, `ingress_helper.py`, `edge_peers.py`, `edge.py`, the edge commands | active and staged gateways with peers and routes, the hub's file | staging, discard, commands on the active file |
| `EdgeTokens` | `edge_token_store.py` | the web process's memory, its register and that of another directory, what a command has loaded | two processes, writes that fail, restart, expiry |
| `ClusterRegistry` | `services/cluster.py`, `cluster_manager.py`, `SaveNodes`, the cluster commands | active and staged roster, calls on the bus, enrollments waiting, tokens, epoch | late and failing answers of the daemon, adoptions, promotion, restart |
| `Alerting` | `alert_manager.py`, `notifications.py` | active alerts, each evaluation's place and what it has seen | overlapping evaluations, failing queries, acknowledgement |
| `Apps` | `plugins.py`, `catalog_*.py`, `source_builder.py`, `plugins_sync.py` | sources, clones, images, catalog, plugins.yaml, the containers by plugin and name | failing Docker calls, containers stopped by hand, restarts without synchronisation, plugins registered again with other containers |
| `SourceBuilds` | `build_sandbox.py`, `sandbox_network.py` | each build's stage, what its source asks for and its user sees and chooses, its proxy, Docker's work | timeouts, fallbacks, two processes, work that outlives its client, the other build's proxy |
| `Backup` | `backup_handler.py` | directory, archive, manifest, the entry being copied | other writers, a damaged archive, a dying daemon |
| `Certificates` | `cert_manager.py`, `acme_service.py`, `cli_certs.py` | root, entities' and domains' keys and chains, DNS records | three processes with a root each, kills, orders refused part way |
| `Updates` | `update_manager.py`, `updates.py`, `update_cmd.py` | packages, archives by second, each with the version of every document, each installation | several installations, documents edited in place while they are archived, package managers that fail half way, a reboot |
| `Sessions` | `auth.py`, `routers/auth.py`, users of `system.py` | codes, tokens with role, accounts | staging and discarding of accounts, expiry |
| `DomainAccounts` | `identity_manager.py`, `identity.py`, `LDAPAuthProvider` | memory, of one manager or two, users.json | torn and failing writes, a role that ends the next load, restart |

History variables (each marked `history` at its declaration) record only what a
property speaks of: which files an edit named, who was overtaken, what failed.

`Components` is the sum of these fifteen and of the safety of `ClusterSync`: each
takes its variables from a pool of shared and own names (INSTANCE ... WITH), a
component `part` is chosen in `Init`, every step is one of it, and its property
is asked where it is the part. These components exchange no state in the models,
so nothing is lost by not interleaving them, and one run checks them all. Where
two of them touch the same files in the code, the writes of the other are actions
of the module itself. The constants are free, under `ComponentsAssumption`, the
conjunction of the assumptions of the components; `MCComponents` gives them small
values, and `MCFirewallCases` the household configurations of `Firewall`.

## 3. Runs

| Run | Shows | Bounds |
|---|---|---|
| `enforcement` | the tracker, its counters and the kernel's set stay in the relations of the eight properties, with commands of the command line behind it | one device, two schedules, two days of three minutes, three configurations, `UsageCap` 3 |
| `enforcement_loop` | *violation*: a daemon started on a broken directory never evaluates | one device |
| `enforcement_usage` | *violation*: usage outruns the day | `UsageCap` 6 |
| `timeguard` | allowance, file and lock stay together through threads, crashes and midnight | one user, two ticks a day, two days, one message, one crash a day |
| `timeguard_lock` | *violation*: a lock message is overwritten by the loop | as above |
| `timeguard_save` | *violation*: a login during a save is admitted | no messages |
| `config_store` | commits, daemon saves, rollbacks and crashes | one device, one rule, one git commit |
| `config_loads` | *violation*: deleting a targeted device leaves a directory that does not load | no crashes |
| `config_rollback` | *violation*: a rollback keeps files added later | no crashes |
| `cluster_sync` | a lost controller is replaced, a living one's files reach the replica | one worker, two files, one command, threshold 2 |
| `components` | the nineteen properties of the sixteen components | below |
| `firewall_loads` | *violation*: no compiled ruleset can be loaded | three households |

Why the bounds are enough. In the tracker nothing of one device depends on
another (sets and dictionaries keyed by address), so one device has every
behaviour a device can have; two schedules are needed for a window and a limit
that meet, and for two limits charging in one check. Three minutes a day is a
window over midnight, one within a day and a minute outside both; two days are
enough for "the day before" to differ from today and to wrap. In TimeGuard the
users share the file, the loop and the lock: two users were run for the
invariants (963 thousand states) and one is kept, with the liveness. In
ConfigStore one device is registered or not and named or not; three files
give commits of one and of two files; crashes and restarts are unbounded.
ClusterSync is checked twice because its state space multiplies: liveness with
one command and a threshold of two, safety and types (in `components`) with two
commands, which give an order to confuse, and the default threshold of three. Workers
share nothing but the controller's files, which change at any time; two files
give a bundle applied by half and a manifest read over a write.

In `components` (1.74 million states): *Household* two people, a building, a
room, a device, two requests: an edit that stages and one by the daemon, or a file
put in place under it, in either order (250,908 states). *Settings* one record,
forward, rule, bridge, subnet and link and three edits: two editors of a file and
an old page. *Setup* two interfaces, two setups, so that the second moves the WAN;
the household uses network.yaml and the Wi-Fi, where the guided setup replaces some
parts and merges others (63,741). *Firewall* three households (an isolated bridge
without zones, zones of which one has the tunnels, no local network) whose tunnels
change places (8,352). *EdgeGateway* two gateways, two peers, octets 2 to 4:
every first-free choice and the end of the range. *EdgeTokens* three tokens: one in
memory, one in a command's hands, one in the other register (47,200).
*ClusterRegistry* two nodes, one token, two changes: an enrollment that waits and a
change that overtakes it. *Alerting* two rules and two evaluations. *Apps* two apps
of two containers, one meant for another node, two commits, three changes (71,881).
*SourceBuilds* two builds, one of each process, eight manifests (one approves its own
endpoints, one names another network, one wants the socket), three hosts
(145,008). *Backup* a file and a directory, one save (65,430). *Certificates* one
entity, one domain with two names, three key pairs, three processes (266,196).
*Updates* a web and a command installation, two documents, two seconds (68,649).
*Sessions* two users of which one is in an administrators' group, two logins, codes of
one and tokens of two units, three units of time (190,114). *DomainAccounts* the
built-in account and three more, one of which is another spelling of the built-in
one's name and one `admin`, which has the administrator's role without a record, two
changes (162,210). Only
these bounds stop a behaviour, so `components` does not check deadlock.

Fairness. `PassMinute` and `LoopCheck` are weakly fair: time passes, and asyncio
runs a task whose sleep is over. TimeGuard's two threads are weakly fair;
`Poll` and `Lock` are strongly fair: a command retried at every tick does not
fail each time. In ConfigStore a commit under way and an opened save are weakly
fair and `AnswerWeb` is strongly fair: the daemon, busy again and again, gets to
the call in its queue. In ClusterSync an agent's own steps and its failing
contacts with a controller that is gone are weakly fair (every request has a
timeout), and a request is strongly fair: one repeated in each round does not
fail in each. That includes the controller's own loading of its configuration,
which the manifest and bundle routes begin with. No user, message, crash or
administrator is obliged to act in any model. The other components promise
nothing that must happen: their specifications have no fairness.

## 4. Properties

Enforcement: `SetFollowsTracker` (the kernel's set and the tracker's view part only
through a failed command, the command line or a flush), `GrantHonoured`, `LoopHasConfig`, `WindowMatchesCalendar`,
`ExhaustedStaysBlocked` and `NewDayIsFresh` (actions), `ExpiredBypassSwept`
(liveness). TimeGuard: `PamAgrees`, `BudgetHolds`, `LimitEnforced`, `FileHealed`,
`DenialIsOfToday`. ConfigStore: `DaemonCurrent`, `CommitKeepsView`,
`CommitTakesEffect`. ClusterSync: `CommandsInOrder` (the refinement of
`CommandQueue`), `FailoverJustified`, `FailoverHappens`, `ReplicaConverges`.

| Property | Says |
|---|---|
| `ReferencesHold` | devices and rooms refer to nothing that is gone, but for what the routes that look nothing up have deleted or named |
| `CommitChangesOnlyEdits` | a whole-file commit changes no device but those the staged requests named and those that the daemon, a rollback, an archive or a controller changed meanwhile |
| `SettingsKept` | every setting is in the files what the accepted edits made it, through the edits of others, also where a firewall file no longer loads |
| `SetupKeepsHousehold` | what the household made outlives guided setups, but for the nodes, interfaces and bridges these make anew and a declined Wi-Fi; what a setup opens is open on its WAN only |
| `PolicyHolds` | isolated networks stay apart and refused services refused whatever the zones; after a check without a failed command, what a device with a gateway opens is sent there and never to the WAN |
| `AddressesDistinct` | no two peers share an address, in any copy or in the hub |
| `TokenAdmitsOnce` | a bootstrap token admits one home server, but for one with a copy out of reach: in a command's hands, in another directory's register, in one that cannot be written |
| `EnrollmentHolds` | a pairing token admits one node; nobody who was told so, and no route, is lost |
| `ResolvedWithReason` | an alert is resolved only if its metric fell, a query failed or another evaluation was past it |
| `ContainersFollow` | what a wanted plugin lists runs and no container of an unwanted plugin is there, but for what Docker failed at, what was stopped by hand, and changes a restart has not synchronised |
| `BuildsConfined` | a build its source leaves confined reaches what the users of the builds with a listening proxy agreed to, or its source approved in advance; no proxy stays; the image is of a build that ended well or late |
| `RestoreAnswersTruly` | what a restore answers is what became of the directory; a failure midway tears one entry at most |
| `CertificatesUsable` | certificates verify unless the root was contested; a certificate has its key unless two wrote at once or one was killed; challenges stay only of orders refused or killed, and where the provider kept them |
| `UpdatesBackedUp` | an archive nobody else has opened has every document when packages change, each by itself as it was since the installation began, or torn by an edit under way |
| `RightsExpire` | one session per login; an administrator's rights end at most a token's life after the role |
| `DomainKept` | logins find what the accounts in memory say, by names in any case, and the built-in administrator with the passwords in the code; roles follow |

Exceptions in these statements ("but for ...") are the code's own gaps, found by
TLC while the property was stated; a history variable delimits each and the comment
at the property names each, so that the rest is still checked. Section 6 lists them. Each property is stated in words above its definition and
is broken by a one-line mutant of the code that `PROJECT.json` names and the
model carries next to the original.

## 5. Proofs

Every type invariant, safety invariant and action property of the passing runs
is proved for every value of the constants, and so is the refinement. Eight
modules hold the theorems.

| Theorem | Property | What makes it inductive |
|---|---|---|
| **EnforcementProofs** `TypeCorrect`, `SetFollows`, `ExtensionHonoured`, `LoopConfigured` | `TypeOK`, `SetFollowsTracker`, `GrantHonoured`, `LoopHasConfig` | `Amnesia` (a stopped daemon remembers nothing: else one could start with blocked devices in memory and an empty kernel) and `LiveNotBlocked` (the tracker, not only the kernel, lets a live extension through); a check's deltas close or open the gap for exactly the devices they name |
| `ExhaustedKept`, `DayStartsFresh` | `ExhaustedStaysBlocked`, `NewDayIsFresh` | within a day a check only adds to `usage`, on a new one it begins with empty counters; the cap is above every limit |
| `WindowsMatch` | `WindowMatchesCalendar` | division and remainder of a minute by the length of the day, done once in lemmas |
| **TimeGuardProofs** `TypeCorrect` | `TypeOK` | |
| `PamFollows` | `PamAgrees` | `Quiet`: without messages the loop is the only writer, and between ticks the file says what the memory says |
| `RestartsKeepBudget` | `BudgetHolds` | `Dated` (no entry is of a day to come) and `Counted` (charged plus remaining is the limit, a tick for each crash and one unsaved) |
| **ConfigStoreProofs** `TypeCorrect` | `TypeOK` | |
| `DaemonStaysCurrent` | `DaemonCurrent` | `CopyCurrent`, which leaves out the moments when a notice is under way |
| `CommitsKeepView` | `CommitKeepsView` | `CopiedArrives`: what has been copied is in the active file until it is unlinked |
| **ClusterSyncProofs** `ImplementsQueue` | `CommandsInOrder` | the queue of a node is its answer followed by the controller's list; every step is one of `CommandQueue` or a stutter |
| `TakesOverJustified` | `FailoverJustified` | `LagBehindSilence`: an agent counts one failure more, at most, than heartbeats went unanswered |
| **HouseholdProofs** `ReferencesKept`, `CommitsKeepDevices` | `ReferencesHold`, `CommitChangesOnlyEdits` | in each document, the daemon's copy and those that may come back included, what hangs is among `unchecked`; staged and active differ in edited or overtaken devices only |
| `SettingsStayKept` | `SettingsKept` | `WholeSections`: an editor has the whole section in hand as it read it, and its new one differs in one setting |
| `HouseholdOutlivesSetup` | `SetupKeepsHousehold` | the rules a setup has in hand bear its name and its WAN; a name stands for one rule |
| **ServicesProofs** `ContainersAsConfigured` | `ContainersFollow` | with the types alone; what a synchronisation makes of each container of a plugin is a lemma |
| `BuildsStayConfined` | `BuildsConfined` | what a confined build's proxy lets through was agreed to or approved in advance while it works, it listens only then, and an answer is the last of a build |
| `BackupsPrecede` | `UpdatesBackedUp` | `Archived`: of every document in an installation's archive, which versions it may be, and that it is in it once the packages change |
| `RestoresAnswerTruly` | `RestoreAnswersTruly` | `Midway`: what is left to copy is untouched, the rest is as a restore makes it, and one entry is open at most |
| `AlertsResolvedWithReason` | `ResolvedWithReason` | `Watches`: an alert nothing speaks against is seen by, or ahead of, every evaluation |
| **AccessProofs** `RightsEnd` | `RightsExpire` | `Current`, `OneEach`, `Earned`: a token with an administrator's role was issued to one |
| `DomainLogins` | `DomainKept` | `FileFollows`: between requests the file is the memory, or was never written, or was not whole when it was read |
| `TokensSingleUse` | `TokenAdmitsOnce` | `SpentIsGone`: a used token that was within reach is nowhere left: not in memory, in a register, or in what a command will write |
| `CertificatesStayUsable` | `CertificatesUsable` | uncontested, one root, which every issuer has read; a certificate has its key unless its writer is between the two files; challenges are of an order under way or in `left` |
| **ComponentsProofs** `AddressesStayDistinct` | `AddressesDistinct` | every copy of the list, staged, active or in the hub, is sound by itself, one record for an id |
| `EnrollmentKept` | `EnrollmentHolds` | `RosterAgrees` relates view, active file and the calls under way of every node not overtaken; `RoutesCarried` what a waiting enrollment will write |
| `PolicyKept` | `PolicyHolds` | `RoutesSet`: what a check without a failed command sets stays until the daemon parses another configuration; marks of two gateways differ, and what is not another gateway's goes to the main table |
| `TypeCorrect` | `TypeOK` | the components' invariants; and what an editor has in hand has its types (`SettingsTyped`), what is left to an evaluation is an end of the rules (`AlertingTyped`) |

Assumptions. The theorems use the assumptions on constants that the modules
declare (`CalendarAssumption`, `ConfigAssumption` and `CapAssumption` of
Enforcement; `LimitAssumption`, `MarkAssumption`, `BoundAssumption`, ... of
TimeGuard and ConfigStore; `ComponentsAssumption`) and nothing else. They say
that markers such as None are no values, that bounds are numbers, that lists are
lists of what they should be. TLC evaluates each of them in a run.

From component to whole. A component of `Components` is proved by its own
invariant over its own specification (`HouseholdHolds`, `RegistryHolds`, ...).
`XPart` says that a behaviour of the whole is one of the component `X` from its
first state on, or never: `part` does not change. The theorem combines the two
and states what the run checks.

What the provers needed. Records are unfolded once, in a lemma about the helper
that builds them (`AppendSound`, `StateWith`, `BuildGoes`, `ProcessGoes`); the
steps of `Next` use the lemma. Where two actions share a tail (`Stages`,
`IssuingKeeps`, `SavingKeeps`) the tail is a lemma. The first free octet and the
last record of an id need least and greatest elements of sets of numbers
(`Least`, `Greatest`, by the well-foundedness theorems of the library).

What the proofs corrected. Some statements held on the small instance and not in
general, or a model said less than the code; both showed as a step that would not
go through. `BuildsConfined` took a host for outside that a manifest reaches by a
name under one of the user's list (`Begins`, `Named`); `Adopt` rewrites the
active file under calls that are under way and do not have the node (`missed`);
domains may have a name in common, and a challenge is of any order for its name
(`CertificatesUsable`); an evaluation has passed an alert only when its rule is
neither seen nor ahead (`Overtaken`); gateways and zones may repeat an id, of
which the code's dictionaries keep the last (`Latest`, `MarkOf`), and a zone may
list the WAN interface under another name (`ForwardingHolds`). `Bare` of
`MCFirewallCases` lists a gateway twice.

Model-checked only. Liveness under fairness is beyond the proof system here:
`ExpiredBypassSwept`, `LimitEnforced`, `FileHealed`, `DenialIsOfToday`,
`CommitTakesEffect`, `FailoverHappens`, `ReplicaConverges`.

## 6. What the runs found

Seven statements of the documentation, the docstrings or the comments are not
what the code does; each has a violation run and an entry under "findings" in
`PROJECT.json` with the quotation. In short: a daemon started on a broken
configuration never enforces bedtime; usage is counted per schedule and per check
rather than per minute; a remote lock can be lost; a login can slip through
during a save; deleting a targeted device makes the configuration unloadable; a
rollback is a mix; the compiled firewall ruleset closes its input chain too early
and nft refuses it.

Seen while modelling, without a run of its own:

- Enforcement: a reload flushes blocked_clients and later checks emit no delta,
  so a device that policy blocks stays connected until its state changes; a device
  blocked with `fw block` stays cut off through an extension, and one let out with
  `fw unblock` stays connected through bedtime.
- TimeGuard: a crash inside a save leaves a file that does not parse, and the start
  after it hands out the allowance again.
- Loading: a file that is not YAML, or that its schema refuses, is to count as
  empty; the warning about it names `sys`, which `models/__init__.py` does not
  import (184, 190), so the NameError makes the whole directory fail to load.
  `fw forward --proto both` writes such a file.
- Settings: new names for the host reset the DNS, cluster and other parts of
  system.yaml (`system_service.py:218`); the switch of the resolver fails when a
  plugin is installed; a network page saves back a whole section it read long
  before; the topology page and its forms fail once a subnet or a link is saved,
  for it comes back as a dictionary without the attributes they read
  (`topology.py:58,179,218`).
- Firewall: the sets quarantined, schedule_blocked and admin_blocked are declared
  and never filled; the set in use, blocked_clients, drops LAN traffic too; the
  blocks of the declared sets look at the WAN only, so they would not stop a device
  with a gateway of its own in a zone; the forward chain accepts nothing towards a
  gateway interface that no zone has, so such a device is sent to its gateway and
  dropped there; established connections are accepted before any drop; marks are
  set in a chain of type nat, which only a connection's first packet passes, so
  later packets follow the main table; without a successful `ip` command a device
  with a gateway leaves by the WAN; after a reload the marks are renumbered while
  the routes wait for the next check; every check adds its `ip rule` again;
  forwarded ports are translated and then not accepted by the forward chain.
- Household: the routes that delete people, buildings and rooms leave references
  that keep the directory from loading; the family's pause and dinner time remove
  extensions and block nothing; a bonus replaces a longer extension; a rollback, a
  restore or a replication under a staged edit is undone, for the devices it
  changed, by the commit of that edit.
- Cluster: `promote_node` saves settings that load as the defaults (first epoch,
  no accounts); tokens have no expiry in the web application and the `token`
  command's are never accepted; the replica's system.yaml names the controller.
- Edge: saving a gateway moves it to the end of the list the next request takes
  the first of; a revoked peer stays in the hub's file; a consumed token that is in
  the register of another directory, or in one that could not be written, comes back
  with the next load and admits again.
- Apps: a plugin registered again with other containers leaves the old ones running,
  for what goes is decided by plugin; an update of a source builds the commit that
  is checked out already; `DeleteLocalApp` asks only the staged view.
- Builds: `approved_endpoints` in a source's own manifest are let through and never
  shown; a source may approve itself, name another network (`bridge`, `host`) than
  the isolated one, and ask for the Docker socket; proxies listen at every address,
  so a build may use another's; a networked build in a container always fails
  (`docker run` has no `--build-arg`); without rootless the answer is success and
  Docker does not have the image.
- Backup: a file caught half written gets a valid checksum; the answer to a restore
  that failed midway is the answer to a refused one.
- Certificates: a root made by two processes at once, or by one that died between its
  two files, may never verify again; an order the provider refuses part way leaves its
  challenges, which are made before the `try` that removes them
  (`acme_service.py:170`).
- Sessions and accounts: a role outlives its user's demotion for a token's life;
  the last administrator can be demoted.
- Domain accounts: an update stores any role, and the next start stops loading at
  that account, loses those after it and writes the loss with its next change; the
  built-in administrator gets in with passwords written in the code, with or without
  a password of its own; two first requests make two managers with a copy each.
- Updates: an installation whose archive failed goes on without one; a document that
  is being edited is archived half written; the update settings of system.yaml reach
  nobody (the default repository has no `config_dir`, the command gives none), so
  every installation has the defaults; a reboot outside the window is never made;
  saving the settings always fails.
- Setup: the guided setup makes nodes.yaml, the interfaces and the bridges anew and
  drops a Wi-Fi that is declined; rules of a service nobody asks for this time stay,
  on the old WAN; the setup page goes on answering "unconfigured".

## 7. Not modelled, and the plan

Not modelled for good: text generators (Kea, hostapd, systemd, tc; of nft all but
the nesting and the forward chain), external tools, cryptography, the JavaScript
views, packaging, formatting of requests, the SDK, pages and diagnostics that
change nothing. Live events (a queue of 100 for each browser, whose listener is
dropped when it is full) and the order of the subsystems (a pure sort) would each
be a module whose properties hold by its shape.

Within modelled parts: NAT and DNS hijacking, the family's buttons over the
extensions of Enforcement, the discovered topology, alert rules, the certificate's validity
period, what a promoted node's controller does afterwards. `PamAgrees` is of the
moments between ticks (the moment inside a save is `DenialHolds`), `BudgetHolds` of
starts from a file that parses. Roles of sessions are those of the PAM provider; those
of the domain are in `DomainAccounts`. Whether a device that is sent to its gateway is
let through to it depends on the zones and is not promised.

Planned:

1. `ConfigStore` under `Household`: the file-by-file commit as the implementation
   of the atomic one, step by step.
2. Two workers that promote themselves, composed with `ClusterRegistry`.
3. The exceptions a history variable delimits in `EnrollmentHolds`, narrowed as far
   as the code allows.
