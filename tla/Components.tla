----------------------------- MODULE Components -----------------------------
(***************************************************************************)
(* The components that keep state of their own and exchange none with each *)
(* other in these models, side by side, for any values of their constants: *)
(* a behaviour is one of one of them, the part, and the variables that are *)
(* not the part's stay None.                                               *)
(***************************************************************************)
EXTENDS Naturals

\* The constants of the components; one whose name stands for something else in another
\* component has a name of its own here, which the INSTANCEs below substitute.
CONSTANTS
  None, Torn, Absent,
  \* Household
  Person, Building, Room, Mac, Port, MaxRequests,
  \* EdgeGateway
  Edge, Edge01, Peer, Route, Home, FirstSite, FirstMobile, LastOctet, HomeOctet, EdgeNode,
  \* EdgeTokens
  Bootstrap,
  \* ClusterRegistry
  Node, JoinToken, Admin, Controller, Epoch, MaxRosterChanges,
  \* ClusterSync
  Worker, NumFiles, Contents, Truncated, Edited, Threshold, MaxCommands,
  \* Alerting
  AlertRules, Critical, Evaluation, Channel, Reluctant,
  \* Apps
  App, Box, Main, Elsewhere, MaxCommit, MaxChanges,
  \* Backup
  Plain, Tree, MaxVersion,
  \* Sessions
  User, Grouped, Service, Client, CodeLife, TokenLife, MaxTime, MaxLogins,
  \* DomainAccounts
  BuiltIn, Username, Alike(_), Alias, Member, Password, HardWired, Reading, MaxSaves,
  \* Certificates
  Entity, Domain, Names(_), MaxKeys,
  \* Setup
  Interface, Used, MaxRuns,
  \* Updates
  Thread, Conf, Package, MaxSecond,
  \* Settings
  DnsName, Forward, FwRule, Bridge, Subnet, Link, MaxEdits,
  \* Firewall
  Iface, Wan, Gateway, Config,
  \* SourceBuilds
  Sandbox, Web, Host, Own, Under(_), Outside, Begins(_), Manifest, Choice

VARIABLES
  part,
  telling, unchecked, edited, overtaken, earlier, requests,
  hub, keyed, created,
  register, beside, command, expired, astray,
  bus, replies, system, routes, linked, missed, added, raced,
  files, ctrl, late, pc, eligible, failures, promoted, reply, replica, queued,
  received, silent,
  over, alerts, told,
  remote, clone, catalog, container, behind,
  entries, version, daemon, before, saved,
  logins, codes, admin,
  users, people, other, spoilt,
  root, domains, records, process, keys, contested, broken, left,
  own, wan, open, setup, runs, granted, apart,
  partial, required, shared,
  invalid, copy, editor, page, edits, wanted,
  disk, text, kernel, route, rule, settled,
  build, proxy, network, jobs,
  active, staged, config, pending, memory, made, uses, tokens, changes,
  answer, thread, excused, image, writing, archive, now, issued

Household == INSTANCE Household
Gateways == INSTANCE EdgeGateway WITH Gateway <- Edge
Tokens == INSTANCE EdgeTokens WITH Token <- Bootstrap
Registry == INSTANCE ClusterRegistry WITH Token <- JoinToken, MaxChanges <- MaxRosterChanges
Sync == INSTANCE ClusterSync WITH Node <- Worker, Content <- Contents, Local <- Edited
Alerting == INSTANCE Alerting WITH Rules <- AlertRules
Apps == INSTANCE Apps
Backup == INSTANCE Backup WITH File <- Plain
Sessions == INSTANCE Sessions
Accounts == INSTANCE DomainAccounts WITH Administrator <- BuiltIn, Person <- Member,
  MaxChanges <- MaxSaves
Certs == INSTANCE Certificates
Setup == INSTANCE Setup
Updates == INSTANCE Updates WITH Document <- Conf, MaxTime <- MaxSecond
Settings == INSTANCE Settings WITH Record <- DnsName, Rule <- FwRule
Firewall == INSTANCE Firewall
Builds == INSTANCE SourceBuilds WITH Build <- Sandbox, Port <- Outside

ASSUME ComponentsAssumption ==
  /\ Household!HouseholdAssumption /\ Gateways!EdgeAssumption
  /\ Registry!RegistryAssumption /\ Alerting!AlertingAssumption
  /\ Apps!AppsAssumption /\ Sessions!SessionsAssumption
  /\ Updates!UpdatesAssumption /\ Firewall!FirewallAssumption
  /\ Accounts!DomainAssumption /\ Builds!BuildsAssumption
  /\ Setup!SetupAssumption /\ Backup!BackupAssumption
  /\ Certs!CertificatesAssumption /\ Sync!SyncAssumption
  /\ Settings!SettingsAssumption

-----------------------------------------------------------------------------
(* Whose a variable is. *)

HouseholdOwn == <<telling, unchecked, edited, overtaken, earlier, requests>>
GatewaysOwn == <<hub, keyed, created>>
TokensOwn == <<register, beside, command, expired, astray>>
RegistryOwn == <<bus, replies, system, routes, linked, missed, added, raced>>
SyncOwn == <<files, ctrl, late, pc, eligible, failures, promoted, reply, replica,
    queued, received, silent>>
AlertingOwn == <<over, alerts, told>>
AppsOwn == <<remote, clone, catalog, container, behind>>
BackupOwn == <<entries, version, daemon, before, saved>>
SessionsOwn == <<logins, codes, admin>>
AccountsOwn == <<users, people, other, spoilt>>
CertsOwn == <<root, domains, records, process, keys, contested,
    broken, left>>
SetupOwn == <<own, wan, open, setup, runs, granted, apart>>
UpdatesOwn == <<partial, required, shared>>
SettingsOwn == <<invalid, copy, editor, page, edits, wanted>>
FirewallOwn == <<disk, text, kernel, route, rule, settled>>
BuildsOwn == <<build, proxy, network, jobs>>

Shared == <<active, staged, config, pending, memory, made, uses, tokens,
    changes, answer, thread, excused, image, writing, archive, now, issued>>
vars == <<part, HouseholdOwn, GatewaysOwn, TokensOwn, RegistryOwn, SyncOwn,
    AlertingOwn, AppsOwn, BackupOwn, SessionsOwn, AccountsOwn, CertsOwn, SetupOwn,
    UpdatesOwn, SettingsOwn, FirewallOwn, BuildsOwn, Shared>>

Idle ==
  /\ IF part = "Household"
     THEN TRUE ELSE telling = None /\ unchecked = None /\ edited = None /\ overtaken
          = None /\ earlier = None /\ requests = None
  /\ IF part = "Gateways"
     THEN TRUE ELSE hub = None /\ keyed = None /\ created = None
  /\ IF part = "Tokens"
     THEN TRUE ELSE register = None /\ beside = None /\ command = None /\ expired = None
          /\ astray = None
  /\ IF part = "Registry"
     THEN TRUE ELSE bus = None /\ replies = None /\ system = None /\ routes = None
          /\ linked = None /\ missed = None /\ added = None /\ raced = None
  /\ IF part = "Sync"
     THEN TRUE ELSE files = None /\ ctrl = None /\ late = None /\ pc = None /\
          eligible = None /\ failures = None /\ promoted = None /\ reply = None /\
          replica = None /\ queued = None /\ received = None /\ silent = None
  /\ IF part = "Alerting"
     THEN TRUE ELSE over = None /\ alerts = None /\ told = None
  /\ IF part = "Apps"
     THEN TRUE ELSE remote = None /\ clone = None /\ catalog = None /\ container =
          None /\ behind = None
  /\ IF part = "Backup"
     THEN TRUE ELSE entries = None /\ version = None /\ daemon = None /\ before =
          None /\ saved = None
  /\ IF part = "Sessions"
     THEN TRUE ELSE logins = None /\ codes = None /\ admin = None
  /\ IF part = "Accounts"
     THEN TRUE ELSE users = None /\ people = None /\ other = None /\ spoilt = None
  /\ IF part = "Certs"
     THEN TRUE ELSE root = None /\ domains = None /\ records = None /\ process =
          None /\ keys = None /\ contested = None /\ broken = None /\ left = None
  /\ IF part = "Setup"
     THEN TRUE ELSE own = None /\ wan = None /\ open = None /\ setup = None /\ runs
          = None /\ granted = None /\ apart = None
  /\ IF part = "Updates"
     THEN TRUE ELSE partial = None /\ required = None /\ shared = None
  /\ IF part = "Settings"
     THEN TRUE ELSE invalid = None /\ copy = None /\ editor = None /\ page = None /\
          edits = None /\ wanted = None
  /\ IF part = "Firewall"
     THEN TRUE ELSE disk = None /\ text = None /\ kernel = None /\ route = None /\
          rule = None /\ settled = None
  /\ IF part = "Builds"
     THEN TRUE ELSE build = None /\ proxy = None /\ network = None /\ jobs = None
  /\ IF part \in {"Household", "Gateways", "Registry", "Apps", "Sessions", "Settings"}
     THEN TRUE ELSE active = None /\ staged = None
  /\ IF part \in {"Household", "Apps", "Updates", "Firewall"}
     THEN TRUE ELSE config = None
  /\ IF part \in {"Household", "Sync", "Updates"}
     THEN TRUE ELSE pending = None
  /\ IF part \in {"Tokens", "Accounts"}
     THEN TRUE ELSE memory = None
  /\ IF part \in {"Tokens", "Setup"}
     THEN TRUE ELSE made = None
  /\ IF part \in {"Tokens", "Registry"}
     THEN TRUE ELSE uses = None
  /\ IF part \in {"Registry", "Sessions"}
     THEN TRUE ELSE tokens = None
  /\ IF part \in {"Registry", "Apps", "Accounts"}
     THEN TRUE ELSE changes = None
  /\ IF part \in {"Sync", "Backup"}
     THEN TRUE ELSE answer = None
  /\ IF part \in {"Alerting", "Updates"}
     THEN TRUE ELSE thread = None
  /\ IF part \in {"Alerting", "Setup"}
     THEN TRUE ELSE excused = None
  /\ IF part \in {"Apps", "Builds"}
     THEN TRUE ELSE image = None
  /\ IF part \in {"Backup", "Accounts"}
     THEN TRUE ELSE writing = None
  /\ IF part \in {"Backup", "Updates"}
     THEN TRUE ELSE archive = None
  /\ IF part \in {"Sessions", "Updates"}
     THEN TRUE ELSE now = None
  /\ IF part \in {"Sessions", "Certs"}
     THEN TRUE ELSE issued = None

Rest ==
  /\ part' = part
  /\ IF part = "Household"
     THEN TRUE ELSE UNCHANGED HouseholdOwn
  /\ IF part = "Gateways"
     THEN TRUE ELSE UNCHANGED GatewaysOwn
  /\ IF part = "Tokens"
     THEN TRUE ELSE UNCHANGED TokensOwn
  /\ IF part = "Registry"
     THEN TRUE ELSE UNCHANGED RegistryOwn
  /\ IF part = "Sync"
     THEN TRUE ELSE UNCHANGED SyncOwn
  /\ IF part = "Alerting"
     THEN TRUE ELSE UNCHANGED AlertingOwn
  /\ IF part = "Apps"
     THEN TRUE ELSE UNCHANGED AppsOwn
  /\ IF part = "Backup"
     THEN TRUE ELSE UNCHANGED BackupOwn
  /\ IF part = "Sessions"
     THEN TRUE ELSE UNCHANGED SessionsOwn
  /\ IF part = "Accounts"
     THEN TRUE ELSE UNCHANGED AccountsOwn
  /\ IF part = "Certs"
     THEN TRUE ELSE UNCHANGED CertsOwn
  /\ IF part = "Setup"
     THEN TRUE ELSE UNCHANGED SetupOwn
  /\ IF part = "Updates"
     THEN TRUE ELSE UNCHANGED UpdatesOwn
  /\ IF part = "Settings"
     THEN TRUE ELSE UNCHANGED SettingsOwn
  /\ IF part = "Firewall"
     THEN TRUE ELSE UNCHANGED FirewallOwn
  /\ IF part = "Builds"
     THEN TRUE ELSE UNCHANGED BuildsOwn
  /\ IF part \in {"Household", "Gateways", "Registry", "Apps", "Sessions", "Settings"}
     THEN TRUE ELSE UNCHANGED <<active, staged>>
  /\ IF part \in {"Household", "Apps", "Updates", "Firewall"}
     THEN TRUE ELSE UNCHANGED config
  /\ IF part \in {"Household", "Sync", "Updates"}
     THEN TRUE ELSE UNCHANGED pending
  /\ IF part \in {"Tokens", "Accounts"}
     THEN TRUE ELSE UNCHANGED memory
  /\ IF part \in {"Tokens", "Setup"}
     THEN TRUE ELSE UNCHANGED made
  /\ IF part \in {"Tokens", "Registry"}
     THEN TRUE ELSE UNCHANGED uses
  /\ IF part \in {"Registry", "Sessions"}
     THEN TRUE ELSE UNCHANGED tokens
  /\ IF part \in {"Registry", "Apps", "Accounts"}
     THEN TRUE ELSE UNCHANGED changes
  /\ IF part \in {"Sync", "Backup"}
     THEN TRUE ELSE UNCHANGED answer
  /\ IF part \in {"Alerting", "Updates"}
     THEN TRUE ELSE UNCHANGED thread
  /\ IF part \in {"Alerting", "Setup"}
     THEN TRUE ELSE UNCHANGED excused
  /\ IF part \in {"Apps", "Builds"}
     THEN TRUE ELSE UNCHANGED image
  /\ IF part \in {"Backup", "Accounts"}
     THEN TRUE ELSE UNCHANGED writing
  /\ IF part \in {"Backup", "Updates"}
     THEN TRUE ELSE UNCHANGED archive
  /\ IF part \in {"Sessions", "Updates"}
     THEN TRUE ELSE UNCHANGED now
  /\ IF part \in {"Sessions", "Certs"}
     THEN TRUE ELSE UNCHANGED issued

Init ==
  /\ \/ part = "Household" /\ Household!Init
     \/ part = "Gateways" /\ Gateways!Init
     \/ part = "Tokens" /\ Tokens!Init
     \/ part = "Registry" /\ Registry!Init
     \/ part = "Sync" /\ Sync!Init
     \/ part = "Alerting" /\ Alerting!Init
     \/ part = "Apps" /\ Apps!Init
     \/ part = "Backup" /\ Backup!Init
     \/ part = "Sessions" /\ Sessions!Init
     \/ part = "Accounts" /\ Accounts!Init
     \/ part = "Certs" /\ Certs!Init
     \/ part = "Setup" /\ Setup!Init
     \/ part = "Updates" /\ Updates!Init
     \/ part = "Settings" /\ Settings!Init
     \/ part = "Firewall" /\ Firewall!Init
     \/ part = "Builds" /\ Builds!Init
  /\ Idle

HouseholdStep == part = "Household" /\ Household!Next /\ Rest
GatewaysStep == part = "Gateways" /\ Gateways!Next /\ Rest
TokensStep == part = "Tokens" /\ Tokens!Next /\ Rest
RegistryStep == part = "Registry" /\ Registry!Next /\ Rest
SyncStep == part = "Sync" /\ Sync!Next /\ Rest
AlertingStep == part = "Alerting" /\ Alerting!Next /\ Rest
AppsStep == part = "Apps" /\ Apps!Next /\ Rest
BackupStep == part = "Backup" /\ Backup!Next /\ Rest
SessionsStep == part = "Sessions" /\ Sessions!Next /\ Rest
AccountsStep == part = "Accounts" /\ Accounts!Next /\ Rest
CertsStep == part = "Certs" /\ Certs!Next /\ Rest
SetupStep == part = "Setup" /\ Setup!Next /\ Rest
UpdatesStep == part = "Updates" /\ Updates!Next /\ Rest
SettingsStep == part = "Settings" /\ Settings!Next /\ Rest
FirewallStep == part = "Firewall" /\ Firewall!Next /\ Rest
BuildsStep == part = "Builds" /\ Builds!Next /\ Rest

Next ==
  \/ HouseholdStep
  \/ GatewaysStep
  \/ TokensStep
  \/ RegistryStep
  \/ SyncStep
  \/ AlertingStep
  \/ AppsStep
  \/ BackupStep
  \/ SessionsStep
  \/ AccountsStep
  \/ CertsStep
  \/ SetupStep
  \/ UpdatesStep
  \/ SettingsStep
  \/ FirewallStep
  \/ BuildsStep

Spec == Init /\ [][Next]_vars

-----------------------------------------------------------------------------
(* The properties of the components. *)

\* Every variable of every component has its type.
TypeOK ==
  /\ part = "Household" => Household!TypeOK
  /\ part = "Gateways" => Gateways!TypeOK
  /\ part = "Tokens" => Tokens!TypeOK
  /\ part = "Registry" => Registry!TypeOK
  /\ part = "Sync" => Sync!TypeOK
  /\ part = "Alerting" => Alerting!TypeOK
  /\ part = "Apps" => Apps!TypeOK
  /\ part = "Backup" => Backup!TypeOK
  /\ part = "Sessions" => Sessions!TypeOK
  /\ part = "Accounts" => Accounts!TypeOK
  /\ part = "Certs" => Certs!TypeOK
  /\ part = "Setup" => Setup!TypeOK
  /\ part = "Updates" => Updates!TypeOK
  /\ part = "Settings" => Settings!TypeOK
  /\ part = "Firewall" => Firewall!TypeOK
  /\ part = "Builds" => Builds!TypeOK

\* What the components state of themselves, of whichever is the part.

\* A document refers to nobody and nothing that is not there (Household).
ReferencesHold == part = "Household" => Household!ReferencesHold

\* No two peers of a gateway have one address (EdgeGateway).
AddressesDistinct == part = "Gateways" => Gateways!AddressesDistinct

\* A bootstrap token admits one gateway (EdgeTokens).
TokenAdmitsOnce == part = "Tokens" => Tokens!TokenAdmitsOnce

\* Whoever was told to be on the roster is, by a token used once (ClusterRegistry).
EnrollmentHolds == part = "Registry" => Registry!EnrollmentHolds

\* Containers are there for the plugins that are wanted (Apps).
ContainersFollow == part = "Apps" => Apps!ContainersFollow

\* What a restore answers is what has become of the directory (Backup).
RestoreAnswersTruly == part = "Backup" => Backup!RestoreAnswersTruly

\* The rights of an administrator end (Sessions).
RightsExpire == part = "Sessions" => Sessions!RightsExpire

\* Logins follow the accounts in memory, but where the file has gone astray (DomainAccounts).
DomainKept == part = "Accounts" => Accounts!DomainKept

\* What is handed out as a certificate is one (Certificates).
CertificatesUsable == part = "Certs" => Certs!CertificatesUsable

\* Setups leave what the household made (Setup).
SetupKeepsHousehold == part = "Setup" => Setup!SetupKeepsHousehold

\* Settings stay what the accepted edits have made them (Settings).
SettingsKept == part = "Settings" => Settings!SettingsKept

\* Builds reach the hosts that were agreed to (SourceBuilds).
BuildsConfined == part = "Builds" => Builds!BuildsConfined

\* Traffic goes where the configuration lets it and sends it (Firewall).
PolicyHolds == part = "Firewall" => Firewall!PolicyHolds

\* A commit changes the devices somebody edited (Household).
CommitChangesOnlyEdits == [][part = "Household" => Household!CommitKeepsOthers]_vars

\* Agents and controller implement the queue of commands (ClusterSync, CommandQueue).
CommandsInOrder ==
  /\ part = "Sync" => Sync!Promise!Init
  /\ [][part = "Sync" => Sync!QueueStep]_vars

\* Who takes over may, and from a silent controller (ClusterSync).
FailoverJustified == [][part = "Sync" => Sync!TakesOverFromSilent]_vars

\* Alerts are resolved for a reason (Alerting).
ResolvedWithReason == [][part = "Alerting" => Alerting!ResolvesWithReason]_vars

\* What a backup before an update has, when packages change (Updates).
UpdatesBackedUp == [][part = "Updates" => Updates!BacksUpFirst]_vars
=============================================================================
