----------------------------- MODULE ConfigStore -----------------------------
(***************************************************************************)
(* The split YAML configuration and the two processes that write it: the   *)
(* web application, which edits a staged overlay and commits it file by    *)
(* file (repository.py, git_engine.py, routers/config.py), and the daemon, *)
(* whose D-Bus handlers and UPnP approvals rewrite the active files in     *)
(* place (config_adapter.py, upnp_handler.py) and keep a parsed copy.      *)
(*                                                                         *)
(* A file is what it says: which devices are registered, which devices the *)
(* schedules name, which rules the firewall has.  A file that is opened    *)
(* for writing is truncated, and a truncated file parses as the default,   *)
(* so a half-written file is the default until its text arrives.  Requests *)
(* of one process run to their awaits; the processes interleave between    *)
(* any two steps on files.                                                 *)
(***************************************************************************)
EXTENDS Naturals, FiniteSets, Sequences

CONSTANTS
  Device,      \* devices of the household, by MAC address
  Rule,        \* names of firewall rules
  Absent,      \* there is no such file
  NoConfig,    \* the daemon has no _config attribute
  Closed,      \* the daemon has no file open
  MaxCommits,  \* bound: commits in the git repository
  Crashes      \* the processes may crash

ASSUME StoreAssumption == MaxCommits \in Nat /\ Crashes \in BOOLEAN

\* The marks of a missing file and of no open file are not contents, or open files.
ASSUME MarkAssumption ==
  \A text \in (SUBSET Device) \cup (SUBSET Rule) :
    /\ text # Absent
    /\ \A f \in {"devices", "schedules", "firewall"} : [file |-> f, text |-> text] # Closed

VARIABLES
  active,   \* the configuration directory
  staged,   \* the staged directory
  config,   \* daemon._config
  saving,   \* the file a daemon handler has truncated, and the text to come
  web,      \* "idle", "dead", or where a commit is: "copy", "write", "remove", "git"
  file,     \* the file the commit is at
  asked,    \* the web application's call of get_config is on the bus
  git,      \* contents of the commits, oldest first
  raced,    \* history: the daemon wrote the file the commit is at
  outside   \* history: a change the daemon was not told of, since its last reload

request == <<web, file, raced>>
vars == <<active, staged, config, saving, request, asked, git, outside>>

File == {"devices", "schedules", "firewall"}
Content(f) == IF f = "firewall" THEN SUBSET Rule ELSE SUBSET Device

Directory == {dir \in [File -> (SUBSET Device) \cup (SUBSET Rule) \cup {Absent}] :
                \A f \in File : dir[f] \in Content(f) \cup {Absent}}

NoFiles == [f \in File |-> Absent]
Files(dir) == {f \in File : dir[f] # Absent}

\* What a handler has opened, and the text it is going to write.
Save == {s \in [file : File, text : (SUBSET Device) \cup (SUBSET Rule)] : s.text \in Content(s.file)}

TypeOK ==
  /\ active \in Directory
  /\ staged \in Directory /\ staged["schedules"] = Absent
  /\ config = NoConfig \/ (config \in Directory /\ Files(config) = File)
  /\ saving = Closed \/ saving \in Save
  /\ web \in {"idle", "dead", "copy", "write", "remove", "git"}
  /\ file \in File
  /\ web \in {"write", "remove"} => file \in Files(staged)
  /\ web = "git" => Files(staged) = {}
  /\ asked \in BOOLEAN /\ raced \in BOOLEAN /\ outside \in BOOLEAN
  /\ git \in Seq(Directory) /\ Len(git) <= MaxCommits

-----------------------------------------------------------------------------
(* Loading. *)

\* A file that is missing or truncated parses as the empty section.  (One that is not
\* YAML, or that its schema refuses, fails the load of the whole directory, for the
\* warning about it names a module that is not imported; the programs write no such file
\* here: Settings has the command that does.)
Default == {}
Parsed(dir) == [f \in File |-> IF dir[f] = Absent THEN Default ELSE dir[f]]

\* validate_cross_references: a schedule names registered devices.
Valid(cfg) == cfg["schedules"] \subseteq cfg["devices"]

\* load_config_directory does not raise.
Loads(dir) == Valid(Parsed(dir))

\* StagingConfigRepository.get_config: the staged sections over the active ones.
\* The result is not validated again.
Overlay == [f \in File |-> IF staged[f] # Absent THEN staged[f] ELSE Parsed(active)[f]]

\* reload_config: a directory that does not load raises and leaves _config.
Loaded(dir, old) == IF Loads(dir) THEN Parsed(dir) ELSE old

Reload(dir) ==
  /\ config' = Loaded(dir, config)
  /\ outside' = (outside /\ ~Loads(dir))

\* The daemon is between two requests.
Idle == saving = Closed

-----------------------------------------------------------------------------
(* Requests to the web application. *)

\* A route reads the overlay, which takes a directory that loads, changes one
\* file and saves it to the staged directory.
Stage(f, text) ==
  /\ web = "idle"
  /\ Loads(active)
  /\ staged' = [staged EXCEPT ![f] = text]
  /\ UNCHANGED <<active, config, saving, request, asked, git, outside>>

\* Devices registered and deleted; port forwards and rules added and removed.
StageDevice(d) ==
  \E devices \in {Overlay["devices"] \cup {d}, Overlay["devices"] \ {d}} :
    Stage("devices", devices)

StageRule(r) ==
  \E rules \in {Overlay["firewall"] \cup {r}, Overlay["firewall"] \ {r}} :
    Stage("firewall", rules)

Discard ==
  /\ web = "idle"
  /\ staged' = NoFiles
  /\ UNCHANGED <<active, config, saving, request, asked, git, outside>>

\* commit_staged_changes: one file after the other, in the order of listdir.
CommitStart ==
  /\ web = "idle"
  /\ Files(staged) # {}
  /\ web' = "copy"
  /\ UNCHANGED <<active, staged, config, saving, file, raced, asked, git, outside>>

\* copy2 truncates the file it copies to ...
CopyBegin(f) ==
  /\ web = "copy"
  /\ f \in Files(staged)
  /\ file' = f
  /\ active' = [active EXCEPT ![f] = Default]
  /\ web' = "write"
  /\ raced' = FALSE
  /\ outside' = TRUE
  /\ UNCHANGED <<staged, config, saving, asked, git>>

\* Mutant: the staged directory is cleared with the first file.
CopyEndClearing ==
  /\ web = "write"
  /\ active' = [active EXCEPT ![file] = staged[file]]
  /\ staged' = [NoFiles EXCEPT ![file] = staged[file]]
  /\ web' = "remove"
  /\ outside' = TRUE
  /\ UNCHANGED <<config, saving, file, raced, asked, git>>

\* ... and writes the text.
CopyEnd ==
  /\ web = "write"
  /\ active' = [active EXCEPT ![file] = staged[file]]
  /\ web' = "remove"
  /\ outside' = TRUE
  /\ UNCHANGED <<staged, config, saving, file, raced, asked, git>>

\* Mutant: the loop ends after one file.
RemoveOnce ==
  /\ web = "remove"
  /\ staged' = [staged EXCEPT ![file] = Absent]
  /\ web' = "git"
  /\ UNCHANGED <<active, config, saving, file, raced, asked, git, outside>>

Remove ==
  /\ web = "remove"
  /\ staged' = [staged EXCEPT ![file] = Absent]
  /\ web' = IF Files(staged') = {} THEN "git" ELSE "copy"
  /\ UNCHANGED <<active, config, saving, file, raced, asked, git, outside>>

\* git add and git commit.  Nothing new, or a failure, leaves the history.
Recorded(dir) ==
  \/ git' = git
  \/ /\ Len(git) < MaxCommits
     /\ Files(dir) # {}
     /\ git # <<>> => git[Len(git)] # dir
     /\ git' = Append(git, dir)

\* Mutant: nobody tells the daemon.
GitCommitSilent ==
  /\ web = "git"
  /\ Recorded(active)
  /\ web' = "idle"
  /\ UNCHANGED <<active, staged, config, saving, file, raced, asked, outside>>

\* Whatever git does, the repository's listener and the route itself call the
\* daemon at the route's first await; other requests run before it answers.
GitCommit ==
  /\ web = "git"
  /\ Recorded(active)
  /\ web' = "idle"
  /\ asked' = TRUE
  /\ UNCHANGED <<active, staged, config, saving, file, raced, outside>>

\* git checkout <commit> -- '*.yaml' writes the files the commit has and leaves
\* the others; the result becomes a commit; then the daemon is called.
RolledBack(commit) ==
  [f \in File |-> IF commit[f] # Absent THEN commit[f] ELSE active[f]]

Rollback(i) ==
  /\ web = "idle"
  /\ active' = RolledBack(git[i])
  /\ Recorded(active')
  /\ asked' = TRUE
  /\ outside' = TRUE
  /\ UNCHANGED <<staged, config, saving, request>>

\* The web process dies in the middle of a commit, and starts again.
WebCrash ==
  /\ Crashes
  /\ web \notin {"idle", "dead"}
  /\ web' = "dead"
  /\ UNCHANGED <<active, staged, config, saving, file, raced, asked, git, outside>>

WebStart ==
  /\ web = "dead"
  /\ web' = "idle"
  /\ UNCHANGED <<active, staged, config, saving, file, raced, asked, git, outside>>

-----------------------------------------------------------------------------
(* D-Bus handlers of the daemon. *)

\* The daemon comes to the web application's call.
AnswerWeb ==
  /\ asked
  /\ Idle
  /\ asked' = FALSE
  /\ Reload(active)
  /\ UNCHANGED <<active, staged, saving, request, git>>

\* Any getter another client calls.
GetConfig ==
  /\ Idle
  /\ Reload(active)
  /\ UNCHANGED <<active, staged, saving, request, asked, git>>

RacedWith(f) == raced \/ (web \in {"write", "remove"} /\ f = file)

\* save_config_file opens the file, which truncates it ...
SaveBegin(f, text) ==
  /\ saving' = [file |-> f, text |-> text]
  /\ active' = [active EXCEPT ![f] = Default]
  /\ raced' = RacedWith(f)
  /\ UNCHANGED <<staged, web, file, asked, git>>

\* UpdateDevice and DeleteDevice reload before they change the list.
UpdateDevice(d) ==
  /\ Idle
  /\ Loads(active)
  /\ Reload(active)
  /\ \E devices \in {config'["devices"] \cup {d}, config'["devices"] \ {d}} :
       SaveBegin("devices", devices)

UpdateFirewallRule(r) ==
  /\ Idle
  /\ Loads(active)
  /\ Reload(active)
  /\ \E rules \in {config'["firewall"] \cup {r}, config'["firewall"] \ {r}} :
       SaveBegin("firewall", rules)

\* approve_request with "trust" or "remember" writes the device list of the
\* parsed copy back, marked, without a reload before.
ApproveRequest ==
  /\ Idle
  /\ config # NoConfig
  /\ SaveBegin("devices", config["devices"])
  /\ UNCHANGED <<config, outside>>

\* Mutant: the handler answers without the second reload.
SaveEndForgetful ==
  /\ ~Idle
  /\ active' = [active EXCEPT ![saving.file] = saving.text]
  /\ saving' = Closed
  /\ raced' = RacedWith(saving.file)
  /\ UNCHANGED <<staged, config, web, file, asked, git, outside>>

\* ... the text arrives, and the handler reloads.
SaveEnd ==
  /\ ~Idle
  /\ active' = [active EXCEPT ![saving.file] = saving.text]
  /\ saving' = Closed
  /\ raced' = RacedWith(saving.file)
  /\ Reload(active')
  /\ UNCHANGED <<staged, web, file, asked, git>>

\* The daemon dies, a file it has open stays truncated; it starts again and
\* loads what is there.  A call it had not answered is lost.
Restart ==
  /\ Crashes
  /\ saving' = Closed
  /\ config' = Loaded(active, NoConfig)
  /\ outside' = (outside /\ ~Loads(active))
  /\ asked' = FALSE
  /\ UNCHANGED <<active, staged, request, git>>

\* An administrator edits schedules.yaml, with care: no program writes it.
EditSchedules ==
  /\ \E targets \in SUBSET Parsed(active)["devices"] :
       active' = [active EXCEPT !["schedules"] = targets]
  /\ outside' = TRUE
  /\ UNCHANGED <<staged, config, saving, request, asked, git>>

-----------------------------------------------------------------------------
\* The setup has written devices.yaml and schedules.yaml.
Init ==
  /\ \E devices \in SUBSET Device :
       active = [NoFiles EXCEPT !["devices"] = devices, !["schedules"] = {}]
  /\ staged = NoFiles
  /\ config = Parsed(active)
  /\ saving = Closed
  /\ web = "idle" /\ file = "devices" /\ raced = FALSE
  /\ asked = FALSE
  /\ git = <<>>
  /\ outside = FALSE

Next ==
  \/ \E d \in Device : StageDevice(d) \/ UpdateDevice(d)
  \/ \E r \in Rule : StageRule(r) \/ UpdateFirewallRule(r)
  \/ Discard
  \/ CommitStart
  \/ \E f \in File : CopyBegin(f)
  \/ CopyEnd
  \/ Remove
  \/ GitCommit
  \/ \E i \in DOMAIN git : Rollback(i)
  \/ WebCrash
  \/ WebStart
  \/ AnswerWeb
  \/ GetConfig
  \/ ApproveRequest
  \/ SaveEnd
  \/ Restart
  \/ EditSchedules

\* A commit that is under way is carried on, and a handler that has opened a file
\* writes it.  The daemon, busy again and again, comes to the web's call.
Fairness ==
  /\ WF_vars((\E f \in File : CopyBegin(f)) \/ CopyEnd \/ Remove \/ GitCommit)
  /\ WF_vars(SaveEnd)
  /\ SF_vars(AnswerWeb)

Spec == Init /\ [][Next]_vars /\ Fairness

-----------------------------------------------------------------------------
(* Properties. *)

\* At every step of a commit, a crash in its middle included, the configuration
\* the web application shows stays what the user committed: no staged edit is
\* lost or half applied.  Only the daemon changes it, by writing a file that is
\* not staged, or the one the commit has just copied.
CommitKeepsView ==
  [][web \notin {"idle", "dead"} =>
       \A f \in {"devices", "firewall"} :
         \/ Overlay[f]' = Overlay[f]
         \/ saving' # saving
         \/ raced /\ f = file]_vars

\* Between requests the daemon works with what the directory says, unless the
\* directory was changed behind its back or does not load: no interleaving of
\* its saves with commits and restarts leaves it with an older copy.
DaemonCurrent ==
  web = "idle" /\ Idle /\ ~outside /\ config # NoConfig /\ Loads(active)
    => config = Parsed(active)

\* What a commit has moved reaches the daemon, if the directory loads and the
\* web process lives.
CommitTakesEffect ==
  web = "git" ~> config = Parsed(active) \/ ~Loads(active) \/ web = "dead"

-----------------------------------------------------------------------------
(* What docstrings and assertions say and the code does not do. *)

\* validate_cross_references holds a schedule that targets an unregistered
\* device for an error: without crashes, between requests, the directory the
\* programs keep would pass it.
SavedConfigLoads == web = "idle" /\ Idle => Loads(active)

\* rollback_to_commit: the configuration becomes that of the commit.
RollbackRestores ==
  [][\A i \in DOMAIN git : Rollback(i) => Parsed(active') = Parsed(git[i])]_vars
=============================================================================
