-------------------------- MODULE ConfigStoreProofs --------------------------
(***************************************************************************)
(* What holds of ConfigStore for every household, set of rules and length  *)
(* of history, and for every interleaving of the web application's commit  *)
(* with the handlers of the daemon, crashes included.                      *)
(***************************************************************************)
EXTENDS ConfigStore, SequenceTheorems, TLAPS

\* What a commit has copied is in the configuration directory until it takes the
\* file off the staged directory, unless the daemon has written the file since.
CopiedArrives == web = "remove" /\ ~raced => active[file] = staged[file]

\* DaemonCurrent without its condition on the web application: a commit that
\* moves files leaves "outside" set, so the daemon's copy is current whenever it
\* is between two requests and was told of everything.
CopyCurrent ==
  Idle /\ ~outside /\ config # NoConfig /\ Loads(active) => config = Parsed(active)

IInv == TypeOK /\ CopiedArrives /\ CopyCurrent

-----------------------------------------------------------------------------
(* The operators on directories. *)

LEMMA DirectoryHas ==
  ASSUME NEW dir \in Directory, NEW f \in File
  PROVE  dir[f] \in Content(f) \cup {Absent}
  BY DEF Directory

\* Writing one file of a directory leaves a directory.
LEMMA DirectoryWith ==
  ASSUME NEW dir \in Directory, NEW f \in File, NEW text \in Content(f) \cup {Absent}
  PROVE  /\ [dir EXCEPT ![f] = text] \in Directory
         /\ [dir EXCEPT ![f] = text][f] = text
         /\ \A g \in File : g # f => [dir EXCEPT ![f] = text][g] = dir[g]
<1> DEFINE new == [dir EXCEPT ![f] = text]
<1>1. dir \in [File -> (SUBSET Device) \cup (SUBSET Rule) \cup {Absent}]
  BY DEF Directory
<1>2. new[f] = text /\ \A g \in File : g # f => new[g] = dir[g]
  BY <1>1
<1>3. \A g \in File : new[g] \in Content(g) \cup {Absent}
  BY <1>2, DirectoryHas
<1>4. text \in (SUBSET Device) \cup (SUBSET Rule) \cup {Absent}
  BY DEF Content
<1>5. new \in [File -> (SUBSET Device) \cup (SUBSET Rule) \cup {Absent}]
  BY <1>1, <1>4
<1>6. QED
  BY <1>2, <1>3, <1>5 DEF Directory

\* A section that a file has, and an empty one, are contents of the file, and no
\* content stands for a missing file.
LEMMA ContentFacts ==
  ASSUME NEW f \in File
  PROVE  /\ Default \in Content(f)
         /\ Absent \notin Content(f)
         /\ Content(f) \subseteq (SUBSET Device) \cup (SUBSET Rule)
<1>1. Default \in Content(f) /\ Content(f) \subseteq (SUBSET Device) \cup (SUBSET Rule)
  BY DEF Content, Default
<1>2. QED
  BY <1>1, MarkAssumption

\* A parsed directory has every section.
LEMMA ParsedIsWhole ==
  ASSUME NEW dir \in Directory
  PROVE  /\ Parsed(dir) \in Directory
         /\ Files(Parsed(dir)) = File
         /\ \A f \in File : Parsed(dir)[f] \in Content(f)
<1>1. \A f \in File : Parsed(dir)[f] \in Content(f)
  BY DirectoryHas, ContentFacts DEF Parsed
<1>2. Parsed(dir) \in [File -> (SUBSET Device) \cup (SUBSET Rule) \cup {Absent}]
  BY <1>1, ContentFacts DEF Parsed
<1>3. QED
  BY <1>1, <1>2, ContentFacts DEF Directory, Files

\* What the daemon holds after a reload is its old copy or a whole configuration.
LEMMA LoadedType ==
  ASSUME NEW dir \in Directory, NEW old,
         old = NoConfig \/ (old \in Directory /\ Files(old) = File)
  PROVE  LET new == Loaded(dir, old) IN
         new = NoConfig \/ (new \in Directory /\ Files(new) = File)
  BY ParsedIsWhole DEF Loaded

\* A rollback writes the files the commit has and keeps the others.
LEMMA RolledBackType ==
  ASSUME TypeOK, NEW commit \in Directory
  PROVE  RolledBack(commit) \in Directory
  BY DEF TypeOK, RolledBack, Directory

\* The history grows by one directory or stays.
LEMMA RecordedType ==
  ASSUME TypeOK, NEW dir \in Directory, Recorded(dir), MaxCommits \in Nat
  PROVE  git' \in Seq(Directory) /\ Len(git') <= MaxCommits
<1>1. git \in Seq(Directory) /\ Len(git) <= MaxCommits
  BY DEF TypeOK
<1>2. CASE git' = git
  BY <1>1, <1>2
<1>3. CASE Len(git) < MaxCommits /\ git' = Append(git, dir)
  <2>1. git' \in Seq(Directory) /\ Len(git') = Len(git) + 1
    BY <1>1, <1>3, AppendProperties
  <2>2. Len(git) \in Nat
    BY <1>1, LenProperties
  <2>3. QED
    BY <1>3, <2>1, <2>2
<1>4. QED
  BY <1>2, <1>3 DEF Recorded

\* What a route stages is a content of the file it stages.
LEMMA OverlayContent ==
  ASSUME TypeOK, NEW f \in File
  PROVE  Overlay[f] \in Content(f)
<1>1. Parsed(active)[f] \in Content(f) /\ staged[f] \in Content(f) \cup {Absent}
  BY ParsedIsWhole, DirectoryHas DEF TypeOK
<1>2. QED
  BY <1>1 DEF Overlay

-----------------------------------------------------------------------------
(* Type correctness. *)

\* A handler that opens a file for a content of it leaves a well-formed state.
LEMMA SaveBeginTypes ==
  ASSUME TypeOK, NEW f \in File, NEW text \in Content(f), SaveBegin(f, text)
  PROVE  /\ saving' \in Save /\ saving' # Closed
         /\ active' \in Directory
         /\ raced' \in BOOLEAN
<1>1. text \in (SUBSET Device) \cup (SUBSET Rule)
  BY ContentFacts
<1>2. saving' = [file |-> f, text |-> text]
  BY DEF SaveBegin
<1>3. saving' \in Save /\ saving' # Closed
  BY <1>1, <1>2, MarkAssumption DEF Save, File
<1>4. active' \in Directory
  BY ContentFacts, DirectoryWith DEF SaveBegin, TypeOK
<1>5. raced' \in BOOLEAN
  BY DEF SaveBegin, RacedWith, TypeOK
<1>6. QED
  BY <1>3, <1>4, <1>5

\* The three handlers that write a file open it for a content of it.
LEMMA HandlerOpens ==
  ASSUME TypeOK,
         \/ \E d \in Device : UpdateDevice(d)
         \/ \E r \in Rule : UpdateFirewallRule(r)
         \/ ApproveRequest
  PROVE  /\ Idle
         /\ \E f \in File : \E text \in Content(f) : SaveBegin(f, text)
         /\ \/ config' = Parsed(active) /\ outside' \in BOOLEAN
            \/ UNCHANGED <<config, outside>>
<1>1. ASSUME NEW d \in Device, UpdateDevice(d)
      PROVE  /\ config' = Parsed(active) /\ outside' \in BOOLEAN
             /\ \E text \in Content("devices") : SaveBegin("devices", text)
  <2>1. config' = Parsed(active) /\ outside' \in BOOLEAN
    BY <1>1 DEF UpdateDevice, Reload, Loaded
  <2>2. PICK devices \in {config'["devices"] \cup {d}, config'["devices"] \ {d}} :
          SaveBegin("devices", devices)
    BY <1>1 DEF UpdateDevice
  <2>3. devices \in Content("devices")
    BY <2>1, ParsedIsWhole DEF TypeOK, File, Content
  <2>4. QED
    BY <2>1, <2>2, <2>3
<1>2. ASSUME NEW r \in Rule, UpdateFirewallRule(r)
      PROVE  /\ config' = Parsed(active) /\ outside' \in BOOLEAN
             /\ \E text \in Content("firewall") : SaveBegin("firewall", text)
  <2>1. config' = Parsed(active) /\ outside' \in BOOLEAN
    BY <1>2 DEF UpdateFirewallRule, Reload, Loaded
  <2>2. PICK rules \in {config'["firewall"] \cup {r}, config'["firewall"] \ {r}} :
          SaveBegin("firewall", rules)
    BY <1>2 DEF UpdateFirewallRule
  <2>3. rules \in Content("firewall")
    BY <2>1, ParsedIsWhole DEF TypeOK, File, Content
  <2>4. QED
    BY <2>1, <2>2, <2>3
<1>3. ASSUME ApproveRequest
      PROVE  \E text \in Content("devices") : SaveBegin("devices", text)
  <2>1. config \in Directory /\ Files(config) = File
    BY <1>3 DEF ApproveRequest, TypeOK
  <2>2. "devices" \in File
    BY DEF File
  <2>3. config["devices"] # Absent
    BY <2>1, <2>2 DEF Files
  <2>4. config["devices"] \in Content("devices")
    BY <2>1, <2>2, <2>3, DirectoryHas
  <2>5. QED
    BY <1>3, <2>4 DEF ApproveRequest
<1>4. "devices" \in File /\ "firewall" \in File
  BY DEF File
<1>5. Idle
  BY DEF UpdateDevice, UpdateFirewallRule, ApproveRequest
<1>6. ApproveRequest => UNCHANGED <<config, outside>>
  BY DEF ApproveRequest
<1>7. QED
  BY <1>1, <1>2, <1>3, <1>4, <1>5, <1>6

\* A file that is staged is still there after the rest of the commit has run.
LEMMA StagedFile ==
  ASSUME TypeOK, web \in {"write", "remove"}
  PROVE  staged[file] \in Content(file) /\ staged[file] # Absent /\ file # "schedules"
  BY ContentFacts, DirectoryHas DEF TypeOK, Files

LEMMA InitTypes == Init => TypeOK
<1> SUFFICES ASSUME Init PROVE TypeOK
  OBVIOUS
<1>1. NoFiles \in Directory /\ NoFiles["schedules"] = Absent /\ Files(NoFiles) = {}
  BY DEF NoFiles, Directory, Files, File
<1>2. PICK devices \in SUBSET Device :
        active = [NoFiles EXCEPT !["devices"] = devices, !["schedules"] = {}]
  BY DEF Init
<1>3. active \in Directory
  <2> DEFINE half == [NoFiles EXCEPT !["devices"] = devices]
  <2>1. half \in Directory
    BY <1>1, DirectoryWith DEF File, Content
  <2>2. active = [half EXCEPT !["schedules"] = {}]
    BY <1>1, <1>2 DEF Directory, File
  <2> HIDE DEF half
  <2>3. QED
    BY <2>1, <2>2, DirectoryWith DEF File, Content
<1>4. config \in Directory /\ Files(config) = File
  BY <1>3, ParsedIsWhole DEF Init
<1>5. git \in Seq(Directory) /\ Len(git) <= MaxCommits
  BY StoreAssumption, EmptySeq DEF Init
<1>6. QED
  BY <1>1, <1>3, <1>4, <1>5 DEF Init, TypeOK, File

\* Each action keeps the types; those of files are the lemmas above.
LEMMA StepTypes == TypeOK /\ [Next]_vars => TypeOK'
<1> SUFFICES ASSUME TypeOK, [Next]_vars PROVE TypeOK'
  OBVIOUS
<1> USE DEF request
<1>1. ASSUME NEW d \in Device, StageDevice(d) PROVE TypeOK'
  <2>1. PICK devices \in {Overlay["devices"] \cup {d}, Overlay["devices"] \ {d}} :
          Stage("devices", devices)
    BY <1>1 DEF StageDevice
  <2>2. "devices" \in File /\ devices \in Content("devices")
    BY OverlayContent DEF File, Content
  <2>3. staged' \in Directory /\ staged'["schedules"] = Absent
    BY <2>1, <2>2, DirectoryWith DEF Stage, TypeOK, File
  <2>4. QED
    BY <2>1, <2>3 DEF Stage, TypeOK
<1>2. ASSUME NEW r \in Rule, StageRule(r) PROVE TypeOK'
  <2>1. PICK rules \in {Overlay["firewall"] \cup {r}, Overlay["firewall"] \ {r}} :
          Stage("firewall", rules)
    BY <1>2 DEF StageRule
  <2>2. "firewall" \in File /\ rules \in Content("firewall")
    BY OverlayContent DEF File, Content
  <2>3. staged' \in Directory /\ staged'["schedules"] = Absent
    BY <2>1, <2>2, DirectoryWith DEF Stage, TypeOK, File
  <2>4. QED
    BY <2>1, <2>3 DEF Stage, TypeOK
<1>3. ASSUME Discard PROVE TypeOK'
  <2>1. NoFiles \in Directory /\ NoFiles["schedules"] = Absent
    BY DEF NoFiles, Directory, File
  <2>2. QED
    BY <1>3, <2>1 DEF Discard, TypeOK
<1>4. ASSUME CommitStart PROVE TypeOK'
  BY <1>4 DEF CommitStart, TypeOK
<1>5. ASSUME NEW f \in File, CopyBegin(f) PROVE TypeOK'
  <2>1. active' \in Directory
    BY <1>5, ContentFacts, DirectoryWith DEF CopyBegin, TypeOK
  <2>2. QED
    BY <1>5, <2>1 DEF CopyBegin, TypeOK
<1>6. ASSUME CopyEnd PROVE TypeOK'
  <2>1. active' \in Directory
    BY <1>6, StagedFile, DirectoryWith DEF CopyEnd, TypeOK
  <2>2. QED
    BY <1>6, <2>1 DEF CopyEnd, TypeOK
<1>7. ASSUME Remove PROVE TypeOK'
  <2>1. staged' \in Directory /\ staged'["schedules"] = Absent
    <3>1. staged \in Directory /\ file \in File /\ "schedules" \in File
          /\ staged["schedules"] = Absent /\ staged' = [staged EXCEPT ![file] = Absent]
      BY <1>7 DEF Remove, TypeOK, File
    <3>2. staged' \in Directory
      BY <3>1, DirectoryWith
    <3>3. staged'["schedules"] = Absent
      BY <3>1 DEF Directory
    <3>4. QED
      BY <3>2, <3>3
  <2>2. QED
    BY <1>7, <2>1 DEF Remove, TypeOK
<1>8. ASSUME GitCommit PROVE TypeOK'
  <2>1. git' \in Seq(Directory) /\ Len(git') <= MaxCommits
    BY <1>8, RecordedType, StoreAssumption DEF GitCommit, TypeOK
  <2>2. QED
    BY <1>8, <2>1 DEF GitCommit, TypeOK
<1>9. ASSUME NEW i \in DOMAIN git, Rollback(i) PROVE TypeOK'
  <2>1. git[i] \in Directory
    BY ElementOfSeq DEF TypeOK
  <2>2. active' \in Directory
    BY <1>9, <2>1, RolledBackType DEF Rollback
  <2>3. git' \in Seq(Directory) /\ Len(git') <= MaxCommits
    BY <1>9, <2>2, RecordedType, StoreAssumption DEF Rollback
  <2>4. QED
    BY <1>9, <2>2, <2>3 DEF Rollback, TypeOK
<1>10. ASSUME WebCrash \/ WebStart PROVE TypeOK'
  BY <1>10 DEF WebCrash, WebStart, TypeOK
<1>11. ASSUME AnswerWeb \/ GetConfig PROVE TypeOK'
  <2>1. config' = NoConfig \/ (config' \in Directory /\ Files(config') = File)
    BY <1>11, LoadedType DEF AnswerWeb, GetConfig, Reload, TypeOK
  <2>2. outside' \in BOOLEAN
    BY <1>11 DEF AnswerWeb, GetConfig, Reload
  <2>3. QED
    BY <1>11, <2>1, <2>2 DEF AnswerWeb, GetConfig, TypeOK
<1>12. ASSUME \/ \E d \in Device : UpdateDevice(d)
              \/ \E r \in Rule : UpdateFirewallRule(r)
              \/ ApproveRequest
       PROVE  TypeOK'
  <2>1. PICK f \in File : \E text \in Content(f) : SaveBegin(f, text)
    BY <1>12, HandlerOpens
  <2>2. saving' \in Save /\ active' \in Directory /\ raced' \in BOOLEAN
    BY <2>1, SaveBeginTypes
  <2>3. config' = NoConfig \/ (config' \in Directory /\ Files(config') = File)
    BY <1>12, HandlerOpens, ParsedIsWhole DEF TypeOK
  <2>4. outside' \in BOOLEAN
    BY <1>12, HandlerOpens DEF TypeOK
  <2>5. QED
    BY <2>1, <2>2, <2>3, <2>4 DEF SaveBegin, TypeOK
<1>13. ASSUME SaveEnd PROVE TypeOK'
  <2>1. saving.file \in File /\ saving.text \in Content(saving.file)
    BY <1>13 DEF SaveEnd, Idle, TypeOK, Save
  <2>2. active' \in Directory
    BY <1>13, <2>1, DirectoryWith DEF SaveEnd, TypeOK
  <2>3. config' = NoConfig \/ (config' \in Directory /\ Files(config') = File)
    BY <1>13, <2>2, LoadedType DEF SaveEnd, Reload, TypeOK
  <2>4. QED
    BY <1>13, <2>2, <2>3 DEF SaveEnd, Reload, RacedWith, TypeOK
<1>14. ASSUME Restart PROVE TypeOK'
  <2>1. config' = NoConfig \/ (config' \in Directory /\ Files(config') = File)
    BY <1>14, LoadedType DEF Restart, TypeOK
  <2>2. QED
    BY <1>14, <2>1 DEF Restart, TypeOK
<1>15. ASSUME EditSchedules PROVE TypeOK'
  <2>1. PICK targets \in SUBSET Parsed(active)["devices"] :
          active' = [active EXCEPT !["schedules"] = targets]
    BY <1>15 DEF EditSchedules
  <2>2. "schedules" \in File /\ targets \in Content("schedules")
    BY ParsedIsWhole DEF TypeOK, File, Content
  <2>3. active' \in Directory
    BY <2>1, <2>2, DirectoryWith DEF TypeOK
  <2>4. QED
    BY <1>15, <2>3 DEF EditSchedules, TypeOK
<1>16. CASE UNCHANGED vars
  BY <1>16 DEF vars, TypeOK, Files
<1>17. QED
  BY <1>1, <1>2, <1>3, <1>4, <1>5, <1>6, <1>7, <1>8, <1>9, <1>10, <1>11, <1>12,
     <1>13, <1>14, <1>15, <1>16 DEF Next

\* Every file of every directory holds contents of its own kind, a commit is at a
\* file that is staged, and nothing is staged when it comes to git.
THEOREM TypeCorrect == Spec => []TypeOK
  BY InitTypes, StepTypes, PTL DEF Spec

-----------------------------------------------------------------------------
(* The daemon's copy. *)

\* A reload leaves the copy of what is there, when the daemon comes to it.
LEMMA ReloadCurrent ==
  ASSUME NEW dir, Reload(dir), ~outside', Loads(dir)
  PROVE  config' = Parsed(dir)
  BY DEF Reload, Loaded

\* Before it truncates a file a handler makes sure that the daemon is not idle;
\* the reload at its end, and each change of the directory behind the daemon's
\* back, decide what CopyCurrent asks.
LEMMA StepCopies == TypeOK /\ CopyCurrent /\ [Next]_vars => CopyCurrent'
<1> SUFFICES ASSUME TypeOK, CopyCurrent, [Next]_vars PROVE CopyCurrent'
  OBVIOUS
<1> USE DEF request
<1>1. ASSUME UNCHANGED <<active, config, saving, outside>> PROVE CopyCurrent'
  BY <1>1 DEF CopyCurrent, Idle, Loads, Parsed, Valid
<1>2. ASSUME outside' PROVE CopyCurrent'
  BY <1>2 DEF CopyCurrent
<1>3. ASSUME saving' # Closed PROVE CopyCurrent'
  BY <1>3 DEF CopyCurrent, Idle
<1>4. ASSUME Reload(active') PROVE CopyCurrent'
  <2>1. (Loads(active))' => Loads(active')
    BY DEF Loads, Parsed, Valid
  <2>2. (Loads(active))' /\ ~outside' => config' = Parsed(active')
    BY <1>4, <2>1, ReloadCurrent
  <2>3. (Parsed(active))' = Parsed(active')
    BY DEF Parsed
  <2>4. QED
    BY <2>2, <2>3 DEF CopyCurrent
<1>5. ASSUME \/ \E d \in Device : StageDevice(d)
             \/ \E r \in Rule : StageRule(r)
             \/ Discard \/ CommitStart \/ Remove \/ GitCommit \/ WebCrash \/ WebStart
      PROVE  CopyCurrent'
  BY <1>1, <1>5 DEF StageDevice, StageRule, Stage, Discard, CommitStart, Remove, GitCommit,
     WebCrash, WebStart
<1>6. ASSUME \/ \E f \in File : CopyBegin(f)
             \/ CopyEnd
             \/ \E i \in DOMAIN git : Rollback(i)
             \/ EditSchedules
      PROVE  CopyCurrent'
  BY <1>2, <1>6 DEF CopyBegin, CopyEnd, Rollback, EditSchedules
<1>7. ASSUME AnswerWeb \/ GetConfig PROVE CopyCurrent'
  BY <1>4, <1>7 DEF AnswerWeb, GetConfig
<1>8. ASSUME \/ \E d \in Device : UpdateDevice(d)
             \/ \E r \in Rule : UpdateFirewallRule(r)
             \/ ApproveRequest
      PROVE  CopyCurrent'
  BY <1>3, <1>8, HandlerOpens, SaveBeginTypes
<1>9. ASSUME SaveEnd PROVE CopyCurrent'
  BY <1>4, <1>9 DEF SaveEnd
<1>10. ASSUME Restart PROVE CopyCurrent'
  BY <1>10 DEF Restart, Loaded, CopyCurrent, Loads, Parsed, Valid
<1>11. CASE UNCHANGED vars
  BY <1>1, <1>11 DEF vars
<1>12. QED
  BY <1>5, <1>6, <1>7, <1>8, <1>9, <1>10, <1>11 DEF Next

LEMMA InitCopies == Init => CopyCurrent
  BY DEF Init, CopyCurrent

\* Between requests the daemon works with what the directory says, whatever the
\* interleaving of its saves with commits, rollbacks, crashes and restarts, unless
\* the directory was changed behind its back or does not load.
THEOREM DaemonStaysCurrent == Spec => []DaemonCurrent
<1>1. CopyCurrent => DaemonCurrent
  BY DEF CopyCurrent, DaemonCurrent
<1>2. QED
  BY <1>1, InitTypes, StepTypes, InitCopies, StepCopies, PTL DEF Spec

-----------------------------------------------------------------------------
(* The web application's view. *)

LEMMA InitArrives == Init => CopiedArrives
  BY DEF Init, CopiedArrives

\* Between the copy of a file and its removal from the staged directory only the
\* daemon writes that file, and then the commit is raced.
LEMMA StepArrives == TypeOK /\ CopiedArrives /\ [Next]_vars => CopiedArrives'
<1> SUFFICES ASSUME TypeOK, CopiedArrives, [Next]_vars PROVE CopiedArrives'
  OBVIOUS
<1> USE DEF request
<1>1. ASSUME web' # "remove" PROVE CopiedArrives'
  BY <1>1 DEF CopiedArrives
<1>2. ASSUME UNCHANGED <<web, file, raced, active, staged>> PROVE CopiedArrives'
  BY <1>2 DEF CopiedArrives
<1>3. ASSUME \/ \E d \in Device : StageDevice(d)
             \/ \E r \in Rule : StageRule(r)
             \/ Discard \/ CommitStart \/ \E f \in File : CopyBegin(f)
             \/ Remove \/ GitCommit \/ WebCrash \/ WebStart
             \/ \E i \in DOMAIN git : Rollback(i)
      PROVE  CopiedArrives'
  BY <1>1, <1>3 DEF StageDevice, StageRule, Stage, Discard, CommitStart, CopyBegin, Remove,
     GitCommit, WebCrash, WebStart, Rollback
<1>4. ASSUME CopyEnd PROVE CopiedArrives'
  BY <1>4 DEF CopyEnd, CopiedArrives, TypeOK, Directory
<1>5. ASSUME AnswerWeb \/ GetConfig \/ Restart PROVE CopiedArrives'
  BY <1>2, <1>5 DEF AnswerWeb, GetConfig, Restart
<1>6. ASSUME NEW f \in File, NEW text, SaveBegin(f, text) PROVE CopiedArrives'
  <2>1. active' = [active EXCEPT ![f] = Default] /\ raced' = RacedWith(f)
        /\ UNCHANGED <<staged, web, file>>
    BY <1>6 DEF SaveBegin
  <2>2. f # file => active'[file] = active[file]
    BY <2>1 DEF TypeOK, Directory
  <2>3. QED
    BY <2>1, <2>2 DEF CopiedArrives, RacedWith
<1>7. ASSUME \/ \E d \in Device : UpdateDevice(d)
             \/ \E r \in Rule : UpdateFirewallRule(r)
             \/ ApproveRequest
      PROVE  CopiedArrives'
  BY <1>6, <1>7 DEF UpdateDevice, UpdateFirewallRule, ApproveRequest, File
<1>8. ASSUME SaveEnd PROVE CopiedArrives'
  <2>1. active' = [active EXCEPT ![saving.file] = saving.text] /\ raced' = RacedWith(saving.file)
        /\ UNCHANGED <<staged, web, file>>
    BY <1>8 DEF SaveEnd
  <2>2. saving.file # file => active'[file] = active[file]
    BY <2>1 DEF TypeOK, Directory
  <2>3. QED
    BY <2>1, <2>2 DEF CopiedArrives, RacedWith
<1>9. ASSUME EditSchedules PROVE CopiedArrives'
  <2>1. web = "remove" => file # "schedules"
    BY StagedFile
  <2>2. web = "remove" => active'[file] = active[file]
    BY <1>9, <2>1 DEF EditSchedules, TypeOK, Directory
  <2>3. QED
    BY <1>9, <2>2 DEF EditSchedules, CopiedArrives
<1>10. CASE UNCHANGED vars
  BY <1>2, <1>10 DEF vars
<1>11. QED
  BY <1>3, <1>4, <1>5, <1>7, <1>8, <1>9, <1>10 DEF Next

\* One step of a commit, or of the daemon in the middle of one: the view of a
\* section depends on the staged file and, without one, on the active file.
LEMMA StepKeepsView ==
  ASSUME TypeOK, CopiedArrives, Next, web \notin {"idle", "dead"},
         NEW f \in {"devices", "firewall"}
  PROVE  \/ Overlay[f]' = Overlay[f]
         \/ saving' # saving
         \/ raced /\ f = file
<1> USE DEF request
<1>1. f \in File /\ f # "schedules" /\ staged[f] \in Content(f) \cup {Absent}
  BY DirectoryHas DEF File, TypeOK
<1>2. ASSUME staged'[f] = staged[f], staged[f] = Absent => active'[f] = active[f]
      PROVE  Overlay[f]' = Overlay[f]
  BY <1>1, <1>2 DEF Overlay, Parsed
<1>3. ASSUME UNCHANGED <<active, staged>> PROVE Overlay[f]' = Overlay[f]
  BY <1>2, <1>3
<1>4. ASSUME GitCommit \/ WebCrash \/ WebStart \/ AnswerWeb \/ GetConfig \/ Restart
      PROVE  Overlay[f]' = Overlay[f]
  BY <1>3, <1>4 DEF GitCommit, WebCrash, WebStart, AnswerWeb, GetConfig, Restart
<1>5. ASSUME NEW g \in File, CopyBegin(g) PROVE Overlay[f]' = Overlay[f]
  BY <1>1, <1>2, <1>5 DEF CopyBegin, Files, TypeOK, Directory
<1>6. ASSUME CopyEnd PROVE Overlay[f]' = Overlay[f]
  <2>1. staged[file] # Absent
    BY <1>6, StagedFile DEF CopyEnd
  <2>2. QED
    BY <1>1, <1>2, <1>6, <2>1 DEF CopyEnd, TypeOK, Directory
<1>7. ASSUME Remove, ~(raced /\ f = file) PROVE Overlay[f]' = Overlay[f]
  <2>1. staged[file] # Absent
    BY <1>7, StagedFile DEF Remove
  <2>2. CASE f # file
    BY <1>1, <1>2, <1>7, <2>2 DEF Remove, TypeOK, Directory
  <2>3. CASE f = file
    <3>1. active[f] = staged[f] /\ active[f] # Absent
      BY <1>7, <2>1, <2>3 DEF CopiedArrives, Remove
    <3>2. staged'[f] = Absent /\ active' = active
      BY <1>1, <1>7, <2>3 DEF Remove, TypeOK, Directory
    <3>3. Overlay[f] = staged[f]
      BY <1>1, <2>1, <2>3 DEF Overlay
    <3>4. Overlay[f]' = active[f]
      BY <1>1, <3>1, <3>2 DEF Overlay, Parsed
    <3>5. QED
      BY <3>1, <3>3, <3>4
  <2>4. QED
    BY <2>2, <2>3
<1>8. ASSUME \/ \E d \in Device : UpdateDevice(d)
             \/ \E r \in Rule : UpdateFirewallRule(r)
             \/ ApproveRequest
      PROVE  saving' # saving
  BY <1>8, HandlerOpens, SaveBeginTypes DEF Idle
<1>9. ASSUME SaveEnd PROVE saving' # saving
  BY <1>9 DEF SaveEnd, Idle
<1>10. ASSUME EditSchedules PROVE Overlay[f]' = Overlay[f]
  BY <1>1, <1>2, <1>10 DEF EditSchedules, TypeOK, Directory
<1>11. QED
  BY <1>4, <1>5, <1>6, <1>7, <1>8, <1>9, <1>10 DEF Next, StageDevice, StageRule, Stage,
     Discard, CommitStart, Rollback

\* At every step of a commit, one cut short by a crash included, no staged edit is
\* lost or half applied in what the web application shows.
THEOREM CommitsKeepView == Spec => CommitKeepsView
<1>1. TypeOK /\ CopiedArrives /\ [Next]_vars =>
        [web \notin {"idle", "dead"} =>
           \A f \in {"devices", "firewall"} :
             \/ Overlay[f]' = Overlay[f]
             \/ saving' # saving
             \/ raced /\ f = file]_vars
  BY StepKeepsView
<1>2. QED
  BY <1>1, InitTypes, StepTypes, InitArrives, StepArrives, PTL DEF Spec, CommitKeepsView
=============================================================================
