------------------------------- MODULE Updates -------------------------------
(***************************************************************************)
(* System updates (update_manager.py, the updates routes and commands).    *)
(* An installation, in a thread of the web application or in a command,    *)
(* archives the configuration directory document by document, runs the     *)
(* package manager and reboots if the window is open.  Several may run at  *)
(* once: the package manager lets one in, the archive, named to the        *)
(* second, any of them.                                                    *)
(*                                                                         *)
(* Whoever installs has the default settings, which install everything and *)
(* reboot: a command gives none, and the repository of the web application *)
(* has no config_dir, so that get_update_manager falls back to them.  PUT  *)
(* of the settings fails before it changes anything (the repository has no *)
(* save_config).  The mock package manager, the list of packages and what  *)
(* is printed are not kept.                                                *)
(***************************************************************************)
EXTENDS Naturals

CONSTANTS
  Thread,     \* installations that may run at once
  Document,   \* the documents of the configuration directory
  Package,
  None,       \* no archive
  Torn,       \* of a document, a part
  MaxTime,    \* bound: seconds
  MaxVersion  \* bound: edits of a document

Second == 0 .. MaxTime
Version == 0 .. MaxVersion

VARIABLES
  now,
  config,    \* the edits of each document of the configuration that have begun
  partial,   \* the documents whose last edit is under way: emptied, or half written
  pending,   \* packages with an update
  required,  \* the packages that were updated ask for a reboot
  archive,   \* the seconds whose archive was opened
  thread,    \* each installation, and what its archive has of each document
  shared     \* history: seconds in which two installations opened an archive

directory == <<config, partial>>
system == <<pending, required>>
vars == <<now, directory, system, archive, thread, shared>>

UpdatesAssumption ==
  /\ MaxTime \in Nat /\ MaxVersion \in Nat
  /\ None \notin Second \cup Version \cup {Torn} /\ Torn \notin Version

\* What an archive has of a document: an edit of it, a part of it, or nothing yet.
Installation == [at : {"idle", "archive", "run", "reboot"}, backup : Second \cup {None},
                 has : [Document -> Version \cup {None, Torn}], since : [Document -> Version]]

Idle == [at |-> "idle", backup |-> None, has |-> [d \in Document |-> None],
         since |-> [d \in Document |-> 0]]

TypeOK ==
  /\ now \in Second
  /\ config \in [Document -> Version] /\ partial \subseteq Document
  /\ pending \subseteq Package /\ required \in BOOLEAN
  /\ archive \subseteq Second
  /\ thread \in [Thread -> Installation]
  /\ shared \subseteq Second

-----------------------------------------------------------------------------
Goes(t, to) == thread' = [thread EXCEPT ![t] = to]

\* The last edit of each document that is complete.
Complete == [d \in Document |-> IF d \in partial THEN config[d] - 1 ELSE config[d]]

\* Two archives of one second are one file, which the second empties under the first.
Garbled == [d \in Document |-> Torn]

\* install_updates, create_pre_update_backup: the archive of this second is opened, and
\* the directory listed.  (since: the edits complete by then.)
Install(t) ==
  /\ thread[t].at = "idle"
  /\ thread' = [o \in Thread |->
       IF o = t THEN [Idle EXCEPT !.at = "archive", !.backup = now, !.since = Complete]
       ELSE IF thread[o].backup = now THEN [thread[o] EXCEPT !.has = Garbled] ELSE thread[o]]
  /\ archive' = archive \cup {now}
  /\ shared' = IF now \in archive THEN shared \cup {now} ELSE shared
  /\ UNCHANGED <<now, directory, system>>

\* One document is added as it is found, in a file of its own or beside another's.
Add(t, d) ==
  /\ thread[t].at = "archive" /\ thread[t].has[d] = None
  /\ Goes(t, [thread[t] EXCEPT !.has[d] =
        IF d \in partial \/ thread[t].backup \in shared THEN Torn ELSE config[d]])
  /\ UNCHANGED <<now, directory, system, archive, shared>>

\* Mutant: the package manager is run beside the archive, not after it.
Anyway(t) == TRUE

Listed(t) == \A d \in Document : thread[t].has[d] # None

\* The archive is closed with all that was listed.
Archive(t) ==
  /\ thread[t].at = "archive" /\ Listed(t)
  /\ Goes(t, [thread[t] EXCEPT !.at = "run"])
  /\ UNCHANGED <<now, directory, system, archive, shared>>

\* The archive cannot be written, or a document changes its size under it: the updates
\* are installed without.
ArchiveFails(t) ==
  /\ thread[t].at = "archive"
  /\ Goes(t, [Idle EXCEPT !.at = "run"])
  /\ UNCHANGED <<now, directory, system, archive, shared>>

\* The package manager ends well; a reboot that is required is made at once if the window
\* is open.  (Outside the window a time is reported, and nothing comes of it.)
Run(t) ==
  /\ thread[t].at = "run"
  /\ pending' = {}
  /\ required' \in {required, required \/ pending # {}}
  /\ Goes(t, Idle) \/ (required' /\ Goes(t, [Idle EXCEPT !.at = "reboot"]))
  /\ UNCHANGED <<now, directory, archive, shared>>

\* It fails or is killed after its time, before, between or after packages; also because
\* another installation has its lock.
RunFails(t) ==
  /\ thread[t].at = "run"
  /\ pending' \in SUBSET pending
  /\ required' \in {required, required \/ pending' # pending}
  /\ Goes(t, Idle)
  /\ UNCHANGED <<now, directory, archive, shared>>

\* The web application, or the command, is killed under an installation.
Killed(t) ==
  /\ thread[t].at = "archive"
  /\ Goes(t, Idle)
  /\ UNCHANGED <<now, directory, system, archive, shared>>

\* The machine goes down under every installation.
Reboot ==
  /\ \E t \in Thread : thread[t].at = "reboot"
  /\ thread' = [t \in Thread |-> Idle]
  /\ required' = FALSE
  /\ UNCHANGED <<now, directory, pending, archive, shared>>

Appear(p) ==
  /\ pending' = pending \cup {p} /\ p \notin pending
  /\ UNCHANGED <<now, directory, required, archive, thread, shared>>

\* A document is edited in place: opened, which empties it, and written.
Edit(d) ==
  /\ d \notin partial /\ config[d] < MaxVersion
  /\ config' = [config EXCEPT ![d] = @ + 1] /\ partial' = partial \cup {d}
  /\ UNCHANGED <<now, system, archive, thread, shared>>

SaveEnds(d) ==
  /\ partial' = partial \ {d}
  /\ UNCHANGED <<now, config, system, archive, thread, shared>>

Tick ==
  /\ now < MaxTime
  /\ now' = now + 1
  /\ UNCHANGED <<directory, system, archive, thread, shared>>

Init ==
  /\ now = 0
  /\ config = [d \in Document |-> 0] /\ partial = {}
  /\ pending = Package /\ required = FALSE
  /\ archive = {}
  /\ thread = [t \in Thread |-> Idle]
  /\ shared = {}

Next ==
  \/ \E t \in Thread :
       \/ Install(t) \/ Archive(t) \/ ArchiveFails(t) \/ Killed(t) \/ Run(t) \/ RunFails(t)
       \/ \E d \in Document : Add(t, d)
  \/ Reboot \/ Tick
  \/ \E p \in Package : Appear(p)
  \/ \E d \in Document : Edit(d)
  \/ \E d \in partial : SaveEnds(d)

Spec == Init /\ [][Next]_vars

-----------------------------------------------------------------------------
(* Properties. *)

\* A document of an archive is one that there was since the installation began: complete,
\* or half written by an edit that began or ended since.
FromSince(t) ==
  \A d \in Document :
    LET has == thread[t].has[d]
    IN  \/ has \in thread[t].since[d] .. config[d]
        \/ has = Torn /\ thread[t].since[d] < config[d]

\* When an installation changes packages, also if it fails at it, and it got an archive
\* that no other opened in the same second, the archive has all the documents, each by
\* itself as it was since the installation began.  (They need not be of one moment, and
\* one that is being edited may be in it half written; an installation whose archive
\* failed goes on without.)
BacksUpFirst ==
  \A t \in Thread :
    thread[t].at = "run" /\ pending' # pending /\ thread'[t] # thread[t]
      /\ thread[t].backup # None /\ thread[t].backup \notin shared =>
        FromSince(t)
UpdatesBackedUp == [][BacksUpFirst]_vars
=============================================================================
