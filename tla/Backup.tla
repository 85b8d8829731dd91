-------------------------------- MODULE Backup --------------------------------
(***************************************************************************)
(* Encrypted backups of the configuration directory (backup_handler.py,    *)
(* behind the backup routes of schedules.py and the daemon's CreateBackup  *)
(* and RestoreBackup).  The daemon copies the directory entry by entry,    *)
(* writes a manifest of the copies, and packs the archive; it restores an  *)
(* archive after it has checked every entry the manifest lists.  Other     *)
(* processes write the directory meanwhile, and the daemon may die.        *)
(*                                                                         *)
(* The contents of an entry are a version of it.  A manifest says which    *)
(* version an entry has: the checksum is collision free.  The staged       *)
(* directory is elsewhere and is in no backup.                             *)
(***************************************************************************)
EXTENDS Naturals, FiniteSets

CONSTANTS
  File, Tree,  \* the plain files and the directories of the configuration directory
  Absent,      \* there is no such entry
  Torn,        \* an entry somebody has opened for writing and not yet written
  None,        \* no archive, no entry
  MaxVersion   \* bound: saves

BackupAssumption == MaxVersion \in Nat /\ None \notin File \cup Tree

VARIABLES
  entries,  \* the configuration directory
  version,  \* the number of saves so far
  writing,  \* the file another process has truncated and is about to write
  archive,  \* the archive on the disk
  daemon,   \* where CreateBackup or RestoreBackup is, and its temporary directory
  answer,   \* what the last RestoreBackup has come to
  before,   \* history: the directory when it began, and the archive it took
  saved     \* history: what others have written since then

vars == <<entries, version, writing, archive, daemon, answer, before, saved>>

Entry == File \cup Tree
Content == 0 .. MaxVersion \cup {Absent, Torn}
Directory == [Entry -> Content]

\* An archive: what is in it, what its manifest lists, whether its version is known.
Archive == [entries : Directory, listed : Directory, known : BOOLEAN]

Empty == [e \in Entry |-> Absent]
Nothing == [entries |-> Empty, listed |-> Empty, known |-> TRUE]
Present(dir) == {e \in Entry : dir[e] # Absent}

\* left: the entries to copy; open: the one being replaced; tmp: what is unpacked.
Idle == [at |-> "idle", left |-> {}, open |-> None, tmp |-> Nothing]

TypeOK ==
  /\ entries \in Directory
  /\ before.entries \in Directory /\ before.archive \in Archive
  /\ version \in 0 .. MaxVersion
  /\ writing \in File \cup {None}
  /\ archive = None \/ archive \in Archive
  /\ daemon.at \in {"idle", "backup", "restore"}
  /\ daemon.left \subseteq Entry /\ daemon.open \in Entry \cup {None}
  /\ daemon.tmp \in Archive
  /\ answer \in {"none", "true", "refused", "failed"}
  /\ saved \subseteq Entry

-----------------------------------------------------------------------------
(* create_backup. *)

BeginBackup ==
  /\ daemon.at = "idle"
  /\ daemon' = [Idle EXCEPT !.at = "backup", !.left = Present(entries)]
  /\ UNCHANGED <<entries, version, writing, archive, answer, before, saved>>

CopyOut(e) ==
  /\ daemon.at = "backup" /\ e \in daemon.left
  /\ daemon' = IF entries[e] = Absent THEN Idle  \* FileNotFoundError
               ELSE [daemon EXCEPT !.left = @ \ {e}, !.tmp.entries[e] = entries[e]]
  /\ UNCHANGED <<entries, version, writing, archive, answer, before, saved>>

\* The manifest is made from the copies, and the archive replaces the last one.
Pack ==
  /\ daemon.at = "backup" /\ daemon.left = {}
  /\ archive' = [daemon.tmp EXCEPT !.listed = daemon.tmp.entries]
  /\ daemon' = Idle
  /\ UNCHANGED <<entries, version, writing, answer, before, saved>>

\* gpg fails, and may have removed the archive it was to replace.
PackFails ==
  /\ daemon.at = "backup" /\ daemon.left = {}
  /\ archive' \in {archive, None}
  /\ daemon' = Idle
  /\ UNCHANGED <<entries, version, writing, answer, before, saved>>

\* An administrator brings another archive: of another version, or repacked with one
\* entry missing, added or changed.
BringArchive ==
  /\ archive # None /\ archive.known /\ archive.listed = archive.entries
  /\ \/ archive' = [archive EXCEPT !.known = FALSE]
     \/ \E e \in Entry, c \in Content \ {Torn} : archive' = [archive EXCEPT !.entries[e] = c]
  /\ UNCHANGED <<entries, version, writing, daemon, answer, before, saved>>

-----------------------------------------------------------------------------
(* restore_backup. *)

\* Mutant: what the archive holds is checked, and not that it holds what is listed.
VerifiedIfPresent(a) ==
  /\ a.known
  /\ \A e \in Present(a.listed) \cap Present(a.entries) : a.entries[e] = a.listed[e]

\* The manifest's version, and every listed entry present and with its checksum.
Verified(a) == a.known /\ \A e \in Present(a.listed) : a.entries[e] = a.listed[e]

\* The archive is missing, cannot be decrypted, or does not verify.
Refuse ==
  /\ daemon.at = "idle"
  /\ answer' = "refused" /\ before' = [entries |-> entries, archive |-> Nothing] /\ saved' = {}
  /\ UNCHANGED <<entries, version, writing, archive, daemon>>

BeginRestore ==
  /\ daemon.at = "idle" /\ archive # None
  /\ Verified(archive)
  /\ daemon' = [at |-> "restore", left |-> Present(archive.entries), open |-> None, tmp |-> archive]
  /\ answer' = "none" /\ before' = [entries |-> entries, archive |-> archive] /\ saved' = {}
  /\ UNCHANGED <<entries, version, writing, archive>>

\* A file is truncated and a directory removed, ...
Replace(e) ==
  /\ daemon.at = "restore" /\ daemon.open = None /\ e \in daemon.left
  /\ entries' = [entries EXCEPT ![e] = IF e \in Tree THEN Absent ELSE Torn]
  /\ daemon' = [daemon EXCEPT !.open = e]
  /\ UNCHANGED <<version, writing, archive, answer, before, saved>>

\* ... and then it is copied.  What another process has written into the file meanwhile
\* may be left in it.
CopyIn ==
  /\ daemon.open # None
  /\ LET e == daemon.open
         c == daemon.tmp.entries[e]
     IN  /\ e \in Tree => entries[e] = Absent
         /\ \E w \in IF entries[e] \in {Absent, Torn} THEN {c} ELSE {c, Torn} :
              entries' = [entries EXCEPT ![e] = w]
         /\ daemon' = [daemon EXCEPT !.open = None, !.left = @ \ {e}]
  /\ UNCHANGED <<version, writing, archive, answer, before, saved>>

\* An entry cannot be copied: a directory that is there again, a full disk.
CopyFails ==
  /\ daemon.at = "restore" /\ daemon.left # {}
  /\ answer' = "failed" /\ daemon' = Idle
  /\ UNCHANGED <<entries, version, writing, archive, before, saved>>

\* on_restored: reload_config raises if the directory does not load.
EndRestore ==
  /\ daemon.at = "restore" /\ daemon.left = {}
  /\ answer' \in {"true", "failed"} /\ daemon' = Idle
  /\ UNCHANGED <<entries, version, writing, archive, before, saved>>

DaemonDies ==
  /\ daemon.at # "idle"
  /\ answer' = IF daemon.at = "restore" THEN "failed" ELSE answer
  /\ daemon' = Idle
  /\ UNCHANGED <<entries, version, writing, archive, before, saved>>

-----------------------------------------------------------------------------
(* The other processes. *)

Open(e) ==
  /\ writing = None /\ version < MaxVersion
  /\ e \in File
  /\ entries' = [entries EXCEPT ![e] = Torn]
  /\ writing' = e /\ saved' = saved \cup {e}
  /\ UNCHANGED <<version, archive, daemon, answer, before>>

Close ==
  /\ writing # None
  /\ \E w \in IF entries[writing] = Torn THEN {version + 1} ELSE {version + 1, Torn} :
       entries' = [entries EXCEPT ![writing] = w]
  /\ version' = version + 1 /\ saved' = saved \cup {writing} /\ writing' = None
  /\ UNCHANGED <<archive, daemon, answer, before>>

\* Something is put into a directory, which is made if need be: a certificate.
Put(e) ==
  /\ e \in Tree /\ version < MaxVersion /\ writing = None
  /\ entries' = [entries EXCEPT ![e] = version + 1]
  /\ version' = version + 1 /\ saved' = saved \cup {e}
  /\ UNCHANGED <<writing, archive, daemon, answer, before>>

Init ==
  /\ entries \in [Entry -> {0, Absent}] /\ \A f \in File : entries[f] = 0
  /\ before = [entries |-> entries, archive |-> Nothing]
  /\ version = 0 /\ writing = None
  /\ archive = None /\ daemon = Idle
  /\ answer = "none" /\ saved = {}

Next ==
  \/ BeginBackup \/ Pack \/ PackFails \/ BringArchive
  \/ Refuse \/ BeginRestore \/ CopyIn \/ CopyFails \/ EndRestore \/ DaemonDies \/ Close
  \/ \E e \in Entry : CopyOut(e) \/ Replace(e) \/ Open(e) \/ Put(e)

Spec == Init /\ [][Next]_vars

-----------------------------------------------------------------------------
(* Properties. *)

\* What a restore makes of entry e: as the manifest lists it, what is only in the archive
\* as in the archive, and the rest as it was.
Outcome(e) ==
  IF before.archive.listed[e] # Absent THEN before.archive.listed[e]
  ELSE IF before.archive.entries[e] # Absent THEN before.archive.entries[e]
  ELSE before.entries[e]

\* What RestoreBackup answers is what has become of the directory, but for what others
\* wrote meanwhile.  After true, and after a refusal, every entry is as a restore makes it.
\* The failure that is told by the same False, and the daemon's death, leave a mixture of
\* the two, with at most one entry torn or missing that was whole before.
RestoreAnswersTruly ==
  /\ answer \in {"true", "refused"} => \A e \in Entry \ saved : entries[e] = Outcome(e)
  /\ answer = "failed" =>
       \E torn \in Entry \cup {None} : \A e \in Entry \ (saved \cup {torn}) :
         entries[e] \in {before.entries[e], Outcome(e)}
=============================================================================
