---------------------------- MODULE ClusterSync ----------------------------
(***************************************************************************)
(* The sync agents of the cluster's worker nodes (cluster_sync.py,         *)
(* cluster_replicator.py) and the controller they talk to over HTTP        *)
(* (cluster_manager.py, the web application's services/cluster.py).        *)
(*                                                                         *)
(* An agent's round is a heartbeat, the commands its answer carries, the   *)
(* pull of a configuration slice, and the repair of the local files by     *)
(* manifest and bundle.  Requests and answers get lost, and a request the  *)
(* agent has given up may be handled later.  The sleep between two rounds  *)
(* is not a state: an agent that waits for an answer has asked, or is yet  *)
(* to ask.  The controller reads its files one after the other while other *)
(* processes write them.                                                   *)
(***************************************************************************)
EXTENDS Integers, Sequences, FiniteSets

CONSTANTS
  Node,       \* worker nodes
  NumFiles,   \* length of CONFIG_FILES
  Content,    \* what a file may hold
  Truncated,  \* a file that is opened for writing
  Absent,     \* there is no such file
  Local,      \* what a node's own programs have written to its copy
  Threshold,  \* failover_threshold
  MaxCommands \* bound: commands queued

SyncAssumption ==
  /\ NumFiles \in Nat \ {0}
  /\ Threshold \in Nat \ {0}
  /\ MaxCommands \in Nat

ASSUME ClusterAssumption == SyncAssumption

File == 1 .. NumFiles
Command == 1 .. MaxCommands

VARIABLES
  files,     \* the controller's configuration directory
  ctrl,      \* the controller's web process runs
  pending,   \* its _pending_commands
  late,      \* a heartbeat the node has given up is still on its way
  pc,        \* where each agent is
  eligible,  \* auto_failover and a positive failover_priority, as the agent was built
  answer,    \* commands of the heartbeat's answer, under way or not yet executed
  failures,  \* consecutive_heartbeat_failures, counted up to Threshold
  promoted,  \* is_promoted_master
  reply,     \* hashes or contents read for the manifest or the bundle so far
  replica,   \* the node's configuration directory
  queued,    \* history: commands queued for each node
  received,  \* history: commands each agent has run, in order
  silent     \* history: rounds without an answered heartbeat, up to Threshold

controller == <<files, ctrl, pending>>
failover == <<eligible, failures, promoted>>
agent == <<pc, failover, answer, reply, replica>>
history == <<queued, received, silent>>
vars == <<controller, late, agent, history>>

Files == [File -> Content \cup {Truncated, Absent}]

TypeOK ==
  /\ files \in Files
  /\ ctrl \in BOOLEAN
  /\ pending \in [Node -> Seq(Command)]
  /\ late \in [Node -> BOOLEAN]
  /\ pc \in [Node -> {"off", "waiting", "answered", "commands", "slice", "manifest",
                      "bundle", "apply", "stopped"}]
  /\ eligible \in [Node -> BOOLEAN]
  /\ answer \in [Node -> Seq(Command)]
  /\ failures \in [Node -> 0 .. Threshold]
  /\ promoted \in [Node -> BOOLEAN]
  /\ \A n \in Node : pc[n] = "stopped" <=> promoted[n]
  /\ reply \in [Node -> Seq(Content \cup {Truncated, Absent})]
  /\ \A n \in Node : Len(reply[n]) <= NumFiles
  /\ replica \in [Node -> [File -> Content \cup {Truncated, Absent, Local}]]
  /\ queued \in [Node -> SUBSET Command]
  /\ received \in [Node -> Seq(Command)]
  /\ silent \in [Node -> 0 .. Threshold]

\* consecutive_heartbeat_failures += 1; above the threshold its value does not matter.
Counted(k) == IF k < Threshold THEN k + 1 ELSE Threshold

-----------------------------------------------------------------------------
(* The controller. *)

\* queue_node_command, from the route that triggers an update.  Commands are numbered
\* as they are queued.
QueueCommand(n, c) ==
  /\ ctrl
  /\ UNION {queued[m] : m \in Node} = 1 .. c - 1
  /\ pending' = [pending EXCEPT ![n] = Append(@, c)]
  /\ queued' = [queued EXCEPT ![n] = @ \cup {c}]
  /\ UNCHANGED <<files, ctrl, late, agent, received, silent>>

\* Mutant: the commands are read, not popped.
Kept(n) == pending

\* pop_node_commands
Popped(n) == [pending EXCEPT ![n] = <<>>]

\* record_heartbeat of the service: the pending commands leave with the answer.
HandleHeartbeat(n) ==
  /\ ctrl
  /\ pc[n] = "waiting"
  /\ answer' = [answer EXCEPT ![n] = pending[n]]
  /\ pending' = Popped(n)
  /\ pc' = [pc EXCEPT ![n] = "answered"]
  /\ UNCHANGED <<files, ctrl, late, failover, reply, replica, history>>

\* ... for a request nobody waits for any more.
HandleLate(n) ==
  /\ ctrl
  /\ late[n]
  /\ late' = [late EXCEPT ![n] = FALSE]
  /\ pending' = Popped(n)
  /\ UNCHANGED <<files, ctrl, agent, history>>

\* A process of the controller's host rewrites a configuration file.
WriteBegin(f) ==
  /\ files' = [files EXCEPT ![f] = Truncated]
  /\ UNCHANGED <<ctrl, pending, late, agent, history>>

WriteEnd(f) ==
  /\ files[f] = Truncated
  /\ \E v \in Content : files' = [files EXCEPT ![f] = v]
  /\ UNCHANGED <<ctrl, pending, late, agent, history>>

\* The web process dies with its queues and with the answers under way.
ControllerCrash ==
  /\ ctrl
  /\ ctrl' = FALSE
  /\ pending' = [n \in Node |-> <<>>]
  /\ reply' = [n \in Node |-> IF pc[n] \in {"manifest", "bundle"} THEN <<>> ELSE reply[n]]
  /\ UNCHANGED <<files, late, failover, pc, answer, replica, history>>

ControllerStart ==
  /\ ~ctrl
  /\ ctrl' = TRUE
  /\ UNCHANGED <<files, pending, late, agent, history>>

-----------------------------------------------------------------------------
(* One round of _sync_loop. *)

\* evaluate_and_trigger_failover
Promotes(n, k) == eligible[n] /\ k >= Threshold

\* Mutant: the promoted agent goes on with its rounds.
FailureGoesOn(n) ==
  LET k == Counted(failures[n]) IN
  /\ failures' = [failures EXCEPT ![n] = k]
  /\ promoted' = [promoted EXCEPT ![n] = Promotes(n, k)]
  /\ pc' = [pc EXCEPT ![n] = "waiting"]
  /\ answer' = [answer EXCEPT ![n] = <<>>]

\* Mutant: the handler is outside the loop, which ends with its first failure.
FailureEnds(n) ==
  LET k == Counted(failures[n]) IN
  /\ failures' = [failures EXCEPT ![n] = k]
  /\ promoted' = [promoted EXCEPT ![n] = Promotes(n, k)]
  /\ pc' = [pc EXCEPT ![n] = "stopped"]
  /\ answer' = [answer EXCEPT ![n] = <<>>]

\* The handler of the round: whatever has failed counts as a failed heartbeat,
\* and the round is over.
Failure(n) ==
  LET k == Counted(failures[n]) IN
  /\ failures' = [failures EXCEPT ![n] = k]
  /\ promoted' = [promoted EXCEPT ![n] = Promotes(n, k)]
  /\ pc' = [pc EXCEPT ![n] = IF Promotes(n, k) THEN "stopped" ELSE "waiting"]
  /\ answer' = [answer EXCEPT ![n] = <<>>]

\* The request is lost, late or refused, or its answer is lost.
HeartbeatFails(n) ==
  /\ pc[n] \in {"waiting", "answered"}
  /\ Failure(n)
  /\ \/ late' = late
     \/ pc[n] = "waiting" /\ late' = [late EXCEPT ![n] = TRUE]
  /\ silent' = [silent EXCEPT ![n] = Counted(@)]
  /\ UNCHANGED <<controller, eligible, reply, replica, queued, received>>

\* Mutant: the counter is not reset.
AnsweredCounting(n) == failures

Answered(n) == [failures EXCEPT ![n] = 0]

ReceiveAnswer(n) ==
  /\ pc[n] = "answered"
  /\ failures' = Answered(n)
  /\ silent' = [silent EXCEPT ![n] = 0]
  /\ pc' = [pc EXCEPT ![n] = "commands"]
  /\ UNCHANGED <<controller, late, eligible, answer, promoted, reply, replica, queued, received>>

\* execute_command swallows every error, so the next command follows in any case.
ExecuteCommand(n) ==
  /\ pc[n] = "commands"
  /\ answer[n] # <<>>
  /\ received' = [received EXCEPT ![n] = Append(@, Head(answer[n]))]
  /\ answer' = [answer EXCEPT ![n] = Tail(@)]
  /\ UNCHANGED <<controller, late, failover, pc, reply, replica, queued, silent>>

CommandsDone(n) ==
  /\ pc[n] = "commands"
  /\ answer[n] = <<>>
  /\ pc' = [pc EXCEPT ![n] = "slice"]
  /\ UNCHANGED <<controller, late, failover, answer, reply, replica, history>>

\* fetch_config_slice: any answer will do, and the agent only keeps what it gets.
FetchSlice(n) ==
  /\ ctrl
  /\ pc[n] = "slice"
  /\ pc' = [pc EXCEPT ![n] = "manifest"]
  /\ UNCHANGED <<controller, late, failover, answer, reply, replica, history>>

SliceFails(n) ==
  /\ pc[n] = "slice"
  /\ Failure(n)
  /\ UNCHANGED <<controller, late, eligible, reply, replica, history>>

\* generate_manifest and export_bundle go through CONFIG_FILES in order.
ReadFile(n) ==
  /\ ctrl
  /\ pc[n] \in {"manifest", "bundle"}
  /\ Len(reply[n]) < NumFiles
  /\ reply' = [reply EXCEPT ![n] = Append(@, files[Len(@) + 1])]
  /\ UNCHANGED <<controller, late, failover, pc, answer, replica, history>>

\* fetch_manifest and sync_from_controller swallow every error: no failure counts.
\* Reading has no effect, so a lost answer is a request that failed.
FetchFails(n) ==
  /\ pc[n] \in {"manifest", "bundle"}
  /\ reply[n] = <<>>
  /\ pc' = [pc EXCEPT ![n] = "waiting"]
  /\ UNCHANGED <<controller, late, failover, answer, reply, replica, history>>

\* Mutant: only files the replica lacks count.
MismatchMissing(n) ==
  {f \in File : reply[n][f] # Absent /\ replica[n][f] = Absent}

\* compare_manifest: a file the controller does not have is not in its manifest.
Mismatch(n) ==
  {f \in File : reply[n][f] # Absent /\ reply[n][f] # replica[n][f]}

CompareManifest(n) ==
  /\ pc[n] = "manifest"
  /\ Len(reply[n]) = NumFiles
  /\ pc' = [pc EXCEPT ![n] = IF Mismatch(n) = {} THEN "waiting" ELSE "bundle"]
  /\ reply' = [reply EXCEPT ![n] = <<>>]
  /\ UNCHANGED <<controller, late, failover, answer, replica, history>>

ReceiveBundle(n) ==
  /\ pc[n] = "bundle"
  /\ Len(reply[n]) = NumFiles
  /\ pc' = [pc EXCEPT ![n] = "apply"]
  /\ UNCHANGED <<controller, late, failover, answer, reply, replica, history>>

\* apply_bundle replaces one file after the other, each of them atomically.
Applying(n) == NumFiles - Len(reply[n]) + 1

ApplyFile(n) ==
  /\ pc[n] = "apply"
  /\ reply[n] # <<>>
  /\ replica' = IF Head(reply[n]) = Absent THEN replica
                ELSE [replica EXCEPT ![n][Applying(n)] = Head(reply[n])]
  /\ reply' = [reply EXCEPT ![n] = Tail(@)]
  /\ UNCHANGED <<controller, late, failover, pc, answer, history>>

\* The bundle is applied, or a file could not be written and the rest is dropped.
ApplyEnds(n) ==
  /\ pc[n] = "apply"
  /\ pc' = [pc EXCEPT ![n] = "waiting"]
  /\ reply' = [reply EXCEPT ![n] = <<>>]
  /\ UNCHANGED <<controller, late, failover, answer, replica, history>>

-----------------------------------------------------------------------------
(* A node's life and its own programs. *)

AgentStart(n) ==
  /\ pc[n] = "off"
  /\ pc' = [pc EXCEPT ![n] = "waiting"]
  /\ \E b \in BOOLEAN : eligible' = [eligible EXCEPT ![n] = b]
  /\ UNCHANGED <<controller, late, answer, failures, promoted, reply, replica, history>>

\* What the agent knows is in memory, its promotion too; a stopped agent is not
\* started again in the same process.
AgentCrash(n) ==
  /\ pc[n] # "off"
  /\ pc' = [pc EXCEPT ![n] = "off"]
  /\ answer' = [answer EXCEPT ![n] = <<>>]
  /\ reply' = [reply EXCEPT ![n] = <<>>]
  /\ failures' = [failures EXCEPT ![n] = 0]
  /\ promoted' = [promoted EXCEPT ![n] = FALSE]
  /\ silent' = [silent EXCEPT ![n] = 0]
  /\ UNCHANGED <<controller, late, eligible, replica, queued, received>>

\* The node's daemon or web application writes its copy of a file.
LocalEdit(n, f) ==
  /\ replica' = [replica EXCEPT ![n][f] = Local]
  /\ UNCHANGED <<controller, late, failover, pc, answer, reply, history>>

-----------------------------------------------------------------------------
Init ==
  /\ files \in [File -> Content \cup {Absent}]
  /\ ctrl = TRUE
  /\ pending = [n \in Node |-> <<>>]
  /\ late = [n \in Node |-> FALSE]
  /\ pc = [n \in Node |-> "off"]
  /\ eligible = [n \in Node |-> FALSE]
  /\ answer = [n \in Node |-> <<>>]
  /\ failures = [n \in Node |-> 0]
  /\ promoted = [n \in Node |-> FALSE]
  /\ reply = [n \in Node |-> <<>>]
  /\ replica = [n \in Node |-> [f \in File |-> Absent]]
  /\ queued = [n \in Node |-> {}]
  /\ received = [n \in Node |-> <<>>]
  /\ silent = [n \in Node |-> 0]

\* The part of a round the agent does alone.
Work(n) == ExecuteCommand(n) \/ CommandsDone(n) \/ CompareManifest(n) \/ ReceiveBundle(n)

ContactFails(n) == HeartbeatFails(n) \/ SliceFails(n) \/ FetchFails(n)

Next ==
  \/ \E n \in Node :
       \/ \E c \in Command : QueueCommand(n, c)
       \/ HandleHeartbeat(n)
       \/ HandleLate(n)
       \/ ContactFails(n)
       \/ ReceiveAnswer(n)
       \/ Work(n)
       \/ FetchSlice(n)
       \/ ReadFile(n)
       \/ ApplyFile(n)
       \/ ApplyEnds(n)
       \/ AgentStart(n)
       \/ AgentCrash(n)
       \/ \E f \in File : LocalEdit(n, f)
  \/ \E f \in File : WriteBegin(f) \/ WriteEnd(f)
  \/ ControllerCrash
  \/ ControllerStart

\* An agent works on and notices that the controller is gone, a read that began
\* goes on and an applied bundle ends its round.  A contact tried again and
\* again, and the write of a file, do not fail for ever.
Fairness ==
  \A n \in Node :
    /\ WF_vars(\/ Work(n)
               \/ reply[n] # <<>> /\ ReadFile(n)
               \/ reply[n] = <<>> /\ ApplyEnds(n))
    /\ WF_vars(~ctrl /\ ContactFails(n))
    /\ SF_vars(HandleHeartbeat(n))
    /\ SF_vars(ReceiveAnswer(n))
    /\ SF_vars(FetchSlice(n))
    /\ SF_vars(pc[n] = "manifest" /\ ReadFile(n))
    /\ SF_vars(pc[n] = "bundle" /\ ReadFile(n))
    /\ \A f \in File : SF_vars(Applying(n) = f /\ ApplyFile(n))

Spec == Init /\ [][Next]_vars /\ Fairness

-----------------------------------------------------------------------------
(* Properties. *)

\* What may still reach a node: the answer under way, then the controller's queue.
Waiting == [n \in Node |-> answer[n] \o pending[n]]

Promise == INSTANCE CommandQueue WITH waiting <- Waiting

\* Commands reach a node in the order they were queued and none twice, through
\* lost answers, late requests, crashes of both sides and rounds that fail.
CommandsInOrder == Promise!Spec

\* One step of it, as the abstract queue sees it.
QueueStep == Promise!Next \/ UNCHANGED Promise!vars

\* Only an eligible node takes over, and only from a silent controller: it got no
\* answer to its last Threshold - 1 heartbeats.  Not Threshold: a slice that cannot
\* be fetched counts like a failed heartbeat and may follow an answered one.
TakesOverFromSilent ==
  \A n \in Node : ~promoted[n] /\ promoted'[n] => eligible[n] /\ silent'[n] >= Threshold - 1

FailoverJustified == [][TakesOverFromSilent]_vars

\* When the controller is gone for good, an eligible node takes over.
FailoverHappens ==
  \A n \in Node : <>[](~ctrl /\ eligible[n] /\ pc[n] # "off") => <>promoted[n]

\* While an agent works with a living controller, a file that stays as it is
\* reaches the node's copy again and again, over torn reads, half-applied
\* bundles, local edits and failing contacts.
ReplicaConverges ==
  \A n \in Node, f \in File, v \in Content :
    <>[](files[f] = v /\ ctrl /\ pc[n] \notin {"off", "stopped"})
      => []<>(replica[n][f] = v)
=============================================================================
