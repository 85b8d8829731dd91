------------------------- MODULE ClusterSyncProofs --------------------------
(***************************************************************************)
(* What holds of ClusterSync for any nodes, files and contents, any number *)
(* of commands and any failover threshold: the types, that the agents and  *)
(* the controller implement CommandQueue, and what a failover shows.       *)
(***************************************************************************)
EXTENDS Components, Sequences, SequenceTheorems, TLAPS

LEMMA SyncBounds == NumFiles \in Nat \ {0} /\ Threshold \in Nat \ {0} /\ MaxCommands \in Nat
  BY ComponentsAssumption DEF Sync!SyncAssumption

Read == Contents \cup {Truncated, Absent}

\* What a failed round does to the node's variables.
LEMMA FailureTypes ==
  ASSUME Sync!TypeOK, NEW n \in Worker, Sync!Failure(n), pc[n] # "stopped"
  PROVE  /\ failures' \in [Worker -> 0 .. Threshold]
         /\ promoted' \in [Worker -> BOOLEAN]
         /\ pc' \in [Worker -> {"off", "waiting", "answered", "commands", "slice", "manifest",
                              "bundle", "apply", "stopped"}]
         /\ \A m \in Worker : pc'[m] = "stopped" <=> promoted'[m]
         /\ answer' \in [Worker -> Seq(Sync!Command)]
<1> USE DEF Sync!TypeOK
<1>1. Sync!Counted(failures[n]) \in 0 .. Threshold
  BY SyncBounds DEF Sync!Counted
<1>2. failures' \in [Worker -> 0 .. Threshold]
  BY <1>1 DEF Sync!Failure
<1>3. Sync!Promotes(n, Sync!Counted(failures[n])) \in BOOLEAN
  BY DEF Sync!Promotes
<1>4. promoted' \in [Worker -> BOOLEAN]
  BY <1>3 DEF Sync!Failure
<1>5. /\ pc' \in [Worker -> {"off", "waiting", "answered", "commands", "slice", "manifest",
                           "bundle", "apply", "stopped"}]
      /\ \A m \in Worker : pc'[m] = "stopped" <=> promoted'[m]
  BY <1>3 DEF Sync!Failure
<1>6. <<>> \in Seq(Sync!Command)
  BY EmptySeq
<1>7. answer' \in [Worker -> Seq(Sync!Command)]
  BY <1>6 DEF Sync!Failure
<1>8. QED
  BY <1>2, <1>4, <1>5, <1>7

LEMMA SyncBegins == Sync!Init => Sync!TypeOK
<1>1. <<>> \in Seq(Sync!Command) /\ <<>> \in Seq(Read) /\ Len(<<>>) = 0
  BY EmptySeq
<1>2. QED
  BY <1>1, SyncBounds DEF Sync!Init, Sync!TypeOK, Sync!Files, Read

LEMMA SyncKeepsTypes == Sync!TypeOK /\ [Sync!Next]_Sync!vars => Sync!TypeOK'
<1> SUFFICES ASSUME Sync!TypeOK, [Sync!Next]_Sync!vars PROVE Sync!TypeOK'
  OBVIOUS
<1> USE DEF Sync!controller, Sync!failover, Sync!agent, Sync!history
<1>0. <<>> \in Seq(Sync!Command) /\ <<>> \in Seq(Read) /\ Len(<<>>) = 0 /\ NumFiles \in Nat
  BY EmptySeq, SyncBounds
<1>1. ASSUME NEW n \in Worker, NEW c \in Sync!Command, Sync!QueueCommand(n, c) PROVE Sync!TypeOK'
  <2>1. Append(pending[n], c) \in Seq(Sync!Command)
    BY AppendProperties DEF Sync!TypeOK
  <2>2. QED
    BY <1>1, <2>1 DEF Sync!QueueCommand, Sync!TypeOK
<1>2. ASSUME NEW n \in Worker, Sync!HandleHeartbeat(n) PROVE Sync!TypeOK'
  BY <1>0, <1>2 DEF Sync!HandleHeartbeat, Sync!Popped, Sync!TypeOK
<1>3. ASSUME NEW n \in Worker, Sync!HandleLate(n) PROVE Sync!TypeOK'
  BY <1>0, <1>3 DEF Sync!HandleLate, Sync!Popped, Sync!TypeOK
<1>4. ASSUME NEW n \in Worker, Sync!HeartbeatFails(n) PROVE Sync!TypeOK'
  <2>1. Sync!Counted(silent[n]) \in 0 .. Threshold
    BY SyncBounds DEF Sync!Counted, Sync!TypeOK
  <2>2. Sync!Failure(n) /\ pc[n] # "stopped"
    BY <1>4 DEF Sync!HeartbeatFails
  <2>3. silent' \in [Worker -> 0 .. Threshold] /\ late' \in [Worker -> BOOLEAN]
    BY <1>4, <2>1 DEF Sync!HeartbeatFails, Sync!TypeOK
  <2>4. QED
    BY <1>4, <2>2, <2>3, FailureTypes DEF Sync!HeartbeatFails, Sync!TypeOK
<1>5. ASSUME NEW n \in Worker, Sync!SliceFails(n) PROVE Sync!TypeOK'
  <2>1. Sync!Failure(n) /\ pc[n] # "stopped"
    BY <1>5 DEF Sync!SliceFails
  <2>2. QED
    BY <1>5, <2>1, FailureTypes DEF Sync!SliceFails, Sync!TypeOK
<1>6. ASSUME NEW n \in Worker, Sync!FetchFails(n) PROVE Sync!TypeOK'
  BY <1>6 DEF Sync!FetchFails, Sync!TypeOK
<1>7. ASSUME NEW n \in Worker, Sync!ReceiveAnswer(n) PROVE Sync!TypeOK'
  BY <1>7, SyncBounds DEF Sync!ReceiveAnswer, Sync!Answered, Sync!TypeOK
<1>8. ASSUME NEW n \in Worker, Sync!ExecuteCommand(n) PROVE Sync!TypeOK'
  <2>1. /\ Tail(answer[n]) \in Seq(Sync!Command)
        /\ Append(received[n], Head(answer[n])) \in Seq(Sync!Command)
    BY <1>8, HeadTailProperties, AppendProperties DEF Sync!ExecuteCommand, Sync!TypeOK
  <2>2. QED
    BY <1>8, <2>1 DEF Sync!ExecuteCommand, Sync!TypeOK
<1>9. ASSUME NEW n \in Worker, Sync!CommandsDone(n) \/ Sync!FetchSlice(n) \/ Sync!ReceiveBundle(n) PROVE Sync!TypeOK'
  BY <1>9 DEF Sync!CommandsDone, Sync!FetchSlice, Sync!ReceiveBundle, Sync!TypeOK
<1>10. ASSUME NEW n \in Worker, Sync!CompareManifest(n) \/ Sync!ApplyEnds(n) PROVE Sync!TypeOK'
  <2>0. reply' = [reply EXCEPT ![n] = <<>>]
    BY <1>10 DEF Sync!CompareManifest, Sync!ApplyEnds
  <2>1. reply' \in [Worker -> Seq(Read)] /\ \A m \in Worker : Len(reply'[m]) <= NumFiles
    BY <1>0, <2>0, SMTT(60) DEF Sync!TypeOK, Read
  <2>2. PICK to \in {"waiting", "bundle"} : pc' = [pc EXCEPT ![n] = to] /\ pc[n] # "stopped"
    BY <1>10 DEF Sync!CompareManifest, Sync!ApplyEnds
  <2>3. UNCHANGED <<Sync!controller, late, Sync!failover, answer, replica, Sync!history>>
    BY <1>10 DEF Sync!CompareManifest, Sync!ApplyEnds
  <2>4. QED
    BY <2>1, <2>2, <2>3 DEF Sync!TypeOK, Read
<1>11. ASSUME NEW n \in Worker, Sync!ReadFile(n) PROVE Sync!TypeOK'
  <2>1. reply[n] \in Seq(Read) /\ Len(reply[n]) \in Nat
    BY LenProperties DEF Sync!TypeOK, Read
  <2>2. files[Len(reply[n]) + 1] \in Read
    BY <1>0, <1>11, <2>1 DEF Sync!ReadFile, Sync!TypeOK, Sync!Files, Sync!File, Read
  <2>3. /\ Append(reply[n], files[Len(reply[n]) + 1]) \in Seq(Read)
        /\ Len(Append(reply[n], files[Len(reply[n]) + 1])) <= NumFiles
    BY <1>0, <1>11, <2>1, <2>2, AppendProperties DEF Sync!ReadFile
  <2>4. QED
    BY <1>11, <2>3 DEF Sync!ReadFile, Sync!TypeOK, Read
<1>12. ASSUME NEW n \in Worker, Sync!ApplyFile(n) PROVE Sync!TypeOK'
  <2>1. reply[n] \in Seq(Read) /\ Len(reply[n]) <= NumFiles /\ Len(reply[n]) \in Nat
    BY LenProperties DEF Sync!TypeOK, Read
  <2>2. /\ Head(reply[n]) \in Read /\ Tail(reply[n]) \in Seq(Read)
        /\ Len(Tail(reply[n])) <= NumFiles
    BY <1>0, <1>12, <2>1, HeadTailProperties DEF Sync!ApplyFile
  <2>3. replica' \in [Worker -> [Sync!File -> Read \cup {Edited}]]
    BY <1>12, <2>2 DEF Sync!ApplyFile, Sync!TypeOK, Read
  <2>4. QED
    BY <1>12, <2>2, <2>3 DEF Sync!ApplyFile, Sync!TypeOK, Read
<1>13. ASSUME NEW n \in Worker, Sync!AgentStart(n) PROVE Sync!TypeOK'
  BY <1>13 DEF Sync!AgentStart, Sync!TypeOK
<1>14. ASSUME NEW n \in Worker, Sync!AgentCrash(n) PROVE Sync!TypeOK'
  BY <1>0, <1>14, SyncBounds DEF Sync!AgentCrash, Sync!TypeOK, Read
<1>15. ASSUME NEW n \in Worker, NEW f \in Sync!File, Sync!LocalEdit(n, f) PROVE Sync!TypeOK'
  BY <1>15 DEF Sync!LocalEdit, Sync!TypeOK
<1>16. ASSUME NEW f \in Sync!File, Sync!WriteBegin(f) \/ Sync!WriteEnd(f) PROVE Sync!TypeOK'
  BY <1>16, SMTT(60) DEF Sync!WriteBegin, Sync!WriteEnd, Sync!TypeOK, Sync!Files
<1>17. CASE Sync!ControllerCrash
  <2>1. reply' \in [Worker -> Seq(Read)] /\ \A m \in Worker : Len(reply'[m]) <= NumFiles
    BY <1>0, <1>17 DEF Sync!ControllerCrash, Sync!TypeOK, Read
  <2>2. ctrl' \in BOOLEAN /\ pending' \in [Worker -> Seq(Sync!Command)]
    BY <1>0, <1>17 DEF Sync!ControllerCrash
  <2>3. QED
    BY <1>17, <2>1, <2>2 DEF Sync!ControllerCrash, Sync!TypeOK, Read
<1>18. CASE Sync!ControllerStart
  BY <1>18 DEF Sync!ControllerStart, Sync!TypeOK
<1>19. CASE UNCHANGED Sync!vars
  BY <1>19 DEF Sync!vars, Sync!TypeOK
<1>20. QED
  BY <1>1, <1>2, <1>3, <1>4, <1>5, <1>6, <1>7, <1>8, <1>9, <1>10, <1>11, <1>12, <1>13,
     <1>14, <1>15, <1>16, <1>17, <1>18, <1>19 DEF Sync!Next, Sync!ContactFails, Sync!Work

-----------------------------------------------------------------------------
(* The agents and the controller implement the command queue. *)

\* What a node may still receive loses its end with the controller's queue, and its
\* beginning with an answer.
LEMMA EndsLost ==
  ASSUME NEW s \in Seq(Sync!Command), NEW t \in Seq(Sync!Command)
  PROVE  /\ s \o t = SubSeq(s \o t, 1, Len(s \o t))
         /\ s = SubSeq(s \o t, 1, Len(s))
         /\ t = SubSeq(s \o t, Len(s) + 1, Len(s \o t))
         /\ Len(s \o t) = Len(s) + Len(t)
         /\ Len(s) \in Nat /\ Len(t) \in Nat
<1>1. /\ s \o t \in Seq(Sync!Command)
      /\ Len(s \o t) = Len(s) + Len(t)
      /\ Len(s) \in Nat /\ Len(t) \in Nat
  BY ConcatProperties, LenProperties
<1>2. s \o t = SubSeq(s \o t, 1, Len(s \o t))
  BY <1>1, SubSeqFull
<1>3. s = SubSeq(s \o t, 1, Len(s))
  <2>1. CASE s = <<>>
    BY <2>1, SubSeqEmpty, EmptySeq
  <2>2. CASE s # <<>>
    <3>1. Len(s) \in 1 .. Len(s) /\ 1 \in 1 .. Len(s)
      BY <1>1, <2>2, EmptySeq
    <3>2. SubSeq(s \o t, 1, Len(s)) = SubSeq(s, 1, Len(s))
      BY <3>1, SubSeqOfConcat1
    <3>3. QED
      BY <3>2, SubSeqFull
  <2>3. QED
    BY <2>1, <2>2
<1>4. t = SubSeq(s \o t, Len(s) + 1, Len(s \o t))
  <2>1. CASE t = <<>>
    <3>1. Len(s \o t) < Len(s) + 1 /\ Len(s) + 1 \in Int /\ Len(s \o t) \in Int
      BY <1>1, <2>1, EmptySeq
    <3>2. QED
      BY <2>1, <3>1, SubSeqEmpty
  <2>2. CASE t # <<>>
    <3>1. Len(s) + 1 \in Len(s) + 1 .. Len(s) + Len(t) /\ Len(s) + Len(t) \in Len(s) + 1 .. Len(s) + Len(t)
      BY <1>1, <2>2, EmptySeq
    <3>2. SubSeq(s \o t, Len(s) + 1, Len(s) + Len(t))
            = SubSeq(t, Len(s) + 1 - Len(s), Len(s) + Len(t) - Len(s))
      BY <3>1, SubSeqOfConcat2
    <3>3. Len(s) + 1 - Len(s) = 1 /\ Len(s) + Len(t) - Len(s) = Len(t)
      BY <1>1
    <3>4. QED
      BY <1>1, <3>2, <3>3, SubSeqFull
  <2>3. QED
    BY <2>1, <2>2
<1>5. QED
  BY <1>1, <1>2, <1>3, <1>4

\* A step after which every node has what it had, the first part of it or the last.
LEMMA StepLoses ==
  ASSUME Sync!TypeOK, UNCHANGED <<queued, received>>,
         \A n \in Worker :
           \/ answer'[n] = answer[n] /\ pending'[n] \in {pending[n], <<>>}
           \/ answer'[n] = <<>> /\ pending'[n] = pending[n]
           \/ answer'[n] = pending[n] /\ pending'[n] = <<>>
  PROVE  Sync!Promise!Lose
<1>1. ASSUME NEW n \in Worker
      PROVE  \E i \in 1 .. Len(Sync!Waiting[n]) + 1, j \in 0 .. Len(Sync!Waiting[n]) :
               Sync!Waiting'[n] = SubSeq(Sync!Waiting[n], i, j)
  <2> DEFINE s == answer[n]
             t == pending[n]
  <2>1. s \in Seq(Sync!Command) /\ t \in Seq(Sync!Command)
    BY DEF Sync!TypeOK
  <2>2. Sync!Waiting[n] = s \o t /\ Sync!Waiting'[n] = answer'[n] \o pending'[n]
    BY DEF Sync!Waiting
  <2>3. s \o <<>> = s /\ <<>> \o t = t /\ t \o <<>> = t
    BY <2>1, ConcatEmptySeq
  <2>4. Sync!Waiting'[n] \in {s \o t, s, t}
    BY <2>2, <2>3
  <2>5. /\ s \o t = SubSeq(s \o t, 1, Len(s \o t))
        /\ s = SubSeq(s \o t, 1, Len(s))
        /\ t = SubSeq(s \o t, Len(s) + 1, Len(s \o t))
        /\ Len(s \o t) = Len(s) + Len(t)
        /\ Len(s) \in Nat /\ Len(t) \in Nat
    BY <2>1, EndsLost
  <2> HIDE DEF s, t
  <2>6. /\ 1 \in 1 .. Len(s \o t) + 1 /\ Len(s) + 1 \in 1 .. Len(s \o t) + 1
        /\ Len(s \o t) \in 0 .. Len(s \o t) /\ Len(s) \in 0 .. Len(s \o t)
    BY <2>5
  <2>7. QED
    BY <2>2, <2>4, <2>5, <2>6
<1>2. Sync!Waiting' = [n \in Worker |-> Sync!Waiting'[n]]
  BY DEF Sync!Waiting
<1>3. QED
  BY <1>1, <1>2, SMTT(60) DEF Sync!Promise!Lose

\* Head and tail of a concatenation are those of its first part.
LEMMA ConcatHeadTail ==
  ASSUME NEW S, NEW s \in Seq(S), NEW t \in Seq(S), s # <<>>
  PROVE  s \o t # <<>> /\ Head(s \o t) = Head(s) /\ Tail(s \o t) = Tail(s) \o t
<1>1. /\ s \o t \in Seq(S) /\ s \o t # <<>>
      /\ Len(s \o t) = Len(s) + Len(t)
      /\ \A i \in 1 .. Len(s) + Len(t) :
           (s \o t)[i] = IF i <= Len(s) THEN s[i] ELSE t[i - Len(s)]
  BY ConcatProperties, ConcatEqualIffEmpty
<1>2. Len(s) \in Nat \ {0} /\ Len(t) \in Nat
  BY EmptySeq, LenProperties
<1>3. Head(s \o t) = (s \o t)[1] /\ Head(s) = s[1]
  BY <1>1
<1>4. Head(s \o t) = Head(s)
  BY <1>1, <1>2, <1>3
<1>5. /\ Tail(s) \in Seq(S) /\ Len(Tail(s)) = Len(s) - 1
      /\ \A i \in 1 .. Len(Tail(s)) : Tail(s)[i] = s[i + 1]
  BY HeadTailProperties
<1>6. /\ Tail(s \o t) \in Seq(S) /\ Len(Tail(s \o t)) = Len(s \o t) - 1
      /\ \A i \in 1 .. Len(Tail(s \o t)) : Tail(s \o t)[i] = (s \o t)[i + 1]
  BY <1>1, HeadTailProperties
<1>7. /\ Tail(s) \o t \in Seq(S)
      /\ Len(Tail(s) \o t) = Len(Tail(s)) + Len(t)
      /\ \A i \in 1 .. Len(Tail(s)) + Len(t) :
           (Tail(s) \o t)[i] = IF i <= Len(Tail(s)) THEN Tail(s)[i] ELSE t[i - Len(Tail(s))]
  BY <1>5, ConcatProperties
<1>8. Len(Tail(s \o t)) = Len(Tail(s) \o t)
  BY <1>1, <1>2, <1>5, <1>6, <1>7
<1>9. ASSUME NEW i \in 1 .. Len(Tail(s \o t)) PROVE Tail(s \o t)[i] = (Tail(s) \o t)[i]
  <2>1. i \in 1 .. Len(s) - 1 + Len(t) /\ i + 1 \in 1 .. Len(s) + Len(t)
    BY <1>1, <1>2, <1>6
  <2>2. Tail(s \o t)[i] = IF i + 1 <= Len(s) THEN s[i + 1] ELSE t[i + 1 - Len(s)]
    BY <1>1, <1>6, <2>1
  <2>3. (Tail(s) \o t)[i] = IF i <= Len(s) - 1 THEN Tail(s)[i] ELSE t[i - (Len(s) - 1)]
    BY <1>5, <1>7, <2>1
  <2>4. CASE i <= Len(s) - 1
    <3>1. i \in 1 .. Len(Tail(s)) /\ i + 1 <= Len(s)
      BY <1>2, <1>5, <2>1, <2>4
    <3>2. QED
      BY <1>5, <2>2, <2>3, <2>4, <3>1
  <2>5. CASE ~(i <= Len(s) - 1)
    <3>1. i + 1 - Len(s) = i - (Len(s) - 1) /\ ~(i + 1 <= Len(s))
      BY <1>2, <2>1, <2>5
    <3>2. QED
      BY <2>2, <2>3, <2>5, <3>1
  <2>6. QED
    BY <2>4, <2>5
<1>10. Tail(s \o t) = Tail(s) \o t
  BY <1>6, <1>7, <1>8, <1>9, SeqEqual
<1>11. QED
  BY <1>1, <1>4, <1>10

\* What is appended to the second part of a concatenation is appended to the whole.
LEMMA ConcatAppend ==
  ASSUME NEW S, NEW s \in Seq(S), NEW t \in Seq(S), NEW e \in S
  PROVE  s \o Append(t, e) = Append(s \o t, e)
<1>1. <<e>> \in Seq(S) /\ s \o t \in Seq(S)
  BY ConcatProperties
<1>2. Append(t, e) = t \o <<e>> /\ Append(s \o t, e) = (s \o t) \o <<e>>
  BY <1>1, AppendIsConcat
<1>3. (s \o t) \o <<e>> = s \o (t \o <<e>>)
  BY <1>1, ConcatAssociative
<1>4. QED
  BY <1>2, <1>3

\* A queued command comes last of what the node may receive.
LEMMA QueueImplements ==
  ASSUME Sync!TypeOK, NEW n \in Worker, NEW c \in Sync!Command, Sync!QueueCommand(n, c)
  PROVE  Sync!Promise!Queue(n, c)
<1>1. c \notin queued[n]
  <2>1. queued[n] \subseteq 1 .. c - 1
    BY DEF Sync!QueueCommand
  <2>2. c \in Int
    BY DEF Sync!Command
  <2>3. QED
    BY <2>1, <2>2
<1>2. answer[n] \o Append(pending[n], c) = Append(answer[n] \o pending[n], c)
  BY ConcatAppend DEF Sync!TypeOK
<1>3. Sync!Waiting' = [Sync!Waiting EXCEPT ![n] = Append(@, c)]
  BY <1>2 DEF Sync!QueueCommand, Sync!agent, Sync!Waiting, Sync!TypeOK
<1>4. QED
  BY <1>1, <1>3 DEF Sync!QueueCommand, Sync!Promise!Queue

\* The command that is run is the first of them.
LEMMA ExecuteImplements ==
  ASSUME Sync!TypeOK, NEW n \in Worker, Sync!ExecuteCommand(n)
  PROVE  Sync!Promise!Receive(n)
<1> DEFINE s == answer[n]
           t == pending[n]
<1>1. s \in Seq(Sync!Command) /\ t \in Seq(Sync!Command) /\ s # <<>>
  BY DEF Sync!TypeOK, Sync!ExecuteCommand
<1>2. s \o t # <<>> /\ Head(s \o t) = Head(s) /\ Tail(s \o t) = Tail(s) \o t
  BY <1>1, ConcatHeadTail
<1>3. Sync!Waiting[n] = s \o t
  BY DEF Sync!Waiting
<1>4. Sync!Waiting' = [Sync!Waiting EXCEPT ![n] = Tail(@)]
  BY <1>2 DEF Sync!ExecuteCommand, Sync!controller, Sync!Waiting, Sync!TypeOK
<1>5. UNCHANGED queued /\ received' = [received EXCEPT ![n] = Append(@, Head(s))]
  BY DEF Sync!ExecuteCommand
<1>6. QED
  BY <1>2, <1>3, <1>4, <1>5 DEF Sync!Promise!Receive

LEMMA SyncInitImplements == Sync!Init => Sync!Promise!Init
<1>1. <<>> \o <<>> = <<>>
  BY ConcatEmptySeq, EmptySeq
<1>2. QED
  BY <1>1 DEF Sync!Init, Sync!Promise!Init, Sync!Waiting

LEMMA SyncStepImplements == Sync!TypeOK /\ [Sync!Next]_Sync!vars => [Sync!Promise!Next]_Sync!Promise!vars
<1> SUFFICES ASSUME Sync!TypeOK, [Sync!Next]_Sync!vars PROVE Sync!Promise!Next \/ UNCHANGED Sync!Promise!vars
  OBVIOUS
<1> USE DEF Sync!controller, Sync!failover, Sync!agent, Sync!history
<1>1. ASSUME NEW n \in Worker, NEW c \in Sync!Command, Sync!QueueCommand(n, c) PROVE Sync!Promise!Next
  BY <1>1, QueueImplements DEF Sync!Promise!Next
<1>2. ASSUME NEW n \in Worker, Sync!ExecuteCommand(n) PROVE Sync!Promise!Next
  BY <1>2, ExecuteImplements DEF Sync!Promise!Next
<1>3. ASSUME NEW n \in Worker, Sync!HandleHeartbeat(n) \/ Sync!HandleLate(n) PROVE Sync!Promise!Lose
  BY <1>3, StepLoses, SMTT(60) DEF Sync!HandleHeartbeat, Sync!HandleLate, Sync!Popped, Sync!TypeOK
<1>4. ASSUME NEW n \in Worker, Sync!HeartbeatFails(n) \/ Sync!SliceFails(n) PROVE Sync!Promise!Lose
  BY <1>4, StepLoses DEF Sync!HeartbeatFails, Sync!SliceFails, Sync!Failure, Sync!TypeOK
<1>5. ASSUME NEW n \in Worker, Sync!AgentCrash(n) PROVE Sync!Promise!Lose
  BY <1>5, StepLoses DEF Sync!AgentCrash, Sync!TypeOK
<1>6. CASE Sync!ControllerCrash
  <2>1. Sync!Promise!Lose
    BY <1>6, StepLoses DEF Sync!ControllerCrash, Sync!TypeOK
  <2>2. QED
    BY <2>1 DEF Sync!Promise!Next
<1>7. ASSUME \/ UNCHANGED Sync!vars
             \/ \E n \in Worker :
                  \/ Sync!FetchFails(n) \/ Sync!ReceiveAnswer(n) \/ Sync!CommandsDone(n)
                  \/ Sync!CompareManifest(n) \/ Sync!ReceiveBundle(n) \/ Sync!FetchSlice(n)
                  \/ Sync!ReadFile(n) \/ Sync!ApplyFile(n) \/ Sync!ApplyEnds(n) \/ Sync!AgentStart(n)
                  \/ \E f \in Sync!File : Sync!LocalEdit(n, f)
             \/ \E f \in Sync!File : Sync!WriteBegin(f) \/ Sync!WriteEnd(f)
             \/ Sync!ControllerStart
      PROVE  UNCHANGED Sync!Promise!vars
  <2>1. UNCHANGED <<answer, pending, queued, received>>
    BY <1>7 DEF Sync!vars, Sync!FetchFails, Sync!ReceiveAnswer, Sync!CommandsDone, Sync!CompareManifest, Sync!ReceiveBundle,
                Sync!FetchSlice, Sync!ReadFile, Sync!ApplyFile, Sync!ApplyEnds, Sync!AgentStart, Sync!LocalEdit, Sync!WriteBegin,
                Sync!WriteEnd, Sync!ControllerStart
  <2>2. QED
    BY <2>1 DEF Sync!Promise!vars, Sync!Waiting
<1>8. QED
  BY <1>1, <1>2, <1>3, <1>4, <1>5, <1>6, <1>7
     DEF Sync!Next, Sync!ContactFails, Sync!Work, Sync!Promise!Next

-----------------------------------------------------------------------------
(* What a failover shows. *)

\* The failures an agent has counted are at most one more than the heartbeats that went
\* unanswered: the answer that ended the silence has also reset the count, and the rest
\* of its round can fail once.
LagBehindSilence ==
  \A n \in Worker :
    /\ failures[n] <= silent[n] + 1
    /\ pc[n] \in {"commands", "slice"} => failures[n] = 0

LEMMA CountedBounds ==
  ASSUME NEW k \in 0 .. Threshold
  PROVE  Sync!Counted(k) \in 0 .. Threshold /\ Sync!Counted(k) <= k + 1
  BY SyncBounds DEF Sync!Counted

\* Counting both once more keeps the difference.
LEMMA CountedTogether ==
  ASSUME NEW j \in 0 .. Threshold, NEW k \in 0 .. Threshold, j <= k + 1
  PROVE  Sync!Counted(j) <= Sync!Counted(k) + 1
  BY SyncBounds DEF Sync!Counted

LEMMA SyncStepLags == Sync!TypeOK /\ LagBehindSilence /\ [Sync!Next]_Sync!vars => LagBehindSilence'
<1> SUFFICES ASSUME Sync!TypeOK, LagBehindSilence, [Sync!Next]_Sync!vars PROVE LagBehindSilence'
  OBVIOUS
<1> USE DEF Sync!controller, Sync!failover, Sync!agent, Sync!history
<1>1. ASSUME NEW n \in Worker, Sync!HeartbeatFails(n) PROVE LagBehindSilence'
  <2>1. Sync!Counted(failures[n]) <= Sync!Counted(silent[n]) + 1
    BY CountedTogether DEF Sync!TypeOK, LagBehindSilence
  <2>2. /\ failures' = [failures EXCEPT ![n] = Sync!Counted(failures[n])]
        /\ silent' = [silent EXCEPT ![n] = Sync!Counted(silent[n])]
        /\ \A m \in Worker : pc'[m] \in {"commands", "slice"} => m # n /\ pc'[m] = pc[m]
    BY <1>1 DEF Sync!HeartbeatFails, Sync!Failure, Sync!TypeOK
  <2>3. QED
    BY <2>1, <2>2 DEF Sync!TypeOK, LagBehindSilence
<1>2. ASSUME NEW n \in Worker, Sync!SliceFails(n) PROVE LagBehindSilence'
  <2>1. failures[n] = 0 /\ Sync!Counted(0) <= 1 /\ silent[n] \in Nat
    BY <1>2, CountedBounds, SyncBounds DEF Sync!SliceFails, Sync!TypeOK, LagBehindSilence
  <2>2. /\ failures' = [failures EXCEPT ![n] = Sync!Counted(0)] /\ silent' = silent
        /\ \A m \in Worker : pc'[m] \in {"commands", "slice"} => m # n /\ pc'[m] = pc[m]
    BY <1>2, <2>1 DEF Sync!SliceFails, Sync!Failure, Sync!TypeOK
  <2>3. Sync!Counted(0) \in Int
    BY CountedBounds, SyncBounds
  <2>4. QED
    BY <2>1, <2>2, <2>3 DEF Sync!TypeOK, LagBehindSilence
<1>3. ASSUME NEW n \in Worker, Sync!ReceiveAnswer(n) \/ Sync!AgentCrash(n) PROVE LagBehindSilence'
  <2>1. /\ failures' = [failures EXCEPT ![n] = 0]
        /\ silent' = [silent EXCEPT ![n] = 0]
        /\ \A m \in Worker \ {n} : pc'[m] = pc[m]
    BY <1>3 DEF Sync!ReceiveAnswer, Sync!Answered, Sync!AgentCrash, Sync!TypeOK
  <2>2. QED
    BY <2>1, SyncBounds DEF Sync!TypeOK, LagBehindSilence
<1>4. ASSUME NEW n \in Worker, Sync!CommandsDone(n) PROVE LagBehindSilence'
  BY <1>4 DEF Sync!CommandsDone, Sync!TypeOK, LagBehindSilence
<1>5. ASSUME NEW n \in Worker,
             \/ Sync!HandleHeartbeat(n) \/ Sync!FetchFails(n) \/ Sync!FetchSlice(n) \/ Sync!CompareManifest(n)
             \/ Sync!ReceiveBundle(n) \/ Sync!ApplyEnds(n) \/ Sync!AgentStart(n)
      PROVE  LagBehindSilence'
  <2>1. PICK to \in {"answered", "waiting", "manifest", "bundle", "apply"} :
          pc' = [pc EXCEPT ![n] = to]
    BY <1>5 DEF Sync!HandleHeartbeat, Sync!FetchFails, Sync!FetchSlice, Sync!CompareManifest, Sync!ReceiveBundle,
                Sync!ApplyEnds, Sync!AgentStart
  <2>2. UNCHANGED <<failures, silent>>
    BY <1>5 DEF Sync!HandleHeartbeat, Sync!FetchFails, Sync!FetchSlice, Sync!CompareManifest, Sync!ReceiveBundle,
                Sync!ApplyEnds, Sync!AgentStart
  <2>3. QED
    BY <2>1, <2>2 DEF Sync!TypeOK, LagBehindSilence
<1>6. ASSUME \/ UNCHANGED Sync!vars
             \/ \E n \in Worker :
                  \/ Sync!HandleLate(n) \/ Sync!ExecuteCommand(n) \/ Sync!ReadFile(n) \/ Sync!ApplyFile(n)
                  \/ \E c \in Sync!Command : Sync!QueueCommand(n, c)
                  \/ \E f \in Sync!File : Sync!LocalEdit(n, f)
             \/ \E f \in Sync!File : Sync!WriteBegin(f) \/ Sync!WriteEnd(f)
             \/ Sync!ControllerCrash \/ Sync!ControllerStart
      PROVE  LagBehindSilence'
  <2>1. UNCHANGED <<pc, failures, silent>>
    BY <1>6 DEF Sync!vars, Sync!HandleLate, Sync!ExecuteCommand, Sync!ReadFile, Sync!ApplyFile, Sync!QueueCommand, Sync!LocalEdit,
                Sync!WriteBegin, Sync!WriteEnd, Sync!ControllerCrash, Sync!ControllerStart
  <2>2. QED
    BY <2>1 DEF LagBehindSilence
<1>7. QED
  BY <1>1, <1>2, <1>3, <1>4, <1>5, <1>6 DEF Sync!Next, Sync!ContactFails, Sync!Work

LEMMA SyncStepTakesOver == Sync!TypeOK /\ LagBehindSilence /\ [Sync!Next]_Sync!vars => Sync!TakesOverFromSilent
<1> SUFFICES ASSUME Sync!TypeOK, LagBehindSilence, [Sync!Next]_Sync!vars,
                    NEW n \in Worker, ~promoted[n], promoted'[n]
             PROVE  eligible[n] /\ silent'[n] >= Threshold - 1
  BY DEF Sync!TakesOverFromSilent
<1> USE DEF Sync!controller, Sync!failover, Sync!agent, Sync!history
<1>1. \/ \E m \in Worker : Sync!HeartbeatFails(m) \/ Sync!SliceFails(m) \/ Sync!AgentCrash(m)
      \/ UNCHANGED promoted
  BY DEF Sync!Next, Sync!ContactFails, Sync!Work, Sync!vars, Sync!QueueCommand, Sync!HandleHeartbeat, Sync!HandleLate, Sync!FetchFails,
         Sync!ReceiveAnswer, Sync!ExecuteCommand, Sync!CommandsDone, Sync!CompareManifest, Sync!ReceiveBundle, Sync!FetchSlice,
         Sync!ReadFile, Sync!ApplyFile, Sync!ApplyEnds, Sync!AgentStart, Sync!LocalEdit, Sync!WriteBegin, Sync!WriteEnd,
         Sync!ControllerCrash, Sync!ControllerStart
<1>2. ~\E m \in Worker : Sync!AgentCrash(m)
  BY DEF Sync!AgentCrash, Sync!TypeOK
<1>3. PICK m \in Worker : Sync!HeartbeatFails(m) \/ Sync!SliceFails(m)
  BY <1>1, <1>2
<1>4. Sync!Failure(m)
  BY <1>3 DEF Sync!HeartbeatFails, Sync!SliceFails
<1>5. m = n /\ Sync!Promotes(n, Sync!Counted(failures[n])) /\ failures'[n] = Sync!Counted(failures[n])
  BY <1>4 DEF Sync!Failure, Sync!TypeOK
<1>6. failures'[n] <= silent'[n] + 1
  BY SyncStepLags DEF LagBehindSilence
<1>7. silent'[n] \in Int /\ failures'[n] \in Int /\ Threshold \in Int
  <2>1. Sync!TypeOK'
    BY SyncKeepsTypes
  <2>2. silent'[n] \in 0 .. Threshold /\ failures'[n] \in 0 .. Threshold
    BY <2>1 DEF Sync!TypeOK
  <2>3. QED
    BY <2>2, SyncBounds
<1>8. QED
  BY <1>5, <1>6, <1>7 DEF Sync!Promotes

-----------------------------------------------------------------------------
(* The whole and its parts. *)

\* A step of the whole is one of its part.
LEMMA SyncSteps ==
  ASSUME Next
  PROVE  /\ part' = part
         /\ part = "Sync" => Sync!Next
  BY DEF Next, HouseholdStep, GatewaysStep, TokensStep, RegistryStep, SyncStep, AlertingStep, AppsStep,
       BackupStep, SessionsStep, AccountsStep, CertsStep, SetupStep, UpdatesStep, SettingsStep,
       FirewallStep, BuildsStep, Rest

\* A behaviour of the whole is one of Sync, or never its own.
LEMMA SyncPart ==
  Spec => (Sync!Init /\ [][Sync!Next]_Sync!vars /\ [](part = "Sync")) \/ []~(part = "Sync")
<1>1. Init /\ part = "Sync" => Sync!Init
  BY DEF Init
<1>2. [Next]_vars => part' = part /\ (part = "Sync" => [Sync!Next]_Sync!vars)
  <2>1. ASSUME UNCHANGED vars
        PROVE  part' = part /\ UNCHANGED Sync!vars
    BY <2>1 DEF vars, SyncOwn, Shared, Sync!vars, Sync!controller, Sync!failover, Sync!agent,
       Sync!history
  <2> QED BY <2>1, SyncSteps
<1>3. [Next]_vars /\ part = "Sync" => (part = "Sync")' /\ [Sync!Next]_Sync!vars
  BY <1>2
<1>4. [Next]_vars /\ ~(part = "Sync") => (~(part = "Sync"))'
  BY <1>2
<1> QED BY <1>1, <1>3, <1>4, PTL DEF Spec

LEMMA SyncHolds == Sync!Init /\ [][Sync!Next]_Sync!vars => [](Sync!TypeOK /\ LagBehindSilence)
<1>1. Sync!Init => LagBehindSilence
  BY DEF Sync!Init, LagBehindSilence
<1> QED BY <1>1, SyncStepLags, SyncBegins, SyncKeepsTypes, PTL

-----------------------------------------------------------------------------
(* Results. *)

\* The commands an administrator queues reach a node in their order and none of them twice,
\* through heartbeats whose answers are lost or that the controller handles late, through
\* crashes of the agent and of the controller with its queues, for any number of nodes.
THEOREM ImplementsQueue == Spec => CommandsInOrder
<1>1. Sync!TypeOK /\ [Sync!Next]_Sync!vars => Sync!QueueStep
  BY SyncStepImplements DEF Sync!QueueStep
<1>2. Init => (part = "Sync" => Sync!Promise!Init)
  BY SyncInitImplements DEF Init
<1> QED BY <1>1, <1>2, SyncPart, SyncHolds, PTL DEF Spec, CommandsInOrder

\* No node takes over but one that may, after the heartbeats of all its failures but one at
\* most have gone unanswered in a row: a single slice that could not be fetched may stand
\* for one of them.
THEOREM TakesOverJustified == Spec => FailoverJustified
  BY SyncPart, SyncHolds, SyncStepTakesOver, PTL DEF FailoverJustified
=============================================================================
