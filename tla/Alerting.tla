------------------------------- MODULE Alerting -------------------------------
(***************************************************************************)
(* Alerts (alert_manager.py, notifications.py, the alerts routes).  An     *)
(* evaluation runs when somebody asks for it, in a thread of its own: two  *)
(* of them share the alerts and no lock.  It queries every rule, raises    *)
(* what is over its threshold and was not raised, and resolves every alert *)
(* it has not seen.                                                        *)
(*                                                                         *)
(* An alert is a rule, with the node it is about; texts, values and times  *)
(* are not kept, nor the history, where a resolved alert stays.            *)
(***************************************************************************)
EXTENDS Naturals, Sequences

CONSTANTS
  Rules,       \* the rules, in the order they are evaluated
  Critical,    \* those of critical severity, the others being warnings
  Evaluation,  \* threads
  Channel,
  Reluctant    \* channels that want critical alerts only

Rule == {Rules[i] : i \in DOMAIN Rules}

AlertingAssumption ==
  /\ Rules \in Seq(Rule) \ {<<>>}
  /\ Critical \subseteq Rule /\ Reluctant \subseteq Channel

VARIABLES
  over,    \* rules whose metric is over the threshold
  alerts,  \* active_alerts: what is firing, and acknowledged or not
  thread,  \* each evaluation: where it is and what it has seen
  told,    \* what each channel was last told of each rule
  excused  \* history: alerts that something has spoken against since they were raised

vars == <<over, alerts, thread, told, excused>>

Idle == [at |-> "idle", left |-> <<>>, seen |-> {}, resolving |-> {}]
Step == {"idle", "query", "check", "insert", "dispatch", "resolve"}

TypeOK ==
  /\ over \subseteq Rule /\ excused \subseteq Rule
  /\ alerts \in [Rule -> {"none", "firing", "acknowledged"}]
  /\ told \in [Channel \X Rule -> {"nothing", "firing", "resolved"}]
  /\ \A e \in Evaluation :
       /\ thread[e].at \in Step
       /\ thread[e].left \in {SubSeq(Rules, i, Len(Rules)) : i \in 1 .. Len(Rules) + 1}
       /\ thread[e].seen \subseteq Rule /\ thread[e].resolving \subseteq Rule

-----------------------------------------------------------------------------
Active == {r \in Rule : alerts[r] # "none"}

\* The severity of a rule reaches the minimum of the channel.
ShouldNotify(c, r) == c \in Reluctant => r \in Critical

\* Every eligible channel is tried; any of them may fail.
Dispatch(r, state) ==
  \E reached \in SUBSET {c \in Channel : ShouldNotify(c, r)} :
    told' = [x \in Channel \X Rule |->
               IF x[1] \in reached /\ x[2] = r THEN state ELSE told[x]]

At(e, step) == thread[e].at = step
Goes(e, to) == thread' = [thread EXCEPT ![e] = to]

\* The next rule, or the alerts to resolve.
After(t, seen) ==
  LET left == Tail(t.left)
  IN  IF left # <<>> THEN [t EXCEPT !.at = "query", !.left = left, !.seen = seen]
      ELSE [at |-> "resolve", left |-> <<>>, seen |-> {}, resolving |-> Active \ seen]

Begin(e) ==
  /\ At(e, "idle")
  /\ Goes(e, [Idle EXCEPT !.at = "query", !.left = Rules])
  /\ UNCHANGED <<over, alerts, told, excused>>

\* A query that fails is skipped, and its alert goes unseen.
QueryFails(e) ==
  /\ At(e, "query")
  /\ Goes(e, After(thread[e], thread[e].seen))
  /\ excused' = excused \cup {Head(thread[e].left)}
  /\ UNCHANGED <<over, alerts, told>>

Query(e) ==
  /\ At(e, "query")
  /\ LET r == Head(thread[e].left)
     IN  IF r \in over THEN Goes(e, [thread[e] EXCEPT !.at = "check"])
                       ELSE Goes(e, After(thread[e], thread[e].seen))
  /\ UNCHANGED <<over, alerts, told, excused>>

\* Mutant: an alert counts as seen only when it is raised.
SeenIfNew(e, r) == IF alerts[r] = "none" THEN thread[e].seen \cup {r} ELSE thread[e].seen

Seen(e, r) == thread[e].seen \cup {r}

\* Is it there already?
Check(e) ==
  /\ At(e, "check")
  /\ LET r == Head(thread[e].left)
     IN  IF alerts[r] = "none"
           THEN Goes(e, [thread[e] EXCEPT !.at = "insert", !.seen = Seen(e, r)])
           ELSE Goes(e, After(thread[e], Seen(e, r)))
  /\ UNCHANGED <<over, alerts, told, excused>>

\* Another evaluation has dealt with the rule, and has not seen the alert.
Overtaken(e, r) ==
  \E d \in Evaluation \ {e} :
    /\ ~At(d, "idle") /\ ~At(d, "resolve") /\ r \notin thread[d].seen
    /\ \A i \in DOMAIN thread[d].left : thread[d].left[i] # r

\* What was absent a moment ago is put there, or replaced.
Insert(e) ==
  /\ At(e, "insert")
  /\ LET r == Head(thread[e].left)
     IN  /\ alerts' = [alerts EXCEPT ![r] = "firing"]
         /\ excused' = IF r \notin over \/ Overtaken(e, r)
                            \/ \E d \in Evaluation : r \in thread[d].resolving
                         THEN excused \cup {r} ELSE excused \ {r}
  /\ Goes(e, [thread[e] EXCEPT !.at = "dispatch"])
  /\ UNCHANGED <<over, told>>

DispatchFiring(e) ==
  /\ At(e, "dispatch")
  /\ Dispatch(Head(thread[e].left), "firing")
  /\ Goes(e, After(thread[e], thread[e].seen))
  /\ UNCHANGED <<over, alerts, excused>>

\* The alert is popped, and then the channels are told.
Resolve(e, r) ==
  /\ At(e, "resolve")
  /\ r \in thread[e].resolving /\ alerts[r] # "none"
  /\ alerts' = [alerts EXCEPT ![r] = "none"]
  /\ Dispatch(r, "resolved")
  /\ Goes(e, [thread[e] EXCEPT !.resolving = @ \ {r}])
  /\ UNCHANGED <<over, excused>>

\* All are resolved; or another evaluation has popped the next one, and this one ends
\* with a KeyError, the rest unresolved.
End(e) ==
  /\ At(e, "resolve")
  /\ thread[e].resolving = {} \/ \E r \in thread[e].resolving : alerts[r] = "none"
  /\ Goes(e, Idle)
  /\ UNCHANGED <<over, alerts, told, excused>>

Acknowledge(r) ==
  /\ alerts[r] = "firing"
  /\ alerts' = [alerts EXCEPT ![r] = "acknowledged"]
  /\ UNCHANGED <<over, thread, told, excused>>

\* The metrics change as they like.
Rise(r) ==
  /\ r \notin over
  /\ over' = over \cup {r}
  /\ UNCHANGED <<alerts, thread, told, excused>>

Fall(r) ==
  /\ r \in over
  /\ over' = over \ {r}
  /\ excused' = excused \cup {r}
  /\ UNCHANGED <<alerts, thread, told>>

Init ==
  /\ over \in SUBSET Rule
  /\ alerts = [r \in Rule |-> "none"]
  /\ thread = [e \in Evaluation |-> Idle]
  /\ told = [x \in Channel \X Rule |-> "nothing"]
  /\ excused = {}

Next ==
  \/ \E e \in Evaluation :
       \/ Begin(e) \/ Query(e) \/ QueryFails(e) \/ Check(e) \/ Insert(e)
       \/ DispatchFiring(e) \/ End(e) \/ \E r \in Rule : Resolve(e, r)
  \/ \E r \in Rule : Acknowledge(r) \/ Rise(r) \/ Fall(r)

Spec == Init /\ [][Next]_vars

-----------------------------------------------------------------------------
(* Properties. *)

\* However evaluations overlap, an alert is resolved only if, since it was raised, its
\* metric fell, a query of it failed, or another evaluation was already past its rule
\* when it was raised: being raised already is no reason, nor is an acknowledgement.
ResolvesWithReason ==
  \A r \in Rule : alerts[r] # "none" /\ alerts'[r] = "none" => r \in excused
ResolvedWithReason == [][ResolvesWithReason]_vars
=============================================================================
