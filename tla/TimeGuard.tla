------------------------------ MODULE TimeGuard ------------------------------
(***************************************************************************)
(* The screen-time client of a workstation, roostos-timeguardd: the main   *)
(* loop that charges active users and locks sessions, the MQTT thread that *)
(* takes limits from the router, the state file both save, and the PAM     *)
(* check, a process of its own that reads the file at every login.         *)
(*                                                                         *)
(* Time is counted in ticks of 30 seconds, a started tick as a whole one.  *)
(* Python switches threads between any two steps below.  The loop reads    *)
(* remaining_seconds twice before it writes (the test and the subtraction);*)
(* one read stands for both: a message between the two has the outcome of  *)
(* a message before the first or after the write.                          *)
(***************************************************************************)
EXTENDS Integers, FiniteSets

CONSTANTS
  User,         \* users of config.json
  Limit,        \* daily limits, in ticks
  Grant,        \* values a message may carry
  LastDay,      \* bound: days of the model are 0 .. LastDay
  MaxMessages,  \* bound: messages received
  MaxCrashes,   \* bound: crashes in one day
  Absent,       \* no entry for the user
  Empty,        \* the file is truncated
  Torn,         \* the file holds what json.load rejects
  Closed,       \* the writer has no file open
  Nobody        \* the loop has no user at hand

ASSUME LimitAssumption == Limit \in [User -> Nat] /\ Grant \subseteq Nat

ASSUME BoundAssumption == LastDay \in Nat /\ MaxMessages \in Nat /\ MaxCrashes \in Nat

VARIABLES
  day,       \* datetime.date.today()
  session,   \* logind: a user's session is "none", "open" or "locked"
  file,      \* /var/lib/roostos-timeguardd/state.json
  mem,       \* self.state["users"]
  pc,        \* where the main loop is
  active,    \* active_users
  tickDay,   \* today_str
  todo,      \* users the loop has yet to visit in this tick
  user,      \* the user it is at
  seen,      \* the remaining time it has read
  mqtt,      \* where the MQTT thread is: "idle", "open" or "flush"
  buf,       \* what each thread has serialised and not yet written
  messages,  \* history: messages accepted
  crashes,   \* history: crashes today
  charged,   \* history: ticks charged to a user today
  blind      \* history: the daemon started today without a readable file

loop == <<pc, active, tickDay, todo, user, seen>>
hist == <<messages, crashes, charged, blind>>
vars == <<day, session, file, mem, loop, mqtt, buf, hist>>

Writer == {"main", "mqtt"}
Record == [left : Nat, reset : 0 .. LastDay]
State  == [User -> Record \cup {Absent}]

\* The marks of a missing entry, of an unreadable file and of no open file are
\* not entries, or states.
ASSUME MarkAssumption ==
  /\ Absent \notin Record
  /\ Empty \notin State /\ Torn \notin State /\ Closed \notin State

TypeOK ==
  /\ day \in 0 .. LastDay /\ tickDay \in 0 .. LastDay
  /\ session \in [User -> {"none", "open", "locked"}]
  /\ file \in State \cup {Empty, Torn}
  /\ mem \in State
  /\ pc \in {"off", "sleep", "tick", "charge", "check", "lock", "flush"}
  /\ active \subseteq User /\ todo \subseteq User
  /\ user \in User \cup {Nobody}
  /\ pc \in {"charge", "check", "lock"} => user \in User /\ mem[user] # Absent
  /\ seen \in Nat
  /\ mqtt \in {"idle", "open", "flush"}
  /\ buf \in [Writer -> State \cup {Closed}]
  /\ pc = "flush" => buf["main"] # Closed
  /\ mqtt = "flush" => buf["mqtt"] # Closed
  /\ messages \in 0 .. MaxMessages /\ crashes \in 0 .. MaxCrashes
  /\ charged \in [User -> Nat]
  /\ blind \in BOOLEAN

up == pc # "off"

NoState == [u \in User |-> Absent]
Readable(f) == f \notin {Empty, Torn}

-----------------------------------------------------------------------------
(* The PAM check. *)

\* Mutant: the file's last tick is already refused.
PamDeniesBoundary(u) ==
  /\ Readable(file)
  /\ file[u] # Absent
  /\ file[u].left <= 1

\* pam_check: a file it cannot read, or one without the user, admits.
PamDenies(u) ==
  /\ Readable(file)
  /\ file[u] # Absent
  /\ file[u].left <= 0

Login(u) ==
  /\ session[u] \in {"none", "locked"}
  /\ ~PamDenies(u)
  /\ session' = [session EXCEPT ![u] = "open"]
  /\ UNCHANGED <<day, file, mem, loop, mqtt, buf, hist>>

Logout(u) ==
  /\ session[u] # "none"
  /\ session' = [session EXCEPT ![u] = "none"]
  /\ UNCHANGED <<day, file, mem, loop, mqtt, buf, hist>>

-----------------------------------------------------------------------------
(* The daemon's life. *)

\* Mutant: the default is used even when there is a file.
LoadedFresh(f) == NoState

\* load_json: the default holds none of the configured users.
Loaded(f) == IF Readable(f) THEN f ELSE NoState

Start ==
  /\ ~up
  /\ mem' = Loaded(file)
  /\ blind' = (blind \/ ~Readable(file))
  /\ pc' = "sleep"
  /\ UNCHANGED <<day, session, file, active, tickDay, todo, user, seen, mqtt, buf,
                 messages, crashes, charged>>

\* Kill, power cut or reboot; sessions may survive the daemon.
Crash ==
  /\ up
  /\ crashes < MaxCrashes
  /\ crashes' = crashes + 1
  /\ pc' = "off" /\ todo' = {} /\ active' = {} /\ user' = Nobody /\ seen' = 0
  /\ mem' = NoState
  /\ mqtt' = "idle"
  /\ buf' = [w \in Writer |-> Closed]
  /\ session' \in {session, [u \in User |-> "none"]}
  /\ UNCHANGED <<day, file, tickDay, messages, charged, blind>>

-----------------------------------------------------------------------------
(* One tick of the main loop. *)

\* get_active_users returns every user who has a session: the field it tests is
\* the session's object path, so a locked session counts.
WithSession == {u \in User : session[u] # "none"}

StartTick(found) ==
  /\ pc = "sleep"
  /\ active' = found
  /\ tickDay' = day
  /\ todo' = User
  /\ pc' = "tick"
  /\ UNCHANGED <<day, session, file, mem, user, seen, mqtt, buf, hist>>

Poll == StartTick(WithSession)

\* An error of logind or the bus is logged and nobody counts as active.
PollFails == StartTick({})

\* Mutant: only a user at the machine gets the new day's time.
RefreshedIfActive(r, u) ==
  IF r = Absent \/ (u \in active /\ r.reset # tickDay)
  THEN [left |-> Limit[u], reset |-> tickDay] ELSE r

\* A user without an entry gets one; an entry of another day is reset.
Refreshed(r, u) ==
  IF r = Absent \/ r.reset # tickDay THEN [left |-> Limit[u], reset |-> tickDay] ELSE r

VisitUser(u) ==
  /\ pc = "tick"
  /\ u \in todo
  /\ todo' = todo \ {u}
  /\ mem' = [mem EXCEPT ![u] = Refreshed(mem[u], u)]
  /\ \/ /\ u \in active
        /\ user' = u
        /\ seen' = mem'[u].left
        /\ pc' = "charge"
     \/ /\ u \notin active
        /\ UNCHANGED <<user, seen, pc>>
  /\ UNCHANGED <<day, session, file, active, tickDay, mqtt, buf, hist>>

\* Mutant: the test for remaining time is gone.
ChargedAlways(r, n) == [r EXCEPT !.left = n - 1]

\* The remaining time is written from what was read.
Charged(r, n) == IF n > 0 THEN [r EXCEPT !.left = n - 1] ELSE r

Charge ==
  /\ pc = "charge"
  /\ mem' = [mem EXCEPT ![user] = Charged(@, seen)]
  /\ charged' = [charged EXCEPT ![user] = IF seen > 0 /\ tickDay = day THEN @ + 1 ELSE @]
  /\ pc' = "check"
  /\ UNCHANGED <<day, session, file, active, tickDay, todo, user, seen, mqtt, buf,
                 messages, crashes, blind>>

\* Mutant: the lock waits for a negative time.
UsedUpBelowZero(r) == r.left < 0

UsedUp(r) == r.left <= 0

Check ==
  /\ pc = "check"
  /\ pc' = IF UsedUp(mem[user]) THEN "lock" ELSE "tick"
  /\ UNCHANGED <<day, session, file, mem, active, tickDay, todo, user, seen, mqtt,
                 buf, hist>>

\* lock_user_sessions runs "loginctl lock-sessions", which names no user: every
\* session of the machine is locked.
Lock ==
  /\ pc = "lock"
  /\ session' = [u \in User |-> IF session[u] = "open" THEN "locked" ELSE session[u]]
  /\ pc' = "tick"
  /\ UNCHANGED <<day, file, mem, active, tickDay, todo, user, seen, mqtt, buf, hist>>

\* A failing loginctl is not noticed.
LockFails ==
  /\ pc = "lock"
  /\ pc' = "tick"
  /\ UNCHANGED <<day, session, file, mem, active, tickDay, todo, user, seen, mqtt,
                 buf, hist>>

-----------------------------------------------------------------------------
(* save_json: open truncates, the text is written when the file is closed. *)

Open(w) ==
  /\ file' = Empty
  /\ buf' = [buf EXCEPT ![w] = mem]

\* Text that lands in an emptied file is whole; over another text it replaces it,
\* or, shorter, leaves the other's tail behind.
Flush(w) ==
  /\ file' \in IF file \in {Empty, buf[w]} THEN {buf[w]} ELSE {buf[w], Torn}
  /\ buf' = [buf EXCEPT ![w] = Closed]

\* Mutant: nothing to save when nobody was active.
SaveIfActive ==
  /\ pc = "tick" /\ todo = {}
  /\ \/ active # {} /\ Open("main") /\ pc' = "flush"
     \/ active = {} /\ pc' = "sleep" /\ UNCHANGED <<file, buf>>
  /\ UNCHANGED <<day, session, mem, active, tickDay, todo, user, seen, mqtt, hist>>

Save ==
  /\ pc = "tick" /\ todo = {}
  /\ Open("main")
  /\ pc' = "flush"
  /\ UNCHANGED <<day, session, mem, active, tickDay, todo, user, seen, mqtt, hist>>

FlushSave ==
  /\ pc = "flush"
  /\ Flush("main")
  /\ pc' = "sleep"
  /\ UNCHANGED <<day, session, mem, active, tickDay, todo, user, seen, mqtt, hist>>

-----------------------------------------------------------------------------
(* on_mqtt_message, in the thread of the MQTT client. *)

\* Only a user with an entry is touched; the value is stored as it comes.
Message(u, n) ==
  /\ up
  /\ mqtt = "idle"
  /\ messages < MaxMessages
  /\ mem[u] # Absent
  /\ mem' = [mem EXCEPT ![u].left = n]
  /\ mqtt' = "open"
  /\ messages' = messages + 1
  /\ UNCHANGED <<day, session, file, loop, buf, crashes, charged, blind>>

MessageSave ==
  /\ mqtt = "open"
  /\ Open("mqtt")
  /\ mqtt' = "flush"
  /\ UNCHANGED <<day, session, mem, loop, hist>>

MessageFlush ==
  /\ mqtt = "flush"
  /\ Flush("mqtt")
  /\ mqtt' = "idle"
  /\ UNCHANGED <<day, session, mem, loop, hist>>

-----------------------------------------------------------------------------
Midnight ==
  /\ day < LastDay
  /\ day' = day + 1
  /\ crashes' = 0
  /\ charged' = [u \in User |-> 0]
  /\ blind' = FALSE
  /\ UNCHANGED <<session, file, mem, loop, mqtt, buf, messages>>

Init ==
  /\ day = 0 /\ tickDay = 0
  /\ session = [u \in User |-> "none"]
  /\ file \in {NoState, Empty}     \* not there yet, or truncated by an earlier crash
  /\ mem = NoState
  /\ pc = "off" /\ active = {} /\ todo = {} /\ user = Nobody /\ seen = 0
  /\ mqtt = "idle"
  /\ buf = [w \in Writer |-> Closed]
  /\ messages = 0 /\ crashes = 0
  /\ charged = [u \in User |-> 0]
  /\ blind = FALSE

Next ==
  \/ Start
  \/ Crash
  \/ Midnight
  \/ \E u \in User : Login(u) \/ Logout(u)
  \/ Poll
  \/ PollFails
  \/ \E u \in User : VisitUser(u)
  \/ Charge
  \/ Check
  \/ Lock
  \/ LockFails
  \/ Save
  \/ FlushSave
  \/ \E u \in User, n \in Grant : Message(u, n)
  \/ MessageSave
  \/ MessageFlush

\* Both threads keep running; logind and loginctl, asked again and again, do not
\* fail for ever.  No user, message or crash is obliged to come.
Fairness ==
  /\ WF_vars((\E u \in User : VisitUser(u)) \/ Charge \/ Check \/ Save \/ FlushSave)
  /\ WF_vars(MessageSave \/ MessageFlush)
  /\ SF_vars(Poll)
  /\ SF_vars(Lock)

Spec == Init /\ [][Next]_vars /\ Fairness

-----------------------------------------------------------------------------
(* Properties. *)

\* Between two ticks, while no message interferes, the login check decides as
\* the daemon would: what the loop charged is what PAM reads, after restarts and
\* torn files too.
PamAgrees ==
  pc = "sleep" /\ messages = 0 =>
    \A u \in User : mem[u] # Absent => (PamDenies(u) <=> mem[u].left = 0)

\* Restarts do not hand out the allowance again: without messages, and with a
\* state file to read at every start of the day, a user is charged for no more
\* than the limit and the one unsaved tick each crash of the day may lose.
BudgetHolds ==
  messages = 0 /\ ~blind => \A u \in User : charged[u] <= Limit[u] + crashes

\* The daemon knows u has used up today's time.
UsedUpToday(u) == mem[u] = [left |-> 0, reset |-> day]

\* A used-up user does not stay at an unlocked session while the daemon lives,
\* whatever logind, loginctl and the clock do in between.
LimitEnforced ==
  \A u \in User :
    up /\ session[u] = "open" /\ UsedUpToday(u)
      ~> session[u] # "open" \/ ~up \/ ~UsedUpToday(u)

\* A state file that cannot be read does not stay so while the daemon lives.
FileHealed == up /\ ~Readable(file) ~> ~up \/ Readable(file)

\* The login check refuses u for the use of an earlier day.
DeniedForEarlierDay(u) == PamDenies(u) /\ file[u].reset # day

\* A denial does not outlive its day for good: while the daemon runs on, a user
\* locked out by an entry of an earlier day is judged anew, although one who cannot
\* log in cannot become active.  (The moment in which a save leaves the file empty,
\* and everybody is admitted, does not count.)
DenialIsOfToday == \A u \in User : <>[]up => <>[]~DeniedForEarlierDay(u)

-----------------------------------------------------------------------------
(* What the documentation says and the code does not do. *)

\* docs/device_management.md: the lock payload blocks the user; the local count
\* would not raise a remaining time of zero within the day it belongs to.
RemoteLockHolds ==
  [][\A u \in User :
       /\ up /\ up' /\ messages' = messages /\ day' = day
       /\ UsedUpToday(u)
       => UsedUpToday(u)']_vars

\* The same place has PAM logins blocked once the limit is reached: without a
\* message, a user it denies today would stay denied today.
DenialHolds ==
  [][\A u \in User :
       /\ messages' = messages /\ day' = day
       /\ PamDenies(u) /\ file[u].reset = day
       => PamDenies(u)']_vars
=============================================================================
