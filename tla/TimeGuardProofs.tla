--------------------------- MODULE TimeGuardProofs ---------------------------
(***************************************************************************)
(* What holds of TimeGuard for any users, limits, messages and days, and   *)
(* for every interleaving of the loop, the MQTT thread, logins and crashes.*)
(***************************************************************************)
EXTENDS TimeGuard, TLAPS

-----------------------------------------------------------------------------
(* Type correctness. *)

LEMMA RefreshedType ==
  ASSUME TypeOK, NEW u \in User
  PROVE  Refreshed(mem[u], u) \in Record
  BY LimitAssumption DEF Refreshed, TypeOK, State, Record

LEMMA ChargedType ==
  ASSUME NEW r \in Record, NEW n \in Nat
  PROVE  Charged(r, n) \in Record
  BY DEF Charged, Record

\* A state with one entry replaced is a state.
LEMMA StateWith ==
  ASSUME NEW s \in State, NEW u \in User, NEW r \in Record
  PROVE  /\ [s EXCEPT ![u] = r] \in State
         /\ [s EXCEPT ![u] = r][u] = r
  BY DEF State

\* What a thread writes is what it has serialised, or torn.
LEMMA FlushType ==
  ASSUME TypeOK, NEW w \in Writer, buf[w] # Closed, Flush(w)
  PROVE  file' \in State \cup {Empty, Torn} /\ buf' \in [Writer -> State \cup {Closed}]
  BY DEF TypeOK, Flush

LEMMA OpenType ==
  ASSUME TypeOK, NEW w \in Writer, Open(w)
  PROVE  /\ file' \in State \cup {Empty, Torn}
         /\ buf' \in [Writer -> State \cup {Closed}]
         /\ buf'[w] # Closed
         /\ \A v \in Writer : v # w => buf'[v] = buf[v]
  BY MarkAssumption DEF TypeOK, Open

LEMMA InitTypes == Init => TypeOK
<1> SUFFICES ASSUME Init PROVE TypeOK
  OBVIOUS
<1>1. NoState \in State
  BY DEF NoState, State
<1>2. 0 \in 0 .. LastDay /\ 0 \in 0 .. MaxMessages /\ 0 \in 0 .. MaxCrashes
  BY BoundAssumption
<1>3. QED
  BY <1>1, <1>2 DEF Init, TypeOK

LEMMA StepTypes == TypeOK /\ [Next]_vars => TypeOK'
<1> SUFFICES ASSUME TypeOK, [Next]_vars PROVE TypeOK'
  OBVIOUS
<1> USE DEF loop, hist
<1>0. NoState \in State
  BY DEF NoState, State
<1>1. ASSUME Start PROVE TypeOK'
  <2>1. mem' \in State
    BY <1>0, <1>1 DEF Start, Loaded, Readable, TypeOK
  <2>2. QED
    BY <1>1, <2>1 DEF Start, TypeOK
<1>2. ASSUME Crash PROVE TypeOK'
  <2>1. session' \in [User -> {"none", "open", "locked"}]
    BY <1>2 DEF Crash, TypeOK
  <2>2. buf' \in [Writer -> State \cup {Closed}]
    BY <1>2 DEF Crash
  <2>3. crashes' \in 0 .. MaxCrashes
    BY <1>2, BoundAssumption DEF Crash, TypeOK
  <2>4. QED
    BY <1>0, <1>2, <2>1, <2>2, <2>3 DEF Crash, TypeOK
<1>3. ASSUME Midnight PROVE TypeOK'
  <2>1. day' \in 0 .. LastDay /\ crashes' \in 0 .. MaxCrashes
    BY <1>3, BoundAssumption DEF Midnight, TypeOK
  <2>2. charged' \in [User -> Nat]
    BY <1>3 DEF Midnight
  <2>3. QED
    BY <1>3, <2>1, <2>2 DEF Midnight, TypeOK
<1>4. ASSUME NEW u \in User, Login(u) \/ Logout(u) PROVE TypeOK'
  BY <1>4 DEF Login, Logout, TypeOK
<1>5. ASSUME Poll \/ PollFails PROVE TypeOK'
  BY <1>5 DEF Poll, PollFails, StartTick, WithSession, TypeOK
<1>6. ASSUME NEW u \in User, VisitUser(u) PROVE TypeOK'
  <2>1. /\ mem' \in State
        /\ mem'[u] \in Record
        /\ \A v \in User : v # u => mem'[v] = mem[v]
    <3>1. mem \in State /\ mem' = [mem EXCEPT ![u] = Refreshed(mem[u], u)]
      BY <1>6 DEF VisitUser, TypeOK
    <3>2. Refreshed(mem[u], u) \in Record
      BY RefreshedType
    <3>3. mem' \in State /\ mem'[u] \in Record
      BY <3>1, <3>2, StateWith
    <3>4. \A v \in User : v # u => mem'[v] = mem[v]
      BY <3>1 DEF State
    <3>5. QED
      BY <3>3, <3>4
  <2>2. mem'[u].left \in Nat /\ mem'[u] # Absent
    BY <2>1, MarkAssumption DEF Record
  <2>3. QED
    BY <1>6, <2>1, <2>2 DEF VisitUser, TypeOK
<1>7. ASSUME Charge PROVE TypeOK'
  <2>1. user \in User /\ mem[user] \in Record
    BY <1>7 DEF Charge, TypeOK, State
  <2>2. mem' \in State /\ mem'[user] # Absent
    <3>1. mem \in State /\ mem' = [mem EXCEPT ![user] = Charged(mem[user], seen)]
      BY <1>7 DEF Charge, TypeOK
    <3>2. Charged(mem[user], seen) \in Record
      BY <2>1, ChargedType DEF TypeOK
    <3>3. QED
      BY <2>1, <3>1, <3>2, StateWith, MarkAssumption
  <2>3. charged' \in [User -> Nat]
    BY <1>7, <2>1 DEF Charge, TypeOK
  <2>4. QED
    BY <1>7, <2>1, <2>2, <2>3 DEF Charge, TypeOK
<1>8. ASSUME Check PROVE TypeOK'
  BY <1>8 DEF Check, TypeOK
<1>9. ASSUME Lock \/ LockFails PROVE TypeOK'
  BY <1>9 DEF Lock, LockFails, TypeOK
<1>10. ASSUME Save PROVE TypeOK'
  BY <1>10, OpenType DEF Save, Writer, TypeOK
<1>11. ASSUME FlushSave PROVE TypeOK'
  <2>1. buf["main"] # Closed /\ "main" \in Writer /\ "mqtt" \in Writer
    BY <1>11 DEF FlushSave, TypeOK, Writer
  <2>2. file' \in State \cup {Empty, Torn} /\ buf' \in [Writer -> State \cup {Closed}]
    BY <1>11, <2>1, FlushType DEF FlushSave
  <2>3. buf'["mqtt"] = buf["mqtt"]
    BY <1>11, <2>1 DEF FlushSave, Flush, TypeOK
  <2>4. QED
    BY <1>11, <2>2, <2>3 DEF FlushSave, TypeOK
<1>12. ASSUME NEW u \in User, NEW n \in Grant, Message(u, n) PROVE TypeOK'
  <2>1. mem[u] \in Record /\ n \in Nat
    BY <1>12, LimitAssumption DEF Message, TypeOK, State
  <2>2. [mem[u] EXCEPT !.left = n] \in Record
    BY <2>1 DEF Record
  <2>3. /\ mem' \in State /\ mem'[u] # Absent
        /\ \A v \in User : v # u => mem'[v] = mem[v]
    <3> DEFINE r == [mem[u] EXCEPT !.left = n]
    <3>1. r \in Record /\ mem \in State /\ mem' = [mem EXCEPT ![u] = r]
      BY <1>12, <2>2 DEF Message, TypeOK
    <3> HIDE DEF r
    <3>2. mem' \in State /\ mem'[u] # Absent
      BY <3>1, StateWith, MarkAssumption
    <3>3. \A v \in User : v # u => mem'[v] = mem[v]
      BY <3>1 DEF State
    <3>4. QED
      BY <3>2, <3>3
  <2>4. messages' \in 0 .. MaxMessages
    BY <1>12, BoundAssumption DEF Message, TypeOK
  <2>5. QED
    BY <1>12, <2>3, <2>4 DEF Message, TypeOK
<1>13. ASSUME MessageSave PROVE TypeOK'
  BY <1>13, OpenType DEF MessageSave, Writer, TypeOK
<1>14. ASSUME MessageFlush PROVE TypeOK'
  <2>1. buf["mqtt"] # Closed /\ "main" \in Writer /\ "mqtt" \in Writer
    BY <1>14 DEF MessageFlush, TypeOK, Writer
  <2>2. file' \in State \cup {Empty, Torn} /\ buf' \in [Writer -> State \cup {Closed}]
    BY <1>14, <2>1, FlushType DEF MessageFlush
  <2>3. buf'["main"] = buf["main"]
    BY <1>14, <2>1 DEF MessageFlush, Flush, TypeOK
  <2>4. QED
    BY <1>14, <2>2, <2>3 DEF MessageFlush, TypeOK
<1>15. CASE UNCHANGED vars
  BY <1>15 DEF vars, TypeOK
<1>16. QED
  BY <1>1, <1>2, <1>3, <1>4, <1>5, <1>6, <1>7, <1>8, <1>9, <1>10, <1>11, <1>12, <1>13,
     <1>14, <1>15 DEF Next

\* A user the loop is at has an entry, a thread that is about to write has
\* something to write, and what is saved is a state.
THEOREM TypeCorrect == Spec => []TypeOK
  BY InitTypes, StepTypes, PTL DEF Spec

-----------------------------------------------------------------------------
(* The file and the memory. *)

\* Without messages the loop is the only writer: between two ticks the file says
\* what the memory says, unless there is nothing in memory.
SoleWriter ==
  /\ mqtt = "idle"
  /\ pc = "flush" => file = Empty /\ buf["main"] = mem
  /\ pc = "sleep" => mem = NoState \/ file = mem

Quiet == messages = 0 => SoleWriter

LEMMA InitQuiet == Init => Quiet
  BY DEF Init, Quiet, SoleWriter

\* A message ends the quiet for good.
LEMMA StepQuiet == TypeOK /\ Quiet /\ [Next]_vars => Quiet'
<1> SUFFICES ASSUME TypeOK, Quiet, [Next]_vars, messages' = 0 PROVE SoleWriter'
  BY DEF Quiet
<1> USE DEF loop, hist
<1>1. ASSUME NEW u \in User, NEW n \in Grant, Message(u, n) PROVE FALSE
  BY <1>1 DEF Message, TypeOK
<1>2. ASSUME messages' = messages PROVE SoleWriter
  BY <1>2 DEF Quiet
<1>3. ASSUME Start PROVE SoleWriter'
  BY <1>2, <1>3 DEF Start, Loaded, SoleWriter
<1>4. ASSUME Crash PROVE SoleWriter'
  BY <1>4 DEF Crash, SoleWriter
<1>5. ASSUME Midnight PROVE SoleWriter'
  BY <1>2, <1>5 DEF Midnight, SoleWriter
<1>6. ASSUME NEW u \in User, Login(u) \/ Logout(u) PROVE SoleWriter'
  BY <1>2, <1>6 DEF Login, Logout, SoleWriter
<1>7. ASSUME Poll \/ PollFails PROVE SoleWriter'
  BY <1>2, <1>7 DEF Poll, PollFails, StartTick, SoleWriter
<1>8. ASSUME NEW u \in User, VisitUser(u) PROVE SoleWriter'
  BY <1>2, <1>8 DEF VisitUser, SoleWriter
<1>9. ASSUME Charge \/ Check \/ Lock \/ LockFails PROVE SoleWriter'
  BY <1>2, <1>9 DEF Charge, Check, Lock, LockFails, SoleWriter
<1>10. ASSUME Save PROVE SoleWriter'
  BY <1>2, <1>10 DEF Save, Open, SoleWriter, TypeOK, Writer
<1>11. ASSUME FlushSave PROVE SoleWriter'
  BY <1>2, <1>11 DEF FlushSave, Flush, SoleWriter
<1>12. ASSUME MessageSave \/ MessageFlush PROVE SoleWriter'
  BY <1>2, <1>12 DEF MessageSave, MessageFlush, SoleWriter
<1>13. CASE UNCHANGED vars
  BY <1>2, <1>13 DEF vars, SoleWriter
<1>14. QED
  BY <1>1, <1>3, <1>4, <1>5, <1>6, <1>7, <1>8, <1>9, <1>10, <1>11, <1>12, <1>13 DEF Next

\* A file that holds a state can be read.
LEMMA StateReadable == ASSUME NEW s \in State PROVE Readable(s)
  BY MarkAssumption DEF Readable

LEMMA QuietAgrees == TypeOK /\ Quiet => PamAgrees
<1> SUFFICES ASSUME TypeOK, Quiet, pc = "sleep", messages = 0, NEW u \in User, mem[u] # Absent
             PROVE  PamDenies(u) <=> mem[u].left = 0
  BY DEF PamAgrees
<1>1. mem # NoState
  BY DEF NoState
<1>2. file = mem
  BY <1>1 DEF Quiet, SoleWriter
<1>3. Readable(file) /\ mem[u].left \in Nat
  BY <1>2, StateReadable DEF TypeOK, State, Record
<1>4. QED
  BY <1>2, <1>3 DEF PamDenies

\* Between two ticks the login check decides as the daemon would: what the loop
\* charged is what PAM reads, after restarts and torn files too.
THEOREM PamFollows == Spec => []PamAgrees
  BY InitTypes, StepTypes, InitQuiet, StepQuiet, QuietAgrees, PTL DEF Spec

-----------------------------------------------------------------------------
(* The day of the entries. *)

\* No entry is of a day to come; in a tick none is of a day after the tick's, and
\* what the loop is about to charge is what it has read.
InDate ==
  /\ tickDay <= day
  /\ \A u \in User : mem[u] # Absent => mem[u].reset <= day
  /\ Readable(file) => \A u \in User : file[u] # Absent => file[u].reset <= day
  /\ pc \notin {"off", "sleep"} =>
       \A u \in User : mem[u] # Absent => mem[u].reset <= tickDay
  /\ pc = "charge" =>
       user \notin todo /\ mem[user].left = seen /\ mem[user].reset = tickDay

Dated == messages = 0 => InDate

LEMMA InitDated == Init => Dated
<1> SUFFICES ASSUME Init PROVE InDate
  BY DEF Dated
<1>1. \A u \in User : NoState[u] = Absent
  BY DEF NoState
<1>2. QED
  BY <1>1 DEF Init, InDate, Readable

LEMMA StepDated == TypeOK /\ Quiet /\ Dated /\ [Next]_vars => Dated'
<1> SUFFICES ASSUME TypeOK, Quiet, Dated, [Next]_vars, messages' = 0 PROVE InDate'
  BY DEF Dated
<1> USE DEF loop, hist
<1>1. ASSUME NEW u \in User, NEW n \in Grant, Message(u, n) PROVE FALSE
  BY <1>1 DEF Message, TypeOK
<1>2. ASSUME messages' = messages PROVE SoleWriter /\ InDate
  BY <1>2 DEF Quiet, Dated
<1>3. \A u \in User : NoState[u] = Absent
  BY DEF NoState
<1>4. day \in Nat /\ tickDay \in Nat
  BY BoundAssumption DEF TypeOK
<1>5. ASSUME Start PROVE InDate'
  BY <1>2, <1>3, <1>5 DEF Start, Loaded, InDate
<1>6. ASSUME Crash PROVE InDate'
  BY <1>2, <1>3, <1>6 DEF Crash, InDate
<1>7. ASSUME Midnight PROVE InDate'
  <2>1. day' = day + 1
        /\ UNCHANGED <<tickDay, mem, file, pc, user, todo, seen, messages>>
    BY <1>7 DEF Midnight
  <2>2. \A u \in User : mem[u] # Absent => mem[u].reset \in Nat
    BY BoundAssumption DEF TypeOK, State, Record
  <2>3. Readable(file) => \A u \in User : file[u] # Absent => file[u].reset \in Nat
    BY BoundAssumption DEF TypeOK, State, Record, Readable
  <2>4. QED
    BY <1>2, <1>4, <2>1, <2>2, <2>3 DEF InDate
<1>8. ASSUME NEW u \in User, Login(u) \/ Logout(u) PROVE InDate'
  BY <1>2, <1>8 DEF Login, Logout, InDate
<1>9. ASSUME Poll \/ PollFails PROVE InDate'
  BY <1>2, <1>4, <1>9 DEF Poll, PollFails, StartTick, InDate
<1>10. ASSUME NEW u \in User, VisitUser(u) PROVE InDate'
  <2>1. /\ mem'[u] = Refreshed(mem[u], u)
        /\ \A v \in User : v # u => mem'[v] = mem[v]
        /\ UNCHANGED <<day, tickDay, file>> /\ todo' = todo \ {u}
        /\ pc = "tick" /\ messages' = messages
    BY <1>10 DEF VisitUser, TypeOK, State
  <2>2. mem'[u].reset = tickDay
    BY <2>1 DEF Refreshed
  <2>3. \A v \in User : mem'[v] # Absent => mem'[v].reset <= tickDay
    BY <1>2, <1>4, <2>1, <2>2 DEF InDate
  <2>4. \A v \in User : mem'[v] # Absent => mem'[v].reset <= day
    BY <1>2, <1>4, <2>1, <2>2 DEF InDate
  <2>5. pc' = "charge" => user' = u /\ seen' = mem'[u].left
    BY <1>10 DEF VisitUser
  <2>6. QED
    BY <1>2, <2>1, <2>2, <2>3, <2>4, <2>5 DEF InDate
<1>11. ASSUME Charge PROVE InDate'
  <2>1. /\ user \in User /\ mem[user] \in Record
        /\ mem' = [mem EXCEPT ![user] = Charged(mem[user], seen)]
        /\ UNCHANGED <<day, tickDay, file, messages>> /\ pc = "charge" /\ pc' = "check"
    BY <1>11 DEF Charge, TypeOK, State
  <2>2. Charged(mem[user], seen).reset = mem[user].reset
    BY <2>1 DEF Charged, Record
  <2>3. mem'[user].reset = mem[user].reset
    BY <2>1, <2>2 DEF TypeOK, State
  <2>4. \A v \in User : v # user => mem'[v] = mem[v]
    BY <2>1 DEF TypeOK, State
  <2>5. mem[user] # Absent
    BY <2>1, MarkAssumption
  <2>6. QED
    BY <1>2, <2>1, <2>3, <2>4, <2>5 DEF InDate
<1>12. ASSUME Check \/ Lock \/ LockFails PROVE InDate'
  BY <1>2, <1>12 DEF Check, Lock, LockFails, InDate
<1>13. ASSUME Save PROVE InDate'
  BY <1>2, <1>13 DEF Save, Open, InDate, Readable
<1>14. ASSUME FlushSave PROVE InDate'
  BY <1>2, <1>14 DEF FlushSave, Flush, InDate, SoleWriter
<1>15. ASSUME MessageSave \/ MessageFlush PROVE InDate'
  BY <1>2, <1>15 DEF MessageSave, MessageFlush, SoleWriter
<1>16. CASE UNCHANGED vars
  BY <1>2, <1>16 DEF vars, InDate
<1>17. QED
  BY <1>1, <1>5, <1>6, <1>7, <1>8, <1>9, <1>10, <1>11, <1>12, <1>13, <1>14, <1>15,
     <1>16 DEF Next

-----------------------------------------------------------------------------
(* The budget of a day. *)

\* What is left of today's allowance by an entry: an entry of another day, or none,
\* is about to become a full one.
LeftToday(r, u) == IF r = Absent \/ r.reset # day THEN Limit[u] ELSE r.left

\* The loop has been at u in this tick and has not saved since: what it charged, at
\* most one tick, is not in the file.
Unsaved(u) == up /\ pc # "sleep" /\ u \notin todo /\ ~(pc = "charge" /\ user = u)

\* What u was charged and what is left make no more than the limit and what crashes
\* lost: by the memory, and by the file together with the tick that is not in it.
Accounted(u) ==
  /\ charged[u] <= Limit[u] + crashes
  /\ up => charged[u] + LeftToday(mem[u], u) <= Limit[u] + crashes
  /\ Readable(file) =>
       charged[u] + LeftToday(file[u], u) <= Limit[u] + crashes + (IF Unsaved(u) THEN 1 ELSE 0)

Counted == messages = 0 /\ ~blind => \A u \in User : Accounted(u)

IInv == TypeOK /\ Quiet /\ Dated /\ Counted

LEMMA LeftTodayType ==
  ASSUME TypeOK, NEW u \in User, NEW r \in Record \cup {Absent}
  PROVE  LeftToday(r, u) \in Nat
  BY LimitAssumption DEF LeftToday, Record

\* The numbers of the count.
LEMMA CountTypes ==
  ASSUME TypeOK, NEW u \in User
  PROVE  /\ charged[u] \in Nat /\ crashes \in Nat /\ Limit[u] \in Nat
         /\ mem[u] \in Record \cup {Absent} /\ LeftToday(mem[u], u) \in Nat
         /\ Readable(file) =>
              file[u] \in Record \cup {Absent} /\ LeftToday(file[u], u) \in Nat
<1>1. charged[u] \in Nat /\ crashes \in Nat /\ Limit[u] \in Nat
  BY LimitAssumption, BoundAssumption DEF TypeOK
<1>2. mem[u] \in Record \cup {Absent}
  BY DEF TypeOK, State
<1>3. Readable(file) => file[u] \in Record \cup {Absent}
  BY DEF TypeOK, State, Readable
<1>4. QED
  BY <1>1, <1>2, <1>3, LeftTodayType

LEMMA InitCounted == Init => Counted
<1> SUFFICES ASSUME Init, NEW u \in User PROVE Accounted(u)
  BY DEF Counted
<1>1. Limit[u] \in Nat /\ NoState[u] = Absent
  BY LimitAssumption DEF NoState
<1>2. charged[u] = 0 /\ crashes = 0 /\ ~up /\ (Readable(file) => file[u] = Absent)
  BY <1>1 DEF Init, up, Readable
<1>3. QED
  BY <1>1, <1>2 DEF Accounted, LeftToday

\* A step that changes neither a count nor an entry, and does not make u "saved",
\* keeps the account.
LEMMA SameAccount ==
  ASSUME TypeOK, NEW u \in User, Accounted(u),
         UNCHANGED <<day, file, mem, charged, crashes>>, up' = up, Unsaved(u) => Unsaved(u)'
  PROVE  Accounted(u)'
<1>1. /\ charged'[u] = charged[u] /\ crashes' = crashes
      /\ LeftToday(mem[u], u)' = LeftToday(mem[u], u)
      /\ LeftToday(file[u], u)' = LeftToday(file[u], u)
      /\ Readable(file)' = Readable(file)
  BY DEF LeftToday, Readable
<1>2. QED
  BY <1>1, CountTypes DEF Accounted

\* A new day: no entry is of it, so all is left.
LEMMA MidnightCounts ==
  ASSUME TypeOK, InDate, Midnight, NEW u \in User
  PROVE  Accounted(u)'
<1>1. /\ day' = day + 1 /\ crashes' = 0 /\ charged'[u] = 0 /\ UNCHANGED <<mem, file>>
      /\ day \in Nat
  BY BoundAssumption DEF Midnight, TypeOK
<1>2. mem[u] # Absent => mem[u].reset # day'
  <2>1. mem[u] # Absent => mem[u].reset \in Nat /\ mem[u].reset <= day
    BY BoundAssumption DEF TypeOK, State, Record, InDate
  <2>2. QED
    BY <1>1, <2>1
<1>3. Readable(file) /\ file[u] # Absent => file[u].reset # day'
  <2>1. Readable(file) /\ file[u] # Absent => file[u].reset \in Nat /\ file[u].reset <= day
    BY BoundAssumption DEF TypeOK, State, Record, InDate, Readable
  <2>2. QED
    BY <1>1, <2>1
<1>4. LeftToday(mem[u], u)' = Limit[u]
  BY <1>1, <1>2 DEF LeftToday
<1>5. Readable(file)' => LeftToday(file[u], u)' = Limit[u]
  BY <1>1, <1>3 DEF LeftToday, Readable
<1>6. Limit[u] \in Nat
  BY LimitAssumption
<1>7. QED
  BY <1>1, <1>4, <1>5, <1>6 DEF Accounted

\* The entry the loop brings up to date leaves no more than the one before it.
LEMMA RefreshedLeft ==
  ASSUME TypeOK, InDate, pc = "tick", NEW u \in User
  PROVE  LeftToday(Refreshed(mem[u], u), u) = LeftToday(mem[u], u)
<1>1. Refreshed(mem[u], u) # Absent
  BY RefreshedType, MarkAssumption
<1>2. CASE mem[u] # Absent /\ mem[u].reset = tickDay
  BY <1>2 DEF Refreshed
<1>3. CASE mem[u] = Absent \/ mem[u].reset # tickDay
  <2>1. Refreshed(mem[u], u) = [left |-> Limit[u], reset |-> tickDay]
    BY <1>3 DEF Refreshed
  <2>2. LeftToday(Refreshed(mem[u], u), u) = Limit[u]
    BY <1>1, <2>1 DEF LeftToday
  <2>3. mem[u] = Absent \/ mem[u].reset # day
    <3>1. mem[u] # Absent => mem[u].reset \in Nat /\ mem[u].reset <= tickDay
      BY BoundAssumption DEF TypeOK, State, Record, InDate
    <3>2. tickDay <= day /\ tickDay \in Nat /\ day \in Nat
      BY BoundAssumption DEF InDate, TypeOK
    <3>3. QED
      BY <1>3, <3>1, <3>2
  <2>4. QED
    BY <2>2, <2>3 DEF LeftToday
<1>4. QED
  BY <1>2, <1>3

LEMMA VisitCounts ==
  ASSUME TypeOK, InDate, NEW v \in User, VisitUser(v), NEW u \in User, Accounted(u)
  PROVE  Accounted(u)'
<1> USE DEF loop, hist
<1>1. /\ pc = "tick" /\ pc' \in {"tick", "charge"} /\ todo' = todo \ {v}
      /\ mem' = [mem EXCEPT ![v] = Refreshed(mem[v], v)]
      /\ pc' = "charge" => user' = v
      /\ UNCHANGED <<day, file, charged, crashes>>
  BY DEF VisitUser
<1>2. LeftToday(mem[u], u)' = LeftToday(mem[u], u)
  <2>1. CASE u = v
    BY <1>1, <2>1, RefreshedLeft DEF TypeOK, State, LeftToday
  <2>2. CASE u # v
    BY <1>1, <2>2 DEF TypeOK, State, LeftToday
  <2>3. QED
    BY <2>1, <2>2
<1>3. LeftToday(file[u], u)' = LeftToday(file[u], u) /\ Readable(file)' = Readable(file)
  BY <1>1 DEF LeftToday, Readable
<1>4. up /\ up' /\ (Unsaved(u) => Unsaved(u)')
  <2>1. up /\ up'
    BY <1>1 DEF up
  <2>2. u \in todo => ~Unsaved(u)
    BY DEF Unsaved
  <2>3. v \in todo
    BY DEF VisitUser
  <2>4. QED
    BY <1>1, <2>1, <2>2, <2>3 DEF Unsaved
<1>5. QED
  BY <1>1, <1>2, <1>3, <1>4, CountTypes DEF Accounted

\* A charge moves one tick from what is left to what is used, and leaves the file
\* one tick behind.
LEMMA ChargeCounts ==
  ASSUME TypeOK, InDate, Charge, NEW u \in User, Accounted(u)
  PROVE  Accounted(u)'
<1> USE DEF loop, hist
<1>1. /\ pc = "charge" /\ pc' = "check" /\ user \in User /\ mem[user] \in Record
      /\ mem[user] # Absent
      /\ mem' = [mem EXCEPT ![user] = Charged(mem[user], seen)]
      /\ charged' = [charged EXCEPT ![user] =
                       IF seen > 0 /\ tickDay = day THEN charged[user] + 1 ELSE charged[user]]
      /\ seen \in Nat
      /\ user \notin todo /\ mem[user].left = seen /\ mem[user].reset = tickDay
      /\ UNCHANGED <<day, file, crashes, todo, user>>
  BY DEF Charge, TypeOK, State, InDate
<1>2. up /\ up' /\ (Unsaved(u) => Unsaved(u)')
  BY <1>1 DEF up, Unsaved
<1>3. LeftToday(file[u], u)' = LeftToday(file[u], u) /\ Readable(file)' = Readable(file)
  BY <1>1 DEF LeftToday, Readable
<1>4. CASE u # user
  <2>1. charged'[u] = charged[u] /\ mem'[u] = mem[u]
    BY <1>1, <1>4 DEF TypeOK, State
  <2>2. LeftToday(mem[u], u)' = LeftToday(mem[u], u)
    BY <1>1, <2>1 DEF LeftToday
  <2>3. QED
    BY <1>1, <1>2, <1>3, <2>1, <2>2, CountTypes DEF Accounted
<1>5. CASE u = user
  <2>1. Unsaved(u)' /\ ~Unsaved(u)
    BY <1>1, <1>5 DEF Unsaved, up
  <2>2. mem'[u] = Charged(mem[u], seen)
    BY <1>1, <1>5 DEF TypeOK, State
  <2>3. mem'[u] \in Record /\ mem'[u] # Absent /\ mem'[u].reset = tickDay
    BY <1>1, <1>5, <2>2, ChargedType, MarkAssumption DEF Charged, Record
  <2>4. CASE seen > 0 /\ tickDay = day
    <3>1. charged'[u] = charged[u] + 1
      BY <1>1, <1>5, <2>4 DEF TypeOK
    <3>2. LeftToday(mem[u], u) = seen
      BY <1>1, <1>5, <2>4 DEF LeftToday
    <3>3. mem'[u].left = seen - 1
      BY <1>1, <1>5, <2>2, <2>4 DEF Charged, Record
    <3>4. LeftToday(mem[u], u)' = seen - 1
      BY <1>1, <2>3, <2>4, <3>3 DEF LeftToday
    <3>5. QED
      BY <1>1, <1>2, <1>3, <2>1, <3>1, <3>2, <3>4, CountTypes DEF Accounted
  <2>5. CASE ~(seen > 0 /\ tickDay = day)
    <3>1. charged'[u] = charged[u]
      BY <1>1, <1>5, <2>5 DEF TypeOK
    <3>2. LeftToday(mem[u], u)' = LeftToday(mem[u], u)
      <4>1. CASE tickDay # day
        BY <1>1, <1>5, <2>3, <4>1 DEF LeftToday
      <4>2. CASE ~(seen > 0)
        BY <1>1, <1>5, <2>2, <4>2 DEF Charged, LeftToday
      <4>3. QED
        BY <2>5, <4>1, <4>2
    <3>3. QED
      BY <1>1, <1>2, <1>3, <2>1, <3>1, <3>2, CountTypes DEF Accounted
  <2>6. QED
    BY <2>4, <2>5
<1>6. QED
  BY <1>4, <1>5

\* A crash loses what is not in the file: a tick of every user at most.
LEMMA CrashCounts ==
  ASSUME TypeOK, Crash, NEW u \in User, Accounted(u)
  PROVE  Accounted(u)'
<1>1. /\ crashes' = crashes + 1 /\ ~up'
      /\ UNCHANGED <<day, file, charged>>
  BY DEF Crash, up
<1>2. ~Unsaved(u)'
  BY <1>1 DEF Unsaved
<1>3. LeftToday(file[u], u)' = LeftToday(file[u], u) /\ Readable(file)' = Readable(file)
  BY <1>1 DEF LeftToday, Readable
<1>4. QED
  BY <1>1, <1>2, <1>3, CountTypes DEF Accounted

\* A start from a file that can be read continues its account.
LEMMA StartCounts ==
  ASSUME TypeOK, Start, Readable(file), NEW u \in User, Accounted(u)
  PROVE  Accounted(u)'
<1>1. /\ mem' = file /\ ~up /\ pc' = "sleep"
      /\ UNCHANGED <<day, file, charged, crashes>>
  BY DEF Start, Loaded
<1>2. ~Unsaved(u) /\ ~Unsaved(u)'
  BY <1>1 DEF Unsaved
<1>3. /\ LeftToday(file[u], u)' = LeftToday(file[u], u) /\ Readable(file)' = Readable(file)
      /\ LeftToday(mem[u], u)' = LeftToday(file[u], u)
  BY <1>1 DEF LeftToday, Readable
<1>4. QED
  BY <1>1, <1>2, <1>3, CountTypes DEF Accounted

\* A save in progress leaves no file to read; one that is finished brings the file
\* to the memory.
LEMMA SaveCounts ==
  ASSUME TypeOK, SoleWriter, Save \/ FlushSave, NEW u \in User, Accounted(u)
  PROVE  Accounted(u)'
<1> USE DEF loop, hist
<1>1. /\ up /\ up' /\ UNCHANGED <<day, mem, charged, crashes>>
  BY DEF Save, FlushSave, up
<1>2. LeftToday(mem[u], u)' = LeftToday(mem[u], u)
  BY <1>1 DEF LeftToday
<1>3. CASE Save
  <2>1. ~Readable(file)'
    BY <1>3 DEF Save, Open, Readable
  <2>2. QED
    BY <1>1, <1>2, <2>1, CountTypes DEF Accounted
<1>4. CASE FlushSave
  <2>1. file' = mem /\ pc' = "sleep"
    BY <1>4 DEF FlushSave, Flush, SoleWriter
  <2>2. ~Unsaved(u)' /\ LeftToday(file[u], u)' = LeftToday(mem[u], u)
    BY <1>1, <2>1 DEF Unsaved, LeftToday
  <2>3. QED
    BY <1>1, <1>2, <2>2, CountTypes DEF Accounted
<1>5. QED
  BY <1>3, <1>4

LEMMA StepCounted == TypeOK /\ Quiet /\ Dated /\ Counted /\ [Next]_vars => Counted'
<1> SUFFICES ASSUME TypeOK, Quiet, Dated, Counted, [Next]_vars, messages' = 0, ~blind',
                    NEW u \in User
             PROVE  Accounted(u)'
  BY DEF Counted
<1> USE DEF loop, hist
<1>1. ASSUME NEW v \in User, NEW n \in Grant, Message(v, n) PROVE FALSE
  BY <1>1 DEF Message, TypeOK
<1>2. ASSUME messages' = messages PROVE SoleWriter /\ InDate
  BY <1>2 DEF Quiet, Dated
<1>3. ASSUME messages' = messages, blind' = blind PROVE Accounted(u)
  BY <1>3 DEF Counted
<1>4. ASSUME Start PROVE Accounted(u)'
  <2>1. Readable(file) /\ ~blind /\ messages' = messages
    BY <1>4 DEF Start, TypeOK
  <2>2. QED
    BY <1>4, <2>1, StartCounts DEF Counted
<1>5. ASSUME Crash PROVE Accounted(u)'
  BY <1>3, <1>5, CrashCounts DEF Crash
<1>6. ASSUME Midnight PROVE Accounted(u)'
  BY <1>2, <1>6, MidnightCounts DEF Midnight
<1>7. ASSUME NEW v \in User, Login(v) \/ Logout(v) PROVE Accounted(u)'
  BY <1>3, <1>7, SameAccount DEF Login, Logout, Unsaved, up
<1>8. ASSUME Poll \/ PollFails PROVE Accounted(u)'
  BY <1>3, <1>8, SameAccount DEF Poll, PollFails, StartTick, Unsaved, up
<1>9. ASSUME NEW v \in User, VisitUser(v) PROVE Accounted(u)'
  BY <1>2, <1>3, <1>9, VisitCounts DEF VisitUser
<1>10. ASSUME Charge PROVE Accounted(u)'
  BY <1>2, <1>3, <1>10, ChargeCounts DEF Charge
<1>11. ASSUME Check \/ Lock \/ LockFails PROVE Accounted(u)'
  BY <1>3, <1>11, SameAccount DEF Check, Lock, LockFails, Unsaved, up
<1>12. ASSUME Save \/ FlushSave PROVE Accounted(u)'
  BY <1>2, <1>3, <1>12, SaveCounts DEF Save, FlushSave
<1>13. ASSUME MessageSave \/ MessageFlush PROVE Accounted(u)'
  BY <1>2, <1>13 DEF MessageSave, MessageFlush, SoleWriter
<1>14. CASE UNCHANGED vars
  BY <1>3, <1>14, SameAccount DEF vars, Unsaved, up
<1>15. QED
  BY <1>1, <1>4, <1>5, <1>6, <1>7, <1>8, <1>9, <1>10, <1>11, <1>12, <1>13, <1>14 DEF Next

\* Restarts do not hand out the allowance again: with a state file to read at every
\* start of the day, a user is charged for no more than the limit and the one tick
\* that each crash of the day may lose.
THEOREM RestartsKeepBudget == Spec => []BudgetHolds
<1>1. Init => IInv
  BY InitTypes, InitQuiet, InitDated, InitCounted DEF IInv
<1>2. IInv /\ [Next]_vars => IInv'
  BY StepTypes, StepQuiet, StepDated, StepCounted DEF IInv
<1>3. IInv => BudgetHolds
  BY DEF IInv, Counted, Accounted, BudgetHolds
<1>4. QED
  BY <1>1, <1>2, <1>3, PTL DEF Spec
=============================================================================
