----------------------------- MODULE Enforcement -----------------------------
(***************************************************************************)
(* Bedtime and screen-time enforcement in the RoostOS daemon: the          *)
(* AllowanceTracker (daemon/allowance_tracker.py) inside the D-Bus service *)
(* (daemon/dbus_service.py) with its two outside partners, the split YAML  *)
(* configuration on disk and the set blocked_clients of the kernel's       *)
(* nftables ruleset.                                                       *)
(*                                                                         *)
(* The D-Bus handlers and the scheduler check never await, so each runs to *)
(* its end before asyncio starts another: one action each.  Durations of   *)
(* time extensions are abstract: a granted bypass is live until an         *)
(* arbitrary later moment, when it runs out, and stays in the list until   *)
(* the next check sweeps it.                                               *)
(***************************************************************************)
EXTENDS Scheduler

CONSTANTS
  Config,    \* configurations the directory may hold, [Sched -> Schedule]
  Broken,    \* the directory holds files load_config_directory rejects
  NoConfig,  \* the daemon has no _config attribute yet
  UsageCap   \* usage counters saturate here (a bound of the model)

ASSUME ConfigAssumption ==
  /\ Config \subseteq [Sched -> Schedule]
  /\ Broken \notin Config
  /\ NoConfig \notin Config

ASSUME CapAssumption ==
  /\ UsageCap \in Nat
  /\ \A c \in Config, i \in Sched : Limited(c[i]) => c[i].limit <= UsageCap

VARIABLES
  disk,       \* what the next load of the configuration directory finds
  up,         \* the daemon process runs
  config,     \* daemon._config
  armed,      \* the task _scheduler_loop is alive
  due,        \* its sleep(60) is over
  now,        \* the wall clock, in minutes of the cycle
  stale,      \* _last_allowance_date is not today's date
  usage,      \* allowance_usage, in charges of 60 seconds
  bypass,     \* temporary_bypasses: "none", "live" or "expired" for each device
  blocked,    \* currently_blocked
  kernel,     \* members of the nftables set blocked_clients
  leases,     \* table active_leases of state.db
  drift       \* history: why the kernel may hold another membership of a device
              \* than the tracker believes

vars == <<disk, up, config, armed, due, now, stale, usage, bypass, blocked,
          kernel, leases, drift>>

NoUsage  == [m \in Mac |-> 0]
NoBypass == [m \in Mac |-> "none"]

\* A device's membership in the kernel's set is as the tracker believes, or the
\* last nft command or ruleset load that should have made it so failed, or the
\* command line changed it, or a ruleset load flushed the device out of the set.
Drift    == {"none", "failed", "byHand", "flushed"}
InStep   == [m \in Mac |-> "none"]

TypeOK ==
  /\ disk \in Config \cup {Broken}
  /\ up \in BOOLEAN /\ armed \in BOOLEAN /\ due \in BOOLEAN
  /\ stale \in BOOLEAN
  /\ config \in Config \cup {NoConfig}
  /\ now \in Minute
  /\ usage \in [Mac -> 0 .. UsageCap]
  /\ bypass \in [Mac -> {"none", "live", "expired"}]
  /\ blocked \subseteq Mac
  /\ kernel \subseteq Mac
  /\ drift \in [Mac -> Drift]
  /\ leases \subseteq Mac

-----------------------------------------------------------------------------
(* One run of run_scheduler_check. *)

\* get_active_leases: an empty table falls back to Kea's lease file, of which
\* nothing is known here.
OnlineSets == IF leases = {} THEN SUBSET Mac ELSE {leases}

LiveBypasses(byp) == {m \in Mac : byp[m] = "live"}

\* Mutant: the sweep is forgotten.
SweepNothing(byp) == byp

\* Step 1 drops the entries whose expiry has passed.
Sweep(byp) == [m \in Mac |-> IF byp[m] = "live" THEN "live" ELSE "none"]

\* 60-second charges a device collects from the first i schedules of one check:
\* one for every schedule with a daily limit that targets it.
Charges(c, m, i) ==
  Cardinality({j \in 1 .. i : Limited(c[j]) /\ m \in c[j].targets})

\* Mutant: the counter runs down like a remaining allowance.
UsedDown(c, use, online, m, i) ==
  use[m] - (IF m \in online THEN Charges(c, m, i) ELSE 0)

UsedAfter(c, use, online, m, i) ==
  use[m] + (IF m \in online THEN Charges(c, m, i) ELSE 0)

Saturate(n) == IF n > UsageCap THEN UsageCap ELSE n

\* Mutant: the counters survive midnight.
UsageForever(use, isStale) == use

\* Step 3 clears the counters when the date has changed.
UsageToday(use, isStale) == IF isStale THEN NoUsage ELSE use

BlockedByWindow(c) ==
  {m \in Mac : \E i \in Sched : m \in c[i].targets /\ IsScheduleActive(c[i], now)}

\* Mutant: the limit is tested inside the online branch only.
BlockedByLimitOnline(c, use, online) ==
  {m \in online : \E i \in Sched :
      /\ Limited(c[i])
      /\ m \in c[i].targets
      /\ UsedAfter(c, use, online, m, i) >= c[i].limit}

\* Each limit is tested with what the schedules up to it have charged so far.
BlockedByLimit(c, use, online) ==
  {m \in Mac : \E i \in Sched :
      /\ Limited(c[i])
      /\ m \in c[i].targets
      /\ UsedAfter(c, use, online, m, i) >= c[i].limit}

\* Mutant: extensions lift bedtime windows, not limits.
FinalBlockedLimitWins(c, use, online, byp) ==
  (BlockedByWindow(c) \ LiveBypasses(byp)) \cup BlockedByLimit(c, use, online)

FinalBlocked(c, use, online, byp) ==
  (BlockedByWindow(c) \cup BlockedByLimit(c, use, online)) \ LiveBypasses(byp)

\* The check, for configuration c, bypass list byp, tracker view was and kernel
\* set ker.  execute_system_cmd swallows errors: the view follows the decision
\* whether or not the nft command took effect.
RunSchedulerCheck(c, byp, use, isStale, was, ker, dr) ==
  \E online \in OnlineSets :
    LET today     == UsageToday(use, isStale)
        final     == FinalBlocked(c, today, online, byp)
        toBlock   == final \ was
        toUnblock == was \ final
    IN  \E failing \in SUBSET (toBlock \cup toUnblock) :
          /\ bypass' = Sweep(byp)
          /\ usage' = [m \in Mac |-> Saturate(UsedAfter(c, today, online, m, NumSched))]
          /\ stale' = FALSE
          /\ blocked' = final
          /\ kernel' = (ker \cup (toBlock \ failing)) \ (toUnblock \ failing)
          /\ drift' = [m \in Mac |-> CASE m \in failing -> "failed"
                                       [] m \in (toBlock \cup toUnblock) \ failing -> "none"
                                       [] OTHER -> dr[m]]

CheckNow(byp) ==
  RunSchedulerCheck(config, byp, usage, stale, blocked, kernel, drift)

-----------------------------------------------------------------------------
(* The daemon's life. *)

\* Nothing of a stopped daemon's memory remains.
MemoryLost ==
  /\ config' = NoConfig
  /\ armed' = FALSE /\ due' = FALSE /\ stale' = FALSE
  /\ usage' = NoUsage
  /\ bypass' = NoBypass
  /\ blocked' = {}

\* Mutant: the ruleset is added to, not flushed.
RulesetKept(applied) == kernel

\* FirewallServicesSubsystem.update: "flush ruleset" and the compiled tables in
\* one nft transaction, so the set comes back empty, or nft rejects the file and
\* the old ruleset stays.
RulesetAfter(applied) == IF applied THEN {} ELSE kernel

\* What that leaves of the agreement with a tracker that believes in view.
DriftAfter(applied, view) ==
  [m \in Mac |->
     IF applied THEN IF m \in view THEN "flushed" ELSE "none"
     ELSE IF (m \in kernel) # (m \in view) /\ drift[m] = "none" THEN "failed"
     ELSE drift[m]]

\* RoostDaemonInterface.__init__ with a configuration that loads: the ruleset is
\* applied, the loop's task is created (its first check is due at once) and
\* start_loop runs a check of its own.
StartGood ==
  /\ ~up /\ disk # Broken
  /\ up' = TRUE
  /\ config' = disk
  /\ armed' = TRUE /\ due' = TRUE
  /\ \E applied \in BOOLEAN :
       RunSchedulerCheck(disk, NoBypass, NoUsage, FALSE, {},
                         RulesetAfter(applied), DriftAfter(applied, {}))
  /\ UNCHANGED <<disk, now, leases>>

\* Mutant: the failed first check leaves the loop's task alive.
StartBrokenArmed ==
  /\ ~up /\ disk = Broken
  /\ up' = TRUE /\ armed' = TRUE /\ due' = TRUE
  /\ UNCHANGED <<disk, config, now, stale, usage, bypass, blocked,
                 kernel, leases, drift>>

\* ... with one that does not: the warning is printed, _config stays unset, the
\* check of start_loop raises, and its handler closes the loop's coroutine.
StartBroken ==
  /\ ~up /\ disk = Broken
  /\ up' = TRUE
  /\ UNCHANGED <<disk, config, armed, due, now, stale, usage, bypass, blocked,
                 kernel, leases, drift>>

\* The process ends and the kernel keeps its ruleset, or the host reboots.
Stop ==
  /\ up
  /\ up' = FALSE
  /\ MemoryLost
  /\ kernel' \in {kernel, {}}
  /\ drift' = InStep
  /\ UNCHANGED <<disk, now, leases>>

-----------------------------------------------------------------------------
(* D-Bus handlers. *)

\* reload_config: a configuration that loads replaces _config and the ruleset.
Reload ==
  /\ up /\ disk # Broken
  /\ config' = disk
  /\ \E applied \in BOOLEAN :
       kernel' = RulesetAfter(applied) /\ drift' = DriftAfter(applied, blocked)

\* ReloadConfig and every getter that reloads first.
ReloadConfig ==
  /\ Reload
  /\ UNCHANGED <<disk, up, armed, due, now, stale, usage, bypass, blocked, leases>>

\* RegisterLease reloads, then upserts the lease.
RegisterLease(m) ==
  /\ Reload
  /\ leases' = leases \cup {m}
  /\ UNCHANGED <<disk, up, armed, due, now, stale, usage, bypass, blocked>>

ReleaseLease(m) ==
  /\ up
  /\ m \in leases
  /\ leases' = leases \ {m}
  /\ UNCHANGED <<disk, up, config, armed, due, now, stale, usage, bypass,
                 blocked, kernel, drift>>

\* grant_time_extension: a duration that is not positive has already run out.
\* Without a configuration the check raises after the list was changed.
GrantTimeExtension(m) ==
  \E granted \in {"live", "expired"} :
    LET byp == [bypass EXCEPT ![m] = granted] IN
    /\ up
    /\ \/ /\ config # NoConfig
          /\ CheckNow(byp)
       \/ /\ config = NoConfig
          /\ bypass' = byp
          /\ UNCHANGED <<stale, usage, blocked, kernel, drift>>
    /\ UNCHANGED <<disk, up, config, armed, due, now, leases>>

RemoveTimeExtension(m) ==
  LET byp == [bypass EXCEPT ![m] = "none"] IN
  /\ up
  /\ \/ /\ config # NoConfig
        /\ CheckNow(byp)
     \/ /\ config = NoConfig
        /\ bypass' = byp
        /\ UNCHANGED <<stale, usage, blocked, kernel, drift>>
  /\ UNCHANGED <<disk, up, config, armed, due, now, leases>>

-----------------------------------------------------------------------------
(* The scheduler loop, the clock and the other writers of the directory. *)

LoopCheck ==
  /\ armed /\ due
  /\ due' = FALSE
  /\ CheckNow(bypass)
  /\ UNCHANGED <<disk, up, config, armed, now, leases>>

\* A minute passes; the sleeping loop becomes due.  Nothing makes the loop run
\* within the minute.
PassMinute ==
  /\ now' = (now + 1) % (DayLen * Days)
  /\ due' = armed
  /\ stale' = (stale \/ (up /\ MinuteOfDay(now') = 0))
  /\ UNCHANGED <<disk, up, config, armed, usage, bypass, blocked, kernel,
                 leases, drift>>

BypassRunsOut(m) ==
  /\ bypass[m] = "live"
  /\ bypass' = [bypass EXCEPT ![m] = "expired"]
  /\ UNCHANGED <<disk, up, config, armed, due, now, stale, usage, blocked,
                 kernel, leases, drift>>

\* The web process, the CLI or an administrator rewrites the files.
EditConfig ==
  /\ disk' \in (Config \cup {Broken}) \ {disk}
  /\ UNCHANGED <<up, config, armed, due, now, stale, usage, bypass, blocked,
                 kernel, leases, drift>>

\* `fw block` and `fw unblock` of the command line change the kernel's set
\* behind the tracker, whether the daemon runs or not.  A command that fails, or
\* finds the set as it wants it, changes nothing.
FwBlock(m) ==
  /\ m \notin kernel
  /\ kernel' = kernel \cup {m}
  /\ drift' = [drift EXCEPT ![m] = "byHand"]
  /\ UNCHANGED <<disk, up, config, armed, due, now, stale, usage, bypass, blocked, leases>>

FwUnblock(m) ==
  /\ m \in kernel
  /\ kernel' = kernel \ {m}
  /\ drift' = [drift EXCEPT ![m] = "byHand"]
  /\ UNCHANGED <<disk, up, config, armed, due, now, stale, usage, bypass, blocked, leases>>

-----------------------------------------------------------------------------
Init ==
  /\ disk \in Config
  /\ up = FALSE
  /\ config = NoConfig
  /\ armed = FALSE /\ due = FALSE /\ stale = FALSE
  /\ now \in Minute
  /\ usage = NoUsage
  /\ bypass = NoBypass
  /\ blocked = {}
  /\ kernel = {}
  /\ leases = {}
  /\ drift = InStep

Next ==
  \/ StartGood
  \/ StartBroken
  \/ Stop
  \/ ReloadConfig
  \/ \E m \in Mac : RegisterLease(m)
  \/ \E m \in Mac : ReleaseLease(m)
  \/ \E m \in Mac : GrantTimeExtension(m)
  \/ \E m \in Mac : RemoveTimeExtension(m)
  \/ LoopCheck
  \/ PassMinute
  \/ \E m \in Mac : BypassRunsOut(m)
  \/ EditConfig
  \/ \E m \in Mac : FwBlock(m) \/ FwUnblock(m)

\* Time passes, and an asyncio task whose sleep is over is eventually run.
\* Nothing obliges a user, an administrator or a crash to act.
Fairness ==
  /\ WF_vars(PassMinute)
  /\ WF_vars(LoopCheck)

Spec == Init /\ [][Next]_vars /\ Fairness

-----------------------------------------------------------------------------
(* Properties. *)

\* The daemon enforces with a configuration.
Enforcing == up /\ config # NoConfig

\* Under configuration c, usage u exhausts a limit that targets m.
Exhausted(c, u, m) ==
  \E i \in Sched : Limited(c[i]) /\ m \in c[i].targets /\ u[m] >= c[i].limit

\* The kernel's set and the tracker's view part only in known ways: an nft
\* command about the device failed, `fw block` or `fw unblock` went behind the
\* tracker, or a reload flushed the device out while the tracker goes on
\* believing it blocked (to_block is taken from currently_blocked alone, so it
\* stays let in).  Nothing else lets a blocked device through or leaves another
\* cut off: not deltas, not a crash that loses the view, not a restart over an
\* old ruleset.
SetFollowsTracker ==
  Enforcing => \A m \in Mac :
    /\ drift[m] = "none" => (m \in kernel <=> m \in blocked)
    /\ drift[m] = "flushed" => m \in blocked /\ m \notin kernel

\* A parent's time extension is honoured by the packet filter for as long as it
\* lives, whatever windows open and limits run out meanwhile, unless nft failed
\* about the device or somebody blocked it by hand.
GrantHonoured ==
  Enforcing => \A m \in Mac :
    bypass[m] = "live" /\ drift[m] \notin {"failed", "byHand"} => m \notin kernel

\* A living loop always has a configuration to check: a daemon that started
\* without one has no loop.
LoopHasConfig == armed => Enforcing

\* is_schedule_active agrees with the calendar: the window a schedule opens on
\* a listed day, past midnight too, and no other minute.
WindowMatchesCalendar ==
  \A c \in Config, i \in Sched :
    IsScheduleActive(c[i], now) <=> WindowCovers(c[i], now)

\* Within a day and a daemon run, a blocked device whose allowance is used up is
\* let back only by a time extension, whichever check looks at it: the end of a
\* bedtime window or a lease that ends must not let it through.
ExhaustedStaysBlocked ==
  [][\A m \in Mac :
       /\ up /\ up'
       /\ stale = stale'
       /\ m \in blocked /\ Exhausted(config', usage, m)
       => m \in blocked' \/ bypass'[m] = "live"]_vars

\* The first check of a new day forgets the old day's usage: what it blocks is
\* inside a window or reaches a limit with that check's own charges.
NewDayIsFresh ==
  [][stale /\ ~stale' /\ up /\ up' =>
       \A m \in blocked' :
         \/ \E i \in Sched : m \in config'[i].targets /\ WindowCovers(config'[i], now)
         \/ Exhausted(config', [d \in Mac |-> Charges(config', d, NumSched)], m)]_vars

\* While the loop lives, an extension that has run out is swept.
ExpiredBypassSwept ==
  \A m \in Mac : armed /\ bypass[m] = "expired" ~> ~armed \/ bypass[m] # "expired"

-----------------------------------------------------------------------------
(* What the documentation and the comments say and the code does not do.    *)

\* docs/device_management.md: network state is evaluated every 60 seconds, so a
\* daemon that holds a configuration would have a living loop.
EvaluatedPeriodically == Enforcing => armed

\* allowance_tracker.py calls allowance_usage "seconds used today": no more
\* minutes than the day has had, and one for the minute of the start.
UsageWithinDay ==
  up /\ ~stale => \A m \in Mac : usage[m] <= MinuteOfDay(now) + 2
=============================================================================
