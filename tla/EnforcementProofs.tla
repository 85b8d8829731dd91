-------------------------- MODULE EnforcementProofs --------------------------
(***************************************************************************)
(* What holds of Enforcement for every household: any devices, schedules,  *)
(* configurations, days and interleavings.                                 *)
(***************************************************************************)
EXTENDS Enforcement, FiniteSetTheorems, TLAPS

\* A stopped daemon remembers nothing, and one without a configuration blocks
\* nothing it knows of.
Amnesia ==
  /\ ~up => config = NoConfig
  /\ config = NoConfig => blocked = {} /\ \A m \in Mac : drift[m] # "flushed"
  /\ ~up => bypass = NoBypass

\* What SetFollowsTracker asks of the kernel's set ker, a view of it and the
\* history dr of their parting.
Agree(dr, ker, view) ==
  \A m \in Mac :
    /\ dr[m] = "none" => (m \in ker <=> m \in view)
    /\ dr[m] = "flushed" => m \in view /\ m \notin ker

\* The tracker never blocks a device whose extension is live.
LiveNotBlocked == \A m \in Mac : bypass[m] = "live" => m \notin blocked

IInv ==
  /\ TypeOK
  /\ Amnesia
  /\ LoopHasConfig
  /\ SetFollowsTracker
  /\ LiveNotBlocked

\* A device is charged a natural number of times in a check, however many
\* schedules there are.
LEMMA ChargesNat ==
  ASSUME NEW c, NEW m, NEW i \in 0 .. NumSched
  PROVE  Charges(c, m, i) \in Nat
<1> DEFINE S == {j \in 1 .. i : Limited(c[j]) /\ m \in c[j].targets}
<1>1. NumSched \in Nat /\ i \in Int
  BY CalendarAssumption
<1>2. IsFiniteSet(1 .. i)
  BY <1>1, FS_Interval
<1>3. IsFiniteSet(S)
  BY <1>2, FS_Subset
<1>4. QED
  BY <1>3, FS_CardinalityType DEF Charges

\* The counters stay within their bound, and no charge lowers one below what
\* the device had used.
LEMMA UsedAfterBounds ==
  ASSUME NEW c, NEW use \in [Mac -> 0 .. UsageCap], NEW online,
         NEW m \in Mac, NEW i \in 0 .. NumSched
  PROVE  /\ UsedAfter(c, use, online, m, i) \in Nat
         /\ UsedAfter(c, use, online, m, i) >= use[m]
         /\ Saturate(UsedAfter(c, use, online, m, i)) \in 0 .. UsageCap
<1>1. Charges(c, m, i) \in Nat
  BY ChargesNat
<1>2. use[m] \in Nat /\ UsageCap \in Nat
  BY CapAssumption
<1>3. QED
  BY <1>1, <1>2 DEF UsedAfter, Saturate

\* What one run of run_scheduler_check leaves behind, whatever it started from.
LEMMA CheckEffect ==
  ASSUME NEW c \in Config, NEW byp \in [Mac -> {"none", "live", "expired"}],
         NEW use \in [Mac -> 0 .. UsageCap], NEW isStale,
         NEW was \in SUBSET Mac, NEW ker \in SUBSET Mac, NEW dr \in [Mac -> Drift],
         RunSchedulerCheck(c, byp, use, isStale, was, ker, dr)
  PROVE  /\ bypass' \in [Mac -> {"none", "live", "expired"}]
         /\ usage' \in [Mac -> 0 .. UsageCap]
         /\ stale' = FALSE
         /\ blocked' \in SUBSET Mac
         /\ kernel' \in SUBSET Mac
         /\ drift' \in [Mac -> Drift]
         /\ LiveNotBlocked'
         /\ Agree(dr, ker, was) => Agree(drift', kernel', blocked')
         /\ \A m \in Mac : Exhausted(c, UsageToday(use, isStale), m)
                             => m \in blocked' \/ bypass'[m] = "live"
<1> DEFINE today == UsageToday(use, isStale)
           final(online) == FinalBlocked(c, today, online, byp)
<1>0. PICK online \in OnlineSets :
        \E failing \in SUBSET ((final(online) \ was) \cup (was \ final(online))) :
          /\ bypass' = Sweep(byp)
          /\ usage' = [m \in Mac |-> Saturate(UsedAfter(c, today, online, m, NumSched))]
          /\ stale' = FALSE
          /\ blocked' = final(online)
          /\ kernel' = (ker \cup ((final(online) \ was) \ failing))
                         \ ((was \ final(online)) \ failing)
          /\ drift' = [m \in Mac |->
                 CASE m \in failing -> "failed"
                   [] m \in ((final(online) \ was) \cup (was \ final(online))) \ failing -> "none"
                   [] OTHER -> dr[m]]
  BY DEF RunSchedulerCheck
<1>1. PICK failing \in SUBSET ((final(online) \ was) \cup (was \ final(online))) :
        /\ bypass' = Sweep(byp)
        /\ usage' = [m \in Mac |-> Saturate(UsedAfter(c, today, online, m, NumSched))]
        /\ stale' = FALSE
        /\ blocked' = final(online)
        /\ kernel' = (ker \cup ((final(online) \ was) \ failing))
                       \ ((was \ final(online)) \ failing)
        /\ drift' = [m \in Mac |->
               CASE m \in failing -> "failed"
                 [] m \in ((final(online) \ was) \cup (was \ final(online))) \ failing -> "none"
                 [] OTHER -> dr[m]]
  BY <1>0
<1>2. today \in [Mac -> 0 .. UsageCap]
  BY CapAssumption DEF UsageToday, NoUsage
<1>3. final(online) \in SUBSET Mac
  BY DEF FinalBlocked, BlockedByWindow, BlockedByLimit
<1>4. bypass' \in [Mac -> {"none", "live", "expired"}]
  BY <1>1 DEF Sweep
<1>5. usage' \in [Mac -> 0 .. UsageCap]
  <2>1. NumSched \in 0 .. NumSched
    BY CalendarAssumption
  <2>2. \A m \in Mac : Saturate(UsedAfter(c, today, online, m, NumSched)) \in 0 .. UsageCap
    BY <1>2, <2>1, UsedAfterBounds
  <2>3. QED
    BY <1>1, <2>2
<1>6. blocked' \in SUBSET Mac /\ kernel' \in SUBSET Mac
  BY <1>1, <1>3
<1>7. LiveNotBlocked'
  <2>1. \A m \in Mac : bypass'[m] = "live" => byp[m] = "live"
    BY <1>1 DEF Sweep
  <2>2. \A m \in Mac : byp[m] = "live" => m \notin final(online)
    BY DEF FinalBlocked, LiveBypasses
  <2>3. QED
    BY <1>1, <2>1, <2>2 DEF LiveNotBlocked
<1>8. Agree(dr, ker, was) => Agree(drift', kernel', blocked')
  <2>1. SUFFICES ASSUME Agree(dr, ker, was), NEW m \in Mac
                 PROVE  /\ drift'[m] = "none" => (m \in kernel' <=> m \in blocked')
                        /\ drift'[m] = "flushed" => m \in blocked' /\ m \notin kernel'
    BY DEF Agree
  <2>2. CASE m \in failing
    BY <1>1, <2>2
  <2>3. CASE m \in ((final(online) \ was) \cup (was \ final(online))) \ failing
    <3>1. drift'[m] = "none"
      BY <1>1, <2>3
    <3>2. m \in kernel' <=> m \in final(online)
      BY <1>1, <2>3
    <3> QED BY <1>1, <3>1, <3>2
  <2>4. CASE m \notin (final(online) \ was) \cup (was \ final(online))
    <3>1. drift'[m] = dr[m]
      BY <1>1, <2>4
    <3>2. (m \in kernel' <=> m \in ker) /\ (m \in final(online) <=> m \in was)
      BY <1>1, <2>4
    <3> QED BY <1>1, <2>1, <3>1, <3>2 DEF Agree
  <2> QED BY <2>2, <2>3, <2>4
<1>9. ASSUME NEW m \in Mac, Exhausted(c, today, m), byp[m] # "live"
      PROVE  m \in blocked'
  <2>1. PICK i \in Sched : Limited(c[i]) /\ m \in c[i].targets /\ today[m] >= c[i].limit
    BY <1>9 DEF Exhausted
  <2>2. UsedAfter(c, today, online, m, i) >= c[i].limit
    <3>1. today[m] \in Int /\ c[i].limit \in Int
      BY <1>2, <2>1, ConfigAssumption, CapAssumption DEF Schedule, Limited
    <3>2. i \in 0 .. NumSched
      BY CalendarAssumption DEF Sched
    <3>3. /\ UsedAfter(c, today, online, m, i) \in Nat
          /\ UsedAfter(c, today, online, m, i) >= today[m]
      BY <1>2, <3>2, UsedAfterBounds
    <3>4. QED
      BY <2>1, <3>1, <3>3
  <2>3. QED
    BY <1>1, <1>9, <2>1, <2>2 DEF FinalBlocked, BlockedByLimit, LiveBypasses
<1>10. \A m \in Mac : byp[m] = "live" => bypass'[m] = "live"
  BY <1>1 DEF Sweep
<1>11. drift' \in [Mac -> Drift]
  BY <1>1 DEF Drift
<1>12. QED
  BY <1>1, <1>4, <1>5, <1>6, <1>7, <1>8, <1>9, <1>10, <1>11

-----------------------------------------------------------------------------
\* The invariant holds of the machine before the daemon's first start.
LEMMA InitEstablishes == Init => IInv
<1>1. 0 \in 0 .. UsageCap
  BY CapAssumption
<1>2. SUFFICES ASSUME Init PROVE IInv
  OBVIOUS
<1>3. TypeOK
  BY <1>1, <1>2, ConfigAssumption DEF Init, TypeOK, NoUsage, NoBypass, InStep, Drift
<1>4. Amnesia /\ LoopHasConfig /\ SetFollowsTracker /\ LiveNotBlocked
  BY <1>2 DEF Init, Amnesia, LoopHasConfig, Enforcing, SetFollowsTracker, LiveNotBlocked, NoBypass, InStep
<1>5. QED
  BY <1>3, <1>4 DEF IInv

\* A check of the running daemon keeps the invariant, whichever call made it.
LEMMA CheckPreserves ==
  ASSUME IInv, config # NoConfig, up,
         NEW byp \in [Mac -> {"none", "live", "expired"}],
         CheckNow(byp), UNCHANGED <<disk, up, config, armed, now, leases>>,
         due' \in BOOLEAN
  PROVE  IInv'
<1>1. /\ usage \in [Mac -> 0 .. UsageCap] /\ stale \in BOOLEAN
      /\ blocked \in SUBSET Mac /\ kernel \in SUBSET Mac /\ drift \in [Mac -> Drift]
      /\ config \in Config
  BY DEF IInv, TypeOK
<1>2. byp \in [Mac -> {"none", "live", "expired"}] /\ RunSchedulerCheck(config, byp, usage, stale, blocked, kernel, drift)
  BY DEF CheckNow
<1>3. /\ bypass' \in [Mac -> {"none", "live", "expired"}]
      /\ usage' \in [Mac -> 0 .. UsageCap]
      /\ stale' = FALSE
      /\ blocked' \in SUBSET Mac
      /\ kernel' \in SUBSET Mac
      /\ drift' \in [Mac -> Drift]
      /\ LiveNotBlocked'
      /\ Agree(drift, kernel, blocked) => Agree(drift', kernel', blocked')
  BY <1>1, <1>2, CheckEffect
<1>4. TypeOK'
  BY <1>3 DEF IInv, TypeOK
<1>5. Agree(drift, kernel, blocked)
  BY DEF IInv, SetFollowsTracker, Enforcing, Agree
<1>6. SetFollowsTracker'
  BY <1>3, <1>5 DEF SetFollowsTracker, Agree
<1>7. Amnesia' /\ LoopHasConfig'
  BY DEF IInv, Amnesia, LoopHasConfig, Enforcing
<1>8. QED
  BY <1>3, <1>4, <1>6, <1>7 DEF IInv

\* A ruleset load leaves the set and a view in step, but for what it flushed or
\* failed to do, provided nothing counts as flushed that the view does not hold.
LEMMA LoadAgrees ==
  ASSUME NEW applied \in BOOLEAN, NEW view \in SUBSET Mac, kernel \in SUBSET Mac,
         \A m \in Mac : /\ drift[m] \in Drift
                        /\ drift[m] = "flushed" => m \in view /\ m \notin kernel
  PROVE  /\ RulesetAfter(applied) \in SUBSET Mac
         /\ DriftAfter(applied, view) \in [Mac -> Drift]
         /\ Agree(DriftAfter(applied, view), RulesetAfter(applied), view)
  BY DEF RulesetAfter, DriftAfter, Agree, Drift

\* Starting with a configuration that loads: the first check runs against an
\* empty view, and the ruleset it starts from is empty unless nft rejected it.
LEMMA StartPreserves == IInv /\ StartGood => IInv'
<1>1. SUFFICES ASSUME IInv, StartGood PROVE IInv'
  OBVIOUS
<1>2. PICK applied \in BOOLEAN :
        RunSchedulerCheck(disk, NoBypass, NoUsage, FALSE, {},
                          RulesetAfter(applied), DriftAfter(applied, {}))
  BY <1>1 DEF StartGood
<1>3. /\ disk \in Config /\ kernel \in SUBSET Mac
      /\ NoBypass \in [Mac -> {"none", "live", "expired"}]
      /\ NoUsage \in [Mac -> 0 .. UsageCap]
  BY <1>1, CapAssumption DEF StartGood, IInv, TypeOK, NoBypass, NoUsage
<1>4. /\ RulesetAfter(applied) \in SUBSET Mac
      /\ DriftAfter(applied, {}) \in [Mac -> Drift]
      /\ Agree(DriftAfter(applied, {}), RulesetAfter(applied), {})
  <2>1. \A m \in Mac : drift[m] \in Drift /\ drift[m] # "flushed"
    BY <1>1 DEF StartGood, IInv, TypeOK, Amnesia
  <2>2. {} \in SUBSET Mac
    OBVIOUS
  <2> QED BY <1>3, <2>1, <2>2, LoadAgrees
<1>5. {} \in SUBSET Mac /\ FALSE \in BOOLEAN
  OBVIOUS
<1>6. /\ bypass' \in [Mac -> {"none", "live", "expired"}]
      /\ usage' \in [Mac -> 0 .. UsageCap]
      /\ stale' = FALSE
      /\ blocked' \in SUBSET Mac
      /\ kernel' \in SUBSET Mac
      /\ drift' \in [Mac -> Drift]
      /\ LiveNotBlocked'
      /\ Agree(DriftAfter(applied, {}), RulesetAfter(applied), {})
           => Agree(drift', kernel', blocked')
  BY <1>2, <1>3, <1>4, <1>5, CheckEffect
<1>7. TypeOK'
  BY <1>1, <1>3, <1>6 DEF StartGood, IInv, TypeOK
<1>8. SetFollowsTracker'
  BY <1>4, <1>6 DEF SetFollowsTracker, Agree
<1>9. Amnesia' /\ LoopHasConfig'
  BY <1>1, <1>3, ConfigAssumption DEF StartGood, Amnesia, LoopHasConfig, Enforcing
<1>10. QED
  BY <1>6, <1>7, <1>8, <1>9 DEF IInv

\* A reload replaces the configuration and empties the set or leaves it as a
\* failed load; the tracker's own view does not move.
LEMMA ReloadPreserves ==
  ASSUME IInv, Reload, leases' \in SUBSET Mac,
         UNCHANGED <<disk, up, armed, due, now, stale, usage, bypass, blocked>>
  PROVE  IInv'
<1>1. PICK applied \in BOOLEAN :
        kernel' = RulesetAfter(applied) /\ drift' = DriftAfter(applied, blocked)
  BY DEF Reload
<1>2. /\ kernel' \in SUBSET Mac /\ drift' \in [Mac -> Drift]
      /\ Agree(drift', kernel', blocked)
  <2>1. \A m \in Mac : /\ drift[m] \in Drift
                       /\ drift[m] = "flushed" => m \in blocked /\ m \notin kernel
    BY DEF Reload, IInv, TypeOK, Amnesia, SetFollowsTracker, Enforcing
  <2>2. blocked \in SUBSET Mac /\ kernel \in SUBSET Mac
    BY DEF IInv, TypeOK
  <2> QED BY <1>1, <2>1, <2>2, LoadAgrees
<1>3. disk \in Config /\ config' \in Config /\ config' # NoConfig /\ up
  BY ConfigAssumption DEF Reload, IInv, TypeOK
<1>4. TypeOK'
  BY <1>2, <1>3 DEF IInv, TypeOK
<1>5. SetFollowsTracker'
  BY <1>2 DEF SetFollowsTracker, Agree
<1>6. Amnesia' /\ LoopHasConfig' /\ LiveNotBlocked'
  BY <1>3 DEF IInv, Amnesia, LoopHasConfig, Enforcing, LiveNotBlocked
<1>7. QED
  BY <1>4, <1>5, <1>6 DEF IInv

\* Time stays on the calendar.
LEMMA NextMinute == \A t \in Minute : (t + 1) % (DayLen * Days) \in Minute
<1>1. DayLen * Days \in Nat /\ DayLen * Days > 0
  BY CalendarAssumption
<1>2. QED
  BY <1>1 DEF Minute

LEMMA IndInv == IInv /\ [Next]_vars => IInv'
<1> SUFFICES ASSUME IInv, [Next]_vars PROVE IInv'
  OBVIOUS
<1>1. CASE StartGood
  BY <1>1, StartPreserves
<1>2. CASE StartBroken
  BY <1>2 DEF StartBroken, IInv, TypeOK, Amnesia, LoopHasConfig, SetFollowsTracker,
              LiveNotBlocked, Enforcing
<1>3. CASE Stop
  <2>1. NoUsage \in [Mac -> 0 .. UsageCap] /\ NoBypass \in [Mac -> {"none", "live", "expired"}]
    BY CapAssumption DEF NoUsage, NoBypass
  <2>2. TypeOK'
    BY <1>3, <2>1 DEF Stop, MemoryLost, IInv, TypeOK, InStep, Drift
  <2>3. Amnesia' /\ LoopHasConfig' /\ SetFollowsTracker' /\ LiveNotBlocked'
    BY <1>3 DEF Stop, MemoryLost, Amnesia, LoopHasConfig, SetFollowsTracker,
                LiveNotBlocked, Enforcing, NoBypass, InStep
  <2>4. QED
    BY <2>2, <2>3 DEF IInv
<1>4. CASE ReloadConfig
  BY <1>4, ReloadPreserves DEF ReloadConfig, IInv, TypeOK
<1>5. ASSUME NEW m \in Mac, RegisterLease(m) PROVE IInv'
  <2>1. leases' \in SUBSET Mac
    BY <1>5 DEF RegisterLease, IInv, TypeOK
  <2>2. QED
    BY <1>5, <2>1, ReloadPreserves DEF RegisterLease
<1>6. ASSUME NEW m \in Mac, ReleaseLease(m) PROVE IInv'
  BY <1>6 DEF ReleaseLease, IInv, TypeOK, Amnesia, LoopHasConfig, SetFollowsTracker,
              LiveNotBlocked, Enforcing
<1>7. ASSUME NEW m \in Mac, GrantTimeExtension(m) PROVE IInv'
  <2>1. PICK granted \in {"live", "expired"} :
          LET byp == [bypass EXCEPT ![m] = granted] IN
          /\ up
          /\ \/ config # NoConfig /\ CheckNow(byp)
             \/ /\ config = NoConfig /\ bypass' = byp
                /\ UNCHANGED <<stale, usage, blocked, kernel, drift>>
          /\ UNCHANGED <<disk, up, config, armed, due, now, leases>>
    BY <1>7 DEF GrantTimeExtension
  <2>2. [bypass EXCEPT ![m] = granted] \in [Mac -> {"none", "live", "expired"}]
    BY DEF IInv, TypeOK
  <2>3. due' \in BOOLEAN
    BY <2>1 DEF IInv, TypeOK
  <2>4. CASE config # NoConfig
    BY <2>1, <2>2, <2>3, <2>4, CheckPreserves
  <2>5. CASE config = NoConfig
    BY <2>1, <2>2, <2>5 DEF IInv, TypeOK, Amnesia, LoopHasConfig, SetFollowsTracker,
                            LiveNotBlocked, Enforcing
  <2>6. QED
    BY <2>4, <2>5
<1>8. ASSUME NEW m \in Mac, RemoveTimeExtension(m) PROVE IInv'
  <2>1. LET byp == [bypass EXCEPT ![m] = "none"] IN
          /\ up
          /\ \/ config # NoConfig /\ CheckNow(byp)
             \/ /\ config = NoConfig /\ bypass' = byp
                /\ UNCHANGED <<stale, usage, blocked, kernel, drift>>
          /\ UNCHANGED <<disk, up, config, armed, due, now, leases>>
    BY <1>8 DEF RemoveTimeExtension
  <2>2. [bypass EXCEPT ![m] = "none"] \in [Mac -> {"none", "live", "expired"}]
    BY DEF IInv, TypeOK
  <2>3. due' \in BOOLEAN
    BY <2>1 DEF IInv, TypeOK
  <2>4. CASE config # NoConfig
    BY <2>1, <2>2, <2>3, <2>4, CheckPreserves
  <2>5. CASE config = NoConfig
    BY <2>1, <2>2, <2>5 DEF IInv, TypeOK, Amnesia, LoopHasConfig, SetFollowsTracker,
                            LiveNotBlocked, Enforcing
  <2>6. QED
    BY <2>4, <2>5
<1>9. CASE LoopCheck
  <2>1. config # NoConfig /\ up
    BY <1>9 DEF LoopCheck, IInv, LoopHasConfig, Enforcing
  <2>2. bypass \in [Mac -> {"none", "live", "expired"}]
    BY DEF IInv, TypeOK
  <2>3. CheckNow(bypass) /\ due' \in BOOLEAN
        /\ UNCHANGED <<disk, up, config, armed, now, leases>>
    BY <1>9 DEF LoopCheck
  <2>4. QED
    BY <2>1, <2>2, <2>3, CheckPreserves
<1>10. CASE PassMinute
  <2>1. now' \in Minute
    BY <1>10, NextMinute DEF PassMinute, IInv, TypeOK
  <2>2. stale' \in BOOLEAN /\ due' \in BOOLEAN
    BY <1>10 DEF PassMinute, IInv, TypeOK
  <2>3. TypeOK'
    BY <1>10, <2>1, <2>2 DEF PassMinute, IInv, TypeOK
  <2>4. Amnesia' /\ LoopHasConfig' /\ SetFollowsTracker' /\ LiveNotBlocked'
    BY <1>10 DEF PassMinute, IInv, Amnesia, LoopHasConfig, SetFollowsTracker,
                 LiveNotBlocked, Enforcing
  <2>5. QED
    BY <2>3, <2>4 DEF IInv
<1>11. ASSUME NEW m \in Mac, BypassRunsOut(m) PROVE IInv'
  <2>1. TypeOK'
    BY <1>11 DEF BypassRunsOut, IInv, TypeOK
  <2>2. bypass[m] = "live" => up
    BY DEF IInv, Amnesia, NoBypass
  <2>3. Amnesia' /\ LoopHasConfig' /\ SetFollowsTracker'
    BY <1>11, <2>2 DEF BypassRunsOut, IInv, Amnesia, LoopHasConfig, SetFollowsTracker, Enforcing
  <2>4. LiveNotBlocked'
    BY <1>11 DEF BypassRunsOut, IInv, TypeOK, LiveNotBlocked
  <2>5. QED
    BY <2>1, <2>3, <2>4 DEF IInv
<1>12. CASE EditConfig
  BY <1>12 DEF EditConfig, IInv, TypeOK, Amnesia, LoopHasConfig, SetFollowsTracker,
               LiveNotBlocked, Enforcing
<1>13. ASSUME NEW m \in Mac, FwBlock(m) \/ FwUnblock(m) PROVE IInv'
  <2>1. drift' = [drift EXCEPT ![m] = "byHand"]
        /\ kernel' \in {kernel \cup {m}, kernel \ {m}}
        /\ UNCHANGED <<disk, up, config, armed, due, now, stale, usage, bypass, blocked, leases>>
    BY <1>13 DEF FwBlock, FwUnblock
  <2>2. TypeOK'
    BY <2>1 DEF IInv, TypeOK, Drift
  <2>3. drift \in [Mac -> Drift]
    BY DEF IInv, TypeOK
  <2>4. SetFollowsTracker'
    BY <2>1, <2>3 DEF IInv, SetFollowsTracker, Enforcing
  <2>5. Amnesia' /\ LoopHasConfig' /\ LiveNotBlocked'
    BY <2>1, <2>3 DEF IInv, Amnesia, LoopHasConfig, LiveNotBlocked, Enforcing
  <2> QED BY <2>2, <2>4, <2>5 DEF IInv
<1>14. CASE UNCHANGED vars
  BY <1>14 DEF vars, IInv, TypeOK, Amnesia, LoopHasConfig, SetFollowsTracker,
               LiveNotBlocked, Enforcing
<1>15. QED
  BY <1>1, <1>2, <1>3, <1>4, <1>5, <1>6, <1>7, <1>8, <1>9, <1>10, <1>11,
     <1>12, <1>13, <1>14 DEF Next

-----------------------------------------------------------------------------
\* The strengthening is an invariant of every behaviour.
THEOREM Inductive == Spec => []IInv
  BY InitEstablishes, IndInv, PTL DEF Spec

\* Every variable of the daemon, the kernel's set and the files keeps its range
\* through every handler, check, crash and edit.
THEOREM TypeCorrect == Spec => []TypeOK
<1>1. IInv => TypeOK
  BY DEF IInv
<1>2. QED
  BY <1>1, Inductive, PTL

\* The set blocked_clients holds a device exactly when currently_blocked does, after
\* every reload, check, restart and crash, but for the devices a reload flushed out,
\* an nft command failed about or the command line's fw block and unblock changed.
THEOREM SetFollows == Spec => []SetFollowsTracker
<1>1. IInv => SetFollowsTracker
  BY DEF IInv
<1>2. QED
  BY <1>1, Inductive, PTL

\* The packet filter honours a live time extension of a device nobody blocked by hand
\* and no nft command failed about, for it drops only what the tracker blocks and the
\* tracker's last check took the extension into account.
THEOREM ExtensionHonoured == Spec => []GrantHonoured
<1>1. IInv => GrantHonoured
  <2> SUFFICES ASSUME IInv, Enforcing, NEW m \in Mac, bypass[m] = "live",
                      drift[m] \notin {"failed", "byHand"}
               PROVE  m \notin kernel
    BY DEF GrantHonoured
  <2>1. drift[m] = "none" \/ drift[m] = "flushed"
    BY DEF IInv, TypeOK, Drift
  <2> QED BY <2>1 DEF IInv, SetFollowsTracker, LiveNotBlocked
<1>2. QED
  BY <1>1, Inductive, PTL

\* run_scheduler_check never runs from the loop without a configuration.
THEOREM LoopConfigured == Spec => []LoopHasConfig
<1>1. IInv => LoopHasConfig
  BY DEF IInv
<1>2. QED
  BY <1>1, Inductive, PTL

-----------------------------------------------------------------------------
\* A check of the running daemon on the day its counters belong to.
LEMMA CheckKeepsExhausted ==
  ASSUME IInv, config # NoConfig, UNCHANGED config,
         NEW byp \in [Mac -> {"none", "live", "expired"}], CheckNow(byp),
         stale = stale',
         NEW m \in Mac, Exhausted(config', usage, m)
  PROVE  m \in blocked' \/ bypass'[m] = "live"
<1>1. /\ usage \in [Mac -> 0 .. UsageCap]
      /\ blocked \in SUBSET Mac /\ kernel \in SUBSET Mac
      /\ config \in Config /\ drift \in [Mac -> Drift]
  BY DEF IInv, TypeOK
<1>2. RunSchedulerCheck(config, byp, usage, stale, blocked, kernel, drift)
  BY DEF CheckNow
<1>3. stale' = FALSE /\ \A d \in Mac : Exhausted(config, UsageToday(usage, stale), d)
                             => d \in blocked' \/ bypass'[d] = "live"
  BY <1>1, <1>2, CheckEffect
<1>4. UsageToday(usage, stale) = usage
  BY <1>3 DEF UsageToday
<1>5. QED
  BY <1>3, <1>4

LEMMA StepKeepsExhausted ==
  ASSUME IInv, Next, up, up', stale = stale',
         NEW m \in Mac, m \in blocked, Exhausted(config', usage, m)
  PROVE  m \in blocked' \/ bypass'[m] = "live"
<1>1. CASE StartGood \/ StartBroken \/ Stop
  BY <1>1 DEF StartGood, StartBroken, Stop
<1>2. CASE ReloadConfig \/ PassMinute \/ EditConfig
  BY <1>2 DEF ReloadConfig, PassMinute, EditConfig
<1>3. CASE \E d \in Mac : RegisterLease(d) \/ ReleaseLease(d) \/ BypassRunsOut(d)
  BY <1>3 DEF RegisterLease, ReleaseLease, BypassRunsOut
<1>8. CASE \E d \in Mac : FwBlock(d) \/ FwUnblock(d)
  BY <1>8 DEF FwBlock, FwUnblock
<1>4. ASSUME NEW d \in Mac, GrantTimeExtension(d)
      PROVE  m \in blocked' \/ bypass'[m] = "live"
  <2>1. PICK granted \in {"live", "expired"} :
          \/ /\ config # NoConfig /\ UNCHANGED config
             /\ CheckNow([bypass EXCEPT ![d] = granted])
          \/ UNCHANGED blocked
    BY <1>4 DEF GrantTimeExtension
  <2>2. [bypass EXCEPT ![d] = granted] \in [Mac -> {"none", "live", "expired"}]
    BY DEF IInv, TypeOK
  <2>3. QED
    BY <2>1, <2>2, CheckKeepsExhausted
<1>5. ASSUME NEW d \in Mac, RemoveTimeExtension(d)
      PROVE  m \in blocked' \/ bypass'[m] = "live"
  <2>1. \/ /\ config # NoConfig /\ UNCHANGED config
           /\ CheckNow([bypass EXCEPT ![d] = "none"])
        \/ UNCHANGED blocked
    BY <1>5 DEF RemoveTimeExtension
  <2>2. [bypass EXCEPT ![d] = "none"] \in [Mac -> {"none", "live", "expired"}]
    BY DEF IInv, TypeOK
  <2>3. QED
    BY <2>1, <2>2, CheckKeepsExhausted
<1>6. CASE LoopCheck
  <2>1. config # NoConfig /\ UNCHANGED config /\ CheckNow(bypass)
    BY <1>6 DEF LoopCheck, IInv, LoopHasConfig, Enforcing
  <2>2. bypass \in [Mac -> {"none", "live", "expired"}]
    BY DEF IInv, TypeOK
  <2>3. QED
    BY <2>1, <2>2, CheckKeepsExhausted
<1>7. QED
  BY <1>1, <1>2, <1>3, <1>4, <1>5, <1>6, <1>8 DEF Next

\* An exhausted allowance is lifted by a time extension and by nothing else
\* that happens on the same day of the same run of the daemon.
THEOREM ExhaustedKept == Spec => ExhaustedStaysBlocked
<1>1. IInv /\ [Next]_vars =>
        [\A m \in Mac :
           /\ up /\ up'
           /\ stale = stale'
           /\ m \in blocked /\ Exhausted(config', usage, m)
           => m \in blocked' \/ bypass'[m] = "live"]_vars
  BY StepKeepsExhausted
<1>2. QED
  BY <1>1, Inductive, PTL DEF Spec, ExhaustedStaysBlocked

-----------------------------------------------------------------------------
(* The calendar (scheduler.py). *)

\* A day and a minute of it are what a minute of the cycle has them to be.
LEMMA DayAndMinute ==
  ASSUME NEW t \in Nat, NEW q \in Nat, NEW r \in 0 .. DayLen - 1, t = q * DayLen + r
  PROVE  DayOf(t) = q /\ MinuteOfDay(t) = r
<1> DEFINE p == t \div DayLen
           u == t % DayLen
<1>1. DayLen \in Nat \ {0}
  BY CalendarAssumption
<1>2. p \in Nat /\ u \in 0 .. DayLen - 1 /\ t = p * DayLen + u
  BY <1>1
<1> HIDE DEF p, u
<1>3. (p - q) * DayLen = r - u
  BY <1>1, <1>2
<1>4. \A a \in Int : a >= 1 => a * DayLen >= DayLen
  BY <1>1
<1>5. ~(p - q >= 1)
  BY <1>1, <1>2, <1>3, <1>4
<1>6. (q - p) * DayLen = u - r
  BY <1>1, <1>2
<1>7. ~(q - p >= 1)
  BY <1>1, <1>2, <1>4, <1>6
<1>8. p = q
  BY <1>2, <1>5, <1>7
<1>9. u = r
  BY <1>1, <1>2, <1>8
<1> QED BY <1>8, <1>9 DEF p, u, DayOf, MinuteOfDay

\* The minutes of a day of the cycle, and those after midnight.
LEMMA CycleMinute ==
  ASSUME NEW d \in 0 .. Days - 1, NEW m \in 0 .. DayLen - 1
  PROVE  /\ (d * DayLen + m) % (DayLen * Days) = d * DayLen + m
         /\ d * DayLen + m \in Minute
         /\ DayOf(d * DayLen + m) = d /\ MinuteOfDay(d * DayLen + m) = m
<1>1. DayLen \in Nat \ {0} /\ Days \in Nat \ {0}
  BY CalendarAssumption
<1>2. (Days - 1 - d) * DayLen >= 0
  BY <1>1
<1>3. (Days - 1 - d) * DayLen = Days * DayLen - DayLen - d * DayLen /\ d * DayLen >= 0
  BY <1>1
<1>4. d * DayLen + m \in 0 .. DayLen * Days - 1
  BY <1>1, <1>2, <1>3
<1>5. \A a \in Nat, b \in Nat \ {0} : a < b => a % b = a
  OBVIOUS
<1>6. DayLen * Days \in Nat \ {0}
  BY <1>1
<1>7. (d * DayLen + m) % (DayLen * Days) = d * DayLen + m
  BY <1>4, <1>5, <1>6
<1> QED BY <1>1, <1>4, <1>7, DayAndMinute DEF Minute

\* A minute of the cycle has a day and a minute of the day.
LEMMA MinuteSplits ==
  ASSUME NEW t \in Minute
  PROVE  /\ DayOf(t) \in 0 .. Days - 1 /\ MinuteOfDay(t) \in 0 .. DayLen - 1
         /\ t = DayOf(t) * DayLen + MinuteOfDay(t)
<1>1. DayLen \in Nat \ {0} /\ Days \in Nat \ {0}
  BY CalendarAssumption
<1>2. t \in Nat /\ t < DayLen * Days
  BY <1>1 DEF Minute
<1>3. DayOf(t) \in Nat /\ MinuteOfDay(t) \in 0 .. DayLen - 1 /\ t = DayOf(t) * DayLen + MinuteOfDay(t)
  BY <1>1, <1>2 DEF DayOf, MinuteOfDay
<1>4. ~(DayOf(t) >= Days)
  <2>1. SUFFICES ASSUME DayOf(t) >= Days PROVE FALSE
    OBVIOUS
  <2>2. (DayOf(t) - Days) * DayLen >= 0
    BY <1>1, <1>3, <2>1
  <2>3. (DayOf(t) - Days) * DayLen = DayOf(t) * DayLen - DayLen * Days
    BY <1>1, <1>3
  <2> QED BY <1>1, <1>2, <1>3, <2>2, <2>3
<1> QED BY <1>1, <1>3, <1>4

\* The day before, and what the day after has before it.
LEMMA DayAfter ==
  ASSUME NEW d \in 0 .. Days - 1
  PROVE  /\ d + 1 < Days => DayBefore(d + 1) = d
         /\ d + 1 = Days => DayBefore(0) = d
         /\ DayBefore(d) \in 0 .. Days - 1
         /\ d > 0 => DayBefore(d) = d - 1
         /\ d = 0 => DayBefore(d) = Days - 1
<1>1. Days \in Nat \ {0}
  BY CalendarAssumption
<1>2. \A a \in Nat, b \in Nat \ {0} : a < b => a % b = a
  OBVIOUS
<1>3. \A a \in Int, b \in Nat \ {0} : a < 0 /\ 0 <= a + b => a % b = a + b
  OBVIOUS
<1>4. (0 - 1) % Days = Days - 1
  BY <1>1, <1>3
<1>5. d > 0 => (d - 1) % Days = d - 1
  BY <1>1, <1>2
<1>6. d + 1 < Days => (d + 1 - 1) % Days = d
  BY <1>1, <1>2
<1> QED BY <1>1, <1>4, <1>5, <1>6 DEF DayBefore

\* is_schedule_active reads a window as the calendar does, at any minute of any cycle.
LEMMA ActiveMatches ==
  ASSUME NEW s \in Schedule, NEW t \in Minute
  PROVE  IsScheduleActive(s, t) <=> WindowCovers(s, t)
<1> DEFINE day == DayOf(t)
           m == MinuteOfDay(t)
           long == (s.finish - s.start) % DayLen
<1>1. DayLen \in Nat \ {0} /\ Days \in Nat \ {0}
  BY CalendarAssumption
<1>2. s.start \in 0 .. DayLen - 1 /\ s.finish \in 0 .. DayLen - 1 /\ s.days \subseteq 0 .. Days - 1
      /\ s.timed \in BOOLEAN
  BY DEF Schedule
<1>3. day \in 0 .. Days - 1 /\ m \in 0 .. DayLen - 1 /\ t = day * DayLen + m
  BY MinuteSplits
<1>4. /\ s.finish >= s.start => long = s.finish - s.start
      /\ s.finish < s.start => long = s.finish - s.start + DayLen
  <2>1. \A a \in Nat, b \in Nat \ {0} : a < b => a % b = a
    OBVIOUS
  <2>2. \A a \in Int, b \in Nat \ {0} : a < 0 /\ 0 <= a + b => a % b = a + b
    OBVIOUS
  <2> QED BY <1>1, <1>2, <2>1, <2>2
<1>5. /\ IsScheduleActive(s, t) <=>
           /\ s.timed
           /\ \/ s.finish >= s.start /\ day \in s.days /\ s.start <= m /\ m <= s.finish
              \/ s.finish < s.start /\ m <= s.finish /\ DayBefore(day) \in s.days
              \/ s.finish < s.start /\ m > s.finish /\ m >= s.start /\ day \in s.days
      /\ WindowCovers(s, t) <=>
           /\ s.timed
           /\ \E d \in s.days, k \in 0 .. long : t = (d * DayLen + s.start + k) % (DayLen * Days)
  BY <1>1, <1>2 DEF IsScheduleActive, WindowCovers
\* A minute of the window before midnight, and one after it.
<1>6. ASSUME NEW d \in 0 .. Days - 1, NEW k \in Nat, s.start + k < DayLen
      PROVE  t = (d * DayLen + s.start + k) % (DayLen * Days) <=> d = day /\ m = s.start + k
  <2> DEFINE u == s.start + k
  <2>1. u \in 0 .. DayLen - 1 /\ d * DayLen + s.start + k = d * DayLen + u
    BY <1>1, <1>2, <1>6
  <2>2. /\ (d * DayLen + u) % (DayLen * Days) = d * DayLen + u
        /\ DayOf(d * DayLen + u) = d /\ MinuteOfDay(d * DayLen + u) = u
    BY <2>1, CycleMinute
  <2> HIDE DEF u
  <2>3. t = d * DayLen + u <=> d = day /\ m = u
    BY <1>3, <2>2 DEF day, m
  <2> QED BY <2>1, <2>2, <2>3 DEF u
<1>7. ASSUME NEW d \in 0 .. Days - 1, NEW k \in Nat, s.start + k >= DayLen, s.start + k < 2 * DayLen
      PROVE  t = (d * DayLen + s.start + k) % (DayLen * Days)
               <=> d = DayBefore(day) /\ m = s.start + k - DayLen
  <2> DEFINE u == s.start + k - DayLen
             next == IF d + 1 = Days THEN 0 ELSE d + 1
  <2>1. u \in 0 .. DayLen - 1 /\ d * DayLen + s.start + k = (d + 1) * DayLen + u
    BY <1>1, <1>2, <1>7
  <2>2. next \in 0 .. Days - 1
    BY <1>1
  <2> HIDE DEF u
  <2>3. ((d + 1) * DayLen + u) % (DayLen * Days) = next * DayLen + u
    <3>1. CASE d + 1 = Days
      <4>1. (d + 1) * DayLen + u = DayLen * Days + u /\ u < DayLen * Days /\ DayLen * Days \in Nat \ {0}
        BY <1>1, <2>1, <3>1
      <4>2. \A a \in Nat, b \in Nat \ {0} : a < b => (b + a) % b = a
        OBVIOUS
      <4>3. (DayLen * Days + u) % (DayLen * Days) = u
        BY <2>1, <4>1, <4>2
      <4> QED BY <1>1, <2>1, <3>1, <4>1, <4>3
    <3>2. CASE d + 1 # Days
      BY <2>1, <2>2, <3>2, CycleMinute
    <3> QED BY <3>1, <3>2
  <2>4. DayOf(next * DayLen + u) = next /\ MinuteOfDay(next * DayLen + u) = u
    BY <2>1, <2>2, CycleMinute
  <2>5. next = day <=> d = DayBefore(day)
    BY <1>1, <1>3, DayAfter
  <2> HIDE DEF next
  <2>6. t = next * DayLen + u <=> next = day /\ m = u
    BY <1>3, <2>4 DEF day, m
  <2> QED BY <2>1, <2>3, <2>5, <2>6 DEF u
<1> HIDE DEF day, m, long
<1>8. ASSUME s.timed, s.finish >= s.start
      PROVE  IsScheduleActive(s, t) <=> WindowCovers(s, t)
  <2>1. ASSUME day \in s.days, s.start <= m, m <= s.finish
        PROVE  \E d \in s.days, k \in 0 .. long : t = (d * DayLen + s.start + k) % (DayLen * Days)
    <3>1. PICK k \in 0 .. long : k = m - s.start
      BY <1>1, <1>2, <1>3, <1>4, <1>8, <2>1
    <3>2. k \in Nat /\ s.start + k < DayLen /\ m = s.start + k
      BY <1>1, <1>2, <1>3, <3>1
    <3>3. t = (day * DayLen + s.start + k) % (DayLen * Days)
      BY <1>3, <1>6, <3>2
    <3> QED BY <2>1, <3>1, <3>3
  <2>2. ASSUME NEW d \in s.days, NEW k \in 0 .. long, t = (d * DayLen + s.start + k) % (DayLen * Days)
        PROVE  day \in s.days /\ s.start <= m /\ m <= s.finish
    <3>1. d \in 0 .. Days - 1 /\ k \in Nat /\ s.start + k < DayLen /\ s.start + k <= s.finish
      BY <1>1, <1>2, <1>4, <1>8
    <3>2. d = day /\ m = s.start + k
      BY <1>6, <2>2, <3>1
    <3> QED BY <1>2, <3>1, <3>2
  <2> QED BY <1>2, <1>3, <1>5, <1>8, <2>1, <2>2
<1>9. ASSUME s.timed, s.finish < s.start
      PROVE  IsScheduleActive(s, t) <=> WindowCovers(s, t)
  <2>1. ASSUME m >= s.start, day \in s.days
        PROVE  \E d \in s.days, k \in 0 .. long : t = (d * DayLen + s.start + k) % (DayLen * Days)
    <3>1. PICK k \in 0 .. long : k = m - s.start
      BY <1>1, <1>2, <1>3, <1>4, <1>9, <2>1
    <3>2. k \in Nat /\ s.start + k < DayLen /\ m = s.start + k
      BY <1>1, <1>2, <1>3, <3>1
    <3>3. t = (day * DayLen + s.start + k) % (DayLen * Days)
      BY <1>3, <1>6, <3>2
    <3> QED BY <2>1, <3>1, <3>3
  <2>2. ASSUME m <= s.finish, DayBefore(day) \in s.days
        PROVE  \E d \in s.days, k \in 0 .. long : t = (d * DayLen + s.start + k) % (DayLen * Days)
    <3>1. PICK k \in 0 .. long : k = m - s.start + DayLen
      BY <1>1, <1>2, <1>3, <1>4, <1>9, <2>2
    <3>2. k \in Nat /\ s.start + k >= DayLen /\ s.start + k < 2 * DayLen /\ m = s.start + k - DayLen
      BY <1>1, <1>2, <1>3, <3>1
    <3>3. DayBefore(day) \in 0 .. Days - 1
      BY <1>2, <2>2
    <3>4. t = (DayBefore(day) * DayLen + s.start + k) % (DayLen * Days)
      BY <1>7, <3>2, <3>3
    <3> QED BY <2>2, <3>1, <3>4
  <2>3. ASSUME NEW d \in s.days, NEW k \in 0 .. long, t = (d * DayLen + s.start + k) % (DayLen * Days)
        PROVE  \/ m <= s.finish /\ DayBefore(day) \in s.days
               \/ m >= s.start /\ day \in s.days
    <3>1. d \in 0 .. Days - 1 /\ k \in Nat /\ s.start + k <= s.finish + DayLen /\ s.start + k < 2 * DayLen
      BY <1>1, <1>2, <1>4, <1>9
    <3>2. CASE s.start + k < DayLen
      <4>1. d = day /\ m = s.start + k
        BY <1>6, <2>3, <3>1, <3>2
      <4> QED BY <1>2, <3>1, <4>1
    <3>3. CASE s.start + k >= DayLen
      <4>1. d = DayBefore(day) /\ m = s.start + k - DayLen
        BY <1>7, <2>3, <3>1, <3>3
      <4> QED BY <1>1, <1>2, <3>1, <4>1
    <3> QED BY <1>1, <1>2, <3>1, <3>2, <3>3
  <2> QED BY <1>2, <1>3, <1>5, <1>9, <2>1, <2>2, <2>3
<1> QED
  BY <1>2, <1>5, <1>8, <1>9

\* Whatever the windows, the days they are listed for and the minute it is, a device is
\* inside a window for is_schedule_active exactly when it is for the calendar.
THEOREM WindowsMatch == Spec => []WindowMatchesCalendar
<1>1. IInv => WindowMatchesCalendar
  <2> SUFFICES ASSUME IInv, NEW c \in Config, NEW i \in Sched
               PROVE  IsScheduleActive(c[i], now) <=> WindowCovers(c[i], now)
    BY DEF WindowMatchesCalendar
  <2>1. c[i] \in Schedule /\ now \in Minute
    BY ConfigAssumption DEF IInv, TypeOK
  <2> QED BY <2>1, ActiveMatches
<1> QED BY <1>1, Inductive, PTL

-----------------------------------------------------------------------------
\* The schedules up to one charge no more than all of them.
LEMMA ChargesGrow ==
  ASSUME NEW c, NEW m, NEW i \in Sched
  PROVE  /\ Charges(c, m, i) \in Nat /\ Charges(c, m, NumSched) \in Nat
         /\ Charges(c, m, i) <= Charges(c, m, NumSched)
<1> DEFINE S(k) == {j \in 1 .. k : Limited(c[j]) /\ m \in c[j].targets}
<1>1. NumSched \in Nat /\ i \in 0 .. NumSched
  BY CalendarAssumption DEF Sched
<1>2. IsFiniteSet(1 .. NumSched)
  BY <1>1, FS_Interval
<1>3. IsFiniteSet(S(NumSched))
  BY <1>2, FS_Subset
<1>4. S(i) \subseteq S(NumSched)
  BY <1>1
<1>5. Cardinality(S(i)) <= Cardinality(S(NumSched))
  BY <1>3, <1>4, FS_Subset
<1>6. Charges(c, m, i) \in Nat /\ Charges(c, m, NumSched) \in Nat
  BY <1>1, ChargesNat
<1> QED BY <1>5, <1>6 DEF Charges

\* A check that finds the date changed.
LEMMA CheckIsFresh ==
  ASSUME IInv, config \in Config, stale = TRUE, NEW byp, CheckNow(byp), NEW m \in blocked'
  PROVE  \/ \E i \in Sched : m \in config[i].targets /\ WindowCovers(config[i], now)
         \/ Exhausted(config, [d \in Mac |-> Charges(config, d, NumSched)], m)
<1>1. PICK online \in OnlineSets : blocked' = FinalBlocked(config, NoUsage, online, byp)
  BY DEF CheckNow, RunSchedulerCheck, UsageToday
<1>2. now \in Minute /\ \A i \in Sched : config[i] \in Schedule
  BY ConfigAssumption DEF IInv, TypeOK
<1>3. CASE m \in BlockedByWindow(config)
  <2>1. PICK i \in Sched : m \in config[i].targets /\ IsScheduleActive(config[i], now)
    BY <1>3 DEF BlockedByWindow
  <2> QED BY <1>2, <2>1, ActiveMatches
<1>4. CASE m \in BlockedByLimit(config, NoUsage, online)
  <2>1. PICK i \in Sched : /\ m \in Mac /\ Limited(config[i]) /\ m \in config[i].targets
                           /\ UsedAfter(config, NoUsage, online, m, i) >= config[i].limit
    BY <1>4 DEF BlockedByLimit
  <2>2. config[i].limit \in Int
    BY <1>2, <2>1 DEF Schedule, Limited
  <2>3. /\ Charges(config, m, i) \in Nat /\ Charges(config, m, NumSched) \in Nat
        /\ Charges(config, m, i) <= Charges(config, m, NumSched)
    BY ChargesGrow
  <2>4. NoUsage[m] = 0
    BY <2>1 DEF NoUsage
  <2>5. Charges(config, m, NumSched) >= config[i].limit
    BY <2>1, <2>2, <2>3, <2>4 DEF UsedAfter
  <2> QED BY <2>1, <2>5 DEF Exhausted
<1> QED BY <1>1, <1>3, <1>4 DEF FinalBlocked

LEMMA StepIsFresh ==
  ASSUME IInv, Next, stale, ~stale', up, up', NEW m \in blocked'
  PROVE  \/ \E i \in Sched : m \in config'[i].targets /\ WindowCovers(config'[i], now)
         \/ Exhausted(config', [d \in Mac |-> Charges(config', d, NumSched)], m)
<1>1. config \in Config \cup {NoConfig} /\ stale = TRUE
  BY DEF IInv, TypeOK
<1>2. ASSUME NEW byp, config # NoConfig, UNCHANGED config, CheckNow(byp)
      PROVE  \/ \E i \in Sched : m \in config'[i].targets /\ WindowCovers(config'[i], now)
             \/ Exhausted(config', [d \in Mac |-> Charges(config', d, NumSched)], m)
  BY <1>1, <1>2, CheckIsFresh
<1>3. CASE StartGood \/ StartBroken \/ Stop \/ ReloadConfig \/ PassMinute \/ EditConfig
  BY <1>3 DEF StartGood, StartBroken, Stop, ReloadConfig, PassMinute, EditConfig
<1>4. CASE \E d \in Mac : RegisterLease(d) \/ ReleaseLease(d) \/ BypassRunsOut(d)
  BY <1>4 DEF RegisterLease, ReleaseLease, BypassRunsOut
<1>8. CASE \E d \in Mac : FwBlock(d) \/ FwUnblock(d)
  BY <1>8 DEF FwBlock, FwUnblock
<1>5. ASSUME NEW d \in Mac, GrantTimeExtension(d)
      PROVE  \E byp : config # NoConfig /\ UNCHANGED config /\ CheckNow(byp)
  <2>1. PICK granted \in {"live", "expired"} :
          \/ /\ config # NoConfig /\ UNCHANGED config
             /\ CheckNow([bypass EXCEPT ![d] = granted])
          \/ UNCHANGED stale
    BY <1>5 DEF GrantTimeExtension
  <2> QED BY <2>1
<1>6. ASSUME NEW d \in Mac, RemoveTimeExtension(d)
      PROVE  \E byp : config # NoConfig /\ UNCHANGED config /\ CheckNow(byp)
  <2>1. \/ /\ config # NoConfig /\ UNCHANGED config
           /\ CheckNow([bypass EXCEPT ![d] = "none"])
        \/ UNCHANGED stale
    BY <1>6 DEF RemoveTimeExtension
  <2> QED BY <2>1
<1>7. CASE LoopCheck
  <2>1. config # NoConfig /\ UNCHANGED config /\ CheckNow(bypass)
    BY <1>7 DEF LoopCheck, IInv, LoopHasConfig, Enforcing
  <2> QED BY <1>2, <2>1
<1> QED
  BY <1>2, <1>3, <1>4, <1>5, <1>6, <1>7, <1>8 DEF Next

\* The first check after midnight blocks nobody for what was used the day before, however
\* late it comes and whichever handler makes it (step 3 of run_scheduler_check).
THEOREM DayStartsFresh == Spec => NewDayIsFresh
<1>1. ASSUME IInv, [Next]_vars
      PROVE  [stale /\ ~stale' /\ up /\ up' =>
                \A m \in blocked' :
                  \/ \E i \in Sched : m \in config'[i].targets /\ WindowCovers(config'[i], now)
                  \/ Exhausted(config', [d \in Mac |-> Charges(config', d, NumSched)], m)]_vars
  BY <1>1, StepIsFresh
<1> QED BY <1>1, Inductive, PTL DEF Spec, NewDayIsFresh
=============================================================================
