--------------------------- MODULE ServicesProofs ---------------------------
(***************************************************************************)
(* What holds of the services a router runs, for any applications, builds, *)
(* installations, files and rules: Apps, SourceBuilds, Updates, Backup and *)
(* Alerting. The results at the end are of the behaviours of Components,   *)
(* and rest on nothing but ComponentsAssumption.                           *)
(***************************************************************************)
EXTENDS Components, Sequences, SequenceTheorems, TLAPS

-----------------------------------------------------------------------------
(* Applications. *)

AppsInv == Apps!TypeOK /\ Apps!ContainersFollow

Containers == [built : Apps!Commit, running : BOOLEAN]

\* What a container is made into is a container or none; if nothing fails it is there only
\* for a plugin that is wanted, and runs if that lists it.
LEMMA SynchronizedContainer ==
  ASSUME Apps!AppsAssumption, Apps!TypeOK, NEW c \in Apps!Container, NEW plugins,
         NEW fails \in BOOLEAN, NEW stops \in BOOLEAN
  PROVE  /\ Apps!Synchronized(c, plugins, fails, stops) \in Containers \cup {None}
         /\ ~fails /\ Apps!Synchronized(c, plugins, fails, stops) # None =>
              c[1] \in Apps!Wanted(plugins)
         /\ ~fails /\ c \in Apps!Listed(plugins) =>
              /\ Apps!Synchronized(c, plugins, fails, stops) # None
              /\ Apps!Synchronized(c, plugins, fails, stops).running
<1>1. container[c] \in Containers \cup {None} /\ image[c[1]] \in Apps!Commit
  BY DEF Apps!TypeOK, Containers, Apps!Container
<1>2. None \notin Containers
  BY DEF Apps!AppsAssumption, Containers, Apps!Commit
<1>3. c \in Apps!Present <=> container[c] # None
  BY DEF Apps!Present
<1>4. c \in Apps!Unwanted(plugins) <=> c \in Apps!Present /\ c[1] \notin Apps!Wanted(plugins)
  BY DEF Apps!Unwanted, Apps!Present
<1>5. c \in Apps!Listed(plugins) => c[1] \in Apps!Wanted(plugins)
  BY DEF Apps!Listed
<1>6. CASE c \in Apps!Unwanted(plugins)
  <2>1. container[c] \in Containers
    BY <1>1, <1>3, <1>4, <1>6
  <2>2. [container[c] EXCEPT !.running = @ /\ ~stops] \in Containers
    BY <2>1 DEF Containers
  <2> QED BY <1>4, <1>5, <1>6, <2>2 DEF Apps!Synchronized
<1>7. CASE c \notin Apps!Unwanted(plugins) /\ (c \notin Apps!Listed(plugins) \/ (fails /\ c \notin Apps!Present))
  <2>1. Apps!Synchronized(c, plugins, fails, stops) = container[c]
    BY <1>7 DEF Apps!Synchronized
  <2> QED BY <1>1, <1>3, <1>4, <1>7, <2>1
<1>8. CASE /\ c \notin Apps!Unwanted(plugins) /\ c \in Apps!Listed(plugins)
           /\ ~fails \/ c \in Apps!Present
  <2>1. CASE c \in Apps!Present
    <3>1. container[c] \in Containers
      BY <1>1, <1>3, <2>1
    <3> DEFINE started == [container[c] EXCEPT !.running = @ \/ ~fails]
    <3>2. started \in Containers
      BY <3>1 DEF Containers
    <3>3. ~fails => started.running
      BY <3>1 DEF Containers
    <3>4. Apps!Synchronized(c, plugins, fails, stops) = started
      BY <1>8, <2>1 DEF Apps!Synchronized
    <3> HIDE DEF started
    <3> QED BY <1>2, <1>5, <1>8, <3>2, <3>3, <3>4
  <2>2. CASE c \notin Apps!Present
    <3> DEFINE fresh == [built |-> image[c[1]], running |-> TRUE]
    <3>1. Apps!Synchronized(c, plugins, fails, stops) = fresh
      BY <1>8, <2>2 DEF Apps!Synchronized
    <3>2. fresh \in Containers /\ fresh.running
      BY <1>1 DEF Containers
    <3> HIDE DEF fresh
    <3> QED BY <1>2, <1>5, <1>8, <3>1, <3>2
  <2> QED BY <2>1, <2>2
<1> QED BY <1>6, <1>7, <1>8

LEMMA AppsTypeKept ==
  ASSUME Apps!AppsAssumption, Apps!TypeOK, Apps!Next
  PROVE  Apps!TypeOK'
<1> USE DEF Apps!sources, Apps!files, Apps!docker
<1>1. Apps!View \in Apps!Plugins
  BY DEF Apps!TypeOK, Apps!View
<1>2. ASSUME NEW plugins \in Apps!Plugins, Apps!Stage(plugins), UNCHANGED Apps!sources
      PROVE  Apps!TypeOK'
  BY <1>2 DEF Apps!TypeOK, Apps!Stage, Apps!Counted, Apps!AppsAssumption
<1>3. \A p \in App, boxes \in SUBSET Box : [Apps!View EXCEPT ![p] = Apps!Enabled(boxes)] \in Apps!Plugins
  BY <1>1 DEF Apps!Plugins, Apps!Enabled
<1>4. ASSUME NEW p \in App, NEW succeeds \in BOOLEAN, Apps!Build(p, succeeds)
      PROVE  /\ clone' \in [App -> Apps!Commit \cup {None}] /\ image' \in [App -> Apps!Commit]
             /\ remote' = remote /\ Apps!Resolved(p) \in Apps!Commit
  <2>1. Apps!Resolved(p) \in Apps!Commit
    BY DEF Apps!Resolved, Apps!TypeOK, Apps!Commit, Apps!AppsAssumption
  <2> QED BY <1>4, <2>1 DEF Apps!Build, Apps!TypeOK
<1>5. ASSUME NEW p \in App, NEW succeeds \in BOOLEAN, Apps!ImportFromSource(p, succeeds)
      PROVE  Apps!TypeOK'
  <2>1. Apps!Build(p, succeeds) /\ Apps!Cataloged(p, succeeds)
        /\ changes' \in 0 .. MaxChanges /\ UNCHANGED <<Apps!files, Apps!docker>>
    BY <1>5 DEF Apps!ImportFromSource, Apps!Counted, Apps!TypeOK, Apps!AppsAssumption
  <2>2. catalog' \in [App -> Apps!Commit \cup {None}]
    BY <1>4, <2>1 DEF Apps!Cataloged, Apps!TypeOK
  <2> QED BY <1>4, <2>1, <2>2 DEF Apps!TypeOK
<1>6. CASE Apps!Reload
  <2>1. PICK failing \in SUBSET Apps!Container, stops \in BOOLEAN :
          /\ container' = [c \in Apps!Container |-> Apps!Synchronized(c, active, c \in failing, stops)]
          /\ behind' = failing
    BY <1>6 DEF Apps!Reload, Apps!Unwanted, Apps!Present, Apps!Listed
  <2>2. container' \in [Apps!Container -> Containers \cup {None}]
    <3>1. ASSUME NEW c \in Apps!Container
          PROVE  container'[c] \in Containers \cup {None}
      <4> DEFINE fails == c \in failing
      <4>1. container'[c] = Apps!Synchronized(c, active, fails, stops)
        BY <2>1
      <4>2. fails \in BOOLEAN
        OBVIOUS
      <4> HIDE DEF fails
      <4> QED BY <4>1, <4>2, SynchronizedContainer
    <3> QED BY <2>1, <3>1
  <2> QED BY <1>6, <2>1, <2>2 DEF Apps!TypeOK, Apps!Reload, Containers
<1>7. ASSUME NEW p \in App, NEW enabled \in BOOLEAN, Apps!TogglePlugin(p, enabled)
      PROVE  Apps!TypeOK'
  <2>1. [Apps!View EXCEPT ![p].enabled = enabled] \in Apps!Plugins
    BY <1>1, <1>7 DEF Apps!Plugins, Apps!TogglePlugin, Apps!Installed
  <2> QED BY <1>2, <1>7, <2>1 DEF Apps!TogglePlugin
<1>8. ASSUME NEW p \in App, Apps!DeletePlugin(p)
      PROVE  Apps!TypeOK'
  <2>1. [Apps!View EXCEPT ![p] = None] \in Apps!Plugins
    BY <1>1 DEF Apps!Plugins
  <2> QED BY <1>2, <1>8, <2>1 DEF Apps!DeletePlugin
<1>9. ASSUME NEW p \in App, \/ \E boxes \in SUBSET Box : Apps!Register(p, boxes)
                              \/ Apps!InstallFromCatalog(p)
      PROVE  Apps!TypeOK'
  <2>1. {Main} \in SUBSET Box
    BY DEF Apps!AppsAssumption
  <2> QED BY <1>2, <1>3, <1>9, <2>1 DEF Apps!Register, Apps!InstallFromCatalog
<1>10. ASSUME NEW p \in App, Apps!InstallCommand(p)
       PROVE  Apps!TypeOK'
  BY <1>10 DEF Apps!InstallCommand, Apps!Enabled, Apps!Counted, Apps!TypeOK, Apps!Plugins, Apps!AppsAssumption
<1>11. ASSUME NEW p \in App, Apps!Push(p)
       PROVE  Apps!TypeOK'
  BY <1>11 DEF Apps!Push, Apps!Counted, Apps!TypeOK, Apps!AppsAssumption
<1>12. ASSUME NEW p \in App, Apps!BuildAndInstall(p)
       PROVE  Apps!TypeOK'
  <2>1. Apps!Build(p, TRUE) /\ catalog' = catalog
        /\ Apps!Stage([Apps!View EXCEPT ![p] = Apps!Enabled({Main})]) /\ {Main} \in SUBSET Box
    BY <1>12 DEF Apps!BuildAndInstall, Apps!AppsAssumption
  <2>2. /\ clone' \in [App -> Apps!Commit \cup {None}] /\ image' \in [App -> Apps!Commit]
        /\ remote' = remote
    BY <1>4, <2>1
  <2>3. staged' \in Apps!Plugins
    BY <1>3, <2>1 DEF Apps!Stage
  <2> QED BY <2>1, <2>2, <2>3 DEF Apps!TypeOK, Apps!Stage, Apps!Counted, Apps!AppsAssumption
<1>13. ASSUME NEW p \in App, Apps!DeleteLocalApp(p)
       PROVE  Apps!TypeOK'
  BY <1>13 DEF Apps!DeleteLocalApp, Apps!TypeOK
<1>14. ASSUME NEW c \in Apps!Container, Apps!StopByHand(c)
       PROVE  Apps!TypeOK'
  <2>1. container' \in [Apps!Container -> Containers \cup {None}]
    BY <1>14 DEF Apps!StopByHand, Apps!Present, Apps!TypeOK, Containers
  <2> QED BY <1>14, <2>1 DEF Apps!StopByHand, Apps!TypeOK, Containers
<1>15. CASE Apps!CommitStaged \/ Apps!Discard
  BY <1>15 DEF Apps!CommitStaged, Apps!Discard, Apps!TypeOK
<1>16. CASE Apps!ReloadWithoutDocker \/ Apps!DaemonRestart
  BY <1>16 DEF Apps!ReloadWithoutDocker, Apps!DaemonRestart, Apps!TypeOK
<1> QED BY <1>5, <1>6, <1>7, <1>8, <1>9, <1>10, <1>11, <1>12, <1>13, <1>14, <1>15, <1>16
        DEF Apps!Next, Apps!UpdateImported

LEMMA AppsHold ==
  ASSUME Apps!AppsAssumption
  PROVE  Apps!Spec => [](Apps!TypeOK /\ Apps!ContainersFollow)
<1>1. Apps!Init => AppsInv
  BY DEF Apps!Init, AppsInv, Apps!AppsAssumption, Apps!TypeOK, Apps!ContainersFollow, Apps!Commit,
         Apps!Plugins, Apps!Present, Apps!Listed, Apps!Wanted, Apps!Installed
<1>2. AppsInv /\ [Apps!Next]_Apps!vars => AppsInv'
  <2> SUFFICES ASSUME AppsInv, [Apps!Next]_Apps!vars
               PROVE  Apps!TypeOK' /\ Apps!ContainersFollow'
    BY DEF AppsInv
  <2>1. Apps!TypeOK /\ Apps!ContainersFollow
    BY DEF AppsInv
  <2>2. CASE UNCHANGED Apps!vars
    BY <2>1, <2>2 DEF Apps!vars, Apps!sources, Apps!files, Apps!docker, Apps!TypeOK,
       Apps!ContainersFollow, Apps!Present, Apps!Listed, Apps!Wanted, Apps!Installed
  <2>3. CASE Apps!Next
    <3>1. Apps!TypeOK'
      BY <2>1, <2>3, AppsTypeKept
    <3> SUFFICES Apps!ContainersFollow'
      BY <3>1
    <3>2. CASE UNCHANGED Apps!docker
      <4>1. config' = config /\ container' = container /\ behind' = behind
        BY <3>2 DEF Apps!docker
      <4> QED BY <2>1, <4>1 DEF Apps!ContainersFollow, Apps!Present, Apps!Listed, Apps!Wanted, Apps!Installed
    <3>3. CASE Apps!Reload
      <4>1. PICK failing \in SUBSET Apps!Container, stops \in BOOLEAN :
              /\ container' = [c \in Apps!Container |-> Apps!Synchronized(c, active, c \in failing, stops)]
              /\ behind' = failing
        BY <3>3 DEF Apps!Reload, Apps!Unwanted, Apps!Present, Apps!Listed
      <4>2. ASSUME NEW c \in Apps!Container, c \notin failing
            PROVE  /\ container'[c] # None => c[1] \in Apps!Wanted(active)
                   /\ c \in Apps!Listed(active) => container'[c] # None /\ container'[c].running
        <5> DEFINE fails == c \in failing
        <5>1. container'[c] = Apps!Synchronized(c, active, fails, stops)
          BY <4>1
        <5>2. fails \in BOOLEAN /\ ~fails
          BY <4>2
        <5> HIDE DEF fails
        <5> QED BY <2>1, <5>1, <5>2, SynchronizedContainer
      <4>3. config' = active
        BY <3>3 DEF Apps!Reload
      <4> QED BY <4>1, <4>2, <4>3 DEF Apps!ContainersFollow, Apps!Present, Apps!Listed, Apps!Wanted, Apps!Installed
    <3>4. CASE Apps!ReloadWithoutDocker
      BY <3>4 DEF Apps!ReloadWithoutDocker, Apps!ContainersFollow
    <3>5. ASSUME NEW c \in Apps!Container, Apps!StopByHand(c)
          PROVE  Apps!ContainersFollow'
      BY <2>1, <3>5 DEF Apps!StopByHand, Apps!TypeOK, Apps!ContainersFollow, Apps!Present, Apps!Listed, Apps!Wanted, Apps!Installed
    <3>6. CASE Apps!DaemonRestart
      BY <2>1, <3>6 DEF Apps!DaemonRestart, Apps!TypeOK, Apps!Container, Apps!ContainersFollow, Apps!Present, Apps!Listed, Apps!Wanted,
         Apps!Installed
    <3> QED BY <2>3, <3>2, <3>3, <3>4, <3>5, <3>6
            DEF Apps!Next, Apps!Register, Apps!InstallFromCatalog, Apps!DeletePlugin, Apps!InstallCommand,
                Apps!TogglePlugin, Apps!Push, Apps!BuildAndInstall, Apps!DeleteLocalApp, Apps!ImportFromSource,
                Apps!UpdateImported, Apps!CommitStaged, Apps!Discard, Apps!Stage
  <2> QED BY <2>2, <2>3
<1> QED BY <1>1, <1>2, PTL DEF Apps!Spec, AppsInv

-----------------------------------------------------------------------------
(* Builds from source. *)

BuildRecord == [at : Builds!At, answer : Builds!Answer, set : Builds!Setting \cup {None},
                agreed : SUBSET Builds!Pattern, presumed : BOOLEAN]

\* A request that was approved, and not by its source, is about the endpoints that its user
\* agreed to, and nothing that needs an approval goes on without; ...
Agreed(r) ==
  /\ r.set \in Builds!Setting
  /\ r.set.approved /\ ~r.presumed => r.agreed = Builds!Endpoints(r.set)
  /\ r.at # "answered" => (r.set.required => r.set.approved)
Shown(b) == build[b].at # "idle" => Agreed(build[b])

\* ... its proxy runs only while it works, and is an approved one's; ...
Serves(b) ==
  /\ build[b].at \in {"idle", "checked", "answered"} => proxy[b] # "listening"
  /\ proxy[b] = "listening" => build[b].set.approved

\* ... and an answer is the last thing there is of it, which the image waits for.
Answered(b) ==
  /\ build[b].answer # "none" => build[b].at \in {"stop", "answered"}
  /\ image = b => build[b].answer \in {"built", "late"}

BuildsInv ==
  /\ build \in [Sandbox -> BuildRecord]
  /\ proxy \in [Sandbox -> {"none", "listening", "stopped"}]
  /\ network \in BOOLEAN
  /\ jobs \subseteq Sandbox \X {"container", "daemon"}
  /\ image \in Sandbox \cup {None}
  /\ \A j \in jobs : build[j[1]].at # "idle"
  /\ \A b \in Sandbox : Shown(b) /\ Serves(b) /\ Answered(b)

\* One step of one request: the record it has next, its proxy, and perhaps the tag.
LEMMA BuildGoes ==
  ASSUME BuildsInv, NEW b \in Sandbox, NEW r \in BuildRecord, NEW p \in {"none", "listening", "stopped"},
         build' = [build EXCEPT ![b] = r], proxy' = [proxy EXCEPT ![b] = p],
         network' \in BOOLEAN, jobs' \subseteq jobs \cup ({b} \X {"container", "daemon"}),
         r.at # "idle", Agreed(r),
         r.at \in {"checked", "answered"} => p # "listening",
         p = "listening" => r.set.approved,
         r.answer # "none" => r.at \in {"stop", "answered"},
         image' = image \/ image' = b, image' = b => r.answer \in {"built", "late"}
  PROVE  BuildsInv'
<1>1. /\ build' \in [Sandbox -> BuildRecord]
      /\ build'[b] = r /\ proxy'[b] = p
      /\ \A c \in Sandbox \ {b} : build'[c] = build[c] /\ proxy'[c] = proxy[c]
  BY DEF BuildsInv
<1>2. proxy' \in [Sandbox -> {"none", "listening", "stopped"}]
  BY DEF BuildsInv
<1>3. jobs' \subseteq Sandbox \X {"container", "daemon"} /\ image' \in Sandbox \cup {None}
  BY DEF BuildsInv
<1>4. \A j \in jobs' : build'[j[1]].at # "idle"
  BY <1>1, <1>3 DEF BuildsInv
<1>5. ASSUME NEW c \in Sandbox
      PROVE  Shown(c)' /\ Serves(c)' /\ Answered(c)'
  <2>1. CASE c = b
    BY <1>1, <2>1 DEF Shown, Agreed, Serves, Answered, Builds!Endpoints
  <2>2. CASE c # b
    <3>1. build'[c] = build[c] /\ proxy'[c] = proxy[c] /\ (image' = c => image = c)
      BY <1>1, <2>2
    <3> QED BY <3>1 DEF BuildsInv, Shown, Agreed, Serves, Answered, Builds!Endpoints
  <2> QED BY <2>1, <2>2
<1> QED BY <1>1, <1>2, <1>3, <1>4, <1>5 DEF BuildsInv

\* The record of a request that went on, or ended.
LEMMA BuildMoves ==
  ASSUME BuildsInv, NEW b \in Sandbox, NEW at \in Builds!At \ {"idle"}, NEW given \in Builds!Answer,
         build' = [build EXCEPT ![b].at = at, ![b].answer = given],
         build[b].at # "idle",
         NEW p \in {"none", "listening", "stopped"}, proxy' = [proxy EXCEPT ![b] = p],
         network' \in BOOLEAN, jobs' \subseteq jobs \cup ({b} \X {"container", "daemon"}),
         at \in {"checked", "answered"} => p # "listening",
         p = "listening" => build[b].set.approved,
         at = "answered" \/ build[b].at # "answered",
         given # "none" => at \in {"stop", "answered"},
         image' = image \/ image' = b, image' = b => given \in {"built", "late"}
  PROVE  BuildsInv'
<1> DEFINE r == [build[b] EXCEPT !.at = at, !.answer = given]
<1>1. build[b] \in BuildRecord /\ Shown(b)
  BY DEF BuildsInv
<1>2. r \in BuildRecord /\ r.at = at /\ r.answer = given /\ r.set = build[b].set
      /\ r.agreed = build[b].agreed /\ r.presumed = build[b].presumed
  BY <1>1 DEF BuildRecord
<1>3. build' = [build EXCEPT ![b] = r]
  BY DEF BuildsInv
<1> HIDE DEF r
<1>4. Agreed(r)
  BY <1>1, <1>2 DEF Shown, Agreed, Builds!Endpoints
<1> QED BY <1>2, <1>3, <1>4, BuildGoes, ZenonT(60)

\* Every action of a request, and of what Docker goes on doing.
LEMMA BuildsKeeps ==
  ASSUME Builds!BuildsAssumption, BuildsInv, [Builds!Next]_Builds!vars
  PROVE  BuildsInv'
<1> USE DEF Builds!At, Builds!Answer
<1>1. CASE UNCHANGED Builds!vars
  BY <1>1 DEF BuildsInv, Shown, Agreed, Serves, Answered, Builds!vars, Builds!Endpoints
<1>2. ASSUME NEW b \in Sandbox, NEW m \in Manifest, NEW approve \in BOOLEAN, NEW chosen \in Choice,
             Builds!RequestBuild(b, m, approve, chosen)
      PROVE  BuildsInv'
  <2> DEFINE set == Builds!Resolved(m, approve, chosen)
             refused == set.required /\ ~set.approved
             r == [at |-> IF refused THEN "answered" ELSE "checked",
                   answer |-> IF refused THEN "failed" ELSE "none",
                   set |-> set,
                   agreed |-> IF ~approve THEN {} ELSE IF chosen # {} THEN chosen ELSE m.listed,
                   presumed |-> m.approved \/ m.chosen # {}]
  <2>1. m \in Builds!Setting /\ chosen \in SUBSET Builds!Pattern
    BY DEF Builds!BuildsAssumption
  <2>2. /\ set \in Builds!Setting /\ set.listed = m.listed /\ set.approved = (m.approved \/ approve)
        /\ set.chosen = IF approve /\ chosen # {} THEN chosen ELSE m.chosen
    BY <2>1 DEF Builds!Resolved, Builds!Setting
  <2> HIDE DEF set
  <2>3. r \in BuildRecord
    BY <2>1, <2>2 DEF BuildRecord, Builds!Setting
  <2>9. Agreed(r)
    BY <2>1, <2>2 DEF Agreed, Builds!Endpoints, Builds!Setting
  <2>4. r.at \in {"checked", "answered"} /\ r.answer \in {"none", "failed"}
        /\ (r.answer # "none" => r.at = "answered")
    OBVIOUS
  <2>5. build[b].at = "idle" /\ build' = [build EXCEPT ![b] = r] /\ UNCHANGED <<proxy, network, jobs, image>>
    BY <1>2 DEF Builds!RequestBuild, set
  <2> HIDE DEF r
  <2>6. proxy[b] \in {"none", "listening", "stopped"} /\ proxy[b] # "listening" /\ image # b
        /\ build[b] \in BuildRecord
    BY <2>5 DEF BuildsInv, Serves, Answered
  <2>7. build[b].answer \in Builds!Answer /\ network \in BOOLEAN
    BY <2>6 DEF BuildRecord, BuildsInv
  <2>8. proxy' = [proxy EXCEPT ![b] = proxy[b]]
    BY <2>5 DEF BuildsInv
  <2> QED BY <2>2, <2>3, <2>9, <2>4, <2>5, <2>6, <2>7, <2>8, BuildGoes
<1>3. ASSUME NEW b \in Sandbox,
             Builds!Unsafe(b) \/ Builds!Prepare(b) \/ Builds!CommandRefused(b) \/ Builds!BuilderEnds(b)
             \/ Builds!LoadImage(b) \/ Builds!RunInDaemon(b) \/ Builds!DaemonEnds(b) \/ Builds!TimeOut(b)
             \/ Builds!StopProxy(b)
      PROVE  BuildsInv'
  <2> DEFINE given == build[b].answer
             p == proxy[b]
  <2>1. build[b] \in BuildRecord /\ network \in BOOLEAN /\ p \in {"none", "listening", "stopped"}
        /\ proxy = [proxy EXCEPT ![b] = p] /\ Answered(b) /\ Serves(b)
    BY DEF BuildsInv
  <2>11. p = "listening" => build[b].set.approved
    BY DEF BuildsInv, Serves
  <2>2. given \in Builds!Answer
    BY <2>1 DEF BuildRecord
  <2>3. \A at : build' = [build EXCEPT ![b].at = at]
                  => build' = [build EXCEPT ![b].at = at, ![b].answer = given]
    BY <2>1 DEF BuildsInv, BuildRecord
  <2> USE DEF Builds!Goes, Builds!Ends
  <2>4. CASE Builds!Unsafe(b) \/ Builds!CommandRefused(b)
    <3>1. build[b].at \in {"checked", "container"}
          /\ build' = [build EXCEPT ![b].at = "stop", ![b].answer = "failed"]
          /\ UNCHANGED <<proxy, network, jobs, image>>
      BY <2>4 DEF Builds!Unsafe, Builds!CommandRefused
    <3>2. image # b
      BY <2>1, <3>1 DEF Answered
    <3> HIDE DEF p, given
    <3> QED BY <2>1, <2>11, <3>1, <3>2, BuildMoves
  <2>5. CASE Builds!Prepare(b)
    <3>1. build[b].at = "checked" /\ given = "none" /\ image # b /\ UNCHANGED image
      BY <2>1, <2>5 DEF Builds!Prepare, Answered
    <3>2. PICK at \in {"container", "direct"} : build' = [build EXCEPT ![b].at = at]
      BY <2>5 DEF Builds!Prepare
    <3>3. PICK q \in {"none", "listening", "stopped"} :
            proxy' = [proxy EXCEPT ![b] = q] /\ (q = "listening" => build[b].set.required \/ p = "listening")
      BY <2>1, <2>5 DEF Builds!Prepare
    <3>7. q = "listening" => build[b].set.approved
      BY <2>1, <3>1, <3>3 DEF BuildsInv, Shown, Agreed, Serves
    <3>4. network' \in BOOLEAN
      BY <2>1, <2>5 DEF Builds!Prepare
    <3>5. jobs' \subseteq jobs \cup ({b} \X {"container", "daemon"})
      BY <2>5 DEF Builds!Prepare
    <3>6. build' = [build EXCEPT ![b].at = at, ![b].answer = given]
      BY <2>3, <3>2
    <3> HIDE DEF p, given
    <3> QED BY <2>2, <3>1, <3>3, <3>4, <3>5, <3>6, <3>7, BuildMoves
  <2>6. CASE Builds!BuilderEnds(b)
    <3>1. build[b].at = "container" /\ given = "none" /\ image # b /\ UNCHANGED <<proxy, network, image>>
          /\ jobs' \subseteq jobs
      BY <2>1, <2>6 DEF Builds!BuilderEnds, Answered
    <3>2. CASE \E ends \in {"failed", "built"} : build' = [build EXCEPT ![b].at = "stop", ![b].answer = ends]
      <4> HIDE DEF p, given
      <4> QED BY <2>1, <2>11, <3>1, <3>2, BuildMoves
    <3>3. CASE \E at \in {"direct", "load"} : build' = [build EXCEPT ![b].at = at]
      <4>1. PICK at \in {"direct", "load"} : build' = [build EXCEPT ![b].at = at, ![b].answer = given]
        BY <2>3, <3>3
      <4> HIDE DEF p, given
      <4> QED BY <2>1, <2>2, <2>11, <3>1, <4>1, BuildMoves
    <3> QED BY <2>6, <3>2, <3>3 DEF Builds!BuilderEnds
  <2>7. CASE Builds!LoadImage(b) \/ Builds!DaemonEnds(b)
    <3>1. build[b].at \in {"load", "daemon"} /\ image # b /\ UNCHANGED <<proxy, network>> /\ jobs' \subseteq jobs
      BY <2>1, <2>7 DEF Builds!LoadImage, Builds!DaemonEnds, Answered
    <3>2. PICK ends \in {"built", "failed"} :
            /\ build' = [build EXCEPT ![b].at = "stop", ![b].answer = ends]
            /\ image' = IF ends = "built" THEN b ELSE image
      BY <2>7 DEF Builds!LoadImage, Builds!DaemonEnds
    <3> HIDE DEF p, given
    <3> QED BY <2>1, <2>11, <3>1, <3>2, BuildMoves
  <2>8. CASE Builds!RunInDaemon(b)
    <3>1. build[b].at = "direct" /\ given = "none" /\ image # b /\ UNCHANGED <<proxy, network, image>>
          /\ jobs' \subseteq jobs \cup ({b} \X {"container", "daemon"})
      BY <2>1, <2>8 DEF Builds!RunInDaemon, Answered
    <3>2. CASE build' = [build EXCEPT ![b].at = "stop", ![b].answer = "failed"]
      <4> HIDE DEF p, given
      <4> QED BY <2>1, <2>11, <3>1, <3>2, BuildMoves
    <3>3. CASE build' = [build EXCEPT ![b].at = "daemon"]
      <4>1. PICK at \in {"daemon"} : build' = [build EXCEPT ![b].at = at, ![b].answer = given]
        BY <2>3, <3>3
      <4> HIDE DEF p, given
      <4> QED BY <2>1, <2>2, <2>11, <3>1, <4>1, BuildMoves
    <3> QED BY <2>8, <3>2, <3>3 DEF Builds!RunInDaemon
  <2>9. CASE Builds!TimeOut(b)
    <3>1. build[b].at \in {"container", "daemon"} /\ build' = [build EXCEPT ![b].at = "stop", ![b].answer = "late"]
          /\ UNCHANGED <<proxy, network, jobs, image>>
      BY <2>9 DEF Builds!TimeOut
    <3> HIDE DEF p, given
    <3> QED BY <2>1, <2>11, <3>1, BuildMoves
  <2>10. CASE Builds!StopProxy(b)
    <3>1. build[b].at = "stop" /\ build' = [build EXCEPT ![b].at = "answered"]
          /\ proxy' = [proxy EXCEPT ![b] = Builds!Stopped(b)] /\ UNCHANGED <<network, jobs, image>>
      BY <2>10 DEF Builds!StopProxy
    <3>2. Builds!Stopped(b) \in {"none", "stopped"}
      BY <2>1 DEF Builds!Stopped
    <3>3. build' = [build EXCEPT ![b].at = "answered", ![b].answer = given]
      BY <2>3, <3>1
    <3>4. image = b => given \in {"built", "late"}
      BY <2>1 DEF Answered
    <3> HIDE DEF p, given
    <3> QED BY <2>1, <2>2, <3>1, <3>2, <3>3, <3>4, BuildMoves
  <2> QED BY <1>3, <2>4, <2>5, <2>6, <2>7, <2>8, <2>9, <2>10
<1>4. ASSUME NEW j \in jobs, Builds!LeftoverEnds(j)
      PROVE  BuildsInv'
  <2>1. build[j[1]].answer = "late" /\ jobs' \subseteq jobs /\ UNCHANGED <<build, proxy, network>>
        /\ image' \in {image, j[1]} /\ j[1] \in Sandbox
    BY <1>4 DEF Builds!LeftoverEnds, BuildsInv
  <2>2. \A b \in Sandbox : Answered(b)'
    BY <2>1 DEF BuildsInv, Answered
  <2> QED BY <2>1, <2>2 DEF BuildsInv, Shown, Agreed, Serves, Builds!Endpoints
<1> QED BY <1>1, <1>2, <1>3, <1>4 DEF Builds!Next

LEMMA BuildsHold ==
  ASSUME Builds!BuildsAssumption
  PROVE  Builds!Spec => [](Builds!TypeOK /\ Builds!BuildsConfined)
<1>1. Builds!Init => BuildsInv
  <2> SUFFICES ASSUME Builds!Init
               PROVE  BuildsInv
    OBVIOUS
  <2> DEFINE r == [at |-> "idle", answer |-> "none", set |-> None, agreed |-> {}, presumed |-> FALSE]
  <2>1. build = [b \in Sandbox |-> r] /\ proxy = [b \in Sandbox |-> "none"] /\ network \in BOOLEAN
        /\ jobs = {} /\ image = None
    BY DEF Builds!Init
  <2>2. r \in BuildRecord /\ r.at = "idle" /\ r.answer = "none"
    BY DEF BuildRecord, Builds!At, Builds!Answer
  <2> HIDE DEF r
  <2>3. build \in [Sandbox -> BuildRecord] /\ \A b \in Sandbox : build[b].at = "idle" /\ build[b].answer = "none"
    BY <2>1, <2>2
  <2>4. proxy \in [Sandbox -> {"none", "listening", "stopped"}] /\ \A b \in Sandbox : proxy[b] = "none"
    BY <2>1
  <2>5. \A b \in Sandbox : Shown(b) /\ Serves(b)
    BY <2>3, <2>4 DEF Shown, Serves
  <2> QED BY <2>1, <2>3, <2>4, <2>5 DEF BuildsInv, Answered, Builds!BuildsAssumption
<1>2. BuildsInv /\ [Builds!Next]_Builds!vars => BuildsInv'
  BY BuildsKeeps
<1>3. BuildsInv => Builds!TypeOK
  BY DEF BuildsInv, BuildRecord, Shown, Agreed, Builds!TypeOK
<1>4. BuildsInv => Builds!ReachesWhatIsAgreed
  <2>1. ASSUME BuildsInv, NEW b \in Sandbox, build[b].at # "idle", Builds!Confined(build[b].set),
               NEW e \in Builds!Reach(b)
        PROVE  \E c \in Sandbox :
                 /\ proxy[c] = "listening"
                 /\ build[c].presumed \/ Builds!AgreedTo(build[c].agreed, e)
    <3>1. Builds!Mode(build[b].set) \in {"none", "isolated"} /\ build[b].set.rootless
      BY <2>1 DEF Builds!Confined, Builds!Mode
    <3>2. e \in UNION {Builds!Through(Builds!Endpoints(build[c].set)) : c \in {d \in Sandbox : proxy[d] = "listening"}}
      BY <2>1, <3>1 DEF Builds!Reach
    <3>3. PICK c \in Sandbox : proxy[c] = "listening" /\ e \in Builds!Through(Builds!Endpoints(build[c].set))
      BY <3>2
    <3>4. build[c].presumed \/ build[c].agreed = Builds!Endpoints(build[c].set)
      BY <2>1, <3>3 DEF BuildsInv, Shown, Serves, Agreed
    <3>5. Builds!LetThrough(Builds!Endpoints(build[c].set), e[1], e[2])
      BY <3>3 DEF Builds!Through
    <3>6. Builds!AgreedTo(Builds!Endpoints(build[c].set), e)
      BY <3>5 DEF Builds!LetThrough, Builds!EndpointAllowed, Builds!AgreedTo
    <3> QED BY <3>3, <3>4, <3>6
  <2> QED BY <2>1 DEF Builds!ReachesWhatIsAgreed
<1>5. BuildsInv => Builds!ProxiesStop /\ Builds!ImageEarned
  BY DEF BuildsInv, Serves, Answered, Builds!ProxiesStop, Builds!ImageEarned
<1> QED BY <1>1, <1>2, <1>3, <1>4, <1>5, PTL DEF Builds!Spec, Builds!BuildsConfined

-----------------------------------------------------------------------------
(* Updates. *)

\* An archive in the hands of an installation was opened, and if in a second of its own,
\* what it has of a document dates from since; it has all of them before packages change.
Since(r, d) ==
  \/ r.has[d] = None
  \/ r.has[d] \in r.since[d] .. config[d]
  \/ r.has[d] = Torn /\ r.since[d] < config[d]
Archived(r) ==
  /\ r.backup # None => r.backup \in archive /\ r.at \in {"archive", "run"}
  /\ \A d \in Conf : r.since[d] <= config[d] /\ (d \in partial => r.since[d] < config[d])
  /\ r.backup # None /\ r.backup \notin shared => \A d \in Conf : Since(r, d)
  /\ r.backup # None /\ r.at = "run" => \A d \in Conf : r.has[d] # None

UpdatesInv ==
  /\ Updates!TypeOK
  /\ \A d \in partial : config[d] > 0
  /\ \A t \in Thread : Archived(thread[t])

\* An installation that has no archive asks for nothing.
LEMMA NoArchive ==
  ASSUME Updates!UpdatesAssumption, UpdatesInv, NEW at \in {"idle", "archive", "run", "reboot"}
  PROVE  /\ [Updates!Idle EXCEPT !.at = at] \in Updates!Installation
         /\ Updates!Idle \in Updates!Installation
         /\ Archived([Updates!Idle EXCEPT !.at = at]) /\ Archived(Updates!Idle)
<1>1. /\ [d \in Conf |-> 0] \in [Conf -> Updates!Version]
      /\ [d \in Conf |-> None] \in [Conf -> Updates!Version \cup {None, Torn}]
  BY DEF Updates!UpdatesAssumption, Updates!Version
<1>2. \A d \in Conf : config[d] \in Nat /\ (d \in partial => 0 < config[d])
  BY DEF UpdatesInv, Updates!TypeOK, Updates!Version, Updates!UpdatesAssumption
<1> QED BY <1>1, <1>2 DEF Updates!Idle, Updates!Installation, Archived

\* A step of one installation that leaves the directory and the archives alone.
LEMMA InstallationGoes ==
  ASSUME Updates!UpdatesAssumption, UpdatesInv, NEW t \in Thread, NEW r \in Updates!Installation,
         Archived(r), Updates!Goes(t, r), pending' \subseteq Package, required' \in BOOLEAN,
         UNCHANGED <<now, config, partial, archive, shared>>
  PROVE  UpdatesInv'
<1>1. thread' \in [Thread -> Updates!Installation] /\ \A o \in Thread : Archived(thread'[o])
  BY DEF Updates!Goes, UpdatesInv, Updates!TypeOK
<1>2. \A o \in Thread : Archived(thread[o])'
  BY <1>1 DEF Archived, Since
<1> QED BY <1>1, <1>2 DEF UpdatesInv, Updates!TypeOK

LEMMA UpdatesKeeps ==
  ASSUME Updates!UpdatesAssumption, UpdatesInv, [Updates!Next]_Updates!vars
  PROVE  UpdatesInv'
<1> USE DEF Updates!directory, Updates!system
<1>1. /\ Updates!TypeOK
      /\ \A t \in Thread : thread[t] \in Updates!Installation /\ Archived(thread[t])
      /\ MaxSecond \in Nat /\ MaxVersion \in Nat
  BY DEF UpdatesInv, Updates!TypeOK, Updates!UpdatesAssumption
<1>2. CASE UNCHANGED Updates!vars
  BY <1>2 DEF Updates!vars, UpdatesInv, Updates!TypeOK, Archived, Since
<1>3. ASSUME NEW t \in Thread, Updates!Install(t)
      PROVE  UpdatesInv'
  <2> DEFINE new == [Updates!Idle EXCEPT !.at = "archive", !.backup = now, !.since = Updates!Complete]
             lost(o) == [thread[o] EXCEPT !.has = Updates!Garbled]
  <2>1. /\ thread' = [o \in Thread |-> IF o = t THEN new
                                     ELSE IF thread[o].backup = now THEN lost(o) ELSE thread[o]]
        /\ archive' = archive \cup {now}
        /\ shared' = IF now \in archive THEN shared \cup {now} ELSE shared
        /\ UNCHANGED <<now, config, partial, pending, required>>
    BY <1>3 DEF Updates!Install
  <2>2. /\ Updates!Complete \in [Conf -> Updates!Version]
        /\ \A d \in Conf : /\ Updates!Complete[d] <= config[d]
                           /\ d \in partial => Updates!Complete[d] < config[d]
    BY <1>1 DEF UpdatesInv, Updates!TypeOK, Updates!Complete, Updates!Version
  <2>3. /\ new \in Updates!Installation /\ new.backup = now /\ new.at = "archive"
        /\ new.since = Updates!Complete /\ \A d \in Conf : new.has[d] = None
    BY <1>1, <2>2, NoArchive DEF Updates!Idle, Updates!Installation, Updates!TypeOK
  <2>4. ASSUME NEW o \in Thread
        PROVE  /\ lost(o) \in Updates!Installation /\ lost(o).backup = thread[o].backup
               /\ lost(o).at = thread[o].at /\ lost(o).since = thread[o].since
               /\ \A d \in Conf : lost(o).has[d] # None
    BY <1>1 DEF Updates!Installation, Updates!Garbled, Updates!UpdatesAssumption
  <2> HIDE DEF new, lost
  <2>5. thread' \in [Thread -> Updates!Installation]
    BY <1>1, <2>1, <2>3, <2>4
  <2>7. ASSUME NEW o \in Thread
        PROVE  Archived(thread[o])'
    <3>1. CASE o = t
      <4>1. thread'[o] = new /\ now \in archive'
        BY <2>1, <3>1
      <4>2. \A d \in Conf : /\ thread'[o].since[d] <= config'[d]
                            /\ d \in partial' => thread'[o].since[d] < config'[d]
                            /\ thread'[o].has[d] = None
        <5>1. config' = config /\ partial' = partial
          BY <2>1
        <5>2. \A d \in Conf : new.has[d] = None /\ new.since[d] = Updates!Complete[d]
          BY <2>3
        <5> QED BY <2>2, <4>1, <5>1, <5>2
      <4>3. thread'[o].backup \in archive' /\ thread'[o].at = "archive"
        BY <2>3, <4>1
      <4> QED BY <4>2, <4>3 DEF Archived, Since
    <3>2. CASE o # t /\ thread[o].backup = now
      <4>1. thread'[o] = lost(o) /\ now \in Updates!Second /\ now # None
        BY <1>1, <2>1, <3>2 DEF Updates!TypeOK, Updates!UpdatesAssumption
      <4>2. now \in archive /\ now \in shared'
        BY <1>1, <2>1, <3>2, <4>1 DEF Archived
      <4> QED BY <1>1, <2>1, <2>4, <3>2, <4>1, <4>2 DEF Archived
    <3>3. CASE o # t /\ thread[o].backup # now
      <4>1. thread'[o] = thread[o] /\ shared \subseteq shared' /\ archive \subseteq archive'
        BY <2>1, <3>3
      <4> QED BY <1>1, <2>1, <4>1 DEF Archived, Since
    <3> QED BY <3>1, <3>2, <3>3
  <2>8. archive' \subseteq Updates!Second /\ shared' \subseteq Updates!Second
    BY <1>1, <2>1 DEF Updates!TypeOK
  <2> QED BY <1>1, <2>1, <2>5, <2>7, <2>8 DEF UpdatesInv, Updates!TypeOK
<1>4. ASSUME NEW t \in Thread, NEW d \in Conf, Updates!Add(t, d)
      PROVE  UpdatesInv'
  <2> DEFINE found == IF d \in partial \/ thread[t].backup \in shared THEN Torn ELSE config[d]
             new == [thread[t] EXCEPT !.has[d] = found]
  <2>1. /\ Updates!Goes(t, new) /\ thread[t].at = "archive"
        /\ UNCHANGED <<now, config, partial, pending, required, archive, shared>>
    BY <1>4 DEF Updates!Add
  <2>2. found \in Updates!Version \cup {Torn} /\ found # None
    BY <1>1 DEF Updates!TypeOK, Updates!UpdatesAssumption
  <2>3. /\ new \in Updates!Installation /\ new.at = "archive" /\ new.backup = thread[t].backup
        /\ new.since = thread[t].since
        /\ \A e \in Conf : new.has[e] = IF e = d THEN found ELSE thread[t].has[e]
    BY <1>1, <2>1, <2>2 DEF Updates!Installation
  <2>4. config[d] \in Nat /\ thread[t].since[d] \in Nat /\ thread[t].since[d] <= config[d]
    BY <1>1 DEF Updates!TypeOK, Updates!Version, Updates!Installation, Archived
  <2>5. ASSUME thread[t].backup \notin shared
        PROVE  found \in thread[t].since[d] .. config[d] \/ (found = Torn /\ thread[t].since[d] < config[d])
    BY <1>1, <2>4, <2>5 DEF Archived, Updates!TypeOK
  <2>6. Archived(new)
    BY <1>1, <2>1, <2>2, <2>3, <2>5 DEF Archived, Since
  <2> QED BY <1>1, <2>1, <2>3, <2>6, InstallationGoes DEF Updates!TypeOK
<1>5. ASSUME NEW t \in Thread, Updates!Archive(t)
      PROVE  UpdatesInv'
  <2> DEFINE new == [thread[t] EXCEPT !.at = "run"]
  <2>1. /\ Updates!Goes(t, new) /\ thread[t].at = "archive"
        /\ \A d \in Conf : thread[t].has[d] # None
        /\ UNCHANGED <<now, config, partial, pending, required, archive, shared>>
    BY <1>5 DEF Updates!Archive, Updates!Listed
  <2>2. /\ new \in Updates!Installation /\ new.at = "run" /\ new.backup = thread[t].backup
        /\ new.since = thread[t].since /\ new.has = thread[t].has
    BY <1>1 DEF Updates!Installation
  <2> HIDE DEF new
  <2>3. Archived(new)
    BY <1>1, <2>1, <2>2 DEF Archived, Since
  <2> QED BY <1>1, <2>1, <2>2, <2>3, InstallationGoes DEF Updates!TypeOK
<1>6. ASSUME NEW t \in Thread,
             Updates!ArchiveFails(t) \/ Updates!Killed(t) \/ Updates!Run(t) \/ Updates!RunFails(t)
      PROVE  UpdatesInv'
  <2>1. \E at \in {"run", "reboot"} :
          Updates!Goes(t, [Updates!Idle EXCEPT !.at = at]) \/ Updates!Goes(t, Updates!Idle)
    BY <1>6 DEF Updates!ArchiveFails, Updates!Killed, Updates!Run, Updates!RunFails
  <2>2. /\ pending' \subseteq Package /\ required' \in BOOLEAN
        /\ UNCHANGED <<now, config, partial, archive, shared>>
    BY <1>1, <1>6 DEF Updates!ArchiveFails, Updates!Killed, Updates!Run, Updates!RunFails, Updates!TypeOK
  <2>3. PICK r \in Updates!Installation : Updates!Goes(t, r) /\ Archived(r)
    BY <2>1, NoArchive
  <2> QED BY <2>2, <2>3, InstallationGoes
<1>7. CASE Updates!Reboot
  <2>1. /\ thread' = [t \in Thread |-> Updates!Idle] /\ required' = FALSE
        /\ UNCHANGED <<now, config, partial, pending, archive, shared>>
    BY <1>7 DEF Updates!Reboot
  <2>2. Updates!Idle \in Updates!Installation /\ Archived(Updates!Idle)
    BY NoArchive
  <2>3. \A t \in Thread : thread'[t] = Updates!Idle
    BY <2>1
  <2>4. \A t \in Thread : Archived(thread[t])'
    BY <2>1, <2>2, <2>3 DEF Archived, Since
  <2> QED BY <1>1, <2>1, <2>2, <2>4 DEF UpdatesInv, Updates!TypeOK
<1>8. CASE Updates!Tick \/ \E p \in Package : Updates!Appear(p)
  <2>1. /\ UNCHANGED <<config, partial, required, archive, thread, shared>>
        /\ now' \in Updates!Second /\ pending' \subseteq Package
    BY <1>1, <1>8 DEF Updates!Tick, Updates!Appear, Updates!TypeOK, Updates!Second
  <2>2. \A t \in Thread : Archived(thread[t])'
    BY <1>1, <2>1 DEF Archived, Since
  <2> QED BY <1>1, <2>1, <2>2 DEF UpdatesInv, Updates!TypeOK
<1>9. ASSUME NEW d \in Conf, Updates!Edit(d)
      PROVE  UpdatesInv'
  <2>1. /\ config' = [config EXCEPT ![d] = @ + 1] /\ partial' = partial \cup {d}
        /\ config[d] < MaxVersion
        /\ UNCHANGED <<now, pending, required, archive, thread, shared>>
    BY <1>9 DEF Updates!Edit
  <2>2. \A e \in Conf : config[e] \in Nat /\ config'[e] = IF e = d THEN config[e] + 1 ELSE config[e]
    BY <1>1, <2>1 DEF Updates!TypeOK, Updates!Version
  <2>3. config' \in [Conf -> Updates!Version]
    BY <1>1, <2>1, <2>2 DEF Updates!TypeOK, Updates!Version
  <2>4. ASSUME NEW t \in Thread
        PROVE  Archived(thread[t])'
    <3>1. \A e \in Conf : thread[t].since[e] \in Nat
      BY <1>1 DEF Updates!Installation, Updates!Version
    <3>2. \A e \in Conf : /\ thread[t].since[e] <= config'[e]
                          /\ e \in partial' => thread[t].since[e] < config'[e]
      BY <1>1, <2>1, <2>2, <3>1 DEF Archived
    <3>3. ASSUME NEW e \in Conf, Since(thread[t], e)
          PROVE  Since(thread[t], e)'
      <4>1. \A k \in thread[t].since[e] .. config[e] : k \in thread[t].since[e] .. config'[e]
        BY <2>2, <3>1
      <4> QED BY <2>1, <2>2, <3>1, <3>3, <4>1 DEF Since
    <3> QED BY <1>1, <2>1, <3>2, <3>3 DEF Archived
  <2>5. \A e \in partial' : config'[e] > 0
    BY <2>1, <2>2 DEF UpdatesInv, Updates!TypeOK
  <2>6. partial' \subseteq Conf
    BY <1>1, <2>1 DEF Updates!TypeOK
  <2> QED BY <1>1, <2>1, <2>3, <2>4, <2>5, <2>6 DEF UpdatesInv, Updates!TypeOK
<1>10. ASSUME NEW d \in partial, Updates!SaveEnds(d)
       PROVE  UpdatesInv'
  <2>1. partial' = partial \ {d} /\ UNCHANGED <<now, config, pending, required, archive, thread, shared>>
    BY <1>10 DEF Updates!SaveEnds
  <2>2. \A t \in Thread : Archived(thread[t])'
    BY <1>1, <2>1 DEF Archived, Since
  <2> QED BY <1>1, <2>1, <2>2 DEF UpdatesInv, Updates!TypeOK
<1> QED BY <1>2, <1>3, <1>4, <1>5, <1>6, <1>7, <1>8, <1>9, <1>10 DEF Updates!Next

LEMMA UpdatesHold ==
  ASSUME Updates!UpdatesAssumption
  PROVE  Updates!Spec => []UpdatesInv
<1>1. Updates!Init => UpdatesInv
  <2> SUFFICES ASSUME Updates!Init
               PROVE  UpdatesInv
    OBVIOUS
  <2>1. /\ now = 0 /\ config = [d \in Conf |-> 0] /\ partial = {} /\ pending = Package
        /\ required = FALSE /\ archive = {} /\ shared = {}
        /\ thread = [t \in Thread |-> Updates!Idle] /\ MaxSecond \in Nat /\ MaxVersion \in Nat
    BY DEF Updates!Init, Updates!UpdatesAssumption
  <2>2. Updates!Idle \in Updates!Installation
    <3>1. /\ [d \in Conf |-> 0] \in [Conf -> Updates!Version]
          /\ [d \in Conf |-> None] \in [Conf -> Updates!Version \cup {None, Torn}]
      BY <2>1 DEF Updates!Version
    <3> QED BY <3>1 DEF Updates!Idle, Updates!Installation
  <2>3. /\ Updates!Idle.backup = None /\ Updates!Idle.since = [d \in Conf |-> 0]
    BY DEF Updates!Idle
  <2>4. \A t \in Thread : Archived(thread[t])
    BY <2>1, <2>3 DEF Archived
  <2>5. /\ config \in [Conf -> Updates!Version] /\ now \in Updates!Second
        /\ thread \in [Thread -> Updates!Installation]
    BY <2>1, <2>2 DEF Updates!Second, Updates!Version
  <2>6. Updates!TypeOK
    BY <2>1, <2>5 DEF Updates!TypeOK
  <2> QED BY <2>1, <2>4, <2>6 DEF UpdatesInv
<1>2. UpdatesInv /\ [Updates!Next]_Updates!vars => UpdatesInv'
  BY UpdatesKeeps
<1> QED BY <1>1, <1>2, PTL DEF Updates!Spec

-----------------------------------------------------------------------------
(* Backup. *)

DaemonRecord == [at : {"idle", "backup", "restore"}, left : SUBSET Backup!Entry,
                 open : Backup!Entry \cup {None}, tmp : Backup!Archive]
BeforeRecord == [entries : Backup!Directory, archive : Backup!Archive]

\* What an entry is once it has been restored from archive a, or is in it no more.
Restored(a, e) == IF a.entries[e] # Absent THEN a.entries[e] ELSE before.entries[e]

\* Midway through a restore: what is left to copy is in the archive and untouched but for
\* the one being replaced; what is not is as the archive, or as it was.
Midway ==
  daemon.at = "restore" =>
    /\ answer = "none" /\ before.archive = daemon.tmp /\ Backup!Verified(daemon.tmp)
    /\ daemon.left \subseteq Backup!Present(daemon.tmp.entries)
    /\ \A e \in Backup!Entry \ saved : e # daemon.open =>
         entries[e] = IF e \in daemon.left THEN before.entries[e] ELSE Restored(daemon.tmp, e)
    /\ daemon.open # None =>
         daemon.open \in saved \/ entries[daemon.open] \in {Absent, Torn}

BackupInv ==
  /\ Backup!TypeOK
  /\ daemon \in DaemonRecord /\ before \in BeforeRecord
  /\ writing # None => version < MaxVersion
  /\ daemon.open # None => daemon.at = "restore" /\ daemon.open \in daemon.left
  /\ Midway
  /\ Backup!RestoreAnswersTruly

LEMMA IdleDaemon ==
  /\ Backup!Idle \in DaemonRecord /\ Backup!Idle.at = "idle" /\ Backup!Idle.open = None
  /\ Backup!Nothing \in Backup!Archive
  /\ \A e \in Backup!Entry : Backup!Nothing.entries[e] = Absent /\ Backup!Nothing.listed[e] = Absent
<1>1. Backup!Empty \in Backup!Directory /\ \A e \in Backup!Entry : Backup!Empty[e] = Absent
  BY DEF Backup!Empty, Backup!Directory, Backup!Content
<1>2. Backup!Nothing \in Backup!Archive
      /\ Backup!Nothing.entries = Backup!Empty /\ Backup!Nothing.listed = Backup!Empty
  BY <1>1 DEF Backup!Nothing, Backup!Archive
<1>3. Backup!Idle \in DaemonRecord /\ Backup!Idle.at = "idle" /\ Backup!Idle.open = None
  BY <1>2 DEF Backup!Idle, DaemonRecord
<1> QED BY <1>1, <1>2, <1>3

\* An archive that is verified says one thing of an entry, and restoring it does that.
LEMMA VerifiedAgrees ==
  ASSUME NEW a \in Backup!Archive, Backup!Verified(a), NEW e \in Backup!Entry
  PROVE  Restored(a, e) = IF a.listed[e] # Absent THEN a.listed[e]
                          ELSE IF a.entries[e] # Absent THEN a.entries[e]
                          ELSE before.entries[e]
BY DEF Backup!Verified, Backup!Present, Restored

\* The daemon ends what it was at: the entries stay, and only its answer is to be right.
LEMMA DaemonEnds ==
  ASSUME Backup!BackupAssumption, BackupInv, daemon' = Backup!Idle,
         UNCHANGED <<entries, version, writing, before, saved>>,
         archive' = None \/ archive' \in Backup!Archive,
         \/ answer' = answer /\ daemon.at # "restore"
         \/ answer' = "failed" /\ daemon.at = "restore"
         \/ answer' = "true" /\ daemon.at = "restore" /\ daemon.left = {}
  PROVE  BackupInv'
<1>1. daemon' \in DaemonRecord /\ daemon'.at = "idle" /\ daemon'.open = None
  BY IdleDaemon
<1>2. Backup!TypeOK'
  BY <1>1 DEF BackupInv, Backup!TypeOK, DaemonRecord
<1>3. Backup!RestoreAnswersTruly'
  <2>1. CASE answer' = answer
    BY <2>1 DEF BackupInv, Backup!RestoreAnswersTruly, Backup!Outcome
  <2>3. CASE answer' = "failed" /\ daemon.at = "restore"
    <3>1. /\ before.archive = daemon.tmp /\ Backup!Verified(daemon.tmp) /\ daemon.tmp \in Backup!Archive
          /\ daemon.open \in Backup!Entry \cup {None}
          /\ \A e \in Backup!Entry \ (saved \cup {daemon.open}) :
               entries[e] \in {before.entries[e], Restored(daemon.tmp, e)}
      BY <2>3 DEF BackupInv, Midway, DaemonRecord
    <3>2. \A e \in Backup!Entry : Restored(daemon.tmp, e) = Backup!Outcome(e)
      BY <3>1, VerifiedAgrees DEF Backup!Outcome
    <3>3. \A e \in Backup!Entry : Backup!Outcome(e)' = Backup!Outcome(e)
      BY DEF Backup!Outcome
    <3> QED BY <2>3, <3>1, <3>2, <3>3 DEF Backup!RestoreAnswersTruly
  <2>2. CASE answer' = "true" /\ daemon.at = "restore" /\ daemon.left = {}
    <3>1. /\ before.archive = daemon.tmp /\ Backup!Verified(daemon.tmp) /\ daemon.tmp \in Backup!Archive
          /\ \A e \in Backup!Entry \ saved : entries[e] = Restored(daemon.tmp, e)
      BY <2>2 DEF BackupInv, Midway, DaemonRecord, Backup!BackupAssumption, Backup!Entry
    <3> QED BY <2>2, <3>1, VerifiedAgrees DEF Backup!RestoreAnswersTruly, Backup!Outcome
  <2> QED BY <2>1, <2>2, <2>3
<1> QED BY <1>1, <1>2, <1>3 DEF BackupInv, Midway

\* Somebody else writes one entry.
LEMMA OthersWrite ==
  ASSUME BackupInv, NEW e \in Backup!Entry, NEW c \in Backup!Content,
         entries' = [entries EXCEPT ![e] = c], saved' = saved \cup {e},
         version' \in 0 .. MaxVersion, writing' \in Plain \cup {None},
         writing' # None => version' < MaxVersion,
         UNCHANGED <<archive, daemon, answer, before>>
  PROVE  BackupInv'
<1>1. entries \in Backup!Directory
  BY DEF BackupInv, Backup!TypeOK
<1>2. entries' \in Backup!Directory /\ \A x \in Backup!Entry \ {e} : entries'[x] = entries[x]
  BY <1>1 DEF Backup!Directory
<1>3. Backup!TypeOK'
  BY <1>2 DEF BackupInv, Backup!TypeOK
<1>4. daemon.open # None => daemon.open \in Backup!Entry
  BY DEF BackupInv, DaemonRecord
<1>5. Midway'
  BY <1>2, <1>4 DEF BackupInv, Midway, Restored, Backup!Verified, Backup!Present
<1>6. Backup!RestoreAnswersTruly'
  BY <1>2 DEF BackupInv, Backup!RestoreAnswersTruly, Backup!Outcome
<1> QED BY <1>3, <1>5, <1>6 DEF BackupInv

\* Each step of a backup and of a restore, and those of others between them.
LEMMA BackupKeeps ==
  ASSUME Backup!BackupAssumption, BackupInv, [Backup!Next]_Backup!vars
  PROVE  BackupInv'
<1>0. /\ Backup!TypeOK /\ daemon \in DaemonRecord /\ before \in BeforeRecord
      /\ entries \in Backup!Directory
      /\ archive = None \/ archive \in Backup!Archive
      /\ None \notin Backup!Entry
  BY DEF BackupInv, Backup!TypeOK, Backup!BackupAssumption, Backup!Entry
<1>1. CASE UNCHANGED Backup!vars
  BY <1>1 DEF BackupInv, Backup!vars, Backup!TypeOK, Midway, Restored, Backup!RestoreAnswersTruly, Backup!Outcome,
              Backup!Verified, Backup!Present
<1>2. CASE Backup!BeginBackup
  <2> DEFINE d == [Backup!Idle EXCEPT !.at = "backup", !.left = Backup!Present(entries)]
  <2>1. daemon' = d /\ UNCHANGED <<entries, version, writing, archive, answer, before, saved>>
    BY <1>2 DEF Backup!BeginBackup
  <2>2. d \in DaemonRecord /\ d.at = "backup" /\ d.open = None
    BY IdleDaemon DEF DaemonRecord, Backup!Present
  <2> HIDE DEF d
  <2>3. Backup!TypeOK'
    BY <1>0, <2>1, <2>2 DEF Backup!TypeOK, DaemonRecord
  <2> QED BY <2>1, <2>2, <2>3 DEF BackupInv, Midway, Backup!RestoreAnswersTruly, Backup!Outcome
<1>3. ASSUME NEW e \in Backup!Entry, Backup!CopyOut(e)
      PROVE  BackupInv'
  <2>1. daemon.at = "backup" /\ UNCHANGED <<entries, version, writing, archive, answer, before, saved>>
    BY <1>3 DEF Backup!CopyOut
  <2>2. CASE daemon' = Backup!Idle
    BY <1>0, <2>1, <2>2, DaemonEnds
  <2>3. CASE daemon' = [daemon EXCEPT !.left = @ \ {e}, !.tmp.entries[e] = entries[e]]
    <3>1. entries[e] \in Backup!Content /\ daemon.tmp \in Backup!Archive
      BY <1>0 DEF Backup!Directory, DaemonRecord
    <3>2. [daemon.tmp EXCEPT !.entries[e] = entries[e]] \in Backup!Archive
      BY <3>1 DEF Backup!Archive, Backup!Directory
    <3>3. daemon' \in DaemonRecord /\ daemon'.at = daemon.at /\ daemon'.open = daemon.open
      BY <1>0, <2>3, <3>2 DEF DaemonRecord
    <3>4. daemon.open = None
      BY <2>1 DEF BackupInv
    <3>5. Backup!TypeOK'
      BY <1>0, <2>1, <3>3 DEF Backup!TypeOK, DaemonRecord
    <3> QED BY <2>1, <3>3, <3>4, <3>5 DEF BackupInv, Midway, Backup!RestoreAnswersTruly, Backup!Outcome
  <2> QED BY <1>3, <2>2, <2>3 DEF Backup!CopyOut
<1>4. CASE Backup!Pack \/ Backup!PackFails
  <2>1. daemon.at = "backup" /\ daemon' = Backup!Idle
        /\ UNCHANGED <<entries, version, writing, answer, before, saved>>
    BY <1>4 DEF Backup!Pack, Backup!PackFails
  <2>2. [daemon.tmp EXCEPT !.listed = daemon.tmp.entries] \in Backup!Archive
    BY <1>0 DEF DaemonRecord, Backup!Archive
  <2>3. archive' = None \/ archive' \in Backup!Archive
    BY <1>0, <1>4, <2>2 DEF Backup!Pack, Backup!PackFails
  <2> QED BY <2>1, <2>3, DaemonEnds
<1>5. CASE Backup!BringArchive
  <2>1. archive \in Backup!Archive /\ UNCHANGED <<entries, version, writing, daemon, answer, before, saved>>
    BY <1>0, <1>5 DEF Backup!BringArchive
  <2>2. [archive EXCEPT !.known = FALSE] \in Backup!Archive
    BY <2>1 DEF Backup!Archive
  <2>3. \A e \in Backup!Entry, c \in Backup!Content : [archive EXCEPT !.entries[e] = c] \in Backup!Archive
    BY <2>1 DEF Backup!Archive, Backup!Directory
  <2>4. archive' \in Backup!Archive
    BY <1>5, <2>2, <2>3 DEF Backup!BringArchive
  <2> QED BY <1>0, <2>1, <2>4 DEF BackupInv, Backup!TypeOK, Midway, Restored, Backup!RestoreAnswersTruly, Backup!Outcome,
                                 Backup!Verified, Backup!Present
<1>6. CASE Backup!Refuse
  <2> DEFINE b == [entries |-> entries, archive |-> Backup!Nothing]
  <2>1. daemon.at = "idle" /\ before' = b /\ answer' = "refused" /\ saved' = {}
        /\ UNCHANGED <<entries, version, writing, archive, daemon>>
    BY <1>6 DEF Backup!Refuse
  <2>2. b \in BeforeRecord /\ b.entries = entries /\ b.archive = Backup!Nothing
    BY <1>0, IdleDaemon DEF BeforeRecord
  <2> HIDE DEF b
  <2>3. Backup!RestoreAnswersTruly'
    BY <2>1, <2>2, IdleDaemon DEF Backup!RestoreAnswersTruly, Backup!Outcome
  <2>4. Backup!TypeOK'
    BY <1>0, <2>1, <2>2 DEF Backup!TypeOK, BeforeRecord
  <2> QED BY <2>1, <2>2, <2>3, <2>4 DEF BackupInv, Midway
<1>7. CASE Backup!BeginRestore
  <2> DEFINE b == [entries |-> entries, archive |-> archive]
             d == [at |-> "restore", left |-> Backup!Present(archive.entries), open |-> None, tmp |-> archive]
  <2>1. archive \in Backup!Archive /\ Backup!Verified(archive) /\ before' = b /\ daemon' = d
        /\ answer' = "none" /\ saved' = {} /\ UNCHANGED <<entries, version, writing, archive>>
    BY <1>0, <1>7 DEF Backup!BeginRestore
  <2>2. b \in BeforeRecord /\ b.entries = entries /\ b.archive = archive
    BY <1>0, <2>1 DEF BeforeRecord
  <2>3. /\ d \in DaemonRecord /\ d.at = "restore" /\ d.open = None /\ d.tmp = archive
        /\ d.left = Backup!Present(archive.entries)
    BY <2>1 DEF DaemonRecord, Backup!Present
  <2> HIDE DEF b, d
  <2>4. Midway'
    BY <2>1, <2>2, <2>3 DEF Midway, Restored, Backup!Verified, Backup!Present
  <2>5. Backup!TypeOK'
    BY <1>0, <2>1, <2>2, <2>3 DEF Backup!TypeOK, BeforeRecord, DaemonRecord
  <2> QED BY <2>1, <2>2, <2>3, <2>4, <2>5 DEF BackupInv, Backup!RestoreAnswersTruly, Backup!Outcome
<1>8. ASSUME NEW e \in Backup!Entry, Backup!Replace(e)
      PROVE  BackupInv'
  <2> DEFINE c == IF e \in Tree THEN Absent ELSE Torn
  <2>1. /\ daemon.at = "restore" /\ daemon.open = None /\ e \in daemon.left
        /\ entries' = [entries EXCEPT ![e] = c] /\ daemon' = [daemon EXCEPT !.open = e]
        /\ UNCHANGED <<version, writing, archive, answer, before, saved>>
    BY <1>8 DEF Backup!Replace
  <2>2. c \in {Absent, Torn} /\ c \in Backup!Content
    BY DEF Backup!Content
  <2> HIDE DEF c
  <2>3. entries' \in Backup!Directory /\ entries'[e] = c /\ \A x \in Backup!Entry \ {e} : entries'[x] = entries[x]
    BY <1>0, <2>1, <2>2 DEF Backup!Directory
  <2>4. daemon' \in DaemonRecord /\ daemon'.at = "restore" /\ daemon'.open = e
        /\ daemon'.left = daemon.left /\ daemon'.tmp = daemon.tmp
    BY <1>0, <2>1 DEF DaemonRecord
  <2>5. Midway'
    BY <1>0, <2>1, <2>2, <2>3, <2>4 DEF BackupInv, Midway, Restored, Backup!Verified, Backup!Present
  <2>6. Backup!TypeOK'
    BY <1>0, <2>1, <2>3, <2>4 DEF Backup!TypeOK, DaemonRecord
  <2>7. answer' = "none"
    BY <2>1 DEF BackupInv, Midway
  <2> QED BY <2>1, <2>4, <2>5, <2>6, <2>7 DEF BackupInv, Backup!RestoreAnswersTruly, Backup!Outcome
<1>9. CASE Backup!CopyIn
  <2> DEFINE e == daemon.open
             c == daemon.tmp.entries[e]
  <2>1. /\ e # None /\ daemon' = [daemon EXCEPT !.open = None, !.left = @ \ {e}]
        /\ UNCHANGED <<version, writing, archive, answer, before, saved>>
        /\ daemon.at = "restore" /\ e \in daemon.left
    BY <1>9 DEF Backup!CopyIn, BackupInv
  <2>2. PICK w \in {c, Torn} : entries' = [entries EXCEPT ![e] = w]
                               /\ (entries[e] \in {Absent, Torn} => w = c)
    BY <1>9 DEF Backup!CopyIn
  <2>3. e \in Backup!Entry /\ daemon.tmp \in Backup!Archive /\ c \in Backup!Content
    BY <1>0, <2>1 DEF DaemonRecord, Backup!Archive, Backup!Directory
  <2>4. e \notin saved => w = c
    BY <2>1, <2>2 DEF BackupInv, Midway
  <2>5. c # Absent
    BY <2>1, <2>3 DEF BackupInv, Midway, Backup!Present
  <2>6. w \in Backup!Content
    BY <2>2, <2>3 DEF Backup!Content
  <2>7. entries' \in Backup!Directory /\ entries'[e] = w /\ \A x \in Backup!Entry \ {e} : entries'[x] = entries[x]
    BY <1>0, <2>2, <2>3, <2>6 DEF Backup!Directory
  <2>8. /\ daemon' \in DaemonRecord /\ daemon'.at = "restore" /\ daemon'.open = None
        /\ daemon'.left = daemon.left \ {e} /\ daemon'.tmp = daemon.tmp
    BY <1>0, <2>1 DEF DaemonRecord
  <2>9. c = daemon.tmp.entries[e]
    OBVIOUS
  <2> HIDE DEF e, c
  <2>10. Midway'
    BY <1>0, <2>1, <2>3, <2>4, <2>5, <2>7, <2>8, <2>9
    DEF BackupInv, Midway, Restored, Backup!Verified, Backup!Present, e
  <2>11. Backup!TypeOK'
    BY <1>0, <2>1, <2>7, <2>8 DEF Backup!TypeOK, DaemonRecord
  <2>12. answer' = "none"
    BY <2>1 DEF BackupInv, Midway
  <2> QED BY <2>1, <2>8, <2>10, <2>11, <2>12 DEF BackupInv, Backup!RestoreAnswersTruly, Backup!Outcome
<1>10. CASE Backup!CopyFails \/ Backup!EndRestore \/ Backup!DaemonDies
  BY <1>0, <1>10, DaemonEnds DEF Backup!CopyFails, Backup!EndRestore, Backup!DaemonDies
<1>11. ASSUME NEW e \in Backup!Entry, Backup!Open(e)
       PROVE  BackupInv'
  <2>1. Torn \in Backup!Content /\ version \in 0 .. MaxVersion
    BY <1>0 DEF Backup!Content, Backup!TypeOK
  <2> QED BY <1>11, <2>1, OthersWrite DEF Backup!Open
<1>12. CASE Backup!Close
  <2>1. writing \in Backup!Entry /\ version < MaxVersion /\ version \in 0 .. MaxVersion /\ MaxVersion \in Nat
    BY <1>0, <1>12 DEF Backup!Close, BackupInv, Backup!TypeOK, Backup!Entry, Backup!BackupAssumption
  <2>2. PICK w \in {version + 1, Torn} : entries' = [entries EXCEPT ![writing] = w]
    BY <1>12 DEF Backup!Close
  <2>3. w \in Backup!Content
    BY <2>1, <2>2 DEF Backup!Content
  <2>4. version' \in 0 .. MaxVersion
    BY <1>12, <2>1 DEF Backup!Close
  <2> QED BY <1>12, <2>1, <2>2, <2>3, <2>4, OthersWrite DEF Backup!Close
<1>13. ASSUME NEW e \in Backup!Entry, Backup!Put(e)
       PROVE  BackupInv'
  <2> DEFINE c == version + 1
  <2>1. c \in Backup!Content /\ c \in 0 .. MaxVersion
    BY <1>0, <1>13 DEF Backup!Put, Backup!Content, Backup!TypeOK, Backup!BackupAssumption
  <2>2. writing = None /\ entries' = [entries EXCEPT ![e] = c] /\ version' = c /\ saved' = saved \cup {e}
        /\ UNCHANGED <<writing, archive, daemon, answer, before>>
    BY <1>13 DEF Backup!Put
  <2> HIDE DEF c
  <2> QED BY <2>1, <2>2, OthersWrite
<1> QED BY <1>1, <1>2, <1>3, <1>4, <1>5, <1>6, <1>7, <1>8, <1>9, <1>10, <1>11, <1>12, <1>13 DEF Backup!Next

LEMMA BackupHolds ==
  ASSUME Backup!BackupAssumption
  PROVE  Backup!Spec => [](Backup!TypeOK /\ Backup!RestoreAnswersTruly)
<1>1. Backup!Init => BackupInv
  <2> SUFFICES ASSUME Backup!Init
               PROVE  BackupInv
    OBVIOUS
  <2> DEFINE b == [entries |-> entries, archive |-> Backup!Nothing]
  <2>1. /\ entries \in [Backup!Entry -> {0, Absent}] /\ before = b /\ version = 0 /\ writing = None
        /\ archive = None /\ daemon = Backup!Idle /\ answer = "none" /\ saved = {} /\ MaxVersion \in Nat
    BY DEF Backup!Init, Backup!BackupAssumption
  <2>2. {0, Absent} \subseteq Backup!Content
    BY <2>1 DEF Backup!Content
  <2>3. entries \in Backup!Directory
    BY <2>1, <2>2 DEF Backup!Directory
  <2>4. b \in BeforeRecord
    BY <2>3, IdleDaemon DEF BeforeRecord
  <2> HIDE DEF b
  <2>5. version \in 0 .. MaxVersion
    BY <2>1
  <2>6. daemon \in DaemonRecord /\ daemon.at = "idle" /\ daemon.open = None
    BY <2>1, IdleDaemon
  <2>7. Backup!TypeOK
    <3>1. writing \in Plain \cup {None} /\ archive = None /\ saved \subseteq Backup!Entry
          /\ answer \in {"none", "true", "refused", "failed"}
      BY <2>1
    <3>2. /\ daemon.at \in {"idle", "backup", "restore"} /\ daemon.left \subseteq Backup!Entry
          /\ daemon.open \in Backup!Entry \cup {None} /\ daemon.tmp \in Backup!Archive
      BY <2>6 DEF DaemonRecord
    <3>3. before.entries \in Backup!Directory /\ before.archive \in Backup!Archive
      BY <2>1, <2>4 DEF BeforeRecord
    <3> QED BY <2>3, <2>5, <3>1, <3>2, <3>3 DEF Backup!TypeOK
  <2> QED BY <2>1, <2>4, <2>6, <2>7 DEF BackupInv, Midway, Backup!RestoreAnswersTruly
<1>2. BackupInv /\ [Backup!Next]_Backup!vars => BackupInv'
  BY BackupKeeps
<1>3. BackupInv => Backup!TypeOK /\ Backup!RestoreAnswersTruly
  BY DEF BackupInv
<1> QED BY <1>1, <1>2, <1>3, PTL DEF Backup!Spec

-----------------------------------------------------------------------------
(* Alerting. *)

EvaluationRecord == [at : Alerting!Step, left : Seq(Alerting!Rule), seen : SUBSET Alerting!Rule,
                     resolving : SUBSET Alerting!Rule]
Evaluating == {"query", "check", "insert", "dispatch"}

\* Rules that have an alert nothing speaks against; excuses are the alerts something does.
Standing(excuses) == {r \in Alerting!Rule : alerts[r] # "none" /\ r \notin excuses}

\* What an evaluation has yet to see is ahead of it, and it resolves nothing that stands.
Watches(t, excuses) ==
  /\ t.at \in Evaluating => t.left # <<>>
  /\ t.at \in {"insert", "dispatch"} => Head(t.left) \in t.seen
  /\ \A r \in Standing(excuses) :
       /\ t.at \in Evaluating => r \in t.seen \/ \E i \in DOMAIN t.left : t.left[i] = r
       /\ r \notin t.resolving

AlertingInv ==
  /\ over \subseteq Alerting!Rule /\ excused \subseteq Alerting!Rule
  /\ alerts \in [Alerting!Rule -> {"none", "firing", "acknowledged"}]
  /\ thread \in [Evaluation -> EvaluationRecord]
  /\ Standing(excused) \subseteq over
  /\ \A e \in Evaluation : Watches(thread[e], excused)

\* An evaluation that is done with a rule goes on to the next one, or to what it resolves.
LEMMA AfterWatches ==
  ASSUME NEW t \in EvaluationRecord, t.left # <<>>, NEW seen \in SUBSET Alerting!Rule,
         NEW excuses \in SUBSET Alerting!Rule,
         \A r \in Standing(excuses) :
           r \in seen \/ (r # Head(t.left) /\ \E i \in DOMAIN t.left : t.left[i] = r),
         \A r \in Standing(excuses) : r \notin t.resolving
  PROVE  Alerting!After(t, seen) \in EvaluationRecord /\ Watches(Alerting!After(t, seen), excuses)
<1> DEFINE rest == Tail(t.left)
<1>1. /\ t.left \in Seq(Alerting!Rule) /\ rest \in Seq(Alerting!Rule)
      /\ \A i \in DOMAIN t.left : i # 1 => i - 1 \in DOMAIN rest /\ rest[i - 1] = t.left[i]
      /\ Head(t.left) = t.left[1]
  BY DEF EvaluationRecord
<1>2. \A r \in Standing(excuses) : r \in seen \/ \E i \in DOMAIN rest : rest[i] = r
  <2> SUFFICES ASSUME NEW r \in Standing(excuses), r \notin seen
               PROVE  \E i \in DOMAIN rest : rest[i] = r
    OBVIOUS
  <2>1. PICK i \in DOMAIN t.left : t.left[i] = r /\ r # Head(t.left)
    OBVIOUS
  <2>2. i - 1 \in DOMAIN rest /\ rest[i - 1] = r
    BY <1>1, <2>1
  <2> QED BY <2>2
<1> HIDE DEF rest
<1>3. CASE rest # <<>>
  <2> DEFINE next == [t EXCEPT !.at = "query", !.left = rest, !.seen = seen]
  <2>1. next \in EvaluationRecord
    BY <1>1 DEF EvaluationRecord, Alerting!Step
  <2>2. next.at = "query" /\ next.left = rest /\ next.seen = seen /\ next.resolving = t.resolving
    BY DEF EvaluationRecord
  <2>3. Alerting!After(t, seen) = next
    BY <1>3 DEF Alerting!After, rest
  <2> HIDE DEF next
  <2> QED BY <1>2, <1>3, <2>1, <2>2, <2>3 DEF Watches
<1>4. CASE rest = <<>>
  <2> DEFINE next == [at |-> "resolve", left |-> <<>>, seen |-> {}, resolving |-> Alerting!Active \ seen]
  <2>1. next \in EvaluationRecord /\ next.at = "resolve" /\ next.resolving = Alerting!Active \ seen
    BY DEF EvaluationRecord, Alerting!Step, Alerting!Active
  <2>2. Alerting!After(t, seen) = next
    BY <1>4 DEF Alerting!After, rest
  <2>3. \A r \in Standing(excuses) : r \in seen
    BY <1>1, <1>2, <1>4
  <2> HIDE DEF next
  <2> QED BY <2>1, <2>2, <2>3 DEF Watches, Evaluating
<1> QED BY <1>3, <1>4

\* Of the others, an evaluation keeps what it watches while nothing new stands.
LEMMA WatchingKept ==
  ASSUME AlertingInv, NEW e \in Evaluation, NEW r \in EvaluationRecord, Alerting!Goes(e, r),
         Watches(r, excused)', over' \subseteq Alerting!Rule, excused' \subseteq Alerting!Rule,
         alerts' \in [Alerting!Rule -> {"none", "firing", "acknowledged"}],
         Standing(excused)' \subseteq Standing(excused) \cap over'
  PROVE  AlertingInv'
<1>1. thread' \in [Evaluation -> EvaluationRecord] /\ thread'[e] = r
      /\ \A d \in Evaluation \ {e} : thread'[d] = thread[d]
  BY DEF AlertingInv, Alerting!Goes
<1>2. ASSUME NEW d \in Evaluation
      PROVE  Watches(thread[d], excused)'
  <2>1. CASE d = e
    BY <1>1, <2>1 DEF Watches
  <2>2. CASE d # e
    <3>1. Watches(thread[d], excused) /\ thread'[d] = thread[d]
      BY <1>1, <2>2 DEF AlertingInv
    <3> QED BY <3>1 DEF Watches
  <2> QED BY <2>1, <2>2
<1> QED BY <1>1, <1>2 DEF AlertingInv

LEMMA AlertingKeeps ==
  ASSUME Alerting!AlertingAssumption, AlertingInv, [Alerting!Next]_Alerting!vars
  PROVE  AlertingInv'
<1>0. /\ over \subseteq Alerting!Rule /\ excused \subseteq Alerting!Rule
      /\ alerts \in [Alerting!Rule -> {"none", "firing", "acknowledged"}]
      /\ thread \in [Evaluation -> EvaluationRecord]
      /\ Standing(excused) \subseteq over
      /\ \A e \in Evaluation : Watches(thread[e], excused)
      /\ AlertRules \in Seq(Alerting!Rule) \ {<<>>}
  BY DEF AlertingInv, Alerting!AlertingAssumption
<1> USE DEF Alerting!At
<1>1. CASE UNCHANGED Alerting!vars
  BY <1>0, <1>1 DEF AlertingInv, Alerting!vars, Watches, Standing
<1>2. ASSUME NEW e \in Evaluation, Alerting!Begin(e)
      PROVE  AlertingInv'
  <2> DEFINE r == [Alerting!Idle EXCEPT !.at = "query", !.left = AlertRules]
  <2>1. Alerting!Goes(e, r) /\ UNCHANGED <<over, alerts, told, excused>>
    BY <1>2 DEF Alerting!Begin
  <2>2. r \in EvaluationRecord /\ r.at = "query" /\ r.left = AlertRules /\ r.resolving = {}
    BY <1>0 DEF Alerting!Idle, EvaluationRecord, Alerting!Step
  <2> HIDE DEF r
  <2>3. \A x \in Alerting!Rule : \E i \in DOMAIN AlertRules : AlertRules[i] = x
    BY DEF Alerting!Rule
  <2>4. Watches(r, excused)'
    BY <1>0, <2>1, <2>2, <2>3 DEF Watches, Standing
  <2>5. Standing(excused)' = Standing(excused)
    BY <2>1 DEF Standing
  <2> QED BY <1>0, <2>1, <2>2, <2>4, <2>5, WatchingKept
<1>3. ASSUME NEW e \in Evaluation, thread[e].at \in Evaluating
      PROVE  /\ thread[e] \in EvaluationRecord /\ thread[e].left # <<>>
             /\ thread[e].seen \in SUBSET Alerting!Rule /\ Head(thread[e].left) \in Alerting!Rule
             /\ \A r \in Standing(excused) :
                  /\ r \in thread[e].seen \/ \E i \in DOMAIN thread[e].left : thread[e].left[i] = r
                  /\ r \notin thread[e].resolving
  <2>1. thread[e] \in EvaluationRecord /\ Watches(thread[e], excused)
    BY <1>0
  <2> QED BY <1>3, <2>1 DEF Watches, EvaluationRecord
<1>4. ASSUME NEW e \in Evaluation, NEW seen \in SUBSET Alerting!Rule, NEW ex \in SUBSET Alerting!Rule,
             thread[e].at \in Evaluating, thread[e].seen \subseteq seen, excused \subseteq ex,
             Head(thread[e].left) \in seen \/ Head(thread[e].left) \notin Standing(ex),
             Alerting!Goes(e, Alerting!After(thread[e], seen)), UNCHANGED <<over, alerts>>, excused' = ex
      PROVE  AlertingInv'
  <2> DEFINE t == thread[e]
             r == Alerting!After(t, seen)
  <2>1. Standing(ex) \subseteq Standing(excused)
    BY <1>4 DEF Standing
  <2>2. r \in EvaluationRecord /\ Watches(r, ex)
    BY <1>3, <1>4, <2>1, AfterWatches
  <2>4. Alerting!Goes(e, r) /\ excused' = ex
    BY <1>4
  <2> HIDE DEF r, t
  <2>5. Standing(excused)' = Standing(ex)
    BY <1>4 DEF Standing
  <2>6. thread' \in [Evaluation -> EvaluationRecord] /\ thread'[e] = r
        /\ \A d \in Evaluation \ {e} : thread'[d] = thread[d]
    BY <1>0, <2>2, <2>4 DEF Alerting!Goes
  <2>7. ASSUME NEW d \in Evaluation
        PROVE  Watches(thread[d], excused)'
    <3>1. Watches(thread'[d], ex)
      BY <1>0, <2>1, <2>2, <2>6 DEF Watches
    <3> QED BY <2>5, <3>1 DEF Watches
  <2> QED BY <1>0, <1>4, <2>1, <2>5, <2>6, <2>7 DEF AlertingInv

<1>5. ASSUME NEW e \in Evaluation, NEW r \in EvaluationRecord, thread[e].at \in Evaluating,
             Alerting!Goes(e, r), UNCHANGED <<over, alerts, excused>>,
             r.left = thread[e].left, r.resolving = thread[e].resolving,
             r.at \notin {"insert", "dispatch"} \/ Head(r.left) \in r.seen,
             thread[e].seen \subseteq r.seen
      PROVE  AlertingInv'
  <2>1. Standing(excused)' = Standing(excused)
    BY <1>5 DEF Standing
  <2>2. Watches(r, excused)'
    BY <1>3, <1>5, <2>1 DEF Watches
  <2> QED BY <1>0, <1>5, <2>1, <2>2, WatchingKept
<1>6. ASSUME NEW e \in Evaluation, Alerting!QueryFails(e)
      PROVE  AlertingInv'
  <2> DEFINE seen == thread[e].seen
             ex == excused \cup {Head(thread[e].left)}
  <2>1. thread[e].at \in Evaluating
    BY <1>6 DEF Alerting!QueryFails, Evaluating
  <2>2. seen \in SUBSET Alerting!Rule /\ ex \in SUBSET Alerting!Rule /\ Head(thread[e].left) \notin Standing(ex)
    BY <1>0, <1>3, <2>1 DEF Standing
  <2>3. Alerting!Goes(e, Alerting!After(thread[e], seen)) /\ UNCHANGED <<over, alerts>> /\ excused' = ex
        /\ thread[e].seen \subseteq seen /\ excused \subseteq ex
    BY <1>6 DEF Alerting!QueryFails
  <2> HIDE DEF seen, ex
  <2> QED BY <1>4, <2>1, <2>2, <2>3
<1>7. ASSUME NEW e \in Evaluation, Alerting!Query(e)
      PROVE  AlertingInv'
  <2>1. thread[e].at \in Evaluating /\ UNCHANGED <<over, alerts, told, excused>>
    BY <1>7 DEF Alerting!Query, Evaluating
  <2>2. CASE Head(thread[e].left) \in over
    <3> DEFINE r == [thread[e] EXCEPT !.at = "check"]
    <3>1. Alerting!Goes(e, r)
      BY <1>7, <2>2 DEF Alerting!Query
    <3>2. r \in EvaluationRecord /\ r.left = thread[e].left /\ r.resolving = thread[e].resolving
          /\ r.at = "check" /\ r.seen = thread[e].seen
      BY <1>3, <2>1 DEF EvaluationRecord, Alerting!Step
    <3> HIDE DEF r
    <3> QED BY <1>5, <2>1, <3>1, <3>2
  <2>3. CASE Head(thread[e].left) \notin over
    <3> DEFINE seen == thread[e].seen
    <3>1. Alerting!Goes(e, Alerting!After(thread[e], seen)) /\ thread[e].seen \subseteq seen
      BY <1>7, <2>3 DEF Alerting!Query
    <3>2. Head(thread[e].left) \notin Standing(excused) /\ seen \in SUBSET Alerting!Rule
          /\ excused \in SUBSET Alerting!Rule
      BY <1>0, <1>3, <2>1, <2>3
    <3> HIDE DEF seen
    <3> QED BY <1>4, <2>1, <3>1, <3>2
  <2> QED BY <2>2, <2>3
<1>8. ASSUME NEW e \in Evaluation, Alerting!Check(e)
      PROVE  AlertingInv'
  <2> DEFINE h == Head(thread[e].left)
             seen == Alerting!Seen(e, h)
  <2>1. thread[e].at \in Evaluating /\ UNCHANGED <<over, alerts, told, excused>>
    BY <1>8 DEF Alerting!Check, Evaluating
  <2>2. h \in seen /\ seen \in SUBSET Alerting!Rule /\ thread[e].seen \subseteq seen
    BY <1>3, <2>1 DEF Alerting!Seen
  <2>3. CASE alerts[h] = "none"
    <3> DEFINE r == [thread[e] EXCEPT !.at = "insert", !.seen = seen]
    <3>1. Alerting!Goes(e, r)
      BY <1>8, <2>3 DEF Alerting!Check
    <3> HIDE DEF seen
    <3>2. r \in EvaluationRecord /\ r.left = thread[e].left /\ r.resolving = thread[e].resolving
          /\ r.seen = seen
      BY <1>3, <2>1, <2>2 DEF EvaluationRecord, Alerting!Step
    <3> HIDE DEF r
    <3>3. Head(r.left) \in r.seen
      BY <2>2, <3>2
    <3> QED BY <1>5, <2>1, <2>2, <3>1, <3>2, <3>3
  <2>4. CASE alerts[h] # "none"
    <3>1. Alerting!Goes(e, Alerting!After(thread[e], seen))
      BY <1>8, <2>4 DEF Alerting!Check
    <3> HIDE DEF seen
    <3> QED BY <1>0, <1>4, <2>1, <2>2, <3>1
  <2> QED BY <2>3, <2>4
<1>9. ASSUME NEW e \in Evaluation, Alerting!DispatchFiring(e)
      PROVE  AlertingInv'
  <2> DEFINE seen == thread[e].seen
  <2>1. thread[e].at = "dispatch" /\ UNCHANGED <<over, alerts, excused>>
        /\ Alerting!Goes(e, Alerting!After(thread[e], seen)) /\ thread[e].seen \subseteq seen
    BY <1>9 DEF Alerting!DispatchFiring
  <2>2. thread[e].at \in Evaluating
    BY <2>1 DEF Evaluating
  <2>3. Head(thread[e].left) \in seen \/ Head(thread[e].left) \notin Standing(excused)
    BY <1>0, <2>1 DEF Watches
  <2>4. seen \in SUBSET Alerting!Rule /\ excused \in SUBSET Alerting!Rule
    BY <1>0, <1>3, <2>2
  <2> HIDE DEF seen
  <2> QED BY <1>4, <2>1, <2>2, <2>3, <2>4
<1>10. ASSUME NEW e \in Evaluation, Alerting!Insert(e)
       PROVE  AlertingInv'
  <2> DEFINE h == Head(thread[e].left)
             r == [thread[e] EXCEPT !.at = "dispatch"]
  <2>1. thread[e].at = "insert" /\ UNCHANGED <<over, told>> /\ Alerting!Goes(e, r)
    BY <1>10 DEF Alerting!Insert
  <2>2. thread[e].at \in Evaluating
    BY <2>1 DEF Evaluating
  <2>3. h \in Alerting!Rule /\ h \in thread[e].seen
    BY <1>0, <1>3, <2>1, <2>2 DEF Watches
  <2>4. r \in EvaluationRecord /\ r.left = thread[e].left /\ r.resolving = thread[e].resolving
        /\ r.at = "dispatch" /\ r.seen = thread[e].seen
    BY <1>3, <2>2 DEF EvaluationRecord, Alerting!Step
  <2>5. thread' \in [Evaluation -> EvaluationRecord] /\ thread'[e] = r
        /\ \A d \in Evaluation \ {e} : thread'[d] = thread[d]
    BY <1>0, <2>1, <2>4 DEF Alerting!Goes
  <2>6. alerts' = [alerts EXCEPT ![h] = "firing"]
        /\ excused' = IF h \notin over \/ Alerting!Overtaken(e, h)
                           \/ \E d \in Evaluation : h \in thread[d].resolving
                        THEN excused \cup {h} ELSE excused \ {h}
    BY <1>10 DEF Alerting!Insert
  <2> HIDE DEF h, r
  <2>7. alerts' \in [Alerting!Rule -> {"none", "firing", "acknowledged"}]
        /\ \A x \in Alerting!Rule \ {h} : alerts'[x] = alerts[x]
    BY <1>0, <2>3, <2>6
  <2>8. excused' \subseteq Alerting!Rule
    BY <1>0, <2>3, <2>6
  <2>9. \A x \in Standing(excused)' : x \in Standing(excused) \/ x = h
    BY <2>6, <2>7 DEF Standing
  <2>10. h \in Standing(excused)' =>
           /\ h \in over /\ ~Alerting!Overtaken(e, h) /\ \A d \in Evaluation : h \notin thread[d].resolving
    BY <2>6 DEF Standing
  <2>11. Standing(excused)' \subseteq over'
    BY <1>0, <2>1, <2>9, <2>10
  <2>12. ASSUME NEW d \in Evaluation
         PROVE  Watches(thread[d], excused)'
    <3>1. /\ thread'[d].left = thread[d].left /\ thread'[d].seen = thread[d].seen
          /\ thread'[d].resolving = thread[d].resolving
          /\ thread'[d].at \in Evaluating => thread[d].at \in Evaluating
          /\ thread'[d].at = thread[d].at \/ (h \in thread'[d].seen /\ h = Head(thread'[d].left))
      <4>1. CASE d = e
        BY <2>2, <2>3, <2>4, <2>5, <4>1 DEF h
      <4>2. CASE d # e
        <5>1. thread'[d] = thread[d]
          BY <2>5, <4>2
        <5> QED BY <5>1
      <4> QED BY <4>1, <4>2
    <3>2. Watches(thread[d], excused)
      BY <1>0
    <3>3. ASSUME h \in Standing(excused)'
          PROVE  /\ thread[d].at \in Evaluating =>
                      h \in thread[d].seen \/ \E i \in DOMAIN thread[d].left : thread[d].left[i] = h
                 /\ h \notin thread[d].resolving
      <4>1. /\ h \notin thread[d].resolving
            /\ (d # e /\ thread[d].at \in Evaluating) =>
                 h \in thread[d].seen \/ \E i \in DOMAIN thread[d].left : thread[d].left[i] = h
        BY <2>10, <3>3 DEF Alerting!Overtaken, Evaluating
      <4> QED BY <2>3, <4>1
    <3> QED BY <2>9, <3>1, <3>2, <3>3 DEF Watches
  <2> QED BY <2>5, <2>7, <2>8, <2>11, <2>12, <1>0, <2>1 DEF AlertingInv
<1>11. ASSUME NEW e \in Evaluation, NEW r \in Alerting!Rule, Alerting!Resolve(e, r)
       PROVE  AlertingInv'
  <2>1. thread[e] \in EvaluationRecord /\ Watches(thread[e], excused) /\ thread[e].at = "resolve"
    BY <1>0, <1>11 DEF Alerting!Resolve
  <2> DEFINE next == [thread[e] EXCEPT !.resolving = @ \ {r}]
  <2>2. next \in EvaluationRecord /\ next.at = "resolve" /\ next.resolving = thread[e].resolving \ {r}
    BY <2>1 DEF EvaluationRecord
  <2>3. Alerting!Goes(e, next)
    BY <1>11 DEF Alerting!Resolve
  <2> HIDE DEF next
  <2>4. PICK t \in EvaluationRecord :
          t = next /\ t.at = "resolve" /\ t.resolving = thread[e].resolving \ {r}
    BY <2>2
  <2>5. Alerting!Goes(e, t) /\ UNCHANGED <<over, excused>> /\ alerts' = [alerts EXCEPT ![r] = "none"]
    BY <1>11, <2>4, <2>3 DEF Alerting!Resolve
  <2>6. alerts' \in [Alerting!Rule -> {"none", "firing", "acknowledged"}]
        /\ Standing(excused)' \subseteq Standing(excused)
    BY <1>0, <2>5 DEF Standing
  <2>7. Watches(t, excused)'
    BY <2>1, <2>4, <2>6 DEF Watches, Evaluating
  <2> QED BY <1>0, <2>5, <2>4, <2>6, <2>7, WatchingKept
<1>12. ASSUME NEW e \in Evaluation, Alerting!End(e)
       PROVE  AlertingInv'
  <2>1. PICK t \in EvaluationRecord : t = Alerting!Idle /\ t.at = "idle" /\ t.resolving = {}
    <3>1. Alerting!Idle \in EvaluationRecord
      BY DEF EvaluationRecord, Alerting!Idle, Alerting!Step
    <3>2. Alerting!Idle.at = "idle" /\ Alerting!Idle.resolving = {}
      BY DEF Alerting!Idle
    <3> QED BY <3>1, <3>2
  <2>2. Alerting!Goes(e, t) /\ UNCHANGED <<over, alerts, excused>>
    BY <1>12, <2>1 DEF Alerting!End
  <2>3. Standing(excused)' = Standing(excused)
    BY <2>2 DEF Standing
  <2>4. Watches(t, excused)'
    BY <2>1 DEF Watches, Evaluating
  <2> QED BY <1>0, <2>1, <2>2, <2>3, <2>4, WatchingKept
\* What happens beside the evaluations leaves less to watch, or the same.
<1>13. ASSUME UNCHANGED thread, over' \subseteq Alerting!Rule, excused' \subseteq Alerting!Rule,
              alerts' \in [Alerting!Rule -> {"none", "firing", "acknowledged"}],
              Standing(excused)' \subseteq Standing(excused) \cap over'
       PROVE  AlertingInv'
  BY <1>0, <1>13 DEF AlertingInv, Watches
<1>14. ASSUME NEW r \in Alerting!Rule, Alerting!Acknowledge(r)
       PROVE  AlertingInv'
  <2>1. Standing(excused)' = Standing(excused)
    BY <1>0, <1>14 DEF Alerting!Acknowledge, Standing
  <2> QED BY <1>0, <1>13, <1>14, <2>1 DEF Alerting!Acknowledge
<1>15. ASSUME NEW r \in Alerting!Rule, Alerting!Rise(r)
       PROVE  AlertingInv'
  <2>1. Standing(excused)' = Standing(excused)
    BY <1>15 DEF Alerting!Rise, Standing
  <2> QED BY <1>0, <1>13, <1>15, <2>1 DEF Alerting!Rise
<1>16. ASSUME NEW r \in Alerting!Rule, Alerting!Fall(r)
       PROVE  AlertingInv'
  <2>1. Standing(excused)' = Standing(excused) \ {r}
    BY <1>16 DEF Alerting!Fall, Standing
  <2> QED BY <1>0, <1>13, <1>16, <2>1 DEF Alerting!Fall
<1> QED
  BY <1>1, <1>2, <1>6, <1>7, <1>8, <1>9, <1>10, <1>11, <1>12, <1>14, <1>15, <1>16 DEF Alerting!Next

\* Nothing that stands is resolved.
LEMMA AlertingResolves ==
  ASSUME AlertingInv, [Alerting!Next]_Alerting!vars
  PROVE  [Alerting!ResolvesWithReason]_Alerting!vars
<1> SUFFICES ASSUME Alerting!Next, NEW r \in Alerting!Rule, alerts[r] # "none", alerts'[r] = "none"
             PROVE  r \in excused
  BY DEF Alerting!ResolvesWithReason
<1>1. alerts \in [Alerting!Rule -> {"none", "firing", "acknowledged"}]
  BY DEF AlertingInv
<1>2. ASSUME NEW e \in Evaluation, NEW x \in Alerting!Rule, Alerting!Resolve(e, x)
      PROVE  r \in excused
  <2>1. x \in thread[e].resolving /\ alerts' = [alerts EXCEPT ![x] = "none"]
    BY <1>2 DEF Alerting!Resolve
  <2>2. x = r
    BY <1>1, <2>1
  <2>3. Watches(thread[e], excused)
    BY DEF AlertingInv
  <2> QED BY <2>1, <2>2, <2>3 DEF Watches, Standing
<1>3. ASSUME NEW e \in Evaluation, Alerting!Insert(e)
      PROVE  FALSE
  BY <1>1, <1>3 DEF Alerting!Insert
<1>4. ASSUME NEW x \in Alerting!Rule, Alerting!Acknowledge(x)
      PROVE  FALSE
  BY <1>1, <1>4 DEF Alerting!Acknowledge
<1>5. alerts' # alerts
  OBVIOUS
<1> QED
  BY <1>2, <1>3, <1>4, <1>5
     DEF Alerting!Next, Alerting!Begin, Alerting!Query, Alerting!QueryFails, Alerting!Check,
         Alerting!DispatchFiring, Alerting!End, Alerting!Rise, Alerting!Fall

LEMMA AlertingHolds ==
  ASSUME Alerting!AlertingAssumption
  PROVE  Alerting!Spec => []AlertingInv
<1>1. ASSUME Alerting!Init
      PROVE  AlertingInv
  <2>1. /\ over \in SUBSET Alerting!Rule
        /\ alerts = [r \in Alerting!Rule |-> "none"]
        /\ thread = [e \in Evaluation |-> Alerting!Idle]
        /\ excused = {}
    BY <1>1 DEF Alerting!Init
  <2>2. Standing(excused) = {}
    BY <2>1 DEF Standing
  <2>3. thread \in [Evaluation -> EvaluationRecord]
    BY <2>1 DEF EvaluationRecord, Alerting!Idle, Alerting!Step
  <2>4. \A e \in Evaluation : thread[e].at = "idle"
    BY <2>1 DEF Alerting!Idle
  <2>5. \A e \in Evaluation : Watches(thread[e], excused)
    BY <2>2, <2>4 DEF Watches, Evaluating
  <2> QED BY <2>1, <2>2, <2>3, <2>5 DEF AlertingInv
<1>2. AlertingInv /\ [Alerting!Next]_Alerting!vars => AlertingInv'
  BY AlertingKeeps
<1> QED BY <1>1, <1>2, PTL DEF Alerting!Spec

\* What is left to an evaluation ends as the rules do.
Suffixes == {SubSeq(AlertRules, i, Len(AlertRules)) : i \in 1 .. Len(AlertRules) + 1}

LEMMA SuffixShrinks ==
  ASSUME Alerting!AlertingAssumption
  PROVE  /\ <<>> \in Suffixes /\ AlertRules \in Suffixes
         /\ \A rest \in Suffixes : rest # <<>> => Tail(rest) \in Suffixes /\ Head(rest) \in Alerting!Rule
<1>1. AlertRules \in Seq(Alerting!Rule) /\ Len(AlertRules) \in Nat
  BY LenProperties DEF Alerting!AlertingAssumption
<1>2. <<>> \in Suffixes
  <2>1. SubSeq(AlertRules, Len(AlertRules) + 1, Len(AlertRules)) = <<>>
    BY <1>1, SubSeqEmpty
  <2>2. Len(AlertRules) + 1 \in 1 .. Len(AlertRules) + 1
    BY <1>1
  <2> QED BY <2>1, <2>2 DEF Suffixes
<1>3. AlertRules \in Suffixes
  <2>1. SubSeq(AlertRules, 1, Len(AlertRules)) = AlertRules
    BY <1>1, SubSeqFull
  <2>2. 1 \in 1 .. Len(AlertRules) + 1
    BY <1>1
  <2> QED BY <2>1, <2>2 DEF Suffixes
<1>4. ASSUME NEW rest \in Suffixes, rest # <<>>
      PROVE  Tail(rest) \in Suffixes /\ Head(rest) \in Alerting!Rule
  <2>1. PICK i \in 1 .. Len(AlertRules) + 1 : rest = SubSeq(AlertRules, i, Len(AlertRules))
    BY DEF Suffixes
  <2>2. i <= Len(AlertRules)
    <3>1. SUFFICES ASSUME i > Len(AlertRules) PROVE FALSE
      BY <1>1
    <3> QED BY <1>1, <1>4, <2>1, <3>1, SubSeqEmpty
  <2>3. Head(rest) = AlertRules[i] /\ Tail(rest) = SubSeq(AlertRules, i + 1, Len(AlertRules))
    BY <1>1, <2>1, <2>2, HeadTailOfSubSeq
  <2>4. i + 1 \in 1 .. Len(AlertRules) + 1 /\ i \in 1 .. Len(AlertRules)
    BY <1>1, <2>2
  <2>5. SubSeq(AlertRules, i + 1, Len(AlertRules)) \in Suffixes
    BY <2>4 DEF Suffixes
  <2>6. AlertRules[i] \in Alerting!Rule
    BY <1>1, <2>4 DEF Alerting!Rule
  <2> QED BY <2>3, <2>5, <2>6
<1> QED BY <1>2, <1>3, <1>4

Told == told \in [Channel \X Alerting!Rule -> {"nothing", "firing", "resolved"}]

LEMMA DispatchTells ==
  ASSUME Told, NEW r, NEW state \in {"firing", "resolved"}, Alerting!Dispatch(r, state)
  PROVE  Told'
BY DEF Told, Alerting!Dispatch

\* Of the types, what AlertingInv has not.
AlertingTyped == Told /\ \A e \in Evaluation : thread[e].left \in Suffixes

LEMMA AlertingTypesKept ==
  ASSUME Alerting!AlertingAssumption, AlertingInv, AlertingTyped, [Alerting!Next]_Alerting!vars
  PROVE  AlertingTyped'
<1>1. thread \in [Evaluation -> EvaluationRecord]
      /\ \A e \in Evaluation : thread[e].at \in Evaluating => thread[e].left # <<>>
  BY DEF AlertingInv, Watches
<1>2. Told /\ \A e \in Evaluation : thread[e].left \in Suffixes
  BY DEF AlertingTyped
<1>3. ASSUME NEW e \in Evaluation, NEW r, r.left \in Suffixes, Alerting!Goes(e, r)
      PROVE  \A d \in Evaluation : thread'[d].left \in Suffixes
  BY <1>1, <1>2, <1>3 DEF Alerting!Goes
<1>4. ASSUME NEW t \in EvaluationRecord, t.left \in Suffixes, t.left # <<>>, NEW seen
      PROVE  Alerting!After(t, seen).left \in Suffixes
  BY <1>4, SuffixShrinks DEF Alerting!After, EvaluationRecord
<1>5. \A e \in Evaluation : thread[e] \in EvaluationRecord
  BY <1>1
<1>6. ASSUME NEW e \in Evaluation, Alerting!Begin(e) PROVE AlertingTyped'
  <2>1. Alerting!Goes(e, [Alerting!Idle EXCEPT !.at = "query", !.left = AlertRules]) /\ told' = told
    BY <1>6 DEF Alerting!Begin
  <2>2. [Alerting!Idle EXCEPT !.at = "query", !.left = AlertRules].left \in Suffixes
    BY SuffixShrinks DEF Alerting!Idle
  <2> QED BY <1>2, <1>3, <2>1, <2>2 DEF AlertingTyped, Told
<1>7. ASSUME NEW e \in Evaluation, NEW seen, thread[e].at \in Evaluating,
             Alerting!Goes(e, Alerting!After(thread[e], seen)), Told'
      PROVE  AlertingTyped'
  <2>1. Alerting!After(thread[e], seen).left \in Suffixes
    BY <1>1, <1>2, <1>4, <1>5, <1>7
  <2> QED BY <1>3, <1>7, <2>1 DEF AlertingTyped
<1>8. ASSUME NEW e \in Evaluation, NEW r, r.left = thread[e].left, Alerting!Goes(e, r), Told'
      PROVE  AlertingTyped'
  BY <1>2, <1>3, <1>8 DEF AlertingTyped
<1>9. ASSUME UNCHANGED told PROVE Told'
  BY <1>2, <1>9 DEF Told
<1>10. ASSUME NEW e \in Evaluation, Alerting!QueryFails(e) PROVE AlertingTyped'
  BY <1>7, <1>9, <1>10 DEF Alerting!QueryFails, Alerting!At, Evaluating
<1>11. ASSUME NEW e \in Evaluation, Alerting!Query(e) PROVE AlertingTyped'
  <2>1. [thread[e] EXCEPT !.at = "check"].left = thread[e].left
    BY <1>5 DEF EvaluationRecord
  <2>2. thread[e].at \in Evaluating /\ Told'
    BY <1>9, <1>11 DEF Alerting!Query, Alerting!At, Evaluating
  <2>3. \/ Alerting!Goes(e, [thread[e] EXCEPT !.at = "check"])
        \/ Alerting!Goes(e, Alerting!After(thread[e], thread[e].seen))
    BY <1>11 DEF Alerting!Query
  <2>4. ASSUME Alerting!Goes(e, [thread[e] EXCEPT !.at = "check"]) PROVE AlertingTyped'
    BY <1>8, <2>1, <2>2, <2>4
  <2>5. ASSUME Alerting!Goes(e, Alerting!After(thread[e], thread[e].seen)) PROVE AlertingTyped'
    BY <1>7, <2>2, <2>5
  <2> QED BY <2>3, <2>4, <2>5
<1>12. ASSUME NEW e \in Evaluation, Alerting!Check(e) PROVE AlertingTyped'
  <2> DEFINE r == Head(thread[e].left)
  <2>1. [thread[e] EXCEPT !.at = "insert", !.seen = Alerting!Seen(e, r)].left = thread[e].left
    BY <1>5 DEF EvaluationRecord
  <2>2. thread[e].at \in Evaluating /\ Told'
    BY <1>9, <1>12 DEF Alerting!Check, Alerting!At, Evaluating
  <2>3. \/ Alerting!Goes(e, [thread[e] EXCEPT !.at = "insert", !.seen = Alerting!Seen(e, r)])
        \/ Alerting!Goes(e, Alerting!After(thread[e], Alerting!Seen(e, r)))
    BY <1>12 DEF Alerting!Check
  <2>4. ASSUME Alerting!Goes(e, [thread[e] EXCEPT !.at = "insert", !.seen = Alerting!Seen(e, r)])
        PROVE  AlertingTyped'
    BY <1>8, <2>1, <2>2, <2>4
  <2>5. ASSUME Alerting!Goes(e, Alerting!After(thread[e], Alerting!Seen(e, r))) PROVE AlertingTyped'
    BY <1>7, <2>2, <2>5
  <2> QED BY <2>3, <2>4, <2>5
<1>13. ASSUME NEW e \in Evaluation, Alerting!Insert(e) PROVE AlertingTyped'
  <2>1. [thread[e] EXCEPT !.at = "dispatch"].left = thread[e].left
    BY <1>5 DEF EvaluationRecord
  <2> QED BY <1>8, <1>9, <1>13, <2>1 DEF Alerting!Insert
<1>14. ASSUME NEW e \in Evaluation, Alerting!DispatchFiring(e) PROVE AlertingTyped'
  <2>1. Told'
    BY <1>2, <1>14, DispatchTells DEF Alerting!DispatchFiring
  <2> QED BY <1>7, <1>14, <2>1 DEF Alerting!DispatchFiring, Alerting!At, Evaluating
<1>15. ASSUME NEW e \in Evaluation, Alerting!End(e) PROVE AlertingTyped'
  <2>1. Alerting!Idle.left \in Suffixes
    BY SuffixShrinks DEF Alerting!Idle
  <2>2. Alerting!Goes(e, Alerting!Idle) /\ Told'
    BY <1>9, <1>15 DEF Alerting!End
  <2> QED BY <1>3, <2>1, <2>2 DEF AlertingTyped
<1>16. ASSUME NEW e \in Evaluation, NEW r \in Alerting!Rule, Alerting!Resolve(e, r) PROVE AlertingTyped'
  <2>1. [thread[e] EXCEPT !.resolving = @ \ {r}].left = thread[e].left
    BY <1>5 DEF EvaluationRecord
  <2>2. Told'
    BY <1>2, <1>16, DispatchTells DEF Alerting!Resolve
  <2>3. Alerting!Goes(e, [thread[e] EXCEPT !.resolving = @ \ {r}])
    BY <1>16 DEF Alerting!Resolve
  <2> QED BY <1>8, <2>1, <2>2, <2>3
<1>17. ASSUME UNCHANGED <<thread, told>> PROVE AlertingTyped'
  BY <1>2, <1>17 DEF AlertingTyped, Told
<1> QED
  BY <1>6, <1>10, <1>11, <1>12, <1>13, <1>14, <1>15, <1>16, <1>17
     DEF Alerting!Next, Alerting!Acknowledge, Alerting!Rise, Alerting!Fall, Alerting!vars

LEMMA AlertingTypes == Alerting!AlertingAssumption /\ Alerting!Spec => []Alerting!TypeOK
<1>1. AlertingInv /\ AlertingTyped => Alerting!TypeOK
  BY DEF AlertingInv, AlertingTyped, Told, Suffixes, EvaluationRecord, Alerting!TypeOK
<1>2. CASE Alerting!AlertingAssumption
  <2>1. Alerting!Init => AlertingTyped
    BY <1>2, SuffixShrinks DEF Alerting!Init, AlertingTyped, Told, Alerting!Idle
  <2>2. AlertingInv /\ AlertingTyped /\ [Alerting!Next]_Alerting!vars => AlertingTyped'
    BY <1>2, AlertingTypesKept
  <2>3. Alerting!Spec => []AlertingInv
    BY <1>2, AlertingHolds
  <2> QED BY <1>1, <2>1, <2>2, <2>3, PTL DEF Alerting!Spec
<1> QED BY <1>2

-----------------------------------------------------------------------------
(* The whole and its parts. *)

\* A step of the whole is one of its part.
LEMMA ServicesSteps ==
  ASSUME Next
  PROVE  /\ part' = part
         /\ part = "Apps" => Apps!Next
         /\ part = "Builds" => Builds!Next
         /\ part = "Updates" => Updates!Next
         /\ part = "Backup" => Backup!Next
         /\ part = "Alerting" => Alerting!Next
  BY DEF Next, HouseholdStep, GatewaysStep, TokensStep, RegistryStep, SyncStep, AlertingStep, AppsStep,
       BackupStep, SessionsStep, AccountsStep, CertsStep, SetupStep, UpdatesStep, SettingsStep,
       FirewallStep, BuildsStep, Rest

\* A behaviour of the whole is one of Apps, or never its own.
LEMMA AppsPart == Spec => (Apps!Spec /\ [](part = "Apps")) \/ []~(part = "Apps")
<1>1. Init /\ part = "Apps" => Apps!Init
  BY DEF Init
<1>2. [Next]_vars => part' = part /\ (part = "Apps" => [Apps!Next]_Apps!vars)
  <2>1. ASSUME UNCHANGED vars
        PROVE  part' = part /\ UNCHANGED Apps!vars
    BY <2>1 DEF vars, AppsOwn, Shared, Apps!vars, Apps!sources, Apps!files, Apps!docker
  <2> QED BY <2>1, ServicesSteps
<1>3. [Next]_vars /\ part = "Apps" => (part = "Apps")' /\ [Apps!Next]_Apps!vars
  BY <1>2
<1>4. [Next]_vars /\ ~(part = "Apps") => (~(part = "Apps"))'
  BY <1>2
<1> QED BY <1>1, <1>3, <1>4, PTL DEF Spec, Apps!Spec

\* A behaviour of the whole is one of Builds, or never its own.
LEMMA BuildsPart == Spec => (Builds!Spec /\ [](part = "Builds")) \/ []~(part = "Builds")
<1>1. Init /\ part = "Builds" => Builds!Init
  BY DEF Init
<1>2. [Next]_vars => part' = part /\ (part = "Builds" => [Builds!Next]_Builds!vars)
  <2>1. ASSUME UNCHANGED vars
        PROVE  part' = part /\ UNCHANGED Builds!vars
    BY <2>1 DEF vars, BuildsOwn, Shared, Builds!vars
  <2> QED BY <2>1, ServicesSteps
<1>3. [Next]_vars /\ part = "Builds" => (part = "Builds")' /\ [Builds!Next]_Builds!vars
  BY <1>2
<1>4. [Next]_vars /\ ~(part = "Builds") => (~(part = "Builds"))'
  BY <1>2
<1> QED BY <1>1, <1>3, <1>4, PTL DEF Spec, Builds!Spec

\* A behaviour of the whole is one of Updates, or never its own.
LEMMA UpdatesPart == Spec => (Updates!Spec /\ [](part = "Updates")) \/ []~(part = "Updates")
<1>1. Init /\ part = "Updates" => Updates!Init
  BY DEF Init
<1>2. [Next]_vars => part' = part /\ (part = "Updates" => [Updates!Next]_Updates!vars)
  <2>1. ASSUME UNCHANGED vars
        PROVE  part' = part /\ UNCHANGED Updates!vars
    BY <2>1 DEF vars, UpdatesOwn, Shared, Updates!vars, Updates!directory,
       Updates!system
  <2> QED BY <2>1, ServicesSteps
<1>3. [Next]_vars /\ part = "Updates" => (part = "Updates")' /\ [Updates!Next]_Updates!vars
  BY <1>2
<1>4. [Next]_vars /\ ~(part = "Updates") => (~(part = "Updates"))'
  BY <1>2
<1> QED BY <1>1, <1>3, <1>4, PTL DEF Spec, Updates!Spec

\* A behaviour of the whole is one of Backup, or never its own.
LEMMA BackupPart == Spec => (Backup!Spec /\ [](part = "Backup")) \/ []~(part = "Backup")
<1>1. Init /\ part = "Backup" => Backup!Init
  BY DEF Init
<1>2. [Next]_vars => part' = part /\ (part = "Backup" => [Backup!Next]_Backup!vars)
  <2>1. ASSUME UNCHANGED vars
        PROVE  part' = part /\ UNCHANGED Backup!vars
    BY <2>1 DEF vars, BackupOwn, Shared, Backup!vars
  <2> QED BY <2>1, ServicesSteps
<1>3. [Next]_vars /\ part = "Backup" => (part = "Backup")' /\ [Backup!Next]_Backup!vars
  BY <1>2
<1>4. [Next]_vars /\ ~(part = "Backup") => (~(part = "Backup"))'
  BY <1>2
<1> QED BY <1>1, <1>3, <1>4, PTL DEF Spec, Backup!Spec

\* A behaviour of the whole is one of Alerting, or never its own.
LEMMA AlertingPart == Spec => (Alerting!Spec /\ [](part = "Alerting")) \/ []~(part = "Alerting")
<1>1. Init /\ part = "Alerting" => Alerting!Init
  BY DEF Init
<1>2. [Next]_vars => part' = part /\ (part = "Alerting" => [Alerting!Next]_Alerting!vars)
  <2>1. ASSUME UNCHANGED vars
        PROVE  part' = part /\ UNCHANGED Alerting!vars
    BY <2>1 DEF vars, AlertingOwn, Shared, Alerting!vars
  <2> QED BY <2>1, ServicesSteps
<1>3. [Next]_vars /\ part = "Alerting" => (part = "Alerting")' /\ [Alerting!Next]_Alerting!vars
  BY <1>2
<1>4. [Next]_vars /\ ~(part = "Alerting") => (~(part = "Alerting"))'
  BY <1>2
<1> QED BY <1>1, <1>3, <1>4, PTL DEF Spec, Alerting!Spec

\* The types of these parts.
ServicesTyped ==
  /\ part = "Apps" => Apps!TypeOK
  /\ part = "Builds" => Builds!TypeOK
  /\ part = "Updates" => Updates!TypeOK
  /\ part = "Backup" => Backup!TypeOK
  /\ part = "Alerting" => Alerting!TypeOK

LEMMA ServicesTypes == Spec => []ServicesTyped
<1>1. Apps!Spec => [](Apps!TypeOK /\ Apps!ContainersFollow)
  BY AppsHold, ComponentsAssumption
<1>2. Builds!Spec => [](Builds!TypeOK /\ Builds!BuildsConfined)
  BY BuildsHold, ComponentsAssumption
<1>3. Updates!Spec => []Updates!TypeOK
  <2>1. Updates!Spec => []UpdatesInv
    BY UpdatesHold, ComponentsAssumption
  <2>2. UpdatesInv => Updates!TypeOK
    BY DEF UpdatesInv
  <2> QED BY <2>1, <2>2, PTL
<1>4. Backup!Spec => [](Backup!TypeOK /\ Backup!RestoreAnswersTruly)
  BY BackupHolds, ComponentsAssumption
<1>5. Alerting!Spec => []Alerting!TypeOK
  BY AlertingTypes, ComponentsAssumption
<1> QED BY <1>1, <1>2, <1>3, <1>4, <1>5, AppsPart, BuildsPart, UpdatesPart, BackupPart, AlertingPart, PTL DEF ServicesTyped

-----------------------------------------------------------------------------
(* Results. *)

\* Whatever is installed, registered with other containers, built, committed or restarted,
\* the containers are those of the wanted plugins (plugins_sync.py), but for those Docker
\* failed at, those stopped by hand and those a restart has not synchronised.
THEOREM ContainersAsConfigured == Spec => []ContainersFollow
<1>1. Apps!Spec => [](Apps!TypeOK /\ Apps!ContainersFollow)
  BY AppsHold, ComponentsAssumption
<1> QED BY AppsPart, <1>1, PTL DEF ContainersFollow

\* However requests, proxies, fallbacks and timeouts interleave, a build that its source
\* leaves confined (build_sandbox.py) reaches only what was agreed to, or approved by a
\* source in advance, for it or for another whose proxy listens.
THEOREM BuildsStayConfined == Spec => []BuildsConfined
<1>1. Builds!Spec => [](Builds!TypeOK /\ Builds!BuildsConfined)
  BY BuildsHold, ComponentsAssumption
<1> QED BY BuildsPart, <1>1, PTL DEF BuildsConfined

\* Whichever installations overlap, and whatever is edited, fails or reboots meanwhile:
\* an archive of one installation has every document, none older than it, when packages
\* change (update_manager.py).
THEOREM BackupsPrecede == Spec => UpdatesBackedUp
<1>1. UpdatesInv => Updates!BacksUpFirst
  <2>1. ASSUME UpdatesInv, NEW t \in Thread, thread[t].at = "run", thread[t].backup # None,
               thread[t].backup \notin shared
        PROVE  Updates!FromSince(t)
    BY <2>1 DEF UpdatesInv, Archived, Since, Updates!FromSince
  <2> QED BY <2>1 DEF Updates!BacksUpFirst
<1>2. Updates!Spec => []UpdatesInv
  BY UpdatesHold, ComponentsAssumption
<1> QED BY UpdatesPart, <1>1, <1>2, PTL DEF UpdatesBackedUp

\* However backups, restores, crashes and the writes of others interleave: what a restore
\* answers is what has become of the directory, and one that fails tears one entry at
\* most (backup_handler.py).
THEOREM RestoresAnswerTruly == Spec => []RestoreAnswersTruly
<1>1. Backup!Spec => [](Backup!TypeOK /\ Backup!RestoreAnswersTruly)
  BY BackupHolds, ComponentsAssumption
<1> QED BY BackupPart, <1>1, PTL DEF RestoreAnswersTruly

\* However many evaluations overlap, over whatever rules, no alert is resolved by the
\* stale-alert loop of evaluate_rules (alert_manager.py) unless its metric fell, a query
\* of it failed, or an evaluation had passed its rule when it was raised.
THEOREM AlertsResolvedWithReason == Spec => ResolvedWithReason
<1>1. AlertingInv /\ [Alerting!Next]_Alerting!vars => Alerting!ResolvesWithReason
  <2>1. AlertingInv /\ UNCHANGED Alerting!vars => Alerting!ResolvesWithReason
    BY DEF Alerting!vars, Alerting!ResolvesWithReason
  <2> QED BY <2>1, AlertingResolves
<1>2. Alerting!Spec => []AlertingInv
  BY AlertingHolds, ComponentsAssumption
<1> QED BY AlertingPart, <1>1, <1>2, PTL DEF ResolvedWithReason, Alerting!Spec
=============================================================================
