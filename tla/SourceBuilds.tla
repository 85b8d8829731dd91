---------------------------- MODULE SourceBuilds ----------------------------
(***************************************************************************)
(* Builds of an application from its source in the build sandbox           *)
(* (source_builder.py, build_sandbox.py, sandbox_network.py and the        *)
(* builder's entrypoint): a builder container that leaves a tar, the       *)
(* Docker daemon itself where there is no builder image, and a filtering   *)
(* proxy for a build whose network the user approved.                      *)
(*                                                                         *)
(* A build is one request; the web application serves one at a time, a     *)
(* command is another process, and both may give their image one tag.      *)
(* What Docker goes on doing after its client was killed is a job of its   *)
(* own.  Memory and processor limits, build arguments, the text of the     *)
(* Dockerfile and the checkout (module Apps) are not kept.                 *)
(***************************************************************************)
EXTENDS Naturals

CONSTANTS
  Build,     \* requests
  Web,       \* those of them that reach the web application
  Host,
  Own,       \* the hosts that are never let through: loopback and metadata
  Under(_),  \* the domains a host is in, itself included
  Port,
  Begins(_), \* the ports whose digits the digits of a port begin with, itself included
  Manifest,  \* what sources ask for: members of Setting
  Choice,    \* the sets of endpoints a user may approve
  None       \* nobody

Pattern == [host : Host, port : {0} \cup Port]

\* SandboxConfig, as far as anything depends on it; all of it is the source's to set, also
\* the approval, the endpoints approved and the restricted network's name: the isolated
\* network of these builds, or another that there is (Docker's own, an application's).
Setting == [required : BOOLEAN, approved : BOOLEAN, allow : BOOLEAN, restricted : BOOLEAN,
            net : {"isolated", "other"}, rootless : BOOLEAN, contained : BOOLEAN,
            listed : SUBSET Pattern, chosen : SUBSET Pattern]

BuildsAssumption ==
  Manifest \subseteq Setting /\ Choice \subseteq SUBSET Pattern /\ None \notin Build

VARIABLES
  build,    \* each request: where it is, its settings, its answer; history: the endpoints
            \* its user agreed to, and whether its source had the approval in it
  proxy,    \* its proxy
  network,  \* the isolated network exists
  jobs,     \* what Docker works at: <<build, "container">> or <<build, "daemon">>
  image     \* whose image has the tag

vars == <<build, proxy, network, jobs, image>>

At == {"idle", "checked", "container", "load", "direct", "daemon", "stop", "answered"}
Answer == {"none", "built", "failed", "late"}

TypeOK ==
  /\ \A b \in Build :
       /\ build[b].at \in At /\ build[b].answer \in Answer
       /\ build[b].agreed \subseteq Pattern /\ build[b].presumed \in BOOLEAN
       /\ build[b].at # "idle" => build[b].set \in Setting
  /\ proxy \in [Build -> {"none", "listening", "stopped"}]
  /\ network \in BOOLEAN
  /\ jobs \subseteq Build \X {"container", "daemon"}
  /\ image \in Build \cup {None}

-----------------------------------------------------------------------------
(* The sandbox: what a build may reach. *)

\* The network a build is given: none unless it asks, it is approved, and it is allowed.
Mode(set) ==
  IF ~(set.required /\ set.approved /\ set.allow) THEN "none"
  ELSE IF set.restricted THEN set.net ELSE "bridge"

\* Mutant: what the user chose is added to what the source lists.
AllEndpoints(set) == set.listed \cup set.chosen

\* The endpoints of the proxy: those the user chose, or else those the source lists.
Endpoints(set) == IF set.chosen # {} THEN set.chosen ELSE set.listed

\* is_endpoint_allowed: a name with or without "*." stands for itself and what is below.
EndpointAllowed(endpoints, host, port) ==
  /\ host \notin Own
  /\ \E p \in endpoints : p.host \in Under(host) /\ p.port \in {0, port}

\* SandboxDomainProxy.handle_client: a port that is not of the Web has to be in the text of
\* an endpoint, whichever; the endpoint of the host is asked then.
Named(endpoints) ==
  {80, 443} \cup {port \in Port : \E p \in endpoints : p.port # 0 /\ port \in Begins(p.port)}
LetThrough(endpoints, host, port) ==
  /\ port \in Named(endpoints)
  /\ EndpointAllowed(endpoints, host, port)

Through(endpoints) == {e \in Host \X Port : LetThrough(endpoints, e[1], e[2])}

\* What a build that runs can reach at most: through a socket it was given, or from a
\* network that nothing filters, everything; from the isolated network, what any proxy
\* lets through that listens, for they listen at every address and ask nobody's name.
Reach(b) ==
  LET set == build[b].set IN
  IF <<b, "container">> \in jobs /\ ~set.rootless THEN Host \X Port
  ELSE IF (\A j \in jobs : j[1] # b) \/ Mode(set) = "none" THEN {}
  ELSE IF Mode(set) # "isolated" THEN Host \X Port
  ELSE UNION {Through(Endpoints(build[c].set)) : c \in {d \in Build : proxy[d] = "listening"}}

-----------------------------------------------------------------------------
(* One build. *)

Goes(b, at) == build' = [build EXCEPT ![b].at = at]
Ends(b, answer) == build' = [build EXCEPT ![b].at = "stop", ![b].answer = answer]

\* load_manifest and the request: an approval, and the endpoints the user chose.
Resolved(m, approve, chosen) ==
  [m EXCEPT !.approved = @ \/ approve,
            !.chosen = IF approve /\ chosen # {} THEN chosen ELSE @]

\* The web application answers nothing else while it builds.
Served(b) == b \in Web => \A c \in Web : build[c].at \in {"idle", "answered"}

\* import_to_catalog and build_and_prepare_plugin: without an approval that is needed,
\* refused.  Who approves agrees to the endpoints of the request, or else to those the
\* refusal before it, or the prompt, showed: the ones the source lists.
RequestBuild(b, m, approve, chosen) ==
  LET set == Resolved(m, approve, chosen) IN
  /\ build[b].at = "idle" /\ Served(b)
  /\ build' = [build EXCEPT ![b] =
        [at |-> IF set.required /\ ~set.approved THEN "answered" ELSE "checked",
         answer |-> IF set.required /\ ~set.approved THEN "failed" ELSE "none",
         set |-> set,
         agreed |-> IF ~approve THEN {} ELSE IF chosen # {} THEN chosen ELSE m.listed,
         presumed |-> m.approved \/ m.chosen # {}]]
  /\ UNCHANGED <<proxy, network, jobs, image>>

\* validate_build_safety.
Unsafe(b) ==
  /\ build[b].at = "checked"
  /\ Ends(b, "failed")
  /\ UNCHANGED <<proxy, network, jobs, image>>

\* A build that needs the network gets a proxy and, restricted, the isolated network,
\* whose creation may fail unnoticed.
Prepare(b) ==
  /\ build[b].at = "checked"
  /\ Goes(b, IF build[b].set.contained THEN "container" ELSE "direct")
  /\ IF build[b].set.required
     THEN /\ proxy' = [proxy EXCEPT ![b] = "listening"]
          /\ network' \in IF build[b].set.restricted /\ build[b].set.net = "isolated"
                       THEN {network, TRUE} ELSE {network}
     ELSE UNCHANGED <<proxy, network>>
  /\ jobs' = IF build[b].set.contained /\ ~build[b].set.required
             THEN jobs \cup {<<b, "container">>} ELSE jobs
  /\ UNCHANGED image

\* docker run knows no --build-arg, which the proxy's settings are given with: the
\* command of a networked build is refused, and the build with it.
CommandRefused(b) ==
  /\ build[b].at = "container" /\ build[b].set.required
  /\ Ends(b, "failed")
  /\ UNCHANGED <<proxy, network, jobs, image>>

\* The builder ends: it failed, there is no such image and the daemon is to build, or
\* it left a tar; with containerd's socket the image is in a store Docker does not see.
BuilderEnds(b) ==
  /\ build[b].at = "container" /\ <<b, "container">> \in jobs
  /\ jobs' = jobs \ {<<b, "container">>}
  /\ \/ Ends(b, "failed")
     \/ Goes(b, "direct")
     \/ build[b].set.rootless /\ Goes(b, "load")
     \/ ~build[b].set.rootless /\ Ends(b, "built")
  /\ UNCHANGED <<proxy, network, image>>

\* docker load of the tar.
LoadImage(b) ==
  /\ build[b].at = "load"
  /\ \/ Ends(b, "built") /\ image' = b
     \/ Ends(b, "failed") /\ UNCHANGED image
  /\ UNCHANGED <<proxy, network, jobs>>

\* docker build, which needs the network it is told of.
RunInDaemon(b) ==
  /\ build[b].at = "direct"
  /\ IF Mode(build[b].set) = "isolated" /\ ~network
     THEN Ends(b, "failed") /\ UNCHANGED jobs
     ELSE Goes(b, "daemon") /\ jobs' = jobs \cup {<<b, "daemon">>}
  /\ UNCHANGED <<proxy, network, image>>

DaemonEnds(b) ==
  /\ build[b].at = "daemon" /\ <<b, "daemon">> \in jobs
  /\ jobs' = jobs \ {<<b, "daemon">>}
  /\ \/ Ends(b, "built") /\ image' = b
     \/ Ends(b, "failed") /\ UNCHANGED image
  /\ UNCHANGED <<proxy, network>>

\* The timeout kills the client of Docker, not the work.
TimeOut(b) ==
  /\ build[b].at \in {"container", "daemon"} /\ \E j \in jobs : j[1] = b
  /\ Ends(b, "late")
  /\ UNCHANGED <<proxy, network, jobs, image>>

\* Work nobody waits for ends: the tar's directory is gone, the daemon's image
\* may be there.
LeftoverEnds(j) ==
  /\ build[j[1]].answer = "late"
  /\ jobs' = jobs \ {j}
  /\ image' \in {image} \cup (IF j[2] = "daemon" THEN {j[1]} ELSE {})
  /\ UNCHANGED <<build, proxy, network>>

\* SandboxNetworkFilter.stop.
Stopped(b) == IF proxy[b] = "listening" THEN "stopped" ELSE proxy[b]

\* Whatever happened, the proxy is stopped; then the answer is given.
StopProxy(b) ==
  /\ build[b].at = "stop"
  /\ Goes(b, "answered")
  /\ proxy' = [proxy EXCEPT ![b] = Stopped(b)]
  /\ UNCHANGED <<network, jobs, image>>

Init ==
  /\ build = [b \in Build |-> [at |-> "idle", answer |-> "none", set |-> None,
                          agreed |-> {}, presumed |-> FALSE]]
  /\ proxy = [b \in Build |-> "none"]
  /\ network \in BOOLEAN
  /\ jobs = {} /\ image = None

Next ==
  \/ \E b \in Build :
       \/ \E m \in Manifest, approve \in BOOLEAN, p \in Choice :
            RequestBuild(b, m, approve, p)
       \/ Unsafe(b) \/ Prepare(b) \/ CommandRefused(b) \/ BuilderEnds(b) \/ LoadImage(b)
       \/ RunInDaemon(b) \/ DaemonEnds(b) \/ TimeOut(b) \/ StopProxy(b)
  \/ \E j \in jobs : LeftoverEnds(j)

Spec == Init /\ [][Next]_vars

-----------------------------------------------------------------------------

\* What a source may arrange so that nothing holds its build: an unrestricted network or
\* another than the isolated one, and the socket of Docker.
Confined(set) ==
  /\ set.restricted => set.net = "isolated"
  /\ set.restricted \/ ~set.required
  /\ set.rootless

\* Who agreed to the endpoints agreed to this one: to its host and port, or to its host
\* alone and the port is one of the Web or such as the ports agreed to begin with.
AgreedTo(agreed, e) ==
  \E p \in agreed :
    /\ p.host \in Under(e[1])
    /\ p.port = e[2] \/ (p.port = 0 /\ e[2] \in Named(agreed))

\* Whatever fallbacks and timeouts do, a build that its source leaves confined reaches
\* nothing but what the users of the builds under way agreed to: its own user as long as
\* no other build has its proxy listening, any of them when several have.  Except what is
\* let through for a source that has the approval, or the endpoints approved, in its own
\* manifest.  A build ...
ReachesWhatIsAgreed ==
  \A b \in Build : build[b].at # "idle" /\ Confined(build[b].set) =>
    \A e \in Reach(b) : \E c \in Build :
      /\ proxy[c] = "listening"
      /\ build[c].presumed \/ AgreedTo(build[c].agreed, e)

\* ... leaves no proxy behind its answer ...
ProxiesStop == \A b \in Build : build[b].at = "answered" => proxy[b] # "listening"

\* ... and leaves the image alone unless it ended well, or goes on after its timeout.
ImageEarned == image # None => build[image].answer \in {"built", "late"}

BuildsConfined == ReachesWhatIsAgreed /\ ProxiesStop /\ ImageEarned
=============================================================================
