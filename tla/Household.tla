------------------------------ MODULE Household ------------------------------
(***************************************************************************)
(* People, buildings, rooms and devices: the one file devices.yaml and     *)
(* everything that rewrites it.  The web routes (devices.py, family.py,    *)
(* dhcp.py over DeviceService and KeaService) change the staged overlay;   *)
(* the daemon's UpdateDevice, DeleteDevice and UPnP approvals change the   *)
(* active file.  Every one of them reads the whole file, changes an entry  *)
(* and writes the whole file.  A rollback, a restored archive and the      *)
(* replication from a controller put another file in its place.            *)
(*                                                                         *)
(* Writes are atomic here: ConfigStore has the steps of a write and of a   *)
(* commit.  Names, tags, avatars and bandwidth limits are not kept.        *)
(***************************************************************************)
EXTENDS Naturals, FiniteSets

CONSTANTS
  Person, Building, Room, Mac,
  Port,        \* external ports devices ask for, with their protocol
  None,        \* no such entry, no such reference
  MaxRequests  \* bound: requests and calls that change something

VARIABLES
  active,    \* devices.yaml of the configuration directory
  staged,    \* devices.yaml of the staged directory, or None
  config,    \* the part of daemon._config that comes from it
  telling,   \* the web application's call of get_config is on the bus
  pending,   \* UPnP requests in the state database
  unchecked, \* history: what dangles because a route checks nothing
  edited,    \* history: devices the web requests since the last commit name
  overtaken, \* history: devices that changed in the active file beside a staged one
  earlier,   \* history: the versions of the active file, which git and archives keep
  requests

file == <<active, staged>>
history == <<unchecked, edited, overtaken>>
vars == <<file, config, telling, pending, history, earlier, requests>>

Location == Building \cup Room
Device == [owner : Person \cup {None}, location : Location \cup {None},
           reserved : BOOLEAN, trusted : BOOLEAN, ports : SUBSET Port]
Document == [people : SUBSET Person, buildings : SUBSET Building,
             rooms : [Room -> Building \cup {None}], devices : [Mac -> Device \cup {None}]]

HouseholdAssumption ==
  /\ MaxRequests \in Nat
  /\ None \notin Person \cup Building \cup Room
  /\ None \notin Device /\ None \notin Document
  /\ Person \cap (Building \cup Room) = {} /\ Building \cap Room = {}

Request == [mac : Mac, port : Port]

Typed ==
  /\ active \in Document /\ config \in Document
  /\ staged = None \/ staged \in Document
  /\ telling \in BOOLEAN
  /\ pending \subseteq Request
  /\ unchecked \subseteq Person \cup Location
  /\ edited \subseteq Mac /\ overtaken \subseteq Mac
  /\ requests \in 0 .. MaxRequests

TypeOK == Typed /\ earlier \subseteq Document

-----------------------------------------------------------------------------
(* The document. *)

Rooms(doc) == {r \in Room : doc.rooms[r] # None}
Registered(doc) == {m \in Mac : doc.devices[m] # None}
OwnedBy(doc, people) == {m \in Registered(doc) : doc.devices[m].owner \in people}

\* What the document refers to and does not have.
Dangling(doc) ==
  LET owners == {doc.devices[m].owner : m \in Registered(doc)}
      places == {doc.devices[m].location : m \in Registered(doc)}
  IN  ((owners \ doc.people) \cup (places \ (doc.buildings \cup Rooms(doc)))
       \cup ({doc.rooms[r] : r \in Rooms(doc)} \ doc.buildings)) \ {None}

\* validate_cross_references, for the references of this file.
Valid(doc) == Dangling(doc) = {}

\* StagingConfigRepository.get_config: the staged file hides the active one, and
\* is not validated against anything.
View == IF staged = None THEN active ELSE staged

WithDevice(doc, m, device) == [doc EXCEPT !.devices[m] = device]

-----------------------------------------------------------------------------
(* Requests to the web application. *)

Counted == requests < MaxRequests /\ requests' = requests + 1

\* A route reads the view, which takes an active directory that loads, saves the
\* whole document to the staged directory, and calls the daemon, which reloads the
\* active one.
Stages(doc, macs) ==
  /\ Counted
  /\ Valid(active)
  /\ staged' = doc
  /\ telling' = TRUE
  /\ edited' = edited \cup macs
  /\ UNCHANGED <<active, config, pending, overtaken>>

\* Creating and updating a person; neither touches a device.
SavePerson(p) ==
  /\ Stages([View EXCEPT !.people = @ \cup {p}], {})
  /\ UNCHANGED unchecked

\* The family routes do either; the name and the filter of a person are not kept.
CreateFamilyPerson(p) == p \notin View.people /\ SavePerson(p)

UpdateFamilyPerson(p) == p \in View.people /\ SavePerson(p)

SaveBuilding(b) ==
  /\ Stages([View EXCEPT !.buildings = @ \cup {b}], {})
  /\ UNCHANGED unchecked

\* The building of a room is not looked up.
SaveRoom(r, b) ==
  /\ Stages([View EXCEPT !.rooms[r] = b], {})
  /\ unchecked' = unchecked \cup ({b} \ View.buildings)

\* The devices routes delete what others refer to.
DeletePerson(p) ==
  /\ p \in View.people
  /\ Stages([View EXCEPT !.people = @ \ {p}], {})
  /\ unchecked' = unchecked \cup {p}

DeleteBuilding(b) ==
  /\ b \in View.buildings
  /\ Stages([View EXCEPT !.buildings = @ \ {b}], {})
  /\ unchecked' = unchecked \cup {b}

DeleteRoom(r) ==
  /\ r \in Rooms(View)
  /\ Stages([View EXCEPT !.rooms[r] = None], {})
  /\ unchecked' = unchecked \cup {r}

\* Mutant: every device with an owner is unlinked.
UnlinkedAll(doc, p) ==
  [doc EXCEPT !.people = @ \ {p},
              !.devices = [m \in Mac |-> IF doc.devices[m] # None
                                           THEN [doc.devices[m] EXCEPT !.owner = None]
                                           ELSE None]]

\* Mutant: the devices keep their owner.
UnlinkedNone(doc, p) == [doc EXCEPT !.people = @ \ {p}]

Unlinked(doc, p) ==
  [doc EXCEPT !.people = @ \ {p},
              !.devices = [m \in Mac |-> IF m \in OwnedBy(doc, {p})
                                           THEN [doc.devices[m] EXCEPT !.owner = None]
                                           ELSE doc.devices[m]]]

\* The family route unlinks the person's devices.
DeleteFamilyPerson(p) ==
  /\ p \in View.people
  /\ Stages(Unlinked(View, p), OwnedBy(View, {p}))
  /\ UNCHANGED unchecked

\* register_device: an owner must exist, a location must be a room.  A device that
\* is known keeps the ports it may ask for.
RegisterDevice(m, owner, location, reserved, trusted) ==
  /\ owner \in View.people \cup {None}
  /\ location \in Rooms(View) \cup {None}
  /\ LET ports == IF m \in Registered(View) THEN View.devices[m].ports ELSE {}
     IN  Stages(WithDevice(View, m,
                  [owner |-> owner, location |-> location, reserved |-> reserved,
                   trusted |-> trusted, ports |-> ports]), {m})
  /\ UNCHANGED unchecked

Blank == [owner |-> None, location |-> None, reserved |-> TRUE, trusted |-> FALSE,
          ports |-> {}]

\* With a lease or without one, the device gets a static address; a device nobody
\* registered is registered.  (Which address is another matter: a lease wins over
\* the one the request names.)
CreateReservation(m) ==
  /\ Stages(WithDevice(View, m, IF m \in Registered(View)
                                  THEN [View.devices[m] EXCEPT !.reserved = TRUE]
                                  ELSE Blank), {m})
  /\ UNCHANGED unchecked

DeleteReservation(m) ==
  /\ m \in Registered(View) /\ View.devices[m].reserved
  /\ Stages(WithDevice(View, m, [View.devices[m] EXCEPT !.reserved = FALSE]), {m})
  /\ UNCHANGED unchecked

\* The route asks the daemon first; only a daemon that fails leaves it to the
\* staged file.
DeleteDeviceStaged(m) ==
  /\ m \in Registered(View)
  /\ Stages(WithDevice(View, m, None), {m})
  /\ UNCHANGED unchecked

Discard ==
  /\ Counted
  /\ staged' = None
  /\ edited' = {} /\ overtaken' = {}
  /\ UNCHANGED <<active, config, telling, pending, unchecked>>

\* The staged file becomes the active one, and the daemon is called afterwards.
Commit ==
  /\ staged # None
  /\ active' = staged
  /\ staged' = None
  /\ telling' = TRUE
  /\ edited' = {} /\ overtaken' = {}
  /\ UNCHANGED <<config, pending, unchecked, requests>>

Reloaded(doc) == IF Valid(doc) THEN doc ELSE config

Tell ==
  /\ telling
  /\ telling' = FALSE
  /\ config' = Reloaded(active)
  /\ UNCHANGED <<file, pending, history, requests>>

-----------------------------------------------------------------------------
(* The daemon. *)

Overtakes(macs) == overtaken' = IF staged # None THEN overtaken \cup macs ELSE overtaken

Changed == {m \in Mac : active'.devices[m] # active.devices[m]}

Writes(doc) ==
  /\ active' = doc
  /\ config' = Reloaded(doc)

\* Nothing is looked up; the reload that follows fails on what dangles, and the
\* file stays.  The entry is made anew.
UpdateDevice(m, owner, location, ports) ==
  /\ Counted
  /\ Valid(active)
  /\ \E reserved, trusted \in BOOLEAN :
       Writes(WithDevice(active, m, [owner |-> owner, location |-> location,
                reserved |-> reserved, trusted |-> trusted, ports |-> ports]))
  /\ unchecked' = unchecked \cup ({owner, location}
                    \ (active.people \cup active.buildings \cup Rooms(active) \cup {None}))
  /\ Overtakes({m})
  /\ UNCHANGED <<staged, telling, pending, edited>>

DeleteDevice(m) ==
  /\ Counted
  /\ Valid(active)
  /\ Writes(WithDevice(active, m, None))
  /\ Overtakes({m})
  /\ UNCHANGED <<staged, telling, pending, unchecked, edited>>

Allowed(m, port) ==
  m \in Registered(config) /\ (config.devices[m].trusted \/ port \in config.devices[m].ports)

\* A request of a device that is neither trusted nor allowed the port is queued.
RegisterRequest(m, port) ==
  /\ ~Allowed(m, port)
  /\ Counted
  /\ pending' = pending \cup {[mac |-> m, port |-> port]}
  /\ UNCHANGED <<file, config, telling, history>>

RejectRequest(r) ==
  /\ r \in pending
  /\ pending' = pending \ {r}
  /\ UNCHANGED <<file, config, telling, history, requests>>

Marked(device, port, trust) ==
  IF trust THEN [device EXCEPT !.trusted = TRUE] ELSE [device EXCEPT !.ports = @ \cup {port}]

\* The daemon's parsed copy, with the device marked if it has it.
Approved(r, trust) ==
  IF r.mac \in Registered(config)
    THEN WithDevice(config, r.mac, Marked(config.devices[r.mac], r.port, trust))
    ELSE config

\* The request leaves the queue first; with "remember" or "trust" the parsed copy is
\* written over the active file, whatever that has become.
ApproveRequest(r, trust) ==
  /\ r \in pending
  /\ pending' = pending \ {r}
  /\ Writes(Approved(r, trust))
  /\ Overtakes(Changed)
  /\ UNCHANGED <<staged, telling, unchecked, edited, requests>>

ApproveOnce(r) ==
  /\ r \in pending
  /\ pending' = pending \ {r}
  /\ UNCHANGED <<file, config, telling, history, requests>>

-----------------------------------------------------------------------------
(* Another file in the active one's place.  Nobody looks at the staged one. *)

\* A household as the setup leaves it, furnished: one that loads.
Furnished(owner, b) ==
  [people |-> Person, buildings |-> Building, rooms |-> [r \in Room |-> b],
   devices |-> [m \in Mac |-> [Blank EXCEPT !.owner = owner]]]
Furnishings == {Furnished(owner, b) : owner \in Person \cup {None}, b \in Building}

Replaced(doc) ==
  /\ active' = doc
  /\ Overtakes(Changed)
  /\ UNCHANGED <<staged, pending, unchecked, edited>>

\* git checkout of any version it keeps; the web application calls the daemon afterwards.
Rollback(doc) == Replaced(doc) /\ telling' = TRUE /\ UNCHANGED <<config, requests>>

\* An archive may be of any time; the daemon restores it and reloads.
Restore(doc) == Replaced(doc) /\ config' = Reloaded(doc) /\ UNCHANGED <<telling, requests>>

\* The sync agent of a replica, which tells nobody.
Replicate(doc) == Counted /\ Replaced(doc) /\ UNCHANGED <<config, telling>>

-----------------------------------------------------------------------------
Init ==
  /\ active \in Furnishings
  /\ staged = None
  /\ config = active
  /\ telling = FALSE
  /\ pending = {}
  /\ unchecked = {} /\ edited = {} /\ overtaken = {}
  /\ earlier = {active}
  /\ requests = 0

Step ==
  \/ \E p \in Person :
       \/ SavePerson(p) \/ DeletePerson(p)
       \/ CreateFamilyPerson(p) \/ UpdateFamilyPerson(p) \/ DeleteFamilyPerson(p)
  \/ \E b \in Building : SaveBuilding(b) \/ DeleteBuilding(b)
  \/ \E r \in Room : DeleteRoom(r) \/ \E b \in Building : SaveRoom(r, b)
  \/ \E m \in Mac :
       \/ \E owner \in Person \cup {None}, location \in Location \cup {None} :
            \/ \E reserved, trusted \in BOOLEAN :
                 RegisterDevice(m, owner, location, reserved, trusted)
            \/ \E ports \in SUBSET Port : UpdateDevice(m, owner, location, ports)
       \/ CreateReservation(m) \/ DeleteReservation(m)
       \/ DeleteDeviceStaged(m) \/ DeleteDevice(m)
       \/ \E port \in Port : RegisterRequest(m, port)
  \/ Discard \/ Commit \/ Tell
  \/ \E r \in pending :
       RejectRequest(r) \/ ApproveOnce(r) \/ \E trust \in BOOLEAN : ApproveRequest(r, trust)
  \/ \E doc \in earlier : Rollback(doc) \/ Restore(doc)
  \/ \E doc \in Furnishings : Replicate(doc)

\* git and the archives keep what the file becomes.
Next == Step /\ earlier' = earlier \cup {active'}

Spec == Init /\ [][Next]_vars

-----------------------------------------------------------------------------
(* Properties. *)

\* Whatever is staged, committed, overwritten by the daemon, approved, rolled back,
\* restored or replicated, a device or a room refers to nothing that is gone, except to
\* what the routes that look nothing up have deleted or named: register_device, the
\* reservations, the family route and the copies of the whole file keep the references.
ReferencesHold ==
  /\ Dangling(active) \subseteq unchecked
  /\ staged # None => Dangling(staged) \subseteq unchecked

\* The whole file is committed, yet a commit changes no device but those the staged
\* requests were about, and those that changed in the active file after the staging
\* began, by the daemon, a rollback, an archive or a controller (what they became is
\* lost).
CommitKeepsOthers ==
  Commit => \A m \in Mac :
    active'.devices[m] # active.devices[m] => m \in edited \cup overtaken
CommitChangesOnlyEdits == [][CommitKeepsOthers]_vars

=============================================================================
