--------------------------- MODULE HouseholdProofs --------------------------
(***************************************************************************)
(* What holds of the household, of the settings beside it and of the setup *)
(* that makes both, for any people, places, devices, records and rules:    *)
(* Household, Settings and Setup. Each component has its invariant and the *)
(* lemmas about its steps; the results at the end are of the behaviours of *)
(* Components, and rest on nothing but ComponentsAssumption.               *)
(***************************************************************************)
EXTENDS Components, Sequences, TLAPS

-----------------------------------------------------------------------------
(* The household. *)

\* A reference to x in the document leads nowhere.
Hangs(doc, x) ==
  /\ x # None
  /\ \/ \E m \in Mac : doc.devices[m] # None /\ doc.devices[m].owner = x /\ x \notin doc.people
     \/ \E m \in Mac : /\ doc.devices[m] # None /\ doc.devices[m].location = x
                       /\ x \notin doc.buildings /\ ~(x \in Room /\ doc.rooms[x] # None)
     \/ \E r \in Room : doc.rooms[r] = x /\ x \notin doc.buildings

LEMMA DanglingHangs ==
  ASSUME NEW doc, NEW x
  PROVE  x \in Household!Dangling(doc) <=> Hangs(doc, x)
BY DEF Household!Dangling, Household!Registered, Household!Rooms, Hangs

\* The parts of a document, which the edits below are stated in.
LEMMA Parts ==
  ASSUME NEW doc \in Household!Document
  PROVE  /\ doc.people \in SUBSET Person /\ doc.buildings \in SUBSET Building
         /\ doc.rooms \in [Room -> Building \cup {None}]
         /\ doc.devices \in [Mac -> Household!Device \cup {None}]
         /\ \A persons \in SUBSET Person : [doc EXCEPT !.people = persons] \in Household!Document
         /\ \A buildings \in SUBSET Building : [doc EXCEPT !.buildings = buildings] \in Household!Document
         /\ \A r \in Room, b \in Building \cup {None} : [doc EXCEPT !.rooms[r] = b] \in Household!Document
BY DEF Household!Document

\* A device that is entered refers to what the document has, but for some.
LEMMA DeviceEntered ==
  ASSUME Household!HouseholdAssumption, NEW doc \in Household!Document, NEW m \in Mac,
         NEW device \in Household!Device \cup {None}, NEW some,
         device # None =>
           /\ device.owner \in doc.people \cup {None} \cup some \/ Hangs(doc, device.owner)
           /\ \/ device.location \in doc.buildings \cup Household!Rooms(doc) \cup {None} \cup some
              \/ Hangs(doc, device.location)
  PROVE  LET new == Household!WithDevice(doc, m, device)
         IN  /\ new \in Household!Document
             /\ new.devices = [doc.devices EXCEPT ![m] = device]
             /\ \A x : Hangs(new, x) => Hangs(doc, x) \/ x \in some
<1> DEFINE new == Household!WithDevice(doc, m, device)
<1>1. /\ new.people = doc.people /\ new.buildings = doc.buildings /\ new.rooms = doc.rooms
      /\ new.devices = [doc.devices EXCEPT ![m] = device]
      /\ new \in Household!Document
  BY DEF Household!Document, Household!WithDevice
<1> HIDE DEF new
<1>2. ASSUME NEW x, Hangs(new, x)
      PROVE  Hangs(doc, x) \/ x \in some
  <2>1. \A k \in Mac : new.devices[k] = IF k = m THEN device ELSE doc.devices[k]
    BY <1>1, Parts
  <2> QED BY <1>1, <1>2, <2>1 DEF Hangs, Household!Rooms
<1> QED BY <1>1, <1>2 DEF new

\* The references of every copy lead somewhere, but for what a route did not look up; the
\* daemon's copy was validated; and the two files differ where somebody wrote.
CopiesInv ==
  /\ Household!Typed
  /\ \A x : Hangs(active, x) => x \in unchecked
  /\ staged # None => \A x : Hangs(staged, x) => x \in unchecked
  /\ \A x : ~Hangs(config, x)
  /\ staged # None => \A m \in Mac : staged.devices[m] # active.devices[m] => m \in edited \cup overtaken

\* The same of the versions that may come back: what routes did not look up only grows.
HouseholdInv ==
  /\ CopiesInv
  /\ earlier \subseteq Household!Document
  /\ \A doc \in earlier : \A x : Hangs(doc, x) => x \in unchecked

LEMMA ViewKept ==
  ASSUME CopiesInv
  PROVE  /\ Household!View \in Household!Document
         /\ \A x : Hangs(Household!View, x) => x \in unchecked
BY DEF CopiesInv, Household!Typed, Household!View

\* A route that stages a document which differs from the view in some devices, and in
\* which nothing more hangs than it notes.
LEMMA StagesKeeps ==
  ASSUME Household!HouseholdAssumption, CopiesInv, NEW doc \in Household!Document,
         NEW macs \in SUBSET Mac, NEW more \in SUBSET (Person \cup Household!Location),
         Household!Stages(doc, macs), unchecked' = unchecked \cup more,
         \A x : Hangs(doc, x) => Hangs(Household!View, x) \/ x \in more,
         \A m \in Mac : m \notin macs => doc.devices[m] = Household!View.devices[m]
  PROVE  CopiesInv'
<1>1. /\ staged' = doc /\ telling' = TRUE /\ edited' = edited \cup macs
      /\ requests < MaxRequests /\ requests' = requests + 1
      /\ UNCHANGED <<active, config, pending, overtaken>>
  BY DEF Household!Stages, Household!Counted
<1>2. Household!Typed'
  BY <1>1 DEF CopiesInv, Household!Typed, Household!HouseholdAssumption
<1>3. \A x : Hangs(doc, x) => x \in unchecked'
  BY ViewKept
<1>4. \A m \in Mac : doc.devices[m] # active.devices[m] => m \in edited' \cup overtaken
  BY <1>1 DEF CopiesInv, Household!View
<1>5. \A x : Hangs(active, x)' <=> Hangs(active, x)
  BY <1>1 DEF Hangs
<1>6. \A x : Hangs(staged, x)' <=> Hangs(doc, x)
  BY <1>1 DEF Hangs
<1>7. \A x : Hangs(config, x)' <=> Hangs(config, x)
  BY <1>1 DEF Hangs
<1> QED BY <1>1, <1>2, <1>3, <1>4, <1>5, <1>6, <1>7 DEF CopiesInv

\* The routes that change people, buildings or rooms.
LEMMA PlacesKept ==
  ASSUME Household!HouseholdAssumption, CopiesInv,
         \/ \E p \in Person : Household!SavePerson(p) \/ Household!DeletePerson(p)
         \/ \E b \in Building : Household!SaveBuilding(b) \/ Household!DeleteBuilding(b)
         \/ \E r \in Room : Household!DeleteRoom(r) \/ \E b \in Building : Household!SaveRoom(r, b)
  PROVE  CopiesInv'
<1> DEFINE view == Household!View
<1>1. view \in Household!Document /\ unchecked \cup {} = unchecked
      /\ unchecked \in SUBSET (Person \cup Household!Location)
  BY ViewKept DEF CopiesInv, Household!Typed
<1>2. ASSUME NEW doc \in Household!Document, Household!Stages(doc, {}), UNCHANGED unchecked,
             \A x : Hangs(doc, x) => Hangs(view, x), doc.devices = view.devices
      PROVE  CopiesInv'
  BY <1>1, <1>2, StagesKeeps
<1>3. ASSUME NEW doc \in Household!Document, NEW y \in Person \cup Household!Location,
             Household!Stages(doc, {}), unchecked' = unchecked \cup {y},
             \A x : Hangs(doc, x) => Hangs(view, x) \/ x = y, doc.devices = view.devices
      PROVE  CopiesInv'
  BY <1>1, <1>3, StagesKeeps
<1> HIDE DEF view
<1>4. ASSUME NEW persons \in SUBSET Person
      PROVE  /\ [view EXCEPT !.people = persons] \in Household!Document
             /\ [view EXCEPT !.people = persons].devices = view.devices
             /\ \A x : Hangs([view EXCEPT !.people = persons], x) => Hangs(view, x) \/ x \in view.people \ persons
  BY <1>1 DEF Hangs, Household!Document
<1>5. ASSUME NEW buildings \in SUBSET Building
      PROVE  /\ [view EXCEPT !.buildings = buildings] \in Household!Document
             /\ [view EXCEPT !.buildings = buildings].devices = view.devices
             /\ \A x : Hangs([view EXCEPT !.buildings = buildings], x) =>
                         Hangs(view, x) \/ x \in view.buildings \ buildings
  BY <1>1 DEF Hangs, Household!Document
<1>6. ASSUME NEW r \in Room, NEW b \in Building \cup {None}
      PROVE  /\ [view EXCEPT !.rooms[r] = b] \in Household!Document
             /\ [view EXCEPT !.rooms[r] = b].devices = view.devices
             /\ \A x : Hangs([view EXCEPT !.rooms[r] = b], x) =>
                         \/ Hangs(view, x)
                         \/ b # None /\ x = b /\ b \notin view.buildings
                         \/ b = None /\ x = r
  <2> DEFINE new == [view EXCEPT !.rooms[r] = b]
  <2>1. /\ new.people = view.people /\ new.buildings = view.buildings /\ new.devices = view.devices
        /\ new.rooms = [view.rooms EXCEPT ![r] = b] /\ new \in Household!Document
    BY <1>1 DEF Household!Document
  <2> HIDE DEF new
  <2>2. \A q \in Room : new.rooms[q] = IF q = r THEN b ELSE view.rooms[q]
    BY <1>1, <2>1, Parts
  <2>3. ASSUME NEW x, Hangs(new, x)
        PROVE  \/ Hangs(view, x)
               \/ b # None /\ x = b /\ b \notin view.buildings
               \/ b = None /\ x = r
    BY <2>1, <2>2, <2>3 DEF Hangs
  <2> QED BY <2>1, <2>3 DEF new
<1>7. ASSUME NEW p \in Person, Household!SavePerson(p)
      PROVE  CopiesInv'
  <2>1. view.people \cup {p} \in SUBSET Person
    BY <1>1 DEF Household!Document
  <2>2. /\ Household!Stages([view EXCEPT !.people = view.people \cup {p}], {}) /\ UNCHANGED unchecked
    BY <1>7 DEF Household!SavePerson, view
  <2> QED BY <1>2, <1>4, <2>1, <2>2
<1>8. ASSUME NEW p \in Person, Household!DeletePerson(p)
      PROVE  CopiesInv'
  <2>1. view.people \ {p} \in SUBSET Person
    BY <1>1 DEF Household!Document
  <2>2. Household!Stages([view EXCEPT !.people = view.people \ {p}], {}) /\ unchecked' = unchecked \cup {p}
    BY <1>8 DEF Household!DeletePerson, view
  <2> QED BY <1>3, <1>4, <2>1, <2>2
<1>9. ASSUME NEW b \in Building, Household!SaveBuilding(b)
      PROVE  CopiesInv'
  <2>1. view.buildings \cup {b} \in SUBSET Building
    BY <1>1 DEF Household!Document
  <2>2. Household!Stages([view EXCEPT !.buildings = view.buildings \cup {b}], {}) /\ UNCHANGED unchecked
    BY <1>9 DEF Household!SaveBuilding, view
  <2> QED BY <1>2, <1>5, <2>1, <2>2
<1>10. ASSUME NEW b \in Building, Household!DeleteBuilding(b)
       PROVE  CopiesInv'
  <2>1. view.buildings \ {b} \in SUBSET Building /\ b \in Person \cup Household!Location
    BY <1>1 DEF Household!Document, Household!Location
  <2>2. Household!Stages([view EXCEPT !.buildings = view.buildings \ {b}], {}) /\ unchecked' = unchecked \cup {b}
    BY <1>10 DEF Household!DeleteBuilding, view
  <2> QED BY <1>3, <1>5, <2>1, <2>2
<1>11. ASSUME NEW r \in Room, Household!DeleteRoom(r)
       PROVE  CopiesInv'
  <2>1. Household!Stages([view EXCEPT !.rooms[r] = None], {}) /\ unchecked' = unchecked \cup {r}
    BY <1>11 DEF Household!DeleteRoom, view
  <2>2. None \in Building \cup {None} /\ r \in Person \cup Household!Location
    BY DEF Household!Location
  <2> QED BY <1>3, <1>6, <2>1, <2>2
<1>12. ASSUME NEW r \in Room, NEW b \in Building, Household!SaveRoom(r, b)
       PROVE  CopiesInv'
  <2>1. Household!Stages([view EXCEPT !.rooms[r] = b], {}) /\ unchecked' = unchecked \cup ({b} \ view.buildings)
    BY <1>12 DEF Household!SaveRoom, view
  <2>2. b # None /\ b \in Person \cup Household!Location
    BY DEF Household!HouseholdAssumption, Household!Location
  <2> DEFINE doc == [view EXCEPT !.rooms[r] = b]
  <2>3. /\ doc \in Household!Document /\ doc.devices = view.devices
        /\ \A x : Hangs(doc, x) => Hangs(view, x) \/ (x = b /\ b \notin view.buildings)
    BY <1>6, <2>2
  <2>4. Household!Stages(doc, {})
    BY <2>1
  <2> HIDE DEF doc
  <2>5. CASE b \in view.buildings
    <3>1. unchecked' = unchecked
      BY <2>1, <2>5
    <3> QED BY <1>2, <2>3, <2>4, <2>5, <3>1
  <2>6. CASE b \notin view.buildings
    <3>1. unchecked' = unchecked \cup {b}
      BY <2>1, <2>6
    <3> QED BY <1>3, <2>2, <2>3, <2>4, <3>1
  <2> QED BY <2>5, <2>6
<1> QED BY <1>7, <1>8, <1>9, <1>10, <1>11, <1>12

\* The routes that change devices: an owner or a place is the one the device had, or is
\* looked up.
LEMMA DevicesKept ==
  ASSUME Household!HouseholdAssumption, CopiesInv, NEW m \in Mac,
         \/ \E owner \in Person \cup {None}, location \in Household!Location \cup {None},
               reserved, trusted \in BOOLEAN : Household!RegisterDevice(m, owner, location, reserved, trusted)
         \/ Household!CreateReservation(m) \/ Household!DeleteReservation(m) \/ Household!DeleteDeviceStaged(m)
  PROVE  CopiesInv'
<1> DEFINE view == Household!View
<1>1. view \in Household!Document /\ unchecked \cup {} = unchecked
  BY ViewKept
<1>2. /\ view.devices \in [Mac -> Household!Device \cup {None}] /\ None \notin Household!Device
      /\ \A k \in Mac :
           /\ view.devices[k] \in Household!Device
           /\ view.devices[k].owner # None /\ view.devices[k].owner \notin view.people
           => Hangs(view, view.devices[k].owner)
      /\ \A k \in Mac :
           /\ view.devices[k] \in Household!Device
           /\ view.devices[k].location # None
           /\ view.devices[k].location \notin view.buildings \cup Household!Rooms(view)
           => Hangs(view, view.devices[k].location)
  BY <1>1, Parts DEF Hangs, Household!Rooms, Household!HouseholdAssumption
<1> HIDE DEF view
<1>3. ASSUME NEW device \in Household!Device \cup {None},
             Household!Stages(Household!WithDevice(view, m, device), {m}), UNCHANGED unchecked,
             device # None =>
               /\ device.owner \in view.people \cup {None} \/ Hangs(view, device.owner)
               /\ \/ device.location \in view.buildings \cup Household!Rooms(view) \cup {None}
                  \/ Hangs(view, device.location)
      PROVE  CopiesInv'
  <2> DEFINE doc == Household!WithDevice(view, m, device)
  <2>1. /\ doc \in Household!Document /\ doc.devices = [view.devices EXCEPT ![m] = device]
        /\ \A x : Hangs(doc, x) => Hangs(view, x) \/ x \in {}
    <3> DEFINE nothing == {}
    <3>1. \A x : x \notin nothing
      OBVIOUS
    <3> HIDE DEF nothing, doc
    <3>2. device # None =>
            /\ device.owner \in view.people \cup {None} \cup nothing \/ Hangs(view, device.owner)
            /\ \/ device.location \in view.buildings \cup Household!Rooms(view) \cup {None} \cup nothing
               \/ Hangs(view, device.location)
      BY <1>3
    <3>3. /\ doc \in Household!Document /\ doc.devices = [view.devices EXCEPT ![m] = device]
          /\ \A x : Hangs(doc, x) => Hangs(view, x) \/ x \in nothing
      BY <1>1, <3>2, DeviceEntered DEF doc
    <3> QED BY <3>1, <3>3
  <2>2. Household!Stages(doc, {m})
    BY <1>3
  <2> HIDE DEF doc
  <2>3. \A k \in Mac : k \notin {m} => doc.devices[k] = view.devices[k]
    BY <1>2, <2>1
  <2> QED BY <1>1, <1>3, <2>1, <2>2, <2>3, StagesKeeps DEF view
<1>4. ASSUME NEW owner \in Person \cup {None}, NEW location \in Household!Location \cup {None},
             NEW reserved \in BOOLEAN, NEW trusted \in BOOLEAN,
             Household!RegisterDevice(m, owner, location, reserved, trusted)
      PROVE  CopiesInv'
  <2> DEFINE ports == IF m \in Household!Registered(view) THEN view.devices[m].ports ELSE {}
             device == [owner |-> owner, location |-> location, reserved |-> reserved,
                        trusted |-> trusted, ports |-> ports]
  <2>1. ports \in SUBSET Port
    BY <1>2 DEF Household!Registered, Household!Device
  <2>2. /\ owner \in view.people \cup {None} /\ location \in Household!Rooms(view) \cup {None}
        /\ Household!Stages(Household!WithDevice(view, m, device), {m}) /\ UNCHANGED unchecked
    BY <1>4 DEF Household!RegisterDevice, view
  <2> HIDE DEF ports
  <2>3. device \in Household!Device /\ device.owner = owner /\ device.location = location
    BY <2>1 DEF Household!Device
  <2> HIDE DEF device
  <2> QED BY <1>3, <2>2, <2>3
<1>5. CASE Household!CreateReservation(m)
  <2>1. CASE m \in Household!Registered(view)
    <3> DEFINE device == [view.devices[m] EXCEPT !.reserved = TRUE]
    <3>1. Household!Stages(Household!WithDevice(view, m, device), {m}) /\ UNCHANGED unchecked
      BY <1>5, <2>1 DEF Household!CreateReservation, view
    <3>2. view.devices[m] \in Household!Device
      BY <1>2, <2>1 DEF Household!Registered
    <3>3. device \in Household!Device /\ device.owner = view.devices[m].owner
          /\ device.location = view.devices[m].location
      BY <3>2 DEF Household!Device
    <3> HIDE DEF device
    <3> QED BY <1>2, <1>3, <3>1, <3>2, <3>3
  <2>2. CASE m \notin Household!Registered(view)
    <3>1. Household!Stages(Household!WithDevice(view, m, Household!Blank), {m}) /\ UNCHANGED unchecked
      BY <1>5, <2>2 DEF Household!CreateReservation, view
    <3>2. Household!Blank \in Household!Device /\ Household!Blank.owner = None /\ Household!Blank.location = None
      BY DEF Household!Blank, Household!Device
    <3> QED BY <1>3, <3>1, <3>2
  <2> QED BY <2>1, <2>2
<1>6. CASE Household!DeleteReservation(m)
  <2> DEFINE device == [view.devices[m] EXCEPT !.reserved = FALSE]
  <2>1. Household!Stages(Household!WithDevice(view, m, device), {m}) /\ UNCHANGED unchecked
        /\ m \in Household!Registered(view)
    BY <1>6 DEF Household!DeleteReservation, view
  <2>2. view.devices[m] \in Household!Device
    BY <1>2, <2>1 DEF Household!Registered
  <2>3. device \in Household!Device /\ device.owner = view.devices[m].owner
        /\ device.location = view.devices[m].location
    BY <2>2 DEF Household!Device
  <2> HIDE DEF device
  <2> QED BY <1>2, <1>3, <2>1, <2>2, <2>3
<1>7. CASE Household!DeleteDeviceStaged(m)
  <2>1. Household!Stages(Household!WithDevice(view, m, None), {m}) /\ UNCHANGED unchecked
    BY <1>7 DEF Household!DeleteDeviceStaged, view
  <2> QED BY <1>3, <2>1
<1> QED BY <1>4, <1>5, <1>6, <1>7

\* The family route unlinks the devices of the person it deletes.
LEMMA UnlinkedKept ==
  ASSUME Household!HouseholdAssumption, CopiesInv, NEW p \in Person, Household!DeleteFamilyPerson(p)
  PROVE  CopiesInv'
<1> DEFINE view == Household!View
           doc == Household!Unlinked(view, p)
           macs == Household!OwnedBy(view, {p})
<1>1. view \in Household!Document /\ macs \in SUBSET Mac /\ unchecked \cup {} = unchecked
  BY ViewKept DEF Household!OwnedBy, Household!Registered
<1> HIDE DEF view
<1>2. \A m \in macs : /\ view.devices[m] \in Household!Device
                      /\ [view.devices[m] EXCEPT !.owner = None] \in Household!Device
                      /\ [view.devices[m] EXCEPT !.owner = None].owner = None
                      /\ [view.devices[m] EXCEPT !.owner = None].location = view.devices[m].location
  BY <1>1, Parts DEF Household!OwnedBy, Household!Registered, Household!Device
<1>3. /\ doc.people = view.people \ {p} /\ doc.buildings = view.buildings /\ doc.rooms = view.rooms
      /\ doc.devices = [m \in Mac |-> IF m \in macs THEN [view.devices[m] EXCEPT !.owner = None]
                                      ELSE view.devices[m]]
  BY <1>1 DEF Household!Unlinked, Household!Document
<1>4. doc.devices \in [Mac -> Household!Device \cup {None}]
  <2>1. \A m \in Mac : (IF m \in macs THEN [view.devices[m] EXCEPT !.owner = None] ELSE view.devices[m])
                       \in Household!Device \cup {None}
    BY <1>1, <1>2, Parts
  <2> QED BY <1>3, <2>1
<1>5. doc \in Household!Document
  <2>1. \A persons \in SUBSET Person, devices \in [Mac -> Household!Device \cup {None}] :
          [view EXCEPT !.people = persons, !.devices = devices] \in Household!Document
    BY <1>1 DEF Household!Document
  <2>2. doc = [view EXCEPT !.people = doc.people, !.devices = doc.devices]
    BY <1>1, <1>3 DEF Household!Unlinked, Household!Document
  <2>3. doc.people \in SUBSET Person
    BY <1>1, <1>3, Parts
  <2> HIDE DEF doc
  <2> QED BY <1>4, <2>1, <2>2, <2>3
<1>6. Household!Stages(doc, macs) /\ UNCHANGED unchecked
  BY DEF Household!DeleteFamilyPerson, view
<1>7. \A m \in Mac : (m \in macs <=> view.devices[m] # None /\ view.devices[m].owner = p)
  BY <1>1 DEF Household!OwnedBy, Household!Registered
<1> HIDE DEF doc, macs
<1>8. ASSUME NEW x, Hangs(doc, x)
      PROVE  Hangs(view, x)
  <2>1. x # None
    BY <1>8 DEF Hangs
  <2>2. CASE \E m \in Mac : doc.devices[m] # None /\ doc.devices[m].owner = x /\ x \notin doc.people
    <3>1. PICK m \in Mac : doc.devices[m] # None /\ doc.devices[m].owner = x /\ x \notin doc.people
      BY <2>2
    <3>2. m \notin macs /\ doc.devices[m] = view.devices[m]
      BY <1>2, <1>3, <2>1, <3>1
    <3>3. x # p /\ x \notin view.people
      BY <1>3, <1>7, <3>1, <3>2
    <3> QED BY <2>1, <3>1, <3>2, <3>3 DEF Hangs
  <2>3. CASE \E m \in Mac : /\ doc.devices[m] # None /\ doc.devices[m].location = x
                            /\ x \notin doc.buildings /\ ~(x \in Room /\ doc.rooms[x] # None)
    <3>1. PICK m \in Mac : /\ doc.devices[m] # None /\ doc.devices[m].location = x
                           /\ x \notin doc.buildings /\ ~(x \in Room /\ doc.rooms[x] # None)
      BY <2>3
    <3>2. view.devices[m] # None /\ view.devices[m].location = x
      BY <1>2, <1>3, <1>7, <3>1
    <3> QED BY <1>3, <2>1, <3>1, <3>2 DEF Hangs
  <2>4. CASE \E r \in Room : doc.rooms[r] = x /\ x \notin doc.buildings
    BY <1>3, <2>1, <2>4 DEF Hangs
  <2> QED BY <1>8, <2>2, <2>3, <2>4 DEF Hangs
<1>9. \A m \in Mac : m \notin macs => doc.devices[m] = view.devices[m]
  BY <1>3
<1> QED BY <1>1, <1>5, <1>6, <1>8, <1>9, StagesKeeps DEF view

LEMMA ReloadedSound ==
  ASSUME CopiesInv, NEW doc \in Household!Document
  PROVE  Household!Reloaded(doc) \in Household!Document /\ \A x : ~Hangs(Household!Reloaded(doc), x)
<1>1. Household!Valid(doc) => \A x : ~Hangs(doc, x)
  BY DanglingHangs DEF Household!Valid
<1> QED BY <1>1 DEF CopiesInv, Household!Typed, Household!Reloaded

\* The daemon writes a document over the active file in which nothing more hangs than is
\* noted, and which differs from it in devices that are noted, too.
LEMMA WritesKeeps ==
  ASSUME CopiesInv, NEW doc \in Household!Document, Household!Writes(doc),
         \A x : Hangs(doc, x) => x \in unchecked',
         unchecked \subseteq unchecked', unchecked' \subseteq Person \cup Household!Location,
         overtaken \subseteq overtaken', overtaken' \subseteq Mac,
         staged # None => \A m \in Mac : doc.devices[m] # active.devices[m] => m \in overtaken',
         pending' \subseteq Household!Request, requests' \in 0 .. MaxRequests,
         UNCHANGED <<staged, telling, edited>>
  PROVE  CopiesInv'
<1>1. active' = doc /\ config' = Household!Reloaded(doc)
  BY DEF Household!Writes
<1>2. config' \in Household!Document /\ \A x : ~Hangs(config', x)
  BY <1>1, ReloadedSound
<1>3. Household!Typed'
  BY <1>1, <1>2 DEF CopiesInv, Household!Typed
<1>4. /\ \A x : Hangs(active, x)' <=> Hangs(doc, x)
      /\ \A x : Hangs(config, x)' <=> Hangs(config', x)
      /\ \A x : Hangs(staged, x)' <=> Hangs(staged, x)
  BY <1>1 DEF Hangs
<1>5. staged # None => \A m \in Mac : staged.devices[m] # doc.devices[m] => m \in edited \cup overtaken'
  BY DEF CopiesInv
<1> QED BY <1>1, <1>2, <1>3, <1>4, <1>5 DEF CopiesInv

LEMMA DaemonKept ==
  ASSUME Household!HouseholdAssumption, CopiesInv,
         \/ \E m \in Mac : \/ Household!DeleteDevice(m)
                           \/ \E owner \in Person \cup {None}, location \in Household!Location \cup {None},
                                 ports \in SUBSET Port : Household!UpdateDevice(m, owner, location, ports)
         \/ \E r \in pending, trust \in BOOLEAN : Household!ApproveRequest(r, trust)
  PROVE  CopiesInv'
<1>1. Household!Typed /\ active \in Household!Document /\ config \in Household!Document
      /\ unchecked \subseteq Person \cup Household!Location /\ overtaken \subseteq Mac
      /\ pending \subseteq Household!Request /\ MaxRequests \in Nat /\ requests \in 0 .. MaxRequests
      /\ \A x : Hangs(active, x) => x \in unchecked
  BY DEF CopiesInv, Household!Typed, Household!HouseholdAssumption
<1>2. ASSUME NEW m \in Mac, NEW device \in Household!Device \cup {None}, Household!Counted,
             Household!Writes(Household!WithDevice(active, m, device)), Household!Overtakes({m}),
             \A x : Hangs(Household!WithDevice(active, m, device), x) => x \in unchecked',
             unchecked \subseteq unchecked', unchecked' \subseteq Person \cup Household!Location,
             UNCHANGED <<staged, telling, pending, edited>>
      PROVE  CopiesInv'
  <2> DEFINE doc == Household!WithDevice(active, m, device)
  <2>1. doc \in Household!Document /\ doc.devices = [active.devices EXCEPT ![m] = device]
    BY <1>1 DEF Household!WithDevice, Household!Document
  <2>2. Household!Writes(doc) /\ \A x : Hangs(doc, x) => x \in unchecked'
    BY <1>2
  <2> HIDE DEF doc
  <2>3. \A k \in Mac : doc.devices[k] # active.devices[k] => k = m
    BY <1>1, <2>1, Parts
  <2>4. requests' \in 0 .. MaxRequests
    BY <1>1, <1>2 DEF Household!Counted
  <2>5. /\ overtaken \subseteq overtaken' /\ overtaken' \subseteq Mac
        /\ staged # None => \A k \in Mac : doc.devices[k] # active.devices[k] => k \in overtaken'
    BY <1>1, <1>2, <2>3 DEF Household!Overtakes
  <2> QED BY <1>1, <1>2, <2>1, <2>2, <2>4, <2>5, WritesKeeps
<1>3. ASSUME NEW m \in Mac, Household!DeleteDevice(m)
      PROVE  CopiesInv'
  <2>1. /\ Household!Counted /\ Household!Writes(Household!WithDevice(active, m, None)) /\ Household!Overtakes({m})
        /\ UNCHANGED <<staged, telling, pending, unchecked, edited>>
    BY <1>3 DEF Household!DeleteDevice
  <2> DEFINE nothing == {}
             doc == Household!WithDevice(active, m, None)
  <2>2. \A x : x \notin nothing
    OBVIOUS
  <2> HIDE DEF nothing, doc
  <2>3. \A x : Hangs(doc, x) => Hangs(active, x) \/ x \in nothing
    BY <1>1, DeviceEntered DEF doc
  <2>4. \A x : Hangs(Household!WithDevice(active, m, None), x) => x \in unchecked'
    BY <1>1, <2>1, <2>2, <2>3 DEF doc
  <2> QED BY <1>1, <1>2, <2>1, <2>4
<1>4. ASSUME NEW m \in Mac, NEW owner \in Person \cup {None}, NEW location \in Household!Location \cup {None},
             NEW ports \in SUBSET Port, Household!UpdateDevice(m, owner, location, ports)
      PROVE  CopiesInv'
  <2>1. PICK reserved \in BOOLEAN, trusted \in BOOLEAN :
          Household!Writes(Household!WithDevice(active, m,
            [owner |-> owner, location |-> location, reserved |-> reserved, trusted |-> trusted, ports |-> ports]))
    BY <1>4 DEF Household!UpdateDevice
  <2> DEFINE device == [owner |-> owner, location |-> location, reserved |-> reserved, trusted |-> trusted,
                        ports |-> ports]
             doc == Household!WithDevice(active, m, device)
             more == {owner, location} \ (active.people \cup active.buildings \cup Household!Rooms(active) \cup {None})
  <2>2. device \in Household!Device /\ device.owner = owner /\ device.location = location
    BY DEF Household!Device
  <2>3. /\ Household!Counted /\ Household!Writes(doc) /\ Household!Overtakes({m})
        /\ unchecked' = unchecked \cup more /\ UNCHANGED <<staged, telling, pending, edited>>
    BY <1>4, <2>1 DEF Household!UpdateDevice
  <2>4. /\ active.people \subseteq Person /\ active.buildings \subseteq Building
        /\ Household!Rooms(active) \subseteq Room
    BY <1>1 DEF Household!Document, Household!Rooms
  <2>5. more \subseteq Person \cup Household!Location
        /\ owner \in active.people \cup {None} \cup more
        /\ location \in active.buildings \cup Household!Rooms(active) \cup {None} \cup more
    BY <2>4 DEF Household!HouseholdAssumption, Household!Location
  <2> HIDE DEF device, more, doc
  <2>6. \A x : Hangs(doc, x) => Hangs(active, x) \/ x \in more
    BY <1>1, <2>2, <2>5, DeviceEntered DEF doc
  <2>7. \A x : Hangs(Household!WithDevice(active, m, device), x) => x \in unchecked'
    BY <1>1, <2>3, <2>6 DEF doc
  <2>8. Household!Writes(Household!WithDevice(active, m, device))
    BY <2>3 DEF doc
  <2> QED BY <1>1, <1>2, <2>2, <2>3, <2>5, <2>7, <2>8
<1>5. ASSUME NEW r \in pending, NEW trust \in BOOLEAN, Household!ApproveRequest(r, trust)
      PROVE  CopiesInv'
  <2> DEFINE doc == Household!Approved(r, trust)
  <2>1. /\ pending' = pending \ {r} /\ Household!Writes(doc)
        /\ Household!Overtakes(Household!Changed)
        /\ UNCHANGED <<staged, telling, unchecked, edited, requests>>
    BY <1>5 DEF Household!ApproveRequest
  <2>2. r.mac \in Mac /\ r.port \in Port
    BY <1>1 DEF Household!Request
  <2>3. doc \in Household!Document /\ \A x : ~Hangs(doc, x)
    <3>1. CASE r.mac \notin Household!Registered(config)
      <4>1. doc = config
        BY <3>1 DEF Household!Approved
      <4> QED BY <1>1, <4>1 DEF CopiesInv
    <3>2. CASE r.mac \in Household!Registered(config)
      <4> DEFINE m == r.mac
                 device == Household!Marked(config.devices[m], r.port, trust)
                 nothing == {}
      <4>1. m \in Mac /\ config.devices[m] \in Household!Device /\ config.devices[m] # None
        BY <1>1, <2>2, <3>2, Parts DEF Household!Registered
      <4>2. device \in Household!Device /\ device.owner = config.devices[m].owner
            /\ device.location = config.devices[m].location
        BY <2>2, <4>1 DEF Household!Marked, Household!Device
      <4>3. doc = Household!WithDevice(config, m, device)
        BY <3>2 DEF Household!Approved
      <4>4. \A x : x \notin nothing
        OBVIOUS
      <4> HIDE DEF doc, device, m, nothing
      <4>5. /\ device.owner \in config.people \cup {None} \cup nothing \/ Hangs(config, device.owner)
            /\ \/ device.location \in config.buildings \cup Household!Rooms(config) \cup {None} \cup nothing
               \/ Hangs(config, device.location)
        BY <4>1, <4>2 DEF Hangs, Household!Rooms
      <4>6. doc \in Household!Document /\ \A x : Hangs(doc, x) => Hangs(config, x) \/ x \in nothing
        BY <1>1, <4>1, <4>2, <4>3, <4>5, DeviceEntered
      <4> QED BY <4>4, <4>6 DEF CopiesInv
    <3> QED BY <3>1, <3>2
  <2>4. active' = doc
    BY <2>1 DEF Household!Writes
  <2> HIDE DEF doc
  <2>5. /\ overtaken \subseteq overtaken' /\ overtaken' \subseteq Mac
        /\ staged # None => \A k \in Mac : doc.devices[k] # active.devices[k] => k \in overtaken'
    BY <1>1, <2>1, <2>4 DEF Household!Overtakes, Household!Changed
  <2> QED BY <1>1, <2>1, <2>3, <2>5, WritesKeeps
<1> QED BY <1>3, <1>4, <1>5

LEMMA FurnishedLoads ==
  ASSUME Household!HouseholdAssumption, NEW doc \in Household!Furnishings
  PROVE  doc \in Household!Document /\ \A x : ~Hangs(doc, x)
<1>1. PICK owner \in Person \cup {None}, b \in Building : doc = Household!Furnished(owner, b)
  BY DEF Household!Furnishings
<1> DEFINE device == [Household!Blank EXCEPT !.owner = owner]
<1>2. /\ doc.people = Person /\ doc.buildings = Building /\ doc.rooms = [r \in Room |-> b]
      /\ doc.devices = [m \in Mac |-> device]
  BY <1>1 DEF Household!Furnished
<1>3. device \in Household!Device /\ device.owner = owner /\ device.location = None
  BY DEF Household!Blank, Household!Device
<1>4. doc \in Household!Document
  <2> DEFINE rooms == [r \in Room |-> b]
             devices == [m \in Mac |-> device]
  <2>1. doc = [people |-> Person, buildings |-> Building, rooms |-> rooms, devices |-> devices]
    BY <1>1 DEF Household!Furnished
  <2> HIDE DEF device
  <2>2. rooms \in [Room -> Building \cup {None}] /\ devices \in [Mac -> Household!Device \cup {None}]
    BY <1>3
  <2> HIDE DEF rooms, devices
  <2> QED BY <2>1, <2>2 DEF Household!Document
<1> HIDE DEF device
<1> QED BY <1>2, <1>3, <1>4 DEF Hangs

\* Another file in the active one's place: an earlier one, or a controller's.
LEMMA AnotherFile ==
  ASSUME Household!HouseholdAssumption, HouseholdInv,
         \/ \E doc \in earlier : Household!Rollback(doc) \/ Household!Restore(doc)
         \/ \E doc \in Household!Furnishings : Household!Replicate(doc)
  PROVE  CopiesInv'
<1>1. PICK doc \in earlier \cup Household!Furnishings :
        /\ Household!Replaced(doc)
        /\ telling' \in BOOLEAN /\ (config' = config \/ config' = Household!Reloaded(doc))
        /\ requests' \in 0 .. MaxRequests
  <2>1. telling \in BOOLEAN /\ requests \in 0 .. MaxRequests /\ MaxRequests \in Nat
    BY DEF HouseholdInv, CopiesInv, Household!Typed, Household!HouseholdAssumption
  <2>2. ASSUME NEW doc \in earlier, Household!Rollback(doc) \/ Household!Restore(doc)
        PROVE  /\ Household!Replaced(doc) /\ requests' = requests
               /\ telling' \in BOOLEAN /\ (config' = config \/ config' = Household!Reloaded(doc))
    BY <2>1, <2>2 DEF Household!Rollback, Household!Restore
  <2>3. ASSUME NEW doc \in Household!Furnishings, Household!Replicate(doc)
        PROVE  /\ Household!Replaced(doc) /\ requests' \in 0 .. MaxRequests
               /\ telling' \in BOOLEAN /\ config' = config
    BY <2>1, <2>3 DEF Household!Replicate, Household!Counted
  <2> QED BY <2>1, <2>2, <2>3
<1>2. doc \in Household!Document /\ \A x : Hangs(doc, x) => x \in unchecked
  BY FurnishedLoads DEF HouseholdInv
<1>3. /\ active' = doc /\ Household!Overtakes(Household!Changed)
      /\ UNCHANGED <<staged, pending, unchecked, edited>>
  BY <1>1 DEF Household!Replaced
<1>4. config' \in Household!Document /\ \A x : ~Hangs(config', x)
  BY <1>1, <1>2, ReloadedSound DEF HouseholdInv, CopiesInv, Household!Typed
<1>5. overtaken \subseteq overtaken' /\ overtaken' \subseteq Mac
      /\ (staged # None => \A m \in Mac : doc.devices[m] # active.devices[m] => m \in overtaken')
  BY <1>3 DEF Household!Overtakes, Household!Changed, HouseholdInv, CopiesInv, Household!Typed
<1>6. Household!Typed'
  BY <1>1, <1>2, <1>3, <1>4, <1>5 DEF HouseholdInv, CopiesInv, Household!Typed
<1>7. /\ \A x : Hangs(active, x)' <=> Hangs(doc, x)
      /\ \A x : Hangs(config, x)' <=> Hangs(config', x)
      /\ \A x : Hangs(staged, x)' <=> Hangs(staged, x)
  BY <1>3 DEF Hangs
<1>8. staged # None => \A m \in Mac : staged.devices[m] # doc.devices[m] => m \in edited \cup overtaken'
  BY <1>5 DEF HouseholdInv, CopiesInv
<1> QED BY <1>2, <1>3, <1>4, <1>6, <1>7, <1>8 DEF HouseholdInv, CopiesInv

\* No step forgets what a route did not look up.
LEMMA NotesGrow ==
  ASSUME Household!Step
  PROVE  unchecked \subseteq unchecked'
BY DEF Household!Step, Household!SavePerson, Household!CreateFamilyPerson, Household!UpdateFamilyPerson,
       Household!SaveBuilding, Household!SaveRoom, Household!DeletePerson, Household!DeleteBuilding,
       Household!DeleteRoom, Household!DeleteFamilyPerson, Household!RegisterDevice,
       Household!CreateReservation, Household!DeleteReservation, Household!DeleteDeviceStaged,
       Household!Discard, Household!Commit, Household!Tell, Household!UpdateDevice, Household!DeleteDevice,
       Household!RegisterRequest, Household!RejectRequest, Household!ApproveRequest, Household!ApproveOnce,
       Household!Rollback, Household!Restore, Household!Replicate, Household!Replaced, Household!history

LEMMA CopiesKept ==
  ASSUME Household!HouseholdAssumption, HouseholdInv, CopiesInv, Household!Step
  PROVE  CopiesInv'
<1> USE DEF Household!file, Household!history
<1>1. ASSUME UNCHANGED <<active, staged, config, unchecked, edited, overtaken>>,
             telling' \in BOOLEAN, pending' \subseteq Household!Request, requests' \in 0 .. MaxRequests
      PROVE  CopiesInv'
  BY <1>1 DEF CopiesInv, Household!Typed, Hangs
<1>2. Household!Typed /\ MaxRequests \in Nat
  BY DEF HouseholdInv, CopiesInv, Household!HouseholdAssumption
<1>4. CASE Household!Discard
  <2>1. staged' = None /\ edited' = {} /\ overtaken' = {} /\ requests' \in 0 .. MaxRequests
        /\ UNCHANGED <<active, config, telling, pending, unchecked>>
    BY <1>2, <1>4 DEF Household!Discard, Household!Counted, Household!Typed
  <2> QED BY <2>1 DEF CopiesInv, Household!Typed, Hangs
<1>5. CASE Household!Commit
  <2>1. staged # None /\ active' = staged /\ staged' = None /\ telling' = TRUE /\ edited' = {} /\ overtaken' = {}
        /\ UNCHANGED <<config, pending, unchecked, requests>>
    BY <1>5 DEF Household!Commit
  <2> QED BY <2>1 DEF CopiesInv, Household!Typed, Hangs
<1>6. CASE Household!Tell
  <2>1. telling' = FALSE /\ config' = Household!Reloaded(active)
        /\ UNCHANGED <<active, staged, pending, unchecked, edited, overtaken, requests>>
    BY <1>6 DEF Household!Tell
  <2>2. config' \in Household!Document /\ \A x : ~Hangs(config', x)
    BY <1>2, <2>1, ReloadedSound DEF Household!Typed
  <2> QED BY <2>1, <2>2 DEF CopiesInv, Household!Typed, Hangs
<1>7. ASSUME NEW m \in Mac, NEW port \in Port, Household!RegisterRequest(m, port)
      PROVE  CopiesInv'
  <2>1. requests' \in 0 .. MaxRequests /\ pending' \subseteq Household!Request
        /\ UNCHANGED <<active, staged, config, telling, unchecked, edited, overtaken>>
    BY <1>2, <1>7 DEF Household!RegisterRequest, Household!Counted, Household!Typed, Household!Request
  <2> QED BY <1>1, <1>2, <2>1 DEF Household!Typed
<1>8. ASSUME NEW r \in pending, Household!RejectRequest(r) \/ Household!ApproveOnce(r)
      PROVE  CopiesInv'
  <2>1. pending' = pending \ {r} /\ UNCHANGED <<active, staged, config, telling, unchecked, edited, overtaken, requests>>
    BY <1>8 DEF Household!RejectRequest, Household!ApproveOnce
  <2> QED BY <1>1, <1>2, <2>1 DEF Household!Typed
<1>9. CASE \/ \E doc \in earlier : Household!Rollback(doc) \/ Household!Restore(doc)
           \/ \E doc \in Household!Furnishings : Household!Replicate(doc)
  BY <1>9, AnotherFile
<1> QED BY <1>4, <1>5, <1>6, <1>7, <1>8, <1>9, PlacesKept, DevicesKept, UnlinkedKept, DaemonKept
        DEF Household!Step, Household!CreateFamilyPerson, Household!UpdateFamilyPerson

LEMMA HouseholdKeeps ==
  ASSUME Household!HouseholdAssumption, HouseholdInv, [Household!Next]_Household!vars
  PROVE  HouseholdInv'
<1>1. CASE UNCHANGED Household!vars
  BY <1>1 DEF HouseholdInv, CopiesInv, Household!vars, Household!file, Household!history, Household!Typed, Hangs
<1>2. CASE Household!Next
  <2>1. Household!Step /\ earlier' = earlier \cup {active'}
    BY <1>2 DEF Household!Next
  <2>2. CopiesInv'
    BY <2>1, CopiesKept DEF HouseholdInv
  <2>3. active' \in Household!Document /\ \A x : Hangs(active', x) => x \in unchecked'
    <3>1. \A x : Hangs(active', x) => Hangs(active, x)'
      BY DEF Hangs
    <3> QED BY <2>2, <3>1 DEF CopiesInv, Household!Typed
  <2>4. unchecked \subseteq unchecked'
    BY <2>1, NotesGrow
  <2>5. \A doc \in earlier' : doc \in Household!Document /\ \A x : Hangs(doc, x) => x \in unchecked'
    BY <2>1, <2>3, <2>4 DEF HouseholdInv
  <2> QED BY <2>2, <2>5 DEF HouseholdInv
<1> QED BY <1>1, <1>2


LEMMA HouseholdBegins ==
  ASSUME Household!HouseholdAssumption, Household!Init
  PROVE  HouseholdInv
<1>1. active \in Household!Document /\ \A x : ~Hangs(active, x)
  BY FurnishedLoads DEF Household!Init
<1>2. /\ staged = None /\ config = active /\ telling = FALSE /\ pending = {} /\ requests = 0
      /\ unchecked = {} /\ edited = {} /\ overtaken = {} /\ earlier = {active} /\ MaxRequests \in Nat
  BY DEF Household!Init, Household!HouseholdAssumption
<1>3. Household!Typed
  <2>1. active \in Household!Document /\ config \in Household!Document /\ staged = None
    BY <1>1, <1>2
  <2>2. telling \in BOOLEAN /\ pending \subseteq Household!Request
    BY <1>2
  <2>3. unchecked \subseteq Person \cup Household!Location /\ edited \subseteq Mac /\ overtaken \subseteq Mac
    BY <1>2
  <2>4. requests \in 0 .. MaxRequests
    BY <1>2
  <2> QED BY <2>1, <2>2, <2>3, <2>4 DEF Household!Typed
<1>4. CopiesInv
  BY <1>1, <1>2, <1>3 DEF CopiesInv
<1> QED BY <1>1, <1>2, <1>4 DEF HouseholdInv

LEMMA HouseholdHolds ==
  ASSUME Household!HouseholdAssumption
  PROVE  Household!Spec => []HouseholdInv
<1>1. Household!Init => HouseholdInv
  BY HouseholdBegins
<1>2. HouseholdInv /\ [Household!Next]_Household!vars => HouseholdInv'
  BY HouseholdKeeps
<1> QED BY <1>1, <1>2, PTL DEF Household!Spec

-----------------------------------------------------------------------------
(* Settings. *)

FirewallSettings == Settings!SettingsOf("firewall")

\* What an editor of firewall.yaml has in hand: all settings of the file as it read
\* them, and as it is to write them, which is different in one.
InHand(opened) ==
  /\ DOMAIN opened.new = FirewallSettings
  /\ opened.of \in FirewallSettings
  /\ \A s \in FirewallSettings : s # opened.of => opened.new[s] = opened.read[s]

\* An open page shows the whole section of the network.
WholeSections ==
  /\ active = [s \in Settings!Setting |-> active[s]]
  /\ DOMAIN editor = Settings!Editor
  /\ \A e \in Settings!Editor : editor[e] # None => InHand(editor[e])
  /\ page # None => DOMAIN page = Settings!SettingsOf("network")

SettingsInv == WholeSections /\ Settings!SettingsKept

-----------------------------------------------------------------------------
\* The files have no setting in common.
LEMMA FileOfSettings ==
  ASSUME NEW f \in Settings!File, NEW s \in Settings!SettingsOf(f)
  PROVE  s \in Settings!Setting /\ Settings!FileOf(s) = f
<1>1. s \in Settings!Setting
  BY DEF Settings!Setting
<1>2. \A g \in Settings!File : s \in Settings!SettingsOf(g) => g = f
  BY DEF Settings!File, Settings!SettingsOf
<1>3. QED
  BY <1>1, <1>2 DEF Settings!FileOf

LEMMA FileOfType ==
  ASSUME NEW s \in Settings!Setting
  PROVE  Settings!FileOf(s) \in Settings!File /\ s \in Settings!SettingsOf(Settings!FileOf(s))
  BY DEF Settings!Setting, Settings!FileOf

\* A save keeps the account: it changes the view by what it was given, if that is of
\* the files it saves.
LEMMA SaveKeeps ==
  ASSUME Settings!SettingsKept, NEW fs, NEW altered, Settings!Put(fs, altered),
         \A s \in DOMAIN altered : s \in Settings!Setting /\ Settings!FileOf(s) \in fs
  PROVE  Settings!SettingsKept'
<1>1. /\ staged' = staged \cup fs /\ UNCHANGED <<active, invalid>>
      /\ copy' = Settings!Staged(fs, altered)
      /\ wanted' = Settings!With(altered, wanted)
  BY DEF Settings!Put
<1>2. ASSUME NEW s \in Settings!Setting PROVE wanted'[s] = Settings!View'[s]
  <2>1. wanted'[s] = IF s \in DOMAIN altered THEN altered[s] ELSE Settings!View[s]
    BY <1>1 DEF Settings!With, Settings!SettingsKept
  <2>2. Settings!View'[s] = IF Settings!FileOf(s) \in staged \cup fs THEN copy'[s] ELSE active[s]
    BY <1>1 DEF Settings!View
  <2>3. copy'[s] = IF Settings!FileOf(s) \notin fs THEN copy[s]
                   ELSE IF s \in DOMAIN altered THEN altered[s] ELSE Settings!View[s]
    BY <1>1 DEF Settings!Staged
  <2>4. Settings!View[s] = IF Settings!FileOf(s) \in staged THEN copy[s] ELSE active[s]
    BY DEF Settings!View
  <2>5. QED
    BY <2>1, <2>2, <2>3, <2>4
<1>3. wanted' = [s \in Settings!Setting |-> wanted'[s]] /\ Settings!View' = [s \in Settings!Setting |-> Settings!View'[s]]
  BY <1>1 DEF Settings!With, Settings!View
<1>4. QED
  BY <1>2, <1>3 DEF Settings!SettingsKept

\* The form most requests have: one setting of one file.
LEMMA SaveOneKeeps ==
  ASSUME SettingsInv, NEW f \in Settings!File, NEW s \in Settings!SettingsOf(f), NEW v, Settings!Put({f}, Settings!Only(s, v))
  PROVE  SettingsInv'
<1>1. \A one \in DOMAIN Settings!Only(s, v) : one \in Settings!Setting /\ Settings!FileOf(one) \in {f}
  BY FileOfSettings DEF Settings!Only
<1>2. Settings!SettingsKept'
  BY <1>1, SaveKeeps DEF SettingsInv
<1>3. QED
  BY <1>2 DEF SettingsInv, WholeSections, Settings!Put

\* ... or several settings of one.
LEMMA SaveFileKeeps ==
  ASSUME SettingsInv, NEW f \in Settings!File, NEW altered, DOMAIN altered \subseteq Settings!SettingsOf(f),
         Settings!Put({f}, altered)
  PROVE  SettingsInv'
<1>1. \A s \in DOMAIN altered : s \in Settings!Setting /\ Settings!FileOf(s) \in {f}
  BY FileOfSettings
<1>2. Settings!SettingsKept'
  BY <1>1, SaveKeeps DEF SettingsInv
<1>3. QED
  BY <1>2 DEF SettingsInv, WholeSections, Settings!Put

LEMMA SettingsBegin == Settings!Init => SettingsInv
<1> SUFFICES ASSUME Settings!Init PROVE SettingsInv
  OBVIOUS
<1>1. Settings!View = [s \in Settings!Setting |-> active[s]] /\ wanted = active
  BY DEF Settings!Init, Settings!View
<1>2. active = [s \in Settings!Setting |-> active[s]]
  BY DEF Settings!Init
<1>3. QED
  BY <1>1, <1>2 DEF Settings!Init, SettingsInv, WholeSections, Settings!SettingsKept

LEMMA CommitKeeps ==
  ASSUME SettingsInv, Settings!Commit
  PROVE  SettingsInv'
<1>1. /\ active' = [s \in Settings!Setting |-> IF Settings!FileOf(s) \in staged THEN copy[s] ELSE active[s]]
      /\ invalid' = (invalid /\ "firewall" \notin staged)
      /\ staged' = {} /\ UNCHANGED <<editor, page, wanted>>
  BY DEF Settings!Commit
<1>2. ASSUME NEW s \in Settings!Setting PROVE Settings!View'[s] = Settings!View[s]
  BY <1>1 DEF Settings!View
<1>3. Settings!View' = [s \in Settings!Setting |-> Settings!View'[s]] /\ Settings!View = [s \in Settings!Setting |-> Settings!View[s]]
  BY DEF Settings!View
<1>4. Settings!SettingsKept'
  BY <1>1, <1>2, <1>3 DEF SettingsInv, Settings!SettingsKept
<1>5. QED
  BY <1>1, <1>4 DEF SettingsInv, WholeSections

LEMMA BeginKeeps ==
  ASSUME SettingsInv, NEW e \in Settings!Editor, NEW s \in FirewallSettings, NEW remove, NEW x, NEW bad,
         Settings!BeginEdit(e, s, remove, x, bad)
  PROVE  SettingsInv'
<1> DEFINE new == [read |-> Settings!Read, new |-> Settings!Changed(s, remove, x, Settings!Read),
                   of |-> s, invalid |-> bad]
<1>1. editor' = [editor EXCEPT ![e] = new] /\ UNCHANGED <<Settings!files, page, wanted>>
  BY DEF Settings!BeginEdit
<1>2. DOMAIN Settings!Read = FirewallSettings
  BY DEF Settings!Read, Settings!Part, FirewallSettings
<1>3. DOMAIN Settings!Changed(s, remove, x, Settings!Read) = FirewallSettings
      /\ \A t \in FirewallSettings : t # s => Settings!Changed(s, remove, x, Settings!Read)[t] = Settings!Read[t]
  BY <1>2 DEF Settings!Changed
<1>4. InHand(new)
  BY <1>3 DEF InHand
<1> HIDE DEF new
<1>5. WholeSections'
  <2>1. DOMAIN editor' = Settings!Editor /\ editor'[e] = new
        /\ \A d \in Settings!Editor : d # e => editor'[d] = editor[d]
    BY <1>1 DEF SettingsInv, WholeSections
  <2>2. \A d \in Settings!Editor : editor'[d] # None => InHand(editor'[d])
    BY <1>4, <2>1 DEF SettingsInv, WholeSections
  <2>3. QED
    BY <1>1, <2>1, <2>2 DEF SettingsInv, WholeSections, Settings!files, InHand, FirewallSettings, Settings!Setting, Settings!SettingsOf, Settings!File, Settings!Editor
<1>6. Settings!View' = Settings!View
  BY <1>1 DEF Settings!View, Settings!files
<1>7. QED
  BY <1>1, <1>5, <1>6 DEF SettingsInv, Settings!SettingsKept

\* The file is written over whatever it was.  What the account makes of that: nothing,
\* if another firewall.yaml is staged; the one setting, if the file was as it was read;
\* the whole of it otherwise.
LEMMA EndKeeps ==
  ASSUME SettingsInv, NEW e \in Settings!Editor, Settings!EndEdit(e)
  PROVE  SettingsInv'
<1> DEFINE new == editor[e].new
           of == editor[e].of
           alone == editor[e].read = Settings!Read
<1>1. /\ active' = Settings!With(new, active) /\ invalid' = editor[e].invalid
      /\ editor' = [editor EXCEPT ![e] = None]
      /\ wanted' = IF "firewall" \in staged THEN wanted
                   ELSE IF alone THEN Settings!With(Settings!Only(of, new[of]), wanted)
                   ELSE Settings!With(new, wanted)
      /\ UNCHANGED <<staged, copy, page>>
      /\ DOMAIN new = FirewallSettings /\ of \in FirewallSettings
      /\ \A s \in FirewallSettings : s # of => new[s] = editor[e].read[s]
  BY DEF Settings!EndEdit, SettingsInv, WholeSections, InHand
<1> HIDE DEF new, of
<1>2. WholeSections'
  <2>1. active' = [s \in Settings!Setting |-> active'[s]] /\ DOMAIN editor' = Settings!Editor
    BY <1>1 DEF Settings!With, SettingsInv, WholeSections
  <2>2. \A d \in Settings!Editor : editor'[d] # None => InHand(editor'[d])
    BY <1>1 DEF SettingsInv, WholeSections
  <2>3. QED
    BY <1>1, <2>1, <2>2 DEF SettingsInv, WholeSections, InHand, FirewallSettings, Settings!Setting, Settings!SettingsOf, Settings!File, Settings!Editor
<1>3. \A s \in Settings!Setting : s \in FirewallSettings <=> Settings!FileOf(s) = "firewall"
  BY FileOfSettings, FileOfType DEF FirewallSettings, Settings!File
<1>4. wanted = Settings!View /\ \A s \in Settings!Setting :
        Settings!View[s] = IF Settings!FileOf(s) \in staged THEN copy[s] ELSE active[s]
  BY DEF SettingsInv, Settings!SettingsKept, Settings!View
<1>5. \A s \in Settings!Setting :
        Settings!View'[s] = IF Settings!FileOf(s) \in staged THEN copy[s] ELSE active'[s]
  BY <1>1 DEF Settings!View
<1>6. \A s \in Settings!Setting : active'[s] = IF s \in FirewallSettings THEN new[s] ELSE active[s]
  BY <1>1 DEF Settings!With
<1>7. ASSUME NEW s \in Settings!Setting PROVE wanted'[s] = Settings!View'[s]
  <2>1. CASE Settings!FileOf(s) # "firewall"
    <3>1. s \notin FirewallSettings /\ Settings!View'[s] = Settings!View[s]
      BY <1>3, <1>4, <1>5, <1>6, <2>1
    <3>2. wanted'[s] = wanted[s]
      BY <1>1, <3>1 DEF Settings!With, Settings!Only, FirewallSettings
    <3>3. QED
      BY <1>4, <3>1, <3>2
  <2>2. CASE Settings!FileOf(s) = "firewall" /\ "firewall" \in staged
    BY <1>1, <1>4, <1>5, <2>2
  <2>3. CASE Settings!FileOf(s) = "firewall" /\ "firewall" \notin staged /\ alone
    <3>1. s \in FirewallSettings /\ Settings!View'[s] = new[s] /\ Settings!View[s] = active[s]
      BY <1>1, <1>3, <1>4, <1>5, <1>6, <2>3
    <3>2. wanted'[s] = IF s = of THEN new[of] ELSE wanted[s]
      BY <1>1, <2>3 DEF Settings!With, Settings!Only
    <3>3. s # of => new[s] = active[s]
      <4>1. Settings!Read[s] = active[s]
        BY <2>3, <3>1 DEF Settings!Read, Settings!Part, FirewallSettings
      <4>2. QED
        BY <1>1, <2>3, <3>1, <4>1
    <3>4. QED
      BY <1>4, <3>1, <3>2, <3>3
  <2>4. CASE Settings!FileOf(s) = "firewall" /\ "firewall" \notin staged /\ ~alone
    <3>1. s \in FirewallSettings /\ Settings!View'[s] = new[s]
      BY <1>1, <1>3, <1>5, <1>6, <2>4
    <3>2. wanted'[s] = new[s]
      BY <1>1, <2>4, <3>1 DEF Settings!With
    <3>3. QED
      BY <3>1, <3>2
  <2>5. QED
    BY <2>1, <2>2, <2>3, <2>4
<1>8. Settings!View' = [s \in Settings!Setting |-> Settings!View'[s]] /\ wanted' = [s \in Settings!Setting |-> wanted'[s]]
  <2>1. Settings!View' = [s \in Settings!Setting |-> Settings!View'[s]] /\ wanted = [s \in Settings!Setting |-> wanted[s]]
    BY <1>4 DEF Settings!View
  <2>2. QED
    BY <1>1, <2>1 DEF Settings!With
<1>9. QED
  BY <1>2, <1>7, <1>8 DEF SettingsInv, Settings!SettingsKept

LEMMA SettingsChange == SettingsInv /\ [Settings!Next]_Settings!vars => SettingsInv'
<1> SUFFICES ASSUME SettingsInv, [Settings!Next]_Settings!vars PROVE SettingsInv'
  OBVIOUS
<1>1. \A f \in Settings!File : f = "system" \/ f = "network" \/ f = "firewall" \/ f = "plugins"
  BY DEF Settings!File
<1> USE DEF Settings!File, Settings!Save
<1>2. ASSUME NEW v, Settings!UpdateSystem(v) PROVE SettingsInv'
  BY <1>2, SaveFileKeeps DEF Settings!UpdateSystem
<1>3. ASSUME NEW v, Settings!UpdateDns(v) PROVE SettingsInv'
  <2> DEFINE given == IF Settings!View["technitium"] = "absent" /\ ~Settings!View["other"]
                      THEN {"dns", "records", "safe", "technitium"}
                      ELSE {"dns", "records", "safe"}
             altered == [s \in given |-> IF s = "dns" THEN v
                           ELSE IF s = "technitium" /\ v = "technitium" THEN "on"
                           ELSE Settings!Default(s)]
             fs == {Settings!FileOf(s) : s \in given}
  <2>1. Settings!Save(fs, altered)
    BY <1>3 DEF Settings!UpdateDns
  <2>2. given \subseteq Settings!Setting
    BY DEF Settings!Setting, Settings!SettingsOf
  <2>3. \A s \in DOMAIN altered : s \in Settings!Setting /\ Settings!FileOf(s) \in fs
    BY <2>2
  <2> HIDE DEF fs, altered
  <2>4. Settings!SettingsKept'
    BY <2>1, <2>3, SaveKeeps DEF SettingsInv
  <2>5. QED
    BY <2>1, <2>4 DEF SettingsInv, WholeSections, Settings!Put
<1>4. ASSUME NEW r \in DnsName, Settings!SaveRecord(r) \/ Settings!DeleteRecord(r) PROVE SettingsInv'
  BY <1>4, SaveOneKeeps DEF Settings!SaveRecord, Settings!DeleteRecord, Settings!SettingsOf
<1>5. ASSUME NEW v, Settings!UpdateShields(v) \/ Settings!UpdateAntiEvasion(v) \/ Settings!UpdateScope(v) PROVE SettingsInv'
  BY <1>5, SaveOneKeeps DEF Settings!UpdateShields, Settings!UpdateAntiEvasion, Settings!UpdateScope, Settings!SettingsOf
<1>6. ASSUME NEW s, NEW v, Settings!UpdateNetwork(s, v) PROVE SettingsInv'
  <2>1. DOMAIN [page EXCEPT ![s] = v] \subseteq Settings!SettingsOf("network")
    BY <1>6 DEF Settings!UpdateNetwork, SettingsInv, WholeSections
  <2>2. QED
    BY <1>6, <2>1, SaveFileKeeps DEF Settings!UpdateNetwork
<1>7. ASSUME NEW p \in Forward, Settings!SavePortForward(p) \/ Settings!DeletePortForward(p) PROVE SettingsInv'
  BY <1>7, SaveOneKeeps DEF Settings!SavePortForward, Settings!DeletePortForward, Settings!SettingsOf
<1>8. ASSUME NEW b \in Bridge, Settings!CreateScope(b) PROVE SettingsInv'
  BY <1>8, SaveOneKeeps DEF Settings!CreateScope, Settings!SettingsOf
<1>9. ASSUME NEW n \in Subnet, Settings!UpsertSubnet(n) PROVE SettingsInv'
  BY <1>9, SaveOneKeeps DEF Settings!UpsertSubnet, Settings!SettingsOf
<1>10. ASSUME NEW n \in Subnet, Settings!DeleteSubnet(n) PROVE SettingsInv'
  BY <1>10, SaveFileKeeps DEF Settings!DeleteSubnet, Settings!SettingsOf
<1>11. ASSUME NEW l \in Link, Settings!UpsertLink(l) \/ Settings!DeleteLink(l) PROVE SettingsInv'
  BY <1>11, SaveOneKeeps DEF Settings!UpsertLink, Settings!DeleteLink, Settings!SettingsOf
<1>12. ASSUME NEW v, Settings!TogglePlugin(v) PROVE SettingsInv'
  BY <1>12, SaveOneKeeps DEF Settings!TogglePlugin, Settings!SettingsOf
<1>13. ASSUME Settings!InstallPlugin PROVE SettingsInv'
  BY <1>13, SaveOneKeeps DEF Settings!InstallPlugin, Settings!SettingsOf
<1>14. ASSUME Settings!OpenPage PROVE SettingsInv'
  <2>1. UNCHANGED <<Settings!files, editor, wanted>> /\ page' = Settings!Part("network", Settings!View)
    BY <1>14 DEF Settings!OpenPage
  <2>2. DOMAIN page' = Settings!SettingsOf("network")
    BY <2>1 DEF Settings!Part
  <2>3. Settings!View' = Settings!View
    BY <2>1 DEF Settings!View, Settings!files
  <2>4. QED
    BY <2>1, <2>2, <2>3 DEF SettingsInv, WholeSections, Settings!SettingsKept, Settings!files
<1>15. ASSUME Settings!Discard PROVE SettingsInv'
  <2>1. /\ staged' = {} /\ wanted' = active /\ UNCHANGED <<active, invalid, editor, page>>
    BY <1>15 DEF Settings!Discard
  <2>2. Settings!View' = active
    BY <2>1 DEF Settings!View, SettingsInv, WholeSections
  <2>3. QED
    BY <2>1, <2>2 DEF SettingsInv, WholeSections, Settings!SettingsKept
<1>16. ASSUME NEW e \in Settings!Editor, NEW r \in FwRule, Settings!UpdateRule(e, r) \/ Settings!DeleteRule(e, r) PROVE SettingsInv'
  <2>1. "rules" \in FirewallSettings
    BY DEF FirewallSettings, Settings!SettingsOf
  <2>2. QED
    BY <1>16, <2>1, BeginKeeps DEF Settings!UpdateRule, Settings!DeleteRule
<1>17. ASSUME NEW p \in Forward, NEW v, Settings!ForwardCommand(p, v) PROVE SettingsInv'
  <2>1. "forwards" \in FirewallSettings /\ "command" \in Settings!Editor
    BY DEF FirewallSettings, Settings!SettingsOf, Settings!Editor
  <2>2. QED
    BY <1>17, <2>1, BeginKeeps DEF Settings!ForwardCommand
<1>18. CASE UNCHANGED Settings!vars
  <2>1. Settings!View' = Settings!View
    BY <1>18 DEF Settings!View, Settings!vars, Settings!files
  <2>2. QED
    BY <1>18, <2>1 DEF SettingsInv, WholeSections, Settings!SettingsKept, Settings!vars, Settings!files
<1>19. QED
  BY <1>2, <1>3, <1>4, <1>5, <1>6, <1>7, <1>8, <1>9, <1>10, <1>11, <1>12, <1>13, <1>14,
     <1>15, <1>16, <1>17, <1>18, CommitKeeps, EndKeeps DEF Settings!Next

LEMMA SettingsHold == Settings!Spec => []SettingsInv
  BY SettingsBegin, SettingsChange, PTL DEF Settings!Spec

\* Every setting of v that is in S has a value such a setting has.
Fits(v, S) == \A s \in S : v[s] \in Settings!Values(s)

\* Whoever has a file in hand has settings of their types in hand.
SettingsTyped ==
  /\ Settings!TypeOK
  /\ \A e \in Settings!Editor : editor[e] # None =>
       Fits(editor[e].new, FirewallSettings) /\ editor[e].invalid \in BOOLEAN

LEMMA DefaultFits == \A s \in Settings!Setting : Settings!Default(s) \in Settings!Values(s)
  BY DEF Settings!Setting, Settings!File, Settings!SettingsOf, Settings!Default, Settings!Values

LEMMA ViewFits ==
  ASSUME Settings!TypeOK
  PROVE  /\ Fits(Settings!View, Settings!Setting)
         /\ Fits(active, Settings!Setting) /\ Fits(wanted, Settings!Setting)
<1>1. Fits(active, Settings!Setting) /\ Fits(wanted, Settings!Setting)
  BY DEF Settings!TypeOK, Fits
<1>3. \A s \in Settings!Setting : Settings!FileOf(s) \in staged => copy[s] \in Settings!Values(s)
  BY DEF Settings!TypeOK
<1>4. Fits(Settings!View, Settings!Setting)
  BY <1>1, <1>3 DEF Settings!View, Fits
<1> QED BY <1>1, <1>4

\* A save of settings that fit keeps the types.
LEMMA SaveFits ==
  ASSUME Settings!SettingsAssumption, SettingsTyped, NEW fs, fs \subseteq Settings!File, NEW altered,
         Settings!Put(fs, altered), Fits(altered, DOMAIN altered \cap Settings!Setting)
  PROVE  SettingsTyped'
<1>1. /\ edits < MaxEdits /\ edits' = edits + 1 /\ staged' = staged \cup fs
      /\ copy' = Settings!Staged(fs, altered) /\ wanted' = Settings!With(altered, wanted)
      /\ UNCHANGED <<active, invalid, editor, page>>
  BY DEF Settings!Put, Settings!Counts
<1>2. Fits(Settings!View, Settings!Setting) /\ Fits(wanted, Settings!Setting)
  BY ViewFits DEF SettingsTyped
<1>3. \A s \in Settings!Setting : wanted'[s] \in Settings!Values(s)
  BY <1>1, <1>2 DEF Settings!With, Fits
<1>4. ASSUME NEW s \in Settings!Setting
      PROVE  /\ Settings!FileOf(s) \in staged' => copy'[s] \in Settings!Values(s)
             /\ Settings!FileOf(s) \notin staged' => copy'[s] = None
  <2>1. copy'[s] = IF Settings!FileOf(s) \notin fs THEN copy[s]
                   ELSE IF s \in DOMAIN altered THEN altered[s] ELSE Settings!View[s]
    BY <1>1 DEF Settings!Staged
  <2>2. /\ Settings!FileOf(s) \in staged => copy[s] \in Settings!Values(s)
        /\ Settings!FileOf(s) \notin staged => copy[s] = None
    BY DEF SettingsTyped, Settings!TypeOK
  <2>3. s \in DOMAIN altered => altered[s] \in Settings!Values(s)
    BY DEF Fits
  <2>4. Settings!View[s] \in Settings!Values(s)
    BY <1>2 DEF Fits
  <2> QED BY <1>1, <2>1, <2>2, <2>3, <2>4
<1>5. edits' \in 0 .. MaxEdits /\ staged' \subseteq Settings!File
  BY <1>1 DEF SettingsTyped, Settings!TypeOK, Settings!SettingsAssumption
<1> QED BY <1>1, <1>3, <1>4, <1>5 DEF SettingsTyped, Settings!TypeOK, Fits

LEMMA SaveOneFits ==
  ASSUME Settings!SettingsAssumption, SettingsTyped, NEW f \in Settings!File, NEW s, NEW v,
         s \in Settings!Setting => v \in Settings!Values(s), Settings!Put({f}, Settings!Only(s, v))
  PROVE  SettingsTyped'
<1>1. Fits(Settings!Only(s, v), DOMAIN Settings!Only(s, v) \cap Settings!Setting)
  BY DEF Fits, Settings!Only
<1> QED BY <1>1, SaveFits

LEMMA SettingsTypesBegin == Settings!SettingsAssumption /\ Settings!Init => SettingsTyped
<1> SUFFICES ASSUME Settings!SettingsAssumption, Settings!Init
             PROVE  SettingsTyped
  OBVIOUS
<1>1. \A s \in Settings!Setting : active[s] \in Settings!Values(s)
  <2>1. TRUE \in Settings!Values("rest") /\ TRUE \in Settings!Values("wifi")
    BY DEF Settings!Values
  <2> QED BY <2>1, DefaultFits DEF Settings!Init
<1>2. /\ wanted = active /\ invalid = FALSE /\ staged = {} /\ edits = 0 /\ page = None
      /\ \A s \in Settings!Setting : copy[s] = None
      /\ \A e \in Settings!Editor : editor[e] = None
  BY DEF Settings!Init
<1>3. edits \in 0 .. MaxEdits
  BY <1>2 DEF Settings!SettingsAssumption
<1>4. Settings!TypeOK
  BY <1>1, <1>2, <1>3 DEF Settings!TypeOK
<1> QED BY <1>2, <1>4 DEF SettingsTyped

LEMMA BeginFits ==
  ASSUME Settings!SettingsAssumption, SettingsInv, SettingsTyped, NEW e \in Settings!Editor, NEW remove, NEW x,
         NEW bad \in BOOLEAN, NEW s \in {"rules", "forwards"}, s = "rules" => x \in FwRule, s = "forwards" => x \in Forward,
         Settings!BeginEdit(e, s, remove, x, bad)
  PROVE  SettingsTyped'
<1> DEFINE new == [read |-> Settings!Read, new |-> Settings!Changed(s, remove, x, Settings!Read),
                   of |-> s, invalid |-> bad]
<1>1. editor' = [editor EXCEPT ![e] = new] /\ UNCHANGED <<Settings!files, page, wanted>>
      /\ edits < MaxEdits /\ edits' = edits + 1
  BY DEF Settings!BeginEdit, Settings!Counts
<1>2. DOMAIN Settings!Read = FirewallSettings
  BY DEF Settings!Read, Settings!Part, FirewallSettings
<1>3. FirewallSettings \subseteq Settings!Setting
  BY DEF FirewallSettings, Settings!Setting, Settings!File
<1>4. Fits(Settings!Read, FirewallSettings)
  BY <1>3, ViewFits DEF SettingsTyped, Fits, Settings!Read, Settings!Part, FirewallSettings
<1>5. Fits(Settings!Changed(s, remove, x, Settings!Read), FirewallSettings)
  <2>1. \A t \in FirewallSettings : t # s => Settings!Changed(s, remove, x, Settings!Read)[t] = Settings!Read[t]
    BY <1>2 DEF Settings!Changed
  <2>2. s \in FirewallSettings
    BY DEF FirewallSettings, Settings!SettingsOf
  <2>3. Settings!Changed(s, remove, x, Settings!Read)[s] =
          IF remove THEN Settings!Read[s] \ {x} ELSE Settings!Read[s] \cup {x}
    BY <1>2, <2>2 DEF Settings!Changed
  <2>4. Settings!Values("rules") = SUBSET FwRule /\ Settings!Values("forwards") = SUBSET Forward
    BY DEF Settings!Values
  <2>5. Settings!Read[s] \in Settings!Values(s)
    BY <1>4, <2>2 DEF Fits
  <2>6. Settings!Changed(s, remove, x, Settings!Read)[s] \in Settings!Values(s)
    BY <2>3, <2>4, <2>5
  <2> QED BY <1>4, <2>1, <2>6 DEF Fits
<1>6. new.read = Settings!Read /\ new.new = Settings!Changed(s, remove, x, Settings!Read)
      /\ new.invalid \in BOOLEAN
  OBVIOUS
<1> HIDE DEF new
<1>7. ASSUME NEW d \in Settings!Editor, editor'[d] # None
      PROVE  /\ Fits(editor'[d].read, FirewallSettings) /\ Fits(editor'[d].new, FirewallSettings)
             /\ editor'[d].invalid \in BOOLEAN
  <2>1. CASE d = e
    <3>1. editor'[d] = new
      BY <1>1, <2>1 DEF SettingsInv, WholeSections
    <3> QED BY <1>4, <1>5, <1>6, <3>1
  <2>2. CASE d # e
    <3>1. editor'[d] = editor[d]
      BY <1>1, <2>2 DEF SettingsInv, WholeSections
    <3> QED BY <1>7, <3>1 DEF SettingsTyped, Settings!TypeOK, FirewallSettings, Fits
  <2> QED BY <2>1, <2>2
<1>8. edits' \in 0 .. MaxEdits
  BY <1>1 DEF SettingsTyped, Settings!TypeOK, Settings!SettingsAssumption
<1> QED BY <1>1, <1>7, <1>8 DEF SettingsTyped, Settings!TypeOK, Settings!files, FirewallSettings, Fits

LEMMA EndFits ==
  ASSUME SettingsInv, SettingsTyped, NEW e \in Settings!Editor, Settings!EndEdit(e)
  PROVE  SettingsTyped'
<1> DEFINE new == editor[e].new
           of == editor[e].of
<1>1. /\ active' = Settings!With(new, active) /\ invalid' = editor[e].invalid
      /\ editor' = [editor EXCEPT ![e] = None]
      /\ \/ wanted' = wanted
         \/ wanted' = Settings!With(Settings!Only(of, new[of]), wanted)
         \/ wanted' = Settings!With(new, wanted)
      /\ UNCHANGED <<staged, copy, page, edits>>
      /\ DOMAIN new = FirewallSettings /\ of \in FirewallSettings
  BY DEF Settings!EndEdit, SettingsInv, WholeSections, InHand
<1>2. Fits(new, FirewallSettings)
  BY DEF Settings!EndEdit, SettingsTyped
<1>3. Fits(active, Settings!Setting) /\ Fits(wanted, Settings!Setting)
  BY ViewFits DEF SettingsTyped
<1>4. FirewallSettings \subseteq Settings!Setting
  BY DEF FirewallSettings, Settings!Setting, Settings!File
<1> HIDE DEF new, of
<1>6. Fits(active', Settings!Setting)
  BY <1>1, <1>2, <1>3 DEF Settings!With, Fits
<1>7. Fits(wanted', Settings!Setting)
  <2>1. CASE wanted' = Settings!With(Settings!Only(of, new[of]), wanted)
    <3>1. \A s \in Settings!Setting : wanted'[s] = IF s = of THEN new[of] ELSE wanted[s]
      BY <2>1 DEF Settings!With, Settings!Only
    <3> QED BY <1>1, <1>2, <1>3, <3>1 DEF Fits
  <2>2. CASE wanted' = Settings!With(new, wanted)
    BY <1>1, <1>2, <1>3, <2>2 DEF Settings!With, Fits
  <2> QED BY <1>1, <1>3, <2>1, <2>2 DEF Fits
<1>8. ASSUME NEW d \in Settings!Editor, editor'[d] # None
      PROVE  editor'[d] = editor[d]
  BY <1>1, <1>8 DEF SettingsInv, WholeSections
<1>9. invalid' \in BOOLEAN
  BY <1>1 DEF Settings!EndEdit, SettingsTyped
<1> QED BY <1>1, <1>6, <1>7, <1>8, <1>9 DEF SettingsTyped, Settings!TypeOK, Fits, FirewallSettings

LEMMA SettingsTypesKept ==
  ASSUME Settings!SettingsAssumption, SettingsInv, SettingsTyped, [Settings!Next]_Settings!vars
  PROVE  SettingsTyped'
<1> DEFINE sets == {"records", "forwards", "rules", "bridges", "subnets", "links"}
           Set(s) == CASE s = "records" -> DnsName [] s = "forwards" -> Forward [] s = "rules" -> FwRule
                       [] s = "bridges" -> Bridge [] s = "subnets" -> Subnet [] OTHER -> Link
           flags == {"names", "safe", "evasion", "pool", "wifi", "other"}
<1> USE DEF Settings!Save
<1>1. /\ \A s \in sets : Settings!Values(s) = SUBSET Set(s)
      /\ \A s \in flags : Settings!Values(s) = BOOLEAN
      /\ Settings!Values("dns") = {"local", "technitium"}
      /\ Settings!Values("technitium") = {"absent", "off", "on"}
  BY DEF Settings!Values
<1>2. \A s \in Settings!Setting : Settings!View[s] \in Settings!Values(s)
  BY ViewFits DEF SettingsTyped, Fits
<1>3. /\ sets \subseteq Settings!Setting /\ flags \subseteq Settings!Setting
      /\ {"dns", "technitium"} \subseteq Settings!Setting
      /\ Settings!File = {"system", "network", "firewall", "plugins"}
      /\ \A f \in Settings!File : Settings!SettingsOf(f) \subseteq Settings!Setting
  BY DEF Settings!Setting, Settings!SettingsOf, Settings!File
<1>4. \A s \in sets : Settings!View[s] \subseteq Set(s)
  BY <1>1, <1>2, <1>3
<1>5. ASSUME NEW v \in BOOLEAN, Settings!UpdateSystem(v) PROVE SettingsTyped'
  <2> DEFINE altered == [s \in Settings!SettingsOf("system") |-> IF s = "names" THEN v ELSE Settings!Default(s)]
  <2>1. Settings!Save({"system"}, altered)
    BY <1>5 DEF Settings!UpdateSystem
  <2>2. Fits(altered, DOMAIN altered \cap Settings!Setting)
    BY <1>1, DefaultFits DEF Fits
  <2> HIDE DEF altered
  <2> QED BY <1>3, <2>1, <2>2, SaveFits
<1>6. ASSUME NEW v \in {"local", "technitium"}, Settings!UpdateDns(v) PROVE SettingsTyped'
  <2> DEFINE given == IF Settings!View["technitium"] = "absent" /\ ~Settings!View["other"]
                      THEN {"dns", "records", "safe", "technitium"}
                      ELSE {"dns", "records", "safe"}
             altered == [s \in given |-> IF s = "dns" THEN v
                           ELSE IF s = "technitium" /\ v = "technitium" THEN "on"
                           ELSE Settings!Default(s)]
             fs == {Settings!FileOf(s) : s \in given}
  <2>1. Settings!Save(fs, altered)
    BY <1>6 DEF Settings!UpdateDns
  <2>2. given \subseteq Settings!Setting
    BY <1>3
  <2>3. Fits(altered, DOMAIN altered \cap Settings!Setting)
    BY <1>1, DefaultFits DEF Fits
  <2>4. fs \subseteq Settings!File
    BY <2>2, FileOfType
  <2> HIDE DEF fs, altered
  <2> QED BY <2>1, <2>3, <2>4, SaveFits
<1>7. ASSUME NEW s \in sets, NEW v, v \subseteq Set(s), NEW f \in Settings!File,
             Settings!Save({f}, Settings!Only(s, v))
      PROVE  SettingsTyped'
  <2>1. v \in Settings!Values(s)
    BY <1>1, <1>7
  <2> QED BY <1>7, <2>1, SaveOneFits
<1>8. ASSUME NEW s \in flags, NEW v \in BOOLEAN, NEW f \in Settings!File,
             Settings!Save({f}, Settings!Only(s, v))
      PROVE  SettingsTyped'
  <2>1. v \in Settings!Values(s)
    BY <1>1
  <2> QED BY <1>8, <2>1, SaveOneFits
<1>9. "records" \in sets /\ "forwards" \in sets /\ "bridges" \in sets /\ "subnets" \in sets /\ "links" \in sets
      /\ Set("records") = DnsName /\ Set("forwards") = Forward /\ Set("bridges") = Bridge
      /\ Set("subnets") = Subnet /\ Set("links") = Link
      /\ "safe" \in flags /\ "evasion" \in flags /\ "pool" \in flags /\ "other" \in flags
  OBVIOUS
<1> HIDE DEF sets, flags, Set
<1>10. ASSUME NEW r \in DnsName, Settings!SaveRecord(r) \/ Settings!DeleteRecord(r) PROVE SettingsTyped'
  <2>1. PICK v \in {Settings!View["records"] \cup {r}, Settings!View["records"] \ {r}} :
          Settings!Save({"system"}, Settings!Only("records", v))
    BY <1>10 DEF Settings!SaveRecord, Settings!DeleteRecord
  <2>2. v \subseteq Set("records")
    BY <1>4, <1>9
  <2> QED BY <1>3, <1>7, <1>9, <2>1, <2>2
<1>11. ASSUME NEW p \in Forward, Settings!SavePortForward(p) \/ Settings!DeletePortForward(p) PROVE SettingsTyped'
  <2>1. PICK v \in {Settings!View["forwards"] \cup {p}, Settings!View["forwards"] \ {p}} :
          Settings!Save({"firewall"}, Settings!Only("forwards", v))
    BY <1>11 DEF Settings!SavePortForward, Settings!DeletePortForward
  <2>2. v \subseteq Set("forwards")
    BY <1>4, <1>9
  <2> QED BY <1>3, <1>7, <1>9, <2>1, <2>2
<1>12. ASSUME NEW v \in BOOLEAN, Settings!UpdateShields(v) \/ Settings!UpdateAntiEvasion(v) \/ Settings!UpdateScope(v)
       PROVE  SettingsTyped'
  BY <1>3, <1>8, <1>9, <1>12 DEF Settings!UpdateShields, Settings!UpdateAntiEvasion, Settings!UpdateScope
<1>13. ASSUME Settings!InstallPlugin PROVE SettingsTyped'
  BY <1>3, <1>8, <1>9, <1>13 DEF Settings!InstallPlugin
<1>14. ASSUME NEW b \in Bridge, Settings!CreateScope(b) PROVE SettingsTyped'
  <2>1. Settings!View["bridges"] \cup {b} \subseteq Set("bridges")
    BY <1>4, <1>9
  <2> QED BY <1>3, <1>7, <1>9, <1>14, <2>1 DEF Settings!CreateScope
<1>15. ASSUME NEW n \in Subnet, Settings!UpsertSubnet(n) PROVE SettingsTyped'
  <2>1. {n} \subseteq Set("subnets")
    BY <1>9
  <2> QED BY <1>3, <1>7, <1>9, <1>15, <2>1 DEF Settings!UpsertSubnet
<1>16. ASSUME NEW l \in Link, Settings!UpsertLink(l) \/ Settings!DeleteLink(l) PROVE SettingsTyped'
  <2>1. {l} \subseteq Set("links") /\ Settings!View["links"] \ {l} \subseteq Set("links")
    BY <1>4, <1>9
  <2> QED BY <1>3, <1>7, <1>9, <1>16, <2>1 DEF Settings!UpsertLink, Settings!DeleteLink
<1>17. ASSUME NEW n \in Subnet, Settings!DeleteSubnet(n) PROVE SettingsTyped'
  <2> DEFINE altered == [s \in {"subnets", "links"} |->
               IF s = "subnets" THEN Settings!View[s] \ {n} ELSE Settings!View[s]]
  <2>1. Settings!Save({"network"}, altered)
    BY <1>17 DEF Settings!DeleteSubnet
  <2>2. Fits(altered, DOMAIN altered \cap Settings!Setting)
    BY <1>1, <1>2, <1>4, <1>9 DEF Fits
  <2> HIDE DEF altered
  <2> QED BY <1>3, <2>1, <2>2, SaveFits
<1>18. ASSUME NEW s \in {"pool", "wifi"}, NEW v \in BOOLEAN, Settings!UpdateNetwork(s, v) PROVE SettingsTyped'
  <2> DEFINE altered == [page EXCEPT ![s] = v]
  <2>1. Settings!Put({"network"}, altered) /\ page # None
    BY <1>18 DEF Settings!UpdateNetwork
  <2>2. DOMAIN page = Settings!SettingsOf("network") /\ Fits(page, Settings!SettingsOf("network"))
    BY <2>1 DEF SettingsInv, WholeSections, SettingsTyped, Settings!TypeOK, Fits
  <2>3. v \in Settings!Values(s)
    BY DEF Settings!Values
  <2>4. Fits(altered, DOMAIN altered \cap Settings!Setting)
    BY <2>2, <2>3 DEF Fits
  <2> HIDE DEF altered
  <2> QED BY <1>3, <2>1, <2>4, SaveFits
<1>19. ASSUME NEW v \in {"off", "on"}, Settings!TogglePlugin(v) PROVE SettingsTyped'
  BY <1>1, <1>3, <1>19, SaveOneFits DEF Settings!TogglePlugin
<1>20. ASSUME NEW e \in Settings!Editor, Settings!EndEdit(e) PROVE SettingsTyped'
  BY <1>20, EndFits
<1>21. \A e : (e = "command" /\ invalid) \in BOOLEAN
  OBVIOUS
<1>22. ASSUME NEW e \in Settings!Editor, NEW r \in FwRule, Settings!UpdateRule(e, r) \/ Settings!DeleteRule(e, r)
       PROVE  SettingsTyped'
  <2>1. PICK remove \in BOOLEAN : Settings!BeginEdit(e, "rules", remove, r, e = "command" /\ invalid)
    BY <1>22 DEF Settings!UpdateRule, Settings!DeleteRule
  <2> QED BY <1>21, <2>1, BeginFits
<1>23. ASSUME NEW p \in Forward, NEW v \in BOOLEAN, Settings!ForwardCommand(p, v) PROVE SettingsTyped'
  <2>1. "command" \in Settings!Editor /\ (v \/ invalid) \in BOOLEAN
    BY DEF Settings!Editor
  <2> QED BY <1>23, <2>1, BeginFits DEF Settings!ForwardCommand
<1>24. ASSUME Settings!OpenPage PROVE SettingsTyped'
  <2>1. UNCHANGED <<Settings!files, editor, edits, wanted>> /\ page' = Settings!Part("network", Settings!View)
    BY <1>24 DEF Settings!OpenPage
  <2>2. \A s \in Settings!SettingsOf("network") : page'[s] \in Settings!Values(s)
    BY <1>2, <1>3, <2>1 DEF Settings!Part
  <2> QED BY <2>1, <2>2 DEF SettingsTyped, Settings!TypeOK, Settings!files, Fits, FirewallSettings
<1>25. ASSUME Settings!Commit PROVE SettingsTyped'
  <2>1. /\ active' = [s \in Settings!Setting |-> IF Settings!FileOf(s) \in staged THEN copy[s] ELSE active[s]]
        /\ invalid' = (invalid /\ "firewall" \notin staged) /\ staged' = {}
        /\ copy' = [s \in Settings!Setting |-> None] /\ UNCHANGED <<editor, page, edits, wanted>>
    BY <1>25 DEF Settings!Commit
  <2>2. \A s \in Settings!Setting : active'[s] \in Settings!Values(s)
    BY <2>1 DEF SettingsTyped, Settings!TypeOK
  <2> QED BY <2>1, <2>2 DEF SettingsTyped, Settings!TypeOK, Fits, FirewallSettings
<1>26. ASSUME Settings!Discard PROVE SettingsTyped'
  <2>1. /\ staged' = {} /\ copy' = [s \in Settings!Setting |-> None] /\ wanted' = active
        /\ UNCHANGED <<active, invalid, editor, page, edits>>
    BY <1>26 DEF Settings!Discard
  <2>2. \A s \in Settings!Setting : wanted'[s] \in Settings!Values(s)
    BY <2>1, ViewFits DEF SettingsTyped, Fits
  <2> QED BY <2>1, <2>2 DEF SettingsTyped, Settings!TypeOK, Fits, FirewallSettings
<1>27. CASE UNCHANGED Settings!vars
  BY <1>27 DEF SettingsTyped, Settings!TypeOK, Settings!vars, Settings!files, Fits, FirewallSettings
<1> QED BY <1>5, <1>6, <1>10, <1>11, <1>12, <1>13, <1>14, <1>15, <1>16, <1>17, <1>18, <1>19, <1>20,
         <1>22, <1>23, <1>24, <1>25, <1>26, <1>27 DEF Settings!Next

LEMMA SettingsTypes == Settings!SettingsAssumption /\ Settings!Spec => []Settings!TypeOK
<1>1. SettingsTyped => Settings!TypeOK
  BY DEF SettingsTyped
<1>2. Settings!SettingsAssumption /\ SettingsInv /\ SettingsTyped /\ [Settings!Next]_Settings!vars => SettingsTyped'
  BY SettingsTypesKept
<1>3. CASE Settings!SettingsAssumption
  <2>1. SettingsInv /\ SettingsTyped /\ [Settings!Next]_Settings!vars => SettingsTyped'
    BY <1>2, <1>3
  <2>2. Settings!Init => SettingsTyped
    BY <1>3, SettingsTypesBegin
  <2> QED BY <1>1, <2>1, <2>2, SettingsHold, PTL DEF Settings!Spec
<1> QED BY <1>3

-----------------------------------------------------------------------------
(* Setup. *)

SetupRecord == [by : Setup!Kind, left : Seq(Setup!FileName), own : SUBSET Setup!Thing,
                wifi : BOOLEAN,
                open : SUBSET Setup!Rule, wan : Interface \cup {None}, grant : SUBSET Setup!Rule]

\* The rules a setup grants bear its name, and are about the interface it writes.
OwnGrant(s) == \A g \in s.grant : g.by = s.by /\ g.interface = s.wan

\* A name stands for one rule, on the interface that is the WAN.
Opened(rules, grants, interface) ==
  \A g \in grants :
    {r.interface : r \in {o \in rules : o.by = g.by /\ o.service = g.service}} = {interface}

SetupInv ==
  /\ Setup!TypeOK
  /\ setup \in SetupRecord /\ OwnGrant(setup)
  /\ made \ Setup!Anew \subseteq own \cup excused
  /\ ~apart => Opened(open, granted, wan)

\* Whichever rules there were, those of the same name make way.
LEMMA GrantOpens ==
  ASSUME NEW s \in SetupRecord, OwnGrant(s), NEW rules \in SUBSET Setup!Rule
  PROVE  /\ Opened(Setup!Merged(rules, s.grant), s.grant, s.wan)
         /\ Opened(s.grant, s.grant, s.wan)
         /\ Setup!Merged(rules, s.grant) \subseteq Setup!Rule
<1>1. s.grant \subseteq Setup!Rule
  BY DEF SetupRecord
<1>2. ASSUME NEW g \in s.grant
      PROVE  {r.interface : r \in {o \in Setup!Merged(rules, s.grant) : o.by = g.by /\ o.service = g.service}}
               = {s.wan}
  <2>1. g \in Setup!Merged(rules, s.grant) /\ g.interface = s.wan
    BY DEF Setup!Merged, OwnGrant
  <2>2. ASSUME NEW o \in Setup!Merged(rules, s.grant), o.by = g.by, o.service = g.service
        PROVE  o.interface = s.wan
    BY <2>2 DEF Setup!Merged, OwnGrant
  <2> QED BY <2>1, <2>2
<1>3. ASSUME NEW g \in s.grant
      PROVE  {r.interface : r \in {o \in s.grant : o.by = g.by /\ o.service = g.service}} = {s.wan}
  BY DEF OwnGrant
<1>4. Setup!Merged(rules, s.grant) \subseteq Setup!Rule
  BY <1>1 DEF Setup!Merged
<1> QED BY <1>2, <1>3, <1>4 DEF Opened

LEMMA IdleSetup ==
  Setup!Idle \in SetupRecord /\ OwnGrant(Setup!Idle)
<1> DEFINE idle == [by |-> "guided", left |-> <<>>, own |-> {}, wifi |-> TRUE, open |-> {},
                    wan |-> None, grant |-> {}]
<1>1. idle \in SetupRecord
  BY DEF SetupRecord, Setup!Kind
<1>2. idle.grant = {} /\ idle = Setup!Idle
  BY DEF Setup!Idle
<1> HIDE DEF idle
<1> QED BY <1>1, <1>2 DEF OwnGrant

\* A setup that starts has loaded what there is.
LEMMA SetupStarts ==
  ASSUME MaxRuns \in Nat, SetupInv, NEW by \in Setup!Kind, NEW order \in Seq(Setup!FileName),
         NEW interface \in Interface \cup {None}, NEW services \in SUBSET Service,
         NEW wifi \in BOOLEAN, interface = None => services = {},
         Setup!Starts(by, order, interface, services, wifi)
  PROVE  SetupInv'
<1> DEFINE grant == Setup!Rules(by, services, interface)
           s == [by |-> by, left |-> order, own |-> own, wifi |-> wifi, open |-> open,
                 wan |-> interface, grant |-> grant]
<1>1. grant \subseteq Setup!Rule /\ \A g \in grant : g.by = by /\ g.interface = interface
  BY DEF Setup!Rules, Setup!Rule
<1>2. own \subseteq Setup!Thing /\ open \subseteq Setup!Rule /\ runs \in 0 .. MaxRuns
  BY DEF SetupInv, Setup!TypeOK
<1>3. setup' = s /\ runs' = runs + 1 /\ runs < MaxRuns
      /\ UNCHANGED <<own, wan, open, made, excused, granted, apart>>
  BY DEF Setup!Starts, Setup!files, Setup!history
<1> HIDE DEF grant
<1>4. s \in SetupRecord /\ OwnGrant(s)
  BY <1>1, <1>2 DEF SetupRecord, OwnGrant
<1> HIDE DEF s
<1>5. runs' \in 0 .. MaxRuns
  BY <1>2, <1>3
<1>6. Setup!TypeOK'
  BY <1>3, <1>4, <1>5 DEF SetupInv, Setup!TypeOK, SetupRecord
<1> QED BY <1>3, <1>4, <1>6 DEF SetupInv, Opened

\* One save of a setup.
LEMMA SetupSaves ==
  ASSUME SetupInv, Setup!SaveNext
  PROVE  SetupInv'
<1> DEFINE f == Head(setup.left)
<1>1. /\ setup \in SetupRecord /\ OwnGrant(setup) /\ setup.left # <<>>
      /\ made \ Setup!Anew \subseteq own \cup excused /\ own \subseteq Setup!Thing /\ excused \subseteq Setup!Thing
      /\ wan \in Interface \cup {None} /\ open \subseteq Setup!Rule /\ granted \subseteq Setup!Rule
      /\ apart \in BOOLEAN /\ (~apart => Opened(open, granted, wan))
  BY DEF SetupInv, Setup!TypeOK, Setup!SaveNext, Setup!Running
<1>2. f \in Setup!FileName /\ Tail(setup.left) \in Seq(Setup!FileName)
  BY <1>1 DEF SetupRecord
<1>3. /\ Setup!Written(f)
      /\ excused' = excused \cup {t \in Setup!Within(f) : Setup!Overwrites(t)}
      /\ granted' = IF f = "firewall" THEN setup.grant ELSE granted
      /\ apart' = CASE f = "network"  -> TRUE
                    [] f = "firewall" -> wan # setup.wan
                    [] OTHER          -> apart
      /\ setup' = IF Len(setup.left) = 1 THEN Setup!Idle ELSE [setup EXCEPT !.left = Tail(@)]
      /\ UNCHANGED <<runs, made>>
  BY DEF Setup!SaveNext
<1> HIDE DEF f
<1>4. setup' \in SetupRecord /\ OwnGrant(setup')
  <2>1. CASE setup' = Setup!Idle
    BY <2>1, IdleSetup
  <2>2. CASE setup' = [setup EXCEPT !.left = Tail(@)]
    <3>1. setup' \in SetupRecord /\ setup'.grant = setup.grant /\ setup'.by = setup.by /\ setup'.wan = setup.wan
      BY <1>1, <1>2, <2>2 DEF SetupRecord
    <3> QED BY <1>1, <3>1 DEF OwnGrant
  <2> QED BY <1>3, <2>1, <2>2
<1>5. own' \subseteq Setup!Thing /\ excused' \subseteq Setup!Thing
      /\ made' \ Setup!Anew \subseteq own' \cup excused'
  <2>1. own' = (own \ Setup!Within(f)) \cup {t \in Setup!Within(f) : Setup!Kept(t)}
    BY <1>3 DEF Setup!Written
  <2>2. Setup!Within(f) \subseteq Setup!Thing
    BY <1>2 DEF Setup!Within, Setup!Thing, Setup!FileName
  <2>3. ASSUME NEW t \in own, t \notin Setup!Anew, ~Setup!Kept(t)
        PROVE  Setup!Overwrites(t)
    BY <1>1, <2>3 DEF Setup!Kept, Setup!Overwrites, SetupRecord, Setup!Kind
  <2> QED BY <1>1, <1>3, <2>1, <2>2, <2>3
<1>6. setup.grant \subseteq Setup!Rule /\ setup.open \subseteq Setup!Rule /\ setup.wan \in Interface \cup {None}
  BY <1>1 DEF SetupRecord
<1>7. CASE f = "network"
  <2>1. wan' = setup.wan /\ open' = open /\ apart' = TRUE /\ granted' = granted
    BY <1>3, <1>7 DEF Setup!Written
  <2>2. Setup!TypeOK'
    BY <1>1, <1>3, <1>4, <1>5, <1>6, <2>1 DEF SetupInv, Setup!TypeOK, SetupRecord
  <2> QED BY <1>4, <1>5, <2>1, <2>2 DEF SetupInv
<1>8. CASE f = "firewall"
  <2>1. wan' = wan /\ granted' = setup.grant /\ apart' = (wan # setup.wan)
    BY <1>3, <1>8 DEF Setup!Written
  <2>2. open' = IF setup.by = "guided" THEN Setup!Merged(setup.open, setup.grant) ELSE setup.grant
    BY <1>3, <1>8 DEF Setup!Written
  <2>3. Opened(open', granted', setup.wan) /\ open' \subseteq Setup!Rule
    BY <1>1, <1>6, <2>1, <2>2, GrantOpens
  <2>4. Setup!TypeOK'
    BY <1>1, <1>3, <1>4, <1>5, <1>6, <2>1, <2>3 DEF SetupInv, Setup!TypeOK, SetupRecord
  <2> QED BY <1>4, <1>5, <2>1, <2>3, <2>4 DEF SetupInv
<1>9. CASE f \notin {"network", "firewall"}
  <2>1. wan' = wan /\ open' = open /\ granted' = granted /\ apart' = apart
    BY <1>3, <1>9 DEF Setup!Written
  <2>2. Setup!TypeOK'
    BY <1>1, <1>3, <1>4, <1>5, <1>6, <2>1 DEF SetupInv, Setup!TypeOK, SetupRecord
  <2> QED BY <1>1, <1>4, <1>5, <2>1, <2>2 DEF SetupInv
<1> QED BY <1>7, <1>8, <1>9

LEMMA SetupHolds ==
  ASSUME Setup!SetupAssumption
  PROVE  Setup!Spec => [](Setup!TypeOK /\ Setup!SetupKeepsHousehold)
<1>1. Setup!Init => SetupInv
  <2> SUFFICES ASSUME Setup!Init
               PROVE  SetupInv
    OBVIOUS
  <2>1. /\ own = {} /\ wan = None /\ open = {} /\ setup = Setup!Idle /\ runs = 0
        /\ made = {} /\ excused = {} /\ granted = {} /\ apart = FALSE
    BY DEF Setup!Init
  <2>2. setup \in SetupRecord /\ OwnGrant(setup)
    BY <2>1, IdleSetup
  <2>3. Setup!TypeOK
    <3>1. own \subseteq Setup!Thing /\ made \subseteq Setup!Thing /\ excused \subseteq Setup!Thing
          /\ wan \in Interface \cup {None} /\ open \subseteq Setup!Rule /\ granted \subseteq Setup!Rule
      BY <2>1
    <3>2. runs \in 0 .. MaxRuns
      BY <2>1 DEF Setup!SetupAssumption
    <3>4. apart \in BOOLEAN
      BY <2>1
    <3>3. /\ setup.by \in Setup!Kind /\ setup.left \in Seq(Setup!FileName)
          /\ setup.own \subseteq Setup!Thing /\ setup.wifi \in BOOLEAN /\ setup.open \subseteq Setup!Rule
          /\ setup.wan \in Interface \cup {None} /\ setup.grant \subseteq Setup!Rule
      BY <2>2 DEF SetupRecord
    <3> QED BY <3>1, <3>2, <3>3, <3>4 DEF Setup!TypeOK
  <2> QED BY <2>1, <2>2, <2>3 DEF SetupInv, Opened
<1>2. SetupInv /\ [Setup!Next]_Setup!vars => SetupInv'
  <2> SUFFICES ASSUME SetupInv, [Setup!Next]_Setup!vars
               PROVE  SetupInv'
    OBVIOUS
  <2> USE DEF Setup!files, Setup!history
  <2>1. CASE UNCHANGED Setup!vars
    BY <2>1 DEF Setup!vars, SetupInv, Setup!TypeOK, Opened, OwnGrant
  <2>2. /\ <<"system", "nodes", "network", "firewall", "schedules">> \in Seq(Setup!FileName)
        /\ Setup!GatewayFiles \in Seq(Setup!FileName) /\ Setup!ControllerFiles \in Seq(Setup!FileName)
        /\ Setup!EdgeFiles \in Seq(Setup!FileName)
    BY DEF Setup!GatewayFiles, Setup!ControllerFiles, Setup!EdgeFiles, Setup!FileName
  <2>3. Setup!StandaloneFiles \in Seq(Setup!FileName)
    <3>1. <<"system">> \in Seq(Setup!FileName)
      BY DEF Setup!FileName
    <3> QED BY <2>2, <3>1 DEF Setup!StandaloneFiles
  <2>4. ASSUME NEW heard \in Setup!Answers,
               \/ \E wifi \in BOOLEAN : Setup!GuidedSetup(heard.interface, heard.services, wifi)
               \/ Setup!Wizard(Setup!GatewayFiles, heard.interface, heard.services)
               \/ Setup!Wizard(Setup!StandaloneFiles, heard.interface, heard.services)
        PROVE  SetupInv'
    <3> DEFINE interface == heard.interface
               services == heard.services
    <3>1. interface \in Interface \cup {None} /\ services \in SUBSET Service
      BY DEF Setup!Answers
    <3>2. PICK by \in Setup!Kind, order \in Seq(Setup!FileName), wifi \in BOOLEAN :
             Setup!Starts(by, order, interface, services, wifi)
      BY <2>2, <2>3, <2>4 DEF Setup!GuidedSetup, Setup!Wizard, Setup!Kind
    <3>3. interface # None
      BY DEF Setup!Answers, Setup!SetupAssumption
    <3> HIDE DEF interface, services
    <3> QED BY <3>1, <3>2, <3>3, SetupStarts DEF Setup!SetupAssumption
  <2>5. CASE Setup!Wizard(Setup!ControllerFiles, None, {})
    <3> DEFINE nothing == {}
    <3>1. Setup!Starts("wizard", Setup!ControllerFiles, None, nothing, TRUE) /\ nothing \in SUBSET Service
          /\ None \in Interface \cup {None} /\ "wizard" \in Setup!Kind /\ nothing = {}
      BY <2>5 DEF Setup!Wizard, Setup!Kind
    <3> HIDE DEF nothing
    <3> QED BY <2>2, <3>1, SetupStarts DEF Setup!SetupAssumption
  <2>6. ASSUME NEW interface \in Interface, Setup!Wizard(Setup!EdgeFiles, interface, {})
        PROVE  SetupInv'
    <3> DEFINE nothing == {}
    <3>1. Setup!Starts("wizard", Setup!EdgeFiles, interface, nothing, TRUE) /\ nothing \in SUBSET Service
          /\ "wizard" \in Setup!Kind /\ nothing = {}
      BY <2>6 DEF Setup!Wizard, Setup!Kind
    <3> HIDE DEF nothing
    <3> QED BY <2>2, <3>1, SetupStarts DEF Setup!SetupAssumption
  <2>7. CASE Setup!SaveNext
    BY <2>7, SetupSaves
  <2>8. CASE Setup!SaveFails
    <3> DEFINE f == Head(setup.left)
    <3>1. /\ \/ UNCHANGED <<own, wan, open, excused, apart>>
             \/ /\ own' = own \ Setup!Within(f)
                /\ wan' = IF f = "network" THEN None ELSE wan
                /\ open' = IF f = "firewall" THEN {} ELSE open
                /\ excused' = excused \cup Setup!Within(f)
                /\ apart' = (apart \/ f \in {"network", "firewall"})
          /\ setup' = Setup!Idle /\ UNCHANGED <<runs, made, granted>>
          /\ setup.left # <<>>
      BY <2>8 DEF Setup!SaveFails, Setup!Running
    <3>2. Setup!Within(f) \subseteq Setup!Thing
      BY <3>1 DEF SetupInv, SetupRecord, Setup!Within, Setup!Thing, Setup!FileName
    <3> HIDE DEF f
    <3>3. setup' \in SetupRecord /\ OwnGrant(setup')
      BY <3>1, IdleSetup
    <3>4. made' \ Setup!Anew \subseteq own' \cup excused'
      BY <3>1 DEF SetupInv
    <3>5. ~apart' => Opened(open', granted', wan')
      <4>1. CASE UNCHANGED <<own, wan, open, excused, apart>>
        BY <3>1, <4>1 DEF SetupInv
      <4>2. CASE f \notin {"network", "firewall"} /\ wan' = wan /\ open' = open /\ (apart' => apart) /\ (apart => apart')
        BY <3>1, <4>2 DEF SetupInv
      <4>3. CASE apart'
        BY <4>3
      <4>4. apart \in BOOLEAN
        BY DEF SetupInv, Setup!TypeOK
      <4> QED BY <3>1, <4>1, <4>2, <4>3, <4>4
    <3>6. own' \subseteq Setup!Thing /\ excused' \subseteq Setup!Thing /\ wan' \in Interface \cup {None}
          /\ open' \subseteq Setup!Rule /\ apart' \in BOOLEAN
      BY <3>1, <3>2 DEF SetupInv, Setup!TypeOK
    <3>7. Setup!TypeOK'
      BY <3>1, <3>3, <3>6 DEF SetupInv, Setup!TypeOK, SetupRecord
    <3> QED BY <3>3, <3>4, <3>5, <3>7 DEF SetupInv
  <2>9. ASSUME NEW f \in Used, Setup!Use(f)
        PROVE  SetupInv'
    <3>1. own' = own \cup {f} /\ made' = made \cup {f} /\ excused' \subseteq excused \cup {f}
          /\ excused \subseteq excused' \cup {f}
          /\ UNCHANGED <<wan, open, setup, runs, granted, apart>>
      BY <2>9 DEF Setup!Use
    <3>2. f \in Setup!Thing
      BY DEF Setup!SetupAssumption
    <3>3. made' \ Setup!Anew \subseteq own' \cup excused'
      BY <3>1 DEF SetupInv
    <3>4. Setup!TypeOK'
      BY <3>1, <3>2 DEF SetupInv, Setup!TypeOK
    <3> QED BY <3>1, <3>3, <3>4 DEF SetupInv
  <2> QED BY <2>1, <2>4, <2>5, <2>6, <2>7, <2>8, <2>9 DEF Setup!Next
<1>3. SetupInv => Setup!TypeOK /\ Setup!SetupKeepsHousehold
  BY DEF SetupInv, Opened, Setup!SetupKeepsHousehold
<1> QED BY <1>1, <1>2, <1>3, PTL DEF Setup!Spec

-----------------------------------------------------------------------------
(* The whole and its parts. *)

\* A step of the whole is one of its part.
LEMMA HouseholdSteps ==
  ASSUME Next
  PROVE  /\ part' = part
         /\ part = "Household" => Household!Next
         /\ part = "Settings" => Settings!Next
         /\ part = "Setup" => Setup!Next
  BY DEF Next, HouseholdStep, GatewaysStep, TokensStep, RegistryStep, SyncStep, AlertingStep, AppsStep,
       BackupStep, SessionsStep, AccountsStep, CertsStep, SetupStep, UpdatesStep, SettingsStep,
       FirewallStep, BuildsStep, Rest

\* A behaviour of the whole is one of Household, or never its own.
LEMMA HouseholdPart == Spec => (Household!Spec /\ [](part = "Household")) \/ []~(part = "Household")
<1>1. Init /\ part = "Household" => Household!Init
  BY DEF Init
<1>2. [Next]_vars => part' = part /\ (part = "Household" => [Household!Next]_Household!vars)
  <2>1. ASSUME UNCHANGED vars
        PROVE  part' = part /\ UNCHANGED Household!vars
    BY <2>1 DEF vars, HouseholdOwn, Shared, Household!vars, Household!file, Household!history
  <2> QED BY <2>1, HouseholdSteps
<1>3. [Next]_vars /\ part = "Household" => (part = "Household")' /\ [Household!Next]_Household!vars
  BY <1>2
<1>4. [Next]_vars /\ ~(part = "Household") => (~(part = "Household"))'
  BY <1>2
<1> QED BY <1>1, <1>3, <1>4, PTL DEF Spec, Household!Spec

\* A behaviour of the whole is one of Settings, or never its own.
LEMMA SettingsPart == Spec => (Settings!Spec /\ [](part = "Settings")) \/ []~(part = "Settings")
<1>1. Init /\ part = "Settings" => Settings!Init
  BY DEF Init
<1>2. [Next]_vars => part' = part /\ (part = "Settings" => [Settings!Next]_Settings!vars)
  <2>1. ASSUME UNCHANGED vars
        PROVE  part' = part /\ UNCHANGED Settings!vars
    BY <2>1 DEF vars, SettingsOwn, Shared, Settings!vars, Settings!files
  <2> QED BY <2>1, HouseholdSteps
<1>3. [Next]_vars /\ part = "Settings" => (part = "Settings")' /\ [Settings!Next]_Settings!vars
  BY <1>2
<1>4. [Next]_vars /\ ~(part = "Settings") => (~(part = "Settings"))'
  BY <1>2
<1> QED BY <1>1, <1>3, <1>4, PTL DEF Spec, Settings!Spec

\* A behaviour of the whole is one of Setup, or never its own.
LEMMA SetupPart == Spec => (Setup!Spec /\ [](part = "Setup")) \/ []~(part = "Setup")
<1>1. Init /\ part = "Setup" => Setup!Init
  BY DEF Init
<1>2. [Next]_vars => part' = part /\ (part = "Setup" => [Setup!Next]_Setup!vars)
  <2>1. ASSUME UNCHANGED vars
        PROVE  part' = part /\ UNCHANGED Setup!vars
    BY <2>1 DEF vars, SetupOwn, Shared, Setup!vars, Setup!files, Setup!history
  <2> QED BY <2>1, HouseholdSteps
<1>3. [Next]_vars /\ part = "Setup" => (part = "Setup")' /\ [Setup!Next]_Setup!vars
  BY <1>2
<1>4. [Next]_vars /\ ~(part = "Setup") => (~(part = "Setup"))'
  BY <1>2
<1> QED BY <1>1, <1>3, <1>4, PTL DEF Spec, Setup!Spec

\* The types of these parts.
HouseholdTyped ==
  /\ part = "Household" => Household!TypeOK
  /\ part = "Settings" => Settings!TypeOK
  /\ part = "Setup" => Setup!TypeOK

LEMMA HouseholdTypes == Spec => []HouseholdTyped
<1>1. Household!Spec => []Household!TypeOK
  <2>1. Household!Spec => []HouseholdInv
    BY HouseholdHolds, ComponentsAssumption
  <2>2. HouseholdInv => Household!TypeOK
    BY DEF HouseholdInv, CopiesInv, Household!TypeOK
  <2> QED BY <2>1, <2>2, PTL
<1>2. Settings!Spec => []Settings!TypeOK
  BY SettingsTypes, ComponentsAssumption
<1>3. Setup!Spec => [](Setup!TypeOK /\ Setup!SetupKeepsHousehold)
  BY SetupHolds, ComponentsAssumption
<1> QED BY <1>1, <1>2, <1>3, HouseholdPart, SettingsPart, SetupPart, PTL DEF HouseholdTyped

-----------------------------------------------------------------------------
(* Results. *)

\* Requests to the web application, whole-file copies, the daemon's writes and approvals,
\* rollbacks, archives and replication, in any order: no device, room or person of the household's file refers to what is not
\* there, unless a route that checks nothing was asked for it (save_device, delete_*).
THEOREM ReferencesKept == Spec => []ReferencesHold
<1>1. HouseholdInv => Household!ReferencesHold
  BY DanglingHangs DEF HouseholdInv, CopiesInv, Household!ReferencesHold
<1>2. Household!Spec => []HouseholdInv
  BY HouseholdHolds, ComponentsAssumption
<1> QED BY HouseholdPart, <1>1, <1>2, PTL DEF ReferencesHold

\* A commit replaces the whole file, and changes no device but those the staged requests
\* were about and those that changed beside the staged file, by the daemon, a rollback, an
\* archive or a controller: CommitKeepsOthers, of every step.
THEOREM CommitsKeepDevices == Spec => CommitChangesOnlyEdits
<1>1. HouseholdInv => Household!CommitKeepsOthers
  BY DEF HouseholdInv, CopiesInv, Household!CommitKeepsOthers, Household!Commit
<1>2. Household!Spec => []HouseholdInv
  BY HouseholdHolds, ComponentsAssumption
<1> QED BY HouseholdPart, <1>1, <1>2, PTL DEF CommitChangesOnlyEdits

\* Every setting stays what the accepted edits have made it: through the edits of other
\* settings of its file, through commits and discards, and through what the daemon and
\* the commands read and write in between.
THEOREM SettingsStayKept == Spec => []SettingsKept
<1>1. SettingsInv => Settings!SettingsKept
  BY DEF SettingsInv
<1> QED BY SettingsPart, SettingsHold, <1>1, PTL DEF SettingsKept

\* Whichever setups run and wherever they stop, what the household made is kept but for
\* the parts a guided setup makes anew or is told to do without (setup_tool.py), and what
\* the last one opened is open on its WAN.
THEOREM HouseholdOutlivesSetup == Spec => []SetupKeepsHousehold
<1>1. Setup!Spec => [](Setup!TypeOK /\ Setup!SetupKeepsHousehold)
  BY SetupHolds, ComponentsAssumption
<1> QED BY SetupPart, <1>1, PTL DEF SetupKeepsHousehold
=============================================================================
