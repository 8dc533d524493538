------------------------- MODULE CrewRegistryProofs -------------------------
(* Proofs about CrewRegistry, for every set of clients, names and zones    *)
(* and any number of members and requests.                                 *)
EXTENDS CrewRegistry, TLAPS, SequenceTheorems

RowType == [name: Names, role: Roles, zone: Zones, active: BOOLEAN]

(* A request holds a row read earlier: stale, perhaps, but well formed and *)
(* of the role its member still has.                                       *)
PatchType ==
  [pc: {"update"}, id: DOMAIN crew, name: Names \cup {NotGiven},
   zone: Zones \cup BadZones \cup {NotGiven}, active: {"true", "false", NotGiven},
   read: RowType]

Pending(p) == requests[p] # None

Rows ==
  /\ crew \in Seq(RowType)
  /\ requests \in [Clients -> PatchType \cup {None}]
  /\ \A p \in Clients : Pending(p) => requests[p].read.role = crew[requests[p].id].role

-----------------------------------------------------------------------------
(* What a request writes is a row of the member's role.                    *)
LEMMA MergedRow ==
  ASSUME Rows, NEW p \in Clients, Pending(p)
  PROVE  /\ requests[p] \in PatchType
         /\ Merged(requests[p]).name \in Names
         /\ Merged(requests[p]).name = Given(requests[p].name, requests[p].read.name)
         /\ Merged(requests[p]).zone = Given(requests[p].zone, requests[p].read.zone)
         /\ Merged(requests[p]).role = requests[p].read.role
         /\ Merged(requests[p]).active <=> requests[p].active = "true"
         /\ Merged(requests[p]).zone \in Zones => Merged(requests[p]) \in RowType
<1>1. requests[p] \in PatchType
  BY DEF Rows, Pending
<1>2. PICK req : req = requests[p]
  OBVIOUS
<1> DEFINE on == req.active = "true"
<1>3. on \in BOOLEAN
  OBVIOUS
<1> HIDE DEF on
<1>4. Merged(req) = [req.read EXCEPT !.name = Given(req.name, req.read.name),
                                     !.zone = Given(req.zone, req.read.zone),
                                     !.active = on]
  <2>1. req.read \in RowType
    BY <1>1, <1>2 DEF PatchType
  <2> QED
    BY <2>1 DEF Merged, RowType, on
<1>5. req.read \in RowType /\ Given(req.name, req.read.name) \in Names
  BY <1>1, <1>2 DEF PatchType, RowType, Given
<1>6. /\ Merged(req).name = Given(req.name, req.read.name)
      /\ Merged(req).zone = Given(req.zone, req.read.zone)
      /\ Merged(req).role = req.read.role
      /\ Merged(req).active = on
  BY <1>3, <1>4, <1>5 DEF RowType
<1>7. Merged(req).zone \in Zones => Merged(req) \in RowType
  BY <1>3, <1>4, <1>5 DEF RowType
<1> QED
  BY <1>1, <1>2, <1>5, <1>6, <1>7 DEF on

LEMMA RowIds ==
  ASSUME Rows
  PROVE  /\ DOMAIN crew = 1..Len(crew) /\ Len(crew) \in Nat
         /\ \A i \in DOMAIN crew : crew[i] \in RowType
BY LenProperties, ElementOfSeq DEF Rows

(* Of a row, an update that comes through changes everything but the role. *)
LEMMA UpdateWrites ==
  ASSUME Rows, NEW p \in Clients, Update(p)
  PROVE  /\ Pending(p) /\ requests' = [requests EXCEPT ![p] = None]
         /\ \/ crew' = crew
            \/ /\ Merged(requests[p]).zone \in Zones
               /\ Merged(requests[p]) \in RowType
               /\ Taken(Merged(requests[p]).name, Merged(requests[p]).role)
                    \subseteq {requests[p].id}
               /\ DOMAIN crew' = DOMAIN crew /\ crew' \in Seq(RowType)
               /\ crew'[requests[p].id] = Merged(requests[p])
               /\ \A i \in DOMAIN crew \ {requests[p].id} : crew'[i] = crew[i]
<1>1. Pending(p) /\ requests' = [requests EXCEPT ![p] = None]
  BY DEF Update, Pending
<1>2. PICK row, id : row = Merged(requests[p]) /\ id = requests[p].id
  OBVIOUS
<1>3. crew' = IF row.zone \in Zones /\ Taken(row.name, row.role) \subseteq {id}
                THEN [crew EXCEPT ![id] = row] ELSE crew
  BY <1>2 DEF Update
<1>4. id \in DOMAIN crew /\ (row.zone \in Zones => row \in RowType)
  BY <1>1, <1>2, MergedRow DEF PatchType
<1>5. CASE row.zone \in Zones /\ Taken(row.name, row.role) \subseteq {id}
  <2>1. crew' = [crew EXCEPT ![id] = row] /\ row \in RowType
    BY <1>3, <1>4, <1>5
  <2>2. /\ DOMAIN crew' = DOMAIN crew /\ crew' \in Seq(RowType)
        /\ crew'[id] = row
        /\ \A i \in DOMAIN crew \ {id} : crew'[i] = crew[i]
    BY <1>4, <2>1 DEF Rows
  <2> QED
    BY <1>1, <1>2, <1>5, <2>1, <2>2
<1>6. CASE ~(row.zone \in Zones /\ Taken(row.name, row.role) \subseteq {id})
  BY <1>1, <1>3, <1>6
<1> QED
  BY <1>5, <1>6

(* Registering appends a row.                                              *)
LEMMA RegisterAppends ==
  ASSUME Rows, NEW name \in Names, NEW role \in Roles, NEW zone \in Zones,
         Register(name, role, zone)
  PROVE  /\ crew' \in Seq(RowType) /\ UNCHANGED <<aircraft, requests>>
         /\ DOMAIN crew' = DOMAIN crew \cup {Len(crew) + 1}
         /\ Len(crew) + 1 \notin DOMAIN crew
         /\ \A i \in DOMAIN crew : crew'[i] = crew[i]
         /\ crew'[Len(crew) + 1].name = name /\ crew'[Len(crew) + 1].role = role
         /\ crew'[Len(crew) + 1].zone = zone
<1> DEFINE row == [name |-> name, role |-> role, zone |-> zone, active |-> TRUE]
<1>1. crew' = Append(crew, row) /\ UNCHANGED <<aircraft, requests>>
  BY DEF Register
<1>2. row \in RowType /\ row.name = name /\ row.role = role /\ row.zone = zone
  BY DEF RowType
<1> HIDE DEF row
<1>3. crew \in Seq(RowType)
  BY DEF Rows
<1> QED
  BY <1>1, <1>2, <1>3

-----------------------------------------------------------------------------
(* Rows stay well formed *)

(* Pending requests outlive a change of the table that adds rows or keeps  *)
(* the roles of those it has.                                              *)
LEMMA RequestsKept ==
  ASSUME Rows, crew' \in Seq(RowType), DOMAIN crew \subseteq DOMAIN crew',
         \A i \in DOMAIN crew : crew'[i].role = crew[i].role,
         \A p \in Clients : requests'[p] = requests[p] \/ requests'[p] = None,
         requests' \in [Clients -> PatchType \cup {None}]
  PROVE  Rows'
<1>1. PatchType \subseteq PatchType'
  BY DEF PatchType, RowType
<1>2. requests' \in [Clients -> PatchType' \cup {None}]
  BY <1>1
<1>3. ASSUME NEW p \in Clients, requests'[p] # None
      PROVE  requests'[p].read.role = crew'[requests'[p].id].role
  <2>1. requests'[p] = requests[p] /\ Pending(p)
    BY <1>3 DEF Pending
  <2>2. requests[p].id \in DOMAIN crew
    BY <2>1 DEF Rows, Pending, PatchType
  <2> QED
    BY <2>1, <2>2 DEF Rows
<1> QED
  BY <1>2, <1>3 DEF Rows, RowType, Pending, None

LEMMA StepRows ==
  ASSUME Rows, [Next]_vars
  PROVE  Rows'
<1>1. CASE UNCHANGED <<crew, requests>>
  BY <1>1 DEF Rows, RowType, PatchType, Pending
<1>2. ASSUME NEW name \in Names, NEW role \in Roles, NEW zone \in Zones,
             Register(name, role, zone)
      PROVE  Rows'
  <2>1. requests' = requests
    BY <1>2, RegisterAppends
  <2>2. requests' \in [Clients -> PatchType \cup {None}]
    BY <2>1 DEF Rows
  <2> QED
    BY <1>2, <2>1, <2>2, RegisterAppends, RequestsKept
<1>3. ASSUME NEW p \in Clients, Update(p) PROVE Rows'
  <2>1. Pending(p) /\ requests' = [requests EXCEPT ![p] = None]
    BY <1>3, UpdateWrites
  <2>2. /\ requests' \in [Clients -> PatchType \cup {None}]
        /\ \A q \in Clients : requests'[q] = requests[q] \/ requests'[q] = None
    BY <2>1 DEF Rows
  <2>3. CASE crew' = crew
    BY <2>2, <2>3, RequestsKept DEF Rows
  <2>4. CASE /\ DOMAIN crew' = DOMAIN crew /\ crew' \in Seq(RowType)
             /\ crew'[requests[p].id] = Merged(requests[p])
             /\ \A i \in DOMAIN crew \ {requests[p].id} : crew'[i] = crew[i]
    <3>1. Merged(requests[p]).role = crew[requests[p].id].role
      BY <2>1, MergedRow DEF Rows
    <3>2. \A i \in DOMAIN crew : crew'[i].role = crew[i].role
      BY <2>4, <3>1
    <3> QED
      BY <2>2, <2>4, <3>2, RequestsKept
  <2> QED
    BY <1>3, <2>3, <2>4, UpdateWrites
<1>4. ASSUME NEW p \in Clients, NEW i \in DOMAIN crew, NEW name \in Names \cup {NotGiven},
             NEW zone \in Zones \cup BadZones \cup {NotGiven},
             NEW active \in {"true", "false", NotGiven},
             GetForPatch(p, i, name, zone, active)
      PROVE  Rows'
  <2> DEFINE req == [pc |-> "update", id |-> i, name |-> name, zone |-> zone,
                     active |-> active, read |-> crew[i]]
  <2>1. req \in PatchType
    BY RowIds DEF PatchType
  <2>2. requests' = [requests EXCEPT ![p] = req] /\ crew' = crew
    BY <1>4 DEF GetForPatch
  <2>3. req.read.role = crew[req.id].role
    OBVIOUS
  <2> HIDE DEF req
  <2>4. requests' \in [Clients -> PatchType \cup {None}]
    BY <2>1, <2>2 DEF Rows
  <2>5. \A q \in Clients : requests'[q] # None =>
          requests'[q].read.role = crew[requests'[q].id].role
    BY <2>2, <2>3 DEF Rows, Pending
  <2> QED
    BY <2>2, <2>4, <2>5 DEF Rows, RowType, PatchType, Pending
<1>5. ASSUME NEW code \in Codes, NEW has \in BOOLEAN, NEW class \in Facilities,
             RegisterAircraft(code, has, class)
      PROVE  UNCHANGED <<crew, requests>>
  BY <1>5 DEF RegisterAircraft
<1>6. CASE UNCHANGED vars
  BY <1>1, <1>6 DEF vars
<1> QED
  BY <1>1, <1>2, <1>3, <1>4, <1>5, <1>6 DEF Next

(* Every row and every PATCH under way is well formed and points at a row  *)
(* (crew.Register, the PATCH handler).                                     *)
THEOREM RowsCorrect == Spec => []Rows
<1>1. Init => Rows
  <2> SUFFICES ASSUME Init PROVE Rows
    OBVIOUS
  <2>1. crew = <<>> /\ requests = [p \in Clients |-> None]
    BY DEF Init
  <2> QED
    BY <2>1 DEF Rows, Pending
<1> QED
  BY <1>1, StepRows, PTL DEF Spec

-----------------------------------------------------------------------------
(* Names are kept apart *)

Apart ==
  \A i, j \in DOMAIN crew : crew[i].name = crew[j].name /\ crew[i].role = crew[j].role => i = j
Equipped == \A code \in DOMAIN aircraft : aircraft[code].class # "NONE" => aircraft[code].has

LEMMA StepApart ==
  ASSUME Rows, Apart, [Next]_vars
  PROVE  Apart'
<1>1. CASE crew' = crew
  BY <1>1 DEF Apart
<1>2. ASSUME NEW name \in Names, NEW role \in Roles, NEW zone \in Zones,
             Register(name, role, zone)
      PROVE  Apart'
  <2>1. \A i \in DOMAIN crew : ~(crew[i].name = name /\ crew[i].role = role)
    BY <1>2 DEF Register, Taken
  <2>2. PICK new : new = Len(crew) + 1
    OBVIOUS
  <2>3. /\ DOMAIN crew' = DOMAIN crew \cup {new}
        /\ \A i \in DOMAIN crew : crew'[i] = crew[i]
        /\ crew'[new].name = name /\ crew'[new].role = role
    BY <1>2, <2>2, RegisterAppends
  <2> QED
    BY <2>1, <2>3 DEF Apart
<1>3. ASSUME NEW p \in Clients, Update(p) PROVE Apart'
  <2>1. PICK row, id : row = Merged(requests[p]) /\ id = requests[p].id
    OBVIOUS
  <2>2. CASE /\ Taken(row.name, row.role) \subseteq {id}
             /\ DOMAIN crew' = DOMAIN crew /\ crew'[id] = row
             /\ \A i \in DOMAIN crew \ {id} : crew'[i] = crew[i]
    <3>1. \A i \in DOMAIN crew \ {id} : ~(crew[i].name = row.name /\ crew[i].role = row.role)
      BY <2>2 DEF Taken
    <3> QED
      BY <2>2, <3>1 DEF Apart
  <2> QED
    BY <1>1, <1>3, <2>1, <2>2, UpdateWrites
<1>4. ASSUME NEW p \in Clients, NEW i, NEW name, NEW zone, NEW active,
             GetForPatch(p, i, name, zone, active)
      PROVE  crew' = crew
  BY <1>4 DEF GetForPatch
<1>5. ASSUME NEW code, NEW has, NEW class, RegisterAircraft(code, has, class)
      PROVE  crew' = crew
  BY <1>5 DEF RegisterAircraft
<1>6. CASE UNCHANGED vars
  BY <1>1, <1>6 DEF vars
<1> QED
  BY <1>1, <1>2, <1>3, <1>4, <1>5, <1>6 DEF Next

LEMMA StepEquipped ==
  ASSUME Equipped, [Next]_vars
  PROVE  Equipped'
<1>1. CASE aircraft' = aircraft
  BY <1>1 DEF Equipped
<1>2. ASSUME NEW code \in Codes, NEW has \in BOOLEAN, NEW class \in Facilities,
             RegisterAircraft(code, has, class)
      PROVE  Equipped'
  <2> DEFINE equipped == has \/ class # "NONE"
             row == [has |-> equipped, class |-> class]
  <2>1. row.class # "NONE" => row.has
    OBVIOUS
  <2>2. aircraft' = [c \in DOMAIN aircraft \cup {code} |-> IF c = code THEN row ELSE aircraft[c]]
    BY <1>2 DEF RegisterAircraft
  <2> HIDE DEF row
  <2> QED
    BY <2>1, <2>2 DEF Equipped
<1>3. ASSUME NEW name, NEW role, NEW zone, Register(name, role, zone)
      PROVE  aircraft' = aircraft
  BY <1>3 DEF Register
<1>4. ASSUME NEW p, Update(p) PROVE aircraft' = aircraft
  BY <1>4 DEF Update
<1>5. ASSUME NEW p, NEW i, NEW name, NEW zone, NEW active,
             GetForPatch(p, i, name, zone, active)
      PROVE  aircraft' = aircraft
  BY <1>5 DEF GetForPatch
<1>6. CASE UNCHANGED vars
  BY <1>1, <1>6 DEF vars
<1> QED
  BY <1>1, <1>2, <1>3, <1>4, <1>5, <1>6 DEF Next

(* Whatever registrations and renamings overlap, a name means one member   *)
(* within a role, and every stored zone loads (the UNIQUE constraint and   *)
(* the checks of crew.go hold for a row merged from a stale read).         *)
THEOREM RegistryCorrect == Spec => []TypeOK
<1>1. Init => Apart /\ Equipped
  <2> SUFFICES ASSUME Init PROVE Apart /\ Equipped
    OBVIOUS
  <2>1. crew = <<>> /\ aircraft = <<>>
    BY DEF Init
  <2> QED
    BY <2>1 DEF Apart, Equipped
<1>2. Rows /\ Apart /\ Equipped => TypeOK
  BY RowIds DEF Apart, Equipped, TypeOK, RowType
<1> QED
  BY <1>1, <1>2, StepApart, StepEquipped, RowsCorrect, PTL DEF Spec

-----------------------------------------------------------------------------
(* Lone patches *)

(* A row changes by a PATCH only; one that no other overlaps writes back   *)
(* what it was not asked to change, but for active (api.go's handler).     *)
THEOREM LonePatchesKeep == Spec => LonePatch
<1> DEFINE Patched(i) ==
      \E p \in Clients :
        /\ requests[p] # None /\ requests[p].id = i /\ requests'[p] = None
        /\ crew'[i].role = crew[i].role
        /\ ~Overlapped(p) =>
             /\ requests[p].name = NotGiven => crew'[i].name = crew[i].name
             /\ requests[p].zone = NotGiven => crew'[i].zone = crew[i].zone
             /\ crew'[i].active <=> requests[p].active = "true"
<1>1. ASSUME Rows, [Next]_vars, NEW i \in DOMAIN crew, crew'[i] # crew[i] PROVE Patched(i)
  <2>1. ASSUME NEW p \in Clients, Update(p) PROVE Patched(i)
    <3>1. /\ Pending(p) /\ requests'[p] = None
          /\ requests[p].id = i /\ crew'[i] = Merged(requests[p])
      <4>1. Pending(p) /\ requests' = [requests EXCEPT ![p] = None]
        BY <1>1, <2>1, UpdateWrites
      <4>2. requests[p].id = i /\ crew'[i] = Merged(requests[p])
        BY <1>1, <2>1, UpdateWrites
      <4> QED
        BY <1>1, <4>1, <4>2 DEF Rows
    <3>2. /\ crew'[i].name = Given(requests[p].name, requests[p].read.name)
          /\ crew'[i].zone = Given(requests[p].zone, requests[p].read.zone)
          /\ crew'[i].role = requests[p].read.role
          /\ crew'[i].active <=> requests[p].active = "true"
      BY <1>1, <3>1, MergedRow
    <3>3. crew'[i].role = crew[i].role
      BY <1>1, <3>1, <3>2 DEF Rows
    <3>4. ~Overlapped(p) =>
            /\ requests[p].name = NotGiven => crew'[i].name = crew[i].name
            /\ requests[p].zone = NotGiven => crew'[i].zone = crew[i].zone
      BY <3>1, <3>2 DEF Overlapped, Given
    <3> QED
      BY <3>1, <3>2, <3>3, <3>4 DEF Pending
  <2>2. ~ \E name \in Names, role \in Roles, zone \in Zones : Register(name, role, zone)
    BY <1>1, RegisterAppends
  <2>3. ~ \E p \in Clients : \E j \in DOMAIN crew, name \in Names \cup {NotGiven},
            zone \in Zones \cup BadZones \cup {NotGiven},
            active \in {"true", "false", NotGiven} : GetForPatch(p, j, name, zone, active)
    BY <1>1 DEF GetForPatch
  <2>4. ~ \E code \in Codes, has \in BOOLEAN, class \in Facilities :
            RegisterAircraft(code, has, class)
    BY <1>1 DEF RegisterAircraft
  <2>5. ~ UNCHANGED vars
    BY <1>1 DEF vars
  <2> QED
    BY <1>1, <2>1, <2>2, <2>3, <2>4, <2>5 DEF Next
<1>2. Rows /\ [Next]_vars => [\A i \in DOMAIN crew : crew'[i] # crew[i] => Patched(i)]_vars
  BY <1>1
<1> QED
  BY <1>2, RowsCorrect, PTL DEF Spec, LonePatch

=============================================================================
