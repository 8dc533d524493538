---------------------------- MODULE CrewRegistry ----------------------------
(***************************************************************************)
(* Registering and patching crew members and aircraft types                *)
(* (src/internal/crew, crew_store.go, aircraft_store.go) as the HTTP       *)
(* handlers do it.  A PATCH is two transactions: the handler loads the     *)
(* member, changes the fields of the request in memory and writes the      *)
(* whole row back, so two requests for the same member may overlap.        *)
(***************************************************************************)
EXTENDS Naturals, Sequences, FiniteSets

CONSTANTS
  Clients,    \* concurrent PATCH requests
  Names, Roles, Zones, \* names, valid roles and loadable time zones
  BadZones,   \* zone names that do not load
  Codes,      \* aircraft type codes
  MaxCrew,    \* bound on the rows of crew_members
  MaxPatches  \* bound on the PATCH requests sent

NotGiven == "" \* a field the request leaves out, or gives as ""
Facilities == {"NONE", "CLASS_3", "CLASS_2", "CLASS_1"}

ASSUME NamesAssumption ==
  NotGiven \notin Names \cup Zones \cup BadZones /\ Zones \cap BadZones = {}

VARIABLES
  crew,     \* crew_members by id: [name, role, zone, active]
  aircraft, \* aircraft_types: code -> [has, class], on the codes registered
  requests, \* [client -> the PATCH it is sending]
  patches   \* PATCH requests sent so far

vars == <<crew, aircraft, requests, patches>>

None == [pc |-> "none"]

Init ==
  /\ crew = <<>>
  /\ aircraft = <<>>
  /\ requests = [p \in Clients |-> None]
  /\ patches = 0

Taken(name, role) == {i \in DOMAIN crew : crew[i].name = name /\ crew[i].role = role}

(* ON CONFLICT(name, role) DO NOTHING, and no row inserted is an error.    *)
Register(name, role, zone) ==
  /\ Len(crew) < MaxCrew
  /\ zone \in Zones
  /\ Taken(name, role) = {}
  /\ crew' = Append(crew, [name |-> name, role |-> role, zone |-> zone, active |-> TRUE])
  /\ UNCHANGED <<aircraft, requests, patches>>

(* A class other than NONE implies a facility.  code is the primary key.   *)
RegisterAircraft(code, has, class) ==
  /\ code \notin DOMAIN aircraft
  /\ aircraft' = [c \in DOMAIN aircraft \cup {code} |->
       IF c = code THEN [has |-> has \/ class # "NONE", class |-> class] ELSE aircraft[c]]
  /\ UNCHANGED <<crew, requests, patches>>

(* First transaction of PATCH: the member is loaded.                       *)
GetForPatch(p, i, name, zone, active) ==
  /\ requests[p] = None
  /\ patches < MaxPatches
  /\ patches' = patches + 1
  /\ requests' = [requests EXCEPT ![p] =
       [pc |-> "update", id |-> i, name |-> name, zone |-> zone, active |-> active,
        read |-> crew[i]]]
  /\ UNCHANGED <<crew, aircraft>>

(* Name and zone are kept when not given; active is decoded into a bool,   *)
(* false when not given.                                                   *)
Given(field, old) == IF field = NotGiven THEN old ELSE field
MergedAsSent(req) == \* faulty variant: a field not given is written blank
  [req.read EXCEPT !.name = req.name, !.zone = Given(req.zone, @),
                   !.active = (req.active = "true")]
Merged(req) ==
  [req.read EXCEPT !.name = Given(req.name, @), !.zone = Given(req.zone, @),
                   !.active = (req.active = "true")]

UpdateByName(p) == \* faulty variant: names are not kept apart
  /\ requests[p] # None
  /\ LET row == Merged(requests[p]) IN
       crew' = IF row.zone \in Zones THEN [crew EXCEPT ![requests[p].id] = row] ELSE crew
  /\ requests' = [requests EXCEPT ![p] = None]
  /\ UNCHANGED <<aircraft, patches>>

(* Second: the row is written back.  A zone that does not load and a name  *)
(* taken within the role (UNIQUE) are refused.                             *)
Update(p) ==
  /\ requests[p] # None
  /\ LET row == Merged(requests[p]) IN
       crew' = IF row.zone \in Zones /\ Taken(row.name, row.role) \subseteq {requests[p].id}
                 THEN [crew EXCEPT ![requests[p].id] = row] ELSE crew
  /\ requests' = [requests EXCEPT ![p] = None]
  /\ UNCHANGED <<aircraft, patches>>

Next ==
  \/ \E name \in Names, role \in Roles, zone \in Zones : Register(name, role, zone)
  \/ \E code \in Codes, has \in BOOLEAN, class \in Facilities : RegisterAircraft(code, has, class)
  \/ \E p \in Clients :
       \/ \E i \in DOMAIN crew, name \in Names \cup {NotGiven},
             zone \in Zones \cup BadZones \cup {NotGiven},
             active \in {"true", "false", NotGiven} : GetForPatch(p, i, name, zone, active)
       \/ Update(p)

Spec == Init /\ [][Next]_vars

-----------------------------------------------------------------------------
(* Properties *)

(* What evaluation relies on: a name means one member within a role,       *)
(* whatever registrations and renamings overlap; every stored home zone    *)
(* loads, so that local hours are never taken in UTC by default; and an    *)
(* aircraft type of a facility class has a facility.                       *)
TypeOK ==
  /\ \A i \in DOMAIN crew :
       crew[i].name \in Names /\ crew[i].role \in Roles /\ crew[i].zone \in Zones
  /\ \A i, j \in DOMAIN crew :
       crew[i].name = crew[j].name /\ crew[i].role = crew[j].role => i = j
  /\ \A code \in DOMAIN aircraft : aircraft[code].class # "NONE" => aircraft[code].has

(* A PATCH that no other overlaps changes the fields it gives and no       *)
(* others, but for active, which it clears unless it gives it: only then   *)
(* does a row written back whole undo nothing.  A row changes in no other  *)
(* way, and its role never does.                                           *)
Overlapped(p) == crew[requests[p].id] # requests[p].read
LonePatch ==
  [][\A i \in DOMAIN crew : crew'[i] # crew[i] =>
       \E p \in Clients :
         /\ requests[p] # None /\ requests[p].id = i /\ requests'[p] = None
         /\ crew'[i].role = crew[i].role
         /\ ~Overlapped(p) =>
              /\ requests[p].name = NotGiven => crew'[i].name = crew[i].name
              /\ requests[p].zone = NotGiven => crew'[i].zone = crew[i].zone
              /\ crew'[i].active <=> requests[p].active = "true"]_vars

=============================================================================
