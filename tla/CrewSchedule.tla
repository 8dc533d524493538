---------------------------- MODULE CrewSchedule ----------------------------
(***************************************************************************)
(* The scheduling service of the crew-fatigue engine and the tables it     *)
(* writes (src/internal/schedule, src/internal/store).                     *)
(*                                                                         *)
(* Every operation of the service runs in one store.InTx transaction, and  *)
(* the store has a single connection (store.go:38-98), so an operation is  *)
(* one atomic step: it either commits all its writes or rolls them back.   *)
(* A request that is refused, or a crash before COMMIT, leaves every table *)
(* as it was: both are stuttering steps.                                   *)
(*                                                                         *)
(* A table is a sequence whose index is the AUTOINCREMENT id of the row.   *)
(* The compliance log is a sequence in insertion (id) order; an event      *)
(* carries its own business time ts.  Times are integers counted in ticks, *)
(* TicksPerMin of them to the minute: the log keeps durations in whole     *)
(* minutes, and the remainder is lost there.                               *)
(***************************************************************************)
EXTENDS Integers, Sequences, FiniteSets

CONSTANTS
  Crew,            \* registered crew members (the foreign key of trips and rests)
  SegmentInputs,   \* requests [dep, arr, block] to add a segment; block 0 = not given
  RestInputs,      \* requests [start, end, type, covers] to register a rest
  ExtensionInputs, \* unforeseen minutes a close request may carry
  TicksPerMin,     \* resolution of the clock
  ReportLeadMin,   \* domain.ReportLeadMin
  ReleaseLagMin,   \* domain.ReleaseLagMin
  UnforeseenExtendMaxMin, \* domain.UnforeseenExtendMaxMin
  UnforeseenYearlyLimit,  \* domain.UnforeseenYearlyLimit
  YearMin,         \* minutes in a calendar year (years of one length)
  MaxTrips, MaxSegments, MaxDuties, MaxRests \* bounds on the rows of each table

RestTypes == {"NORMAL", "AUGMENTED", "SPLIT_CREDIT", "COMPENSATORY"}

ASSUME InputsAssumption ==
  /\ SegmentInputs \subseteq [dep: Int, arr: Int, block: Int]
  /\ RestInputs \subseteq [start: Int, end: Int, type: RestTypes, covers: BOOLEAN]
  /\ ExtensionInputs \subseteq Int

ASSUME ParametersAssumption ==
  /\ TicksPerMin \in Nat \ {0}
  /\ ReportLeadMin \in Nat
  /\ ReleaseLagMin \in Nat
  /\ UnforeseenExtendMaxMin \in Nat \ {0}
  /\ UnforeseenYearlyLimit \in Nat
  /\ YearMin \in Nat \ {0}

VARIABLES
  trips,     \* trips:           [crew, planned]
  segments,  \* flight_segments: [trip, dep, arr, block]
  duties,    \* duty_periods with duty_period_segments (segs, in seq order)
  rests,     \* rest_periods
  events     \* compliance_events, append-only

tables == <<trips, segments, duties, rests>>
vars == <<trips, segments, duties, rests, events>>

-----------------------------------------------------------------------------
(* Conversions *)

Minutes(ticks) == ticks \div TicksPerMin \* int(d.Minutes()) of a duration d >= 0
Ticks(minutes) == minutes * TicksPerMin

BlockOf(in) == IF in.block = 0 THEN Minutes(in.arr - in.dep) ELSE in.block

FDPMin(duty) == Minutes(duty.release - duty.report)

-----------------------------------------------------------------------------
(* The rows of the log.  EVALUATION and REPLAY_OVERRIDE events are written *)
(* by the compliance service only.                                         *)

SegmentLandedEvent ==
  [kind: {"SEGMENT_LANDED"}, crew: Crew, ts: Int, segment: Nat, block: Int, trip: Nat]
DutyClosedEvent ==
  [kind: {"DUTY_CLOSED"}, crew: Crew, ts: Int, duty: Nat, fdp: Int, ext: Int, owe: BOOLEAN]
UnforeseenEvent ==
  [kind: {"UNFORESEEN_EXTENSION"}, crew: Crew, ts: Int, duty: Nat, added: Int]
RestCompletedEvent ==
  [kind: {"REST_COMPLETED"}, crew: Crew, ts: Int, rest: Nat, type: RestTypes,
   duration: Int, covers: BOOLEAN]
ScheduleEvent ==
  SegmentLandedEvent \cup DutyClosedEvent \cup UnforeseenEvent \cup RestCompletedEvent

SegmentLanded(duty, s) ==
  [kind |-> "SEGMENT_LANDED", crew |-> duty.crew, ts |-> segments[s].dep,
   segment |-> s, block |-> segments[s].block, trip |-> duty.trip]

DutyClosed(d, ext) ==
  [kind |-> "DUTY_CLOSED", crew |-> duties[d].crew, ts |-> duties[d].release,
   duty |-> d, fdp |-> FDPMin(duties[d]), ext |-> ext, owe |-> ext > 0]

UnforeseenExtension(d, ext) ==
  [kind |-> "UNFORESEEN_EXTENSION", crew |-> duties[d].crew, ts |-> duties[d].release,
   duty |-> d, added |-> ext]

RestCompleted(r, row) ==
  [kind |-> "REST_COMPLETED", crew |-> row.crew, ts |-> row.end, rest |-> r,
   type |-> row.type, duration |-> row.minutes, covers |-> row.covers]

-----------------------------------------------------------------------------
(* Queries *)

SegmentsOf(t) == {s \in DOMAIN segments : segments[s].trip = t}

UnsortedListings(t) == \* faulty variant: no ORDER BY
  {list \in [1..Cardinality(SegmentsOf(t)) -> SegmentsOf(t)] :
     \A i, j \in 1..Cardinality(SegmentsOf(t)) : i < j => list[i] # list[j]}

(* ORDER BY scheduled_dep with no further key: segments that depart at the *)
(* same instant may come back in either order.                             *)
SegmentListings(t) ==
  {list \in [1..Cardinality(SegmentsOf(t)) -> SegmentsOf(t)] :
     \A i, j \in 1..Cardinality(SegmentsOf(t)) :
        i < j => /\ list[i] # list[j]
                 /\ segments[list[i]].dep <= segments[list[j]].dep}

-----------------------------------------------------------------------------
(* Operations *)

Init ==
  /\ trips = <<>>
  /\ segments = <<>>
  /\ duties = <<>>
  /\ rests = <<>>
  /\ events = <<>>

CreateTrip(c) ==
  /\ Len(trips) < MaxTrips
  /\ trips' = Append(trips, [crew |-> c, planned |-> TRUE])
  /\ UNCHANGED <<segments, duties, rests, events>>

AddSegment(t, in) ==
  /\ Len(segments) < MaxSegments
  /\ trips[t].planned
  /\ in.arr > in.dep
  /\ in.block >= 0
  /\ segments' = Append(segments, [trip |-> t, dep |-> in.dep, arr |-> in.arr,
                                   block |-> BlockOf(in)])
  /\ UNCHANGED <<trips, duties, rests, events>>

(* The trip need not be planned, and it may have duties already. *)
NewDuty(t, list) ==
  [crew |-> trips[t].crew, trip |-> t, segs |-> list,
   report |-> segments[list[1]].dep - Ticks(ReportLeadMin),
   release |-> segments[list[Len(list)]].arr + Ticks(ReleaseLagMin),
   status |-> "OPEN", ext |-> 0, owe |-> FALSE]

CreateDutyForTrip(t) ==
  /\ Len(duties) < MaxDuties
  /\ SegmentsOf(t) # {}
  /\ \E list \in SegmentListings(t) : duties' = Append(duties, NewDuty(t, list))
  /\ UNCHANGED <<trips, segments, rests, events>>

UncappedExtension(requested) == requested \* faulty variant: no R10 cap

CappedExtension(requested) ==
  IF requested > UnforeseenExtendMaxMin THEN UnforeseenExtendMaxMin ELSE requested

CloseEventsOfTrip(d, ext) == \* faulty variant: lands what the trip holds now
  [i \in 1..Cardinality(SegmentsOf(duties[d].trip)) |->
     SegmentLanded(duties[d], (CHOOSE l \in SegmentListings(duties[d].trip) : TRUE)[i])]
    \o <<DutyClosed(d, ext)>>
    \o (IF ext > 0 THEN <<UnforeseenExtension(d, ext)>> ELSE <<>>)

CloseEventsOfOwing(d, ext) == \* faulty variant: any nonzero extension is logged
  [i \in 1..Len(duties[d].segs) |-> SegmentLanded(duties[d], duties[d].segs[i])]
    \o <<DutyClosed(d, ext)>>
    \o (IF ext # 0 THEN <<UnforeseenExtension(d, ext)>> ELSE <<>>)

CloseEventsDutyFirst(d, ext) == \* faulty variant: the duty is logged before its flights
  <<DutyClosed(d, ext)>>
    \o (IF ext > 0 THEN <<UnforeseenExtension(d, ext)>> ELSE <<>>)
    \o [i \in 1..Len(duties[d].segs) |-> SegmentLanded(duties[d], duties[d].segs[i])]

(* What closing duty d appends to the log, in the order it is appended. *)
CloseEvents(d, ext) ==
  [i \in 1..Len(duties[d].segs) |-> SegmentLanded(duties[d], duties[d].segs[i])]
    \o <<DutyClosed(d, ext)>>
    \o (IF ext > 0 THEN <<UnforeseenExtension(d, ext)>> ELSE <<>>)

CloseAnyDuty(d, requested) == \* faulty variant: a closed duty closes again
  LET ext == CappedExtension(requested) IN
  /\ Len(events) < 12
  /\ duties[d].segs # <<>>
  /\ duties' = [duties EXCEPT ![d] = [@ EXCEPT !.status = "CLOSED", !.ext = ext, !.owe = ext > 0]]
  /\ events' = events \o CloseEvents(d, ext)
  /\ trips' = [trips EXCEPT ![duties[d].trip].planned = FALSE]
  /\ UNCHANGED <<segments, rests>>

CloseDutyOnly(d, requested) == \* faulty variant: the trip is left planned
  LET ext == CappedExtension(requested) IN
  /\ duties[d].status = "OPEN"
  /\ duties[d].segs # <<>>
  /\ duties' = [duties EXCEPT ![d] = [@ EXCEPT !.status = "CLOSED", !.ext = ext, !.owe = ext > 0]]
  /\ events' = events \o CloseEvents(d, ext)
  /\ UNCHANGED <<trips, segments, rests>>

CloseDuty(d, requested) ==
  LET ext == CappedExtension(requested) IN
  /\ duties[d].status = "OPEN"
  /\ duties[d].segs # <<>>
  /\ duties' = [duties EXCEPT ![d] = [@ EXCEPT !.status = "CLOSED", !.ext = ext, !.owe = ext > 0]]
  /\ events' = events \o CloseEvents(d, ext)
  /\ trips' = [trips EXCEPT ![duties[d].trip].planned = FALSE]
  /\ UNCHANGED <<segments, rests>>

RestRow(c, in) ==
  [crew |-> c, start |-> in.start, end |-> in.end, type |-> in.type,
   minutes |-> Minutes(in.end - in.start), covers |-> in.covers]

CreateRestUnlogged(c, in) == \* faulty variant: the log entry is forgotten
  /\ Len(rests) < MaxRests
  /\ in.end > in.start
  /\ rests' = Append(rests, RestRow(c, in))
  /\ UNCHANGED <<trips, segments, duties, events>>

CreateRest(c, in) ==
  /\ Len(rests) < MaxRests
  /\ in.end > in.start
  /\ rests' = Append(rests, RestRow(c, in))
  /\ events' = Append(events, RestCompleted(Len(rests) + 1, RestRow(c, in)))
  /\ UNCHANGED <<trips, segments, duties>>

Next ==
  \/ \E c \in Crew : CreateTrip(c)
  \/ \E t \in DOMAIN trips, in \in SegmentInputs : AddSegment(t, in)
  \/ \E t \in DOMAIN trips : CreateDutyForTrip(t)
  \/ \E d \in DOMAIN duties, requested \in ExtensionInputs : CloseDuty(d, requested)
  \/ \E c \in Crew, in \in RestInputs : CreateRest(c, in)

Spec == Init /\ [][Next]_vars

-----------------------------------------------------------------------------
(* Types *)

TripType == [crew: Crew, planned: BOOLEAN]
SegmentType == [trip: DOMAIN trips, dep: Int, arr: Int, block: Int]
DutyType ==
  [crew: Crew, trip: DOMAIN trips, segs: Seq(DOMAIN segments), report: Int, release: Int,
   status: {"OPEN", "CLOSED"}, ext: {n \in Int : n <= UnforeseenExtendMaxMin}, owe: BOOLEAN]
RestType ==
  [crew: Crew, start: Int, end: Int, type: RestTypes, minutes: Int, covers: BOOLEAN]

(* Every row is well formed, and every foreign key points at a row. *)
TablesOK ==
  /\ trips \in Seq(TripType)
  /\ segments \in Seq(SegmentType)
  /\ duties \in Seq(DutyType)
  /\ rests \in Seq(RestType)
TypeOK == TablesOK /\ events \in Seq(ScheduleEvent)

-----------------------------------------------------------------------------
(* Safety *)

Closed(d) == duties[d].status = "CLOSED"
LinkedTo(d) == {duties[d].segs[i] : i \in DOMAIN duties[d].segs}
IsClosureOf(e, d) == e.kind = "DUTY_CLOSED" /\ e.duty = d
IsLandingOf(e, s) == e.kind = "SEGMENT_LANDED" /\ e.segment = s
IsExtensionOf(e, d) == e.kind = "UNFORESEEN_EXTENSION" /\ e.duty = d

(* A duty is closed exactly when the log says so: the log holds one        *)
(* DUTY_CLOSED event for it, which agrees with the row, and no duty is     *)
(* closed twice whatever closes race (the status tests of CloseDuty).      *)
ClosureLoggedOnce ==
  /\ \A d \in DOMAIN duties :
       Closed(d) => \E i \in DOMAIN events : events[i] = DutyClosed(d, duties[d].ext)
  /\ \A i \in DOMAIN events : events[i].kind = "DUTY_CLOSED" =>
       /\ events[i].duty \in DOMAIN duties
       /\ Closed(events[i].duty)
       /\ events[i] = DutyClosed(events[i].duty, duties[events[i].duty].ext)
  /\ \A i, j \in DOMAIN events :
       (events[i].kind = "DUTY_CLOSED" /\ IsClosureOf(events[j], events[i].duty)) => i = j

(* Flight time enters the log only by closing a duty: a segment is landed  *)
(* as many times as there are closed duties that link it, with the block   *)
(* time and departure of its row, even when segments were added to the     *)
(* trip between creating and closing the duty.                             *)
LandedPerClosure ==
  /\ \A s \in DOMAIN segments :
       Cardinality({i \in DOMAIN events : IsLandingOf(events[i], s)}) =
       Cardinality({d \in DOMAIN duties : Closed(d) /\ s \in LinkedTo(d)})
  /\ \A i \in DOMAIN events : events[i].kind = "SEGMENT_LANDED" =>
       \E d \in DOMAIN duties :
          /\ Closed(d)
          /\ events[i].segment \in LinkedTo(d)
          /\ events[i] = SegmentLanded(duties[d], events[i].segment)

(* The R10 record is consistent in its three places: a duty owes augmented *)
(* rest when its stored extension is positive, and only such a duty has an *)
(* UNFORESEEN_EXTENSION event, one, after its DUTY_CLOSED.  A negative     *)
(* request is stored but extends nothing.                                  *)
ExtensionLogged ==
  /\ \A d \in DOMAIN duties :
       /\ duties[d].owe <=> duties[d].ext > 0
       /\ duties[d].owe => Closed(d)
       /\ duties[d].owe <=> \E i \in DOMAIN events : IsExtensionOf(events[i], d)
  /\ \A i \in DOMAIN events : events[i].kind = "UNFORESEEN_EXTENSION" =>
       /\ i > 1
       /\ events[i - 1] = DutyClosed(events[i].duty, events[i].added)

(* Rests and their REST_COMPLETED events are in one-to-one correspondence, *)
(* so the rules that read the table (R8, R9) and those that read the log   *)
(* (R7, R10) see the same rests.                                           *)
RestsLogged ==
  /\ \A r \in DOMAIN rests :
       \E i \in DOMAIN events : events[i] = RestCompleted(r, rests[r])
  /\ \A i \in DOMAIN events : events[i].kind = "REST_COMPLETED" =>
       /\ events[i].rest \in DOMAIN rests
       /\ events[i] = RestCompleted(events[i].rest, rests[events[i].rest])
  /\ \A i, j \in DOMAIN events :
       (events[i].kind = "REST_COMPLETED" /\ events[j].kind = "REST_COMPLETED"
          /\ events[i].rest = events[j].rest) => i = j

(* A trip stops being planned when, and only when, one of its duties is    *)
(* closed; a landed segment therefore never sits on a trip that still      *)
(* accepts segments.                                                       *)
TripClosedByDuty ==
  /\ \A t \in DOMAIN trips :
       ~trips[t].planned <=> \E d \in DOMAIN duties : duties[d].trip = t /\ Closed(d)
  /\ \A i \in DOMAIN events :
       events[i].kind = "SEGMENT_LANDED" => ~trips[segments[events[i].segment].trip].planned

(* A duty stays true to its trip: it belongs to the crew member of the     *)
(* trip, links segments of that trip once each in departure order, and its *)
(* report precedes every linked departure by the report lead.              *)
DutyFollowsTrip ==
  \A d \in DOMAIN duties :
    LET list == duties[d].segs IN
    /\ duties[d].crew = trips[duties[d].trip].crew
    /\ LinkedTo(d) \subseteq SegmentsOf(duties[d].trip)
    /\ \A i, j \in DOMAIN list :
         i < j => list[i] # list[j] /\ segments[list[i]].dep <= segments[list[j]].dep
    /\ \A s \in LinkedTo(d) : segments[s].dep >= duties[d].report + Ticks(ReportLeadMin)
    /\ duties[d].release > duties[d].report

(* The past is final: the log only grows, a closed duty never changes, and *)
(* a trip that is no longer planned neither gains segments nor reopens.    *)
PastKept ==
  /\ \A i \in DOMAIN events : i \in DOMAIN events' /\ events'[i] = events[i]
  /\ \A d \in DOMAIN duties : Closed(d) => d \in DOMAIN duties' /\ duties'[d] = duties[d]
  /\ \A t \in DOMAIN trips : ~trips[t].planned =>
       ~trips'[t].planned /\ SegmentsOf(t)' = SegmentsOf(t)
PastIsFinal == [][PastKept]_vars

-----------------------------------------------------------------------------
(* Stated by the repository, refuted by the code *)

(* The rolling totals count real block time (BENZHI_README.md:48), so a    *)
(* flight contributes to them once: no segment is landed twice.            *)
LandedAtMostOnce ==
  \A i, j \in DOMAIN events :
    (events[i].kind = "SEGMENT_LANDED" /\ IsLandingOf(events[j], events[i].segment)) => i = j

(* UnforeseenYearlyLimit is "per crew per calendar year" (constants.go:45) *)
(* and CloseDuty's extension is "validated by the compliance layer's       *)
(* yearly quota" (schedule.go:169-170): in no year does a crew member have *)
(* more trips with an extended duty than the limit.                        *)
YearOf(ts) == ts \div Ticks(YearMin)
ExtendedTrips(c, year) ==
  {duties[d].trip : d \in {d \in DOMAIN duties :
     duties[d].crew = c /\ duties[d].owe /\ YearOf(duties[d].release) = year}}
YearlyExtensionQuota ==
  \A c \in Crew : \A d \in DOMAIN duties :
    Cardinality(ExtendedTrips(c, YearOf(duties[d].release))) <= UnforeseenYearlyLimit

=============================================================================
