------------------------- MODULE CrewScheduleProofs -------------------------
(* Proofs about CrewSchedule, for every value of its constants: types, the *)
(* finality of the past, the agreement of the tables with the log; and     *)
(* about CumulativeReplay: what is rebuilt from the log is what the tables *)
(* hold, whatever the order of closes, replays and restarts.               *)
EXTENDS CrewLedger, CumulativeReplay, DataTheorems, SequenceTheorems

-----------------------------------------------------------------------------
(* Lemmas on the definitions *)

(* Conversions stay within the integers. *)
LEMMA ConversionTypes ==
  /\ \A n \in Int : Minutes(n) \in Int /\ Ticks(n) \in Int
  /\ \A in \in SegmentInputs : BlockOf(in) \in Int
  /\ \A n \in ExtensionInputs : CappedExtension(n) \in Int
                             /\ CappedExtension(n) <= UnforeseenExtendMaxMin
BY InputsAssumption, ParametersAssumption DEF Minutes, Ticks, BlockOf, CappedExtension

(* A table is indexed by its row ids, and every row is well formed. *)
LEMMA Rows ==
  ASSUME NEW T, NEW table \in Seq(T)
  PROVE  /\ Len(table) \in Nat
         /\ DOMAIN table = 1..Len(table)
         /\ \A i \in DOMAIN table : i \in Nat /\ table[i] \in T
BY LenProperties, ElementOfSeq

(* The lemmas hold beside the compliance service too, whose evaluations and *)
(* replays append events of their own to the log (compliance.go:202-206,   *)
(* 72-78).                                                                 *)
ComplianceEvent ==
  [kind: {"EVALUATION"}, crew: Crew, ts: Int, verdict: {"LEGAL", "ILLEGAL"}]
  \cup [kind: {"REPLAY_OVERRIDE"}, crew: Crew, ts: Int,
        window: {"28d", "168h", "365d"}, stored: Int, rebuilt: Int]
LogEvent == ScheduleEvent \cup ComplianceEvent
WellFormed == TablesOK /\ events \in Seq(LogEvent)

(* The service alone keeps a log that is well formed in this wider sense. *)
LEMMA TypedIsWellFormed == TypeOK => WellFormed
<1>1. Seq(ScheduleEvent) \subseteq Seq(LogEvent)
  BY SeqMonotonic DEF LogEvent
<1> QED
  BY <1>1 DEF TypeOK, WellFormed

(* What the rows of well-formed tables are. *)
LEMMA TableRows ==
  ASSUME WellFormed
  PROVE  /\ \A t \in DOMAIN trips : t \in Nat /\ trips[t] \in TripType
         /\ \A s \in DOMAIN segments : s \in Nat /\ segments[s] \in SegmentType
         /\ \A d \in DOMAIN duties : d \in Nat /\ duties[d] \in DutyType
         /\ \A r \in DOMAIN rests : r \in Nat /\ rests[r] \in RestType
         /\ \A i \in DOMAIN events : i \in Nat /\ events[i] \in LogEvent
<1>1. \A t \in DOMAIN trips : t \in Nat /\ trips[t] \in TripType
  BY Rows DEF WellFormed, TablesOK
<1>2. \A s \in DOMAIN segments : s \in Nat /\ segments[s] \in SegmentType
  BY Rows DEF WellFormed, TablesOK
<1>3. \A d \in DOMAIN duties : d \in Nat /\ duties[d] \in DutyType
  BY Rows DEF WellFormed, TablesOK
<1>4. \A r \in DOMAIN rests : r \in Nat /\ rests[r] \in RestType
  BY Rows DEF WellFormed, TablesOK
<1>5. \A i \in DOMAIN events : i \in Nat /\ events[i] \in LogEvent
  BY Rows DEF WellFormed, TablesOK
<1> QED
  BY <1>1, <1>2, <1>3, <1>4, <1>5

(* The segments of a trip are finitely many row ids. *)
LEMMA SegmentsOfFinite ==
  ASSUME WellFormed, NEW t
  PROVE  /\ SegmentsOf(t) \subseteq DOMAIN segments
         /\ Cardinality(SegmentsOf(t)) \in Nat
         /\ SegmentsOf(t) # {} => Cardinality(SegmentsOf(t)) > 0
<1>1. DOMAIN segments = 1..Len(segments) /\ Len(segments) \in Nat
  BY DEF WellFormed, TablesOK
<1>2. IsFiniteSet(1..Len(segments))
  BY <1>1, FS_Interval
<1>3. SegmentsOf(t) \subseteq 1..Len(segments)
  BY <1>1 DEF SegmentsOf
<1>4. IsFiniteSet(SegmentsOf(t))
  BY <1>2, <1>3, FS_Subset
<1>5. Cardinality(SegmentsOf(t)) \in Nat
  BY <1>4, FS_CardinalityType
<1>6. SegmentsOf(t) # {} => Cardinality(SegmentsOf(t)) # 0
  BY <1>4, FS_EmptySet
<1> QED
  BY <1>1, <1>3, <1>5, <1>6

(* A listing of a trip is a nonempty sequence of its segments. *)
LEMMA ListingType ==
  ASSUME WellFormed, NEW t, SegmentsOf(t) # {}, NEW list \in SegmentListings(t)
  PROVE  /\ list \in Seq(DOMAIN segments)
         /\ Len(list) = Cardinality(SegmentsOf(t))
         /\ Len(list) \in Nat \ {0}
         /\ DOMAIN list = 1..Len(list)
         /\ \A i \in DOMAIN list : list[i] \in SegmentsOf(t) /\ list[i] \in DOMAIN segments
<1> DEFINE n == Cardinality(SegmentsOf(t))
<1>1. n \in Nat /\ n > 0 /\ SegmentsOf(t) \subseteq DOMAIN segments
  BY SegmentsOfFinite
<1>2. list \in [1..n -> SegmentsOf(t)]
  BY DEF SegmentListings
<1>3. list \in Seq(SegmentsOf(t)) /\ Len(list) = n
  BY <1>1, <1>2
<1>4. list \in Seq(DOMAIN segments)
  BY <1>1, <1>3
<1> QED
  BY <1>1, <1>2, <1>3, <1>4

(* A new duty is a well-formed row. *)
LEMMA NewDutyType ==
  ASSUME WellFormed, NEW t \in DOMAIN trips, SegmentsOf(t) # {},
         NEW list \in SegmentListings(t)
  PROVE  NewDuty(t, list) \in DutyType
<1>1. trips[t].crew \in Crew
  BY TableRows DEF TripType
<1>2. list \in Seq(DOMAIN segments) /\ list[1] \in DOMAIN segments
      /\ list[Len(list)] \in DOMAIN segments
  BY ListingType
<1>3. \A s \in DOMAIN segments : segments[s].dep \in Int /\ segments[s].arr \in Int
  BY TableRows DEF SegmentType
<1>4. Ticks(ReportLeadMin) \in Int /\ Ticks(ReleaseLagMin) \in Int
  BY ConversionTypes, ParametersAssumption
<1>5. 0 \in {n \in Int : n <= UnforeseenExtendMaxMin}
  BY ParametersAssumption
<1> QED
  BY <1>1, <1>2, <1>3, <1>4, <1>5 DEF NewDuty, DutyType

(* The elements of two, and of three, sequences joined end to end. *)
LEMMA TwoParts ==
  ASSUME NEW T, NEW a \in Seq(T), NEW b \in Seq(T)
  PROVE  /\ DOMAIN a = 1..Len(a) /\ Len(a) \in Nat
         /\ DOMAIN (a \o b) = 1..(Len(a) + Len(b))
         /\ \A i \in 1..Len(a) : (a \o b)[i] = a[i]
         /\ \A k \in 1..Len(b) : (a \o b)[Len(a) + k] = b[k]
OBVIOUS

LEMMA ThreeParts ==
  ASSUME NEW T, NEW a \in Seq(T), NEW b \in Seq(T), NEW c \in Seq(T)
  PROVE  /\ (a \o b) \o c \in Seq(T)
         /\ Len((a \o b) \o c) = Len(a) + Len(b) + Len(c)
         /\ \A i \in 1..Len(a) : ((a \o b) \o c)[i] = a[i]
         /\ \A i \in 1..Len(b) : ((a \o b) \o c)[Len(a) + i] = b[i]
         /\ \A i \in 1..Len(c) : ((a \o b) \o c)[Len(a) + Len(b) + i] = c[i]
OBVIOUS

(* What closing a duty appends: its landings, its closure and at most one  *)
(* extension, all well-formed events.                                      *)
LEMMA CloseEventsType ==
  ASSUME WellFormed, NEW d \in DOMAIN duties, NEW ext \in Int
  PROVE  /\ CloseEvents(d, ext) \in Seq(ScheduleEvent)
         /\ Len(CloseEvents(d, ext)) =
              Len(duties[d].segs) + 1 + (IF ext > 0 THEN 1 ELSE 0)
         /\ \A i \in 1..Len(duties[d].segs) :
              CloseEvents(d, ext)[i] = SegmentLanded(duties[d], duties[d].segs[i])
         /\ CloseEvents(d, ext)[Len(duties[d].segs) + 1] = DutyClosed(d, ext)
         /\ ext > 0 =>
              CloseEvents(d, ext)[Len(duties[d].segs) + 2] = UnforeseenExtension(d, ext)
<1> DEFINE n == Len(duties[d].segs)
           L == [i \in 1..n |-> SegmentLanded(duties[d], duties[d].segs[i])]
           C == <<DutyClosed(d, ext)>>
           X == IF ext > 0 THEN <<UnforeseenExtension(d, ext)>> ELSE <<>>
<1>1. duties[d] \in DutyType /\ d \in Nat
  BY TableRows
<1>2. n \in Nat /\ \A i \in 1..n : duties[d].segs[i] \in DOMAIN segments
  BY <1>1 DEF DutyType
<1>3. \A s \in DOMAIN segments : SegmentLanded(duties[d], s) \in ScheduleEvent
  <2> SUFFICES ASSUME NEW s \in DOMAIN segments
               PROVE  SegmentLanded(duties[d], s) \in SegmentLandedEvent
    BY DEF ScheduleEvent
  <2>1. segments[s].dep \in Int /\ segments[s].block \in Int /\ s \in Nat
    BY TableRows DEF SegmentType
  <2>2. duties[d].crew \in Crew /\ duties[d].trip \in Nat
    BY <1>1, TableRows DEF DutyType
  <2> QED
    BY <2>1, <2>2 DEF SegmentLanded, SegmentLandedEvent
<1>4. DutyClosed(d, ext) \in ScheduleEvent
  <2>1. FDPMin(duties[d]) \in Int
    BY <1>1, ConversionTypes DEF FDPMin, DutyType
  <2>2. DutyClosed(d, ext) \in DutyClosedEvent
    BY <1>1, <2>1 DEF DutyClosed, DutyClosedEvent, DutyType
  <2> QED
    BY <2>2 DEF ScheduleEvent
<1>5. UnforeseenExtension(d, ext) \in ScheduleEvent
  <2>1. UnforeseenExtension(d, ext) \in UnforeseenEvent
    BY <1>1 DEF UnforeseenExtension, UnforeseenEvent, DutyType
  <2> QED
    BY <2>1 DEF ScheduleEvent
<1>6. L \in Seq(ScheduleEvent) /\ Len(L) = n
      /\ \A i \in 1..n : L[i] = SegmentLanded(duties[d], duties[d].segs[i])
  BY <1>2, <1>3
<1>7. C \in Seq(ScheduleEvent) /\ Len(C) = 1 /\ C[1] = DutyClosed(d, ext)
  BY <1>4
<1>8. /\ X \in Seq(ScheduleEvent)
      /\ Len(X) = IF ext > 0 THEN 1 ELSE 0
      /\ ext > 0 => X[1] = UnforeseenExtension(d, ext)
  BY <1>5
<1>9. CloseEvents(d, ext) = (L \o C) \o X
  BY DEF CloseEvents
<1> HIDE DEF L, C, X
<1>10. /\ CloseEvents(d, ext) \in Seq(ScheduleEvent)
       /\ Len(CloseEvents(d, ext)) = Len(L) + Len(C) + Len(X)
       /\ \A i \in 1..Len(L) : CloseEvents(d, ext)[i] = L[i]
       /\ \A i \in 1..Len(C) : CloseEvents(d, ext)[Len(L) + i] = C[i]
       /\ \A i \in 1..Len(X) : CloseEvents(d, ext)[Len(L) + Len(C) + i] = X[i]
  <2>1. L \in Seq(ScheduleEvent) /\ C \in Seq(ScheduleEvent) /\ X \in Seq(ScheduleEvent)
    BY <1>6, <1>7, <1>8
  <2>2. /\ (L \o C) \o X \in Seq(ScheduleEvent)
        /\ Len((L \o C) \o X) = Len(L) + Len(C) + Len(X)
        /\ \A i \in 1..Len(L) : ((L \o C) \o X)[i] = L[i]
        /\ \A i \in 1..Len(C) : ((L \o C) \o X)[Len(L) + i] = C[i]
        /\ \A i \in 1..Len(X) : ((L \o C) \o X)[Len(L) + Len(C) + i] = X[i]
    BY <2>1, ThreeParts
  <2> QED
    BY <1>9, <2>2, Zenon
<1> HIDE DEF n
<1>11. \A i \in 1..n : CloseEvents(d, ext)[i] = SegmentLanded(duties[d], duties[d].segs[i])
  BY <1>6, <1>10
<1>12. CloseEvents(d, ext)[n + 1] = DutyClosed(d, ext)
  BY <1>6, <1>7, <1>10
<1>13. ext > 0 => CloseEvents(d, ext)[n + 2] = UnforeseenExtension(d, ext)
  BY <1>2, <1>6, <1>7, <1>8, <1>10
<1>14. Len(CloseEvents(d, ext)) = n + 1 + (IF ext > 0 THEN 1 ELSE 0)
  BY <1>6, <1>7, <1>8, <1>10
<1> QED
  BY <1>10, <1>11, <1>12, <1>13, <1>14 DEF n

-----------------------------------------------------------------------------
(* Type correctness *)

(* Row types only grow: ids that exist keep existing. *)
LEMMA RowTypesGrow ==
  ASSUME WellFormed,
         DOMAIN trips \subseteq (DOMAIN trips)',
         DOMAIN segments \subseteq (DOMAIN segments)'
  PROVE  SegmentType \subseteq SegmentType' /\ DutyType \subseteq DutyType'
         /\ segments \in Seq(SegmentType') /\ duties \in Seq(DutyType')
<1>1. SegmentType \subseteq SegmentType'
  BY DEF SegmentType
<1>2. Seq(DOMAIN segments) \subseteq Seq((DOMAIN segments)')
  BY SeqMonotonic
<1>3. DutyType \subseteq DutyType'
  BY <1>2 DEF DutyType
<1>4. segments \in Seq(SegmentType') /\ duties \in Seq(DutyType')
  BY <1>1, <1>3, SeqMonotonic DEF WellFormed, TablesOK
<1> QED
  BY <1>1, <1>3, <1>4

LEMMA InitTypeOK == Init => TypeOK
BY DEF Init, TypeOK, TablesOK

(* What an operation appends to the log. *)
Appended == \E new \in Seq(ScheduleEvent) : events' = events \o new

(* Most append nothing. *)
LEMMA NothingAppended ==
  ASSUME WellFormed, UNCHANGED events
  PROVE  Appended
<1>1. events \o <<>> = events
  BY ConcatEmptySeq DEF WellFormed
<1>2. <<>> \in Seq(ScheduleEvent)
  OBVIOUS
<1> QED
  BY <1>1, <1>2, Zenon DEF Appended

(* Each operation keeps the tables well formed and appends to the log. *)
LEMMA CreateTripTypes ==
  ASSUME WellFormed, NEW c \in Crew, CreateTrip(c)
  PROVE  TablesOK' /\ Appended
<1>1. trips' \in Seq(TripType) /\ DOMAIN trips \subseteq (DOMAIN trips)'
  <2>1. [crew |-> c, planned |-> TRUE] \in TripType
    BY DEF TripType
  <2> QED
    BY <2>1 DEF WellFormed, TablesOK, CreateTrip
<1>2. segments \in Seq(SegmentType') /\ duties \in Seq(DutyType')
  BY <1>1, RowTypesGrow DEF CreateTrip
<1> QED
  BY <1>1, <1>2, NothingAppended DEF CreateTrip, WellFormed, TablesOK, TripType, RestType

LEMMA AddSegmentTypes ==
  ASSUME WellFormed, NEW t \in DOMAIN trips, NEW in \in SegmentInputs, AddSegment(t, in)
  PROVE  TablesOK' /\ Appended
<1> DEFINE row == [trip |-> t, dep |-> in.dep, arr |-> in.arr, block |-> BlockOf(in)]
<1>1. row \in SegmentType
  BY InputsAssumption, ConversionTypes DEF SegmentType
<1>2. segments' = Append(segments, row) /\ UNCHANGED <<trips, duties, rests, events>>
  BY DEF AddSegment
<1> HIDE DEF row
<1>3. DOMAIN segments \subseteq (DOMAIN segments)' /\ segments' \in Seq(SegmentType)
  BY <1>1, <1>2 DEF WellFormed, TablesOK
<1>4. SegmentType' = SegmentType
  BY <1>2 DEF SegmentType
<1>5. duties \in Seq(DutyType')
  BY <1>2, <1>3, RowTypesGrow
<1> QED
  BY <1>2, <1>3, <1>4, <1>5, NothingAppended DEF WellFormed, TablesOK, TripType, RestType

LEMMA CreateDutyTypes ==
  ASSUME WellFormed, NEW t \in DOMAIN trips, CreateDutyForTrip(t)
  PROVE  TablesOK' /\ Appended
<1>1. UNCHANGED <<trips, segments, rests, events>> /\ SegmentsOf(t) # {}
  BY DEF CreateDutyForTrip
<1>2. PICK list \in SegmentListings(t) : duties' = Append(duties, NewDuty(t, list))
  BY DEF CreateDutyForTrip
<1>3. NewDuty(t, list) \in DutyType
  BY <1>1, NewDutyType
<1>4. duties' \in Seq(DutyType)
  BY <1>2, <1>3 DEF WellFormed, TablesOK
<1>5. DutyType' = DutyType /\ SegmentType' = SegmentType
  BY <1>1 DEF DutyType, SegmentType
<1> QED
  BY <1>1, <1>4, <1>5, NothingAppended DEF WellFormed, TablesOK, TripType, RestType

(* Closing a duty rewrites its row and that of its trip, and appends to    *)
(* the log.                                                                *)
LEMMA CloseDutyTypes ==
  ASSUME WellFormed, NEW d \in DOMAIN duties, NEW requested \in ExtensionInputs,
         CloseDuty(d, requested)
  PROVE  TablesOK' /\ Appended
<1> DEFINE ext == CappedExtension(requested)
<1>1. /\ duties' = [duties EXCEPT ![d] = [@ EXCEPT !.status = "CLOSED", !.ext = ext, !.owe = ext > 0]]
      /\ events' = events \o CloseEvents(d, ext)
      /\ trips' = [trips EXCEPT ![duties[d].trip].planned = FALSE]
      /\ UNCHANGED <<segments, rests>>
  BY DEF CloseDuty
<1>2. ext \in Int /\ ext <= UnforeseenExtendMaxMin
  BY ConversionTypes
<1> HIDE DEF ext
<1>3. duties[d] \in DutyType /\ duties[d].trip \in DOMAIN trips
  BY TableRows DEF DutyType
<1>4. trips' \in Seq(TripType) /\ (DOMAIN trips)' = DOMAIN trips
  <2>1. [trips[duties[d].trip] EXCEPT !.planned = FALSE] \in TripType
    BY <1>3, TableRows DEF TripType
  <2> QED
    BY <1>1, <1>3, <2>1 DEF WellFormed, TablesOK
<1>5. duties' \in Seq(DutyType)
  <2> DEFINE owes == ext > 0
  <2>a. owes \in BOOLEAN
    OBVIOUS
  <2> HIDE DEF owes
  <2>b. [duties[d] EXCEPT !.status = "CLOSED", !.ext = ext, !.owe = owes] \in DutyType
    BY <1>2, <1>3, <2>a DEF DutyType
  <2>1. [duties[d] EXCEPT !.status = "CLOSED", !.ext = ext, !.owe = ext > 0] \in DutyType
    BY <2>b DEF owes
  <2>2. duties' = [duties EXCEPT ![d] =
          [duties[d] EXCEPT !.status = "CLOSED", !.ext = ext, !.owe = ext > 0]]
    BY <1>1
  <2> QED
    BY <2>1, <2>2 DEF WellFormed, TablesOK
<1>6. DutyType' = DutyType /\ SegmentType' = SegmentType
  BY <1>1, <1>4 DEF DutyType, SegmentType
<1>7. Appended
  <2>1. CloseEvents(d, ext) \in Seq(ScheduleEvent)
    BY <1>2, CloseEventsType
  <2> QED
    BY <1>1, <2>1 DEF Appended
<1> QED
  BY <1>1, <1>4, <1>5, <1>6, <1>7 DEF WellFormed, TablesOK, TripType, RestType

(* A registered rest and its event are well formed. *)
LEMMA RestRowType ==
  ASSUME WellFormed, NEW c \in Crew, NEW in \in RestInputs
  PROVE  /\ RestRow(c, in) \in RestType
         /\ RestCompleted(Len(rests) + 1, RestRow(c, in)) \in ScheduleEvent
<1>1. RestRow(c, in) \in RestType
  <2>1. in.start \in Int /\ in.end \in Int /\ in.type \in RestTypes /\ in.covers \in BOOLEAN
    BY InputsAssumption
  <2>2. Minutes(in.end - in.start) \in Int
    BY <2>1, ConversionTypes
  <2> QED
    BY <2>1, <2>2 DEF RestRow, RestType
<1>2. Len(rests) + 1 \in Nat
  BY DEF WellFormed, TablesOK
<1>3. RestCompleted(Len(rests) + 1, RestRow(c, in)) \in RestCompletedEvent
  BY <1>1, <1>2 DEF RestCompleted, RestCompletedEvent, RestType
<1> QED
  BY <1>1, <1>3 DEF ScheduleEvent

LEMMA CreateRestTypes ==
  ASSUME WellFormed, NEW c \in Crew, NEW in \in RestInputs, CreateRest(c, in)
  PROVE  TablesOK' /\ Appended
<1>1. /\ rests' = Append(rests, RestRow(c, in))
      /\ events' = Append(events, RestCompleted(Len(rests) + 1, RestRow(c, in)))
      /\ UNCHANGED <<trips, segments, duties>>
  BY DEF CreateRest
<1>2. rests' \in Seq(RestType)
  BY <1>1, RestRowType DEF WellFormed, TablesOK
<1>3. Appended
  <2> DEFINE e == RestCompleted(Len(rests) + 1, RestRow(c, in))
  <2>1. <<e>> \in Seq(ScheduleEvent)
    BY RestRowType
  <2>2. events' = Append(events, e)
    BY <1>1
  <2> HIDE DEF e
  <2>3. events' = events \o <<e>>
    BY <2>2 DEF WellFormed
  <2> QED
    BY <2>1, <2>3 DEF Appended
<1> QED
  BY <1>1, <1>2, <1>3 DEF WellFormed, TablesOK, TripType, SegmentType, DutyType

LEMMA StepTypes ==
  ASSUME WellFormed, [Next]_vars
  PROVE  TablesOK' /\ Appended
<1>1. ASSUME NEW c \in Crew, CreateTrip(c) PROVE TablesOK' /\ Appended
  BY <1>1, CreateTripTypes
<1>2. ASSUME NEW t \in DOMAIN trips, NEW in \in SegmentInputs, AddSegment(t, in)
      PROVE  TablesOK' /\ Appended
  BY <1>2, AddSegmentTypes
<1>3. ASSUME NEW t \in DOMAIN trips, CreateDutyForTrip(t) PROVE TablesOK' /\ Appended
  BY <1>3, CreateDutyTypes
<1>4. ASSUME NEW d \in DOMAIN duties, NEW requested \in ExtensionInputs,
             CloseDuty(d, requested)
      PROVE  TablesOK' /\ Appended
  BY <1>4, CloseDutyTypes
<1>5. ASSUME NEW c \in Crew, NEW in \in RestInputs, CreateRest(c, in)
      PROVE  TablesOK' /\ Appended
  BY <1>5, CreateRestTypes
<1>6. CASE UNCHANGED vars
  <2>1. Appended
    BY <1>6, NothingAppended DEF vars
  <2> QED
    BY <1>6, <2>1 DEF vars, WellFormed, TablesOK, TripType, SegmentType, DutyType, RestType
<1> QED
  BY <1>1, <1>2, <1>3, <1>4, <1>5, <1>6 DEF Next

(* A step keeps the types, whether the log is the service's own or shared. *)
LEMMA StepTypeOK == TypeOK /\ [Next]_vars => TypeOK'
<1> SUFFICES ASSUME TypeOK, [Next]_vars PROVE TypeOK'
  OBVIOUS
<1>1. TablesOK' /\ Appended
  BY TypedIsWellFormed, StepTypes
<1>2. PICK new \in Seq(ScheduleEvent) : events' = events \o new
  BY <1>1 DEF Appended
<1>3. events' \in Seq(ScheduleEvent)
  BY <1>2 DEF TypeOK
<1> QED
  BY <1>1, <1>3 DEF TypeOK

LEMMA StepWellFormed == WellFormed /\ [Next]_vars => WellFormed'
<1> SUFFICES ASSUME WellFormed, [Next]_vars PROVE WellFormed'
  OBVIOUS
<1>1. TablesOK' /\ Appended
  BY StepTypes
<1>2. PICK new \in Seq(ScheduleEvent) : events' = events \o new
  BY <1>1 DEF Appended
<1>3. new \in Seq(LogEvent)
  BY <1>2, SeqMonotonic DEF LogEvent
<1>4. events' \in Seq(LogEvent)
  BY <1>2, <1>3 DEF WellFormed
<1>5. LogEvent' = LogEvent
  BY DEF LogEvent, ScheduleEvent, ComplianceEvent, SegmentLandedEvent, DutyClosedEvent,
         UnforeseenEvent, RestCompletedEvent
<1> QED
  BY <1>1, <1>4, <1>5 DEF WellFormed

(* Every reachable state is well typed: rows are well formed and foreign   *)
(* keys (trip of a segment or duty, links of a duty) point at rows.        *)
THEOREM TypeCorrect == Spec => []TypeOK
<1> QED
  BY InitTypeOK, StepTypeOK, PTL DEF Spec

-----------------------------------------------------------------------------
(* What each operation does to the log and to the duties *)

(* Closing duty d leaves the old log in place and adds the landings, the   *)
(* closure at position Len(events) + number of links + 1, and the          *)
(* extension if there is one.                                              *)
LEMMA CloseDutyAppends ==
  ASSUME WellFormed, NEW d \in DOMAIN duties, NEW requested \in ExtensionInputs,
         CloseDuty(d, requested),
         NEW ext, ext = CappedExtension(requested),
         NEW n, n = Len(duties[d].segs)
  PROVE  /\ DOMAIN events \subseteq (DOMAIN events)'
         /\ \A i \in DOMAIN events : events'[i] = events[i]
         /\ Len(events) + n + 1 \in (DOMAIN events)' \ DOMAIN events
         /\ events'[Len(events) + n + 1] = DutyClosed(d, ext)
         /\ ext > 0 => /\ Len(events) + n + 2 \in (DOMAIN events)'
                       /\ events'[Len(events) + n + 2] = UnforeseenExtension(d, ext)
         /\ \A i \in (DOMAIN events)' \ DOMAIN events :
              \/ \E k \in 1..n : events'[i] = SegmentLanded(duties[d], duties[d].segs[k])
              \/ i = Len(events) + n + 1
              \/ ext > 0 /\ i = Len(events) + n + 2
<1> DEFINE new == CloseEvents(d, ext)
<1>1. ext \in Int /\ n \in Nat
  <2>1. duties[d].segs \in Seq(DOMAIN segments)
    BY TableRows DEF DutyType
  <2>2. n \in Nat
    BY <2>1, LenProperties
  <2> QED
    BY <2>2, ConversionTypes
<1>2. /\ new \in Seq(LogEvent)
      /\ Len(new) = n + 1 + (IF ext > 0 THEN 1 ELSE 0)
      /\ \A k \in 1..n : new[k] = SegmentLanded(duties[d], duties[d].segs[k])
      /\ new[n + 1] = DutyClosed(d, ext)
      /\ ext > 0 => new[n + 2] = UnforeseenExtension(d, ext)
  BY <1>1, CloseEventsType, SeqMonotonic DEF LogEvent
<1>3. events' = events \o new
  BY DEF CloseDuty
<1> HIDE DEF new
<1>4. /\ DOMAIN events = 1..Len(events) /\ Len(events) \in Nat
      /\ (DOMAIN events)' = 1..(Len(events) + Len(new))
      /\ \A i \in 1..Len(events) : events'[i] = events[i]
      /\ \A k \in 1..Len(new) : events'[Len(events) + k] = new[k]
  <2>1. events \in Seq(LogEvent) /\ new \in Seq(LogEvent)
    BY <1>2 DEF WellFormed, TablesOK
  <2>2. /\ DOMAIN events = 1..Len(events) /\ Len(events) \in Nat
        /\ DOMAIN (events \o new) = 1..(Len(events) + Len(new))
        /\ \A i \in 1..Len(events) : (events \o new)[i] = events[i]
        /\ \A k \in 1..Len(new) : (events \o new)[Len(events) + k] = new[k]
    BY <2>1, TwoParts
  <2> QED
    BY <1>3, <2>2, Zenon
<1>a. Len(new) \in Nat /\ n + 1 \in 1..Len(new) /\ (ext > 0 => n + 2 \in 1..Len(new))
      /\ \A k \in 1..Len(new) : k \in 1..n \/ k = n + 1 \/ (ext > 0 /\ k = n + 2)
  <2>1. CASE ext > 0
    <3>1. Len(new) = n + 2
      BY <1>1, <1>2, <2>1
    <3> QED
      BY <1>1, <2>1, <3>1
  <2>2. CASE ~(ext > 0)
    <3>1. Len(new) = n + 1
      BY <1>1, <1>2, <2>2
    <3> QED
      BY <1>1, <2>2, <3>1
  <2> QED
    BY <2>1, <2>2
<1>5. events'[Len(events) + n + 1] = DutyClosed(d, ext)
      /\ Len(events) + n + 1 \in (DOMAIN events)' \ DOMAIN events
  <2>1. events'[Len(events) + (n + 1)] = DutyClosed(d, ext)
    BY <1>a, <1>2, <1>4
  <2> QED
    BY <1>1, <1>a, <1>4, <2>1
<1>6. ASSUME ext > 0
      PROVE  /\ Len(events) + n + 2 \in (DOMAIN events)'
             /\ events'[Len(events) + n + 2] = UnforeseenExtension(d, ext)
  BY <1>1, <1>2, <1>4, <1>6
<1>7. ASSUME NEW i \in (DOMAIN events)' \ DOMAIN events
      PROVE  \/ \E k \in 1..n : events'[i] = SegmentLanded(duties[d], duties[d].segs[k])
             \/ i = Len(events) + n + 1
             \/ ext > 0 /\ i = Len(events) + n + 2
  <2> DEFINE k == i - Len(events)
  <2>1. k \in 1..Len(new) /\ events'[i] = new[k]
    BY <1>4
  <2>2. \/ k \in 1..n
        \/ k = n + 1
        \/ ext > 0 /\ k = n + 2
    BY <1>a, <2>1
  <2>3. CASE k \in 1..n
    <3>1. events'[i] = SegmentLanded(duties[d], duties[d].segs[k])
      BY <1>2, <2>1, <2>3
    <3> QED
      BY <2>3, <3>1
  <2>4. i = Len(events) + k
    BY <1>4
  <2> QED
    BY <1>1, <1>4, <2>2, <2>3, <2>4
<1>8. DOMAIN events \subseteq (DOMAIN events)'
  BY <1>a, <1>4
<1>9. \A i \in DOMAIN events : events'[i] = events[i]
  BY <1>4
<1> QED
  BY <1>5, <1>6, <1>7, <1>8, <1>9

(* An operation other than CloseDuty leaves every existing duty alone, and *)
(* appends nothing or one REST_COMPLETED event.                            *)
LEMMA OtherStepsAppend ==
  ASSUME WellFormed, [Next]_vars,
         ~ \E d \in DOMAIN duties, requested \in ExtensionInputs : CloseDuty(d, requested)
  PROVE  /\ DOMAIN events \subseteq (DOMAIN events)'
         /\ DOMAIN duties \subseteq (DOMAIN duties)'
         /\ \A i \in DOMAIN events : events'[i] = events[i]
         /\ \A d \in DOMAIN duties : duties'[d] = duties[d]
         /\ \A d \in (DOMAIN duties)' \ DOMAIN duties : duties'[d].status = "OPEN"
         /\ \A i \in (DOMAIN events)' \ DOMAIN events : events'[i].kind = "REST_COMPLETED"
<1>1. CASE UNCHANGED <<duties, events>>
  BY <1>1
<1>2. ASSUME NEW t \in DOMAIN trips, CreateDutyForTrip(t)
      PROVE  /\ events' = events
             /\ DOMAIN duties \subseteq (DOMAIN duties)'
             /\ \A d \in DOMAIN duties : duties'[d] = duties[d]
             /\ \A d \in (DOMAIN duties)' \ DOMAIN duties : duties'[d].status = "OPEN"
  <2>1. PICK list \in SegmentListings(t) : duties' = Append(duties, NewDuty(t, list))
    BY <1>2 DEF CreateDutyForTrip
  <2>2. NewDuty(t, list).status = "OPEN"
    BY DEF NewDuty
  <2> QED
    BY <1>2, <2>1, <2>2 DEF WellFormed, TablesOK, CreateDutyForTrip
<1>3. ASSUME NEW c \in Crew, NEW in \in RestInputs, CreateRest(c, in)
      PROVE  /\ duties' = duties
             /\ DOMAIN events \subseteq (DOMAIN events)'
             /\ \A i \in DOMAIN events : events'[i] = events[i]
             /\ \A i \in (DOMAIN events)' \ DOMAIN events : events'[i].kind = "REST_COMPLETED"
  <2>1. events' = Append(events, RestCompleted(Len(rests) + 1, RestRow(c, in)))
    BY <1>3 DEF CreateRest
  <2>2. RestCompleted(Len(rests) + 1, RestRow(c, in)).kind = "REST_COMPLETED"
    BY DEF RestCompleted
  <2>3. duties' = duties
    BY <1>3 DEF CreateRest
  <2>4. events \in Seq(LogEvent)
    BY DEF WellFormed, TablesOK
  <2> QED
    BY <2>1, <2>2, <2>3, <2>4
<1>4. ASSUME NEW c \in Crew, CreateTrip(c) PROVE UNCHANGED <<duties, events>>
  BY <1>4 DEF CreateTrip
<1>5. ASSUME NEW t \in DOMAIN trips, NEW in \in SegmentInputs, AddSegment(t, in)
      PROVE  UNCHANGED <<duties, events>>
  BY <1>5 DEF AddSegment
<1> QED
  BY <1>1, <1>2, <1>3, <1>4, <1>5 DEF Next, vars

(* Closing changes one duty row, and of that row only the outcome.         *)
LEMMA CloseDutyRow ==
  ASSUME WellFormed, NEW d \in DOMAIN duties, NEW requested \in ExtensionInputs,
         CloseDuty(d, requested), NEW ext, ext = CappedExtension(requested)
  PROVE  /\ (DOMAIN duties)' = DOMAIN duties
         /\ \A e \in DOMAIN duties \ {d} : duties'[e] = duties[e]
         /\ duties[d].status = "OPEN"
         /\ duties'[d].status = "CLOSED"
         /\ duties'[d].ext = ext
         /\ duties'[d].owe = (ext > 0)
         /\ duties'[d].crew = duties[d].crew /\ duties'[d].trip = duties[d].trip
         /\ duties'[d].segs = duties[d].segs
         /\ duties'[d].report = duties[d].report /\ duties'[d].release = duties[d].release
<1> DEFINE owes == ext > 0
<1>1. duties' = [duties EXCEPT ![d] = [@ EXCEPT !.status = "CLOSED", !.ext = ext, !.owe = owes]]
      /\ duties[d].status = "OPEN"
  BY DEF CloseDuty
<1>2. duties[d] \in DutyType
  BY TableRows
<1> HIDE DEF owes
<1>3. duties'[d] = [duties[d] EXCEPT !.status = "CLOSED", !.ext = ext, !.owe = owes]
  BY <1>1
<1>4. /\ duties'[d].status = "CLOSED" /\ duties'[d].ext = ext /\ duties'[d].owe = owes
      /\ duties'[d].crew = duties[d].crew /\ duties'[d].trip = duties[d].trip
      /\ duties'[d].segs = duties[d].segs
      /\ duties'[d].report = duties[d].report /\ duties'[d].release = duties[d].release
  BY <1>2, <1>3 DEF DutyType
<1>5. (DOMAIN duties)' = DOMAIN duties /\ \A e \in DOMAIN duties \ {d} : duties'[e] = duties[e]
  BY <1>1
<1> QED
  BY <1>1, <1>4, <1>5 DEF owes

-----------------------------------------------------------------------------
(* The past is final *)

LEMMA StepKeepsHistory ==
  ASSUME WellFormed, [Next]_vars
  PROVE  /\ \A i \in DOMAIN events : i \in DOMAIN events' /\ events'[i] = events[i]
         /\ \A d \in DOMAIN duties : Closed(d) => d \in DOMAIN duties' /\ duties'[d] = duties[d]
<1>1. ASSUME NEW d \in DOMAIN duties, NEW requested \in ExtensionInputs,
             CloseDuty(d, requested)
      PROVE  /\ \A i \in DOMAIN events : i \in DOMAIN events' /\ events'[i] = events[i]
             /\ \A e \in DOMAIN duties :
                  Closed(e) => e \in DOMAIN duties' /\ duties'[e] = duties[e]
  <2>1. \A i \in DOMAIN events : i \in DOMAIN events' /\ events'[i] = events[i]
    BY <1>1, CloseDutyAppends
  <2>2. duties[d].status = "OPEN" /\ DOMAIN duties' = DOMAIN duties
        /\ \A e \in DOMAIN duties \ {d} : duties'[e] = duties[e]
    BY <1>1, CloseDutyRow
  <2> QED
    BY <2>1, <2>2 DEF Closed
<1>2. CASE ~ \E d \in DOMAIN duties, requested \in ExtensionInputs : CloseDuty(d, requested)
  BY <1>2, OtherStepsAppend
<1> QED
  BY <1>1, <1>2

LEMMA StepKeepsClosedTrips ==
  ASSUME WellFormed, [Next]_vars, NEW t \in DOMAIN trips, ~trips[t].planned
  PROVE  ~trips'[t].planned /\ SegmentsOf(t)' = SegmentsOf(t)
<1>1. CASE UNCHANGED <<trips, segments>>
  BY <1>1 DEF SegmentsOf
<1>2. ASSUME NEW c \in Crew, CreateTrip(c)
      PROVE  ~trips'[t].planned /\ SegmentsOf(t)' = SegmentsOf(t)
  <2>1. trips'[t] = trips[t] /\ segments' = segments
    BY <1>2 DEF CreateTrip, WellFormed, TablesOK
  <2> QED
    BY <2>1 DEF SegmentsOf
<1>3. ASSUME NEW u \in DOMAIN trips, NEW in \in SegmentInputs, AddSegment(u, in)
      PROVE  ~trips'[t].planned /\ SegmentsOf(t)' = SegmentsOf(t)
  <2> DEFINE row == [trip |-> u, dep |-> in.dep, arr |-> in.arr, block |-> BlockOf(in)]
  <2>1. u # t /\ trips' = trips /\ segments' = Append(segments, row) /\ row.trip = u
    BY <1>3 DEF AddSegment
  <2> HIDE DEF row
  <2>2. /\ DOMAIN segments \subseteq DOMAIN segments'
        /\ \A s \in DOMAIN segments : segments'[s] = segments[s]
        /\ \A s \in DOMAIN segments' \ DOMAIN segments : segments'[s] = row
    BY <2>1 DEF WellFormed, TablesOK
  <2> QED
    BY <2>1, <2>2 DEF SegmentsOf
<1>4. ASSUME NEW d \in DOMAIN duties, NEW requested \in ExtensionInputs,
             CloseDuty(d, requested)
      PROVE  ~trips'[t].planned /\ SegmentsOf(t)' = SegmentsOf(t)
  <2>1. trips' = [trips EXCEPT ![duties[d].trip].planned = FALSE] /\ segments' = segments
    BY <1>4 DEF CloseDuty
  <2>2. trips[t] \in TripType
    BY TableRows
  <2>3. ~trips'[t].planned
    BY <2>1, <2>2 DEF TripType
  <2> QED
    BY <2>1, <2>3 DEF SegmentsOf
<1>5. ASSUME NEW u \in DOMAIN trips, CreateDutyForTrip(u) PROVE UNCHANGED <<trips, segments>>
  BY <1>5 DEF CreateDutyForTrip
<1>6. ASSUME NEW c \in Crew, NEW in \in RestInputs, CreateRest(c, in)
      PROVE  UNCHANGED <<trips, segments>>
  BY <1>6 DEF CreateRest
<1> QED
  BY <1>1, <1>2, <1>3, <1>4, <1>5, <1>6 DEF Next, vars

(* No operation rewrites the log, changes a closed duty, reopens a trip or *)
(* gives an unplanned trip another segment.                                *)
THEOREM HistoryIsFinal == Spec => PastIsFinal
<1>1. WellFormed /\ [Next]_vars => [PastKept]_vars
  BY StepKeepsHistory, StepKeepsClosedTrips DEF PastKept
<1> QED
  BY <1>1, TypeCorrect, TypedIsWellFormed, PTL DEF Spec, PastIsFinal

-----------------------------------------------------------------------------
(* A duty is closed exactly when the log says so, once *)

LEMMA CloseDutyClosureLogged ==
  ASSUME WellFormed, ClosureLoggedOnce,
         NEW d \in DOMAIN duties, NEW requested \in ExtensionInputs, CloseDuty(d, requested)
  PROVE  ClosureLoggedOnce'
<1> DEFINE ext == CappedExtension(requested)
           n == Len(duties[d].segs)
           closing == Len(events) + n + 1
<1> HIDE DEF ext, n
<1>1. /\ DOMAIN events \subseteq DOMAIN events'
      /\ \A i \in DOMAIN events : events'[i] = events[i]
      /\ closing \in DOMAIN events' \ DOMAIN events
      /\ events'[closing] = DutyClosed(d, ext)
      /\ \A i \in DOMAIN events' \ DOMAIN events : i # closing =>
           events'[i].kind # "DUTY_CLOSED"
  <2>1. /\ DOMAIN events \subseteq DOMAIN events'
        /\ \A i \in DOMAIN events : events'[i] = events[i]
        /\ closing \in DOMAIN events' \ DOMAIN events
        /\ events'[closing] = DutyClosed(d, ext)
    BY CloseDutyAppends DEF ext, n
  <2>2. ASSUME NEW i \in DOMAIN events' \ DOMAIN events, i # closing
        PROVE  events'[i].kind # "DUTY_CLOSED"
    <3>1. \/ \E k \in 1..n : events'[i] = SegmentLanded(duties[d], duties[d].segs[k])
          \/ ext > 0 /\ i = Len(events) + n + 2
      BY <2>2, CloseDutyAppends DEF ext, n
    <3>2. ext > 0 => events'[Len(events) + n + 2] = UnforeseenExtension(d, ext)
      BY CloseDutyAppends DEF ext, n
    <3> QED
      BY <3>1, <3>2 DEF SegmentLanded, UnforeseenExtension
  <2> QED
    BY <2>1, <2>2
<1>2. /\ DOMAIN duties' = DOMAIN duties
      /\ \A e \in DOMAIN duties \ {d} : duties'[e] = duties[e]
      /\ ~Closed(d) /\ Closed(d)'
      /\ DutyClosed(d, ext)' = DutyClosed(d, ext)
      /\ duties'[d].ext = ext
  BY CloseDutyRow DEF Closed, DutyClosed, FDPMin, ext
<1>3. \A e \in DOMAIN duties \ {d} :
        /\ Closed(e)' <=> Closed(e)
        /\ DutyClosed(e, duties[e].ext)' = DutyClosed(e, duties[e].ext)
  BY <1>2 DEF Closed, DutyClosed, FDPMin
<1>4. \A i \in DOMAIN events : events[i].kind = "DUTY_CLOSED" => events[i].duty # d
  BY <1>2 DEF ClosureLoggedOnce
<1>5. DutyClosed(d, ext).kind = "DUTY_CLOSED" /\ DutyClosed(d, ext).duty = d
  BY DEF DutyClosed
<1> HIDE DEF closing
<1>6. \A e \in DOMAIN duties' : Closed(e)' =>
        \E i \in DOMAIN events' : events'[i] = DutyClosed(e, duties[e].ext)'
  <2>1. ASSUME NEW e \in DOMAIN duties \ {d}, Closed(e)'
        PROVE  \E i \in DOMAIN events' : events'[i] = DutyClosed(e, duties[e].ext)'
    <3>1. PICK i \in DOMAIN events : events[i] = DutyClosed(e, duties[e].ext)
      BY <1>3, <2>1 DEF ClosureLoggedOnce
    <3> QED
      BY <1>1, <1>3, <3>1
  <2>2. events'[closing] = DutyClosed(d, duties[d].ext)'
    BY <1>1, <1>2 DEF DutyClosed, FDPMin
  <2> QED
    BY <1>1, <1>2, <2>1, <2>2
<1>7. \A i \in DOMAIN events' : events'[i].kind = "DUTY_CLOSED" =>
        /\ events'[i].duty \in DOMAIN duties'
        /\ Closed(events[i].duty)'
        /\ events'[i] = DutyClosed(events[i].duty, duties[events[i].duty].ext)'
  <2>1. ASSUME NEW i \in DOMAIN events, events[i].kind = "DUTY_CLOSED"
        PROVE  /\ events'[i].duty \in DOMAIN duties'
               /\ Closed(events[i].duty)'
               /\ events'[i] = DutyClosed(events[i].duty, duties[events[i].duty].ext)'
    <3>1. /\ events[i].duty \in DOMAIN duties \ {d}
          /\ Closed(events[i].duty)
          /\ events[i] = DutyClosed(events[i].duty, duties[events[i].duty].ext)
      BY <1>4, <2>1 DEF ClosureLoggedOnce
    <3>2. events'[i] = events[i]
      BY <1>1
    <3> QED
      BY <1>2, <1>3, <3>1, <3>2
  <2>2. ASSUME NEW i \in DOMAIN events', i = closing
        PROVE  /\ events'[i].duty = d
               /\ events'[i] = DutyClosed(events[i].duty, duties[events[i].duty].ext)'
    <3>1. events'[i].duty = d
      BY <1>1, <1>5, <2>2
    <3>2. events'[i] = DutyClosed(d, duties[d].ext)'
      BY <1>1, <1>2, <2>2 DEF DutyClosed, FDPMin
    <3> QED
      BY <3>1, <3>2
  <2> QED
    BY <1>1, <1>2, <2>1, <2>2
<1>8. \A i, j \in DOMAIN events' :
        (/\ events'[i].kind = "DUTY_CLOSED"
         /\ events'[j].kind = "DUTY_CLOSED" /\ events'[j].duty = events'[i].duty) => i = j
  <2>1. \A i, j \in DOMAIN events :
          (/\ events[i].kind = "DUTY_CLOSED"
           /\ events[j].kind = "DUTY_CLOSED" /\ events[j].duty = events[i].duty) => i = j
    BY DEF ClosureLoggedOnce, IsClosureOf
  <2> QED
    BY <1>1, <1>4, <1>5, <2>1
<1> QED
  BY <1>6, <1>7, <1>8 DEF ClosureLoggedOnce, IsClosureOf

(* Nothing closes: no duty becomes closed and no closure is appended.      *)
LEMMA ClosuresStay ==
  ASSUME ClosureLoggedOnce,
         \A i \in DOMAIN events : i \in DOMAIN events' /\ events'[i] = events[i],
         \A i \in DOMAIN events' \ DOMAIN events : events'[i].kind # "DUTY_CLOSED",
         \A d \in DOMAIN duties : d \in DOMAIN duties' /\ duties'[d] = duties[d],
         \A d \in DOMAIN duties' \ DOMAIN duties : duties'[d].status = "OPEN"
  PROVE  ClosureLoggedOnce'
<1>1. /\ DOMAIN events \subseteq DOMAIN events'
      /\ DOMAIN duties \subseteq DOMAIN duties'
      /\ \A i \in DOMAIN events : events'[i] = events[i]
      /\ \A d \in DOMAIN duties : duties'[d] = duties[d]
      /\ \A d \in DOMAIN duties' \ DOMAIN duties : duties'[d].status = "OPEN"
      /\ \A i \in DOMAIN events' \ DOMAIN events : events'[i].kind # "DUTY_CLOSED"
  OBVIOUS
<1>2. \A d \in DOMAIN duties :
        /\ Closed(d)' <=> Closed(d)
        /\ DutyClosed(d, duties[d].ext)' = DutyClosed(d, duties[d].ext)
  BY <1>1 DEF Closed, DutyClosed, FDPMin
<1>3. \A d \in DOMAIN duties' : Closed(d)' => d \in DOMAIN duties /\ Closed(d)
  BY <1>1, <1>2 DEF Closed
<1>4. \A i \in DOMAIN events' : events'[i].kind = "DUTY_CLOSED" => i \in DOMAIN events
  BY <1>1
<1>5. \A d \in DOMAIN duties' : Closed(d)' =>
        \E i \in DOMAIN events' : events'[i] = DutyClosed(d, duties[d].ext)'
  <2> SUFFICES ASSUME NEW d \in DOMAIN duties, Closed(d)
               PROVE  \E i \in DOMAIN events' : events'[i] = DutyClosed(d, duties[d].ext)'
    BY <1>3
  <2>1. PICK i \in DOMAIN events : events[i] = DutyClosed(d, duties[d].ext)
    BY DEF ClosureLoggedOnce
  <2> QED
    BY <1>1, <1>2, <2>1
<1>6. ASSUME NEW i \in DOMAIN events', events'[i].kind = "DUTY_CLOSED"
      PROVE  /\ events'[i].duty \in DOMAIN duties'
             /\ Closed(events[i].duty)'
             /\ events'[i] = DutyClosed(events[i].duty, duties[events[i].duty].ext)'
  <2>1. i \in DOMAIN events /\ events'[i] = events[i]
    BY <1>1, <1>4, <1>6
  <2>2. /\ events[i].duty \in DOMAIN duties
        /\ Closed(events[i].duty)
        /\ events[i] = DutyClosed(events[i].duty, duties[events[i].duty].ext)
    BY <1>6, <2>1 DEF ClosureLoggedOnce
  <2> QED
    BY <1>1, <1>2, <2>1, <2>2
<1>7. \A i, j \in DOMAIN events' :
        (events'[i].kind = "DUTY_CLOSED" /\ IsClosureOf(events[j], events[i].duty)') => i = j
  BY <1>1, <1>4 DEF ClosureLoggedOnce, IsClosureOf
<1> QED
  BY <1>5, <1>6, <1>7 DEF ClosureLoggedOnce

LEMMA OtherStepsClosureLogged ==
  ASSUME WellFormed, ClosureLoggedOnce, [Next]_vars,
         ~ \E d \in DOMAIN duties, requested \in ExtensionInputs : CloseDuty(d, requested)
  PROVE  ClosureLoggedOnce'
<1>1. /\ DOMAIN events \subseteq DOMAIN events'
      /\ DOMAIN duties \subseteq DOMAIN duties'
      /\ \A i \in DOMAIN events : events'[i] = events[i]
      /\ \A d \in DOMAIN duties : duties'[d] = duties[d]
      /\ \A d \in DOMAIN duties' \ DOMAIN duties : duties'[d].status = "OPEN"
      /\ \A i \in DOMAIN events' \ DOMAIN events : events'[i].kind = "REST_COMPLETED"
  BY OtherStepsAppend
<1>2. \A i \in DOMAIN events' \ DOMAIN events : events'[i].kind # "DUTY_CLOSED"
  BY <1>1
<1> QED
  BY <1>1, <1>2, ClosuresStay

(* In every reachable state, for every crew, schedule and extension        *)
(* requested: a duty is CLOSED exactly when one DUTY_CLOSED event says so, *)
(* and the event carries the row's release, flight duty period and         *)
(* extension.  ClosureLoggedOnce is inductive relative to TypeOK.          *)
THEOREM EveryClosureLoggedOnce == Spec => []ClosureLoggedOnce
<1>1. Init => ClosureLoggedOnce
  BY DEF Init, ClosureLoggedOnce
<1>2. WellFormed /\ ClosureLoggedOnce /\ [Next]_vars => ClosureLoggedOnce'
  BY CloseDutyClosureLogged, OtherStepsClosureLogged
<1> QED
  BY <1>1, <1>2, TypeCorrect, TypedIsWellFormed, PTL DEF Spec

-----------------------------------------------------------------------------
(* What every operation keeps of the tables *)

(* A row keeps what it was created with; a new segment flies forward and a *)
(* new duty lists the segments its trip then has.                          *)
LEMMA RowsKept ==
  ASSUME WellFormed, [Next]_vars
  PROVE  /\ \A t \in DOMAIN trips : t \in DOMAIN trips' /\ trips'[t].crew = trips[t].crew
         /\ \A s \in DOMAIN segments : s \in DOMAIN segments' /\ segments'[s] = segments[s]
         /\ \A s \in DOMAIN segments' \ DOMAIN segments : segments'[s].dep < segments'[s].arr
         /\ \A d \in DOMAIN duties :
              /\ d \in DOMAIN duties'
              /\ duties'[d].crew = duties[d].crew /\ duties'[d].trip = duties[d].trip
              /\ duties'[d].segs = duties[d].segs
              /\ duties'[d].report = duties[d].report
              /\ duties'[d].release = duties[d].release
         /\ \A d \in DOMAIN duties' \ DOMAIN duties :
              \E t \in DOMAIN trips : \E list \in SegmentListings(t) :
                SegmentsOf(t) # {} /\ duties'[d] = NewDuty(t, list)
<1> DEFINE Goal ==
         /\ \A t \in DOMAIN trips : t \in DOMAIN trips' /\ trips'[t].crew = trips[t].crew
         /\ \A s \in DOMAIN segments : s \in DOMAIN segments' /\ segments'[s] = segments[s]
         /\ \A s \in DOMAIN segments' \ DOMAIN segments : segments'[s].dep < segments'[s].arr
         /\ \A d \in DOMAIN duties :
              /\ d \in DOMAIN duties'
              /\ duties'[d].crew = duties[d].crew /\ duties'[d].trip = duties[d].trip
              /\ duties'[d].segs = duties[d].segs
              /\ duties'[d].report = duties[d].report
              /\ duties'[d].release = duties[d].release
         /\ \A d \in DOMAIN duties' \ DOMAIN duties :
              \E t \in DOMAIN trips : \E list \in SegmentListings(t) :
                SegmentsOf(t) # {} /\ duties'[d] = NewDuty(t, list)
<1>1. CASE UNCHANGED <<trips, segments, duties>>
  BY <1>1
<1>2. ASSUME NEW c \in Crew, CreateTrip(c) PROVE Goal
  <2>1. UNCHANGED <<segments, duties>> /\ trips' = Append(trips, [crew |-> c, planned |-> TRUE])
    BY <1>2 DEF CreateTrip
  <2>2. \A t \in DOMAIN trips : t \in DOMAIN trips' /\ trips'[t] = trips[t]
    BY <2>1 DEF WellFormed, TablesOK
  <2> QED
    BY <2>1, <2>2
<1>3. ASSUME NEW t \in DOMAIN trips, NEW in \in SegmentInputs, AddSegment(t, in) PROVE Goal
  <2> DEFINE row == [trip |-> t, dep |-> in.dep, arr |-> in.arr, block |-> BlockOf(in)]
  <2>1. /\ UNCHANGED <<trips, duties>> /\ segments' = Append(segments, row)
        /\ row.dep < row.arr
    BY <1>3, InputsAssumption DEF AddSegment
  <2> HIDE DEF row
  <2>2. /\ \A s \in DOMAIN segments : s \in DOMAIN segments' /\ segments'[s] = segments[s]
        /\ \A s \in DOMAIN segments' \ DOMAIN segments : segments'[s] = row
    BY <2>1 DEF WellFormed, TablesOK
  <2> QED
    BY <2>1, <2>2
<1>4. ASSUME NEW t \in DOMAIN trips, CreateDutyForTrip(t) PROVE Goal
  <2>1. UNCHANGED <<trips, segments>> /\ SegmentsOf(t) # {}
    BY <1>4 DEF CreateDutyForTrip
  <2>2. PICK list \in SegmentListings(t) : duties' = Append(duties, NewDuty(t, list))
    BY <1>4 DEF CreateDutyForTrip
  <2>3. /\ \A d \in DOMAIN duties : d \in DOMAIN duties' /\ duties'[d] = duties[d]
        /\ \A d \in DOMAIN duties' \ DOMAIN duties : duties'[d] = NewDuty(t, list)
    BY <2>2 DEF WellFormed, TablesOK
  <2> QED
    BY <2>1, <2>3
<1>5. ASSUME NEW d \in DOMAIN duties, NEW requested \in ExtensionInputs,
             CloseDuty(d, requested)
      PROVE  Goal
  <2>1. trips' = [trips EXCEPT ![duties[d].trip].planned = FALSE] /\ segments' = segments
    BY <1>5 DEF CloseDuty
  <2>2. \A t \in DOMAIN trips : t \in DOMAIN trips' /\ trips'[t].crew = trips[t].crew
    <3>1. \A t \in DOMAIN trips : trips[t] \in TripType
      BY TableRows
    <3> QED
      BY <2>1, <3>1 DEF TripType
  <2>3. DOMAIN duties' = DOMAIN duties
    BY <1>5, CloseDutyRow
  <2>4. ASSUME NEW e \in DOMAIN duties
        PROVE  /\ duties'[e].crew = duties[e].crew /\ duties'[e].trip = duties[e].trip
               /\ duties'[e].segs = duties[e].segs
               /\ duties'[e].report = duties[e].report
               /\ duties'[e].release = duties[e].release
    <3>1. CASE e = d
      BY <1>5, <3>1, CloseDutyRow
    <3>2. CASE e # d
      BY <1>5, <3>2, CloseDutyRow
    <3> QED
      BY <3>1, <3>2
  <2> QED
    BY <2>1, <2>2, <2>3, <2>4
<1>6. ASSUME NEW c \in Crew, NEW in \in RestInputs, CreateRest(c, in)
      PROVE  UNCHANGED <<trips, segments, duties>>
  BY <1>6 DEF CreateRest
<1> HIDE DEF Goal
<1>7. Goal
  <2>1. CASE UNCHANGED vars
    BY <1>1, <2>1 DEF vars, Goal
  <2> QED
    BY <1>1, <1>2, <1>3, <1>4, <1>5, <1>6, <2>1 DEF Next, Goal
<1> QED
  BY <1>7 DEF Goal

-----------------------------------------------------------------------------
(* A duty follows its trip *)

(* DutyFollowsTrip is not inductive by itself: that the duty ends after it *)
(* begins rests on its last flight landing after it departs.               *)
FliesForward == \A s \in DOMAIN segments : segments[s].dep < segments[s].arr
Follows(duty, list) ==
  /\ list # <<>>
  /\ duty.report = segments[list[1]].dep - Ticks(ReportLeadMin)
  /\ duty.release = segments[list[Len(list)]].arr + Ticks(ReleaseLagMin)
  /\ duty.crew = trips[duty.trip].crew
  /\ \A i \in DOMAIN list : list[i] \in SegmentsOf(duty.trip)
  /\ \A i, j \in DOMAIN list :
       i < j => list[i] # list[j] /\ segments[list[i]].dep <= segments[list[j]].dep
  /\ \A i \in DOMAIN list : segments[list[i]].dep >= duty.report + Ticks(ReportLeadMin)
  /\ duty.release > duty.report
DutiesAsCreated ==
  FliesForward /\ \A d \in DOMAIN duties : Follows(duties[d], duties[d].segs)

(* A new duty follows the trip it is made for.                             *)
LEMMA NewDutyFollows ==
  ASSUME WellFormed, FliesForward, NEW t \in DOMAIN trips, SegmentsOf(t) # {},
         NEW list \in SegmentListings(t), NEW duty, duty = NewDuty(t, list)
  PROVE  duty.segs = list /\ duty.trip = t /\ Follows(duty, list)
<1>1. /\ list \in Seq(DOMAIN segments) /\ Len(list) = Cardinality(SegmentsOf(t))
      /\ Len(list) \in Nat \ {0} /\ DOMAIN list = 1..Len(list)
      /\ \A i \in DOMAIN list : list[i] \in SegmentsOf(t) /\ list[i] \in DOMAIN segments
  BY ListingType
<1>2. \A i, j \in DOMAIN list :
        i < j => list[i] # list[j] /\ segments[list[i]].dep <= segments[list[j]].dep
  BY <1>1 DEF SegmentListings
<1>3. \A s \in DOMAIN segments :
        segments[s].dep \in Int /\ segments[s].arr \in Int /\ segments[s].dep < segments[s].arr
  BY TableRows DEF SegmentType, FliesForward
<1>4. Ticks(ReportLeadMin) \in Nat /\ Ticks(ReleaseLagMin) \in Nat
  BY ParametersAssumption DEF Ticks
<1>5. /\ duty.crew = trips[t].crew /\ duty.trip = t /\ duty.segs = list
      /\ duty.report = segments[list[1]].dep - Ticks(ReportLeadMin)
      /\ duty.release = segments[list[Len(list)]].arr + Ticks(ReleaseLagMin)
  BY DEF NewDuty
<1> DEFINE first == segments[list[1]].dep
           lead == Ticks(ReportLeadMin)
<1>6. first \in Int /\ 1 \in DOMAIN list /\ Len(list) \in DOMAIN list
  BY <1>1, <1>3
<1>7. \A i \in DOMAIN list : segments[list[i]].dep \in Int /\ first <= segments[list[i]].dep
  <2> SUFFICES ASSUME NEW i \in DOMAIN list
               PROVE  segments[list[i]].dep \in Int /\ first <= segments[list[i]].dep
    OBVIOUS
  <2>1. i = 1 \/ 1 < i
    BY <1>1
  <2> QED
    BY <1>1, <1>2, <1>3, <1>6, <2>1
<1>8. duty.report = first - lead /\ lead \in Nat
  BY <1>4, <1>5
<1> HIDE DEF first, lead
<1>9. \A i \in DOMAIN list : segments[list[i]].dep >= duty.report + lead
  BY <1>6, <1>7, <1>8
<1>10. duty.release > duty.report
  <2>1. first <= segments[list[Len(list)]].dep
        /\ segments[list[Len(list)]].dep < segments[list[Len(list)]].arr
        /\ segments[list[Len(list)]].dep \in Int /\ segments[list[Len(list)]].arr \in Int
    BY <1>1, <1>3, <1>6, <1>7
  <2> QED
    BY <1>4, <1>5, <1>6, <1>8, <2>1
<1>11. list # <<>>
  BY <1>1
<1> QED
  BY <1>1, <1>2, <1>5, <1>9, <1>10, <1>11 DEF lead, Follows

(* It goes on following it while tables grow.                              *)
LEMMA StillFollows ==
  ASSUME WellFormed, [Next]_vars, NEW duty, NEW list \in Seq(DOMAIN segments),
         duty.trip \in DOMAIN trips, Follows(duty, list)
  PROVE  Follows(duty, list)'
<1>1. /\ \A t \in DOMAIN trips : t \in DOMAIN trips' /\ trips'[t].crew = trips[t].crew
      /\ \A s \in DOMAIN segments : s \in DOMAIN segments' /\ segments'[s] = segments[s]
  BY RowsKept
<1>2. SegmentsOf(duty.trip) \subseteq SegmentsOf(duty.trip)'
  BY <1>1 DEF SegmentsOf
<1>3. \A i \in DOMAIN list : list[i] \in DOMAIN segments /\ segments'[list[i]] = segments[list[i]]
  BY <1>1
<1>4. 1 \in DOMAIN list /\ Len(list) \in DOMAIN list
  BY DEF Follows
<1> QED
  BY <1>1, <1>2, <1>3, <1>4 DEF Follows

LEMMA StepDutiesAsCreated ==
  ASSUME WellFormed, DutiesAsCreated, [Next]_vars
  PROVE  DutiesAsCreated'
<1>1. FliesForward'
  BY RowsKept DEF DutiesAsCreated, FliesForward
<1>2. ASSUME NEW d \in DOMAIN duties PROVE Follows(duties[d], duties[d].segs)'
  <2>1. /\ duties'[d].crew = duties[d].crew /\ duties'[d].trip = duties[d].trip
        /\ duties'[d].segs = duties[d].segs
        /\ duties'[d].report = duties[d].report /\ duties'[d].release = duties[d].release
    BY RowsKept
  <2>2. duties[d].trip \in DOMAIN trips /\ duties[d].segs \in Seq(DOMAIN segments)
    BY TableRows DEF DutyType
  <2>3. Follows(duties[d], duties[d].segs)
    BY DEF DutiesAsCreated
  <2>4. PICK duty, list : duty = duties'[d] /\ list = duties[d].segs
    OBVIOUS
  <2>5. Follows(duty, list)
    BY <2>1, <2>3, <2>4 DEF Follows
  <2>6. list \in Seq(DOMAIN segments) /\ duty.trip \in DOMAIN trips
    BY <2>1, <2>2, <2>4
  <2>7. Follows(duty, list)'
    BY <2>5, <2>6, StillFollows
  <2> QED
    BY <2>1, <2>4, <2>7
<1>3. ASSUME NEW d \in DOMAIN duties' \ DOMAIN duties
      PROVE  Follows(duties[d], duties[d].segs)'
  <2>1. PICK t \in DOMAIN trips : \E list \in SegmentListings(t) :
          SegmentsOf(t) # {} /\ duties'[d] = NewDuty(t, list)
    BY RowsKept
  <2>2. PICK list \in SegmentListings(t) : SegmentsOf(t) # {} /\ duties'[d] = NewDuty(t, list)
    BY <2>1
  <2>3. PICK duty : duty = duties'[d]
    OBVIOUS
  <2>4. duty.segs = list /\ duty.trip = t /\ Follows(duty, list)
    BY <2>2, <2>3, NewDutyFollows DEF DutiesAsCreated
  <2>5. list \in Seq(DOMAIN segments)
    BY <2>2, ListingType
  <2>6. Follows(duty, list)'
    BY <2>4, <2>5, StillFollows
  <2> QED
    BY <2>3, <2>4, <2>6
<1> QED
  BY <1>1, <1>2, <1>3 DEF DutiesAsCreated

(* Segments arrive after they depart, and a duty links segments of its     *)
(* trip in their order, reports the lead before the first and is released  *)
(* the lag after the last, as CreateDutyForTrip made it, whatever is added *)
(* to the trip or closed later.                                            *)
THEOREM DutiesStayAsCreated == Spec => []DutiesAsCreated
<1>1. Init => DutiesAsCreated
  BY DEF Init, DutiesAsCreated, FliesForward
<1> QED
  BY <1>1, StepDutiesAsCreated, TypeCorrect, TypedIsWellFormed, PTL DEF Spec

(* Whatever is added to a trip after its duty was made (CreateDutyForTrip  *)
(* copies the links), the duty stays true to it.                           *)
THEOREM EveryDutyFollowsTrip == Spec => []DutyFollowsTrip
<1>1. DutiesAsCreated => DutyFollowsTrip
  BY DEF DutiesAsCreated, Follows, DutyFollowsTrip, LinkedTo
<1> QED
  BY <1>1, DutiesStayAsCreated, PTL

-----------------------------------------------------------------------------
(* Rests and their events *)

(* Registering a rest appends its row and its event.                       *)
LEMMA CreateRestAppends ==
  ASSUME WellFormed, NEW c \in Crew, NEW in \in RestInputs, CreateRest(c, in)
  PROVE  /\ Len(rests) + 1 \notin DOMAIN rests /\ Len(events) + 1 \notin DOMAIN events
         /\ DOMAIN rests' = DOMAIN rests \cup {Len(rests) + 1}
         /\ DOMAIN events' = DOMAIN events \cup {Len(events) + 1}
         /\ \A r \in DOMAIN rests : rests'[r] = rests[r]
         /\ \A i \in DOMAIN events : events'[i] = events[i]
         /\ events'[Len(events) + 1] = RestCompleted(Len(rests) + 1, rests'[Len(rests) + 1])
         /\ rests'[Len(rests) + 1].minutes >= 0
<1> DEFINE row == RestRow(c, in)
           new == RestCompleted(Len(rests) + 1, row)
<1>1. rests' = Append(rests, row) /\ events' = Append(events, new)
  BY DEF CreateRest
<1>2. rests \in Seq(RestType) /\ events \in Seq(LogEvent)
  BY DEF WellFormed, TablesOK
<1>3. row.minutes >= 0
  <2>1. in.end - in.start \in Nat
    BY InputsAssumption DEF CreateRest
  <2> QED
    BY <2>1, ParametersAssumption DEF RestRow, Minutes
<1> HIDE DEF row, new
<1>4. /\ Len(rests) + 1 \notin DOMAIN rests
      /\ DOMAIN rests' = DOMAIN rests \cup {Len(rests) + 1}
      /\ \A r \in DOMAIN rests : rests'[r] = rests[r]
      /\ rests'[Len(rests) + 1] = row
  BY <1>1, <1>2
<1>5. /\ Len(events) + 1 \notin DOMAIN events
      /\ DOMAIN events' = DOMAIN events \cup {Len(events) + 1}
      /\ \A i \in DOMAIN events : events'[i] = events[i]
      /\ events'[Len(events) + 1] = new
  BY <1>1, <1>2
<1> QED
  BY <1>3, <1>4, <1>5 DEF new

LEMMA CreateRestLogged ==
  ASSUME WellFormed, RestsLogged, NEW c \in Crew, NEW in \in RestInputs, CreateRest(c, in)
  PROVE  RestsLogged'
<1> DEFINE new == Len(rests) + 1
           last == Len(events) + 1
<1>1. /\ new \notin DOMAIN rests /\ last \notin DOMAIN events
      /\ DOMAIN rests' = DOMAIN rests \cup {new}
      /\ DOMAIN events' = DOMAIN events \cup {last}
      /\ \A r \in DOMAIN rests : rests'[r] = rests[r]
      /\ \A i \in DOMAIN events : events'[i] = events[i]
      /\ events'[last] = RestCompleted(new, rests'[new])
  BY CreateRestAppends
<1> HIDE DEF new, last
<1>2. /\ events'[last].kind = "REST_COMPLETED" /\ events'[last].rest = new
  BY <1>1 DEF RestCompleted
<1>3. \A r \in DOMAIN rests' :
        \E i \in DOMAIN events' : events'[i] = RestCompleted(r, rests'[r])
  <2>1. ASSUME NEW r \in DOMAIN rests
        PROVE  \E i \in DOMAIN events' : events'[i] = RestCompleted(r, rests'[r])
    <3>1. PICK i \in DOMAIN events : events[i] = RestCompleted(r, rests[r])
      BY DEF RestsLogged
    <3> QED
      BY <1>1, <3>1
  <2> QED
    BY <1>1, <2>1
<1>4. \A i \in DOMAIN events' : events'[i].kind = "REST_COMPLETED" =>
        /\ events'[i].rest \in DOMAIN rests'
        /\ events'[i] = RestCompleted(events'[i].rest, rests'[events'[i].rest])
  BY <1>1, <1>2 DEF RestsLogged
<1>5. \A i, j \in DOMAIN events' :
        (events'[i].kind = "REST_COMPLETED" /\ events'[j].kind = "REST_COMPLETED"
           /\ events'[i].rest = events'[j].rest) => i = j
  BY <1>1, <1>2 DEF RestsLogged
<1> QED
  BY <1>3, <1>4, <1>5 DEF RestsLogged, RestCompleted

(* A step that registers no rest logs none.                                *)
LEMMA NoRestLogged ==
  ASSUME WellFormed, [Next]_vars, ~ \E c \in Crew, in \in RestInputs : CreateRest(c, in)
  PROVE  /\ rests' = rests
         /\ DOMAIN events \subseteq DOMAIN events'
         /\ \A i \in DOMAIN events : events'[i] = events[i]
         /\ \A i \in DOMAIN events' \ DOMAIN events : events'[i].kind # "REST_COMPLETED"
<1>1. CASE UNCHANGED <<rests, events>>
  BY <1>1
<1>2. ASSUME NEW d \in DOMAIN duties, NEW requested \in ExtensionInputs,
             CloseDuty(d, requested)
      PROVE  /\ rests' = rests
             /\ DOMAIN events \subseteq DOMAIN events'
             /\ \A i \in DOMAIN events : events'[i] = events[i]
             /\ \A i \in DOMAIN events' \ DOMAIN events : events'[i].kind # "REST_COMPLETED"
  <2>1. PICK ext, n : ext = CappedExtension(requested) /\ n = Len(duties[d].segs)
    OBVIOUS
  <2>2. /\ events'[Len(events) + n + 1] = DutyClosed(d, ext)
        /\ ext > 0 => events'[Len(events) + n + 2] = UnforeseenExtension(d, ext)
        /\ \A i \in DOMAIN events' \ DOMAIN events :
             \/ \E k \in 1..n : events'[i] = SegmentLanded(duties[d], duties[d].segs[k])
             \/ i = Len(events) + n + 1
             \/ ext > 0 /\ i = Len(events) + n + 2
    BY <1>2, <2>1, CloseDutyAppends
  <2>3. \A i \in DOMAIN events' \ DOMAIN events : events'[i].kind # "REST_COMPLETED"
    BY <2>2 DEF DutyClosed, UnforeseenExtension, SegmentLanded
  <2>4. DOMAIN events \subseteq DOMAIN events' /\ \A i \in DOMAIN events : events'[i] = events[i]
    BY <1>2, StepKeepsHistory
  <2> QED
    BY <1>2, <2>3, <2>4 DEF CloseDuty
<1>3. ASSUME NEW c \in Crew, CreateTrip(c) PROVE UNCHANGED <<rests, events>>
  BY <1>3 DEF CreateTrip
<1>4. ASSUME NEW t \in DOMAIN trips, NEW in \in SegmentInputs, AddSegment(t, in)
      PROVE  UNCHANGED <<rests, events>>
  BY <1>4 DEF AddSegment
<1>5. ASSUME NEW t \in DOMAIN trips, CreateDutyForTrip(t) PROVE UNCHANGED <<rests, events>>
  BY <1>5 DEF CreateDutyForTrip
<1>6. CASE UNCHANGED vars
  BY <1>1, <1>6 DEF vars
<1> QED
  BY <1>1, <1>2, <1>3, <1>4, <1>5, <1>6 DEF Next

(* Rests and their events correspond one to one, for every sequence of     *)
(* operations: RestsLogged is inductive relative to TypeOK.                *)
THEOREM EveryRestLogged == Spec => []RestsLogged
<1>1. Init => RestsLogged
  BY DEF Init, RestsLogged
<1>2. WellFormed /\ RestsLogged /\ [Next]_vars => RestsLogged'
  <2>1. CASE \E c \in Crew, in \in RestInputs : CreateRest(c, in)
    BY <2>1, CreateRestLogged
  <2>2. CASE ~ \E c \in Crew, in \in RestInputs : CreateRest(c, in)
    BY <2>2, NoRestLogged DEF RestsLogged, RestCompleted
  <2> QED
    BY <2>1, <2>2
<1> QED
  BY <1>1, <1>2, TypeCorrect, TypedIsWellFormed, PTL DEF Spec

-----------------------------------------------------------------------------
(* Extensions *)

(* What an event of the log is about.                                      *)
LEMMA EventFields ==
  /\ \A duty, s : /\ SegmentLanded(duty, s).kind = "SEGMENT_LANDED"
                  /\ SegmentLanded(duty, s).segment = s
  /\ \A d, ext : /\ DutyClosed(d, ext).kind = "DUTY_CLOSED"
                 /\ DutyClosed(d, ext).duty = d
  /\ \A d, ext : /\ UnforeseenExtension(d, ext).kind = "UNFORESEEN_EXTENSION"
                 /\ UnforeseenExtension(d, ext).duty = d
                 /\ UnforeseenExtension(d, ext).added = ext
BY DEF SegmentLanded, DutyClosed, UnforeseenExtension

(* The log after closing duty d, of n flights, extended by ext, position by *)
(* position: m is the length of the log before.                            *)
Positions(d, ext, n, m) ==
  /\ n \in Nat \ {0} /\ m \in Nat /\ ext \in Int
  /\ DOMAIN events = 1..m
  /\ ext > 0 => DOMAIN events' = 1..(m + n + 2)
  /\ ~(ext > 0) => DOMAIN events' = 1..(m + n + 1)
  /\ \A i \in 1..m : events'[i] = events[i]
  /\ \A k \in 1..n : events'[m + k] = SegmentLanded(duties[d], duties[d].segs[k])
  /\ events'[m + n + 1] = DutyClosed(d, ext)
  /\ ext > 0 => events'[m + n + 2] = UnforeseenExtension(d, ext)

LEMMA CloseDutyPositioned ==
  ASSUME WellFormed, NEW d \in DOMAIN duties, NEW requested \in ExtensionInputs,
         CloseDuty(d, requested),
         NEW ext, ext = CappedExtension(requested),
         NEW n, n = Len(duties[d].segs), NEW m, m = Len(events)
  PROVE  Positions(d, ext, n, m)
<1>1. ext \in Int
  BY ConversionTypes
<1>2. n \in Nat \ {0}
  <2>1. duties[d].segs \in Seq(DOMAIN segments) /\ duties[d].segs # <<>>
    BY TableRows DEF DutyType, CloseDuty
  <2> QED
    BY <2>1, EmptySeq, LenProperties
<1>3. PICK new : new = CloseEvents(d, ext)
  OBVIOUS
<1>4. /\ new \in Seq(LogEvent)
      /\ Len(new) = n + 1 + (IF ext > 0 THEN 1 ELSE 0)
      /\ \A k \in 1..n : new[k] = SegmentLanded(duties[d], duties[d].segs[k])
      /\ new[n + 1] = DutyClosed(d, ext)
      /\ ext > 0 => new[n + 2] = UnforeseenExtension(d, ext)
  BY <1>1, <1>3, CloseEventsType, SeqMonotonic DEF LogEvent
<1>5. events' = events \o new /\ events \in Seq(LogEvent)
  BY <1>3 DEF CloseDuty, WellFormed, TablesOK
<1>6. /\ DOMAIN events = 1..m /\ m \in Nat
      /\ DOMAIN (events \o new) = 1..(m + Len(new))
      /\ \A i \in 1..m : (events \o new)[i] = events[i]
      /\ \A k \in 1..Len(new) : (events \o new)[m + k] = new[k]
  <2>1. /\ DOMAIN events = 1..Len(events) /\ Len(events) \in Nat
        /\ DOMAIN (events \o new) = 1..(Len(events) + Len(new))
        /\ \A i \in 1..Len(events) : (events \o new)[i] = events[i]
        /\ \A k \in 1..Len(new) : (events \o new)[Len(events) + k] = new[k]
    <3>1. events \in Seq(LogEvent) /\ new \in Seq(LogEvent)
      BY <1>4, <1>5
    <3> QED
      BY <3>1, TwoParts
  <2> QED
    BY <2>1, Zenon
<1>7. /\ DOMAIN events' = 1..(m + Len(new))
      /\ \A i \in 1..m : events'[i] = events[i]
      /\ \A k \in 1..Len(new) : events'[m + k] = new[k]
  BY <1>5, <1>6, Zenon
<1>8. PICK l : l = Len(new)
  OBVIOUS
<1>9. (ext > 0 => l = n + 2) /\ (~(ext > 0) => l = n + 1)
  <2>1. CASE ext > 0
    BY <1>2, <1>4, <1>8, <2>1
  <2>2. CASE ~(ext > 0)
    BY <1>2, <1>4, <1>8, <2>2
  <2> QED
    BY <2>1, <2>2
<1>10. /\ \A k \in 1..n : k \in 1..l
       /\ n + 1 \in 1..l /\ m + (n + 1) = m + n + 1
       /\ ext > 0 => n + 2 \in 1..l /\ m + (n + 2) = m + n + 2
       /\ ext > 0 => 1..(m + l) = 1..(m + n + 2)
       /\ ~(ext > 0) => 1..(m + l) = 1..(m + n + 1)
  BY <1>2, <1>6, <1>9
<1>11. \A k \in 1..n : events'[m + k] = SegmentLanded(duties[d], duties[d].segs[k])
  BY <1>4, <1>7, <1>8, <1>10
<1>12. events'[m + n + 1] = DutyClosed(d, ext)
  <2>1. events'[m + (n + 1)] = new[n + 1]
    BY <1>7, <1>8, <1>10, Zenon
  <2> QED
    BY <1>4, <1>10, <2>1
<1>13. ASSUME ext > 0 PROVE events'[m + n + 2] = UnforeseenExtension(d, ext)
  <2>1. events'[m + (n + 2)] = new[n + 2]
    BY <1>7, <1>8, <1>10, <1>13, Zenon
  <2> QED
    BY <1>4, <1>10, <1>13, <2>1
<1> QED
  BY <1>1, <1>2, <1>6, <1>7, <1>8, <1>10, <1>11, <1>12, <1>13 DEF Positions

(* and no other position is new.                                           *)
LEMMA NewPositions ==
  ASSUME NEW d, NEW ext, NEW n, NEW m, Positions(d, ext, n, m)
  PROVE  \A i \in DOMAIN events' \ DOMAIN events :
           \/ i - m \in 1..n /\ i = m + (i - m)
           \/ i = m + n + 1
           \/ ext > 0 /\ i = m + n + 2
<1> SUFFICES ASSUME NEW i \in DOMAIN events' \ DOMAIN events
             PROVE  \/ i - m \in 1..n /\ i = m + (i - m)
                    \/ i = m + n + 1
                    \/ ext > 0 /\ i = m + n + 2
  OBVIOUS
<1>1. n \in Nat \ {0} /\ m \in Nat /\ DOMAIN events = 1..m
  BY DEF Positions
<1>2. /\ ext > 0 => DOMAIN events' = 1..(m + n + 2)
      /\ ~(ext > 0) => DOMAIN events' = 1..(m + n + 1)
  BY DEF Positions
<1>3. CASE ext > 0
  <2>1. i \in Int /\ m < i /\ i <= m + n + 2
    BY <1>1, <1>2, <1>3
  <2>2. i - m \in 1..n \/ i = m + n + 1 \/ i = m + n + 2
    BY <1>1, <2>1
  <2> QED
    BY <1>1, <1>3, <2>1, <2>2
<1>4. CASE ~(ext > 0)
  <2>1. i \in Int /\ m < i /\ i <= m + n + 1
    BY <1>1, <1>2, <1>4
  <2>2. i - m \in 1..n \/ i = m + n + 1
    BY <1>1, <2>1
  <2> QED
    BY <1>1, <2>1, <2>2
<1> QED
  BY <1>3, <1>4

(* The same for use from other modules: closing duty d, of n flights, after *)
(* m events.                                                               *)
Appends(d, ext, n, m) ==
  /\ DOMAIN events = 1..m
  /\ 1..(m + n + 1) \subseteq DOMAIN events'
  /\ \A i \in 1..m : events'[i] = events[i]
  /\ \A k \in 1..n : events'[m + k] = SegmentLanded(duties[d], duties[d].segs[k])
  /\ events'[m + n + 1] = DutyClosed(d, ext)
  /\ ext > 0 => events'[m + n + 2] = UnforeseenExtension(d, ext)
  /\ \A i \in DOMAIN events' \ DOMAIN events :
       \/ i - m \in 1..n /\ i = m + (i - m)
       \/ i = m + n + 1
       \/ ext > 0 /\ i = m + n + 2

LEMMA CloseDutyLog ==
  ASSUME WellFormed, NEW d \in DOMAIN duties, NEW requested \in ExtensionInputs,
         CloseDuty(d, requested)
  PROVE  \E ext \in Int, n \in Nat, m \in Nat :
           /\ ext = CappedExtension(requested) /\ n = Len(duties[d].segs) /\ m = Len(events)
           /\ Appends(d, ext, n, m)
<1>1. PICK ext, n, m :
        ext = CappedExtension(requested) /\ n = Len(duties[d].segs) /\ m = Len(events)
  OBVIOUS
<1>2. Positions(d, ext, n, m)
  BY <1>1, CloseDutyPositioned
<1>3. ext \in Int /\ n \in Nat \ {0} /\ m \in Nat
  BY <1>2 DEF Positions
<1>4. 1..(m + n + 1) \subseteq DOMAIN events'
  BY <1>2, <1>3 DEF Positions
<1>5. \A i \in DOMAIN events' \ DOMAIN events :
        \/ i - m \in 1..n /\ i = m + (i - m)
        \/ i = m + n + 1
        \/ ext > 0 /\ i = m + n + 2
  BY <1>2, NewPositions
<1>6. Appends(d, ext, n, m)
  BY <1>2, <1>4, <1>5, Zenon DEF Positions, Appends
<1> QED
  BY <1>1, <1>3, <1>6

(* Every logged extension is of a duty that exists.                        *)
LEMMA ExtensionsOfDuties ==
  ASSUME WellFormed, ClosureLoggedOnce, ExtensionLogged
  PROVE  \A i \in DOMAIN events : events[i].kind = "UNFORESEEN_EXTENSION" =>
           /\ i - 1 \in DOMAIN events
           /\ events[i].duty \in DOMAIN duties
<1> SUFFICES ASSUME NEW i \in DOMAIN events, events[i].kind = "UNFORESEEN_EXTENSION"
             PROVE  i - 1 \in DOMAIN events /\ events[i].duty \in DOMAIN duties
  OBVIOUS
<1>1. i > 1 /\ events[i - 1] = DutyClosed(events[i].duty, events[i].added)
  BY DEF ExtensionLogged
<1>2. i - 1 \in DOMAIN events
  <2>1. DOMAIN events = 1..Len(events) /\ Len(events) \in Nat
    BY DEF WellFormed, TablesOK
  <2> QED
    BY <1>1, <2>1
<1>3. events[i - 1].kind = "DUTY_CLOSED" /\ events[i - 1].duty = events[i].duty
  BY <1>1 DEF DutyClosed
<1> QED
  BY <1>2, <1>3 DEF ClosureLoggedOnce

(* The closure an extension follows stays where it is.                     *)
LEMMA ExtensionsKept ==
  ASSUME WellFormed, ClosureLoggedOnce, ExtensionLogged, [Next]_vars,
         NEW i \in DOMAIN events, events[i].kind = "UNFORESEEN_EXTENSION"
  PROVE  /\ i \in DOMAIN events' /\ events'[i] = events[i] /\ i > 1
         /\ events'[i - 1] = DutyClosed(events[i].duty, events[i].added)'
<1>1. i - 1 \in DOMAIN events /\ events[i].duty \in DOMAIN duties
  BY ExtensionsOfDuties
<1>2. i > 1 /\ events[i - 1] = DutyClosed(events[i].duty, events[i].added)
  BY DEF ExtensionLogged
<1>3. i \in DOMAIN events' /\ events'[i] = events[i] /\ events'[i - 1] = events[i - 1]
  BY <1>1, StepKeepsHistory
<1>4. \A d \in DOMAIN duties :
        /\ duties'[d].crew = duties[d].crew
        /\ duties'[d].report = duties[d].report /\ duties'[d].release = duties[d].release
  BY RowsKept
<1>5. \A d \in DOMAIN duties : \A ext : DutyClosed(d, ext)' = DutyClosed(d, ext)
  BY <1>4 DEF DutyClosed, FDPMin
<1> QED
  BY <1>1, <1>2, <1>3, <1>5

LEMMA CloseDutyExtensionLogged ==
  ASSUME WellFormed, ClosureLoggedOnce, ExtensionLogged, [Next]_vars,
         NEW d \in DOMAIN duties, NEW requested \in ExtensionInputs, CloseDuty(d, requested)
  PROVE  ExtensionLogged'
<1>1. PICK ext, n, m :
        ext = CappedExtension(requested) /\ n = Len(duties[d].segs) /\ m = Len(events)
  OBVIOUS
<1>p. Positions(d, ext, n, m)
  BY <1>1, CloseDutyPositioned
<1>2. /\ n \in Nat \ {0} /\ m \in Nat /\ ext \in Int
      /\ DOMAIN events = 1..m
      /\ ext > 0 => DOMAIN events' = 1..(m + n + 2)
      /\ ~(ext > 0) => DOMAIN events' = 1..(m + n + 1)
      /\ \A i \in 1..m : events'[i] = events[i]
      /\ \A k \in 1..n : events'[m + k] = SegmentLanded(duties[d], duties[d].segs[k])
      /\ events'[m + n + 1] = DutyClosed(d, ext)
      /\ ext > 0 => events'[m + n + 2] = UnforeseenExtension(d, ext)
  <2>1. Positions(d, ext, n, m)
    BY <1>1, CloseDutyPositioned
  <2> QED
    BY <2>1, Zenon DEF Positions
<1>3. /\ DOMAIN duties' = DOMAIN duties
      /\ \A e \in DOMAIN duties \ {d} : duties'[e] = duties[e]
      /\ ~Closed(d) /\ Closed(d)'
      /\ duties'[d].owe = (ext > 0) /\ duties'[d].ext = ext
  BY <1>1, CloseDutyRow DEF Closed
<1>a. \A i \in DOMAIN events' \ DOMAIN events :
        \/ i - m \in 1..n /\ i = m + (i - m)
        \/ i = m + n + 1
        \/ ext > 0 /\ i = m + n + 2
  <2>1. n \in Nat /\ m \in Nat /\ ext \in Int
    BY <1>2
  <2> QED
    BY <1>p, NewPositions
(* The extension, if there is one, is the last event of the log.           *)
<1>4. \A i \in DOMAIN events' :
        \/ i \in DOMAIN events /\ events'[i] = events[i]
        \/ i \notin DOMAIN events /\ events'[i].kind # "UNFORESEEN_EXTENSION"
        \/ i \notin DOMAIN events /\ ext > 0 /\ i = m + n + 2
  <2> SUFFICES ASSUME NEW i \in DOMAIN events', i \notin DOMAIN events
               PROVE  \/ events'[i].kind # "UNFORESEEN_EXTENSION"
                      \/ ext > 0 /\ i = m + n + 2
    BY <1>2
  <2>1. \/ i - m \in 1..n /\ i = m + (i - m)
        \/ i = m + n + 1
        \/ ext > 0 /\ i = m + n + 2
    BY <1>a
  <2>2. \A k \in 1..n : events'[m + k].kind = "SEGMENT_LANDED"
    BY <1>2, EventFields
  <2>3. events'[m + n + 1].kind = "DUTY_CLOSED"
    BY <1>2, EventFields
  <2> QED
    BY <2>1, <2>2, <2>3
<1>5. ASSUME ext > 0, NEW i, i = m + n + 2
      PROVE  /\ i \in DOMAIN events' \ DOMAIN events /\ i > 1
             /\ events'[i].kind = "UNFORESEEN_EXTENSION"
             /\ events'[i].duty = d /\ events'[i].added = ext
             /\ events'[i - 1] = DutyClosed(d, ext)
  <2>1. i - 1 = m + n + 1 /\ i > 1 /\ i \in DOMAIN events' \ DOMAIN events
    BY <1>2, <1>5
  <2>2. events'[i] = UnforeseenExtension(d, ext) /\ events'[i - 1] = DutyClosed(d, ext)
    BY <1>2, <1>5, <2>1
  <2> QED
    BY <2>1, <2>2, EventFields
<1>6. DutyClosed(d, ext)' = DutyClosed(d, ext)
  BY <1>1, CloseDutyRow DEF DutyClosed, FDPMin
<1>7. \A i \in DOMAIN events : events[i].kind = "UNFORESEEN_EXTENSION" => events[i].duty # d
  BY <1>3 DEF ExtensionLogged, IsExtensionOf
<1>8. ASSUME NEW e \in DOMAIN duties'
      PROVE  /\ duties'[e].owe <=> duties'[e].ext > 0
             /\ duties'[e].owe => Closed(e)'
             /\ duties'[e].owe <=> \E i \in DOMAIN events' : IsExtensionOf(events'[i], e)
  <2>1. CASE e = d
    <3>1. CASE ext > 0
      BY <1>3, <1>5, <2>1, <3>1 DEF IsExtensionOf
    <3>2. CASE ~(ext > 0)
      BY <1>3, <1>4, <1>7, <2>1, <3>2 DEF IsExtensionOf
    <3> QED
      BY <3>1, <3>2
  <2>2. CASE e # d
    <3>1. /\ duties[e].owe <=> duties[e].ext > 0
          /\ duties[e].owe => Closed(e)
          /\ duties[e].owe <=> \E i \in DOMAIN events : IsExtensionOf(events[i], e)
          /\ duties'[e] = duties[e]
      BY <1>3, <2>2 DEF ExtensionLogged
    <3>2. (\E i \in DOMAIN events' : IsExtensionOf(events'[i], e))
            <=> \E i \in DOMAIN events : IsExtensionOf(events[i], e)
      BY <1>2, <1>4, <1>5, <2>2, StepKeepsHistory DEF IsExtensionOf
    <3> QED
      BY <3>1, <3>2 DEF Closed
  <2> QED
    BY <2>1, <2>2
<1>9. ASSUME NEW i \in DOMAIN events', events'[i].kind = "UNFORESEEN_EXTENSION"
      PROVE  /\ i > 1
             /\ events'[i - 1] = DutyClosed(events[i].duty, events[i].added)'
  <2>1. CASE i \in DOMAIN events /\ events'[i] = events[i]
    BY <1>9, <2>1, ExtensionsKept
  <2>2. CASE ext > 0 /\ i = m + n + 2
    <3>1. /\ i > 1 /\ events'[i].duty = d /\ events'[i].added = ext
          /\ events'[i - 1] = DutyClosed(d, ext)
      BY <1>5, <2>2
    <3>2. DutyClosed(events[i].duty, events[i].added)' = DutyClosed(d, ext)'
      BY <3>1 DEF DutyClosed, FDPMin
    <3> QED
      BY <1>6, <3>1, <3>2
  <2> QED
    BY <1>4, <1>9, <2>1, <2>2
<1> QED
  BY <1>8, <1>9 DEF ExtensionLogged, IsExtensionOf

LEMMA OtherStepsExtensionLogged ==
  ASSUME WellFormed, ClosureLoggedOnce, ExtensionLogged, [Next]_vars,
         ~ \E d \in DOMAIN duties, requested \in ExtensionInputs : CloseDuty(d, requested)
  PROVE  ExtensionLogged'
<1>1. /\ DOMAIN events \subseteq DOMAIN events'
      /\ DOMAIN duties \subseteq DOMAIN duties'
      /\ \A i \in DOMAIN events : events'[i] = events[i]
      /\ \A d \in DOMAIN duties : duties'[d] = duties[d]
      /\ \A i \in DOMAIN events' \ DOMAIN events : events'[i].kind = "REST_COMPLETED"
  BY OtherStepsAppend
<1>2. \A d \in DOMAIN duties' \ DOMAIN duties : ~duties'[d].owe /\ duties'[d].ext = 0
  BY RowsKept DEF NewDuty
<1>3. \A i \in DOMAIN events' : events'[i].kind = "UNFORESEEN_EXTENSION" => i \in DOMAIN events
  BY <1>1
<1>4. ASSUME NEW d \in DOMAIN duties'
      PROVE  /\ duties'[d].owe <=> duties'[d].ext > 0
             /\ duties'[d].owe => Closed(d)'
             /\ duties'[d].owe <=> \E i \in DOMAIN events' : IsExtensionOf(events'[i], d)
  <2>1. (\E i \in DOMAIN events' : IsExtensionOf(events'[i], d))
          <=> \E i \in DOMAIN events : IsExtensionOf(events[i], d)
    BY <1>1, <1>3 DEF IsExtensionOf
  <2>2. CASE d \in DOMAIN duties
    BY <1>1, <2>1, <2>2 DEF ExtensionLogged, Closed
  <2>3. CASE d \notin DOMAIN duties
    <3>1. ~ \E i \in DOMAIN events : IsExtensionOf(events[i], d)
      BY <2>3, ExtensionsOfDuties DEF IsExtensionOf
    <3> QED
      BY <1>2, <2>1, <2>3, <3>1
  <2> QED
    BY <2>2, <2>3
<1>5. ASSUME NEW i \in DOMAIN events', events'[i].kind = "UNFORESEEN_EXTENSION"
      PROVE  /\ i > 1
             /\ events'[i - 1] = DutyClosed(events[i].duty, events[i].added)'
  BY <1>1, <1>3, <1>5, ExtensionsKept
<1> QED
  BY <1>4, <1>5 DEF ExtensionLogged, IsExtensionOf

(* The three places that record an extension (duty_periods.owe_augmented,  *)
(* .extension_min and the log) agree in every reachable state, whatever    *)
(* extensions are requested.  ExtensionLogged is inductive relative to     *)
(* TypeOK and ClosureLoggedOnce.                                           *)
THEOREM EveryExtensionLogged == Spec => []ExtensionLogged
<1>1. Init => ExtensionLogged
  BY DEF Init, ExtensionLogged
<1>2. WellFormed /\ ClosureLoggedOnce /\ ExtensionLogged /\ [Next]_vars => ExtensionLogged'
  BY CloseDutyExtensionLogged, OtherStepsExtensionLogged
<1> QED
  BY <1>1, <1>2, TypeCorrect, TypedIsWellFormed, EveryClosureLoggedOnce, PTL DEF Spec

-----------------------------------------------------------------------------
(* Landings *)

Landings(s) == {i \in DOMAIN events : IsLandingOf(events[i], s)}
Closers(s) == {d \in DOMAIN duties : Closed(d) /\ s \in LinkedTo(d)}

LEMMA LandingsFinite ==
  ASSUME WellFormed, NEW s
  PROVE  IsFiniteSet(Landings(s)) /\ IsFiniteSet(Closers(s))
<1>1. /\ DOMAIN events = 1..Len(events) /\ Len(events) \in Nat
      /\ DOMAIN duties = 1..Len(duties) /\ Len(duties) \in Nat
  BY DEF WellFormed, TablesOK
<1>2. IsFiniteSet(1..Len(events)) /\ IsFiniteSet(1..Len(duties))
  BY <1>1, FS_Interval
<1>3. Landings(s) \subseteq 1..Len(events) /\ Closers(s) \subseteq 1..Len(duties)
  BY <1>1 DEF Landings, Closers
<1> QED
  BY <1>2, <1>3, FS_Subset

(* Only segments that exist are landed, by duties that are closed.         *)
LEMMA LandingsOfClosed ==
  ASSUME WellFormed, LandedPerClosure, NEW i \in DOMAIN events, events[i].kind = "SEGMENT_LANDED"
  PROVE  /\ events[i].segment \in DOMAIN segments
         /\ \E d \in DOMAIN duties :
              /\ Closed(d) /\ events[i].segment \in LinkedTo(d)
              /\ events[i] = SegmentLanded(duties[d], events[i].segment)
<1>1. PICK d \in DOMAIN duties :
        /\ Closed(d) /\ events[i].segment \in LinkedTo(d)
        /\ events[i] = SegmentLanded(duties[d], events[i].segment)
  BY DEF LandedPerClosure
<1>2. duties[d].segs \in Seq(DOMAIN segments)
  BY TableRows DEF DutyType
<1>3. LinkedTo(d) \subseteq DOMAIN segments
  BY <1>2 DEF LinkedTo
<1> QED
  BY <1>1, <1>3

(* A landing keeps the duty it came with.                                  *)
LEMMA LandingsKept ==
  ASSUME WellFormed, LandedPerClosure, [Next]_vars,
         NEW i \in DOMAIN events, events[i].kind = "SEGMENT_LANDED"
  PROVE  \E d \in DOMAIN duties' :
           /\ Closed(d)' /\ events'[i].segment \in LinkedTo(d)'
           /\ events'[i] = SegmentLanded(duties[d], events[i].segment)'
<1>1. PICK d \in DOMAIN duties :
        /\ Closed(d) /\ events[i].segment \in LinkedTo(d)
        /\ events[i] = SegmentLanded(duties[d], events[i].segment)
  BY LandingsOfClosed
<1>2. events[i].segment \in DOMAIN segments
  BY LandingsOfClosed
<1>3. /\ events'[i] = events[i]
      /\ d \in DOMAIN duties' /\ duties'[d] = duties[d]
  BY <1>1, StepKeepsHistory
<1>4. segments'[events[i].segment] = segments[events[i].segment]
  BY <1>2, RowsKept
<1> QED
  BY <1>1, <1>3, <1>4 DEF Closed, LinkedTo, SegmentLanded

LEMMA OtherStepsLanded ==
  ASSUME WellFormed, LandedPerClosure, [Next]_vars,
         ~ \E d \in DOMAIN duties, requested \in ExtensionInputs : CloseDuty(d, requested)
  PROVE  LandedPerClosure'
<1>1. /\ DOMAIN events \subseteq DOMAIN events'
      /\ DOMAIN duties \subseteq DOMAIN duties'
      /\ \A i \in DOMAIN events : events'[i] = events[i]
      /\ \A d \in DOMAIN duties : duties'[d] = duties[d]
      /\ \A d \in DOMAIN duties' \ DOMAIN duties : duties'[d].status = "OPEN"
      /\ \A i \in DOMAIN events' \ DOMAIN events : events'[i].kind = "REST_COMPLETED"
  BY OtherStepsAppend
<1>2. ASSUME NEW s PROVE Landings(s)' = Landings(s) /\ Closers(s)' = Closers(s)
  <2>1. Landings(s)' = Landings(s)
    BY <1>1 DEF Landings, IsLandingOf
  <2>2. Closers(s)' = Closers(s)
    BY <1>1 DEF Closers, Closed, LinkedTo
  <2> QED
    BY <2>1, <2>2
<1>3. ASSUME NEW s \in DOMAIN segments' PROVE Cardinality(Landings(s)) = Cardinality(Closers(s))
  <2>1. CASE s \in DOMAIN segments
    BY <2>1 DEF LandedPerClosure, Landings, Closers
  <2>2. CASE s \notin DOMAIN segments
    <3>1. Landings(s) = {}
      BY <2>2, LandingsOfClosed DEF Landings, IsLandingOf
    <3>2. \A d \in DOMAIN duties : duties[d].segs \in Seq(DOMAIN segments)
      BY TableRows DEF DutyType
    <3>3. Closers(s) = {}
      BY <2>2, <3>2 DEF Closers, LinkedTo
    <3> QED
      BY <3>1, <3>3
  <2> QED
    BY <2>1, <2>2
<1>4. \A s \in DOMAIN segments' : Cardinality(Landings(s)') = Cardinality(Closers(s)')
  BY <1>2, <1>3
<1>5. \A i \in DOMAIN events' : events'[i].kind = "SEGMENT_LANDED" =>
        \E d \in DOMAIN duties' :
          /\ Closed(d)' /\ events'[i].segment \in LinkedTo(d)'
          /\ events'[i] = SegmentLanded(duties[d], events[i].segment)'
  BY <1>1, LandingsKept
<1> QED
  BY <1>4, <1>5 DEF LandedPerClosure, Landings, Closers

(* Closing a duty lands each of its segments once.                         *)
LEMMA CloseDutyLands ==
  ASSUME WellFormed, LandedPerClosure, DutiesAsCreated, [Next]_vars,
         NEW d \in DOMAIN duties, NEW requested \in ExtensionInputs, CloseDuty(d, requested)
  PROVE  LandedPerClosure'
<1>1. PICK ext, n, m :
        ext = CappedExtension(requested) /\ n = Len(duties[d].segs) /\ m = Len(events)
  OBVIOUS
<1>p. Positions(d, ext, n, m)
  BY <1>1, CloseDutyPositioned
<1>2. PICK segs : segs = duties[d].segs
  OBVIOUS
<1>3. /\ segs \in Seq(DOMAIN segments) /\ DOMAIN segs = 1..n
      /\ \A k, l \in 1..n : segs[k] = segs[l] => k = l
      /\ LinkedTo(d) = {segs[k] : k \in 1..n} /\ LinkedTo(d) \subseteq DOMAIN segments
  <2>1. segs \in Seq(DOMAIN segments) /\ DOMAIN segs = 1..n /\ n \in Nat
    BY <1>1, <1>2, TableRows DEF DutyType
  <2>2. \A i, j \in DOMAIN segs : i < j => segs[i] # segs[j]
    BY <1>2 DEF DutiesAsCreated, Follows
  <2>3. ASSUME NEW k \in 1..n, NEW l \in 1..n, segs[k] = segs[l] PROVE k = l
    <3>1. k < l \/ l < k \/ k = l
      BY <2>1
    <3> QED
      BY <2>1, <2>2, <2>3, <3>1
  <2> QED
    BY <1>2, <2>1, <2>3 DEF LinkedTo
<1>4. n \in Nat \ {0} /\ m \in Nat /\ ext \in Int /\ DOMAIN events = 1..m
  BY <1>p DEF Positions
<1>5. \A k \in 1..n : events'[m + k] = SegmentLanded(duties[d], segs[k])
  BY <1>p, <1>2 DEF Positions
<1>6. \A i \in DOMAIN events : i \in DOMAIN events' /\ events'[i] = events[i]
  BY StepKeepsHistory
<1>7. \A k \in 1..n : m + k \in DOMAIN events' \ DOMAIN events
  <2>1. 1..(m + n + 1) \subseteq DOMAIN events'
    <3>1. ext > 0 \/ ~(ext > 0)
      OBVIOUS
    <3>2. /\ ext > 0 => DOMAIN events' = 1..(m + n + 2)
          /\ ~(ext > 0) => DOMAIN events' = 1..(m + n + 1)
      BY <1>p DEF Positions
    <3> QED
      BY <1>4, <3>2
  <2> QED
    BY <1>4, <2>1
<1>a. \A i \in DOMAIN events' \ DOMAIN events :
        \/ i - m \in 1..n /\ i = m + (i - m)
        \/ i = m + n + 1
        \/ ext > 0 /\ i = m + n + 2
  BY <1>p, NewPositions
<1>8. \A i \in DOMAIN events' \ DOMAIN events :
        events'[i].kind = "SEGMENT_LANDED" => \E k \in 1..n : i = m + k
  <2> SUFFICES ASSUME NEW i \in DOMAIN events' \ DOMAIN events,
                      events'[i].kind = "SEGMENT_LANDED"
               PROVE  \E k \in 1..n : i = m + k
    OBVIOUS
  <2>1. CASE i - m \in 1..n /\ i = m + (i - m)
    BY <2>1, Zenon
  <2>2. i # m + n + 1
    <3>1. events'[m + n + 1] = DutyClosed(d, ext)
      BY <1>p DEF Positions
    <3> QED
      BY <3>1, EventFields
  <2>3. ~(ext > 0 /\ i = m + n + 2)
    <3>1. ext > 0 => events'[m + n + 2] = UnforeseenExtension(d, ext)
      BY <1>p DEF Positions
    <3> QED
      BY <3>1, EventFields
  <2> QED
    BY <1>a, <2>1, <2>2, <2>3
<1>9. /\ DOMAIN duties' = DOMAIN duties
      /\ \A e \in DOMAIN duties \ {d} : duties'[e] = duties[e]
      /\ ~Closed(d) /\ Closed(d)' /\ LinkedTo(d)' = LinkedTo(d)
      /\ duties'[d].crew = duties[d].crew /\ duties'[d].trip = duties[d].trip
  BY <1>1, CloseDutyRow DEF Closed, LinkedTo
<1>10. segments' = segments
  BY DEF CloseDuty
<1>11. ASSUME NEW k \in 1..n
       PROVE  Cardinality(Landings(segs[k])') = Cardinality(Closers(segs[k])')
  <2>1. m + k \notin Landings(segs[k]) /\ d \notin Closers(segs[k])
    BY <1>7, <1>9 DEF Landings, Closers
  <2>2. \A j \in 1..n : IsLandingOf(events'[m + j], segs[k]) <=> j = k
    BY <1>3, <1>5, EventFields DEF IsLandingOf
  <2>3. Landings(segs[k])' = Landings(segs[k]) \cup {m + k}
    <3>1. ASSUME NEW i \in DOMAIN events
          PROVE  i \in Landings(segs[k])' <=> i \in Landings(segs[k])
      BY <1>6 DEF Landings, IsLandingOf
    <3>2. ASSUME NEW i \in DOMAIN events' \ DOMAIN events
          PROVE  i \in Landings(segs[k])' <=> i = m + k
      <4>1. i \in Landings(segs[k])' <=> IsLandingOf(events'[i], segs[k])
        BY DEF Landings, IsLandingOf
      <4>2. IsLandingOf(events'[i], segs[k]) => \E j \in 1..n : i = m + j
        BY <1>8 DEF IsLandingOf
      <4> QED
        BY <2>2, <4>1, <4>2
    <3>3. Landings(segs[k])' \subseteq DOMAIN events' /\ Landings(segs[k]) \subseteq DOMAIN events
      BY DEF Landings
    <3> QED
      BY <1>6, <1>7, <3>1, <3>2, <3>3
  <2>4. Closers(segs[k])' = Closers(segs[k]) \cup {d}
    <3>1. ASSUME NEW e \in DOMAIN duties \ {d}
          PROVE  e \in Closers(segs[k])' <=> e \in Closers(segs[k])
      BY <1>9 DEF Closers, Closed, LinkedTo
    <3>2. d \in Closers(segs[k])'
      <4>1. segs[k] \in LinkedTo(d)'
        BY <1>3, <1>9
      <4> QED
        BY <1>9, <4>1 DEF Closers
    <3>3. Closers(segs[k])' \subseteq DOMAIN duties /\ Closers(segs[k]) \subseteq DOMAIN duties
      BY <1>9 DEF Closers
    <3> QED
      BY <3>1, <3>2, <3>3
  <2>5. Cardinality(Landings(segs[k])) = Cardinality(Closers(segs[k]))
    <3>1. \A s \in DOMAIN segments : Cardinality(Landings(s)) = Cardinality(Closers(s))
      BY DEF LandedPerClosure, Landings, Closers
    <3>2. segs[k] \in DOMAIN segments
      BY <1>3
    <3> QED
      BY <3>1, <3>2
  <2>6. IsFiniteSet(Landings(segs[k])) /\ IsFiniteSet(Closers(segs[k]))
    BY LandingsFinite
  <2>7. /\ Cardinality(Landings(segs[k]) \cup {m + k}) = Cardinality(Landings(segs[k])) + 1
        /\ Cardinality(Closers(segs[k]) \cup {d}) = Cardinality(Closers(segs[k])) + 1
    BY <2>1, <2>6, FS_AddElement
  <2> QED
    BY <2>3, <2>4, <2>5, <2>7
<1>12. ASSUME NEW s \in DOMAIN segments, s \notin LinkedTo(d)
       PROVE  Cardinality(Landings(s)') = Cardinality(Closers(s)')
  <2>1. \A k \in 1..n : ~IsLandingOf(events'[m + k], s)
    BY <1>3, <1>5, <1>12, EventFields DEF IsLandingOf
  <2>2. Landings(s)' = Landings(s)
    BY <1>6, <1>8, <2>1 DEF Landings, IsLandingOf
  <2>3. Closers(s)' = Closers(s)
    BY <1>9, <1>12 DEF Closers, Closed, LinkedTo
  <2>4. Cardinality(Landings(s)) = Cardinality(Closers(s))
    BY DEF LandedPerClosure, Landings, Closers
  <2> QED
    BY <2>2, <2>3, <2>4
<1>13. ASSUME NEW i \in DOMAIN events', events'[i].kind = "SEGMENT_LANDED"
       PROVE  \E e \in DOMAIN duties' :
                /\ Closed(e)' /\ events'[i].segment \in LinkedTo(e)'
                /\ events'[i] = SegmentLanded(duties[e], events[i].segment)'
  <2>1. CASE i \in DOMAIN events
    BY <1>6, <1>13, <2>1, LandingsKept
  <2>2. CASE i \notin DOMAIN events
    <3>1. PICK k \in 1..n : i = m + k
      BY <1>8, <1>13, <2>2
    <3>2. events'[i] = SegmentLanded(duties[d], segs[k]) /\ events'[i].segment = segs[k]
      BY <1>5, <3>1, EventFields
    <3>3. SegmentLanded(duties[d], segs[k]) = SegmentLanded(duties'[d], segs[k])
      BY <1>9 DEF SegmentLanded
    <3>4. events'[i] = SegmentLanded(duties[d], events[i].segment)'
      BY <1>10, <3>2, <3>3 DEF SegmentLanded
    <3> QED
      BY <1>3, <1>9, <3>2, <3>4
  <2> QED
    BY <2>1, <2>2
<1>14. \A s \in DOMAIN segments' : Cardinality(Landings(s)') = Cardinality(Closers(s)')
  BY <1>3, <1>10, <1>11, <1>12
<1> QED
  BY <1>13, <1>14 DEF LandedPerClosure, Landings, Closers

(* Block time enters the log by closures alone: every segment is landed    *)
(* once for each closed duty that links it (CloseDuty's loop over the      *)
(* links made by CreateDutyForTrip), with the row's block and departure.   *)
THEOREM EveryLandingOfAClosure == Spec => []LandedPerClosure
<1>1. Init => LandedPerClosure
  BY DEF Init, LandedPerClosure
<1>2. WellFormed /\ DutiesAsCreated /\ LandedPerClosure /\ [Next]_vars => LandedPerClosure'
  BY CloseDutyLands, OtherStepsLanded
<1> QED
  BY <1>1, <1>2, TypeCorrect, TypedIsWellFormed, DutiesStayAsCreated, PTL DEF Spec

-----------------------------------------------------------------------------
(* Trips *)

HasClosedDuty(t) == \E d \in DOMAIN duties : duties[d].trip = t /\ Closed(d)
UnplannedByDuty == \A t \in DOMAIN trips : ~trips[t].planned <=> HasClosedDuty(t)

LEMMA OtherStepsUnplanned ==
  ASSUME WellFormed, UnplannedByDuty, [Next]_vars,
         ~ \E d \in DOMAIN duties, requested \in ExtensionInputs : CloseDuty(d, requested)
  PROVE  UnplannedByDuty'
<1>1. /\ DOMAIN duties \subseteq DOMAIN duties'
      /\ \A d \in DOMAIN duties : duties'[d] = duties[d]
      /\ \A d \in DOMAIN duties' \ DOMAIN duties : duties'[d].status = "OPEN"
  BY OtherStepsAppend
<1>2. ASSUME NEW t PROVE HasClosedDuty(t)' <=> HasClosedDuty(t)
  BY <1>1 DEF HasClosedDuty, Closed
<1>3. CASE trips' = trips
  BY <1>2, <1>3 DEF UnplannedByDuty
<1>4. ASSUME NEW c \in Crew, CreateTrip(c) PROVE UnplannedByDuty'
  <2> DEFINE row == [crew |-> c, planned |-> TRUE]
  <2>1. trips' = Append(trips, row) /\ row.planned
    BY <1>4 DEF CreateTrip
  <2> HIDE DEF row
  <2>2. /\ \A t \in DOMAIN trips : trips'[t] = trips[t]
        /\ \A t \in DOMAIN trips' \ DOMAIN trips : trips'[t].planned
    BY <2>1 DEF WellFormed, TablesOK
  <2>3. \A d \in DOMAIN duties : duties[d].trip \in DOMAIN trips
    BY TableRows DEF DutyType
  <2>4. \A t \in DOMAIN trips' \ DOMAIN trips : ~HasClosedDuty(t)
    BY <2>3 DEF HasClosedDuty
  <2> QED
    BY <1>2, <2>2, <2>4 DEF UnplannedByDuty
<1>5. ASSUME NEW t \in DOMAIN trips, NEW in \in SegmentInputs, AddSegment(t, in)
      PROVE  trips' = trips
  BY <1>5 DEF AddSegment
<1>6. ASSUME NEW t \in DOMAIN trips, CreateDutyForTrip(t) PROVE trips' = trips
  BY <1>6 DEF CreateDutyForTrip
<1>7. ASSUME NEW c \in Crew, NEW in \in RestInputs, CreateRest(c, in) PROVE trips' = trips
  BY <1>7 DEF CreateRest
<1>8. CASE UNCHANGED vars
  BY <1>3, <1>8 DEF vars
<1> QED
  BY <1>3, <1>4, <1>5, <1>6, <1>7, <1>8 DEF Next

LEMMA CloseDutyUnplanned ==
  ASSUME WellFormed, UnplannedByDuty,
         NEW d \in DOMAIN duties, NEW requested \in ExtensionInputs, CloseDuty(d, requested)
  PROVE  UnplannedByDuty'
<1>1. /\ DOMAIN duties' = DOMAIN duties
      /\ \A e \in DOMAIN duties \ {d} : duties'[e] = duties[e]
      /\ duties'[d].trip = duties[d].trip
      /\ ~Closed(d) /\ Closed(d)'
  BY CloseDutyRow DEF Closed
<1>2. duties[d].trip \in DOMAIN trips /\ \A t \in DOMAIN trips : trips[t] \in TripType
  BY TableRows DEF DutyType
<1>3. trips' = [trips EXCEPT ![duties[d].trip].planned = FALSE]
  BY DEF CloseDuty
<1>4. /\ DOMAIN trips' = DOMAIN trips
      /\ ~trips'[duties[d].trip].planned
      /\ \A t \in DOMAIN trips \ {duties[d].trip} : trips'[t] = trips[t]
  BY <1>2, <1>3 DEF TripType
<1>5. ASSUME NEW t, t = duties[d].trip PROVE HasClosedDuty(t)'
  BY <1>1, <1>5 DEF HasClosedDuty
<1>6. \A t : t # duties[d].trip => (HasClosedDuty(t)' <=> HasClosedDuty(t))
  BY <1>1 DEF HasClosedDuty, Closed
<1>7. ASSUME NEW t \in DOMAIN trips' PROVE ~trips'[t].planned <=> HasClosedDuty(t)'
  <2>1. CASE t = duties[d].trip
    BY <1>4, <1>5, <2>1
  <2>2. CASE t # duties[d].trip
    BY <1>4, <1>6, <2>2 DEF UnplannedByDuty
  <2> QED
    BY <2>1, <2>2
<1> QED
  BY <1>7 DEF UnplannedByDuty

(* A trip is planned until one of its duties is closed, and what has been  *)
(* landed belongs to trips that are closed to new segments (the status     *)
(* test of AddSegment, the status update of CloseDuty).                    *)
THEOREM TripsClosedByDuties == Spec => []TripClosedByDuty
<1>1. Init => UnplannedByDuty
  BY DEF Init, UnplannedByDuty
<1>2. WellFormed /\ UnplannedByDuty /\ [Next]_vars => UnplannedByDuty'
  BY CloseDutyUnplanned, OtherStepsUnplanned
<1>3. WellFormed /\ UnplannedByDuty /\ DutyFollowsTrip /\ LandedPerClosure => TripClosedByDuty
  <2> SUFFICES ASSUME WellFormed, UnplannedByDuty, DutyFollowsTrip, LandedPerClosure
               PROVE  TripClosedByDuty
    OBVIOUS
  <2>1. ASSUME NEW i \in DOMAIN events, events[i].kind = "SEGMENT_LANDED"
        PROVE  ~trips[segments[events[i].segment].trip].planned
    <3>1. PICK d \in DOMAIN duties : Closed(d) /\ events[i].segment \in LinkedTo(d)
      BY <2>1, LandingsOfClosed
    <3>2. segments[events[i].segment].trip = duties[d].trip
      BY <3>1 DEF DutyFollowsTrip, SegmentsOf
    <3>3. duties[d].trip \in DOMAIN trips
      BY TableRows DEF DutyType
    <3> QED
      BY <3>1, <3>2, <3>3 DEF UnplannedByDuty, HasClosedDuty
  <2>2. \A t \in DOMAIN trips :
          ~trips[t].planned <=> \E d \in DOMAIN duties : duties[d].trip = t /\ Closed(d)
    BY DEF UnplannedByDuty, HasClosedDuty
  <2> QED
    BY <2>1, <2>2 DEF TripClosedByDuty
<1> QED
  BY <1>1, <1>2, <1>3, TypeCorrect, TypedIsWellFormed, EveryDutyFollowsTrip,
     EveryLandingOfAClosure, PTL DEF Spec

-----------------------------------------------------------------------------
(* CrewSchedule implements DutyLedger *)


FlownEntries == {FlownAt(i) : i \in Closures}
RestedEntries == {RestedAt(i) : i \in Completions}

-----------------------------------------------------------------------------
(* Entries that are in the ledger *)

(* The log never ends with a landing: so the landings before a closure are *)
(* those of its own transaction.                                           *)
EndsWithWholeFact ==
  events # <<>> => events[Len(events)].kind # "SEGMENT_LANDED"

LEMMA LastEvent ==
  ASSUME WellFormed, [Next]_vars, EndsWithWholeFact
  PROVE  EndsWithWholeFact'
<1>1. ASSUME NEW d \in DOMAIN duties, NEW requested \in ExtensionInputs,
             CloseDuty(d, requested)
      PROVE  EndsWithWholeFact'
  <2>1. PICK ext, n, m :
          ext = CappedExtension(requested) /\ n = Len(duties[d].segs) /\ m = Len(events)
    OBVIOUS
  <2>p. Positions(d, ext, n, m)
    BY <1>1, <2>1, CloseDutyPositioned
  <2>2. n \in Nat /\ m \in Nat /\ ext \in Int
    BY <2>p DEF Positions
  <2>3. events' \in Seq(LogEvent)
    BY StepWellFormed DEF WellFormed
  <2>4. CASE ext > 0
    <3>1. DOMAIN events' = 1..(m + n + 2)
      BY <2>p, <2>4 DEF Positions
    <3>2. events'[m + n + 2] = UnforeseenExtension(d, ext)
      BY <2>p, <2>4 DEF Positions
    <3>3. Len(events') = m + n + 2
      BY <2>2, <2>3, <3>1
    <3> QED
      BY <3>2, <3>3, EventFields DEF EndsWithWholeFact
  <2>5. CASE ~(ext > 0)
    <3>1. DOMAIN events' = 1..(m + n + 1)
      BY <2>p, <2>5 DEF Positions
    <3>2. events'[m + n + 1] = DutyClosed(d, ext)
      BY <2>p DEF Positions
    <3>3. Len(events') = m + n + 1
      BY <2>2, <2>3, <3>1
    <3> QED
      BY <3>2, <3>3, EventFields DEF EndsWithWholeFact
  <2> QED
    BY <2>4, <2>5
<1>2. ASSUME NEW c \in Crew, NEW in \in RestInputs, CreateRest(c, in)
      PROVE  EndsWithWholeFact'
  <2> DEFINE new == RestCompleted(Len(rests) + 1, RestRow(c, in))
  <2>1. events' = Append(events, new) /\ new.kind = "REST_COMPLETED"
    BY <1>2 DEF CreateRest, RestCompleted
  <2> HIDE DEF new
  <2> QED
    BY <2>1 DEF WellFormed, TablesOK, EndsWithWholeFact
<1>3. CASE events' = events
  BY <1>3 DEF EndsWithWholeFact
<1>4. ASSUME NEW c \in Crew, CreateTrip(c) PROVE events' = events
  BY <1>4 DEF CreateTrip
<1>5. ASSUME NEW t \in DOMAIN trips, NEW in \in SegmentInputs, AddSegment(t, in)
      PROVE  events' = events
  BY <1>5 DEF AddSegment
<1>6. ASSUME NEW t \in DOMAIN trips, CreateDutyForTrip(t) PROVE events' = events
  BY <1>6 DEF CreateDutyForTrip
<1>7. CASE UNCHANGED vars
  BY <1>3, <1>7 DEF vars
<1> QED
  BY <1>1, <1>2, <1>3, <1>4, <1>5, <1>6, <1>7 DEF Next

(* An entry stays what it is as the log grows, if what follows it at once  *)
(* is no extension.                                                        *)
LEMMA EntriesStay ==
  ASSUME WellFormed, [Next]_vars,
         \A i \in DOMAIN events : i + 1 \in DOMAIN events' \ DOMAIN events =>
           events'[i + 1].kind # "UNFORESEEN_EXTENSION"
  PROVE  /\ \A i \in Closures : FlownAt(i)' = FlownAt(i)
         /\ \A i \in Completions : RestedAt(i)' = RestedAt(i)
<1>1. \A i \in DOMAIN events : i \in DOMAIN events' /\ events'[i] = events[i]
  BY StepKeepsHistory
<1>2. DOMAIN events = 1..Len(events) /\ Len(events) \in Nat
  BY DEF WellFormed, TablesOK
<1>3. ASSUME NEW i \in Closures PROVE FlownAt(i)' = FlownAt(i)
  <2>1. i \in DOMAIN events /\ i \in Nat /\ 1..(i - 1) \subseteq DOMAIN events
    BY <1>2 DEF Closures
  <2>2. \A j \in 1..(i - 1) : j \in DOMAIN events /\ events'[j] = events[j]
    BY <1>1, <2>1
  <2>3. LandingsBefore(i)' = LandingsBefore(i)
    <3>1. ASSUME NEW j \in 1..(i - 1), NEW k \in j..(i - 1)
          PROVE  events'[k] = events[k]
      <4>1. k \in 1..(i - 1)
        BY <2>1
      <4> QED
        BY <2>2, <4>1
    <3> QED
      BY <3>1 DEF LandingsBefore
  <2>4. {Flight(events[j]) : j \in LandingsBefore(i)}' = {Flight(events[j]) : j \in LandingsBefore(i)}
    <3>1. LandingsBefore(i) \subseteq 1..(i - 1)
      BY DEF LandingsBefore
    <3> QED
      BY <2>2, <2>3, <3>1 DEF Flight
  <2>5. (i + 1 \in DOMAIN events /\ events[i + 1].kind = "UNFORESEEN_EXTENSION")'
          <=> (i + 1 \in DOMAIN events /\ events[i + 1].kind = "UNFORESEEN_EXTENSION")
    BY <1>1, <2>1
  <2>6. events'[i] = events[i]
    BY <1>1, <2>1
  <2> QED
    BY <2>4, <2>5, <2>6 DEF FlownAt
<1>4. ASSUME NEW i \in Completions PROVE RestedAt(i)' = RestedAt(i)
  BY <1>1 DEF RestedAt, Completions
<1> QED
  BY <1>3, <1>4

-----------------------------------------------------------------------------
(* Closing a duty writes one entry *)

(* The flights of the new closure are those of the duty.                   *)
LEMMA NewLandings ==
  ASSUME WellFormed, EndsWithWholeFact, [Next]_vars,
         NEW d \in DOMAIN duties, NEW requested \in ExtensionInputs, CloseDuty(d, requested)
  PROVE  \A i : i = Len(events) + Len(duties[d].segs) + 1 =>
           LandingsBefore(i)' = {Len(events) + k : k \in 1..Len(duties[d].segs)}
<1>1. PICK ext, n, m :
        ext = CappedExtension(requested) /\ n = Len(duties[d].segs) /\ m = Len(events)
  OBVIOUS
<1>p. Positions(d, ext, n, m)
  BY <1>1, CloseDutyPositioned
<1>2. n \in Nat \ {0} /\ m \in Nat /\ DOMAIN events = 1..m
  BY <1>p DEF Positions
<1>3. \A k \in 1..n : events'[m + k] = SegmentLanded(duties[d], duties[d].segs[k])
  BY <1>p DEF Positions
<1>4. \A k \in 1..n : events'[m + k].kind = "SEGMENT_LANDED"
  BY <1>3, EventFields
<1>5. m > 0 => events'[m].kind # "SEGMENT_LANDED"
  <2> SUFFICES ASSUME m > 0 PROVE events'[m].kind # "SEGMENT_LANDED"
    OBVIOUS
  <2>1. m \in DOMAIN events /\ events # <<>>
    BY <1>2
  <2>2. events[m].kind # "SEGMENT_LANDED"
    BY <1>1, <2>1 DEF EndsWithWholeFact
  <2> QED
    BY <2>1, <2>2, StepKeepsHistory
<1> SUFFICES ASSUME NEW i, i = m + n + 1
             PROVE  LandingsBefore(i)' = {m + k : k \in 1..n}
  BY <1>1
<1>6. ASSUME NEW k \in 1..n PROVE m + k \in LandingsBefore(i)'
  <2>1. m + k \in 1..(i - 1)
    BY <1>1, <1>2
  <2>2. ASSUME NEW l \in (m + k)..(i - 1) PROVE events'[l].kind = "SEGMENT_LANDED"
    <3>1. l - m \in 1..n /\ l = m + (l - m)
      BY <1>1, <1>2, <2>2
    <3> QED
      BY <1>4, <3>1
  <2> QED
    BY <2>1, <2>2 DEF LandingsBefore
<1>7. ASSUME NEW j \in LandingsBefore(i)' PROVE \E k \in 1..n : j = m + k
  <2>1. j \in 1..(i - 1) /\ \A l \in j..(i - 1) : events'[l].kind = "SEGMENT_LANDED"
    BY <1>7 DEF LandingsBefore
  <2>2. j > m
    <3> SUFFICES ASSUME j <= m PROVE FALSE
      BY <1>1, <1>2, <2>1
    <3>1. m \in j..(i - 1) /\ m > 0
      BY <1>1, <1>2, <2>1
    <3> QED
      BY <1>5, <2>1, <3>1
  <2>3. j - m \in 1..n /\ j = m + (j - m)
    BY <1>1, <1>2, <2>1, <2>2
  <2> QED
    BY <2>3, Zenon
<1> QED
  BY <1>6, <1>7

LEMMA FlightOfLanding ==
  \A duty, s : /\ Flight(SegmentLanded(duty, s)).segment = s
               /\ Flight(SegmentLanded(duty, s)).dep = segments[s].dep
BY DEF Flight, SegmentLanded

(* The entry of the new closure.                                           *)
LEMMA NewEntry ==
  ASSUME WellFormed, EndsWithWholeFact, DutiesAsCreated, [Next]_vars,
         NEW d \in DOMAIN duties, NEW requested \in ExtensionInputs, CloseDuty(d, requested),
         NEW i, i = Len(events) + Len(duties[d].segs) + 1,
         NEW f, f = FlownAt(i)'
  PROVE  /\ f.duty = d
         /\ f.crew \in Crew
         /\ f.flights # {}
         /\ \A x, y \in f.flights : x.segment = y.segment => x = y
         /\ \A x \in f.flights : x.dep < f.release
         /\ f.fdp >= 0
         /\ f.ext <= UnforeseenExtendMaxMin
         /\ f.extended <=> f.ext > 0
<1>1. PICK ext, n, m :
        ext = CappedExtension(requested) /\ n = Len(duties[d].segs) /\ m = Len(events)
  OBVIOUS
<1>p. Positions(d, ext, n, m)
  BY <1>1, CloseDutyPositioned
<1>2. PICK segs, duty : segs = duties[d].segs /\ duty = duties[d]
  OBVIOUS
<1>3. n \in Nat \ {0} /\ m \in Nat /\ ext \in Int
  BY <1>p DEF Positions
<1>4. events'[i] = DutyClosed(d, ext)
  BY <1>1, <1>p DEF Positions
<1>5. \A k \in 1..n : events'[m + k] = SegmentLanded(duty, segs[k])
  BY <1>p, <1>2 DEF Positions
<1>6. /\ duty \in DutyType /\ segs \in Seq(DOMAIN segments) /\ DOMAIN segs = 1..n
      /\ Follows(duty, segs) /\ FliesForward
  BY <1>1, <1>2, TableRows DEF DutyType, DutiesAsCreated
<1>7. LandingsBefore(i)' = {m + k : k \in 1..n}
  <2>1. LandingsBefore(i)' = {Len(events) + k : k \in 1..Len(duties[d].segs)}
    BY NewLandings
  <2> QED
    BY <1>1, <2>1
<1>8. /\ f.duty = d /\ f.crew = duty.crew /\ f.release = duty.release
      /\ f.fdp = FDPMin(duty) /\ f.ext = ext
      /\ f.extended = (i + 1 \in DOMAIN events' /\ events'[i + 1].kind = "UNFORESEEN_EXTENSION")
      /\ f.flights = {Flight(events'[j]) : j \in LandingsBefore(i)'}
  BY <1>2, <1>4 DEF FlownAt, DutyClosed, Flight
<1>9. f.flights = {Flight(events'[m + k]) : k \in 1..n}
  BY <1>7, <1>8
<1>10. \A k \in 1..n : /\ Flight(events'[m + k]).segment = segs[k]
                       /\ Flight(events'[m + k]).dep = segments[segs[k]].dep
  BY <1>5, FlightOfLanding
<1>11. ASSUME NEW x \in f.flights, NEW y \in f.flights, x.segment = y.segment PROVE x = y
  <2>1. PICK k \in 1..n : x = Flight(events'[m + k])
    BY <1>9
  <2>2. PICK l \in 1..n : y = Flight(events'[m + l])
    BY <1>9
  <2>3. segs[k] = segs[l]
    BY <1>10, <1>11, <2>1, <2>2
  <2>4. k < l \/ l < k \/ k = l
    OBVIOUS
  <2>5. k = l
    BY <1>6, <2>3, <2>4 DEF Follows
  <2> QED
    BY <2>1, <2>2, <2>5
<1>12. ASSUME NEW x \in f.flights PROVE x.dep < f.release
  <2>1. PICK k \in 1..n : x = Flight(events'[m + k])
    BY <1>9
  <2>2. \A s \in DOMAIN segments : segments[s].dep \in Int /\ segments[s].arr \in Int
    BY TableRows DEF SegmentType
  <2>3. Len(segs) = n /\ n \in DOMAIN segs /\ k \in DOMAIN segs
    BY <1>1, <1>2, <1>3, <1>6
  <2>4. segs[n] \in DOMAIN segments /\ segs[k] \in DOMAIN segments
    BY <1>6, <2>3
  <2>5. segments[segs[k]].dep <= segments[segs[n]].dep
    <3>1. k < n \/ k = n
      BY <1>3
    <3> QED
      BY <1>6, <2>2, <2>3, <2>4, <3>1 DEF Follows
  <2>6. segments[segs[n]].dep < segments[segs[n]].arr
    BY <1>6, <2>4 DEF FliesForward
  <2>7. duty.release = segments[segs[n]].arr + Ticks(ReleaseLagMin) /\ Ticks(ReleaseLagMin) \in Nat
    BY <1>6, <2>3, ParametersAssumption DEF Follows, Ticks
  <2>8. x.dep = segments[segs[k]].dep
    BY <1>10, <2>1
  <2> QED
    BY <1>8, <2>2, <2>4, <2>5, <2>6, <2>7, <2>8
<1>13. f.fdp >= 0
  <2>1. duty.release - duty.report \in Nat
    BY <1>6 DEF Follows, DutyType
  <2> QED
    BY <1>8, <2>1, ParametersAssumption DEF FDPMin, Minutes
<1>14. f.extended <=> ext > 0
  <2>1. CASE ext > 0
    <3>1. i + 1 = m + n + 2
      BY <1>1, <1>3
    <3>2. DOMAIN events' = 1..(m + n + 2)
      BY <1>p, <2>1 DEF Positions
    <3>3. events'[m + n + 2] = UnforeseenExtension(d, ext)
      BY <1>p, <2>1 DEF Positions
    <3>4. events'[i + 1].kind = "UNFORESEEN_EXTENSION"
      BY <3>1, <3>3, EventFields
    <3>5. i + 1 \in DOMAIN events'
      BY <1>3, <3>1, <3>2
    <3> QED
      BY <1>8, <2>1, <3>4, <3>5
  <2>2. CASE ~(ext > 0)
    <3>1. DOMAIN events' = 1..(m + n + 1)
      BY <1>p, <2>2 DEF Positions
    <3>2. i + 1 \notin DOMAIN events'
      BY <1>1, <1>3, <3>1
    <3> QED
      BY <1>8, <2>2, <3>2
  <2> QED
    BY <2>1, <2>2
<1>15. f.flights # {}
  <2>1. 1 \in 1..n
    BY <1>3
  <2> QED
    BY <1>9, <2>1
<1>16. ext <= UnforeseenExtendMaxMin
  BY <1>1, ConversionTypes
<1> QED
  BY <1>6, <1>8, <1>11, <1>12, <1>13, <1>14, <1>15, <1>16 DEF DutyType

-----------------------------------------------------------------------------
(* Every step is a step of the ledger *)

LEMMA CloseDutyRecords ==
  ASSUME WellFormed, ClosureLoggedOnce, EndsWithWholeFact, DutiesAsCreated, [Next]_vars,
         NEW d \in DOMAIN duties, NEW requested \in ExtensionInputs, CloseDuty(d, requested)
  PROVE  \E f \in FlownEntries' : /\ FlownEntries' = FlownEntries \cup {f}
                                  /\ RestedEntries' = RestedEntries /\ Ledger!RecordDuty(f)
<1>1. PICK ext, n, m :
        ext = CappedExtension(requested) /\ n = Len(duties[d].segs) /\ m = Len(events)
  OBVIOUS
<1>p. Positions(d, ext, n, m)
  BY <1>1, CloseDutyPositioned
<1>2. n \in Nat \ {0} /\ m \in Nat /\ ext \in Int /\ DOMAIN events = 1..m
  <2>1. n \in Nat \ {0} /\ m \in Nat /\ ext \in Int
    BY <1>p DEF Positions
  <2>2. DOMAIN events = 1..m
    BY <1>p DEF Positions
  <2> QED
    BY <2>1, <2>2
<1>3. \A k \in 1..n : events'[m + k] = SegmentLanded(duties[d], duties[d].segs[k])
  BY <1>p DEF Positions
<1>4. events'[m + n + 1] = DutyClosed(d, ext)
  BY <1>p DEF Positions
<1>5. ext > 0 => events'[m + n + 2] = UnforeseenExtension(d, ext)
  BY <1>p DEF Positions
<1>6. \A i \in DOMAIN events' \ DOMAIN events :
        \/ i - m \in 1..n /\ i = m + (i - m)
        \/ i = m + n + 1
        \/ ext > 0 /\ i = m + n + 2
  BY <1>p, NewPositions
<1>7. \A i \in DOMAIN events : i \in DOMAIN events' /\ events'[i] = events[i]
  BY StepKeepsHistory
<1>8. m + n + 1 \in DOMAIN events' \ DOMAIN events
  <2>1. Len(events) + Len(duties[d].segs) + 1 \in DOMAIN events' \ DOMAIN events
    BY CloseDutyAppends
  <2> QED
    BY <1>1, <2>1
(* What was recorded stays: the new block begins with a landing.           *)
<1>9. /\ \A i \in Closures : FlownAt(i)' = FlownAt(i)
      /\ \A i \in Completions : RestedAt(i)' = RestedAt(i)
  <2>1. ASSUME NEW i \in DOMAIN events, i + 1 \in DOMAIN events' \ DOMAIN events
        PROVE  events'[i + 1].kind # "UNFORESEEN_EXTENSION"
    <3>1. i = m /\ 1 \in 1..n
      BY <1>2, <2>1
    <3>2. events'[m + 1] = SegmentLanded(duties[d], duties[d].segs[1])
      BY <1>3, <3>1
    <3> QED
      BY <3>1, <3>2, EventFields
  <2> QED
    BY <2>1, EntriesStay
<1>10. PICK c : c = m + n + 1
  OBVIOUS
<1>11. ASSUME NEW i \in DOMAIN events' \ DOMAIN events
       PROVE  /\ events'[i].kind = "DUTY_CLOSED" <=> i = c
              /\ events'[i].kind # "REST_COMPLETED"
  <2>1. CASE i - m \in 1..n /\ i = m + (i - m)
    <3>1. events'[i].kind = "SEGMENT_LANDED"
      BY <1>3, <2>1, EventFields
    <3>2. i # c
      BY <1>2, <1>10, <2>1
    <3> QED
      BY <3>1, <3>2
  <2>2. CASE i = m + n + 1
    BY <1>4, <1>10, <2>2, EventFields
  <2>3. CASE ext > 0 /\ i = m + n + 2
    <3>1. events'[i].kind = "UNFORESEEN_EXTENSION"
      BY <1>5, <2>3, EventFields
    <3>2. i # c
      BY <1>2, <1>10, <2>3
    <3> QED
      BY <3>1, <3>2
  <2> QED
    BY <1>6, <2>1, <2>2, <2>3
<1>12. Closures' = Closures \cup {c}
  BY <1>7, <1>8, <1>10, <1>11 DEF Closures
<1>13. Completions' = Completions
  BY <1>7, <1>11 DEF Completions
<1>14. PICK f : f = FlownAt(c)'
  OBVIOUS
<1>15. FlownEntries' = FlownEntries \cup {f}
  BY <1>9, <1>12, <1>14 DEF FlownEntries
<1>16. RestedEntries' = RestedEntries
  BY <1>9, <1>13 DEF RestedEntries
<1>17. /\ f.duty = d
       /\ f.crew \in Crew
       /\ f.flights # {}
       /\ \A x, y \in f.flights : x.segment = y.segment => x = y
       /\ \A x \in f.flights : x.dep < f.release
       /\ f.fdp >= 0
       /\ f.ext <= UnforeseenExtendMaxMin
       /\ f.extended <=> f.ext > 0
  <2>1. c = Len(events) + Len(duties[d].segs) + 1
    BY <1>1, <1>10
  <2> QED
    BY <1>14, <2>1, NewEntry
<1>18. \A g \in FlownEntries : g.duty # f.duty
  <2> SUFFICES ASSUME NEW i \in Closures PROVE FlownAt(i).duty # d
    BY <1>17 DEF FlownEntries
  <2>1. ~Closed(d)
    BY CloseDutyRow DEF Closed
  <2>2. Closed(events[i].duty)
    BY DEF Closures, ClosureLoggedOnce
  <2> QED
    BY <2>1, <2>2 DEF FlownAt
<1>19. Ledger!RecordDuty(f)
  BY <1>15, <1>16, <1>17, <1>18 DEF Ledger!RecordDuty, FlownEntries, RestedEntries
<1> QED
  BY <1>15, <1>16, <1>19

LEMMA CreateRestRecords ==
  ASSUME WellFormed, RestsLogged, [Next]_vars,
         NEW c \in Crew, NEW in \in RestInputs, CreateRest(c, in)
  PROVE  \E r \in RestedEntries' : /\ RestedEntries' = RestedEntries \cup {r}
                                   /\ FlownEntries' = FlownEntries /\ Ledger!RecordRest(r)
<1>1. PICK new, last : new = Len(rests) + 1 /\ last = Len(events) + 1
  OBVIOUS
<1>2. /\ new \notin DOMAIN rests /\ last \notin DOMAIN events
      /\ DOMAIN events' = DOMAIN events \cup {last}
      /\ \A i \in DOMAIN events : events'[i] = events[i]
      /\ events'[last] = RestCompleted(new, rests'[new])
      /\ rests'[new].minutes >= 0
  BY <1>1, CreateRestAppends
<1>3. /\ events'[last].kind = "REST_COMPLETED" /\ events'[last].rest = new
      /\ events'[last].duration >= 0
  BY <1>2 DEF RestCompleted
<1>4. events'[last].crew \in Crew
  <2>1. events'[last] \in LogEvent
    BY <1>2, StepWellFormed, Rows DEF WellFormed
  <2> QED
    BY <2>1 DEF LogEvent, ComplianceEvent, ScheduleEvent, SegmentLandedEvent,
                DutyClosedEvent, UnforeseenEvent, RestCompletedEvent
<1>5. /\ \A i \in Closures : FlownAt(i)' = FlownAt(i)
      /\ \A i \in Completions : RestedAt(i)' = RestedAt(i)
  BY <1>2, <1>3, EntriesStay
<1>6. Closures' = Closures /\ Completions' = Completions \cup {last}
  BY <1>2, <1>3 DEF Closures, Completions
<1>7. PICK r : r = RestedAt(last)'
  OBVIOUS
<1>8. RestedEntries' = RestedEntries \cup {r}
  BY <1>5, <1>6, <1>7 DEF RestedEntries
<1>9. FlownEntries' = FlownEntries
  BY <1>5, <1>6 DEF FlownEntries
<1>10. r.rest = new /\ r.crew \in Crew /\ r.minutes >= 0
  BY <1>3, <1>4, <1>7 DEF RestedAt
<1>11. \A q \in RestedEntries : q.rest # r.rest
  <2> SUFFICES ASSUME NEW i \in Completions PROVE RestedAt(i).rest # new
    BY <1>10 DEF RestedEntries
  <2>1. events[i].rest \in DOMAIN rests
    BY DEF Completions, RestsLogged
  <2> QED
    BY <1>2, <2>1 DEF RestedAt
<1>12. Ledger!RecordRest(r)
  BY <1>8, <1>9, <1>10, <1>11 DEF Ledger!RecordRest, FlownEntries, RestedEntries
<1> QED
  BY <1>8, <1>9, <1>12

LEMMA StepRecords ==
  ASSUME WellFormed, ClosureLoggedOnce, RestsLogged, EndsWithWholeFact, DutiesAsCreated,
         [Next]_vars
  PROVE  [Ledger!Next]_(Ledger!entries)
<1>1. ASSUME NEW d \in DOMAIN duties, NEW requested \in ExtensionInputs,
             CloseDuty(d, requested)
      PROVE  Ledger!Next
  BY <1>1, CloseDutyRecords DEF Ledger!Next, FlownEntries
<1>2. ASSUME NEW c \in Crew, NEW in \in RestInputs, CreateRest(c, in)
      PROVE  Ledger!Next
  BY <1>2, CreateRestRecords DEF Ledger!Next, RestedEntries
<1>3. CASE events' = events
  <2>1. /\ \A i \in Closures : FlownAt(i)' = FlownAt(i)
        /\ \A i \in Completions : RestedAt(i)' = RestedAt(i)
    BY <1>3, EntriesStay
  <2>2. Closures' = Closures /\ Completions' = Completions
    BY <1>3 DEF Closures, Completions
  <2>3. FlownEntries' = FlownEntries /\ RestedEntries' = RestedEntries
    BY <2>1, <2>2 DEF FlownEntries, RestedEntries
  <2> QED
    BY <2>3 DEF Ledger!entries, FlownEntries, RestedEntries
<1>4. ASSUME NEW c \in Crew, CreateTrip(c) PROVE events' = events
  BY <1>4 DEF CreateTrip
<1>5. ASSUME NEW t \in DOMAIN trips, NEW in \in SegmentInputs, AddSegment(t, in)
      PROVE  events' = events
  BY <1>5 DEF AddSegment
<1>6. ASSUME NEW t \in DOMAIN trips, CreateDutyForTrip(t) PROVE events' = events
  BY <1>6 DEF CreateDutyForTrip
<1>7. CASE UNCHANGED vars
  BY <1>3, <1>7 DEF vars
<1> QED
  BY <1>1, <1>2, <1>3, <1>4, <1>5, <1>6, <1>7 DEF Next

(* Read back from the log, the service is a ledger: every transaction adds *)
(* one whole duty or one rest, or nothing, and never touches an entry.     *)
THEOREM ImplementsLedger == Spec => LedgerImplemented
<1>1. Init => EndsWithWholeFact
  BY DEF Init, EndsWithWholeFact
<1>2. Init => Ledger!Init
  BY DEF Init, Ledger!Init, Closures, Completions
<1> QED
  BY <1>1, <1>2, LastEvent, StepRecords, TypeCorrect, TypedIsWellFormed,
     EveryClosureLoggedOnce, EveryRestLogged, DutiesStayAsCreated, PTL DEF Spec, LedgerImplemented, Ledger!Spec

-----------------------------------------------------------------------------
(* Rebuilding, as a function of the log alone *)

Counts(e, c, k, asOf) ==
  /\ e.crew = c
  /\ IF k = "168h"
       THEN /\ e.kind = "DUTY_CLOSED"
            /\ RebuiltReport(e) > asOf - WindowTicks[k] /\ RebuiltReport(e) <= asOf
       ELSE /\ e.kind = "SEGMENT_LANDED"
            /\ e.ts >= asOf - WindowTicks[k] /\ e.ts <= asOf
Amount(e, k) == IF k = "168h" THEN Minutes(e.ts - RebuiltReport(e)) ELSE e.block

Counted(log, c, k, asOf) == {i \in DOMAIN log : Counts(log[i], c, k, asOf)}
Amounts(log, k) == [i \in DOMAIN log |-> Amount(log[i], k)]
Total(log, c, k, asOf) == SumFunctionOnSet(Amounts(log, k), Counted(log, c, k, asOf))

(* Minutes undoes Ticks. *)
LEMMA MinutesOfTicks == \A n \in Int : Minutes(Ticks(n)) = n
<1> SUFFICES ASSUME NEW n \in Int PROVE (n * TicksPerMin) \div TicksPerMin = n
  BY DEF Minutes, Ticks
<1>1. TicksPerMin \in Nat /\ TicksPerMin > 0
  BY ParametersAssumption
<1> QED
  BY <1>1

(* The events that count have an amount. *)
LEMMA AmountsAreIntegers ==
  ASSUME NEW e \in LogEvent, NEW c, NEW k, NEW asOf, Counts(e, c, k, asOf)
  PROVE  Amount(e, k) \in Int
<1>1. CASE k = "168h"
  <2>1. e.kind = "DUTY_CLOSED"
    BY <1>1 DEF Counts
  <2>2. e.ts \in Int /\ e.fdp \in Int
    BY <2>1 DEF LogEvent, ScheduleEvent, ComplianceEvent, SegmentLandedEvent, DutyClosedEvent,
                UnforeseenEvent, RestCompletedEvent
  <2>3. RebuiltReport(e) \in Int
    BY <2>2, ConversionTypes DEF RebuiltReport
  <2>4. Minutes(e.ts - RebuiltReport(e)) \in Int
    BY <2>2, <2>3, ConversionTypes
  <2> QED
    BY <1>1, <2>4 DEF Amount
<1>2. CASE k # "168h"
  <2>1. e.kind = "SEGMENT_LANDED"
    BY <1>2 DEF Counts
  <2>2. e.block \in Int
    BY <2>1 DEF LogEvent, ScheduleEvent, ComplianceEvent, SegmentLandedEvent, DutyClosedEvent,
                UnforeseenEvent, RestCompletedEvent
  <2> QED
    BY <1>2, <2>2 DEF Amount
<1> QED
  BY <1>1, <1>2

LEMMA CountedFacts ==
  ASSUME NEW log \in Seq(LogEvent), NEW c, NEW k, NEW asOf
  PROVE  /\ IsFiniteSet(Counted(log, c, k, asOf))
         /\ Counted(log, c, k, asOf) \subseteq DOMAIN log
         /\ \A i \in Counted(log, c, k, asOf) :
              Amounts(log, k)[i] = Amount(log[i], k) /\ Amounts(log, k)[i] \in Int
<1>1. DOMAIN log = 1..Len(log) /\ Len(log) \in Nat /\ \A i \in DOMAIN log : log[i] \in LogEvent
  BY Rows
<1>2. Counted(log, c, k, asOf) \subseteq DOMAIN log
  BY DEF Counted
<1>3. IsFiniteSet(Counted(log, c, k, asOf))
  <2>1. IsFiniteSet(1..Len(log))
    BY <1>1, FS_Interval
  <2>2. Counted(log, c, k, asOf) \subseteq 1..Len(log)
    BY <1>1, <1>2
  <2> QED
    BY <2>1, <2>2, FS_Subset
<1>4. ASSUME NEW i \in Counted(log, c, k, asOf)
      PROVE  Amounts(log, k)[i] = Amount(log[i], k) /\ Amounts(log, k)[i] \in Int
  <2>1. i \in DOMAIN log /\ Counts(log[i], c, k, asOf) /\ log[i] \in LogEvent
    BY <1>1 DEF Counted
  <2>2. Amount(log[i], k) \in Int
    BY <2>1, AmountsAreIntegers
  <2> QED
    BY <2>1, <2>2 DEF Amounts
<1> QED
  BY <1>2, <1>3, <1>4

LEMMA TotalIsInteger ==
  ASSUME NEW log \in Seq(LogEvent), NEW c, NEW k, NEW asOf
  PROVE  Total(log, c, k, asOf) \in Int
BY CountedFacts, SumOfIntegers DEF Total

(* Appending to the log never lowers a total, as long as what is appended  *)
(* has no negative amount; what does not count leaves it as it was.        *)
LEMMA TotalGrows ==
  ASSUME NEW old \in Seq(LogEvent), NEW new \in Seq(LogEvent), NEW c, NEW k, NEW asOf,
         DOMAIN old \subseteq DOMAIN new, \A i \in DOMAIN old : new[i] = old[i],
         \A i \in DOMAIN new \ DOMAIN old :
           Counts(new[i], c, k, asOf) => Amount(new[i], k) >= 0
  PROVE  /\ Total(old, c, k, asOf) <= Total(new, c, k, asOf)
         /\ (\A i \in DOMAIN new \ DOMAIN old : ~Counts(new[i], c, k, asOf))
              => Total(new, c, k, asOf) = Total(old, c, k, asOf)
<1> DEFINE S == Counted(new, c, k, asOf)
           T == Counted(old, c, k, asOf)
           f == Amounts(new, k)
           g == Amounts(old, k)
<1>1. IsFiniteSet(S) /\ \A i \in S : f[i] = Amount(new[i], k) /\ f[i] \in Int
  BY CountedFacts
<1>2. IsFiniteSet(T) /\ \A i \in T : g[i] = Amount(old[i], k) /\ g[i] \in Int
  BY CountedFacts
<1>3. T = {i \in S : i \in DOMAIN old}
  BY DEF Counted
<1>4. \A i \in T : f[i] = g[i]
  BY <1>1, <1>2, <1>3
<1>5. \A i \in S \ T : f[i] >= 0
  <2> SUFFICES ASSUME NEW i \in S \ T PROVE f[i] >= 0
    OBVIOUS
  <2>1. i \in DOMAIN new \ DOMAIN old /\ Counts(new[i], c, k, asOf)
    BY <1>3 DEF Counted
  <2> QED
    BY <1>1, <2>1
<1>6. ASSUME \A i \in DOMAIN new \ DOMAIN old : ~Counts(new[i], c, k, asOf) PROVE S = T
  BY <1>3, <1>6 DEF Counted
<1>7. Total(new, c, k, asOf) = SumFunctionOnSet(f, S)
      /\ Total(old, c, k, asOf) = SumFunctionOnSet(g, T)
  BY DEF Total
<1> HIDE DEF S, T, f, g
<1>8. SumFunctionOnSet(f, T) = SumFunctionOnSet(g, T)
  BY <1>2, <1>4, SumSameTerms
<1>9. SumFunctionOnSet(f, T) <= SumFunctionOnSet(f, S)
  BY <1>1, <1>3, <1>5, SumMonotonic
<1>10. ASSUME \A i \in DOMAIN new \ DOMAIN old : ~Counts(new[i], c, k, asOf)
       PROVE  SumFunctionOnSet(f, S) = SumFunctionOnSet(f, T)
  BY <1>6, <1>10, Zenon
<1> QED
  BY <1>7, <1>8, <1>9, <1>10

(* The model's rebuild is this total of the log, before and after a step.  *)
LEMMA RebuiltIsTotal ==
  ASSUME NEW c, NEW k \in Windows, NEW asOf
  PROVE  /\ events \in Seq(LogEvent) => Rebuilt(c, k, asOf) = Total(events, c, k, asOf)
         /\ events' \in Seq(LogEvent) => Rebuilt(c, k, asOf)' = Total(events', c, k, asOf)
<1> DEFINE Of(log) ==
             IF k = "168h"
               THEN SumFunction([i \in Counted(log, c, k, asOf) |->
                                   Minutes(log[i].ts - RebuiltReport(log[i]))])
               ELSE SumFunction([i \in Counted(log, c, k, asOf) |-> log[i].block])
<1>1. Rebuilt(c, k, asOf) = Of(events)
  <2>1. k = "168h" => Counted(events, c, k, asOf) = ClosedInWindow(c, asOf, WindowTicks[k])
    BY DEF Counted, Counts, ClosedInWindow, EventsOf
  <2>2. k # "168h" => Counted(events, c, k, asOf) = LandedInWindow(c, asOf, WindowTicks[k])
    BY DEF Counted, Counts, LandedInWindow, EventsOf
  <2> QED
    BY <2>1, <2>2, Zenon DEF Rebuilt
<1>2. Rebuilt(c, k, asOf)' = Of(events')
  <2>1. k = "168h" => Counted(events', c, k, asOf) = ClosedInWindow(c, asOf, WindowTicks[k])'
    BY DEF Counted, Counts, ClosedInWindow, EventsOf
  <2>2. k # "168h" => Counted(events', c, k, asOf) = LandedInWindow(c, asOf, WindowTicks[k])'
    BY DEF Counted, Counts, LandedInWindow, EventsOf
  <2> QED
    BY <2>1, <2>2, Zenon DEF Rebuilt
<1>3. ASSUME NEW log \in Seq(LogEvent) PROVE Of(log) = Total(log, c, k, asOf)
  <2> DEFINE S == Counted(log, c, k, asOf)
             g == [i \in S |-> Amount(log[i], k)]
             f == Amounts(log, k)
  <2>1. Of(log) = SumFunctionOnSet(g, S)
    <3>1. Of(log) = SumFunction(g)
      BY Zenon DEF Amount
    <3>2. DOMAIN g = S
      OBVIOUS
    <3> HIDE DEF g, Of, S
    <3> QED
      BY <3>1, <3>2, Zenon DEF SumFunction
  <2>2. IsFiniteSet(S) /\ \A i \in S : f[i] = Amount(log[i], k) /\ f[i] \in Int
    BY CountedFacts
  <2>3. \A i \in S : g[i] = f[i]
    BY <2>2
  <2>4. Total(log, c, k, asOf) = SumFunctionOnSet(f, S)
    BY DEF Total
  <2> HIDE DEF Of, S, f, g
  <2> QED
    BY <2>1, <2>2, <2>3, <2>4, SumSameTerms
<1> HIDE DEF Of
<1> QED
  BY <1>1, <1>2, <1>3

-----------------------------------------------------------------------------
(* Type correctness *)

(* With overrides in it the log is well formed for the schedule's lemmas. *)
LEMMA ReplayWellFormed ==
  ASSUME ReplayTypeOK
  PROVE  WellFormed
<1>1. OverrideEvent \subseteq ComplianceEvent
  BY DEF OverrideEvent, ComplianceEvent, Windows
<1>2. Seq(ScheduleEvent \cup OverrideEvent) \subseteq Seq(LogEvent)
  BY <1>1, SeqMonotonic DEF LogEvent
<1> QED
  BY <1>2 DEF ReplayTypeOK, WellFormed

(* What a replay relies on, whatever else is in the log. *)
Replayable ==
  /\ WellFormed
  /\ DOMAIN snapshots = Crew
  /\ \A c \in Crew : \A k \in Windows :
       Cardinality(snapshots[c][k]) <= 1 /\ snapshots[c][k] \subseteq SnapshotRow

LEMMA TypedIsReplayable == ReplayTypeOK => Replayable
BY ReplayWellFormed DEF ReplayTypeOK, Replayable

(* A snapshot cell is empty or holds one row, whose value is what is stored. *)
LEMMA StoredIsInteger ==
  ASSUME Replayable, NEW c \in Crew, NEW k \in Windows
  PROVE  Stored(c, k) \in Int
<1>1. snapshots[c][k] \subseteq SnapshotRow
  BY DEF Replayable
<1>2. CASE snapshots[c][k] = {}
  BY <1>2 DEF Stored
<1>3. CASE snapshots[c][k] # {}
  <2>1. PICK row : row = (CHOOSE r \in snapshots[c][k] : TRUE) /\ row \in snapshots[c][k]
    BY <1>3
  <2>2. row.min \in Int
    BY <1>1, <2>1 DEF SnapshotRow
  <2> QED
    BY <1>3, <2>1, <2>2 DEF Stored
<1> QED
  BY <1>2, <1>3

LEMMA RebuiltIsInteger ==
  ASSUME WellFormed, NEW c, NEW k \in Windows, NEW asOf
  PROVE  Rebuilt(c, k, asOf) \in Int
BY RebuiltIsTotal, TotalIsInteger DEF WellFormed

LEMMA OverrideType ==
  ASSUME Replayable, NEW c \in Crew, NEW k \in Windows, NEW asOf \in Int
  PROVE  Override(c, k, asOf) \in OverrideEvent
BY StoredIsInteger, RebuiltIsInteger DEF Override, OverrideEvent, Replayable

(* The orders in which a set may be gone through reach all of it, each     *)
(* element once.                                                           *)
LEMMA Orders ==
  ASSUME NEW S, IsFiniteSet(S), NEW order \in SetToSeqs(S)
  PROVE  /\ Cardinality(S) \in Nat /\ DOMAIN order = 1..Cardinality(S)
         /\ \A j \in DOMAIN order : order[j] \in S
         /\ \A j, l \in DOMAIN order : order[j] = order[l] => j = l
         /\ \A k \in S : \E j \in DOMAIN order : order[j] = k
<1> DEFINE n == Cardinality(S)
<1>1. n \in Nat /\ IsFiniteSet(1..n) /\ Cardinality(1..n) = n
  <2>1. n \in Nat
    BY FS_CardinalityType
  <2> HIDE DEF n
  <2>2. IsFiniteSet(1..n) /\ Cardinality(1..n) = IF 1 > n THEN 0 ELSE n - 1 + 1
    BY <2>1, FS_Interval
  <2> QED
    BY <2>1, <2>2
<1>2. order \in [1..n -> S] /\ \A j, l \in 1..n : j # l => order[j] # order[l]
  BY DEF SetToSeqs
<1> HIDE DEF n
<1>3. order \in Injection(1..n, S)
  BY <1>2 DEF Injection, IsInjective
<1>4. order \in Surjection(1..n, S)
  BY <1>1, <1>3, FS_Injection DEF n
<1>5. \A k \in S : \E j \in 1..n : order[j] = k
  BY <1>4 DEF Surjection
<1> QED
  BY <1>1, <1>2, <1>5 DEF n

LEMMA DisagreeingIsFinite ==
  ASSUME NEW c, NEW asOf
  PROVE  Disagreeing(c, asOf) \subseteq Windows /\ IsFiniteSet(Disagreeing(c, asOf))
<1>1. IsFiniteSet({"28d"}) /\ IsFiniteSet({"168h"}) /\ IsFiniteSet({"365d"})
  BY FS_Singleton
<1>2. IsFiniteSet(({"28d"} \cup {"168h"}) \cup {"365d"})
  BY <1>1, FS_Union
<1>3. Disagreeing(c, asOf) \subseteq ({"28d"} \cup {"168h"}) \cup {"365d"}
  BY DEF Disagreeing, Windows
<1>4. IsFiniteSet(Disagreeing(c, asOf))
  BY <1>2, <1>3, FS_Subset
<1> QED
  BY <1>4 DEF Disagreeing

(* A replay leaves the log in place, of length m, and appends an override  *)
(* for each of the n windows that disagree, in some order.                 *)
Overrides(c, asOf, m, n, order) ==
  /\ order \in [1..n -> Disagreeing(c, asOf)]
  /\ \A j, l \in 1..n : order[j] = order[l] => j = l
  /\ \A k \in Disagreeing(c, asOf) : \E j \in 1..n : order[j] = k
  /\ DOMAIN events = 1..m /\ DOMAIN events' = 1..(m + n)
  /\ \A i \in 1..m : events'[i] = events[i]
  /\ \A j \in 1..n : events'[m + j] = Override(c, order[j], asOf)

LEMMA ReplayAppendsTo ==
  ASSUME Replayable, NEW c \in Crew, NEW asOf \in ReplayAsOfs, ReplayForCrew(c, asOf),
         NEW T, OverrideEvent \subseteq T, events \in Seq(T)
  PROVE  /\ \E m \in Nat, n \in Nat : \E order : Overrides(c, asOf, m, n, order)
         /\ events' \in Seq(T)
<1> DEFINE D == Disagreeing(c, asOf)
<1>1. PICK order \in SetToSeqs(D) :
        events' = events \o [i \in DOMAIN order |-> Override(c, order[i], asOf)]
  BY DEF ReplayForCrew
<1> DEFINE new == [i \in DOMAIN order |-> Override(c, order[i], asOf)]
           n == Cardinality(D)
<1> DEFINE m == Len(events)
<1>2. D \subseteq Windows /\ IsFiniteSet(D)
  BY DisagreeingIsFinite
<1> HIDE DEF D
<1>3. /\ n \in Nat /\ DOMAIN order = 1..n
      /\ \A j \in 1..n : order[j] \in D
      /\ \A j, l \in 1..n : order[j] = order[l] => j = l
      /\ \A k \in D : \E j \in 1..n : order[j] = k
  <2>1. /\ n \in Nat /\ DOMAIN order = 1..n
        /\ \A j \in DOMAIN order : order[j] \in D
        /\ \A j, l \in DOMAIN order : order[j] = order[l] => j = l
        /\ \A k \in D : \E j \in DOMAIN order : order[j] = k
    BY <1>2, Orders
  <2> QED
    BY <2>1, Zenon
<1> HIDE DEF n
<1>4. \A j \in 1..n : Override(c, order[j], asOf) \in T
  <2> SUFFICES ASSUME NEW j \in 1..n PROVE Override(c, order[j], asOf) \in OverrideEvent
    OBVIOUS
  <2>1. order[j] \in Windows
    BY <1>2, <1>3
  <2>2. asOf \in Int
    BY AsOfsAssumption
  <2> QED
    BY <2>1, <2>2, OverrideType
<1>5. new \in Seq(T) /\ Len(new) = n /\ \A j \in 1..n : new[j] = Override(c, order[j], asOf)
  BY <1>3, <1>4
<1>6. events \in Seq(T)
  OBVIOUS
<1>7. /\ DOMAIN events = 1..m /\ m \in Nat
      /\ DOMAIN (events \o new) = 1..(m + Len(new))
      /\ \A i \in 1..m : (events \o new)[i] = events[i]
      /\ \A j \in 1..Len(new) : (events \o new)[m + j] = new[j]
  BY <1>5, <1>6, TwoParts
<1> HIDE DEF m
<1>8. events \o new \in Seq(T)
  BY <1>5, <1>6
<1> HIDE DEF new
<1>9. events' = events \o new
  BY <1>1 DEF new
<1>10. /\ DOMAIN events' = 1..(m + n) /\ events' \in Seq(T)
       /\ \A i \in 1..m : events'[i] = events[i]
       /\ \A j \in 1..n : events'[m + j] = Override(c, order[j], asOf)
  BY <1>5, <1>7, <1>8, <1>9
<1>11. order \in [1..n -> D]
  <2>1. order \in [1..n -> D]
    BY <1>1 DEF SetToSeqs, n
  <2> QED
    BY <2>1
<1> QED
  <2>1. Overrides(c, asOf, m, n, order)
    BY <1>3, <1>7, <1>10, <1>11, Zenon DEF D, Overrides
  <2> QED
    BY <1>3, <1>7, <1>10, <2>1

LEMMA OverridesAreLogged == OverrideEvent \subseteq LogEvent
BY DEF OverrideEvent, ComplianceEvent, LogEvent, Windows

LEMMA ReplayAppends ==
  ASSUME Replayable, NEW c \in Crew, NEW asOf \in ReplayAsOfs, ReplayForCrew(c, asOf)
  PROVE  \E m \in Nat, n \in Nat : \E order : Overrides(c, asOf, m, n, order)
BY OverridesAreLogged, ReplayAppendsTo DEF Replayable, WellFormed

-----------------------------------------------------------------------------
(* Landings and the flights that closed duties link *)

(* The landings in the log and the links of closed duties correspond one   *)
(* to one: each landing is the flight of its link.                         *)
LandedEvents == {i \in DOMAIN events : events[i].kind = "SEGMENT_LANDED"}
LandingOf(l) == SegmentLanded(duties[l[1]], duties[l[1]].segs[l[2]])
Corresponds(b, L, K) ==
  /\ b \in [L -> K]
  /\ \A i, j \in L : b[i] = b[j] => i = j
  /\ \A l \in K : \E i \in L : b[i] = l
LandingsLinked ==
  \E b : /\ Corresponds(b, LandedEvents, Links)
         /\ \A i \in LandedEvents : events[i] = LandingOf(b[i])

(* What a link is. *)
LEMMA LinkFacts ==
  ASSUME WellFormed
  PROVE  /\ \A l \in Links : /\ l = <<l[1], l[2]>> /\ l[1] \in DOMAIN duties
                             /\ Closed(l[1]) /\ l[2] \in DOMAIN duties[l[1]].segs
                             /\ duties[l[1]].segs[l[2]] \in DOMAIN segments
         /\ \A d \in DOMAIN duties : \A i \in DOMAIN duties[d].segs :
              Closed(d) => <<d, i>> \in Links
<1>1. ASSUME NEW l \in Links
      PROVE  /\ l = <<l[1], l[2]>> /\ l[1] \in DOMAIN duties
             /\ Closed(l[1]) /\ l[2] \in DOMAIN duties[l[1]].segs
             /\ duties[l[1]].segs[l[2]] \in DOMAIN segments
  <2>1. PICK d \in DOMAIN duties : Closed(d) /\ l \in {d} \X DOMAIN duties[d].segs
    BY DEF Links
  <2>2. l = <<l[1], l[2]>> /\ l[1] = d /\ l[2] \in DOMAIN duties[d].segs
    BY <2>1
  <2>3. duties[d].segs \in Seq(DOMAIN segments)
    BY TableRows DEF DutyType
  <2>4. duties[d].segs[l[2]] \in DOMAIN segments
    BY <2>2, <2>3, Rows
  <2> QED
    BY <2>1, <2>2, <2>4
<1>2. ASSUME NEW d \in DOMAIN duties, NEW i \in DOMAIN duties[d].segs, Closed(d)
      PROVE  <<d, i>> \in Links
  BY <1>2 DEF Links
<1> QED
  BY <1>1, <1>2

(* A step that lands nothing and closes nothing keeps the correspondence. *)
LEMMA LandingsStay ==
  ASSUME WellFormed, LandingsLinked,
         \A i \in DOMAIN events : i \in DOMAIN events' /\ events'[i] = events[i],
         \A i \in DOMAIN events' \ DOMAIN events : events'[i].kind # "SEGMENT_LANDED",
         \A s \in DOMAIN segments : segments'[s] = segments[s],
         \A d \in DOMAIN duties : d \in DOMAIN duties' /\ duties'[d] = duties[d],
         \A d \in DOMAIN duties' \ DOMAIN duties : duties'[d].status = "OPEN"
  PROVE  LandingsLinked'
<1>1. LandedEvents' = LandedEvents
  BY DEF LandedEvents
<1>2. Links' = Links
  <2>1. {d \in DOMAIN duties' : Closed(d)'} = {d \in DOMAIN duties : Closed(d)}
    BY DEF Closed
  <2>2. \A d \in {d \in DOMAIN duties : Closed(d)} :
          {d} \X DOMAIN duties'[d].segs = {d} \X DOMAIN duties[d].segs
    OBVIOUS
  <2> QED
    BY <2>1, <2>2 DEF Links
<1>3. ASSUME NEW l \in Links PROVE LandingOf(l)' = LandingOf(l)
  <2>1. l[1] \in DOMAIN duties /\ duties[l[1]].segs[l[2]] \in DOMAIN segments
    BY LinkFacts
  <2> QED
    BY <2>1 DEF LandingOf, SegmentLanded
<1>4. PICK b : /\ Corresponds(b, LandedEvents, Links)
               /\ \A i \in LandedEvents : events[i] = LandingOf(b[i])
  BY DEF LandingsLinked
<1>5. \A i \in LandedEvents : events'[i] = LandingOf(b[i])'
  <2> SUFFICES ASSUME NEW i \in LandedEvents PROVE events'[i] = LandingOf(b[i])'
    OBVIOUS
  <2>1. i \in DOMAIN events /\ b[i] \in Links
    BY <1>4 DEF LandedEvents, Corresponds
  <2>2. events'[i] = events[i] /\ LandingOf(b[i])' = LandingOf(b[i])
    BY <1>3, <2>1
  <2> QED
    BY <1>4, <2>2
<1> QED
  BY <1>1, <1>2, <1>4, <1>5 DEF LandingsLinked

(* A correspondence between L and K extends to n positions after those of  *)
(* L and n links of another duty.                                          *)
WithPositions(L, m, n) == L \cup {m + k : k \in 1..n}
WithLinks(K, d, n) == K \cup {<<d, k>> : k \in 1..n}
Extends(h, b, L, K, m, n, d) ==
  /\ Corresponds(h, WithPositions(L, m, n), WithLinks(K, d, n))
  /\ \A i \in L : h[i] = b[i]
  /\ \A k \in 1..n : h[m + k] = <<d, k>>
LEMMA ExtendCorrespondence ==
  ASSUME NEW m \in Nat, NEW n \in Nat, NEW L, L \subseteq 1..m, NEW d,
         NEW K, \A l \in K : l[1] # d, NEW b, Corresponds(b, L, K)
  PROVE  \E h : Extends(h, b, L, K, m, n, d)
<1> DEFINE L2 == WithPositions(L, m, n)
           K2 == WithLinks(K, d, n)
<1>0. /\ L2 = L \cup {m + k : k \in 1..n} /\ K2 = K \cup {<<d, k>> : k \in 1..n}
      /\ b \in [L -> K] /\ \A i, j \in L : b[i] = b[j] => i = j
      /\ \A l \in K : \E i \in L : b[i] = l
  BY DEF WithPositions, WithLinks, Corresponds
<1> HIDE DEF L2, K2
<1> DEFINE h == [i \in L2 |-> IF i \in L THEN b[i] ELSE <<d, i - m>>]
<1>1. \A i \in L : h[i] = b[i] /\ b[i] \in K
  BY <1>0
<1>2. \A k \in 1..n : m + k \in L2 /\ m + k \notin L /\ h[m + k] = <<d, k>>
  <2> SUFFICES ASSUME NEW k \in 1..n
               PROVE  m + k \in L2 /\ m + k \notin L /\ h[m + k] = <<d, k>>
    OBVIOUS
  <2>1. m + k \in L2 /\ m + k \notin L /\ (m + k) - m = k
    BY <1>0
  <2>2. h[m + k] = <<d, (m + k) - m>>
    BY <2>1
  <2> HIDE DEF h
  <2> QED
    BY <2>1, <2>2
<1>3. \A i \in L2 : i \in L \/ \E k \in 1..n : i = m + k
  BY <1>0
<1>4. DOMAIN h = L2 /\ h = [i \in L2 |-> h[i]]
  OBVIOUS
<1> HIDE DEF h
<1>5. h \in [L2 -> K2]
  <2>1. ASSUME NEW i \in L2 PROVE h[i] \in K2
    <3>1. CASE i \in L
      BY <1>0, <1>1, <3>1
    <3>2. CASE i \notin L
      <4>1. PICK k \in 1..n : i = m + k
        BY <1>3, <3>2
      <4> QED
        BY <1>0, <1>2, <4>1
    <3> QED
      BY <3>1, <3>2
  <2> QED
    BY <1>4, <2>1
<1>6. ASSUME NEW i \in L2, NEW j \in L2, h[i] = h[j] PROVE i = j
  <2>1. CASE i \in L /\ j \in L
    BY <1>0, <1>1, <1>6, <2>1
  <2>2. CASE i \in L /\ j \notin L
    <3>1. PICK k \in 1..n : j = m + k
      BY <1>3, <2>2
    <3>2. h[i][1] # d /\ h[j][1] = d
      BY <1>1, <1>2, <2>2, <3>1
    <3> QED
      BY <1>6, <3>2
  <2>3. CASE i \notin L /\ j \in L
    <3>1. PICK k \in 1..n : i = m + k
      BY <1>3, <2>3
    <3>2. h[j][1] # d /\ h[i][1] = d
      BY <1>1, <1>2, <2>3, <3>1
    <3> QED
      BY <1>6, <3>2
  <2>4. CASE i \notin L /\ j \notin L
    <3>1. PICK k \in 1..n : i = m + k
      BY <1>3, <2>4
    <3>2. PICK l \in 1..n : j = m + l
      BY <1>3, <2>4
    <3>3. h[i] = <<d, k>> /\ h[j] = <<d, l>>
      BY <1>2, <3>1, <3>2
    <3> QED
      BY <1>6, <3>1, <3>2, <3>3
  <2> QED
    BY <2>1, <2>2, <2>3, <2>4
<1>7. ASSUME NEW l \in K2 PROVE \E i \in L2 : h[i] = l
  <2>1. CASE l \in K
    BY <1>0, <1>1, <2>1
  <2>2. CASE l \notin K
    BY <1>0, <1>2, <2>2
  <2> QED
    BY <2>1, <2>2
<1> QED
  BY <1>1, <1>2, <1>5, <1>6, <1>7 DEF Extends, Corresponds, L2, K2

(* Closing duty d lands its n links at the n positions after the log of    *)
(* length m,                                                               *)
LEMMA CloseDutyLandings ==
  ASSUME WellFormed, NEW d \in DOMAIN duties, NEW requested \in ExtensionInputs,
         CloseDuty(d, requested)
  PROVE  \E n \in Nat, m \in Nat :
           /\ n = Len(duties[d].segs)
           /\ LandedEvents \subseteq 1..m
           /\ LandedEvents' = WithPositions(LandedEvents, m, n)
           /\ \A i \in LandedEvents : events'[i] = events[i]
           /\ \A k \in 1..n : events'[m + k] = SegmentLanded(duties[d], duties[d].segs[k])
<1>1. PICK ext \in Int, n \in Nat, m \in Nat :
        /\ ext = CappedExtension(requested) /\ n = Len(duties[d].segs) /\ m = Len(events)
        /\ Appends(d, ext, n, m)
  BY CloseDutyLog
<1>2. DOMAIN events = 1..m
  BY <1>1 DEF Appends
<1>3. \A i \in 1..m : events'[i] = events[i]
  BY <1>1 DEF Appends
<1>4. \A k \in 1..n : events'[m + k] = SegmentLanded(duties[d], duties[d].segs[k])
  BY <1>1 DEF Appends
<1>5. events'[m + n + 1] = DutyClosed(d, ext)
  BY <1>1 DEF Appends
<1>6. ext > 0 => events'[m + n + 2] = UnforeseenExtension(d, ext)
  BY <1>1 DEF Appends
<1>7. 1..(m + n + 1) \subseteq DOMAIN events'
  BY <1>1 DEF Appends
<1>8. ASSUME NEW k \in 1..n
      PROVE  m + k \in DOMAIN events' /\ events'[m + k].kind = "SEGMENT_LANDED"
  <2>1. m + k \in 1..(m + n + 1)
    BY <1>1
  <2> QED
    BY <1>4, <1>7, <2>1, EventFields
<1>9. ASSUME NEW i \in DOMAIN events' \ DOMAIN events, events'[i].kind = "SEGMENT_LANDED"
      PROVE  i \in {m + k : k \in 1..n}
  <2>1. \A j \in DOMAIN events' \ DOMAIN events :
          \/ j - m \in 1..n /\ j = m + (j - m)
          \/ j = m + n + 1
          \/ ext > 0 /\ j = m + n + 2
    BY <1>1 DEF Appends
  <2>2. i # m + n + 1
    BY <1>5, <1>9, EventFields
  <2>3. ~(ext > 0 /\ i = m + n + 2)
    BY <1>6, <1>9, EventFields
  <2> QED
    BY <2>1, <2>2, <2>3
<1>10. \A i \in DOMAIN events : i \in DOMAIN events' /\ events'[i] = events[i]
  BY <1>2, <1>3, <1>7
<1>11. LandedEvents' = WithPositions(LandedEvents, m, n)
  BY <1>8, <1>9, <1>10 DEF LandedEvents, WithPositions
<1>12. LandedEvents \subseteq 1..m /\ \A i \in LandedEvents : events'[i] = events[i]
  BY <1>2, <1>3 DEF LandedEvents
<1> QED
  BY <1>1, <1>2, <1>4, <1>11, <1>12

(* which correspond to the links that become those of a closed duty.       *)
LEMMA CloseDutyLinks ==
  ASSUME WellFormed, NEW d \in DOMAIN duties, NEW requested \in ExtensionInputs,
         CloseDuty(d, requested), NEW n \in Nat, n = Len(duties[d].segs)
  PROVE  /\ Links' = WithLinks(Links, d, n)
         /\ \A l \in Links : l[1] # d /\ LandingOf(l)' = LandingOf(l)
         /\ \A k \in 1..n :
              LandingOf(<<d, k>>)' = SegmentLanded(duties[d], duties[d].segs[k])
<1>1. /\ DOMAIN duties' = DOMAIN duties
      /\ \A e \in DOMAIN duties \ {d} : duties'[e] = duties[e]
      /\ ~Closed(d) /\ Closed(d)'
      /\ duties'[d].crew = duties[d].crew /\ duties'[d].trip = duties[d].trip
      /\ duties'[d].segs = duties[d].segs
      /\ segments' = segments
  BY CloseDutyRow DEF Closed, CloseDuty
<1>2. DOMAIN duties[d].segs = 1..n
  <2>1. duties[d].segs \in Seq(DOMAIN segments)
    BY TableRows DEF DutyType
  <2> QED
    BY <2>1, Rows
<1>3. \A e \in DOMAIN duties \ {d} : Closed(e)' <=> Closed(e)
  BY <1>1 DEF Closed
<1>4. \A e \in DOMAIN duties : duties'[e].segs = duties[e].segs
  BY <1>1
<1>5. ASSUME NEW l \in Links' PROVE l \in Links \cup {<<d, k>> : k \in 1..n}
  <2>1. PICK e \in DOMAIN duties' : Closed(e)' /\ l \in {e} \X DOMAIN duties'[e].segs
    BY <1>5 DEF Links
  <2>2. e \in DOMAIN duties /\ l \in {e} \X DOMAIN duties[e].segs
    BY <1>1, <1>4, <2>1
  <2>3. CASE e = d
    <3>1. PICK k \in 1..n : l = <<d, k>>
      BY <1>2, <2>2, <2>3
    <3> QED
      BY <3>1
  <2>4. CASE e # d
    <3>1. Closed(e)
      BY <1>3, <2>1, <2>2, <2>4
    <3> QED
      BY <2>2, <3>1 DEF Links
  <2> QED
    BY <2>3, <2>4
<1>6. ASSUME NEW l \in Links PROVE l \in Links'
  <2>1. PICK e \in DOMAIN duties : Closed(e) /\ l \in {e} \X DOMAIN duties[e].segs
    BY <1>6 DEF Links
  <2>2. e \in DOMAIN duties' /\ Closed(e)' /\ duties'[e].segs = duties[e].segs
    BY <1>1, <1>3, <1>4, <2>1
  <2> QED
    BY <2>1, <2>2 DEF Links
<1>7. ASSUME NEW k \in 1..n PROVE <<d, k>> \in Links'
  <2>1. d \in DOMAIN duties' /\ Closed(d)' /\ k \in DOMAIN duties'[d].segs
    BY <1>1, <1>2
  <2>2. <<d, k>> \in {d} \X DOMAIN duties'[d].segs
    BY <2>1
  <2> QED
    BY <2>1, <2>2 DEF Links
<1>8. Links' = WithLinks(Links, d, n)
  BY <1>5, <1>6, <1>7 DEF WithLinks
<1>9. \A l \in Links : l[1] # d /\ l[1] \in DOMAIN duties
  BY <1>1, LinkFacts
<1>10. \A l \in Links : LandingOf(l)' = LandingOf(l)
  BY <1>1, <1>9 DEF LandingOf, SegmentLanded
<1>11. \A k \in 1..n : LandingOf(<<d, k>>)' = SegmentLanded(duties[d], duties[d].segs[k])
  BY <1>1 DEF LandingOf, SegmentLanded
<1> QED
  BY <1>8, <1>9, <1>10, <1>11

LEMMA CloseDutyKeepsLandings ==
  ASSUME WellFormed, LandingsLinked, NEW d \in DOMAIN duties,
         NEW requested \in ExtensionInputs, CloseDuty(d, requested)
  PROVE  LandingsLinked'
<1>1. PICK n \in Nat, m \in Nat :
        /\ n = Len(duties[d].segs)
        /\ LandedEvents \subseteq 1..m
        /\ LandedEvents' = WithPositions(LandedEvents, m, n)
        /\ \A i \in LandedEvents : events'[i] = events[i]
        /\ \A k \in 1..n : events'[m + k] = SegmentLanded(duties[d], duties[d].segs[k])
  BY CloseDutyLandings
<1>2. /\ LandedEvents \subseteq 1..m
      /\ LandedEvents' = WithPositions(LandedEvents, m, n)
      /\ \A i \in LandedEvents : events'[i] = events[i]
      /\ \A k \in 1..n : events'[m + k] = SegmentLanded(duties[d], duties[d].segs[k])
  BY <1>1, Zenon
<1>3. /\ Links' = WithLinks(Links, d, n)
      /\ \A l \in Links : l[1] # d /\ LandingOf(l)' = LandingOf(l)
      /\ \A k \in 1..n :
           LandingOf(<<d, k>>)' = SegmentLanded(duties[d], duties[d].segs[k])
  BY <1>1, CloseDutyLinks, Zenon
<1>4. PICK b : /\ Corresponds(b, LandedEvents, Links)
               /\ \A i \in LandedEvents : events[i] = LandingOf(b[i])
  BY DEF LandingsLinked
<1>5. PICK h : /\ Corresponds(h, LandedEvents', Links')
               /\ \A i \in LandedEvents : h[i] = b[i]
               /\ \A k \in 1..n : h[m + k] = <<d, k>>
  <2>1. LandedEvents \subseteq 1..m /\ \A l \in Links : l[1] # d
    BY <1>2, <1>3
  <2>2. PICK h : Extends(h, b, LandedEvents, Links, m, n, d)
    BY <1>4, <2>1, ExtendCorrespondence
  <2>3. WithPositions(LandedEvents, m, n) = LandedEvents' /\ WithLinks(Links, d, n) = Links'
    BY <1>2, <1>3
  <2> QED
    BY <2>2, <2>3, Zenon DEF Extends
<1>6. ASSUME NEW i \in LandedEvents PROVE events'[i] = LandingOf(h[i])'
  <2>1. b[i] \in Links /\ h[i] = b[i] /\ events'[i] = LandingOf(b[i])
    BY <1>2, <1>4, <1>5 DEF Corresponds
  <2>2. LandingOf(b[i])' = LandingOf(b[i])
    BY <1>3, <2>1
  <2> QED
    BY <2>1, <2>2
<1>7. ASSUME NEW k \in 1..n PROVE events'[m + k] = LandingOf(h[m + k])'
  <2>1. h[m + k] = <<d, k>>
    BY <1>5
  <2>2. LandingOf(<<d, k>>)' = SegmentLanded(duties[d], duties[d].segs[k])
    BY <1>3
  <2> QED
    BY <1>2, <2>1, <2>2
<1>8. \A i \in LandedEvents' : events'[i] = LandingOf(h[i])'
  BY <1>2, <1>6, <1>7 DEF WithPositions
<1> QED
  BY <1>5, <1>8 DEF LandingsLinked

-----------------------------------------------------------------------------
(* Steps *)

(* A step of the composed system is one of the schedule service, which     *)
(* leaves the snapshots alone, or a replay.                                *)
LEMMA ReplayNextCases ==
  ASSUME [ReplayNext]_allvars
  PROVE  \/ [Next]_vars /\ UNCHANGED snapshots
         \/ \E c \in Crew, asOf \in ReplayAsOfs : ReplayForCrew(c, asOf)
BY DEF ReplayNext, ScheduleStep, Stop, Start, allvars

LEMMA UpIsBoolean == ReplayTypeOK /\ [ReplayNext]_allvars => up' \in BOOLEAN
BY DEF ReplayTypeOK, ReplayNext, ScheduleStep, ReplayForCrew, Stop, Start, allvars

(* The row a replay leaves in each snapshot.                               *)
LEMMA ReplaySnapshots ==
  ASSUME Replayable, NEW c \in Crew, NEW asOf \in ReplayAsOfs, ReplayForCrew(c, asOf)
  PROVE  /\ DOMAIN snapshots' = Crew
         /\ \A e \in Crew \ {c} : snapshots'[e] = snapshots[e]
         /\ \A k \in Disagreeing(c, asOf) :
              snapshots'[c][k] = {[asOf |-> asOf, min |-> Rebuilt(c, k, asOf)]}
         /\ \A k \in Windows \ Disagreeing(c, asOf) : snapshots'[c][k] = snapshots[c][k]
<1> DEFINE D == Disagreeing(c, asOf)
           row(k) == {[asOf |-> asOf, min |-> Rebuilt(c, k, asOf)]}
<1>1. snapshots' = [snapshots EXCEPT ![c] = [k \in Windows |->
                      IF k \in D THEN row(k) ELSE snapshots[c][k]]]
  BY DEF ReplayForCrew
<1>2. DOMAIN snapshots = Crew
  BY DEF Replayable
<1>3. D \subseteq Windows
  BY DEF Disagreeing
<1> HIDE DEF D, row
<1>4. /\ DOMAIN snapshots' = Crew
      /\ \A e \in Crew \ {c} : snapshots'[e] = snapshots[e]
      /\ \A k \in Windows : snapshots'[c][k] = IF k \in D THEN row(k) ELSE snapshots[c][k]
  BY <1>1, <1>2
<1> QED
  BY <1>3, <1>4, Zenon DEF D, row

(* After a replay what is stored for the crew member is what was rebuilt.  *)
LEMMA ReplayStores ==
  ASSUME Replayable, NEW c \in Crew, NEW asOf \in ReplayAsOfs, ReplayForCrew(c, asOf)
  PROVE  /\ \A e \in Crew \ {c} : \A k \in Windows : Stored(e, k)' = Stored(e, k)
         /\ \A k \in Windows : Stored(c, k)' = Rebuilt(c, k, asOf)
<1>1. ASSUME NEW e \in Crew \ {c}, NEW k \in Windows PROVE Stored(e, k)' = Stored(e, k)
  <2>1. snapshots'[e] = snapshots[e]
    BY ReplaySnapshots
  <2> QED
    BY <2>1 DEF Stored
<1>2. ASSUME NEW k \in Disagreeing(c, asOf) PROVE Stored(c, k)' = Rebuilt(c, k, asOf)
  <2>1. PICK n : n = Rebuilt(c, k, asOf)
    OBVIOUS
  <2>2. snapshots'[c][k] = {[asOf |-> asOf, min |-> n]}
    BY <2>1, ReplaySnapshots
  <2>3. PICK row : row = [asOf |-> asOf, min |-> n]
    OBVIOUS
  <2>4. snapshots'[c][k] = {row} /\ row.min = n
    BY <2>2, <2>3
  <2>5. (CHOOSE r \in {row} : TRUE) = row
    OBVIOUS
  <2> QED
    BY <2>1, <2>4, <2>5 DEF Stored
<1>3. ASSUME NEW k \in Windows \ Disagreeing(c, asOf)
      PROVE  Stored(c, k)' = Rebuilt(c, k, asOf)
  <2>1. snapshots'[c][k] = snapshots[c][k]
    BY ReplaySnapshots
  <2>2. Stored(c, k) = Rebuilt(c, k, asOf)
    BY DEF Disagreeing
  <2> QED
    BY <2>1, <2>2 DEF Stored
<1> QED
  BY <1>1, <1>2, <1>3

(* A replay leaves the tables and the log it found.                        *)
LEMMA ReplayKeepsLog ==
  ASSUME Replayable, NEW c \in Crew, NEW asOf \in ReplayAsOfs, ReplayForCrew(c, asOf)
  PROVE  /\ \A i \in DOMAIN events : i \in DOMAIN events' /\ events'[i] = events[i]
         /\ \A i \in DOMAIN events' \ DOMAIN events :
              /\ events'[i].kind = "REPLAY_OVERRIDE" /\ events'[i].crew = c
              /\ events'[i].window \in Disagreeing(c, asOf)
         /\ UNCHANGED tables
<1>0. PICK m \in Nat, n \in Nat : \E order : Overrides(c, asOf, m, n, order)
  BY ReplayAppends
<1>1. PICK order : Overrides(c, asOf, m, n, order)
  BY <1>0
<1>2. /\ order \in [1..n -> Disagreeing(c, asOf)]
      /\ DOMAIN events = 1..m /\ DOMAIN events' = 1..(m + n)
      /\ \A i \in 1..m : events'[i] = events[i]
      /\ \A j \in 1..n : events'[m + j] = Override(c, order[j], asOf)
  BY <1>1, Zenon DEF Overrides
<1>3. \A i \in DOMAIN events : i \in DOMAIN events' /\ events'[i] = events[i]
  BY <1>2
<1>4. ASSUME NEW i \in DOMAIN events' \ DOMAIN events
      PROVE  /\ events'[i].kind = "REPLAY_OVERRIDE" /\ events'[i].crew = c
             /\ events'[i].window \in Disagreeing(c, asOf)
  <2>1. PICK j \in 1..n : i = m + j
    <3>1. i - m \in 1..n /\ i = m + (i - m)
      BY <1>2
    <3> QED
      BY <3>1
  <2>2. events'[i] = Override(c, order[j], asOf) /\ order[j] \in Disagreeing(c, asOf)
    BY <1>2, <2>1
  <2> QED
    BY <2>2 DEF Override
<1>5. UNCHANGED tables
  BY DEF ReplayForCrew
<1> QED
  BY <1>2, <1>3, <1>4, <1>5

LEMMA ReplaySnapshotTypes ==
  ASSUME Replayable, NEW c \in Crew, NEW asOf \in ReplayAsOfs, ReplayForCrew(c, asOf),
         NEW e \in Crew, NEW k \in Windows
  PROVE  Cardinality(snapshots'[e][k]) <= 1 /\ snapshots'[e][k] \subseteq SnapshotRow
<1>1. CASE e = c /\ k \in Disagreeing(c, asOf)
  <2>1. PICK row : row = [asOf |-> asOf, min |-> Rebuilt(c, k, asOf)]
    OBVIOUS
  <2>2. snapshots'[c][k] = {row}
    BY <1>1, <2>1, ReplaySnapshots
  <2>3. row \in SnapshotRow
    BY <2>1, RebuiltIsInteger, AsOfsAssumption DEF SnapshotRow, Replayable
  <2>4. Cardinality({row}) = 1
    BY FS_Singleton
  <2> QED
    BY <1>1, <2>2, <2>3, <2>4
<1>2. CASE ~(e = c /\ k \in Disagreeing(c, asOf))
  <2>1. snapshots'[e][k] = snapshots[e][k]
    BY <1>2, ReplaySnapshots
  <2> QED
    BY <2>1 DEF Replayable
<1> QED
  BY <1>1, <1>2

LEMMA ReplayStepTypeOK == ReplayTypeOK /\ [ReplayNext]_allvars => ReplayTypeOK'
<1> SUFFICES ASSUME ReplayTypeOK, [ReplayNext]_allvars PROVE ReplayTypeOK'
  OBVIOUS
<1>1. WellFormed /\ Replayable /\ up' \in BOOLEAN
  BY ReplayWellFormed, TypedIsReplayable, UpIsBoolean
<1>2. CASE [Next]_vars /\ UNCHANGED snapshots
  <2>1. TablesOK' /\ Appended
    BY <1>1, <1>2, StepTypes
  <2>2. PICK new \in Seq(ScheduleEvent) : events' = events \o new
    BY <2>1 DEF Appended
  <2>3. new \in Seq(ScheduleEvent \cup OverrideEvent)
    BY <2>2, SeqMonotonic
  <2>4. events' \in Seq(ScheduleEvent \cup OverrideEvent)
    BY <2>2, <2>3 DEF ReplayTypeOK
  <2>5. (ScheduleEvent \cup OverrideEvent)' = ScheduleEvent \cup OverrideEvent
    BY DEF ScheduleEvent, OverrideEvent, SegmentLandedEvent, DutyClosedEvent,
           UnforeseenEvent, RestCompletedEvent
  <2>6. /\ DOMAIN snapshots' = Crew
        /\ \A c \in Crew : \A k \in Windows :
             Cardinality(snapshots'[c][k]) <= 1 /\ snapshots'[c][k] \subseteq SnapshotRow
    BY <1>2 DEF ReplayTypeOK
  <2> QED
    BY <1>1, <2>1, <2>4, <2>5, <2>6 DEF ReplayTypeOK
<1>3. ASSUME NEW c \in Crew, NEW asOf \in ReplayAsOfs, ReplayForCrew(c, asOf)
      PROVE  ReplayTypeOK'
  <2>1. UNCHANGED tables /\ events' \in Seq(ScheduleEvent \cup OverrideEvent)
    BY <1>1, <1>3, ReplayKeepsLog, ReplayAppendsTo DEF ReplayTypeOK
  <2>2. TablesOK'
    BY <1>1, <2>1 DEF WellFormed, TablesOK, tables, TripType, SegmentType, DutyType, RestType
  <2>3. (ScheduleEvent \cup OverrideEvent)' = ScheduleEvent \cup OverrideEvent
    BY DEF ScheduleEvent, OverrideEvent, SegmentLandedEvent, DutyClosedEvent,
           UnforeseenEvent, RestCompletedEvent
  <2>4. DOMAIN snapshots' = Crew
    BY <1>1, <1>3, ReplaySnapshots
  <2>5. \A e \in Crew : \A k \in Windows :
          Cardinality(snapshots'[e][k]) <= 1 /\ snapshots'[e][k] \subseteq SnapshotRow
    BY <1>1, <1>3, ReplaySnapshotTypes
  <2> QED
    BY <1>1, <2>1, <2>2, <2>3, <2>4, <2>5 DEF ReplayTypeOK
<1> QED
  BY <1>2, <1>3, ReplayNextCases

LEMMA ReplayInitTypeOK == ReplayInit => ReplayTypeOK
<1> SUFFICES ASSUME ReplayInit PROVE ReplayTypeOK
  OBVIOUS
<1>1. TypeOK
  BY InitTypeOK DEF ReplayInit
<1>2. events \in Seq(ScheduleEvent \cup OverrideEvent)
  BY DEF ReplayInit, Init
<1>3. Cardinality({}) = 0
  BY FS_EmptySet
<1>4. \A c \in Crew : \A k \in Windows : snapshots[c][k] = {}
  BY DEF ReplayInit
<1>5. \A c \in Crew : \A k \in Windows :
        Cardinality(snapshots[c][k]) <= 1 /\ snapshots[c][k] \subseteq SnapshotRow
  BY <1>3, <1>4
<1> QED
  BY <1>1, <1>2, <1>5 DEF ReplayInit, ReplayTypeOK, TypeOK

(* Whatever closes, replays and restarts there are, the tables and the log *)
(* stay well formed and a crew member has at most one snapshot row for     *)
(* each window.                                                            *)
THEOREM ReplayTypeCorrect == ReplaySpec => []ReplayTypeOK
BY ReplayInitTypeOK, ReplayStepTypeOK, PTL DEF ReplaySpec

-----------------------------------------------------------------------------
(* The log explains the snapshots *)

(* What OverridesExplainSnapshots says of one window: own are the places   *)
(* of its overrides, and value is what is stored.                          *)
Explains(log, own, value) ==
  /\ value = IF own = {} THEN 0 ELSE log[Max(own)].rebuilt
  /\ \A i \in own : log[i].stored = IF Earlier(own, i) = {} THEN 0
                                    ELSE log[Max(Earlier(own, i))].rebuilt

LEMMA ExplainedIsExplains ==
  OverridesExplainSnapshots <=>
    \A c \in Crew : \A k \in Windows : Explains(events, OverridesOf(c, k), Stored(c, k))
BY DEF OverridesExplainSnapshots, Explains

(* The greatest element of a nonempty set of positions.                    *)
LEMMA Greatest ==
  ASSUME NEW m \in Nat, NEW S, S \subseteq 1..m, S # {}
  PROVE  Max(S) \in S /\ \A y \in S : Max(S) >= y
<1> DEFINE T == {n \in Nat : \A y \in S : n >= y}
<1>1. m \in T
  OBVIOUS
<1>2. PICK n \in T : \A l \in T : n <= l
  <2>1. T \subseteq Nat /\ T # {}
    BY <1>1
  <2> HIDE DEF T
  <2> QED
    BY <2>1, LeastNumber
<1>3. n \in S
  <2> SUFFICES ASSUME n \notin S PROVE FALSE
    OBVIOUS
  <2>1. PICK y \in S : y \in 1..m
    OBVIOUS
  <2>2. n \in Nat /\ \A z \in S : z \in Int /\ n >= z /\ n # z
    BY <1>2
  <2>3. n - 1 \in Nat
    BY <2>1, <2>2
  <2>4. \A z \in S : n - 1 >= z
    BY <2>2
  <2>5. n - 1 \in T
    BY <2>3, <2>4
  <2>6. n <= n - 1
    BY <1>2, <2>5
  <2> QED
    BY <2>2, <2>6
<1>4. n \in S /\ \A y \in S : n >= y
  BY <1>2, <1>3
<1> HIDE DEF T
<1> QED
  BY <1>4, Zenon DEF Max

LEMMA GreatestIs ==
  ASSUME NEW m \in Nat, NEW S, S \subseteq 1..m, NEW x \in S, \A y \in S : x >= y
  PROVE  Max(S) = x
<1>1. PICK n : n = Max(S)
  OBVIOUS
<1>2. n \in S /\ n >= x
  BY <1>1, Greatest
<1>3. x >= n /\ x \in Int /\ n \in Int
  BY <1>2
<1> QED
  BY <1>1, <1>2, <1>3

(* A longer log explains as much,                                          *)
LEMMA StillExplains ==
  ASSUME NEW log, NEW new, NEW m \in Nat, NEW own, own \subseteq 1..m,
         \A i \in own : new[i] = log[i], NEW value, Explains(log, own, value)
  PROVE  Explains(new, own, value)
<1>1. own # {} => new[Max(own)] = log[Max(own)]
  BY Greatest
<1>2. ASSUME NEW i \in own, Earlier(own, i) # {}
      PROVE  new[Max(Earlier(own, i))] = log[Max(Earlier(own, i))]
  <2>1. Earlier(own, i) \subseteq own /\ Earlier(own, i) \subseteq 1..m
    BY DEF Earlier
  <2>2. Max(Earlier(own, i)) \in own
    BY <1>2, <2>1, Greatest
  <2> QED
    BY <2>2
<1> QED
  BY <1>1, <1>2, Zenon DEF Explains

(* and explains the next value if an override that starts from the one     *)
(* before is added.                                                        *)
LEMMA NextExplains ==
  ASSUME NEW log, NEW new, NEW m \in Nat, NEW own, own \subseteq 1..m,
         \A i \in own : new[i] = log[i], NEW value, Explains(log, own, value),
         NEW j \in Nat \ {0}, new[m + j].stored = value
  PROVE  Explains(new, own \cup {m + j}, new[m + j].rebuilt)
<1>1. PICK p : p = m + j
  OBVIOUS
<1> DEFINE all == own \cup {p}
<1>2. p \in Nat /\ all \subseteq 1..p /\ \A y \in own : p > y
  BY <1>1
<1>3. Max(all) = p
  <2>1. p \in all /\ \A y \in all : p >= y
    BY <1>2
  <2> HIDE DEF all
  <2> QED
    BY <1>2, <2>1, GreatestIs
<1>4. Explains(new, own, value)
  BY StillExplains
<1>5. \A i \in own : Earlier(all, i) = Earlier(own, i)
  BY <1>2 DEF Earlier
<1>6. Earlier(all, p) = own
  <2>1. ~(p < p) /\ \A y \in own : y < p
    BY <1>2
  <2>2. \A y \in all : y < p <=> y \in own
    BY <2>1
  <2> QED
    BY <2>2 DEF Earlier
<1>7. new[p].stored = IF own = {} THEN 0 ELSE new[Max(own)].rebuilt
  BY <1>1, <1>4 DEF Explains
<1>8. ASSUME NEW i \in all
      PROVE  new[i].stored = IF Earlier(all, i) = {} THEN 0
                             ELSE new[Max(Earlier(all, i))].rebuilt
  <2>1. CASE i = p
    BY <1>6, <1>7, <2>1, Zenon
  <2>2. CASE i \in own
    BY <1>4, <1>5, <2>2, Zenon DEF Explains
  <2> QED
    BY <2>1, <2>2
<1>9. all # {}
  OBVIOUS
<1>10. Explains(new, all, new[p].rebuilt)
  BY <1>3, <1>8, <1>9, Zenon DEF Explains
<1> QED
  BY <1>1, <1>10

(* The places of the overrides of a window.                                *)
LEMMA OverridesPlaces ==
  ASSUME WellFormed, NEW c, NEW k
  PROVE  \A i \in OverridesOf(c, k) : i \in DOMAIN events /\ i \in 1..Len(events)
<1>1. DOMAIN events = 1..Len(events)
  BY Rows DEF WellFormed
<1> QED
  BY <1>1 DEF OverridesOf, EventsOf

LEMMA OverridesStay ==
  ASSUME \A i \in DOMAIN events : i \in DOMAIN events' /\ events'[i] = events[i],
         NEW c, NEW k,
         \A i \in DOMAIN events' \ DOMAIN events :
           ~(events'[i].kind = "REPLAY_OVERRIDE" /\ events'[i].crew = c /\ events'[i].window = k)
  PROVE  OverridesOf(c, k)' = OverridesOf(c, k)
BY DEF OverridesOf, EventsOf

(* The service writes neither overrides nor snapshots.                     *)
LEMMA ScheduleExplains ==
  ASSUME ReplayTypeOK, OverridesExplainSnapshots, [Next]_vars, UNCHANGED snapshots
  PROVE  OverridesExplainSnapshots'
<1>1. \A i \in DOMAIN events : i \in DOMAIN events' /\ events'[i] = events[i]
  BY ReplayWellFormed, StepKeepsHistory
<1>2. \A i \in DOMAIN events' \ DOMAIN events : events'[i].kind # "REPLAY_OVERRIDE"
  <2>1. PICK new \in Seq(ScheduleEvent) : events' = events \o new
    BY ReplayWellFormed, StepTypes DEF Appended
  <2>2. /\ DOMAIN events = 1..Len(events) /\ Len(events) \in Nat
        /\ DOMAIN new = 1..Len(new) /\ Len(new) \in Nat
        /\ \A j \in DOMAIN new : new[j] \in ScheduleEvent
    BY <2>1, Rows DEF ReplayTypeOK
  <2>3. events \in Seq(LogEvent) /\ new \in Seq(LogEvent)
    BY <2>1, ReplayWellFormed, SeqMonotonic DEF WellFormed, LogEvent
  <2>4. /\ DOMAIN events' = 1..(Len(events) + Len(new))
        /\ \A j \in 1..Len(new) : events'[Len(events) + j] = new[j]
    BY <2>1, <2>3, TwoParts
  <2>5. ASSUME NEW i \in DOMAIN events' \ DOMAIN events
        PROVE  events'[i] \in ScheduleEvent
    <3>1. i - Len(events) \in 1..Len(new) /\ i = Len(events) + (i - Len(events))
      BY <2>2, <2>4
    <3> QED
      BY <2>2, <2>4, <3>1
  <2>6. \A e \in ScheduleEvent : e.kind # "REPLAY_OVERRIDE"
    BY DEF ScheduleEvent, SegmentLandedEvent, DutyClosedEvent, UnforeseenEvent, RestCompletedEvent
  <2> QED
    BY <2>5, <2>6
<1>3. ASSUME NEW c \in Crew, NEW k \in Windows
      PROVE  Explains(events, OverridesOf(c, k), Stored(c, k))'
  <2>1. OverridesOf(c, k)' = OverridesOf(c, k)
    BY <1>1, <1>2, OverridesStay
  <2>2. Stored(c, k)' = Stored(c, k)
    BY DEF Stored
  <2>3. PICK own, value : own = OverridesOf(c, k) /\ value = Stored(c, k)
    OBVIOUS
  <2>4. PICK m \in Nat : m = Len(events)
    BY Rows DEF ReplayTypeOK
  <2>5. own \subseteq 1..m /\ \A i \in own : events'[i] = events[i]
    BY <1>1, <2>3, <2>4, ReplayWellFormed, OverridesPlaces
  <2>6. Explains(events, own, value)
    BY <2>3, ExplainedIsExplains
  <2>7. Explains(events', own, value)
    BY <2>5, <2>6, StillExplains
  <2>8. own = OverridesOf(c, k)' /\ value = Stored(c, k)'
    BY <2>1, <2>2, <2>3
  <2> QED
    BY <2>7, <2>8, Zenon DEF Explains
<1>4. \A c \in Crew : \A k \in Windows : Explains(events, OverridesOf(c, k), Stored(c, k))'
  BY <1>3
<1> QED
  BY <1>4 DEF OverridesExplainSnapshots, Explains

(* A replay writes both.                                                   *)
LEMMA ReplayExplains ==
  ASSUME ReplayTypeOK, OverridesExplainSnapshots, NEW c \in Crew, NEW asOf \in ReplayAsOfs,
         ReplayForCrew(c, asOf)
  PROVE  OverridesExplainSnapshots'
<1>1. PICK m \in Nat, n \in Nat : \E order : Overrides(c, asOf, m, n, order)
  BY TypedIsReplayable, ReplayAppends
<1>2. PICK order : Overrides(c, asOf, m, n, order)
  BY <1>1
<1>3. /\ order \in [1..n -> Disagreeing(c, asOf)]
      /\ \A j, l \in 1..n : order[j] = order[l] => j = l
      /\ \A k \in Disagreeing(c, asOf) : \E j \in 1..n : order[j] = k
      /\ DOMAIN events = 1..m /\ DOMAIN events' = 1..(m + n)
      /\ \A i \in 1..m : events'[i] = events[i]
      /\ \A j \in 1..n : events'[m + j] = Override(c, order[j], asOf)
  BY <1>2, Zenon DEF Overrides
<1>4. \A i \in DOMAIN events : i \in DOMAIN events' /\ events'[i] = events[i]
  BY TypedIsReplayable, ReplayKeepsLog
<1>5. ASSUME NEW e \in Crew, NEW k \in Windows
      PROVE  Explains(events', OverridesOf(e, k)', Stored(e, k)')
  <2>1. PICK own, value : own = OverridesOf(e, k) /\ value = Stored(e, k)
    OBVIOUS
  <2>2. own \subseteq 1..m /\ \A i \in own : events'[i] = events[i]
    BY <1>3, <2>1, ReplayWellFormed, OverridesPlaces
  <2>3. Explains(events, own, value)
    BY <2>1, ExplainedIsExplains
  <2>4. CASE e = c /\ k \in Disagreeing(c, asOf)
    <3>1. PICK j \in 1..n : order[j] = k
      BY <1>3, <2>4
    <3>2. j \in Nat \ {0} /\ m + j \in DOMAIN events' \ DOMAIN events
      BY <1>3, <3>1
    <3>3. /\ events'[m + j].kind = "REPLAY_OVERRIDE" /\ events'[m + j].crew = e
          /\ events'[m + j].window = k
          /\ events'[m + j].stored = value /\ events'[m + j].rebuilt = Stored(e, k)'
      <4>1. events'[m + j] = Override(c, k, asOf)
        BY <1>3, <3>1
      <4>2. Stored(c, k)' = Rebuilt(c, k, asOf)
        BY TypedIsReplayable, ReplayStores
      <4> QED
        BY <2>1, <2>4, <4>1, <4>2 DEF Override
    <3>4. ASSUME NEW i \in DOMAIN events' \ DOMAIN events, events'[i].window = k
          PROVE  i = m + j
      <4>1. i - m \in 1..n /\ i = m + (i - m)
        BY <1>3
      <4>2. events'[i] = Override(c, order[i - m], asOf)
        BY <1>3, <4>1, Zenon
      <4>3. order[i - m] = k
        BY <3>4, <4>2 DEF Override
      <4>4. i - m = j
        BY <1>3, <3>1, <4>1, <4>3
      <4> QED
        BY <4>1, <4>4
    <3>5. OverridesOf(e, k)' = own \cup {m + j}
      BY <1>4, <2>1, <3>2, <3>3, <3>4 DEF OverridesOf, EventsOf
    <3>6. Explains(events', own \cup {m + j}, events'[m + j].rebuilt)
      BY <2>2, <2>3, <3>2, <3>3, NextExplains
    <3> QED
      BY <3>3, <3>5, <3>6, Zenon
  <2>5. CASE ~(e = c /\ k \in Disagreeing(c, asOf))
    <3>1. \A i \in DOMAIN events' \ DOMAIN events :
            ~(events'[i].kind = "REPLAY_OVERRIDE" /\ events'[i].crew = e /\ events'[i].window = k)
      BY <2>5, TypedIsReplayable, ReplayKeepsLog
    <3>2. OverridesOf(e, k)' = own
      BY <1>4, <2>1, <3>1, OverridesStay
    <3>3. Stored(e, k)' = value
      <4>1. CASE e = c
        <5>1. Stored(e, k) = Rebuilt(e, k, asOf)
          BY <2>5, <4>1 DEF Disagreeing
        <5> QED
          BY <2>1, <4>1, <5>1, TypedIsReplayable, ReplayStores
      <4>2. CASE e # c
        BY <2>1, <4>2, TypedIsReplayable, ReplayStores
      <4> QED
        BY <4>1, <4>2
    <3>4. Explains(events', own, value)
      BY <2>2, <2>3, StillExplains
    <3> QED
      BY <3>2, <3>3, <3>4, Zenon
  <2> QED
    BY <2>4, <2>5
<1> QED
  BY <1>5 DEF OverridesExplainSnapshots, Explains

(* A stored total is what the latest override for its window rebuilt, and  *)
(* each override starts from the value the one before it left, however     *)
(* closes, replays and restarts interleave (compliance.go:38-88).          *)
THEOREM SnapshotsExplained == ReplaySpec => []OverridesExplainSnapshots
<1>1. ReplayInit => OverridesExplainSnapshots
  <2> SUFFICES ASSUME ReplayInit, NEW c \in Crew, NEW k \in Windows
               PROVE  Explains(events, OverridesOf(c, k), Stored(c, k))
    BY ExplainedIsExplains
  <2>1. snapshots[c][k] = {} /\ events = <<>>
    BY DEF ReplayInit, Init
  <2>2. OverridesOf(c, k) = {} /\ Stored(c, k) = 0
    BY <2>1 DEF OverridesOf, EventsOf, Stored
  <2> QED
    BY <2>2 DEF Explains
<1>2. ReplayTypeOK /\ OverridesExplainSnapshots /\ [ReplayNext]_allvars
        => OverridesExplainSnapshots'
  BY ReplayNextCases, ScheduleExplains, ReplayExplains
<1> QED
  BY <1>1, <1>2, ReplayTypeCorrect, PTL DEF ReplaySpec

(* After a replay there is nothing left to replay at that instant: what is *)
(* stored is what was rebuilt, and the overrides it logged count for       *)
(* nothing themselves (compliance.go:38-88).                               *)
LEMMA ReplaySettles ==
  ASSUME ReplayTypeOK, NEW c \in Crew, NEW asOf \in ReplayAsOfs, ReplayForCrew(c, asOf)
  PROVE  Disagreeing(c, asOf)' = {}
<1>1. events \in Seq(LogEvent)
  BY ReplayWellFormed DEF WellFormed
<1>2. events' \in Seq(LogEvent)
  BY <1>1, OverridesAreLogged, TypedIsReplayable, ReplayAppendsTo
<1>3. ASSUME NEW k \in Windows PROVE Rebuilt(c, k, asOf)' = Rebuilt(c, k, asOf)
  <2>1. /\ DOMAIN events \subseteq DOMAIN events'
        /\ \A i \in DOMAIN events : events'[i] = events[i]
        /\ \A i \in DOMAIN events' \ DOMAIN events : events'[i].kind = "REPLAY_OVERRIDE"
    BY TypedIsReplayable, ReplayKeepsLog
  <2>2. \A i \in DOMAIN events' \ DOMAIN events : ~Counts(events'[i], c, k, asOf)
    BY <2>1 DEF Counts
  <2>3. Total(events', c, k, asOf) = Total(events, c, k, asOf)
    BY <1>1, <1>2, <2>1, <2>2, TotalGrows
  <2> QED
    BY <1>1, <1>2, <2>3, RebuiltIsTotal
<1>4. \A k \in Windows : Stored(c, k)' = Rebuilt(c, k, asOf)'
  BY <1>3, TypedIsReplayable, ReplayStores
<1> QED
  BY <1>4 DEF Disagreeing

(* One replay is enough: right after it the stored totals of its crew      *)
(* member are what the log rebuilds at that instant, the overrides it has  *)
(* just appended included (ReplayForCrew, compliance.go:38-88).            *)
THEOREM ReplayAlwaysConverges == ReplaySpec => ReplayConverges
<1>1. ReplayTypeOK => [\A c \in Crew, asOf \in ReplayAsOfs :
                         ReplayForCrew(c, asOf) => Disagreeing(c, asOf)' = {}]_allvars
  BY ReplaySettles
<1> QED
  BY <1>1, ReplayTypeCorrect, PTL DEF ReplaySpec, ReplayConverges

-----------------------------------------------------------------------------
(* Segments as they were requested *)

SegmentsAsRequested ==
  \A s \in DOMAIN segments : \E in \in SegmentInputs :
    /\ in.arr > in.dep /\ in.block >= 0
    /\ segments[s].dep = in.dep /\ segments[s].arr = in.arr
    /\ segments[s].block = BlockOf(in)

LEMMA StepSegments ==
  ASSUME WellFormed, SegmentsAsRequested, [Next]_vars
  PROVE  SegmentsAsRequested'
<1>1. CASE UNCHANGED segments
  BY <1>1 DEF SegmentsAsRequested
<1>2. ASSUME NEW t \in DOMAIN trips, NEW in \in SegmentInputs, AddSegment(t, in)
      PROVE  SegmentsAsRequested'
  <2> DEFINE row == [trip |-> t, dep |-> in.dep, arr |-> in.arr, block |-> BlockOf(in)]
  <2>1. /\ segments' = Append(segments, row) /\ in.arr > in.dep /\ in.block >= 0
        /\ row.dep = in.dep /\ row.arr = in.arr /\ row.block = BlockOf(in)
    BY <1>2 DEF AddSegment
  <2> HIDE DEF row
  <2>2. \A s \in DOMAIN segments' :
          (s \in DOMAIN segments /\ segments'[s] = segments[s]) \/ segments'[s] = row
    BY <2>1 DEF WellFormed, TablesOK
  <2> QED
    BY <2>1, <2>2 DEF SegmentsAsRequested
<1>3. CASE UNCHANGED vars
  BY <1>1, <1>3 DEF vars
<1>4. CASE \E c \in Crew : CreateTrip(c)
  BY <1>1, <1>4 DEF CreateTrip
<1>5. CASE \E t \in DOMAIN trips : CreateDutyForTrip(t)
  BY <1>1, <1>5 DEF CreateDutyForTrip
<1>6. CASE \E d \in DOMAIN duties, requested \in ExtensionInputs : CloseDuty(d, requested)
  BY <1>1, <1>6 DEF CloseDuty
<1>7. CASE \E c \in Crew, in \in RestInputs : CreateRest(c, in)
  BY <1>1, <1>7 DEF CreateRest
<1> QED
  BY <1>2, <1>3, <1>4, <1>5, <1>6, <1>7 DEF Next

LEMMA MinutesNonNegative == \A n \in Nat : Minutes(n) \in Nat
<1> SUFFICES ASSUME NEW n \in Nat PROVE n \div TicksPerMin \in Nat
  BY DEF Minutes
<1>1. TicksPerMin \in Nat /\ TicksPerMin > 0
  BY ParametersAssumption
<1> QED
  BY <1>1

(* so no block time is negative.                                           *)
LEMMA BlocksNonNegative ==
  ASSUME SegmentsAsRequested, NEW s \in DOMAIN segments
  PROVE  segments[s].block \in Nat
<1>1. PICK in \in SegmentInputs : /\ in.arr > in.dep /\ in.block >= 0
                                  /\ segments[s].block = BlockOf(in)
  BY DEF SegmentsAsRequested
<1>2. in.arr \in Int /\ in.dep \in Int /\ in.block \in Int
  BY InputsAssumption
<1>3. in.arr - in.dep \in Nat
  BY <1>1, <1>2
<1> QED
  BY <1>1, <1>2, <1>3, MinutesNonNegative DEF BlockOf

-----------------------------------------------------------------------------
(* The tables agree with the log *)

(* The totals rebuilt from the log are those of the tables because each    *)
(* closed duty has its one closure, each of its flights its one landing,   *)
(* and both tell what the rows tell.                                       *)
TablesLogged ==
  /\ ClosureLoggedOnce
  /\ LandingsLinked
  /\ DutiesAsCreated
  /\ SegmentsAsRequested

LEMMA ScheduleTablesLogged ==
  ASSUME WellFormed, TablesLogged, [Next]_vars
  PROVE  TablesLogged'
<1>1. DutiesAsCreated' /\ SegmentsAsRequested'
  BY StepDutiesAsCreated, StepSegments DEF TablesLogged
<1>2. CASE \E d \in DOMAIN duties, requested \in ExtensionInputs : CloseDuty(d, requested)
  <2>1. PICK d \in DOMAIN duties, requested \in ExtensionInputs : CloseDuty(d, requested)
    BY <1>2
  <2>2. ClosureLoggedOnce' /\ LandingsLinked'
    BY <2>1, CloseDutyClosureLogged, CloseDutyKeepsLandings DEF TablesLogged
  <2> QED
    BY <1>1, <2>2 DEF TablesLogged
<1>3. CASE ~ \E d \in DOMAIN duties, requested \in ExtensionInputs : CloseDuty(d, requested)
  <2>1. ClosureLoggedOnce'
    BY <1>3, OtherStepsClosureLogged DEF TablesLogged
  <2>2. /\ \A i \in DOMAIN events : i \in DOMAIN events' /\ events'[i] = events[i]
        /\ \A i \in DOMAIN events' \ DOMAIN events : events'[i].kind = "REST_COMPLETED"
        /\ \A d \in DOMAIN duties : d \in DOMAIN duties' /\ duties'[d] = duties[d]
        /\ \A d \in DOMAIN duties' \ DOMAIN duties : duties'[d].status = "OPEN"
    BY <1>3, OtherStepsAppend
  <2>3. \A s \in DOMAIN segments : segments'[s] = segments[s]
    BY RowsKept
  <2>4. LandingsLinked'
    BY <2>2, <2>3, LandingsStay DEF TablesLogged
  <2> QED
    BY <1>1, <2>1, <2>4 DEF TablesLogged
<1> QED
  BY <1>2, <1>3

LEMMA ReplayTablesLogged ==
  ASSUME ReplayTypeOK, TablesLogged, NEW c \in Crew, NEW asOf \in ReplayAsOfs,
         ReplayForCrew(c, asOf)
  PROVE  TablesLogged'
<1>1. /\ \A i \in DOMAIN events : i \in DOMAIN events' /\ events'[i] = events[i]
      /\ \A i \in DOMAIN events' \ DOMAIN events : events'[i].kind = "REPLAY_OVERRIDE"
      /\ UNCHANGED <<trips, segments, duties>>
  BY TypedIsReplayable, ReplayKeepsLog DEF tables
<1>2. ClosureLoggedOnce'
  BY <1>1, ClosuresStay DEF TablesLogged
<1>3. LandingsLinked'
  BY <1>1, ReplayWellFormed, LandingsStay DEF TablesLogged
<1>4. DutiesAsCreated' /\ SegmentsAsRequested'
  BY <1>1 DEF TablesLogged, DutiesAsCreated, FliesForward, Follows, SegmentsOf,
              SegmentsAsRequested
<1> QED
  BY <1>2, <1>3, <1>4 DEF TablesLogged

LEMMA InitTablesLogged == ReplayInit => TablesLogged
<1> SUFFICES ASSUME ReplayInit PROVE TablesLogged
  OBVIOUS
<1>1. events = <<>> /\ duties = <<>> /\ segments = <<>>
  BY DEF ReplayInit, Init
<1>2. ClosureLoggedOnce /\ DutiesAsCreated /\ SegmentsAsRequested
  BY <1>1 DEF ClosureLoggedOnce, DutiesAsCreated, FliesForward, SegmentsAsRequested
<1>3. LandedEvents = {} /\ Links = {}
  BY <1>1 DEF LandedEvents, Links
<1>4. Corresponds([i \in {} |-> i], LandedEvents, Links)
  BY <1>3 DEF Corresponds
<1>5. LandingsLinked
  BY <1>3, <1>4 DEF LandingsLinked
<1> QED
  BY <1>2, <1>5 DEF TablesLogged

LEMMA TablesAlwaysLogged == ReplaySpec => []TablesLogged
<1>1. ReplayTypeOK /\ TablesLogged /\ [ReplayNext]_allvars => TablesLogged'
  BY ReplayNextCases, ReplayWellFormed, ScheduleTablesLogged, ReplayTablesLogged
<1> QED
  BY <1>1, InitTablesLogged, ReplayTypeCorrect, PTL DEF ReplaySpec

-----------------------------------------------------------------------------
(* Totals only grow *)

(* What is logged is never negative.                                       *)
AmountsLogged ==
  \A i \in DOMAIN events :
    /\ events[i].kind = "DUTY_CLOSED" => events[i].fdp \in Nat
    /\ events[i].kind = "SEGMENT_LANDED" => events[i].block \in Nat

LEMMA LoggedAmounts ==
  ASSUME WellFormed, TablesLogged
  PROVE  AmountsLogged
<1>1. ASSUME NEW i \in DOMAIN events, events[i].kind = "DUTY_CLOSED" PROVE events[i].fdp \in Nat
  <2>1. PICK d \in DOMAIN duties : events[i] = DutyClosed(d, duties[d].ext)
    BY <1>1 DEF TablesLogged, ClosureLoggedOnce
  <2>2. duties[d].release > duties[d].report
        /\ duties[d].release \in Int /\ duties[d].report \in Int
    BY TableRows DEF TablesLogged, DutiesAsCreated, Follows, DutyType
  <2>3. duties[d].release - duties[d].report \in Nat
    BY <2>2
  <2>4. FDPMin(duties[d]) \in Nat
    BY <2>3, MinutesNonNegative DEF FDPMin
  <2> QED
    BY <2>1, <2>4 DEF DutyClosed
<1>2. ASSUME NEW i \in DOMAIN events, events[i].kind = "SEGMENT_LANDED"
      PROVE  events[i].block \in Nat
  <2>1. PICK b : /\ Corresponds(b, LandedEvents, Links)
                 /\ \A j \in LandedEvents : events[j] = LandingOf(b[j])
    BY DEF TablesLogged, LandingsLinked
  <2>2. PICK l \in Links : events[i] = LandingOf(l)
    BY <1>2, <2>1 DEF LandedEvents, Corresponds
  <2>3. duties[l[1]].segs[l[2]] \in DOMAIN segments
    BY LinkFacts
  <2>4. segments[duties[l[1]].segs[l[2]]].block \in Nat
    BY <2>3, BlocksNonNegative DEF TablesLogged
  <2> QED
    BY <2>2, <2>4 DEF LandingOf, SegmentLanded
<1> QED
  BY <1>1, <1>2 DEF AmountsLogged

(* so what counts has an amount that is not negative either.               *)
LEMMA CountedAmounts ==
  ASSUME WellFormed, AmountsLogged, NEW i \in DOMAIN events, NEW c, NEW k, NEW asOf,
         Counts(events[i], c, k, asOf)
  PROVE  Amount(events[i], k) >= 0
<1>1. events[i] \in LogEvent
  BY TableRows
<1>2. CASE k = "168h"
  <2>1. events[i].kind = "DUTY_CLOSED" /\ events[i].fdp \in Nat
    BY <1>2 DEF Counts, AmountsLogged
  <2>2. events[i].ts \in Int
    BY <1>1, <2>1 DEF LogEvent, ScheduleEvent, ComplianceEvent, SegmentLandedEvent,
                      DutyClosedEvent, UnforeseenEvent, RestCompletedEvent
  <2>3. Ticks(events[i].fdp) \in Int /\ Minutes(Ticks(events[i].fdp)) = events[i].fdp
    BY <2>1, ConversionTypes, MinutesOfTicks
  <2>4. events[i].ts - RebuiltReport(events[i]) = Ticks(events[i].fdp)
    BY <2>2, <2>3 DEF RebuiltReport
  <2> QED
    BY <1>2, <2>1, <2>3, <2>4 DEF Amount
<1>3. CASE k # "168h"
  BY <1>3 DEF Counts, AmountsLogged, Amount
<1> QED
  BY <1>2, <1>3

AmountsCounted ==
  \A i \in DOMAIN events : \A c \in Crew, asOf \in AsOfs : \A k \in Windows :
    Counts(events[i], c, k, asOf) => Amount(events[i], k) >= 0

(* The windows are nested: what counts in 28 days counts in a year.        *)
MonthWithinYear ==
  \A c \in Crew, asOf \in AsOfs : Rebuilt(c, "28d", asOf) <= Rebuilt(c, "365d", asOf)

LEMMA NestedWindows == WellFormed /\ AmountsCounted => MonthWithinYear
<1> SUFFICES ASSUME WellFormed, AmountsCounted, NEW c \in Crew, NEW asOf \in AsOfs
             PROVE  Rebuilt(c, "28d", asOf) <= Rebuilt(c, "365d", asOf)
  BY DEF MonthWithinYear
<1> DEFINE S == Counted(events, c, "365d", asOf)
           T == Counted(events, c, "28d", asOf)
           f == Amounts(events, "365d")
<1>1. "28d" \in Windows /\ "365d" \in Windows /\ "28d" # "168h" /\ "365d" # "168h"
  BY DEF Windows
<1>2. events \in Seq(LogEvent)
  BY DEF WellFormed
<1>3. /\ Rebuilt(c, "28d", asOf) = SumFunctionOnSet(Amounts(events, "28d"), T)
      /\ Rebuilt(c, "365d", asOf) = SumFunctionOnSet(f, S)
  BY <1>1, <1>2, RebuiltIsTotal DEF Total
<1>4. Amounts(events, "28d") = f
  BY <1>1 DEF Amounts, Amount
<1>5. T \subseteq S
  <2>1. WindowTicks["28d"] = Ticks(28 * 24 * 60) /\ WindowTicks["365d"] = Ticks(365 * 24 * 60)
    BY DEF WindowTicks, Windows
  <2>2. Ticks(28 * 24 * 60) <= Ticks(365 * 24 * 60)
        /\ Ticks(28 * 24 * 60) \in Int /\ Ticks(365 * 24 * 60) \in Int
    BY ParametersAssumption DEF Ticks
  <2> SUFFICES ASSUME NEW i \in T PROVE i \in S
    OBVIOUS
  <2>3. i \in DOMAIN events /\ Counts(events[i], c, "28d", asOf) /\ events[i] \in LogEvent
    BY TableRows DEF Counted
  <2>4. /\ events[i].crew = c /\ events[i].kind = "SEGMENT_LANDED"
        /\ events[i].ts >= asOf - WindowTicks["28d"] /\ events[i].ts <= asOf
    BY <1>1, <2>3 DEF Counts
  <2>5. events[i].ts \in Int /\ asOf \in Int
    BY <2>3, <2>4, AsOfsAssumption
       DEF LogEvent, ScheduleEvent, ComplianceEvent, SegmentLandedEvent, DutyClosedEvent,
           UnforeseenEvent, RestCompletedEvent
  <2>6. events[i].ts >= asOf - WindowTicks["365d"]
    BY <2>1, <2>2, <2>4, <2>5
  <2>7. Counts(events[i], c, "365d", asOf)
    BY <1>1, <2>4, <2>6 DEF Counts
  <2> QED
    BY <2>3, <2>7 DEF Counted
<1>6. IsFiniteSet(S) /\ \A i \in S : f[i] = Amount(events[i], "365d") /\ f[i] \in Int
  BY <1>2, CountedFacts
<1>7. \A i \in S : f[i] >= 0
  BY <1>1, <1>6 DEF AmountsCounted, Counted
<1> HIDE DEF S, T, f
<1>8. SumFunctionOnSet(f, T) <= SumFunctionOnSet(f, S)
  BY <1>5, <1>6, <1>7, SumMonotonic
<1> QED
  BY <1>3, <1>4, <1>8, Zenon

(* A step of the system only adds to the log.                              *)
LEMMA StepGrowsTotals ==
  ASSUME ReplayTypeOK, ReplayTypeOK', AmountsCounted', [ReplayNext]_allvars,
         NEW c \in Crew, NEW asOf \in AsOfs, NEW k \in Windows
  PROVE  Rebuilt(c, k, asOf)' >= Rebuilt(c, k, asOf)
<1>1. events \in Seq(LogEvent)
  BY ReplayWellFormed DEF WellFormed
<1>2. events' \in Seq(LogEvent)
  <2>1. OverrideEvent \subseteq ComplianceEvent
    BY DEF OverrideEvent, ComplianceEvent, Windows
  <2>2. Seq(ScheduleEvent \cup OverrideEvent) \subseteq Seq(LogEvent)
    BY <2>1, SeqMonotonic DEF LogEvent
  <2>3. (ScheduleEvent \cup OverrideEvent)' = ScheduleEvent \cup OverrideEvent
    BY DEF ScheduleEvent, OverrideEvent, SegmentLandedEvent, DutyClosedEvent,
           UnforeseenEvent, RestCompletedEvent
  <2> QED
    BY <2>2, <2>3 DEF ReplayTypeOK
<1>3. \A i \in DOMAIN events : i \in DOMAIN events' /\ events'[i] = events[i]
  BY ReplayNextCases, ReplayWellFormed, StepKeepsHistory, TypedIsReplayable, ReplayKeepsLog
<1>4. \A i \in DOMAIN events' \ DOMAIN events :
        Counts(events'[i], c, k, asOf) => Amount(events'[i], k) >= 0
  BY DEF AmountsCounted, Counts, Amount, RebuiltReport
<1>5. Total(events, c, k, asOf) <= Total(events', c, k, asOf)
  BY <1>1, <1>2, <1>3, <1>4, TotalGrows
<1>6. Total(events, c, k, asOf) \in Int /\ Total(events', c, k, asOf) \in Int
  BY <1>1, <1>2, TotalIsInteger
<1> QED
  BY <1>1, <1>2, <1>5, <1>6, RebuiltIsTotal

(* The rolling totals never forget, whatever is closed, replayed or        *)
(* restarted, and the 28 day total is at most the 365 day one.             *)
THEOREM TotalsAlwaysGrow == ReplaySpec => TotalsNeverShrink
<1>1. ReplayTypeOK /\ TablesLogged => AmountsCounted
  BY ReplayWellFormed, LoggedAmounts, CountedAmounts DEF AmountsCounted
<1>2. ReplayTypeOK /\ AmountsCounted => MonthWithinYear
  BY ReplayWellFormed, NestedWindows
<1>3. /\ ReplayTypeOK /\ ReplayTypeOK' /\ AmountsCounted' /\ MonthWithinYear'
      /\ [ReplayNext]_allvars
      => [\A c \in Crew, asOf \in AsOfs :
            /\ \A k \in Windows : Rebuilt(c, k, asOf)' >= Rebuilt(c, k, asOf)
            /\ Rebuilt(c, "28d", asOf)' <= Rebuilt(c, "365d", asOf)']_allvars
  BY StepGrowsTotals DEF MonthWithinYear
<1> QED
  BY <1>1, <1>2, <1>3, ReplayTypeCorrect, TablesAlwaysLogged, PTL
     DEF ReplaySpec, TotalsNeverShrink

-----------------------------------------------------------------------------
(* What is rebuilt is what the tables hold *)

(* A landing counts when the flight of its link does, for as much.         *)
LEMMA LandingCounts ==
  ASSUME WellFormed, NEW l \in Links, NEW i \in DOMAIN events, events[i] = LandingOf(l),
         NEW c \in Crew, NEW asOf \in AsOfs, NEW k \in {"28d", "365d"}
  PROVE  /\ Counts(events[i], c, k, asOf) <=> l \in FlownInWindow(c, asOf, WindowTicks[k])
         /\ Amount(events[i], k) = LinkedSegment(l).block
<1>1. l[1] \in DOMAIN duties /\ duties[l[1]].segs[l[2]] \in DOMAIN segments
  BY LinkFacts
<1>2. /\ events[i].kind = "SEGMENT_LANDED" /\ events[i].crew = duties[l[1]].crew
      /\ events[i].ts = LinkedSegment(l).dep /\ events[i].block = LinkedSegment(l).block
  BY DEF LandingOf, SegmentLanded, LinkedSegment
<1>3. LinkedSegment(l).dep \in Int
  BY <1>1, TableRows DEF LinkedSegment, SegmentType
<1>4. k # "168h" /\ k \in Windows
  BY DEF Windows
<1>5. WindowTicks[k] \in Int /\ asOf \in Int
  BY <1>4, ConversionTypes, AsOfsAssumption DEF WindowTicks, Windows
<1>6. \A n \in Int : n \in (asOf - WindowTicks[k])..asOf <=>
        n >= asOf - WindowTicks[k] /\ n <= asOf
  BY <1>5
<1>7. Counts(events[i], c, k, asOf) <=>
        duties[l[1]].crew = c /\ LinkedSegment(l).dep \in (asOf - WindowTicks[k])..asOf
  BY <1>2, <1>3, <1>4, <1>6 DEF Counts
<1>8. Amount(events[i], k) = LinkedSegment(l).block
  BY <1>2, <1>4 DEF Amount
<1> QED
  BY <1>7, <1>8 DEF FlownInWindow

LEMMA FlightsMatch == WellFormed /\ TablesLogged => RebuildMatchesFlights
<1> SUFFICES ASSUME WellFormed, TablesLogged, NEW c \in Crew, NEW asOf \in AsOfs,
                    NEW k \in {"28d", "365d"}
             PROVE  Rebuilt(c, k, asOf) =
                      SumFunction([l \in FlownInWindow(c, asOf, WindowTicks[k]) |->
                                     LinkedSegment(l).block])
  BY DEF RebuildMatchesFlights
<1> DEFINE S == Counted(events, c, k, asOf)
           f == Amounts(events, k)
           F == FlownInWindow(c, asOf, WindowTicks[k])
           g == [l \in F |-> LinkedSegment(l).block]
<1>1. k \in Windows /\ k # "168h" /\ events \in Seq(LogEvent)
  BY DEF Windows, WellFormed
<1>2. IsFiniteSet(S) /\ \A i \in S : f[i] = Amount(events[i], k) /\ f[i] \in Int
  BY <1>1, CountedFacts
<1>3. PICK b : /\ Corresponds(b, LandedEvents, Links)
               /\ \A i \in LandedEvents : events[i] = LandingOf(b[i])
  BY DEF TablesLogged, LandingsLinked
<1>4. /\ \A i \in LandedEvents : b[i] \in Links
      /\ \A i, j \in LandedEvents : b[i] = b[j] => i = j
      /\ \A l \in Links : \E i \in LandedEvents : b[i] = l
  BY <1>3 DEF Corresponds
<1>5. S \subseteq LandedEvents
  BY <1>1 DEF Counted, Counts, LandedEvents
<1>6. ASSUME NEW i \in LandedEvents
      PROVE  /\ i \in S <=> b[i] \in F
             /\ Amount(events[i], k) = LinkedSegment(b[i]).block
  <2>1. b[i] \in Links /\ i \in DOMAIN events /\ events[i] = LandingOf(b[i])
    BY <1>3, <1>4 DEF LandedEvents
  <2>2. /\ Counts(events[i], c, k, asOf) <=> b[i] \in F
        /\ Amount(events[i], k) = LinkedSegment(b[i]).block
    BY <2>1, LandingCounts
  <2> QED
    BY <2>1, <2>2 DEF Counted
<1>7. F \subseteq Links
  BY DEF FlownInWindow
<1>8. {b[i] : i \in S} = F
  <2>1. \A i \in S : b[i] \in F
    BY <1>5, <1>6
  <2>2. \A l \in F : \E i \in S : b[i] = l
    BY <1>4, <1>6, <1>7
  <2> HIDE DEF S, F
  <2> QED
    BY <2>1, <2>2
<1>9. \A i \in S : g[b[i]] = f[i]
  BY <1>2, <1>5, <1>6
<1>10. \A i, j \in S : b[i] = b[j] => i = j
  BY <1>4, <1>5
<1>11. Rebuilt(c, k, asOf) = SumFunctionOnSet(f, S)
  BY <1>1, RebuiltIsTotal DEF Total
<1>12. DOMAIN g = F
  OBVIOUS
<1> HIDE DEF S, f, F, g
<1>13. SumFunctionOnSet(g, F) = SumFunctionOnSet(f, S)
  BY <1>2, <1>8, <1>9, <1>10, SumCorrespond
<1>14. SumFunction(g) = SumFunctionOnSet(g, F)
  BY <1>12, Zenon DEF SumFunction
<1> QED
  BY <1>11, <1>13, <1>14 DEF g, F

(* Flight time counts once for each closed duty, by departure, from a      *)
(* window ago up to and including asOf, with the block time of the row     *)
(* (replay.go:16-36): every landing is that of one link.                   *)
THEOREM RebuildAlwaysMatchesFlights == ReplaySpec => []RebuildMatchesFlights
<1>1. ReplayTypeOK /\ TablesLogged => RebuildMatchesFlights
  BY ReplayWellFormed, FlightsMatch
<1> QED
  BY <1>1, ReplayTypeCorrect, TablesAlwaysLogged, PTL

(* A duty is kept in whole minutes, which lose less than one.              *)
LEMMA LessThanAMinuteIsLost ==
  ASSUME NEW n \in Int
  PROVE  Ticks(Minutes(n)) <= n /\ n < Ticks(Minutes(n)) + TicksPerMin
<1> DEFINE q == n \div TicksPerMin
           r == n % TicksPerMin
<1>1. TicksPerMin \in Nat /\ TicksPerMin > 0
  BY ParametersAssumption
<1>2. q \in Int /\ r \in 0..(TicksPerMin - 1) /\ n = TicksPerMin * q + r
  BY <1>1
<1>3. TicksPerMin * q = q * TicksPerMin
  BY <1>1, <1>2
<1>4. Ticks(Minutes(n)) = q * TicksPerMin
  BY DEF Ticks, Minutes
<1>5. q * TicksPerMin \in Int
  BY <1>1, <1>2
<1> HIDE DEF q, r
<1> QED
  BY <1>1, <1>2, <1>3, <1>4, <1>5

(* The report the log gives for a duty, and the duties it puts in the      *)
(* window.                                                                 *)
LoggedReport(d) == duties[d].release - Ticks(FDPMin(duties[d]))
LoggedInWindow(c, asOf) ==
  {d \in DOMAIN duties : duties[d].crew = c /\ Closed(d)
     /\ LoggedReport(d) > asOf - WindowTicks["168h"] /\ LoggedReport(d) <= asOf}

(* A closure counts when its duty does, for as much.                       *)
LEMMA ClosureCounts ==
  ASSUME WellFormed, NEW i \in DOMAIN events,
         NEW d \in DOMAIN duties, events[i] = DutyClosed(d, duties[d].ext), Closed(d),
         NEW c \in Crew, NEW asOf \in AsOfs
  PROVE  /\ Counts(events[i], c, "168h", asOf) <=> d \in LoggedInWindow(c, asOf)
         /\ Amount(events[i], "168h") = FDPMin(duties[d])
<1>1. /\ events[i].kind = "DUTY_CLOSED" /\ events[i].crew = duties[d].crew
      /\ events[i].ts = duties[d].release /\ events[i].fdp = FDPMin(duties[d])
  BY DEF DutyClosed
<1>2. duties[d].release \in Int /\ FDPMin(duties[d]) \in Int
  BY TableRows, ConversionTypes DEF DutyType, FDPMin
<1>3. RebuiltReport(events[i]) = LoggedReport(d)
  BY <1>1 DEF RebuiltReport, LoggedReport
<1>4. Counts(events[i], c, "168h", asOf) <=> d \in LoggedInWindow(c, asOf)
  BY <1>1, <1>3 DEF Counts, LoggedInWindow
<1>5. events[i].ts - RebuiltReport(events[i]) = Ticks(FDPMin(duties[d]))
  BY <1>1, <1>2, ConversionTypes DEF RebuiltReport
<1>6. Amount(events[i], "168h") = FDPMin(duties[d])
  BY <1>2, <1>5, MinutesOfTicks DEF Amount
<1> QED
  BY <1>4, <1>6

(* Only a borderline duty may be put on the wrong side of an end of the    *)
(* window.                                                                 *)
LEMMA OnlyBorderlineMoves ==
  ASSUME WellFormed, NEW c \in Crew, NEW asOf \in AsOfs, NEW d \in DOMAIN duties,
         d \notin Borderline(c, asOf, WindowTicks["168h"])
  PROVE  d \in LoggedInWindow(c, asOf) <=> d \in ReportedInWindow(c, asOf, WindowTicks["168h"])
<1> DEFINE report == duties[d].report
           logged == LoggedReport(d)
           from == asOf - WindowTicks["168h"]
<1>1. asOf \in Int /\ from \in Int
  BY ConversionTypes, AsOfsAssumption DEF WindowTicks, Windows
<1>2. duties[d].release \in Int /\ report \in Int
  BY TableRows DEF DutyType
<1>3. TicksPerMin \in Int
  BY ParametersAssumption
<1>4. logged \in Int /\ report <= logged /\ logged < report + TicksPerMin
  <2> DEFINE n == duties[d].release - report
  <2>1. n \in Int
    BY <1>2
  <2>2. Ticks(Minutes(n)) \in Int /\ logged = duties[d].release - Ticks(Minutes(n))
    BY <2>1, ConversionTypes DEF LoggedReport, FDPMin
  <2>3. Ticks(Minutes(n)) <= n /\ n < Ticks(Minutes(n)) + TicksPerMin
    BY <2>1, LessThanAMinuteIsLost
  <2> HIDE DEF logged
  <2> QED
    BY <1>2, <1>3, <2>2, <2>3
<1>5. CASE Ticks(FDPMin(duties[d])) = duties[d].release - report
  <2>1. logged = report
    BY <1>2, <1>5 DEF LoggedReport
  <2> QED
    BY <2>1 DEF LoggedInWindow, ReportedInWindow
<1>6. CASE /\ duties[d].crew = c /\ Closed(d)
           /\ Ticks(FDPMin(duties[d])) # duties[d].release - report
  <2>1. \A end \in {from, asOf} : ~(report > end - TicksPerMin /\ report <= end)
    BY <1>6 DEF Borderline
  <2>2. (logged > from <=> report > from) /\ (logged <= asOf <=> report <= asOf)
    <3> HIDE DEF logged, report, from
    <3> QED
      BY <1>1, <1>2, <1>3, <1>4, <2>1
  <2> QED
    BY <1>6, <2>2 DEF LoggedInWindow, ReportedInWindow
<1>7. CASE ~(duties[d].crew = c /\ Closed(d))
  BY <1>7 DEF LoggedInWindow, ReportedInWindow
<1> QED
  BY <1>5, <1>6, <1>7

(* So the log rebuilds the sum of the duties it puts in the window. *)
LEMMA ClosuresMatch ==
  ASSUME WellFormed, TablesLogged, NEW c \in Crew, NEW asOf \in AsOfs
  PROVE  Rebuilt(c, "168h", asOf) =
           SumFunction([d \in LoggedInWindow(c, asOf) |-> FDPMin(duties[d])])
<1> DEFINE S == Counted(events, c, "168h", asOf)
           f == Amounts(events, "168h")
           R == LoggedInWindow(c, asOf)
           g == [d \in R |-> FDPMin(duties[d])]
           b == [i \in S |-> events[i].duty]
<1>1. "168h" \in Windows /\ events \in Seq(LogEvent)
  BY DEF Windows, WellFormed
<1>2. IsFiniteSet(S) /\ \A i \in S : f[i] = Amount(events[i], "168h") /\ f[i] \in Int
  BY <1>1, CountedFacts
<1>3. ASSUME NEW i \in S
      PROVE  b[i] \in R /\ g[b[i]] = f[i] /\ i \in DOMAIN events
             /\ events[i].kind = "DUTY_CLOSED" /\ b[i] = events[i].duty
  <2>1. /\ i \in DOMAIN events /\ events[i].kind = "DUTY_CLOSED"
        /\ Counts(events[i], c, "168h", asOf)
    BY DEF Counted, Counts
  <2>2. /\ events[i].duty \in DOMAIN duties /\ Closed(events[i].duty)
        /\ events[i] = DutyClosed(events[i].duty, duties[events[i].duty].ext)
    BY <2>1 DEF TablesLogged, ClosureLoggedOnce
  <2>3. PICK d \in DOMAIN duties : d = events[i].duty
    BY <2>2
  <2>4. d \in R /\ Amount(events[i], "168h") = FDPMin(duties[d])
    BY <2>1, <2>2, <2>3, ClosureCounts
  <2>5. b[i] = d
    BY <2>3
  <2>6. g[d] = FDPMin(duties[d])
    BY <2>4
  <2> HIDE DEF b, g
  <2> QED
    BY <1>2, <2>1, <2>3, <2>4, <2>5, <2>6
<1>4. ASSUME NEW d \in R PROVE \E i \in S : b[i] = d
  <2>1. d \in DOMAIN duties /\ Closed(d)
    BY DEF LoggedInWindow
  <2>2. PICK i \in DOMAIN events : events[i] = DutyClosed(d, duties[d].ext)
    BY <2>1 DEF TablesLogged, ClosureLoggedOnce
  <2>3. Counts(events[i], c, "168h", asOf)
    BY <2>1, <2>2, ClosureCounts
  <2>4. i \in S
    BY <2>3 DEF Counted
  <2>5. events[i].duty = d
    BY <2>2 DEF DutyClosed
  <2> QED
    BY <2>4, <2>5
<1>5. ASSUME NEW i \in S, NEW j \in S, b[i] = b[j] PROVE i = j
  BY <1>3, <1>5 DEF TablesLogged, ClosureLoggedOnce, IsClosureOf
<1>6. Rebuilt(c, "168h", asOf) = SumFunctionOnSet(f, S)
  BY <1>1, RebuiltIsTotal DEF Total
<1>7. DOMAIN g = R
  OBVIOUS
<1> HIDE DEF S, f, R, g, b
<1>8. {b[i] : i \in S} = R
  BY <1>3, <1>4
<1>9. SumFunctionOnSet(g, R) = SumFunctionOnSet(f, S)
  BY <1>2, <1>3, <1>5, <1>8, SumCorrespond
<1>10. SumFunction(g) = SumFunctionOnSet(g, R)
  BY <1>7, Zenon DEF SumFunction
<1> QED
  BY <1>6, <1>9, <1>10 DEF g, R

LEMMA DutiesMatch == WellFormed /\ TablesLogged => RebuildMatchesDuties
<1> SUFFICES ASSUME WellFormed, TablesLogged, NEW c \in Crew, NEW asOf \in AsOfs
             PROVE  \E either \in SUBSET Borderline(c, asOf, WindowTicks["168h"]) :
                      Rebuilt(c, "168h", asOf) =
                        SumFunction([d \in
                            (ReportedInWindow(c, asOf, WindowTicks["168h"])
                               \ Borderline(c, asOf, WindowTicks["168h"])) \cup either |->
                          FDPMin(duties[d])])
  BY DEF RebuildMatchesDuties
<1> DEFINE B == Borderline(c, asOf, WindowTicks["168h"])
           R == ReportedInWindow(c, asOf, WindowTicks["168h"])
           L == LoggedInWindow(c, asOf)
           either == L \cap B
<1>1. B \subseteq DOMAIN duties /\ R \subseteq DOMAIN duties /\ L \subseteq DOMAIN duties
  BY DEF Borderline, ReportedInWindow, LoggedInWindow
<1>2. \A d \in DOMAIN duties : d \notin B => (d \in L <=> d \in R)
  BY OnlyBorderlineMoves
<1>3. Rebuilt(c, "168h", asOf) = SumFunction([d \in L |-> FDPMin(duties[d])])
  BY ClosuresMatch
<1> HIDE DEF B, R, L
<1>4. L = (R \ B) \cup either
  BY <1>1, <1>2
<1>5. [d \in (R \ B) \cup either |-> FDPMin(duties[d])] = [d \in L |-> FDPMin(duties[d])]
  BY <1>4
<1>6. either \in SUBSET B
  OBVIOUS
<1>7. Rebuilt(c, "168h", asOf) = SumFunction([d \in (R \ B) \cup either |-> FDPMin(duties[d])])
  BY <1>3, <1>5
<1> QED
  BY <1>6, <1>7 DEF B, R

(* A closed duty counts by its report with its whole flight duty period    *)
(* (replay.go:38-62): the log rebuilds what the rows of duty_periods hold. *)
(* The log keeps whole minutes, so that the report worked out from it may  *)
(* be up to a minute late: no duty but one that is not of whole minutes    *)
(* and reports within that minute of an end of the window can be misplaced.*)
THEOREM RebuildAlwaysMatchesDuties == ReplaySpec => []RebuildMatchesDuties
<1>1. ReplayTypeOK /\ TablesLogged => RebuildMatchesDuties
  BY ReplayWellFormed, DutiesMatch
<1> QED
  BY <1>1, ReplayTypeCorrect, TablesAlwaysLogged, PTL

=============================================================================
