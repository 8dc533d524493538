--------------------------- MODULE LegalityProofs ---------------------------
(* Proofs about Legality, for every value of its constants.                *)
EXTENDS Legality, CrewScheduleProofs

-----------------------------------------------------------------------------
(* Evaluations and replays among the schedule's operations *)

LEMMA VerdictType == ASSUME NEW in PROVE Rules!Verdict(in) \in {"LEGAL", "ILLEGAL"}
BY Zenon DEF Rules!Verdict

LEMMA EvaluateTripAppends ==
  ASSUME WellFormed, NEW c \in Crew, NEW req \in Requests, EvaluateTrip(c, req)
  PROVE  /\ events' \in Seq(LogEvent)
         /\ UNCHANGED tables
         /\ \A i \in DOMAIN events : i \in DOMAIN events' /\ events'[i] = events[i]
         /\ \A i \in DOMAIN events' \ DOMAIN events : events'[i].kind = "EVALUATION"
<1> DEFINE e(in) ==
      [kind |-> "EVALUATION", crew |-> c, ts |-> req.asOf, verdict |-> Rules!Verdict(in)]
<1>1. PICK in : events' = Append(events, e(in)) \/ events' = events
  BY DEF EvaluateTrip
<1>2. e(in) \in LogEvent /\ e(in).kind = "EVALUATION"
  BY VerdictType, RequestsAssumption DEF LogEvent, ComplianceEvent
<1>3. events \in Seq(LogEvent)
  BY DEF WellFormed
<1>4. UNCHANGED tables
  BY DEF EvaluateTrip
<1> HIDE DEF e
<1>5. CASE events' = Append(events, e(in))
  BY <1>2, <1>3, <1>4, <1>5
<1>6. CASE events' = events
  BY <1>3, <1>4, <1>6
<1> QED
  BY <1>1, <1>5, <1>6

(* A step of the composed system is one of the schedule service, a replay, *)
(* a stop or start, or an evaluation.                                      *)
LEMMA LegalNextCases ==
  ASSUME [LegalNext]_legalvars
  PROVE  \/ [Next]_vars /\ UNCHANGED snapshots
         \/ \E c \in Crew, asOf \in ReplayAsOfs : ReplayForCrew(c, asOf)
         \/ \E c \in Crew, req \in Requests : EvaluateTrip(c, req) /\ UNCHANGED snapshots
<1>1. CASE ReplayNext
  BY <1>1, ReplayNextCases
<1>2. CASE UNCHANGED legalvars
  BY <1>2 DEF legalvars, allvars
<1>3. ASSUME NEW c \in Crew, NEW req \in Requests, EvaluateTrip(c, req)
      PROVE  UNCHANGED snapshots
  BY <1>3 DEF EvaluateTrip
<1> QED
  BY <1>1, <1>2, <1>3 DEF LegalNext

LEMMA LogTypeIsFixed == LogEvent' = LogEvent
BY DEF LogEvent, ComplianceEvent, ScheduleEvent, SegmentLandedEvent, DutyClosedEvent,
       UnforeseenEvent, RestCompletedEvent

LEMMA UnchangedTables ==
  ASSUME TablesOK, UNCHANGED tables PROVE TablesOK'
BY DEF TablesOK, tables, TripType, SegmentType, DutyType, RestType

LEMMA LegalStepReplayable == Replayable /\ [LegalNext]_legalvars => Replayable'
<1> SUFFICES ASSUME Replayable, [LegalNext]_legalvars PROVE Replayable'
  OBVIOUS
<1>1. WellFormed /\ TablesOK /\ events \in Seq(LogEvent)
  BY DEF Replayable, WellFormed
<1>2. CASE UNCHANGED snapshots
  <2>1. WellFormed'
    <3>1. CASE [Next]_vars
      BY <1>1, <3>1, StepWellFormed
    <3>2. ASSUME NEW c \in Crew, NEW req \in Requests, EvaluateTrip(c, req)
          PROVE  WellFormed'
      BY <1>1, <3>2, EvaluateTripAppends, UnchangedTables, LogTypeIsFixed DEF WellFormed
    <3>3. ASSUME NEW c \in Crew, NEW asOf \in ReplayAsOfs, ReplayForCrew(c, asOf)
          PROVE  WellFormed'
      <4>1. UNCHANGED tables /\ events' \in Seq(LogEvent)
        BY <1>1, <3>3, ReplayKeepsLog, OverridesAreLogged, ReplayAppendsTo
      <4> QED
        BY <1>1, <4>1, UnchangedTables, LogTypeIsFixed DEF WellFormed
    <3> QED
      BY <3>1, <3>2, <3>3, LegalNextCases
  <2> QED
    BY <1>2, <2>1 DEF Replayable
<1>3. ASSUME NEW c \in Crew, NEW asOf \in ReplayAsOfs, ReplayForCrew(c, asOf)
      PROVE  Replayable'
  <2>1. UNCHANGED tables /\ events' \in Seq(LogEvent)
    BY <1>1, <1>3, ReplayKeepsLog, OverridesAreLogged, ReplayAppendsTo
  <2>2. WellFormed'
    BY <1>1, <2>1, UnchangedTables, LogTypeIsFixed DEF WellFormed
  <2>3. DOMAIN snapshots' = Crew
    BY <1>3, ReplaySnapshots
  <2>4. \A e \in Crew : \A k \in Windows :
          Cardinality(snapshots'[e][k]) <= 1 /\ snapshots'[e][k] \subseteq SnapshotRow
    BY <1>3, ReplaySnapshotTypes
  <2> QED
    BY <2>2, <2>3, <2>4 DEF Replayable
<1> QED
  BY <1>2, <1>3, LegalNextCases

LEMMA LegalInitReplayable == LegalInit => Replayable
BY ReplayInitTypeOK, TypedIsReplayable DEF LegalInit

-----------------------------------------------------------------------------
(* What the rules are asked about a crew member *)

(* A step leaves the history of c alone: rests and closed duties stay as   *)
(* they are, and all it adds to the log of c, if anything, is what the     *)
(* compliance service writes there.                                        *)
HistoryKept(c) ==
  /\ \A i \in DOMAIN events : i \in DOMAIN events' /\ events'[i] = events[i]
  /\ \A i \in DOMAIN events' \ DOMAIN events :
       events'[i].crew = c => events'[i].kind \in {"EVALUATION", "REPLAY_OVERRIDE"}
  /\ ClosedDutiesOf(c)' = ClosedDutiesOf(c)
  /\ \A d \in ClosedDutiesOf(c) : duties'[d] = duties[d]
  /\ RestsOf(c)' = RestsOf(c)
  /\ \A r \in RestsOf(c) : rests'[r] = rests[r]

LEMMA KeptFacts ==
  ASSUME NEW c, HistoryKept(c)
  PROVE  FactsOf(c)' = FactsOf(c)
<1>1. FactIds(c)' = FactIds(c) /\ \A i \in FactIds(c) : events'[i] = events[i]
  BY DEF HistoryKept, FactIds
<1>2. [i \in FactIds(c)' |-> events'[i]] = [i \in FactIds(c) |-> events[i]]
  BY <1>1
<1> QED
  BY <1>2 DEF FactsOf, Restrict

LEMMA KeptRows ==
  ASSUME WellFormed, NEW c, HistoryKept(c)
  PROVE  RowsOf(c)' = RowsOf(c)
<1> DEFINE D == ClosedDutiesOf(c)
           R == RestsOf(c)
           P == {DutyPlace(d) : d \in D} \cup {RestPlace(r) : r \in R}
           Row(p) == IF p % 2 = 0 THEN DutyFact(duties[p \div 2]) ELSE RestFact(rests[p \div 2])
           Next1(p) == IF p % 2 = 0 THEN DutyFact(duties'[p \div 2]) ELSE RestFact(rests'[p \div 2])
<1>1. D' = D /\ R' = R /\ P' = P
  BY DEF HistoryKept
<1>2. ASSUME NEW p \in P PROVE Row(p) = Next1(p)
  <2>1. CASE \E d \in D : p = DutyPlace(d)
    <3>1. PICK d \in D : p = 2 * d
      BY <2>1 DEF DutyPlace
    <3>2. d \in Nat /\ duties'[d] = duties[d]
      BY TableRows DEF HistoryKept, ClosedDutiesOf
    <3>3. p % 2 = 0 /\ p \div 2 = d
      BY <3>1, <3>2
    <3> QED
      BY <3>2, <3>3
  <2>2. CASE \E r \in R : p = RestPlace(r)
    <3>1. PICK r \in R : p = 2 * r + 1
      BY <2>2 DEF RestPlace
    <3>2. r \in Nat /\ rests'[r] = rests[r]
      BY TableRows DEF HistoryKept, RestsOf
    <3>3. p % 2 = 1 /\ p \div 2 = r
      BY <3>1, <3>2
    <3> QED
      BY <3>2, <3>3
  <2> QED
    BY <2>1, <2>2
<1>3. RowsOf(c) = [p \in P |-> Row(p)]
  BY DEF RowsOf
<1>4. RowsOf(c)' = [p \in P' |-> Next1(p)]
  BY DEF RowsOf
<1> HIDE DEF P, Row, Next1
<1>5. [p \in P |-> Row(p)] = [p \in P |-> Next1(p)]
  BY <1>2
<1> QED
  BY <1>1, <1>3, <1>4, <1>5

(* The counters see the closures and landings of c only.                   *)
LEMMA CountersKept ==
  ASSUME WellFormed, events' \in Seq(LogEvent), NEW c,
         \A i \in DOMAIN events : i \in DOMAIN events' /\ events'[i] = events[i],
         \A i \in DOMAIN events' \ DOMAIN events :
           events'[i].crew = c => events'[i].kind \notin {"DUTY_CLOSED", "SEGMENT_LANDED",
                                                          "UNFORESEEN_EXTENSION"},
         NEW t
  PROVE  /\ \A k \in Windows : Rebuilt(c, k, t)' = Rebuilt(c, k, t)
         /\ \A w : ClosedInWindow(c, t, w)' = ClosedInWindow(c, t, w)
         /\ ExtendedInYear(c, t)' = ExtendedInYear(c, t)
<1>1. ASSUME NEW k \in Windows PROVE Rebuilt(c, k, t)' = Rebuilt(c, k, t)
  <2>1. \A i \in DOMAIN events' \ DOMAIN events : ~Counts(events'[i], c, k, t)
    BY DEF Counts
  <2>2. events \in Seq(LogEvent) /\ DOMAIN events \subseteq DOMAIN events'
    BY DEF WellFormed
  <2>3. Total(events', c, k, t) = Total(events, c, k, t)
    BY <2>1, <2>2, TotalGrows
  <2> QED
    BY <2>2, <2>3, RebuiltIsTotal
<1>2. ASSUME NEW w PROVE ClosedInWindow(c, t, w)' = ClosedInWindow(c, t, w)
  <2>1. EventsOf(c, "DUTY_CLOSED")' = EventsOf(c, "DUTY_CLOSED")
    BY DEF EventsOf
  <2>2. \A i \in EventsOf(c, "DUTY_CLOSED") : events'[i] = events[i]
    BY DEF EventsOf
  <2> QED
    BY <2>1, <2>2 DEF ClosedInWindow
<1>3. ExtendedInYear(c, t)' = ExtendedInYear(c, t)
  <2> DEFINE S == {i \in DOMAIN events :
               events[i].crew = c /\ events[i].kind = "UNFORESEEN_EXTENSION"
                 /\ YearOf(events[i].ts) = YearOf(t)}
  <2>1. S' = S
    OBVIOUS
  <2> QED
    BY <2>1 DEF ExtendedInYear
<1> QED
  BY <1>1, <1>2, <1>3

LEMMA KeptInputs ==
  ASSUME WellFormed, events' \in Seq(LogEvent), NEW c, HistoryKept(c), NEW req
  PROVE  EvalInputs(c, req)' = EvalInputs(c, req)
<1>1. FactsOf(c)' = FactsOf(c) /\ RowsOf(c)' = RowsOf(c)
  BY KeptFacts, KeptRows
<1>2. \A t : /\ \A k \in Windows : Rebuilt(c, k, t)' = Rebuilt(c, k, t)
             /\ \A w : ClosedInWindow(c, t, w)' = ClosedInWindow(c, t, w)
             /\ ExtendedInYear(c, t)' = ExtendedInYear(c, t)
  BY CountersKept DEF HistoryKept
<1>3. "28d" \in Windows /\ "168h" \in Windows /\ "365d" \in Windows
  BY DEF Windows
<1>4. ASSUME NEW span, NEW facts, NEW rows
      PROVE  EvalInput(c, req, span, facts, rows)' = EvalInput(c, req, span, facts, rows)
  BY <1>2, <1>3, Zenon DEF EvalInput
<1> QED
  BY <1>1, <1>4 DEF EvalInputs

-----------------------------------------------------------------------------
(* Only own facts matter *)

LEMMA ClosingIsAFact ==
  ASSUME WellFormed, NEW d \in DOMAIN duties, NEW requested \in ExtensionInputs,
         CloseDuty(d, requested), NEW c
  PROVE  HistoryKept(c) \/ FactsOf(c)' # FactsOf(c)
<1>0. PICK ext, n, i : /\ ext = CappedExtension(requested) /\ n = Len(duties[d].segs)
                       /\ i = Len(events) + n + 1
  OBVIOUS
<1>1. /\ \A j \in DOMAIN events : j \in DOMAIN events' /\ events'[j] = events[j]
      /\ i \in DOMAIN events' /\ i \notin DOMAIN events
      /\ events'[i] = DutyClosed(d, ext)
      /\ \A j \in DOMAIN events' \ DOMAIN events :
           \/ \E k \in 1..n : events'[j] = SegmentLanded(duties[d], duties[d].segs[k])
           \/ events'[j] = DutyClosed(d, ext)
           \/ events'[j] = UnforeseenExtension(d, ext)
  <2>1. /\ DOMAIN events \subseteq (DOMAIN events)'
        /\ \A j \in DOMAIN events : events'[j] = events[j]
        /\ Len(events) + n + 1 \in (DOMAIN events)' \ DOMAIN events
        /\ events'[Len(events) + n + 1] = DutyClosed(d, ext)
        /\ ext > 0 => /\ Len(events) + n + 2 \in (DOMAIN events)'
                      /\ events'[Len(events) + n + 2] = UnforeseenExtension(d, ext)
        /\ \A j \in (DOMAIN events)' \ DOMAIN events :
             \/ \E k \in 1..n : events'[j] = SegmentLanded(duties[d], duties[d].segs[k])
             \/ j = Len(events) + n + 1
             \/ ext > 0 /\ j = Len(events) + n + 2
    BY <1>0, CloseDutyAppends, Zenon
  <2> QED
    BY <1>0, <2>1, Zenon
<1>2. CASE duties[d].crew = c
  <2>1. i \in FactIds(c)' /\ i \notin FactIds(c)
    BY <1>1, <1>2 DEF FactIds, DutyClosed
  <2>2. DOMAIN FactsOf(c)' = FactIds(c)' /\ DOMAIN FactsOf(c) = FactIds(c)
    BY DEF FactsOf, Restrict
  <2> QED
    BY <2>1, <2>2
<1>3. CASE duties[d].crew # c
  <2>1. \A j \in DOMAIN events' \ DOMAIN events : events'[j].crew # c
    BY <1>1, <1>3 DEF SegmentLanded, DutyClosed, UnforeseenExtension
  <2>2. DOMAIN duties' = DOMAIN duties /\ duties'[d].crew = duties[d].crew
        /\ \A e \in DOMAIN duties \ {d} : duties'[e] = duties[e]
    BY CloseDutyRow
  <2>3. ClosedDutiesOf(c)' = ClosedDutiesOf(c)
        /\ \A e \in ClosedDutiesOf(c) : duties'[e] = duties[e]
    BY <1>3, <2>2 DEF ClosedDutiesOf, Closed
  <2>4. rests' = rests
    BY DEF CloseDuty
  <2>5. RestsOf(c)' = RestsOf(c) /\ \A r \in RestsOf(c) : rests'[r] = rests[r]
    BY <2>4 DEF RestsOf
  <2> QED
    BY <1>1, <2>1, <2>3, <2>5 DEF HistoryKept
<1> QED
  BY <1>2, <1>3

(* Registering a rest of b.                                                *)
LEMMA RestingAppends ==
  ASSUME WellFormed, NEW b \in Crew, NEW in \in RestInputs, CreateRest(b, in)
  PROVE  /\ UNCHANGED <<trips, segments, duties>>
         /\ DOMAIN events' = DOMAIN events \cup {Len(events) + 1}
         /\ Len(events) + 1 \notin DOMAIN events
         /\ \A i \in DOMAIN events : events'[i] = events[i]
         /\ events'[Len(events) + 1] = RestCompleted(Len(rests) + 1, RestRow(b, in))
         /\ DOMAIN rests' = DOMAIN rests \cup {Len(rests) + 1}
         /\ Len(rests) + 1 \notin DOMAIN rests
         /\ \A r \in DOMAIN rests : rests'[r] = rests[r]
         /\ rests'[Len(rests) + 1] = RestRow(b, in)
         /\ in.end > in.start
<1>1. /\ UNCHANGED <<trips, segments, duties>> /\ in.end > in.start
      /\ rests' = Append(rests, RestRow(b, in))
      /\ events' = Append(events, RestCompleted(Len(rests) + 1, RestRow(b, in)))
  BY DEF CreateRest
<1>2. PICK row, e : row = RestRow(b, in) /\ e = RestCompleted(Len(rests) + 1, RestRow(b, in))
  OBVIOUS
<1>3. events \in Seq(LogEvent) /\ rests \in Seq(RestType)
  BY DEF WellFormed, TablesOK
<1>4. rests' = Append(rests, row) /\ events' = Append(events, e)
  BY <1>1, <1>2
<1>5. /\ DOMAIN events' = DOMAIN events \cup {Len(events) + 1}
      /\ Len(events) + 1 \notin DOMAIN events
      /\ \A i \in DOMAIN events : events'[i] = events[i]
      /\ events'[Len(events) + 1] = e
  BY <1>3, <1>4
<1>6. /\ DOMAIN rests' = DOMAIN rests \cup {Len(rests) + 1}
      /\ Len(rests) + 1 \notin DOMAIN rests
      /\ \A r \in DOMAIN rests : rests'[r] = rests[r]
      /\ rests'[Len(rests) + 1] = row
  BY <1>3, <1>4
<1> QED
  BY <1>1, <1>2, <1>5, <1>6

LEMMA RestingIsAFact ==
  ASSUME WellFormed, NEW b \in Crew, NEW in \in RestInputs, CreateRest(b, in), NEW c
  PROVE  IF b = c THEN FactsOf(c)' # FactsOf(c) ELSE HistoryKept(c)
<1>1. PICK i, r : i = Len(events) + 1 /\ r = Len(rests) + 1
  OBVIOUS
<1>2. /\ UNCHANGED <<trips, segments, duties>>
      /\ DOMAIN events' = DOMAIN events \cup {i} /\ i \notin DOMAIN events
      /\ \A j \in DOMAIN events : events'[j] = events[j]
      /\ events'[i] = RestCompleted(r, RestRow(b, in))
      /\ DOMAIN rests' = DOMAIN rests \cup {r} /\ r \notin DOMAIN rests
      /\ \A q \in DOMAIN rests : rests'[q] = rests[q]
      /\ rests'[r] = RestRow(b, in)
  BY <1>1, RestingAppends
<1>3. /\ events'[i].crew = b /\ events'[i].kind = "REST_COMPLETED"
      /\ rests'[r].crew = b
  BY <1>2 DEF RestCompleted, RestRow
<1>4. CASE b = c
  <2>1. i \in FactIds(c)' /\ i \notin FactIds(c)
    BY <1>2, <1>3, <1>4 DEF FactIds
  <2>2. DOMAIN FactsOf(c)' = FactIds(c)' /\ DOMAIN FactsOf(c) = FactIds(c)
    BY DEF FactsOf, Restrict
  <2> QED
    BY <1>4, <2>1, <2>2
<1>5. CASE b # c
  <2>1. ClosedDutiesOf(c)' = ClosedDutiesOf(c)
        /\ \A d \in ClosedDutiesOf(c) : duties'[d] = duties[d]
    BY <1>2 DEF ClosedDutiesOf, Closed
  <2>2. RestsOf(c)' = RestsOf(c) /\ \A q \in RestsOf(c) : rests'[q] = rests[q]
    BY <1>2, <1>3, <1>5 DEF RestsOf
  <2> QED
    BY <1>2, <1>3, <1>5, <2>1, <2>2 DEF HistoryKept
<1> QED
  BY <1>4, <1>5

(* Whatever leaves the tables alone but for trips, segments and open       *)
(* duties.                                                                 *)
LEMMA QuietStep ==
  ASSUME NEW c, UNCHANGED rests,
         \A i \in DOMAIN events : i \in DOMAIN events' /\ events'[i] = events[i],
         \A i \in DOMAIN events' \ DOMAIN events :
           events'[i].kind \in {"EVALUATION", "REPLAY_OVERRIDE"},
         \A d \in DOMAIN duties : d \in DOMAIN duties' /\ duties'[d] = duties[d],
         \A d \in DOMAIN duties' \ DOMAIN duties : duties'[d].status = "OPEN"
  PROVE  HistoryKept(c)
<1>1. ClosedDutiesOf(c)' = ClosedDutiesOf(c)
      /\ \A d \in ClosedDutiesOf(c) : duties'[d] = duties[d]
  BY DEF ClosedDutiesOf, Closed
<1>2. RestsOf(c)' = RestsOf(c) /\ \A q \in RestsOf(c) : rests'[q] = rests[q]
  BY DEF RestsOf
<1> QED
  BY <1>1, <1>2 DEF HistoryKept

(* A step keeps the history of c or records a fact of theirs.              *)
LEMMA StepKeepsOrRecords ==
  ASSUME Replayable, [LegalNext]_legalvars, NEW c
  PROVE  HistoryKept(c) \/ FactsOf(c)' # FactsOf(c)
<1>1. WellFormed
  BY DEF Replayable
<1>2. CASE [Next]_vars
  <2>1. ASSUME NEW d \in DOMAIN duties, NEW requested \in ExtensionInputs, CloseDuty(d, requested)
        PROVE  HistoryKept(c) \/ FactsOf(c)' # FactsOf(c)
    BY <1>1, <2>1, ClosingIsAFact
  <2>2. ASSUME NEW b \in Crew, NEW in \in RestInputs, CreateRest(b, in)
        PROVE  HistoryKept(c) \/ FactsOf(c)' # FactsOf(c)
    BY <1>1, <2>2, RestingIsAFact
  <2>3. CASE UNCHANGED <<rests, events>> /\ [Next]_vars
             /\ ~ \E d \in DOMAIN duties, requested \in ExtensionInputs : CloseDuty(d, requested)
    <3>1. /\ \A d \in DOMAIN duties : d \in DOMAIN duties' /\ duties'[d] = duties[d]
          /\ \A d \in DOMAIN duties' \ DOMAIN duties : duties'[d].status = "OPEN"
      BY <1>1, <2>3, OtherStepsAppend
    <3> QED
      BY <2>3, <3>1, QuietStep
  <2>4. \/ \E d \in DOMAIN duties, requested \in ExtensionInputs : CloseDuty(d, requested)
        \/ \E b \in Crew, in \in RestInputs : CreateRest(b, in)
        \/ UNCHANGED <<rests, events>>
    BY <1>2 DEF Next, vars, CreateTrip, AddSegment, CreateDutyForTrip
  <2> QED
    BY <1>2, <2>1, <2>2, <2>3, <2>4
<1>3. ASSUME NEW b \in Crew, NEW asOf \in ReplayAsOfs, ReplayForCrew(b, asOf)
      PROVE  HistoryKept(c)
  <2>1. /\ UNCHANGED tables
        /\ \A i \in DOMAIN events : i \in DOMAIN events' /\ events'[i] = events[i]
        /\ \A i \in DOMAIN events' \ DOMAIN events : events'[i].kind = "REPLAY_OVERRIDE"
    BY <1>3, ReplayKeepsLog
  <2> QED
    BY <2>1, QuietStep DEF tables
<1>4. ASSUME NEW b \in Crew, NEW req \in Requests, EvaluateTrip(b, req)
      PROVE  HistoryKept(c)
  <2>1. /\ UNCHANGED tables
        /\ \A i \in DOMAIN events : i \in DOMAIN events' /\ events'[i] = events[i]
        /\ \A i \in DOMAIN events' \ DOMAIN events : events'[i].kind = "EVALUATION"
    BY <1>1, <1>4, EvaluateTripAppends
  <2> QED
    BY <2>1, QuietStep DEF tables
<1> QED
  BY <1>2, <1>3, <1>4, LegalNextCases

(* What the rules are asked is what the state says, in every state.        *)
LEMMA AnswersFollow ==
  ASSUME Replayable, answers = Answers, [LegalNext]_legalvars
  PROVE  answers' = Answers'
<1>1. CASE LegalNext
  BY <1>1 DEF LegalNext
<1>2. CASE UNCHANGED legalvars
  <2>1. UNCHANGED <<vars, answers>>
    BY <1>2 DEF legalvars, allvars
  <2>2. ASSUME NEW c PROVE HistoryKept(c)
    BY <2>1, QuietStep DEF vars
  <2>3. WellFormed /\ events' \in Seq(LogEvent)
    BY <2>1 DEF Replayable, WellFormed, vars
  <2>4. \A c, req : EvalInputs(c, req)' = EvalInputs(c, req)
    BY <2>2, <2>3, KeptInputs
  <2>5. Answers' = Answers
    BY <2>4 DEF Answers
  <2> QED
    BY <2>1, <2>5
<1> QED
  BY <1>1, <1>2

(* Evaluations and replays beside the schedule's operations leave tables,  *)
(* log and snapshots well formed, and what the rules are asked is what the *)
(* state says.                                                             *)
LegalOK == Replayable /\ answers = Answers
THEOREM LegalWellFormed == LegalSpec => []LegalOK
<1>1. LegalInit => LegalOK
  BY LegalInitReplayable DEF LegalInit, LegalOK
<1>2. LegalOK /\ [LegalNext]_legalvars => LegalOK'
  BY LegalStepReplayable, AnswersFollow DEF LegalOK
<1> QED
  BY <1>1, <1>2, PTL DEF LegalSpec

(* A verdict is moved by a closure or a rest of the crew member judged and *)
(* by nothing else: not by other crew, planning, evaluations, replays or   *)
(* restarts (what EvaluateTrip reads, compliance.go:112-211).              *)
THEOREM OwnFactsDecide == LegalSpec => OnlyOwnFactsMatter
<1> DEFINE Kept == \A c \in Crew : FactsOf(c)' = FactsOf(c) => answers'[c] = answers[c]
<1>1. LegalOK /\ LegalOK' /\ [LegalNext]_legalvars => Kept
  <2> SUFFICES ASSUME LegalOK, LegalOK', [LegalNext]_legalvars, NEW c \in Crew,
                      FactsOf(c)' = FactsOf(c)
               PROVE  answers'[c] = answers[c]
    OBVIOUS
  <2>1. Replayable /\ answers = Answers /\ answers' = Answers'
    BY DEF LegalOK
  <2>2. WellFormed /\ events' \in Seq(LogEvent)
    <3>1. Replayable'
      BY DEF LegalOK
    <3>2. WellFormed'
      BY <3>1 DEF Replayable
    <3> QED
      BY <2>1, <3>2, LogTypeIsFixed DEF Replayable, WellFormed
  <2>3. HistoryKept(c)
    BY <2>1, StepKeepsOrRecords
  <2>4. \A req : EvalInputs(c, req)' = EvalInputs(c, req)
    BY <2>2, <2>3, KeptInputs
  <2>5. Answers[c] = [req \in Answerable |-> EvalInputs(c, req)]
        /\ Answers'[c] = [req \in Answerable |-> EvalInputs(c, req)']
    BY DEF Answers, Answerable
  <2> QED
    BY <2>1, <2>4, <2>5
<1> QED
  BY <1>1, LegalWellFormed, PTL DEF LegalSpec, OnlyOwnFactsMatter

-----------------------------------------------------------------------------
(* What is evaluated is what will be flown *)

(* The segments S in the order they are submitted: n segments, each once.  *)
LEMMA SubmittedSegments ==
  ASSUME WellFormed, NEW t \in DOMAIN trips, SegmentsOf(t) # {},
         NEW order \in SetToSeqs(SegmentsOf(t)), NEW n, n = Cardinality(SegmentsOf(t))
  PROVE  /\ n \in Nat \ {0} /\ DOMAIN order = 1..n
         /\ \A j \in 1..n : order[j] \in SegmentsOf(t) /\ order[j] \in DOMAIN segments
         /\ \A j, l \in 1..n : order[j] = order[l] => j = l
         /\ \A k \in SegmentsOf(t) : \E j \in 1..n : order[j] = k
<1>1. n \in Nat \ {0} /\ SegmentsOf(t) \subseteq DOMAIN segments
  BY SegmentsOfFinite
<1>2. IsFiniteSet(SegmentsOf(t))
  <2>1. DOMAIN segments = 1..Len(segments) /\ Len(segments) \in Nat
    BY DEF WellFormed, TablesOK
  <2>2. IsFiniteSet(1..Len(segments))
    BY <2>1, FS_Interval
  <2> QED
    BY <1>1, <2>1, <2>2, FS_Subset
<1> QED
  BY <1>1, <1>2, Orders

LEMMA FirstNumbers ==
  ASSUME NEW n \in Nat PROVE IsFiniteSet(1..n) /\ Cardinality(1..n) = n
<1>1. IsFiniteSet(1..n) /\ Cardinality(1..n) = IF 1 > n THEN 0 ELSE n - 1 + 1
  BY FS_Interval
<1> QED
  BY <1>1

LEMMA OrdersOfNumbers ==
  ASSUME NEW n \in Nat, NEW o
  PROVE  o \in SetToSeqs(1..n)
           <=> o \in [1..n -> 1..n] /\ \A i, j \in 1..n : i # j => o[i] # o[j]
<1>1. Cardinality(1..n) = n
  BY FirstNumbers
<1> QED
  BY <1>1, Zenon DEF SetToSeqs

(* The segments of a trip as submitted in some order.                      *)
Submitted(order) == [i \in DOMAIN order |-> segments[order[i]]]

(* Sorted, what was submitted in an order is the listing.                  *)
Gives(sorted, order, list) ==
  \A p \in DOMAIN order : sorted[p] \in DOMAIN order /\ order[sorted[p]] = list[p]

(* Sorting what was submitted gives a listing of the trip, and every       *)
(* listing of the trip may come out of sorting what was submitted.         *)
LEMMA SortingLists ==
  ASSUME WellFormed, NEW t \in DOMAIN trips, SegmentsOf(t) # {},
         NEW order \in SetToSeqs(SegmentsOf(t))
  PROVE  /\ \A sorted \in SortedByDep(Submitted(order)) :
              \E list \in SegmentListings(t) : Gives(sorted, order, list)
         /\ \A list \in SegmentListings(t) :
              \E sorted \in SortedByDep(Submitted(order)) : Gives(sorted, order, list)
<1>n. PICK n, segs : n = Cardinality(SegmentsOf(t)) /\ segs = Submitted(order)
  OBVIOUS
<1>0. PICK S : S = SegmentsOf(t)
  OBVIOUS
<1>1. /\ n \in Nat \ {0} /\ DOMAIN order = 1..n
      /\ \A j \in 1..n : order[j] \in S
      /\ \A j, l \in 1..n : order[j] = order[l] => j = l
      /\ \A k \in S : \E j \in 1..n : order[j] = k
  BY <1>0, <1>n, SubmittedSegments
<1>2. /\ DOMAIN segs = 1..n /\ \A j \in 1..n : segs[j] = segments[order[j]]
      /\ Cardinality(1..n) = n
  BY <1>1, <1>n, FirstNumbers DEF Submitted
<1>3. \A o : o \in SortedByDep(segs)
               <=> /\ o \in [1..n -> 1..n] /\ \A i, j \in 1..n : i # j => o[i] # o[j]
                   /\ \A i, j \in 1..n : i < j => segs[o[i]].dep <= segs[o[j]].dep
  <2> SUFFICES ASSUME NEW o
               PROVE  o \in SortedByDep(segs)
                        <=> /\ o \in [1..n -> 1..n] /\ \A i, j \in 1..n : i # j => o[i] # o[j]
                            /\ \A i, j \in 1..n : i < j => segs[o[i]].dep <= segs[o[j]].dep
    OBVIOUS
  <2>1. o \in SetToSeqs(1..n)
          <=> o \in [1..n -> 1..n] /\ \A i, j \in 1..n : i # j => o[i] # o[j]
    BY <1>1, OrdersOfNumbers
  <2>2. o \in [1..n -> 1..n] => DOMAIN o = 1..n
    OBVIOUS
  <2>3. o \in SortedByDep(segs)
          <=> /\ o \in SetToSeqs(1..n)
              /\ \A i, j \in DOMAIN o : i < j => segs[o[i]].dep <= segs[o[j]].dep
    <3>1. SetToSeqs(DOMAIN segs) = SetToSeqs(1..n)
      BY <1>2
    <3> QED
      BY <3>1, Zenon DEF SortedByDep
  <2> QED
    BY <2>1, <2>2, <2>3, Zenon
<1>4. SegmentListings(t) =
        {list \in [1..n -> S] :
           \A i, j \in 1..n : i < j => list[i] # list[j]
                                       /\ segments[list[i]].dep <= segments[list[j]].dep}
  BY <1>0, <1>n DEF SegmentListings
<1>5. ASSUME NEW sorted \in SortedByDep(segs)
      PROVE  \E list \in SegmentListings(t) : Gives(sorted, order, list)
  <2>1. /\ sorted \in [1..n -> 1..n] /\ \A i, j \in 1..n : i # j => sorted[i] # sorted[j]
        /\ \A i, j \in 1..n : i < j => segs[sorted[i]].dep <= segs[sorted[j]].dep
    BY <1>3
  <2> DEFINE list == [p \in 1..n |-> order[sorted[p]]]
  <2>2. list \in [1..n -> S]
    BY <1>1, <2>1
  <2>3. ASSUME NEW i \in 1..n, NEW j \in 1..n, i < j
        PROVE  list[i] # list[j] /\ segments[list[i]].dep <= segments[list[j]].dep
    <3>1. sorted[i] \in 1..n /\ sorted[j] \in 1..n /\ sorted[i] # sorted[j]
      BY <1>1, <2>1, <2>3
    <3> QED
      BY <1>1, <1>2, <2>1, <2>3, <3>1
  <2>4. list \in SegmentListings(t)
    BY <1>4, <2>2, <2>3
  <2>5. Gives(sorted, order, list)
    BY <1>1, <2>1 DEF Gives
  <2> QED
    BY <2>4, <2>5
<1>6. ASSUME NEW list \in SegmentListings(t)
      PROVE  \E sorted \in SortedByDep(segs) : Gives(sorted, order, list)
  <2>1. /\ list \in [1..n -> S]
        /\ \A i, j \in 1..n : i < j => list[i] # list[j]
                                       /\ segments[list[i]].dep <= segments[list[j]].dep
    BY <1>4
  <2> DEFINE sorted == [p \in 1..n |-> CHOOSE j \in 1..n : order[j] = list[p]]
  <2>2. ASSUME NEW p \in 1..n PROVE sorted[p] \in 1..n /\ order[sorted[p]] = list[p]
    <3>1. \E j \in 1..n : order[j] = list[p]
      BY <1>1, <2>1
    <3> QED
      BY <3>1
  <2>3. sorted \in [1..n -> 1..n]
    BY <2>2
  <2> HIDE DEF sorted
  <2>4. \A i, j \in 1..n : i # j => sorted[i] # sorted[j]
    <3> SUFFICES ASSUME NEW i \in 1..n, NEW j \in 1..n, i # j PROVE sorted[i] # sorted[j]
      OBVIOUS
    <3>1. i < j \/ j < i
      BY <1>1
    <3>2. list[i] # list[j]
      BY <2>1, <3>1
    <3> QED
      BY <2>2, <3>2
  <2>5. \A i, j \in 1..n : i < j => segs[sorted[i]].dep <= segs[sorted[j]].dep
    BY <1>2, <2>1, <2>2
  <2>6. sorted \in SortedByDep(segs)
    BY <1>3, <2>3, <2>4, <2>5
  <2>7. Gives(sorted, order, list)
    BY <1>1, <2>2 DEF Gives
  <2> QED
    BY <2>6, <2>7
<1> QED
  BY <1>5, <1>6, <1>n

LEMMA SpansOfListings ==
  ASSUME WellFormed, NEW t \in DOMAIN trips, SegmentsOf(t) # {},
         NEW order \in SetToSeqs(SegmentsOf(t))
  PROVE  Spans(Submitted(order)) =
           {[report |-> NewDuty(t, list).report, release |-> NewDuty(t, list).release] :
              list \in SegmentListings(t)}
<1>1. PICK n, segs : /\ n = Cardinality(SegmentsOf(t))
                     /\ segs = Submitted(order)
  OBVIOUS
<1> DEFINE Span(o) == [report |-> segs[o[1]].dep - Ticks(ReportLeadMin),
                       release |-> segs[Last(o)].arr + Ticks(ReleaseLagMin)]
           Made(list) == [report |-> NewDuty(t, list).report,
                            release |-> NewDuty(t, list).release]
<1>2. n \in Nat \ {0} /\ DOMAIN segs = 1..n /\ DOMAIN order = 1..n
      /\ \A j \in 1..n : segs[j] = segments[order[j]]
  BY <1>1, SubmittedSegments DEF Submitted
<1>3. ASSUME NEW sorted \in SortedByDep(segs), NEW list \in SegmentListings(t),
             Gives(sorted, order, list)
      PROVE  Span(sorted) = Made(list)
  <2>1. Len(list) = n
    BY <1>1, ListingType
  <2>2. DOMAIN sorted = 1..n /\ Len(sorted) = n
    <3>1. Cardinality(DOMAIN segs) = n
      BY <1>2, FirstNumbers
    <3>2. sorted \in [1..n -> DOMAIN segs]
      BY <3>1 DEF SortedByDep, SetToSeqs
    <3> QED
      BY <1>2, <3>2
  <2>3. /\ 1 \in 1..n /\ n \in 1..n
    BY <1>2
  <2>4. segs[sorted[1]] = segments[list[1]] /\ segs[sorted[n]] = segments[list[n]]
    BY <1>2, <1>3, <2>3 DEF Gives
  <2> QED
    BY <2>1, <2>2, <2>4 DEF Last, NewDuty
<1>4. Spans(segs) = {Span(o) : o \in SortedByDep(segs)}
  BY DEF Spans
<1>5. /\ \A sorted \in SortedByDep(segs) :
           \E list \in SegmentListings(t) : Gives(sorted, order, list)
      /\ \A list \in SegmentListings(t) :
           \E sorted \in SortedByDep(segs) : Gives(sorted, order, list)
  BY <1>1, SortingLists
<1> HIDE DEF Span, Made
<1>6. {Span(o) : o \in SortedByDep(segs)} = {Made(list) : list \in SegmentListings(t)}
  BY <1>3, <1>5
<1> QED
  BY <1>1, <1>4, <1>6 DEF Made

(* However a trip is submitted, what is judged is a duty period that       *)
(* CreateDutyForTrip would make of it, and every such duty period may be   *)
(* judged (the sorts of compliance.go:128 and segment_store.go:63).        *)
THEOREM EvaluatedIsFlown == LegalSpec => []EvaluatedAsFlown
<1>1. LegalOK => EvaluatedAsFlown
  <2> SUFFICES ASSUME LegalOK, NEW t \in DOMAIN trips, SegmentsOf(t) # {},
                      NEW order \in SetToSeqs(SegmentsOf(t))
               PROVE  Spans([i \in DOMAIN order |-> segments[order[i]]]) =
                        {[report |-> duty.report, release |-> duty.release] :
                           duty \in {NewDuty(t, list) : list \in SegmentListings(t)}}
    BY DEF EvaluatedAsFlown
  <2>1. WellFormed
    BY DEF LegalOK, Replayable
  <2>2. {[report |-> duty.report, release |-> duty.release] :
           duty \in {NewDuty(t, list) : list \in SegmentListings(t)}} =
        {[report |-> NewDuty(t, list).report, release |-> NewDuty(t, list).release] :
              list \in SegmentListings(t)}
    OBVIOUS
  <2> QED
    BY <2>1, <2>2, SpansOfListings DEF Submitted
<1> QED
  BY <1>1, LegalWellFormed, PTL


-----------------------------------------------------------------------------
(* The history the rules read *)

(* A rest ends after it starts, and its row holds its length.              *)
RestsTimed ==
  \A r \in DOMAIN rests :
    /\ rests[r].start < rests[r].end
    /\ rests[r].minutes = Minutes(rests[r].end - rests[r].start)

(* What the schedule service promises of tables and log also holds beside  *)
(* evaluations and replays.                                                *)
History == ClosureLoggedOnce /\ DutiesAsCreated /\ RestsLogged /\ RestsTimed

LEMMA ScheduleStepHistory ==
  ASSUME WellFormed, History, [Next]_vars
  PROVE  History'
<1>1. ClosureLoggedOnce'
  BY CloseDutyClosureLogged, OtherStepsClosureLogged DEF History
<1>2. DutiesAsCreated'
  BY StepDutiesAsCreated DEF History
<1>3. CASE \E c \in Crew, in \in RestInputs : CreateRest(c, in)
  <2>1. PICK c \in Crew, in \in RestInputs : CreateRest(c, in)
    BY <1>3
  <2>2. RestsLogged'
    BY <2>1, CreateRestLogged DEF History
  <2>3. PICK q, row : q = Len(rests) + 1 /\ row = RestRow(c, in)
    OBVIOUS
  <2>4. /\ DOMAIN rests' = DOMAIN rests \cup {q}
        /\ \A r \in DOMAIN rests : rests'[r] = rests[r]
        /\ rests'[q] = row /\ in.end > in.start
    BY <2>1, <2>3, RestingAppends
  <2>5. in.start \in Int /\ in.end \in Int
    BY InputsAssumption
  <2>6. row.start < row.end /\ row.minutes = Minutes(row.end - row.start)
    BY <2>3, <2>4, <2>5 DEF RestRow
  <2>7. RestsTimed'
    BY <2>4, <2>6 DEF History, RestsTimed, Minutes
  <2> QED
    BY <1>1, <1>2, <2>2, <2>7 DEF History
<1>4. CASE ~ \E c \in Crew, in \in RestInputs : CreateRest(c, in)
  <2>1. /\ rests' = rests
        /\ DOMAIN events \subseteq DOMAIN events'
        /\ \A i \in DOMAIN events : events'[i] = events[i]
        /\ \A i \in DOMAIN events' \ DOMAIN events : events'[i].kind # "REST_COMPLETED"
    BY <1>4, NoRestLogged
  <2>2. RestsLogged'
    BY <2>1 DEF History, RestsLogged, RestCompleted
  <2>3. RestsTimed'
    BY <2>1 DEF History, RestsTimed, Minutes
  <2> QED
    BY <1>1, <1>2, <2>2, <2>3 DEF History
<1> QED
  BY <1>3, <1>4

LEMMA ComplianceStepHistory ==
  ASSUME History, UNCHANGED tables,
         \A i \in DOMAIN events : i \in DOMAIN events' /\ events'[i] = events[i],
         \A i \in DOMAIN events' \ DOMAIN events :
           events'[i].kind \in {"EVALUATION", "REPLAY_OVERRIDE"}
  PROVE  History'
<1>1. trips' = trips /\ segments' = segments /\ duties' = duties /\ rests' = rests
  BY DEF tables
<1>2. ClosureLoggedOnce'
  BY <1>1, ClosuresStay DEF History
<1>3. DutiesAsCreated'
  <2>1. DutiesAsCreated
    BY DEF History
  <2> QED
    BY <1>1, <2>1 DEF DutiesAsCreated, FliesForward, Follows, SegmentsOf
<1>4. RestsLogged'
  BY <1>1 DEF History, RestsLogged, RestCompleted
<1>5. RestsTimed'
  BY <1>1 DEF History, RestsTimed, Minutes
<1> QED
  BY <1>2, <1>3, <1>4, <1>5 DEF History

LEMMA HistoryAlways == LegalSpec => []History
<1>1. LegalInit => History
  BY DEF LegalInit, ReplayInit, Init, History, ClosureLoggedOnce, DutiesAsCreated, FliesForward,
         RestsLogged, RestsTimed
<1>2. LegalOK /\ History /\ [LegalNext]_legalvars => History'
  <2> SUFFICES ASSUME LegalOK, History, [LegalNext]_legalvars PROVE History'
    OBVIOUS
  <2>1. WellFormed /\ Replayable
    BY DEF LegalOK, Replayable
  <2>2. ASSUME NEW c \in Crew, NEW asOf \in ReplayAsOfs, ReplayForCrew(c, asOf) PROVE History'
    BY <2>1, <2>2, ReplayKeepsLog, ComplianceStepHistory
  <2>3. ASSUME NEW c \in Crew, NEW req \in Requests, EvaluateTrip(c, req) PROVE History'
    BY <2>1, <2>3, EvaluateTripAppends, ComplianceStepHistory
  <2> QED
    BY <2>1, <2>2, <2>3, ScheduleStepHistory, LegalNextCases
<1> QED
  BY <1>1, <1>2, LegalWellFormed, PTL DEF LegalSpec


-----------------------------------------------------------------------------
(* What the evaluator reads, seen as logs that RestDebtProofs is about *)

Facts == INSTANCE RestDebtProofs WITH
  DutyInputs <- {}, RestInputs <- {}, AsOfs <- {}, Proposals <- {},
  MaxLog <- 0, MaxLongLog <- 0, LongEntries <- {}, log <- events

(* The two instances define the same operators.                            *)
LEMMA SameOwed == ASSUME NEW l PROVE Facts!CompensatoryOwed(l) = Debt!CompensatoryOwed(l)
BY Zenon DEF Facts!Duties, Debt!Duties, Facts!Rests, Debt!Rests, Facts!RestsOfType,
             Debt!RestsOfType, Facts!Report, Debt!Report, Facts!Earlier, Debt!Earlier,
             Facts!ReportedBefore, Debt!ReportedBefore, Facts!Preceding, Debt!Preceding,
             Facts!Arrange, Debt!Arrange, Facts!Walk, Debt!Walk, Facts!DutiesBefore,
             Debt!DutiesBefore, Facts!Previous, Debt!Previous, Facts!Gap, Debt!Gap,
             Facts!Reduced, Debt!Reduced, Facts!ReducedFloor, Debt!ReducedFloor, Facts!MinRest,
             Debt!MinRest, Facts!StreamTime, Debt!StreamTime, Facts!StreamItems,
             Debt!StreamItems, Facts!StreamBefore, Debt!StreamBefore, Facts!Stream, Debt!Stream,
             Facts!Deficit, Debt!Deficit, Facts!Amounts, Debt!Amounts, Facts!SumAmounts,
             Debt!SumAmounts, Facts!SumOldest, Debt!SumOldest, Facts!Pay, Debt!Pay,
             Facts!Settle, Debt!Settle, Facts!CompensatoryWindow, Debt!CompensatoryWindow,
             Facts!OpenDeficits, Debt!OpenDeficits, Facts!CompensatoryOwed,
             Debt!CompensatoryOwed, Facts!SumFunction, Debt!SumFunction, Facts!SumFunctionOnSet,
             Debt!SumFunctionOnSet, Facts!FoldFunctionOnSet, Debt!FoldFunctionOnSet,
             Facts!MapThenFoldSet, Debt!MapThenFoldSet, Facts!Cardinality, Debt!Cardinality,
             Facts!IsFiniteSet, Debt!IsFiniteSet

LEMMA SameStreak == ASSUME NEW l, NEW t PROVE Facts!EarlyStreak(l, t) = Debt!EarlyStreak(l, t)
BY Zenon DEF Facts!StreakStep, Debt!StreakStep, Facts!StreakStream, Debt!StreakStream,
             Facts!StreakItems, Debt!StreakItems, Facts!StreakBefore, Debt!StreakBefore,
             Facts!StreamTime, Debt!StreamTime, Facts!Report, Debt!Report, Facts!Duties,
             Debt!Duties, Facts!Rests, Debt!Rests, Facts!Walk, Debt!Walk, Facts!Arrange,
             Debt!Arrange, Facts!Preceding, Debt!Preceding, Facts!Cardinality, Debt!Cardinality,
             Facts!IsFiniteSet, Debt!IsFiniteSet, Facts!EarlyStreak, Debt!EarlyStreak,
             Facts!ResetRest, Debt!ResetRest, Facts!IsEarly, Debt!IsEarly, Facts!Day, Debt!Day

LEMMA SameWeekly ==
  ASSUME NEW l, NEW t PROVE Facts!OwesWeeklyRest(l, t) <=> Debt!OwesWeeklyRest(l, t)
BY Zenon DEF Facts!OwesWeeklyRest, Debt!OwesWeeklyRest, Facts!CompletedInWeek,
             Debt!CompletedInWeek, Facts!LongEnough, Debt!LongEnough, Facts!Rests, Debt!Rests,
             Facts!WeeklyRest, Debt!WeeklyRest, Facts!WeeklyRestHomeBase,
             Debt!WeeklyRestHomeBase, Facts!Window168h, Debt!Window168h

(* The closures and rests of a crew member, and the rows of their duties   *)
(* and rests, are logs as RestDebtProofs takes them.                       *)
LEMMA EntryFacts ==
  ASSUME WellFormed, History
  PROVE  /\ \A d \in DOMAIN duties :
              /\ duties[d].report \in Int /\ duties[d].release \in Int /\ duties[d].owe \in BOOLEAN
              /\ duties[d].report < duties[d].release
         /\ \A r \in DOMAIN rests :
              /\ rests[r].start \in Int /\ rests[r].end \in Int
              /\ rests[r].start < rests[r].end
              /\ rests[r].minutes = rests[r].end - rests[r].start
<1>1. ASSUME NEW d \in DOMAIN duties
      PROVE  /\ duties[d].report \in Int /\ duties[d].release \in Int /\ duties[d].owe \in BOOLEAN
             /\ duties[d].report < duties[d].release
  <2>1. duties[d] \in DutyType
    BY TableRows
  <2>2. duties[d].release > duties[d].report
    BY DEF History, DutiesAsCreated, Follows
  <2> QED
    BY <2>1, <2>2 DEF DutyType
<1>2. ASSUME NEW r \in DOMAIN rests
      PROVE  /\ rests[r].start \in Int /\ rests[r].end \in Int
             /\ rests[r].start < rests[r].end
             /\ rests[r].minutes = rests[r].end - rests[r].start
  <2>1. rests[r].start \in Int /\ rests[r].end \in Int
    BY TableRows DEF RestType
  <2>2. rests[r].start < rests[r].end /\ rests[r].minutes = Minutes(rests[r].end - rests[r].start)
    BY DEF History, RestsTimed
  <2> QED
    BY <2>1, <2>2, MinutesAssumption DEF Minutes
<1> QED
  BY <1>1, <1>2

LEMMA ClosureFacts ==
  ASSUME WellFormed, History, NEW i \in DOMAIN events, events[i].kind = "DUTY_CLOSED"
  PROVE  \E d \in DOMAIN duties :
           /\ Closed(d) /\ events[i].crew = duties[d].crew
           /\ events[i].ts = duties[d].release
           /\ events[i].fdp = duties[d].release - duties[d].report
           /\ events[i].owe \in BOOLEAN
<1>1. PICK d \in DOMAIN duties : Closed(d) /\ events[i] = DutyClosed(d, duties[d].ext)
  BY DEF History, ClosureLoggedOnce
<1>2. duties[d].ext \in Int
  BY TableRows DEF DutyType
<1>3. (duties[d].ext > 0) \in BOOLEAN
  BY <1>2
<1>4. duties[d].report \in Int /\ duties[d].release \in Int
  BY EntryFacts
<1>5. FDPMin(duties[d]) = duties[d].release - duties[d].report
  BY <1>4, MinutesAssumption DEF FDPMin, Minutes
<1> QED
  BY <1>1, <1>3, <1>5 DEF DutyClosed

LEMMA RestFacts ==
  ASSUME WellFormed, History, NEW i \in DOMAIN events, events[i].kind = "REST_COMPLETED"
  PROVE  \E r \in DOMAIN rests :
           /\ events[i].crew = rests[r].crew /\ events[i].ts = rests[r].end
           /\ events[i].type = rests[r].type
           /\ events[i].duration = rests[r].end - rests[r].start
<1>1. PICK r \in DOMAIN rests : events[i] = RestCompleted(r, rests[r])
  BY DEF History, RestsLogged
<1>2. rests[r].minutes = rests[r].end - rests[r].start
  BY EntryFacts
<1> QED
  BY <1>1, <1>2 DEF RestCompleted

LEMMA FactsReadable ==
  ASSUME WellFormed, History, NEW c
  PROVE  Facts!Readable(FactsOf(c))
<1>1. PICK l : l = FactsOf(c)
  OBVIOUS
<1>2. DOMAIN l = FactIds(c) /\ \A i \in FactIds(c) : l[i] = events[i]
  BY <1>1 DEF FactsOf, Restrict
<1>3. FactIds(c) \subseteq DOMAIN events
  BY DEF FactIds
<1>4. DOMAIN l \subseteq Int /\ IsFiniteSet(DOMAIN l)
  <2>1. Len(events) \in Nat /\ DOMAIN events = 1..Len(events)
    BY DEF WellFormed
  <2>2. IsFiniteSet(1..Len(events))
    BY <2>1, FS_Interval
  <2> QED
    BY <1>2, <1>3, <2>1, <2>2, FS_Subset
<1>5. Facts!Duties(l) \cup Facts!Rests(l) = DOMAIN l /\ Facts!Duties(l) \cap Facts!Rests(l) = {}
  BY <1>2 DEF Facts!Duties, Facts!Rests, FactIds
<1>6. ASSUME NEW d \in Facts!Duties(l)
      PROVE  /\ l[d].ts \in Int /\ l[d].fdp \in Nat /\ l[d].fdp > 0 /\ l[d].owe \in BOOLEAN
             /\ Facts!Report(l, d) \in Int /\ Facts!Report(l, d) < l[d].ts
  <2>1. d \in DOMAIN events /\ l[d] = events[d] /\ events[d].kind = "DUTY_CLOSED"
    BY <1>2, <1>3 DEF Facts!Duties
  <2>2. PICK k \in DOMAIN duties : /\ events[d].ts = duties[k].release
                                   /\ events[d].fdp = duties[k].release - duties[k].report
                                   /\ events[d].owe \in BOOLEAN
    BY <2>1, ClosureFacts
  <2>3. duties[k].report \in Int /\ duties[k].release \in Int /\ duties[k].report < duties[k].release
    BY EntryFacts
  <2> QED
    BY <2>1, <2>2, <2>3 DEF Facts!Report
<1>7. ASSUME NEW r \in Facts!Rests(l)
      PROVE  l[r].ts \in Int /\ l[r].duration \in Nat /\ l[r].duration > 0
  <2>1. r \in DOMAIN events /\ l[r] = events[r] /\ events[r].kind = "REST_COMPLETED"
    BY <1>2, <1>3 DEF Facts!Rests
  <2>2. PICK q \in DOMAIN rests : /\ events[r].ts = rests[q].end
                                  /\ events[r].duration = rests[q].end - rests[q].start
    BY <2>1, RestFacts
  <2>3. rests[q].start \in Int /\ rests[q].end \in Int /\ rests[q].start < rests[q].end
    BY EntryFacts
  <2> QED
    BY <2>1, <2>2, <2>3
<1>8. \A i \in DOMAIN l : l[i].ts \in Int
  BY <1>5, <1>6, <1>7
<1>9. /\ \A d \in Facts!Duties(l) :
           /\ l[d].fdp \in Nat /\ l[d].fdp > 0 /\ l[d].owe \in BOOLEAN
           /\ Facts!Report(l, d) \in Int /\ Facts!Report(l, d) < l[d].ts
      /\ \A r \in Facts!Rests(l) : l[r].duration \in Nat /\ l[r].duration > 0
  BY <1>6, <1>7
<1>10. Facts!Readable(l)
  BY <1>4, <1>5, <1>8, <1>9 DEF Facts!Readable, Facts!IsFiniteSet, IsFiniteSet
<1> QED
  BY <1>1, <1>10

LEMMA RowsPlaced ==
  ASSUME WellFormed, NEW c, NEW l, l = RowsOf(c)
  PROVE  /\ DOMAIN l = {DutyPlace(d) : d \in ClosedDutiesOf(c)} \cup {RestPlace(r) : r \in RestsOf(c)}
         /\ \A d \in ClosedDutiesOf(c) : d \in Nat /\ l[DutyPlace(d)] = DutyFact(duties[d])
         /\ \A r \in RestsOf(c) : r \in Nat /\ l[RestPlace(r)] = RestFact(rests[r])
<1> DEFINE P == {DutyPlace(d) : d \in ClosedDutiesOf(c)} \cup {RestPlace(r) : r \in RestsOf(c)}
           Row(p) == IF p % 2 = 0 THEN DutyFact(duties[p \div 2]) ELSE RestFact(rests[p \div 2])
<1>1. l = [p \in P |-> Row(p)]
  BY DEF RowsOf
<1>2. ASSUME NEW d \in ClosedDutiesOf(c)
      PROVE  d \in Nat /\ DutyPlace(d) \in P /\ Row(DutyPlace(d)) = DutyFact(duties[d])
  <2>1. d \in Nat
    BY TableRows DEF ClosedDutiesOf
  <2>2. (2 * d) % 2 = 0 /\ (2 * d) \div 2 = d
    BY <2>1
  <2> QED
    BY <2>1, <2>2 DEF DutyPlace
<1>3. ASSUME NEW r \in RestsOf(c)
      PROVE  r \in Nat /\ RestPlace(r) \in P /\ Row(RestPlace(r)) = RestFact(rests[r])
  <2>1. r \in Nat
    BY TableRows DEF RestsOf
  <2>2. (2 * r + 1) % 2 = 1 /\ (2 * r + 1) \div 2 = r
    BY <2>1
  <2> QED
    BY <2>1, <2>2 DEF RestPlace
<1>4. DOMAIN l = P /\ \A p \in P : l[p] = Row(p)
  BY <1>1
<1> HIDE DEF Row
<1> QED
  BY <1>2, <1>3, <1>4

Placed(c, l) ==
  /\ DOMAIN l = {DutyPlace(d) : d \in ClosedDutiesOf(c)} \cup {RestPlace(r) : r \in RestsOf(c)}
  /\ \A d \in ClosedDutiesOf(c) : l[DutyPlace(d)] = DutyFact(duties[d])
  /\ \A r \in RestsOf(c) : l[RestPlace(r)] = RestFact(rests[r])
RowsInPlace == \A c : Placed(c, RowsOf(c))
LEMMA RowsArePlaced == WellFormed => RowsInPlace
<1> SUFFICES ASSUME WellFormed, NEW c PROVE Placed(c, RowsOf(c))
  BY DEF RowsInPlace
<1>1. PICK l : l = RowsOf(c)
  OBVIOUS
<1>2. Placed(c, l)
  BY <1>1, RowsPlaced DEF Placed
<1> QED
  BY <1>1, <1>2

LEMMA RowsReadable ==
  ASSUME WellFormed, History, NEW c
  PROVE  Facts!Readable(RowsOf(c))
<1>1. PICK l : l = RowsOf(c)
  OBVIOUS
<1>2. PICK D, R : D = ClosedDutiesOf(c) /\ R = RestsOf(c)
  OBVIOUS
<1>3. /\ DOMAIN l = {DutyPlace(d) : d \in D} \cup {RestPlace(r) : r \in R}
      /\ \A d \in D : d \in Nat /\ d \in DOMAIN duties /\ l[DutyPlace(d)] = DutyFact(duties[d])
      /\ \A r \in R : r \in Nat /\ r \in DOMAIN rests /\ l[RestPlace(r)] = RestFact(rests[r])
  BY <1>1, <1>2, RowsPlaced DEF ClosedDutiesOf, RestsOf
<1>4. IsFiniteSet(DOMAIN l)
  <2>1. Len(duties) \in Nat /\ Len(rests) \in Nat
        /\ DOMAIN duties = 1..Len(duties) /\ DOMAIN rests = 1..Len(rests)
    BY DEF WellFormed, TablesOK
  <2>2. PICK n \in Nat : n = 2 * Len(duties) + 2 * Len(rests) + 1
    BY <2>1
  <2>3. \A d \in D : DutyPlace(d) \in 0..n
    BY <1>3, <2>1, <2>2 DEF DutyPlace
  <2>4. \A r \in R : RestPlace(r) \in 0..n
    BY <1>3, <2>1, <2>2 DEF RestPlace
  <2>5. DOMAIN l \subseteq 0..n
    BY <1>3, <2>3, <2>4
  <2>6. IsFiniteSet(0..n)
    BY FS_Interval
  <2> QED
    BY <2>5, <2>6, FS_Subset
<1>5. \A d \in D : DutyPlace(d) \in Int /\ l[DutyPlace(d)].kind = "DUTY_CLOSED"
  <2>1. ASSUME NEW d \in D PROVE DutyPlace(d) \in Int
    <3>1. d \in Nat
      BY <1>3
    <3> QED
      BY <3>1 DEF DutyPlace
  <2>2. \A row : DutyFact(row).kind = "DUTY_CLOSED"
    BY DEF DutyFact
  <2>3. \A d \in D : l[DutyPlace(d)].kind = "DUTY_CLOSED"
    BY <1>3, <2>2
  <2> QED
    BY <2>1, <2>3
<1>6. \A r \in R : RestPlace(r) \in Int /\ l[RestPlace(r)].kind = "REST_COMPLETED"
  <2>1. ASSUME NEW r \in R PROVE RestPlace(r) \in Int
    <3>1. r \in Nat
      BY <1>3
    <3> QED
      BY <3>1 DEF RestPlace
  <2>2. \A row : RestFact(row).kind = "REST_COMPLETED"
    BY DEF RestFact
  <2>3. \A r \in R : l[RestPlace(r)].kind = "REST_COMPLETED"
    BY <1>3, <2>2
  <2> QED
    BY <2>1, <2>3
<1>7. /\ Facts!Duties(l) = {DutyPlace(d) : d \in D}
      /\ Facts!Rests(l) = {RestPlace(r) : r \in R}
  <2>1. "DUTY_CLOSED" # "REST_COMPLETED"
    OBVIOUS
  <2> QED
    BY <1>3, <1>5, <1>6, <2>1 DEF Facts!Duties, Facts!Rests
<1>8. Facts!Duties(l) \cap Facts!Rests(l) = {}
  BY <1>5, <1>6, <1>7
<1>9. ASSUME NEW p \in Facts!Duties(l)
      PROVE  /\ l[p].ts \in Int /\ l[p].fdp \in Nat /\ l[p].fdp > 0 /\ l[p].owe \in BOOLEAN
             /\ Facts!Report(l, p) \in Int /\ Facts!Report(l, p) < l[p].ts
  <2>1. PICK d \in DOMAIN duties : l[p] = DutyFact(duties[d])
    BY <1>3, <1>7
  <2>2. /\ duties[d].report \in Int /\ duties[d].release \in Int /\ duties[d].owe \in BOOLEAN
        /\ duties[d].report < duties[d].release
    BY EntryFacts
  <2> QED
    BY <2>1, <2>2 DEF Facts!Report, DutyFact
<1>10. ASSUME NEW p \in Facts!Rests(l)
       PROVE  l[p].ts \in Int /\ l[p].duration \in Nat /\ l[p].duration > 0
  <2>1. PICK r \in DOMAIN rests : l[p] = RestFact(rests[r])
    BY <1>3, <1>7
  <2>2. rests[r].start \in Int /\ rests[r].end \in Int /\ rests[r].start < rests[r].end
    BY EntryFacts
  <2> QED
    BY <2>1, <2>2 DEF RestFact
<1>11. /\ DOMAIN l \subseteq Int
       /\ Facts!Duties(l) \cup Facts!Rests(l) = DOMAIN l
  BY <1>3, <1>5, <1>6, <1>7
<1>12. \A p \in DOMAIN l : l[p].ts \in Int
  BY <1>9, <1>10, <1>11
<1>13. /\ \A p \in Facts!Duties(l) :
            /\ l[p].fdp \in Nat /\ l[p].fdp > 0 /\ l[p].owe \in BOOLEAN
            /\ Facts!Report(l, p) \in Int /\ Facts!Report(l, p) < l[p].ts
       /\ \A p \in Facts!Rests(l) : l[p].duration \in Nat /\ l[p].duration > 0
  BY <1>9, <1>10
<1>14. Facts!Readable(l)
  BY <1>4, <1>8, <1>11, <1>12, <1>13 DEF Facts!Readable, Facts!IsFiniteSet, IsFiniteSet
<1> QED
  BY <1>1, <1>14

(* In every state.                                                         *)
LogsReadable == \A c \in Crew : Facts!Readable(FactsOf(c)) /\ Facts!Readable(RowsOf(c))
LEMMA LogsAlwaysReadable == LegalSpec => []LogsReadable
<1>1. LegalOK /\ History => LogsReadable
  BY FactsReadable, RowsReadable DEF LegalOK, Replayable, LogsReadable
<1> QED
  BY <1>1, LegalWellFormed, HistoryAlways, PTL

-----------------------------------------------------------------------------
(* Resting never breaks a rule *)

(* A rest adds itself to the log of who rested, and to their rows.         *)
LEMMA RestAddsFact ==
  ASSUME WellFormed, LogsReadable, LogsReadable', NEW c \in Crew, NEW in \in RestInputs,
         CreateRest(c, in), NEW l, l = FactsOf(c), NEW m, m = FactsOf(c)'
  PROVE  \E e, x : Facts!RestAdded(l, e, x, m)
<1>1. PICK x, q, e : /\ x = Len(events) + 1 /\ q = Len(rests) + 1
                     /\ e = RestCompleted(q, RestRow(c, in))
  OBVIOUS
<1>2. /\ DOMAIN events' = DOMAIN events \cup {x} /\ x \notin DOMAIN events
      /\ \A i \in DOMAIN events : events'[i] = events[i]
      /\ events'[x] = e
  BY <1>1, RestingAppends
<1>3. e.crew = c /\ e.kind = "REST_COMPLETED"
  BY <1>1 DEF RestCompleted, RestRow
<1>4. FactIds(c)' = FactIds(c) \cup {x} /\ FactIds(c) \subseteq DOMAIN events
  BY <1>2, <1>3 DEF FactIds
<1>5. /\ DOMAIN l = FactIds(c) /\ \A i \in FactIds(c) : l[i] = events[i]
      /\ DOMAIN m = FactIds(c)' /\ \A i \in FactIds(c)' : m[i] = events'[i]
  BY DEF FactsOf, Restrict
<1>6. Facts!Extended(l, e, x, m)
  BY <1>2, <1>4, <1>5 DEF Facts!Extended
<1>7. Facts!Readable(l) /\ Facts!Readable(m)
  BY DEF LogsReadable
<1>8. e.duration \in Nat /\ e.duration > 0 /\ e.ts \in Int
  <2>1. x \in DOMAIN m /\ m[x] = e
    BY <1>6 DEF Facts!Extended
  <2>2. x \in Facts!Rests(m)
    BY <1>3, <2>1 DEF Facts!Rests
  <2> QED
    BY <1>7, <2>1, <2>2 DEF Facts!Readable
<1>9. Facts!RestAdded(l, e, x, m)
  BY <1>3, <1>6, <1>7, <1>8 DEF Facts!RestAdded
<1> QED
  BY <1>9

LEMMA RestAddsRow ==
  ASSUME WellFormed, WellFormed', LogsReadable, LogsReadable', NEW c \in Crew,
         NEW in \in RestInputs, CreateRest(c, in), NEW l, l = RowsOf(c), NEW m, m = RowsOf(c)'
  PROVE  \E e, x : Facts!RestAdded(l, e, x, m)
<1>1. PICK q, e : q = Len(rests) + 1 /\ e = RestFact(RestRow(c, in))
  OBVIOUS
<1>2. /\ DOMAIN rests' = DOMAIN rests \cup {q} /\ q \notin DOMAIN rests
      /\ \A r \in DOMAIN rests : rests'[r] = rests[r]
      /\ rests'[q] = RestRow(c, in) /\ duties' = duties
  BY <1>1, RestingAppends
<1>3. PICK D, R, S : D = ClosedDutiesOf(c) /\ R = RestsOf(c) /\ S = RestsOf(c)'
  OBVIOUS
<1>4. ClosedDutiesOf(c)' = D
  BY <1>2, <1>3 DEF ClosedDutiesOf, Closed
<1>5. S = R \cup {q} /\ R \subseteq DOMAIN rests
  <2>1. rests'[q].crew = c
    BY <1>2 DEF RestRow
  <2> QED
    BY <1>2, <1>3, <2>1 DEF RestsOf
<1>6. /\ DOMAIN l = {DutyPlace(d) : d \in D} \cup {RestPlace(r) : r \in R}
      /\ \A d \in D : d \in Nat /\ l[DutyPlace(d)] = DutyFact(duties[d])
      /\ \A r \in R : r \in Nat /\ l[RestPlace(r)] = RestFact(rests[r])
  BY <1>3, RowsPlaced
<1>7. /\ DOMAIN m = {DutyPlace(d) : d \in D} \cup {RestPlace(r) : r \in S}
      /\ \A d \in D : m[DutyPlace(d)] = DutyFact(duties[d])
      /\ \A r \in S : m[RestPlace(r)] = RestFact(rests'[r])
  <2>1. RowsInPlace'
    BY RowsArePlaced, PTL
  <2>2. Placed(c, m)'
    BY <2>1 DEF RowsInPlace
  <2> QED
    BY <1>2, <1>3, <1>4, <2>2 DEF Placed
<1>8. PICK x : x = RestPlace(q)
  OBVIOUS
<1>9. x \notin DOMAIN l
  <2>1. q \in Nat
    BY <1>1 DEF WellFormed, TablesOK
  <2>2. \A d \in D : DutyPlace(d) # x
    BY <1>6, <1>8, <2>1 DEF DutyPlace, RestPlace
  <2>3. \A r \in R : RestPlace(r) # x
    BY <1>2, <1>5, <1>6, <1>8, <2>1 DEF RestPlace
  <2> QED
    BY <1>6, <2>2, <2>3
<1>10. \A p \in DOMAIN l : m[p] = l[p]
  <2>1. \A d \in D : m[DutyPlace(d)] = l[DutyPlace(d)]
    BY <1>6, <1>7
  <2>2. \A r \in R : m[RestPlace(r)] = l[RestPlace(r)]
    BY <1>2, <1>5, <1>6, <1>7
  <2> QED
    BY <1>6, <2>1, <2>2
<1>11. DOMAIN m = DOMAIN l \cup {x} /\ m[x] = e
  BY <1>1, <1>2, <1>5, <1>6, <1>7, <1>8
<1>12. Facts!Extended(l, e, x, m)
  BY <1>9, <1>10, <1>11 DEF Facts!Extended
<1>13. Facts!Readable(l) /\ Facts!Readable(m)
  BY DEF LogsReadable
<1>14. e.kind = "REST_COMPLETED"
  BY <1>1 DEF RestFact
<1>15. e.duration \in Nat /\ e.duration > 0 /\ e.ts \in Int
  <2>1. x \in Facts!Rests(m)
    BY <1>11, <1>14 DEF Facts!Rests
  <2> QED
    BY <1>11, <1>13, <2>1 DEF Facts!Readable
<1>16. Facts!RestAdded(l, e, x, m)
  BY <1>12, <1>13, <1>14, <1>15 DEF Facts!RestAdded
<1> QED
  BY <1>16

(* To the rules, input b is no worse than a: it differs from a in owing no *)
(* more, in having rested for the week, and in a streak that is no longer. *)
NoWorse(b, a) ==
  /\ a.owed \in Int /\ b.owed \in Int /\ b.owed <= a.owed
  /\ a.streak \in Int /\ b.streak \in Int /\ b.streak <= a.streak
  /\ a.weekly => b.weekly
  /\ \A f \in {"hour", "segments", "fdp", "augmented", "facility", "break", "used28d", "used168h",
               "used365d", "closed168h", "rest", "extension", "extended"} : b[f] = a[f]

LEMMA NoWorseBreaksNoMore ==
  ASSUME NEW a, NEW b, NoWorse(b, a)
  PROVE  Rules!Violations(b) \subseteq Rules!Violations(a)
<1>1. /\ b.hour = a.hour /\ b.segments = a.segments /\ b.fdp = a.fdp /\ b.augmented = a.augmented
      /\ b.facility = a.facility /\ b.break = a.break
      /\ b.used28d = a.used28d /\ b.used168h = a.used168h /\ b.used365d = a.used365d
      /\ b.closed168h = a.closed168h /\ b.rest = a.rest /\ b.extension = a.extension
      /\ b.extended = a.extended
  BY DEF NoWorse
<1>2. Rules!FDPLimit(b) = Rules!FDPLimit(a)
  BY <1>1 DEF Rules!FDPLimit
<1>3. Rules!MinRestBroken(b) => Rules!MinRestBroken(a)
  BY <1>1 DEF NoWorse, Rules!MinRestBroken
<1>4. b.streak + 1 > Rules!EarlyStartStreakMax => a.streak + 1 > Rules!EarlyStartStreakMax
  BY DEF NoWorse, Rules!EarlyStartStreakMax
<1>5. ~b.weekly => ~a.weekly
  BY DEF NoWorse
<1>6. ASSUME NEW rule \in Rules!RuleCodes, Rules!Breaks(b, rule)
      PROVE  Rules!Breaks(a, rule)
  <2>1. CASE rule = "R1_FDP_LIMIT"
    BY <1>1, <1>2, <1>6, <2>1 DEF Rules!Breaks
  <2>2. CASE rule = "R4_28D_FLIGHT_TIME"
    BY <1>1, <1>6, <2>2 DEF Rules!Breaks
  <2>3. CASE rule = "R5_168H_FDP"
    BY <1>1, <1>6, <2>3 DEF Rules!Breaks
  <2>4. CASE rule = "R6_365D_FLIGHT_TIME"
    BY <1>1, <1>6, <2>4 DEF Rules!Breaks
  <2>5. CASE rule = "R7_MIN_REST"
    BY <1>3, <1>6, <2>5 DEF Rules!Breaks
  <2>6. CASE rule = "R8_WEEKLY_REST"
    BY <1>1, <1>5, <1>6, <2>6 DEF Rules!Breaks
  <2>7. CASE rule = "R9_EARLY_START_STREAK"
    BY <1>1, <1>4, <1>6, <2>7 DEF Rules!Breaks
  <2>8. CASE rule = "R10_UNFORESEEN_EXTENSION"
    BY <1>1, <1>6, <2>8 DEF Rules!Breaks
  <2> QED
    BY <2>1, <2>2, <2>3, <2>4, <2>5, <2>6, <2>7, <2>8 DEF Rules!RuleCodes
<1> QED
  BY <1>6 DEF Rules!Violations

(* What a rest in the log does to what is read out of it.                  *)
LEMMA RestRead ==
  ASSUME NEW l, NEW e, NEW x, NEW m, Facts!RestAdded(l, e, x, m), NEW t \in Int
  PROVE  /\ Debt!CompensatoryOwed(l) \in Int /\ Debt!CompensatoryOwed(m) \in Int
         /\ Debt!CompensatoryOwed(m) <= Debt!CompensatoryOwed(l)
         /\ Debt!EarlyStreak(l, t) \in Int /\ Debt!EarlyStreak(m, t) \in Int
         /\ Debt!EarlyStreak(m, t) <= Debt!EarlyStreak(l, t)
         /\ Debt!OwesWeeklyRest(m, t) => Debt!OwesWeeklyRest(l, t)
         /\ SinceLastRelease(m, t) = SinceLastRelease(l, t)
<1>1. Facts!Readable(l) /\ Facts!Readable(m)
  BY DEF Facts!RestAdded
<1>2. /\ Debt!CompensatoryOwed(l) \in Int /\ Debt!CompensatoryOwed(m) \in Int
      /\ Debt!CompensatoryOwed(m) <= Debt!CompensatoryOwed(l)
  BY <1>1, SameOwed, Facts!OwedTyped, Facts!OwedNotRaised
<1>3. /\ Debt!EarlyStreak(l, t) \in Int /\ Debt!EarlyStreak(m, t) \in Int
      /\ Debt!EarlyStreak(m, t) <= Debt!EarlyStreak(l, t)
  BY <1>1, SameStreak, Facts!StreakTyped, Facts!StreakNotRaised
<1>4. Debt!OwesWeeklyRest(m, t) => Debt!OwesWeeklyRest(l, t)
  BY SameWeekly, Facts!WeeklyNotRaised
<1>5. SinceLastRelease(m, t) = SinceLastRelease(l, t)
  <2>1. Facts!Duties(m) = Facts!Duties(l) /\ \A i \in DOMAIN l : m[i] = l[i]
    BY Facts!StreamWithRest
  <2>2. Debt!Duties(m) = Debt!Duties(l) /\ Debt!Duties(l) \subseteq DOMAIN l
    BY <2>1 DEF Debt!Duties, Facts!Duties
  <2>3. Debt!ReleasesBefore(m, t) = Debt!ReleasesBefore(l, t)
    BY <2>1, <2>2 DEF Debt!ReleasesBefore
  <2> QED
    BY <2>3 DEF SinceLastRelease, Debt!RestSinceLast
<1> QED
  BY <1>2, <1>3, <1>4, <1>5

(* The rests of c change only when one of c is registered.                 *)
LEMMA RestsMovedByResting ==
  ASSUME Replayable, [LegalNext]_legalvars, NEW c \in Crew, RestsOf(c)' # RestsOf(c)
  PROVE  \E in \in RestInputs : CreateRest(c, in)
<1>1. WellFormed
  BY DEF Replayable
<1>2. rests' # rests
  BY DEF RestsOf
<1>3. [Next]_vars
  <2>1. ASSUME NEW b \in Crew, NEW asOf \in ReplayAsOfs, ReplayForCrew(b, asOf)
        PROVE  FALSE
    BY <1>2, <2>1, ReplayKeepsLog DEF tables
  <2>2. ASSUME NEW b \in Crew, NEW req \in Requests, EvaluateTrip(b, req)
        PROVE  FALSE
    BY <1>2, <2>2 DEF EvaluateTrip, tables
  <2> QED
    BY <2>1, <2>2, LegalNextCases
<1>4. PICK b \in Crew, in \in RestInputs : CreateRest(b, in)
  <2>1. \A d \in DOMAIN duties, requested \in ExtensionInputs :
          CloseDuty(d, requested) => rests' = rests
    BY DEF CloseDuty
  <2> QED
    BY <1>2, <1>3, <2>1 DEF Next, vars, CreateTrip, AddSegment, CreateDutyForTrip
<1>5. b = c
  <2>1. /\ DOMAIN rests' = DOMAIN rests \cup {Len(rests) + 1}
        /\ \A r \in DOMAIN rests : rests'[r] = rests[r]
        /\ rests'[Len(rests) + 1] = RestRow(b, in)
    BY <1>1, <1>4, RestingAppends
  <2>2. rests'[Len(rests) + 1].crew = b
    BY <2>1 DEF RestRow
  <2> QED
    BY <2>1, <2>2 DEF RestsOf
<1> QED
  BY <1>4, <1>5

(* A proposal with segments reports and is released at instants.           *)
LEMMA SpanTypes ==
  ASSUME NEW req \in Requests, req.segs # <<>>, NEW span \in Spans(req.segs)
  PROVE  span.report \in Int /\ span.release \in Int /\ req.asOf \in Int
<1>1. PICK segs, n : segs = req.segs /\ n = Len(segs)
  OBVIOUS
<1>2. segs \in Seq([dep: Int, arr: Int]) /\ segs # <<>> /\ req.asOf \in Int
  BY <1>1, RequestsAssumption
<1>3. n \in Nat /\ n >= 1 /\ DOMAIN segs = 1..n
  BY <1>1, <1>2
<1>4. PICK order \in SortedByDep(segs) :
        span = [report |-> segs[order[1]].dep - Ticks(ReportLeadMin),
                release |-> segs[Last(order)].arr + Ticks(ReleaseLagMin)]
  BY <1>1 DEF Spans
<1>5. order \in [1..n -> 1..n]
  BY <1>3, <1>4, OrdersOfNumbers DEF SortedByDep
<1>6. order[1] \in 1..n /\ Last(order) \in 1..n
  <2>1. order \in Seq(1..n) /\ Len(order) = n
    BY <1>3, <1>5
  <2> QED
    BY <1>3, <1>5, <2>1 DEF Last
<1>7. segs[order[1]].dep \in Int /\ segs[Last(order)].arr \in Int
  <2>1. \A i \in 1..n : segs[i] \in [dep: Int, arr: Int]
    BY <1>1, <1>2, <1>3, ElementOfSeq
  <2>2. \A i \in 1..n : segs[i].dep \in Int /\ segs[i].arr \in Int
    BY <2>1
  <2> QED
    BY <1>6, <2>2
<1>8. Ticks(ReportLeadMin) \in Int /\ Ticks(ReleaseLagMin) \in Int
  BY ConversionTypes, ParametersAssumption
<1>9. PICK dep, arr, lead, lag : /\ dep = segs[order[1]].dep /\ arr = segs[Last(order)].arr
                               /\ lead = Ticks(ReportLeadMin) /\ lag = Ticks(ReleaseLagMin)
  OBVIOUS
<1>10. span.report = dep - lead /\ span.release = arr + lag
  BY <1>4, <1>9
<1>11. dep \in Int /\ arr \in Int /\ lead \in Int /\ lag \in Int
  BY <1>7, <1>8, <1>9
<1>12. span.report \in Int /\ span.release \in Int
  BY <1>10, <1>11
<1> QED
  BY <1>2, <1>12

(* What the rules are asked after a rest is no worse than what they would  *)
(* have been asked before it.                                              *)
LEMMA RestedInputs ==
  ASSUME WellFormed, WellFormed', LogsReadable, LogsReadable', NEW c \in Crew,
         NEW in \in RestInputs, CreateRest(c, in),
         NEW req \in Requests, req.segs # <<>>, NEW rested \in EvalInputs(c, req)'
  PROVE  \E before \in EvalInputs(c, req) : NoWorse(rested, before)
<1>1. PICK l, m, k, n : l = FactsOf(c) /\ m = FactsOf(c)' /\ k = RowsOf(c) /\ n = RowsOf(c)'
  OBVIOUS
<1>2. PICK span \in Spans(req.segs) : rested = EvalInput(c, req, span, m, n)'
  <2>1. Spans(req.segs)' = Spans(req.segs)
    BY DEF Spans
  <2> QED
    BY <1>1, <2>1 DEF EvalInputs
<1>3. PICK before : before = EvalInput(c, req, span, l, k)
  OBVIOUS
<1>4. before \in EvalInputs(c, req)
  BY <1>1, <1>3 DEF EvalInputs
<1>5. span.report \in Int /\ req.asOf \in Int
  BY <1>2, SpanTypes
<1>6. \E e, x : Facts!RestAdded(l, e, x, m)
  BY <1>1, RestAddsFact
<1>7. \E e, x : Facts!RestAdded(k, e, x, n)
  BY <1>1, RestAddsRow
<1>8. /\ Debt!CompensatoryOwed(l) \in Int /\ Debt!CompensatoryOwed(m) \in Int
      /\ Debt!CompensatoryOwed(m) <= Debt!CompensatoryOwed(l)
      /\ SinceLastRelease(m, span.report) = SinceLastRelease(l, span.report)
  BY <1>5, <1>6, RestRead
<1>9. /\ Debt!EarlyStreak(k, span.report) \in Int /\ Debt!EarlyStreak(n, span.report) \in Int
      /\ Debt!EarlyStreak(n, span.report) <= Debt!EarlyStreak(k, span.report)
      /\ Debt!OwesWeeklyRest(n, req.asOf) => Debt!OwesWeeklyRest(k, req.asOf)
  BY <1>5, <1>7, RestRead
<1>10. /\ \A i \in DOMAIN events : i \in DOMAIN events' /\ events'[i] = events[i]
       /\ \A i \in DOMAIN events' \ DOMAIN events : events'[i].kind = "REST_COMPLETED"
  <2>1. PICK x, q : x = Len(events) + 1 /\ q = Len(rests) + 1
    OBVIOUS
  <2>2. /\ DOMAIN events' = DOMAIN events \cup {x}
        /\ \A i \in DOMAIN events : events'[i] = events[i]
        /\ events'[x] = RestCompleted(q, RestRow(c, in))
    BY <2>1, RestingAppends
  <2>3. events'[x].kind = "REST_COMPLETED"
    BY <2>2 DEF RestCompleted
  <2> QED
    BY <2>2, <2>3
<1>11. \A t : /\ \A w \in Windows : Rebuilt(c, w, t)' = Rebuilt(c, w, t)
              /\ \A w : ClosedInWindow(c, t, w)' = ClosedInWindow(c, t, w)
              /\ ExtendedInYear(c, t)' = ExtendedInYear(c, t)
  <2>1. events' \in Seq(LogEvent)
    BY LogTypeIsFixed DEF WellFormed
  <2> QED
    BY <1>10, <2>1, CountersKept
<1>12. NoWorse(rested, before)
  <2>1. "28d" \in Windows /\ "168h" \in Windows /\ "365d" \in Windows
    BY DEF Windows
  <2>2. EvalInput(c, req, span, m, n)' = EvalInput(c, req, span, m, n)
    BY <1>11, <2>1, Zenon DEF EvalInput
  <2>3. /\ rested.owed = Debt!CompensatoryOwed(m)
        /\ rested.weekly = ~Debt!OwesWeeklyRest(n, req.asOf)
        /\ rested.streak = Debt!EarlyStreak(n, span.report)
    BY <1>2, <2>2 DEF EvalInput
  <2>4. /\ before.owed = Debt!CompensatoryOwed(l)
        /\ before.weekly = ~Debt!OwesWeeklyRest(k, req.asOf)
        /\ before.streak = Debt!EarlyStreak(k, span.report)
    BY <1>3 DEF EvalInput
  <2>5. PICK after : after = EvalInput(c, req, span, m, n)
    OBVIOUS
  <2>6. /\ after.hour = before.hour /\ after.segments = before.segments /\ after.fdp = before.fdp
        /\ after.augmented = before.augmented /\ after.facility = before.facility
        /\ after.break = before.break /\ after.extension = before.extension
    BY <1>3, <2>5 DEF EvalInput
  <2>7. /\ after.used28d = before.used28d /\ after.used168h = before.used168h
        /\ after.used365d = before.used365d /\ after.closed168h = before.closed168h
        /\ after.extended = before.extended
    BY <1>3, <2>5 DEF EvalInput
  <2>8. after.rest = before.rest
    BY <1>3, <1>8, <2>5 DEF EvalInput
  <2>9. rested = after
    BY <1>2, <2>2, <2>5
  <2> QED
    BY <1>8, <1>9, <2>3, <2>4, <2>6, <2>7, <2>8, <2>9 DEF NoWorse
<1> QED
  BY <1>4, <1>12

(* Registering a rest (CreateRest, schedule.go:273-303), of any kind and   *)
(* however late, adds no violation to any proposal of who rested: through  *)
(* the log (R7) and the table of rests (R8, R9), and past the counters it  *)
(* does not move, EvaluateTrip (compliance.go:112-211) only gets milder.   *)
THEOREM RestingNeverBreaksRules == LegalSpec => RestNeverBreaksRules
<1> DEFINE Milder ==
      \A c \in Crew : RestsOf(c)' # RestsOf(c) =>
        \A req \in Answerable :
          \A rested \in answers'[c][req] : \E before \in answers[c][req] :
            Rules!Violations(rested) \subseteq Rules!Violations(before)
<1>1. /\ LegalOK /\ LegalOK' /\ LogsReadable /\ LogsReadable' /\ [LegalNext]_legalvars
      => Milder
  <2> SUFFICES ASSUME LegalOK, LegalOK', LogsReadable, LogsReadable', [LegalNext]_legalvars,
                      NEW c \in Crew, RestsOf(c)' # RestsOf(c), NEW req \in Answerable,
                      NEW rested \in answers'[c][req]
               PROVE  \E before \in answers[c][req] :
                        Rules!Violations(rested) \subseteq Rules!Violations(before)
    OBVIOUS
  <2>1. Replayable /\ WellFormed /\ WellFormed' /\ answers = Answers /\ answers' = Answers'
    BY DEF LegalOK, Replayable
  <2>2. PICK in \in RestInputs : CreateRest(c, in)
    BY <2>1, RestsMovedByResting
  <2>3. req \in Requests /\ req.segs # <<>>
    BY DEF Answerable
  <2>4. answers[c][req] = EvalInputs(c, req) /\ answers'[c][req] = EvalInputs(c, req)'
    <3>1. Answerable' = Answerable
      BY DEF Answerable
    <3> QED
      BY <2>1, <3>1 DEF Answers
  <2>5. PICK before \in EvalInputs(c, req) : NoWorse(rested, before)
    BY <2>1, <2>2, <2>3, <2>4, RestedInputs
  <2> QED
    BY <2>4, <2>5, NoWorseBreaksNoMore
<1> QED
  BY <1>1, LegalWellFormed, LogsAlwaysReadable, PTL DEF LegalSpec, RestNeverBreaksRules

-----------------------------------------------------------------------------
(* Reduced rest is allowed once *)

(* The closures in the log of c are the closed duties of c, each once.     *)
LEMMA FactsFlown ==
  ASSUME WellFormed, History, NEW c, NEW l, l = FactsOf(c)
  PROVE  /\ \A i \in Facts!Duties(l) :
              /\ events[i].duty \in ClosedDutiesOf(c)
              /\ l[i].ts = duties[events[i].duty].release
              /\ Facts!Report(l, i) = duties[events[i].duty].report
         /\ \A d \in ClosedDutiesOf(c) : \E i \in Facts!Duties(l) : events[i].duty = d
         /\ \A i, j \in Facts!Duties(l) : events[i].duty = events[j].duty => i = j
<1>1. DOMAIN l = FactIds(c) /\ \A i \in FactIds(c) : l[i] = events[i]
  BY DEF FactsOf, Restrict
<1>2. \A i \in Facts!Duties(l) : /\ i \in DOMAIN events /\ l[i] = events[i]
                                 /\ events[i].kind = "DUTY_CLOSED" /\ events[i].crew = c
  BY <1>1 DEF Facts!Duties, FactIds
<1>3. ASSUME NEW i \in Facts!Duties(l)
      PROVE  /\ events[i].duty \in ClosedDutiesOf(c)
             /\ l[i].ts = duties[events[i].duty].release
             /\ Facts!Report(l, i) = duties[events[i].duty].report
  <2>1. PICK d : d = events[i].duty
    OBVIOUS
  <2>2. d \in DOMAIN duties /\ Closed(d) /\ events[i] = DutyClosed(d, duties[d].ext)
    BY <1>2, <2>1 DEF History, ClosureLoggedOnce
  <2>3. duties[d].report \in Int /\ duties[d].release \in Int
    BY <2>2, EntryFacts
  <2>4. FDPMin(duties[d]) = duties[d].release - duties[d].report
    BY <2>3, MinutesAssumption DEF FDPMin, Minutes
  <2>5. /\ events[i].crew = duties[d].crew /\ events[i].ts = duties[d].release
        /\ events[i].fdp = duties[d].release - duties[d].report
    BY <2>2, <2>4 DEF DutyClosed
  <2>6. d \in ClosedDutiesOf(c)
    BY <1>2, <2>2, <2>5 DEF ClosedDutiesOf
  <2>7. l[i].ts = duties[d].release /\ Facts!Report(l, i) = duties[d].report
    BY <1>2, <2>3, <2>5 DEF Facts!Report
  <2> QED
    BY <2>1, <2>6, <2>7
<1>4. ASSUME NEW d \in ClosedDutiesOf(c)
      PROVE  \E i \in Facts!Duties(l) : events[i].duty = d
  <2>1. d \in DOMAIN duties /\ Closed(d) /\ duties[d].crew = c
    BY DEF ClosedDutiesOf
  <2>2. PICK i \in DOMAIN events : events[i] = DutyClosed(d, duties[d].ext)
    BY <2>1 DEF History, ClosureLoggedOnce
  <2>3. events[i].kind = "DUTY_CLOSED" /\ events[i].crew = c /\ events[i].duty = d
    BY <2>1, <2>2 DEF DutyClosed
  <2>4. i \in FactIds(c)
    BY <2>3 DEF FactIds
  <2>5. i \in Facts!Duties(l)
    BY <1>1, <2>3, <2>4 DEF Facts!Duties
  <2> QED
    BY <2>3, <2>5
<1>5. ASSUME NEW i \in Facts!Duties(l), NEW j \in Facts!Duties(l), events[i].duty = events[j].duty
      PROVE  i = j
  BY <1>2, <1>5 DEF History, ClosureLoggedOnce, IsClosureOf
<1> QED
  BY <1>3, <1>4, <1>5

(* Duties of c that do not overlap do not in the log, and then one of them *)
(* was flown on reduced rest when the log says so.                         *)
LEMMA FlewReducedInLog ==
  ASSUME WellFormed, History, NEW c, NEW l, l = FactsOf(c), NoOverlap(c)
  PROVE  FlewReduced(Flown(c)) <=> Facts!ReducedDuties(l) # {}
<1>1. PICK L : L = Facts!Duties(l)
  OBVIOUS
<1>2. /\ \A i \in L : /\ events[i].duty \in ClosedDutiesOf(c)
                      /\ l[i].ts = duties[events[i].duty].release
                      /\ Facts!Report(l, i) = duties[events[i].duty].report
      /\ \A d \in ClosedDutiesOf(c) : \E i \in L : events[i].duty = d
      /\ \A i, j \in L : events[i].duty = events[j].duty => i = j
  BY <1>1, FactsFlown
<1>3. Facts!NoOverlap(l)
  BY <1>1, <1>2 DEF NoOverlap, Facts!NoOverlap
<1>4. Facts!Readable(l)
  BY FactsReadable
<1>5. \A i \in L : duties[events[i].duty] \in Flown(c)
  BY <1>2 DEF Flown
<1>6. ASSUME NEW d \in Flown(c) PROVE \E i \in L : duties[events[i].duty] = d
  BY <1>2 DEF Flown
<1>7. ASSUME NEW e \in L, NEW d \in L
      PROVE  FlownNext(duties[events[e].duty], duties[events[d].duty], Flown(c))
               <=> /\ l[e].ts < Facts!Report(l, d)
                   /\ ~ \E f \in L : /\ Facts!Report(l, e) < Facts!Report(l, f)
                                     /\ Facts!Report(l, f) < Facts!Report(l, d)
  BY <1>2, <1>5, <1>6 DEF FlownNext
<1>8. Facts!ReducedFloor = Debt!ReducedFloor /\ Facts!MinRest = Debt!MinRest
  BY DEF Facts!ReducedFloor, Debt!ReducedFloor, Facts!MinRest, Debt!MinRest
<1>9. ASSUME NEW d \in L
      PROVE  Facts!Reduced(l, d) <=>
               \E e \in L : /\ FlownNext(duties[events[e].duty], duties[events[d].duty], Flown(c))
                            /\ ReducedRest(duties[events[d].duty].report - duties[events[e].duty].release)
  <2>1. Facts!Reduced(l, d) <=>
           \E e \in L :
             /\ l[e].ts < Facts!Report(l, d)
             /\ ~ \E f \in L : /\ Facts!Report(l, e) < Facts!Report(l, f)
                               /\ Facts!Report(l, f) < Facts!Report(l, d)
             /\ Facts!Report(l, d) - l[e].ts >= Facts!ReducedFloor
             /\ Facts!Report(l, d) - l[e].ts < Facts!MinRest
    BY <1>1, <1>3, <1>4, Facts!ReducedIsNext
  <2>2. \A e \in L :
          ReducedRest(duties[events[d].duty].report - duties[events[e].duty].release)
            <=> /\ Facts!Report(l, d) - l[e].ts >= Facts!ReducedFloor
                /\ Facts!Report(l, d) - l[e].ts < Facts!MinRest
    BY <1>2, <1>8 DEF ReducedRest
  <2> QED
    BY <1>7, <2>1, <2>2
<1>10. ASSUME FlewReduced(Flown(c)) PROVE Facts!ReducedDuties(l) # {}
  <2>1. PICK a, b \in Flown(c) : FlownNext(a, b, Flown(c)) /\ ReducedRest(b.report - a.release)
    BY <1>10 DEF FlewReduced
  <2>2. PICK e, d \in L : duties[events[e].duty] = a /\ duties[events[d].duty] = b
    BY <1>6, <2>1
  <2>3. Facts!Reduced(l, d)
    BY <1>9, <2>1, <2>2
  <2> QED
    BY <1>1, <2>2, <2>3 DEF Facts!ReducedDuties
<1>11. ASSUME NEW d \in Facts!ReducedDuties(l) PROVE FlewReduced(Flown(c))
  <2>1. d \in L /\ Facts!Reduced(l, d)
    BY <1>1 DEF Facts!ReducedDuties
  <2> QED
    BY <1>5, <1>9, <2>1 DEF FlewReduced
<1> QED
  BY <1>10, <1>11

(* With no compensatory rest on record, and no overlaps, rest is owed      *)
(* exactly when a duty was flown on reduced rest.                          *)
LEMMA OwedForFlown ==
  ASSUME WellFormed, History, NEW c, NoOverlap(c),
         \A r \in RestsOf(c) : rests[r].type # "COMPENSATORY"
  PROVE  Debt!CompensatoryOwed(FactsOf(c)) > 0 <=> FlewReduced(Flown(c))
<1>1. PICK l : l = FactsOf(c)
  OBVIOUS
<1>2. DOMAIN l = FactIds(c) /\ \A i \in FactIds(c) : l[i] = events[i]
  BY <1>1 DEF FactsOf, Restrict
<1>3. ASSUME NEW i \in Facts!Rests(l), l[i].type = "COMPENSATORY" PROVE FALSE
  <2>1. /\ i \in DOMAIN events /\ l[i] = events[i]
        /\ events[i].kind = "REST_COMPLETED" /\ events[i].crew = c
    BY <1>2 DEF Facts!Rests, FactIds
  <2>2. PICK r \in DOMAIN rests : events[i].crew = rests[r].crew /\ events[i].type = rests[r].type
    BY <2>1, RestFacts
  <2>3. r \in RestsOf(c)
    BY <2>1, <2>2 DEF RestsOf
  <2> QED
    BY <1>3, <2>1, <2>2, <2>3
<1>4. Facts!RestsOfType(l, "COMPENSATORY") = {}
  BY <1>3 DEF Facts!RestsOfType
<1>5. Facts!Readable(l)
  BY <1>1, FactsReadable
<1>6. Facts!CompensatoryOwed(l) > 0 <=> Facts!ReducedDuties(l) # {}
  BY <1>4, <1>5, Facts!OwedForReduced
<1>7. FlewReduced(Flown(c)) <=> Facts!ReducedDuties(l) # {}
  BY <1>1, FlewReducedInLog
<1> QED
  BY <1>1, <1>6, <1>7, SameOwed

(* However the segments are sorted, the first departure is the same.       *)
LEMMA ReportsAgree ==
  ASSUME NEW req \in Requests, req.segs # <<>>,
         NEW a \in Spans(req.segs), NEW b \in Spans(req.segs)
  PROVE  a.report = b.report
<1>1. PICK segs, n : segs = req.segs /\ n = Len(segs)
  OBVIOUS
<1>2. segs \in Seq([dep: Int, arr: Int]) /\ segs # <<>>
  BY <1>1, RequestsAssumption
<1>3. n \in Nat /\ n >= 1 /\ DOMAIN segs = 1..n
  BY <1>1, <1>2
<1>4. \A i \in 1..n : segs[i].dep \in Int
  <2>1. \A i \in 1..n : segs[i] \in [dep: Int, arr: Int]
    BY <1>1, <1>2, <1>3, ElementOfSeq
  <2> QED
    BY <2>1
<1>5. ASSUME NEW o \in SortedByDep(segs)
      PROVE  o[1] \in 1..n /\ \A i \in 1..n : segs[o[1]].dep <= segs[i].dep
  <2>1. IsFiniteSet(1..n) /\ Cardinality(1..n) = n
    BY <1>3, FirstNumbers
  <2>2. o \in SetToSeqs(1..n) /\ \A i, j \in DOMAIN o : i < j => segs[o[i]].dep <= segs[o[j]].dep
    BY <1>3 DEF SortedByDep
  <2>3. /\ DOMAIN o = 1..n /\ \A j \in 1..n : o[j] \in 1..n
        /\ \A k \in 1..n : \E j \in 1..n : o[j] = k
    <3>1. /\ DOMAIN o = 1..Cardinality(1..n)
          /\ \A j \in DOMAIN o : o[j] \in 1..n
          /\ \A k \in 1..n : \E j \in DOMAIN o : o[j] = k
      BY <2>1, <2>2, Orders
    <3> QED
      BY <2>1, <3>1
  <2>4. 1 \in 1..n /\ o[1] \in 1..n
    BY <1>3, <2>3
  <2>5. ASSUME NEW i \in 1..n PROVE segs[o[1]].dep <= segs[i].dep
    <3>1. PICK j \in 1..n : o[j] = i
      BY <2>3
    <3>2. j = 1 \/ 1 < j
      BY <3>1
    <3>3. 1 < j => segs[o[1]].dep <= segs[o[j]].dep
      BY <2>2, <2>3, <2>4
    <3> QED
      BY <1>4, <2>4, <3>1, <3>2, <3>3
  <2> QED
    BY <2>4, <2>5
<1>6. PICK o \in SortedByDep(segs) : a.report = segs[o[1]].dep - Ticks(ReportLeadMin)
  BY <1>1 DEF Spans
<1>7. PICK q \in SortedByDep(segs) : b.report = segs[q[1]].dep - Ticks(ReportLeadMin)
  BY <1>1 DEF Spans
<1>8. segs[o[1]].dep = segs[q[1]].dep
  <2>1. /\ o[1] \in 1..n /\ q[1] \in 1..n
        /\ segs[o[1]].dep <= segs[q[1]].dep /\ segs[q[1]].dep <= segs[o[1]].dep
    BY <1>5
  <2>2. segs[o[1]].dep \in Int /\ segs[q[1]].dep \in Int
    BY <1>4, <2>1
  <2> QED
    BY <2>1, <2>2
<1> QED
  BY <1>6, <1>7, <1>8

(* A proposal that follows all duties flown rests since the last of them.  *)
LEMMA RestMeasured ==
  ASSUME WellFormed, History, NEW c, Flown(c) # {}, NEW report \in Int,
         NEW rest, rest = report - Max({d.release : d \in Flown(c)}), rest > 0
  PROVE  SinceLastRelease(FactsOf(c), report) = rest /\ rest \in Int
<1>1. PICK l, T : l = FactsOf(c) /\ T = {d.release : d \in Flown(c)}
  OBVIOUS
<1>2. /\ \A i \in Facts!Duties(l) : /\ events[i].duty \in ClosedDutiesOf(c)
                                    /\ l[i].ts = duties[events[i].duty].release
      /\ \A d \in ClosedDutiesOf(c) : \E i \in Facts!Duties(l) : events[i].duty = d
  BY <1>1, FactsFlown
<1>3. T = {l[i].ts : i \in Facts!Duties(l)}
  <2>1. ASSUME NEW t \in T PROVE \E i \in Facts!Duties(l) : t = l[i].ts
    <3>1. PICK d \in ClosedDutiesOf(c) : t = duties[d].release
      BY <1>1 DEF Flown
    <3> QED
      BY <1>2, <3>1
  <2>2. ASSUME NEW i \in Facts!Duties(l) PROVE l[i].ts \in T
    BY <1>1, <1>2 DEF Flown
  <2> QED
    BY <2>1, <2>2
<1>4. T \subseteq Int /\ IsFiniteSet(T) /\ T # {}
  <2>1. Facts!Readable(l)
    BY <1>1, FactsReadable
  <2>2. \A i \in Facts!Duties(l) : l[i].ts \in Int
    BY <2>1 DEF Facts!Readable
  <2>3. T \subseteq Int
    BY <1>3, <2>2
  <2>4. IsFiniteSet(T)
    <3>1. IsFiniteSet(Facts!Duties(l))
      <4>1. DOMAIN l = FactIds(c) /\ FactIds(c) \subseteq DOMAIN events
        BY <1>1 DEF FactsOf, Restrict, FactIds
      <4>2. Len(events) \in Nat /\ DOMAIN events = 1..Len(events)
        BY DEF WellFormed
      <4>3. IsFiniteSet(1..Len(events))
        BY <4>2, FS_Interval
      <4>4. Facts!Duties(l) \subseteq 1..Len(events)
        BY <4>1, <4>2 DEF Facts!Duties
      <4> QED
        BY <4>3, <4>4, FS_Subset
    <3>2. PICK f : f = [i \in Facts!Duties(l) |-> l[i].ts]
      OBVIOUS
    <3>3. f \in Surjection(Facts!Duties(l), T)
      BY <1>3, <3>2 DEF Surjection
    <3> QED
      BY <3>1, <3>3, FS_Surjection
  <2>5. T # {}
    BY <1>1 DEF Flown
  <2> QED
    BY <2>3, <2>4, <2>5
<1>5. PICK m \in T : m = Max(T) /\ \A t \in T : m >= t
  <2>1. \E x \in T : \A y \in T : x >= y
    BY <1>4, LargestExists
  <2> QED
    BY <2>1 DEF Max
<1>6. m \in Int /\ rest = report - m /\ report > m
  <2>1. m \in Int /\ rest = report - m
    BY <1>1, <1>4, <1>5
  <2> QED
    BY <2>1
<1>7. Debt!ReleasesBefore(l, report) = T
  <2>1. ASSUME NEW i \in Facts!Duties(l) PROVE l[i].ts < report
    <3>1. l[i].ts \in T
      BY <1>3
    <3>2. m >= l[i].ts /\ l[i].ts \in Int
      BY <1>4, <1>5, <3>1
    <3> QED
      BY <1>6, <3>2
  <2>2. Facts!Duties(l) = Debt!Duties(l)
    BY DEF Facts!Duties, Debt!Duties
  <2> QED
    BY <1>3, <2>1, <2>2 DEF Debt!ReleasesBefore
<1>8. SinceLastRelease(l, report) = report - Max(T)
  <2>1. Debt!Max(T) = Max(T)
    BY DEF Debt!Max, Max
  <2> QED
    BY <1>4, <1>7, <2>1 DEF SinceLastRelease, Debt!RestSinceLast
<1> QED
  BY <1>1, <1>5, <1>6, <1>8

(* What the rules say of a proposal is what they say of a rest that is     *)
(* measured.                                                               *)
LEMMA MinRestJudged ==
  ASSUME NEW in, NEW rest \in Int, rest > 0, in.rest = rest, in.owed \in Int, NEW flew,
         in.owed > 0 <=> flew
  PROVE  "R7_MIN_REST" \in Rules!Violations(in)
           <=> rest < Debt!ReducedFloor \/ (ReducedRest(rest) /\ flew)
<1>1. "R7_MIN_REST" \in Rules!Violations(in) <=> Rules!MinRestBroken(in)
  <2>1. "R7_MIN_REST" \in Rules!RuleCodes
    BY DEF Rules!RuleCodes
  <2>2. Rules!Breaks(in, "R7_MIN_REST") <=> Rules!MinRestBroken(in)
    BY DEF Rules!Breaks
  <2> QED
    BY <2>1, <2>2 DEF Rules!Violations
<1>2. Rules!MinRestBroken(in) <=> rest < Rules!ReducedFloor \/ (rest < Rules!MinRest /\ flew)
  BY DEF Rules!MinRestBroken, Rules!NoPrevious
<1>3. /\ Rules!ReducedFloor = Debt!ReducedFloor /\ Rules!MinRest = Debt!MinRest
      /\ Debt!ReducedFloor \in Int /\ Debt!MinRest \in Int
  BY DEF Rules!ReducedFloor, Debt!ReducedFloor, Rules!MinRest, Debt!MinRest
<1>4. rest < Debt!ReducedFloor \/ rest >= Debt!ReducedFloor
  BY <1>3
<1> QED
  BY <1>1, <1>2, <1>3, <1>4 DEF ReducedRest

(* A single reduced rest is allowed (R7): judged on the log and on the     *)
(* debt rebuilt from it (computeCompensatoryDebt, replay.go:92-150), a     *)
(* proposal after all duties flown breaks R7 when its rest is below the    *)
(* floor, or is reduced after another that was, and only then.             *)
THEOREM ReducedRestOnlyOnce == LegalSpec => []ReducedRestOnce
<1>1. LegalOK /\ History => ReducedRestOnce
  <2> SUFFICES ASSUME LegalOK, History, NEW c \in Crew, Flown(c) # {}, NoOverlap(c),
                      \A r \in RestsOf(c) : rests[r].type # "COMPENSATORY",
                      NEW req \in Answerable, NEW in \in answers[c][req],
                      NEW span \in Spans(req.segs),
                      NEW rest, rest = span.report - Max({d.release : d \in Flown(c)}), rest > 0
               PROVE  "R7_MIN_REST" \in Rules!Violations(in)
                        <=> rest < Debt!ReducedFloor \/ (ReducedRest(rest) /\ FlewReduced(Flown(c)))
    BY DEF ReducedRestOnce
  <2>1. WellFormed /\ answers = Answers
    BY DEF LegalOK, Replayable
  <2>2. req \in Requests /\ req.segs # <<>>
    BY DEF Answerable
  <2>3. in \in EvalInputs(c, req)
    BY <2>1 DEF Answers
  <2>4. PICK own \in Spans(req.segs) : in = EvalInput(c, req, own, FactsOf(c), RowsOf(c))
    BY <2>3 DEF EvalInputs
  <2>5. own.report = span.report /\ span.report \in Int
    BY <2>2, ReportsAgree, SpanTypes
  <2>6. SinceLastRelease(FactsOf(c), span.report) = rest /\ rest \in Int
    BY <2>1, <2>5, RestMeasured
  <2>7. in.rest = rest
    BY <2>4, <2>5, <2>6 DEF EvalInput
  <2>8. in.owed = Debt!CompensatoryOwed(FactsOf(c))
    BY <2>4 DEF EvalInput
  <2>9. in.owed \in Int
    <3>1. Facts!Readable(FactsOf(c))
      BY <2>1, FactsReadable
    <3> QED
      BY <2>8, <3>1, Facts!OwedTyped, SameOwed
  <2>10. in.owed > 0 <=> FlewReduced(Flown(c))
    BY <2>1, <2>8, OwedForFlown
  <2> QED
    BY <2>6, <2>7, <2>9, <2>10, MinRestJudged
<1> QED
  BY <1>1, LegalWellFormed, HistoryAlways, PTL

=============================================================================
