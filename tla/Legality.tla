------------------------------ MODULE Legality ------------------------------
(***************************************************************************)
(* The legality evaluator over the tables and the log it reads             *)
(* (EvaluateTrip, compliance.go:112-211): CrewSchedule writes the history, *)
(* CumulativeReplay rebuilds the counters from it and appends to it what a *)
(* replay overrides, RestDebt and FatigueRules say what else is read out of*)
(* it, and this module puts them together for a proposed trip at an        *)
(* instant.                                                                *)
(*                                                                         *)
(* A tick is a minute here, and local time is that of the home base.  The  *)
(* code drops the errors of four reads (the last rest, the rests of the    *)
(* week, the early streak and the quota; compliance.go:170-181); they      *)
(* succeed here.                                                           *)
(***************************************************************************)
EXTENDS CumulativeReplay

CONSTANTS
  Requests,       \* requests [segs, asOf, augmented, facility, break] to
                  \* evaluate; segs is a sequence of [dep, arr]
  MaxEvaluations, \* bound on the rows of legality_evaluations
  MinLog          \* bound: nothing is evaluated before the log is this long

ASSUME MinutesAssumption == TicksPerMin = 1
ASSUME RequestsAssumption ==
  Requests \subseteq [segs: Seq([dep: Int, arr: Int]), asOf: Int,
                     augmented: BOOLEAN, facility: STRING, break: Int]

VARIABLES
  evaluations, \* legality_evaluations, a sequence of rows by id
  answers      \* auxiliary, see Answers

legalvars == <<allvars, evaluations, answers>>

Debt == INSTANCE RestDebt WITH
  DutyInputs <- {}, AsOfs <- {}, Proposals <- {},
  MaxLog <- 0, MaxLongLog <- 0, LongEntries <- {}, log <- events
Rules == INSTANCE FatigueRules WITH Inputs <- {}, in <- <<>>

-----------------------------------------------------------------------------
(* The proposed duty *)

AsSubmitted(segs) == {[i \in DOMAIN segs |-> i]} \* faulty variant: not sorted

(* sort.Slice by departure, which keeps no order among segments that       *)
(* depart together.                                                        *)
SortedByDep(segs) ==
  {order \in SetToSeqs(DOMAIN segs) :
     \A i, j \in DOMAIN order : i < j => segs[order[i]].dep <= segs[order[j]].dep}

(* The duty periods the segments may be taken to make.                     *)
Spans(segs) ==
  {[report |-> segs[order[1]].dep - Ticks(ReportLeadMin),
    release |-> segs[Last(order)].arr + Ticks(ReleaseLagMin)] : order \in SortedByDep(segs)}

-----------------------------------------------------------------------------
(* What the evaluator reads *)

(* The closures and rests of c in the log, each under its id.              *)
FactIds(c) ==
  {i \in DOMAIN events : events[i].crew = c /\ events[i].kind \in {"DUTY_CLOSED", "REST_COMPLETED"}}
FactsOf(c) == Restrict(events, FactIds(c))

(* R8 and R9 are judged on the rows of duty_periods and rest_periods, here *)
(* in the form RestDebt reads: each row in a place of its own, the rows of *)
(* either table in the order of their ids.                                 *)
EveryDutyOf(c) == {d \in DOMAIN duties : duties[d].crew = c} \* faulty variant: open duties count
ClosedDutiesOf(c) == {d \in DOMAIN duties : duties[d].crew = c /\ Closed(d)}
RestsOf(c) == {r \in DOMAIN rests : rests[r].crew = c}

DutyFact(d) ==
  [kind |-> "DUTY_CLOSED", ts |-> d.release, fdp |-> d.release - d.report, owe |-> d.owe]
RestFact(r) ==
  [kind |-> "REST_COMPLETED", ts |-> r.end, duration |-> r.end - r.start,
   type |-> r.type, covers |-> r.covers]
DutyPlace(d) == 2 * d
RestPlace(r) == 2 * r + 1
RowsOf(c) ==
  [p \in {DutyPlace(d) : d \in ClosedDutiesOf(c)} \cup {RestPlace(r) : r \in RestsOf(c)} |->
     IF p % 2 = 0 THEN DutyFact(duties[p \div 2]) ELSE RestFact(rests[p \div 2])]

SinceRestOrDuty(facts, report) == \* faulty variant: the end of a rest counts as a release
  LET ends == {t \in {e.ts : e \in Range(facts)} : t < report} IN
  IF ends = {} THEN Rules!NoPrevious ELSE report - Max(ends)

SinceLastRelease(facts, report) ==
  IF Debt!ReleasesBefore(facts, report) = {} THEN Rules!NoPrevious
  ELSE Debt!RestSinceLast(facts, report)

(* CountEventsKindYear at the report.                                      *)
ExtendedInYear(c, t) ==
  Cardinality({i \in DOMAIN events :
    events[i].crew = c /\ events[i].kind = "UNFORESEEN_EXTENSION" /\ YearOf(events[i].ts) = YearOf(t)})

EvalInput(c, req, span, facts, rows) ==
  [hour |-> (span.report % Debt!Day) \div 60,
   segments |-> Len(req.segs), fdp |-> span.release - span.report,
   augmented |-> req.augmented, facility |-> req.facility, break |-> req.break,
   used28d |-> Rebuilt(c, "28d", req.asOf),
   used168h |-> Rebuilt(c, "168h", req.asOf),
   used365d |-> Rebuilt(c, "365d", req.asOf),
   closed168h |-> Cardinality(ClosedInWindow(c, req.asOf, Debt!Window168h)),
   rest |-> SinceLastRelease(facts, span.report),
   owed |-> Debt!CompensatoryOwed(facts),
   weekly |-> ~Debt!OwesWeeklyRest(rows, req.asOf),
   streak |-> Debt!EarlyStreak(rows, span.report),
   extension |-> FALSE, extended |-> ExtendedInYear(c, span.report)]

EvalInputs(c, req) ==
  {EvalInput(c, req, span, facts, rows) :
     span \in Spans(req.segs), facts \in {FactsOf(c)}, rows \in {RowsOf(c)}}

(* What the rules would be asked in this state, for every crew member and  *)
(* request: kept in an auxiliary variable, so that the properties compare  *)
(* the answers before and after a step.                                    *)
Answerable == {req \in Requests : req.segs # <<>>}
Answers == [c \in Crew |-> [req \in Answerable |-> EvalInputs(c, req)]]

-----------------------------------------------------------------------------
(* Operations *)

LegalInit == ReplayInit /\ evaluations = <<>> /\ answers = Answers

(* One transaction; a proposal without segments is refused, and an error   *)
(* of appending the event is dropped.                                      *)
EvaluateTrip(c, req) ==
  /\ up
  /\ Len(evaluations) < MaxEvaluations /\ Len(events) >= MinLog
  /\ req.segs # <<>>
  /\ \E in \in answers[c][req] :
       /\ evaluations' = Append(evaluations,
            [crew |-> c, asOf |-> req.asOf, verdict |-> Rules!Verdict(in),
             violations |-> Rules!Violations(in)])
       /\ \/ events' = Append(events,
                 [kind |-> "EVALUATION", crew |-> c, ts |-> req.asOf, verdict |-> Rules!Verdict(in)])
          \/ UNCHANGED events
  /\ UNCHANGED <<tables, snapshots, up, stops>>

LegalNext ==
  /\ \/ ReplayNext /\ UNCHANGED evaluations
     \/ \E c \in Crew, req \in Requests : EvaluateTrip(c, req)
  /\ answers' = Answers'

LegalSpec == LegalInit /\ [][LegalNext]_legalvars

-----------------------------------------------------------------------------
(* Properties *)

(* What is evaluated is what will be flown: however the segments of a trip *)
(* are submitted for evaluation, the evaluator takes them for the duty     *)
(* period that CreateDutyForTrip would make of the trip.  Only where the   *)
(* last departures coincide may it, as CreateDutyForTrip may, end the duty *)
(* with one arrival or another.                                            *)
EvaluatedAsFlown ==
  \A t \in DOMAIN trips : SegmentsOf(t) # {} =>
    LET flown == {NewDuty(t, list) : list \in SegmentListings(t)} IN
    \A order \in SetToSeqs(SegmentsOf(t)) :
      Spans([i \in DOMAIN order |-> segments[order[i]]]) =
        {[report |-> duty.report, release |-> duty.release] : duty \in flown}

(* Only the facts of a crew member move their verdicts: planning trips,    *)
(* adding segments, opening duties, evaluating, and whatever is recorded   *)
(* for somebody else, leave everything the rules are asked as it was.      *)
OnlyOwnFactsMatter ==
  [][\A c \in Crew : FactsOf(c)' = FactsOf(c) => answers'[c] = answers[c]]_legalvars

(* Resting never makes a trip illegal: a rest registered, of any kind and  *)
(* however late, adds no violation to any proposal of who rested.          *)
RestNeverBreaksRules ==
  [][\A c \in Crew : RestsOf(c)' # RestsOf(c) =>
       \A req \in Answerable :
         \A rested \in answers'[c][req] : \E before \in answers[c][req] :
           Rules!Violations(rested) \subseteq Rules!Violations(before)]_legalvars

(* "reduced rest is allowed once" (R7): as long as no compensatory rest is *)
(* on record and no duties overlap, a proposal that follows all duties     *)
(* flown breaks R7 exactly when its rest is below nine hours, or below ten *)
(* after another duty that was flown on less than ten and at least nine.   *)
Flown(c) == {duties[d] : d \in ClosedDutiesOf(c)}
FlownNext(d, e, flown) == \* duty e is the next after duty d
  /\ d.release < e.report
  /\ ~ \E f \in flown : d.report < f.report /\ f.report < e.report
ReducedRest(rest) == rest >= Debt!ReducedFloor /\ rest < Debt!MinRest
FlewReduced(flown) ==
  \E d, e \in flown : FlownNext(d, e, flown) /\ ReducedRest(e.report - d.release)
NoOverlap(c) ==
  \A d, e \in ClosedDutiesOf(c) : d # e =>
    duties[d].release < duties[e].report \/ duties[e].release < duties[d].report
ReducedRestOnce ==
  \A c \in Crew :
    /\ Flown(c) # {}
    /\ NoOverlap(c)
    /\ \A r \in RestsOf(c) : rests[r].type # "COMPENSATORY"
    => \A req \in Answerable : \A in \in answers[c][req], span \in Spans(req.segs) :
         LET rest == span.report - Max({d.release : d \in Flown(c)}) IN
         rest > 0 =>
           ("R7_MIN_REST" \in Rules!Violations(in)
              <=> rest < Debt!ReducedFloor \/ (ReducedRest(rest) /\ FlewReduced(Flown(c))))

=============================================================================
