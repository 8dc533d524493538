------------------------------ MODULE RestDebt ------------------------------
(***************************************************************************)
(* What a crew member owes, worked out from the log of one crew member:    *)
(* compensatory rest (R7, computeCompensatoryDebt), the early-start streak *)
(* (R9, computeEarlyStreakFromDuties), weekly rest (R8) and augmented rest *)
(* (R10), as RestDebt and EvaluateTrip combine them (compliance.go,        *)
(* replay.go).                                                             *)
(*                                                                         *)
(* The log holds the DUTY_CLOSED and REST_COMPLETED events in the order    *)
(* they were recorded, which need not be the order in which they happened: *)
(* duties are closed, and rests registered, whenever somebody does so, and *)
(* nothing stops two duties from overlapping.  Times are minutes, local    *)
(* time of the home base.                                                  *)
(***************************************************************************)
EXTENDS Integers, Sequences, FiniteSets, FiniteSetsExt, SequencesExt

CONSTANTS
  DutyInputs, \* duties [report, release, owe] that may be closed
  RestInputs, \* rests [start, end, type, covers] that may be registered
  AsOfs,      \* instants asked about
  Proposals,  \* report times of trips proposed for evaluation
  MaxLog,     \* bound on the length of the log,
  MaxLongLog, \* and of a log that holds nothing but
  LongEntries \* these entries

(* A duty reports before it is released (schedule.go:142-143), whatever    *)
(* the order in which the duties of a crew member follow each other.       *)
ASSUME InputsAssumption ==
  /\ DutyInputs \subseteq [report: Int, release: Int, owe: BOOLEAN]
  /\ \A in \in DutyInputs : in.report < in.release
  /\ RestInputs \subseteq [start: Int, end: Int, type: STRING, covers: BOOLEAN]
  /\ AsOfs \subseteq Int /\ Proposals \subseteq Int

MinRest == 10 * 60            \* domain.MinRestHours
ReducedFloor == 9 * 60        \* domain.MinRestReducedHours
CompensatoryWindow == 72 * 60 \* domain.CompensatoryWindowHours
ResetRest == 36 * 60          \* domain.EarlyStartResetRestHours
WeeklyRest == 30 * 60         \* domain.WeeklyRestHours
WeeklyRestHomeBase == 25 * 60 \* domain.WeeklyRestHomeBaseHours
Window168h == 168 * 60
Day == 24 * 60

VARIABLE log

DutyClosed(in) ==
  [kind |-> "DUTY_CLOSED", ts |-> in.release, fdp |-> in.release - in.report, owe |-> in.owe]
RestCompleted(in) ==
  [kind |-> "REST_COMPLETED", ts |-> in.end, duration |-> in.end - in.start,
   type |-> in.type, covers |-> in.covers]

Init == log = <<>>

Record(entry) ==
  /\ \/ Len(log) < MaxLog
     \/ Len(log) < MaxLongLog /\ Range(log) \cup {entry} \subseteq LongEntries
  /\ log' = Append(log, entry)

CloseDuty(in) == Record(DutyClosed(in))

CreateRest(in) == in.end > in.start /\ Record(RestCompleted(in))

Next ==
  \/ \E in \in DutyInputs : CloseDuty(in)
  \/ \E in \in RestInputs : CreateRest(in)

Spec == Init /\ [][Next]_log

-----------------------------------------------------------------------------
(* Reading the log.  ids are positions; ListEventsForCrew orders by ts,    *)
(* then id.                                                                *)

Duties(l) == {i \in DOMAIN l : l[i].kind = "DUTY_CLOSED"}
Rests(l) == {i \in DOMAIN l : l[i].kind = "REST_COMPLETED"}
RestsOfType(l, type) == {i \in Rests(l) : l[i].type = type}

Report(l, d) == l[d].ts - l[d].fdp

Earlier(l, i, j) == l[i].ts < l[j].ts \/ (l[i].ts = l[j].ts /\ i < j)

(* Closed duties by report, those with equal reports in log order.         *)
ReportedBefore(l, i, j) ==
  Report(l, i) < Report(l, j) \/ (Report(l, i) = Report(l, j) /\ Earlier(l, i, j))

(* The elements of S in the order a set of pairs puts them in: the one     *)
(* that n others precede comes after n.                                    *)
Preceding(S, order, i) == {j \in S : <<j, i>> \in order}
Arrange(S, order) ==
  [p \in 1..Cardinality(S) |-> CHOOSE i \in S : Cardinality(Preceding(S, order, i)) = p - 1]

(* A loop over a list; step says what each element does to the state.      *)
Walk(step, start, list) ==
  LET after[p \in 0..Len(list)] == IF p = 0 THEN start ELSE step[list[p]][after[p - 1]]
  IN  after[Len(list)]

-----------------------------------------------------------------------------
(* R7: compensatory debt                                                   *)

(* The rest before duty d: from the release of the duty that reported just *)
(* before it.  A reduced rest is at least the floor and below the minimum. *)
DutiesBefore(l, d) == {e \in Duties(l) : ReportedBefore(l, e, d)}
PreviousInLog(l, d) == \* faulty variant: the duty recorded last, not reported last
  CHOOSE e \in DutiesBefore(l, d) : \A f \in DutiesBefore(l, d) \ {e} : f < e
Previous(l, d) ==
  CHOOSE e \in DutiesBefore(l, d) : \A f \in DutiesBefore(l, d) \ {e} : ReportedBefore(l, f, e)
Gap(l, d) == Report(l, d) - l[Previous(l, d)].ts

Reduced(l, d) ==
  DutiesBefore(l, d) # {} /\ Gap(l, d) >= ReducedFloor /\ Gap(l, d) < MinRest

(* Duties at their report and compensatory rests at their end, merged in   *)
(* time order by a stable sort that starts with the duties.                *)
StreamTime(l, i) == IF i \in Duties(l) THEN Report(l, i) ELSE l[i].ts

StreamItems(l) == Duties(l) \cup RestsOfType(l, "COMPENSATORY")

LogOrderStream(l) == \* faulty variant: the order of the log is kept
  Arrange(StreamItems(l), {ij \in StreamItems(l) \X StreamItems(l) : ij[1] < ij[2]})

StreamBefore(l, i, j) ==
  \/ StreamTime(l, i) < StreamTime(l, j)
  \/ /\ StreamTime(l, i) = StreamTime(l, j)
     /\ \/ i \in Duties(l) /\ j \notin Duties(l)
        \/ i \in Duties(l) /\ j \in Duties(l) /\ ReportedBefore(l, i, j)
        \/ i \notin Duties(l) /\ j \notin Duties(l) /\ Earlier(l, i, j)
Stream(l) ==
  Arrange(StreamItems(l),
          {ij \in StreamItems(l) \X StreamItems(l) : StreamBefore(l, ij[1], ij[2])})

(* Open deficits, oldest first.  A credit pays them in that order; what is *)
(* left of it is lost.                                                     *)
Deficit == [amount: Int, deadline: Int]
Amounts(open) == [i \in DOMAIN open |-> open[i].amount]
SumAmounts(open) == SumFunction(Amounts(open))
SumOldest(open, n) == SumFunctionOnSet(Amounts(open), 1..n)
Smaller(a, b) == IF a < b THEN a ELSE b
Larger(a, b) == IF a > b THEN a ELSE b

PayEach(open, credit) == \* faulty variant: every deficit gets the whole credit
  SelectSeq([i \in DOMAIN open |-> [open[i] EXCEPT !.amount = Larger(0, @ - credit)]],
            LAMBDA deficit : deficit.amount > 0)

PayOldest(open, credit) == \* faulty variant: a credit pays the oldest deficit only
  SelectSeq([i \in DOMAIN open |->
      [open[i] EXCEPT !.amount = IF i = 1 THEN Larger(0, @ - credit) ELSE @]],
    LAMBDA deficit : deficit.amount > 0)

PayNewest(open, credit) == \* faulty variant: the latest deficit is paid first
  SelectSeq([i \in DOMAIN open |->
      [open[i] EXCEPT !.amount =
         @ - Smaller(@, Larger(0, credit - SumAmounts(SubSeq(open, i + 1, Len(open)))))]],
    LAMBDA deficit : deficit.amount > 0)

Pay(open, credit) ==
  LET n == Cardinality({i \in DOMAIN open : SumOldest(open, i) <= credit}) IN \* paid in full
  [i \in 1..(Len(open) - n) |->
     [open[n + i] EXCEPT !.amount = IF i = 1 THEN SumOldest(open, n + 1) - credit ELSE @]]

Settle(l) ==
  [i \in StreamItems(l) |-> [open \in Seq(Deficit) |->
     IF i \in Rests(l) THEN Pay(open, l[i].duration)
     ELSE IF Reduced(l, i)
       THEN Append(open, [amount |-> MinRest - Gap(l, i),
                          deadline |-> Report(l, i) + CompensatoryWindow])
       ELSE open]]

OpenDeficits(l) == Walk(Settle(l), <<>>, Stream(l))

(* computeCompensatoryDebt takes the instant asked about and ignores it:   *)
(* the debt is that of the whole log, and so is CompensatoryRestCheck's.   *)
CompensatoryOwed(l) == SumAmounts(OpenDeficits(l))
CompensatoryDueBy(l) == {OpenDeficits(l)[i].deadline : i \in DOMAIN OpenDeficits(l)}

(* CompensatoryRestCheck *)
RemainingAfter(l, proposedRest) == Larger(0, CompensatoryOwed(l) - proposedRest)

-----------------------------------------------------------------------------
(* R9: early-start streak                                                  *)

IsEarly(report) == (report % Day) \div 60 < 7 \* domain.EarlyStartLocalHour

StreakItems(l, ref) ==
  {d \in Duties(l) : Report(l, d) < ref} \cup {r \in Rests(l) : l[r].ts < ref}

RestsFirst(l, ref) == \* faulty variant: a rest that ends at a report precedes it
  Arrange(StreakItems(l, ref),
    {ij \in StreakItems(l, ref) \X StreakItems(l, ref) :
      \/ StreamTime(l, ij[1]) < StreamTime(l, ij[2])
      \/ /\ StreamTime(l, ij[1]) = StreamTime(l, ij[2])
         /\ \/ ij[1] \in Rests(l) /\ ij[2] \in Duties(l)
            \/ (ij[1] \in Duties(l) <=> ij[2] \in Duties(l)) /\ ij[1] < ij[2]})

StreakBefore(l, i, j) ==
  \/ StreamTime(l, i) < StreamTime(l, j)
  \/ /\ StreamTime(l, i) = StreamTime(l, j)
     /\ \/ i \in Duties(l) /\ j \in Rests(l)
        \/ (i \in Duties(l) <=> j \in Duties(l)) /\ i < j
StreakStream(l, ref) ==
  Arrange(StreakItems(l, ref),
          {ij \in StreakItems(l, ref) \X StreakItems(l, ref) : StreakBefore(l, ij[1], ij[2])})

StreakStep(l) ==
  [i \in DOMAIN l |-> [streak \in Nat |->
     IF i \in Rests(l) THEN (IF l[i].duration >= ResetRest THEN 0 ELSE streak)
     ELSE IF IsEarly(Report(l, i)) THEN streak + 1 ELSE 0]]
EarlyStreak(l, ref) == Walk(StreakStep(l), 0, StreakStream(l, ref))

-----------------------------------------------------------------------------
(* R8: weekly rest                                                         *)

LongEnough(rest) ==
  (rest.duration \div 60) * 60 >= IF rest.covers THEN WeeklyRestHomeBase ELSE WeeklyRest

LatestInWeek(l, t) == \* faulty variant: only the rest that ended last is looked at
  {r \in Rests(l) : /\ l[r].ts > t - Window168h /\ l[r].ts <= t
                    /\ \A q \in Rests(l) : l[q].ts <= t => l[q].ts <= l[r].ts}
CompletedInWeek(l, t) == {r \in Rests(l) : l[r].ts > t - Window168h /\ l[r].ts <= t}
OwesWeeklyRest(l, t) == \A r \in CompletedInWeek(l, t) : ~LongEnough(l[r])

(* RestDebt and the evaluator look at the same rests with tests of their   *)
(* own: hasWeeklyRestInRests and fatigue.hasWeeklyRest.                    *)
-----------------------------------------------------------------------------
(* R10: augmented rest                                                     *)

(* Walking the log in time order, an owing duty sets the debt and any      *)
(* AUGMENTED rest clears it.                                               *)
AugmentedStep(l) ==
  [i \in DOMAIN l |-> [owes \in BOOLEAN |->
     IF i \in Duties(l) THEN owes \/ l[i].owe ELSE owes /\ l[i].type # "AUGMENTED"]]
InTime(l) == Arrange(DOMAIN l, {ij \in (DOMAIN l) \X (DOMAIN l) : Earlier(l, ij[1], ij[2])})
OwesAugmentedRest(l) == Walk(AugmentedStep(l), FALSE, InTime(l))

-----------------------------------------------------------------------------
(* R7: rest before a proposed duty                                         *)

(* lastDutyReleaseBefore: the latest release strictly before the report.   *)
ReleasesBefore(l, report) == {l[d].ts : d \in {d \in Duties(l) : l[d].ts < report}}

(* The evaluator's verdict on a proposed report: fine when nothing was     *)
(* flown before, when the rest is full, or when it is reduced and no debt  *)
(* is outstanding.                                                         *)
RestSinceLast(l, report) == report - Max(ReleasesBefore(l, report))
MinRestViolated(l, report) ==
  /\ ReleasesBefore(l, report) # {}
  /\ \/ RestSinceLast(l, report) < ReducedFloor
     \/ RestSinceLast(l, report) < MinRest /\ CompensatoryOwed(l) > 0

-----------------------------------------------------------------------------
(* Properties *)

(* The walk over open deficits computes what is owed: with reduced rests   *)
(* adding and compensatory rests paying, in time order and never below     *)
(* nothing, the outstanding total is the largest net sum of a suffix of    *)
(* the stream.                                                             *)
Net(l, i) ==
  IF i \in Rests(l) THEN 0 - l[i].duration
  ELSE IF Reduced(l, i) THEN MinRest - Gap(l, i) ELSE 0
DebtIsNetOfCredits ==
  LET stream == Stream(log)
      net == [p \in DOMAIN stream |-> Net(log, stream[p])]
      SuffixNet(k) == SumFunctionOnSet(net, k..Len(stream)) IN
  SumAmounts(OpenDeficits(log)) = Max({SuffixNet(k) : k \in 1..(Len(stream) + 1)})

(* What is outstanding is the youngest part of the deficits, so the        *)
(* deadline shown is that of the oldest reduced rest not yet made up:      *)
(* every later reduced rest is still open unless paid in full, and the     *)
(* amounts from the oldest open one on cover the total.                    *)
ReducedDuties(l) == {d \in Duties(l) : Reduced(l, d)}
DeficitsSince(l, d) ==
  SumFunction([e \in {e \in ReducedDuties(l) : e = d \/ ReportedBefore(l, d, e)} |->
                 MinRest - Gap(l, e)])
DeadlineOfOldestUnpaid ==
  LET open == OpenDeficits(log)
      owed == SumAmounts(open)
      due == {open[i].deadline : i \in DOMAIN open} IN
  /\ owed = 0 <=> due = {}
  /\ due # {} =>
       \E d \in ReducedDuties(log) :
          /\ Min(due) = Report(log, d) + CompensatoryWindow
          /\ DeficitsSince(log, d) >= owed
          /\ \A e \in ReducedDuties(log) :
               ReportedBefore(log, d, e) => DeficitsSince(log, e) < owed

(* What the planner is told comes true: a compensatory rest that ends after*)
(* every report and rest on record leaves of the debt exactly what         *)
(* CompensatoryRestCheck predicts for its length.                          *)
CheckIsEffect ==
  [][\A in \in RestInputs :
       /\ in.type = "COMPENSATORY"
       /\ CreateRest(in)
       /\ \A i \in Duties(log) \cup RestsOfType(log, "COMPENSATORY") : StreamTime(log, i) < in.end
       => CompensatoryOwed(log)' = RemainingAfter(log, in.end - in.start)]_log

(* Recording late changes nothing: what a crew member owes depends on what *)
(* was flown and rested, not on the order in which it was recorded.  Two   *)
(* entries recorded one after the other may be swapped, and every order is *)
(* reached by such swaps.  Only whether an AUGMENTED rest that ends in the *)
(* minute of an extended duty's release clears it is decided by which of   *)
(* the two was recorded first (ORDER BY ts, id).                           *)
Swapped(l, k) == [l EXCEPT ![k] = l[k + 1], ![k + 1] = l[k]]
Clears(l, i) == i \in Rests(l) /\ l[i].type = "AUGMENTED"
Owes(l, i) == i \in Duties(l) /\ l[i].owe
Contend(l, i, j) ==
  /\ l[i].ts = l[j].ts
  /\ \/ Owes(l, i) /\ Clears(l, j)
     \/ Owes(l, j) /\ Clears(l, i)
RecordingOrderIrrelevant ==
  \A k \in 1..(Len(log) - 1) :
    LET other == Swapped(log, k) IN
    /\ OpenDeficits(other) = OpenDeficits(log)
    /\ ~Contend(log, k, k + 1) => OwesAugmentedRest(other) = OwesAugmentedRest(log)
    /\ \A t \in AsOfs : EarlyStreak(other, t) = EarlyStreak(log, t)

(* Rest never hurts: registering a rest, of whatever kind and however      *)
(* late, never adds to a debt nor lengthens the streak.                    *)
RestNeverHurts ==
  [][\A in \in RestInputs : CreateRest(in) =>
       /\ OwesAugmentedRest(log)' => OwesAugmentedRest(log)
       /\ CompensatoryOwed(log)' <= CompensatoryOwed(log)
       /\ \A t \in AsOfs :
            /\ EarlyStreak(log, t)' <= EarlyStreak(log, t)
            /\ OwesWeeklyRest(log, t)' => OwesWeeklyRest(log, t)]_log

(* The streak carried into ref is the number of early reports with neither *)
(* a later non-early report nor a rest of 36 hours that ends at or after   *)
(* them.                                                                   *)
TrailingRun(l, ref) ==
  {d \in Duties(l) :
     /\ Report(l, d) < ref
     /\ IsEarly(Report(l, d))
     /\ ~ \E e \in Duties(l) :
            /\ ~IsEarly(Report(l, e))
            /\ Report(l, e) < ref /\ Report(l, e) > Report(l, d)
     /\ ~ \E r \in Rests(l) :
            /\ l[r].duration >= ResetRest
            /\ l[r].ts < ref /\ l[r].ts >= Report(l, d)}
StreakIsTrailingRun ==
  \A ref \in AsOfs : EarlyStreak(log, ref) = Cardinality(TrailingRun(log, ref))

(* The evaluator and the debt rebuild measure rest in two ways: from the   *)
(* latest release before the report, and from the release of the duty that *)
(* reported last.  As long as no two duties overlap they agree, so that    *)
(* flying a trip after a reduced rest adds exactly the deficit the         *)
(* evaluator saw.                                                          *)
NoOverlap(l) ==
  \A d, e \in Duties(l) : d # e => l[d].ts < Report(l, e) \/ l[e].ts < Report(l, d)
EvaluatorAndDebtAgree ==
  \A report \in Proposals :
    LET flown == Append(log, [kind |-> "DUTY_CLOSED", ts |-> report + 60, fdp |-> 60,
                              owe |-> FALSE])
        d == Len(flown) IN
    NoOverlap(flown) =>
      /\ (ReleasesBefore(log, report) = {}) <=> (DutiesBefore(flown, d) = {})
      /\ DutiesBefore(flown, d) # {} => Gap(flown, d) = RestSinceLast(log, report)

-----------------------------------------------------------------------------
(* Stated by the repository, refuted by the code *)

(* "below the reduced floor is always a violation" (BENZHI_README.md:49):  *)
(* a proposed duty that reports less than nine hours after, or before, the *)
(* release of a duty that reported earlier is refused by R7.               *)
BelowFloorAlwaysViolates ==
  \A report \in Proposals, d \in Duties(log) :
    Report(log, d) < report /\ report - log[d].ts < ReducedFloor => MinRestViolated(log, report)

=============================================================================
