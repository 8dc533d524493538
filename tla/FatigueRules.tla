---------------------------- MODULE FatigueRules ----------------------------
(***************************************************************************)
(* The rule set R1-R10 as the pure function it is (fatigue.Eval): one      *)
(* fully resolved input, one set of broken rules.                          *)
(*                                                                         *)
(* The state is an input; a step resubmits it with one field changed, so   *)
(* that action properties compare the verdicts of two inputs that differ   *)
(* in one respect.  Amounts are minutes, hour is the local hour of the     *)
(* report.                                                                 *)
(***************************************************************************)
EXTENDS Integers, FiniteSets

CONSTANT Inputs \* the inputs that may be submitted

FieldNames ==
  {"hour", "segments", "fdp", "augmented", "facility", "break", \* the proposed duty
   "used28d", "used168h", "used365d", "closed168h",  \* rolling windows at asOf
   "rest", "owed", "weekly", "streak", "extension", "extended"}

Facilities == {"NONE", "CLASS_3", "CLASS_2", "CLASS_1"}

ASSUME InputsAssumption ==
  \A d \in Inputs :
    /\ DOMAIN d = FieldNames
    /\ d["facility"] \in Facilities
    /\ \A f \in {"augmented", "weekly", "extension"} : d[f] \in BOOLEAN
    /\ \A f \in FieldNames \ {"facility", "augmented", "weekly", "extension"} : d[f] \in Int

VARIABLE in

(* Rest is the time since the previous release, or this when there is no   *)
(* closed duty before the proposed one.                                    *)
NoPrevious == -1

MinRest == 10 * 60
ReducedFloor == 9 * 60
Limit28d == 100 * 60
Limit168h == 60 * 60
Limit365d == 1000 * 60
EarlyStartHour == 7
EarlyStartStreakMax == 5
YearlyLimit == 2
SplitBreakMin == 180
SplitCreditCap == 240

-----------------------------------------------------------------------------
(* R1-R3: the FDP limit *)

FDPEntry(day, min, max, hours) == [day |-> day, min |-> min, max |-> max, hours |-> hours]

OverlappingTable == \* faulty variant: the second day bucket starts too early
  <<FDPEntry(TRUE, 1, 2, 14), FDPEntry(TRUE, 2, 4, 13), FDPEntry(TRUE, 5, 6, 12),
    FDPEntry(TRUE, 7, 0, 11), FDPEntry(FALSE, 1, 2, 13), FDPEntry(FALSE, 3, 4, 12),
    FDPEntry(FALSE, 5, 6, 11), FDPEntry(FALSE, 7, 0, 10)>>

FDPLimitTable == \* max 0: unbounded
  <<FDPEntry(TRUE, 1, 2, 14), FDPEntry(TRUE, 3, 4, 13), FDPEntry(TRUE, 5, 6, 12),
    FDPEntry(TRUE, 7, 0, 11), FDPEntry(FALSE, 1, 2, 13), FDPEntry(FALSE, 3, 4, 12),
    FDPEntry(FALSE, 5, 6, 11), FDPEntry(FALSE, 7, 0, 10)>>

IsDay(hour) == hour >= 5 /\ hour <= 21

Matching(hour, segments) ==
  {i \in DOMAIN FDPLimitTable :
     /\ FDPLimitTable[i].day = IsDay(hour)
     /\ segments >= FDPLimitTable[i].min
     /\ FDPLimitTable[i].max = 0 \/ segments <= FDPLimitTable[i].max}

FDPLimitInflated(hour, segments) == \* faulty variant: no entry gives the day limit
  IF Matching(hour, segments) = {} THEN 14
  ELSE FDPLimitTable[CHOOSE i \in Matching(hour, segments) :
                       \A j \in Matching(hour, segments) : i <= j].hours

FDPLimitHours(hour, segments) ==
  IF Matching(hour, segments) = {} THEN 10
  ELSE FDPLimitTable[CHOOSE i \in Matching(hour, segments) :
                       \A j \in Matching(hour, segments) : i <= j].hours

ExtensionHours == [c \in Facilities |->
  CASE c = "CLASS_1" -> 4 [] c = "CLASS_2" -> 3 [] c = "CLASS_3" -> 2 [] OTHER -> 0]

CreditOfShortBreaks(break) == \* faulty variant: beyond the cap nothing is credited
  IF break < SplitBreakMin \/ break > SplitCreditCap THEN 0 ELSE break

SplitCredit(break) ==
  IF break < SplitBreakMin THEN 0
  ELSE IF break > SplitCreditCap THEN SplitCreditCap ELSE break

FDPLimit(d) ==
  FDPLimitHours(d.hour, d.segments) * 60
    + (IF d.augmented /\ d.facility # "NONE" THEN ExtensionHours[d.facility] * 60 ELSE 0)
    + SplitCredit(d.break)

-----------------------------------------------------------------------------
(* R4-R10 *)

IsEarlyStart(hour) == hour < EarlyStartHour

MinRestOwedOnFull(d) == \* faulty variant: a debt is held against a full rest only
  d.rest # NoPrevious
    /\ (d.rest < ReducedFloor \/ (d.rest >= MinRest /\ d.owed > 0))

(* Rest since the previous release is positive: lastDutyReleaseBefore only *)
(* finds releases before the report, so that the clamp at 0 never acts.    *)
MinRestBroken(d) ==
  d.rest # NoPrevious
    /\ (d.rest < ReducedFloor \/ (d.rest < MinRest /\ d.owed > 0))

RuleCodes == \* those of the rules that can be broken
  {"R1_FDP_LIMIT", "R4_28D_FLIGHT_TIME", "R5_168H_FDP", "R6_365D_FLIGHT_TIME", "R7_MIN_REST",
   "R8_WEEKLY_REST", "R9_EARLY_START_STREAK", "R10_UNFORESEEN_EXTENSION"}

Breaks(d, rule) ==
  CASE rule = "R1_FDP_LIMIT" -> d.fdp > FDPLimit(d)
    [] rule = "R4_28D_FLIGHT_TIME" -> d.used28d > Limit28d
    [] rule = "R5_168H_FDP" -> d.used168h > Limit168h
    [] rule = "R6_365D_FLIGHT_TIME" -> d.used365d > Limit365d
    [] rule = "R7_MIN_REST" -> MinRestBroken(d)
    [] rule = "R8_WEEKLY_REST" -> d.closed168h > 0 /\ ~d.weekly
    [] rule = "R9_EARLY_START_STREAK" ->
         IsEarlyStart(d.hour) /\ d.streak + 1 > EarlyStartStreakMax
    [] rule = "R10_UNFORESEEN_EXTENSION" -> d.extension /\ d.extended >= YearlyLimit

Violations(d) == {rule \in RuleCodes : Breaks(d, rule)}
Verdict(d) == IF Violations(d) = {} THEN "LEGAL" ELSE "ILLEGAL"

-----------------------------------------------------------------------------
Submitted == [f \in FieldNames |-> {d[f] : d \in Inputs}]

Init == in \in Inputs
Resubmit(f, value) ==
  /\ in' = [in EXCEPT ![f] = value]
  /\ in' \in Inputs
Next == \E f \in FieldNames : \E value \in Submitted[f] : Resubmit(f, value)
Spec == Init /\ [][Next]_in

-----------------------------------------------------------------------------
(* Properties *)

(* The R1 table has one cell for every duty with a segment, so the order   *)
(* of its entries does not matter, and its limits are those of the closed  *)
(* form: an hour less for each further pair of segments, up to three, and  *)
(* an hour less at night.                                                  *)
PairsBeyondFirst(segments) == (segments - 1) \div 2
OneCellPerDuty ==
  in.segments >= 1 =>
    /\ Cardinality(Matching(in.hour, in.segments)) = 1
    /\ FDPLimitHours(in.hour, in.segments) =
         (IF IsDay(in.hour) THEN 14 ELSE 13)
           - (IF PairsBeyondFirst(in.segments) > 3 THEN 3 ELSE PairsBeyondFirst(in.segments))

(* "a malformed input cannot inflate a limit" (constants.go:94-95): with   *)
(* no segment the limit is no higher than that of any duty that has some,  *)
(* whenever it reports.                                                    *)
MalformedNeverInflates ==
  in.segments < 1 =>
    \A n \in 1..8, hour \in 0..23 :
      FDPLimit(in) <= FDPLimit([in EXCEPT !.segments = n, !.hour = hour])

(* Doing worse never helps: more flight, a longer duty, another segment,   *)
(* more debt, a longer streak, an extension, less rest, a shorter break, a *)
(* poorer rest facility or no relief crew never makes an illegal trip      *)
(* legal, nor takes a violation off its list.                              *)
Worse(f) ==
  \/ /\ f \in {"fdp", "used28d", "used168h", "used365d", "closed168h", "owed", "streak",
               "extended"}
     /\ in'[f] > in[f]
  \/ f = "segments" /\ in[f] >= 1 /\ in'[f] > in[f]
  \/ f = "break" /\ in'[f] < in[f]
  \/ f = "facility" /\ ExtensionHours[in'[f]] < ExtensionHours[in[f]]
  \/ f \in {"augmented", "weekly"} /\ in[f] /\ ~in'[f]
  \/ f = "extension" /\ in'[f] /\ ~in[f]
  \/ f = "rest" /\ in'[f] # NoPrevious /\ (in[f] = NoPrevious \/ in'[f] < in[f])
WorseNeverHelps ==
  [][(\E f \in FieldNames : Worse(f)) => Violations(in) \subseteq Violations(in)']_in

=============================================================================
