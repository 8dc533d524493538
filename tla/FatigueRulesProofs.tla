--------------------------- MODULE FatigueRulesProofs ---------------------------
(* Proofs about FatigueRules, for every set of inputs: any amounts, counts *)
(* and hours.                                                              *)
EXTENDS FatigueRules, FiniteSetTheorems, TLAPS

-----------------------------------------------------------------------------
(* The R1 table *)

Rank(segments) ==
  IF segments <= 2 THEN 1 ELSE IF segments <= 4 THEN 2 ELSE IF segments <= 6 THEN 3 ELSE 4
Cell(hour, segments) == IF IsDay(hour) THEN Rank(segments) ELSE 4 + Rank(segments)

LEMMA TableRows ==
  /\ DOMAIN FDPLimitTable = 1..8
  /\ \A i \in 1..4 : FDPLimitTable[i].day = TRUE
  /\ \A i \in 5..8 : FDPLimitTable[i].day = FALSE
  /\ \A i \in 1..8 :
       /\ FDPLimitTable[i].min = 2 * (IF i <= 4 THEN i ELSE i - 4) - 1
       /\ FDPLimitTable[i].max = IF i \in {4, 8} THEN 0 ELSE 2 * (IF i <= 4 THEN i ELSE i - 4)
       /\ FDPLimitTable[i].hours = IF i <= 4 THEN 15 - i ELSE 18 - i
<1>1. DOMAIN FDPLimitTable = 1..8
  BY DEF FDPLimitTable
<1>2. \A i \in 1..8 : i = 1 \/ i = 2 \/ i = 3 \/ i = 4 \/ i = 5 \/ i = 6 \/ i = 7 \/ i = 8
  OBVIOUS
<1>3. /\ FDPLimitTable[1].day = TRUE /\ FDPLimitTable[2].day = TRUE
      /\ FDPLimitTable[3].day = TRUE /\ FDPLimitTable[4].day = TRUE
      /\ FDPLimitTable[5].day = FALSE /\ FDPLimitTable[6].day = FALSE
      /\ FDPLimitTable[7].day = FALSE /\ FDPLimitTable[8].day = FALSE
  BY DEF FDPLimitTable, FDPEntry
<1>4. /\ FDPLimitTable[1].min = 1 /\ FDPLimitTable[2].min = 3
      /\ FDPLimitTable[3].min = 5 /\ FDPLimitTable[4].min = 7
      /\ FDPLimitTable[5].min = 1 /\ FDPLimitTable[6].min = 3
      /\ FDPLimitTable[7].min = 5 /\ FDPLimitTable[8].min = 7
  BY DEF FDPLimitTable, FDPEntry
<1>5. /\ FDPLimitTable[1].max = 2 /\ FDPLimitTable[2].max = 4
      /\ FDPLimitTable[3].max = 6 /\ FDPLimitTable[4].max = 0
      /\ FDPLimitTable[5].max = 2 /\ FDPLimitTable[6].max = 4
      /\ FDPLimitTable[7].max = 6 /\ FDPLimitTable[8].max = 0
  BY DEF FDPLimitTable, FDPEntry
<1>6. /\ FDPLimitTable[1].hours = 14 /\ FDPLimitTable[2].hours = 13
      /\ FDPLimitTable[3].hours = 12 /\ FDPLimitTable[4].hours = 11
      /\ FDPLimitTable[5].hours = 13 /\ FDPLimitTable[6].hours = 12
      /\ FDPLimitTable[7].hours = 11 /\ FDPLimitTable[8].hours = 10
  BY DEF FDPLimitTable, FDPEntry
<1>7. /\ \A i \in 1..4 : FDPLimitTable[i].day = TRUE
      /\ \A i \in 5..8 : FDPLimitTable[i].day = FALSE
  <2>1. /\ \A i \in 1..4 : i = 1 \/ i = 2 \/ i = 3 \/ i = 4
        /\ \A i \in 5..8 : i = 5 \/ i = 6 \/ i = 7 \/ i = 8
    OBVIOUS
  <2> QED
    BY <1>3, <2>1, Zenon
<1>8. \A i \in 1..8 :
        /\ FDPLimitTable[i].min = 2 * (IF i <= 4 THEN i ELSE i - 4) - 1
        /\ FDPLimitTable[i].max = IF i \in {4, 8} THEN 0 ELSE 2 * (IF i <= 4 THEN i ELSE i - 4)
        /\ FDPLimitTable[i].hours = IF i <= 4 THEN 15 - i ELSE 18 - i
  BY <1>2, <1>4, <1>5, <1>6
<1> QED
  BY <1>1, <1>7, <1>8

LEMMA OneCell ==
  ASSUME NEW hour \in Int, NEW segments \in Int, segments >= 1
  PROVE  Matching(hour, segments) = {Cell(hour, segments)}
<1>1. Cell(hour, segments) \in 1..8
  BY DEF Cell, Rank
<1>2. ASSUME NEW i \in 1..8
      PROVE  i \in Matching(hour, segments) <=> i = Cell(hour, segments)
  <2> DEFINE inBucket == /\ segments >= FDPLimitTable[i].min
                         /\ FDPLimitTable[i].max = 0 \/ segments <= FDPLimitTable[i].max
  <2>1. inBucket <=> Rank(segments) = IF i <= 4 THEN i ELSE i - 4
    BY TableRows DEF Rank
  <2>2. i \in Matching(hour, segments) <=> (FDPLimitTable[i].day = IsDay(hour)) /\ inBucket
    BY TableRows DEF Matching
  <2>3. IsDay(hour) \in BOOLEAN
    BY DEF IsDay
  <2> HIDE DEF inBucket
  <2>4. CASE i <= 4
    <3>1. FDPLimitTable[i].day = TRUE
      BY <2>4, TableRows
    <3>2. (FDPLimitTable[i].day = IsDay(hour)) <=> IsDay(hour)
      BY <2>3, <3>1, Zenon
    <3> QED
      BY <2>1, <2>2, <2>4, <3>2 DEF Cell, Rank
  <2>5. CASE i > 4
    <3>1. FDPLimitTable[i].day = FALSE
      BY <2>5, TableRows
    <3>2. (FDPLimitTable[i].day = IsDay(hour)) <=> ~IsDay(hour)
      BY <2>3, <3>1, Zenon
    <3> QED
      BY <2>1, <2>2, <2>5, <3>2 DEF Cell, Rank
  <2> QED
    BY <2>4, <2>5
<1> QED
  BY <1>1, <1>2, TableRows DEF Matching

LEMMA LimitOfCell ==
  ASSUME NEW hour \in Int, NEW segments \in Int, segments >= 1
  PROVE  FDPLimitHours(hour, segments) = (IF IsDay(hour) THEN 15 ELSE 14) - Rank(segments)
<1> DEFINE cell == Cell(hour, segments)
<1>1. cell \in 1..8
  BY DEF Cell, Rank
<1>2. (CHOOSE i \in {cell} : \A j \in {cell} : i <= j) = cell
  BY <1>1
<1>3. FDPLimitHours(hour, segments) = FDPLimitTable[cell].hours
  BY <1>2, OneCell DEF FDPLimitHours
<1> QED
  BY <1>1, <1>3, TableRows DEF Cell, Rank

LEMMA InputTypes ==
  ASSUME NEW d \in Inputs
  PROVE  /\ d.hour \in Int /\ d.segments \in Int /\ d.fdp \in Int /\ d.break \in Int
         /\ d.used28d \in Int /\ d.used168h \in Int /\ d.used365d \in Int
         /\ d.closed168h \in Int /\ d.rest \in Int /\ d.owed \in Int
         /\ d.streak \in Int /\ d.extended \in Int
         /\ d.facility \in Facilities
         /\ d.augmented \in BOOLEAN /\ d.weekly \in BOOLEAN /\ d.extension \in BOOLEAN
<1>1. /\ {"hour", "segments", "fdp", "break", "used28d", "used168h", "used365d", "closed168h",
          "rest", "owed", "streak", "extended"}
           \subseteq FieldNames \ {"facility", "augmented", "weekly", "extension"}
  BY DEF FieldNames
<1> QED
  BY <1>1, InputsAssumption

LEMMA NoCell ==
  ASSUME NEW hour \in Int, NEW segments \in Int, segments < 1
  PROVE  FDPLimitHours(hour, segments) = 10
<1>1. Matching(hour, segments) = {}
  BY TableRows DEF Matching
<1> QED
  BY <1>1 DEF FDPLimitHours

(* Another segment never lengthens the limit.                              *)
LEMMA LimitFalls ==
  ASSUME NEW hour \in Int, NEW m \in Int, NEW n \in Int, 1 <= m, m <= n
  PROVE  FDPLimitHours(hour, n) <= FDPLimitHours(hour, m)
<1>1. Rank(m) \in Int /\ Rank(n) \in Int /\ Rank(m) <= Rank(n)
  BY DEF Rank
<1>2. /\ FDPLimitHours(hour, m) = (IF IsDay(hour) THEN 15 ELSE 14) - Rank(m)
      /\ FDPLimitHours(hour, n) = (IF IsDay(hour) THEN 15 ELSE 14) - Rank(n)
  BY LimitOfCell
<1> QED
  BY <1>1, <1>2

LEMMA AlwaysAnInput == Spec => [](in \in Inputs)
<1>1. Init => in \in Inputs
  BY DEF Init
<1>2. Next => in' \in Inputs
  BY Zenon DEF Next, Resubmit
<1>3. in \in Inputs /\ [Next]_in => (in \in Inputs)'
  BY <1>2
<1> QED
  BY <1>1, <1>3, PTL DEF Spec

(* The R1 table (domain.FDPLimitTable) is a function of the hour and the   *)
(* number of segments, and its values are those of the closed form, for    *)
(* any hour and any number of segments.                                    *)
THEOREM TableIsFunction == Spec => []OneCellPerDuty
<1>1. ASSUME in \in Inputs PROVE OneCellPerDuty
  <2> SUFFICES ASSUME in.segments >= 1
               PROVE  /\ Cardinality(Matching(in.hour, in.segments)) = 1
                      /\ FDPLimitHours(in.hour, in.segments) =
                           (IF IsDay(in.hour) THEN 14 ELSE 13)
                             - (IF PairsBeyondFirst(in.segments) > 3
                                  THEN 3 ELSE PairsBeyondFirst(in.segments))
    BY DEF OneCellPerDuty
  <2>1. in.hour \in Int /\ in.segments \in Int
    BY <1>1, InputTypes
  <2>2. Cardinality({Cell(in.hour, in.segments)}) = 1
    BY FS_Singleton
  <2>3. Rank(in.segments) - 1 =
          IF PairsBeyondFirst(in.segments) > 3 THEN 3 ELSE PairsBeyondFirst(in.segments)
    BY <2>1 DEF Rank, PairsBeyondFirst
  <2>4. Rank(in.segments) \in Int /\ PairsBeyondFirst(in.segments) \in Int
    BY <2>1 DEF Rank, PairsBeyondFirst
  <2>5. Matching(in.hour, in.segments) = {Cell(in.hour, in.segments)}
    BY <2>1, OneCell
  <2>6. FDPLimitHours(in.hour, in.segments)
          = (IF IsDay(in.hour) THEN 15 ELSE 14) - Rank(in.segments)
    BY <2>1, LimitOfCell
  <2>7. FDPLimitHours(in.hour, in.segments)
          = (IF IsDay(in.hour) THEN 14 ELSE 13) - (Rank(in.segments) - 1)
    BY <2>4, <2>6
  <2>8. Cardinality(Matching(in.hour, in.segments)) = 1
    BY <2>2, <2>5
  <2> QED
    BY <2>3, <2>7, <2>8
<1> QED
  BY <1>1, AlwaysAnInput, PTL

(* No input without a segment gets a longer limit than some real duty      *)
(* would (FDPLimitHours' conservative fallback).                           *)
THEOREM MalformedGainsNothing == Spec => []MalformedNeverInflates
<1>1. ASSUME in \in Inputs PROVE MalformedNeverInflates
  <2> SUFFICES ASSUME in.segments < 1, NEW n \in 1..8, NEW hour \in 0..23
               PROVE  FDPLimit(in) <= FDPLimit([in EXCEPT !.segments = n, !.hour = hour])
    BY DEF MalformedNeverInflates
  <2> DEFINE e == [in EXCEPT !.segments = n, !.hour = hour]
  <2>1. /\ e.segments = n /\ e.hour = hour /\ e.augmented = in.augmented
        /\ e.facility = in.facility /\ e.break = in.break
    BY <1>1, InputsAssumption DEF FieldNames
  <2> HIDE DEF e
  <2>2. in.hour \in Int /\ in.segments \in Int /\ in.break \in Int /\ in.facility \in Facilities
    BY <1>1, InputTypes
  <2>3. FDPLimitHours(in.hour, in.segments) = 10
    BY <2>2, NoCell
  <2>4. FDPLimitHours(hour, n) \in Int /\ FDPLimitHours(hour, n) >= 10
    <3>1. Rank(n) \in 1..4 /\ n \in Int /\ hour \in Int /\ n >= 1
      BY DEF Rank
    <3>2. FDPLimitHours(hour, n) = (IF IsDay(hour) THEN 15 ELSE 14) - Rank(n)
      BY <3>1, LimitOfCell
    <3> QED
      BY <3>1, <3>2
  <2> DEFINE relief == IF in.augmented /\ in.facility # "NONE"
                         THEN ExtensionHours[in.facility] * 60 ELSE 0
  <2>5. relief \in Int
    BY <2>2 DEF ExtensionHours, Facilities
  <2>6. SplitCredit(in.break) \in Int
    BY <2>2 DEF SplitCredit, SplitCreditCap
  <2>7. /\ FDPLimit(in) = 10 * 60 + relief + SplitCredit(in.break)
        /\ FDPLimit(e) = FDPLimitHours(hour, n) * 60 + relief + SplitCredit(in.break)
    BY <2>1, <2>3 DEF FDPLimit
  <2> HIDE DEF relief
  <2>8. FDPLimit(in) <= FDPLimit(e)
    BY <2>4, <2>5, <2>6, <2>7
  <2> QED
    BY <2>8 DEF e
<1> QED
  BY <1>1, AlwaysAnInput, PTL

-----------------------------------------------------------------------------
(* Monotonicity *)

WorseThan(d, e, f) == \* e is d made worse in the field f
  \/ /\ f \in {"fdp", "used28d", "used168h", "used365d", "closed168h", "owed", "streak",
               "extended"}
     /\ e[f] > d[f]
  \/ f = "segments" /\ d[f] >= 1 /\ e[f] > d[f]
  \/ f = "break" /\ e[f] < d[f]
  \/ f = "facility" /\ ExtensionHours[e[f]] < ExtensionHours[d[f]]
  \/ f \in {"augmented", "weekly"} /\ d[f] /\ ~e[f]
  \/ f = "extension" /\ e[f] /\ ~d[f]
  \/ f = "rest" /\ e[f] # NoPrevious /\ (d[f] = NoPrevious \/ e[f] < d[f])

(* What differs when an input is made worse in one field.                  *)
NoBetter(d, e) ==
  /\ e.hour = d.hour
  /\ e.segments = d.segments \/ (d.segments >= 1 /\ e.segments >= d.segments)
  /\ e.break <= d.break
  /\ ExtensionHours[e.facility] <= ExtensionHours[d.facility]
  /\ e.augmented => d.augmented
  /\ e.fdp >= d.fdp /\ e.used28d >= d.used28d /\ e.used168h >= d.used168h
  /\ e.used365d >= d.used365d /\ e.closed168h >= d.closed168h
  /\ e.owed >= d.owed /\ e.streak >= d.streak /\ e.extended >= d.extended
  /\ e.weekly => d.weekly
  /\ d.extension => e.extension
  /\ d.rest # NoPrevious => e.rest # NoPrevious /\ e.rest <= d.rest

LEMMA WorseIsNoBetter ==
  ASSUME NEW d \in Inputs, NEW e \in Inputs, NEW f \in FieldNames,
         \A g \in FieldNames \ {f} : e[g] = d[g], WorseThan(d, e, f)
  PROVE  NoBetter(d, e)
<1> USE DEF WorseThan, NoBetter, FieldNames
<1>1. \A h \in Facilities : ExtensionHours[h] \in Int
  BY DEF ExtensionHours, Facilities
<1>2. /\ d.facility \in Facilities /\ e.facility \in Facilities
      /\ d.break \in Int /\ d.fdp \in Int /\ d.used28d \in Int /\ d.used168h \in Int
      /\ d.used365d \in Int /\ d.closed168h \in Int /\ d.owed \in Int /\ d.streak \in Int
      /\ d.extended \in Int /\ d.rest \in Int /\ d.segments \in Int
      /\ e.break \in Int /\ e.fdp \in Int /\ e.used28d \in Int /\ e.used168h \in Int
      /\ e.used365d \in Int /\ e.closed168h \in Int /\ e.owed \in Int /\ e.streak \in Int
      /\ e.extended \in Int /\ e.rest \in Int /\ e.segments \in Int
  BY InputTypes
<1>3. /\ e.hour = d.hour
      /\ e.segments = d.segments \/ (d.segments >= 1 /\ e.segments >= d.segments)
      /\ e.break <= d.break
      /\ ExtensionHours[e.facility] <= ExtensionHours[d.facility]
  BY <1>1, <1>2
<1>4. /\ e.fdp >= d.fdp /\ e.used28d >= d.used28d /\ e.used168h >= d.used168h
      /\ e.used365d >= d.used365d /\ e.closed168h >= d.closed168h
  BY <1>2
<1>5. e.owed >= d.owed /\ e.streak >= d.streak /\ e.extended >= d.extended
  BY <1>2
<1>6. /\ e.augmented => d.augmented
      /\ e.weekly => d.weekly
      /\ d.extension => e.extension
  BY Zenon
<1>7. d.rest # NoPrevious => e.rest # NoPrevious /\ e.rest <= d.rest
  BY <1>2 DEF NoPrevious
<1> QED
  BY <1>3, <1>4, <1>5, <1>6, <1>7

(* A worse duty never gets a longer limit: fewer hours for more segments,  *)
(* for a poorer facility, without relief crew and for a shorter break.     *)
LEMMA WorseLimit ==
  ASSUME NEW d \in Inputs, NEW e \in Inputs, NoBetter(d, e)
  PROVE  FDPLimit(e) <= FDPLimit(d) /\ FDPLimit(e) \in Int /\ FDPLimit(d) \in Int
<1> DEFINE relief(i) == IF i.augmented /\ i.facility # "NONE"
                          THEN ExtensionHours[i.facility] * 60 ELSE 0
           hours(i) == FDPLimitHours(i.hour, i.segments)
<1>1. /\ d.hour \in Int /\ d.segments \in Int /\ d.break \in Int /\ d.facility \in Facilities
      /\ e.hour \in Int /\ e.segments \in Int /\ e.break \in Int /\ e.facility \in Facilities
  BY InputTypes
<1>2. hours(e) \in Int /\ hours(d) \in Int /\ hours(e) <= hours(d)
  <2>1. ASSUME NEW hour \in Int, NEW n \in Int PROVE FDPLimitHours(hour, n) \in Int
    <3>1. CASE n < 1
      BY <3>1, NoCell
    <3>2. CASE n >= 1
      <4>1. Rank(n) \in Int
        BY DEF Rank
      <4>2. FDPLimitHours(hour, n) = (IF IsDay(hour) THEN 15 ELSE 14) - Rank(n)
        BY <3>2, LimitOfCell
      <4> QED
        BY <4>1, <4>2
    <3> QED
      BY <3>1, <3>2
  <2>2. CASE e.segments = d.segments
    <3>1. hours(e) = hours(d)
      BY <2>2 DEF NoBetter
    <3>2. hours(d) \in Int
      BY <1>1, <2>1
    <3> HIDE DEF hours
    <3> QED
      BY <3>1, <3>2
  <2>3. CASE d.segments >= 1 /\ e.segments >= d.segments
    BY <1>1, <2>1, <2>3, LimitFalls DEF NoBetter
  <2> QED
    BY <2>2, <2>3 DEF NoBetter
<1>3. /\ ExtensionHours["NONE"] = 0
      /\ \A h \in Facilities : ExtensionHours[h] \in Int /\ ExtensionHours[h] >= 0
  BY DEF ExtensionHours, Facilities
<1>4. relief(e) \in Int /\ relief(d) \in Int /\ relief(e) <= relief(d)
  <2>1. ExtensionHours[e.facility] <= ExtensionHours[d.facility]
    BY DEF NoBetter
  <2>2. CASE ~(e.augmented /\ e.facility # "NONE")
    BY <1>1, <1>3, <2>2
  <2>3. CASE e.augmented /\ e.facility # "NONE"
    <3>1. d.augmented
      BY <2>3 DEF NoBetter
    <3> QED
      BY <1>1, <1>3, <2>1, <2>3, <3>1
  <2> QED
    BY <2>2, <2>3
<1>5. SplitCredit(e.break) \in Int /\ SplitCredit(d.break) \in Int
      /\ SplitCredit(e.break) <= SplitCredit(d.break)
  BY <1>1 DEF NoBetter, SplitCredit, SplitCreditCap, SplitBreakMin
<1>6. \A i : FDPLimit(i) = hours(i) * 60 + relief(i) + SplitCredit(i.break)
  BY DEF FDPLimit
<1> HIDE DEF hours, relief
<1> QED
  BY <1>2, <1>4, <1>5, <1>6

LEMMA WorseViolations ==
  ASSUME NEW d \in Inputs, NEW e \in Inputs, NoBetter(d, e)
  PROVE  Violations(d) \subseteq Violations(e)
<1> SUFFICES ASSUME NEW rule \in RuleCodes, Breaks(d, rule) PROVE Breaks(e, rule)
  BY DEF Violations
<1>1. CASE rule = "R1_FDP_LIMIT"
  BY <1>1, WorseLimit, InputTypes DEF Breaks, NoBetter
<1>2. CASE rule = "R4_28D_FLIGHT_TIME"
  BY <1>2, InputTypes DEF Breaks, NoBetter, Limit28d
<1>3. CASE rule = "R5_168H_FDP"
  BY <1>3, InputTypes DEF Breaks, NoBetter, Limit168h
<1>4. CASE rule = "R6_365D_FLIGHT_TIME"
  BY <1>4, InputTypes DEF Breaks, NoBetter, Limit365d
<1>5. CASE rule = "R7_MIN_REST"
  BY <1>5, InputTypes DEF Breaks, NoBetter, MinRestBroken, ReducedFloor, MinRest
<1>6. CASE rule = "R8_WEEKLY_REST"
  BY <1>6, InputTypes DEF Breaks, NoBetter
<1>7. CASE rule = "R9_EARLY_START_STREAK"
  BY <1>7, InputTypes DEF Breaks, NoBetter, EarlyStartStreakMax
<1>8. CASE rule = "R10_UNFORESEEN_EXTENSION"
  BY <1>8, InputTypes DEF Breaks, NoBetter, YearlyLimit
<1> QED
  BY <1>1, <1>2, <1>3, <1>4, <1>5, <1>6, <1>7, <1>8 DEF RuleCodes

(* An illegal trip is never made legal, nor a violation lost, by making    *)
(* the input worse in any field (fatigue.Eval and its rules), for every    *)
(* pair of inputs that differ in one field.                                *)
THEOREM WorseDoesNotHelp == Spec => WorseNeverHelps
<1>1. ASSUME in \in Inputs, [Next]_in
      PROVE  [(\E f \in FieldNames : Worse(f)) => Violations(in) \subseteq Violations(in)']_in
  <2> SUFFICES ASSUME Next, NEW g \in FieldNames, Worse(g)
               PROVE  Violations(in) \subseteq Violations(in)'
    BY <1>1
  <2>1. PICK f \in FieldNames : \E value : in' = [in EXCEPT ![f] = value] /\ in' \in Inputs
    BY DEF Next, Resubmit
  <2>2. \A h \in FieldNames \ {f} : in'[h] = in[h]
    BY <1>1, <2>1, InputsAssumption
  <2>3. WorseThan(in, in', g)
    BY DEF Worse, WorseThan
  <2>4. f = g
    <3> SUFFICES ASSUME in'[g] = in[g] PROVE FALSE
      BY <2>2
    <3>1. g \in FieldNames \ {"facility", "augmented", "weekly", "extension"} =>
            in[g] \in Int
      BY <1>1, InputsAssumption
    <3>2. CASE g \in {"augmented", "weekly", "extension"}
      BY <2>3, <3>2, Zenon DEF WorseThan
    <3>3. CASE g = "facility"
      <4>1. ExtensionHours[in[g]] \in Int
        <5>1. in[g] \in Facilities
          BY <1>1, <3>3, InputsAssumption
        <5> QED
          BY <5>1 DEF ExtensionHours, Facilities
      <4> QED
        BY <2>3, <3>3, <4>1 DEF WorseThan
    <3>4. CASE g \notin {"facility", "augmented", "weekly", "extension"}
      BY <2>3, <3>1, <3>4 DEF WorseThan
    <3> QED
      BY <3>2, <3>3, <3>4
  <2>5. NoBetter(in, in')
    BY <1>1, <2>1, <2>2, <2>3, <2>4, WorseIsNoBetter
  <2> QED
    BY <1>1, <2>1, <2>5, WorseViolations
<1> QED
  BY <1>1, AlwaysAnInput, PTL DEF Spec, WorseNeverHelps

=============================================================================
