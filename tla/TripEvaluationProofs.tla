-------------------------- MODULE TripEvaluationProofs --------------------------
(* Proofs about TripEvaluation, for any number of callers, crew members,   *)
(* trips, years, rows and failed appends and any quota.                    *)
EXTENDS TripEvaluation, FiniteSetTheorems, WellFoundedInduction, SequenceTheorems,
        TLAPS

Rules == OtherRules \cup {"R10"}
Verdicts == {"LEGAL", "ILLEGAL"}
Holding == {"retag", "recheck", "done"} \* a caller here knows the id of a row

RowType ==
  [crew: Crew, trip: Trips \cup {0}, year: Years, verdict: Verdicts,
   violations: SUBSET Rules]
EvaluationType == [kind: {"EVALUATION"}, crew: Crew, id: Nat, verdict: Verdicts]
ExtensionType == [kind: {"UNFORESEEN_EXTENSION"}, crew: Crew, year: Years]
WaitingType ==
  [pc: {"evaluate"}, crew: Crew, trip: Trips, year: Years, apply: BOOLEAN]
HoldingType ==
  [pc: Holding, crew: Crew, trip: Trips, year: Years, apply: BOOLEAN, id: Nat,
   violations: SUBSET Rules]

Types ==
  /\ evaluations \in Seq(RowType)
  /\ log \in Seq(EvaluationType \cup ExtensionType)
  /\ calls \in [Callers -> {Idle} \cup WaitingType \cup HoldingType]

-----------------------------------------------------------------------------
(* Types *)

LEMMA StoreTypes ==
  ASSUME NEW c \in Crew, NEW year \in Years, NEW broken \in SUBSET OtherRules,
         Types, StoreEvaluation(c, year, broken)
  PROVE  /\ evaluations' \in Seq(RowType)
         /\ log' \in Seq(EvaluationType \cup ExtensionType)
<1>1. Row(c, year, broken) \in RowType
  BY DEF Row, RowType, VerdictOf, Verdicts, Rules
<1>2. EvaluationEvent(c, Len(evaluations) + 1, broken) \in EvaluationType
  BY DEF EvaluationEvent, EvaluationType, VerdictOf, Verdicts, Types
<1>3. log' = log \/ log' = Append(log, EvaluationEvent(c, Len(evaluations) + 1, broken))
  BY DEF StoreEvaluation, AppendEvaluation
<1> QED
  BY <1>1, <1>2, <1>3 DEF StoreEvaluation, Types

LEMMA CallerTypes ==
  ASSUME Types, NEW p \in Callers
  PROVE  /\ calls[p].pc = "evaluate" => calls[p] \in WaitingType
         /\ calls[p].pc \in Holding => calls[p] \in HoldingType
         /\ calls[p].pc \in {"idle", "evaluate"} \cup Holding
BY DEF Types, Idle, WaitingType, HoldingType, Holding

LEMMA RowTypes ==
  ASSUME NEW row \in RowType, NEW trip \in Trips
  PROVE  [row EXCEPT !.trip = trip] \in RowType
BY DEF RowType

LEMMA UpdateTypes ==
  ASSUME NEW rows \in Seq(RowType), NEW i, NEW row, i \in DOMAIN rows => row \in RowType
  PROVE  /\ [rows EXCEPT ![i] = row] \in Seq(RowType)
         /\ DOMAIN [rows EXCEPT ![i] = row] = DOMAIN rows
<1>1. CASE i \in DOMAIN rows
  BY <1>1, ExceptSeq
<1>2. CASE i \notin DOMAIN rows
  <2>1. [rows EXCEPT ![i] = row] = rows
    BY <1>2
  <2> QED
    BY <2>1
<1> QED
  BY <1>1, <1>2

LEMMA StepTypes ==
  ASSUME Types, [Next]_vars
  PROVE  Types'
<1>1. CASE UNCHANGED vars
  BY <1>1 DEF vars, Types
<1>2. ASSUME NEW t \in Trips, AddSegment(t) PROVE Types'
  BY <1>2 DEF AddSegment, Types
<1>3. ASSUME NEW c \in Crew, NEW year \in Years, ExtendDuty(c, year) PROVE Types'
  <2>1. [kind |-> "UNFORESEEN_EXTENSION", crew |-> c, year |-> year] \in ExtensionType
    BY DEF ExtensionType
  <2> QED
    BY <1>3, <2>1 DEF ExtendDuty, Types
<1>4. ASSUME NEW c \in Crew, NEW year \in Years, NEW broken \in SUBSET OtherRules,
             EvaluateTrip(c, year, broken)
      PROVE  Types'
  BY <1>4, StoreTypes DEF EvaluateTrip, Types
<1>5. ASSUME NEW p \in Callers, NEW c \in Crew, NEW t \in Trips, NEW year \in Years,
             NEW apply \in BOOLEAN, ReadSegments(p, c, t, year, apply)
      PROVE  Types'
  <2>1. [pc |-> "evaluate", crew |-> c, trip |-> t, year |-> year, apply |-> apply]
          \in WaitingType
    BY DEF WaitingType
  <2> QED
    BY <1>5, <2>1 DEF ReadSegments, Types
<1>6. ASSUME NEW p \in Callers, NEW broken \in SUBSET OtherRules, EvaluateSegments(p, broken)
      PROVE  Types'
  <2>1. calls[p] \in WaitingType
    BY <1>6, CallerTypes DEF EvaluateSegments
  <2>2. calls[p].crew \in Crew /\ calls[p].year \in Years
    BY <2>1 DEF WaitingType
  <2>3. /\ evaluations' \in Seq(RowType)
        /\ log' \in Seq(EvaluationType \cup ExtensionType)
    BY <1>6, <2>2, StoreTypes DEF EvaluateSegments
  <2>4. [pc |-> "retag", crew |-> calls[p].crew, trip |-> calls[p].trip,
         year |-> calls[p].year, apply |-> calls[p].apply, id |-> Len(evaluations) + 1,
         violations |-> broken] \in HoldingType
    BY <2>1 DEF WaitingType, HoldingType, Holding, Rules, Types
  <2> QED
    BY <1>6, <2>3, <2>4 DEF EvaluateSegments, Types
<1>7. ASSUME NEW p \in Callers, Retag(p) PROVE Types'
  <2>1. calls[p] \in HoldingType
    BY <1>7, CallerTypes DEF Retag, Holding
  <2>2. [calls[p] EXCEPT !.pc = AfterRetag(calls[p])] \in HoldingType
    BY <2>1 DEF HoldingType, Holding, AfterRetag
  <2>3. calls' \in [Callers -> {Idle} \cup WaitingType \cup HoldingType]
    BY <1>7, <2>2 DEF Retag, Types
  <2>4. calls[p].trip \in Trips
    BY <2>1 DEF HoldingType
  <2>5. evaluations' \in Seq(RowType)
    <3> DEFINE row == [evaluations[calls[p].id] EXCEPT !.trip = calls[p].trip]
    <3>1. calls[p].id \in DOMAIN evaluations => evaluations[calls[p].id] \in RowType
      BY DEF Types
    <3>2. calls[p].id \in DOMAIN evaluations => row \in RowType
      BY <3>1, <2>4, RowTypes
    <3>3. evaluations' = [evaluations EXCEPT ![calls[p].id] = row]
      BY <1>7 DEF Retag
    <3> HIDE DEF row
    <3> QED
      BY <3>2, <3>3, UpdateTypes DEF Types
  <2> QED
    BY <1>7, <2>3, <2>5 DEF Retag, Types
<1>8. ASSUME NEW p \in Callers, Recheck(p) PROVE Types'
  <2>0. PICK used \in Counts(calls[p]) :
          /\ evaluations' = [evaluations EXCEPT ![calls[p].id] =
               [@ EXCEPT !.violations = Rechecked(calls[p], used),
                         !.verdict = VerdictOf(Rechecked(calls[p], used))]]
          /\ calls' = [calls EXCEPT ![p] =
               [@ EXCEPT !.pc = "done", !.violations = Rechecked(calls[p], used)]]
    BY <1>8 DEF Recheck
  <2> DEFINE all == Rechecked(calls[p], used)
  <2>1. calls[p] \in HoldingType
    BY <1>8, CallerTypes DEF Recheck, Holding
  <2>2. all \in SUBSET Rules
    BY <2>1 DEF Rechecked, HoldingType, Rules
  <2>3. VerdictOf(all) \in Verdicts
    BY DEF VerdictOf, Verdicts
  <2>4. /\ evaluations' = [evaluations EXCEPT ![calls[p].id] =
             [@ EXCEPT !.violations = all, !.verdict = VerdictOf(all)]]
        /\ calls' = [calls EXCEPT ![p] = [@ EXCEPT !.pc = "done", !.violations = all]]
        /\ log' = log
    BY <1>8, <2>0 DEF Recheck
  <2> HIDE DEF all
  <2>5. calls' \in [Callers -> {Idle} \cup WaitingType \cup HoldingType]
    BY <2>1, <2>2, <2>4 DEF Types, HoldingType, Holding
  <2>6. evaluations' \in Seq(RowType)
    <3> DEFINE row == [evaluations[calls[p].id] EXCEPT
                         !.violations = all, !.verdict = VerdictOf(all)]
    <3>1. calls[p].id \in DOMAIN evaluations => evaluations[calls[p].id] \in RowType
      BY DEF Types
    <3>2. calls[p].id \in DOMAIN evaluations => row \in RowType
      BY <3>1, <2>2, <2>3 DEF RowType
    <3>3. evaluations' = [evaluations EXCEPT ![calls[p].id] = row]
      BY <2>4
    <3> HIDE DEF row
    <3> QED
      BY <3>2, <3>3, UpdateTypes DEF Types
  <2> QED
    BY <2>4, <2>5, <2>6 DEF Types
<1>9. ASSUME NEW p \in Callers, Cancelled(p) PROVE Types'
  BY <1>9 DEF Cancelled, Types
<1>10. ASSUME NEW p \in Callers, RecheckFails(p) PROVE Types'
  <2>1. calls[p] \in HoldingType
    BY <1>10, CallerTypes DEF RecheckFails, Holding
  <2>2. /\ \A used : Rechecked(calls[p], used) \in SUBSET Rules
        /\ calls[p].violations \in SUBSET Rules
    BY <2>1 DEF Rechecked, HoldingType, Rules
  <2>3. PICK violations \in SUBSET Rules :
          calls' = [calls EXCEPT ![p] = [@ EXCEPT !.pc = "done", !.violations = violations]]
    BY <1>10, <2>2 DEF RecheckFails
  <2>4. calls' \in [Callers -> {Idle} \cup WaitingType \cup HoldingType]
    BY <2>1, <2>3 DEF Types, HoldingType, Holding
  <2> QED
    BY <1>10, <2>4 DEF RecheckFails, Types
<1>11. CASE Crash
  BY <1>11 DEF Crash, Types
<1> QED
  BY <1>1, <1>2, <1>3, <1>4, <1>5, <1>6, <1>7, <1>8, <1>9, <1>10, <1>11 DEF Next

-----------------------------------------------------------------------------
(* What a caller that holds a row may rely on *)

Held(p) ==
  calls[p].pc \in Holding =>
    LET row == evaluations[calls[p].id] IN
    /\ calls[p].id \in DOMAIN evaluations
    /\ row.crew = calls[p].crew
    /\ row.trip = IF calls[p].pc = "retag" THEN 0 ELSE calls[p].trip
    /\ calls[p].pc # "done" => /\ row.violations = calls[p].violations
                               /\ calls[p].violations \subseteq OtherRules
    /\ calls[p].pc = "recheck" => calls[p].apply
    /\ calls[p].pc = "done" =>
         /\ row.violations \subseteq calls[p].violations
         /\ calls[p].violations \ row.violations \subseteq {"R10"}
         /\ ~calls[p].apply => row.violations = calls[p].violations

Apart ==
  \A p, q \in Callers :
    p # q /\ calls[p].pc \in Holding /\ calls[q].pc \in Holding => calls[p].id # calls[q].id

Relied == (\A p \in Callers : Held(p)) /\ Apart

(* A step that leaves a call and its row alone leaves what it relies on.   *)
LEMMA HeldKept ==
  ASSUME NEW p \in Callers, Held(p), calls'[p] = calls[p],
         calls[p].pc \in Holding =>
           /\ DOMAIN evaluations \subseteq DOMAIN evaluations'
           /\ evaluations'[calls[p].id] = evaluations[calls[p].id]
  PROVE  Held(p)'
BY DEF Held

LEMMA StoreKeepsRows ==
  ASSUME NEW c, NEW year, NEW broken, Types, StoreEvaluation(c, year, broken)
  PROVE  /\ DOMAIN evaluations \subseteq DOMAIN evaluations'
         /\ \A i \in DOMAIN evaluations : evaluations'[i] = evaluations[i]
         /\ Len(evaluations) + 1 \in DOMAIN evaluations'
         /\ Len(evaluations) + 1 \notin DOMAIN evaluations
         /\ evaluations'[Len(evaluations) + 1] = Row(c, year, broken)
BY DEF StoreEvaluation, Types

LEMMA StepRelied ==
  ASSUME Types, Relied, [Next]_vars
  PROVE  Relied'
<1>1. CASE UNCHANGED <<calls, evaluations>>
  BY <1>1, HeldKept DEF Relied, Apart
<1>2. ASSUME NEW c \in Crew, NEW year \in Years, NEW broken \in SUBSET OtherRules,
             EvaluateTrip(c, year, broken)
      PROVE  Relied'
  <2>1. \A p \in Callers : Held(p)'
    BY <1>2, HeldKept, StoreKeepsRows DEF EvaluateTrip, Relied, Held
  <2> QED
    BY <1>2, <2>1 DEF EvaluateTrip, Relied, Apart
(* A call that gives its row up, or holds none, cannot be in the way.      *)
<1>3. ASSUME NEW p \in Callers, NEW call, call.pc \notin Holding,
             calls' = [calls EXCEPT ![p] = call], evaluations' = evaluations
      PROVE  Relied'
  <2>1. ASSUME NEW q \in Callers PROVE Held(q)'
    <3>1. CASE q = p
      BY <1>3, <3>1 DEF Held, Types
    <3>2. CASE q # p
      BY <1>3, <3>2, HeldKept DEF Relied, Types
    <3> QED
      BY <3>1, <3>2
  <2> QED
    BY <1>3, <2>1 DEF Relied, Apart, Types
<1>4. ASSUME NEW p \in Callers, NEW c \in Crew, NEW t \in Trips, NEW year \in Years,
             NEW apply \in BOOLEAN, ReadSegments(p, c, t, year, apply)
      PROVE  Relied'
  <2> DEFINE call ==
        [pc |-> "evaluate", crew |-> c, trip |-> t, year |-> year, apply |-> apply]
  <2>1. call.pc \notin Holding
    BY DEF Holding
  <2>2. calls' = [calls EXCEPT ![p] = call] /\ evaluations' = evaluations
    BY <1>4 DEF ReadSegments
  <2> HIDE DEF call
  <2> QED
    BY <1>3, <2>1, <2>2
<1>5. ASSUME NEW p \in Callers, Cancelled(p) PROVE Relied'
  BY <1>3, <1>5 DEF Cancelled, Idle, Holding
<1>6. CASE Crash
  BY <1>6 DEF Crash, Relied, Held, Apart, Idle, Holding
<1>7. ASSUME NEW p \in Callers, NEW broken \in SUBSET OtherRules, EvaluateSegments(p, broken)
      PROVE  Relied'
  <2> DEFINE call ==
        [pc |-> "retag", crew |-> calls[p].crew, trip |-> calls[p].trip,
         year |-> calls[p].year, apply |-> calls[p].apply, id |-> Len(evaluations) + 1,
         violations |-> broken]
  <2>1. /\ calls' = [calls EXCEPT ![p] = call]
        /\ StoreEvaluation(calls[p].crew, calls[p].year, broken)
    BY <1>7 DEF EvaluateSegments
  <2>2. calls'[p] = call /\ \A q \in Callers \ {p} : calls'[q] = calls[q]
    BY <2>1 DEF Types
  <2>3. /\ evaluations'[call.id] = Row(calls[p].crew, calls[p].year, broken)
        /\ call.id \in DOMAIN evaluations'
        /\ call.id \notin DOMAIN evaluations
    BY <2>1, StoreKeepsRows
  <2>4. Held(p)'
    BY <2>2, <2>3 DEF Held, Row, Holding
  <2>5. ASSUME NEW q \in Callers \ {p} PROVE Held(q)'
    BY <2>1, <2>2, HeldKept, StoreKeepsRows DEF Relied, Held
  <2>6. ASSUME NEW q \in Callers \ {p}, calls[q].pc \in Holding PROVE calls[q].id # call.id
    BY <2>3, <2>6 DEF Relied, Held
  <2>7. Apart'
    BY <2>2, <2>6 DEF Relied, Apart
  <2> QED
    BY <2>4, <2>5, <2>7 DEF Relied
(* A call that writes its own row, and goes on holding it, leaves the rows *)
(* of the others alone, for no two hold the same.                          *)
<1>8. ASSUME NEW p \in Callers, NEW call, NEW row, calls[p].pc \in Holding,
             call.id = calls[p].id, calls' = [calls EXCEPT ![p] = call],
             evaluations' = [evaluations EXCEPT ![calls[p].id] = row],
             Held(p)'
      PROVE  Relied'
  <2>1. calls'[p] = call /\ \A q \in Callers \ {p} : calls'[q] = calls[q]
    BY <1>8 DEF Types
  <2>2. ASSUME NEW q \in Callers \ {p} PROVE Held(q)'
    <3>1. calls[q].pc \in Holding => calls[q].id # calls[p].id
      BY <1>8 DEF Relied, Apart
    <3>2. calls[q].pc \in Holding => calls[q].id \in DOMAIN evaluations
      BY DEF Relied, Held
    <3>3. calls[q].pc \in Holding => evaluations'[calls[q].id] = evaluations[calls[q].id]
      BY <1>8, <3>1, <3>2
    <3> QED
      BY <1>8, <2>1, <3>3, HeldKept DEF Relied
  <2>3. Apart'
    BY <1>8, <2>1 DEF Relied, Apart
  <2> QED
    BY <1>8, <2>2, <2>3 DEF Relied
<1>9. ASSUME NEW p \in Callers, Retag(p) PROVE Relied'
  <2>1. calls[p] \in HoldingType /\ calls[p].id \in DOMAIN evaluations
    BY <1>9, CallerTypes DEF Retag, Holding, Relied, Held
  <2>2. evaluations[calls[p].id] \in RowType
    BY <2>1 DEF Types
  <2> DEFINE row == [evaluations[calls[p].id] EXCEPT !.trip = calls[p].trip]
             call == [calls[p] EXCEPT !.pc = AfterRetag(calls[p])]
  <2>3. /\ evaluations' = [evaluations EXCEPT ![calls[p].id] = row]
        /\ calls' = [calls EXCEPT ![p] = call]
    BY <1>9 DEF Retag
  <2>4. /\ row.crew = evaluations[calls[p].id].crew
        /\ row.violations = evaluations[calls[p].id].violations
        /\ row.trip = calls[p].trip
    BY <2>2 DEF RowType
  <2>5. /\ call.id = calls[p].id /\ call.crew = calls[p].crew /\ call.trip = calls[p].trip
        /\ call.violations = calls[p].violations /\ call.apply = calls[p].apply
        /\ call.pc = AfterRetag(calls[p])
    BY <2>1 DEF HoldingType
  <2> HIDE DEF row, call
  <2>6. calls'[p] = call /\ evaluations'[calls[p].id] = row
        /\ DOMAIN evaluations' = DOMAIN evaluations
    BY <2>1, <2>3 DEF Types
  <2>7. /\ evaluations[calls[p].id].crew = calls[p].crew
        /\ evaluations[calls[p].id].violations = calls[p].violations
        /\ calls[p].violations \subseteq OtherRules
    BY <1>9 DEF Retag, Relied, Held, Holding
  <2>8. \/ call.pc = "recheck" /\ call.apply
        \/ call.pc = "done" /\ ~call.apply
    BY <2>5 DEF AfterRetag
  <2>9. Held(p)'
    BY <2>1, <2>4, <2>5, <2>6, <2>7, <2>8 DEF Held
  <2>10. calls[p].pc \in Holding
    BY <1>9 DEF Retag, Holding
  <2> QED
    BY <1>8, <2>3, <2>5, <2>9, <2>10
<1>10. ASSUME NEW p \in Callers, Recheck(p) PROVE Relied'
  <2>1. calls[p] \in HoldingType /\ calls[p].id \in DOMAIN evaluations
    BY <1>10, CallerTypes DEF Recheck, Holding, Relied, Held
  <2>2. evaluations[calls[p].id] \in RowType
    BY <2>1 DEF Types
  <2>0. PICK used \in Counts(calls[p]) :
          /\ evaluations' = [evaluations EXCEPT ![calls[p].id] =
               [@ EXCEPT !.violations = Rechecked(calls[p], used),
                         !.verdict = VerdictOf(Rechecked(calls[p], used))]]
          /\ calls' = [calls EXCEPT ![p] =
               [@ EXCEPT !.pc = "done", !.violations = Rechecked(calls[p], used)]]
    BY <1>10 DEF Recheck
  <2> DEFINE all == Rechecked(calls[p], used)
             row == [evaluations[calls[p].id] EXCEPT
                       !.violations = all, !.verdict = VerdictOf(all)]
             call == [calls[p] EXCEPT !.pc = "done", !.violations = all]
  <2>3. /\ evaluations' = [evaluations EXCEPT ![calls[p].id] = row]
        /\ calls' = [calls EXCEPT ![p] = call]
    BY <2>0
  <2> HIDE DEF all
  <2>4. /\ row.crew = evaluations[calls[p].id].crew
        /\ row.trip = evaluations[calls[p].id].trip
        /\ row.violations = all
    BY <2>2 DEF RowType
  <2>5. /\ call.id = calls[p].id /\ call.crew = calls[p].crew /\ call.trip = calls[p].trip
        /\ call.violations = all /\ call.apply = calls[p].apply /\ call.pc = "done"
    BY <2>1 DEF HoldingType
  <2> HIDE DEF row, call
  <2>6. calls'[p] = call /\ evaluations'[calls[p].id] = row
        /\ DOMAIN evaluations' = DOMAIN evaluations
    BY <2>1, <2>3 DEF Types
  <2>7. /\ evaluations[calls[p].id].crew = calls[p].crew
        /\ evaluations[calls[p].id].trip = calls[p].trip
    BY <1>10 DEF Recheck, Relied, Held, Holding
  <2>8. Held(p)'
    BY <2>1, <2>4, <2>5, <2>6, <2>7 DEF Held
  <2>9. calls[p].pc \in Holding
    BY <1>10 DEF Recheck, Holding
  <2> QED
    BY <1>8, <2>3, <2>5, <2>8, <2>9
(* An uncommitted recheck may answer a broken quota the row does not list. *)
<1>11. ASSUME NEW p \in Callers, RecheckFails(p) PROVE Relied'
  <2>1. calls[p] \in HoldingType /\ calls[p].id \in DOMAIN evaluations
    BY <1>11, CallerTypes DEF RecheckFails, Holding, Relied, Held
  <2>2. PICK violations \in {calls[p].violations} \cup
                              {Rechecked(calls[p], used) : used \in Counts(calls[p])} :
          calls' = [calls EXCEPT ![p] = [@ EXCEPT !.pc = "done", !.violations = violations]]
    BY <1>11 DEF RecheckFails
  <2> DEFINE call == [calls[p] EXCEPT !.pc = "done", !.violations = violations]
  <2>3. calls' = [calls EXCEPT ![p] = call] /\ evaluations' = evaluations
    BY <1>11, <2>2 DEF RecheckFails
  <2>4. /\ call.id = calls[p].id /\ call.crew = calls[p].crew /\ call.trip = calls[p].trip
        /\ call.violations = violations /\ call.apply = calls[p].apply /\ call.pc = "done"
    BY <2>1 DEF HoldingType
  <2>5. /\ calls[p].violations \subseteq violations
        /\ violations \ calls[p].violations \subseteq {"R10"}
    BY <2>2 DEF Rechecked
  <2> HIDE DEF call
  <2>6. calls'[p] = call
    BY <2>3 DEF Types
  <2>7. /\ evaluations[calls[p].id].crew = calls[p].crew
        /\ evaluations[calls[p].id].trip = calls[p].trip
        /\ evaluations[calls[p].id].violations = calls[p].violations
        /\ calls[p].apply
    BY <1>11 DEF RecheckFails, Relied, Held, Holding
  <2>8. Held(p)'
    BY <2>1, <2>3, <2>4, <2>5, <2>6, <2>7 DEF Held
  <2>9. evaluations' = [evaluations EXCEPT ![calls[p].id] = evaluations[calls[p].id]]
    BY <2>1, <2>3 DEF Types
  <2>10. calls[p].pc \in Holding
    BY <1>11 DEF RecheckFails, Holding
  <2> QED
    BY <1>8, <2>3, <2>4, <2>8, <2>9, <2>10
<1>12. CASE UNCHANGED vars
  BY <1>1, <1>12 DEF vars
<1>13. ASSUME NEW t \in Trips, AddSegment(t) PROVE Relied'
  BY <1>1, <1>13 DEF AddSegment
<1>14. ASSUME NEW c \in Crew, NEW year \in Years, ExtendDuty(c, year) PROVE Relied'
  BY <1>1, <1>14 DEF ExtendDuty
<1> QED
  BY <1>2, <1>4, <1>5, <1>6, <1>7, <1>9, <1>10, <1>11, <1>12, <1>13, <1>14 DEF Next

LEMMA RetagWrites ==
  ASSUME Types, Relied, NEW p \in Callers, Retag(p)
  PROVE  LET i == calls[p].id IN
         /\ i \in DOMAIN evaluations /\ DOMAIN evaluations' = DOMAIN evaluations
         /\ \A j \in DOMAIN evaluations \ {i} : evaluations'[j] = evaluations[j]
         /\ evaluations[i].trip = 0
         /\ evaluations'[i].crew = evaluations[i].crew
         /\ evaluations'[i].year = evaluations[i].year
         /\ evaluations'[i].verdict = evaluations[i].verdict
         /\ evaluations'[i].violations = evaluations[i].violations
<1>1. calls[p].id \in DOMAIN evaluations /\ evaluations[calls[p].id].trip = 0
  BY DEF Retag, Holding, Relied, Held
<1>2. evaluations[calls[p].id] \in RowType
  BY <1>1 DEF Types
<1> DEFINE row == [evaluations[calls[p].id] EXCEPT !.trip = calls[p].trip]
<1>3. evaluations' = [evaluations EXCEPT ![calls[p].id] = row]
  BY DEF Retag
<1>4. /\ row.crew = evaluations[calls[p].id].crew
      /\ row.year = evaluations[calls[p].id].year
      /\ row.verdict = evaluations[calls[p].id].verdict
      /\ row.violations = evaluations[calls[p].id].violations
  BY <1>2 DEF RowType
<1> HIDE DEF row
<1> QED
  BY <1>1, <1>3, <1>4 DEF Types

LEMMA RecheckWrites ==
  ASSUME Types, Relied, NEW p \in Callers, Recheck(p)
  PROVE  LET i == calls[p].id IN
         /\ i \in DOMAIN evaluations /\ DOMAIN evaluations' = DOMAIN evaluations
         /\ \A j \in DOMAIN evaluations \ {i} : evaluations'[j] = evaluations[j]
         /\ evaluations'[i].crew = evaluations[i].crew
         /\ evaluations'[i].trip = evaluations[i].trip
         /\ evaluations'[i].year = evaluations[i].year
         /\ evaluations'[i].verdict = VerdictOf(evaluations'[i].violations)
         /\ evaluations[i].violations \subseteq evaluations'[i].violations
         /\ evaluations'[i].violations \ evaluations[i].violations \subseteq {"R10"}
<1>1. /\ calls[p].id \in DOMAIN evaluations
      /\ evaluations[calls[p].id].violations = calls[p].violations
  BY DEF Recheck, Holding, Relied, Held
<1>2. evaluations[calls[p].id] \in RowType
  BY <1>1 DEF Types
<1>0. PICK used \in Counts(calls[p]) :
        evaluations' = [evaluations EXCEPT ![calls[p].id] =
          [@ EXCEPT !.violations = Rechecked(calls[p], used),
                    !.verdict = VerdictOf(Rechecked(calls[p], used))]]
  BY DEF Recheck
<1> DEFINE all == Rechecked(calls[p], used)
           row == [evaluations[calls[p].id] EXCEPT
                     !.violations = all, !.verdict = VerdictOf(all)]
<1>3. /\ evaluations[calls[p].id].violations \subseteq all
      /\ all \ evaluations[calls[p].id].violations \subseteq {"R10"}
  BY <1>1 DEF Rechecked
<1>4. evaluations' = [evaluations EXCEPT ![calls[p].id] = row]
  BY <1>0
<1> HIDE DEF all
<1>5. /\ row.crew = evaluations[calls[p].id].crew
      /\ row.trip = evaluations[calls[p].id].trip
      /\ row.year = evaluations[calls[p].id].year
      /\ row.verdict = VerdictOf(all)
      /\ row.violations = all
  BY <1>2 DEF RowType
<1> HIDE DEF row
<1>6. /\ DOMAIN evaluations' = DOMAIN evaluations
      /\ \A j \in DOMAIN evaluations \ {calls[p].id} : evaluations'[j] = evaluations[j]
      /\ evaluations'[calls[p].id] = row
  BY <1>1, <1>4 DEF Types
<1> QED
  BY <1>1, <1>3, <1>5, <1>6

-----------------------------------------------------------------------------
(* What a step may do to a stored row *)

Hardens ==
  \A i \in DOMAIN evaluations :
    /\ i \in DOMAIN evaluations'
    /\ evaluations[i].violations \subseteq evaluations'[i].violations
    /\ evaluations'[i].crew = evaluations[i].crew
    /\ evaluations'[i].year = evaluations[i].year
    /\ evaluations[i].trip # 0 => evaluations'[i].trip = evaluations[i].trip

LEMMA StepHardens ==
  ASSUME Types, Relied, [Next]_vars
  PROVE  Hardens
<1>1. CASE UNCHANGED evaluations
  BY <1>1 DEF Hardens
<1>2. ASSUME NEW c, NEW year, NEW broken, StoreEvaluation(c, year, broken)
      PROVE  Hardens
  BY <1>2, StoreKeepsRows DEF Hardens
<1>3. ASSUME NEW p \in Callers, Retag(p) PROVE Hardens
  BY <1>3, RetagWrites DEF Hardens
<1>4. ASSUME NEW p \in Callers, Recheck(p) PROVE Hardens
  BY <1>4, RecheckWrites DEF Hardens
<1>5. ASSUME NEW p \in Callers, NEW broken, EvaluateSegments(p, broken) PROVE Hardens
  BY <1>2, <1>5 DEF EvaluateSegments
<1>6. ASSUME NEW c, NEW year, NEW broken, EvaluateTrip(c, year, broken) PROVE Hardens
  BY <1>2, <1>6 DEF EvaluateTrip
<1>7. ASSUME NEW p \in Callers, Cancelled(p) \/ RecheckFails(p) PROVE Hardens
  BY <1>1, <1>7 DEF Cancelled, RecheckFails
<1>8. ASSUME NEW p \in Callers, NEW c, NEW t, NEW year, NEW apply,
             ReadSegments(p, c, t, year, apply)
      PROVE  Hardens
  BY <1>1, <1>8 DEF ReadSegments
<1>9. ASSUME NEW t, AddSegment(t) PROVE Hardens
  BY <1>1, <1>9 DEF AddSegment
<1>10. ASSUME NEW c, NEW year, ExtendDuty(c, year) PROVE Hardens
  BY <1>1, <1>10 DEF ExtendDuty
<1>11. CASE Crash \/ UNCHANGED vars
  BY <1>1, <1>11 DEF Crash, vars
<1> QED
  BY <1>3, <1>4, <1>5, <1>6, <1>7, <1>8, <1>9, <1>10, <1>11 DEF Next

-----------------------------------------------------------------------------
(* Rows and their events *)

IsEventOf(j, i) == log[j].kind = "EVALUATION" /\ log[j].id = i

RowLogged(i) ==
  /\ evaluations[i].verdict = VerdictOf(evaluations[i].violations)
  /\ i \notin unlogged => \E j \in DOMAIN log : IsEventOf(j, i)
  /\ \A j \in DOMAIN log : IsEventOf(j, i) =>
       /\ i \notin unlogged
       /\ log[j].crew = evaluations[i].crew
       /\ log[j].verdict = VerdictOf(evaluations[i].violations \ {"R10"})
       /\ \A k \in DOMAIN log : IsEventOf(k, i) => k = j

Logged ==
  /\ \A i \in DOMAIN evaluations : RowLogged(i)
  /\ \A j \in DOMAIN log :
       log[j].kind = "EVALUATION" => log[j].id \in DOMAIN evaluations
  /\ unlogged \subseteq DOMAIN evaluations

LEMMA LoggedImplies ==
  ASSUME Logged
  PROVE  EvaluationsLogged
<1>1. ASSUME NEW i \in DOMAIN evaluations
      PROVE  /\ evaluations[i].verdict = VerdictOf(evaluations[i].violations)
             /\ Cardinality(EvaluationEventsOf(i)) = IF i \in unlogged THEN 0 ELSE 1
             /\ \A j \in EvaluationEventsOf(i) :
                  /\ log[j].crew = evaluations[i].crew
                  /\ log[j].verdict = VerdictOf(evaluations[i].violations \ {"R10"})
  <2>1. RowLogged(i) /\ EvaluationEventsOf(i) = {j \in DOMAIN log : IsEventOf(j, i)}
    BY DEF Logged, EvaluationEventsOf, IsEventOf
  <2>2. CASE i \in unlogged
    <3>1. EvaluationEventsOf(i) = {}
      BY <2>1, <2>2 DEF RowLogged
    <3> QED
      BY <2>1, <2>2, <3>1, FS_EmptySet DEF RowLogged
  <2>3. CASE i \notin unlogged
    <3>1. PICK j \in DOMAIN log : IsEventOf(j, i)
      BY <2>1, <2>3 DEF RowLogged
    <3>2. EvaluationEventsOf(i) = {j}
      BY <2>1, <3>1 DEF RowLogged
    <3>3. Cardinality({j}) = 1
      BY FS_Singleton
    <3> QED
      BY <2>1, <2>3, <3>1, <3>2, <3>3 DEF RowLogged
  <2> QED
    BY <2>2, <2>3
<1> QED
  BY <1>1 DEF Logged, EvaluationsLogged

(* A step that appends no EVALUATION event, and leaves the crew member,    *)
(* the verdict of the violations and all but R10 of a row, keeps the log   *)
(* true of the rows.                                                       *)
LEMMA LoggedKept ==
  ASSUME Types, Logged, UNCHANGED unlogged,
         DOMAIN evaluations' = DOMAIN evaluations,
         \A i \in DOMAIN evaluations :
           /\ evaluations'[i].crew = evaluations[i].crew
           /\ evaluations'[i].verdict = VerdictOf(evaluations'[i].violations)
           /\ evaluations'[i].violations \ {"R10"} = evaluations[i].violations \ {"R10"},
         DOMAIN log \subseteq DOMAIN log',
         \A j \in DOMAIN log : log'[j] = log[j],
         \A j \in DOMAIN log' \ DOMAIN log : log'[j].kind # "EVALUATION"
  PROVE  Logged'
<1>1. \A j \in DOMAIN log' : \A i : IsEventOf(j, i)' <=> j \in DOMAIN log /\ IsEventOf(j, i)
  BY DEF IsEventOf
<1>2. ASSUME NEW i \in DOMAIN evaluations PROVE RowLogged(i)'
  <2>1. RowLogged(i)
    BY DEF Logged
  <2>2. i \notin unlogged' => \E j \in DOMAIN log' : IsEventOf(j, i)'
    BY <1>1, <2>1 DEF RowLogged
  <2>3. ASSUME NEW j \in DOMAIN log', IsEventOf(j, i)'
        PROVE  /\ i \notin unlogged'
               /\ log'[j].crew = evaluations'[i].crew
               /\ log'[j].verdict = VerdictOf(evaluations'[i].violations \ {"R10"})
               /\ \A k \in DOMAIN log' : IsEventOf(k, i)' => k = j
    <3>1. j \in DOMAIN log /\ IsEventOf(j, i) /\ log'[j] = log[j]
      BY <1>1, <2>3
    <3> QED
      BY <1>1, <2>1, <3>1 DEF RowLogged
  <2> QED
    BY <2>2, <2>3 DEF RowLogged
<1>3. \A j \in DOMAIN log' : log'[j].kind = "EVALUATION" => log'[j].id \in DOMAIN evaluations'
  BY DEF Logged
<1> QED
  BY <1>2, <1>3 DEF Logged

LEMMA StoreLogged ==
  ASSUME Types, Logged, NEW c \in Crew, NEW year \in Years, NEW broken \in SUBSET OtherRules,
         StoreEvaluation(c, year, broken)
  PROVE  Logged'
<1>0. PICK id, event :
        id = Len(evaluations) + 1 /\ event = EvaluationEvent(c, id, broken)
  OBVIOUS
<1>1. /\ DOMAIN evaluations' = DOMAIN evaluations \cup {id}
      /\ id \notin DOMAIN evaluations
      /\ evaluations'[id] = Row(c, year, broken)
      /\ \A i \in DOMAIN evaluations : evaluations'[i] = evaluations[i]
  BY <1>0 DEF StoreEvaluation, Types
<1>2. /\ event.kind = "EVALUATION" /\ event.id = id /\ event.crew = c
      /\ event.verdict = VerdictOf(broken)
  BY <1>0 DEF EvaluationEvent
<1>3. \/ log' = Append(log, event) /\ unlogged' = unlogged
      \/ log' = log /\ unlogged' = unlogged \cup {id}
  BY <1>0 DEF StoreEvaluation, AppendEvaluation
<1>4. /\ evaluations'[id].crew = c /\ evaluations'[id].violations = broken
      /\ evaluations'[id].verdict = VerdictOf(broken) /\ broken \ {"R10"} = broken
  BY <1>1, RulesAssumption DEF Row
<1>5. id \notin unlogged /\ \A j \in DOMAIN log : ~IsEventOf(j, id)
  BY <1>1 DEF IsEventOf, Logged
<1>6. CASE log' = Append(log, event) /\ unlogged' = unlogged
  <2>1. PICK last : /\ DOMAIN log' = DOMAIN log \cup {last}
                    /\ last \notin DOMAIN log
                    /\ log'[last] = event
                    /\ \A j \in DOMAIN log : log'[j] = log[j]
    <3>1. /\ DOMAIN log' = DOMAIN log \cup {Len(log) + 1}
          /\ Len(log) + 1 \notin DOMAIN log
          /\ log'[Len(log) + 1] = event
          /\ \A j \in DOMAIN log : log'[j] = log[j]
      BY <1>6 DEF Types
    <3> QED
      BY <3>1
  <2>2. /\ IsEventOf(last, id)'
        /\ \A k \in DOMAIN log' : IsEventOf(k, id)' => k = last
        /\ \A i \in DOMAIN evaluations : ~IsEventOf(last, i)'
        /\ \A i : \A k \in DOMAIN log : IsEventOf(k, i)' <=> IsEventOf(k, i)
    BY <1>1, <1>2, <1>5, <2>1 DEF IsEventOf
  <2>3. RowLogged(id)'
    BY <1>2, <1>4, <1>5, <1>6, <2>1, <2>2 DEF RowLogged
  <2>4. ASSUME NEW i \in DOMAIN evaluations PROVE RowLogged(i)'
    <3>1. RowLogged(i) /\ evaluations'[i] = evaluations[i]
      BY <1>1 DEF Logged
    <3> QED
      BY <1>6, <2>1, <2>2, <3>1 DEF RowLogged
  <2>5. \A j \in DOMAIN log' : log'[j].kind = "EVALUATION" => log'[j].id \in DOMAIN evaluations'
    BY <1>1, <1>2, <2>1 DEF Logged
  <2>6. unlogged' \subseteq DOMAIN evaluations'
    BY <1>1, <1>6 DEF Logged
  <2> QED
    BY <1>1, <2>3, <2>4, <2>5, <2>6 DEF Logged
<1>7. CASE log' = log /\ unlogged' = unlogged \cup {id}
  <2>1. \A i : \A k \in DOMAIN log' : IsEventOf(k, i)' <=> IsEventOf(k, i)
    BY <1>7 DEF IsEventOf
  <2>2. RowLogged(id)'
    BY <1>4, <1>5, <1>7, <2>1 DEF RowLogged
  <2>3. ASSUME NEW i \in DOMAIN evaluations PROVE RowLogged(i)'
    <3>1. RowLogged(i) /\ evaluations'[i] = evaluations[i] /\ i # id
      BY <1>1 DEF Logged
    <3> QED
      BY <1>7, <2>1, <3>1 DEF RowLogged
  <2>4. \A j \in DOMAIN log' : log'[j].kind = "EVALUATION" => log'[j].id \in DOMAIN evaluations'
    BY <1>1, <1>7 DEF Logged
  <2>5. unlogged' \subseteq DOMAIN evaluations'
    BY <1>1, <1>7 DEF Logged
  <2> QED
    BY <1>1, <2>2, <2>3, <2>4, <2>5 DEF Logged
<1> QED
  BY <1>3, <1>6, <1>7

LEMMA StepLogged ==
  ASSUME Types, Relied, Logged, [Next]_vars
  PROVE  Logged'
<1>1. CASE UNCHANGED <<evaluations, log, unlogged>>
  <2>1. evaluations' = evaluations /\ log' = log /\ unlogged' = unlogged
    BY <1>1
  <2>2. \A i, j : IsEventOf(j, i)' <=> IsEventOf(j, i)
    BY <2>1 DEF IsEventOf
  <2>3. \A i : RowLogged(i) => RowLogged(i)'
    BY <2>1, <2>2 DEF RowLogged
  <2> QED
    BY <2>1, <2>3 DEF Logged
<1>2. ASSUME NEW p \in Callers, Retag(p) PROVE Logged'
  <2>1. log' = log /\ UNCHANGED unlogged
    BY <1>2 DEF Retag
  <2>2. \A i \in DOMAIN evaluations :
          evaluations[i].verdict = VerdictOf(evaluations[i].violations)
    BY DEF Logged, RowLogged
  <2>3. /\ DOMAIN evaluations' = DOMAIN evaluations
        /\ \A i \in DOMAIN evaluations :
             /\ evaluations'[i].crew = evaluations[i].crew
             /\ evaluations'[i].verdict = VerdictOf(evaluations'[i].violations)
             /\ evaluations'[i].violations = evaluations[i].violations
    BY <1>2, <2>2, RetagWrites
  <2> QED
    BY <2>1, <2>3, LoggedKept
<1>3. ASSUME NEW p \in Callers, Recheck(p) PROVE Logged'
  <2>1. log' = log /\ UNCHANGED unlogged
    BY <1>3 DEF Recheck
  <2>2. \A i \in DOMAIN evaluations :
          evaluations[i].verdict = VerdictOf(evaluations[i].violations)
    BY DEF Logged, RowLogged
  <2>3. /\ DOMAIN evaluations' = DOMAIN evaluations
        /\ \A i \in DOMAIN evaluations :
             /\ evaluations'[i].crew = evaluations[i].crew
             /\ evaluations'[i].verdict = VerdictOf(evaluations'[i].violations)
             /\ evaluations[i].violations \subseteq evaluations'[i].violations
             /\ evaluations'[i].violations \ evaluations[i].violations \subseteq {"R10"}
    BY <1>3, <2>2, RecheckWrites
  <2>4. \A i \in DOMAIN evaluations :
          evaluations'[i].violations \ {"R10"} = evaluations[i].violations \ {"R10"}
    BY <2>3
  <2> QED
    BY <2>1, <2>3, <2>4, LoggedKept
<1>4. ASSUME NEW p \in Callers, NEW broken \in SUBSET OtherRules, EvaluateSegments(p, broken)
      PROVE  Logged'
  <2>1. calls[p].crew \in Crew /\ calls[p].year \in Years
    BY <1>4, CallerTypes DEF EvaluateSegments, WaitingType
  <2> QED
    BY <1>4, <2>1, StoreLogged DEF EvaluateSegments
<1>5. ASSUME NEW c \in Crew, NEW year \in Years, NEW broken \in SUBSET OtherRules,
             EvaluateTrip(c, year, broken)
      PROVE  Logged'
  BY <1>5, StoreLogged DEF EvaluateTrip
<1>6. ASSUME NEW c \in Crew, NEW year \in Years, ExtendDuty(c, year) PROVE Logged'
  <2> DEFINE event == [kind |-> "UNFORESEEN_EXTENSION", crew |-> c, year |-> year]
  <2>1. /\ log' = Append(log, event) /\ evaluations' = evaluations /\ UNCHANGED unlogged
        /\ event.kind # "EVALUATION"
    BY <1>6 DEF ExtendDuty
  <2> HIDE DEF event
  <2>2. /\ DOMAIN log \subseteq DOMAIN log'
        /\ \A j \in DOMAIN log : log'[j] = log[j]
        /\ \A j \in DOMAIN log' \ DOMAIN log : log'[j].kind # "EVALUATION"
    BY <2>1 DEF Types
  <2>3. \A i \in DOMAIN evaluations :
          evaluations[i].verdict = VerdictOf(evaluations[i].violations)
    BY DEF Logged, RowLogged
  <2> QED
    BY <2>1, <2>2, <2>3, LoggedKept
<1>7. ASSUME NEW p \in Callers, Cancelled(p) \/ RecheckFails(p) PROVE Logged'
  BY <1>1, <1>7 DEF Cancelled, RecheckFails
<1>8. ASSUME NEW p \in Callers, NEW c, NEW t, NEW year, NEW apply,
             ReadSegments(p, c, t, year, apply)
      PROVE  Logged'
  BY <1>1, <1>8 DEF ReadSegments
<1>9. ASSUME NEW t, AddSegment(t) PROVE Logged'
  BY <1>1, <1>9 DEF AddSegment
<1>10. CASE Crash \/ UNCHANGED vars
  BY <1>1, <1>10 DEF Crash, vars
<1> QED
  BY <1>2, <1>3, <1>4, <1>5, <1>6, <1>7, <1>8, <1>9, <1>10 DEF Next

-----------------------------------------------------------------------------
(* The latest evaluation of a trip *)

Later(j, i) == \* j comes before i in ORDER BY evaluated_at DESC, id DESC
  \/ evaluations[i].year < evaluations[j].year
  \/ evaluations[i].year = evaluations[j].year /\ i < j

(* Of the rows tagged with a trip, the one that fewest rows are later than *)
(* is the latest: were one later than it, still fewer would be later.      *)
LEMMA LatestExists ==
  ASSUME Types, NEW c, NEW t, NEW i \in TaggedWith(c, t)
  PROVE  \E l \in GetEvaluationByTrip(c, t) :
           evaluations[l].year >= evaluations[i].year
<1> DEFINE tagged == TaggedWith(c, t)
           after(k) == {j \in tagged : Later(j, k)}
           counts == {Cardinality(after(k)) : k \in tagged}
<1>1. tagged \subseteq Nat /\ \A j \in tagged : evaluations[j].year \in Nat
  <2>1. \A j \in DOMAIN evaluations : j \in Nat /\ evaluations[j] \in RowType
    BY DEF Types
  <2> QED
    BY <2>1, YearsAssumption DEF TaggedWith, RowType
<1>2. IsFiniteSet(tagged)
  <2>1. tagged \subseteq 1..Len(evaluations) /\ Len(evaluations) \in Nat
    BY DEF TaggedWith, Types
  <2>2. IsFiniteSet(1..Len(evaluations))
    BY <2>1, FS_Interval
  <2> QED
    BY <2>1, <2>2, FS_Subset
<1>3. \A k \in tagged : IsFiniteSet(after(k)) /\ Cardinality(after(k)) \in Nat
  BY <1>2, FS_Subset, FS_CardinalityType
<1>4. PICK m \in counts : \A n \in counts : m <= n
  <2>1. counts \subseteq Nat /\ counts # {}
    BY <1>3
  <2> HIDE DEF counts
  <2>2. PICK m \in counts : \A n \in counts : <<n, m>> \notin OpToRel(<, Nat)
    BY <2>1, NatLessThanWellFounded, WFMin
  <2>3. \A n \in counts : ~(n < m)
    BY <2>1, <2>2 DEF OpToRel
  <2> QED
    BY <2>1, <2>3
<1>5. PICK l \in tagged : \A k \in tagged : Cardinality(after(l)) <= Cardinality(after(k))
  BY <1>4
<1>6. ASSUME NEW j \in tagged, Later(j, l) PROVE FALSE
  <2>1. after(j) \subseteq after(l)
    BY <1>1, <1>6 DEF Later
  <2>2. j \in after(l) /\ j \notin after(j)
    BY <1>1, <1>6 DEF Later
  <2>3. Cardinality(after(j)) < Cardinality(after(l))
    <3> HIDE DEF after
    <3>1. after(j) # after(l)
      BY <2>2
    <3>2. Cardinality(after(j)) <= Cardinality(after(l))
      BY <1>3, <2>1, FS_Subset
    <3>3. Cardinality(after(j)) # Cardinality(after(l))
      BY <1>3, <2>1, <3>1, FS_Subset
    <3> QED
      BY <1>3, <3>2, <3>3
  <2> HIDE DEF after
  <2> QED
    BY <1>3, <1>5, <2>3
<1>7. \A j \in tagged : \/ evaluations[j].year < evaluations[l].year
                        \/ evaluations[j].year = evaluations[l].year /\ j <= l
  BY <1>1, <1>6 DEF Later
<1>8. l \in GetEvaluationByTrip(c, t)
  BY <1>7 DEF GetEvaluationByTrip
<1>9. evaluations[l].year >= evaluations[i].year
  BY <1>1, <1>7
<1> QED
  BY <1>8, <1>9

LEMMA ReliedImplies ==
  ASSUME Types, Relied
  PROVE  AnswersAreStored
<1> SUFFICES ASSUME NEW p \in Callers, calls[p].pc = "done"
             PROVE  LET row == evaluations[calls[p].id] IN
                    /\ row.trip = calls[p].trip /\ row.crew = calls[p].crew
                    /\ row.violations \subseteq calls[p].violations
                    /\ calls[p].violations \ row.violations \subseteq {"R10"}
                    /\ ~calls[p].apply => row.violations = calls[p].violations
                    /\ \E i \in GetEvaluationByTrip(row.crew, row.trip) :
                         evaluations[i].year >= row.year
                    /\ \A q \in Callers \ {p} :
                         calls[q].pc \in Holding => calls[q].id # calls[p].id
  BY DEF AnswersAreStored, Holding
<1> DEFINE row == evaluations[calls[p].id]
<1>1. /\ calls[p].id \in DOMAIN evaluations
      /\ row.trip = calls[p].trip /\ row.crew = calls[p].crew
      /\ row.violations \subseteq calls[p].violations
      /\ calls[p].violations \ row.violations \subseteq {"R10"}
      /\ ~calls[p].apply => row.violations = calls[p].violations
  BY DEF Relied, Held, Holding
<1>2. calls[p].id \in TaggedWith(row.crew, row.trip)
  BY <1>1 DEF TaggedWith
<1>3. \E i \in GetEvaluationByTrip(row.crew, row.trip) : evaluations[i].year >= row.year
  BY <1>2, LatestExists
<1>4. \A q \in Callers \ {p} : calls[q].pc \in Holding => calls[q].id # calls[p].id
  BY DEF Relied, Apart, Holding
<1> QED
  BY <1>1, <1>3, <1>4

-----------------------------------------------------------------------------
(* Theorems *)

LEMMA InitHolds == Init => Types /\ Relied /\ Logged
<1> SUFFICES ASSUME Init PROVE Types /\ Relied /\ Logged
  OBVIOUS
<1>1. evaluations = <<>> /\ log = <<>> /\ unlogged = {} /\ calls = [p \in Callers |-> Idle]
  BY DEF Init
<1>2. Types
  BY <1>1 DEF Types
<1>3. Relied
  BY <1>1 DEF Relied, Held, Apart, Idle, Holding
<1>4. Logged
  BY <1>1 DEF Logged
<1> QED
  BY <1>2, <1>3, <1>4

LEMMA AlwaysHolds == Spec => [](Types /\ Relied /\ Logged)
<1>1. Types /\ Relied /\ Logged /\ [Next]_vars => (Types /\ Relied /\ Logged)'
  BY StepTypes, StepRelied, StepLogged
<1> QED
  BY <1>1, InitHolds, PTL DEF Spec

(* No step softens a stored verdict, changes whose or when it is, or moves *)
(* it to another trip (EvaluatePersistedTrip's UPDATEs and any mixture of  *)
(* concurrent callers, cancellations and crashes).                         *)
THEOREM VerdictsHarden == Spec => VerdictsOnlyHarden
<1>1. Types /\ Relied /\ Logged /\ [Next]_vars => [Hardens]_vars
  BY StepHardens
<1>2. Spec => [][Hardens]_vars
  BY <1>1, AlwaysHolds, PTL DEF Spec
<1> QED
  BY <1>2 DEF VerdictsOnlyHarden, Hardens

(* Every stored evaluation whose append did not fail has one EVALUATION    *)
(* event, which agrees with it but for a quota found broken later, and one *)
(* whose append failed has none (EvaluateTrip appends the event with the   *)
(* row and drops the error, the recheck updates the row alone).            *)
THEOREM EveryEvaluationLogged == Spec => []EvaluationsLogged
BY AlwaysHolds, LoggedImplies, PTL

(* Whatever callers interleave, give up or lose in a crash, a call that    *)
(* returns has its own row in the table, tagged with its trip and with the *)
(* violations it returns, but for a quota whose recheck did not commit.    *)
THEOREM AnswersStored == Spec => []AnswersAreStored
BY AlwaysHolds, ReliedImplies, PTL

=============================================================================
