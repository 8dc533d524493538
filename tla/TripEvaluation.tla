--------------------------- MODULE TripEvaluation ---------------------------
(***************************************************************************)
(* Evaluating trips and keeping the verdicts (compliance.go:112-310,       *)
(* evaluation_store.go).                                                   *)
(*                                                                         *)
(* EvaluateTrip is one transaction.  EvaluatePersistedTrip is four: read   *)
(* the segments, evaluate them, tag the row with the trip, and, when an    *)
(* unforeseen extension is wanted, check its quota again.  Other requests  *)
(* run between them, the caller may give up (the context is cancelled, and *)
(* the next transaction is refused or not committed), and the process may  *)
(* die.  Two errors are dropped inside a transaction that commits all the   *)
(* same: that of appending the EVALUATION event, and that of counting the  *)
(* extensions of the year, which then reads as 0.                          *)
(*                                                                         *)
(* The verdict of R1-R9 is any: it depends on histories other modules      *)
(* model (FatigueRules, RestDebt, CumulativeReplay).  What is kept here is *)
(* which rules a row says are broken, who wrote that and when.             *)
(***************************************************************************)
EXTENDS Naturals, Sequences, FiniteSets

CONSTANTS
  Callers,         \* concurrent callers of EvaluatePersistedTrip
  Crew, Trips,     \* registered crew members and trips
  Years,           \* calendar years of asOf
  OtherRules,      \* rules that the evaluation itself may find broken
  YearlyLimit,     \* domain.UnforeseenYearlyLimit
  MaxSegments,     \* bound on the segments of a trip
  MaxEvaluations,  \* bound on the rows of legality_evaluations
  MaxExtensions,   \* bound on UNFORESEEN_EXTENSION events
  MaxUnlogged      \* bound on EVALUATION events that fail to be appended

ASSUME TripsAssumption == 0 \notin Trips \* 0 stands for NULL
ASSUME YearsAssumption == Years \subseteq Nat
ASSUME RulesAssumption == "R10" \notin OtherRules

VARIABLES
  planned,     \* [trip -> number of its segments]
  evaluations, \* legality_evaluations, a sequence of rows by id
  log,         \* the EVALUATION and UNFORESEEN_EXTENSION events
  unlogged,    \* auxiliary: the rows whose event failed to be appended
  calls        \* [caller -> what it is doing]

vars == <<planned, evaluations, log, unlogged, calls>>

Extensions(c, year) ==
  {i \in DOMAIN log :
     log[i].kind = "UNFORESEEN_EXTENSION" /\ log[i].crew = c /\ log[i].year = year}
Used(c, year) == Cardinality(Extensions(c, year)) \* CountEventsKindYear

VerdictOf(violations) == IF violations = {} THEN "LEGAL" ELSE "ILLEGAL"

(* Rows as written, with the year of evaluated_at (asOf); the metrics are  *)
(* left out.                                                               *)
Row(c, year, broken) ==
  [crew |-> c, trip |-> 0, year |-> year, verdict |-> VerdictOf(broken),
   violations |-> broken]

(* The payload of the event names no row; id is auxiliary, to tell whose   *)
(* event it is.                                                            *)
EvaluationEvent(c, id, broken) ==
  [kind |-> "EVALUATION", crew |-> c, id |-> id, verdict |-> VerdictOf(broken)]

Idle == [pc |-> "idle"]

Init ==
  /\ planned = [t \in Trips |-> 0]
  /\ evaluations = <<>>
  /\ log = <<>>
  /\ unlogged = {}
  /\ calls = [p \in Callers |-> Idle]

-----------------------------------------------------------------------------
(* What other requests do meanwhile *)

AddSegment(t) ==
  /\ planned[t] < MaxSegments
  /\ planned' = [planned EXCEPT ![t] = @ + 1]
  /\ UNCHANGED <<evaluations, log, unlogged, calls>>

(* Closing a duty with an unforeseen extension.                            *)
ExtendDuty(c, year) ==
  /\ Cardinality({i \in DOMAIN log : log[i].kind = "UNFORESEEN_EXTENSION"}) < MaxExtensions
  /\ log' = Append(log, [kind |-> "UNFORESEEN_EXTENSION", crew |-> c, year |-> year])
  /\ UNCHANGED <<planned, evaluations, unlogged, calls>>

(* AppendEvent as EvaluateTrip calls it: when it fails its error is        *)
(* dropped, and the row is committed without it.                           *)
AppendEvaluation(c, id, broken) ==
  \/ log' = Append(log, EvaluationEvent(c, id, broken)) /\ UNCHANGED unlogged
  \/ /\ Cardinality(unlogged) < MaxUnlogged
     /\ unlogged' = unlogged \cup {id}
     /\ UNCHANGED log

StoreUnlogged(c, year, broken) == \* faulty variant: no event is appended
  /\ Len(evaluations) < MaxEvaluations
  /\ evaluations' = Append(evaluations, Row(c, year, broken))
  /\ UNCHANGED <<planned, log, unlogged>>

(* One transaction: the row and its EVALUATION event.  An error of the row *)
(* rolls it back; R10 is evaluated without an extension and never broken.  *)
StoreEvaluation(c, year, broken) ==
  /\ Len(evaluations) < MaxEvaluations
  /\ evaluations' = Append(evaluations, Row(c, year, broken))
  /\ AppendEvaluation(c, Len(evaluations) + 1, broken)
  /\ UNCHANGED planned

(* The HTTP handler evaluates segments given in the request.               *)
EvaluateTrip(c, year, broken) ==
  StoreEvaluation(c, year, broken) /\ UNCHANGED calls

-----------------------------------------------------------------------------
(* EvaluatePersistedTrip *)

(* A trip without segments is refused.                                     *)
ReadSegments(p, c, t, year, apply) ==
  /\ calls[p].pc \in {"idle", "done"}
  /\ planned[t] > 0
  /\ calls' = [calls EXCEPT ![p] =
       [pc |-> "evaluate", crew |-> c, trip |-> t, year |-> year, apply |-> apply]]
  /\ UNCHANGED <<planned, evaluations, log, unlogged>>

EvaluateSegments(p, broken) ==
  /\ calls[p].pc = "evaluate"
  /\ StoreEvaluation(calls[p].crew, calls[p].year, broken)
  /\ calls' = [calls EXCEPT ![p] =
       [pc |-> "retag", crew |-> @.crew, trip |-> @.trip, year |-> @.year,
        apply |-> @.apply, id |-> Len(evaluations) + 1, violations |-> broken]]

AfterRetag(call) == IF call.apply THEN "recheck" ELSE "done"

RetagLatest(p) == \* faulty variant: the last row of the table is tagged
  /\ calls[p].pc = "retag"
  /\ evaluations' = [evaluations EXCEPT ![Len(evaluations)].trip = calls[p].trip]
  /\ calls' = [calls EXCEPT ![p].pc = AfterRetag(calls[p])]
  /\ UNCHANGED <<planned, log, unlogged>>

Retag(p) ==
  /\ calls[p].pc = "retag"
  /\ evaluations' = [evaluations EXCEPT ![calls[p].id].trip = calls[p].trip]
  /\ calls' = [calls EXCEPT ![p].pc = AfterRetag(calls[p])]
  /\ UNCHANGED <<planned, log, unlogged>>

(* The quota counts the extensions of the year of asOf, none if the count  *)
(* fails.                                                                  *)
Counts(call) == {Used(call.crew, call.year), 0}
Rechecked(call, used) == call.violations \cup (IF used >= YearlyLimit THEN {"R10"} ELSE {})

RecheckReplaces(p) == \* faulty variant: the row keeps the new violations only
  /\ calls[p].pc = "recheck"
  /\ \E used \in Counts(calls[p]) :
       LET added == Rechecked(calls[p], used) \ calls[p].violations IN
       /\ evaluations' = [evaluations EXCEPT ![calls[p].id] =
            [@ EXCEPT !.violations = added, !.verdict = VerdictOf(added)]]
       /\ calls' = [calls EXCEPT ![p] = [@ EXCEPT !.pc = "done", !.violations = added]]
  /\ UNCHANGED <<planned, log, unlogged>>

Recheck(p) ==
  /\ calls[p].pc = "recheck"
  /\ \E used \in Counts(calls[p]) :
       LET all == Rechecked(calls[p], used) IN
       /\ evaluations' = [evaluations EXCEPT ![calls[p].id] =
            [@ EXCEPT !.violations = all, !.verdict = VerdictOf(all)]]
       /\ calls' = [calls EXCEPT ![p] = [@ EXCEPT !.pc = "done", !.violations = all]]
  /\ UNCHANGED <<planned, log, unlogged>>

(* A cancelled call: a refused evaluation or retagging is reported; a      *)
(* refused recheck is not, and the verdict already changed in memory is    *)
(* returned when its transaction fails to commit.                          *)
Cancelled(p) ==
  /\ calls[p].pc \in {"evaluate", "retag"}
  /\ calls' = [calls EXCEPT ![p] = Idle]
  /\ UNCHANGED <<planned, evaluations, log, unlogged>>

RecheckFails(p) ==
  /\ calls[p].pc = "recheck"
  /\ \E violations \in {calls[p].violations} \cup
                         {Rechecked(calls[p], used) : used \in Counts(calls[p])} :
       calls' = [calls EXCEPT ![p] = [@ EXCEPT !.pc = "done", !.violations = violations]]
  /\ UNCHANGED <<planned, evaluations, log, unlogged>>

Crash ==
  /\ calls' = [p \in Callers |-> Idle]
  /\ UNCHANGED <<planned, evaluations, log, unlogged>>

Next ==
  \/ \E t \in Trips : AddSegment(t)
  \/ \E c \in Crew, year \in Years : ExtendDuty(c, year)
  \/ \E c \in Crew, year \in Years, broken \in SUBSET OtherRules :
       EvaluateTrip(c, year, broken)
  \/ \E p \in Callers :
       \/ \E c \in Crew, t \in Trips, year \in Years, apply \in BOOLEAN :
            ReadSegments(p, c, t, year, apply)
       \/ \E broken \in SUBSET OtherRules :
            EvaluateSegments(p, broken)
       \/ Retag(p)
       \/ Recheck(p)
       \/ Cancelled(p)
       \/ RecheckFails(p)
  \/ Crash

Spec == Init /\ [][Next]_vars

-----------------------------------------------------------------------------
(* Loading *)

(* The latest by evaluated_at, then id.                                    *)
TaggedWith(c, t) ==
  {i \in DOMAIN evaluations : evaluations[i].crew = c /\ evaluations[i].trip = t}
GetEvaluationByTrip(c, t) ==
  {i \in TaggedWith(c, t) : \A j \in TaggedWith(c, t) :
     \/ evaluations[j].year < evaluations[i].year
     \/ evaluations[j].year = evaluations[i].year /\ j <= i}

-----------------------------------------------------------------------------
(* Properties *)

(* Verdicts only harden: whatever callers interleave, a stored evaluation  *)
(* keeps its crew member, its time and every violation it lists, and a     *)
(* trip once tagged stays.                                                 *)
VerdictsOnlyHarden ==
  [][\A i \in DOMAIN evaluations :
       /\ i \in DOMAIN evaluations'
       /\ evaluations[i].violations \subseteq evaluations'[i].violations
       /\ evaluations'[i].crew = evaluations[i].crew
       /\ evaluations'[i].year = evaluations[i].year
       /\ evaluations[i].trip # 0 => evaluations'[i].trip = evaluations[i].trip]_vars

(* A stored verdict is that of the violations stored beside it, and the    *)
(* log has one EVALUATION event for every stored evaluation but those      *)
(* whose append failed, and none for anything else: no interleaving,       *)
(* cancellation or crash loses, repeats or invents one.  An event is never *)
(* harsher than its row: a row found illegal later differs by a broken     *)
(* quota only.                                                             *)
EvaluationEventsOf(i) == {j \in DOMAIN log : log[j].kind = "EVALUATION" /\ log[j].id = i}
EvaluationsLogged ==
  /\ \A i \in DOMAIN evaluations :
       /\ evaluations[i].verdict = VerdictOf(evaluations[i].violations)
       /\ Cardinality(EvaluationEventsOf(i)) = IF i \in unlogged THEN 0 ELSE 1
       /\ \A j \in EvaluationEventsOf(i) :
            /\ log[j].crew = evaluations[i].crew
            /\ log[j].verdict = VerdictOf(evaluations[i].violations \ {"R10"})
  /\ \A j \in DOMAIN log : log[j].kind = "EVALUATION" => log[j].id \in DOMAIN evaluations

(* What a call answers is in the table: its row is tagged with the trip it *)
(* was asked about, no two calls share a row, and the row lists the        *)
(* violations of the answer, short only of a quota found broken by a       *)
(* recheck that was not committed.  Asking for the latest evaluation of    *)
(* the trip finds it, or a later one.                                      *)
AnswersAreStored ==
  \A p \in Callers : calls[p].pc = "done" =>
    LET row == evaluations[calls[p].id] IN
    /\ row.trip = calls[p].trip /\ row.crew = calls[p].crew
    /\ row.violations \subseteq calls[p].violations
    /\ calls[p].violations \ row.violations \subseteq {"R10"}
    /\ ~calls[p].apply => row.violations = calls[p].violations
    /\ \E i \in GetEvaluationByTrip(row.crew, row.trip) : evaluations[i].year >= row.year
    /\ \A q \in Callers \ {p} :
         calls[q].pc \in {"retag", "recheck", "done"} => calls[q].id # calls[p].id

=============================================================================
