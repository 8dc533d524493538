# Crew-fatigue engine: specifications, model checks and proofs

This directory holds TLA+ specifications of the aviation crew duty and fatigue
compliance engine under `src/`, TLC configurations that check them on small
instances, and theorems that TLAPS proves for every value of the constants.
Line references are to the source at the commit the project was written for.

## 1. The system

A single Go process serves an HTTP API over one SQLite file. There is no
background work: everything happens inside a request, and every instant a rule
looks at (`asOf`, schedule times) is given by the caller. All writes go through
`store.InTx` (`internal/store/store.go:73-98`), the store has one connection and
takes the write lock at BEGIN, so **one transaction is one atomic step**. What is
concurrent is the order of transactions of different requests, the gaps inside the
few requests that use more than one, the competition for that one connection, and
the process itself: it can be told to stop, or be killed, at any point.

| component | state it keeps | operations | specified in |
|---|---|---|---|
| schedule service (`internal/schedule`) | `trips`, `flight_segments`, `duty_periods` with their links, `rest_periods`; appends to `compliance_events` | create trip, add segment, create duty for trip, close duty, create rest | `CrewSchedule`; abstractly `DutyLedger`, by way of `CrewLedger` |
| compliance: counters and replay (`compliance.go:33-110`, `replay.go:11-62`) | `cumulative_snapshots`, a cache of the log | `Cumulative`, `ReplayForCrew` | `CumulativeReplay` |
| compliance: rest debt (`replay.go:64-362`, `compliance.go:312-373`) | none; reads log and rests | `RestDebt`, `CompensatoryRestCheck` | `RestDebt` |
| compliance: trip evaluation (`compliance.go:112-310`) | `legality_evaluations`; appends `EVALUATION` events | `EvaluateTrip`, `EvaluatePersistedTrip`, `GetEvaluationByTrip` | `TripEvaluation` (who writes which verdict when), `Legality` (what the verdict is) |
| fatigue rules R1-R10 (`internal/fatigue`, `domain/constants.go`) | none: a pure function | `Eval` | `FatigueRules` |
| crew and aircraft registry (`internal/crew`, PATCH handler) | `crew_members`, `aircraft_types` | register, PATCH, register aircraft | `CrewRegistry` |
| store | the SQLite file and the one connection to it | `Open`, `Close`, `InTx`, queries | `ServerProcess` for the connection, the other modules for the tables |
| domain types | none | enumerations, limits, FDP table | inside the modules above |
| HTTP API | none | the life of a request, routing, decoding; the PATCH handler has logic of its own | `ServerProcess`, `CrewRegistry`; partly |
| server process (`main.go`) | none | open, listen, signal, graceful shutdown, exit, kill | `ServerProcess`; `Stop`, `Start` of `CumulativeReplay` |
| self-check, web front end | none | - | not modelled |

**Interactions.** The schedule service writes facts to its tables and, in the same
transaction, to the append-only event log. Closing a duty is where everything
meets: it lands the linked segments, writes `DUTY_CLOSED`, perhaps
`UNFORESEEN_EXTENSION`, and takes the trip off the planned list. The compliance
service reads the log (R4-R7, R10, and whether there was a duty in the last 168
hours), the duty rows (R9) and the rest table (R8, R9), resolves a rule input and
hands it to the pure evaluator. The registry supplies home time zones and rest
facilities. Every handler runs its transactions on the connection that all share.

**What is hard.**

- *Two descriptions of one fact.* A closed duty is a row and a handful of events, a
  rest is a row and an event. Rules read one or the other, so they must agree after
  any sequence of requests.
- *Requests that race:* closing a duty twice, adding a segment while its trip is
  being closed, two PATCHes of one member, two evaluations of one trip.
- *Late and unordered recording.* Duties are closed and rests registered when
  somebody gets to it. Debts and streaks are recomputed from a log whose order of
  recording is not the order of flying.
- *Boundaries* of half-open windows, of the nine- and ten-hour rests, of the FDP table.
- *Several transactions for one request:* `EvaluatePersistedTrip` uses four and
  drops the error of the last; a cancelled caller or a crash may stop it in between.
- *Errors dropped inside a transaction* that commits all the same: of appending the event
  of an evaluation, and of several reads of the evaluator.
- *One connection:* a handler that needed a second one would wait for itself, and
  one that did not give it back would stop everybody.
- *Ending:* clients that never finish a body, handlers that outlive the five seconds
  of `Shutdown`, a kill between two statements of the schema, snapshots that outlive
  the process and are older than the log.

**What makes each component correct** (the named definitions are checked properties)

- schedule: tables and log agree (`ClosureLoggedOnce`, `LandedPerClosure`,
  `ExtensionLogged`, `RestsLogged`), trip and duties agree (`TripClosedByDuty`,
  `DutyFollowsTrip`), nothing that happened is changed (`PastIsFinal`), and what the
  log says is written one whole fact at a time (`LedgerImplemented`).
- counters: what the log rebuilds is what the tables say (`RebuildMatchesDuties`,
  `RebuildMatchesFlights`), totals at a fixed instant never fall
  (`TotalsNeverShrink`); snapshots are explained by the log
  (`OverridesExplainSnapshots`) and one replay is enough (`ReplayConverges`).
- rest debt: independent of the recording order (`RecordingOrderIrrelevant`); a net
  account of deficits and credits (`DebtIsNetOfCredits`, `DeadlineOfOldestUnpaid`,
  `CheckIsEffect`); evaluator and debt measure the same rest
  (`EvaluatorAndDebtAgree`); the streak is what it is defined to be
  (`StreakIsTrailingRun`); rest never adds to a debt (`RestNeverHurts`).
- rules: the table is a function (`OneCellPerDuty`), malformed input never inflates a
  limit (`MalformedNeverInflates`), and the verdict is monotone (`WorseNeverHelps`).
- legality: the duty judged is the duty that would be flown (`EvaluatedAsFlown`), on
  the facts of its crew member alone (`OnlyOwnFactsMatter`); rest never makes a trip
  illegal (`RestNeverBreaksRules`), and a reduced rest is allowed once (`ReducedRestOnce`).
- evaluation: a stored verdict is never softened or attributed to another trip, and
  what a caller is told is in the table (`VerdictsOnlyHarden`, `AnswersAreStored`); the log has
  one entry for it unless its append failed (`EvaluationsLogged`).
- registry: names are unique within a role and stored zones load (`TypeOK`), and a
  patch that meets no other undoes nothing it does not mention (`LonePatch`).
- process: the connection is never lost (`ConnectionNotLost`), answers tell the truth
  about the file (`AnswersAreTrue`), the store is closed under nobody who had less than
  the grace period (`ClosedAfterGrace`); every request ends (`EveryRequestEnds`), the
  process stops when told (`StopsWhenTold`) and opens whatever a kill left
  (`OpensUnlessKilled`).

## 2. The modules

Each table is a sequence whose index is the AUTOINCREMENT id. A request that the code
refuses is a disabled action, and a rolled-back transaction is a stuttering step.
Operators marked *faulty variant* are plausible mistakes in the definition that
follows them; nothing uses them except the mutation tests of `PROJECT.json`.

**`CrewSchedule`** - the five writing operations, one action each, with the whole
transaction in it. `CloseDuty(d, requested)` caps the extension, writes the row, appends
`CloseEvents` in the order of the code and marks the trip unplanned. `SegmentListings`
is the `ORDER BY scheduled_dep` without a further key: segments that depart together
may come back in either order, which decides the release of the duty. Times are
ticks, `TicksPerMin` to the minute, because the log keeps whole minutes only.

**`DutyLedger`** is what the engine promises of its log, without tables or events: a set
of duties flown, each with its flights and its extension, and a set of rests taken; an
entry is written whole, once, and stays. **`CrewLedger`** EXTENDS `CrewSchedule` with the
refinement mapping. It reads the log as its consumers do: a closure is an entry, the
landings logged right before it are its flights, an `UNFORESEEN_EXTENSION` right after it
marks it as extended. `LedgerImplemented` is the specification of the ledger under that
mapping.

**`CumulativeReplay`** EXTENDS `CrewSchedule`, adds `snapshots` and the life of the
process. `ReplayForCrew` appends one `REPLAY_OVERRIDE` per disagreeing window, in any
order (the code ranges over a map), and replaces the row. `Rebuilt` is the rolling
total; the lower bound of the flight windows is included, as in `replay.go:23`, that
of the duty window is not. A duty's report is rebuilt from its release and its whole minutes, so
that it may be up to a minute late; `Borderline` are the duties which that may move
across an end of the window. `Stop` and `Start` lose memory only: the code keeps no
counters in memory.

**`RestDebt`** - a log of `DUTY_CLOSED` and `REST_COMPLETED` events of one crew member,
extended in any order, and over it the recomputations of `replay.go`. Every one of them
sorts a set of entries and loops over the result: `Arrange` is the sorting (an element
comes after as many others as precede it), `Walk` the loop, and each recomputation gives
the order and the step of its own. `Stream` is the stable merge of duties and
compensatory rests, `Settle`/`Pay` the walk over open deficits, `EarlyStreak` the walk
over duties and rests, `OwesAugmentedRest` the one over the log by time, `MinRestViolated`
the evaluator's R7 as it resolves the previous release (`lastDutyReleaseBefore`).

**`FatigueRules`** - the evaluator as a function of one input record. A step resubmits
the input with one field changed, so that monotonicity is an action property.

**`Legality`** - `EvaluateTrip` as a whole. It EXTENDS `CumulativeReplay`, so that the
operations that write the history, replays, stops and starts interleave with evaluations; the
totals are read with its `Rebuilt`, the rest since the last release, the compensatory debt, the
weekly rest and the streak with an instance of `RestDebt`, and the verdict is that of an
instance of `FatigueRules`. `FactsOf(c)` is the log restricted to the closures and rests of one
member, each still under its id; `RowsOf(c)` are the rows of both tables in the same form.
`Spans` is the unstable sort of the proposed segments. `answers` is an auxiliary
variable: what the rules would be asked in this state, for every member and request; it
lets the action properties compare a state's answers with the next one's without
computing them twice, and no operation reads anything else out of it than
`EvaluateTrip` would compute. The row of an evaluation is stored with or without its event.

**`TripEvaluation`** - the four transactions of `EvaluatePersistedTrip` (`ReadSegments`,
`EvaluateSegments`, `Retag`, `Recheck`) of concurrent callers, with one-shot
`EvaluateTrip` requests, new extensions, cancelled calls (`Cancelled`, `RecheckFails`) and
crashes between them. Two errors are dropped inside a transaction that commits: that of
appending the EVALUATION event (`AppendEvaluation`; the auxiliary `unlogged` remembers the rows it
happened to), and that of counting the extensions of the year, which then counts none
(`Counts`). Which of R1-R9 are broken is left open (`OtherRules`): that is the
business of `Legality`. Nothing under `src/` outside the compliance package calls
`EvaluatePersistedTrip`; the HTTP handler calls `EvaluateTrip`, which always stores a
NULL trip and ignores the request's `apply_unforeseen`.

**`CrewRegistry`** - registration and the PATCH handler as two transactions, load and
write back. A request that is given no `active` clears it, as the handler does.

**`ServerProcess`** - `main` (`Start`, `OpenStatement`, `Listen`, `Signal`, `Drained`,
`GraceOver`, `CloseStore`, `Exit`, `Crash`), and requests as goroutines: header, body, then
`InTx` as often as the handler calls it (`BeginTx`, `Commit`, `FnError`, `FnPanic`,
`BeginRefused`), answer. The connection is a variable that names its holder. What
`net/http`, `database/sql` and SQLite do is modelled from how `main.go` and `store.go` use
them, and marked external in the map.

`MC*` modules give the constants their values; `*Proofs` modules hold theorems.

## 3. The runs

| run | configuration | what it shows | distinct states |
|---|---|---|---|
| `schedule` | `MCCrewSchedule` | tables and log agree, the past is final, the log refines the ledger | 110 143 (up to crew symmetry) |
| `cumulative` | `MCCumulativeReplay` | rebuilt totals, snapshots, replays, restart | 61 674 (up to crew symmetry) |
| `rest_debt` | `MCRestDebt` | order independence, streaks, the account of deficits and credits, monotonicity | 3 676 |
| `fatigue_rules` | `MCFatigueRules` | the table and the monotonicity of the verdict | 11 004 |
| `legality` | `MCLegality` | the evaluator on histories that the operations write | 53 820 (up to crew symmetry) |
| `evaluations` | `MCTripEvaluation` | interleaved evaluations, cancellations, crashes, dropped errors | 1 864 676 (up to caller symmetry) |
| `registry` | `MCCrewRegistry` | overlapping registrations and patches | 28 350 |
| `server` | `MCServerProcess` | the connection, the answers, shutdown and restart, and that all of it ends | 51 444 |
| `landed_twice` | `MCLandedTwice` | divergence 1 | violation |
| `yearly_quota` | `MCYearlyQuota` | divergence 2 | violation |
| `flight_window` | `MCFlightWindow` | divergence 3 | violation |
| `below_floor` | `MCBelowFloor` | divergence 4 | violation |

**Bounds, and why they are enough.**

- `schedule`: two crew members, two trips, two segments, two duties, one rest. Every
  conflict the code can have is between two duties of one trip, two segments of one
  trip, or two members; inputs include segments that depart together, a derived and a
  given block time, refused requests, and extensions of zero, below zero, within and above
  the cap. A tick is half a minute, so that block and flight duty periods are truncated.
- `cumulative`: two members, two flights, two duties, on a clock of half minutes; totals are asked
  for at and on both sides of the ends of the windows of the earlier flight. Its duty lasts
  a whole number of minutes and a half: two of the instants lie exactly at its report, and a
  window's length after it, where the report rebuilt from the log falls on the other side
  of the end than the real one; replays at two of these
  instants (one before the flight left the window, one after), while the log is shorter
  than `MaxEvents` = 6; one stop. Two replays of the same member that disagree in all
  windows fit.
- `rest_debt`: up to three log entries from all duties and rests (exact nine-hour and
  nine-and-a-half-hour rests, overlapping duties, equal reports, a 36-hour rest that ends at an
  early report, an augmented rest that ends in the minute of a release, partial and excess
  credits), and up to four (`MaxLongLog`) from those that make
  deficits and credits (`LongEntries`): three duties in a row, each after a reduced rest, with
  credits that pay part, all or more than all of what is open.
- `fatigue_rules`: every input at the thresholds of R1-R3 with a blank history, and every
  history at the thresholds of R4-R10 with a short duty. The rules are independent
  conjuncts of the verdict, so no product of the two is needed.
- `legality`: two members, two trips, two segments, two duties, one rest, one evaluation
  (`MaxEvaluations` = 1: an evaluation may append to the log, and one shows whether it moves the
  next answer). `MinLog` = 9 holds it back until both duties are closed and more is on record: an
  evaluation is of interest after something has been flown. Replays are for one instant at which
  one counter of three differs from its snapshot, while the log is shorter than `MaxEvents` = 4,
  which is after the first closure; stops are left to `cumulative`. The answers themselves are
  compared in every state. The flights leave nine and a half
  hours between two duties, the proposals follow at nine and ten hours, and the two rests are a
  one-hour compensatory one and one that covers the week.
- `evaluations`: two callers, three rows, one extension (with a quota of one), two calendar
  years, one failed append (`MaxUnlogged`), any number of crashes and failed counts. Two callers suffice for every pairwise interleaving of the four
  transactions; the third row lets one of them start over.
- `registry`: two clients, two names, one role, two members.
- `server`: two clients, which is what it takes to wait for each other; handlers of one
  transaction and of two, so that one can give the connection up and compete for it again; a
  schema of two statements; one kill or failure to listen. A client may connect again after its
  request, and the process may be started again, so behaviours are infinite.

**Symmetry** is over crew members or callers, neither of which any definition tells
apart; it is used with invariants and action properties only, never with liveness, and
the `schedule` run's refinement is a safety property.

**Fairness** is assumed in `ServerProcess` alone. The other modules are stepped by requests,
which nothing obliges a client to send, and claim no liveness. In `ServerProcess`:

- weak fairness of what `main` does next (`Open`, `Drained`, `CloseStore`, `Exit`), of the
  two timers (`GraceOver` is the five seconds of `Shutdown`, `DropHeader` is
  `ReadHeaderTimeout`) and of what a handler does that needs no connection or has it
  (`Handler`): goroutines are scheduled, and timers fire;
- strong fairness of `BeginTx(r)` for each request: the connection becomes free again and
  again, and `database/sql` hands it to one of the waiting requests at random, so that a
  request is passed over for ever with probability zero, although weak fairness would allow it;
- none of clients (`Connect`, `SendHeader`, `SendBody`, `BreakBody`, `HangUp`), of `Signal`,
  `Crash` and `ListenFails`, nor of `Start`: nobody has to send a body, stop the process or
  start it again.

`StopsWhenTold` therefore holds with clients that never finish their bodies, because of
`GraceOver`; `EveryRequestEnds` starts where the body has arrived, because nothing limits how
long it takes (`main.go` sets no `ReadTimeout`).

`CHECK_DEADLOCK FALSE` is set where bounded tables fill up and no further request is
possible; `FatigueRules` and `ServerProcess` can always step, and are checked for deadlock.

## 4. Proofs

TLAPS proves the following for every set of members, clients, names, inputs and every
bound that satisfy the assumptions of the modules (times and minutes are integers, the clock
ticks at least once a minute, lead and lag are not negative, the cap is positive; 0 is no trip and
`R10` is not one of the rules left open; the fields of a rule input have their Go types; in
`RestDebt` a duty reports before it is released, as `schedule.go:142-143` derives both from
flights that arrive after they depart, and as `EveryDutyFollowsTrip` proves of `CrewSchedule`; in
`Legality` a tick is a minute and requests have the types of the code) - all given by the types
and constants of the code. `CrewScheduleProofs` holds the theorems of `CumulativeReplay` as well,
which EXTENDS `CrewSchedule` and shares their lemmas.

| module | theorem | says |
|---|---|---|
| `CrewScheduleProofs` | `TypeCorrect` | `TypeOK`: rows and events are well formed and every foreign key points at a row |
| | `HistoryIsFinal` | `PastIsFinal` |
| | `EveryClosureLoggedOnce` | `ClosureLoggedOnce` |
| | `EveryDutyFollowsTrip` | `DutyFollowsTrip` |
| | `EveryRestLogged` | `RestsLogged` |
| | `EveryExtensionLogged` | `ExtensionLogged` |
| | `EveryLandingOfAClosure` | `LandedPerClosure` |
| | `TripsClosedByDuties` | `TripClosedByDuty` |
| | `ImplementsLedger` | `LedgerImplemented`: `CrewSchedule` refines `DutyLedger` |
| | `ReplayTypeCorrect` | `ReplayTypeOK` |
| | `SnapshotsExplained` | `OverridesExplainSnapshots` |
| | `ReplayAlwaysConverges` | `ReplayConverges` |
| | `TotalsAlwaysGrow` | `TotalsNeverShrink` |
| | `RebuildAlwaysMatchesFlights` | `RebuildMatchesFlights` |
| | `RebuildAlwaysMatchesDuties` | `RebuildMatchesDuties` |
| `RestDebtProofs` | `EvaluatorAlwaysAgrees` | `EvaluatorAndDebtAgree` |
| | `StreakAlwaysTrailingRun` | `StreakIsTrailingRun` |
| | `DebtAlwaysNet` | `DebtIsNetOfCredits` |
| | `DeadlineAlwaysOldest` | `DeadlineOfOldestUnpaid` |
| | `CheckAlwaysEffect` | `CheckIsEffect` |
| | `RestNeverEverHurts` | `RestNeverHurts` |
| | `RecordingOrderNeverMatters` | `RecordingOrderIrrelevant` |
| `LegalityProofs` | `LegalWellFormed` | rows, log and snapshots stay well formed, and `answers` is what the rules would be asked |
| | `OwnFactsDecide` | `OnlyOwnFactsMatter` |
| | `EvaluatedIsFlown` | `EvaluatedAsFlown` |
| | `RestingNeverBreaksRules` | `RestNeverBreaksRules` |
| | `ReducedRestOnlyOnce` | `ReducedRestOnce` |
| `CrewRegistryProofs` | `RegistryCorrect` | `TypeOK` of the registry |
| | `LonePatchesKeep` | `LonePatch` |
| `FatigueRulesProofs` | `TableIsFunction` | `OneCellPerDuty`, for any hour and number of segments |
| | `MalformedGainsNothing` | `MalformedNeverInflates` |
| | `WorseDoesNotHelp` | `WorseNeverHelps`, for any amounts |
| `TripEvaluationProofs` | `VerdictsHarden` | `VerdictsOnlyHarden` |
| | `EveryEvaluationLogged` | `EvaluationsLogged` |
| | `AnswersStored` | `AnswersAreStored` |
| `ServerProcessProofs` | `ConnectionKept` | `ConnectionNotLost` |
| | `AnswersTrue` | `AnswersAreTrue` |
| | `ClosesAfterGrace` | `ClosedAfterGrace` |

`DataTheorems` holds no theorem of its own about the code, but the lemmas the components
that compute with sums and loops share. The prover cannot instantiate an induction rule
that takes a predicate, so induction is stated there with a set: `NumberInduction` says
that a set of numbers that contains 0 and with each number the next one is all of them, and
`SetInduction` the same of the subsets of a finite set. From these follow what a sum over a finite set
is when an element is added (`SumAdd`), when it is carried along a one-to-one
correspondence (`SumCorrespond`) or compared with another (`SumNotLowered`, `SumMonotonic`).

The arguments, and the inductive invariants they need:

- `TypeOK` of `CrewSchedule` is inductive by itself, one lemma per operation; its delicate
  step is `CloseDuty`, whose appended events must be well formed although they are built from
  rows that the duty only refers to, and operations that lengthen a table, which widens the type
  of the rows that point into it (`RowTypesGrow`). `ClosureLoggedOnce` is inductive relative
  to it: before a closure its duty is OPEN, so the log has no closure of it, and the new one is
  the only one (`CloseDutyAppends`, `OtherStepsAppend`).
- `DutyFollowsTrip` is not inductive: a release after the report follows from segments that
  arrive after they depart, and from what a duty's report and release were computed from.
  `DutiesAsCreated` says both, and is proved to be kept whatever is added later.
  `ExtensionLogged` needs `ClosureLoggedOnce`: the extension event names a duty, and its
  closure must be the event before it, and the only one. `LandedPerClosure` counts: a closure
  adds one landing of each linked segment and one duty to those that link it, so the two
  cardinalities move together; it needs `DutiesAsCreated` for a duty links no segment twice.
  `TripClosedByDuty` is strengthened to `UnplannedByDuty`: landed segments belong to trips of
  closed duties.
- `ImplementsLedger` needs that no operation appends right after an unfinished fact: the
  log never ends with a landing (`EndsWithWholeFact`), so that the landings before a new
  closure are exactly its own. Then a closure maps to `RecordDuty`, a rest to `RecordRest`, and
  every other step, the events of trips and segments included, to a stutter, because what was
  read at a position of the log is not changed by what is appended to it.
- The lemmas about a step of `CrewSchedule` assume `WellFormed` instead of `TypeOK`: it allows
  events of other kinds in the log, so that the same lemmas serve `CumulativeReplay`, whose
  replays log overrides of their own, and `Legality`, whose evaluations do. In the same way the
  lemmas about a replay assume `Replayable`, which says of tables, log and snapshots what a replay
  needs and leaves open who else appends to the log.
- `RebuildAlwaysMatchesFlights` and `RebuildAlwaysMatchesDuties`: what is rebuilt is a fold over
  the selected events; `RebuiltIsTotal` makes it a sum over positions of the log. The invariant
  is `TablesLogged`, above all `LandingsLinked`: there is a one-to-one correspondence between
  the landings in the log and the links of closed duties to flights under which each landing is
  that of its link. A closure extends it by as many positions as it has links. Log and tables
  are then sums of the same numbers over sets that correspond. Closures correspond to closed
  duties by `ClosureLoggedOnce`, but the report worked out from a flight duty period in minutes
  may be late, by less than a minute (`LessThanAMinuteIsLost`): the duties the log puts in the
  window are those that report in it but for `Borderline` ones (`OnlyBorderlineMoves`).
- `TotalsAlwaysGrow`: a step only appends to the log, and no amount is negative.
  `SnapshotsExplained` and `ReplayAlwaysConverges` need that a member has at most one row for each
  window (`ReplayTypeOK`) and that overrides themselves count for nothing.
- `RestDebtProofs` proves facts about every `Readable` log: typed entries at any finite set of
  places, which need not be consecutive, so that they apply to the events of one member
  among those of others, and to table rows. `LogTyped` shows that the log is one. `ArrangeSorts` and
  `WalkStates` turn the sorted loops into statements about positions, from which one induction
  each gives what the loop computes.
  - The streak after some entries counts those early reports among them that nothing after
    them cut off (`RunStep`), and a correspondence of places and duties makes that `TrailingRun`.
  - The debt satisfies owed' = max(0, owed - credit) and owed' = owed + deficit (`PayTotal`,
    `AppendTotal`), hence is the largest net of a suffix (`OwedIsPeak`), and that, since
    the order is total, is the largest net of any part of the stream that is closed upwards
    (`OwedIsLargest`). In this form what adding a rest does to the debt can be seen at once.
  - For the deadline the loop keeps `Backed`: the open deficits are those of reduced rests, in
    order and without a gap from the oldest on, and all but the oldest are unpaid.
    So the sum from the oldest on covers the debt, and the sum from any later one does not.
  - For the order of recording, two logs that differ by a permutation have the same reduced rests
    with the same shortfalls (`SameReduced`): equal reports are told apart by release and
    then by id, but a rest is reduced only if a duty before it reported strictly earlier,
    so that no two reduced rests end at one report (`ReducedApart`). Debts agree because any part of
    one stream that counts is matched by one of the other (`OwedNotLowered`); with
    the totals the oldest open deficit agrees (`OldestAlike`), and with it the whole list.
- `LegalityProofs` carries what is proved of the parts over to the histories the operations write.
  `LegalOK` is inductive: what is `Replayable` stays so, and `answers` is recomputed by every
  step. `LogsAlwaysReadable` shows that what the evaluator reads, `FactsOf` and `RowsOf`, is
  `Readable` in every reachable state, so that the lemmas of `RestDebtProofs` hold of it, by way of
  an instance whose operators are those the evaluator uses (`SameOwed`, `SameStreak`, `SameWeekly`).
  - `OwnFactsDecide`: every input of the rules is a function of the closures, extensions and rests
    of one member, and a step that leaves `FactsOf` alone keeps all of these (`HistoryKept`),
    as an extension and a landing are only ever appended together with a closure.
  - `EvaluatedIsFlown`: a sorted order of the submitted segments and a listing of the table
    correspond, since both sort the same segments by departure and leave ties open.
  - `RestingNeverBreaksRules`: a registered rest adds one fact and one row (`RestAddsFact`,
    `RestAddsRow`), which is what `RestDebtProofs` calls `RestAdded`: neither the debt nor the
    streak rises and no weekly rest becomes owed (`RestRead`). All other inputs are as before
    (`RestedInputs`), and the rules are monotone in these three (`NoWorseBreaksNoMore`).
  - `ReducedRestOnlyOnce` needs the invariant `History`, with which `Readable` is proved too: what
    `CrewScheduleProofs` shows of closures, duties and rests in tables and log also holds beside
    replays and evaluations. So the facts are the duties flown (`FactsFlown`), with exact reports,
    as there is one tick to the minute. Without compensatory rests there is a debt exactly if some
    duty was reached on reduced rest (`OwedForReduced`), and where duties do not overlap that
    is the rest since the last release (`ReducedIsNext`), of facts as of duties (`ReportsAgree`,
    `RestMeasured`). What is left is the condition of R7 (`MinRestJudged`).
- `RegistryCorrect` strengthens `TypeOK` with what a pending PATCH has read (`Rows`: a stale
  row, but well formed and of the role its member still has).
- `WorseDoesNotHelp` rests on `OneCell`: every duty with a segment matches exactly one entry
  of the table, whose hours have a closed form that falls with the segments; `NoBetter` states
  in one predicate how two inputs differ when one field is made worse.
- `TripEvaluationProofs` proves one invariant, `Relied /\ Logged`: a caller between two of its
  transactions has a row that still says what the caller read (untagged before `Retag`, with the
  caller's violations before `Recheck`), no two callers have the same row (`Apart`), and
  each row has one event, which differs at most by R10, or none if it is in `unlogged`
  (`RowLogged`). From it, no step softens a
  row: `Retag` finds the trip unset, and `Recheck` starts from the row's own violations.
  That `GetEvaluationByTrip` finds something is shown by taking, among the rows of the trip, the
  one that fewest rows are later than.
- `ServerProcessProofs`: `ConnectionNotLost` is inductive relative to the types; answers need
  `Honest`, what is known of a request at each stage between its first byte and its answer;
  `LeavesAfterGrace` extends `ClosedAfterGrace` to the moment between `Shutdown` and `Close`.

**Only model-checked:** the liveness properties (`EveryRequestEnds`, `StopsWhenTold`,
`OpensUnlessKilled`), since fairness and ENABLED are out of the prover's reach. Every invariant and
every action property that a passing run checks is stated by a theorem.

## 5. Where code and stated intent part

Checked by a run each (see `findings` in `PROJECT.json`):

1. A trip may be given a second duty, even after it is closed, and its segments land twice
   (`schedule.go:128`).
2. Nothing on the path of `CloseDuty`, nor before it, enforces the yearly quota of unforeseen
   extensions. Its comment says that one is "validated by the compliance layer's yearly
   quota; the close path here only records it" (`schedule.go:169-170, 184`): the
   recording is meant, the validation is missing.
3. The 28- and 365-day windows include a departure exactly a window ago, which their comment
   excludes (`replay.go:13-14, 23`).
4. A proposal that overlaps a closed duty finds no previous release and passes R7
   (`replay.go:72`).

Met while modelling, reproduced by the models, not checked by a run of their own:

- a segment added between creating and closing the duty never lands, yet the trip closes
  (`schedule.go:230` against `trip_store.go:82-83`);
- a report rebuilt from a flight duty period cut to whole minutes may be later than the real
  one by a fraction of a minute (`replay.go:55`), so that a duty that reports within that
  fraction before an end of the window counts on the other side of it, which is as far as
  `RebuildMatchesDuties` goes;
- an error of the recheck, once it has found the quota broken, is dropped, and the answer is
  harsher than the row (`compliance.go:257`, `AnswersAreStored`); an error of counting the
  extensions reads as none used (`compliance.go:267`);
- an evaluation is committed without its EVALUATION event when appending that fails, as the error
  is dropped (`compliance.go:206`), although `store.go:75-77` calls evaluation operations
  atomic: `AppendEvaluation` models it, `unlogged` holds the rows it happened to, and
  `EvaluationsLogged` says that nothing but their events is lost;
- a restart replays nothing; counters are rebuilt on request (`main.go:43`);
- the compensatory debt ignores the instant it is asked for, and deadlines are shown but never
  compared with the time of a credit (`replay.go:92, 170`);
- `RestDebt` reports weekly rest owed by somebody who never flew (`compliance.go:328`), any
  AUGMENTED rest clears the R10 debt whatever its length (`compliance.go:342`), and `EvaluateTrip`
  counts extensions by the year of the report instead of that of `asOf` (`compliance.go:180`);
  the count it reads is used for a metric only, as R10 is evaluated without an extension;
- segments that depart together make the release of a duty, flown or evaluated, depend on
  the order in which they happen to come (`segment_store.go:63`, `compliance.go:128`);
- whether an AUGMENTED rest that ends in the very minute of an extended duty's release clears it is
  decided by which of the two was recorded first (`event_store.go:35`, `ORDER BY ts, id`).
  TLC found this when the rest was added to the inputs of `rest_debt`: it is the one way in which the
  order of recording matters (`Contend`), and `RecordingOrderIrrelevant` exempts it;
- a crash, or a cancelled call, between storing and tagging leaves an evaluation without its
  trip (`compliance.go:241-252`);
- a PATCH writes the whole row back, so that one of two overlapping ones is lost, and a PATCH
  without `active` makes the member inactive (`api.go:166-181`);
- a close request whose body breaks off closes the duty without its extension, which cannot be
  added later (`api.go:381`).

Dead code with a latent defect, not modelled: `scanEvaluation` (`evaluation_store.go:59`) scans a
nullable trip into an integer and would fail on every evaluation stored through the API; no route
loads one.

## 6. Not modelled

- Timestamps as RFC3339Nano text: SQLite compares strings, and a fraction of a second sorts
  before the whole second. Modelled times are integers, which agrees with the text for whole seconds.
- Routing, field-by-field decoding, status codes, messages and metrics; listings; command-line flags.
- The self-check, a smoke test of the other components whose assertions were read as stated
  properties, and the web front end, static files without state on the server.
- Store queries and updates nothing calls (`SetDutyAugmented` and others), and the home base.
- Failures of SQLite itself other than a refused BEGIN or COMMIT, an error that `InTx` rolls
  back, and the two dropped errors of `TripEvaluation`; the disk keeps what was committed. The code
  drops the errors of further reads, which are taken to succeed: `EvaluateTrip` of the
  last rest, the rests of the week, the early streak and the quota (`compliance.go:170-180`),
  `RestDebt` of the rests, the streak and the quota (`compliance.go:327-330`), and `computeEarlyStreak`
  of all it reads (`replay.go:337-361`). A failure there reads as no rest, no streak or no extension.
- Real time: the five seconds of `Shutdown` and the header timeout are steps that may come at
  any moment, and must come in the end.

## 7. Plan

Done, in this order: `CrewSchedule` and its proofs, `CumulativeReplay`, `RestDebt`,
`FatigueRules`, `TripEvaluation`, `CrewRegistry`; `DutyLedger` and `CrewLedger`, `Legality`,
`ServerProcess`; the proofs of all invariants and action properties of these modules, the
refinement of `DutyLedger`, and, for `Legality`, the link between the log of all members and what
`RestDebt` reads of one. Left: `TextTime`, the text form of instants and its order, and the
queries that compare it.
