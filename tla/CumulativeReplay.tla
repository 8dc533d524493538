-------------------------- MODULE CumulativeReplay --------------------------
(***************************************************************************)
(* The rolling-window counters (R4, R5, R6) and their recovery from the    *)
(* compliance log (compliance.go:33-110, replay.go:11-62): the snapshots   *)
(* table is a cache of what a replay of the log gives at some instant, and *)
(* ReplayForCrew overwrites what disagrees and records it.                 *)
(*                                                                         *)
(* Composes with CrewSchedule, whose operations write the facts that are   *)
(* replayed, and with the life of the server process (main.go).            *)
(***************************************************************************)
EXTENDS CrewSchedule, FiniteSetsExt, SequencesExt

CONSTANTS
  AsOfs,     \* instants the counters may be asked for
  ReplayAsOfs, \* instants a replay may be requested for
  MaxEvents, \* a replay is requested only while the log is shorter than this
  MaxStops   \* bound on the number of times the process stops

ASSUME AsOfsAssumption == AsOfs \subseteq Int /\ ReplayAsOfs \subseteq AsOfs

VARIABLES
  snapshots, \* cumulative_snapshots: [crew][window] -> a set of at most one row
  up,        \* the server process is running
  stops      \* how often it has stopped

allvars == <<vars, snapshots, up, stops>>

Windows == {"28d", "168h", "365d"}
WindowsSwapped == \* faulty variant: the two flight windows are swapped
  [k \in Windows |-> Ticks(CASE k = "28d"  -> 365 * 24 * 60
                             [] k = "168h" -> 168 * 60
                             [] k = "365d" -> 28 * 24 * 60)]
WindowTicks ==
  [k \in Windows |-> Ticks(CASE k = "28d"  -> 28 * 24 * 60
                             [] k = "168h" -> 168 * 60
                             [] k = "365d" -> 365 * 24 * 60)]

OverrideEvent ==
  [kind: {"REPLAY_OVERRIDE"}, crew: Crew, ts: Int, window: Windows, stored: Int, rebuilt: Int]
SnapshotRow == [asOf: Int, min: Int]

-----------------------------------------------------------------------------
(* Rebuilding a window from the log *)

EventsOf(c, kind) == {i \in DOMAIN events : events[i].crew = c /\ events[i].kind = kind}

LandedOpenWindow(c, asOf, window) == \* faulty variant: what departs at asOf is left out
  {i \in EventsOf(c, "SEGMENT_LANDED") :
     events[i].ts >= asOf - window /\ events[i].ts < asOf}

(* Landings that departed in the window.  The lower bound is included.     *)
LandedInWindow(c, asOf, window) ==
  {i \in EventsOf(c, "SEGMENT_LANDED") :
     events[i].ts >= asOf - window /\ events[i].ts <= asOf}

(* The log has the release and the flight duty period of a closed duty;    *)
(* its report is worked out from them.                                     *)
RebuiltReport(e) == e.ts - Ticks(e.fdp)

ReleasedInWindow(c, asOf, window) == \* faulty variant: windowed by release
  {i \in EventsOf(c, "DUTY_CLOSED") :
     events[i].ts > asOf - window /\ events[i].ts <= asOf}

ClosedInWindow(c, asOf, window) ==
  {i \in EventsOf(c, "DUTY_CLOSED") :
     RebuiltReport(events[i]) > asOf - window /\ RebuiltReport(events[i]) <= asOf}

Rebuilt(c, k, asOf) ==
  IF k = "168h"
    THEN SumFunction([i \in ClosedInWindow(c, asOf, WindowTicks[k]) |->
                        Minutes(events[i].ts - RebuiltReport(events[i]))])
    ELSE SumFunction([i \in LandedInWindow(c, asOf, WindowTicks[k]) |-> events[i].block])

(* An absent snapshot row counts as 0. *)
Stored(c, k) == IF snapshots[c][k] = {} THEN 0 ELSE (CHOOSE row \in snapshots[c][k] : TRUE).min

-----------------------------------------------------------------------------
(* Operations *)

ReplayInit ==
  /\ Init
  /\ snapshots = [c \in Crew |-> [k \in Windows |-> {}]]
  /\ up = TRUE
  /\ stops = 0

Override(c, k, asOf) ==
  [kind |-> "REPLAY_OVERRIDE", crew |-> c, ts |-> asOf, window |-> k,
   stored |-> Stored(c, k), rebuilt |-> Rebuilt(c, k, asOf)]

Disagreeing(c, asOf) == {k \in Windows : Stored(c, k) # Rebuilt(c, k, asOf)}

ReplayUnlogged(c, asOf) == \* faulty variant: the override is not recorded
  /\ up
  /\ Len(events) < MaxEvents
  /\ snapshots' = [snapshots EXCEPT ![c] = [k \in Windows |->
       IF k \in Disagreeing(c, asOf) THEN {[asOf |-> asOf, min |-> Rebuilt(c, k, asOf)]}
                                     ELSE @[k]]]
  /\ UNCHANGED <<vars, up, stops>>

ReplayOnce(c, asOf) == \* faulty variant: only absent snapshots are written
  /\ up
  /\ Len(events) < MaxEvents
  /\ \E order \in SetToSeqs({k \in Disagreeing(c, asOf) : snapshots[c][k] = {}}) :
       /\ events' = events \o [i \in DOMAIN order |-> Override(c, order[i], asOf)]
       /\ snapshots' = [snapshots EXCEPT ![c] = [k \in Windows |->
            IF k \in Range(order) THEN {[asOf |-> asOf, min |-> Rebuilt(c, k, asOf)]}
                                  ELSE @[k]]]
  /\ UNCHANGED <<tables, up, stops>>

ReplayInserts(c, asOf) == \* faulty variant: rows are inserted, never replaced
  /\ up
  /\ Len(events) < MaxEvents
  /\ \E order \in SetToSeqs(Disagreeing(c, asOf)) :
       events' = events \o [i \in DOMAIN order |-> Override(c, order[i], asOf)]
  /\ snapshots' = [snapshots EXCEPT ![c] = [k \in Windows |->
       @[k] \cup (IF k \in Disagreeing(c, asOf)
                   THEN {[asOf |-> asOf, min |-> Rebuilt(c, k, asOf)]} ELSE {})]]
  /\ UNCHANGED <<tables, up, stops>>

(* Disagreeing snapshots are overwritten one by one, in the order in which *)
(* Go iterates over a map: any.                                            *)
ReplayForCrew(c, asOf) ==
  /\ up
  /\ Len(events) < MaxEvents
  /\ \E order \in SetToSeqs(Disagreeing(c, asOf)) :
       events' = events \o [i \in DOMAIN order |-> Override(c, order[i], asOf)]
  /\ snapshots' = [snapshots EXCEPT ![c] = [k \in Windows |->
       IF k \in Disagreeing(c, asOf) THEN {[asOf |-> asOf, min |-> Rebuilt(c, k, asOf)]}
                                     ELSE @[k]]]
  /\ UNCHANGED <<tables, up, stops>>

(* The process ends, or dies between two transactions; the database is on  *)
(* disk.                                                                   *)
Stop ==
  /\ up /\ stops < MaxStops
  /\ up' = FALSE
  /\ stops' = stops + 1
  /\ UNCHANGED <<vars, snapshots>>

(* main opens the store, wires the services and serves.                    *)
Start ==
  /\ ~up
  /\ up' = TRUE
  /\ UNCHANGED <<vars, snapshots, stops>>

ScheduleStep == up /\ Next /\ UNCHANGED <<snapshots, up, stops>>

ReplayNext ==
  \/ ScheduleStep
  \/ \E c \in Crew, asOf \in ReplayAsOfs : ReplayForCrew(c, asOf)
  \/ Stop
  \/ Start

ReplaySpec == ReplayInit /\ [][ReplayNext]_allvars

-----------------------------------------------------------------------------
(* Properties *)

(* Tables and log are well formed, and each crew member has at most one    *)
(* snapshot row per window.                                                *)
ReplayTypeOK ==
  /\ TablesOK /\ events \in Seq(ScheduleEvent \cup OverrideEvent)
  /\ DOMAIN snapshots = Crew
  /\ \A c \in Crew : \A k \in Windows :
       Cardinality(snapshots[c][k]) <= 1 /\ snapshots[c][k] \subseteq SnapshotRow
  /\ up \in BOOLEAN

OverridesOf(c, k) == {i \in EventsOf(c, "REPLAY_OVERRIDE") : events[i].window = k}
Earlier(S, i) == {j \in S : j < i}

(* The log explains the snapshots: a stored value is the one the latest    *)
(* REPLAY_OVERRIDE for its window rebuilt (0 before any), and each         *)
(* override starts from the value the override before it left.             *)
OverridesExplainSnapshots ==
  \A c \in Crew : \A k \in Windows :
    LET own == OverridesOf(c, k) IN
    /\ Stored(c, k) = IF own = {} THEN 0 ELSE events[Max(own)].rebuilt
    /\ \A i \in own :
         events[i].stored = IF Earlier(own, i) = {} THEN 0
                            ELSE events[Max(Earlier(own, i))].rebuilt

(* After a replay all three snapshots agree with the log as the replay     *)
(* left it: the override events it appends do not count, and a second      *)
(* replay at the same instant finds nothing to overwrite.                  *)
ReplayConverges ==
  [][\A c \in Crew, asOf \in ReplayAsOfs : ReplayForCrew(c, asOf) =>
       Disagreeing(c, asOf)' = {}]_allvars

(* The rolling totals never forget: for every fixed instant and window, no *)
(* operation, replay or restart lowers what the log rebuilds, and the 28   *)
(* day total never exceeds the 365 day one.                                *)
TotalsNeverShrink ==
  [][\A c \in Crew, asOf \in AsOfs :
       /\ \A k \in Windows : Rebuilt(c, k, asOf)' >= Rebuilt(c, k, asOf)
       /\ Rebuilt(c, "28d", asOf)' <= Rebuilt(c, "365d", asOf)']_allvars

(* A closed duty counts toward R5 with its whole flight duty period by its *)
(* report time, "(asOf - window, asOf]" (replay.go:38-41).  The log keeps  *)
(* whole minutes only, so that the report worked out from it (replay.go:55)*)
(* is up to a minute late when the flight duty period is not whole: then a *)
(* duty that reports at, or less than a minute before, an end of the       *)
(* window may fall on either side of it, but still counts for all or       *)
(* nothing.  But for those the rebuild from the log gives what the closed  *)
(* rows of duty_periods would.                                             *)
ReportedInWindow(c, asOf, window) ==
  {d \in DOMAIN duties : duties[d].crew = c /\ Closed(d)
     /\ duties[d].report > asOf - window /\ duties[d].report <= asOf}
Borderline(c, asOf, window) ==
  {d \in DOMAIN duties : duties[d].crew = c /\ Closed(d)
     /\ Ticks(FDPMin(duties[d])) # duties[d].release - duties[d].report
     /\ \E end \in {asOf - window, asOf} :
          duties[d].report > end - TicksPerMin /\ duties[d].report <= end}
RebuildMatchesDuties ==
  \A c \in Crew, asOf \in AsOfs :
    LET window == WindowTicks["168h"]
        sure == ReportedInWindow(c, asOf, window) \ Borderline(c, asOf, window) IN
    \E either \in SUBSET Borderline(c, asOf, window) :
      Rebuilt(c, "168h", asOf) = SumFunction([d \in sure \cup either |-> FDPMin(duties[d])])

(* And flight time counts toward R4 and R6 once per closed duty, by its    *)
(* departure, up to and including asOf.                                    *)
Links == UNION {{d} \X DOMAIN duties[d].segs : d \in {d \in DOMAIN duties : Closed(d)}}
LinkedSegment(l) == segments[duties[l[1]].segs[l[2]]]
FlownInWindow(c, asOf, window) ==
  {l \in Links : duties[l[1]].crew = c /\ LinkedSegment(l).dep \in (asOf - window)..asOf}
RebuildMatchesFlights ==
  \A c \in Crew, asOf \in AsOfs : \A k \in {"28d", "365d"} :
    Rebuilt(c, k, asOf) =
      SumFunction([l \in FlownInWindow(c, asOf, WindowTicks[k]) |-> LinkedSegment(l).block])

-----------------------------------------------------------------------------
(* Stated by the repository, refuted by the code *)

(* A segment counts when its departure "falls in (asOf - window, asOf]"    *)
(* (replay.go:13-14): one that departed exactly a window ago does not.     *)
FlightWindowHalfOpen ==
  \A c \in Crew, asOf \in AsOfs : \A k \in {"28d", "365d"} :
    \A i \in LandedInWindow(c, asOf, WindowTicks[k]) :
      events[i].ts > asOf - WindowTicks[k]

=============================================================================
