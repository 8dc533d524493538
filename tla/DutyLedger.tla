------------------------------ MODULE DutyLedger ------------------------------
(***************************************************************************)
(* What the compliance engine promises of its log, without tables or       *)
(* events: a ledger of duties flown and rests taken.  An entry is written  *)
(* whole, in one step, is written once, and stays.                         *)
(***************************************************************************)
EXTENDS Integers

CONSTANTS
  Crew,        \* crew members
  MaxExtension \* most minutes a duty can be extended by

VARIABLES
  flown, \* duties:  {[duty, crew, release, fdp, ext, extended, flights]}
  rested \* rests:   {[rest, crew, end, minutes, type]}

entries == <<flown, rested>>

Init == flown = {} /\ rested = {}

(* A duty comes with the flights made in it, which all departed before its *)
(* release, and is marked as extended exactly when minutes were added.     *)
RecordDuty(f) ==
  /\ \A g \in flown : g.duty # f.duty
  /\ f.crew \in Crew
  /\ f.flights # {}
  /\ \A x, y \in f.flights : x.segment = y.segment => x = y
  /\ \A x \in f.flights : x.dep < f.release
  /\ f.fdp >= 0
  /\ f.ext <= MaxExtension
  /\ f.extended <=> f.ext > 0
  /\ flown' = flown \cup {f}
  /\ UNCHANGED rested

RecordRest(r) ==
  /\ \A q \in rested : q.rest # r.rest
  /\ r.crew \in Crew
  /\ r.minutes >= 0
  /\ rested' = rested \cup {r}
  /\ UNCHANGED flown

Next ==
  \/ \E f \in flown' : RecordDuty(f)
  \/ \E r \in rested' : RecordRest(r)

Spec == Init /\ [][Next]_entries

=============================================================================
