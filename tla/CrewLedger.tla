------------------------------ MODULE CrewLedger ------------------------------
(***************************************************************************)
(* CrewSchedule implements DutyLedger: read back the way the compliance    *)
(* service reads it, the log is a ledger whose entries are written whole.  *)
(***************************************************************************)
EXTENDS CrewSchedule

Closures == {i \in DOMAIN events : events[i].kind = "DUTY_CLOSED"}
Completions == {i \in DOMAIN events : events[i].kind = "REST_COMPLETED"}

(* The flights of a closure are the landings logged right before it.       *)
LandingsBefore(i) ==
  {j \in 1..(i - 1) : \A k \in j..(i - 1) : events[k].kind = "SEGMENT_LANDED"}

Flight(e) == [segment |-> e.segment, dep |-> e.ts, block |-> e.block]

FlownAt(i) ==
  [duty |-> events[i].duty, crew |-> events[i].crew, release |-> events[i].ts,
   fdp |-> events[i].fdp, ext |-> events[i].ext,
   extended |-> i + 1 \in DOMAIN events /\ events[i + 1].kind = "UNFORESEEN_EXTENSION",
   flights |-> {Flight(events[j]) : j \in LandingsBefore(i)}]

RestedAt(i) ==
  [rest |-> events[i].rest, crew |-> events[i].crew, end |-> events[i].ts,
   minutes |-> events[i].duration, type |-> events[i].type]

Ledger == INSTANCE DutyLedger WITH
  MaxExtension <- UnforeseenExtendMaxMin,
  flown <- {FlownAt(i) : i \in Closures},
  rested <- {RestedAt(i) : i \in Completions}

(* The log is written one whole fact at a time: closing a duty adds one    *)
(* duty with all its flights and its extension, registering a rest adds    *)
(* that rest, and no other operation changes what the log says was flown   *)
(* or rested.                                                              *)
LedgerImplemented == Ledger!Spec

=============================================================================
