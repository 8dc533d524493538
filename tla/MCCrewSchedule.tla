--------------------------- MODULE MCCrewSchedule ---------------------------
(* Small instances of CrewSchedule.  Times are minutes (or half minutes)   *)
(* of one day.                                                             *)
EXTENDS CrewLedger, TLC

CrewSymmetry == Permutations(Crew)

(* An early flight whose block time is derived, a later one whose block    *)
(* time is given, two that depart together, and a request with no duration *)
(* (refused).                                                              *)
MCSegmentInputs ==
  {[dep |-> 480, arr |-> 571, block |-> 0],
   [dep |-> 600, arr |-> 700, block |-> 80],
   [dep |-> 600, arr |-> 640, block |-> 0],
   [dep |-> 700, arr |-> 700, block |-> 30]}

MCOneSegmentInput == {[dep |-> 480, arr |-> 571, block |-> 0]}

MCRestInputs ==
  {[start |-> 900, end |-> 1500, type |-> "NORMAL", covers |-> TRUE],
   [start |-> 900, end |-> 900, type |-> "COMPENSATORY", covers |-> FALSE]}

MCNoRests == {}

(* none, one within the cap, one above it, and one below zero *)
MCExtensionInputs == {0, 60, 200, -30}
MCExtended == {60}
=============================================================================
