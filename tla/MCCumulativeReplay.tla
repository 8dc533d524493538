------------------------- MODULE MCCumulativeReplay -------------------------
(* Small instances of CumulativeReplay on a clock of half minutes: flights *)
(* that depart at 8:00 and 10:00 looked at just before, at and after the   *)
(* ends of each window.                                                    *)
EXTENDS CumulativeReplay, TLC

CrewSymmetry == Permutations(Crew)

(* The first flight makes a duty of 166 minutes and a half, which reports  *)
(* at 840 and is released at 1173: the log gives 841 for its report.       *)
MCSegmentInputs ==
  {[dep |-> 960, arr |-> 1143, block |-> 0], [dep |-> 1200, arr |-> 1400, block |-> 80]}
MCOneSegmentInput == {[dep |-> 960, arr |-> 1143, block |-> 0]}
MCNoRests == {}
MCNoExtension == {0}

(* At the earlier report; at the departures; and where that report, its    *)
(* release or its departure leaves a window.                               *)
MCAsOfs ==
  {840, 960, 1199, 840 + 20160, 1000 + 20160, 960 + 80640, 961 + 80640, 961 + 1051200}
MCNoReplay == {}
MCReplayAsOfs == {960, 840 + 20160}
MCBoundaryAsOf == {960 + 80640}
=============================================================================
