----------------------------- MODULE MCLegality -----------------------------
(* A small instance of Legality.  D(h) is hour h after midnight of day 1;  *)
(* duties report an hour before the first departure and are released a     *)
(* quarter of an hour after the last arrival.                              *)
EXTENDS Legality, TLC

D(h) == h * 60
Segment(dep, arr) == [dep |-> dep, arr |-> arr, block |-> 0]

(* An early flight; one that leaves nine and a half hours of rest after it;*)
(* one that departs together with the first and arrives later.             *)
MCSegments ==
  {Segment(D(7), D(9) + 45), Segment(D(20) + 30, D(22) + 45), Segment(D(7), D(10) + 45)}

(* A short rest before the proposals report, credited to a debt, and a     *)
(* long one that covers the week.                                          *)
MCRests ==
  {[start |-> D(23), end |-> D(24), type |-> "COMPENSATORY", covers |-> FALSE],
   [start |-> D(23), end |-> D(59), type |-> "NORMAL", covers |-> TRUE]}

Request(segs, asOf) ==
  [segs |-> segs, asOf |-> asOf, augmented |-> FALSE, facility |-> "NONE", break |-> 0]
Hop(dep, arr) == [dep |-> dep, arr |-> arr]

(* Nine hours after the late flight, two flights submitted last first; ten *)
(* hours after it, one flight that is too long, evaluated before the end   *)
(* of the long rest; and an empty request, which is refused.               *)
MCRequests ==
  {Request(<<Hop(D(40), D(41)), Hop(D(33), D(35))>>, D(60)),
   Request(<<Hop(D(34), D(47))>>, D(30)), Request(<<>>, D(30))}

MCExtensions == {60}

(* Replays are for an instant between the report and the departure of the  *)
(* early flight, which finds one counter of three to overwrite.            *)
MCReplayAsOfs == {D(6) + 30}
CrewSymmetry == Permutations(Crew)
=============================================================================
