----------------------------- MODULE MCRestDebt -----------------------------
(* Small instances of RestDebt.  D(h) is hour h after midnight of day 1.   *)
EXTENDS RestDebt

D(h) == h * 60
Duty(report, release, owe) == [report |-> report, release |-> release, owe |-> owe]
Rest(start, end, type, covers) ==
  [start |-> start, end |-> end, type |-> type, covers |-> covers]

(* A morning duty; one that follows it by exactly nine hours; by nine and  *)
(* a half; an early one the next morning, nine hours after the second; one *)
(* that overlaps the first.                                                *)
MCDuties ==
  {Duty(D(6), D(10), TRUE), Duty(D(19), D(21), FALSE), Duty(D(19) + 30, D(21), FALSE),
   Duty(D(30), D(34), FALSE), Duty(D(8), D(12), FALSE), Duty(D(30), D(32), FALSE)}

(* Compensatory rests of half an hour and of an hour and a half, before,   *)
(* between and after; a long rest that ends at an early report; a short    *)
(* augmented rest, and one that ends in the minute of a release; and a     *)
(* request that is refused.                                                *)
MCRests ==
  {Rest(D(26), D(26) + 30, "COMPENSATORY", FALSE),
   Rest(D(35), D(36) + 30, "COMPENSATORY", FALSE),
   Rest(D(29), D(30), "COMPENSATORY", FALSE),
   Rest(D(-6), D(30), "NORMAL", FALSE),
   Rest(D(22), D(24), "AUGMENTED", TRUE),
   Rest(D(2), D(10), "AUGMENTED", FALSE),
   Rest(D(35), D(60), "NORMAL", TRUE),
   Rest(D(5), D(5), "NORMAL", TRUE)}

(* Chains of reduced rests and what makes up for them: only what R7 counts.*)
MCReducedDuties ==
  {Duty(D(6), D(10), TRUE), Duty(D(19), D(21), FALSE),
   Duty(D(19) + 30, D(21), FALSE), Duty(D(30), D(34), FALSE)}
MCCompensatoryRests ==
  {Rest(D(26), D(26) + 30, "COMPENSATORY", FALSE),
   Rest(D(35), D(36) + 30, "COMPENSATORY", FALSE)}
MCLongEntries ==
  {DutyClosed(in) : in \in MCReducedDuties} \cup {RestCompleted(in) : in \in MCCompensatoryRests}
MCNoEntries == {}

MCAsOfs == {D(6), D(29), D(31), D(61), D(228)}
MCProposals == {D(9), D(19), D(44), D(70)}
=============================================================================
