--------------------------- MODULE MCFatigueRules ---------------------------
(* Inputs at the boundaries of every rule: the proposed duty varied with a *)
(* blank history, and the history varied with a short duty.                *)
EXTENDS FatigueRules

AnyOf(F) ==
  [hour: F["hour"], segments: F["segments"], fdp: F["fdp"],
   augmented: F["augmented"], facility: F["facility"], break: F["break"],
   used28d: F["used28d"], used168h: F["used168h"], used365d: F["used365d"],
   closed168h: F["closed168h"], rest: F["rest"], owed: F["owed"],
   weekly: F["weekly"], streak: F["streak"], extension: F["extension"],
   extended: F["extended"]]

Blank ==
  [hour |-> {12}, segments |-> {1}, fdp |-> {120}, augmented |-> {FALSE},
   facility |-> {"NONE"}, break |-> {0}, used28d |-> {0}, used168h |-> {0},
   used365d |-> {0}, closed168h |-> {0}, rest |-> {NoPrevious}, owed |-> {0},
   weekly |-> {FALSE}, streak |-> {0}, extension |-> {FALSE}, extended |-> {0}]

MCDutyFields ==
  [Blank EXCEPT !["hour"] = {0, 4, 5, 7, 21, 22}, !["segments"] = 0..8,
     !["fdp"] = {600, 601, 841}, !["augmented"] = BOOLEAN,
     !["facility"] = {"NONE", "CLASS_2", "CLASS_1"}, !["break"] = {0, 179, 180, 240, 241}]

MCHistoryFields ==
  [Blank EXCEPT !["hour"] = {6, 7}, !["used28d"] = {6000, 6001},
     !["used168h"] = {3600, 3601}, !["used365d"] = {60000, 60001}, !["closed168h"] = {0, 1},
     !["rest"] = {NoPrevious, 1, 539, 540, 599, 600}, !["owed"] = {0, 60},
     !["weekly"] = BOOLEAN, !["streak"] = {4, 5}, !["extension"] = BOOLEAN,
     !["extended"] = {1, 2}]

MCInputs == AnyOf(MCDutyFields) \cup AnyOf(MCHistoryFields)
=============================================================================
