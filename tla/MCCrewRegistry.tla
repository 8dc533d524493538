--------------------------- MODULE MCCrewRegistry ---------------------------
(* Small instances of CrewRegistry.                                        *)
EXTENDS CrewRegistry, TLC

ClientSymmetry == Permutations(Clients)
MCNames == {"Li", "Wang"}
MCRoles == {"CAPTAIN"}
MCOneZone == {"UTC"}
MCBadZones == {"Nowhere"}
=============================================================================
