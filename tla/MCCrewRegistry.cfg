SPECIFICATION Spec
CONSTANTS
  Clients = {p1, p2}
  Names <- MCNames
  Roles <- MCRoles
  Zones <- MCOneZone
  BadZones <- MCBadZones
  Codes = {a1}
  MaxCrew = 2
  MaxPatches = 2
CHECK_DEADLOCK FALSE
SYMMETRY ClientSymmetry
INVARIANT TypeOK
PROPERTY LonePatch
