CONSTANTS
  c1 = c1  c2 = c2  a1 = a1  a2 = a2  r1 = r1
  Official = official  NoUser = null
  CoopUsers = {c1, c2}
  ApexUsers = {a1}
  Requests = {r1}
  Operations <- BackAndForth
  LegacyRow = FALSE
  Abortable = FALSE
  LateClaims = TRUE
  MaxReclaims = 2
  MaxPages = 2

SPECIFICATION ScreenSpec
SYMMETRY Alike
CHECK_DEADLOCK FALSE

INVARIANT OffersAccepted
INVARIANT ReclaimExplained
