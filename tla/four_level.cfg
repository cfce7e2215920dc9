CONSTANTS
  c1 = c1  c2 = c2  a1 = a1  r1 = r1  r2 = r2
  Official = official  NoUser = null
  CoopUsers = {c1}
  ApexUsers = {a1}
  Requests = {r1, r2}
  Operations <- LegacyReview
  LegacyRow = TRUE
  Abortable = TRUE

SPECIFICATION Spec
SYMMETRY Symmetry
CHECK_DEADLOCK FALSE

INVARIANT TierMatchesStatus
INVARIANT DatesMatchStatus
PROPERTY DeletedStays
