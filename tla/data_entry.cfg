CONSTANTS
  m1 = m1  m2 = m2  o1 = o1  NoData = none
  Contents = {m1, m2, o1}
  Me = "cooperative"
  Typed = {m1, m2}
  Skewed = {o1}
  Methods = {"upload", "manual", "questionnaire"}

SPECIFICATION EntrySpec
SYMMETRY Typings
CHECK_DEADLOCK FALSE

INVARIANT StoredDraftSurvives
 
 
