CONSTANTS
  en = en  fr = fr  t1 = t1  t2 = t2
  Langs = {en, fr}
  English = en
  Tasks = {t1, t2}
  Ids = {1, 2}
  MaxApprovals = 1
  JobsOverrun = FALSE

SPECIFICATION Spec
SYMMETRY Symmetry
CHECK_DEADLOCK FALSE

INVARIANT TypeOK
INVARIANT OneJobPerLanguage
PROPERTY FreshWhenMarked
