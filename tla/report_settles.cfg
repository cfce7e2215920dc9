CONSTANTS
  en = en  fr = fr  t1 = t1  t2 = t2
  Langs = {en, fr}
  English = en
  Tasks = {t1, t2}
  Ids = {1, 2}
  MaxApprovals = 0
  JobsOverrun = FALSE

SPECIFICATION FairSpec
CHECK_DEADLOCK FALSE

PROPERTY NeverStuck
