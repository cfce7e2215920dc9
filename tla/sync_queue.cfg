SPECIFICATION Spec
CONSTANTS
  a = a  b = b  t1 = t1  t2 = t2  none = none  NoItem = NoItem
  Tabs = {t1, t2}  Users = {a, b}  Nobody = none
  MaxSaves = 1  MaxRetries = 1  MaxOrphans = 1  MaxFaults = 1  CountTo = 1
SYMMETRY Symmetry
INVARIANTS TypeOK NothingLost RetriesRecognised TakenOnce
 
\* Everything is sent, dismissed and pruned, and nobody saves any more.
CHECK_DEADLOCK FALSE
