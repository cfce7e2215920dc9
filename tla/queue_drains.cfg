SPECIFICATION FairSpec
CONSTANTS
  a = a  b = b  t1 = t1  t2 = t2  none = none  NoItem = NoItem
  Tabs = {t1, t2}  Users = {a}  Nobody = none
  MaxSaves = 1  MaxRetries = 0  MaxOrphans = 0  MaxFaults = 1  CountTo = 1
PROPERTY QueueDrains
CHECK_DEADLOCK FALSE
