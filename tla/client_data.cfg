SPECIFICATION FairSpec
CONSTANTS
  Users = {"a", "b"}
  MaxVersion = 2
INVARIANTS NoStaleFresh OwnDataOnly
PROPERTIES BlockedLeavesNoTrace CopyReplaced
CHECK_DEADLOCK FALSE
