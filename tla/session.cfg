SPECIFICATION FairSpec
CONSTANT MaxAttempts = 2
INVARIANTS OneLiveRestore OfflineAttended NoSilentReturn
PROPERTY RestoreSettles
