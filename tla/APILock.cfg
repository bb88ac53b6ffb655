SPECIFICATION FairSpec
CONSTANTS
  Threads = {t1, t2, t3}
  MaxFrames = 5
  MaxCalls = 8
INVARIANTS InsideOwnsLock CountRestored
PROPERTIES ImplementsRWLock EveryCallerEnters
CHECK_DEADLOCK FALSE
