CONSTANTS
  Threads = {t1, t2}
  NoThread = NoThread
  MaxCode = 3
SPECIFICATION FairSpec
CHECK_DEADLOCK FALSE
INVARIANTS ListIntact CleanWorksUnraced
PROPERTY FlagLowered
