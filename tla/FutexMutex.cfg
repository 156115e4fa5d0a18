CONSTANTS Threads = {t1, t2, t3}
SPECIFICATION FairSpec
INVARIANT MutualExclusion
INVARIANT NoLostWakeup
PROPERTY LockProgress
