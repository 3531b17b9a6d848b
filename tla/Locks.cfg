SPECIFICATION FairSpec
CONSTANTS
  Threads = {t1, t2}
  Root = 0
  LastDir = 2
  None = None
INVARIANTS LockOrder NoDeadlock NoFreedSemaphore
PROPERTIES HandlersReturn
