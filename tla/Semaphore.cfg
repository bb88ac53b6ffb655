CONSTANTS
  Threads = {t1, t2, t3, t4}
  initial_count = 0
  MaxCounter = 4
SPECIFICATION Spec
PROPERTY ImplementsSemaphore
