SPECIFICATION FairSpec
CONSTANTS
  N = 3
  Clients = {c1, c2}
  Tasks = {k1, k2, k3}
  NoTask = NoTask
  MayFail = TRUE
INVARIANTS AcceptedTasksDone NotFreedInUse
PROPERTIES DestroyTerminates AcceptedTasksRun
CHECK_DEADLOCK FALSE
