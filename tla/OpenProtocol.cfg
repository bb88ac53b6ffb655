SPECIFICATION Spec
CONSTANTS
  Procs = {p1, p2, p3}
  Versions = {2, 3}
  StartsOn = {3}
  MaxRefs = 2
INVARIANTS ConcurrentAccess FlagsHaveOwner CrashedLeftAlone
PROPERTY WriterFirst
