SPECIFICATION Spec
CONSTANTS
  Entry = {1, 2, 3}
  Proxy = {2}
  MaxRO = 2
  MayDepend <- MCMayDepend
INVARIANTS DependentsCached Consistent WriteOrder NoLostUpdate
