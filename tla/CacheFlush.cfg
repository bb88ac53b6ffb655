CONSTANTS
  Entry = {1, 2, 3, 4, 5}
  Ring <- MCRing
  NRing = 2
  Depend <- MCDepend
  Proxy = {3}
  Last = {5}
  Tagged = {1, 2}
  Held = {2, 4}
  NoEntry = NoEntry
  MaxCallbacks = 3
SPECIFICATION FairSpec
INVARIANTS NodeLive SlistAgree RingsInOrder FlushComplete
PROPERTY FlushTerminates
