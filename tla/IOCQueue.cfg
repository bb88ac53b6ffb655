SPECIFICATION SafeSpec
CONSTANTS
  Clients = {c1, c2}
  Workers = {w1, w2}
  Main = main
  Ops <- Overlapping
  MaxRequests = 3
  FileSize = 2
  StorageFails = TRUE
  MessagesFail = TRUE
SYMMETRY Symmetry
INVARIANTS StrictOrder NoForgottenEntry ResultsSerial QuietAtShutdown
CHECK_DEADLOCK FALSE
