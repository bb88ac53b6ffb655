SPECIFICATION Spec
CONSTANTS
  Clients = {c1, c2}
  Workers = {w1, w2}
  Main = main
  Ops <- OneOfEach
  MaxRequests = 2
  FileSize = 1
  StorageFails = FALSE
  MessagesFail = FALSE
PROPERTIES ClientsServed FinalizeReturns
CHECK_DEADLOCK FALSE
