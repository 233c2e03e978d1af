SPECIFICATION Spec
CONSTANTS
  w1 = w1
  w2 = w2
  c1 = c1
  c2 = c2
  c3 = c3
  Worker = {w1, w2}
  NoWorker = NoWorker
  Client = {c1, c2, c3}
  NoClient = NoClient
  Token = {1, 2, 3}
  NoToken = 0
  WorkerOf <- Runs
  Single <- First
  MayAsk <- Asks
  MaxFaults = 1
INVARIANT TypeOK
INVARIANT SerialUnlessStolen
INVARIANT NoneLeft
INVARIANT SpentOnce
INVARIANT StoredUsable
INVARIANT RetriesWithAnother
PROPERTY WorkersEnd
CHECK_DEADLOCK FALSE
