SPECIFICATION FairSpec
CONSTANTS
  Threads = {"t1", "t2"}
  Events = {"e1", "e2", "e3"}
  Drainers = {"d1", "d2"}
  MaxDepth = 2
  MaxPolls = 1
  MaxLives = 3
INVARIANT OneDrainer
INVARIANT Accounted
INVARIANT ReplayedInOrder
PROPERTY DrainerEnds
