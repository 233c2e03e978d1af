SPECIFICATION FairSpec
CONSTANTS
  Tasks = {"t1", "t2", "t3"}
  Chats = {"c1", "c2", "c3"}
  MaxLocks = 2
  Objects = {"l1", "l2", "l3", "l4"}
INVARIANT SerialUntilDropped
INVARIANT TableBounded
PROPERTY WaitersServed
