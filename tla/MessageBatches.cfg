SPECIFICATION FairSpec
CONSTANTS
  Msgs = {"m1", "m2", "m3"}
  Kinds = {"text", "media", "direct", "stop"}
  Contexts = {"c1", "c2"}
  Sizes = {1, 3}
  MaxCount = 2
  MaxChars = 4
  MayDisconnect = TRUE
INVARIANT Serial
INVARIANT HandedOnce
INVARIANT PendingHasTimer
INVARIANT TimersRegistered
PROPERTY NothingStuck
