SPECIFICATION Spec
CONSTANTS
  Msgs = {"m1", "m2", "m3"}
  Kinds = {"text", "direct"}
  Contexts = {"c1"}
  Sizes = {1}
  MaxCount = 5
  MaxChars = 9
  MayDisconnect = FALSE
INVARIANT NothingLost
