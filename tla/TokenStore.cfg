SPECIFICATION StoreSpec
CONSTANTS
  Client = {"c1", "c2", "c3"}
  Token = {"t1", "t2"}
  NoToken = "none"
  NoKey = "nokey"
  Partial = "partial"
  FirstKey = "k0"
INVARIANT StoreInv
PROPERTY AtomicRegister
