--------------------------- MODULE MCBridgeWorker ---------------------------
(* An instance of BridgeWorker: a process whose tool makes two calls, and   *)
(* one that makes one, or runs an operation of the host's.                  *)
EXTENDS BridgeWorker

CONSTANTS w1, w2, c1, c2, c3

Runs == [c \in Client |-> IF c = c3 THEN w2 ELSE w1]
First == [w \in Worker |-> IF w = w2 THEN c3 ELSE c1]
Asks == [w \in Worker |->
  IF w = w2 THEN {"invoke", "seeded", "token_set", "token_remove"}
            ELSE {"invoke", "token_get", "list", "invalid"}]
=============================================================================
