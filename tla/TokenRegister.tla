--------------------------- MODULE TokenRegister ---------------------------
(***************************************************************************)
(* What the persistent token store promises: one atomic register. An       *)
(* operation takes effect at one moment between its call and its end, and  *)
(* a read ends with the value of that moment. A write that fails, or whose *)
(* process is killed before that moment, leaves the register as it was.    *)
(***************************************************************************)
CONSTANTS Client, Token, NoToken

VARIABLES value, pending

registerVars == <<value, pending>>

Free == [op |-> "none", token |-> NoToken, over |-> FALSE]

Pending == [op : {"none", "get", "set", "remove"},
            token : Token \cup {NoToken}, over : BOOLEAN]

RegisterInit ==
  /\ value \in Token \cup {NoToken}
  /\ pending = [c \in Client |-> Free]

Call(c) ==
  /\ pending[c] = Free
  /\ \E op \in {"get", "set", "remove"}, t \in Token \cup {NoToken} :
       pending' = [pending EXCEPT ![c] = [op |-> op, token |-> t, over |-> FALSE]]
  /\ UNCHANGED value

Waits(c, op) == pending[c].op = op /\ ~pending[c].over
Over(c, t) ==
  pending' = [pending EXCEPT ![c] = [op |-> pending[c].op, token |-> t, over |-> TRUE]]

Get(c) == Waits(c, "get") /\ Over(c, value) /\ UNCHANGED value
Set(c) == Waits(c, "set") /\ Over(c, pending[c].token) /\ value' = pending[c].token
Delete(c) == Waits(c, "remove") /\ Over(c, pending[c].token) /\ value' = NoToken
SetFails(c) == Waits(c, "set") /\ Over(c, pending[c].token) /\ UNCHANGED value

\* The clients S take their results, or their process is gone.
Leave(S) ==
  /\ pending' = [c \in Client |-> IF c \in S THEN Free ELSE pending[c]]
  /\ UNCHANGED value

RegisterNext ==
  \/ \E c \in Client : Call(c) \/ Get(c) \/ Set(c) \/ Delete(c) \/ SetFails(c)
  \/ \E S \in SUBSET Client : Leave(S)

RegisterSpec == RegisterInit /\ [][RegisterNext]_registerVars
=============================================================================
