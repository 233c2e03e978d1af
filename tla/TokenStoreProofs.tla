-------------------------- MODULE TokenStoreProofs --------------------------
(***************************************************************************)
(* Proof that TokenStore implements TokenRegister: for any number of       *)
(* processes, racing to create the master key and killed at any point, the *)
(* file is one atomic register.                                            *)
(***************************************************************************)
EXTENDS TokenStore, TLAPS

\* What an operation under way knows and holds.
OperationOK(r) ==
  /\ r.at = "idle" => r = Idle
  /\ r.op = "none" => r.at = "idle"
  /\ r.op = "remove" => r.at \in {"file", "done"}
  /\ r.at = "chmod" => r.op = "set"
  /\ r.op = "set" => r.token \in Token
  /\ r.op = "get" /\ r.at # "done" => r.token = NoToken
  /\ r.at = "file" /\ r.op \in {"get", "set"} => r.key # NoKey

Operations == \A c \in Client : OperationOK(io[c])

-----------------------------------------------------------------------------
StoreIInv == StoreInv /\ Operations

USE StoreAssumption

LEMMA InitStoreInv == StoreInit => StoreIInv
BY DEF StoreInit, StoreIInv, StoreInv, StoreTypeOK, OneKey, Operations, OperationOK,
       Credential, NoCredential, Operation, Idle, IoPcs, Keys, Whole

\* A step of a client keeps the invariant.
LEMMA StepStoreInv ==
  ASSUME StoreIInv, NEW c \in Client,
         \/ StartGet(c) \/ StartRemove(c) \/ \E t \in Token : StartSet(c, t)
         \/ StoreStep(c) \/ Taken(c)
  PROVE  StoreIInv'
<1> USE DEF StoreIInv, StoreInv, StoreTypeOK, OneKey, Operations, OperationOK,
            Credential, NoCredential, Operation, Idle, IoPcs, Keys, Whole
<1>1. CASE StartGet(c) BY <1>1 DEF StartGet, Starts
<1>2. CASE StartRemove(c) BY <1>2 DEF StartRemove, Starts
<1>3. CASE \E t \in Token : StartSet(c, t) BY <1>3 DEF StartSet, Starts
<1>4. CASE ReadKey(c) BY <1>4 DEF ReadKey, KeyFails, Moves
<1>5. CASE CreateKey(c) BY <1>5 DEF CreateKey, Creates, Moves
<1>6. CASE FillKey(c) BY <1>6 DEF FillKey
<1>7. CASE RereadKey(c) BY <1>7 DEF RereadKey, KeyFails, Moves
<1>8. CASE ReadCredential(c)
  <2>1. Decrypted(c) \in Token \cup {NoToken}
    <3>1. credFile.token \in Token \cup {NoToken} OBVIOUS
    <3> QED BY <3>1 DEF Decrypted
  <2>2. PICK t \in Token \cup {NoToken} :
          io' = [io EXCEPT ![c] = [io[c] EXCEPT !.at = "done", !.token = t]]
    BY <1>8, <2>1 DEF ReadCredential
  <2>3. io[c].op = "get" /\ io[c].at \in {"file", "key"} /\ UNCHANGED <<keyFile, credFile>>
    BY <1>8 DEF ReadCredential, HasKey
  <2>4. StoreTypeOK'
    <3>1. io[c] \in Operation /\ io \in [Client -> Operation] OBVIOUS
    <3>2. [io[c] EXCEPT !.at = "done", !.token = t] \in Operation BY <3>1
    <3> HIDE DEF Operation
    <3>3. io' \in [Client -> Operation] BY <2>2, <3>1, <3>2
    <3> QED BY <3>3, <2>3
  <2>5. OneKey'
    <3>1. \A d \in Client : io'[d].key = io[d].key /\ (io'[d].at = "fill" => io[d].at = "fill")
      BY <2>2
    <3> QED BY <3>1, <2>3
  <2>6. Operations' BY <2>2, <2>3
  <2> QED BY <2>4, <2>5, <2>6
<1>9. CASE WriteCredential(c) BY <1>9 DEF WriteCredential, HasKey, KeyOf, Moves
<1>10. CASE SetMode(c) BY <1>10 DEF SetMode, Moves
<1>11. CASE RemoveCredential(c) BY <1>11 DEF RemoveCredential, Moves
<1>12. CASE Taken(c) BY <1>12 DEF Taken
<1> QED
  BY <1>1, <1>2, <1>3, <1>4, <1>5, <1>6, <1>7, <1>8, <1>9, <1>10, <1>11, <1>12 DEF StoreStep

LEMMA KillStoreInv ==
  ASSUME StoreIInv, NEW S \in SUBSET Client, StoreKilled(S)
  PROVE  StoreIInv'
BY DEF StoreKilled, StoreIInv, StoreInv, StoreTypeOK, OneKey, Operations, OperationOK,
       Credential, NoCredential, Operation, Idle, IoPcs, Keys, Whole

LEMMA StutterStoreInv == StoreIInv /\ UNCHANGED storeVars => StoreIInv'
BY DEF storeVars, StoreIInv, StoreInv, StoreTypeOK, OneKey, Operations, Whole

\* The invariant is inductive.
LEMMA NextStoreInv == StoreIInv /\ [StoreNext]_storeVars => StoreIInv'
BY StepStoreInv, KillStoreInv, StutterStoreInv DEF StoreNext

\* For any number of processes, the master key never changes once it is there,
\* and the credential is encrypted with it (getMasterKey, setPersistentToken).
THEOREM StoreKeepsOneKey == StoreSpec => []StoreInv
<1>1. StoreInit => StoreIInv BY InitStoreInv
<1>2. StoreIInv /\ [StoreNext]_storeVars => StoreIInv' BY NextStoreInv
<1>3. StoreIInv => StoreInv BY DEF StoreIInv
<1> QED BY <1>1, <1>2, <1>3, PTL DEF StoreSpec

-----------------------------------------------------------------------------
\* The store starts as a register does.
LEMMA InitRegister == StoreInit => Register!RegisterInit
<1> SUFFICES ASSUME StoreInit PROVE Register!RegisterInit
  OBVIOUS
<1>1. Readable \in Token \cup {NoToken}
  BY DEF StoreInit, Readable, NoCredential, Keys
<1>2. [d \in Client |-> AsPending(d)] = [d \in Client |-> Register!Free]
  <2>1. \A d \in Client : AsPending(d) = Register!Free
    <3> TAKE d \in Client
    <3>1. io[d].op = "none" /\ io[d].at = "idle" /\ io[d].token = NoToken
      BY DEF StoreInit, Idle
    <3>2. (io[d].at \in Passed) = FALSE BY <3>1 DEF Passed
    <3> QED BY <3>1, <3>2, Zenon DEF AsPending, Register!Free
  <2> QED BY <2>1
<1> QED BY <1>1, <1>2 DEF Register!RegisterInit

pend == [d \in Client |-> AsPending(d)]

\* A step of client c alone moves its operation in the register.
LEMMA PendingMoves ==
  ASSUME NEW c \in Client, NEW r, io \in [Client -> Operation],
         io' = [io EXCEPT ![c] = r]
  PROVE  pend' = [pend EXCEPT ![c] =
           [op |-> r.op, token |-> r.token,
            over |-> r.at \in Passed]]
<1>1. \A d \in Client : d # c => AsPending(d)' = AsPending(d)
  BY DEF AsPending
<1>2. AsPending(c)' = [op |-> r.op, token |-> r.token,
                       over |-> r.at \in Passed]
  BY DEF AsPending
<1> QED BY <1>1, <1>2 DEF pend

LEMMA PendingOf == \A c \in Client : pend[c] = AsPending(c)
BY DEF pend

\* What a step of the store is for the register: a call, ...
LEMMA CallMaps ==
  ASSUME StoreIInv, NEW c \in Client, io[c] = Idle,
         NEW op \in {"get", "set", "remove"}, NEW t \in Token \cup {NoToken},
         Starts(c, op, t), UNCHANGED <<keyFile, credFile>>
  PROVE  Register!Call(c)
<1>1. Readable' = Readable BY DEF Readable, Whole
<1>2. pend[c] = Register!Free
  <2>1. io[c].op = "none" /\ io[c].at = "idle" /\ io[c].token = NoToken
    BY DEF Idle
  <2>2. (io[c].at \in Passed) = FALSE BY <2>1 DEF Passed
  <2>3. AsPending(c) = Register!Free
    BY <2>1, <2>2, Zenon DEF AsPending, Register!Free
  <2> QED BY <2>3, PendingOf
<1>3. pend' = [pend EXCEPT ![c] = [op |-> op, token |-> t, over |-> FALSE]]
  <2> DEFINE r == [op |-> op, at |-> IF op = "remove" THEN "file" ELSE "key",
                   token |-> t, key |-> NoKey]
  <2>1. io' = [io EXCEPT ![c] = r] BY DEF Starts
  <2>2. r.op = op /\ r.token = t /\ r.at \notin Passed BY DEF Passed
  <2>3. io \in [Client -> Operation] BY DEF StoreIInv, StoreInv, StoreTypeOK
  <2> HIDE DEF r
  <2>4. pend' = [pend EXCEPT ![c] = [op |-> r.op, token |-> r.token,
                   over |-> r.at \in Passed]]
    BY <2>1, <2>3, PendingMoves
  <2>5. (r.at \in Passed) = FALSE BY <2>2
  <2> QED BY <2>2, <2>4, <2>5, Zenon
<1> QED BY <1>1, <1>2, <1>3 DEF Register!Call, pend

\* ... nothing, ...
LEMMA InternalMaps ==
  ASSUME StoreIInv, NEW c \in Client, NEW r, io' = [io EXCEPT ![c] = r],
         r.op = io[c].op, r.token = io[c].token,
         r.at \in Passed <=> io[c].at \in Passed
  PROVE  pend' = pend
<1>0. (r.at \in Passed) = (io[c].at \in Passed) OBVIOUS
<1>1. io \in [Client -> Operation] BY DEF StoreIInv, StoreInv, StoreTypeOK
<1>2. pend' = [pend EXCEPT ![c] = [op |-> r.op, token |-> r.token,
                 over |-> r.at \in Passed]]
  BY <1>1, PendingMoves
<1>3. pend' = [pend EXCEPT ![c] = AsPending(c)] BY <1>0, <1>2, Zenon DEF AsPending
<1>4. pend' = [pend EXCEPT ![c] = pend[c]] BY <1>3, PendingOf
<1> QED BY <1>4 DEF pend

\* ... or the moment the operation takes effect.
LEMMA EffectMaps ==
  ASSUME StoreIInv, NEW c \in Client, NEW r, io' = [io EXCEPT ![c] = r],
         r.op = io[c].op, r.at \in Passed,
         io[c].at \notin Passed
  PROVE  /\ pend[c].op = io[c].op /\ pend[c].token = io[c].token /\ ~pend[c].over
         /\ pend' = [pend EXCEPT ![c] =
              [op |-> pend[c].op, token |-> r.token, over |-> TRUE]]
<1>1. io \in [Client -> Operation] BY DEF StoreIInv, StoreInv, StoreTypeOK
<1>2. pend' = [pend EXCEPT ![c] = [op |-> r.op, token |-> r.token,
                 over |-> r.at \in Passed]]
  BY <1>1, PendingMoves
<1> DEFINE now == io[c].at \in Passed
<1>7. pend[c] = [op |-> io[c].op, token |-> io[c].token, over |-> now]
  BY PendingOf, Zenon DEF AsPending
<1>8. now = FALSE OBVIOUS
<1> HIDE DEF now
<1>3. pend[c].op = io[c].op /\ pend[c].token = io[c].token BY <1>7
<1>4. ~pend[c].over BY <1>7, <1>8
<1>5. (r.at \in Passed) = TRUE OBVIOUS
<1>6. pend' = [pend EXCEPT ![c] = [op |-> pend[c].op, token |-> r.token, over |-> TRUE]]
  BY <1>2, <1>3, <1>5, Zenon
<1> QED BY <1>3, <1>4, <1>6

\* The results taken, or the processes gone, leave the register.
LEMMA LeaveMaps ==
  ASSUME StoreIInv, NEW S \in SUBSET Client,
         io' = [c \in Client |-> IF c \in S THEN Idle ELSE io[c]],
         UNCHANGED <<keyFile, credFile>>
  PROVE  Register!Leave(S)
<1>1. Readable' = Readable BY DEF Readable, Whole
<1>2. \A c \in Client : c \in S => AsPending(c)' = Register!Free
  <2> TAKE c \in Client
  <2> HAVE c \in S
  <2>1. io'[c] = Idle OBVIOUS
  <2>2. io'[c].op = "none" /\ io'[c].at = "idle" /\ io'[c].token = NoToken
    BY <2>1 DEF Idle
  <2>3. (io'[c].at \in Passed) = FALSE BY <2>2 DEF Passed
  <2> QED BY <2>2, <2>3, Zenon DEF AsPending, Register!Free
<1>3. \A c \in Client : c \notin S => AsPending(c)' = AsPending(c)
  BY DEF AsPending
<1>4. pend' = [c \in Client |-> IF c \in S THEN Register!Free ELSE pend[c]]
  BY <1>2, <1>3 DEF pend
<1> QED BY <1>1, <1>4 DEF Register!Leave, pend

-----------------------------------------------------------------------------
(* The actions, one after another.                                         *)

LEMMA CallStepMaps ==
  ASSUME StoreIInv, NEW c \in Client,
         StartGet(c) \/ StartRemove(c) \/ \E t \in Token : StartSet(c, t)
  PROVE  Register!Call(c)
<1>1. CASE StartGet(c) BY <1>1, CallMaps DEF StartGet
<1>2. CASE StartRemove(c) BY <1>2, CallMaps DEF StartRemove
<1>3. CASE \E t \in Token : StartSet(c, t)
  <2>1. PICK t \in Token : StartSet(c, t) BY <1>3
  <2> QED BY <2>1, CallMaps DEF StartSet
<1> QED BY <1>1, <1>2, <1>3

\* The key cannot be read: a read has found nothing, as nothing can be read.
LEMMA KeyFailsMaps ==
  ASSUME StoreIInv, NEW c \in Client, keyFile = Partial, KeyFails(c),
         io[c].at \in {"key", "reread"}
  PROVE  Register!Get(c) \/ Register!SetFails(c)
<1> DEFINE r == [io[c] EXCEPT !.at = IF io[c].op = "get" THEN "done" ELSE "threw"]
<1>1. io' = [io EXCEPT ![c] = r] BY DEF KeyFails, Moves
<1>2. io[c] \in Operation BY DEF StoreIInv, StoreInv, StoreTypeOK
<1>3. /\ r.op = io[c].op /\ r.token = io[c].token
      /\ r.at \in Passed /\ io[c].at \notin Passed
  BY <1>2 DEF Operation, Passed
<1> HIDE DEF r
<1>4. /\ pend[c].op = io[c].op /\ pend[c].token = io[c].token /\ ~pend[c].over
      /\ pend' = [pend EXCEPT ![c] =
           [op |-> pend[c].op, token |-> r.token, over |-> TRUE]]
  BY <1>1, <1>3, EffectMaps
<1>5. Readable' = Readable /\ Readable = NoToken BY DEF KeyFails, Readable, Whole
<1>6. io[c].op \in {"get", "set"}
  BY <1>2 DEF StoreIInv, Operations, OperationOK, Operation
<1>7. CASE io[c].op = "get"
  <2>1. io[c].token = NoToken
    BY <1>7 DEF StoreIInv, Operations, OperationOK
  <2> QED
    BY <1>3, <1>4, <1>5, <1>7, <2>1
    DEF Register!Get, Register!Waits, Register!Over, pend
<1>8. CASE io[c].op = "set"
  BY <1>3, <1>4, <1>5, <1>8
  DEF Register!SetFails, Register!Waits, Register!Over, pend
<1> QED BY <1>6, <1>7, <1>8

RegisterStep == [Register!RegisterNext]_<<Readable, pend>>

LEMMA InternalStep ==
  ASSUME StoreIInv, NEW c \in Client, NEW at \in IoPcs, NEW key,
         io' = [io EXCEPT ![c] = [io[c] EXCEPT !.at = at, !.key = key]],
         at \in Passed <=> io[c].at \in Passed,
         Readable' = Readable
  PROVE  RegisterStep
<1> DEFINE r == [io[c] EXCEPT !.at = at, !.key = key]
<1>1. io[c] \in Operation BY DEF StoreIInv, StoreInv, StoreTypeOK
<1>2. r.op = io[c].op /\ r.token = io[c].token /\ r.at = at BY <1>1 DEF Operation
<1>4. io' = [io EXCEPT ![c] = r] OBVIOUS
<1>5. r.at \in Passed <=> io[c].at \in Passed BY <1>2
<1> HIDE DEF r
<1>3. pend' = pend BY <1>2, <1>4, <1>5, InternalMaps
<1> QED BY <1>3 DEF RegisterStep

LEMMA ReadKeyMaps ==
  ASSUME StoreIInv, NEW c \in Client, ReadKey(c)
  PROVE  RegisterStep
<1>1. CASE keyFile = NoKey /\ Moves(c, "create") /\ UNCHANGED <<keyFile, credFile>>
  <2>1. io[c] = [io[c] EXCEPT !.key = io[c].key]
    BY DEF StoreIInv, StoreInv, StoreTypeOK, Operation
  <2>2. io' = [io EXCEPT ![c] = [io[c] EXCEPT !.at = "create", !.key = io[c].key]]
    BY <1>1, <2>1 DEF Moves
  <2>3. Readable' = Readable BY <1>1 DEF Readable, Whole
  <2>4. "create" \in IoPcs /\ "create" \notin Passed /\ io[c].at \notin Passed
    BY DEF ReadKey, IoPcs, Passed
  <2> QED BY <2>2, <2>3, <2>4, InternalStep
<1>2. CASE keyFile = Partial /\ KeyFails(c)
  BY <1>2, KeyFailsMaps DEF ReadKey, RegisterStep, Register!RegisterNext, pend
<1> QED BY <1>1, <1>2 DEF ReadKey

LEMMA CreateKeyMaps ==
  ASSUME StoreIInv, NEW c \in Client, CreateKey(c)
  PROVE  RegisterStep
<1>1. PICK at \in {"fill", "reread"} : Moves(c, at) BY DEF CreateKey, Creates
<1>2. io[c] = [io[c] EXCEPT !.key = io[c].key]
  BY DEF StoreIInv, StoreInv, StoreTypeOK, Operation
<1>3. io' = [io EXCEPT ![c] = [io[c] EXCEPT !.at = at, !.key = io[c].key]]
  BY <1>1, <1>2 DEF Moves
<1>4. Readable' = Readable BY DEF CreateKey, Creates, Readable, Whole
<1>5. at \in IoPcs /\ at \notin Passed /\ io[c].at \notin Passed
  BY DEF CreateKey, Creates, IoPcs, Passed
<1> QED BY <1>3, <1>4, <1>5, InternalStep

LEMMA FillKeyMaps ==
  ASSUME StoreIInv, NEW c \in Client, FillKey(c)
  PROVE  RegisterStep
<1>1. io' = [io EXCEPT ![c] = [io[c] EXCEPT !.at = "file", !.key = c]]
  BY DEF FillKey
<1>2. keyFile = Partial /\ keyFile' = c /\ io[c].at = "fill" /\ UNCHANGED credFile
  BY DEF FillKey, StoreIInv, StoreInv, OneKey
<1>3. credFile = NoCredential
  BY <1>2 DEF StoreIInv, StoreInv, OneKey, Whole
<1>4. Readable' = Readable
  BY <1>2, <1>3 DEF Readable, Whole, NoCredential
<1>5. "file" \in IoPcs /\ "file" \notin Passed /\ io[c].at \notin Passed
  BY <1>2 DEF IoPcs, Passed
<1> QED BY <1>1, <1>4, <1>5, InternalStep

LEMMA RereadKeyMaps ==
  ASSUME StoreIInv, NEW c \in Client, RereadKey(c)
  PROVE  RegisterStep
<1>1. CASE keyFile = Partial /\ KeyFails(c)
  BY <1>1, KeyFailsMaps DEF RereadKey, RegisterStep, Register!RegisterNext, pend
<1>2. CASE /\ Whole
           /\ io' = [io EXCEPT ![c].at = "file", ![c].key = keyFile]
           /\ UNCHANGED <<keyFile, credFile>>
  <2>1. io' = [io EXCEPT ![c] = [io[c] EXCEPT !.at = "file", !.key = keyFile]]
    BY <1>2
  <2>2. Readable' = Readable BY <1>2 DEF Readable, Whole
  <2>3. "file" \in IoPcs /\ "file" \notin Passed /\ io[c].at \notin Passed
    BY DEF RereadKey, IoPcs, Passed
  <2> QED BY <2>1, <2>2, <2>3, InternalStep
<1> QED BY <1>1, <1>2 DEF RereadKey

LEMMA ReadCredentialMaps ==
  ASSUME StoreIInv, NEW c \in Client, ReadCredential(c)
  PROVE  Register!Get(c)
<1> DEFINE r == [io[c] EXCEPT !.at = "done", !.token = Decrypted(c)]
<1>1. io' = [io EXCEPT ![c] = r] BY DEF ReadCredential
<1>2. io[c] \in Operation BY DEF StoreIInv, StoreInv, StoreTypeOK
<1>3. /\ r.op = io[c].op /\ r.token = Decrypted(c)
      /\ r.at \in Passed /\ io[c].at \notin Passed
  BY <1>2 DEF Operation, Passed, ReadCredential, HasKey
<1> HIDE DEF r
<1>4. /\ pend[c].op = io[c].op /\ pend[c].token = io[c].token /\ ~pend[c].over
      /\ pend' = [pend EXCEPT ![c] =
           [op |-> pend[c].op, token |-> r.token, over |-> TRUE]]
  BY <1>1, <1>3, EffectMaps
<1>5. KeyOf(c) = keyFile /\ Whole
  BY <1>2 DEF ReadCredential, HasKey, KeyOf, StoreIInv, StoreInv, StoreTypeOK, OneKey,
             Operations, OperationOK, Whole, Operation, Keys
<1>6. Readable' = Readable /\ Readable = Decrypted(c)
  BY <1>5 DEF ReadCredential, Readable, Decrypted, Whole
<1>7. io[c].op = "get" BY DEF ReadCredential
<1> QED
  BY <1>3, <1>4, <1>6, <1>7 DEF Register!Get, Register!Waits, Register!Over, pend

LEMMA WriteCredentialMaps ==
  ASSUME StoreIInv, NEW c \in Client, WriteCredential(c)
  PROVE  Register!Set(c) \/ Register!SetFails(c)
<1>1. PICK at \in Passed : Moves(c, at) BY DEF WriteCredential, Passed
<1> DEFINE r == [io[c] EXCEPT !.at = at]
<1>2. io' = [io EXCEPT ![c] = r] BY <1>1 DEF Moves
<1>3. io[c] \in Operation BY DEF StoreIInv, StoreInv, StoreTypeOK
<1>4. r.op = io[c].op /\ r.token = io[c].token /\ r.at = at
  BY <1>3 DEF Operation
<1>5. r.at \in Passed /\ io[c].at \notin Passed
  BY <1>4 DEF Passed, WriteCredential, HasKey
<1> HIDE DEF r
<1>6. /\ pend[c].op = io[c].op /\ pend[c].token = io[c].token /\ ~pend[c].over
      /\ pend' = [pend EXCEPT ![c] =
           [op |-> pend[c].op, token |-> r.token, over |-> TRUE]]
  BY <1>2, <1>4, <1>5, EffectMaps
<1>7. KeyOf(c) = keyFile /\ Whole
  BY <1>3 DEF WriteCredential, HasKey, KeyOf, StoreIInv, StoreInv, StoreTypeOK, OneKey,
             Operations, OperationOK, Whole, Operation, Keys
<1>8. io[c].op = "set" /\ UNCHANGED keyFile BY DEF WriteCredential
<1>9. CASE credFile' = [token |-> io[c].token, key |-> KeyOf(c)]
  <2>1. Readable' = io[c].token BY <1>7, <1>8, <1>9 DEF Readable, Whole
  <2> QED
    BY <1>4, <1>6, <1>8, <2>1 DEF Register!Set, Register!Waits, Register!Over, pend
<1>10. CASE UNCHANGED credFile
  <2>1. Readable' = Readable BY <1>8, <1>10 DEF Readable, Whole
  <2> QED
    BY <1>4, <1>6, <1>8, <2>1 DEF Register!SetFails, Register!Waits, Register!Over, pend
<1> QED BY <1>9, <1>10 DEF WriteCredential

LEMMA SetModeMaps ==
  ASSUME StoreIInv, NEW c \in Client, SetMode(c)
  PROVE  RegisterStep
<1>1. PICK at \in {"threw", "done"} : Moves(c, at) BY DEF SetMode
<1>2. io[c] = [io[c] EXCEPT !.key = io[c].key]
  BY DEF StoreIInv, StoreInv, StoreTypeOK, Operation
<1>3. io' = [io EXCEPT ![c] = [io[c] EXCEPT !.at = at, !.key = io[c].key]]
  BY <1>1, <1>2 DEF Moves
<1>4. Readable' = Readable BY DEF SetMode, Readable, Whole
<1>5. at \in IoPcs /\ at \in Passed /\ io[c].at \in Passed
  BY DEF SetMode, IoPcs, Passed
<1> QED BY <1>3, <1>4, <1>5, InternalStep

LEMMA RemoveCredentialMaps ==
  ASSUME StoreIInv, NEW c \in Client, RemoveCredential(c)
  PROVE  Register!Delete(c)
<1> DEFINE r == [io[c] EXCEPT !.at = "done"]
<1>1. io' = [io EXCEPT ![c] = r] BY DEF RemoveCredential, Moves
<1>2. io[c] \in Operation BY DEF StoreIInv, StoreInv, StoreTypeOK
<1>3. /\ r.op = io[c].op /\ r.token = io[c].token
      /\ r.at \in Passed /\ io[c].at \notin Passed
  BY <1>2 DEF Operation, Passed, RemoveCredential
<1> HIDE DEF r
<1>4. /\ pend[c].op = io[c].op /\ pend[c].token = io[c].token /\ ~pend[c].over
      /\ pend' = [pend EXCEPT ![c] =
           [op |-> pend[c].op, token |-> r.token, over |-> TRUE]]
  BY <1>1, <1>3, EffectMaps
<1>5. io[c].op = "remove" /\ Readable' = NoToken
  BY DEF RemoveCredential, Readable, NoCredential, Whole
<1> QED
  BY <1>3, <1>4, <1>5 DEF Register!Delete, Register!Waits, Register!Over, pend

LEMMA TakenMaps ==
  ASSUME StoreIInv, NEW c \in Client, Taken(c)
  PROVE  Register!Leave({c})
<1>1. io \in [Client -> Operation] BY DEF StoreIInv, StoreInv, StoreTypeOK
<1>2. io' = [d \in Client |-> IF d \in {c} THEN Idle ELSE io[d]]
  BY <1>1 DEF Taken
<1> QED BY <1>2, LeaveMaps DEF Taken

\* A step of the store is a step of the register, or none.
LEMMA StepMaps == StoreIInv /\ [StoreNext]_storeVars => RegisterStep
<1> SUFFICES ASSUME StoreIInv, [StoreNext]_storeVars PROVE RegisterStep
  OBVIOUS
<1> USE DEF RegisterStep, Register!RegisterNext
<1>1. ASSUME NEW c \in Client,
             StartGet(c) \/ StartRemove(c) \/ \E t \in Token : StartSet(c, t)
      PROVE  RegisterStep
  BY <1>1, CallStepMaps
<1>2. ASSUME NEW c \in Client, StoreStep(c) PROVE RegisterStep
  <2>1. CASE ReadCredential(c) BY <2>1, ReadCredentialMaps
  <2>2. CASE WriteCredential(c) BY <2>2, WriteCredentialMaps
  <2>3. CASE RemoveCredential(c) BY <2>3, RemoveCredentialMaps
  <2>4. CASE ReadKey(c) \/ CreateKey(c) \/ FillKey(c) \/ RereadKey(c) \/ SetMode(c)
    <3> HIDE DEF RegisterStep
    <3> QED
      BY <2>4, ReadKeyMaps, CreateKeyMaps, FillKeyMaps, RereadKeyMaps, SetModeMaps
  <2> QED BY <1>2, <2>1, <2>2, <2>3, <2>4 DEF StoreStep
<1>3. ASSUME NEW c \in Client, Taken(c) PROVE RegisterStep
  BY <1>3, TakenMaps
<1>4. ASSUME NEW S \in SUBSET Client, StoreKilled(S) PROVE RegisterStep
  BY <1>4, LeaveMaps DEF StoreKilled
<1>5. CASE UNCHANGED storeVars
  <2>1. Readable' = Readable BY <1>5 DEF storeVars, Readable, Whole
  <2>2. pend' = pend BY <1>5 DEF storeVars, pend, AsPending
  <2> QED BY <2>1, <2>2
<1> HIDE DEF RegisterStep, Register!RegisterNext
<1> QED BY <1>1, <1>2, <1>3, <1>4, <1>5 DEF StoreNext

\* For any number of processes the token store is one atomic register.
THEOREM StoreIsRegister == StoreSpec => AtomicRegister
<1>1. StoreInit => Register!RegisterInit BY InitRegister
<1>2. StoreIInv /\ [StoreNext]_storeVars
        => [Register!RegisterNext]_Register!registerVars
  BY StepMaps DEF RegisterStep, Register!registerVars, pend
<1>3. StoreSpec => []StoreIInv
  <2>1. StoreInit => StoreIInv BY InitStoreInv
  <2>2. StoreIInv /\ [StoreNext]_storeVars => StoreIInv' BY NextStoreInv
  <2> QED BY <2>1, <2>2, PTL DEF StoreSpec
<1> QED BY <1>1, <1>2, <1>3, PTL DEF StoreSpec, AtomicRegister, Register!RegisterSpec
=============================================================================
