----------------------------- MODULE TokenStore -----------------------------
(***************************************************************************)
(* The encrypted credential file of one user and the master key it is      *)
(* encrypted with (persistent-token-store.ts), shared by all processes.    *)
(* A client is one call in one process; processes race to create the key.  *)
(*                                                                         *)
(* A file operation is one step. Reading a whole key and then the          *)
(* credential is one step too: a whole key never changes. A temporary file *)
(* has a name of its own, so writing it is part of the rename.             *)
(***************************************************************************)
EXTENDS Integers

CONSTANTS Client, Token, NoToken, NoKey, Partial, FirstKey

ASSUME StoreAssumption ==
  /\ NoToken \notin Token
  /\ NoKey \notin Client /\ Partial \notin Client /\ FirstKey \notin Client
  /\ NoKey # Partial /\ NoKey # FirstKey /\ Partial # FirstKey

VARIABLES
  keyFile,    \* master.key: absent, created but not written, or a key
  credFile,   \* the credential and the key it is encrypted with
  io          \* the store operation each client has under way

storeVars == <<keyFile, credFile, io>>

\* Each client has one candidate key, named after it; FirstKey was there before.
Keys == Client \cup {FirstKey}
Credential == [token : Token \cup {NoToken}, key : Keys \cup {NoKey}]
NoCredential == [token |-> NoToken, key |-> NoKey]

IoPcs == {"idle", "key", "create", "fill", "reread", "file", "chmod", "done",
          "threw"}
Operation == [op : {"none", "get", "set", "remove"}, at : IoPcs,
              token : Token \cup {NoToken}, key : Keys \cup {NoKey}]
Idle == [op |-> "none", at |-> "idle", token |-> NoToken, key |-> NoKey]

Whole == keyFile \notin {NoKey, Partial}

\* A credential is there only with the key it was encrypted with.
StoreInit ==
  /\ \/ keyFile = NoKey /\ credFile = NoCredential
     \/ /\ keyFile = FirstKey
        /\ \/ credFile = NoCredential
           \/ \E t \in Token : credFile = [token |-> t, key |-> FirstKey]
  /\ io = [c \in Client |-> Idle]

StoreTypeOK ==
  /\ keyFile \in Keys \cup {NoKey, Partial}
  /\ credFile \in Credential
  /\ io \in [Client -> Operation]

-----------------------------------------------------------------------------
Starts(c, op, t) ==
  io' = [io EXCEPT ![c] =
           [op |-> op, at |-> IF op = "remove" THEN "file" ELSE "key",
            token |-> t, key |-> NoKey]]

\* getPersistentToken, setPersistentToken, removePersistentToken are called.
StartGet(c) == io[c] = Idle /\ Starts(c, "get", NoToken) /\ UNCHANGED <<keyFile, credFile>>
StartSet(c, t) == io[c] = Idle /\ Starts(c, "set", t) /\ UNCHANGED <<keyFile, credFile>>
StartRemove(c) == io[c] = Idle /\ Starts(c, "remove", NoToken) /\ UNCHANGED <<keyFile, credFile>>

Moves(c, at) == io' = [io EXCEPT ![c].at = at]

\* A key of the wrong length: a read has found nothing, a write throws.
KeyFails(c) ==
  /\ Moves(c, IF io[c].op = "get" THEN "done" ELSE "threw")
  /\ UNCHANGED <<keyFile, credFile>>

\* getMasterKey reads the file before anybody has written the key.
ReadKey(c) ==
  /\ io[c].at = "key"
  /\ \/ keyFile = NoKey /\ Moves(c, "create") /\ UNCHANGED <<keyFile, credFile>>
     \/ keyFile = Partial /\ KeyFails(c)

\* writeFile with flag wx creates the file, or finds that another did.
Always == TRUE
Creates == keyFile = NoKey
CreateKey(c) ==
  /\ io[c].at = "create"
  /\ IF Creates
       THEN keyFile' = Partial /\ Moves(c, "fill")
       ELSE UNCHANGED keyFile /\ Moves(c, "reread")
  /\ UNCHANGED credFile

FillKey(c) ==
  /\ io[c].at = "fill"
  /\ keyFile' = c
  /\ io' = [io EXCEPT ![c].at = "file", ![c].key = c]
  /\ UNCHANGED credFile

RereadKey(c) ==
  /\ io[c].at = "reread"
  /\ \/ keyFile = Partial /\ KeyFails(c)
     \/ /\ Whole
        /\ io' = [io EXCEPT ![c].at = "file", ![c].key = keyFile]
        /\ UNCHANGED <<keyFile, credFile>>

HasKey(c) == io[c].at = "file" \/ (io[c].at = "key" /\ Whole)
KeyOf(c) == IF io[c].key # NoKey THEN io[c].key ELSE keyFile

\* A credential under another key, or none, reads as nothing.
Decrypted(c) == IF credFile.key = KeyOf(c) THEN credFile.token ELSE NoToken

ReadCredential(c) ==
  /\ io[c].op = "get" /\ HasKey(c)
  /\ io' = [io EXCEPT ![c].at = "done", ![c].token = Decrypted(c)]
  /\ UNCHANGED <<keyFile, credFile>>

\* The temporary file is renamed over the credential, or cannot be written and
\* is removed.
WriteCredential(c) ==
  /\ io[c].op = "set" /\ HasKey(c)
  /\ \/ credFile' = [token |-> io[c].token, key |-> KeyOf(c)] /\ Moves(c, "chmod")
     \/ UNCHANGED credFile /\ Moves(c, "threw")
  /\ UNCHANGED keyFile

\* The chmod after the rename throws when another process removed the file.
SetMode(c) ==
  /\ io[c].at = "chmod"
  /\ Moves(c, IF credFile = NoCredential THEN "threw" ELSE "done")
  /\ UNCHANGED <<keyFile, credFile>>

RemoveCredential(c) ==
  /\ io[c].op = "remove" /\ io[c].at = "file"
  /\ credFile' = NoCredential
  /\ Moves(c, "done")
  /\ UNCHANGED keyFile

StoreStep(c) ==
  \/ ReadKey(c) \/ CreateKey(c) \/ FillKey(c) \/ RereadKey(c)
  \/ ReadCredential(c) \/ WriteCredential(c) \/ SetMode(c) \/ RemoveCredential(c)

\* The caller takes the result.
Taken(c) ==
  /\ io[c].at \in {"done", "threw"}
  /\ io' = [io EXCEPT ![c] = Idle]
  /\ UNCHANGED <<keyFile, credFile>>

\* The processes of the clients S are killed: what they left stays.
StoreKilled(S) ==
  /\ io' = [c \in Client |-> IF c \in S THEN Idle ELSE io[c]]
  /\ UNCHANGED <<keyFile, credFile>>

StoreNext ==
  \/ \E c \in Client :
       \/ StartGet(c) \/ StartRemove(c) \/ \E t \in Token : StartSet(c, t)
       \/ StoreStep(c) \/ Taken(c)
  \/ \E S \in SUBSET Client : StoreKilled(S)

StoreSpec == StoreInit /\ [][StoreNext]_storeVars

-----------------------------------------------------------------------------
\* There is one key for ever: whoever creates it is alone, every process that
\* works has read it whole, and the credential is encrypted with it. What
\* getMasterKey calls "atomically create" comes down to this, and to nobody
\* being killed between its two steps.
OneKey ==
  /\ credFile # NoCredential =>
       Whole /\ credFile.key = keyFile /\ credFile.token \in Token
  /\ \A c \in Client :
       /\ io[c].key # NoKey => keyFile = io[c].key
       /\ io[c].at = "fill" => keyFile = Partial
       /\ \A d \in Client : io[c].at = "fill" /\ io[d].at = "fill" => c = d

StoreInv == StoreTypeOK /\ OneKey

\* The register's value: what any process that reads now gets.
Readable == IF Whole /\ credFile.key = keyFile THEN credFile.token ELSE NoToken

\* The operation took effect, or failed.
Passed == {"chmod", "done", "threw"}
AsPending(c) ==
  [op |-> io[c].op, token |-> io[c].token, over |-> io[c].at \in Passed]

Register == INSTANCE TokenRegister WITH
  value <- Readable,
  pending <- [c \in Client |-> AsPending(c)]

\* Whatever processes race to create the key, replace the credential and read
\* it, a read finds the last credential written, whole; no key replaces the key
\* of a credential; a process killed in between changes nothing.
AtomicRegister == Register!RegisterSpec
=============================================================================
