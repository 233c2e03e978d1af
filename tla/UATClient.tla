----------------------------- MODULE UATClient -----------------------------
(***************************************************************************)
(* Tool calls that need one user's access token (uat-client-shim.ts):      *)
(* each call reads the stored token, refreshes it under the directory lock *)
(* when it is about to expire or the API rejected it, and calls the API.   *)
(*                                                                         *)
(* A client is one call, a worker one Node process; the clients of a       *)
(* worker run concurrently in it and share refreshLocks and the token the  *)
(* host seeded in memory. Token n stands for the n-th pair of access and   *)
(* refresh token the provider issued. Clocks only show in what grew old.   *)
(*                                                                         *)
(* The persistent store is the atomic register of TokenRegister, which     *)
(* TokenStore implements; an access takes effect in the step of its client *)
(* that goes on with its outcome, as what follows is local to the process. *)
(***************************************************************************)
EXTENDS RefreshLock

CONSTANTS
  Client, NoClient,
  WorkerOf,     \* the process a client runs in
  Token, NoToken,
  MaxFaults     \* bound: network errors, rejected tokens, failed writes, kills
                \* and tokens that grow old, all together

ASSUME ClientAssumption ==
  /\ WorkerOf \in [Client -> Worker]
  /\ NoClient \notin Client
  /\ NoToken \notin Token /\ Token # {}
  /\ MaxFaults \in Nat

VARIABLES
  stored,     \* what the persistent store holds
  call,       \* where each client is in callWithUAT
  inflight,   \* refreshLocks: the client whose refresh a worker runs
  eph,        \* ephemeralTokens: the token the host seeded in a worker
  provider,   \* the tokens issued; those whose refresh token still works
  clock,      \* tokens whose access token is about to end, whose refresh token
              \* ended
  faults,
  lost        \* history: a rotated token never reached the store

clientVars == <<stored, call, inflight, eph, provider, clock, faults, lost>>
vars == <<lockVars, clientVars>>

CallPcs == {"idle", "join", "joined", "lock", "post", "removing", "answer",
            "chmod", "unlock", "api", "put", "over"}
Results == {"none", "ok", "need_auth", "error"}
NoCall == [pc |-> "idle", seen |-> NoToken, tried |-> NoToken, out |-> NoToken,
           used |-> NoToken, refused |-> NoToken, force |-> FALSE,
           again |-> FALSE, failed |-> FALSE, joined |-> FALSE, result |-> "none"]

Tokens == Token \cup {NoToken}
CallStates ==
  [pc : CallPcs, seen : Tokens, tried : Tokens, out : Tokens, used : Tokens,
   refused : Tokens, force : BOOLEAN, again : BOOLEAN, failed : BOOLEAN,
   joined : BOOLEAN, result : Results]

ClientInit ==
  /\ stored \in {NoToken, CHOOSE t \in Token : TRUE}
  /\ call = [c \in Client |-> NoCall]
  /\ inflight = [w \in Worker |-> NoClient]
  /\ eph = [w \in Worker |-> NoToken]
  /\ provider = [issued |-> {stored} \ {NoToken}, live |-> {stored} \ {NoToken}]
  /\ \E a \in SUBSET provider.issued : \E l \in SUBSET a :
       clock = [aged |-> a, lapsed |-> l]
  /\ faults = 0
  /\ lost = FALSE

ClientTypeOK ==
  /\ stored \in Tokens
  /\ call \in [Client -> CallStates]
  /\ inflight \in [Worker -> Client \cup {NoClient}]
  /\ eph \in [Worker -> Tokens]
  /\ provider \in [issued : SUBSET Token, live : SUBSET Token]
  /\ clock \in [aged : SUBSET Token, lapsed : SUBSET Token]
  /\ faults \in 0..MaxFaults
  /\ lost \in BOOLEAN

\* tokenStatus. A token grows old five minutes before its end.
Status(t) ==
  IF t \notin clock.aged THEN "valid"
  ELSE IF t \notin clock.lapsed THEN "needs_refresh" ELSE "expired"

NextToken == CHOOSE t \in Token \ provider.issued : TRUE
Issues(live) ==
  provider' = [issued |-> provider.issued \cup {NextToken},
               live |-> live \cup {NextToken}]

Faulty == faults < MaxFaults /\ faults' = faults + 1

-----------------------------------------------------------------------------
(* The steps of a call. Each makes one access to what processes share, or   *)
(* gets one answer of the network, and does all that follows in its process.*)

In(c, pc) == call[c].pc = pc
Becomes(c, r) == call' = [call EXCEPT ![c] = r]
Over(result) == [NoCall EXCEPT !.pc = "over", !.result = result]
Ends(c, result) == Becomes(c, Over(result))

\* getStoredToken: the token in memory hides the stored one.
Found(c) == IF eph[WorkerOf[c]] # NoToken THEN eph[WorkerOf[c]] ELSE stored

\* refreshWithLock reads it again once it has the lock.
SeenBefore(c) == call[c].seen
Reread(c) == Found(c)

\* refreshWithLock: one refresh per worker, the others wait for it.
EntersRefresh(c, r) ==
  LET w == WorkerOf[c] IN
  IF inflight[w] # NoClient
    THEN /\ Becomes(c, [r EXCEPT !.pc = "join"])
         /\ UNCHANGED <<lockVars, inflight>>
    ELSE /\ Becomes(c, [r EXCEPT !.pc = "lock"])
         /\ inflight' = [inflight EXCEPT ![w] = c]
         /\ Contend(w)

ApiCall(c, t, joined) ==
  [NoCall EXCEPT !.pc = "api", !.used = t, !.refused = call[c].refused,
                 !.joined = joined]

\* callWithUAT calls getValidAccessToken, which reads the stored token.
Begin(c) ==
  LET t == Found(c) IN
  /\ In(c, "idle") /\ Alive(WorkerOf[c])
  /\ \/ /\ t = NoToken
        /\ Ends(c, "need_auth")
        /\ UNCHANGED <<lockVars, inflight>>
     \/ /\ t # NoToken /\ Status(t) = "valid"
        /\ Becomes(c, ApiCall(c, t, FALSE))
        /\ UNCHANGED <<lockVars, inflight>>
     \/ /\ t # NoToken /\ Status(t) # "valid"
        /\ EntersRefresh(c, [call[c] EXCEPT !.seen = t])
  /\ UNCHANGED <<stored, eph, provider, clock, faults, lost>>

\* The worker waits for the lock.
WorksForLock(c) ==
  LET w == WorkerOf[c] IN
  /\ In(c, "lock")
  /\ \/ /\ Make(w) \/ Own(w) \/ Bail(w) \/ Judge(w) \/ Remove(w)
        /\ UNCHANGED faults
     \/ (MakeFails(w) \/ OwnFails(w)) /\ Faulty
  /\ UNCHANGED <<stored, call, inflight, eph, provider, clock, lost>>

Unlocks(c, t) == Becomes(c, [call[c] EXCEPT !.pc = "unlock", !.out = t])
Throws(c) ==
  Becomes(c, [call[c] EXCEPT !.pc = "unlock", !.out = NoToken, !.failed = TRUE])

\* removeStoredToken in a refresh.
Drops(c, t) ==
  /\ Becomes(c, [call[c] EXCEPT !.pc = "removing", !.tried = t])
  /\ eph' = [eph EXCEPT ![WorkerOf[c]] = NoToken]

\* With the lock, the token is read again: there is none by now; another worker
\* rotated it, or it needs no refresh; it is past its end and is removed; or it
\* is refreshed. Removing it clears the memory at once, the file later.
Decide(c) ==
  LET t == Reread(c)
      keep == \/ t # call[c].seen /\ Status(t) # "expired"
              \/ ~call[c].force /\ Status(t) = "valid" IN
  /\ In(c, "lock") /\ At(WorkerOf[c], "held")
  /\ \/ /\ t = NoToken \/ keep
        /\ Unlocks(c, t)
        /\ UNCHANGED eph
     \/ /\ t # NoToken /\ ~keep /\ Status(t) = "expired"
        /\ Drops(c, t)
     \/ /\ t # NoToken /\ ~keep /\ Status(t) # "expired"
        /\ Becomes(c, [call[c] EXCEPT !.pc = "post", !.tried = t])
        /\ UNCHANGED eph
  /\ UNCHANGED <<lockVars, stored, inflight, provider, clock, faults, lost>>

\* The provider answers the POST: it rotates the token, which it accepts once;
\* refuses it, which removes the token whichever is stored by now; fails, and is
\* asked a second time; or cannot be reached, as when it has issued all of Token.
Post(c) ==
  LET t == call[c].tried IN
  /\ In(c, "post")
  /\ \/ /\ t \in provider.live /\ provider.issued # Token
        /\ Issues(provider.live \ {t})
        /\ Becomes(c, [call[c] EXCEPT !.pc = "answer", !.out = NextToken])
        /\ UNCHANGED <<eph, faults>>
     \/ /\ \/ t \notin provider.live /\ UNCHANGED faults
           \/ call[c].again /\ Faulty
        /\ Drops(c, t)
        /\ UNCHANGED provider
     \/ /\ ~call[c].again /\ Faulty
        /\ Becomes(c, [call[c] EXCEPT !.again = TRUE])
        /\ UNCHANGED <<eph, provider>>
     \/ /\ Faulty \/ (provider.issued = Token /\ UNCHANGED faults)
        /\ Throws(c)
        /\ UNCHANGED <<eph, provider>>
  /\ UNCHANGED <<lockVars, stored, inflight, clock, lost>>

Removed(c) ==
  /\ In(c, "removing")
  /\ stored' = NoToken
  /\ Unlocks(c, NoToken)
  /\ UNCHANGED <<lockVars, inflight, eph, provider, clock, faults, lost>>

KeptOld(c) == call[c].tried
Rotated(c) == call[c].out

\* The rotated token arrives and replaces what is stored; or the answer is lost
\* or cannot be written.
Answer(c) ==
  /\ In(c, "answer")
  /\ \/ /\ stored' = Rotated(c)
        /\ Becomes(c, [call[c] EXCEPT !.pc = "chmod"])
        /\ UNCHANGED <<faults, lost>>
     \/ /\ Faulty
        /\ Throws(c)
        /\ lost' = TRUE
        /\ UNCHANGED stored
  /\ UNCHANGED <<lockVars, inflight, eph, provider, clock>>

\* The write throws when another process removed the file just written.
Stored(c) ==
  /\ In(c, "chmod")
  /\ IF stored = NoToken THEN Throws(c) ELSE Unlocks(c, call[c].out)
  /\ UNCHANGED <<lockVars, stored, inflight, eph, provider, clock, faults, lost>>

LooksAtLock(c) ==
  /\ In(c, "unlock")
  /\ CheckOwner(WorkerOf[c]) /\ lk'[WorkerOf[c]] = "unlink"
  /\ UNCHANGED clientVars

\* The promise of refreshWithLock settles: the client that ran the refresh goes
\* on, those that waited for it read the store, and all of them fail if it threw.
Settles(c) ==
  LET w == WorkerOf[c]
      Waiting == {d \in Client : WorkerOf[d] = w /\ In(d, "join")}
      failed == call[c].failed \/ At(w, "threw")
      mine == IF failed THEN Over("error")
              ELSE IF call[c].out = NoToken THEN Over("need_auth")
              ELSE ApiCall(c, call[c].out, FALSE) IN
  /\ inflight' = [inflight EXCEPT ![w] = NoClient]
  /\ call' = [d \in Client |->
       IF d = c THEN mine
       ELSE IF d \notin Waiting THEN call[d]
       ELSE IF failed THEN Over("error")
       ELSE [call[d] EXCEPT !.pc = "joined"]]

\* The lock is released, or was never taken.
Leaves(c) ==
  LET w == WorkerOf[c] IN
  /\ \/ In(c, "unlock") /\ Unlink(w)
     \/ In(c, "unlock") /\ CheckOwner(w) /\ lk'[w] = "idle"
     \/ In(c, "lock") /\ Caught(w)
  /\ Settles(c)
  /\ UNCHANGED <<stored, eph, provider, clock, faults, lost>>

Joined(c) ==
  /\ In(c, "joined")
  /\ IF Found(c) = NoToken THEN Ends(c, "need_auth")
                           ELSE Becomes(c, ApiCall(c, Found(c), TRUE))
  /\ UNCHANGED <<lockVars, stored, inflight, eph, provider, clock, faults, lost>>

\* The API takes the token or fails for a reason of its own.
Api(c) ==
  /\ In(c, "api")
  /\ \E result \in {"ok", "error"} : Ends(c, result)
  /\ UNCHANGED <<lockVars, stored, inflight, eph, provider, clock, faults, lost>>

\* The API rejects the token: once, the token is read anew and refreshed,
\* whatever its age.
Unforced(c, t) == [NoCall EXCEPT !.seen = t, !.refused = call[c].used]
Retry(c, t) == [NoCall EXCEPT !.seen = t, !.force = TRUE, !.refused = call[c].used]
Rejected(c) ==
  LET t == Found(c) IN
  /\ In(c, "api") /\ call[c].refused = NoToken
  /\ Faulty
  /\ IF t = NoToken
       THEN Ends(c, "need_auth") /\ UNCHANGED <<lockVars, inflight>>
       ELSE EntersRefresh(c, Retry(c, t))
  /\ UNCHANGED <<stored, eph, provider, clock, lost>>

CallStep(c) ==
  \/ WorksForLock(c) \/ Decide(c) \/ Post(c) \/ Removed(c) \/ Answer(c)
  \/ Stored(c) \/ LooksAtLock(c) \/ Leaves(c) \/ Joined(c) \/ Api(c) \/ Rejected(c)

-----------------------------------------------------------------------------
(* Operations on the store that are no part of a call, and take no lock.   *)

Operates(c) == In(c, "idle") /\ Alive(WorkerOf[c])

\* revokeUAT, and the host's token_remove.
Revoke(c) ==
  /\ Operates(c)
  /\ stored' = NoToken
  /\ eph' = [eph EXCEPT ![WorkerOf[c]] = NoToken]
  /\ Ends(c, "ok")
  /\ UNCHANGED <<lockVars, inflight, provider, clock, faults, lost>>

\* The host's token_set, of a grant the user just gave.
SetToken(c) ==
  /\ Operates(c)
  /\ provider.issued # Token
  /\ Issues(provider.live)
  /\ \/ /\ stored' = NextToken
        /\ Becomes(c, [call[c] EXCEPT !.pc = "put"])
        /\ UNCHANGED faults
     \/ /\ Faulty
        /\ Ends(c, "error")
        /\ UNCHANGED stored
  /\ UNCHANGED <<lockVars, inflight, eph, clock, lost>>

SetEnds(c) ==
  /\ In(c, "put")
  /\ Ends(c, IF stored = NoToken THEN "error" ELSE "ok")
  /\ UNCHANGED <<lockVars, stored, inflight, eph, provider, clock, faults, lost>>

\* The host's token_get.
GetToken(c) ==
  /\ Operates(c)
  /\ Ends(c, "ok")
  /\ UNCHANGED <<lockVars, stored, inflight, eph, provider, clock, faults, lost>>

-----------------------------------------------------------------------------
(* Time, and the end of a process.                                         *)

Ages(t) == /\ t \in provider.issued \ clock.aged
           /\ clock' = [clock EXCEPT !.aged = @ \cup {t}]
Lapses(t) == /\ t \in clock.aged \ clock.lapsed
             /\ clock' = [clock EXCEPT !.lapsed = @ \cup {t}]

TimePasses(t) ==
  /\ Ages(t) \/ Lapses(t)
  /\ Faulty
  /\ UNCHANGED <<lockVars, stored, call, inflight, eph, provider, lost>>

LockGrowsOld == GrowOld /\ UNCHANGED clientVars

ClientsOf(w) == {c \in Client : WorkerOf[c] = w}
Running(c) == call[c].pc \notin {"idle", "over"}

\* A rotated token that its client has not stored yet is gone with the process.
ProcessGone(w) ==
  /\ Die(w)
  /\ inflight' = [inflight EXCEPT ![w] = NoClient]
  /\ eph' = [eph EXCEPT ![w] = NoToken]
  /\ call' = [c \in Client |-> IF WorkerOf[c] = w THEN NoCall ELSE call[c]]
  /\ lost' = (lost \/ \E c \in ClientsOf(w) : In(c, "answer"))
  /\ UNCHANGED <<stored, provider, clock>>
=============================================================================
