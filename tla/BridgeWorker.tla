---------------------------- MODULE BridgeWorker ----------------------------
(***************************************************************************)
(* The one-shot Node processes of the tool bridge (bridge-entry.ts): each  *)
(* reads one request, runs one tool or one operation on the stored token,  *)
(* writes one reply and ends when nothing is left to do in it. The Python  *)
(* host may kill it at its deadline. All of them work for one user of one  *)
(* application.                                                            *)
(***************************************************************************)
EXTENDS UATClient

CONSTANTS
  MayAsk,       \* the requests the host may send to a worker
  Single        \* the client that runs a worker's token operation

\* "seeded" is an invocation with a token of the host's; the invocation of the
\* tool that revokes the stored token counts as a token_remove.
Requests == {"invoke", "seeded", "list", "token_get", "token_set", "token_remove",
             "invalid"}

ASSUME RequestAssumption ==
  /\ MayAsk \in [Worker -> SUBSET Requests]
  /\ Single \in [Worker -> Client]
  /\ \A w \in Worker : WorkerOf[Single[w]] = w

VARIABLES
  request,    \* what each worker was asked
  reply       \* what it wrote to standard output

workerVars == <<request, reply>>
allVars == <<vars, workerVars>>

\* What a tool's error becomes (handleInvokeErrorWithAutoAuth): a follow-up, for
\* which the host asks the user or the owner of the application, or a result.
Errors == {"AppScopeMissingError", "AppScopeCheckFailedError",
           "NeedAuthorizationError", "UserAuthRequiredError",
           "UserScopeInsufficientError", "OwnerAccessDeniedError", "Error"}
UnknownKind(e) == IF e \in {"OwnerAccessDeniedError", "Error"} THEN e ELSE "follow_up"
FollowUp(e) == IF e \in {"OwnerAccessDeniedError", "Error"} THEN "result" ELSE "follow_up"

Replies == {"none", "result", "follow_up", "bridge_error"}

WorkerInit ==
  /\ request = [w \in Worker |-> "none"]
  /\ reply = [w \in Worker |-> "none"]

Init == LockInit /\ ClientInit /\ WorkerInit

WorkerTypeOK ==
  /\ request \in [Worker -> Requests \cup {"none"}]
  /\ reply \in [Worker -> Replies]

TypeOK == LockTypeOK /\ ClientTypeOK /\ WorkerTypeOK

-----------------------------------------------------------------------------
Asked(w, r) ==
  /\ request[w] = "none" /\ Alive(w)
  /\ r \in MayAsk[w]
  /\ request' = [request EXCEPT ![w] = r]

Answers(w, kind) == reply' = [reply EXCEPT ![w] = kind]

\* The tool runs, with the stored token.
Invoke(w) ==
  /\ Asked(w, "invoke")
  /\ UNCHANGED <<vars, reply>>

\* seedUserToken: the host gives a token for this process alone, one issued before
\* that a worker does not still wait for, or a new one, which may come without a
\* refresh token.
InvokeSeeded(w) ==
  /\ Asked(w, "seeded")
  /\ \/ \E t \in provider.issued :
          /\ \A c \in Client : In(c, "answer") => call[c].out # t
          /\ eph' = [eph EXCEPT ![w] = t] /\ UNCHANGED provider
     \/ /\ provider.issued # Token
        /\ eph' = [eph EXCEPT ![w] = NextToken]
        /\ \/ Issues(provider.live)
           \/ provider' = [provider EXCEPT !.issued = @ \cup {NextToken}]
  /\ UNCHANGED <<lockVars, stored, call, inflight, clock, faults, lost, reply>>

\* handleTokenOperation.
TokenOperation(w) ==
  /\ \/ Asked(w, "token_get") /\ GetToken(Single[w])
     \/ Asked(w, "token_set") /\ SetToken(Single[w])
     \/ Asked(w, "token_remove") /\ Revoke(Single[w])
  /\ UNCHANGED reply

\* The list of tools, or a request that is refused: empty, without a tool the
\* bundle has, or without a credential.
AnswerAtOnce(w) ==
  /\ \/ Asked(w, "list") /\ Answers(w, "result")
     \/ Asked(w, "invalid") /\ Answers(w, "bridge_error")
  /\ UNCHANGED vars

Invoked(w) == request[w] \in {"invoke", "seeded"}

\* The tool makes a call with the user's token.
ToolCalls(c) ==
  /\ Invoked(WorkerOf[c]) /\ reply[WorkerOf[c]] = "none"
  /\ Begin(c)
  /\ UNCHANGED workerVars

ClientStep(c) == (CallStep(c) \/ SetEnds(c)) /\ UNCHANGED workerVars

Ended(w, result) == \E c \in ClientsOf(w) : call[c].result = result
Busy(w) == \E c \in ClientsOf(w) : Running(c)

\* Most tools make a result of their error, others throw it.
Failures == {"bridge_error"} \cup {FollowUp(e) : e \in Errors}

\* The tool returns when its calls have, or fails when one of them did, while
\* others may still run.
ToolEnds(w) ==
  /\ Invoked(w) /\ Alive(w) /\ reply[w] = "none"
  /\ \/ ~Busy(w) /\ \E kind \in {"result"} \cup Failures : Answers(w, kind)
     \/ Ended(w, "need_auth") /\ Answers(w, FollowUp("NeedAuthorizationError"))
     \/ Ended(w, "error") /\ \E kind \in Failures : Answers(w, kind)
  /\ UNCHANGED <<vars, request>>

OperationAnswered(w) ==
  /\ request[w] \in {"token_get", "token_set", "token_remove"}
  /\ Alive(w) /\ reply[w] = "none" /\ ~Busy(w)
  /\ Answers(w, IF Ended(w, "error") THEN "bridge_error" ELSE "result")
  /\ UNCHANGED <<vars, request>>

Gone(w) ==
  /\ ProcessGone(w)
  /\ request' = [request EXCEPT ![w] = "none"]
  /\ Answers(w, "none")

\* The process ends by itself once it has replied and no call is left; the host,
\* which waited for that, takes the reply.
Exit(w) ==
  /\ reply[w] # "none" /\ ~Busy(w) /\ At(w, "idle")
  /\ Gone(w)
  /\ UNCHANGED faults

\* The host's deadline passes. A kill of an idle process differs from its end
\* only in the reply.
Kill(w) ==
  /\ Busy(w)
  /\ Gone(w)
  /\ Faulty

WorkerStep(w) == ToolEnds(w) \/ OperationAnswered(w) \/ Exit(w)

Next ==
  \/ \E w \in Worker :
       \/ Invoke(w) \/ InvokeSeeded(w) \/ TokenOperation(w) \/ AnswerAtOnce(w)
       \/ WorkerStep(w) \/ Kill(w)
  \/ \E c \in Client : ToolCalls(c) \/ ClientStep(c)
  \/ \E t \in Token : TimePasses(t) /\ UNCHANGED workerVars
  \/ LockGrowsOld /\ UNCHANGED workerVars

\* A process that runs gets on, the network answers or fails, and a lock that
\* nobody alive holds grows old. Nobody has to ask, call or kill.
Fairness ==
  /\ \A w \in Worker :
       WF_allVars(WorkerStep(w) \/ \E c \in ClientsOf(w) : ClientStep(c))
  /\ WF_allVars(LockGrowsOld /\ UNCHANGED workerVars)

Spec == Init /\ [][Next]_allVars /\ Fairness

-----------------------------------------------------------------------------
\* A refresh token is posted to the provider while it still works: two refreshes
\* never spend one token ("Concurrent one-shot workers consume a rotating
\* refresh token once"), unless a live lock was removed as stale, a rotated
\* token died with its process or its write, or the token is the host's own,
\* which the refreshed one does not replace in memory.
SpentOnce ==
  \A c \in Client : In(c, "post") =>
    \/ call[c].tried \in provider.live
    \/ stolen \/ lost
    \/ eph[WorkerOf[c]] # NoToken

\* The stored token can be refreshed, or the refresh that spent it is about to
\* replace it: no interleaving of workers, grants and removals leaves the user
\* with a spent one.
StoredUsable ==
  stored = NoToken \/ stolen \/ lost \/ stored \in provider.live
    \/ \E c \in Client : In(c, "answer") /\ call[c].tried = stored

\* A call the API rejected is tried again with another token than the one
\* rejected, unless it only waited for the refresh of another call.
RetriesWithAnother ==
  \A c \in Client :
    In(c, "api") /\ call[c].refused # NoToken /\ ~call[c].joined =>
      call[c].used # call[c].refused

\* Once workers were asked something, all of them come to an end: no lock left
\* by a killed one and no refresh another call waits for holds one for ever.
WorkersEnd ==
  (\E w \in Worker : request[w] # "none") ~> (\A w \in Worker : request[w] = "none")
=============================================================================
