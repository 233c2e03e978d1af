------------------------- MODULE BridgeWorkerProofs -------------------------
(***************************************************************************)
(* Proofs about the directory lock (RefreshLock) and about the workers     *)
(* that use it (BridgeWorker).  Whatever workers contend, fail and are     *)
(* killed at any point, only the removal of a lock judged stale earlier    *)
(* lets two of them in, and workers that end leave no lock behind.  The    *)
(* bridge's workers use the lock as RefreshLock says, so that this holds   *)
(* of them; and the lock makes a refresh token be spent once.              *)
(***************************************************************************)
EXTENDS BridgeWorker, TLAPS

-----------------------------------------------------------------------------
(* The directory lock, for any number of workers.                          *)

\* While no live lock was removed, what a worker believes to have is its own:
\* the directory it made and, once it wrote it, the owner.json in it.
Believes ==
  ~stolen => \A w \in Worker :
    /\ lk[w] = "own" => maker = w /\ owner = NoWorker
    /\ lk[w] \in {"held", "unlink"} => maker = w /\ owner = w

EmptyWhenGone == ~Exists => owner = NoWorker

LockInv == LockTypeOK /\ EmptyWhenGone /\ NoneLeft /\ Believes

\* At the start no worker has anything.
LEMMA InitInv == LockInit => LockInv
<1> USE NoWorkerAssumption
<1> QED
  BY DEF LockInit, LockInv, LockTypeOK, LockPcs, EmptyWhenGone, NoneLeft, Exists,
         Believes

\* The types are kept by a step of a worker.
LEMMA StepType ==
  ASSUME LockTypeOK, NEW w \in Worker, LockStep(w)
  PROVE  LockTypeOK'
<1> USE DEF LockTypeOK, LockPcs, Goes, At, UnchangedDirectory, RemoveDirectory
<1>1. CASE Contend(w) BY <1>1 DEF Contend
<1>2. CASE Make(w) BY <1>2 DEF Make, Exists, Handles
<1>3. CASE Own(w) BY <1>3 DEF Own, Exists, Handles
<1>4. CASE MakeFails(w) \/ OwnFails(w)
  BY <1>4 DEF MakeFails, OwnFails, Handles
<1>5. CASE Bail(w) BY <1>5 DEF Bail, Removes, Owns
<1>6. CASE Judge(w) BY <1>6 DEF Judge
<1>7. CASE Remove(w) BY <1>7 DEF Remove, Removes, Owns
<1>8. CASE CheckOwner(w) BY <1>8 DEF CheckOwner
<1>9. CASE Unlink(w) BY <1>9 DEF Unlink
<1>10. CASE Caught(w) BY <1>10 DEF Caught
<1>11. CASE Die(w) BY <1>11 DEF Die
<1> QED
  BY <1>1, <1>2, <1>3, <1>4, <1>5, <1>6, <1>7, <1>8, <1>9, <1>10, <1>11 DEF LockStep

\* A directory that exists stays in the hands of a worker that knows of it, or
\* of one that was killed.
LEMMA StepLeft ==
  ASSUME LockInv, NEW w \in Worker, LockStep(w)
  PROVE  EmptyWhenGone' /\ NoneLeft'
<1> USE NoWorkerAssumption
    DEF LockInv, LockTypeOK, EmptyWhenGone, NoneLeft, Exists, Goes, At,
        UnchangedDirectory, RemoveDirectory
<1>1. CASE Contend(w) BY <1>1 DEF Contend
<1>2. CASE Make(w) BY <1>2 DEF Make, Handles
<1>3. CASE Own(w) BY <1>3 DEF Own, Handles
<1>4. CASE MakeFails(w) \/ OwnFails(w)
  BY <1>4 DEF MakeFails, OwnFails, Handles
<1>5. CASE Bail(w) BY <1>5 DEF Bail, Removes, Owns
<1>6. CASE Judge(w) BY <1>6 DEF Judge
<1>7. CASE Remove(w) BY <1>7 DEF Remove, Removes, Owns
<1>8. CASE CheckOwner(w) BY <1>8 DEF CheckOwner
<1>9. CASE Unlink(w) BY <1>9 DEF Unlink
<1>10. CASE Caught(w) BY <1>10 DEF Caught
<1>11. CASE Die(w) BY <1>11 DEF Die, Alive
<1> QED
  BY <1>1, <1>2, <1>3, <1>4, <1>5, <1>6, <1>7, <1>8, <1>9, <1>10, <1>11 DEF LockStep

\* No step but the removal of a live lock makes a worker's belief wrong.
LEMMA StepBelieves ==
  ASSUME LockInv, NEW w \in Worker, LockStep(w)
  PROVE  Believes'
<1> SUFFICES ASSUME ~stolen', NEW v \in Worker
             PROVE  /\ lk'[v] = "own" => maker' = v /\ owner' = NoWorker
                    /\ lk'[v] \in {"held", "unlink"} => maker' = v /\ owner' = v
  BY DEF Believes
<1> USE NoWorkerAssumption
    DEF LockInv, LockTypeOK, EmptyWhenGone, Exists, Goes, At, UnchangedDirectory,
        RemoveDirectory, Believes
<1>1. CASE Contend(w) BY <1>1 DEF Contend
<1>2. CASE Make(w) BY <1>2 DEF Make, Handles
<1>3. CASE Own(w) BY <1>3 DEF Own, Handles
<1>4. CASE MakeFails(w) \/ OwnFails(w)
  BY <1>4 DEF MakeFails, OwnFails, Handles
<1>5. CASE Bail(w) BY <1>5 DEF Bail, Removes, Owns
<1>6. CASE Judge(w) BY <1>6 DEF Judge
<1>7. CASE Remove(w) BY <1>7 DEF Remove, Removes, Owns
<1>8. CASE CheckOwner(w) BY <1>8 DEF CheckOwner
<1>9. CASE Unlink(w) BY <1>9 DEF Unlink
<1>10. CASE Caught(w) BY <1>10 DEF Caught
<1>11. CASE Die(w) BY <1>11 DEF Die, Alive
<1> QED
  BY <1>1, <1>2, <1>3, <1>4, <1>5, <1>6, <1>7, <1>8, <1>9, <1>10, <1>11 DEF LockStep

LEMMA GrowOldInv == LockInv /\ GrowOld => LockInv'
BY DEF GrowOld, LockInv, LockTypeOK, EmptyWhenGone, NoneLeft, Exists, Believes

LEMMA StutterInv == LockInv /\ UNCHANGED lockVars => LockInv'
BY DEF lockVars, LockInv, LockTypeOK, EmptyWhenGone, NoneLeft, Exists, Believes

\* The invariant is inductive.
LEMMA NextInv == LockInv /\ [LockNext]_lockVars => LockInv'
<1> SUFFICES ASSUME LockInv, [LockNext]_lockVars PROVE LockInv'
  OBVIOUS
<1>1. CASE GrowOld BY <1>1, GrowOldInv
<1>2. ASSUME NEW w \in Worker, LockStep(w) PROVE LockInv'
  BY <1>2, StepType, StepLeft, StepBelieves DEF LockInv
<1>3. CASE UNCHANGED lockVars BY <1>3, StutterInv
<1> QED BY <1>1, <1>2, <1>3 DEF LockNext

\* Two holders would both be the one owner.
LEMMA InvSerial == LockInv => SerialUnlessStolen
BY DEF LockInv, Believes, SerialUnlessStolen, Holding

\* The inductive invariant holds in every reachable state.
THEOREM LockInvariant == LockSpec => []LockInv
<1>1. LockInit => LockInv BY InitInv
<1>2. LockInv /\ [LockNext]_lockVars => LockInv' BY NextInv
<1> QED BY <1>1, <1>2, PTL DEF LockSpec

\* For any set of workers, only the removal of a live lock as stale lets two of
\* them refresh at once (acquireRefreshLock and its release).
THEOREM LockSerializes == LockSpec => []SerialUnlessStolen
<1>1. LockInv => SerialUnlessStolen BY InvSerial
<1> QED BY <1>1, LockInvariant, PTL

\* For any set of workers, a directory without a live owner that knows of it is
\* one of a killed worker.
THEOREM LockNoneLeft == LockSpec => []NoneLeft
<1>1. LockInv => NoneLeft BY DEF LockInv
<1> QED BY <1>1, LockInvariant, PTL


-----------------------------------------------------------------------------
(* The workers are users of the lock.                                      *)

LEMMA LockStepOf ==
  ASSUME NEW w \in Worker, LockStep(w)
  PROVE  [LockNext]_lockVars
BY DEF LockNext

LEMMA EntersLock ==
  ASSUME NEW c \in Client, NEW r, EntersRefresh(c, r)
  PROVE  [LockNext]_lockVars
<1>1. WorkerOf[c] \in Worker BY ClientAssumption
<1>2. CASE Contend(WorkerOf[c]) BY <1>1, <1>2, LockStepOf DEF LockStep
<1>3. CASE UNCHANGED lockVars BY <1>3
<1> QED BY <1>2, <1>3 DEF EntersRefresh

\* Every step of a call is a step of the lock or leaves it alone.
LEMMA CallLock ==
  ASSUME NEW c \in Client, CallStep(c)
  PROVE  [LockNext]_lockVars
<1> DEFINE w == WorkerOf[c]
<1>1. w \in Worker BY ClientAssumption
<1>2. ASSUME LockStep(w) PROVE [LockNext]_lockVars BY <1>1, <1>2, LockStepOf
<1>3. CASE WorksForLock(c) BY <1>2, <1>3 DEF WorksForLock, LockStep
<1>4. CASE LooksAtLock(c) BY <1>2, <1>4 DEF LooksAtLock, LockStep
<1>5. CASE Leaves(c) BY <1>2, <1>5 DEF Leaves, LockStep
<1>6. CASE Rejected(c)
  <2>1. (\E r : EntersRefresh(c, r)) \/ UNCHANGED lockVars BY <1>6 DEF Rejected
  <2> QED BY <2>1, EntersLock
<1>7. CASE Decide(c) \/ Post(c) \/ Removed(c) \/ Answer(c) \/ Stored(c)
           \/ Joined(c) \/ Api(c)
  BY <1>7 DEF Decide, Post, Removed, Answer, Stored, Joined, Api
<1> QED BY <1>3, <1>4, <1>5, <1>6, <1>7 DEF CallStep

LEMMA GoneLock ==
  ASSUME NEW w \in Worker, Gone(w)
  PROVE  [LockNext]_lockVars
BY LockStepOf DEF Gone, ProcessGone, LockStep

LEMMA NextLock == [Next]_allVars => [LockNext]_lockVars
<1> SUFFICES ASSUME [Next]_allVars PROVE [LockNext]_lockVars
  OBVIOUS
<1>1. ASSUME NEW w \in Worker, Invoke(w) \/ InvokeSeeded(w) \/ AnswerAtOnce(w)
                               \/ ToolEnds(w) \/ OperationAnswered(w)
      PROVE  UNCHANGED lockVars
  BY <1>1 DEF Invoke, InvokeSeeded, AnswerAtOnce, ToolEnds, OperationAnswered, vars
<1>2. ASSUME NEW w \in Worker, TokenOperation(w) PROVE UNCHANGED lockVars
  BY <1>2 DEF TokenOperation, GetToken, SetToken, Revoke
<1>3. ASSUME NEW w \in Worker, Exit(w) \/ Kill(w) PROVE [LockNext]_lockVars
  BY <1>3, GoneLock DEF Exit, Kill
<1>4. ASSUME NEW c \in Client, ToolCalls(c) PROVE [LockNext]_lockVars
  <2>1. (\E r : EntersRefresh(c, r)) \/ UNCHANGED lockVars
    BY <1>4 DEF ToolCalls, Begin
  <2> QED BY <2>1, EntersLock
<1>5. ASSUME NEW c \in Client, ClientStep(c) PROVE [LockNext]_lockVars
  <2>1. CASE SetEnds(c) BY <2>1 DEF SetEnds
  <2> QED BY <1>5, <2>1, CallLock DEF ClientStep
<1>6. ASSUME NEW t \in Token, TimePasses(t) PROVE UNCHANGED lockVars
  BY <1>6 DEF TimePasses
<1>7. CASE LockGrowsOld BY <1>7 DEF LockGrowsOld, LockNext
<1>8. CASE UNCHANGED allVars BY <1>8 DEF allVars, vars
<1> QED
  BY <1>1, <1>2, <1>3, <1>4, <1>5, <1>6, <1>7, <1>8 DEF Next, WorkerStep

\* The bridge implements the lock's specification.
THEOREM BridgeUsesLock == Spec => LockSpec
<1>1. Init => LockInit BY DEF Init
<1> QED BY <1>1, NextLock, PTL DEF Spec, LockSpec

\* For any number of workers and calls, only the removal of a live lock lets two
\* workers refresh at once.
THEOREM BridgeSerializes == Spec => []SerialUnlessStolen
BY BridgeUsesLock, LockSerializes, PTL

\* For any number of workers and calls, workers that end leave no lock behind.
THEOREM BridgeNoneLeft == Spec => []NoneLeft
BY BridgeUsesLock, LockNoneLeft, PTL

-----------------------------------------------------------------------------
(* Types.                                                                  *)

LEMMA FoundType ==
  ASSUME ClientTypeOK, NEW c \in Client
  PROVE  Found(c) \in Tokens
BY ClientAssumption DEF ClientTypeOK, Found

LEMMA CallType ==
  ASSUME ClientTypeOK, NEW c \in Client
  PROVE  call[c] \in CallStates
BY DEF ClientTypeOK

LEMMA NoCallType == NoCall \in CallStates
BY DEF NoCall, CallStates, CallPcs, Results, Tokens

LEMMA OverType ==
  ASSUME NEW result \in Results
  PROVE  Over(result) \in CallStates
BY DEF Over, NoCall, CallStates, CallPcs, Tokens

LEMMA ApiCallType ==
  ASSUME ClientTypeOK, NEW c \in Client, NEW t \in Tokens, NEW joined \in BOOLEAN
  PROVE  ApiCall(c, t, joined) \in CallStates
BY CallType DEF ApiCall, NoCall, CallStates, CallPcs, Results, Tokens

LEMMA BecomesType ==
  ASSUME ClientTypeOK, NEW c \in Client, NEW r \in CallStates, Becomes(c, r)
  PROVE  call' \in [Client -> CallStates]
BY DEF ClientTypeOK, Becomes

\* The fields of a call change within their types.
LEMMA FieldTypes ==
  ASSUME NEW r \in CallStates, NEW pc \in CallPcs, NEW t \in Tokens
  PROVE  /\ [r EXCEPT !.pc = pc] \in CallStates
         /\ [r EXCEPT !.seen = t] \in CallStates
         /\ [r EXCEPT !.pc = pc, !.tried = t] \in CallStates
         /\ [r EXCEPT !.pc = pc, !.out = t] \in CallStates
         /\ [r EXCEPT !.pc = pc, !.out = t, !.failed = TRUE] \in CallStates
         /\ [r EXCEPT !.again = TRUE] \in CallStates
BY DEF CallStates

LEMMA NextTokenType ==
  ASSUME ClientTypeOK, provider.issued # Token
  PROVE  NextToken \in Token \ provider.issued
BY DEF ClientTypeOK, NextToken

LEMMA IssuesType ==
  ASSUME ClientTypeOK, provider.issued # Token, NEW live \in SUBSET Token, Issues(live)
  PROVE  provider' \in [issued : SUBSET Token, live : SUBSET Token]
BY NextTokenType DEF ClientTypeOK, Issues

LEMMA FaultyType ==
  ASSUME ClientTypeOK, Faulty
  PROVE  faults' \in 0..MaxFaults
BY ClientAssumption DEF ClientTypeOK, Faulty

LEMMA EntersType ==
  ASSUME ClientTypeOK, NEW c \in Client, NEW r \in CallStates, EntersRefresh(c, r)
  PROVE  /\ call' \in [Client -> CallStates]
         /\ inflight' \in [Worker -> Client \cup {NoClient}]
<1>1. /\ [r EXCEPT !.pc = "join"] \in CallStates
      /\ [r EXCEPT !.pc = "lock"] \in CallStates
  BY FieldTypes DEF CallPcs, Tokens
<1>2. CASE Becomes(c, [r EXCEPT !.pc = "join"]) /\ UNCHANGED inflight
  BY <1>1, <1>2, BecomesType DEF ClientTypeOK
<1>3. CASE /\ Becomes(c, [r EXCEPT !.pc = "lock"])
           /\ inflight' = [inflight EXCEPT ![WorkerOf[c]] = c]
  <2>1. inflight' \in [Worker -> Client \cup {NoClient}] BY <1>3 DEF ClientTypeOK
  <2> QED BY <1>1, <1>3, <2>1, BecomesType
<1> QED BY <1>2, <1>3 DEF EntersRefresh

\* A step that changes nothing but the calls, as Becomes does.
LEMMA OnlyCall ==
  ASSUME ClientTypeOK, NEW c \in Client, NEW r \in CallStates, Becomes(c, r),
         UNCHANGED <<stored, inflight, eph, provider, clock, lost>>,
         UNCHANGED faults \/ Faulty
  PROVE  ClientTypeOK'
<1>1. faults' \in 0..MaxFaults BY FaultyType DEF ClientTypeOK
<1>2. call' \in [Client -> CallStates] BY BecomesType
<1> QED BY <1>1, <1>2 DEF ClientTypeOK

LEMMA BeginType ==
  ASSUME ClientTypeOK, NEW c \in Client, Begin(c)
  PROVE  ClientTypeOK'
<1> DEFINE t == Found(c)
<1>1. t \in Tokens BY FoundType
<1>2. CASE Ends(c, "need_auth") /\ UNCHANGED inflight
  BY <1>2, OverType, OnlyCall DEF Begin, Ends, Results
<1>3. CASE Becomes(c, ApiCall(c, t, FALSE)) /\ UNCHANGED inflight
  BY <1>1, <1>3, ApiCallType, OnlyCall DEF Begin
<1>4. CASE EntersRefresh(c, [call[c] EXCEPT !.seen = t])
  <2>1. [call[c] EXCEPT !.seen = t] \in CallStates
    BY <1>1, CallType, FieldTypes DEF CallPcs
  <2> QED BY <1>4, <2>1, EntersType DEF Begin, ClientTypeOK
<1> QED BY <1>2, <1>3, <1>4 DEF Begin

LEMMA RejectedType ==
  ASSUME ClientTypeOK, NEW c \in Client, Rejected(c)
  PROVE  ClientTypeOK'
<1> DEFINE t == Found(c)
<1>1. t \in Tokens BY FoundType
<1>2. CASE Ends(c, "need_auth") /\ UNCHANGED inflight
  BY <1>2, OverType, OnlyCall DEF Rejected, Ends, Results
<1>3. CASE EntersRefresh(c, Retry(c, t))
  <2>1. Retry(c, t) \in CallStates
    BY <1>1, CallType, NoCallType DEF Retry, CallStates
  <2>2. faults' \in 0..MaxFaults BY FaultyType DEF Rejected
  <2> QED BY <1>3, <2>1, <2>2, EntersType DEF Rejected, ClientTypeOK
<1> QED BY <1>2, <1>3 DEF Rejected

LEMMA UnlocksType ==
  ASSUME ClientTypeOK, NEW c \in Client, NEW t \in Tokens
  PROVE  /\ [call[c] EXCEPT !.pc = "unlock", !.out = t] \in CallStates
         /\ [call[c] EXCEPT !.pc = "unlock", !.out = NoToken, !.failed = TRUE]
              \in CallStates
         /\ [call[c] EXCEPT !.pc = "removing", !.tried = t] \in CallStates
         /\ [call[c] EXCEPT !.pc = "post", !.tried = t] \in CallStates
         /\ [call[c] EXCEPT !.pc = "answer", !.out = t] \in CallStates
         /\ [call[c] EXCEPT !.again = TRUE] \in CallStates
         /\ \A pc \in CallPcs : [call[c] EXCEPT !.pc = pc] \in CallStates
<1>1. call[c] \in CallStates /\ NoToken \in Tokens BY CallType DEF Tokens
<1>2. /\ "unlock" \in CallPcs /\ "removing" \in CallPcs
      /\ "post" \in CallPcs /\ "answer" \in CallPcs
  BY DEF CallPcs
<1> QED BY <1>1, <1>2, FieldTypes

LEMMA DropsType ==
  ASSUME ClientTypeOK, NEW c \in Client, NEW t \in Tokens, Drops(c, t)
  PROVE  call' \in [Client -> CallStates] /\ eph' \in [Worker -> Tokens]
<1>1. call' \in [Client -> CallStates] BY UnlocksType, BecomesType DEF Drops
<1>2. eph' \in [Worker -> Tokens] BY DEF Drops, ClientTypeOK, Tokens
<1> QED BY <1>1, <1>2

LEMMA DecideType ==
  ASSUME ClientTypeOK, NEW c \in Client, Decide(c)
  PROVE  ClientTypeOK'
<1> DEFINE t == Reread(c)
<1>1. t \in Tokens BY FoundType DEF Reread
<1>2. CASE Unlocks(c, t) /\ UNCHANGED eph
  BY <1>1, <1>2, UnlocksType, OnlyCall DEF Decide, Unlocks
<1>3. CASE Drops(c, t) BY <1>1, <1>3, DropsType DEF Decide, ClientTypeOK
<1>4. CASE Becomes(c, [call[c] EXCEPT !.pc = "post", !.tried = t]) /\ UNCHANGED eph
  BY <1>1, <1>4, UnlocksType, OnlyCall DEF Decide
<1> QED BY <1>2, <1>3, <1>4 DEF Decide

LEMMA PostType ==
  ASSUME ClientTypeOK, NEW c \in Client, Post(c)
  PROVE  ClientTypeOK'
<1> DEFINE t == call[c].tried
<1>1. t \in Tokens BY CallType DEF CallStates
<1>2. CASE /\ provider.issued # Token /\ Issues(provider.live \ {t})
           /\ Becomes(c, [call[c] EXCEPT !.pc = "answer", !.out = NextToken])
           /\ UNCHANGED <<eph, faults>>
  <2>1. provider' \in [issued : SUBSET Token, live : SUBSET Token]
    BY <1>2, IssuesType DEF ClientTypeOK
  <2>2. NextToken \in Tokens BY <1>2, NextTokenType DEF Tokens
  <2>3. call' \in [Client -> CallStates] BY <1>2, <2>2, UnlocksType, BecomesType
  <2> QED BY <1>2, <2>1, <2>3 DEF Post, ClientTypeOK
<1>3. CASE Drops(c, t) /\ UNCHANGED provider /\ (UNCHANGED faults \/ Faulty)
  <2>1. faults' \in 0..MaxFaults BY <1>3, FaultyType DEF ClientTypeOK
  <2> QED BY <1>1, <1>3, <2>1, DropsType DEF Post, ClientTypeOK
<1>4. CASE /\ Becomes(c, [call[c] EXCEPT !.again = TRUE]) /\ Faulty
           /\ UNCHANGED <<eph, provider>>
  BY <1>1, <1>4, UnlocksType, OnlyCall DEF Post
<1>5. CASE Throws(c) /\ (UNCHANGED faults \/ Faulty) /\ UNCHANGED <<eph, provider>>
  BY <1>1, <1>5, UnlocksType, OnlyCall DEF Post, Throws
<1> QED BY <1>2, <1>3, <1>4, <1>5 DEF Post

LEMMA AnswerType ==
  ASSUME ClientTypeOK, NEW c \in Client, Answer(c)
  PROVE  ClientTypeOK'
<1>1. call[c].out \in Tokens BY CallType DEF CallStates
<1>2. CASE stored' = Rotated(c) /\ Becomes(c, [call[c] EXCEPT !.pc = "chmod"])
           /\ UNCHANGED <<faults, lost>>
  <2>1. call' \in [Client -> CallStates]
    BY <1>1, <1>2, UnlocksType, BecomesType DEF CallPcs
  <2> QED BY <1>1, <1>2, <2>1 DEF Answer, ClientTypeOK, Rotated
<1>3. CASE Faulty /\ Throws(c) /\ lost' = TRUE /\ UNCHANGED stored
  <2>1. faults' \in 0..MaxFaults BY <1>3, FaultyType
  <2>2. call' \in [Client -> CallStates]
    BY <1>1, <1>3, UnlocksType, BecomesType DEF Throws
  <2> QED BY <1>3, <2>1, <2>2 DEF Answer, ClientTypeOK
<1> QED BY <1>2, <1>3 DEF Answer

LEMMA SettlesType ==
  ASSUME ClientTypeOK, NEW c \in Client, Settles(c)
  PROVE  /\ call' \in [Client -> CallStates]
         /\ inflight' \in [Worker -> Client \cup {NoClient}]
<1> DEFINE failed == call[c].failed \/ At(WorkerOf[c], "threw")
           mine == IF failed THEN Over("error")
                   ELSE IF call[c].out = NoToken THEN Over("need_auth")
                   ELSE ApiCall(c, call[c].out, FALSE)
<1>1. call[c].out \in Tokens BY CallType DEF CallStates
<1>2. /\ Over("error") \in CallStates /\ Over("need_auth") \in CallStates
      /\ ApiCall(c, call[c].out, FALSE) \in CallStates
  BY <1>1, OverType, ApiCallType DEF Results
<1>3. mine \in CallStates BY <1>2
<1>4. ASSUME NEW d \in Client
      PROVE  call[d] \in CallStates /\ [call[d] EXCEPT !.pc = "joined"] \in CallStates
  BY <1>1, CallType, UnlocksType DEF CallPcs
<1>5. \A d \in Client :
        call'[d] \in {mine, call[d], Over("error"), [call[d] EXCEPT !.pc = "joined"]}
  BY DEF Settles
<1>6. call' = [d \in Client |-> call'[d]] BY DEF Settles
<1>7. call' \in [Client -> CallStates]
  <2> HIDE DEF mine
  <2> QED BY <1>2, <1>3, <1>4, <1>5, <1>6
<1>8. inflight' \in [Worker -> Client \cup {NoClient}] BY DEF Settles, ClientTypeOK
<1> QED BY <1>7, <1>8

LEMMA OtherStepsType ==
  ASSUME ClientTypeOK, NEW c \in Client,
         Removed(c) \/ Stored(c) \/ Joined(c) \/ Api(c) \/ SetEnds(c) \/ GetToken(c)
         \/ LooksAtLock(c) \/ WorksForLock(c) \/ Leaves(c) \/ Revoke(c)
  PROVE  ClientTypeOK'
<1>1. /\ Found(c) \in Tokens /\ call[c].out \in Tokens /\ NoToken \in Tokens
      /\ call[c].tried \in Tokens
  BY FoundType, CallType DEF CallStates, Tokens
<1>2. CASE Removed(c)
  <2>1. call' \in [Client -> CallStates]
    BY <1>1, <1>2, UnlocksType, BecomesType DEF Removed, Unlocks
  <2> QED BY <1>1, <1>2, <2>1 DEF Removed, ClientTypeOK
<1>3. CASE Stored(c)
  BY <1>1, <1>3, UnlocksType, OnlyCall DEF Stored, Unlocks, Throws
<1>4. CASE Joined(c)
  <2>1. Over("need_auth") \in CallStates /\ ApiCall(c, Found(c), TRUE) \in CallStates
    BY <1>1, OverType, ApiCallType DEF Results
  <2> QED BY <1>4, <2>1, OnlyCall DEF Joined, Ends
<1>5. CASE Api(c) \/ SetEnds(c) \/ GetToken(c)
  <2>1. PICK result \in {"ok", "error"} : Ends(c, result)
    BY <1>5 DEF Api, SetEnds, GetToken
  <2>2. Over(result) \in CallStates BY OverType DEF Results
  <2> QED BY <1>5, <2>1, <2>2, OnlyCall DEF Api, SetEnds, GetToken, Ends
<1>6. CASE LooksAtLock(c) BY <1>6 DEF LooksAtLock, clientVars, ClientTypeOK
<1>7. CASE WorksForLock(c)
  <2>1. faults' \in 0..MaxFaults BY <1>7, FaultyType DEF WorksForLock, ClientTypeOK
  <2> QED BY <1>7, <2>1 DEF WorksForLock, ClientTypeOK
<1>8. CASE Leaves(c) BY <1>8, SettlesType DEF Leaves, ClientTypeOK
<1>9. CASE Revoke(c)
  <2>1. call' \in [Client -> CallStates]
    BY <1>9, OverType, BecomesType DEF Revoke, Ends, Results
  <2>2. eph' \in [Worker -> Tokens] BY <1>1, <1>9 DEF Revoke, ClientTypeOK
  <2> QED BY <1>1, <1>9, <2>1, <2>2 DEF Revoke, ClientTypeOK
<1> QED BY <1>2, <1>3, <1>4, <1>5, <1>6, <1>7, <1>8, <1>9

LEMMA SetTokenType ==
  ASSUME ClientTypeOK, NEW c \in Client, SetToken(c)
  PROVE  ClientTypeOK'
<1>1. provider' \in [issued : SUBSET Token, live : SUBSET Token]
  BY IssuesType DEF SetToken, ClientTypeOK
<1>2. NextToken \in Tokens BY NextTokenType DEF SetToken, Tokens
<1>3. stored' \in Tokens BY <1>2 DEF SetToken, ClientTypeOK
<1>4. call' \in [Client -> CallStates]
  BY <1>2, UnlocksType, OverType, BecomesType DEF SetToken, Ends, Results, CallPcs
<1>5. faults' \in 0..MaxFaults BY FaultyType DEF SetToken, ClientTypeOK
<1> QED BY <1>1, <1>3, <1>4, <1>5 DEF SetToken, ClientTypeOK

LEMMA SeedType ==
  ASSUME ClientTypeOK, NEW w \in Worker, InvokeSeeded(w)
  PROVE  ClientTypeOK'
<1>1. CASE \E t \in provider.issued :
             eph' = [eph EXCEPT ![w] = t] /\ UNCHANGED provider
  <2>1. PICK t \in provider.issued : eph' = [eph EXCEPT ![w] = t] BY <1>1
  <2>2. t \in Tokens BY DEF ClientTypeOK, Tokens
  <2> QED BY <1>1, <2>1, <2>2 DEF InvokeSeeded, ClientTypeOK
<1>2. CASE /\ provider.issued # Token
           /\ eph' = [eph EXCEPT ![w] = NextToken]
           /\ \/ Issues(provider.live)
              \/ provider' = [provider EXCEPT !.issued = @ \cup {NextToken}]
  <2>1. NextToken \in Token BY <1>2, NextTokenType
  <2>2. provider' \in [issued : SUBSET Token, live : SUBSET Token]
    BY <1>2, <2>1, IssuesType DEF ClientTypeOK
  <2>3. eph' \in [Worker -> Tokens] BY <1>2, <2>1 DEF ClientTypeOK, Tokens
  <2> QED BY <1>2, <2>2, <2>3 DEF InvokeSeeded, ClientTypeOK
<1> QED BY <1>1, <1>2 DEF InvokeSeeded

LEMMA TimeType ==
  ASSUME ClientTypeOK, NEW t \in Token, TimePasses(t)
  PROVE  ClientTypeOK'
<1>1. clock' \in [aged : SUBSET Token, lapsed : SUBSET Token]
  BY DEF TimePasses, Ages, Lapses, ClientTypeOK
<1>2. faults' \in 0..MaxFaults BY FaultyType DEF TimePasses
<1> QED BY <1>1, <1>2 DEF TimePasses, ClientTypeOK

LEMMA GoneType ==
  ASSUME ClientTypeOK, NEW w \in Worker, Exit(w) \/ Kill(w)
  PROVE  ClientTypeOK'
<1>1. ProcessGone(w) BY DEF Exit, Kill, Gone
<1>2. faults' \in 0..MaxFaults BY FaultyType DEF Exit, Kill, ClientTypeOK
<1>3. call' \in [Client -> CallStates] BY <1>1, CallType, NoCallType DEF ProcessGone
<1>4. /\ inflight' \in [Worker -> Client \cup {NoClient}]
      /\ eph' \in [Worker -> Tokens]
  BY <1>1 DEF ProcessGone, ClientTypeOK, Tokens
<1>5. lost' \in BOOLEAN BY <1>1 DEF ProcessGone, ClientTypeOK
<1> QED BY <1>1, <1>2, <1>3, <1>4, <1>5 DEF ProcessGone, ClientTypeOK

\* The types of the clients are kept by every step.
LEMMA ClientTypes == ClientTypeOK /\ [Next]_allVars => ClientTypeOK'
<1> SUFFICES ASSUME ClientTypeOK, [Next]_allVars PROVE ClientTypeOK'
  OBVIOUS
<1>1. ASSUME NEW w \in Worker, Invoke(w) \/ AnswerAtOnce(w) \/ ToolEnds(w)
                               \/ OperationAnswered(w)
      PROVE  ClientTypeOK'
  BY <1>1 DEF Invoke, AnswerAtOnce, ToolEnds, OperationAnswered, vars, clientVars,
              ClientTypeOK
<1>2. ASSUME NEW w \in Worker, TokenOperation(w) PROVE ClientTypeOK'
  <2>1. Single[w] \in Client BY RequestAssumption
  <2> QED BY <1>2, <2>1, OtherStepsType, SetTokenType DEF TokenOperation
<1>3. ASSUME NEW w \in Worker, InvokeSeeded(w) PROVE ClientTypeOK'
  BY <1>3, SeedType
<1>4. ASSUME NEW w \in Worker, Exit(w) \/ Kill(w) PROVE ClientTypeOK'
  BY <1>4, GoneType
<1>5. ASSUME NEW c \in Client, ToolCalls(c) PROVE ClientTypeOK'
  BY <1>5, BeginType DEF ToolCalls
<1>6. ASSUME NEW c \in Client, ClientStep(c) PROVE ClientTypeOK'
  BY <1>6, DecideType, PostType, AnswerType, RejectedType, OtherStepsType
     DEF ClientStep, CallStep
<1>7. ASSUME NEW t \in Token, TimePasses(t) PROVE ClientTypeOK'
  BY <1>7, TimeType
<1>8. CASE LockGrowsOld \/ UNCHANGED allVars
  BY <1>8 DEF LockGrowsOld, allVars, vars, clientVars, ClientTypeOK
<1> QED
  BY <1>1, <1>2, <1>3, <1>4, <1>5, <1>6, <1>7, <1>8 DEF Next, WorkerStep

LEMMA WorkerTypes == WorkerTypeOK /\ [Next]_allVars => WorkerTypeOK'
<1> SUFFICES ASSUME WorkerTypeOK, [Next]_allVars PROVE WorkerTypeOK'
  OBVIOUS
<1> USE DEF WorkerTypeOK, Replies, Requests, Answers
<1>1. ASSUME NEW w \in Worker,
             Invoke(w) \/ InvokeSeeded(w) \/ AnswerAtOnce(w) \/ TokenOperation(w)
             \/ ToolEnds(w) \/ OperationAnswered(w) \/ Exit(w) \/ Kill(w)
      PROVE  WorkerTypeOK'
  <2>1. CASE Invoke(w) \/ InvokeSeeded(w) \/ AnswerAtOnce(w)
    BY <1>1, <2>1 DEF Invoke, InvokeSeeded, AnswerAtOnce, Asked
  <2>2. CASE TokenOperation(w) BY <2>2 DEF TokenOperation, Asked
  <2>3. CASE ToolEnds(w)
    <3>1. \A e \in Errors : FollowUp(e) \in {"follow_up", "result"}
      BY DEF Errors, FollowUp
    <3>2. Failures \subseteq {"bridge_error", "follow_up", "result"}
      BY <3>1 DEF Failures
    <3> QED BY <2>3, <3>1, <3>2 DEF ToolEnds, Errors
  <2>4. CASE OperationAnswered(w) BY <2>4 DEF OperationAnswered
  <2>5. CASE Exit(w) \/ Kill(w) BY <2>5 DEF Exit, Kill, Gone
  <2> QED BY <1>1, <2>1, <2>2, <2>3, <2>4, <2>5
<1>2. CASE UNCHANGED workerVars BY <1>2 DEF workerVars
<1>3. ASSUME NEW c \in Client, ToolCalls(c) \/ ClientStep(c) PROVE WorkerTypeOK'
  BY <1>2, <1>3 DEF ToolCalls, ClientStep
<1> QED BY <1>1, <1>2, <1>3 DEF Next, WorkerStep, allVars

LEMMA InitTypes == Init => ClientTypeOK /\ WorkerTypeOK
<1> SUFFICES ASSUME Init PROVE ClientTypeOK /\ WorkerTypeOK
  OBVIOUS
<1>1. stored \in Tokens BY ClientAssumption DEF Init, ClientInit, Tokens
<1>2. provider \in [issued : SUBSET Token, live : SUBSET Token]
  BY <1>1 DEF Init, ClientInit, Tokens
<1>3. clock \in [aged : SUBSET Token, lapsed : SUBSET Token]
  <2>1. PICK a \in SUBSET provider.issued, l \in SUBSET provider.issued :
          clock = [aged |-> a, lapsed |-> l]
    BY DEF Init, ClientInit
  <2> QED BY <1>2, <2>1
<1>4. call \in [Client -> CallStates] BY NoCallType DEF Init, ClientInit
<1>5. /\ inflight \in [Worker -> Client \cup {NoClient}]
      /\ eph \in [Worker -> Tokens]
  BY DEF Init, ClientInit, Tokens
<1>6. faults \in 0..MaxFaults
  <2>1. faults = 0 BY DEF Init, ClientInit
  <2> QED BY <2>1, ClientAssumption
<1>7. ClientTypeOK
  <2>1. lost \in BOOLEAN BY Zenon DEF Init, ClientInit
  <2> QED BY <1>1, <1>2, <1>3, <1>4, <1>5, <1>6, <2>1 DEF ClientTypeOK
<1>8. WorkerTypeOK BY DEF Init, WorkerInit, WorkerTypeOK, Replies
<1> QED BY <1>7, <1>8

\* The type invariant, for any workers, calls, requests, tokens and faults.
THEOREM BridgeTypes == Spec => []TypeOK
<1>1. Init => TypeOK BY InitTypes, InitInv DEF Init, TypeOK, LockInv
<1>2. Spec => []LockInv BY BridgeUsesLock, LockInvariant, PTL
<1>3. LockInv => LockTypeOK BY DEF LockInv
<1>4. ClientTypeOK /\ WorkerTypeOK /\ [Next]_allVars => (ClientTypeOK /\ WorkerTypeOK)'
  BY ClientTypes, WorkerTypes
<1>5. Spec => [](ClientTypeOK /\ WorkerTypeOK)
  BY InitTypes, <1>4, PTL DEF Spec
<1>6. LockTypeOK /\ ClientTypeOK /\ WorkerTypeOK => TypeOK BY DEF TypeOK
<1> QED BY <1>2, <1>3, <1>5, <1>6, PTL

-----------------------------------------------------------------------------
(* A refresh token is spent once. Whoever refreshes is the one refresh of  *)
(* its worker, and its worker holds the lock.                              *)

Critical(c) == call[c].pc \in {"post", "removing", "answer", "chmod", "unlock"}
Refreshing(c) == In(c, "lock") \/ Critical(c)

OneRefresh == \A c \in Client : Refreshing(c) => inflight[WorkerOf[c]] = c
UnderLock == \A c \in Client : Critical(c) => WorkerOf[c] \in Holding
AskedFirst == \A c \in Client : ~In(c, "idle") => request[WorkerOf[c]] # "none"

\* The token a refresh got and has not stored yet is spent by nobody.
FreshOut == \A c \in Client : In(c, "answer") => call[c].out \in provider.live \/ stolen \/ lost

RefreshInv == OneRefresh /\ UnderLock /\ AskedFirst
TokenInv == FreshOut /\ SpentOnce /\ StoredUsable

BridgeInv == LockInv /\ ClientTypeOK /\ WorkerTypeOK /\ RefreshInv /\ TokenInv

LEMMA StolenStays == [Next]_allVars => (stolen => stolen')
<1> SUFFICES ASSUME [LockNext]_lockVars, stolen PROVE stolen'
  BY NextLock
<1>1. ASSUME NEW w \in Worker, LockStep(w) PROVE stolen'
  BY <1>1 DEF LockStep, Contend, Make, MakeFails, Own, OwnFails, Bail, Judge, Remove,
     Removes, CheckOwner, Unlink, Caught, Die
<1> QED BY <1>1 DEF LockNext, GrowOld, lockVars

\* A step of one worker leaves the others where they are in the protocol.
LEMMA OthersStay ==
  ASSUME LockTypeOK, NEW w \in Worker, LockStep(w), NEW v \in Worker \ {w}
  PROVE  lk'[v] = lk[v]
BY DEF LockTypeOK, LockStep, Contend, Make, MakeFails, Own, OwnFails, Bail, Judge,
   Remove, CheckOwner, Unlink, Caught, Die, Goes

\* Two calls that refresh, one of them already with the lock, are one, unless a
\* live lock was removed.
LEMMA RefreshAlone ==
  ASSUME LockInv, RefreshInv, ~stolen, NEW c \in Client, NEW d \in Client,
         Critical(c), Refreshing(d), WorkerOf[d] \in Holding
  PROVE  c = d
<1>1. WorkerOf[c] \in Holding BY DEF RefreshInv, UnderLock
<1>2. WorkerOf[c] = WorkerOf[d] BY <1>1, InvSerial DEF SerialUnlessStolen
<1> QED BY <1>2 DEF RefreshInv, OneRefresh, Refreshing

LEMMA BecomesAt ==
  ASSUME ClientTypeOK, NEW c \in Client, NEW r, Becomes(c, r)
  PROVE  call'[c] = r /\ \A d \in Client \ {c} : call'[d] = call[d]
BY DEF Becomes, ClientTypeOK

\* Where a call is after a step.
LEMMA NewPc ==
  ASSUME ClientTypeOK, NEW c \in Client
  PROVE  /\ \A t : [call[c] EXCEPT !.pc = "unlock", !.out = t].pc = "unlock"
         /\ [call[c] EXCEPT !.pc = "unlock", !.out = NoToken, !.failed = TRUE].pc
              = "unlock"
         /\ \A t : [call[c] EXCEPT !.pc = "removing", !.tried = t].pc = "removing"
         /\ \A t : /\ [call[c] EXCEPT !.pc = "post", !.tried = t].pc = "post"
                  /\ [call[c] EXCEPT !.pc = "post", !.tried = t].tried = t
         /\ \A t : /\ [call[c] EXCEPT !.pc = "answer", !.out = t].pc = "answer"
                  /\ [call[c] EXCEPT !.pc = "answer", !.out = t].out = t
                  /\ [call[c] EXCEPT !.pc = "answer", !.out = t].tried = call[c].tried
         /\ [call[c] EXCEPT !.again = TRUE].pc = call[c].pc
         /\ [call[c] EXCEPT !.again = TRUE].tried = call[c].tried
         /\ \A pc : [call[c] EXCEPT !.pc = pc].pc = pc
BY CallType DEF CallStates

\* A step that changes one call and neither the lock nor who refreshes.
LEMMA CallRefresh ==
  ASSUME ClientTypeOK, RefreshInv, NEW c \in Client,
         \A d \in Client \ {c} : call'[d] = call[d],
         UNCHANGED <<request, inflight, lk>>,
         request[WorkerOf[c]] # "none",
         \/ call'[c].pc \in {"over", "api", "join"}
         \/ call'[c].pc # "lock" /\ Refreshing(c) /\ WorkerOf[c] \in Holding
  PROVE  RefreshInv'
<1>1. OneRefresh'
  BY DEF RefreshInv, OneRefresh, Refreshing, Critical, In
<1>2. UnderLock'
  BY DEF RefreshInv, UnderLock, Critical, Holding
<1>3. AskedFirst'
  BY DEF RefreshInv, AskedFirst, In
<1> QED BY <1>1, <1>2, <1>3 DEF RefreshInv

LEMMA EntersRefreshInv ==
  ASSUME LockTypeOK, ClientTypeOK, RefreshInv, NEW c \in Client, NEW r \in CallStates,
         EntersRefresh(c, r), UNCHANGED request, request[WorkerOf[c]] # "none"
  PROVE  RefreshInv'
<1> DEFINE w == WorkerOf[c]
<1>1. CASE /\ Becomes(c, [r EXCEPT !.pc = "join"])
           /\ UNCHANGED <<lockVars, inflight>>
  <2>1. [r EXCEPT !.pc = "join"].pc = "join" BY DEF CallStates
  <2> QED BY <1>1, <2>1, BecomesAt, CallRefresh DEF lockVars
<1>2. CASE /\ inflight[w] = NoClient
           /\ Becomes(c, [r EXCEPT !.pc = "lock"])
           /\ inflight' = [inflight EXCEPT ![w] = c]
           /\ Contend(w)
  <2>1. w \in Worker BY ClientAssumption
  <2>2. \A d \in Client : Refreshing(d) => WorkerOf[d] # w
    BY <1>2, ClientAssumption DEF RefreshInv, OneRefresh
  <2>3. call'[c].pc = "lock" /\ \A d \in Client \ {c} : call'[d] = call[d]
    BY <1>2 DEF Becomes, ClientTypeOK, CallStates
  <2>4. OneRefresh'
    BY <1>2, <2>1, <2>2, <2>3
       DEF RefreshInv, OneRefresh, Refreshing, Critical, In, ClientTypeOK
  <2>5. UnderLock'
    <3>1. \A v \in Worker \ {w} : lk'[v] = lk[v]
      BY <1>2, <2>1, OthersStay DEF LockStep
    <3> QED
      BY <2>2, <2>3, <3>1, ClientAssumption
         DEF RefreshInv, UnderLock, Refreshing, Critical, Holding
  <2>6. AskedFirst' BY <2>3 DEF RefreshInv, AskedFirst, In
  <2> QED BY <2>4, <2>5, <2>6 DEF RefreshInv
<1> QED BY <1>1, <1>2 DEF EntersRefresh

LEMMA BeginRefresh ==
  ASSUME LockTypeOK, ClientTypeOK, RefreshInv, NEW c \in Client,
         Begin(c), UNCHANGED request, request[WorkerOf[c]] # "none"
  PROVE  RefreshInv'
<1> DEFINE t == Found(c)
<1>1. CASE Ends(c, "need_auth") /\ UNCHANGED <<lockVars, inflight>>
  <2>1. Over("need_auth").pc = "over" BY DEF Over, NoCall
  <2> QED BY <1>1, <2>1, BecomesAt, CallRefresh DEF Ends, lockVars
<1>2. CASE Becomes(c, ApiCall(c, t, FALSE)) /\ UNCHANGED <<lockVars, inflight>>
  <2>1. ApiCall(c, t, FALSE).pc = "api" BY DEF ApiCall, NoCall
  <2> QED BY <1>2, <2>1, BecomesAt, CallRefresh DEF lockVars
<1>3. CASE EntersRefresh(c, [call[c] EXCEPT !.seen = t])
  <2>1. [call[c] EXCEPT !.seen = t] \in CallStates
    BY FoundType, CallType, FieldTypes DEF CallPcs
  <2> QED BY <1>3, <2>1, EntersRefreshInv
<1> QED BY <1>1, <1>2, <1>3 DEF Begin

LEMMA RejectedRefresh ==
  ASSUME LockTypeOK, ClientTypeOK, RefreshInv, NEW c \in Client,
         Rejected(c), UNCHANGED request
  PROVE  RefreshInv'
<1> DEFINE t == Found(c)
<1>1. request[WorkerOf[c]] # "none" BY DEF RefreshInv, AskedFirst, Rejected, In
<1>2. CASE Ends(c, "need_auth") /\ UNCHANGED <<lockVars, inflight>>
  <2>1. Over("need_auth").pc = "over" BY DEF Over, NoCall
  <2> QED BY <1>1, <1>2, <2>1, BecomesAt, CallRefresh DEF Ends, lockVars
<1>3. CASE EntersRefresh(c, Retry(c, t))
  <2>1. Retry(c, t) \in CallStates
    BY FoundType, CallType, NoCallType DEF Retry, CallStates
  <2> QED BY <1>1, <1>3, <2>1, EntersRefreshInv
<1> QED BY <1>2, <1>3 DEF Rejected

\* The steps of a call that leave the lock alone.
LEMMA LocalRefresh ==
  ASSUME ClientTypeOK, RefreshInv, NEW c \in Client,
         UNCHANGED request,
         Decide(c) \/ Post(c) \/ Removed(c) \/ Answer(c) \/ Stored(c) \/ Joined(c)
         \/ Api(c) \/ SetEnds(c)
  PROVE  RefreshInv'
<1>1. request[WorkerOf[c]] # "none"
  BY DEF RefreshInv, AskedFirst, Decide, Post, Removed, Answer, Stored, Joined, Api,
     SetEnds, In
<1>2. UNCHANGED <<inflight, lk>>
  BY DEF Decide, Post, Removed, Answer, Stored, Joined, Api, SetEnds, lockVars
<1>3. call[c] \in CallStates BY CallType
<1>4. CASE Decide(c) \/ Post(c) \/ Removed(c) \/ Answer(c) \/ Stored(c)
  <2>1. Refreshing(c) /\ WorkerOf[c] \in Holding
    BY <1>4, ClientAssumption DEF Decide, Post, Removed, Answer, Stored, In, Refreshing,
       Critical, RefreshInv, UnderLock, Holding, At
  <2>2. /\ call'[c].pc # "lock"
        /\ \A d \in Client \ {c} : call'[d] = call[d]
    <3> DEFINE Unlocked(t) == [call[c] EXCEPT !.pc = "unlock", !.out = t]
               Thrown == [call[c] EXCEPT !.pc = "unlock", !.out = NoToken,
                                         !.failed = TRUE]
               Dropped(t) == [call[c] EXCEPT !.pc = "removing", !.tried = t]
               Posted(t) == [call[c] EXCEPT !.pc = "post", !.tried = t]
               Answered(t) == [call[c] EXCEPT !.pc = "answer", !.out = t]
               Again == [call[c] EXCEPT !.again = TRUE]
               Written == [call[c] EXCEPT !.pc = "chmod"]
               Ways(r) == \/ \E t : r \in {Unlocked(t), Dropped(t), Posted(t), Answered(t)}
                          \/ r \in {Thrown, Written}
                          \/ r = Again /\ call[c].pc = "post"
    <3>1. \E r : Becomes(c, r) /\ Ways(r)
      <4>1. CASE Decide(c) BY <4>1 DEF Decide, Unlocks, Drops
      <4>2. CASE Post(c) BY <4>2 DEF Post, Drops, Throws, In
      <4>3. CASE Removed(c) \/ Answer(c) \/ Stored(c)
        BY <4>3 DEF Removed, Answer, Stored, Unlocks, Throws
      <4> QED BY <1>4, <4>1, <4>2, <4>3
    <3>2. ASSUME NEW r, Ways(r) PROVE r.pc # "lock"
      <4>1. /\ \A t : Unlocked(t).pc = "unlock" /\ Dropped(t).pc = "removing"
            /\ \A t : Posted(t).pc = "post" /\ Answered(t).pc = "answer"
            /\ Thrown.pc = "unlock" /\ Written.pc = "chmod" /\ Again.pc = call[c].pc
        BY NewPc
      <4> HIDE DEF Unlocked, Dropped, Posted, Answered, Thrown, Written, Again
      <4> QED BY <3>2, <4>1
    <3> HIDE DEF Ways
    <3> QED BY <3>1, <3>2, BecomesAt
  <2> QED BY <1>1, <1>2, <2>1, <2>2, CallRefresh
<1>5. CASE Joined(c) \/ Api(c) \/ SetEnds(c)
  <2>1. /\ call'[c].pc \in {"over", "api"}
        /\ \A d \in Client \ {c} : call'[d] = call[d]
    <3>1. \A result : Over(result).pc = "over" BY DEF Over, NoCall
    <3>2. ApiCall(c, Found(c), TRUE).pc = "api" BY DEF ApiCall, NoCall
    <3> QED
      BY <1>5, <3>1, <3>2 DEF Joined, Api, SetEnds, Ends, Becomes, ClientTypeOK
  <2> QED BY <1>1, <1>2, <2>1, CallRefresh
<1> QED BY <1>4, <1>5

\* The steps of a call on the lock.
LEMMA LockRefresh ==
  ASSUME LockTypeOK, ClientTypeOK, RefreshInv, NEW c \in Client, UNCHANGED request,
         WorksForLock(c) \/ LooksAtLock(c)
  PROVE  RefreshInv'
<1> DEFINE w == WorkerOf[c]
<1>1. w \in Worker BY ClientAssumption
<1>2. UNCHANGED <<call, inflight>>
  BY DEF WorksForLock, LooksAtLock, clientVars
<1>3. \A v \in Worker \ {w} : lk'[v] = lk[v]
  BY <1>1, OthersStay DEF WorksForLock, LooksAtLock, LockStep
<1>4. UnderLock'
  <2>1. CASE LooksAtLock(c)
    BY <1>2, <1>3, <2>1, ClientAssumption
       DEF LooksAtLock, RefreshInv, UnderLock, Critical, Holding
  <2>2. CASE WorksForLock(c)
    <3>1. \A d \in Client : Critical(d) => WorkerOf[d] # w
      BY <2>2 DEF WorksForLock, RefreshInv, OneRefresh, Refreshing, Critical, In
    <3> QED
      BY <1>2, <1>3, <3>1, ClientAssumption DEF RefreshInv, UnderLock, Critical, Holding
  <2> QED BY <2>1, <2>2
<1>5. OneRefresh' /\ AskedFirst'
  BY <1>2 DEF RefreshInv, OneRefresh, AskedFirst, Refreshing, Critical, In
<1> QED BY <1>4, <1>5 DEF RefreshInv

\* When a refresh settles, its call and those that waited for it go on.
LEMMA SettledPcs ==
  ASSUME ClientTypeOK, NEW c \in Client, Settles(c)
  PROVE  /\ call'[c].pc \in {"over", "api"}
         /\ \A d \in Client \ {c} :
              \/ call'[d] = call[d]
              \/ /\ In(d, "join")
                 /\ call'[d].pc \in {"over", "joined"}
<1>1. \A result : Over(result).pc = "over" BY DEF Over, NoCall
<1>2. ApiCall(c, call[c].out, FALSE).pc = "api" BY DEF ApiCall, NoCall
<1>3. call'[c].pc \in {"over", "api"}
  <2>1. call'[c] \in {Over("error"), Over("need_auth"), ApiCall(c, call[c].out, FALSE)}
    BY DEF Settles
  <2> QED BY <1>1, <1>2, <2>1
<1>4. ASSUME NEW d \in Client \ {c}, call'[d] # call[d]
      PROVE  In(d, "join") /\ call'[d].pc \in {"over", "joined"}
  <2>1. /\ In(d, "join")
        /\ call'[d] \in {Over("error"), [call[d] EXCEPT !.pc = "joined"]}
    BY <1>4 DEF Settles
  <2>2. [call[d] EXCEPT !.pc = "joined"].pc = "joined" BY NewPc
  <2> QED BY <1>1, <2>1, <2>2
<1> QED BY <1>3, <1>4

LEMMA LeavesRefresh ==
  ASSUME LockTypeOK, ClientTypeOK, RefreshInv, NEW c \in Client, UNCHANGED request,
         Leaves(c)
  PROVE  RefreshInv'
<1> DEFINE w == WorkerOf[c]
<1>1. w \in Worker BY ClientAssumption
<1>2. \A v \in Worker \ {w} : lk'[v] = lk[v]
  BY <1>1, OthersStay DEF Leaves, LockStep
<1>3. \A d \in Client \ {c} : Refreshing(d) => WorkerOf[d] # w
  BY DEF Leaves, RefreshInv, OneRefresh, Refreshing, Critical, In
<1>4. /\ call'[c].pc \in {"over", "api"}
      /\ \A d \in Client \ {c} :
           \/ call'[d] = call[d]
           \/ In(d, "join") /\ call'[d].pc \in {"over", "joined"}
  BY SettledPcs DEF Leaves
<1>5. inflight' = [inflight EXCEPT ![w] = NoClient] BY DEF Leaves, Settles
<1>6. OneRefresh'
  BY <1>1, <1>3, <1>4, <1>5
     DEF RefreshInv, OneRefresh, Refreshing, Critical, In, ClientTypeOK
<1>7. UnderLock'
  BY <1>2, <1>3, <1>4, ClientAssumption
     DEF RefreshInv, UnderLock, Refreshing, Critical, Holding
<1>8. AskedFirst'
  <2>1. ~In(c, "idle") BY DEF Leaves, In
  <2> QED BY <1>4, <2>1 DEF RefreshInv, AskedFirst, In
<1> QED BY <1>6, <1>7, <1>8 DEF RefreshInv

LEMMA GoneRefresh ==
  ASSUME LockTypeOK, ClientTypeOK, WorkerTypeOK, RefreshInv, NEW w \in Worker, Gone(w)
  PROVE  RefreshInv'
<1>1. \A d \in Client : call'[d] = IF WorkerOf[d] = w THEN NoCall ELSE call[d]
  BY DEF Gone, ProcessGone
<1>2. \A v \in Worker \ {w} : /\ lk'[v] = lk[v] /\ inflight'[v] = inflight[v]
                             /\ request'[v] = request[v]
  BY OthersStay DEF Gone, ProcessGone, LockStep, ClientTypeOK, WorkerTypeOK
<1>3. NoCall.pc = "idle" BY DEF NoCall
<1>4. OneRefresh'
  BY <1>1, <1>2, <1>3, ClientAssumption
     DEF RefreshInv, OneRefresh, Refreshing, Critical, In
<1>5. UnderLock'
  BY <1>1, <1>2, <1>3, ClientAssumption DEF RefreshInv, UnderLock, Critical, Holding
<1>6. AskedFirst'
  BY <1>1, <1>2, <1>3, ClientAssumption DEF RefreshInv, AskedFirst, In
<1> QED BY <1>4, <1>5, <1>6 DEF RefreshInv

\* A worker is asked: none of its calls has begun.
LEMMA AskedIdle ==
  ASSUME RefreshInv, NEW w \in Worker, NEW r, Asked(w, r),
         NEW c \in Client, WorkerOf[c] = w
  PROVE  In(c, "idle")
BY DEF RefreshInv, AskedFirst, Asked

LEMMA RequestRefresh ==
  ASSUME ClientTypeOK, WorkerTypeOK, RefreshInv, NEW w \in Worker,
         Invoke(w) \/ InvokeSeeded(w) \/ TokenOperation(w) \/ AnswerAtOnce(w)
  PROVE  RefreshInv'
<1>1. PICK r \in Requests : Asked(w, r)
  BY DEF Invoke, InvokeSeeded, TokenOperation, AnswerAtOnce, Requests
<1>2. \A v \in Worker : request[v] # "none" => request'[v] # "none"
  BY <1>1 DEF Asked, WorkerTypeOK, Requests
<1>3. request'[w] # "none" BY <1>1 DEF Asked, WorkerTypeOK, Requests
<1>4. UNCHANGED <<inflight, lk>>
  BY DEF Invoke, InvokeSeeded, TokenOperation, AnswerAtOnce, vars, clientVars, lockVars,
     GetToken, SetToken, Revoke
<1>5. CASE UNCHANGED call
  BY <1>2, <1>4, <1>5, ClientAssumption
     DEF RefreshInv, OneRefresh, UnderLock, AskedFirst, Refreshing, Critical, In, Holding
<1>6. CASE TokenOperation(w)
  <2> DEFINE c == Single[w]
  <2>1. c \in Client /\ WorkerOf[c] = w BY RequestAssumption
  <2>2. /\ call'[c].pc \in {"over", "put"}
        /\ \A d \in Client \ {c} : call'[d] = call[d]
    <3>1. \A result : Over(result).pc = "over" BY DEF Over, NoCall
    <3>2. [call[c] EXCEPT !.pc = "put"].pc = "put" BY <2>1, NewPc
    <3> DEFINE Put == [call[c] EXCEPT !.pc = "put"]
    <3>3. \E x : Becomes(c, x) /\ (x = Put \/ \E result : x = Over(result))
      BY <1>6 DEF TokenOperation, GetToken, SetToken, Revoke, Ends
    <3> HIDE DEF Put, c
    <3>4. PICK x : Becomes(c, x) /\ (x = Put \/ \E result : x = Over(result))
      BY <3>3
    <3>5. x.pc \in {"over", "put"} BY <3>1, <3>2, <3>4 DEF Put
    <3> QED BY <2>1, <3>4, <3>5, BecomesAt
  <2> QED
    BY <1>2, <1>3, <1>4, <2>1, <2>2, ClientAssumption
       DEF RefreshInv, OneRefresh, UnderLock, AskedFirst, Refreshing, Critical, In, Holding
<1> QED
  BY <1>5, <1>6 DEF Invoke, InvokeSeeded, TokenOperation, AnswerAtOnce, vars, clientVars

\* RefreshInv is kept by every step.
LEMMA RefreshNext ==
  LockTypeOK /\ ClientTypeOK /\ WorkerTypeOK /\ RefreshInv /\ [Next]_allVars => RefreshInv'
<1> SUFFICES ASSUME LockTypeOK, ClientTypeOK, WorkerTypeOK, RefreshInv, [Next]_allVars
             PROVE  RefreshInv'
  OBVIOUS
<1>1. ASSUME NEW w \in Worker, Invoke(w) \/ InvokeSeeded(w) \/ TokenOperation(w)
                               \/ AnswerAtOnce(w)
      PROVE  RefreshInv'
  BY <1>1, RequestRefresh
<1>2. ASSUME NEW w \in Worker, Exit(w) \/ Kill(w) PROVE RefreshInv'
  BY <1>2, GoneRefresh DEF Exit, Kill
<1>3. ASSUME NEW c \in Client, ToolCalls(c) PROVE RefreshInv'
  BY <1>3, BeginRefresh DEF ToolCalls, Invoked, workerVars
<1>4. ASSUME NEW c \in Client, ClientStep(c) PROVE RefreshInv'
  BY <1>4, RejectedRefresh, LocalRefresh, LockRefresh, LeavesRefresh
     DEF ClientStep, CallStep, workerVars
<1>5. CASE UNCHANGED <<call, inflight, lk, request>>
  BY <1>5 DEF RefreshInv, OneRefresh, UnderLock, AskedFirst, Refreshing, Critical, In,
     Holding
<1>6. ASSUME NEW w \in Worker, ToolEnds(w) \/ OperationAnswered(w) PROVE RefreshInv'
  BY <1>5, <1>6 DEF ToolEnds, OperationAnswered, vars, clientVars, lockVars
<1>7. ASSUME NEW t \in Token, TimePasses(t), UNCHANGED workerVars PROVE RefreshInv'
  BY <1>5, <1>7 DEF TimePasses, workerVars, lockVars
<1>8. CASE LockGrowsOld /\ UNCHANGED workerVars
  BY <1>5, <1>8 DEF LockGrowsOld, GrowOld, clientVars, workerVars
<1>9. CASE UNCHANGED allVars
  BY <1>5, <1>9 DEF allVars, vars, clientVars, lockVars, workerVars
<1> QED
  BY <1>1, <1>2, <1>3, <1>4, <1>6, <1>7, <1>8, <1>9 DEF Next, WorkerStep

-----------------------------------------------------------------------------
(* The tokens.                                                             *)

\* A step that no call takes to post or to answer, and that drops no answer
\* without a trace.
LEMMA TokenFrame ==
  ASSUME TokenInv,
         stolen => stolen', lost => lost',
         provider.live \subseteq provider'.live,
         stored' \in {stored, NoToken} \cup provider'.live,
         \A d \in Client : call'[d].pc \in {"post", "answer"} =>
           /\ call'[d].pc = call[d].pc
           /\ call'[d].tried = call[d].tried /\ call'[d].out = call[d].out,
         \A d \in Client : call'[d].pc = "post" /\ eph[WorkerOf[d]] # NoToken =>
           eph'[WorkerOf[d]] # NoToken,
         \A d \in Client : In(d, "answer") =>
           lost' \/ call'[d].pc = "answer"
  PROVE  TokenInv'
<1>1. FreshOut' BY DEF TokenInv, FreshOut, In
<1>2. SpentOnce' BY DEF TokenInv, SpentOnce, In
<1>3. StoredUsable'
  BY DEF TokenInv, StoredUsable, In
<1> QED BY <1>1, <1>2, <1>3 DEF TokenInv

\* A step that leaves the tokens and all calls but one alone, which goes
\* neither to post nor to answer and does not come from answer.
LEMMA OneCallTokens ==
  ASSUME TokenInv, ClientTypeOK, NEW c \in Client,
         stolen => stolen', UNCHANGED lost, UNCHANGED <<eph, provider>>,
         stored' \in {stored, NoToken},
         \A d \in Client \ {c} : call'[d] = call[d],
         call'[c].pc \notin {"post", "answer"}, ~In(c, "answer")
  PROVE  TokenInv'
BY TokenFrame DEF In

LEMMA EntersTokens ==
  ASSUME ClientTypeOK, NEW c \in Client, NEW r \in CallStates, EntersRefresh(c, r)
  PROVE  /\ \A d \in Client \ {c} : call'[d] = call[d]
         /\ call'[c].pc \in {"join", "lock"}
<1>1. \A pc : [r EXCEPT !.pc = pc].pc = pc BY DEF CallStates
<1>2. \E pc \in {"join", "lock"} : Becomes(c, [r EXCEPT !.pc = pc])
  BY DEF EntersRefresh
<1>3. PICK pc \in {"join", "lock"} : Becomes(c, [r EXCEPT !.pc = pc]) BY <1>2
<1> QED BY <1>1, <1>3, BecomesAt

LEMMA BeginTokens ==
  ASSUME TokenInv, ClientTypeOK, NEW c \in Client, Begin(c), stolen => stolen'
  PROVE  TokenInv'
<1> DEFINE r == [call[c] EXCEPT !.seen = Found(c)]
<1>1. r \in CallStates BY FoundType, CallType, FieldTypes DEF CallPcs
<1>2. /\ \A d \in Client \ {c} : call'[d] = call[d]
      /\ call'[c].pc \in {"join", "lock", "over", "api"}
  <2>1. CASE EntersRefresh(c, r) BY <1>1, <2>1, EntersTokens
  <2>2. CASE Becomes(c, Over("need_auth"))
    <3>1. Over("need_auth").pc = "over" BY DEF Over, NoCall
    <3> QED BY <2>2, <3>1, BecomesAt
  <2>3. CASE Becomes(c, ApiCall(c, Found(c), FALSE))
    <3>1. ApiCall(c, Found(c), FALSE).pc = "api" BY DEF ApiCall, NoCall
    <3> QED BY <2>3, <3>1, BecomesAt
  <2> QED BY <2>1, <2>2, <2>3 DEF Begin, Ends
<1> QED BY <1>2, OneCallTokens DEF Begin, In

LEMMA RejectedTokens ==
  ASSUME TokenInv, ClientTypeOK, NEW c \in Client, Rejected(c), stolen => stolen'
  PROVE  TokenInv'
<1>1. Retry(c, Found(c)) \in CallStates
  BY FoundType, CallType, NoCallType DEF Retry, CallStates
<1>2. /\ \A d \in Client \ {c} : call'[d] = call[d]
      /\ call'[c].pc \in {"join", "lock", "over"}
  <2>1. CASE EntersRefresh(c, Retry(c, Found(c))) BY <1>1, <2>1, EntersTokens
  <2>2. CASE Becomes(c, Over("need_auth"))
    <3>1. Over("need_auth").pc = "over" BY DEF Over, NoCall
    <3> QED BY <2>2, <3>1, BecomesAt
  <2> QED BY <2>1, <2>2 DEF Rejected, Ends
<1> QED BY <1>2, OneCallTokens DEF Rejected, In

LEMMA UnlocksAt ==
  ASSUME ClientTypeOK, NEW c \in Client, NEW t, Unlocks(c, t)
  PROVE  call'[c].pc = "unlock" /\ \A d \in Client \ {c} : call'[d] = call[d]
<1> DEFINE r == [call[c] EXCEPT !.pc = "unlock", !.out = t]
<1>1. r.pc = "unlock" BY CallType DEF CallStates
<1>2. Becomes(c, r) BY DEF Unlocks
<1> HIDE DEF r
<1> QED BY <1>1, <1>2, BecomesAt

LEMMA ThrowsAt ==
  ASSUME ClientTypeOK, NEW c \in Client, Throws(c)
  PROVE  call'[c].pc = "unlock" /\ \A d \in Client \ {c} : call'[d] = call[d]
<1> DEFINE r == [call[c] EXCEPT !.pc = "unlock", !.out = NoToken, !.failed = TRUE]
<1>1. r.pc = "unlock" BY CallType DEF CallStates
<1>2. Becomes(c, r) BY DEF Throws
<1> HIDE DEF r
<1> QED BY <1>1, <1>2, BecomesAt

LEMMA DropsAt ==
  ASSUME ClientTypeOK, NEW c \in Client, NEW t, Drops(c, t)
  PROVE  call'[c].pc = "removing" /\ \A d \in Client \ {c} : call'[d] = call[d]
<1> DEFINE r == [call[c] EXCEPT !.pc = "removing", !.tried = t]
<1>1. r.pc = "removing" BY CallType DEF CallStates
<1>2. Becomes(c, r) BY DEF Drops
<1> HIDE DEF r
<1> QED BY <1>1, <1>2, BecomesAt

LEMMA WrittenAt ==
  ASSUME ClientTypeOK, NEW c \in Client, Becomes(c, [call[c] EXCEPT !.pc = "chmod"])
  PROVE  call'[c].pc = "chmod" /\ \A d \in Client \ {c} : call'[d] = call[d]
<1> DEFINE r == [call[c] EXCEPT !.pc = "chmod"]
<1>1. r.pc = "chmod" BY CallType DEF CallStates
<1>2. Becomes(c, r) OBVIOUS
<1> HIDE DEF r
<1> QED BY <1>1, <1>2, BecomesAt

\* With the lock, the token read again is usable: no refresh is about to replace
\* it.
LEMMA DecideTokens ==
  ASSUME LockInv, RefreshInv, TokenInv, ClientTypeOK, NEW c \in Client, Decide(c)
  PROVE  TokenInv'
<1> DEFINE t == Reread(c)
           r == [call[c] EXCEPT !.pc = "post", !.tried = t]
<1>1. UNCHANGED <<stolen, lost, stored, provider>> BY DEF Decide, lockVars
<1>2. In(c, "lock") /\ WorkerOf[c] \in Holding
  BY ClientAssumption DEF Decide, At, Holding
<1>3. CASE Unlocks(c, t) /\ UNCHANGED eph
  <2>1. call'[c].pc = "unlock" /\ \A d \in Client \ {c} : call'[d] = call[d]
    BY <1>3, UnlocksAt
  <2> QED BY <1>1, <1>2, <1>3, <2>1, OneCallTokens DEF In
<1>4. CASE Drops(c, t)
  <2>1. call'[c].pc = "removing" /\ \A d \in Client \ {c} : call'[d] = call[d]
    BY <1>4, DropsAt
  <2>2. \A d \in Client : call'[d].pc = "post" => WorkerOf[d] # WorkerOf[c]
    BY <1>2, <2>1 DEF RefreshInv, OneRefresh, Refreshing, Critical, In
  <2>3. \A w \in Worker : w # WorkerOf[c] => eph'[w] = eph[w]
    BY <1>4 DEF Drops, ClientTypeOK
  <2> QED BY <1>1, <1>2, <2>1, <2>2, <2>3, TokenFrame, ClientAssumption DEF In
<1>5. CASE t # NoToken /\ Becomes(c, r) /\ UNCHANGED eph
  <2>1. /\ call'[c].pc = "post" /\ call'[c].tried = t
        /\ \A d \in Client \ {c} : call'[d] = call[d]
    <3>1. r.pc = "post" /\ r.tried = t BY CallType DEF CallStates
    <3> HIDE DEF r
    <3> QED BY <1>5, <3>1, BecomesAt
  <2>2. \/ t \in provider.live \/ stolen \/ lost
        \/ eph[WorkerOf[c]] # NoToken
    <3>1. SUFFICES ASSUME ~stolen, ~lost, eph[WorkerOf[c]] = NoToken
                   PROVE  t \in provider.live
      OBVIOUS
    <3>2. t = stored BY <3>1 DEF Reread, Found
    <3>3. ASSUME NEW d \in Client, In(d, "answer") PROVE FALSE
      <4>1. Critical(d) BY <3>3 DEF In, Critical
      <4>2. c = d BY <1>2, <3>1, <4>1, RefreshAlone DEF Refreshing
      <4> QED BY <1>2, <3>3, <4>2 DEF In
    <3> QED BY <1>5, <3>1, <3>2, <3>3 DEF TokenInv, StoredUsable
  <2>3. FreshOut' BY <1>1, <2>1 DEF TokenInv, FreshOut, In
  <2>4. SpentOnce' BY <1>1, <1>5, <2>1, <2>2 DEF TokenInv, SpentOnce, In
  <2>5. StoredUsable' BY <1>1, <1>2, <2>1 DEF TokenInv, StoredUsable, In
  <2> QED BY <2>3, <2>4, <2>5 DEF TokenInv
<1> QED BY <1>3, <1>4, <1>5 DEF Decide

\* The provider spends the token of the one refresh there is.
LEMMA PostTokens ==
  ASSUME LockInv, RefreshInv, TokenInv, ClientTypeOK, NEW c \in Client, Post(c)
  PROVE  TokenInv'
<1> DEFINE t == call[c].tried
<1>1. UNCHANGED <<stolen, lost, stored>> BY DEF Post, lockVars
<1>2. In(c, "post") /\ Critical(c) BY DEF Post, In, Critical
<1>3. CASE /\ t \in provider.live
           /\ Issues(provider.live \ {t})
           /\ Becomes(c, [call[c] EXCEPT !.pc = "answer", !.out = NextToken])
           /\ UNCHANGED eph
  <2> DEFINE r == [call[c] EXCEPT !.pc = "answer", !.out = NextToken]
  <2>1. /\ call'[c].pc = "answer" /\ call'[c].out = NextToken /\ call'[c].tried = t
        /\ \A d \in Client \ {c} : call'[d] = call[d]
    <3>1. r.pc = "answer" /\ r.out = NextToken /\ r.tried = t
      BY CallType DEF CallStates
    <3> HIDE DEF r
    <3> QED BY <1>3, <3>1, BecomesAt DEF r
  <2>2. provider'.live = (provider.live \ {t}) \cup {NextToken}
    BY <1>3 DEF Issues
  <2>3. stolen \/ \A d \in Client \ {c} : ~Critical(d)
    <3>1. ASSUME ~stolen, NEW d \in Client \ {c}, Critical(d) PROVE FALSE
      <4>1. WorkerOf[d] \in Holding BY <3>1 DEF RefreshInv, UnderLock
      <4> QED BY <1>2, <3>1, <4>1, RefreshAlone DEF Refreshing
    <3> QED BY <3>1
  <2>4. FreshOut' BY <1>1, <2>1, <2>2, <2>3 DEF TokenInv, FreshOut, In, Critical
  <2>5. SpentOnce' BY <1>1, <2>1, <2>3 DEF TokenInv, SpentOnce, In, Critical
  <2>6. StoredUsable'
    BY <1>1, <1>2, <2>1, <2>2, <2>3 DEF TokenInv, StoredUsable, In, Critical
  <2> QED BY <2>4, <2>5, <2>6 DEF TokenInv
<1>4. CASE Drops(c, t) /\ UNCHANGED provider
  <2>1. call'[c].pc = "removing" /\ \A d \in Client \ {c} : call'[d] = call[d]
    BY <1>4, DropsAt
  <2>2. \A d \in Client : call'[d].pc = "post" => WorkerOf[d] # WorkerOf[c]
    BY <1>2, <2>1 DEF RefreshInv, OneRefresh, Refreshing, Critical, In
  <2>3. \A w \in Worker : w # WorkerOf[c] => eph'[w] = eph[w]
    BY <1>4 DEF Drops, ClientTypeOK
  <2> QED BY <1>1, <1>2, <1>4, <2>1, <2>2, <2>3, TokenFrame, ClientAssumption DEF In
<1>5. CASE /\ Becomes(c, [call[c] EXCEPT !.again = TRUE])
           /\ UNCHANGED <<eph, provider>>
  <2> DEFINE r == [call[c] EXCEPT !.again = TRUE]
  <2>1. r.pc = call[c].pc /\ r.tried = t /\ r.out = call[c].out
    BY CallType DEF CallStates
  <2>2. Becomes(c, r) BY <1>5
  <2> HIDE DEF r
  <2>3. /\ call'[c].pc = "post" /\ call'[c].tried = t
        /\ \A d \in Client \ {c} : call'[d] = call[d]
    BY <1>2, <1>5, <2>1, <2>2, BecomesAt DEF In
  <2>4. call'[c].out = call[c].out BY <1>5, <2>1, <2>2, BecomesAt
  <2> QED BY <1>1, <1>2, <1>5, <2>3, <2>4, TokenFrame DEF In
<1>6. CASE Throws(c) /\ UNCHANGED <<eph, provider>>
  <2>1. call'[c].pc = "unlock" /\ \A d \in Client \ {c} : call'[d] = call[d]
    BY <1>6, ThrowsAt
  <2> QED BY <1>1, <1>2, <1>6, <2>1, OneCallTokens DEF In
<1> QED BY <1>3, <1>4, <1>5, <1>6 DEF Post

LEMMA AnswerTokens ==
  ASSUME TokenInv, ClientTypeOK, NEW c \in Client, Answer(c)
  PROVE  TokenInv'
<1>1. UNCHANGED <<stolen, eph, provider>> BY DEF Answer, lockVars
<1>2. In(c, "answer") BY DEF Answer
<1>3. CASE /\ stored' = Rotated(c) /\ UNCHANGED lost
           /\ Becomes(c, [call[c] EXCEPT !.pc = "chmod"])
  <2>1. call'[c].pc = "chmod" /\ \A d \in Client \ {c} : call'[d] = call[d]
    BY <1>3, WrittenAt
  <2>2. stored' \in provider.live \/ stolen \/ lost
    BY <1>2, <1>3 DEF TokenInv, FreshOut, Rotated
  <2>3. FreshOut' BY <1>1, <1>3, <2>1 DEF TokenInv, FreshOut, In
  <2>4. SpentOnce' BY <1>1, <1>3, <2>1 DEF TokenInv, SpentOnce, In
  <2>5. StoredUsable' BY <1>1, <1>3, <2>2 DEF StoredUsable
  <2> QED BY <2>3, <2>4, <2>5 DEF TokenInv
<1>4. CASE Throws(c) /\ lost' = TRUE /\ UNCHANGED stored
  <2>1. call'[c].pc = "unlock" /\ \A d \in Client \ {c} : call'[d] = call[d]
    BY <1>4, ThrowsAt
  <2> QED BY <1>1, <1>4, <2>1, TokenFrame
<1> QED BY <1>3, <1>4 DEF Answer

LEMMA OtherTokens ==
  ASSUME TokenInv, ClientTypeOK, NEW c \in Client, stolen => stolen',
         Removed(c) \/ Stored(c) \/ Joined(c) \/ Api(c) \/ SetEnds(c)
  PROVE  TokenInv'
<1>1. UNCHANGED <<lost, eph, provider>> /\ stored' \in {stored, NoToken}
  BY DEF Removed, Stored, Joined, Api, SetEnds
<1>2. ~In(c, "answer") BY DEF Removed, Stored, Joined, Api, SetEnds, In
<1>3. /\ call'[c].pc \in {"over", "api", "unlock"}
      /\ \A d \in Client \ {c} : call'[d] = call[d]
  <2>1. \A result : Over(result).pc = "over" BY DEF Over, NoCall
  <2>2. ApiCall(c, Found(c), TRUE).pc = "api" BY DEF ApiCall, NoCall
  <2>3. CASE Removed(c) \/ Stored(c)
    BY <2>3, UnlocksAt, ThrowsAt DEF Removed, Stored
  <2>4. CASE Joined(c) \/ Api(c) \/ SetEnds(c)
    BY <2>1, <2>2, <2>4, BecomesAt DEF Joined, Api, SetEnds, Ends
  <2> QED BY <2>3, <2>4
<1> QED BY <1>1, <1>2, <1>3, OneCallTokens

LEMMA LeavesTokens ==
  ASSUME TokenInv, ClientTypeOK, NEW c \in Client, stolen => stolen', Leaves(c)
  PROVE  TokenInv'
<1>1. UNCHANGED <<lost, eph, provider, stored>> /\ ~In(c, "answer")
  BY DEF Leaves, In
<1>2. /\ call'[c].pc \in {"over", "api"}
      /\ \A d \in Client \ {c} :
           \/ call'[d] = call[d]
           \/ In(d, "join") /\ call'[d].pc \in {"over", "joined"}
  BY SettledPcs DEF Leaves
<1> QED BY <1>1, <1>2, TokenFrame DEF In

LEMMA GoneTokens ==
  ASSUME TokenInv, ClientTypeOK, NEW w \in Worker, Gone(w), stolen => stolen'
  PROVE  TokenInv'
<1>1. \A d \in Client : call'[d] = IF WorkerOf[d] = w THEN NoCall ELSE call[d]
  BY DEF Gone, ProcessGone
<1>2. UNCHANGED <<stored, provider>> BY DEF Gone, ProcessGone
<1>3. \A v \in Worker \ {w} : eph'[v] = eph[v]
  BY DEF Gone, ProcessGone, ClientTypeOK
<1>4. lost' = (lost \/ \E c \in ClientsOf(w) : In(c, "answer"))
  BY DEF Gone, ProcessGone
<1>5. \A d \in Client : In(d, "answer") /\ WorkerOf[d] = w => lost'
  BY <1>4 DEF ClientsOf
<1>6. NoCall.pc = "idle" BY DEF NoCall
<1>7. lost => lost' BY <1>4
<1> QED
  BY <1>1, <1>2, <1>3, <1>5, <1>6, <1>7, TokenFrame, ClientAssumption DEF In

\* A removal drops the token in memory of a worker that makes no call.
LEMMA RevokeTokens ==
  ASSUME TokenInv, ClientTypeOK, RefreshInv, NEW w \in Worker, NEW r, Asked(w, r),
         Revoke(Single[w])
  PROVE  TokenInv'
<1> DEFINE c == Single[w]
<1>1. c \in Client /\ WorkerOf[c] = w BY RequestAssumption
<1>2. Over("ok").pc = "over" BY DEF Over, NoCall
<1>3. call'[c].pc = "over" /\ \A d \in Client \ {c} : call'[d] = call[d]
  BY <1>1, <1>2, BecomesAt DEF Revoke, Ends
<1>4. UNCHANGED <<stolen, lost, provider>> /\ stored' = NoToken /\ In(c, "idle")
  BY DEF Revoke, Operates, lockVars
<1>5. \A v \in Worker \ {w} : eph'[v] = eph[v] BY <1>1 DEF Revoke, ClientTypeOK
<1>6. \A d \in Client : WorkerOf[d] = w => In(d, "idle") BY AskedIdle
<1> QED
  BY <1>1, <1>3, <1>4, <1>5, <1>6, TokenFrame, ClientAssumption DEF In

LEMMA SetTokens ==
  ASSUME TokenInv, ClientTypeOK, NEW c \in Client, SetToken(c)
  PROVE  TokenInv'
<1> DEFINE Put == [call[c] EXCEPT !.pc = "put"]
<1>1. Over("error").pc = "over" BY DEF Over, NoCall
<1>2. Put.pc = "put" BY CallType DEF CallStates
<1>3. Becomes(c, Put) \/ Becomes(c, Over("error")) BY DEF SetToken, Ends
<1>4. call'[c].pc \in {"put", "over"} /\ \A d \in Client \ {c} : call'[d] = call[d]
  <2> HIDE DEF Put
  <2> QED BY <1>1, <1>2, <1>3, BecomesAt
<1>5. provider'.live = provider.live \cup {NextToken} BY DEF SetToken, Issues
<1>6. stored' \in {stored, NextToken} BY DEF SetToken
<1>7. UNCHANGED <<stolen, lost, eph>> /\ In(c, "idle")
  BY DEF SetToken, Operates, lockVars
<1> QED BY <1>4, <1>5, <1>6, <1>7, TokenFrame DEF In

LEMMA SeedTokens ==
  ASSUME TokenInv, ClientTypeOK, NEW w \in Worker, InvokeSeeded(w)
  PROVE  TokenInv'
<1>1. UNCHANGED <<stolen, lost, stored, call>> BY DEF InvokeSeeded, lockVars
<1>2. provider.live \subseteq provider'.live
  BY DEF InvokeSeeded, Issues, ClientTypeOK
<1>3. eph'[w] # NoToken /\ \A v \in Worker \ {w} : eph'[v] = eph[v]
  <2>1. PICK t \in Token : eph' = [eph EXCEPT ![w] = t]
    <3>1. CASE \E t \in provider.issued : eph' = [eph EXCEPT ![w] = t]
      BY <3>1 DEF ClientTypeOK
    <3>2. CASE provider.issued # Token /\ eph' = [eph EXCEPT ![w] = NextToken]
      BY <3>2, NextTokenType
    <3> QED BY <3>1, <3>2 DEF InvokeSeeded
  <2> QED BY <2>1, ClientAssumption DEF ClientTypeOK
<1> QED BY <1>1, <1>2, <1>3, TokenFrame, ClientAssumption DEF In

\* TokenInv is kept by every step.
LEMMA TokenNext ==
  BridgeInv /\ [Next]_allVars => TokenInv'
<1> SUFFICES ASSUME BridgeInv, [Next]_allVars PROVE TokenInv'
  OBVIOUS
<1> USE DEF BridgeInv
<1>1. stolen => stolen' BY StolenStays
<1>2. ASSUME NEW w \in Worker, TokenOperation(w) PROVE TokenInv'
  <2>1. CASE Asked(w, "token_get") /\ GetToken(Single[w])
    <3>1. Single[w] \in Client BY RequestAssumption
    <3>2. Over("ok").pc = "over" BY DEF Over, NoCall
    <3> QED
      BY <1>1, <2>1, <3>1, <3>2, BecomesAt, OneCallTokens
         DEF GetToken, Ends, Operates, In
  <2>2. CASE SetToken(Single[w]) BY <2>2, SetTokens, RequestAssumption
  <2>3. CASE Asked(w, "token_remove") /\ Revoke(Single[w])
    BY <2>3, RevokeTokens
  <2> QED BY <1>2, <2>1, <2>2, <2>3 DEF TokenOperation
<1>3. ASSUME NEW w \in Worker, InvokeSeeded(w) PROVE TokenInv'
  BY <1>3, SeedTokens
<1>4. ASSUME NEW w \in Worker, Exit(w) \/ Kill(w) PROVE TokenInv'
  BY <1>1, <1>4, GoneTokens DEF Exit, Kill
<1>5. ASSUME NEW c \in Client, ToolCalls(c) PROVE TokenInv'
  BY <1>1, <1>5, BeginTokens DEF ToolCalls
<1>6. CASE UNCHANGED <<call, stored, provider, eph, lost>>
  BY <1>1, <1>6, TokenFrame DEF In
<1>7. ASSUME NEW c \in Client, ClientStep(c) PROVE TokenInv'
  <2>1. CASE WorksForLock(c) \/ LooksAtLock(c)
    BY <1>6, <2>1 DEF WorksForLock, LooksAtLock, clientVars
  <2> QED
    BY <1>1, <1>7, <2>1, DecideTokens, PostTokens, AnswerTokens, RejectedTokens,
       OtherTokens, LeavesTokens DEF ClientStep, CallStep
<1>8. ASSUME NEW w \in Worker, Invoke(w) \/ AnswerAtOnce(w) \/ ToolEnds(w)
                               \/ OperationAnswered(w)
      PROVE  TokenInv'
  BY <1>6, <1>8 DEF Invoke, AnswerAtOnce, ToolEnds, OperationAnswered, vars, clientVars
<1>9. ASSUME NEW t \in Token, TimePasses(t) PROVE TokenInv'
  BY <1>6, <1>9 DEF TimePasses
<1>10. CASE LockGrowsOld \/ UNCHANGED allVars
  BY <1>6, <1>10 DEF LockGrowsOld, allVars, vars, clientVars
<1> QED
  BY <1>2, <1>3, <1>4, <1>5, <1>7, <1>8, <1>9, <1>10 DEF Next, WorkerStep

LEMMA BridgeInit == Init => BridgeInv
<1> SUFFICES ASSUME Init PROVE BridgeInv
  OBVIOUS
<1>1. LockInv /\ ClientTypeOK /\ WorkerTypeOK BY InitInv, InitTypes DEF Init
<1>2. \A c \in Client : call[c].pc = "idle"
  <2>1. NoCall.pc = "idle" BY DEF NoCall
  <2> QED BY <2>1 DEF Init, ClientInit
<1>3. RefreshInv
  BY <1>2 DEF RefreshInv, OneRefresh, UnderLock, AskedFirst, Refreshing, Critical, In
<1>4. stored = NoToken \/ stored \in provider.live BY DEF Init, ClientInit
<1>5. TokenInv BY <1>2, <1>4 DEF TokenInv, FreshOut, SpentOnce, StoredUsable, In
<1> QED BY <1>1, <1>3, <1>5 DEF BridgeInv

LEMMA BridgeNext == BridgeInv /\ [Next]_allVars => BridgeInv'
<1> SUFFICES ASSUME BridgeInv, [Next]_allVars PROVE BridgeInv'
  OBVIOUS
<1>1. LockInv' BY NextLock, NextInv DEF BridgeInv
<1>2. ClientTypeOK' /\ WorkerTypeOK' BY ClientTypes, WorkerTypes DEF BridgeInv
<1>3. RefreshInv' BY RefreshNext DEF BridgeInv, LockInv
<1>4. TokenInv' BY TokenNext
<1> QED BY <1>1, <1>2, <1>3, <1>4 DEF BridgeInv

\* The inductive invariant holds in every reachable state.
THEOREM BridgeInvariant == Spec => []BridgeInv
BY BridgeInit, BridgeNext, PTL DEF Spec

\* For any workers, calls, requests, tokens and faults, a refresh posts a token
\* that still works, but for the exceptions SpentOnce names (refreshWithLock).
THEOREM TokenSpentOnce == Spec => []SpentOnce
<1>1. BridgeInv => SpentOnce BY DEF BridgeInv, TokenInv
<1> QED BY <1>1, BridgeInvariant, PTL

\* For any workers, calls, requests, tokens and faults, the stored token can be
\* refreshed or is about to be replaced, but for a stolen lock or a lost answer.
THEOREM StoredStaysUsable == Spec => []StoredUsable
<1>1. BridgeInv => StoredUsable BY DEF BridgeInv, TokenInv
<1> QED BY <1>1, BridgeInvariant, PTL
-----------------------------------------------------------------------------
(* The token of a retry.                                                   *)

\* A token somebody may use: it is stored or in memory, or a call has it, other
\* than as the answer it waits for.
Visible(t) ==
  \/ t = stored
  \/ \E w \in Worker : eph[w] = t
  \/ \E c \in Client : \/ t \in {call[c].used, call[c].refused}
                       \/ call[c].out = t /\ ~In(c, "answer")

\* A rotated token is in nobody's hands before its answer arrives.
Unseen ==
  /\ \A t \in Token : Visible(t) => t \in provider.issued
  /\ \A c \in Client : In(c, "answer") =>
       /\ call[c].out \in provider.issued
       /\ ~Visible(call[c].out)
       /\ \A d \in Client \ {c} : In(d, "answer") => call[d].out # call[c].out

\* From the rejection on, the refused token is the one the refresh takes for used
\* up, or is not found any more; what the refresh yields is another one.
RetryAhead(c) ==
  /\ In(c, "idle") => call[c].refused = NoToken
  /\ In(c, "lock") /\ call[c].refused # NoToken =>
       /\ call[c].force
       /\ call[c].seen = call[c].refused \/ Found(c) # call[c].refused
  /\ call[c].pc \in {"answer", "chmod", "unlock"} /\ call[c].refused # NoToken =>
       call[c].out # call[c].refused
  /\ In(c, "api") /\ call[c].refused # NoToken /\ ~call[c].joined =>
       call[c].used # call[c].refused

RetryInv == Unseen /\ \A c \in Client : RetryAhead(c)

\* What a step may leave in somebody's hands: no token, or one that no call which
\* the step leaves alone waits for.
Known(t) ==
  \/ t = NoToken
  \/ /\ t \in provider'.issued
     /\ \A c \in Client : In(c, "answer") /\ call'[c] = call[c] => call[c].out # t

LEMMA VisibleKnown ==
  ASSUME Unseen, provider.issued \subseteq provider'.issued, NEW t \in Tokens, Visible(t)
  PROVE  Known(t)
BY DEF Unseen, Known, Tokens

LEMMA NewKnown ==
  ASSUME Unseen, NEW t \in provider'.issued \ provider.issued
  PROVE  Known(t)
BY DEF Unseen, Known

\* A step that takes nobody to answer and hands out only known tokens.
LEMMA UnseenFrame ==
  ASSUME Unseen, ClientTypeOK,
         provider.issued \subseteq provider'.issued,
         Known(stored'), \A w \in Worker : Known(eph'[w]),
         \A c \in Client :
           \/ call'[c] = call[c]
           \/ /\ call'[c].pc # "answer"
              /\ Known(call'[c].used) /\ Known(call'[c].refused) /\ Known(call'[c].out)
  PROVE  Unseen'
<1>1. ASSUME NEW t \in Token, Visible(t)' PROVE Known(t)
  <2>1. CASE t = stored' \/ \E w \in Worker : eph'[w] = t BY <2>1
  <2>2. ASSUME NEW c \in Client, call'[c] = call[c],
               \/ t \in {call'[c].used, call'[c].refused}
               \/ call'[c].out = t /\ call'[c].pc # "answer"
        PROVE  Known(t)
    <3>1. Visible(t) BY <2>2 DEF Visible, In
    <3> QED BY <3>1, VisibleKnown DEF Tokens
  <2> QED BY <1>1, <2>1, <2>2 DEF Visible, In
<1>2. \A t \in Token : Visible(t)' => t \in provider'.issued
  BY <1>1, ClientAssumption DEF Known
<1>3. \A c \in Client : call'[c].pc = "answer" => call'[c] = call[c] /\ In(c, "answer")
  BY DEF In
<1>4. ASSUME NEW c \in Client, call'[c].pc = "answer"
      PROVE  /\ call'[c].out \in provider'.issued
             /\ ~Visible(call[c].out)'
             /\ \A d \in Client \ {c} : call'[d].pc = "answer" => call'[d].out # call'[c].out
  <2>1. /\ call[c].out \in provider.issued
        /\ \A d \in Client \ {c} : In(d, "answer") => call[d].out # call[c].out
    BY <1>3, <1>4 DEF Unseen
  <2>2. call[c].out \in Token BY <2>1 DEF ClientTypeOK
  <2>3. ~Known(call[c].out) BY <1>3, <1>4, <2>2, ClientAssumption DEF Known
  <2>4. /\ call'[c].out = call[c].out
        /\ \A d \in Client \ {c} : call'[d].pc = "answer" => call'[d].out # call'[c].out
    BY <1>3, <1>4, <2>1
  <2>5. \A t : t = call'[c].out => ~Visible(t)' BY <1>1, <2>2, <2>3, <2>4
  <2>6. ~Visible(call[c].out)' BY <2>5 DEF Visible
  <2> QED BY <2>1, <2>4, <2>6
<1> QED BY <1>2, <1>4 DEF Unseen, In

\* The calls a step leaves alone keep their retry ahead, when nothing comes back
\* into the store and nobody drops the token in memory of a worker that refreshes.
LEMMA RetryFrame ==
  ASSUME RetryInv, ClientTypeOK,
         stored' \in {stored, NoToken} \/ ~Visible(stored'),
         \A c \in Client : In(c, "lock") => \/ eph'[WorkerOf[c]] = eph[WorkerOf[c]]
                                            \/ call'[c] # call[c],
         NEW c \in Client, call'[c] = call[c]
  PROVE  RetryAhead(c)'
<1>1. RetryAhead(c) BY DEF RetryInv
<1>2. ASSUME In(c, "lock"), call[c].refused # NoToken, Found(c) # call[c].refused
      PROVE  Found(c)' # call[c].refused
  <2>1. eph'[WorkerOf[c]] = eph[WorkerOf[c]] BY <1>2
  <2>2. CASE eph[WorkerOf[c]] # NoToken BY <1>2, <2>1, <2>2 DEF Found
  <2>3. CASE eph[WorkerOf[c]] = NoToken
    <3>1. Found(c) = stored /\ Found(c)' = stored' BY <2>1, <2>3 DEF Found
    <3>2. Visible(call[c].refused) BY DEF Visible
    <3> QED BY <1>2, <3>1, <3>2
  <2> QED BY <2>2, <2>3
<1> QED BY <1>1, <1>2 DEF RetryAhead, In

\* Nothing is asked of a call on its way to where a token shows.
LEMMA RetryElsewhere ==
  ASSUME NEW c \in Client,
         \/ call'[c].pc \in {"join", "joined", "post", "removing", "put", "over"}
         \/ call'[c].refused = NoToken
  PROVE  RetryAhead(c)'
BY DEF RetryAhead, In

\* The tokens in what a call becomes.
LEMMA OverFields ==
  ASSUME NEW result
  PROVE  /\ Over(result).pc = "over"
         /\ Over(result).used = NoToken /\ Over(result).refused = NoToken
         /\ Over(result).out = NoToken
BY DEF Over, NoCall

LEMMA RetryFields ==
  ASSUME NEW c \in Client, NEW t
  PROVE  /\ Retry(c, t).seen = t /\ Retry(c, t).refused = call[c].used
         /\ Retry(c, t).used = NoToken /\ Retry(c, t).out = NoToken
         /\ Retry(c, t).force
BY DEF Retry, NoCall

LEMMA FoundKnown ==
  ASSUME Unseen, ClientTypeOK, provider.issued \subseteq provider'.issued,
         NEW c \in Client
  PROVE  Known(Found(c))
<1>1. Visible(Found(c)) BY ClientAssumption DEF Visible, Found
<1> QED BY <1>1, FoundType, VisibleKnown

LEMMA OwnKnown ==
  ASSUME Unseen, ClientTypeOK, provider.issued \subseteq provider'.issued,
         NEW c \in Client
  PROVE  /\ Known(call[c].used) /\ Known(call[c].refused)
         /\ ~In(c, "answer") => Known(call[c].out)
<1>1. {call[c].used, call[c].refused, call[c].out} \subseteq Tokens
  BY CallType DEF CallStates
<1>2. /\ Visible(call[c].used) /\ Visible(call[c].refused)
      /\ ~In(c, "answer") => Visible(call[c].out)
  BY DEF Visible
<1> QED BY <1>1, <1>2, VisibleKnown

LEMMA HandsKnown ==
  ASSUME Unseen, ClientTypeOK, provider.issued \subseteq provider'.issued
  PROVE  Known(NoToken) /\ Known(stored) /\ \A w \in Worker : Known(eph[w])
<1>1. Visible(stored) /\ \A w \in Worker : Visible(eph[w]) BY DEF Visible
<1>2. Known(NoToken) BY DEF Known
<1> QED BY <1>1, <1>2, VisibleKnown DEF ClientTypeOK

LEMMA NextTokenNew ==
  ASSUME Unseen, ClientTypeOK, provider.issued # Token
  PROVE  /\ NextToken \in Token \ provider.issued
         /\ ~Visible(NextToken)
BY NextTokenType DEF Unseen

\* A call goes for the lock, or waits for the refresh of another.
LEMMA EntersFields ==
  ASSUME ClientTypeOK, NEW c \in Client, NEW r \in CallStates, EntersRefresh(c, r)
  PROVE  /\ \A d \in Client \ {c} : call'[d] = call[d]
         /\ call'[c].pc \in {"join", "lock"}
         /\ call'[c].used = r.used /\ call'[c].refused = r.refused
         /\ call'[c].out = r.out /\ call'[c].seen = r.seen
         /\ r.force => call'[c].force
<1>1. PICK pc \in {"join", "lock"} : Becomes(c, [r EXCEPT !.pc = pc])
  BY DEF EntersRefresh
<1> DEFINE s == [r EXCEPT !.pc = pc]
<1>2. /\ s.pc = pc /\ s.used = r.used /\ s.refused = r.refused
      /\ s.out = r.out /\ s.seen = r.seen /\ (r.force => s.force)
  BY DEF CallStates
<1>3. Becomes(c, s) BY <1>1
<1> HIDE DEF s
<1> QED BY <1>2, <1>3, BecomesAt

\* A step of one call that gets no new token.
LEMMA OneCallRetry ==
  ASSUME RetryInv, ClientTypeOK, NEW c \in Client,
         \A d \in Client \ {c} : call'[d] = call[d],
         UNCHANGED provider, stored' \in {stored, NoToken},
         \A w \in Worker : eph'[w] \in {eph[w], NoToken},
         \A d \in Client \ {c} : In(d, "lock") => eph'[WorkerOf[d]] = eph[WorkerOf[d]],
         In(c, "lock") => \/ eph'[WorkerOf[c]] = eph[WorkerOf[c]]
                          \/ call'[c] # call[c],
         call'[c].pc # "answer",
         Known(call'[c].used), Known(call'[c].refused), Known(call'[c].out),
         RetryAhead(c)'
  PROVE  RetryInv'
<1>1. Known(NoToken) /\ Known(stored) /\ \A w \in Worker : Known(eph[w])
  BY HandsKnown DEF RetryInv
<1>2. Unseen' BY <1>1, UnseenFrame DEF RetryInv
<1>3. \A d \in Client \ {c} : RetryAhead(d)' BY RetryFrame
<1> QED BY <1>2, <1>3 DEF RetryInv

LEMMA BeginRetry ==
  ASSUME RetryInv, ClientTypeOK, NEW c \in Client, Begin(c)
  PROVE  RetryInv'
<1> DEFINE t == Found(c)
           r == [call[c] EXCEPT !.seen = t]
<1>1. UNCHANGED <<stored, eph, provider>> /\ In(c, "idle") BY DEF Begin
<1>2. call[c].refused = NoToken BY <1>1 DEF RetryInv, RetryAhead
<1>3. Known(t) /\ Known(call[c].used) /\ Known(call[c].out) /\ Known(NoToken)
  BY <1>1, FoundKnown, OwnKnown, HandsKnown DEF RetryInv, In
<1>4. /\ \A d \in Client \ {c} : call'[d] = call[d]
      /\ call'[c].pc # "answer" /\ call'[c].refused = NoToken
      /\ Known(call'[c].used) /\ Known(call'[c].out)
  <2>1. CASE Becomes(c, Over("need_auth"))
    BY <1>3, <2>1, BecomesAt, OverFields
  <2>2. CASE Becomes(c, ApiCall(c, t, FALSE))
    <3> DEFINE a == ApiCall(c, t, FALSE)
    <3>1. /\ a.pc = "api" /\ a.used = t /\ a.refused = call[c].refused
          /\ a.out = NoToken
      BY DEF ApiCall, NoCall
    <3>2. Becomes(c, a) BY <2>2
    <3> HIDE DEF a
    <3> QED BY <1>2, <1>3, <3>1, <3>2, BecomesAt
  <2>3. CASE EntersRefresh(c, r)
    <3>1. r \in CallStates BY FoundType, CallType, FieldTypes DEF CallPcs
    <3>2. r.used = call[c].used /\ r.refused = call[c].refused /\ r.out = call[c].out
      BY CallType DEF CallStates
    <3> HIDE DEF r
    <3>3. EntersRefresh(c, r) BY <2>3
    <3> QED BY <1>2, <1>3, <3>1, <3>2, <3>3, EntersFields
  <2> QED BY <2>1, <2>2, <2>3 DEF Begin, Ends
<1> QED BY <1>1, <1>3, <1>4, OneCallRetry, RetryElsewhere

LEMMA RejectedRetry ==
  ASSUME RetryInv, ClientTypeOK, NEW c \in Client, Rejected(c)
  PROVE  RetryInv'
<1> DEFINE t == Found(c)
           r == Retry(c, t)
<1>1. UNCHANGED <<stored, eph, provider>> /\ In(c, "api") BY DEF Rejected
<1>2. Known(t) /\ Known(call[c].used) /\ Known(NoToken)
  BY <1>1, FoundKnown, OwnKnown, HandsKnown DEF RetryInv
<1>3. CASE Becomes(c, Over("need_auth"))
  <2>1. /\ \A d \in Client \ {c} : call'[d] = call[d]
        /\ call'[c].pc = "over" /\ call'[c].refused = NoToken
        /\ call'[c].used = NoToken /\ call'[c].out = NoToken
    BY <1>3, BecomesAt, OverFields
  <2> QED BY <1>1, <1>2, <2>1, OneCallRetry, RetryElsewhere
<1>4. CASE EntersRefresh(c, r)
  <2>1. r \in CallStates
    BY FoundType, CallType, NoCallType DEF Retry, CallStates
  <2>2. /\ r.seen = t /\ r.refused = call[c].used /\ r.used = NoToken
        /\ r.out = NoToken /\ r.force
    BY RetryFields
  <2> HIDE DEF r
  <2>3. EntersRefresh(c, r) BY <1>4
  <2>4. /\ \A d \in Client \ {c} : call'[d] = call[d]
        /\ call'[c].pc \in {"join", "lock"}
        /\ call'[c].used = NoToken /\ call'[c].refused = call[c].used
        /\ call'[c].out = NoToken /\ call'[c].seen = t /\ call'[c].force
    BY <2>1, <2>2, <2>3, EntersFields
  <2>5. Found(c)' = t BY <1>1 DEF Found
  <2>6. RetryAhead(c)' BY <2>4, <2>5 DEF RetryAhead, In
  <2> QED BY <1>1, <1>2, <2>4, <2>6, OneCallRetry
<1> QED BY <1>3, <1>4 DEF Rejected, Ends

\* The fields of a call on its way to a token.
LEMMA UnderwayFields ==
  ASSUME ClientTypeOK, NEW c \in Client, NEW t, NEW pc
  PROVE  LET same(r) == r.used = call[c].used /\ r.refused = call[c].refused IN
         /\ same([call[c] EXCEPT !.pc = "unlock", !.out = t])
         /\ [call[c] EXCEPT !.pc = "unlock", !.out = t].pc = "unlock"
         /\ [call[c] EXCEPT !.pc = "unlock", !.out = t].out = t
         /\ same([call[c] EXCEPT !.pc = "unlock", !.out = NoToken, !.failed = TRUE])
         /\ [call[c] EXCEPT !.pc = "unlock", !.out = NoToken, !.failed = TRUE].pc = "unlock"
         /\ [call[c] EXCEPT !.pc = "unlock", !.out = NoToken, !.failed = TRUE].out = NoToken
         /\ same([call[c] EXCEPT !.pc = "removing", !.tried = t])
         /\ [call[c] EXCEPT !.pc = "removing", !.tried = t].pc = "removing"
         /\ [call[c] EXCEPT !.pc = "removing", !.tried = t].out = call[c].out
         /\ same([call[c] EXCEPT !.pc = "post", !.tried = t])
         /\ [call[c] EXCEPT !.pc = "post", !.tried = t].pc = "post"
         /\ [call[c] EXCEPT !.pc = "post", !.tried = t].out = call[c].out
         /\ same([call[c] EXCEPT !.pc = "answer", !.out = t])
         /\ [call[c] EXCEPT !.pc = "answer", !.out = t].pc = "answer"
         /\ [call[c] EXCEPT !.pc = "answer", !.out = t].out = t
         /\ same([call[c] EXCEPT !.again = TRUE])
         /\ [call[c] EXCEPT !.again = TRUE].pc = call[c].pc
         /\ [call[c] EXCEPT !.again = TRUE].out = call[c].out
         /\ same([call[c] EXCEPT !.pc = pc])
         /\ [call[c] EXCEPT !.pc = pc].pc = pc
         /\ [call[c] EXCEPT !.pc = pc].out = call[c].out
BY CallType DEF CallStates

\* With the lock, the token read again is kept when it is not the refused one.
LEMMA DecideRetry ==
  ASSUME RetryInv, RefreshInv, ClientTypeOK, NEW c \in Client, Decide(c)
  PROVE  RetryInv'
<1> DEFINE t == Reread(c)
<1>1. UNCHANGED <<stored, provider>> /\ In(c, "lock") /\ RetryAhead(c)
  BY DEF Decide, RetryInv
<1>2. Known(t) /\ Known(call[c].used) /\ Known(call[c].refused) /\ Known(call[c].out)
  BY <1>1, FoundKnown, OwnKnown DEF RetryInv, In, Reread
<1>3. \A d \in Client \ {c} : In(d, "lock") => WorkerOf[d] # WorkerOf[c]
  BY <1>1 DEF RefreshInv, OneRefresh, Refreshing
<1>4. CASE /\ Unlocks(c, t) /\ UNCHANGED eph
           /\ \/ t = NoToken \/ t # call[c].seen
              \/ ~call[c].force
  <2> DEFINE r == [call[c] EXCEPT !.pc = "unlock", !.out = t]
  <2>1. /\ r.pc = "unlock" /\ r.out = t
        /\ r.used = call[c].used /\ r.refused = call[c].refused
    BY UnderwayFields
  <2>2. Becomes(c, r) BY <1>4 DEF Unlocks
  <2> HIDE DEF r
  <2>3. /\ \A d \in Client \ {c} : call'[d] = call[d]
        /\ call'[c].pc = "unlock" /\ call'[c].out = t
        /\ call'[c].used = call[c].used /\ call'[c].refused = call[c].refused
    BY <2>1, <2>2, BecomesAt
  <2>4. call[c].refused # NoToken => t # call[c].refused
    BY <1>1, <1>4 DEF RetryAhead, Reread
  <2>5. RetryAhead(c)' BY <2>3, <2>4 DEF RetryAhead, In
  <2> QED BY <1>1, <1>2, <1>4, <2>3, <2>5, OneCallRetry
<1>5. CASE Drops(c, t)
  <2> DEFINE r == [call[c] EXCEPT !.pc = "removing", !.tried = t]
  <2>1. /\ r.pc = "removing" /\ r.out = call[c].out
        /\ r.used = call[c].used /\ r.refused = call[c].refused
    BY UnderwayFields
  <2>2. Becomes(c, r) BY <1>5 DEF Drops
  <2> HIDE DEF r
  <2>3. /\ \A d \in Client \ {c} : call'[d] = call[d]
        /\ call'[c].pc = "removing" /\ call'[c].out = call[c].out
        /\ call'[c].used = call[c].used /\ call'[c].refused = call[c].refused
    BY <2>1, <2>2, BecomesAt
  <2>4. eph' = [eph EXCEPT ![WorkerOf[c]] = NoToken] BY <1>5 DEF Drops
  <2>5. /\ \A w \in Worker : eph'[w] \in {eph[w], NoToken}
        /\ \A d \in Client \ {c} : In(d, "lock") => eph'[WorkerOf[d]] = eph[WorkerOf[d]]
    BY <1>3, <2>4, ClientAssumption DEF ClientTypeOK
  <2>6. call'[c] # call[c] BY <1>1, <2>3 DEF In
  <2> QED BY <1>1, <1>2, <2>3, <2>5, <2>6, OneCallRetry, RetryElsewhere
<1>6. CASE Becomes(c, [call[c] EXCEPT !.pc = "post", !.tried = t]) /\ UNCHANGED eph
  <2> DEFINE r == [call[c] EXCEPT !.pc = "post", !.tried = t]
  <2>1. /\ r.pc = "post" /\ r.out = call[c].out
        /\ r.used = call[c].used /\ r.refused = call[c].refused
    BY UnderwayFields
  <2>2. Becomes(c, r) BY <1>6
  <2> HIDE DEF r
  <2>3. /\ \A d \in Client \ {c} : call'[d] = call[d]
        /\ call'[c].pc = "post" /\ call'[c].out = call[c].out
        /\ call'[c].used = call[c].used /\ call'[c].refused = call[c].refused
    BY <2>1, <2>2, BecomesAt
  <2> QED BY <1>1, <1>2, <1>6, <2>3, OneCallRetry, RetryElsewhere
<1> QED BY <1>4, <1>5, <1>6 DEF Decide

\* A step of a refresh that ends it, or removes the token.
LEMMA UnlocksRetry ==
  ASSUME RetryInv, ClientTypeOK, NEW c \in Client, Unlocks(c, NoToken) \/ Throws(c),
         UNCHANGED <<eph, provider>>, stored' \in {stored, NoToken}
  PROVE  RetryInv'
<1>1. Known(NoToken) /\ Known(call[c].used) /\ Known(call[c].refused)
  BY OwnKnown, HandsKnown DEF RetryInv
<1>2. /\ \A d \in Client \ {c} : call'[d] = call[d]
      /\ call'[c].pc = "unlock" /\ call'[c].out = NoToken
      /\ call'[c].used = call[c].used /\ call'[c].refused = call[c].refused
  <2> DEFINE u == [call[c] EXCEPT !.pc = "unlock", !.out = NoToken]
             v == [call[c] EXCEPT !.pc = "unlock", !.out = NoToken, !.failed = TRUE]
  <2>1. /\ u.pc = "unlock" /\ u.out = NoToken
        /\ u.used = call[c].used /\ u.refused = call[c].refused
        /\ v.pc = "unlock" /\ v.out = NoToken
        /\ v.used = call[c].used /\ v.refused = call[c].refused
    BY UnderwayFields
  <2>2. Becomes(c, u) \/ Becomes(c, v) BY DEF Unlocks, Throws
  <2> HIDE DEF u, v
  <2> QED BY <2>1, <2>2, BecomesAt
<1>3. RetryAhead(c)' BY <1>2 DEF RetryAhead, In
<1> QED BY <1>1, <1>2, <1>3, OneCallRetry

LEMMA PostRetry ==
  ASSUME RetryInv, RefreshInv, ClientTypeOK, NEW c \in Client, Post(c)
  PROVE  RetryInv'
<1> DEFINE t == call[c].tried
<1>1. UNCHANGED stored /\ In(c, "post") BY DEF Post
<1>2. \A d \in Client \ {c} : In(d, "lock") => WorkerOf[d] # WorkerOf[c]
  BY <1>1 DEF RefreshInv, OneRefresh, Refreshing, Critical, In
<1>3. ASSUME UNCHANGED provider
      PROVE  Known(call[c].used) /\ Known(call[c].refused) /\ Known(call[c].out)
  BY <1>1, <1>3, OwnKnown DEF RetryInv, In
<1>4. CASE /\ provider.issued # Token /\ Issues(provider.live \ {t})
           /\ Becomes(c, [call[c] EXCEPT !.pc = "answer", !.out = NextToken])
           /\ UNCHANGED eph
  <2> DEFINE r == [call[c] EXCEPT !.pc = "answer", !.out = NextToken]
  <2>1. /\ r.pc = "answer" /\ r.out = NextToken
        /\ r.used = call[c].used /\ r.refused = call[c].refused
    BY UnderwayFields
  <2>2. Becomes(c, r) BY <1>4
  <2> HIDE DEF r
  <2>3. /\ \A d \in Client \ {c} : call'[d] = call[d]
        /\ call'[c].pc = "answer" /\ call'[c].out = NextToken
        /\ call'[c].used = call[c].used /\ call'[c].refused = call[c].refused
    BY <2>1, <2>2, BecomesAt
  <2>4. provider'.issued = provider.issued \cup {NextToken} BY <1>4 DEF Issues
  <2>5. NextToken \in Token \ provider.issued /\ ~Visible(NextToken)
    BY <1>4, NextTokenNew DEF RetryInv
  <2>6. \A x \in Token : Visible(x)' => Visible(x)
    <3>1. ASSUME NEW x \in Token, NEW d \in Client,
                 \/ x \in {call'[d].used, call'[d].refused}
                 \/ call'[d].out = x /\ call'[d].pc # "answer"
          PROVE  Visible(x)
      BY <2>3, <3>1 DEF Visible, In
    <3>2. UNCHANGED <<stored, eph>> BY <1>1, <1>4
    <3> QED BY <3>1, <3>2 DEF Visible, In
  <2>7. \A d \in Client \ {c} : In(d, "answer") =>
          call[d].out \in provider.issued /\ call[d].out \in Token
    BY DEF RetryInv, Unseen, ClientTypeOK
  <2>8. \A d \in Client : call'[d].pc = "answer" =>
          /\ call'[d].out \in provider'.issued /\ call'[d].out \in Token
          /\ ~Visible(call'[d].out)
    BY <2>3, <2>4, <2>5, <2>7 DEF RetryInv, Unseen, In
  <2>9. \A d \in Client : call'[d].pc = "answer" => ~Visible(call[d].out)'
    <3>1. \A x, d : x = call'[d].out /\ x \in Token /\ ~Visible(x) => ~Visible(call[d].out)'
      BY <2>6 DEF Visible
    <3> QED BY <2>8, <3>1
  <2>10. \A d, e \in Client :
           d # e /\ call'[d].pc = "answer" /\ call'[e].pc = "answer" =>
             call'[d].out # call'[e].out
    BY <2>3, <2>5, <2>7 DEF RetryInv, Unseen, In
  <2>11. Unseen'
    <3>1. \A x \in Token : Visible(x)' => x \in provider'.issued
      BY <2>4, <2>6 DEF RetryInv, Unseen
    <3> QED BY <2>8, <2>9, <2>10, <3>1 DEF Unseen, In
  <2>12. RetryAhead(c)'
    <3>1. Visible(call[c].refused) BY DEF Visible
    <3> QED BY <2>3, <2>5, <3>1 DEF RetryAhead, In
  <2>13. \A d \in Client \ {c} : RetryAhead(d)' BY <1>1, <1>4, <2>3, RetryFrame
  <2> QED BY <2>11, <2>12, <2>13 DEF RetryInv
<1>5. CASE Drops(c, t) /\ UNCHANGED provider
  <2> DEFINE r == [call[c] EXCEPT !.pc = "removing", !.tried = t]
  <2>1. /\ r.pc = "removing" /\ r.out = call[c].out
        /\ r.used = call[c].used /\ r.refused = call[c].refused
    BY UnderwayFields
  <2>2. Becomes(c, r) BY <1>5 DEF Drops
  <2> HIDE DEF r
  <2>3. /\ \A d \in Client \ {c} : call'[d] = call[d]
        /\ call'[c].pc = "removing" /\ call'[c].out = call[c].out
        /\ call'[c].used = call[c].used /\ call'[c].refused = call[c].refused
    BY <2>1, <2>2, BecomesAt
  <2>4. eph' = [eph EXCEPT ![WorkerOf[c]] = NoToken] BY <1>5 DEF Drops
  <2>5. /\ \A w \in Worker : eph'[w] \in {eph[w], NoToken}
        /\ \A d \in Client \ {c} : In(d, "lock") => eph'[WorkerOf[d]] = eph[WorkerOf[d]]
    BY <1>2, <2>4, ClientAssumption DEF ClientTypeOK
  <2>6. call'[c] # call[c] BY <1>1, <2>3 DEF In
  <2> QED BY <1>1, <1>3, <1>5, <2>3, <2>5, <2>6, OneCallRetry, RetryElsewhere
<1>6. CASE Becomes(c, [call[c] EXCEPT !.again = TRUE]) /\ UNCHANGED <<eph, provider>>
  <2> DEFINE r == [call[c] EXCEPT !.again = TRUE]
  <2>1. /\ r.pc = call[c].pc /\ r.out = call[c].out
        /\ r.used = call[c].used /\ r.refused = call[c].refused
    BY UnderwayFields
  <2>2. Becomes(c, r) BY <1>6
  <2> HIDE DEF r
  <2>3. /\ \A d \in Client \ {c} : call'[d] = call[d]
        /\ call'[c].pc = "post" /\ call'[c].out = call[c].out
        /\ call'[c].used = call[c].used /\ call'[c].refused = call[c].refused
    BY <1>1, <2>1, <2>2, BecomesAt DEF In
  <2> QED BY <1>1, <1>3, <1>6, <2>3, OneCallRetry, RetryElsewhere
<1>7. CASE Throws(c) /\ UNCHANGED <<eph, provider>> BY <1>1, <1>7, UnlocksRetry
<1> QED BY <1>4, <1>5, <1>6, <1>7 DEF Post

\* The rotated token arrives: it is in nobody else's hands.
LEMMA AnswerRetry ==
  ASSUME RetryInv, ClientTypeOK, NEW c \in Client, Answer(c)
  PROVE  RetryInv'
<1> DEFINE t == call[c].out
           r == [call[c] EXCEPT !.pc = "chmod"]
<1>1. UNCHANGED <<eph, provider>> /\ In(c, "answer") BY DEF Answer
<1>2. CASE stored' = t /\ Becomes(c, r)
  <2>1. /\ r.pc = "chmod" /\ r.out = t
        /\ r.used = call[c].used /\ r.refused = call[c].refused
    BY UnderwayFields
  <2>2. Becomes(c, r) BY <1>2
  <2> HIDE DEF r
  <2>3. /\ \A d \in Client \ {c} : call'[d] = call[d]
        /\ call'[c].pc = "chmod" /\ call'[c].out = t
        /\ call'[c].used = call[c].used /\ call'[c].refused = call[c].refused
    BY <2>1, <2>2, BecomesAt
  <2>4. /\ t \in provider'.issued /\ ~Visible(t)
        /\ \A d \in Client \ {c} : In(d, "answer") => call[d].out # t
    BY <1>1 DEF RetryInv, Unseen
  <2>5. Known(t)
    <3>1. call'[c] # call[c] BY <1>1, <2>3 DEF In
    <3> QED BY <2>4, <3>1 DEF Known
  <2>6. /\ Known(call[c].used) /\ Known(call[c].refused)
        /\ \A w \in Worker : Known(eph[w])
    BY <1>1, OwnKnown, HandsKnown DEF RetryInv
  <2>7. Unseen' BY <1>1, <1>2, <2>3, <2>5, <2>6, UnseenFrame DEF RetryInv
  <2>8. RetryAhead(c)'
    <3>1. Visible(call[c].refused) BY DEF Visible
    <3> QED BY <2>3, <2>4, <3>1 DEF RetryAhead, In
  <2>9. \A d \in Client \ {c} : RetryAhead(d)'
    BY <1>1, <1>2, <2>3, <2>4, RetryFrame
  <2> QED BY <2>7, <2>8, <2>9 DEF RetryInv
<1>3. CASE Throws(c) /\ UNCHANGED stored BY <1>1, <1>3, UnlocksRetry
<1> QED BY <1>2, <1>3 DEF Answer, Rotated

LEMMA StoredRetry ==
  ASSUME RetryInv, ClientTypeOK, NEW c \in Client, Stored(c)
  PROVE  RetryInv'
<1> DEFINE r == [call[c] EXCEPT !.pc = "unlock", !.out = call[c].out]
<1>1. UNCHANGED <<stored, eph, provider>> /\ In(c, "chmod") /\ RetryAhead(c)
  BY DEF Stored, RetryInv
<1>2. CASE Becomes(c, r)
  <2>1. /\ r.pc = "unlock" /\ r.out = call[c].out
        /\ r.used = call[c].used /\ r.refused = call[c].refused
    BY UnderwayFields
  <2>2. Becomes(c, r) BY <1>2
  <2> HIDE DEF r
  <2>3. /\ \A d \in Client \ {c} : call'[d] = call[d]
        /\ call'[c].pc = "unlock" /\ call'[c].out = call[c].out
        /\ call'[c].used = call[c].used /\ call'[c].refused = call[c].refused
    BY <2>1, <2>2, BecomesAt
  <2>4. RetryAhead(c)' BY <1>1, <2>3 DEF RetryAhead, In
  <2>5. Known(call[c].used) /\ Known(call[c].refused) /\ Known(call[c].out)
    BY <1>1, OwnKnown DEF RetryInv, In
  <2> QED BY <1>1, <2>3, <2>4, <2>5, OneCallRetry
<1>3. CASE Throws(c) BY <1>1, <1>3, UnlocksRetry
<1> QED BY <1>2, <1>3 DEF Stored, Unlocks

\* A call that is over has no token.
LEMMA EndsRetry ==
  ASSUME RetryInv, ClientTypeOK, NEW c \in Client, NEW result, Ends(c, result),
         UNCHANGED provider, stored' \in {stored, NoToken},
         \A w \in Worker : eph'[w] \in {eph[w], NoToken},
         \A d \in Client : In(d, "lock") => eph'[WorkerOf[d]] = eph[WorkerOf[d]]
  PROVE  RetryInv'
<1>1. Known(NoToken) BY HandsKnown DEF RetryInv
<1>2. /\ \A d \in Client \ {c} : call'[d] = call[d]
      /\ call'[c].pc = "over" /\ call'[c].refused = NoToken
      /\ call'[c].used = NoToken /\ call'[c].out = NoToken
  BY BecomesAt, OverFields DEF Ends
<1> QED BY <1>1, <1>2, OneCallRetry, RetryElsewhere

LEMMA JoinedRetry ==
  ASSUME RetryInv, ClientTypeOK, NEW c \in Client, Joined(c)
  PROVE  RetryInv'
<1> DEFINE a == ApiCall(c, Found(c), TRUE)
<1>1. UNCHANGED <<stored, eph, provider>> BY DEF Joined
<1>2. CASE Ends(c, "need_auth") BY <1>1, <1>2, EndsRetry
<1>3. CASE Becomes(c, a)
  <2>1. /\ a.pc = "api" /\ a.used = Found(c) /\ a.refused = call[c].refused
        /\ a.out = NoToken
    BY DEF ApiCall, NoCall
  <2>2. a.joined BY DEF ApiCall, NoCall
  <2>3. Becomes(c, a) BY <1>3
  <2> HIDE DEF a
  <2>4. /\ \A d \in Client \ {c} : call'[d] = call[d]
        /\ call'[c].pc = "api" /\ call'[c].used = Found(c)
        /\ call'[c].refused = call[c].refused /\ call'[c].out = NoToken
    BY <2>1, <2>3, BecomesAt
  <2>5. call'[c].joined BY <2>2, <2>3, BecomesAt
  <2>6. RetryAhead(c)' BY <2>4, <2>5 DEF RetryAhead, In
  <2>7. Known(Found(c)) /\ Known(call[c].refused) /\ Known(NoToken)
    BY <1>1, FoundKnown, OwnKnown, HandsKnown DEF RetryInv
  <2> QED BY <1>1, <2>4, <2>6, <2>7, OneCallRetry
<1> QED BY <1>2, <1>3 DEF Joined

\* The refresh settles: its call takes up the token it got, which is not the
\* refused one, and those that waited look for one themselves.
LEMMA LeavesRetry ==
  ASSUME RetryInv, ClientTypeOK, NEW c \in Client, Leaves(c)
  PROVE  RetryInv'
<1> DEFINE a == ApiCall(c, call[c].out, FALSE)
           j(d) == [call[d] EXCEPT !.pc = "joined"]
           Fine(d) == /\ call'[d].pc # "answer"
                      /\ Known(call'[d].used) /\ Known(call'[d].refused)
                      /\ Known(call'[d].out)
                      /\ RetryAhead(d)'
<1>1. UNCHANGED <<stored, eph, provider>> /\ ~In(c, "answer") /\ RetryAhead(c)
  BY DEF Leaves, RetryInv, In
<1>2. /\ Known(NoToken) /\ Known(stored) /\ \A w \in Worker : Known(eph[w])
      /\ \A d \in Client : Known(call[d].used) /\ Known(call[d].refused)
      /\ \A d \in Client : ~In(d, "answer") => Known(call[d].out)
  BY <1>1, OwnKnown, HandsKnown DEF RetryInv
<1>3. ASSUME NEW d \in Client, NEW result, call'[d] = Over(result) PROVE Fine(d)
  <2>1. call'[d].pc = "over" /\ call'[d].used = NoToken /\ call'[d].refused = NoToken
        /\ call'[d].out = NoToken
    BY <1>3, OverFields
  <2>2. RetryAhead(d)' BY <2>1, RetryElsewhere
  <2> QED BY <1>2, <2>1, <2>2
<1>4. ASSUME call'[c] = a, In(c, "unlock") PROVE Fine(c)
  <2>1. /\ a.pc = "api" /\ a.used = call[c].out /\ a.refused = call[c].refused
        /\ a.out = NoToken
    BY DEF ApiCall, NoCall
  <2>2. call'[c] = a BY <1>4
  <2> HIDE DEF a
  <2>3. /\ call'[c].pc = "api" /\ call'[c].used = call[c].out
        /\ call'[c].refused = call[c].refused /\ call'[c].out = NoToken
    BY <2>1, <2>2
  <2>4. RetryAhead(c)' BY <1>1, <1>4, <2>3 DEF RetryAhead, In
  <2> QED BY <1>1, <1>2, <2>3, <2>4
<1>5. ASSUME NEW d \in Client, In(d, "join"), call'[d] = j(d) PROVE Fine(d)
  <2>1. /\ j(d).pc = "joined" /\ j(d).out = call[d].out
        /\ j(d).used = call[d].used /\ j(d).refused = call[d].refused
    BY UnderwayFields
  <2>2. call'[d] = j(d) BY <1>5
  <2> HIDE DEF j
  <2>3. /\ call'[d].pc = "joined" /\ call'[d].out = call[d].out
        /\ call'[d].used = call[d].used /\ call'[d].refused = call[d].refused
    BY <2>1, <2>2
  <2>4. RetryAhead(d)' BY <2>3, RetryElsewhere
  <2> QED BY <1>2, <1>5, <2>3, <2>4 DEF In
<1>6. Fine(c)
  <2>1. CASE \E result : call'[c] = Over(result)
    <3> HIDE DEF Fine
    <3> QED BY <1>3, <2>1
  <2>2. CASE call'[c] = a /\ ~At(WorkerOf[c], "threw")
    <3>1. In(c, "unlock") BY <2>2 DEF Leaves, Caught
    <3> HIDE DEF Fine
    <3> QED BY <1>4, <2>2, <3>1
  <2>3. \/ call'[c] = Over("error") \/ call'[c] = Over("need_auth")
        \/ call'[c] = a /\ ~At(WorkerOf[c], "threw")
    BY DEF Leaves, Settles
  <2> HIDE DEF Fine, a
  <2> QED BY <2>1, <2>2, <2>3
<1>7. ASSUME NEW d \in Client \ {c}, call'[d] # call[d] PROVE Fine(d)
  <2>1. In(d, "join") /\ (call'[d] = Over("error") \/ call'[d] = j(d))
    BY <1>7 DEF Leaves, Settles
  <2> HIDE DEF Fine, j
  <2> QED BY <1>3, <1>5, <2>1
<1>8. Unseen'
  <2>1. \A d \in Client : \/ call'[d] = call[d]
                          \/ /\ call'[d].pc # "answer"
                             /\ Known(call'[d].used) /\ Known(call'[d].refused)
                             /\ Known(call'[d].out)
    BY <1>6, <1>7
  <2>2. Known(stored') /\ \A w \in Worker : Known(eph'[w]) BY <1>1, <1>2
  <2> QED BY <1>1, <2>1, <2>2, UnseenFrame DEF RetryInv
<1>9. \A d \in Client : RetryAhead(d)'
  <2>1. ASSUME NEW d \in Client, call'[d] = call[d] PROVE RetryAhead(d)'
    BY <1>1, <2>1, RetryFrame
  <2> QED BY <1>6, <1>7, <2>1
<1> QED BY <1>8, <1>9 DEF RetryInv

\* A process ends with all its calls.
LEMMA GoneRetry ==
  ASSUME RetryInv, ClientTypeOK, NEW w \in Worker, Gone(w)
  PROVE  RetryInv'
<1>1. \A d \in Client : call'[d] = IF WorkerOf[d] = w THEN NoCall ELSE call[d]
  BY DEF Gone, ProcessGone
<1>2. UNCHANGED <<stored, provider>> BY DEF Gone, ProcessGone
<1>3. \A v \in Worker : eph'[v] = IF v = w THEN NoToken ELSE eph[v]
  BY DEF Gone, ProcessGone, ClientTypeOK
<1>4. /\ NoCall.pc = "idle" /\ NoCall.used = NoToken /\ NoCall.refused = NoToken
      /\ NoCall.out = NoToken
  BY DEF NoCall
<1>5. Known(NoToken) /\ Known(stored) /\ \A v \in Worker : Known(eph[v])
  BY <1>2, HandsKnown DEF RetryInv
<1>6. \A d \in Client : \/ call'[d] = call[d]
                        \/ /\ call'[d].pc # "answer"
                           /\ Known(call'[d].used) /\ Known(call'[d].refused)
                           /\ Known(call'[d].out)
  BY <1>1, <1>4, <1>5
<1>7. Unseen' BY <1>2, <1>3, <1>5, <1>6, UnseenFrame DEF RetryInv
<1>8. ASSUME NEW d \in Client PROVE RetryAhead(d)'
  <2>1. CASE WorkerOf[d] = w BY <1>1, <1>4, <2>1, RetryElsewhere
  <2>2. CASE WorkerOf[d] # w
    <3>1. \A e \in Client : In(e, "lock") => \/ eph'[WorkerOf[e]] = eph[WorkerOf[e]]
                                             \/ call'[e] # call[e]
      BY <1>1, <1>3, <1>4, ClientAssumption DEF In
    <3> QED BY <1>1, <1>2, <2>2, <3>1, RetryFrame
  <2> QED BY <2>1, <2>2
<1> QED BY <1>7, <1>8 DEF RetryInv

LEMMA SetRetry ==
  ASSUME RetryInv, ClientTypeOK, NEW c \in Client, SetToken(c)
  PROVE  RetryInv'
<1> DEFINE r == [call[c] EXCEPT !.pc = "put"]
<1>1. /\ NextToken \in Token \ provider.issued /\ ~Visible(NextToken)
      /\ provider'.issued = provider.issued \cup {NextToken} /\ UNCHANGED eph
      /\ stored' \in {stored, NextToken} /\ In(c, "idle")
  BY NextTokenNew DEF SetToken, Issues, Operates, RetryInv
<1>2. /\ Known(NoToken) /\ Known(stored) /\ \A w \in Worker : Known(eph[w])
      /\ Known(call[c].used) /\ Known(call[c].refused) /\ Known(call[c].out)
      /\ Known(NextToken)
  BY <1>1, OwnKnown, HandsKnown, NewKnown DEF RetryInv, In
<1>3. /\ \A d \in Client \ {c} : call'[d] = call[d]
      /\ call'[c].pc \in {"put", "over"} /\ Known(call'[c].out)
      /\ Known(call'[c].used) /\ Known(call'[c].refused)
  <2>1. CASE Becomes(c, r)
    <3>1. /\ r.pc = "put" /\ r.out = call[c].out
          /\ r.used = call[c].used /\ r.refused = call[c].refused
      BY UnderwayFields
    <3>2. Becomes(c, r) BY <2>1
    <3> HIDE DEF r
    <3> QED BY <1>2, <3>1, <3>2, BecomesAt
  <2>2. CASE Ends(c, "error") BY <1>2, <2>2, BecomesAt, OverFields DEF Ends
  <2> QED BY <2>1, <2>2 DEF SetToken
<1>4. Unseen' BY <1>1, <1>2, <1>3, UnseenFrame DEF RetryInv
<1>5. RetryAhead(c)' BY <1>3, RetryElsewhere
<1>6. \A d \in Client \ {c} : RetryAhead(d)' BY <1>1, <1>3, RetryFrame
<1> QED BY <1>4, <1>5, <1>6 DEF RetryInv

\* The host seeds a token that no worker still waits for, before any call.
LEMMA SeedRetry ==
  ASSUME RetryInv, RefreshInv, ClientTypeOK, NEW w \in Worker, InvokeSeeded(w)
  PROVE  RetryInv'
<1>1. UNCHANGED <<stored, call>> /\ provider.issued \subseteq provider'.issued
  BY DEF InvokeSeeded, Issues, ClientTypeOK
<1>2. Known(stored) /\ \A v \in Worker : Known(eph[v])
  BY <1>1, HandsKnown DEF RetryInv
<1>3. PICK t \in Token : eph' = [eph EXCEPT ![w] = t] /\ Known(t)
  <2>1. CASE \E t \in provider.issued :
               /\ \A c \in Client : In(c, "answer") => call[c].out # t
               /\ eph' = [eph EXCEPT ![w] = t]
    BY <1>1, <2>1 DEF ClientTypeOK, Known
  <2>2. CASE /\ provider.issued # Token /\ eph' = [eph EXCEPT ![w] = NextToken]
             /\ provider'.issued = provider.issued \cup {NextToken}
    BY <2>2, NextTokenNew, NewKnown DEF RetryInv
  <2>3. provider'.issued = provider.issued \cup {NextToken} \/ UNCHANGED provider
    BY DEF InvokeSeeded, Issues, ClientTypeOK
  <2> QED BY <2>1, <2>2, <2>3 DEF InvokeSeeded, Issues, ClientTypeOK
<1>4. \A v \in Worker : v # w => eph'[v] = eph[v] BY <1>3 DEF ClientTypeOK
<1>5. \A v \in Worker : Known(eph'[v]) BY <1>2, <1>3 DEF ClientTypeOK
<1>6. Unseen' BY <1>1, <1>2, <1>5, UnseenFrame DEF RetryInv
<1>7. \A d \in Client : In(d, "lock") => eph'[WorkerOf[d]] = eph[WorkerOf[d]]
  <2>1. \A d \in Client : WorkerOf[d] = w => In(d, "idle")
    BY AskedIdle DEF InvokeSeeded
  <2> QED BY <1>4, <2>1, ClientAssumption DEF In
<1>8. \A d \in Client : RetryAhead(d)' BY <1>1, <1>7, RetryFrame
<1> QED BY <1>6, <1>8 DEF RetryInv

LEMMA OperationRetry ==
  ASSUME RetryInv, RefreshInv, ClientTypeOK, NEW w \in Worker, TokenOperation(w)
  PROVE  RetryInv'
<1> DEFINE c == Single[w]
<1>1. c \in Client /\ WorkerOf[c] = w BY RequestAssumption
<1>2. CASE GetToken(c) BY <1>1, <1>2, EndsRetry DEF GetToken
<1>3. CASE SetToken(c) BY <1>1, <1>3, SetRetry
<1>4. CASE Asked(w, "token_remove") /\ Revoke(c)
  <2>1. /\ Ends(c, "ok") /\ UNCHANGED provider /\ stored' = NoToken
        /\ eph' = [eph EXCEPT ![w] = NoToken]
    BY <1>1, <1>4 DEF Revoke
  <2>2. \A v \in Worker : eph'[v] \in {eph[v], NoToken} /\ (v # w => eph'[v] = eph[v])
    BY <2>1 DEF ClientTypeOK
  <2>3. \A d \in Client : WorkerOf[d] = w => In(d, "idle") BY <1>4, AskedIdle
  <2>4. \A d \in Client : In(d, "lock") => eph'[WorkerOf[d]] = eph[WorkerOf[d]]
    BY <2>2, <2>3, ClientAssumption DEF In
  <2> QED BY <1>1, <2>1, <2>2, <2>4, EndsRetry
<1> QED BY <1>2, <1>3, <1>4 DEF TokenOperation

\* A step that leaves the tokens and the calls alone.
LEMMA StutterRetry ==
  ASSUME RetryInv, ClientTypeOK, UNCHANGED <<call, stored, eph, provider>>
  PROVE  RetryInv'
<1>1. Known(stored) /\ \A w \in Worker : Known(eph[w]) BY HandsKnown DEF RetryInv
<1>2. Unseen' BY <1>1, UnseenFrame DEF RetryInv
<1>3. \A d \in Client : RetryAhead(d)' BY RetryFrame
<1> QED BY <1>2, <1>3 DEF RetryInv

\* RetryInv is kept by every step.
LEMMA RetryNext == BridgeInv /\ RetryInv /\ [Next]_allVars => RetryInv'
<1> SUFFICES ASSUME BridgeInv, RetryInv, [Next]_allVars PROVE RetryInv'
  OBVIOUS
<1> USE DEF BridgeInv
<1>1. CASE UNCHANGED <<call, stored, eph, provider>> BY <1>1, StutterRetry
<1>2. ASSUME NEW w \in Worker, TokenOperation(w) PROVE RetryInv'
  BY <1>2, OperationRetry
<1>3. ASSUME NEW w \in Worker, InvokeSeeded(w) PROVE RetryInv' BY <1>3, SeedRetry
<1>4. ASSUME NEW w \in Worker, Exit(w) \/ Kill(w) PROVE RetryInv'
  BY <1>4, GoneRetry DEF Exit, Kill
<1>5. ASSUME NEW c \in Client, ToolCalls(c) PROVE RetryInv'
  BY <1>5, BeginRetry DEF ToolCalls
<1>6. ASSUME NEW c \in Client, ClientStep(c) PROVE RetryInv'
  <2>1. CASE WorksForLock(c) \/ LooksAtLock(c)
    BY <1>1, <2>1 DEF WorksForLock, LooksAtLock, clientVars
  <2>2. CASE Api(c)
    <3>1. PICK result : Ends(c, result) BY <2>2 DEF Api
    <3> QED BY <2>2, <3>1, EndsRetry DEF Api
  <2>3. CASE SetEnds(c)
    <3>1. PICK result : Ends(c, result) BY <2>3 DEF SetEnds
    <3> QED BY <2>3, <3>1, EndsRetry DEF SetEnds
  <2>4. CASE Removed(c) BY <2>4, UnlocksRetry DEF Removed
  <2> QED
    BY <1>6, <2>1, <2>2, <2>3, <2>4, DecideRetry, PostRetry, AnswerRetry, StoredRetry,
       JoinedRetry, LeavesRetry, RejectedRetry DEF ClientStep, CallStep
<1>7. ASSUME NEW w \in Worker, Invoke(w) \/ AnswerAtOnce(w) \/ ToolEnds(w)
                               \/ OperationAnswered(w)
      PROVE  RetryInv'
  BY <1>1, <1>7 DEF Invoke, AnswerAtOnce, ToolEnds, OperationAnswered, vars, clientVars
<1>8. ASSUME NEW t \in Token, TimePasses(t) PROVE RetryInv'
  BY <1>1, <1>8 DEF TimePasses
<1>9. CASE LockGrowsOld \/ UNCHANGED allVars
  BY <1>1, <1>9 DEF LockGrowsOld, allVars, vars, clientVars
<1> QED
  BY <1>2, <1>3, <1>4, <1>5, <1>6, <1>7, <1>8, <1>9 DEF Next, WorkerStep

LEMMA RetryInit == Init => RetryInv
<1> SUFFICES ASSUME Init PROVE RetryInv
  OBVIOUS
<1>1. /\ NoCall.pc = "idle" /\ NoCall.used = NoToken /\ NoCall.refused = NoToken
      /\ NoCall.out = NoToken
  BY DEF NoCall
<1>2. /\ \A c \in Client : call[c] = NoCall
      /\ \A w \in Worker : eph[w] = NoToken
      /\ provider.issued = {stored} \ {NoToken}
  BY DEF Init, ClientInit
<1>3. Unseen BY <1>1, <1>2, ClientAssumption DEF Unseen, Visible, In
<1>4. \A c \in Client : RetryAhead(c) BY <1>1, <1>2 DEF RetryAhead, In
<1> QED BY <1>3, <1>4 DEF RetryInv

\* For any workers, calls, requests, tokens and faults, a call whose token the API
\* refused asks again with another one, unless it only waited for the refresh of
\* another call (callWithUAT, refreshWithLock).
THEOREM RefusedTokenNotRetried == Spec => []RetriesWithAnother
<1>1. BridgeInv /\ RetryInv /\ [Next]_allVars => (BridgeInv /\ RetryInv)'
  BY BridgeNext, RetryNext
<1>2. Spec => [](BridgeInv /\ RetryInv)
  BY BridgeInit, RetryInit, <1>1, PTL DEF Spec
<1>3. RetryInv => RetriesWithAnother
  BY DEF RetryInv, RetryAhead, RetriesWithAnother
<1> QED BY <1>2, <1>3, PTL
=============================================================================
