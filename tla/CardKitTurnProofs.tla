------------------------- MODULE CardKitTurnProofs -------------------------
(***************************************************************************)
(* For every choice of the constants: CardKitTurn is type correct, a card  *)
(* that shows a frozen or terminal state is never written again, and every *)
(* write to a card carries a higher sequence than the one before.  The     *)
(* latter two follow from WritesInv, which is inductive together with      *)
(* TypeOK.                                                                 *)
(***************************************************************************)
EXTENDS CardKitTurnWrites, TLAPS

-----------------------------------------------------------------------------
(* Scheduling *)

\* What a step does to the variables that the scheduler owns.
Scheduled ==
  /\ task' \in [Tasks -> Coroutines]
  /\ cpu' \in Tasks \cup {NoTask, "flush"}
  /\ waiters' \in Seq(Tasks \cup {"flush"})

LEMMA IdleType == Idle \in Coroutines
BY DEF Idle, Coroutines, Pcs, Returns, Ops, Texts, Outs, Reasons, ToolStates

LEMMA ToType ==
  ASSUME TypeOK, NEW t \in Tasks, NEW p \in Pcs
  PROVE  To(t, p) \in Coroutines
BY DEF TypeOK, To, Coroutines

LEMMA RestType ==
  ASSUME TypeOK, NEW t \in Tasks
  PROVE  /\ Rest(t) \in Seq(Tasks \cup {"flush"})
         /\ Rest("flush") \in Seq(Tasks \cup {"flush"})
BY DEF TypeOK, Rest

LEMMA GoType ==
  ASSUME TypeOK, NEW t \in Tasks, NEW r \in Coroutines, Go(t, r)
  PROVE  Scheduled
<1>1. Rest(t) \in Seq(Tasks \cup {"flush"})
  BY RestType
<1>2. task' \in [Tasks -> Coroutines]
  BY DEF TypeOK, Go
<1>3. cpu' \in Tasks \cup {NoTask, "flush"}
  BY DEF Go
<1>4. waiters' \in Seq(Tasks \cup {"flush"})
  BY <1>1 DEF Go
<1> QED
  BY <1>2, <1>3, <1>4 DEF Scheduled

LEMMA FinishType ==
  ASSUME TypeOK, NEW t \in Tasks, NEW ok \in BOOLEAN, Finish(t, ok)
  PROVE  Scheduled /\ disp' \in Dispatches
<1>1. Scheduled
  <2>1. "st.silent" \in Pcs
    BY DEF Pcs
  <2> QED
    BY <2>1, IdleType, ToType, GoType DEF Finish
<1>2. disp' \in Dispatches
  BY DEF Finish, TypeOK, Dispatches
<1> QED
  BY <1>1, <1>2

\* One element of a sequence is replaced.
LEMMA SetElement ==
  ASSUME NEW S, NEW s \in Seq(S), NEW i \in Nat, NEW e,
         i \in 1..Len(s) => e \in S
  PROVE  [s EXCEPT ![i] = e] \in Seq(S)
<1>1. CASE i \in 1..Len(s)
  BY <1>1
<1>2. CASE i \notin 1..Len(s)
  <2>1. [s EXCEPT ![i] = e] = s
    BY <1>2
  <2> QED
    BY <2>1
<1> QED
  BY <1>1, <1>2

LEMMA AppendElement ==
  ASSUME NEW S, NEW s \in Seq(S), NEW e \in S
  PROVE  Append(s, e) \in Seq(S)
OBVIOUS

LEMMA ElementType ==
  ASSUME NEW S, NEW s \in Seq(S), NEW i \in 1..Len(s)
  PROVE  s[i] \in S
OBVIOUS

-----------------------------------------------------------------------------
(* Creation of a segment *)

LEMMA CreateType ==
  ASSUME TypeOK, NEW t \in Tasks, NEW r \in Coroutines, Create(t, r)
  PROVE  Scheduled
<1> DEFINE q == [r EXCEPT !.pc = "cr.entity", !.ref = 0]
<1>1. q \in Coroutines
  BY DEF Coroutines, Pcs
<1> QED
  BY <1>1, GoType DEF Create

LEMMA CreatedType ==
  ASSUME TypeOK, NEW t \in Tasks, NEW ok \in BOOLEAN, Created(t, ok)
  PROVE  Scheduled
<1> DEFINE p == IF ok /\ task[t].ret = "rs.end" THEN "rs.ok" ELSE task[t].ret
           r == [task[t] EXCEPT !.res = ok, !.pc = p]
<1>1. p \in Pcs
  BY DEF TypeOK, Coroutines, Pcs, Returns
<1>2. r \in Coroutines
  BY <1>1 DEF TypeOK, Coroutines
<1> QED
  BY <1>2, GoType DEF Created

LEMMA SpendType ==
  ASSUME TypeOK, NEW o, Spend(o)
  PROVE  used' \in Usage
<1>1. used \in Usage
  BY DEF TypeOK
<1> QED
  BY <1>1 DEF Spend, Usage

LEMMA CreateEntityType ==
  ASSUME TypeOK, NEW t \in Tasks, CreateEntity(t)
  PROVE  TypeOK'
<1>1. PICK o : Spend(o) /\ (Created(t, FALSE)
                           \/ \E p \in {"cr.send", "cr.check"} : Go(t, To(t, p)))
  BY DEF CreateEntity
<1>2. {"cr.send", "cr.check"} \subseteq Pcs
  BY DEF Pcs
<1>3. Scheduled
  BY <1>1, <1>2, CreatedType, ToType, GoType
<1> QED
  BY <1>1, <1>3, SpendType DEF CreateEntity, TypeOK, Scheduled

LEMMA CreateCheckType ==
  ASSUME TypeOK, NEW t \in Tasks, CreateCheck(t)
  PROVE  TypeOK'
<1>1. "cr.send" \in Pcs
  BY DEF Pcs
<1>2. Scheduled
  BY <1>1, CreatedType, ToType, GoType DEF CreateCheck
<1> QED
  BY <1>2 DEF CreateCheck, TypeOK, Scheduled

LEMMA CreateSendType ==
  ASSUME TypeOK, NEW t \in Tasks, CreateSend(t)
  PROVE  TypeOK'
<1>1. PICK o :
        /\ Spend(o)
        /\ \/ /\ ctl' = Append(ctl, NewController)
              /\ segs' = Append(segs, NewCard(ReplyTo(task[t])))
              /\ Go(t, [To(t, "cr.commit") EXCEPT !.ref = Len(segs')])
           \/ UNCHANGED <<segs, ctl>> /\ Created(t, FALSE)
  BY DEF CreateSend
<1>2. NewController \in Controllers /\ NewCard(ReplyTo(task[t])) \in CardType
  BY DEF NewController, Controllers, NewCard, ReplyTo, CardType, TypeOK, Coroutines,
         Texts, ToolStates
<1>3. ctl' \in Seq(Controllers) /\ segs' \in Seq(CardType)
  BY <1>1, <1>2, AppendElement DEF TypeOK
<1>4. [To(t, "cr.commit") EXCEPT !.ref = Len(segs')] \in Coroutines
  <2>1. To(t, "cr.commit") \in Coroutines
    BY ToType DEF Pcs
  <2> QED
    BY <1>3, <2>1 DEF Coroutines
<1>5. Scheduled
  BY <1>1, <1>4, CreatedType, GoType
<1> QED
  BY <1>1, <1>3, <1>5, SpendType DEF CreateSend, TypeOK, Scheduled

LEMMA NewStateType == NewState \in States
BY DEF NewState, States, Reasons, Phases, Texts, ToolStates, Terms

LEMMA OpenedType ==
  ASSUME NEW s \in States, NEW i \in Nat, NEW u \in Tasks \cup {NoTask}
  PROVE  Opened(s, i, u) \in States
<1>1. NewState \in States
  BY NewStateType
<1> HIDE DEF NewState
<1> QED
  BY <1>1 DEF Opened, States

LEMMA CreateCommitType ==
  ASSUME TypeOK, NEW t \in Tasks, CreateCommit(t)
  PROVE  TypeOK'
<1>1. To(t, "rt.write") \in Coroutines
  BY ToType DEF Pcs
<1>2. Scheduled
  BY <1>1, CreatedType, GoType DEF CreateCommit
<1>3. st' \in States
  <2>1. \/ st' = st
        \/ \E u \in {t, st.active} : st' = Opened(st, task[t].ref, u)
    BY DEF CreateCommit
  <2>2. {t, st.active} \subseteq Tasks \cup {NoTask} /\ task[t].ref \in Nat
    BY DEF TypeOK, States, Coroutines
  <2> QED
    BY <2>1, <2>2, OpenedType DEF TypeOK
<1>4. lock' \in Tasks \cup {NoTask, "flush"}
  BY DEF CreateCommit, TypeOK
<1> QED
  BY <1>2, <1>3, <1>4 DEF CreateCommit, TypeOK, Scheduled

LEMMA RetireWriteType ==
  ASSUME TypeOK, NEW t \in Tasks, RetireWrite(t)
  PROVE  TypeOK'
<1>1. PICK o :
        /\ Spend(o)
        /\ \/ segs' = segs
           \/ \E e \in {"stopped", "continued"} :
                segs' = [segs EXCEPT ![task[t].ref] =
                           [@ EXCEPT !.seq = 2, !.status = e]]
  BY DEF RetireWrite
<1>2. segs' \in Seq(CardType)
  <2>1. CASE segs' = segs
    BY <2>1 DEF TypeOK
  <2>2. ASSUME NEW e \in {"stopped", "continued"},
               segs' = [segs EXCEPT ![task[t].ref] =
                          [@ EXCEPT !.seq = 2, !.status = e]]
        PROVE  segs' \in Seq(CardType)
    <3> DEFINE i == task[t].ref
               c == [segs[i] EXCEPT !.seq = 2, !.status = e]
    <3>1. i \in Nat
      BY DEF TypeOK, Coroutines
    <3>2. ASSUME i \in 1..Len(segs)
          PROVE  c \in CardType
      <4>1. segs[i] \in CardType
        BY <3>2, ElementType DEF TypeOK
      <4> QED
        BY <4>1 DEF CardType, Outs
    <3>3. segs' = [segs EXCEPT ![i] = c]
      BY <2>2
    <3> HIDE DEF c
    <3> QED
      BY <3>1, <3>2, <3>3, SetElement DEF TypeOK
  <2> QED
    BY <1>1, <2>1, <2>2
<1>3. Scheduled
  BY CreatedType DEF RetireWrite
<1> QED
  BY <1>1, <1>2, <1>3, SpendType DEF RetireWrite, TypeOK, Scheduled

-----------------------------------------------------------------------------
(* Suspension of a segment *)

LEMMA SetCtlType ==
  ASSUME TypeOK, NEW c, SetCtl(c), st.cur \in 1..Len(ctl) => c \in Controllers
  PROVE  ctl' \in Seq(Controllers)
<1>1. st.cur \in Nat
  BY DEF TypeOK, States
<1> QED
  BY <1>1, SetElement DEF TypeOK, SetCtl

LEMMA CtlType ==
  ASSUME TypeOK, st.cur \in 1..Len(ctl)
  PROVE  Ctl \in Controllers
BY ElementType DEF TypeOK, Ctl

LEMMA QuietedType ==
  ASSUME NEW c \in Controllers
  PROVE  Quieted(c) \in Controllers
BY DEF Controllers, Quieted

LEMMA RequestedType ==
  ASSUME NEW c \in Controllers
  PROVE  Requested(c) \in Controllers
BY DEF Controllers, Requested

LEMMA DrainType ==
  ASSUME TypeOK, NEW t \in Tasks, Drain(t)
  PROVE  TypeOK'
<1>1. {"sus.lock", "fin.lock"} \subseteq Pcs
  BY DEF Pcs
<1>2. Scheduled
  BY <1>1, ToType, GoType DEF Drain
<1> QED
  BY <1>2 DEF Drain, TypeOK, Scheduled

LEMMA SuspendType ==
  ASSUME TypeOK, NEW t \in Tasks, NEW r \in Coroutines, Suspend(t, r)
  PROVE  Scheduled /\ ctl' \in Seq(Controllers)
<1>1. [r EXCEPT !.pc = "sus.quiet", !.ref = st.cur] \in Coroutines
  BY DEF Coroutines, Pcs, TypeOK, States
<1>2. Scheduled
  BY <1>1, GoType DEF Suspend
<1>3. ctl' \in Seq(Controllers)
  BY CtlType, QuietedType, SetCtlType DEF Suspend
<1> QED
  BY <1>2, <1>3

LEMMA SuspendedType ==
  ASSUME TypeOK, NEW t \in Tasks, st' \in States, Suspended(t)
  PROVE  Scheduled /\ disp' \in Dispatches
<1>1. CASE task[t].ret = "cr.entity"
  <2>1. [task[t] EXCEPT !.expect = st'.anchor, !.ret = "st.end"] \in Coroutines
    <3>1. task[t] \in Coroutines /\ st'.anchor \in Nat
      BY DEF TypeOK, States
    <3>2. "st.end" \in Returns
      BY DEF Returns
    <3> QED
      BY <3>1, <3>2 DEF Coroutines
  <2> QED
    BY <1>1, <2>1, CreateType DEF Suspended, TypeOK
<1>2. CASE task[t].ret # "cr.entity"
  BY <1>2, FinishType DEF Suspended
<1> QED
  BY <1>1, <1>2

LEMMA AnchoredType ==
  ASSUME NEW s \in States, NEW a \in Nat, NEW why \in Reasons
  PROVE  Anchored(s, a, why) \in States
BY DEF States, Anchored

LEMMA SuspendLockedType ==
  ASSUME TypeOK, NEW t \in Tasks, SuspendLocked(t)
  PROVE  TypeOK'
<1> DEFINE s == Anchored(st, task[t].want, task[t].why)
<1>1. task[t].want \in Nat /\ task[t].why \in Reasons /\ st \in States
  BY DEF TypeOK, Coroutines
<1>2. s \in States
  BY <1>1, AnchoredType
<1> HIDE DEF s
<1>3. \A x \in {"continued", "waiting"} : [s EXCEPT !.tool = x] \in States
  BY <1>2 DEF States, ToolStates
<1>4. st' \in {st, s} \cup {[s EXCEPT !.tool = x] : x \in {"continued", "waiting"}}
  BY DEF SuspendLocked, s
<1>5. st' \in States
  BY <1>1, <1>2, <1>3, <1>4
<1>6. newest' \in Nat /\ lock' \in Tasks \cup {NoTask, "flush"}
  BY <1>1 DEF SuspendLocked, TypeOK
<1>7. Scheduled /\ disp' \in Dispatches
  <2>1. To(t, "sus.write") \in Coroutines
    BY ToType DEF Pcs
  <2>2. \/ Suspended(t)
        \/ Go(t, To(t, "sus.write")) /\ UNCHANGED disp
    <3>1. CASE st.closed
      BY <3>1 DEF SuspendLocked
    <3>2. CASE ~st.closed /\ st.open
      BY <3>2 DEF SuspendLocked
    <3>3. CASE ~st.closed /\ ~st.open
      BY <3>3 DEF SuspendLocked
    <3> QED
      BY <3>1, <3>2, <3>3
  <2> QED
    BY <1>5, <2>1, <2>2, SuspendedType, GoType DEF TypeOK
<1> QED
  BY <1>5, <1>6, <1>7 DEF SuspendLocked, TypeOK, Scheduled

\* What a write to the current card leaves of the cards: nothing, or the card
\* with a new status and the state's content.
LEMMA CardWriteType ==
  ASSUME TypeOK, NEW c, segs' = [segs EXCEPT ![st.cur] = c],
         st.cur \in 1..Len(segs) => c \in CardType
  PROVE  segs' \in Seq(CardType)
<1>1. st.cur \in Nat
  BY DEF TypeOK, States
<1> QED
  BY <1>1, SetElement DEF TypeOK

LEMMA CardContentType ==
  ASSUME TypeOK, st.cur \in 1..Len(segs), NEW n \in Nat, NEW x \in Texts,
         NEW e \in {"streaming", "continued", "waiting"} \cup Outs
  PROVE  [segs[st.cur] EXCEPT !.status = e, !.text = x, !.tool = st.tool,
                              !.seq = n] \in CardType
<1>1. segs[st.cur] \in CardType /\ st.tool \in ToolStates
  BY ElementType DEF TypeOK, States
<1> QED
  BY <1>1 DEF CardType

LEMMA UnavailableType ==
  ASSUME NEW s \in States
  PROVE  Unavailable(s) \in States
BY DEF Unavailable, States, Phases

LEMMA StopType ==
  ASSUME TypeOK, SetCtl([Ctl EXCEPT !.stopped = TRUE])
  PROVE  ctl' \in Seq(Controllers)
<1>1. ASSUME st.cur \in 1..Len(ctl)
      PROVE  [Ctl EXCEPT !.stopped = TRUE] \in Controllers
  BY <1>1, CtlType DEF Controllers
<1> QED
  BY <1>1, SetCtlType

LEMMA FrozenType ==
  ASSUME NEW s \in States, NEW phase \in Phases
  PROVE  Frozen(s, phase) \in States
<1> DEFINE n == s.seq + 2
<1>1. n \in Nat
  BY DEF States
<1>2. Frozen(s, phase) = [s EXCEPT !.seq = n, !.open = FALSE, !.phase = phase]
  BY DEF Frozen
<1> HIDE DEF n
<1> QED
  BY <1>1, <1>2 DEF States

LEMMA SuspendWriteType ==
  ASSUME TypeOK, NEW t \in Tasks, SuspendWrite(t)
  PROVE  TypeOK'
<1> DEFINE frozen == IF task[t].why \in {"steer", "artifact"}
                     THEN "continued" ELSE "waiting"
           s == Frozen(st, frozen)
           gone == Unavailable(st)
           left == Unavailable(s)
           card == [segs[st.cur] EXCEPT !.status = frozen, !.text = st.content,
                      !.tool = st.tool, !.seq = s.seq]
<1>1. st \in States /\ frozen \in Phases
      /\ frozen \in {"streaming", "continued", "waiting"}
  BY DEF TypeOK, Phases
<1>2. s \in States
  BY <1>1, FrozenType
<1>3. gone \in States /\ left \in States
  BY <1>1, <1>2, UnavailableType
<1>4. PICK o : /\ Spend(o)
               /\ \/ st' = s /\ UNCHANGED ctl
                       /\ segs' = [segs EXCEPT ![st.cur] = card]
                  \/ st' = s /\ UNCHANGED <<segs, ctl>>
                  \/ /\ \/ st' = [gone EXCEPT !.seq = @ + 1]
                        \/ st' = [left EXCEPT !.phase = frozen]
                     /\ SetCtl([Ctl EXCEPT !.stopped = TRUE])
                     /\ UNCHANGED segs
  BY DEF SuspendWrite, Outcome
<1>5. s.seq \in Nat /\ st.content \in Texts
  BY <1>1, <1>2 DEF States
<1>6. st.cur \in 1..Len(segs) => card \in CardType
  BY <1>1, <1>5, CardContentType
<1> HIDE DEF frozen, s, gone, left, card
<1>7. st' \in States
  <2>1. [gone EXCEPT !.seq = @ + 1] \in States
        /\ [left EXCEPT !.phase = frozen] \in States
    BY <1>1, <1>3 DEF States
  <2> QED
    BY <1>2, <1>4, <2>1
<1>8. segs' \in Seq(CardType)
  BY <1>4, <1>6, CardWriteType DEF TypeOK
<1>9. ctl' \in Seq(Controllers)
  BY <1>4, StopType DEF TypeOK
<1>10. Scheduled /\ disp' \in Dispatches
  BY <1>7, SuspendedType DEF SuspendWrite
<1> QED
  BY <1>4, <1>7, <1>8, <1>9, <1>10, SpendType
     DEF SuspendWrite, TypeOK, Scheduled

-----------------------------------------------------------------------------
(* Resumption, and continuation after a steer *)

LEMMA AfterResumeType ==
  ASSUME TypeOK, NEW t \in Tasks, NEW ok \in BOOLEAN, AfterResume(t, ok)
  PROVE  Scheduled /\ disp' \in Dispatches
<1> DEFINE r == [To(t, "fb.call") EXCEPT !.ref = st.fb, !.expect = st.anchor,
                                         !.ret = "idle"]
<1>1. {"tool.commit", "tool.check", "fin.enter", "out.commit"} \subseteq Pcs
  BY DEF Pcs
<1>2. r \in Coroutines
  <2>1. To(t, "fb.call") \in Coroutines
    BY ToType DEF Pcs
  <2>2. st.fb \in Nat /\ st.anchor \in Nat /\ "idle" \in Returns
    BY DEF TypeOK, States, Returns
  <2> QED
    BY <2>1, <2>2 DEF Coroutines
<1> HIDE DEF r
<1>3. \/ \E p \in {"tool.commit", "tool.check", "fin.enter", "out.commit"} :
             Go(t, To(t, p)) /\ UNCHANGED disp
      \/ Go(t, r) /\ UNCHANGED disp
      \/ Finish(t, TRUE)
  BY DEF AfterResume, r
<1> QED
  BY <1>1, <1>2, <1>3, ToType, GoType, FinishType DEF TypeOK

LEMMA ResumeEnterType ==
  ASSUME TypeOK, NEW t \in Tasks, ResumeEnter(t)
  PROVE  TypeOK'
<1> DEFINE r == [task[t] EXCEPT !.expect = st.anchor,
                                !.ret = "rs.end"]
<1>1. r \in Coroutines
  <2>1. task[t] \in Coroutines /\ st.anchor \in Nat /\ "rs.end" \in Returns
    BY DEF TypeOK, States, Returns
  <2> QED
    BY <2>1 DEF Coroutines
<1> HIDE DEF r
<1>2. \/ \E ok \in BOOLEAN : AfterResume(t, ok) /\ UNCHANGED resumeLock
      \/ resumeLock' = t /\ Create(t, r) /\ UNCHANGED disp
  BY DEF ResumeEnter, r
<1>3. Scheduled /\ disp' \in Dispatches
  BY <1>1, <1>2, AfterResumeType, CreateType DEF TypeOK
<1>4. resumeLock' \in Tasks \cup {NoTask}
  BY <1>2 DEF TypeOK
<1> QED
  BY <1>3, <1>4 DEF ResumeEnter, TypeOK, Scheduled

LEMMA ResumeOkType ==
  ASSUME TypeOK, NEW t \in Tasks, ResumeOk(t)
  PROVE  TypeOK'
<1>1. Scheduled /\ disp' \in Dispatches
  BY AfterResumeType DEF ResumeOk
<1> QED
  BY <1>1 DEF ResumeOk, TypeOK, Scheduled

LEMMA ResumeEndType ==
  ASSUME TypeOK, NEW t \in Tasks, ResumeEnd(t)
  PROVE  TypeOK'
<1>1. /\ st' \in {st, [st EXCEPT !.reason = "fallback"]}
      /\ \E ok \in BOOLEAN : AfterResume(t, ok)
  BY DEF ResumeEnd
<1>2. [st EXCEPT !.reason = "fallback"] \in States
  BY DEF TypeOK, States, Reasons
<1>3. st' \in States
  BY <1>1, <1>2 DEF TypeOK
<1>4. Scheduled /\ disp' \in Dispatches
  BY <1>1, AfterResumeType
<1> QED
  BY <1>3, <1>4 DEF ResumeEnd, TypeOK, Scheduled

LEMMA SteerBeginType ==
  ASSUME TypeOK, NEW t \in Tasks, SteerBegin(t)
  PROVE  TypeOK'
<1> DEFINE s == [st EXCEPT !.trans = TRUE]
           r == [task[t] EXCEPT !.why = "steer", !.ret = "cr.entity"]
           q == [r EXCEPT !.expect = r.want, !.ret = "st.end"]
           a == Anchored(s, r.want, "steer")
<1>1. s \in States
  BY DEF TypeOK, States
<1>2. r \in Coroutines
  <2>1. task[t] \in Coroutines /\ "cr.entity" \in Returns
        /\ "steer" \in Reasons
    BY DEF TypeOK, Returns, Reasons
  <2> QED
    BY <2>1 DEF Coroutines
<1> HIDE DEF r, s
<1>3. r.want \in Nat /\ "st.end" \in Returns /\ "steer" \in Reasons
  BY <1>2 DEF Coroutines, Returns, Reasons
<1>4. q \in Coroutines
  BY <1>2, <1>3 DEF Coroutines
<1>5. a \in States
  BY <1>1, <1>3, AnchoredType
<1> HIDE DEF q, a
<1>6. \/ st' = s /\ UNCHANGED newest /\ Suspend(t, r)
      \/ st' = a /\ newest' = r.want /\ UNCHANGED ctl /\ Create(t, q)
  BY DEF SteerBegin, s, r, q, a
<1>7. Scheduled /\ ctl' \in Seq(Controllers)
  BY <1>2, <1>4, <1>6, SuspendType, CreateType DEF TypeOK
<1>8. st' \in States /\ newest' \in Nat
  BY <1>1, <1>3, <1>5, <1>6 DEF TypeOK
<1> QED
  BY <1>7, <1>8 DEF SteerBegin, TypeOK, Scheduled

LEMMA TransitionOverType ==
  ASSUME NEW s \in States, NEW tool \in ToolStates
  PROVE  TransitionOver(s, tool) \in States
BY DEF TransitionOver, States, Terms, ToolStates

LEMMA RequestType ==
  ASSUME TypeOK, SetCtl(Requested(Ctl))
  PROVE  ctl' \in Seq(Controllers)
BY CtlType, RequestedType, SetCtlType

LEMMA SteerEndType ==
  ASSUME TypeOK, NEW t \in Tasks, SteerEnd(t)
  PROVE  TypeOK'
<1> DEFINE late == task[t].res /\ st.defTool # "none"
           fallback == ~task[t].res /\ BoundaryCurrent(task[t].want)
           tool == IF late THEN st.defTool ELSE st.tool
           s == TransitionOver(st, tool)
           q == [To(t, "fin.enter") EXCEPT !.text = st.defTerm.text,
                                           !.out = st.defTerm.out]
<1>1. st \in States /\ tool \in ToolStates
  BY DEF TypeOK, States
<1>2. s \in States
  BY <1>1, TransitionOverType
<1> HIDE DEF s
<1>3. st' = [s EXCEPT !.pending = @ \/ late,
                      !.reason = IF fallback THEN "fallback" ELSE @,
                      !.active = IF fallback THEN t ELSE @]
  BY DEF SteerEnd, s
<1> HIDE DEF late, fallback
<1>4. st' \in States
  BY <1>2, <1>3 DEF States, Reasons
<1>5. ctl' \in Seq(Controllers)
  BY RequestType DEF SteerEnd, TypeOK
<1>6. Scheduled
  <2>1. To(t, "fin.enter") \in Coroutines /\ To(t, "st.next") \in Coroutines
    BY ToType DEF Pcs
  <2>2. st.defTerm # NoTerm => q \in Coroutines
    <3>1. st.defTerm # NoTerm => st.defTerm.text \in Texts /\ st.defTerm.out \in Outs
      BY <1>1 DEF States, Terms
    <3> QED
      BY <2>1, <3>1 DEF Coroutines
  <2> HIDE DEF q
  <2>3. IF st.defTerm = NoTerm THEN Go(t, To(t, "st.next")) ELSE Go(t, q)
    BY DEF SteerEnd, q
  <2> QED
    BY <2>1, <2>2, <2>3, GoType
<1> QED
  BY <1>4, <1>5, <1>6 DEF SteerEnd, TypeOK, Scheduled

LEMMA SteerNextType ==
  ASSUME TypeOK, NEW t \in Tasks, SteerNext(t)
  PROVE  TypeOK'
<1>1. [To(t, "out.begin") EXCEPT !.text = "prog"] \in Coroutines
  <2>1. To(t, "out.begin") \in Coroutines
    BY ToType DEF Pcs
  <2> QED
    BY <2>1 DEF Coroutines, Texts
<1>2. /\ \/ Go(t, Idle)
         \/ Go(t, [To(t, "out.begin") EXCEPT !.text = "prog"])
      /\ disp' \in {disp, [disp EXCEPT !.phase = "active"]}
  BY DEF SteerNext
<1>3. Scheduled
  BY <1>1, <1>2, IdleType, GoType
<1>4. disp' \in Dispatches
  BY <1>2 DEF TypeOK, Dispatches
<1> QED
  BY <1>3, <1>4 DEF SteerNext, TypeOK, Scheduled

LEMMA SteerSilentType ==
  ASSUME TypeOK, NEW t \in Tasks, SteerSilent(t)
  PROVE  TypeOK'
<1> DEFINE r == [task[t] EXCEPT !.op = "silent"]
           begin == [r EXCEPT !.pc = "st.begin"]
           echo(p) == [r EXCEPT !.want = st.anchor, !.pc = p]
<1>1. task[t] \in Coroutines /\ st.anchor \in Nat
  BY DEF TypeOK, States
<1>2. begin \in Coroutines /\ echo("adopt") \in Coroutines
      /\ echo("st.begin") \in Coroutines
  BY <1>1 DEF Coroutines, Ops, Pcs
<1>3. Go(t, Idle) \/ Go(t, begin) \/ Go(t, echo("adopt"))
      \/ Go(t, echo("st.begin"))
  BY DEF SteerSilent
<1> HIDE DEF begin, echo
<1>4. Scheduled
  BY <1>2, <1>3, IdleType, GoType
<1> QED
  BY <1>4 DEF SteerSilent, TypeOK, Scheduled

-----------------------------------------------------------------------------
(* Output *)

LEMMA OutputBeginType ==
  ASSUME TypeOK, NEW t \in Tasks, OutputBegin(t)
  PROVE  TypeOK'
<1> DEFINE r == [To(t, "fb.call") EXCEPT !.ref = st.fb, !.expect = st.anchor,
                                         !.ret = "idle"]
<1>1. r \in Coroutines
  <2>1. To(t, "fb.call") \in Coroutines
    BY ToType DEF Pcs
  <2>2. st.fb \in Nat /\ st.anchor \in Nat /\ "idle" \in Returns
    BY DEF TypeOK, States, Returns
  <2> QED
    BY <2>1, <2>2 DEF Coroutines
<1>2. To(t, "rs.enter") \in Coroutines
  BY ToType DEF Pcs
<1> HIDE DEF r
<1>3. \/ \E ok \in BOOLEAN : Finish(t, ok)
      \/ UNCHANGED disp /\ Go(t, r)
      \/ UNCHANGED disp /\ Go(t, To(t, "rs.enter"))
  BY DEF OutputBegin, r
<1>4. Scheduled /\ disp' \in Dispatches
  BY <1>1, <1>2, <1>3, GoType, FinishType DEF TypeOK
<1> QED
  BY <1>4 DEF OutputBegin, TypeOK, Scheduled

LEMMA OutputCommitType ==
  ASSUME TypeOK, NEW t \in Tasks, OutputCommit(t)
  PROVE  TypeOK'
<1>1. /\ \/ st' = st
         \/ st' = [st EXCEPT !.pending = TRUE]
         \/ st' = [st EXCEPT !.content = task[t].text]
      /\ UNCHANGED ctl \/ SetCtl(Requested(Ctl))
      /\ \E ok \in BOOLEAN : Finish(t, ok)
  BY DEF OutputCommit
<1>2. st' \in States
  <2>1. st \in States /\ task[t].text \in Texts
    BY DEF TypeOK, Coroutines
  <2> QED
    BY <1>1, <2>1 DEF States
<1>3. ctl' \in Seq(Controllers)
  BY <1>1, RequestType DEF TypeOK
<1>4. Scheduled /\ disp' \in Dispatches
  BY <1>1, FinishType
<1> QED
  BY <1>2, <1>3, <1>4 DEF OutputCommit, TypeOK, Scheduled

LEMMA FallbackWriteType ==
  ASSUME TypeOK, NEW t \in Tasks, FallbackWrite(t)
  PROVE  TypeOK'
<1> DEFINE r == task[t]
           final == r.ret = "fin.ret"
           post == [anchor |-> r.expect, text |-> r.text]
           new == [st EXCEPT
                     !.fb = IF r.ref = 0 THEN Len(posts') ELSE @,
                     !.content = r.text, !.closed = @ \/ final,
                     !.phase = IF final THEN r.out ELSE @,
                     !.routed = @ /\ ~final]
<1>1. r \in Coroutines /\ r.ref \in Nat /\ r.text \in Texts /\ r.out \in Phases
      /\ post \in Posts
  BY DEF TypeOK, Coroutines, Posts, Phases
<1>2. PICK o : /\ Spend(o)
               /\ \/ UNCHANGED <<st, posts>>
                  \/ /\ posts' = IF r.ref = 0 THEN Append(posts, post)
                                 ELSE [posts EXCEPT ![r.ref].text = r.text]
                     /\ st' = new
               /\ \/ Go(t, [To(t, "fin.ret") EXCEPT !.res = (o = "ok")])
                     /\ UNCHANGED disp
                  \/ Finish(t, o = "ok")
  BY DEF FallbackWrite
<1>3. posts' \in Seq(Posts)
  <2>1. [posts EXCEPT ![r.ref].text = r.text] \in Seq(Posts)
    <3> DEFINE e == [posts[r.ref] EXCEPT !.text = r.text]
    <3>1. ASSUME r.ref \in 1..Len(posts)
          PROVE  e \in Posts
      <4>1. posts[r.ref] \in Posts
        BY <3>1, ElementType DEF TypeOK
      <4> QED
        BY <1>1, <4>1 DEF Posts
    <3>2. [posts EXCEPT ![r.ref].text = r.text] = [posts EXCEPT ![r.ref] = e]
      OBVIOUS
    <3> HIDE DEF e
    <3> QED
      BY <1>1, <3>1, <3>2, SetElement DEF TypeOK
  <2>2. Append(posts, post) \in Seq(Posts)
    BY <1>1, AppendElement DEF TypeOK
  <2> HIDE DEF post
  <2> QED
    BY <1>2, <2>1, <2>2 DEF TypeOK
<1>4. st' \in States
  <2>1. Len(posts') \in Nat
    BY <1>3
  <2>2. st \in States
    BY DEF TypeOK
  <2>3. new \in States
    <3> DEFINE f == IF r.ref = 0 THEN Len(posts') ELSE st.fb
               x == r.text
               cl == st.closed \/ final
               ph == IF final THEN r.out ELSE st.phase
               ro == st.routed /\ ~final
    <3>1. f \in Nat /\ x \in Texts /\ cl \in BOOLEAN /\ ph \in Phases
          /\ ro \in BOOLEAN
      BY <1>1, <2>1, <2>2 DEF States
    <3>2. new = [st EXCEPT !.fb = f, !.content = x, !.closed = cl, !.phase = ph,
                           !.routed = ro]
      OBVIOUS
    <3> HIDE DEF f, x, cl, ph, ro
    <3>3. [st EXCEPT !.fb = f, !.content = x, !.closed = cl, !.phase = ph,
                     !.routed = ro] \in States
      BY <2>2, <3>1 DEF States
    <3> HIDE DEF new
    <3> QED
      BY <3>2, <3>3
  <2> HIDE DEF new
  <2> QED
    BY <1>2, <2>2, <2>3
<1>5. Scheduled /\ disp' \in Dispatches
  <2>1. \A ok \in BOOLEAN : [To(t, "fin.ret") EXCEPT !.res = ok] \in Coroutines
    <3>1. To(t, "fin.ret") \in Coroutines
      BY ToType DEF Pcs
    <3> QED
      BY <3>1 DEF Coroutines
  <2>2. (o = "ok") \in BOOLEAN
    OBVIOUS
  <2> QED
    BY <1>2, <2>1, <2>2, GoType, FinishType DEF TypeOK
<1> QED
  BY <1>2, <1>3, <1>4, <1>5, SpendType DEF FallbackWrite, TypeOK, Scheduled

-----------------------------------------------------------------------------
(* The terminal write *)

LEMMA FinalizedType ==
  ASSUME TypeOK, NEW t \in Tasks, NEW ok \in BOOLEAN, Finalized(t, ok)
  PROVE  Scheduled
<1>1. [To(t, "fin.ret") EXCEPT !.res = ok] \in Coroutines
  <2>1. To(t, "fin.ret") \in Coroutines
    BY ToType DEF Pcs
  <2> QED
    BY <2>1 DEF Coroutines
<1> QED
  BY <1>1, GoType DEF Finalized

LEMMA RawType ==
  ASSUME TypeOK, NEW x \in Texts
  PROVE  Raw(x) \in Texts /\ Terminal(x) \in Texts
BY DEF TypeOK, States, Raw, Terminal, Texts

LEMMA DeferredType ==
  ASSUME TypeOK, NEW t \in Tasks
  PROVE  Deferred(t) \in [text : Texts, out : Outs]
<1>1. task[t].text \in Texts /\ task[t].out \in Outs
  BY DEF TypeOK, Coroutines
<1>2. Raw(task[t].text) \in Texts /\ "note" \in Texts
  BY <1>1, RawType DEF Texts
<1> QED
  BY <1>1, <1>2 DEF Deferred

LEMMA MergedType ==
  ASSUME NEW d \in [text : Texts, out : Outs], NEW e \in Terms
  PROVE  Merged(d, e) \in [text : Texts, out : Outs]
<1>1. d.text \in Texts /\ e.text \in Texts
  <2>1. CASE e = NoTerm
    BY <2>1 DEF NoTerm, Texts
  <2>2. CASE e \in [text : Texts, out : Outs]
    BY <2>2
  <2> QED
    BY <2>1, <2>2 DEF Terms
<1>2. d.out \in Outs /\ {"stopped", "error", "complete"} \subseteq Outs
  BY DEF Outs
<1> QED
  BY <1>1, <1>2 DEF Merged

LEMMA FinalizeEnterType ==
  ASSUME TypeOK, NEW t \in Tasks, FinalizeEnter(t)
  PROVE  TypeOK'
<1> DEFINE d == Merged(Deferred(t), st.defTerm)
           x == Raw(task[t].text)
           r == [To(t, "fb.call") EXCEPT !.text = x, !.ref = st.fb,
                   !.expect = st.anchor, !.ret = "fin.ret"]
           q == [To(t, "fin.quiet") EXCEPT !.ref = st.cur]
<1>1. st \in States /\ x \in Texts /\ d \in [text : Texts, out : Outs]
  BY RawType, DeferredType, MergedType DEF TypeOK, Coroutines, States
<1>2. r \in Coroutines /\ q \in Coroutines
  <2>1. To(t, "fb.call") \in Coroutines /\ To(t, "fin.quiet") \in Coroutines
        /\ "fin.ret" \in Returns
    BY ToType DEF Pcs, Returns
  <2>2. st.fb \in Nat /\ st.anchor \in Nat /\ st.cur \in Nat
    BY <1>1 DEF States
  <2> HIDE DEF x
  <2> QED
    BY <1>1, <2>1, <2>2 DEF Coroutines
<1> HIDE DEF d, x, r, q
<1>3. \/ st' = [st EXCEPT !.content = d.text, !.defTerm = d]
            /\ UNCHANGED ctl /\ Finalized(t, TRUE)
      \/ \E ok \in BOOLEAN : UNCHANGED <<st, ctl>> /\ Finalized(t, ok)
      \/ UNCHANGED <<st, ctl>> /\ Go(t, r)
      \/ UNCHANGED st /\ SetCtl(Quieted(Ctl)) /\ Go(t, q)
  <2>1. CASE st.trans
    BY <2>1 DEF FinalizeEnter, d
  <2>2. CASE ~st.trans /\ st.closed
    BY <2>2 DEF FinalizeEnter
  <2>3. CASE ~st.trans /\ ~st.closed /\ st.reason = "fallback"
    BY <2>3 DEF FinalizeEnter, x, r
  <2>4. CASE ~st.trans /\ ~st.closed /\ st.reason # "fallback"
    BY <2>4 DEF FinalizeEnter, q
  <2> QED
    BY <2>1, <2>2, <2>3, <2>4
<1>4. st' \in States
  <2>1. [st EXCEPT !.content = d.text, !.defTerm = d] \in States
    BY <1>1 DEF States, Terms
  <2> QED
    BY <1>1, <1>3, <2>1
<1>5. ctl' \in Seq(Controllers)
  <2>1. SetCtl(Quieted(Ctl)) => ctl' \in Seq(Controllers)
    BY CtlType, QuietedType, SetCtlType
  <2> QED
    BY <1>3, <2>1 DEF TypeOK
<1>6. Scheduled
  BY <1>2, <1>3, FinalizedType, GoType
<1> QED
  BY <1>4, <1>5, <1>6 DEF FinalizeEnter, TypeOK, Scheduled

LEMMA FinalizeLockedType ==
  ASSUME TypeOK, NEW t \in Tasks, FinalizeLocked(t)
  PROVE  TypeOK'
<1>1. \/ UNCHANGED <<st, lock>> /\ Finalized(t, ~st.gone)
      \/ /\ lock' = t
         /\ st' = [st EXCEPT !.content = Terminal(task[t].text)]
         /\ Go(t, To(t, "fin.write"))
  BY DEF FinalizeLocked
<1>2. st' \in States
  <2>1. st \in States /\ Terminal(task[t].text) \in Texts
    BY RawType DEF TypeOK, Coroutines
  <2> QED
    BY <1>1, <2>1 DEF States
<1>3. Scheduled
  <2>1. To(t, "fin.write") \in Coroutines
    BY ToType DEF Pcs
  <2>2. (~st.gone) \in BOOLEAN
    OBVIOUS
  <2> QED
    BY <1>1, <2>1, <2>2, GoType, FinalizedType
<1>4. lock' \in Tasks \cup {NoTask, "flush"}
  BY <1>1 DEF TypeOK
<1> QED
  BY <1>2, <1>3, <1>4 DEF FinalizeLocked, TypeOK, Scheduled

LEMMA ClosedByType ==
  ASSUME NEW s \in States, NEW out \in Phases
  PROVE  ClosedBy(s, out) \in States
BY DEF ClosedBy, States

LEMMA SeqRaised ==
  ASSUME NEW s \in States, NEW n \in Nat
  PROVE  [s EXCEPT !.seq = n] \in States
BY DEF States

LEMMA FinalizeWriteType ==
  ASSUME TypeOK, NEW t \in Tasks, FinalizeWrite(t)
  PROVE  TypeOK'
<1> DEFINE n == st.seq + (IF st.content # st.flushed THEN 3 ELSE 2)
           c == ClosedBy(st, task[t].out)
           s == [c EXCEPT !.seq = n]
           f == [s EXCEPT !.flushed = st.content]
           u == Unavailable(st)
           gone(k) == [u EXCEPT !.seq = k]
           card == [segs[st.cur] EXCEPT !.status = task[t].out,
                      !.text = st.content, !.tool = st.tool, !.seq = n]
           part == [segs[st.cur] EXCEPT !.text = st.content,
                                        !.seq = st.seq + 1]
<1>1. st \in States /\ task[t].out \in Outs /\ task[t].out \in Phases
      /\ st.content \in Texts /\ st.seq \in Nat
  BY DEF TypeOK, Coroutines, Phases, States
<1>2. c \in States /\ u \in States
  BY <1>1, ClosedByType, UnavailableType
<1>3. n \in Nat /\ st.seq + 1 \in Nat
  BY <1>1
<1>4. st.cur \in 1..Len(segs) => card \in CardType /\ part \in CardType
  <2>1. ASSUME st.cur \in 1..Len(segs)
        PROVE  card \in CardType /\ part \in CardType
    <3>1. segs[st.cur] \in CardType
      BY <2>1, ElementType DEF TypeOK
    <3>2. card \in CardType
      <4>1. st.tool \in ToolStates
        BY <1>1 DEF States
      <4> HIDE DEF n
      <4> QED
        BY <1>1, <1>3, <3>1, <4>1 DEF CardType
    <3>3. part \in CardType
      BY <1>1, <1>3, <3>1 DEF CardType
    <3> QED
      BY <3>2, <3>3
  <2> QED
    BY <2>1
<1>5. PICK o : /\ Spend(o)
               /\ Finalized(t, o = "ok")
               /\ \/ /\ st' = f
                     /\ segs' = [segs EXCEPT ![st.cur] = card]
                     /\ UNCHANGED ctl
                  \/ st' = s /\ UNCHANGED <<segs, ctl>>
                  \/ /\ st' = f
                     /\ segs' = [segs EXCEPT ![st.cur] = part]
                     /\ UNCHANGED ctl
                  \/ /\ \E k \in (st.seq + 1)..n : st' = gone(k)
                     /\ SetCtl([Ctl EXCEPT !.stopped = TRUE])
                     /\ UNCHANGED segs
  BY DEF FinalizeWrite
<1> HIDE DEF n, c, u, card, part
<1>6. s \in States
  BY <1>2, <1>3, SeqRaised
<1>7. \A k \in (st.seq + 1)..n : gone(k) \in States
  <2> TAKE k \in (st.seq + 1)..n
  <2>1. k \in Nat
    BY <1>1, <1>3
  <2> QED
    BY <1>2, <2>1, SeqRaised
<1> HIDE DEF s, gone
<1>8. f \in States
  BY <1>1, <1>6 DEF States
<1> HIDE DEF f
<1>9. st' \in States
  BY <1>5, <1>6, <1>7, <1>8
<1>10. segs' \in Seq(CardType)
  BY <1>4, <1>5, CardWriteType DEF TypeOK
<1>11. ctl' \in Seq(Controllers)
  BY <1>5, StopType DEF TypeOK
<1>12. Scheduled
  <2>1. (o = "ok") \in BOOLEAN
    OBVIOUS
  <2> QED
    BY <1>5, <2>1, FinalizedType
<1> QED
  BY <1>5, <1>9, <1>10, <1>11, <1>12, SpendType
     DEF FinalizeWrite, TypeOK, Scheduled

LEMMA FinalizeReturnType ==
  ASSUME TypeOK, NEW t \in Tasks, FinalizeReturn(t)
  PROVE  TypeOK'
<1>1. st' \in {st, Forgotten(st)}
      /\ \/ Go(t, To(t, "st.next")) /\ UNCHANGED disp
         \/ Finish(t, task[t].res)
  BY DEF FinalizeReturn
<1>2. st' \in States
  <2>1. st \in States
    BY DEF TypeOK
  <2>2. Forgotten(st) \in States
    BY <2>1 DEF States, Forgotten
  <2> QED
    BY <1>1, <2>1, <2>2
<1>3. Scheduled /\ disp' \in Dispatches
  <2>1. To(t, "st.next") \in Coroutines /\ task[t].res \in BOOLEAN
    BY ToType DEF Pcs, TypeOK, Coroutines
  <2> QED
    BY <1>1, <2>1, GoType, FinishType DEF TypeOK
<1> QED
  BY <1>2, <1>3 DEF FinalizeReturn, TypeOK, Scheduled

-----------------------------------------------------------------------------
(* Tools *)

LEMMA ToolCheckType ==
  ASSUME TypeOK, NEW t \in Tasks, ToolCheck(t)
  PROVE  TypeOK'
<1> DEFINE current == ~st.closed /\ st.routed
<1>1. /\ st' \in {st, [st EXCEPT !.defTool = task[t].tool]}
      /\ \/ Go(t, To(t, "tool.commit")) /\ UNCHANGED disp
         \/ \E ok \in BOOLEAN : Finish(t, ok)
  <2>1. CASE current /\ st.open
    BY <2>1 DEF ToolCheck
  <2>2. CASE current /\ ~st.open /\ st.trans
    BY <2>2 DEF ToolCheck
  <2>3. CASE ~current \/ (~st.open /\ ~st.trans)
    BY <2>3 DEF ToolCheck
  <2> QED
    BY <2>1, <2>2, <2>3
<1>2. st' \in States
  <2>1. st \in States /\ task[t].tool \in ToolStates
    BY DEF TypeOK, Coroutines
  <2> QED
    BY <1>1, <2>1 DEF States
<1>3. Scheduled /\ disp' \in Dispatches
  <2>1. To(t, "tool.commit") \in Coroutines
    BY ToType DEF Pcs
  <2> QED
    BY <1>1, <2>1, GoType, FinishType DEF TypeOK
<1> QED
  BY <1>2, <1>3 DEF ToolCheck, TypeOK, Scheduled

LEMMA ToolCommitType ==
  ASSUME TypeOK, NEW t \in Tasks, ToolCommit(t)
  PROVE  TypeOK'
<1> DEFINE s == [st EXCEPT !.tool = task[t].tool, !.seq = @ + 1]
<1>1. \/ UNCHANGED <<st, lock>> /\ Finish(t, FALSE)
      \/ st' = s /\ lock' = t /\ Go(t, To(t, "tool.write")) /\ UNCHANGED disp
  BY DEF ToolCommit
<1>2. s \in States
  <2> DEFINE n == st.seq + 1
  <2>1. st \in States /\ task[t].tool \in ToolStates
    BY DEF TypeOK, Coroutines
  <2>3. n \in Nat
    BY <2>1 DEF States
  <2>2. s = [st EXCEPT !.tool = task[t].tool, !.seq = n]
    OBVIOUS
  <2> HIDE DEF n, s
  <2> QED
    BY <2>1, <2>2, <2>3 DEF States
<1> HIDE DEF s
<1>3. st' \in States /\ lock' \in Tasks \cup {NoTask, "flush"}
  BY <1>1, <1>2 DEF TypeOK
<1>4. Scheduled /\ disp' \in Dispatches
  <2>1. To(t, "tool.write") \in Coroutines
    BY ToType DEF Pcs
  <2> QED
    BY <1>1, <2>1, GoType, FinishType DEF TypeOK
<1> QED
  BY <1>3, <1>4 DEF ToolCommit, TypeOK, Scheduled

LEMMA AfterFailureType ==
  ASSUME NEW s \in States, NEW o, NEW full \in BOOLEAN
  PROVE  AfterFailure(s, o, full) \in States
<1>1. Unavailable(s) \in States
  BY UnavailableType
<1>2. [s EXCEPT !.pending = @ \/ full] \in States
  <2> DEFINE b == s.pending \/ full
  <2>1. b \in BOOLEAN
    BY DEF States
  <2> HIDE DEF b
  <2>2. [s EXCEPT !.pending = b] \in States
    BY <2>1 DEF States
  <2> QED
    BY <2>2 DEF b
<1>3. [s EXCEPT !.disabled = TRUE] \in States
  BY DEF States
<1> QED
  BY <1>1, <1>2, <1>3 DEF AfterFailure

LEMMA ControllerAfterFailureType ==
  ASSUME NEW c \in Controllers, NEW o
  PROVE  ControllerAfterFailure(c, o) \in Controllers
<1>1. [c EXCEPT !.stopped = TRUE] \in Controllers
  BY DEF Controllers
<1> QED
  BY <1>1, RequestedType DEF ControllerAfterFailure

LEMMA ToolWriteType ==
  ASSUME TypeOK, NEW t \in Tasks, ToolWrite(t)
  PROVE  TypeOK'
<1> DEFINE card == [segs[st.cur] EXCEPT !.status = "streaming",
                           !.text = st.content, !.tool = st.tool,
                           !.seq = st.seq]
           s == [st EXCEPT !.pending = FALSE, !.phase = "generating"]
<1>1. PICK o :
        /\ Spend(o)
        /\ Finish(t, o = "ok")
        /\ \/ st' = s /\ UNCHANGED ctl /\ segs' = [segs EXCEPT ![st.cur] = card]
           \/ /\ st' = AfterFailure(st, o, TRUE) /\ UNCHANGED segs
              /\ SetCtl(ControllerAfterFailure(Ctl, o))
  BY DEF ToolWrite
<1>2. st \in States
  BY DEF TypeOK
<1>3. st' \in States
  <2>1. s \in States
    BY <1>2 DEF States, Phases
  <2> HIDE DEF s
  <2> QED
    BY <1>1, <1>2, <2>1, AfterFailureType
<1>4. segs' \in Seq(CardType)
  <2>1. ASSUME st.cur \in 1..Len(segs)
        PROVE  card \in CardType
    <3>1. segs[st.cur] \in CardType
      BY <2>1, ElementType DEF TypeOK
    <3>2. st.content \in Texts /\ st.tool \in ToolStates /\ st.seq \in Nat
      BY <1>2 DEF States
    <3> QED
      BY <3>1, <3>2 DEF CardType
  <2> HIDE DEF card
  <2> QED
    BY <1>1, <2>1, CardWriteType DEF TypeOK
<1>5. ctl' \in Seq(Controllers)
  BY <1>1, CtlType, ControllerAfterFailureType, SetCtlType DEF TypeOK
<1>6. Scheduled /\ disp' \in Dispatches
  <2>1. (o = "ok") \in BOOLEAN
    OBVIOUS
  <2> QED
    BY <1>1, <2>1, FinishType
<1> QED
  BY <1>1, <1>3, <1>4, <1>5, <1>6, SpendType DEF ToolWrite, TypeOK, Scheduled

LEMMA AdoptType ==
  ASSUME TypeOK, NEW t \in Tasks, Adopt(t)
  PROVE  TypeOK'
<1>1. st' \in States
  BY DEF Adopt, TypeOK, States
<1>2. Scheduled
  <2>1. To(t, "st.next") \in Coroutines
    BY ToType DEF Pcs
  <2> QED
    BY <2>1, GoType DEF Adopt
<1> QED
  BY <1>1, <1>2 DEF Adopt, TypeOK, Scheduled

LEMMA ExpireLockedType ==
  ASSUME TypeOK, NEW t \in Tasks, ExpireLocked(t)
  PROVE  TypeOK'
<1>1. st' \in States
  BY DEF ExpireLocked, TypeOK, States
<1>2. Scheduled
  BY IdleType, GoType DEF ExpireLocked
<1> QED
  BY <1>1, <1>2 DEF ExpireLocked, TypeOK, Scheduled

LEMMA RunType ==
  ASSUME TypeOK, NEW t \in Tasks, Run(t)
  PROVE  TypeOK'
<1>1. CASE \/ CreateEntity(t) \/ CreateCheck(t) \/ CreateSend(t)
           \/ CreateCommit(t) \/ RetireWrite(t)
  BY <1>1, CreateEntityType, CreateCheckType, CreateSendType, CreateCommitType,
     RetireWriteType
<1>2. CASE Drain(t) \/ SuspendLocked(t) \/ SuspendWrite(t)
  BY <1>2, DrainType, SuspendLockedType, SuspendWriteType
<1>3. CASE ResumeEnter(t) \/ ResumeOk(t) \/ ResumeEnd(t)
  BY <1>3, ResumeEnterType, ResumeOkType, ResumeEndType
<1>4. CASE SteerBegin(t) \/ SteerEnd(t) \/ SteerNext(t) \/ SteerSilent(t)
  BY <1>4, SteerBeginType, SteerEndType, SteerNextType, SteerSilentType
<1>5. CASE OutputBegin(t) \/ OutputCommit(t) \/ FallbackWrite(t)
  BY <1>5, OutputBeginType, OutputCommitType, FallbackWriteType
<1>6. CASE \/ FinalizeEnter(t) \/ FinalizeLocked(t) \/ FinalizeWrite(t)
           \/ FinalizeReturn(t)
  BY <1>6, FinalizeEnterType, FinalizeLockedType, FinalizeWriteType,
     FinalizeReturnType
<1>7. CASE \/ ToolCheck(t) \/ ToolCommit(t) \/ ToolWrite(t)
           \/ Adopt(t) \/ ExpireLocked(t)
  BY <1>7, ToolCheckType, ToolCommitType, ToolWriteType, AdoptType,
     ExpireLockedType
<1> QED
  BY <1>1, <1>2, <1>3, <1>4, <1>5, <1>6, <1>7 DEF Run

-----------------------------------------------------------------------------
(* The dispatch, and the other callers *)

\* The operations, program points and texts that a new coroutine starts with.
LEMMA Names ==
  /\ {"start", "ack", "silent", "stream", "progress", "final", "shutdown",
      "tool", "expire"} \subseteq Ops
  /\ {"adopt", "st.begin", "st.silent", "out.begin", "fin.enter", "rs.enter",
      "ex.lock"} \subseteq Pcs
  /\ {"part", "prog", "answer"} \subseteq Texts
  /\ {"running", "success"} \subseteq ToolStates
  /\ "stopped" \in Outs
BY DEF Ops, Pcs, Texts, ToolStates, Outs

LEMMA OutputType ==
  ASSUME NEW o \in Ops, NEW p \in Pcs, NEW x \in Texts
  PROVE  [Idle EXCEPT !.op = o, !.text = x, !.pc = p] \in Coroutines
BY IdleType DEF Coroutines

LEMMA UsedType ==
  ASSUME TypeOK
  PROVE  /\ [used EXCEPT !.stream = @ + 1] \in Usage
         /\ [used EXCEPT !.progress = @ + 1] \in Usage
         /\ [used EXCEPT !.agent = @ + 1] \in Usage
<1>1. used \in Usage
  BY DEF TypeOK
<1> QED
  BY <1>1 DEF Usage

LEMMA StartingType ==
  ASSUME TypeOK
  PROVE  Starting(disp) \in Dispatches
<1> DEFINE n == disp.count + 1
<1>1. disp \in Dispatches
  BY DEF TypeOK
<1>2. n \in Nat
  BY <1>1 DEF Dispatches
<1>3. Starting(disp) = [disp EXCEPT !.phase = "starting", !.count = n,
                                    !.marked = FALSE, !.final = FALSE]
  BY DEF Starting
<1> HIDE DEF n
<1> QED
  BY <1>1, <1>2, <1>3 DEF Dispatches

LEMMA DispatchStartType ==
  ASSUME TypeOK, DispatchStart
  PROVE  TypeOK'
<1> DEFINE n == clock + 1
           r == [Idle EXCEPT !.op = "start", !.want = n, !.ret = "st.next"]
<1>1. n \in Nat
  BY DEF TypeOK
<1>2. clock' = n /\ newest' = n /\ Create("runner", r)
  BY DEF DispatchStart
<1> HIDE DEF n
<1>3. r \in Coroutines
  BY <1>1, IdleType, Names DEF Coroutines, Returns
<1> HIDE DEF r
<1>4. Scheduled
  BY <1>2, <1>3, CreateType DEF Tasks, Roles
<1> QED
  BY <1>1, <1>2, <1>4, StartingType DEF DispatchStart, TypeOK, Scheduled

LEMMA DispatchContinueType ==
  ASSUME TypeOK, DispatchContinue
  PROVE  TypeOK'
<1> DEFINE n == clock + 1
           r(a, p) == [Idle EXCEPT !.op = "start", !.pc = p, !.want = a]
<1>1. n \in Nat /\ st.anchor \in Nat
  BY DEF TypeOK, States
<1>2. \A a \in Nat, p \in {"adopt", "st.begin"} : r(a, p) \in Coroutines
  BY IdleType, Names DEF Coroutines
<1>3. \/ clock' = n /\ Go("runner", r(n, "st.begin"))
      \/ /\ UNCHANGED clock
         /\ \E p \in {"adopt", "st.begin"} : Go("runner", r(st.anchor, p))
  <2>1. CASE st.open
    BY <2>1 DEF DispatchContinue
  <2>2. CASE ~st.open
    BY <2>2 DEF DispatchContinue
  <2> QED
    BY <2>1, <2>2
<1> HIDE DEF n, r
<1>4. Scheduled /\ clock' \in Nat
  BY <1>1, <1>2, <1>3, GoType DEF TypeOK, Tasks, Roles
<1> QED
  BY <1>4, StartingType DEF DispatchContinue, TypeOK, Scheduled

LEMMA CompleteType ==
  ASSUME TypeOK, Complete
  PROVE  TypeOK'
<1>1. PICK e \in Endings :
        LET out == CASE e = "success" -> "complete" [] e = "failure" -> "error"
                     [] e = "cancelled" -> "stopped"
            note == IF e = "success" \/ st.content # "" THEN st.content
                    ELSE "note"
        IN  /\ disp' = [disp EXCEPT !.phase = "idle", !.end = e]
            /\ \/ /\ UNCHANGED st
                  /\ Go("runner", [Idle EXCEPT !.pc = "fin.enter",
                                     !.op = "complete", !.saw = st.open,
                                     !.text = note, !.out = out])
               \/ /\ \E s \in {st, ClosedBy(st, out)} : st' \in {s, Forgotten(s)}
                  /\ UNCHANGED <<task, cpu, waiters>>
  BY DEF Complete
<1> DEFINE out == CASE e = "success" -> "complete" [] e = "failure" -> "error"
                    [] e = "cancelled" -> "stopped"
           note == IF e = "success" \/ st.content # "" THEN st.content
                   ELSE "note"
           r == [Idle EXCEPT !.pc = "fin.enter", !.op = "complete",
                             !.saw = st.open, !.text = note, !.out = out]
<1>2. out \in Outs /\ out \in Phases
  BY ChoicesAssumption DEF Outs, Phases
<1>3. st \in States
  BY DEF TypeOK
<1>4. note \in Texts /\ st.open \in BOOLEAN
  BY <1>3 DEF States, Texts
<1>5. /\ disp' = [disp EXCEPT !.phase = "idle", !.end = e]
      /\ \/ UNCHANGED st /\ Go("runner", r)
         \/ /\ \E s \in {st, ClosedBy(st, out)} : st' \in {s, Forgotten(s)}
            /\ UNCHANGED <<task, cpu, waiters>>
  BY <1>1
<1> HIDE DEF out, note
<1>6. r \in Coroutines
  BY <1>2, <1>4, IdleType DEF Coroutines, Pcs, Ops
<1> HIDE DEF r
<1>7. st' \in States
  <2>1. \A s \in States : Forgotten(s) \in States
    BY DEF States, Forgotten
  <2> QED
    BY <1>2, <1>3, <1>5, <2>1, ClosedByType
<1>8. Scheduled
  BY <1>5, <1>6, GoType DEF Tasks, Roles, TypeOK, Scheduled
<1>9. disp' \in Dispatches
  BY <1>5 DEF TypeOK, Dispatches
<1> QED
  BY <1>7, <1>8, <1>9 DEF Complete, TypeOK, Scheduled

LEMMA StreamDeltaType ==
  ASSUME TypeOK, StreamDelta
  PROVE  TypeOK'
<1> DEFINE r == [Idle EXCEPT !.op = "stream", !.text = "part",
                             !.pc = "out.begin"]
<1>1. r \in Coroutines
  BY Names, OutputType
<1>2. Go("consumer", r) /\ used' = [used EXCEPT !.stream = @ + 1]
  BY DEF StreamDelta
<1> HIDE DEF r
<1>3. Scheduled
  BY <1>1, <1>2, GoType DEF Tasks, Roles
<1>4. used' \in Usage
  BY <1>2, UsedType
<1> QED
  BY <1>3, <1>4 DEF StreamDelta, TypeOK, Scheduled

LEMMA FinalAnswerType ==
  ASSUME TypeOK, FinalAnswer
  PROVE  TypeOK'
<1> DEFINE r(o, p) == [Idle EXCEPT !.op = o, !.text = "answer", !.pc = p]
           post == [anchor |-> 0, text |-> "answer"]
<1>1. \A o \in {"final", "stream"}, p \in {"fin.enter", "rs.enter", "out.begin"} :
        r(o, p) \in Coroutines
  BY Names, OutputType
<1>2. /\ \/ /\ UNCHANGED posts
            /\ \E o \in {"final", "stream"},
                  p \in {"fin.enter", "rs.enter", "out.begin"} :
                 Go("consumer", r(o, p))
         \/ posts' = Append(posts, post) /\ UNCHANGED <<task, cpu, waiters>>
      /\ disp' \in {[disp EXCEPT !.final = TRUE],
                   [disp EXCEPT !.final = TRUE, !.acked = TRUE]}
  <2>1. CASE st.terminal
    BY <2>1 DEF FinalAnswer
  <2>2. CASE ~st.terminal
    <3>1. \A p : [[Idle EXCEPT !.op = "final", !.text = "answer"] EXCEPT
                     !.op = "stream", !.pc = p] = r("stream", p)
      BY DEF Idle
    <3> QED
      BY <2>2, <3>1 DEF FinalAnswer
  <2> QED
    BY <2>1, <2>2
<1>3. post \in Posts
  BY DEF Posts, Texts
<1> HIDE DEF r, post
<1>4. Scheduled
  BY <1>1, <1>2, GoType DEF Tasks, Roles, TypeOK, Scheduled
<1>5. posts' \in Seq(Posts)
  <2>1. posts \in Seq(Posts)
    BY DEF TypeOK
  <2>2. Append(posts, post) \in Seq(Posts)
    BY <1>3, <2>1, AppendElement
  <2> QED
    BY <1>2, <2>1, <2>2
<1>6. disp' \in Dispatches
  BY <1>2 DEF TypeOK, Dispatches
<1> QED
  BY <1>4, <1>5, <1>6 DEF FinalAnswer, TypeOK, Scheduled

LEMMA ProgressType ==
  ASSUME TypeOK, Progress
  PROVE  TypeOK'
<1> DEFINE r == [Idle EXCEPT !.op = "progress", !.text = "prog",
                             !.pc = "out.begin"]
<1>1. r \in Coroutines
  BY Names, OutputType
<1>2. Go("notifier", r) /\ used' = [used EXCEPT !.progress = @ + 1]
  BY DEF Progress
<1> HIDE DEF r
<1>3. Scheduled
  BY <1>1, <1>2, GoType DEF Tasks, Roles
<1>4. used' \in Usage
  BY <1>2, UsedType
<1> QED
  BY <1>3, <1>4 DEF Progress, TypeOK, Scheduled

LEMMA AgentTurnType ==
  ASSUME TypeOK, NEW op, AgentTurn(op)
  PROVE  used' \in Usage
BY UsedType DEF AgentTurn

LEMMA ToolUpdateType ==
  ASSUME TypeOK, ToolUpdate
  PROVE  TypeOK'
<1>1. \A w \in {"running", "success"} :
        [Idle EXCEPT !.op = "tool", !.tool = w, !.pc = "rs.enter"] \in Coroutines
  BY IdleType, Names DEF Coroutines
<1>2. Scheduled
  BY <1>1, GoType DEF ToolUpdate, Tasks, Roles
<1>3. disp' \in Dispatches
  BY DEF ToolUpdate, TypeOK, Dispatches
<1> QED
  BY <1>2, <1>3, AgentTurnType DEF ToolUpdate, TypeOK, Scheduled

LEMMA BoundaryType ==
  ASSUME TypeOK, NEW why \in {"artifact", "approval", "question"}, Boundary(why)
  PROVE  TypeOK'
<1> DEFINE n == clock + 1
           r == [Idle EXCEPT !.op = "boundary", !.why = why, !.want = n]
<1>1. n \in Nat
  BY DEF TypeOK
<1>2. clock' = n /\ (Suspend("agent", r) \/ UNCHANGED <<ctl, task, cpu, waiters>>)
  BY DEF Boundary
<1> HIDE DEF n
<1>3. r \in Coroutines
  BY <1>1, IdleType DEF Coroutines, Ops, Reasons
<1> HIDE DEF r
<1>4. Scheduled /\ ctl' \in Seq(Controllers)
  BY <1>2, <1>3, SuspendType DEF Tasks, Roles, TypeOK, Scheduled
<1> QED
  BY <1>1, <1>2, <1>4, AgentTurnType DEF Boundary, TypeOK, Scheduled

LEMMA MarkTerminalType ==
  ASSUME TypeOK, MarkTerminal
  PROVE  TypeOK'
<1>1. st' \in States
  BY DEF MarkTerminal, TypeOK, States
<1>2. disp' \in Dispatches
  BY DEF MarkTerminal, TypeOK, Dispatches
<1> QED
  BY <1>1, <1>2 DEF MarkTerminal, TypeOK

LEMMA SteerType ==
  ASSUME TypeOK, NEW t \in Steers, Steer(t)
  PROVE  TypeOK'
<1> DEFINE n == clock + 1
           r(m, p) == [Idle EXCEPT !.op = m, !.want = n, !.pc = p]
           e(m, p) == [Idle EXCEPT !.op = m, !.want = st.anchor, !.saw = TRUE,
                                   !.pc = p]
<1>1. n \in Nat /\ clock \in Nat /\ st.anchor \in Nat /\ t \in Tasks
  BY DEF TypeOK, Tasks, States
<1>2. \E m \in {"ack", "silent"}, p \in {"st.begin", "st.silent", "adopt"} :
        Go(t, r(m, p)) \/ Go(t, e(m, p))
  <2>1. PICK m \in SteerModes :
          \/ Go(t, r(m, IF m = "ack" THEN "st.begin" ELSE "st.silent"))
          \/ Go(t, e(m, IF m = "silent" THEN "st.silent"
                        ELSE IF st.open THEN "adopt" ELSE "st.begin"))
    BY DEF Steer
  <2> QED
    BY <2>1, ChoicesAssumption
<1>3. clock' \in {n, clock}
  BY DEF Steer
<1> HIDE DEF n
<1>4. \A m \in {"ack", "silent"}, p \in {"st.begin", "st.silent", "adopt"} :
        r(m, p) \in Coroutines /\ e(m, p) \in Coroutines
  BY <1>1, IdleType, Names DEF Coroutines
<1> HIDE DEF r, e
<1>5. Scheduled
  BY <1>1, <1>2, <1>4, GoType
<1>6. used' \in Usage
  BY DEF Steer, TypeOK, Usage
<1> QED
  BY <1>1, <1>3, <1>5, <1>6 DEF Steer, TypeOK, Scheduled

LEMMA WithoutType ==
  ASSUME TypeOK, NEW t
  PROVE  Without(t) \in Seq(Tasks \cup {"flush"})
<1> DEFINE k == CHOOSE i \in 1..Len(waiters) : waiters[i] = t
           n == Len(waiters) - 1
           w == [i \in 1..n |-> IF i < k THEN waiters[i] ELSE waiters[i + 1]]
<1>1. CASE \E i \in 1..Len(waiters) : waiters[i] = t
  <2>1. Without(t) = w
    BY <1>1 DEF Without
  <2>2. n \in Nat /\ Len(waiters) = n + 1
    BY <1>1 DEF TypeOK
  <2>3. \A i \in 1..n : waiters[i] \in Tasks \cup {"flush"}
                       /\ waiters[i + 1] \in Tasks \cup {"flush"}
    BY <2>2, ElementType DEF TypeOK
  <2> HIDE DEF k, n
  <2>4. w \in [1..n -> Tasks \cup {"flush"}]
    BY <2>3
  <2> HIDE DEF w
  <2> QED
    BY <2>1, <2>2, <2>4
<1>2. CASE ~\E i \in 1..Len(waiters) : waiters[i] = t
  BY <1>2 DEF Without, TypeOK
<1> QED
  BY <1>1, <1>2

LEMMA ReservedType ==
  ASSUME TypeOK, NEW n \in Nat
  PROVE  Reserved(st, n) \in States
<1> DEFINE m == st.seq + n
<1>1. st \in States /\ m \in Nat
  BY DEF TypeOK, States
<1>2. Reserved(st, n) = [st EXCEPT !.seq = m]
  BY DEF Reserved
<1> HIDE DEF m
<1> QED
  BY <1>1, <1>2 DEF States

LEMMA LeavesType ==
  ASSUME TypeOK, NEW t \in Tasks, NEW r \in Coroutines, Leaves(t, r)
  PROVE  task' \in [Tasks -> Coroutines]
BY DEF Leaves, TypeOK

LEMMA CancelFreezeType ==
  ASSUME TypeOK, NEW t \in Tasks, CancelFreeze(t)
  PROVE  /\ st' \in States /\ segs' \in Seq(CardType)
         /\ task' \in [Tasks -> Coroutines]
<1> DEFINE n == st.seq + 2
           r == [Idle EXCEPT !.pc = "late.card", !.why = "steer",
                   !.text = st.content, !.tool = st.tool, !.ref = st.cur,
                   !.want = n]
<1>1. st.content \in Texts /\ st.tool \in ToolStates /\ st.cur \in Nat
      /\ n \in Nat
  BY DEF TypeOK, States
<1>2. \/ st' = Reserved(st, 1) /\ Leaves(t, Idle)
      \/ st' = Reserved(st, 2) /\ Leaves(t, r)
  BY DEF CancelFreeze, LeavesNothing
<1> HIDE DEF n
<1>3. r \in Coroutines
  BY <1>1, IdleType DEF Coroutines, Pcs, LatePcs, Reasons
<1> HIDE DEF r
<1> QED
  BY <1>2, <1>3, IdleType, LeavesType, ReservedType DEF CancelFreeze, TypeOK

LEMMA CancelFinalizeType ==
  ASSUME TypeOK, NEW t \in Tasks, CancelFinalize(t)
  PROVE  /\ st' \in States /\ segs' \in Seq(CardType)
         /\ task' \in [Tasks -> Coroutines]
<1> DEFINE changed == st.content # st.flushed
           k == IF changed THEN 1 ELSE 0
           n == st.seq + k
           m == n + 2
           late == [Idle EXCEPT !.pc = "late.card", !.text = st.content,
                                !.ref = st.cur]
           a == [late EXCEPT !.pc = "late.text", !.want = n]
           b == [late EXCEPT !.out = task[t].out, !.tool = st.tool, !.want = m]
           shown(x) == [Reserved(st, x) EXCEPT !.flushed = st.content]
           card == [segs[st.cur] EXCEPT !.text = st.content, !.seq = n]
<1>1. st.content \in Texts /\ st.tool \in ToolStates /\ st.cur \in Nat
      /\ st.seq \in Nat
  BY DEF TypeOK, States
<1>2. task[t].out \in Outs
  BY DEF TypeOK, Coroutines
<1>3. k \in Nat /\ k + 1 \in Nat /\ k + 2 \in Nat /\ n \in Nat /\ m \in Nat
  BY <1>1
<1>4. \/ st' = Reserved(st, 1) /\ UNCHANGED segs /\ Leaves(t, a)
      \/ /\ segs' = segs \/ segs' = [segs EXCEPT ![st.cur] = card]
         /\ \/ st' = shown(k + 1) /\ Leaves(t, Idle)
            \/ st' = shown(k + 2) /\ Leaves(t, b)
  BY DEF CancelFinalize, LeavesNothing
<1> HIDE DEF n, m, k
<1>5. a \in Coroutines /\ b \in Coroutines
  BY <1>1, <1>2, <1>3, IdleType DEF Coroutines, Pcs, LatePcs
<1>6. \A x \in Nat : shown(x) \in States
  BY <1>1, ReservedType DEF States
<1>7. st.cur \in 1..Len(segs) => card \in CardType
  <2>1. ASSUME st.cur \in 1..Len(segs)
        PROVE  segs[st.cur] \in CardType
    BY <2>1, ElementType DEF TypeOK
  <2> QED
    BY <1>1, <1>3, <2>1 DEF CardType
<1> HIDE DEF a, b, shown, card
<1>8. segs' \in Seq(CardType)
  BY <1>4, <1>7, CardWriteType DEF TypeOK
<1> QED
  BY <1>3, <1>4, <1>5, <1>6, <1>8, IdleType, LeavesType, ReservedType

LEMMA CancelRetireType ==
  ASSUME TypeOK, NEW t \in Tasks, CancelRetire(t)
  PROVE  task' \in [Tasks -> Coroutines]
<1> DEFINE r(x) == [Idle EXCEPT !.pc = "late.card", !.ref = task[t].ref,
                      !.why = x, !.out = "stopped", !.want = 2]
<1>1. task[t].ref \in Nat
  BY DEF TypeOK, Coroutines
<1>2. \A x \in Reasons : r(x) \in Coroutines
  BY <1>1, IdleType DEF Coroutines, Pcs, LatePcs, Outs
<1>3. (IF st.closed THEN "" ELSE "steer") \in Reasons
  BY DEF Reasons
<1>4. Leaves(t, Idle) \/ Leaves(t, r(IF st.closed THEN "" ELSE "steer"))
  BY DEF CancelRetire, LeavesNothing
<1> HIDE DEF r
<1> QED
  BY <1>2, <1>3, <1>4, IdleType, LeavesType

LEMMA CancelCallType ==
  ASSUME TypeOK, NEW t \in Tasks, CancelCall(t)
  PROVE  task' \in [Tasks -> Coroutines]
<1>1. To(t, "late.send") \in Coroutines /\ To(t, "late.post") \in Coroutines
  BY ToType DEF Pcs, LatePcs
<1>2. Leaves(t, To(t, "late.send")) \/ Leaves(t, To(t, "late.post"))
  BY DEF CancelCall
<1> QED
  BY <1>1, <1>2, LeavesType

LEMMA CancelSteerType ==
  ASSUME TypeOK, NEW t \in Steers, CancelSteer(t)
  PROVE  TypeOK'
<1>1. t \in Tasks
  BY DEF Tasks
<1>2. \/ CancelFreeze(t) \/ CancelFinalize(t) \/ CancelRetire(t)
      \/ CancelCall(t) \/ (UNCHANGED <<st, segs>> /\ Leaves(t, Idle))
  BY DEF CancelSteer, LeavesNothing
<1>3. UNCHANGED <<st, segs>> => st' \in States /\ segs' \in Seq(CardType)
  BY DEF TypeOK
<1>4. CancelRetire(t) \/ CancelCall(t) => UNCHANGED <<st, segs>>
  BY DEF CancelRetire, CancelCall
<1>5. /\ st' \in States /\ segs' \in Seq(CardType)
      /\ task' \in [Tasks -> Coroutines]
  BY <1>1, <1>2, <1>3, <1>4, IdleType, LeavesType, CancelFreezeType,
     CancelFinalizeType, CancelRetireType, CancelCallType
<1> QED
  BY <1>5, WithoutType DEF CancelSteer, TypeOK

LEMMA LateCardType ==
  ASSUME TypeOK, NEW t \in Tasks, LateCard(task[t])
  PROVE  segs' \in Seq(CardType)
<1> DEFINE r == task[t]
           old == segs[r.ref]
           a == [old EXCEPT !.text = r.text, !.seq = r.want]
           b(x) == [old EXCEPT !.text = r.text, !.tool = r.tool, !.seq = r.want,
                               !.status = x]
<1>1. r.text \in Texts /\ r.tool \in ToolStates /\ r.want \in Nat
      /\ r.out \in Outs /\ r.ref \in Nat
  BY DEF TypeOK, Coroutines
<1>2. \/ segs' = [segs EXCEPT ![r.ref] = a]
      \/ segs' = [segs EXCEPT ![r.ref] = b("continued")]
      \/ segs' = [segs EXCEPT ![r.ref] = b(r.out)]
  BY DEF LateCard
<1>3. r.ref \in 1..Len(segs) =>
        /\ a \in CardType
        /\ b("continued") \in CardType
        /\ b(r.out) \in CardType
  <2>1. ASSUME r.ref \in 1..Len(segs)
        PROVE  old \in CardType
    BY <2>1, ElementType DEF TypeOK
  <2> HIDE DEF r, old
  <2> QED
    BY <1>1, <2>1 DEF CardType
<1> HIDE DEF r, a, b
<1> QED
  BY <1>1, <1>2, <1>3, SetElement DEF TypeOK

LEMMA LateSendType ==
  ASSUME TypeOK, NEW t \in Tasks, LateSend(task[t])
  PROVE  segs' \in Seq(CardType) /\ ctl' \in Seq(Controllers)
<1> DEFINE c == NewCard(ReplyTo(task[t]))
<1>1. c \in CardType
  BY DEF TypeOK, Coroutines, NewCard, CardType, ToolStates, Texts, ReplyTo
<1>2. NewController \in Controllers
  BY DEF NewController, Controllers, Texts
<1>3. segs' = Append(segs, c) /\ ctl' = Append(ctl, NewController)
  BY DEF LateSend
<1> HIDE DEF c
<1> QED
  BY <1>1, <1>2, <1>3, AppendElement DEF TypeOK

LEMMA LatePostType ==
  ASSUME TypeOK, NEW t \in Tasks, LatePost(task[t])
  PROVE  posts' \in Seq(Posts)
<1> DEFINE r == task[t]
           a == [anchor |-> r.expect, text |-> r.text]
           b == [posts[r.ref] EXCEPT !.text = r.text]
<1>1. r.text \in Texts /\ r.expect \in Nat /\ r.ref \in Nat
  BY DEF TypeOK, Coroutines
<1>2. posts' = Append(posts, a) \/ posts' = [posts EXCEPT ![r.ref] = b]
  BY DEF LatePost
<1>3. a \in Posts
  BY <1>1 DEF Posts
<1>4. r.ref \in 1..Len(posts) => b \in Posts
  <2>1. ASSUME r.ref \in 1..Len(posts)
        PROVE  posts[r.ref] \in Posts
    BY <2>1, ElementType DEF TypeOK
  <2> HIDE DEF r
  <2> QED
    BY <1>1, <2>1 DEF Posts
<1> HIDE DEF r, a, b
<1> QED
  BY <1>1, <1>2, <1>3, <1>4, SetElement, AppendElement DEF TypeOK

LEMMA LateCallType ==
  ASSUME TypeOK, NEW t \in Steers, LateCall(t)
  PROVE  TypeOK'
<1>1. t \in Tasks
  BY DEF Tasks
<1>2. task' \in [Tasks -> Coroutines]
  BY <1>1, IdleType, LeavesType DEF LateCall, LeavesNothing
<1>3. \/ UNCHANGED <<segs, posts, ctl>> \/ LateCard(task[t])
      \/ LateSend(task[t]) \/ LatePost(task[t])
  BY DEF LateCall
<1>4. segs' \in Seq(CardType) /\ posts' \in Seq(Posts)
      /\ ctl' \in Seq(Controllers)
  BY <1>1, <1>3, LateCardType, LateSendType, LatePostType
     DEF LateCard, LateSend, LatePost, TypeOK
<1> QED
  BY <1>2, <1>4 DEF LateCall, TypeOK

LEMMA ShutDownType ==
  ASSUME TypeOK, ShutDown
  PROVE  TypeOK'
<1> DEFINE x == Terminal("")
           r == [Idle EXCEPT !.op = "shutdown", !.pc = "fin.enter",
                             !.out = "stopped", !.text = x]
<1>1. x \in Texts
  BY RawType DEF Texts
<1>2. Go("closer", r)
  BY DEF ShutDown
<1> HIDE DEF x
<1>3. r \in Coroutines
  BY <1>1, IdleType, Names DEF Coroutines
<1> HIDE DEF r
<1>4. Scheduled
  BY <1>2, <1>3, GoType DEF Tasks, Roles
<1> QED
  BY <1>4 DEF ShutDown, TypeOK, Scheduled

LEMMA ExpireType ==
  ASSUME TypeOK, Expire
  PROVE  TypeOK'
<1> DEFINE r == [Idle EXCEPT !.op = "expire", !.pc = "ex.lock"]
<1>1. r \in Coroutines
  BY IdleType DEF Coroutines, Pcs, Ops
<1>2. Go("expirer", r)
  BY DEF Expire
<1> HIDE DEF r
<1>3. Scheduled
  BY <1>1, <1>2, GoType DEF Tasks, Roles
<1> QED
  BY <1>3 DEF Expire, TypeOK, Scheduled

-----------------------------------------------------------------------------
(* The flush task *)

LEMMA FlushedType ==
  ASSUME NEW c \in Controllers
  PROVE  Flushed(c) \in Controllers
<1> DEFINE q == IF c.dirty /\ ~c.stopped THEN "scheduled" ELSE "idle"
           d == c.dirty /\ c.stopped
<1>1. q \in {"idle", "scheduled", "inflight", "write"} /\ d \in BOOLEAN
      /\ "" \in Texts
  BY DEF Controllers, Texts
<1>2. Flushed(c) = [c EXCEPT !.state = q, !.dirty = d, !.text = ""]
  BY DEF Flushed
<1> HIDE DEF q, d
<1> QED
  BY <1>1, <1>2 DEF Controllers

LEMMA FlushFireType ==
  ASSUME TypeOK, NEW i \in 1..Len(ctl), FlushFire(i)
  PROVE  TypeOK'
<1>1. ctl[i] \in Controllers /\ i \in Nat
  BY ElementType DEF TypeOK
<1>2. ctl' \in Seq(Controllers)
  <2> DEFINE c == [ctl[i] EXCEPT !.state = "inflight"]
             d == Flushed(ctl[i])
  <2>1. c \in Controllers /\ d \in Controllers
    BY <1>1, FlushedType DEF Controllers
  <2>2. ctl' \in {[ctl EXCEPT ![i] = c], [ctl EXCEPT ![i] = d]}
    BY DEF FlushFire
  <2> HIDE DEF c, d
  <2> QED
    BY <1>1, <2>1, <2>2, SetElement DEF TypeOK
<1>3. cpu' \in Tasks \cup {NoTask, "flush"}
      /\ waiters' \in Seq(Tasks \cup {"flush"})
  <2>1. Append(waiters, "flush") \in Seq(Tasks \cup {"flush"})
    BY AppendElement DEF TypeOK
  <2>2. CASE ctl[i].stopped
    BY <2>2 DEF FlushFire, TypeOK
  <2>3. CASE ~ctl[i].stopped
    <3>1. cpu' \in {"flush", NoTask}
      BY <2>3 DEF FlushFire
    <3>2. waiters' \in {<<>>, Append(waiters, "flush")}
      BY <2>3 DEF FlushFire
    <3>3. <<>> \in Seq(Tasks \cup {"flush"})
      OBVIOUS
    <3> QED
      BY <2>1, <3>1, <3>2, <3>3
  <2> QED
    BY <2>2, <2>3
<1> QED
  BY <1>2, <1>3 DEF FlushFire, TypeOK

LEMMA FlushLockedType ==
  ASSUME TypeOK, NEW i \in 1..Len(ctl), FlushLocked(i)
  PROVE  TypeOK'
<1>1. ctl[i] \in Controllers /\ i \in Nat /\ st.content \in Texts
  BY ElementType DEF TypeOK, States
<1>2. ctl' \in Seq(Controllers)
  <2> DEFINE c == [ctl[i] EXCEPT !.state = "write", !.text = st.content]
             d == Flushed(ctl[i])
  <2>1. c \in Controllers
    BY <1>1 DEF Controllers
  <2>2. d \in Controllers
    BY <1>1, FlushedType
  <2>3. ctl' \in {[ctl EXCEPT ![i] = c], [ctl EXCEPT ![i] = d]}
    BY DEF FlushLocked, TypeOK
  <2> HIDE DEF c, d
  <2> QED
    BY <1>1, <2>1, <2>2, <2>3, SetElement DEF TypeOK
<1>3. waiters' \in Seq(Tasks \cup {"flush"})
  BY DEF FlushLocked, TypeOK, Rest
<1>4. lock' \in Tasks \cup {NoTask, "flush"}
  BY DEF FlushLocked, TypeOK
<1>5. cpu' = NoTask
  BY DEF FlushLocked
<1> QED
  BY <1>2, <1>3, <1>4, <1>5 DEF FlushLocked, TypeOK

LEMMA FlushWriteType ==
  ASSUME TypeOK, NEW i \in 1..Len(ctl), FlushWrite(i)
  PROVE  TypeOK'
<1> DEFINE text == ctl[i].text
           full == st.phase = "thinking" \/ st.pending
           g == [st EXCEPT !.seq = @ + 1, !.phase = "generating",
                           !.pending = FALSE]
           s == IF full THEN g ELSE st
           drawn == [segs[st.cur] EXCEPT !.status = "streaming", !.text = text,
                                         !.tool = st.tool, !.seq = s.seq]
           card == IF full THEN drawn ELSE segs[st.cur]
           n == s.seq + 1
           last == [card EXCEPT !.text = text, !.seq = n]
           done == [s EXCEPT !.flushed = text, !.seq = n]
           one == [st EXCEPT !.seq = @ + 1]
           two == [s EXCEPT !.seq = n]
           c(o) == [ctl EXCEPT ![st.cur] = ControllerAfterFailure(@, o)]
<1>1. st \in States /\ st.seq \in Nat /\ st.tool \in ToolStates
  BY DEF TypeOK, States
<1>2. ctl[i] \in Controllers /\ i \in Nat
  BY ElementType DEF TypeOK
<1>3. text \in Texts
  BY <1>2 DEF Controllers
<1>4. g \in States /\ one \in States
  <2> DEFINE m == st.seq + 1
  <2>1. m \in Nat
    BY <1>1
  <2>2. g = [st EXCEPT !.seq = m, !.phase = "generating", !.pending = FALSE]
        /\ one = [st EXCEPT !.seq = m]
    OBVIOUS
  <2> HIDE DEF m, g, one
  <2> QED
    BY <1>1, <2>1, <2>2 DEF States, Phases
<1>5. PICK o :
        /\ Spend(o)
        /\ \/ segs' \in {[segs EXCEPT ![st.cur] = last],
                         [segs EXCEPT ![st.cur] = card]}
              /\ st' \in {done, s}
           \/ UNCHANGED segs /\ st' = AfterFailure(one, o, TRUE)
           \/ segs' = [segs EXCEPT ![st.cur] = card]
              /\ st' = AfterFailure(two, o, FALSE)
        /\ \/ ctl' = [ctl EXCEPT ![i] = Flushed(@)]
           \/ ctl' = [c(o) EXCEPT ![i] = Flushed(@)]
  <2> DEFINE changed == text # st.flushed
  <2>1. PICK o :
          /\ Spend(o)
          /\ \/ /\ segs' = [segs EXCEPT ![st.cur] =
                              IF changed THEN last ELSE card]
                /\ st' = IF changed THEN done ELSE s
             \/ UNCHANGED segs /\ st' = AfterFailure(one, o, TRUE)
             \/ segs' = [segs EXCEPT ![st.cur] = card]
                /\ st' = AfterFailure(two, o, FALSE)
          /\ ctl' = IF o = "ok" THEN [ctl EXCEPT ![i] = Flushed(@)]
                    ELSE [c(o) EXCEPT ![i] = Flushed(@)]
    BY DEF FlushWrite
  <2> HIDE DEF last, card, done, s, one, two, c, changed
  <2>2. CASE changed
    BY <2>1, <2>2
  <2>3. CASE ~changed
    BY <2>1, <2>3
  <2> QED
    BY <2>2, <2>3
<1> HIDE DEF text, g, one
<1>6. s \in States /\ s.seq \in Nat /\ n \in Nat
  <2>1. s \in States
    BY <1>1, <1>4
  <2> HIDE DEF s
  <2> QED
    BY <2>1 DEF States
<1>7. done \in States /\ two \in States
  <2> HIDE DEF n, s
  <2> QED
    BY <1>3, <1>6 DEF States
<1>8. st.cur \in 1..Len(segs) => card \in CardType /\ last \in CardType
  <2>1. ASSUME st.cur \in 1..Len(segs)
        PROVE  card \in CardType /\ last \in CardType
    <3>1. segs[st.cur] \in CardType
      BY <2>1, ElementType DEF TypeOK
    <3>2. drawn \in CardType
      <4> HIDE DEF s
      <4> QED
        BY <1>1, <1>3, <1>6, <3>1 DEF CardType
    <3>3. card \in CardType
      <4> HIDE DEF drawn
      <4> QED
        BY <3>1, <3>2
    <3> HIDE DEF card, n
    <3>4. last \in CardType
      BY <1>3, <1>6, <3>3 DEF CardType
    <3> QED
      BY <3>3, <3>4
  <2> QED
    BY <2>1
<1> HIDE DEF card, last, done, s, two
<1>9. segs' \in Seq(CardType)
  BY <1>5, <1>8, CardWriteType DEF TypeOK
<1>10. st' \in States
  BY <1>4, <1>5, <1>6, <1>7, AfterFailureType
<1>11. ctl' \in Seq(Controllers)
  <2>1. st.cur \in Nat /\ ctl \in Seq(Controllers)
    BY <1>1 DEF States, TypeOK
  <2>2. c(o) \in Seq(Controllers)
    <3> DEFINE e == ControllerAfterFailure(ctl[st.cur], o)
    <3>1. st.cur \in 1..Len(ctl) => e \in Controllers
      BY <2>1, ElementType, ControllerAfterFailureType
    <3>2. c(o) = [ctl EXCEPT ![st.cur] = e]
      OBVIOUS
    <3> HIDE DEF e, c
    <3> QED
      BY <2>1, <3>1, <3>2, SetElement
  <2>3. \A x \in Seq(Controllers) : [x EXCEPT ![i] = Flushed(@)] \in Seq(Controllers)
    <3> TAKE x \in Seq(Controllers)
    <3> DEFINE e == Flushed(x[i])
    <3>1. i \in 1..Len(x) => e \in Controllers
      BY ElementType, FlushedType
    <3>2. [x EXCEPT ![i] = Flushed(@)] = [x EXCEPT ![i] = e]
      OBVIOUS
    <3> HIDE DEF e
    <3> QED
      BY <1>2, <3>1, <3>2, SetElement
  <2> HIDE DEF c
  <2>4. ctl' \in {[ctl EXCEPT ![i] = Flushed(@)], [c(o) EXCEPT ![i] = Flushed(@)]}
    BY <1>5
  <2> QED
    BY <2>1, <2>2, <2>3, <2>4
<1> QED
  BY <1>5, <1>9, <1>10, <1>11, SpendType DEF FlushWrite, TypeOK

-----------------------------------------------------------------------------
(* The specification *)

LEMMA InitType == Init => TypeOK
<1> SUFFICES ASSUME Init
             PROVE  TypeOK
  OBVIOUS
<1>1. task \in [Tasks -> Coroutines]
  BY IdleType DEF Init
<1>2. disp \in Dispatches
  BY DEF Init, Dispatches
<1>3. used \in Usage
  BY DEF Init, Usage
<1>4. st \in States
  BY NewStateType DEF Init
<1>5. /\ segs \in Seq(CardType) /\ posts \in Seq(Posts)
      /\ ctl \in Seq(Controllers) /\ waiters \in Seq(Tasks \cup {"flush"})
  BY DEF Init
<1>6. lock = NoTask /\ resumeLock = NoTask /\ cpu = NoTask /\ clock = 0
      /\ newest = 0
  BY DEF Init
<1> QED
  BY <1>1, <1>2, <1>3, <1>4, <1>5, <1>6 DEF TypeOK

LEMMA NextType == TypeOK /\ [Next]_vars => TypeOK'
<1> SUFFICES ASSUME TypeOK, [Next]_vars
             PROVE  TypeOK'
  OBVIOUS
<1>1. ASSUME NEW t \in Tasks, Run(t)
      PROVE  TypeOK'
  BY <1>1, RunType
<1>2. ASSUME NEW t \in Steers, Steer(t) \/ CancelSteer(t) \/ LateCall(t)
      PROVE  TypeOK'
  BY <1>2, SteerType, CancelSteerType, LateCallType
<1>3. ASSUME NEW w \in {"artifact", "approval", "question"}, Boundary(w)
      PROVE  TypeOK'
  BY <1>3, BoundaryType
<1>4. CASE DispatchStart \/ DispatchContinue \/ Complete
  BY <1>4, DispatchStartType, DispatchContinueType, CompleteType
<1>5. CASE StreamDelta \/ FinalAnswer \/ Progress
  BY <1>5, StreamDeltaType, FinalAnswerType, ProgressType
<1>6. CASE ToolUpdate \/ MarkTerminal \/ ShutDown \/ Expire
  BY <1>6, ToolUpdateType, MarkTerminalType, ShutDownType, ExpireType
<1>7. CASE Flush
  BY <1>7, FlushFireType, FlushLockedType, FlushWriteType DEF Flush
<1>8. CASE Done \/ UNCHANGED vars
  BY <1>8 DEF Done, TypeOK, vars
<1> QED
  BY <1>1, <1>2, <1>3, <1>4, <1>5, <1>6, <1>7, <1>8 DEF Next

\* Every reachable state of the turn is type correct.
THEOREM TypeCorrect == Spec => []TypeOK
BY InitType, NextType, PTL DEF Spec

-----------------------------------------------------------------------------
(* Frozen cards and the sequence of writes *)

\* The program points that WritesInv speaks of.
Special == {"sus.write", "fin.write", "tool.write", "cr.commit", "rt.write",
            "late.card", "late.text"}

\* No task arrives at a special point; t is at none.
Settled(t) ==
  /\ \A u \in Tasks : task'[u].pc \in Special => task'[u] = task[u]
  /\ task'[t].pc \notin Special

\* No flush starts to write.
CtlSettled ==
  \A i \in 1..Len(ctl') : ctl'[i].state = "write" =>
    i \in 1..Len(ctl) /\ ctl[i].state = "write" /\ ctl[i].text = ctl'[i].text

\* The state is neither reopened nor moved to another card.
StSettled ==
  /\ st'.cur = st.cur /\ st'.seq = st.seq /\ st'.flushed = st.flushed
  /\ st.pending => st'.pending
  /\ st'.open /\ ~st'.closed => st.open /\ ~st.closed

-----------------------------------------------------------------------------
(* Scheduling *)

LEMMA TaskNames ==
  /\ NoTask \notin Tasks /\ "flush" \notin Tasks /\ NoTask # "flush"
  /\ {"runner", "consumer", "agent", "notifier", "closer", "expirer"}
       \subseteq Tasks
BY SteersAssumption DEF Tasks, Roles, NoTask

LEMMA GoSettled ==
  ASSUME TypeOK, NEW t \in Tasks, NEW r, Go(t, r), r.pc \notin Special
  PROVE  Settled(t)
<1>1. task' = [task EXCEPT ![t] = r] /\ task \in [Tasks -> Coroutines]
  BY DEF Go, TypeOK
<1> QED
  BY <1>1 DEF Settled

LEMMA IdleSettled == Idle.pc \notin Special
BY DEF Idle, Special

LEMMA ToPc ==
  ASSUME TypeOK, NEW t \in Tasks, NEW p
  PROVE  To(t, p).pc = p
BY DEF TypeOK, To, Coroutines

LEMMA ToSettled ==
  ASSUME TypeOK, NEW t \in Tasks, NEW p, Go(t, To(t, p)), p \notin Special
  PROVE  Settled(t)
BY ToPc, GoSettled

LEMMA FinishSettled ==
  ASSUME TypeOK, NEW t \in Tasks, NEW ok, Finish(t, ok)
  PROVE  Settled(t)
<1>1. "st.silent" \notin Special
  BY DEF Special
<1> QED
  BY <1>1, IdleSettled, ToPc, GoSettled DEF Finish

LEMMA CreateSettled ==
  ASSUME TypeOK, NEW t \in Tasks, NEW r \in Coroutines, Create(t, r)
  PROVE  Settled(t)
<1> DEFINE q == [r EXCEPT !.pc = "cr.entity", !.ref = 0]
<1>1. q.pc \notin Special
  BY DEF Coroutines, Special
<1> QED
  BY <1>1, GoSettled DEF Create

LEMMA ReturnsSettled ==
  ASSUME TypeOK, NEW t \in Tasks
  PROVE  task[t].ret \notin Special
BY DEF TypeOK, Coroutines, Returns, Special

LEMMA CreatedSettled ==
  ASSUME TypeOK, NEW t \in Tasks, NEW ok, Created(t, ok)
  PROVE  Settled(t)
<1> DEFINE p == IF ok /\ task[t].ret = "rs.end" THEN "rs.ok" ELSE task[t].ret
           r == [task[t] EXCEPT !.res = ok, !.pc = p]
<1>1. p \notin Special
  BY ReturnsSettled DEF Special
<1>2. r.pc = p
  BY DEF TypeOK, Coroutines
<1> QED
  BY <1>1, <1>2, GoSettled DEF Created

LEMMA FinalizedSettled ==
  ASSUME TypeOK, NEW t \in Tasks, NEW ok, Finalized(t, ok)
  PROVE  Settled(t)
<1>1. [To(t, "fin.ret") EXCEPT !.res = ok].pc \notin Special
  BY DEF TypeOK, To, Coroutines, Special
<1> QED
  BY <1>1, GoSettled DEF Finalized

LEMMA SuspendedSettled ==
  ASSUME TypeOK, NEW t \in Tasks, st' \in States, Suspended(t)
  PROVE  Settled(t)
<1> DEFINE r == [task[t] EXCEPT !.expect = st'.anchor, !.ret = "st.end"]
<1>1. r \in Coroutines
  <2>1. task[t] \in Coroutines /\ st'.anchor \in Nat /\ "st.end" \in Returns
    BY DEF TypeOK, States, Returns
  <2> QED
    BY <2>1 DEF Coroutines
<1> HIDE DEF r
<1> QED
  BY <1>1, CreateSettled, FinishSettled DEF Suspended, r

LEMMA AfterResumeSettled ==
  ASSUME TypeOK, NEW t \in Tasks, NEW ok \in BOOLEAN, AfterResume(t, ok)
  PROVE  Settled(t)
<1> DEFINE r == [To(t, "fb.call") EXCEPT !.ref = st.fb, !.expect = st.anchor,
                                         !.ret = "idle"]
<1>1. r.pc \notin Special
  BY DEF TypeOK, To, Coroutines, Special
<1>2. \A p \in {"tool.commit", "tool.check", "fin.enter", "out.commit"} :
        To(t, p).pc \notin Special
  BY ToPc DEF Special
<1> HIDE DEF r
<1>3. \/ \E p \in {"tool.commit", "tool.check", "fin.enter", "out.commit"} :
             Go(t, To(t, p))
      \/ Go(t, r)
      \/ Finish(t, TRUE)
  BY DEF AfterResume, r
<1> QED
  BY <1>1, <1>2, <1>3, GoSettled, FinishSettled

-----------------------------------------------------------------------------
(* Flush controllers *)

LEMMA SetCtlSettled ==
  ASSUME TypeOK, NEW c, SetCtl(c),
         st.cur \in 1..Len(ctl) /\ c.state = "write"
           => Ctl.state = "write" /\ Ctl.text = c.text
  PROVE  CtlSettled
<1>1. ctl' = [ctl EXCEPT ![st.cur] = c] /\ ctl \in Seq(Controllers)
      /\ st.cur \in Nat
  BY DEF SetCtl, TypeOK, States
<1> QED
  BY <1>1 DEF CtlSettled, Ctl

LEMMA UnchangedCtlSettled ==
  ASSUME UNCHANGED ctl
  PROVE  CtlSettled
BY DEF CtlSettled

LEMMA ControllerKept ==
  ASSUME NEW c \in Controllers
  PROVE  /\ Quieted(c).state = "write" => c.state = "write"
         /\ Quieted(c).text = c.text
         /\ Requested(c).state = "write" => c.state = "write"
         /\ Requested(c).text = c.text
         /\ [c EXCEPT !.stopped = TRUE].state = c.state
         /\ [c EXCEPT !.stopped = TRUE].text = c.text
<1>1. /\ Quieted(c).state = "write" => c.state = "write"
      /\ Quieted(c).text = c.text
  BY DEF Quieted, Controllers
<1>2. /\ Requested(c).state = "write" => c.state = "write"
      /\ Requested(c).text = c.text
  BY DEF Requested, Controllers
<1>3. /\ [c EXCEPT !.stopped = TRUE].state = c.state
      /\ [c EXCEPT !.stopped = TRUE].text = c.text
  BY DEF Controllers
<1> QED
  BY <1>1, <1>2, <1>3

LEMMA QuietSettled ==
  ASSUME TypeOK, SetCtl(Quieted(Ctl))
  PROVE  CtlSettled
<1>1. ASSUME st.cur \in 1..Len(ctl), Quieted(Ctl).state = "write"
      PROVE  Ctl.state = "write" /\ Ctl.text = Quieted(Ctl).text
  BY <1>1, CtlType, ControllerKept
<1> QED
  BY <1>1, SetCtlSettled

LEMMA RequestSettled ==
  ASSUME TypeOK, SetCtl(Requested(Ctl))
  PROVE  CtlSettled
<1>1. ASSUME st.cur \in 1..Len(ctl), Requested(Ctl).state = "write"
      PROVE  Ctl.state = "write" /\ Ctl.text = Requested(Ctl).text
  BY <1>1, CtlType, ControllerKept
<1> QED
  BY <1>1, SetCtlSettled

LEMMA StopSettled ==
  ASSUME TypeOK, SetCtl([Ctl EXCEPT !.stopped = TRUE])
  PROVE  CtlSettled
<1> DEFINE c == [Ctl EXCEPT !.stopped = TRUE]
<1>1. ASSUME st.cur \in 1..Len(ctl), c.state = "write"
      PROVE  Ctl.state = "write" /\ Ctl.text = c.text
  BY <1>1, CtlType, ControllerKept
<1> HIDE DEF c
<1> QED
  BY <1>1, SetCtlSettled DEF c

LEMMA FailureSettled ==
  ASSUME TypeOK, NEW o, SetCtl(ControllerAfterFailure(Ctl, o))
  PROVE  CtlSettled
<1> DEFINE c == ControllerAfterFailure(Ctl, o)
<1>1. ASSUME st.cur \in 1..Len(ctl), c.state = "write"
      PROVE  Ctl.state = "write" /\ Ctl.text = c.text
  BY <1>1, CtlType, ControllerKept DEF ControllerAfterFailure
<1> HIDE DEF c
<1> QED
  BY <1>1, SetCtlSettled DEF c

LEMMA SuspendSettled ==
  ASSUME TypeOK, NEW t \in Tasks, NEW r \in Coroutines, Suspend(t, r)
  PROVE  Settled(t) /\ CtlSettled
<1> DEFINE q == [r EXCEPT !.pc = "sus.quiet", !.ref = st.cur]
<1>1. q.pc \notin Special
  BY DEF Coroutines, Special
<1> QED
  BY <1>1, GoSettled, QuietSettled DEF Suspend

-----------------------------------------------------------------------------
(* What keeps WritesInv *)

\* A step that writes no card, takes or gives up no lock a writer needs, and
\* settles.
LEMMA FrameAll ==
  ASSUME TypeOK, TypeOK', WritesInv, CtlSettled, StSettled, UNCHANGED segs,
         \A u \in Tasks : task'[u].pc \in Special =>
            task'[u] = task[u] /\ (lock = u => lock' = u),
         lock = "flush" => lock' = "flush"
  PROVE  WritesInv'
<1>1. \A u \in Tasks : /\ Writing(u)' => Writing(u)
                       /\ task'[u].pc = "rt.write" => task[u].pc = "rt.write"
                       /\ task'[u].pc = "tool.write" => task[u].pc = "tool.write"
                       /\ Publishing(u)' => Publishing(u)
                                            /\ task'[u].ref = task[u].ref
  BY DEF Writing, Publishing, Special
<1>2. \A i \in 1..Len(ctl') : Flushing(i)' =>
        i \in 1..Len(ctl) /\ Flushing(i) /\ ctl[i].text = ctl'[i].text
  BY DEF CtlSettled, Flushing
<1>3. InFlight' => InFlight
  BY <1>1, <1>2 DEF InFlight
<1>4. WriterHasLock'
  <2>1. \A u \in Tasks : Writing(u)' \/ task'[u].pc = "rt.write" => lock' = u
    BY <1>1 DEF WritesInv, WriterHasLock, Writing, Special
  <2>2. \A i \in 1..Len(ctl') : Flushing(i)' => lock' = "flush"
    BY <1>2 DEF WritesInv, WriterHasLock
  <2>3. \A i, j \in 1..Len(ctl') : Flushing(i)' /\ Flushing(j)' => i = j
    BY <1>2 DEF WritesInv, WriterHasLock
  <2> QED
    BY <2>1, <2>2, <2>3 DEF WriterHasLock
<1>5. CurrentStreams'
  BY <1>3 DEF WritesInv, CurrentStreams, StSettled, Cards
<1>6. SequenceAhead'
  <2>1. Cards' = Cards
    BY DEF Cards
  <2> QED
    BY <1>1, <1>2, <2>1 DEF WritesInv, SequenceAhead, StSettled
<1>7. PublishedIsFresh'
  <2>1. Cards' = Cards
    BY DEF Cards
  <2> QED
    BY <1>1, <2>1 DEF WritesInv, PublishedIsFresh, StSettled
<1>8. LateIsBehind'
  <2>1. \A u \in Tasks : task'[u].pc \in {"late.card", "late.text"} =>
          task[u].pc \in {"late.card", "late.text"} /\ task'[u] = task[u]
    BY DEF Special
  <2>2. Cards' = Cards
    BY DEF Cards
  <2> QED
    BY <1>1, <2>1, <2>2 DEF WritesInv, LateIsBehind, StSettled
<1> QED
  BY <1>4, <1>5, <1>6, <1>7, <1>8 DEF WritesInv

LEMMA Frame ==
  ASSUME TypeOK, TypeOK', WritesInv, NEW t \in Tasks, Settled(t), CtlSettled,
         StSettled, UNCHANGED <<segs, lock>>
  PROVE  WritesInv'
BY FrameAll DEF Settled

\* Who owns the lock writes alone.
LEMMA Alone ==
  ASSUME WritesInv
  PROVE  /\ \A t, u \in Tasks : lock = t /\ u # t =>
              ~Writing(u) /\ task[u].pc # "rt.write"
         /\ lock \in {NoTask, "flush"} =>
              \A u \in Tasks : ~Writing(u) /\ task[u].pc # "rt.write"
         /\ lock # "flush" => \A i \in 1..Len(ctl) : ~Flushing(i)
BY TaskNames DEF WritesInv, WriterHasLock

LEMMA SequenceTypes ==
  ASSUME TypeOK, TypeOK'
  PROVE  /\ st.seq \in Nat /\ st'.seq \in Nat /\ st.cur \in Nat
         /\ \A i \in Cards : segs[i].seq \in Nat
         /\ \A i \in Cards' : segs'[i].seq \in Nat
<1>1. st.seq \in Nat /\ st'.seq \in Nat /\ st.cur \in Nat
  BY DEF TypeOK, States
<1>2. \A i \in Cards : segs[i] \in CardType
  BY ElementType DEF TypeOK, Cards
<1>3. \A i \in Cards' : segs'[i] \in CardType
  BY ElementType DEF TypeOK, Cards
<1> QED
  BY <1>1, <1>2, <1>3 DEF CardType

\* A step that takes the lock for a write by t.
LEMMA TakeLock ==
  ASSUME TypeOK, TypeOK', WritesInv, NEW t \in Tasks,
         NEW p \in {"sus.write", "fin.write", "tool.write"},
         lock = NoTask, lock' = t, Go(t, To(t, p)), UNCHANGED <<segs, ctl>>,
         st.open /\ ~st.closed, st'.cur = st.cur, st'.seq >= st.seq,
         p = "tool.write" => st'.seq > st.seq
  PROVE  WritesInv'
<1>1. task' = [task EXCEPT ![t] = To(t, p)] /\ task \in [Tasks -> Coroutines]
  BY DEF Go, TypeOK
<1>2. task'[t].pc = p /\ \A u \in Tasks : u # t => task'[u] = task[u]
  BY <1>1, ToPc
<1>3. \A u \in Tasks : u # t => ~Writing(u)' /\ task'[u].pc # "rt.write"
  BY <1>2, Alone DEF Writing
<1>4. ~Publishing(t)'
  BY <1>2 DEF Publishing
<1>5. \A i \in 1..Len(ctl') : ~Flushing(i)'
  BY Alone, TaskNames DEF Flushing
<1>6. WriterHasLock'
  BY <1>2, <1>3, <1>5 DEF WriterHasLock
<1>7. CurrentStreams'
  BY DEF WritesInv, CurrentStreams, Cards
<1>8. SequenceAhead'
  <2>1. st.cur \in Cards => segs[st.cur].seq \in Nat /\ st.seq \in Nat
                            /\ st'.seq \in Nat /\ segs[st.cur].seq <= st.seq
    BY SequenceTypes DEF WritesInv, SequenceAhead
  <2>2. \A u \in Tasks : task'[u].pc = "tool.write" => u = t /\ p = "tool.write"
    BY <1>2, <1>3 DEF Writing
  <2>3. Cards' = Cards /\ segs' = segs
    BY DEF Cards
  <2> QED
    BY <1>5, <2>1, <2>2, <2>3 DEF SequenceAhead
<1>9. PublishedIsFresh'
  <2>1. \A u \in Tasks : Publishing(u)' => u # t /\ Publishing(u)
                                           /\ task'[u].ref = task[u].ref
    BY <1>2, <1>4 DEF Publishing
  <2>2. Cards' = Cards
    BY DEF Cards
  <2> QED
    BY <2>1, <2>2 DEF WritesInv, PublishedIsFresh
<1>10. LateIsBehind'
  <2>1. \A u \in Tasks : task'[u].pc \in {"late.card", "late.text"} =>
          /\ task[u].pc \in {"late.card", "late.text"} /\ task'[u] = task[u]
          /\ task[u].want \in Nat
    BY <1>2 DEF TypeOK, Coroutines
  <2>2. \A u \in Tasks : /\ Publishing(u)' => Publishing(u)
                                              /\ task'[u].ref = task[u].ref
                         /\ task'[u].pc = "tool.write" => p = "tool.write"
    BY <1>2, <1>3, <1>4 DEF Publishing, Writing
  <2>3. Cards' = Cards /\ st.seq \in Nat /\ st'.seq \in Nat
    BY SequenceTypes DEF Cards
  <2> QED
    BY <2>1, <2>2, <2>3 DEF WritesInv, LateIsBehind
<1> QED
  BY <1>6, <1>7, <1>8, <1>9, <1>10 DEF WritesInv

\* A step that writes the current card or its own, or fails to, and releases
\* the lock.
LEMMA Release ==
  ASSUME TypeOK, TypeOK', WritesInv, lock # NoTask, lock' = NoTask,
         \A u \in Tasks : task'[u].pc \in Special =>
            task'[u] = task[u] /\ u # lock,
         CtlSettled,
         lock = "flush" =>
           \E i \in 1..Len(ctl) : Flushing(i) /\ (i \in 1..Len(ctl') => ~Flushing(i)'),
         st'.cur = st.cur, st'.seq >= st.seq, Len(segs') = Len(segs),
         \A i \in Cards : \/ i = st.cur
                         \/ segs'[i] = segs[i]
                         \/ \A u \in Tasks : Publishing(u)' => task[u].ref # i,
         st.cur \in Cards =>
           /\ segs'[st.cur].seq <= st'.seq
           /\ Uncancelled /\ st'.open /\ ~st'.closed
                => segs'[st.cur].status = "streaming"
  PROVE  WritesInv'
<1>1. \A u \in Tasks : ~Writing(u)' /\ task'[u].pc # "rt.write"
  BY DEF WritesInv, WriterHasLock, Writing, Special
<1>2. \A i \in 1..Len(ctl') : ~Flushing(i)'
  BY DEF WritesInv, WriterHasLock, CtlSettled, Flushing
<1>3. Cards' = Cards
  BY DEF Cards
<1>4. \A u \in Tasks : Publishing(u)' => Publishing(u)
                                        /\ task'[u].ref = task[u].ref
  BY DEF Publishing, Special
<1>5. WriterHasLock'
  BY <1>1, <1>2 DEF WriterHasLock
<1>6. CurrentStreams'
  BY <1>1, <1>2, <1>3 DEF WritesInv, CurrentStreams, InFlight
<1>7. SequenceAhead'
  BY <1>1, <1>2, <1>3 DEF SequenceAhead, Writing
<1>8. PublishedIsFresh'
  BY <1>3, <1>4 DEF WritesInv, PublishedIsFresh
<1>9. LateIsBehind'
  <2>1. \A u \in Tasks : task'[u].pc \in {"late.card", "late.text"} =>
          /\ task[u].pc \in {"late.card", "late.text"} /\ task'[u] = task[u]
          /\ task[u].want \in Nat
    BY DEF Special, TypeOK, Coroutines
  <2>2. \A u \in Tasks : task'[u].pc # "tool.write"
    BY <1>1 DEF Writing
  <2>3. st.seq \in Nat /\ st'.seq \in Nat
    BY SequenceTypes
  <2> QED
    BY <1>3, <1>4, <2>1, <2>2, <2>3 DEF WritesInv, LateIsBehind
<1> QED
  BY <1>5, <1>6, <1>7, <1>8, <1>9 DEF WritesInv

-----------------------------------------------------------------------------
(* Creation of a segment *)

LEMMA UnchangedStSettled ==
  ASSUME UNCHANGED st
  PROVE  StSettled
BY DEF StSettled

LEMMA CreateEntityWrites ==
  ASSUME TypeOK, TypeOK', WritesInv, NEW t \in Tasks, CreateEntity(t)
  PROVE  WritesInv'
<1>1. Created(t, FALSE) \/ Go(t, To(t, "cr.send")) \/ Go(t, To(t, "cr.check"))
  BY DEF CreateEntity
<1>2. Settled(t)
  BY <1>1, CreatedSettled, ToSettled DEF Special
<1> QED
  BY <1>2, Frame, UnchangedStSettled, UnchangedCtlSettled DEF CreateEntity

LEMMA CreateCheckWrites ==
  ASSUME TypeOK, TypeOK', WritesInv, NEW t \in Tasks, CreateCheck(t)
  PROVE  WritesInv'
<1>1. Created(t, FALSE) \/ Go(t, To(t, "cr.send"))
  BY DEF CreateCheck
<1>2. Settled(t)
  BY <1>1, CreatedSettled, ToSettled DEF Special
<1> QED
  BY <1>2, Frame, UnchangedStSettled, UnchangedCtlSettled DEF CreateCheck

\* A card appears: t has published it, or knows nothing of it.
LEMMA CardAppears ==
  ASSUME TypeOK, TypeOK', WritesInv, NEW t \in Tasks, NEW card,
         UNCHANGED <<st, lock>>, card.status = "streaming", card.seq = 0,
         ctl' = Append(ctl, NewController), segs' = Append(segs, card),
         \A u \in Tasks : u # t => task'[u] = task[u],
         \/ task'[t].pc = "cr.commit" /\ task'[t].ref = Len(segs')
         \/ task'[t].pc \notin Special
  PROVE  WritesInv'
<1> DEFINE n == Len(segs) + 1
<1>1. segs \in Seq(CardType) /\ ctl \in Seq(Controllers)
      /\ segs' \in Seq(CardType)
  BY DEF TypeOK
<1>2. /\ Len(segs') = n /\ segs'[n] = card
      /\ \A i \in 1..Len(segs) : segs'[i] = segs[i]
  BY <1>1
<1> HIDE DEF n
<1>3. /\ Cards' = Cards \cup {n} /\ n \notin Cards /\ n \in Nat
      /\ Len(segs) < n /\ Len(segs) \in Nat
      /\ \A i \in Cards : i < n
  BY <1>1, <1>2 DEF Cards, n
<1>4. task'[t].pc \in Special => task'[t].pc = "cr.commit" /\ task'[t].ref = n
  BY <1>2
<1>5. \A i \in 1..Len(ctl') : Flushing(i)' =>
        i \in 1..Len(ctl) /\ Flushing(i) /\ ctl'[i] = ctl[i]
  <2>1. /\ Len(ctl') = Len(ctl) + 1 /\ ctl'[Len(ctl) + 1] = NewController
        /\ \A i \in 1..Len(ctl) : ctl'[i] = ctl[i]
    BY <1>1
  <2>2. NewController.state # "write"
    BY DEF NewController
  <2>3. \A i \in 1..Len(ctl') : i \in 1..Len(ctl) \/ i = Len(ctl) + 1
    BY <1>1, <2>1
  <2> QED
    BY <2>1, <2>2, <2>3 DEF Flushing
<1>6. \A u \in Tasks : /\ Writing(u)' => Writing(u)
                       /\ task'[u].pc = "rt.write" => task[u].pc = "rt.write"
                       /\ task'[u].pc = "tool.write" => task[u].pc = "tool.write"
  BY <1>4 DEF Writing, Special
<1>7. \A u \in Tasks : Publishing(u)' =>
        \/ u # t /\ Publishing(u) /\ task'[u].ref = task[u].ref
        \/ u = t /\ task'[u].ref = n
  BY <1>4 DEF Publishing, Special
<1>8. WriterHasLock'
  BY <1>5, <1>6 DEF WritesInv, WriterHasLock
<1>9. st.cur \in Cards' => st.cur \in Cards
  <2>1. st.cur <= Len(segs) /\ st.cur \in Nat
    BY SequenceTypes DEF WritesInv, CurrentStreams
  <2> QED
    BY <1>3, <2>1 DEF n
<1>10. CurrentStreams'
  <2>1. InFlight' => InFlight
    BY <1>5, <1>6 DEF InFlight
  <2>2. st.cur <= Len(segs')
    BY <1>1, <1>2, SequenceTypes DEF WritesInv, CurrentStreams, n
  <2> QED
    BY <1>2, <1>9, <2>1, <2>2 DEF WritesInv, CurrentStreams, Cards
<1>11. SequenceAhead'
  BY <1>2, <1>5, <1>6, <1>9 DEF WritesInv, SequenceAhead, Cards
<1>12. PublishedIsFresh'
  <2>1. n # st.cur /\ n \in Cards'
    BY <1>3, SequenceTypes DEF WritesInv, CurrentStreams, n
  <2> QED
    BY <1>2, <1>3, <1>7, <2>1 DEF WritesInv, PublishedIsFresh, Cards
<1>13. LateIsBehind'
  <2>1. \A u \in Tasks : task'[u].pc \in {"late.card", "late.text"} =>
          /\ task[u].pc \in {"late.card", "late.text"} /\ task'[u] = task[u]
          /\ task[u].ref \in Nat
    BY <1>4 DEF Special, TypeOK, Coroutines
  <2>2. \A u \in Tasks : task'[u].pc \in {"late.card", "late.text"} =>
          task[u].ref <= Len(segs) /\ task[u].ref < n /\ task[u].ref <= Len(segs')
    BY <1>2, <1>3, <2>1 DEF WritesInv, LateIsBehind
  <2> QED
    BY <1>3, <1>6, <1>7, <1>9, <2>1, <2>2 DEF WritesInv, LateIsBehind
<1> QED
  BY <1>8, <1>10, <1>11, <1>12, <1>13 DEF WritesInv

LEMMA CreateSendWrites ==
  ASSUME TypeOK, TypeOK', WritesInv, NEW t \in Tasks, CreateSend(t)
  PROVE  WritesInv'
<1> DEFINE card == NewCard(ReplyTo(task[t]))
<1>1. UNCHANGED <<st, lock>>
  BY DEF CreateSend
<1>2. CASE UNCHANGED <<segs, ctl>> /\ Created(t, FALSE)
  BY <1>1, <1>2, CreatedSettled, UnchangedStSettled, UnchangedCtlSettled, Frame
<1>3. CASE /\ ctl' = Append(ctl, NewController)
           /\ segs' = Append(segs, card)
           /\ Go(t, [To(t, "cr.commit") EXCEPT !.ref = Len(segs')])
  <2>1. card.status = "streaming" /\ card.seq = 0
    BY DEF NewCard
  <2>2. task'[t].pc = "cr.commit" /\ task'[t].ref = Len(segs')
    BY <1>3 DEF Go, To, TypeOK, Coroutines
  <2>3. \A u \in Tasks : u # t => task'[u] = task[u]
    BY <1>3 DEF Go, TypeOK
  <2> HIDE DEF card
  <2> QED
    BY <1>1, <1>3, <2>1, <2>2, <2>3, CardAppears
<1> QED
  BY <1>2, <1>3 DEF CreateSend

LEMMA CreateCommitWrites ==
  ASSUME TypeOK, TypeOK', WritesInv, NEW t \in Tasks, CreateCommit(t)
  PROVE  WritesInv'
<1> DEFINE r == task[t]
           u0 == IF task[t].ret = "rs.end" THEN st.active ELSE t
<1>1. r.pc = "cr.commit" /\ lock = NoTask /\ UNCHANGED <<segs, ctl>>
  BY DEF CreateCommit, At, MayLock
<1>2. /\ Publishing(t) /\ r.ref \in Cards /\ r.ref # st.cur
      /\ segs[r.ref].status = "streaming" /\ segs[r.ref].seq = 0
  BY <1>1 DEF Publishing, WritesInv, PublishedIsFresh
<1>3. /\ \A u \in Tasks : ~Writing(u) /\ task[u].pc # "rt.write"
      /\ \A i \in 1..Len(ctl) : ~Flushing(i)
  BY <1>1, Alone, TaskNames
<1>4. \A i \in 1..Len(ctl') : ~Flushing(i)'
  BY <1>1, <1>3 DEF Flushing
<1>5. Cards' = Cards
  BY <1>1 DEF Cards
<1>6. CASE lock' = t /\ Go(t, To(t, "rt.write")) /\ UNCHANGED st
  <2>1. /\ task'[t].pc = "rt.write" /\ task'[t].ref = r.ref
        /\ \A u \in Tasks : u # t => task'[u] = task[u]
    BY <1>6 DEF Go, To, TypeOK, Coroutines
  <2>2. \A u \in Tasks : /\ ~Writing(u)'
                         /\ task'[u].pc = "rt.write" => u = t
                         /\ Publishing(u)' => Publishing(u)
                                              /\ task'[u].ref = task[u].ref
    BY <1>2, <1>3, <2>1 DEF Writing, Publishing
  <2>3. WriterHasLock'
    BY <1>4, <1>6, <2>2 DEF WriterHasLock
  <2>4. CurrentStreams'
    BY <1>1, <1>4, <1>5, <1>6, <2>2 DEF WritesInv, CurrentStreams, InFlight
  <2>5. SequenceAhead'
    BY <1>1, <1>4, <1>5, <1>6, <2>2 DEF WritesInv, SequenceAhead, Writing
  <2>6. PublishedIsFresh'
    BY <1>1, <1>5, <1>6, <2>2 DEF WritesInv, PublishedIsFresh
  <2>7. LateIsBehind'
    BY <1>1, <1>5, <1>6, <2>1, <2>2 DEF WritesInv, LateIsBehind, Writing
  <2> QED
    BY <2>3, <2>4, <2>5, <2>6, <2>7 DEF WritesInv
<1>7. CASE st' = Opened(st, r.ref, u0) /\ Created(t, TRUE)
  <2>1. Settled(t)
    BY <1>7, CreatedSettled
  <2>2. st'.cur = r.ref /\ st'.seq = 0
    BY <1>7 DEF Opened, NewState
  <2>3. \A u \in Tasks : /\ ~Writing(u)' /\ task'[u].pc # "rt.write"
                         /\ Publishing(u)' => /\ Publishing(u) /\ u # t
                                              /\ task'[u].ref = task[u].ref
    BY <1>3, <2>1 DEF Settled, Special, Writing, Publishing
  <2>4. WriterHasLock'
    BY <1>4, <2>3 DEF WriterHasLock
  <2>5. CurrentStreams'
    BY <1>1, <1>2, <2>2 DEF CurrentStreams, Cards
  <2>6. SequenceAhead'
    BY <1>1, <1>2, <1>4, <1>5, <2>2, <2>3 DEF SequenceAhead, Writing
  <2>7. PublishedIsFresh'
    BY <1>1, <1>2, <1>5, <2>2, <2>3 DEF WritesInv, PublishedIsFresh
  <2>8. LateIsBehind'
    <3>1. \A u \in Tasks : task'[u].pc \in {"late.card", "late.text"} =>
            /\ task[u].pc \in {"late.card", "late.text"}
            /\ task'[u] = task[u] /\ task[u].ref # r.ref
      BY <1>2, <2>1 DEF Settled, Special, WritesInv, LateIsBehind
    <3> QED
      BY <1>1, <2>2, <2>3, <3>1 DEF WritesInv, LateIsBehind
  <2> QED
    BY <2>4, <2>5, <2>6, <2>7, <2>8 DEF WritesInv
<1> QED
  BY <1>6, <1>7 DEF CreateCommit

-----------------------------------------------------------------------------
(* Writes to cards *)

\* A step raises the sequence of the cards it changes and, where no steer is
\* cancelled, only changes cards that stream.
Rising ==
  \A i \in Cards : segs'[i] # segs[i] =>
    /\ segs'[i].seq > segs[i].seq
    /\ Uncancelled => segs[i].status = "streaming"

LEMMA UnchangedRising ==
  ASSUME UNCHANGED segs
  PROVE  Rising
BY DEF Rising

\* A write to the current card, while it is in flight.
LEMMA CurrentRising ==
  ASSUME TypeOK, WritesInv, InFlight, NEW c, segs' = [segs EXCEPT ![st.cur] = c],
         st.cur \in Cards => c.seq > segs[st.cur].seq
  PROVE  /\ Rising
         /\ Len(segs') = Len(segs)
         /\ \A i \in Cards : i # st.cur => segs'[i] = segs[i]
         /\ st.cur \in Cards => segs'[st.cur] = c
<1>1. segs \in Seq(CardType)
  BY DEF TypeOK
<1>2. /\ Len(segs') = Len(segs)
      /\ \A i \in Cards : i # st.cur => segs'[i] = segs[i]
      /\ st.cur \in Cards => segs'[st.cur] = c
  BY <1>1 DEF Cards
<1> QED
  BY <1>2 DEF Rising, WritesInv, CurrentStreams

\* What the writer's task and the release of its lock give.
LEMMA WriterLeaves ==
  ASSUME TypeOK, WritesInv, NEW t \in Tasks, Settled(t),
         Writing(t) \/ task[t].pc = "rt.write"
  PROVE  /\ lock = t /\ lock # NoTask /\ lock # "flush"
         /\ \A u \in Tasks : task'[u].pc \in Special =>
              task'[u] = task[u] /\ u # lock
         /\ Writing(t) => InFlight
BY TaskNames DEF WritesInv, WriterHasLock, Settled, InFlight

\* A write in flight to the current card ends: c is what it wrote, if it did.
LEMMA WriteEnds ==
  ASSUME TypeOK, TypeOK', WritesInv, InFlight, lock # NoTask, lock' = NoTask,
         \A u \in Tasks : task'[u].pc \in Special =>
            task'[u] = task[u] /\ u # lock,
         CtlSettled,
         lock = "flush" =>
           \E i \in 1..Len(ctl) : Flushing(i) /\ (i \in 1..Len(ctl') => ~Flushing(i)'),
         st'.cur = st.cur, st'.seq >= st.seq, NEW c,
         \/ UNCHANGED segs
         \/ /\ segs' = [segs EXCEPT ![st.cur] = c]
            /\ st.cur \in Cards =>
                 /\ segs[st.cur].seq < c.seq /\ c.seq <= st'.seq
                 /\ Uncancelled /\ st'.open /\ ~st'.closed
                      => c.status = "streaming"
  PROVE  WritesInv' /\ Rising
<1>1. st.cur \in Cards => /\ segs[st.cur].seq <= st.seq
                          /\ segs[st.cur].seq \in Nat
                          /\ Uncancelled => segs[st.cur].status = "streaming"
  BY SequenceTypes DEF WritesInv, SequenceAhead, CurrentStreams
<1>2. CASE UNCHANGED segs
  <2>1. st.cur \in Cards => segs'[st.cur].seq <= st'.seq
    BY <1>1, <1>2, SequenceTypes
  <2> QED
    BY <1>1, <1>2, <2>1, Release, UnchangedRising
<1>3. CASE /\ segs' = [segs EXCEPT ![st.cur] = c]
           /\ st.cur \in Cards =>
                 /\ segs[st.cur].seq < c.seq /\ c.seq <= st'.seq
                 /\ Uncancelled /\ st'.open /\ ~st'.closed
                      => c.status = "streaming"
  <2>1. /\ Rising /\ Len(segs') = Len(segs)
        /\ \A i \in Cards : i # st.cur => segs'[i] = segs[i]
        /\ st.cur \in Cards => segs'[st.cur] = c
    <3>1. st.cur \in Cards => segs'[st.cur] = c
      BY <1>3 DEF TypeOK, Cards
    <3>2. st.cur \in Cards => c.seq > segs[st.cur].seq
      <4>1. st.cur \in Cards' /\ st.cur \in Cards => c.seq \in Nat
        BY <3>1, SequenceTypes
      <4>2. Cards' = Cards
        BY <1>3 DEF Cards, TypeOK
      <4> QED
        BY <1>1, <1>3, <4>1, <4>2
    <3> QED
      BY <1>3, <3>2, CurrentRising
  <2> QED
    BY <1>3, <2>1, Release
<1> QED
  BY <1>2, <1>3

LEMMA RetireWriteWrites ==
  ASSUME TypeOK, TypeOK', WritesInv, NEW t \in Tasks, RetireWrite(t)
  PROVE  WritesInv' /\ Rising
<1> DEFINE k == task[t].ref
           c(e) == [segs[k] EXCEPT !.seq = 2, !.status = e]
<1>1. task[t].pc = "rt.write" /\ lock' = NoTask /\ UNCHANGED <<st, ctl>>
      /\ Created(t, FALSE)
  BY DEF RetireWrite, At
<1>2. PICK e \in {"stopped", "continued"} :
        segs' \in {segs, [segs EXCEPT ![k] = c(e)]}
  BY DEF RetireWrite
<1>3. Settled(t)
  BY <1>1, CreatedSettled
<1>4. /\ Publishing(t) /\ k \in Cards /\ k # st.cur
      /\ segs[k].status = "streaming" /\ segs[k].seq = 0
  BY <1>1 DEF Publishing, WritesInv, PublishedIsFresh
<1>5. segs[k] \in CardType /\ segs \in Seq(CardType)
  BY <1>4, ElementType DEF TypeOK, Cards
<1>6. c(e).seq = 2
  BY <1>5 DEF CardType
<1> HIDE DEF c
<1>7. /\ Len(segs') = Len(segs)
      /\ \A i \in Cards : i # k => segs'[i] = segs[i]
      /\ segs'[k] \in {segs[k], c(e)}
  BY <1>2, <1>4, <1>5 DEF Cards
<1> HIDE DEF k
<1>8. Rising
  BY <1>4, <1>6, <1>7 DEF Rising
<1>9. \A u \in Tasks : Publishing(u)' => task[u].ref # k
  BY <1>1, <1>3, <1>4 DEF Settled, Publishing, Special, WritesInv,
     PublishedIsFresh, k
<1>10. st.cur \in Cards =>
        /\ segs'[st.cur].seq <= st'.seq
        /\ Uncancelled /\ st'.open /\ ~st'.closed
             => segs'[st.cur].status = "streaming"
  BY <1>1, <1>4, <1>7 DEF WritesInv, CurrentStreams, SequenceAhead
<1>11. WritesInv'
  BY <1>1, <1>3, <1>7, <1>9, <1>10, SequenceTypes, WriterLeaves, UnchangedCtlSettled, Release
<1> QED
  BY <1>8, <1>11

\* The lock is taken, or the step settles.
LEMMA SuspendLockedWrites ==
  ASSUME TypeOK, TypeOK', WritesInv, NEW t \in Tasks, SuspendLocked(t)
  PROVE  WritesInv'
<1> DEFINE s == Anchored(st, task[t].want, task[t].why)
<1>1. UNCHANGED <<segs, ctl>> /\ lock = NoTask
  BY DEF SuspendLocked, MayLock
<1>2. st \in States
  BY DEF TypeOK
<1>3. /\ s.cur = st.cur /\ s.seq = st.seq /\ s.flushed = st.flushed
      /\ s.pending = st.pending /\ s.open = st.open /\ s.closed = st.closed
      /\ \A x : LET q == [s EXCEPT !.tool = x]
               IN  q.cur = s.cur /\ q.seq = s.seq
  BY <1>2 DEF Anchored, States
<1> HIDE DEF s
<1>4. CASE st.closed
  <2>1. UNCHANGED <<st, lock>> /\ Suspended(t)
    BY <1>4 DEF SuspendLocked
  <2> QED
    BY <1>1, <2>1, SuspendedSettled, UnchangedStSettled, UnchangedCtlSettled,
       Frame DEF TypeOK
<1>5. CASE ~st.closed /\ ~st.open
  <2>1. st' = s /\ UNCHANGED lock /\ Suspended(t)
    BY <1>5 DEF SuspendLocked, s
  <2>2. StSettled
    BY <1>3, <2>1 DEF StSettled
  <2> QED
    BY <1>1, <2>1, <2>2, SuspendedSettled, UnchangedCtlSettled, Frame DEF TypeOK
<1>6. CASE ~st.closed /\ st.open
  <2>1. /\ st' = IF s.tool # "running" THEN s
                ELSE [s EXCEPT !.tool = IF task[t].why = "steer"
                                THEN "continued" ELSE "waiting"]
        /\ lock' = t
        /\ Go(t, To(t, "sus.write"))
    BY <1>6 DEF SuspendLocked, s
  <2>2. st'.cur = st.cur /\ st'.seq = st.seq
    BY <1>3, <2>1
  <2>3. st'.seq >= st.seq
    BY <2>2, SequenceTypes
  <2> QED
    BY <1>1, <1>6, <2>1, <2>2, <2>3, TakeLock
<1> QED
  BY <1>4, <1>5, <1>6

LEMMA SuspendWriteWrites ==
  ASSUME TypeOK, TypeOK', WritesInv, NEW t \in Tasks, SuspendWrite(t)
  PROVE  WritesInv' /\ Rising
<1> DEFINE frozen == IF task[t].why \in {"steer", "artifact"}
                     THEN "continued" ELSE "waiting"
           s == Frozen(st, frozen)
           gone == Unavailable(st)
           left == Unavailable(s)
           card == [segs[st.cur] EXCEPT !.status = frozen, !.text = st.content,
                      !.tool = st.tool, !.seq = s.seq]
<1>1. /\ \/ st' = s /\ UNCHANGED ctl /\ segs' = [segs EXCEPT ![st.cur] = card]
         \/ st' = s /\ UNCHANGED <<segs, ctl>>
         \/ /\ \/ st' = [gone EXCEPT !.seq = @ + 1]
               \/ st' = [left EXCEPT !.phase = frozen]
            /\ SetCtl([Ctl EXCEPT !.stopped = TRUE])
            /\ UNCHANGED segs
      /\ lock' = NoTask /\ Suspended(t) /\ Writing(t)
  BY DEF SuspendWrite, Outcome, Writing, At
<1>2. st \in States
  BY DEF TypeOK
<1>3. s.cur = st.cur /\ s.seq = st.seq + 2 /\ ~s.open
  BY <1>2 DEF Frozen, States
<1>4. /\ [gone EXCEPT !.seq = @ + 1].cur = st.cur
      /\ [gone EXCEPT !.seq = @ + 1].seq = st.seq + 1
      /\ [gone EXCEPT !.seq = @ + 1].closed
  BY <1>2 DEF Unavailable, States
<1>5. s \in States
  <2>1. frozen \in Phases
    BY DEF Phases
  <2> QED
    BY <1>2, <2>1, FrozenType
<1> HIDE DEF s
<1>6. /\ [left EXCEPT !.phase = frozen].cur = s.cur
      /\ [left EXCEPT !.phase = frozen].seq = s.seq
      /\ [left EXCEPT !.phase = frozen].closed
  BY <1>5 DEF Unavailable, States
<1>7. st.cur \in Cards => card.seq = s.seq
  <2>1. st.cur \in Cards => segs[st.cur] \in CardType
    BY ElementType DEF TypeOK, Cards
  <2> QED
    BY <2>1 DEF CardType
<1> HIDE DEF frozen, gone, left, card
<1>8. st.cur \in Cards => segs[st.cur].seq < s.seq /\ s.seq <= s.seq
  BY <1>3, SequenceTypes DEF WritesInv, SequenceAhead
<1>9. /\ st'.cur = st.cur /\ st'.seq >= st.seq
      /\ \/ UNCHANGED segs
         \/ st' = s /\ segs' = [segs EXCEPT ![st.cur] = card]
  <2>1. CASE st' = s
    BY <1>1, <1>3, <2>1, SequenceTypes
  <2>2. CASE st' = [gone EXCEPT !.seq = @ + 1] /\ UNCHANGED segs
    BY <1>4, <2>2, SequenceTypes
  <2>3. CASE st' = [left EXCEPT !.phase = frozen] /\ UNCHANGED segs
    BY <1>3, <1>6, <2>3, SequenceTypes
  <2> QED
    BY <1>1, <2>1, <2>2, <2>3
<1>10. Settled(t)
  BY <1>1, SuspendedSettled DEF TypeOK
<1>11. CtlSettled
  BY <1>1, StopSettled, UnchangedCtlSettled
<1> QED
  BY <1>1, <1>3, <1>7, <1>8, <1>9, <1>10, <1>11, WriterLeaves, WriteEnds

-----------------------------------------------------------------------------
(* Resumption, and continuation after a steer *)

LEMMA ResumeWrites ==
  ASSUME TypeOK, TypeOK', WritesInv, NEW t \in Tasks,
         ResumeEnter(t) \/ ResumeOk(t) \/ ResumeEnd(t)
  PROVE  WritesInv'
<1>1. CASE ResumeEnter(t)
  <2> DEFINE r == [task[t] EXCEPT !.expect = st.anchor,
                                  !.ret = "rs.end"]
  <2>1. r \in Coroutines
    <3>1. task[t] \in Coroutines /\ st.anchor \in Nat /\ "rs.end" \in Returns
      BY DEF TypeOK, States, Returns
    <3> QED
      BY <3>1 DEF Coroutines
  <2> HIDE DEF r
  <2>2. AfterResume(t, ~st.closed /\ st.open) \/ Create(t, r)
    BY <1>1 DEF ResumeEnter, r
  <2>3. (~st.closed /\ st.open) \in BOOLEAN
    OBVIOUS
  <2>4. Settled(t)
    BY <2>1, <2>2, <2>3, AfterResumeSettled, CreateSettled
  <2> QED
    BY <1>1, <2>4, UnchangedStSettled, UnchangedCtlSettled, Frame DEF ResumeEnter
<1>2. CASE ResumeOk(t)
  <2>1. Settled(t)
    BY <1>2, AfterResumeSettled DEF ResumeOk
  <2> QED
    BY <1>2, <2>1, UnchangedStSettled, UnchangedCtlSettled, Frame DEF ResumeOk
<1>3. CASE ResumeEnd(t)
  <2> DEFINE ok == ~st.closed /\ st.routed /\ st.open
  <2>1. /\ AfterResume(t, FALSE) \/ AfterResume(t, ok)
        /\ st' \in {st, [st EXCEPT !.reason = "fallback"]}
    BY <1>3 DEF ResumeEnd
  <2>2. ok \in BOOLEAN
    OBVIOUS
  <2>3. Settled(t)
    BY <2>1, <2>2, AfterResumeSettled
  <2>4. StSettled
    BY <2>1 DEF StSettled, TypeOK, States
  <2> QED
    BY <1>3, <2>3, <2>4, UnchangedCtlSettled, Frame DEF ResumeEnd
<1> QED
  BY <1>1, <1>2, <1>3

LEMMA SteerBeginWrites ==
  ASSUME TypeOK, TypeOK', WritesInv, NEW t \in Tasks, SteerBegin(t)
  PROVE  WritesInv'
<1> DEFINE s == [st EXCEPT !.trans = TRUE]
           r == [task[t] EXCEPT !.why = "steer", !.ret = "cr.entity"]
           q == [r EXCEPT !.expect = r.want, !.ret = "st.end"]
           a == Anchored(s, r.want, "steer")
<1>1. r \in Coroutines
  <2>1. task[t] \in Coroutines /\ "cr.entity" \in Returns
        /\ "steer" \in Reasons
    BY DEF TypeOK, Returns, Reasons
  <2> QED
    BY <2>1 DEF Coroutines
<1>2. st' \in {s, a} => StSettled
  <2>1. st \in States
    BY DEF TypeOK
  <2> QED
    BY <2>1 DEF Anchored, StSettled, States
<1> HIDE DEF r, s, a
<1>3. q \in Coroutines
  <2>1. r.want \in Nat /\ "st.end" \in Returns
    BY <1>1 DEF Coroutines, Returns
  <2> QED
    BY <1>1, <2>1 DEF Coroutines
<1> HIDE DEF q
<1>4. \/ st' = s /\ Suspend(t, r)
      \/ st' = a /\ UNCHANGED ctl /\ Create(t, q)
  BY DEF SteerBegin, s, r, q, a
<1>5. Settled(t) /\ CtlSettled
  BY <1>1, <1>3, <1>4, SuspendSettled, CreateSettled, UnchangedCtlSettled
<1> QED
  BY <1>2, <1>4, <1>5, Frame DEF SteerBegin

LEMMA SteerEndWrites ==
  ASSUME TypeOK, TypeOK', WritesInv, NEW t \in Tasks, SteerEnd(t)
  PROVE  WritesInv'
<1> DEFINE late == task[t].res /\ st.defTool # "none"
           fallback == ~task[t].res /\ BoundaryCurrent(task[t].want)
           tool == IF late THEN st.defTool ELSE st.tool
           s == TransitionOver(st, tool)
           q == [To(t, "fin.enter") EXCEPT !.text = st.defTerm.text,
                                           !.out = st.defTerm.out]
           p == s.pending \/ late
           why == IF fallback THEN "fallback" ELSE s.reason
           by == IF fallback THEN t ELSE s.active
<1>1. st' = [s EXCEPT !.pending = p, !.reason = why, !.active = by]
  BY DEF SteerEnd
<1>2. /\ s.cur = st.cur /\ s.seq = st.seq /\ s.flushed = st.flushed
      /\ s.pending = st.pending /\ s.open = st.open /\ s.closed = st.closed
      /\ s \in States
  <2>1. st \in States /\ tool \in ToolStates
    BY DEF TypeOK, States
  <2>2. s \in States
    BY <2>1, TransitionOverType
  <2> HIDE DEF tool
  <2> QED
    BY <2>1, <2>2 DEF TransitionOver, States
<1>3. s.pending => p
  OBVIOUS
<1> HIDE DEF s, p, why, by
<1>4. StSettled
  BY <1>1, <1>2, <1>3 DEF StSettled, States
<1>5. CtlSettled
  BY RequestSettled, UnchangedCtlSettled DEF SteerEnd
<1>6. q.pc \notin Special /\ To(t, "st.next").pc \notin Special
  BY DEF To, TypeOK, Coroutines, Special
<1>7. Go(t, To(t, "st.next")) \/ Go(t, q)
  BY DEF SteerEnd
<1> HIDE DEF q
<1>8. Settled(t)
  BY <1>6, <1>7, GoSettled
<1> QED
  BY <1>4, <1>5, <1>8, Frame DEF SteerEnd

LEMMA SteerNextWrites ==
  ASSUME TypeOK, TypeOK', WritesInv, NEW t \in Tasks,
         SteerNext(t) \/ SteerSilent(t)
  PROVE  WritesInv'
<1> DEFINE r == [To(t, "out.begin") EXCEPT !.text = "prog"]
           q == [[task[t] EXCEPT !.op = "silent"] EXCEPT !.pc = "st.begin"]
           e(p) == [[task[t] EXCEPT !.op = "silent"] EXCEPT
                      !.want = st.anchor, !.pc = p]
<1>1. /\ r.pc \notin Special /\ q.pc \notin Special
      /\ e("adopt").pc \notin Special /\ e("st.begin").pc \notin Special
  BY DEF To, TypeOK, Coroutines, Special
<1>2. Go(t, Idle) \/ Go(t, r) \/ Go(t, q) \/ Go(t, e("adopt"))
      \/ Go(t, e("st.begin"))
  BY DEF SteerNext, SteerSilent
<1> HIDE DEF r, q, e
<1>3. Settled(t)
  BY <1>1, <1>2, IdleSettled, GoSettled
<1> QED
  BY <1>3, UnchangedStSettled, UnchangedCtlSettled, Frame
     DEF SteerNext, SteerSilent

-----------------------------------------------------------------------------
(* Output *)

LEMMA OutputBeginWrites ==
  ASSUME TypeOK, TypeOK', WritesInv, NEW t \in Tasks, OutputBegin(t)
  PROVE  WritesInv'
<1> DEFINE r == [To(t, "fb.call") EXCEPT !.ref = st.fb, !.expect = st.anchor,
                                         !.ret = "idle"]
<1>1. r.pc \notin Special /\ To(t, "rs.enter").pc \notin Special
  BY DEF To, TypeOK, Coroutines, Special
<1> HIDE DEF r
<1>2. Finish(t, task[t].text = "prog") \/ Go(t, r) \/ Go(t, To(t, "rs.enter"))
  BY DEF OutputBegin, r
<1>3. Settled(t)
  BY <1>1, <1>2, GoSettled, FinishSettled
<1> QED
  BY <1>3, UnchangedStSettled, UnchangedCtlSettled, Frame DEF OutputBegin

LEMMA OutputCommitWrites ==
  ASSUME TypeOK, TypeOK', WritesInv, NEW t \in Tasks, OutputCommit(t)
  PROVE  WritesInv'
<1>1. /\ st' \in {st, [st EXCEPT !.pending = TRUE],
                 [st EXCEPT !.content = task[t].text]}
      /\ UNCHANGED ctl \/ SetCtl(Requested(Ctl))
      /\ Finish(t, task[t].text = "prog") \/ Finish(t, TRUE)
  BY DEF OutputCommit
<1>2. StSettled
  BY <1>1 DEF StSettled, TypeOK, States
<1>3. Settled(t) /\ CtlSettled
  BY <1>1, FinishSettled, UnchangedCtlSettled, RequestSettled
<1> QED
  BY <1>2, <1>3, Frame DEF OutputCommit

LEMMA FallbackWriteWrites ==
  ASSUME TypeOK, TypeOK', WritesInv, NEW t \in Tasks, FallbackWrite(t)
  PROVE  WritesInv'
<1> DEFINE r == task[t]
           final == r.ret = "fin.ret"
           q(ok) == [To(t, "fin.ret") EXCEPT !.res = ok]
           f == IF r.ref = 0 THEN Len(posts') ELSE st.fb
           cl == st.closed \/ final
           ph == IF final THEN r.out ELSE st.phase
           ro == st.routed /\ ~final
           new == [st EXCEPT !.fb = f, !.content = r.text, !.closed = cl,
                             !.phase = ph, !.routed = ro]
<1>1. st' \in {st, new} /\ \E o : Go(t, q(o = "ok")) \/ Finish(t, o = "ok")
  BY DEF FallbackWrite
<1>2. \A ok : q(ok).pc \notin Special
  BY DEF To, TypeOK, Coroutines, Special
<1> HIDE DEF q
<1>3. Settled(t)
  BY <1>1, <1>2, GoSettled, FinishSettled
<1>4. st.closed => cl
  OBVIOUS
<1> HIDE DEF f, cl, ph, ro
<1>5. StSettled
  BY <1>1, <1>4 DEF StSettled, TypeOK, States
<1> QED
  BY <1>3, <1>5, UnchangedCtlSettled, Frame DEF FallbackWrite

-----------------------------------------------------------------------------
(* The terminal write *)

LEMMA DrainWrites ==
  ASSUME TypeOK, TypeOK', WritesInv, NEW t \in Tasks, Drain(t)
  PROVE  WritesInv'
<1>1. Go(t, To(t, "sus.lock")) \/ Go(t, To(t, "fin.lock"))
  BY DEF Drain
<1>2. Settled(t)
  BY <1>1, ToSettled DEF Special
<1> QED
  BY <1>2, UnchangedStSettled, UnchangedCtlSettled, Frame DEF Drain

LEMMA FinalizeEnterWrites ==
  ASSUME TypeOK, TypeOK', WritesInv, NEW t \in Tasks, FinalizeEnter(t)
  PROVE  WritesInv'
<1> DEFINE d == Merged(Deferred(t), st.defTerm)
           x == Raw(task[t].text)
           r == [To(t, "fb.call") EXCEPT !.text = x, !.ref = st.fb,
                   !.expect = st.anchor, !.ret = "fin.ret"]
           q == [To(t, "fin.quiet") EXCEPT !.ref = st.cur]
<1>1. r.pc \notin Special /\ q.pc \notin Special
  BY DEF To, TypeOK, Coroutines, Special
<1> HIDE DEF d, x, r, q
<1>2. \/ st' = [st EXCEPT !.content = d.text, !.defTerm = d]
            /\ UNCHANGED ctl /\ Finalized(t, TRUE)
      \/ \E ok : UNCHANGED <<st, ctl>> /\ Finalized(t, ok)
      \/ UNCHANGED <<st, ctl>> /\ Go(t, r)
      \/ UNCHANGED st /\ SetCtl(Quieted(Ctl)) /\ Go(t, q)
  <2>1. CASE st.trans
    BY <2>1 DEF FinalizeEnter, d
  <2>2. CASE ~st.trans /\ st.closed
    BY <2>2 DEF FinalizeEnter
  <2>3. CASE ~st.trans /\ ~st.closed /\ st.reason = "fallback"
    BY <2>3 DEF FinalizeEnter, x, r
  <2>4. CASE ~st.trans /\ ~st.closed /\ st.reason # "fallback"
    BY <2>4 DEF FinalizeEnter, q
  <2> QED
    BY <2>1, <2>2, <2>3, <2>4
<1>3. StSettled
  BY <1>2 DEF StSettled, TypeOK, States
<1>4. Settled(t)
  BY <1>1, <1>2, FinalizedSettled, GoSettled
<1>5. CtlSettled
  BY <1>2, UnchangedCtlSettled, QuietSettled
<1> QED
  BY <1>3, <1>4, <1>5, Frame DEF FinalizeEnter

LEMMA FinalizeLockedWrites ==
  ASSUME TypeOK, TypeOK', WritesInv, NEW t \in Tasks, FinalizeLocked(t)
  PROVE  WritesInv'
<1>1. CASE st.closed \/ ~st.open
  <2>1. UNCHANGED <<st, lock>> /\ Finalized(t, ~st.gone)
    BY <1>1 DEF FinalizeLocked
  <2> QED
    BY <2>1, FinalizedSettled, UnchangedStSettled, UnchangedCtlSettled, Frame
       DEF FinalizeLocked
<1>2. CASE ~st.closed /\ st.open
  <2>1. /\ lock' = t /\ lock = NoTask
        /\ st' = [st EXCEPT !.content = Terminal(task[t].text)]
        /\ Go(t, To(t, "fin.write")) /\ UNCHANGED <<segs, ctl>>
    BY <1>2 DEF FinalizeLocked, MayLock
  <2>2. st'.cur = st.cur /\ st'.seq = st.seq
    BY <2>1 DEF TypeOK, States
  <2>3. st'.seq >= st.seq
    BY <2>2, SequenceTypes
  <2> QED
    BY <1>2, <2>1, <2>2, <2>3, TakeLock
<1> QED
  BY <1>1, <1>2

LEMMA CardSequence ==
  ASSUME TypeOK, st.cur \in Cards, NEW e, NEW x, NEW w, NEW n
  PROVE  /\ [segs[st.cur] EXCEPT !.status = e, !.text = x, !.tool = w,
                                 !.seq = n].seq = n
         /\ [segs[st.cur] EXCEPT !.status = e, !.text = x, !.tool = w,
                                 !.seq = n].status = e
         /\ [segs[st.cur] EXCEPT !.text = x, !.seq = n].seq = n
<1>1. segs[st.cur] \in CardType
  BY ElementType DEF TypeOK, Cards
<1> QED
  BY <1>1 DEF CardType

LEMMA FinalizeWriteWrites ==
  ASSUME TypeOK, TypeOK', WritesInv, NEW t \in Tasks, FinalizeWrite(t)
  PROVE  WritesInv' /\ Rising
<1> DEFINE n == st.seq + (IF st.content # st.flushed THEN 3 ELSE 2)
           c == ClosedBy(st, task[t].out)
           s == [c EXCEPT !.seq = n]
           f == [s EXCEPT !.flushed = st.content]
           u == Unavailable(st)
           gone(k) == [u EXCEPT !.seq = k]
           card == [segs[st.cur] EXCEPT !.status = task[t].out,
                      !.text = st.content, !.tool = st.tool, !.seq = n]
           part == [segs[st.cur] EXCEPT !.text = st.content,
                                        !.seq = st.seq + 1]
<1>1. /\ lock' = NoTask /\ Writing(t)
      /\ \E o : Finalized(t, o = "ok")
      /\ \/ st' = f /\ segs' = [segs EXCEPT ![st.cur] = card] /\ UNCHANGED ctl
         \/ st' = s /\ UNCHANGED <<segs, ctl>>
         \/ st' = f /\ segs' = [segs EXCEPT ![st.cur] = part] /\ UNCHANGED ctl
         \/ /\ \E k \in (st.seq + 1)..n : st' = gone(k)
            /\ UNCHANGED segs
            /\ SetCtl([Ctl EXCEPT !.stopped = TRUE])
  BY DEF FinalizeWrite, Writing, At
<1>2. st \in States /\ task[t].out \in Phases
  BY DEF TypeOK, Coroutines, Phases
<1>3. c \in States /\ u \in States
  BY <1>2, ClosedByType, UnavailableType
<1>4. c.cur = st.cur /\ u.cur = st.cur /\ c.closed
  BY <1>2 DEF ClosedBy, Unavailable, States
<1>5. n >= st.seq + 1 /\ n \in Nat /\ st.seq \in Nat
  BY SequenceTypes
<1>6. st.cur \in Cards => card.seq = n /\ part.seq = st.seq + 1
  BY CardSequence
<1> HIDE DEF n, c, u, card, part
<1>7. s.seq = n /\ s.cur = st.cur /\ s.closed /\ f.seq = n /\ f.cur = st.cur
      /\ f.closed
  BY <1>3, <1>4 DEF States
<1>8. \A k : gone(k).seq = k /\ gone(k).cur = st.cur
  BY <1>3, <1>4 DEF States
<1> HIDE DEF s, f, gone
<1>9. st.cur \in Cards => segs[st.cur].seq <= st.seq /\ segs[st.cur].seq \in Nat
  BY SequenceTypes DEF WritesInv, SequenceAhead
<1>10. \/ st' \in {f, s}
       \/ \E k \in (st.seq + 1)..n : st' = gone(k)
  BY <1>1
<1>11. st'.cur = st.cur /\ st'.seq >= st.seq
  BY <1>5, <1>7, <1>8, <1>10
<1>12. Settled(t)
  BY <1>1, FinalizedSettled
<1>13. CtlSettled
  BY <1>1, StopSettled, UnchangedCtlSettled
<1>14. CASE UNCHANGED segs
  BY <1>1, <1>11, <1>12, <1>13, <1>14, WriterLeaves, WriteEnds
<1>15. CASE st' = f /\ segs' = [segs EXCEPT ![st.cur] = card]
  <2>1. st.cur \in Cards =>
          /\ segs[st.cur].seq < card.seq /\ card.seq <= st'.seq
          /\ st'.open /\ ~st'.closed => card.status = "streaming"
    BY <1>5, <1>6, <1>7, <1>9, <1>15
  <2> QED
    BY <1>1, <1>11, <1>12, <1>13, <1>15, <2>1, WriterLeaves, WriteEnds
<1>16. CASE st' = f /\ segs' = [segs EXCEPT ![st.cur] = part]
  <2>1. st.cur \in Cards =>
          /\ segs[st.cur].seq < part.seq /\ part.seq <= st'.seq
          /\ st'.open /\ ~st'.closed => part.status = "streaming"
    BY <1>5, <1>6, <1>7, <1>9, <1>16
  <2> QED
    BY <1>1, <1>11, <1>12, <1>13, <1>16, <2>1, WriterLeaves, WriteEnds
<1> QED
  BY <1>1, <1>14, <1>15, <1>16

LEMMA FinalizeReturnWrites ==
  ASSUME TypeOK, TypeOK', WritesInv, NEW t \in Tasks, FinalizeReturn(t)
  PROVE  WritesInv'
<1>1. /\ st' \in {st, Forgotten(st)}
      /\ Go(t, To(t, "st.next")) \/ Finish(t, task[t].res)
  BY DEF FinalizeReturn
<1>2. StSettled
  BY <1>1 DEF StSettled, Forgotten, TypeOK, States
<1>3. "st.next" \notin Special
  BY DEF Special
<1>4. Settled(t)
  BY <1>1, <1>3, ToSettled, FinishSettled
<1> QED
  BY <1>2, <1>4, UnchangedCtlSettled, Frame DEF FinalizeReturn

-----------------------------------------------------------------------------
(* Tools *)

LEMMA ToolCheckWrites ==
  ASSUME TypeOK, TypeOK', WritesInv, NEW t \in Tasks, ToolCheck(t)
  PROVE  WritesInv'
<1> DEFINE current == ~st.closed /\ st.routed
<1>1. /\ st' \in {st, [st EXCEPT !.defTool = task[t].tool]}
      /\ Go(t, To(t, "tool.commit")) \/ \E ok : Finish(t, ok)
  <2>1. CASE current /\ st.open
    BY <2>1 DEF ToolCheck
  <2>2. CASE current /\ ~st.open /\ st.trans
    BY <2>2 DEF ToolCheck
  <2>3. CASE ~current \/ (~st.open /\ ~st.trans)
    BY <2>3 DEF ToolCheck
  <2> QED
    BY <2>1, <2>2, <2>3
<1>2. StSettled
  BY <1>1 DEF StSettled, TypeOK, States
<1>3. "tool.commit" \notin Special
  BY DEF Special
<1>4. Settled(t)
  BY <1>1, <1>3, ToSettled, FinishSettled
<1> QED
  BY <1>2, <1>4, UnchangedCtlSettled, Frame DEF ToolCheck

LEMMA ToolCommitWrites ==
  ASSUME TypeOK, TypeOK', WritesInv, NEW t \in Tasks, ToolCommit(t)
  PROVE  WritesInv'
<1>1. CASE st.closed \/ st.disabled \/ ~st.open
  <2>1. UNCHANGED <<st, lock>> /\ Finish(t, FALSE)
    BY <1>1 DEF ToolCommit
  <2> QED
    BY <2>1, FinishSettled, UnchangedStSettled, UnchangedCtlSettled, Frame
       DEF ToolCommit
<1>2. CASE ~st.closed /\ ~st.disabled /\ st.open
  <2>1. /\ lock' = t /\ lock = NoTask
        /\ st' = [st EXCEPT !.tool = task[t].tool, !.seq = @ + 1]
        /\ Go(t, To(t, "tool.write")) /\ UNCHANGED <<segs, ctl>>
    BY <1>2 DEF ToolCommit, MayLock
  <2>2. st'.cur = st.cur /\ st'.seq = st.seq + 1
    BY <2>1 DEF TypeOK, States
  <2>3. st'.seq >= st.seq /\ st'.seq > st.seq
    BY <2>2, SequenceTypes
  <2> QED
    BY <1>2, <2>1, <2>2, <2>3, TakeLock
<1> QED
  BY <1>1, <1>2

LEMMA FailureState ==
  ASSUME NEW s \in States, NEW o, NEW full \in BOOLEAN
  PROVE  /\ AfterFailure(s, o, full) \in States
         /\ AfterFailure(s, o, full).cur = s.cur
         /\ AfterFailure(s, o, full).seq = s.seq
<1> DEFINE p == s.pending \/ full
<1>1. /\ Unavailable(s).cur = s.cur /\ Unavailable(s).seq = s.seq
  BY DEF Unavailable, States
<1>2. /\ [s EXCEPT !.disabled = TRUE].cur = s.cur
      /\ [s EXCEPT !.disabled = TRUE].seq = s.seq
  BY DEF States
<1>3. /\ [s EXCEPT !.pending = p].cur = s.cur
      /\ [s EXCEPT !.pending = p].seq = s.seq
  BY DEF States
<1>4. AfterFailure(s, o, full) \in {Unavailable(s), [s EXCEPT !.disabled = TRUE],
                                  [s EXCEPT !.pending = p]}
  BY DEF AfterFailure
<1> HIDE DEF p
<1> QED
  BY <1>1, <1>2, <1>3, <1>4, AfterFailureType

LEMMA ToolWriteWrites ==
  ASSUME TypeOK, TypeOK', WritesInv, NEW t \in Tasks, ToolWrite(t)
  PROVE  WritesInv' /\ Rising
<1> DEFINE card == [segs[st.cur] EXCEPT !.status = "streaming",
                           !.text = st.content, !.tool = st.tool,
                           !.seq = st.seq]
           s == [st EXCEPT !.pending = FALSE, !.phase = "generating"]
<1>1. PICK o :
        /\ lock' = NoTask /\ Writing(t) /\ task[t].pc = "tool.write"
        /\ Finish(t, o = "ok")
        /\ \/ st' = s /\ UNCHANGED ctl /\ segs' = [segs EXCEPT ![st.cur] = card]
           \/ /\ st' = AfterFailure(st, o, TRUE) /\ UNCHANGED segs
              /\ SetCtl(ControllerAfterFailure(Ctl, o))
  BY DEF ToolWrite, At, Writing
<1>2. s.cur = st.cur /\ s.seq = st.seq
  BY DEF TypeOK, States
<1>3. st.cur \in Cards => card.seq = st.seq /\ card.status = "streaming"
  BY CardSequence
<1> HIDE DEF s, card
<1>4. st'.cur = st.cur /\ st'.seq = st.seq
  <2>1. st \in States
    BY DEF TypeOK
  <2>2. /\ AfterFailure(st, o, TRUE).cur = st.cur
        /\ AfterFailure(st, o, TRUE).seq = st.seq
    BY <2>1, FailureState
  <2> QED
    BY <1>1, <1>2, <2>2
<1>5. Settled(t)
  BY <1>1, FinishSettled
<1>6. InFlight
  BY <1>1, <1>5, WriterLeaves
<1>7. st.cur \in Cards => segs[st.cur].seq < st.seq /\ st.seq <= st.seq
  BY <1>1, SequenceTypes DEF WritesInv, SequenceAhead
<1>8. CtlSettled
  BY <1>1, UnchangedCtlSettled, FailureSettled
<1>9. st'.seq >= st.seq
  BY <1>4, SequenceTypes
<1> QED
  BY <1>1, <1>3, <1>4, <1>5, <1>6, <1>7, <1>8, <1>9, WriterLeaves, WriteEnds

LEMMA AdoptWrites ==
  ASSUME TypeOK, TypeOK', WritesInv, NEW t \in Tasks, Adopt(t) \/ ExpireLocked(t)
  PROVE  WritesInv'
<1>1. /\ st' \in {[st EXCEPT !.active = t, !.terminal = FALSE],
                 [st EXCEPT !.closed = TRUE, !.routed = FALSE]}
      /\ Go(t, To(t, "st.next")) \/ Go(t, Idle)
      /\ UNCHANGED <<segs, ctl, lock>>
  BY DEF Adopt, ExpireLocked
<1>2. StSettled
  BY <1>1 DEF StSettled, TypeOK, States
<1>3. "st.next" \notin Special
  BY DEF Special
<1>4. Settled(t)
  BY <1>1, <1>3, IdleSettled, GoSettled, ToSettled
<1> QED
  BY <1>1, <1>2, <1>4, UnchangedCtlSettled, Frame

LEMMA CreateSendRising ==
  ASSUME TypeOK, NEW t \in Tasks, CreateSend(t)
  PROVE  Rising
<1> DEFINE c == NewCard(ReplyTo(task[t]))
<1>1. segs' \in {segs, Append(segs, c)}
  BY DEF CreateSend
<1>2. c \in CardType
  BY DEF NewCard, ReplyTo, CardType, TypeOK, Coroutines, Texts, ToolStates
<1> HIDE DEF c
<1>3. segs \in Seq(CardType)
  BY DEF TypeOK
<1>4. \A i \in Cards : segs'[i] = segs[i]
  BY <1>1, <1>2, <1>3 DEF Cards
<1> QED
  BY <1>4 DEF Rising

LEMMA RunWrites ==
  ASSUME TypeOK, TypeOK', WritesInv, NEW t \in Tasks, Run(t)
  PROVE  WritesInv' /\ Rising
<1>1. CASE CreateEntity(t) \/ CreateCheck(t) \/ CreateSend(t) \/ CreateCommit(t)
  BY <1>1, CreateEntityWrites, CreateCheckWrites, CreateSendWrites,
     CreateCommitWrites, CreateSendRising, UnchangedRising
     DEF CreateEntity, CreateCheck, CreateCommit
<1>2. CASE RetireWrite(t) \/ SuspendWrite(t) \/ FinalizeWrite(t) \/ ToolWrite(t)
  BY <1>2, RetireWriteWrites, SuspendWriteWrites, FinalizeWriteWrites,
     ToolWriteWrites
<1>3. CASE Drain(t) \/ SuspendLocked(t)
  BY <1>3, DrainWrites, SuspendLockedWrites, UnchangedRising
     DEF Drain, SuspendLocked
<1>4. CASE ResumeEnter(t) \/ ResumeOk(t) \/ ResumeEnd(t)
  BY <1>4, ResumeWrites, UnchangedRising DEF ResumeEnter, ResumeOk, ResumeEnd
<1>5. CASE SteerBegin(t) \/ SteerEnd(t) \/ SteerNext(t) \/ SteerSilent(t)
  BY <1>5, SteerBeginWrites, SteerEndWrites, SteerNextWrites, UnchangedRising
     DEF SteerBegin, SteerEnd, SteerNext, SteerSilent
<1>6. CASE OutputBegin(t) \/ OutputCommit(t) \/ FallbackWrite(t)
  BY <1>6, OutputBeginWrites, OutputCommitWrites, FallbackWriteWrites,
     UnchangedRising DEF OutputBegin, OutputCommit, FallbackWrite
<1>7. CASE FinalizeEnter(t) \/ FinalizeLocked(t) \/ FinalizeReturn(t)
  BY <1>7, FinalizeEnterWrites, FinalizeLockedWrites, FinalizeReturnWrites,
     UnchangedRising DEF FinalizeEnter, FinalizeLocked, FinalizeReturn
<1>8. CASE ToolCheck(t) \/ ToolCommit(t) \/ Adopt(t) \/ ExpireLocked(t)
  BY <1>8, ToolCheckWrites, ToolCommitWrites, AdoptWrites, UnchangedRising
     DEF ToolCheck, ToolCommit, Adopt, ExpireLocked
<1> QED
  BY <1>1, <1>2, <1>3, <1>4, <1>5, <1>6, <1>7, <1>8 DEF Run

-----------------------------------------------------------------------------
(* The dispatch, and the other callers *)

\* A step of no task.
LEMMA NoTaskStep ==
  ASSUME TypeOK, TypeOK', WritesInv, StSettled, CtlSettled,
         UNCHANGED <<segs, lock, task>>
  PROVE  WritesInv'
BY FrameAll

LEMMA DispatchWrites ==
  ASSUME TypeOK, TypeOK', WritesInv, DispatchStart \/ DispatchContinue
  PROVE  WritesInv'
<1> DEFINE r == [Idle EXCEPT !.op = "start", !.want = clock + 1, !.ret = "st.next"]
           q(a, p) == [Idle EXCEPT !.op = "start", !.pc = p, !.want = a]
<1>1. r \in Coroutines
  <2> DEFINE n == clock + 1
  <2>1. n \in Nat
    BY DEF TypeOK
  <2> HIDE DEF n
  <2>2. [Idle EXCEPT !.op = "start", !.want = n, !.ret = "st.next"] \in Coroutines
    BY <2>1, IdleType, Names DEF Coroutines, Returns
  <2> QED
    BY <2>2 DEF n
<1>2. \A a, p : q(a, p).pc = p
  BY DEF Idle
<1>3. Create("runner", r)
      \/ \E a : \E p \in {"adopt", "st.begin"} : Go("runner", q(a, p))
  <2>1. CASE DispatchStart
    BY <2>1 DEF DispatchStart
  <2>2. CASE DispatchContinue /\ st.open
    BY <2>2 DEF DispatchContinue
  <2>3. CASE DispatchContinue /\ ~st.open
    BY <2>3 DEF DispatchContinue
  <2> QED
    BY <2>1, <2>2, <2>3
<1> HIDE DEF r, q
<1>4. {"adopt", "st.begin"} \cap Special = {}
  BY DEF Special
<1>5. Settled("runner")
  BY <1>1, <1>2, <1>3, <1>4, CreateSettled, GoSettled, TaskNames
<1> QED
  BY <1>5, TaskNames, UnchangedStSettled, UnchangedCtlSettled, Frame
     DEF DispatchStart, DispatchContinue

LEMMA CompleteWrites ==
  ASSUME TypeOK, TypeOK', WritesInv, Complete
  PROVE  WritesInv'
<1>1. PICK e \in Endings :
        LET out == CASE e = "success" -> "complete" [] e = "failure" -> "error"
                     [] e = "cancelled" -> "stopped"
            note == IF e = "success" \/ st.content # "" THEN st.content
                    ELSE "note"
        IN  \/ /\ UNCHANGED st
               /\ Go("runner", [Idle EXCEPT !.pc = "fin.enter",
                                  !.op = "complete", !.saw = st.open,
                                  !.text = note, !.out = out])
            \/ /\ \E s \in {st, ClosedBy(st, out)} : st' \in {s, Forgotten(s)}
               /\ UNCHANGED task
  BY DEF Complete
<1> DEFINE out == CASE e = "success" -> "complete" [] e = "failure" -> "error"
                    [] e = "cancelled" -> "stopped"
           note == IF e = "success" \/ st.content # "" THEN st.content
                   ELSE "note"
           r == [Idle EXCEPT !.pc = "fin.enter", !.op = "complete",
                             !.saw = st.open, !.text = note, !.out = out]
<1>2. \/ UNCHANGED st /\ Go("runner", r)
      \/ /\ \E s \in {st, ClosedBy(st, out)} : st' \in {s, Forgotten(s)}
         /\ UNCHANGED task
  BY <1>1
<1> HIDE DEF out, note
<1>3. r.pc \notin Special
  BY DEF Idle, Special
<1> HIDE DEF r
<1>4. UNCHANGED <<segs, ctl, lock>>
  BY DEF Complete
<1>5. StSettled
  <2>1. st' \in {st, ClosedBy(st, out), Forgotten(st), Forgotten(ClosedBy(st, out))}
    BY <1>2
  <2>2. st \in States
    BY DEF TypeOK
  <2>3. CASE st' \in {st, ClosedBy(st, out)}
    BY <2>2, <2>3 DEF StSettled, ClosedBy, States
  <2>4. CASE st' \in {Forgotten(st), Forgotten(ClosedBy(st, out))}
    BY <2>2, <2>4 DEF StSettled, ClosedBy, Forgotten, States
  <2> QED
    BY <2>1, <2>3, <2>4
<1>6. CASE Go("runner", r)
  <2>1. Settled("runner")
    BY <1>3, <1>6, GoSettled, TaskNames
  <2> QED
    BY <1>4, <1>5, <2>1, TaskNames, UnchangedCtlSettled, Frame
<1>7. CASE UNCHANGED task
  BY <1>4, <1>5, <1>7, UnchangedCtlSettled, NoTaskStep
<1> QED
  BY <1>2, <1>6, <1>7

LEMMA ConsumerWrites ==
  ASSUME TypeOK, TypeOK', WritesInv, StreamDelta \/ FinalAnswer \/ Progress
  PROVE  WritesInv'
<1> DEFINE r(o, x, p) == [Idle EXCEPT !.op = o, !.text = x, !.pc = p]
           points == {"fin.enter", "rs.enter", "out.begin"}
<1>1. \/ UNCHANGED task
      \/ \E t \in {"consumer", "notifier"} : \E o, x : \E p \in points :
           Go(t, r(o, x, p))
  <2>1. CASE StreamDelta \/ Progress
    <3>1. \/ Go("consumer", r("stream", "part", "out.begin"))
          \/ Go("notifier", r("progress", "prog", "out.begin"))
      BY <2>1 DEF StreamDelta, Progress
    <3> QED
      BY <3>1
  <2>2. CASE FinalAnswer
    <3>1. \A p : [[Idle EXCEPT !.op = "final", !.text = "answer"] EXCEPT
                     !.op = "stream", !.pc = p] = r("stream", "answer", p)
      BY DEF Idle
    <3>2. \/ UNCHANGED task
          \/ \E o \in {"final", "stream"}, p \in points :
               Go("consumer", r(o, "answer", p))
      <4>1. CASE st.terminal
        BY <2>2, <4>1 DEF FinalAnswer
      <4>2. CASE ~st.terminal
        <5>1. UNCHANGED task \/ Go("consumer", r("stream", "answer", "out.begin"))
          BY <2>2, <3>1, <4>2 DEF FinalAnswer
        <5> QED
          BY <5>1
      <4> QED
        BY <4>1, <4>2
    <3> QED
      BY <3>2
  <2> QED
    BY <2>1, <2>2
<1>2. \A o, x, p : r(o, x, p).pc = p
  BY DEF Idle
<1>3. points \cap Special = {}
  BY DEF Special
<1>4. UNCHANGED <<st, segs, ctl, lock>>
  BY DEF StreamDelta, FinalAnswer, Progress
<1> HIDE DEF r, points
<1>5. UNCHANGED task \/ \E t \in Tasks : Settled(t)
  BY <1>1, <1>2, <1>3, GoSettled, TaskNames
<1> QED
  BY <1>4, <1>5, UnchangedStSettled, UnchangedCtlSettled, Frame, NoTaskStep

LEMMA ToolUpdateWrites ==
  ASSUME TypeOK, TypeOK', WritesInv, ToolUpdate
  PROVE  WritesInv'
<1>1. \A w : [Idle EXCEPT !.op = "tool", !.tool = w, !.pc = "rs.enter"].pc
             \notin Special
  BY DEF Idle, Special
<1>2. Settled("agent")
  BY <1>1, GoSettled, TaskNames DEF ToolUpdate
<1> QED
  BY <1>2, TaskNames, UnchangedStSettled, UnchangedCtlSettled, Frame
     DEF ToolUpdate

LEMMA BoundaryWrites ==
  ASSUME TypeOK, TypeOK', WritesInv,
         NEW why \in {"artifact", "approval", "question"}, Boundary(why)
  PROVE  WritesInv'
<1> DEFINE n == clock + 1
           r == [Idle EXCEPT !.op = "boundary", !.why = why, !.want = n]
<1>1. n \in Nat
  BY DEF TypeOK
<1>2. Suspend("agent", r) \/ UNCHANGED <<ctl, task>>
  BY DEF Boundary
<1> HIDE DEF n
<1>3. r \in Coroutines
  BY <1>1, IdleType DEF Coroutines, Ops, Reasons
<1> HIDE DEF r
<1>4. \/ Settled("agent") /\ CtlSettled
      \/ UNCHANGED task /\ CtlSettled
  BY <1>2, <1>3, SuspendSettled, UnchangedCtlSettled, TaskNames
<1> QED
  BY <1>4, TaskNames, UnchangedStSettled, Frame, NoTaskStep DEF Boundary

LEMMA MarkTerminalWrites ==
  ASSUME TypeOK, TypeOK', WritesInv, MarkTerminal
  PROVE  WritesInv'
<1>1. StSettled
  BY DEF MarkTerminal, StSettled, TypeOK, States
<1> QED
  BY <1>1, UnchangedCtlSettled, NoTaskStep DEF MarkTerminal

LEMMA SteerWrites ==
  ASSUME TypeOK, TypeOK', WritesInv, NEW t \in Steers, Steer(t)
  PROVE  WritesInv'
<1> DEFINE r(m, a, p) == [Idle EXCEPT !.op = m, !.want = a, !.pc = p]
           e(m, a, p) == [Idle EXCEPT !.op = m, !.want = a, !.saw = TRUE, !.pc = p]
           points == {"st.begin", "st.silent", "adopt"}
<1>1. \E m, a : \E p \in points : Go(t, r(m, a, p)) \/ Go(t, e(m, a, p))
  <2>1. PICK m \in SteerModes :
          \/ Go(t, r(m, clock + 1,
                     IF m = "ack" THEN "st.begin" ELSE "st.silent"))
          \/ Go(t, e(m, st.anchor,
                     IF m = "silent" THEN "st.silent"
                     ELSE IF st.open THEN "adopt" ELSE "st.begin"))
    BY DEF Steer
  <2> QED
    BY <2>1
<1>2. \A m, a, p : r(m, a, p).pc = p /\ e(m, a, p).pc = p
  BY DEF Idle
<1>3. points \cap Special = {}
  BY DEF Special
<1> HIDE DEF r, e
<1>4. t \in Tasks /\ Settled(t)
  BY <1>1, <1>2, <1>3, GoSettled DEF Tasks
<1> QED
  BY <1>4, UnchangedStSettled, UnchangedCtlSettled, Frame DEF Steer

\* A task that held the lock is cancelled: it leaves a write to a card behind,
\* or nothing.
LEMMA WriteLeft ==
  ASSUME TypeOK, TypeOK', WritesInv, ~Uncancelled, NEW t \in Tasks, lock = t,
         lock' = NoTask, UNCHANGED ctl, st'.cur = st.cur, st'.seq >= st.seq,
         \A u \in Tasks : u # t => task'[u] = task[u],
         \/ task'[t].pc \notin Special
         \/ /\ task'[t].pc \in {"late.card", "late.text"}
            /\ \/ task'[t].ref = st.cur /\ task'[t].want <= st'.seq
               \/ Publishing(t) /\ task'[t].ref = task[t].ref,
         Len(segs') = Len(segs),
         \A i \in Cards : i # st.cur => segs'[i] = segs[i],
         st.cur \in Cards => segs'[st.cur].seq <= st'.seq
  PROVE  WritesInv'
<1>1. \A u \in Tasks : ~Writing(u)' /\ task'[u].pc # "rt.write"
                       /\ task'[u].pc # "tool.write"
  BY Alone DEF Writing, Special
<1>2. \A i \in 1..Len(ctl') : ~Flushing(i)'
  BY Alone, TaskNames DEF Flushing
<1>3. Cards' = Cards
  BY DEF Cards
<1>4. \A u \in Tasks : Publishing(u)' => u # t /\ Publishing(u)
                                        /\ task'[u].ref = task[u].ref
  BY DEF Publishing, Special
<1>5. WriterHasLock'
  BY <1>1, <1>2 DEF WriterHasLock
<1>6. CurrentStreams'
  BY DEF WritesInv, CurrentStreams, Uncancelled
<1>7. SequenceAhead'
  BY <1>1, <1>2, <1>3 DEF SequenceAhead
<1>8. PublishedIsFresh'
  BY <1>3, <1>4 DEF WritesInv, PublishedIsFresh
<1>9. LateIsBehind'
  <2>1. ASSUME NEW u \in Tasks, u # t,
               task'[u].pc \in {"late.card", "late.text"}
        PROVE  /\ task'[u].ref <= Len(segs')
               /\ task'[u].ref = st'.cur /\ st'.cur \in Cards'
                    => task'[u].want <= st'.seq
               /\ \A v \in Tasks : Publishing(v)' => task'[u].ref # task'[v].ref
    <3>1. task'[u] = task[u] /\ task[u].want \in Nat
      BY <2>1 DEF TypeOK, Coroutines
    <3> QED
      BY <1>3, <1>4, <2>1, <3>1, SequenceTypes DEF WritesInv, LateIsBehind
  <2>2. ASSUME task'[t].pc \in {"late.card", "late.text"}
        PROVE  /\ task'[t].ref <= Len(segs')
               /\ task'[t].ref = st'.cur /\ st'.cur \in Cards'
                    => task'[t].want <= st'.seq
               /\ \A v \in Tasks : Publishing(v)' => task'[t].ref # task'[v].ref
    <3>1. CASE task'[t].ref = st.cur /\ task'[t].want <= st'.seq
      BY <1>4, <3>1 DEF WritesInv, CurrentStreams, PublishedIsFresh
    <3>2. CASE Publishing(t) /\ task'[t].ref = task[t].ref
      <4>1. task[t].ref \in Cards /\ task[t].ref # st.cur
        BY <3>2 DEF WritesInv, PublishedIsFresh
      <4>2. task[t].ref <= Len(segs)
        BY <4>1 DEF Cards
      <4> QED
        BY <1>4, <3>2, <4>1, <4>2 DEF WritesInv, PublishedIsFresh
    <3> QED
      BY <2>2, <3>1, <3>2 DEF Special
  <2> QED
    BY <1>1, <2>1, <2>2 DEF LateIsBehind
<1> QED
  BY <1>5, <1>6, <1>7, <1>8, <1>9 DEF WritesInv

LEMMA ReservedState ==
  ASSUME TypeOK, NEW n \in Nat
  PROVE  /\ Reserved(st, n).cur = st.cur
         /\ Reserved(st, n).seq = st.seq + n
         /\ [Reserved(st, n) EXCEPT !.flushed = st.content].cur = st.cur
         /\ [Reserved(st, n) EXCEPT !.flushed = st.content].seq = st.seq + n
<1>1. st \in States
  BY DEF TypeOK
<1> QED
  BY <1>1 DEF Reserved, States

LEMMA LeavesPc ==
  ASSUME TypeOK, NEW t \in Tasks, NEW r, Leaves(t, r)
  PROVE  task'[t] = r /\ \A u \in Tasks : u # t => task'[u] = task[u]
BY DEF Leaves, TypeOK

LEMMA CancelFreezeWrites ==
  ASSUME TypeOK, TypeOK', WritesInv, ~Uncancelled, NEW t \in Tasks,
         lock = t, lock' = NoTask, UNCHANGED ctl, CancelFreeze(t)
  PROVE  WritesInv' /\ Rising
<1> DEFINE n == st.seq + 2
           r == [Idle EXCEPT !.pc = "late.card", !.why = "steer",
                   !.text = st.content, !.tool = st.tool, !.ref = st.cur,
                   !.want = n]
<1>1. UNCHANGED segs
  BY DEF CancelFreeze
<1>2. \/ st' = Reserved(st, 1) /\ Leaves(t, Idle)
      \/ st' = Reserved(st, 2) /\ Leaves(t, r)
  BY DEF CancelFreeze, LeavesNothing
<1>3. r.pc = "late.card" /\ r.ref = st.cur /\ r.want = n
  BY DEF Idle
<1> HIDE DEF r
<1>4. st'.cur = st.cur /\ st'.seq >= st.seq
  BY <1>2, ReservedState, SequenceTypes
<1>5. \/ task'[t].pc \notin Special
      \/ /\ task'[t].pc = "late.card" /\ task'[t].ref = st.cur
         /\ task'[t].want <= st'.seq
  BY <1>2, <1>3, LeavesPc, IdleSettled, ReservedState, SequenceTypes
<1>6. \A u \in Tasks : u # t => task'[u] = task[u]
  BY <1>2, LeavesPc
<1>7. st.cur \in Cards => segs'[st.cur].seq <= st'.seq
  BY <1>1, <1>4, SequenceTypes DEF WritesInv, SequenceAhead
<1> HIDE DEF n
<1>8. WritesInv'
  BY <1>1, <1>4, <1>5, <1>6, <1>7, WriteLeft
<1> QED
  BY <1>1, <1>8, UnchangedRising

LEMMA CancelFinalizeWrites ==
  ASSUME TypeOK, TypeOK', WritesInv, ~Uncancelled, NEW t \in Tasks,
         lock = t, lock' = NoTask, UNCHANGED ctl, Writing(t), CancelFinalize(t)
  PROVE  WritesInv' /\ Rising
<1> DEFINE changed == st.content # st.flushed
           k == IF changed THEN 1 ELSE 0
           n == st.seq + k
           m == n + 2
           late == [Idle EXCEPT !.pc = "late.card", !.text = st.content,
                                !.ref = st.cur]
           a == [late EXCEPT !.pc = "late.text", !.want = n]
           b == [late EXCEPT !.out = task[t].out, !.tool = st.tool, !.want = m]
           shown(x) == [Reserved(st, x) EXCEPT !.flushed = st.content]
           card == [segs[st.cur] EXCEPT !.text = st.content, !.seq = n]
<1>1. st.seq \in Nat /\ k \in {0, 1} /\ n = st.seq + k /\ m = st.seq + k + 2
      /\ st'.seq \in Nat
  BY SequenceTypes
<1>2. \/ changed /\ st' = Reserved(st, 1) /\ UNCHANGED segs /\ Leaves(t, a)
      \/ /\ \/ UNCHANGED segs
            \/ k = 1 /\ segs' = [segs EXCEPT ![st.cur] = card]
         /\ \/ st' = shown(k + 1) /\ Leaves(t, Idle)
            \/ st' = shown(k + 2) /\ Leaves(t, b)
  BY DEF CancelFinalize, LeavesNothing
<1>3. changed => k = 1
  OBVIOUS
<1>4. /\ a.pc = "late.text" /\ a.ref = st.cur /\ a.want = n
      /\ b.pc = "late.card" /\ b.ref = st.cur /\ b.want = m
  BY DEF Idle
<1>5. st.cur \in Cards => card.seq = n
  BY CardSequence
<1>6. /\ shown(k + 1).cur = st.cur /\ shown(k + 1).seq = st.seq + k + 1
      /\ shown(k + 2).cur = st.cur /\ shown(k + 2).seq = st.seq + k + 2
  BY <1>1, ReservedState
<1> HIDE DEF k, n, m, changed, a, b, shown, card
<1>7. st'.cur = st.cur /\ st'.seq >= st.seq
  BY <1>1, <1>2, <1>6, ReservedState
<1>8. \/ task'[t].pc \notin Special
      \/ /\ task'[t].pc \in {"late.card", "late.text"}
         /\ task'[t].ref = st.cur /\ task'[t].want <= st'.seq
  BY <1>1, <1>2, <1>3, <1>4, <1>6, LeavesPc, IdleSettled, ReservedState
<1>9. \A u \in Tasks : u # t => task'[u] = task[u]
  BY <1>2, LeavesPc
<1>10. st.cur \in Cards => segs[st.cur].seq <= st.seq /\ segs[st.cur].seq \in Nat
  BY SequenceTypes DEF WritesInv, SequenceAhead
<1>11. CASE UNCHANGED segs
  <2>1. st.cur \in Cards => segs'[st.cur].seq <= st'.seq
    BY <1>1, <1>7, <1>10, <1>11
  <2>2. WritesInv'
    BY <1>7, <1>8, <1>9, <1>11, <2>1, WriteLeft
  <2> QED
    BY <1>11, <2>2, UnchangedRising
<1>12. CASE /\ k = 1 /\ segs' = [segs EXCEPT ![st.cur] = card]
            /\ st' \in {shown(k + 1), shown(k + 2)}
  <2>1. InFlight
    BY DEF InFlight
  <2>2. st.cur \in Cards => card.seq > segs[st.cur].seq
    BY <1>1, <1>5, <1>10, <1>12
  <2>3. /\ Rising /\ Len(segs') = Len(segs)
        /\ \A i \in Cards : i # st.cur => segs'[i] = segs[i]
        /\ st.cur \in Cards => segs'[st.cur] = card
    BY <1>12, <2>1, <2>2, CurrentRising
  <2>4. st.cur \in Cards => segs'[st.cur].seq <= st'.seq
    BY <1>1, <1>5, <1>6, <1>12, <2>3
  <2> QED
    BY <1>7, <1>8, <1>9, <2>3, <2>4, WriteLeft
<1> QED
  BY <1>2, <1>11, <1>12

LEMMA CancelRetireWrites ==
  ASSUME TypeOK, TypeOK', WritesInv, ~Uncancelled, NEW t \in Tasks,
         lock = t, lock' = NoTask, UNCHANGED ctl, task[t].pc = "rt.write",
         CancelRetire(t)
  PROVE  WritesInv' /\ Rising
<1> DEFINE r(x) == [Idle EXCEPT !.pc = "late.card", !.ref = task[t].ref,
                      !.why = x, !.out = "stopped", !.want = 2]
<1>1. \/ Leaves(t, Idle)
      \/ Leaves(t, r(IF st.closed THEN "" ELSE "steer"))
  BY DEF CancelRetire, LeavesNothing
<1>2. \A x : r(x).pc = "late.card" /\ r(x).ref = task[t].ref
  BY DEF Idle
<1> HIDE DEF r
<1>3. UNCHANGED <<st, segs>> /\ Publishing(t)
  BY DEF CancelRetire, Publishing
<1>4. \/ task'[t].pc \notin Special
      \/ task'[t].pc = "late.card" /\ task'[t].ref = task[t].ref
  BY <1>1, <1>2, LeavesPc, IdleSettled
<1>5. \A u \in Tasks : u # t => task'[u] = task[u]
  BY <1>1, LeavesPc
<1>6. st'.seq >= st.seq /\ (st.cur \in Cards => segs'[st.cur].seq <= st'.seq)
  BY <1>3, SequenceTypes DEF WritesInv, SequenceAhead
<1>7. WritesInv'
  BY <1>3, <1>4, <1>5, <1>6, WriteLeft
<1> QED
  BY <1>3, <1>7, UnchangedRising

LEMMA CancelSteerWrites ==
  ASSUME TypeOK, TypeOK', WritesInv, NEW t \in Steers, CancelSteer(t)
  PROVE  WritesInv' /\ Rising
<1>1. t \in Tasks /\ ~Uncancelled /\ UNCHANGED ctl
  BY DEF Tasks, CancelSteer, Uncancelled
<1>2. lock' = IF lock = t THEN NoTask ELSE lock
  BY DEF CancelSteer
<1>3. CASE task[t].pc \in {"sus.write", "fin.write", "rt.write"}
  <2>1. lock = t
    BY <1>1, <1>3 DEF WritesInv, WriterHasLock, Writing
  <2>2. \/ CancelFreeze(t)
        \/ Writing(t) /\ CancelFinalize(t)
        \/ task[t].pc = "rt.write" /\ CancelRetire(t)
    BY <1>3 DEF CancelSteer, Writing
  <2> QED
    BY <1>1, <1>2, <2>1, <2>2, CancelFreezeWrites, CancelFinalizeWrites,
       CancelRetireWrites
<1>4. CASE task[t].pc \notin {"sus.write", "fin.write", "rt.write"}
  <2>1. /\ UNCHANGED <<st, segs>>
        /\ \/ Leaves(t, Idle)
           \/ Leaves(t, To(t, "late.send"))
           \/ Leaves(t, To(t, "late.post"))
    BY <1>4 DEF CancelSteer, CancelCall, LeavesNothing
  <2>2. \A p : To(t, p).pc = p
    BY <1>1, ToPc
  <2>3. task'[t].pc \notin Special
    BY <1>1, <2>1, <2>2, LeavesPc, IdleSettled DEF Special
  <2>4. \A u \in Tasks : u # t => task'[u] = task[u]
    BY <1>1, <2>1, LeavesPc
  <2>5. \A u \in Tasks : task'[u].pc \in Special =>
          task'[u] = task[u] /\ (lock = u => lock' = u)
    BY <1>1, <1>2, <2>3, <2>4
  <2>6. lock = "flush" => lock' = "flush"
    BY <1>1, <1>2, TaskNames
  <2>7. WritesInv'
    BY <1>1, <2>1, <2>5, <2>6, UnchangedStSettled, UnchangedCtlSettled,
       FrameAll
  <2> QED
    BY <2>1, <2>7, UnchangedRising
<1> QED
  BY <1>3, <1>4

\* A call left behind that writes a card writes none that is being published,
\* and CardKit accepts it only with a higher sequence.
LEMMA LateCardWrites ==
  ASSUME TypeOK, TypeOK', WritesInv, ~Uncancelled, NEW t \in Tasks,
         UNCHANGED <<st, lock, ctl>>, task'[t].pc \notin Special,
         \A u \in Tasks : u # t => task'[u] = task[u], LateCard(task[t])
  PROVE  WritesInv' /\ Rising
<1> DEFINE k == task[t].ref
           n == task[t].want
<1>1. n > segs[k].seq /\ task[t].pc \in {"late.card", "late.text"}
  BY DEF LateCard, Accepted
<1>2. PICK c : /\ segs' = [segs EXCEPT ![k] = c]
               /\ k \in Cards => c.seq = n
  <2> DEFINE r == task[t]
             a == [segs[k] EXCEPT !.text = r.text, !.seq = r.want]
             b(x) == [segs[k] EXCEPT !.text = r.text, !.tool = r.tool,
                                     !.seq = r.want, !.status = x]
  <2>1. \E x : segs' \in {[segs EXCEPT ![k] = a], [segs EXCEPT ![k] = b(x)]}
    BY DEF LateCard
  <2>2. k \in Cards => a.seq = n /\ \A x : b(x).seq = n
    <3>1. k \in Cards => segs[k] \in CardType
      BY ElementType DEF TypeOK, Cards
    <3> QED
      BY <3>1 DEF CardType
  <2> HIDE DEF a, b
  <2> QED
    BY <2>1, <2>2
<1>3. segs \in Seq(CardType) /\ k \in Nat /\ n \in Nat
  BY DEF TypeOK, Coroutines
<1>4. /\ Len(segs') = Len(segs) /\ Cards' = Cards
      /\ \A i \in Cards : i # k => segs'[i] = segs[i]
      /\ k \in Cards => segs'[k] = c
  BY <1>2, <1>3 DEF Cards
<1>5. /\ \A u \in Tasks : Publishing(u) => task[u].ref # k
      /\ k = st.cur /\ st.cur \in Cards =>
           /\ n <= st.seq
           /\ \A u \in Tasks : task[u].pc = "tool.write" => n < st.seq
  BY <1>1 DEF WritesInv, LateIsBehind
<1> HIDE DEF k, n
<1>6. Rising
  BY <1>1, <1>2, <1>4 DEF Rising
<1>7. \A u \in Tasks : task'[u].pc \in Special => task'[u] = task[u]
  OBVIOUS
<1>8. WriterHasLock'
  BY <1>7 DEF WritesInv, WriterHasLock, Writing, Flushing, Special
<1>9. CurrentStreams'
  BY <1>4 DEF WritesInv, CurrentStreams, Uncancelled
<1>10. SequenceAhead'
  <2>1. st.cur \in Cards /\ k # st.cur => segs'[st.cur] = segs[st.cur]
    BY <1>4
  <2>2. \A u \in Tasks : task'[u].pc = "tool.write" => task[u].pc = "tool.write"
    BY <1>7 DEF Special
  <2>3. \A i \in 1..Len(ctl') : Flushing(i)' => Flushing(i)
    BY DEF Flushing
  <2> QED
    BY <1>2, <1>4, <1>5, <2>1, <2>2, <2>3 DEF WritesInv, SequenceAhead
<1>11. PublishedIsFresh'
  <2>1. \A u \in Tasks : Publishing(u)' => Publishing(u) /\ task'[u] = task[u]
    BY <1>7 DEF Publishing, Special
  <2> QED
    BY <1>4, <1>5, <2>1 DEF WritesInv, PublishedIsFresh
<1>12. LateIsBehind'
  <2>1. \A u \in Tasks : /\ Publishing(u)' => Publishing(u)
                                              /\ task'[u] = task[u]
                         /\ task'[u].pc = "tool.write" => task[u].pc = "tool.write"
                         /\ task'[u].pc \in {"late.card", "late.text"} =>
                              /\ task[u].pc \in {"late.card", "late.text"}
                              /\ task'[u] = task[u]
    BY <1>7 DEF Publishing, Special
  <2> QED
    BY <1>4, <2>1 DEF WritesInv, LateIsBehind
<1> QED
  BY <1>6, <1>8, <1>9, <1>10, <1>11, <1>12 DEF WritesInv

LEMMA LateCallWrites ==
  ASSUME TypeOK, TypeOK', WritesInv, NEW t \in Steers, LateCall(t)
  PROVE  WritesInv' /\ Rising
<1>1. t \in Tasks /\ ~Uncancelled /\ UNCHANGED <<st, lock>>
  BY DEF Tasks, LateCall, Late, Uncancelled
<1>2. task'[t].pc \notin Special /\ \A u \in Tasks : u # t => task'[u] = task[u]
  BY <1>1, LeavesPc, IdleSettled DEF LateCall, LeavesNothing
<1>3. CASE UNCHANGED <<segs, ctl>>
  <2>1. Settled(t)
    BY <1>2 DEF Settled
  <2> QED
    BY <1>1, <1>3, <2>1, UnchangedStSettled, UnchangedCtlSettled,
       UnchangedRising, Frame
<1>4. CASE LateCard(task[t])
  BY <1>1, <1>2, <1>4, LateCardWrites DEF LateCard
<1>5. CASE LateSend(task[t])
  <2> DEFINE c == NewCard(ReplyTo(task[t]))
  <2>1. c.status = "streaming" /\ c.seq = 0
    BY DEF NewCard
  <2>2. segs' = Append(segs, c) /\ ctl' = Append(ctl, NewController)
    BY <1>5 DEF LateSend
  <2> HIDE DEF c
  <2>3. WritesInv'
    BY <1>1, <1>2, <2>1, <2>2, CardAppears
  <2>4. segs \in Seq(CardType) /\ segs' \in Seq(CardType)
    BY DEF TypeOK
  <2>5. \A i \in Cards : segs'[i] = segs[i]
    BY <2>2, <2>4 DEF Cards
  <2> QED
    BY <2>3, <2>5 DEF Rising
<1> QED
  BY <1>3, <1>4, <1>5 DEF LateCall, LatePost

LEMMA ShutDownWrites ==
  ASSUME TypeOK, TypeOK', WritesInv, ShutDown \/ Expire
  PROVE  WritesInv'
<1> DEFINE r(x) == [Idle EXCEPT !.op = "shutdown", !.pc = "fin.enter",
                                !.out = "stopped", !.text = x]
           q == [Idle EXCEPT !.op = "expire", !.pc = "ex.lock"]
<1>1. (\A x : r(x).pc \notin Special) /\ q.pc \notin Special
  BY DEF Idle, Special
<1>2. Go("closer", r(Terminal(""))) \/ Go("expirer", q)
  BY DEF ShutDown, Expire
<1> HIDE DEF r, q
<1>3. \E t \in Tasks : Settled(t)
  BY <1>1, <1>2, GoSettled, TaskNames
<1> QED
  BY <1>3, UnchangedStSettled, UnchangedCtlSettled, Frame DEF ShutDown, Expire

-----------------------------------------------------------------------------
(* The flush task *)

LEMMA FlushedKept ==
  ASSUME NEW c \in Controllers
  PROVE  Flushed(c).state # "write"
BY DEF Flushed, Controllers

LEMMA FlushFireWrites ==
  ASSUME TypeOK, TypeOK', WritesInv, NEW i \in 1..Len(ctl), FlushFire(i)
  PROVE  WritesInv'
<1> DEFINE c == [ctl[i] EXCEPT !.state = "inflight"]
           d == Flushed(ctl[i])
<1>1. ctl[i] \in Controllers /\ ctl \in Seq(Controllers)
  BY ElementType DEF TypeOK
<1>2. c.state # "write" /\ d.state # "write"
  BY <1>1, FlushedKept DEF Controllers
<1>3. ctl' = [ctl EXCEPT ![i] = c] \/ ctl' = [ctl EXCEPT ![i] = d]
  BY DEF FlushFire
<1> HIDE DEF c, d
<1>4. CtlSettled
  BY <1>1, <1>2, <1>3 DEF CtlSettled
<1> QED
  BY <1>4, UnchangedStSettled, NoTaskStep DEF FlushFire

LEMMA FlushLockedWrites ==
  ASSUME TypeOK, TypeOK', WritesInv, NEW i \in 1..Len(ctl), FlushLocked(i)
  PROVE  WritesInv'
<1> DEFINE c == [ctl[i] EXCEPT !.state = "write", !.text = st.content]
           d == Flushed(ctl[i])
<1>1. ctl[i] \in Controllers /\ ctl \in Seq(Controllers)
  BY ElementType DEF TypeOK
<1>2. UNCHANGED <<st, segs, task>> /\ lock = NoTask
  BY DEF FlushLocked, MayLock
<1>3. CASE ctl' = [ctl EXCEPT ![i] = d] /\ UNCHANGED lock
  <2>1. d.state # "write"
    BY <1>1, FlushedKept
  <2> HIDE DEF d
  <2>2. CtlSettled
    BY <1>1, <1>3, <2>1 DEF CtlSettled
  <2> QED
    BY <1>2, <1>3, <2>2, UnchangedStSettled, NoTaskStep
<1>4. CASE /\ st.open /\ ~st.closed
           /\ st.content # st.flushed \/ st.pending
           /\ ctl' = [ctl EXCEPT ![i] = c] /\ lock' = "flush"
  <2>1. c.text = st.content
    BY <1>1 DEF Controllers
  <2> HIDE DEF c
  <2>2. \A j \in 1..Len(ctl') : j \in 1..Len(ctl)
                              /\ ctl'[j] = IF j = i THEN c ELSE ctl[j]
    BY <1>1, <1>4
  <2>3. \A j \in 1..Len(ctl) : ~Flushing(j)
    BY <1>2, Alone, TaskNames
  <2>4. \A j \in 1..Len(ctl') : Flushing(j)' => j = i /\ ctl'[j] = c
    BY <2>2, <2>3 DEF Flushing
  <2>5. \A u \in Tasks : ~Writing(u)' /\ task'[u].pc # "rt.write"
    BY <1>2, Alone DEF Writing
  <2>6. WriterHasLock'
    BY <1>4, <2>4, <2>5 DEF WriterHasLock
  <2>7. CurrentStreams'
    BY <1>2, <1>4 DEF WritesInv, CurrentStreams, Cards
  <2>8. SequenceAhead'
    BY <1>2, <1>4, <2>1, <2>4, <2>5
       DEF WritesInv, SequenceAhead, Cards, Writing
  <2>9. PublishedIsFresh'
    BY <1>2 DEF WritesInv, PublishedIsFresh, Publishing, Cards
  <2>10. LateIsBehind'
    BY <1>2 DEF WritesInv, LateIsBehind, Publishing, Cards
  <2> QED
    BY <2>6, <2>7, <2>8, <2>9, <2>10 DEF WritesInv
<1> QED
  BY <1>3, <1>4 DEF FlushLocked, TypeOK, States

LEMMA FlushWriteWrites ==
  ASSUME TypeOK, TypeOK', WritesInv, NEW i \in 1..Len(ctl), FlushWrite(i)
  PROVE  WritesInv' /\ Rising
<1> DEFINE text == ctl[i].text
           full == st.phase = "thinking" \/ st.pending
           changed == text # st.flushed
           g == [st EXCEPT !.seq = @ + 1, !.phase = "generating",
                           !.pending = FALSE]
           s == IF full THEN g ELSE st
           drawn == [segs[st.cur] EXCEPT !.status = "streaming", !.text = text,
                                         !.tool = st.tool, !.seq = s.seq]
           card == IF full THEN drawn ELSE segs[st.cur]
           n == s.seq + 1
           last == [card EXCEPT !.text = text, !.seq = n]
           done == [s EXCEPT !.flushed = text, !.seq = n]
           one == [st EXCEPT !.seq = @ + 1]
           two == [s EXCEPT !.seq = n]
           c(o) == [ctl EXCEPT ![st.cur] = ControllerAfterFailure(@, o)]
<1>1. PICK o :
        /\ \/ /\ changed /\ st' = done
              /\ segs' = [segs EXCEPT ![st.cur] = last]
           \/ ~changed /\ st' = s /\ segs' = [segs EXCEPT ![st.cur] = card]
           \/ UNCHANGED segs /\ st' = AfterFailure(one, o, TRUE)
           \/ segs' = [segs EXCEPT ![st.cur] = card]
              /\ st' = AfterFailure(two, o, FALSE)
        /\ \/ ctl' = [ctl EXCEPT ![i] = Flushed(@)]
           \/ ctl' = [c(o) EXCEPT ![i] = Flushed(@)]
  <2>1. PICK o :
          /\ \/ /\ segs' = [segs EXCEPT ![st.cur] =
                              IF changed THEN last ELSE card]
                /\ st' = IF changed THEN done ELSE s
             \/ UNCHANGED segs /\ st' = AfterFailure(one, o, TRUE)
             \/ segs' = [segs EXCEPT ![st.cur] = card]
                /\ st' = AfterFailure(two, o, FALSE)
          /\ ctl' = IF o = "ok" THEN [ctl EXCEPT ![i] = Flushed(@)]
                    ELSE [c(o) EXCEPT ![i] = Flushed(@)]
    BY DEF FlushWrite
  <2> HIDE DEF last, card, done, s, one, two, c, changed
  <2>2. CASE changed
    BY <2>1, <2>2
  <2>3. CASE ~changed
    BY <2>1, <2>3
  <2> QED
    BY <2>2, <2>3
<1>2. UNCHANGED task /\ lock' = NoTask /\ Flushing(i)
  BY DEF FlushWrite, Flushing
<1>3. ctl \in Seq(Controllers) /\ st \in States /\ segs \in Seq(CardType)
  BY DEF TypeOK
<1>4. st.cur \in Nat /\ st.seq \in Nat
  BY <1>3 DEF States
<1>5. InFlight /\ lock = "flush"
  BY <1>2 DEF InFlight, WritesInv, WriterHasLock
<1>6. changed \/ full
  BY <1>2 DEF WritesInv, SequenceAhead
<1>7. CtlSettled /\ (i \in 1..Len(ctl') => ~Flushing(i)')
  <2>1. ASSUME ctl' = [ctl EXCEPT ![i] = Flushed(@)]
        PROVE  CtlSettled /\ ~Flushing(i)'
    <3> DEFINE e == Flushed(ctl[i])
    <3>1. e.state # "write"
      BY <1>3, ElementType, FlushedKept
    <3>2. ctl' = [ctl EXCEPT ![i] = e]
      BY <2>1
    <3> HIDE DEF e
    <3> QED
      BY <1>3, <3>1, <3>2 DEF CtlSettled, Flushing
  <2>2. ASSUME ctl' = [c(o) EXCEPT ![i] = Flushed(@)]
        PROVE  CtlSettled /\ ~Flushing(i)'
    <3> DEFINE f == ControllerAfterFailure(ctl[st.cur], o)
               e == Flushed(c(o)[i])
    <3>1. st.cur \in 1..Len(ctl) =>
            /\ f \in Controllers
            /\ f.state = "write" => ctl[st.cur].state = "write"
            /\ f.text = ctl[st.cur].text
      BY <1>3, ElementType, ControllerAfterFailureType, ControllerKept
         DEF ControllerAfterFailure
    <3>2. c(o) = [ctl EXCEPT ![st.cur] = f]
      OBVIOUS
    <3> HIDE DEF f, c
    <3>3. c(o)[i] \in Controllers
      BY <1>3, <3>1, <3>2, ElementType
    <3>4. e.state # "write"
      BY <3>3, FlushedKept
    <3>5. ctl' = [c(o) EXCEPT ![i] = e]
      BY <2>2
    <3> HIDE DEF e
    <3> QED
      BY <1>3, <1>4, <3>1, <3>2, <3>4, <3>5 DEF CtlSettled, Flushing
  <2> QED
    BY <1>1, <2>1, <2>2
<1>8. lock # NoTask /\ \A u \in Tasks : task'[u].pc \in Special =>
         task'[u] = task[u] /\ u # lock
  BY <1>2, <1>5, TaskNames
<1>9. g.cur = st.cur /\ g.seq = st.seq + 1 /\ one.cur = st.cur
      /\ one.seq = st.seq + 1 /\ g \in States /\ one \in States
  <2> DEFINE m == st.seq + 1
  <2>1. m \in Nat
    BY <1>4
  <2>2. g = [st EXCEPT !.seq = m, !.phase = "generating", !.pending = FALSE]
        /\ one = [st EXCEPT !.seq = m]
    OBVIOUS
  <2> HIDE DEF m, g, one
  <2>3. g.cur = st.cur /\ g.seq = m /\ one.cur = st.cur /\ one.seq = m
        /\ g \in States /\ one \in States
    BY <1>3, <2>1, <2>2 DEF States, Phases
  <2> QED
    BY <2>3 DEF m
<1> HIDE DEF text, g, one, changed, full, c
<1>10. /\ s.cur = st.cur /\ s \in States /\ s.seq \in Nat
       /\ full => s.seq = st.seq + 1
       /\ ~full => s.seq = st.seq
  <2>1. CASE full
    BY <1>4, <1>9, <2>1
  <2>2. CASE ~full
    BY <1>3, <1>4, <2>2
  <2> QED
    BY <2>1, <2>2
<1>11. st.cur \in Cards =>
          /\ segs[st.cur] \in CardType
          /\ Uncancelled => segs[st.cur].status = "streaming"
          /\ segs[st.cur].seq <= st.seq
          /\ segs[st.cur].seq \in Nat
  <2>1. \A j \in Cards : segs[j] \in CardType
    BY <1>3, ElementType DEF Cards
  <2> QED
    BY <1>5, <2>1, SequenceTypes DEF WritesInv, SequenceAhead, CurrentStreams
<1>12. st.cur \in Cards =>
          /\ drawn.seq = s.seq /\ drawn.status = "streaming"
          /\ last.seq = n /\ (Uncancelled => last.status = "streaming")
  <2>1. ASSUME st.cur \in Cards
        PROVE  /\ drawn.seq = s.seq /\ drawn.status = "streaming"
               /\ last.seq = n /\ (Uncancelled => last.status = "streaming")
    <3> HIDE DEF s, n
    <3>1. drawn.seq = s.seq /\ drawn.status = "streaming"
          /\ DOMAIN drawn = DOMAIN segs[st.cur]
      BY <1>11, <2>1 DEF CardType
    <3> HIDE DEF drawn
    <3>2. /\ Uncancelled => card.status = "streaming"
          /\ DOMAIN card = DOMAIN segs[st.cur]
      BY <1>11, <2>1, <3>1
    <3>3. DOMAIN segs[st.cur] = {"status", "text", "tool", "anchor", "seq"}
      BY <1>11, <2>1 DEF CardType
    <3> HIDE DEF card
    <3>4. last.seq = n /\ (Uncancelled => last.status = "streaming")
      BY <3>2, <3>3
    <3> QED
      BY <3>1, <3>4
  <2> QED
    BY <2>1
<1>13. done.cur = st.cur /\ done.seq = n /\ two.cur = st.cur /\ two.seq = n
       /\ two \in States /\ n \in Nat /\ n = s.seq + 1
  <2>1. n \in Nat
    BY <1>10
  <2> HIDE DEF n, s
  <2>2. done.cur = st.cur /\ done.seq = n /\ two.cur = st.cur /\ two.seq = n
        /\ two \in States
    BY <1>10, <2>1 DEF States
  <2> QED
    BY <2>1, <2>2 DEF n
<1>14. ~full => segs = [segs EXCEPT ![st.cur] = card]
  BY <1>3
<1>15. full => card = drawn
  OBVIOUS
<1> HIDE DEF s, drawn, card, n, last, done, two
<1>16. CASE changed /\ st' = done /\ segs' = [segs EXCEPT ![st.cur] = last]
  <2>1. n > st.seq
    BY <1>4, <1>10, <1>13
  <2>2. st'.cur = st.cur /\ st'.seq >= st.seq
    BY <1>4, <1>13, <1>16, <2>1
  <2>3. st.cur \in Cards =>
          /\ segs[st.cur].seq < last.seq /\ last.seq <= st'.seq
          /\ Uncancelled => last.status = "streaming"
    BY <1>4, <1>11, <1>12, <1>13, <1>16, <2>1
  <2> QED
    BY <1>2, <1>5, <1>7, <1>8, <1>16, <2>2, <2>3, WriteEnds
<1>17. CASE /\ segs' = [segs EXCEPT ![st.cur] = card]
            /\ \/ st' = s
               \/ st' = AfterFailure(two, o, FALSE)
  <2>1. /\ st'.cur = st.cur /\ st'.seq >= st.seq
        /\ full => st'.seq >= st.seq + 1
    <3>1. /\ AfterFailure(two, o, FALSE).cur = two.cur
          /\ AfterFailure(two, o, FALSE).seq = two.seq
      BY <1>13, FailureState
    <3>2. st'.cur = st.cur /\ (st'.seq = s.seq \/ st'.seq = s.seq + 1)
      BY <1>10, <1>13, <1>17, <3>1
    <3> QED
      BY <1>4, <1>10, <3>2
  <2>2. CASE ~full
    <3>1. UNCHANGED segs
      BY <1>14, <1>17, <2>2
    <3> QED
      BY <1>2, <1>5, <1>7, <1>8, <2>1, <3>1, WriteEnds
  <2>3. CASE full
    <3>1. segs' = [segs EXCEPT ![st.cur] = drawn]
      BY <1>15, <1>17, <2>3
    <3>2. st.cur \in Cards =>
            /\ segs[st.cur].seq < drawn.seq /\ drawn.seq <= st'.seq
            /\ drawn.status = "streaming"
      BY <1>4, <1>10, <1>11, <1>12, <2>1, <2>3
    <3> QED
      BY <1>2, <1>5, <1>7, <1>8, <2>1, <3>1, <3>2, WriteEnds
  <2> QED
    BY <2>2, <2>3
<1>18. CASE UNCHANGED segs /\ st' = AfterFailure(one, o, TRUE)
  <2>1. st'.cur = st.cur /\ st'.seq >= st.seq
    <3>1. one \in States
      BY <1>9
    <3>2. /\ AfterFailure(one, o, TRUE).cur = one.cur
          /\ AfterFailure(one, o, TRUE).seq = one.seq
      BY <3>1, FailureState
    <3>3. st'.cur = st.cur /\ st'.seq = st.seq + 1
      BY <1>9, <1>18, <3>2
    <3> QED
      BY <1>4, <3>3
  <2> QED
    BY <1>2, <1>5, <1>7, <1>8, <1>18, <2>1, WriteEnds
<1> QED
  BY <1>1, <1>16, <1>17, <1>18

-----------------------------------------------------------------------------
(* The theorems *)

LEMMA InitWrites == Init => WritesInv
<1> SUFFICES ASSUME Init
             PROVE  WritesInv
  OBVIOUS
<1>1. \A t \in Tasks : task[t].pc = "idle"
  BY DEF Init, Idle
<1>2. st.cur = 0 /\ Len(segs) = 0 /\ Len(ctl) = 0
  BY DEF Init, NewState
<1>3. Cards = {} /\ 1..Len(ctl) = {}
  BY <1>2 DEF Cards
<1>4. WriterHasLock /\ SequenceAhead
  BY <1>1, <1>3 DEF WriterHasLock, SequenceAhead, Writing
<1>5. CurrentStreams /\ PublishedIsFresh
  BY <1>1, <1>2, <1>3 DEF CurrentStreams, PublishedIsFresh, Publishing
<1>6. LateIsBehind
  BY <1>1 DEF LateIsBehind
<1> QED
  BY <1>4, <1>5, <1>6 DEF WritesInv

LEMMA NextWrites ==
  TypeOK /\ WritesInv /\ [Next]_vars => TypeOK' /\ WritesInv' /\ Rising
<1> SUFFICES ASSUME TypeOK, WritesInv, [Next]_vars
             PROVE  TypeOK' /\ WritesInv' /\ Rising
  OBVIOUS
<1>1. TypeOK'
  BY NextType
<1>2. ASSUME NEW t \in Tasks, Run(t)
      PROVE  WritesInv' /\ Rising
  BY <1>1, <1>2, RunWrites
<1>3. ASSUME NEW t \in Steers, Steer(t) \/ CancelSteer(t) \/ LateCall(t)
      PROVE  WritesInv' /\ Rising
  BY <1>1, <1>3, SteerWrites, CancelSteerWrites, LateCallWrites,
     UnchangedRising DEF Steer
<1>4. ASSUME NEW w \in {"artifact", "approval", "question"}, Boundary(w)
      PROVE  WritesInv' /\ Rising
  BY <1>1, <1>4, BoundaryWrites, UnchangedRising DEF Boundary
<1>5. CASE DispatchStart \/ DispatchContinue \/ Complete
  BY <1>1, <1>5, DispatchWrites, CompleteWrites, UnchangedRising
     DEF DispatchStart, DispatchContinue, Complete
<1>6. CASE StreamDelta \/ FinalAnswer \/ Progress
  BY <1>1, <1>6, ConsumerWrites, UnchangedRising
     DEF StreamDelta, FinalAnswer, Progress
<1>7. CASE ToolUpdate \/ MarkTerminal
  BY <1>1, <1>7, ToolUpdateWrites, MarkTerminalWrites, UnchangedRising
     DEF ToolUpdate, MarkTerminal
<1>8. CASE ShutDown \/ Expire
  BY <1>1, <1>8, ShutDownWrites, UnchangedRising DEF ShutDown, Expire
<1>9. CASE Flush
  BY <1>1, <1>9, FlushFireWrites, FlushLockedWrites, FlushWriteWrites,
     UnchangedRising DEF Flush, FlushFire, FlushLocked
<1>10. CASE Done \/ UNCHANGED vars
  <2>1. UNCHANGED vars
    BY <1>10 DEF Done
  <2> QED
    BY <1>1, <2>1, UnchangedStSettled, UnchangedCtlSettled, UnchangedRising,
       NoTaskStep DEF vars
<1> QED
  BY <1>1, <1>2, <1>3, <1>4, <1>5, <1>6, <1>7, <1>8, <1>9, <1>10 DEF Next

\* While a write to a card is in flight its writer owns state.lock, and the
\* sequence it carries is ahead of the card's; a call that a cancelled steer
\* left in the executor is behind every later one.  Where no steer is cancelled
\* the card that is written still streams.
THEOREM WritesGuarded == Spec => []WritesInv
<1>1. Init => TypeOK /\ WritesInv
  BY InitType, InitWrites
<1>2. TypeOK /\ WritesInv /\ [Next]_vars => (TypeOK /\ WritesInv)'
  BY NextWrites
<1> QED
  BY <1>1, <1>2, PTL DEF Spec

\* Where no steer is cancelled, a card that shows a frozen or terminal state is
\* never written again, whatever coroutines and API failures meet.
THEOREM FrozenStays == Uncancelled => (Spec => FrozenNeverEdited)
<1> SUFFICES ASSUME Uncancelled
             PROVE  Spec => FrozenNeverEdited
  OBVIOUS
<1>1. TypeOK /\ WritesInv /\ [Next]_vars =>
        [\A i \in Cards : segs[i].status # "streaming" => segs'[i] = segs[i]]_segs
  BY NextWrites DEF Rising
<1> QED
  BY <1>1, TypeCorrect, WritesGuarded, PTL DEF Spec, FrozenNeverEdited

\* Every write to a card carries a higher sequence than the one before it, also
\* the late ones of cancelled steers.
THEOREM SequencesRise == Spec => SequenceRises
<1>1. TypeOK /\ WritesInv /\ [Next]_vars =>
        [\A i \in Cards : segs'[i] # segs[i] => segs'[i].seq > segs[i].seq]_segs
  BY NextWrites DEF Rising
<1> QED
  BY <1>1, TypeCorrect, WritesGuarded, PTL DEF Spec, SequenceRises

=============================================================================
