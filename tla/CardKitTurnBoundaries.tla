----------------------- MODULE CardKitTurnBoundaries -----------------------
(***************************************************************************)
(* For every choice of the constants: a turn that was closed leaves no     *)
(* route behind; as long as no steer's task is cancelled, a segment only   *)
(* replaces a frozen one and output is only written to the card below the  *)
(* boundary committed last (CancelSteer breaks these two); and a dispatch  *)
(* that is not steered keeps the acknowledged completion of a tool on its  *)
(* card.                                                                   *)
(***************************************************************************)
EXTENDS CardKitTurnProofs

-----------------------------------------------------------------------------
(* The route of a closed turn *)

\* A closed turn that is still routed; one whose card is gone is left so.
Dangling == st.closed /\ ~st.gone /\ st.routed

\* Whoever closed a turn that is still routed forgets it before anything else
\* runs.
RouteInv == Dangling => cpu \in Tasks /\ task[cpu].pc = "fin.ret"

\* A step leaves these fields of the state alone, or the turn is open, gone or
\* forgotten.
RouteKept ==
  \/ st'.closed = st.closed /\ st'.gone = st.gone /\ st'.routed = st.routed
  \/ ~st'.closed \/ st'.gone \/ ~st'.routed

LEMMA UnchangedKept ==
  ASSUME UNCHANGED st
  PROVE  RouteKept
BY DEF RouteKept

\* Only the step that forgets the turn runs while it dangles.
LEMMA NothingDangles ==
  ASSUME RouteInv
  PROVE  /\ cpu \in {NoTask, "flush"} => ~Dangling
         /\ \A t \in Tasks : \A p : At(t, p) /\ p # "fin.ret" => ~Dangling
<1>1. cpu \in {NoTask, "flush"} => ~Dangling
  BY TaskNames DEF RouteInv
<1>2. ASSUME NEW t \in Tasks, NEW p, At(t, p), p # "fin.ret"
      PROVE  ~Dangling
  BY <1>1, <1>2 DEF RouteInv, At
<1> QED
  BY <1>1, <1>2

LEMMA KeptRoute ==
  ASSUME ~Dangling, RouteKept
  PROVE  RouteInv'
BY DEF Dangling, RouteKept, RouteInv

LEMMA CreateRoute ==
  ASSUME TypeOK, RouteInv, NEW t \in Tasks,
         CreateEntity(t) \/ CreateCheck(t) \/ CreateSend(t) \/ CreateCommit(t)
         \/ RetireWrite(t)
  PROVE  RouteInv'
<1>1. ~Dangling
  BY NothingDangles DEF CreateEntity, CreateCheck, CreateSend, CreateCommit,
     RetireWrite
<1>2. CASE CreateCommit(t)
  <2>1. \A i, u : ~Opened(st, i, u).closed
    BY DEF Opened, NewState
  <2>2. UNCHANGED st \/ \E i, u : st' = Opened(st, i, u)
    BY <1>2 DEF CreateCommit
  <2>3. RouteKept
    BY <2>1, <2>2 DEF RouteKept
  <2> QED
    BY <1>1, <2>3, KeptRoute
<1>3. CASE CreateEntity(t) \/ CreateCheck(t) \/ CreateSend(t) \/ RetireWrite(t)
  BY <1>1, <1>3, UnchangedKept, KeptRoute
     DEF CreateEntity, CreateCheck, CreateSend, RetireWrite
<1> QED
  BY <1>2, <1>3

LEMMA AnchoredRoute ==
  ASSUME NEW s \in States, NEW a, NEW why
  PROVE  /\ Anchored(s, a, why).closed = s.closed
         /\ Anchored(s, a, why).gone = s.gone
         /\ Anchored(s, a, why).routed = s.routed
         /\ Anchored(s, a, why).cur = s.cur
         /\ Anchored(s, a, why).open = s.open
         /\ a \in Nat => Anchored(s, a, why).anchor = a
BY DEF Anchored, States

LEMMA SuspendRoute ==
  ASSUME TypeOK, RouteInv, NEW t \in Tasks,
         Drain(t) \/ SuspendLocked(t) \/ SuspendWrite(t)
  PROVE  RouteInv'
<1> USE DEF RouteKept
<1>1. ~Dangling
  BY NothingDangles DEF Drain, SuspendLocked, SuspendWrite
<1>2. CASE Drain(t)
  BY <1>1, <1>2, UnchangedKept, KeptRoute DEF Drain
<1>3. CASE SuspendLocked(t)
  <2> DEFINE s == Anchored(st, task[t].want, task[t].why)
  <2>1. s.closed = st.closed /\ s.gone = st.gone /\ s.routed = st.routed
    BY AnchoredRoute DEF TypeOK
  <2>2. s \in States
    BY AnchoredType DEF TypeOK, Coroutines
  <2> HIDE DEF s
  <2>3. \/ UNCHANGED st \/ st' = s
        \/ \E x : st' = [s EXCEPT !.tool = x]
    BY <1>3 DEF SuspendLocked, s
  <2>4. RouteKept
    BY <2>1, <2>2, <2>3 DEF States
  <2> QED
    BY <1>1, <2>4, KeptRoute
<1>4. CASE SuspendWrite(t)
  <2> DEFINE frozen == IF task[t].why \in {"steer", "artifact"}
                       THEN "continued" ELSE "waiting"
             s == Frozen(st, frozen)
  <2>1. s.closed = st.closed /\ s.gone = st.gone /\ s.routed = st.routed
    BY DEF TypeOK, States, Frozen
  <2>2. s \in States /\ st \in States
    BY FrozenType DEF TypeOK, Phases
  <2> HIDE DEF s
  <2>3. \/ st' = s
        \/ st' = [Unavailable(st) EXCEPT !.seq = @ + 1]
        \/ st' = [Unavailable(s) EXCEPT !.phase = frozen]
    BY <1>4 DEF SuspendWrite, s, Outcome
  <2>4. RouteKept
    BY <2>1, <2>2, <2>3 DEF States, Unavailable
  <2> QED
    BY <1>1, <2>4, KeptRoute
<1> QED
  BY <1>2, <1>3, <1>4

LEMMA ResumeRoute ==
  ASSUME TypeOK, RouteInv, NEW t \in Tasks,
         ResumeEnter(t) \/ ResumeOk(t) \/ ResumeEnd(t)
  PROVE  RouteInv'
<1>1. ~Dangling
  BY NothingDangles DEF ResumeEnter, ResumeOk, ResumeEnd
<1>2. RouteKept
  BY DEF ResumeEnter, ResumeOk, ResumeEnd, RouteKept, TypeOK, States
<1> QED
  BY <1>1, <1>2, KeptRoute

LEMMA SteerRoute ==
  ASSUME TypeOK, RouteInv, NEW t \in Tasks,
         SteerBegin(t) \/ SteerEnd(t) \/ SteerNext(t) \/ SteerSilent(t)
  PROVE  RouteInv'
<1>1. ~Dangling
  BY NothingDangles DEF SteerBegin, SteerEnd, SteerNext, SteerSilent
<1>2. CASE SteerBegin(t)
  <2> DEFINE s == [st EXCEPT !.trans = TRUE]
  <2>1. /\ s \in States
        /\ s.closed = st.closed /\ s.gone = st.gone /\ s.routed = st.routed
    BY DEF TypeOK, States
  <2> HIDE DEF s
  <2>2. st' = s \/ \E a : st' = Anchored(s, a, "steer")
    BY <1>2 DEF SteerBegin, s
  <2>3. RouteKept
    BY <2>1, <2>2, AnchoredRoute DEF RouteKept
  <2> QED
    BY <1>1, <2>3, KeptRoute
<1>3. CASE SteerEnd(t)
  <2>1. \E x, y, z, w : st' = [TransitionOver(st, x) EXCEPT
                                 !.pending = y, !.reason = z, !.active = w]
    BY <1>3 DEF SteerEnd
  <2>2. RouteKept
    BY <2>1 DEF TransitionOver, RouteKept, TypeOK, States
  <2> QED
    BY <1>1, <2>2, KeptRoute
<1>4. CASE SteerNext(t) \/ SteerSilent(t)
  BY <1>1, <1>4, UnchangedKept, KeptRoute DEF SteerNext, SteerSilent
<1> QED
  BY <1>2, <1>3, <1>4

LEMMA OutputRoute ==
  ASSUME TypeOK, RouteInv, NEW t \in Tasks,
         OutputBegin(t) \/ OutputCommit(t) \/ FallbackWrite(t)
  PROVE  RouteInv'
<1>1. ~Dangling
  BY NothingDangles DEF OutputBegin, OutputCommit, FallbackWrite
<1>2. CASE OutputBegin(t)
  BY <1>1, <1>2, UnchangedKept, KeptRoute DEF OutputBegin
<1>3. CASE OutputCommit(t)
  <2>1. UNCHANGED st \/ (\E x : st' = [st EXCEPT !.pending = x])
        \/ (\E x : st' = [st EXCEPT !.content = x])
    BY <1>3 DEF OutputCommit
  <2>2. RouteKept
    BY <2>1 DEF RouteKept, TypeOK, States
  <2> QED
    BY <1>1, <2>2, KeptRoute
<1>4. CASE FallbackWrite(t)
  <2> DEFINE r == task[t]
             final == r.ret = "fin.ret"
             new == [st EXCEPT
                       !.fb = IF r.ref = 0 THEN Len(posts') ELSE @,
                       !.content = r.text, !.closed = @ \/ final,
                       !.phase = IF final THEN r.out ELSE @,
                       !.routed = @ /\ ~final]
  <2>1. UNCHANGED st \/ st' = new
    BY <1>4 DEF FallbackWrite
  <2>2. /\ new.closed = (st.closed \/ final)
        /\ new.routed = (st.routed /\ ~final)
        /\ new.gone = st.gone
    BY DEF TypeOK, States
  <2> HIDE DEF new, final
  <2>3. RouteKept
    BY <2>1, <2>2 DEF RouteKept
  <2> QED
    BY <1>1, <2>3, KeptRoute
<1> QED
  BY <1>2, <1>3, <1>4

LEMMA FinalizeRoute ==
  ASSUME TypeOK, RouteInv, NEW t \in Tasks,
         FinalizeEnter(t) \/ FinalizeLocked(t)
  PROVE  RouteInv'
<1>1. ~Dangling
  BY NothingDangles DEF FinalizeEnter, FinalizeLocked
<1>2. UNCHANGED st \/ \E x, y : st' = [st EXCEPT !.content = x, !.defTerm = y]
  <2>1. CASE FinalizeEnter(t)
    BY <2>1 DEF FinalizeEnter
  <2>2. CASE FinalizeLocked(t)
    <3> DEFINE x == Terminal(task[t].text)
    <3>1. UNCHANGED st \/ st' = [st EXCEPT !.content = x]
      BY <2>2 DEF FinalizeLocked
    <3> HIDE DEF x
    <3>2. [st EXCEPT !.content = x]
            = [st EXCEPT !.content = x, !.defTerm = st.defTerm]
      BY DEF TypeOK, States
    <3> QED
      BY <3>1, <3>2
  <2> QED
    BY <2>1, <2>2
<1>3. RouteKept
  BY <1>2 DEF RouteKept, TypeOK, States
<1> QED
  BY <1>1, <1>3, KeptRoute

\* A terminal write goes on to forget the turn without suspending.
LEMMA FinalizeWriteRoute ==
  ASSUME TypeOK, NEW t \in Tasks, FinalizeWrite(t)
  PROVE  RouteInv'
<1>1. PICK ok : Go(t, [To(t, "fin.ret") EXCEPT !.res = ok])
  BY DEF FinalizeWrite, Finalized
<1>2. /\ task' = [task EXCEPT ![t] = [To(t, "fin.ret") EXCEPT !.res = ok]]
      /\ [To(t, "fin.ret") EXCEPT !.res = ok].pc = "fin.ret"
      /\ task \in [Tasks -> Coroutines]
  BY <1>1 DEF Go, To, TypeOK, Coroutines
<1>3. cpu' = t
  BY <1>1, <1>2 DEF Go, Continues, Inline
<1> QED
  BY <1>2, <1>3 DEF RouteInv

LEMMA FinalizeReturnRoute ==
  ASSUME TypeOK, NEW t \in Tasks, FinalizeReturn(t)
  PROVE  RouteInv'
<1>1. ~Forgotten(st).routed
  BY DEF Forgotten, TypeOK, States
<1>2. st' = Forgotten(st) \/ (st' = st /\ ~st.closed)
  BY DEF FinalizeReturn
<1> QED
  BY <1>1, <1>2 DEF RouteInv, Dangling

\* States that differ only in what a write to a card changes.
Alike(s) ==
  /\ s \in States
  /\ s.cur = st.cur /\ s.open = st.open /\ s.anchor = st.anchor
  /\ s.closed = st.closed /\ s.gone = st.gone /\ s.routed = st.routed

\* A failed write leaves the turn as it was, or finds its card gone.
LEMMA FailureAlike ==
  ASSUME NEW s, Alike(s), NEW o, NEW full, st' = AfterFailure(s, o, full)
  PROVE  /\ RouteKept
         /\ st'.cur = st.cur /\ st'.open = st.open /\ st'.anchor = st.anchor
         /\ st.closed => st'.closed
<1> USE DEF Alike, RouteKept
<1>1. CASE o = "gone"
  BY <1>1 DEF AfterFailure, Unavailable, States
<1>2. CASE o = "transient"
  BY <1>2 DEF AfterFailure, States
<1>3. CASE o \notin {"gone", "transient"}
  <2>1. AfterFailure(s, o, full) = [s EXCEPT !.disabled = TRUE]
    BY <1>3 DEF AfterFailure
  <2> QED
    BY <2>1 DEF States
<1> QED
  BY <1>1, <1>2, <1>3

LEMMA ToolRoute ==
  ASSUME TypeOK, RouteInv, NEW t \in Tasks,
         ToolCheck(t) \/ ToolCommit(t) \/ ToolWrite(t)
  PROVE  RouteInv'
<1>1. ~Dangling
  BY NothingDangles DEF ToolCheck, ToolCommit, ToolWrite
<1>2. CASE ToolCheck(t)
  <2>1. UNCHANGED st \/ \E x : st' = [st EXCEPT !.defTool = x]
    BY <1>2 DEF ToolCheck
  <2>2. RouteKept
    BY <2>1 DEF RouteKept, TypeOK, States
  <2> QED
    BY <1>1, <2>2, KeptRoute
<1>3. CASE ToolCommit(t)
  <2>1. UNCHANGED st \/ \E x, n : st' = [st EXCEPT !.tool = x, !.seq = n]
    BY <1>3 DEF ToolCommit
  <2>2. RouteKept
    BY <2>1 DEF RouteKept, TypeOK, States
  <2> QED
    BY <1>1, <2>2, KeptRoute
<1>4. CASE ToolWrite(t)
  <2>1. \/ \E x, y : st' = [st EXCEPT !.pending = x, !.phase = y]
        \/ \E o : st' = AfterFailure(st, o, TRUE)
    BY <1>4 DEF ToolWrite
  <2>2. ASSUME NEW x, NEW y, st' = [st EXCEPT !.pending = x, !.phase = y]
        PROVE  RouteKept
    BY <2>2 DEF RouteKept, TypeOK, States
  <2>3. ASSUME NEW o, st' = AfterFailure(st, o, TRUE)
        PROVE  RouteKept
    <3>1. Alike(st)
      BY DEF Alike, TypeOK
    <3> QED
      BY <2>3, <3>1, FailureAlike
  <2> QED
    BY <1>1, <2>1, <2>2, <2>3, KeptRoute
<1> QED
  BY <1>2, <1>3, <1>4

LEMMA AdoptRoute ==
  ASSUME TypeOK, RouteInv, NEW t \in Tasks, Adopt(t) \/ ExpireLocked(t)
  PROVE  RouteInv'
<1>1. ~Dangling
  BY NothingDangles DEF Adopt, ExpireLocked
<1>2. CASE Adopt(t)
  <2>1. RouteKept
    BY <1>2 DEF Adopt, RouteKept, TypeOK, States
  <2> QED
    BY <1>1, <2>1, KeptRoute
<1>3. CASE ExpireLocked(t)
  BY <1>3 DEF ExpireLocked, RouteInv, Dangling, TypeOK, States
<1> QED
  BY <1>2, <1>3

LEMMA RunRoute ==
  ASSUME TypeOK, RouteInv, NEW t \in Tasks, Run(t)
  PROVE  RouteInv'
BY CreateRoute, SuspendRoute, ResumeRoute, SteerRoute, OutputRoute,
   FinalizeRoute, FinalizeWriteRoute, FinalizeReturnRoute, ToolRoute, AdoptRoute
   DEF Run

\* What completion does to the state when the dispatch ends as e.
CompleteAs(e) ==
  LET out == CASE e = "success" -> "complete" [] e = "failure" -> "error"
               [] e = "cancelled" -> "stopped"
      close == ~st.closed /\ (st.reason = "artifact" \/ e # "success")
      s == IF close THEN ClosedBy(st, out) ELSE st
  IN  st' = st \/ st' = IF ~st.routed THEN st
                       ELSE IF st.open \/ s.closed THEN Forgotten(s) ELSE s

LEMMA CompleteRoute ==
  ASSUME TypeOK, RouteInv, Complete
  PROVE  RouteInv'
<1>1. ~Dangling
  BY NothingDangles DEF Complete, Free
<1>2. \A s \in States : ~Forgotten(s).routed
  BY DEF Forgotten, States
<1>3. PICK e \in Endings : CompleteAs(e)
  BY DEF Complete, CompleteAs
<1> DEFINE out == CASE e = "success" -> "complete" [] e = "failure" -> "error"
                    [] e = "cancelled" -> "stopped"
           close == ~st.closed /\ (st.reason = "artifact" \/ e # "success")
           s == IF close THEN ClosedBy(st, out) ELSE st
<1>4. s \in States
  <2>1. out \in Phases
    BY ChoicesAssumption DEF Phases, Outs
  <2> HIDE DEF out
  <2> QED
    BY <2>1, ClosedByType DEF TypeOK
<1> HIDE DEF s
<1>5. st' = st \/ st' = Forgotten(s) \/ (st' = s /\ ~s.closed)
  BY <1>3 DEF CompleteAs, s
<1>6. RouteKept
  BY <1>2, <1>4, <1>5 DEF RouteKept
<1> QED
  BY <1>1, <1>6, KeptRoute

\* What the write of a flush does to the state.
LEMMA FlushWriteState ==
  ASSUME TypeOK, NEW i \in 1..Len(ctl), FlushWrite(i)
  PROVE  /\ RouteKept
         /\ st'.cur = st.cur /\ st'.open = st.open /\ st'.anchor = st.anchor
         /\ st.closed => st'.closed
<1> DEFINE text == ctl[i].text
           full == st.phase = "thinking" \/ st.pending
           m == st.seq + 1
           g == [st EXCEPT !.seq = m, !.phase = "generating", !.pending = FALSE]
           s == IF full THEN [st EXCEPT !.seq = @ + 1, !.phase = "generating",
                                        !.pending = FALSE]
                ELSE st
           n == s.seq + 1
           done == [s EXCEPT !.flushed = text, !.seq = n]
           one == [st EXCEPT !.seq = @ + 1]
           two == [s EXCEPT !.seq = n]
<1>1. st \in States /\ m \in Nat
  BY DEF TypeOK, States
<1>2. \E o : \/ st' \in {done, s}
             \/ st' = AfterFailure(one, o, TRUE)
             \/ st' = AfterFailure(two, o, FALSE)
  <2> DEFINE changed == text # st.flushed
  <2>1. \E o : \/ st' = IF changed THEN done ELSE s
               \/ st' = AfterFailure(one, o, TRUE)
               \/ st' = AfterFailure(two, o, FALSE)
    BY DEF FlushWrite
  <2> HIDE DEF done, s, one, two, changed
  <2> QED
    BY <2>1
<1>3. one = [st EXCEPT !.seq = m] /\ (s = g \/ s = st)
  OBVIOUS
<1> HIDE DEF text, full, m, one, s
<1>4. Alike(one) /\ Alike(g) /\ Alike(st)
  BY <1>1, <1>3 DEF Alike, States, Phases
<1>5. Alike(s)
  BY <1>3, <1>4
<1> HIDE DEF g
<1>6. n \in Nat
  BY <1>5 DEF Alike, States
<1> HIDE DEF n
<1>7. Alike(two)
  BY <1>5, <1>6 DEF Alike, States
<1>8. /\ done.cur = st.cur /\ done.open = st.open /\ done.anchor = st.anchor
      /\ done.closed = st.closed /\ done.gone = st.gone
      /\ done.routed = st.routed
  BY <1>5, <1>6 DEF Alike, States
<1> HIDE DEF two, done
<1>9. CASE st' \in {done, s}
  BY <1>5, <1>8, <1>9 DEF Alike, RouteKept
<1> QED
  BY <1>2, <1>4, <1>7, <1>9, FailureAlike

LEMMA FlushRoute ==
  ASSUME TypeOK, RouteInv, Flush
  PROVE  RouteInv'
<1>1. ~Dangling
  BY NothingDangles DEF Flush, FlushFire, FlushLocked, FlushWrite
<1>2. PICK i \in 1..Len(ctl) : FlushFire(i) \/ FlushLocked(i) \/ FlushWrite(i)
  BY DEF Flush
<1>3. CASE FlushFire(i) \/ FlushLocked(i)
  BY <1>1, <1>3, UnchangedKept, KeptRoute DEF FlushFire, FlushLocked
<1>4. CASE FlushWrite(i)
  BY <1>1, <1>4, FlushWriteState, KeptRoute
<1> QED
  BY <1>2, <1>3, <1>4

LEMMA OthersRoute ==
  ASSUME TypeOK, RouteInv,
         \/ DispatchStart \/ DispatchContinue \/ StreamDelta \/ FinalAnswer
         \/ Progress \/ ToolUpdate \/ MarkTerminal \/ ShutDown \/ Expire
         \/ \E t \in Steers : Steer(t) \/ CancelSteer(t)
         \/ \E w \in {"artifact", "approval", "question"} : Boundary(w)
  PROVE  RouteInv'
<1>1. cpu = NoTask
  <2>1. ASSUME NEW t \in Steers, Steer(t) \/ CancelSteer(t)
        PROVE  cpu = NoTask
    BY <2>1 DEF Steer, CancelSteer, Free
  <2>2. ASSUME NEW w \in {"artifact", "approval", "question"}, Boundary(w)
        PROVE  cpu = NoTask
    BY <2>2 DEF Boundary, AgentTurn, Free
  <2>3. DispatchStart \/ DispatchContinue \/ StreamDelta \/ FinalAnswer
        \/ Progress \/ ToolUpdate \/ MarkTerminal \/ ShutDown \/ Expire
        => cpu = NoTask
    BY DEF DispatchStart, DispatchContinue, StreamDelta, FinalAnswer, Progress,
       ToolUpdate, MarkTerminal, ShutDown, Expire, AgentTurn, Free
  <2> QED
    BY <2>1, <2>2, <2>3
<1>2. \/ UNCHANGED st \/ MarkTerminal
      \/ \E t \in Steers : CancelSteer(t)
  BY DEF DispatchStart, DispatchContinue, StreamDelta, FinalAnswer, Progress,
     ToolUpdate, ShutDown, Expire, Steer, Boundary
<1>3. ASSUME NEW t \in Steers, CancelSteer(t)
      PROVE  RouteKept
  <2>1. \/ UNCHANGED st
        \/ \E n : st' = Reserved(st, n)
        \/ \E n : st' = [Reserved(st, n) EXCEPT !.flushed = st.content]
    <3>1. CASE task[t].pc = "sus.write"
      BY <1>3, <3>1 DEF CancelSteer, CancelFreeze
    <3>2. CASE task[t].pc = "fin.write"
      <4>1. CancelFinalize(t)
        BY <1>3, <3>2 DEF CancelSteer
      <4> QED
        BY <4>1 DEF CancelFinalize
    <3>3. CASE task[t].pc = "rt.write"
      BY <1>3, <3>3 DEF CancelSteer, CancelRetire
    <3>4. CASE task[t].pc \in {"cr.send", "fb.call"}
      <4>1. CancelCall(t)
        BY <1>3, <3>4 DEF CancelSteer
      <4> QED
        BY <4>1 DEF CancelCall
    <3>5. CASE task[t].pc \notin {"sus.write", "fin.write", "rt.write",
                                  "cr.send", "fb.call"}
      BY <1>3, <3>5 DEF CancelSteer
    <3> QED
      BY <3>1, <3>2, <3>3, <3>4, <3>5
  <2> QED
    BY <2>1 DEF Reserved, RouteKept, TypeOK, States
<1>4. RouteKept
  BY <1>2, <1>3 DEF MarkTerminal, RouteKept, TypeOK, States
<1> QED
  BY <1>1, <1>4, NothingDangles, KeptRoute

\* Nothing happens to the turn when the call of a cancelled steer ends.
LEMMA LateCallRoute ==
  ASSUME TypeOK, RouteInv, NEW t \in Steers, LateCall(t)
  PROVE  RouteInv'
<1>1. task[t].pc \in LatePcs /\ UNCHANGED <<st, cpu>>
      /\ task' = [task EXCEPT ![t] = Idle]
  BY DEF LateCall, Late, LeavesNothing, Leaves
<1>2. ASSUME Dangling'
      PROVE  cpu \in Tasks /\ task'[cpu].pc = "fin.ret"
  <2>1. cpu \in Tasks /\ task[cpu].pc = "fin.ret"
    BY <1>1, <1>2 DEF RouteInv, Dangling
  <2>2. cpu # t
    BY <1>1, <2>1 DEF LatePcs
  <2> QED
    BY <1>1, <2>1, <2>2 DEF TypeOK
<1> QED
  BY <1>1, <1>2 DEF RouteInv

LEMMA NextRoute == TypeOK /\ RouteInv /\ [Next]_vars => RouteInv'
<1> SUFFICES ASSUME TypeOK, RouteInv, [Next]_vars
             PROVE  RouteInv'
  OBVIOUS
<1>1. CASE \E t \in Tasks : Run(t)
  BY <1>1, RunRoute
<1>2. CASE Complete \/ Flush
  BY <1>2, CompleteRoute, FlushRoute
<1>3. CASE Done \/ UNCHANGED vars
  <2>1. UNCHANGED <<st, cpu, task>>
    BY <1>3 DEF Done, vars
  <2> QED
    BY <2>1 DEF RouteInv, Dangling
<1>4. CASE \E t \in Steers : LateCall(t)
  BY <1>4, LateCallRoute
<1> QED
  BY <1>1, <1>2, <1>3, <1>4, OthersRoute DEF Next

\* A turn that is closed leaves no route behind once nothing is under way,
\* unless its card was found gone: whoever closes it forgets it, whatever
\* failures, cancellations and late writes meet (_forget_cardkit_turn).
THEOREM ClosedTurnForgotten == Spec => []RouteReleased
<1>1. Init => RouteInv
  <2>1. ~NewState.closed
    BY DEF NewState
  <2> QED
    BY <2>1 DEF Init, RouteInv, Dangling
<1>2. RouteInv => RouteReleased
  <2> SUFFICES ASSUME RouteInv, Quiescent, Dangling
               PROVE  FALSE
    BY DEF RouteReleased, Dangling
  <2> QED
    BY DEF RouteInv, Quiescent
<1>3. TypeOK /\ RouteInv /\ [Next]_vars => RouteInv'
  BY NextRoute
<1> QED
  BY <1>1, <1>2, <1>3, TypeCorrect, PTL DEF Spec

-----------------------------------------------------------------------------
(* Where cards and boundaries are *)

Creations == {"cr.entity", "cr.check", "cr.send", "cr.commit"}
Purposed == {"st.begin", "sus.quiet", "sus.lock", "sus.write"}
Outputs == {"fin.write", "tool.write"}

\* A steer may be a synthetic continuation.
Echoes == MayEcho /\ Steers # {}

\* A steer has a message to go below, or takes the boundary it finds when it
\* is accepted (saw marks such a steer).
Aims(r) ==
  r.op \in {"ack", "silent"} \/ r.pc = "st.silent"
    => /\ r.want # 0 \/ r.saw
       /\ r.saw => Echoes

\* What coroutine r relies on in the state s and the cards g: a boundary or
\* continuation has a message to go below; the segment it creates goes below
\* the boundary it was created for; output under way goes to an open segment
\* that no boundary closed off.
Placed(r, s, g) ==
  /\ r.pc \in Purposed => r.want # 0
  /\ Aims(r)
  /\ r.pc \in Creations \cup {"rt.write"}
       => r.ret \in {"st.next", "st.end", "rs.end"}
  /\ r.pc \in Creations /\ r.ret = "st.next" => s.cur = 0
  /\ r.pc \in Creations /\ r.ret # "st.next"
       => s.closed \/ (r.expect # 0 /\ ReplyTo(r) = r.expect)
  /\ r.pc = "cr.commit"
       => r.ref \in 1..Len(g) /\ g[r.ref].anchor = ReplyTo(r)
  /\ r.pc = "sus.write" => s.anchor = r.want
  /\ r.pc \in Outputs => s.cur # 0 /\ s.open /\ s.anchor = 0

\* Until the first segment is committed only the dispatch that creates it runs,
\* for the message committed last.
First(r) ==
  r.pc # "idle" =>
    /\ r.pc \in {"cr.entity", "cr.send", "cr.commit", "st.next"}
    /\ r.ret = "st.next" /\ r.op = "start" /\ r.want = newest

Begins ==
  /\ disp.count = 0 => st.cur = 0 /\ task["runner"].pc = "idle"
  /\ st.cur = 0 =>
       /\ st.open /\ ~st.routed /\ st.anchor = 0
       /\ \A t \in Tasks \ {"runner"} : task[t].pc = "idle"
       /\ First(task["runner"])
       /\ \A i \in 1..Len(ctl) : ctl[i].state = "idle"

AnchorIsNewest == st.anchor # 0 => newest = st.anchor

\* A segment with a boundary below it is frozen, or being frozen.
FrozenAtAnchor ==
  /\ ~st.open /\ ~st.closed => st.anchor # 0
  /\ st.open /\ ~st.closed /\ st.anchor # 0
       => lock \in Tasks /\ task[lock].pc = "sus.write"

OpenBelow ==
  st.cur # 0 /\ st.open /\ st.anchor = 0 => segs[st.cur].anchor = newest

FlushesBelow ==
  \A i \in 1..Len(ctl) : Flushing(i) => st.cur # 0 /\ st.open /\ st.anchor = 0

AllPlaced == \A t \in Tasks : Placed(task[t], st, segs)

\* The inductive invariant of the boundaries.
BoundaryInv ==
  /\ Begins
  /\ AnchorIsNewest
  /\ FrozenAtAnchor
  /\ OpenBelow
  /\ FlushesBelow
  /\ AllPlaced

\* Cards stay where they were published.
AnchorsKept ==
  /\ Len(segs) <= Len(segs')
  /\ \A i \in Cards : segs'[i].anchor = segs[i].anchor

\* No boundary is committed and no segment is opened or frozen.
StCalm ==
  /\ st'.cur = st.cur /\ st'.open = st.open /\ st'.anchor = st.anchor
  /\ st.closed => st'.closed

\* A segment only ever replaces a frozen one of an open turn.
Replaces == st'.cur # st.cur /\ st.cur # 0 => ~st.open /\ ~st.closed

\* Only t moves, to where it may be.
Moves(t) ==
  /\ \A u \in Tasks \ {t} : task'[u] = task[u]
  /\ Placed(task'[t], st', segs')

\* A coroutine that is nowhere special is where it may be.
LEMMA PassingPlaced ==
  ASSUME NEW r, NEW s, NEW g,
         r.pc \notin Creations \cup Purposed \cup Outputs \cup {"rt.write"},
         Aims(r)
  PROVE  Placed(r, s, g)
BY DEF Placed, Aims, Creations, Purposed, Outputs

LEMMA PlacedKept ==
  ASSUME NEW r, NEW s, NEW g, NEW s2, NEW g2, Placed(r, s, g),
         Len(g) \in Nat, Len(g2) \in Nat, Len(g) <= Len(g2),
         \A i \in 1..Len(g) : g2[i].anchor = g[i].anchor,
         r.pc \in Creations => /\ s.closed => s2.closed
                               /\ s.cur # 0 \/ s2.cur = 0,
         r.pc \in Outputs \cup {"sus.write"} =>
           s2.cur = s.cur /\ s2.open = s.open /\ s2.anchor = s.anchor
  PROVE  Placed(r, s2, g2)
BY DEF Placed, Aims, Creations, Purposed, Outputs

\* The steps that commit no boundary and no segment.
LEMMA CalmStep ==
  ASSUME TypeOK, TypeOK', WritesInv, BoundaryInv, st.cur # 0, StCalm,
         AnchorsKept, newest' = newest, disp'.count # 0,
         \A u \in Tasks : task'[u] = task[u] \/ Placed(task'[u], st', segs'),
         lock \in Tasks /\ task[lock].pc = "sus.write"
           => lock' = lock /\ task'[lock] = task[lock],
         CtlSettled \/ (st.open /\ st.anchor = 0)
  PROVE  BoundaryInv' /\ Replaces
<1> USE DEF StCalm
<1>1. Begins'
  BY DEF Begins
<1>2. AnchorIsNewest'
  BY DEF BoundaryInv, AnchorIsNewest
<1>3. FrozenAtAnchor'
  BY DEF BoundaryInv, FrozenAtAnchor
<1>4. OpenBelow'
  <2>1. st.cur \in Cards
    BY SequenceTypes DEF WritesInv, CurrentStreams, Cards, TypeOK
  <2> QED
    BY <2>1 DEF BoundaryInv, OpenBelow, AnchorsKept
<1>5. FlushesBelow'
  BY DEF BoundaryInv, FlushesBelow, CtlSettled, Flushing
<1>6. AllPlaced'
  <2>1. Len(segs) \in Nat /\ Len(segs') \in Nat
    BY DEF TypeOK
  <2>2. ASSUME NEW u \in Tasks, task'[u] = task[u]
        PROVE  Placed(task[u], st', segs')
    <3>1. Placed(task[u], st, segs)
      BY DEF BoundaryInv, AllPlaced
    <3> QED
      BY <2>1, <3>1, PlacedKept DEF AnchorsKept, Cards
  <2> QED
    BY <2>2 DEF AllPlaced
<1> QED
  BY <1>1, <1>2, <1>3, <1>4, <1>5, <1>6 DEF BoundaryInv, Replaces

\* A coroutine that may be anywhere.
Passing(r) ==
  /\ r.pc \notin Creations \cup Purposed \cup Outputs \cup {"rt.write"}
  /\ Aims(r)

LEMMA GoMoves ==
  ASSUME TypeOK, NEW t \in Tasks, NEW r, Go(t, r), Placed(r, st', segs')
  PROVE  Moves(t)
<1>1. task' = [task EXCEPT ![t] = r] /\ task \in [Tasks -> Coroutines]
  BY DEF Go, TypeOK
<1> QED
  BY <1>1 DEF Moves

LEMMA GoPasses ==
  ASSUME TypeOK, NEW t \in Tasks, NEW r, Go(t, r), Passing(r)
  PROVE  Moves(t)
BY GoMoves, PassingPlaced DEF Passing

LEMMA Wants ==
  ASSUME BoundaryInv, NEW t \in Tasks
  PROVE  /\ Aims(task[t])
         /\ task[t].pc \in Purposed => task[t].want # 0
BY DEF BoundaryInv, AllPlaced, Placed

LEMMA ToFields ==
  ASSUME TypeOK, NEW t \in Tasks, NEW p
  PROVE  /\ To(t, p).pc = p /\ To(t, p).op = task[t].op
         /\ To(t, p).want = task[t].want /\ To(t, p).ret = task[t].ret
         /\ To(t, p).saw = task[t].saw
         /\ To(t, p).expect = task[t].expect /\ To(t, p).ref = task[t].ref
BY DEF TypeOK, To, Coroutines

LEMMA ToPasses ==
  ASSUME TypeOK, BoundaryInv, NEW t \in Tasks, NEW p, Go(t, To(t, p)),
         p \notin Creations \cup Purposed \cup Outputs
                    \cup {"rt.write", "st.silent"}
  PROVE  Moves(t)
<1>1. Passing(To(t, p))
  BY ToFields, Wants DEF Passing, Aims
<1> QED
  BY <1>1, GoPasses

LEMMA IdlePasses == Passing(Idle)
BY DEF Passing, Aims, Idle, Creations, Purposed, Outputs

LEMMA FinishMoves ==
  ASSUME TypeOK, BoundaryInv, NEW t \in Tasks, NEW ok, Finish(t, ok)
  PROVE  Moves(t) /\ disp'.count = disp.count
<1>1. CASE task[t].op = "ack"
  <2>1. Placed(To(t, "st.silent"), st', segs')
    BY <1>1, ToFields, Wants DEF Placed, Aims, Creations, Purposed, Outputs
  <2> QED
    BY <1>1, <2>1, GoMoves DEF Finish
<1>2. CASE task[t].op # "ack"
  BY <1>2, IdlePasses, GoPasses DEF Finish, TypeOK, Dispatches
<1> QED
  BY <1>1, <1>2

LEMMA FinalizedMoves ==
  ASSUME TypeOK, BoundaryInv, NEW t \in Tasks, NEW ok, Finalized(t, ok)
  PROVE  Moves(t)
<1> DEFINE r == [To(t, "fin.ret") EXCEPT !.res = ok]
<1>1. r.pc = "fin.ret" /\ r.op = task[t].op /\ r.want = task[t].want
     /\ r.saw = task[t].saw
  BY DEF TypeOK, To, Coroutines
<1> HIDE DEF r
<1>2. Passing(r)
  BY <1>1, Wants DEF Passing, Aims, Creations, Purposed, Outputs
<1> QED
  BY <1>2, GoPasses DEF Finalized, r

\* A creation that is over leaves its coroutine where it was called from.
LEMMA CreatedMoves ==
  ASSUME TypeOK, BoundaryInv, NEW t \in Tasks, NEW ok, Created(t, ok),
         task[t].pc \in Creations \cup {"rt.write"}
  PROVE  Moves(t)
<1> DEFINE p == IF ok /\ task[t].ret = "rs.end" THEN "rs.ok" ELSE task[t].ret
           r == [task[t] EXCEPT !.res = ok, !.pc = p]
<1>1. task[t].ret \in {"st.next", "st.end", "rs.end"}
  BY DEF BoundaryInv, AllPlaced, Placed
<1>2. p \in {"rs.ok", "st.next", "st.end", "rs.end"}
  BY <1>1
<1>3. r.pc = p /\ r.op = task[t].op /\ r.want = task[t].want
     /\ r.saw = task[t].saw
  BY DEF TypeOK, Coroutines
<1> HIDE DEF p, r
<1>4. Passing(r)
  BY <1>2, <1>3, Wants DEF Passing, Aims, Creations, Purposed, Outputs
<1> QED
  BY <1>4, GoPasses DEF Created, p, r

\* A creation begins for a boundary that is the current one.
LEMMA CreateMoves ==
  ASSUME TypeOK, BoundaryInv, NEW t \in Tasks, NEW r \in Coroutines,
         Create(t, r), Aims(r),
         r.ret \in {"st.end", "rs.end"},
         st'.closed \/ (r.expect # 0 /\ ReplyTo(r) = r.expect)
  PROVE  Moves(t)
<1> DEFINE q == [r EXCEPT !.pc = "cr.entity", !.ref = 0]
<1>1. /\ q.pc = "cr.entity" /\ q.op = r.op /\ q.want = r.want /\ q.ret = r.ret
      /\ q.expect = r.expect /\ q.saw = r.saw
  BY DEF Coroutines
<1> HIDE DEF q
<1>2. ReplyTo(q) = ReplyTo(r)
  BY <1>1 DEF ReplyTo
<1>3. Placed(q, st', segs')
  BY <1>1, <1>2 DEF Placed, Aims, Creations, Purposed, Outputs
<1> QED
  BY <1>3, GoMoves DEF Create, q

LEMMA AfterResumeMoves ==
  ASSUME TypeOK, BoundaryInv, NEW t \in Tasks, NEW ok \in BOOLEAN,
         AfterResume(t, ok)
  PROVE  Moves(t) /\ disp'.count = disp.count
<1> DEFINE r == [To(t, "fb.call") EXCEPT !.ref = st.fb, !.expect = st.anchor,
                                         !.ret = "idle"]
<1>1. r.pc = "fb.call" /\ r.op = task[t].op /\ r.want = task[t].want
     /\ r.saw = task[t].saw
  BY DEF TypeOK, To, Coroutines
<1> HIDE DEF r
<1>2. Passing(r)
  BY <1>1, Wants DEF Passing, Aims, Creations, Purposed, Outputs
<1>3. \/ /\ \E p \in {"tool.commit", "tool.check", "fin.enter", "out.commit"} :
                 Go(t, To(t, p))
         /\ UNCHANGED disp
      \/ Go(t, r) /\ UNCHANGED disp
      \/ Finish(t, TRUE)
  BY DEF AfterResume, r
<1>4. \A p \in {"tool.commit", "tool.check", "fin.enter", "out.commit"} :
        p \notin Creations \cup Purposed \cup Outputs \cup {"rt.write"}
  BY DEF Creations, Purposed, Outputs
<1> QED
  BY <1>2, <1>3, <1>4, GoPasses, ToPasses, FinishMoves

\* A coroutine sets out to suspend the segment for a message.
LEMMA SuspendMoves ==
  ASSUME TypeOK, NEW t \in Tasks, NEW r \in Coroutines, Suspend(t, r),
         r.want # 0, Aims(r)
  PROVE  Moves(t)
<1> DEFINE q == [r EXCEPT !.pc = "sus.quiet", !.ref = st.cur]
<1>1. /\ q.pc = "sus.quiet" /\ q.op = r.op /\ q.want = r.want
      /\ q.saw = r.saw
  BY DEF Coroutines
<1> HIDE DEF q
<1>2. Placed(q, st', segs')
  BY <1>1 DEF Placed, Aims, Creations, Purposed, Outputs
<1> QED
  BY <1>2, GoMoves DEF Suspend, q

\* A suspension that is over: a steer goes on to the segment below it.
LEMMA SuspendedMoves ==
  ASSUME TypeOK, BoundaryInv, NEW t \in Tasks, st' \in States, Suspended(t),
         st'.closed \/ st'.anchor = task[t].want, task[t].want # 0
  PROVE  Moves(t) /\ disp'.count = disp.count
<1>1. CASE task[t].ret = "cr.entity"
  <2> DEFINE r == [task[t] EXCEPT !.expect = st'.anchor, !.ret = "st.end"]
  <2>1. r \in Coroutines
    <3>1. task[t] \in Coroutines /\ st'.anchor \in Nat /\ "st.end" \in Returns
      BY DEF TypeOK, States, Returns
    <3> QED
      BY <3>1 DEF Coroutines
  <2>2. /\ r.want = task[t].want /\ r.ret = "st.end" /\ r.expect = st'.anchor
        /\ r.op = task[t].op /\ r.saw = task[t].saw /\ r.pc = task[t].pc
    BY DEF TypeOK, Coroutines
  <2>3. Create(t, r) /\ UNCHANGED disp
    BY <1>1 DEF Suspended
  <2> HIDE DEF r
  <2>4. ReplyTo(r) = r.want
    BY <2>2 DEF ReplyTo
  <2>5. Aims(r)
    <3>1. Aims(task[t])
      BY Wants
    <3> QED
      BY <2>2, <3>1 DEF Aims
  <2> QED
    BY <2>1, <2>2, <2>3, <2>4, <2>5, CreateMoves
<1>2. CASE task[t].ret # "cr.entity"
  BY <1>2, FinishMoves DEF Suspended
<1> QED
  BY <1>1, <1>2

LEMMA UnchangedStCalm ==
  ASSUME UNCHANGED st
  PROVE  StCalm
BY DEF StCalm

LEMMA UnchangedAnchors ==
  ASSUME TypeOK, UNCHANGED segs
  PROVE  AnchorsKept
BY DEF AnchorsKept, TypeOK

\* Beyond the first creation a segment was committed.
LEMMA Begun ==
  ASSUME BoundaryInv, NEW t \in Tasks,
         task[t].pc \notin {"idle", "cr.entity", "cr.send", "cr.commit",
                            "st.next"}
  PROVE  st.cur # 0
BY DEF BoundaryInv, Begins, First

\* A step of t that commits no boundary and no segment.
LEMMA Calm ==
  ASSUME TypeOK, TypeOK', WritesInv, BoundaryInv, NEW t \in Tasks, st.cur # 0,
         StCalm, AnchorsKept, newest' = newest, Moves(t),
         disp'.count = disp.count, CtlSettled,
         lock = lock' \/ lock \in {NoTask, t}, task[t].pc # "sus.write"
  PROVE  BoundaryInv' /\ Replaces
<1>1. disp'.count # 0
  BY DEF BoundaryInv, Begins
<1>2. \A u \in Tasks : task'[u] = task[u] \/ Placed(task'[u], st', segs')
  BY DEF Moves
<1>3. lock \in Tasks /\ task[lock].pc = "sus.write"
        => lock' = lock /\ task'[lock] = task[lock]
  BY TaskNames DEF Moves
<1> QED
  BY <1>1, <1>2, <1>3, CalmStep

\* A step of the dispatch that creates the first segment, before it commits it.
LEMMA FirstStep ==
  ASSUME TypeOK, TypeOK', BoundaryInv, st.cur = 0, UNCHANGED <<st, newest>>,
         AnchorsKept, Moves("runner"), First(task'["runner"]),
         task["runner"].pc # "idle", disp'.count = disp.count,
         \A i \in 1..Len(ctl') : ctl'[i].state = "idle"
  PROVE  BoundaryInv' /\ Replaces
<1>1. Begins'
  <2>1. disp.count # 0
    BY DEF BoundaryInv, Begins
  <2>2. \A t \in Tasks \ {"runner"} : task'[t].pc = "idle"
    BY DEF BoundaryInv, Begins, Moves
  <2> QED
    BY <2>1, <2>2 DEF BoundaryInv, Begins, First
<1>2. AnchorIsNewest' /\ FrozenAtAnchor' /\ OpenBelow' /\ FlushesBelow'
  BY DEF BoundaryInv, Begins, AnchorIsNewest, FrozenAtAnchor, OpenBelow,
     FlushesBelow, Flushing
<1>3. AllPlaced'
  <2>1. Len(segs) \in Nat /\ Len(segs') \in Nat
    BY DEF TypeOK
  <2>2. ASSUME NEW u \in Tasks \ {"runner"}
        PROVE  Placed(task[u], st', segs')
    <3>1. Placed(task[u], st, segs)
      BY DEF BoundaryInv, AllPlaced
    <3> QED
      BY <2>1, <3>1, PlacedKept DEF AnchorsKept, Cards
  <2> QED
    BY <2>2 DEF AllPlaced, Moves
<1> QED
  BY <1>1, <1>2, <1>3 DEF BoundaryInv, Replaces

\* Before the first commit only the runner runs.
LEMMA FirstIsRunner ==
  ASSUME BoundaryInv, NEW t \in Tasks, st.cur = 0, task[t].pc # "idle"
  PROVE  /\ t = "runner" /\ First(task[t])
         /\ \A i \in 1..Len(ctl) : ctl[i].state = "idle"
BY DEF BoundaryInv, Begins

LEMMA FirstGoes ==
  ASSUME TypeOK, NEW t \in Tasks, NEW r, Go(t, r), UNCHANGED newest,
         First(task[t]), task[t].pc # "idle",
         r.pc \in {"cr.send", "cr.commit", "st.next"},
         r.ret = task[t].ret, r.op = task[t].op, r.want = task[t].want
  PROVE  First(task'[t])
<1>1. task'[t] = r
  BY DEF Go, TypeOK
<1> QED
  BY <1>1 DEF First

LEMMA FirstCreated ==
  ASSUME TypeOK, NEW t \in Tasks, NEW ok, Created(t, ok), UNCHANGED newest,
         First(task[t]), task[t].pc # "idle"
  PROVE  First(task'[t])
<1> DEFINE p == IF ok /\ task[t].ret = "rs.end" THEN "rs.ok" ELSE task[t].ret
           r == [task[t] EXCEPT !.res = ok, !.pc = p]
<1>1. /\ r.pc = p /\ r.op = task[t].op /\ r.want = task[t].want
      /\ r.ret = task[t].ret
  BY DEF TypeOK, Coroutines
<1>2. p = "st.next"
  BY DEF First
<1> HIDE DEF p, r
<1> QED
  BY <1>1, <1>2, FirstGoes DEF Created, p, r

-----------------------------------------------------------------------------
(* Creation of a segment *)

LEMMA StaysCreating ==
  ASSUME TypeOK, BoundaryInv, NEW t \in Tasks,
         NEW p \in {"cr.check", "cr.send"},
         Go(t, To(t, p)), task[t].pc \in Creations, UNCHANGED <<st, segs>>
  PROVE  Moves(t)
<1>1. Placed(task[t], st, segs)
  BY DEF BoundaryInv, AllPlaced
<1>2. ReplyTo(To(t, p)) = ReplyTo(task[t])
  BY ToFields DEF ReplyTo
<1>3. Placed(To(t, p), st, segs)
  BY <1>1, <1>2, ToFields DEF Placed, Aims, Creations, Purposed, Outputs
<1> QED
  BY <1>3, GoMoves

LEMMA CreateEntityBoundary ==
  ASSUME TypeOK, TypeOK', WritesInv, BoundaryInv, NEW t \in Tasks,
         CreateEntity(t) \/ CreateCheck(t)
  PROVE  BoundaryInv' /\ Replaces
<1>1. /\ task[t].pc \in {"cr.entity", "cr.check"}
      /\ UNCHANGED <<st, segs, lock, disp, newest, ctl>>
  BY DEF CreateEntity, CreateCheck, At
<1>2. \/ Created(t, FALSE)
      \/ Go(t, To(t, "cr.send"))
      \/ Go(t, To(t, "cr.check")) /\ task[t].ret # "st.next"
  BY DEF CreateEntity, CreateCheck
<1>3. Moves(t)
  BY <1>1, <1>2, CreatedMoves, StaysCreating DEF Creations
<1>4. CASE st.cur # 0
  BY <1>1, <1>3, <1>4, Calm, UnchangedStCalm, UnchangedAnchors,
     UnchangedCtlSettled
<1>5. CASE st.cur = 0
  <2>1. /\ t = "runner" /\ First(task[t]) /\ task[t].pc # "idle"
        /\ \A i \in 1..Len(ctl) : ctl[i].state = "idle"
    BY <1>1, <1>5, FirstIsRunner
  <2>2. Created(t, FALSE) \/ Go(t, To(t, "cr.send"))
    BY <1>2, <2>1 DEF First
  <2>3. First(task'[t])
    <3>1. CASE Created(t, FALSE)
      BY <1>1, <2>1, <3>1, FirstCreated
    <3>2. CASE Go(t, To(t, "cr.send"))
      <4> DEFINE r == To(t, "cr.send")
      <4>1. /\ r.pc = "cr.send" /\ r.ret = task[t].ret /\ r.op = task[t].op
            /\ r.want = task[t].want
        BY ToFields
      <4>2. Go(t, r)
        BY <3>2
      <4> HIDE DEF r
      <4> QED
        BY <1>1, <2>1, <4>1, <4>2, FirstGoes
    <3> QED
      BY <2>2, <3>1, <3>2
  <2> QED
    BY <1>1, <1>3, <1>5, <2>1, <2>3, FirstStep, UnchangedAnchors
<1> QED
  BY <1>4, <1>5

LEMMA CreateSendBoundary ==
  ASSUME TypeOK, TypeOK', WritesInv, BoundaryInv, NEW t \in Tasks, CreateSend(t)
  PROVE  BoundaryInv' /\ Replaces
<1> DEFINE card == NewCard(ReplyTo(task[t]))
           n == Len(segs')
           r == [To(t, "cr.commit") EXCEPT !.ref = n]
<1>1. task[t].pc = "cr.send" /\ UNCHANGED <<st, lock, disp, newest>>
  BY DEF CreateSend, At
<1>2. \/ Created(t, FALSE) /\ UNCHANGED <<segs, ctl>>
      \/ /\ ctl' = Append(ctl, NewController) /\ segs' = Append(segs, card)
         /\ Go(t, r)
  BY DEF CreateSend
<1>3. /\ r.pc = "cr.commit" /\ r.op = task[t].op /\ r.want = task[t].want
      /\ r.saw = task[t].saw
      /\ r.ret = task[t].ret /\ r.expect = task[t].expect /\ r.ref = n
  BY DEF TypeOK, To, Coroutines
<1>4. card.anchor = ReplyTo(task[t]) /\ segs \in Seq(CardType)
      /\ ctl \in Seq(Controllers) /\ NewController.state = "idle"
  BY DEF NewCard, NewController, TypeOK
<1> HIDE DEF card, r
<1>5. AnchorsKept
  <2>1. CASE segs' = Append(segs, card)
    <3>1. /\ Len(segs') = Len(segs) + 1 /\ Len(segs) \in Nat
          /\ \A i \in 1..Len(segs) : segs'[i] = segs[i]
      BY <1>4, <2>1
    <3> QED
      BY <3>1 DEF AnchorsKept, Cards
  <2> QED
    BY <1>2, <2>1, UnchangedAnchors
<1>6. Moves(t)
  <2>1. CASE Created(t, FALSE)
    BY <1>1, <2>1, CreatedMoves DEF Creations
  <2>2. CASE segs' = Append(segs, card) /\ Go(t, r)
    <3>1. Placed(task[t], st, segs)
      BY DEF BoundaryInv, AllPlaced
    <3>2. ReplyTo(r) = ReplyTo(task[t])
      BY <1>3 DEF ReplyTo
    <3>3. n \in 1..Len(segs') /\ segs'[n] = card
      BY <1>4, <2>2
    <3>4. Placed(r, st', segs')
      BY <1>1, <1>3, <1>4, <3>1, <3>2, <3>3
         DEF Placed, Aims, Creations, Purposed, Outputs
    <3> QED
      BY <2>2, <3>4, GoMoves
  <2> QED
    BY <1>2, <2>1, <2>2
<1>7. \A i \in 1..Len(ctl') :
        \/ i \in 1..Len(ctl) /\ ctl'[i] = ctl[i]
        \/ ctl'[i].state = "idle"
  <2>1. CASE ctl' = Append(ctl, NewController)
    <3>1. /\ Len(ctl') = Len(ctl) + 1 /\ ctl'[Len(ctl) + 1] = NewController
          /\ \A i \in 1..Len(ctl) : ctl'[i] = ctl[i]
      BY <1>4, <2>1
    <3>2. \A i \in 1..Len(ctl') : i \in 1..Len(ctl) \/ i = Len(ctl) + 1
      BY <1>4, <3>1
    <3> QED
      BY <1>4, <3>1, <3>2
  <2> QED
    BY <1>2, <2>1
<1>8. CASE st.cur # 0
  <2>1. CtlSettled
    BY <1>7 DEF CtlSettled
  <2> QED
    BY <1>1, <1>5, <1>6, <1>8, <2>1, Calm, UnchangedStCalm
<1>9. CASE st.cur = 0
  <2>1. /\ t = "runner" /\ First(task[t]) /\ task[t].pc # "idle"
        /\ \A i \in 1..Len(ctl) : ctl[i].state = "idle"
    BY <1>1, <1>9, FirstIsRunner
  <2>2. First(task'[t])
    BY <1>1, <1>2, <1>3, <2>1, FirstCreated, FirstGoes
  <2>3. \A i \in 1..Len(ctl') : ctl'[i].state = "idle"
    BY <1>7, <2>1
  <2> QED
    BY <1>1, <1>5, <1>6, <1>9, <2>1, <2>2, <2>3, FirstStep
<1> QED
  BY <1>8, <1>9

\* While nobody else writes, the state may change under the other coroutines.
LEMMA OthersPlaced ==
  ASSUME TypeOK, TypeOK', BoundaryInv, NEW t \in Tasks, Moves(t), AnchorsKept,
         \A u \in Tasks \ {t} : ~Writing(u), st.closed => st'.closed,
         st.cur # 0
  PROVE  AllPlaced'
<1>1. Len(segs) \in Nat /\ Len(segs') \in Nat
  BY DEF TypeOK
<1>2. ASSUME NEW u \in Tasks \ {t}
      PROVE  Placed(task[u], st', segs')
  <2>1. Placed(task[u], st, segs)
    BY DEF BoundaryInv, AllPlaced
  <2>2. task[u].pc \notin Outputs \cup {"sus.write"}
    BY DEF Writing, Outputs
  <2> QED
    BY <1>1, <2>1, <2>2, PlacedKept DEF AnchorsKept, Cards
<1> QED
  BY <1>2 DEF AllPlaced, Moves

\* The first segment is committed when every other coroutine is idle.
LEMMA OthersIdle ==
  ASSUME BoundaryInv, NEW t \in Tasks, Moves(t),
         \A u \in Tasks \ {t} : task[u].pc = "idle"
  PROVE  AllPlaced'
<1>1. ASSUME NEW u \in Tasks \ {t}
      PROVE  Placed(task[u], st', segs')
  BY Wants, PassingPlaced DEF Creations, Purposed, Outputs
<1> QED
  BY <1>1 DEF AllPlaced, Moves

LEMMA OpenedFields ==
  ASSUME NEW s, NEW i, NEW t
  PROVE  /\ Opened(s, i, t).cur = i /\ Opened(s, i, t).open
         /\ Opened(s, i, t).anchor = 0 /\ ~Opened(s, i, t).closed
         /\ Opened(s, i, t).routed
BY DEF Opened, NewState

\* A segment is committed below the boundary that is the newest.
LEMMA CreateCommitBoundary ==
  ASSUME TypeOK, TypeOK', WritesInv, BoundaryInv, NEW t \in Tasks,
         CreateCommit(t)
  PROVE  BoundaryInv' /\ Replaces
<1> DEFINE r == task[t]
<1>1. /\ r.pc = "cr.commit" /\ MayLock(t) /\ lock = NoTask
      /\ UNCHANGED <<segs, ctl, disp, newest>>
  BY DEF CreateCommit, At, MayLock
<1>2. Placed(r, st, segs) /\ r.ref \in Cards /\ r.ref # 0
  <2>1. Placed(r, st, segs)
    BY DEF BoundaryInv, AllPlaced
  <2>2. r.ref \in Cards
    BY <1>1 DEF WritesInv, PublishedIsFresh, Publishing
  <2> QED
    BY <2>1, <2>2 DEF Cards
<1>3. \A u \in Tasks : ~Writing(u)
  BY <1>1, Alone
<1>4. \A i \in 1..Len(ctl) : ~Flushing(i)
  BY <1>1, Alone, TaskNames
<1>5. AnchorsKept
  BY <1>1, UnchangedAnchors
<1>6. CASE Go(t, To(t, "rt.write")) /\ UNCHANGED st /\ r.ret # "st.next"
  <2>1. Placed(To(t, "rt.write"), st', segs')
    BY <1>1, <1>2, <1>6, ToFields, Wants
       DEF Placed, Aims, Creations, Purposed, Outputs
  <2>2. Moves(t)
    BY <1>6, <2>1, GoMoves
  <2>3. st.cur # 0
    BY <1>1, <1>6 DEF BoundaryInv, Begins, First
  <2> QED
    BY <1>1, <1>5, <1>6, <2>2, <2>3, Calm, UnchangedStCalm, UnchangedCtlSettled
<1>7. CASE /\ r.ret = "st.next" \/ BoundaryCurrent(r.expect)
           /\ \E u : st' = Opened(st, r.ref, u)
           /\ Created(t, TRUE)
  <2>1. /\ st'.cur = r.ref /\ st'.open /\ st'.anchor = 0 /\ ~st'.closed
        /\ st'.routed
    BY <1>7, OpenedFields
  <2>2. Moves(t)
    BY <1>1, <1>7, CreatedMoves DEF Creations
  <2>3. CASE r.ret = "st.next"
    <3>1. st.cur = 0
      BY <1>1, <1>2, <2>3 DEF Placed, Creations
    <3>2. /\ t = "runner" /\ First(r)
          /\ \A u \in Tasks \ {t} : task[u].pc = "idle"
      BY <1>1, <3>1 DEF BoundaryInv, Begins
    <3>3. segs[r.ref].anchor = newest
      BY <1>1, <1>2, <2>3, <3>2 DEF Placed, First, ReplyTo
    <3>4. AllPlaced'
      BY <2>2, <3>2, OthersIdle
    <3>5. disp.count # 0
      BY <1>1, <3>2 DEF BoundaryInv, Begins
    <3>6. Begins' /\ AnchorIsNewest' /\ FrozenAtAnchor'
      BY <1>1, <1>2, <2>1, <3>5 DEF Begins, AnchorIsNewest, FrozenAtAnchor
    <3>7. OpenBelow' /\ FlushesBelow'
      BY <1>1, <1>2, <1>4, <2>1, <3>3 DEF OpenBelow, FlushesBelow, Flushing
    <3> QED
      BY <3>1, <3>4, <3>6, <3>7 DEF BoundaryInv, Replaces
  <2>4. CASE r.ret # "st.next" /\ BoundaryCurrent(r.expect)
    <3>1. st.cur # 0
      BY <1>1, <2>4 DEF BoundaryInv, Begins, First
    <3>2. ~st.closed /\ st.anchor = r.expect /\ r.expect # 0
          /\ ReplyTo(r) = r.expect
      BY <1>1, <1>2, <2>4 DEF BoundaryCurrent, Placed, Creations
    <3>3. ~st.open
      BY <1>1, <3>2, TaskNames DEF BoundaryInv, FrozenAtAnchor
    <3>4. segs[r.ref].anchor = newest
      BY <1>1, <1>2, <3>2 DEF BoundaryInv, AnchorIsNewest, Placed
    <3>5. AllPlaced'
      BY <1>3, <1>5, <2>2, <3>1, <3>2, OthersPlaced
    <3>6. disp.count # 0
      BY <3>1 DEF BoundaryInv, Begins
    <3>7. Begins' /\ AnchorIsNewest' /\ FrozenAtAnchor'
      BY <1>1, <1>2, <2>1, <3>6 DEF Begins, AnchorIsNewest, FrozenAtAnchor
    <3>8. OpenBelow' /\ FlushesBelow'
      BY <1>1, <1>2, <1>4, <2>1, <3>4 DEF OpenBelow, FlushesBelow, Flushing
    <3> QED
      BY <3>2, <3>3, <3>5, <3>7, <3>8 DEF BoundaryInv, Replaces
  <2> QED
    BY <1>7, <2>3, <2>4
<1> QED
  BY <1>6, <1>7 DEF CreateCommit

\* A write to a card leaves it where it is.
LEMMA EditKept ==
  ASSUME TypeOK, NEW i, NEW c, segs' = [segs EXCEPT ![i] = c],
         i \in Cards => c.anchor = segs[i].anchor
  PROVE  AnchorsKept
<1>1. segs \in Seq(CardType)
  BY DEF TypeOK
<1>2. Len(segs') = Len(segs) /\ Len(segs) \in Nat
  BY <1>1
<1>3. \A j \in Cards : segs'[j] = IF j = i THEN c ELSE segs[j]
  BY <1>1 DEF Cards
<1> QED
  BY <1>2, <1>3 DEF AnchorsKept

LEMMA RetireWriteBoundary ==
  ASSUME TypeOK, TypeOK', WritesInv, BoundaryInv, NEW t \in Tasks,
         RetireWrite(t)
  PROVE  BoundaryInv' /\ Replaces
<1>1. /\ task[t].pc = "rt.write" /\ lock = t
      /\ UNCHANGED <<st, ctl, disp, newest>>
  BY DEF RetireWrite, At, WritesInv, WriterHasLock
<1>2. PICK x : segs' = segs \/ segs' = [segs EXCEPT ![task[t].ref] =
                                 [@ EXCEPT !.seq = 2, !.status = x]]
  BY DEF RetireWrite
<1>3. AnchorsKept
  <2> DEFINE c == [segs[task[t].ref] EXCEPT !.seq = 2, !.status = x]
  <2>1. \A i \in Cards : segs[i] \in CardType
    BY ElementType DEF TypeOK, Cards
  <2>2. task[t].ref \in Cards => c.anchor = segs[task[t].ref].anchor
    BY <2>1 DEF CardType
  <2>3. segs' = segs \/ segs' = [segs EXCEPT ![task[t].ref] = c]
    BY <1>2
  <2> HIDE DEF c
  <2> QED
    BY <2>2, <2>3, EditKept, UnchangedAnchors
<1>4. Moves(t)
  BY <1>1, CreatedMoves DEF RetireWrite
<1>5. st.cur # 0
  BY <1>1, Begun
<1> QED
  BY <1>1, <1>3, <1>4, <1>5, Calm, UnchangedStCalm, UnchangedCtlSettled

LEMMA DrainBoundary ==
  ASSUME TypeOK, TypeOK', WritesInv, BoundaryInv, NEW t \in Tasks, Drain(t)
  PROVE  BoundaryInv' /\ Replaces
<1>1. /\ task[t].pc \in {"sus.quiet", "fin.quiet"}
      /\ UNCHANGED <<st, segs, ctl, disp, newest, lock>>
  BY DEF Drain, At
<1>2. CASE Go(t, To(t, "sus.lock")) /\ task[t].pc = "sus.quiet"
  <2>1. Placed(To(t, "sus.lock"), st', segs')
    BY <1>2, ToFields, Wants DEF Placed, Aims, Creations, Purposed, Outputs
  <2> QED
    BY <1>1, <1>2, <2>1, GoMoves, Begun, Calm, UnchangedStCalm,
       UnchangedAnchors, UnchangedCtlSettled
<1>3. CASE Go(t, To(t, "fin.lock"))
  BY <1>1, <1>3, ToPasses, Begun, Calm, UnchangedStCalm, UnchangedAnchors,
     UnchangedCtlSettled DEF Creations, Purposed, Outputs
<1> QED
  BY <1>2, <1>3 DEF Drain

-----------------------------------------------------------------------------
(* Boundaries *)

\* A step that commits a boundary, or freezes the segment above it.
LEMMA BoundaryStep ==
  ASSUME TypeOK, TypeOK', BoundaryInv, NEW t \in Tasks, st.cur # 0, Moves(t),
         AnchorsKept, CtlSettled, \A u \in Tasks \ {t} : ~Writing(u),
         \A i \in 1..Len(ctl) : ~Flushing(i), st'.cur = st.cur,
         st.closed => st'.closed, disp'.count = disp.count, st'.anchor # 0,
         newest' = st'.anchor, FrozenAtAnchor'
  PROVE  BoundaryInv' /\ Replaces
<1>1. Begins'
  BY DEF BoundaryInv, Begins
<1>2. AnchorIsNewest' /\ OpenBelow'
  BY DEF AnchorIsNewest, OpenBelow
<1>3. FlushesBelow'
  BY DEF FlushesBelow, Flushing, CtlSettled
<1>4. AllPlaced'
  BY OthersPlaced
<1> QED
  BY <1>1, <1>2, <1>3, <1>4 DEF BoundaryInv, Replaces

LEMMA SuspendLockedBoundary ==
  ASSUME TypeOK, TypeOK', WritesInv, BoundaryInv, NEW t \in Tasks,
         SuspendLocked(t)
  PROVE  BoundaryInv' /\ Replaces
<1> DEFINE s == Anchored(st, task[t].want, task[t].why)
<1>1. /\ task[t].pc = "sus.lock" /\ lock = NoTask
      /\ UNCHANGED <<segs, ctl>>
  BY DEF SuspendLocked, At, MayLock
<1>2. st.cur # 0 /\ AnchorsKept /\ CtlSettled
  BY <1>1, Begun, UnchangedAnchors, UnchangedCtlSettled
<1>3. task[t].want # 0 /\ task[t].want \in Nat
  BY <1>1, Wants DEF Purposed, TypeOK, Coroutines
<1>4. /\ \A u \in Tasks : ~Writing(u)
      /\ \A i \in 1..Len(ctl) : ~Flushing(i)
  BY <1>1, Alone, TaskNames
<1>5. /\ s \in States /\ s.anchor = task[t].want /\ s.cur = st.cur
      /\ s.open = st.open /\ s.closed = st.closed
  <2>1. st \in States /\ task[t].why \in Reasons
    BY DEF TypeOK, Coroutines
  <2>2. s \in States
    BY <1>3, <2>1, AnchoredType
  <2> QED
    BY <1>3, <2>1, <2>2, AnchoredRoute
<1> HIDE DEF s
<1>6. CASE st.closed /\ UNCHANGED <<st, lock, newest>> /\ Suspended(t)
  <2>1. Moves(t) /\ disp'.count = disp.count
    BY <1>3, <1>6, SuspendedMoves DEF TypeOK
  <2> QED
    BY <1>1, <1>2, <1>6, <2>1, Calm, UnchangedStCalm
<1>7. CASE /\ ~st.closed /\ newest' = task[t].want /\ st.open
           /\ st' = s \/ \E x : st' = [s EXCEPT !.tool = x]
           /\ lock' = t /\ Go(t, To(t, "sus.write")) /\ UNCHANGED disp
  <2>1. /\ st'.anchor = task[t].want /\ st'.cur = st.cur
        /\ st'.open /\ ~st'.closed
    BY <1>5, <1>7 DEF States
  <2>2. Placed(To(t, "sus.write"), st', segs')
    BY <1>3, <2>1, ToFields, Wants DEF Placed, Aims, Creations, Purposed, Outputs
  <2>3. Moves(t)
    BY <1>7, <2>2, GoMoves
  <2>4. task'[t].pc = "sus.write"
    BY <1>7, ToFields DEF Go, TypeOK
  <2>5. FrozenAtAnchor'
    BY <1>7, <2>1, <2>4 DEF FrozenAtAnchor
  <2> QED
    BY <1>2, <1>3, <1>4, <1>7, <2>1, <2>3, <2>5, BoundaryStep
<1>8. CASE /\ ~st.closed /\ newest' = task[t].want /\ ~st.open
           /\ st' = s /\ UNCHANGED lock /\ Suspended(t)
  <2>1. Moves(t) /\ disp'.count = disp.count
    BY <1>3, <1>5, <1>8, SuspendedMoves DEF TypeOK
  <2>2. FrozenAtAnchor'
    BY <1>3, <1>5, <1>8 DEF FrozenAtAnchor
  <2> QED
    BY <1>2, <1>3, <1>4, <1>5, <1>8, <2>1, <2>2, BoundaryStep
<1> QED
  BY <1>6, <1>7, <1>8 DEF SuspendLocked, s

LEMMA SuspendWriteBoundary ==
  ASSUME TypeOK, TypeOK', WritesInv, BoundaryInv, NEW t \in Tasks,
         SuspendWrite(t)
  PROVE  BoundaryInv' /\ Replaces
<1> DEFINE frozen == IF task[t].why \in {"steer", "artifact"}
                     THEN "continued" ELSE "waiting"
           s == Frozen(st, frozen)
           c == [segs[st.cur] EXCEPT !.status = frozen, !.text = st.content,
                                     !.tool = st.tool, !.seq = s.seq]
<1>1. /\ task[t].pc = "sus.write" /\ lock' = NoTask /\ UNCHANGED newest
      /\ Suspended(t)
  BY DEF SuspendWrite, At
<1>2. lock = t
  BY <1>1 DEF WritesInv, WriterHasLock, Writing
<1>3. /\ \A u \in Tasks \ {t} : ~Writing(u)
      /\ \A i \in 1..Len(ctl) : ~Flushing(i)
  BY <1>2, Alone, TaskNames
<1>4. st.anchor = task[t].want /\ task[t].want # 0 /\ st.cur # 0
      /\ newest' = st.anchor
  <2>1. st.anchor = task[t].want
    BY <1>1 DEF BoundaryInv, AllPlaced, Placed
  <2> QED
    BY <1>1, <2>1, Wants, Begun DEF Purposed, BoundaryInv, AnchorIsNewest
<1>5. /\ s \in States /\ s.cur = st.cur /\ s.anchor = st.anchor /\ ~s.open
      /\ s.closed = st.closed
  <2>1. s \in States
    BY FrozenType DEF TypeOK, Phases
  <2> QED
    BY <2>1 DEF Frozen, TypeOK, States
<1>6. st.cur \in Cards => c.anchor = segs[st.cur].anchor
  <2>1. st.cur \in Cards => segs[st.cur] \in CardType
    BY ElementType DEF TypeOK, Cards
  <2> QED
    BY <2>1 DEF CardType
<1>7. /\ \/ segs' = segs
         \/ segs' = [segs EXCEPT ![st.cur] = c]
      /\ \/ st' = s
         \/ st' = [Unavailable(st) EXCEPT !.seq = @ + 1]
         \/ st' = [Unavailable(s) EXCEPT !.phase = frozen]
      /\ UNCHANGED ctl \/ SetCtl([Ctl EXCEPT !.stopped = TRUE])
  BY DEF SuspendWrite, Outcome
<1> HIDE DEF frozen, s, c
<1>8. AnchorsKept
  BY <1>6, <1>7, EditKept, UnchangedAnchors
<1>9. /\ st'.cur = st.cur /\ st'.anchor = st.anchor
      /\ st'.closed \/ (~st'.open /\ st'.closed = st.closed)
  BY <1>5, <1>7 DEF Unavailable, TypeOK, States
<1>10. CtlSettled
  BY <1>7, StopSettled, UnchangedCtlSettled
<1>11. Moves(t) /\ disp'.count = disp.count
  BY <1>1, <1>4, <1>9, SuspendedMoves DEF TypeOK
<1>12. FrozenAtAnchor'
  BY <1>4, <1>9 DEF FrozenAtAnchor
<1> QED
  BY <1>3, <1>4, <1>8, <1>9, <1>10, <1>11, <1>12, BoundaryStep

LEMMA ResumeBoundary ==
  ASSUME TypeOK, TypeOK', WritesInv, BoundaryInv, NEW t \in Tasks,
         ResumeEnter(t) \/ ResumeOk(t) \/ ResumeEnd(t)
  PROVE  BoundaryInv' /\ Replaces
<1>1. /\ task[t].pc \in {"rs.enter", "rs.ok", "rs.end"}
      /\ UNCHANGED <<segs, ctl, lock, newest>>
  BY DEF ResumeEnter, ResumeOk, ResumeEnd, At
<1>2. StCalm
  BY DEF ResumeEnter, ResumeOk, ResumeEnd, StCalm, TypeOK, States
<1>3. st.cur # 0
  BY <1>1, Begun
<1> DEFINE r == [task[t] EXCEPT !.expect = st.anchor, !.ret = "rs.end"]
<1>4. \/ \E ok \in BOOLEAN : AfterResume(t, ok)
      \/ Create(t, r) /\ ~st.closed /\ ~st.open /\ UNCHANGED <<disp, st>>
  <2>1. CASE ResumeEnter(t)
    <3>1. (~st.closed /\ st.open) \in BOOLEAN
      BY DEF TypeOK, States
    <3> QED
      BY <2>1, <3>1 DEF ResumeEnter
  <2>2. CASE ResumeOk(t)
    BY <2>2 DEF ResumeOk
  <2>3. CASE ResumeEnd(t)
    <3>1. (~st.closed /\ st.routed /\ st.open) \in BOOLEAN
      BY DEF TypeOK, States
    <3> QED
      BY <2>3, <3>1 DEF ResumeEnd
  <2> QED
    BY <2>1, <2>2, <2>3
<1>5. Moves(t) /\ disp'.count = disp.count
  <2>1. ASSUME NEW ok \in BOOLEAN, AfterResume(t, ok)
        PROVE  Moves(t) /\ disp'.count = disp.count
    BY <2>1, AfterResumeMoves
  <2>2. CASE Create(t, r) /\ ~st.closed /\ ~st.open /\ UNCHANGED <<disp, st>>
    <3>1. st.anchor # 0
      BY <2>2 DEF BoundaryInv, FrozenAtAnchor
    <3>2. /\ r \in Coroutines /\ r.op = task[t].op /\ r.want = task[t].want
          /\ r.ret = "rs.end" /\ r.expect = st.anchor
          /\ r.saw = task[t].saw /\ r.pc = task[t].pc
      <4>1. task[t] \in Coroutines /\ st.anchor \in Nat /\ "rs.end" \in Returns
        BY DEF TypeOK, States, Returns
      <4> QED
        BY <4>1 DEF Coroutines
    <3> HIDE DEF r
    <3>3. ReplyTo(r) = r.expect
      BY <3>2 DEF ReplyTo
    <3>4. Aims(r)
      <4>1. Aims(task[t])
        BY Wants
      <4> QED
        BY <3>2, <4>1 DEF Aims
    <3> QED
      BY <2>2, <3>1, <3>2, <3>3, <3>4, CreateMoves
  <2> QED
    BY <1>4, <2>1, <2>2
<1> QED
  BY <1>1, <1>2, <1>3, <1>5, Calm, UnchangedAnchors, UnchangedCtlSettled

LEMMA SteerBeginBoundary ==
  ASSUME TypeOK, TypeOK', WritesInv, BoundaryInv, NEW t \in Tasks, SteerBegin(t)
  PROVE  BoundaryInv' /\ Replaces
<1> DEFINE s == [st EXCEPT !.trans = TRUE]
           r == [task[t] EXCEPT !.why = "steer", !.ret = "cr.entity"]
           q == [r EXCEPT !.expect = r.want, !.ret = "st.end"]
           a == Anchored(s, r.want, "steer")
<1>1. /\ task[t].pc = "st.begin" /\ lock = NoTask
      /\ UNCHANGED <<segs, lock, disp>>
  BY DEF SteerBegin, At, MayLock
<1>2. st.cur # 0 /\ AnchorsKept
  BY <1>1, Begun, UnchangedAnchors
<1>3. task[t].want # 0 /\ task[t].want \in Nat
  BY <1>1, Wants DEF Purposed, TypeOK, Coroutines
<1>4. r \in Coroutines /\ r.want = task[t].want /\ Aims(r)
  <2>1. task[t] \in Coroutines /\ "cr.entity" \in Returns
        /\ "steer" \in Reasons /\ Aims(task[t])
    BY Wants DEF TypeOK, Returns, Reasons
  <2>2. /\ r.op = task[t].op /\ r.saw = task[t].saw /\ r.pc = task[t].pc
        /\ r \in Coroutines /\ r.want = task[t].want
    BY <2>1 DEF Coroutines
  <2> HIDE DEF r
  <2> QED
    BY <2>1, <2>2 DEF Aims
<1>5. /\ s \in States /\ s.cur = st.cur /\ s.open = st.open
      /\ s.anchor = st.anchor /\ s.closed = st.closed
  BY DEF TypeOK, States
<1>6. \/ st' = s /\ UNCHANGED newest /\ Suspend(t, r)
      \/ /\ ~st.open /\ st' = a /\ newest' = r.want /\ UNCHANGED ctl
         /\ Create(t, q)
  BY DEF SteerBegin
<1> HIDE DEF s, r
<1>7. /\ a.anchor = r.want /\ a.cur = st.cur /\ a.open = st.open
      /\ a.closed = st.closed
  BY <1>3, <1>4, <1>5, AnchoredRoute
<1>8. /\ q \in Coroutines /\ q.want = task[t].want /\ q.expect = q.want
      /\ q.ret = "st.end" /\ Aims(q)
  <2>1. r.want \in Nat /\ "st.end" \in Returns
    BY <1>3, <1>4 DEF Returns
  <2>2. /\ q.op = r.op /\ q.saw = r.saw /\ q.pc = r.pc /\ q.want = r.want
        /\ q \in Coroutines /\ q.expect = q.want /\ q.ret = "st.end"
    BY <1>4, <2>1 DEF Coroutines
  <2> HIDE DEF q
  <2> QED
    BY <1>4, <2>2 DEF Aims
<1> HIDE DEF q, a
<1>9. CASE st' = s /\ UNCHANGED newest /\ Suspend(t, r)
  <2>1. Moves(t)
    BY <1>3, <1>4, <1>9, SuspendMoves
  <2>2. CtlSettled
    BY <1>4, <1>9, SuspendSettled
  <2>3. StCalm
    BY <1>5, <1>9 DEF StCalm
  <2> QED
    BY <1>1, <1>2, <1>9, <2>1, <2>2, <2>3, Calm
<1>10. CASE /\ ~st.open /\ st' = a /\ newest' = r.want /\ UNCHANGED ctl
            /\ Create(t, q)
  <2>1. ReplyTo(q) = q.expect
    BY <1>8 DEF ReplyTo
  <2>2. Moves(t)
    BY <1>3, <1>8, <1>10, <2>1, CreateMoves
  <2>3. FrozenAtAnchor'
    BY <1>3, <1>4, <1>7, <1>10 DEF FrozenAtAnchor
  <2>4. /\ \A u \in Tasks : ~Writing(u)
        /\ \A i \in 1..Len(ctl) : ~Flushing(i)
    BY <1>1, Alone, TaskNames
  <2> QED
    BY <1>1, <1>2, <1>3, <1>4, <1>7, <1>10, <2>2, <2>3, <2>4, BoundaryStep,
       UnchangedCtlSettled
<1> QED
  BY <1>6, <1>9, <1>10

LEMMA SteerEndBoundary ==
  ASSUME TypeOK, TypeOK', WritesInv, BoundaryInv, NEW t \in Tasks, SteerEnd(t)
  PROVE  BoundaryInv' /\ Replaces
<1> DEFINE r == [To(t, "fin.enter") EXCEPT !.text = st.defTerm.text,
                                           !.out = st.defTerm.out]
<1>1. /\ task[t].pc = "st.end" /\ UNCHANGED <<segs, lock, disp, newest>>
  BY DEF SteerEnd, At
<1>2. StCalm
  <2>1. \E x, y, z, w : st' = [TransitionOver(st, x) EXCEPT
                                 !.pending = y, !.reason = z, !.active = w]
    BY DEF SteerEnd
  <2> QED
    BY <2>1 DEF TransitionOver, StCalm, TypeOK, States
<1>3. CtlSettled
  <2>1. UNCHANGED ctl \/ SetCtl(Requested(Ctl))
    BY DEF SteerEnd
  <2> QED
    BY <2>1, RequestSettled, UnchangedCtlSettled
<1>4. Moves(t)
  <2>1. r.pc = "fin.enter" /\ r.op = task[t].op /\ r.want = task[t].want
       /\ r.saw = task[t].saw
    BY DEF TypeOK, To, Coroutines
  <2>2. Go(t, To(t, "st.next")) \/ Go(t, r)
    BY DEF SteerEnd
  <2> HIDE DEF r
  <2>3. Passing(r)
    BY <2>1, Wants DEF Passing, Aims, Creations, Purposed, Outputs
  <2> QED
    BY <2>2, <2>3, ToPasses, GoPasses DEF Creations, Purposed, Outputs
<1> QED
  BY <1>1, <1>2, <1>3, <1>4, Begun, Calm, UnchangedAnchors

\* The first dispatch is under way, or a steer was continued.
LEMMA SteerNextBoundary ==
  ASSUME TypeOK, TypeOK', WritesInv, BoundaryInv, NEW t \in Tasks, SteerNext(t)
  PROVE  BoundaryInv' /\ Replaces
<1> DEFINE r == [To(t, "out.begin") EXCEPT !.text = "prog"]
<1>1. /\ task[t].pc = "st.next" /\ UNCHANGED <<st, segs, ctl, lock, newest>>
      /\ disp'.count = disp.count
  BY DEF SteerNext, At, TypeOK, Dispatches
<1>2. (Go(t, r) /\ task[t].op # "start") \/ Go(t, Idle)
  BY DEF SteerNext
<1>3. r.pc = "out.begin" /\ r.op = task[t].op /\ r.want = task[t].want
     /\ r.saw = task[t].saw
  BY DEF TypeOK, To, Coroutines
<1> HIDE DEF r
<1>4. Passing(r)
  BY <1>3, Wants DEF Passing, Aims, Creations, Purposed, Outputs
<1>5. Moves(t)
  BY <1>2, <1>4, GoPasses, IdlePasses
<1>6. CASE st.cur # 0
  BY <1>1, <1>5, <1>6, Calm, UnchangedStCalm, UnchangedAnchors,
     UnchangedCtlSettled
<1>7. CASE st.cur = 0
  <2>1. /\ t = "runner" /\ First(task[t]) /\ task[t].pc # "idle"
        /\ \A i \in 1..Len(ctl) : ctl[i].state = "idle"
    BY <1>1, <1>7, FirstIsRunner
  <2>2. Go(t, Idle)
    BY <1>2, <2>1 DEF First
  <2>3. task'[t].pc = "idle"
    BY <2>2 DEF Go, TypeOK, Idle
  <2> QED
    BY <1>1, <1>5, <1>7, <2>1, <2>3, FirstStep, UnchangedAnchors DEF First
<1> QED
  BY <1>6, <1>7

LEMMA SteerSilentBoundary ==
  ASSUME TypeOK, TypeOK', WritesInv, BoundaryInv, NEW t \in Tasks,
         SteerSilent(t)
  PROVE  BoundaryInv' /\ Replaces
<1> DEFINE e == [task[t] EXCEPT !.op = "silent"]
           b == [e EXCEPT !.pc = "st.begin"]
           a == [e EXCEPT !.want = st.anchor, !.pc = "adopt"]
           c == [e EXCEPT !.want = st.anchor, !.pc = "st.begin"]
<1>1. /\ task[t].pc = "st.silent"
      /\ UNCHANGED <<st, segs, ctl, lock, disp, newest>>
  BY DEF SteerSilent, At
<1>2. /\ b.pc = "st.begin" /\ b.want = task[t].want
      /\ a.pc = "adopt" /\ a.saw = task[t].saw
      /\ c.pc = "st.begin" /\ c.want = st.anchor /\ c.saw = task[t].saw
      /\ e.saw = task[t].saw /\ b.saw = task[t].saw
  BY DEF TypeOK, Coroutines
<1>3. \/ Go(t, Idle)
      \/ Go(t, b) /\ ~task[t].saw
      \/ Go(t, a) /\ task[t].saw
      \/ Go(t, c) /\ task[t].saw /\ ~st.open /\ ~st.closed
  <2> USE DEF SteerSilent
  <2>1. CASE st.closed \/ ~st.routed \/ st.active = t
    BY <2>1
  <2>2. CASE ~(st.closed \/ ~st.routed \/ st.active = t) /\ ~e.saw
    BY <1>2, <2>2
  <2>3. CASE ~(st.closed \/ ~st.routed \/ st.active = t) /\ e.saw
    <3>1. CASE st.open
      BY <1>2, <2>3, <3>1
    <3>2. CASE ~st.open
      BY <1>2, <2>3, <3>2
    <3> QED
      BY <3>1, <3>2
  <2> QED
    BY <2>1, <2>2, <2>3
<1> HIDE DEF e, a, b, c
<1>4. ASSUME Go(t, b), ~task[t].saw
      PROVE  Moves(t)
  <2>1. task[t].want # 0
    BY <1>1, <1>4, Wants DEF Aims
  <2>2. Placed(b, st', segs')
    BY <1>2, <1>4, <2>1 DEF Placed, Aims, Creations, Purposed, Outputs
  <2> QED
    BY <1>4, <2>2, GoMoves
<1>5. ASSUME Go(t, a), task[t].saw
      PROVE  Moves(t)
  <2>1. Passing(a)
    BY <1>1, <1>2, <1>5, Wants DEF Passing, Aims, Creations, Purposed, Outputs
  <2> QED
    BY <1>5, <2>1, GoPasses
<1>6. ASSUME Go(t, c), task[t].saw, ~st.open, ~st.closed
      PROVE  Moves(t)
  <2>1. st.anchor # 0
    BY <1>6 DEF BoundaryInv, FrozenAtAnchor
  <2>2. Placed(c, st', segs')
    BY <1>1, <1>2, <1>6, <2>1, Wants DEF Placed, Aims, Creations, Purposed, Outputs
  <2> QED
    BY <1>6, <2>2, GoMoves
<1>7. Moves(t)
  BY <1>3, <1>4, <1>5, <1>6, GoPasses, IdlePasses
<1> QED
  BY <1>1, <1>7, Begun, Calm, UnchangedStCalm, UnchangedAnchors,
     UnchangedCtlSettled

-----------------------------------------------------------------------------
(* Output, finals and tools *)

LEMMA OutputBeginBoundary ==
  ASSUME TypeOK, TypeOK', WritesInv, BoundaryInv, NEW t \in Tasks,
         OutputBegin(t)
  PROVE  BoundaryInv' /\ Replaces
<1> DEFINE r == [To(t, "fb.call") EXCEPT !.ref = st.fb, !.expect = st.anchor,
                                         !.ret = "idle"]
<1>1. /\ task[t].pc = "out.begin" /\ UNCHANGED <<st, segs, ctl, lock, newest>>
  BY DEF OutputBegin, At
<1>2. \/ Finish(t, task[t].text = "prog")
      \/ UNCHANGED disp /\ (Go(t, r) \/ Go(t, To(t, "rs.enter")))
  BY DEF OutputBegin
<1>3. r.pc = "fb.call" /\ r.op = task[t].op /\ r.want = task[t].want
     /\ r.saw = task[t].saw
  BY DEF TypeOK, To, Coroutines
<1> HIDE DEF r
<1>4. Passing(r)
  BY <1>3, Wants DEF Passing, Aims, Creations, Purposed, Outputs
<1>5. Moves(t) /\ disp'.count = disp.count
  BY <1>2, <1>4, FinishMoves, GoPasses, ToPasses
     DEF Creations, Purposed, Outputs
<1> QED
  BY <1>1, <1>5, Begun, Calm, UnchangedStCalm, UnchangedAnchors,
     UnchangedCtlSettled

LEMMA OutputCommitBoundary ==
  ASSUME TypeOK, TypeOK', WritesInv, BoundaryInv, NEW t \in Tasks,
         OutputCommit(t)
  PROVE  BoundaryInv' /\ Replaces
<1>1. /\ task[t].pc = "out.commit" /\ UNCHANGED <<segs, lock, newest>>
  BY DEF OutputCommit, At
<1>2. StCalm
  <2>1. UNCHANGED st \/ (\E x : st' = [st EXCEPT !.pending = x])
        \/ (\E x : st' = [st EXCEPT !.content = x])
    BY DEF OutputCommit
  <2> QED
    BY <2>1 DEF StCalm, TypeOK, States
<1>3. CtlSettled
  <2>1. UNCHANGED ctl \/ SetCtl(Requested(Ctl))
    BY DEF OutputCommit
  <2> QED
    BY <2>1, RequestSettled, UnchangedCtlSettled
<1>4. Moves(t) /\ disp'.count = disp.count
  <2>1. Finish(t, task[t].text = "prog") \/ Finish(t, TRUE)
    BY DEF OutputCommit
  <2> QED
    BY <2>1, FinishMoves
<1> QED
  BY <1>1, <1>2, <1>3, <1>4, Begun, Calm, UnchangedAnchors

LEMMA FallbackWriteBoundary ==
  ASSUME TypeOK, TypeOK', WritesInv, BoundaryInv, NEW t \in Tasks,
         FallbackWrite(t)
  PROVE  BoundaryInv' /\ Replaces
<1> DEFINE r == task[t]
           final == r.ret = "fin.ret"
           new == [st EXCEPT
                     !.fb = IF r.ref = 0 THEN Len(posts') ELSE @,
                     !.content = r.text, !.closed = @ \/ final,
                     !.phase = IF final THEN r.out ELSE @,
                     !.routed = @ /\ ~final]
<1>1. task[t].pc = "fb.call" /\ UNCHANGED <<segs, ctl, lock, newest>>
  BY DEF FallbackWrite, At
<1>2. StCalm
  <2>1. UNCHANGED st \/ st' = new
    BY DEF FallbackWrite
  <2>2. /\ new.closed = (st.closed \/ final) /\ new.cur = st.cur
        /\ new.open = st.open /\ new.anchor = st.anchor
    BY DEF TypeOK, States
  <2> HIDE DEF new, final
  <2> QED
    BY <2>1, <2>2 DEF StCalm
<1>3. Moves(t) /\ disp'.count = disp.count
  <2>1. \E ok : \/ Finalized(t, ok) /\ UNCHANGED disp
                \/ Finish(t, ok)
    BY DEF FallbackWrite, Finalized
  <2> QED
    BY <2>1, FinishMoves, FinalizedMoves
<1> QED
  BY <1>1, <1>2, <1>3, Begun, Calm, UnchangedAnchors, UnchangedCtlSettled

LEMMA FinalizeEnterBoundary ==
  ASSUME TypeOK, TypeOK', WritesInv, BoundaryInv, NEW t \in Tasks,
         FinalizeEnter(t)
  PROVE  BoundaryInv' /\ Replaces
<1> DEFINE r == [To(t, "fb.call") EXCEPT !.text = Raw(task[t].text),
                   !.ref = st.fb, !.expect = st.anchor, !.ret = "fin.ret"]
           q == [To(t, "fin.quiet") EXCEPT !.ref = st.cur]
<1>1. /\ task[t].pc = "fin.enter" /\ UNCHANGED <<segs, lock, disp, newest>>
  BY DEF FinalizeEnter, At
<1>2. StCalm
  <2>1. UNCHANGED st \/ \E x, y : st' = [st EXCEPT !.content = x, !.defTerm = y]
    BY DEF FinalizeEnter
  <2> QED
    BY <2>1 DEF StCalm, TypeOK, States
<1>3. CtlSettled
  <2>1. UNCHANGED ctl \/ SetCtl(Quieted(Ctl))
    BY DEF FinalizeEnter
  <2> QED
    BY <2>1, QuietSettled, UnchangedCtlSettled
<1>4. Moves(t)
  <2>1. r.pc = "fb.call" /\ r.op = task[t].op /\ r.want = task[t].want
       /\ r.saw = task[t].saw
    BY DEF TypeOK, To, Coroutines
  <2>2. q.pc = "fin.quiet" /\ q.op = task[t].op /\ q.want = task[t].want
       /\ q.saw = task[t].saw
    BY DEF TypeOK, To, Coroutines
  <2>3. (\E ok : Finalized(t, ok)) \/ Go(t, r) \/ Go(t, q)
    BY DEF FinalizeEnter
  <2> HIDE DEF r, q
  <2>4. Passing(r) /\ Passing(q)
    BY <2>1, <2>2, Wants DEF Passing, Aims, Creations, Purposed, Outputs
  <2> QED
    BY <2>3, <2>4, GoPasses, FinalizedMoves
<1> QED
  BY <1>1, <1>2, <1>3, <1>4, Begun, Calm, UnchangedAnchors

\* An open segment has no boundary below it when nobody holds the lock.
LEMMA OpenIsBelow ==
  ASSUME BoundaryInv, lock = NoTask, st.open, ~st.closed
  PROVE  st.anchor = 0
BY TaskNames DEF BoundaryInv, FrozenAtAnchor

LEMMA FinalizeLockedBoundary ==
  ASSUME TypeOK, TypeOK', WritesInv, BoundaryInv, NEW t \in Tasks,
         FinalizeLocked(t)
  PROVE  BoundaryInv' /\ Replaces
<1>1. /\ task[t].pc = "fin.lock" /\ lock = NoTask
      /\ UNCHANGED <<segs, ctl, disp, newest>>
  BY DEF FinalizeLocked, At, MayLock
<1>2. st.cur # 0
  BY <1>1, Begun
<1>3. StCalm
  <2>1. UNCHANGED st \/ \E x : st' = [st EXCEPT !.content = x]
    BY DEF FinalizeLocked
  <2> QED
    BY <2>1 DEF StCalm, TypeOK, States
<1>4. Moves(t)
  <2>1. CASE Finalized(t, ~st.gone)
    BY <2>1, FinalizedMoves
  <2>2. CASE st.open /\ ~st.closed /\ Go(t, To(t, "fin.write"))
    <3>1. Placed(To(t, "fin.write"), st', segs')
      BY <1>1, <1>2, <1>3, <2>2, OpenIsBelow, ToFields, Wants
         DEF StCalm, Placed, Aims, Creations, Purposed, Outputs
    <3> QED
      BY <2>2, <3>1, GoMoves
  <2> QED
    BY <2>1, <2>2 DEF FinalizeLocked
<1> QED
  BY <1>1, <1>2, <1>3, <1>4, Calm, UnchangedAnchors, UnchangedCtlSettled

\* Output written to a card.
Below ==
  \A i \in Cards :
    segs'[i] # segs[i] /\ segs'[i].status = "streaming"
      => i = st.cur /\ segs[i].anchor = newest

LEMMA UnchangedBelow ==
  ASSUME UNCHANGED segs
  PROVE  Below
BY DEF Below

\* Whoever writes output writes the segment that is below the boundaries.
LEMMA OutputBelow ==
  ASSUME TypeOK, BoundaryInv,
         \/ \E t \in Tasks : task[t].pc \in Outputs
         \/ \E i \in 1..Len(ctl) : Flushing(i),
         segs' = segs \/ \E c : segs' = [segs EXCEPT ![st.cur] = c]
  PROVE  Below
<1>1. st.cur # 0 /\ st.open /\ st.anchor = 0
  BY DEF BoundaryInv, AllPlaced, Placed, FlushesBelow
<1>2. segs[st.cur].anchor = newest
  BY <1>1 DEF BoundaryInv, OpenBelow
<1>3. \A i \in Cards : i # st.cur => segs'[i] = segs[i]
  <2>1. segs \in Seq(CardType)
    BY DEF TypeOK
  <2> QED
    BY <2>1 DEF Cards
<1> QED
  BY <1>2, <1>3 DEF Below

LEMMA FinalizeWriteBoundary ==
  ASSUME TypeOK, TypeOK', WritesInv, BoundaryInv, NEW t \in Tasks,
         FinalizeWrite(t)
  PROVE  BoundaryInv' /\ Replaces /\ Below
<1> DEFINE n == st.seq + (IF st.content # st.flushed THEN 3 ELSE 2)
           m == st.seq + 1
           s == [ClosedBy(st, task[t].out) EXCEPT !.seq = n]
           c == [segs[st.cur] EXCEPT !.status = task[t].out,
                   !.text = st.content, !.tool = st.tool, !.seq = n]
           d == [segs[st.cur] EXCEPT !.text = st.content, !.seq = m]
<1>1. /\ task[t].pc = "fin.write" /\ UNCHANGED <<newest, disp>>
      /\ lock = t
  BY DEF FinalizeWrite, At, WritesInv, WriterHasLock, Writing
<1>2. /\ \E x, k : \/ st' = [ClosedBy(st, task[t].out) EXCEPT !.seq = n,
                                                             !.flushed = x]
                   \/ st' = s
                   \/ st' = [Unavailable(st) EXCEPT !.seq = k]
      /\ segs' = segs \/ segs' = [segs EXCEPT ![st.cur] = c]
         \/ segs' = [segs EXCEPT ![st.cur] = d]
      /\ UNCHANGED ctl \/ SetCtl([Ctl EXCEPT !.stopped = TRUE])
      /\ \E ok : Finalized(t, ok)
  BY DEF FinalizeWrite
<1>3. StCalm
  <2> DEFINE q == ClosedBy(st, task[t].out)
             u == Unavailable(st)
  <2>1. /\ q.cur = st.cur /\ q.open = st.open /\ q.closed
        /\ q.anchor = st.anchor /\ q \in States
    <3>1. st \in States /\ task[t].out \in Phases
      BY DEF TypeOK, Coroutines, Phases
    <3> QED
      BY <3>1, ClosedByType DEF ClosedBy, States
  <2>2. /\ u.cur = st.cur /\ u.open = st.open /\ u.closed
        /\ u.anchor = st.anchor /\ u \in States
    BY UnavailableType DEF Unavailable, TypeOK, States
  <2> HIDE DEF q, u, n
  <2>3. ASSUME NEW x, st' = [q EXCEPT !.seq = n, !.flushed = x]
        PROVE  StCalm
    BY <2>1, <2>3 DEF StCalm, States
  <2>4. ASSUME st' = s
        PROVE  StCalm
    BY <2>1, <2>4 DEF StCalm, States, q
  <2>5. ASSUME NEW k, st' = [u EXCEPT !.seq = k]
        PROVE  StCalm
    BY <2>2, <2>5 DEF StCalm, States
  <2> HIDE DEF s
  <2>6. \E x, k : \/ st' = [q EXCEPT !.seq = n, !.flushed = x]
                  \/ st' = s
                  \/ st' = [u EXCEPT !.seq = k]
    BY <1>2 DEF q, u
  <2> QED
    BY <2>3, <2>4, <2>5, <2>6
<1>4. st.cur \in Cards => c.anchor = segs[st.cur].anchor
                          /\ d.anchor = segs[st.cur].anchor
  <2>1. st.cur \in Cards => segs[st.cur] \in CardType
    BY ElementType DEF TypeOK, Cards
  <2> QED
    BY <2>1 DEF CardType
<1> HIDE DEF n, m, s, c, d
<1>5. AnchorsKept
  BY <1>2, <1>4, EditKept, UnchangedAnchors
<1>6. CtlSettled
  BY <1>2, StopSettled, UnchangedCtlSettled
<1>7. Moves(t)
  BY <1>2, FinalizedMoves
<1>8. BoundaryInv' /\ Replaces
  BY <1>1, <1>3, <1>5, <1>6, <1>7, Begun, Calm
<1>9. Below
  BY <1>1, <1>2, OutputBelow DEF Outputs
<1> QED
  BY <1>8, <1>9

LEMMA FinalizeReturnBoundary ==
  ASSUME TypeOK, TypeOK', WritesInv, BoundaryInv, NEW t \in Tasks,
         FinalizeReturn(t)
  PROVE  BoundaryInv' /\ Replaces
<1>1. task[t].pc = "fin.ret" /\ UNCHANGED <<segs, ctl, lock, newest>>
  BY DEF FinalizeReturn, At
<1>2. StCalm
  BY DEF FinalizeReturn, Forgotten, StCalm, TypeOK, States
<1>3. Moves(t) /\ disp'.count = disp.count
  <2>1. \/ Go(t, To(t, "st.next")) /\ UNCHANGED disp
        \/ Finish(t, task[t].res)
    BY DEF FinalizeReturn
  <2> QED
    BY <2>1, ToPasses, FinishMoves DEF Creations, Purposed, Outputs
<1> QED
  BY <1>1, <1>2, <1>3, Begun, Calm, UnchangedAnchors, UnchangedCtlSettled

LEMMA ToolCheckBoundary ==
  ASSUME TypeOK, TypeOK', WritesInv, BoundaryInv, NEW t \in Tasks, ToolCheck(t)
  PROVE  BoundaryInv' /\ Replaces
<1>1. task[t].pc = "tool.check" /\ UNCHANGED <<segs, ctl, lock, newest>>
  BY DEF ToolCheck, At
<1>2. StCalm
  <2>1. UNCHANGED st \/ \E x : st' = [st EXCEPT !.defTool = x]
    BY DEF ToolCheck
  <2> QED
    BY <2>1 DEF StCalm, TypeOK, States
<1>3. Moves(t) /\ disp'.count = disp.count
  <2>1. \/ Go(t, To(t, "tool.commit")) /\ UNCHANGED disp
        \/ Finish(t, TRUE) \/ Finish(t, FALSE)
    BY DEF ToolCheck
  <2> QED
    BY <2>1, ToPasses, FinishMoves DEF Creations, Purposed, Outputs
<1> QED
  BY <1>1, <1>2, <1>3, Begun, Calm, UnchangedAnchors, UnchangedCtlSettled

LEMMA ToolCommitBoundary ==
  ASSUME TypeOK, TypeOK', WritesInv, BoundaryInv, NEW t \in Tasks, ToolCommit(t)
  PROVE  BoundaryInv' /\ Replaces
<1>1. /\ task[t].pc = "tool.commit" /\ lock = NoTask
      /\ UNCHANGED <<segs, ctl, newest>>
  BY DEF ToolCommit, At, MayLock
<1>2. st.cur # 0
  BY <1>1, Begun
<1>3. StCalm
  <2>1. UNCHANGED st \/ \E x, n : st' = [st EXCEPT !.tool = x, !.seq = n]
    BY DEF ToolCommit
  <2> QED
    BY <2>1 DEF StCalm, TypeOK, States
<1>4. Moves(t) /\ disp'.count = disp.count
  <2>1. CASE Finish(t, FALSE)
    BY <2>1, FinishMoves
  <2>2. CASE st.open /\ ~st.closed /\ Go(t, To(t, "tool.write"))
             /\ UNCHANGED disp
    <3>1. Placed(To(t, "tool.write"), st', segs')
      BY <1>1, <1>2, <1>3, <2>2, OpenIsBelow, ToFields, Wants
         DEF StCalm, Placed, Aims, Creations, Purposed, Outputs
    <3> QED
      BY <2>2, <3>1, GoMoves
  <2> QED
    BY <2>1, <2>2 DEF ToolCommit
<1> QED
  BY <1>1, <1>2, <1>3, <1>4, Calm, UnchangedAnchors, UnchangedCtlSettled

LEMMA ToolWriteBoundary ==
  ASSUME TypeOK, TypeOK', WritesInv, BoundaryInv, NEW t \in Tasks, ToolWrite(t)
  PROVE  BoundaryInv' /\ Replaces /\ Below
<1> DEFINE c == [segs[st.cur] EXCEPT !.status = "streaming",
                                     !.text = st.content, !.tool = st.tool,
                                     !.seq = st.seq]
<1>1. /\ task[t].pc = "tool.write" /\ UNCHANGED newest /\ lock = t
  BY DEF ToolWrite, At, WritesInv, WriterHasLock, Writing
<1>2. /\ \/ \E x, y : st' = [st EXCEPT !.pending = x, !.phase = y]
         \/ \E o : st' = AfterFailure(st, o, TRUE)
      /\ segs' = segs \/ segs' = [segs EXCEPT ![st.cur] = c]
      /\ UNCHANGED ctl \/ \E o : SetCtl(ControllerAfterFailure(Ctl, o))
      /\ \E ok : Finish(t, ok)
  BY DEF ToolWrite
<1>3. StCalm
  <2>1. ASSUME NEW x, NEW y, st' = [st EXCEPT !.pending = x, !.phase = y]
        PROVE  StCalm
    BY <2>1 DEF StCalm, TypeOK, States
  <2>2. ASSUME NEW o, st' = AfterFailure(st, o, TRUE)
        PROVE  StCalm
    <3>1. Alike(st)
      BY DEF Alike, TypeOK
    <3> QED
      BY <2>2, <3>1, FailureAlike DEF StCalm
  <2> QED
    BY <1>2, <2>1, <2>2
<1>4. st.cur \in Cards => c.anchor = segs[st.cur].anchor
  <2>1. st.cur \in Cards => segs[st.cur] \in CardType
    BY ElementType DEF TypeOK, Cards
  <2> QED
    BY <2>1 DEF CardType
<1> HIDE DEF c
<1>5. AnchorsKept
  BY <1>2, <1>4, EditKept, UnchangedAnchors
<1>6. CtlSettled
  BY <1>2, FailureSettled, UnchangedCtlSettled
<1>7. Moves(t) /\ disp'.count = disp.count
  BY <1>2, FinishMoves
<1>8. BoundaryInv' /\ Replaces
  BY <1>1, <1>3, <1>5, <1>6, <1>7, Begun, Calm
<1>9. Below
  BY <1>1, <1>2, OutputBelow DEF Outputs
<1> QED
  BY <1>8, <1>9

LEMMA AdoptBoundary ==
  ASSUME TypeOK, TypeOK', WritesInv, BoundaryInv, NEW t \in Tasks,
         Adopt(t) \/ ExpireLocked(t)
  PROVE  BoundaryInv' /\ Replaces
<1>1. /\ task[t].pc \in {"adopt", "ex.lock"}
      /\ UNCHANGED <<segs, ctl, lock, newest, disp>>
  BY DEF Adopt, ExpireLocked, At
<1>2. StCalm
  BY DEF Adopt, ExpireLocked, StCalm, TypeOK, States
<1>3. Moves(t)
  <2>1. Go(t, To(t, "st.next")) \/ Go(t, Idle)
    BY DEF Adopt, ExpireLocked
  <2> QED
    BY <2>1, ToPasses, IdlePasses, GoPasses DEF Creations, Purposed, Outputs
<1> QED
  BY <1>1, <1>2, <1>3, Begun, Calm, UnchangedAnchors, UnchangedCtlSettled

LEMMA RunBoundary ==
  ASSUME TypeOK, TypeOK', WritesInv, BoundaryInv, NEW t \in Tasks, Run(t)
  PROVE  BoundaryInv' /\ Replaces /\ Below
<1>1. CASE FinalizeWrite(t) \/ ToolWrite(t)
  BY <1>1, FinalizeWriteBoundary, ToolWriteBoundary
<1>2. CASE CreateSend(t)
  <2>1. Below
    <3> DEFINE c == NewCard(ReplyTo(task[t]))
    <3>1. segs' \in {segs, Append(segs, c)}
      BY <1>2 DEF CreateSend
    <3> HIDE DEF c
    <3>2. segs \in Seq(CardType)
      BY DEF TypeOK
    <3>3. \A i \in Cards : segs'[i] = segs[i]
      BY <3>1, <3>2 DEF Cards
    <3> QED
      BY <3>3 DEF Below
  <2> QED
    BY <1>2, <2>1, CreateSendBoundary
<1>3. CASE RetireWrite(t)
  <2> DEFINE x == IF st.closed THEN "stopped" ELSE "continued"
             c == [segs[task[t].ref] EXCEPT !.seq = 2, !.status = x]
  <2>1. segs' = segs \/ segs' = [segs EXCEPT ![task[t].ref] = c]
    BY <1>3 DEF RetireWrite
  <2>2. segs \in Seq(CardType) /\ \A i \in Cards : segs[i] \in CardType
    BY ElementType DEF TypeOK, Cards
  <2>3. task[t].ref \in Cards => c.status # "streaming"
    BY <2>2 DEF CardType
  <2> HIDE DEF c
  <2>4. Below
    BY <2>1, <2>2, <2>3 DEF Below, Cards
  <2> QED
    BY <1>3, <2>4, RetireWriteBoundary
<1>4. CASE SuspendWrite(t)
  <2> DEFINE x == IF task[t].why \in {"steer", "artifact"}
                  THEN "continued" ELSE "waiting"
             n == Frozen(st, x).seq
             c == [segs[st.cur] EXCEPT !.status = x, !.text = st.content,
                                       !.tool = st.tool, !.seq = n]
  <2>1. segs' = segs \/ segs' = [segs EXCEPT ![st.cur] = c]
    BY <1>4 DEF SuspendWrite, Outcome
  <2>2. segs \in Seq(CardType) /\ \A i \in Cards : segs[i] \in CardType
    BY ElementType DEF TypeOK, Cards
  <2>3. st.cur \in Cards => c.status # "streaming"
    BY <2>2 DEF CardType
  <2> HIDE DEF c
  <2>4. Below
    BY <2>1, <2>2, <2>3 DEF Below, Cards
  <2> QED
    BY <1>4, <2>4, SuspendWriteBoundary
<1>5. CASE CreateEntity(t) \/ CreateCheck(t) \/ CreateCommit(t) \/ Drain(t)
           \/ SuspendLocked(t) \/ ResumeEnter(t) \/ ResumeOk(t) \/ ResumeEnd(t)
  <2>1. UNCHANGED segs
    BY <1>5 DEF CreateEntity, CreateCheck, CreateCommit, Drain, SuspendLocked,
       ResumeEnter, ResumeOk, ResumeEnd
  <2> QED
    BY <1>5, <2>1, UnchangedBelow, CreateEntityBoundary, CreateCommitBoundary,
       DrainBoundary, SuspendLockedBoundary, ResumeBoundary
<1>6. CASE SteerBegin(t) \/ SteerEnd(t) \/ SteerNext(t) \/ SteerSilent(t)
           \/ OutputBegin(t) \/ OutputCommit(t) \/ FallbackWrite(t)
  <2>1. UNCHANGED segs
    BY <1>6 DEF SteerBegin, SteerEnd, SteerNext, SteerSilent, OutputBegin,
       OutputCommit, FallbackWrite
  <2> QED
    BY <1>6, <2>1, UnchangedBelow, SteerBeginBoundary, SteerEndBoundary,
       SteerNextBoundary, SteerSilentBoundary, OutputBeginBoundary,
       OutputCommitBoundary, FallbackWriteBoundary
<1>7. CASE FinalizeEnter(t) \/ FinalizeLocked(t) \/ FinalizeReturn(t)
           \/ ToolCheck(t) \/ ToolCommit(t) \/ Adopt(t) \/ ExpireLocked(t)
  <2>1. UNCHANGED segs
    BY <1>7 DEF FinalizeEnter, FinalizeLocked, FinalizeReturn, ToolCheck,
       ToolCommit, Adopt, ExpireLocked
  <2> QED
    BY <1>7, <2>1, UnchangedBelow, FinalizeEnterBoundary,
       FinalizeLockedBoundary, FinalizeReturnBoundary, ToolCheckBoundary,
       ToolCommitBoundary, AdoptBoundary
<1> QED
  BY <1>1, <1>2, <1>3, <1>4, <1>5, <1>6, <1>7 DEF Run

-----------------------------------------------------------------------------
(* The dispatch, the other callers and the flush task *)

\* A routed turn has a segment.
LEMMA RoutedBegun ==
  ASSUME BoundaryInv, st.routed
  PROVE  st.cur # 0
BY DEF BoundaryInv, Begins

\* A step that moves nothing the invariant speaks of.
LEMMA StillStep ==
  ASSUME BoundaryInv, UNCHANGED <<st, segs, ctl, lock, task, newest>>,
         disp'.count = disp.count
  PROVE  BoundaryInv' /\ Replaces
BY DEF BoundaryInv, Begins, First, AnchorIsNewest, FrozenAtAnchor, OpenBelow,
   FlushesBelow, Flushing, AllPlaced, Replaces

LEMMA StartBoundary ==
  ASSUME TypeOK, TypeOK', WritesInv, BoundaryInv, DispatchStart
  PROVE  BoundaryInv' /\ Replaces
<1> DEFINE n == clock + 1
           r == [Idle EXCEPT !.op = "start", !.want = n, !.ret = "st.next"]
           q == [r EXCEPT !.pc = "cr.entity", !.ref = 0]
<1>1. /\ st.cur = 0 /\ UNCHANGED <<st, segs, ctl, lock>> /\ newest' = n
      /\ n \in Nat /\ Go("runner", q) /\ disp' = Starting(disp)
      /\ disp.count = 0
  BY DEF DispatchStart, Create, BoundaryInv, Begins, TypeOK
<1>2. disp'.count # 0
  BY <1>1 DEF Starting, TypeOK, Dispatches
<1> HIDE DEF n
<1>3. /\ q.pc = "cr.entity" /\ q.op = "start" /\ q.want = n
      /\ q.ret = "st.next"
  BY DEF Idle
<1> HIDE DEF q
<1>4. Placed(q, st', segs')
  BY <1>1, <1>3 DEF Placed, Aims, Creations, Purposed, Outputs
<1>5. Moves("runner") /\ task'["runner"] = q
  <2>1. Moves("runner")
    BY <1>1, <1>4, GoMoves, TaskNames
  <2> QED
    BY <1>1, <2>1, TaskNames DEF Go, TypeOK
<1>6. AllPlaced'
  BY <1>1, <1>5, OthersIdle, TaskNames DEF BoundaryInv, Begins
<1>7. Begins'
  BY <1>1, <1>2, <1>3, <1>5 DEF BoundaryInv, Begins, First, Moves
<1>8. AnchorIsNewest' /\ FrozenAtAnchor' /\ OpenBelow' /\ FlushesBelow'
  BY <1>1 DEF BoundaryInv, Begins, AnchorIsNewest, FrozenAtAnchor, OpenBelow,
     FlushesBelow, Flushing
<1> QED
  BY <1>1, <1>6, <1>7, <1>8 DEF BoundaryInv, Replaces

LEMMA ContinueBoundary ==
  ASSUME TypeOK, TypeOK', WritesInv, BoundaryInv, DispatchContinue
  PROVE  BoundaryInv' /\ Replaces
<1> DEFINE n == clock + 1
           q(a, p) == [Idle EXCEPT !.op = "start", !.pc = p, !.want = a]
<1>1. /\ UNCHANGED <<st, segs, ctl, lock, newest>> /\ disp' = Starting(disp)
      /\ ~st.closed /\ st.routed /\ task["runner"].pc = "idle"
      /\ n \in Nat \ {0}
  BY DEF DispatchContinue, Free, TypeOK
<1> HIDE DEF n
<1>2. \/ Go("runner", q(n, "st.begin"))
      \/ st.open /\ Go("runner", q(st.anchor, "adopt"))
      \/ ~st.open /\ Go("runner", q(st.anchor, "st.begin"))
  BY DEF DispatchContinue, n
<1>3. \A a, p : q(a, p).pc = p /\ q(a, p).want = a /\ q(a, p).op = "start"
  BY DEF Idle
<1> HIDE DEF q
<1>4. ~st.open => st.anchor # 0
  BY <1>1 DEF BoundaryInv, FrozenAtAnchor
<1>5. \A a : /\ Placed(q(a, "adopt"), st', segs')
             /\ a # 0 => Placed(q(a, "st.begin"), st', segs')
  BY <1>3 DEF Placed, Aims, Creations, Purposed, Outputs
<1>6. Moves("runner")
  <2>1. \E r : Go("runner", r) /\ Placed(r, st', segs')
    BY <1>1, <1>2, <1>4, <1>5
  <2> QED
    BY <2>1, GoMoves, TaskNames
<1>7. disp'.count # 0
  BY <1>1 DEF Starting, TypeOK, Dispatches
<1>8. \A u \in Tasks : task'[u] = task[u] \/ Placed(task'[u], st', segs')
  BY <1>6 DEF Moves
<1>9. lock \in Tasks /\ task[lock].pc = "sus.write" => task'[lock] = task[lock]
  BY <1>1, <1>6 DEF Moves
<1>10. AnchorsKept
  BY <1>1, UnchangedAnchors
<1> QED
  BY <1>1, <1>7, <1>8, <1>9, <1>10, RoutedBegun, CalmStep, UnchangedStCalm,
     UnchangedCtlSettled

\* A caller's step on a turn that is routed.
LEMMA CallerStep ==
  ASSUME TypeOK, TypeOK', WritesInv, BoundaryInv, NEW t \in Tasks, st.routed,
         StCalm, UNCHANGED <<segs, lock, newest>>, disp'.count = disp.count,
         CtlSettled, task[t].pc # "sus.write", UNCHANGED task \/ Moves(t)
  PROVE  BoundaryInv' /\ Replaces
<1>1. st.cur # 0
  BY RoutedBegun
<1>2. disp'.count # 0
  BY <1>1 DEF BoundaryInv, Begins
<1>3. \A u \in Tasks : task'[u] = task[u] \/ Placed(task'[u], st', segs')
  BY DEF Moves
<1>4. lock \in Tasks /\ task[lock].pc = "sus.write" => task'[lock] = task[lock]
  BY DEF Moves
<1> QED
  BY <1>1, <1>2, <1>3, <1>4, CalmStep, UnchangedAnchors

LEMMA CompleteBoundary ==
  ASSUME TypeOK, TypeOK', WritesInv, BoundaryInv, Complete
  PROVE  BoundaryInv' /\ Replaces
<1>1. /\ UNCHANGED <<segs, ctl, lock, newest>> /\ task["runner"].pc = "idle"
      /\ disp'.count = disp.count
  BY DEF Complete, Free, TypeOK, Dispatches
<1>2. CASE ~st.routed
  <2>1. UNCHANGED <<st, task>>
    BY <1>2 DEF Complete
  <2> QED
    BY <1>1, <2>1, StillStep
<1>3. CASE st.routed
  <2>1. StCalm
    <3>1. PICK e \in Endings : CompleteAs(e)
      BY DEF Complete, CompleteAs
    <3> DEFINE out == CASE e = "success" -> "complete"
                        [] e = "failure" -> "error"
                        [] e = "cancelled" -> "stopped"
               close == ~st.closed /\ (st.reason = "artifact" \/ e # "success")
               s == IF close THEN ClosedBy(st, out) ELSE st
    <3>2. /\ s \in States /\ s.cur = st.cur /\ s.open = st.open
          /\ s.anchor = st.anchor
          /\ st.closed => s.closed
      <4>1. out \in Phases /\ st \in States
        BY ChoicesAssumption DEF Phases, Outs, TypeOK
      <4> HIDE DEF out
      <4>2. CASE close
        <5>1. s = ClosedBy(st, out)
          BY <4>2
        <5> HIDE DEF s, close
        <5>2. s \in States
          BY <4>1, <5>1, ClosedByType
        <5> QED
          BY <4>1, <5>1, <5>2 DEF ClosedBy, States
      <4>3. CASE ~close
        BY <4>1, <4>3
      <4> QED
        BY <4>2, <4>3
    <3>3. st' = st \/ st' = Forgotten(s) \/ st' = s
      BY <3>1 DEF CompleteAs
    <3> HIDE DEF s
    <3> QED
      <4>1. /\ Forgotten(s).cur = s.cur /\ Forgotten(s).open = s.open
            /\ Forgotten(s).anchor = s.anchor
            /\ Forgotten(s).closed = s.closed
        BY <3>2 DEF Forgotten, States
      <4> QED
        BY <3>2, <3>3, <4>1 DEF StCalm
  <2>2. UNCHANGED task \/ Moves("runner")
    <3> DEFINE r(x, y, z) == [Idle EXCEPT !.pc = "fin.enter", !.op = "complete",
                                !.saw = x, !.text = y, !.out = z]
    <3>1. UNCHANGED task \/ \E x, y, z : Go("runner", r(x, y, z))
      BY DEF Complete
    <3>2. \A x, y, z : Passing(r(x, y, z))
      BY DEF Passing, Aims, Idle, Creations, Purposed, Outputs
    <3> HIDE DEF r
    <3> QED
      BY <3>1, <3>2, GoPasses, TaskNames
  <2> QED
    BY <1>1, <1>3, <2>1, <2>2, CallerStep, TaskNames, UnchangedCtlSettled
<1> QED
  BY <1>2, <1>3

LEMMA ConsumerBoundary ==
  ASSUME TypeOK, TypeOK', WritesInv, BoundaryInv,
         StreamDelta \/ FinalAnswer \/ Progress
  PROVE  BoundaryInv' /\ Replaces
<1> DEFINE r(o, x, p) == [Idle EXCEPT !.op = o, !.text = x, !.pc = p]
           points == {"fin.enter", "rs.enter", "out.begin"}
           calls == {"stream", "final", "progress"}
<1>1. \/ UNCHANGED task
      \/ /\ st.routed
         /\ \E t \in {"consumer", "notifier"} : \E x :
              \E o \in calls, p \in points :
                Go(t, r(o, x, p)) /\ task[t].pc = "idle"
  <2>1. CASE StreamDelta \/ Progress
    <3>1. /\ st.routed
          /\ \/ /\ Go("consumer", r("stream", "part", "out.begin"))
                /\ task["consumer"].pc = "idle"
             \/ /\ Go("notifier", r("progress", "prog", "out.begin"))
                /\ task["notifier"].pc = "idle"
      BY <2>1 DEF StreamDelta, Progress, Free
    <3> QED
      BY <3>1
  <2>2. CASE FinalAnswer
    <3>1. \A p : [[Idle EXCEPT !.op = "final", !.text = "answer"] EXCEPT
                     !.op = "stream", !.pc = p] = r("stream", "answer", p)
      BY DEF Idle
    <3>2. task["consumer"].pc = "idle"
      BY <2>2 DEF FinalAnswer, Free
    <3>3. \/ UNCHANGED task
          \/ st.routed /\ \E o \in {"final", "stream"}, p \in points :
                            Go("consumer", r(o, "answer", p))
      <4>1. CASE st.terminal
        BY <2>2, <4>1 DEF FinalAnswer
      <4>2. CASE ~st.terminal
        <5>1. \/ UNCHANGED task
              \/ st.routed /\ Go("consumer", r("stream", "answer", "out.begin"))
          BY <2>2, <3>1, <4>2 DEF FinalAnswer
        <5> QED
          BY <5>1
      <4> QED
        BY <4>1, <4>2
    <3> QED
      BY <3>2, <3>3
  <2> QED
    BY <2>1, <2>2
<1>2. \A x : \A o \in calls, p \in points : Passing(r(o, x, p))
  BY DEF Passing, Aims, Idle, Creations, Purposed, Outputs
<1>3. /\ UNCHANGED <<st, segs, ctl, lock, newest>>
      /\ disp'.count = disp.count
  BY DEF StreamDelta, FinalAnswer, Progress, TypeOK, Dispatches
<1> HIDE DEF r, points, calls
<1>4. CASE UNCHANGED task
  BY <1>3, <1>4, StillStep
<1>5. ASSUME st.routed, NEW t \in {"consumer", "notifier"}, NEW o \in calls,
             NEW x, NEW p \in points, Go(t, r(o, x, p)), task[t].pc = "idle"
      PROVE  BoundaryInv' /\ Replaces
  <2>1. t \in Tasks
    BY TaskNames
  <2>2. Moves(t)
    BY <1>2, <1>5, <2>1, GoPasses
  <2> QED
    BY <1>3, <1>5, <2>1, <2>2, CallerStep, UnchangedStCalm, UnchangedCtlSettled
<1> QED
  BY <1>1, <1>4, <1>5

LEMMA ToolUpdateBoundary ==
  ASSUME TypeOK, TypeOK', WritesInv, BoundaryInv, ToolUpdate
  PROVE  BoundaryInv' /\ Replaces
<1> DEFINE r(w) == [Idle EXCEPT !.op = "tool", !.tool = w, !.pc = "rs.enter"]
<1>1. \A w : Passing(r(w))
  BY DEF Passing, Aims, Idle, Creations, Purposed, Outputs
<1>2. /\ UNCHANGED <<st, segs, ctl, lock, newest>> /\ st.routed
      /\ disp'.count = disp.count /\ task["agent"].pc = "idle"
      /\ \E w : Go("agent", r(w))
  BY DEF ToolUpdate, AgentTurn, Free, TypeOK, Dispatches
<1> HIDE DEF r
<1>3. Moves("agent")
  BY <1>1, <1>2, GoPasses, TaskNames
<1> QED
  BY <1>2, <1>3, CallerStep, TaskNames, UnchangedStCalm, UnchangedCtlSettled

LEMMA BoundaryBoundary ==
  ASSUME TypeOK, TypeOK', WritesInv, BoundaryInv,
         NEW why \in {"artifact", "approval", "question"}, Boundary(why)
  PROVE  BoundaryInv' /\ Replaces
<1> DEFINE n == clock + 1
           r == [Idle EXCEPT !.op = "boundary", !.why = why, !.want = n]
<1>1. n \in Nat \ {0}
  BY DEF TypeOK
<1>2. /\ UNCHANGED <<st, segs, lock, disp, newest>>
      /\ task["agent"].pc = "idle"
      /\ \/ st.routed /\ Suspend("agent", r)
         \/ UNCHANGED <<ctl, task>>
  BY DEF Boundary, AgentTurn, Free
<1> HIDE DEF n
<1>3. r \in Coroutines /\ r.want = n /\ Aims(r)
  <2>1. r \in Coroutines /\ r.want = n
    BY <1>1, IdleType DEF Coroutines, Ops, Reasons, Idle
  <2>2. r.op = "boundary" /\ r.pc = "idle"
    BY DEF Idle
  <2> QED
    BY <2>1, <2>2 DEF Aims
<1> HIDE DEF r
<1>4. CASE UNCHANGED <<ctl, task>>
  BY <1>2, <1>4, StillStep
<1>5. CASE st.routed /\ Suspend("agent", r)
  <2>1. Moves("agent") /\ CtlSettled
    BY <1>1, <1>3, <1>5, SuspendMoves, SuspendSettled, TaskNames
  <2> QED
    BY <1>2, <1>5, <2>1, CallerStep, TaskNames, UnchangedStCalm
<1> QED
  BY <1>2, <1>4, <1>5

LEMMA MarkTerminalBoundary ==
  ASSUME TypeOK, TypeOK', WritesInv, BoundaryInv, MarkTerminal
  PROVE  BoundaryInv' /\ Replaces
<1>1. /\ UNCHANGED <<segs, ctl, lock, task, newest>>
      /\ disp'.count = disp.count /\ task["agent"].pc = "idle"
  BY DEF MarkTerminal, Free, TypeOK, Dispatches
<1>2. CASE st.routed
  <2>1. StCalm
    BY DEF MarkTerminal, StCalm, TypeOK, States
  <2> QED
    BY <1>1, <1>2, <2>1, CallerStep, TaskNames, UnchangedCtlSettled
<1>3. CASE ~st.routed
  <2>1. UNCHANGED st
    BY <1>3 DEF MarkTerminal
  <2> QED
    BY <1>1, <2>1, StillStep
<1> QED
  BY <1>2, <1>3

LEMMA SteerBoundary ==
  ASSUME TypeOK, TypeOK', WritesInv, BoundaryInv, NEW t \in Steers, Steer(t)
  PROVE  BoundaryInv' /\ Replaces
<1> DEFINE n == clock + 1
           r(m, p) == [Idle EXCEPT !.op = m, !.want = n, !.pc = p]
           q(m, p) == [Idle EXCEPT !.op = m, !.want = st.anchor, !.saw = TRUE,
                                   !.pc = p]
           fresh(m) == r(m, IF m = "ack" THEN "st.begin" ELSE "st.silent")
           echo(m) == q(m, IF m = "silent" THEN "st.silent"
                           ELSE IF st.open THEN "adopt" ELSE "st.begin")
<1>1. n \in Nat \ {0} /\ t \in Tasks
  BY DEF TypeOK, Tasks
<1>2. /\ UNCHANGED <<st, segs, ctl, lock, disp, newest>> /\ st.routed
      /\ task[t].pc # "sus.write" /\ ~st.closed
      /\ \E m \in SteerModes : Go(t, fresh(m)) \/ (MayEcho /\ Go(t, echo(m)))
  BY DEF Steer, Free, Late, LatePcs
<1>3. /\ \A m, p : r(m, p).pc = p /\ r(m, p).want = n /\ ~r(m, p).saw
      /\ \A m, p : q(m, p).pc = p /\ q(m, p).want = st.anchor
                  /\ q(m, p).saw
  BY DEF Idle
<1> HIDE DEF n, r, q
<1>4. \A m : \A p \in {"st.begin", "st.silent"} : Placed(r(m, p), st', segs')
  BY <1>1, <1>3 DEF Placed, Aims, Creations, Purposed, Outputs
<1>5. MayEcho =>
        \A m : \A p \in {"adopt", "st.silent"} : Placed(q(m, p), st', segs')
  BY <1>3 DEF Echoes, Placed, Aims, Creations, Purposed, Outputs
<1>6. ~st.open /\ MayEcho => \A m : Placed(q(m, "st.begin"), st', segs')
  <2>1. ~st.open => st.anchor # 0
    BY <1>2 DEF BoundaryInv, FrozenAtAnchor
  <2> QED
    BY <1>3, <2>1 DEF Echoes, Placed, Aims, Creations, Purposed, Outputs
<1>7. \A m : /\ Placed(fresh(m), st', segs')
             /\ MayEcho => Placed(echo(m), st', segs')
  BY <1>4, <1>5, <1>6
<1> HIDE DEF fresh, echo
<1>8. Moves(t)
  BY <1>1, <1>2, <1>7, GoMoves
<1> QED
  BY <1>1, <1>2, <1>8, CallerStep, UnchangedStCalm, UnchangedCtlSettled

LEMMA ShutDownBoundary ==
  ASSUME TypeOK, TypeOK', WritesInv, BoundaryInv, ShutDown \/ Expire
  PROVE  BoundaryInv' /\ Replaces
<1> DEFINE r == [Idle EXCEPT !.op = "shutdown", !.pc = "fin.enter",
                             !.out = "stopped", !.text = Terminal("")]
           q == [Idle EXCEPT !.op = "expire", !.pc = "ex.lock"]
<1>1. Passing(r) /\ Passing(q)
  BY DEF Passing, Aims, Idle, Creations, Purposed, Outputs
<1>2. /\ UNCHANGED <<st, segs, ctl, lock, disp, newest>> /\ st.routed
      /\ \/ Go("closer", r) /\ task["closer"].pc = "idle"
         \/ Go("expirer", q) /\ task["expirer"].pc = "idle"
  BY DEF ShutDown, Expire, Free
<1> HIDE DEF r, q
<1>3. \E t \in Tasks : Moves(t) /\ task[t].pc = "idle"
  BY <1>1, <1>2, GoPasses, TaskNames
<1> QED
  BY <1>2, <1>3, CallerStep, UnchangedStCalm, UnchangedCtlSettled

LEMMA FlushBoundary ==
  ASSUME TypeOK, TypeOK', WritesInv, BoundaryInv, Flush
  PROVE  BoundaryInv' /\ Replaces /\ Below
<1>1. PICK i \in 1..Len(ctl) : FlushFire(i) \/ FlushLocked(i) \/ FlushWrite(i)
  BY DEF Flush
<1>2. UNCHANGED <<task, disp, newest>>
  BY <1>1 DEF FlushFire, FlushLocked, FlushWrite
<1>3. st.cur # 0
  BY <1>1 DEF FlushFire, FlushLocked, FlushWrite, BoundaryInv, Begins
<1>4. disp'.count # 0
  BY <1>2, <1>3 DEF BoundaryInv, Begins
<1>5. CASE FlushFire(i)
  <2> DEFINE c == [ctl[i] EXCEPT !.state = "inflight"]
             d == Flushed(ctl[i])
  <2>1. ctl[i] \in Controllers /\ ctl \in Seq(Controllers)
    BY ElementType DEF TypeOK
  <2>2. c.state # "write" /\ d.state # "write"
    BY <2>1, FlushedKept DEF Controllers
  <2>3. ctl' = [ctl EXCEPT ![i] = c] \/ ctl' = [ctl EXCEPT ![i] = d]
    BY <1>5 DEF FlushFire
  <2> HIDE DEF c, d
  <2>4. CtlSettled
    BY <2>1, <2>2, <2>3 DEF CtlSettled
  <2>5. UNCHANGED <<st, segs, lock>>
    BY <1>5 DEF FlushFire
  <2> QED
    BY <1>2, <1>3, <1>4, <2>4, <2>5, CalmStep, UnchangedStCalm,
       UnchangedAnchors, UnchangedBelow
<1>6. CASE FlushLocked(i)
  <2>1. UNCHANGED <<st, segs>> /\ lock = NoTask
    BY <1>6 DEF FlushLocked, MayLock
  <2>2. CtlSettled \/ (st.open /\ ~st.closed)
    <3> DEFINE d == Flushed(ctl[i])
    <3>1. ctl[i] \in Controllers /\ ctl \in Seq(Controllers)
      BY ElementType DEF TypeOK
    <3>2. d.state # "write"
      BY <3>1, FlushedKept
    <3>3. ctl' = [ctl EXCEPT ![i] = d] \/ (st.open /\ ~st.closed)
      BY <1>6 DEF FlushLocked
    <3> HIDE DEF d
    <3> QED
      BY <3>1, <3>2, <3>3 DEF CtlSettled
  <2>3. CtlSettled \/ (st.open /\ st.anchor = 0)
    BY <2>1, <2>2, OpenIsBelow
  <2> QED
    BY <1>2, <1>3, <1>4, <2>1, <2>3, CalmStep, TaskNames, UnchangedStCalm,
       UnchangedAnchors, UnchangedBelow
<1>7. CASE FlushWrite(i)
  <2> DEFINE text == ctl[i].text
             drawn(k) == [segs[st.cur] EXCEPT !.status = "streaming",
                                              !.text = text, !.tool = st.tool,
                                              !.seq = k]
             last(k) == [segs[st.cur] EXCEPT !.text = text, !.seq = k]
             both(j, k) == [drawn(j) EXCEPT !.text = text, !.seq = k]
  <2>1. Flushing(i) /\ lock = "flush"
    BY <1>7 DEF FlushWrite, Flushing, WritesInv, WriterHasLock
  <2>2. st.open /\ st.anchor = 0
    BY <2>1 DEF BoundaryInv, FlushesBelow
  <2>3. StCalm
    BY <1>7, FlushWriteState DEF StCalm
  <2>4. PICK c : /\ segs' = segs \/ segs' = [segs EXCEPT ![st.cur] = c]
                 /\ \/ c = segs[st.cur]
                    \/ \E k : c = drawn(k)
                    \/ \E k : c = last(k)
                    \/ \E j, k : c = both(j, k)
    <3> DEFINE full == st.phase = "thinking" \/ st.pending
               changed == text # st.flushed
               s == IF full THEN [st EXCEPT !.seq = @ + 1,
                                    !.phase = "generating", !.pending = FALSE]
                    ELSE st
               card == IF full THEN drawn(s.seq) ELSE segs[st.cur]
               n == s.seq + 1
               end == [card EXCEPT !.text = text, !.seq = n]
    <3>1. \/ segs' = segs
          \/ segs' = [segs EXCEPT ![st.cur] = IF changed THEN end ELSE card]
          \/ segs' = [segs EXCEPT ![st.cur] = card]
      BY <1>7 DEF FlushWrite
    <3>2. /\ card = segs[st.cur] \/ \E k : card = drawn(k)
          /\ (\E k : end = last(k)) \/ \E j, k : end = both(j, k)
      <4> HIDE DEF s
      <4> QED
        OBVIOUS
    <3> HIDE DEF card, end, changed, s, drawn, last, both
    <3>3. \/ segs' = segs
          \/ segs' = [segs EXCEPT ![st.cur] = end]
          \/ segs' = [segs EXCEPT ![st.cur] = card]
      <4>1. CASE changed
        BY <3>1, <4>1
      <4>2. CASE ~changed
        BY <3>1, <4>2
      <4> QED
        BY <4>1, <4>2
    <3> QED
      BY <3>2, <3>3
  <2>5. st.cur \in Cards => c.anchor = segs[st.cur].anchor
    <3>1. st.cur \in Cards => segs[st.cur] \in CardType
      BY ElementType DEF TypeOK, Cards
    <3> QED
      BY <2>4, <3>1 DEF CardType
  <2>6. AnchorsKept
    BY <2>4, <2>5, EditKept, UnchangedAnchors
  <2>7. Below
    BY <2>1, <2>4, OutputBelow
  <2> QED
    BY <1>2, <1>3, <1>4, <2>1, <2>2, <2>3, <2>6, <2>7, CalmStep, TaskNames
<1> QED
  BY <1>1, <1>5, <1>6, <1>7

LEMMA InitBoundary == Init => BoundaryInv
<1> SUFFICES ASSUME Init
             PROVE  BoundaryInv
  OBVIOUS
<1>1. \A t \in Tasks : task[t] = Idle
  BY DEF Init
<1>2. /\ st.cur = 0 /\ st.open /\ ~st.routed /\ st.anchor = 0 /\ ctl = <<>>
      /\ Idle.pc = "idle"
  BY DEF Init, NewState, Idle
<1>3. Begins
  BY <1>1, <1>2, TaskNames DEF Begins, First
<1>4. AnchorIsNewest /\ FrozenAtAnchor /\ OpenBelow /\ FlushesBelow
  BY <1>2 DEF AnchorIsNewest, FrozenAtAnchor, OpenBelow, FlushesBelow
<1>5. AllPlaced
  BY <1>1, IdlePasses, PassingPlaced DEF AllPlaced, Passing
<1> QED
  BY <1>3, <1>4, <1>5 DEF BoundaryInv

\* Every step but the cancellation of a steer keeps the invariant of the
\* boundaries.
LEMMA NextBoundary ==
  (~MayCancel \/ Steers = {}) /\ TypeOK /\ WritesInv /\ BoundaryInv
    /\ [Next]_vars
    => BoundaryInv' /\ Replaces /\ Below
<1> SUFFICES ASSUME ~MayCancel \/ Steers = {}, TypeOK, WritesInv, BoundaryInv,
                    [Next]_vars
             PROVE  BoundaryInv' /\ Replaces /\ Below
  OBVIOUS
<1>1. TypeOK'
  BY NextType
<1>2. ASSUME NEW t \in Tasks, Run(t)
      PROVE  BoundaryInv' /\ Replaces /\ Below
  BY <1>1, <1>2, RunBoundary
<1>3. ASSUME NEW t \in Steers, Steer(t) \/ CancelSteer(t) \/ LateCall(t)
      PROVE  BoundaryInv' /\ Replaces /\ Below
  <2>1. Steer(t)
    BY <1>3 DEF CancelSteer, LateCall, Late
  <2> QED
    BY <1>1, <2>1, SteerBoundary, UnchangedBelow DEF Steer
<1>4. ASSUME NEW w \in {"artifact", "approval", "question"}, Boundary(w)
      PROVE  BoundaryInv' /\ Replaces /\ Below
  BY <1>1, <1>4, BoundaryBoundary, UnchangedBelow DEF Boundary
<1>5. CASE DispatchStart \/ DispatchContinue \/ Complete
  BY <1>1, <1>5, StartBoundary, ContinueBoundary, CompleteBoundary,
     UnchangedBelow DEF DispatchStart, DispatchContinue, Complete
<1>6. CASE StreamDelta \/ FinalAnswer \/ Progress
  BY <1>1, <1>6, ConsumerBoundary, UnchangedBelow
     DEF StreamDelta, FinalAnswer, Progress
<1>7. CASE ToolUpdate \/ MarkTerminal
  BY <1>1, <1>7, ToolUpdateBoundary, MarkTerminalBoundary, UnchangedBelow
     DEF ToolUpdate, MarkTerminal
<1>8. CASE ShutDown \/ Expire
  BY <1>1, <1>8, ShutDownBoundary, UnchangedBelow DEF ShutDown, Expire
<1>9. CASE Flush
  BY <1>1, <1>9, FlushBoundary
<1>10. CASE Done \/ UNCHANGED vars
  <2>1. UNCHANGED <<st, segs, ctl, lock, task, newest, disp>>
    BY <1>10 DEF Done, vars
  <2> QED
    BY <2>1, StillStep, UnchangedBelow
<1> QED
  BY <1>1, <1>2, <1>3, <1>4, <1>5, <1>6, <1>7, <1>8, <1>9, <1>10 DEF Next

LEMMA BoundariesInvariant ==
  ~MayCancel \/ Steers = {} => (Spec => []BoundaryInv)
<1> SUFFICES ASSUME ~MayCancel \/ Steers = {}
             PROVE  Spec => []BoundaryInv
  OBVIOUS
<1>1. TypeOK /\ WritesInv /\ BoundaryInv /\ [Next]_vars => BoundaryInv'
  BY NextBoundary
<1> QED
  BY <1>1, InitBoundary, TypeCorrect, WritesGuarded, PTL DEF Spec

\* As long as no steer's task is cancelled, a new segment is committed only
\* where a boundary froze the one above it (the checks of
\* _create_cardkit_segment under state.lock), whatever coroutines and API
\* failures meet.
THEOREM SegmentsFollowBoundaries == ~MayCancel => (Spec => CommitOntoFrozen)
<1> SUFFICES ASSUME ~MayCancel
             PROVE  Spec => CommitOntoFrozen
  OBVIOUS
<1>1. TypeOK /\ WritesInv /\ BoundaryInv /\ [Next]_vars =>
        [st'.cur # st.cur /\ st.cur # 0 => ~st.open /\ ~st.closed]_st
  BY NextBoundary DEF Replaces
<1> QED
  BY <1>1, TypeCorrect, WritesGuarded, BoundariesInvariant, PTL
     DEF Spec, CommitOntoFrozen

\* As long as no steer's task is cancelled, streamed text, progress and tool
\* states are only written to the card that was published below the boundary
\* committed last (the checks of the flush, _update_cardkit_tool_for_ticket and
\* _finalize_cardkit under state.lock).
THEOREM OutputStaysBelow == ~MayCancel => (Spec => OutputBelowBoundary)
<1> SUFFICES ASSUME ~MayCancel
             PROVE  Spec => OutputBelowBoundary
  OBVIOUS
<1>1. TypeOK /\ WritesInv /\ BoundaryInv /\ [Next]_vars =>
        [\A i \in Cards :
           segs'[i] # segs[i] /\ segs'[i].status = "streaming"
             => i = st.cur /\ segs[i].anchor = newest]_segs
  BY NextBoundary DEF Below
<1> QED
  BY <1>1, TypeCorrect, WritesGuarded, BoundariesInvariant, PTL
     DEF Spec, OutputBelowBoundary

-----------------------------------------------------------------------------
(* One dispatch that is not steered: who does what *)

Making == Creations \cup {"rt.write"}
Suspensions == {"sus.quiet", "sus.lock", "sus.write"}
Resuming == {"rs.enter", "rs.ok", "rs.end"}
Finalizing ==
  {"fin.enter", "fin.quiet", "fin.lock", "fin.write", "fin.ret", "fb.call"}

\* r makes sure that there is a segment to write to.
Resumes(r) == r.pc \in Resuming \/ (r.pc \in Making /\ r.ret = "rs.end")

\* What coroutine r of t may be doing.
Doing(t, r) ==
  /\ r.op # "tool" => r.tool = "none"
  /\ \/ r.pc = "idle" /\ r.op = "none"
     \/ /\ t = "runner" /\ r.op = "start" /\ r.ret = "st.next"
        /\ r.pc \in {"cr.entity", "cr.send", "cr.commit", "st.next"}
     \/ t = "runner" /\ r.op = "complete" /\ r.pc \in Finalizing
     \/ t = "closer" /\ r.op = "shutdown" /\ r.pc \in Finalizing
     \/ /\ t = "consumer" /\ r.op = "final" /\ r.text = "answer"
        /\ Resumes(r) \/ r.pc \in Finalizing
     \/ /\ \/ t = "consumer" /\ r.op = "stream" /\ r.text \in {"part", "answer"}
           \/ t = "notifier" /\ r.op = "progress" /\ r.text = "prog"
        /\ \/ Resumes(r) \/ r.pc \in {"out.begin", "out.commit"}
           \/ r.pc = "fb.call" /\ r.ret = "idle"
     \/ /\ t = "agent" /\ r.op = "tool"
        /\ Resumes(r) \/ r.pc \in {"tool.check", "tool.commit", "tool.write"}
     \/ /\ t = "agent" /\ r.op = "boundary" /\ r.ret = "idle"
        /\ r.why \in {"artifact", "approval", "question"}
        /\ r.pc \in Suspensions
     \/ t = "expirer" /\ r.op = "expire" /\ r.pc = "ex.lock"

\* The inductive invariant of the coroutines: no transition to another segment
\* is ever under way.
RolesInv == ~st.trans /\ \A t \in Tasks : Doing(t, task[t])

LEMMA IdleDoes == \A t : Doing(t, Idle)
BY DEF Doing, Idle

\* A step of t that acknowledges no tool and sets out to no tool's write.
Acts(t) ==
  /\ RolesInv'
  /\ disp'.toolAcked = disp.toolAcked
  /\ \A u \in Tasks \ {t} : task'[u] = task[u]
  /\ task'[t].op = "tool" => task[t].op = "tool"
  /\ task'[t].pc # "tool.write"

\* t goes on with r.
LEMMA GoDoes ==
  ASSUME TypeOK, RolesInv, NEW t \in Tasks, NEW r, Go(t, r), Doing(t, r),
         st'.trans = st.trans
  PROVE  RolesInv' /\ task'[t] = r /\ \A u \in Tasks \ {t} : task'[u] = task[u]
<1>1. task' = [task EXCEPT ![t] = r] /\ task \in [Tasks -> Coroutines]
  BY DEF Go, TypeOK
<1> QED
  BY <1>1 DEF RolesInv

LEMMA GoActs ==
  ASSUME TypeOK, RolesInv, NEW t \in Tasks, NEW r, Go(t, r), Doing(t, r),
         st'.trans = st.trans, UNCHANGED disp, r.pc # "tool.write",
         r.op = "tool" => task[t].op = "tool"
  PROVE  Acts(t)
BY GoDoes DEF Acts

LEMMA StillDoes ==
  ASSUME RolesInv, UNCHANGED task, st'.trans = st.trans
  PROVE  RolesInv'
BY DEF RolesInv

\* r does the same as q elsewhere.
SameCall(r, q) ==
  r.op = q.op /\ r.tool = q.tool /\ r.why = q.why /\ r.text = q.text

LEMMA ToSameCall ==
  ASSUME TypeOK, NEW t \in Tasks, NEW p
  PROVE  /\ To(t, p).pc = p /\ To(t, p).ret = task[t].ret
         /\ SameCall(To(t, p), task[t])
BY DEF TypeOK, To, Coroutines, SameCall

\* Nobody is steered.
LEMMA NoSteering ==
  ASSUME RolesInv, NEW t \in Tasks
  PROVE  /\ task[t].op \notin {"ack", "silent"}
         /\ task[t].pc \notin {"st.begin", "st.end", "st.silent", "adopt"}
         /\ task[t].op # "tool" => task[t].tool = "none"
BY DEF RolesInv, Doing, Resumes, Resuming, Making, Creations, Finalizing,
   Suspensions

\* A coroutine that is over reports to Hermes; only a tool's does so for a
\* tool.
LEMMA FinishDoes ==
  ASSUME TypeOK, RolesInv, NEW t \in Tasks, NEW ok \in BOOLEAN, Finish(t, ok),
         st'.trans = st.trans
  PROVE  /\ RolesInv' /\ Go(t, Idle) /\ task'[t] = Idle
         /\ \A u \in Tasks \ {t} : task'[u] = task[u]
         /\ disp'.toolAcked
              <=> disp.toolAcked \/ (task[t].tool = "success" /\ ok)
<1>1. task[t].op # "ack"
  BY NoSteering
<1>2. Go(t, Idle)
  BY <1>1 DEF Finish
<1>3. disp'.toolAcked <=> disp.toolAcked \/ (task[t].tool = "success" /\ ok)
  BY <1>1 DEF Finish, TypeOK, Dispatches
<1> QED
  BY <1>2, <1>3, GoDoes, IdleDoes

LEMMA FinishActs ==
  ASSUME TypeOK, TypeOK', RolesInv, NEW t \in Tasks, NEW ok \in BOOLEAN,
         Finish(t, ok), st'.trans = st.trans, task[t].op # "tool" \/ ~ok
  PROVE  Acts(t)
<1>1. task[t].tool # "success" \/ ~ok
  BY NoSteering
<1>2. disp'.toolAcked <=> disp.toolAcked
  BY <1>1, FinishDoes
<1>3. disp'.toolAcked = disp.toolAcked
  BY <1>2 DEF TypeOK, Dispatches
<1>4. Idle.op = "none" /\ Idle.pc # "tool.write"
  BY DEF Idle
<1> QED
  BY <1>3, <1>4, FinishDoes DEF Acts

LEMMA CreatedActs ==
  ASSUME TypeOK, RolesInv, NEW t \in Tasks, NEW ok \in BOOLEAN, Created(t, ok),
         task[t].pc \in Making, st'.trans = st.trans, UNCHANGED disp
  PROVE  Acts(t)
<1> DEFINE p == IF ok /\ task[t].ret = "rs.end" THEN "rs.ok" ELSE task[t].ret
           r == [task[t] EXCEPT !.res = ok, !.pc = p]
<1>1. r.pc = p /\ r.ret = task[t].ret /\ SameCall(r, task[t])
  BY DEF TypeOK, Coroutines, SameCall
<1>2. /\ task[t].ret \in {"st.next", "rs.end"} /\ Doing(t, task[t])
  BY DEF RolesInv, Doing, Resumes, Resuming, Making, Creations, Finalizing,
     Suspensions
<1>3. task[t].ret = "rs.end" => p \in {"rs.ok", "rs.end"}
  OBVIOUS
<1>4. task[t].ret # "rs.end" => p = "st.next"
  BY <1>2
<1>5. Go(t, r)
  BY DEF Created
<1> HIDE DEF p, r
<1>6. Doing(t, r)
  BY <1>1, <1>2, <1>3, <1>4 DEF Doing, SameCall, Resumes, Resuming, Making,
     Creations, Finalizing, Suspensions
<1>7. r.pc # "tool.write" /\ r.op = task[t].op
  BY <1>1, <1>2, <1>3, <1>4 DEF SameCall
<1> QED
  BY <1>5, <1>6, <1>7, GoActs

\* t goes on at p in the same call.
LEMMA ToActs ==
  ASSUME TypeOK, RolesInv, NEW t \in Tasks, NEW p, Go(t, To(t, p)),
         p # "tool.write", st'.trans = st.trans, UNCHANGED disp,
         \A r : /\ r.pc = p /\ r.ret = task[t].ret /\ SameCall(r, task[t])
                => Doing(t, r)
  PROVE  Acts(t)
<1>1. To(t, p).pc = p /\ To(t, p).op = task[t].op /\ Doing(t, To(t, p))
  BY ToSameCall DEF SameCall
<1> QED
  BY <1>1, GoActs

-----------------------------------------------------------------------------
(* Creation and suspension *)

LEMMA CreateEntityActs ==
  ASSUME TypeOK, RolesInv, NEW t \in Tasks,
         CreateEntity(t) \/ CreateCheck(t) \/ CreateSend(t)
  PROVE  Acts(t)
<1> DEFINE r == [To(t, "cr.commit") EXCEPT !.ref = Len(segs')]
<1>1. /\ task[t].pc \in {"cr.entity", "cr.check", "cr.send"}
      /\ UNCHANGED <<st, disp>>
      /\ \/ Created(t, FALSE)
         \/ Go(t, To(t, "cr.check")) /\ task[t].ret # "st.next"
         \/ Go(t, To(t, "cr.send"))
         \/ Go(t, r)
  <2>1. CASE CreateEntity(t)
    <3>1. Created(t, FALSE) \/ Go(t, To(t, IF task[t].ret = "st.next"
                           THEN "cr.send" ELSE "cr.check"))
      BY <2>1 DEF CreateEntity
    <3> QED
      BY <2>1, <3>1 DEF CreateEntity, At
  <2>2. CASE CreateCheck(t)
    BY <2>2 DEF CreateCheck, At
  <2>3. CASE CreateSend(t)
    BY <2>3 DEF CreateSend, At
  <2> QED
    BY <2>1, <2>2, <2>3
<1>2. r.pc = "cr.commit" /\ r.ret = task[t].ret /\ SameCall(r, task[t])
  BY DEF TypeOK, To, Coroutines, SameCall
<1> HIDE DEF r
<1>3. Doing(t, task[t]) /\ task[t].pc \in Making
  BY <1>1 DEF RolesInv, Making, Creations
<1>4. ASSUME NEW q, q.pc \in {"cr.check", "cr.send", "cr.commit"},
             q.pc = "cr.check" => task[t].ret # "st.next",
             q.ret = task[t].ret, SameCall(q, task[t])
      PROVE  Doing(t, q)
  BY <1>1, <1>3, <1>4 DEF Doing, SameCall, Resumes, Resuming, Making,
     Creations, Finalizing, Suspensions
<1>5. CASE Created(t, FALSE)
  BY <1>1, <1>3, <1>5, CreatedActs
<1>6. CASE Go(t, r)
  BY <1>1, <1>2, <1>4, <1>6, GoActs DEF SameCall
<1>7. CASE Go(t, To(t, "cr.check")) /\ task[t].ret # "st.next"
  BY <1>1, <1>4, <1>7, ToActs
<1>8. CASE Go(t, To(t, "cr.send"))
  BY <1>1, <1>4, <1>8, ToActs
<1> QED
  BY <1>1, <1>5, <1>6, <1>7, <1>8

\* The state shows the same card and tool, in no other transition.
Steady(s, q) == q.cur = s.cur /\ q.tool = s.tool /\ q.trans = s.trans

LEMMA SteadyMarks ==
  ASSUME NEW s \in States
  PROVE  /\ Steady(s, s) /\ Steady(s, Unavailable(s)) /\ Steady(s, Forgotten(s))
         /\ \A out : Steady(s, ClosedBy(s, out))
         /\ \A p : Steady(s, Frozen(s, p))
         /\ \A n : Steady(s, [s EXCEPT !.seq = n])
<1>1. Steady(s, s) /\ Steady(s, Unavailable(s)) /\ Steady(s, Forgotten(s))
  BY DEF States, Steady, Unavailable, Forgotten
<1>2. \A out : Steady(s, ClosedBy(s, out))
  BY DEF States, Steady, ClosedBy
<1>3. \A n : Steady(s, [s EXCEPT !.seq = n])
  BY DEF States, Steady
<1>4. \A p : Steady(s, Frozen(s, p))
  BY DEF States, Steady, Frozen
<1> QED
  BY <1>1, <1>2, <1>3, <1>4

LEMMA SteadyFailure ==
  ASSUME NEW s \in States, NEW o, NEW full \in BOOLEAN
  PROVE  Steady(s, AfterFailure(s, o, full))
<1> DEFINE p == s.pending \/ full
<1>1. /\ Steady(s, Unavailable(s))
      /\ Steady(s, [s EXCEPT !.disabled = TRUE])
      /\ Steady(s, [s EXCEPT !.pending = p])
  BY SteadyMarks DEF States, Steady
<1>2. AfterFailure(s, o, full) \in {Unavailable(s),
                                    [s EXCEPT !.disabled = TRUE],
                                  [s EXCEPT !.pending = p]}
  BY DEF AfterFailure
<1> HIDE DEF p
<1> QED
  BY <1>1, <1>2

LEMMA CreateCommitActs ==
  ASSUME TypeOK, RolesInv, NEW t \in Tasks, CreateCommit(t) \/ RetireWrite(t)
  PROVE  /\ Acts(t) /\ st'.trans = st.trans
         /\ \/ UNCHANGED st
            \/ Publishing(t) /\ st'.cur = task[t].ref /\ st'.tool = "none"
<1> DEFINE a == IF task[t].ret = "rs.end" THEN st.active ELSE t
<1>1. /\ task[t].pc \in {"cr.commit", "rt.write"} /\ UNCHANGED disp
      /\ \/ UNCHANGED st /\ Created(t, FALSE)
         \/ /\ UNCHANGED st /\ Go(t, To(t, "rt.write"))
            /\ task[t].ret # "st.next"
         \/ st' = Opened(st, task[t].ref, a) /\ Created(t, TRUE)
  BY DEF CreateCommit, RetireWrite, At
<1>2. /\ Opened(st, task[t].ref, a).cur = task[t].ref
      /\ Opened(st, task[t].ref, a).tool = "none"
      /\ Opened(st, task[t].ref, a).trans = st.trans
  BY DEF Opened, NewState
<1> HIDE DEF a
<1>3. st'.trans = st.trans /\ task[t].pc \in Making
  BY <1>1, <1>2 DEF Making, Creations
<1>4. CASE \E ok \in BOOLEAN : Created(t, ok)
  BY <1>1, <1>2, <1>3, <1>4, CreatedActs DEF Publishing
<1>5. CASE Go(t, To(t, "rt.write")) /\ UNCHANGED st /\ task[t].ret # "st.next"
  <2>1. ASSUME NEW r, r.pc = "rt.write", r.ret = task[t].ret,
               SameCall(r, task[t])
        PROVE  Doing(t, r)
    BY <1>3, <1>5, <2>1 DEF RolesInv, Doing, SameCall, Resumes, Resuming,
       Making, Creations, Finalizing, Suspensions
  <2> QED
    BY <1>1, <1>5, <2>1, ToActs
<1> QED
  BY <1>1, <1>4, <1>5

\* Whoever drains, freezes or waits for that.
LEMMA DrainActs ==
  ASSUME TypeOK, RolesInv, NEW t \in Tasks, Drain(t)
  PROVE  Acts(t)
<1>1. /\ UNCHANGED <<st, disp>>
      /\ \/ task[t].pc = "sus.quiet" /\ Go(t, To(t, "sus.lock"))
         \/ task[t].pc = "fin.quiet" /\ Go(t, To(t, "fin.lock"))
  <2>1. CASE task[t].pc = "sus.quiet"
    BY <2>1 DEF Drain
  <2>2. CASE task[t].pc # "sus.quiet"
    BY <2>2 DEF Drain, At
  <2> QED
    BY <2>1, <2>2
<1>2. ASSUME NEW r, NEW p \in {"sus.lock", "fin.lock"}, r.pc = p,
             \/ task[t].pc = "sus.quiet" /\ p = "sus.lock"
             \/ task[t].pc = "fin.quiet" /\ p = "fin.lock",
             r.ret = task[t].ret, SameCall(r, task[t])
      PROVE  Doing(t, r)
  BY <1>2 DEF RolesInv, Doing, SameCall, Resumes, Resuming,
     Making, Creations, Finalizing, Suspensions
<1> QED
  BY <1>1, <1>2, ToActs

\* Only the agent suspends.
LEMMA Suspends ==
  ASSUME RolesInv, NEW t \in Tasks, task[t].pc \in Suspensions
  PROVE  t = "agent" /\ task[t].op = "boundary" /\ task[t].ret = "idle"
BY DEF RolesInv, Doing, Resumes, Resuming, Making, Creations, Finalizing,
   Suspensions

LEMMA SuspendLockedActs ==
  ASSUME TypeOK, TypeOK', RolesInv, NEW t \in Tasks, SuspendLocked(t)
  PROVE  /\ Acts(t)
         /\ st'.cur = st.cur /\ (st'.tool = st.tool \/ st.tool = "running")
<1> DEFINE s == Anchored(st, task[t].want, task[t].why)
           q(w) == [s EXCEPT !.tool = w]
<1>1. /\ task[t].pc \in Suspensions
      /\ \/ UNCHANGED st /\ Suspended(t)
         \/ st' = s /\ Suspended(t)
         \/ /\ Go(t, To(t, "sus.write")) /\ UNCHANGED disp
            /\ st' = s \/ (s.tool = "running" /\ \E w : st' = q(w))
  BY DEF SuspendLocked, At, Suspensions
<1>2. s \in States /\ Steady(st, s)
  <2>1. st \in States /\ task[t].want \in Nat /\ task[t].why \in Reasons
    BY DEF TypeOK, Coroutines
  <2>2. s \in States
    BY <2>1, AnchoredType
  <2>3. Steady(st, s)
    BY <2>1 DEF Steady, Anchored, States
  <2> QED
    BY <2>2, <2>3
<1>3. \A w : q(w).cur = s.cur /\ q(w).trans = s.trans
  BY <1>2 DEF States
<1> HIDE DEF s, q
<1>4. /\ st'.trans = st.trans /\ st'.cur = st.cur
      /\ st'.tool = st.tool \/ st.tool = "running"
  BY <1>1, <1>2, <1>3 DEF Steady
<1>5. CASE Suspended(t)
  BY <1>1, <1>4, <1>5, Suspends, FinishActs DEF Suspended
<1>6. CASE Go(t, To(t, "sus.write")) /\ UNCHANGED disp
  <2>1. ASSUME NEW r, r.pc = "sus.write", r.ret = task[t].ret,
               SameCall(r, task[t])
        PROVE  Doing(t, r)
    BY <1>1, <2>1 DEF RolesInv, Doing, SameCall, Resumes, Resuming,
       Making, Creations, Finalizing, Suspensions
  <2> QED
    BY <1>4, <1>6, <2>1, ToActs
<1> QED
  BY <1>1, <1>4, <1>5, <1>6

LEMMA SuspendWriteActs ==
  ASSUME TypeOK, TypeOK', RolesInv, NEW t \in Tasks, SuspendWrite(t)
  PROVE  Acts(t) /\ Steady(st, st')
<1> DEFINE frozen == IF task[t].why \in {"steer", "artifact"} THEN "continued"
                     ELSE "waiting"
           s == Frozen(st, frozen)
           gone == Unavailable(st)
           left == Unavailable(s)
<1>1. /\ task[t].pc \in Suspensions /\ Suspended(t)
      /\ \/ st' = s
         \/ st' = [gone EXCEPT !.seq = @ + 1]
         \/ st' = [left EXCEPT !.phase = frozen]
  BY DEF SuspendWrite, At, Suspensions, Outcome
<1>2. frozen \in Phases /\ st \in States
  BY DEF Phases, TypeOK
<1>3. s \in States /\ Steady(st, s)
  BY <1>2, FrozenType, SteadyMarks
<1>4. /\ gone \in States /\ Steady(st, gone)
      /\ left \in States /\ Steady(s, left)
  BY <1>2, <1>3, UnavailableType, SteadyMarks
<1> HIDE DEF frozen, s, gone, left
<1>5. Steady(left, [left EXCEPT !.phase = frozen])
  BY <1>4 DEF Steady, States
<1>6. Steady(gone, [gone EXCEPT !.seq = @ + 1])
  BY <1>4 DEF Steady, States
<1>7. Steady(st, st')
  BY <1>1, <1>3, <1>4, <1>5, <1>6 DEF Steady
<1> QED
  BY <1>1, <1>7, Suspends, FinishActs DEF Suspended, Steady

-----------------------------------------------------------------------------
(* Output and tools *)

\* What the caller of a resume goes on with.
LEMMA AfterResumeActs ==
  ASSUME TypeOK, TypeOK', RolesInv, NEW t \in Tasks, NEW ok \in BOOLEAN,
         AfterResume(t, ok), st'.trans = st.trans, Resumes(task[t])
  PROVE  Acts(t)
<1> DEFINE q == [To(t, "fb.call") EXCEPT !.ref = st.fb, !.expect = st.anchor,
                                         !.ret = "idle"]
           points == {"tool.commit", "tool.check", "fin.enter", "out.commit"}
<1>1. \/ /\ task[t].op = "tool" /\ UNCHANGED disp
         /\ \E p \in {"tool.commit", "tool.check"} : Go(t, To(t, p))
      \/ task[t].op = "final" /\ UNCHANGED disp /\ Go(t, To(t, "fin.enter"))
      \/ /\ task[t].op \notin {"tool", "final"}
         /\ \/ UNCHANGED disp /\ Go(t, To(t, "out.commit"))
            \/ UNCHANGED disp /\ Go(t, q)
            \/ Finish(t, TRUE)
  BY DEF AfterResume
<1>2. q.pc = "fb.call" /\ q.ret = "idle" /\ SameCall(q, task[t])
  BY DEF TypeOK, To, Coroutines, SameCall
<1> HIDE DEF q
<1>3. ASSUME NEW r, SameCall(r, task[t]),
             \/ task[t].op = "tool" /\ r.pc \in {"tool.commit", "tool.check"}
             \/ task[t].op = "final" /\ r.pc = "fin.enter"
             \/ task[t].op \notin {"tool", "final"} /\ r.pc = "out.commit"
             \/ /\ task[t].op \notin {"tool", "final"}
                /\ r.pc = "fb.call" /\ r.ret = "idle"
      PROVE  Doing(t, r)
  BY <1>3 DEF RolesInv, Doing, SameCall, Resumes, Resuming, Making, Creations,
     Finalizing, Suspensions
<1>4. CASE task[t].op = "tool"
  BY <1>1, <1>3, <1>4, ToActs
<1>5. CASE task[t].op = "final"
  BY <1>1, <1>3, <1>5, ToActs
<1>6. CASE task[t].op \notin {"tool", "final"}
  <2>1. CASE Go(t, To(t, "out.commit")) /\ UNCHANGED disp
    BY <1>3, <1>6, <2>1, ToActs
  <2>2. CASE Go(t, q) /\ UNCHANGED disp
    BY <1>2, <1>3, <1>6, <2>2, GoActs DEF SameCall
  <2>3. CASE Finish(t, TRUE)
    BY <1>6, <2>3, FinishActs
  <2> QED
    BY <1>1, <1>6, <2>1, <2>2, <2>3
<1> QED
  BY <1>4, <1>5, <1>6

LEMMA ResumeActs ==
  ASSUME TypeOK, TypeOK', RolesInv, NEW t \in Tasks,
         ResumeEnter(t) \/ ResumeOk(t) \/ ResumeEnd(t)
  PROVE  Acts(t) /\ Steady(st, st')
<1> DEFINE q == [[task[t] EXCEPT !.expect = st.anchor, !.ret = "rs.end"]
                   EXCEPT !.pc = "cr.entity", !.ref = 0]
<1>1. /\ task[t].pc \in Resuming
      /\ st' \in {st, [st EXCEPT !.reason = "fallback"]}
      /\ \/ \E ok \in BOOLEAN : AfterResume(t, ok)
         \/ Go(t, q) /\ UNCHANGED <<st, disp>>
  <2>1. st.closed \in BOOLEAN /\ st.open \in BOOLEAN /\ st.routed \in BOOLEAN
    BY DEF TypeOK, States
  <2>2. CASE ResumeEnter(t)
    BY <2>1, <2>2 DEF ResumeEnter, At, Resuming, Create
  <2>3. CASE ResumeOk(t)
    BY <2>3 DEF ResumeOk, At, Resuming
  <2>4. CASE ResumeEnd(t)
    BY <2>1, <2>4 DEF ResumeEnd, At, Resuming
  <2> QED
    BY <2>2, <2>3, <2>4
<1>2. Steady(st, st')
  BY <1>1 DEF Steady, TypeOK, States
<1>3. q.pc = "cr.entity" /\ q.ret = "rs.end" /\ SameCall(q, task[t])
  BY DEF TypeOK, Coroutines, SameCall
<1> HIDE DEF q
<1>4. Resumes(task[t])
  BY <1>1 DEF Resumes
<1>5. CASE Go(t, q) /\ UNCHANGED disp
  <2>1. Doing(t, q)
    BY <1>1, <1>3 DEF RolesInv, Doing, SameCall, Resumes, Resuming, Making,
       Creations, Finalizing, Suspensions
  <2> QED
    BY <1>2, <1>3, <1>5, <2>1, GoActs DEF Steady, SameCall
<1> QED
  BY <1>1, <1>2, <1>4, <1>5, AfterResumeActs DEF Steady

LEMMA SteerNextActs ==
  ASSUME TypeOK, RolesInv, NEW t \in Tasks, SteerNext(t)
  PROVE  Acts(t)
<1>1. task[t].op = "start"
  BY DEF SteerNext, At, RolesInv, Doing, Resumes, Resuming, Making, Creations,
     Finalizing, Suspensions
<1>2. UNCHANGED st /\ Go(t, Idle) /\ disp' = [disp EXCEPT !.phase = "active"]
  BY <1>1 DEF SteerNext
<1>3. disp'.toolAcked = disp.toolAcked
  BY <1>2 DEF TypeOK, Dispatches
<1>4. Idle.op = "none" /\ Idle.pc # "tool.write"
  BY DEF Idle
<1> QED
  BY <1>2, <1>3, <1>4, GoDoes, IdleDoes DEF Acts

LEMMA OutputBeginActs ==
  ASSUME TypeOK, TypeOK', RolesInv, NEW t \in Tasks, OutputBegin(t)
  PROVE  Acts(t)
<1> DEFINE q == [To(t, "fb.call") EXCEPT !.ref = st.fb, !.expect = st.anchor,
                                         !.ret = "idle"]
<1>1. /\ task[t].pc = "out.begin" /\ UNCHANGED st
      /\ \/ \E ok \in BOOLEAN : Finish(t, ok)
         \/ UNCHANGED disp /\ (Go(t, q) \/ Go(t, To(t, "rs.enter")))
  BY DEF OutputBegin, At
<1>2. q.pc = "fb.call" /\ q.ret = "idle" /\ SameCall(q, task[t])
  BY DEF TypeOK, To, Coroutines, SameCall
<1> HIDE DEF q
<1>3. task[t].op # "tool"
  BY <1>1 DEF RolesInv, Doing, Resumes, Resuming, Making, Creations, Finalizing,
     Suspensions
<1>4. ASSUME NEW r, SameCall(r, task[t]),
             r.pc = "rs.enter" \/ (r.pc = "fb.call" /\ r.ret = "idle")
      PROVE  Doing(t, r)
  BY <1>1, <1>4 DEF RolesInv, Doing, SameCall, Resumes, Resuming, Making,
     Creations, Finalizing, Suspensions
<1>5. CASE \E ok \in BOOLEAN : Finish(t, ok)
  BY <1>1, <1>3, <1>5, FinishActs
<1>6. CASE UNCHANGED disp /\ Go(t, q)
  BY <1>1, <1>2, <1>4, <1>6, GoActs DEF SameCall
<1>7. CASE UNCHANGED disp /\ Go(t, To(t, "rs.enter"))
  BY <1>1, <1>4, <1>7, ToActs
<1> QED
  BY <1>1, <1>5, <1>6, <1>7

LEMMA OutputCommitActs ==
  ASSUME TypeOK, TypeOK', RolesInv, NEW t \in Tasks, OutputCommit(t)
  PROVE  Acts(t) /\ Steady(st, st')
<1>1. /\ task[t].pc = "out.commit" /\ \E ok \in BOOLEAN : Finish(t, ok)
      /\ st' \in {st, [st EXCEPT !.pending = TRUE],
                  [st EXCEPT !.content = task[t].text]}
  BY DEF OutputCommit, At
<1>2. Steady(st, st')
  BY <1>1 DEF Steady, TypeOK, States
<1>3. task[t].op # "tool"
  BY <1>1 DEF RolesInv, Doing, Resumes, Resuming, Making, Creations, Finalizing,
     Suspensions
<1> QED
  BY <1>1, <1>2, <1>3, FinishActs DEF Steady

LEMMA FallbackWriteActs ==
  ASSUME TypeOK, TypeOK', RolesInv, NEW t \in Tasks, FallbackWrite(t)
  PROVE  Acts(t) /\ Steady(st, st')
<1> DEFINE q(ok) == [To(t, "fin.ret") EXCEPT !.res = ok]
           r == task[t]
           final == r.ret = "fin.ret"
           f == IF r.ref = 0 THEN Len(posts') ELSE st.fb
           cl == st.closed \/ final
           ph == IF final THEN r.out ELSE st.phase
           ro == st.routed /\ ~final
           new == [st EXCEPT !.fb = f, !.content = r.text, !.closed = cl,
                             !.phase = ph, !.routed = ro]
<1>1. /\ task[t].pc = "fb.call" /\ st' \in {st, new}
      /\ \/ /\ task[t].ret = "fin.ret" /\ UNCHANGED disp
            /\ \E ok : Go(t, q(ok))
         \/ \E ok \in BOOLEAN : Finish(t, ok)
  <2>1. task[t].pc = "fb.call" /\ st' \in {st, new}
    BY DEF FallbackWrite, At
  <2>2. \/ /\ task[t].ret = "fin.ret" /\ UNCHANGED disp
           /\ \E ok : Go(t, q(ok))
        \/ \E ok \in BOOLEAN : Finish(t, ok)
    BY DEF FallbackWrite
  <2> QED
    BY <2>1, <2>2
<1> HIDE DEF f, cl, ph, ro
<1>2. Steady(st, st')
  BY <1>1 DEF Steady, TypeOK, States
<1>3. \A ok : q(ok).pc = "fin.ret" /\ SameCall(q(ok), task[t])
  BY DEF TypeOK, To, Coroutines, SameCall
<1> HIDE DEF q, new
<1>4. task[t].op # "tool"
  BY <1>1 DEF RolesInv, Doing, Resumes, Resuming, Making, Creations, Finalizing,
     Suspensions
<1>5. ASSUME NEW ok, Go(t, q(ok)), task[t].ret = "fin.ret", UNCHANGED disp
      PROVE  Acts(t)
  <2>1. Doing(t, q(ok))
    BY <1>1, <1>3, <1>5
       DEF RolesInv, Doing, SameCall, Resumes, Resuming, Making,
       Creations, Finalizing, Suspensions
  <2> QED
    BY <1>2, <1>3, <1>5, <2>1, GoActs DEF Steady, SameCall
<1> QED
  BY <1>1, <1>2, <1>4, <1>5, FinishActs DEF Steady

-----------------------------------------------------------------------------
(* The terminal write *)

LEMMA FinalizedActs ==
  ASSUME TypeOK, RolesInv, NEW t \in Tasks, NEW ok, Finalized(t, ok),
         st'.trans = st.trans, UNCHANGED disp,
         task[t].pc \in {"fin.enter", "fin.lock", "fin.write"}
  PROVE  Acts(t)
<1> DEFINE q == [To(t, "fin.ret") EXCEPT !.res = ok]
<1>1. q.pc = "fin.ret" /\ SameCall(q, task[t])
  BY DEF TypeOK, To, Coroutines, SameCall
<1>2. Go(t, q)
  BY DEF Finalized
<1> HIDE DEF q
<1>3. Doing(t, q)
  BY <1>1 DEF RolesInv, Doing, SameCall, Resumes, Resuming, Making,
     Creations, Finalizing, Suspensions
<1> QED
  BY <1>1, <1>2, <1>3, GoActs DEF SameCall

LEMMA FinalizeEnterActs ==
  ASSUME TypeOK, RolesInv, NEW t \in Tasks, FinalizeEnter(t)
  PROVE  Acts(t) /\ UNCHANGED st
<1> DEFINE x == Raw(task[t].text)
           r == [To(t, "fb.call") EXCEPT !.text = x, !.ref = st.fb,
                   !.expect = st.anchor, !.ret = "fin.ret"]
           q == [To(t, "fin.quiet") EXCEPT !.ref = st.cur]
<1>1. r.pc = "fb.call" /\ r.ret = "fin.ret" /\ r.op = task[t].op
      /\ r.tool = task[t].tool /\ r.why = task[t].why /\ r.text = x
  BY DEF To, TypeOK, Coroutines
<1>2. q.pc = "fin.quiet" /\ SameCall(q, task[t])
  BY DEF To, TypeOK, Coroutines, SameCall
<1>3. task[t].text = "answer" => x = "answer"
  BY DEF Raw
<1> HIDE DEF x, r, q
<1>4. ~st.trans
  BY DEF RolesInv
<1>5. /\ UNCHANGED <<st, disp>>
      /\ \/ \E ok : Finalized(t, ok)
         \/ Go(t, r)
         \/ Go(t, q)
  <2>1. CASE st.closed
    BY <1>4, <2>1 DEF FinalizeEnter
  <2>2. CASE ~st.closed /\ st.reason = "fallback"
    BY <1>4, <2>2 DEF FinalizeEnter, x, r
  <2>3. CASE ~st.closed /\ st.reason # "fallback"
    BY <1>4, <2>3 DEF FinalizeEnter, q
  <2> QED
    BY <2>1, <2>2, <2>3
<1>6. task[t].pc = "fin.enter"
  BY DEF FinalizeEnter, At
<1>7. Doing(t, r)
  BY <1>1, <1>3, <1>6 DEF RolesInv, Doing, Resumes, Resuming, Making,
     Creations, Finalizing, Suspensions
<1>8. Doing(t, q)
  BY <1>2, <1>6 DEF RolesInv, Doing, SameCall, Resumes, Resuming, Making,
     Creations, Finalizing, Suspensions
<1>9. CASE \E ok : Finalized(t, ok)
  BY <1>5, <1>6, <1>9, FinalizedActs
<1>10. CASE Go(t, r)
  BY <1>1, <1>5, <1>7, <1>10, GoActs
<1>11. CASE Go(t, q)
  BY <1>2, <1>5, <1>8, <1>11, GoActs DEF SameCall
<1> QED
  BY <1>5, <1>9, <1>10, <1>11

LEMMA FinalizeLockedActs ==
  ASSUME TypeOK, RolesInv, NEW t \in Tasks, FinalizeLocked(t)
  PROVE  Acts(t) /\ Steady(st, st')
<1> DEFINE x == Terminal(task[t].text)
<1>1. /\ task[t].pc = "fin.lock" /\ UNCHANGED disp
      /\ \/ UNCHANGED st /\ \E ok : Finalized(t, ok)
         \/ st' = [st EXCEPT !.content = x] /\ Go(t, To(t, "fin.write"))
  BY DEF FinalizeLocked, At
<1> HIDE DEF x
<1>2. Steady(st, st')
  BY <1>1 DEF Steady, TypeOK, States
<1>3. ASSUME NEW r, r.pc = "fin.write", r.ret = task[t].ret,
             SameCall(r, task[t])
      PROVE  Doing(t, r)
  BY <1>1, <1>3 DEF RolesInv, Doing, SameCall, Resumes, Resuming, Making,
     Creations, Finalizing, Suspensions
<1>4. CASE \E ok : Finalized(t, ok)
  BY <1>1, <1>2, <1>4, FinalizedActs DEF Steady
<1>5. CASE Go(t, To(t, "fin.write"))
  BY <1>1, <1>2, <1>3, <1>5, ToActs DEF Steady
<1> QED
  BY <1>1, <1>2, <1>4, <1>5

LEMMA FinalizeWriteActs ==
  ASSUME TypeOK, RolesInv, NEW t \in Tasks, FinalizeWrite(t)
  PROVE  Acts(t) /\ Steady(st, st')
<1> DEFINE q == ClosedBy(st, task[t].out)
           u == Unavailable(st)
           n == st.seq + (IF st.content # st.flushed THEN 3 ELSE 2)
<1>1. /\ task[t].pc = "fin.write" /\ UNCHANGED disp
      /\ \E x, k : \/ st' = [q EXCEPT !.seq = n, !.flushed = x]
                   \/ st' = [q EXCEPT !.seq = n]
                   \/ st' = [u EXCEPT !.seq = k]
      /\ \E ok : Finalized(t, ok)
  <2>1. task[t].pc = "fin.write"
    BY DEF FinalizeWrite, At
  <2>2. \E x, k : \/ st' = [q EXCEPT !.seq = n, !.flushed = x]
                  \/ st' = [q EXCEPT !.seq = n]
                  \/ st' = [u EXCEPT !.seq = k]
    BY DEF FinalizeWrite
  <2> QED
    BY <2>1, <2>2 DEF FinalizeWrite
<1>2. q \in States /\ u \in States /\ Steady(st, q) /\ Steady(st, u)
  <2>1. st \in States /\ task[t].out \in Phases
    BY DEF TypeOK, Coroutines, Phases
  <2> QED
    BY <2>1, ClosedByType, UnavailableType, SteadyMarks
<1> HIDE DEF q, u, n
<1>3. Steady(st, st')
  BY <1>1, <1>2 DEF Steady, States
<1> QED
  BY <1>1, <1>3, FinalizedActs DEF Steady

LEMMA FinalizeReturnActs ==
  ASSUME TypeOK, TypeOK', RolesInv, NEW t \in Tasks, FinalizeReturn(t)
  PROVE  Acts(t) /\ Steady(st, st')
<1>1. task[t].pc = "fin.ret" /\ st' \in {st, Forgotten(st)}
  BY DEF FinalizeReturn, At
<1>2. Steady(st, st')
  BY <1>1, SteadyMarks DEF TypeOK
<1>3. task[t].op \notin {"start", "ack", "silent", "tool"}
  BY <1>1 DEF RolesInv, Doing, Resumes, Resuming, Making, Creations, Finalizing,
     Suspensions
<1>4. task[t].res \in BOOLEAN /\ Finish(t, task[t].res)
  BY <1>3 DEF FinalizeReturn, TypeOK, Coroutines
<1> QED
  BY <1>2, <1>3, <1>4, FinishActs DEF Steady

LEMMA ToolCheckActs ==
  ASSUME TypeOK, TypeOK', RolesInv, NEW t \in Tasks, ToolCheck(t)
  PROVE  Acts(t) /\ UNCHANGED st
<1>1. ~st.trans
  BY DEF RolesInv
<1>2. /\ task[t].pc = "tool.check" /\ UNCHANGED st
      /\ \/ Go(t, To(t, "tool.commit")) /\ UNCHANGED disp
         \/ Finish(t, FALSE)
  BY <1>1 DEF ToolCheck, At
<1>3. ASSUME NEW r, r.pc = "tool.commit", r.ret = task[t].ret,
             SameCall(r, task[t])
      PROVE  Doing(t, r)
  BY <1>2, <1>3 DEF RolesInv, Doing, SameCall, Resumes, Resuming, Making,
     Creations, Finalizing, Suspensions
<1>4. CASE Go(t, To(t, "tool.commit")) /\ UNCHANGED disp
  BY <1>2, <1>3, <1>4, ToActs
<1>5. CASE Finish(t, FALSE)
  BY <1>2, <1>5, FinishActs
<1> QED
  BY <1>2, <1>4, <1>5

LEMMA ExpireLockedActs ==
  ASSUME TypeOK, RolesInv, NEW t \in Tasks, ExpireLocked(t)
  PROVE  Acts(t) /\ Steady(st, st')
<1>1. Steady(st, st')
  BY DEF ExpireLocked, Steady, TypeOK, States
<1>2. Go(t, Idle) /\ UNCHANGED disp /\ Idle.op = "none"
      /\ Idle.pc # "tool.write"
  BY DEF ExpireLocked, Idle
<1> QED
  BY <1>1, <1>2, IdleDoes, GoActs DEF Steady

\* The agent's thread writes a tool's state under the lock, and reports it when
\* it was written.
LEMMA ToolCommitActs ==
  ASSUME TypeOK, TypeOK', RolesInv, NEW t \in Tasks, ToolCommit(t)
  PROVE  /\ RolesInv' /\ t = "agent" /\ task[t].op = "tool"
         /\ disp'.toolAcked = disp.toolAcked
         /\ \A u \in Tasks \ {t} : task'[u] = task[u]
         /\ st'.cur = st.cur
         /\ task'[t].pc = "tool.write" => st'.tool = task'[t].tool
<1> DEFINE w == task[t].tool
           n == st.seq + 1
<1>1. /\ task[t].pc = "tool.commit"
      /\ \/ UNCHANGED st /\ Finish(t, FALSE)
         \/ /\ st' = [st EXCEPT !.tool = w, !.seq = n]
            /\ Go(t, To(t, "tool.write")) /\ UNCHANGED disp
  BY DEF ToolCommit, At
<1> HIDE DEF n
<1>2. t = "agent" /\ task[t].op = "tool"
  BY <1>1 DEF RolesInv, Doing, Resumes, Resuming, Making, Creations, Finalizing,
     Suspensions
<1>3. CASE UNCHANGED st /\ Finish(t, FALSE)
  <2>1. Acts(t)
    BY <1>3, FinishActs
  <2> QED
    BY <1>2, <1>3, <2>1 DEF Acts
<1>4. CASE /\ st' = [st EXCEPT !.tool = w, !.seq = n]
           /\ Go(t, To(t, "tool.write")) /\ UNCHANGED disp
  <2>1. st'.cur = st.cur /\ st'.trans = st.trans /\ st'.tool = w
    BY <1>4 DEF TypeOK, States
  <2>2. /\ To(t, "tool.write").pc = "tool.write"
        /\ SameCall(To(t, "tool.write"), task[t])
    BY ToSameCall
  <2>3. Doing(t, To(t, "tool.write"))
    BY <1>2, <2>2 DEF Doing, SameCall
  <2>4. /\ RolesInv' /\ task'[t] = To(t, "tool.write")
        /\ \A u \in Tasks \ {t} : task'[u] = task[u]
    BY <1>4, <2>1, <2>3, GoDoes
  <2> QED
    BY <1>2, <1>4, <2>1, <2>2, <2>4 DEF SameCall
<1> QED
  BY <1>1, <1>3, <1>4

LEMMA ToolWriteActs ==
  ASSUME TypeOK, TypeOK', RolesInv, NEW t \in Tasks, ToolWrite(t)
  PROVE  /\ RolesInv' /\ t = "agent" /\ task[t].op = "tool"
         /\ task'[t].op = "none" /\ task'[t].pc = "idle"
         /\ Steady(st, st')
         /\ disp'.toolAcked =>
              \/ disp.toolAcked
              \/ /\ task[t].tool = "success"
                 /\ segs' = [segs EXCEPT ![st.cur] =
                      [@ EXCEPT !.status = "streaming",
                                !.text = st.content, !.tool = st.tool,
                                !.seq = st.seq]]
<1> DEFINE c == [segs[st.cur] EXCEPT !.status = "streaming",
                                     !.text = st.content, !.tool = st.tool,
                                     !.seq = st.seq]
<1>1. PICK o :
        /\ task[t].pc = "tool.write" /\ Finish(t, o = "ok")
        /\ o = "ok" => segs' = [segs EXCEPT ![st.cur] = c]
        /\ \/ st' = [st EXCEPT !.pending = FALSE, !.phase = "generating"]
           \/ st' = AfterFailure(st, o, TRUE)
  BY DEF ToolWrite, At
<1> HIDE DEF c
<1>2. t = "agent" /\ task[t].op = "tool"
  BY <1>1 DEF RolesInv, Doing, Resumes, Resuming, Making, Creations, Finalizing,
     Suspensions
<1>3. Steady(st, st')
  <2>1. Steady(st, [st EXCEPT !.pending = FALSE, !.phase = "generating"])
    BY DEF Steady, TypeOK, States
  <2>2. Steady(st, AfterFailure(st, o, TRUE))
    BY SteadyFailure DEF TypeOK
  <2> QED
    BY <1>1, <2>1, <2>2
<1>4. /\ RolesInv' /\ task'[t] = Idle
      /\ disp'.toolAcked
           <=> disp.toolAcked \/ (task[t].tool = "success" /\ o = "ok")
  BY <1>1, <1>3, FinishDoes DEF Steady
<1>5. Idle.op = "none" /\ Idle.pc = "idle"
  BY DEF Idle
<1> QED
  BY <1>1, <1>2, <1>3, <1>4, <1>5 DEF c

-----------------------------------------------------------------------------
(* A tool's completion stays on its card *)

\* The card shows the completion, and a further write to it will.
Holds(i) == segs[i].tool = "success" /\ (i = st.cur => st.tool = "success")

\* The inductive invariant of tool completions: one that was acknowledged is
\* held by a card until the agent's next tool; no card that was never written
\* shows a tool.
ToolInv ==
  /\ disp.toolAcked => task["agent"].op # "tool" /\ \E i \in Cards : Holds(i)
  /\ task["agent"].pc = "tool.write" => st.tool = task["agent"].tool
  /\ \A i \in Cards : segs[i].seq = 0 => segs[i].tool = "none"

\* Cards keep the tool they show, but the current one that is drawn again.
Drawn ==
  /\ Cards \subseteq Cards'
  /\ \A i \in Cards : \/ segs'[i].tool = segs[i].tool
                      \/ i = st.cur /\ segs'[i].tool = st.tool
  /\ \A i \in Cards' \ Cards : segs'[i].tool = "none"

LEMMA UndrawnSegs ==
  ASSUME UNCHANGED segs
  PROVE  Drawn
BY DEF Drawn, Cards

\* One card is written.
LEMMA EditDrawn ==
  ASSUME TypeOK, NEW k, NEW c, segs' = [segs EXCEPT ![k] = c],
         k \in Cards => \/ c.tool = segs[k].tool
                        \/ k = st.cur /\ c.tool = st.tool
  PROVE  Drawn
<1>1. segs \in Seq(CardType)
  BY DEF TypeOK
<1>2. Len(segs') = Len(segs) /\ \A i \in Cards : i # k => segs'[i] = segs[i]
  BY <1>1 DEF Cards
<1>3. k \in Cards => segs'[k] = c
  BY <1>1 DEF Cards
<1>4. Cards' = Cards
  BY <1>2 DEF Cards
<1> QED
  BY <1>2, <1>3, <1>4 DEF Drawn

LEMMA CreateSendDrawn ==
  ASSUME TypeOK, NEW t \in Tasks, CreateSend(t)
  PROVE  Drawn
<1> DEFINE c == NewCard(ReplyTo(task[t]))
<1>1. segs' \in {segs, Append(segs, c)}
  BY DEF CreateSend
<1>2. c.tool = "none" /\ c \in CardType
  BY DEF NewCard, ReplyTo, CardType, TypeOK, Coroutines, Texts, ToolStates
<1> HIDE DEF c
<1>3. segs \in Seq(CardType)
  BY DEF TypeOK
<1>4. CASE segs' = Append(segs, c)
  <2>1. /\ Len(segs') = Len(segs) + 1 /\ segs'[Len(segs) + 1] = c
        /\ \A i \in Cards : segs'[i] = segs[i]
        /\ Len(segs) \in Nat
    BY <1>2, <1>3, <1>4 DEF Cards
  <2>2. Cards' = Cards \cup {Len(segs) + 1}
    BY <2>1 DEF Cards
  <2> QED
    BY <1>2, <2>1, <2>2 DEF Drawn
<1> QED
  BY <1>1, <1>4, UndrawnSegs

LEMMA RetireWriteDrawn ==
  ASSUME TypeOK, NEW t \in Tasks, RetireWrite(t)
  PROVE  Drawn
<1> DEFINE k == task[t].ref
           x == IF st.closed THEN "stopped" ELSE "continued"
           c == [segs[k] EXCEPT !.seq = 2, !.status = x]
<1>1. segs' = segs \/ segs' = [segs EXCEPT ![k] = c]
  BY DEF RetireWrite
<1> HIDE DEF x
<1>2. k \in Cards => c.tool = segs[k].tool
  <2>1. k \in Cards => segs[k] \in CardType
    BY ElementType DEF TypeOK, Cards
  <2> QED
    BY <2>1 DEF CardType
<1> HIDE DEF k, c
<1> QED
  BY <1>1, <1>2, EditDrawn, UndrawnSegs

\* What is drawn on the current card shows the tool of the state or of the card.
LEMMA CardTool ==
  ASSUME TypeOK, st.cur \in Cards, NEW e, NEW x, NEW n
  PROVE  /\ [segs[st.cur] EXCEPT !.status = e, !.text = x, !.tool = st.tool,
                                 !.seq = n].tool = st.tool
         /\ [segs[st.cur] EXCEPT !.status = "streaming",
                                 !.text = x, !.tool = st.tool,
                                 !.seq = n].tool = st.tool
         /\ [segs[st.cur] EXCEPT !.text = x, !.seq = n].tool = segs[st.cur].tool
<1>1. segs[st.cur] \in CardType
  BY ElementType DEF TypeOK, Cards
<1> QED
  BY <1>1 DEF CardType

LEMMA WritesDrawn ==
  ASSUME TypeOK, NEW t \in Tasks,
         SuspendWrite(t) \/ FinalizeWrite(t) \/ ToolWrite(t)
  PROVE  Drawn
<1> DEFINE a(e, x, n) == [segs[st.cur] EXCEPT !.status = e, !.text = x,
                                              !.tool = st.tool, !.seq = n]
           b(x, n) == [segs[st.cur] EXCEPT !.status = "streaming",
                                           !.text = x, !.tool = st.tool,
                                           !.seq = n]
           c(x, n) == [segs[st.cur] EXCEPT !.text = x, !.seq = n]
<1>1. \/ segs' = segs
      \/ \E e, x, n : segs' = [segs EXCEPT ![st.cur] = a(e, x, n)]
      \/ \E x, n : segs' = [segs EXCEPT ![st.cur] = b(x, n)]
      \/ \E x, n : segs' = [segs EXCEPT ![st.cur] = c(x, n)]
  <2>1. CASE SuspendWrite(t)
    <3> DEFINE frozen == IF task[t].why \in {"steer", "artifact"}
                         THEN "continued" ELSE "waiting"
               s == Frozen(st, frozen)
    <3>1. \/ segs' = segs
          \/ segs' = [segs EXCEPT ![st.cur] = a(frozen, st.content, s.seq)]
      BY <2>1 DEF SuspendWrite, Outcome
    <3> HIDE DEF a, frozen, s
    <3> QED
      BY <3>1
  <2>2. CASE FinalizeWrite(t)
    <3> DEFINE n == st.seq + (IF st.content # st.flushed THEN 3 ELSE 2)
    <3>1. \/ segs' = segs
          \/ segs' = [segs EXCEPT ![st.cur] = a(task[t].out, st.content, n)]
          \/ segs' = [segs EXCEPT ![st.cur] = c(st.content, st.seq + 1)]
      BY <2>2 DEF FinalizeWrite
    <3> HIDE DEF a, c, n
    <3> QED
      BY <3>1
  <2>3. CASE ToolWrite(t)
    <3>1. \/ segs' = segs
          \/ segs' = [segs EXCEPT ![st.cur] = b(st.content, st.seq)]
      BY <2>3 DEF ToolWrite
    <3> HIDE DEF b
    <3> QED
      BY <3>1
  <2> QED
    BY <2>1, <2>2, <2>3
<1>2. ASSUME st.cur \in Cards, NEW e, NEW x, NEW n
      PROVE  /\ a(e, x, n).tool = st.tool /\ b(x, n).tool = st.tool
             /\ c(x, n).tool = segs[st.cur].tool
  BY <1>2, CardTool
<1> HIDE DEF a, b, c
<1>3. ASSUME NEW d, segs' = [segs EXCEPT ![st.cur] = d],
             st.cur \in Cards => d.tool = st.tool \/ d.tool = segs[st.cur].tool
      PROVE  Drawn
  BY <1>3, EditDrawn
<1>4. ASSUME NEW e, NEW x, NEW n, segs' = [segs EXCEPT ![st.cur] = a(e, x, n)]
      PROVE  Drawn
  <2>1. st.cur \in Cards => a(e, x, n).tool = st.tool
    BY <1>2
  <2> QED
    BY <1>3, <1>4, <2>1
<1>5. CASE \E x, n : segs' = [segs EXCEPT ![st.cur] = b(x, n)]
  BY <1>2, <1>3, <1>5
<1>6. CASE \E x, n : segs' = [segs EXCEPT ![st.cur] = c(x, n)]
  BY <1>2, <1>3, <1>6
<1> QED
  BY <1>1, <1>4, <1>5, <1>6, UndrawnSegs

LEMMA FlushWriteDrawn ==
  ASSUME TypeOK, NEW i \in 1..Len(ctl), FlushWrite(i)
  PROVE  Drawn
<1> DEFINE text == ctl[i].text
           full == st.phase = "thinking" \/ st.pending
           changed == text # st.flushed
           s == IF full THEN [st EXCEPT !.seq = @ + 1,
                                !.phase = "generating", !.pending = FALSE]
                ELSE st
           drawn == [segs[st.cur] EXCEPT !.status = "streaming",
                                         !.text = text, !.tool = st.tool,
                                         !.seq = s.seq]
           card == IF full THEN drawn ELSE segs[st.cur]
           n == s.seq + 1
           end == [card EXCEPT !.text = text, !.seq = n]
<1>1. \/ segs' = segs
      \/ segs' = [segs EXCEPT ![st.cur] = IF changed THEN end ELSE card]
      \/ segs' = [segs EXCEPT ![st.cur] = card]
  BY DEF FlushWrite
<1>2. ASSUME st.cur \in Cards
      PROVE  /\ drawn.tool = st.tool /\ end.tool = card.tool
  <2>1. segs[st.cur] \in CardType
    BY <1>2, ElementType DEF TypeOK, Cards
  <2>2. drawn.tool = st.tool /\ "tool" \in DOMAIN drawn
    BY <2>1 DEF CardType
  <2>3. "tool" \in DOMAIN card
    BY <2>1, <2>2 DEF CardType
  <2> HIDE DEF card, drawn, n
  <2>4. end.tool = card.tool
    BY <2>3
  <2> QED
    BY <2>2, <2>4
<1>3. st.cur \in Cards => card.tool = st.tool \/ card.tool = segs[st.cur].tool
  BY <1>2
<1> HIDE DEF changed, end, card
<1> QED
  BY <1>1, <1>2, <1>3, EditDrawn, UndrawnSegs

LEMMA FlushWriteSteady ==
  ASSUME TypeOK, NEW i \in 1..Len(ctl), FlushWrite(i)
  PROVE  Steady(st, st')
<1> DEFINE text == ctl[i].text
           full == st.phase = "thinking" \/ st.pending
           m == st.seq + 1
           g == [st EXCEPT !.seq = m, !.phase = "generating", !.pending = FALSE]
           s == IF full THEN [st EXCEPT !.seq = @ + 1, !.phase = "generating",
                                        !.pending = FALSE]
                ELSE st
           n == s.seq + 1
           done == [s EXCEPT !.flushed = text, !.seq = n]
           one == [st EXCEPT !.seq = @ + 1]
           two == [s EXCEPT !.seq = n]
<1>1. st \in States /\ m \in Nat
  BY DEF TypeOK, States
<1>2. \E o : \/ st' \in {done, s}
             \/ st' = AfterFailure(one, o, TRUE)
             \/ st' = AfterFailure(two, o, FALSE)
  <2> DEFINE changed == text # st.flushed
  <2>1. \E o : \/ st' = IF changed THEN done ELSE s
               \/ st' = AfterFailure(one, o, TRUE)
               \/ st' = AfterFailure(two, o, FALSE)
    BY DEF FlushWrite
  <2> HIDE DEF done, s, one, two, changed
  <2> QED
    BY <2>1
<1>3. one = [st EXCEPT !.seq = m] /\ (s = g \/ s = st)
  OBVIOUS
<1> HIDE DEF text, full, m, one, s
<1>4. /\ one \in States /\ Steady(st, one) /\ g \in States /\ Steady(st, g)
      /\ Steady(st, st)
  BY <1>1, <1>3 DEF Steady, States, Phases
<1>5. s \in States /\ Steady(st, s)
  BY <1>1, <1>3, <1>4
<1> HIDE DEF g
<1>6. n \in Nat
  BY <1>5 DEF States
<1> HIDE DEF n
<1>7. two \in States /\ Steady(s, two) /\ Steady(s, done)
  BY <1>5, <1>6 DEF Steady, States
<1> HIDE DEF two, done
<1>8. ASSUME NEW o
      PROVE  /\ Steady(one, AfterFailure(one, o, TRUE))
             /\ Steady(two, AfterFailure(two, o, FALSE))
  BY <1>4, <1>7, SteadyFailure
<1>9. PICK o : \/ st' \in {done, s}
               \/ st' = AfterFailure(one, o, TRUE)
               \/ st' = AfterFailure(two, o, FALSE)
  BY <1>2
<1> QED
  BY <1>4, <1>5, <1>7, <1>8, <1>9 DEF Steady

LEMMA RunDrawn ==
  ASSUME TypeOK, NEW t \in Tasks, Run(t)
  PROVE  Drawn
<1>1. CASE CreateSend(t) \/ RetireWrite(t)
  BY <1>1, CreateSendDrawn, RetireWriteDrawn
<1>2. CASE SuspendWrite(t) \/ FinalizeWrite(t) \/ ToolWrite(t)
  BY <1>2, WritesDrawn
<1>3. CASE \/ CreateEntity(t) \/ CreateCheck(t) \/ CreateCommit(t)
           \/ Drain(t) \/ SuspendLocked(t)
           \/ ResumeEnter(t) \/ ResumeOk(t) \/ ResumeEnd(t)
           \/ SteerBegin(t) \/ SteerEnd(t) \/ SteerNext(t) \/ SteerSilent(t)
  BY <1>3, UndrawnSegs
     DEF CreateEntity, CreateCheck, CreateCommit, Drain, SuspendLocked,
         ResumeEnter, ResumeOk, ResumeEnd, SteerBegin, SteerEnd, SteerNext,
         SteerSilent
<1>4. CASE \/ OutputBegin(t) \/ OutputCommit(t) \/ FallbackWrite(t)
           \/ FinalizeEnter(t) \/ FinalizeLocked(t) \/ FinalizeReturn(t)
           \/ ToolCheck(t) \/ ToolCommit(t) \/ Adopt(t) \/ ExpireLocked(t)
  BY <1>4, UndrawnSegs
     DEF OutputBegin, OutputCommit, FallbackWrite, FinalizeEnter,
         FinalizeLocked, FinalizeReturn, ToolCheck, ToolCommit, Adopt,
         ExpireLocked
<1> QED
  BY <1>1, <1>2, <1>3, <1>4 DEF Run

-----------------------------------------------------------------------------
(* The steps of the coroutines *)

\* A card that was never written shows no tool.
LEMMA FreshTool ==
  ASSUME TypeOK, ToolInv, Rising, Drawn, NEW i \in Cards', segs'[i].seq = 0
  PROVE  segs'[i].tool = "none"
<1>1. CASE i \in Cards
  <2>1. segs[i] \in CardType
    BY <1>1, ElementType DEF TypeOK, Cards
  <2>2. segs'[i] = segs[i]
    BY <1>1, <2>1 DEF Rising, CardType
  <2> QED
    BY <1>1, <2>2 DEF ToolInv
<1>2. CASE i \notin Cards
  BY <1>2 DEF Drawn
<1> QED
  BY <1>1, <1>2

\* An acknowledged completion is held as long as nobody acknowledges another,
\* the agent runs no tool and the state shows its tool or another card.
LEMMA ToolKept ==
  ASSUME TypeOK, TypeOK', WritesInv, ToolInv, Rising, Drawn,
         disp'.toolAcked => disp.toolAcked /\ task'["agent"].op # "tool",
         task'["agent"].pc = "tool.write" => st'.tool = task'["agent"].tool,
         \/ st'.cur = st.cur /\ st'.tool = st.tool
         \/ st'.cur = st.cur /\ st.tool = "running"
         \/ st'.cur = st.cur /\ ~disp'.toolAcked
         \/ \E t \in Tasks : Publishing(t) /\ st'.cur = task[t].ref
  PROVE  ToolInv'
<1>1. \A i \in Cards' : segs'[i].seq = 0 => segs'[i].tool = "none"
  BY FreshTool
<1>2. ASSUME disp'.toolAcked
      PROVE  \E i \in Cards' : Holds(i)'
  <2>1. PICK i \in Cards : Holds(i)
    BY <1>2 DEF ToolInv
  <2>2. i \in Cards' /\ segs'[i].tool = "success"
    BY <2>1 DEF Drawn, Holds
  <2>3. i = st'.cur => st'.tool = "success"
    <3>1. CASE st'.cur = st.cur /\ (st'.tool = st.tool \/ st.tool = "running")
      BY <2>1, <3>1 DEF Holds
    <3>2. ASSUME NEW t \in Tasks, Publishing(t), st'.cur = task[t].ref
          PROVE  i # st'.cur
      <4>1. segs[task[t].ref].tool = "none"
        BY <3>2 DEF ToolInv, WritesInv, PublishedIsFresh
      <4> QED
        BY <2>1, <3>2, <4>1 DEF Holds
    <3> QED
      BY <1>2, <3>1, <3>2
  <2> QED
    BY <2>2, <2>3 DEF Holds
<1> QED
  BY <1>1, <1>2 DEF ToolInv

LEMMA ActsTool ==
  ASSUME TypeOK, TypeOK', WritesInv, RolesInv, ToolInv, Rising, Drawn,
         NEW t \in Tasks, Acts(t),
         \/ Steady(st, st')
         \/ t = "agent" /\ st'.cur = st.cur /\ st.tool = "running"
         \/ Publishing(t) /\ st'.cur = task[t].ref /\ lock = NoTask
  PROVE  RolesInv' /\ ToolInv'
<1>1. disp'.toolAcked => disp.toolAcked /\ task'["agent"].op # "tool"
  <2>1. task'["agent"].op = "tool" => task["agent"].op = "tool"
    BY TaskNames DEF Acts
  <2> QED
    BY <2>1 DEF Acts, ToolInv
<1>2. ASSUME task'["agent"].pc = "tool.write"
      PROVE  /\ st'.tool = task'["agent"].tool
             /\ Steady(st, st')
  <2>1. t # "agent" /\ task'["agent"] = task["agent"]
    BY <1>2, TaskNames DEF Acts
  <2>2. lock = "agent" /\ lock # NoTask
    BY <1>2, <2>1, TaskNames DEF WritesInv, WriterHasLock, Writing
  <2>3. Steady(st, st')
    BY <2>1, <2>2
  <2> QED
    BY <1>2, <2>1, <2>3 DEF Steady, ToolInv
<1>3. \/ st'.cur = st.cur /\ st'.tool = st.tool
      \/ st'.cur = st.cur /\ st.tool = "running"
      \/ \E u \in Tasks : Publishing(u) /\ st'.cur = task[u].ref
  BY DEF Steady
<1> QED
  BY <1>1, <1>2, <1>3, ToolKept DEF Acts

LEMMA UnchangedSteady ==
  ASSUME UNCHANGED st
  PROVE  Steady(st, st')
BY DEF Steady

LEMMA CreationTool ==
  ASSUME TypeOK, TypeOK', WritesInv, RolesInv, ToolInv, NEW t \in Tasks,
         \/ CreateEntity(t) \/ CreateCheck(t) \/ CreateSend(t)
         \/ CreateCommit(t) \/ RetireWrite(t),
         Rising, Drawn
  PROVE  RolesInv' /\ ToolInv'
<1>1. CASE CreateEntity(t) \/ CreateCheck(t) \/ CreateSend(t)
  <2>1. UNCHANGED st
    BY <1>1 DEF CreateEntity, CreateCheck, CreateSend
  <2> QED
    BY <1>1, <2>1, CreateEntityActs, UnchangedSteady, ActsTool
<1>2. CASE CreateCommit(t)
  <2>1. lock = NoTask
    BY <1>2 DEF CreateCommit, MayLock
  <2> QED
    BY <1>2, <2>1, CreateCommitActs, UnchangedSteady, ActsTool
<1>3. CASE RetireWrite(t)
  <2>1. UNCHANGED st
    BY <1>3 DEF RetireWrite
  <2> QED
    BY <1>3, <2>1, CreateCommitActs, UnchangedSteady, ActsTool
<1> QED
  BY <1>1, <1>2, <1>3

LEMMA SuspensionTool ==
  ASSUME TypeOK, TypeOK', WritesInv, RolesInv, ToolInv, NEW t \in Tasks,
         Drain(t) \/ SuspendLocked(t) \/ SuspendWrite(t), Rising, Drawn
  PROVE  RolesInv' /\ ToolInv'
<1>1. CASE Drain(t)
  <2>1. UNCHANGED st
    BY <1>1 DEF Drain
  <2> QED
    BY <1>1, <2>1, DrainActs, UnchangedSteady, ActsTool
<1>2. CASE SuspendLocked(t)
  <2>1. task[t].pc \in Suspensions
    BY <1>2 DEF SuspendLocked, At, Suspensions
  <2>2. t = "agent"
    BY <2>1, Suspends
  <2>3. Acts(t) /\ st'.trans = st.trans
    BY <1>2, SuspendLockedActs DEF Acts, RolesInv, TypeOK, States
  <2>4. Steady(st, st') \/ (st'.cur = st.cur /\ st.tool = "running")
    BY <1>2, <2>3, SuspendLockedActs DEF Steady
  <2> QED
    BY <2>2, <2>3, <2>4, ActsTool
<1>3. CASE SuspendWrite(t)
  BY <1>3, SuspendWriteActs, ActsTool
<1> QED
  BY <1>1, <1>2, <1>3

LEMMA OutputTool ==
  ASSUME TypeOK, TypeOK', WritesInv, RolesInv, ToolInv, NEW t \in Tasks,
         \/ ResumeEnter(t) \/ ResumeOk(t) \/ ResumeEnd(t) \/ SteerNext(t)
         \/ OutputBegin(t) \/ OutputCommit(t) \/ FallbackWrite(t)
         \/ FinalizeEnter(t) \/ FinalizeLocked(t) \/ FinalizeWrite(t)
         \/ FinalizeReturn(t) \/ ToolCheck(t) \/ ExpireLocked(t),
         Rising, Drawn
  PROVE  RolesInv' /\ ToolInv'
<1>1. CASE ResumeEnter(t) \/ ResumeOk(t) \/ ResumeEnd(t)
  BY <1>1, ResumeActs, ActsTool
<1>2. CASE SteerNext(t) \/ OutputBegin(t)
  <2>1. UNCHANGED st
    BY <1>2 DEF SteerNext, OutputBegin
  <2> QED
    BY <1>2, <2>1, SteerNextActs, OutputBeginActs, UnchangedSteady, ActsTool
<1>3. CASE OutputCommit(t) \/ FallbackWrite(t)
  BY <1>3, OutputCommitActs, FallbackWriteActs, ActsTool
<1>4. CASE FinalizeEnter(t) \/ ToolCheck(t)
  BY <1>4, FinalizeEnterActs, ToolCheckActs, UnchangedSteady, ActsTool
<1>5. CASE FinalizeLocked(t) \/ FinalizeWrite(t) \/ FinalizeReturn(t)
  BY <1>5, FinalizeLockedActs, FinalizeWriteActs, FinalizeReturnActs, ActsTool
<1>6. CASE ExpireLocked(t)
  BY <1>6, ExpireLockedActs, ActsTool
<1> QED
  BY <1>1, <1>2, <1>3, <1>4, <1>5, <1>6

LEMMA ToolCommitTool ==
  ASSUME TypeOK, TypeOK', WritesInv, RolesInv, ToolInv, NEW t \in Tasks,
         ToolCommit(t), Rising, Drawn
  PROVE  RolesInv' /\ ToolInv'
<1>1. ~disp'.toolAcked
  BY ToolCommitActs DEF ToolInv
<1>2. task'["agent"].pc = "tool.write" => st'.tool = task'["agent"].tool
  BY ToolCommitActs
<1> QED
  BY <1>1, <1>2, ToolCommitActs, ToolKept

\* The write that is acknowledged is on the current card.
LEMMA ToolWriteTool ==
  ASSUME TypeOK, TypeOK', WritesInv, RolesInv, BoundaryInv, ToolInv,
         NEW t \in Tasks, ToolWrite(t), Rising, Drawn
  PROVE  RolesInv' /\ ToolInv'
<1> DEFINE c == [segs[st.cur] EXCEPT !.status = "streaming",
                                     !.text = st.content, !.tool = st.tool,
                                     !.seq = st.seq]
<1>1. /\ t = "agent" /\ ~disp.toolAcked /\ st.tool = task[t].tool
      /\ task'["agent"].op = "none" /\ task'["agent"].pc = "idle"
      /\ RolesInv' /\ Steady(st, st')
  BY ToolWriteActs DEF ToolInv, ToolWrite, At
<1>2. CASE ~disp'.toolAcked
  BY <1>1, <1>2, ToolKept DEF Steady
<1>3. CASE disp'.toolAcked
  <2>1. segs' = [segs EXCEPT ![st.cur] = c] /\ st.tool = "success"
    BY <1>1, <1>3, ToolWriteActs
  <2>2. st.cur \in Cards
    <3>1. st.cur \in Nat /\ st.cur <= Len(segs) /\ Len(segs) \in Nat
      BY DEF TypeOK, States, WritesInv, CurrentStreams
    <3>2. st.cur # 0
      BY <1>1, Begun DEF BoundaryInv, ToolWrite, At
    <3> QED
      BY <3>1, <3>2 DEF Cards
  <2>3. c.tool = st.tool
    BY <2>2, CardTool
  <2> HIDE DEF c
  <2>4. segs'[st.cur] = c /\ st.cur \in Cards'
    BY <2>1, <2>2 DEF Cards, TypeOK
  <2>5. \E i \in Cards' : Holds(i)'
    <3>1. segs'[st.cur].tool = "success" /\ st'.tool = "success"
      BY <1>1, <2>1, <2>3, <2>4 DEF Steady
    <3> QED
      BY <2>4, <3>1 DEF Holds
  <2>6. \A i \in Cards' : segs'[i].seq = 0 => segs'[i].tool = "none"
    BY FreshTool
  <2> QED
    BY <1>1, <2>5, <2>6 DEF ToolInv
<1> QED
  BY <1>2, <1>3

LEMMA RunTool ==
  ASSUME TypeOK, TypeOK', WritesInv, RolesInv, BoundaryInv, ToolInv,
         NEW t \in Tasks, Run(t), Rising
  PROVE  RolesInv' /\ ToolInv'
<1>1. Drawn
  BY RunDrawn
<1>2. CASE \/ CreateEntity(t) \/ CreateCheck(t) \/ CreateSend(t)
           \/ CreateCommit(t) \/ RetireWrite(t)
           \/ Drain(t) \/ SuspendLocked(t) \/ SuspendWrite(t)
  BY <1>1, <1>2, CreationTool, SuspensionTool
<1>3. CASE \/ ResumeEnter(t) \/ ResumeOk(t) \/ ResumeEnd(t) \/ SteerNext(t)
           \/ OutputBegin(t) \/ OutputCommit(t) \/ FallbackWrite(t)
           \/ FinalizeEnter(t) \/ FinalizeLocked(t) \/ FinalizeWrite(t)
           \/ FinalizeReturn(t) \/ ToolCheck(t) \/ ExpireLocked(t)
  BY <1>1, <1>3, OutputTool
<1>4. CASE ToolCommit(t) \/ ToolWrite(t)
  BY <1>1, <1>4, ToolCommitTool, ToolWriteTool
<1>5. ~(SteerBegin(t) \/ SteerEnd(t) \/ SteerSilent(t) \/ Adopt(t))
  BY NoSteering DEF SteerBegin, SteerEnd, SteerSilent, Adopt, At
<1> QED
  BY <1>2, <1>3, <1>4, <1>5 DEF Run

-----------------------------------------------------------------------------
(* The callers *)

\* A caller starts coroutine t, which runs no tool.
LEMMA CallerTool ==
  ASSUME TypeOK, TypeOK', WritesInv, RolesInv, ToolInv, NEW t \in Tasks, NEW r,
         Go(t, r), Doing(t, r), r.op # "tool", r.pc # "tool.write",
         UNCHANGED <<st, segs>>, disp'.toolAcked = disp.toolAcked
  PROVE  RolesInv' /\ ToolInv'
<1>1. Acts(t)
  BY GoDoes DEF Acts
<1> QED
  BY <1>1, UndrawnSegs, UnchangedRising, UnchangedSteady, ActsTool

\* No coroutine moves.
LEMMA StillTool ==
  ASSUME TypeOK, TypeOK', WritesInv, RolesInv, ToolInv, UNCHANGED task,
         Steady(st, st'), Rising, Drawn, disp'.toolAcked = disp.toolAcked
  PROVE  RolesInv' /\ ToolInv'
BY StillDoes, ToolKept DEF Steady, ToolInv

LEMMA StartTool ==
  ASSUME TypeOK, TypeOK', WritesInv, RolesInv, ToolInv, DispatchStart
  PROVE  RolesInv' /\ ToolInv'
<1> DEFINE n == clock + 1
           r == [[Idle EXCEPT !.op = "start", !.want = n, !.ret = "st.next"]
                   EXCEPT !.pc = "cr.entity", !.ref = 0]
<1>1. /\ r.op = "start" /\ r.ret = "st.next" /\ r.pc = "cr.entity"
      /\ r.tool = "none"
  BY DEF Idle
<1>2. Go("runner", r)
  BY DEF DispatchStart, Create
<1> HIDE DEF r
<1>3. Doing("runner", r)
  BY <1>1 DEF Doing
<1>4. disp'.toolAcked = disp.toolAcked
  BY DEF DispatchStart, Starting, TypeOK, Dispatches
<1> QED
  BY <1>1, <1>2, <1>3, <1>4, TaskNames, CallerTool DEF DispatchStart

\* The stream consumer and the notifier.
LEMMA ConsumerTool ==
  ASSUME TypeOK, TypeOK', WritesInv, RolesInv, ToolInv,
         StreamDelta \/ FinalAnswer \/ Progress
  PROVE  RolesInv' /\ ToolInv'
<1> DEFINE r(o, x, p) == [Idle EXCEPT !.op = o, !.text = x, !.pc = p]
<1>1. \/ UNCHANGED task
      \/ Go("notifier", r("progress", "prog", "out.begin"))
      \/ \E x \in {"part", "answer"} :
           Go("consumer", r("stream", x, "out.begin"))
      \/ \E p \in {"fin.enter", "rs.enter"} :
           Go("consumer", r("final", "answer", p))
  <2>1. CASE StreamDelta \/ Progress
    <3>1. \/ Go("consumer", r("stream", "part", "out.begin"))
          \/ Go("notifier", r("progress", "prog", "out.begin"))
      BY <2>1 DEF StreamDelta, Progress
    <3> QED
      BY <3>1
  <2>2. CASE FinalAnswer
    <3>1. \A p : [[Idle EXCEPT !.op = "final", !.text = "answer"] EXCEPT
                     !.op = "stream", !.pc = p] = r("stream", "answer", p)
      BY DEF Idle
    <3>2. CASE st.terminal
      BY <2>2, <3>2 DEF FinalAnswer
    <3>3. CASE ~st.terminal
      <4>1. UNCHANGED task \/ Go("consumer", r("stream", "answer", "out.begin"))
        BY <2>2, <3>1, <3>3 DEF FinalAnswer
      <4> QED
        BY <4>1
    <3> QED
      BY <3>2, <3>3
  <2> QED
    BY <2>1, <2>2
<1>2. \A o, x, p : /\ r(o, x, p).pc = p /\ r(o, x, p).op = o
                   /\ r(o, x, p).text = x /\ r(o, x, p).tool = "none"
  BY DEF Idle
<1>3. UNCHANGED <<st, segs>>
  BY DEF StreamDelta, FinalAnswer, Progress
<1>4. disp'.toolAcked = disp.toolAcked
  <2>1. CASE FinalAnswer
    BY <2>1 DEF FinalAnswer, TypeOK, Dispatches
  <2>2. CASE StreamDelta \/ Progress
    BY <2>2 DEF StreamDelta, Progress
  <2> QED
    BY <2>1, <2>2
<1> HIDE DEF r
<1>5. CASE UNCHANGED task
  BY <1>3, <1>4, <1>5, UndrawnSegs, UnchangedRising, UnchangedSteady, StillTool
<1>6. CASE Go("notifier", r("progress", "prog", "out.begin"))
  <2>1. Doing("notifier", r("progress", "prog", "out.begin"))
    BY <1>2 DEF Doing
  <2> QED
    BY <1>2, <1>3, <1>4, <1>6, <2>1, TaskNames, CallerTool
<1>7. ASSUME NEW x \in {"part", "answer"},
             Go("consumer", r("stream", x, "out.begin"))
      PROVE  RolesInv' /\ ToolInv'
  <2>1. Doing("consumer", r("stream", x, "out.begin"))
    BY <1>2 DEF Doing
  <2> QED
    BY <1>2, <1>3, <1>4, <1>7, <2>1, TaskNames, CallerTool
<1>8. ASSUME NEW p \in {"fin.enter", "rs.enter"},
             Go("consumer", r("final", "answer", p))
      PROVE  RolesInv' /\ ToolInv'
  <2>1. Doing("consumer", r("final", "answer", p))
    BY <1>2 DEF Doing, Resumes, Resuming, Finalizing
  <2> QED
    BY <1>2, <1>3, <1>4, <1>8, <2>1, TaskNames, CallerTool
<1> QED
  BY <1>1, <1>5, <1>6, <1>7, <1>8

\* The agent's next tool forgets the completion acknowledged before.
LEMMA ToolUpdateTool ==
  ASSUME TypeOK, TypeOK', WritesInv, RolesInv, ToolInv, ToolUpdate
  PROVE  RolesInv' /\ ToolInv'
<1> DEFINE r(w) == [Idle EXCEPT !.op = "tool", !.tool = w, !.pc = "rs.enter"]
<1>1. PICK w \in {"running", "success"} : Go("agent", r(w))
  BY DEF ToolUpdate
<1>2. r(w).pc = "rs.enter" /\ r(w).op = "tool"
  BY DEF Idle
<1> HIDE DEF r
<1>3. Doing("agent", r(w))
  BY <1>2 DEF Doing, Resumes, Resuming
<1>4. UNCHANGED <<st, segs>> /\ ~disp'.toolAcked
  BY DEF ToolUpdate, TypeOK, Dispatches
<1>5. RolesInv' /\ task'["agent"] = r(w)
  BY <1>1, <1>3, <1>4, GoDoes, TaskNames
<1> QED
  BY <1>2, <1>4, <1>5, UndrawnSegs, UnchangedRising, ToolKept

LEMMA BoundaryTool ==
  ASSUME TypeOK, TypeOK', WritesInv, RolesInv, ToolInv,
         NEW w \in {"artifact", "approval", "question"}, Boundary(w)
  PROVE  RolesInv' /\ ToolInv'
<1> DEFINE n == clock + 1
           r == [[Idle EXCEPT !.op = "boundary", !.why = w, !.want = n]
                   EXCEPT !.pc = "sus.quiet", !.ref = st.cur]
<1>1. /\ r.pc = "sus.quiet" /\ r.op = "boundary" /\ r.why = w /\ r.ret = "idle"
      /\ r.tool = "none"
  BY DEF Idle
<1>2. UNCHANGED <<st, segs, disp>> /\ (Go("agent", r) \/ UNCHANGED task)
  BY DEF Boundary, Suspend
<1> HIDE DEF r
<1>3. Doing("agent", r)
  BY <1>1 DEF Doing, Suspensions
<1>4. CASE Go("agent", r)
  BY <1>1, <1>2, <1>3, <1>4, TaskNames, CallerTool
<1>5. CASE UNCHANGED task
  BY <1>2, <1>5, UndrawnSegs, UnchangedRising, UnchangedSteady, StillTool
<1> QED
  BY <1>2, <1>4, <1>5

LEMMA CompleteTool ==
  ASSUME TypeOK, TypeOK', WritesInv, RolesInv, ToolInv, Complete
  PROVE  RolesInv' /\ ToolInv'
<1> DEFINE r(x, y, z) == [Idle EXCEPT !.pc = "fin.enter", !.op = "complete",
                            !.saw = x, !.text = y, !.out = z]
<1>1. UNCHANGED segs /\ disp'.toolAcked = disp.toolAcked
  BY DEF Complete, TypeOK, Dispatches
<1>2. UNCHANGED task \/ (UNCHANGED st /\ \E x, y, z : Go("runner", r(x, y, z)))
  BY DEF Complete
<1>3. \A x, y, z : /\ r(x, y, z).pc = "fin.enter" /\ r(x, y, z).op = "complete"
                   /\ r(x, y, z).tool = "none"
  BY DEF Idle
<1> HIDE DEF r
<1>4. ASSUME NEW x, NEW y, NEW z, Go("runner", r(x, y, z)), UNCHANGED st
      PROVE  RolesInv' /\ ToolInv'
  <2>1. Doing("runner", r(x, y, z))
    BY <1>3 DEF Doing, Finalizing
  <2> QED
    BY <1>1, <1>3, <1>4, <2>1, TaskNames, CallerTool
<1>5. CASE UNCHANGED task
  <2>1. PICK e \in Endings : CompleteAs(e)
    BY DEF Complete, CompleteAs
  <2> DEFINE out == CASE e = "success" -> "complete" [] e = "failure" -> "error"
                      [] e = "cancelled" -> "stopped"
             close == ~st.closed /\ (st.reason = "artifact" \/ e # "success")
             s == IF close THEN ClosedBy(st, out) ELSE st
  <2>2. s \in States /\ Steady(st, s)
    <3>1. out \in Phases /\ st \in States
      BY ChoicesAssumption DEF Phases, Outs, TypeOK
    <3> HIDE DEF out, close
    <3> QED
      BY <3>1, ClosedByType, SteadyMarks
  <2>3. st' = st \/ st' = Forgotten(s) \/ st' = s
    BY <2>1 DEF CompleteAs
  <2> HIDE DEF s
  <2>4. Steady(st, st')
    BY <2>2, <2>3, SteadyMarks DEF Steady
  <2> QED
    BY <1>1, <1>5, <2>4, UndrawnSegs, UnchangedRising, StillTool
<1> QED
  BY <1>2, <1>4, <1>5

\* The agent's run ends, or somebody asks to shut down or to expire.
LEMMA OthersTool ==
  ASSUME TypeOK, TypeOK', WritesInv, RolesInv, ToolInv,
         MarkTerminal \/ ShutDown \/ Expire
  PROVE  RolesInv' /\ ToolInv'
<1>1. CASE MarkTerminal
  <2>1. Steady(st, st')
    BY <1>1 DEF MarkTerminal, Steady, TypeOK, States
  <2>2. disp'.toolAcked = disp.toolAcked /\ UNCHANGED <<segs, task>>
    BY <1>1 DEF MarkTerminal, TypeOK, Dispatches
  <2> QED
    BY <2>1, <2>2, UndrawnSegs, UnchangedRising, StillTool
<1>2. CASE ShutDown
  <2> DEFINE x == Terminal("")
             r == [Idle EXCEPT !.op = "shutdown", !.pc = "fin.enter",
                               !.out = "stopped", !.text = x]
  <2> HIDE DEF x
  <2>1. r.op = "shutdown" /\ r.pc = "fin.enter" /\ r.tool = "none"
    BY DEF Idle
  <2>2. Go("closer", r) /\ UNCHANGED <<st, segs, disp>>
    BY <1>2 DEF ShutDown, x
  <2> HIDE DEF r
  <2>3. Doing("closer", r)
    BY <2>1 DEF Doing, Finalizing
  <2> QED
    BY <2>1, <2>2, <2>3, TaskNames, CallerTool
<1>3. CASE Expire
  <2> DEFINE r == [Idle EXCEPT !.op = "expire", !.pc = "ex.lock"]
  <2>1. r.op = "expire" /\ r.pc = "ex.lock" /\ r.tool = "none"
    BY DEF Idle
  <2>2. Go("expirer", r) /\ UNCHANGED <<st, segs, disp>>
    BY <1>3 DEF Expire
  <2> HIDE DEF r
  <2>3. Doing("expirer", r)
    BY <2>1 DEF Doing
  <2> QED
    BY <2>1, <2>2, <2>3, TaskNames, CallerTool
<1> QED
  BY <1>1, <1>2, <1>3

LEMMA FlushTool ==
  ASSUME TypeOK, TypeOK', WritesInv, RolesInv, ToolInv, Flush, Rising
  PROVE  RolesInv' /\ ToolInv'
<1>1. PICK i \in 1..Len(ctl) : FlushFire(i) \/ FlushLocked(i) \/ FlushWrite(i)
  BY DEF Flush
<1>2. UNCHANGED <<task, disp>>
  BY <1>1 DEF FlushFire, FlushLocked, FlushWrite
<1>3. CASE FlushFire(i) \/ FlushLocked(i)
  <2>1. UNCHANGED <<st, segs>>
    BY <1>3 DEF FlushFire, FlushLocked
  <2> QED
    BY <1>2, <2>1, UndrawnSegs, UnchangedRising, UnchangedSteady, StillTool
<1>4. CASE FlushWrite(i)
  BY <1>2, <1>4, FlushWriteDrawn, FlushWriteSteady, StillTool
<1> QED
  BY <1>1, <1>3, <1>4

-----------------------------------------------------------------------------
(* The theorem *)

LEMMA NextTool ==
  Steers = {} /\ MaxDispatch <= 1 /\ TypeOK /\ WritesInv /\ BoundaryInv
    /\ RolesInv /\ ToolInv /\ [Next]_vars
    => RolesInv' /\ ToolInv'
<1> SUFFICES ASSUME Steers = {}, MaxDispatch <= 1, TypeOK, WritesInv,
                    BoundaryInv, RolesInv, ToolInv, [Next]_vars
             PROVE  RolesInv' /\ ToolInv'
  OBVIOUS
<1>1. TypeOK' /\ Rising
  BY NextWrites
<1>2. ASSUME NEW t \in Tasks, Run(t)
      PROVE  RolesInv' /\ ToolInv'
  BY <1>1, <1>2, RunTool
<1>3. ASSUME NEW w \in {"artifact", "approval", "question"}, Boundary(w)
      PROVE  RolesInv' /\ ToolInv'
  BY <1>1, <1>3, BoundaryTool
<1>4. ~DispatchContinue
  <2>1. disp.count \in Nat /\ MaxDispatch \in Nat
    BY BoundsAssumption DEF TypeOK, Dispatches
  <2> QED
    BY <2>1 DEF DispatchContinue
<1>5. CASE DispatchStart \/ Complete
  BY <1>1, <1>5, StartTool, CompleteTool
<1>6. CASE StreamDelta \/ FinalAnswer \/ Progress
  BY <1>1, <1>6, ConsumerTool
<1>7. CASE ToolUpdate \/ MarkTerminal \/ ShutDown \/ Expire
  BY <1>1, <1>7, ToolUpdateTool, OthersTool
<1>8. CASE Flush
  BY <1>1, <1>8, FlushTool
<1>9. CASE Done \/ UNCHANGED vars
  <2>1. UNCHANGED <<st, segs, task, disp>>
    BY <1>9 DEF Done, vars
  <2> QED
    BY <1>1, <2>1, UndrawnSegs, UnchangedSteady, StillTool
<1> QED
  BY <1>2, <1>3, <1>4, <1>5, <1>6, <1>7, <1>8, <1>9 DEF Next

LEMMA InitTool == Init => RolesInv /\ ToolInv
<1> SUFFICES ASSUME Init
             PROVE  RolesInv /\ ToolInv
  OBVIOUS
<1>1. /\ \A t \in Tasks : task[t] = Idle
      /\ segs = <<>> /\ ~disp.toolAcked /\ Idle.pc = "idle" /\ ~st.trans
  BY DEF Init, Idle, NewState
<1>2. Cards = {}
  BY <1>1 DEF Cards
<1> QED
  BY <1>1, <1>2, IdleDoes, TaskNames DEF RolesInv, ToolInv

LEMMA RolesInvariant ==
  Steers = {} /\ MaxDispatch <= 1 => (Spec => [](RolesInv /\ ToolInv))
<1> SUFFICES ASSUME Steers = {}, MaxDispatch <= 1
             PROVE  Spec => [](RolesInv /\ ToolInv)
  OBVIOUS
<1>1. Init => RolesInv /\ ToolInv
  BY InitTool
<1>2. TypeOK /\ WritesInv /\ BoundaryInv /\ (RolesInv /\ ToolInv)
        /\ [Next]_vars => (RolesInv /\ ToolInv)'
  BY NextTool
<1> QED
  BY <1>1, <1>2, TypeCorrect, WritesGuarded, BoundariesInvariant, PTL DEF Spec

\* In a dispatch that is not steered, a tool completion that the adapter
\* acknowledged to Hermes (_update_cardkit_tool_for_ticket) is on a card until
\* the agent's next tool, and there when nothing is under way: no flush,
\* boundary or terminal write that comes later draws the card without it, and
\* no failure, expired question or shutdown takes it away.
THEOREM ToolsShown ==
  Steers = {} /\ MaxDispatch <= 1 => (Spec => []ToolShown)
<1> SUFFICES ASSUME Steers = {}, MaxDispatch <= 1
             PROVE  Spec => []ToolShown
  OBVIOUS
<1>1. Spec => [](RolesInv /\ ToolInv)
  BY RolesInvariant
<1>2. RolesInv /\ ToolInv => ToolShown
  BY DEF ToolInv, ToolShown, Holds
<1> QED
  BY <1>1, <1>2, PTL

=============================================================================
