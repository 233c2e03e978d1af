------------------------- MODULE CardKitTurnColumn -------------------------
(***************************************************************************)
(* One dispatch whose calls succeed and whose steers are neither           *)
(* cancelled nor synthetic, for every choice of the other constants: the   *)
(* cards of the turn are a column in which only the live card changes and  *)
(* only moves down, and no card is left streaming.  A creation in flight   *)
(* either makes the next segment or was given up for good, because the     *)
(* boundary it was asked for never becomes the anchor again.               *)
(*                                                                         *)
(* The second half of the module follows such a dispatch to its end when   *)
(* it is not steered: the turn that was answered is closed, and an answer  *)
(* that was acknowledged is on its card.                                   *)
(***************************************************************************)
EXTENDS CardKitTurnBoundaries, CardKitTurnDisplay

-----------------------------------------------------------------------------
(* What the coroutines may rely on as long as no call failed *)

\* r may still make its message the anchor.
Comes(r) ==
  /\ r.pc # "idle"
  /\ \/ r.op \in {"ack", "silent"}
     \/ r.pc \in {"st.begin", "sus.quiet", "sus.lock"}

\* r creates a segment below a boundary, or returns from that.
Seeks(r) == r.pc \in Making \cup {"st.end", "rs.end"} /\ r.ret # "st.next"

\* The turn went on without the segment that r creates.
GivenUp(r, s) == s.closed \/ ~s.routed \/ s.anchor # r.expect

\* What coroutine r relies on in the state s when n messages arrived: it
\* returns without a segment only from a creation that was given up; the card
\* it published is the next segment unless it was given up; and it writes to
\* an open segment.
Apt(r, s, n) ==
  /\ Seeks(r) => s.closed \/ r.expect \in 1..n
  /\ Seeks(r) /\ r.ret = "st.end" => s.closed \/ r.expect = r.want
  /\ r.pc \in {"st.end", "rs.end"} => r.ret = r.pc
  /\ r.pc = "rt.write" => r.ret # "st.next"
  /\ r.pc \in {"rt.write", "rs.end"} => GivenUp(r, s)
  /\ r.pc = "st.end" /\ ~r.res => GivenUp(r, s)
  /\ r.pc = "cr.commit" /\ Seeks(r) => GivenUp(r, s) \/ r.ref > s.cur
  /\ r.pc \in Creations /\ Seeks(r) => GivenUp(r, s) \/ s.reason # "question"
  /\ r.pc \in {"sus.quiet", "sus.lock"}
       => /\ r.why # "fallback"
          /\ r.op \in {"ack", "silent"} => r.why = "steer"
  /\ r.pc \in {"st.begin", "st.silent"}
       \/ (r.pc \in Suspensions /\ r.ret = "cr.entity")
       => r.op \in {"ack", "silent"}
  /\ r.pc \in Outputs \cup {"sus.write"} => s.open /\ ~s.closed
  /\ r.pc # "fb.call"
  /\ Comes(r) => r.want \in 1..n

AllApt == \A t \in Tasks : Apt(task[t], st, clock)

\* A message that comes is nobody else's, and no creation waits below it.
Apart ==
  \A t, u \in Tasks : t # u /\ Comes(task[u]) =>
    /\ Comes(task[t]) => task[t].want # task[u].want
    /\ Seeks(task[t]) => st.closed \/ task[t].expect # task[u].want

\* A message that may come again is the anchor only as a steer's.
Steered ==
  \A t \in Tasks : Comes(task[t]) /\ task[t].want = st.anchor
    => st.reason = "steer"

FlushesOpen == \A i \in 1..Len(ctl) : Flushing(i) => ~st.closed

\* The inductive invariant of the column.
ColumnInv ==
  /\ AllApt
  /\ Apart
  /\ Steered
  /\ FlushesOpen
  /\ st.reason # "fallback"
  /\ st.anchor <= clock

\* No steer is cancelled, and none takes the boundary it finds.
Plain == Uncancelled /\ ~Echoes

\* What the steps below start from.
Given ==
  /\ Plain
  /\ TypeOK /\ TypeOK' /\ WritesInv /\ BoundaryInv /\ ColumnInv
  /\ FaultFree /\ FaultFree'

LEMMA NoFailure ==
  ASSUME Given, NEW o, Spend(o)
  PROVE  o = "ok"
BY DEF Given, TypeOK, Usage, FaultFree, Spend

LEMMA AptKept ==
  ASSUME NEW r, NEW s, NEW n \in Nat, NEW s2, NEW n2 \in Nat, Apt(r, s, n),
         n <= n2,
         Seeks(r) => /\ s.closed => s2.closed
                     /\ GivenUp(r, s) => GivenUp(r, s2)
                     /\ s2.cur = s.cur \/ GivenUp(r, s2)
                     /\ \/ s2.reason = s.reason \/ s2.reason # "question"
                        \/ GivenUp(r, s2),
         r.pc \in Outputs \cup {"sus.write"} => s2.open /\ ~s2.closed
  PROVE  Apt(r, s2, n2)
<1>1. r.pc \in {"rt.write", "rs.end", "st.end"} => Seeks(r)
  BY DEF Apt, Seeks, Making
<1>2. \A i : i \in 1..n => i \in 1..n2
  OBVIOUS
<1> QED
  BY <1>1, <1>2 DEF Apt

\* Only t moves, to where it may be; it becomes no newcomer, and it seeks no
\* boundary that may still come.
Follows(t) ==
  /\ \A u \in Tasks \ {t} : task'[u] = task[u]
  /\ Apt(task'[t], st', clock')
  /\ Comes(task'[t]) => Comes(task[t]) /\ task'[t].want = task[t].want
  /\ Seeks(task'[t]) =>
       \/ st'.closed
       \/ Seeks(task[t]) /\ task'[t].expect = task[t].expect
       \/ \A u \in Tasks \ {t} :
            Comes(task[u]) => task[u].want # task'[t].expect

\* A step of t that follows keeps the messages apart.
LEMMA ApartKept ==
  ASSUME ColumnInv, NEW t \in Tasks, Follows(t), st.closed => st'.closed
  PROVE  Apart'
<1> SUFFICES ASSUME NEW u \in Tasks, NEW v \in Tasks, u # v, Comes(task'[v])
             PROVE  /\ Comes(task'[u]) => task'[u].want # task'[v].want
                    /\ Seeks(task'[u]) => st'.closed
                                          \/ task'[u].expect # task'[v].want
  BY DEF Apart
<1>1. Comes(task[v]) /\ task'[v].want = task[v].want
  BY DEF Follows
<1>2. Comes(task'[u]) => Comes(task[u]) /\ task'[u].want = task[u].want
  BY DEF Follows
<1>3. ASSUME Seeks(task'[u])
      PROVE  st'.closed \/ task'[u].expect # task'[v].want
  BY <1>1, <1>3 DEF Follows, ColumnInv, Apart
<1> QED
  BY <1>1, <1>2, <1>3 DEF ColumnInv, Apart

\* A step that commits no boundary and no segment.
StKept ==
  /\ st'.cur = st.cur /\ st'.anchor = st.anchor /\ st'.reason = st.reason
  /\ st.closed => st'.closed
  /\ st'.routed => st.routed

\* It closes nothing either.
StOpen == st'.closed = st.closed /\ st'.open = st.open

LEMMA UnchangedStKept ==
  ASSUME UNCHANGED st
  PROVE  StKept /\ StOpen
BY DEF StKept, StOpen

LEMMA KeptStep ==
  ASSUME Given, NEW t \in Tasks, Follows(t), StKept, clock' = clock,
         FlushesOpen',
         StOpen \/ \A u \in Tasks \ {t} : ~Writing(u)
  PROVE  ColumnInv'
<1> USE DEF StKept, StOpen
<1>1. clock \in Nat
  BY DEF Given, TypeOK
<1>2. AllApt'
  <2>1. ASSUME NEW u \in Tasks \ {t}
        PROVE  Apt(task[u], st', clock)
    <3>1. Apt(task[u], st, clock)
      BY DEF Given, ColumnInv, AllApt
    <3>2. task[u].pc \in Outputs \cup {"sus.write"} => st'.open /\ ~st'.closed
      BY <3>1 DEF Apt, Writing, Outputs
    <3>3. GivenUp(task[u], st) => GivenUp(task[u], st')
      BY DEF GivenUp
    <3> QED
      BY <1>1, <3>1, <3>2, <3>3, AptKept
  <2> QED
    BY <2>1 DEF AllApt, Follows
<1>3. Apart'
  BY ApartKept DEF Given
<1>4. Steered'
  BY DEF Given, ColumnInv, Steered, Follows
<1> QED
  BY <1>2, <1>3, <1>4 DEF Given, ColumnInv

\* No coroutine moves.
LEMMA KeptStill ==
  ASSUME Given, UNCHANGED task, StKept, clock' = clock, FlushesOpen',
         StOpen \/ \A u \in Tasks : ~Writing(u)
  PROVE  ColumnInv'
<1> USE DEF StKept, StOpen
<1>1. clock \in Nat
  BY DEF Given, TypeOK
<1>2. AllApt'
  <2>1. ASSUME NEW u \in Tasks
        PROVE  Apt(task[u], st', clock)
    <3>1. Apt(task[u], st, clock)
      BY DEF Given, ColumnInv, AllApt
    <3>2. task[u].pc \in Outputs \cup {"sus.write"} => st'.open /\ ~st'.closed
      BY <3>1 DEF Apt, Writing, Outputs
    <3>3. GivenUp(task[u], st) => GivenUp(task[u], st')
      BY DEF GivenUp
    <3> QED
      BY <1>1, <3>1, <3>2, <3>3, AptKept
  <2> QED
    BY <2>1 DEF AllApt
<1> QED
  BY <1>2 DEF Given, ColumnInv, Apart, Steered

LEMMA FlushesStay ==
  ASSUME Given, CtlSettled, st'.closed = st.closed
  PROVE  FlushesOpen'
BY DEF Given, ColumnInv, FlushesOpen, CtlSettled, Flushing

\* Nobody writes while the lock is free or t's.
LEMMA Unwritten ==
  ASSUME Given, NEW t \in Tasks, lock \in {NoTask, t}
  PROVE  /\ \A u \in Tasks \ {t} : ~Writing(u)
         /\ \A i \in 1..Len(ctl) : ~Flushing(i)
BY Alone, TaskNames DEF Given

LEMMA FlushesNone ==
  ASSUME CtlSettled, \A i \in 1..Len(ctl) : ~Flushing(i)
  PROVE  FlushesOpen'
BY DEF FlushesOpen, CtlSettled, Flushing

-----------------------------------------------------------------------------
(* Where a coroutine goes *)

Obliged ==
  Making \cup Outputs \cup Suspensions
    \cup {"st.begin", "st.end", "rs.end", "fb.call"}

LEMMA GoFollows ==
  ASSUME Given, NEW t \in Tasks, NEW r, Go(t, r), Apt(r, st', clock'),
         Comes(r) => Comes(task[t]) /\ r.want = task[t].want,
         Seeks(r) =>
           \/ st'.closed
           \/ Seeks(task[t]) /\ r.expect = task[t].expect
           \/ \A u \in Tasks \ {t} : Comes(task[u]) => task[u].want # r.expect
  PROVE  Follows(t)
<1>1. task' = [task EXCEPT ![t] = r] /\ task \in [Tasks -> Coroutines]
  BY DEF Go, Given, TypeOK
<1> QED
  BY <1>1 DEF Follows

\* A coroutine that is under no obligation.
LEMMA Roams ==
  ASSUME Given, NEW t \in Tasks, NEW r, Go(t, r), clock' = clock,
         r.pc \notin Obliged, r.pc = "st.silent" => r.op \in {"ack", "silent"},
         \/ r.pc = "idle" \/ r.op \notin {"ack", "silent"}
         \/ /\ task[t].pc # "idle" /\ r.op = task[t].op
            /\ r.want = task[t].want
  PROVE  Follows(t)
<1>1. Comes(r) => Comes(task[t]) /\ r.want = task[t].want
  BY DEF Comes, Obliged, Suspensions
<1>2. Comes(r) => r.want \in 1..clock'
  BY <1>1 DEF Given, ColumnInv, AllApt, Apt
<1>3. ~Seeks(r)
  BY DEF Seeks, Obliged
<1>4. Apt(r, st', clock')
  BY <1>2, <1>3 DEF Apt, Obliged, Making, Creations, Outputs, Suspensions
<1> QED
  BY <1>1, <1>3, <1>4, GoFollows

LEMMA ToRoams ==
  ASSUME Given, NEW t \in Tasks, NEW p, Go(t, To(t, p)), clock' = clock,
         p \notin Obliged, task[t].pc # "idle",
         p = "st.silent" => task[t].op \in {"ack", "silent"}
  PROVE  Follows(t)
<1>1. /\ To(t, p).pc = p /\ To(t, p).op = task[t].op
      /\ To(t, p).want = task[t].want
  BY ToFields DEF Given
<1> QED
  BY <1>1, Roams

LEMMA IdleFollows ==
  ASSUME Given, NEW t \in Tasks, Go(t, Idle), clock' = clock
  PROVE  Follows(t)
<1>1. Idle.pc = "idle" /\ "idle" \notin Obliged
  BY DEF Idle, Obliged, Making, Creations, Outputs, Suspensions
<1> QED
  BY <1>1, Roams

LEMMA FinishFollows ==
  ASSUME Given, NEW t \in Tasks, NEW ok, Finish(t, ok), clock' = clock,
         task[t].pc # "idle"
  PROVE  Follows(t)
<1>1. "st.silent" \notin Obliged
  BY DEF Obliged, Making, Creations, Outputs, Suspensions
<1> QED
  BY <1>1, ToRoams, IdleFollows DEF Finish

LEMMA FinalizedFollows ==
  ASSUME Given, NEW t \in Tasks, NEW ok, Finalized(t, ok), clock' = clock,
         task[t].pc # "idle"
  PROVE  Follows(t)
<1> DEFINE r == [To(t, "fin.ret") EXCEPT !.res = ok]
<1>1. r.pc = "fin.ret" /\ r.op = task[t].op /\ r.want = task[t].want
  BY DEF Given, TypeOK, To, Coroutines
<1>2. "fin.ret" \notin Obliged
  BY DEF Obliged, Making, Creations, Outputs, Suspensions
<1> HIDE DEF r
<1> QED
  BY <1>1, <1>2, Roams DEF Finalized, r

\* A creation that is over returns to its caller.
LEMMA CreatedFollows ==
  ASSUME Given, NEW t \in Tasks, NEW ok \in BOOLEAN, Created(t, ok),
         clock' = clock, task[t].pc \in Making,
         Seeks(task[t]) /\ st.closed => st'.closed,
         ~ok /\ Seeks(task[t]) => GivenUp(task[t], st'),
         ok \/ task[t].ret # "st.next"
  PROVE  Follows(t)
<1> DEFINE p == IF ok /\ task[t].ret = "rs.end" THEN "rs.ok" ELSE task[t].ret
           r == [task[t] EXCEPT !.res = ok, !.pc = p]
<1>1. task[t].ret \in {"st.next", "st.end", "rs.end"}
  BY DEF Given, BoundaryInv, AllPlaced, Placed, Making
<1>2. /\ r.pc = p /\ r.op = task[t].op /\ r.want = task[t].want
      /\ r.ret = task[t].ret /\ r.expect = task[t].expect /\ r.res = ok
  BY DEF Given, TypeOK, Coroutines
<1>3. Go(t, r)
  BY DEF Created
<1>4. Apt(task[t], st, clock) /\ task[t].pc # "idle"
  BY DEF Given, ColumnInv, AllApt, Making, Creations
<1>5. p \in {"rs.ok", "st.next"} \/ (p \in {"st.end", "rs.end"} /\ p = r.ret)
  BY <1>1, <1>2
<1>6. p = "rs.end" => ~ok
  BY <1>1
<1> HIDE DEF p, r
<1>7. CASE p \in {"rs.ok", "st.next"}
  BY <1>2, <1>3, <1>4, <1>7, Roams
     DEF Obliged, Making, Creations, Outputs, Suspensions
<1>8. CASE p \in {"st.end", "rs.end"} /\ p = r.ret
  <2>1. Seeks(task[t])
    BY <1>2, <1>8 DEF Seeks
  <2>2. Comes(r) => Comes(task[t])
    BY <1>2, <1>4, <1>8 DEF Comes
  <2>3. Comes(r) => r.want \in 1..clock'
    BY <1>2, <1>4, <2>2 DEF Apt
  <2>4. \/ st'.closed
        \/ r.expect \in 1..clock' /\ (r.ret = "st.end" => r.expect = r.want)
    BY <1>2, <1>4, <2>1 DEF Apt
  <2>5. ~ok => GivenUp(r, st')
    BY <1>2, <2>1 DEF GivenUp
  <2>6. Apt(r, st', clock')
    BY <1>2, <1>6, <1>8, <2>3, <2>4, <2>5
       DEF Apt, Making, Creations, Outputs, Suspensions
  <2> QED
    BY <1>2, <1>3, <2>1, <2>2, <2>6, GoFollows
<1> QED
  BY <1>5, <1>7, <1>8

\* A creation begins for a boundary nobody else may still bring.
LEMMA CreateFollows ==
  ASSUME Given, NEW t \in Tasks, NEW r \in Coroutines, Create(t, r),
         clock' = clock, r.op = task[t].op, r.want = task[t].want,
         task[t].pc # "idle", r.ret \in {"st.end", "rs.end"},
         st'.closed \/ (r.expect \in 1..clock
                        /\ (r.ret = "st.end" => r.expect = r.want)),
         st'.closed \/ st'.reason # "question",
         \/ st'.closed
         \/ \A u \in Tasks \ {t} : Comes(task[u]) => task[u].want # r.expect
  PROVE  Follows(t)
<1> DEFINE q == [r EXCEPT !.pc = "cr.entity", !.ref = 0]
<1>1. /\ q.pc = "cr.entity" /\ q.op = r.op /\ q.want = r.want /\ q.ret = r.ret
      /\ q.expect = r.expect
  BY DEF Coroutines
<1>2. Go(t, q)
  BY DEF Create
<1> HIDE DEF q
<1>3. Comes(q) => Comes(task[t]) /\ q.want = task[t].want
  BY <1>1 DEF Comes
<1>4. Comes(q) => q.want \in 1..clock'
  BY <1>3 DEF Given, ColumnInv, AllApt, Apt
<1>5. Apt(q, st', clock')
  BY <1>1, <1>4 DEF Apt, GivenUp, Making, Creations, Outputs, Suspensions
<1> QED
  BY <1>1, <1>2, <1>3, <1>5, GoFollows

\* A coroutine sets out to suspend the segment for its message.
LEMMA SuspendFollows ==
  ASSUME Given, NEW t \in Tasks, NEW r \in Coroutines, Suspend(t, r),
         clock' = clock, Comes(task[t]), r.op = task[t].op,
         r.want = task[t].want, r.why = "steer", r.op \in {"ack", "silent"}
  PROVE  Follows(t)
<1> DEFINE q == [r EXCEPT !.pc = "sus.quiet", !.ref = st.cur]
<1>1. /\ q.pc = "sus.quiet" /\ q.op = r.op /\ q.want = r.want
      /\ q.why = r.why
  BY DEF Coroutines
<1>2. Go(t, q)
  BY DEF Suspend
<1> HIDE DEF q
<1>3. ~Seeks(q) /\ q.want \in 1..clock'
  BY <1>1 DEF Seeks, Making, Creations, Given, ColumnInv, AllApt, Apt
<1>4. Apt(q, st', clock')
  BY <1>1, <1>3 DEF Apt, Making, Creations, Outputs, Suspensions
<1> QED
  BY <1>1, <1>2, <1>3, <1>4, GoFollows

\* A suspension that is over: a steer goes on to the segment below it.
LEMMA SuspendedFollows ==
  ASSUME Given, NEW t \in Tasks, Suspended(t), clock' = clock,
         task[t].pc \in {"sus.lock", "sus.write"},
         st'.closed \/ (st'.anchor = task[t].want
                        /\ (task[t].op \in {"ack", "silent"}
                              => st'.reason # "question"))
  PROVE  Follows(t)
<1>1. Apt(task[t], st, clock) /\ task[t].pc # "idle"
  BY DEF Given, ColumnInv, AllApt
<1>2. CASE task[t].ret = "cr.entity"
  <2> DEFINE r == [task[t] EXCEPT !.expect = st'.anchor, !.ret = "st.end"]
  <2>1. /\ r \in Coroutines /\ r.want = task[t].want /\ r.ret = "st.end"
        /\ r.expect = st'.anchor /\ r.op = task[t].op
    <3>1. task[t] \in Coroutines /\ st'.anchor \in Nat /\ "st.end" \in Returns
      BY DEF Given, TypeOK, States, Returns
    <3> QED
      BY <3>1 DEF Coroutines
  <2>2. Create(t, r)
    BY <1>2 DEF Suspended
  <2> HIDE DEF r
  <2>3. task[t].op \in {"ack", "silent"} /\ Comes(task[t])
    BY <1>1, <1>2 DEF Apt, Suspensions, Comes
  <2>4. task[t].want \in 1..clock
    BY <1>1, <2>3 DEF Apt
  <2>5. \A u \in Tasks \ {t} :
          Comes(task[u]) => task[u].want # task[t].want
    BY <2>3 DEF Given, ColumnInv, Apart
  <2> QED
    BY <1>1, <2>1, <2>2, <2>3, <2>4, <2>5, CreateFollows
<1>3. CASE task[t].ret # "cr.entity"
  BY <1>1, <1>3, FinishFollows DEF Suspended
<1> QED
  BY <1>2, <1>3

LEMMA AfterResumeFollows ==
  ASSUME Given, NEW t \in Tasks, NEW ok \in BOOLEAN, AfterResume(t, ok),
         clock' = clock, task[t].pc # "idle", st'.reason # "fallback"
  PROVE  Follows(t)
<1>1. \/ \E p \in {"tool.commit", "tool.check", "fin.enter", "out.commit"} :
             Go(t, To(t, p))
      \/ Finish(t, TRUE)
  BY DEF AfterResume
<1>2. \A p \in {"tool.commit", "tool.check", "fin.enter", "out.commit"} :
        p \notin Obliged /\ p # "st.silent"
  BY DEF Obliged, Making, Creations, Outputs, Suspensions
<1> QED
  BY <1>1, <1>2, ToRoams, FinishFollows

-----------------------------------------------------------------------------
(* Steps that commit a boundary or bring a message *)

\* t makes its message the anchor: whoever creates a segment below another
\* boundary is given up.
LEMMA AnchorStep ==
  ASSUME Given, NEW t \in Tasks, Follows(t), clock' = clock, Comes(task[t]),
         lock = NoTask, ~st.closed, ~st'.closed, st'.anchor = task[t].want,
         st'.cur = st.cur, st'.reason # "fallback", CtlSettled,
         Comes(task'[t]) => st'.reason = "steer"
  PROVE  ColumnInv'
<1>1. clock \in Nat /\ task[t].want \in 1..clock
  BY DEF Given, TypeOK, ColumnInv, AllApt, Apt
<1>2. \A u \in Tasks \ {t} : ~Writing(u)
  BY Unwritten
<1>3. FlushesOpen'
  BY Unwritten, FlushesNone
<1>4. AllApt'
  <2>1. ASSUME NEW u \in Tasks \ {t}
        PROVE  Apt(task[u], st', clock)
    <3>1. Apt(task[u], st, clock)
      BY DEF Given, ColumnInv, AllApt
    <3>2. task[u].pc \notin Outputs \cup {"sus.write"}
      BY <1>2 DEF Writing, Outputs
    <3>3. Seeks(task[u]) => GivenUp(task[u], st')
      BY DEF Given, ColumnInv, Apart, GivenUp
    <3> QED
      BY <1>1, <3>1, <3>2, <3>3, AptKept
  <2> QED
    BY <2>1 DEF AllApt, Follows
<1>5. Apart'
  BY ApartKept DEF Given
<1>6. Steered'
  BY DEF Given, ColumnInv, Apart, Steered, Follows
<1> QED
  BY <1>1, <1>3, <1>4, <1>5, <1>6 DEF ColumnInv

\* t commits its segment below the anchor.
LEMMA CommitStep ==
  ASSUME Given, NEW t \in Tasks, Follows(t), clock' = clock, lock = NoTask,
         ~st.closed, ~st'.closed, st'.anchor = 0, st'.reason # "fallback",
         CtlSettled
  PROVE  ColumnInv'
<1>1. clock \in Nat /\ 0 <= clock
  BY DEF Given, TypeOK
<1>2. FlushesOpen'
  BY Unwritten, FlushesNone
<1>3. AllApt'
  <2>1. ASSUME NEW u \in Tasks \ {t}
        PROVE  Apt(task[u], st', clock)
    <3>1. Apt(task[u], st, clock)
      BY DEF Given, ColumnInv, AllApt
    <3>2. task[u].pc \notin Outputs \cup {"sus.write"}
      BY Unwritten DEF Writing, Outputs
    <3>3. Seeks(task[u]) => task[u].expect # 0
      BY <1>1, <3>1 DEF Apt
    <3>4. Seeks(task[u]) => GivenUp(task[u], st')
      BY <3>3 DEF GivenUp
    <3> QED
      BY <1>1, <3>1, <3>2, <3>4, AptKept
  <2> QED
    BY <2>1 DEF AllApt, Follows
<1>4. Apart'
  BY ApartKept DEF Given
<1>5. Steered'
  <2>1. \A u \in Tasks : Comes(task'[u]) => task'[u].want \in 1..clock
    BY <1>3 DEF AllApt, Apt
  <2>2. \A u \in Tasks : Comes(task'[u]) => task'[u].want # st'.anchor
    BY <1>1, <2>1
  <2> QED
    BY <2>2 DEF Steered
<1> QED
  BY <1>1, <1>2, <1>3, <1>4, <1>5 DEF ColumnInv

\* A new message comes, to t if to anybody.
LEMMA MessageStep ==
  ASSUME Given, NEW t \in Tasks, UNCHANGED st, clock' = clock + 1, CtlSettled,
         \/ UNCHANGED task
         \/ /\ \A u \in Tasks \ {t} : task'[u] = task[u]
            /\ Apt(task'[t], st, clock + 1) /\ ~Seeks(task'[t])
            /\ Comes(task'[t]) => task'[t].want = clock + 1
  PROVE  ColumnInv'
<1> DEFINE n == clock + 1
<1>1. clock \in Nat /\ n \in Nat /\ clock <= n
  BY DEF Given, TypeOK
<1>2. \A u \in Tasks : /\ Comes(task[u]) => task[u].want # n
                       /\ Seeks(task[u]) => st.closed \/ task[u].expect # n
  BY <1>1 DEF Given, ColumnInv, AllApt, Apt
<1>3. st.anchor \in Nat /\ st.anchor <= clock
  BY DEF Given, TypeOK, States, ColumnInv
<1>4. st.anchor # n /\ st.anchor <= n
  BY <1>1, <1>3
<1> HIDE DEF n
<1>5. AllApt'
  <2>1. ASSUME NEW u \in Tasks
        PROVE  Apt(task[u], st, n)
    <3>1. Apt(task[u], st, clock)
      BY DEF Given, ColumnInv, AllApt
    <3>2. task[u].pc \in Outputs \cup {"sus.write"} => st.open /\ ~st.closed
      BY <3>1 DEF Apt
    <3> QED
      BY <1>1, <3>1, <3>2, AptKept
  <2> QED
    BY <2>1 DEF AllApt, n
<1>6. CASE UNCHANGED task
  BY <1>4, <1>5, <1>6, FlushesStay
     DEF Given, ColumnInv, Apart, Steered, n
<1>7. CASE /\ \A u \in Tasks \ {t} : task'[u] = task[u]
           /\ ~Seeks(task'[t]) /\ Comes(task'[t]) => task'[t].want = n
  <2>1. Apart'
    BY <1>2, <1>7 DEF Given, ColumnInv, Apart
  <2>2. Steered'
    BY <1>4, <1>7 DEF Given, ColumnInv, Steered
  <2> QED
    BY <1>4, <1>5, <2>1, <2>2, FlushesStay DEF Given, ColumnInv, n
<1> QED
  BY <1>6, <1>7 DEF n

-----------------------------------------------------------------------------
(* Creation of a segment *)

LEMMA CalmColumn ==
  ASSUME Given, NEW t \in Tasks, Follows(t), UNCHANGED <<st, clock>>,
         CtlSettled
  PROVE  ColumnInv'
<1>1. FlushesOpen'
  BY FlushesStay
<1> QED
  BY <1>1, UnchangedStKept, KeptStep

LEMMA CreatingFollows ==
  ASSUME Given, NEW t \in Tasks, NEW p \in {"cr.check", "cr.send"},
         Go(t, To(t, p)), UNCHANGED <<st, clock>>, task[t].pc \in Creations
  PROVE  Follows(t)
<1> DEFINE q == To(t, p)
<1>1. /\ q.pc = p /\ q.op = task[t].op /\ q.want = task[t].want
      /\ q.ret = task[t].ret /\ q.expect = task[t].expect
  BY ToFields DEF Given
<1>2. Go(t, q)
  OBVIOUS
<1>3. Apt(task[t], st, clock) /\ task[t].pc # "idle"
  BY DEF Given, ColumnInv, AllApt, Creations
<1> HIDE DEF q
<1>4. Comes(q) => Comes(task[t])
  BY <1>1, <1>3 DEF Comes
<1>5. Seeks(q) => Seeks(task[t])
  BY <1>1 DEF Seeks, Making
<1>6. GivenUp(task[t], st) => GivenUp(q, st)
  BY <1>1 DEF GivenUp
<1>7. Apt(q, st, clock)
  BY <1>1, <1>3, <1>4, <1>5, <1>6
     DEF Apt, Making, Creations, Outputs, Suspensions
<1> QED
  BY <1>1, <1>2, <1>4, <1>5, <1>7, GoFollows

\* Only a creation for a boundary checks it.
LEMMA Checks ==
  ASSUME BoundaryInv, NEW t \in Tasks, task[t].pc = "cr.check"
  PROVE  task[t].ret # "st.next"
BY DEF BoundaryInv, AllPlaced, Placed, Begins, First, Creations

LEMMA NotCurrent ==
  ASSUME NEW t \in Tasks, UNCHANGED st, ~BoundaryCurrent(task[t].expect)
  PROVE  GivenUp(task[t], st')
BY DEF BoundaryCurrent, GivenUp

LEMMA CreateEntityColumn ==
  ASSUME Given, NEW t \in Tasks, CreateEntity(t)
  PROVE  ColumnInv'
<1>1. task[t].pc = "cr.entity" /\ UNCHANGED <<st, ctl, clock>>
  BY DEF CreateEntity, At
<1>2. \E p \in {"cr.check", "cr.send"} : Go(t, To(t, p))
  BY NoFailure DEF CreateEntity
<1>3. Follows(t)
  BY <1>1, <1>2, CreatingFollows DEF Creations
<1> QED
  BY <1>1, <1>3, CalmColumn, UnchangedCtlSettled

LEMMA CreateCheckColumn ==
  ASSUME Given, NEW t \in Tasks, CreateCheck(t)
  PROVE  ColumnInv'
<1>1. task[t].pc = "cr.check" /\ UNCHANGED <<st, ctl, clock>>
  BY DEF CreateCheck, At
<1>2. CASE Go(t, To(t, "cr.send"))
  BY <1>1, <1>2, CreatingFollows, CalmColumn, UnchangedCtlSettled
     DEF Creations
<1>3. CASE Created(t, FALSE) /\ ~BoundaryCurrent(task[t].expect)
  <2>1. task[t].ret # "st.next" /\ GivenUp(task[t], st')
    BY <1>1, <1>3, Checks, NotCurrent DEF Given
  <2>2. Follows(t)
    BY <1>1, <1>3, <2>1, CreatedFollows DEF Making, Creations
  <2> QED
    BY <1>1, <2>2, CalmColumn, UnchangedCtlSettled
<1> QED
  BY <1>2, <1>3 DEF CreateCheck

LEMMA CreateSendColumn ==
  ASSUME Given, NEW t \in Tasks, CreateSend(t)
  PROVE  ColumnInv'
<1> DEFINE n == Len(segs')
           card == NewCard(ReplyTo(task[t]))
           q == [To(t, "cr.commit") EXCEPT !.ref = n]
<1>1. /\ task[t].pc = "cr.send" /\ UNCHANGED <<st, clock>>
      /\ ctl' = Append(ctl, NewController) /\ segs' = Append(segs, card)
      /\ Go(t, q)
  BY NoFailure DEF CreateSend, At
<1>2. n > st.cur
  <2>1. segs \in Seq(CardType) /\ st.cur <= Len(segs) /\ st.cur \in Nat
    BY DEF Given, TypeOK, States, WritesInv, CurrentStreams
  <2> HIDE DEF card
  <2>2. n = Len(segs) + 1 /\ Len(segs) \in Nat
    BY <1>1, <2>1
  <2> QED
    BY <2>1, <2>2
<1>3. /\ q.pc = "cr.commit" /\ q.op = task[t].op /\ q.want = task[t].want
      /\ q.ret = task[t].ret /\ q.expect = task[t].expect /\ q.ref = n
  BY DEF Given, TypeOK, To, Coroutines
<1>4. Apt(task[t], st, clock)
  BY DEF Given, ColumnInv, AllApt
<1> HIDE DEF n, q, card
<1>5. (Comes(q) => Comes(task[t])) /\ (Seeks(q) => Seeks(task[t]))
  BY <1>1, <1>3 DEF Comes, Seeks, Making, Creations
<1>6. GivenUp(task[t], st) => GivenUp(q, st)
  BY <1>3 DEF GivenUp
<1>7. Apt(q, st, clock)
  BY <1>1, <1>2, <1>3, <1>4, <1>5, <1>6
     DEF Apt, Making, Creations, Outputs, Suspensions
<1>8. Follows(t)
  BY <1>1, <1>3, <1>5, <1>7, GoFollows
<1>9. CtlSettled
  <2>1. ctl \in Seq(Controllers) /\ NewController.state = "idle"
    BY DEF Given, TypeOK, NewController
  <2>2. /\ Len(ctl') = Len(ctl) + 1 /\ ctl'[Len(ctl) + 1] = NewController
        /\ \A i \in 1..Len(ctl) : ctl'[i] = ctl[i]
    BY <1>1, <2>1
  <2>3. \A i \in 1..Len(ctl') : i \in 1..Len(ctl) \/ i = Len(ctl) + 1
    BY <2>1, <2>2
  <2> QED
    BY <2>1, <2>2, <2>3 DEF CtlSettled
<1> QED
  BY <1>1, <1>8, <1>9, CalmColumn

LEMMA CreateCommitColumn ==
  ASSUME Given, NEW t \in Tasks, CreateCommit(t)
  PROVE  ColumnInv'
<1> DEFINE r == task[t]
<1>1. /\ r.pc = "cr.commit" /\ lock = NoTask
      /\ UNCHANGED <<segs, ctl, clock>>
  BY DEF CreateCommit, At, MayLock
<1>2. Apt(r, st, clock) /\ Placed(r, st, segs)
  BY DEF Given, ColumnInv, AllApt, BoundaryInv, AllPlaced
<1>3. CASE /\ r.ret # "st.next" /\ ~BoundaryCurrent(r.expect)
           /\ Go(t, To(t, "rt.write")) /\ UNCHANGED st
  <2> DEFINE q == To(t, "rt.write")
  <2>1. /\ q.pc = "rt.write" /\ q.op = r.op /\ q.want = r.want
        /\ q.ret = r.ret /\ q.expect = r.expect
    BY ToFields DEF Given
  <2>2. Go(t, q)
    BY <1>3
  <2> HIDE DEF q
  <2>3. Comes(q) => Comes(r)
    BY <1>1, <2>1 DEF Comes
  <2>4. Seeks(r)
    BY <1>1, <1>3 DEF Seeks, Making, Creations
  <2>5. GivenUp(q, st)
    BY <1>3, <2>1 DEF BoundaryCurrent, GivenUp
  <2>6. Apt(q, st, clock)
    BY <1>2, <1>3, <2>1, <2>3, <2>4, <2>5
       DEF Apt, Making, Creations, Outputs, Suspensions
  <2>7. Follows(t)
    BY <1>1, <1>3, <2>1, <2>2, <2>3, <2>4, <2>6, GoFollows
  <2> QED
    BY <1>1, <1>3, <2>7, CalmColumn, UnchangedCtlSettled
<1>4. CASE /\ r.ret = "st.next" \/ BoundaryCurrent(r.expect)
           /\ \E u : st' = Opened(st, r.ref, u)
           /\ Created(t, TRUE)
  <2>1. /\ st'.anchor = 0 /\ ~st'.closed /\ st'.reason = NewState.reason
        /\ NewState.reason # "fallback"
    BY <1>4 DEF Opened, NewState
  <2>2. CASE r.ret = "st.next"
    <3>1. st.cur = 0
      BY <1>1, <1>2, <2>2 DEF Placed, Creations
    <3>2. \A u \in Tasks \ {t} : task[u].pc = "idle"
      BY <1>1, <3>1 DEF Given, BoundaryInv, Begins
    <3>3. ~Seeks(r)
      BY <2>2 DEF Seeks
    <3>4. Follows(t)
      BY <1>1, <1>4, <3>3, CreatedFollows DEF Making, Creations
    <3>5. task'[t].pc = "st.next" /\ task'[t].op = "start"
      <4>1. First(r)
        BY <1>1, <3>1 DEF Given, BoundaryInv, Begins
      <4> DEFINE q == [r EXCEPT !.res = TRUE, !.pc = "st.next"]
      <4>2. Go(t, q)
        BY <1>4, <2>2 DEF Created
      <4>3. q.pc = "st.next" /\ q.op = r.op
        BY DEF Given, TypeOK, Coroutines
      <4> HIDE DEF q
      <4>4. task'[t] = q
        BY <4>2 DEF Go, Given, TypeOK
      <4> QED
        BY <1>1, <4>1, <4>3, <4>4 DEF First
    <3>6. \A u \in Tasks : ~Comes(task'[u]) /\ ~Seeks(task'[u])
      BY <3>2, <3>4, <3>5
         DEF Follows, Comes, Seeks, Making, Creations, Suspensions
    <3>7. AllApt'
      <4>1. ASSUME NEW u \in Tasks \ {t}
            PROVE  Apt(task[u], st', clock')
        BY <3>2, <3>4, <3>6
           DEF Apt, Follows, Making, Creations, Outputs, Suspensions
      <4> QED
        BY <3>4, <4>1 DEF AllApt, Follows
    <3>8. Apart' /\ Steered'
      BY <3>6 DEF Apart, Steered
    <3>9. FlushesOpen' /\ 0 <= clock'
      BY <1>1, Unwritten, FlushesNone, UnchangedCtlSettled DEF Given, TypeOK
    <3> QED
      BY <2>1, <3>7, <3>8, <3>9 DEF ColumnInv
  <2>3. CASE r.ret # "st.next" /\ BoundaryCurrent(r.expect)
    <3>1. ~st.closed
      BY <2>3 DEF BoundaryCurrent
    <3>2. Follows(t)
      BY <1>1, <1>4, <2>3, <3>1, CreatedFollows DEF Making, Creations
    <3> QED
      BY <1>1, <2>1, <3>1, <3>2, CommitStep, UnchangedCtlSettled
  <2> QED
    BY <1>4, <2>2, <2>3
<1> QED
  BY <1>3, <1>4 DEF CreateCommit

LEMMA RetireWriteColumn ==
  ASSUME Given, NEW t \in Tasks, RetireWrite(t)
  PROVE  ColumnInv'
<1>1. /\ task[t].pc = "rt.write" /\ UNCHANGED <<st, ctl, clock>>
      /\ Created(t, FALSE)
  BY DEF RetireWrite, At
<1>2. GivenUp(task[t], st') /\ task[t].ret # "st.next"
  BY <1>1 DEF Given, ColumnInv, AllApt, Apt
<1>3. Follows(t)
  BY <1>1, <1>2, CreatedFollows DEF Making
<1> QED
  BY <1>1, <1>3, CalmColumn, UnchangedCtlSettled

-----------------------------------------------------------------------------
(* Boundaries *)

LEMMA DrainColumn ==
  ASSUME Given, NEW t \in Tasks, Drain(t)
  PROVE  ColumnInv'
<1>1. /\ task[t].pc \in {"sus.quiet", "fin.quiet"}
      /\ UNCHANGED <<st, ctl, clock>>
  BY DEF Drain, At
<1>2. CASE Go(t, To(t, "sus.lock")) /\ task[t].pc = "sus.quiet"
  <2> DEFINE q == To(t, "sus.lock")
  <2>1. /\ q.pc = "sus.lock" /\ q.op = task[t].op /\ q.want = task[t].want
        /\ q.ret = task[t].ret /\ q.why = task[t].why
    BY DEF Given, TypeOK, To, Coroutines
  <2>2. Go(t, q)
    BY <1>2
  <2>3. Apt(task[t], st, clock)
    BY DEF Given, ColumnInv, AllApt
  <2> HIDE DEF q
  <2>4. Comes(task[t]) /\ ~Seeks(q)
    BY <1>2, <2>1 DEF Comes, Seeks, Making, Creations
  <2>5. Apt(q, st, clock)
    BY <1>2, <2>1, <2>3, <2>4 DEF Apt, Making, Creations, Outputs, Suspensions
  <2>6. Follows(t)
    BY <1>1, <2>1, <2>2, <2>4, <2>5, GoFollows
  <2> QED
    BY <1>1, <2>6, CalmColumn, UnchangedCtlSettled
<1>3. CASE Go(t, To(t, "fin.lock"))
  <2>1. Follows(t)
    BY <1>1, <1>3, ToRoams
       DEF Obliged, Making, Creations, Outputs, Suspensions
  <2> QED
    BY <1>1, <2>1, CalmColumn, UnchangedCtlSettled
<1> QED
  BY <1>2, <1>3 DEF Drain

LEMMA AnchoredReason ==
  ASSUME NEW s \in States, NEW a, NEW why
  PROVE  Anchored(s, a, why).reason = why
BY DEF Anchored, States

LEMMA SuspendLockedColumn ==
  ASSUME Given, NEW t \in Tasks, SuspendLocked(t)
  PROVE  ColumnInv'
<1> DEFINE s == Anchored(st, task[t].want, task[t].why)
<1>1. /\ task[t].pc = "sus.lock" /\ lock = NoTask
      /\ UNCHANGED <<segs, ctl, clock>>
  BY DEF SuspendLocked, At, MayLock
<1>2. Apt(task[t], st, clock) /\ Comes(task[t]) /\ CtlSettled
  BY <1>1, UnchangedCtlSettled DEF Given, ColumnInv, AllApt, Comes
<1>3. /\ s \in States /\ s.anchor = task[t].want /\ s.cur = st.cur
      /\ s.open = st.open /\ s.closed = st.closed /\ s.reason = task[t].why
  <2>1. st \in States /\ task[t].why \in Reasons /\ task[t].want \in Nat
    BY DEF Given, TypeOK, Coroutines
  <2>2. s \in States
    BY <2>1, AnchoredType
  <2> QED
    BY <2>1, <2>2, AnchoredRoute, AnchoredReason
<1>4. task[t].why # "fallback"
  BY <1>1, <1>2 DEF Apt
<1>5. task[t].op \in {"ack", "silent"} => task[t].why = "steer"
  BY <1>1, <1>2 DEF Apt
<1> HIDE DEF s
<1>6. CASE st.closed /\ UNCHANGED st /\ Suspended(t)
  <2>1. Follows(t)
    BY <1>1, <1>6, SuspendedFollows
  <2> QED
    BY <1>1, <1>2, <1>6, <2>1, CalmColumn
<1>7. CASE /\ ~st.closed /\ st.open
           /\ st' = s \/ \E x : st' = [s EXCEPT !.tool = x]
           /\ Go(t, To(t, "sus.write"))
  <2> DEFINE q == To(t, "sus.write")
  <2>1. /\ st'.anchor = task[t].want /\ st'.cur = st.cur
        /\ st'.open /\ ~st'.closed /\ st'.reason = task[t].why
    BY <1>3, <1>7 DEF States
  <2>2. /\ q.pc = "sus.write" /\ q.op = task[t].op /\ q.want = task[t].want
        /\ q.ret = task[t].ret
    BY ToFields DEF Given
  <2>3. Go(t, q) /\ task'[t] = q
    BY <1>7 DEF Go, Given, TypeOK
  <2> HIDE DEF q
  <2>4. ~Seeks(q)
    BY <2>2 DEF Seeks, Making, Creations
  <2>5. Comes(q) => task[t].op \in {"ack", "silent"}
    BY <2>2 DEF Comes
  <2>6. Apt(q, st', clock)
    BY <1>1, <1>2, <2>1, <2>2, <2>4
       DEF Apt, Making, Creations, Outputs, Suspensions
  <2>7. Follows(t)
    BY <1>1, <1>2, <2>2, <2>3, <2>4, <2>6, GoFollows
  <2> QED
    BY <1>1, <1>2, <1>4, <1>5, <1>7, <2>1, <2>3, <2>5, <2>7, AnchorStep
<1>8. CASE ~st.closed /\ ~st.open /\ st' = s /\ Suspended(t)
  <2>1. Follows(t)
    BY <1>1, <1>3, <1>5, <1>8, SuspendedFollows
  <2>2. Comes(task'[t]) => task[t].op \in {"ack", "silent"}
    <3>1. CASE task[t].ret = "cr.entity"
      BY <1>1, <1>2, <3>1 DEF Apt, Suspensions
    <3>2. CASE task[t].ret # "cr.entity" /\ task[t].op # "ack"
      <4>1. Go(t, Idle)
        BY <1>8, <3>2 DEF Suspended, Finish
      <4>2. task'[t].pc = "idle"
        BY <4>1 DEF Go, Given, TypeOK, Idle
      <4> QED
        BY <4>2 DEF Comes
    <3> QED
      BY <3>1, <3>2
  <2> QED
    BY <1>1, <1>2, <1>3, <1>4, <1>5, <1>8, <2>1, <2>2, AnchorStep
<1> QED
  BY <1>6, <1>7, <1>8 DEF SuspendLocked, s

-----------------------------------------------------------------------------
(* Steps that commit no boundary and no segment *)

LEMMA SteerEndKept ==
  ASSUME Given, NEW t \in Tasks, SteerEnd(t)
  PROVE  StKept /\ StOpen
<1>1. task[t].pc = "st.end"
  BY DEF SteerEnd, At
<1>2. ~(~task[t].res /\ BoundaryCurrent(task[t].want))
  <2>1. Apt(task[t], st, clock)
    BY DEF Given, ColumnInv, AllApt
  <2>2. Seeks(task[t]) /\ task[t].ret = "st.end"
    BY <1>1, <2>1 DEF Apt, Seeks
  <2> QED
    BY <1>1, <2>1, <2>2 DEF Apt, GivenUp, BoundaryCurrent
<1>3. \E x, y, w : st' = [TransitionOver(st, x) EXCEPT
                            !.pending = y, !.reason = @, !.active = w]
  BY <1>2 DEF SteerEnd
<1> QED
  BY <1>3 DEF TransitionOver, StKept, StOpen, Given, TypeOK, States

LEMMA ResumeKept ==
  ASSUME Given, NEW t \in Tasks, ResumeEnter(t) \/ ResumeOk(t) \/ ResumeEnd(t)
  PROVE  UNCHANGED st
<1>1. CASE ResumeEnd(t)
  <2>1. GivenUp(task[t], st)
    BY <1>1 DEF ResumeEnd, At, Given, ColumnInv, AllApt, Apt
  <2>2. ~BoundaryCurrent(task[t].expect)
    BY <2>1 DEF GivenUp, BoundaryCurrent
  <2> QED
    BY <1>1, <2>2 DEF ResumeEnd
<1> QED
  BY <1>1 DEF ResumeEnter, ResumeOk

LEMMA StateKept ==
  ASSUME Given, NEW t \in Tasks,
         \/ OutputCommit(t) \/ FinalizeEnter(t) \/ FinalizeLocked(t)
         \/ FinalizeReturn(t) \/ ToolCheck(t) \/ ToolCommit(t)
         \/ ToolWrite(t) \/ Adopt(t)
  PROVE  StKept /\ StOpen
<1>1. st \in States
  BY DEF Given, TypeOK
<1>2. CASE OutputCommit(t) \/ FinalizeEnter(t) \/ FinalizeLocked(t)
  <2>1. \/ UNCHANGED st
        \/ \E x : st' = [st EXCEPT !.pending = x]
        \/ \E x : st' = [st EXCEPT !.content = x]
        \/ \E x, y : st' = [st EXCEPT !.content = x, !.defTerm = y]
    BY <1>2 DEF OutputCommit, FinalizeEnter, FinalizeLocked
  <2> QED
    BY <1>1, <2>1 DEF StKept, StOpen, States
<1>3. CASE FinalizeReturn(t) \/ ToolCheck(t) \/ ToolCommit(t) \/ Adopt(t)
  <2>1. \/ UNCHANGED st
        \/ st' = Forgotten(st)
        \/ \E x : st' = [st EXCEPT !.defTool = x]
        \/ \E x, y : st' = [st EXCEPT !.tool = x, !.seq = y]
        \/ \E x, y : st' = [st EXCEPT !.active = x, !.terminal = y]
    BY <1>3 DEF FinalizeReturn, ToolCheck, ToolCommit, Adopt
  <2> QED
    BY <1>1, <2>1 DEF Forgotten, StKept, StOpen, States
<1>4. CASE ToolWrite(t)
  <2>1. st' = [st EXCEPT !.pending = FALSE, !.phase = "generating"]
    BY <1>4, NoFailure DEF ToolWrite
  <2> QED
    BY <1>1, <2>1 DEF StKept, StOpen, States
<1> QED
  BY <1>2, <1>3, <1>4

\* Steps that freeze or close the segment.
LEMMA SuspendWriteKept ==
  ASSUME Given, NEW t \in Tasks, SuspendWrite(t)
  PROVE  StKept /\ ~st'.open /\ st'.closed = st.closed
<1>1. \E x : st' = Frozen(st, x)
  BY NoFailure DEF SuspendWrite
<1> QED
  BY <1>1 DEF Frozen, StKept, Given, TypeOK, States

LEMMA FinalizeWriteKept ==
  ASSUME Given, NEW t \in Tasks, FinalizeWrite(t)
  PROVE  StKept /\ st'.closed
<1> DEFINE n == st.seq + (IF st.content # st.flushed THEN 3 ELSE 2)
           q == ClosedBy(st, task[t].out)
<1>1. \E x : st' = [q EXCEPT !.seq = n, !.flushed = x]
  <2>1. \A o : Spend(o) => o = "ok"
    BY NoFailure
  <2>2. st' = [[q EXCEPT !.seq = n] EXCEPT !.flushed = st.content]
    BY <2>1 DEF FinalizeWrite
  <2>3. st' = [q EXCEPT !.seq = n, !.flushed = st.content]
    BY <2>2
  <2> HIDE DEF n, q
  <2> QED
    BY <2>3
<1>2. /\ q.cur = st.cur /\ q.closed /\ q.anchor = st.anchor
      /\ q.reason = st.reason /\ q.routed = st.routed /\ q \in States
  <2>1. st \in States /\ task[t].out \in Phases
    BY DEF Given, TypeOK, Coroutines, Phases
  <2> QED
    BY <2>1, ClosedByType DEF ClosedBy, States
<1> HIDE DEF q, n
<1> QED
  BY <1>1, <1>2 DEF StKept, States

LEMMA ExpireKept ==
  ASSUME Given, NEW t \in Tasks, ExpireLocked(t)
  PROVE  StKept /\ st'.closed
BY DEF ExpireLocked, StKept, Given, TypeOK, States

\* Completion closes nothing but a frozen segment of a turn that is not closed.
LEMMA CompleteKept ==
  ASSUME Given, Complete
  PROVE  /\ StKept /\ st'.open = st.open
         /\ UNCHANGED st \/ ~st.routed \/ st.closed \/ ~st.open
         /\ ~st.routed \/ st.closed => StOpen
<1>1. \/ UNCHANGED st
      \/ ~st.routed \/ st.closed \/ ~st.open
  BY DEF Complete
<1>2. PICK e \in Endings : CompleteAs(e)
  BY DEF Complete, CompleteAs
<1> DEFINE out == CASE e = "success" -> "complete"
                    [] e = "failure" -> "error"
                    [] e = "cancelled" -> "stopped"
           close == ~st.closed /\ (st.reason = "artifact" \/ e # "success")
           s == IF close THEN ClosedBy(st, out) ELSE st
<1>3. /\ s \in States /\ s.cur = st.cur /\ s.open = st.open
      /\ s.anchor = st.anchor /\ s.reason = st.reason
      /\ s.routed = st.routed
      /\ st.closed => s = st
  <2>1. out \in Phases /\ st \in States
    BY ChoicesAssumption DEF Phases, Outs, Given, TypeOK
  <2> HIDE DEF out
  <2>2. CASE close
    <3>1. s = ClosedBy(st, out)
      BY <2>2
    <3> HIDE DEF s, close
    <3>2. s \in States
      BY <2>1, <3>1, ClosedByType
    <3>3. /\ s.cur = st.cur /\ s.open = st.open /\ s.anchor = st.anchor
          /\ s.reason = st.reason /\ s.routed = st.routed
      BY <2>1, <3>1 DEF ClosedBy, States
    <3>4. ~st.closed
      BY <2>2 DEF close
    <3> QED
      BY <3>2, <3>3, <3>4
  <2>3. CASE ~close
    BY <2>1, <2>3
  <2> QED
    BY <2>2, <2>3
<1>4. /\ ~st.routed => st' = st
      /\ st' = st \/ st' = Forgotten(s) \/ st' = s
  BY <1>2 DEF CompleteAs
<1> HIDE DEF s
<1>5. /\ Forgotten(s).cur = s.cur /\ Forgotten(s).open = s.open
      /\ Forgotten(s).anchor = s.anchor /\ Forgotten(s).reason = s.reason
      /\ Forgotten(s).closed = s.closed /\ ~Forgotten(s).routed
  BY <1>3 DEF Forgotten, States
<1>6. StKept /\ st'.open = st.open
  BY <1>3, <1>4, <1>5 DEF StKept
<1>7. ~st.routed \/ st.closed => StOpen
  BY <1>3, <1>4, <1>5 DEF StOpen
<1> QED
  BY <1>1, <1>6, <1>7

\* What the write of a flush changes.
LEMMA FlushWriteKept ==
  ASSUME Given, NEW i \in 1..Len(ctl), FlushWrite(i)
  PROVE  StKept /\ StOpen /\ st'.routed = st.routed
<1> DEFINE text == ctl[i].text
           full == st.phase = "thinking" \/ st.pending
           m == st.seq + 1
           g == [st EXCEPT !.seq = m, !.phase = "generating", !.pending = FALSE]
           s == IF full THEN [st EXCEPT !.seq = @ + 1, !.phase = "generating",
                                        !.pending = FALSE]
                ELSE st
           n == s.seq + 1
           done == [s EXCEPT !.flushed = text, !.seq = n]
           changed == text # st.flushed
<1>1. st \in States /\ m \in Nat
  <2>1. st \in States
    BY DEF Given, TypeOK
  <2> QED
    BY <2>1 DEF States
<1>2. st' = IF changed THEN done ELSE s
  <2>1. \A o : Spend(o) => o = "ok"
    BY NoFailure
  <2> HIDE DEF done, s, changed
  <2> QED
    BY <2>1 DEF FlushWrite, done, s, changed
<1>3. s = g \/ s = st
  OBVIOUS
<1> HIDE DEF text, full, m, s, changed
<1>4. /\ g.cur = st.cur /\ g.open = st.open /\ g.anchor = st.anchor
      /\ g.closed = st.closed /\ g.reason = st.reason /\ g.routed = st.routed
      /\ g \in States
  BY <1>1 DEF States, Phases
<1> HIDE DEF g
<1>5. s \in States
  BY <1>1, <1>3, <1>4
<1> HIDE DEF n
<1>6. /\ done.cur = s.cur /\ done.open = s.open /\ done.anchor = s.anchor
      /\ done.closed = s.closed /\ done.reason = s.reason
      /\ done.routed = s.routed
  BY <1>5 DEF States
<1> HIDE DEF done
<1> QED
  BY <1>2, <1>3, <1>4, <1>6 DEF StKept, StOpen

LEMMA SuspendWriteColumn ==
  ASSUME Given, NEW t \in Tasks, SuspendWrite(t)
  PROVE  ColumnInv'
<1>1. task[t].pc = "sus.write" /\ UNCHANGED <<ctl, clock>> /\ Suspended(t)
  BY NoFailure DEF SuspendWrite, At
<1>2. lock = t
  BY <1>1 DEF Given, WritesInv, WriterHasLock, Writing
<1>3. StKept
  BY SuspendWriteKept
<1>4. st.anchor = task[t].want
  BY <1>1 DEF Given, BoundaryInv, AllPlaced, Placed
<1>5. task[t].op \in {"ack", "silent"} => st.reason = "steer"
  BY <1>1, <1>4 DEF Given, ColumnInv, Steered, Comes
<1>6. Follows(t)
  BY <1>1, <1>3, <1>4, <1>5, SuspendedFollows DEF StKept
<1> QED
  BY <1>1, <1>2, <1>3, <1>6, KeptStep, Unwritten, FlushesNone,
     UnchangedCtlSettled

LEMMA ResumeColumn ==
  ASSUME Given, NEW t \in Tasks, ResumeEnter(t) \/ ResumeOk(t) \/ ResumeEnd(t)
  PROVE  ColumnInv'
<1> DEFINE r == [task[t] EXCEPT !.expect = st.anchor, !.ret = "rs.end"]
<1>1. /\ task[t].pc \in {"rs.enter", "rs.ok", "rs.end"}
      /\ UNCHANGED <<ctl, clock>>
  BY DEF ResumeEnter, ResumeOk, ResumeEnd, At
<1>2. st.reason # "fallback"
  BY DEF Given, ColumnInv
<1>3. \/ UNCHANGED st /\ \E ok \in BOOLEAN : AfterResume(t, ok)
      \/ /\ UNCHANGED st /\ ~st.closed /\ ~st.open
         /\ st.reason \in {"approval", "artifact"} /\ Create(t, r)
  <2>1. {~st.closed /\ st.open, ~st.closed /\ st.routed /\ st.open}
          \subseteq BOOLEAN
    BY DEF Given, TypeOK, States
  <2>2. UNCHANGED st
    BY ResumeKept
  <2>3. CASE ResumeEnter(t)
    BY <2>1, <2>2, <2>3 DEF ResumeEnter
  <2>4. CASE ResumeOk(t)
    BY <2>1, <2>2, <2>4 DEF ResumeOk
  <2>5. CASE ResumeEnd(t)
    BY <2>1, <2>2, <2>5 DEF ResumeEnd
  <2> QED
    BY <2>3, <2>4, <2>5
<1>4. ASSUME UNCHANGED st, NEW ok \in BOOLEAN, AfterResume(t, ok)
      PROVE  ColumnInv'
  BY <1>1, <1>2, <1>4, AfterResumeFollows, CalmColumn, UnchangedCtlSettled
<1>5. CASE /\ UNCHANGED st /\ ~st.closed /\ ~st.open
           /\ st.reason \in {"approval", "artifact"} /\ Create(t, r)
  <2>1. st.anchor \in 1..clock
    BY <1>5 DEF Given, TypeOK, States, ColumnInv, BoundaryInv, FrozenAtAnchor
  <2>2. /\ r \in Coroutines /\ r.op = task[t].op /\ r.want = task[t].want
        /\ r.ret = "rs.end" /\ r.expect = st.anchor
    <3>1. task[t] \in Coroutines /\ st.anchor \in Nat /\ "rs.end" \in Returns
      BY DEF Given, TypeOK, States, Returns
    <3> QED
      BY <3>1 DEF Coroutines
  <2> HIDE DEF r
  <2>3. \A u \in Tasks \ {t} : Comes(task[u]) => task[u].want # st.anchor
    BY <1>5 DEF Given, ColumnInv, Steered
  <2>4. Follows(t)
    BY <1>1, <1>5, <2>1, <2>2, <2>3, CreateFollows
  <2> QED
    BY <1>1, <1>5, <2>4, CalmColumn, UnchangedCtlSettled
<1> QED
  BY <1>3, <1>4, <1>5

-----------------------------------------------------------------------------
(* Steers *)

LEMMA SteerBeginColumn ==
  ASSUME Given, NEW t \in Tasks, SteerBegin(t)
  PROVE  ColumnInv'
<1> DEFINE s == [st EXCEPT !.trans = TRUE]
           r == [task[t] EXCEPT !.why = "steer", !.ret = "cr.entity"]
           q == [r EXCEPT !.expect = r.want, !.ret = "st.end"]
           a == Anchored(s, r.want, "steer")
<1>1. task[t].pc = "st.begin" /\ lock = NoTask /\ UNCHANGED clock
  BY DEF SteerBegin, At, MayLock
<1>2. Apt(task[t], st, clock) /\ Comes(task[t]) /\ task[t].want \in 1..clock
      /\ task[t].op \in {"ack", "silent"}
  BY <1>1 DEF Given, ColumnInv, AllApt, Apt, Comes
<1>3. /\ r \in Coroutines /\ r.want = task[t].want /\ r.op = task[t].op
      /\ r.why = "steer"
  <2>1. task[t] \in Coroutines /\ "cr.entity" \in Returns
        /\ "steer" \in Reasons
    BY DEF Given, TypeOK, Returns, Reasons
  <2> QED
    BY <2>1 DEF Coroutines
<1>4. /\ s \in States /\ s.cur = st.cur /\ s.open = st.open
      /\ s.anchor = st.anchor /\ s.closed = st.closed
      /\ s.reason = st.reason /\ s.routed = st.routed
  BY DEF Given, TypeOK, States
<1>5. \/ st' = s /\ Suspend(t, r)
      \/ ~st.open /\ st' = a /\ UNCHANGED ctl /\ Create(t, q)
  BY DEF SteerBegin
<1> HIDE DEF s, r
<1>6. /\ a.anchor = r.want /\ a.cur = st.cur /\ a.open = st.open
      /\ a.closed = st.closed /\ a.reason = "steer" /\ a.routed = st.routed
  <2>1. r.want \in Nat
    BY <1>3 DEF Coroutines
  <2> QED
    BY <1>4, <2>1, AnchoredRoute, AnchoredReason
<1>7. /\ q \in Coroutines /\ q.want = task[t].want /\ q.expect = task[t].want
      /\ q.ret = "st.end" /\ q.op = task[t].op
  <2>1. r.want \in Nat /\ "st.end" \in Returns
    BY <1>3 DEF Returns, Coroutines
  <2> QED
    BY <1>3, <2>1 DEF Coroutines
<1> HIDE DEF q, a
<1>8. CASE st' = s /\ Suspend(t, r)
  <2>1. Follows(t)
    BY <1>1, <1>2, <1>3, <1>8, SuspendFollows
  <2>2. StKept /\ StOpen
    BY <1>4, <1>8 DEF StKept, StOpen
  <2>3. FlushesOpen'
    BY <1>3, <1>4, <1>8, SuspendSettled, FlushesStay DEF Given
  <2> QED
    BY <1>1, <2>1, <2>2, <2>3, KeptStep
<1>9. CASE ~st.open /\ st' = a /\ UNCHANGED ctl /\ Create(t, q)
  <2>1. \A u \in Tasks \ {t} : Comes(task[u]) => task[u].want # task[t].want
    BY <1>2 DEF Given, ColumnInv, Apart
  <2>2. Follows(t)
    BY <1>1, <1>2, <1>6, <1>7, <1>9, <2>1, CreateFollows
  <2>3. CASE ~st.closed
    BY <1>1, <1>2, <1>3, <1>6, <1>9, <2>2, <2>3, AnchorStep,
       UnchangedCtlSettled
  <2>4. CASE st.closed
    <3>1. AllApt'
      <4>1. ASSUME NEW u \in Tasks \ {t}
            PROVE  Apt(task[u], st', clock)
        <5>1. Apt(task[u], st, clock) /\ clock \in Nat
          BY DEF Given, ColumnInv, AllApt, TypeOK
        <5>2. task[u].pc \notin Outputs \cup {"sus.write"}
          BY <2>4, <5>1 DEF Apt
        <5>3. GivenUp(task[u], st')
          BY <1>6, <1>9, <2>4 DEF GivenUp
        <5> QED
          <6>1. st'.closed
            BY <1>6, <1>9, <2>4
          <6>2. clock <= clock
            BY <5>1
          <6> QED
            BY <5>1, <5>2, <5>3, <6>1, <6>2, AptKept
      <4> QED
        BY <1>1, <2>2, <4>1 DEF AllApt, Follows
    <3>2. Apart'
      BY <1>6, <1>9, <2>2, <2>4, ApartKept DEF Given
    <3>3. Steered' /\ st'.anchor <= clock'
      BY <1>1, <1>2, <1>3, <1>6, <1>9 DEF Steered, Given, TypeOK
    <3>4. FlushesOpen'
      BY <1>1, <1>9, Unwritten, FlushesNone, UnchangedCtlSettled
    <3> QED
      BY <1>6, <1>9, <3>1, <3>2, <3>3, <3>4 DEF ColumnInv
  <2> QED
    BY <2>3, <2>4
<1> QED
  BY <1>5, <1>8, <1>9

LEMMA SteerEndColumn ==
  ASSUME Given, NEW t \in Tasks, SteerEnd(t)
  PROVE  ColumnInv'
<1> DEFINE r == [To(t, "fin.enter") EXCEPT !.text = st.defTerm.text,
                                           !.out = st.defTerm.out]
<1>1. task[t].pc = "st.end" /\ UNCHANGED clock
  BY DEF SteerEnd, At
<1>3. StKept /\ StOpen
  BY SteerEndKept
<1>4. CtlSettled
  <2>1. UNCHANGED ctl \/ SetCtl(Requested(Ctl))
    BY DEF SteerEnd
  <2> QED
    BY <2>1, RequestSettled, UnchangedCtlSettled DEF Given
<1>5. Follows(t)
  <2>1. r.pc = "fin.enter" /\ r.op = task[t].op /\ r.want = task[t].want
    BY DEF Given, TypeOK, To, Coroutines
  <2>2. Go(t, To(t, "st.next")) \/ Go(t, r)
    BY DEF SteerEnd
  <2> HIDE DEF r
  <2>3. "fin.enter" \notin Obliged /\ "st.next" \notin Obliged
    BY DEF Obliged, Making, Creations, Outputs, Suspensions
  <2> QED
    BY <1>1, <2>1, <2>2, <2>3, ToRoams, Roams
<1> QED
  BY <1>1, <1>3, <1>4, <1>5, KeptStep, FlushesStay DEF StOpen

LEMMA SteerNextColumn ==
  ASSUME Given, NEW t \in Tasks, SteerNext(t)
  PROVE  ColumnInv'
<1> DEFINE r == [To(t, "out.begin") EXCEPT !.text = "prog"]
<1>1. task[t].pc = "st.next" /\ UNCHANGED <<st, ctl, clock>>
  BY DEF SteerNext, At
<1>2. Go(t, r) \/ Go(t, Idle)
  BY DEF SteerNext
<1>3. r.pc = "out.begin" /\ r.op = task[t].op /\ r.want = task[t].want
  BY DEF Given, TypeOK, To, Coroutines
<1> HIDE DEF r
<1>4. "out.begin" \notin Obliged
  BY DEF Obliged, Making, Creations, Outputs, Suspensions
<1>5. Follows(t)
  BY <1>1, <1>2, <1>3, <1>4, Roams, IdleFollows
<1> QED
  BY <1>1, <1>5, CalmColumn, UnchangedCtlSettled

LEMMA SteerSilentColumn ==
  ASSUME Given, NEW t \in Tasks, SteerSilent(t)
  PROVE  ColumnInv'
<1> DEFINE e == [task[t] EXCEPT !.op = "silent"]
           r == [e EXCEPT !.pc = "st.begin"]
<1>1. task[t].pc = "st.silent" /\ UNCHANGED <<st, ctl, clock>>
  BY DEF SteerSilent, At
<1>2. Go(t, r) \/ Go(t, Idle)
  <2>1. ~task[t].saw
    BY <1>1, Wants DEF Aims, Given, Plain
  <2>2. ~e.saw
    BY <2>1 DEF Given, TypeOK, Coroutines
  <2> QED
    BY <2>2 DEF SteerSilent
<1>3. r.pc = "st.begin" /\ r.op = "silent" /\ r.want = task[t].want
  BY DEF Given, TypeOK, Coroutines
<1> HIDE DEF e
<1> HIDE DEF r
<1>4. Comes(task[t]) /\ task[t].want \in 1..clock
  BY <1>1 DEF Given, ColumnInv, AllApt, Apt, Comes
<1>5. ~Seeks(r) /\ Apt(r, st, clock)
  BY <1>3, <1>4 DEF Seeks, Apt, Making, Creations, Outputs, Suspensions
<1>6. Follows(t)
  BY <1>1, <1>2, <1>3, <1>4, <1>5, GoFollows, IdleFollows
<1> QED
  BY <1>1, <1>6, CalmColumn, UnchangedCtlSettled

-----------------------------------------------------------------------------
(* Output, finals and tools *)

LEMMA OutputBeginColumn ==
  ASSUME Given, NEW t \in Tasks, OutputBegin(t)
  PROVE  ColumnInv'
<1>1. task[t].pc = "out.begin" /\ UNCHANGED <<st, ctl, clock>>
  BY DEF OutputBegin, At
<1>2. Finish(t, task[t].text = "prog") \/ Go(t, To(t, "rs.enter"))
  BY DEF OutputBegin, Given, ColumnInv
<1>3. Follows(t)
  BY <1>1, <1>2, FinishFollows, ToRoams
     DEF Obliged, Making, Creations, Outputs, Suspensions
<1> QED
  BY <1>1, <1>3, CalmColumn, UnchangedCtlSettled

LEMMA OutputCommitColumn ==
  ASSUME Given, NEW t \in Tasks, OutputCommit(t)
  PROVE  ColumnInv'
<1>1. task[t].pc = "out.commit" /\ UNCHANGED clock
  BY DEF OutputCommit, At
<1>2. StKept /\ StOpen
  BY StateKept
<1>3. CtlSettled
  <2>1. UNCHANGED ctl \/ SetCtl(Requested(Ctl))
    BY DEF OutputCommit
  <2> QED
    BY <2>1, RequestSettled, UnchangedCtlSettled DEF Given
<1>4. Follows(t)
  <2>1. Finish(t, task[t].text = "prog") \/ Finish(t, TRUE)
    BY DEF OutputCommit
  <2> QED
    BY <1>1, <2>1, FinishFollows
<1> QED
  BY <1>1, <1>2, <1>3, <1>4, KeptStep, FlushesStay DEF StOpen

\* Nothing falls back to ordinary messages.
LEMMA FallbackWriteColumn ==
  ASSUME Given, NEW t \in Tasks
  PROVE  ~FallbackWrite(t)
BY DEF FallbackWrite, At, Given, ColumnInv, AllApt, Apt

LEMMA FinalizeEnterColumn ==
  ASSUME Given, NEW t \in Tasks, FinalizeEnter(t)
  PROVE  ColumnInv'
<1> DEFINE q == [To(t, "fin.quiet") EXCEPT !.ref = st.cur]
<1>1. task[t].pc = "fin.enter" /\ UNCHANGED clock /\ st.reason # "fallback"
  BY DEF FinalizeEnter, At, Given, ColumnInv
<1>2. StKept /\ StOpen
  BY StateKept
<1>3. CtlSettled
  <2>1. UNCHANGED ctl \/ SetCtl(Quieted(Ctl))
    BY DEF FinalizeEnter
  <2> QED
    BY <2>1, QuietSettled, UnchangedCtlSettled DEF Given
<1>4. Follows(t)
  <2>1. q.pc = "fin.quiet" /\ q.op = task[t].op /\ q.want = task[t].want
    BY DEF Given, TypeOK, To, Coroutines
  <2>2. (\E ok : Finalized(t, ok)) \/ Go(t, q)
    BY <1>1 DEF FinalizeEnter
  <2> HIDE DEF q
  <2>3. "fin.quiet" \notin Obliged
    BY DEF Obliged, Making, Creations, Outputs, Suspensions
  <2> QED
    BY <1>1, <2>1, <2>2, <2>3, FinalizedFollows, Roams
<1> QED
  BY <1>1, <1>2, <1>3, <1>4, KeptStep, FlushesStay DEF StOpen

\* A coroutine sets out to write to the open segment.
LEMMA OutputFollows ==
  ASSUME Given, NEW t \in Tasks, NEW p \in Outputs, Go(t, To(t, p)),
         clock' = clock, task[t].pc # "idle", st'.open, ~st'.closed
  PROVE  Follows(t)
<1> DEFINE q == To(t, p)
<1>1. q.pc = p /\ q.op = task[t].op /\ q.want = task[t].want
  BY ToFields DEF Given
<1>2. Go(t, q)
  OBVIOUS
<1> HIDE DEF q
<1>3. (Comes(q) => Comes(task[t])) /\ ~Seeks(q)
  BY <1>1 DEF Comes, Seeks, Making, Creations, Outputs
<1>4. Comes(q) => q.want \in 1..clock
  BY <1>1, <1>3 DEF Given, ColumnInv, AllApt, Apt
<1>5. Apt(q, st', clock')
  BY <1>1, <1>3, <1>4 DEF Apt, Making, Creations, Outputs, Suspensions
<1> QED
  BY <1>1, <1>2, <1>3, <1>5, GoFollows

LEMMA FinalizeLockedColumn ==
  ASSUME Given, NEW t \in Tasks, FinalizeLocked(t)
  PROVE  ColumnInv'
<1>1. task[t].pc = "fin.lock" /\ UNCHANGED <<ctl, clock>>
  BY DEF FinalizeLocked, At
<1>2. StKept /\ StOpen
  BY StateKept
<1>3. \/ Finalized(t, ~st.gone)
      \/ st.open /\ ~st.closed /\ Go(t, To(t, "fin.write"))
  BY DEF FinalizeLocked
<1>4. Follows(t)
  BY <1>1, <1>2, <1>3, FinalizedFollows, OutputFollows DEF StOpen, Outputs
<1> QED
  BY <1>1, <1>2, <1>4, KeptStep, FlushesStay, UnchangedCtlSettled DEF StOpen

LEMMA FinalizeWriteColumn ==
  ASSUME Given, NEW t \in Tasks, FinalizeWrite(t)
  PROVE  ColumnInv'
<1>1. /\ task[t].pc = "fin.write" /\ UNCHANGED <<ctl, clock>>
      /\ \E ok : Finalized(t, ok)
  BY NoFailure DEF FinalizeWrite, At
<1>2. lock = t
  BY <1>1 DEF Given, WritesInv, WriterHasLock, Writing
<1>3. Follows(t)
  BY <1>1, FinalizedFollows
<1> QED
  BY <1>1, <1>2, <1>3, FinalizeWriteKept, KeptStep, Unwritten, FlushesNone,
     UnchangedCtlSettled

LEMMA FinalizeReturnColumn ==
  ASSUME Given, NEW t \in Tasks, FinalizeReturn(t)
  PROVE  ColumnInv'
<1>1. task[t].pc = "fin.ret" /\ UNCHANGED <<ctl, clock>>
  BY DEF FinalizeReturn, At
<1>2. StKept /\ StOpen
  BY StateKept
<1>3. Go(t, To(t, "st.next")) \/ Finish(t, task[t].res)
  BY DEF FinalizeReturn
<1>4. Follows(t)
  BY <1>1, <1>3, ToRoams, FinishFollows
     DEF Obliged, Making, Creations, Outputs, Suspensions
<1> QED
  BY <1>1, <1>2, <1>4, KeptStep, FlushesStay, UnchangedCtlSettled DEF StOpen

LEMMA ToolCheckColumn ==
  ASSUME Given, NEW t \in Tasks, ToolCheck(t)
  PROVE  ColumnInv'
<1>1. task[t].pc = "tool.check" /\ UNCHANGED <<ctl, clock>>
  BY DEF ToolCheck, At
<1>2. StKept /\ StOpen
  BY StateKept
<1>3. Go(t, To(t, "tool.commit")) \/ Finish(t, TRUE) \/ Finish(t, FALSE)
  BY DEF ToolCheck
<1>4. Follows(t)
  BY <1>1, <1>3, ToRoams, FinishFollows
     DEF Obliged, Making, Creations, Outputs, Suspensions
<1> QED
  BY <1>1, <1>2, <1>4, KeptStep, FlushesStay, UnchangedCtlSettled DEF StOpen

LEMMA ToolCommitColumn ==
  ASSUME Given, NEW t \in Tasks, ToolCommit(t)
  PROVE  ColumnInv'
<1>1. task[t].pc = "tool.commit" /\ UNCHANGED <<ctl, clock>>
  BY DEF ToolCommit, At
<1>2. StKept /\ StOpen
  BY StateKept
<1>3. \/ Finish(t, FALSE)
      \/ st.open /\ ~st.closed /\ Go(t, To(t, "tool.write"))
  BY DEF ToolCommit
<1>4. Follows(t)
  BY <1>1, <1>2, <1>3, FinishFollows, OutputFollows DEF StOpen, Outputs
<1> QED
  BY <1>1, <1>2, <1>4, KeptStep, FlushesStay, UnchangedCtlSettled DEF StOpen

LEMMA ToolWriteColumn ==
  ASSUME Given, NEW t \in Tasks, ToolWrite(t)
  PROVE  ColumnInv'
<1>1. /\ task[t].pc = "tool.write" /\ UNCHANGED <<ctl, clock>>
      /\ st' = [st EXCEPT !.pending = FALSE, !.phase = "generating"]
      /\ \E ok : Finish(t, ok)
  BY NoFailure DEF ToolWrite, At
<1>2. StKept /\ StOpen
  BY StateKept
<1>3. Follows(t)
  BY <1>1, FinishFollows
<1> QED
  BY <1>1, <1>2, <1>3, KeptStep, FlushesStay, UnchangedCtlSettled DEF StOpen

LEMMA AdoptColumn ==
  ASSUME Given, NEW t \in Tasks, Adopt(t)
  PROVE  ColumnInv'
<1>1. task[t].pc = "adopt" /\ UNCHANGED <<ctl, clock>>
      /\ Go(t, To(t, "st.next"))
  BY DEF Adopt, At
<1>2. StKept /\ StOpen
  BY StateKept
<1>3. Follows(t)
  BY <1>1, ToRoams DEF Obliged, Making, Creations, Outputs, Suspensions
<1> QED
  BY <1>1, <1>2, <1>3, KeptStep, FlushesStay, UnchangedCtlSettled DEF StOpen

LEMMA ExpireLockedColumn ==
  ASSUME Given, NEW t \in Tasks, ExpireLocked(t)
  PROVE  ColumnInv'
<1>1. /\ task[t].pc = "ex.lock" /\ UNCHANGED <<ctl, clock>> /\ lock = NoTask
      /\ Go(t, Idle)
  BY DEF ExpireLocked, At, MayLock
<1>2. StKept
  BY ExpireKept
<1>3. Follows(t)
  BY <1>1, IdleFollows
<1> QED
  BY <1>1, <1>2, <1>3, KeptStep, Unwritten, FlushesNone, UnchangedCtlSettled

\* Every step of a coroutine keeps the invariant of the column.
LEMMA RunColumn ==
  ASSUME Given, NEW t \in Tasks, Run(t)
  PROVE  ColumnInv'
<1>1. CASE \/ CreateEntity(t) \/ CreateCheck(t) \/ CreateSend(t)
           \/ CreateCommit(t) \/ RetireWrite(t)
  BY <1>1, CreateEntityColumn, CreateCheckColumn, CreateSendColumn,
     CreateCommitColumn, RetireWriteColumn
<1>2. CASE \/ Drain(t) \/ SuspendLocked(t) \/ SuspendWrite(t)
           \/ ResumeEnter(t) \/ ResumeOk(t) \/ ResumeEnd(t)
  BY <1>2, DrainColumn, SuspendLockedColumn, SuspendWriteColumn, ResumeColumn
<1>3. CASE SteerBegin(t) \/ SteerEnd(t) \/ SteerNext(t) \/ SteerSilent(t)
  BY <1>3, SteerBeginColumn, SteerEndColumn, SteerNextColumn,
     SteerSilentColumn
<1>4. CASE \/ OutputBegin(t) \/ OutputCommit(t) \/ FallbackWrite(t)
           \/ FinalizeEnter(t) \/ FinalizeLocked(t) \/ FinalizeWrite(t)
           \/ FinalizeReturn(t)
  BY <1>4, OutputBeginColumn, OutputCommitColumn, FallbackWriteColumn,
     FinalizeEnterColumn, FinalizeLockedColumn, FinalizeWriteColumn,
     FinalizeReturnColumn
<1>5. CASE \/ ToolCheck(t) \/ ToolCommit(t) \/ ToolWrite(t) \/ Adopt(t)
           \/ ExpireLocked(t)
  BY <1>5, ToolCheckColumn, ToolCommitColumn, ToolWriteColumn, AdoptColumn,
     ExpireLockedColumn
<1> QED
  BY <1>1, <1>2, <1>3, <1>4, <1>5 DEF Run

-----------------------------------------------------------------------------
(* The other callers and the flushes *)

\* A coroutine starts somewhere it is under no obligation.
LEMMA CallerColumn ==
  ASSUME Given, NEW t \in Tasks, NEW r, Go(t, r), UNCHANGED <<st, ctl, clock>>,
         r.pc \in {"fin.enter", "rs.enter", "out.begin", "ex.lock"},
         r.op \notin {"ack", "silent"}
  PROVE  ColumnInv'
<1>1. r.pc \notin Obliged /\ r.pc # "st.silent"
  BY DEF Obliged, Making, Creations, Outputs, Suspensions
<1>2. Follows(t)
  BY <1>1, Roams
<1> QED
  BY <1>2, CalmColumn, UnchangedCtlSettled

LEMMA StillColumn ==
  ASSUME Given, UNCHANGED <<task, clock>>, StKept, StOpen, CtlSettled
  PROVE  ColumnInv'
<1>1. FlushesOpen'
  BY FlushesStay DEF StOpen
<1> QED
  BY <1>1, KeptStill

LEMMA ConsumerGoes ==
  ASSUME StreamDelta \/ FinalAnswer \/ Progress
  PROVE  \/ UNCHANGED <<task, cpu, waiters>>
         \/ \E t \in {"consumer", "notifier"} : \E r :
              /\ Free(t) /\ Go(t, r)
              /\ r.op \in {"stream", "final", "progress"}
              /\ r.pc \in {"fin.enter", "rs.enter", "out.begin"}
<1> DEFINE r(o, x, p) == [Idle EXCEPT !.op = o, !.text = x, !.pc = p]
           part == r("stream", "part", "out.begin")
           prog == r("progress", "prog", "out.begin")
           text == r("stream", "answer", "out.begin")
           fin == r("final", "answer", "fin.enter")
           send == r("final", "answer", "rs.enter")
<1>1. /\ part.op = "stream" /\ part.pc = "out.begin"
      /\ prog.op = "progress" /\ prog.pc = "out.begin"
      /\ text.op = "stream" /\ text.pc = "out.begin"
      /\ fin.op = "final" /\ fin.pc = "fin.enter"
      /\ send.op = "final" /\ send.pc = "rs.enter"
  BY DEF Idle
<1>2. CASE StreamDelta
  <2>1. Free("consumer") /\ Go("consumer", part)
    BY <1>2 DEF StreamDelta
  <2> HIDE DEF part
  <2> QED
    BY <1>1, <2>1
<1>3. CASE Progress
  <2>1. Free("notifier") /\ Go("notifier", prog)
    BY <1>3 DEF Progress
  <2> HIDE DEF prog
  <2> QED
    BY <1>1, <2>1
<1>4. CASE FinalAnswer
  <2>1. [[Idle EXCEPT !.op = "final", !.text = "answer"] EXCEPT
            !.op = "stream", !.pc = "out.begin"] = text
    BY DEF Idle
  <2>2. Free("consumer")
    BY <1>4 DEF FinalAnswer
  <2>3. \/ UNCHANGED <<task, cpu, waiters>>
        \/ Go("consumer", fin) \/ Go("consumer", send)
        \/ Go("consumer", text)
    <3>1. CASE st.terminal
      BY <1>4, <3>1 DEF FinalAnswer
    <3>2. CASE ~st.terminal
      BY <1>4, <2>1, <3>2 DEF FinalAnswer
    <3> QED
      BY <3>1, <3>2
  <2> HIDE DEF fin, send, text
  <2> QED
    BY <1>1, <2>2, <2>3
<1> QED
  BY <1>2, <1>3, <1>4

LEMMA ConsumerColumn ==
  ASSUME Given, StreamDelta \/ FinalAnswer \/ Progress
  PROVE  ColumnInv'
<1>1. UNCHANGED <<st, ctl, clock>>
  BY DEF StreamDelta, FinalAnswer, Progress
<1>2. CASE UNCHANGED <<task, cpu, waiters>>
  BY <1>1, <1>2, StillColumn, UnchangedStKept, UnchangedCtlSettled
<1>3. ASSUME NEW t \in {"consumer", "notifier"}, NEW r, Go(t, r),
             r.op \in {"stream", "final", "progress"},
             r.pc \in {"fin.enter", "rs.enter", "out.begin"}
      PROVE  ColumnInv'
  BY <1>1, <1>3, CallerColumn, TaskNames
<1> QED
  BY <1>2, <1>3, ConsumerGoes

LEMMA ToolUpdateColumn ==
  ASSUME Given, ToolUpdate
  PROVE  ColumnInv'
<1> DEFINE r(w) == [Idle EXCEPT !.op = "tool", !.tool = w, !.pc = "rs.enter"]
<1>1. \A w : r(w).pc = "rs.enter" /\ r(w).op = "tool"
  BY DEF Idle
<1>2. UNCHANGED <<st, ctl, clock>> /\ \E w : Go("agent", r(w))
  BY DEF ToolUpdate
<1> HIDE DEF r
<1> QED
  BY <1>1, <1>2, CallerColumn, TaskNames

LEMMA ShutDownColumn ==
  ASSUME Given, ShutDown \/ Expire
  PROVE  ColumnInv'
<1> DEFINE r == [Idle EXCEPT !.op = "shutdown", !.pc = "fin.enter",
                             !.out = "stopped", !.text = Terminal("")]
           q == [Idle EXCEPT !.op = "expire", !.pc = "ex.lock"]
<1>1. /\ r.pc = "fin.enter" /\ r.op = "shutdown"
      /\ q.pc = "ex.lock" /\ q.op = "expire"
  BY DEF Idle
<1>2. UNCHANGED <<st, ctl, clock>> /\ (Go("closer", r) \/ Go("expirer", q))
  BY DEF ShutDown, Expire
<1> HIDE DEF r, q
<1> QED
  BY <1>1, <1>2, CallerColumn, TaskNames

LEMMA MarkTerminalColumn ==
  ASSUME Given, MarkTerminal
  PROVE  ColumnInv'
<1>1. UNCHANGED <<ctl, task, clock>>
  BY DEF MarkTerminal
<1>2. StKept /\ StOpen
  BY DEF MarkTerminal, StKept, StOpen, Given, TypeOK, States
<1> QED
  BY <1>1, <1>2, StillColumn, UnchangedCtlSettled

\* Completion closes only a turn that nobody writes to.
LEMMA CompleteColumn ==
  ASSUME Given, Complete
  PROVE  ColumnInv'
<1> DEFINE r(x, y, z) == [Idle EXCEPT !.pc = "fin.enter", !.op = "complete",
                            !.saw = x, !.text = y, !.out = z]
<1>1. UNCHANGED <<ctl, clock>>
  BY DEF Complete
<1>2. \/ UNCHANGED st /\ \E x, y, z : Go("runner", r(x, y, z))
      \/ UNCHANGED task /\ (~st.routed \/ st.closed \/ ~st.open)
  BY DEF Complete
<1>3. \A x, y, z : r(x, y, z).pc = "fin.enter" /\ r(x, y, z).op = "complete"
  BY DEF Idle
<1> HIDE DEF r
<1>4. ASSUME UNCHANGED st, NEW x, NEW y, NEW z, Go("runner", r(x, y, z))
      PROVE  ColumnInv'
  BY <1>1, <1>3, <1>4, CallerColumn, TaskNames
<1>5. CASE UNCHANGED task /\ (~st.routed \/ st.closed)
  BY <1>1, <1>5, CompleteKept, StillColumn, UnchangedCtlSettled
<1>6. CASE UNCHANGED task /\ ~st.open
  <2>1. \A u \in Tasks : ~Writing(u)
    BY <1>6 DEF Given, ColumnInv, AllApt, Apt, Writing, Outputs
  <2>2. \A i \in 1..Len(ctl) : ~Flushing(i)
    BY <1>6 DEF Given, BoundaryInv, FlushesBelow
  <2> QED
    BY <1>1, <1>6, <2>1, <2>2, CompleteKept, KeptStill, FlushesNone,
       UnchangedCtlSettled
<1> QED
  BY <1>2, <1>4, <1>5, <1>6

LEMMA StartColumn ==
  ASSUME Given, DispatchStart
  PROVE  ColumnInv'
<1> DEFINE n == clock + 1
           r == [Idle EXCEPT !.op = "start", !.want = n, !.ret = "st.next"]
           q == [r EXCEPT !.pc = "cr.entity", !.ref = 0]
<1>1. UNCHANGED <<st, ctl>> /\ clock' = clock + 1 /\ Go("runner", q)
  BY DEF DispatchStart, Create
<1> HIDE DEF n
<1>2. q.pc = "cr.entity" /\ q.op = "start" /\ q.ret = "st.next"
  BY DEF Idle
<1> HIDE DEF q
<1>3. ~Comes(q) /\ ~Seeks(q)
  BY <1>2 DEF Comes, Seeks, Suspensions
<1>4. Apt(q, st, clock + 1)
  BY <1>2, <1>3 DEF Apt, Making, Creations, Outputs, Suspensions
<1>5. /\ \A u \in Tasks \ {"runner"} : task'[u] = task[u]
      /\ task'["runner"] = q
  BY <1>1, TaskNames DEF Go, Given, TypeOK
<1> QED
  BY <1>1, <1>3, <1>4, <1>5, MessageStep, TaskNames, UnchangedCtlSettled

LEMMA BoundaryColumn ==
  ASSUME Given, NEW why \in {"artifact", "approval", "question"}, Boundary(why)
  PROVE  ColumnInv'
<1> DEFINE n == clock + 1
           r == [Idle EXCEPT !.op = "boundary", !.why = why, !.want = n]
           q == [r EXCEPT !.pc = "sus.quiet", !.ref = st.cur]
<1>1. /\ UNCHANGED st /\ clock' = clock + 1
      /\ Suspend("agent", r) \/ UNCHANGED <<ctl, task>>
  BY DEF Boundary
<1>2. n \in Nat /\ n \in 1..n
  BY DEF Given, TypeOK
<1>3. n = clock + 1
  OBVIOUS
<1> HIDE DEF n
<1>4. r \in Coroutines
  BY <1>2, IdleType DEF Coroutines, Ops, Reasons, Idle
<1>5. /\ q.pc = "sus.quiet" /\ q.op = "boundary" /\ q.want = n
      /\ q.why = why /\ q.ret = "idle"
  BY DEF Idle
<1>6. Suspend("agent", r) => Go("agent", q) /\ CtlSettled
  BY <1>4, SuspendSettled, TaskNames DEF Given, Suspend
<1> HIDE DEF r, q
<1>7. ~Seeks(q)
  BY <1>5 DEF Seeks, Making, Creations
<1>8. Apt(q, st, n)
  BY <1>2, <1>5, <1>7 DEF Apt, Making, Creations, Outputs, Suspensions
<1>9. CASE Suspend("agent", r)
  <2>1. /\ \A u \in Tasks \ {"agent"} : task'[u] = task[u]
        /\ task'["agent"] = q
    BY <1>6, <1>9, TaskNames DEF Go, Given, TypeOK
  <2> QED
    BY <1>1, <1>3, <1>5, <1>6, <1>7, <1>8, <1>9, <2>1, MessageStep, TaskNames
<1>10. CASE UNCHANGED <<ctl, task>>
  BY <1>1, <1>10, MessageStep, TaskNames, UnchangedCtlSettled
<1> QED
  BY <1>1, <1>9, <1>10

LEMMA SteerColumn ==
  ASSUME Given, NEW t \in Steers, Steer(t)
  PROVE  ColumnInv'
<1> DEFINE n == clock + 1
           r(m, p) == [Idle EXCEPT !.op = m, !.want = n, !.pc = p]
<1>1. /\ UNCHANGED <<st, ctl>> /\ clock' = clock + 1
      /\ \E m \in {"ack", "silent"}, p \in {"st.begin", "st.silent"} :
           Go(t, r(m, p))
  <2>1. PICK m \in SteerModes :
          Go(t, r(m, IF m = "ack" THEN "st.begin" ELSE "st.silent"))
    BY DEF Steer, Given, Plain, Echoes
  <2>2. m \in {"ack", "silent"}
    BY ChoicesAssumption
  <2>3. \E m2 \in {"ack", "silent"}, p \in {"st.begin", "st.silent"} :
          Go(t, r(m2, p))
    BY <2>1, <2>2
  <2> QED
    BY <2>3 DEF Steer, Given, Plain, Echoes
<1>2. n \in 1..n /\ n = clock + 1 /\ t \in Tasks
  BY DEF Given, TypeOK, Tasks
<1> HIDE DEF n
<1>3. \A m, p : r(m, p).pc = p /\ r(m, p).want = n /\ r(m, p).op = m
  BY DEF Idle
<1> HIDE DEF r
<1>4. ASSUME NEW m \in {"ack", "silent"}, NEW p \in {"st.begin", "st.silent"},
             Go(t, r(m, p))
      PROVE  ColumnInv'
  <2>1. ~Seeks(r(m, p))
    BY <1>3 DEF Seeks, Making, Creations
  <2>2. Apt(r(m, p), st, n)
    BY <1>2, <1>3, <2>1 DEF Apt, Making, Creations, Outputs, Suspensions
  <2>3. /\ \A u \in Tasks \ {t} : task'[u] = task[u]
        /\ task'[t] = r(m, p)
    BY <1>2, <1>4 DEF Go, Given, TypeOK
  <2> QED
    BY <1>1, <1>2, <1>3, <2>1, <2>2, <2>3, MessageStep, UnchangedCtlSettled
<1> QED
  BY <1>1, <1>4

\* One dispatch is never continued by another.
LEMMA OneDispatch ==
  ASSUME MaxDispatch <= 1
  PROVE  ~DispatchContinue
BY BoundsAssumption DEF DispatchContinue

LEMMA FlushColumn ==
  ASSUME Given, Flush
  PROVE  ColumnInv'
<1>1. PICK i \in 1..Len(ctl) : FlushFire(i) \/ FlushLocked(i) \/ FlushWrite(i)
  BY DEF Flush
<1>2. UNCHANGED <<task, clock>>
  BY <1>1 DEF FlushFire, FlushLocked, FlushWrite
<1> DEFINE d == Flushed(ctl[i])
           c == [ctl[i] EXCEPT !.state = "inflight"]
<1>3. ctl[i] \in Controllers /\ ctl \in Seq(Controllers)
  BY ElementType DEF Given, TypeOK
<1>4. d.state # "write" /\ c.state # "write"
  BY <1>3, FlushedKept DEF Controllers
<1>5. CASE FlushFire(i)
  <2>1. ctl' = [ctl EXCEPT ![i] = c] \/ ctl' = [ctl EXCEPT ![i] = d]
    BY <1>5 DEF FlushFire
  <2> HIDE DEF c, d
  <2>2. CtlSettled
    BY <1>3, <1>4, <2>1 DEF CtlSettled
  <2>3. UNCHANGED st
    BY <1>5 DEF FlushFire
  <2> QED
    BY <1>2, <2>2, <2>3, StillColumn, UnchangedStKept
<1>6. CASE FlushLocked(i)
  <2> DEFINE e == [ctl[i] EXCEPT !.state = "write", !.text = st.content]
  <2>1. \/ ctl' = [ctl EXCEPT ![i] = d]
        \/ ~st.closed /\ ctl' = [ctl EXCEPT ![i] = e]
    BY <1>6 DEF FlushLocked
  <2> HIDE DEF c, d, e
  <2>2. FlushesOpen'
    <3>1. UNCHANGED st
      BY <1>6 DEF FlushLocked
    <3>2. CASE ctl' = [ctl EXCEPT ![i] = d]
      <4>1. CtlSettled
        BY <1>3, <1>4, <3>2 DEF CtlSettled
      <4> QED
        BY <3>1, <4>1, FlushesStay
    <3>3. CASE ~st.closed
      BY <3>1, <3>3 DEF FlushesOpen
    <3> QED
      BY <2>1, <3>2, <3>3
  <2> QED
    BY <1>2, <1>6, <2>2, KeptStill, UnchangedStKept DEF FlushLocked
<1>7. CASE FlushWrite(i)
  <2>1. ctl' = [ctl EXCEPT ![i] = d]
    BY <1>7, NoFailure DEF FlushWrite
  <2> HIDE DEF c, d
  <2>2. CtlSettled
    BY <1>3, <1>4, <2>1 DEF CtlSettled
  <2> QED
    BY <1>2, <1>7, <2>2, FlushWriteKept, StillColumn
<1> QED
  BY <1>1, <1>5, <1>6, <1>7

LEMMA InitColumn == Init => ColumnInv
<1> SUFFICES ASSUME Init
             PROVE  ColumnInv
  OBVIOUS
<1>1. \A t \in Tasks : task[t] = Idle
  BY DEF Init
<1>2. Idle.pc = "idle"
  BY DEF Idle
<1>3. /\ st.reason = NewState.reason /\ NewState.reason # "fallback"
      /\ st.anchor = 0 /\ clock = 0 /\ ctl = <<>>
  BY DEF Init, NewState
<1>4. \A t \in Tasks : ~Comes(task[t]) /\ ~Seeks(task[t])
  BY <1>1, <1>2 DEF Comes, Seeks, Making, Creations
<1>5. AllApt
  BY <1>1, <1>2, <1>4
     DEF AllApt, Apt, Making, Creations, Outputs, Suspensions
<1>6. Apart /\ Steered /\ FlushesOpen
  BY <1>3, <1>4 DEF Apart, Steered, FlushesOpen
<1> QED
  BY <1>3, <1>5, <1>6 DEF ColumnInv

-----------------------------------------------------------------------------
(* The invariant *)

\* A step spends a fault only on the outcome of a call.
LEMMA Spends ==
  ASSUME TypeOK, [Next]_vars
  PROVE  \/ used'.faults = used.faults
         \/ \E kinds : \E o \in Outcome(kinds) : Spend(o)
<1>1. used \in Usage
  BY DEF TypeOK
<1>2. ASSUME NEW t \in Tasks, Run(t)
      PROVE  UNCHANGED used \/ \E kinds : \E o \in Outcome(kinds) : Spend(o)
  <2>1. CASE \/ CreateEntity(t) \/ CreateCheck(t) \/ CreateSend(t)
             \/ CreateCommit(t) \/ RetireWrite(t)
             \/ Drain(t) \/ SuspendLocked(t) \/ SuspendWrite(t)
             \/ ResumeEnter(t) \/ ResumeOk(t) \/ ResumeEnd(t)
    BY <2>1 DEF CreateEntity, CreateCheck, CreateSend, CreateCommit,
       RetireWrite, Drain, SuspendLocked, SuspendWrite, ResumeEnter, ResumeOk,
       ResumeEnd
  <2>2. CASE \/ SteerBegin(t) \/ SteerEnd(t) \/ SteerNext(t) \/ SteerSilent(t)
             \/ OutputBegin(t) \/ OutputCommit(t) \/ FallbackWrite(t)
             \/ FinalizeEnter(t) \/ FinalizeLocked(t)
    BY <2>2 DEF SteerBegin, SteerEnd, SteerNext, SteerSilent, OutputBegin,
       OutputCommit, FallbackWrite, FinalizeEnter, FinalizeLocked
  <2>3. CASE \/ FinalizeWrite(t) \/ FinalizeReturn(t)
             \/ ToolCheck(t) \/ ToolCommit(t) \/ ToolWrite(t)
             \/ Adopt(t) \/ ExpireLocked(t)
    BY <2>3 DEF FinalizeWrite, FinalizeReturn, ToolCheck, ToolCommit,
       ToolWrite, Adopt, ExpireLocked
  <2> QED
    BY <1>2, <2>1, <2>2, <2>3 DEF Run
<1>3. CASE \/ StreamDelta \/ Progress \/ ToolUpdate
           \/ \E w \in {"artifact", "approval", "question"} : Boundary(w)
           \/ \E t \in Steers : Steer(t)
  <2>1. \/ \E n : used' = [used EXCEPT !.stream = n]
        \/ \E n : used' = [used EXCEPT !.progress = n]
        \/ \E n : used' = [used EXCEPT !.agent = n]
        \/ \E n : used' = [used EXCEPT !.steers = n]
    BY <1>3 DEF StreamDelta, Progress, ToolUpdate, Boundary, Steer, AgentTurn
  <2> QED
    BY <1>1, <2>1 DEF Usage
<1>4. CASE Flush
  BY <1>4 DEF Flush, FlushFire, FlushLocked, FlushWrite
<1>5. CASE \/ DispatchStart \/ DispatchContinue \/ Complete \/ FinalAnswer
           \/ MarkTerminal \/ ShutDown \/ Expire \/ Done \/ UNCHANGED vars
           \/ \E t \in Steers : CancelSteer(t) \/ LateCall(t)
  BY <1>5 DEF DispatchStart, DispatchContinue, Complete, FinalAnswer,
     MarkTerminal, ShutDown, Expire, Done, CancelSteer, LateCall, vars
<1> QED
  BY <1>2, <1>3, <1>4, <1>5 DEF Next

LEMMA FaultsGrow ==
  ASSUME TypeOK, [Next]_vars, FaultFree'
  PROVE  FaultFree
BY Spends DEF Spend, TypeOK, Usage, FaultFree

\* Only a cancelled steer leaves a call behind.
LEMMA NoCancel ==
  ASSUME Given, NEW t \in Steers
  PROVE  ~CancelSteer(t) /\ ~LateCall(t)
BY DEF CancelSteer, LateCall, Late, Given, Plain, Uncancelled

LEMMA NextColumn ==
  MaxDispatch <= 1 /\ Plain /\ TypeOK /\ WritesInv
    /\ BoundaryInv /\ (FaultFree => ColumnInv) /\ [Next]_vars
    => (FaultFree' => Given /\ ColumnInv')
<1> SUFFICES ASSUME MaxDispatch <= 1, Plain, TypeOK,
                    WritesInv, BoundaryInv, FaultFree => ColumnInv, [Next]_vars,
                    FaultFree'
             PROVE  Given /\ ColumnInv'
  OBVIOUS
<1>1. Given
  BY NextType, FaultsGrow DEF Given
<1>2. ASSUME NEW t \in Tasks, Run(t)
      PROVE  ColumnInv'
  BY <1>1, <1>2, RunColumn
<1>3. ASSUME NEW t \in Steers,
             Steer(t) \/ CancelSteer(t) \/ LateCall(t)
      PROVE  ColumnInv'
  BY <1>1, <1>3, SteerColumn, NoCancel
<1>4. ASSUME NEW w \in {"artifact", "approval", "question"}, Boundary(w)
      PROVE  ColumnInv'
  BY <1>1, <1>4, BoundaryColumn
<1>5. CASE DispatchStart \/ DispatchContinue \/ Complete
  BY <1>1, <1>5, StartColumn, OneDispatch, CompleteColumn
<1>6. CASE \/ StreamDelta \/ FinalAnswer \/ Progress \/ ToolUpdate
           \/ MarkTerminal \/ ShutDown \/ Expire
  BY <1>1, <1>6, ConsumerColumn, ToolUpdateColumn, MarkTerminalColumn,
     ShutDownColumn
<1>7. CASE Flush
  BY <1>1, <1>7, FlushColumn
<1>8. CASE Done \/ UNCHANGED vars
  <2>1. UNCHANGED <<st, ctl, task, clock>>
    BY <1>8 DEF Done, vars
  <2> QED
    BY <1>1, <2>1, StillColumn, UnchangedStKept, UnchangedCtlSettled
<1> QED
  BY <1>1, <1>2, <1>3, <1>4, <1>5, <1>6, <1>7, <1>8 DEF Next

LEMMA ColumnInvariant ==
  MaxDispatch <= 1 /\ Plain
    => (Spec => [](FaultFree => ColumnInv))
<1> SUFFICES ASSUME MaxDispatch <= 1 /\ Plain
             PROVE  Spec => [](FaultFree => ColumnInv)
  OBVIOUS
<1>1. Init => (FaultFree => ColumnInv)
  BY InitColumn
<1>2. TypeOK /\ WritesInv /\ BoundaryInv /\ (FaultFree => ColumnInv)
        /\ [Next]_vars => (FaultFree => ColumnInv)'
  BY NextColumn
<1>3. Spec => []BoundaryInv
  BY BoundariesInvariant DEF Plain, Uncancelled
<1> QED
  BY <1>1, <1>2, <1>3, TypeCorrect, WritesGuarded, PTL DEF Spec

-----------------------------------------------------------------------------
(* What the reader of the thread sees *)

\* Nothing that the reader sees changes.
Stutters == Column' = Column /\ LiveCard' = LiveCard /\ st'.cur = st.cur

Displays == Display!DisplayNext \/ Stutters

\* No card changes, and the turn neither moves nor opens or closes a segment.
Same ==
  /\ UNCHANGED segs
  /\ st'.cur = st.cur /\ st'.open = st.open /\ st'.closed = st.closed

LEMMA SameDisplays ==
  ASSUME Same
  PROVE  Displays
BY DEF Same, Displays, Stutters, Column, LiveCard

\* A card changes.
LEMMA ColumnEdited ==
  ASSUME TypeOK, NEW i \in Cards, NEW c, segs' = [segs EXCEPT ![i] = c]
  PROVE  Column' = [Column EXCEPT ![i] = Shown(c)]
<1>1. segs \in Seq(CardType) /\ i \in 1..Len(segs)
  BY DEF TypeOK, Cards
<1>2. Len(segs') = Len(segs)
      /\ \A j \in 1..Len(segs) : segs'[j] = IF j = i THEN c ELSE segs[j]
  BY <1>1
<1>3. Column' = [j \in 1..Len(segs) |-> Shown(segs'[j])]
  BY <1>2 DEF Column
<1>4. [Column EXCEPT ![i] = Shown(c)]
        = [j \in 1..Len(segs) |-> IF j = i THEN Shown(c) ELSE Shown(segs[j])]
  BY <1>1 DEF Column
<1>5. \A j \in 1..Len(segs) :
        Shown(segs'[j]) = IF j = i THEN Shown(c) ELSE Shown(segs[j])
  BY <1>2
<1> QED
  BY <1>3, <1>4, <1>5

LEMMA ShownType ==
  ASSUME NEW c \in CardType
  PROVE  /\ c.status = "streaming" => Shown(c) \in Showing({"streaming"})
         /\ c.status \in FinalStatuses => Shown(c) \in Showing(FinalStatuses)
         /\ c.status = "streaming" => Shown(c) \notin Showing(FinalStatuses)
<1>1. Shown(c).status = c.status
  BY DEF Shown
<1>2. "streaming" \notin FinalStatuses
  BY DEF FinalStatuses, Outs
<1>3. Shown(c) \in Showing(FinalStatuses) => Shown(c).status \in FinalStatuses
  BY DEF Showing
<1> QED
  BY <1>1, <1>2, <1>3 DEF Shown, Showing, CardType

\* The card that was changed still streams: it is the live one.
LEMMA EditDisplays ==
  ASSUME TypeOK, TypeOK', LiveCard \in Cards, NEW c,
         segs' = [segs EXCEPT ![LiveCard] = c], c.status = "streaming",
         LiveCard' = LiveCard, st'.cur = st.cur
  PROVE  Displays
<1>1. segs \in Seq(CardType) /\ LiveCard \in 1..Len(segs)
      /\ segs' \in Seq(CardType)
  BY DEF TypeOK, Cards
<1>2. segs'[LiveCard] = c /\ Len(segs') = Len(segs)
  BY <1>1
<1>3. c \in CardType
  BY <1>1, <1>2, ElementType
<1>4. Shown(c) \in Showing({"streaming"})
  BY <1>3, ShownType
<1>5. Column' = [Column EXCEPT ![LiveCard] = Shown(c)]
  BY ColumnEdited
<1>6. LiveCard # 0
  BY <1>1
<1>7. Display!Edit
  BY <1>4, <1>5, <1>6, Zenon DEF Display!Edit
<1> QED
  BY <1>7 DEF Displays, Display!DisplayNext

\* It takes its last content.
LEMMA CloseDisplays ==
  ASSUME TypeOK, TypeOK', LiveCard \in Cards, NEW c,
         segs' = [segs EXCEPT ![LiveCard] = c], c.status \in FinalStatuses,
         LiveCard' = 0, st'.cur = st.cur
  PROVE  Displays
<1>1. segs \in Seq(CardType) /\ LiveCard \in 1..Len(segs)
      /\ segs' \in Seq(CardType)
  BY DEF TypeOK, Cards
<1>2. segs'[LiveCard] = c /\ Len(segs') = Len(segs)
  BY <1>1
<1>3. c \in CardType
  BY <1>1, <1>2, ElementType
<1>4. Shown(c) \in Showing(FinalStatuses)
  BY <1>3, ShownType
<1>5. Column' = [Column EXCEPT ![LiveCard] = Shown(c)]
  BY ColumnEdited
<1>6. LiveCard # 0
  BY <1>1
<1>7. Display!Close
  BY <1>4, <1>5, <1>6, Zenon DEF Display!Close
<1> QED
  BY <1>7 DEF Displays, Display!DisplayNext

\* Who writes, writes to the live card.
LEMMA WriterIsLive ==
  ASSUME Given, NEW t \in Tasks, Writing(t)
  PROVE  /\ LiveCard = st.cur /\ st.cur \in Cards /\ st.open /\ ~st.closed
         /\ segs[st.cur] \in CardType /\ segs[st.cur].status = "streaming"
<1>1. st.open /\ ~st.closed
  BY DEF Given, ColumnInv, AllApt, Apt, Writing, Outputs
<1>2. st.cur # 0
  BY TaskNames DEF Given, BoundaryInv, Begins, First, Writing
<1>3. st.cur \in Cards
  <2>1. st.cur \in Nat
    BY DEF Given, TypeOK, States
  <2>2. Len(segs) \in Nat
    BY DEF Given, TypeOK
  <2>3. st.cur <= Len(segs)
    BY DEF Given, WritesInv, CurrentStreams
  <2> QED
    BY <1>2, <2>1, <2>2, <2>3 DEF Cards
<1>4. segs[st.cur] \in CardType
  BY <1>3, ElementType DEF Given, TypeOK, Cards
<1> QED
  BY <1>1, <1>2, <1>3, <1>4
     DEF LiveCard, Given, Plain, WritesInv, CurrentStreams

\* The steps of a coroutine that change nothing the reader sees.
LEMMA SteerSame ==
  ASSUME Given, NEW t \in Tasks,
         SuspendLocked(t) \/ SteerBegin(t) \/ SteerEnd(t)
  PROVE  Same
<1> DEFINE s == Anchored(st, task[t].want, task[t].why)
           b == [st EXCEPT !.trans = TRUE]
           r == [task[t] EXCEPT !.why = "steer", !.ret = "cr.entity"]
           a == Anchored(b, r.want, "steer")
<1>1. /\ st \in States /\ task[t] \in Coroutines /\ r.want = task[t].want
      /\ task[t].want \in Nat /\ task[t].why \in Reasons /\ "steer" \in Reasons
  BY DEF Given, TypeOK, Coroutines, Reasons
<1>2. UNCHANGED segs
  BY DEF SuspendLocked, SteerBegin, SteerEnd
<1>3. b \in States /\ b.cur = st.cur /\ b.open = st.open /\ b.closed = st.closed
  BY <1>1 DEF States
<1>4. CASE SuspendLocked(t)
  <2>1. s \in States
    BY <1>1, AnchoredType
  <2>2. s.cur = st.cur /\ s.open = st.open /\ s.closed = st.closed
    BY <1>1, AnchoredRoute
  <2>3. st' \in {st, s} \/ \E x : st' = [s EXCEPT !.tool = x]
    BY <1>4 DEF SuspendLocked
  <2> HIDE DEF s
  <2> QED
    BY <1>2, <2>1, <2>2, <2>3 DEF Same, States
<1>5. CASE SteerBegin(t)
  <2>1. st' \in {b, a}
    BY <1>5 DEF SteerBegin
  <2> HIDE DEF b, r
  <2>2. a.cur = b.cur /\ a.open = b.open /\ a.closed = b.closed
    BY <1>1, <1>3, AnchoredRoute
  <2> HIDE DEF a
  <2> QED
    BY <1>2, <1>3, <2>1, <2>2 DEF Same
<1>6. CASE SteerEnd(t)
  BY <1>2, <1>6, SteerEndKept DEF Same, StKept, StOpen
<1> QED
  BY <1>4, <1>5, <1>6

LEMMA OutputSame ==
  ASSUME Given, NEW t \in Tasks,
         \/ ResumeEnd(t) \/ OutputCommit(t) \/ FinalizeEnter(t)
         \/ FinalizeLocked(t) \/ FinalizeReturn(t) \/ ToolCheck(t)
         \/ ToolCommit(t) \/ Adopt(t)
  PROVE  Same
<1>1. UNCHANGED segs
  BY DEF ResumeEnd, OutputCommit, FinalizeEnter, FinalizeLocked,
     FinalizeReturn, ToolCheck, ToolCommit, Adopt
<1>2. StKept /\ StOpen
  BY ResumeKept, StateKept, UnchangedStKept
<1> QED
  BY <1>1, <1>2 DEF Same, StKept, StOpen

LEMMA CreateSendDisplays ==
  ASSUME Given, NEW t \in Tasks, CreateSend(t)
  PROVE  Displays
<1> DEFINE card == NewCard(ReplyTo(task[t]))
<1>1. segs' = Append(segs, card) /\ UNCHANGED st
  BY NoFailure DEF CreateSend
<1>2. segs \in Seq(CardType) /\ segs' \in Seq(CardType)
  BY DEF Given, TypeOK
<1>3. card.status = "streaming"
  BY DEF NewCard
<1> HIDE DEF card
<1>4. /\ Len(segs') = Len(segs) + 1 /\ segs'[Len(segs) + 1] = card
      /\ \A j \in 1..Len(segs) : segs'[j] = segs[j]
      /\ Len(segs) \in Nat
  BY <1>1, <1>2
<1>5. card \in CardType
  <2>1. Len(segs) + 1 \in 1..Len(segs')
    BY <1>4
  <2> QED
    BY <1>2, <1>4, <2>1, ElementType
<1>6. Shown(card) \in Showing({"streaming"})
  BY <1>3, <1>5, ShownType
<1>7. Column' = Append(Column, Shown(card))
  <2>1. Column' = [j \in 1..(Len(segs) + 1) |-> Shown(segs'[j])]
    BY <1>4 DEF Column
  <2> DEFINE U == {Shown(segs[j]) : j \in 1..Len(segs)} \cup {Shown(card)}
  <2>2. Column \in Seq(U) /\ Len(Column) = Len(segs) /\ Shown(card) \in U
        /\ \A j \in 1..Len(segs) : Column[j] = Shown(segs[j])
    BY <1>4 DEF Column
  <2> HIDE DEF U
  <2>3. Append(Column, Shown(card))
          = [j \in 1..(Len(segs) + 1) |->
               IF j = Len(segs) + 1 THEN Shown(card) ELSE Column[j]]
    <3> DEFINE a == Append(Column, Shown(card))
    <3>1. /\ a \in Seq(U) /\ Len(a) = Len(segs) + 1
          /\ \A j \in 1..(Len(segs) + 1) :
               a[j] = IF j = Len(segs) + 1 THEN Shown(card) ELSE Column[j]
      BY <1>4, <2>2
    <3> HIDE DEF a
    <3>2. a = [j \in 1..(Len(segs) + 1) |-> a[j]]
      BY <3>1
    <3>3. a = [j \in 1..(Len(segs) + 1) |->
                 IF j = Len(segs) + 1 THEN Shown(card) ELSE Column[j]]
      BY <3>1, <3>2
    <3> QED
      BY <3>3 DEF a
  <2>4. \A j \in 1..(Len(segs) + 1) :
          Shown(segs'[j])
            = IF j = Len(segs) + 1 THEN Shown(card) ELSE Column[j]
    BY <1>4, <2>2
  <2> QED
    BY <2>1, <2>3, <2>4
<1>8. LiveCard' = LiveCard /\ st'.cur = st.cur
  BY <1>1 DEF LiveCard
<1>9. Display!Publish
  BY <1>6, <1>7, <1>8, Zenon DEF Display!Publish
<1> QED
  BY <1>9 DEF Displays, Display!DisplayNext

\* A published card that waits for its commit, or to be retired.
LEMMA PublishedCard ==
  ASSUME Given, NEW t \in Tasks, Publishing(t)
  PROVE  /\ task[t].ref \in Cards /\ task[t].ref # st.cur /\ task[t].ref # 0
         /\ LiveCard # task[t].ref
         /\ Column[task[t].ref] \notin Showing(FinalStatuses)
<1>1. /\ task[t].ref \in Cards /\ task[t].ref # st.cur
      /\ segs[task[t].ref].status = "streaming"
  BY DEF Given, WritesInv, PublishedIsFresh
<1>2. segs[task[t].ref] \in CardType
  BY <1>1, ElementType DEF Given, TypeOK, Cards
<1>3. task[t].ref # 0
  BY <1>1 DEF Cards, Given, TypeOK
<1>4. Column[task[t].ref] = Shown(segs[task[t].ref])
  BY <1>1 DEF Column, Cards
<1> QED
  BY <1>1, <1>2, <1>3, <1>4, ShownType DEF LiveCard

LEMMA CreateCommitDisplays ==
  ASSUME Given, NEW t \in Tasks, CreateCommit(t), Replaces
  PROVE  Displays
<1> DEFINE r == task[t]
<1>1. r.pc = "cr.commit" /\ UNCHANGED segs /\ Publishing(t)
  BY DEF CreateCommit, At, Publishing
<1>2. Apt(r, st, clock) /\ Placed(r, st, segs)
  BY DEF Given, ColumnInv, AllApt, BoundaryInv, AllPlaced
<1>3. CASE UNCHANGED st
  BY <1>1, <1>3, SameDisplays DEF Same
<1>4. CASE /\ r.ret = "st.next" \/ BoundaryCurrent(r.expect)
           /\ \E u : st' = Opened(st, r.ref, u)
  <2>1. st'.cur = r.ref /\ st'.open /\ ~st'.closed
    BY <1>4 DEF Opened, NewState
  <2>2. LiveCard' = r.ref
    BY <1>1, <2>1, PublishedCard DEF LiveCard
  <2>3. LiveCard = 0
    BY <1>1, <2>1, PublishedCard DEF LiveCard, Replaces
  <2>4. r.ref > st.cur
    <3>1. CASE r.ret = "st.next"
      <4>1. st.cur = 0
        BY <1>1, <1>2, <3>1 DEF Placed, Creations
      <4> QED
        BY <1>1, <4>1, PublishedCard DEF Cards, Given, TypeOK
    <3>2. CASE r.ret # "st.next" /\ BoundaryCurrent(r.expect)
      <4>1. Seeks(r)
        BY <1>1, <3>2 DEF Seeks, Making, Creations
      <4> QED
        BY <1>1, <1>2, <3>2, <4>1 DEF Apt, BoundaryCurrent, GivenUp
    <3> QED
      BY <1>4, <3>1, <3>2
  <2>5. Len(Column) = Len(segs) /\ Column' = Column
    <3>1. Len(segs) \in Nat
      BY DEF Given, TypeOK
    <3> QED
      BY <1>1, <3>1 DEF Column
  <2>6. r.ref \in (st.cur + 1)..Len(Column)
    <3>1. st.cur \in Nat /\ Len(segs) \in Nat
      BY DEF Given, TypeOK, States
    <3>2. r.ref \in 1..Len(segs)
      BY <1>1, PublishedCard DEF Cards
    <3> QED
      BY <2>4, <2>5, <3>1, <3>2
  <2>7. Column[r.ref] \notin Showing(FinalStatuses)
    BY <1>1, PublishedCard
  <2> HIDE DEF r
  <2>8. Display!MoveDown
    BY <2>1, <2>2, <2>3, <2>5, <2>6, <2>7, Zenon DEF Display!MoveDown
  <2> QED
    BY <2>8 DEF Displays, Display!DisplayNext
<1> QED
  BY <1>3, <1>4 DEF CreateCommit

LEMMA RetireWriteDisplays ==
  ASSUME Given, NEW t \in Tasks, RetireWrite(t)
  PROVE  Displays
<1> DEFINE i == task[t].ref
           end == IF st.closed THEN "stopped" ELSE "continued"
           c == [segs[i] EXCEPT !.seq = 2, !.status = end]
<1>1. /\ UNCHANGED st /\ segs' = [segs EXCEPT ![i] = c]
      /\ Publishing(t)
  BY NoFailure DEF RetireWrite, At, Publishing
<1>2. i \in Cards /\ segs[i] \in CardType /\ segs \in Seq(CardType)
      /\ segs' \in Seq(CardType)
  BY <1>1, PublishedCard, ElementType DEF Given, TypeOK, Cards
<1>3. end \in FinalStatuses
  BY DEF FinalStatuses, Outs
<1> HIDE DEF end
<1>4. c.status \in FinalStatuses
  BY <1>2, <1>3 DEF CardType
<1> HIDE DEF c
<1>5. c \in CardType
  <2>1. segs'[i] = c /\ i \in 1..Len(segs')
    BY <1>1, <1>2 DEF Cards
  <2> QED
    BY <1>2, <2>1, ElementType
<1>6. Shown(c) \in Showing(FinalStatuses)
  BY <1>4, <1>5, ShownType
<1>7. Column' = [Column EXCEPT ![i] = Shown(c)]
  BY <1>1, <1>2, ColumnEdited DEF Given
<1>8. LiveCard' = LiveCard /\ st'.cur = st.cur
  BY <1>1 DEF LiveCard
<1>9. i \in 1..Len(Column)
  <2>1. Len(segs) \in Nat
    BY <1>2
  <2> QED
    BY <1>2, <2>1 DEF Column, Cards
<1>10. i # LiveCard /\ Column[i] \notin Showing(FinalStatuses)
  BY <1>1, PublishedCard
<1> HIDE DEF i
<1>11. Display!Discard
  BY <1>6, <1>7, <1>8, <1>9, <1>10, Zenon DEF Display!Discard
<1> QED
  BY <1>11 DEF Displays, Display!DisplayNext

LEMMA SuspendWriteDisplays ==
  ASSUME Given, NEW t \in Tasks, SuspendWrite(t)
  PROVE  Displays
<1> DEFINE frozen == IF task[t].why \in {"steer", "artifact"}
                     THEN "continued" ELSE "waiting"
           c == [segs[st.cur] EXCEPT !.status = frozen, !.text = st.content,
                                     !.tool = st.tool,
                                     !.seq = Frozen(st, frozen).seq]
<1>1. Writing(t) /\ segs' = [segs EXCEPT ![st.cur] = c]
  BY NoFailure DEF SuspendWrite, At, Writing
<1>2. frozen \in FinalStatuses
  BY DEF FinalStatuses, Outs
<1>3. c.status = frozen
  BY <1>1, WriterIsLive DEF CardType
<1> HIDE DEF frozen, c
<1>4. st'.cur = st.cur /\ LiveCard' = 0
  BY SuspendWriteKept DEF StKept, LiveCard
<1> QED
  BY <1>1, <1>2, <1>3, <1>4, WriterIsLive, CloseDisplays DEF Given

LEMMA FinalizeWriteDisplays ==
  ASSUME Given, NEW t \in Tasks, FinalizeWrite(t)
  PROVE  Displays
<1> DEFINE n == st.seq + (IF st.content # st.flushed THEN 3 ELSE 2)
           out == task[t].out
           c == [segs[st.cur] EXCEPT !.status = out, !.text = st.content,
                                     !.tool = st.tool, !.seq = n]
<1>1. Writing(t) /\ segs' = [segs EXCEPT ![st.cur] = c]
  BY NoFailure DEF FinalizeWrite, At, Writing
<1>2. out \in FinalStatuses
  BY DEF FinalStatuses, Given, TypeOK, Coroutines
<1> HIDE DEF n, out
<1>3. c.status = out
  BY <1>1, WriterIsLive DEF CardType
<1> HIDE DEF c
<1>4. st'.cur = st.cur /\ LiveCard' = 0
  BY FinalizeWriteKept DEF StKept, LiveCard
<1> QED
  BY <1>1, <1>2, <1>3, <1>4, WriterIsLive, CloseDisplays DEF Given

LEMMA ToolWriteDisplays ==
  ASSUME Given, NEW t \in Tasks, ToolWrite(t)
  PROVE  Displays
<1> DEFINE c == [segs[st.cur] EXCEPT !.status = "streaming",
                                     !.text = st.content, !.tool = st.tool,
                                     !.seq = st.seq]
<1>1. Writing(t) /\ segs' = [segs EXCEPT ![st.cur] = c]
  BY NoFailure DEF ToolWrite, At, Writing
<1>2. c.status = "streaming"
  BY <1>1, WriterIsLive DEF CardType
<1> HIDE DEF c
<1>3. st'.cur = st.cur /\ LiveCard' = LiveCard
  BY StateKept DEF StKept, StOpen, LiveCard
<1> QED
  BY <1>1, <1>2, <1>3, WriterIsLive, EditDisplays DEF Given

\* An expired question closes the turn above its card.
LEMMA ExpireDisplays ==
  ASSUME Given, NEW t \in Tasks, ExpireLocked(t)
  PROVE  Displays
<1>1. UNCHANGED segs
  BY DEF ExpireLocked
<1>2. st'.cur = st.cur /\ st'.closed
  BY ExpireKept DEF StKept
<1>3. LiveCard' = 0 /\ Column' = Column
  BY <1>1, <1>2 DEF LiveCard, Column
<1>4. CASE LiveCard = 0
  BY <1>2, <1>3, <1>4 DEF Displays, Stutters
<1>5. CASE LiveCard # 0
  <2>1. Column = [Column EXCEPT ![LiveCard] = Column[LiveCard]]
    BY DEF Column
  <2>2. Display!Abandon
    BY <1>2, <1>3, <1>5, <2>1, Zenon DEF Display!Abandon
  <2> QED
    BY <2>2 DEF Displays, Display!DisplayNext
<1> QED
  BY <1>4, <1>5

LEMMA RunDisplays ==
  ASSUME Given, NEW t \in Tasks, Run(t), Replaces
  PROVE  Displays
<1>1. CASE \/ CreateEntity(t) \/ CreateCheck(t) \/ Drain(t) \/ ResumeEnter(t)
           \/ ResumeOk(t) \/ SteerNext(t) \/ SteerSilent(t) \/ OutputBegin(t)
  <2>1. UNCHANGED <<st, segs>>
    BY <1>1 DEF CreateEntity, CreateCheck, Drain, ResumeEnter, ResumeOk,
       SteerNext, SteerSilent, OutputBegin
  <2> QED
    BY <2>1, SameDisplays DEF Same
<1>2. CASE \/ SuspendLocked(t) \/ SteerBegin(t) \/ SteerEnd(t)
           \/ ResumeEnd(t) \/ OutputCommit(t) \/ FinalizeEnter(t)
           \/ FinalizeLocked(t) \/ FinalizeReturn(t) \/ ToolCheck(t)
           \/ ToolCommit(t) \/ Adopt(t)
  BY <1>2, SteerSame, OutputSame, SameDisplays
<1>3. CASE CreateSend(t) \/ CreateCommit(t) \/ RetireWrite(t)
  BY <1>3, CreateSendDisplays, CreateCommitDisplays, RetireWriteDisplays
<1>4. CASE \/ SuspendWrite(t) \/ FinalizeWrite(t) \/ ToolWrite(t)
           \/ ExpireLocked(t) \/ FallbackWrite(t)
  BY <1>4, SuspendWriteDisplays, FinalizeWriteDisplays, ToolWriteDisplays,
     ExpireDisplays, FallbackWriteColumn
<1> QED
  BY <1>1, <1>2, <1>3, <1>4 DEF Run

LEMMA FlushDisplays ==
  ASSUME Given, Flush
  PROVE  Displays
<1>1. PICK i \in 1..Len(ctl) : FlushFire(i) \/ FlushLocked(i) \/ FlushWrite(i)
  BY DEF Flush
<1>2. CASE FlushFire(i) \/ FlushLocked(i)
  BY <1>2, SameDisplays DEF FlushFire, FlushLocked, Same
<1>3. CASE FlushWrite(i)
  <2>1. StKept /\ StOpen
    BY <1>3, FlushWriteKept
  <2>2. Flushing(i)
    BY <1>3 DEF FlushWrite, Flushing
  <2>3. st.cur # 0 /\ st.open /\ ~st.closed
    BY <2>2 DEF Given, BoundaryInv, FlushesBelow, ColumnInv, FlushesOpen
  <2>4. st.cur \in Cards /\ LiveCard = st.cur
    <3>1. st.cur \in Nat /\ st.cur <= Len(segs) /\ Len(segs) \in Nat
      BY DEF Given, TypeOK, States, WritesInv, CurrentStreams
    <3> QED
      BY <2>3, <3>1 DEF LiveCard, Cards
  <2>5. segs[st.cur].status = "streaming" /\ segs[st.cur] \in CardType
    BY <2>3, <2>4, ElementType DEF Given, Plain, WritesInv, CurrentStreams,
       Cards, TypeOK
  <2> DEFINE text == ctl[i].text
             full == st.phase = "thinking" \/ st.pending
             changed == text # st.flushed
             s == IF full THEN [st EXCEPT !.seq = @ + 1,
                                  !.phase = "generating", !.pending = FALSE]
                  ELSE st
             drawn == [segs[st.cur] EXCEPT !.status = "streaming",
                                           !.text = text, !.tool = st.tool,
                                           !.seq = s.seq]
             card == IF full THEN drawn ELSE segs[st.cur]
             n == s.seq + 1
             end == [card EXCEPT !.text = text, !.seq = n]
             c == IF changed THEN end ELSE card
  <2>6. segs' = [segs EXCEPT ![st.cur] = c]
    BY <1>3, NoFailure DEF FlushWrite
  <2> HIDE DEF s, text, full, changed, n
  <2>7. drawn.status = "streaming" /\ DOMAIN drawn = DOMAIN segs[st.cur]
    BY <2>5 DEF CardType
  <2> HIDE DEF drawn
  <2>8. card.status = "streaming" /\ DOMAIN card = DOMAIN segs[st.cur]
    BY <2>5, <2>7
  <2>9. end.status = "streaming"
    BY <2>5, <2>8 DEF CardType
  <2> HIDE DEF card, end
  <2>10. c.status = "streaming"
    BY <2>8, <2>9
  <2> HIDE DEF c
  <2>11. st'.cur = st.cur /\ LiveCard' = LiveCard
    BY <2>1 DEF StKept, StOpen, LiveCard
  <2> QED
    BY <2>4, <2>6, <2>10, <2>11, EditDisplays DEF Given
<1> QED
  BY <1>1, <1>2, <1>3

LEMMA OthersDisplay ==
  ASSUME Given,
         \/ DispatchStart \/ StreamDelta \/ FinalAnswer \/ Progress
         \/ ToolUpdate \/ MarkTerminal \/ ShutDown \/ Expire \/ Done
         \/ UNCHANGED vars
         \/ \E w \in {"artifact", "approval", "question"} : Boundary(w)
         \/ \E t \in Steers : Steer(t)
  PROVE  Displays
<1>1. /\ UNCHANGED segs
      /\ UNCHANGED st \/ \E x : st' = [st EXCEPT !.terminal = x]
  BY DEF DispatchStart, StreamDelta, FinalAnswer, Progress, ToolUpdate,
     MarkTerminal, ShutDown, Expire, Done, vars, Boundary, Steer
<1>2. Same
  BY <1>1 DEF Same, Given, TypeOK, States
<1> QED
  BY <1>2, SameDisplays

LEMMA CompleteDisplays ==
  ASSUME Given, Complete
  PROVE  Displays
<1>1. UNCHANGED segs
  BY DEF Complete
<1>2. LiveCard' = LiveCard /\ st'.cur = st.cur
  BY CompleteKept DEF StKept, StOpen, LiveCard
<1> QED
  BY <1>1, <1>2 DEF Displays, Stutters, Column

LEMMA NextDisplays ==
  ASSUME Given, [Next]_vars, Replaces, MaxDispatch <= 1
  PROVE  Displays
<1>1. ASSUME NEW t \in Tasks, Run(t)
      PROVE  Displays
  BY <1>1, RunDisplays
<1>2. ASSUME NEW t \in Steers,
             Steer(t) \/ CancelSteer(t) \/ LateCall(t)
      PROVE  Displays
  BY <1>2, OthersDisplay, NoCancel
<1>3. ASSUME NEW w \in {"artifact", "approval", "question"}, Boundary(w)
      PROVE  Displays
  BY <1>3, OthersDisplay
<1>4. CASE DispatchStart \/ DispatchContinue \/ Complete
  BY <1>4, OthersDisplay, OneDispatch, CompleteDisplays
<1>5. CASE \/ StreamDelta \/ FinalAnswer \/ Progress \/ ToolUpdate
           \/ MarkTerminal \/ ShutDown \/ Expire \/ Done \/ UNCHANGED vars
  BY <1>5, OthersDisplay
<1>6. CASE Flush
  BY <1>6, FlushDisplays
<1> QED
  BY <1>1, <1>2, <1>3, <1>4, <1>5, <1>6 DEF Next

LEMMA InitDisplay == Init => Display!DisplayInit
<1> SUFFICES ASSUME Init
             PROVE  Display!DisplayInit
  OBVIOUS
<1>1. segs = <<>> /\ st.cur = 0
  BY DEF Init, NewState
<1>2. Column = <<>>
  BY <1>1 DEF Column
<1>3. LiveCard = 0
  BY <1>1 DEF LiveCard
<1> QED
  BY <1>1, <1>2, <1>3, Zenon DEF Display!DisplayInit

\* Without API failures none is ever counted.
LEMMA NoFaults ==
  ASSUME Faults = {}, TypeOK, FaultFree, [Next]_vars
  PROVE  FaultFree'
<1>1. used \in Usage
  BY DEF TypeOK
<1>2. ASSUME NEW kinds, NEW o \in Outcome(kinds), Spend(o)
      PROVE  FaultFree'
  <2>1. o = "ok"
    BY <1>2 DEF Outcome
  <2> QED
    BY <1>1, <1>2, <2>1 DEF Spend, Usage, FaultFree
<1> QED
  BY <1>2, Spends DEF FaultFree

\* What a reader of the thread sees of one dispatch whose API calls succeed and
\* whose steers are neither cancelled nor synthetic is the column of
\* TurnDisplay: whatever coroutines meet, every write that the adapter makes
\* under state.lock edits the live card, closes it, moves below it or discards
\* a card that came too late.
THEOREM TurnKeepsDisplay ==
  MaxDispatch <= 1 /\ ~MayCancel /\ ~MayEcho /\ Faults = {}
    => (Spec => KeepsDisplay)
<1> SUFFICES ASSUME MaxDispatch <= 1 /\ ~MayCancel /\ ~MayEcho /\ Faults = {}
             PROVE  Spec => KeepsDisplay
  OBVIOUS
<1>1. Init => FaultFree
  BY DEF Init, FaultFree
<1>2. TypeOK /\ FaultFree /\ [Next]_vars => FaultFree'
  BY NoFaults
<1>3. Spec => []BoundaryInv
  BY BoundariesInvariant DEF Plain, Uncancelled
<1>4. Spec => [](FaultFree => ColumnInv)
  BY ColumnInvariant DEF Plain, Uncancelled, Echoes
<1>5. TypeOK /\ WritesInv /\ BoundaryInv /\ (FaultFree => ColumnInv)
        /\ FaultFree /\ [Next]_vars
        => [Display!DisplayNext]_(Display!display)
  <2> SUFFICES ASSUME TypeOK, WritesInv, BoundaryInv, FaultFree => ColumnInv,
                      FaultFree, [Next]_vars
               PROVE  Display!DisplayNext \/ UNCHANGED Display!display
    OBVIOUS
  <2>1. Given
    BY NextType, NoFaults DEF Given, Plain, Uncancelled, Echoes
  <2>2. Replaces
    BY NextBoundary
  <2>3. Displays
    BY <2>1, <2>2, NextDisplays
  <2> QED
    BY <2>3, Zenon DEF Displays, Stutters, Display!display
<1> QED
  BY <1>1, <1>2, <1>3, <1>4, <1>5, InitDisplay, TypeCorrect, WritesGuarded, PTL
     DEF Spec, KeepsDisplay, Display!DisplaySpec

-----------------------------------------------------------------------------
(* The queue of state.lock *)

\* Who waits for the lock waits in one place.
Queued ==
  /\ \A j \in 1..Len(waiters) :
       waiters[j] \in Tasks => task[waiters[j]].pc \in Acquiring
  /\ \A j, k \in 1..Len(waiters) :
       waiters[j] \in Tasks /\ waiters[j] = waiters[k] => j = k

\* A creation that comes to its commit too late.
Belated(r, s) == r.pc = "cr.commit" => Seeks(r) /\ GivenUp(r, s)

\* No creation that may commit gets the lock before e.
InLine(e) ==
  \E k \in 1..Len(waiters) :
    /\ waiters[k] = e
    /\ \A j \in 1..Len(waiters) :
         j < k /\ waiters[j] \in Tasks => Belated(task[waiters[j]], st)

\* A task may take a step: it has the lock it needs.
May(t) == cpu \in {NoTask, t} /\ (task[t].pc \in Acquiring => MayLock(t))

\* The waiters move up by n, the first of them is t if it leaves; others may
\* come.
Advance(t, n) ==
  /\ n \in {0, 1} /\ n <= Len(waiters)
  /\ Len(waiters') >= Len(waiters) - n
  /\ \A j \in 1..(Len(waiters) - n) : waiters'[j] = waiters[j + n]
  /\ n = 1 => waiters[1] = t

LEMMA RestShifts ==
  ASSUME TypeOK, NEW t
  PROVE  \E n \in {0, 1} :
           /\ n <= Len(waiters) /\ Len(Rest(t)) = Len(waiters) - n
           /\ \A j \in 1..(Len(waiters) - n) : Rest(t)[j] = waiters[j + n]
           /\ n = 1 => waiters[1] = t
           /\ n = 0 => waiters = <<>> \/ Head(waiters) # t
           /\ Rest(t) \in Seq(Tasks \cup {"flush"})
<1>1. waiters \in Seq(Tasks \cup {"flush"})
  BY DEF TypeOK
<1>2. CASE waiters # <<>> /\ Head(waiters) = t
  <2>1. /\ Len(waiters) >= 1 /\ waiters[1] = t
        /\ Len(Tail(waiters)) = Len(waiters) - 1
        /\ \A j \in 1..(Len(waiters) - 1) : Tail(waiters)[j] = waiters[j + 1]
        /\ Tail(waiters) \in Seq(Tasks \cup {"flush"})
    BY <1>1, <1>2
  <2>2. Rest(t) = Tail(waiters)
    BY <1>2 DEF Rest
  <2> WITNESS 1 \in {0, 1}
  <2> QED
    BY <2>1, <2>2
<1>3. CASE ~(waiters # <<>> /\ Head(waiters) = t)
  <2>1. Rest(t) = waiters
    BY <1>3 DEF Rest
  <2> QED
    BY <1>1, <1>3, <2>1
<1> QED
  BY <1>2, <1>3

\* A task that runs is in the queue at its head, if at all.
LEMMA RestWithout ==
  ASSUME TypeOK, Queued, NEW t \in Tasks, May(t), NEW j \in 1..Len(Rest(t))
  PROVE  Rest(t)[j] # t
<1>1. PICK n \in {0, 1} :
        /\ n <= Len(waiters) /\ Len(Rest(t)) = Len(waiters) - n
        /\ \A i \in 1..(Len(waiters) - n) : Rest(t)[i] = waiters[i + n]
        /\ n = 1 => waiters[1] = t
        /\ n = 0 => waiters = <<>> \/ Head(waiters) # t
  BY RestShifts
<1>2. Len(waiters) \in Nat /\ waiters \in Seq(Tasks \cup {"flush"})
  BY DEF TypeOK
<1>3. Rest(t)[j] = waiters[j + n] /\ j + n \in 1..Len(waiters)
  BY <1>1, <1>2
<1>4. SUFFICES ASSUME waiters[j + n] = t
               PROVE  FALSE
  BY <1>3
<1>5. task[t].pc \in Acquiring
  BY <1>3, <1>4 DEF Queued
<1>6. Head(waiters) = t
  BY <1>2, <1>3, <1>5 DEF May, MayLock
<1>7. n = 1
  BY <1>1, <1>2, <1>3, <1>6
<1>8. waiters[1] = t /\ 1 \in 1..Len(waiters)
  BY <1>1, <1>2, <1>7
<1>9. j + n = 1
  BY <1>3, <1>4, <1>8 DEF Queued
<1> QED
  BY <1>7, <1>9

\* The step of t leaves the others in the queue, in order.
LEMMA GoQueue ==
  ASSUME TypeOK, Queued, NEW t \in Tasks, NEW r, Go(t, r), May(t)
  PROVE  /\ Queued'
         /\ \E n \in {0, 1} :
              /\ Advance(t, n)
              /\ \A j \in 1..Len(waiters) : j > n => waiters[j] # t
<1> DEFINE w == Rest(t)
<1>1. PICK n \in {0, 1} :
        /\ n <= Len(waiters) /\ Len(w) = Len(waiters) - n
        /\ \A i \in 1..(Len(waiters) - n) : w[i] = waiters[i + n]
        /\ n = 1 => waiters[1] = t
        /\ w \in Seq(Tasks \cup {"flush"})
  BY RestShifts
<1>2. Len(waiters) \in Nat
  BY DEF TypeOK
<1>3. \A j \in 1..Len(w) : w[j] # t
  BY RestWithout
<1>4. /\ task' = [task EXCEPT ![t] = r]
      /\ waiters' = w \/ (waiters' = Append(w, t) /\ r.pc \in Acquiring)
  BY DEF Go
<1>5. /\ task'[t] = r /\ \A u \in Tasks \ {t} : task'[u] = task[u]
  BY <1>4 DEF TypeOK
<1> HIDE DEF w
<1>6. \A j \in 1..Len(w) : w[j] \in Tasks => task'[w[j]].pc \in Acquiring
  <2> TAKE j \in 1..Len(w)
  <2>1. w[j] = waiters[j + n] /\ j + n \in 1..Len(waiters)
    BY <1>1, <1>2
  <2> QED
    BY <1>3, <1>5, <2>1 DEF Queued
<1>7. \A j, k \in 1..Len(w) : w[j] \in Tasks /\ w[j] = w[k] => j = k
  <2> TAKE j, k \in 1..Len(w)
  <2>1. /\ w[j] = waiters[j + n] /\ j + n \in 1..Len(waiters)
        /\ w[k] = waiters[k + n] /\ k + n \in 1..Len(waiters)
    BY <1>1, <1>2
  <2>2. w[j] \in Tasks /\ w[j] = w[k] => j + n = k + n
    BY <2>1 DEF Queued
  <2> QED
    BY <1>1, <2>2
<1>8. /\ \A j \in 1..Len(w) : waiters'[j] = w[j]
      /\ \/ Len(waiters') = Len(w)
         \/ /\ Len(waiters') = Len(w) + 1 /\ waiters'[Len(w) + 1] = t
            /\ r.pc \in Acquiring
  <2>1. CASE waiters' = w
    BY <2>1
  <2>2. CASE waiters' = Append(w, t) /\ r.pc \in Acquiring
    BY <1>1, <2>2
  <2> QED
    BY <1>4, <2>1, <2>2
<1>9. Len(w) \in Nat
  BY <1>1
<1>10. \A j \in 1..Len(waiters') :
         \/ j \in 1..Len(w)
         \/ j = Len(w) + 1 /\ waiters'[j] = t /\ r.pc \in Acquiring
  BY <1>8, <1>9
<1>11. Queued'
  <2>1. \A j \in 1..Len(waiters') :
          waiters'[j] \in Tasks => task'[waiters'[j]].pc \in Acquiring
    BY <1>5, <1>6, <1>8, <1>10
  <2>2. \A j, k \in 1..Len(waiters') :
          waiters'[j] \in Tasks /\ waiters'[j] = waiters'[k] => j = k
    BY <1>3, <1>7, <1>8, <1>10
  <2> QED
    BY <2>1, <2>2 DEF Queued
<1>12. Advance(t, n)
  BY <1>1, <1>2, <1>8, <1>9 DEF Advance
<1>13. \A j \in 1..Len(waiters) : j > n => waiters[j] # t
  <2> TAKE j \in 1..Len(waiters)
  <2>1. j > n => j - n \in 1..Len(w) /\ w[j - n] = waiters[j]
    BY <1>1, <1>2
  <2> QED
    BY <1>3, <2>1
<1> QED
  BY <1>11, <1>12, <1>13

\* Whoever is in line stays in line while others run.
LEMMA InLineKept ==
  ASSUME TypeOK, NEW e \in Tasks, NEW t, e # t, InLine(e),
         NEW n \in {0, 1}, Advance(t, n),
         \A u \in Tasks \ {t} : task'[u] = task[u],
         \A u \in Tasks \ {t} : Belated(task[u], st) => Belated(task[u], st'),
         \A j \in 1..Len(waiters) :
           j > n /\ waiters[j] \in Tasks => waiters[j] # t
  PROVE  InLine(e)'
<1>1. PICK k \in 1..Len(waiters) :
        /\ waiters[k] = e
        /\ \A j \in 1..Len(waiters) :
             j < k /\ waiters[j] \in Tasks => Belated(task[waiters[j]], st)
  BY DEF InLine
<1>2. Len(waiters) \in Nat
  BY DEF TypeOK
<1>3. k > n
  BY <1>1, <1>2 DEF Advance
<1> DEFINE m == k - n
<1>4. Len(waiters') \in Nat
  BY DEF Advance
<1>5. m \in 1..Len(waiters') /\ waiters'[m] = e
  BY <1>1, <1>2, <1>3 DEF Advance
<1>6. ASSUME NEW j \in 1..Len(waiters'), j < m, waiters'[j] \in Tasks
      PROVE  Belated(task'[waiters'[j]], st')
  <2>1. /\ waiters'[j] = waiters[j + n] /\ j + n \in 1..Len(waiters)
        /\ j + n < k /\ j + n > n
    BY <1>2, <1>3, <1>6 DEF Advance
  <2>2. waiters[j + n] # t
    BY <1>6, <2>1
  <2> QED
    BY <1>1, <1>6, <2>1, <2>2
<1> HIDE DEF m
<1> QED
  BY <1>5, <1>6 DEF InLine

-----------------------------------------------------------------------------
(* A question that expires closes a frozen segment *)

\* Who is about to close the turn finds its segment frozen: it runs next, or
\* no creation that may commit gets the lock before it.
Expiring ==
  \A e \in Tasks :
    task[e].pc = "ex.lock" /\ ~st.closed
      => ~st.open /\ (cpu = e \/ InLine(e))

\* The step of t opens no segment and moves the anchor to t's message at most.
Drifts(t) ==
  /\ st.closed => st'.closed
  /\ st'.open => st.open
  /\ st'.routed => st.routed
  /\ st'.anchor = st.anchor \/ (Comes(task[t]) /\ st'.anchor = task[t].want)

\* t commits a segment.
Commits(t) ==
  /\ task[t].pc = "cr.commit"
  /\ task[t].ret = "st.next" \/ BoundaryCurrent(task[t].expect)

LEMMA KeptDrifts ==
  ASSUME NEW t, StKept, st'.open => st.open
  PROVE  Drifts(t)
BY DEF StKept, Drifts

LEMMA LateStays ==
  ASSUME Given, NEW t \in Tasks, Drifts(t), NEW u \in Tasks \ {t},
         Belated(task[u], st)
  PROVE  Belated(task[u], st')
BY DEF Belated, GivenUp, Drifts, Given, ColumnInv, Apart

LEMMA GoExpiring ==
  ASSUME Given, Queued, Expiring, NEW t \in Tasks, NEW r, Go(t, r), May(t),
         Drifts(t) \/ Commits(t)
  PROVE  /\ Queued'
         /\ \A e \in Tasks \ {t} :
              task'[e].pc = "ex.lock" /\ ~st'.closed
                => ~st'.open /\ InLine(e)'
<1>1. PICK n \in {0, 1} :
        /\ Advance(t, n) /\ Queued'
        /\ \A j \in 1..Len(waiters) : j > n => waiters[j] # t
  BY GoQueue DEF Given
<1>2. \A u \in Tasks \ {t} : task'[u] = task[u]
  BY DEF Go, Given, TypeOK
<1>3. ASSUME NEW e \in Tasks \ {t}, task[e].pc = "ex.lock", ~st.closed
      PROVE  ~st.open /\ InLine(e)
  BY <1>3, TaskNames DEF Expiring, May
<1>4. Len(waiters) \in Nat /\ waiters \in Seq(Tasks \cup {"flush"})
  BY DEF Given, TypeOK
<1>5. CASE Drifts(t)
  <2> SUFFICES ASSUME NEW e \in Tasks \ {t}, task'[e].pc = "ex.lock",
                      ~st'.closed
               PROVE  ~st'.open /\ InLine(e)'
    BY <1>1
  <2>1. ~st.open /\ InLine(e)
    BY <1>2, <1>3, <1>5 DEF Drifts
  <2>2. \A u \in Tasks \ {t} : Belated(task[u], st) => Belated(task[u], st')
    BY <1>5, LateStays
  <2>3. InLine(e)'
    BY <1>1, <1>2, <2>1, <2>2, InLineKept DEF Given
  <2> QED
    BY <1>5, <2>1, <2>3 DEF Drifts
<1>6. CASE Commits(t)
  <2> SUFFICES ASSUME NEW e \in Tasks \ {t}, task'[e].pc = "ex.lock"
               PROVE  FALSE
    BY <1>1
  <2>1. task[e].pc = "ex.lock"
    BY <1>2
  <2>2. CASE task[t].ret = "st.next"
    <3>1. Placed(task[t], st, segs)
      BY DEF Given, BoundaryInv, AllPlaced
    <3>2. st.cur = 0
      BY <1>6, <2>2, <3>1 DEF Placed, Creations, Commits
    <3>3. e = "runner" /\ t # "runner"
      BY <2>1, <3>2 DEF Given, BoundaryInv, Begins
    <3> QED
      BY <1>6, <3>2, <3>3 DEF Given, BoundaryInv, Begins, Commits
  <2>3. CASE BoundaryCurrent(task[t].expect)
    <3>1. InLine(e)
      BY <1>3, <2>1, <2>3 DEF BoundaryCurrent
    <3>2. PICK k \in 1..Len(waiters) :
            /\ waiters[k] = e
            /\ \A j \in 1..Len(waiters) :
                 j < k /\ waiters[j] \in Tasks => Belated(task[waiters[j]], st)
      BY <3>1 DEF InLine
    <3>3. waiters[1] = t /\ 1 \in 1..Len(waiters)
      BY <1>4, <1>6, <3>2 DEF May, MayLock, Acquiring, Commits
    <3>4. 1 < k
      BY <1>4, <3>2, <3>3
    <3>5. Belated(task[t], st)
      BY <3>2, <3>3, <3>4
    <3> QED
      BY <1>6, <2>3, <3>5 DEF Belated, GivenUp, BoundaryCurrent, Commits
  <2> QED
    BY <1>6, <2>2, <2>3 DEF Commits
<1> QED
  BY <1>5, <1>6

LEMMA RunExpiring ==
  ASSUME Given, Queued, Expiring, NEW t \in Tasks, NEW r, Go(t, r), May(t),
         r.pc # "ex.lock" \/ st'.closed, Drifts(t) \/ Commits(t)
  PROVE  Queued' /\ Expiring'
<1>1. task'[t] = r
  BY DEF Go, Given, TypeOK
<1> QED
  BY <1>1, GoExpiring DEF Expiring

\* The task that closes the turn comes when all creations are too late.
LEMMA ExpireExpiring ==
  ASSUME Given, Queued, Expiring, Expire
  PROVE  Queued' /\ Expiring'
<1> DEFINE t == "expirer"
           r == [Idle EXCEPT !.op = "expire", !.pc = "ex.lock"]
<1>1. t \in Tasks /\ Go(t, r) /\ May(t) /\ r.pc = "ex.lock"
  BY TaskNames DEF Expire, Free, May, Acquiring, Idle
<1>2. /\ UNCHANGED st /\ st.routed /\ ~st.open /\ st.reason = "question"
      /\ task[t].pc = "idle"
  BY DEF Expire, Free
<1>3. Drifts(t)
  BY <1>2, KeptDrifts, UnchangedStKept
<1>4. /\ Queued'
      /\ \A e \in Tasks \ {t} :
           task'[e].pc = "ex.lock" /\ ~st'.closed
             => ~st'.open /\ InLine(e)'
  BY <1>1, <1>3, GoExpiring
<1>5. ASSUME NEW u \in Tasks, ~st.closed
      PROVE  Belated(task[u], st)
  <2> SUFFICES ASSUME task[u].pc = "cr.commit"
               PROVE  Seeks(task[u]) /\ GivenUp(task[u], st)
    BY DEF Belated
  <2>1. Placed(task[u], st, segs) /\ Apt(task[u], st, clock)
    BY DEF Given, BoundaryInv, AllPlaced, ColumnInv, AllApt
  <2>2. st.cur # 0
    BY <1>2 DEF Given, BoundaryInv, Begins
  <2>3. Seeks(task[u])
    BY <2>1, <2>2 DEF Placed, Seeks, Making, Creations
  <2> QED
    BY <1>2, <2>1, <2>3 DEF Apt, Creations
<1>6. ASSUME ~st'.closed, cpu' # t
      PROVE  InLine(t)'
  <2>1. ~Continues(t, r.pc)
    BY <1>1, <1>6 DEF Go
  <2>2. waiters' = Append(Rest(t), t) /\ task' = [task EXCEPT ![t] = r]
    BY <1>1, <2>1 DEF Go, Acquiring
  <2>3. Rest(t) \in Seq(Tasks \cup {"flush"})
    BY <1>1, RestType DEF Given
  <2>4. /\ Len(waiters') = Len(Rest(t)) + 1 /\ Len(Rest(t)) \in Nat
        /\ waiters'[Len(Rest(t)) + 1] = t
        /\ \A j \in 1..Len(Rest(t)) : waiters'[j] = Rest(t)[j]
    BY <2>2, <2>3
  <2>5. \A j \in 1..Len(Rest(t)) : Rest(t)[j] # t
    BY <1>1, RestWithout DEF Given
  <2>6. \A u \in Tasks \ {t} : task'[u] = task[u]
    BY <2>2 DEF Given, TypeOK
  <2>7. ASSUME NEW j \in 1..Len(waiters'), j < Len(Rest(t)) + 1,
               waiters'[j] \in Tasks
        PROVE  Belated(task'[waiters'[j]], st')
    <3>1. j \in 1..Len(Rest(t))
      BY <2>4, <2>7
    <3>2. task'[waiters'[j]] = task[waiters'[j]]
      BY <2>4, <2>5, <2>6, <2>7, <3>1
    <3>3. Belated(task[waiters'[j]], st)
      BY <1>2, <1>5, <1>6, <2>7
    <3> QED
      BY <1>2, <3>2, <3>3
  <2>8. Len(Rest(t)) + 1 \in 1..Len(waiters')
    BY <2>4
  <2> QED
    BY <2>4, <2>7, <2>8 DEF InLine
<1> QED
  BY <1>2, <1>4, <1>6 DEF Expiring

\* Nobody moves.
LEMMA StillExpiring ==
  ASSUME Given, Queued, Expiring, UNCHANGED <<task, cpu, waiters>>, StKept,
         st'.open => st.open
  PROVE  Queued' /\ Expiring'
<1>1. Queued'
  BY DEF Queued
<1>2. \A u \in Tasks : Belated(task[u], st) => Belated(task[u], st')
  BY DEF Belated, GivenUp, StKept
<1>3. ASSUME NEW e \in Tasks, InLine(e)
      PROVE  InLine(e)'
  BY <1>2, <1>3 DEF InLine
<1> QED
  BY <1>1, <1>3 DEF Expiring, StKept

\* A flush waits for the lock, or leaves the queue.
LEMMA FlushExpiring ==
  ASSUME Given, Queued, Expiring, UNCHANGED <<st, task>>,
         cpu \in {NoTask, "flush"},
         waiters' \in {Rest("flush"), Append(waiters, "flush")}
  PROVE  Queued' /\ Expiring'
<1> DEFINE f == "flush"
<1>1. /\ Len(waiters) \in Nat /\ waiters \in Seq(Tasks \cup {f})
      /\ f \notin Tasks /\ NoTask \notin Tasks
  BY TaskNames DEF Given, TypeOK
<1>2. PICK n \in {0, 1} :
        /\ Advance(f, n)
        /\ \A j \in 1..Len(waiters') :
             \/ waiters'[j] = f
             \/ j + n \in 1..Len(waiters) /\ waiters'[j] = waiters[j + n]
  <2>1. CASE waiters' = Rest(f)
    <3>1. PICK n \in {0, 1} :
            /\ n <= Len(waiters) /\ Len(Rest(f)) = Len(waiters) - n
            /\ \A i \in 1..(Len(waiters) - n) : Rest(f)[i] = waiters[i + n]
            /\ n = 1 => waiters[1] = f
      BY RestShifts DEF Given
    <3>2. Advance(f, n)
      BY <1>1, <2>1, <3>1 DEF Advance
    <3>3. \A j \in 1..Len(waiters') :
            j + n \in 1..Len(waiters) /\ waiters'[j] = waiters[j + n]
      BY <1>1, <2>1, <3>1
    <3> QED
      BY <3>2, <3>3
  <2>2. CASE waiters' = Append(waiters, f)
    <3>1. /\ Len(waiters') = Len(waiters) + 1 /\ waiters'[Len(waiters) + 1] = f
          /\ \A j \in 1..Len(waiters) : waiters'[j] = waiters[j]
      BY <1>1, <2>2
    <3>2. Advance(f, 0)
      BY <1>1, <3>1 DEF Advance
    <3>3. \A j \in 1..Len(waiters') :
            \/ waiters'[j] = f
            \/ j + 0 \in 1..Len(waiters) /\ waiters'[j] = waiters[j + 0]
      BY <1>1, <3>1
    <3> QED
      BY <3>2, <3>3
  <2> QED
    BY <2>1, <2>2
<1>3. Queued'
  <2>1. \A j \in 1..Len(waiters') :
          waiters'[j] \in Tasks => task'[waiters'[j]].pc \in Acquiring
    BY <1>1, <1>2 DEF Queued
  <2>2. ASSUME NEW j \in 1..Len(waiters'), NEW k \in 1..Len(waiters'),
               waiters'[j] \in Tasks, waiters'[j] = waiters'[k]
        PROVE  j = k
    <3>1. /\ j + n \in 1..Len(waiters) /\ waiters'[j] = waiters[j + n]
          /\ k + n \in 1..Len(waiters) /\ waiters'[k] = waiters[k + n]
      BY <1>1, <1>2, <2>2
    <3>2. j + n = k + n
      BY <2>2, <3>1 DEF Queued
    <3> QED
      BY <1>2, <3>2
  <2> QED
    BY <2>1, <2>2 DEF Queued
<1>4. ASSUME NEW e \in Tasks, task[e].pc = "ex.lock", ~st.closed
      PROVE  ~st.open /\ InLine(e)
  BY <1>1, <1>4 DEF Expiring
<1>5. ASSUME NEW e \in Tasks, InLine(e)
      PROVE  InLine(e)'
  BY <1>1, <1>2, <1>5, InLineKept DEF Given
<1> QED
  BY <1>3, <1>4, <1>5 DEF Expiring

-----------------------------------------------------------------------------
(* The steps of the coroutines *)

\* t goes on elsewhere than to close the turn for a question.
Steps(t) == \E r : Go(t, r) /\ r.pc # "ex.lock"

LEMMA Points ==
  ASSUME TypeOK, NEW t \in Tasks
  PROVE  /\ "pc" \in DOMAIN task[t] /\ task[t].ret # "ex.lock"
         /\ "pc" \in DOMAIN Idle /\ Idle.pc = "idle"
         /\ \A p : "pc" \in DOMAIN To(t, p) /\ To(t, p).pc = p
<1>1. task[t] \in Coroutines
  BY DEF TypeOK
<1> QED
  BY <1>1 DEF Coroutines, Returns, Idle, To

LEMMA ToSteps ==
  ASSUME TypeOK, NEW t \in Tasks, NEW p, p # "ex.lock", Go(t, To(t, p))
  PROVE  Steps(t)
BY Points DEF Steps

LEMMA IdleSteps ==
  ASSUME TypeOK, NEW t \in Tasks, Go(t, Idle)
  PROVE  Steps(t)
BY Points DEF Steps

LEMMA FinishSteps ==
  ASSUME TypeOK, NEW t \in Tasks, NEW ok, Finish(t, ok)
  PROVE  Steps(t)
BY ToSteps, IdleSteps DEF Finish

LEMMA FinalizedSteps ==
  ASSUME TypeOK, NEW t \in Tasks, NEW ok, Finalized(t, ok)
  PROVE  Steps(t)
<1>1. [To(t, "fin.ret") EXCEPT !.res = ok].pc = "fin.ret"
  BY Points
<1> QED
  BY <1>1 DEF Finalized, Steps

LEMMA CreatedSteps ==
  ASSUME TypeOK, NEW t \in Tasks, NEW ok, Created(t, ok)
  PROVE  Steps(t)
<1> DEFINE p == IF ok /\ task[t].ret = "rs.end" THEN "rs.ok" ELSE task[t].ret
           r == [task[t] EXCEPT !.res = ok, !.pc = p]
<1>1. p # "ex.lock"
  BY Points
<1>2. Go(t, r)
  BY DEF Created
<1> HIDE DEF p
<1>3. r.pc = p
  BY Points
<1> QED
  BY <1>1, <1>2, <1>3 DEF Steps

LEMMA CreateSteps ==
  ASSUME NEW t, NEW r, "pc" \in DOMAIN r, Create(t, r)
  PROVE  Steps(t)
<1>1. [r EXCEPT !.pc = "cr.entity", !.ref = 0].pc = "cr.entity"
  OBVIOUS
<1> QED
  BY <1>1 DEF Create, Steps

LEMMA SuspendedSteps ==
  ASSUME TypeOK, NEW t \in Tasks, Suspended(t)
  PROVE  Steps(t)
<1> DEFINE r == [task[t] EXCEPT !.expect = st'.anchor, !.ret = "st.end"]
<1>1. "pc" \in DOMAIN r
  BY Points
<1>2. Create(t, r) \/ Finish(t, TRUE)
  BY DEF Suspended
<1> HIDE DEF r
<1> QED
  BY <1>1, <1>2, CreateSteps, FinishSteps

LEMMA AfterResumeSteps ==
  ASSUME TypeOK, NEW t \in Tasks, NEW ok, AfterResume(t, ok)
  PROVE  Steps(t)
<1> DEFINE r == [To(t, "fb.call") EXCEPT !.ref = st.fb, !.expect = st.anchor,
                                         !.ret = "idle"]
<1>1. r.pc = "fb.call"
  BY Points
<1>2. \/ Go(t, r) \/ Finish(t, TRUE)
      \/ \E p \in {"tool.commit", "tool.check", "fin.enter", "out.commit"} :
           Go(t, To(t, p))
  BY DEF AfterResume
<1> HIDE DEF r
<1>3. CASE Go(t, r)
  BY <1>1, <1>3 DEF Steps
<1> QED
  BY <1>2, <1>3, FinishSteps, ToSteps

LEMMA CreationSteps ==
  ASSUME TypeOK, NEW t \in Tasks,
         \/ CreateEntity(t) \/ CreateCheck(t) \/ CreateSend(t)
         \/ CreateCommit(t) \/ RetireWrite(t)
  PROVE  Steps(t)
<1> DEFINE r == [To(t, "cr.commit") EXCEPT !.ref = Len(segs')]
<1>1. r.pc = "cr.commit"
  BY Points
<1>2. \/ Go(t, r)
      \/ \E ok \in BOOLEAN : Created(t, ok)
      \/ \E p \in {"cr.send", "cr.check", "rt.write"} : Go(t, To(t, p))
  BY DEF CreateEntity, CreateCheck, CreateSend, CreateCommit, RetireWrite
<1> HIDE DEF r
<1>3. CASE Go(t, r)
  BY <1>1, <1>3 DEF Steps
<1> QED
  BY <1>2, <1>3, CreatedSteps, ToSteps

LEMMA SuspensionSteps ==
  ASSUME TypeOK, NEW t \in Tasks,
         Drain(t) \/ SuspendLocked(t) \/ SuspendWrite(t)
  PROVE  Steps(t)
<1>1. \/ Suspended(t)
      \/ \E p \in {"sus.lock", "fin.lock", "sus.write"} : Go(t, To(t, p))
  BY DEF Drain, SuspendLocked, SuspendWrite
<1> QED
  BY <1>1, SuspendedSteps, ToSteps

LEMMA ResumptionSteps ==
  ASSUME TypeOK, NEW t \in Tasks,
         ResumeEnter(t) \/ ResumeOk(t) \/ ResumeEnd(t)
  PROVE  Steps(t)
<1> DEFINE r == [task[t] EXCEPT !.expect = st.anchor, !.ret = "rs.end"]
<1>1. "pc" \in DOMAIN r
  BY Points
<1>2. Create(t, r) \/ \E ok \in BOOLEAN : AfterResume(t, ok)
  <2>1. \A x, y : (~x /\ y) \in BOOLEAN
    OBVIOUS
  <2>2. CASE ResumeEnter(t)
    <3> DEFINE ok == ~st.closed /\ st.open
    <3>1. ok \in BOOLEAN /\ (AfterResume(t, ok) \/ Create(t, r))
      BY <2>2 DEF ResumeEnter
    <3> HIDE DEF ok, r
    <3> QED
      BY <3>1
  <2>3. CASE ResumeOk(t)
    BY <2>3 DEF ResumeOk
  <2>4. CASE ResumeEnd(t)
    <3> DEFINE ok == ~st.closed /\ st.routed /\ st.open
    <3>1. ok \in BOOLEAN /\ (AfterResume(t, ok) \/ AfterResume(t, FALSE))
      BY <2>4 DEF ResumeEnd
    <3> HIDE DEF ok
    <3> QED
      BY <3>1
  <2> QED
    BY <2>2, <2>3, <2>4
<1> HIDE DEF r
<1> QED
  BY <1>1, <1>2, CreateSteps, AfterResumeSteps

LEMMA SteeringSteps ==
  ASSUME TypeOK, NEW t \in Tasks,
         SteerBegin(t) \/ SteerEnd(t) \/ SteerNext(t) \/ SteerSilent(t)
  PROVE  Steps(t)
<1> DEFINE r == [task[t] EXCEPT !.why = "steer", !.ret = "cr.entity"]
           a == [r EXCEPT !.pc = "sus.quiet", !.ref = st.cur]
           b == [r EXCEPT !.expect = r.want, !.ret = "st.end"]
           c == [To(t, "fin.enter") EXCEPT !.text = st.defTerm.text,
                                           !.out = st.defTerm.out]
           d == [To(t, "out.begin") EXCEPT !.text = "prog"]
           q == [task[t] EXCEPT !.op = "silent"]
           e == [q EXCEPT !.pc = "st.begin"]
           f == [q EXCEPT !.want = st.anchor, !.pc = "adopt"]
           g == [q EXCEPT !.want = st.anchor, !.pc = "st.begin"]
<1>1. "pc" \in DOMAIN b
  BY Points
<1>2. \A x \in {a, c, d, e, f, g} : x.pc # "ex.lock"
  BY Points
<1>3. \/ Create(t, b) \/ Go(t, Idle) \/ Go(t, To(t, "st.next"))
      \/ Go(t, a) \/ Go(t, c) \/ Go(t, d) \/ Go(t, e) \/ Go(t, f)
      \/ Go(t, g)
  <2>1. CASE SteerBegin(t)
    BY <2>1 DEF SteerBegin, Suspend
  <2>2. CASE SteerEnd(t) \/ SteerNext(t)
    BY <2>2 DEF SteerEnd, SteerNext
  <2>3. CASE SteerSilent(t)
    <3>1. Go(t, IF st.closed \/ ~st.routed \/ st.active = t THEN Idle
                ELSE IF ~q.saw THEN e
                ELSE [q EXCEPT !.want = st.anchor,
                        !.pc = IF st.open THEN "adopt" ELSE "st.begin"])
      BY <2>3 DEF SteerSilent
    <3>2. CASE st.open
      BY <3>1, <3>2
    <3>3. CASE ~st.open
      BY <3>1, <3>3
    <3> QED
      BY <3>2, <3>3
  <2> QED
    BY <2>1, <2>2, <2>3
<1>4. CASE \/ Go(t, a) \/ Go(t, c) \/ Go(t, d) \/ Go(t, e) \/ Go(t, f)
           \/ Go(t, g)
  <2>1. PICK x \in {a, c, d, e, f, g} : Go(t, x)
    BY <1>4
  <2> QED
    BY <1>2, <2>1 DEF Steps
<1> HIDE DEF a, b, c, d, e, f, g, q, r
<1> QED
  BY <1>1, <1>3, <1>4, CreateSteps, IdleSteps, ToSteps

LEMMA WritingSteps ==
  ASSUME TypeOK, NEW t \in Tasks,
         \/ OutputBegin(t) \/ OutputCommit(t) \/ FallbackWrite(t)
         \/ FinalizeLocked(t) \/ FinalizeWrite(t) \/ FinalizeReturn(t)
         \/ ToolCheck(t) \/ ToolCommit(t) \/ ToolWrite(t)
         \/ Adopt(t) \/ ExpireLocked(t)
  PROVE  Steps(t)
<1>1. CASE OutputBegin(t) \/ OutputCommit(t) \/ FallbackWrite(t)
  <2> DEFINE a == [To(t, "fb.call") EXCEPT !.ref = st.fb, !.expect = st.anchor,
                                           !.ret = "idle"]
             b(x) == [To(t, "fin.ret") EXCEPT !.res = x]
  <2>1. a.pc # "ex.lock" /\ \A x : b(x).pc # "ex.lock"
    BY Points
  <2>2. \/ Go(t, a) \/ Go(t, To(t, "rs.enter"))
        \/ \E ok : Finish(t, ok) \/ Go(t, b(ok))
    BY <1>1 DEF OutputBegin, OutputCommit, FallbackWrite
  <2> HIDE DEF a, b
  <2>3. CASE Go(t, a) \/ \E ok : Go(t, b(ok))
    BY <2>1, <2>3 DEF Steps
  <2> QED
    BY <2>2, <2>3, FinishSteps, ToSteps
<1>2. CASE FinalizeLocked(t) \/ FinalizeWrite(t)
  <2>1. Go(t, To(t, "fin.write")) \/ \E x : Finalized(t, x)
    BY <1>2 DEF FinalizeLocked, FinalizeWrite
  <2> QED
    BY <2>1, FinalizedSteps, ToSteps
<1>3. CASE \/ FinalizeReturn(t) \/ ToolCheck(t) \/ ToolCommit(t)
           \/ ToolWrite(t) \/ Adopt(t) \/ ExpireLocked(t)
  <2>1. \/ \E p \in {"st.next", "tool.commit", "tool.write"} : Go(t, To(t, p))
        \/ Go(t, Idle) \/ \E ok : Finish(t, ok)
    BY <1>3 DEF FinalizeReturn, ToolCheck, ToolCommit, ToolWrite, Adopt,
       ExpireLocked
  <2> QED
    BY <2>1, FinishSteps, ToSteps, IdleSteps
<1> QED
  BY <1>1, <1>2, <1>3

LEMMA FinalizeEnterSteps ==
  ASSUME Given, NEW t \in Tasks, FinalizeEnter(t)
  PROVE  Steps(t) /\ May(t) /\ task[t].pc # "idle"
<1> DEFINE q == [To(t, "fin.quiet") EXCEPT !.ref = st.cur]
<1>1. st.reason # "fallback"
  BY DEF Given, ColumnInv
<1>2. (\E ok : Finalized(t, ok)) \/ Go(t, q)
  BY <1>1 DEF FinalizeEnter
<1>3. q.pc = "fin.quiet"
  BY Points DEF Given
<1>4. At(t, "fin.enter")
  BY <1>1, Zenon DEF FinalizeEnter
<1>5. MayLock(t)
  BY <1>1, Zenon DEF FinalizeEnter
<1> HIDE DEF q
<1>6. Steps(t)
  BY <1>2, <1>3, FinalizedSteps DEF Steps, Given
<1> QED
  BY <1>4, <1>5, <1>6 DEF At, May

LEMMA RunSteps ==
  ASSUME Given, NEW t \in Tasks, Run(t)
  PROVE  Steps(t)
BY CreationSteps, SuspensionSteps, ResumptionSteps, SteeringSteps,
   WritingSteps, FinalizeEnterSteps DEF Run, Given

\* A coroutine runs when it is its turn, and owns the lock it needs.
LEMMA RunMay ==
  ASSUME Given, NEW t \in Tasks, Run(t)
  PROVE  May(t) /\ task[t].pc # "idle"
<1> USE DEF May, At, Acquiring
<1>1. CASE \/ CreateEntity(t) \/ CreateCheck(t) \/ CreateSend(t)
           \/ CreateCommit(t) \/ RetireWrite(t) \/ Drain(t)
           \/ SuspendLocked(t) \/ SuspendWrite(t)
  BY <1>1 DEF CreateEntity, CreateCheck, CreateSend, CreateCommit,
     RetireWrite, Drain, SuspendLocked, SuspendWrite
<1>2. CASE \/ ResumeEnter(t) \/ ResumeOk(t) \/ ResumeEnd(t)
           \/ SteerBegin(t) \/ SteerEnd(t) \/ SteerNext(t) \/ SteerSilent(t)
           \/ OutputBegin(t) \/ OutputCommit(t) \/ FallbackWrite(t)
  BY <1>2 DEF ResumeEnter, ResumeOk, ResumeEnd, SteerBegin, SteerEnd,
     SteerNext, SteerSilent, OutputBegin, OutputCommit, FallbackWrite
<1>3. CASE \/ FinalizeLocked(t) \/ FinalizeWrite(t)
           \/ FinalizeReturn(t) \/ ToolCheck(t) \/ ToolCommit(t)
           \/ ToolWrite(t) \/ Adopt(t) \/ ExpireLocked(t)
  BY <1>3 DEF FinalizeLocked, FinalizeWrite, FinalizeReturn,
     ToolCheck, ToolCommit, ToolWrite, Adopt, ExpireLocked
<1> QED
  BY <1>1, <1>2, <1>3, FinalizeEnterSteps DEF Run

LEMMA RunDrifts ==
  ASSUME Given, NEW t \in Tasks, Run(t)
  PROVE  Drifts(t) \/ Commits(t)
<1>1. CASE \/ CreateEntity(t) \/ CreateCheck(t) \/ CreateSend(t)
           \/ RetireWrite(t) \/ Drain(t) \/ SteerNext(t) \/ SteerSilent(t)
           \/ OutputBegin(t)
  <2>1. UNCHANGED st
    BY <1>1 DEF CreateEntity, CreateCheck, CreateSend, RetireWrite, Drain,
       SteerNext, SteerSilent, OutputBegin
  <2> QED
    BY <2>1, UnchangedStKept, KeptDrifts
<1>2. CASE CreateCommit(t)
  <2>1. UNCHANGED st \/ Commits(t)
    BY <1>2 DEF CreateCommit, Commits, At
  <2> QED
    BY <2>1, UnchangedStKept, KeptDrifts
<1>3. CASE ResumeEnter(t) \/ ResumeOk(t) \/ ResumeEnd(t)
  BY <1>3, ResumeKept, UnchangedStKept, KeptDrifts
<1>4. CASE \/ OutputCommit(t) \/ FinalizeEnter(t) \/ FinalizeLocked(t)
           \/ FinalizeReturn(t) \/ ToolCheck(t) \/ ToolCommit(t)
           \/ ToolWrite(t) \/ Adopt(t) \/ SteerEnd(t)
  BY <1>4, StateKept, SteerEndKept, KeptDrifts DEF StOpen
<1>5. CASE SuspendWrite(t)
  BY <1>5, SuspendWriteKept, KeptDrifts
<1>6. CASE FinalizeWrite(t)
  <2>1. Writing(t)
    BY <1>6 DEF FinalizeWrite, At, Writing
  <2>2. st.open
    BY <2>1, WriterIsLive
  <2> QED
    BY <1>6, <2>2, FinalizeWriteKept, KeptDrifts
<1>7. CASE ExpireLocked(t)
  <2>1. st'.open = st.open
    BY <1>7 DEF ExpireLocked, Given, TypeOK, States
  <2> QED
    BY <1>7, <2>1, ExpireKept, KeptDrifts
<1>8. CASE SuspendLocked(t) \/ SteerBegin(t)
  <2>1. Comes(task[t])
    BY <1>8 DEF SuspendLocked, SteerBegin, At, Comes
  <2>2. st'.closed = st.closed /\ st'.open = st.open
    BY <1>8, SteerSame DEF Same
  <2>3. st'.routed = st.routed /\ st'.anchor \in {st.anchor, task[t].want}
    <3> DEFINE s == Anchored(st, task[t].want, task[t].why)
               b == [st EXCEPT !.trans = TRUE]
               r == [task[t] EXCEPT !.why = "steer", !.ret = "cr.entity"]
               a == Anchored(b, r.want, "steer")
    <3>1. /\ st \in States /\ task[t].want \in Nat /\ r.want = task[t].want
          /\ task[t].why \in Reasons
      BY DEF Given, TypeOK, Coroutines
    <3>2. b \in States /\ b.routed = st.routed /\ b.anchor = st.anchor
      BY <3>1 DEF States
    <3>3. /\ s.routed = st.routed /\ s.anchor = task[t].want /\ s \in States
          /\ a.routed = b.routed /\ a.anchor = r.want
      <4>1. s \in States
        BY <3>1, AnchoredType
      <4> HIDE DEF b, r
      <4> QED
        BY <3>1, <3>2, <4>1 DEF Anchored, States
    <3>4. st' \in {st, s, b, a} \/ \E x : st' = [s EXCEPT !.tool = x]
      BY <1>8 DEF SuspendLocked, SteerBegin
    <3> HIDE DEF a, b, s, r
    <3> QED
      BY <3>1, <3>2, <3>3, <3>4 DEF States
  <2> QED
    BY <2>1, <2>2, <2>3 DEF Drifts
<1>9. CASE FallbackWrite(t)
  BY <1>9, FallbackWriteColumn
<1> QED
  BY <1>1, <1>2, <1>3, <1>4, <1>5, <1>6, <1>7, <1>8, <1>9 DEF Run

-----------------------------------------------------------------------------
(* No card is left streaming *)

Held(i) == \E t \in Tasks : Publishing(t) /\ task[t].ref = i

\* A card that streams is the live one, or the coroutine that published it has
\* yet to commit or to retire it.
NoneLost ==
  \A i \in Cards : segs[i].status = "streaming" => i = LiveCard \/ Held(i)

\* The inductive invariant of the cards that stream.
LossInv == NoneLost /\ Queued /\ Expiring

LEMMA HeldKept ==
  ASSUME NEW t \in Tasks, \A u \in Tasks \ {t} : task'[u] = task[u],
         ~Publishing(t), NEW i, Held(i)
  PROVE  Held(i)'
BY DEF Held, Publishing

LEMMA SameLost ==
  ASSUME NoneLost, UNCHANGED segs, LiveCard' = LiveCard,
         \A i \in Cards : Held(i) => Held(i)'
  PROVE  NoneLost'
BY DEF NoneLost, Cards

LEMMA LiveKept ==
  ASSUME StKept, StOpen
  PROVE  LiveCard' = LiveCard
BY DEF StKept, StOpen, LiveCard

\* The live card is edited, or finished.
LEMMA EditLost ==
  ASSUME TypeOK, NoneLost, NEW c, LiveCard \in Cards,
         segs' = [segs EXCEPT ![LiveCard] = c],
         LiveCard' = LiveCard \/ c.status # "streaming",
         \A i \in Cards : Held(i) => Held(i)'
  PROVE  NoneLost'
<1>1. segs \in Seq(CardType) /\ Cards = 1..Len(segs)
  BY DEF TypeOK, Cards
<1>2. /\ Len(segs') = Len(segs) /\ segs'[LiveCard] = c
      /\ \A i \in Cards \ {LiveCard} : segs'[i] = segs[i]
  BY <1>1
<1>3. Cards' = Cards
  BY <1>2 DEF Cards
<1> QED
  BY <1>2, <1>3 DEF NoneLost

\* t publishes a card.
LEMMA CreateSendLost ==
  ASSUME Given, NoneLost, NEW t \in Tasks, CreateSend(t)
  PROVE  NoneLost'
<1> DEFINE card == NewCard(ReplyTo(task[t]))
           r == [To(t, "cr.commit") EXCEPT !.ref = Len(segs')]
<1>1. segs' = Append(segs, card) /\ UNCHANGED st /\ Go(t, r)
  BY NoFailure DEF CreateSend
<1>2. segs \in Seq(CardType) /\ segs' \in Seq(CardType)
  BY DEF Given, TypeOK
<1> HIDE DEF card
<1>3. /\ Len(segs') = Len(segs) + 1 /\ Len(segs) \in Nat
      /\ \A j \in 1..Len(segs) : segs'[j] = segs[j]
  BY <1>1, <1>2
<1>4. r.pc = "cr.commit" /\ r.ref = Len(segs')
  BY <1>3 DEF Given, TypeOK, To, Coroutines
<1> HIDE DEF r
<1>5. task'[t] = r /\ \A u \in Tasks \ {t} : task'[u] = task[u]
  BY <1>1 DEF Go, Given, TypeOK
<1>6. ~Publishing(t)
  BY DEF CreateSend, At, Publishing
<1>7. LiveCard' = LiveCard
  BY <1>1, UnchangedStKept, LiveKept
<1>8. Publishing(t)' /\ task'[t].ref = Len(segs')
  BY <1>4, <1>5 DEF Publishing
<1>9. \A i : Held(i) => Held(i)'
  BY <1>5, <1>6, HeldKept
<1>10. \A i \in Cards' : Held(i)' \/ i \in Cards
  BY <1>3, <1>8 DEF Cards, Held
<1> QED
  BY <1>3, <1>7, <1>9, <1>10 DEF NoneLost, Cards

\* The card that was published becomes the live one, or is to be retired.
LEMMA CreateCommitLost ==
  ASSUME Given, NoneLost, NEW t \in Tasks, CreateCommit(t), Replaces
  PROVE  NoneLost'
<1>1. UNCHANGED segs /\ task[t].pc = "cr.commit" /\ Publishing(t)
  BY DEF CreateCommit, At, Publishing
<1>2. CASE Go(t, To(t, "rt.write")) /\ UNCHANGED st
  <2> DEFINE r == To(t, "rt.write")
  <2>1. r.pc = "rt.write" /\ r.ref = task[t].ref
    BY ToFields DEF Given
  <2>2. Go(t, r)
    BY <1>2
  <2> HIDE DEF r
  <2>3. task'[t] = r /\ \A u \in Tasks \ {t} : task'[u] = task[u]
    BY <2>2 DEF Go, Given, TypeOK
  <2>4. \A i : Held(i) => Held(i)'
    BY <2>1, <2>3 DEF Held, Publishing
  <2> QED
    BY <1>1, <1>2, <2>4, UnchangedStKept, LiveKept, SameLost
<1>3. CASE Created(t, TRUE) /\ \E u : st' = Opened(st, task[t].ref, u)
  <2>1. \A u \in Tasks \ {t} : task'[u] = task[u]
    BY <1>3 DEF Created, Go, Given, TypeOK
  <2>2. st'.cur = task[t].ref /\ st'.open /\ ~st'.closed
    BY <1>3 DEF Opened, NewState
  <2>3. LiveCard' = task[t].ref
    BY <1>1, <2>2, PublishedCard DEF LiveCard
  <2>4. LiveCard = 0
    BY <1>1, <2>2, PublishedCard DEF LiveCard, Replaces
  <2>5. ASSUME NEW i \in Cards, Held(i), i # task[t].ref
        PROVE  Held(i)'
    BY <2>1, <2>5 DEF Held, Publishing
  <2>6. \A i \in Cards : i # 0
    BY DEF Cards, Given, TypeOK
  <2> QED
    BY <1>1, <2>3, <2>4, <2>5, <2>6 DEF NoneLost, Cards
<1> QED
  BY <1>2, <1>3 DEF CreateCommit

LEMMA RetireWriteLost ==
  ASSUME Given, NoneLost, NEW t \in Tasks, RetireWrite(t)
  PROVE  NoneLost'
<1> DEFINE n == task[t].ref
           end == IF st.closed THEN "stopped" ELSE "continued"
           c == [segs[n] EXCEPT !.seq = 2, !.status = end]
<1>1. /\ UNCHANGED st /\ segs' = [segs EXCEPT ![n] = c]
      /\ Publishing(t) /\ Created(t, FALSE)
  BY NoFailure DEF RetireWrite, At, Publishing
<1>2. n \in Cards /\ segs[n] \in CardType /\ segs \in Seq(CardType)
  BY <1>1, PublishedCard, ElementType DEF Given, TypeOK, Cards
<1>3. end # "streaming"
  OBVIOUS
<1> HIDE DEF end
<1>4. c.status # "streaming"
  BY <1>2, <1>3 DEF CardType
<1> HIDE DEF c
<1>5. /\ Len(segs') = Len(segs) /\ segs'[n] = c
      /\ \A i \in Cards \ {n} : segs'[i] = segs[i]
  BY <1>1, <1>2 DEF Cards
<1>6. \A u \in Tasks \ {t} : task'[u] = task[u]
  BY <1>1 DEF Created, Go, Given, TypeOK
<1>7. ASSUME NEW i \in Cards, Held(i), i # n
      PROVE  Held(i)'
  BY <1>6, <1>7 DEF Held, Publishing
<1>8. LiveCard' = LiveCard
  BY <1>1, UnchangedStKept, LiveKept
<1> HIDE DEF n
<1> QED
  BY <1>4, <1>5, <1>7, <1>8 DEF NoneLost, Cards

\* A write of a coroutine to the live card.
LEMMA WriteLost ==
  ASSUME Given, NoneLost, NEW t \in Tasks,
         SuspendWrite(t) \/ FinalizeWrite(t) \/ ToolWrite(t),
         \A i \in Cards : Held(i) => Held(i)'
  PROVE  NoneLost'
<1>1. Writing(t)
  BY DEF SuspendWrite, FinalizeWrite, ToolWrite, At, Writing
<1>2. /\ LiveCard = st.cur /\ LiveCard \in Cards
      /\ segs[st.cur] \in CardType
  BY <1>1, WriterIsLive
<1>3. CASE SuspendWrite(t)
  <2> DEFINE frozen == IF task[t].why \in {"steer", "artifact"}
                       THEN "continued" ELSE "waiting"
             c == [segs[st.cur] EXCEPT !.status = frozen, !.text = st.content,
                                       !.tool = st.tool,
                                       !.seq = Frozen(st, frozen).seq]
  <2>1. segs' = [segs EXCEPT ![st.cur] = c]
    BY <1>3, NoFailure DEF SuspendWrite
  <2>2. frozen # "streaming"
    OBVIOUS
  <2>3. c.status = frozen
    BY <1>2 DEF CardType
  <2> HIDE DEF frozen, c
  <2> QED
    BY <1>2, <2>1, <2>2, <2>3, EditLost DEF Given
<1>4. CASE FinalizeWrite(t)
  <2> DEFINE n == st.seq + (IF st.content # st.flushed THEN 3 ELSE 2)
             out == task[t].out
             c == [segs[st.cur] EXCEPT !.status = out, !.text = st.content,
                                       !.tool = st.tool, !.seq = n]
  <2>1. segs' = [segs EXCEPT ![st.cur] = c]
    BY <1>4, NoFailure DEF FinalizeWrite
  <2>2. out # "streaming"
    BY DEF Outs, Given, TypeOK, Coroutines
  <2> HIDE DEF n, out
  <2>3. c.status = out
    BY <1>2 DEF CardType
  <2> HIDE DEF c
  <2> QED
    BY <1>2, <2>1, <2>2, <2>3, EditLost DEF Given
<1>5. CASE ToolWrite(t)
  <2> DEFINE c == [segs[st.cur] EXCEPT !.status = "streaming",
                                       !.text = st.content, !.tool = st.tool,
                                       !.seq = st.seq]
  <2>1. segs' = [segs EXCEPT ![st.cur] = c]
    BY <1>5, NoFailure DEF ToolWrite
  <2> HIDE DEF c
  <2>2. LiveCard' = LiveCard
    BY <1>5, StateKept, LiveKept
  <2> QED
    BY <1>2, <2>1, <2>2, EditLost DEF Given
<1> QED
  BY <1>3, <1>4, <1>5

\* The expired question finds no live card.
LEMMA ExpireLost ==
  ASSUME Given, LossInv, NEW t \in Tasks, ExpireLocked(t),
         \A i \in Cards : Held(i) => Held(i)'
  PROVE  NoneLost'
<1>1. task[t].pc = "ex.lock" /\ UNCHANGED segs
  BY DEF ExpireLocked, At
<1>2. LiveCard = 0
  BY <1>1 DEF LossInv, Expiring, LiveCard
<1>3. \A i \in Cards : i # 0
  BY DEF Cards, Given, TypeOK
<1> QED
  BY <1>1, <1>2, <1>3 DEF LossInv, NoneLost, Cards

LEMMA RunLoss ==
  ASSUME Given, LossInv, NEW t \in Tasks, Run(t), Replaces
  PROVE  LossInv'
<1>1. PICK r : Go(t, r) /\ r.pc # "ex.lock"
  BY RunSteps DEF Steps
<1>2. Queued' /\ Expiring'
  BY <1>1, RunMay, RunDrifts, RunExpiring DEF LossInv
<1>3. \A u \in Tasks \ {t} : task'[u] = task[u]
  BY <1>1 DEF Go, Given, TypeOK
<1>4. CASE CreateSend(t) \/ CreateCommit(t) \/ RetireWrite(t)
  BY <1>2, <1>4, CreateSendLost, CreateCommitLost, RetireWriteLost DEF LossInv
<1>5. CASE ~(CreateSend(t) \/ CreateCommit(t) \/ RetireWrite(t))
  <2>1. ~Publishing(t)
    <3>1. CASE \/ CreateEntity(t) \/ CreateCheck(t) \/ Drain(t)
               \/ SuspendLocked(t) \/ SuspendWrite(t)
               \/ ResumeEnter(t) \/ ResumeOk(t) \/ ResumeEnd(t)
               \/ SteerBegin(t) \/ SteerEnd(t) \/ SteerNext(t)
               \/ SteerSilent(t)
      BY <3>1 DEF CreateEntity, CreateCheck, Drain, SuspendLocked,
         SuspendWrite, ResumeEnter, ResumeOk, ResumeEnd, SteerBegin, SteerEnd,
         SteerNext, SteerSilent, At, Publishing
    <3>2. CASE \/ OutputBegin(t) \/ OutputCommit(t) \/ FallbackWrite(t)
               \/ FinalizeLocked(t) \/ FinalizeWrite(t)
               \/ FinalizeReturn(t) \/ ToolCheck(t) \/ ToolCommit(t)
               \/ ToolWrite(t) \/ Adopt(t) \/ ExpireLocked(t)
      BY <3>2 DEF OutputBegin, OutputCommit, FallbackWrite, FinalizeLocked,
         FinalizeWrite, FinalizeReturn, ToolCheck, ToolCommit, ToolWrite,
         Adopt, ExpireLocked, At, Publishing
    <3>3. CASE FinalizeEnter(t)
      <4>1. At(t, "fin.enter")
        BY <3>3, Zenon DEF FinalizeEnter
      <4> QED
        BY <4>1 DEF At, Publishing
    <3> QED
      BY <1>5, <3>1, <3>2, <3>3 DEF Run
  <2>2. \A i \in Cards : Held(i) => Held(i)'
    BY <1>3, <2>1, HeldKept
  <2>3. CASE \/ CreateEntity(t) \/ CreateCheck(t) \/ Drain(t)
             \/ ResumeEnter(t) \/ ResumeOk(t) \/ SteerNext(t)
             \/ SteerSilent(t) \/ OutputBegin(t)
    <3>1. UNCHANGED <<st, segs>>
      BY <2>3 DEF CreateEntity, CreateCheck, Drain, ResumeEnter, ResumeOk,
         SteerNext, SteerSilent, OutputBegin
    <3> QED
      BY <1>2, <2>2, <3>1, UnchangedStKept, LiveKept, SameLost DEF LossInv
  <2>4. CASE \/ SuspendLocked(t) \/ SteerBegin(t) \/ SteerEnd(t)
             \/ ResumeEnd(t) \/ OutputCommit(t) \/ FinalizeEnter(t)
             \/ FinalizeLocked(t) \/ FinalizeReturn(t) \/ ToolCheck(t)
             \/ ToolCommit(t) \/ Adopt(t)
    <3>1. Same
      BY <2>4, SteerSame, OutputSame
    <3>2. UNCHANGED segs /\ LiveCard' = LiveCard
      BY <3>1 DEF Same, LiveCard
    <3> QED
      BY <1>2, <2>2, <3>2, SameLost DEF LossInv
  <2>5. CASE \/ SuspendWrite(t) \/ FinalizeWrite(t) \/ ToolWrite(t)
             \/ ExpireLocked(t) \/ FallbackWrite(t)
    BY <1>2, <2>2, <2>5, WriteLost, ExpireLost, FallbackWriteColumn DEF LossInv
  <2> QED
    BY <1>5, <2>3, <2>4, <2>5 DEF Run
<1> QED
  BY <1>4, <1>5

\* A coroutine starts while nobody runs.
LEMMA CallerLoss ==
  ASSUME Given, LossInv, NEW t \in Tasks, Steps(t), task[t].pc = "idle",
         cpu = NoTask, UNCHANGED segs, StKept, st'.open = st.open,
         LiveCard' = LiveCard
  PROVE  LossInv'
<1>1. PICK r : Go(t, r) /\ r.pc # "ex.lock"
  BY DEF Steps
<1>2. May(t) /\ ~Publishing(t)
  BY DEF May, Acquiring, Publishing
<1>3. Queued' /\ Expiring'
  BY <1>1, <1>2, RunExpiring, KeptDrifts DEF LossInv
<1>4. \A u \in Tasks \ {t} : task'[u] = task[u]
  BY <1>1 DEF Go, Given, TypeOK
<1> QED
  BY <1>2, <1>3, <1>4, HeldKept, SameLost DEF LossInv

LEMMA StillLoss ==
  ASSUME Given, LossInv, UNCHANGED <<task, cpu, waiters, segs>>, StKept,
         st'.open = st.open, LiveCard' = LiveCard
  PROVE  LossInv'
<1>1. \A i \in Cards : Held(i) => Held(i)'
  BY DEF Held, Publishing
<1> QED
  BY <1>1, StillExpiring, SameLost DEF LossInv

LEMMA ExpireLoss ==
  ASSUME Given, LossInv, Expire
  PROVE  LossInv'
<1> DEFINE r == [Idle EXCEPT !.op = "expire", !.pc = "ex.lock"]
<1>1. Queued' /\ Expiring'
  BY ExpireExpiring DEF LossInv
<1>2. /\ "expirer" \in Tasks /\ task["expirer"].pc = "idle"
      /\ UNCHANGED <<st, segs>> /\ Go("expirer", r)
  BY TaskNames DEF Expire, Free
<1>3. \A u \in Tasks \ {"expirer"} : task'[u] = task[u]
  BY <1>2 DEF Go, Given, TypeOK
<1>4. ~Publishing("expirer")
  BY <1>2 DEF Publishing
<1> QED
  BY <1>1, <1>2, <1>3, <1>4, HeldKept, SameLost, UnchangedStKept, LiveKept
     DEF LossInv

\* A caller starts a coroutine and changes nothing else the cards depend on.
LEMMA GoLoss ==
  ASSUME Given, LossInv, NEW t \in Tasks, Free(t), NEW r, Go(t, r),
         r.pc # "ex.lock", UNCHANGED <<st, segs>>
  PROVE  LossInv'
<1>1. Steps(t)
  BY DEF Steps
<1>2. StKept /\ st'.open = st.open /\ LiveCard' = LiveCard
  BY UnchangedStKept, LiveKept
<1> QED
  BY <1>1, <1>2, CallerLoss DEF Free

LEMMA NothingLoss ==
  ASSUME Given, LossInv, UNCHANGED <<st, task, cpu, waiters, segs>>
  PROVE  LossInv'
<1>1. StKept /\ st'.open = st.open /\ LiveCard' = LiveCard
  BY UnchangedStKept, LiveKept
<1> QED
  BY <1>1, StillLoss

LEMMA StartLoss ==
  ASSUME Given, LossInv, DispatchStart
  PROVE  LossInv'
<1> DEFINE n == clock + 1
           r == [Idle EXCEPT !.op = "start", !.want = n, !.ret = "st.next"]
           q == [r EXCEPT !.pc = "cr.entity", !.ref = 0]
<1>1. UNCHANGED <<st, segs>> /\ Free("runner") /\ Go("runner", q)
  BY DEF DispatchStart, Create
<1> HIDE DEF n
<1>2. q.pc = "cr.entity"
  BY DEF Idle
<1> HIDE DEF q
<1> QED
  BY <1>1, <1>2, GoLoss, TaskNames

LEMMA ConsumerLoss ==
  ASSUME Given, LossInv, StreamDelta \/ FinalAnswer \/ Progress
  PROVE  LossInv'
<1>1. UNCHANGED <<st, segs>>
  BY DEF StreamDelta, FinalAnswer, Progress
<1>2. CASE UNCHANGED <<task, cpu, waiters>>
  BY <1>1, <1>2, NothingLoss
<1>3. ASSUME NEW t \in {"consumer", "notifier"}, NEW r, Free(t), Go(t, r),
             r.pc \in {"fin.enter", "rs.enter", "out.begin"}
      PROVE  LossInv'
  BY <1>1, <1>3, GoLoss, TaskNames
<1> QED
  BY <1>2, <1>3, ConsumerGoes

LEMMA ToolUpdateLoss ==
  ASSUME Given, LossInv, ToolUpdate
  PROVE  LossInv'
<1> DEFINE r(w) == [Idle EXCEPT !.op = "tool", !.tool = w, !.pc = "rs.enter"]
<1>1. \A w : r(w).pc = "rs.enter"
  BY DEF Idle
<1>2. UNCHANGED <<st, segs>> /\ \E w : Go("agent", r(w))
  BY DEF ToolUpdate
<1>3. Free("agent")
  BY DEF ToolUpdate, AgentTurn
<1> HIDE DEF r
<1> QED
  BY <1>1, <1>2, <1>3, GoLoss, TaskNames

LEMMA ShutDownLoss ==
  ASSUME Given, LossInv, ShutDown
  PROVE  LossInv'
<1> DEFINE r == [Idle EXCEPT !.op = "shutdown", !.pc = "fin.enter",
                             !.out = "stopped", !.text = Terminal("")]
<1>1. r.pc = "fin.enter"
  BY DEF Idle
<1>2. UNCHANGED <<st, segs>> /\ Free("closer") /\ Go("closer", r)
  BY DEF ShutDown
<1> HIDE DEF r
<1> QED
  BY <1>1, <1>2, GoLoss, TaskNames

LEMMA BoundaryLoss ==
  ASSUME Given, LossInv,
         NEW why \in {"artifact", "approval", "question"}, Boundary(why)
  PROVE  LossInv'
<1> DEFINE n == clock + 1
           r == [Idle EXCEPT !.op = "boundary", !.why = why, !.want = n]
           q == [r EXCEPT !.pc = "sus.quiet", !.ref = st.cur]
<1>1. /\ UNCHANGED <<st, segs>>
      /\ Suspend("agent", r) \/ UNCHANGED <<task, cpu, waiters>>
  BY DEF Boundary
<1>2. Free("agent")
  BY DEF Boundary, AgentTurn
<1> HIDE DEF n
<1>3. q.pc = "sus.quiet"
  BY DEF Idle
<1>4. Suspend("agent", r) => Go("agent", q)
  BY DEF Suspend
<1> HIDE DEF r, q
<1>5. CASE Suspend("agent", r)
  BY <1>1, <1>2, <1>3, <1>4, <1>5, GoLoss, TaskNames
<1>6. CASE UNCHANGED <<task, cpu, waiters>>
  BY <1>1, <1>6, NothingLoss
<1> QED
  BY <1>1, <1>5, <1>6

LEMMA SteerLoss ==
  ASSUME Given, LossInv, NEW t \in Steers, Steer(t)
  PROVE  LossInv'
<1> DEFINE n == clock + 1
           r(m, p) == [Idle EXCEPT !.op = m, !.want = n, !.pc = p]
<1>1. UNCHANGED <<st, segs>> /\ Free(t)
  BY DEF Steer, Given, Plain, Uncancelled, Late
<1>2. \E m, p : p \in {"st.begin", "st.silent"} /\ Go(t, r(m, p))
  <2>1. PICK m \in SteerModes :
          Go(t, r(m, IF m = "ack" THEN "st.begin" ELSE "st.silent"))
    BY DEF Steer, Given, Plain, Echoes
  <2> HIDE DEF r
  <2>2. CASE m = "ack"
    BY <2>1, <2>2
  <2>3. CASE m # "ack"
    BY <2>1, <2>3
  <2> QED
    BY <2>2, <2>3
<1> HIDE DEF n
<1>3. \A m, p : r(m, p).pc = p
  BY DEF Idle
<1> HIDE DEF r
<1> QED
  BY <1>1, <1>2, <1>3, GoLoss DEF Tasks

LEMMA CompleteLoss ==
  ASSUME Given, LossInv, Complete
  PROVE  LossInv'
<1> DEFINE r(x, y, z) == [Idle EXCEPT !.pc = "fin.enter", !.op = "complete",
                            !.saw = x, !.text = y, !.out = z]
<1>1. UNCHANGED segs /\ Free("runner")
  BY DEF Complete
<1>2. \/ UNCHANGED st /\ \E x, y, z : Go("runner", r(x, y, z))
      \/ UNCHANGED <<task, cpu, waiters>>
  BY DEF Complete
<1>3. \A x, y, z : r(x, y, z).pc = "fin.enter"
  BY DEF Idle
<1> HIDE DEF r
<1>4. ASSUME UNCHANGED st, NEW x, NEW y, NEW z, Go("runner", r(x, y, z))
      PROVE  LossInv'
  BY <1>1, <1>3, <1>4, GoLoss, TaskNames
<1>5. CASE UNCHANGED <<task, cpu, waiters>>
  <2>1. StKept /\ st'.open = st.open
    BY CompleteKept
  <2>2. LiveCard' = LiveCard
    <3>1. CASE ~st.routed \/ st.closed
      BY <3>1, CompleteKept, LiveKept
    <3>2. CASE ~st.open
      BY <2>1, <3>2 DEF LiveCard
    <3>3. CASE UNCHANGED st
      BY <3>3, UnchangedStKept, LiveKept
    <3> QED
      BY CompleteKept, <3>1, <3>2, <3>3
  <2> QED
    BY <1>1, <1>5, <2>1, <2>2, StillLoss
<1> QED
  BY <1>2, <1>4, <1>5

LEMMA FlushLoss ==
  ASSUME Given, LossInv, Flush
  PROVE  LossInv'
<1>1. PICK i \in 1..Len(ctl) : FlushFire(i) \/ FlushLocked(i) \/ FlushWrite(i)
  BY DEF Flush
<1>2. \A j \in Cards : UNCHANGED task => (Held(j) => Held(j)')
  BY DEF Held, Publishing
<1>3. CASE FlushFire(i) \/ FlushLocked(i)
  <2>1. UNCHANGED <<st, segs, task>> /\ cpu \in {NoTask, "flush"}
    BY <1>3 DEF FlushFire, FlushLocked
  <2>2. \/ UNCHANGED <<cpu, waiters>>
        \/ waiters' = Rest("flush") \/ waiters' = Append(waiters, "flush")
    <3>1. waiters = <<>> => Rest("flush") = <<>>
      BY DEF Rest
    <3>2. CASE FlushFire(i)
      <4>1. \/ UNCHANGED <<cpu, waiters>>
            \/ cpu' = IF lock = NoTask /\ waiters = <<>> THEN "flush"
                      ELSE NoTask
        BY <3>2 DEF FlushFire
      <4>2. \/ UNCHANGED <<cpu, waiters>>
            \/ waiters' = IF cpu' = "flush" THEN <<>>
                          ELSE Append(waiters, "flush")
        BY <3>2 DEF FlushFire
      <4>3. NoTask # "flush"
        BY DEF NoTask
      <4> QED
        BY <3>1, <4>1, <4>2, <4>3
    <3>3. CASE FlushLocked(i)
      BY <3>3 DEF FlushLocked
    <3> QED
      BY <1>3, <3>2, <3>3
  <2>3. Queued' /\ Expiring'
    <3>1. StKept /\ StOpen
      BY <2>1, UnchangedStKept
    <3>2. CASE UNCHANGED <<cpu, waiters>>
      BY <2>1, <3>1, <3>2, StillExpiring DEF LossInv, StOpen
    <3>3. CASE waiters' \in {Rest("flush"), Append(waiters, "flush")}
      BY <2>1, <3>3, FlushExpiring DEF LossInv
    <3> QED
      BY <2>2, <3>2, <3>3
  <2> QED
    BY <1>2, <2>1, <2>3, UnchangedStKept, LiveKept, SameLost DEF LossInv
<1>4. CASE FlushWrite(i)
  <2>1. StKept /\ StOpen
    BY <1>4, FlushWriteKept
  <2>2. UNCHANGED <<task, cpu, waiters>>
    BY <1>4 DEF FlushWrite
  <2>3. Flushing(i)
    BY <1>4 DEF FlushWrite, Flushing
  <2>4. st.cur # 0 /\ st.open /\ ~st.closed
    <3>1. st.open
      BY <2>3 DEF Given, BoundaryInv, FlushesBelow
    <3>2. ~st.closed
      BY <2>3 DEF Given, ColumnInv, FlushesOpen, Flushing
    <3> QED
      BY <2>3, <3>1, <3>2 DEF Given, BoundaryInv, FlushesBelow
  <2>5. st.cur \in Cards /\ LiveCard = st.cur
    <3>1. st.cur \in Nat /\ st.cur <= Len(segs) /\ Len(segs) \in Nat
      BY DEF Given, TypeOK, States, WritesInv, CurrentStreams
    <3> QED
      BY <2>4, <3>1 DEF LiveCard, Cards
  <2>6. \E c : segs' = [segs EXCEPT ![st.cur] = c]
    BY <1>4, NoFailure DEF FlushWrite
  <2>7. LiveCard' = LiveCard
    BY <2>1, LiveKept
  <2>8. Queued' /\ Expiring'
    BY <2>1, <2>2, StillExpiring DEF LossInv, StOpen
  <2> QED
    BY <1>2, <2>2, <2>5, <2>6, <2>7, <2>8, EditLost DEF LossInv, Given
<1> QED
  BY <1>1, <1>3, <1>4

LEMMA NextLoss ==
  ASSUME Given, LossInv, [Next]_vars, Replaces, MaxDispatch <= 1
  PROVE  LossInv'
<1>1. ASSUME NEW t \in Tasks, Run(t)
      PROVE  LossInv'
  BY <1>1, RunLoss
<1>2. ASSUME NEW t \in Steers,
             Steer(t) \/ CancelSteer(t) \/ LateCall(t)
      PROVE  LossInv'
  BY <1>2, SteerLoss, NoCancel
<1>3. ASSUME NEW w \in {"artifact", "approval", "question"}, Boundary(w)
      PROVE  LossInv'
  BY <1>3, BoundaryLoss
<1>4. CASE DispatchStart \/ DispatchContinue \/ Complete
  BY <1>4, StartLoss, OneDispatch, CompleteLoss
<1>5. CASE \/ StreamDelta \/ FinalAnswer \/ Progress \/ ToolUpdate
           \/ ShutDown \/ Expire
  BY <1>5, ConsumerLoss, ToolUpdateLoss, ShutDownLoss, ExpireLoss
<1>6. CASE MarkTerminal
  <2>1. UNCHANGED <<task, cpu, waiters, segs>> /\ StKept /\ StOpen
    BY <1>6 DEF MarkTerminal, StKept, StOpen, Given, TypeOK, States
  <2> QED
    BY <2>1, LiveKept, StillLoss DEF StOpen
<1>7. CASE Flush
  BY <1>7, FlushLoss
<1>8. CASE Done \/ UNCHANGED vars
  <2>1. UNCHANGED <<st, task, cpu, waiters, segs>>
    BY <1>8 DEF Done, vars
  <2> QED
    BY <2>1, UnchangedStKept, LiveKept, StillLoss
<1> QED
  BY <1>1, <1>2, <1>3, <1>4, <1>5, <1>6, <1>7, <1>8 DEF Next

LEMMA InitLoss == Init => LossInv
<1> SUFFICES ASSUME Init
             PROVE  LossInv
  OBVIOUS
<1>1. segs = <<>> /\ waiters = <<>>
  BY DEF Init
<1>2. \A t \in Tasks : task[t].pc = "idle"
  BY DEF Init, Idle
<1> QED
  BY <1>1, <1>2 DEF LossInv, NoneLost, Cards, Queued, Expiring

\* When one dispatch ends whose calls succeeded and whose steers were neither
\* cancelled nor synthetic, no card is left that still says it is streaming,
\* except the open segment of a turn that goes on: a card that came too late is
\* retired, and none is closed unseen by a question that expires while a
\* creation commits.
THEOREM NothingOrphaned ==
  MaxDispatch <= 1 /\ ~MayCancel /\ ~MayEcho => (Spec => []NoOrphan)
<1> SUFFICES ASSUME MaxDispatch <= 1 /\ ~MayCancel /\ ~MayEcho
             PROVE  Spec => []NoOrphan
  OBVIOUS
<1>1. Init => (FaultFree => LossInv)
  BY InitLoss
<1>2. Spec => []BoundaryInv
  BY BoundariesInvariant DEF Plain, Uncancelled
<1>3. Spec => [](FaultFree => ColumnInv)
  BY ColumnInvariant DEF Plain, Uncancelled, Echoes
<1>4. TypeOK /\ WritesInv /\ BoundaryInv /\ (FaultFree => ColumnInv)
        /\ (FaultFree => LossInv) /\ [Next]_vars => (FaultFree => LossInv)'
  <2> SUFFICES ASSUME TypeOK, WritesInv, BoundaryInv, FaultFree => ColumnInv,
                      FaultFree => LossInv, [Next]_vars, FaultFree'
               PROVE  LossInv'
    OBVIOUS
  <2>1. Given
    BY NextColumn DEF Plain, Uncancelled, Echoes
  <2>2. LossInv
    BY <2>1 DEF Given
  <2>3. Replaces
    BY NextBoundary
  <2> QED
    BY <2>1, <2>2, <2>3, NextLoss
<1>5. TypeOK /\ (FaultFree => LossInv) => NoOrphan
  <2> SUFFICES ASSUME TypeOK, LossInv, Quiescent, NEW i \in Cards,
                      segs[i].status = "streaming"
               PROVE  i = st.cur /\ st.open /\ ~st.closed
    BY DEF NoOrphan
  <2>1. ~Held(i)
    BY DEF Held, Publishing, Quiescent
  <2>2. i = LiveCard /\ i # 0
    BY <2>1 DEF LossInv, NoneLost, Cards, TypeOK
  <2> QED
    BY <2>2 DEF LiveCard
<1> QED
  BY <1>1, <1>2, <1>3, <1>4, <1>5, TypeCorrect, WritesGuarded, PTL DEF Spec

-----------------------------------------------------------------------------
(* The end of one dispatch that is not steered, ends well and gets its answer *)
(* with send                                                               *)

\* r creates the segment it resumes with.
Creating(r) == r.pc \in Making \cup {"rs.end"} /\ r.ret = "rs.end"

\* The turn may end as it is: it has a segment to write to, or waits for the
\* answer to a question.
Ready(s) == s.closed \/ s.open \/ s.reason = "question"

\* The dispatch is over, and only one that ends well may be.
Over(d) == d.phase = "idle" /\ d.count > 0 /\ Endings \subseteq {"success"}

StateRests(s, d) ==
  /\ d.final => d.marked
  /\ d.phase = "active" => s.closed \/ s.routed
  /\ d.phase # "idle" => d.count > 0
  /\ ~s.open /\ ~s.closed => s.reason \in {"artifact", "approval", "question"}
  /\ Over(d) => d.marked

\* The agent sets no boundary once its run is over.
AgentRests(r, s, d) ==
  /\ d.marked => r.pc = "idle"
  /\ r.pc = "sus.write" => s.reason = r.why

\* The answer is delivered during the dispatch, and makes sure of a segment.
ConsumerRests(r, s, d) ==
  /\ d.phase # "active" => r.pc = "idle"
  /\ d.phase = "active" /\ d.final =>
       \/ Ready(s)
       \/ r.pc \in {"rs.enter", "out.begin"}
       \/ Creating(r) /\ ~GivenUp(r, s)

\* The dispatch closes the turn at its end, unless a question suspended it.
RunnerRests(r, s, d) ==
  /\ r.op = "start" =>
       /\ d.phase = "starting" /\ ~d.final
       /\ r.pc = "st.next" => s.closed \/ s.routed
  /\ r.op = "complete" => d.phase = "idle" /\ d.count > 0
  /\ Over(d) =>
       IF r.op = "complete" /\ r.pc # "fin.ret" THEN s.closed \/ s.open
       ELSE s.closed \/ (~s.open /\ s.reason = "question")

\* The inductive invariant of the end of the dispatch.
EndsInv ==
  /\ StateRests(st, disp)
  /\ AgentRests(task["agent"], st, disp)
  /\ ConsumerRests(task["consumer"], st, disp)
  /\ RunnerRests(task["runner"], st, disp)
  /\ task["closer"].pc = "idle"

\* What the steps of that dispatch start from.
Rests ==
  /\ Given /\ ColumnInv' /\ RolesInv /\ RolesInv' /\ EndsInv
  /\ ~MayShutDown /\ FinalWays \subseteq {"send"}

-----------------------------------------------------------------------------
(* Steps that leave the dispatch where it is *)

\* The dispatch is where it was.
Marks ==
  /\ disp'.phase = disp.phase /\ disp'.count = disp.count
  /\ disp'.marked = disp.marked /\ disp'.final = disp.final

\* The turn is closed, or its segment and its boundary are what they were.
Lulls ==
  /\ st'.reason = st.reason
  /\ \/ st'.closed
     \/ /\ st'.closed = st.closed /\ st'.open = st.open
        /\ st'.anchor = st.anchor
        /\ st'.routed = st.routed \/ disp.phase = "idle"

LEMMA LullRests ==
  ASSUME Rests, Marks, Lulls
  PROVE  /\ StateRests(st', disp')
         /\ \A r : AgentRests(r, st, disp) => AgentRests(r, st', disp')
         /\ \A r : ConsumerRests(r, st, disp) => ConsumerRests(r, st', disp')
         /\ \A r : RunnerRests(r, st, disp) => RunnerRests(r, st', disp')
         /\ Ready(st) => Ready(st')
<1> USE DEF Marks, Lulls, Ready, Over
<1>1. StateRests(st', disp')
  BY DEF Rests, EndsInv, StateRests
<1>2. ASSUME NEW r, AgentRests(r, st, disp)
      PROVE  AgentRests(r, st', disp')
  BY <1>2 DEF AgentRests
<1>3. ASSUME NEW r, ConsumerRests(r, st, disp)
      PROVE  ConsumerRests(r, st', disp')
  BY <1>3 DEF ConsumerRests, GivenUp
<1>4. ASSUME NEW r, RunnerRests(r, st, disp)
      PROVE  RunnerRests(r, st', disp')
  BY <1>4 DEF RunnerRests
<1> QED
  BY <1>1, <1>2, <1>3, <1>4

LEMMA LullEnds ==
  ASSUME Rests, Marks, Lulls, NEW t \in Tasks,
         \A u \in Tasks \ {t} : task'[u] = task[u],
         t = "agent" => AgentRests(task'[t], st', disp'),
         t = "consumer" => ConsumerRests(task'[t], st', disp'),
         t = "runner" => RunnerRests(task'[t], st', disp'),
         t # "closer"
  PROVE  EndsInv'
BY LullRests, TaskNames DEF Rests, EndsInv

\* A step of t past the points where the answer looks for a segment, other
\* than the end of a finalize.
LEMMA PassEnds ==
  ASSUME Rests, Marks, Lulls, NEW t \in Tasks,
         \A u \in Tasks \ {t} : task'[u] = task[u],
         task[t].pc \notin {"idle", "rs.enter", "out.begin", "fin.ret"},
         ~Creating(task[t]), task'[t].pc # "sus.write",
         task'[t].op \in {task[t].op, "none"},
         task[t].op = "start"
           => task'[t].op = "start" /\ task'[t].pc # "st.next",
         task[t].op = "complete"
           => \/ task'[t].op = "complete" /\ task'[t].pc # "fin.ret"
              \/ st'.closed \/ ~Over(disp)
  PROVE  EndsInv'
<1>1. ~disp'.marked \/ t # "agent"
  BY DEF Rests, EndsInv, AgentRests, Marks
<1>2. t = "agent" => AgentRests(task'[t], st', disp')
  BY <1>1 DEF AgentRests
<1>3. t = "consumer" => ConsumerRests(task'[t], st', disp')
  <2>1. t = "consumer" => disp.phase = "active" /\ (disp.final => Ready(st))
    BY DEF Rests, EndsInv, ConsumerRests
  <2> QED
    BY <2>1, LullRests DEF ConsumerRests, Marks
<1>4. t = "runner" => RunnerRests(task'[t], st', disp')
  <2>1. t = "runner" => task[t].op \in {"start", "complete"}
    BY DEF Rests, RolesInv, Doing
  <2>2. RunnerRests(task["runner"], st, disp)
        /\ RunnerRests(task["runner"], st', disp')
    BY LullRests DEF Rests, EndsInv
  <2>3. CASE t = "runner" /\ task[t].op = "start"
    BY <2>2, <2>3 DEF RunnerRests
  <2>4. CASE t = "runner" /\ task[t].op = "complete"
    BY <2>2, <2>4 DEF Over, Marks, RunnerRests
  <2> QED
    BY <2>1, <2>3, <2>4
<1>5. t # "closer"
  BY DEF Rests, EndsInv
<1> QED
  BY <1>2, <1>3, <1>4, <1>5, LullEnds

-----------------------------------------------------------------------------
(* Where a coroutine goes *)

LEMMA GoTask ==
  ASSUME TypeOK, NEW t \in Tasks, NEW r, Go(t, r)
  PROVE  task'[t] = r /\ \A u \in Tasks \ {t} : task'[u] = task[u]
<1>1. task' = [task EXCEPT ![t] = r] /\ task \in [Tasks -> Coroutines]
  BY DEF Go, TypeOK
<1> QED
  BY <1>1

LEMMA FinishMarks ==
  ASSUME Rests, NEW t \in Tasks, NEW ok, Finish(t, ok)
  PROVE  Marks /\ task'[t] = Idle
<1>1. task[t].op # "ack" /\ TypeOK
  BY NoSteering DEF Rests, Given
<1>2. Go(t, Idle)
  BY <1>1 DEF Finish
<1>3. Marks
  BY <1>1 DEF Finish, Marks, TypeOK, Dispatches
<1> QED
  BY <1>1, <1>2, <1>3, GoTask

LEMMA StillMarks ==
  ASSUME UNCHANGED disp
  PROVE  Marks
BY DEF Marks

LEMMA StillLulls ==
  ASSUME UNCHANGED st
  PROVE  Lulls
BY DEF Lulls

\* r creates the segment that q does.
SameSegment(r, q) == r.op = q.op /\ r.ret = q.ret /\ r.expect = q.expect

LEMMA CreatedGoes ==
  ASSUME TypeOK, NEW t \in Tasks, NEW ok, Created(t, ok)
  PROVE  /\ SameSegment(task'[t], task[t])
         /\ task'[t].pc = IF ok /\ task[t].ret = "rs.end" THEN "rs.ok"
                          ELSE task[t].ret
<1> DEFINE p == IF ok /\ task[t].ret = "rs.end" THEN "rs.ok" ELSE task[t].ret
           r == [task[t] EXCEPT !.res = ok, !.pc = p]
<1>1. r.pc = p /\ SameSegment(r, task[t])
  BY DEF TypeOK, Coroutines, SameSegment
<1>2. Go(t, r)
  BY DEF Created
<1> HIDE DEF r
<1>3. task'[t] = r
  BY <1>2, GoTask
<1> QED
  BY <1>1, <1>3

LEMMA ToGoes ==
  ASSUME TypeOK, NEW t \in Tasks, NEW p, Go(t, To(t, p))
  PROVE  /\ SameSegment(task'[t], task[t]) /\ task'[t].pc = p
         /\ task'[t].why = task[t].why /\ task'[t].text = task[t].text
BY GoTask, ToFields, ToSameCall DEF SameSegment, SameCall

-----------------------------------------------------------------------------
(* Creations *)

\* What creates a segment that is not given up goes on to its commit.
LEMMA CreatingEnds ==
  ASSUME Rests, NEW t \in Tasks,
         CreateEntity(t) \/ CreateCheck(t) \/ CreateSend(t)
  PROVE  EndsInv'
<1> DEFINE q == [To(t, "cr.commit") EXCEPT !.ref = Len(segs')]
<1>1. TypeOK /\ BoundaryInv /\ Acts(t)
  BY CreateEntityActs DEF Rests, Given
<1>2. /\ task[t].pc \in Creations /\ UNCHANGED <<st, disp>>
      /\ \/ \E p \in Creations : Go(t, To(t, p))
         \/ Go(t, q)
         \/ /\ task[t].pc = "cr.check" /\ Created(t, FALSE)
            /\ ~BoundaryCurrent(task[t].expect)
  <2>1. CASE CreateEntity(t)
    BY <2>1, NoFailure DEF CreateEntity, At, Creations, Rests
  <2>2. CASE CreateCheck(t)
    BY <2>2 DEF CreateCheck, At, Creations
  <2>3. CASE CreateSend(t)
    BY <2>3, NoFailure DEF CreateSend, At, Creations, Rests
  <2> QED
    BY <2>1, <2>2, <2>3
<1>3. q.pc = "cr.commit" /\ SameSegment(q, task[t])
  BY <1>1 DEF TypeOK, To, Coroutines, SameSegment
<1> HIDE DEF q
<1>4. /\ SameSegment(task'[t], task[t])
      /\ \/ task'[t].pc \in Creations
         \/ /\ task'[t].pc = "rs.end" /\ GivenUp(task[t], st)
            /\ task[t].ret = "rs.end"
  <2>1. CASE \E p \in Creations : Go(t, To(t, p))
    BY <1>1, <2>1, ToGoes
  <2>2. CASE Go(t, q)
    BY <1>1, <1>3, <2>2, GoTask DEF Creations
  <2>3. CASE /\ task[t].pc = "cr.check" /\ Created(t, FALSE)
             /\ ~BoundaryCurrent(task[t].expect)
    <3>1. task[t].ret = "rs.end"
      BY <2>3 DEF Rests, RolesInv, Doing, Resumes, Resuming, Finalizing,
         Suspensions
    <3> QED
      BY <1>1, <2>3, <3>1, CreatedGoes DEF BoundaryCurrent, GivenUp
  <2> QED
    BY <1>2, <2>1, <2>2, <2>3
<1>5. task[t].pc \notin {"idle", "rs.enter", "out.begin", "fin.ret"}
      /\ task'[t].pc \notin {"sus.write", "st.next"}
  BY <1>2, <1>4 DEF Creations
<1>6. task[t].op # "complete"
  BY <1>2 DEF Rests, RolesInv, Doing, Finalizing, Creations
<1>7. CASE ~Creating(task[t])
  BY <1>1, <1>2, <1>4, <1>5, <1>6, <1>7, StillMarks, StillLulls, PassEnds
     DEF SameSegment, Acts
<1>8. CASE Creating(task[t])
  <2>1. GivenUp(task'[t], st') <=> GivenUp(task[t], st)
    BY <1>2, <1>4 DEF SameSegment, GivenUp
  <2>2. Creating(task'[t])
    BY <1>4, <1>8 DEF Creating, SameSegment, Making
  <2>3. t = "consumer" => ConsumerRests(task'[t], st', disp')
    BY <1>2, <1>4, <1>5, <2>1, <2>2
       DEF Rests, EndsInv, ConsumerRests, SameSegment
  <2>4. t \notin {"runner", "closer"}
    BY <1>2, <1>8 DEF Rests, RolesInv, Doing, Creating, Finalizing, Creations
  <2>5. t = "agent" => AgentRests(task'[t], st', disp')
    BY <1>2, <1>5 DEF Rests, EndsInv, AgentRests
  <2> QED
    BY <1>1, <1>2, <2>3, <2>4, <2>5, StillMarks, StillLulls, LullEnds DEF Acts
<1> QED
  BY <1>7, <1>8

\* The commit of a segment, or what retires it.
LEMMA CommitEnds ==
  ASSUME Rests, NEW t \in Tasks, CreateCommit(t) \/ RetireWrite(t)
  PROVE  EndsInv'
<1> DEFINE a == IF task[t].ret = "rs.end" THEN st.active ELSE t
<1>1. TypeOK /\ WritesInv /\ Acts(t) /\ Apt(task[t], st, clock)
  BY CreateCommitActs DEF Rests, Given, ColumnInv, AllApt
<1>2. /\ task[t].pc \in Making /\ UNCHANGED disp /\ Marks
      /\ \/ /\ UNCHANGED st /\ GivenUp(task[t], st) /\ task[t].ret = "rs.end"
            /\ Created(t, FALSE) \/ Go(t, To(t, "rt.write"))
         \/ /\ st' = Opened(st, task[t].ref, a) /\ Created(t, TRUE)
            /\ task[t].ret = "st.next" \/ BoundaryCurrent(task[t].expect)
            /\ task[t].pc = "cr.commit" /\ lock = NoTask
  <2>1. CASE CreateCommit(t)
    <3>1. task[t].pc = "cr.commit"
      BY <2>1 DEF CreateCommit, At
    <3>2. task[t].ret \in {"st.next", "rs.end"}
      BY <3>1 DEF Rests, RolesInv, Doing, Resumes, Resuming, Finalizing,
         Suspensions
    <3> QED
      BY <2>1, <3>1, <3>2, StillMarks DEF CreateCommit, MayLock, Making,
         Creations, BoundaryCurrent, GivenUp
  <2>2. CASE RetireWrite(t)
    <3>1. task[t].pc = "rt.write"
      BY <2>2 DEF RetireWrite, At
    <3>2. task[t].ret = "rs.end"
      BY <3>1 DEF Rests, RolesInv, Doing, Resumes, Resuming, Finalizing,
         Suspensions
    <3> QED
      BY <1>1, <2>2, <3>1, <3>2, StillMarks DEF RetireWrite, Making, Apt
  <2> QED
    BY <2>1, <2>2
<1>3. /\ Opened(st, task[t].ref, a).open /\ Opened(st, task[t].ref, a).routed
      /\ ~Opened(st, task[t].ref, a).closed
  BY DEF Opened, NewState
<1> HIDE DEF a
<1>4. CASE /\ UNCHANGED st /\ GivenUp(task[t], st) /\ task[t].ret = "rs.end"
           /\ Created(t, FALSE) \/ Go(t, To(t, "rt.write"))
  <2>1. /\ task'[t].op = task[t].op /\ task'[t].pc \in {"rs.end", "rt.write"}
    BY <1>1, <1>4, CreatedGoes, ToGoes DEF SameSegment
  <2>2. t \notin {"runner", "closer"} /\ task[t].pc # "idle"
    BY <1>2, <1>4 DEF Rests, RolesInv, Doing, Making, Creations, Finalizing
  <2>3. t = "agent" => AgentRests(task'[t], st', disp')
    BY <1>2, <2>1, <2>2 DEF Rests, EndsInv, AgentRests
  <2>4. t = "consumer" => ConsumerRests(task'[t], st', disp')
    BY <1>2, <1>4, <2>2 DEF Rests, EndsInv, ConsumerRests, Making, Creations,
       Ready
  <2> QED
    BY <1>1, <1>2, <1>4, <2>2, <2>3, <2>4, StillLulls, LullEnds DEF Acts
<1>5. CASE /\ st' = Opened(st, task[t].ref, a) /\ Created(t, TRUE)
           /\ task[t].ret = "st.next" \/ BoundaryCurrent(task[t].expect)
           /\ task[t].pc = "cr.commit" /\ lock = NoTask
  <2>1. st'.open /\ st'.routed /\ ~st'.closed
    BY <1>3, <1>5
  <2>2. /\ \A u \in Tasks \ {t} : task'[u] = task[u]
        /\ task'[t].op = task[t].op
        /\ task'[t].pc = IF task[t].ret = "rs.end" THEN "rs.ok" ELSE task[t].ret
    BY <1>1, <1>5, CreatedGoes DEF Acts, SameSegment
  <2>3. /\ task[t].ret = "rs.end" => t \notin {"runner", "closer"}
        /\ task[t].ret # "rs.end"
             => t = "runner" /\ task[t].op = "start" /\ task[t].ret = "st.next"
    BY <1>5 DEF Rests, RolesInv, Doing, Resumes, Resuming, Finalizing,
       Suspensions
  <2>4. StateRests(st', disp')
    BY <1>2, <2>1 DEF Rests, EndsInv, StateRests
  <2>5. AgentRests(task'["agent"], st', disp')
    <3>1. CASE t = "agent"
      BY <1>2, <1>5, <2>2, <2>3, <3>1, TaskNames
         DEF Rests, EndsInv, AgentRests, Making, Creations
    <3>2. CASE t # "agent"
      <4>1. task["agent"].pc # "sus.write"
        BY <1>1, <1>5, TaskNames DEF WritesInv, WriterHasLock, Writing
      <4> QED
        BY <1>2, <2>2, <3>2, <4>1, TaskNames DEF Rests, EndsInv, AgentRests
    <3> QED
      BY <3>1, <3>2
  <2>6. ConsumerRests(task'["consumer"], st', disp')
    BY <1>2, <1>5, <2>1, <2>2, TaskNames
       DEF Rests, EndsInv, ConsumerRests, Ready
  <2>7. RunnerRests(task'["runner"], st', disp')
    <3>1. CASE task[t].ret # "rs.end"
      BY <1>2, <2>1, <2>2, <2>3, <3>1 DEF Over, Rests, EndsInv, RunnerRests
    <3>2. CASE task[t].ret = "rs.end"
      <4>1. Seeks(task[t]) /\ ~GivenUp(task[t], st)
        BY <1>2, <1>5, <3>2 DEF Seeks, BoundaryCurrent, GivenUp
      <4>2. ~st.closed /\ st.reason # "question"
        BY <1>1, <1>5, <4>1 DEF Apt, GivenUp, Creations
      <4> QED
        BY <1>2, <2>1, <2>2, <2>3, <3>2, <4>2, TaskNames
           DEF Rests, EndsInv, RunnerRests
    <3> QED
      BY <3>1, <3>2
  <2>8. task'["closer"].pc = "idle"
    BY <2>2, <2>3, TaskNames DEF Rests, EndsInv
  <2> QED
    BY <2>4, <2>5, <2>6, <2>7, <2>8 DEF EndsInv
<1> QED
  BY <1>2, <1>4, <1>5

-----------------------------------------------------------------------------
(* Boundaries *)

LEMMA DrainEnds ==
  ASSUME Rests, NEW t \in Tasks, Drain(t)
  PROVE  EndsInv'
<1>1. TypeOK /\ Acts(t)
  BY DrainActs DEF Rests, Given
<1>2. /\ UNCHANGED <<st, disp>> /\ task[t].pc \in {"sus.quiet", "fin.quiet"}
      /\ \E p \in {"sus.lock", "fin.lock"} : Go(t, To(t, p))
  BY DEF Drain, At
<1>3. task'[t].op = task[t].op /\ task'[t].pc \in {"sus.lock", "fin.lock"}
  BY <1>1, <1>2, ToGoes DEF SameSegment
<1>4. ~Creating(task[t])
  BY <1>2 DEF Creating, Making, Creations
<1> QED
  BY <1>1, <1>2, <1>3, <1>4, StillMarks, StillLulls, PassEnds
     DEF Acts

\* The agent sets a boundary before its run is over: nobody delivers the answer
\* or ends the dispatch.
LEMMA BoundaryEnds ==
  ASSUME Rests, Marks, task["agent"].pc # "idle",
         \A u \in Tasks \ {"agent"} : task'[u] = task[u],
         st'.closed = st.closed, st'.routed = st.routed,
         st'.reason \in {"artifact", "approval", "question"},
         task'["agent"].pc = "sus.write" => st'.reason = task'["agent"].why
  PROVE  EndsInv'
<1>1. ~disp.marked /\ ~disp.final /\ ~Over(disp)
  BY DEF Rests, EndsInv, StateRests, AgentRests
<1>2. StateRests(st', disp') /\ AgentRests(task'["agent"], st', disp')
  BY <1>1 DEF Over, Rests, EndsInv, StateRests, AgentRests, Marks
<1>3. /\ task'["consumer"] = task["consumer"]
      /\ task'["runner"] = task["runner"] /\ task'["closer"] = task["closer"]
  BY TaskNames
<1>4. ConsumerRests(task'["consumer"], st', disp')
  BY <1>1, <1>3 DEF Rests, EndsInv, ConsumerRests, Marks
<1>5. RunnerRests(task'["runner"], st', disp')
  BY <1>1, <1>3 DEF Over, Rests, EndsInv, RunnerRests, Marks
<1> QED
  BY <1>2, <1>3, <1>4, <1>5 DEF Rests, EndsInv

\* The agent's freeze goes on with its write, or is over.
LEMMA SuspendedGoes ==
  ASSUME Rests, NEW t \in Tasks, Suspended(t), task[t].ret # "cr.entity"
  PROVE  Marks /\ task'[t].pc = "idle" /\ task'[t].op = "none"
<1>1. Finish(t, TRUE)
  BY DEF Suspended
<1>2. Idle.pc = "idle" /\ Idle.op = "none"
  BY DEF Idle
<1> QED
  BY <1>1, <1>2, FinishMarks

LEMMA SuspendLockedEnds ==
  ASSUME Rests, NEW t \in Tasks, SuspendLocked(t)
  PROVE  EndsInv'
<1> DEFINE s == Anchored(st, task[t].want, task[t].why)
           q(w) == [s EXCEPT !.tool = w]
<1>1. /\ TypeOK /\ Acts(t) /\ task[t].pc = "sus.lock"
  BY SuspendLockedActs DEF Rests, Given, SuspendLocked, At
<1>2. /\ t = "agent" /\ task[t].op = "boundary" /\ task[t].ret = "idle"
      /\ task[t].why \in {"artifact", "approval", "question"}
  BY <1>1 DEF Rests, RolesInv, Doing, Resumes, Resuming, Making, Creations,
     Finalizing
<1>3. \/ UNCHANGED st /\ Suspended(t)
      \/ st' = s /\ Suspended(t)
      \/ /\ Go(t, To(t, "sus.write")) /\ UNCHANGED disp
         /\ st' = s \/ \E w : st' = q(w)
  BY DEF SuspendLocked
<1>4. s \in States /\ s.closed = st.closed /\ s.routed = st.routed
      /\ s.reason = task[t].why
  <2>1. st \in States /\ task[t].want \in Nat /\ task[t].why \in Reasons
    BY <1>1 DEF TypeOK, Coroutines
  <2>2. s \in States
    BY <2>1, AnchoredType
  <2>3. s.closed = st.closed /\ s.routed = st.routed /\ s.reason = task[t].why
    BY <2>1 DEF Anchored, States
  <2> QED
    BY <2>2, <2>3
<1>5. \A w : /\ q(w).closed = s.closed /\ q(w).routed = s.routed
             /\ q(w).reason = s.reason
  BY <1>4 DEF States
<1> HIDE DEF s, q
<1>6. CASE UNCHANGED st /\ Suspended(t)
  <2>1. Marks /\ task'[t].pc = "idle" /\ task'[t].op = "none"
    BY <1>2, <1>6, SuspendedGoes
  <2>2. ~Creating(task[t])
    BY <1>1 DEF Creating, Making, Creations
  <2> QED
    BY <1>1, <1>2, <1>6, <2>1, <2>2, StillLulls, PassEnds DEF Acts
<1>7. CASE st' = s \/ \E w : st' = q(w)
  <2>1. /\ st'.closed = st.closed /\ st'.routed = st.routed
        /\ st'.reason = task[t].why
    BY <1>4, <1>5, <1>7
  <2>2. Marks /\ (task'[t].pc = "sus.write" => task'[t].why = task[t].why)
    BY <1>1, <1>2, <1>3, SuspendedGoes, StillMarks, ToGoes
  <2> QED
    BY <1>1, <1>2, <2>1, <2>2, BoundaryEnds DEF Acts
<1> QED
  BY <1>3, <1>6, <1>7

LEMMA SuspendWriteEnds ==
  ASSUME Rests, NEW t \in Tasks, SuspendWrite(t)
  PROVE  EndsInv'
<1>1. /\ TypeOK /\ Acts(t) /\ task[t].pc = "sus.write" /\ Suspended(t)
  BY SuspendWriteActs DEF Rests, Given, SuspendWrite, At
<1>2. /\ t = "agent" /\ task[t].ret = "idle"
      /\ task[t].why \in {"artifact", "approval", "question"}
  BY <1>1 DEF Rests, RolesInv, Doing, Resumes, Resuming, Making, Creations,
     Finalizing
<1>3. st.reason = task[t].why
  BY <1>1, <1>2 DEF Rests, EndsInv, AgentRests
<1>4. \E x : st' = Frozen(st, x)
  BY NoFailure DEF SuspendWrite, Rests
<1>5. /\ st'.closed = st.closed /\ st'.routed = st.routed
      /\ st'.reason = st.reason
  BY <1>1, <1>4 DEF Frozen, TypeOK, States
<1>6. Marks /\ task'[t].pc = "idle"
  BY <1>1, <1>2, SuspendedGoes
<1> QED
  BY <1>1, <1>2, <1>3, <1>5, <1>6, BoundaryEnds DEF Acts

-----------------------------------------------------------------------------
(* Resuming *)

\* A resume that is over: the answer has its segment, or finds the turn closed
\* or suspended by a question.
LEMMA ResumedEnds ==
  ASSUME Rests, NEW t \in Tasks, NEW ok \in BOOLEAN, AfterResume(t, ok),
         task[t].pc \in Resuming, UNCHANGED st, Acts(t),
         t = "consumer" /\ disp.final => Ready(st)
  PROVE  EndsInv'
<1>1. TypeOK /\ st'.reason # "fallback"
  BY DEF Rests, Given, ColumnInv
<1>2. \/ Finish(t, TRUE)
      \/ /\ UNCHANGED disp
         /\ \E p \in {"tool.commit", "tool.check", "fin.enter", "out.commit"} :
              Go(t, To(t, p))
  BY <1>1 DEF AfterResume
<1>3. Marks /\ task'[t].pc # "sus.write"
  <2>1. CASE Finish(t, TRUE)
    <3>1. Idle.pc = "idle"
      BY DEF Idle
    <3> QED
      BY <2>1, <3>1, FinishMarks
  <2>2. ASSUME NEW p \in {"tool.commit", "tool.check", "fin.enter",
                          "out.commit"},
               Go(t, To(t, p)), UNCHANGED disp
        PROVE  Marks /\ task'[t].pc # "sus.write"
    BY <1>1, <2>2, StillMarks, ToGoes
  <2> QED
    BY <1>2, <2>1, <2>2
<1>4. t \notin {"runner", "closer"} /\ task[t].pc # "idle"
  BY DEF Rests, RolesInv, Doing, Resuming, Finalizing
<1>5. t = "agent" => AgentRests(task'[t], st', disp')
  BY <1>3, <1>4 DEF Rests, EndsInv, AgentRests, Marks
<1>6. t = "consumer" => ConsumerRests(task'[t], st', disp')
  BY <1>3, <1>4 DEF Rests, EndsInv, ConsumerRests, Marks
<1> QED
  BY <1>3, <1>4, <1>5, <1>6, StillLulls, LullEnds DEF Acts

LEMMA ResumeEnds ==
  ASSUME Rests, NEW t \in Tasks, ResumeOk(t) \/ ResumeEnd(t)
  PROVE  EndsInv'
<1>1. /\ UNCHANGED st /\ Acts(t) /\ Apt(task[t], st, clock)
  BY ResumeKept, ResumeActs DEF Rests, Given, ColumnInv, AllApt
<1>2. /\ task[t].pc \in {"rs.ok", "rs.end"}
      /\ \E ok \in BOOLEAN : AfterResume(t, ok)
  BY <1>1 DEF ResumeOk, ResumeEnd, At, Given, Rests, TypeOK, States
<1>3. Creating(task[t]) => GivenUp(task[t], st)
  BY <1>1, <1>2 DEF Creating, Apt, Making, Creations
<1>4. t = "consumer" /\ disp.final => Ready(st)
  BY <1>2, <1>3 DEF Rests, EndsInv, ConsumerRests
<1> QED
  BY <1>1, <1>2, <1>4, ResumedEnds DEF Resuming

LEMMA ResumeEnterEnds ==
  ASSUME Rests, NEW t \in Tasks, ResumeEnter(t)
  PROVE  EndsInv'
<1> DEFINE q == [[task[t] EXCEPT !.expect = st.anchor, !.ret = "rs.end"]
                   EXCEPT !.pc = "cr.entity", !.ref = 0]
           stays == st.closed \/ st.open
                      \/ st.reason \notin {"approval", "artifact"}
<1>1. /\ TypeOK /\ Acts(t) /\ task[t].pc = "rs.enter" /\ UNCHANGED st
      /\ \/ stays /\ \E ok \in BOOLEAN : AfterResume(t, ok)
         \/ ~stays /\ Go(t, q) /\ UNCHANGED disp
  <2>1. TypeOK /\ Acts(t) /\ task[t].pc = "rs.enter" /\ UNCHANGED st
    BY ResumeActs DEF Rests, Given, ResumeEnter, At
  <2>2. (~st.closed /\ st.open) \in BOOLEAN
    OBVIOUS
  <2>3. \/ stays /\ AfterResume(t, ~st.closed /\ st.open)
        \/ ~stays /\ Go(t, q) /\ UNCHANGED disp
    BY DEF ResumeEnter, Create
  <2> QED
    BY <2>1, <2>2, <2>3
<1>2. q.pc = "cr.entity" /\ q.ret = "rs.end" /\ q.expect = st.anchor
  BY <1>1 DEF TypeOK, Coroutines
<1> HIDE DEF q
<1>3. CASE stays /\ \E ok \in BOOLEAN : AfterResume(t, ok)
  <2>1. Ready(st)
    BY <1>3 DEF Rests, EndsInv, StateRests, Ready
  <2> QED
    BY <1>1, <1>3, <2>1, ResumedEnds DEF Resuming
<1>4. CASE ~stays /\ Go(t, q) /\ UNCHANGED disp
  <2>1. t \notin {"runner", "closer"} /\ task'[t] = q
    BY <1>1, <1>4, GoTask DEF Rests, RolesInv, Doing, Finalizing
  <2>2. t = "agent" => AgentRests(task'[t], st', disp')
    BY <1>1, <1>2, <1>4, <2>1 DEF Rests, EndsInv, AgentRests
  <2>3. t = "consumer" => ConsumerRests(task'[t], st', disp')
    <3>1. t = "consumer" => st.routed
      BY <1>1, <1>4 DEF Rests, EndsInv, ConsumerRests, StateRests
    <3>2. t = "consumer" => Creating(q) /\ ~GivenUp(q, st')
      BY <1>1, <1>2, <1>4, <3>1 DEF Creating, GivenUp, Making, Creations
    <3> QED
      BY <1>1, <1>4, <2>1, <3>2 DEF Rests, EndsInv, ConsumerRests
  <2> QED
    BY <1>1, <1>4, <2>1, <2>2, <2>3, StillMarks, StillLulls, LullEnds DEF Acts
<1> QED
  BY <1>1, <1>3, <1>4

-----------------------------------------------------------------------------
(* Output and tools *)

\* The dispatch starts: its runner returns from the first creation.
LEMMA SteerNextEnds ==
  ASSUME Rests, NEW t \in Tasks, SteerNext(t)
  PROVE  EndsInv'
<1>1. TypeOK /\ task[t].pc = "st.next" /\ UNCHANGED st
  BY DEF Rests, Given, SteerNext, At
<1>2. t = "runner" /\ task[t].op = "start"
  BY <1>1 DEF Rests, RolesInv, Doing, Resumes, Resuming, Making, Creations,
     Finalizing, Suspensions
<1>3. disp' = [disp EXCEPT !.phase = "active"] /\ Go(t, Idle)
  BY <1>2 DEF SteerNext
<1>4. /\ disp'.phase = "active" /\ disp'.count = disp.count
      /\ disp'.marked = disp.marked /\ disp'.final = disp.final
  BY <1>1, <1>3 DEF TypeOK, Dispatches
<1>5. /\ disp.phase = "starting" /\ ~disp.final /\ (st.closed \/ st.routed)
  BY <1>1, <1>2 DEF Rests, EndsInv, RunnerRests
<1>6. /\ task'["agent"] = task["agent"] /\ task'["consumer"] = task["consumer"]
      /\ task'["closer"] = task["closer"] /\ task'["runner"] = Idle
  BY <1>1, <1>2, <1>3, GoTask, TaskNames
<1>7. Idle.op = "none"
  BY DEF Idle
<1>8. StateRests(st', disp') /\ AgentRests(task'["agent"], st', disp')
  BY <1>1, <1>4, <1>5, <1>6 DEF Over, Rests, EndsInv, StateRests, AgentRests
<1>9. ConsumerRests(task'["consumer"], st', disp')
  BY <1>4, <1>5 DEF ConsumerRests
<1>10. RunnerRests(task'["runner"], st', disp')
  BY <1>4, <1>6, <1>7 DEF Over, RunnerRests
<1> QED
  BY <1>6, <1>8, <1>9, <1>10 DEF Rests, EndsInv

LEMMA OutputBeginEnds ==
  ASSUME Rests, NEW t \in Tasks, OutputBegin(t)
  PROVE  EndsInv'
<1>1. /\ TypeOK /\ Acts(t) /\ task[t].pc = "out.begin" /\ UNCHANGED st
      /\ st.reason # "fallback"
  BY OutputBeginActs DEF Rests, Given, ColumnInv, OutputBegin, At
<1>2. \/ st.closed /\ \E ok : Finish(t, ok)
      \/ UNCHANGED disp /\ Go(t, To(t, "rs.enter"))
  BY <1>1 DEF OutputBegin
<1>3. Idle.pc = "idle"
  BY DEF Idle
<1>4. Marks /\ (st.closed \/ task'[t].pc = "rs.enter")
  BY <1>1, <1>2, <1>3, FinishMarks, StillMarks, ToGoes
<1>5. t \notin {"runner", "agent", "closer"}
  BY <1>1 DEF Rests, RolesInv, Doing, Resumes, Resuming, Making, Creations,
     Finalizing, Suspensions
<1>6. t = "consumer" => ConsumerRests(task'[t], st', disp')
  BY <1>1, <1>4 DEF Rests, EndsInv, ConsumerRests, Marks, Ready
<1> QED
  BY <1>1, <1>4, <1>5, <1>6, StillLulls, LullEnds DEF Acts

\* A step that ends its coroutine, or goes on with the same call.
LEMMA WorkEnds ==
  ASSUME Rests, Lulls, NEW t \in Tasks,
         task[t].pc \in {"out.commit", "fin.enter", "fin.lock", "fin.write",
                         "tool.check", "tool.commit", "tool.write"},
         \/ \E ok : Finish(t, ok) /\ task[t].op # "complete"
         \/ UNCHANGED disp /\ \E r : /\ Go(t, r) /\ r.op = task[t].op
                                     /\ r.pc \notin {"sus.write", "st.next"}
                                     /\ \/ r.pc # "fin.ret" \/ st'.closed
                                        \/ task[t].op # "complete"
                                        \/ ~Over(disp)
  PROVE  EndsInv'
<1>1. TypeOK
  BY DEF Rests, Given
<1>2. Idle.pc = "idle" /\ Idle.op = "none"
  BY DEF Idle
<1>3. /\ task[t].op # "start" /\ ~Creating(task[t])
  BY DEF Rests, RolesInv, Doing, Creating, Making, Creations
<1>4. CASE \E ok : Finish(t, ok) /\ task[t].op # "complete"
  <2>1. Marks /\ task'[t] = Idle
    BY <1>4, FinishMarks
  <2>2. \A u \in Tasks \ {t} : task'[u] = task[u]
    BY <1>1, <1>4, NoSteering, GoTask DEF Finish, Rests
  <2> QED
    BY <1>2, <1>3, <1>4, <2>1, <2>2, PassEnds
<1>5. ASSUME UNCHANGED disp, NEW r, Go(t, r), r.op = task[t].op,
             r.pc \notin {"sus.write", "st.next"},
             \/ r.pc # "fin.ret" \/ st'.closed \/ task[t].op # "complete"
             \/ ~Over(disp)
      PROVE  EndsInv'
  <2>1. task'[t] = r /\ \A u \in Tasks \ {t} : task'[u] = task[u]
    BY <1>1, <1>5, GoTask
  <2> QED
    BY <1>3, <1>5, <2>1, StillMarks, PassEnds
<1> QED
  BY <1>4, <1>5

LEMMA OutputCommitEnds ==
  ASSUME Rests, NEW t \in Tasks, OutputCommit(t)
  PROVE  EndsInv'
<1>1. /\ TypeOK /\ task[t].pc = "out.commit" /\ \E ok : Finish(t, ok)
      /\ st' \in {st, [st EXCEPT !.pending = TRUE],
                  [st EXCEPT !.content = task[t].text]}
  BY DEF Rests, Given, OutputCommit, At
<1>2. Lulls
  BY <1>1 DEF Lulls, TypeOK, States
<1>3. task[t].op # "complete"
  BY <1>1 DEF Rests, RolesInv, Doing, Finalizing
<1> QED
  BY <1>1, <1>2, <1>3, WorkEnds

LEMMA ToolEnds ==
  ASSUME Rests, NEW t \in Tasks, ToolCheck(t) \/ ToolCommit(t) \/ ToolWrite(t)
  PROVE  EndsInv'
<1> DEFINE n == st.seq + 1
<1>1. TypeOK /\ st \in States
  BY DEF Rests, Given, TypeOK
<1>2. task[t].pc \in {"tool.check", "tool.commit", "tool.write"}
  BY DEF ToolCheck, ToolCommit, ToolWrite, At
<1>3. /\ \/ \E ok : Finish(t, ok)
         \/ UNCHANGED disp
            /\ \E p \in {"tool.commit", "tool.write"} : Go(t, To(t, p))
      /\ \/ UNCHANGED st
         \/ \E w : st' = [st EXCEPT !.tool = w, !.seq = n]
         \/ st' = [st EXCEPT !.pending = FALSE, !.phase = "generating"]
  <2>1. CASE ToolCheck(t)
    <3>1. ~st.trans
      BY DEF Rests, RolesInv
    <3> QED
      BY <2>1, <3>1 DEF ToolCheck
  <2>2. CASE ToolCommit(t)
    BY <2>2 DEF ToolCommit
  <2>3. CASE ToolWrite(t)
    BY <2>3, NoFailure DEF ToolWrite, Rests
  <2> QED
    BY <2>1, <2>2, <2>3
<1> HIDE DEF n
<1>4. Lulls
  BY <1>1, <1>3 DEF Lulls, States
<1>5. task[t].op # "complete"
  BY <1>2 DEF Rests, RolesInv, Doing, Finalizing
<1>6. \A p : To(t, p).pc = p /\ To(t, p).op = task[t].op
  BY <1>1, ToFields
<1> QED
  BY <1>2, <1>3, <1>4, <1>5, <1>6, WorkEnds

-----------------------------------------------------------------------------
(* The terminal write *)

LEMMA FinalizedGoes ==
  ASSUME TypeOK, NEW t \in Tasks, NEW ok, Finalized(t, ok)
  PROVE  \E r : Go(t, r) /\ r.op = task[t].op /\ r.pc = "fin.ret"
<1> DEFINE q == [To(t, "fin.ret") EXCEPT !.res = ok]
<1>1. q.pc = "fin.ret" /\ q.op = task[t].op
  BY DEF TypeOK, To, Coroutines
<1>2. Go(t, q)
  BY DEF Finalized
<1> HIDE DEF q
<1> QED
  BY <1>1, <1>2

LEMMA FinalizeEnterEnds ==
  ASSUME Rests, NEW t \in Tasks, FinalizeEnter(t)
  PROVE  EndsInv'
<1> DEFINE q == [To(t, "fin.quiet") EXCEPT !.ref = st.cur]
<1>1. /\ TypeOK /\ UNCHANGED <<st, disp>> /\ ~st.trans /\ st.reason # "fallback"
      /\ task[t].pc = "fin.enter"
  BY FinalizeEnterActs
     DEF Rests, Given, ColumnInv, RolesInv, FinalizeEnter, At
<1>2. \/ st.closed /\ \E ok : Finalized(t, ok)
      \/ Go(t, q)
  BY <1>1 DEF FinalizeEnter
<1>3. q.pc = "fin.quiet" /\ q.op = task[t].op
  BY <1>1 DEF To, TypeOK, Coroutines
<1> HIDE DEF q
<1> QED
  BY <1>1, <1>2, <1>3, FinalizedGoes, StillLulls, WorkEnds

LEMMA FinalizeLockedEnds ==
  ASSUME Rests, NEW t \in Tasks, FinalizeLocked(t)
  PROVE  EndsInv'
<1> DEFINE x == Terminal(task[t].text)
<1>1. TypeOK /\ task[t].pc = "fin.lock" /\ UNCHANGED disp
  BY DEF Rests, Given, FinalizeLocked, At
<1>2. \/ /\ UNCHANGED st /\ (st.closed \/ ~st.open)
         /\ \E ok : Finalized(t, ok)
      \/ st' = [st EXCEPT !.content = x] /\ Go(t, To(t, "fin.write"))
  BY DEF FinalizeLocked
<1> HIDE DEF x
<1>3. Lulls
  BY <1>1, <1>2 DEF Lulls, TypeOK, States
<1>4. task[t].op = "complete" /\ Over(disp) => st.closed \/ st.open
  <2>1. task[t].op = "complete" => t = "runner"
    BY <1>1 DEF Rests, RolesInv, Doing
  <2> QED
    BY <1>1, <2>1 DEF Over, Rests, EndsInv, RunnerRests
<1>5. CASE /\ UNCHANGED st /\ (st.closed \/ ~st.open)
           /\ \E ok : Finalized(t, ok)
  BY <1>1, <1>3, <1>4, <1>5, FinalizedGoes, WorkEnds
<1>6. CASE Go(t, To(t, "fin.write"))
  <2>1. To(t, "fin.write").pc = "fin.write"
        /\ To(t, "fin.write").op = task[t].op
    BY <1>1, ToFields
  <2> QED
    BY <1>1, <1>3, <1>6, <2>1, WorkEnds
<1> QED
  BY <1>2, <1>5, <1>6

LEMMA FinalizeWriteEnds ==
  ASSUME Rests, NEW t \in Tasks, FinalizeWrite(t)
  PROVE  EndsInv'
<1>1. /\ TypeOK /\ task[t].pc = "fin.write" /\ UNCHANGED disp
      /\ \E ok : Finalized(t, ok)
  BY DEF Rests, Given, FinalizeWrite, At
<1>2. st'.closed /\ Lulls
  BY FinalizeWriteKept DEF Rests, StKept, Lulls
<1> QED
  BY <1>1, <1>2, FinalizedGoes, WorkEnds

\* Only a turn that is closed, or whose dispatch is over, is forgotten.
LEMMA FinalizeReturnEnds ==
  ASSUME Rests, NEW t \in Tasks, FinalizeReturn(t)
  PROVE  EndsInv'
<1>1. /\ TypeOK /\ Acts(t) /\ task[t].pc = "fin.ret"
  BY FinalizeReturnActs DEF Rests, Given, FinalizeReturn, At
<1>2. /\ task[t].op \in {"complete", "final"} /\ t # "closer"
      /\ task[t].op = "complete" => t = "runner"
      /\ task[t].op = "final" => t = "consumer"
  BY <1>1 DEF Rests, RolesInv, EndsInv, Doing, Resumes, Resuming, Making,
     Creations, Suspensions
<1>3. /\ \E ok : Finish(t, ok)
      /\ \/ UNCHANGED st
         \/ /\ st' = Forgotten(st)
            /\ st.closed \/ task[t].op = "complete"
  BY <1>2 DEF FinalizeReturn
<1>4. Marks /\ task'[t] = Idle
  BY <1>3, FinishMarks
<1>5. task[t].op = "complete" => disp.phase = "idle"
  BY <1>2 DEF Rests, EndsInv, RunnerRests
<1>6. Lulls
  BY <1>1, <1>3, <1>5 DEF Lulls, Forgotten, TypeOK, States
<1>7. Idle.pc = "idle" /\ Idle.op = "none"
  BY DEF Idle
<1>8. t = "runner" => RunnerRests(task'[t], st', disp')
  <2>1. RunnerRests(task["runner"], st', disp')
    BY <1>4, <1>6, LullRests DEF Rests, EndsInv
  <2> QED
    BY <1>1, <1>2, <1>4, <1>7, <2>1 DEF RunnerRests
<1>9. t = "consumer" => ConsumerRests(task'[t], st', disp')
  <2>1. t = "consumer" /\ disp.final => Ready(st)
    BY <1>1 DEF Rests, EndsInv, ConsumerRests, Creating, Making, Creations
  <2>2. Ready(st) => Ready(st')
    BY <1>4, <1>6, LullRests
  <2> QED
    BY <1>4, <1>7, <2>1, <2>2 DEF ConsumerRests, Marks
<1> QED
  BY <1>1, <1>2, <1>4, <1>6, <1>8, <1>9, TaskNames, LullEnds DEF Acts

LEMMA ExpireLockedEnds ==
  ASSUME Rests, NEW t \in Tasks, ExpireLocked(t)
  PROVE  EndsInv'
<1>1. TypeOK /\ task[t].pc = "ex.lock" /\ UNCHANGED disp /\ Go(t, Idle)
  BY DEF Rests, Given, ExpireLocked, At
<1>2. t = "expirer"
  BY <1>1 DEF Rests, RolesInv, Doing, Resumes, Resuming, Making, Creations,
     Finalizing, Suspensions
<1>3. Lulls
  BY <1>1 DEF ExpireLocked, Lulls, TypeOK, States
<1> QED
  BY <1>1, <1>2, <1>3, GoTask, StillMarks, LullEnds

LEMMA RunEnds ==
  ASSUME Rests, NEW t \in Tasks, Run(t)
  PROVE  EndsInv'
<1>1. CASE \/ CreateEntity(t) \/ CreateCheck(t) \/ CreateSend(t)
           \/ CreateCommit(t) \/ RetireWrite(t)
  BY <1>1, CreatingEnds, CommitEnds
<1>2. CASE \/ Drain(t) \/ SuspendLocked(t) \/ SuspendWrite(t)
           \/ ResumeEnter(t) \/ ResumeOk(t) \/ ResumeEnd(t)
  BY <1>2, DrainEnds, SuspendLockedEnds, SuspendWriteEnds, ResumeEnterEnds,
     ResumeEnds
<1>3. CASE SteerBegin(t) \/ SteerEnd(t) \/ SteerSilent(t) \/ Adopt(t)
  BY <1>3, NoSteering DEF SteerBegin, SteerEnd, SteerSilent, Adopt, At, Rests
<1>4. CASE FallbackWrite(t)
  BY <1>4 DEF FallbackWrite, At, Rests, Given, ColumnInv, AllApt, Apt
<1>5. CASE SteerNext(t) \/ OutputBegin(t) \/ OutputCommit(t)
  BY <1>5, SteerNextEnds, OutputBeginEnds, OutputCommitEnds
<1>6. CASE \/ FinalizeEnter(t) \/ FinalizeLocked(t) \/ FinalizeWrite(t)
           \/ FinalizeReturn(t)
  BY <1>6, FinalizeEnterEnds, FinalizeLockedEnds, FinalizeWriteEnds,
     FinalizeReturnEnds
<1>7. CASE ToolCheck(t) \/ ToolCommit(t) \/ ToolWrite(t) \/ ExpireLocked(t)
  BY <1>7, ToolEnds, ExpireLockedEnds
<1> QED
  BY <1>1, <1>2, <1>3, <1>4, <1>5, <1>6, <1>7 DEF Run

-----------------------------------------------------------------------------
(* The other callers and the flushes *)

\* Another coroutine starts, or the agent's next operation does.
LEMMA CallerEnds ==
  ASSUME Rests, Marks, UNCHANGED st, NEW t \in Tasks, NEW r, Go(t, r),
         t \notin {"consumer", "runner", "closer"},
         t = "agent" => ~disp.marked /\ r.pc # "sus.write"
  PROVE  EndsInv'
<1>1. TypeOK
  BY DEF Rests, Given
<1>2. task'[t] = r /\ \A u \in Tasks \ {t} : task'[u] = task[u]
  BY <1>1, GoTask
<1>3. t = "agent" => AgentRests(task'[t], st', disp')
  BY <1>2 DEF AgentRests, Marks
<1> QED
  BY <1>2, <1>3, StillLulls, LullEnds

LEMMA StillEnds ==
  ASSUME Rests, Marks, Lulls, UNCHANGED task
  PROVE  EndsInv'
BY LullRests DEF Rests, EndsInv

LEMMA OutputEnds ==
  ASSUME Rests, StreamDelta \/ Progress
  PROVE  EndsInv'
<1> DEFINE part == [Idle EXCEPT !.op = "stream", !.text = "part",
                                !.pc = "out.begin"]
           prog == [Idle EXCEPT !.op = "progress", !.text = "prog",
                                !.pc = "out.begin"]
<1>1. TypeOK /\ UNCHANGED <<st, disp>> /\ Active
  BY DEF Rests, Given, StreamDelta, Progress
<1>2. CASE StreamDelta
  <2>1. Go("consumer", part) /\ ~disp.final
    BY <1>2 DEF StreamDelta
  <2> HIDE DEF part
  <2>2. /\ task'["consumer"] = part
        /\ \A u \in Tasks \ {"consumer"} : task'[u] = task[u]
    BY <1>1, <2>1, GoTask, TaskNames
  <2>3. ConsumerRests(task'["consumer"], st', disp')
    BY <1>1, <2>1 DEF ConsumerRests, Active
  <2> QED
    BY <1>1, <2>2, <2>3, StillMarks, StillLulls, LullEnds, TaskNames
<1>3. CASE Progress
  <2>1. Go("notifier", prog)
    BY <1>3 DEF Progress
  <2> HIDE DEF prog
  <2> QED
    BY <1>1, <2>1, StillMarks, CallerEnds, TaskNames
<1> QED
  BY <1>2, <1>3

\* The answer looks for a segment, unless it is an ordinary message because the
\* turn is closed.
LEMMA FinalAnswerEnds ==
  ASSUME Rests, FinalAnswer
  PROVE  EndsInv'
<1> DEFINE r == [Idle EXCEPT !.op = "final", !.text = "answer"]
           send == [r EXCEPT !.pc = "rs.enter"]
           text == [r EXCEPT !.op = "stream", !.pc = "out.begin"]
<1>1. /\ TypeOK /\ UNCHANGED st /\ Active /\ disp.marked
      /\ task["consumer"].pc = "idle" /\ "edit" \notin FinalWays
  <2>1. "edit" \notin FinalWays
    BY DEF Rests
  <2> QED
    BY <2>1 DEF Rests, Given, FinalAnswer, Free
<1>2. /\ \/ disp' = [disp EXCEPT !.final = TRUE]
         \/ disp' = [disp EXCEPT !.final = TRUE, !.acked = TRUE]
      /\ \/ Go("consumer", send) \/ Go("consumer", text)
         \/ UNCHANGED task /\ (~st.routed \/ st.closed)
  <2>1. CASE st.terminal
    BY <1>1, <2>1 DEF FinalAnswer
  <2>2. CASE ~st.terminal
    BY <1>1, <2>2 DEF FinalAnswer
  <2> QED
    BY <2>1, <2>2
<1>3. send.pc = "rs.enter" /\ text.pc = "out.begin"
  BY DEF Idle
<1> HIDE DEF send, text
<1>4. /\ disp'.phase = "active" /\ disp'.count = disp.count
      /\ disp'.marked = disp.marked
  BY <1>1, <1>2 DEF Active, TypeOK, Dispatches
<1>5. /\ \A u \in Tasks \ {"consumer"} : task'[u] = task[u]
      /\ \/ task'["consumer"].pc \in {"rs.enter", "out.begin"}
         \/ ~st.routed \/ st.closed
  BY <1>1, <1>2, <1>3, GoTask, TaskNames
<1>6. st.routed \/ st.closed
  BY <1>1 DEF Rests, EndsInv, StateRests, Active
<1>7. StateRests(st', disp') /\ AgentRests(task'["agent"], st', disp')
  BY <1>1, <1>4, <1>5, TaskNames
     DEF Rests, EndsInv, StateRests, AgentRests, Active
<1>8. ConsumerRests(task'["consumer"], st', disp')
  BY <1>1, <1>4, <1>5, <1>6 DEF ConsumerRests, Ready
<1>9. RunnerRests(task'["runner"], st', disp')
  BY <1>1, <1>4, <1>5, TaskNames DEF Over, Rests, EndsInv, RunnerRests, Active
<1> QED
  BY <1>5, <1>7, <1>8, <1>9, TaskNames DEF Rests, EndsInv

LEMMA AgentEnds ==
  ASSUME Rests,
         \/ ToolUpdate \/ MarkTerminal
         \/ \E w \in {"artifact", "approval", "question"} : Boundary(w)
  PROVE  EndsInv'
<1>1. TypeOK
  BY DEF Rests, Given
<1>2. CASE ToolUpdate
  <2> DEFINE r(w) == [Idle EXCEPT !.op = "tool", !.tool = w, !.pc = "rs.enter"]
  <2>1. /\ UNCHANGED st /\ disp' = [disp EXCEPT !.toolAcked = FALSE]
        /\ ~disp.marked /\ \E w : Go("agent", r(w))
    BY <1>2 DEF ToolUpdate, AgentTurn
  <2>2. \A w : r(w).pc = "rs.enter"
    BY DEF Idle
  <2> HIDE DEF r
  <2>3. Marks
    BY <1>1, <2>1 DEF Marks, TypeOK, Dispatches
  <2> QED
    BY <2>1, <2>2, <2>3, CallerEnds, TaskNames
<1>3. ASSUME NEW w, Boundary(w)
      PROVE  EndsInv'
  <2> DEFINE r == [Idle EXCEPT !.op = "boundary", !.why = w, !.want = clock + 1]
             q == [r EXCEPT !.pc = "sus.quiet", !.ref = st.cur]
  <2>1. /\ UNCHANGED <<st, disp>> /\ ~disp.marked
        /\ Go("agent", q) \/ UNCHANGED task
    BY <1>3 DEF Boundary, AgentTurn, Suspend
  <2>2. q.pc = "sus.quiet"
    BY DEF Idle
  <2> HIDE DEF q
  <2> QED
    BY <2>1, <2>2, CallerEnds, StillEnds, StillMarks, StillLulls, TaskNames
<1>4. CASE MarkTerminal
  <2>1. /\ UNCHANGED task /\ disp' = [disp EXCEPT !.marked = TRUE]
        /\ task["agent"].pc = "idle" /\ disp.phase = "active"
        /\ st' \in {st, [st EXCEPT !.terminal = TRUE]}
    BY <1>4 DEF MarkTerminal, Free, Active
  <2>2. /\ disp'.phase = disp.phase /\ disp'.count = disp.count /\ disp'.marked
        /\ disp'.final = disp.final
    BY <1>1, <2>1 DEF TypeOK, Dispatches
  <2>3. /\ st'.closed = st.closed /\ st'.open = st.open
        /\ st'.routed = st.routed /\ st'.reason = st.reason
        /\ st'.anchor = st.anchor
    BY <1>1, <2>1 DEF TypeOK, States
  <2>4. StateRests(st', disp') /\ AgentRests(task'["agent"], st', disp')
    BY <2>1, <2>2, <2>3 DEF Rests, EndsInv, StateRests, AgentRests
  <2>5. ConsumerRests(task'["consumer"], st', disp')
    BY <2>1, <2>2, <2>3 DEF Rests, EndsInv, ConsumerRests, Ready, GivenUp
  <2>6. RunnerRests(task'["runner"], st', disp')
    BY <2>1, <2>2, <2>3 DEF Over, Rests, EndsInv, RunnerRests
  <2> QED
    BY <2>1, <2>4, <2>5, <2>6 DEF Rests, EndsInv
<1> QED
  BY <1>2, <1>3, <1>4

LEMMA ExpireEnds ==
  ASSUME Rests, Expire
  PROVE  EndsInv'
BY StillMarks, CallerEnds, TaskNames DEF Expire

LEMMA StartEnds ==
  ASSUME Rests, DispatchStart
  PROVE  EndsInv'
<1> DEFINE r == [Idle EXCEPT !.op = "start", !.want = clock + 1,
                             !.ret = "st.next"]
           q == [r EXCEPT !.pc = "cr.entity", !.ref = 0]
<1>1. /\ TypeOK /\ UNCHANGED st /\ Go("runner", q) /\ disp' = Starting(disp)
      /\ disp.phase = "idle"
  BY DEF Rests, Given, DispatchStart, Create
<1>2. q.pc = "cr.entity" /\ q.op = "start"
  BY DEF Idle
<1> HIDE DEF q
<1>3. /\ disp'.phase = "starting" /\ disp'.count > 0 /\ ~disp'.marked
      /\ ~disp'.final
  BY <1>1 DEF Starting, TypeOK, Dispatches
<1>4. /\ task'["runner"] = q
      /\ \A u \in Tasks \ {"runner"} : task'[u] = task[u]
  BY <1>1, GoTask, TaskNames
<1>5. StateRests(st', disp') /\ AgentRests(task'["agent"], st', disp')
  BY <1>1, <1>3, <1>4, TaskNames
     DEF Over, Rests, EndsInv, StateRests, AgentRests
<1>6. ConsumerRests(task'["consumer"], st', disp')
  BY <1>1, <1>3, <1>4, TaskNames DEF Rests, EndsInv, ConsumerRests
<1>7. RunnerRests(task'["runner"], st', disp')
  BY <1>2, <1>3, <1>4 DEF Over, RunnerRests
<1> QED
  BY <1>4, <1>5, <1>6, <1>7, TaskNames DEF Rests, EndsInv

LEMMA FlushEnds ==
  ASSUME Rests, Flush
  PROVE  EndsInv'
<1>1. PICK i \in 1..Len(ctl) : FlushFire(i) \/ FlushLocked(i) \/ FlushWrite(i)
  BY DEF Flush
<1>2. UNCHANGED <<task, disp>>
  BY <1>1 DEF FlushFire, FlushLocked, FlushWrite
<1>3. Lulls
  <2>1. CASE FlushFire(i) \/ FlushLocked(i)
    BY <2>1, StillLulls DEF FlushFire, FlushLocked
  <2>2. CASE FlushWrite(i)
    BY <2>2, FlushWriteKept DEF Rests, StKept, StOpen, Lulls
  <2> QED
    BY <1>1, <2>1, <2>2
<1> QED
  BY <1>2, <1>3, StillMarks, StillEnds

LEMMA CompleteAt ==
  ASSUME Rests, Complete
  PROVE  /\ TypeOK /\ disp.phase = "active" /\ disp.count > 0
         /\ task["consumer"].pc = "idle"
         /\ task["runner"].pc = "idle" /\ task["runner"].op = "none"
         /\ disp'.phase = "idle" /\ disp'.count = disp.count
         /\ disp'.marked = disp.marked /\ disp'.final = disp.final
         /\ disp'.acked = disp.acked
<1>1. /\ TypeOK /\ task["consumer"].pc = "idle" /\ task["runner"].pc = "idle"
      /\ disp.phase = "active"
  <2>1. Complete => /\ task["consumer"].pc = "idle" /\ disp.phase = "active"
                    /\ task["runner"].pc = "idle"
    BY DEF Complete, Free
  <2> QED
    BY <2>1 DEF Rests, Given
<1>2. disp.count > 0
  BY <1>1 DEF Rests, EndsInv, StateRests
<1>3. task["runner"].op = "none"
  BY <1>1, TaskNames DEF Rests, RolesInv, Doing, Resumes, Resuming, Making,
     Creations, Finalizing, Suspensions
<1>4. \E out : disp' = [disp EXCEPT !.phase = "idle", !.end = out]
  BY DEF Complete
<1> QED
  BY <1>1, <1>2, <1>3, <1>4 DEF TypeOK, Dispatches

\* What completion does with the turn: it finalizes one that is open.
LEMMA CompleteGoes ==
  ASSUME Rests, Complete
  PROVE  /\ st'.open = st.open /\ st'.reason = st.reason
         /\ st.closed => st'.closed
         /\ \A u \in Tasks \ {"runner"} : task'[u] = task[u]
         /\ \/ UNCHANGED task /\ ~(st.routed /\ ~st.closed /\ st.open)
            \/ /\ task'["runner"].op = "complete"
               /\ task'["runner"].pc = "fin.enter" /\ UNCHANGED st
               /\ ~st.closed /\ st.open
<1> DEFINE r(x, y, z) == [Idle EXCEPT !.pc = "fin.enter", !.op = "complete",
                            !.saw = x, !.text = y, !.out = z]
<1>1. /\ TypeOK /\ ~st.trans /\ st.reason # "fallback"
  BY DEF Rests, Given, ColumnInv, RolesInv
<1>2. st'.open = st.open /\ st'.reason = st.reason /\ (st.closed => st'.closed)
  BY CompleteKept DEF Rests, StKept
<1>3. \A x, y, z : r(x, y, z).pc = "fin.enter" /\ r(x, y, z).op = "complete"
  BY DEF Idle
<1>4. CASE st.routed /\ ~st.closed /\ st.open
  <2>1. UNCHANGED st /\ \E x, y, z : Go("runner", r(x, y, z))
    BY <1>4 DEF Complete
  <2> HIDE DEF r
  <2>2. PICK x, y, z : Go("runner", r(x, y, z))
    BY <2>1
  <2>3. /\ task'["runner"] = r(x, y, z)
        /\ \A u \in Tasks \ {"runner"} : task'[u] = task[u]
    BY <1>1, <2>2, GoTask, TaskNames
  <2> QED
    BY <1>3, <1>4, <2>1, <2>3
<1>5. CASE ~(st.routed /\ ~st.closed /\ st.open)
  <2>1. UNCHANGED task
    BY <1>1, <1>5 DEF Complete
  <2> QED
    BY <1>2, <1>5, <2>1
<1> QED
  BY <1>4, <1>5

\* A dispatch that ends well was answered: the turn is closed, its open segment
\* is finalized, or a question suspended it.
LEMMA CompleteRests ==
  ASSUME Rests, Complete, Endings \subseteq {"success"}
  PROVE  /\ disp.final /\ disp.marked
         /\ st.closed \/ st.open \/ st.reason = "question"
         /\ st.closed \/ st.routed
<1>1. disp.final
  BY DEF Complete
<1>2. Ready(st)
  BY <1>1, CompleteAt
     DEF Rests, EndsInv, ConsumerRests, Creating, Making, Creations
<1> QED
  BY <1>1, <1>2, CompleteAt DEF Rests, EndsInv, StateRests, Ready

LEMMA CompleteEnds ==
  ASSUME Rests, Complete
  PROVE  EndsInv'
<1>1. /\ st'.open = st.open /\ st'.reason = st.reason
      /\ st.closed => st'.closed
      /\ \A u \in Tasks \ {"runner"} : task'[u] = task[u]
      /\ \/ UNCHANGED task /\ ~(st.routed /\ ~st.closed /\ st.open)
         \/ /\ task'["runner"].op = "complete"
            /\ task'["runner"].pc = "fin.enter" /\ UNCHANGED st
            /\ ~st.closed /\ st.open
  BY CompleteGoes
<1>2. /\ disp'.phase = "idle" /\ disp'.count > 0
      /\ disp'.marked = disp.marked /\ disp'.final = disp.final
      /\ task["consumer"].pc = "idle" /\ task["runner"].op = "none"
  BY CompleteAt
<1>3. StateRests(st', disp') /\ AgentRests(task'["agent"], st', disp')
  BY <1>1, <1>2, CompleteRests, TaskNames
     DEF Over, Rests, EndsInv, StateRests, AgentRests
<1>4. ConsumerRests(task'["consumer"], st', disp')
  BY <1>1, <1>2, TaskNames DEF ConsumerRests
<1>5. RunnerRests(task'["runner"], st', disp')
  BY <1>1, <1>2, CompleteRests DEF Over, RunnerRests
<1> QED
  BY <1>1, <1>3, <1>4, <1>5, TaskNames DEF Rests, EndsInv

LEMMA NextEnds ==
  ASSUME Rests, [Next]_vars, Steers = {}, MaxDispatch <= 1
  PROVE  EndsInv'
<1>1. ASSUME NEW t \in Tasks, Run(t)
      PROVE  EndsInv'
  BY <1>1, RunEnds
<1>2. CASE \/ ToolUpdate \/ MarkTerminal
           \/ \E w \in {"artifact", "approval", "question"} : Boundary(w)
  BY <1>2, AgentEnds
<1>3. CASE DispatchStart \/ DispatchContinue \/ Complete
  BY <1>3, StartEnds, OneDispatch, CompleteEnds
<1>4. CASE StreamDelta \/ Progress \/ FinalAnswer \/ ShutDown
  BY <1>4, OutputEnds, FinalAnswerEnds DEF ShutDown, Rests
<1>5. CASE Expire \/ Flush
  BY <1>5, ExpireEnds, FlushEnds
<1>6. CASE Done \/ UNCHANGED vars
  BY <1>6, StillMarks, StillLulls, StillEnds DEF Done, vars
<1> QED
  BY <1>1, <1>2, <1>3, <1>4, <1>5, <1>6 DEF Next

LEMMA InitEnds == Init => EndsInv
<1> SUFFICES ASSUME Init
             PROVE  EndsInv
  OBVIOUS
<1>1. \A t \in Tasks : task[t].pc = "idle" /\ task[t].op = "none"
  BY DEF Init, Idle
<1>2. /\ disp.phase = "idle" /\ disp.count = 0 /\ ~disp.final /\ ~disp.marked
  BY DEF Init
<1>3. st.open
  BY DEF Init, NewState
<1> QED
  BY <1>1, <1>2, <1>3, TaskNames
     DEF Over, EndsInv, StateRests, AgentRests, ConsumerRests, RunnerRests

LEMMA EndsInvariant ==
  Steers = {} /\ MaxDispatch <= 1 /\ ~MayShutDown
      /\ FinalWays \subseteq {"send"}
    => (Spec => [](FaultFree => EndsInv))
<1> SUFFICES ASSUME Steers = {}, MaxDispatch <= 1, ~MayShutDown,
                    FinalWays \subseteq {"send"}
             PROVE  Spec => [](FaultFree => EndsInv)
  OBVIOUS
<1>1. Init => (FaultFree => EndsInv)
  BY InitEnds
<1>2. Spec => []BoundaryInv
  BY BoundariesInvariant DEF Plain, Uncancelled
<1>3. Spec => [](FaultFree => ColumnInv)
  BY ColumnInvariant DEF Plain, Uncancelled, Echoes
<1>4. Spec => [](RolesInv /\ ToolInv)
  BY RolesInvariant
<1>5. TypeOK /\ WritesInv /\ BoundaryInv /\ (FaultFree => ColumnInv)
        /\ (RolesInv /\ ToolInv) /\ (FaultFree => EndsInv) /\ [Next]_vars
        => (FaultFree => EndsInv)'
  <2> SUFFICES ASSUME TypeOK, WritesInv, BoundaryInv, FaultFree => ColumnInv,
                      RolesInv, ToolInv, FaultFree => EndsInv, [Next]_vars,
                      FaultFree'
               PROVE  EndsInv'
    OBVIOUS
  <2>1. Given /\ ColumnInv'
    BY NextColumn DEF Plain, Uncancelled, Echoes
  <2>2. RolesInv'
    BY NextTool
  <2>3. EndsInv
    BY <2>1 DEF Given
  <2>4. Rests
    BY <2>1, <2>2, <2>3 DEF Rests
  <2> QED
    BY <2>4, NextEnds
<1> QED
  BY <1>1, <1>2, <1>3, <1>4, <1>5, TypeCorrect, WritesGuarded, PTL DEF Spec

\* A dispatch that ended well with an answer that was sent, was not steered and
\* met no failing call leaves the turn closed, unless a question suspended it
\* (on_processing_complete): no boundary, tool or late creation leaves an open
\* segment behind, and no answer is left without the segment it asks for.
THEOREM EndCloses ==
  Steers = {} /\ MaxDispatch <= 1 /\ ~MayShutDown
      /\ FinalWays \subseteq {"send"} /\ Endings \subseteq {"success"}
    => (Spec => []EndClosesTurn)
<1> SUFFICES ASSUME Steers = {}, MaxDispatch <= 1, ~MayShutDown,
                    FinalWays \subseteq {"send"}, Endings \subseteq {"success"}
             PROVE  Spec => []EndClosesTurn
  OBVIOUS
<1>1. Spec => [](FaultFree => EndsInv)
  BY EndsInvariant
<1>2. Spec => [](RolesInv /\ ToolInv)
  BY RolesInvariant
<1>3. RolesInv /\ (FaultFree => EndsInv) => EndClosesTurn
  <2> SUFFICES ASSUME RolesInv, EndsInv, Quiescent, Ended
               PROVE  st.closed \/ (~st.open /\ st.reason = "question")
    BY DEF EndClosesTurn
  <2>1. task["runner"].pc = "idle" /\ Doing("runner", task["runner"])
    BY TaskNames DEF Quiescent, RolesInv
  <2>2. task["runner"].op # "complete"
    BY <2>1 DEF Doing, Resumes, Resuming, Making, Creations, Finalizing,
       Suspensions
  <2> QED
    BY <2>2 DEF Over, EndsInv, RunnerRests, Ended
<1> QED
  BY <1>1, <1>2, <1>3, PTL

-----------------------------------------------------------------------------
(* Flush controllers during that dispatch                                  *)

\* r stopped the controller of the segment that it is about to close off.
Stops(r) == r.pc \in {"fin.quiet", "fin.lock", "fin.write"} \cup Suspensions

\* The inductive invariant of the controllers: an open segment takes flushes
\* unless someone is about to freeze or finish it; a stopped controller waits
\* for no timer; and a flush writes the content the state has.
StopInv ==
  /\ Len(ctl) = Len(segs)
  /\ st.cur # 0 /\ st.open /\ ~st.closed /\ ctl[st.cur].stopped
       => \E t \in Tasks : Stops(task[t])
  /\ \A t \in Tasks : Publishing(t) => ~ctl[task[t].ref].stopped
  /\ \A i \in 1..Len(ctl) : ctl[i].state = "scheduled" => ~ctl[i].stopped
  /\ \A i \in 1..Len(ctl) : Flushing(i) => ctl[i].text = st.content

\* Controller c becomes d while the content becomes x, and stops nothing.
Eased(c, d, x) ==
  /\ d.stopped => c.stopped
  /\ d.state = "scheduled" => ~d.stopped
  /\ d.state = "write" => d.text = x

AllEased ==
  /\ Len(ctl') = Len(ctl)
  /\ \A i \in 1..Len(ctl) : Eased(ctl[i], ctl'[i], st'.content)

\* The segment stays, and is not opened again.
Stays ==
  /\ st'.cur = st.cur
  /\ st'.open /\ ~st'.closed => st.open /\ ~st.closed

LEMMA CurrentCard ==
  ASSUME TypeOK, WritesInv, st.cur # 0
  PROVE  st.cur \in Cards
BY DEF TypeOK, States, WritesInv, CurrentStreams, Cards

LEMMA EasedStops ==
  ASSUME Rests, StopInv, AllEased, Stays, Len(segs') = Len(segs),
         \A u \in Tasks : Stops(task[u])
           => Stops(task'[u]) \/ ~st'.open \/ st'.closed,
         \A u \in Tasks : Publishing(u)'
           => Publishing(u) /\ task'[u].ref = task[u].ref
  PROVE  StopInv'
<1>1. TypeOK /\ WritesInv
  BY DEF Rests, Given
<1>2. Len(ctl') = Len(segs')
  BY DEF StopInv, AllEased
<1>3. st'.cur # 0 /\ st'.open /\ ~st'.closed /\ ctl'[st'.cur].stopped
        => \E t \in Tasks : Stops(task'[t])
  <2> SUFFICES ASSUME st.cur # 0, st'.open, ~st'.closed, ctl'[st.cur].stopped
               PROVE  \E t \in Tasks : Stops(task'[t])
    BY DEF Stays
  <2>1. st.cur \in 1..Len(ctl)
    BY <1>1, CurrentCard DEF Cards, StopInv
  <2>2. ctl[st.cur].stopped /\ st.open /\ ~st.closed
    BY <2>1 DEF AllEased, Eased, Stays
  <2>3. PICK t \in Tasks : Stops(task[t])
    BY <2>2 DEF StopInv
  <2> QED
    BY <2>3
<1>4. \A t \in Tasks : Publishing(t)' => ~ctl'[task'[t].ref].stopped
  <2> SUFFICES ASSUME NEW t \in Tasks, Publishing(t)'
               PROVE  ~ctl'[task'[t].ref].stopped
    OBVIOUS
  <2>1. Publishing(t) /\ task'[t].ref = task[t].ref
    OBVIOUS
  <2>2. task[t].ref \in 1..Len(ctl)
    BY <1>1, <2>1 DEF WritesInv, PublishedIsFresh, Cards, StopInv
  <2> QED
    BY <2>1, <2>2 DEF StopInv, AllEased, Eased
<1>5. \A i \in 1..Len(ctl') :
        /\ ctl'[i].state = "scheduled" => ~ctl'[i].stopped
        /\ Flushing(i)' => ctl'[i].text = st'.content
  BY DEF AllEased, Eased, Flushing
<1> QED
  BY <1>2, <1>3, <1>4, <1>5 DEF StopInv, Stops

LEMMA StillEased ==
  ASSUME StopInv, UNCHANGED ctl,
         st'.content = st.content \/ \A i \in 1..Len(ctl) : ~Flushing(i)
  PROVE  AllEased
BY DEF StopInv, AllEased, Eased, Flushing

\* One step of a coroutine.
LEMMA StepStops ==
  ASSUME Rests, StopInv, AllEased, Stays, Len(segs') = Len(segs),
         NEW t \in Tasks, \A u \in Tasks \ {t} : task'[u] = task[u],
         Stops(task[t]) => Stops(task'[t]) \/ ~st'.open \/ st'.closed,
         Publishing(t)' => Publishing(t) /\ task'[t].ref = task[t].ref
  PROVE  StopInv'
<1>1. \A u \in Tasks : Stops(task[u])
        => Stops(task'[u]) \/ ~st'.open \/ st'.closed
  OBVIOUS
<1>2. \A u \in Tasks : Publishing(u)'
        => Publishing(u) /\ task'[u].ref = task[u].ref
  BY DEF Publishing
<1> QED
  BY <1>1, <1>2, EasedStops

\* The cards keep the text they show.
TextsStay ==
  /\ Len(segs') = Len(segs)
  /\ \A i \in Cards : segs'[i].text = segs[i].text

\* A step that leaves the state, the controllers and what the cards show, and
\* brings t to no write.
Idles(t) ==
  /\ UNCHANGED <<st, ctl>> /\ TextsStay /\ Settled(t)
  /\ \A u \in Tasks \ {t} : task'[u] = task[u]

LEMMA StillTexts ==
  ASSUME UNCHANGED segs
  PROVE  TextsStay
BY DEF TextsStay

LEMMA RetireTexts ==
  ASSUME Rests, NEW t \in Tasks, RetireWrite(t)
  PROVE  TextsStay
<1> DEFINE x == IF st.closed THEN "stopped" ELSE "continued"
           c == [segs[task[t].ref] EXCEPT !.seq = 2, !.status = x]
<1>1. TypeOK /\ task[t].ref \in Cards
  BY DEF Rests, Given, RetireWrite, At, WritesInv, PublishedIsFresh, Publishing
<1>2. segs' = segs \/ segs' = [segs EXCEPT ![task[t].ref] = c]
  BY DEF RetireWrite
<1>3. segs[task[t].ref] \in CardType
  BY <1>1, ElementType DEF TypeOK, Cards
<1>4. c.text = segs[task[t].ref].text
  BY <1>3 DEF CardType
<1> HIDE DEF c
<1> QED
  BY <1>1, <1>2, <1>4 DEF TextsStay, TypeOK, Cards

LEMMA CreatingIdles ==
  ASSUME Rests, NEW t \in Tasks,
         CreateEntity(t) \/ CreateCheck(t) \/ RetireWrite(t)
  PROVE  Idles(t)
<1>1. TypeOK /\ Acts(t)
  BY CreateEntityActs, CreateCommitActs DEF Rests, Given
<1>2. Settled(t)
  <2>1. \/ Created(t, FALSE)
        \/ \E p \in {"cr.send", "cr.check"} : Go(t, To(t, p))
    BY DEF CreateEntity, CreateCheck, RetireWrite
  <2> QED
    BY <1>1, <2>1, CreatedSettled, ToSettled DEF Special
<1>3. UNCHANGED <<st, ctl>>
  BY DEF CreateEntity, CreateCheck, RetireWrite
<1>4. TextsStay
  BY StillTexts, RetireTexts DEF CreateEntity, CreateCheck
<1> QED
  BY <1>1, <1>2, <1>3, <1>4 DEF Idles, Acts

LEMMA ResumeIdles ==
  ASSUME Rests, NEW t \in Tasks, ResumeEnter(t) \/ ResumeOk(t) \/ ResumeEnd(t)
  PROVE  Idles(t)
<1> DEFINE r == [task[t] EXCEPT !.expect = st.anchor, !.ret = "rs.end"]
<1>1. TypeOK /\ Acts(t) /\ UNCHANGED <<st, ctl, segs>>
  BY ResumeKept, ResumeActs DEF Rests, Given, ResumeEnter, ResumeOk, ResumeEnd
<1>2. (\E ok \in BOOLEAN : AfterResume(t, ok)) \/ Create(t, r)
  <2>1. /\ (~st.closed /\ st.open) \in BOOLEAN
        /\ (~st.closed /\ st.routed /\ st.open) \in BOOLEAN
    OBVIOUS
  <2> QED
    BY <2>1 DEF ResumeEnter, ResumeOk, ResumeEnd
<1>3. r \in Coroutines
  <2>1. task[t] \in Coroutines /\ st.anchor \in Nat /\ "rs.end" \in Returns
    BY <1>1 DEF TypeOK, States, Returns
  <2> QED
    BY <2>1 DEF Coroutines
<1> HIDE DEF r
<1>4. Settled(t)
  BY <1>1, <1>2, <1>3, AfterResumeSettled, CreateSettled
<1> QED
  BY <1>1, <1>4, StillTexts DEF Idles, Acts

LEMMA OutputIdles ==
  ASSUME Rests, NEW t \in Tasks, OutputBegin(t) \/ SteerNext(t)
  PROVE  Idles(t)
<1>1. TypeOK /\ UNCHANGED <<st, ctl, segs>> /\ st.reason # "fallback"
  BY DEF Rests, Given, ColumnInv, OutputBegin, SteerNext
<1>2. \/ \E ok : Finish(t, ok)
      \/ Go(t, To(t, "rs.enter"))
      \/ Go(t, Idle)
  <2>1. CASE OutputBegin(t)
    BY <1>1, <2>1 DEF OutputBegin
  <2>2. CASE SteerNext(t)
    <3>1. task[t].op # "ack"
      BY NoSteering DEF Rests
    <3> QED
      BY <2>2, <3>1 DEF SteerNext
  <2> QED
    BY <2>1, <2>2
<1>3. Settled(t)
  BY <1>1, <1>2, FinishSettled, ToSettled, IdleSettled, GoSettled DEF Special
<1>4. \A u \in Tasks \ {t} : task'[u] = task[u]
  BY <1>1, <1>2, GoTask, NoSteering DEF Finish, Rests
<1> QED
  BY <1>1, <1>3, <1>4, StillTexts DEF Idles

LEMMA IdlesStops ==
  ASSUME Rests, StopInv, NEW t \in Tasks, Idles(t), ~Stops(task[t])
  PROVE  StopInv'
<1>1. AllEased
  BY StillEased DEF Idles
<1>2. ~Publishing(t)'
  BY DEF Idles, Settled, Publishing, Special
<1> QED
  BY <1>1, <1>2, StepStops DEF Idles, Stays, TextsStay

LEMMA MostStops ==
  ASSUME Rests, StopInv, NEW t \in Tasks,
         \/ CreateEntity(t) \/ CreateCheck(t) \/ RetireWrite(t)
         \/ ResumeEnter(t) \/ ResumeOk(t) \/ ResumeEnd(t)
         \/ OutputBegin(t) \/ SteerNext(t)
  PROVE  StopInv'
<1>1. Idles(t)
  BY CreatingIdles, ResumeIdles, OutputIdles
<1>2. ~Stops(task[t])
  BY DEF CreateEntity, CreateCheck, RetireWrite, ResumeEnter, ResumeOk,
     ResumeEnd,
     OutputBegin, SteerNext, At, Stops, Suspensions
<1> QED
  BY <1>1, <1>2, IdlesStops

LEMMA CreateSendStops ==
  ASSUME Rests, StopInv, NEW t \in Tasks, CreateSend(t)
  PROVE  StopInv'
<1> DEFINE q == [To(t, "cr.commit") EXCEPT !.ref = Len(segs')]
           c == NewCard(ReplyTo(task[t]))
<1>1. TypeOK /\ WritesInv /\ Acts(t) /\ UNCHANGED st /\ task[t].pc = "cr.send"
  BY CreateEntityActs DEF Rests, Given, CreateSend, At
<1>2. /\ ctl' = Append(ctl, NewController) /\ segs' = Append(segs, c)
      /\ Go(t, q)
  BY NoFailure DEF CreateSend, Rests
<1>3. q.pc = "cr.commit" /\ q.ref = Len(segs')
  BY <1>1 DEF TypeOK, To, Coroutines
<1>4. ~NewController.stopped /\ NewController.state = "idle"
  BY DEF NewController
<1> HIDE DEF q, c
<1>5. /\ Len(ctl') = Len(ctl) + 1 /\ Len(segs') = Len(segs) + 1
      /\ Len(ctl) = Len(segs) /\ Len(ctl) \in Nat
      /\ \A i \in 1..Len(ctl) : ctl'[i] = ctl[i]
      /\ ctl'[Len(ctl) + 1] = NewController
  BY <1>1, <1>2 DEF TypeOK, StopInv
<1>6. \A i \in 1..Len(ctl') : i \in 1..Len(ctl) \/ ctl'[i] = NewController
  BY <1>5
<1>7. task'[t] = q /\ \A u \in Tasks \ {t} : task'[u] = task[u]
  BY <1>1, <1>2, GoTask
<1>8. st.cur # 0 /\ st.open /\ ~st.closed /\ ctl'[st.cur].stopped
        => \E u \in Tasks : Stops(task'[u])
  <2>1. st.cur # 0 => st.cur \in 1..Len(ctl)
    BY <1>1, CurrentCard DEF Cards, StopInv
  <2>2. ~Stops(task[t])
    BY <1>1 DEF Stops, Suspensions
  <2> QED
    BY <1>5, <1>7, <2>1, <2>2 DEF StopInv
<1>9. \A u \in Tasks : Publishing(u)' => ~ctl'[task'[u].ref].stopped
  <2> SUFFICES ASSUME NEW u \in Tasks, Publishing(u)'
               PROVE  ~ctl'[task'[u].ref].stopped
    OBVIOUS
  <2>1. CASE u = t
    BY <1>3, <1>4, <1>5, <1>7, <2>1
  <2>2. CASE u # t
    <3>1. Publishing(u) /\ task'[u].ref = task[u].ref
      BY <1>7, <2>2 DEF Publishing
    <3>2. task[u].ref \in 1..Len(ctl)
      BY <1>1, <1>5, <3>1 DEF WritesInv, PublishedIsFresh, Cards
    <3> QED
      BY <1>5, <3>1, <3>2 DEF StopInv
  <2> QED
    BY <2>1, <2>2
<1>10. \A i \in 1..Len(ctl') :
         /\ ctl'[i].state = "scheduled" => ~ctl'[i].stopped
         /\ Flushing(i)' => ctl'[i].text = st'.content
  BY <1>1, <1>4, <1>5, <1>6 DEF StopInv, Flushing
<1> QED
  BY <1>1, <1>5, <1>8, <1>9, <1>10 DEF StopInv

\* The published segment becomes the state's, or is given up.
LEMMA CreateCommitStops ==
  ASSUME Rests, StopInv, NEW t \in Tasks, CreateCommit(t)
  PROVE  StopInv'
<1> DEFINE a == IF task[t].ret = "rs.end" THEN st.active ELSE t
<1>1. /\ TypeOK /\ WritesInv /\ Acts(t) /\ task[t].pc = "cr.commit"
      /\ UNCHANGED <<segs, ctl>> /\ lock = NoTask
  BY CreateCommitActs DEF Rests, Given, CreateCommit, At, MayLock
<1>2. \A i \in 1..Len(ctl) : ~Flushing(i)
  BY <1>1, Unwritten DEF Rests
<1>3. Publishing(t) /\ ~Stops(task[t])
  BY <1>1 DEF Publishing, Stops, Suspensions
<1>4. \/ UNCHANGED st /\ Go(t, To(t, "rt.write"))
      \/ st' = Opened(st, task[t].ref, a) /\ Created(t, TRUE)
  BY DEF CreateCommit
<1>5. Opened(st, task[t].ref, a).cur = task[t].ref
  BY DEF Opened, NewState
<1> HIDE DEF a
<1>6. CASE UNCHANGED st /\ Go(t, To(t, "rt.write"))
  <2>1. task'[t].ref = task[t].ref
    BY <1>1, <1>6, GoTask DEF To, TypeOK, Coroutines
  <2> QED
    BY <1>1, <1>2, <1>3, <1>6, <2>1, StillEased, StepStops DEF Acts, Stays
<1>7. CASE st' = Opened(st, task[t].ref, a) /\ Created(t, TRUE)
  <2>1. st'.cur = task[t].ref /\ ~ctl[task[t].ref].stopped
    BY <1>3, <1>5, <1>7 DEF StopInv
  <2>2. Settled(t)
    BY <1>1, <1>7, CreatedSettled
  <2>3. \A u \in Tasks : Publishing(u)' => Publishing(u) /\ task'[u] = task[u]
    BY <2>2 DEF Settled, Publishing, Special
  <2>4. \A i \in 1..Len(ctl') : ~Flushing(i)'
    BY <1>1, <1>2 DEF Flushing
  <2> QED
    BY <1>1, <2>1, <2>3, <2>4 DEF StopInv
<1> QED
  BY <1>4, <1>6, <1>7

LEMMA DrainStops ==
  ASSUME Rests, StopInv, NEW t \in Tasks, Drain(t)
  PROVE  StopInv'
<1>1. TypeOK /\ Acts(t) /\ UNCHANGED <<st, segs, ctl>>
  BY DrainActs DEF Rests, Given, Drain
<1>2. \E p \in {"sus.lock", "fin.lock"} : Go(t, To(t, p))
  BY DEF Drain
<1>3. task'[t].pc \in {"sus.lock", "fin.lock"}
  BY <1>1, <1>2, ToGoes
<1>4. Stops(task'[t]) /\ ~Publishing(t)'
  BY <1>3 DEF Stops, Suspensions, Publishing
<1> QED
  BY <1>1, <1>4, StillEased, StepStops DEF Acts, Stays

LEMMA SuspendLockedStops ==
  ASSUME Rests, StopInv, NEW t \in Tasks, SuspendLocked(t)
  PROVE  StopInv'
<1> DEFINE s == Anchored(st, task[t].want, task[t].why)
           q(w) == [s EXCEPT !.tool = w]
<1>1. /\ TypeOK /\ TypeOK' /\ Acts(t) /\ task[t].pc = "sus.lock"
      /\ UNCHANGED <<segs, ctl>>
  BY SuspendLockedActs DEF Rests, Given, SuspendLocked, At
<1>2. task[t].ret = "idle"
  BY <1>1 DEF Rests, RolesInv, Doing, Resumes, Resuming, Making, Creations,
     Finalizing
<1>3. \/ UNCHANGED st /\ Suspended(t) /\ st.closed
      \/ st' = s /\ Suspended(t) /\ ~st.open
      \/ /\ Go(t, To(t, "sus.write")) /\ UNCHANGED disp
         /\ st' = s \/ \E w : st' = q(w)
  BY DEF SuspendLocked
<1>4. /\ s \in States /\ s.cur = st.cur /\ s.closed = st.closed
      /\ s.open = st.open /\ s.content = st.content
  <2>1. st \in States /\ task[t].want \in Nat /\ task[t].why \in Reasons
    BY <1>1 DEF TypeOK, Coroutines
  <2>2. s \in States
    BY <2>1, AnchoredType
  <2> QED
    BY <2>1, <2>2 DEF Anchored, States
<1>5. \A w : /\ q(w).cur = s.cur /\ q(w).closed = s.closed
             /\ q(w).open = s.open /\ q(w).content = s.content
  BY <1>4 DEF States
<1> HIDE DEF s, q
<1>6. /\ st'.cur = st.cur /\ st'.closed = st.closed /\ st'.open = st.open
      /\ st'.content = st.content
  BY <1>3, <1>4, <1>5
<1>7. /\ ~Publishing(t)'
      /\ Stops(task'[t]) \/ ~st'.open \/ st'.closed
  <2>1. CASE Suspended(t)
    <3>1. task'[t].pc = "idle"
      BY <1>2, <2>1, SuspendedGoes
    <3> QED
      BY <1>1, <1>3, <1>6, <3>1, ToGoes DEF Publishing, Stops, Suspensions
  <2>2. CASE Go(t, To(t, "sus.write"))
    BY <1>1, <2>2, ToGoes DEF Publishing, Stops, Suspensions
  <2> QED
    BY <1>3, <2>1, <2>2
<1> QED
  BY <1>1, <1>6, <1>7, StillEased, StepStops DEF Acts, Stays

LEMMA SuspendWriteStops ==
  ASSUME Rests, StopInv, NEW t \in Tasks, SuspendWrite(t)
  PROVE  StopInv'
<1>1. /\ TypeOK /\ Acts(t) /\ task[t].pc = "sus.write" /\ Suspended(t)
  BY SuspendWriteActs DEF Rests, Given, SuspendWrite, At
<1>2. task[t].ret = "idle"
  BY <1>1 DEF Rests, RolesInv, Doing, Resumes, Resuming, Making, Creations,
     Finalizing
<1>3. task'[t].pc = "idle"
  BY <1>1, <1>2, SuspendedGoes
<1>4. /\ \E x : st' = Frozen(st, x)
      /\ UNCHANGED ctl /\ \E c : segs' = [segs EXCEPT ![st.cur] = c]
  BY NoFailure DEF SuspendWrite, Rests
<1>5. st'.content = st.content /\ st'.cur = st.cur /\ ~st'.open
  BY <1>1, <1>4 DEF Frozen, TypeOK, States
<1>6. Len(segs') = Len(segs)
  BY <1>1, <1>4 DEF TypeOK
<1>7. ~Publishing(t)'
  BY <1>3 DEF Publishing
<1> QED
  BY <1>1, <1>4, <1>5, <1>6, <1>7, StillEased, StepStops DEF Acts, Stays

LEMMA RequestEased ==
  ASSUME TypeOK, StopInv, SetCtl(Requested(Ctl)),
         \A i \in 1..Len(ctl) : ~Flushing(i)
  PROVE  AllEased
<1>1. /\ ctl' = [ctl EXCEPT ![st.cur] = Requested(Ctl)]
      /\ ctl \in Seq(Controllers)
  BY DEF SetCtl, TypeOK
<1>2. ASSUME NEW c \in Controllers, c.state = "scheduled" => ~c.stopped,
             c.state # "write"
      PROVE  Eased(c, Requested(c), st'.content)
  BY <1>2 DEF Eased, Requested, Controllers
<1>3. st.cur \in 1..Len(ctl) => Eased(ctl[st.cur], Requested(Ctl), st'.content)
  BY <1>1, <1>2, ElementType DEF StopInv, Flushing, Ctl
<1>4. \A i \in 1..Len(ctl) : Eased(ctl[i], ctl[i], st'.content)
  BY DEF StopInv, Eased, Flushing
<1>5. /\ Len(ctl') = Len(ctl)
      /\ \A i \in 1..Len(ctl) : \/ ctl'[i] = ctl[i]
                                \/ i = st.cur /\ ctl'[i] = Requested(Ctl)
  BY <1>1
<1> QED
  BY <1>3, <1>4, <1>5 DEF AllEased

LEMMA OutputCommitStops ==
  ASSUME Rests, StopInv, NEW t \in Tasks, OutputCommit(t)
  PROVE  StopInv'
<1>1. /\ TypeOK /\ task[t].pc = "out.commit" /\ lock = NoTask /\ UNCHANGED segs
      /\ \E ok : Finish(t, ok)
      /\ UNCHANGED ctl \/ SetCtl(Requested(Ctl))
      /\ st' \in {st, [st EXCEPT !.pending = TRUE],
                  [st EXCEPT !.content = task[t].text]}
  BY DEF Rests, Given, OutputCommit, At, MayLock
<1>2. \A i \in 1..Len(ctl) : ~Flushing(i)
  BY <1>1, Unwritten DEF Rests
<1>3. AllEased
  BY <1>1, <1>2, StillEased, RequestEased
<1>4. Stays
  BY <1>1 DEF Stays, TypeOK, States
<1>5. /\ \A u \in Tasks \ {t} : task'[u] = task[u]
      /\ ~Publishing(t)'
  <2>1. Settled(t)
    BY <1>1, FinishSettled
  <2> QED
    BY <1>1, <2>1, GoTask, NoSteering
       DEF Finish, Rests, Settled, Publishing, Special
<1>6. ~Stops(task[t])
  BY <1>1 DEF Stops, Suspensions
<1> QED
  BY <1>1, <1>3, <1>4, <1>5, <1>6, StepStops

\* t stops the controller of the segment that it is about to close off.
LEMMA QuietStops ==
  ASSUME Rests, StopInv, SetCtl(Quieted(Ctl)), UNCHANGED <<st, segs>>,
         NEW t \in Tasks, \A u \in Tasks \ {t} : task'[u] = task[u],
         Stops(task'[t])
  PROVE  StopInv'
<1>1. /\ TypeOK /\ WritesInv /\ ctl' = [ctl EXCEPT ![st.cur] = Quieted(Ctl)]
      /\ ctl \in Seq(Controllers)
  BY DEF Rests, Given, SetCtl, TypeOK
<1>2. /\ Len(ctl') = Len(ctl)
      /\ \A i \in 1..Len(ctl) : \/ ctl'[i] = ctl[i]
                                \/ i = st.cur /\ ctl'[i] = Quieted(ctl[i])
  BY <1>1 DEF Ctl
<1>3. \A c \in Controllers : /\ Quieted(c).state # "scheduled"
                             /\ Quieted(c).state = "write" => c.state = "write"
                             /\ Quieted(c).text = c.text
  BY ControllerKept DEF Quieted, Controllers
<1>4. ~Publishing(t)'
  BY DEF Stops, Suspensions, Publishing
<1>5. \A u \in Tasks : Publishing(u)' => ~ctl'[task'[u].ref].stopped
  <2> SUFFICES ASSUME NEW u \in Tasks, Publishing(u)'
               PROVE  ~ctl'[task'[u].ref].stopped
    OBVIOUS
  <2>1. Publishing(u) /\ task'[u].ref = task[u].ref
    BY <1>4 DEF Publishing
  <2>2. task[u].ref \in 1..Len(ctl) /\ task[u].ref # st.cur
    BY <1>1, <2>1 DEF WritesInv, PublishedIsFresh, Cards, StopInv
  <2> QED
    BY <1>2, <2>1, <2>2 DEF StopInv
<1>6. \A i \in 1..Len(ctl') :
        /\ ctl'[i].state = "scheduled" => ~ctl'[i].stopped
        /\ Flushing(i)' => ctl'[i].text = st'.content
  BY <1>1, <1>2, <1>3, ElementType DEF StopInv, Flushing
<1> QED
  BY <1>2, <1>5, <1>6 DEF StopInv

LEMMA FinalizedLeaves ==
  ASSUME TypeOK, NEW t \in Tasks, NEW ok, Finalized(t, ok)
  PROVE  task'[t].pc = "fin.ret" /\ \A u \in Tasks \ {t} : task'[u] = task[u]
<1>1. PICK r : Go(t, r) /\ r.pc = "fin.ret"
  BY FinalizedGoes
<1> QED
  BY <1>1, GoTask

LEMMA FinalizeEnterStops ==
  ASSUME Rests, StopInv, NEW t \in Tasks, FinalizeEnter(t)
  PROVE  StopInv'
<1> DEFINE q == [To(t, "fin.quiet") EXCEPT !.ref = st.cur]
<1>1. /\ TypeOK /\ UNCHANGED <<st, segs>> /\ ~st.trans
      /\ st.reason # "fallback" /\ task[t].pc = "fin.enter"
  BY FinalizeEnterActs
     DEF Rests, Given, ColumnInv, RolesInv, FinalizeEnter, At
<1>2. \/ st.closed /\ UNCHANGED ctl /\ \E ok : Finalized(t, ok)
      \/ SetCtl(Quieted(Ctl)) /\ Go(t, q)
  BY <1>1 DEF FinalizeEnter
<1>3. q.pc = "fin.quiet"
  BY <1>1 DEF To, TypeOK, Coroutines
<1> HIDE DEF q
<1>4. CASE st.closed /\ UNCHANGED ctl /\ \E ok : Finalized(t, ok)
  BY <1>1, <1>4, FinalizedLeaves, StillEased, StepStops DEF Publishing, Stays
<1>5. CASE SetCtl(Quieted(Ctl)) /\ Go(t, q)
  <2>1. task'[t] = q /\ \A u \in Tasks \ {t} : task'[u] = task[u]
    BY <1>1, <1>5, GoTask
  <2> QED
    BY <1>1, <1>3, <1>5, <2>1, QuietStops DEF Stops
<1> QED
  BY <1>2, <1>4, <1>5

LEMMA FinalizeLockedStops ==
  ASSUME Rests, StopInv, NEW t \in Tasks, FinalizeLocked(t)
  PROVE  StopInv'
<1> DEFINE x == Terminal(task[t].text)
<1>1. /\ TypeOK /\ UNCHANGED <<segs, ctl>> /\ lock = NoTask
  BY DEF Rests, Given, FinalizeLocked, MayLock
<1>2. \/ /\ UNCHANGED st /\ (st.closed \/ ~st.open)
         /\ \E ok : Finalized(t, ok)
      \/ st' = [st EXCEPT !.content = x] /\ Go(t, To(t, "fin.write"))
  BY DEF FinalizeLocked
<1> HIDE DEF x
<1>3. AllEased
  BY <1>1, Unwritten, StillEased DEF Rests
<1>4. Stays /\ st'.closed = st.closed /\ st'.open = st.open
  BY <1>1, <1>2 DEF Stays, TypeOK, States
<1>5. /\ \A u \in Tasks \ {t} : task'[u] = task[u]
      /\ ~Publishing(t)'
      /\ Stops(task'[t]) \/ ~st'.open \/ st'.closed
  <2>1. CASE (st.closed \/ ~st.open) /\ \E ok : Finalized(t, ok)
    BY <1>1, <1>4, <2>1, FinalizedLeaves DEF Publishing
  <2>2. CASE Go(t, To(t, "fin.write"))
    BY <1>1, <2>2, ToGoes, GoTask DEF Publishing, Stops
  <2> QED
    BY <1>2, <2>1, <2>2
<1> QED
  BY <1>1, <1>3, <1>4, <1>5, StepStops

\* The current card is written.
LEMMA CardWritten ==
  ASSUME TypeOK, NEW c, segs' = [segs EXCEPT ![st.cur] = c]
  PROVE  /\ Len(segs') = Len(segs)
         /\ st.cur \in Cards => segs'[st.cur] = c
BY DEF TypeOK, Cards

LEMMA FinalizeWriteStops ==
  ASSUME Rests, StopInv, NEW t \in Tasks, FinalizeWrite(t)
  PROVE  StopInv'
<1>1. /\ TypeOK /\ \E ok : Finalized(t, ok)
  BY DEF Rests, Given, FinalizeWrite
<1>2. /\ UNCHANGED ctl /\ \E c : segs' = [segs EXCEPT ![st.cur] = c]
  BY NoFailure DEF FinalizeWrite, Rests
<1>3. st'.closed /\ st'.cur = st.cur
  BY FinalizeWriteKept DEF Rests, StKept
<1>4. \A i \in 1..Len(ctl) : ~Flushing(i)
  <2>1. Writing(t) /\ WriterHasLock
    BY DEF FinalizeWrite, At, Writing, Rests, Given, WritesInv
  <2>2. lock = t
    BY <2>1 DEF WriterHasLock
  <2> QED
    BY <2>2, Unwritten DEF Rests
<1>5. task'[t].pc = "fin.ret" /\ \A u \in Tasks \ {t} : task'[u] = task[u]
  BY <1>1, FinalizedLeaves
<1> QED
  BY <1>1, <1>2, <1>3, <1>4, <1>5, CardWritten, StillEased, StepStops
     DEF Stays, Publishing

\* Steps that end a coroutine or lead it to a tool's write.
LEMMA EndingStops ==
  ASSUME Rests, StopInv, NEW t \in Tasks,
         \/ FinalizeReturn(t) \/ ToolCheck(t) \/ ToolCommit(t) \/ ToolWrite(t)
         \/ ExpireLocked(t)
  PROVE  StopInv'
<1>1. TypeOK /\ st \in States
  BY DEF Rests, Given, TypeOK
<1>2. /\ UNCHANGED ctl /\ ~Stops(task[t])
      /\ segs' = segs \/ \E c : segs' = [segs EXCEPT ![st.cur] = c]
      /\ \/ UNCHANGED st
         \/ st' = Forgotten(st)
         \/ \E x : st' = [st EXCEPT !.defTool = x]
         \/ \E x, y : st' = [st EXCEPT !.tool = x, !.seq = y]
         \/ st' = [st EXCEPT !.pending = FALSE, !.phase = "generating"]
         \/ st' = [st EXCEPT !.closed = TRUE, !.routed = FALSE]
  <2>1. CASE FinalizeReturn(t) \/ ExpireLocked(t)
    BY <2>1 DEF FinalizeReturn, ExpireLocked, At, Stops, Suspensions
  <2>2. CASE ToolCheck(t) \/ ToolCommit(t)
    BY <2>2 DEF ToolCheck, ToolCommit, At, Stops, Suspensions
  <2>3. CASE ToolWrite(t)
    BY <2>3, NoFailure DEF ToolWrite, Rests, At, Stops, Suspensions
  <2> QED
    BY <2>1, <2>2, <2>3
<1>3. \/ \E ok : Finish(t, ok)
      \/ \E p \in {"st.next", "tool.commit", "tool.write"} : Go(t, To(t, p))
      \/ Go(t, Idle)
  BY DEF FinalizeReturn, ToolCheck, ToolCommit, ToolWrite, ExpireLocked
<1>4. Stays /\ st'.content = st.content
  BY <1>1, <1>2 DEF Forgotten, Stays, States
<1>5. Len(segs') = Len(segs)
  BY <1>1, <1>2, CardWritten
<1>6. /\ \A u \in Tasks \ {t} : task'[u] = task[u]
      /\ task'[t].pc \in {"idle", "st.next", "tool.commit", "tool.write"}
  <2>1. Idle.pc = "idle"
    BY DEF Idle
  <2>2. CASE (\E ok : Finish(t, ok)) \/ Go(t, Idle)
    BY <1>1, <2>1, <2>2, GoTask, NoSteering DEF Finish, Rests
  <2>3. CASE \E p \in {"st.next", "tool.commit", "tool.write"} : Go(t, To(t, p))
    BY <1>1, <2>3, ToGoes, GoTask
  <2> QED
    BY <1>3, <2>2, <2>3
<1>7. ~Publishing(t)'
  BY <1>6 DEF Publishing
<1> QED
  BY <1>2, <1>4, <1>5, <1>6, <1>7, StillEased, StepStops

LEMMA RunStops ==
  ASSUME Rests, StopInv, NEW t \in Tasks, Run(t)
  PROVE  StopInv'
<1>1. CASE \/ CreateEntity(t) \/ CreateCheck(t) \/ CreateSend(t)
           \/ CreateCommit(t) \/ RetireWrite(t)
  BY <1>1, MostStops, CreateSendStops, CreateCommitStops
<1>2. CASE \/ Drain(t) \/ SuspendLocked(t) \/ SuspendWrite(t)
           \/ ResumeEnter(t) \/ ResumeOk(t) \/ ResumeEnd(t)
  BY <1>2, MostStops, DrainStops, SuspendLockedStops, SuspendWriteStops
<1>3. CASE SteerBegin(t) \/ SteerEnd(t) \/ SteerSilent(t) \/ Adopt(t)
  BY <1>3, NoSteering DEF SteerBegin, SteerEnd, SteerSilent, Adopt, At, Rests
<1>4. CASE FallbackWrite(t)
  BY <1>4 DEF FallbackWrite, At, Rests, Given, ColumnInv, AllApt, Apt
<1>5. CASE SteerNext(t) \/ OutputBegin(t) \/ OutputCommit(t)
  BY <1>5, MostStops, OutputCommitStops
<1>6. CASE \/ FinalizeEnter(t) \/ FinalizeLocked(t) \/ FinalizeWrite(t)
           \/ FinalizeReturn(t)
  BY <1>6, FinalizeEnterStops, FinalizeLockedStops, FinalizeWriteStops,
     EndingStops
<1>7. CASE ToolCheck(t) \/ ToolCommit(t) \/ ToolWrite(t) \/ ExpireLocked(t)
  BY <1>7, EndingStops
<1> QED
  BY <1>1, <1>2, <1>3, <1>4, <1>5, <1>6, <1>7 DEF Run

\* Another coroutine starts.
LEMMA StartStops ==
  ASSUME Rests, StopInv, UNCHANGED <<st, segs, ctl>>, NEW t \in Tasks, NEW r,
         Go(t, r), task[t].pc = "idle", ~(r.pc \in {"cr.commit", "rt.write"})
  PROVE  StopInv'
<1>1. TypeOK
  BY DEF Rests, Given
<1>2. task'[t] = r /\ \A u \in Tasks \ {t} : task'[u] = task[u]
  BY <1>1, GoTask
<1>3. ~Publishing(t)' /\ ~Stops(task[t])
  BY <1>2 DEF Publishing, Stops, Suspensions
<1> QED
  BY <1>2, <1>3, StillEased, StepStops DEF Stays

LEMMA CallsStop ==
  ASSUME Rests, StopInv,
         \/ StreamDelta \/ FinalAnswer \/ Progress \/ ToolUpdate
         \/ DispatchStart \/ Expire
  PROVE  StopInv'
<1> DEFINE r(o, x, p) == [Idle EXCEPT !.op = o, !.text = x, !.pc = p]
           q(w) == [Idle EXCEPT !.op = "tool", !.tool = w, !.pc = "rs.enter"]
           b == [Idle EXCEPT !.op = "start", !.want = clock + 1,
                             !.ret = "st.next"]
           c == [b EXCEPT !.pc = "cr.entity", !.ref = 0]
           e == [Idle EXCEPT !.op = "expire", !.pc = "ex.lock"]
<1>1. UNCHANGED <<st, segs, ctl>>
  BY DEF StreamDelta, FinalAnswer, Progress, ToolUpdate, DispatchStart, Expire
<1>2. /\ \A o, x, p : r(o, x, p).pc = p
      /\ \A w : q(w).pc = "rs.enter"
      /\ c.pc = "cr.entity" /\ e.pc = "ex.lock"
  BY DEF Idle
<1>3. CASE StreamDelta \/ Progress
  <2>1. \/ /\ Go("consumer", r("stream", "part", "out.begin"))
           /\ task["consumer"].pc = "idle"
        \/ /\ Go("notifier", r("progress", "prog", "out.begin"))
           /\ task["notifier"].pc = "idle"
    BY <1>3 DEF StreamDelta, Progress, Free
  <2> HIDE DEF r
  <2> QED
    BY <1>1, <1>2, <2>1, StartStops, TaskNames
<1>4. CASE ToolUpdate
  <2>1. task["agent"].pc = "idle" /\ \E w : Go("agent", q(w))
    BY <1>4 DEF ToolUpdate, AgentTurn, Free
  <2> HIDE DEF q
  <2> QED
    BY <1>1, <1>2, <2>1, StartStops, TaskNames
<1>5. CASE DispatchStart \/ Expire
  <2>1. \/ task["runner"].pc = "idle" /\ Go("runner", c)
        \/ task["expirer"].pc = "idle" /\ Go("expirer", e)
    BY <1>5 DEF DispatchStart, Expire, Create, Free
  <2> HIDE DEF c, e
  <2> QED
    BY <1>1, <1>2, <2>1, StartStops, TaskNames
<1>6. CASE FinalAnswer
  <2> DEFINE f == [Idle EXCEPT !.op = "final", !.text = "answer"]
             send == [f EXCEPT !.pc = "rs.enter"]
             text == [f EXCEPT !.op = "stream", !.pc = "out.begin"]
  <2>1. send.pc = "rs.enter" /\ text.pc = "out.begin"
    BY DEF Idle
  <2>2. "edit" \notin FinalWays
    BY DEF Rests
  <2>3. /\ task["consumer"].pc = "idle"
        /\ Go("consumer", send) \/ Go("consumer", text) \/ UNCHANGED task
    <3>1. CASE st.terminal
      BY <1>6, <2>2, <3>1 DEF FinalAnswer, Free
    <3>2. CASE ~st.terminal
      BY <1>6, <2>2, <3>2 DEF FinalAnswer, Free
    <3> QED
      BY <3>1, <3>2
  <2> HIDE DEF send, text
  <2>4. CASE UNCHANGED task
    BY <1>1, <2>4, StillEased, EasedStops DEF Stays, Publishing
  <2> QED
    BY <1>1, <2>1, <2>3, <2>4, StartStops, TaskNames
<1> QED
  BY <1>3, <1>4, <1>5, <1>6

LEMMA BoundaryStops ==
  ASSUME Rests, StopInv, NEW w, Boundary(w)
  PROVE  StopInv'
<1> DEFINE r == [Idle EXCEPT !.op = "boundary", !.why = w, !.want = clock + 1]
           q == [r EXCEPT !.pc = "sus.quiet", !.ref = st.cur]
<1>1. TypeOK /\ UNCHANGED <<st, segs>>
  BY DEF Rests, Given, Boundary
<1>2. \/ SetCtl(Quieted(Ctl)) /\ Go("agent", q)
      \/ UNCHANGED <<ctl, task>>
  BY DEF Boundary, Suspend
<1>3. q.pc = "sus.quiet"
  BY DEF Idle
<1> HIDE DEF q
<1>4. CASE SetCtl(Quieted(Ctl)) /\ Go("agent", q)
  <2>1. /\ task'["agent"] = q
        /\ \A u \in Tasks \ {"agent"} : task'[u] = task[u]
    BY <1>1, <1>4, GoTask, TaskNames
  <2>2. Stops(task'["agent"])
    BY <1>3, <2>1 DEF Stops, Suspensions
  <2> QED
    BY <1>1, <1>4, <2>1, <2>2, QuietStops, TaskNames
<1>5. CASE UNCHANGED <<ctl, task>>
  BY <1>1, <1>5, StillEased, EasedStops DEF Stays, Publishing
<1> QED
  BY <1>2, <1>4, <1>5

LEMMA MarkStops ==
  ASSUME Rests, StopInv, MarkTerminal
  PROVE  StopInv'
<1>1. /\ TypeOK /\ UNCHANGED <<segs, ctl, task>>
      /\ st' \in {st, [st EXCEPT !.terminal = TRUE]}
  BY DEF Rests, Given, MarkTerminal
<1>2. Stays /\ st'.content = st.content
  BY <1>1 DEF Stays, TypeOK, States
<1> QED
  BY <1>1, <1>2, StillEased, EasedStops DEF Publishing

\* Completion leaves the content of the turn.
LEMMA CompleteText ==
  ASSUME Rests, Complete
  PROVE  /\ st'.content = st.content /\ st'.flushed = st.flushed
         /\ st'.disabled = st.disabled
<1>1. PICK e \in Endings : CompleteAs(e)
  BY DEF Complete, CompleteAs
<1> DEFINE out == CASE e = "success" -> "complete"
                    [] e = "failure" -> "error"
                    [] e = "cancelled" -> "stopped"
           close == ~st.closed /\ (st.reason = "artifact" \/ e # "success")
           c == ClosedBy(st, out)
           s == IF close THEN c ELSE st
<1>2. st \in States /\ out \in Phases
  BY ChoicesAssumption DEF Phases, Outs, Rests, Given, TypeOK
<1> HIDE DEF out
<1>3. c \in States /\ c.content = st.content /\ c.flushed = st.flushed
      /\ c.disabled = st.disabled
  BY <1>2, ClosedByType DEF ClosedBy, States
<1> HIDE DEF c
<1>4. s \in States /\ s.content = st.content /\ s.flushed = st.flushed
      /\ s.disabled = st.disabled
  BY <1>2, <1>3
<1>5. st' = st \/ st' = Forgotten(s) \/ st' = s
  BY <1>1 DEF CompleteAs, c, out
<1> HIDE DEF s
<1>6. /\ Forgotten(s).content = s.content /\ Forgotten(s).flushed = s.flushed
      /\ Forgotten(s).disabled = s.disabled
  BY <1>4 DEF Forgotten, States
<1> QED
  BY <1>4, <1>5, <1>6

LEMMA CompleteStops ==
  ASSUME Rests, StopInv, Complete
  PROVE  StopInv'
<1>1. UNCHANGED <<segs, ctl>> /\ st'.content = st.content /\ st'.cur = st.cur
  BY CompleteText, CompleteKept DEF Complete, Rests, StKept
<1>2. /\ st'.open = st.open /\ (st.closed => st'.closed)
      /\ \A u \in Tasks \ {"runner"} : task'[u] = task[u]
      /\ UNCHANGED task \/ task'["runner"].pc = "fin.enter"
  BY CompleteGoes
<1>3. ~Publishing("runner")' /\ ~Stops(task["runner"])
  BY <1>2, CompleteAt DEF Publishing, Stops, Suspensions
<1> QED
  BY <1>1, <1>2, <1>3, StillEased, StepStops, TaskNames DEF Stays

\* A flush that is over.
LEMMA FlushedEased ==
  ASSUME NEW c \in Controllers, NEW x
  PROVE  Eased(c, Flushed(c), x) /\ Flushed(c).stopped = c.stopped
BY DEF Eased, Flushed, Controllers

\* One controller moves on with its flush.
LEMMA OneEased ==
  ASSUME Rests, StopInv, NEW i \in 1..Len(ctl), NEW d,
         ctl' = [ctl EXCEPT ![i] = d], Eased(ctl[i], d, st'.content),
         st'.content = st.content
  PROVE  AllEased
<1>1. ctl \in Seq(Controllers)
  BY DEF Rests, Given, TypeOK
<1>2. /\ Len(ctl') = Len(ctl) /\ ctl'[i] = d
      /\ \A j \in 1..Len(ctl) \ {i} : ctl'[j] = ctl[j]
  BY <1>1
<1>3. \A j \in 1..Len(ctl) : Eased(ctl[j], ctl[j], st'.content)
  BY DEF StopInv, Eased, Flushing
<1> QED
  BY <1>2, <1>3 DEF AllEased

\* A flush that succeeds brings its text to the current card.
LEMMA FlushShows ==
  ASSUME Rests, NEW i \in 1..Len(ctl), FlushWrite(i)
  PROVE  /\ ctl' = [ctl EXCEPT ![i] = Flushed(ctl[i])]
         /\ Len(segs') = Len(segs) /\ st.cur # 0
         /\ segs'[st.cur].text = ctl[i].text
         /\ st'.content = st.content /\ st'.flushed = ctl[i].text
         /\ st'.disabled = st.disabled
<1> DEFINE text == ctl[i].text
           full == st.phase = "thinking" \/ st.pending
           m == st.seq + 1
           g == [st EXCEPT !.seq = m, !.phase = "generating", !.pending = FALSE]
           s == IF full THEN [st EXCEPT !.seq = @ + 1, !.phase = "generating",
                                        !.pending = FALSE]
                ELSE st
           n == s.seq + 1
           done == [s EXCEPT !.flushed = text, !.seq = n]
           changed == text # st.flushed
           card == IF full THEN [segs[st.cur] EXCEPT !.status = "streaming",
                                   !.text = text, !.tool = st.tool,
                                   !.seq = s.seq]
                   ELSE segs[st.cur]
           shown == IF changed THEN [card EXCEPT !.text = text, !.seq = n]
                    ELSE card
<1>1. /\ TypeOK /\ WritesInv /\ st \in States /\ Flushing(i)
      /\ \A o : Spend(o) => o = "ok"
  BY NoFailure DEF Rests, Given, TypeOK, FlushWrite, Flushing
<1>2. st.cur # 0 /\ st.cur \in Cards
  BY <1>1, CurrentCard DEF Rests, Given, BoundaryInv, FlushesBelow
<1>3. segs[st.cur] \in CardType
  BY <1>1, <1>2, ElementType DEF TypeOK, Cards
<1>4. changed \/ full
  BY <1>1 DEF WritesInv, SequenceAhead
<1>5. /\ st' = IF changed THEN done ELSE s
      /\ segs' = [segs EXCEPT ![st.cur] = shown]
      /\ ctl' = [ctl EXCEPT ![i] = Flushed(ctl[i])]
  <2> HIDE DEF done, s, changed, full
  <2>1. /\ st' = IF changed THEN done ELSE s
        /\ segs' = [segs EXCEPT ![st.cur] = shown]
    BY <1>1 DEF FlushWrite, done, s, changed, full
  <2>2. ctl' = [ctl EXCEPT ![i] = Flushed(ctl[i])]
    BY <1>1 DEF FlushWrite
  <2> QED
    BY <2>1, <2>2
<1>6. s = g \/ s = st
  OBVIOUS
<1>7. m \in Nat
  BY <1>1 DEF States
<1> HIDE DEF m, s
<1>8. /\ s \in States /\ s.content = st.content /\ s.flushed = st.flushed
      /\ s.disabled = st.disabled
  BY <1>1, <1>6, <1>7 DEF States, Phases
<1> HIDE DEF n
<1>9. /\ done.content = s.content /\ done.flushed = text
      /\ done.disabled = s.disabled
  BY <1>8 DEF States
<1> HIDE DEF done
<1>10. /\ full => card.text = text
       /\ changed => shown.text = text
       /\ ~changed => shown = card
  <2>1. full => card.text = text
    BY <1>3 DEF CardType
  <2>2. [card EXCEPT !.text = text, !.seq = n].text = text
    BY <1>3 DEF CardType
  <2> QED
    BY <2>1, <2>2
<1> HIDE DEF card, full
<1>11. shown.text = text
  BY <1>4, <1>10
<1> HIDE DEF shown
<1>12. Len(segs') = Len(segs) /\ segs'[st.cur] = shown
  BY <1>1, <1>2, <1>5, CardWritten
<1> QED
  BY <1>2, <1>5, <1>8, <1>9, <1>11, <1>12

LEMMA FlushStops ==
  ASSUME Rests, StopInv, Flush
  PROVE  StopInv'
<1>1. PICK i \in 1..Len(ctl) : FlushFire(i) \/ FlushLocked(i) \/ FlushWrite(i)
  BY DEF Flush
<1> DEFINE fire == [ctl[i] EXCEPT !.state = "inflight"]
           write == [ctl[i] EXCEPT !.state = "write", !.text = st.content]
<1>2. TypeOK /\ ctl[i] \in Controllers /\ UNCHANGED task
  BY <1>1, ElementType
     DEF Rests, Given, TypeOK, FlushFire, FlushLocked, FlushWrite
<1>3. /\ fire.state = "inflight" /\ fire.stopped = ctl[i].stopped
      /\ write.state = "write" /\ write.stopped = ctl[i].stopped
      /\ write.text = st.content
  BY <1>2 DEF Controllers
<1> HIDE DEF fire, write
<1>4. Stays /\ Len(segs') = Len(segs) /\ st'.content = st.content
  <2>1. CASE FlushFire(i) \/ FlushLocked(i)
    BY <2>1 DEF FlushFire, FlushLocked, Stays
  <2>2. CASE FlushWrite(i)
    BY <2>2, FlushShows, FlushWriteKept DEF Rests, StKept, StOpen, Stays
  <2> QED
    BY <1>1, <2>1, <2>2
<1>5. \E d : ctl' = [ctl EXCEPT ![i] = d] /\ Eased(ctl[i], d, st'.content)
  <2>1. Eased(ctl[i], fire, st'.content) /\ Eased(ctl[i], write, st'.content)
    BY <1>3, <1>4 DEF Eased
  <2>2. Eased(ctl[i], Flushed(ctl[i]), st'.content)
    BY <1>2, FlushedEased
  <2>3. ctl' \in {[ctl EXCEPT ![i] = fire], [ctl EXCEPT ![i] = write],
                  [ctl EXCEPT ![i] = Flushed(ctl[i])]}
    <3>1. CASE FlushFire(i)
      BY <3>1 DEF FlushFire, fire
    <3>2. CASE FlushLocked(i)
      BY <3>2 DEF FlushLocked, write
    <3>3. CASE FlushWrite(i)
      BY <3>3, FlushShows
    <3> QED
      BY <1>1, <3>1, <3>2, <3>3
  <2> QED
    BY <2>1, <2>2, <2>3
<1>6. AllEased
  BY <1>4, <1>5, OneEased
<1> QED
  BY <1>2, <1>4, <1>6, EasedStops DEF Publishing

LEMMA NextStops ==
  ASSUME Rests, StopInv, [Next]_vars, Steers = {}, MaxDispatch <= 1
  PROVE  StopInv'
<1>1. ASSUME NEW t \in Tasks, Run(t)
      PROVE  StopInv'
  BY <1>1, RunStops
<1>2. CASE \E w \in {"artifact", "approval", "question"} : Boundary(w)
  BY <1>2, BoundaryStops
<1>3. CASE \/ StreamDelta \/ FinalAnswer \/ Progress \/ ToolUpdate
           \/ DispatchStart \/ Expire
  BY <1>3, CallsStop
<1>4. CASE MarkTerminal \/ Complete \/ Flush
  BY <1>4, MarkStops, CompleteStops, FlushStops
<1>5. CASE DispatchContinue \/ ShutDown
  BY <1>5, OneDispatch DEF ShutDown, Rests
<1>6. CASE Done \/ UNCHANGED vars
  BY <1>6, StillEased, EasedStops DEF Done, vars, Stays, Publishing
<1> QED
  BY <1>1, <1>2, <1>3, <1>4, <1>5, <1>6 DEF Next

LEMMA InitStops == Init => StopInv
<1> SUFFICES ASSUME Init
             PROVE  StopInv
  OBVIOUS
<1>1. Idle.pc = "idle"
  BY DEF Idle
<1>2. \A t \in Tasks : ~Publishing(t)
  BY <1>1 DEF Init, Publishing
<1>3. st.cur = 0
  BY DEF Init, NewState
<1>4. ctl = <<>> /\ segs = <<>> /\ Len(ctl) = 0
  BY DEF Init
<1> QED
  BY <1>2, <1>3, <1>4 DEF StopInv

-----------------------------------------------------------------------------
(* The answer of that dispatch                                             *)

\* Program points of a finalize that is not over.
Finals == {"fin.enter", "fin.quiet", "fin.lock", "fin.write"}

\* The current card shows the answer.
OnCard == st.cur # 0 /\ segs[st.cur].text = "answer"

\* A flush of the current segment, or the end of the dispatch, is yet to write.
Coming ==
  \/ st.cur # 0 /\ ctl[st.cur].state # "idle"
  \/ task["runner"].pc \in Finals

\* The answer is shown, will be, or is hidden by a question on purpose.
Answered ==
  \/ st.reason = "question"
  \/ st.content = "answer" /\ (OnCard \/ (~st.closed /\ Coming))

\* What the state holds of the answer.
StateAnswers ==
  /\ ~st.disabled
  /\ disp.final => disp.count > 0
  /\ disp.acked => disp.final /\ Answered
  /\ st.content = "answer" => disp.final /\ st.open
  /\ st.flushed = "answer" => st.content = "answer" /\ OnCard
  /\ st.closed => Ended \/ (st.content = "answer" /\ OnCard)

\* The consumer delivers the answer once it came, to a turn that is not closed.
ConsumerAnswers ==
  /\ task["consumer"].pc # "idle"
       => (task["consumer"].text = "answer" <=> disp.final)
  /\ task["consumer"].pc = "fin.write" => st.content = "answer"
  /\ task["consumer"].pc = "fin.ret" => Answered
  /\ task["consumer"].pc \notin {"idle", "fin.ret"} => ~st.closed
  /\ disp.acked => task["consumer"].pc = "idle"

\* The end of the dispatch writes the answer if the state has it.
RunnerAnswers ==
  task["runner"].pc \in Finals
    => (task["runner"].text = "answer" <=> st.content = "answer")

\* The inductive invariant of the answer.
AnswerInv ==
  /\ StateAnswers
  /\ ConsumerAnswers
  /\ RunnerAnswers
  /\ task["expirer"].pc = "idle"

\* What the steps below start from.
Answers == Rests /\ EndsInv' /\ StopInv /\ AnswerInv /\ ~MayExpire

LEMMA AnswerFacts ==
  ASSUME Answers
  PROVE  /\ TypeOK /\ WritesInv
         /\ disp.final => task["agent"].pc = "idle" /\ disp.marked
         /\ task["consumer"].pc # "idle"
              => disp.phase = "active" /\ task["runner"].pc \notin Finals
         /\ disp.phase = "active" => st.closed \/ st.routed
         /\ disp.phase # "idle" => disp.count > 0
         /\ ~disp.final => /\ st.content # "answer" /\ st.flushed # "answer"
                           /\ ~disp.acked /\ (st.closed => Ended)
                           /\ task["consumer"].pc \notin Finalizing
<1>1. TypeOK /\ WritesInv
  BY DEF Answers, Rests, Given
<1>2. disp.final => task["agent"].pc = "idle" /\ disp.marked
  BY DEF Answers, Rests, EndsInv, StateRests, AgentRests
<1>3. task["consumer"].pc # "idle" => disp.phase = "active"
  BY DEF Answers, Rests, EndsInv, ConsumerRests
<1>4. task["runner"].pc \in Finals => disp.phase = "idle"
  <2>1. task["runner"].pc \in Finals => task["runner"].op = "complete"
    BY TaskNames DEF Answers, Rests, RolesInv, Doing, Resumes, Resuming, Making,
       Creations, Suspensions, Finals
  <2> QED
    BY <2>1 DEF Answers, Rests, EndsInv, RunnerRests
<1>5. /\ disp.phase = "active" => st.closed \/ st.routed
      /\ disp.phase # "idle" => disp.count > 0
  BY DEF Answers, Rests, EndsInv, StateRests
<1>6. ~disp.final => /\ st.content # "answer" /\ st.flushed # "answer"
                     /\ ~disp.acked /\ (st.closed => Ended)
  BY DEF Answers, AnswerInv, StateAnswers
<1>7. ~disp.final => task["consumer"].pc \notin Finalizing
  <2>1. Doing("consumer", task["consumer"])
    BY TaskNames DEF Answers, Rests, RolesInv
  <2>2. task["consumer"].pc # "fb.call"
    BY TaskNames DEF Answers, Rests, Given, ColumnInv, AllApt, Apt
  <2> QED
    BY <2>1, <2>2 DEF Doing, Resumes, Resuming, Making,
       Creations, Suspensions, Finalizing, Answers, AnswerInv, ConsumerAnswers
<1> QED
  BY <1>1, <1>2, <1>3, <1>4, <1>5, <1>6, <1>7

\* Before the answer came, the state needs only to stay without it.
LEMMA EarlyAnswers ==
  ASSUME Answers, ~disp'.final, ~disp'.acked,
         st'.content # "answer", st'.flushed # "answer", ~st'.disabled,
         st'.closed => Ended',
         task'["consumer"].pc # "idle"
           => /\ task'["consumer"].text # "answer"
              /\ task'["consumer"].pc \notin {"fin.write", "fin.ret"},
         task'["runner"].pc \in Finals => task'["runner"].text # "answer",
         task'["expirer"].pc = "idle"
  PROVE  AnswerInv'
<1>1. StateAnswers'
  BY DEF StateAnswers
<1>2. ConsumerAnswers'
  <2>1. task'["consumer"].pc # "idle" => ~st'.closed
    BY DEF Answers, EndsInv, ConsumerRests, Ended
  <2> QED
    BY <2>1 DEF ConsumerAnswers
<1>3. RunnerAnswers'
  BY DEF RunnerAnswers
<1> QED
  BY <1>1, <1>2, <1>3 DEF AnswerInv

\* So does a step of the agent.
LEMMA AgentAnswers ==
  ASSUME Answers, ~disp.final, ~disp'.final, ~disp'.acked,
         disp'.phase = disp.phase, disp'.count = disp.count,
         st'.content = st.content, st'.flushed = st.flushed,
         st'.disabled = st.disabled, st'.closed = st.closed,
         \A u \in Tasks \ {"agent"} : task'[u] = task[u]
  PROVE  AnswerInv'
<1>1. /\ task'["consumer"] = task["consumer"]
      /\ task'["runner"] = task["runner"] /\ task'["expirer"] = task["expirer"]
  BY TaskNames
<1>2. /\ st.content # "answer" /\ st.flushed # "answer"
      /\ st.closed => Ended
      /\ task["consumer"].pc \notin {"fin.write", "fin.ret"}
  BY AnswerFacts DEF Finalizing
<1>3. /\ ~st.disabled /\ task["expirer"].pc = "idle"
      /\ task["consumer"].pc # "idle" => task["consumer"].text # "answer"
      /\ task["runner"].pc \in Finals => task["runner"].text # "answer"
  BY <1>2 DEF Answers, AnswerInv, StateAnswers, ConsumerAnswers, RunnerAnswers
<1> QED
  BY <1>1, <1>2, <1>3, EarlyAnswers DEF Ended

\* The turn keeps its content, its segment and what its card shows.
KeepsText ==
  /\ st'.content = st.content /\ st'.flushed = st.flushed
  /\ st'.disabled = st.disabled /\ st'.reason = st.reason
  /\ st'.closed = st.closed /\ st'.open = st.open
  /\ OnCard => OnCard'

LEMMA StillAnswered ==
  ASSUME KeepsText, Answered, Coming => Coming' \/ st.closed \/ OnCard
  PROVE  Answered'
BY DEF KeepsText, Answered

\* A step of t that keeps all that.
LEMMA CalmAnswers ==
  ASSUME Answers, Marks, KeepsText, NEW t \in Tasks, t # "expirer",
         \A u \in Tasks \ {t} : task'[u] = task[u],
         disp'.acked
           => disp.final /\ Answered' /\ task'["consumer"].pc = "idle",
         t # "consumer" => (Answered => Answered'),
         t = "consumer" =>
           \/ task'[t].pc = "idle"
           \/ /\ task[t].pc # "idle" /\ task'[t].text = task[t].text
              /\ task'[t].pc # "fin.write"
              /\ IF task'[t].pc = "fin.ret" THEN Answered'
                 ELSE task[t].pc # "fin.ret",
         t = "runner" =>
           \/ task'[t].pc \notin Finals
           \/ task[t].pc \in Finals /\ task'[t].text = task[t].text
  PROVE  AnswerInv'
<1>1. /\ t # "consumer" => task'["consumer"] = task["consumer"]
      /\ t # "runner" => task'["runner"] = task["runner"]
      /\ task'["expirer"] = task["expirer"]
  BY TaskNames
<1>2. StateAnswers'
  BY DEF Marks, KeepsText, Answers, AnswerInv, StateAnswers, Ended
<1>3. ConsumerAnswers'
  <2>1. CASE t = "consumer"
    BY <2>1 DEF Marks, KeepsText, Answers, AnswerInv, ConsumerAnswers
  <2>2. CASE t # "consumer"
    BY <1>1, <2>2 DEF Marks, KeepsText, Answers, AnswerInv, ConsumerAnswers
  <2> QED
    BY <2>1, <2>2
<1>4. RunnerAnswers'
  BY <1>1 DEF KeepsText, Answers, AnswerInv, RunnerAnswers
<1> QED
  BY <1>1, <1>2, <1>3, <1>4 DEF Answers, AnswerInv

\* A step of another one than the consumer, which acknowledges nothing.
LEMMA OtherAnswers ==
  ASSUME Answers, Marks, KeepsText, NEW t \in Tasks,
         t \notin {"consumer", "expirer"},
         \A u \in Tasks \ {t} : task'[u] = task[u],
         disp'.acked => disp.acked, Answered => Answered',
         t = "runner" =>
           \/ task'[t].pc \notin Finals
           \/ task[t].pc \in Finals /\ task'[t].text = task[t].text
  PROVE  AnswerInv'
<1>1. disp'.acked
        => disp.final /\ Answered' /\ task'["consumer"].pc = "idle"
  BY TaskNames DEF Answers, AnswerInv, StateAnswers, ConsumerAnswers
<1> QED
  BY <1>1, CalmAnswers

LEMMA TextsHold ==
  ASSUME Answers, TextsStay, UNCHANGED st
  PROVE  KeepsText
<1>1. st.cur # 0 => st.cur \in Cards
  BY AnswerFacts, CurrentCard
<1> QED
  BY <1>1 DEF TextsStay, KeepsText, OnCard

\* Who reports an answer as delivered.
LEMMA FinishAcks ==
  ASSUME Answers, NEW t \in Tasks, NEW ok, Finish(t, ok)
  PROVE  /\ disp'.acked
              => \/ disp.acked
                 \/ t = "consumer" /\ task[t].text = "answer" /\ ok
         /\ Marks /\ task'[t].pc = "idle"
         /\ \A u \in Tasks \ {t} : task'[u] = task[u]
<1>1. task[t].op # "ack" /\ TypeOK
  BY NoSteering, AnswerFacts DEF Answers, Rests
<1>2. Go(t, Idle)
  BY <1>1 DEF Finish
<1>3. disp'.acked
        => \/ disp.acked
           \/ t = "consumer" /\ task[t].text = "answer" /\ ok
  BY <1>1 DEF Finish, TypeOK, Dispatches
<1>4. Idle.pc = "idle"
  BY DEF Idle
<1> QED
  BY <1>1, <1>2, <1>3, <1>4, GoTask, FinishMarks DEF Answers

\* A step on the way to the segment that a call writes to: a call that goes on
\* keeps its text, and one of the consumer that is over met a question.
Passes(t) ==
  /\ task[t].pc \notin Finalizing \cup {"idle"}
  /\ task'[t].pc \notin {"fin.ret", "fin.write"}
  /\ \/ /\ disp'.acked => disp.acked
        /\ task'[t].pc # "idle" /\ task'[t].text = task[t].text
     \/ /\ task'[t].pc = "idle"
        /\ disp'.acked =>
             \/ disp.acked
             \/ t = "consumer" /\ disp.final /\ Answered
  /\ t = "runner" => task'[t].pc \notin Finals

LEMMA IdlesAnswers ==
  ASSUME Answers, Marks, NEW t \in Tasks, Idles(t), Passes(t)
  PROVE  AnswerInv'
<1>1. KeepsText /\ \A u \in Tasks \ {t} : task'[u] = task[u]
  BY TextsHold DEF Idles
<1>2. task[t].pc # "idle" /\ t # "expirer"
  BY DEF Passes, Answers, AnswerInv
<1>3. Coming => Coming'
  BY <1>1, TaskNames DEF Coming, Idles, Passes, Finals, Finalizing
<1>4. Answered => Answered'
  BY <1>1, <1>3, StillAnswered
<1>5. CASE t # "consumer"
  BY <1>1, <1>2, <1>4, <1>5, OtherAnswers DEF Passes
<1>6. CASE t = "consumer"
  <2>1. ~disp.acked /\ task[t].pc # "fin.ret"
    BY <1>2, <1>6 DEF Answers, AnswerInv, ConsumerAnswers, Passes, Finalizing
  <2> QED
    BY <1>1, <1>2, <1>4, <1>6, <2>1, CalmAnswers DEF Passes
<1> QED
  BY <1>5, <1>6

LEMMA CreatedText ==
  ASSUME TypeOK, NEW t \in Tasks, NEW ok, Created(t, ok)
  PROVE  task'[t].text = task[t].text
<1> DEFINE p == IF ok /\ task[t].ret = "rs.end" THEN "rs.ok" ELSE task[t].ret
           r == [task[t] EXCEPT !.res = ok, !.pc = p]
<1>1. r.text = task[t].text
  BY DEF TypeOK, Coroutines
<1>2. Go(t, r)
  BY DEF Created
<1> HIDE DEF r
<1> QED
  BY <1>1, <1>2, GoTask

\* Who creates a segment, and where a creation returns to.
LEMMA MakingCalls ==
  ASSUME Answers, NEW t \in Tasks, task[t].pc \in Making
  PROVE  /\ task[t].ret \in {"st.next", "rs.end"}
         /\ t = "runner" => task[t].op = "start" /\ ~disp.final
         /\ task[t].ret = "st.next" => t = "runner"
BY DEF Answers, Rests, RolesInv, Doing, Resumes, Resuming, Finalizing, Making,
   Creations, Suspensions, EndsInv, RunnerRests

LEMMA CreatingPasses ==
  ASSUME Answers, NEW t \in Tasks,
         \/ CreateEntity(t) \/ CreateCheck(t) \/ CreateSend(t) \/ RetireWrite(t)
  PROVE  Passes(t) /\ Marks
<1> DEFINE q == [To(t, "cr.commit") EXCEPT !.ref = Len(segs')]
<1>1. TypeOK /\ task[t].pc \in Making /\ UNCHANGED disp
  BY AnswerFacts DEF CreateEntity, CreateCheck, CreateSend, RetireWrite, At,
     Making, Creations
<1>2. q.pc = "cr.commit" /\ q.text = task[t].text
  BY <1>1 DEF TypeOK, To, Coroutines
<1>3. \/ Created(t, FALSE)
      \/ Go(t, To(t, "cr.send")) \/ Go(t, To(t, "cr.check"))
      \/ Go(t, q)
  BY DEF CreateEntity, CreateCheck, CreateSend, RetireWrite
<1> HIDE DEF q
<1>4. /\ task'[t].text = task[t].text
      /\ task'[t].pc \in {"st.next", "rs.end", "cr.send", "cr.check",
                          "cr.commit"}
  <2>1. CASE Created(t, FALSE)
    BY <1>1, <2>1, CreatedText, CreatedGoes, MakingCalls
  <2>2. CASE Go(t, To(t, "cr.send")) \/ Go(t, To(t, "cr.check"))
    BY <1>1, <2>2, ToGoes
  <2>3. CASE Go(t, q)
    BY <1>1, <1>2, <2>3, GoTask
  <2> QED
    BY <1>3, <2>1, <2>2, <2>3
<1> QED
  BY <1>1, <1>4, StillMarks DEF Passes, Making, Creations, Finalizing, Finals

LEMMA CreatingAnswers ==
  ASSUME Answers, NEW t \in Tasks,
         CreateEntity(t) \/ CreateCheck(t) \/ RetireWrite(t)
  PROVE  AnswerInv'
BY CreatingPasses, CreatingIdles, IdlesAnswers DEF Answers

LEMMA CreateSendAnswers ==
  ASSUME Answers, NEW t \in Tasks, CreateSend(t)
  PROVE  AnswerInv'
<1> DEFINE c == NewCard(ReplyTo(task[t]))
<1>1. /\ TypeOK /\ WritesInv /\ Passes(t) /\ Marks /\ UNCHANGED <<st, disp>>
      /\ \A u \in Tasks \ {t} : task'[u] = task[u]
  BY AnswerFacts, CreatingPasses, CreateEntityActs
     DEF CreateSend, Acts, Answers, Rests
<1>2. ctl' = Append(ctl, NewController) /\ segs' = Append(segs, c)
  BY NoFailure DEF CreateSend, Answers, Rests
<1> HIDE DEF c
<1>3. st.cur # 0 => /\ st.cur \in Cards /\ Len(ctl) = Len(segs)
                    /\ segs'[st.cur] = segs[st.cur]
                    /\ ctl'[st.cur] = ctl[st.cur]
  BY <1>1, <1>2, CurrentCard DEF Cards, TypeOK, Answers, StopInv
<1>4. KeepsText /\ (Coming => Coming')
  BY <1>1, <1>3, TaskNames
     DEF KeepsText, OnCard, Coming, Passes, Finals, Finalizing
<1>5. Answered => Answered'
  BY <1>4, StillAnswered
<1>6. task[t].pc # "idle" /\ t # "expirer" /\ task[t].pc # "fin.ret"
  BY <1>1 DEF Passes, Answers, AnswerInv, Finalizing
<1>7. CASE t # "consumer"
  BY <1>1, <1>4, <1>5, <1>6, <1>7, OtherAnswers DEF Passes
<1>8. CASE t = "consumer"
  <2>1. ~disp.acked
    BY <1>6, <1>8 DEF Answers, AnswerInv, ConsumerAnswers
  <2> QED
    BY <1>1, <1>4, <1>5, <1>6, <1>8, <2>1, CalmAnswers DEF Passes
<1> QED
  BY <1>7, <1>8

\* A segment of its own replaces only one that was frozen before the answer
\* came.
LEMMA CreateCommitAnswers ==
  ASSUME Answers, NEW t \in Tasks, CreateCommit(t)
  PROVE  AnswerInv'
<1> DEFINE a == IF task[t].ret = "rs.end" THEN st.active ELSE t
<1>1. /\ TypeOK /\ WritesInv /\ Acts(t) /\ task[t].pc = "cr.commit"
      /\ UNCHANGED <<segs, ctl, disp>> /\ lock = NoTask /\ Marks
  BY AnswerFacts, CreateCommitActs, StillMarks
     DEF Answers, Rests, Given, CreateCommit, At, MayLock, Created
<1>2. /\ task[t].ret \in {"st.next", "rs.end"}
      /\ task[t].ret = "st.next" => t = "runner" /\ ~disp.final
      /\ t = "runner" => task[t].op = "start" /\ ~disp.final
  BY <1>1, MakingCalls DEF Making, Creations
<1>3. \/ UNCHANGED st /\ Go(t, To(t, "rt.write"))
      \/ /\ st' = Opened(st, task[t].ref, a) /\ Created(t, TRUE)
         /\ task[t].ret = "st.next" \/ BoundaryCurrent(task[t].expect)
  BY DEF CreateCommit
<1>4. CASE UNCHANGED st /\ Go(t, To(t, "rt.write"))
  <2>1. task'[t].pc = "rt.write" /\ task'[t].text = task[t].text
    BY <1>1, <1>4, ToGoes
  <2>2. Passes(t)
    BY <1>1, <2>1 DEF Passes, Finals, Finalizing
  <2>3. KeepsText /\ (Coming => Coming')
    BY <1>1, <1>4, <2>1, TaskNames
       DEF KeepsText, OnCard, Coming, Passes, Finals, Finalizing, Acts
  <2>4. Answered => Answered'
    BY <2>3, StillAnswered
  <2>5. t # "expirer"
    BY <1>1 DEF Answers, AnswerInv
  <2>6. CASE t # "consumer"
    BY <1>1, <2>2, <2>3, <2>4, <2>5, <2>6, OtherAnswers DEF Passes, Acts
  <2>7. CASE t = "consumer"
    <3>1. ~disp.acked
      BY <1>1, <2>7 DEF Answers, AnswerInv, ConsumerAnswers
    <3> QED
      BY <1>1, <2>1, <2>3, <2>4, <2>5, <2>7, <3>1, CalmAnswers DEF Acts
  <2> QED
    BY <2>6, <2>7
<1>5. CASE /\ st' = Opened(st, task[t].ref, a) /\ Created(t, TRUE)
           /\ task[t].ret = "st.next" \/ BoundaryCurrent(task[t].expect)
  <2>1. /\ st'.content # "answer" /\ st'.flushed # "answer" /\ ~st'.closed
        /\ ~st'.disabled
    BY <1>5 DEF Opened, NewState
  <2>2. task'[t].text = task[t].text /\ task'[t].pc \in {"st.next", "rs.ok"}
    BY <1>1, <1>2, <1>5, CreatedText, CreatedGoes
  <2>3. \A u \in Tasks \ {t} : task'[u] = task[u]
    BY <1>1 DEF Acts
  <2>4. (~st.open /\ st.reason # "question") \/ ~disp.final
    <3>1. CASE task[t].ret = "st.next"
      BY <1>2, <3>1
    <3>2. CASE task[t].ret # "st.next" /\ BoundaryCurrent(task[t].expect)
      <4>1. Apt(task[t], st, clock) /\ Placed(task[t], st, segs)
        BY DEF Answers, Rests, Given, ColumnInv, AllApt, BoundaryInv, AllPlaced
      <4>2. /\ Seeks(task[t]) /\ ~GivenUp(task[t], st) /\ ~st.closed
            /\ st.anchor = task[t].expect
        BY <1>1, <3>2 DEF Seeks, GivenUp, BoundaryCurrent, Making, Creations
      <4>3. st.anchor # 0 /\ st.reason # "question"
        BY <1>1, <3>2, <4>1, <4>2 DEF Placed, Apt, Creations
      <4>4. ~st.open
        BY <1>1, <4>2, <4>3, TaskNames
           DEF Answers, Rests, Given, BoundaryInv, FrozenAtAnchor
      <4> QED
        BY <4>3, <4>4
    <3> QED
      BY <1>5, <3>1, <3>2
  <2>5. ~disp.acked /\ st.content # "answer"
    BY <2>4, AnswerFacts DEF Answers, AnswerInv, StateAnswers, Answered
  <2>6. task["consumer"].pc \notin {"fin.write", "fin.ret"}
    BY <2>4, <2>5, AnswerFacts
       DEF Answers, AnswerInv, ConsumerAnswers, Answered, Finalizing
  <2>7. t # "expirer" /\ task["expirer"].pc = "idle"
    BY <1>1 DEF Answers, AnswerInv
  <2>8. StateAnswers'
    BY <1>1, <2>1, <2>5 DEF Answers, AnswerInv, StateAnswers
  <2>9. ConsumerAnswers'
    <3>1. \/ task'["consumer"] = task["consumer"]
          \/ /\ t = "consumer"
             /\ task'["consumer"].text = task["consumer"].text
             /\ task'["consumer"].pc \in {"st.next", "rs.ok"}
      BY <2>2, <2>3, TaskNames
    <3> QED
      BY <1>1, <2>1, <2>5, <2>6, <3>1
         DEF Answers, AnswerInv, ConsumerAnswers
  <2>10. RunnerAnswers'
    BY <2>1, <2>2, <2>3, <2>5, TaskNames
       DEF Answers, AnswerInv, RunnerAnswers, Finals
  <2> QED
    BY <2>3, <2>7, <2>8, <2>9, <2>10, TaskNames DEF AnswerInv
<1> QED
  BY <1>3, <1>4, <1>5

\* A resume that is over: the answer is reported without a segment only if a
\* question waits.
LEMMA ResumedPasses ==
  ASSUME Answers, NEW t \in Tasks, NEW ok \in BOOLEAN, AfterResume(t, ok),
         task[t].pc \in Resuming, UNCHANGED st,
         t = "consumer" /\ disp.final /\ ~ok => st.reason = "question"
  PROVE  Passes(t) /\ Marks
<1>1. TypeOK /\ st'.reason # "fallback"
  BY AnswerFacts DEF Answers, Rests, Given, ColumnInv
<1>2. \/ /\ UNCHANGED disp
         /\ \E p \in {"tool.commit", "tool.check", "fin.enter", "out.commit"} :
              Go(t, To(t, p))
      \/ Finish(t, TRUE) /\ ~ok
  BY <1>1 DEF AfterResume
<1>3. t # "runner" /\ task[t].pc \notin Finalizing \cup {"idle"}
  BY DEF Answers, Rests, RolesInv, Doing, Resuming, Finalizing
<1>4. CASE /\ UNCHANGED disp
           /\ \E p \in {"tool.commit", "tool.check", "fin.enter",
                       "out.commit"} :
                Go(t, To(t, p))
  <2>1. /\ task'[t].text = task[t].text
        /\ task'[t].pc \in {"tool.commit", "tool.check", "fin.enter",
                            "out.commit"}
    BY <1>1, <1>4, ToGoes
  <2> QED
    BY <1>3, <1>4, <2>1, StillMarks DEF Passes
<1>5. CASE Finish(t, TRUE) /\ ~ok
  <2>1. /\ Marks /\ task'[t].pc = "idle"
        /\ disp'.acked
             => disp.acked \/ (t = "consumer" /\ task[t].text = "answer")
    BY <1>5, FinishAcks
  <2>2. t = "consumer" /\ task[t].text = "answer" => disp.final
    BY <1>3 DEF Answers, AnswerInv, ConsumerAnswers
  <2>3. t = "consumer" /\ disp.final => Answered
    BY <1>5 DEF Answered
  <2>4. "idle" \notin {"fin.ret", "fin.write"} \cup Finals
    BY DEF Finals
  <2> QED
    BY <1>3, <2>1, <2>2, <2>3, <2>4 DEF Passes
<1> QED
  BY <1>2, <1>4, <1>5

LEMMA ResumeAnswers ==
  ASSUME Answers, NEW t \in Tasks,
         ResumeEnter(t) \/ ResumeOk(t) \/ ResumeEnd(t)
  PROVE  AnswerInv'
<1> DEFINE q == [[task[t] EXCEPT !.expect = st.anchor, !.ret = "rs.end"]
                   EXCEPT !.pc = "cr.entity", !.ref = 0]
           stays == st.closed \/ st.open
                      \/ st.reason \notin {"approval", "artifact"}
<1>1. /\ TypeOK /\ Idles(t) /\ UNCHANGED st /\ task[t].pc \in Resuming
  BY AnswerFacts, ResumeIdles, ResumeKept
     DEF Answers, Rests, ResumeEnter, ResumeOk, ResumeEnd, At, Resuming
<1>2. t = "consumer" => ~st.closed /\ st.routed
  <2>1. t = "consumer" => ~st.closed
    BY <1>1 DEF Answers, AnswerInv, ConsumerAnswers, Resuming
  <2> QED
    BY <1>1, <2>1, AnswerFacts DEF Resuming
<1>3. CASE ResumeEnter(t)
  <2>1. \/ stays /\ AfterResume(t, ~st.closed /\ st.open)
        \/ ~stays /\ Go(t, q) /\ UNCHANGED disp
    BY <1>3 DEF ResumeEnter, Create
  <2>2. (~st.closed /\ st.open) \in BOOLEAN
    OBVIOUS
  <2>3. CASE stays /\ AfterResume(t, ~st.closed /\ st.open)
    <3>1. t = "consumer" /\ ~(~st.closed /\ st.open) => st.reason = "question"
      BY <1>2, <2>3 DEF Answers, Rests, EndsInv, StateRests
    <3> QED
      BY <1>1, <2>2, <2>3, <3>1, ResumedPasses, IdlesAnswers
  <2>4. CASE Go(t, q) /\ UNCHANGED disp
    <3>1. q.pc = "cr.entity" /\ q.text = task[t].text
      BY <1>1 DEF TypeOK, Coroutines
    <3> HIDE DEF q
    <3>2. task'[t] = q
      BY <1>1, <2>4, GoTask
    <3>3. Passes(t)
      BY <1>1, <2>4, <3>1, <3>2 DEF Passes, Resuming, Finalizing, Finals
    <3> QED
      BY <1>1, <2>4, <3>3, StillMarks, IdlesAnswers
  <2> QED
    BY <2>1, <2>3, <2>4
<1>4. CASE ResumeOk(t)
  <2>1. AfterResume(t, TRUE)
    BY <1>4 DEF ResumeOk
  <2> QED
    BY <1>1, <2>1, ResumedPasses, IdlesAnswers
<1>5. CASE ResumeEnd(t)
  <2>1. /\ task[t].pc = "rs.end" /\ Apt(task[t], st, clock)
    BY <1>5 DEF ResumeEnd, At, Answers, Rests, Given, ColumnInv, AllApt
  <2>2. task[t].ret = "rs.end" /\ GivenUp(task[t], st)
    BY <2>1 DEF Apt
  <2>3. \/ AfterResume(t, FALSE)
        \/ AfterResume(t, ~st.closed /\ st.routed /\ st.open)
    BY <1>5 DEF ResumeEnd
  <2>4. ~BoundaryCurrent(task[t].expect)
    BY <2>2 DEF GivenUp, BoundaryCurrent
  <2>5. AfterResume(t, ~st.closed /\ st.routed /\ st.open)
    BY <1>5, <2>4 DEF ResumeEnd
  <2>6. t = "consumer" /\ disp.final => Ready(st)
    BY <2>1, <2>2, AnswerFacts DEF Answers, Rests, EndsInv, ConsumerRests
  <2>7. /\ (~st.closed /\ st.routed /\ st.open) \in BOOLEAN
        /\ t = "consumer" /\ disp.final /\ ~(~st.closed /\ st.routed /\ st.open)
             => st.reason = "question"
    BY <1>2, <2>6 DEF Ready
  <2> QED
    BY <1>1, <2>5, <2>7, ResumedPasses, IdlesAnswers
<1> QED
  BY <1>3, <1>4, <1>5

LEMMA OutputBeginAnswers ==
  ASSUME Answers, NEW t \in Tasks, OutputBegin(t)
  PROVE  AnswerInv'
<1>1. /\ TypeOK /\ Idles(t) /\ task[t].pc = "out.begin"
      /\ st.reason # "fallback"
  BY AnswerFacts, OutputIdles
     DEF Answers, Rests, Given, ColumnInv, OutputBegin, At
<1>2. \/ st.closed /\ \E ok : Finish(t, ok)
      \/ UNCHANGED disp /\ Go(t, To(t, "rs.enter"))
  BY <1>1 DEF OutputBegin
<1>3. CASE st.closed /\ \E ok : Finish(t, ok)
  <2>1. t # "consumer"
    BY <1>1, <1>3 DEF Answers, AnswerInv, ConsumerAnswers
  <2>2. Marks /\ task'[t].pc = "idle" /\ (disp'.acked => disp.acked)
    BY <1>3, <2>1, FinishAcks
  <2>3. Passes(t)
    BY <1>1, <2>2 DEF Passes, Finalizing, Finals
  <2> QED
    BY <1>1, <2>2, <2>3, IdlesAnswers
<1>4. CASE UNCHANGED disp /\ Go(t, To(t, "rs.enter"))
  <2>1. task'[t].pc = "rs.enter" /\ task'[t].text = task[t].text
    BY <1>1, <1>4, ToGoes
  <2>2. Passes(t)
    BY <1>1, <1>4, <2>1 DEF Passes, Finalizing, Finals
  <2> QED
    BY <1>1, <1>4, <2>2, StillMarks, IdlesAnswers
<1> QED
  BY <1>2, <1>3, <1>4

\* The dispatch starts to stream: no answer came yet.
LEMMA SteerNextAnswers ==
  ASSUME Answers, NEW t \in Tasks, SteerNext(t)
  PROVE  AnswerInv'
<1>1. TypeOK /\ task[t].pc = "st.next" /\ UNCHANGED st
  BY AnswerFacts DEF SteerNext, At
<1>2. t = "runner" /\ task[t].op = "start"
  BY <1>1 DEF Answers, Rests, RolesInv, Doing, Resumes, Resuming, Making,
     Creations, Finalizing, Suspensions
<1>3. disp' = [disp EXCEPT !.phase = "active"] /\ Go(t, Idle)
  BY <1>2 DEF SteerNext
<1>4. disp.phase = "starting" /\ ~disp.final
  BY <1>1, <1>2 DEF Answers, Rests, EndsInv, RunnerRests
<1>5. disp'.acked = disp.acked /\ disp'.final = disp.final
  BY <1>1, <1>3 DEF TypeOK, Dispatches
<1>6. /\ task'["runner"] = Idle /\ Idle.pc = "idle"
      /\ \A u \in Tasks \ {"runner"} : task'[u] = task[u]
  <2>1. Idle.pc = "idle"
    BY DEF Idle
  <2> QED
    BY <1>1, <1>2, <1>3, <2>1, GoTask
<1>7. task'["consumer"] = task["consumer"] /\ task'["expirer"] = task["expirer"]
  BY <1>6, TaskNames
<1>8. /\ st.content # "answer" /\ st.flushed # "answer" /\ ~st.closed
      /\ ~disp.acked /\ ~st.disabled
      /\ task["consumer"].pc = "idle" /\ task["expirer"].pc = "idle"
  <2>1. task["consumer"].pc = "idle"
    BY <1>4, AnswerFacts
  <2> QED
    BY <1>4, <2>1, AnswerFacts DEF Answers, AnswerInv, StateAnswers, Ended
<1> QED
  BY <1>1, <1>4, <1>5, <1>6, <1>7, <1>8, EarlyAnswers DEF Finals

LEMMA DrainAnswers ==
  ASSUME Answers, NEW t \in Tasks, Drain(t)
  PROVE  AnswerInv'
<1>1. /\ TypeOK /\ Acts(t) /\ UNCHANGED <<st, segs, ctl, disp>>
      /\ task[t].pc \in {"sus.quiet", "fin.quiet"}
  BY AnswerFacts, DrainActs DEF Answers, Rests, Drain, At
<1>2. \/ task[t].pc = "fin.quiet" /\ Go(t, To(t, "fin.lock"))
      \/ task[t].pc = "sus.quiet" /\ Go(t, To(t, "sus.lock"))
  BY <1>1 DEF Drain
<1>3. /\ task'[t].text = task[t].text
      /\ \/ task[t].pc = "fin.quiet" /\ task'[t].pc = "fin.lock"
         \/ task[t].pc = "sus.quiet" /\ task'[t].pc = "sus.lock"
  BY <1>1, <1>2, ToGoes
<1>4. t = "runner" => task[t].pc = "fin.quiet"
  BY <1>1 DEF Answers, Rests, RolesInv, Doing, Finalizing
<1>5. KeepsText /\ (Coming => Coming')
  BY <1>1, <1>3, <1>4, TaskNames DEF KeepsText, OnCard, Coming, Finals, Acts
<1>6. Answered => Answered'
  BY <1>5, StillAnswered
<1>7. t # "expirer"
  BY <1>1 DEF Answers, AnswerInv
<1>8. CASE t # "consumer"
  BY <1>1, <1>3, <1>4, <1>5, <1>6, <1>7, <1>8, StillMarks, OtherAnswers
     DEF Acts, Finals
<1>9. CASE t = "consumer"
  <2>1. ~disp.acked
    BY <1>1, <1>9 DEF Answers, AnswerInv, ConsumerAnswers
  <2> QED
    BY <1>1, <1>3, <1>5, <1>6, <1>7, <1>9, <2>1, StillMarks, CalmAnswers
       DEF Acts
<1> QED
  BY <1>8, <1>9

\* The agent's boundaries and tools are over when the answer comes.
LEMMA SuspendAnswers ==
  ASSUME Answers, NEW t \in Tasks, SuspendLocked(t) \/ SuspendWrite(t)
  PROVE  AnswerInv'
<1> DEFINE s == Anchored(st, task[t].want, task[t].why)
           q(w) == [s EXCEPT !.tool = w]
<1>1. /\ TypeOK /\ Acts(t) /\ task[t].pc \in Suspensions
  BY AnswerFacts, SuspendLockedActs, SuspendWriteActs
     DEF Answers, Rests, Given, SuspendLocked, SuspendWrite, At, Suspensions
<1>2. t = "agent" /\ task[t].ret = "idle" /\ ~disp.final
  <2>1. t = "agent" /\ task[t].ret = "idle"
    BY <1>1 DEF Answers, Rests, RolesInv, Doing, Resumes, Resuming, Making,
       Creations, Finalizing, Suspensions
  <2> QED
    BY <1>1, <2>1, AnswerFacts DEF Suspensions
<1>3. /\ \/ Finish(t, TRUE)
         \/ UNCHANGED disp
      /\ \/ st' \in {st, s} \/ \E w : st' = q(w)
         \/ \E x : st' = Frozen(st, x)
  <2>1. CASE SuspendLocked(t)
    BY <1>2, <2>1 DEF SuspendLocked, Suspended
  <2>2. CASE SuspendWrite(t)
    BY <1>2, <2>2, NoFailure DEF SuspendWrite, Suspended, Answers, Rests
  <2> QED
    BY <2>1, <2>2
<1>4. /\ s \in States /\ s.closed = st.closed /\ s.content = st.content
      /\ s.flushed = st.flushed /\ s.disabled = st.disabled
  <2>1. st \in States /\ task[t].want \in Nat /\ task[t].why \in Reasons
    BY <1>1 DEF TypeOK, Coroutines
  <2>2. s \in States
    BY <2>1, AnchoredType
  <2> QED
    BY <2>1, <2>2 DEF Anchored, States
<1>5. \A w : /\ q(w).closed = s.closed /\ q(w).content = s.content
             /\ q(w).flushed = s.flushed /\ q(w).disabled = s.disabled
  BY <1>4 DEF States
<1>6. \A x : LET f == Frozen(st, x) IN
               /\ f.closed = st.closed /\ f.content = st.content
               /\ f.flushed = st.flushed /\ f.disabled = st.disabled
  BY <1>1 DEF Frozen, TypeOK, States
<1> HIDE DEF s, q
<1>7. /\ st'.closed = st.closed /\ st'.content = st.content
      /\ st'.flushed = st.flushed /\ st'.disabled = st.disabled
  BY <1>3, <1>4, <1>5, <1>6
<1>8. Marks /\ (disp'.acked => disp.acked)
  BY <1>2, <1>3, FinishAcks, StillMarks
<1> QED
  BY <1>1, <1>2, <1>7, <1>8, AnswerFacts, AgentAnswers DEF Acts, Marks

LEMMA ToolAnswers ==
  ASSUME Answers, NEW t \in Tasks,
         ToolCheck(t) \/ ToolCommit(t) \/ ToolWrite(t)
  PROVE  AnswerInv'
<1> DEFINE n == st.seq + 1
<1>1. TypeOK /\ st \in States
  BY AnswerFacts DEF TypeOK
<1>2. task[t].pc \in {"tool.check", "tool.commit", "tool.write"}
  BY DEF ToolCheck, ToolCommit, ToolWrite, At
<1>3. t = "agent" /\ ~disp.final
  <2>1. t = "agent"
    BY <1>2 DEF Answers, Rests, RolesInv, Doing, Resumes, Resuming, Making,
       Creations, Finalizing, Suspensions
  <2> QED
    BY <1>2, <2>1, AnswerFacts
<1>4. /\ \/ \E ok : Finish(t, ok)
         \/ UNCHANGED disp
            /\ \E p \in {"tool.commit", "tool.write"} : Go(t, To(t, p))
      /\ \/ UNCHANGED st
         \/ \E w : st' = [st EXCEPT !.tool = w, !.seq = n]
         \/ st' = [st EXCEPT !.pending = FALSE, !.phase = "generating"]
  <2>1. CASE ToolCheck(t)
    <3>1. ~st.trans
      BY DEF Answers, Rests, RolesInv
    <3> QED
      BY <2>1, <3>1 DEF ToolCheck
  <2>2. CASE ToolCommit(t)
    BY <2>2 DEF ToolCommit
  <2>3. CASE ToolWrite(t)
    BY <2>3, NoFailure DEF ToolWrite, Answers, Rests
  <2> QED
    BY <2>1, <2>2, <2>3
<1> HIDE DEF n
<1>5. /\ st'.closed = st.closed /\ st'.content = st.content
      /\ st'.flushed = st.flushed /\ st'.disabled = st.disabled
  BY <1>1, <1>4 DEF States
<1>6. /\ Marks /\ (disp'.acked => disp.acked)
      /\ \A u \in Tasks \ {t} : task'[u] = task[u]
  BY <1>1, <1>3, <1>4, FinishAcks, StillMarks, GoTask
<1> QED
  BY <1>3, <1>5, <1>6, AnswerFacts, AgentAnswers DEF Marks

\* The answer is taken over: its segment takes flushes, so that one is to come.
LEMMA OutputCommitAnswers ==
  ASSUME Answers, NEW t \in Tasks, OutputCommit(t)
  PROVE  AnswerInv'
<1> DEFINE prog == task[t].text = "prog"
           c == Requested(Ctl)
<1>1. /\ TypeOK /\ WritesInv /\ task[t].pc = "out.commit" /\ UNCHANGED segs
      /\ \E ok : Finish(t, ok)
  BY AnswerFacts DEF OutputCommit, At
<1>2. /\ t \in {"consumer", "notifier"}
      /\ t = "consumer" => task[t].text \in {"part", "answer"}
      /\ t = "notifier" => prog
  BY <1>1 DEF Answers, Rests, RolesInv, Doing, Resumes, Resuming, Making,
     Creations, Finalizing, Suspensions
<1>3. /\ Marks /\ task'[t].pc = "idle"
      /\ \A u \in Tasks \ {t} : task'[u] = task[u]
      /\ t # "consumer" => (disp'.acked => disp.acked)
  BY <1>1, FinishAcks
<1>4. ~st.disabled
  BY DEF Answers, AnswerInv, StateAnswers
<1>5. CASE st.closed \/ ~st.open
  <2>1. UNCHANGED <<st, ctl>> /\ Finish(t, prog)
    BY <1>5 DEF OutputCommit
  <2>2. disp'.acked => disp.acked
    BY <1>2, <2>1, FinishAcks
  <2>3. KeepsText /\ (Coming => Coming')
    BY <1>1, <1>2, <1>3, <2>1, TaskNames DEF KeepsText, OnCard, Coming
  <2>4. Answered => Answered'
    BY <2>3, StillAnswered
  <2>5. disp'.acked
          => disp.final /\ Answered' /\ task'["consumer"].pc = "idle"
    BY <1>3, <2>2, <2>4, TaskNames
       DEF Answers, AnswerInv, StateAnswers, ConsumerAnswers
  <2> QED
    BY <1>2, <1>3, <2>3, <2>4, <2>5, CalmAnswers
<1>6. CASE ~st.closed /\ st.open /\ prog
  <2>1. st' = [st EXCEPT !.pending = TRUE] /\ SetCtl(c) /\ t = "notifier"
    BY <1>2, <1>4, <1>6 DEF OutputCommit
  <2>2. KeepsText
    BY <1>1, <2>1 DEF KeepsText, OnCard, TypeOK, States
  <2>3. Coming => Coming'
    <3>1. st.cur # 0 => st.cur \in 1..Len(ctl)
      BY <1>1, CurrentCard DEF Cards, Answers, StopInv
    <3>2. st'.cur = st.cur
      BY <1>1, <2>1 DEF TypeOK, States
    <3>3. ASSUME NEW d \in Controllers, d.state # "idle"
          PROVE  Requested(d).state # "idle"
      BY <3>3 DEF Requested, Controllers
    <3>4. st.cur # 0 => Ctl \in Controllers /\ ctl'[st.cur] = c
      BY <1>1, <2>1, <3>1, ElementType DEF Ctl, SetCtl, TypeOK
    <3> QED
      BY <1>3, <2>1, <3>2, <3>3, <3>4, TaskNames DEF Coming, Ctl
  <2>4. Answered => Answered'
    BY <2>2, <2>3, StillAnswered
  <2> QED
    BY <1>3, <2>1, <2>2, <2>4, OtherAnswers
<1>7. CASE ~st.closed /\ st.open /\ ~prog
  <2>1. /\ st' = [st EXCEPT !.content = task[t].text] /\ SetCtl(c)
        /\ t = "consumer"
    BY <1>2, <1>4, <1>7 DEF OutputCommit
  <2>2. /\ st'.content = task[t].text /\ st'.flushed = st.flushed
        /\ st'.disabled = st.disabled /\ st'.closed = st.closed
        /\ st'.open = st.open /\ st'.cur = st.cur /\ st'.reason = st.reason
    BY <1>1, <2>1 DEF TypeOK, States
  <2>3. /\ task'["consumer"].pc = "idle" /\ task["runner"].pc \notin Finals
        /\ task'["runner"] = task["runner"]
        /\ task'["expirer"] = task["expirer"]
        /\ disp.phase = "active"
    BY <1>1, <1>3, <2>1, AnswerFacts, TaskNames
  <2>4. CASE ~disp.final
    <3>1. task[t].text # "answer" /\ st.flushed # "answer" /\ ~disp.acked
      BY <1>1, <2>1, <2>4, AnswerFacts DEF Answers, AnswerInv, ConsumerAnswers
    <3>2. ~disp'.acked /\ ~disp'.final
      BY <1>1, <2>4, <3>1, FinishAcks DEF Marks
    <3> QED
      BY <1>4, <1>7, <2>2, <2>3, <3>1, <3>2, EarlyAnswers
         DEF Answers, AnswerInv
  <2>5. CASE disp.final
    <3>1. task[t].text = "answer"
      BY <1>1, <2>1, <2>5 DEF Answers, AnswerInv, ConsumerAnswers
    <3>2. st.cur # 0
      BY <1>1, <2>1, TaskNames DEF Answers, Rests, Given, BoundaryInv, Begins
    <3>3. \A u \in Tasks : ~Stops(task[u])
      <4> SUFFICES ASSUME NEW u \in Tasks, Stops(task[u])
                   PROVE  FALSE
        OBVIOUS
      <4>1. Doing(u, task[u])
        BY DEF Answers, Rests, RolesInv
      <4>2. u \in {"agent", "consumer", "runner", "closer"}
        BY <4>1 DEF Doing, Stops, Resumes, Resuming, Making, Creations,
           Finalizing, Suspensions
      <4>3. task["agent"].pc = "idle" /\ task["closer"].pc = "idle"
        BY <2>5, AnswerFacts DEF Answers, Rests, EndsInv
      <4>4. u = "runner" => task[u].op = "start" /\ ~Stops(task[u])
        BY <2>3, <4>1 DEF Doing, Stops, Finals, Resumes, Resuming, Making,
           Creations, Finalizing, Suspensions
      <4> QED
        BY <1>1, <2>1, <4>2, <4>3, <4>4 DEF Stops, Suspensions
    <3>4. ~Ctl.stopped
      BY <1>7, <3>2, <3>3 DEF Answers, StopInv, Ctl
    <3>5. st.cur \in 1..Len(ctl)
      BY <1>1, <3>2, CurrentCard DEF Cards, Answers, StopInv
    <3>6. Ctl \in Controllers /\ ctl'[st.cur] = c
      BY <1>1, <2>1, <3>5, ElementType DEF Ctl, SetCtl, TypeOK
    <3>7. ASSUME NEW d \in Controllers, ~d.stopped
          PROVE  Requested(d).state # "idle"
      BY <3>7 DEF Requested, Controllers
    <3>8. c.state # "idle"
      BY <3>4, <3>6, <3>7
    <3> HIDE DEF c
    <3>9. Answered'
      BY <1>7, <2>2, <3>1, <3>2, <3>6, <3>8 DEF Answered, Coming
    <3>10. StateAnswers'
      BY <1>1, <1>3, <1>7, <2>2, <2>5, <3>1, <3>9
         DEF Marks, Answers, AnswerInv, StateAnswers, OnCard
    <3>11. ConsumerAnswers' /\ RunnerAnswers'
      BY <2>3 DEF ConsumerAnswers, RunnerAnswers
    <3> QED
      BY <2>3, <3>10, <3>11 DEF Answers, AnswerInv
  <2> QED
    BY <2>4, <2>5
<1> QED
  BY <1>5, <1>6, <1>7

\* Who finalizes: the consumer with the answer, or the runner once the dispatch
\* is over.
LEMMA FinalizeCalls ==
  ASSUME Answers, NEW t \in Tasks, task[t].pc \in Finalizing
  PROVE  \/ /\ t = "consumer" /\ task[t].op = "final" /\ disp.final
            /\ task[t].text = "answer" /\ disp.phase = "active" /\ ~disp.acked
            /\ task["runner"].pc \notin Finals
            /\ task[t].pc # "fin.ret" => ~st.closed
         \/ /\ t = "runner" /\ task[t].op = "complete" /\ Ended
            /\ task["consumer"].pc = "idle"
<1>1. Doing(t, task[t]) /\ task[t].pc # "fb.call"
  BY DEF Answers, Rests, RolesInv, Given, ColumnInv, AllApt, Apt
<1>2. \/ t = "consumer" /\ task[t].op = "final" /\ task[t].text = "answer"
      \/ t = "runner" /\ task[t].op = "complete"
  BY <1>1 DEF Doing, Finalizing, Resumes, Resuming, Making, Creations,
     Suspensions, Answers, Rests, EndsInv
<1>3. CASE t = "consumer" /\ task[t].op = "final" /\ task[t].text = "answer"
  BY <1>3, AnswerFacts DEF Finalizing, Answers, AnswerInv, ConsumerAnswers
<1>4. CASE t = "runner" /\ task[t].op = "complete"
  <2>1. Ended
    BY <1>4 DEF Answers, Rests, EndsInv, RunnerRests, Ended
  <2> QED
    BY <1>4, <2>1, AnswerFacts DEF Ended
<1> QED
  BY <1>2, <1>3, <1>4

\* A closed turn that was answered shows the answer.
LEMMA FinalizedText ==
  ASSUME TypeOK, NEW t \in Tasks, NEW ok, Finalized(t, ok)
  PROVE  task'[t].text = task[t].text
<1> DEFINE q == [To(t, "fin.ret") EXCEPT !.res = ok]
<1>1. q.text = task[t].text
  BY DEF TypeOK, To, Coroutines
<1>2. Go(t, q)
  BY DEF Finalized
<1> HIDE DEF q
<1> QED
  BY <1>1, <1>2, GoTask

LEMMA FinalizeEnterAnswers ==
  ASSUME Answers, NEW t \in Tasks, FinalizeEnter(t)
  PROVE  AnswerInv'
<1> DEFINE q == [To(t, "fin.quiet") EXCEPT !.ref = st.cur]
<1>1. /\ TypeOK /\ UNCHANGED <<st, segs, disp>> /\ ~st.trans
      /\ st.reason # "fallback" /\ task[t].pc = "fin.enter"
  BY AnswerFacts, FinalizeEnterActs
     DEF Answers, Rests, Given, ColumnInv, RolesInv, FinalizeEnter, At
<1>2. \/ st.closed /\ UNCHANGED ctl /\ \E ok : Finalized(t, ok)
      \/ Go(t, q)
  BY <1>1 DEF FinalizeEnter
<1>3. q.pc = "fin.quiet" /\ q.text = task[t].text
  BY <1>1 DEF To, TypeOK, Coroutines
<1> HIDE DEF q
<1>4. KeepsText
  BY <1>1 DEF KeepsText, OnCard
<1>5. task[t].pc \in Finalizing /\ task[t].pc \in Finals
  BY <1>1 DEF Finalizing, Finals
<1>6. CASE st.closed /\ UNCHANGED ctl /\ \E ok : Finalized(t, ok)
  <2>1. t = "runner"
    BY <1>1, <1>5, <1>6, FinalizeCalls
  <2>2. task'[t].pc = "fin.ret" /\ \A u \in Tasks \ {t} : task'[u] = task[u]
    BY <1>1, <1>6, FinalizedLeaves
  <2>3. Answered => Answered'
    BY <1>4, <1>6, StillAnswered
  <2> QED
    BY <1>1, <1>4, <2>1, <2>2, <2>3, StillMarks, OtherAnswers DEF Finals
<1>7. CASE Go(t, q)
  <2>1. task'[t] = q /\ \A u \in Tasks \ {t} : task'[u] = task[u]
    BY <1>1, <1>7, GoTask
  <2>2. CASE t = "consumer"
    <3>1. ~disp.acked
      BY <1>5, <2>2, FinalizeCalls
    <3> QED
      BY <1>1, <1>3, <1>4, <2>1, <2>2, <3>1, StillMarks, CalmAnswers
  <2>3. CASE t = "runner"
    <3>1. Coming'
      BY <1>3, <2>1, <2>3 DEF Coming, Finals
    <3>2. Answered => Answered'
      BY <1>4, <3>1, StillAnswered
    <3> QED
      BY <1>1, <1>3, <1>4, <1>5, <2>1, <2>3, <3>2, StillMarks, OtherAnswers
  <2> QED
    BY <1>5, <2>2, <2>3, FinalizeCalls
<1> QED
  BY <1>2, <1>6, <1>7

LEMMA TerminalAnswer ==
  ASSUME NEW text
  PROVE  /\ text = "answer" => Terminal(text) = "answer"
         /\ text # "answer" /\ st.content # "answer"
              => Terminal(text) # "answer"
<1> DEFINE x == Raw(text)
<1>1. /\ text = "answer" => x = "answer"
      /\ x \in {text, st.content}
  BY DEF Raw
<1>2. Terminal(text) \in {"note", x} /\ (x = "answer" => Terminal(text) = x)
  BY DEF Terminal
<1> HIDE DEF x
<1> QED
  BY <1>1, <1>2

LEMMA FinalizeLockedAnswers ==
  ASSUME Answers, NEW t \in Tasks, FinalizeLocked(t)
  PROVE  AnswerInv'
<1> DEFINE x == Terminal(task[t].text)
<1>1. TypeOK /\ UNCHANGED <<segs, ctl, disp>> /\ task[t].pc = "fin.lock"
  BY AnswerFacts DEF FinalizeLocked, At
<1>2. \/ /\ UNCHANGED st /\ (st.closed \/ ~st.open)
         /\ \E ok : Finalized(t, ok)
      \/ /\ st' = [st EXCEPT !.content = x] /\ Go(t, To(t, "fin.write"))
         /\ ~st.closed /\ st.open
  BY DEF FinalizeLocked
<1>3. task[t].pc \in Finalizing /\ task[t].pc \in Finals
  BY <1>1 DEF Finalizing, Finals
<1>4. CASE /\ UNCHANGED st /\ (st.closed \/ ~st.open)
           /\ \E ok : Finalized(t, ok)
  <2>1. /\ task'[t].pc = "fin.ret" /\ task'[t].text = task[t].text
        /\ \A u \in Tasks \ {t} : task'[u] = task[u]
    BY <1>1, <1>4, FinalizedLeaves, FinalizedText
  <2>2. KeepsText
    BY <1>1, <1>4 DEF KeepsText, OnCard
  <2>3. CASE t = "consumer"
    <3>1. disp.final /\ ~st.closed /\ disp.phase = "active" /\ ~disp.acked
      BY <1>1, <1>3, <2>3, FinalizeCalls
    <3>2. Ready(st)
      BY <1>1, <2>3, <3>1
         DEF Answers, Rests, EndsInv, ConsumerRests, Creating, Making, Creations
    <3>3. Answered'
      BY <1>4, <3>1, <3>2 DEF Ready, Answered
    <3> QED
      BY <1>1, <2>1, <2>2, <2>3, <3>1, <3>3, StillMarks, CalmAnswers
  <2>4. CASE t = "runner"
    <3>1. Answered => Answered'
      BY <1>1, <1>4 DEF Answered, Answers, AnswerInv, StateAnswers, OnCard
    <3> QED
      BY <1>1, <2>1, <2>2, <2>4, <3>1, StillMarks, OtherAnswers DEF Finals
  <2> QED
    BY <1>3, <2>3, <2>4, FinalizeCalls
<1>5. CASE /\ st' = [st EXCEPT !.content = x] /\ Go(t, To(t, "fin.write"))
           /\ ~st.closed /\ st.open
  <2>1. /\ st'.content = x /\ st'.flushed = st.flushed
        /\ st'.disabled = st.disabled /\ st'.closed = st.closed
        /\ st'.open = st.open /\ st'.cur = st.cur /\ st'.reason = st.reason
    BY <1>1, <1>5 DEF TypeOK, States
  <2>2. /\ task[t].text = "answer" => x = "answer"
        /\ task[t].text # "answer" /\ st.content # "answer" => x # "answer"
    BY TerminalAnswer
  <2> HIDE DEF x
  <2>3. /\ \A u \in Tasks \ {t} : task'[u] = task[u]
        /\ task'[t].pc = "fin.write" /\ task'[t].text = task[t].text
    BY <1>1, <1>5, ToGoes, GoTask
  <2>4. CASE t = "consumer"
    <3>1. /\ disp.final /\ x = "answer" /\ ~disp.acked
          /\ task[t].text = "answer" /\ task["runner"].pc \notin Finals
      BY <1>3, <2>2, <2>4, FinalizeCalls
    <3>2. StateAnswers'
      BY <1>1, <1>5, <2>1, <3>1
         DEF Answers, AnswerInv, StateAnswers, OnCard
    <3>3. ConsumerAnswers'
      BY <1>1, <1>5, <2>1, <2>3, <2>4, <3>1 DEF ConsumerAnswers
    <3>4. RunnerAnswers' /\ task'["expirer"].pc = "idle"
      BY <2>3, <2>4, <3>1, TaskNames DEF RunnerAnswers, Answers, AnswerInv
    <3> QED
      BY <3>2, <3>3, <3>4 DEF AnswerInv
  <2>5. CASE t = "runner"
    <3>1. task["consumer"].pc = "idle"
      BY <1>3, <2>5, FinalizeCalls
    <3>2. task[t].text = "answer" <=> st.content = "answer"
      BY <1>3, <2>5 DEF Answers, AnswerInv, RunnerAnswers
    <3>3. x = "answer" <=> st.content = "answer"
      BY <2>2, <3>2
    <3>4. Answered => Answered'
      BY <1>1, <1>5, <2>1, <2>3, <2>5, <3>3
         DEF Answered, Coming, Finals, OnCard
    <3>5. StateAnswers'
      BY <1>1, <1>5, <2>1, <3>3, <3>4
         DEF Answers, AnswerInv, StateAnswers, OnCard
    <3>6. ConsumerAnswers'
      BY <2>3, <2>5, <3>1, TaskNames DEF ConsumerAnswers
    <3>7. RunnerAnswers' /\ task'["expirer"].pc = "idle"
      BY <2>1, <2>3, <2>5, <3>2, <3>3, TaskNames
         DEF RunnerAnswers, Answers, AnswerInv
    <3> QED
      BY <3>5, <3>6, <3>7 DEF AnswerInv
  <2> QED
    BY <1>3, <2>4, <2>5, FinalizeCalls
<1> QED
  BY <1>2, <1>4, <1>5

\* A terminal write that succeeds brings the content to the card.
LEMMA FinalizeShows ==
  ASSUME Answers, NEW t \in Tasks, FinalizeWrite(t)
  PROVE  /\ st.cur # 0 /\ st'.cur = st.cur /\ st'.closed
         /\ segs'[st.cur].text = st.content
         /\ st'.content = st.content /\ st'.flushed = st.content
         /\ st'.disabled = st.disabled /\ st'.reason = st.reason
         /\ st'.open = st.open
<1> DEFINE n == st.seq + (IF st.content # st.flushed THEN 3 ELSE 2)
           q == ClosedBy(st, task[t].out)
           c == [segs[st.cur] EXCEPT !.status = task[t].out,
                                     !.text = st.content, !.tool = st.tool,
                                     !.seq = n]
<1>1. TypeOK /\ WritesInv /\ task[t].pc = "fin.write"
  BY AnswerFacts DEF FinalizeWrite, At
<1>2. st.cur # 0 /\ st.cur \in Cards
  <2>1. Placed(task[t], st, segs)
    BY DEF Answers, Rests, Given, BoundaryInv, AllPlaced
  <2>2. st.cur # 0
    BY <1>1, <2>1 DEF Placed, Outputs
  <2> QED
    BY <1>1, <2>2, CurrentCard
<1>3. /\ st' = [[q EXCEPT !.seq = n] EXCEPT !.flushed = st.content]
      /\ segs' = [segs EXCEPT ![st.cur] = c]
  <2>1. \A o : Spend(o) => o = "ok"
    BY NoFailure DEF Answers, Rests
  <2>2. st' = [[q EXCEPT !.seq = n] EXCEPT !.flushed = st.content]
    BY <2>1 DEF FinalizeWrite
  <2>3. segs' = [segs EXCEPT ![st.cur] = c]
    BY <2>1 DEF FinalizeWrite
  <2> QED
    BY <2>2, <2>3
<1>4. segs[st.cur] \in CardType
  BY <1>1, <1>2, ElementType DEF TypeOK, Cards
<1>5. c.text = st.content
  BY <1>4 DEF CardType
<1>6. /\ q.cur = st.cur /\ q.closed /\ q.content = st.content
      /\ q.disabled = st.disabled /\ q.reason = st.reason
      /\ q.open = st.open /\ q \in States
  <2>1. st \in States /\ task[t].out \in Phases
    BY <1>1 DEF TypeOK, Coroutines, Phases
  <2> QED
    BY <2>1, ClosedByType DEF ClosedBy, States
<1> HIDE DEF q, n, c
<1>7. segs'[st.cur] = c
  BY <1>1, <1>2, <1>3, CardWritten
<1>8. /\ st'.cur = q.cur /\ st'.closed = q.closed /\ st'.content = q.content
      /\ st'.disabled = q.disabled /\ st'.reason = q.reason
      /\ st'.open = q.open /\ st'.flushed = st.content
  BY <1>3, <1>6 DEF States
<1> QED
  BY <1>2, <1>5, <1>6, <1>7, <1>8

LEMMA FinalizeWriteAnswers ==
  ASSUME Answers, NEW t \in Tasks, FinalizeWrite(t)
  PROVE  AnswerInv'
<1>1. /\ TypeOK /\ UNCHANGED disp /\ task[t].pc = "fin.write"
      /\ \E ok : Finalized(t, ok)
  BY AnswerFacts DEF FinalizeWrite, At
<1>2. /\ task'[t].pc = "fin.ret" /\ task'[t].text = task[t].text
      /\ \A u \in Tasks \ {t} : task'[u] = task[u]
  BY <1>1, FinalizedLeaves, FinalizedText
<1>3. /\ st.cur # 0 /\ st'.cur = st.cur /\ st'.closed
      /\ segs'[st.cur].text = st.content
      /\ st'.content = st.content /\ st'.flushed = st.content
      /\ st'.disabled = st.disabled /\ st'.reason = st.reason
      /\ st'.open = st.open
  BY FinalizeShows
<1>4. st.content = "answer" => OnCard' /\ Answered'
  BY <1>3 DEF OnCard, Answered
<1>5. Answered => Answered'
  BY <1>3, <1>4 DEF Answered
<1>6. task[t].pc \in Finalizing /\ task[t].pc # "fin.ret"
  BY <1>1 DEF Finalizing
<1>7. st.content = "answer" \/ Ended
  BY <1>1, <1>6, FinalizeCalls DEF Answers, AnswerInv, ConsumerAnswers
<1>8. StateAnswers'
  BY <1>1, <1>3, <1>4, <1>5, <1>7
     DEF Answers, AnswerInv, StateAnswers, Ended
<1>9. ConsumerAnswers' /\ RunnerAnswers' /\ task'["expirer"].pc = "idle"
  <2>1. CASE t = "consumer"
    <3>1. /\ disp.final /\ task[t].text = "answer" /\ ~disp.acked
          /\ task["runner"].pc \notin Finals /\ st.content = "answer"
      BY <1>1, <1>6, <2>1, FinalizeCalls DEF Answers, AnswerInv, ConsumerAnswers
    <3>2. ConsumerAnswers'
      BY <1>1, <1>2, <1>4, <2>1, <3>1 DEF ConsumerAnswers
    <3>3. RunnerAnswers' /\ task'["expirer"].pc = "idle"
      BY <1>2, <2>1, <3>1, TaskNames DEF RunnerAnswers, Answers, AnswerInv
    <3> QED
      BY <3>2, <3>3
  <2>2. CASE t = "runner"
    <3>1. task'["consumer"].pc = "idle"
      BY <1>2, <1>6, <2>2, FinalizeCalls, TaskNames
    <3>2. ConsumerAnswers'
      BY <3>1 DEF ConsumerAnswers
    <3>3. RunnerAnswers' /\ task'["expirer"].pc = "idle"
      BY <1>2, <2>2, TaskNames DEF RunnerAnswers, Answers, AnswerInv, Finals
    <3> QED
      BY <3>2, <3>3
  <2> QED
    BY <1>6, <2>1, <2>2, FinalizeCalls
<1> QED
  BY <1>8, <1>9 DEF AnswerInv

LEMMA FinalizeReturnAnswers ==
  ASSUME Answers, NEW t \in Tasks, FinalizeReturn(t)
  PROVE  AnswerInv'
<1>1. TypeOK /\ task[t].pc = "fin.ret" /\ UNCHANGED <<segs, ctl>>
  BY AnswerFacts DEF FinalizeReturn, At
<1>2. /\ task[t].pc \in Finalizing /\ task[t].op \in {"final", "complete"}
      /\ t \in {"consumer", "runner"}
      /\ t = "consumer" => disp.final /\ ~disp.acked
  BY <1>1, FinalizeCalls DEF Finalizing
<1>3. /\ Finish(t, task[t].res)
      /\ st' = st \/ st' = Forgotten(st)
  BY <1>2 DEF FinalizeReturn
<1>4. /\ Marks /\ task'[t].pc = "idle"
      /\ \A u \in Tasks \ {t} : task'[u] = task[u]
      /\ t # "consumer" => (disp'.acked => disp.acked)
  BY <1>3, FinishAcks
<1>5. /\ st'.content = st.content /\ st'.flushed = st.flushed
      /\ st'.disabled = st.disabled /\ st'.reason = st.reason
      /\ st'.closed = st.closed /\ st'.open = st.open /\ st'.cur = st.cur
  BY <1>1, <1>3 DEF Forgotten, TypeOK, States
<1>6. KeepsText
  BY <1>1, <1>5 DEF KeepsText, OnCard
<1>7. Coming => Coming'
  BY <1>1, <1>4, <1>5, TaskNames DEF Coming, Finals
<1>8. Answered => Answered'
  BY <1>6, <1>7, StillAnswered
<1>9. "idle" \notin Finals
  BY DEF Finals
<1>10. CASE t = "consumer"
  <2>1. Answered
    BY <1>1, <1>10 DEF Answers, AnswerInv, ConsumerAnswers
  <2> QED
    BY <1>2, <1>4, <1>6, <1>8, <1>10, <2>1, CalmAnswers
<1>11. CASE t = "runner"
  BY <1>4, <1>6, <1>8, <1>9, <1>11, OtherAnswers
<1> QED
  BY <1>2, <1>10, <1>11

LEMMA RunAnswers ==
  ASSUME Answers, NEW t \in Tasks, Run(t)
  PROVE  AnswerInv'
<1>1. CASE \/ CreateEntity(t) \/ CreateCheck(t) \/ CreateSend(t)
           \/ CreateCommit(t) \/ RetireWrite(t)
  BY <1>1, CreatingAnswers, CreateSendAnswers, CreateCommitAnswers
<1>2. CASE \/ Drain(t) \/ SuspendLocked(t) \/ SuspendWrite(t)
           \/ ResumeEnter(t) \/ ResumeOk(t) \/ ResumeEnd(t)
  BY <1>2, DrainAnswers, SuspendAnswers, ResumeAnswers
<1>3. CASE SteerBegin(t) \/ SteerEnd(t) \/ SteerSilent(t) \/ Adopt(t)
  BY <1>3, NoSteering
     DEF SteerBegin, SteerEnd, SteerSilent, Adopt, At, Answers, Rests
<1>4. CASE FallbackWrite(t) \/ ExpireLocked(t)
  <2>1. task[t].pc # "fb.call"
    BY DEF Answers, Rests, Given, ColumnInv, AllApt, Apt
  <2>2. task[t].pc # "ex.lock"
    BY DEF Answers, AnswerInv, Rests, RolesInv, Doing, Resumes, Resuming,
       Making, Creations, Finalizing, Suspensions
  <2> QED
    BY <1>4, <2>1, <2>2 DEF FallbackWrite, ExpireLocked, At
<1>5. CASE SteerNext(t) \/ OutputBegin(t) \/ OutputCommit(t)
  BY <1>5, SteerNextAnswers, OutputBeginAnswers, OutputCommitAnswers
<1>6. CASE \/ FinalizeEnter(t) \/ FinalizeLocked(t) \/ FinalizeWrite(t)
           \/ FinalizeReturn(t)
  BY <1>6, FinalizeEnterAnswers, FinalizeLockedAnswers, FinalizeWriteAnswers,
     FinalizeReturnAnswers
<1>7. CASE ToolCheck(t) \/ ToolCommit(t) \/ ToolWrite(t)
  BY <1>7, ToolAnswers
<1> QED
  BY <1>1, <1>2, <1>3, <1>4, <1>5, <1>6, <1>7 DEF Run

\* A new call of the consumer or the notifier before the answer came.
LEMMA OutputAnswers ==
  ASSUME Answers, StreamDelta \/ Progress
  PROVE  AnswerInv'
<1> DEFINE part == [Idle EXCEPT !.op = "stream", !.text = "part",
                                !.pc = "out.begin"]
           prog == [Idle EXCEPT !.op = "progress", !.text = "prog",
                                !.pc = "out.begin"]
<1>1. TypeOK /\ UNCHANGED <<st, segs, ctl, disp>> /\ Active
  BY AnswerFacts DEF StreamDelta, Progress
<1>2. CASE StreamDelta
  <2>1. Go("consumer", part) /\ ~disp.final
    BY <1>2 DEF StreamDelta
  <2>2. part.pc = "out.begin" /\ part.text = "part"
    BY DEF Idle
  <2> HIDE DEF part
  <2>3. /\ task'["consumer"] = part
        /\ \A u \in Tasks \ {"consumer"} : task'[u] = task[u]
    BY <1>1, <2>1, GoTask, TaskNames
  <2>4. /\ st.content # "answer" /\ st.flushed # "answer" /\ ~disp.acked
        /\ st.closed => Ended
    BY <2>1, AnswerFacts
  <2>5. /\ task'["runner"] = task["runner"]
        /\ task'["expirer"] = task["expirer"]
    BY <2>3, TaskNames
  <2>6. /\ ~st.disabled /\ task["expirer"].pc = "idle"
        /\ task["runner"].pc \in Finals => task["runner"].text # "answer"
    BY <2>4 DEF Answers, AnswerInv, StateAnswers, RunnerAnswers
  <2> QED
    BY <1>1, <2>1, <2>2, <2>3, <2>4, <2>5, <2>6, EarlyAnswers DEF Ended
<1>3. CASE Progress
  <2>1. Go("notifier", prog)
    BY <1>3 DEF Progress
  <2> HIDE DEF prog
  <2>2. \A u \in Tasks \ {"notifier"} : task'[u] = task[u]
    BY <1>1, <2>1, GoTask, TaskNames
  <2>3. KeepsText /\ (Coming => Coming')
    BY <1>1, <2>2, TaskNames DEF KeepsText, OnCard, Coming
  <2>4. Answered => Answered'
    BY <2>3, StillAnswered
  <2> QED
    BY <1>1, <2>2, <2>3, <2>4, OtherAnswers, StillMarks, TaskNames
<1> QED
  BY <1>2, <1>3

\* The answer comes to a turn that is not closed.
LEMMA FinalAnswerAnswers ==
  ASSUME Answers, FinalAnswer
  PROVE  AnswerInv'
<1> DEFINE r == [Idle EXCEPT !.op = "final", !.text = "answer"]
           send == [r EXCEPT !.pc = "rs.enter"]
           text == [r EXCEPT !.op = "stream", !.pc = "out.begin"]
<1>1. /\ TypeOK /\ UNCHANGED <<st, segs>> /\ disp.phase = "active"
      /\ ~disp.final /\ "edit" \notin FinalWays
  <2>1. "edit" \notin FinalWays
    BY DEF Answers, Rests
  <2> QED
    BY <2>1, AnswerFacts DEF FinalAnswer, Active
<1>2. /\ ~st.closed /\ st.routed /\ ~disp.acked /\ disp.count > 0
      /\ st.content # "answer" /\ st.flushed # "answer"
  BY <1>1, AnswerFacts DEF Ended
<1>3. disp' = [disp EXCEPT !.final = TRUE]
  BY <1>1, <1>2 DEF FinalAnswer
<1>4. Go("consumer", send) \/ Go("consumer", text)
  <2>1. CASE st.terminal
    BY <1>1, <1>2, <2>1 DEF FinalAnswer
  <2>2. CASE ~st.terminal
    BY <1>1, <1>2, <2>2 DEF FinalAnswer
  <2> QED
    BY <2>1, <2>2
<1>5. /\ send.pc = "rs.enter" /\ text.pc = "out.begin"
      /\ send.text = "answer" /\ text.text = "answer"
  BY DEF Idle
<1> HIDE DEF send, text
<1>6. /\ \A u \in Tasks \ {"consumer"} : task'[u] = task[u]
      /\ task'["consumer"].pc \in {"rs.enter", "out.begin"}
      /\ task'["consumer"].text = "answer"
  BY <1>1, <1>4, <1>5, GoTask, TaskNames
<1>7. disp'.final /\ disp'.acked = disp.acked /\ disp'.count = disp.count
  BY <1>1, <1>3 DEF TypeOK, Dispatches
<1>8. StateAnswers'
  BY <1>1, <1>2, <1>7 DEF Answers, AnswerInv, StateAnswers
<1>9. ConsumerAnswers'
  BY <1>1, <1>2, <1>6, <1>7 DEF ConsumerAnswers
<1>10. RunnerAnswers' /\ task'["expirer"].pc = "idle"
  BY <1>1, <1>6, TaskNames DEF Answers, AnswerInv, RunnerAnswers
<1> QED
  BY <1>8, <1>9, <1>10 DEF AnswerInv

\* What the agent does comes before the answer.
LEMMA CallAnswers ==
  ASSUME Answers,
         \/ ToolUpdate \/ MarkTerminal
         \/ \E w \in {"artifact", "approval", "question"} : Boundary(w)
  PROVE  AnswerInv'
<1>1. TypeOK /\ ~disp.marked /\ ~disp.final /\ ~disp.acked
  <2>1. ~disp.marked
    BY DEF ToolUpdate, MarkTerminal, Boundary, AgentTurn
  <2> QED
    BY <2>1, AnswerFacts
<1>2. CASE ToolUpdate
  <2> DEFINE r(w) == [Idle EXCEPT !.op = "tool", !.tool = w, !.pc = "rs.enter"]
  <2>1. /\ UNCHANGED st /\ disp' = [disp EXCEPT !.toolAcked = FALSE]
        /\ \E w : Go("agent", r(w))
    BY <1>2 DEF ToolUpdate
  <2> HIDE DEF r
  <2>2. /\ ~disp'.final /\ ~disp'.acked /\ disp'.phase = disp.phase
        /\ disp'.count = disp.count
    BY <1>1, <2>1 DEF TypeOK, Dispatches
  <2>3. \A u \in Tasks \ {"agent"} : task'[u] = task[u]
    BY <1>1, <2>1, GoTask, TaskNames
  <2> QED
    BY <1>1, <2>1, <2>2, <2>3, AgentAnswers
<1>3. ASSUME NEW w, Boundary(w)
      PROVE  AnswerInv'
  <2> DEFINE r == [Idle EXCEPT !.op = "boundary", !.why = w, !.want = clock + 1]
             q == [r EXCEPT !.pc = "sus.quiet", !.ref = st.cur]
  <2>1. UNCHANGED <<st, disp>> /\ (Go("agent", q) \/ UNCHANGED task)
    BY <1>3 DEF Boundary, Suspend
  <2> HIDE DEF q
  <2>2. \A u \in Tasks \ {"agent"} : task'[u] = task[u]
    BY <1>1, <2>1, GoTask, TaskNames
  <2> QED
    BY <1>1, <2>1, <2>2, AgentAnswers
<1>4. CASE MarkTerminal
  <2>1. /\ UNCHANGED task /\ disp' = [disp EXCEPT !.marked = TRUE]
        /\ st' \in {st, [st EXCEPT !.terminal = TRUE]}
    BY <1>4 DEF MarkTerminal
  <2>2. /\ disp'.phase = disp.phase /\ disp'.count = disp.count
        /\ ~disp'.final /\ ~disp'.acked
    BY <1>1, <2>1 DEF TypeOK, Dispatches
  <2>3. /\ st'.closed = st.closed /\ st'.content = st.content
        /\ st'.flushed = st.flushed /\ st'.disabled = st.disabled
    BY <1>1, <2>1 DEF TypeOK, States
  <2> QED
    BY <1>1, <2>1, <2>2, <2>3, AgentAnswers
<1> QED
  BY <1>2, <1>3, <1>4

LEMMA StartAnswers ==
  ASSUME Answers, DispatchStart
  PROVE  AnswerInv'
<1> DEFINE r == [Idle EXCEPT !.op = "start", !.want = clock + 1,
                             !.ret = "st.next"]
           q == [r EXCEPT !.pc = "cr.entity", !.ref = 0]
<1>1. /\ TypeOK /\ UNCHANGED st /\ Go("runner", q) /\ disp' = Starting(disp)
      /\ disp.phase = "idle" /\ disp.count = 0
  BY AnswerFacts DEF DispatchStart, Create
<1>2. q.pc = "cr.entity"
  BY DEF Idle
<1> HIDE DEF q
<1>3. ~disp'.final /\ disp'.acked = disp.acked
  BY <1>1 DEF Starting, TypeOK, Dispatches
<1>4. /\ task'["runner"] = q
      /\ \A u \in Tasks \ {"runner"} : task'[u] = task[u]
  BY <1>1, GoTask, TaskNames
<1>5. ~disp.final
  BY <1>1 DEF Answers, AnswerInv, StateAnswers
<1>6. /\ st.content # "answer" /\ st.flushed # "answer" /\ ~disp.acked
      /\ ~st.closed /\ task["consumer"].pc = "idle"
  BY <1>1, <1>5, AnswerFacts DEF Ended
<1>7. /\ task'["consumer"].pc = "idle" /\ task'["runner"].pc \notin Finals
      /\ task'["expirer"] = task["expirer"]
  BY <1>2, <1>4, <1>6, TaskNames DEF Finals
<1>8. ~st.disabled /\ task["expirer"].pc = "idle"
  BY DEF Answers, AnswerInv, StateAnswers
<1> QED
  BY <1>1, <1>3, <1>6, <1>7, <1>8, EarlyAnswers

\* Completion finalizes with the content of the turn, or with a note if it has
\* none.
LEMMA CompleteNote ==
  ASSUME Answers, Complete
  PROVE  task'["runner"].pc \in Finals
           => (task'["runner"].text = "answer" <=> st.content = "answer")
<1> DEFINE note(e) == IF e = "success" \/ st.content # "" THEN st.content
                      ELSE "note"
           r(x, z) == [Idle EXCEPT !.pc = "fin.enter", !.op = "complete",
                         !.saw = st.open, !.text = x, !.out = z]
<1>1. TypeOK /\ Rests /\ task["runner"].pc = "idle"
  BY AnswerFacts, CompleteAt DEF Answers
<1>2. UNCHANGED task \/ \E e, z : Go("runner", r(note(e), z))
  BY Zenon DEF Complete
<1>3. \A e : note(e) = "answer" <=> st.content = "answer"
  <2> SUFFICES ASSUME NEW e
               PROVE  note(e) = "answer" <=> st.content = "answer"
    OBVIOUS
  <2>1. "answer" # ""
    OBVIOUS
  <2>2. "note" # "answer"
    OBVIOUS
  <2> QED
    BY <2>1, <2>2, Zenon
<1>4. \A x, z : r(x, z).text = x
  BY DEF Idle
<1> HIDE DEF r, note
<1>5. CASE UNCHANGED task
  BY <1>1, <1>5 DEF Finals
<1>6. ASSUME NEW e, NEW z, Go("runner", r(note(e), z))
      PROVE  task'["runner"].text = "answer" <=> st.content = "answer"
  BY <1>1, <1>3, <1>4, <1>6, GoTask, TaskNames
<1> QED
  BY <1>2, <1>5, <1>6

LEMMA CompleteAnswers ==
  ASSUME Answers, Complete
  PROVE  AnswerInv'
<1>1. /\ Given /\ Rests
  BY DEF Answers, Rests
<1>2. /\ disp'.phase = "idle" /\ disp'.count = disp.count /\ disp.count > 0
      /\ disp'.final = disp.final /\ disp'.acked = disp.acked
      /\ disp.phase = "active" /\ task["consumer"].pc = "idle"
  BY <1>1, CompleteAt
<1>3. /\ st'.open = st.open /\ st'.reason = st.reason
      /\ \A u \in Tasks \ {"runner"} : task'[u] = task[u]
      /\ \/ UNCHANGED task /\ ~(st.routed /\ ~st.closed /\ st.open)
         \/ task'["runner"].pc = "fin.enter" /\ UNCHANGED st
  BY <1>1, CompleteGoes
<1>4. /\ st'.content = st.content /\ st'.flushed = st.flushed
      /\ st'.disabled = st.disabled /\ st'.cur = st.cur
      /\ UNCHANGED <<segs, ctl>>
  BY <1>1, CompleteText, CompleteKept DEF StKept, Complete
<1>5. OnCard' <=> OnCard
  BY <1>4 DEF OnCard
<1>6. Ended'
  BY <1>2 DEF Ended
<1>7. Answered => Answered'
  <2>1. CASE task'["runner"].pc = "fin.enter" /\ UNCHANGED st
    BY <1>3, <1>5, <2>1 DEF Answered, Coming, Finals
  <2>2. CASE ~(st.routed /\ ~st.closed /\ st.open)
    <3>1. st.closed \/ st.routed
      BY <1>2, AnswerFacts
    <3>2. st.content = "answer" => st.closed /\ OnCard
      BY <1>2, <2>2, <3>1 DEF Answers, AnswerInv, StateAnswers, Ended
    <3> QED
      BY <1>3, <1>4, <1>5, <3>2 DEF Answered
  <2> QED
    BY <1>3, <2>1, <2>2
<1>8. StateAnswers'
  BY <1>2, <1>3, <1>4, <1>5, <1>6, <1>7 DEF Answers, AnswerInv, StateAnswers
<1>9. task'["consumer"].pc = "idle" /\ task'["expirer"].pc = "idle"
  BY <1>2, <1>3, TaskNames DEF Answers, AnswerInv
<1>10. ConsumerAnswers'
  BY <1>9 DEF ConsumerAnswers
<1>11. RunnerAnswers'
  BY <1>4, CompleteNote DEF RunnerAnswers
<1> QED
  BY <1>8, <1>9, <1>10, <1>11 DEF AnswerInv

\* A flush leaves an answer that it does not write to what is on the card.
LEMMA FlushStartAnswers ==
  ASSUME Answers, NEW i \in 1..Len(ctl), FlushFire(i) \/ FlushLocked(i)
  PROVE  AnswerInv'
<1> DEFINE fire == [ctl[i] EXCEPT !.state = "inflight"]
           write == [ctl[i] EXCEPT !.state = "write", !.text = st.content]
<1>1. /\ TypeOK /\ WritesInv /\ UNCHANGED <<st, segs, task, disp>>
      /\ ctl \in Seq(Controllers) /\ ctl[i] \in Controllers
  BY AnswerFacts, ElementType DEF TypeOK, FlushFire, FlushLocked
<1>2. fire.state # "idle" /\ write.state # "idle"
  BY <1>1 DEF Controllers
<1>3. KeepsText
  BY <1>1 DEF KeepsText, OnCard
<1>4. \/ ctl' = [ctl EXCEPT ![i] = fire] \/ ctl' = [ctl EXCEPT ![i] = write]
      \/ st.closed \/ st.disabled \/ ~st.open \/ st.content = st.flushed
  <2>1. CASE FlushFire(i)
    BY <2>1 DEF FlushFire, fire, Answers, StopInv
  <2>2. CASE FlushLocked(i)
    BY <2>2 DEF FlushLocked, write
  <2> QED
    BY <2>1, <2>2
<1> HIDE DEF fire, write
<1>5. Answered => Answered'
  <2>1. CASE \/ ctl' = [ctl EXCEPT ![i] = fire]
             \/ ctl' = [ctl EXCEPT ![i] = write]
    <3>1. /\ ctl'[i].state # "idle"
          /\ \A j \in 1..Len(ctl) \ {i} : ctl'[j] = ctl[j]
      BY <1>1, <1>2, <2>1
    <3>2. st.cur # 0 => st.cur \in 1..Len(ctl)
      BY <1>1, CurrentCard DEF Cards, Answers, StopInv
    <3>3. Coming => Coming'
      BY <1>1, <3>1, <3>2 DEF Coming
    <3> QED
      BY <1>3, <3>3, StillAnswered
  <2>2. CASE st.closed \/ st.disabled \/ ~st.open \/ st.content = st.flushed
    <3>1. Answered
            => st.reason = "question" \/ (st.content = "answer" /\ OnCard)
      BY <2>2 DEF Answers, AnswerInv, StateAnswers, Answered
    <3> QED
      BY <1>3, <3>1 DEF KeepsText, Answered
  <2> QED
    BY <1>4, <2>1, <2>2
<1> QED
  BY <1>1, <1>3, <1>5, OtherAnswers, StillMarks, TaskNames

\* The write of a flush puts the answer on the card if the state has it.
LEMMA FlushWriteAnswers ==
  ASSUME Answers, NEW i \in 1..Len(ctl), FlushWrite(i)
  PROVE  AnswerInv'
<1>1. Rests /\ Given /\ UNCHANGED <<task, disp>>
  BY DEF Answers, Rests, FlushWrite
<1>2. ctl[i].text = st.content
  BY DEF Answers, StopInv, Flushing, FlushWrite
<1>3. /\ st.cur # 0 /\ segs'[st.cur].text = st.content
      /\ st'.content = st.content /\ st'.flushed = st.content
      /\ st'.disabled = st.disabled
  BY <1>1, <1>2, FlushShows
<1>4. /\ st'.cur = st.cur /\ st'.reason = st.reason
      /\ st'.closed = st.closed /\ st'.open = st.open
  BY <1>1, FlushWriteKept DEF StKept, StOpen
<1>5. st.content = "answer" => OnCard'
  BY <1>3, <1>4 DEF OnCard
<1>6. Answered => Answered'
  BY <1>3, <1>4, <1>5 DEF Answered
<1>7. StateAnswers'
  BY <1>1, <1>3, <1>4, <1>5, <1>6 DEF Answers, AnswerInv, StateAnswers, Ended
<1>8. ConsumerAnswers' /\ RunnerAnswers' /\ task'["expirer"].pc = "idle"
  BY <1>1, <1>3, <1>4, <1>6
     DEF Answers, AnswerInv, ConsumerAnswers, RunnerAnswers
<1> QED
  BY <1>7, <1>8 DEF AnswerInv

LEMMA NextAnswers ==
  ASSUME Answers, [Next]_vars, Steers = {}, MaxDispatch <= 1
  PROVE  AnswerInv'
<1>1. ASSUME NEW t \in Tasks, Run(t)
      PROVE  AnswerInv'
  BY <1>1, RunAnswers
<1>2. CASE \/ ToolUpdate \/ MarkTerminal
           \/ \E w \in {"artifact", "approval", "question"} : Boundary(w)
  BY <1>2, CallAnswers
<1>3. CASE DispatchStart \/ DispatchContinue \/ Complete
  BY <1>3, StartAnswers, OneDispatch, CompleteAnswers
<1>4. CASE StreamDelta \/ Progress \/ FinalAnswer
  BY <1>4, OutputAnswers, FinalAnswerAnswers
<1>5. CASE ShutDown \/ Expire
  BY <1>5 DEF ShutDown, Expire, Answers, Rests
<1>6. CASE Flush
  BY <1>6, FlushStartAnswers, FlushWriteAnswers DEF Flush
<1>7. CASE Done \/ UNCHANGED vars
  <2>1. UNCHANGED <<st, segs, ctl, task, disp>>
    BY <1>7 DEF Done, vars
  <2>2. KeepsText /\ (Coming => Coming')
    BY <2>1 DEF KeepsText, OnCard, Coming
  <2>3. Answered => Answered'
    BY <2>2, StillAnswered
  <2> QED
    BY <2>1, <2>2, <2>3, OtherAnswers, StillMarks, TaskNames
<1> QED
  BY <1>1, <1>2, <1>3, <1>4, <1>5, <1>6, <1>7 DEF Next

LEMMA InitAnswers == Init => AnswerInv
<1> SUFFICES ASSUME Init
             PROVE  AnswerInv
  OBVIOUS
<1>1. Idle.pc = "idle"
  BY DEF Idle
<1>2. \A t \in Tasks : task[t].pc = "idle"
  BY <1>1 DEF Init
<1>3. ~disp.final /\ ~disp.acked
  BY DEF Init
<1>4. st = NewState
  BY DEF Init
<1>5. /\ NewState.content # "answer" /\ NewState.flushed # "answer"
      /\ ~NewState.closed /\ ~NewState.disabled
  BY DEF NewState
<1> QED
  BY <1>2, <1>3, <1>4, <1>5, TaskNames
     DEF AnswerInv, StateAnswers, ConsumerAnswers, RunnerAnswers, Finals

\* Once nothing is under way, an answer that was acknowledged is on the card.
LEMMA AnswerSettles ==
  ASSUME TypeOK, WritesInv, StopInv, AnswerInv
  PROVE  AnswerShown
<1> SUFFICES ASSUME Quiescent, disp.acked, st.reason # "question"
             PROVE  \E i \in Cards : segs[i].text = "answer"
  BY DEF AnswerShown
<1>1. Answered
  BY DEF AnswerInv, StateAnswers
<1>2. st.cur # 0 => st.cur \in Cards /\ ctl[st.cur].state = "idle"
  BY CurrentCard DEF Cards, StopInv, Quiescent
<1>3. ~Coming
  BY <1>2, TaskNames DEF Coming, Quiescent, Finals
<1>4. OnCard
  BY <1>1, <1>3 DEF Answered
<1> QED
  BY <1>2, <1>4 DEF OnCard

\* An answer that the adapter reported as delivered during one dispatch, which
\* was not steered, sends its answer, and met no failing call, is on the card
\* once nothing is under way, however the dispatch ended (edit_message, send,
\* on_processing_complete): the flush that has it, or the finalize of the
\* dispatch, is never refused, cancelled or overtaken by an older text.
THEOREM AnswersShown ==
  Steers = {} /\ MaxDispatch <= 1 /\ ~MayShutDown /\ ~MayExpire
      /\ FinalWays \subseteq {"send"}
    => (Spec => [](FaultFree => AnswerShown))
<1> SUFFICES ASSUME Steers = {}, MaxDispatch <= 1, ~MayShutDown, ~MayExpire,
                    FinalWays \subseteq {"send"}
             PROVE  Spec => [](FaultFree => AnswerShown)
  OBVIOUS
<1>1. Init => (FaultFree => StopInv /\ AnswerInv)
  BY InitStops, InitAnswers
<1>2. Spec => []BoundaryInv
  BY BoundariesInvariant DEF Plain, Uncancelled
<1>3. Spec => [](FaultFree => ColumnInv)
  BY ColumnInvariant DEF Plain, Uncancelled, Echoes
<1>4. Spec => [](RolesInv /\ ToolInv)
  BY RolesInvariant
<1>5. Spec => [](FaultFree => EndsInv)
  BY EndsInvariant
<1>6. TypeOK /\ WritesInv /\ BoundaryInv /\ (FaultFree => ColumnInv)
        /\ (RolesInv /\ ToolInv) /\ (FaultFree => EndsInv)
        /\ (FaultFree => StopInv /\ AnswerInv) /\ [Next]_vars
        => (FaultFree => StopInv /\ AnswerInv)'
  <2> SUFFICES ASSUME TypeOK, WritesInv, BoundaryInv, FaultFree => ColumnInv,
                      RolesInv, ToolInv, FaultFree => EndsInv,
                      FaultFree => StopInv /\ AnswerInv, [Next]_vars,
                      FaultFree'
               PROVE  StopInv' /\ AnswerInv'
    OBVIOUS
  <2>1. Given /\ ColumnInv'
    BY NextColumn DEF Plain, Uncancelled, Echoes
  <2>2. RolesInv'
    BY NextTool
  <2>3. EndsInv /\ StopInv /\ AnswerInv
    BY <2>1 DEF Given
  <2>4. Rests
    BY <2>1, <2>2, <2>3 DEF Rests
  <2>5. EndsInv'
    BY <2>4, NextEnds
  <2>6. Answers
    BY <2>3, <2>4, <2>5 DEF Answers
  <2> QED
    BY <2>3, <2>4, <2>6, NextStops, NextAnswers
<1>7. TypeOK /\ WritesInv /\ (FaultFree => StopInv /\ AnswerInv)
        => (FaultFree => AnswerShown)
  BY AnswerSettles
<1> QED
  BY <1>1, <1>2, <1>3, <1>4, <1>5, <1>6, <1>7, TypeCorrect, WritesGuarded, PTL
     DEF Spec
=============================================================================
