------------------------ MODULE MessageBatchesProofs ------------------------
(***************************************************************************)
(* Proofs about MessageBatches.  They rest on what a task may leave behind *)
(* when it is cancelled: a message is at one place at most before it is    *)
(* handed to Hermes, the chat lock's queue holds those that wait for it,   *)
(* and the timer registered under a key is one of that key.                *)
(***************************************************************************)
EXTENDS MessageBatches, TLAPS

Intake(m) == <<"intake", m>>
Timer(m) == <<"timer", m>>

LEMMA TaskNames ==
  /\ \A m \in Msgs : Intake(m) \in Tasks /\ Timer(m) \in Tasks
  /\ \A m, n : /\ Intake(m) = Intake(n) => m = n
               /\ Timer(m) = Timer(n) => m = n
               /\ Intake(m) # Timer(n)
  /\ NoTask \notin Tasks
BY MessagesAssumption DEF Tasks, Intake, Timer, NoTask

-----------------------------------------------------------------------------
(* Batches, records of tasks and the queue of the lock                     *)

LEMMA NoBatchType == NoBatch \in Batches /\ Members(NoBatch) = {}
BY DEF NoBatch, Batches, Members

LEMMA EventType ==
  ASSUME NEW m \in Msgs, NEW c \in Contexts, NEW n \in Sizes
  PROVE  /\ Event(m, c, n) \in Batches /\ Members(Event(m, c, n)) = {m}
         /\ Event(m, c, n) # NoBatch
<1>1. Event(m, c, n) \in Batches BY LimitsAssumption DEF Event, Batches
<1>2. Event(m, c, n).msgs = <<m>> /\ NoBatch.msgs = <<>> BY DEF Event, NoBatch
<1>3. Len(<<m>>) = 1 /\ <<m>>[1] = m /\ <<m>> # <<>> OBVIOUS
<1>4. Members(Event(m, c, n)) = {m} BY <1>2, <1>3 DEF Members
<1> QED BY <1>1, <1>2, <1>3, <1>4

\* A batch takes in a message.
LEMMA MergedType ==
  ASSUME NEW b \in Batches, NEW m \in Msgs, NEW c \in Contexts, NEW n \in Sizes
  PROVE  /\ Merged(b, Event(m, c, n)) \in Batches
         /\ Members(Merged(b, Event(m, c, n))) = Members(b) \cup {m}
<1> DEFINE e == Event(m, c, n)
           d == Merged(b, e)
<1>1. /\ b.msgs \in Seq(Msgs) /\ b.ctx \in Contexts \cup {"none"} /\ b.chars \in Nat
      /\ e.msgs = <<m>> /\ e.chars \in Nat
  BY LimitsAssumption DEF Batches, Event
<1>2. d.msgs = b.msgs \o <<m>> /\ d \in Batches
  <2> HIDE DEF e
  <2>1. e.msgs = <<m>> /\ b.msgs \o <<m>> \in Seq(Msgs) /\ b.chars + 1 + e.chars \in Nat
    BY <1>1
  <2> QED BY <1>1, <2>1 DEF Merged, Batches
<1>3. /\ Len(b.msgs \o <<m>>) = Len(b.msgs) + 1 /\ Len(b.msgs) \in Nat
      /\ \A i \in 1..Len(b.msgs) : (b.msgs \o <<m>>)[i] = b.msgs[i]
      /\ (b.msgs \o <<m>>)[Len(b.msgs) + 1] = m
  BY <1>1
<1> HIDE DEF d
<1>4. Members(d) = {(b.msgs \o <<m>>)[i] : i \in 1..(Len(b.msgs) + 1)}
  BY <1>2, <1>3 DEF Members
<1>5. Members(d) \subseteq Members(b) \cup {m}
  <2>1. ASSUME NEW i \in 1..(Len(b.msgs) + 1)
        PROVE  (b.msgs \o <<m>>)[i] \in Members(b) \cup {m}
    <3>1. i \in 1..Len(b.msgs) \/ i = Len(b.msgs) + 1 BY <1>3
    <3> QED BY <1>3, <3>1 DEF Members
  <2> QED BY <1>4, <2>1
<1>6. Members(b) \cup {m} \subseteq Members(d)
  <2>1. /\ Len(b.msgs) + 1 \in 1..(Len(b.msgs) + 1)
        /\ \A i \in 1..Len(b.msgs) : i \in 1..(Len(b.msgs) + 1)
    BY <1>3
  <2> QED BY <1>3, <1>4, <2>1 DEF Members
<1> QED BY <1>2, <1>5, <1>6 DEF d

LEMMA NewTaskType ==
  /\ NewTask \in TaskRecords
  /\ NewTask.pc = "idle" /\ NewTask.batch = NoBatch /\ NewTask.own = NoBatch
  /\ ~NewTask.store
BY NoBatchType DEF NewTask, TaskRecords, Keys

\* The timer task that _reschedule_batch_task creates.
Sleeper(k) == [NewTask EXCEPT !.pc = "sleep", !.key = k]

LEMMA SleeperType ==
  ASSUME NEW k \in Keys
  PROVE  /\ Sleeper(k) \in TaskRecords
         /\ Sleeper(k).pc = "sleep" /\ Sleeper(k).key = k /\ ~Sleeper(k).store
BY NewTaskType DEF Sleeper, TaskRecords

LEMMA EndedType ==
  ASSUME NEW r \in TaskRecords
  PROVE  /\ Ended(r) \in TaskRecords
         /\ Ended(r).pc = "done" /\ Ended(r).key = r.key /\ ~Ended(r).store
<1> DEFINE e == [r EXCEPT !.pc = "done", !.batch = NoBatch, !.own = NoBatch,
                          !.store = FALSE]
<1>1. e \in TaskRecords /\ e.pc = "done" /\ e.key = r.key /\ ~e.store
  BY NoBatchType DEF TaskRecords
<1>2. Ended(r) = e BY DEF Ended
<1> HIDE DEF e
<1> QED BY <1>1, <1>2

InLine(q, t) == \E i \in 1..Len(q) : q[i] = t
Once(q) == \A i, j \in 1..Len(q) : q[i] = q[j] => i = j

\* A task that waited is taken out, and the others keep their places in the queue.
LEMMA WithoutType ==
  ASSUME NEW S, NEW q \in Seq(S), Once(q), NEW t
  PROVE  /\ Without(q, t) \in Seq(S) /\ Once(Without(q, t))
         /\ \A u : InLine(Without(q, t), u) <=> InLine(q, u) /\ u # t
<1> DEFINE k == CHOOSE i \in 1..Len(q) : q[i] = t
           n == Len(q) - 1
           w == [i \in 1..n |-> IF i < k THEN q[i] ELSE q[i + 1]]
<1>1. CASE InLine(q, t)
  <2>1. Without(q, t) = w /\ k \in 1..Len(q) /\ q[k] = t
    BY <1>1 DEF Without, InLine
  <2>2. n \in Nat /\ Len(q) = n + 1 BY <2>1
  <2> HIDE DEF k, n
  <2>3. /\ \A i \in 1..n : i \in 1..Len(q) /\ i + 1 \in 1..Len(q)
        /\ \A i \in 1..Len(q) : q[i] \in S
    BY <2>2
  <2>4. w \in [1..n -> S] BY <2>3
  <2>5. \A i \in 1..n : w[i] = IF i < k THEN q[i] ELSE q[i + 1] OBVIOUS
  <2> HIDE DEF w
  <2>6. w \in Seq(S) /\ Len(w) = n BY <2>2, <2>4
  <2>7. ASSUME NEW i \in 1..n, NEW j \in 1..n, w[i] = w[j] PROVE i = j
    <3> DEFINE x == IF i < k THEN i ELSE i + 1
               y == IF j < k THEN j ELSE j + 1
    <3>1. x \in 1..Len(q) /\ y \in 1..Len(q) /\ w[i] = q[x] /\ w[j] = q[y]
      BY <2>3, <2>5
    <3>2. x = y BY <2>7, <3>1 DEF Once
    <3> QED BY <2>1, <3>2
  <2>8. ASSUME NEW u, NEW i \in 1..n, w[i] = u PROVE InLine(q, u) /\ u # t
    <3> DEFINE x == IF i < k THEN i ELSE i + 1
    <3>1. x \in 1..Len(q) /\ w[i] = q[x] /\ x # k BY <2>1, <2>3, <2>5
    <3> HIDE DEF x
    <3> QED BY <2>1, <2>8, <3>1 DEF Once, InLine
  <2>9. ASSUME NEW u, NEW i \in 1..Len(q), q[i] = u, u # t
        PROVE  \E j \in 1..n : w[j] = u
    <3>1. i # k BY <2>1, <2>9
    <3>2. CASE i < k
      <4>1. i \in 1..n BY <2>1, <2>2, <3>2
      <4> QED BY <2>5, <2>9, <3>2, <4>1
    <3>3. CASE ~(i < k)
      <4>1. i - 1 \in 1..n /\ ~(i - 1 < k) /\ (i - 1) + 1 = i BY <2>1, <2>2, <3>1, <3>3
      <4>2. w[i - 1] = q[(i - 1) + 1] BY <2>5, <4>1
      <4> QED BY <2>9, <4>1, <4>2
    <3> QED BY <3>2, <3>3
  <2>10. \A u : InLine(w, u) <=> InLine(q, u) /\ u # t
    BY <2>6, <2>8, <2>9 DEF InLine
  <2> QED BY <2>1, <2>6, <2>7, <2>10 DEF Once
<1>2. CASE ~InLine(q, t)
  BY <1>2 DEF Without, InLine
<1> QED BY <1>1, <1>2

LEMMA LineAppend ==
  ASSUME NEW S, NEW q \in Seq(S), NEW t \in S
  PROVE  /\ \A u : InLine(Append(q, t), u) <=> InLine(q, u) \/ u = t
         /\ Once(q) /\ ~InLine(q, t) => Once(Append(q, t))
<1>1. /\ Len(q) \in Nat /\ Len(Append(q, t)) = Len(q) + 1
      /\ \A i \in 1..Len(q) : Append(q, t)[i] = q[i]
      /\ Append(q, t)[Len(q) + 1] = t
  OBVIOUS
<1>2. \A u : InLine(Append(q, t), u) => InLine(q, u) \/ u = t BY <1>1 DEF InLine
<1>3. \A u : InLine(q, u) \/ u = t => InLine(Append(q, t), u)
  <2>1. /\ Len(q) + 1 \in 1..(Len(q) + 1)
        /\ \A i \in 1..Len(q) : i \in 1..(Len(q) + 1)
    BY <1>1
  <2> QED BY <1>1, <2>1 DEF InLine
<1>4. Once(q) /\ ~InLine(q, t) => Once(Append(q, t)) BY <1>1 DEF Once, InLine
<1> QED BY <1>2, <1>3, <1>4

LEMMA LineTail ==
  ASSUME NEW S, NEW q \in Seq(S), q # <<>>, Once(q)
  PROVE  /\ Tail(q) \in Seq(S) /\ Once(Tail(q)) /\ Head(q) \in S
         /\ \A u : InLine(Tail(q), u) <=> InLine(q, u) /\ u # Head(q)
<1>1. /\ Len(q) \in Nat /\ Len(q) >= 1 /\ Len(Tail(q)) = Len(q) - 1
      /\ \A i \in 1..Len(Tail(q)) : Tail(q)[i] = q[i + 1]
      /\ Head(q) = q[1] /\ Tail(q) \in Seq(S) /\ Head(q) \in S
  OBVIOUS
<1>2. /\ \A i \in 1..Len(Tail(q)) : i + 1 \in 1..Len(q) /\ i + 1 # 1
      /\ 1 \in 1..Len(q)
      /\ \A i \in 1..Len(q) : i # 1 => i - 1 \in 1..Len(Tail(q)) /\ (i - 1) + 1 = i
  BY <1>1
<1>3. ASSUME NEW i \in 1..Len(Tail(q)), NEW j \in 1..Len(Tail(q)), Tail(q)[i] = Tail(q)[j]
      PROVE  i = j
  <2>1. i + 1 = j + 1 BY <1>1, <1>2, <1>3 DEF Once
  <2> QED BY <2>1
<1>4. ASSUME NEW u, InLine(Tail(q), u) PROVE InLine(q, u) /\ u # Head(q)
  BY <1>1, <1>2, <1>4 DEF InLine, Once
<1>5. ASSUME NEW u, InLine(q, u), u # Head(q) PROVE InLine(Tail(q), u)
  <2>1. PICK i \in 1..Len(q) : q[i] = u BY <1>5 DEF InLine
  <2>2. i # 1 BY <1>1, <1>5, <2>1
  <2>3. Tail(q)[i - 1] = u BY <1>1, <1>2, <2>1, <2>2
  <2> QED BY <1>2, <2>2, <2>3 DEF InLine
<1> QED BY <1>1, <1>3, <1>4, <1>5 DEF Once

-----------------------------------------------------------------------------
(* The tasks, the lock and the registered timers                           *)

\* The timer task of a message is created when its intake ends, and puts nothing
\* aside.
TimerAfterIntake ==
  \A m \in Msgs : /\ task[Intake(m)].pc # "done" => task[Timer(m)].pc = "idle"
                  /\ ~task[Timer(m)].store

\* What is registered under a key is a timer task of that key.
Registered ==
  \A k \in Keys : timerOf[k] # NoMsg =>
    task[Timer(timerOf[k])].pc # "idle" /\ task[Timer(timerOf[k])].key = k

\* The task inside the lock is the one that handles a batch, and the lock's queue
\* holds those that wait for it, once each.
LockQueue ==
  /\ \A t \in Tasks : task[t].pc = "handling" <=> lock = t
  /\ \A t \in Tasks : task[t].pc = "lock" <=> InLine(waiters, t)
  /\ Once(waiters)

Core == TypeOK /\ TimerAfterIntake /\ Registered /\ LockQueue

LEMMA TypeFields ==
  ASSUME TypeOK
  PROVE  /\ \A t \in Tasks : task[t] \in TaskRecords
         /\ \A t \in Tasks : task[t].key \in Keys /\ task[t].batch \in Batches
                             /\ task[t].own \in Batches
         /\ \A k \in Keys : pending[k] \in Batches /\ timerOf[k] \in Msgs \cup {NoMsg}
BY DEF TypeOK, TaskRecords

\* A new record for one task.
LEMMA OneTask ==
  ASSUME TypeOK, NEW t \in Tasks, NEW r \in TaskRecords, task' = [task EXCEPT ![t] = r]
  PROVE  /\ task' \in [Tasks -> TaskRecords]
         /\ task'[t] = r /\ \A u \in Tasks \ {t} : task'[u] = task[u]
BY DEF TypeOK

LEMMA HandedEffect ==
  ASSUME handed \in [Msgs -> Nat], NEW b, Handed(b)
  PROVE  /\ handed' \in [Msgs -> Nat]
         /\ \A m \in Msgs : handed'[m] = IF m \in Members(b) THEN handed[m] + 1 ELSE handed[m]
BY DEF Handed

\* Dispatch: t is inside the lock and its batch was handed over, or it waits.
LEMMA DispatchEffect ==
  ASSUME TypeOK, LockQueue, NEW t \in Tasks, NEW r \in TaskRecords, NEW b \in Batches,
         task[t].pc \notin {"lock", "handling"}, Dispatch(t, r, b)
  PROVE  /\ task' \in [Tasks -> TaskRecords] /\ lock' \in Tasks \cup {NoTask}
         /\ waiters' \in Seq(Tasks) /\ handed' \in [Msgs -> Nat]
         /\ LockQueue'
         /\ \A u \in Tasks \ {t} : task'[u] = task[u]
         /\ task'[t].pc \in {"lock", "handling"} /\ task'[t].batch = b
         /\ task'[t].key = r.key /\ task'[t].own = r.own /\ task'[t].store = r.store
         /\ task'[t].pc = "lock" => UNCHANGED handed
         /\ task'[t].pc = "handling" => Handed(b)
<1>1. CASE LockFree
  <2> DEFINE d == [r EXCEPT !.pc = "handling", !.batch = b]
  <2>1. /\ d \in TaskRecords /\ d.pc = "handling"
        /\ d.batch = b /\ d.key = r.key /\ d.own = r.own /\ d.store = r.store
    BY DEF TaskRecords
  <2>2. /\ task' = [task EXCEPT ![t] = d] /\ lock' = t /\ Handed(b) /\ UNCHANGED waiters
    BY <1>1 DEF Dispatch
  <2> HIDE DEF d
  <2>3. /\ task' \in [Tasks -> TaskRecords] /\ task'[t] = d
        /\ \A u \in Tasks \ {t} : task'[u] = task[u]
    BY <2>1, <2>2, OneTask
  <2>4. handed' \in [Msgs -> Nat] BY <2>2, HandedEffect DEF TypeOK
  <2>5. lock = NoTask BY <1>1 DEF LockFree
  <2>6. LockQueue' BY <2>1, <2>2, <2>3, <2>5, TaskNames DEF LockQueue
  <2> QED BY <2>1, <2>2, <2>3, <2>4, <2>6 DEF TypeOK
<1>2. CASE ~LockFree
  <2> DEFINE d == [r EXCEPT !.pc = "lock", !.batch = b]
  <2>1. /\ d \in TaskRecords /\ d.pc = "lock"
        /\ d.batch = b /\ d.key = r.key /\ d.own = r.own /\ d.store = r.store
    BY DEF TaskRecords
  <2>2. /\ task' = [task EXCEPT ![t] = d] /\ waiters' = Append(waiters, t)
        /\ UNCHANGED <<lock, handed>>
    BY <1>2 DEF Dispatch
  <2> HIDE DEF d
  <2>3. /\ task' \in [Tasks -> TaskRecords] /\ task'[t] = d
        /\ \A u \in Tasks \ {t} : task'[u] = task[u]
    BY <2>1, <2>2, OneTask
  <2>4. /\ waiters' \in Seq(Tasks) /\ ~InLine(waiters, t)
        /\ \A u : InLine(waiters', u) <=> InLine(waiters, u) \/ u = t
        /\ Once(waiters')
    BY <2>2, LineAppend DEF TypeOK, LockQueue
  <2>5. LockQueue' BY <2>1, <2>2, <2>3, <2>4 DEF LockQueue
  <2> QED BY <2>1, <2>2, <2>3, <2>4, <2>5 DEF TypeOK
<1> QED BY <1>1, <1>2

LEMMA CancelEffect ==
  ASSUME NEW f \in [Tasks -> TaskRecords], NEW n \in Msgs \cup {NoMsg}
  PROVE  /\ CancelledIn(f, n) \in [Tasks -> TaskRecords]
         /\ Live(f, n) <=> n # NoMsg /\ f[Timer(n)].pc # "done"
         /\ \A t \in Tasks : CancelledIn(f, n)[t] =
              IF Live(f, n) /\ t = Timer(n) THEN Ended(f[t]) ELSE f[t]
<1>1. Live(f, n) <=> n # NoMsg /\ f[Timer(n)].pc # "done" BY DEF Live, Timer
<1>2. CASE Live(f, n)
  <2>1. Timer(n) \in Tasks BY <1>1, <1>2, TaskNames
  <2>2. Ended(f[Timer(n)]) \in TaskRecords BY <2>1, EndedType
  <2>3. CancelledIn(f, n) = [f EXCEPT ![Timer(n)] = Ended(f[Timer(n)])]
    BY <1>2 DEF CancelledIn, Timer
  <2> QED BY <1>1, <1>2, <2>1, <2>2, <2>3
<1>3. CASE ~Live(f, n)
  BY <1>1, <1>3 DEF CancelledIn
<1> QED BY <1>2, <1>3

\* The timer task of a key is cancelled: it leaves the lock, or the lock's queue.
LEMMA CancelTimerEffect ==
  ASSUME Core, NEW k \in Keys, CancelTimer(k)
  PROVE  /\ task' \in [Tasks -> TaskRecords] /\ lock' \in Tasks \cup {NoTask}
         /\ waiters' \in Seq(Tasks)
         /\ LockQueue'
         /\ \A t \in Tasks : t # Timer(timerOf[k]) => task'[t] = task[t]
         /\ \A t \in Tasks : task'[t] = task[t] \/ task'[t] = Ended(task[t])
<1> DEFINE n == timerOf[k]
           prior == Timer(n)
           live == Live(task, n)
<1>1. /\ task' \in [Tasks -> TaskRecords]
      /\ live <=> n # NoMsg /\ task[prior].pc # "done"
      /\ \A t \in Tasks : task'[t] = IF live /\ t = prior THEN Ended(task[t]) ELSE task[t]
  BY TypeFields, CancelEffect DEF Core, CancelTimer, TypeOK
<1>2. /\ lock' = IF live /\ lock = prior THEN NoTask ELSE lock
      /\ waiters' = IF live THEN Without(waiters, prior) ELSE waiters
  BY DEF CancelTimer, Timer
<1>3. waiters \in Seq(Tasks) /\ Once(waiters) /\ lock \in Tasks \cup {NoTask}
  BY DEF Core, TypeOK, LockQueue
<1>4. /\ waiters' \in Seq(Tasks) /\ Once(waiters')
      /\ \A u : InLine(waiters', u) <=> InLine(waiters, u) /\ ~(live /\ u = prior)
  BY <1>2, <1>3, WithoutType
<1>5. \A t \in Tasks : live /\ t = prior => task'[t].pc = "done"
  BY <1>1, TypeFields, EndedType DEF Core
<1>6. LockQueue'
  <2>1. \A t \in Tasks : task'[t].pc = "handling" <=> lock' = t
    BY <1>1, <1>2, <1>5, TaskNames DEF Core, LockQueue
  <2>2. \A t \in Tasks : task'[t].pc = "lock" <=> InLine(waiters', t)
    BY <1>1, <1>4, <1>5 DEF Core, LockQueue
  <2> QED BY <1>4, <2>1, <2>2 DEF LockQueue
<1> QED BY <1>1, <1>2, <1>3, <1>4, <1>6

\* An intake that stored an event ends: the prior timer task of the key is over and
\* the one of the message sleeps.
Renewed(k, m) ==
  /\ task' \in [Tasks -> TaskRecords] /\ lock' \in Tasks \cup {NoTask}
  /\ waiters' \in Seq(Tasks)
  /\ timerOf' = [timerOf EXCEPT ![k] = m]
  /\ LockQueue'
  /\ task'[Timer(m)] = Sleeper(k) /\ task'[Intake(m)] = Ended(task[Intake(m)])
  /\ \A t \in Tasks \ {Timer(m)} : task'[t] = task[t] \/ task'[t] = Ended(task[t])
  /\ \A t \in Tasks \ {Timer(m), Intake(m)} : t # Timer(timerOf[k]) => task'[t] = task[t]
  /\ timerOf[k] # NoMsg => timerOf[k] # m /\ task'[Timer(timerOf[k])].pc = "done"

LEMMA RescheduleEffect ==
  ASSUME Core, NEW k \in Keys, NEW m \in Msgs, NEW l,
         task[Intake(m)].pc \notin {"lock", "done"},
         l = IF lock = Intake(m) THEN NoTask ELSE lock,
         Reschedule(k, m, [task EXCEPT ![Intake(m)] = Ended(@)], l, waiters)
  PROVE  Renewed(k, m)
<1> DEFINE n == timerOf[k]
           prior == Timer(n)
           f == [task EXCEPT ![Intake(m)] = Ended(@)]
           live == Live(f, n)
           g == CancelledIn(f, n)
<1>1. /\ Intake(m) \in Tasks /\ Timer(m) \in Tasks /\ Timer(m) # Intake(m)
      /\ prior # Intake(m) /\ NoTask \notin Tasks
  BY TaskNames
<1>2. /\ f \in [Tasks -> TaskRecords] /\ f[Intake(m)] = Ended(task[Intake(m)])
      /\ \A t \in Tasks \ {Intake(m)} : f[t] = task[t]
  BY <1>1, TypeFields, EndedType DEF Core, TypeOK
<1>3. /\ task' = [g EXCEPT ![Timer(m)] = Sleeper(k)]
      /\ timerOf' = [timerOf EXCEPT ![k] = m]
      /\ lock' = IF live /\ l = prior THEN NoTask ELSE l
      /\ waiters' = IF live THEN Without(waiters, prior) ELSE waiters
  BY DEF Reschedule, Timer, Sleeper
<1>4. n \in Msgs \cup {NoMsg} BY TypeFields DEF Core
<1> HIDE DEF f
<1>5. /\ g \in [Tasks -> TaskRecords]
      /\ live <=> n # NoMsg /\ f[prior].pc # "done"
      /\ \A t \in Tasks : g[t] = IF live /\ t = prior THEN Ended(f[t]) ELSE f[t]
  BY <1>2, <1>4, CancelEffect
<1> HIDE DEF g, live
<1>6. /\ task' \in [Tasks -> TaskRecords] /\ task'[Timer(m)] = Sleeper(k)
      /\ \A t \in Tasks \ {Timer(m)} : task'[t] = g[t]
  BY <1>1, <1>3, <1>5, SleeperType
<1>7. task[Timer(m)].pc = "idle" BY DEF Core, TimerAfterIntake
<1>8. n # NoMsg => /\ prior \in Tasks /\ n # m
                   /\ live <=> task[prior].pc # "done"
  <2>1. n # NoMsg => n # m BY <1>7 DEF Core, Registered
  <2> QED BY <1>1, <1>2, <1>4, <1>5, <2>1, TaskNames
<1>9. /\ task'[Intake(m)] = Ended(task[Intake(m)])
      /\ \A t \in Tasks \ {Timer(m), Intake(m)} :
           task'[t] = IF live /\ t = prior THEN Ended(task[t]) ELSE task[t]
  BY <1>1, <1>2, <1>5, <1>6
<1>10. /\ task'[Intake(m)].pc = "done" /\ task'[Timer(m)].pc = "sleep"
       /\ n # NoMsg => prior # Timer(m) /\ task'[prior].pc = "done"
  BY <1>1, <1>6, <1>8, <1>9, TypeFields, EndedType, SleeperType, TaskNames DEF Core
<1>11. waiters \in Seq(Tasks) /\ Once(waiters) /\ l \in Tasks \cup {NoTask}
  BY DEF Core, TypeOK, LockQueue
<1>12. /\ waiters' \in Seq(Tasks) /\ Once(waiters')
       /\ \A u : InLine(waiters', u) <=> InLine(waiters, u) /\ ~(live /\ u = prior)
  BY <1>3, <1>11, WithoutType
<1>13. live => n # NoMsg BY <1>5
<1>14. LockQueue'
  <2>1. ASSUME NEW t \in Tasks PROVE task'[t].pc = "handling" <=> lock' = t
    <3>1. CASE t \in {Timer(m), Intake(m)}
      <4>1. l # t BY <1>1, <1>7, <3>1 DEF Core, LockQueue
      <4> QED BY <1>1, <1>3, <1>10, <3>1, <4>1
    <3>2. CASE t \notin {Timer(m), Intake(m)}
      <4>1. l = t <=> lock = t BY <1>1, <3>2
      <4> QED BY <1>1, <1>3, <1>9, <1>10, <1>13, <3>2, <4>1 DEF Core, LockQueue
    <3> QED BY <3>1, <3>2
  <2>2. ASSUME NEW t \in Tasks PROVE task'[t].pc = "lock" <=> InLine(waiters', t)
    <3>1. CASE t \in {Timer(m), Intake(m)}
      <4>1. ~InLine(waiters, t) BY <1>1, <1>7, <3>1 DEF Core, LockQueue
      <4> QED BY <1>10, <1>12, <3>1, <4>1
    <3>2. CASE t \notin {Timer(m), Intake(m)}
      BY <1>9, <1>10, <1>12, <1>13, <3>2 DEF Core, LockQueue
    <3> QED BY <3>1, <3>2
  <2> QED BY <1>12, <2>1, <2>2 DEF LockQueue
<1>15. lock' \in Tasks \cup {NoTask} BY <1>3, <1>11
<1>16. \A t \in Tasks \ {Timer(m)} : task'[t] = task[t] \/ task'[t] = Ended(task[t])
  BY <1>9
<1>17. \A t \in Tasks \ {Timer(m), Intake(m)} : t # prior => task'[t] = task[t]
  BY <1>9
<1> QED BY <1>3, <1>6, <1>8, <1>9, <1>10, <1>12, <1>14, <1>15, <1>16, <1>17 DEF Renewed

\* A task dispatches: an intake with a message that comes in, or a timer task whose
\* quiet period is over.
LEMMA DispatchCore ==
  ASSUME Core, NEW t \in Tasks, NEW r \in TaskRecords, NEW b \in Batches, Dispatch(t, r, b),
         \/ \E m \in Msgs : t = Intake(m) /\ task[t].pc = "idle"
         \/ /\ task[t].pc = "sleep" /\ r.key = task[t].key /\ r.store = task[t].store
            /\ \E m \in Msgs : t = Timer(m),
         pending' \in [Keys -> Batches], UNCHANGED <<timerOf, closing>>
  PROVE  Core'
<1> USE DEF Core
<1>1. /\ task' \in [Tasks -> TaskRecords] /\ lock' \in Tasks \cup {NoTask}
      /\ waiters' \in Seq(Tasks) /\ handed' \in [Msgs -> Nat]
      /\ LockQueue'
      /\ \A u \in Tasks \ {t} : task'[u] = task[u]
      /\ task'[t].pc \in {"lock", "handling"}
      /\ task'[t].key = r.key /\ task'[t].store = r.store
  BY DispatchEffect
<1>2. TypeOK' BY <1>1 DEF TypeOK
<1>3. CASE \E m \in Msgs : t = Intake(m) /\ task[t].pc = "idle"
  <2>1. \A m \in Msgs : task'[Timer(m)] = task[Timer(m)] BY <1>1, <1>3, TaskNames
  <2>2. \A m \in Msgs : task[Intake(m)].pc = "done" => task'[Intake(m)].pc = "done"
    BY <1>1, <1>3, TaskNames
  <2>3. \A m \in Msgs : task'[Intake(m)].pc # "done" => task[Intake(m)].pc # "done"
    BY <2>2
  <2>4. TimerAfterIntake' BY <2>1, <2>3 DEF TimerAfterIntake
  <2>5. Registered' BY <2>1, TypeFields DEF Registered
  <2> QED BY <1>1, <1>2, <2>4, <2>5
<1>4. CASE /\ task[t].pc = "sleep" /\ r.key = task[t].key /\ r.store = task[t].store
           /\ \E m \in Msgs : t = Timer(m)
  <2>1. \A m \in Msgs : task'[Intake(m)] = task[Intake(m)] BY <1>1, <1>4, TaskNames
  <2>2. \A m \in Msgs : /\ task[Timer(m)].pc = "idle" <=> task'[Timer(m)].pc = "idle"
                        /\ task'[Timer(m)].key = task[Timer(m)].key
                        /\ task'[Timer(m)].store = task[Timer(m)].store
    BY <1>1, <1>4, TaskNames
  <2>3. ASSUME NEW m \in Msgs
        PROVE  /\ task'[Intake(m)].pc # "done" => task'[Timer(m)].pc = "idle"
               /\ ~task'[Timer(m)].store
    <3>1. task'[Intake(m)].pc # "done" => task[Timer(m)].pc = "idle"
      BY <2>1 DEF TimerAfterIntake
    <3>2. ~task[Timer(m)].store BY DEF TimerAfterIntake
    <3> QED BY <2>2, <3>1, <3>2
  <2>4. TimerAfterIntake' BY <2>3 DEF TimerAfterIntake
  <2>5. Registered' BY <2>2, TypeFields DEF Registered
  <2> QED BY <1>1, <1>2, <2>4, <2>5
<1> QED BY <1>3, <1>4

\* Tasks that end, or keep their records: the timers stay those of their intakes.
LEMMA EndsKeep ==
  ASSUME TypeOK, TimerAfterIntake, NEW S \in SUBSET Tasks,
         \A t \in Tasks \ S : task'[t] = task[t],
         \A t \in S : /\ task[t].pc # "idle"
                      /\ task'[t] = task[t] \/ task'[t] = Ended(task[t])
  PROVE  /\ TimerAfterIntake'
         /\ \A t \in Tasks : /\ task'[t].key = task[t].key
                             /\ task'[t].pc = "idle" <=> task[t].pc = "idle"
<1>1. \A t \in Tasks : /\ task'[t].pc = task[t].pc \/ task'[t].pc = "done"
                       /\ task'[t].pc = "idle" <=> task[t].pc = "idle"
                       /\ task'[t].key = task[t].key
                       /\ task'[t].store => task[t].store
  BY TypeFields, EndedType
<1>2. ASSUME NEW m \in Msgs
      PROVE  /\ task'[Intake(m)].pc # "done" => task'[Timer(m)].pc = "idle"
             /\ ~task'[Timer(m)].store
  BY <1>1, TaskNames DEF TimerAfterIntake
<1> QED BY <1>1, <1>2 DEF TimerAfterIntake

LEMMA RenewedCore ==
  ASSUME Core, NEW k \in Keys, NEW m \in Msgs, Renewed(k, m),
         task[Intake(m)].pc # "done",
         pending' \in [Keys -> Batches], UNCHANGED <<handed, closing>>
  PROVE  Core'
<1> USE DEF Core
<1>1. TypeOK' BY DEF TypeOK, Renewed
<1>2. task[Timer(m)].pc = "idle" BY DEF TimerAfterIntake
<1>3. \A t \in Tasks \ {Timer(m)} : /\ task'[t].key = task[t].key
                                    /\ task'[t].store => task[t].store
                                    /\ task'[t].pc = task[t].pc \/ task'[t].pc = "done"
  BY TypeFields, EndedType DEF Renewed
<1>4. task'[Timer(m)].key = k /\ task'[Timer(m)].pc = "sleep" /\ ~task'[Timer(m)].store
  BY SleeperType DEF Renewed
<1>5. task'[Intake(m)].pc = "done" BY TypeFields, EndedType, TaskNames DEF Renewed
<1>6. ASSUME NEW n \in Msgs
      PROVE  /\ task'[Intake(n)].pc # "done" => task'[Timer(n)].pc = "idle"
             /\ ~task'[Timer(n)].store
  <2>1. CASE n = m BY <1>4, <1>5, <2>1
  <2>2. CASE n # m
    <3>1. /\ Timer(n) \in Tasks \ {Timer(m)} /\ Intake(n) \in Tasks \ {Timer(m)}
          /\ Timer(n) # Intake(m)
      BY <2>2, TaskNames
    <3>2. ~task'[Timer(n)].store BY <1>3, <3>1 DEF TimerAfterIntake
    <3>3. ASSUME task'[Intake(n)].pc # "done" PROVE task'[Timer(n)].pc = "idle"
      <4>1. task[Timer(n)].pc = "idle" BY <1>3, <3>1, <3>3 DEF TimerAfterIntake
      <4>2. Timer(n) # Timer(timerOf[k]) \/ timerOf[k] = NoMsg
        BY <4>1 DEF Registered
      <4>3. timerOf[k] = NoMsg => Timer(n) # Timer(timerOf[k])
        BY TaskNames, MessagesAssumption
      <4> QED BY <3>1, <4>1, <4>2, <4>3 DEF Renewed
    <3> QED BY <3>2, <3>3
  <2> QED BY <2>1, <2>2
<1>7. TimerAfterIntake' BY <1>6 DEF TimerAfterIntake
<1>8. ASSUME NEW l \in Keys, timerOf'[l] # NoMsg
      PROVE  task'[Timer(timerOf'[l])].pc # "idle" /\ task'[Timer(timerOf'[l])].key = l
  <2>1. CASE l = k
    <3>1. timerOf'[l] = m BY <2>1 DEF Renewed, TypeOK
    <3> QED BY <1>4, <2>1, <3>1
  <2>2. CASE l # k
    <3>1. timerOf'[l] = timerOf[l] /\ timerOf[l] \in Msgs
      BY <1>8, <2>2, TypeFields DEF Renewed, TypeOK
    <3>2. /\ task[Timer(timerOf[l])].pc # "idle" /\ task[Timer(timerOf[l])].key = l
      BY <1>8, <3>1 DEF Registered
    <3>3. Timer(timerOf[l]) \in Tasks \ {Timer(m)}
      BY <1>2, <3>1, <3>2, TaskNames
    <3> QED BY <1>3, <3>1, <3>2, <3>3
  <2> QED BY <2>1, <2>2
<1>9. Registered' BY <1>8 DEF Registered
<1> QED BY <1>1, <1>7, <1>9 DEF Renewed

\* The slot of a key is left, or not.
LEMMA RegisteredKept ==
  ASSUME TypeOK, Registered,
         \A k \in Keys : timerOf'[k] = timerOf[k] \/ timerOf'[k] = NoMsg,
         \A t \in Tasks : /\ task'[t].key = task[t].key
                          /\ task'[t].pc = "idle" <=> task[t].pc = "idle"
  PROVE  Registered'
<1> SUFFICES ASSUME NEW k \in Keys, timerOf'[k] # NoMsg
             PROVE  /\ task'[Timer(timerOf'[k])].pc # "idle"
                    /\ task'[Timer(timerOf'[k])].key = k
  BY DEF Registered
<1>1. timerOf'[k] = timerOf[k] /\ timerOf[k] \in Msgs BY TypeFields
<1>2. Timer(timerOf[k]) \in Tasks BY <1>1, TaskNames
<1>3. task[Timer(timerOf[k])].pc # "idle" /\ task[Timer(timerOf[k])].key = k
  BY <1>1 DEF Registered
<1> QED BY <1>1, <1>2, <1>3

LEMMA UnregisteredEffect ==
  ASSUME TypeOK, NEW m \in Msgs, NEW k \in Keys, timerOf' = Unregistered(m, k)
  PROVE  /\ timerOf' \in [Keys -> Msgs \cup {NoMsg}]
         /\ \A l \in Keys : timerOf'[l] = timerOf[l] \/ (timerOf[l] = m /\ timerOf'[l] = NoMsg)
BY DEF Unregistered, TypeOK

\* A task ends outside of a reschedule; it releases the lock it holds.
LEMMA EndCore ==
  ASSUME Core, NEW t \in Tasks, task[t].pc \in {"sleep", "handling", "stopping"},
         task' = [task EXCEPT ![t] = Ended(@)],
         lock' = IF lock = t THEN NoTask ELSE lock,
         timerOf' \in [Keys -> Msgs \cup {NoMsg}],
         \A k \in Keys : timerOf'[k] = timerOf[k] \/ timerOf'[k] = NoMsg,
         pending' \in [Keys -> Batches], UNCHANGED <<waiters, handed, closing>>
  PROVE  Core'
<1> USE DEF Core
<1>1. Ended(task[t]) \in TaskRecords /\ Ended(task[t]).pc = "done"
  BY TypeFields, EndedType
<1>2. /\ task' \in [Tasks -> TaskRecords] /\ task'[t] = Ended(task[t])
      /\ \A u \in Tasks \ {t} : task'[u] = task[u]
  BY <1>1, OneTask
<1>3. TypeOK' BY <1>2 DEF TypeOK
<1>4. LockQueue'
  <2>1. \A u \in Tasks : task'[u].pc = "handling" <=> lock' = u
    BY <1>1, <1>2, TaskNames DEF LockQueue
  <2>2. \A u \in Tasks : task'[u].pc = "lock" <=> InLine(waiters, u)
    BY <1>1, <1>2 DEF LockQueue
  <2> QED BY <2>1, <2>2 DEF LockQueue
<1>5. /\ TimerAfterIntake'
      /\ \A u \in Tasks : /\ task'[u].key = task[u].key
                          /\ task'[u].pc = "idle" <=> task[u].pc = "idle"
  <2>1. {t} \in SUBSET Tasks OBVIOUS
  <2>2. \A u \in Tasks \ {t} : task'[u] = task[u] BY <1>2
  <2>3. \A u \in {t} : task[u].pc # "idle"
                       /\ (task'[u] = task[u] \/ task'[u] = Ended(task[u]))
    BY <1>2
  <2> QED BY <2>1, <2>2, <2>3, EndsKeep
<1>6. Registered' BY <1>5, RegisteredKept
<1> QED BY <1>3, <1>4, <1>5, <1>6

LEMMA CancelCore ==
  ASSUME Core, NEW k \in Keys, CancelTimer(k),
         timerOf' \in [Keys -> Msgs \cup {NoMsg}],
         \A l \in Keys : timerOf'[l] = timerOf[l] \/ timerOf'[l] = NoMsg,
         UNCHANGED <<pending, handed>>,
         closing' \in {"media", "media!", "reset", "reset!"}
  PROVE  Core'
<1> USE DEF Core
<1>1. /\ task' \in [Tasks -> TaskRecords] /\ lock' \in Tasks \cup {NoTask}
      /\ waiters' \in Seq(Tasks)
      /\ LockQueue'
      /\ \A t \in Tasks : t # Timer(timerOf[k]) => task'[t] = task[t]
      /\ \A t \in Tasks : task'[t] = task[t] \/ task'[t] = Ended(task[t])
  BY CancelTimerEffect
<1>2. TypeOK' BY <1>1 DEF TypeOK
<1> DEFINE S == {t \in Tasks : t = Timer(timerOf[k])}
<1>3. \A t \in S : task[t].pc # "idle"
  <2>1. ASSUME timerOf[k] = NoMsg, NEW t \in Tasks, t = Timer(timerOf[k]) PROVE FALSE
    BY <2>1, MessagesAssumption DEF Timer, Tasks
  <2> QED BY <2>1 DEF Registered
<1>4. /\ TimerAfterIntake'
      /\ \A u \in Tasks : /\ task'[u].key = task[u].key
                          /\ task'[u].pc = "idle" <=> task[u].pc = "idle"
  <2>1. S \in SUBSET Tasks OBVIOUS
  <2>2. \A t \in Tasks \ S : task'[t] = task[t] BY <1>1
  <2>3. \A t \in S : task[t].pc # "idle"
                     /\ (task'[t] = task[t] \/ task'[t] = Ended(task[t]))
    BY <1>1, <1>3
  <2> HIDE DEF S
  <2> QED BY <2>1, <2>2, <2>3, EndsKeep
<1>5. Registered' BY <1>4, RegisteredKept
<1> QED BY <1>1, <1>2, <1>4, <1>5

-----------------------------------------------------------------------------
(* The actions, as what they do to the tasks                               *)

LEMMA PoppedType ==
  ASSUME TypeOK, NEW k \in Keys, pending' = Popped(pending, k)
  PROVE  /\ pending' \in [Keys -> Batches]
         /\ pending'[k] = NoBatch /\ \A l \in Keys \ {k} : pending'[l] = pending[l]
BY NoBatchType DEF Popped, TypeOK

\* An intake flushes the batch of another context, or adds its event to its own.
LEMMA EnqueueCases ==
  ASSUME Core, NEW m \in Msgs, NEW k \in Keys, NEW c \in Contexts, NEW n \in Sizes,
         task[Intake(m)].pc = "idle", Enqueue(m, k, Event(m, c, n))
  PROVE  \/ /\ pending' = Popped(pending, k) /\ UNCHANGED timerOf
            /\ \E r \in TaskRecords :
                 /\ r.own = Event(m, c, n)
                 /\ Dispatch(Intake(m), r, pending[k])
         \/ /\ Renewed(k, m) /\ UNCHANGED handed
            /\ \E b \in Batches : /\ pending' = [pending EXCEPT ![k] = b]
                                  /\ Members(b) = Members(pending[k]) \cup {m}
<1> DEFINE e == Event(m, c, n)
           b == pending[k]
           flushes == b # NoBatch /\ (~Compatible(b, e.ctx) \/ Overflows(k, b, e.chars))
<1>1. b \in Batches /\ e \in Batches /\ Members(e) = {m}
  BY TypeFields, EventType DEF Core
<1> HIDE DEF e
<1>2. CASE flushes
  <2> DEFINE r == [NewTask EXCEPT !.key = k, !.own = e, !.store = TRUE]
  <2>1. r \in TaskRecords /\ r.own = e
    BY <1>1, NewTaskType DEF TaskRecords
  <2>2. Dispatch(Intake(m), r, b) /\ pending' = Popped(pending, k) /\ UNCHANGED timerOf
    BY <1>2 DEF Enqueue, Intake, e
  <2> HIDE DEF r
  <2> QED BY <2>1, <2>2 DEF e
<1>3. CASE ~flushes
  <2> DEFINE d == IF b = NoBatch THEN e ELSE Merged(b, e)
  <2>1. /\ pending' = [pending EXCEPT ![k] = d] /\ UNCHANGED handed
        /\ Reschedule(k, m, [task EXCEPT ![Intake(m)] = Ended(@)], lock, waiters)
    BY <1>3 DEF Enqueue, Intake, e
  <2>2. lock = IF lock = Intake(m) THEN NoTask ELSE lock
    BY TaskNames DEF Core, LockQueue
  <2>3. Renewed(k, m) BY <2>1, <2>2, RescheduleEffect
  <2>4. d \in Batches /\ Members(d) = Members(b) \cup {m}
    <3>1. CASE b = NoBatch BY <1>1, <3>1, NoBatchType
    <3>2. CASE b # NoBatch BY <1>1, <3>2, MergedType DEF e
    <3> QED BY <3>1, <3>2
  <2> HIDE DEF d
  <2> QED BY <2>1, <2>3, <2>4
<1> QED BY <1>2, <1>3

\* A timer task whose quiet period is over.
LEMMA TimerFiresCases ==
  ASSUME Core, NEW m \in Msgs, TimerFires(m)
  PROVE  LET t == Timer(m)
             k == task[t].key IN
         /\ t \in Tasks /\ k \in Keys /\ task[t].pc = "sleep" /\ UNCHANGED closing
         /\ pending' = Popped(pending, k)
         /\ \/ /\ pending[k] = NoBatch
               /\ task' = [task EXCEPT ![t] = Ended(@)]
               /\ timerOf' = Unregistered(m, k)
               /\ UNCHANGED <<lock, waiters, handed>>
            \/ Dispatch(t, task[t], pending[k]) /\ UNCHANGED timerOf
<1>1. Timer(m) \in Tasks BY TaskNames
<1>2. task[Timer(m)].key \in Keys BY <1>1, TypeFields DEF Core
<1> QED BY <1>1, <1>2 DEF TimerFires, Timer

\* A task is one of a message.
LEMMA TaskOf ==
  ASSUME NEW t \in Tasks
  PROVE  /\ t[2] \in Msgs
         /\ t = Intake(t[2]) \/ t = Timer(t[2])
         /\ t[1] = "timer" <=> t = Timer(t[2])
BY DEF Tasks, Intake, Timer

\* What a task does once Hermes returned: it stores what it put aside, or ends.
LEMMA ReturnCases ==
  ASSUME Core, NEW t \in Tasks, Return(t)
  PROVE  /\ task[t].pc \in {"handling", "stopping"} /\ UNCHANGED <<handed, closing>>
         /\ \/ \E m \in Msgs :
                 LET k == task[t].key IN
                 /\ t = Intake(m) /\ k \in Keys /\ task[t].store
                 /\ pending' = [pending EXCEPT ![k] = task[t].own]
                 /\ Renewed(k, m)
            \/ /\ task' = [task EXCEPT ![t] = Ended(@)]
               /\ lock' = IF lock = t THEN NoTask ELSE lock
               /\ \/ UNCHANGED timerOf
                  \/ \E m \in Msgs : t = Timer(m) /\ timerOf' = Unregistered(m, task[t].key)
               /\ UNCHANGED <<pending, waiters>>
<1> DEFINE m == t[2]
           k == task[t].key
           l == IF lock = t THEN NoTask ELSE lock
<1>1. task[t].pc \in {"handling", "stopping"} /\ UNCHANGED <<handed, closing>>
  BY DEF Return
<1>2. m \in Msgs /\ (t = Intake(m) \/ t = Timer(m)) /\ (t[1] = "timer" <=> t = Timer(m))
  BY TaskOf
<1>3. k \in Keys BY TypeFields DEF Core
<1>4. CASE task[t].store
  <2>1. t = Intake(m) BY <1>2, <1>4 DEF Core, TimerAfterIntake
  <2>2. /\ pending' = [pending EXCEPT ![k] = task[t].own]
        /\ Reschedule(k, m, [task EXCEPT ![t] = Ended(@)], l, waiters)
    BY <1>4 DEF Return
  <2> HIDE DEF m, k
  <2>3. Renewed(k, m) BY <1>1, <1>2, <1>3, <2>1, <2>2, RescheduleEffect
  <2> QED BY <1>1, <1>2, <1>3, <1>4, <2>1, <2>2, <2>3 DEF k
<1>5. CASE ~task[t].store
  <2>1. /\ task' = [task EXCEPT ![t] = Ended(@)] /\ lock' = l
        /\ timerOf' = IF t[1] = "timer" THEN Unregistered(m, k) ELSE timerOf
        /\ UNCHANGED <<pending, waiters>>
    BY <1>5 DEF Return
  <2> HIDE DEF m
  <2> QED BY <1>1, <1>2, <2>1
<1> QED BY <1>4, <1>5

\* The first waiter gets the lock.
LEMMA TakeEffect ==
  ASSUME Core, NEW t \in Tasks, Take(t)
  PROVE  /\ Core'
         /\ task[t].pc = "lock" /\ task'[t].pc = "handling"
         /\ task'[t].own = task[t].own /\ task'[t].store = task[t].store
         /\ \A u \in Tasks \ {t} : task'[u] = task[u]
         /\ Handed(task[t].batch) /\ UNCHANGED <<pending, timerOf, closing>>
<1> USE DEF Core
<1> DEFINE r == [task[t] EXCEPT !.pc = "handling"]
<1>1. /\ task[t].pc = "lock" /\ lock = NoTask /\ waiters # <<>> /\ Head(waiters) = t
      /\ task' = [task EXCEPT ![t] = r] /\ lock' = t /\ waiters' = Tail(waiters)
      /\ Handed(task[t].batch) /\ UNCHANGED <<pending, timerOf, closing>>
  BY DEF Take
<1>2. /\ r \in TaskRecords /\ r.pc = "handling" /\ r.key = task[t].key
      /\ r.own = task[t].own /\ r.store = task[t].store
  BY TypeFields DEF TaskRecords
<1> HIDE DEF r
<1>3. /\ task' \in [Tasks -> TaskRecords] /\ task'[t] = r
      /\ \A u \in Tasks \ {t} : task'[u] = task[u]
  BY <1>1, <1>2, OneTask
<1>4. /\ waiters' \in Seq(Tasks) /\ Once(waiters')
      /\ \A u : InLine(waiters', u) <=> InLine(waiters, u) /\ u # t
  BY <1>1, LineTail DEF TypeOK, LockQueue
<1>5. handed' \in [Msgs -> Nat] BY <1>1, HandedEffect DEF TypeOK
<1>6. TypeOK' BY <1>1, <1>3, <1>4, <1>5 DEF TypeOK
<1>7. LockQueue'
  <2>1. \A u \in Tasks : task'[u].pc = "handling" <=> lock' = u
    BY <1>1, <1>2, <1>3, TaskNames DEF LockQueue
  <2>2. \A u \in Tasks : task'[u].pc = "lock" <=> InLine(waiters', u)
    BY <1>1, <1>2, <1>3, <1>4 DEF LockQueue
  <2> QED BY <1>4, <2>1, <2>2 DEF LockQueue
<1>8. \A u \in Tasks : /\ task'[u].pc = "idle" <=> task[u].pc = "idle"
                       /\ task'[u].pc = "done" <=> task[u].pc = "done"
                       /\ task'[u].key = task[u].key /\ task'[u].store = task[u].store
  BY <1>1, <1>2, <1>3
<1>9. TimerAfterIntake'
  <2>1. ASSUME NEW m \in Msgs
        PROVE  /\ task'[Intake(m)].pc # "done" => task'[Timer(m)].pc = "idle"
               /\ ~task'[Timer(m)].store
    BY <1>8, TaskNames DEF TimerAfterIntake
  <2> QED BY <2>1 DEF TimerAfterIntake
<1>10. Registered' BY <1>1, <1>8, RegisteredKept
<1> QED BY <1>1, <1>2, <1>3, <1>6, <1>7, <1>9, <1>10

\* /stop is handed over outside the lock.
Stopper(e) == [NewTask EXCEPT !.pc = "stopping", !.batch = e]

LEMMA StopEffect ==
  ASSUME Core, NEW m \in Msgs, NEW e \in Batches, task[Intake(m)].pc = "idle",
         task' = [task EXCEPT ![Intake(m)] = Stopper(e)], Handed(e),
         UNCHANGED <<pending, timerOf, lock, waiters, closing>>
  PROVE  /\ Core'
         /\ task'[Intake(m)].pc = "stopping" /\ ~task'[Intake(m)].store
         /\ \A u \in Tasks \ {Intake(m)} : task'[u] = task[u]
<1> USE DEF Core
<1> DEFINE r == Stopper(e)
<1>1. r \in TaskRecords /\ r.pc = "stopping" /\ ~r.store
  BY NewTaskType DEF TaskRecords, Stopper
<1>2. Intake(m) \in Tasks BY TaskNames
<1> HIDE DEF r
<1>3. /\ task' \in [Tasks -> TaskRecords] /\ task'[Intake(m)] = r
      /\ \A u \in Tasks \ {Intake(m)} : task'[u] = task[u]
  BY <1>1, <1>2, OneTask DEF r
<1>4. handed' \in [Msgs -> Nat] BY HandedEffect DEF TypeOK
<1>5. TypeOK' BY <1>3, <1>4 DEF TypeOK
<1>6. LockQueue'
  <2>1. \A u \in Tasks : task'[u].pc = "handling" <=> lock' = u
    BY <1>1, <1>2, <1>3 DEF LockQueue
  <2>2. \A u \in Tasks : task'[u].pc = "lock" <=> InLine(waiters', u)
    BY <1>1, <1>2, <1>3 DEF LockQueue
  <2> QED BY <2>1, <2>2 DEF LockQueue
<1>7. \A n \in Msgs : task'[Timer(n)] = task[Timer(n)] BY <1>3, TaskNames
<1>8. TimerAfterIntake'
  <2>1. ASSUME NEW n \in Msgs, task'[Intake(n)].pc # "done"
        PROVE  task[Intake(n)].pc # "done"
    BY <1>3, <2>1, TaskNames
  <2> QED BY <1>7, <2>1 DEF TimerAfterIntake
<1>9. Registered' BY <1>7, TypeFields DEF Registered
<1> QED BY <1>1, <1>3, <1>5, <1>6, <1>8, <1>9

-----------------------------------------------------------------------------
(* Where a message is until it is handed to Hermes                         *)

\* It is in a batch that is collected, in one that waits for the lock, or put aside
\* by an intake that flushes another batch first.
Collected(k, m) == m \in Members(pending[k])
Queued(t, m) == task[t].pc = "lock" /\ m \in Members(task[t].batch)
Aside(t, m) == task[t].store /\ m \in Members(task[t].own)

Somewhere(m) ==
  \/ \E k \in Keys : Collected(k, m)
  \/ \E t \in Tasks : Queued(t, m) \/ Aside(t, m)

\* It is at one place at most, and at none once it was handed over.
OnePlaceOf(m) ==
  /\ \A k, l \in Keys : Collected(k, m) /\ Collected(l, m) => k = l
  /\ \A t, u \in Tasks : Queued(t, m) /\ Queued(u, m) => t = u
  /\ \A t, u \in Tasks : Aside(t, m) /\ Aside(u, m) => t = u
  /\ \A t, u \in Tasks : ~(Queued(t, m) /\ Aside(u, m))
  /\ \A k \in Keys, t \in Tasks : Collected(k, m) => ~Queued(t, m) /\ ~Aside(t, m)
  /\ Somewhere(m) => handed[m] = 0
  /\ task[Intake(m)].pc = "idle" => handed[m] = 0 /\ ~Somewhere(m)
  /\ handed[m] <= 1

OnePlace == \A m \in Msgs : OnePlaceOf(m)

\* A message that goes nowhere, and may be dropped.
LEMMA Fewer ==
  ASSUME NEW m \in Msgs, OnePlaceOf(m), handed'[m] = handed[m],
         \A k \in Keys : Collected(k, m)' => Collected(k, m),
         \A t \in Tasks : /\ Queued(t, m)' => Queued(t, m)
                          /\ Aside(t, m)' => Aside(t, m),
         task'[Intake(m)].pc = "idle" => task[Intake(m)].pc = "idle"
  PROVE  OnePlaceOf(m)'
<1>1. Somewhere(m)' => Somewhere(m) BY DEF Somewhere
<1> QED BY <1>1 DEF OnePlaceOf

\* A message of a batch that is dispatched: it is handed over, or it waits.
LEMMA DispatchedPlace ==
  ASSUME Core, NEW t \in Tasks, NEW r \in TaskRecords, NEW b \in Batches, Dispatch(t, r, b),
         task[t].pc \in {"idle", "sleep"},
         NEW m \in Msgs, m \in Members(b), handed[m] = 0,
         \A k \in Keys : ~Collected(k, m)',
         \A u \in Tasks \ {t} : ~Queued(u, m) /\ ~Aside(u, m),
         ~(r.store /\ m \in Members(r.own)),
         task[Intake(m)].pc = "idle" => t = Intake(m)
  PROVE  OnePlaceOf(m)'
<1>1. /\ \A u \in Tasks \ {t} : task'[u] = task[u]
      /\ task'[t].pc \in {"lock", "handling"} /\ task'[t].batch = b
      /\ task'[t].own = r.own /\ task'[t].store = r.store
      /\ task'[t].pc = "lock" => UNCHANGED handed
      /\ task'[t].pc = "handling" => Handed(b)
  BY DispatchEffect DEF Core
<1>2. \A u \in Tasks : ~Aside(u, m)' BY <1>1 DEF Aside
<1>3. \A u \in Tasks : Queued(u, m)' <=> u = t /\ task'[t].pc = "lock"
  BY <1>1 DEF Queued
<1>4. Intake(m) \in Tasks BY TaskNames
<1>5. task'[Intake(m)].pc # "idle" BY <1>1, <1>4
<1>6. CASE task'[t].pc = "lock"
  <2>1. handed'[m] = 0 BY <1>1, <1>6
  <2> QED BY <1>2, <1>3, <1>5, <2>1 DEF OnePlaceOf
<1>7. CASE task'[t].pc = "handling"
  <2>1. handed'[m] = 1 BY <1>1, <1>7, HandedEffect DEF Core, TypeOK
  <2>2. ~Somewhere(m)' BY <1>2, <1>3, <1>7 DEF Somewhere
  <2> QED BY <1>2, <1>3, <1>5, <2>1, <2>2 DEF OnePlaceOf
<1> QED BY <1>1, <1>6, <1>7

\* Another message keeps its place, or is put aside by the intake that brought it.
LEMMA BystanderPlace ==
  ASSUME Core, OnePlace, NEW t \in Tasks, NEW r \in TaskRecords, NEW b \in Batches,
         Dispatch(t, r, b), task[t].pc \in {"idle", "sleep"},
         NEW m \in Msgs, m \notin Members(b),
         \A k \in Keys : Collected(k, m)' => Collected(k, m),
         r.store /\ m \in Members(r.own) => t = Intake(m) /\ task[t].pc = "idle"
  PROVE  OnePlaceOf(m)'
<1>1. /\ \A u \in Tasks \ {t} : task'[u] = task[u]
      /\ task'[t].pc \in {"lock", "handling"} /\ task'[t].batch = b
      /\ task'[t].own = r.own /\ task'[t].store = r.store
      /\ task'[t].pc = "lock" => UNCHANGED handed
      /\ task'[t].pc = "handling" => Handed(b)
  BY DispatchEffect DEF Core
<1>2. handed'[m] = handed[m] BY <1>1, HandedEffect DEF Core, TypeOK
<1>3. \A u \in Tasks : Queued(u, m)' => Queued(u, m) BY <1>1 DEF Queued
<1>4. \A u \in Tasks \ {t} : Aside(u, m)' => Aside(u, m) BY <1>1 DEF Aside
<1>5. Intake(m) \in Tasks BY TaskNames
<1>6. task'[Intake(m)].pc = "idle" => task[Intake(m)].pc = "idle" BY <1>1, <1>5
<1>7. OnePlaceOf(m) BY DEF OnePlace
<1>8. CASE r.store /\ m \in Members(r.own)
  <2>1. /\ t = Intake(m) /\ handed[m] = 0 /\ ~Somewhere(m) /\ handed'[m] = 0
        /\ task'[Intake(m)].pc # "idle"
    BY <1>1, <1>2, <1>7, <1>8 DEF OnePlaceOf
  <2>2. /\ \A k \in Keys : ~Collected(k, m)'
        /\ \A u \in Tasks : ~Queued(u, m)' /\ (Aside(u, m)' => u = t)
    BY <1>3, <1>4, <2>1 DEF Somewhere
  <2> QED BY <2>1, <2>2 DEF OnePlaceOf
<1>9. CASE ~(r.store /\ m \in Members(r.own))
  <2>1. \A u \in Tasks : Aside(u, m)' => Aside(u, m) BY <1>1, <1>4, <1>9 DEF Aside
  <2> QED BY <1>2, <1>3, <1>6, <1>7, <2>1, Fewer
<1> QED BY <1>8, <1>9

\* A batch that is flushed, by a later event or by its timer.
LEMMA FlushPlaces ==
  ASSUME Core, OnePlace, NEW t \in Tasks, NEW r \in TaskRecords, NEW k \in Keys,
         Dispatch(t, r, pending[k]), task[t].pc \in {"idle", "sleep"},
         pending' = Popped(pending, k),
         \A m \in Msgs : r.store /\ m \in Members(r.own)
                           => t = Intake(m) /\ task[t].pc = "idle"
  PROVE  OnePlace'
<1>1. pending[k] \in Batches BY TypeFields DEF Core
<1>2. pending'[k] = NoBatch /\ \A l \in Keys \ {k} : pending'[l] = pending[l]
  BY PoppedType DEF Core
<1>3. \A l \in Keys, m \in Msgs : Collected(l, m)' <=> l # k /\ Collected(l, m)
  BY <1>2, NoBatchType DEF Collected
<1>4. ASSUME NEW m \in Msgs PROVE OnePlaceOf(m)'
  <2>1. OnePlaceOf(m) BY DEF OnePlace
  <2>2. CASE m \in Members(pending[k])
    <3>1. Collected(k, m) /\ Somewhere(m) BY <2>2 DEF Collected, Somewhere
    <3>2. /\ handed[m] = 0 /\ task[Intake(m)].pc # "idle"
          /\ \A l \in Keys : Collected(l, m) => l = k
          /\ \A u \in Tasks : ~Queued(u, m) /\ ~Aside(u, m)
      BY <2>1, <3>1 DEF OnePlaceOf
    <3>3. ~(r.store /\ m \in Members(r.own)) BY <3>2
    <3> QED BY <1>1, <1>3, <2>2, <3>2, <3>3, DispatchedPlace
  <2>3. CASE m \notin Members(pending[k])
    BY <1>1, <1>3, <2>3, BystanderPlace
  <2> QED BY <2>2, <2>3
<1> QED BY <1>4 DEF OnePlace

\* A message that is dispatched as it comes.
LEMMA DirectPlaces ==
  ASSUME Core, OnePlace, NEW n \in Msgs, NEW e \in Batches, Members(e) = {n},
         Dispatch(Intake(n), NewTask, e), task[Intake(n)].pc = "idle", UNCHANGED pending
  PROVE  OnePlace'
<1>1. Intake(n) \in Tasks /\ NewTask \in TaskRecords /\ ~NewTask.store
  BY TaskNames, NewTaskType
<1>2. \A k \in Keys, m \in Msgs : Collected(k, m)' <=> Collected(k, m) BY DEF Collected
<1>3. ASSUME NEW m \in Msgs PROVE OnePlaceOf(m)'
  <2>1. CASE m = n
    <3>1. handed[m] = 0 /\ ~Somewhere(m) BY <2>1 DEF OnePlace, OnePlaceOf
    <3>2. /\ \A k \in Keys : ~Collected(k, m)'
          /\ \A u \in Tasks \ {Intake(n)} : ~Queued(u, m) /\ ~Aside(u, m)
      BY <1>2, <3>1 DEF Somewhere
    <3> QED BY <1>1, <2>1, <3>1, <3>2, DispatchedPlace
  <2>2. CASE m # n
    BY <1>1, <1>2, <2>2, BystanderPlace
  <2> QED BY <2>1, <2>2
<1> QED BY <1>3 DEF OnePlace

\* An intake stores an event: its own, or the one it had put aside.
LEMMA StorePlaces ==
  ASSUME Core, OnePlace, NEW k \in Keys, NEW n \in Msgs, Renewed(k, n), UNCHANGED handed,
         \A l \in Keys \ {k} : pending'[l] = pending[l],
         \A m \in Msgs : Collected(k, m)' =>
           \/ Collected(k, m) /\ task[Intake(n)].pc = "idle"
           \/ m = n /\ task[Intake(n)].pc = "idle"
           \/ Aside(Intake(n), m)
  PROVE  OnePlace'
<1>1. /\ Intake(n) \in Tasks /\ \A m \in Msgs : Intake(m) \in Tasks \ {Timer(n)}
      /\ Timer(n) \in Tasks
  BY TaskNames
<1>2. /\ \A t \in Tasks \ {Timer(n)} : task'[t] = task[t]
                                      \/ (task'[t].pc = "done" /\ ~task'[t].store)
      /\ task'[Timer(n)].pc = "sleep" /\ ~task'[Timer(n)].store
      /\ task'[Intake(n)].pc = "done" /\ ~task'[Intake(n)].store
  BY <1>1, TypeFields, EndedType, SleeperType DEF Renewed, Core
<1>3. ASSUME NEW m \in Msgs PROVE OnePlaceOf(m)'
  <2>1. OnePlaceOf(m) BY DEF OnePlace
  <2>2. \A t \in Tasks : /\ Queued(t, m)' => Queued(t, m)
                         /\ Aside(t, m)' => Aside(t, m) /\ t # Intake(n)
    BY <1>1, <1>2 DEF Queued, Aside
  <2>3. \A l \in Keys \ {k} : Collected(l, m)' => Collected(l, m) BY DEF Collected
  <2>4. task'[Intake(m)].pc = "idle" => task[Intake(m)].pc = "idle" /\ m # n
    BY <1>1, <1>2
  <2>5. CASE Collected(k, m)' /\ ~Collected(k, m)
    <3>1. (m = n /\ task[Intake(n)].pc = "idle") \/ Aside(Intake(n), m) BY <2>5
    <3>2. CASE m = n /\ task[Intake(n)].pc = "idle"
      <4>1. handed[m] = 0 /\ ~Somewhere(m) BY <2>1, <3>2 DEF OnePlaceOf
      <4>2. /\ \A l \in Keys : Collected(l, m)' => l = k
            /\ \A t \in Tasks : ~Queued(t, m)' /\ ~Aside(t, m)'
        BY <2>2, <2>3, <4>1 DEF Somewhere
      <4> QED BY <2>4, <3>2, <4>1, <4>2 DEF OnePlaceOf
    <3>3. CASE Aside(Intake(n), m)
      <4>1. Somewhere(m) /\ handed[m] = 0 /\ task[Intake(m)].pc # "idle"
        BY <1>1, <2>1, <3>3 DEF OnePlaceOf, Somewhere
      <4>2. /\ \A l \in Keys : ~Collected(l, m)
            /\ \A t \in Tasks : ~Queued(t, m) /\ (Aside(t, m) => t = Intake(n))
        BY <1>1, <2>1, <3>3 DEF OnePlaceOf
      <4>3. /\ \A l \in Keys : Collected(l, m)' => l = k
            /\ \A t \in Tasks : ~Queued(t, m)' /\ ~Aside(t, m)'
        BY <2>2, <2>3, <4>2
      <4> QED BY <2>4, <4>1, <4>3 DEF OnePlaceOf
    <3> QED BY <3>1, <3>2, <3>3
  <2>6. CASE ~(Collected(k, m)' /\ ~Collected(k, m))
    <3>1. \A l \in Keys : Collected(l, m)' => Collected(l, m) BY <2>3, <2>6
    <3> QED BY <2>1, <2>2, <2>4, <3>1, Fewer
  <2> QED BY <2>5, <2>6
<1> QED BY <1>3 DEF OnePlace

\* Tasks that end, are cancelled or leave a batch drop what they hold.
LEMMA DropPlaces ==
  ASSUME Core, OnePlace, UNCHANGED handed,
         \A k \in Keys : pending'[k] = pending[k] \/ pending'[k] = NoBatch,
         \A t \in Tasks : task'[t] = task[t] \/ task'[t] = Ended(task[t])
  PROVE  OnePlace'
<1>1. \A t \in Tasks : task'[t] = task[t] \/ (task'[t].pc = "done" /\ ~task'[t].store)
  BY TypeFields, EndedType DEF Core
<1>2. ASSUME NEW m \in Msgs PROVE OnePlaceOf(m)'
  <2>1. \A k \in Keys : Collected(k, m)' => Collected(k, m)
    BY NoBatchType DEF Collected
  <2>2. \A t \in Tasks : /\ Queued(t, m)' => Queued(t, m)
                         /\ Aside(t, m)' => Aside(t, m)
    BY <1>1 DEF Queued, Aside
  <2>3. task'[Intake(m)].pc = "idle" => task[Intake(m)].pc = "idle"
    BY <1>1, TaskNames
  <2> QED BY <2>1, <2>2, <2>3, Fewer DEF OnePlace
<1> QED BY <1>2 DEF OnePlace

\* The batch of the first waiter is handed over.
LEMMA TakePlaces ==
  ASSUME Core, OnePlace, NEW t \in Tasks, Take(t)
  PROVE  OnePlace'
<1>1. /\ task[t].pc = "lock" /\ task'[t].pc = "handling"
      /\ task'[t].own = task[t].own /\ task'[t].store = task[t].store
      /\ \A u \in Tasks \ {t} : task'[u] = task[u]
      /\ Handed(task[t].batch) /\ UNCHANGED pending
  BY TakeEffect
<1>2. ASSUME NEW m \in Msgs PROVE OnePlaceOf(m)'
  <2>1. OnePlaceOf(m) BY DEF OnePlace
  <2>2. /\ \A k \in Keys : Collected(k, m)' <=> Collected(k, m)
        /\ \A u \in Tasks : /\ Queued(u, m)' <=> Queued(u, m) /\ u # t
                            /\ Aside(u, m)' <=> Aside(u, m)
    BY <1>1 DEF Collected, Queued, Aside
  <2>3. task'[Intake(m)].pc = "idle" => task[Intake(m)].pc = "idle"
    BY <1>1, TaskNames
  <2>4. CASE m \in Members(task[t].batch)
    <3>1. Queued(t, m) /\ Somewhere(m) BY <1>1, <2>4 DEF Queued, Somewhere
    <3>2. /\ handed[m] = 0 /\ task[Intake(m)].pc # "idle"
          /\ \A k \in Keys : ~Collected(k, m)
          /\ \A u \in Tasks : ~Aside(u, m) /\ (Queued(u, m) => u = t)
      BY <2>1, <3>1 DEF OnePlaceOf
    <3>3. handed'[m] = 1 BY <1>1, <2>4, <3>2, HandedEffect DEF Core, TypeOK
    <3>4. ~Somewhere(m)' BY <2>2, <3>2 DEF Somewhere
    <3> QED BY <2>2, <2>3, <3>2, <3>3, <3>4 DEF OnePlaceOf
  <2>5. CASE m \notin Members(task[t].batch)
    <3>1. handed'[m] = handed[m] BY <1>1, <2>5, HandedEffect DEF Core, TypeOK
    <3> QED BY <2>1, <2>2, <2>3, <3>1, Fewer
  <2> QED BY <2>4, <2>5
<1> QED BY <1>2 DEF OnePlace

LEMMA StopPlaces ==
  ASSUME Core, OnePlace, NEW n \in Msgs, NEW e \in Batches, Members(e) = {n}, Handed(e),
         task[Intake(n)].pc = "idle", UNCHANGED pending,
         task'[Intake(n)].pc = "stopping", ~task'[Intake(n)].store,
         \A u \in Tasks \ {Intake(n)} : task'[u] = task[u]
  PROVE  OnePlace'
<1>1. ASSUME NEW m \in Msgs PROVE OnePlaceOf(m)'
  <2>1. OnePlaceOf(m) BY DEF OnePlace
  <2>2. /\ \A k \in Keys : Collected(k, m)' => Collected(k, m)
        /\ \A u \in Tasks : /\ Queued(u, m)' => Queued(u, m)
                            /\ Aside(u, m)' => Aside(u, m)
    BY DEF Collected, Queued, Aside
  <2>3. task'[Intake(m)].pc = "idle" => task[Intake(m)].pc = "idle"
    BY TaskNames
  <2>4. CASE m = n
    <3>1. handed[m] = 0 /\ ~Somewhere(m) BY <2>1, <2>4 DEF OnePlaceOf
    <3>2. handed'[m] = 1 BY <2>4, <3>1, HandedEffect DEF Core, TypeOK
    <3>3. ~Somewhere(m)' BY <2>2, <3>1 DEF Somewhere
    <3>4. task'[Intake(m)].pc # "idle" BY <2>4
    <3> QED BY <2>1, <2>2, <3>2, <3>3, <3>4 DEF OnePlaceOf
  <2>5. CASE m # n
    <3>1. handed'[m] = handed[m] BY <2>5, HandedEffect DEF Core, TypeOK
    <3> QED BY <2>1, <2>2, <2>3, <3>1, Fewer
  <2> QED BY <2>4, <2>5
<1> QED BY <1>1 DEF OnePlace

-----------------------------------------------------------------------------
(* The timers of the batches                                               *)

\* TimersRegistered and PendingHasTimer, without the tuples.
Only == closing = "no" =>
  \A m \in Msgs : task[Timer(m)].pc \notin {"idle", "done"}
                    => timerOf[task[Timer(m)].key] = m
Sleeps(m, k) == task[Timer(m)].pc = "sleep" /\ task[Timer(m)].key = k
Timed == closing \in {"no", "done"} =>
  \A k \in Keys : pending[k] # NoBatch => timerOf[k] # NoMsg /\ Sleeps(timerOf[k], k)

LEMMA TimersStated == (Only <=> TimersRegistered) /\ (Timed <=> PendingHasTimer)
BY DEF Only, Timed, Sleeps, TimersRegistered, PendingHasTimer, Asleep, Timer

\* A step that leaves the registered timers where they are: of the timer tasks at
\* most one changes, which was not over, keeps its key and has no batch left to flush.
LEMMA TimersStay ==
  ASSUME Core, Only, Timed, UNCHANGED <<timerOf, closing>>, NEW t \in Tasks,
         \A u \in Tasks \ {t} : task'[u] = task[u],
         \A m \in Msgs : t = Timer(m) =>
           task[t].pc \notin {"idle", "done"} /\ task'[t].key = task[t].key,
         \A k \in Keys : pending'[k] # NoBatch =>
           pending[k] # NoBatch
             /\ \A m \in Msgs : t = Timer(m) => ~(task[t].pc = "sleep" /\ task[t].key = k)
  PROVE  Only' /\ Timed'
<1>1. ASSUME NEW m \in Msgs, Timer(m) # t PROVE task'[Timer(m)] = task[Timer(m)]
  BY <1>1, TaskNames
<1>2. Only' BY <1>1 DEF Only
<1>3. ASSUME closing \in {"no", "done"}, NEW k \in Keys, pending'[k] # NoBatch
      PROVE  timerOf[k] # NoMsg /\ Sleeps(timerOf[k], k)'
  <2>1. timerOf[k] # NoMsg /\ Sleeps(timerOf[k], k) BY <1>3 DEF Timed
  <2>2. timerOf[k] \in Msgs BY <2>1, TypeFields DEF Core
  <2>3. Timer(timerOf[k]) # t BY <1>3, <2>1, <2>2 DEF Sleeps
  <2> QED BY <1>1, <2>1, <2>2, <2>3 DEF Sleeps
<1>4. Timed' BY <1>3 DEF Timed
<1> QED BY <1>2, <1>4

LEMMA RenewedTimers ==
  ASSUME Core, Only, Timed, NEW k \in Keys, NEW m \in Msgs, Renewed(k, m),
         task[Intake(m)].pc # "done",
         \A l \in Keys \ {k} : pending'[l] = pending[l], UNCHANGED closing
  PROVE  Only' /\ Timed'
<1>1. timerOf'[k] = m /\ \A l \in Keys \ {k} : timerOf'[l] = timerOf[l]
  BY DEF Renewed, Core, TypeOK
<1>2. Sleeps(m, k)' BY SleeperType DEF Renewed, Sleeps
<1>3. task[Timer(m)].pc = "idle" BY DEF Core, TimerAfterIntake
<1>4. ASSUME NEW n \in Msgs \ {m}
      PROVE  /\ task'[Timer(n)].pc = "done" \/ task'[Timer(n)] = task[Timer(n)]
             /\ timerOf[k] = n => task'[Timer(n)].pc = "done"
             /\ timerOf[k] # n => task'[Timer(n)] = task[Timer(n)]
  <2>1. Timer(n) \in Tasks \ {Timer(m), Intake(m)} BY TaskNames
  <2>2. timerOf[k] = n => task'[Timer(n)].pc = "done"
    BY MessagesAssumption DEF Renewed
  <2>3. timerOf[k] # n => Timer(n) # Timer(timerOf[k]) BY TaskNames
  <2> QED BY <2>1, <2>2, <2>3 DEF Renewed
<1>5. Only'
  <2>1. ASSUME closing = "no", NEW n \in Msgs, task'[Timer(n)].pc \notin {"idle", "done"}
        PROVE  timerOf'[task'[Timer(n)].key] = n
    <3>1. CASE n = m BY <1>1, <1>2, <3>1 DEF Sleeps
    <3>2. CASE n # m
      <4>1. timerOf[k] # n /\ task'[Timer(n)] = task[Timer(n)] BY <1>4, <2>1, <3>2
      <4>2. timerOf[task[Timer(n)].key] = n BY <2>1, <4>1 DEF Only
      <4>3. task[Timer(n)].key \in Keys BY TaskNames, TypeFields DEF Core
      <4> QED BY <1>1, <4>1, <4>2, <4>3
    <3> QED BY <3>1, <3>2
  <2> QED BY <2>1 DEF Only
<1>6. ASSUME closing \in {"no", "done"}, NEW l \in Keys, pending'[l] # NoBatch
      PROVE  /\ timerOf'[l] # NoMsg /\ task'[Timer(timerOf'[l])].pc = "sleep"
             /\ task'[Timer(timerOf'[l])].key = l
  <2>1. CASE l = k BY <1>1, <1>2, <2>1, MessagesAssumption DEF Sleeps
  <2>2. CASE l # k
    <3>1. timerOf'[l] = timerOf[l] /\ timerOf[l] # NoMsg /\ Sleeps(timerOf[l], l)
      BY <1>1, <1>6, <2>2 DEF Timed
    <3>2. timerOf[l] \in Msgs \ {m} BY <1>3, <3>1, TypeFields DEF Core, Sleeps
    <3>3. timerOf[k] # timerOf[l]
      BY <2>2, <3>1 DEF Core, Registered, Sleeps
    <3> QED BY <1>4, <3>1, <3>2, <3>3 DEF Sleeps
  <2> QED BY <2>1, <2>2
<1>7. Timed' BY <1>6 DEF Timed, Sleeps
<1> QED BY <1>5, <1>7

\* A timer task ends: it leaves its slot, and no batch that is collected has it.
LEMMA TimerEnds ==
  ASSUME Core, Only, Timed, NEW m \in Msgs, task' = [task EXCEPT ![Timer(m)] = Ended(@)],
         timerOf' = Unregistered(m, task[Timer(m)].key), UNCHANGED closing,
         \A k \in Keys : pending'[k] # NoBatch =>
           pending[k] # NoBatch /\ ~Sleeps(m, k)
  PROVE  Only' /\ Timed'
<1> DEFINE t == Timer(m)
<1>1. t \in Tasks /\ task[t].key \in Keys /\ Ended(task[t]) \in TaskRecords
      /\ Ended(task[t]).pc = "done"
  BY TaskNames, TypeFields, EndedType DEF Core
<1>2. task'[t].pc = "done" /\ \A u \in Tasks \ {t} : task'[u] = task[u]
  BY <1>1, OneTask DEF Core
<1>3. \A l \in Keys : timerOf'[l] = timerOf[l] \/ (timerOf[l] = m /\ timerOf'[l] = NoMsg)
  BY <1>1, UnregisteredEffect DEF Core
<1>4. \A n \in Msgs \ {m} : task'[Timer(n)] = task[Timer(n)]
  BY <1>2, TaskNames
<1>5. Only'
  <2>1. ASSUME closing = "no", NEW n \in Msgs, task'[Timer(n)].pc \notin {"idle", "done"}
        PROVE  timerOf'[task'[Timer(n)].key] = n
    <3>1. n # m BY <1>2, <2>1
    <3>2. timerOf[task[Timer(n)].key] = n /\ task'[Timer(n)] = task[Timer(n)]
      BY <1>4, <2>1, <3>1 DEF Only
    <3>3. task[Timer(n)].key \in Keys BY TaskNames, TypeFields DEF Core
    <3> QED BY <1>3, <3>1, <3>2, <3>3
  <2> QED BY <2>1 DEF Only
<1>6. ASSUME closing \in {"no", "done"}, NEW l \in Keys, pending'[l] # NoBatch
      PROVE  /\ timerOf'[l] # NoMsg /\ task'[Timer(timerOf'[l])].pc = "sleep"
             /\ task'[Timer(timerOf'[l])].key = l
  <2>1. timerOf[l] # NoMsg /\ Sleeps(timerOf[l], l) BY <1>6 DEF Timed
  <2>2. timerOf[l] \in Msgs \ {m} BY <1>6, <2>1, TypeFields DEF Core
  <2> QED BY <1>3, <1>4, <1>6, <2>1, <2>2 DEF Sleeps
<1>7. Timed' BY <1>6 DEF Timed, Sleeps
<1> QED BY <1>5, <1>7

-----------------------------------------------------------------------------
(* The invariant                                                           *)

BatchInv == Core /\ OnePlace /\ Only /\ Timed

LEMMA BatchInit == Init => BatchInv
<1> SUFFICES ASSUME Init PROVE BatchInv
  OBVIOUS
<1>1. TypeOK
  <2>1. task \in [Tasks -> TaskRecords] BY NewTaskType DEF Init
  <2>2. pending \in [Keys -> Batches] BY NoBatchType DEF Init
  <2> QED BY <2>1, <2>2 DEF Init, TypeOK
<1>2. \A t \in Tasks : task[t].pc = "idle" /\ ~task[t].store BY NewTaskType DEF Init
<1>3. /\ \A k \in Keys : pending[k] = NoBatch /\ timerOf[k] = NoMsg
      /\ \A m \in Msgs : handed[m] = 0
      /\ lock = NoTask /\ waiters = <<>>
  BY DEF Init
<1>4. TimerAfterIntake
  <2>1. /\ \A m \in Msgs : task[Timer(m)].pc = "idle"
        /\ \A m \in Msgs : ~task[Timer(m)].store
    BY <1>2, TaskNames
  <2> QED BY <2>1 DEF TimerAfterIntake
<1>5. Registered BY <1>3 DEF Registered
<1>6. LockQueue
  <2>1. Once(waiters) /\ \A t : ~InLine(waiters, t) BY <1>3 DEF Once, InLine
  <2> QED BY <1>2, <1>3, <2>1, TaskNames DEF LockQueue
<1>7. OnePlace
  <2>1. /\ \A k \in Keys, m \in Msgs : ~Collected(k, m)
        /\ \A t \in Tasks, m \in Msgs : ~Queued(t, m) /\ ~Aside(t, m)
    BY <1>2, <1>3, NoBatchType DEF Collected, Queued, Aside
  <2> SUFFICES ASSUME NEW m \in Msgs PROVE OnePlaceOf(m)
    BY DEF OnePlace
  <2> QED BY <1>3, <2>1 DEF OnePlaceOf, Somewhere
<1>8. Only /\ Timed BY <1>2, <1>3, TaskNames DEF Only, Timed
<1> QED BY <1>1, <1>4, <1>5, <1>6, <1>7, <1>8 DEF BatchInv, Core

\* How a message arrives, by its kind.
Arrives(m, kind, e) ==
  \/ kind \in Keys /\ Enqueue(m, kind, e)
  \/ Dispatch(Intake(m), NewTask, e) /\ UNCHANGED <<pending, timerOf>>
  \/ /\ task' = [task EXCEPT ![Intake(m)] = Stopper(e)] /\ Handed(e)
     /\ UNCHANGED <<pending, timerOf, lock, waiters>>

LEMMA ArriveNext ==
  ASSUME BatchInv, NEW m \in Msgs, Arrive(m)
  PROVE  BatchInv'
<1> USE DEF BatchInv
<1>1. task[Intake(m)].pc = "idle" /\ UNCHANGED closing BY DEF Arrive, Intake
<1>2. \E kind \in Kinds, c \in Contexts, n \in Sizes : Arrives(m, kind, Event(m, c, n))
  BY DEF Arrive, Arrives, Intake, Stopper
<1> PICK kind \in Kinds, c \in Contexts, n \in Sizes : Arrives(m, kind, Event(m, c, n))
  BY <1>2
<1> DEFINE e == Event(m, c, n)
<1>3. e \in Batches /\ Members(e) = {m} BY EventType
<1>4. Intake(m) \in Tasks /\ NewTask \in TaskRecords /\ ~NewTask.store
      /\ \A l \in Msgs : Intake(m) # Timer(l)
  BY TaskNames, NewTaskType
<1>5. pending \in [Keys -> Batches] BY DEF Core, TypeOK
<1> HIDE DEF e
<1>6. CASE kind \in Keys /\ Enqueue(m, kind, e)
  <2>1. CASE /\ pending' = Popped(pending, kind) /\ UNCHANGED timerOf
             /\ \E r \in TaskRecords : r.own = e /\ Dispatch(Intake(m), r, pending[kind])
    <3>1. PICK r \in TaskRecords : r.own = e /\ Dispatch(Intake(m), r, pending[kind])
      BY <2>1
    <3>2. /\ pending' \in [Keys -> Batches] /\ pending[kind] \in Batches
          /\ pending'[kind] = NoBatch /\ \A l \in Keys \ {kind} : pending'[l] = pending[l]
      BY <1>6, <2>1, PoppedType, TypeFields DEF Core
    <3>3. Core' BY <1>1, <1>4, <2>1, <3>1, <3>2, DispatchCore
    <3>4. \A x \in Msgs : r.store /\ x \in Members(r.own) => Intake(m) = Intake(x)
      BY <1>3, <3>1
    <3>5. OnePlace' BY <1>1, <1>4, <1>6, <2>1, <3>1, <3>4, FlushPlaces
    <3>6. \A u \in Tasks \ {Intake(m)} : task'[u] = task[u]
      BY <1>1, <1>4, <3>1, <3>2, DispatchEffect DEF Core
    <3>7. Only' /\ Timed' BY <1>1, <1>4, <2>1, <3>2, <3>6, TimersStay
    <3> QED BY <3>3, <3>5, <3>7
  <2>2. CASE /\ Renewed(kind, m) /\ UNCHANGED handed
             /\ \E b \in Batches : /\ pending' = [pending EXCEPT ![kind] = b]
                                   /\ Members(b) = Members(pending[kind]) \cup {m}
    <3>1. PICK b \in Batches : /\ pending' = [pending EXCEPT ![kind] = b]
                               /\ Members(b) = Members(pending[kind]) \cup {m}
      BY <2>2
    <3>2. /\ pending' \in [Keys -> Batches] /\ pending'[kind] = b
          /\ \A l \in Keys \ {kind} : pending'[l] = pending[l]
      BY <1>5, <1>6, <3>1
    <3>3. Core' BY <1>1, <1>6, <2>2, <3>2, RenewedCore
    <3>4. \A x \in Msgs : Collected(kind, x)' => Collected(kind, x) \/ x = m
      BY <3>1, <3>2 DEF Collected
    <3>5. OnePlace' BY <1>1, <1>6, <2>2, <3>2, <3>4, StorePlaces
    <3>6. Only' /\ Timed' BY <1>1, <1>6, <2>2, <3>2, RenewedTimers
    <3> QED BY <3>3, <3>5, <3>6
  <2> QED BY <1>1, <1>6, <2>1, <2>2, EnqueueCases DEF e
<1>7. CASE Dispatch(Intake(m), NewTask, e) /\ UNCHANGED <<pending, timerOf>>
  <2>1. Core' BY <1>1, <1>3, <1>4, <1>5, <1>7, DispatchCore
  <2>2. OnePlace' BY <1>1, <1>3, <1>7, DirectPlaces
  <2>3. \A u \in Tasks \ {Intake(m)} : task'[u] = task[u]
    BY <1>1, <1>3, <1>4, <1>7, DispatchEffect DEF Core
  <2>4. Only' /\ Timed' BY <1>1, <1>4, <1>7, <2>3, TimersStay
  <2> QED BY <2>1, <2>2, <2>4
<1>8. CASE /\ task' = [task EXCEPT ![Intake(m)] = Stopper(e)] /\ Handed(e)
           /\ UNCHANGED <<pending, timerOf, lock, waiters>>
  <2>1. /\ Core'
        /\ task'[Intake(m)].pc = "stopping" /\ ~task'[Intake(m)].store
        /\ \A u \in Tasks \ {Intake(m)} : task'[u] = task[u]
    BY <1>1, <1>3, <1>8, StopEffect
  <2>2. OnePlace' BY <1>1, <1>3, <1>8, <2>1, StopPlaces
  <2>3. Only' /\ Timed' BY <1>1, <1>4, <1>8, <2>1, TimersStay
  <2> QED BY <2>1, <2>2, <2>3
<1> QED BY <1>6, <1>7, <1>8 DEF Arrives, e

LEMMA TimerFiresNext ==
  ASSUME BatchInv, NEW m \in Msgs, TimerFires(m)
  PROVE  BatchInv'
<1> USE DEF BatchInv
<1> DEFINE t == Timer(m)
           k == task[t].key
<1>1. /\ t \in Tasks /\ k \in Keys /\ task[t].pc = "sleep" /\ UNCHANGED closing
      /\ pending' = Popped(pending, k)
  BY TimerFiresCases
<1>2. /\ pending' \in [Keys -> Batches] /\ pending[k] \in Batches
      /\ pending'[k] = NoBatch /\ \A l \in Keys \ {k} : pending'[l] = pending[l]
  BY <1>1, PoppedType, TypeFields DEF Core
<1>3. /\ task[t] \in TaskRecords /\ ~task[t].store
  BY <1>1, TypeFields DEF Core, TimerAfterIntake
<1>4. CASE /\ task' = [task EXCEPT ![t] = Ended(@)]
           /\ timerOf' = Unregistered(m, k)
           /\ UNCHANGED <<lock, waiters, handed>>
  <2>1. /\ timerOf' \in [Keys -> Msgs \cup {NoMsg}]
        /\ \A l \in Keys : timerOf'[l] = timerOf[l] \/ timerOf'[l] = NoMsg
    BY <1>1, <1>4, UnregisteredEffect DEF Core
  <2>2. lock' = IF lock = t THEN NoTask ELSE lock
    BY <1>1, <1>4 DEF Core, LockQueue
  <2>3. Core' BY <1>1, <1>2, <1>4, <2>1, <2>2, EndCore
  <2>4. Ended(task[t]) \in TaskRecords BY <1>3, EndedType
  <2>5. \A u \in Tasks : task'[u] = task[u] \/ task'[u] = Ended(task[u])
    BY <1>1, <1>4, <2>4, OneTask DEF Core
  <2>6. OnePlace' BY <1>2, <1>4, <2>5, DropPlaces
  <2>7. \A l \in Keys : pending'[l] # NoBatch => pending[l] # NoBatch /\ ~Sleeps(m, l)
    BY <1>2 DEF Sleeps
  <2>8. Only' /\ Timed' BY <1>1, <1>4, <2>7, TimerEnds
  <2> QED BY <2>3, <2>6, <2>8
<1>5. CASE Dispatch(t, task[t], pending[k]) /\ UNCHANGED timerOf
  <2>1. Core' BY <1>1, <1>2, <1>3, <1>5, DispatchCore
  <2>2. OnePlace' BY <1>1, <1>3, <1>5, FlushPlaces
  <2>3. /\ \A u \in Tasks \ {t} : task'[u] = task[u]
        /\ task'[t].key = k
    BY <1>1, <1>2, <1>3, <1>5, DispatchEffect DEF Core
  <2>4. Only' /\ Timed' BY <1>1, <1>2, <1>5, <2>3, TimersStay
  <2> QED BY <2>1, <2>2, <2>4
<1> QED BY <1>4, <1>5, TimerFiresCases

LEMMA ReturnNext ==
  ASSUME BatchInv, NEW t \in Tasks, Return(t)
  PROVE  BatchInv'
<1> USE DEF BatchInv
<1>1. task[t].pc \in {"handling", "stopping"} /\ UNCHANGED <<handed, closing>>
  BY ReturnCases
<1>2. pending \in [Keys -> Batches] /\ task[t].own \in Batches
  BY TypeFields DEF Core, TypeOK
<1>3. ASSUME NEW m \in Msgs, NEW k \in Keys, t = Intake(m), task[t].store,
             pending' = [pending EXCEPT ![k] = task[t].own], Renewed(k, m)
      PROVE  BatchInv'
  <2>1. /\ pending' \in [Keys -> Batches] /\ pending'[k] = task[t].own
        /\ \A l \in Keys \ {k} : pending'[l] = pending[l]
    BY <1>2, <1>3
  <2>2. Core' BY <1>1, <1>3, <2>1, RenewedCore
  <2>3. \A x \in Msgs : Collected(k, x)' => Aside(t, x)
    BY <1>3, <2>1 DEF Collected, Aside
  <2>4. OnePlace' BY <1>1, <1>3, <2>1, <2>3, StorePlaces
  <2>5. Only' /\ Timed' BY <1>1, <1>3, <2>1, RenewedTimers
  <2> QED BY <2>2, <2>4, <2>5
<1>4. ASSUME task' = [task EXCEPT ![t] = Ended(@)],
             lock' = IF lock = t THEN NoTask ELSE lock,
             UNCHANGED <<pending, waiters>>,
             \/ UNCHANGED timerOf
             \/ \E m \in Msgs : t = Timer(m) /\ timerOf' = Unregistered(m, task[t].key)
      PROVE  BatchInv'
  <2>1. task[t].key \in Keys /\ Ended(task[t]) \in TaskRecords
    BY TypeFields, EndedType DEF Core
  <2>2. /\ timerOf' \in [Keys -> Msgs \cup {NoMsg}]
        /\ \A l \in Keys : timerOf'[l] = timerOf[l] \/ timerOf'[l] = NoMsg
    BY <1>4, <2>1, UnregisteredEffect DEF Core, TypeOK
  <2>3. Core' BY <1>1, <1>2, <1>4, <2>2, EndCore
  <2>4. \A u \in Tasks : task'[u] = task[u] \/ task'[u] = Ended(task[u])
    BY <1>4, <2>1, OneTask DEF Core
  <2>5. OnePlace' BY <1>1, <1>4, <2>4, DropPlaces
  <2>6. Only' /\ Timed'
    <3>1. CASE UNCHANGED timerOf
      <4>1. \A u \in Tasks \ {t} : task'[u] = task[u]
        BY <1>4, <2>1, OneTask DEF Core
      <4>2. task'[t].key = task[t].key
        BY <1>4, <2>1, OneTask, EndedType, TypeFields DEF Core
      <4> QED BY <1>1, <1>4, <3>1, <4>1, <4>2, TimersStay
    <3>2. ASSUME NEW m \in Msgs, t = Timer(m), timerOf' = Unregistered(m, task[t].key)
          PROVE  Only' /\ Timed'
      <4>1. \A l \in Keys : ~Sleeps(m, l) BY <1>1, <3>2 DEF Sleeps
      <4> QED BY <1>1, <1>4, <3>2, <4>1, TimerEnds
    <3> QED BY <1>4, <3>1, <3>2
  <2> QED BY <2>3, <2>5, <2>6
<1> QED BY <1>3, <1>4, ReturnCases

LEMMA TakeNext ==
  ASSUME BatchInv, NEW t \in Tasks, Take(t)
  PROVE  BatchInv'
<1> USE DEF BatchInv
<1>1. /\ Core'
      /\ task[t].pc = "lock" /\ task'[t].pc = "handling"
      /\ \A u \in Tasks \ {t} : task'[u] = task[u]
      /\ UNCHANGED <<pending, timerOf, closing>>
  BY TakeEffect
<1>2. OnePlace' BY TakePlaces
<1>3. task'[t].key = task[t].key
  BY TypeFields DEF Take, Core, TypeOK, TaskRecords
<1>4. Only' /\ Timed' BY <1>1, <1>3, TimersStay
<1> QED BY <1>1, <1>2, <1>4

LEMMA DisconnectNext ==
  ASSUME BatchInv, Disconnect \/ DisconnectMedia \/ DisconnectReset
  PROVE  BatchInv'
<1> USE DEF BatchInv
<1>1. ASSUME NEW k \in Keys, CancelTimer(k), UNCHANGED <<pending, handed>>,
             timerOf' \in [Keys -> Msgs \cup {NoMsg}],
             \A l \in Keys : timerOf'[l] = timerOf[l] \/ timerOf'[l] = NoMsg,
             closing' \in {"media", "media!", "reset", "reset!"}
      PROVE  BatchInv'
  <2>1. Core' BY <1>1, CancelCore
  <2>2. \A t \in Tasks : task'[t] = task[t] \/ task'[t] = Ended(task[t])
    BY <1>1, CancelTimerEffect
  <2>3. OnePlace' BY <1>1, <2>2, DropPlaces
  <2>4. Only' /\ Timed' BY <1>1 DEF Only, Timed
  <2> QED BY <2>1, <2>3, <2>4
<1>2. CASE Disconnect
  BY <1>1, <1>2 DEF Disconnect, Core, TypeOK, Keys
<1>3. CASE DisconnectMedia
  BY <1>1, <1>3 DEF DisconnectMedia, Core, TypeOK, Keys
<1>4. CASE DisconnectReset
  <2>1. /\ timerOf' \in [Keys -> Msgs \cup {NoMsg}]
        /\ \A l \in Keys : timerOf'[l] = timerOf[l] \/ timerOf'[l] = NoMsg
        /\ pending' \in [Keys -> Batches] /\ \A k \in Keys : pending'[k] = NoBatch
        /\ closing' = "done" /\ UNCHANGED <<task, lock, waiters, handed>>
    BY <1>4, NoBatchType DEF DisconnectReset, Core, TypeOK
  <2>2. Core'
    <3>1. TypeOK' BY <2>1 DEF Core, TypeOK
    <3>2. TimerAfterIntake' /\ LockQueue'
      BY <2>1 DEF Core, TimerAfterIntake, LockQueue
    <3>3. Registered' BY <2>1, RegisteredKept DEF Core
    <3> QED BY <3>1, <3>2, <3>3 DEF Core
  <2>3. OnePlace' BY <2>1, DropPlaces
  <2>4. Only' /\ Timed' BY <2>1 DEF Only, Timed
  <2> QED BY <2>2, <2>3, <2>4
<1> QED BY <1>2, <1>3, <1>4

LEMMA BatchNext == BatchInv /\ [Next]_vars => BatchInv'
<1> SUFFICES ASSUME BatchInv, [Next]_vars PROVE BatchInv'
  OBVIOUS
<1>1. ASSUME UNCHANGED vars PROVE BatchInv'
  BY <1>1 DEF vars, BatchInv, Core, TypeOK, TimerAfterIntake, Registered, LockQueue,
              OnePlace, OnePlaceOf, Somewhere, Collected, Queued, Aside,
              Only, Timed, Sleeps
<1> QED BY <1>1, ArriveNext, TimerFiresNext, TakeNext, ReturnNext, DisconnectNext
        DEF Next, Step, Done

\* Every variable of the batches keeps its type.
THEOREM BatchTypes == Spec => []TypeOK
<1>1. BatchInv => TypeOK BY DEF BatchInv, Core
<1> QED BY <1>1, BatchInit, BatchNext, PTL DEF Spec

\* The chat lock never leaks: the task inside it is the one that handles a batch, and
\* a task waits for it exactly while it is in its queue, also when timer tasks are
\* cancelled there; so a free lock has no one handling and no waiter forgotten.
THEOREM ChatLockSound == Spec => []LockQueue
<1>1. BatchInv => LockQueue BY DEF BatchInv, Core
<1> QED BY <1>1, BatchInit, BatchNext, PTL DEF Spec

\* The messages of a thread are handled one at a time, /stop excepted, for any number
\* of messages, and whichever timer tasks are cancelled while they hold the lock or
\* wait for it (_handle_message_with_guards, _reschedule_batch_task, disconnect()).
THEOREM HandledSerially == Spec => []Serial
<1>1. BatchInv => Serial BY DEF BatchInv, Core, LockQueue, Serial
<1> QED BY <1>1, BatchInit, BatchNext, PTL DEF Spec

\* No message is handed to Hermes twice, however batches are merged, flushed, put
\* aside and cancelled: it is at one place until it is handed over.
THEOREM NeverHandedTwice == Spec => []HandedOnce
<1>1. BatchInv => HandedOnce
  <2> SUFFICES ASSUME BatchInv, NEW m \in Msgs PROVE handed[m] <= 1
    BY DEF HandedOnce
  <2>1. OnePlaceOf(m) BY DEF BatchInv, OnePlace
  <2> QED BY <2>1 DEF OnePlaceOf
<1> QED BY <1>1, BatchInit, BatchNext, PTL DEF Spec

\* The registered timer task is the only one of its key that is not over.
THEOREM OneTimerPerKey == Spec => []TimersRegistered
<1>1. BatchInv => TimersRegistered BY TimersStated DEF BatchInv
<1> QED BY <1>1, BatchInit, BatchNext, PTL DEF Spec

\* A batch that is being collected has its timer, which sleeps, also once the adapter
\* was disconnected and takes messages again.
THEOREM CollectedBatchIsTimed == Spec => []PendingHasTimer
<1>1. BatchInv => PendingHasTimer BY TimersStated DEF BatchInv
<1> QED BY <1>1, BatchInit, BatchNext, PTL DEF Spec
=============================================================================
