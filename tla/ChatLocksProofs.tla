--------------------------- MODULE ChatLocksProofs ---------------------------
(***************************************************************************)
(* Proofs about ChatLocks: the table is bounded, and the messages of one   *)
(* thread are handled one at a time as long as the table dropped no lock   *)
(* that was in use.  The invariant behind both is that a dispatch holds or *)
(* waits for the lock that the table has for its thread.                   *)
(***************************************************************************)
EXTENDS ChatLocks, TLAPS

Table == [chat : Chats, lock : Objects]

\* No thread has two entries.
Unique(T) == \A i, j \in 1..Len(T) : T[i].chat = T[j].chat => i = j

\* What T has of the table but entry i, with e added at its end.
Replaces(T, i, e) ==
  /\ T \in Seq(Table) /\ Len(T) = Len(table) /\ T[Len(T)] = e
  /\ \A j \in 1..(Len(T) - 1) :
       \E k \in Entries \ {i} : T[j] = table[k] /\ k = IF j < i THEN j ELSE j + 1
  /\ \A k \in Entries \ {i} : \E j \in 1..Len(T) : T[j] = table[k]

HasEntry(T, t) ==
  \E i \in 1..Len(T) : T[i].chat = task[t].chat /\ T[i].lock = task[t].lock

LocksInv ==
  /\ TypeOK
  /\ TableBounded
  /\ Unique(table)
  /\ \A t \in Tasks : task[t].pc = "inside" => owner[task[t].lock] = t
  /\ \A t \in Tasks : task[t].pc # "idle" =>
       /\ task[t].lock \in Objects
       /\ dropped \/ HasEntry(table, t)

-----------------------------------------------------------------------------
(* The table *)

\* Cutting an element out of a sequence.
LEMMA CutType ==
  ASSUME NEW S, NEW q \in Seq(S), NEW i \in 1..Len(q)
  PROVE  Cut(q, i) \in Seq(S) /\ Len(Cut(q, i)) = Len(q) - 1
<1> DEFINE W == Cut(q, i)
           n == Len(q) - 1
<1>1. n \in Nat /\ W = [j \in 1..n |-> IF j < i THEN q[j] ELSE q[j + 1]]
  BY DEF Cut
<1>2. \A j \in 1..n : W[j] \in S
  BY <1>1
<1>3. W \in [1..n -> S]
  BY <1>1, <1>2
<1> HIDE DEF W
<1>4. W \in Seq(S) /\ Len(W) = n
  BY <1>1, <1>3
<1> QED
  BY <1>4 DEF W

\* Removing entry i and adding e.
LEMMA Replaced ==
  ASSUME table \in Seq(Table), NEW i \in Entries, NEW e \in Table
  PROVE  Replaces(Append(TableWithout(i), e), i, e)
<1> DEFINE W == TableWithout(i)
           n == Len(table) - 1
           T == Append(W, e)
<1>1. /\ Len(table) \in Nat /\ n \in Nat /\ i \in 1..Len(table)
      /\ \A k \in 1..Len(table) : table[k] \in Table
  BY DEF Entries
<1>2. W = [j \in 1..n |-> IF j < i THEN table[j] ELSE table[j + 1]]
  BY DEF TableWithout, Cut
<1>3. \A j \in 1..n : /\ W[j] = table[IF j < i THEN j ELSE j + 1]
                      /\ (IF j < i THEN j ELSE j + 1) \in Entries \ {i}
  BY <1>1, <1>2 DEF Entries
<1>4. W \in Seq(Table) /\ Len(W) = n
  BY <1>1, CutType DEF TableWithout
<1> HIDE DEF W
<1>5. /\ T \in Seq(Table) /\ Len(T) = n + 1 /\ T[n + 1] = e
      /\ \A j \in 1..n : T[j] = W[j]
  BY <1>1, <1>4
<1> HIDE DEF T
<1>6. \A j \in 1..(Len(T) - 1) :
        \E k \in Entries \ {i} : T[j] = table[k] /\ k = IF j < i THEN j ELSE j + 1
  BY <1>1, <1>3, <1>5
<1>7. ASSUME NEW k \in Entries \ {i} PROVE \E j \in 1..Len(T) : T[j] = table[k]
  <2>1. CASE k < i
    <3>1. k \in 1..n /\ k \in 1..Len(T)
      BY <1>1, <1>5, <2>1 DEF Entries
    <3> QED
      BY <1>3, <1>5, <2>1, <3>1
  <2>2. CASE k > i
    <3>1. k - 1 \in 1..n /\ k - 1 \in 1..Len(T) /\ ~(k - 1 < i) /\ (k - 1) + 1 = k
      BY <1>1, <1>5, <2>2 DEF Entries
    <3> QED
      BY <1>3, <1>5, <3>1
  <2> QED
    BY <1>1, <2>1, <2>2 DEF Entries
<1> QED
  <2>1. Replaces(T, i, e)
    BY <1>1, <1>5, <1>6, <1>7 DEF Replaces
  <2> QED
    BY <2>1 DEF T, W

\* The threads stay distinct when the added entry is for none of the others.
LEMMA ReplacedUnique ==
  ASSUME table \in Seq(Table), Unique(table), NEW i \in Entries, NEW e \in Table,
         NEW T, Replaces(T, i, e),
         \A k \in Entries \ {i} : table[k].chat # e.chat
  PROVE  Unique(T)
<1> SUFFICES ASSUME NEW j \in 1..Len(T), NEW l \in 1..Len(T),
                    T[j].chat = T[l].chat, j # l
             PROVE  FALSE
  BY DEF Unique
<1>1. Len(T) \in Nat
  BY DEF Replaces
<1>2. ASSUME NEW m \in 1..(Len(T) - 1) PROVE T[m].chat # e.chat
  BY <1>2 DEF Replaces
<1>3. T[Len(T)] = e
  BY DEF Replaces
<1>4. j \in 1..(Len(T) - 1) /\ l \in 1..(Len(T) - 1)
  BY <1>1, <1>2, <1>3
<1>5. PICK a \in Entries \ {i} : T[j] = table[a] /\ a = IF j < i THEN j ELSE j + 1
  BY <1>4 DEF Replaces
<1>6. PICK b \in Entries \ {i} : T[l] = table[b] /\ b = IF l < i THEN l ELSE l + 1
  BY <1>4 DEF Replaces
<1>7. a = b
  BY <1>5, <1>6 DEF Unique, Entries
<1> QED
  BY <1>4, <1>5, <1>6, <1>7 DEF Entries

\* The entry of a known thread.
LEMMA EntryFound ==
  ASSUME NEW c, Known(c)
  PROVE  Entry(c) \in Entries /\ table[Entry(c)].chat = c
BY DEF Known, Entry

-----------------------------------------------------------------------------
(* The steps *)

\* A dispatch that takes or awaits lock l for thread c keeps the invariant, if
\* the new table has that entry and those of the dispatches under way.
LEMMA EnterStep ==
  ASSUME LocksInv, NEW t \in Tasks, NEW c \in Chats, NEW l \in Objects,
         task[t].pc = "idle", Enter(t, c, l),
         table' \in Seq(Table), Len(table') <= MaxLocks, Unique(table'),
         dropped' \in BOOLEAN,
         NEW n \in 1..Len(table'), table'[n].chat = c, table'[n].lock = l,
         \A u \in Tasks \ {t} :
           task[u].pc # "idle" => dropped' \/ HasEntry(table', u)
  PROVE  LocksInv'
<1> DEFINE r(p) == [pc |-> p, chat |-> c, lock |-> l]
<1>1. PICK p \in {"inside", "waiting"} : task' = [task EXCEPT ![t] = r(p)]
  BY DEF Enter
<1>2. task' \in [Tasks -> Dispatches]
  <2>1. r(p) \in Dispatches
    BY DEF Dispatches
  <2> QED
    BY <1>1, <2>1 DEF LocksInv, TypeOK
<1>3. owner' \in [Objects -> Tasks \cup {NoTask}] /\ queue' \in [Objects -> Seq(Tasks)]
  <2>1. CASE owner[l] = NoTask /\ queue[l] = <<>>
    BY <2>1 DEF Enter, LocksInv, TypeOK
  <2>2. CASE ~(owner[l] = NoTask /\ queue[l] = <<>>)
    <3>1. queue' = [queue EXCEPT ![l] = Append(queue[l], t)] /\ owner' = owner
      BY <2>2 DEF Enter
    <3>2. Append(queue[l], t) \in Seq(Tasks)
      BY DEF LocksInv, TypeOK
    <3> QED
      BY <3>1, <3>2 DEF LocksInv, TypeOK
  <2> QED
    BY <2>1, <2>2
<1>4. \A u \in Tasks : task'[u].pc = "inside" => owner'[task'[u].lock] = u
  <2>1. CASE owner[l] = NoTask /\ queue[l] = <<>>
    <3>1. /\ task' = [task EXCEPT ![t] = r("inside")]
          /\ owner' = [owner EXCEPT ![l] = t]
      BY <2>1 DEF Enter
    <3> QED
      BY <2>1, <3>1, LocksAssumption DEF LocksInv, TypeOK
  <2>2. CASE ~(owner[l] = NoTask /\ queue[l] = <<>>)
    <3>1. task' = [task EXCEPT ![t] = r("waiting")] /\ owner' = owner
      BY <2>2 DEF Enter
    <3> QED
      BY <3>1 DEF LocksInv, TypeOK
  <2> QED
    BY <2>1, <2>2
<1>5. ASSUME NEW u \in Tasks, task'[u].pc # "idle"
      PROVE  /\ task'[u].lock \in Objects
             /\ dropped' \/ HasEntry(table, u)'
  <2>1. CASE u = t
    BY <1>1, <2>1 DEF HasEntry, LocksInv, TypeOK
  <2>2. CASE u # t
    <3>1. task'[u] = task[u]
      BY <1>1, <2>2 DEF LocksInv, TypeOK
    <3> QED
      BY <1>5, <2>2, <3>1 DEF HasEntry, LocksInv
  <2> QED
    BY <2>1, <2>2
<1> QED
  BY <1>2, <1>3, <1>4, <1>5 DEF LocksInv, TypeOK, TableBounded, Table

LEMMA ReuseStep ==
  ASSUME LocksInv, NEW t \in Tasks, NEW c \in Chats, Reuse(t, c)
  PROVE  LocksInv'
<1> DEFINE i == Entry(c)
           e == table[i]
<1>1. i \in Entries /\ e.chat = c /\ table \in Seq(Table)
  BY EntryFound DEF Reuse, LocksInv, TypeOK, Table
<1>2. e \in Table
  BY <1>1 DEF Entries
<1>3. e.lock \in Objects
  BY <1>2 DEF Table
<1>4. table' = Append(TableWithout(i), e) /\ Enter(t, c, e.lock)
  BY DEF Reuse
<1>5. Replaces(table', i, e)
  BY <1>1, <1>2, <1>4, Replaced
<1>6. Unique(table')
  <2>1. \A k \in Entries \ {i} : table[k].chat # e.chat
    BY <1>1 DEF LocksInv, Unique, Entries
  <2> QED
    BY <1>1, <1>2, <1>5, <2>1, ReplacedUnique DEF LocksInv
<1>7. /\ table' \in Seq(Table) /\ Len(table') <= MaxLocks
      /\ Len(table') \in 1..Len(table') /\ table'[Len(table')] = e
  BY <1>1, <1>5 DEF Replaces, LocksInv, TableBounded, Entries
<1>8. ASSUME NEW u \in Tasks, HasEntry(table, u) PROVE HasEntry(table', u)
  <2>1. PICK k \in Entries :
          table[k].chat = task[u].chat /\ table[k].lock = task[u].lock
    BY <1>8 DEF HasEntry, Entries
  <2>2. \E j \in 1..Len(table') : table'[j] = table[k]
    BY <1>5, <1>7, <2>1 DEF Replaces
  <2> QED
    BY <2>1, <2>2 DEF HasEntry
<1>9. dropped' = dropped /\ dropped' \in BOOLEAN /\ task[t].pc = "idle"
  BY DEF Reuse, LocksInv, TypeOK
<1>10. \A u \in Tasks \ {t} :
         task[u].pc # "idle" => dropped' \/ HasEntry(table', u)
  BY <1>8, <1>9 DEF LocksInv
<1> HIDE DEF e, i
<1> QED
  BY <1>1, <1>3, <1>4, <1>6, <1>7, <1>9, <1>10, EnterStep

LEMMA CreateStep ==
  ASSUME LocksInv, NEW t \in Tasks, NEW c \in Chats, NEW l \in Objects,
         Create(t, c, l)
  PROVE  LocksInv'
<1> DEFINE e == [chat |-> c, lock |-> l]
<1>1. e \in Table /\ e.chat = c /\ e.lock = l
  BY DEF Table
<1>2. /\ table \in Seq(Table) /\ Len(table) \in Nat /\ Len(table) <= MaxLocks
      /\ MaxLocks \in Nat \ {0}
      /\ \A k \in Entries : table[k].chat # c
      /\ task[t].pc = "idle" /\ Enter(t, c, l)
  BY LocksAssumption DEF Create, Known, LocksInv, TypeOK, TableBounded, Table
<1> HIDE DEF e
<1>3. CASE ~Full
  <2>1. table' = Append(table, e) /\ dropped' = dropped
    BY <1>3 DEF Create, e
  <2>2. /\ table' \in Seq(Table) /\ Len(table') = Len(table) + 1
        /\ Len(table') \in 1..Len(table')
        /\ table'[Len(table')] = e
        /\ \A j \in 1..Len(table) : table'[j] = table[j]
    BY <1>1, <1>2, <2>1
  <2>3. Len(table') <= MaxLocks
    BY <1>2, <1>3, <2>2 DEF Full
  <2>4. Unique(table')
    BY <1>1, <1>2, <2>2 DEF LocksInv, Unique, Entries
  <2>5. \A u \in Tasks \ {t} :
          task[u].pc # "idle" => dropped' \/ HasEntry(table', u)
    <3>1. \A u \in Tasks : HasEntry(table, u) => HasEntry(table', u)
      BY <1>2, <2>2 DEF HasEntry
    <3> QED
      BY <2>1, <3>1 DEF LocksInv
  <2>6. dropped' \in BOOLEAN
    BY <2>1 DEF LocksInv, TypeOK
  <2> QED
    BY <1>1, <1>2, <2>2, <2>3, <2>4, <2>5, <2>6, EnterStep
<1>4. CASE Full
  <2>1. PICK i \in Victims : /\ table' = Append(TableWithout(i), e)
                             /\ dropped' = (dropped \/ Used(table[i].lock))
    BY <1>4 DEF Create, e
  <2>2. i \in Entries
    BY <1>2, <1>4 DEF Victims, Entries, Full
  <2>3. Replaces(table', i, e)
    BY <1>1, <1>2, <2>1, <2>2, Replaced
  <2>4. Unique(table')
    <3>1. Unique(table) /\ \A k \in Entries \ {i} : table[k].chat # e.chat
      BY <1>1, <1>2 DEF LocksInv
    <3> QED
      BY <1>1, <1>2, <2>2, <2>3, <3>1, ReplacedUnique
  <2>5. /\ table' \in Seq(Table) /\ Len(table') <= MaxLocks
        /\ Len(table') \in 1..Len(table') /\ table'[Len(table')] = e
    BY <1>2, <2>2, <2>3 DEF Replaces, Entries
  <2>6. ASSUME NEW u \in Tasks \ {t}, task[u].pc # "idle", ~dropped'
        PROVE  HasEntry(table', u)
    <3>1. ~dropped /\ task[u].lock # table[i].lock
      BY <2>1, <2>6 DEF Used
    <3>2. HasEntry(table, u)
      BY <2>6, <3>1 DEF LocksInv
    <3>3. PICK k \in Entries \ {i} :
            table[k].chat = task[u].chat /\ table[k].lock = task[u].lock
      BY <3>1, <3>2 DEF HasEntry, Entries
    <3>4. \E j \in 1..Len(table') : table'[j] = table[k]
      BY <2>3, <3>3 DEF Replaces
    <3> QED
      BY <3>3, <3>4 DEF HasEntry
  <2>7. dropped' \in BOOLEAN
    BY <2>1 DEF LocksInv, TypeOK
  <2> QED
    BY <1>1, <1>2, <2>4, <2>5, <2>6, <2>7, EnterStep
<1> QED
  BY <1>3, <1>4

\* What Wake, Leave and Cancel change is one dispatch, whose lock stays or which
\* comes to rest.
LEMMA TaskStep ==
  ASSUME LocksInv, NEW t \in Tasks, NEW r \in Dispatches,
         task' = [task EXCEPT ![t] = r], UNCHANGED <<table, dropped>>,
         r.pc # "idle" => /\ task[t].pc # "idle"
                          /\ r.chat = task[t].chat /\ r.lock = task[t].lock,
         owner' \in [Objects -> Tasks \cup {NoTask}],
         queue' \in [Objects -> Seq(Tasks)],
         \A u \in Tasks : task'[u].pc = "inside" => owner'[task'[u].lock] = u
  PROVE  LocksInv'
<1>1. task' \in [Tasks -> Dispatches]
  BY DEF LocksInv, TypeOK
<1>2. ASSUME NEW u \in Tasks, task'[u].pc # "idle"
      PROVE  /\ task'[u].lock \in Objects
             /\ dropped' \/ HasEntry(table, u)'
  <2>1. /\ task[u].pc # "idle"
        /\ task'[u].chat = task[u].chat /\ task'[u].lock = task[u].lock
    BY <1>2 DEF LocksInv, TypeOK
  <2> QED
    BY <2>1 DEF LocksInv, HasEntry
<1> QED
  BY <1>1, <1>2 DEF LocksInv, TypeOK, TableBounded, Unique

LEMMA LocksStep == LocksInv /\ [Next]_vars => LocksInv'
<1> SUFFICES ASSUME LocksInv, [Next]_vars PROVE LocksInv'
  OBVIOUS
<1>1. ASSUME NEW t \in Tasks, Dispatch(t) PROVE LocksInv'
  BY <1>1, ReuseStep, CreateStep DEF Dispatch
<1>2. ASSUME NEW t \in Tasks, Wake(t) PROVE LocksInv'
  <2> DEFINE l == task[t].lock
             r == [task[t] EXCEPT !.pc = "inside"]
  <2>1. /\ task[t].pc = "waiting" /\ owner[l] = NoTask /\ Head(queue[l]) = t
        /\ task[t] \in Dispatches /\ l \in Objects
    BY <1>2 DEF Wake, Woken, LocksInv, TypeOK
  <2>2. r \in Dispatches /\ r.chat = task[t].chat /\ r.lock = l
    BY <2>1 DEF Dispatches
  <2>3. task' = [task EXCEPT ![t] = r] /\ UNCHANGED <<table, dropped>>
    BY <1>2 DEF Wake
  <2>4. owner' = [owner EXCEPT ![l] = t]
    BY <1>2 DEF Wake
  <2>5. owner' \in [Objects -> Tasks \cup {NoTask}]
    BY <2>4 DEF LocksInv, TypeOK
  <2>6. queue' \in [Objects -> Seq(Tasks)]
    <3>1. queue[l] \in Seq(Tasks) /\ queue[l] # <<>>
      BY <1>2, <2>1 DEF Wake, Woken, LocksInv, TypeOK
    <3>2. Tail(queue[l]) \in Seq(Tasks)
      BY <3>1
    <3>3. queue' = [queue EXCEPT ![l] = Tail(queue[l])]
      BY <1>2 DEF Wake
    <3> QED
      BY <3>2, <3>3 DEF LocksInv, TypeOK
  <2>7. \A u \in Tasks : task'[u].pc = "inside" => owner'[task'[u].lock] = u
    BY <2>1, <2>3, <2>4, LocksAssumption DEF LocksInv, TypeOK
  <2> HIDE DEF r
  <2> QED
    BY <2>1, <2>2, <2>3, <2>5, <2>6, <2>7, TaskStep
<1>3. ASSUME NEW t \in Tasks, Leave(t) PROVE LocksInv'
  <2>1. Resting \in Dispatches /\ Resting.pc = "idle"
    BY DEF Resting, Dispatches
  <2>2. task' = [task EXCEPT ![t] = Resting] /\ UNCHANGED <<table, dropped>>
    BY <1>3 DEF Leave
  <2>3. owner' = [owner EXCEPT ![task[t].lock] = NoTask] /\ task[t].pc = "inside"
    BY <1>3 DEF Leave
  <2>4. owner' \in [Objects -> Tasks \cup {NoTask}]
    BY <2>3 DEF LocksInv, TypeOK
  <2>5. queue' \in [Objects -> Seq(Tasks)]
    BY <1>3 DEF Leave, LocksInv, TypeOK
  <2>6. \A u \in Tasks : task'[u].pc = "inside" => owner'[task'[u].lock] = u
    BY <2>1, <2>2, <2>3 DEF LocksInv, TypeOK
  <2> QED
    BY <2>1, <2>2, <2>4, <2>5, <2>6, TaskStep
<1>4. ASSUME NEW t \in Tasks, Cancel(t) PROVE LocksInv'
  <2>1. Resting \in Dispatches /\ Resting.pc = "idle"
    BY DEF Resting, Dispatches
  <2>2. /\ task' = [task EXCEPT ![t] = Resting] /\ UNCHANGED <<table, dropped>>
        /\ owner' = owner
    BY <1>4 DEF Cancel
  <2>3. queue' \in [Objects -> Seq(Tasks)]
    <3> DEFINE q == queue[task[t].lock]
    <3>1. q \in Seq(Tasks)
      BY <1>4 DEF Cancel, LocksInv, TypeOK
    <3>2. Removed(q, t) \in Seq(Tasks)
      BY <3>1, CutType DEF Removed
    <3>3. queue' = [queue EXCEPT ![task[t].lock] = Removed(q, t)]
      BY <1>4 DEF Cancel
    <3> HIDE DEF q
    <3> QED
      BY <3>2, <3>3 DEF LocksInv, TypeOK
  <2>4. \A u \in Tasks : task'[u].pc = "inside" => owner'[task'[u].lock] = u
    BY <2>1, <2>2 DEF LocksInv, TypeOK
  <2>5. owner' \in [Objects -> Tasks \cup {NoTask}]
    BY <2>2 DEF LocksInv, TypeOK
  <2> QED
    BY <2>1, <2>2, <2>3, <2>4, <2>5, TaskStep
<1>5. CASE UNCHANGED vars
  BY <1>5 DEF vars, LocksInv, TypeOK, TableBounded, Unique, HasEntry
<1> QED
  BY <1>1, <1>2, <1>3, <1>4, <1>5 DEF Next

\* The lock of a dispatch is the one the table has for its thread.
THEOREM LocksHeld == Spec => []LocksInv
<1>1. Init => LocksInv
  <2> SUFFICES ASSUME Init PROVE LocksInv
    OBVIOUS
  <2>1. Resting \in Dispatches
    BY DEF Resting, Dispatches
  <2>2. TypeOK
    <3>1. /\ table \in Seq([chat : Chats, lock : Objects])
          /\ \A l \in Objects : queue[l] \in Seq(Tasks)
      BY DEF Init
    <3>2. /\ task \in [Tasks -> Dispatches]
          /\ owner \in [Objects -> Tasks \cup {NoTask}]
      BY <2>1 DEF Init
    <3> QED
      BY <3>1, <3>2 DEF Init, TypeOK
  <2>3. TableBounded /\ Unique(table)
    BY LocksAssumption DEF Init, TableBounded, Unique
  <2>4. \A t \in Tasks : task[t].pc = "idle"
    BY DEF Init, Resting
  <2> QED
    BY <2>2, <2>3, <2>4 DEF LocksInv
<1> QED
  BY <1>1, LocksStep, PTL DEF Spec

\* CHAT_LOCK_MAX_SIZE bounds the table, for any number of threads and dispatches.
THEOREM Bounded == Spec => []TableBounded
<1>1. LocksInv => TableBounded
  BY DEF LocksInv
<1> QED
  BY <1>1, LocksHeld, PTL

\* Two dispatches of one thread are never both past its lock, until the table
\* drops a lock in use: this holds for any number of them and any limit.
THEOREM Serialised == Spec => []SerialUntilDropped
<1>1. LocksInv => SerialUntilDropped
  <2> SUFFICES ASSUME LocksInv, ~dropped, NEW t \in Tasks, NEW u \in Tasks,
                      task[t].pc = "inside", task[u].pc = "inside",
                      task[t].chat = task[u].chat
               PROVE  t = u
    BY DEF SerialUntilDropped
  <2>1. PICK i \in 1..Len(table) :
          table[i].chat = task[t].chat /\ table[i].lock = task[t].lock
    BY DEF LocksInv, HasEntry
  <2>2. PICK j \in 1..Len(table) :
          table[j].chat = task[u].chat /\ table[j].lock = task[u].lock
    BY DEF LocksInv, HasEntry
  <2>3. i = j
    BY <2>1, <2>2 DEF LocksInv, Unique
  <2> QED
    BY <2>1, <2>2, <2>3 DEF LocksInv
<1> QED
  BY <1>1, LocksHeld, PTL
=============================================================================
