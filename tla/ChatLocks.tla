------------------------------ MODULE ChatLocks ------------------------------
(***************************************************************************)
(* The bounded table of chat locks (hermes_lark/adapter.py: _get_chat_lock *)
(* and its use in _handle_message_with_guards).  A dispatch looks up the   *)
(* lock of its thread, which may drop another thread's, and holds it while *)
(* Hermes handles the message.                                             *)
(*                                                                         *)
(* asyncio.Lock: a lock that is free and that nobody waits for is taken    *)
(* without suspending; release() only wakes the first waiter, and until    *)
(* that waiter runs the lock says it is not locked.                        *)
(***************************************************************************)
EXTENDS Integers, Sequences

CONSTANTS
  Tasks,     \* dispatches of messages (but of /stop, which takes no lock)
  Chats,     \* the threads they are for
  MaxLocks,  \* CHAT_LOCK_MAX_SIZE
  Objects    \* identities for lock objects, reused when nothing refers to them

NoTask == "none"
NoObject == "none"

ASSUME LocksAssumption ==
  MaxLocks \in Nat \ {0} /\ NoTask \notin Tasks /\ NoObject \notin Objects

VARIABLES
  table,   \* _chat_locks, least recently used first: thread and lock
  owner,   \* who holds each lock object
  queue,   \* who waits for it, in order
  task,    \* each dispatch: where it is, its thread and its lock
  dropped  \* history: a lock that was held or waited for left the table

vars == <<table, owner, queue, task, dropped>>

Resting == [pc |-> "idle", chat |-> NoObject, lock |-> NoObject]

Init ==
  /\ table = <<>>
  /\ owner = [l \in Objects |-> NoTask]
  /\ queue = [l \in Objects |-> <<>>]
  /\ task = [t \in Tasks |-> Resting]
  /\ dropped = FALSE

-----------------------------------------------------------------------------

Entries == 1..Len(table)

\* Mutant of Known: the table is never looked at.
NeverKnown(c) == FALSE

Known(c) == \E i \in Entries : table[i].chat = c
Entry(c) == CHOOSE i \in Entries : table[i].chat = c

InTable(l) == \E i \in Entries : table[i].lock = l
Used(l) == \E t \in Tasks : task[t].lock = l

\* q without its element i.
Cut(q, i) == [j \in 1..(Len(q) - 1) |-> IF j < i THEN q[j] ELSE q[j + 1]]

TableWithout(i) == Cut(table, i)

Idle(i) == owner[table[i].lock] = NoTask

\* The least recently used lock that is not held; the least recently used when
\* every one is held.
Victims ==
  {i \in Entries : Idle(i) /\ \A j \in 1..(i - 1) : ~Idle(j)}
    \cup {i \in {1} : \A j \in Entries : ~Idle(j)}

\* async with: t takes the lock at once, or waits for it.
Enter(t, c, l) ==
  IF owner[l] = NoTask /\ queue[l] = <<>>
  THEN /\ owner' = [owner EXCEPT ![l] = t]
       /\ task' = [task EXCEPT ![t] = [pc |-> "inside", chat |-> c, lock |-> l]]
       /\ UNCHANGED queue
  ELSE /\ queue' = [queue EXCEPT ![l] = Append(@, t)]
       /\ task' = [task EXCEPT ![t] = [pc |-> "waiting", chat |-> c, lock |-> l]]
       /\ UNCHANGED owner

\* _get_chat_lock for a thread in the table.
Reuse(t, c) ==
  /\ task[t].pc = "idle" /\ Known(c)
  /\ LET e == table[Entry(c)]
     IN  /\ table' = Append(TableWithout(Entry(c)), e)
         /\ Enter(t, c, e.lock)
  /\ UNCHANGED dropped

\* Mutant of Full: the table grows one too large.
Overfull == Len(table) > MaxLocks

Full == Len(table) >= MaxLocks

\* _get_chat_lock for a new thread; a full table loses an entry.
Create(t, c, l) ==
  /\ task[t].pc = "idle" /\ ~Known(c)
  /\ ~InTable(l) /\ ~Used(l)
  /\ \/ /\ ~Full
        /\ table' = Append(table, [chat |-> c, lock |-> l])
        /\ UNCHANGED dropped
     \/ /\ Full
        /\ \E i \in Victims :
             /\ table' = Append(TableWithout(i), [chat |-> c, lock |-> l])
             /\ dropped' = (dropped \/ Used(table[i].lock))
  /\ Enter(t, c, l)

Woken(t) ==
  LET l == task[t].lock
  IN  /\ task[t].pc = "waiting" /\ owner[l] = NoTask
      /\ queue[l] # <<>> /\ Head(queue[l]) = t

\* The first waiter runs and takes the lock.
Wake(t) ==
  LET l == task[t].lock
  IN  /\ Woken(t)
      /\ owner' = [owner EXCEPT ![l] = t]
      /\ queue' = [queue EXCEPT ![l] = Tail(@)]
      /\ task' = [task EXCEPT ![t].pc = "inside"]
      /\ UNCHANGED <<table, dropped>>

\* Mutant of Leave: the lock is not released.
Keeps(t) ==
  /\ task[t].pc = "inside"
  /\ task' = [task EXCEPT ![t] = Resting]
  /\ UNCHANGED <<table, owner, queue, dropped>>

\* Hermes handled the message, or the dispatch was cancelled inside.
Leave(t) ==
  /\ task[t].pc = "inside"
  /\ owner' = [owner EXCEPT ![task[t].lock] = NoTask]
  /\ task' = [task EXCEPT ![t] = Resting]
  /\ UNCHANGED <<table, queue, dropped>>

Removed(q, t) ==
  IF \E i \in 1..Len(q) : q[i] = t
  THEN Cut(q, CHOOSE i \in 1..Len(q) : q[i] = t) ELSE q

\* The batcher cancels a dispatch that waits.
Cancel(t) ==
  /\ task[t].pc = "waiting"
  /\ queue' = [queue EXCEPT ![task[t].lock] = Removed(@, t)]
  /\ task' = [task EXCEPT ![t] = Resting]
  /\ UNCHANGED <<table, owner, dropped>>

Dispatch(t) ==
  \E c \in Chats : Reuse(t, c) \/ \E l \in Objects : Create(t, c, l)

Next == \E t \in Tasks : Dispatch(t) \/ Wake(t) \/ Leave(t) \/ Cancel(t)

Spec == Init /\ [][Next]_vars
FairSpec == Spec /\ \A t \in Tasks : WF_vars(Wake(t)) /\ WF_vars(Leave(t))

-----------------------------------------------------------------------------
(* Properties *)

Dispatches == [pc : {"idle", "inside", "waiting"}, chat : Chats \cup {NoObject},
               lock : Objects \cup {NoObject}]

\* Every variable has its type.
TypeOK ==
  /\ table \in Seq([chat : Chats, lock : Objects])
  /\ owner \in [Objects -> Tasks \cup {NoTask}]
  /\ queue \in [Objects -> Seq(Tasks)]
  /\ task \in [Tasks -> Dispatches]
  /\ dropped \in BOOLEAN

\* Messages of one thread are handled one at a time, as long as no lock in use
\* was dropped from the table.
SerialUntilDropped ==
  \/ dropped
  \/ \A t, u \in Tasks :
       /\ task[t].pc = "inside" /\ task[u].pc = "inside"
       /\ task[t].chat = task[u].chat
       => t = u

\* The locks are bounded, whatever threads come.
TableBounded == Len(table) <= MaxLocks

\* Who waits for a chat lock gets it (or is cancelled): no wake-up is lost.
WaitersServed == \A t \in Tasks : task[t].pc = "waiting" ~> task[t].pc # "waiting"
=============================================================================
