--------------------------- MODULE MessageBatches ---------------------------
(***************************************************************************)
(* How the admitted messages of one conversation thread reach Hermes       *)
(* (hermes_lark/adapter.py: _dispatch_inbound_event, the text and media    *)
(* batches, _handle_message_with_guards).  Texts and media that arrive in  *)
(* a burst are merged until a quiet period ends; everything but /stop then *)
(* passes the lock of its thread one by one.                               *)
(*                                                                         *)
(* All coroutines run on one event loop.  Each message is taken in by a    *)
(* coroutine of its own; a message that is stored in a batch starts a      *)
(* timer task, which a later one cancels.  A step is the code between two  *)
(* suspension points, so a lock that is free and that nobody waits for is  *)
(* taken in the step that asks for it.                                     *)
(***************************************************************************)
EXTENDS Integers, Sequences

CONSTANTS
  Msgs,          \* admitted messages of the thread
  Kinds,         \* what they are: "text", "media", "direct" or "stop"
  Contexts,      \* reply contexts; only messages of the same one are merged
  Sizes,         \* lengths of texts
  MaxCount,      \* _text_batch_max_messages
  MaxChars,      \* _text_batch_max_chars
  MayDisconnect  \* whether disconnect() may run

Keys == {"text", "media"}
Tasks == {"intake", "timer"} \X Msgs
NoMsg == "none"
NoTask == <<"none", NoMsg>>

ASSUME MessagesAssumption ==
  NoMsg \notin Msgs /\ Kinds \subseteq Keys \cup {"direct", "stop"}
ASSUME LimitsAssumption ==
  /\ Sizes \subseteq Nat
  /\ MaxCount \in Nat \ {0} /\ MaxChars \in Nat
  /\ MayDisconnect \in BOOLEAN

VARIABLES
  task,      \* what each coroutine is doing
  pending,   \* the batch being collected under each key
  timerOf,   \* the message whose timer task is registered under each key
  lock,      \* the task inside the thread's chat lock
  waiters,   \* the tasks waiting for it, in order
  handed,    \* history: how often each message was handed to Hermes
  closing    \* how far disconnect() is

vars == <<task, pending, timerOf, lock, waiters, handed, closing>>

NoBatch == [msgs |-> <<>>, ctx |-> "none", chars |-> 0]

\* pc "sleep": a timer that waits; "lock", "handling": dispatching batch;
\* store: the intake then stores its own event in place of the flushed one.
NewTask == [pc |-> "idle", key |-> "text", batch |-> NoBatch,
            own |-> NoBatch, store |-> FALSE]

Init ==
  /\ task = [t \in Tasks |-> NewTask]
  /\ pending = [k \in Keys |-> NoBatch]
  /\ timerOf = [k \in Keys |-> NoMsg]
  /\ lock = NoTask
  /\ waiters = <<>>
  /\ handed = [m \in Msgs |-> 0]
  /\ closing = "no"

-----------------------------------------------------------------------------
(* Tasks, and the chat lock they pass *)

Members(b) == {b.msgs[i] : i \in 1..Len(b.msgs)}

\* The task is over.
Ended(r) == [r EXCEPT !.pc = "done", !.batch = NoBatch, !.own = NoBatch,
                      !.store = FALSE]

\* The queue once t was cancelled: it waits in one place at most.
Without(q, t) ==
  LET k == CHOOSE i \in 1..Len(q) : q[i] = t
  IN  IF \E i \in 1..Len(q) : q[i] = t
      THEN [i \in 1..(Len(q) - 1) |-> IF i < k THEN q[i] ELSE q[i + 1]]
      ELSE q

\* The timer task of m is not over.
Live(f, m) == m # NoMsg /\ f[<<"timer", m>>].pc # "done"

\* Mutant of CancelledIn: the prior timer task goes on.
NotCancelled(f, m) == f

\* task.cancel(): whatever the task awaits is abandoned; async with and finally
\* release the lock.
CancelledIn(f, m) ==
  IF Live(f, m) THEN [f EXCEPT ![<<"timer", m>>] = Ended(@)] ELSE f

\* Handing a batch to Hermes.
Handed(b) ==
  handed' = [m \in Msgs |-> handed[m] + (IF m \in Members(b) THEN 1 ELSE 0)]

LockFree == lock = NoTask /\ waiters = <<>>

\* Mutant of Dispatch: the message is handled without the chat lock.
Unguarded(t, r, b) ==
  /\ task' = [task EXCEPT ![t] = [r EXCEPT !.pc = "handling", !.batch = b]]
  /\ Handed(b)
  /\ UNCHANGED <<lock, waiters>>

\* _handle_message_with_guards: t dispatches batch b of key k.
Dispatch(t, r, b) ==
  IF LockFree
  THEN /\ task' = [task EXCEPT ![t] = [r EXCEPT !.pc = "handling",
                                                !.batch = b]]
       /\ lock' = t
       /\ Handed(b)
       /\ UNCHANGED waiters
  ELSE /\ task' = [task EXCEPT ![t] = [r EXCEPT !.pc = "lock", !.batch = b]]
       /\ waiters' = Append(waiters, t)
       /\ UNCHANGED <<lock, handed>>

\* The first waiter of a released lock gets it.
Take(t) ==
  /\ task[t].pc = "lock"
  /\ lock = NoTask
  /\ waiters # <<>> /\ Head(waiters) = t
  /\ task' = [task EXCEPT ![t].pc = "handling"]
  /\ lock' = t
  /\ waiters' = Tail(waiters)
  /\ Handed(task[t].batch)
  /\ UNCHANGED <<pending, timerOf, closing>>

-----------------------------------------------------------------------------
(* _enqueue_text_event, _enqueue_media_event and the timers *)

Event(m, c, n) == [msgs |-> <<m>>, ctx |-> c, chars |-> n]

\* Mutant of Compatible: every event is merged.
AnyContext(b, c) == TRUE

Compatible(b, c) == b.ctx = c

\* Only texts have a limit.
Overflows(k, b, n) ==
  k = "text" /\ (Len(b.msgs) + 1 > MaxCount \/ b.chars + 1 + n > MaxChars)

Merged(b, e) == [b EXCEPT !.msgs = @ \o e.msgs, !.chars = @ + 1 + e.chars]

\* Mutant of Popped: the flushed batch stays pending.
Kept(p, k) == p

\* The batch leaves the buffer before it is dispatched.
Popped(p, k) == [p EXCEPT ![k] = NoBatch]

\* _reschedule_batch_task, called by the intake of m: the prior timer task is
\* cancelled if it is not done, even when it already dispatches its batch.
\* f, l, w: the tasks and the lock as the caller leaves them.
Reschedule(k, m, f, l, w) ==
  LET prior == <<"timer", timerOf[k]>>
      live == Live(f, timerOf[k])
  IN  /\ task' = [CancelledIn(f, timerOf[k]) EXCEPT
                    ![<<"timer", m>>] = [NewTask EXCEPT !.pc = "sleep",
                                                        !.key = k]]
      /\ timerOf' = [timerOf EXCEPT ![k] = m]
      /\ lock' = IF live /\ l = prior THEN NoTask ELSE l
      /\ waiters' = IF live THEN Without(w, prior) ELSE w

\* The intake of m finds a batch it cannot join, flushes it and then stores
\* its own event, or joins, or starts a batch.
Enqueue(m, k, e) ==
  LET b == pending[k]
      t == <<"intake", m>>
  IN  IF b # NoBatch /\ (~Compatible(b, e.ctx) \/ Overflows(k, b, e.chars))
      THEN /\ pending' = Popped(pending, k)
           /\ Dispatch(t, [NewTask EXCEPT !.key = k, !.own = e,
                                          !.store = TRUE], b)
           /\ UNCHANGED timerOf
      ELSE /\ pending' = [pending EXCEPT ![k] = IF b = NoBatch THEN e
                                                 ELSE Merged(b, e)]
           /\ Reschedule(k, m, [task EXCEPT ![t] = Ended(@)], lock, waiters)
           /\ UNCHANGED handed

Yielded == closing \notin {"media!", "reset!"}

\* _dispatch_inbound_event: a message is admitted and taken in.
Arrive(m) ==
  /\ Yielded
  /\ task[<<"intake", m>>].pc = "idle"
  /\ UNCHANGED closing
  /\ \E kind \in Kinds, c \in Contexts, n \in Sizes :
       LET e == Event(m, c, n)
       IN  \/ kind \in Keys /\ Enqueue(m, kind, e)
           \/ /\ kind = "direct"
              /\ Dispatch(<<"intake", m>>, NewTask, e)
              /\ UNCHANGED <<pending, timerOf>>
           \/ /\ kind = "stop"
              /\ task' = [task EXCEPT ![<<"intake", m>>] =
                            [NewTask EXCEPT !.pc = "stopping", !.batch = e]]
              /\ Handed(e)
              /\ UNCHANGED <<pending, timerOf, lock, waiters>>

\* Mutant of Unregistered: the timer task always empties the slot.
AlwaysUnregistered(m, k) == [timerOf EXCEPT ![k] = NoMsg]

\* finally: the timer task leaves the slot unless a newer one took it.
Unregistered(m, k) ==
  IF timerOf[k] = m THEN [timerOf EXCEPT ![k] = NoMsg] ELSE timerOf

\* The quiet period is over: _flush_text_batch_now, _flush_media_batch_now.
TimerFires(m) ==
  LET t == <<"timer", m>>
      k == task[t].key
  IN  /\ Yielded
      /\ task[t].pc = "sleep"
      /\ UNCHANGED closing
      /\ pending' = Popped(pending, k)
      /\ IF pending[k] = NoBatch
         THEN /\ task' = [task EXCEPT ![t] = Ended(@)]
              /\ timerOf' = Unregistered(m, k)
              /\ UNCHANGED <<lock, waiters, handed>>
         ELSE Dispatch(t, task[t], pending[k]) /\ UNCHANGED timerOf

\* handle_message returned: the lock is released, and an intake that flushed
\* stores its own event without looking at what was stored meanwhile.
Return(t) ==
  LET m == t[2]
      k == task[t].key
      f == [task EXCEPT ![t] = Ended(@)]
  IN  /\ Yielded
      /\ task[t].pc \in {"handling", "stopping"}
      /\ UNCHANGED <<handed, closing>>
      /\ LET l == IF lock = t THEN NoTask ELSE lock
         IN  IF task[t].store
             THEN /\ pending' = [pending EXCEPT ![k] = task[t].own]
                  /\ Reschedule(k, m, f, l, waiters)
             ELSE /\ task' = f
                  /\ lock' = l
                  /\ timerOf' = IF t[1] = "timer" THEN Unregistered(m, k)
                                ELSE timerOf
                  /\ UNCHANGED <<pending, waiters>>

-----------------------------------------------------------------------------
(* disconnect(): _cancel_pending_tasks for texts and for media, each of which
   waits for the tasks it cancelled, then _reset_batch_buffers.            *)

CancelTimer(k) ==
  LET prior == <<"timer", timerOf[k]>>
      live == Live(task, timerOf[k])
  IN  /\ task' = CancelledIn(task, timerOf[k])
      /\ lock' = IF live /\ lock = prior THEN NoTask ELSE lock
      /\ waiters' = IF live THEN Without(waiters, prior) ELSE waiters

Disconnect ==
  /\ MayDisconnect /\ closing = "no"
  /\ CancelTimer("text")
  /\ closing' = IF Live(task, timerOf["text"]) THEN "media" ELSE "media!"
  /\ UNCHANGED <<pending, timerOf, handed>>

\* OAuth tasks, if there are any, are awaited before the buffers are reset.
DisconnectMedia ==
  /\ closing \in {"media", "media!"}
  /\ timerOf' = [timerOf EXCEPT !["text"] = NoMsg]
  /\ CancelTimer("media")
  /\ \/ closing' = "reset"
     \/ ~Live(task, timerOf["media"]) /\ closing' = "reset!"
  /\ UNCHANGED <<pending, handed>>

DisconnectReset ==
  /\ closing \in {"reset", "reset!"}
  /\ timerOf' = [timerOf EXCEPT !["media"] = NoMsg]
  /\ pending' = [k \in Keys |-> NoBatch]
  /\ closing' = "done"
  /\ UNCHANGED <<task, lock, waiters, handed>>

-----------------------------------------------------------------------------

Idle == \A t \in Tasks : task[t].pc \in {"idle", "done"}
AllIn == \A m \in Msgs : task[<<"intake", m>>].pc # "idle"

\* Every message was taken in and nothing is left to do: not a deadlock.
Done == Idle /\ AllIn /\ UNCHANGED vars

Step(t) == (Yielded /\ Take(t)) \/ Return(t)

Next ==
  \/ \E m \in Msgs : Arrive(m) \/ TimerFires(m)
  \/ \E t \in Tasks : Step(t)
  \/ Disconnect \/ DisconnectMedia \/ DisconnectReset
  \/ Done

Spec == Init /\ [][Next]_vars

FairSpec ==
  /\ Spec
  /\ \A m \in Msgs : WF_vars(TimerFires(m))
  /\ \A t \in Tasks : WF_vars(Step(t))
  /\ WF_vars(DisconnectMedia) /\ WF_vars(DisconnectReset)

-----------------------------------------------------------------------------
(* Properties *)

Batches ==
  [msgs : Seq(Msgs), ctx : Contexts \cup {"none"}, chars : Nat]
TaskRecords ==
  [pc : {"idle", "sleep", "lock", "handling", "stopping", "done"},
   key : Keys, batch : Batches, own : Batches, store : BOOLEAN]

\* Every variable has its type.
TypeOK ==
  /\ task \in [Tasks -> TaskRecords]
  /\ pending \in [Keys -> Batches]
  /\ timerOf \in [Keys -> Msgs \cup {NoMsg}]
  /\ lock \in Tasks \cup {NoTask}
  /\ waiters \in Seq(Tasks)
  /\ handed \in [Msgs -> Nat]
  /\ closing \in {"no", "media", "media!", "reset", "reset!", "done"}

\* Messages of one thread are handled one at a time, /stop excepted, whatever
\* timer tasks are cancelled while they wait for the lock or hold it.
Serial ==
  \A t, u \in Tasks :
    task[t].pc = "handling" /\ task[u].pc = "handling" => t = u

\* No message is handed to Hermes twice.
HandedOnce == \A m \in Msgs : handed[m] <= 1

Asleep(m, k) ==
  task[<<"timer", m>>].pc = "sleep" /\ task[<<"timer", m>>].key = k

\* A batch that is being collected will be flushed: the timer registered for it
\* sleeps (disconnect() cancels the timers first and drops the batches last).
PendingHasTimer ==
  closing \in {"no", "done"} =>
    \A k \in Keys : pending[k] # NoBatch =>
      timerOf[k] # NoMsg /\ Asleep(timerOf[k], k)

\* The registered timer task is the only one of its key that is not over, so
\* that cancelling it leaves none behind.
TimersRegistered ==
  closing = "no" =>
    \A m \in Msgs :
      task[<<"timer", m>>].pc \notin {"idle", "done"}
        => timerOf[task[<<"timer", m>>].key] = m

\* Once everything is over, each message taken in was handed to Hermes.
NothingLost ==
  Idle /\ closing = "no" =>
    \A m \in Msgs : task[<<"intake", m>>].pc = "done" => handed[m] > 0

\* A message does not stay in the adapter for ever.
Held(m) ==
  \/ \E k \in Keys : m \in Members(pending[k])
  \/ \E t \in Tasks : m \in Members(task[t].batch) \cup Members(task[t].own)
NothingStuck == \A m \in Msgs : Held(m) ~> ~Held(m)
=============================================================================
