---------------------------- MODULE InboundQueue ----------------------------
(***************************************************************************)
(* How events cross from the SDK's threads to the adapter's event loop     *)
(* (hermes_lark/adapter.py: _on_message_event and the pending queue).      *)
(* While the loop takes no callbacks an event is queued, and one drainer   *)
(* thread polls until it can replay the queue.                             *)
(*                                                                         *)
(* The parties are real threads: a step is what they do between two        *)
(* accesses of shared state, and what is done under _pending_inbound_lock  *)
(* is one step.                                                            *)
(***************************************************************************)
EXTENDS Integers, Sequences, FiniteSets

CONSTANTS
  Threads,    \* SDK threads that deliver events
  Events,     \* events that Feishu delivers
  Drainers,   \* drainer threads, reused when they ended
  MaxDepth,   \* _pending_inbound_max_depth
  MaxPolls,   \* polls until the drainer gives up (max_wait_seconds)
  MaxLives    \* bound on connects, and with them on loops

NoEvent == "none"

ASSUME QueueAssumption ==
  /\ MaxDepth \in Nat \ {0} /\ MaxPolls \in Nat /\ MaxLives \in Nat
  /\ NoEvent \notin Events /\ Threads \cap Drainers = {}

VARIABLES
  running,    \* _running
  loop,       \* _loop: 0, or the number of an event loop
  closed,     \* the loops closed so far, 1..closed: one lives at a time
  pending,    \* _pending_inbound_events
  scheduled,  \* _pending_drain_scheduled
  callback,   \* what each SDK thread is doing
  drainer,    \* what each drainer thread is doing
  saw,        \* the loop that a thread submits to, in a local variable
  started,    \* history: events whose handler was put on the loop, in order
  queued,     \* history: events that were queued, in order
  fate,       \* history: whether an event came, and why it was dropped
  lives       \* connects so far

vars == <<running, loop, closed, pending, scheduled, callback, drainer, saw,
          started, queued, fate, lives>>

Resting == [pc |-> "idle", event |-> NoEvent]
Off == [pc |-> "off", batch |-> <<>>, requeue |-> <<>>, polls |-> 0]

Init ==
  /\ running = FALSE
  /\ loop = 0
  /\ closed = 0
  /\ pending = <<>>
  /\ scheduled = FALSE
  /\ callback = [t \in Threads |-> Resting]
  /\ drainer = [d \in Drainers |-> Off]
  /\ saw = [x \in Threads \cup Drainers |-> 0]
  /\ started = <<>>
  /\ queued = <<>>
  /\ fate = [e \in Events |-> "away"]
  /\ lives = 0

Items(q) == {q[i] : i \in 1..Len(q)}

\* _loop_accepts_callbacks, of _loop: it is set, and to the loop that lives.
Accepts == loop > closed

\* The loop that the thread x took was closed since.
Shut(x) == saw[x] <= closed

\* The events of q are dropped, with a line in the log.
Drop(q, why) ==
  fate' = [e \in Events |-> IF e \in Items(q) THEN why ELSE fate[e]]

-----------------------------------------------------------------------------
(* connect() and disconnect(); a loop may close under the adapter, and a    *)
(* later connect() then runs on a new one                                  *)

adapter == <<running, loop, closed, lives>>
queue == <<pending, scheduled, callback, drainer, saw, started, queued, fate>>

\* connect() takes the loop that it runs on.
Connect ==
  /\ ~Accepts /\ lives < MaxLives
  /\ loop' = closed + 1
  /\ lives' = lives + 1
  /\ UNCHANGED <<running, closed, queue>>

\* connect() goes on to _mark_connected.
MarkConnected ==
  /\ loop # 0 /\ ~running /\ running' = TRUE
  /\ UNCHANGED <<loop, closed, lives, queue>>

\* disconnect() first clears _running, and _loop once the SDK's thread ended or
\* was given up.
Disconnect ==
  /\ running
  /\ running' = FALSE
  /\ UNCHANGED <<loop, closed, lives, queue>>

Detach ==
  /\ loop # 0 /\ ~running
  /\ loop' = 0
  /\ UNCHANGED <<running, closed, lives, queue>>

LoopCloses ==
  /\ closed < lives
  /\ closed' = closed + 1
  /\ UNCHANGED <<running, loop, lives, queue>>

-----------------------------------------------------------------------------
(* _on_message_event, on an SDK thread *)

\* An event arrives once the SDK's client runs; the thread looks whether the
\* loop takes callbacks.
Deliver(t, e) ==
  /\ lives > 0
  /\ callback[t].pc = "idle"
  /\ fate[e] = "away"
  /\ fate' = [fate EXCEPT ![e] = "here"]
  /\ callback' = [callback EXCEPT ![t] =
                    [pc |-> IF Accepts THEN "submit" ELSE "enqueue",
                     event |-> e]]
  /\ saw' = [saw EXCEPT ![t] = IF Accepts THEN loop ELSE 0]
  /\ UNCHANGED <<adapter, pending, scheduled, drainer, started, queued>>

\* _submit_on_loop on the loop it saw: a loop that closed meanwhile takes
\* nothing, and the failure is only logged.
Submit(t) ==
  LET e == callback[t].event
  IN  /\ callback[t].pc = "submit"
      /\ IF Shut(t) THEN Drop(<<e>>, "closed") /\ UNCHANGED started
                    ELSE started' = Append(started, e) /\ UNCHANGED fate
      /\ callback' = [callback EXCEPT ![t] = Resting]
      /\ saw' = [saw EXCEPT ![t] = 0]
      /\ UNCHANGED <<adapter, pending, scheduled, drainer, queued>>

\* Mutant of StartsDrainer: every queued event starts a drainer.
AlwaysStarts == TRUE

StartsDrainer == ~scheduled

\* Mutant of Queued: the newest event goes first.
QueuedFirst(q, e) == <<e>> \o q

Queued(q, e) == Append(q, e)

\* _enqueue_pending_inbound_event
Enqueue(t) ==
  LET full == Len(pending) >= MaxDepth
  IN  /\ callback[t].pc = "enqueue"
      /\ pending' = Queued(IF full THEN Tail(pending) ELSE pending,
                           callback[t].event)
      /\ IF full THEN Drop(<<Head(pending)>>, "overflow") ELSE UNCHANGED fate
      /\ queued' = Append(queued, callback[t].event)
      /\ scheduled' = TRUE
      /\ callback' = [callback EXCEPT ![t] =
                        IF StartsDrainer
                        THEN [pc |-> "spawn", event |-> NoEvent] ELSE Resting]
      /\ UNCHANGED <<adapter, drainer, saw, started>>

Spawn(t) ==
  /\ callback[t].pc = "spawn"
  /\ \E d \in Drainers :
       /\ drainer[d].pc = "off"
       /\ drainer' = [drainer EXCEPT ![d].pc = "top"]
  /\ callback' = [callback EXCEPT ![t] = Resting]
  /\ UNCHANGED <<adapter, pending, scheduled, saw, started, queued, fate>>

-----------------------------------------------------------------------------
(* _drain_pending_inbound_events, on a drainer thread *)

At(d, p) == drainer[d].pc = p
Goto(d, p) == drainer' = [drainer EXCEPT ![d].pc = p]

\* The top of the loop reads _running ...
Top(d) ==
  /\ At(d, "top")
  /\ Goto(d, IF running THEN "look" ELSE "drop")
  /\ UNCHANGED <<adapter, pending, scheduled, callback, saw, started, queued,
                 fate>>

\* ... and then _loop.
Look(d) ==
  /\ At(d, "look")
  /\ Goto(d, CASE Accepts -> "grab"
               [] ~Accepts /\ drainer[d].polls < MaxPolls -> "sleep"
               [] OTHER -> "drop")
  /\ saw' = [saw EXCEPT ![d] = IF Accepts THEN loop ELSE 0]
  /\ UNCHANGED <<adapter, pending, scheduled, callback, started, queued, fate>>

\* The queue is dropped: the adapter shuts down or waited too long.
DropQueue(d) ==
  /\ At(d, "drop")
  /\ Drop(pending, "dropped")
  /\ pending' = <<>>
  /\ Goto(d, "final")
  /\ UNCHANGED <<adapter, scheduled, callback, saw, started, queued>>

\* Mutant of Waited: the polls are not counted.
Unwaited(n) == n

Waited(n) == n + 1

Sleep(d) ==
  /\ At(d, "sleep")
  /\ drainer' = [drainer EXCEPT ![d].pc = "top", ![d].polls = Waited(@)]
  /\ UNCHANGED <<adapter, pending, scheduled, callback, saw, started, queued,
                 fate>>

\* Mutant of Left: the grabbed events stay queued.
Copied == pending
Left == <<>>

Grab(d) ==
  /\ At(d, "grab")
  /\ pending' = Left
  /\ drainer' = [drainer EXCEPT ![d].batch = pending, ![d].pc =
                   IF pending = <<>> THEN "check" ELSE "replay"]
  /\ UNCHANGED <<adapter, scheduled, callback, saw, started, queued, fate>>

\* The next event of the batch is submitted, or kept for later.
Replay(d) ==
  /\ At(d, "replay") /\ drainer[d].batch # <<>>
  /\ LET e == Head(drainer[d].batch)
     IN  IF Shut(d)
         THEN /\ drainer' = [drainer EXCEPT ![d].batch = Tail(@),
                                         ![d].requeue = Append(@, e)]
              /\ UNCHANGED started
         ELSE /\ drainer' = [drainer EXCEPT ![d].batch = Tail(@)]
              /\ started' = Append(started, e)
  /\ UNCHANGED <<adapter, pending, scheduled, callback, saw, queued, fate>>

\* The batch is through; what failed goes back to the front of the queue.
Requeue(d) ==
  /\ At(d, "replay") /\ drainer[d].batch = <<>>
  /\ pending' = drainer[d].requeue \o pending
  /\ drainer' = [drainer EXCEPT ![d].requeue = <<>>, ![d].pc =
                   IF drainer[d].requeue = <<>> THEN "check" ELSE "top"]
  /\ saw' = [saw EXCEPT ![d] = 0]
  /\ UNCHANGED <<adapter, scheduled, callback, started, queued, fate>>

\* The last look at the queue: with nothing in it the thread returns.
Check(d) ==
  /\ At(d, "check")
  /\ Goto(d, IF pending = <<>> THEN "final" ELSE "top")
  /\ UNCHANGED <<adapter, pending, scheduled, callback, saw, started, queued,
                 fate>>

\* finally: _pending_drain_scheduled is cleared.
Final(d) ==
  /\ At(d, "final")
  /\ scheduled' = FALSE
  /\ drainer' = [drainer EXCEPT ![d] = Off]
  /\ saw' = [saw EXCEPT ![d] = 0]
  /\ UNCHANGED <<adapter, pending, callback, started, queued, fate>>

Drain(d) ==
  \/ Top(d) \/ Look(d) \/ DropQueue(d) \/ Sleep(d)
  \/ Grab(d) \/ Replay(d) \/ Requeue(d) \/ Check(d) \/ Final(d)

OnThread(t) == Submit(t) \/ Enqueue(t) \/ Spawn(t)

Quiet ==
  /\ \A t \in Threads : callback[t].pc = "idle"
  /\ \A d \in Drainers : drainer[d].pc = "off"

\* Nothing is left to do: not a deadlock.
Done == Quiet /\ UNCHANGED vars

Next ==
  \/ Connect \/ MarkConnected \/ Disconnect \/ Detach \/ LoopCloses
  \/ \E t \in Threads : OnThread(t) \/ \E e \in Events : Deliver(t, e)
  \/ \E d \in Drainers : Drain(d)
  \/ Done

Spec == Init /\ [][Next]_vars

FairSpec ==
  /\ Spec
  /\ \A t \in Threads : WF_vars(OnThread(t))
  /\ \A d \in Drainers : WF_vars(Drain(d))

-----------------------------------------------------------------------------
(* Properties *)

Callbacks ==
  [pc : {"idle", "spawn"}, event : {NoEvent}]
    \cup [pc : {"submit", "enqueue"}, event : Events]
DrainerSteps ==
  {"top", "look", "drop", "sleep", "grab", "replay", "check", "final"}
DrainerStates ==
  [pc : DrainerSteps \cup {"off"}, batch : Seq(Events), requeue : Seq(Events),
   polls : Nat]
Fates == {"away", "here", "closed", "overflow", "dropped"}

\* Every variable has its type.
TypeOK ==
  /\ running \in BOOLEAN /\ loop \in Nat /\ closed \in Nat
  /\ pending \in Seq(Events) /\ scheduled \in BOOLEAN
  /\ callback \in [Threads -> Callbacks]
  /\ drainer \in [Drainers -> DrainerStates]
  /\ saw \in [Threads \cup Drainers -> Nat]
  /\ started \in Seq(Events) /\ queued \in Seq(Events)
  /\ fate \in [Events -> Fates]
  /\ lives \in Nat

\* A single drainer handles the queue (_drain_pending_inbound_events), however
\* the SDK's threads and an ending drainer interleave.
OneDrainer ==
  \A c, d \in Drainers :
    drainer[c].pc # "off" /\ drainer[d].pc # "off" => c = d

Slots(q, e) == {i \in 1..Len(q) : q[i] = e}
Copies(e) ==
  Cardinality(Slots(pending, e)) + Cardinality(Slots(started, e))
    + Cardinality({t \in Threads : callback[t].event = e})
    + Cardinality(UNION {{d} \X Slots(drainer[d].batch, e) : d \in Drainers})
    + Cardinality(UNION {{d} \X Slots(drainer[d].requeue, e) : d \in Drainers})

\* An event that came is in one place, and in one only, until it is dropped
\* with a line in the log: none is handled twice, none vanishes.
Accounted ==
  \A e \in Events : Copies(e) = IF fate[e] = "here" THEN 1 ELSE 0

\* Queued events are replayed in the order they were queued in, also when some
\* come back because the loop closed under the drainer and are replayed on the
\* loop of a later connect().
ReplayedInOrder ==
  \A i, j \in 1..Len(queued) :
    i < j /\ fate[queued[i]] = "here" =>
      \A n \in Slots(started, queued[j]) :
        \E m \in Slots(started, queued[i]) : m < n

\* A drainer comes to its end: it polls for a bounded time.
DrainerEnds == \A d \in Drainers : drainer[d].pc # "off" ~> drainer[d].pc = "off"
=============================
