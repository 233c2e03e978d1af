------------------------- MODULE InboundQueueProofs -------------------------
(***************************************************************************)
(* Proofs about InboundQueue.  The right to drain the queue is a token: it *)
(* exists while scheduled is true, and it is with the SDK thread that set  *)
(* scheduled and has not started the drainer yet, or with the drainer.     *)
(***************************************************************************)
EXTENDS InboundQueue, FiniteSetTheorems, TLAPS

Spawning(t) == callback[t].pc = "spawn"
Draining(d) == drainer[d].pc # "off"

\* There is at most one token, and none while scheduled is false.
Token ==
  /\ \A t, u \in Threads : Spawning(t) /\ Spawning(u) => t = u
  /\ OneDrainer
  /\ \A t \in Threads, d \in Drainers : ~(Spawning(t) /\ Draining(d))
  /\ ~scheduled => /\ \A t \in Threads : ~Spawning(t)
                   /\ \A d \in Drainers : ~Draining(d)

-----------------------------------------------------------------------------
(* Types *)

\* A drop leaves the fates well typed.
LEMMA DropType ==
  ASSUME fate \in [Events -> Fates], NEW q,
         NEW why \in {"closed", "overflow", "dropped"}, Drop(q, why)
  PROVE  fate' \in [Events -> Fates]
BY DEF Drop, Fates

\* A new record of a drainer that is well typed keeps the drainers well typed.
LEMMA DrainerType ==
  ASSUME drainer \in [Drainers -> DrainerStates], NEW d \in Drainers,
         NEW r \in DrainerStates, drainer' = [drainer EXCEPT ![d] = r]
  PROVE  drainer' \in [Drainers -> DrainerStates]
OBVIOUS

\* The same when the drainer only goes to another step.
LEMMA GotoType ==
  ASSUME drainer \in [Drainers -> DrainerStates], NEW d \in Drainers,
         NEW p \in DrainerSteps, drainer' = [drainer EXCEPT ![d].pc = p]
  PROVE  drainer' \in [Drainers -> DrainerStates]
<1>1. [drainer[d] EXCEPT !.pc = p] \in DrainerStates
  BY DEF DrainerStates
<1>2. drainer' = [drainer EXCEPT ![d] = [drainer[d] EXCEPT !.pc = p]]
  OBVIOUS
<1> QED
  BY <1>1, <1>2, DrainerType

\* And for what an SDK thread does.
LEMMA CallbackType ==
  ASSUME callback \in [Threads -> Callbacks], NEW t \in Threads,
         NEW r \in Callbacks, callback' = [callback EXCEPT ![t] = r]
  PROVE  callback' \in [Threads -> Callbacks]
OBVIOUS

\* What an SDK thread carries while it delivers is an event.
LEMMA Carried ==
  ASSUME callback \in [Threads -> Callbacks], NEW t \in Threads,
         callback[t].pc \in {"submit", "enqueue"}
  PROVE  callback[t].event \in Events
<1>1. callback[t] \in Callbacks
  OBVIOUS
<1> QED
  BY <1>1 DEF Callbacks

\* The records that the steps give an SDK thread.
LEMMA CallbackRecords ==
  /\ Resting \in Callbacks
  /\ [pc |-> "spawn", event |-> NoEvent] \in Callbacks
  /\ \A e \in Events : /\ [pc |-> "submit", event |-> e] \in Callbacks
                       /\ [pc |-> "enqueue", event |-> e] \in Callbacks
BY DEF Callbacks, Resting

\* The queue starts well typed.
LEMMA TypeInit == Init => TypeOK
<1> SUFFICES ASSUME Init PROVE TypeOK
  OBVIOUS
<1>1. Off \in DrainerStates
  BY DEF Off, DrainerStates
<1>2. callback \in [Threads -> Callbacks] /\ drainer \in [Drainers -> DrainerStates]
  BY <1>1, CallbackRecords DEF Init
<1>3. fate \in [Events -> Fates]
  BY DEF Init, Fates
<1>4. pending \in Seq(Events) /\ started \in Seq(Events) /\ queued \in Seq(Events)
  BY DEF Init
<1> QED
  BY <1>2, <1>3, <1>4 DEF Init, TypeOK

\* Every step keeps every variable in its type.
LEMMA TypeStep == TypeOK /\ [Next]_vars => TypeOK'
<1> SUFFICES ASSUME TypeOK, [Next]_vars PROVE TypeOK'
  OBVIOUS
<1> USE QueueAssumption
<1>1. CASE Connect \/ MarkConnected \/ Disconnect \/ Detach \/ LoopCloses
  <2>1. UNCHANGED queue
    BY <1>1 DEF Connect, MarkConnected, Disconnect, Detach, LoopCloses
  <2>2. /\ running' \in BOOLEAN /\ loop' \in Nat
        /\ closed' \in Nat /\ lives' \in Nat
    <3> USE DEF TypeOK
    <3>1. CASE Connect
      <4>1. lives' = lives + 1 /\ loop' = closed + 1
        BY <3>1 DEF Connect
      <4>2. running' = running /\ closed' = closed
        BY <3>1 DEF Connect
      <4> QED
        BY <4>1, <4>2
    <3>2. CASE MarkConnected
      BY <3>2 DEF MarkConnected
    <3>3. CASE Disconnect
      BY <3>3 DEF Disconnect
    <3>4. CASE Detach
      BY <3>4 DEF Detach
    <3>5. CASE LoopCloses
      BY <3>5 DEF LoopCloses
    <3> QED
      BY <1>1, <3>1, <3>2, <3>3, <3>4, <3>5
  <2> QED
    BY <2>1, <2>2 DEF TypeOK, queue
<1>2. ASSUME NEW t \in Threads, NEW e \in Events, Deliver(t, e) PROVE TypeOK'
  <2>1. callback' \in [Threads -> Callbacks]
    <3> DEFINE r == [pc |-> IF Accepts THEN "submit" ELSE "enqueue", event |-> e]
    <3>1. r \in Callbacks
      BY CallbackRecords
    <3> QED
      BY <1>2, <3>1, CallbackType DEF Deliver, TypeOK
  <2>2. fate' \in [Events -> Fates]
    BY <1>2 DEF Deliver, TypeOK, Fates
  <2> QED
    BY <1>2, <2>1, <2>2 DEF TypeOK, Deliver, adapter
<1>3. ASSUME NEW t \in Threads, Submit(t) PROVE TypeOK'
  <2>1. callback[t].event \in Events
    BY <1>3, Carried DEF TypeOK, Submit
  <2>2. callback' \in [Threads -> Callbacks]
    BY <1>3, CallbackRecords, CallbackType DEF Submit, TypeOK
  <2>3. CASE Shut(t)
    <3>1. fate' \in [Events -> Fates]
      BY <1>3, <2>3, DropType DEF Submit, TypeOK
    <3> QED
      BY <1>3, <2>2, <2>3, <3>1 DEF TypeOK, Submit, adapter
  <2>4. CASE ~Shut(t)
    <3>1. started' \in Seq(Events)
      <4>1. started' = Append(started, callback[t].event)
        BY <1>3, <2>4 DEF Submit
      <4>2. started \in Seq(Events)
        BY DEF TypeOK
      <4> QED
        BY <2>1, <4>1, <4>2
    <3> QED
      BY <1>3, <2>2, <2>4, <3>1 DEF TypeOK, Submit, adapter
  <2> QED
    BY <2>3, <2>4
<1>4. ASSUME NEW t \in Threads, Enqueue(t) PROVE TypeOK'
  <2>1. callback[t].event \in Events
    BY <1>4, Carried DEF TypeOK, Enqueue
  <2>2. callback' \in [Threads -> Callbacks]
    BY <1>4, CallbackRecords, CallbackType DEF Enqueue, TypeOK
  <2>3. /\ pending' \in Seq(Events)
        /\ queued' \in Seq(Events)
    BY <1>4, <2>1 DEF Enqueue, Queued, TypeOK
  <2>4. fate' \in [Events -> Fates]
    BY <1>4, DropType DEF Enqueue, TypeOK
  <2> QED
    BY <1>4, <2>2, <2>3, <2>4 DEF TypeOK, Enqueue, adapter
<1>5. ASSUME NEW t \in Threads, Spawn(t) PROVE TypeOK'
  <2>1. callback' \in [Threads -> Callbacks]
    BY <1>5, CallbackRecords, CallbackType DEF Spawn, TypeOK
  <2>2. drainer' \in [Drainers -> DrainerStates]
    BY <1>5, GotoType DEF Spawn, TypeOK, DrainerSteps
  <2> QED
    BY <1>5, <2>1, <2>2 DEF TypeOK, Spawn, adapter
<1>6. ASSUME NEW d \in Drainers, Top(d) \/ Look(d) \/ Check(d) PROVE TypeOK'
  <2>1. drainer' \in [Drainers -> DrainerStates]
    BY <1>6, GotoType DEF Top, Look, Check, Goto, TypeOK, DrainerSteps
  <2>2. saw' \in [Threads \cup Drainers -> Nat]
    <3>1. CASE Look(d)
      <4>1. (IF Accepts THEN loop ELSE 0) \in Nat
        BY DEF TypeOK
      <4> QED
        BY <3>1, <4>1 DEF TypeOK, Look
    <3>2. CASE Top(d) \/ Check(d)
      BY <3>2 DEF TypeOK, Top, Check
    <3> QED
      BY <1>6, <3>1, <3>2
  <2> QED
    BY <1>6, <2>1, <2>2 DEF TypeOK, Top, Look, Check, adapter
<1>7. ASSUME NEW d \in Drainers, DropQueue(d) PROVE TypeOK'
  <2>1. drainer' \in [Drainers -> DrainerStates]
    BY <1>7, GotoType DEF DropQueue, Goto, TypeOK, DrainerSteps
  <2>2. fate' \in [Events -> Fates]
    BY <1>7, DropType DEF DropQueue, TypeOK
  <2> QED
    BY <1>7, <2>1, <2>2 DEF TypeOK, DropQueue, adapter
<1>8. ASSUME NEW d \in Drainers, Sleep(d) PROVE TypeOK'
  <2> DEFINE r == drainer[d]
  <2>1. r \in DrainerStates /\ r.polls \in Nat
    BY DEF TypeOK, DrainerStates
  <2>2. [r EXCEPT !.pc = "top", !.polls = r.polls + 1] \in DrainerStates
    <3> HIDE DEF r
    <3>1. r.polls + 1 \in Nat /\ "top" \in DrainerSteps
      BY <2>1 DEF DrainerSteps
    <3> QED
      BY <2>1, <3>1 DEF DrainerStates
  <2>3. drainer' = [drainer EXCEPT ![d] =
                      [r EXCEPT !.pc = "top", !.polls = r.polls + 1]]
    BY <1>8 DEF Sleep, Waited, TypeOK
  <2>4. drainer' \in [Drainers -> DrainerStates]
    BY <2>2, <2>3, DrainerType DEF TypeOK
  <2> QED
    BY <1>8, <2>4 DEF TypeOK, Sleep, adapter
<1>9. ASSUME NEW d \in Drainers, Grab(d) PROVE TypeOK'
  <2> DEFINE r == drainer[d]
             p == IF pending = <<>> THEN "check" ELSE "replay"
  <2>1. r \in DrainerStates /\ p \in DrainerSteps
    BY DEF TypeOK, DrainerSteps
  <2>2. [r EXCEPT !.batch = pending, !.pc = p] \in DrainerStates
    BY <2>1 DEF DrainerStates, TypeOK
  <2>3. drainer' = [drainer EXCEPT ![d] = [r EXCEPT !.batch = pending, !.pc = p]]
    BY <1>9 DEF Grab, TypeOK
  <2>4. drainer' \in [Drainers -> DrainerStates]
    BY <2>2, <2>3, DrainerType DEF TypeOK
  <2> QED
    BY <1>9, <2>4 DEF TypeOK, Grab, Left, adapter
<1>10. ASSUME NEW d \in Drainers, Replay(d) PROVE TypeOK'
  <2> DEFINE r == drainer[d]
             back == [r EXCEPT !.batch = Tail(r.batch),
                               !.requeue = Append(r.requeue, Head(r.batch))]
             on == [r EXCEPT !.batch = Tail(r.batch)]
  <2>1. /\ r \in DrainerStates /\ r.batch \in Seq(Events)
        /\ r.requeue \in Seq(Events) /\ r.batch # <<>>
    BY <1>10 DEF TypeOK, Replay, DrainerStates
  <2>2. Head(r.batch) \in Events /\ Tail(r.batch) \in Seq(Events)
    BY <2>1
  <2>3. Append(r.requeue, Head(r.batch)) \in Seq(Events)
    BY <2>1, <2>2
  <2>4. back \in DrainerStates
    BY <2>1, <2>2, <2>3 DEF DrainerStates
  <2>5. on \in DrainerStates
    BY <2>1, <2>2 DEF DrainerStates
  <2>6. CASE Shut(d)
    <3>1. drainer' = [drainer EXCEPT ![d] = back]
      BY <1>10, <2>6 DEF Replay, TypeOK
    <3>2. started' = started
      BY <1>10, <2>6 DEF Replay
    <3>3. drainer' \in [Drainers -> DrainerStates]
      BY <2>4, <3>1, DrainerType DEF TypeOK
    <3> QED
      BY <1>10, <3>2, <3>3 DEF TypeOK, Replay, adapter
  <2>7. CASE ~Shut(d)
    <3>1. drainer' = [drainer EXCEPT ![d] = on]
      BY <1>10, <2>7 DEF Replay, TypeOK
    <3>2. started' \in Seq(Events)
      <4>1. started' = Append(started, Head(r.batch))
        BY <1>10, <2>7 DEF Replay
      <4>2. started \in Seq(Events)
        BY DEF TypeOK
      <4> QED
        BY <2>2, <4>1, <4>2
    <3>3. drainer' \in [Drainers -> DrainerStates]
      BY <2>5, <3>1, DrainerType DEF TypeOK
    <3> QED
      BY <1>10, <3>2, <3>3 DEF TypeOK, Replay, adapter
  <2> QED
    BY <2>6, <2>7
<1>11. ASSUME NEW d \in Drainers, Requeue(d) PROVE TypeOK'
  <2> DEFINE r == drainer[d]
             p == IF r.requeue = <<>> THEN "check" ELSE "top"
  <2>1. r \in DrainerStates /\ r.requeue \in Seq(Events) /\ p \in DrainerSteps
    BY DEF TypeOK, DrainerStates, DrainerSteps
  <2>2. <<>> \in Seq(Events)
    OBVIOUS
  <2>3. [r EXCEPT !.requeue = <<>>, !.pc = p] \in DrainerStates
    BY <2>1, <2>2 DEF DrainerStates
  <2>4. drainer' = [drainer EXCEPT ![d] = [r EXCEPT !.requeue = <<>>, !.pc = p]]
    BY <1>11 DEF Requeue, TypeOK
  <2>5. pending' \in Seq(Events)
    BY <1>11, <2>1 DEF Requeue, TypeOK
  <2>6. drainer' \in [Drainers -> DrainerStates]
    BY <2>3, <2>4, DrainerType DEF TypeOK
  <2> QED
    BY <1>11, <2>5, <2>6 DEF TypeOK, Requeue, adapter
<1>12. ASSUME NEW d \in Drainers, Final(d) PROVE TypeOK'
  <2>1. Off \in DrainerStates
    BY DEF Off, DrainerStates
  <2>2. drainer' \in [Drainers -> DrainerStates]
    BY <1>12, <2>1, DrainerType DEF TypeOK, Final
  <2> QED
    BY <1>12, <2>2 DEF TypeOK, Final, adapter
<1>13. CASE Done \/ UNCHANGED vars
  BY <1>13 DEF TypeOK, Done, vars
<1> QED
  BY <1>1, <1>2, <1>3, <1>4, <1>5, <1>6, <1>7, <1>8, <1>9, <1>10, <1>11, <1>12,
     <1>13 DEF Next, OnThread, Drain

\* Every variable of the pending queue has its type, for any number of SDK
\* threads, events and connects.
THEOREM QueueTypes == Spec => []TypeOK
<1> QED
  BY TypeInit, TypeStep, PTL DEF Spec

-----------------------------------------------------------------------------
(* One drainer *)

\* Steps that change neither who spawns, nor who drains, nor scheduled.
LEMMA TokenKept ==
  ASSUME Token, scheduled' = scheduled,
         \A t \in Threads : Spawning(t)' <=> Spawning(t),
         \A d \in Drainers : Draining(d)' <=> Draining(d)
  PROVE  Token'
BY DEF Token, OneDrainer, Draining

\* Every step passes the token on, creates it when there is none, or ends it.
LEMMA TokenStep == TypeOK /\ Token /\ [Next]_vars => Token'
<1> SUFFICES ASSUME TypeOK, Token, [Next]_vars PROVE Token'
  OBVIOUS
<1>1. CASE Connect \/ MarkConnected \/ Disconnect \/ Detach \/ LoopCloses
  BY <1>1, TokenKept DEF Connect, MarkConnected, Disconnect, Detach, LoopCloses,
                         queue, Spawning, Draining
<1>2. ASSUME NEW t \in Threads, NEW e \in Events, Deliver(t, e) PROVE Token'
  BY <1>2, TokenKept DEF TypeOK, Deliver, Spawning, Draining
<1>3. ASSUME NEW t \in Threads, Submit(t) PROVE Token'
  BY <1>3, TokenKept DEF TypeOK, Submit, Resting, Spawning, Draining
<1>4. ASSUME NEW t \in Threads, Enqueue(t) PROVE Token'
  <2>1. \A d \in Drainers : Draining(d)' <=> Draining(d)
    BY <1>4 DEF Enqueue, Draining
  <2>2. \A u \in Threads \ {t} : Spawning(u)' <=> Spawning(u)
    BY <1>4 DEF Enqueue, Spawning, TypeOK
  <2>3. scheduled' = TRUE
    BY <1>4 DEF Enqueue
  <2>4. Spawning(t)' => ~scheduled
    BY <1>4 DEF Enqueue, Spawning, StartsDrainer, Resting, TypeOK
  <2> QED
    BY <2>1, <2>2, <2>3, <2>4 DEF Token, OneDrainer, Draining
<1>5. ASSUME NEW t \in Threads, Spawn(t) PROVE Token'
  <2>1. Spawning(t) /\ scheduled' = scheduled
    BY <1>5 DEF Spawn, Spawning
  <2>2. \A u \in Threads : ~Spawning(u)'
    BY <1>5, <2>1 DEF Spawn, Spawning, Resting, TypeOK, Token
  <2>3. PICK d \in Drainers : drainer' = [drainer EXCEPT ![d].pc = "top"]
    BY <1>5 DEF Spawn
  <2>4. \A c \in Drainers \ {d} : ~Draining(c)'
    BY <2>1, <2>3 DEF Token, Draining, TypeOK
  <2> QED
    BY <2>1, <2>2, <2>4 DEF Token, OneDrainer, Draining
<1>6. ASSUME NEW d \in Drainers, Final(d) PROVE Token'
  <2>1. \A t \in Threads : ~Spawning(t)'
    BY <1>6 DEF Final, At, Spawning, Draining, Token
  <2>2. \A c \in Drainers : ~Draining(c)'
    BY <1>6 DEF Final, At, Off, Draining, Token, OneDrainer, TypeOK
  <2> QED
    BY <2>1, <2>2 DEF Token, OneDrainer, Draining
<1>7. ASSUME NEW d \in Drainers, Drain(d), ~Final(d) PROVE Token'
  <2>1. scheduled' = scheduled /\ callback' = callback
    BY <1>7 DEF Drain, Top, Look, DropQueue, Sleep, Grab, Replay, Requeue, Check
  <2>2. Draining(d) /\ Draining(d)'
    <3> USE DEF Draining, At, Goto, TypeOK, DrainerStates
    <3>1. CASE Top(d) \/ Look(d) \/ DropQueue(d) \/ Check(d)
      BY <3>1 DEF Top, Look, DropQueue, Check
    <3>2. CASE Sleep(d) \/ Grab(d)
      BY <3>2 DEF Sleep, Grab
    <3>3. CASE Replay(d)
      BY <3>3 DEF Replay
    <3>4. CASE Requeue(d)
      BY <3>4 DEF Requeue
    <3> QED
      BY <1>7, <3>1, <3>2, <3>3, <3>4 DEF Drain
  <2>3. \A c \in Drainers \ {d} : Draining(c)' <=> Draining(c)
    BY <1>7 DEF Drain, Top, Look, DropQueue, Sleep, Grab, Replay, Requeue, Check,
                Goto, Draining, TypeOK
  <2> QED
    BY <2>1, <2>2, <2>3, TokenKept DEF Spawning
<1>8. CASE Done \/ UNCHANGED vars
  BY <1>8, TokenKept DEF Done, vars, Spawning, Draining
<1> QED
  BY <1>1, <1>2, <1>3, <1>4, <1>5, <1>6, <1>7, <1>8 DEF Next, OnThread

\* _pending_drain_scheduled admits a single drainer at a time, for any number of
\* SDK threads that enqueue, and however they interleave with a drainer that
\* returns.
THEOREM SingleDrainer == Spec => []OneDrainer
<1>1. Init => TypeOK /\ Token
  BY TypeInit DEF Init, Token, OneDrainer, Spawning, Draining, Resting, Off
<1>2. TypeOK /\ Token /\ [Next]_vars => (TypeOK /\ Token)'
  BY TypeStep, TokenStep
<1>3. TypeOK /\ Token => OneDrainer
  BY DEF Token
<1> QED
  BY <1>1, <1>2, <1>3, PTL DEF Spec

-----------------------------------------------------------------------------
(* Sequences: what is in one, what comes before what in it, and what is    *)
(* sorted by it.                                                           *)

Once(q) == \A i, j \in 1..Len(q) : q[i] = q[j] => i = j
Before(q, x, y) == \E i, j \in 1..Len(q) : i < j /\ q[i] = x /\ q[j] = y
SortedBy(q, r) == \A i, j \in 1..Len(r) : i < j => Before(q, r[i], r[j])
Ahead(q, r, s) == \A x \in Items(r), y \in Items(s) : Before(q, x, y)

LEMMA ItemsIn ==
  ASSUME NEW S, NEW q \in Seq(S)
  PROVE  Items(q) \subseteq S /\ (q = <<>> <=> Items(q) = {})
<1>1. Items(q) \subseteq S BY DEF Items
<1>2. CASE q = <<>> BY <1>1, <1>2 DEF Items
<1>3. CASE q # <<>>
  <2>1. 1 \in 1..Len(q) BY <1>3
  <2> QED BY <1>1, <1>3, <2>1 DEF Items
<1> QED BY <1>2, <1>3

LEMMA ItemsOfAppend ==
  ASSUME NEW S, NEW q \in Seq(S), NEW e \in S
  PROVE  Items(Append(q, e)) = Items(q) \cup {e}
<1>1. /\ \A i \in 1..Len(q) : Append(q, e)[i] = q[i]
      /\ Append(q, e)[Len(q) + 1] = e /\ Len(Append(q, e)) = Len(q) + 1
  OBVIOUS
<1>2. Items(Append(q, e)) \subseteq Items(q) \cup {e}
  BY <1>1 DEF Items
<1>3. Items(q) \cup {e} \subseteq Items(Append(q, e))
  <2>1. 1..Len(q) \subseteq 1..(Len(q) + 1) /\ Len(q) + 1 \in 1..(Len(q) + 1)
    OBVIOUS
  <2> QED BY <1>1, <2>1 DEF Items
<1> QED BY <1>2, <1>3

LEMMA ItemsOfEmpty == Items(<<>>) = {}
BY DEF Items

LEMMA ItemsOfTail ==
  ASSUME NEW S, NEW q \in Seq(S), q # <<>>
  PROVE  /\ Items(q) = Items(Tail(q)) \cup {Head(q)}
         /\ Once(q) => Once(Tail(q)) /\ Head(q) \notin Items(Tail(q))
<1>1. /\ Len(q) \in Nat /\ Len(q) >= 1 /\ Len(Tail(q)) = Len(q) - 1
      /\ \A i \in 1..Len(Tail(q)) : Tail(q)[i] = q[i + 1]
      /\ Head(q) = q[1]
  OBVIOUS
<1>2. Items(q) \subseteq Items(Tail(q)) \cup {Head(q)}
  <2>1. ASSUME NEW i \in 1..Len(q), i # 1 PROVE q[i] \in Items(Tail(q))
    <3>1. i - 1 \in 1..Len(Tail(q)) /\ Tail(q)[i - 1] = q[i] BY <1>1, <2>1
    <3> QED BY <3>1 DEF Items
  <2> QED BY <1>1, <2>1 DEF Items
<1>3. Items(Tail(q)) \cup {Head(q)} \subseteq Items(q)
  <2>1. 1 \in 1..Len(q) /\ \A i \in 1..Len(Tail(q)) : i + 1 \in 1..Len(q) BY <1>1
  <2> QED BY <1>1, <2>1 DEF Items
<1>4. ASSUME Once(q) PROVE Once(Tail(q)) /\ Head(q) \notin Items(Tail(q))
  <2>1. \A i \in 1..Len(Tail(q)) : i + 1 \in 1..Len(q) /\ i + 1 # 1 BY <1>1
  <2>2. 1 \in 1..Len(q) BY <1>1
  <2>3. Head(q) \notin Items(Tail(q)) BY <1>1, <1>4, <2>1, <2>2 DEF Once, Items
  <2>4. Once(Tail(q))
    <3>1. ASSUME NEW i \in 1..Len(Tail(q)), NEW j \in 1..Len(Tail(q)),
                 Tail(q)[i] = Tail(q)[j]
          PROVE  i = j
      <4>1. i + 1 = j + 1 BY <1>1, <1>4, <2>1, <3>1 DEF Once
      <4> QED BY <4>1
    <3> QED BY <3>1 DEF Once
  <2> QED BY <2>3, <2>4
<1> QED BY <1>2, <1>3, <1>4

LEMMA ItemsOfConcat ==
  ASSUME NEW S, NEW p \in Seq(S), NEW q \in Seq(S)
  PROVE  Items(p \o q) = Items(p) \cup Items(q)
<1>1. /\ Len(p) \in Nat /\ Len(q) \in Nat /\ Len(p \o q) = Len(p) + Len(q)
      /\ \A i \in 1..Len(p) : (p \o q)[i] = p[i]
      /\ \A i \in 1..Len(q) : (p \o q)[Len(p) + i] = q[i]
  OBVIOUS
<1>2. Items(p \o q) \subseteq Items(p) \cup Items(q)
  <2>1. ASSUME NEW i \in 1..Len(p \o q), i \notin 1..Len(p)
        PROVE  (p \o q)[i] \in Items(q)
    <3>1. i - Len(p) \in 1..Len(q) /\ i = Len(p) + (i - Len(p)) BY <1>1, <2>1
    <3>2. (p \o q)[Len(p) + (i - Len(p))] = q[i - Len(p)] BY <1>1, <3>1
    <3> QED BY <3>1, <3>2 DEF Items
  <2> QED BY <1>1, <2>1 DEF Items
<1>3. Items(p) \cup Items(q) \subseteq Items(p \o q)
  <2>1. /\ \A i \in 1..Len(p) : i \in 1..Len(p \o q)
        /\ \A i \in 1..Len(q) : Len(p) + i \in 1..Len(p \o q)
    BY <1>1
  <2> QED BY <1>1, <2>1 DEF Items
<1> QED BY <1>2, <1>3

LEMMA OnceAppend ==
  ASSUME NEW S, NEW q \in Seq(S), NEW e \in S, Once(q), e \notin Items(q)
  PROVE  Once(Append(q, e))
<1>1. /\ Len(q) \in Nat /\ Len(Append(q, e)) = Len(q) + 1
      /\ \A i \in 1..Len(q) : Append(q, e)[i] = q[i]
      /\ Append(q, e)[Len(q) + 1] = e
  OBVIOUS
<1>2. \A i \in 1..Len(q) : q[i] # e BY DEF Items
<1> QED BY <1>1, <1>2 DEF Once

\* What comes before what in a sequence without repetitions is an order.
LEMMA BeforeOrder ==
  ASSUME NEW S, NEW q \in Seq(S), Once(q), NEW x, NEW y, Before(q, x, y)
  PROVE  ~Before(q, y, x) /\ x # y /\ x \in Items(q) /\ y \in Items(q)
<1>1. PICK i, j \in 1..Len(q) : i < j /\ q[i] = x /\ q[j] = y BY DEF Before
<1>2. x \in Items(q) /\ y \in Items(q) BY <1>1 DEF Items
<1>3. ASSUME NEW k \in 1..Len(q), NEW l \in 1..Len(q), k < l, q[k] = y, q[l] = x
      PROVE  FALSE
  <2>1. k = j /\ l = i BY <1>1, <1>3 DEF Once
  <2> QED BY <1>1, <1>3, <2>1
<1> QED BY <1>1, <1>2, <1>3 DEF Before, Once

LEMMA BeforeAppend ==
  ASSUME NEW S, NEW q \in Seq(S), NEW e \in S, NEW x, NEW y
  PROVE  /\ Before(q, x, y) => Before(Append(q, e), x, y)
         /\ x \in Items(q) => Before(Append(q, e), x, e)
         /\ Before(Append(q, e), x, y) => Before(q, x, y) \/ (y = e /\ x \in Items(q))
<1>1. /\ Len(q) \in Nat /\ Len(Append(q, e)) = Len(q) + 1
      /\ \A i \in 1..Len(q) : Append(q, e)[i] = q[i]
      /\ Append(q, e)[Len(q) + 1] = e
  OBVIOUS
<1>2. Before(q, x, y) => Before(Append(q, e), x, y)
  <2>1. \A i \in 1..Len(q) : i \in 1..(Len(q) + 1) BY <1>1
  <2> QED BY <1>1, <2>1 DEF Before
<1>3. ASSUME x \in Items(q) PROVE Before(Append(q, e), x, e)
  <2>1. PICK i \in 1..Len(q) : q[i] = x BY <1>3 DEF Items
  <2>2. i < Len(q) + 1 /\ i \in 1..(Len(q) + 1) /\ Len(q) + 1 \in 1..(Len(q) + 1)
    BY <1>1
  <2> QED BY <1>1, <2>1, <2>2 DEF Before
<1>4. ASSUME Before(Append(q, e), x, y), ~Before(q, x, y)
      PROVE  y = e /\ x \in Items(q)
  <2>1. PICK i, j \in 1..(Len(q) + 1) :
          i < j /\ Append(q, e)[i] = x /\ Append(q, e)[j] = y
    BY <1>1, <1>4 DEF Before
  <2>2. i \in 1..Len(q) /\ q[i] = x BY <1>1, <2>1
  <2>3. j = Len(q) + 1
    <3>1. ASSUME j # Len(q) + 1 PROVE FALSE
      <4>1. j \in 1..Len(q) /\ q[j] = y BY <1>1, <2>1, <3>1
      <4> QED BY <1>4, <2>1, <2>2, <4>1 DEF Before
    <3> QED BY <3>1
  <2> QED BY <1>1, <2>1, <2>2, <2>3 DEF Items
<1> QED BY <1>2, <1>3, <1>4

LEMMA SortedAppend ==
  ASSUME NEW q, NEW S, NEW r \in Seq(S), NEW e \in S, SortedBy(q, r),
         \A x \in Items(r) : Before(q, x, e)
  PROVE  SortedBy(q, Append(r, e))
<1>1. /\ Len(r) \in Nat /\ Len(Append(r, e)) = Len(r) + 1
      /\ \A i \in 1..Len(r) : Append(r, e)[i] = r[i]
      /\ Append(r, e)[Len(r) + 1] = e
  OBVIOUS
<1>2. ASSUME NEW i \in 1..(Len(r) + 1), NEW j \in 1..(Len(r) + 1), i < j
      PROVE  Before(q, Append(r, e)[i], Append(r, e)[j])
  <2>1. i \in 1..Len(r) BY <1>1, <1>2
  <2>2. CASE j = Len(r) + 1
    <3>1. r[i] \in Items(r) BY <2>1 DEF Items
    <3> QED BY <1>1, <2>1, <2>2, <3>1
  <2>3. CASE j # Len(r) + 1
    <3>1. j \in 1..Len(r) BY <1>1, <2>3
    <3> QED BY <1>1, <1>2, <2>1, <3>1 DEF SortedBy
  <2> QED BY <2>2, <2>3
<1> QED BY <1>1, <1>2 DEF SortedBy

LEMMA SortedTail ==
  ASSUME NEW q, NEW S, NEW r \in Seq(S), SortedBy(q, r), r # <<>>
  PROVE  SortedBy(q, Tail(r)) /\ \A y \in Items(Tail(r)) : Before(q, Head(r), y)
<1>1. /\ Len(r) \in Nat /\ Len(r) >= 1 /\ Len(Tail(r)) = Len(r) - 1
      /\ \A i \in 1..Len(Tail(r)) : Tail(r)[i] = r[i + 1]
      /\ Head(r) = r[1]
  OBVIOUS
<1>2. 1 \in 1..Len(r) /\ \A i \in 1..Len(Tail(r)) : i + 1 \in 1..Len(r) /\ 1 < i + 1
  BY <1>1
<1>3. \A y \in Items(Tail(r)) : Before(q, Head(r), y)
  BY <1>1, <1>2 DEF SortedBy, Items
<1>4. ASSUME NEW i \in 1..Len(Tail(r)), NEW j \in 1..Len(Tail(r)), i < j
      PROVE  Before(q, Tail(r)[i], Tail(r)[j])
  <2>1. i + 1 < j + 1 BY <1>4
  <2>2. Before(q, r[i + 1], r[j + 1]) BY <1>2, <2>1 DEF SortedBy
  <2> QED BY <1>1, <2>2
<1> QED BY <1>3, <1>4 DEF SortedBy

LEMMA SortedConcat ==
  ASSUME NEW q, NEW S, NEW r \in Seq(S), NEW s \in Seq(S),
         SortedBy(q, r), SortedBy(q, s), Ahead(q, r, s)
  PROVE  SortedBy(q, r \o s)
<1>1. /\ Len(r) \in Nat /\ Len(s) \in Nat /\ Len(r \o s) = Len(r) + Len(s)
      /\ \A i \in 1..Len(r) : (r \o s)[i] = r[i]
      /\ \A i \in 1..Len(s) : (r \o s)[Len(r) + i] = s[i]
  OBVIOUS
<1>2. ASSUME NEW i \in 1..Len(r \o s), i \notin 1..Len(r)
      PROVE  i - Len(r) \in 1..Len(s) /\ (r \o s)[i] = s[i - Len(r)]
  <2>1. i - Len(r) \in 1..Len(s) /\ i = Len(r) + (i - Len(r)) BY <1>1, <1>2
  <2>2. (r \o s)[Len(r) + (i - Len(r))] = s[i - Len(r)] BY <1>1, <2>1
  <2> QED BY <2>1, <2>2
<1>3. ASSUME NEW i \in 1..Len(r \o s), NEW j \in 1..Len(r \o s), i < j
      PROVE  Before(q, (r \o s)[i], (r \o s)[j])
  <2>1. CASE j \in 1..Len(r)
    <3>1. i \in 1..Len(r) BY <1>1, <1>3, <2>1
    <3> QED BY <1>1, <1>3, <2>1, <3>1 DEF SortedBy
  <2>2. CASE i \in 1..Len(r) /\ j \notin 1..Len(r)
    <3>1. j - Len(r) \in 1..Len(s) /\ (r \o s)[j] = s[j - Len(r)] BY <1>2, <2>2
    <3>2. r[i] \in Items(r) /\ s[j - Len(r)] \in Items(s) BY <2>2, <3>1 DEF Items
    <3> QED BY <1>1, <2>2, <3>1, <3>2 DEF Ahead
  <2>3. CASE i \notin 1..Len(r) /\ j \notin 1..Len(r)
    <3>1. /\ i - Len(r) \in 1..Len(s) /\ (r \o s)[i] = s[i - Len(r)]
          /\ j - Len(r) \in 1..Len(s) /\ (r \o s)[j] = s[j - Len(r)]
      BY <1>2, <2>3
    <3>2. i - Len(r) < j - Len(r) BY <1>1, <1>3
    <3> QED BY <3>1, <3>2 DEF SortedBy
  <2> QED BY <2>1, <2>2, <2>3
<1> QED BY <1>3 DEF SortedBy

\* What is sorted by a sequence stays so when that grows.
LEMMA SortedLonger ==
  ASSUME NEW S, NEW q \in Seq(S), NEW e \in S, NEW r, NEW s
  PROVE  /\ SortedBy(q, r) => SortedBy(Append(q, e), r)
         /\ Ahead(q, r, s) => Ahead(Append(q, e), r, s)
BY BeforeAppend DEF SortedBy, Ahead

LEMMA SortedOnce ==
  ASSUME NEW S, NEW q \in Seq(S), Once(q), NEW r \in Seq(S), SortedBy(q, r)
  PROVE  Once(r)
<1>1. ASSUME NEW i \in 1..Len(r), NEW j \in 1..Len(r), r[i] = r[j], i # j
      PROVE  FALSE
  <2>1. i < j \/ j < i BY <1>1
  <2>2. Before(q, r[i], r[j]) \/ Before(q, r[j], r[i]) BY <2>1 DEF SortedBy
  <2> QED BY <1>1, <2>2, BeforeOrder
<1> QED BY <1>1 DEF Once

LEMMA SortedEmpty ==
  ASSUME NEW q, NEW r
  PROVE  SortedBy(q, <<>>) /\ Ahead(q, <<>>, r) /\ Ahead(q, r, <<>>)
BY DEF SortedBy, Ahead, Items

-----------------------------------------------------------------------------
(* Where the events are.                                                   *)

\* An event is in a queue: the pending one, or what a drainer took of it.
Waiting(e) ==
  \/ e \in Items(pending)
  \/ \E d \in Drainers : e \in Items(drainer[d].batch) \cup Items(drainer[d].requeue)

\* An event is here while an SDK thread carries it, it waits or it was started,
\* and it is at one of them. It waits once it was queued.
Located ==
  /\ \A e \in Events : fate[e] = "here" <=>
       \/ \E t \in Threads : callback[t].event = e
       \/ e \in Items(started)
       \/ Waiting(e)
  /\ \A t, u \in Threads :
       callback[t].event \in Events /\ callback[t].event = callback[u].event => t = u
  /\ \A t \in Threads : callback[t].event \notin Items(queued) \cup Items(started)
  /\ \A e \in Events : Waiting(e) => e \in Items(queued) /\ e \notin Items(started)
  /\ \A e \in Items(queued) : fate[e] # "away"
  /\ Once(started) /\ Once(queued)

\* What waits is in the order it was queued in: first what comes back, then the
\* rest of the batch, then the queue. Events come back once the loop that the
\* drainer took was closed, and it stays closed.
Lined ==
  /\ SortedBy(queued, pending)
  /\ \A d \in Drainers :
       LET batch == drainer[d].batch
           requeue == drainer[d].requeue IN
       /\ SortedBy(queued, batch) /\ SortedBy(queued, requeue)
       /\ Ahead(queued, requeue, batch) /\ Ahead(queued, requeue, pending)
       /\ Ahead(queued, batch, pending)
       /\ batch # <<>> \/ requeue # <<>> => drainer[d].pc = "replay"
       /\ requeue # <<>> => Shut(d)

QueueInv == TypeOK /\ Token /\ Located /\ Lined

\* A step that moves no event.
LEMMA StaysPut ==
  ASSUME Located, Lined, UNCHANGED <<pending, started, queued, fate>>,
         \A d \in Drainers : At(d, "replay") /\ Shut(d) => Shut(d)',
         \A t \in Threads : callback'[t].event = callback[t].event,
         \A d \in Drainers : /\ drainer'[d].batch = drainer[d].batch
                             /\ drainer'[d].requeue = drainer[d].requeue
                             /\ At(d, "replay") => drainer'[d].pc = "replay"
  PROVE  Located' /\ Lined'
<1>1. \A e : Waiting(e)' <=> Waiting(e) BY DEF Waiting
<1>2. Located' BY <1>1 DEF Located
<1>3. Lined' BY DEF Lined, At
<1> QED BY <1>2, <1>3

\* Before orders what was queued.
LEMMA QueuedOrder ==
  ASSUME TypeOK, Located, NEW x, NEW y, Before(queued, x, y)
  PROVE  ~Before(queued, y, x) /\ x # y
BY BeforeOrder DEF TypeOK, Located

\* While a drainer runs, only it has taken events from the queue.
LEMMA OthersEmpty ==
  ASSUME Token, Lined, NEW d \in Drainers, Draining(d), NEW c \in Drainers \ {d}
  PROVE  drainer[c].batch = <<>> /\ drainer[c].requeue = <<>>
<1>1. drainer[c].pc = "off" BY DEF Token, OneDrainer, Draining
<1> QED BY <1>1 DEF Lined

LEMMA DrainerFields ==
  ASSUME TypeOK, NEW d \in Drainers
  PROVE  /\ drainer[d].batch \in Seq(Events) /\ drainer[d].requeue \in Seq(Events)
         /\ drainer[d] \in DrainerStates
BY DEF TypeOK, DrainerStates

LEMMA DeliverLocated ==
  ASSUME TypeOK, Located, NEW t \in Threads, NEW e \in Events, Deliver(t, e)
  PROVE  Located'
<1>1. callback[t].event = NoEvent
  BY DEF Deliver, TypeOK, Callbacks
<1>2. /\ fate[e] = "away" /\ fate'[e] = "here"
      /\ \A x \in Events \ {e} : fate'[x] = fate[x]
  BY DEF Deliver, TypeOK
<1>3. /\ callback'[t].event = e
      /\ \A u \in Threads \ {t} : callback'[u] = callback[u]
  BY DEF Deliver, TypeOK
<1>4. UNCHANGED <<started, queued>> /\ \A x : Waiting(x)' <=> Waiting(x)
  BY DEF Deliver, Waiting
<1>5. /\ e \notin Items(queued) /\ e \notin Items(started)
      /\ \A u \in Threads : callback[u].event # e
  BY <1>2 DEF Located
<1>6. \A x \in Events : fate'[x] = "here" <=>
        \/ \E u \in Threads : callback'[u].event = x
        \/ x \in Items(started') \/ Waiting(x)'
  <2>1. ASSUME NEW x \in Events \ {e}
        PROVE  (\E u \in Threads : callback'[u].event = x)
                 <=> (\E u \in Threads : callback[u].event = x)
    BY <1>1, <1>3, <2>1, QueueAssumption
  <2> QED BY <1>2, <1>3, <1>4, <2>1 DEF Located
<1>7. \A u, v \in Threads :
        callback'[u].event \in Events /\ callback'[u].event = callback'[v].event => u = v
  BY <1>3, <1>5 DEF Located
<1>8. \A u \in Threads : callback'[u].event \notin Items(queued') \cup Items(started')
  BY <1>3, <1>4, <1>5 DEF Located
<1>9. /\ \A x \in Events : Waiting(x)' => x \in Items(queued') /\ x \notin Items(started')
      /\ \A x \in Items(queued') : fate'[x] # "away"
      /\ Once(started') /\ Once(queued')
  BY <1>2, <1>4, <1>5, ItemsIn DEF Located, TypeOK
<1> QED BY <1>6, <1>7, <1>8, <1>9 DEF Located

\* What an SDK thread carries is nowhere else.
LEMMA OnlyCarried ==
  ASSUME TypeOK, Located, NEW t \in Threads, callback[t].pc \in {"submit", "enqueue"}
  PROVE  LET e == callback[t].event IN
         /\ e \in Events /\ ~Waiting(e) /\ fate[e] = "here"
         /\ e \notin Items(queued) /\ e \notin Items(started)
         /\ \A u \in Threads \ {t} : callback[u].event # e
<1>1. callback[t].event \in Events BY Carried DEF TypeOK
<1> QED BY <1>1 DEF Located

\* The events carried after a thread has put its own down.
LEMMA PutsDown ==
  ASSUME TypeOK, Located, NEW t \in Threads, callback[t].event \in Events,
         callback'[t].event = NoEvent,
         \A u \in Threads \ {t} : callback'[u] = callback[u]
  PROVE  /\ \A x \in Events : (\E u \in Threads : callback'[u].event = x) <=>
              x # callback[t].event /\ \E u \in Threads : callback[u].event = x
         /\ \A u, v \in Threads :
              callback'[u].event \in Events /\ callback'[u].event = callback'[v].event
                => u = v
<1>1. \A u \in Threads \ {t} : callback[u].event # callback[t].event BY DEF Located
<1>2. \A x \in Events : (\E u \in Threads : callback'[u].event = x) <=>
        x # callback[t].event /\ \E u \in Threads : callback[u].event = x
  BY <1>1, QueueAssumption
<1>3. \A u, v \in Threads :
        callback'[u].event \in Events /\ callback'[u].event = callback'[v].event => u = v
  BY QueueAssumption DEF Located
<1> QED BY <1>2, <1>3

LEMMA SubmitLocated ==
  ASSUME TypeOK, Located, NEW t \in Threads, Submit(t)
  PROVE  Located'
<1> DEFINE e == callback[t].event
<1>1. /\ e \in Events /\ ~Waiting(e) /\ fate[e] = "here"
      /\ e \notin Items(queued) /\ e \notin Items(started)
      /\ \A u \in Threads \ {t} : callback[u].event # e
  BY OnlyCarried DEF Submit
<1>2. /\ callback'[t].event = NoEvent
      /\ \A u \in Threads \ {t} : callback'[u] = callback[u]
  BY DEF Submit, TypeOK, Resting
<1>3. /\ \A x \in Events : (\E u \in Threads : callback'[u].event = x) <=>
           x # e /\ \E u \in Threads : callback[u].event = x
      /\ \A u, v \in Threads :
           callback'[u].event \in Events /\ callback'[u].event = callback'[v].event => u = v
  BY <1>1, <1>2, PutsDown
<1>4. UNCHANGED queued /\ \A x : Waiting(x)' <=> Waiting(x) BY DEF Submit, Waiting
<1>5. NoEvent \notin Items(queued) \cup Items(started)
  BY ItemsIn, QueueAssumption DEF TypeOK
<1>6. Items(queued) \subseteq Events BY ItemsIn DEF TypeOK
<1>7. CASE Shut(t)
  <2>1. \A x \in Events : fate'[x] = IF x = e THEN "closed" ELSE fate[x]
    BY <1>7 DEF Submit, Drop, Items
  <2>2. UNCHANGED started BY <1>7 DEF Submit
  <2>3. \A x \in Events : fate'[x] = "here" <=>
          \/ \E u \in Threads : callback'[u].event = x
          \/ x \in Items(started') \/ Waiting(x)'
    BY <1>1, <1>3, <1>4, <2>1, <2>2 DEF Located
  <2>4. \A u \in Threads : callback'[u].event \notin Items(queued') \cup Items(started')
    BY <1>2, <1>4, <1>5, <2>2 DEF Located
  <2> QED BY <1>3, <1>4, <1>6, <2>1, <2>2, <2>3, <2>4 DEF Located
<1>8. CASE ~Shut(t)
  <2>1. started' = Append(started, e) /\ UNCHANGED fate BY <1>8 DEF Submit
  <2>2. Items(started') = Items(started) \cup {e} /\ Once(started')
    BY <1>1, <2>1, ItemsOfAppend, OnceAppend DEF TypeOK, Located
  <2>3. \A x \in Events : fate'[x] = "here" <=>
          \/ \E u \in Threads : callback'[u].event = x
          \/ x \in Items(started') \/ Waiting(x)'
    BY <1>1, <1>3, <1>4, <2>1, <2>2 DEF Located
  <2>4. \A u \in Threads : callback'[u].event \notin Items(queued') \cup Items(started')
    BY <1>1, <1>2, <1>4, <1>5, <2>2, QueueAssumption DEF Located
  <2> QED BY <1>1, <1>3, <1>4, <2>1, <2>2, <2>3, <2>4 DEF Located
<1> QED BY <1>7, <1>8

\* A queued event takes the last place; a full queue drops its first.
LEMMA EnqueueQueue ==
  ASSUME TypeOK, Located, Lined, NEW t \in Threads, Enqueue(t)
  PROVE  \E kept \in Seq(Events), gone \in SUBSET Events :
           /\ pending' = Append(kept, callback[t].event)
           /\ SortedBy(queued, kept)
           /\ Items(kept) = Items(pending) \ gone
           /\ gone \subseteq Items(pending)
           /\ \A x \in Events : fate'[x] = IF x \in gone THEN "overflow" ELSE fate[x]
<1>1. pending \in Seq(Events) /\ fate \in [Events -> Fates] BY DEF TypeOK
<1>2. SortedBy(queued, pending) BY DEF Lined
<1>3. CASE Len(pending) >= MaxDepth
  <2>1. pending # <<>> BY <1>1, <1>3, QueueAssumption
  <2>2. /\ Tail(pending) \in Seq(Events)
        /\ SortedBy(queued, Tail(pending)) BY <1>1, <1>2, <2>1, SortedTail
  <2>3. Once(pending) BY <1>1, <1>2, SortedOnce DEF Located, TypeOK
  <2>4. Items(Tail(pending)) = Items(pending) \ {Head(pending)}
        /\ Head(pending) \in Items(pending)
    BY <1>1, <2>1, <2>3, ItemsOfTail
  <2>5. \A x \in Events :
          fate'[x] = IF x \in {Head(pending)} THEN "overflow" ELSE fate[x]
    BY <1>3 DEF Enqueue, Drop, Items
  <2>6. pending' = Append(Tail(pending), callback[t].event)
    BY <1>3 DEF Enqueue, Queued
  <2>7. {Head(pending)} \in SUBSET Events BY <1>1, <2>4, ItemsIn
  <2> QED BY <2>2, <2>4, <2>5, <2>6, <2>7
<1>4. CASE ~(Len(pending) >= MaxDepth)
  <2>1. pending' = Append(pending, callback[t].event) /\ UNCHANGED fate
    BY <1>4 DEF Enqueue, Queued
  <2>2. {} \in SUBSET Events /\ Items(pending) = Items(pending) \ {} OBVIOUS
  <2>3. \A x \in Events : fate'[x] = IF x \in {} THEN "overflow" ELSE fate[x]
    BY <2>1
  <2>4. pending \in Seq(Events) BY <1>1
  <2> WITNESS pending \in Seq(Events), {} \in SUBSET Events
  <2> QED BY <1>1, <1>2, <2>1, <2>2, <2>3
<1> QED BY <1>3, <1>4

LEMMA EnqueueLocated ==
  ASSUME TypeOK, Located, Lined, NEW t \in Threads, Enqueue(t)
  PROVE  Located' /\ Lined'
<1> DEFINE e == callback[t].event
<1>1. /\ e \in Events /\ ~Waiting(e) /\ fate[e] = "here"
      /\ e \notin Items(queued) /\ e \notin Items(started)
      /\ \A u \in Threads \ {t} : callback[u].event # e
  BY OnlyCarried DEF Enqueue
<1>2. /\ callback'[t].event = NoEvent
      /\ \A u \in Threads \ {t} : callback'[u] = callback[u]
  BY DEF Enqueue, TypeOK, Resting
<1>3. /\ \A x \in Events : (\E u \in Threads : callback'[u].event = x) <=>
           x # e /\ \E u \in Threads : callback[u].event = x
      /\ \A u, v \in Threads :
           callback'[u].event \in Events /\ callback'[u].event = callback'[v].event => u = v
  BY <1>1, <1>2, PutsDown
<1>4. PICK kept \in Seq(Events), gone \in SUBSET Events :
        /\ pending' = Append(kept, e)
        /\ SortedBy(queued, kept)
        /\ Items(kept) = Items(pending) \ gone
        /\ gone \subseteq Items(pending)
        /\ \A x \in Events : fate'[x] = IF x \in gone THEN "overflow" ELSE fate[x]
  BY EnqueueQueue
<1>5. UNCHANGED <<drainer, started, saw, closed>> /\ queued' = Append(queued, e)
  BY DEF Enqueue, adapter
<1>6. /\ Items(pending') = (Items(pending) \ gone) \cup {e}
      /\ Items(queued') = Items(queued) \cup {e}
      /\ Items(queued) \subseteq Events /\ Once(queued')
  BY <1>1, <1>4, <1>5, ItemsOfAppend, ItemsIn, OnceAppend DEF TypeOK, Located
<1>7. \A d \in Drainers :
        /\ Items(drainer[d].batch) \cap Items(pending) = {}
        /\ Items(drainer[d].requeue) \cap Items(pending) = {}
  BY QueuedOrder DEF Lined, Ahead
<1>8. \A x \in Events : Waiting(x)' <=> x = e \/ (Waiting(x) /\ x \notin gone)
  BY <1>1, <1>4, <1>5, <1>6, <1>7 DEF Waiting
<1>9. \A x \in gone : Waiting(x) BY <1>4 DEF Waiting
<1>10. Located'
  <2>1. \A x \in Events : fate'[x] = "here" <=>
          \/ \E u \in Threads : callback'[u].event = x
          \/ x \in Items(started') \/ Waiting(x)'
    <3>1. ASSUME NEW x \in gone
          PROVE  /\ x # e /\ x \notin Items(started)
                 /\ \A u \in Threads : callback[u].event # x
      BY <1>1, <1>9, <3>1 DEF Located
    <3> QED BY <1>1, <1>3, <1>4, <1>5, <1>8, <3>1 DEF Located
  <2>2. \A u \in Threads : callback'[u].event \notin Items(queued') \cup Items(started')
    <3>1. NoEvent \notin Items(queued) \cup Items(started) /\ NoEvent # e
      BY <1>1, ItemsIn, QueueAssumption DEF TypeOK
    <3> QED BY <1>1, <1>2, <1>5, <1>6, <3>1 DEF Located
  <2>3. \A x \in Events : Waiting(x)' => x \in Items(queued') /\ x \notin Items(started')
    BY <1>1, <1>5, <1>6, <1>8 DEF Located
  <2>4. \A x \in Items(queued') : fate'[x] # "away"
    BY <1>1, <1>4, <1>6 DEF Located
  <2> QED BY <1>3, <1>5, <1>6, <2>1, <2>2, <2>3, <2>4 DEF Located
<1>11. Lined'
  <2>1. \A x \in Items(queued) : Before(queued', x, e)
    BY <1>1, <1>5, BeforeAppend DEF TypeOK
  <2>2. \A r, s : /\ SortedBy(queued, r) => SortedBy(queued', r)
                  /\ Ahead(queued, r, s) => Ahead(queued', r, s)
    BY <1>1, <1>5, SortedLonger DEF TypeOK
  <2>3. Items(pending) \subseteq Items(queued)
    BY ItemsIn DEF Located, Waiting, TypeOK
  <2>4. SortedBy(queued', pending')
    BY <1>1, <1>4, <2>1, <2>2, <2>3, SortedAppend
  <2>5. ASSUME NEW d \in Drainers
        PROVE  /\ Ahead(queued', drainer[d].batch, pending')
               /\ Ahead(queued', drainer[d].requeue, pending')
    <3>1. /\ Items(drainer[d].batch) \subseteq Items(queued)
          /\ Items(drainer[d].requeue) \subseteq Items(queued)
      BY DrainerFields, ItemsIn DEF Located, Waiting
    <3>2. /\ Ahead(queued', drainer[d].batch, pending)
          /\ Ahead(queued', drainer[d].requeue, pending)
      BY <2>2 DEF Lined
    <3> QED BY <1>6, <2>1, <3>1, <3>2 DEF Ahead
  <2> QED BY <1>5, <2>2, <2>4, <2>5 DEF Lined, Shut
<1> QED BY <1>10, <1>11

LEMMA LinedKept ==
  ASSUME Lined, UNCHANGED <<pending, drainer, queued, closed>>,
         \A d \in Drainers : saw'[d] = saw[d]
  PROVE  Lined'
BY DEF Lined, Shut

\* Before a drainer has grabbed the queue, and after it is through with it, what
\* waits is what is pending.
LEMMA NothingTaken ==
  ASSUME Token, Lined, NEW d \in Drainers, drainer[d].pc \notin {"off", "replay"}
  PROVE  /\ \A c \in Drainers : drainer[c].batch = <<>> /\ drainer[c].requeue = <<>>
         /\ \A x : Waiting(x) <=> x \in Items(pending)
<1>1. drainer[d].batch = <<>> /\ drainer[d].requeue = <<>> BY DEF Lined
<1>2. \A c \in Drainers : drainer[c].batch = <<>> /\ drainer[c].requeue = <<>>
  BY <1>1, OthersEmpty DEF Draining
<1> QED BY <1>2, ItemsOfEmpty DEF Waiting

LEMMA DropQueueLocated ==
  ASSUME TypeOK, Token, Located, Lined, NEW d \in Drainers, DropQueue(d)
  PROVE  Located' /\ Lined'
<1>1. /\ \A c \in Drainers : drainer[c].batch = <<>> /\ drainer[c].requeue = <<>>
      /\ \A x : Waiting(x) <=> x \in Items(pending)
  BY NothingTaken DEF DropQueue, At
<1>2. /\ UNCHANGED <<callback, started, queued, closed>> /\ pending' = <<>>
      /\ \A x \in Events :
           fate'[x] = IF x \in Items(pending) THEN "dropped" ELSE fate[x]
  BY DEF DropQueue, Drop, adapter
<1>3. \A c \in Drainers : drainer'[c].batch = <<>> /\ drainer'[c].requeue = <<>>
  BY <1>1, DrainerFields DEF DropQueue, Goto, TypeOK, DrainerStates
<1>4. \A x : ~Waiting(x)' BY <1>2, <1>3, ItemsOfEmpty DEF Waiting
<1>5. Items(queued) \subseteq Events BY ItemsIn DEF TypeOK
<1>6. Located'
  <2>1. ASSUME NEW x \in Events, x \in Items(pending)
        PROVE  /\ x \notin Items(started) /\ \A u \in Threads : callback[u].event # x
    BY <1>1, <2>1 DEF Located
  <2>2. \A x \in Events : fate'[x] = "here" <=>
          \/ \E u \in Threads : callback'[u].event = x
          \/ x \in Items(started') \/ Waiting(x)'
    BY <1>1, <1>2, <1>4, <2>1 DEF Located
  <2> QED BY <1>2, <1>4, <1>5, <2>2 DEF Located
<1>7. Lined' BY <1>2, <1>3, SortedEmpty DEF Lined
<1> QED BY <1>6, <1>7

LEMMA GrabLocated ==
  ASSUME TypeOK, Token, Located, Lined, NEW d \in Drainers, Grab(d)
  PROVE  Located' /\ Lined'
<1>1. /\ \A c \in Drainers : drainer[c].batch = <<>> /\ drainer[c].requeue = <<>>
      /\ \A x : Waiting(x) <=> x \in Items(pending)
  BY NothingTaken DEF Grab, At
<1>2. /\ UNCHANGED <<callback, started, queued, fate, closed>> /\ pending' = <<>>
  BY DEF Grab, Left, adapter
<1>3. /\ drainer'[d].batch = pending /\ drainer'[d].requeue = <<>>
      /\ pending # <<>> => drainer'[d].pc = "replay"
      /\ \A c \in Drainers \ {d} : drainer'[c] = drainer[c]
  BY <1>1, DrainerFields DEF Grab, TypeOK, DrainerStates
<1>4. \A x : Waiting(x)' <=> Waiting(x)
  BY <1>1, <1>2, <1>3, ItemsOfEmpty DEF Waiting
<1>5. Located' BY <1>2, <1>4 DEF Located
<1>6. ASSUME NEW c \in Drainers
      PROVE  LET batch == drainer'[c].batch
                 requeue == drainer'[c].requeue IN
             /\ SortedBy(queued, batch) /\ requeue = <<>>
             /\ batch # <<>> => drainer'[c].pc = "replay"
  <2>1. CASE c = d BY <1>3, <2>1 DEF Lined
  <2>2. CASE c # d BY <1>1, <1>3, <2>2, SortedEmpty
  <2> QED BY <2>1, <2>2
<1>7. Lined' BY <1>2, <1>6, SortedEmpty DEF Lined
<1> QED BY <1>5, <1>7

\* The first event of a batch is nowhere else, and nothing that waits was queued
\* before it once the loop takes events.
LEMMA FirstOfBatch ==
  ASSUME TypeOK, Token, Located, Lined, NEW d \in Drainers,
         At(d, "replay"), drainer[d].batch # <<>>
  PROVE  LET batch == drainer[d].batch
             e == Head(batch) IN
         /\ e \in Events /\ e \in Items(queued) /\ e \notin Items(started)
         /\ fate[e] = "here"
         /\ Items(batch) = Items(Tail(batch)) \cup {e} /\ e \notin Items(Tail(batch))
         /\ e \notin Items(pending) /\ e \notin Items(drainer[d].requeue)
         /\ \A x \in Items(Tail(batch)) \cup Items(pending) : Before(queued, e, x)
         /\ \A c \in Drainers \ {d} :
              drainer[c].batch = <<>> /\ drainer[c].requeue = <<>>
<1> DEFINE batch == drainer[d].batch
           e == Head(batch)
<1>1. batch \in Seq(Events) /\ Items(batch) \subseteq Events
  BY DrainerFields, ItemsIn
<1>2. /\ SortedBy(queued, batch) /\ Ahead(queued, batch, pending)
      /\ Ahead(queued, drainer[d].requeue, batch)
  BY DEF Lined
<1>3. Once(batch) BY <1>1, <1>2, SortedOnce DEF TypeOK, Located
<1>4. Items(batch) = Items(Tail(batch)) \cup {e} /\ e \notin Items(Tail(batch))
  BY <1>1, <1>3, ItemsOfTail
<1>5. \A x \in Items(Tail(batch)) \cup Items(pending) : Before(queued, e, x)
  BY <1>1, <1>2, <1>4, SortedTail DEF Ahead
<1>6. e \notin Items(pending) /\ e \notin Items(drainer[d].requeue)
  BY <1>2, <1>4, <1>5, QueuedOrder DEF Ahead
<1>7. Waiting(e) /\ e \in Events BY <1>1, <1>4 DEF Waiting
<1>8. fate[e] = "here" /\ e \in Items(queued) /\ e \notin Items(started)
  BY <1>7 DEF Located
<1>9. \A c \in Drainers \ {d} : drainer[c].batch = <<>> /\ drainer[c].requeue = <<>>
  BY OthersEmpty DEF At, Draining
<1> QED BY <1>4, <1>5, <1>6, <1>7, <1>8, <1>9

LEMMA ReplayLocated ==
  ASSUME TypeOK, Token, Located, Lined, NEW d \in Drainers, Replay(d)
  PROVE  Located' /\ Lined'
<1> DEFINE batch == drainer[d].batch
           requeue == drainer[d].requeue
           e == Head(batch)
<1>1. /\ e \in Events /\ e \in Items(queued) /\ e \notin Items(started)
      /\ fate[e] = "here"
      /\ Items(batch) = Items(Tail(batch)) \cup {e} /\ e \notin Items(Tail(batch))
      /\ e \notin Items(pending) /\ e \notin Items(requeue)
      /\ \A x \in Items(Tail(batch)) \cup Items(pending) : Before(queued, e, x)
      /\ \A c \in Drainers \ {d} : drainer[c].batch = <<>> /\ drainer[c].requeue = <<>>
  BY FirstOfBatch DEF Replay
<1>2. /\ UNCHANGED <<callback, pending, queued, fate, saw, closed>>
      /\ drainer[d].pc = "replay" /\ batch # <<>>
  BY DEF Replay, adapter, At
<1>3. /\ drainer'[d].batch = Tail(batch) /\ drainer'[d].pc = "replay"
      /\ drainer'[d].requeue = IF Shut(d) THEN Append(requeue, e) ELSE requeue
      /\ \A c \in Drainers \ {d} : drainer'[c] = drainer[c]
  <2>1. CASE Shut(d)
    <3> DEFINE r == [drainer[d] EXCEPT !.batch = Tail(@), !.requeue = Append(@, e)]
    <3>1. drainer' = [drainer EXCEPT ![d] = r] BY <2>1 DEF Replay
    <3>2. r.batch = Tail(batch) /\ r.pc = "replay" /\ r.requeue = Append(requeue, e)
      BY <1>2, DrainerFields DEF DrainerStates
    <3> HIDE DEF r
    <3> QED BY <2>1, <3>1, <3>2 DEF TypeOK
  <2>2. CASE ~Shut(d) BY <1>2, <2>2, DrainerFields DEF Replay, TypeOK, DrainerStates
  <2> QED BY <2>1, <2>2
<1>4. batch \in Seq(Events) /\ requeue \in Seq(Events) BY DrainerFields
<1>5. /\ SortedBy(queued, batch) /\ SortedBy(queued, requeue)
      /\ Ahead(queued, requeue, batch) /\ Ahead(queued, requeue, pending)
      /\ Ahead(queued, batch, pending) /\ SortedBy(queued, pending)
      /\ requeue # <<>> => Shut(d)
  BY DEF Lined
<1>6. SortedBy(queued, Tail(batch)) BY <1>2, <1>4, <1>5, SortedTail
<1>7. /\ Ahead(queued, requeue, Tail(batch)) /\ Ahead(queued, Tail(batch), pending)
  BY <1>1, <1>5 DEF Ahead
<1>8. \A c \in Drainers \ {d} :
        Items(drainer[c].batch) = {} /\ Items(drainer[c].requeue) = {}
  BY <1>1, ItemsOfEmpty
<1>9. \A x : Waiting(x) <=> x \in Items(pending) \cup Items(batch) \cup Items(requeue)
  BY <1>8 DEF Waiting
<1>10. \A x : Waiting(x)' <=>
         x \in Items(pending) \cup Items(Tail(batch)) \cup Items(drainer'[d].requeue)
  BY <1>2, <1>3, <1>8 DEF Waiting
<1>11. ASSUME /\ SortedBy(queued, drainer'[d].requeue)
              /\ Ahead(queued, drainer'[d].requeue, Tail(batch))
              /\ Ahead(queued, drainer'[d].requeue, pending)
              /\ drainer'[d].requeue # <<>> => Shut(d)
       PROVE  Lined'
  <2>1. ASSUME NEW c \in Drainers
        PROVE  LET b == drainer'[c].batch
                   r == drainer'[c].requeue IN
               /\ SortedBy(queued, b) /\ SortedBy(queued, r)
               /\ Ahead(queued, r, b) /\ Ahead(queued, r, pending)
               /\ Ahead(queued, b, pending)
               /\ b # <<>> \/ r # <<>> => drainer'[c].pc = "replay"
               /\ r # <<>> => Shut(c)
    <3>1. CASE c = d BY <1>3, <1>6, <1>7, <1>11, <3>1
    <3>2. CASE c # d BY <1>1, <1>3, <3>2, SortedEmpty
    <3> QED BY <3>1, <3>2
  <2> QED BY <1>2, <1>5, <2>1 DEF Lined, Shut
<1>12. CASE Shut(d)
  <2>1. drainer'[d].requeue = Append(requeue, e) /\ UNCHANGED started
    BY <1>3, <1>12 DEF Replay
  <2>2. Items(drainer'[d].requeue) = Items(requeue) \cup {e}
    BY <1>1, <1>4, <2>1, ItemsOfAppend
  <2>3. \A x : Waiting(x)' <=> Waiting(x) BY <1>1, <1>9, <1>10, <2>2
  <2>4. Located' BY <1>2, <2>1, <2>3 DEF Located
  <2>5. SortedBy(queued, drainer'[d].requeue)
    <3>1. \A x \in Items(requeue) : Before(queued, x, e) BY <1>1, <1>5 DEF Ahead
    <3> QED BY <1>1, <1>4, <1>5, <2>1, <3>1, SortedAppend
  <2>6. /\ Ahead(queued, drainer'[d].requeue, Tail(batch))
        /\ Ahead(queued, drainer'[d].requeue, pending)
    BY <1>1, <1>5, <1>7, <2>2 DEF Ahead
  <2> QED BY <1>11, <1>12, <2>4, <2>5, <2>6
<1>13. CASE ~Shut(d)
  <2>1. started' = Append(started, e) /\ drainer'[d].requeue = requeue
    BY <1>3, <1>13 DEF Replay
  <2>2. Items(started') = Items(started) \cup {e} /\ Once(started')
    BY <1>1, <2>1, ItemsOfAppend, OnceAppend DEF TypeOK, Located
  <2>3. \A x : Waiting(x)' <=> Waiting(x) /\ x # e BY <1>1, <1>9, <1>10, <2>1
  <2>4. Located'
    <3>1. \A x \in Events : fate'[x] = "here" <=>
            \/ \E u \in Threads : callback'[u].event = x
            \/ x \in Items(started') \/ Waiting(x)'
      BY <1>1, <1>2, <2>2, <2>3 DEF Located
    <3>2. \A u \in Threads : callback'[u].event \notin Items(queued') \cup Items(started')
      BY <1>1, <1>2, <2>2 DEF Located
    <3>3. \A x \in Events : Waiting(x)' => x \in Items(queued') /\ x \notin Items(started')
      BY <1>2, <2>2, <2>3 DEF Located
    <3> QED BY <1>2, <2>2, <3>1, <3>2, <3>3 DEF Located
  <2>5. Lined' BY <1>5, <1>7, <1>11, <2>1
  <2> QED BY <2>4, <2>5
<1> QED BY <1>12, <1>13

LEMMA RequeueLocated ==
  ASSUME TypeOK, Token, Located, Lined, NEW d \in Drainers, Requeue(d)
  PROVE  Located' /\ Lined'
<1> DEFINE requeue == drainer[d].requeue
<1>1. /\ UNCHANGED <<callback, started, queued, fate, closed>>
      /\ pending' = requeue \o pending /\ drainer[d].batch = <<>>
  BY DEF Requeue, adapter
<1>2. /\ drainer'[d].batch = <<>> /\ drainer'[d].requeue = <<>>
      /\ \A c \in Drainers \ {d} : drainer'[c] = drainer[c]
  BY <1>1, DrainerFields DEF Requeue, TypeOK, DrainerStates
<1>3. \A c \in Drainers \ {d} : drainer[c].batch = <<>> /\ drainer[c].requeue = <<>>
  BY OthersEmpty DEF Requeue, At, Draining
<1>4. \A c \in Drainers : drainer'[c].batch = <<>> /\ drainer'[c].requeue = <<>>
  BY <1>2, <1>3
<1>5. Items(pending') = Items(requeue) \cup Items(pending)
  BY <1>1, DrainerFields, ItemsOfConcat DEF TypeOK
<1>6. \A x : Waiting(x)' <=> Waiting(x)
  BY <1>1, <1>3, <1>4, <1>5, ItemsOfEmpty DEF Waiting
<1>7. Located' BY <1>1, <1>6 DEF Located
<1>8. SortedBy(queued, pending')
  BY <1>1, DrainerFields, SortedConcat DEF TypeOK, Lined
<1>9. Lined' BY <1>1, <1>4, <1>8, SortedEmpty DEF Lined
<1> QED BY <1>7, <1>9

LEMMA QueueInit == Init => QueueInv
<1> SUFFICES ASSUME Init PROVE QueueInv
  OBVIOUS
<1>1. Token
  BY DEF Init, Token, OneDrainer, Spawning, Draining, Resting, Off
<1>2. \A e : ~Waiting(e) BY ItemsOfEmpty DEF Init, Waiting, Off
<1>3. \A t \in Threads : callback[t].event \notin Events
  BY QueueAssumption DEF Init, Resting
<1>4. Once(<<>>) BY DEF Once
<1>5. Located BY <1>2, <1>3, <1>4, ItemsOfEmpty DEF Init, Located
<1>6. Lined BY SortedEmpty DEF Init, Lined, Off
<1> QED BY <1>1, <1>5, <1>6, TypeInit DEF QueueInv

\* Every step leaves what waits where it is found, and in its order.
LEMMA QueueNext == QueueInv /\ [Next]_vars => QueueInv'
<1> SUFFICES ASSUME QueueInv, [Next]_vars PROVE QueueInv'
  OBVIOUS
<1> USE DEF QueueInv
<1>1. ASSUME Connect \/ MarkConnected \/ Disconnect \/ Detach \/ LoopCloses
      PROVE  Located' /\ Lined'
  <2>1. UNCHANGED <<pending, callback, drainer, started, queued, fate>>
    BY <1>1 DEF Connect, MarkConnected, Disconnect, Detach, LoopCloses, queue
  <2>2. \A d \in Drainers : Shut(d) => Shut(d)'
    <3>1. UNCHANGED saw /\ closed \in Nat /\ saw \in [Threads \cup Drainers -> Nat]
      BY <1>1 DEF Connect, MarkConnected, Disconnect, Detach, LoopCloses, queue, TypeOK
    <3>2. closed' = closed \/ closed' = closed + 1
      BY <1>1 DEF Connect, MarkConnected, Disconnect, Detach, LoopCloses
    <3> QED BY <3>1, <3>2 DEF Shut
  <2>3. /\ \A t \in Threads : callback'[t].event = callback[t].event
        /\ \A d \in Drainers : /\ drainer'[d].batch = drainer[d].batch
                               /\ drainer'[d].requeue = drainer[d].requeue
                               /\ At(d, "replay") => drainer'[d].pc = "replay"
    BY <2>1 DEF At
  <2> QED BY <2>1, <2>2, <2>3, StaysPut
<1>2. ASSUME NEW t \in Threads, NEW e \in Events, Deliver(t, e)
      PROVE  Located' /\ Lined'
  <2>1. Located' BY <1>2, DeliverLocated
  <2>2. \A d \in Drainers : saw'[d] = saw[d]
    BY <1>2, QueueAssumption DEF Deliver, TypeOK
  <2>3. Lined' BY <1>2, <2>2, LinedKept DEF Deliver, adapter
  <2> QED BY <2>1, <2>3
<1>3. ASSUME NEW t \in Threads, Submit(t) PROVE Located' /\ Lined'
  <2>1. Located' BY <1>3, SubmitLocated
  <2>2. \A d \in Drainers : saw'[d] = saw[d]
    BY <1>3, QueueAssumption DEF Submit, TypeOK
  <2>3. Lined' BY <1>3, <2>2, LinedKept DEF Submit, adapter
  <2> QED BY <2>1, <2>3
<1>4. ASSUME NEW t \in Threads, Enqueue(t) PROVE Located' /\ Lined'
  BY <1>4, EnqueueLocated
<1>5. ASSUME NEW t \in Threads, Spawn(t) PROVE Located' /\ Lined'
  <2>1. UNCHANGED <<pending, started, queued, fate, saw, closed>>
    BY <1>5 DEF Spawn, adapter
  <2>2. \A u \in Threads : callback'[u].event = callback[u].event
    BY <1>5 DEF Spawn, TypeOK, Callbacks, Resting
  <2>3. \A d \in Drainers : /\ drainer'[d].batch = drainer[d].batch
                            /\ drainer'[d].requeue = drainer[d].requeue
                            /\ At(d, "replay") => drainer'[d].pc = "replay"
    BY <1>5, DrainerFields DEF Spawn, At, TypeOK, DrainerStates
  <2> QED BY <2>1, <2>2, <2>3, StaysPut DEF Shut
<1>6. ASSUME NEW d \in Drainers, Top(d) \/ Look(d) \/ Sleep(d) \/ Check(d) \/ Final(d)
      PROVE  Located' /\ Lined'
  <2>1. UNCHANGED <<callback, pending, started, queued, fate, closed>>
    BY <1>6 DEF Top, Look, Sleep, Check, Final, adapter
  <2>2. ~At(d, "replay") BY <1>6 DEF Top, Look, Sleep, Check, Final, At
  <2>3. /\ drainer'[d].batch = drainer[d].batch
        /\ drainer'[d].requeue = drainer[d].requeue
    <3>1. CASE Final(d)
      <4>1. drainer[d].batch = <<>> /\ drainer[d].requeue = <<>>
        BY <2>2 DEF Lined, At
      <4> QED BY <3>1, <4>1 DEF Final, Off, TypeOK
    <3>2. CASE Sleep(d)
      BY <3>2, DrainerFields DEF Sleep, TypeOK, DrainerStates
    <3>3. CASE Top(d) \/ Look(d) \/ Check(d)
      BY <3>3, DrainerFields DEF Top, Look, Check, Goto, TypeOK, DrainerStates
    <3> QED BY <1>6, <3>1, <3>2, <3>3
  <2>4. \A c \in Drainers \ {d} : drainer'[c] = drainer[c]
    BY <1>6 DEF Top, Look, Sleep, Check, Final, Goto, TypeOK
  <2>5. \A c \in Drainers : /\ drainer'[c].batch = drainer[c].batch
                            /\ drainer'[c].requeue = drainer[c].requeue
                            /\ At(c, "replay") => drainer'[c].pc = "replay"
    BY <2>2, <2>3, <2>4 DEF At
  <2>6. \A c \in Drainers : At(c, "replay") /\ Shut(c) => Shut(c)'
    <3>1. \A c \in Drainers \ {d} : saw'[c] = saw[c]
      BY <1>6 DEF Top, Look, Sleep, Check, Final, TypeOK
    <3> QED BY <2>1, <2>2, <3>1 DEF Shut
  <2> QED BY <2>1, <2>5, <2>6, StaysPut
<1>7. ASSUME NEW d \in Drainers, DropQueue(d) \/ Grab(d) \/ Replay(d) \/ Requeue(d)
      PROVE  Located' /\ Lined'
  BY <1>7, DropQueueLocated, GrabLocated, ReplayLocated, RequeueLocated
<1>8. ASSUME Done \/ UNCHANGED vars PROVE Located' /\ Lined'
  <2>1. UNCHANGED <<pending, callback, drainer, started, queued, fate, saw, closed>>
    BY <1>8 DEF Done, vars
  <2>2. \A d \in Drainers : Shut(d) => Shut(d)'
    BY <2>1 DEF Shut
  <2>3. /\ \A t \in Threads : callback'[t].event = callback[t].event
        /\ \A d \in Drainers : /\ drainer'[d].batch = drainer[d].batch
                               /\ drainer'[d].requeue = drainer[d].requeue
                               /\ At(d, "replay") => drainer'[d].pc = "replay"
    BY <2>1 DEF At
  <2> QED BY <2>1, <2>2, <2>3, StaysPut
<1>9. Located' /\ Lined'
  BY <1>1, <1>2, <1>3, <1>4, <1>5, <1>6, <1>7, <1>8 DEF Next, OnThread, Drain
<1> QED BY <1>9, TypeStep, TokenStep

-----------------------------------------------------------------------------
(* The order of the replay                                                 *)

\* Of two queued events the later one is started after the earlier one, unless
\* that was dropped.
Ordered ==
  \A x, y : Before(queued, x, y) /\ y \in Items(started) /\ fate[x] = "here"
              => Before(started, x, y)

\* A step that starts nothing and queues nothing.
LEMMA OrderKept ==
  ASSUME TypeOK, Located, Ordered, UNCHANGED <<started, queued>>,
         \A x \in Events : fate'[x] = "here" /\ x \in Items(queued) => fate[x] = "here"
  PROVE  Ordered'
<1>1. \A x, y : Before(queued, x, y) => x \in Items(queued) /\ x \in Events
  BY BeforeOrder, ItemsIn DEF TypeOK, Located
<1> QED BY <1>1 DEF Ordered

LEMMA SubmitOrder ==
  ASSUME TypeOK, Located, Ordered, NEW t \in Threads, Submit(t)
  PROVE  Ordered'
<1> DEFINE e == callback[t].event
<1>1. e \in Events /\ e \notin Items(queued) BY OnlyCarried DEF Submit
<1>2. UNCHANGED queued BY DEF Submit
<1>3. CASE Shut(t)
  BY <1>2, <1>3, OrderKept DEF Submit, Drop
<1>4. CASE ~Shut(t)
  <2>1. started' = Append(started, e) /\ UNCHANGED fate BY <1>4 DEF Submit
  <2>2. Items(started') = Items(started) \cup {e}
    BY <1>1, <2>1, ItemsOfAppend DEF TypeOK
  <2>3. ASSUME NEW x, NEW y, Before(queued, x, y), y \in Items(started'),
               fate[x] = "here"
        PROVE  Before(started', x, y)
    <3>1. y # e BY <1>1, <2>3, BeforeOrder DEF TypeOK, Located
    <3>2. Before(started, x, y) BY <2>2, <2>3, <3>1 DEF Ordered
    <3> QED BY <1>1, <2>1, <3>2, BeforeAppend DEF TypeOK
  <2> QED BY <1>2, <2>1, <2>3 DEF Ordered
<1> QED BY <1>3, <1>4

LEMMA EnqueueOrder ==
  ASSUME TypeOK, Located, Lined, Ordered, NEW t \in Threads, Enqueue(t)
  PROVE  Ordered'
<1> DEFINE e == callback[t].event
<1>1. e \in Events /\ e \notin Items(started) BY OnlyCarried DEF Enqueue
<1>2. queued' = Append(queued, e) /\ UNCHANGED started BY DEF Enqueue
<1>3. \A x \in Events : fate'[x] = "here" => fate[x] = "here" BY EnqueueQueue
<1>4. ASSUME NEW x, NEW y, Before(queued', x, y), y \in Items(started),
             fate'[x] = "here"
      PROVE  Before(started, x, y)
  <2>1. Before(queued, x, y) BY <1>1, <1>2, <1>4, BeforeAppend DEF TypeOK
  <2>2. x \in Events BY <2>1, BeforeOrder, ItemsIn DEF TypeOK, Located
  <2> QED BY <1>3, <1>4, <2>1, <2>2 DEF Ordered
<1> QED BY <1>2, <1>4 DEF Ordered

LEMMA ReplayOrder ==
  ASSUME QueueInv, Ordered, NEW d \in Drainers, Replay(d)
  PROVE  Ordered'
<1> USE DEF QueueInv
<1> DEFINE batch == drainer[d].batch
           e == Head(batch)
<1>1. /\ e \in Events /\ e \notin Items(started)
      /\ Items(batch) = Items(Tail(batch)) \cup {e}
      /\ \A x \in Items(Tail(batch)) \cup Items(pending) : Before(queued, e, x)
      /\ \A c \in Drainers \ {d} : drainer[c].batch = <<>> /\ drainer[c].requeue = <<>>
  BY FirstOfBatch DEF Replay
<1>2. UNCHANGED <<queued, fate>> BY DEF Replay
<1>3. CASE Shut(d)
  BY <1>2, <1>3, OrderKept DEF Replay
<1>4. CASE ~Shut(d)
  <2>1. started' = Append(started, e) /\ drainer[d].requeue = <<>>
    BY <1>4 DEF Replay, Lined
  <2>2. Items(started') = Items(started) \cup {e}
    BY <1>1, <2>1, ItemsOfAppend DEF TypeOK
  <2>3. ASSUME NEW x, Before(queued, x, e), fate[x] = "here"
        PROVE  x \in Items(started)
    <3>1. x # e /\ ~Before(queued, e, x) /\ x \in Items(queued)
      BY <2>3, BeforeOrder DEF TypeOK, Located
    <3>2. x \in Events BY <3>1, ItemsIn DEF TypeOK
    <3>3. ~Waiting(x) BY <1>1, <2>1, <3>1, ItemsOfEmpty DEF Waiting
    <3>4. \A u \in Threads : callback[u].event # x BY <3>1 DEF Located
    <3> QED BY <2>3, <3>2, <3>3, <3>4 DEF Located
  <2>4. ASSUME NEW x, NEW y, Before(queued, x, y), y \in Items(started'),
               fate[x] = "here"
        PROVE  Before(started', x, y)
    <3>1. CASE y = e
      <4>1. x \in Items(started) BY <2>3, <2>4, <3>1
      <4> QED BY <1>1, <2>1, <3>1, <4>1, BeforeAppend DEF TypeOK
    <3>2. CASE y # e
      <4>1. Before(started, x, y) BY <2>2, <2>4, <3>2 DEF Ordered
      <4> QED BY <1>1, <2>1, <4>1, BeforeAppend DEF TypeOK
    <3> QED BY <3>1, <3>2
  <2> QED BY <1>2, <2>1, <2>4 DEF Ordered
<1> QED BY <1>3, <1>4

LEMMA OrderNext == QueueInv /\ Ordered /\ [Next]_vars => Ordered'
<1> SUFFICES ASSUME QueueInv, Ordered, [Next]_vars PROVE Ordered'
  OBVIOUS
<1> USE DEF QueueInv
<1>1. CASE Connect \/ MarkConnected \/ Disconnect \/ Detach \/ LoopCloses
  BY <1>1, OrderKept DEF Connect, MarkConnected, Disconnect, Detach, LoopCloses, queue
<1>2. ASSUME NEW t \in Threads, NEW e \in Events, Deliver(t, e) PROVE Ordered'
  <2>1. e \notin Items(queued) BY <1>2 DEF Deliver, Located
  <2>2. \A x \in Events \ {e} : fate'[x] = fate[x] BY <1>2 DEF Deliver, TypeOK
  <2>3. UNCHANGED <<started, queued>> BY <1>2 DEF Deliver
  <2> QED BY <2>1, <2>2, <2>3, OrderKept
<1>3. ASSUME NEW t \in Threads, Submit(t) \/ Enqueue(t) PROVE Ordered'
  BY <1>3, SubmitOrder, EnqueueOrder
<1>4. ASSUME NEW t \in Threads, Spawn(t) PROVE Ordered'
  BY <1>4, OrderKept DEF Spawn
<1>5. ASSUME NEW d \in Drainers, Replay(d) PROVE Ordered'
  BY <1>5, ReplayOrder
<1>6. ASSUME NEW d \in Drainers, Drain(d), ~Replay(d) PROVE Ordered'
  <2>1. UNCHANGED <<started, queued>>
    BY <1>6 DEF Drain, Top, Look, DropQueue, Sleep, Grab, Requeue, Check, Final
  <2>2. \A x \in Events : fate'[x] = "here" => fate[x] = "here"
    <3>1. CASE DropQueue(d) BY <3>1 DEF DropQueue, Drop
    <3>2. CASE ~DropQueue(d)
      BY <1>6, <3>2 DEF Drain, Top, Look, Sleep, Grab, Requeue, Check, Final
    <3> QED BY <3>1, <3>2
  <2> QED BY <2>1, <2>2, OrderKept
<1>7. CASE Done \/ UNCHANGED vars
  BY <1>7, OrderKept DEF Done, vars
<1> QED BY <1>1, <1>2, <1>3, <1>4, <1>5, <1>6, <1>7 DEF Next, OnThread

LEMMA OrderedReplay == QueueInv /\ Ordered => ReplayedInOrder
<1> SUFFICES ASSUME QueueInv, Ordered,
                    NEW i \in 1..Len(queued), NEW j \in 1..Len(queued),
                    i < j, fate[queued[i]] = "here", NEW n \in Slots(started, queued[j])
             PROVE  \E m \in Slots(started, queued[i]) : m < n
  BY DEF ReplayedInOrder
<1>1. Before(queued, queued[i], queued[j]) BY DEF Before
<1>2. n \in 1..Len(started) /\ started[n] = queued[j] BY DEF Slots
<1>3. queued[j] \in Items(started) BY <1>2 DEF Items
<1>4. Before(started, queued[i], queued[j]) BY <1>1, <1>3 DEF Ordered
<1>5. PICK m, k \in 1..Len(started) :
        m < k /\ started[m] = queued[i] /\ started[k] = queued[j]
  BY <1>4 DEF Before
<1>6. k = n BY <1>2, <1>5 DEF QueueInv, Located, Once
<1>7. m \in Slots(started, queued[i]) /\ m < n BY <1>5, <1>6 DEF Slots
<1> QED BY <1>7

\* Queued events are started in the order they were queued in, wherever in a batch
\* the loop closes under the drainer, whatever the full queue has dropped, and for
\* any number of threads, events and places in the queue.
THEOREM QueueReplaysInOrder == Spec => []ReplayedInOrder
<1>1. Init => QueueInv /\ Ordered
  <2>1. ASSUME Init PROVE Ordered BY <2>1, ItemsOfEmpty DEF Init, Ordered
  <2> QED BY <2>1, QueueInit
<1>2. QueueInv /\ Ordered /\ [Next]_vars => (QueueInv /\ Ordered)'
  BY QueueNext, OrderNext
<1>3. QueueInv /\ Ordered => ReplayedInOrder BY OrderedReplay
<1> QED BY <1>1, <1>2, <1>3, PTL DEF Spec

-----------------------------------------------------------------------------
(* The count of an event's places                                          *)

\* A sequence without repetitions has one place for what is in it.
LEMMA CardOnce ==
  ASSUME NEW q, Once(q), NEW e
  PROVE  /\ e \in Items(q) => \E i : Slots(q, e) = {i}
         /\ e \notin Items(q) => Slots(q, e) = {}
<1>1. ASSUME e \in Items(q) PROVE \E i : Slots(q, e) = {i}
  <2>1. PICK i \in 1..Len(q) : q[i] = e BY <1>1 DEF Items
  <2>2. Slots(q, e) = {i} BY <2>1 DEF Once, Slots
  <2> QED BY <2>2
<1>2. e \notin Items(q) => Slots(q, e) = {} BY DEF Items, Slots
<1> QED BY <1>1, <1>2

\* One or none: the size of what has at most one element.
LEMMA CardOneOrNone ==
  ASSUME NEW s
  PROVE  /\ s = {} => Cardinality(s) = 0
         /\ (\E x : s = {x}) => Cardinality(s) = 1
BY FS_EmptySet, FS_Singleton

\* The places of an event in what the drainers took.
Places(f, e) == UNION {{c} \X Slots(f[c], e) : c \in Drainers}

LEMMA TakenPlaces ==
  ASSUME NEW f, NEW e, \A c \in Drainers : Once(f[c]),
         \A c, d \in Drainers : e \in Items(f[c]) /\ e \in Items(f[d]) => c = d
  PROVE  Cardinality(Places(f, e)) = IF \E c \in Drainers : e \in Items(f[c]) THEN 1 ELSE 0
<1>1. CASE \A c \in Drainers : e \notin Items(f[c])
  <2>1. \A c \in Drainers : Slots(f[c], e) = {} BY <1>1, CardOnce
  <2>2. Places(f, e) = {} BY <2>1 DEF Places
  <2> QED BY <1>1, <2>2, CardOneOrNone
<1>2. CASE \E c \in Drainers : e \in Items(f[c])
  <2>1. PICK c \in Drainers : e \in Items(f[c]) BY <1>2
  <2>2. PICK i : Slots(f[c], e) = {i} BY <2>1, CardOnce
  <2>3. \A d \in Drainers \ {c} : Slots(f[d], e) = {} BY <2>1, CardOnce
  <2>4. {c} \X Slots(f[c], e) = {<<c, i>>} BY <2>2
  <2>5. \A d \in Drainers \ {c} : {d} \X Slots(f[d], e) = {} BY <2>3
  <2>6. Places(f, e) = {<<c, i>>} BY <2>4, <2>5 DEF Places
  <2> QED BY <1>2, <2>6, CardOneOrNone
<1> QED BY <1>1, <1>2

LEMMA AccountedFor == QueueInv => Accounted
<1> SUFFICES ASSUME QueueInv, NEW e \in Events
             PROVE  Copies(e) = IF fate[e] = "here" THEN 1 ELSE 0
  BY DEF Accounted
<1> USE DEF QueueInv
<1> DEFINE batches == [c \in Drainers |-> drainer[c].batch]
           requeues == [c \in Drainers |-> drainer[c].requeue]
           carriers == {t \in Threads : callback[t].event = e}
           inBatch == \E c \in Drainers : e \in Items(drainer[c].batch)
           inRequeue == \E c \in Drainers : e \in Items(drainer[c].requeue)
<1>1. /\ Once(pending) /\ Once(started)
      /\ \A c \in Drainers : Once(drainer[c].batch) /\ Once(drainer[c].requeue)
  BY DrainerFields, SortedOnce DEF TypeOK, Located, Lined
<1>2. Cardinality(Slots(pending, e)) = IF e \in Items(pending) THEN 1 ELSE 0
  BY <1>1, CardOnce, CardOneOrNone
<1>3. Cardinality(Slots(started, e)) = IF e \in Items(started) THEN 1 ELSE 0
  BY <1>1, CardOnce, CardOneOrNone
<1>4. Cardinality(carriers) =
        IF \E t \in Threads : callback[t].event = e THEN 1 ELSE 0
  <2>1. CASE \E t \in Threads : callback[t].event = e
    <3>1. PICK t \in Threads : callback[t].event = e BY <2>1
    <3>2. carriers = {t} BY <3>1 DEF Located
    <3> QED BY <2>1, <3>2, CardOneOrNone
  <2>2. CASE ~\E t \in Threads : callback[t].event = e
    <3>1. carriers = {} BY <2>2
    <3> QED BY <2>2, <3>1, CardOneOrNone
  <2> QED BY <2>1, <2>2
<1>5. \A c, d \in Drainers :
        /\ e \in Items(drainer[c].batch) \cup Items(drainer[c].requeue)
        /\ e \in Items(drainer[d].batch) \cup Items(drainer[d].requeue)
        => c = d
  <2>1. SUFFICES ASSUME NEW c \in Drainers, NEW d \in Drainers,
                   e \in Items(drainer[c].batch) \cup Items(drainer[c].requeue),
                   e \in Items(drainer[d].batch) \cup Items(drainer[d].requeue)
                 PROVE  c = d
    OBVIOUS
  <2>2. Draining(c) /\ Draining(d)
    BY <2>1, ItemsOfEmpty DEF Lined, Draining
  <2> QED BY <2>2 DEF Token, OneDrainer, Draining
<1>6. Cardinality(UNION {{c} \X Slots(drainer[c].batch, e) : c \in Drainers}) =
        IF inBatch THEN 1 ELSE 0
  <2>1. \A c \in Drainers : batches[c] = drainer[c].batch OBVIOUS
  <2> HIDE DEF batches
  <2>2. Places(batches, e) = UNION {{c} \X Slots(drainer[c].batch, e) : c \in Drainers}
    <3>1. \A c \in Drainers : Slots(batches[c], e) = Slots(drainer[c].batch, e)
      BY <2>1
    <3> QED BY <3>1 DEF Places
  <2>3. Cardinality(Places(batches, e)) =
          IF \E c \in Drainers : e \in Items(batches[c]) THEN 1 ELSE 0
    <3>1. \A c \in Drainers : Once(batches[c]) BY <1>1, <2>1
    <3>2. \A c, d \in Drainers : e \in Items(batches[c]) /\ e \in Items(batches[d]) => c = d
      BY <1>5, <2>1
    <3> QED BY ONLY <3>1, <3>2, TakenPlaces
  <2> QED BY <2>1, <2>2, <2>3
<1>7. Cardinality(UNION {{c} \X Slots(drainer[c].requeue, e) : c \in Drainers}) =
        IF inRequeue THEN 1 ELSE 0
  <2>1. \A c \in Drainers : requeues[c] = drainer[c].requeue OBVIOUS
  <2> HIDE DEF requeues
  <2>2. Places(requeues, e) = UNION {{c} \X Slots(drainer[c].requeue, e) : c \in Drainers}
    <3>1. \A c \in Drainers : Slots(requeues[c], e) = Slots(drainer[c].requeue, e)
      BY <2>1
    <3> QED BY <3>1 DEF Places
  <2>3. Cardinality(Places(requeues, e)) =
          IF \E c \in Drainers : e \in Items(requeues[c]) THEN 1 ELSE 0
    <3>1. \A c \in Drainers : Once(requeues[c]) BY <1>1, <2>1
    <3>2. \A c, d \in Drainers : e \in Items(requeues[c]) /\ e \in Items(requeues[d]) => c = d
      BY <1>5, <2>1
    <3> QED BY ONLY <3>1, <3>2, TakenPlaces
  <2> QED BY <2>1, <2>2, <2>3
<1>8. ~(inBatch /\ inRequeue) /\ ~(inBatch /\ e \in Items(pending))
      /\ ~(inRequeue /\ e \in Items(pending))
  BY <1>5, QueuedOrder DEF Lined, Ahead
<1>9. Waiting(e) <=> e \in Items(pending) \/ inBatch \/ inRequeue BY DEF Waiting
<1>10. Waiting(e) => /\ e \notin Items(started)
                     /\ ~\E t \in Threads : callback[t].event = e
  BY DEF Located
<1>11. ~(e \in Items(started) /\ \E t \in Threads : callback[t].event = e)
  BY DEF Located
<1>12. fate[e] = "here" <=>
         \/ \E t \in Threads : callback[t].event = e
         \/ e \in Items(started) \/ Waiting(e)
  BY DEF Located
<1> HIDE DEF inBatch, inRequeue
<1>13. Copies(e) = (IF e \in Items(pending) THEN 1 ELSE 0)
                 + (IF e \in Items(started) THEN 1 ELSE 0)
                 + (IF \E t \in Threads : callback[t].event = e THEN 1 ELSE 0)
                 + (IF inBatch THEN 1 ELSE 0) + (IF inRequeue THEN 1 ELSE 0)
  BY <1>2, <1>3, <1>4, <1>6, <1>7 DEF Copies
<1> QED BY <1>8, <1>9, <1>10, <1>11, <1>12, <1>13

\* Every event that came is at exactly one place until it is dropped with a line in
\* the log, and at none afterwards: nothing is handled twice and nothing vanishes,
\* for any number of threads, events, drainers and places in the queue.
THEOREM EventsAccounted == Spec => []Accounted
<1> QED BY QueueInit, QueueNext, AccountedFor, PTL DEF Spec
=============================================================================
