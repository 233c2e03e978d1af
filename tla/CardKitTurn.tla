---------------------------- MODULE CardKitTurn ----------------------------
(***************************************************************************)
(* The conversational card of one Feishu thread: CardKitConversationState  *)
(* (hermes_lark/cardkit.py) and every coroutine of FeishuAdapter that      *)
(* reads or writes it (hermes_lark/adapter.py).  One logical turn owns a   *)
(* sequence of physical cards ("segments"); a boundary (an accepted steer, *)
(* a blocking interaction card, a native artifact) freezes the current     *)
(* segment and the output continues in a new one below the boundary.       *)
(*                                                                         *)
(* The coroutines are asyncio tasks of one event loop.  A step below is    *)
(* the code between two suspension points; cpu names the task that must    *)
(* run next because its last step ended without suspending.  A lock that   *)
(* is free and that nobody waits for is acquired without suspending, as    *)
(* asyncio.Lock does.  Consecutive API calls made under state.lock that    *)
(* only the lock's holder can tell apart are one step.                     *)
(***************************************************************************)
EXTENDS Integers, Sequences

CONSTANTS
  Steers,        \* user messages that may be accepted into the running turn
  SteerModes,    \* how a steer continues the card: at its "ack", or "silent"
  AgentOps,      \* what the agent thread may do: tools, artifacts, cards
  MaxAgentOps,   \* bound on the agent's operations
  MaxStream,     \* bound on streamed deltas
  MaxProgress,   \* bound on heartbeat messages
  MaxDispatch,   \* bound on Hermes dispatches of the turn
  FinalWays,     \* how the final answer comes: "edit" or "send"
  Endings,       \* how a dispatch may end
  Faults,        \* the API failures considered
  MaxFaults,     \* bound on API failures
  MayShutDown,   \* whether disconnect() may run
  MayExpire,     \* whether a question card may reach its TTL
  MayCancel,     \* whether a steer's task may be cancelled
  MayEcho        \* whether a steer may be a synthetic continuation

NoTask == "none"
Roles == {"runner", "consumer", "agent", "notifier", "closer", "expirer"}
Tasks == Roles \cup Steers

ASSUME SteersAssumption ==
  Steers \cap (Roles \cup {NoTask, "flush"}) = {}
ASSUME BoundsAssumption ==
  /\ MaxAgentOps \in Nat /\ MaxStream \in Nat /\ MaxProgress \in Nat
  /\ MaxDispatch \in Nat /\ MaxFaults \in Nat
  /\ MayShutDown \in BOOLEAN /\ MayExpire \in BOOLEAN /\ MayCancel \in BOOLEAN
  /\ MayEcho \in BOOLEAN
ASSUME ChoicesAssumption ==
  /\ SteerModes \subseteq {"ack", "silent"}
  /\ AgentOps \subseteq {"tool", "artifact", "approval", "question"}
  /\ FinalWays \subseteq {"edit", "send"}
  /\ Faults \subseteq {"failed", "transient", "gone"}
  /\ Endings \subseteq {"success", "failure", "cancelled"}

VARIABLES
  st,         \* the CardKitConversationState of the turn
  segs,       \* the physical cards in Feishu, in publication order
  posts,      \* the ordinary messages written by the turn
  ctl,        \* ctl[i]: the flush controller of the segment on card i
  lock,       \* owner of state.lock
  waiters,    \* who waits for state.lock, in order
  resumeLock, \* owner of state.resume_lock
  task,       \* what each coroutine is doing
  cpu,        \* the task that has not yielded to the event loop
  disp,       \* the Hermes dispatch that drives the turn
  clock,      \* boundary messages so far: message ids in timeline order
  newest,     \* history: the boundary committed last
  used        \* operations and faults spent, against the bounds

vars == <<st, segs, posts, ctl, lock, waiters, resumeLock, task, cpu, disp,
          clock, newest, used>>

-----------------------------------------------------------------------------
(* Values *)

Texts == {"", "part", "prog", "answer", "note"}
Outs == {"complete", "error", "stopped"}
Reasons == {"", "steer", "question", "approval", "artifact", "fallback"}
ToolStates == {"none", "running", "success", "continued", "waiting"}
NoTerm == [text |-> "", out |-> "none"]

\* A card as Feishu shows it.  seq is the sequence of the last applied write.
NewCard(a) == [status |-> "streaming", text |-> "", tool |-> "none",
               anchor |-> a, seq |-> 0]

\* The conversation state before its first segment is committed.
NewState ==
  [cur |-> 0, open |-> TRUE, anchor |-> 0, reason |-> "", fb |-> 0,
   trans |-> FALSE, defTool |-> "none", defTerm |-> NoTerm, closed |-> FALSE,
   gone |-> FALSE, disabled |-> FALSE, pending |-> FALSE, seq |-> 0,
   terminal |-> FALSE, phase |-> "thinking", content |-> "", flushed |-> "",
   tool |-> "none", active |-> NoTask, routed |-> FALSE]

\* A committed segment starts afresh: only what a transition defers survives.
Opened(s, i, t) ==
  [NewState EXCEPT !.cur = i, !.active = t, !.routed = TRUE, !.trans = s.trans,
                   !.defTool = s.defTool, !.defTerm = s.defTerm]

NewController == [state |-> "idle", dirty |-> FALSE, stopped |-> FALSE,
                  text |-> ""]

Idle == [pc |-> "idle", op |-> "none", text |-> "", out |-> "complete",
         why |-> "", tool |-> "none", want |-> 0, expect |-> 0, ref |-> 0,
         ret |-> "idle", saw |-> FALSE, res |-> FALSE]

Init ==
  /\ st = NewState
  /\ segs = <<>>
  /\ posts = <<>>
  /\ ctl = <<>>
  /\ lock = NoTask
  /\ waiters = <<>>
  /\ resumeLock = NoTask
  /\ task = [t \in Tasks |-> Idle]
  /\ cpu = NoTask
  /\ disp = [phase |-> "idle", count |-> 0, end |-> "none", marked |-> FALSE,
             final |-> FALSE, acked |-> FALSE, toolAcked |-> FALSE]
  /\ clock = 0
  /\ newest = 0
  /\ used = [agent |-> 0, stream |-> 0, progress |-> 0, faults |-> 0,
             steers |-> {}]

-----------------------------------------------------------------------------
(* Scheduling *)

At(t, p) == task[t].pc = p /\ cpu \in {NoTask, t}

\* A step that starts a coroutine, or ends an awaited call of another party.
Free(t) == task[t].pc = "idle" /\ cpu = NoTask

\* Program points reached without suspending.
Inline == {"st.next", "st.silent", "fin.ret", "rs.ok"}

\* Program points that begin by waiting until the flush controller they
\* stopped has drained, or by acquiring state.lock.
Quieting == {"sus.quiet", "fin.quiet"}
Acquiring ==
  {"cr.check", "cr.commit", "sus.lock", "st.begin", "st.end", "adopt",
   "out.begin", "out.commit", "rs.end", "tool.check", "tool.commit",
   "fin.enter", "fin.lock", "ex.lock"}

\* asyncio.Lock is fair: its waiters get it in turn, and one who finds it free
\* with nobody waiting takes it at once.
MayLock(t) == lock = NoTask /\ (waiters # <<>> => Head(waiters) = t)

\* The waiters once t runs: it has left the queue it was first in.
Rest(t) == IF waiters # <<>> /\ Head(waiters) = t THEN Tail(waiters)
           ELSE waiters

\* The waiters once t was cancelled: it waits in one place at most.
Without(t) ==
  LET k == CHOOSE i \in 1..Len(waiters) : waiters[i] = t
  IN  IF \E i \in 1..Len(waiters) : waiters[i] = t
      THEN [i \in 1..(Len(waiters) - 1) |->
              IF i < k THEN waiters[i] ELSE waiters[i + 1]]
      ELSE waiters

\* Whether task t goes on at p without suspending.
Continues(t, p) ==
  \/ p \in Inline
  \/ p \in Quieting /\ ctl[st.cur].state = "idle"
  \/ p = "rs.enter" /\ resumeLock' = NoTask
  \/ p \in Acquiring /\ lock' = NoTask /\ Rest(t) = <<>>

Go(t, r) ==
  /\ task' = [task EXCEPT ![t] = r]
  /\ cpu' = IF Continues(t, r.pc) THEN t ELSE NoTask
  /\ waiters' = IF r.pc \in Acquiring /\ ~Continues(t, r.pc)
                THEN Append(Rest(t), t) ELSE Rest(t)

To(t, p) == [task[t] EXCEPT !.pc = p]

\* The coroutine of t ends; ok is the success it reports to Hermes, which
\* takes a successful answer, or tool notification, as shown.
Finish(t, ok) ==
  IF task[t].op = "ack"
  THEN Go(t, To(t, "st.silent")) /\ UNCHANGED disp
  ELSE /\ Go(t, Idle)
       /\ disp' = [disp EXCEPT
            !.acked = @ \/ (t = "consumer" /\ task[t].text = "answer" /\ ok),
            !.toolAcked = @ \/ (task[t].tool = "success" /\ ok)]

\* An API call succeeds or fails in one of the ways in kinds; MaxFaults bounds
\* the failures of a behaviour.
Outcome(kinds) ==
  {"ok"} \cup (IF used.faults < MaxFaults THEN Faults \cap kinds ELSE {})
Spend(o) == used' = [used EXCEPT !.faults = IF o = "ok" THEN @ ELSE @ + 1]

-----------------------------------------------------------------------------
(* The flush controller, and what the state's methods do to it *)

Ctl == ctl[st.cur]
SetCtl(c) == ctl' = [ctl EXCEPT ![st.cur] = c]

\* complete(): refuse further requests and cancel a flush still waiting for
\* its timer; the caller then waits until the controller is idle.
Quieted(c) ==
  [c EXCEPT !.stopped = TRUE,
            !.state = IF @ = "scheduled" THEN "idle" ELSE @]

Requested(c) ==
  IF c.stopped THEN c
  ELSE IF c.state = "idle" THEN [c EXCEPT !.state = "scheduled"]
  ELSE IF c.state = "scheduled" THEN c
  ELSE [c EXCEPT !.dirty = TRUE]

\* The controller that task t stopped has no write in flight any more.
Drain(t) ==
  /\ \/ At(t, "sus.quiet") \/ At(t, "fin.quiet")
  /\ ctl[task[t].ref].state = "idle"
  /\ UNCHANGED <<st, segs, posts, ctl, lock, resumeLock, disp, clock, newest,
                 used>>
  /\ Go(t, To(t, IF task[t].pc = "sus.quiet" THEN "sus.lock" ELSE "fin.lock"))

\* Mutant of Unavailable: a phase that no card has.
Vanished(s) ==
  [s EXCEPT !.gone = TRUE, !.closed = TRUE, !.disabled = TRUE, !.phase = "gone"]

\* _mark_cardkit_unavailable
Unavailable(s) ==
  [s EXCEPT !.gone = TRUE, !.closed = TRUE, !.disabled = TRUE,
            !.phase = "unavailable"]

\* Mutant of AfterFailure: a write that failed resets the counter.
Renumbered(s, o, full) ==
  IF o = "gone" THEN Unavailable(s) ELSE [s EXCEPT !.pending = @ \/ full, !.seq = 0]

\* _handle_cardkit_stream_failure; full: the frame was a whole-card update.
AfterFailure(s, o, full) ==
  CASE o = "gone"      -> Unavailable(s)
    [] o = "transient" -> [s EXCEPT !.pending = @ \/ full]
    [] OTHER           -> [s EXCEPT !.disabled = TRUE]
ControllerAfterFailure(c, o) ==
  CASE o = "gone"      -> [c EXCEPT !.stopped = TRUE]
    [] o = "transient" -> Requested(c)
    [] OTHER           -> c

\* Mutant of BoundaryCurrent: the anchor is not compared.
SameTurn(a) == ~st.closed /\ st.routed

\* _cardkit_boundary_is_current
BoundaryCurrent(a) == ~st.closed /\ st.routed /\ st.anchor = a

\* Mutant of Forgotten: the route survives the turn.
Remembered(s) == s

\* _forget_cardkit_turn
Forgotten(s) == [s EXCEPT !.routed = FALSE]

\* Mutant of ClosedBy: the phase is set, the turn stays open.
PhaseOnly(s, out) == [s EXCEPT !.phase = out]

\* The turn is closed with a terminal state.
ClosedBy(s, out) == [s EXCEPT !.closed = TRUE, !.phase = out]

\* Mutant of Raw: the streamed content wins over the final text.
StreamedFirst(text) == IF st.content # "" THEN st.content ELSE text

\* The text a terminal write shows (terminal_cardkit_content, and the default
\* texts of a stopped, failed or silent turn).
Raw(text) == IF text # "" THEN text ELSE st.content
Terminal(text) == IF Raw(text) = "" THEN "note" ELSE Raw(text)

-----------------------------------------------------------------------------
(* _create_cardkit_segment: expect is the resume anchor it was called with.
   Its caller is a steer or a dispatch start (ret "st.end"), a resume
   ("rs.end"), or the first dispatch, which has no state yet ("st.next").  *)

Create(t, r) == Go(t, [r EXCEPT !.pc = "cr.entity", !.ref = 0])

Created(t, ok) ==
  Go(t, [task[t] EXCEPT
           !.res = ok,
           !.pc = IF ok /\ task[t].ret = "rs.end" THEN "rs.ok" ELSE task[t].ret])

CreateEntity(t) ==
  /\ At(t, "cr.entity")
  /\ UNCHANGED <<st, segs, posts, ctl, lock, resumeLock, disp, clock, newest>>
  /\ \E o \in Outcome({"failed"}) :
       /\ Spend(o)
       /\ IF o # "ok" THEN Created(t, FALSE)
          ELSE Go(t, To(t, IF task[t].ret = "st.next"
                           THEN "cr.send" ELSE "cr.check"))

CreateCheck(t) ==
  /\ At(t, "cr.check")
  /\ MayLock(t)
  /\ UNCHANGED <<st, segs, posts, ctl, lock, resumeLock, disp, clock, newest,
                 used>>
  /\ IF BoundaryCurrent(task[t].expect)
     THEN Go(t, To(t, "cr.send")) ELSE Created(t, FALSE)

\* What a creation replies to: the message of its caller, or the boundary below
\* which output resumes.
ReplyTo(r) == IF r.ret = "rs.end" THEN r.expect ELSE r.want

\* The card becomes visible below the message the creation replies to.  Its
\* controller is idle until the segment is committed.
CreateSend(t) ==
  /\ At(t, "cr.send")
  /\ UNCHANGED <<st, posts, lock, resumeLock, disp, clock, newest>>
  /\ \E o \in Outcome({"failed"}) :
       /\ Spend(o)
       /\ IF o = "ok"
          THEN /\ ctl' = Append(ctl, NewController)
               /\ segs' = Append(segs, NewCard(ReplyTo(task[t])))
               /\ Go(t, [To(t, "cr.commit") EXCEPT !.ref = Len(segs')])
          ELSE UNCHANGED <<segs, ctl>> /\ Created(t, FALSE)

\* A published segment that lost its boundary is retired under the lock.
CreateCommit(t) ==
  /\ At(t, "cr.commit")
  /\ MayLock(t)
  /\ UNCHANGED <<segs, posts, ctl, resumeLock, disp, clock, newest, used>>
  /\ \/ /\ task[t].ret # "st.next"
        /\ ~BoundaryCurrent(task[t].expect)
        /\ lock' = t
        /\ Go(t, To(t, "rt.write"))
        /\ UNCHANGED st
     \/ /\ task[t].ret = "st.next" \/ BoundaryCurrent(task[t].expect)
        /\ st' = Opened(st, task[t].ref,
                        IF task[t].ret = "rs.end" THEN st.active ELSE t)
        /\ UNCHANGED lock
        /\ Created(t, TRUE)

\* _retire_stale_cardkit_segment, on a conversation state of its own.
RetireWrite(t) ==
  /\ At(t, "rt.write")
  /\ UNCHANGED <<st, posts, ctl, resumeLock, disp, clock, newest>>
  /\ lock' = NoTask
  /\ \E o \in Outcome({"failed"}) :
       /\ Spend(o)
       /\ segs' = IF o # "ok" THEN segs
                  ELSE [segs EXCEPT ![task[t].ref] =
                          [@ EXCEPT !.seq = 2, !.status =
                             IF st.closed THEN "stopped" ELSE "continued"]]
  /\ Created(t, FALSE)

-----------------------------------------------------------------------------
(* _suspend_cardkit_segment: why is the reason, want the boundary message *)

Suspend(t, r) ==
  /\ SetCtl(Quieted(Ctl))
  /\ Go(t, [r EXCEPT !.pc = "sus.quiet", !.ref = st.cur])

\* The boundary becomes the state's resume anchor.
Anchored(s, a, why) ==
  [s EXCEPT !.fb = IF s.anchor = a THEN @ ELSE 0, !.anchor = a, !.reason = why]

Suspended(t) ==
  IF task[t].ret = "cr.entity"
  THEN Create(t, [task[t] EXCEPT !.expect = st'.anchor, !.ret = "st.end"])
       /\ UNCHANGED disp
  ELSE Finish(t, TRUE)

SuspendLocked(t) ==
  /\ At(t, "sus.lock")
  /\ MayLock(t)
  /\ UNCHANGED <<segs, posts, ctl, resumeLock, clock, used>>
  /\ \/ /\ st.closed
        /\ UNCHANGED <<st, lock, newest>>
        /\ Suspended(t)
     \/ /\ ~st.closed
        /\ newest' = task[t].want
        /\ LET s == Anchored(st, task[t].want, task[t].why)
           IN  IF st.open
               THEN /\ st' = IF s.tool # "running" THEN s
                             ELSE [s EXCEPT !.tool = IF task[t].why = "steer"
                                             THEN "continued" ELSE "waiting"]
                    /\ lock' = t
                    /\ Go(t, To(t, "sus.write"))
                    /\ UNCHANGED disp
               ELSE st' = s /\ UNCHANGED lock /\ Suspended(t)

\* Mutant of Frozen: the freeze leaves the segment open.
FrozenOpen(s, phase) == [s EXCEPT !.seq = @ + 2, !.phase = phase]

\* The state once the freeze was written (or failed).
Frozen(s, phase) == [s EXCEPT !.seq = @ + 2, !.open = FALSE, !.phase = phase]

\* card.settings and card.update, each retried under the lock.  A card found
\* gone by the first is left open; a failed write freezes it only locally.
SuspendWrite(t) ==
  /\ At(t, "sus.write")
  /\ UNCHANGED <<posts, resumeLock, clock, newest>>
  /\ lock' = NoTask
  /\ LET frozen == IF task[t].why \in {"steer", "artifact"}
                   THEN "continued" ELSE "waiting"
         s == Frozen(st, frozen)
     IN  \E o \in Outcome({"failed", "gone"}) :
           /\ Spend(o)
           /\ CASE o = "ok" ->
                     /\ st' = s
                     /\ segs' = [segs EXCEPT
                          ![st.cur] = [@ EXCEPT !.status = frozen,
                                         !.text = st.content, !.tool = st.tool,
                                         !.seq = s.seq]]
                     /\ UNCHANGED ctl
                [] o = "failed" -> st' = s /\ UNCHANGED <<segs, ctl>>
                [] o = "gone" ->
                     /\ \/ st' = [Unavailable(st) EXCEPT !.seq = @ + 1]
                        \/ st' = [Unavailable(s) EXCEPT !.phase = frozen]
                     /\ SetCtl([Ctl EXCEPT !.stopped = TRUE])
                     /\ UNCHANGED segs
  /\ Suspended(t)

-----------------------------------------------------------------------------
(* _resume_cardkit_segment_for_output *)

\* What the caller of the resume does with its result (st' is settled).
AfterResume(t, ok) ==
  LET op == task[t].op
      fallback == st'.reason = "fallback"
  IN  CASE op = "tool" -> Go(t, To(t, IF ok THEN "tool.commit"
                                       ELSE "tool.check"))
                          /\ UNCHANGED disp
        [] op = "final" -> Go(t, To(t, "fin.enter")) /\ UNCHANGED disp
        [] OTHER -> IF ok THEN Go(t, To(t, "out.commit")) /\ UNCHANGED disp
                    ELSE IF fallback
                    THEN Go(t, [To(t, "fb.call") EXCEPT !.ref = st.fb,
                                  !.expect = st.anchor, !.ret = "idle"])
                         /\ UNCHANGED disp
                    ELSE Finish(t, TRUE)

ResumeEnter(t) ==
  /\ At(t, "rs.enter")
  /\ resumeLock = NoTask
  /\ UNCHANGED <<st, segs, posts, ctl, lock, clock, newest, used>>
  /\ IF st.closed \/ st.open \/ st.reason \notin {"approval", "artifact"}
     THEN AfterResume(t, ~st.closed /\ st.open) /\ UNCHANGED resumeLock
     ELSE /\ resumeLock' = t
          /\ Create(t, [task[t] EXCEPT !.expect = st.anchor, !.ret = "rs.end"])
          /\ UNCHANGED disp

ResumeOk(t) ==
  /\ At(t, "rs.ok")
  /\ resumeLock' = NoTask
  /\ UNCHANGED <<st, segs, posts, ctl, lock, clock, newest, used>>
  /\ AfterResume(t, TRUE)

\* No segment was created: the turn falls back to ordinary messages unless
\* the boundary moved, or another coroutine already opened a segment.
ResumeEnd(t) ==
  /\ At(t, "rs.end")
  /\ MayLock(t)
  /\ resumeLock' = NoTask
  /\ UNCHANGED <<segs, posts, ctl, lock, clock, newest, used>>
  /\ IF BoundaryCurrent(task[t].expect)
     THEN /\ st' = [st EXCEPT !.reason = "fallback"]
          /\ AfterResume(t, FALSE)
     ELSE /\ UNCHANGED st
          /\ AfterResume(t, ~st.closed /\ st.routed /\ st.open)

-----------------------------------------------------------------------------
(* _continue_cardkit_after_steer: want is the anchor, t the active input.
   op is "start" for a dispatch, "ack" or "silent" for a steer.            *)

SteerBegin(t) ==
  /\ At(t, "st.begin")
  /\ MayLock(t)
  /\ UNCHANGED <<segs, posts, lock, resumeLock, disp, clock, used>>
  /\ LET s == [st EXCEPT !.trans = TRUE]
         r == [task[t] EXCEPT !.why = "steer", !.ret = "cr.entity"]
     IN  IF st.open
         THEN st' = s /\ UNCHANGED newest /\ Suspend(t, r)
         ELSE /\ st' = Anchored(s, r.want, "steer")
              /\ newest' = r.want
              /\ UNCHANGED ctl
              /\ Create(t, [r EXCEPT !.expect = r.want, !.ret = "st.end"])

\* Mutant of TransitionOver: the state goes on deferring.
StillDeferring(s, tool) ==
  [s EXCEPT !.defTool = "none", !.defTerm = NoTerm, !.tool = tool]
\* Mutant of TransitionOver: the deferred tool update is dropped.
ToolDropped(s, tool) ==
  [s EXCEPT !.trans = FALSE, !.defTool = "none", !.defTerm = NoTerm]

TransitionOver(s, tool) ==
  [s EXCEPT !.trans = FALSE, !.defTool = "none", !.defTerm = NoTerm,
            !.tool = tool]

\* The transition ends: deferred tool updates land on the new segment, and a
\* deferred terminal is finalized.
SteerEnd(t) ==
  /\ At(t, "st.end")
  /\ MayLock(t)
  /\ UNCHANGED <<segs, posts, lock, resumeLock, disp, clock, newest, used>>
  /\ LET r == task[t]
         late == r.res /\ st.defTool # "none"
         fallback == ~r.res /\ BoundaryCurrent(r.want)
     IN  /\ st' = [TransitionOver(st, IF late THEN st.defTool ELSE st.tool) EXCEPT
                     !.pending = @ \/ late,
                     !.reason = IF fallback THEN "fallback" ELSE @,
                     !.active = IF fallback THEN t ELSE @]
         /\ IF late /\ ~st.disabled THEN SetCtl(Requested(Ctl)) ELSE UNCHANGED ctl
         /\ IF st.defTerm = NoTerm THEN Go(t, To(t, "st.next"))
            ELSE Go(t, [To(t, "fin.enter") EXCEPT !.text = st.defTerm.text,
                                                  !.out = st.defTerm.out])

SteerNext(t) ==
  /\ At(t, "st.next")
  /\ UNCHANGED <<st, segs, posts, ctl, lock, resumeLock, clock, newest, used>>
  /\ CASE task[t].op = "start" -> /\ disp' = [disp EXCEPT !.phase = "active"]
                                  /\ Go(t, Idle)
       [] task[t].op = "ack"   -> /\ UNCHANGED disp
                                  /\ Go(t, [To(t, "out.begin") EXCEPT
                                              !.text = "prog"])
       [] OTHER                -> UNCHANGED disp /\ Go(t, Idle)

\* _handle_message_with_guards after handle_message returned.
SteerSilent(t) ==
  /\ At(t, "st.silent")
  /\ UNCHANGED <<st, segs, posts, ctl, lock, resumeLock, disp, clock, newest,
                 used>>
  /\ LET r == [task[t] EXCEPT !.op = "silent"]
     IN  Go(t, IF st.closed \/ ~st.routed \/ st.active = t THEN Idle
               ELSE IF ~r.saw THEN [r EXCEPT !.pc = "st.begin"]
               ELSE [r EXCEPT !.want = st.anchor,
                       !.pc = IF st.open THEN "adopt" ELSE "st.begin"])

-----------------------------------------------------------------------------
(* _stream_cardkit_content and _stream_cardkit_progress *)

OutputBegin(t) ==
  /\ At(t, "out.begin")
  /\ MayLock(t)
  /\ UNCHANGED <<st, segs, posts, ctl, lock, resumeLock, clock, newest, used>>
  /\ IF st.closed THEN Finish(t, task[t].text = "prog")
     ELSE /\ UNCHANGED disp
          /\ Go(t, IF st.reason = "fallback"
                   THEN [To(t, "fb.call") EXCEPT !.ref = st.fb,
                           !.expect = st.anchor, !.ret = "idle"]
                   ELSE To(t, "rs.enter"))

\* A progress message replaces or extends the progress panel, which takes a
\* whole-card update; streamed text replaces the content.
OutputCommit(t) ==
  /\ At(t, "out.commit")
  /\ MayLock(t)
  /\ UNCHANGED <<segs, posts, lock, resumeLock, clock, newest, used>>
  /\ LET prog == task[t].text = "prog"
     IN  IF st.closed \/ ~st.open
         THEN UNCHANGED <<st, ctl>> /\ Finish(t, prog)
         ELSE /\ st' = IF prog THEN [st EXCEPT !.pending = TRUE]
                       ELSE [st EXCEPT !.content = task[t].text]
              /\ IF st.disabled THEN UNCHANGED ctl ELSE SetCtl(Requested(Ctl))
              /\ Finish(t, TRUE)

\* _write_cardkit_fallback: ref is the post it edits (0: send a new one) and
\* expect the anchor it replies to, both read before the call.  ret "fin.ret"
\* marks a terminal write.
FallbackWrite(t) ==
  /\ At(t, "fb.call")
  /\ UNCHANGED <<segs, ctl, lock, resumeLock, clock, newest>>
  /\ LET r == task[t]
         final == r.ret = "fin.ret"
         post == [anchor |-> r.expect, text |-> r.text]
     IN  \E o \in Outcome({"failed"}) :
           /\ Spend(o)
           /\ IF o # "ok" THEN UNCHANGED <<st, posts>>
              ELSE /\ posts' = IF r.ref = 0 THEN Append(posts, post)
                               ELSE [posts EXCEPT ![r.ref].text = r.text]
                   /\ st' = [st EXCEPT
                        !.fb = IF r.ref = 0 THEN Len(posts') ELSE @,
                        !.content = r.text,
                        !.closed = @ \/ final,
                        !.phase = IF final THEN r.out ELSE @,
                        !.routed = @ /\ ~final]
           /\ IF final
              THEN Go(t, [To(t, "fin.ret") EXCEPT !.res = (o = "ok")])
                   /\ UNCHANGED disp
              ELSE Finish(t, o = "ok")

-----------------------------------------------------------------------------
(* _finalize_cardkit: text and out are the terminal content and state *)

\* What a terminal deferred by a transition keeps: nothing is written yet.
Deferred(t) ==
  [text |-> IF Raw(task[t].text) = "" /\ task[t].out = "stopped"
            THEN "note" ELSE Raw(task[t].text),
   out |-> task[t].out]

\* A terminal that finds another one deferred keeps the more severe outcome.
Merged(term, prior) ==
  [text |-> IF term.text # "" THEN term.text ELSE prior.text,
   out |-> IF "stopped" \in {term.out, prior.out} THEN "stopped"
           ELSE IF "error" \in {term.out, prior.out} THEN "error"
           ELSE "complete"]

Finalized(t, ok) == Go(t, [To(t, "fin.ret") EXCEPT !.res = ok])

FinalizeEnter(t) ==
  /\ At(t, "fin.enter")
  /\ MayLock(t)
  /\ UNCHANGED <<segs, posts, lock, resumeLock, disp, clock, newest, used>>
  /\ CASE st.trans ->
            LET d == Merged(Deferred(t), st.defTerm)
            IN  /\ st' = [st EXCEPT !.content = d.text, !.defTerm = d]
                /\ UNCHANGED ctl
                /\ Finalized(t, TRUE)
       [] ~st.trans /\ st.closed ->
            UNCHANGED <<st, ctl>> /\ Finalized(t, ~st.gone)
       [] ~st.trans /\ ~st.closed /\ st.reason = "fallback" ->
            LET text == Raw(task[t].text)
            IN  /\ UNCHANGED <<st, ctl>>
                /\ IF text = "" THEN Finalized(t, TRUE)
                   ELSE Go(t, [To(t, "fb.call") EXCEPT !.text = text,
                                 !.ref = st.fb, !.expect = st.anchor,
                                 !.ret = "fin.ret"])
       [] OTHER ->
            /\ UNCHANGED st
            /\ SetCtl(Quieted(Ctl))
            /\ Go(t, [To(t, "fin.quiet") EXCEPT !.ref = st.cur])

FinalizeLocked(t) ==
  /\ At(t, "fin.lock")
  /\ MayLock(t)
  /\ UNCHANGED <<segs, posts, ctl, resumeLock, disp, clock, newest, used>>
  /\ IF st.closed \/ ~st.open
     THEN UNCHANGED <<st, lock>> /\ Finalized(t, ~st.gone)
     ELSE /\ lock' = t
          /\ st' = [st EXCEPT !.content = Terminal(task[t].text)]
          /\ Go(t, To(t, "fin.write"))

\* cardElement.content (when the content changed), card.settings and
\* card.update under the lock.  A card found gone is closed without a terminal
\* write.  A card whose last write failed is closed all the same; its content
\* may have been shown.
FinalizeWrite(t) ==
  /\ At(t, "fin.write")
  /\ UNCHANGED <<posts, resumeLock, disp, clock, newest>>
  /\ lock' = NoTask
  /\ LET changed == st.content # st.flushed
         n == st.seq + (IF changed THEN 3 ELSE 2)
         s == [ClosedBy(st, task[t].out) EXCEPT !.seq = n]
     IN  \E o \in Outcome({"failed", "gone"}) :
           /\ Spend(o)
           /\ \/ /\ o = "ok"
                 /\ st' = [s EXCEPT !.flushed = st.content]
                 /\ segs' = [segs EXCEPT
                      ![st.cur] = [@ EXCEPT !.status = task[t].out,
                                     !.text = st.content, !.tool = st.tool,
                                     !.seq = n]]
                 /\ UNCHANGED ctl
              \/ o = "failed" /\ st' = s /\ UNCHANGED <<segs, ctl>>
              \/ /\ o = "failed" /\ changed
                 /\ st' = [s EXCEPT !.flushed = st.content]
                 /\ segs' = [segs EXCEPT
                      ![st.cur] = [@ EXCEPT !.text = st.content,
                                     !.seq = st.seq + 1]]
                 /\ UNCHANGED ctl
              \/ /\ o = "gone"
                 /\ \E k \in (st.seq + 1)..n :
                      st' = [Unavailable(st) EXCEPT !.seq = k]
                 /\ SetCtl([Ctl EXCEPT !.stopped = TRUE])
                 /\ UNCHANGED segs
           /\ Finalized(t, o = "ok")

\* The callers of _finalize_cardkit: a final answer and a deferred terminal
\* forget a closed turn, completion also one whose segment it saw open,
\* disconnect() every turn.
FinalizeReturn(t) ==
  /\ At(t, "fin.ret")
  /\ UNCHANGED <<segs, posts, ctl, lock, resumeLock, clock, newest, used>>
  /\ st' = IF st.closed \/ task[t].op = "shutdown"
              \/ (task[t].op = "complete" /\ task[t].saw)
           THEN Forgotten(st) ELSE st
  /\ IF task[t].op \in {"start", "ack", "silent"}
     THEN Go(t, To(t, "st.next")) /\ UNCHANGED disp
     ELSE Finish(t, task[t].res)

-----------------------------------------------------------------------------
(* _update_cardkit_tool_for_ticket: tool is the tool's new status *)

ToolCheck(t) ==
  /\ At(t, "tool.check")
  /\ MayLock(t)
  /\ UNCHANGED <<segs, posts, ctl, lock, resumeLock, clock, newest, used>>
  /\ LET current == ~st.closed /\ st.routed
     IN  CASE current /\ st.open ->
                UNCHANGED <<st, disp>> /\ Go(t, To(t, "tool.commit"))
           [] current /\ ~st.open /\ st.trans ->
                /\ st' = [st EXCEPT !.defTool = task[t].tool]
                /\ Finish(t, TRUE)
           [] OTHER -> UNCHANGED st /\ Finish(t, FALSE)

ToolCommit(t) ==
  /\ At(t, "tool.commit")
  /\ MayLock(t)
  /\ UNCHANGED <<segs, posts, ctl, resumeLock, clock, newest, used>>
  /\ IF st.closed \/ st.disabled \/ ~st.open
     THEN UNCHANGED <<st, lock>> /\ Finish(t, FALSE)
     ELSE /\ st' = [st EXCEPT !.tool = task[t].tool, !.seq = @ + 1]
          /\ lock' = t
          /\ Go(t, To(t, "tool.write"))
          /\ UNCHANGED disp

ToolWrite(t) ==
  /\ At(t, "tool.write")
  /\ UNCHANGED <<posts, resumeLock, clock, newest>>
  /\ lock' = NoTask
  /\ \E o \in Outcome({"failed", "transient", "gone"}) :
       /\ Spend(o)
       /\ IF o = "ok"
          THEN /\ segs' = [segs EXCEPT
                    ![st.cur] = [@ EXCEPT !.status = "streaming",
                                   !.text = st.content,
                                   !.tool = st.tool, !.seq = st.seq]]
               /\ st' = [st EXCEPT !.pending = FALSE, !.phase = "generating"]
               /\ UNCHANGED ctl
          ELSE /\ st' = AfterFailure(st, o, TRUE)
               /\ SetCtl(ControllerAfterFailure(Ctl, o))
               /\ UNCHANGED segs
       /\ Finish(t, o = "ok")

-----------------------------------------------------------------------------
(* The Hermes dispatch: on_processing_start and on_processing_complete *)

Starting(d) == [d EXCEPT !.phase = "starting", !.count = @ + 1,
                         !.marked = FALSE, !.final = FALSE]

\* The first dispatch creates the state with its first segment.
DispatchStart ==
  /\ Free("runner")
  /\ disp.phase = "idle" /\ disp.count = 0
  /\ UNCHANGED <<st, segs, posts, ctl, lock, resumeLock, used>>
  /\ disp' = Starting(disp)
  /\ clock' = clock + 1
  /\ newest' = clock + 1
  /\ Create("runner", [Idle EXCEPT !.op = "start", !.want = clock + 1,
                         !.ret = "st.next"])

\* A later dispatch rolls an open turn forward: a queued user message below
\* itself, a synthetic continuation below the current boundary or, when the
\* segment is open, on it.
DispatchContinue ==
  /\ Free("runner")
  /\ disp.phase = "idle" /\ disp.count \in 1..(MaxDispatch - 1)
  /\ st.routed /\ ~st.closed
  /\ UNCHANGED <<st, segs, posts, ctl, lock, resumeLock, newest, used>>
  /\ disp' = Starting(disp)
  /\ \/ /\ clock' = clock + 1
        /\ Go("runner", [Idle EXCEPT !.op = "start", !.pc = "st.begin",
                           !.want = clock + 1])
     \/ /\ UNCHANGED clock
        /\ Go("runner", [Idle EXCEPT !.op = "start", !.want = st.anchor,
                           !.pc = IF st.open THEN "adopt" ELSE "st.begin"])

Adopt(t) ==
  /\ At(t, "adopt")
  /\ UNCHANGED <<segs, posts, ctl, lock, resumeLock, disp, clock, newest, used>>
  /\ MayLock(t)
  /\ st' = [st EXCEPT !.active = t, !.terminal = FALSE]
  /\ Go(t, To(t, "st.next"))

\* on_processing_complete decides on what it reads before it finalizes.
Complete ==
  /\ Free("runner") /\ task["consumer"].pc = "idle"
  /\ disp.phase = "active"
  /\ UNCHANGED <<segs, posts, ctl, lock, resumeLock, clock, newest, used>>
  /\ \E e \in Endings :
       LET out == CASE e = "success" -> "complete" [] e = "failure" -> "error"
                    [] e = "cancelled" -> "stopped"
           note == IF e = "success" \/ st.content # "" THEN st.content
                   ELSE "note"
           close == ~st.closed /\ (st.reason = "artifact" \/ e # "success")
           s == IF close THEN ClosedBy(st, out)
                ELSE st
       IN  /\ e = "success" => disp.final
           /\ disp' = [disp EXCEPT !.phase = "idle", !.end = e]
           /\ IF st.routed /\ ~st.closed
                 /\ (st.open \/ st.reason = "fallback" \/ st.trans)
              THEN /\ UNCHANGED st
                   /\ Go("runner", [Idle EXCEPT !.pc = "fin.enter",
                                      !.op = "complete", !.saw = st.open,
                                      !.text = note, !.out = out])
              ELSE /\ st' = IF ~st.routed THEN st
                            ELSE IF st.open \/ s.closed THEN Forgotten(s)
                            ELSE s
                   /\ UNCHANGED <<task, cpu, waiters>>

-----------------------------------------------------------------------------
(* The other callers *)

Active == disp.phase = "active"

\* The stream consumer: edit_message and send with expect_edits.
StreamDelta ==
  /\ Free("consumer") /\ Active /\ ~disp.final /\ st.routed
  /\ UNCHANGED <<st, segs, posts, ctl, lock, resumeLock, disp, clock, newest>>
  /\ used.stream < MaxStream
  /\ used' = [used EXCEPT !.stream = @ + 1]
  /\ Go("consumer", [Idle EXCEPT !.op = "stream", !.text = "part",
                       !.pc = "out.begin"])

\* The final answer, by edit_message(finalize) on a card it knows or by
\* send(notify).  Without an open turn it is an ordinary message.
FinalAnswer ==
  /\ Free("consumer") /\ Active /\ ~disp.final /\ disp.marked
  /\ UNCHANGED <<st, segs, ctl, lock, resumeLock, clock, newest, used>>
  /\ LET r == [Idle EXCEPT !.op = "final", !.text = "answer"]
     IN  \/ /\ "edit" \in FinalWays /\ st.routed
            /\ disp' = [disp EXCEPT !.final = TRUE]
            /\ UNCHANGED posts
            /\ IF st.terminal THEN Go("consumer", [r EXCEPT !.pc = "fin.enter"])
               ELSE Go("consumer", [r EXCEPT !.op = "stream",
                                             !.pc = "out.begin"])
         \/ /\ "send" \in FinalWays /\ st.routed /\ ~st.closed
            /\ disp' = [disp EXCEPT !.final = TRUE]
            /\ UNCHANGED posts
            /\ IF st.terminal THEN Go("consumer", [r EXCEPT !.pc = "rs.enter"])
               ELSE Go("consumer", [r EXCEPT !.op = "stream",
                                             !.pc = "out.begin"])
         \/ /\ ~st.routed \/ st.closed
            /\ disp' = [disp EXCEPT !.final = TRUE, !.acked = TRUE]
            /\ posts' = Append(posts, [anchor |-> 0, text |-> "answer"])
            /\ UNCHANGED <<task, cpu, waiters>>

\* A gateway heartbeat or an interim commentary message.
Progress ==
  /\ Free("notifier") /\ Active /\ st.routed
  /\ UNCHANGED <<st, segs, posts, ctl, lock, resumeLock, disp, clock, newest>>
  /\ used.progress < MaxProgress
  /\ used' = [used EXCEPT !.progress = @ + 1]
  /\ Go("notifier", [Idle EXCEPT !.op = "progress", !.text = "prog",
                       !.pc = "out.begin"])

AgentTurn(op) ==
  /\ Free("agent") /\ Active /\ ~disp.marked
  /\ op \in AgentOps
  /\ used.agent < MaxAgentOps
  /\ used' = [used EXCEPT !.agent = @ + 1]

\* A tool starts or completes; the agent's thread waits for the update.  Left
\* out: that it waits 15 seconds at most, after which the agent goes on while
\* the update is still running, and tools that run in parallel.
ToolUpdate ==
  /\ AgentTurn("tool")
  /\ UNCHANGED <<st, segs, posts, ctl, lock, resumeLock, clock, newest>>
  /\ st.routed /\ ~st.closed
  /\ disp' = [disp EXCEPT !.toolAcked = FALSE]
  /\ \E w \in {"running", "success"} :
       Go("agent", [Idle EXCEPT !.op = "tool", !.tool = w, !.pc = "rs.enter"])

\* A native artifact, an approval card or a question (or authorization) card
\* becomes visible and then suspends the segment above it.
Boundary(why) ==
  /\ AgentTurn(why)
  /\ UNCHANGED <<st, segs, posts, lock, resumeLock, disp, newest>>
  /\ clock' = clock + 1
  /\ IF st.routed /\ ~st.closed
     THEN Suspend("agent", [Idle EXCEPT !.op = "boundary", !.why = why,
                              !.want = clock + 1])
     ELSE UNCHANGED <<ctl, task, cpu, waiters>>

\* The agent's run is over; the turn's next finalize closes the card.
MarkTerminal ==
  /\ Free("agent") /\ Active /\ ~disp.marked
  /\ disp' = [disp EXCEPT !.marked = TRUE]
  /\ st' = IF st.routed /\ ~st.closed THEN [st EXCEPT !.terminal = TRUE] ELSE st
  /\ UNCHANGED <<segs, posts, ctl, lock, waiters, resumeLock, task, cpu, clock,
                 newest, used>>

\* A call left behind by a cancelled steer: a card's document or text, a card's
\* publication, a message.
LatePcs == {"late.card", "late.text", "late.send", "late.post"}

\* Only a cancelled task leaves a call behind.
Late(t) == MayCancel /\ task[t].pc \in LatePcs

\* A user message is accepted into the running turn.  The chat lock admits one
\* at a time, and a cancelled one no more.
Steer(t) ==
  /\ \A u \in Steers : Free(u) \/ (Late(u) /\ cpu = NoTask)
  /\ UNCHANGED <<st, segs, posts, ctl, lock, resumeLock, disp, newest>>
  /\ t \notin used.steers
  /\ Active /\ st.routed /\ ~st.closed
  /\ used' = [used EXCEPT !.steers = @ \cup {t}]
  /\ \E m \in SteerModes :
       \/ /\ clock' = clock + 1
          /\ Go(t, [Idle EXCEPT !.op = m, !.want = clock + 1,
                      !.pc = IF m = "ack" THEN "st.begin" ELSE "st.silent"])
       \/ /\ MayEcho
          /\ UNCHANGED clock
          /\ Go(t, [Idle EXCEPT !.op = m, !.want = st.anchor, !.saw = TRUE,
                      !.pc = IF m = "silent" THEN "st.silent"
                             ELSE IF st.open THEN "adopt" ELSE "st.begin"])

\* The call that a cancelled steer awaited goes on in its executor thread, and
\* nobody reads its answer: r describes it until it is over.
Leaves(t, r) == task' = [task EXCEPT ![t] = r]
LeavesNothing(t) == Leaves(t, Idle)

\* Mutant of Reserved: the sequence numbers are given back.
Returned(s, n) == s

\* n sequence numbers were taken for calls whatever became of them.
Reserved(s, n) == [s EXCEPT !.seq = @ + n]

\* Cancelled while it freezes the segment, the steer leaves it open: it awaited
\* card.settings, which changes nothing that segs shows, or card.update.
CancelFreeze(t) ==
  /\ UNCHANGED segs
  /\ \/ st' = Reserved(st, 1) /\ LeavesNothing(t)
     \/ /\ st' = Reserved(st, 2)
        /\ Leaves(t, [Idle EXCEPT !.pc = "late.card", !.why = "steer",
                        !.text = st.content, !.tool = st.tool,
                        !.ref = st.cur, !.want = st.seq + 2])

\* Cancelled while it finalizes a deferred terminal, it leaves the turn open: it
\* awaited cardElement.content, card.settings or card.update.
CancelFinalize(t) ==
  LET changed == st.content # st.flushed
      k == IF changed THEN 1 ELSE 0
      n == st.seq + k
      late == [Idle EXCEPT !.pc = "late.card", !.text = st.content,
                           !.ref = st.cur]
      shown(m) == [Reserved(st, m) EXCEPT !.flushed = st.content]
  IN  \/ /\ changed
         /\ st' = Reserved(st, 1)
         /\ UNCHANGED segs
         /\ Leaves(t, [late EXCEPT !.pc = "late.text", !.want = n])
      \/ /\ segs' = IF ~changed THEN segs
                    ELSE [segs EXCEPT ![st.cur] =
                            [@ EXCEPT !.text = st.content, !.seq = n]]
         /\ \/ st' = shown(k + 1) /\ LeavesNothing(t)
            \/ /\ st' = shown(k + 2)
               /\ Leaves(t, [late EXCEPT !.out = task[t].out,
                               !.tool = st.tool, !.want = n + 2])

\* Cancelled while it retires a card of its own, which has its own sequence.
CancelRetire(t) ==
  /\ UNCHANGED <<st, segs>>
  /\ \/ LeavesNothing(t)
     \/ Leaves(t, [Idle EXCEPT !.pc = "late.card", !.ref = task[t].ref,
                     !.why = IF st.closed THEN "" ELSE "steer",
                     !.out = "stopped", !.want = 2])

\* A call that publishes a card or writes a message.
CancelCall(t) ==
  /\ UNCHANGED <<st, segs>>
  /\ Leaves(t, To(t, IF task[t].pc = "cr.send" THEN "late.send"
                     ELSE "late.post"))

\* The text batcher cancels the task that dispatched the steer; async with
\* releases its locks and nothing else is undone.  Of the calls it made before
\* the one it awaits, none has failed.
CancelSteer(t) ==
  /\ MayCancel /\ cpu = NoTask
  /\ task[t].pc \notin LatePcs \cup {"idle"}
  /\ waiters' = Without(t)
  /\ lock' = IF lock = t THEN NoTask ELSE lock
  /\ resumeLock' = IF resumeLock = t THEN NoTask ELSE resumeLock
  /\ UNCHANGED <<posts, ctl, cpu, disp, clock, newest, used>>
  /\ CASE task[t].pc = "sus.write" -> CancelFreeze(t)
       [] task[t].pc = "fin.write" -> CancelFinalize(t)
       [] task[t].pc = "rt.write" -> CancelRetire(t)
       [] task[t].pc \in {"cr.send", "fb.call"} -> CancelCall(t)
       [] OTHER -> UNCHANGED <<st, segs>> /\ LeavesNothing(t)

\* CardKit refuses a write that a higher sequence has overtaken.
Accepted(r) == r.want > segs[r.ref].seq

LateCard(r) ==
  /\ r.pc \in {"late.card", "late.text"}
  /\ Accepted(r)
  /\ segs' = [segs EXCEPT ![r.ref] =
       IF r.pc = "late.text" THEN [@ EXCEPT !.text = r.text, !.seq = r.want]
       ELSE [@ EXCEPT !.text = r.text, !.tool = r.tool, !.seq = r.want,
                      !.status = IF r.why = "steer" THEN "continued"
                                 ELSE r.out]]
  /\ UNCHANGED <<posts, ctl>>

\* A card appears that no conversation state will ever know.
LateSend(r) ==
  /\ r.pc = "late.send"
  /\ segs' = Append(segs, NewCard(ReplyTo(r)))
  /\ ctl' = Append(ctl, NewController)
  /\ UNCHANGED posts

LatePost(r) ==
  /\ r.pc = "late.post"
  /\ posts' = IF r.ref = 0
              THEN Append(posts, [anchor |-> r.expect, text |-> r.text])
              ELSE [posts EXCEPT ![r.ref].text = r.text]
  /\ UNCHANGED <<segs, ctl>>

\* The executor's thread ends a call nobody waits for.  A call that was still
\* queued in the executor was cancelled with its future and never runs.
LateCall(t) ==
  /\ Late(t)
  /\ LeavesNothing(t)
  /\ UNCHANGED <<st, lock, waiters, resumeLock, cpu, disp, clock, newest, used>>
  /\ \/ UNCHANGED <<segs, posts, ctl>>
     \/ LateCard(task[t]) \/ LateSend(task[t]) \/ LatePost(task[t])

\* disconnect(): _finalize_open_cardkit_turns.
ShutDown ==
  /\ MayShutDown /\ Free("closer")
  /\ UNCHANGED <<st, segs, posts, ctl, lock, resumeLock, disp, clock, newest,
                 used>>
  /\ st.routed /\ ~st.closed
  /\ Go("closer", [Idle EXCEPT !.op = "shutdown", !.pc = "fin.enter",
                     !.out = "stopped", !.text = Terminal("")])

\* The question card reached its TTL: the turn that waits below it is closed.
Expire ==
  /\ MayExpire /\ Free("expirer")
  /\ UNCHANGED <<st, segs, posts, ctl, lock, resumeLock, disp, clock, newest,
                 used>>
  /\ st.routed /\ ~st.open /\ st.reason = "question"
  /\ Go("expirer", [Idle EXCEPT !.op = "expire", !.pc = "ex.lock"])

ExpireLocked(t) ==
  /\ At(t, "ex.lock")
  /\ MayLock(t)
  /\ UNCHANGED <<segs, posts, ctl, lock, resumeLock, disp, clock, newest, used>>
  /\ st' = [st EXCEPT !.closed = TRUE, !.routed = FALSE]
  /\ Go(t, Idle)

-----------------------------------------------------------------------------
(* The flush task: _run_after and _flush_cardkit_state *)

\* Mutant of Flushed: a stopped controller is scheduled again.
Rescheduled(c) ==
  [c EXCEPT !.state = IF c.dirty THEN "scheduled" ELSE "idle",
            !.dirty = c.dirty /\ c.stopped, !.text = ""]

\* The flush is over; a request that came meanwhile schedules the next one.
Flushed(c) ==
  [c EXCEPT !.state = IF c.dirty /\ ~c.stopped THEN "scheduled" ELSE "idle",
            !.dirty = c.dirty /\ c.stopped, !.text = ""]

FlushFire(i) ==
  /\ ctl[i].state = "scheduled" /\ cpu = NoTask
  /\ UNCHANGED <<st, segs, posts, lock, resumeLock, task, disp, clock, newest,
                 used>>
  /\ IF ctl[i].stopped
     THEN ctl' = [ctl EXCEPT ![i] = Flushed(@)] /\ UNCHANGED <<cpu, waiters>>
     ELSE /\ ctl' = [ctl EXCEPT ![i].state = "inflight"]
          /\ cpu' = IF lock = NoTask /\ waiters = <<>> THEN "flush" ELSE NoTask
          /\ waiters' = IF cpu' = "flush" THEN <<>>
                        ELSE Append(waiters, "flush")

\* A flush writes the state's current card, whichever segment scheduled it.
FlushLocked(i) ==
  /\ ctl[i].state = "inflight" /\ cpu \in {NoTask, "flush"}
  /\ MayLock("flush")
  /\ cpu' = NoTask
  /\ waiters' = Rest("flush")
  /\ IF st.closed \/ st.disabled \/ ~st.open
        \/ (st.content = st.flushed /\ ~st.pending)
     THEN ctl' = [ctl EXCEPT ![i] = Flushed(@)] /\ UNCHANGED lock
     ELSE /\ ctl' = [ctl EXCEPT ![i].state = "write", ![i].text = st.content]
          /\ lock' = "flush"
  /\ UNCHANGED <<st, segs, posts, resumeLock, task, disp, clock, newest, used>>

\* A whole-card update while the card still says "thinking" or when one is
\* pending, then the new content.  The first call that fails ends the flush.
FlushWrite(i) ==
  /\ ctl[i].state = "write" /\ cpu = NoTask
  /\ UNCHANGED <<posts, waiters, resumeLock, task, cpu, disp, clock, newest>>
  /\ lock' = NoTask
  /\ LET text == ctl[i].text
         changed == text # st.flushed
         full == st.phase = "thinking" \/ st.pending
         s == IF full THEN [st EXCEPT !.seq = @ + 1, !.phase = "generating",
                                      !.pending = FALSE]
              ELSE st
         card == IF full THEN [segs[st.cur] EXCEPT !.status = "streaming",
                                 !.text = text, !.tool = st.tool,
                                 !.seq = s.seq]
                 ELSE segs[st.cur]
         n == s.seq + 1
     IN  \E o \in Outcome({"failed", "transient", "gone"}) :
           /\ Spend(o)
           /\ \/ /\ o = "ok"
                 /\ segs' = [segs EXCEPT ![st.cur] =
                      IF changed THEN [card EXCEPT !.text = text, !.seq = n]
                      ELSE card]
                 /\ st' = IF changed THEN [s EXCEPT !.flushed = text, !.seq = n]
                          ELSE s
              \/ /\ o # "ok" /\ full
                 /\ UNCHANGED segs
                 /\ st' = AfterFailure([st EXCEPT !.seq = @ + 1], o, TRUE)
              \/ /\ o # "ok" /\ changed
                 /\ segs' = [segs EXCEPT ![st.cur] = card]
                 /\ st' = AfterFailure([s EXCEPT !.seq = n], o, FALSE)
           /\ LET c == [ctl EXCEPT ![st.cur] = ControllerAfterFailure(@, o)]
              IN  ctl' = IF o = "ok" THEN [ctl EXCEPT ![i] = Flushed(@)]
                         ELSE [c EXCEPT ![i] = Flushed(@)]

Flush == \E i \in 1..Len(ctl) : FlushFire(i) \/ FlushLocked(i) \/ FlushWrite(i)

-----------------------------------------------------------------------------

\* The next step of the coroutine that t runs.
Run(t) ==
  \/ CreateEntity(t) \/ CreateCheck(t) \/ CreateSend(t) \/ CreateCommit(t)
  \/ RetireWrite(t)
  \/ Drain(t) \/ SuspendLocked(t) \/ SuspendWrite(t)
  \/ ResumeEnter(t) \/ ResumeOk(t) \/ ResumeEnd(t)
  \/ SteerBegin(t) \/ SteerEnd(t) \/ SteerNext(t) \/ SteerSilent(t)
  \/ OutputBegin(t) \/ OutputCommit(t) \/ FallbackWrite(t)
  \/ FinalizeEnter(t) \/ FinalizeLocked(t) \/ FinalizeWrite(t)
  \/ FinalizeReturn(t)
  \/ ToolCheck(t) \/ ToolCommit(t) \/ ToolWrite(t)
  \/ Adopt(t) \/ ExpireLocked(t)

Quiescent ==
  /\ \A i \in 1..Len(ctl) : ctl[i].state = "idle"
  /\ \A t \in Tasks : task[t].pc = "idle"

\* Nothing is left to do: not a deadlock.
Done == Quiescent /\ UNCHANGED vars

Next ==
  \/ \E t \in Tasks : Run(t)
  \/ \E t \in Steers : Steer(t) \/ CancelSteer(t) \/ LateCall(t)
  \/ \E w \in {"artifact", "approval", "question"} : Boundary(w)
  \/ DispatchStart \/ DispatchContinue \/ Complete
  \/ StreamDelta \/ FinalAnswer \/ Progress \/ ToolUpdate \/ MarkTerminal
  \/ ShutDown \/ Expire \/ Flush \/ Done

Spec == Init /\ [][Next]_vars

FairSpec == Spec /\ WF_vars(Flush) /\ \A t \in Tasks : WF_vars(Run(t))

-----------------------------------------------------------------------------
(* Properties *)

Pcs == {"idle", "cr.entity", "cr.check", "cr.send", "cr.commit", "rt.write",
        "sus.quiet", "sus.lock", "sus.write", "rs.enter", "rs.ok", "rs.end",
        "st.begin", "st.end", "st.next", "st.silent", "out.begin",
        "out.commit", "fb.call", "fin.enter", "fin.quiet", "fin.lock",
        "fin.write", "fin.ret", "tool.check", "tool.commit", "tool.write",
        "adopt", "ex.lock"} \cup LatePcs
Returns == {"idle", "cr.entity", "st.end", "st.next", "rs.end", "fin.ret"}
Ops == {"none", "start", "ack", "silent", "stream", "progress", "final",
        "complete", "shutdown", "tool", "boundary", "expire"}
Phases == {"thinking", "generating", "continued", "waiting", "unavailable"}
            \cup Outs

Terms == {NoTerm} \cup [text : Texts, out : Outs]
States ==
  [cur : Nat, open : BOOLEAN, anchor : Nat, reason : Reasons, fb : Nat,
   trans : BOOLEAN, defTool : ToolStates, defTerm : Terms, closed : BOOLEAN,
   gone : BOOLEAN, disabled : BOOLEAN, pending : BOOLEAN, seq : Nat,
   terminal : BOOLEAN, phase : Phases, content : Texts, flushed : Texts,
   tool : ToolStates, active : Tasks \cup {NoTask}, routed : BOOLEAN]
CardType ==
  [status : {"streaming", "continued", "waiting"} \cup Outs, text : Texts,
   tool : ToolStates, anchor : Nat, seq : Nat]
Posts == [anchor : Nat, text : Texts]
Controllers ==
  [state : {"idle", "scheduled", "inflight", "write"}, dirty : BOOLEAN,
   stopped : BOOLEAN, text : Texts]
Coroutines ==
  [pc : Pcs, op : Ops, text : Texts, out : Outs, why : Reasons,
   tool : ToolStates, want : Nat, expect : Nat, ref : Nat, ret : Returns,
   saw : BOOLEAN, res : BOOLEAN]
Dispatches ==
  [phase : {"idle", "starting", "active"}, count : Nat,
   end : Endings \cup {"none"}, marked : BOOLEAN, final : BOOLEAN,
   acked : BOOLEAN, toolAcked : BOOLEAN]

Usage ==
  [agent : Nat, stream : Nat, progress : Nat, faults : Nat,
   steers : SUBSET Steers]

\* Every variable has its type.
TypeOK ==
  /\ st \in States
  /\ segs \in Seq(CardType)
  /\ posts \in Seq(Posts)
  /\ ctl \in Seq(Controllers)
  /\ lock \in Tasks \cup {NoTask, "flush"}
  /\ waiters \in Seq(Tasks \cup {"flush"})
  /\ resumeLock \in Tasks \cup {NoTask}
  /\ task \in [Tasks -> Coroutines]
  /\ cpu \in Tasks \cup {NoTask, "flush"}
  /\ disp \in Dispatches
  /\ clock \in Nat
  /\ newest \in Nat
  /\ used \in Usage

Cards == 1..Len(segs)
Ended == disp.phase = "idle" /\ disp.count > 0
FaultFree == used.faults = 0

\* A card that shows a frozen or terminal state is never written again.
FrozenNeverEdited ==
  [][\A i \in Cards : segs[i].status # "streaming" => segs'[i] = segs[i]]_segs

\* Every write to a card carries a higher sequence than the last one applied
\* (CardKit rejects the others), whatever coroutine reserved it.
SequenceRises ==
  [][\A i \in Cards : segs'[i] # segs[i] => segs'[i].seq > segs[i].seq]_segs

\* Streamed output, progress and tool state are only ever written to the card
\* that was published below the boundary committed last.
OutputBelowBoundary ==
  [][\A i \in Cards :
       segs'[i] # segs[i] /\ segs'[i].status = "streaming"
         => i = st.cur /\ segs[i].anchor = newest]_segs

\* A new segment only ever replaces a frozen one of an open turn.
CommitOntoFrozen ==
  [][st'.cur # st.cur /\ st.cur # 0 => ~st.open /\ ~st.closed]_st

\* When nothing is under way only the open segment still says it is streaming.
NoOrphan ==
  Quiescent /\ FaultFree =>
    \A i \in Cards : segs[i].status = "streaming"
                       => i = st.cur /\ st.open /\ ~st.closed

\* A dispatch that ended leaves the turn closed, unless it waits for the
\* answer to a question.
EndClosesTurn ==
  Quiescent /\ FaultFree /\ Ended =>
    st.closed \/ (~st.open /\ st.reason = "question")

\* An answer the adapter reported as delivered is on a card or in a message
\* (one that ends a dispatch suspended by a question is hidden on purpose).
AnswerShown ==
  Quiescent /\ disp.acked /\ st.reason # "question" =>
    \/ \E i \in Cards : segs[i].text = "answer"
    \/ \E i \in 1..Len(posts) : posts[i].text = "answer"

\* A tool completion the adapter acknowledged is on a card.
ToolShown ==
  Quiescent /\ disp.toolAcked => \E i \in Cards : segs[i].tool = "success"

\* A closed turn leaves no route behind.
RouteReleased == Quiescent /\ st.closed /\ ~st.gone => ~st.routed

\* A steer that is being continued is over some day: later finals and tools are
\* not deferred for ever.
TransitionEnds == st.trans ~> ~st.trans

\* No coroutine waits for ever for a lock or for a controller to drain.
CoroutinesEnd == \A t \in Tasks : task[t].pc # "idle" ~> task[t].pc = "idle"
=============================================================================
