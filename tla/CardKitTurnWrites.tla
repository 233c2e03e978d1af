------------------------- MODULE CardKitTurnWrites -------------------------
(***************************************************************************)
(* Why a frozen card is never written again and sequences rise: what is    *)
(* invariant while a write to a card is in flight.                         *)
(***************************************************************************)
EXTENDS CardKitTurn

\* Task t writes the current card; task t owns a card it published that the
\* state does not know (yet); the flush of controller i writes.
Writing(t) == task[t].pc \in {"sus.write", "fin.write", "tool.write"}
Publishing(t) == task[t].pc \in {"cr.commit", "rt.write"}
Flushing(i) == ctl[i].state = "write"

InFlight ==
  (\E t \in Tasks : Writing(t)) \/ (\E i \in 1..Len(ctl) : Flushing(i))

\* Who writes owns state.lock.
WriterHasLock ==
  /\ \A t \in Tasks : Writing(t) \/ task[t].pc = "rt.write" => lock = t
  /\ \A i \in 1..Len(ctl) : Flushing(i) => lock = "flush"
  /\ \A i, j \in 1..Len(ctl) : Flushing(i) /\ Flushing(j) => i = j

\* No steer can be cancelled.
Uncancelled == ~MayCancel \/ Steers = {}

\* The current card still streams as long as the segment is open or a write to
\* it is in flight - unless a cancelled steer left a freeze behind.
CurrentStreams ==
  /\ st.cur <= Len(segs)
  /\ Uncancelled /\ st.cur \in Cards /\ (InFlight \/ (st.open /\ ~st.closed))
       => segs[st.cur].status = "streaming"

\* The state's sequence is the one applied last, or ahead of it; a write in
\* flight will raise it.
SequenceAhead ==
  /\ st.cur \in Cards => segs[st.cur].seq <= st.seq
  /\ \A t \in Tasks : task[t].pc = "tool.write" /\ st.cur \in Cards
       => segs[st.cur].seq < st.seq
  /\ \A i \in 1..Len(ctl) : Flushing(i)
       => ctl[i].text # st.flushed \/ st.pending

\* A published card that is not committed was never written, is not the
\* current one, and belongs to one creation.
PublishedIsFresh ==
  /\ \A t \in Tasks : Publishing(t) =>
       /\ task[t].ref \in Cards
       /\ task[t].ref # st.cur
       /\ segs[task[t].ref].status = "streaming"
       /\ segs[task[t].ref].seq = 0
  /\ \A t, u \in Tasks : Publishing(t) /\ Publishing(u) /\ t # u
       => task[t].ref # task[u].ref

\* A call that a cancelled steer left behind has a sequence the state has passed,
\* if its card is the current one, and its card is not being published.
LateIsBehind ==
  \A t \in Tasks : task[t].pc \in {"late.card", "late.text"} =>
    /\ task[t].ref <= Len(segs)
    /\ task[t].ref = st.cur /\ st.cur \in Cards =>
         /\ task[t].want <= st.seq
         /\ \A u \in Tasks :
              task[u].pc = "tool.write" => task[t].want < st.seq
    /\ \A u \in Tasks : Publishing(u) => task[t].ref # task[u].ref

\* The inductive invariant of the writes to cards.
WritesInv ==
  /\ WriterHasLock
  /\ CurrentStreams
  /\ SequenceAhead
  /\ PublishedIsFresh
  /\ LateIsBehind
=============================================================================
