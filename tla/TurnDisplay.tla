----------------------------- MODULE TurnDisplay -----------------------------
(***************************************************************************)
(* What the reader of a thread may rely on while an agent's turn runs: the *)
(* turn's cards form a growing column, at most one of them is live, only   *)
(* the live card changes, a card that was finished or frozen never changes *)
(* again, and the live card only ever moves down the column.  This is the  *)
(* promise of docs/research/agent-conversation-interruption-designs.md;    *)
(* CardKitTurnDisplay checks that CardKitTurn keeps it.                    *)
(***************************************************************************)
EXTENDS Integers, Sequences

CONSTANTS
  Live,      \* what a card can show while output is written to it
  Final      \* what a finished or frozen card can show

VARIABLES
  column,    \* the content of each card, from the top
  live,      \* the card the turn writes to, 0 when there is none
  deepest    \* the lowest card that was ever live

display == <<column, live, deepest>>

DisplayInit == column = <<>> /\ live = 0 /\ deepest = 0

\* A new card appears at the bottom; it is not live yet.
Publish ==
  /\ \E c \in Live : column' = Append(column, c)
  /\ UNCHANGED <<live, deepest>>

\* The turn moves to a card below every card it was on.
MoveDown ==
  /\ live = 0
  /\ \E i \in (deepest + 1)..Len(column) :
       /\ column[i] \notin Final
       /\ live' = i
       /\ deepest' = i
  /\ UNCHANGED column

\* The live card changes.
Edit ==
  /\ live # 0
  /\ \E c \in Live : column' = [column EXCEPT ![live] = c]
  /\ UNCHANGED <<live, deepest>>

\* The live card takes its last content.
Close ==
  /\ live # 0
  /\ \E c \in Final : column' = [column EXCEPT ![live] = c]
  /\ live' = 0
  /\ UNCHANGED deepest

\* The turn leaves the live card unfinished: its last write failed.
Abandon ==
  /\ live # 0
  /\ live' = 0
  /\ \E c \in Live \cup {column[live]} :
       column' = [column EXCEPT ![live] = c]
  /\ UNCHANGED deepest

\* A card that came too late to be live takes its only content.
Discard ==
  /\ \E i \in 1..Len(column), c \in Final :
       /\ i # live
       /\ column[i] \notin Final
       /\ column' = [column EXCEPT ![i] = c]
  /\ UNCHANGED <<live, deepest>>

DisplayNext == Publish \/ MoveDown \/ Edit \/ Close \/ Abandon \/ Discard

DisplaySpec == DisplayInit /\ [][DisplayNext]_display
=============================================================================
