------------------------- MODULE CardKitTurnDisplay -------------------------
(***************************************************************************)
(* CardKitTurn implements TurnDisplay: the column is the content of the    *)
(* physical cards, the live card is the current segment while it is open   *)
(* and the turn is not closed.                                             *)
(***************************************************************************)
EXTENDS CardKitTurn

\* The live card, in the state's own terms.
LiveCard == IF st.cur # 0 /\ st.open /\ ~st.closed THEN st.cur ELSE 0

Shown(c) == [status |-> c.status, text |-> c.text, tool |-> c.tool]
Column == [i \in 1..Len(segs) |-> Shown(segs[i])]

Showing(statuses) == [status : statuses, text : Texts, tool : ToolStates]
FinalStatuses == {"continued", "waiting"} \cup Outs

Display == INSTANCE TurnDisplay WITH
  Live <- Showing({"streaming"}),
  Final <- Showing(FinalStatuses),
  column <- Column,
  live <- LiveCard,
  deepest <- st.cur

\* Every step of the adapter is a step of the display or changes nothing the
\* reader sees: a frozen card is never edited, output is written to one card,
\* and that card only moves down.
KeepsDisplay == Display!DisplaySpec
=============================================================================
