--------------------------- MODULE MCCardKitTurn ---------------------------
EXTENDS CardKitTurnWrites, TLC
=============================================================================
