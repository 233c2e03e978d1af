--------------------------- MODULE MCInboundQueue ---------------------------
(***************************************************************************)
(* InboundQueue as TLC checks it: the cfg gives the constants.             *)
(***************************************************************************)
EXTENDS InboundQueue, TLC
=============================================================================
