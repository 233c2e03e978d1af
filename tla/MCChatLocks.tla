----------------------------- MODULE MCChatLocks -----------------------------
(***************************************************************************)
(* ChatLocks as TLC checks it: the cfg gives the constants.                *)
(***************************************************************************)
EXTENDS ChatLocks, TLC
=============================================================================
