-------------------------- MODULE MCMessageBatches --------------------------
(***************************************************************************)
(* MessageBatches as TLC checks it: the cfg gives the constants.           *)
(***************************************************************************)
EXTENDS MessageBatches, TLC
=============================================================================
