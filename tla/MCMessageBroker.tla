---------------------------- MODULE MCMessageBroker ----------------------------
(***************************************************************************)
(* Instances of MessageBroker for TLC.                                     *)
(***************************************************************************)
EXTENDS MessageBroker
=============================================================================
