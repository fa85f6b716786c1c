-------------------------------- MODULE MCWire --------------------------------
(***************************************************************************)
(* Instances of Wire for TLC.                                              *)
(***************************************************************************)
EXTENDS Wire

=============================================================================
