------------------------------ MODULE MCSteering ------------------------------
(***************************************************************************)
(* Instances of Steering for TLC.  One compass point, free or not, is      *)
(* enough where the order of the fish matters; two or four are used where  *)
(* directions do.                                                          *)
(***************************************************************************)
EXTENDS Steering

=============================================================================
