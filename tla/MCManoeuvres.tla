----------------------------- MODULE MCManoeuvres -----------------------------
(***************************************************************************)
(* Instances of Manoeuvres for TLC.                                        *)
(***************************************************************************)
EXTENDS Manoeuvres, MCFishController

TwoPlaces == {-1, 2}
=============================================================================
