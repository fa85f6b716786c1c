-------------------------- MODULE MCNearestDirection --------------------------
(***************************************************************************)
(* The instance of NearestDirection that TLC checks: a point and two rings *)
(* of one and three points, and angles below, at and above the threshold.  *)
(***************************************************************************)
EXTENDS NearestDirection

=============================================================================
