---------------------------- MODULE MCSchoolSetup ----------------------------
(***************************************************************************)
(* The instance of SchoolSetup that TLC checks: a school small enough for  *)
(* every shuffle, with up to MaxFailures failed spawns.                    *)
(***************************************************************************)
EXTENDS SchoolSetup

=============================================================================
