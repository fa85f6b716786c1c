-------------------------------- MODULE MCRdMap --------------------------------
(***************************************************************************)
(* Instances of RdMap for TLC.                                             *)
(***************************************************************************)
EXTENDS RdMap, TLC

\* Keys and values are only compared; the runs check no liveness.
Symmetry == Permutations(Key) \cup Permutations(Value)

=============================================================================
