------------------------------ MODULE MCFountain ------------------------------
(***************************************************************************)
(* Instances of Fountain for TLC: two fish on a grid around the predator,  *)
(* which rests or swims along an axis or between two.                      *)
(***************************************************************************)
EXTENDS Fountain

Grid == (-2 .. 2) \X (-2 .. 2)

FewCourses == {<<0, 0>>, <<1, 0>>, <<-1, 0>>, <<0, 1>>, <<1, -1>>}

FewSwims == {<<0, 0>>, <<-1, 1>>}

FewPaces == {0, 1}

=============================================================================
