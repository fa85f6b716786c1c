--------------------------- MODULE MCSplitManoeuvre ---------------------------
(***************************************************************************)
(* Instances of SplitManoeuvre for TLC: places at two distances on either  *)
(* side of a course along the X axis, and the predator's own place.        *)
(***************************************************************************)
EXTENDS SplitManoeuvre

FewPlaces == {<<0, 0>>, <<0, 1>>, <<1, 1>>, <<1, -1>>}

\* At rest, and to either end of the axis.
FewCourses == {<<0, 0>>, <<1, 0>>, <<-1, 0>>}

=============================================================================
