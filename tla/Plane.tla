-------------------------------- MODULE Plane --------------------------------
(***************************************************************************)
(* Vectors of the horizontal plane, with integer coordinates.  Only signs  *)
(* and comparisons of the quantities below matter to the manoeuvres, so    *)
(* lengths are compared by their squares and directions are kept without   *)
(* normalising them.                                                       *)
(***************************************************************************)
EXTENDS Integers

Vector == Int \X Int

Zero == <<0, 0>>

\* A.X * B.Y - B.X * A.Y: positive if B is to the left of A.
Cross(A, B) == A[1] * B[2] - B[1] * A[2]

Dot(A, B) == A[1] * B[1] + A[2] * B[2]

\* The square of FVector::Dist from the origin.
Dist2(A) == A[1] * A[1] + A[2] * A[2]

\* A turned by a quarter to either side: FVector(-A.Y, A.X, 0) and
\* FVector(A.Y, -A.X, 0).
TurnLeft(A) == <<-A[2], A[1]>>
TurnRight(A) == <<A[2], -A[1]>>

=============================================================================
