------------------------------- MODULE Fountain -------------------------------
(***************************************************************************)
(* The Fountain manoeuvre of AFishGroup.  Each tick, a fish that counts as *)
(* in front of the predator swims across the line between the two, on the  *)
(* side of the predator's course it is on; a fish that counts as behind    *)
(* follows the boids rules.                                                *)
(*                                                                         *)
(* Fish escape in the horizontal plane.  A place is relative to the        *)
(* predator, and an escape is kept as long as the fish is far: the code    *)
(* scales it to max_speed_escape, here a move goes any part of it.         *)
(***************************************************************************)
EXTENDS Plane

CONSTANTS
  FishNum,   \* the number of fish in the array Fishes
  Places,    \* bound: where fish may be, relative to the predator
  Courses,   \* bound: the predator's velocities
  Swims,     \* bound: what the boids rules may answer
  Paces      \* bound: how far a frame takes a fish or the predator

ASSUME FountainAssumption ==
  /\ FishNum \in Nat
  /\ Places \subseteq Vector
  /\ Courses \subseteq Vector
  /\ Swims \subseteq Vector
  /\ Paces \subseteq Nat

Fish == 1 .. FishNum

VARIABLES
  pc,        \* "idle" between ticks, "steer" in the loop, "move" after it
  idx,       \* the counter of the loop
  place,     \* where each fish is, relative to the predator
  course,    \* the predator's velocity
  Velocity   \* of each fish

vars == <<pc, idx, place, course, Velocity>>

\* The cosine of the angle between B and D is at least -1/2; CosineAngle2D
\* answers 0 for the angle with the zero vector.
Within120(B, D) ==
  Dot(B, D) >= 0 \/ 4 * Dot(B, D) * Dot(B, D) <= Dist2(B) * Dist2(D)

\* The fish is in front, by the angle between its place and the X axis.
\* IsAnyFishFront, which the state machine can ask, uses the same test.
InFront(f) == Within120(place[f], <<1, 0>>)

\* The fish is on the side of the predator's course that the code calls left.
OnLeft(f) == Cross(course, place[f]) < 0

\* Fault: everyone to the same side.
EscapeOneWay(f) == TurnRight(place[f])

\* Runaway_Velocity turned by a quarter.
Escape(f) == IF OnLeft(f) THEN TurnRight(place[f]) ELSE TurnLeft(place[f])

-----------------------------------------------------------------------------

Init ==
  /\ pc = "idle"
  /\ idx = 1
  /\ place \in [Fish -> Places]
  /\ course \in Courses
  /\ Velocity \in [Fish -> Swims]

\* The predator may have turned since the last tick.
BeginTick ==
  /\ pc = "idle"
  /\ pc' = "steer"
  /\ idx' = 1
  /\ course' \in Courses
  /\ UNCHANGED <<place, Velocity>>

\* One iteration of the loop, for a fish in front.
SteerFront ==
  /\ pc = "steer" /\ idx <= FishNum /\ InFront(idx)
  /\ Velocity' = [Velocity EXCEPT ![idx] = Escape(idx)]
  /\ idx' = idx + 1
  /\ UNCHANGED <<pc, place, course>>

\* One iteration, for a fish behind: cohesion, separation and alignment.
SteerBehind ==
  /\ pc = "steer" /\ idx <= FishNum /\ ~InFront(idx)
  /\ \E v \in Swims : Velocity' = [Velocity EXCEPT ![idx] = v]
  /\ idx' = idx + 1
  /\ UNCHANGED <<pc, place, course>>

EndLoop ==
  /\ pc = "steer" /\ idx > FishNum
  /\ pc' = "move"
  /\ UNCHANGED <<idx, place, course, Velocity>>

Plus(A, B) == <<A[1] + B[1], A[2] + B[2]>>
Times(k, A) == <<k * A[1], k * A[2]>>

\* Where a fish with velocity v is, relative to the predator, after a frame.
Moved(B, a, v, b) == Plus(B, Plus(Times(a, v), Times(-b, course)))

\* The fish and the predator move on.
Move ==
  /\ pc = "move"
  /\ pc' = "idle"
  /\ \E b \in Paces : \E a \in [Fish -> Paces] :
       place' = [f \in Fish |-> Moved(place[f], a[f], Velocity[f], b)]
  /\ \A f \in Fish : place'[f] \in Places
  /\ UNCHANGED <<idx, course, Velocity>>

Next ==
  \/ BeginTick
  \/ SteerFront
  \/ SteerBehind
  \/ EndLoop
  \/ Move

Spec == Init /\ [][Next]_vars

-----------------------------------------------------------------------------

\* Type invariant.
TypeOK ==
  /\ pc \in {"idle", "steer", "move"}
  /\ idx \in 1 .. FishNum + 1
  /\ place \in [Fish -> Places]
  /\ course \in Courses
  /\ Velocity \in [Fish -> Vector]

\* A fish that escapes neither nears the predator nor swims along with it: it
\* goes across the line between them and against the predator's course.
EscapesPastThePredator ==
  pc = "move" =>
    \A f \in Fish : InFront(f) =>
      /\ Dot(Velocity[f], place[f]) = 0
      /\ Dot(Velocity[f], course) <= 0
      /\ OnLeft(f) => Dot(Velocity[f], course) < 0

\* The fish "divide into two groups, then escape and join behind the predator"
\* (index.md:71): those that escape part from the line of the predator's course
\* while they are ahead of it, to either side, and close in once it passed.
PartAheadJoinBehind ==
  pc = "move" =>
    \A f \in Fish : InFront(f) =>
      LET aside == IF OnLeft(f) THEN -Cross(course, Velocity[f]) ELSE Cross(course, Velocity[f])
      IN  /\ Dot(course, place[f]) > 0 => aside > 0
          /\ Dot(course, place[f]) < 0 => aside < 0

\* A fish that escapes ahead of the predator stays on its side of the course
\* when all move: the groups do not mix before the predator passed them.
KeepsSideAhead ==
  [][Move => \A f \in Fish :
       InFront(f) /\ Dot(course, place[f]) >= 0 => OnLeft(f)' = OnLeft(f)]_vars

=============================================================================
