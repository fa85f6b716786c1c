--------------------------- MODULE NearestDirection ---------------------------
(***************************************************************************)
(* How one fish finds its way in Wander, Compact and Join: it casts rays   *)
(* on rings around its forward direction (DetectNoCollisionDirections),    *)
(* takes the first of the free directions that is nearest to its target    *)
(* velocity (FindNearest), and aims at that direction, or at the target    *)
(* itself if the two are less than five degrees apart.                     *)
(*                                                                         *)
(* Each ring is sampled from 0 to 360 degrees, both ends included, and the *)
(* first ring is a point.  Angles are those between a direction and the    *)
(* target, in some unit; only their order matters.                         *)
(***************************************************************************)
EXTENDS Integers, Sequences, Functions

CONSTANTS
  Iteration,      \* how many intervals VisionDistance is divided into
  MaxPointsNum,   \* the number of points of the last ring
  Angles,         \* bound: the angles to the target
  Threshold       \* five degrees

PointsNum(r) == LET n == (r * MaxPointsNum) \div Iteration IN IF n < 1 THEN 1 ELSE n

Rings == 0 .. Iteration

\* The direction a sample looks in: the ends of a ring coincide.
Direction(r, p) == <<r, IF r = 0 THEN 0 ELSE p % PointsNum(r)>>

Directions == {Direction(s[1], s[2]) : s \in UNION {{r} \X (0 .. PointsNum(r)) : r \in Rings}}

ASSUME NearestAssumption ==
  /\ Iteration \in Nat \ {0}
  /\ MaxPointsNum \in Nat
  /\ Angles \subseteq Nat
  /\ Threshold \in Nat

VARIABLES
  pc,          \* the loop that runs: "rings", "find", then "done"
  lastRing,    \* the last ring the float counter reaches
  open,        \* the directions in which no ray hits an obstacle
  angle,       \* how far each direction is from the target
  ring, point, \* the counters of the loops over the samples
  Results,     \* the free directions found, in the order of the samples
  Idx,         \* the counter of FindNearest, and its two results
  ArgMin,
  CurrentMin,
  aim          \* what the fish aims at: "nearest", "target", "stop", or "none" yet

world == <<lastRing, open, angle>>
vars == <<pc, world, ring, point, Results, Idx, ArgMin, CurrentMin, aim>>

\* Rounding can take the counter past VisionDistance one ring early.
Init ==
  /\ pc = "rings"
  /\ lastRing \in {Iteration - 1, Iteration}
  /\ open \in SUBSET Directions
  /\ angle \in [Directions -> Angles]
  /\ ring = 0 /\ point = 0
  /\ Results = <<>>
  /\ Idx = 1 /\ ArgMin = 0 /\ CurrentMin = 0
  /\ aim = "none"

\* The ray in this direction hits an obstacle.
Hit(d) == d \notin open

\* One ray.
Cast ==
  /\ pc = "rings" /\ ring <= lastRing /\ point <= PointsNum(ring)
  /\ Results' = IF Hit(Direction(ring, point)) THEN Results
                ELSE Append(Results, Direction(ring, point))
  /\ point' = point + 1
  /\ UNCHANGED <<pc, world, ring, Idx, ArgMin, CurrentMin, aim>>

NextRing ==
  /\ pc = "rings" /\ ring <= lastRing /\ point > PointsNum(ring)
  /\ ring' = ring + 1 /\ point' = 0
  /\ UNCHANGED <<pc, world, Results, Idx, ArgMin, CurrentMin, aim>>

\* Nothing was found: the fish stops.
NoWay ==
  /\ pc = "rings" /\ ring > lastRing /\ Results = <<>>
  /\ pc' = "done"
  /\ aim' = "stop"
  /\ UNCHANGED <<world, ring, point, Results, Idx, ArgMin, CurrentMin>>

\* FindNearest is called.
BeginFind ==
  /\ pc = "rings" /\ ring > lastRing /\ Results # <<>>
  /\ pc' = "find"
  /\ UNCHANGED <<world, ring, point, Results, Idx, ArgMin, CurrentMin, aim>>

\* Fault: the sentinel is not looked at.
BetterThanZero == angle[Results[Idx]] < CurrentMin

Better == ArgMin = 0 \/ angle[Results[Idx]] < CurrentMin

\* One iteration of FindNearest.
FindNearest ==
  /\ pc = "find" /\ Idx <= Len(Results)
  /\ IF Better
     THEN CurrentMin' = angle[Results[Idx]] /\ ArgMin' = Idx
     ELSE UNCHANGED <<CurrentMin, ArgMin>>
  /\ Idx' = Idx + 1
  /\ UNCHANGED <<pc, world, ring, point, Results, aim>>

\* The goal of the interpolation.
Aim ==
  /\ pc = "find" /\ Idx > Len(Results)
  /\ pc' = "done"
  /\ aim' = IF CurrentMin >= Threshold THEN "nearest" ELSE "target"
  /\ UNCHANGED <<world, ring, point, Results, Idx, ArgMin, CurrentMin>>

Next ==
  \/ Cast
  \/ NextRing
  \/ NoWay
  \/ BeginFind
  \/ FindNearest
  \/ Aim

Spec == Init /\ [][Next]_vars

-----------------------------------------------------------------------------

\* Type invariant.
TypeOK ==
  /\ pc \in {"rings", "find", "done"}
  /\ lastRing \in {Iteration - 1, Iteration}
  /\ open \subseteq Directions
  /\ angle \in [Directions -> Angles]
  /\ ring \in 0 .. Iteration + 1 /\ point \in Nat
  /\ Results \in Seq(Directions)
  /\ Idx \in 1 .. Len(Results) + 1
  /\ ArgMin \in 0 .. Len(Results)
  /\ CurrentMin \in Nat
  /\ aim \in {"none", "stop", "target", "nearest"}

Found == Range(Results)

\* The directions the rays reach.
Seen == {d \in Directions : d[1] <= lastRing}

\* The array of results is what is open, no more and no less, though rings end
\* where they begin and the last of them may be left out.
FoundIsOpen == pc # "rings" => Found = open \cap Seen

\* The fish stops if and only if every ray hits something; else it aims at the
\* target only if an open direction is less than five degrees from it, and at
\* an open direction only if that is at least as near to the target as any.
AimIsNearestOpen ==
  pc = "done" =>
    /\ aim = "stop" <=> open \cap Seen = {}
    /\ aim = "target" <=> \E d \in open \cap Seen : angle[d] < Threshold
    /\ aim = "nearest" =>
         /\ Results[ArgMin] \in open
         /\ \A d \in open \cap Seen : angle[Results[ArgMin]] <= angle[d]

\* Of open directions equally near to the target the fish takes one that is
\* nearest to straight ahead.  When the target is zero, all of them are.
AimIsAheadOfEquals ==
  pc = "done" /\ aim = "nearest" =>
    \A d \in open \cap Seen :
      angle[d] = angle[Results[ArgMin]] => Results[ArgMin][1] <= d[1]

=============================================================================
