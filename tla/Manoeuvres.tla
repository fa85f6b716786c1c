------------------------------ MODULE Manoeuvres ------------------------------
(***************************************************************************)
(* What the group remembers of the manoeuvre it is in: the direction in    *)
(* which Hourglass turns and the course it began with, the place FlashIn   *)
(* returns to, and the spread that Join measures.  The group's tick writes *)
(* them, in the state that the state machine is in at that moment; two     *)
(* events of the state machine, when Hourglass and FlashIn are left, make  *)
(* the group forget them.  Both take part in the frame of FishController.  *)
(*                                                                         *)
(* Velocities are abstracted to the heading of their average, one of three *)
(* that lie more than a quarter turn apart, or none; positions to their    *)
(* centroid on a line; the spread is a whole number.  A predator is there. *)
(***************************************************************************)
EXTENDS FishController

CONSTANTS
  Place,        \* the coordinates the centroid may have
  MaxDistance   \* bound: no fish is farther from the centroid

ASSUME ManoeuvreAssumption ==
  /\ IsFiniteSet(FishId) /\ Cardinality(FishId) >= 2
  /\ Place \subseteq Int
  /\ MaxDistance \in Nat

\* A way of the state machine from s to t in n transitions.
Way(s, t, n, way) ==
  /\ way \in [0 .. n -> StateName]
  /\ way[0] = s /\ way[n] = t
  /\ \A i \in 1 .. n : <<way[i - 1], way[i]>> \in Transitions

\* One frame is not enough to leave either of two manoeuvres and to come back.
ASSUME NoQuickReturn ==
  \A s \in {"Hourglass", "FlashIn"}, n \in 1 .. MaxTransitions :
    \A way \in [0 .. n -> StateName] : ~Way(s, s, n, way)

VARIABLES
  Hourglass_Initialized, Hourglass_Turning_Direction,
  Hourglass_Initial_Vector, Hourglass_Current_Vector,
  Flash_Initialized, Flash_Return_Position,
  AverageDistanceFromCentroid,
  visit   \* auxiliary: what the group saw in its first tick in the current state

hourglassVars == <<Hourglass_Initialized, Hourglass_Turning_Direction,
                   Hourglass_Initial_Vector, Hourglass_Current_Vector>>
flashVars == <<Flash_Initialized, Flash_Return_Position>>
memoryVars == <<hourglassVars, flashVars, AverageDistanceFromCentroid>>
manoeuvreVars == <<vars, memoryVars, visit>>

Heading == 1 .. 3
Zero == 0         \* no heading: the zero vector, or one that is not a number

Num == Cardinality(FishId)

NewVisit == [ticked |-> FALSE, course |-> Zero, side |-> 0, turned |-> FALSE, centroid |-> 0]

\* The angle is more than a quarter turn; never with the zero vector.
HasFlockShiftNinetyDegree(initial, current) ==
  initial # current /\ initial # Zero /\ current # Zero

-----------------------------------------------------------------------------

ManoeuvreInit ==
  /\ Init
  /\ Hourglass_Initialized = FALSE /\ Hourglass_Turning_Direction = 0
  /\ Hourglass_Initial_Vector = Zero /\ Hourglass_Current_Vector = Zero
  /\ Flash_Initialized = FALSE /\ Flash_Return_Position = 0
  /\ AverageDistanceFromCentroid = 0
  /\ visit = NewVisit

\* The first tick of a visit is noted.
Note(course, side, turned, centroid) ==
  visit' = IF visit.ticked THEN visit
           ELSE [ticked |-> TRUE, course |-> course, side |-> side, turned |-> turned, centroid |-> centroid]

\* UpdateFishVelocities_Hourglass: the course and the side with more fish are
\* kept from the first tick on; afterwards the velocities have some average.
Hourglass ==
  \E average, after \in Heading \cup {Zero}, side \in {1, 2} :
    LET initial == IF Hourglass_Initialized THEN Hourglass_Initial_Vector ELSE average IN
    /\ Hourglass_Initial_Vector' = initial
    /\ Hourglass_Initialized' = TRUE
    /\ Hourglass_Turning_Direction' =
         IF Hourglass_Turning_Direction = 0 THEN side ELSE Hourglass_Turning_Direction
    /\ Hourglass_Current_Vector' = after
    /\ Note(average, side, HasFlockShiftNinetyDegree(initial, Hourglass_Current_Vector), 0)
    /\ UNCHANGED <<flashVars, AverageDistanceFromCentroid>>

\* UpdateFishVelocities_FlashInward: the sum of all places is added to the
\* return position and divided, once.
FlashInward ==
  \E centroid \in Place :
    /\ Flash_Return_Position' = IF Flash_Initialized THEN Flash_Return_Position
                                ELSE (Flash_Return_Position + Num * centroid) \div Num
    /\ Flash_Initialized' = TRUE
    /\ Note(Zero, 0, FALSE, centroid)
    /\ UNCHANGED <<hourglassVars, AverageDistanceFromCentroid>>

\* Fault: the sum is not divided.
SpreadSummed(sum) == AverageDistanceFromCentroid + sum

\* The distances are added to the last average before all is divided.
Spread(sum) == (AverageDistanceFromCentroid + sum) \div Num

\* UpdateFishVelocities_Join: a fish without a free direction ends it early.
Join ==
  \/ /\ \E sum \in 0 .. Num * MaxDistance : AverageDistanceFromCentroid' = Spread(sum)
     /\ Note(Zero, 0, FALSE, 0)
     /\ UNCHANGED <<hourglassVars, flashVars>>
  \/ Note(Zero, 0, FALSE, 0) /\ UNCHANGED memoryVars

\* UpdateFishVelocities, in the group's tick.
UpdateFishVelocities ==
  /\ GroupTick
  /\ \/ state = "Hourglass" /\ Hourglass
     \/ state = "FlashIn" /\ FlashInward
     \/ state = "Join" /\ Join
     \/ state \notin {"Hourglass", "FlashIn", "Join"} /\ Note(Zero, 0, FALSE, 0) /\ UNCHANGED memoryVars

-----------------------------------------------------------------------------

\* Fault: the direction is reset and the course is not.
ResetDirectionOnly ==
  /\ Hourglass_Turning_Direction' = 0
  /\ UNCHANGED <<Hourglass_Initialized, Hourglass_Initial_Vector, Hourglass_Current_Vector>>

ResetHourglassDirection ==
  /\ Hourglass_Turning_Direction' = 0
  /\ Hourglass_Initialized' = FALSE
  /\ Hourglass_Initial_Vector' = Zero
  /\ Hourglass_Current_Vector' = Zero

\* Fault: the return position stays.
ResetFlashFlag == Flash_Initialized' = FALSE /\ UNCHANGED Flash_Return_Position

ResetFlash ==
  /\ Flash_Return_Position' = 0
  /\ Flash_Initialized' = FALSE

\* The events of FishController; two of them also make the group forget.
Handle ==
  /\ HandleEvent
  /\ IF Head(events) = [kind |-> "leave", of |-> "Hourglass"]
       THEN ResetHourglassDirection ELSE UNCHANGED hourglassVars
  /\ IF Head(events) = [kind |-> "leave", of |-> "FlashIn"]
       THEN ResetFlash ELSE UNCHANGED flashVars
  /\ UNCHANGED <<AverageDistanceFromCentroid, visit>>

Change == Transition /\ visit' = NewVisit /\ UNCHANGED memoryVars

Elsewhere ==
  /\ (\E f \in FishId : FishTick(f)) \/ PawnTick \/ UpdateControllerState \/ NextFrame
  /\ UNCHANGED <<memoryVars, visit>>

ManoeuvreNext == UpdateFishVelocities \/ Handle \/ Change \/ Elsewhere

ManoeuvreSpec == ManoeuvreInit /\ [][ManoeuvreNext]_manoeuvreVars

-----------------------------------------------------------------------------
(* Properties *)

\* The types, and the range of the spread: it is no average, as the last one is
\* added each time, but stays below MaxDistance * Num / (Num - 1).
ManoeuvreTypeOK ==
  /\ TypeOK
  /\ Hourglass_Initialized \in BOOLEAN /\ Hourglass_Turning_Direction \in 0 .. 2
  /\ Hourglass_Initial_Vector \in Heading \cup {Zero}
  /\ Hourglass_Current_Vector \in Heading \cup {Zero}
  /\ Flash_Initialized \in BOOLEAN /\ Flash_Return_Position \in Int
  /\ AverageDistanceFromCentroid \in Nat
  /\ (Num - 1) * AverageDistanceFromCentroid <= Num * MaxDistance

\* Hourglass turns, in the direction that was right when this visit began, away
\* from the course the school had then, and it does begin to turn: nothing of
\* an earlier visit is left when the group first ticks in it, in whatever order
\* the group, the transitions and their events come.
HourglassOfThisVisit ==
  state = "Hourglass" =>
    /\ visit.ticked => /\ Hourglass_Initial_Vector = visit.course
                       /\ Hourglass_Turning_Direction = visit.side
                       /\ ~visit.turned
    /\ Hourglass_Initialized = visit.ticked

\* FlashIn returns to where the school was when this visit began.
FlashReturnsToCentroid ==
  state = "FlashIn" /\ visit.ticked => Flash_Return_Position = visit.centroid

=============================================================================
