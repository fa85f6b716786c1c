---------------------------- MODULE FountainProofs ----------------------------
(***************************************************************************)
(* Theorems about Fountain, for every school and every geometry.  The      *)
(* inductive invariant adds to the types that the fish in front which the  *)
(* loop has passed have the velocity Escape gives them.                    *)
(***************************************************************************)
EXTENDS Fountain, TLAPS

Steered(S) == \A f \in S : InFront(f) => Velocity[f] = Escape(f)

SteerInv ==
  /\ pc = "steer" => Steered(1 .. idx - 1)
  /\ pc = "move" => Steered(Fish)

IInv == TypeOK /\ SteerInv

-----------------------------------------------------------------------------

\* A quarter turn is orthogonal, and exchanges the two products.
LEMMA QuarterTurn ==
  ASSUME NEW B \in Vector, NEW C \in Vector
  PROVE  /\ TurnRight(B) \in Vector /\ TurnLeft(B) \in Vector
         /\ Dot(TurnRight(B), B) = 0 /\ Dot(TurnLeft(B), B) = 0
         /\ Dot(TurnRight(B), C) = Cross(C, B) /\ Dot(TurnLeft(B), C) = -Cross(C, B)
         /\ Cross(C, TurnRight(B)) = -Dot(C, B) /\ Cross(C, TurnLeft(B)) = Dot(C, B)
         /\ Cross(C, B) \in Int /\ Dot(C, B) \in Int
<1>1. PICK b1 \in Int, b2 \in Int, c1 \in Int, c2 \in Int : B = <<b1, b2>> /\ C = <<c1, c2>>
  BY DEF Vector
<1>2. TurnRight(B) = <<b2, -b1>> /\ TurnLeft(B) = <<-b2, b1>>
  BY <1>1 DEF TurnRight, TurnLeft
<1>3. TurnRight(B) \in Vector /\ TurnLeft(B) \in Vector
  BY <1>1, <1>2 DEF Vector
<1>4. Cross(C, B) = c1 * b2 - b1 * c2 /\ Dot(C, B) = c1 * b1 + c2 * b2
  BY <1>1 DEF Cross, Dot
<1>5. /\ Dot(TurnRight(B), B) = b2 * b1 + (-b1) * b2
      /\ Dot(TurnLeft(B), B) = (-b2) * b1 + b1 * b2
      /\ Dot(TurnRight(B), C) = b2 * c1 + (-b1) * c2
      /\ Dot(TurnLeft(B), C) = (-b2) * c1 + b1 * c2
  BY <1>1, <1>2 DEF Dot
<1>6. /\ Cross(C, TurnRight(B)) = c1 * (-b1) - b2 * c2
      /\ Cross(C, TurnLeft(B)) = c1 * b1 - (-b2) * c2
  BY <1>1, <1>2 DEF Cross
<1> QED
  BY <1>1, <1>3, <1>4, <1>5, <1>6

\* Moving along the predator's course does not change the side of it.
LEMMA SideAfterMove ==
  ASSUME NEW B \in Vector, NEW v \in Vector, NEW a \in Nat, NEW b \in Nat, course \in Vector
  PROVE  Cross(course, Moved(B, a, v, b)) = Cross(course, B) + a * Cross(course, v)
<1>1. PICK b1 \in Int, b2 \in Int, v1 \in Int, v2 \in Int, c1 \in Int, c2 \in Int :
        B = <<b1, b2>> /\ v = <<v1, v2>> /\ course = <<c1, c2>>
  BY DEF Vector
<1>2. Moved(B, a, v, b) = <<b1 + (a * v1 + (-b) * c1), b2 + (a * v2 + (-b) * c2)>>
  BY <1>1 DEF Moved, Plus, Times
<1>3. Cross(course, Moved(B, a, v, b))
        = c1 * (b2 + (a * v2 + (-b) * c2)) - (b1 + (a * v1 + (-b) * c1)) * c2
  BY <1>1, <1>2 DEF Cross
<1>4. Cross(course, B) = c1 * b2 - b1 * c2 /\ Cross(course, v) = c1 * v2 - v1 * c2
  BY <1>1 DEF Cross
<1>5. c1 * (b2 + (a * v2 + (-b) * c2)) - (b1 + (a * v1 + (-b) * c1)) * c2
        = (c1 * b2 - b1 * c2) + a * (c1 * v2 - v1 * c2)
  OBVIOUS
<1> QED
  BY <1>3, <1>4, <1>5

\* What Escape does, by the side the fish is on.
LEMMA EscapeFacts ==
  ASSUME TypeOK, NEW f \in Fish
  PROVE  /\ Escape(f) \in Vector
         /\ Dot(Escape(f), place[f]) = 0
         /\ Dot(Escape(f), course) = IF OnLeft(f) THEN Cross(course, place[f])
                                     ELSE -Cross(course, place[f])
         /\ Cross(course, Escape(f)) = IF OnLeft(f) THEN -Dot(course, place[f])
                                       ELSE Dot(course, place[f])
         /\ Cross(course, place[f]) \in Int /\ Dot(course, place[f]) \in Int
<1>1. place[f] \in Vector /\ course \in Vector
  BY FountainAssumption DEF TypeOK
<1> QED
  BY <1>1, QuarterTurn DEF Escape

-----------------------------------------------------------------------------

LEMMA TypeStep ==
  ASSUME TypeOK, [Next]_vars
  PROVE  TypeOK'
<1> USE FountainAssumption DEF TypeOK
<1>1. CASE BeginTick
  BY <1>1 DEF BeginTick
<1>2. CASE SteerFront
  <2>1. idx \in Fish
    BY <1>2 DEF SteerFront, Fish
  <2>2. Escape(idx) \in Vector
    BY <2>1, EscapeFacts
  <2> QED
    BY <1>2, <2>1, <2>2 DEF SteerFront
<1>3. CASE SteerBehind
  <2>1. idx \in Fish
    BY <1>3 DEF SteerBehind, Fish
  <2> QED
    BY <1>3, <2>1 DEF SteerBehind
<1>4. CASE EndLoop
  BY <1>4 DEF EndLoop
<1>5. CASE Move
  <2>1. place' \in [Fish -> Places]
    BY <1>5 DEF Move
  <2> QED
    BY <1>5, <2>1 DEF Move
<1>6. CASE UNCHANGED vars
  BY <1>6 DEF vars
<1> QED
  BY <1>1, <1>2, <1>3, <1>4, <1>5, <1>6 DEF Next

LEMMA SteerStep ==
  ASSUME TypeOK, SteerInv, [Next]_vars
  PROVE  SteerInv'
<1>1. CASE BeginTick
  <2>1. 1 .. idx' - 1 = {} /\ pc' = "steer"
    BY <1>1 DEF BeginTick
  <2> QED
    BY <2>1 DEF SteerInv, Steered
<1>2. CASE SteerFront \/ SteerBehind
  <2>1. /\ pc = "steer" /\ pc' = "steer" /\ idx \in Fish /\ idx' = idx + 1
        /\ UNCHANGED <<place, course>>
    BY <1>2 DEF SteerFront, SteerBehind, TypeOK, Fish
  <2>2. ASSUME NEW f \in 1 .. idx' - 1, InFront(f)'
        PROVE  Velocity'[f] = Escape(f)'
    <3>1. InFront(f) /\ Escape(f)' = Escape(f) /\ f \in 1 .. idx
      BY <2>1, <2>2 DEF InFront, Escape, OnLeft, TypeOK
    <3>2. CASE f = idx
      BY <1>2, <2>1, <3>1, <3>2 DEF SteerFront, SteerBehind, TypeOK
    <3>3. CASE f # idx
      <4>1. f \in 1 .. idx - 1 /\ f \in Fish
        BY <2>1, <3>1, <3>3, FountainAssumption DEF Fish
      <4>2. Velocity'[f] = Velocity[f]
        BY <1>2, <3>3, <4>1 DEF SteerFront, SteerBehind, TypeOK
      <4> QED
        BY <2>1, <3>1, <4>1, <4>2 DEF SteerInv, Steered
    <3> QED
      BY <3>2, <3>3
  <2> QED
    BY <2>1, <2>2 DEF SteerInv, Steered
<1>3. CASE EndLoop
  <2>1. Fish \subseteq 1 .. idx - 1
    BY <1>3, FountainAssumption DEF EndLoop, Fish, TypeOK
  <2>2. Steered(Fish)
    BY <1>3, <2>1 DEF EndLoop, SteerInv, Steered
  <2> QED
    BY <1>3, <2>2 DEF EndLoop, SteerInv, Steered, InFront, Escape, OnLeft
<1>4. CASE Move
  BY <1>4 DEF Move, SteerInv
<1>5. CASE UNCHANGED vars
  BY <1>5 DEF vars, SteerInv, Steered, InFront, Escape, OnLeft
<1> QED
  BY <1>1, <1>2, <1>3, <1>4, <1>5 DEF Next

LEMMA FountainInductive == Spec => []IInv
<1>1. Init => IInv
  <2> SUFFICES ASSUME Init PROVE IInv
    OBVIOUS
  <2>1. Velocity \in [Fish -> Vector] /\ 1 \in 1 .. FishNum + 1
    BY FountainAssumption DEF Init
  <2> QED
    BY <2>1 DEF Init, IInv, TypeOK, SteerInv
<1>2. IInv /\ [Next]_vars => IInv'
  BY TypeStep, SteerStep DEF IInv
<1> QED
  BY <1>1, <1>2, PTL DEF Spec

-----------------------------------------------------------------------------

\* The state of the loop stays well typed.
THEOREM FountainTypeOK == Spec => []TypeOK
<1>1. IInv => TypeOK
  BY DEF IInv
<1> QED
  BY <1>1, FountainInductive, PTL

\* Wherever the fish and the predator are, an escaping fish crosses the line to
\* the predator and never swims along with it.
THEOREM FountainEscapesPastThePredator == Spec => []EscapesPastThePredator
<1>1. IInv => EscapesPastThePredator
  <2> SUFFICES ASSUME IInv, pc = "move", NEW f \in Fish, InFront(f)
               PROVE  /\ Dot(Velocity[f], place[f]) = 0
                      /\ Dot(Velocity[f], course) <= 0
                      /\ OnLeft(f) => Dot(Velocity[f], course) < 0
    BY DEF EscapesPastThePredator
  <2>1. Velocity[f] = Escape(f)
    BY DEF IInv, SteerInv, Steered
  <2>2. TypeOK
    BY DEF IInv
  <2> QED
    BY <2>1, <2>2, EscapeFacts DEF OnLeft
<1> QED
  BY <1>1, FountainInductive, PTL

\* Escaping fish part from the predator's course ahead of it and close in behind.
THEOREM FountainPartAheadJoinBehind == Spec => []PartAheadJoinBehind
<1>1. IInv => PartAheadJoinBehind
  <2> SUFFICES ASSUME IInv, pc = "move", NEW f \in Fish, InFront(f)
               PROVE  LET aside == IF OnLeft(f) THEN -Cross(course, Velocity[f])
                                   ELSE Cross(course, Velocity[f])
                      IN  /\ Dot(course, place[f]) > 0 => aside > 0
                          /\ Dot(course, place[f]) < 0 => aside < 0
    BY DEF PartAheadJoinBehind
  <2>1. Velocity[f] = Escape(f)
    BY DEF IInv, SteerInv, Steered
  <2>2. TypeOK
    BY DEF IInv
  <2> QED
    BY <2>1, <2>2, EscapeFacts
<1> QED
  BY <1>1, FountainInductive, PTL

\* No fish changes sides before the predator has passed it, however far fish and
\* predator go in a frame.
THEOREM FountainKeepsSideAhead == Spec => KeepsSideAhead
<1>1. IInv /\ [Next]_vars =>
        [Move => \A f \in Fish :
           InFront(f) /\ Dot(course, place[f]) >= 0 => OnLeft(f)' = OnLeft(f)]_vars
  <2> SUFFICES ASSUME IInv, Move, NEW f \in Fish, InFront(f), Dot(course, place[f]) >= 0
               PROVE  OnLeft(f)' = OnLeft(f)
    OBVIOUS
  <2>1. Velocity[f] = Escape(f) /\ TypeOK
    BY DEF IInv, SteerInv, Steered, Move
  <2>2. place[f] \in Vector /\ course \in Vector /\ Velocity[f] \in Vector
    BY <2>1, FountainAssumption DEF TypeOK
  <2>3. PICK b \in Paces, a \in [Fish -> Paces] :
          place' = [g \in Fish |-> Moved(place[g], a[g], Velocity[g], b)]
    BY DEF Move
  <2>4. place'[f] = Moved(place[f], a[f], Velocity[f], b) /\ a[f] \in Nat /\ b \in Nat
    BY <2>3, FountainAssumption
  <2>5. Cross(course, place'[f]) = Cross(course, place[f]) + a[f] * Cross(course, Velocity[f])
    BY <2>2, <2>4, SideAfterMove
  <2>6. /\ Cross(course, place[f]) \in Int
        /\ Cross(course, Velocity[f]) = IF OnLeft(f) THEN -Dot(course, place[f])
                                        ELSE Dot(course, place[f])
        /\ Dot(course, place[f]) \in Int
    BY <2>1, EscapeFacts
  <2>7. a[f] * Dot(course, place[f]) >= 0 /\ a[f] * Dot(course, place[f]) \in Int
    BY <2>4, <2>6
  <2>8. CASE OnLeft(f)
    <3>1. a[f] * (-Dot(course, place[f])) = -(a[f] * Dot(course, place[f]))
      BY <2>4, <2>6
    <3>2. Cross(course, place'[f]) < 0
      BY <2>5, <2>6, <2>7, <2>8, <3>1 DEF OnLeft
    <3> QED
      BY <2>8, <3>2 DEF OnLeft, Move
  <2>9. CASE ~OnLeft(f)
    <3>1. ~(Cross(course, place'[f]) < 0)
      BY <2>5, <2>6, <2>7, <2>9 DEF OnLeft
    <3> QED
      BY <2>9, <3>1 DEF OnLeft, Move
  <2> QED
    BY <2>8, <2>9
<1> QED
  BY <1>1, FountainInductive, PTL DEF Spec, KeepsSideAhead

=============================================================================
