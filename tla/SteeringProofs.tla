---------------------------- MODULE SteeringProofs ----------------------------
(***************************************************************************)
(* Theorems about Steering, for every school, compass and spline.  The     *)
(* inductive invariant says that the fish the loop has reached are an      *)
(* initial piece of the array (LoopInv), and how far the leaders are apart *)
(* in the middle of a tick, when some have advanced and some have not      *)
(* (PaceInv).                                                              *)
(***************************************************************************)
EXTENDS Steering, TLAPS

LoopInv ==
  /\ pc = "target" => state \in BoidStates /\ blocked = 0 /\ checked = 1 .. idx - 1
  /\ pc = "look" => state \in BoidStates /\ blocked = 0 /\ idx \in Fish /\ checked = 1 .. idx
  /\ pc = "move" /\ state \in BoidStates =>
       \/ checked = Fish
       \/ blocked \in Fish /\ checked = 1 .. blocked /\ Velocity[blocked] = Still

\* What a leader advances in this tick, and the leaders that did.
Step == IF state = "Wander" THEN stride ELSE 2 * stride

Ahd == IF pc \in {"target", "look"} \/ (pc = "move" /\ state \in BoidStates) THEN checked ELSE {}

WholeLaps(x) == \E k \in Int : x = k * SplineLength

Drift(a, b) ==
  CumulativeWanderDistance[a] - CumulativeWanderDistance[b] - began[a] + began[b]

PaceInv ==
  \A a, b \in Leaders :
    missed[a] = missed[b] /\ missed[a] < MissCap =>
      /\ (a \in Ahd <=> b \in Ahd) => WholeLaps(Drift(a, b))
      /\ a \in Ahd /\ b \notin Ahd => WholeLaps(Drift(a, b) - Step)

IInv == TypeOK /\ LoopInv /\ LaterFishMissMore /\ PaceInv

-----------------------------------------------------------------------------

\* A number of whole laps leaves no remainder.
LEMMA LapsMod ==
  ASSUME NEW L \in Nat \ {0}, NEW k \in Int
  PROVE  (k * L) % L = 0
OBVIOUS

\* Fmod takes away whole laps.
LEMMA ModLaps ==
  ASSUME NEW L \in Nat \ {0}, NEW x \in Int
  PROVE  \E q \in Int : x % L = x - q * L
<1>1. x \div L \in Int /\ x = (L * (x \div L)) + (x % L)
  OBVIOUS
<1>2. x % L = x - (x \div L) * L
  BY <1>1
<1> QED
  BY <1>1, <1>2

LEMMA ModRange ==
  ASSUME NEW L \in Nat \ {0}, NEW x \in Int
  PROVE  x % L \in 0 .. L - 1
OBVIOUS

\* Drifts of whole laps stay so when laps are added, and when turned round.
LEMMA LapsCombine ==
  ASSUME NEW x \in Int, WholeLaps(x), NEW q \in Int
  PROVE  WholeLaps(x + q * SplineLength) /\ WholeLaps(q * SplineLength - x) /\ WholeLaps(0)
<1>1. PICK k \in Int : x = k * SplineLength
  BY DEF WholeLaps
<1>2. /\ x + q * SplineLength = (k + q) * SplineLength
      /\ q * SplineLength - x = (q - k) * SplineLength
      /\ 0 = 0 * SplineLength
  BY <1>1, SteeringAssumption
<1>3. k + q \in Int /\ q - k \in Int /\ 0 \in Int
  OBVIOUS
<1> QED
  BY <1>2, <1>3 DEF WholeLaps

\* The compass has a first point.
LEMMA CompassFacts ==
  0 \in Compass /\ Compass \subseteq Heading /\ Still \in Heading
BY SteeringAssumption DEF Compass, Heading

\* Nearest and Interpolated stay on the compass.
LEMMA InterpolatedType ==
  ASSUME NEW D \in SUBSET Compass, NEW t \in Heading, NEW goal \in Nearest(D, t),
         NEW v \in Heading, NEW w \in Interpolated(v, goal)
  PROVE  w \in Heading
<1>1. goal \in Compass
  BY DEF Nearest
<1> QED
  BY <1>1 DEF Interpolated, Between, Heading

LEMMA AdvancedType ==
  ASSUME TypeOK, NEW d \in Distance
  PROVE  Advanced(d) \in Distance /\ Step \in Nat
         /\ \E q \in Int : Advanced(d) = d + Step - q * SplineLength
<1>1. Step \in Nat /\ d + Step \in Int /\ Advanced(d) = (d + Step) % SplineLength
  BY DEF TypeOK, Step, Advanced, Distance
<1>2. (d + Step) % SplineLength \in Distance
  BY <1>1, ModRange, SteeringAssumption DEF Distance
<1>3. PICK q \in Int : (d + Step) % SplineLength = (d + Step) - q * SplineLength
  BY <1>1, ModLaps, SteeringAssumption
<1>4. Advanced(d) = d + Step - q * SplineLength
  <2>1. d \in Int /\ q * SplineLength \in Int
    BY SteeringAssumption DEF Distance
  <2> QED
    BY <1>1, <1>3, <2>1
<1>5. \E r \in Int : Advanced(d) = d + Step - r * SplineLength
  BY <1>4, Zenon
<1> QED
  BY <1>1, <1>2, <1>5

-----------------------------------------------------------------------------

LEMMA TypeStep ==
  ASSUME TypeOK, LoopInv, [Next]_vars
  PROVE  TypeOK'
<1> USE SteeringAssumption DEF TypeOK, loopVars, fishVars
<1>1. CASE EnterSkitter
  BY <1>1, CompassFacts DEF EnterSkitter
<1>2. CASE BeginLoop
  BY <1>2 DEF BeginLoop
<1>3. CASE Flee
  BY <1>3 DEF Flee
<1>4. CASE Skitter
  BY <1>4 DEF Skitter
<1>5. CASE Look
  <2>1. idx \in Fish
    BY <1>5 DEF Look, Fish
  <2>2. NoCollisionDirections' \subseteq Compass
    BY <1>5 DEF Look, Ahead
  <2>3. ASSUME NEW l \in Leaders
        PROVE  (IF l = idx THEN Advanced(CumulativeWanderDistance[l])
                ELSE CumulativeWanderDistance[l]) \in Distance
    <3>1. CumulativeWanderDistance[l] \in Distance
      OBVIOUS
    <3> QED
      BY <3>1, AdvancedType
  <2>4. CumulativeWanderDistance' \in [Leaders -> Distance]
    BY <1>5, <2>3 DEF Look
  <2> QED
    BY <1>5, <2>1, <2>2, <2>4 DEF Look
<1>6. CASE Steer
  <2>1. idx \in Fish
    BY <1>6 DEF Steer, Target, LoopInv
  <2>2. Velocity' \in [Fish -> Heading]
    <3>1. PICK t \in Heading :
            \E goal \in Nearest(NoCollisionDirections, t) :
              \E w \in Interpolated(Velocity[idx], goal) :
                Velocity' = [Velocity EXCEPT ![idx] = w]
      BY <1>6 DEF Steer, Target
    <3>2. PICK goal \in Nearest(NoCollisionDirections, t) :
            \E w \in Interpolated(Velocity[idx], goal) :
              Velocity' = [Velocity EXCEPT ![idx] = w]
      BY <3>1
    <3>3. PICK w \in Interpolated(Velocity[idx], goal) :
            Velocity' = [Velocity EXCEPT ![idx] = w]
      BY <3>2
    <3>4. w \in Heading
      BY <2>1, InterpolatedType
    <3> QED
      BY <3>3, <3>4
  <2> QED
    BY <1>6, <2>1, <2>2 DEF Steer, Target, Fish
<1>7. CASE Stop
  <2>1. idx \in Fish
    BY <1>7 DEF Stop, LoopInv
  <2> QED
    BY <1>7, <2>1, CompassFacts DEF Stop, Fish
<1>8. CASE EndLoop
  BY <1>8 DEF EndLoop
<1>9. CASE Move
  <2>1. missed' \in [Fish -> 0 .. MissCap]
    BY <1>9 DEF Move
  <2> QED
    BY <1>9, <2>1 DEF Move
<1>10. CASE UNCHANGED vars
  BY <1>10 DEF vars
<1> QED
  BY <1>1, <1>2, <1>3, <1>4, <1>5, <1>6, <1>7, <1>8, <1>9, <1>10 DEF Next

LEMMA LoopStep ==
  ASSUME TypeOK, LoopInv, [Next]_vars
  PROVE  LoopInv'
<1> USE SteeringAssumption DEF LoopInv, loopVars, fishVars
<1>1. CASE EnterSkitter
  BY <1>1 DEF EnterSkitter
<1>2. CASE BeginLoop
  <2>1. 1 .. 1 - 1 = {}
    OBVIOUS
  <2> QED
    BY <1>2, <2>1 DEF BeginLoop
<1>3. CASE Flee \/ Skitter
  BY <1>3 DEF Flee, Skitter, BoidStates, FleeStates
<1>4. CASE Look
  <2>1. idx \in Fish
    BY <1>4 DEF Look, Fish, TypeOK
  <2>2. (1 .. idx - 1) \cup {idx} = 1 .. idx
    BY <2>1 DEF Fish
  <2> QED
    BY <1>4, <2>1, <2>2 DEF Look
<1>5. CASE Steer
  <2>1. 1 .. idx = 1 .. (idx + 1) - 1
    BY DEF TypeOK
  <2> QED
    BY <1>5, <2>1 DEF Steer, Target
<1>6. CASE Stop
  BY <1>6 DEF Stop, TypeOK
<1>7. CASE EndLoop
  <2>1. 1 .. idx - 1 = Fish
    BY <1>7 DEF EndLoop, TypeOK, Fish
  <2> QED
    BY <1>7, <2>1 DEF EndLoop
<1>8. CASE Move
  BY <1>8 DEF Move
<1>9. CASE UNCHANGED vars
  BY <1>9 DEF vars
<1> QED
  BY <1>1, <1>2, <1>3, <1>4, <1>5, <1>6, <1>7, <1>8, <1>9 DEF Next

\* When the fish move, a fish the loop did not reach has only such behind it.
LEMMA UnreachedIsATail ==
  ASSUME TypeOK, LoopInv, pc = "move", NEW f \in Unreached, NEW g \in Fish, f < g
  PROVE  g \in Unreached
<1>1. state \in BoidStates /\ f \in Fish /\ f \notin checked
  BY DEF Unreached
<1>2. checked = 1 .. blocked /\ blocked \in Fish
  BY <1>1 DEF LoopInv
<1> QED
  BY <1>1, <1>2 DEF Unreached, Fish

LEMMA MissStep ==
  ASSUME TypeOK, LoopInv, LaterFishMissMore, [Next]_vars
  PROVE  LaterFishMissMore'
<1>1. CASE Move
  <2> SUFFICES ASSUME NEW f \in Fish, NEW g \in Fish, f < g
               PROVE  missed'[f] <= missed'[g]
    BY DEF LaterFishMissMore
  <2>1. missed[f] <= missed[g] /\ missed[f] \in 0 .. MissCap /\ missed[g] \in 0 .. MissCap
    BY DEF LaterFishMissMore, TypeOK
  <2>2. /\ missed'[f] = IF f \in Unreached /\ missed[f] < MissCap THEN missed[f] + 1
                        ELSE missed[f]
        /\ missed'[g] = IF g \in Unreached /\ missed[g] < MissCap THEN missed[g] + 1
                        ELSE missed[g]
    BY <1>1 DEF Move
  <2>3. f \in Unreached => g \in Unreached
    BY <1>1, UnreachedIsATail DEF Move
  <2> QED
    BY <2>1, <2>2, <2>3, SteeringAssumption
<1>2. CASE ~Move
  <2>1. missed' = missed
    BY <1>2 DEF Next, EnterSkitter, BeginLoop, Flee, Skitter, Look, Steer, Stop, EndLoop, vars
  <2> QED
    BY <2>1 DEF LaterFishMissMore
<1> QED
  BY <1>1, <1>2

-----------------------------------------------------------------------------

\* What the leaders that advanced in this tick have to do with each other and
\* with those that did not survives the advance of the next leader.
LEMMA PaceLook ==
  ASSUME TypeOK, LoopInv, PaceInv, Look
  PROVE  PaceInv'
<1> USE DEF LoopInv
<1>1. idx \in Fish /\ idx \notin checked /\ checked' = checked \cup {idx}
  BY DEF Look, TypeOK, Fish
<1>2. /\ Ahd = checked /\ Ahd' = checked \cup {idx}
      /\ Step' = Step /\ missed' = missed /\ began' = began
  BY <1>1 DEF Look, Ahd, Step
<1>3. ASSUME NEW a \in Leaders, NEW b \in Leaders
      PROVE  /\ CumulativeWanderDistance[a] \in Int /\ began[a] \in Int
             /\ Drift(a, b) \in Int /\ Drift(b, a) = -Drift(a, b)
             /\ Step \in Nat
             /\ Drift(a, b)' = CumulativeWanderDistance'[a] - CumulativeWanderDistance'[b]
                                 - began[a] + began[b]
  <2>1. /\ CumulativeWanderDistance[a] \in Int /\ CumulativeWanderDistance[b] \in Int
        /\ began[a] \in Int /\ began[b] \in Int
    BY SteeringAssumption DEF TypeOK, Distance
  <2>2. Step \in Nat
    BY DEF Step, TypeOK
  <2> QED
    BY <1>2, <2>1, <2>2 DEF Drift
<1>4. ASSUME NEW a \in Leaders, a # idx
      PROVE  CumulativeWanderDistance'[a] = CumulativeWanderDistance[a]
  BY <1>4 DEF Look
<1>5. ASSUME idx \in Leaders
      PROVE  \E q \in Int : CumulativeWanderDistance'[idx]
                              = CumulativeWanderDistance[idx] + Step - q * SplineLength
  <2>1. CumulativeWanderDistance'[idx] = Advanced(CumulativeWanderDistance[idx])
    BY <1>5 DEF Look
  <2>2. CumulativeWanderDistance[idx] \in Distance
    BY <1>5 DEF TypeOK
  <2> QED
    BY <2>1, <2>2, AdvancedType
<1> SUFFICES ASSUME NEW a \in Leaders, NEW b \in Leaders, missed[a] = missed[b], missed[a] < MissCap
             PROVE  /\ (a \in Ahd' <=> b \in Ahd') => WholeLaps(Drift(a, b))'
                    /\ a \in Ahd' /\ b \notin Ahd' => WholeLaps(Drift(a, b) - Step)'
  BY <1>2 DEF PaceInv
<1>6. /\ (a \in checked <=> b \in checked) => WholeLaps(Drift(a, b))
      /\ a \in checked /\ b \notin checked => WholeLaps(Drift(a, b) - Step)
      /\ b \in checked /\ a \notin checked => WholeLaps(Drift(b, a) - Step)
  BY <1>2 DEF PaceInv
<1>7. WholeLaps(Drift(a, b))' <=> WholeLaps(Drift(a, b)')
  BY DEF WholeLaps
<1>8. WholeLaps(Drift(a, b) - Step)' <=> WholeLaps(Drift(a, b)' - Step)
  BY <1>2 DEF WholeLaps
<1>9. CASE a # idx /\ b # idx
  <2>1. Drift(a, b)' = Drift(a, b)
    BY <1>3, <1>4, <1>9 DEF Drift
  <2> QED
    BY <1>2, <1>6, <1>7, <1>8, <1>9, <2>1
<1>10. CASE a = idx /\ b = idx
  <2>1. Drift(a, b)' = 0
    <3>1. CumulativeWanderDistance'[idx] \in Int
      BY <1>3, <1>5, <1>10, SteeringAssumption
    <3> QED
      BY <1>3, <1>10, <3>1
  <2>2. WholeLaps(0)
    BY SteeringAssumption DEF WholeLaps
  <2> QED
    BY <1>2, <1>7, <1>8, <1>10, <2>1, <2>2
<1>11. CASE a = idx /\ b # idx
  <2>1. PICK q \in Int : CumulativeWanderDistance'[a]
                           = CumulativeWanderDistance[a] + Step - q * SplineLength
    BY <1>5, <1>11
  <2>2. q * SplineLength \in Int /\ (-q) * SplineLength = -(q * SplineLength) /\ -q \in Int
    BY SteeringAssumption
  <2>3. Drift(a, b)' = Drift(a, b) + Step - q * SplineLength
    <3>1. Drift(a, b)' = CumulativeWanderDistance'[a] - CumulativeWanderDistance'[b]
                           - began[a] + began[b]
      BY <1>3
    <3>2. Drift(a, b) = CumulativeWanderDistance[a] - CumulativeWanderDistance[b]
                          - began[a] + began[b]
      BY DEF Drift
    <3>3. CumulativeWanderDistance'[b] = CumulativeWanderDistance[b]
      BY <1>4, <1>11
    <3>4. /\ CumulativeWanderDistance[a] \in Int /\ CumulativeWanderDistance[b] \in Int
          /\ began[a] \in Int /\ began[b] \in Int /\ Step \in Int
      BY <1>3
    <3> QED
      BY <2>1, <2>2, <3>1, <3>2, <3>3, <3>4
  <2>4. CASE b \in checked
    <3>1. WholeLaps(Drift(b, a) - Step) /\ Drift(b, a) - Step \in Int
      BY <1>1, <1>3, <1>6, <1>11, <2>4
    <3>2. WholeLaps((-q) * SplineLength - (Drift(b, a) - Step))
      BY <2>2, <3>1, LapsCombine
    <3>3. (-q) * SplineLength - (Drift(b, a) - Step) = Drift(a, b)'
      BY <1>3, <2>2, <2>3
    <3> QED
      BY <1>2, <1>7, <1>11, <2>4, <3>2, <3>3
  <2>5. CASE b \notin checked
    <3>1. WholeLaps(Drift(a, b)) /\ Drift(a, b) \in Int
      BY <1>1, <1>3, <1>6, <1>11, <2>5
    <3>2. WholeLaps(Drift(a, b) + (-q) * SplineLength)
      BY <2>2, <3>1, LapsCombine
    <3>3. Drift(a, b) + (-q) * SplineLength = Drift(a, b)' - Step
      BY <1>3, <2>2, <2>3
    <3> QED
      BY <1>2, <1>8, <1>11, <2>5, <3>2, <3>3
  <2> QED
    BY <2>4, <2>5
<1>12. CASE a # idx /\ b = idx
  <2>1. PICK q \in Int : CumulativeWanderDistance'[b]
                           = CumulativeWanderDistance[b] + Step - q * SplineLength
    BY <1>5, <1>12
  <2>2. q * SplineLength \in Int
    BY SteeringAssumption
  <2>3. Drift(a, b)' = Drift(a, b) - Step + q * SplineLength
    <3>1. Drift(a, b)' = CumulativeWanderDistance'[a] - CumulativeWanderDistance'[b]
                           - began[a] + began[b]
      BY <1>3
    <3>2. Drift(a, b) = CumulativeWanderDistance[a] - CumulativeWanderDistance[b]
                          - began[a] + began[b]
      BY DEF Drift
    <3>3. CumulativeWanderDistance'[a] = CumulativeWanderDistance[a]
      BY <1>4, <1>12
    <3>4. /\ CumulativeWanderDistance[a] \in Int /\ CumulativeWanderDistance[b] \in Int
          /\ began[a] \in Int /\ began[b] \in Int /\ Step \in Int
      BY <1>3
    <3> QED
      BY <2>1, <2>2, <3>1, <3>2, <3>3, <3>4
  <2>4. CASE a \in checked
    <3>1. WholeLaps(Drift(a, b) - Step) /\ Drift(a, b) - Step \in Int
      BY <1>1, <1>3, <1>6, <1>12, <2>4
    <3>2. WholeLaps((Drift(a, b) - Step) + q * SplineLength)
      BY <3>1, LapsCombine
    <3> QED
      BY <1>2, <1>7, <1>12, <2>3, <2>4, <3>2
  <2>5. CASE a \notin checked
    BY <1>2, <1>12, <2>5
  <2> QED
    BY <2>4, <2>5
<1> QED
  BY <1>9, <1>10, <1>11, <1>12

\* At the end of the tick those that did not advance are counted as missed.
LEMMA PaceMove ==
  ASSUME TypeOK, LoopInv, LaterFishMissMore, PaceInv, Move
  PROVE  PaceInv'
<1>1. Ahd' = {} /\ CumulativeWanderDistance' = CumulativeWanderDistance /\ began' = began
  BY DEF Move, Ahd
<1>2. ASSUME NEW a \in Leaders, NEW b \in Leaders, missed'[a] = missed'[b], missed'[a] < MissCap
      PROVE  WholeLaps(Drift(a, b))
  <2>1. /\ a \in Fish /\ b \in Fish /\ MissCap \in Nat
        /\ missed[a] \in Nat /\ missed[b] \in Nat
        /\ missed[a] <= MissCap /\ missed[b] <= MissCap
    BY SteeringAssumption DEF TypeOK
  <2>2. /\ missed'[a] = IF a \in Unreached /\ missed[a] < MissCap THEN missed[a] + 1
                        ELSE missed[a]
        /\ missed'[b] = IF b \in Unreached /\ missed[b] < MissCap THEN missed[b] + 1
                        ELSE missed[b]
    BY <2>1 DEF Move
  <2>3. a \in Unreached /\ b \notin Unreached => FALSE
    <3>1. SUFFICES ASSUME a \in Unreached, b \notin Unreached PROVE FALSE
      OBVIOUS
    <3>2. ~(a < b) /\ a # b
      BY <2>1, <3>1, UnreachedIsATail DEF Move
    <3>3. b < a
      BY <2>1, <3>2, SteeringAssumption DEF Fish
    <3>4. missed[b] <= missed[a] /\ missed'[b] = missed[b]
      BY <2>1, <2>2, <3>1, <3>3 DEF LaterFishMissMore
    <3>5. CASE missed[a] < MissCap
      <4>1. missed'[a] = missed[a] + 1
        BY <2>2, <3>1, <3>5
      <4>2. missed[a] + 1 = missed[b]
        BY <1>2, <3>4, <4>1
      <4> QED
        BY <2>1, <3>4, <4>2
    <3>6. CASE ~(missed[a] < MissCap)
      <4>1. missed'[a] = missed[a]
        BY <2>2, <3>6
      <4> QED
        BY <1>2, <3>6, <4>1
    <3> QED
      BY <3>5, <3>6
  <2>4. b \in Unreached /\ a \notin Unreached => FALSE
    <3>1. SUFFICES ASSUME b \in Unreached, a \notin Unreached PROVE FALSE
      OBVIOUS
    <3>2. ~(b < a) /\ a # b
      BY <2>1, <3>1, UnreachedIsATail DEF Move
    <3>3. a < b
      BY <2>1, <3>2, SteeringAssumption DEF Fish
    <3>4. missed[a] <= missed[b] /\ missed'[a] = missed[a]
      BY <2>1, <2>2, <3>1, <3>3 DEF LaterFishMissMore
    <3>5. CASE missed[b] < MissCap
      <4>1. missed'[b] = missed[b] + 1
        BY <2>2, <3>1, <3>5
      <4>2. missed[b] + 1 = missed[a]
        BY <1>2, <3>4, <4>1
      <4> QED
        BY <2>1, <3>4, <4>2
    <3>6. CASE ~(missed[b] < MissCap)
      <4>1. missed'[b] = missed[b]
        BY <2>2, <3>6
      <4> QED
        BY <1>2, <3>6, <4>1
    <3> QED
      BY <3>5, <3>6
  <2>5. missed[a] = missed[b] /\ missed[a] < MissCap
    <3>1. CASE a \in Unreached /\ b \in Unreached
      <4>1. missed[a] < MissCap /\ missed[b] < MissCap
        BY <1>2, <2>1, <2>2
      <4>2. missed'[a] = missed[a] + 1 /\ missed'[b] = missed[b] + 1
        BY <2>2, <3>1, <4>1
      <4>3. missed[a] + 1 = missed[b] + 1
        BY <1>2, <4>2
      <4> QED
        BY <2>1, <4>1, <4>3
    <3>2. CASE a \notin Unreached /\ b \notin Unreached
      <4>1. missed'[a] = missed[a] /\ missed'[b] = missed[b]
        BY <2>2, <3>2
      <4> QED
        BY <1>2, <4>1
    <3> QED
      BY <2>3, <2>4, <3>1, <3>2
  <2>6. a \in Ahd <=> b \in Ahd
    BY <2>1, <2>3, <2>4 DEF Move, Ahd, Unreached
  <2> QED
    BY <2>5, <2>6 DEF PaceInv
<1>3. ASSUME NEW a \in Leaders, NEW b \in Leaders
      PROVE  WholeLaps(Drift(a, b))' <=> WholeLaps(Drift(a, b))
  BY <1>1 DEF WholeLaps, Drift
<1> QED
  BY <1>1, <1>2, <1>3 DEF PaceInv

\* The other steps leave the leaders where they are.
LEMMA PaceOther ==
  ASSUME TypeOK, LoopInv, PaceInv,
         EnterSkitter \/ BeginLoop \/ Flee \/ Skitter \/ Steer \/ Stop \/ EndLoop \/ UNCHANGED vars
  PROVE  PaceInv'
<1>1. UNCHANGED <<CumulativeWanderDistance, began, missed>>
  BY DEF EnterSkitter, BeginLoop, Flee, Skitter, Steer, Stop, EndLoop, vars, fishVars
<1>2. ASSUME NEW a \in Leaders, NEW b \in Leaders
      PROVE  /\ WholeLaps(Drift(a, b))' <=> WholeLaps(Drift(a, b))
             /\ Step' = Step => (WholeLaps(Drift(a, b) - Step)' <=> WholeLaps(Drift(a, b) - Step))
  BY <1>1 DEF WholeLaps, Drift
<1>3. Ahd' = Ahd /\ (Step' = Step \/ Ahd' = {})
  <2>1. CASE EnterSkitter \/ UNCHANGED vars
    BY <2>1 DEF EnterSkitter, vars, loopVars, Ahd, Step
  <2>2. CASE BeginLoop
    BY <2>2 DEF BeginLoop, Ahd
  <2>3. CASE Flee \/ Skitter
    BY <2>3 DEF Flee, Skitter, Ahd, BoidStates, FleeStates
  <2>4. CASE Steer \/ Stop
    BY <2>4 DEF Steer, Target, Stop, Ahd, Step, LoopInv
  <2>5. CASE EndLoop
    BY <2>5 DEF EndLoop, Ahd, Step, LoopInv, loopVars
  <2> QED
    BY <2>1, <2>2, <2>3, <2>4, <2>5
<1> QED
  BY <1>1, <1>2, <1>3 DEF PaceInv

LEMMA SteeringInductive == Spec => []IInv
<1>1. Init => IInv
  <2> SUFFICES ASSUME Init PROVE IInv
    OBVIOUS
  <2>1. TypeOK
    <3>1. 1 \in 1 .. FishNum + 1 /\ 0 \in 0 .. MissCap
      BY SteeringAssumption
    <3>2. missed \in [Fish -> 0 .. MissCap]
      BY <3>1 DEF Init
    <3>3. idx \in 1 .. FishNum + 1 /\ stride \in Nat
      BY <3>1 DEF Init
    <3> QED
      BY <3>2, <3>3 DEF Init, TypeOK, BoidStates
  <2>2. LoopInv /\ LaterFishMissMore
    BY DEF Init, LoopInv, LaterFishMissMore
  <2>3. PaceInv
    <3> SUFFICES ASSUME NEW a \in Leaders, NEW b \in Leaders PROVE WholeLaps(Drift(a, b))
      BY DEF Init, PaceInv, Ahd
    <3>1. began[a] \in Int /\ began[b] \in Int /\ CumulativeWanderDistance = began
      BY SteeringAssumption DEF Init, Distance
    <3>2. Drift(a, b) = 0 /\ 0 = 0 * SplineLength
      BY <3>1, SteeringAssumption DEF Drift
    <3> QED
      BY <3>2 DEF WholeLaps
  <2> QED
    BY <2>1, <2>2, <2>3 DEF IInv
<1>2. IInv /\ [Next]_vars => IInv'
  <2> SUFFICES ASSUME IInv, [Next]_vars PROVE IInv'
    OBVIOUS
  <2>1. TypeOK' /\ LoopInv' /\ LaterFishMissMore'
    BY TypeStep, LoopStep, MissStep DEF IInv
  <2>2. PaceInv'
    BY PaceLook, PaceMove, PaceOther DEF IInv, Next
  <2> QED
    BY <2>1, <2>2 DEF IInv
<1> QED
  BY <1>1, <1>2, PTL DEF Spec

-----------------------------------------------------------------------------

\* The state of the tick stays well typed.
THEOREM SteeringTypeOK == Spec => []TypeOK
<1>1. IInv => TypeOK
  BY DEF IInv
<1> QED
  BY <1>1, SteeringInductive, PTL

\* In a school of any size, a fish moves without having looked for obstacles only
\* behind one that found no way and was stopped.
THEOREM SteeringUnreachedBehindBlocked == Spec => []UnreachedBehindBlocked
<1>1. IInv => UnreachedBehindBlocked
  BY SteeringAssumption DEF IInv, LoopInv, UnreachedBehindBlocked, Unreached, Fish
<1> QED
  BY <1>1, SteeringInductive, PTL

\* No fish is passed over more often than one behind it in the array.
THEOREM SteeringLaterFishMissMore == Spec => []LaterFishMissMore
<1>1. IInv => LaterFishMissMore
  BY DEF IInv
<1> QED
  BY <1>1, SteeringInductive, PTL

\* On a spline of any length and with any strides, leaders the loop reached
\* equally often are as far apart as at first.
THEOREM SteeringLeadersKeepPace == Spec => []LeadersKeepPace
<1>1. IInv => LeadersKeepPace
  <2> SUFFICES ASSUME IInv, pc = "idle", NEW a \in Leaders, NEW b \in Leaders,
                      missed[a] = missed[b], missed[a] < MissCap
               PROVE  Drift(a, b) % SplineLength = 0
    BY DEF LeadersKeepPace, Drift
  <2>1. PICK k \in Int : Drift(a, b) = k * SplineLength
    BY DEF IInv, PaceInv, Ahd, WholeLaps
  <2> QED
    BY <2>1, LapsMod, SteeringAssumption
<1> QED
  BY <1>1, SteeringInductive, PTL

=============================================================================
