------------------------------- MODULE Steering -------------------------------
(***************************************************************************)
(* AFishGroup::Tick: the velocities of the fish are updated by the state   *)
(* the animation state machine is in, then every fish moves and turns.     *)
(* Wander, Compact and Join share one loop: each fish gets a target, looks *)
(* for directions without an obstacle, and bends its velocity towards one  *)
(* of them.  A fish that finds none stops, and the loop returns.           *)
(*                                                                         *)
(* Directions are the points of a compass.  A target within five degrees   *)
(* of a free direction is that direction here.  What the boids rules       *)
(* compute is left open, so a target may be any direction or none.         *)
(***************************************************************************)
EXTENDS Integers

CONSTANTS
  FishNum,       \* the number of fish in the array Fishes
  Leaders,       \* those of them that follow the spline
  Turn,          \* the number of compass points, 0 is the world's X axis
  SplineLength,  \* the length of the spline
  Strides,       \* bound: max_speed_current * DeltaTime / 2 of a tick
  MissCap        \* bound: missed ticks are counted up to here

Fish == 1 .. FishNum

ASSUME SteeringAssumption ==
  /\ FishNum \in Nat
  /\ Leaders \subseteq Fish
  /\ Leaders # {}
  /\ Turn \in Nat \ {0}
  /\ SplineLength \in Nat \ {0}
  /\ Strides \subseteq Nat
  /\ MissCap \in Nat

VARIABLES
  pc,                       \* where Tick is, "idle" between two ticks
  idx,                      \* the counter of the loop
  state,                    \* the state Tick asked the state machine for
  stride,                   \* what a leader advances in half a step of this tick
  NoCollisionDirections,    \* what the fish of this iteration found
  blocked,                  \* the fish whose look ended this tick's loop, or 0
  Velocity,                 \* the direction of each fish, or Still
  facing,                   \* the rotation of each fish
  CumulativeWanderDistance, \* where each leader is on the spline
  began,                    \* auxiliary: where it was at first
  checked,                  \* auxiliary: the fish that looked in this tick
  missed                    \* auxiliary: in how many ticks with the loop a fish did not

loopVars == <<idx, state, stride, NoCollisionDirections, blocked, checked>>
fishVars == <<Velocity, facing, CumulativeWanderDistance>>
vars == <<pc, loopVars, fishVars, began, missed>>

Compass == 0 .. Turn - 1
Still == -1
Heading == Compass \cup {Still}

\* The states that share the loop; those that set every velocity without
\* looking; Skitter, which leaves the velocities as they are.
BoidStates == {"Wander", "Compact", "Join"}
FleeStates ==
  {"Ball", "Avoid", "FastAvoid", "Herd", "FlashOut", "FlashIn", "Split", "Fountain", "Hourglass"}

Distance == 0 .. SplineLength - 1

Lesser(a, b) == IF a < b THEN a ELSE b

\* The angle between two directions, in compass points.
Apart(a, b) == Lesser((a - b) % Turn, (b - a) % Turn)

\* DetectNoCollisionDirections samples the half of the sphere before the fish.
Ahead(f) == {d \in Compass : 4 * Apart(d, facing[f]) <= Turn}

\* AngleBetweenVectors is 90 degrees for every direction when the target is zero.
Nearest(D, target) ==
  IF target = Still THEN D
  ELSE {d \in D : \A e \in D : Apart(d, target) <= Apart(e, target)}

\* What FollowLeaders or Cohesion, Separation and Alignment answer, or the way to
\* a leader's place on the spline: anything.
Target == Heading

\* FMath::VInterpTo: some way along the shorter arc, through zero from the
\* opposite direction.
Between(a, b) ==
  {c \in Compass : Apart(a, c) + Apart(c, b) = Apart(a, b)}

Interpolated(v, goal) ==
  IF v = Still THEN {Still, goal}
  ELSE IF 2 * Apart(v, goal) = Turn THEN {v, Still, goal}
  ELSE Between(v, goal)

\* Fault: no Fmod.
AdvancedNoWrap(d) == IF state = "Wander" THEN d + stride ELSE d + 2 * stride

\* Fault: a clamp instead of Fmod.
AdvancedClamped(d) == Lesser(AdvancedNoWrap(d), SplineLength - 1)

\* FMath::Fmod of the distance after this tick; Wander goes at half speed.
Advanced(d) ==
  LET step == IF state = "Wander" THEN stride ELSE 2 * stride
  IN  (d + step) % SplineLength

-----------------------------------------------------------------------------

Init ==
  /\ pc = "idle"
  /\ idx = 1
  /\ state = "Wander"
  /\ stride = 0
  /\ NoCollisionDirections = {}
  /\ blocked = 0
  /\ checked = {}
  /\ Velocity \in [Fish -> Heading]
  /\ facing \in [Fish -> Compass]
  /\ CumulativeWanderDistance \in [Leaders -> Distance]
  /\ began = CumulativeWanderDistance
  /\ missed = [f \in Fish |-> 0]

\* The event of the state machine: random velocities.
EnterSkitter ==
  /\ pc = "idle"
  /\ Velocity' \in [Fish -> Compass]
  /\ UNCHANGED <<pc, loopVars, facing, CumulativeWanderDistance, began, missed>>

\* Fault: the loop starts at the second fish.
BeginLoopLate ==
  /\ pc = "idle"
  /\ pc' = "target"
  /\ idx' = 2
  /\ blocked' = 0
  /\ checked' = {}
  /\ state' \in BoidStates
  /\ stride' \in Strides
  /\ UNCHANGED <<NoCollisionDirections, fishVars, began, missed>>

\* The tick finds a state with the loop.
BeginLoop ==
  /\ pc = "idle"
  /\ pc' = "target"
  /\ idx' = 1
  /\ blocked' = 0
  /\ checked' = {}
  /\ state' \in BoidStates
  /\ stride' \in Strides
  /\ UNCHANGED <<NoCollisionDirections, fishVars, began, missed>>

\* The tick finds a state that sets the velocities outright: away from the
\* predator, around the centre, across the predator's course.  Nothing is checked.
Flee ==
  /\ pc = "idle"
  /\ pc' = "move"
  /\ state' \in FleeStates
  /\ Velocity' \in [Fish -> Heading]
  /\ UNCHANGED <<idx, stride, NoCollisionDirections, blocked, checked, facing,
                 CumulativeWanderDistance, began, missed>>

\* Skitter: the fish keep the velocities of EnterSkitter.
Skitter ==
  /\ pc = "idle"
  /\ pc' = "move"
  /\ state' = "Skitter"
  /\ UNCHANGED <<idx, stride, NoCollisionDirections, blocked, checked, fishVars, began, missed>>

\* The next fish.  A leader advances on the spline; the obstacles may leave the
\* fish any of the directions ahead.
Look ==
  /\ pc = "target" /\ idx <= FishNum
  /\ pc' = "look"
  /\ NoCollisionDirections' \in SUBSET Ahead(idx)
  /\ checked' = checked \cup {idx}
  /\ CumulativeWanderDistance' =
       [l \in Leaders |-> IF l = idx THEN Advanced(CumulativeWanderDistance[l])
                          ELSE CumulativeWanderDistance[l]]
  /\ UNCHANGED <<idx, state, stride, blocked, Velocity, facing, began, missed>>

\* It bends its velocity towards the free direction nearest to its target.
Steer ==
  /\ pc = "look" /\ NoCollisionDirections # {}
  /\ \E target \in Target : \E goal \in Nearest(NoCollisionDirections, target) :
       \E v \in Interpolated(Velocity[idx], goal) :
         Velocity' = [Velocity EXCEPT ![idx] = v]
  /\ NoCollisionDirections' = {}
  /\ idx' = idx + 1
  /\ pc' = "target"
  /\ UNCHANGED <<state, stride, blocked, checked, facing, CumulativeWanderDistance, began,
                 missed>>

\* There is no free direction: the fish stops, and UpdateFishVelocities returns.
Stop ==
  /\ pc = "look" /\ NoCollisionDirections = {}
  /\ Velocity' = [Velocity EXCEPT ![idx] = Still]
  /\ blocked' = idx
  /\ idx' = idx + 1
  /\ pc' = "move"
  /\ UNCHANGED <<state, stride, NoCollisionDirections, checked, facing, CumulativeWanderDistance,
                 began, missed>>

EndLoop ==
  /\ pc = "target" /\ idx > FishNum
  /\ pc' = "move"
  /\ UNCHANGED <<loopVars, fishVars, began, missed>>

\* The fish that this tick's loop did not reach.
Unreached == IF state \in BoidStates THEN Fish \ checked ELSE {}

\* Tick moves every fish and turns it towards its velocity, or towards the X
\* axis if it does not move (MakeRotFromX of the zero vector).
Move ==
  /\ pc = "move"
  /\ pc' = "idle"
  /\ facing' \in [Fish -> Compass]
  /\ \A f \in Fish :
       LET goal == IF Velocity[f] = Still THEN 0 ELSE Velocity[f]
       IN  facing'[f] \in Between(facing[f], goal)
  /\ missed' = [f \in Fish |->
                 IF f \in Unreached /\ missed[f] < MissCap THEN missed[f] + 1 ELSE missed[f]]
  /\ UNCHANGED <<loopVars, Velocity, CumulativeWanderDistance, began>>

Next ==
  \/ EnterSkitter
  \/ BeginLoop
  \/ Flee
  \/ Skitter
  \/ Look
  \/ Steer
  \/ Stop
  \/ EndLoop
  \/ Move

\* Tick is one call on the game thread, and the engine calls it every frame.
Fairness == WF_vars(BeginLoop \/ Flee \/ Skitter \/ Look \/ Steer \/ Stop \/ EndLoop \/ Move)

Spec == Init /\ [][Next]_vars /\ Fairness

-----------------------------------------------------------------------------

\* Type invariant.
TypeOK ==
  /\ pc \in {"idle", "target", "look", "move"}
  /\ idx \in 1 .. FishNum + 1
  /\ state \in BoidStates \cup FleeStates \cup {"Skitter"}
  /\ stride \in Nat
  /\ NoCollisionDirections \subseteq Compass
  /\ blocked \in Fish \cup {0}
  /\ checked \subseteq Fish
  /\ Velocity \in [Fish -> Heading]
  /\ facing \in [Fish -> Compass]
  /\ CumulativeWanderDistance \in [Leaders -> Distance]
  /\ began \in [Leaders -> Distance]
  /\ missed \in [Fish -> 0 .. MissCap]

\* When the fish move after a tick with the loop, any that did not look for
\* obstacles stand in the array behind one that found no way and was stopped.
UnreachedBehindBlocked ==
  pc = "move" =>
    \A f \in Unreached : blocked \in checked /\ blocked < f /\ Velocity[blocked] = Still

\* The place in the array decides who is left out: no fish is passed over more
\* often than one behind it.
LaterFishMissMore == \A f, g \in Fish : f < g => missed[f] <= missed[g]

\* Two leaders keep their distance along the spline as long as the loop reached
\* both equally often, through all changes of state, stride and laps; only a
\* blocked fish between them in the array can pull them apart.
LeadersKeepPace ==
  pc = "idle" =>
    \A a, b \in Leaders :
      missed[a] = missed[b] /\ missed[a] < MissCap =>
        (CumulativeWanderDistance[a] - CumulativeWanderDistance[b] - began[a] + began[b])
           % SplineLength = 0

\* A fish is steered again and again, as long as the state machine comes back
\* to the loop and from some time on no fish before it is blocked.
SteeringResumes ==
  \A f \in Fish :
    <>[](blocked = 0 \/ blocked >= f) /\ []<>(pc = "target") => []<>(pc = "look" /\ idx = f)

\* "The fundamental layer contains the basic rule of the prey flock that needs
\* to be followed under all circumstances, which includes collision detection
\* and avoidance" (index.md:7): no fish moves in a state with the loop unless
\* it looked for obstacles in that tick.
AvoidanceForAll == pc = "move" => Unreached = {}

=============================================================================
