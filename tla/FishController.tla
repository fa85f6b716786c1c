---------------------------- MODULE FishController ----------------------------
(***************************************************************************)
(* How a school notices the predator and how long it has done so: the      *)
(* senses of each fish (AFish::Tick), the controller that polls them once  *)
(* per frame (UFishControllerAnimInstance), the manoeuvre the animation    *)
(* state machine is in, the events it sends back, and the speed limit that *)
(* the group's tick and those events both write.                           *)
(*                                                                         *)
(* The engine ticks every actor once per frame on the game thread.  The    *)
(* code declares no tick prerequisite, so the order within a frame is      *)
(* open.  The state machine and its events belong to an animation          *)
(* blueprint: which transitions exist is the constant Transitions, when    *)
(* one is taken is left open.                                              *)
(***************************************************************************)
EXTENDS Integers, Sequences, FiniteSets

CONSTANTS
  FishId,         \* the fish of the group
  Senses,         \* the sets of senses the geometry may grant to a fish
  PawnModes,      \* what the player's pawn may be, see PawnMode
  Transitions,    \* the pairs of states the state machine may go between
  MaxTransitions, \* bound: how many transitions one frame takes
  TimerCap        \* bound: timers count frames up to here and then stay

PawnMode == {"absent", "None", "Presence", "Chase", "Attack"}

StateName ==
  {"Wander", "Compact", "Ball", "Avoid", "FastAvoid", "Skitter", "Herd",
   "FlashOut", "FlashIn", "Split", "Fountain", "Hourglass", "Join"}

\* The states that have a timer in the controller; one more counts the chase.
TimedState ==
  {"FastAvoid", "Skitter", "Herd", "FlashOut", "FlashIn", "Fountain", "Hourglass",
   "Join", "Split"}

ASSUME ControllerAssumption ==
  /\ Senses \subseteq SUBSET {"vision", "ripple"}
  /\ {} \in Senses
  /\ PawnModes \subseteq PawnMode
  /\ Transitions \subseteq StateName \X StateName
  /\ MaxTransitions \in Nat
  /\ TimerCap \in Nat
  /\ FishId \cap {"group", "pawn"} = {}

VARIABLES
  ticked,             \* the fish, the group and the pawn that ticked in this frame
  mesh,               \* how far the controller's mesh is with this frame
  range,              \* what each fish would sense now, by where it and the predator are
  steady,             \* auxiliary: frames begun since a fish came near or lost the predator
  pawn,               \* the state of the player's pawn, "absent" if it is no predator
  sensed,             \* bVision and bFeelRipple of each fish, as the set of those that hold
  alarm,              \* bVision and bFeelRipple of the controller, likewise
  PredatorState,      \* what the controller thinks the predator does
  ChaseTime,          \* frames of the perceived chase, or -1
  timer,              \* the other nine timers: frames in a state, or -1
  state,              \* the current state of the state machine
  events,             \* its events that were not handled yet, oldest first
  max_speed_current,  \* the group's speed limit, "normal" or "fast"
  limitOf             \* auxiliary: the last state whose steering set that limit

schoolVars == <<range, steady, pawn, sensed>>
controlVars == <<alarm, PredatorState, ChaseTime>>
machineVars == <<timer, state, events, max_speed_current, limitOf>>
vars == <<ticked, mesh, schoolVars, controlVars, machineVars>>

Actors == FishId \cup {"group", "pawn"}

Near(f) == range[f] # {}

\* A running timer counts on, an idle one stays at -1.
Advance(t) == IF t < 0 THEN t ELSE IF t < TimerCap THEN t + 1 ELSE t

Event == [kind : {"enter", "leave"}, of : StateName]

-----------------------------------------------------------------------------

Init ==
  /\ ticked = {}
  /\ mesh = "idle"
  /\ range \in [FishId -> Senses]
  /\ steady = [f \in FishId |-> 0]
  /\ pawn \in PawnModes
  /\ sensed = [f \in FishId |-> {}]
  /\ alarm = {}
  /\ PredatorState = "None"
  /\ ChaseTime = -1
  /\ timer = [s \in TimedState |-> -1]
  /\ state = "Wander"
  /\ events = <<>>
  /\ max_speed_current = "normal"
  /\ limitOf = "none"

\* The handlers of the events of one frame run without interruption.
Ticks(a) ==
  /\ a \notin ticked
  /\ mesh # "notifying"
  /\ ticked' = ticked \cup {a}

\* The fish or the predator moved: any fish may gain or lose any sense.
Moves ==
  /\ range' \in [FishId -> Senses]
  /\ steady' = [f \in FishId |-> IF (range'[f] # {}) = Near(f) THEN steady[f] ELSE 0]

\* AFish::Tick: the fish looks at where the predator is now.
FishTick(f) ==
  /\ Ticks(f)
  /\ sensed' = [sensed EXCEPT ![f] = range[f]]
  /\ UNCHANGED <<mesh, range, steady, pawn, controlVars, machineVars>>

\* The player's pawn swims on, may change what it does, or may be replaced.
PawnTick ==
  /\ Ticks("pawn")
  /\ Moves
  /\ pawn' \in PawnModes
  /\ UNCHANGED <<mesh, sensed, controlVars, machineVars>>

\* The states whose steering sets the speed limit; the others use what it is.
SlowStates == {"Wander", "Skitter", "Compact", "Avoid", "Join"}
FastStates == {"Herd", "FastAvoid"}

\* Fault: the slow states do not set it.
SpeedLimitKept(s) == IF s \in FastStates THEN "fast" ELSE max_speed_current

SpeedLimit(s) ==
  CASE s \in SlowStates -> "normal"
    [] s \in FastStates -> "fast"
    [] OTHER -> max_speed_current

\* AFishGroup::Tick: the velocities are updated by the current state, and the
\* fish move.
GroupTick ==
  /\ Ticks("group")
  /\ Moves
  /\ max_speed_current' = SpeedLimit(state)
  /\ limitOf' = IF state \in SlowStates \cup FastStates THEN state ELSE limitOf
  /\ UNCHANGED <<mesh, pawn, sensed, controlVars, timer, state, events>>

\* Fault: the predator is judged before the fish are polled.
PerceivedStale ==
  IF alarm = {} THEN "None" ELSE IF pawn \in {"Chase", "Attack"} THEN pawn ELSE "Presence"

\* Fault: the last state is not cleared when no fish senses the predator.
PerceivedForEver ==
  IF alarm' = {} THEN PredatorState ELSE IF pawn \in {"Chase", "Attack"} THEN pawn ELSE "Presence"

\* Fault: the predator must be both seen and felt.
PerceivedByBoth ==
  IF alarm' # {"vision", "ripple"} THEN "None"
  ELSE IF pawn \in {"Chase", "Attack"} THEN pawn ELSE "Presence"

\* UpdatePredatorState, with the senses that were just polled.
Perceived ==
  IF alarm' = {} THEN "None"
  ELSE IF pawn \in {"Chase", "Attack"} THEN pawn
  ELSE "Presence"

\* The chase timer after the controller's update.
ChaseTimeAfter ==
  IF PredatorState # "Chase" /\ PredatorState' = "Chase" THEN 0
  ELSE IF PredatorState = "Chase" /\ PredatorState' # "Chase" THEN -1
  ELSE Advance(ChaseTime)

\* DoesAnyFishVision and DoesAnyFishFeelRipple.
Polled == UNION {sensed[f] : f \in FishId}

\* UpdateControllerState: poll the fish, let the timers count, perceive.
UpdateControllerState ==
  /\ mesh = "idle"
  /\ mesh' = "updated"
  /\ alarm' = Polled
  /\ timer' = [s \in TimedState |-> Advance(timer[s])]
  /\ PredatorState' = IF pawn = "absent" THEN PredatorState ELSE Perceived
  /\ ChaseTime' = ChaseTimeAfter
  /\ UNCHANGED <<ticked, schoolVars, state, events, max_speed_current, limitOf>>

\* The state machine takes a transition and notes the two events.
Transition ==
  /\ mesh = "updated"
  /\ Len(events) + 2 <= 2 * MaxTransitions
  /\ \E t \in Transitions :
       /\ t[1] = state
       /\ state' = t[2]
       /\ events' = events \o <<[kind |-> "leave", of |-> t[1]], [kind |-> "enter", of |-> t[2]]>>
  /\ UNCHANGED <<ticked, mesh, schoolVars, controlVars, timer, max_speed_current, limitOf>>

\* The oldest event is taken; the handlers of a frame's events run in a row.
Takes(kind, s) ==
  /\ mesh \in {"updated", "notifying"}
  /\ events # <<>>
  /\ Head(events) = [kind |-> kind, of |-> s]
  /\ events' = Tail(events)
  /\ mesh' = IF Tail(events) = <<>> THEN "done" ELSE "notifying"
  /\ UNCHANGED <<ticked, schoolVars, controlVars, state, limitOf>>

EnterFastAvoid ==
  /\ Takes("enter", "FastAvoid")
  /\ timer' = [timer EXCEPT !["FastAvoid"] = 0]
  /\ max_speed_current' = "fast"

LeaveFastAvoid ==
  /\ Takes("leave", "FastAvoid")
  /\ timer' = [timer EXCEPT !["FastAvoid"] = -1]
  /\ max_speed_current' = "normal"

\* The random velocities the fish get are not part of the state.
EnterSkitter ==
  /\ Takes("enter", "Skitter")
  /\ timer' = [timer EXCEPT !["Skitter"] = 0]
  /\ max_speed_current' = "normal"

LeaveSkitter ==
  /\ Takes("leave", "Skitter")
  /\ timer' = [timer EXCEPT !["Skitter"] = -1]
  /\ UNCHANGED max_speed_current

\* The other timers are written by the blueprint itself, to the same protocol.
BlueprintTimed == TimedState \ {"FastAvoid", "Skitter"}

EnterOther ==
  \E s \in StateName \ {"FastAvoid", "Skitter"} :
    /\ Takes("enter", s)
    /\ timer' = IF s \in BlueprintTimed THEN [timer EXCEPT ![s] = 0] ELSE timer
    /\ UNCHANGED max_speed_current

LeaveOther ==
  \E s \in StateName \ {"FastAvoid", "Skitter"} :
    /\ Takes("leave", s)
    /\ timer' = IF s \in BlueprintTimed THEN [timer EXCEPT ![s] = -1] ELSE timer
    /\ UNCHANGED max_speed_current

\* Everyone ticked and every event was handled: the engine begins a frame.
NextFrame ==
  /\ ticked = Actors
  /\ mesh \in {"updated", "done"} /\ events = <<>>
  /\ ticked' = {}
  /\ mesh' = "idle"
  /\ steady' = [f \in FishId |-> IF steady[f] < 2 THEN steady[f] + 1 ELSE 2]
  /\ UNCHANGED <<range, pawn, sensed, controlVars, machineVars>>

HandleEvent ==
  \/ EnterFastAvoid
  \/ LeaveFastAvoid
  \/ EnterSkitter
  \/ LeaveSkitter
  \/ EnterOther
  \/ LeaveOther

Next ==
  \/ \E f \in FishId : FishTick(f)
  \/ PawnTick
  \/ GroupTick
  \/ UpdateControllerState
  \/ Transition
  \/ HandleEvent
  \/ NextFrame

\* The game loop goes on for ever, and a frame takes finitely many steps.
Spec == Init /\ [][Next]_vars /\ WF_vars(Next)

-----------------------------------------------------------------------------

\* Type invariant.
TypeOK ==
  /\ ticked \subseteq Actors
  /\ mesh \in {"idle", "updated", "notifying", "done"}
  /\ range \in [FishId -> Senses]
  /\ steady \in [FishId -> 0 .. 2]
  /\ pawn \in PawnModes
  /\ sensed \in [FishId -> Senses]
  /\ alarm \subseteq {"vision", "ripple"}
  /\ PredatorState \in {"None", "Presence", "Chase", "Attack"}
  /\ ChaseTime \in -1 .. TimerCap
  /\ timer \in [TimedState -> -1 .. TimerCap]
  /\ state \in StateName
  /\ events \in Seq(Event)
  /\ max_speed_current \in {"normal", "fast"}
  /\ limitOf \in StateName \cup {"none"}

\* The chase timer runs exactly while the controller perceives a chase: no way
\* of losing sight of the predator, of its giving up or attacking, or of the
\* pawn being replaced leaves a timer behind (ChaseTime_Threshold would fire).
ChaseTimerRuns == ChaseTime >= 0 <=> PredatorState = "Chase"

\* Once its events are handled, the timer of a timed state runs exactly while
\* the state machine is in that state, also after several transitions in one
\* frame: a time out never belongs to an earlier visit.
TimerFollowsState ==
  events = <<>> => \A s \in TimedState : timer[s] >= 0 <=> state = s

\* Once the events are handled, the fast limit is in force only in FastAvoid,
\* where it must be, or because Herd was the last state to set the limit:
\* LeaveFastAvoid undoes what EnterFastAvoid and the group's ticks did, though
\* the group may tick between the transition and its event.
FastLimitIsExplained ==
  events = <<>> =>
    /\ state = "FastAvoid" => max_speed_current = "fast"
    /\ max_speed_current = "fast" => state = "FastAvoid" \/ limitOf = "Herd"

\* If one fish has been near the predator for a whole frame, the controller's
\* next update raises the alarm, whatever order fish and controller tick in:
\* bVision and bFeelRipple are at most one frame old.
NoticedInTime ==
  [][UpdateControllerState /\ pawn # "absent" /\ (\E f \in FishId : Near(f) /\ steady[f] = 2)
       => PredatorState' # "None"]_vars

\* If no fish has been near the predator for a whole frame, the controller's
\* next update ends the alarm and stops the chase timer.
AlarmEndsInTime ==
  [][UpdateControllerState /\ pawn # "absent" /\ (\A f \in FishId : ~Near(f) /\ steady[f] = 2)
       => PredatorState' = "None" /\ ChaseTime' = -1]_vars

\* A predator that stays near one fish is noticed for good.
PredatorNoticed ==
  \A f \in FishId :
    <>[](Near(f) /\ pawn # "absent") => <>[](PredatorState # "None")

=============================================================================
