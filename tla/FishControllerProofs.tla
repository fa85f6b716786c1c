------------------------- MODULE FishControllerProofs -------------------------
(***************************************************************************)
(* The properties of FishController for every school, every transition     *)
(* relation of the state machine and every bound.                          *)
(*                                                                         *)
(* Three invariants carry them.  SenseInv: what a fish reported agrees     *)
(* with what it would sense now, if that did not change for a whole frame. *)
(* QueueInv: of the unhandled events of a state, the newest tells whether  *)
(* the state machine is in that state; without one, the timer does.        *)
(* LimitInv: the same for FastAvoid and the speed limit, where the newest  *)
(* unhandled event of all is the entry of the current state.               *)
(*                                                                         *)
(* The second half is about Manoeuvres, the composition with what the      *)
(* group remembers.  WayInv: from the state of an unhandled leave event    *)
(* the machine came here by as many transitions as there are events after  *)
(* it, so that by NoQuickReturn a manoeuvre is not entered while the event *)
(* that makes the group forget its last visit waits.                       *)
(***************************************************************************)
EXTENDS Manoeuvres, FiniteSetTheorems, TLAPS

SenseInv ==
  \A f \in FishId :
    steady[f] = 2 \/ (steady[f] = 1 /\ f \in ticked) => (Near(f) <=> sensed[f] # {})

\* No event of s waits to be handled.
NoneOf(s) == \A k \in DOMAIN events : events[k].of # s

\* The newest unhandled event of s is the k-th of the queue.
NewestOf(s, k) ==
  /\ k \in DOMAIN events /\ events[k].of = s
  /\ \A j \in DOMAIN events : j > k => events[j].of # s

\* The newest unhandled event of s tells whether the machine is in s.
Pending(s) == \E k \in DOMAIN events : NewestOf(s, k) /\ (events[k].kind = "enter" <=> state = s)

QueueInv ==
  \A s \in TimedState : Pending(s) \/ (NoneOf(s) /\ (timer[s] >= 0 <=> state = s))

\* The newest event of all is the entry of the current state.
LastInv == events # <<>> => events[Len(events)] = [kind |-> "enter", of |-> state]

LimitOK ==
  /\ state = "FastAvoid" => max_speed_current = "fast"
  /\ max_speed_current = "fast" => state = "FastAvoid" \/ limitOf = "Herd"

LimitInv == Pending("FastAvoid") \/ (NoneOf("FastAvoid") /\ LimitOK)

IInv == TypeOK /\ ChaseTimerRuns /\ SenseInv /\ QueueInv /\ LastInv /\ LimitInv

-----------------------------------------------------------------------------

\* A running timer keeps running, an idle one stays idle.
LEMMA AdvanceKeepsSign ==
  ASSUME NEW t \in -1 .. TimerCap
  PROVE  Advance(t) \in -1 .. TimerCap /\ (Advance(t) >= 0 <=> t >= 0)
BY ControllerAssumption DEF Advance

\* Movement changes the senses the geometry grants, and nothing else.
LEMMA MovesType ==
  ASSUME TypeOK, Moves
  PROVE  range' \in [FishId -> Senses] /\ steady' \in [FishId -> 0 .. 2]
BY DEF TypeOK, Moves

\* Taking an event is the same in all six handlers, but for timer and limit.
LEMMA TakesType ==
  ASSUME TypeOK, NEW kind \in {"enter", "leave"}, NEW s \in StateName, Takes(kind, s)
  PROVE  /\ events' \in Seq(Event) /\ mesh' \in {"notifying", "done"}
         /\ UNCHANGED <<ticked, range, steady, pawn, sensed, alarm, PredatorState, ChaseTime,
                        state, limitOf>>
BY DEF TypeOK, Takes, schoolVars, controlVars

\* What handling the event (kind, s) does to the timers and the speed limit.
HandledAs(kind, s) ==
  /\ Takes(kind, s)
  /\ timer' \in [TimedState -> -1 .. TimerCap]
  /\ max_speed_current' \in {"normal", "fast"}
  /\ \A r \in TimedState :
       timer'[r] = IF r = s THEN IF kind = "enter" THEN 0 ELSE -1 ELSE timer[r]
  /\ s = "FastAvoid" => max_speed_current' = IF kind = "enter" THEN "fast" ELSE "normal"
  /\ s # "FastAvoid" =>
       \/ max_speed_current' = max_speed_current
       \/ max_speed_current' = "normal" /\ kind = "enter"

\* The six handlers have that effect.
LEMMA HandledEvent ==
  ASSUME TypeOK, HandleEvent
  PROVE  \E kind \in {"enter", "leave"}, s \in StateName : HandledAs(kind, s)
<1> USE ControllerAssumption DEF TypeOK
<1>0. /\ "FastAvoid" \in StateName /\ "Skitter" \in StateName
      /\ "FastAvoid" \in TimedState /\ "Skitter" \in TimedState
  BY DEF StateName, TimedState
<1>1. CASE EnterFastAvoid
  <2>1. HandledAs("enter", "FastAvoid")
    BY <1>0, <1>1 DEF EnterFastAvoid, HandledAs
  <2> QED
    BY <1>0, <2>1
<1>2. CASE LeaveFastAvoid
  <2>1. HandledAs("leave", "FastAvoid")
    BY <1>0, <1>2 DEF LeaveFastAvoid, HandledAs
  <2> QED
    BY <1>0, <2>1
<1>3. CASE EnterSkitter
  <2>1. HandledAs("enter", "Skitter")
    BY <1>0, <1>3 DEF EnterSkitter, HandledAs
  <2> QED
    BY <1>0, <2>1
<1>4. CASE LeaveSkitter
  <2>1. HandledAs("leave", "Skitter")
    BY <1>0, <1>4 DEF LeaveSkitter, HandledAs
  <2> QED
    BY <1>0, <2>1
<1>5. CASE EnterOther
  <2>1. PICK s \in StateName \ {"FastAvoid", "Skitter"} :
          /\ Takes("enter", s)
          /\ timer' = IF s \in BlueprintTimed THEN [timer EXCEPT ![s] = 0] ELSE timer
          /\ UNCHANGED max_speed_current
    BY <1>5 DEF EnterOther
  <2>2. HandledAs("enter", s)
    BY <2>1 DEF HandledAs, BlueprintTimed
  <2> QED
    BY <2>2
<1>6. CASE LeaveOther
  <2>1. PICK s \in StateName \ {"FastAvoid", "Skitter"} :
          /\ Takes("leave", s)
          /\ timer' = IF s \in BlueprintTimed THEN [timer EXCEPT ![s] = -1] ELSE timer
          /\ UNCHANGED max_speed_current
    BY <1>6 DEF LeaveOther
  <2>2. HandledAs("leave", s)
    BY <2>1 DEF HandledAs, BlueprintTimed
  <2> QED
    BY <2>2
<1> QED
  BY <1>1, <1>2, <1>3, <1>4, <1>5, <1>6 DEF HandleEvent

-----------------------------------------------------------------------------

\* Every step keeps the state well typed.
LEMMA TypeStep ==
  ASSUME TypeOK, [Next]_vars
  PROVE  TypeOK'
<1> USE ControllerAssumption DEF TypeOK, Ticks, schoolVars, controlVars, machineVars
<1>1. CASE \E f \in FishId : FishTick(f)
  BY <1>1 DEF FishTick, Actors
<1>2. CASE PawnTick
  BY <1>2, MovesType DEF PawnTick, Actors
<1>3. CASE GroupTick
  BY <1>3, MovesType DEF GroupTick, Actors, SpeedLimit, SlowStates, FastStates
<1>4. CASE UpdateControllerState
  <2>1. alarm' \subseteq {"vision", "ripple"}
    <3>1. ASSUME NEW x \in alarm'
          PROVE  x \in {"vision", "ripple"}
      <4>1. PICK f \in FishId : x \in sensed[f]
        BY <1>4 DEF UpdateControllerState, Polled
      <4>2. sensed[f] \in SUBSET {"vision", "ripple"}
        OBVIOUS
      <4> QED
        BY <4>1, <4>2
    <3> QED
      BY <3>1
  <2>2. PredatorState' \in {"None", "Presence", "Chase", "Attack"}
    BY <1>4 DEF UpdateControllerState, Polled, Perceived
  <2>3. ChaseTime' \in -1 .. TimerCap
    BY <1>4, AdvanceKeepsSign DEF UpdateControllerState, Polled, ChaseTimeAfter
  <2>4. timer' \in [TimedState -> -1 .. TimerCap]
    BY <1>4, AdvanceKeepsSign DEF UpdateControllerState, Polled
  <2> QED
    BY <1>4, <2>1, <2>2, <2>3, <2>4 DEF UpdateControllerState, Polled
<1>5. CASE Transition
  <2>1. PICK t \in Transitions :
          /\ state' = t[2]
          /\ events' = events \o <<[kind |-> "leave", of |-> t[1]], [kind |-> "enter", of |-> t[2]]>>
    BY <1>5 DEF Transition
  <2>2. t[1] \in StateName /\ t[2] \in StateName
    OBVIOUS
  <2>3. events' \in Seq(Event)
    BY <2>1, <2>2 DEF Event
  <2> QED
    BY <1>5, <2>1, <2>2, <2>3 DEF Transition
<1>6. CASE HandleEvent
  BY <1>6, HandledEvent, TakesType DEF HandledAs
<1>7. CASE NextFrame
  BY <1>7 DEF NextFrame
<1>8. CASE UNCHANGED vars
  BY <1>8 DEF vars
<1> QED
  BY <1>1, <1>2, <1>3, <1>4, <1>5, <1>6, <1>7, <1>8 DEF Next

\* Only the controller's update touches the chase timer and what it perceives.
LEMMA ChaseStep ==
  ASSUME TypeOK, ChaseTimerRuns, [Next]_vars
  PROVE  ChaseTimerRuns'
<1> USE DEF TypeOK, ChaseTimerRuns
<1>1. CASE UpdateControllerState
  BY <1>1, AdvanceKeepsSign DEF UpdateControllerState, Polled, ChaseTimeAfter
<1>2. CASE HandleEvent
  BY <1>2, HandledEvent, TakesType DEF HandledAs
<1>3. CASE [Next]_vars /\ ~UpdateControllerState /\ ~HandleEvent
  BY <1>3 DEF Next, FishTick, PawnTick, GroupTick, Transition, NextFrame, vars, controlVars
<1> QED
  BY <1>1, <1>2, <1>3

\* A fish that ticked since its surroundings last changed reports them rightly.
LEMMA SenseStep ==
  ASSUME TypeOK, SenseInv, [Next]_vars
  PROVE  SenseInv'
<1> USE ControllerAssumption DEF TypeOK, SenseInv, Near
<1>1. ASSUME NEW f \in FishId, FishTick(f)
      PROVE  SenseInv'
  BY <1>1 DEF FishTick, Ticks
<1>2. ASSUME Moves, UNCHANGED sensed, ticked' = ticked \cup {"pawn"} \/ ticked' = ticked \cup {"group"}
      PROVE  SenseInv'
  BY <1>2 DEF Moves
<1>3. CASE PawnTick
  BY <1>2, <1>3 DEF PawnTick, Ticks
<1>4. CASE GroupTick
  BY <1>2, <1>4 DEF GroupTick, Ticks
<1>5. CASE NextFrame
  BY <1>5 DEF NextFrame, Actors
<1>6. CASE HandleEvent
  BY <1>6, HandledEvent, TakesType DEF HandledAs
<1>7. CASE UpdateControllerState \/ Transition \/ UNCHANGED vars
  BY <1>7 DEF UpdateControllerState, Polled, Transition, vars, schoolVars
<1> QED
  BY <1>1, <1>3, <1>4, <1>5, <1>6, <1>7 DEF Next

-----------------------------------------------------------------------------

\* Taking the head of the queue: either it was the newest event of its state,
\* or the newest event of a state moves one place forward.
LEMMA TakePending ==
  ASSUME TypeOK, NEW kind \in {"enter", "leave"}, NEW s \in StateName, Takes(kind, s),
         NEW r \in StateName
  PROVE  /\ NoneOf(r) => NoneOf(r)' /\ r # s
         /\ Pending(r) =>
              \/ Pending(r)'
              \/ NoneOf(r)' /\ r = s /\ (kind = "enter" <=> state = r)
<1> USE DEF TypeOK, Takes
<1>1. /\ events' \in Seq(Event)
      /\ DOMAIN events = 1 .. Len(events) /\ DOMAIN events' = 1 .. Len(events) - 1
      /\ \A k \in DOMAIN events' : k + 1 \in DOMAIN events /\ events'[k] = events[k + 1]
      /\ 1 \in DOMAIN events /\ events[1] = [kind |-> kind, of |-> s]
      /\ state' = state
  <2>1. events \in Seq(Event) /\ events # <<>> /\ events' = Tail(events) /\ state' = state
    BY DEF schoolVars, controlVars
  <2>2. events[1] = [kind |-> kind, of |-> s]
    BY <2>1
  <2>3. Len(events) \in Nat /\ Len(events) # 0
    BY <2>1
  <2>4. Tail(events) \in Seq(Event) /\ Len(Tail(events)) = Len(events) - 1
    BY <2>1, <2>3
  <2>5. ASSUME NEW k \in 1 .. Len(events) - 1
        PROVE  Tail(events)[k] = events[k + 1]
    BY <2>1, <2>3
  <2> QED
    BY <2>1, <2>2, <2>3, <2>4, <2>5
<1>2. ASSUME NoneOf(r)
      PROVE  NoneOf(r)' /\ r # s
  BY <1>1, <1>2 DEF NoneOf
<1>3. ASSUME NEW k \in DOMAIN events, NewestOf(r, k), events[k].kind = "enter" <=> state = r
      PROVE  \/ Pending(r)'
             \/ NoneOf(r)' /\ r = s /\ (kind = "enter" <=> state = r)
  <2>1. CASE k = 1
    BY <1>1, <1>3, <2>1 DEF NewestOf, NoneOf
  <2>2. CASE k # 1
    <3>1. k - 1 \in DOMAIN events' /\ events'[k - 1] = events[k]
      BY <1>1, <2>2
    <3>2. NewestOf(r, k - 1)'
      BY <1>1, <1>3, <3>1 DEF NewestOf
    <3> QED
      BY <1>1, <1>3, <3>1, <3>2 DEF Pending
  <2> QED
    BY <2>1, <2>2
<1> QED
  BY <1>2, <1>3 DEF Pending

\* What a transition does to the queue.
LEMMA TransitionQueue ==
  ASSUME TypeOK, Transition
  PROVE  /\ LastInv'
         /\ \A r \in StateName :
              \/ Pending(r)'
              \/ /\ r # state /\ r # state'
                 /\ NoneOf(r) => NoneOf(r)'
                 /\ ~Pending(r)
<1> USE ControllerAssumption DEF TypeOK
<1>1. PICK t \in Transitions :
        /\ t[1] = state /\ state' = t[2]
        /\ events' = events \o <<[kind |-> "leave", of |-> t[1]], [kind |-> "enter", of |-> t[2]]>>
  BY DEF Transition
<1>n. PICK n \in Nat : n = Len(events)
  OBVIOUS
<1>2. /\ t[1] \in StateName /\ t[2] \in StateName
      /\ DOMAIN events = 1 .. n /\ DOMAIN events' = 1 .. n + 2
      /\ \A k \in 1 .. n : events'[k] = events[k]
      /\ events'[n + 1] = [kind |-> "leave", of |-> t[1]]
      /\ events'[n + 2] = [kind |-> "enter", of |-> t[2]]
      /\ events' \in Seq(Event) /\ Len(events') = n + 2
  BY <1>1, <1>n DEF Event
<1>3. LastInv'
  BY <1>1, <1>2 DEF LastInv
<1>4. ASSUME NEW r \in StateName
      PROVE  \/ Pending(r)'
             \/ /\ r # state /\ r # state'
                /\ NoneOf(r) => NoneOf(r)'
                /\ ~Pending(r)
  <2>1. CASE r = t[2]
    <3>1. NewestOf(r, n + 2)'
      BY <1>2, <2>1 DEF NewestOf
    <3>2. n + 2 \in DOMAIN events' /\ events'[n + 2].kind = "enter" /\ state' = r
      BY <1>1, <1>2, <2>1
    <3> QED
      BY <3>1, <3>2 DEF Pending
  <2>2. CASE r # t[2] /\ r = t[1]
    <3>1. NewestOf(r, n + 1)'
      BY <1>2, <2>2 DEF NewestOf
    <3>2. events'[n + 1].kind # "enter" /\ n + 1 \in DOMAIN events'
      BY <1>2
    <3> QED
      BY <1>1, <2>2, <3>1, <3>2 DEF Pending
  <2>3. CASE r # t[2] /\ r # t[1]
    <3>1. ASSUME NoneOf(r)
          PROVE  NoneOf(r)'
      <4>1. ASSUME NEW k \in 1 .. n + 2
            PROVE  events'[k].of # r
        <5>1. CASE k \in 1 .. n
          BY <1>2, <3>1, <5>1 DEF NoneOf
        <5>2. CASE k = n + 1 \/ k = n + 2
          BY <1>2, <2>3, <5>2
        <5> QED
          BY <5>1, <5>2
      <4> QED
        BY <1>2, <4>1 DEF NoneOf
    <3>2. ASSUME NEW k \in DOMAIN events, NewestOf(r, k), events[k].kind = "enter" <=> state = r
          PROVE  Pending(r)'
      <4>1. k \in DOMAIN events' /\ events'[k] = events[k]
        BY <1>2
      <4>2. NewestOf(r, k)'
        BY <1>2, <2>3, <3>2, <4>1 DEF NewestOf
      <4>3. state # r /\ state' # r
        BY <1>1, <2>3
      <4> QED
        BY <3>2, <4>1, <4>2, <4>3 DEF Pending
    <3> QED
      BY <1>1, <2>3, <3>1, <3>2 DEF Pending
  <2> QED
    BY <2>1, <2>2, <2>3
<1> QED
  BY <1>3, <1>4

\* Without an event, and without a transition, nothing about the queue changes.
LEMMA QuietQueue ==
  ASSUME UNCHANGED <<state, events>>
  PROVE  /\ LastInv <=> LastInv'
         /\ \A r \in StateName : (Pending(r) <=> Pending(r)') /\ (NoneOf(r) <=> NoneOf(r)')
BY DEF LastInv, Pending, NoneOf, NewestOf

-----------------------------------------------------------------------------

\* The steps that leave the state machine and its queue alone.
QuietStep ==
  \/ \E f \in FishId : FishTick(f)
  \/ PawnTick
  \/ GroupTick
  \/ UpdateControllerState
  \/ NextFrame
  \/ UNCHANGED vars

\* The newest event of all is always the entry of the current state.
LEMMA LastStep ==
  ASSUME TypeOK, LastInv, [Next]_vars
  PROVE  LastInv'
<1>1. CASE QuietStep
  <2>1. UNCHANGED <<state, events>>
    BY <1>1 DEF QuietStep, FishTick, PawnTick, GroupTick, UpdateControllerState, Polled, NextFrame, vars,
                machineVars
  <2> QED
    BY <2>1, QuietQueue
<1>2. CASE Transition
  BY <1>2, TransitionQueue
<1>3. CASE HandleEvent
  <2>1. PICK kind \in {"enter", "leave"}, s \in StateName : Takes(kind, s)
    BY <1>3, HandledEvent DEF HandledAs
  <2>2. events \in Seq(Event) /\ events # <<>> /\ events' = Tail(events) /\ state' = state
    BY <2>1 DEF TypeOK, Takes
  <2>3. events' # <<>> => events'[Len(events')] = events[Len(events)]
    BY <2>2
  <2> QED
    BY <2>2, <2>3 DEF LastInv
<1> QED
  BY <1>1, <1>2, <1>3 DEF Next, QuietStep

\* The newest waiting event of a state, or else its timer, tells whether the
\* machine is in that state.
LEMMA QueueStep ==
  ASSUME TypeOK, QueueInv, [Next]_vars
  PROVE  QueueInv'
<1> SUFFICES ASSUME NEW r \in TimedState
             PROVE  Pending(r)' \/ (NoneOf(r)' /\ (timer'[r] >= 0 <=> state' = r))
  BY DEF QueueInv
<1>0. r \in StateName /\ (Pending(r) \/ (NoneOf(r) /\ (timer[r] >= 0 <=> state = r)))
  BY DEF QueueInv, TimedState, StateName
<1>1. CASE QuietStep
  <2>1. UNCHANGED <<state, events>>
    BY <1>1 DEF QuietStep, FishTick, PawnTick, GroupTick, UpdateControllerState, Polled, NextFrame, vars,
                machineVars
  <2>2. timer'[r] >= 0 <=> timer[r] >= 0
    <3>1. CASE UpdateControllerState
      BY <3>1, AdvanceKeepsSign DEF UpdateControllerState, Polled, TypeOK
    <3>2. CASE ~UpdateControllerState
      BY <1>1, <3>2 DEF QuietStep, FishTick, PawnTick, GroupTick, NextFrame, vars, machineVars
    <3> QED
      BY <3>1, <3>2
  <2> QED
    BY <1>0, <2>1, <2>2, QuietQueue
<1>2. CASE Transition
  BY <1>0, <1>2, TransitionQueue DEF Transition
<1>3. CASE HandleEvent
  <2>1. PICK kind \in {"enter", "leave"}, s \in StateName : HandledAs(kind, s)
    BY <1>3, HandledEvent
  <2>2. state' = state /\ timer'[r] = IF r = s THEN IF kind = "enter" THEN 0 ELSE -1 ELSE timer[r]
    BY <2>1, TakesType DEF HandledAs
  <2>3. CASE Pending(r)
    BY <1>0, <2>1, <2>2, <2>3, TakePending DEF HandledAs
  <2>4. CASE NoneOf(r) /\ (timer[r] >= 0 <=> state = r)
    BY <1>0, <2>1, <2>2, <2>4, TakePending DEF HandledAs
  <2> QED
    BY <1>0, <2>3, <2>4
<1> QED
  BY <1>1, <1>2, <1>3 DEF Next, QuietStep

\* The same for FastAvoid and the speed limit.  An event of Skitter, which
\* lowers the limit, is never the last one when the machine is in FastAvoid.
LEMMA LimitStep ==
  ASSUME TypeOK, LastInv, LimitInv, [Next]_vars
  PROVE  LimitInv'
<1>0. "FastAvoid" \in StateName
  BY DEF StateName
<1>1. CASE QuietStep /\ ~GroupTick
  <2>1. UNCHANGED <<state, events, max_speed_current, limitOf>>
    BY <1>1 DEF QuietStep, FishTick, PawnTick, UpdateControllerState, Polled, NextFrame, vars, machineVars
  <2> QED
    BY <1>0, <2>1, QuietQueue DEF LimitInv, LimitOK
<1>2. CASE GroupTick
  <2>1. UNCHANGED <<state, events>>
    BY <1>2 DEF GroupTick
  <2>2. LimitOK => LimitOK'
    BY <1>2 DEF GroupTick, LimitOK, SpeedLimit, SlowStates, FastStates
  <2> QED
    BY <1>0, <2>1, <2>2, QuietQueue DEF LimitInv
<1>3. CASE Transition
  <2>1. CASE Pending("FastAvoid")'
    BY <2>1 DEF LimitInv
  <2>2. CASE ~Pending("FastAvoid")'
    <3>1. /\ state # "FastAvoid" /\ state' # "FastAvoid"
          /\ NoneOf("FastAvoid") => NoneOf("FastAvoid")'
          /\ ~Pending("FastAvoid")
      BY <1>0, <1>3, <2>2, TransitionQueue
    <3> QED
      BY <1>3, <3>1 DEF LimitInv, LimitOK, Transition
  <2> QED
    BY <2>1, <2>2
<1>4. CASE HandleEvent
  <2>1. PICK kind \in {"enter", "leave"}, s \in StateName : HandledAs(kind, s)
    BY <1>4, HandledEvent
  <2>2. UNCHANGED <<state, limitOf>>
    BY <2>1, TakesType DEF HandledAs
  <2>3. CASE Pending("FastAvoid")
    <3>1. CASE Pending("FastAvoid")'
      BY <3>1 DEF LimitInv
    <3>2. CASE ~Pending("FastAvoid")'
      <4>1. NoneOf("FastAvoid")' /\ s = "FastAvoid" /\ (kind = "enter" <=> state = "FastAvoid")
        BY <1>0, <2>1, <2>3, <3>2, TakePending DEF HandledAs
      <4> QED
        BY <2>1, <2>2, <4>1 DEF LimitInv, LimitOK, HandledAs
    <3> QED
      BY <3>1, <3>2
  <2>4. CASE NoneOf("FastAvoid") /\ LimitOK
    <3>1. NoneOf("FastAvoid")' /\ s # "FastAvoid"
      BY <1>0, <2>1, <2>4, TakePending DEF HandledAs
    <3>2. state # "FastAvoid"
      <4>1. events \in Seq(Event) /\ events # <<>>
        BY <2>1 DEF HandledAs, Takes, TypeOK
      <4>2. Len(events) \in DOMAIN events /\ events[Len(events)].of = state
        BY <4>1 DEF LastInv
      <4> QED
        BY <2>4, <4>2 DEF NoneOf
    <3> QED
      BY <2>1, <2>2, <2>4, <3>1, <3>2 DEF LimitInv, LimitOK, HandledAs
  <2> QED
    BY <2>3, <2>4 DEF LimitInv
<1> QED
  BY <1>1, <1>2, <1>3, <1>4 DEF Next, QuietStep

\* The conjunction is inductive.
LEMMA ControllerInductive == Init /\ [][Next]_vars => []IInv
<1>1. Init => IInv
  <2> SUFFICES ASSUME Init PROVE IInv
    OBVIOUS
  <2>1. TypeOK
    BY ControllerAssumption DEF Init, TypeOK, StateName
  <2>2. ChaseTimerRuns /\ SenseInv
    BY DEF Init, ChaseTimerRuns, SenseInv
  <2>3. events = <<>> /\ state = "Wander" /\ max_speed_current = "normal"
        /\ \A s \in TimedState : timer[s] = -1
    BY DEF Init
  <2>4. QueueInv /\ LastInv /\ LimitInv
    BY <2>3 DEF QueueInv, LastInv, LimitInv, LimitOK, NoneOf, TimedState
  <2> QED
    BY <2>1, <2>2, <2>4 DEF IInv
<1>2. IInv /\ [Next]_vars => IInv'
  BY TypeStep, ChaseStep, SenseStep, LastStep, QueueStep, LimitStep DEF IInv
<1> QED
  BY <1>1, <1>2, PTL

-----------------------------------------------------------------------------

\* The controller, the senses and the event queue stay well typed, for every
\* school and every transition relation.
THEOREM ControllerTypeOK == Spec => []TypeOK
<1>1. IInv => TypeOK
  BY DEF IInv
<1> QED
  BY <1>1, ControllerInductive, PTL DEF Spec

\* The chase timer runs exactly while a chase is perceived.
THEOREM ControllerChaseTimerRuns == Spec => []ChaseTimerRuns
<1>1. IInv => ChaseTimerRuns
  BY DEF IInv
<1> QED
  BY <1>1, ControllerInductive, PTL DEF Spec

\* Once the events of a frame are handled, the timers tell the current state.
THEOREM ControllerTimerFollowsState == Spec => []TimerFollowsState
<1>1. IInv => TimerFollowsState
  BY DEF IInv, QueueInv, Pending, NewestOf, TimerFollowsState
<1> QED
  BY <1>1, ControllerInductive, PTL DEF Spec

\* Once the events of a frame are handled, a fast limit is FastAvoid's or Herd's.
THEOREM ControllerFastLimitIsExplained == Spec => []FastLimitIsExplained
<1>1. IInv => FastLimitIsExplained
  BY DEF IInv, LimitInv, LimitOK, Pending, NewestOf, FastLimitIsExplained
<1> QED
  BY <1>1, ControllerInductive, PTL DEF Spec

\* A predator that was near one fish for a whole frame raises the alarm at the
\* controller's next update, in whatever order fish and controller tick.
THEOREM ControllerNoticedInTime == Spec => NoticedInTime
<1>1. ASSUME IInv, UpdateControllerState, pawn # "absent",
             \E f \in FishId : Near(f) /\ steady[f] = 2
      PROVE  PredatorState' # "None"
  <2>1. PICK f \in FishId : sensed[f] # {}
    BY <1>1 DEF IInv, SenseInv
  <2>2. alarm' # {}
    BY <1>1, <2>1 DEF UpdateControllerState, Polled
  <2> QED
    BY <1>1, <2>2 DEF UpdateControllerState, Polled, Perceived
<1>2. IInv /\ [Next]_vars =>
        [UpdateControllerState /\ pawn # "absent" /\ (\E f \in FishId : Near(f) /\ steady[f] = 2)
           => PredatorState' # "None"]_vars
  BY <1>1
<1> QED
  BY <1>2, ControllerInductive, PTL DEF Spec, NoticedInTime

\* A school that no predator was near to for a whole frame is calm after the
\* controller's next update, and the chase timer is stopped.
THEOREM ControllerAlarmEndsInTime == Spec => AlarmEndsInTime
<1>1. ASSUME IInv, UpdateControllerState, pawn # "absent",
             \A f \in FishId : ~Near(f) /\ steady[f] = 2
      PROVE  PredatorState' = "None" /\ ChaseTime' = -1
  <2>1. \A f \in FishId : sensed[f] = {}
    BY <1>1 DEF IInv, SenseInv
  <2>2. alarm' = {}
    BY <1>1, <2>1 DEF UpdateControllerState, Polled
  <2>3. PredatorState' = "None"
    BY <1>1, <2>2 DEF UpdateControllerState, Polled, Perceived
  <2>4. ChaseTime \in -1 .. TimerCap /\ (ChaseTime >= 0 <=> PredatorState = "Chase")
    BY <1>1 DEF IInv, TypeOK, ChaseTimerRuns
  <2> QED
    BY <1>1, <2>3, <2>4 DEF UpdateControllerState, Polled, ChaseTimeAfter, Advance
<1>2. IInv /\ [Next]_vars =>
        [UpdateControllerState /\ pawn # "absent" /\ (\A f \in FishId : ~Near(f) /\ steady[f] = 2)
           => PredatorState' = "None" /\ ChaseTime' = -1]_vars
  BY <1>1
<1> QED
  BY <1>2, ControllerInductive, PTL DEF Spec, AlarmEndsInTime

-----------------------------------------------------------------------------
(* Manoeuvres *)

WayInv ==
  \A k \in DOMAIN events : events[k].kind = "leave" =>
    \E n \in 1 .. MaxTransitions :
      /\ 2 * n <= Len(events) - k + 1
      /\ \E way \in [0 .. n -> StateName] : Way(events[k].of, state, n, way)

LeavePending(s) == \E k \in DOMAIN events : events[k] = [kind |-> "leave", of |-> s]

\* In and after a manoeuvre the group remembers it, until the event is handled.
HourglassInv ==
  /\ state = "Hourglass" /\ visit.ticked =>
       /\ Hourglass_Initialized
       /\ Hourglass_Initial_Vector = visit.course
       /\ Hourglass_Turning_Direction = visit.side /\ visit.side # 0
       /\ ~visit.turned
  /\ (state = "Hourglass" /\ ~visit.ticked) \/ (state # "Hourglass" /\ ~LeavePending("Hourglass")) =>
       /\ Hourglass_Initialized = FALSE
       /\ Hourglass_Initial_Vector = Zero /\ Hourglass_Current_Vector = Zero
       /\ Hourglass_Turning_Direction = 0

FlashInv ==
  /\ state = "FlashIn" /\ visit.ticked => Flash_Initialized /\ Flash_Return_Position = visit.centroid
  /\ (state = "FlashIn" /\ ~visit.ticked) \/ (state # "FlashIn" /\ ~LeavePending("FlashIn")) =>
       Flash_Initialized = FALSE /\ Flash_Return_Position = 0

VisitType == visit \in [ticked : BOOLEAN, course : Heading \cup {Zero}, side : 0 .. 2, turned : BOOLEAN, centroid : Int]

MemoryInv == ManoeuvreTypeOK /\ VisitType /\ WayInv /\ HourglassInv /\ FlashInv

\* There are at least two fish.
LEMMA SchoolSize == Num \in Nat /\ Num >= 2
BY ManoeuvreAssumption, FS_CardinalityType DEF Num

\* A sum of equal places divided by their number is the place.
LEMMA MeanOfEquals ==
  ASSUME NEW n \in Nat, n > 0, NEW c \in Int
  PROVE  (0 + n * c) \div n = c
OBVIOUS

\* The spread keeps its range: either the average did not grow, or what was
\* added to it is less than what was divided.
LEMMA SpreadRange ==
  ASSUME NEW n \in Nat, n >= 2, NEW a \in Nat, NEW m \in Nat, NEW sum \in 0 .. n * m, (n - 1) * a <= n * m
  PROVE  (a + sum) \div n \in Nat /\ (n - 1) * ((a + sum) \div n) <= n * m
<1> DEFINE b == (a + sum) \div n
<1>1. n * m \in Nat /\ sum \in Nat /\ sum <= n * m
  OBVIOUS
<1>2. b \in Nat /\ n * b <= a + sum
  BY <1>1
<1> HIDE DEF b
<1>3. (n - 1) * b = n * b - b
  BY <1>2
<1>4. CASE b >= a
  BY <1>1, <1>2, <1>3, <1>4
<1>5. CASE b < a
  <2>1. (n - 1) * b <= (n - 1) * a
    BY <1>2, <1>5
  <2> QED
    BY <1>2, <2>1
<1> QED
  BY <1>2, <1>4, <1>5 DEF b

\* Every step of the composition is one of the controller, or none.
LEMMA ComposedStep ==
  ASSUME [ManoeuvreNext]_manoeuvreVars
  PROVE  [Next]_vars
BY DEF ManoeuvreNext, UpdateFishVelocities, Handle, Change, Elsewhere, Next, manoeuvreVars

\* A step that leaves the state machine alone, handles an event, or changes the state.
LEMMA QueueCases ==
  ASSUME TypeOK, [Next]_vars
  PROVE  \/ UNCHANGED <<state, events>>
         \/ HandleEvent /\ events # <<>> /\ events' = Tail(events) /\ state' = state
         \/ Transition
<1>1. CASE QuietStep
  BY <1>1 DEF QuietStep, FishTick, PawnTick, GroupTick, UpdateControllerState, Polled, NextFrame, vars, machineVars
<1>2. CASE HandleEvent
  <2>1. PICK kind \in {"enter", "leave"}, s \in StateName : Takes(kind, s)
    BY <1>2, HandledEvent DEF HandledAs
  <2> QED
    BY <1>2, <2>1 DEF TypeOK, Takes
<1> QED
  BY <1>1, <1>2 DEF Next, QuietStep

\* A way may be gone on by one transition.
LEMMA WayExtended ==
  ASSUME NEW s, NEW r, NEW n \in Nat, NEW way, Way(s, r, n, way),
         NEW t \in Transitions, t[1] = r, t[1] \in StateName, t[2] \in StateName, t = <<t[1], t[2]>>
  PROVE  \E w \in [0 .. n + 1 -> StateName] : Way(s, t[2], n + 1, w)
<1> DEFINE w == [i \in 0 .. n + 1 |-> IF i <= n THEN way[i] ELSE t[2]]
<1>1. /\ w \in [0 .. n + 1 -> StateName]
      /\ \A i \in 0 .. n : w[i] = way[i]
      /\ w[n + 1] = t[2]
  BY DEF Way
<1> HIDE DEF w
<1>2. ASSUME NEW i \in 1 .. n + 1
      PROVE  <<w[i - 1], w[i]>> \in Transitions
  <2>1. CASE i <= n
    <3>1. i \in 1 .. n /\ i - 1 \in 0 .. n /\ i \in 0 .. n
      BY <2>1
    <3>2. <<way[i - 1], way[i]>> \in Transitions
      BY <3>1 DEF Way
    <3> QED
      BY <1>1, <3>1, <3>2
  <2>2. CASE i = n + 1
    <3>1. i - 1 = n /\ n \in 0 .. n
      BY <2>2
    <3>2. w[i - 1] = t[1] /\ w[i] = t[2]
      BY <1>1, <2>2, <3>1 DEF Way
    <3> QED
      BY <3>2
  <2> QED
    BY <2>1, <2>2
<1>3. w[0] = s
  BY <1>1 DEF Way
<1> QED
  BY <1>1, <1>2, <1>3 DEF Way

\* From an unhandled leave event the machine came here by transitions that all
\* have their events behind it.
LEMMA WayStep ==
  ASSUME TypeOK, WayInv, [Next]_vars
  PROVE  WayInv'
<1> DEFINE Came(k, q, s) == \E n \in 1 .. MaxTransitions :
                              /\ 2 * n <= Len(q) - k + 1
                              /\ \E way \in [0 .. n -> StateName] : Way(q[k].of, s, n, way)
<1>0. /\ events \in Seq(Event) /\ state \in StateName /\ MaxTransitions \in Nat
      /\ \A k \in DOMAIN events : events[k].kind = "leave" => Came(k, events, state)
  BY ControllerAssumption DEF TypeOK, WayInv
<1> SUFFICES ASSUME NEW k \in DOMAIN events', events'[k].kind = "leave"
             PROVE  Came(k, events', state')
  BY DEF WayInv, Way
<1>1. CASE UNCHANGED <<state, events>>
  BY <1>0, <1>1
<1>2. CASE events # <<>> /\ events' = Tail(events) /\ state' = state
  <2>1. /\ k + 1 \in DOMAIN events /\ events'[k] = events[k + 1]
        /\ Len(events') - k + 1 = Len(events) - (k + 1) + 1
    BY <1>0, <1>2
  <2>2. Came(k + 1, events, state)
    BY <1>0, <2>1
  <2> QED
    BY <1>2, <2>1, <2>2
<1>3. CASE Transition
  <2>1. PICK t \in Transitions :
          /\ t[1] = state /\ state' = t[2]
          /\ events' = events \o <<[kind |-> "leave", of |-> t[1]], [kind |-> "enter", of |-> t[2]]>>
    BY <1>3 DEF Transition
  <2>n. PICK n \in Nat : n = Len(events)
    BY <1>0
  <2>2. /\ DOMAIN events = 1 .. n /\ DOMAIN events' = 1 .. n + 2
        /\ \A j \in 1 .. n : events'[j] = events[j]
        /\ events'[n + 1] = [kind |-> "leave", of |-> t[1]]
        /\ events'[n + 2] = [kind |-> "enter", of |-> t[2]]
        /\ Len(events') = n + 2 /\ n + 2 <= 2 * MaxTransitions
    BY <1>0, <1>3, <2>1, <2>n DEF Transition
  <2>3. t[1] \in StateName /\ t[2] \in StateName /\ t = <<t[1], t[2]>>
    BY ControllerAssumption
  <2>4. CASE k \in 1 .. n
    <3>1. k \in DOMAIN events /\ events[k] = events'[k]
      BY <2>2, <2>4
    <3>2. PICK m \in 1 .. MaxTransitions :
            /\ 2 * m <= Len(events) - k + 1
            /\ \E way \in [0 .. m -> StateName] : Way(events[k].of, state, m, way)
      BY <1>0, <3>1
    <3>w. PICK way : Way(events[k].of, state, m, way)
      BY <3>2
    <3>3. \E w \in [0 .. m + 1 -> StateName] : Way(events[k].of, t[2], m + 1, w)
      <4>1. m \in Nat
        BY <1>0
      <4> QED
        BY <2>1, <2>3, <3>w, <4>1, WayExtended
    <3>4. m + 1 \in 1 .. MaxTransitions /\ 2 * (m + 1) <= Len(events') - k + 1
      BY <1>0, <2>n, <2>2, <2>4, <3>2
    <3> QED
      BY <2>1, <3>1, <3>3, <3>4
  <2>5. CASE k = n + 1
    <3>1. Way(t[1], t[1], 0, [i \in 0 .. 0 |-> t[1]])
      BY <2>3 DEF Way
    <3>2. \E w \in [0 .. 1 -> StateName] : Way(t[1], t[2], 1, w)
      <4>1. \E w \in [0 .. 0 + 1 -> StateName] : Way(t[1], t[2], 0 + 1, w)
        BY <2>3, <3>1, WayExtended
      <4>2. 0 + 1 = 1
        OBVIOUS
      <4> QED
        BY <4>1, <4>2
    <3>3. 1 \in 1 .. MaxTransitions /\ 2 * 1 <= Len(events') - k + 1
      BY <1>0, <2>2, <2>5
    <3>4. events'[k].of = t[1]
      BY <2>2, <2>5
    <3> QED
      BY <2>1, <3>2, <3>3, <3>4
  <2>6. CASE k = n + 2
    BY <2>2, <2>6
  <2> QED
    BY <2>2, <2>4, <2>5, <2>6
<1> QED
  BY <1>1, <1>2, <1>3, QueueCases

\* A manoeuvre that cannot be entered again in one frame is not the current
\* one while the event that it was left waits, neither now nor after a step.
LEMMA NotYetBack ==
  ASSUME NEW s \in {"Hourglass", "FlashIn"}
  PROVE  (WayInv /\ state = s => ~LeavePending(s)) /\ (WayInv /\ state = s => ~LeavePending(s))'
<1>1. ASSUME NEW q, NEW k \in DOMAIN q, q[k] = [kind |-> "leave", of |-> s],
             NEW n \in 1 .. MaxTransitions,
             \E way \in [0 .. n -> StateName] : Way(q[k].of, s, n, way)
      PROVE  FALSE
  BY <1>1, NoQuickReturn
<1>2. WayInv /\ state = s => ~LeavePending(s)
  BY <1>1 DEF WayInv, LeavePending
<1>3. (WayInv /\ state = s => ~LeavePending(s))'
  BY <1>1 DEF WayInv, LeavePending, Way
<1> QED
  BY <1>2, <1>3

\* Whether a state's leave event waits changes only when it is left or handled.
LEMMA PendingStep ==
  ASSUME TypeOK, NEW s \in StateName
  PROVE  /\ UNCHANGED events => (LeavePending(s)' <=> LeavePending(s))
         /\ events # <<>> /\ events' = Tail(events) /\ Head(events) # [kind |-> "leave", of |-> s]
              => (LeavePending(s)' <=> LeavePending(s))
         /\ Transition => (LeavePending(s)' <=> LeavePending(s) \/ state = s)
<1>0. events \in Seq(Event)
  BY DEF TypeOK
<1>1. ASSUME UNCHANGED events
      PROVE  LeavePending(s)' <=> LeavePending(s)
  BY <1>1 DEF LeavePending
<1>2. ASSUME events # <<>>, events' = Tail(events), Head(events) # [kind |-> "leave", of |-> s]
      PROVE  LeavePending(s)' <=> LeavePending(s)
  <2>1. /\ \A k \in DOMAIN events' : k + 1 \in DOMAIN events /\ events'[k] = events[k + 1]
        /\ \A k \in DOMAIN events : k # 1 => k - 1 \in DOMAIN events' /\ events'[k - 1] = events[k]
        /\ events[1] # [kind |-> "leave", of |-> s]
    BY <1>0, <1>2
  <2> QED
    BY <2>1 DEF LeavePending
<1>3. ASSUME Transition
      PROVE  LeavePending(s)' <=> LeavePending(s) \/ state = s
  <2>1. PICK t \in Transitions :
          /\ t[1] = state /\ state' = t[2]
          /\ events' = events \o <<[kind |-> "leave", of |-> t[1]], [kind |-> "enter", of |-> t[2]]>>
    BY <1>3 DEF Transition
  <2>n. PICK n \in Nat : n = Len(events)
    BY <1>0
  <2>2. /\ DOMAIN events = 1 .. n /\ DOMAIN events' = 1 .. n + 2
        /\ \A j \in 1 .. n : events'[j] = events[j]
        /\ events'[n + 1] = [kind |-> "leave", of |-> t[1]]
        /\ events'[n + 2] = [kind |-> "enter", of |-> t[2]]
    BY <1>0, <2>1, <2>n
  <2>3. n + 1 \in 1 .. n + 2 /\ \A j \in 1 .. n : j \in 1 .. n + 2
    OBVIOUS
  <2>4. ASSUME LeavePending(s) PROVE LeavePending(s)'
    BY <2>2, <2>3, <2>4 DEF LeavePending
  <2>5. ASSUME state = s PROVE LeavePending(s)'
    BY <2>1, <2>2, <2>3, <2>5 DEF LeavePending
  <2>6. ASSUME NEW k \in DOMAIN events', events'[k] = [kind |-> "leave", of |-> s]
        PROVE  LeavePending(s) \/ state = s
    <3>1. CASE k \in 1 .. n
      BY <2>2, <2>6, <3>1 DEF LeavePending
    <3>2. CASE k = n + 1
      BY <2>1, <2>2, <2>6, <3>2
    <3>3. CASE k = n + 2
      BY <2>2, <2>6, <3>3
    <3> QED
      BY <2>2, <3>1, <3>2, <3>3
  <2> QED
    BY <2>4, <2>5, <2>6 DEF LeavePending
<1> QED
  BY <1>1, <1>2, <1>3

\* Each step of the composition, by what it does to the state machine's queue.
LEMMA ComposedCases ==
  ASSUME TypeOK, [ManoeuvreNext]_manoeuvreVars
  PROVE  \/ UpdateFishVelocities /\ UNCHANGED <<state, events>>
         \/ Handle /\ events # <<>> /\ events' = Tail(events) /\ state' = state
         \/ Change
         \/ UNCHANGED <<state, events, memoryVars, visit>>
<1>1. CASE UpdateFishVelocities
  BY <1>1 DEF UpdateFishVelocities, GroupTick
<1>2. CASE Handle
  <2>1. HandleEvent
    BY <1>2 DEF Handle
  <2>2. PICK kind \in {"enter", "leave"}, s \in StateName : Takes(kind, s)
    BY <2>1, HandledEvent DEF HandledAs
  <2> QED
    BY <1>2, <2>2 DEF TypeOK, Takes
<1>3. CASE Elsewhere
  BY <1>3 DEF Elsewhere, FishTick, PawnTick, UpdateControllerState, Polled, NextFrame, machineVars
<1>4. CASE UNCHANGED manoeuvreVars
  BY <1>4 DEF manoeuvreVars, vars, machineVars
<1> QED
  BY <1>1, <1>2, <1>3, <1>4 DEF ManoeuvreNext

\* The spread stays in its range, everything else well typed.
LEMMA MemoryTypeStep ==
  ASSUME ManoeuvreTypeOK, VisitType, TypeOK', [ManoeuvreNext]_manoeuvreVars
  PROVE  ManoeuvreTypeOK' /\ VisitType'
<1> USE DEF ManoeuvreTypeOK, VisitType
<1>0. Num \in Nat /\ Num >= 2
  BY SchoolSize
<1>1. CASE UpdateFishVelocities
  <2>1. CASE Hourglass
    <3>1. PICK average \in Heading \cup {Zero}, after \in Heading \cup {Zero}, side \in {1, 2} :
            /\ Hourglass_Initial_Vector' = IF Hourglass_Initialized THEN Hourglass_Initial_Vector ELSE average
            /\ Hourglass_Initialized' = TRUE
            /\ Hourglass_Turning_Direction' =
                 IF Hourglass_Turning_Direction = 0 THEN side ELSE Hourglass_Turning_Direction
            /\ Hourglass_Current_Vector' = after
            /\ \E b \in BOOLEAN : Note(average, side, b, 0)
            /\ UNCHANGED <<flashVars, AverageDistanceFromCentroid>>
      BY <2>1, Zenon DEF Hourglass, HasFlockShiftNinetyDegree
    <3>2. VisitType'
      BY <3>1 DEF Note
    <3> QED
      BY <3>1, <3>2 DEF flashVars
  <2>2. CASE FlashInward
    <3>1. PICK centroid \in Place :
            /\ Flash_Return_Position' = IF Flash_Initialized THEN Flash_Return_Position
                                        ELSE (Flash_Return_Position + Num * centroid) \div Num
            /\ Flash_Initialized' = TRUE
            /\ Note(Zero, 0, FALSE, centroid)
            /\ UNCHANGED <<hourglassVars, AverageDistanceFromCentroid>>
      BY <2>2 DEF FlashInward
    <3>2. centroid \in Int
      BY ManoeuvreAssumption
    <3>3. Flash_Return_Position' \in Int
      BY <1>0, <3>1, <3>2
    <3>4. VisitType'
      BY <3>1, <3>2 DEF Note, Zero
    <3> QED
      BY <3>1, <3>3, <3>4 DEF hourglassVars
  <2>3. CASE Join
    <3>0. Note(Zero, 0, FALSE, 0) /\ UNCHANGED <<hourglassVars, flashVars>>
      BY <2>3 DEF Join, memoryVars
    <3>1. VisitType'
      BY <3>0 DEF Note, Zero
    <3>2. AverageDistanceFromCentroid' \in Nat /\ (Num - 1) * AverageDistanceFromCentroid' <= Num * MaxDistance
      <4>1. CASE UNCHANGED AverageDistanceFromCentroid
        BY <4>1
      <4>2. CASE \E sum \in 0 .. Num * MaxDistance : AverageDistanceFromCentroid' = Spread(sum)
        BY <1>0, <4>2, ManoeuvreAssumption, SpreadRange DEF Spread
      <4> QED
        BY <2>3, <4>1, <4>2 DEF Join, memoryVars
    <3> QED
      BY <3>0, <3>1, <3>2 DEF hourglassVars, flashVars
  <2>4. CASE Note(Zero, 0, FALSE, 0) /\ UNCHANGED memoryVars
    <3>1. VisitType'
      BY <2>4 DEF Note, Zero
    <3> QED
      BY <2>4, <3>1 DEF memoryVars, hourglassVars, flashVars
  <2> QED
    BY <1>1, <2>1, <2>2, <2>3, <2>4 DEF UpdateFishVelocities
<1>2. CASE Handle
  <2>1. UNCHANGED <<AverageDistanceFromCentroid, visit>>
    BY <1>2 DEF Handle
  <2>2. ResetHourglassDirection \/ UNCHANGED hourglassVars
    BY <1>2 DEF Handle
  <2>3. ResetFlash \/ UNCHANGED flashVars
    BY <1>2 DEF Handle
  <2>4. /\ Hourglass_Initialized' \in BOOLEAN /\ Hourglass_Turning_Direction' \in 0 .. 2
        /\ Hourglass_Initial_Vector' \in Heading \cup {Zero} /\ Hourglass_Current_Vector' \in Heading \cup {Zero}
    <3>1. CASE ResetHourglassDirection
      <4>1. Hourglass_Initialized' \in BOOLEAN
        BY <3>1, Zenon DEF ResetHourglassDirection
      <4>2. Hourglass_Turning_Direction' = 0 /\ Hourglass_Initial_Vector' = Zero
            /\ Hourglass_Current_Vector' = Zero
        BY <3>1 DEF ResetHourglassDirection, Zero
      <4> QED
        BY <4>1, <4>2
    <3>2. CASE UNCHANGED hourglassVars
      BY <3>2 DEF hourglassVars
    <3> QED
      BY <2>2, <3>1, <3>2
  <2>5. Flash_Initialized' \in BOOLEAN /\ Flash_Return_Position' \in Int
    <3>1. CASE ResetFlash
      <4>1. Flash_Initialized' \in BOOLEAN
        BY <3>1, Zenon DEF ResetFlash
      <4>2. Flash_Return_Position' \in Int
        BY <3>1 DEF ResetFlash
      <4> QED
        BY <4>1, <4>2
    <3>2. CASE UNCHANGED flashVars
      BY <3>2 DEF flashVars
    <3> QED
      BY <2>3, <3>1, <3>2
  <2> QED
    BY <2>1, <2>4, <2>5
<1>3. CASE Change
  BY <1>3 DEF Change, NewVisit, Zero, memoryVars, hourglassVars, flashVars
<1>4. CASE UNCHANGED <<memoryVars, visit>>
  BY <1>4 DEF memoryVars, hourglassVars, flashVars
<1> QED
  BY <1>1, <1>2, <1>3, <1>4 DEF ManoeuvreNext, Elsewhere, manoeuvreVars

\* Hourglass forgets its last visit before it is entered again.
LEMMA HourglassStep ==
  ASSUME MemoryInv, TypeOK', WayInv', [ManoeuvreNext]_manoeuvreVars
  PROVE  HourglassInv'
<1>0. TypeOK /\ WayInv /\ HourglassInv /\ "Hourglass" \in StateName
  BY DEF MemoryInv, ManoeuvreTypeOK, StateName
<1>1. /\ state = "Hourglass" => ~LeavePending("Hourglass")
      /\ state' = "Hourglass" => ~LeavePending("Hourglass")'
  BY <1>0, NotYetBack
<1>2. CASE UpdateFishVelocities /\ UNCHANGED <<state, events>>
  <2>0. LeavePending("Hourglass")' <=> LeavePending("Hourglass")
    BY <1>0, <1>2, PendingStep
  <2>1. CASE state = "Hourglass"
    <3>0. Hourglass
      BY <1>2, <2>1 DEF UpdateFishVelocities
    <3>1. PICK average \in Heading \cup {Zero}, side \in {1, 2} :
            /\ Hourglass_Initial_Vector' = IF Hourglass_Initialized THEN Hourglass_Initial_Vector ELSE average
            /\ Hourglass_Initialized' = TRUE
            /\ Hourglass_Turning_Direction' =
                 IF Hourglass_Turning_Direction = 0 THEN side ELSE Hourglass_Turning_Direction
            /\ Note(average, side,
                    HasFlockShiftNinetyDegree(IF Hourglass_Initialized THEN Hourglass_Initial_Vector ELSE average,
                                              Hourglass_Current_Vector), 0)
      BY <3>0, Zenon DEF Hourglass
    <3>2. CASE visit.ticked
      BY <1>0, <1>2, <2>1, <3>1, <3>2 DEF HourglassInv, Note
    <3>3. CASE ~visit.ticked
      <4>1. Hourglass_Initialized = FALSE /\ Hourglass_Current_Vector = Zero /\ Hourglass_Turning_Direction = 0
        BY <1>0, <2>1, <3>3 DEF HourglassInv
      <4>2. HasFlockShiftNinetyDegree(average, Hourglass_Current_Vector) = FALSE
        BY <4>1 DEF HasFlockShiftNinetyDegree
      <4>3. visit' = [ticked |-> TRUE, course |-> average, side |-> side, turned |-> FALSE, centroid |-> 0]
        BY <3>1, <3>3, <4>1, <4>2 DEF Note
      <4> QED
        BY <1>2, <2>1, <3>1, <4>1, <4>3 DEF HourglassInv
    <3> QED
      BY <3>2, <3>3
  <2>2. CASE state # "Hourglass"
    <3>1. UNCHANGED hourglassVars
      BY <1>2, <2>2 DEF UpdateFishVelocities, FlashInward, Join, memoryVars
    <3> QED
      BY <1>0, <1>2, <2>0, <2>2, <3>1 DEF HourglassInv, hourglassVars
  <2> QED
    BY <2>1, <2>2
<1>3. CASE Handle /\ events # <<>> /\ events' = Tail(events) /\ state' = state
  <2>0. visit' = visit
    BY <1>3 DEF Handle
  <2>1. CASE Head(events) = [kind |-> "leave", of |-> "Hourglass"]
    <3>0. 1 \in DOMAIN events /\ events[1] = Head(events)
      BY <1>0, <1>3 DEF TypeOK
    <3>1. LeavePending("Hourglass")
      BY <2>1, <3>0 DEF LeavePending
    <3>2. state' # "Hourglass" /\ ResetHourglassDirection
      BY <1>1, <1>3, <2>1, <3>1 DEF Handle
    <3> QED
      BY <3>2 DEF HourglassInv, ResetHourglassDirection
  <2>2. CASE Head(events) # [kind |-> "leave", of |-> "Hourglass"]
    <3>1. UNCHANGED hourglassVars
      BY <1>3, <2>2 DEF Handle
    <3>2. LeavePending("Hourglass")' <=> LeavePending("Hourglass")
      BY <1>0, <1>3, <2>2, PendingStep
    <3> QED
      BY <1>0, <1>3, <2>0, <3>1, <3>2 DEF HourglassInv, hourglassVars
  <2> QED
    BY <2>1, <2>2
<1>4. CASE Change
  <2>1. UNCHANGED hourglassVars /\ visit'.ticked = FALSE
    BY <1>4 DEF Change, NewVisit, memoryVars
  <2>2. LeavePending("Hourglass")' <=> LeavePending("Hourglass") \/ state = "Hourglass"
    BY <1>0, <1>4, PendingStep DEF Change
  <2> QED
    BY <1>0, <1>1, <2>1, <2>2 DEF HourglassInv, hourglassVars
<1>5. CASE UNCHANGED <<state, events, memoryVars, visit>>
  <2>1. LeavePending("Hourglass")' <=> LeavePending("Hourglass")
    BY <1>0, <1>5, PendingStep
  <2> QED
    BY <1>0, <1>5, <2>1 DEF HourglassInv, memoryVars, hourglassVars
<1> QED
  BY <1>0, <1>2, <1>3, <1>4, <1>5, ComposedCases

\* FlashIn forgets where it returned to before it is entered again.
LEMMA FlashStep ==
  ASSUME MemoryInv, TypeOK', WayInv', [ManoeuvreNext]_manoeuvreVars
  PROVE  FlashInv'
<1>0. TypeOK /\ WayInv /\ FlashInv /\ "FlashIn" \in StateName
  BY DEF MemoryInv, ManoeuvreTypeOK, StateName
<1>1. /\ state = "FlashIn" => ~LeavePending("FlashIn")
      /\ state' = "FlashIn" => ~LeavePending("FlashIn")'
  BY <1>0, NotYetBack
<1>2. CASE UpdateFishVelocities /\ UNCHANGED <<state, events>>
  <2>0. LeavePending("FlashIn")' <=> LeavePending("FlashIn")
    BY <1>0, <1>2, PendingStep
  <2>1. CASE state = "FlashIn"
    <3>0. FlashInward
      BY <1>2, <2>1 DEF UpdateFishVelocities
    <3>1. PICK centroid \in Place :
            /\ Flash_Return_Position' = IF Flash_Initialized THEN Flash_Return_Position
                                        ELSE (Flash_Return_Position + Num * centroid) \div Num
            /\ Flash_Initialized' = TRUE
            /\ Note(Zero, 0, FALSE, centroid)
      BY <3>0 DEF FlashInward
    <3>2. CASE visit.ticked
      BY <1>0, <1>2, <2>1, <3>1, <3>2 DEF FlashInv, Note
    <3>3. CASE ~visit.ticked
      <4>1. Flash_Initialized = FALSE /\ Flash_Return_Position = 0
        BY <1>0, <2>1, <3>3 DEF FlashInv
      <4>2. centroid \in Int
        BY ManoeuvreAssumption
      <4>3. (0 + Num * centroid) \div Num = centroid
        BY <4>2, SchoolSize, MeanOfEquals
      <4>4. Flash_Return_Position' = centroid /\ visit'.ticked /\ visit'.centroid = centroid
        BY <3>1, <3>3, <4>1, <4>3 DEF Note
      <4> QED
        BY <1>2, <2>1, <3>1, <4>4 DEF FlashInv
    <3> QED
      BY <3>2, <3>3
  <2>2. CASE state # "FlashIn"
    <3>1. UNCHANGED flashVars
      BY <1>2, <2>2 DEF UpdateFishVelocities, Hourglass, Join, memoryVars
    <3> QED
      BY <1>0, <1>2, <2>0, <2>2, <3>1 DEF FlashInv, flashVars
  <2> QED
    BY <2>1, <2>2
<1>3. CASE Handle /\ events # <<>> /\ events' = Tail(events) /\ state' = state
  <2>0. visit' = visit
    BY <1>3 DEF Handle
  <2>1. CASE Head(events) = [kind |-> "leave", of |-> "FlashIn"]
    <3>0. 1 \in DOMAIN events /\ events[1] = Head(events)
      BY <1>0, <1>3 DEF TypeOK
    <3>1. LeavePending("FlashIn")
      BY <2>1, <3>0 DEF LeavePending
    <3>2. state' # "FlashIn" /\ ResetFlash
      BY <1>1, <1>3, <2>1, <3>1 DEF Handle
    <3> QED
      BY <3>2 DEF FlashInv, ResetFlash
  <2>2. CASE Head(events) # [kind |-> "leave", of |-> "FlashIn"]
    <3>1. UNCHANGED flashVars
      BY <1>3, <2>2 DEF Handle
    <3>2. LeavePending("FlashIn")' <=> LeavePending("FlashIn")
      BY <1>0, <1>3, <2>2, PendingStep
    <3> QED
      BY <1>0, <1>3, <2>0, <3>1, <3>2 DEF FlashInv, flashVars
  <2> QED
    BY <2>1, <2>2
<1>4. CASE Change
  <2>1. UNCHANGED flashVars /\ visit'.ticked = FALSE
    BY <1>4 DEF Change, NewVisit, memoryVars
  <2>2. LeavePending("FlashIn")' <=> LeavePending("FlashIn") \/ state = "FlashIn"
    BY <1>0, <1>4, PendingStep DEF Change
  <2> QED
    BY <1>0, <1>1, <2>1, <2>2 DEF FlashInv, flashVars
<1>5. CASE UNCHANGED <<state, events, memoryVars, visit>>
  <2>1. LeavePending("FlashIn")' <=> LeavePending("FlashIn")
    BY <1>0, <1>5, PendingStep
  <2> QED
    BY <1>0, <1>5, <2>1 DEF FlashInv, memoryVars, flashVars
<1> QED
  BY <1>0, <1>2, <1>3, <1>4, <1>5, ComposedCases

\* A behaviour of the composition is one of the controller, whose invariant
\* carries the step of what the group remembers.
LEMMA MemoryInductive == ManoeuvreSpec => []IInv /\ []MemoryInv
<1>1. ManoeuvreInit => Init
  BY DEF ManoeuvreInit
<1>2. [ManoeuvreNext]_manoeuvreVars => [Next]_vars
  BY ComposedStep
<1>3. ManoeuvreInit => MemoryInv
  <2> SUFFICES ASSUME ManoeuvreInit PROVE MemoryInv
    OBVIOUS
  <2>1. TypeOK
    BY ControllerAssumption DEF ManoeuvreInit, Init, TypeOK, StateName
  <2>2. ManoeuvreTypeOK
    <3>1. (Num - 1) * 0 <= Num * MaxDistance
      <4>1. Num \in Nat /\ MaxDistance \in Nat
        BY SchoolSize, ManoeuvreAssumption
      <4>2. Num * MaxDistance \in Nat /\ (Num - 1) * 0 = 0
        BY <4>1
      <4> QED
        BY <4>2
    <3>2. Hourglass_Initialized \in BOOLEAN /\ Flash_Initialized \in BOOLEAN
      BY Zenon DEF ManoeuvreInit
    <3>3. /\ Hourglass_Turning_Direction = 0 /\ Flash_Return_Position = 0 /\ AverageDistanceFromCentroid = 0
          /\ Hourglass_Initial_Vector = Zero /\ Hourglass_Current_Vector = Zero
      BY DEF ManoeuvreInit
    <3> QED
      BY <2>1, <3>1, <3>2, <3>3 DEF ManoeuvreTypeOK
  <2>3. VisitType
    BY DEF ManoeuvreInit, VisitType, NewVisit
  <2>4. events = <<>> /\ state = "Wander"
    BY DEF ManoeuvreInit, Init
  <2>5. WayInv /\ HourglassInv /\ FlashInv
    BY <2>4 DEF ManoeuvreInit, WayInv, HourglassInv, FlashInv
  <2> QED
    BY <2>2, <2>3, <2>5 DEF MemoryInv
<1>4. IInv /\ IInv' /\ MemoryInv /\ [ManoeuvreNext]_manoeuvreVars => MemoryInv'
  <2> SUFFICES ASSUME IInv, IInv', MemoryInv, [ManoeuvreNext]_manoeuvreVars PROVE MemoryInv'
    OBVIOUS
  <2>1. TypeOK /\ TypeOK'
    BY DEF IInv
  <2>2. WayInv'
    BY <2>1, ComposedStep, WayStep DEF MemoryInv
  <2>3. ManoeuvreTypeOK' /\ VisitType'
    BY <2>1, MemoryTypeStep DEF MemoryInv
  <2>4. HourglassInv' /\ FlashInv'
    BY <2>1, <2>2, HourglassStep, FlashStep
  <2> QED
    BY <2>2, <2>3, <2>4 DEF MemoryInv
<1> QED
  BY <1>1, <1>2, <1>3, <1>4, ControllerInductive, PTL DEF ManoeuvreSpec

-----------------------------------------------------------------------------

\* The composition of the group with the controller and the state machine is
\* a behaviour of the controller alone: what is shown of its frames holds
\* when the group remembers its manoeuvres, too.
THEOREM ManoeuvreIsController == ManoeuvreSpec => Init /\ [][Next]_vars
<1>1. ManoeuvreInit => Init
  BY DEF ManoeuvreInit
<1>2. [ManoeuvreNext]_manoeuvreVars => [Next]_vars
  BY ComposedStep
<1> QED
  BY <1>1, <1>2, PTL DEF ManoeuvreSpec

\* The spread that Join measures stays bounded, although every tick adds the
\* last average to the sum, for every school of two fish or more.
THEOREM ManoeuvresTypeOK == ManoeuvreSpec => []ManoeuvreTypeOK
<1>1. MemoryInv => ManoeuvreTypeOK
  BY DEF MemoryInv
<1> QED
  BY <1>1, MemoryInductive, PTL

\* The speed limit is explained in the composition as well.
THEOREM ManoeuvresFastLimitIsExplained == ManoeuvreSpec => []FastLimitIsExplained
<1>1. IInv => FastLimitIsExplained
  BY DEF IInv, LimitInv, LimitOK, Pending, NewestOf, FastLimitIsExplained
<1> QED
  BY <1>1, MemoryInductive, PTL

\* Hourglass turns away from the course of this visit, to the side that was
\* right when it began, in whatever order ticks, transitions and events come.
THEOREM ManoeuvresHourglassOfThisVisit == ManoeuvreSpec => []HourglassOfThisVisit
<1>1. MemoryInv => HourglassOfThisVisit
  <2> SUFFICES ASSUME MemoryInv, state = "Hourglass" PROVE HourglassOfThisVisit
    BY DEF HourglassOfThisVisit
  <2>1. visit.ticked \in BOOLEAN
    BY DEF MemoryInv, VisitType
  <2> QED
    BY <2>1 DEF MemoryInv, HourglassInv, HourglassOfThisVisit
<1> QED
  BY <1>1, MemoryInductive, PTL

\* FlashIn returns to where the school was when this visit began.
THEOREM ManoeuvresFlashReturnsToCentroid == ManoeuvreSpec => []FlashReturnsToCentroid
<1>1. MemoryInv => FlashReturnsToCentroid
  BY DEF MemoryInv, FlashInv, FlashReturnsToCentroid
<1> QED
  BY <1>1, MemoryInductive, PTL

=============================================================================
