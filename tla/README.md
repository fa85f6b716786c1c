# FishFlock in TLA+

FishFlock simulates a school of fish that a player, as a predator, hunts. The
game's own code is `src/Source/FishFlock` (C++ for Unreal Engine 5); an
animation blueprint holds the state machine that chooses the school's manoeuvre,
and is not part of the repository's text. The repository also contains the source
of the editor plug-in RiderLink, which connects the Unreal editor to an IDE by
RD, a protocol of reactive entities over a socket. This directory models the
C++ code of both, checks it with TLC on small instances and proves theorems
about it, for every school and every number of messages, with TLAPS.

`PROJECT.json` lists the runs, the lines each definition stands for, the hazards
and the theorems. Source lines below are of `Simulation/FishGroup.cpp` unless
another file is named; `RD/` stands for
`src/Plugins/Developer/RiderLink/Source/RD/src/`.

## The system

### The school of fish

Everything runs on the game thread. In each frame the engine ticks every actor
once, in an order the code does not fix, and updates the animation of the
group's mesh.

| component | state | operations | talks to |
|---|---|---|---|
| School setup | `Fishes`, `Leaders`, the places and first velocities | `BeginPlay`, `RandomChooseLeaders`, `InitFishPositions` (316-406) | engine (spawn) |
| Fish senses | `bVision`, `bFeelRipple` of each fish | `AFish::Tick` (`Fish.cpp` 48-57) | reads the group's `Predator` |
| Controller | copies of the senses, `PredatorState`, ten timers | `UpdateControllerState`, `UpdatePredatorState`, `Enter…`, `Leave…`, `Reset…` (`FishControllerAnimInstance.cpp`) | polls the fish, is called by the blueprint, writes into the group |
| Steering | `Velocity` of each fish, `max_speed_current`, the leaders' place on the spline | `Tick` (348-361), `UpdateFishVelocities` (408-429), Wander, Compact, Join, Skitter, Avoid, FastAvoid, Herd | asks the state machine for its state |
| Look for obstacles | local arrays | `DetectNoCollisionDirections`, `FindNearest` (88-151) | engine (ray casts) |
| Split | `Split_Initialized`, two lists, two leaders | `UpdateFishVelocities_Split`, `Split_and_FindLeader` (673-787), `ResetSplitStatus` | predator, blueprint events |
| Fountain | none | `UpdateFishVelocities_Fountain` (789-852), `IsAnyFishFront` | predator |
| Hourglass | the turning direction, two vectors, a flag | 854-996, `HasFlockShiftNinetyDegree`, `ResetHourglassDirection` | predator, blueprint events |
| Flash | the return position, a flag | 633-671, `ResetFlash` | blueprint events |
| Ball | none | 556-631 | uses the speed limit others left |
| Boids rules | none | 456-553 | |
| Control parameters | `Centroid`, two distances | `UpdateControlParameters` (431-454) | read by the controller and by Herd |

What is hard about it: the order of ticks within a frame, and senses that are
therefore a frame old; events of the state machine that are handled after its
transitions and possibly after a tick of the group; flags and sums that are kept
between visits to a manoeuvre until a reset event; a loop over the school that
returns early; arrays that may be shorter than expected after a failed spawn;
directions and lengths that may be zero. The game persists nothing and starts no
thread.

What makes each part correct:

- Setup: leaders are distinct fish of the group; every fish is placed; the game
  goes on with the fish there are.
- Senses and controller: the alarm follows the predator within a frame; a timer
  runs exactly in its state; the speed limit belongs to the present manoeuvre.
- Steering: every fish is steered, without starving any; leaders keep their
  order on the spline; no fish swims into an obstacle it could see.
- Look: the direction chosen is free, and the best of those that are.
- Manoeuvres: every fish is in one group, the groups are those of this visit,
  they flee apart and away from the predator, and nothing is left over for the
  next visit.

### RD

The files are below `RD/rd_framework_cpp/src/main/`.

| component | state | operations | talks to |
|---|---|---|---|
| Send buffer | `data`, `queue`, `pending_queue`, three sequence numbers, a balance of pauses | `put`, `ThreadProc` with `process`, `pause`, `resume` with `reprocess`, `acknowledge`, `stop` (`wire/ByteBufferAsyncProcessor.cpp`) | is called by any thread and by the socket thread; runs a thread of its own |
| Socket wire | the socket, `max_received_seqn`, the stream of bytes | `set_socket_provider`, `receiverProc`, `read_header`, `read_package`, `send0`, `send_ack` (`wire/SocketWire.cpp`) | its peer over TCP; the buffer; the broker |
| Message broker | `subscriptions`, and by id an entry with two lists of waiting messages | `dispatch`, its deferred action, `invoke`, `advise_on` (`protocol/MessageBroker.cpp`) | is called by the socket thread; queues actions on the schedulers of the entities |
| Map | the map, `pendingForAck`, `next_version` | `set`, `remove`, `clear`, `on_wire_received` (`impl/RdMap.h`, `RD/rd_core_cpp/src/main/reactive/ViewableMap.h`) | the wire; the other end |
| Other entities | property, list, set, signal, calls | `impl/`, `base/`, `task/` | the wire |
| Ext wires, binding | what waits for a connection | `ext/`, `base/` | |
| Lifetimes, schedulers | queues of actions | `scheduler/`, `RD/rd_core_cpp/src/main/lifetime/` | |
| Rider modules | glue between the editor and the entities | `RiderLink`, `RiderGameControl`, `RiderLogging`, `RiderBlueprint` | the editor |

What is hard about it: three threads share the buffer under three mutexes, two of
them released between the steps of one operation; the connection breaks and comes
back while messages are sent, so that some have to be sent again and the peer has
to know them; acknowledgements are lost or late; a message may come before anyone
subscribed to its id, and an entity may leave while messages wait for it; both
ends change the same key at once.

What makes each part correct:

- Send buffer and wire: no message is forgotten or reordered; the peer passes over
  none; only what arrived counts as acknowledged; everything is sent in the end.
- Broker: an entity gets its messages once and in order, on its scheduler, and only
  while it is there.
- Map: the ends agree when nothing is under way; the master does not wait for ever.

## The modules

| module | models | actions |
|---|---|---|
| `SchoolSetup` | `BeginPlay` and its helpers | one per iteration of each loop: `SpawnFish`, `SpawnFails`, `ShuffleStep`, `ChooseLeader`, `ChooseOutOfRange`, `PlaceFish`, and the steps between the loops |
| `FishController` | senses, controller, state machine events, speed limit | `FishTick`, `GroupTick`, `PawnTick` (each once per frame, in any order), `UpdateControllerState`, `Transition`, one action per event handler, `NextFrame` |
| `Steering` | `AFishGroup::Tick` with the loop of Wander, Compact and Join | `BeginLoop`, `Look`, `Steer`, `Stop`, `EndLoop`, `Flee`, `Skitter`, `Move`; `EnterSkitter` is the event |
| `NearestDirection` | one fish's look for obstacles, in detail | `Cast` (one ray), `NextRing`, `NoWay`, `BeginFind`, `FindNearest` (one comparison), `Aim` |
| `Plane` | vectors of the horizontal plane | |
| `SplitManoeuvre` | Split over several visits | `BeginTick`, `SortLeft`, `SortRight`, `Sorted`, `Steer`, `EnterSplit`, `LeaveSplit`, `ResetSplitStatus` |
| `Fountain` | Fountain, one fish at a time, and the move after it | `BeginTick`, `SteerFront`, `SteerBehind`, `EndLoop`, `Move` |
| `Manoeuvres` | what Hourglass, FlashIn and Join keep between ticks, on top of `FishController` | `UpdateFishVelocities` (the group's tick in each state), `Handle` (an event, with `ResetHourglassDirection` and `ResetFlash`), `Change` (a transition), `Elsewhere` |
| `Window` | abstract: what one direction of a wire promises | `Put`, `Send`, `Receive`, `Confirm` |
| `Wire` | send buffer, socket thread, connection and the receiving peer | any thread: `Put`, `Stop`, `Terminate`; async thread: `Grab`, `SendNext`, `RecordSent`, `EndProcess`, `Exit`; socket thread: `Connect`, `Reprocess`, `Resend`, `EndResume`, `Acknowledge`, `Pause`; `Break`; the peer: `Receive` |
| `MessageBroker` | the broker, the default scheduler and another one | socket thread: `Dispatch`, `Put`; default scheduler: `AdviseOn`, `LifetimeEnds`, the deferred action as `BeginDeferred`, `Pop`, `Deliver`, `Check`, `Take`, `Flush`, and `RunInvoked`; the other: `RunCustom` |
| `RdMap` | the two ends of a map | `LocalSet`, `LocalRemove`, `Clear` at either end; `ReceiveAtSlave`, `ReceivePut`, `ReceiveAck` |

`NearestDirection` is the inside of `Look` and `Steer` of `Steering`: what it
establishes (`AimIsNearestOpen`) is what `Steer` takes as the goal. `Steering`
and `FishController` share the state machine's state: the first steers by it,
the second follows the speed limit and the timers through it. `Manoeuvres` is
composed with `FishController` action by action: a step of it is a step of
`FishController` together with what the group does in it, so every safety
property of the one holds of the other. `Wire` implements `Window` (`Promise`, with
`W == INSTANCE Window WITH …`). `MessageBroker` and `RdMap` take from `Wire` what it
promises while a connection lasts: messages arrive in order.

Each `MC…` module holds the instances for TLC, each `…Proofs` module the theorems
of its component; `RdProofs` holds those of `MessageBroker` and of `RdMap`. The operators whose comment begins with "Fault:" are not part
of a specification: each is a plausible bug in the definition below it, and
shows that a property would notice.

Variables have the names of the code's fields. Variables marked "auxiliary" are
not in the code: they record the past for a property, and no guard reads them.

### What is abstracted

- Positions and velocities. `Steering` and `NearestDirection` know directions
  only; `FishController` knows what each fish would sense, which may change
  whenever the group or the pawn moves; `SplitManoeuvre` and `Fountain` have
  integer coordinates in the horizontal plane, since the code decides by the
  signs of products and by comparisons of lengths, and drops Z.
- The boids rules answer any direction or none (`Target`, `Swims`). So does the
  memory of `TargetVelocity`, which the code does not initialise.
- Time: a timer counts frames, up to a cap.
- `FMath::VInterpTo` and `RInterpTo` go some way along the shorter arc.
- Floating point. The one place where rounding changes control is the counter
  of the rings, which may miss the last ring (`lastRing`); the number of points
  of a ring is the rounded-down quotient. A fish that looks straight up samples
  fewer different directions than the model has.
- `Manoeuvres`: the average velocity is one of three headings more than a quarter
  turn apart, or none; none stands for the zero vector and for a vector that is
  not a number, which both are at an angle to nothing. Positions are their
  centroid on a line, the spread is a whole number. A predator is there. That the
  two reset events come when their states are left is the blueprint's part.
- RD: a message is its number among those put, an id or a key is a model value.
  A mutex held from one action to the next is the `pc` of its holder. TCP delivers
  in order; when a connection breaks any tail of what is under way is lost, and
  until the sender notices, a send fails or seems to succeed. The bytes of the
  stream are reduced to whether a byte of a duplicate got into it (`garbled`).
  `RdMap`'s pointers are reduced to whether the key they point to is gone
  (`dangling`); a lookup then finds the entry or does not. `MessageBroker` counts
  the use of an erased entry or of a null subscription as `crashed` and ends there.
- The blueprint: `Transitions` is a constant, when a transition is taken is
  open, and its `leave` and `enter` events are handled in order, later in the
  same frame.

## What TLC checks

| run | instance | shows |
|---|---|---|
| `setup` | 4 fish, 3 leaders, up to 2 failed spawns | the shuffle keeps the fish, leaders are distinct, the range check fires only if fish are missing |
| `perception` | 2 fish, all pawn modes, no transitions | `NoticedInTime`, `AlarmEndsInTime` in every order of ticks; a predator that stays near one fish is noticed for good (`PredatorNoticed`) |
| `manoeuvres` | 2 fish that sense nothing, the transitions of the report's figure, 2 per frame | the speed limit follows the state; Hourglass and FlashIn begin with nothing of an earlier visit; the spread stays bounded although the last average is added each time |
| `split` | 3 fish, 4 places, 3 courses, 2 visits in turn | `GroupsOfThisVisit`, `LedByTheFarthest`, `LeadersFleeApart` |
| `steering` | 3 fish, leaders 2 and 3, a spline of length 3 | who is left out by the early return, that leaders keep pace, and that a fish is steered for ever once nobody before it is blocked (`SteeringResumes`) |
| `fountain` | 2 fish on a 5 x 5 grid, 5 courses | a fish that escapes ahead of the predator stays on its side of the course when all move (`KeepsSideAhead`) |
| `nearest_direction` | rings of 1, 1 and 3 points, 3 angles | the direction found is the best free one |
| `wire` | 3 messages, 2 broken connections, a stop at any moment | nothing is forgotten (`NothingForgotten`), passed over (`Gapless`) or confirmed before it arrived (`ConfirmedWasReceived`, `AcksGrow`); without a reconnection the peer gets each message once and in order; the refinement `Promise`; the liveness `SentIsConfirmed` |
| `rd_map` | 2 keys, 2 values, 5 changes at either end | `EndsAgree`, `AcksArePaired`, `WaitsForAnswer` |
| `message_broker` | an id on each kind of scheduler, 3 messages, 2 subscriptions | `InOrder`, `NothingLost`, `CrashIsExplained`, `AstrayNeedsCompany`, and that each message is decided in the end (`Decided`) |

Two more runs, `steering_avoidance` and `wire_acks`, expect a violation; see
"Findings".

The bounds. Order matters between a fish, one before and one after it: three
fish show every case, and two where only pairs interact. `setup` has one fish
more than leaders, so that the shuffle can leave any fish out, and two failures,
so that fish can be too few. In `perception` no fish has both senses at once:
the controller takes their union, to which two fish contribute; the state machine
stays in one state (`QuietSpec`), because neither senses nor alarm read it, and
its transitions and events are in `manoeuvres`: those drawn in the report's figure,
and, since the figure does not say which states its names AllStates and
PredatorChase stand for, one from every state to Wander and to Compact. There
fish sense nothing, because the handlers do not read senses; two transitions per
frame are the least that make an event stale, and two places, on both sides of
the origin, show a sum that was not reset. `MaxVisits` numbers visits modulo two,
which tells a visit from the one before. `MissCap`, `TimerCap` and `steady` stop
counting where the properties no longer compare. One compass point is enough for
`steering`, whose properties do not speak of directions. Angles in
`nearest_direction` are below, at and above the threshold.

Three messages let one be acknowledged, one pending and one put at a time; two
breaks let what was resent be resent again. Five changes let both ends change a
key, be answered, and change it again while another key is changed. Three
messages are one that waits, one that is held back behind it and one that comes
while their entry is taken away; two subscriptions let an entity follow another
under the same id.

`CHECK_DEADLOCK FALSE` is said where the modelled call returns and nothing
follows (`setup`, `nearest_direction`), and in the runs of RD, where everything may
have been put, sent and handled.

Fairness. `FishController` is weakly fair in `Next`: the game loop goes on, and
each frame has finitely many steps, because every actor ticks once and
transitions are bounded. `Steering` is weakly fair in the steps of `Tick`, which the
engine calls every frame; the event `EnterSkitter` is not fair. `Wire` is weakly
fair in each thread (`AsyncThread`, `SocketThread`, the peer's `Receive`): each
blocks only in waits that the model has as guards, and Client and Server connect
again in a loop. `MessageBroker` is weakly fair in each scheduler's thread and in
the end of a dispatch that has begun. Nothing is assumed of the state machine, of
obstacles, of anyone who puts a message, of subscriptions, or of connections not
to break, except that their number is bounded. The other specifications have no
fairness, and only safety is asked of them.

### Findings

Shown by a run:

- `steering_avoidance`: the report (index.md:7) wants collision avoidance "under
  all circumstances"; behind a blocked fish the others move without looking
  (182, 237, 1025).
- `wire_acks`: the async thread takes `data` under `lock` and enters `process` after it
  let the lock go (`ByteBufferAsyncProcessor.cpp` 159-165). If the connection
  breaks and comes back in between, `pause` (228) finds nothing to wait for, and
  the messages go out as new before `resume` resends: the peer has passed over
  the older ones, which it then takes for duplicates, and gets the newer ones
  twice. `acknowledge` reports the second answer as an error (259). `overtook` is
  the auxiliary variable for this race: `Gapless`, `ConfirmedWasReceived` and
  `AcksGrow` hold without it and fail with it.

Described by the conditions of properties that hold:

- `read_package` (`SocketWire.cpp` 325) answers a duplicate with `true`, which is the
  length one: the stream goes on with one byte of it (`garbled`), so that nothing
  after the first resent duplicate is read as it was written.
  `OnceOverOneConnection` says that this needs a reconnection.
- The deferred action of the broker asks whether the queue is empty and erases the
  entry without the lock (`MessageBroker.cpp` 90-93). A message that comes in
  between is lost, or overtakes those that are held back, and its own action uses
  the erased iterator (66). The ghost `raced` records this.
- An entity that leaves while messages are held back for it makes the flush
  dereference null (96), or lets a held message follow a later one (`abandoned`).
- `subscriptions[id]` leaves a null entry (54, 67), which `count` (28) takes for an
  entity: the message goes to one that has gone, contrary to the log line of 36
  (`astray`).
- `emplace` (`RdMap.h` 116) keeps the first version when the master changes a key
  twice before the answer; the first answer ends the waiting, a change of the
  slave that crossed the second is applied, and the ends differ. A `K const*` of a
  removed key stays in `pendingForAck` (39). `entangled` records both.
- A failed spawn is reported and passed over ("Fail To Create Fish!", 336), but
  leaders are counted against the number asked for (387): the array is read past
  its end (404; `AbortsOnlyShortOfFish`).
- The comments before `FindNearest` (186) speak of the current velocity, the code
  compares with the target velocity (189).
- Before a predator at rest all fish of Split are right and the leader's velocity
  is zero (727), against index.md:83; "front" in Fountain (797) is measured
  against the world's X axis and not the predator's course.

## What is proved

Every invariant and action property of the passing runs is also a theorem, for all
values of the constants that satisfy the module's assumption. Some further
properties are proved that no run lists, because they follow the same invariant
(`NoMessageTwice`: no message is handled twice, or handled and given up). The
assumptions only give types, say that a leader exists (`Steering`), that there are
two fish (`Manoeuvres`), that the spline, the compass and the rings are not empty,
and that there are finitely many keys. One says more: `NoQuickReturn` of
`Manoeuvres`, that the state machine has no way from Hourglass or FlashIn back
into the same state in the transitions of one frame. TLC evaluates them all in
the runs; the transitions of the report's figure satisfy it.

Each proof finds an inductive invariant, and one step per action preserves it.

- `SchoolSetupProofs`: each loop has an invariant (what it did to the entries
  before its counter). The swap lemma says that `Swap` neither loses nor repeats
  an entry; from it the shuffled array is a permutation of `Fishes`, and leaders
  are a prefix of it.
- `FishControllerProofs`: the queue of events is a chain of leave and enter pairs
  that ends in the present state; a timer runs exactly in the state in which the
  chain begins. For the alarm, a fish that ticked since its senses last changed
  has up-to-date senses, and after a full frame every fish did.
  Its second half is about `Manoeuvres`. Every behaviour of the composition is one
  of `FishController` (`ManoeuvreIsController`), so the invariant above holds in it.
  `WayInv` adds that from the state of an unhandled leave event there is a way of
  as many transitions to the present state as there are pairs of events behind
  it. With `NoQuickReturn` the machine is therefore never back in Hourglass while
  the reset of the last visit waits, and `HourglassInv` says what is remembered
  when: the first tick's values during a visit, nothing before it and after the
  reset. `FlashInv` is the same for FlashIn. The spread stays bounded because it
  either did not grow or its sum was divided by more than what was added.
- `SplitManoeuvreProofs`: the lists contain exactly the fish below the counter on
  their side, once; the leader is the first farthest of them; and no list is in
  use while it is being formed. Entering Split again before the reset keeps the
  old groups, which is why `GroupsOfThisVisit` excepts a waiting reset.
- `SteeringProofs`: the fish that looked are those before the counter; the
  counts of missed ticks are monotone along the array because a return leaves
  out a suffix of it; two leaders differ by what one advanced in ticks that did
  not reach the other.
- `FountainProofs`: the velocity of each fish before the counter is its escape;
  the rest is arithmetic of products, isolated in lemmas.
- `NearestDirectionProofs`: the results are the open directions among the rays
  cast so far, ordered by ring; the minimum so far is the first of its equals.

- `WireProofs`: the counters and the three queues are one sequence of the messages
  put (`NothingForgotten` strengthened by where each thread is); a package under
  way carries the number of its message. From it the refinement of `Window` is by
  cases on the actions: only `Put`, `SendNext` or `RecordSent`, `Receive` and
  `Acknowledge` change what `Window` sees. For `Gapless` the invariant says which
  numbers the packages under way cover: as long as no package overtook, they
  continue what was accepted, with repetitions at the seams of connections.
  On the first connection there is no seam: `FirstInv` says that the packages under
  way are numbered on from what was received without a gap, and that none is
  missing while the connection works; hence `OnceAndInOrder`.
- `RdProofs`, the map: a key that is not entangled is idle (nothing of the master is
  under way and the slave's changes are what the master will see), told (the
  master's change is on its way) or answered (the acknowledgement is); each action
  moves one key between these phases.
- `RdProofs`, the broker. The types (`TypeInv`) say more than TLC needs to check: a
  task, an entry and the action hold only messages that have arrived, for their id.
  Three invariants stand on them.
  - `LiveInv` holds while the program has not crashed. A deferred task names an entry,
    and the entry may go when another task finds it empty. What excludes that for an
    id that was not raced is a numbering of the default scheduler's queue: each task
    is assigned a message, in ascending order, a deferred task that finds its entry a
    message that waits in it, and each message that waits has a task. An entry that is
    taken away is empty, so no task looks for it any more. `PresenceInv` adds who is
    subscribed while a message or an action is under way. From it a crash has one of
    the two races as its cause (`CrashesAreExplained`), and what is taken away holds
    no message of an id without a race (`NoMessageIsLost`).
  - `PlaceInv`: there is an assignment of places such that every message found in a
    queue, an entry, the action or a result is in its place. So it is nowhere twice,
    also in the runs that end in a crash (`NoMessageTwice`).
  - `OrderInv`, for an id whose order is kept: what was executed arrived before what
    is queued, that before what the action holds, that before what waits for the
    default scheduler, and that before what is held back; each step takes the oldest
    of a layer to an earlier one (`MessagesInOrder`).
  - `CompanyInv` and `AstrayInv`: the map of subscriptions keeps a null behind only if
    some message found nobody, and that message still waits or was reported; until an
    entity takes the id it moves only from the one to the other. It is not the message
    that went astray, since that has another place (`StrayIsNotAlone`).

Only checked by TLC: the liveness properties (`PredatorNoticed`,
`SteeringResumes`, `SentIsConfirmed`, `Decided`), which need fairness and are out of
the prover's reach, and the violations.

## What is not modelled

- Ball, the boids rules and the control parameters are numeric laws of motion
  without control flow; `Flee`, `Target` and `Swims` allow whatever they compute.
  Values that are not numbers are followed nowhere but in the heading of
  `Manoeuvres`.
- `GetNearestNeighboursByPercentage` is not called. The game mode, the module files
  and the predator's class add no behaviour.
- RD's property, list, set, signal and calls, the ext wires, the binding of
  entities, lifetimes, the heartbeat (its outcome is a flag that the wire itself
  does not read) and serialisation. `Wire` has one direction: that both peers
  resend before they read, and could wait for each other with full buffers, is
  outside it.
- The Rider modules are glue to the editor's delegates; the protocol models below
  `RiderLink/Public/Model` are generated.
- Three quarters of the repository's lines of C++ are libraries vendored below
  `src/Plugins/Developer/RiderLink/Source/RD/thirdparty` (formatting, optional and
  variant types, hash tables, sockets) and the generated models. They are used,
  not developed, here.
