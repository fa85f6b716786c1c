----------------------------- MODULE SchoolSetup -----------------------------
(***************************************************************************)
(* AFishGroup::BeginPlay and the two helpers it calls.  The group spawns   *)
(* FishNum fish, any of which the engine may fail to create, shuffles a    *)
(* copy of the array of the fish it got, takes the first LeaderNum entries *)
(* of the copy as leaders, and puts every fish at its starting place.      *)
(*                                                                         *)
(* A fish is named by the value of its Index field, the counter of the     *)
(* spawning loop.  Arrays are 1-based here and 0-based in the code.        *)
(***************************************************************************)
EXTENDS Integers, Sequences, Functions

CONSTANTS
  FishNum,      \* the number of fish the editor asks for
  LeaderNum,    \* the number of leaders the editor asks for, any integer
  MaxFailures   \* bound: how many calls of SpawnActor may fail

ASSUME SetupAssumption ==
  /\ FishNum \in Nat
  /\ LeaderNum \in Int
  /\ MaxFailures \in Nat

VARIABLES
  pc,        \* the loop of BeginPlay that runs
  idx,       \* the counter of that loop
  failures,  \* how many spawns failed so far
  Fishes,    \* the array of the fish that exist
  shuffled,  \* FishesShuffled, the copy that is permuted
  Leaders,   \* the array of leaders
  start      \* where InitFishPositions put each fish

vars == <<pc, idx, failures, Fishes, shuffled, Leaders, start>>

FishId == 0 .. FishNum - 1

Places == {"unplaced", "spline", "sphere"}

(***************************************************************************)
(* FMath::Clamp(LeaderNum, 0, FishNum).  The upper bound is the number of  *)
(* fish that were asked for, whatever the number that exist.               *)
(***************************************************************************)
LeaderNum_Clamped ==
  IF LeaderNum < 0 THEN 0 ELSE IF LeaderNum < FishNum THEN LeaderNum ELSE FishNum

\* Fault: an assignment where a swap is meant.
SwapLosing(s, i, j) == [s EXCEPT ![i] = s[j]]

Swap(s, i, j) == [s EXCEPT ![i] = s[j], ![j] = s[i]]

\* Fault: counts from one.
IndexFromOne == idx + 1

\* The Index of the fish that is spawned.
Index == idx

\* Fault: the last fish counts as past the end.
PastEndEarly == Len(Leaders) + 1 >= Len(shuffled)

\* The next leader would be read from past the end of the copy.
PastEnd == Len(Leaders) >= Len(shuffled)

FishToPlace == Fishes[idx]

-----------------------------------------------------------------------------

\* A group without a FishClass skips the whole body and stays empty.
Init ==
  /\ pc \in {"spawn", "ready"}
  /\ idx = 0
  /\ failures = 0
  /\ Fishes = <<>>
  /\ shuffled = <<>>
  /\ Leaders = <<>>
  /\ start = [f \in FishId |-> "unplaced"]

\* SpawnActor returned a fish: it is appended and gets its Index.
SpawnFish ==
  /\ pc = "spawn" /\ idx < FishNum
  /\ Fishes' = Append(Fishes, Index)
  /\ idx' = idx + 1
  /\ UNCHANGED <<pc, failures, shuffled, Leaders, start>>

\* SpawnActor returned null: a message on the screen, and the loop goes on.
SpawnFails ==
  /\ pc = "spawn" /\ idx < FishNum
  /\ failures < MaxFailures
  /\ failures' = failures + 1
  /\ idx' = idx + 1
  /\ UNCHANGED <<pc, Fishes, shuffled, Leaders, start>>

\* The loop is over; RandomChooseLeaders starts on a copy of the array.
BeginShuffle ==
  /\ pc = "spawn" /\ idx >= FishNum
  /\ pc' = "shuffle"
  /\ idx' = 1
  /\ shuffled' = Fishes
  /\ Leaders' = <<>>
  /\ UNCHANGED <<failures, Fishes, start>>

\* One iteration of the shuffle: RandRange(i, LastIndex), then Swap.
ShuffleStep ==
  /\ pc = "shuffle" /\ idx <= Len(shuffled)
  /\ \E j \in idx .. Len(shuffled) : shuffled' = Swap(shuffled, idx, j)
  /\ idx' = idx + 1
  /\ UNCHANGED <<pc, failures, Fishes, Leaders, start>>

EndShuffle ==
  /\ pc = "shuffle" /\ idx > Len(shuffled)
  /\ pc' = "choose"
  /\ UNCHANGED <<idx, failures, Fishes, shuffled, Leaders, start>>

\* Leaders.Add(FishesShuffled[Idx]), with Idx inside the copy.
ChooseLeader ==
  /\ pc = "choose" /\ Len(Leaders) < LeaderNum_Clamped
  /\ ~PastEnd
  /\ Leaders' = Append(Leaders, shuffled[Len(Leaders) + 1])
  /\ UNCHANGED <<pc, idx, failures, Fishes, shuffled, start>>

\* FishesShuffled[Idx] with Idx past the end: the range check of TArray stops
\* the program.
ChooseOutOfRange ==
  /\ pc = "choose" /\ Len(Leaders) < LeaderNum_Clamped
  /\ PastEnd
  /\ pc' = "aborted"
  /\ UNCHANGED <<idx, failures, Fishes, shuffled, Leaders, start>>

EndChoose ==
  /\ pc = "choose" /\ Len(Leaders) >= LeaderNum_Clamped
  /\ pc' = "place"
  /\ idx' = 1
  /\ UNCHANGED <<failures, Fishes, shuffled, Leaders, start>>

\* One iteration of InitFishPositions: a leader starts on the spline, at rest;
\* another fish on the sphere around the spline's origin, in motion.
PlaceFish ==
  /\ pc = "place" /\ idx <= Len(Fishes)
  /\ start' = [start EXCEPT ![FishToPlace] =
                 IF FishToPlace \in Range(Leaders) THEN "spline" ELSE "sphere"]
  /\ idx' = idx + 1
  /\ UNCHANGED <<pc, failures, Fishes, shuffled, Leaders>>

EndPlace ==
  /\ pc = "place" /\ idx > Len(Fishes)
  /\ pc' = "ready"
  /\ UNCHANGED <<idx, failures, Fishes, shuffled, Leaders, start>>

Next ==
  \/ SpawnFish
  \/ SpawnFails
  \/ BeginShuffle
  \/ ShuffleStep
  \/ EndShuffle
  \/ ChooseLeader
  \/ ChooseOutOfRange
  \/ EndChoose
  \/ PlaceFish
  \/ EndPlace

Spec == Init /\ [][Next]_vars

-----------------------------------------------------------------------------

\* Type invariant: the state of the loops.
TypeOK ==
  /\ pc \in {"spawn", "shuffle", "choose", "place", "ready", "aborted"}
  /\ idx \in Nat
  /\ failures \in 0 .. MaxFailures
  /\ Fishes \in Seq(FishId)
  /\ shuffled \in Seq(FishId)
  /\ Leaders \in Seq(FishId)
  /\ start \in [FishId -> Places]

\* The swaps of the shuffle neither lose nor repeat a fish, so that no leader
\* is chosen twice and every leader is a fish of the group: Rule_FollowLeaders
\* divides by Leaders.Num() and every steering loop asks Leaders.Contains.
LeadersAreDistinctFish ==
  /\ Range(Leaders) \subseteq Range(Fishes)
  /\ IsInjective(Leaders)

\* When BeginPlay returns, each fish of the group has been placed once, the
\* leaders and no others on the spline, and there are as many leaders as the
\* clamp allows.
EveryFishPlaced ==
  pc = "ready" /\ Fishes # <<>> =>
    /\ Len(Leaders) = LeaderNum_Clamped
    /\ \A f \in FishId :
         /\ start[f] = "unplaced" <=> f \notin Range(Fishes)
         /\ start[f] = "spline" <=> f \in Range(Leaders)

\* The program stops in RandomChooseLeaders only if spawns failed and more
\* leaders are asked for than there are fish.
AbortsOnlyShortOfFish ==
  pc = "aborted" => failures > 0 /\ LeaderNum_Clamped > Len(Fishes)

=============================================================================
