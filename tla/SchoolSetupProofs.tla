-------------------------- MODULE SchoolSetupProofs --------------------------
(***************************************************************************)
(* The invariants of SchoolSetup hold for every number of fish, every      *)
(* number of leaders and every pattern of failed spawns.                   *)
(*                                                                         *)
(* The argument: the spawning loop appends growing indices, so Fishes has  *)
(* no repetition; each swap permutes the copy, so the copy keeps exactly   *)
(* the fish of the group, without repetition; Leaders is a prefix of the   *)
(* copy; and the placing loop has placed exactly the fish it has passed.   *)
(***************************************************************************)
EXTENDS SchoolSetup, TLAPS

\* The spawning loop: each iteration appends a new index or counts a failure.
SpawnInv ==
  /\ IsInjective(Fishes)
  /\ pc = "spawn" =>
       /\ \A k \in DOMAIN Fishes : Fishes[k] < idx
       /\ idx = Len(Fishes) + failures
       /\ idx <= FishNum
       /\ shuffled = <<>>
  /\ pc \in {"shuffle", "choose", "place", "aborted"} => Len(Fishes) + failures = FishNum

\* The shuffled copy holds the fish of the group, in some order.
CopyInv ==
  pc # "spawn" =>
    /\ IsInjective(shuffled)
    /\ Len(shuffled) = Len(Fishes)
    /\ Range(shuffled) = Range(Fishes)

\* The leaders are a prefix of the copy, no longer than the clamp.
LeaderInv ==
  /\ pc \in {"spawn", "shuffle"} => Leaders = <<>>
  /\ Len(Leaders) <= Len(shuffled)
  /\ \A k \in DOMAIN Leaders : Leaders[k] = shuffled[k]
  /\ pc # "ready" => Len(Leaders) <= LeaderNum_Clamped
  /\ pc = "place" => Len(Leaders) = LeaderNum_Clamped
  /\ pc = "aborted" => Len(Leaders) >= Len(shuffled) /\ Len(Leaders) < LeaderNum_Clamped

\* The place of fish f once the placing loop has passed it.
PlaceOf(f) == IF f \in Range(Leaders) THEN "spline" ELSE "sphere"

\* The placing loop has placed the fish before its counter and no others.
PlaceInv ==
  /\ pc = "shuffle" => idx >= 1
  /\ pc \in {"spawn", "shuffle", "choose", "aborted"} => start = [f \in FishId |-> "unplaced"]
  /\ pc = "place" =>
       /\ idx \in 1 .. Len(Fishes) + 1
       /\ \A f \in FishId :
            IF \E k \in 1 .. idx - 1 : Fishes[k] = f
            THEN start[f] = PlaceOf(f)
            ELSE start[f] = "unplaced"

IInv == TypeOK /\ SpawnInv /\ CopyInv /\ LeaderInv /\ PlaceInv /\ EveryFishPlaced

-----------------------------------------------------------------------------

\* The clamped number of leaders is between 0 and the number of fish asked for.
LEMMA ClampRange == LeaderNum_Clamped \in 0 .. FishNum
  BY SetupAssumption DEF LeaderNum_Clamped

\* A swap of two entries keeps the length, the members and the distinctness.
LEMMA SwapPermutes ==
  ASSUME NEW S, NEW s \in Seq(S), NEW i \in 1 .. Len(s), NEW j \in 1 .. Len(s)
  PROVE  /\ Swap(s, i, j) \in Seq(S)
         /\ Len(Swap(s, i, j)) = Len(s)
         /\ Range(Swap(s, i, j)) = Range(s)
         /\ IsInjective(s) => IsInjective(Swap(s, i, j))
<1> DEFINE t == Swap(s, i, j)
           n == Len(s)
<1>1. /\ t \in Seq(S) /\ Len(t) = n /\ DOMAIN t = 1 .. n /\ DOMAIN s = 1 .. n
      /\ t[i] = s[j] /\ t[j] = s[i]
      /\ \A k \in 1 .. n : k # i /\ k # j => t[k] = s[k]
  BY DEF Swap
<1>2. Range(t) \subseteq Range(s)
  BY <1>1 DEF Range
<1>3. Range(s) \subseteq Range(t)
  <2>1. ASSUME NEW k \in 1 .. n PROVE \E m \in 1 .. n : t[m] = s[k]
    <3>1. CASE k = i
      BY <1>1, <3>1
    <3>2. CASE k = j
      BY <1>1, <3>2
    <3>3. CASE k # i /\ k # j
      BY <1>1, <3>3
    <3> QED
      BY <3>1, <3>2, <3>3
  <2>2. ASSUME NEW x \in Range(s) PROVE x \in Range(t)
    <3>1. PICK k \in 1 .. n : x = s[k]
      BY <1>1, <2>2 DEF Range
    <3>2. PICK m \in 1 .. n : t[m] = x
      BY <2>1, <3>1
    <3> QED
      BY <1>1, <3>2 DEF Range
  <2> QED
    BY <2>2
<1>4. ASSUME IsInjective(s) PROVE IsInjective(t)
  BY <1>1, <1>4 DEF IsInjective
<1> QED
  BY <1>1, <1>2, <1>3, <1>4

\* Appending a new member keeps a sequence distinct.
LEMMA AppendDistinct ==
  ASSUME NEW S, NEW s \in Seq(S), NEW e \in S, IsInjective(s), e \notin Range(s)
  PROVE  /\ Append(s, e) \in Seq(S)
         /\ Len(Append(s, e)) = Len(s) + 1
         /\ \A k \in 1 .. Len(s) : Append(s, e)[k] = s[k]
         /\ Append(s, e)[Len(s) + 1] = e
         /\ IsInjective(Append(s, e))
<1> DEFINE t == Append(s, e)
<1>1. /\ t \in Seq(S) /\ Len(t) = Len(s) + 1
      /\ \A k \in 1 .. Len(s) : t[k] = s[k]
      /\ t[Len(s) + 1] = e
      /\ DOMAIN s = 1 .. Len(s) /\ DOMAIN t = 1 .. Len(s) + 1
  OBVIOUS
<1>2. \A k \in 1 .. Len(s) : s[k] # e
  BY <1>1 DEF Range
<1>3. IsInjective(t)
  BY <1>1, <1>2 DEF IsInjective
<1> QED
  BY <1>1, <1>3

-----------------------------------------------------------------------------

\* The loops of BeginPlay keep their state well typed.
LEMMA TypeStep ==
  ASSUME IInv, [Next]_vars
  PROVE  TypeOK'
<1> USE SetupAssumption DEF TypeOK, IInv
<1>1. CASE SpawnFish
  BY <1>1 DEF SpawnFish, Index, FishId
<1>2. CASE SpawnFails
  BY <1>2 DEF SpawnFails
<1>3. CASE BeginShuffle
  BY <1>3 DEF BeginShuffle
<1>4. CASE ShuffleStep
  <2>1. PICK j \in idx .. Len(shuffled) : shuffled' = Swap(shuffled, idx, j)
    BY <1>4 DEF ShuffleStep
  <2>2. idx \in 1 .. Len(shuffled) /\ j \in 1 .. Len(shuffled)
    BY <1>4, <2>1 DEF ShuffleStep, PlaceInv
  <2>3. shuffled' \in Seq(FishId)
    BY <2>1, <2>2, SwapPermutes
  <2> QED
    BY <1>4, <2>3 DEF ShuffleStep
<1>5. CASE EndShuffle
  BY <1>5 DEF EndShuffle
<1>6. CASE ChooseLeader
  BY <1>6 DEF ChooseLeader, PastEnd
<1>7. CASE ChooseOutOfRange
  BY <1>7 DEF ChooseOutOfRange, PastEnd
<1>8. CASE EndChoose
  BY <1>8 DEF EndChoose
<1>9. CASE PlaceFish
  <2>1. PICK p \in Places : start' = [start EXCEPT ![Fishes[idx]] = p]
    BY <1>9 DEF PlaceFish, FishToPlace, Places
  <2>2. start' \in [FishId -> Places]
    BY <2>1
  <2> QED
    BY <1>9, <2>2 DEF PlaceFish, FishToPlace
<1>10. CASE EndPlace
  BY <1>10 DEF EndPlace
<1>11. CASE UNCHANGED vars
  BY <1>11 DEF vars
<1> QED
  BY <1>1, <1>2, <1>3, <1>4, <1>5, <1>6, <1>7, <1>8, <1>9, <1>10, <1>11 DEF Next

-----------------------------------------------------------------------------

\* The spawning loop and the count of the fish it made.
LEMMA SpawnStep ==
  ASSUME TypeOK, TypeOK', IInv, [Next]_vars
  PROVE  SpawnInv'
<1> USE SetupAssumption DEF IInv, TypeOK, SpawnInv
<1>1. CASE SpawnFish
  <2>1. idx \in FishId /\ idx \notin Range(Fishes)
    BY <1>1 DEF SpawnFish, Index, Range, FishId
  <2>2. /\ IsInjective(Fishes') /\ Len(Fishes') = Len(Fishes) + 1
        /\ \A k \in 1 .. Len(Fishes) : Fishes'[k] = Fishes[k]
        /\ Fishes'[Len(Fishes) + 1] = idx
    BY <1>1, <2>1, AppendDistinct DEF SpawnFish, Index
  <2>3. \A k \in DOMAIN Fishes' : Fishes'[k] < idx'
    BY <1>1, <2>2 DEF SpawnFish, Index, FishId
  <2> QED
    BY <1>1, <2>2, <2>3 DEF SpawnFish, Index
<1>2. CASE SpawnFails
  BY <1>2 DEF SpawnFails, IsInjective, FishId
<1>3. CASE BeginShuffle
  BY <1>3 DEF BeginShuffle, IsInjective
<1>4. CASE ShuffleStep
  BY <1>4 DEF ShuffleStep, IsInjective
<1>5. CASE EndShuffle
  BY <1>5 DEF EndShuffle, IsInjective
<1>6. CASE ChooseLeader
  BY <1>6 DEF ChooseLeader, PastEnd, IsInjective
<1>7. CASE ChooseOutOfRange
  BY <1>7 DEF ChooseOutOfRange, PastEnd, IsInjective
<1>8. CASE EndChoose
  BY <1>8 DEF EndChoose, IsInjective
<1>9. CASE PlaceFish
  BY <1>9 DEF PlaceFish, FishToPlace, IsInjective
<1>10. CASE EndPlace
  BY <1>10 DEF EndPlace, IsInjective
<1>11. CASE UNCHANGED vars
  BY <1>11 DEF vars, IsInjective
<1> QED
  BY <1>1, <1>2, <1>3, <1>4, <1>5, <1>6, <1>7, <1>8, <1>9, <1>10, <1>11 DEF Next

\* The copy: only the shuffle changes it, and only by swaps.
LEMMA CopyStep ==
  ASSUME TypeOK, IInv, [Next]_vars
  PROVE  CopyInv'
<1> USE SetupAssumption DEF IInv, TypeOK, CopyInv
<1>1. CASE SpawnFish \/ SpawnFails
  BY <1>1 DEF SpawnFish, Index, SpawnFails
<1>2. CASE BeginShuffle
  BY <1>2 DEF BeginShuffle, SpawnInv, IsInjective, Range
<1>3. CASE ShuffleStep
  <2>1. PICK j \in idx .. Len(shuffled) : shuffled' = Swap(shuffled, idx, j)
    BY <1>3 DEF ShuffleStep
  <2>2. idx \in 1 .. Len(shuffled) /\ j \in 1 .. Len(shuffled)
    BY <1>3, <2>1 DEF ShuffleStep, PlaceInv
  <2>3. /\ Len(shuffled') = Len(shuffled)
        /\ Range(shuffled') = Range(shuffled)
        /\ IsInjective(shuffled')
    BY <1>3, <2>1, <2>2, SwapPermutes DEF ShuffleStep
  <2> QED
    BY <1>3, <2>3 DEF ShuffleStep, Range
<1>4. CASE EndShuffle \/ ChooseLeader \/ ChooseOutOfRange \/ EndChoose \/ PlaceFish \/ EndPlace
  BY <1>4 DEF EndShuffle, ChooseLeader, PastEnd, ChooseOutOfRange, PastEnd, EndChoose, PlaceFish, FishToPlace, EndPlace,
              IsInjective, Range
<1>5. CASE UNCHANGED vars
  BY <1>5 DEF vars, IsInjective, Range
<1> QED
  BY <1>1, <1>2, <1>3, <1>4, <1>5 DEF Next

\* The leaders: the choosing loop copies the next entry of the shuffled array.
LEMMA LeaderStep ==
  ASSUME TypeOK, IInv, [Next]_vars
  PROVE  LeaderInv'
<1> USE SetupAssumption, ClampRange DEF IInv, TypeOK, LeaderInv
<1> USE DEF LeaderNum_Clamped
<1>1. CASE SpawnFish \/ SpawnFails
  BY <1>1 DEF SpawnFish, Index, SpawnFails, SpawnInv
<1>2. CASE BeginShuffle
  BY <1>2 DEF BeginShuffle
<1>3. CASE ShuffleStep
  <2>1. Len(shuffled') >= 0
    <3>1. PICK j \in idx .. Len(shuffled) : shuffled' = Swap(shuffled, idx, j)
      BY <1>3 DEF ShuffleStep
    <3> QED
      BY <3>1 DEF Swap
  <2> QED
    BY <1>3, <2>1 DEF ShuffleStep
<1>4. CASE EndShuffle
  BY <1>4 DEF EndShuffle
<1>5. CASE ChooseLeader
  <2>1. /\ Len(Leaders') = Len(Leaders) + 1
        /\ \A k \in 1 .. Len(Leaders) : Leaders'[k] = Leaders[k]
        /\ Leaders'[Len(Leaders) + 1] = shuffled[Len(Leaders) + 1]
    BY <1>5 DEF ChooseLeader, PastEnd
  <2> QED
    BY <1>5, <2>1 DEF ChooseLeader, PastEnd
<1>6. CASE ChooseOutOfRange
  BY <1>6 DEF ChooseOutOfRange, PastEnd
<1>7. CASE EndChoose
  BY <1>7 DEF EndChoose
<1>8. CASE PlaceFish
  BY <1>8 DEF PlaceFish, FishToPlace
<1>9. CASE EndPlace
  BY <1>9 DEF EndPlace
<1>10. CASE UNCHANGED vars
  BY <1>10 DEF vars
<1> QED
  BY <1>1, <1>2, <1>3, <1>4, <1>5, <1>6, <1>7, <1>8, <1>9, <1>10 DEF Next

\* The placing loop: it places the fish at its counter and leaves the others.
LEMMA PlaceStep ==
  ASSUME TypeOK, IInv, [Next]_vars
  PROVE  PlaceInv'
<1> USE DEF IInv, TypeOK, PlaceInv
<1>1. CASE SpawnFish \/ SpawnFails \/ BeginShuffle \/ ShuffleStep
  BY <1>1 DEF SpawnFish, Index, SpawnFails, BeginShuffle, ShuffleStep
<1>2. CASE EndShuffle \/ ChooseLeader \/ ChooseOutOfRange
  BY <1>2 DEF EndShuffle, ChooseLeader, PastEnd, ChooseOutOfRange, PastEnd
<1>3. CASE EndChoose
  BY <1>3 DEF EndChoose
<1>4. CASE PlaceFish
  <2> DEFINE g == Fishes[idx]
  <2>1. /\ idx \in 1 .. Len(Fishes) /\ g \in FishId
        /\ start' = [start EXCEPT ![g] = PlaceOf(g)]
        /\ idx' = idx + 1
        /\ UNCHANGED <<pc, Fishes, Leaders>>
    BY <1>4 DEF PlaceFish, FishToPlace, PlaceOf
  <2>2. ASSUME NEW f \in FishId
        PROVE  IF \E k \in 1 .. idx' - 1 : Fishes'[k] = f
               THEN start'[f] = PlaceOf(f)' ELSE start'[f] = "unplaced"
    <3>1. PlaceOf(f)' = PlaceOf(f)
      BY <2>1 DEF PlaceOf, Range
    <3>2. CASE f = g
      BY <2>1, <3>1, <3>2
    <3>3. CASE f # g
      <4>1. start'[f] = start[f]
        BY <2>1, <3>3
      <4>2. (\E k \in 1 .. idx' - 1 : Fishes'[k] = f) <=> (\E k \in 1 .. idx - 1 : Fishes[k] = f)
        BY <2>1, <3>3
      <4> QED
        BY <1>4, <3>1, <4>1, <4>2 DEF PlaceFish, FishToPlace
    <3> QED
      BY <3>2, <3>3
  <2> QED
    BY <1>4, <2>1, <2>2 DEF PlaceFish, FishToPlace
<1>5. CASE EndPlace
  BY <1>5 DEF EndPlace
<1>6. CASE UNCHANGED vars
  BY <1>6 DEF vars, PlaceOf
<1> QED
  BY <1>1, <1>2, <1>3, <1>4, <1>5, <1>6 DEF Next

\* The leaders, a prefix of the copy, are distinct fish of the group.
LEMMA LeadersDistinct ==
  ASSUME IInv
  PROVE  LeadersAreDistinctFish
<1> USE DEF IInv, TypeOK, LeaderInv
<1>1. CASE pc = "spawn"
  BY <1>1 DEF LeadersAreDistinctFish, Range, IsInjective
<1>2. CASE pc # "spawn"
  <2>1. ASSUME NEW k \in DOMAIN Leaders
        PROVE  k \in DOMAIN shuffled /\ Leaders[k] = shuffled[k]
    OBVIOUS
  <2>2. IsInjective(shuffled) /\ Range(shuffled) = Range(Fishes)
    BY <1>2 DEF CopyInv
  <2>3. ASSUME NEW f \in Range(Leaders)
        PROVE  f \in Range(Fishes)
    <3>1. PICK k \in DOMAIN Leaders : f = Leaders[k]
      BY <2>3 DEF Range
    <3>2. f \in Range(shuffled)
      BY <2>1, <3>1 DEF Range
    <3> QED
      BY <2>2, <3>2
  <2>4. ASSUME NEW i \in DOMAIN Leaders, NEW j \in DOMAIN Leaders, Leaders[i] = Leaders[j]
        PROVE  i = j
    BY <2>1, <2>2, <2>4 DEF IsInjective
  <2> QED
    BY <2>3, <2>4 DEF LeadersAreDistinctFish, IsInjective
<1> QED
  BY <1>1, <1>2

\* What the last step of the placing loop establishes.
LEMMA PlacedStep ==
  ASSUME TypeOK, TypeOK', IInv, [Next]_vars
  PROVE  EveryFishPlaced'
<1> USE DEF IInv, TypeOK, EveryFishPlaced
<1>1. CASE EndPlace
  <2>1. /\ Len(Leaders) = LeaderNum_Clamped
        /\ idx = Len(Fishes) + 1
        /\ UNCHANGED <<Fishes, Leaders, start>>
    BY <1>1 DEF EndPlace, LeaderInv, PlaceInv
  <2>2. ASSUME NEW f \in FishId
        PROVE  /\ start[f] = "unplaced" <=> f \notin Range(Fishes)
               /\ start[f] = "spline" <=> f \in Range(Leaders)
    <3>1. f \in Range(Fishes) <=> \E k \in 1 .. idx - 1 : Fishes[k] = f
      BY <2>1 DEF Range
    <3>2. f \in Range(Leaders) => f \in Range(Fishes)
      BY LeadersDistinct DEF LeadersAreDistinctFish
    <3>3. IF f \in Range(Fishes) THEN start[f] = PlaceOf(f) ELSE start[f] = "unplaced"
      BY <1>1, <3>1 DEF EndPlace, PlaceInv
    <3> QED
      BY <3>2, <3>3 DEF PlaceOf
  <2> QED
    BY <1>1, <2>1, <2>2 DEF EndPlace, Range
<1>2. CASE Next /\ ~EndPlace
  BY <1>2 DEF Next, SpawnFish, Index, SpawnFails, BeginShuffle, ShuffleStep, EndShuffle, ChooseLeader, PastEnd,
              ChooseOutOfRange, EndChoose, PlaceFish
<1>3. CASE UNCHANGED vars
  BY <1>3 DEF vars, Range
<1> QED
  BY <1>1, <1>2, <1>3

\* The conjunction is inductive.
LEMMA SetupInductive == Spec => []IInv
<1>1. Init => IInv
  BY SetupAssumption, ClampRange
     DEF Init, IInv, TypeOK, Places, SpawnInv, CopyInv, LeaderInv, PlaceInv, EveryFishPlaced,
         IsInjective, Range
<1>2. IInv /\ [Next]_vars => IInv'
  <2> SUFFICES ASSUME IInv, [Next]_vars PROVE IInv'
    OBVIOUS
  <2>1. TypeOK /\ TypeOK'
    BY TypeStep DEF IInv
  <2> QED
    BY <2>1, SpawnStep, CopyStep, LeaderStep, PlaceStep, PlacedStep DEF IInv
<1> QED
  BY <1>1, <1>2, PTL DEF Spec

-----------------------------------------------------------------------------

\* The loops of BeginPlay keep their state well typed.
THEOREM SetupTypeOK == Spec => []TypeOK
<1>1. IInv => TypeOK
  BY DEF IInv
<1> QED
  BY <1>1, SetupInductive, PTL

\* For every number of fish and of leaders and every pattern of failed spawns,
\* no leader is chosen twice and every leader is a fish of the group.
THEOREM SetupLeadersAreDistinctFish == Spec => []LeadersAreDistinctFish
<1>1. IInv => LeadersAreDistinctFish
  BY LeadersDistinct
<1> QED
  BY <1>1, SetupInductive, PTL

\* When BeginPlay returns, the fish that exist, and no others, are placed, and
\* the leaders, and no others, on the spline.
THEOREM SetupEveryFishPlaced == Spec => []EveryFishPlaced
<1>1. IInv => EveryFishPlaced
  BY DEF IInv
<1> QED
  BY <1>1, SetupInductive, PTL

\* The index runs past the array only when spawns failed: a group that got all
\* its fish never aborts.
THEOREM SetupAbortsOnlyShortOfFish == Spec => []AbortsOnlyShortOfFish
<1>1. IInv => AbortsOnlyShortOfFish
  BY ClampRange DEF IInv, TypeOK, SpawnInv, CopyInv, LeaderInv, AbortsOnlyShortOfFish
<1> QED
  BY <1>1, SetupInductive, PTL

=============================================================================
