------------------------- MODULE SplitManoeuvreProofs -------------------------
(***************************************************************************)
(* The groups of the Split manoeuvre for every school, every geometry and  *)
(* every number of visits.                                                 *)
(*                                                                         *)
(* SortInv is the invariant of the sorting loop: the lists hold exactly    *)
(* the fish before idx, by side, and each leader beats the fish of its     *)
(* list.  Outside the loop, the groups are empty or complete (GroupsInv),  *)
(* and a complete group without a waiting reset is of this visit           *)
(* (VisitInv).                                                             *)
(***************************************************************************)
EXTENDS SplitManoeuvre, TLAPS

\* f leads the fish in S: it is the first of the farthest of them.
Beats(f, S) ==
  /\ f \in S
  /\ \A g \in S :
       \/ Dist2(place[g]) < Dist2(place[f])
       \/ Dist2(place[g]) = Dist2(place[f]) /\ f <= g

\* The lists hold the fish before idx, by side.
ListsInv ==
  /\ IsInjective(SplitLeft) /\ IsInjective(SplitRight)
  /\ \A f \in Fish : f \in Range(SplitLeft) <=> f < idx /\ OnLeft(f)
  /\ \A f \in Fish : f \in Range(SplitRight) <=> f < idx /\ ~OnLeft(f)

\* The leaders so far, and the distances to beat.
LeadersInv ==
  /\ \/ LeftLeader = 0 /\ LeftMaxDist = 0 /\ SplitLeft = <<>>
     \/ /\ LeftLeader # 0 /\ Beats(LeftLeader, Range(SplitLeft))
        /\ LeftMaxDist = Dist2(place[LeftLeader]) /\ LeftMaxDist > 0
  /\ \/ /\ RightLeader = 0 /\ RightMaxDist = 0
        /\ \A f \in Range(SplitRight) : place[f] = Zero
     \/ /\ RightLeader # 0 /\ Beats(RightLeader, Range(SplitRight))
        /\ RightMaxDist = Dist2(place[RightLeader]) /\ RightMaxDist > 0

SortInv ==
  /\ pc \in {"sort", "sorted"} => ListsInv /\ LeadersInv
  /\ pc = "sort" => ~Split_Initialized
  /\ pc = "sorted" => idx = FishNum + 1

GroupsInv ==
  /\ FishAreDivided
  /\ pc \in {"away", "waiting"} /\ ~Split_Initialized =>
       SplitLeft = <<>> /\ SplitRight = <<>> /\ LeftLeader = 0 /\ RightLeader = 0
  /\ pc \in {"sorted", "steer"} => Split_Initialized

VisitInv == Split_Initialized /\ ~leaving => pc # "away" /\ sortedIn = visit

IInv == TypeOK /\ SortInv /\ GroupsInv /\ VisitInv

-----------------------------------------------------------------------------

\* The square of a length is a natural number, and zero only for no length.
LEMMA Dist2Positive ==
  ASSUME NEW A \in Vector
  PROVE  Dist2(A) \in Nat /\ (Dist2(A) > 0 <=> A # Zero)
<1>1. PICK x \in Int, y \in Int : A = <<x, y>>
  BY DEF Vector
<1>2. x * x \in Nat /\ y * y \in Nat /\ (x # 0 => x * x > 0) /\ (y # 0 => y * y > 0)
  OBVIOUS
<1>3. Dist2(A) = x * x + y * y
  BY <1>1 DEF Dist2
<1>4. A # Zero <=> x # 0 \/ y # 0
  BY <1>1 DEF Zero
<1>5. (x = 0 => x * x = 0) /\ (y = 0 => y * y = 0)
  OBVIOUS
<1> QED
  BY <1>2, <1>3, <1>4, <1>5

\* A quarter turn to the left of a course is on its left, one to the right on
\* its right, and the two are opposite.
LEMMA QuarterTurns ==
  ASSUME NEW A \in Vector, A # Zero
  PROVE  /\ Cross(A, TurnLeft(A)) > 0
         /\ Cross(A, TurnRight(A)) < 0
         /\ Dot(TurnLeft(A), TurnRight(A)) < 0
<1>1. PICK x \in Int, y \in Int : A = <<x, y>>
  BY DEF Vector
<1>2. x * x + y * y > 0
  BY <1>1, Dist2Positive DEF Dist2
<1>3. Cross(A, TurnLeft(A)) = x * x - (-y) * y
  BY <1>1 DEF Cross, TurnLeft
<1>4. Cross(A, TurnRight(A)) = x * (-x) - y * y
  BY <1>1 DEF Cross, TurnRight
<1>5. Dot(TurnLeft(A), TurnRight(A)) = (-y) * y + x * (-x)
  BY <1>1 DEF Dot, TurnLeft, TurnRight
<1>6. (-y) * y = -(y * y) /\ x * (-x) = -(x * x) /\ x * x \in Int /\ y * y \in Int
  OBVIOUS
<1> QED
  BY <1>2, <1>3, <1>4, <1>5, <1>6

\* A fish on the left is not in the predator's place.
LEMMA OnLeftIsAway ==
  ASSUME TypeOK, NEW f \in Fish, OnLeft(f)
  PROVE  Dist2(place[f]) > 0
<1>1. place[f] \in Vector /\ course \in Vector
  BY SplitAssumption DEF TypeOK
<1>2. place[f] # Zero
  <2>1. PICK x \in Int, y \in Int : course = <<x, y>>
    BY <1>1 DEF Vector
  <2>2. Cross(course, Zero) = x * 0 - 0 * y
    BY <2>1 DEF Cross, Zero
  <2> QED
    BY <2>2 DEF OnLeft
<1> QED
  BY <1>1, <1>2, Dist2Positive

\* What a list holds after a new fish is appended.
LEMMA AppendOne ==
  ASSUME NEW s \in Seq(Fish), NEW f \in Fish
  PROVE  /\ Append(s, f) \in Seq(Fish)
         /\ Range(Append(s, f)) = Range(s) \cup {f}
         /\ IsInjective(s) /\ f \notin Range(s) => IsInjective(Append(s, f))
<1>1. /\ DOMAIN Append(s, f) = 1 .. Len(s) + 1 /\ DOMAIN s = 1 .. Len(s) /\ Len(s) \in Nat
      /\ \A k \in 1 .. Len(s) : Append(s, f)[k] = s[k]
      /\ Append(s, f)[Len(s) + 1] = f
  OBVIOUS
<1>2. ASSUME NEW x \in Range(Append(s, f))
      PROVE  x \in Range(s) \cup {f}
  BY <1>1, <1>2 DEF Range
<1>3. ASSUME NEW x \in Range(s) \cup {f}
      PROVE  x \in Range(Append(s, f))
  BY <1>1, <1>3 DEF Range
<1>4. ASSUME IsInjective(s), f \notin Range(s)
      PROVE  IsInjective(Append(s, f))
  BY <1>1, <1>4 DEF Range, IsInjective
<1> QED
  BY <1>2, <1>3, <1>4

\* A fish that is not farther than the leader of a list leaves it the leader, a
\* fish that is farther becomes the leader.
LEMMA BeatsOne ==
  ASSUME NEW S \in SUBSET Fish, NEW f \in Fish, \A g \in S : g < f, place \in [Fish -> Vector]
  PROVE  /\ \A l \in S : Beats(l, S) /\ Dist2(place[f]) <= Dist2(place[l]) => Beats(l, S \cup {f})
         /\ \A l \in S : Beats(l, S) /\ Dist2(place[f]) > Dist2(place[l]) => Beats(f, S \cup {f})
         /\ (\A g \in S : Dist2(place[g]) < Dist2(place[f])) => Beats(f, S \cup {f})
<1>1. \A g \in Fish : Dist2(place[g]) \in Int
  BY Dist2Positive
<1> QED
  BY <1>1 DEF Beats, Fish

-----------------------------------------------------------------------------

\* Every step keeps the state well typed.
LEMMA TypeStep ==
  ASSUME TypeOK, [Next]_vars
  PROVE  TypeOK'
<1> USE SplitAssumption DEF TypeOK, groups, locals, world, headings
<1>1. CASE EnterSplit
  <2>1. (visit % MaxVisits) + 1 \in 0 .. MaxVisits
    <3>1. visit \in Nat /\ MaxVisits \in Nat \ {0}
      OBVIOUS
    <3> HIDE DEF TypeOK
    <3>2. visit % MaxVisits \in 0 .. MaxVisits - 1
      BY <3>1
    <3> QED
      BY <3>1, <3>2
  <2> QED
    BY <1>1, <2>1 DEF EnterSplit
<1>2. CASE LeaveSplit
  BY <1>2 DEF LeaveSplit
<1>9. CASE ResetSplitStatus
  <2>1. <<>> \in Seq(Fish)
    OBVIOUS
  <2> QED
    BY <1>9, <2>1 DEF ResetSplitStatus
<1>3. CASE BeginTick
  BY <1>3 DEF BeginTick
<1>4. CASE SortLeft
  <2>1. idx \in Fish /\ Dist2(place[idx]) \in Nat
    BY <1>4, Dist2Positive DEF SortLeft, NewLeader, NewMaxDist, Fish
  <2> QED
    BY <1>4, <2>1, AppendOne DEF SortLeft, NewLeader, NewMaxDist
<1>5. CASE SortRight
  <2>1. idx \in Fish /\ Dist2(place[idx]) \in Nat
    BY <1>5, Dist2Positive DEF SortRight, NewLeader, NewMaxDist, Fish
  <2> QED
    BY <1>5, <2>1, AppendOne DEF SortRight, NewLeader, NewMaxDist
<1>6. CASE Sorted
  BY <1>6 DEF Sorted
<1>7. CASE Steer
  BY <1>7 DEF Steer, Vector, TurnLeft, TurnRight
<1>8. CASE UNCHANGED vars
  BY <1>8 DEF vars
<1> QED
  BY <1>1, <1>2, <1>3, <1>4, <1>5, <1>6, <1>7, <1>8, <1>9 DEF Next

\* An iteration of the loop, on the left.
LEMMA SortLeftStep ==
  ASSUME IInv, SortLeft
  PROVE  ListsInv' /\ LeadersInv'
<1> USE DEF IInv, TypeOK
<1>0. /\ idx \in Fish /\ OnLeft(idx) /\ ListsInv /\ LeadersInv
      /\ SplitLeft' = Append(SplitLeft, idx) /\ idx' = idx + 1
      /\ UNCHANGED <<place, course, SplitRight, RightLeader, RightMaxDist>>
  BY DEF SortLeft, NewLeader, NewMaxDist, SortInv, world, Fish
<1>1. \A f \in Fish : OnLeft(f)' <=> OnLeft(f)
  BY <1>0 DEF OnLeft
<1>2. Range(SplitRight)' = Range(SplitRight) /\ Range(SplitLeft)' = Range(SplitLeft) \cup {idx}
  <2>1. Range(Append(SplitLeft, idx)) = Range(SplitLeft) \cup {idx}
    BY <1>0, AppendOne
  <2> QED
    BY <1>0, <2>1
<1>3. /\ Range(SplitLeft) \in SUBSET Fish /\ idx \notin Range(SplitLeft)
      /\ \A g \in Range(SplitLeft) : g < idx
  <2>1. \A g \in Range(SplitLeft) : g \in Fish
    BY DEF Range
  <2> QED
    BY <1>0, <2>1 DEF ListsInv, Fish
<1>4. ListsInv'
  <2>1. IsInjective(SplitLeft)' /\ IsInjective(SplitRight)'
    BY <1>0, <1>3, AppendOne DEF ListsInv, IsInjective
  <2>2. \A f \in Fish : f \in Range(SplitLeft)' <=> f < idx + 1 /\ OnLeft(f)
    BY <1>0, <1>2 DEF ListsInv, Fish
  <2>3. \A f \in Fish : f \in Range(SplitRight)' <=> f < idx + 1 /\ ~OnLeft(f)
    BY <1>0, <1>2 DEF ListsInv, Fish
  <2> QED
    BY <1>0, <1>1, <2>1, <2>2, <2>3 DEF ListsInv
<1>5. place \in [Fish -> Vector] /\ Dist2(place[idx]) \in Nat /\ Dist2(place[idx]) > 0
  BY <1>0, OnLeftIsAway, Dist2Positive, SplitAssumption
<1>6. ASSUME NEW l \in Fish, Beats(l, Range(SplitLeft) \cup {idx}), LeftLeader' = l,
             LeftMaxDist' = Dist2(place[l]), LeftMaxDist' > 0
      PROVE  LeadersInv'
  BY <1>0, <1>2, <1>6 DEF LeadersInv, Beats, Fish
<1>7. ASSUME LeftLeader = 0
      PROVE  LeadersInv'
  <2>1. Range(SplitLeft) = {} /\ LeftMaxDist = 0
    BY <1>0, <1>7 DEF LeadersInv, Range, Beats, Fish
  <2>2. LeftLeader' = idx /\ LeftMaxDist' = Dist2(place[idx])
    BY <1>5, <2>1 DEF SortLeft, NewLeader, NewMaxDist
  <2> QED
    BY <1>0, <1>3, <1>5, <1>6, <2>1, <2>2, BeatsOne
<1>8. ASSUME LeftLeader # 0
      PROVE  LeadersInv'
  <2>1. /\ Beats(LeftLeader, Range(SplitLeft)) /\ LeftLeader \in Range(SplitLeft)
        /\ LeftMaxDist = Dist2(place[LeftLeader]) /\ LeftMaxDist > 0
    BY <1>0, <1>8 DEF LeadersInv, Beats
  <2>2. CASE Dist2(place[idx]) > LeftMaxDist
    <3>1. Beats(idx, Range(SplitLeft) \cup {idx})
      BY <1>0, <1>3, <1>5, <2>1, <2>2, BeatsOne
    <3> QED
      BY <1>0, <1>5, <1>6, <2>2, <3>1 DEF SortLeft, NewLeader, NewMaxDist
  <2>3. CASE ~(Dist2(place[idx]) > LeftMaxDist)
    <3>0. Dist2(place[idx]) <= Dist2(place[LeftLeader])
      BY <1>5, <2>1, <2>3
    <3>1. Beats(LeftLeader, Range(SplitLeft) \cup {idx})
      BY <1>0, <1>3, <1>5, <2>1, <3>0, BeatsOne
    <3>2. LeftLeader' = LeftLeader /\ LeftMaxDist' = LeftMaxDist /\ LeftLeader \in Fish
      BY <1>3, <2>1, <2>3 DEF SortLeft, NewLeader, NewMaxDist
    <3> QED
      BY <1>6, <2>1, <3>1, <3>2
  <2> QED
    BY <2>2, <2>3
<1> QED
  BY <1>4, <1>7, <1>8

\* An iteration of the loop, on the right.
LEMMA SortRightStep ==
  ASSUME IInv, SortRight
  PROVE  ListsInv' /\ LeadersInv'
<1> USE DEF IInv, TypeOK
<1>0. /\ idx \in Fish /\ ~OnLeft(idx) /\ ListsInv /\ LeadersInv
      /\ SplitRight' = Append(SplitRight, idx) /\ idx' = idx + 1
      /\ UNCHANGED <<place, course, SplitLeft, LeftLeader, LeftMaxDist>>
  BY DEF SortRight, NewLeader, NewMaxDist, SortInv, world, Fish
<1>1. \A f \in Fish : OnLeft(f)' <=> OnLeft(f)
  BY <1>0 DEF OnLeft
<1>2. Range(SplitLeft)' = Range(SplitLeft) /\ Range(SplitRight)' = Range(SplitRight) \cup {idx}
  <2>1. Range(Append(SplitRight, idx)) = Range(SplitRight) \cup {idx}
    BY <1>0, AppendOne
  <2> QED
    BY <1>0, <2>1
<1>3. /\ Range(SplitRight) \in SUBSET Fish /\ idx \notin Range(SplitRight)
      /\ \A g \in Range(SplitRight) : g < idx
  <2>1. \A g \in Range(SplitRight) : g \in Fish
    BY DEF Range
  <2> QED
    BY <1>0, <2>1 DEF ListsInv, Fish
<1>4. ListsInv'
  <2>1. IsInjective(SplitLeft)' /\ IsInjective(SplitRight)'
    BY <1>0, <1>3, AppendOne DEF ListsInv, IsInjective
  <2>2. \A f \in Fish : f \in Range(SplitLeft)' <=> f < idx + 1 /\ OnLeft(f)
    BY <1>0, <1>2 DEF ListsInv, Fish
  <2>3. \A f \in Fish : f \in Range(SplitRight)' <=> f < idx + 1 /\ ~OnLeft(f)
    BY <1>0, <1>2 DEF ListsInv, Fish
  <2> QED
    BY <1>0, <1>1, <2>1, <2>2, <2>3 DEF ListsInv
<1>5. place \in [Fish -> Vector] /\ Dist2(place[idx]) \in Nat
  BY <1>0, Dist2Positive, SplitAssumption
<1>6. ASSUME NEW l \in Fish, Beats(l, Range(SplitRight) \cup {idx}), RightLeader' = l,
             RightMaxDist' = Dist2(place[l]), RightMaxDist' > 0
      PROVE  LeadersInv'
  BY <1>0, <1>2, <1>6 DEF LeadersInv, Beats, Fish
<1>7. ASSUME RightLeader = 0
      PROVE  LeadersInv'
  <2>1. RightMaxDist = 0 /\ \A g \in Range(SplitRight) : place[g] = Zero
    BY <1>0, <1>7 DEF LeadersInv
  <2>2. CASE Dist2(place[idx]) > 0
    <3>1. RightLeader' = idx /\ RightMaxDist' = Dist2(place[idx])
      BY <2>1, <2>2 DEF SortRight, NewLeader, NewMaxDist
    <3>2. \A g \in Range(SplitRight) : Dist2(place[g]) < Dist2(place[idx])
      BY <1>3, <1>5, <2>1, <2>2, Dist2Positive
    <3>3. Beats(idx, Range(SplitRight) \cup {idx})
      BY <1>0, <1>3, <1>5, <3>2, BeatsOne
    <3> QED
      BY <1>0, <1>6, <2>2, <3>1, <3>3
  <2>3. CASE ~(Dist2(place[idx]) > 0)
    <3>1. place[idx] = Zero
      BY <1>0, <1>5, <2>3, Dist2Positive
    <3>2. RightLeader' = 0 /\ RightMaxDist' = 0
      BY <1>7, <2>1, <2>3 DEF SortRight, NewLeader, NewMaxDist
    <3>3. \A g \in Range(SplitRight)' : place'[g] = Zero
      BY <1>0, <1>2, <2>1, <3>1
    <3> QED
      BY <1>0, <1>2, <3>2, <3>3 DEF LeadersInv, Beats
  <2> QED
    BY <2>2, <2>3
<1>8. ASSUME RightLeader # 0
      PROVE  LeadersInv'
  <2>1. /\ Beats(RightLeader, Range(SplitRight)) /\ RightLeader \in Range(SplitRight)
        /\ RightMaxDist = Dist2(place[RightLeader]) /\ RightMaxDist > 0
    BY <1>0, <1>8 DEF LeadersInv, Beats
  <2>2. CASE Dist2(place[idx]) > RightMaxDist
    <3>1. Beats(idx, Range(SplitRight) \cup {idx})
      BY <1>0, <1>3, <1>5, <2>1, <2>2, BeatsOne
    <3> QED
      BY <1>0, <1>5, <1>6, <2>1, <2>2, <3>1 DEF SortRight, NewLeader, NewMaxDist
  <2>3. CASE ~(Dist2(place[idx]) > RightMaxDist)
    <3>0. Dist2(place[idx]) <= Dist2(place[RightLeader])
      BY <1>5, <2>1, <2>3
    <3>1. Beats(RightLeader, Range(SplitRight) \cup {idx})
      BY <1>0, <1>3, <1>5, <2>1, <3>0, BeatsOne
    <3>2. RightLeader' = RightLeader /\ RightMaxDist' = RightMaxDist /\ RightLeader \in Fish
      BY <1>3, <2>1, <2>3 DEF SortRight, NewLeader, NewMaxDist
    <3> QED
      BY <1>6, <2>1, <3>1, <3>2
  <2> QED
    BY <2>2, <2>3
<1> QED
  BY <1>4, <1>7, <1>8

-----------------------------------------------------------------------------

\* The loop keeps what it has found, and ends with every fish in a list.
LEMMA SortStep ==
  ASSUME IInv, [Next]_vars
  PROVE  SortInv'
<1> USE DEF IInv, TypeOK
<1>1. CASE SortLeft
  BY <1>1, SortLeftStep DEF SortLeft, NewLeader, NewMaxDist, SortInv
<1>2. CASE SortRight
  BY <1>2, SortRightStep DEF SortRight, NewLeader, NewMaxDist, SortInv
<1>3. CASE BeginTick
  <2>1. CASE Split_Initialized
    BY <1>3, <2>1 DEF BeginTick, SortInv
  <2>2. CASE ~Split_Initialized
    <3>1. /\ SplitLeft' = <<>> /\ SplitRight' = <<>> /\ LeftLeader' = 0 /\ RightLeader' = 0
          /\ idx' = 1 /\ LeftMaxDist' = 0 /\ RightMaxDist' = 0
          /\ pc' = "sort" /\ ~Split_Initialized'
      BY <1>3, <2>2 DEF BeginTick, GroupsInv, groups
    <3>2. ListsInv'
      BY <3>1 DEF ListsInv, IsInjective, Range, Fish
    <3>3. LeadersInv'
      BY <3>1 DEF LeadersInv, Range
    <3> QED
      BY <3>1, <3>2, <3>3 DEF SortInv
  <2> QED
    BY <2>1, <2>2
<1>4. CASE Sorted
  <2>1. /\ pc = "sort" /\ pc' = "sorted" /\ idx' = FishNum + 1
        /\ UNCHANGED <<SplitLeft, SplitRight, LeftLeader, RightLeader, LeftMaxDist, RightMaxDist,
                       idx, place, course>>
    BY <1>4, SplitAssumption DEF Sorted, locals, world
  <2>2. ListsInv' /\ LeadersInv'
    BY <2>1 DEF SortInv, ListsInv, LeadersInv, OnLeft, IsInjective, Range, Beats
  <2> QED
    BY <2>1, <2>2 DEF SortInv
<1>5. CASE EnterSplit \/ LeaveSplit \/ ResetSplitStatus \/ Steer
  BY <1>5 DEF EnterSplit, LeaveSplit, ResetSplitStatus, Steer, SortInv
<1>6. CASE UNCHANGED vars
  BY <1>6 DEF vars, groups, locals, world, SortInv, ListsInv, LeadersInv, OnLeft, IsInjective, Range, Beats
<1> QED
  BY <1>1, <1>2, <1>3, <1>4, <1>5, <1>6 DEF Next

\* Groups that do not change stay complete.
LEMMA SameGroups ==
  ASSUME UNCHANGED groups, FishAreDivided
  PROVE  FishAreDivided'
BY DEF groups, FishAreDivided, IsInjective, Range

\* Outside the loop the groups are empty or complete.
LEMMA GroupsStep ==
  ASSUME IInv, [Next]_vars
  PROVE  GroupsInv'
<1> USE DEF IInv, TypeOK, GroupsInv
<1>1. CASE Sorted
  <2>1. /\ ListsInv /\ \A f \in Fish : f < idx
        /\ Split_Initialized' /\ pc' = "sorted"
        /\ UNCHANGED <<SplitLeft, SplitRight>>
    BY <1>1, SplitAssumption DEF Sorted, SortInv, Fish
  <2>2. \A x \in Range(SplitLeft) \cup Range(SplitRight) : x \in Fish
    BY DEF Range
  <2>3. FishAreDivided'
    BY <2>1, <2>2 DEF FishAreDivided, ListsInv, IsInjective, Range
  <2> QED
    BY <2>1, <2>3
<1>2. CASE SortLeft \/ SortRight
  BY <1>2 DEF SortLeft, NewLeader, NewMaxDist, SortRight, NewLeader, NewMaxDist, SortInv, FishAreDivided
<1>3. CASE ResetSplitStatus
  BY <1>3 DEF ResetSplitStatus, FishAreDivided
<1>4. CASE BeginTick
  <2>1. UNCHANGED groups /\ pc' = IF Split_Initialized THEN "steer" ELSE "sort"
    BY <1>4 DEF BeginTick
  <2>2. FishAreDivided'
    BY <2>1, SameGroups
  <2> QED
    BY <2>1, <2>2 DEF groups
<1>5. CASE EnterSplit \/ LeaveSplit \/ Steer \/ UNCHANGED vars
  <2>1. UNCHANGED groups
    BY <1>5 DEF EnterSplit, LeaveSplit, Steer, vars
  <2>2. FishAreDivided'
    BY <2>1, SameGroups
  <2> QED
    BY <1>5, <2>1, <2>2 DEF groups, EnterSplit, LeaveSplit, Steer, vars
<1> QED
  BY <1>1, <1>2, <1>3, <1>4, <1>5 DEF Next

\* Groups without a waiting reset belong to the visit.
LEMMA VisitStep ==
  ASSUME IInv, [Next]_vars
  PROVE  VisitInv'
<1> USE DEF IInv, TypeOK, VisitInv, groups
<1>1. CASE EnterSplit \/ LeaveSplit \/ ResetSplitStatus \/ BeginTick \/ Steer
  BY <1>1 DEF EnterSplit, LeaveSplit, ResetSplitStatus, BeginTick, Steer
<1>2. CASE SortLeft \/ SortRight
  BY <1>2 DEF SortLeft, NewLeader, NewMaxDist, SortRight, NewLeader, NewMaxDist, SortInv
<1>3. CASE Sorted
  BY <1>3 DEF Sorted
<1>4. CASE UNCHANGED vars
  BY <1>4 DEF vars
<1> QED
  BY <1>1, <1>2, <1>3, <1>4 DEF Next

\* The conjunction is inductive.
LEMMA SplitInductive == Spec => []IInv
<1>1. Init => IInv
  <2> SUFFICES ASSUME Init PROVE IInv
    OBVIOUS
  <2>1. TypeOK
    <3>1. <<>> \in Seq(Fish) /\ Zero \in Vector
      BY DEF Zero, Vector
    <3>2. 1 \in 1 .. FishNum + 1 /\ 0 \in 0 .. MaxVisits
      BY SplitAssumption
    <3>3. SplitLeft \in Seq(Fish) /\ SplitRight \in Seq(Fish)
      BY <3>1 DEF Init
    <3>4. LeftHeading \in Vector /\ RightHeading \in Vector
      BY <3>1 DEF Init
    <3>5. idx \in 1 .. FishNum + 1 /\ visit \in 0 .. MaxVisits /\ sortedIn \in 0 .. MaxVisits
      BY <3>2 DEF Init
    <3>6. LeftLeader \in Fish \cup {0} /\ RightLeader \in Fish \cup {0}
      BY DEF Init
    <3>7. place \in [Fish -> Places] /\ course \in Courses
      BY DEF Init
    <3> QED
      BY <3>3, <3>4, <3>5, <3>6, <3>7 DEF Init, TypeOK
  <2>2. SortInv /\ GroupsInv /\ VisitInv
    BY DEF Init, SortInv, GroupsInv, VisitInv, FishAreDivided
  <2> QED
    BY <2>1, <2>2 DEF IInv
<1>2. IInv /\ [Next]_vars => IInv'
  BY TypeStep, SortStep, GroupsStep, VisitStep DEF IInv
<1> QED
  BY <1>1, <1>2, PTL DEF Spec

-----------------------------------------------------------------------------

\* The groups and the loop's state stay well typed.
THEOREM SplitTypeOK == Spec => []TypeOK
<1>1. IInv => TypeOK
  BY DEF IInv
<1> QED
  BY <1>1, SplitInductive, PTL

\* For every school and every geometry, each fish is in exactly one group, once,
\* whenever the groups are in use.
THEOREM SplitFishAreDivided == Spec => []FishAreDivided
<1>1. IInv => FishAreDivided
  BY DEF IInv, GroupsInv
<1> QED
  BY <1>1, SplitInductive, PTL

\* Groups that are in use after the reset was handled were formed in this visit.
THEOREM SplitGroupsOfThisVisit == Spec => []GroupsOfThisVisit
<1>1. IInv => GroupsOfThisVisit
  BY DEF IInv, VisitInv, GroupsOfThisVisit
<1> QED
  BY <1>1, SplitInductive, PTL

\* Each group is led by its farthest fish, the first of them; a right group
\* without a leader is in the predator's place.
THEOREM SplitLedByTheFarthest == Spec => []LedByTheFarthest
<1>1. ASSUME IInv, pc = "sorted"
      PROVE  /\ IF SplitLeft = <<>> THEN LeftLeader = 0
                ELSE LeftLeader = FarthestOf(Range(SplitLeft))
             /\ IF \A f \in Range(SplitRight) : place[f] = Zero THEN RightLeader = 0
                ELSE RightLeader = FarthestOf(Range(SplitRight))
  <2>1. LeadersInv /\ TypeOK
    BY <1>1 DEF IInv, SortInv
  <2>2. ASSUME NEW S \in SUBSET Fish, NEW l \in S, Beats(l, S)
        PROVE  l = FarthestOf(S)
    <3>1. \A f \in Fish : Dist2(place[f]) \in Nat
      BY <2>1, SplitAssumption, Dist2Positive DEF TypeOK
    <3>2. \A f \in S : Beats(f, S) => f = l
      BY <2>2, <3>1 DEF Beats, Fish
    <3>3. FarthestOf(S) = CHOOSE f \in S : Beats(f, S)
      BY DEF FarthestOf, Beats
    <3> QED
      BY <2>2, <3>2, <3>3
  <2>3. Range(SplitLeft) \in SUBSET Fish /\ Range(SplitRight) \in SUBSET Fish
    BY <2>1 DEF TypeOK, Range
  <2>4. IF SplitLeft = <<>> THEN LeftLeader = 0 ELSE LeftLeader = FarthestOf(Range(SplitLeft))
    <3>1. CASE LeftLeader = 0
      BY <2>1, <3>1 DEF LeadersInv
    <3>2. CASE LeftLeader # 0
      <4>1. Beats(LeftLeader, Range(SplitLeft)) /\ LeftLeader \in Range(SplitLeft)
        BY <2>1, <3>2 DEF LeadersInv, Beats
      <4>2. SplitLeft # <<>>
        BY <4>1 DEF Range
      <4> QED
        BY <2>2, <2>3, <4>1, <4>2
    <3> QED
      BY <3>1, <3>2
  <2>5. IF \A f \in Range(SplitRight) : place[f] = Zero THEN RightLeader = 0
        ELSE RightLeader = FarthestOf(Range(SplitRight))
    <3>1. CASE RightLeader = 0
      BY <2>1, <3>1 DEF LeadersInv
    <3>2. CASE RightLeader # 0
      <4>1. /\ Beats(RightLeader, Range(SplitRight)) /\ RightLeader \in Range(SplitRight)
            /\ Dist2(place[RightLeader]) > 0
        BY <2>1, <3>2 DEF LeadersInv, Beats
      <4>2. place[RightLeader] # Zero
        BY <4>1 DEF Dist2, Zero
      <4> QED
        BY <2>2, <2>3, <4>1, <4>2
    <3> QED
      BY <3>1, <3>2
  <2> QED
    BY <2>4, <2>5
<1>2. IInv => LedByTheFarthest
  BY <1>1 DEF LedByTheFarthest
<1> QED
  BY <1>2, SplitInductive, PTL

\* In the tick that sorts the fish, the leaders flee to the sides of their groups
\* and apart, whatever the predator's course.
THEOREM SplitLeadersFleeApart == Spec => LeadersFleeApart
<1>1. ASSUME IInv, Steer, pc = "sorted", course # Zero
      PROVE  /\ LeftLeader # 0 =>
                  Cross(course, place[LeftLeader]) > 0 /\ Cross(course, LeftHeading') > 0
             /\ RightLeader # 0 =>
                  Cross(course, place[RightLeader]) <= 0 /\ Cross(course, RightHeading') < 0
             /\ LeftLeader # 0 /\ RightLeader # 0 => Dot(LeftHeading', RightHeading') < 0
  <2>1. LeadersInv /\ ListsInv /\ TypeOK
    BY <1>1 DEF IInv, SortInv
  <2>2. /\ LeftLeader # 0 => LeftHeading' = TurnLeft(course)
        /\ RightLeader # 0 => RightHeading' = TurnRight(course)
    BY <1>1 DEF Steer
  <2>3. course \in Vector /\ place \in [Fish -> Vector]
    BY <2>1, SplitAssumption DEF TypeOK
  <2>4. LeftLeader # 0 => Cross(course, place[LeftLeader]) > 0
    BY <2>1 DEF LeadersInv, ListsInv, Beats, TypeOK, OnLeft
  <2>5. RightLeader # 0 => Cross(course, place[RightLeader]) <= 0
    <3>1. RightLeader # 0 => ~(Cross(course, place[RightLeader]) > 0) /\ RightLeader \in Fish
      BY <2>1 DEF LeadersInv, ListsInv, Beats, TypeOK, OnLeft
    <3>2. \A f \in Fish : Cross(course, place[f]) \in Int
      BY <2>3 DEF Cross, Vector
    <3> QED
      BY <3>1, <3>2
  <2> QED
    BY <1>1, <2>2, <2>3, <2>4, <2>5, QuarterTurns
<1>2. IInv /\ [Next]_vars =>
        [Steer /\ pc = "sorted" /\ course # Zero =>
           /\ LeftLeader # 0 =>
                Cross(course, place[LeftLeader]) > 0 /\ Cross(course, LeftHeading') > 0
           /\ RightLeader # 0 =>
                Cross(course, place[RightLeader]) <= 0 /\ Cross(course, RightHeading') < 0
           /\ LeftLeader # 0 /\ RightLeader # 0 => Dot(LeftHeading', RightHeading') < 0]_vars
  BY <1>1
<1> QED
  BY <1>2, SplitInductive, PTL DEF Spec, LeadersFleeApart

=============================================================================
