---------------------------- MODULE SplitManoeuvre ----------------------------
(***************************************************************************)
(* The Split manoeuvre of AFishGroup.  The first tick of a visit sorts the *)
(* fish by the side of the predator's course they are on and makes the     *)
(* farthest of each side its leader (Split_and_FindLeader); every tick the *)
(* leaders swim across the predator's course and the others follow theirs. *)
(* ResetSplitStatus, an event of the state machine, forgets the groups.    *)
(*                                                                         *)
(* The event of leaving Split is handled later in the same frame, possibly *)
(* after the machine came back to Split and after the group ticked.        *)
(***************************************************************************)
EXTENDS Plane, Sequences, Functions

CONSTANTS
  FishNum,    \* the number of fish in the array Fishes
  Places,     \* bound: where fish may be, relative to the predator
  Courses,    \* bound: the predator's velocities
  MaxVisits   \* bound: visits to Split are numbered modulo this

ASSUME SplitAssumption ==
  /\ FishNum \in Nat
  /\ Places \subseteq Vector
  /\ Courses \subseteq Vector
  /\ MaxVisits \in Nat \ {0}

VARIABLES
  pc,                \* "away" or "waiting" between ticks, else the loop that runs
  idx,               \* the fish Split_and_FindLeader looks at next
  place,             \* where each fish is, relative to the predator
  course,            \* the predator's velocity
  Split_Initialized,
  SplitLeft,
  SplitRight,
  LeftLeader,        \* a fish, or 0 for a null pointer
  RightLeader,
  LeftMaxDist,       \* squares; 0 stands for FLT_MIN
  RightMaxDist,
  LeftHeading,       \* the direction the last tick gave to the leaders
  RightHeading,
  visit,             \* auxiliary: the number of this visit to Split
  sortedIn,          \* auxiliary: the visit in which the fish were sorted
  leaving            \* the event of leaving Split waits to be handled

groups == <<Split_Initialized, SplitLeft, SplitRight, LeftLeader, RightLeader>>
locals == <<idx, LeftMaxDist, RightMaxDist>>
world == <<place, course>>
headings == <<LeftHeading, RightHeading>>
vars == <<pc, groups, locals, world, headings, visit, sortedIn, leaving>>

Fish == 1 .. FishNum

\* Fault: the sign that Fountain and Hourglass use.
OnLeftMirrored(f) == Cross(course, place[f]) < 0

\* Who swims to the left of the predator's course; the others count as right.
OnLeft(f) == Cross(course, place[f]) > 0

\* Fault: the pointer of the next fish.
NewLeaderOffByOne(f, leader, maxDist) == IF Dist2(place[f]) > maxDist THEN f + 1 ELSE leader

\* A group's leader after fish f, and its distance.
NewLeader(f, leader, maxDist) == IF Dist2(place[f]) > maxDist THEN f ELSE leader

\* Fault: the distance to beat stays.
NewMaxDistForgetful(f, maxDist) == maxDist

NewMaxDist(f, maxDist) == IF Dist2(place[f]) > maxDist THEN Dist2(place[f]) ELSE maxDist

-----------------------------------------------------------------------------

Init ==
  /\ pc = "away"
  /\ place \in [Fish -> Places]
  /\ course \in Courses
  /\ Split_Initialized = FALSE
  /\ SplitLeft = <<>> /\ SplitRight = <<>>
  /\ LeftLeader = 0 /\ RightLeader = 0
  /\ idx = 1 /\ LeftMaxDist = 0 /\ RightMaxDist = 0
  /\ LeftHeading = Zero /\ RightHeading = Zero
  /\ visit = 0 /\ sortedIn = 0
  /\ leaving = FALSE

\* The state machine enters Split.
EnterSplit ==
  /\ pc = "away"
  /\ pc' = "waiting"
  /\ visit' = (visit % MaxVisits) + 1
  /\ UNCHANGED <<groups, locals, world, headings, sortedIn, leaving>>

\* It leaves Split, and notes the event.
LeaveSplit ==
  /\ pc = "waiting"
  /\ pc' = "away"
  /\ leaving' = TRUE
  /\ UNCHANGED <<groups, locals, world, headings, visit, sortedIn>>

\* Fault: the flag is not taken back.
ResetSplitStatusKeepsFlag ==
  /\ pc \in {"away", "waiting"} /\ leaving
  /\ SplitLeft' = <<>> /\ SplitRight' = <<>>
  /\ LeftLeader' = 0 /\ RightLeader' = 0
  /\ leaving' = FALSE
  /\ UNCHANGED <<pc, Split_Initialized, locals, world, headings, visit, sortedIn>>

\* The event is handled.
ResetSplitStatus ==
  /\ pc \in {"away", "waiting"} /\ leaving
  /\ Split_Initialized' = FALSE
  /\ SplitLeft' = <<>> /\ SplitRight' = <<>>
  /\ LeftLeader' = 0 /\ RightLeader' = 0
  /\ leaving' = FALSE
  /\ UNCHANGED <<pc, locals, world, headings, visit, sortedIn>>

\* UpdateFishVelocities_Split begins.  Since the last tick of the group everyone
\* may have swum anywhere.
BeginTick ==
  /\ pc = "waiting"
  /\ place' \in [Fish -> Places]
  /\ course' \in Courses
  /\ IF Split_Initialized
     THEN pc' = "steer" /\ UNCHANGED locals
     ELSE pc' = "sort" /\ idx' = 1 /\ LeftMaxDist' = 0 /\ RightMaxDist' = 0
  /\ UNCHANGED <<groups, headings, visit, sortedIn, leaving>>

\* One iteration of the loop of Split_and_FindLeader, for a fish on the left.
SortLeft ==
  /\ pc = "sort" /\ idx <= FishNum /\ OnLeft(idx)
  /\ SplitLeft' = Append(SplitLeft, idx)
  /\ LeftLeader' = NewLeader(idx, LeftLeader, LeftMaxDist)
  /\ LeftMaxDist' = NewMaxDist(idx, LeftMaxDist)
  /\ idx' = idx + 1
  /\ UNCHANGED <<pc, Split_Initialized, SplitRight, RightLeader, RightMaxDist, world, headings,
                 visit, sortedIn, leaving>>

\* One iteration, for a fish on the right, straight ahead or straight behind.
SortRight ==
  /\ pc = "sort" /\ idx <= FishNum /\ ~OnLeft(idx)
  /\ SplitRight' = Append(SplitRight, idx)
  /\ RightLeader' = NewLeader(idx, RightLeader, RightMaxDist)
  /\ RightMaxDist' = NewMaxDist(idx, RightMaxDist)
  /\ idx' = idx + 1
  /\ UNCHANGED <<pc, Split_Initialized, SplitLeft, LeftLeader, LeftMaxDist, world, headings,
                 visit, sortedIn, leaving>>

\* The loop is over.
Sorted ==
  /\ pc = "sort" /\ idx > FishNum
  /\ pc' = "sorted"
  /\ Split_Initialized' = TRUE
  /\ sortedIn' = visit
  /\ UNCHANGED <<SplitLeft, SplitRight, LeftLeader, RightLeader, locals, world, headings, visit,
                 leaving>>

\* The rest of the tick: a leader that exists swims across the course of the
\* predator.  LeftLeaderEscapeDirection and RightLeaderEscapeDirection are never
\* set, so that the direction is taken from the predator each time.
Steer ==
  /\ pc \in {"sorted", "steer"}
  /\ pc' = "waiting"
  /\ LeftHeading' = IF LeftLeader # 0 THEN TurnLeft(course) ELSE LeftHeading
  /\ RightHeading' = IF RightLeader # 0 THEN TurnRight(course) ELSE RightHeading
  /\ UNCHANGED <<groups, locals, world, visit, sortedIn, leaving>>

Next ==
  \/ EnterSplit
  \/ LeaveSplit
  \/ ResetSplitStatus
  \/ BeginTick
  \/ SortLeft
  \/ SortRight
  \/ Sorted
  \/ Steer

Spec == Init /\ [][Next]_vars

-----------------------------------------------------------------------------

\* Type invariant.
TypeOK ==
  /\ pc \in {"away", "waiting", "sort", "sorted", "steer"}
  /\ idx \in 1 .. FishNum + 1
  /\ place \in [Fish -> Places]
  /\ course \in Courses
  /\ Split_Initialized \in BOOLEAN
  /\ SplitLeft \in Seq(Fish) /\ SplitRight \in Seq(Fish)
  /\ LeftLeader \in Fish \cup {0} /\ RightLeader \in Fish \cup {0}
  /\ LeftMaxDist \in Nat /\ RightMaxDist \in Nat
  /\ LeftHeading \in Vector /\ RightHeading \in Vector
  /\ visit \in 0 .. MaxVisits /\ sortedIn \in 0 .. MaxVisits
  /\ leaving \in BOOLEAN

\* Whenever the groups are in use, each fish is in exactly one of them, once:
\* also after Split was left and entered again, with the reset before or after
\* a tick of the new visit.
FishAreDivided ==
  Split_Initialized =>
    /\ IsInjective(SplitLeft) /\ IsInjective(SplitRight)
    /\ Range(SplitLeft) \cap Range(SplitRight) = {}
    /\ Range(SplitLeft) \cup Range(SplitRight) = Fish

\* The groups in use were formed in this visit, unless the reset of an earlier
\* one still waits to be handled.
GroupsOfThisVisit ==
  Split_Initialized /\ ~leaving /\ pc # "away" => sortedIn = visit

\* The first of the fish in S that are farthest from the predator.
FarthestOf(S) ==
  CHOOSE f \in S :
    \A g \in S :
      \/ Dist2(place[g]) < Dist2(place[f])
      \/ Dist2(place[g]) = Dist2(place[f]) /\ f <= g

\* When the fish were just sorted, each group is led by its farthest fish.  Only
\* a right group whose fish are all in the predator's very place has no leader,
\* and then nobody steers it.
LedByTheFarthest ==
  pc = "sorted" =>
    /\ IF SplitLeft = <<>> THEN LeftLeader = 0
       ELSE LeftLeader = FarthestOf(Range(SplitLeft))
    /\ IF \A f \in Range(SplitRight) : place[f] = Zero THEN RightLeader = 0
       ELSE RightLeader = FarthestOf(Range(SplitRight))

\* In the tick that sorts the fish, each leader heads away from the predator's
\* course on the side of its group, and the two head opposite ways.
LeadersFleeApart ==
  [][Steer /\ pc = "sorted" /\ course # Zero =>
       /\ LeftLeader # 0 =>
            Cross(course, place[LeftLeader]) > 0 /\ Cross(course, LeftHeading') > 0
       /\ RightLeader # 0 =>
            Cross(course, place[RightLeader]) <= 0 /\ Cross(course, RightHeading') < 0
       /\ LeftLeader # 0 /\ RightLeader # 0 =>
            Dot(LeftHeading', RightHeading') < 0]_vars

=============================================================================
