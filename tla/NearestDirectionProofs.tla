------------------------ MODULE NearestDirectionProofs ------------------------
(***************************************************************************)
(* Theorems about NearestDirection, for every number of rings and rays and *)
(* every set of obstacles.  RingsInv says what the rays cast so far found, *)
(* in which order; FindInv is the loop invariant of FindNearest; DoneInv   *)
(* keeps what they established for the end.                                *)
(***************************************************************************)
EXTENDS NearestDirection, TLAPS

\* The directions of the rays cast so far.
CastSoFar ==
  {d \in Directions : d[1] < ring} \cup {Direction(ring, p) : p \in 0 .. point - 1}

InOrder ==
  \A i, j \in DOMAIN Results : i < j => Results[i][1] <= Results[j][1]

RingsInv ==
  /\ InOrder
  /\ pc = "rings" =>
       /\ ring \in 0 .. lastRing + 1
       /\ ring <= lastRing => point \in 0 .. PointsNum(ring) + 1
       /\ ring > lastRing => point = 0
       /\ Found = open \cap CastSoFar
       /\ \A i \in DOMAIN Results : Results[i][1] <= ring
       /\ Idx = 1 /\ ArgMin = 0 /\ aim = "none"
  /\ pc # "rings" => Found = open \cap Seen

\* The first of the least among the values before n.
FirstLeast(n) ==
  /\ ArgMin \in 1 .. n - 1 /\ ArgMin \in DOMAIN Results
  /\ CurrentMin = angle[Results[ArgMin]]
  /\ \A i \in 1 .. n - 1 : i \in DOMAIN Results =>
       /\ CurrentMin <= angle[Results[i]]
       /\ i < ArgMin => CurrentMin < angle[Results[i]]

FindInv ==
  pc = "find" =>
    /\ Results # <<>> /\ aim = "none"
    /\ Idx = 1 => ArgMin = 0
    /\ Idx > 1 => FirstLeast(Idx)

DoneInv ==
  pc = "done" =>
    \/ aim = "stop" /\ Results = <<>>
    \/ /\ aim \in {"target", "nearest"} /\ Results # <<>>
       /\ FirstLeast(Len(Results) + 1)
       /\ aim = "target" <=> CurrentMin < Threshold

IInv == TypeOK /\ RingsInv /\ FindInv /\ DoneInv

-----------------------------------------------------------------------------

\* A direction is what some sample looks in, and it knows its ring.
LEMMA DirectionFacts ==
  ASSUME NEW d
  PROVE  /\ d \in Directions <=> \E r \in Rings : \E p \in 0 .. PointsNum(r) : d = Direction(r, p)
         /\ \A r \in Rings : \A p \in Int : Direction(r, p)[1] = r
<1>1. \A r \in Rings : \A p \in Int : Direction(r, p)[1] = r
  BY DEF Direction
<1>2. ASSUME d \in Directions
      PROVE  \E r \in Rings : \E p \in 0 .. PointsNum(r) : d = Direction(r, p)
  <2>1. PICK s \in UNION {{r} \X (0 .. PointsNum(r)) : r \in Rings} : d = Direction(s[1], s[2])
    BY <1>2 DEF Directions
  <2>2. PICK r \in Rings : s \in {r} \X (0 .. PointsNum(r))
    BY <2>1
  <2>3. s[1] = r /\ s[2] \in 0 .. PointsNum(r)
    BY <2>2
  <2> QED
    BY <2>1, <2>3
<1>3. ASSUME NEW r \in Rings, NEW p \in 0 .. PointsNum(r), d = Direction(r, p)
      PROVE  d \in Directions
  <2>1. <<r, p>> \in {r} \X (0 .. PointsNum(r))
    OBVIOUS
  <2>2. <<r, p>> \in UNION {{q} \X (0 .. PointsNum(q)) : q \in Rings}
    BY <2>1
  <2> QED
    BY <1>3, <2>2 DEF Directions
<1> QED
  BY <1>1, <1>2, <1>3

LEMMA PointsNumType ==
  ASSUME NEW r \in Rings
  PROVE  PointsNum(r) \in Nat \ {0}
<1>1. r * MaxPointsNum \in Int
  BY NearestAssumption DEF Rings
<1>2. (r * MaxPointsNum) \div Iteration \in Int
  BY <1>1, NearestAssumption
<1> QED
  BY <1>2 DEF PointsNum

\* A ray of the ring the loop is at looks in one of the directions.
LEMMA SampleIsDirection ==
  ASSUME TypeOK, ring <= lastRing, point \in 0 .. PointsNum(ring)
  PROVE  ring \in Rings /\ Direction(ring, point) \in Directions /\ Direction(ring, point)[1] = ring
<1>1. ring \in Rings
  BY NearestAssumption DEF TypeOK, Rings
<1>2. PointsNum(ring) \in Nat /\ point \in Int
  BY <1>1, PointsNumType DEF TypeOK
<1> QED
  BY <1>1, <1>2, DirectionFacts

\* What Append adds to the directions found.
LEMMA FoundAppend ==
  ASSUME NEW s \in Seq(Directions), NEW d \in Directions
  PROVE  /\ Append(s, d) \in Seq(Directions) /\ Len(Append(s, d)) = Len(s) + 1
         /\ \A i \in DOMAIN s : Append(s, d)[i] = s[i]
         /\ Append(s, d)[Len(s) + 1] = d
         /\ DOMAIN s = 1 .. Len(s) /\ DOMAIN Append(s, d) = 1 .. Len(s) + 1
OBVIOUS

\* In the order of the samples the last ray's ring is the highest so far.
LEMMA CastStep ==
  ASSUME TypeOK, RingsInv, Cast
  PROVE  RingsInv'
<1>1. /\ pc = "rings" /\ pc' = "rings" /\ ring <= lastRing /\ point \in 0 .. PointsNum(ring)
      /\ point' = point + 1 /\ UNCHANGED <<world, ring, Idx, ArgMin, aim>>
  <2>1. ring \in Rings
    BY NearestAssumption DEF TypeOK, Rings, Cast, Hit
  <2>2. PointsNum(ring) \in Nat
    BY <2>1, PointsNumType
  <2> QED
    BY <2>2 DEF Cast, Hit, TypeOK
<1>2. ring \in Rings /\ Direction(ring, point) \in Directions /\ Direction(ring, point)[1] = ring
  BY <1>1, SampleIsDirection
<1>3. PointsNum(ring) \in Nat
  BY <1>2, PointsNumType
<1>4. CastSoFar' = CastSoFar \cup {Direction(ring, point)}
  <2>1. 0 .. point' - 1 = (0 .. point - 1) \cup {point}
    BY <1>1 DEF TypeOK
  <2> QED
    BY <1>1, <2>1 DEF CastSoFar
<1>5. CASE Direction(ring, point) \in open
  <2>1. Results' = Append(Results, Direction(ring, point))
    BY <1>5 DEF Cast, Hit
  <2>2. Results \in Seq(Directions)
    BY DEF TypeOK
  <2>3. /\ DOMAIN Results = 1 .. Len(Results) /\ DOMAIN Results' = 1 .. Len(Results) + 1
        /\ \A i \in DOMAIN Results : Results'[i] = Results[i]
        /\ Results'[Len(Results) + 1] = Direction(ring, point)
        /\ Len(Results) \in Nat
    BY <1>2, <2>1, <2>2, FoundAppend
  <2>4. Found' = Found \cup {Direction(ring, point)}
    <3>1. ASSUME NEW d \in Found' PROVE d \in Found \cup {Direction(ring, point)}
      BY <2>3 DEF Found, Range
    <3>2. ASSUME NEW d \in Found PROVE d \in Found'
      BY <2>3 DEF Found, Range
    <3>3. Direction(ring, point) \in Found'
      <4>1. Len(Results) + 1 \in DOMAIN Results'
        BY <2>3
      <4> QED
        BY <2>3, <4>1 DEF Found, Range
    <3> QED
      BY <3>1, <3>2, <3>3
  <2>5. \A i \in DOMAIN Results' : Results'[i][1] <= ring
    <3> SUFFICES ASSUME NEW i \in DOMAIN Results' PROVE Results'[i][1] <= ring
      OBVIOUS
    <3>1. CASE i \in DOMAIN Results
      BY <1>1, <2>3, <3>1 DEF RingsInv
    <3>2. CASE i = Len(Results) + 1
      BY <1>2, <2>3, <3>2 DEF TypeOK
    <3> QED
      BY <2>3, <3>1, <3>2
  <2>6. InOrder'
    <3> SUFFICES ASSUME NEW i \in DOMAIN Results', NEW j \in DOMAIN Results', i < j
                 PROVE  Results'[i][1] <= Results'[j][1]
      BY DEF InOrder
    <3>1. i \in DOMAIN Results /\ Results'[i] = Results[i]
      BY <2>3
    <3>2. CASE j \in DOMAIN Results
      BY <2>3, <3>1, <3>2 DEF RingsInv, InOrder
    <3>3. CASE j = Len(Results) + 1
      BY <1>1, <1>2, <2>3, <3>1, <3>3 DEF RingsInv
    <3> QED
      BY <2>3, <3>2, <3>3
  <2> QED
    BY <1>1, <1>3, <1>4, <1>5, <2>4, <2>5, <2>6 DEF RingsInv, world, TypeOK
<1>6. CASE Direction(ring, point) \notin open
  <2>1. Results' = Results
    BY <1>6 DEF Cast, Hit
  <2>2. Found' = Found /\ InOrder'
    BY <2>1 DEF Found, Range, RingsInv, InOrder
  <2> QED
    BY <1>1, <1>3, <1>4, <1>6, <2>1, <2>2 DEF RingsInv, world, TypeOK
<1> QED
  BY <1>5, <1>6

\* When a ring is done, all its directions have been looked in.
LEMMA NextRingStep ==
  ASSUME TypeOK, RingsInv, NextRing
  PROVE  RingsInv'
<1>1. /\ pc = "rings" /\ pc' = "rings" /\ ring <= lastRing /\ point > PointsNum(ring)
      /\ ring' = ring + 1 /\ point' = 0
      /\ UNCHANGED <<world, Results, Idx, ArgMin, aim>>
  BY DEF NextRing
<1>2. ring \in Rings /\ ring \in Nat /\ lastRing \in Int /\ Iteration \in Nat
  BY <1>1, NearestAssumption DEF TypeOK, Rings
<1>3. PointsNum(ring) \in Nat /\ point \in Nat
  BY <1>2, PointsNumType DEF TypeOK
<1>4. ring' \in 0 .. lastRing' + 1
  BY <1>1, <1>2 DEF world
<1>5. ring' <= lastRing' => point' \in 0 .. PointsNum(ring') + 1
  <2>1. SUFFICES ASSUME ring' <= lastRing' PROVE PointsNum(ring') \in Nat
    BY <1>1
  <2>2. ring' \in Rings
    BY <1>1, <1>2, <2>1, NearestAssumption DEF world, TypeOK, Rings
  <2> QED
    BY <2>2, PointsNumType
<1>6. CastSoFar' = CastSoFar
  <2>1. point = PointsNum(ring) + 1
    BY <1>1, <1>3 DEF RingsInv
  <2>2. ASSUME NEW d \in CastSoFar' PROVE d \in CastSoFar
    <3>1. d \in Directions /\ d[1] < ring + 1
      BY <1>1, <2>2 DEF CastSoFar
    <3>2. PICK r \in Rings : \E p \in 0 .. PointsNum(r) : d = Direction(r, p)
      BY <3>1, DirectionFacts
    <3>3. d[1] = r /\ r \in Int
      BY <3>2, DirectionFacts DEF Rings
    <3>4. CASE r < ring
      BY <3>1, <3>3, <3>4 DEF CastSoFar
    <3>5. CASE r = ring
      <4>1. PICK p \in 0 .. PointsNum(r) : d = Direction(r, p)
        BY <3>2
      <4>2. p \in 0 .. point - 1
        BY <1>3, <2>1, <3>5
      <4> QED
        BY <3>5, <4>1, <4>2 DEF CastSoFar
    <3> QED
      BY <1>2, <3>1, <3>3, <3>4, <3>5
  <2>3. ASSUME NEW d \in CastSoFar PROVE d \in CastSoFar'
    <3>1. CASE d \in Directions /\ d[1] < ring
      <4>1. PICK r \in Rings : \E p \in 0 .. PointsNum(r) : d = Direction(r, p)
        BY <3>1, DirectionFacts
      <4>2. d[1] = r /\ r \in Int
        BY <4>1, DirectionFacts DEF Rings
      <4>3. d[1] < ring + 1
        BY <1>2, <3>1, <4>2
      <4> QED
        BY <1>1, <3>1, <4>3 DEF CastSoFar
    <3>2. CASE \E p \in 0 .. point - 1 : d = Direction(ring, p)
      <4>1. PICK p \in 0 .. point - 1 : d = Direction(ring, p)
        BY <3>2
      <4>2. p \in 0 .. PointsNum(ring)
        BY <1>3, <2>1
      <4>3. d \in Directions /\ d[1] = ring
        BY <1>2, <4>1, <4>2, DirectionFacts
      <4>4. d[1] < ring + 1
        BY <1>2, <4>3
      <4> QED
        BY <1>1, <4>3, <4>4 DEF CastSoFar
    <3> QED
      BY <2>3, <3>1, <3>2 DEF CastSoFar
  <2> QED
    BY <2>2, <2>3
<1>7. \A i \in DOMAIN Results' : Results'[i][1] <= ring'
  <2> SUFFICES ASSUME NEW i \in DOMAIN Results PROVE Results[i][1] <= ring + 1
    BY <1>1
  <2>1. Results[i] \in Directions /\ Results[i][1] <= ring
    BY <1>1 DEF TypeOK, RingsInv
  <2>2. PICK r \in Rings : \E p \in 0 .. PointsNum(r) : Results[i] = Direction(r, p)
    BY <2>1, DirectionFacts
  <2>3. Results[i][1] \in Int
    BY <2>2, DirectionFacts DEF Rings
  <2> QED
    BY <1>2, <2>1, <2>3
<1> QED
  BY <1>1, <1>4, <1>5, <1>6, <1>7 DEF RingsInv, InOrder, Found, Range, world

\* After the last ring, what was looked in is what the rays reach.
LEMMA AllRingsCast ==
  ASSUME TypeOK, RingsInv, pc = "rings", ring > lastRing
  PROVE  CastSoFar = Seen
<1>1. ring = lastRing + 1 /\ point = 0 /\ lastRing \in Int
  BY NearestAssumption DEF TypeOK, RingsInv
<1>2. 0 .. point - 1 = {}
  BY <1>1
<1>3. ASSUME NEW d \in Directions PROVE d[1] < ring <=> d[1] <= lastRing
  <2>1. PICK r \in Rings : \E p \in 0 .. PointsNum(r) : d = Direction(r, p)
    BY DirectionFacts
  <2>2. d[1] \in Int
    BY <2>1, DirectionFacts DEF Rings
  <2> QED
    BY <1>1, <2>2
<1> QED
  BY <1>2, <1>3 DEF CastSoFar, Seen

LEMMA AngleType ==
  ASSUME TypeOK, NEW d \in Directions
  PROVE  angle[d] \in Nat
<1>1. angle[d] \in Angles
  BY DEF TypeOK
<1> QED
  BY <1>1, NearestAssumption

LEMMA TypeStep ==
  ASSUME TypeOK, [Next]_vars
  PROVE  TypeOK'
<1>1. CASE Cast
  <2>1. ring \in Rings /\ PointsNum(ring) \in Nat
    BY <1>1, NearestAssumption, PointsNumType DEF Cast, Hit, TypeOK, Rings
  <2>2. ring <= lastRing /\ point \in 0 .. PointsNum(ring) /\ point + 1 \in Nat
    BY <1>1, <2>1 DEF Cast, Hit, TypeOK
  <2>3. Direction(ring, point) \in Directions
    BY <2>2, SampleIsDirection
  <2>4. /\ Results' \in Seq(Directions)
        /\ Len(Results) \in Nat /\ Len(Results') \in Nat /\ Len(Results') >= Len(Results)
    BY <1>1, <2>3, FoundAppend DEF Cast, Hit, TypeOK
  <2>5. Idx' \in 1 .. Len(Results') + 1 /\ ArgMin' \in 0 .. Len(Results')
    BY <1>1, <2>4 DEF Cast, Hit, TypeOK
  <2> QED
    BY <1>1, <2>2, <2>4, <2>5 DEF Cast, Hit, TypeOK, world
<1>2. CASE NextRing
  BY <1>2, NearestAssumption DEF NextRing, TypeOK, world
<1>3. CASE NoWay
  BY <1>3 DEF NoWay, TypeOK, world
<1>4. CASE BeginFind
  BY <1>4 DEF BeginFind, TypeOK, world
<1>5. CASE FindNearest
  <2>1. Len(Results) \in Nat /\ Idx \in 1 .. Len(Results) /\ Idx + 1 \in 1 .. Len(Results) + 1
    BY <1>5 DEF FindNearest, Better, TypeOK
  <2>2. angle[Results[Idx]] \in Nat
    <3>1. Results[Idx] \in Directions
      BY <2>1 DEF TypeOK
    <3> QED
      BY <3>1, AngleType
  <2> QED
    BY <1>5, <2>1, <2>2 DEF FindNearest, Better, TypeOK, world
<1>6. CASE Aim
  BY <1>6 DEF Aim, TypeOK, world
<1>7. CASE UNCHANGED vars
  BY <1>7 DEF vars, world, TypeOK
<1> QED
  BY <1>1, <1>2, <1>3, <1>4, <1>5, <1>6, <1>7 DEF Next

LEMMA RingsStep ==
  ASSUME TypeOK, RingsInv, [Next]_vars
  PROVE  RingsInv'
<1>1. CASE Cast
  BY <1>1, CastStep
<1>2. CASE NextRing
  BY <1>2, NextRingStep
<1>3. CASE NoWay \/ BeginFind
  <2>1. pc = "rings" /\ ring > lastRing /\ pc' # "rings" /\ UNCHANGED <<world, Results>>
    BY <1>3 DEF NoWay, BeginFind
  <2>2. Found = open \cap Seen
    BY <2>1, AllRingsCast DEF RingsInv
  <2> QED
    BY <2>1, <2>2 DEF RingsInv, InOrder, Found, Range, Seen, world
<1>4. CASE FindNearest \/ Aim
  <2>1. pc # "rings" /\ pc' # "rings" /\ UNCHANGED <<world, Results>>
    BY <1>4 DEF FindNearest, Better, Aim
  <2> QED
    BY <2>1 DEF RingsInv, InOrder, Found, Range, Seen, world
<1>5. CASE UNCHANGED vars
  BY <1>5 DEF vars, world, RingsInv, InOrder, Found, Range, Seen, CastSoFar
<1> QED
  BY <1>1, <1>2, <1>3, <1>4, <1>5 DEF Next

\* One iteration of FindNearest: a value replaces the least so far only if it
\* is less.
LEMMA FindNearestStep ==
  ASSUME TypeOK, RingsInv, FindInv, FindNearest
  PROVE  FindInv'
<1>1. /\ pc = "find" /\ pc' = "find" /\ Idx \in Nat \ {0} /\ Idx' = Idx + 1
      /\ Idx \in DOMAIN Results /\ Results \in Seq(Directions) /\ Len(Results) \in Nat
      /\ UNCHANGED <<angle, Results, aim>>
  BY DEF FindNearest, Better, TypeOK, world
<1>2. \A i \in DOMAIN Results : angle[Results[i]] \in Int
  <2>1. \A i \in DOMAIN Results : Results[i] \in Directions
    BY DEF TypeOK
  <2> QED
    BY <2>1, AngleType
<1>3. Results # <<>> /\ aim = "none"
  BY <1>1 DEF FindInv
<1>4. CurrentMin \in Int /\ ArgMin \in Int
  BY DEF TypeOK
<1>5. FirstLeast(Idx)'
  <2> SUFFICES
        /\ ArgMin' \in 1 .. Idx /\ ArgMin' \in DOMAIN Results
        /\ CurrentMin' = angle[Results[ArgMin']]
        /\ \A i \in 1 .. Idx : i \in DOMAIN Results =>
             /\ CurrentMin' <= angle[Results[i]]
             /\ i < ArgMin' => CurrentMin' < angle[Results[i]]
    <3>1. 1 .. Idx' - 1 = 1 .. Idx
      BY <1>1
    <3> QED
      BY <1>1, <3>1 DEF FirstLeast
  <2>1. CASE Idx = 1
    <3>1. CurrentMin' = angle[Results[1]] /\ ArgMin' = 1
      BY <1>1, <2>1 DEF FindInv, FindNearest, Better
    <3> QED
      BY <1>1, <1>2, <2>1, <3>1
  <2>2. CASE Idx > 1 /\ angle[Results[Idx]] < CurrentMin
    <3>1. CurrentMin' = angle[Results[Idx]] /\ ArgMin' = Idx
      BY <2>2 DEF FindNearest, Better
    <3>2. \A i \in 1 .. Idx - 1 : i \in DOMAIN Results => CurrentMin <= angle[Results[i]]
      BY <1>1, <2>2 DEF FindInv, FirstLeast
    <3>3. \A i \in 1 .. Idx : i \in 1 .. Idx - 1 \/ i = Idx
      BY <1>1
    <3> QED
      BY <1>1, <1>2, <1>4, <2>2, <3>1, <3>2, <3>3
  <2>3. CASE Idx > 1 /\ ~(angle[Results[Idx]] < CurrentMin)
    <3>1. FirstLeast(Idx)
      BY <1>1, <2>3 DEF FindInv
    <3>2. CurrentMin' = CurrentMin /\ ArgMin' = ArgMin
      BY <2>3, <3>1, <1>1 DEF FindNearest, Better, FirstLeast
    <3>3. \A i \in 1 .. Idx : i \in 1 .. Idx - 1 \/ i = Idx
      BY <1>1
    <3> QED
      BY <1>1, <1>2, <1>4, <2>3, <3>1, <3>2, <3>3 DEF FirstLeast
  <2> QED
    BY <1>1, <2>1, <2>2, <2>3
<1> QED
  BY <1>1, <1>3, <1>5 DEF FindInv, FirstLeast

LEMMA FindStep ==
  ASSUME TypeOK, RingsInv, FindInv, DoneInv, [Next]_vars
  PROVE  FindInv' /\ DoneInv'
<1>1. CASE Cast \/ NextRing
  BY <1>1 DEF Cast, Hit, NextRing, FindInv, DoneInv
<1>2. CASE NoWay
  BY <1>2 DEF NoWay, FindInv, DoneInv
<1>3. CASE BeginFind
  BY <1>3 DEF BeginFind, RingsInv, FindInv, DoneInv
<1>4. CASE FindNearest
  BY <1>4, FindNearestStep DEF FindNearest, Better, DoneInv
<1>5. CASE Aim
  <2>1. /\ pc = "find" /\ pc' = "done" /\ Len(Results) \in Nat /\ Results \in Seq(Directions)
        /\ Idx = Len(Results) + 1 /\ UNCHANGED <<angle, Results, CurrentMin, ArgMin>>
    BY <1>5 DEF Aim, TypeOK, world
  <2>2. Results # <<>>
    BY <2>1 DEF FindInv
  <2>3. Idx > 1
    BY <2>1, <2>2
  <2>4. FirstLeast(Len(Results) + 1)
    BY <2>1, <2>3 DEF FindInv
  <2>5. aim' \in {"target", "nearest"} /\ (aim' = "target" <=> CurrentMin < Threshold)
    BY <1>5, NearestAssumption DEF Aim, TypeOK
  <2> QED
    BY <2>1, <2>2, <2>4, <2>5 DEF FindInv, DoneInv, FirstLeast
<1>6. CASE UNCHANGED vars
  BY <1>6 DEF vars, world, FindInv, DoneInv, FirstLeast
<1> QED
  BY <1>1, <1>2, <1>3, <1>4, <1>5, <1>6 DEF Next

LEMMA InitIInv == Init => IInv
<1> SUFFICES ASSUME Init PROVE IInv
  OBVIOUS
<1>1. TypeOK
  BY NearestAssumption DEF Init, TypeOK
<1>2. Found = {} /\ CastSoFar = {} /\ InOrder
  <2>1. \A d \in Directions : ~(d[1] < 0)
    <3> SUFFICES ASSUME NEW d \in Directions PROVE ~(d[1] < 0)
      OBVIOUS
    <3>1. PICK r \in Rings : \E p \in 0 .. PointsNum(r) : d = Direction(r, p)
      BY DirectionFacts
    <3>2. d[1] = r /\ r \in Nat
      BY <3>1, DirectionFacts DEF Rings
    <3> QED
      BY <3>2
  <2>2. DOMAIN Results = {} /\ ring = 0 /\ 0 .. point - 1 = {}
    BY DEF Init
  <2> QED
    BY <2>1, <2>2 DEF Found, Range, CastSoFar, InOrder
<1>3. PointsNum(0) \in Nat
  BY PointsNumType, NearestAssumption DEF Rings
<1>4. RingsInv
  BY <1>2, <1>3, NearestAssumption DEF Init, RingsInv
<1> QED
  BY <1>1, <1>4 DEF Init, IInv, FindInv, DoneInv

LEMMA Inductive == Spec => []IInv
<1>1. IInv /\ [Next]_vars => IInv'
  BY TypeStep, RingsStep, FindStep DEF IInv
<1> QED
  BY InitIInv, <1>1, PTL DEF Spec

-----------------------------------------------------------------------------

\* The counters of DetectNoCollisionDirections and FindNearest stay in their
\* ranges, so the arrays are never read outside (FishGroup.cpp:95-118, 131-151).
THEOREM NearestTypeOK == Spec => []TypeOK
BY Inductive, PTL DEF IInv

\* The array of results is what is open (FishGroup.cpp:88-122).
THEOREM NearestFoundIsOpen == Spec => []FoundIsOpen
<1>1. IInv => FoundIsOpen
  BY DEF IInv, RingsInv, FoundIsOpen
<1> QED
  BY Inductive, <1>1, PTL

\* At the end the least value is at ArgMin, and it is the first of its equals.
LEMMA DoneFacts ==
  ASSUME IInv, pc = "done"
  PROVE  /\ Found = open \cap Seen
         /\ aim = "stop" <=> Results = <<>>
         /\ Results # <<>> =>
              /\ aim \in {"target", "nearest"}
              /\ aim = "target" <=> CurrentMin < Threshold
              /\ ArgMin \in DOMAIN Results /\ Results[ArgMin] \in open \cap Seen
              /\ CurrentMin = angle[Results[ArgMin]]
              /\ \A i \in DOMAIN Results :
                   /\ CurrentMin <= angle[Results[i]]
                   /\ i < ArgMin => CurrentMin < angle[Results[i]]
<1>1. Found = open \cap Seen
  BY DEF IInv, RingsInv
<1>2. aim = "stop" <=> Results = <<>>
  BY DEF IInv, DoneInv
<1>3. ASSUME Results # <<>>
      PROVE  /\ aim \in {"target", "nearest"}
             /\ aim = "target" <=> CurrentMin < Threshold
             /\ FirstLeast(Len(Results) + 1)
  BY <1>3 DEF IInv, DoneInv
<1>4. DOMAIN Results = 1 .. (Len(Results) + 1) - 1
  BY DEF IInv, TypeOK
<1>5. ASSUME Results # <<>> PROVE Results[ArgMin] \in open \cap Seen
  BY <1>1, <1>3, <1>5 DEF FirstLeast, Found, Range
<1> QED
  BY <1>1, <1>2, <1>3, <1>4, <1>5 DEF FirstLeast

\* The fish aims at the open direction nearest to its target
\* (FishGroup.cpp:176-199, 231-253, 1019-1042).
THEOREM NearestAimIsNearestOpen == Spec => []AimIsNearestOpen
<1>1. ASSUME IInv, pc = "done"
      PROVE  /\ aim = "stop" <=> open \cap Seen = {}
             /\ aim = "target" <=> \E d \in open \cap Seen : angle[d] < Threshold
             /\ aim = "nearest" =>
                  /\ Results[ArgMin] \in open
                  /\ \A d \in open \cap Seen : angle[Results[ArgMin]] <= angle[d]
  <2>1. Found = {} <=> Results = <<>>
    <3>1. Results \in Seq(Directions)
      BY <1>1 DEF IInv, TypeOK
    <3>2. Results # <<>> => 1 \in DOMAIN Results
      BY <3>1
    <3>3. Results = <<>> => DOMAIN Results = {}
      OBVIOUS
    <3> QED
      BY <3>2, <3>3 DEF Found, Range
  <2>2. CASE Results = <<>>
    BY <1>1, <2>1, <2>2, DoneFacts
  <2>3. CASE Results # <<>>
    <3>1. \A d \in open \cap Seen : CurrentMin <= angle[d]
      <4> SUFFICES ASSUME NEW d \in open \cap Seen PROVE CurrentMin <= angle[d]
        OBVIOUS
      <4>1. PICK i \in DOMAIN Results : d = Results[i]
        BY <1>1, DoneFacts DEF Found, Range
      <4> QED
        BY <1>1, <2>3, <4>1, DoneFacts
    <3>2. Results[ArgMin] \in open \cap Seen /\ CurrentMin = angle[Results[ArgMin]]
      BY <1>1, <2>3, DoneFacts
    <3>3. CurrentMin \in Int /\ Threshold \in Int /\ \A d \in open \cap Seen : angle[d] \in Int
      <4>1. TypeOK /\ CurrentMin \in Nat
        BY <1>1 DEF IInv, TypeOK
      <4> QED
        BY <4>1, NearestAssumption, AngleType DEF Seen
    <3>4. aim = "target" <=> \E d \in open \cap Seen : angle[d] < Threshold
      <4>1. aim = "target" <=> CurrentMin < Threshold
        BY <1>1, <2>3, DoneFacts
      <4>2. ASSUME NEW d \in open \cap Seen, angle[d] < Threshold PROVE CurrentMin < Threshold
        <5>1. CurrentMin <= angle[d] /\ angle[d] \in Int
          BY <3>1, <3>3
        <5> QED
          BY <3>3, <4>2, <5>1
      <4> QED
        BY <3>2, <4>1, <4>2
    <3> QED
      BY <1>1, <2>1, <2>3, <3>1, <3>2, <3>4, DoneFacts
  <2> QED
    BY <2>2, <2>3
<1>2. IInv => AimIsNearestOpen
  BY <1>1 DEF AimIsNearestOpen
<1> QED
  BY Inductive, <1>2, PTL

\* Of equals the first is taken, and the samples go outwards
\* (FishGroup.cpp:96-117, 143).
THEOREM NearestAimIsAheadOfEquals == Spec => []AimIsAheadOfEquals
<1>1. ASSUME IInv, pc = "done", aim = "nearest", NEW d \in open \cap Seen,
             angle[d] = angle[Results[ArgMin]]
      PROVE  Results[ArgMin][1] <= d[1]
  <2>1. Results # <<>>
    BY <1>1, DoneFacts
  <2>2. PICK i \in DOMAIN Results : d = Results[i]
    BY <1>1, DoneFacts DEF Found, Range
  <2>3. /\ ArgMin \in DOMAIN Results /\ CurrentMin = angle[d]
        /\ i < ArgMin => CurrentMin < angle[d]
    BY <1>1, <2>1, <2>2, DoneFacts
  <2>4. CurrentMin \in Int /\ i \in Int /\ ArgMin \in Int
    BY <1>1, <2>2 DEF IInv, TypeOK
  <2>5. ArgMin = i \/ ArgMin < i
    BY <2>3, <2>4
  <2>6. d[1] \in Int
    <3>1. PICK r \in Rings : \E p \in 0 .. PointsNum(r) : d = Direction(r, p)
      BY DirectionFacts DEF Seen
    <3> QED
      BY <3>1, DirectionFacts DEF Rings
  <2>7. CASE ArgMin = i
    BY <2>2, <2>6, <2>7
  <2>8. CASE ArgMin < i
    BY <1>1, <2>2, <2>3, <2>8 DEF IInv, RingsInv, InOrder
  <2> QED
    BY <2>5, <2>7, <2>8
<1>2. IInv => AimIsAheadOfEquals
  BY <1>1 DEF AimIsAheadOfEquals
<1> QED
  BY Inductive, <1>2, PTL

=============================================================================
