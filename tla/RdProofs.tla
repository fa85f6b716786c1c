-------------------------------- MODULE RdProofs --------------------------------
(***************************************************************************)
(* Theorems about the two parts of the protocol above the wire: RdMap, for *)
(* any keys and values and any number of changes, and MessageBroker, for   *)
(* any ids, messages and entities.                                         *)
(*                                                                         *)
(* The map.  A key that is not entangled is in one of three phases.  At    *)
(* rest: the master waits for nothing, and what the slave said last, if it *)
(* is still under way, is what the slave has.  Told: the master's change   *)
(* is on its way, and whatever the slave says will be rejected.  Answered: *)
(* the acknowledgement is on its way, and what comes after it is as at     *)
(* rest.                                                                   *)
(*                                                                         *)
(* The broker.  TypeInv says which id each message, task and action is     *)
(* for.  LiveInv matches the tasks of the default scheduler with messages: *)
(* a task that finds its entry finds its own message in it, so that no     *)
(* entry goes too early.  PlaceInv puts each message in one place, and     *)
(* OrderInv the places of an id in the order in which it passes them.      *)
(* CompanyInv and AstrayInv say who else was not there when a message goes *)
(* to an entity that has left.                                             *)
(***************************************************************************)
EXTENDS RdMap, MessageBroker, FiniteSetTheorems, TLAPS

-----------------------------------------------------------------------------
(* Sequences that grow and shrink *)

LEMMA Joined ==
  ASSUME NEW S, NEW w \in Seq(S), NEW t \in Seq(S)
  PROVE  /\ w \o t \in Seq(S) /\ Len(w) \in Nat /\ Len(t) \in Nat
         /\ Len(w \o t) = Len(w) + Len(t)
         /\ \A i \in 1 .. Len(w) : (w \o t)[i] = w[i]
         /\ \A i \in 1 .. Len(t) : (w \o t)[Len(w) + i] = t[i]
         /\ \A i \in 1 .. Len(w) + Len(t) :
              i \in 1 .. Len(w) \/ (i - Len(w) \in 1 .. Len(t) /\ (w \o t)[i] = t[i - Len(w)])
OBVIOUS

LEMMA Taken ==
  ASSUME NEW S, NEW w \in Seq(S), w # <<>>
  PROVE  /\ Head(w) \in S /\ Head(w) = w[1] /\ Len(w) \in Nat /\ Len(w) >= 1
         /\ Tail(w) \in Seq(S) /\ Len(Tail(w)) = Len(w) - 1
         /\ \A i \in 1 .. Len(w) - 1 : Tail(w)[i] = w[i + 1] /\ i + 1 \in 1 .. Len(w)
OBVIOUS

LEMMA Appended ==
  ASSUME NEW S, NEW w \in Seq(S), NEW x \in S
  PROVE  /\ Append(w, x) \in Seq(S) /\ Len(w) \in Nat /\ Len(Append(w, x)) = Len(w) + 1
         /\ \A i \in 1 .. Len(w) : i \in 1 .. Len(w) + 1 /\ Append(w, x)[i] = w[i]
         /\ Append(w, x)[Len(w) + 1] = x
         /\ \A i \in 1 .. Len(w) + 1 : i \in 1 .. Len(w) \/ (i = Len(w) + 1 /\ Append(w, x)[i] = x)
OBVIOUS

-----------------------------------------------------------------------------
(* The map: where the last word about a key is *)

\* After the first i messages of w, the last one about k has the value s; if
\* there is none, m is s.
WillBe(w, k, i, m, s) ==
  \/ m = s /\ \A j \in i + 1 .. Len(w) : w[j].key # k
  \/ \E l \in i + 1 .. Len(w) :
       w[l].key = k /\ w[l].value = s /\ \A j \in l + 1 .. Len(w) : w[j].key # k

\* No message of w is about k.
Silent(w, k) == \A i \in 1 .. Len(w) : w[i].key # k

IsAck(m, k) == m.op = "ACK" /\ m.key = k

NoAck(w, k) == \A i \in 1 .. Len(w) : ~IsAck(w[i], k)

\* Message i of w is the only one about k, and says that version is v.
Tells(w, k, i, version, v) ==
  /\ w[i].key = k /\ w[i].version = version /\ w[i].value = v
  /\ \A j \in 1 .. Len(w) : w[j].key = k => j = i

\* Message i of w is the only acknowledgement for k, and is for version.
Acks(w, k, i, version) ==
  /\ IsAck(w[i], k) /\ w[i].version = version
  /\ \A j \in 1 .. Len(w) : IsAck(w[j], k) => j = i

AtRest(k) ==
  /\ pendingForAck[k] = 0
  /\ Silent(wire["slave"], k) /\ NoAck(wire["master"], k)
  /\ WillBe(wire["master"], k, 0, map["master"][k], map["slave"][k])

Told(k) ==
  /\ pendingForAck[k] # 0
  /\ \E i \in 1 .. Len(wire["slave"]) :
       Tells(wire["slave"], k, i, pendingForAck[k], map["master"][k])
  /\ NoAck(wire["master"], k)

Answered(k) ==
  /\ pendingForAck[k] # 0
  /\ Silent(wire["slave"], k)
  /\ \E i \in 1 .. Len(wire["master"]) :
       /\ Acks(wire["master"], k, i, pendingForAck[k])
       /\ WillBe(wire["master"], k, i, map["master"][k], map["slave"][k])

MapInv ==
  /\ TypeOK
  /\ dangling \subseteq entangled
  /\ unpaired \subseteq entangled
  /\ \A k \in Key \ entangled : AtRest(k) \/ Told(k) \/ Answered(k)

-----------------------------------------------------------------------------
(* The map: messages that are added and taken *)

LEMMA JoinedOne ==
  ASSUME NEW S, NEW w \in Seq(S), NEW t \in Seq(S), Len(t) = 1
  PROVE  Len(w) + 1 \in 1 .. Len(w \o t) /\ (w \o t)[Len(w) + 1] = t[1] /\ Len(w \o t) = Len(w) + 1
<1>1. /\ Len(w) \in Nat /\ Len(w \o t) = Len(w) + Len(t)
      /\ \A i \in 1 .. Len(t) : (w \o t)[Len(w) + i] = t[i]
  BY Joined
<1>2. 1 \in 1 .. Len(t)
  OBVIOUS
<1>. QED
  BY <1>1, <1>2

\* Messages about other keys change nothing.
LEMMA WillBeOthers ==
  ASSUME NEW S, NEW w \in Seq(S), NEW t \in Seq(S), NEW k, NEW m, NEW s,
         NEW i \in 0 .. Len(w), WillBe(w, k, i, m, s), Silent(t, k)
  PROVE  WillBe(w \o t, k, i, m, s)
<1>1. \A l \in 0 .. Len(w) :
        (\A j \in l + 1 .. Len(w) : w[j].key # k) => \A j \in l + 1 .. Len(w \o t) : (w \o t)[j].key # k
  <2>. SUFFICES ASSUME NEW l \in 0 .. Len(w), \A j \in l + 1 .. Len(w) : w[j].key # k,
                       NEW j \in l + 1 .. Len(w \o t)
                PROVE  (w \o t)[j].key # k
    OBVIOUS
  <2>1. CASE j \in 1 .. Len(w)
    BY <2>1, Joined
  <2>2. CASE j \notin 1 .. Len(w)
    BY <2>2, Joined DEF Silent
  <2>. QED
    BY <2>1, <2>2
<1>2. CASE m = s /\ \A j \in i + 1 .. Len(w) : w[j].key # k
  BY <1>1, <1>2 DEF WillBe
<1>3. CASE \E l \in i + 1 .. Len(w) :
             w[l].key = k /\ w[l].value = s /\ \A j \in l + 1 .. Len(w) : w[j].key # k
  <2>1. PICK l \in i + 1 .. Len(w) :
             w[l].key = k /\ w[l].value = s /\ \A j \in l + 1 .. Len(w) : w[j].key # k
    BY <1>3
  <2>2. l \in 0 .. Len(w) /\ l \in i + 1 .. Len(w \o t) /\ (w \o t)[l] = w[l]
    BY Joined
  <2>. QED
    BY <1>1, <2>1, <2>2 DEF WillBe
<1>. QED
  BY <1>2, <1>3 DEF WillBe

\* One message about k that is added decides.
LEMMA WillBeByNew ==
  ASSUME NEW S, NEW w \in Seq(S), NEW t \in Seq(S), NEW k, NEW m, NEW v,
         NEW i \in 0 .. Len(w), NEW n \in 1 .. Len(t), t[n].key = k, t[n].value = v,
         \A j \in 1 .. Len(t) : t[j].key = k => j = n
  PROVE  WillBe(w \o t, k, i, m, v)
<1>1. /\ Len(w) + n \in i + 1 .. Len(w \o t)
      /\ (w \o t)[Len(w) + n] = t[n]
  BY Joined
<1>2. ASSUME NEW j \in Len(w) + n + 1 .. Len(w \o t) PROVE (w \o t)[j].key # k
  <2>1. j - Len(w) \in 1 .. Len(t) /\ j - Len(w) # n /\ (w \o t)[j] = t[j - Len(w)]
    BY Joined
  <2>. QED
    BY <2>1
<1>. QED
  BY <1>1, <1>2 DEF WillBe

\* The first message is read, and is not behind i.
LEMMA WillBeShift ==
  ASSUME NEW S, NEW w \in Seq(S), w # <<>>, NEW k, NEW m, NEW s,
         NEW i \in 1 .. Len(w), WillBe(w, k, i, m, s)
  PROVE  WillBe(Tail(w), k, i - 1, m, s)
<1>1. ASSUME NEW l \in 1 .. Len(w), \A j \in l + 1 .. Len(w) : w[j].key # k,
             NEW j \in l - 1 + 1 .. Len(Tail(w))
      PROVE  Tail(w)[j].key # k
  <2>1. j + 1 \in l + 1 .. Len(w) /\ Tail(w)[j] = w[j + 1]
    BY Taken
  <2>. QED
    BY <1>1, <2>1
<1>2. CASE m = s /\ \A j \in i + 1 .. Len(w) : w[j].key # k
  BY <1>1, <1>2 DEF WillBe
<1>3. CASE \E l \in i + 1 .. Len(w) :
             w[l].key = k /\ w[l].value = s /\ \A j \in l + 1 .. Len(w) : w[j].key # k
  <2>1. PICK l \in i + 1 .. Len(w) :
             w[l].key = k /\ w[l].value = s /\ \A j \in l + 1 .. Len(w) : w[j].key # k
    BY <1>3
  <2>2. l \in 1 .. Len(w) /\ l - 1 \in i - 1 + 1 .. Len(Tail(w)) /\ Tail(w)[l - 1] = w[l]
    BY Taken
  <2>. QED
    BY <1>1, <2>1, <2>2 DEF WillBe
<1>. QED
  BY <1>2, <1>3 DEF WillBe

\* The first message is read: if it is about k, the reader has its value.
LEMMA WillBeRead ==
  ASSUME NEW S, NEW w \in Seq(S), w # <<>>, NEW k, NEW m, NEW s,
         WillBe(w, k, 0, m, s)
  PROVE  /\ Head(w).key # k => WillBe(Tail(w), k, 0, m, s)
         /\ Head(w).key = k => WillBe(Tail(w), k, 0, Head(w).value, s)
<1>1. ASSUME NEW l \in 1 .. Len(w), \A j \in l + 1 .. Len(w) : w[j].key # k,
             NEW j \in l - 1 + 1 .. Len(Tail(w))
      PROVE  Tail(w)[j].key # k
  <2>1. j + 1 \in l + 1 .. Len(w) /\ Tail(w)[j] = w[j + 1]
    BY Taken
  <2>. QED
    BY <1>1, <2>1
<1>2. 1 \in 1 .. Len(w) /\ Head(w) = w[1]
  BY Taken
<1>3. CASE m = s /\ \A j \in 0 + 1 .. Len(w) : w[j].key # k
  <2>1. Head(w).key # k
    BY <1>2, <1>3
  <2>2. \A j \in 0 + 1 .. Len(Tail(w)) : Tail(w)[j].key # k
    BY <1>3, Taken
  <2>. QED
    BY <1>3, <2>1, <2>2 DEF WillBe
<1>4. CASE \E l \in 0 + 1 .. Len(w) :
             w[l].key = k /\ w[l].value = s /\ \A j \in l + 1 .. Len(w) : w[j].key # k
  <2>1. PICK l \in 1 .. Len(w) :
             w[l].key = k /\ w[l].value = s /\ \A j \in l + 1 .. Len(w) : w[j].key # k
    BY <1>4
  <2>2. CASE l = 1
    <3>1. Head(w).key = k /\ Head(w).value = s
      BY <1>2, <2>1, <2>2
    <3>2. \A j \in 0 + 1 .. Len(Tail(w)) : Tail(w)[j].key # k
      BY <1>1, <1>2, <2>1, <2>2
    <3>. QED
      BY <3>1, <3>2 DEF WillBe
  <2>3. CASE l # 1
    <3>1. l - 1 \in 0 + 1 .. Len(Tail(w)) /\ Tail(w)[l - 1] = w[l]
      BY <2>3, Taken
    <3>. QED
      BY <1>1, <2>1, <3>1 DEF WillBe
  <2>. QED
    BY <2>2, <2>3
<1>. QED
  BY <1>3, <1>4 DEF WillBe

-----------------------------------------------------------------------------
(* What every local change has in common *)

\* End e changes the keys of s, each once, to value.
Changes(e, s, value) ==
  LET K == {s[i] : i \in 1 .. Len(s)} IN
  /\ \A i, j \in 1 .. Len(s) : s[i] = s[j] => i = j
  /\ map' = [map EXCEPT ![e] = [k \in Key |-> IF k \in K THEN value ELSE map[e][k]]]
  /\ Announce(e, s, value)

LEMMA LocalChangeIs ==
  ASSUME TypeOK, NEW e \in End, LocalChange(e)
  PROVE  /\ changes' \in Nat /\ unpaired' = unpaired
         /\ \E s \in Seq(Key), value \in Value \cup {None} : Changes(e, s, value)
<1>1. CASE \E k \in Key, v \in Value \cup {None} :
             /\ changes' = changes + 1 /\ unpaired' = unpaired
             /\ map' = [map EXCEPT ![e][k] = v] /\ Announce(e, <<k>>, v)
  <2>1. PICK k \in Key, v \in Value \cup {None} :
             /\ changes' = changes + 1 /\ unpaired' = unpaired
             /\ map' = [map EXCEPT ![e][k] = v] /\ Announce(e, <<k>>, v)
    BY <1>1
  <2>2. <<k>> \in Seq(Key) /\ Len(<<k>>) = 1 /\ {<<k>>[i] : i \in 1 .. Len(<<k>>)} = {k}
    OBVIOUS
  <2>3. map' = [map EXCEPT ![e] = [x \in Key |-> IF x \in {k} THEN v ELSE map[e][x]]]
    BY <2>1 DEF TypeOK
  <2>4. \A i, j \in 1 .. Len(<<k>>) : <<k>>[i] = <<k>>[j] => i = j
    BY <2>2
  <2>. DEFINE s == <<k>>
  <2>5. /\ s \in Seq(Key) /\ {s[i] : i \in 1 .. Len(s)} = {k}
        /\ \A i, j \in 1 .. Len(s) : s[i] = s[j] => i = j
        /\ Announce(e, s, v)
    BY <2>1, <2>2, <2>4, Zenon
  <2>. HIDE DEF s
  <2>7. Changes(e, s, v)
    BY <2>3, <2>5, Zenon DEF Changes
  <2>8. changes' \in Nat
    BY <2>1 DEF TypeOK
  <2>. QED
    BY <2>1, <2>5, <2>7, <2>8
<1>2. CASE Clear(e)
  <2>. DEFINE K == {k \in Key : map[e][k] # None}
  <2>1. Cardinality(K) \in Nat
    BY RdMapAssumption, FS_Subset, FS_CardinalityType
  <2>2. PICK s \in [1 .. Cardinality(K) -> K] :
          /\ K = {s[i] : i \in 1 .. Cardinality(K)}
          /\ \A i, j \in 1 .. Cardinality(K) : s[i] = s[j] => i = j
          /\ map' = [map EXCEPT ![e] = [k \in Key |-> None]]
          /\ Announce(e, s, None)
    BY <1>2 DEF Clear
  <2>. HIDE DEF K
  <2>3. s \in Seq(Key) /\ Len(s) = Cardinality(K)
    <3>1. K \subseteq Key
      BY DEF K
    <3>. QED
      BY <2>1, <3>1
  <2>4. [k \in Key |-> None] = [k \in Key |-> IF k \in K THEN None ELSE map[e][k]]
    BY DEF K
  <2>5. Changes(e, s, None)
    <3>1. map' = [map EXCEPT ![e] = [k \in Key |-> IF k \in {s[i] : i \in 1 .. Len(s)} THEN None ELSE map[e][k]]]
      BY <2>2, <2>3, <2>4
    <3>2. \A i, j \in 1 .. Len(s) : s[i] = s[j] => i = j
      BY <2>2, <2>3
    <3>. QED
      BY <2>2, <3>1, <3>2 DEF Changes
  <2>. QED
    BY <1>2, <2>3, <2>5 DEF Clear, TypeOK
<1>. QED
  BY <1>1, <1>2 DEF LocalChange, LocalSet, LocalRemove

\* The messages that announce the keys s.
LEMMA ChangesTypes ==
  ASSUME TypeOK, NEW e \in End, NEW s \in Seq(Key), NEW value \in Value \cup {None},
         Changes(e, s, value)
  PROVE  /\ map' \in [End -> [Key -> Value \cup {None}]]
         /\ \E t \in Seq(Message) :
              /\ Len(t) = Len(s)
              /\ \A i \in 1 .. Len(s) :
                   /\ t[i].op = "PUT" /\ t[i].key = s[i] /\ t[i].value = value
                   /\ e = "master" => t[i].version = next_version + i
              /\ wire' \in [End -> Seq(Message)]
              /\ wire'[Other(e)] = wire[Other(e)] \o t /\ wire'[e] = wire[e]
<1>1. map' \in [End -> [Key -> Value \cup {None}]]
  <2>. DEFINE new == [k \in Key |-> IF k \in {s[i] : i \in 1 .. Len(s)} THEN value ELSE map[e][k]]
  <2>1. new \in [Key -> Value \cup {None}]
    BY DEF TypeOK
  <2>2. map' = [map EXCEPT ![e] = new]
    BY DEF Changes
  <2>. HIDE DEF new
  <2>. QED
    BY <2>1, <2>2 DEF TypeOK
<1>. DEFINE t == [i \in 1 .. Len(s) |->
                    [op |-> "PUT", key |-> s[i], value |-> value,
                     version |-> IF e = "master" THEN next_version + i ELSE 0]]
<1>2. \A i \in 1 .. Len(s) : t[i] \in Message
  BY DEF TypeOK, Message
<1>3. t \in Seq(Message) /\ Len(t) = Len(s)
  BY <1>2
<1>4. wire' = [wire EXCEPT ![Other(e)] = @ \o t]
  BY DEF Changes, Announce
<1>5. \A i \in 1 .. Len(s) :
        /\ t[i].op = "PUT" /\ t[i].key = s[i] /\ t[i].value = value
        /\ e = "master" => t[i].version = next_version + i
  OBVIOUS
<1>. HIDE DEF t
<1>6. Other(e) \in End /\ Other(e) # e
  BY DEF End, Other
<1>7. /\ wire' \in [End -> Seq(Message)]
      /\ wire'[Other(e)] = wire[Other(e)] \o t /\ wire'[e] = wire[e]
  BY <1>3, <1>4, <1>6 DEF TypeOK
<1>. QED
  BY <1>1, <1>3, <1>5, <1>7

\* What a change does to the master's notes.
LEMMA MasterNotes ==
  ASSUME TypeOK, NEW s \in Seq(Key), NEW value \in Value \cup {None},
         Changes("master", s, value)
  PROVE  /\ next_version' \in Nat /\ pendingForAck' \in [Key -> Nat]
         /\ dangling' \in SUBSET Key /\ entangled' \in SUBSET Key
         /\ entangled \subseteq entangled'
         /\ dangling \subseteq entangled => dangling' \subseteq entangled'
         /\ \A k \in Key : (\A i \in 1 .. Len(s) : s[i] # k) => pendingForAck'[k] = pendingForAck[k]
         /\ \A i \in 1 .. Len(s) : s[i] \notin entangled' =>
              pendingForAck[s[i]] = 0 /\ pendingForAck'[s[i]] = next_version + i
<1>. DEFINE K == {s[i] : i \in 1 .. Len(s)}
            Version(k) == next_version + (CHOOSE i \in 1 .. Len(s) : s[i] = k)
<1>1. \A k \in K : \E i \in 1 .. Len(s) : s[i] = k
  OBVIOUS
<1>2. K \subseteq Key
  OBVIOUS
<1>5. \A i \in 1 .. Len(s) : (CHOOSE j \in 1 .. Len(s) : s[j] = s[i]) = i
  BY DEF Changes
<1>6. \A i \in 1 .. Len(s) : s[i] \in K /\ Version(s[i]) = next_version + i
  BY <1>5
<1>4. \A k \in K : Version(k) \in Nat
  <2>1. \A i \in 1 .. Len(s) : next_version + i \in Nat
    BY DEF TypeOK
  <2>. HIDE DEF Version, K
  <2>. QED
    BY <1>1, <1>6, <2>1
<1>7. \A k \in Key : (\A i \in 1 .. Len(s) : s[i] # k) => k \notin K
  OBVIOUS
<1>8. PICK missed \in Missed(K) :
        LET entered == {k \in K : pendingForAck[k] = 0 \/ k \in missed} IN
        /\ next_version' = next_version + Len(s)
        /\ pendingForAck' = [k \in Key |-> IF k \in entered THEN Version(k) ELSE pendingForAck[k]]
        /\ dangling' = IF value = None THEN dangling \cup K ELSE dangling \ entered
        /\ entangled' = entangled \cup {k \in K : pendingForAck[k] # 0}
                                   \cup (IF value = None THEN K ELSE {})
  BY DEF Changes, Announce
<1>. HIDE DEF K, Version
<1>. DEFINE entered == {k \in K : pendingForAck[k] = 0 \/ k \in missed}
<1>9. pendingForAck' = [k \in Key |-> IF k \in entered THEN Version(k) ELSE pendingForAck[k]]
  BY <1>8
<1>10. /\ next_version' = next_version + Len(s)
       /\ dangling' = IF value = None THEN dangling \cup K ELSE dangling \ entered
       /\ entangled' = entangled \cup {k \in K : pendingForAck[k] # 0}
                                  \cup (IF value = None THEN K ELSE {})
  BY <1>8
<1>11. entered \subseteq K /\ \A k \in K : pendingForAck[k] = 0 => k \in entered
  OBVIOUS
<1>. HIDE DEF entered
<1>12. pendingForAck' \in [Key -> Nat]
  BY <1>2, <1>4, <1>9, <1>11 DEF TypeOK
<1>13. next_version' \in Nat /\ dangling' \in SUBSET Key /\ entangled' \in SUBSET Key
  BY <1>2, <1>10 DEF TypeOK
<1>14. \A k \in Key : (\A i \in 1 .. Len(s) : s[i] # k) => pendingForAck'[k] = pendingForAck[k]
  BY <1>7, <1>9, <1>11
<1>15. \A i \in 1 .. Len(s) : s[i] \notin entangled' =>
         pendingForAck[s[i]] = 0 /\ pendingForAck'[s[i]] = next_version + i
  <2>1. SUFFICES ASSUME NEW i \in 1 .. Len(s), s[i] \notin entangled'
                 PROVE  pendingForAck[s[i]] = 0 /\ pendingForAck'[s[i]] = next_version + i
    OBVIOUS
  <2>2. pendingForAck[s[i]] = 0
    BY <1>6, <1>10, <2>1
  <2>3. s[i] \in entered /\ s[i] \in Key
    BY <1>6, <1>11, <2>2
  <2>. QED
    BY <1>6, <1>9, <2>2, <2>3
<1>16. entangled \subseteq entangled' /\ (dangling \subseteq entangled => dangling' \subseteq entangled')
  BY <1>10
<1>. QED
  BY <1>12, <1>13, <1>14, <1>15, <1>16

\* The keys a change does not touch are silent in its messages, and the phase
\* of a key depends only on what is said of it.
LEMMA SilentJoined ==
  ASSUME NEW S, NEW w \in Seq(S), NEW t \in Seq(S), NEW k, Silent(w, k), Silent(t, k)
  PROVE  Silent(w \o t, k)
BY Joined DEF Silent

LEMMA NoAckJoined ==
  ASSUME NEW S, NEW w \in Seq(S), NEW t \in Seq(S), NEW k, NoAck(w, k), NoAck(t, k)
  PROVE  NoAck(w \o t, k)
<1>1. ASSUME NEW i \in 1 .. Len(w \o t) PROVE ~IsAck((w \o t)[i], k)
  <2>1. CASE i \in 1 .. Len(w)
    BY <2>1, Joined DEF NoAck
  <2>2. CASE i \notin 1 .. Len(w)
    BY <2>2, Joined DEF NoAck
  <2>. QED
    BY <2>1, <2>2
<1>. QED
  BY <1>1 DEF NoAck

LEMMA AcksJoined ==
  ASSUME NEW S, NEW w \in Seq(S), NEW t \in Seq(S), NEW k, NEW version,
         NEW i \in 1 .. Len(w), Acks(w, k, i, version), NoAck(t, k)
  PROVE  i \in 1 .. Len(w \o t) /\ Acks(w \o t, k, i, version)
<1>1. i \in 1 .. Len(w \o t) /\ (w \o t)[i] = w[i]
  BY Joined
<1>2. ASSUME NEW j \in 1 .. Len(w \o t), IsAck((w \o t)[j], k) PROVE j = i
  <2>1. CASE j \in 1 .. Len(w)
    BY <1>2, <2>1, Joined DEF Acks
  <2>2. CASE j \notin 1 .. Len(w)
    BY <1>2, <2>2, Joined DEF NoAck
  <2>. QED
    BY <2>1, <2>2
<1>. QED
  BY <1>1, <1>2 DEF Acks

LEMMA TellsJoined ==
  ASSUME NEW S, NEW w \in Seq(S), NEW t \in Seq(S), NEW k, NEW version, NEW v,
         NEW i \in 1 .. Len(w), Tells(w, k, i, version, v), Silent(t, k)
  PROVE  i \in 1 .. Len(w \o t) /\ Tells(w \o t, k, i, version, v)
<1>1. i \in 1 .. Len(w \o t) /\ (w \o t)[i] = w[i]
  BY Joined
<1>2. ASSUME NEW j \in 1 .. Len(w \o t), (w \o t)[j].key = k PROVE j = i
  <2>1. CASE j \in 1 .. Len(w)
    BY <1>2, <2>1, Joined DEF Tells
  <2>2. CASE j \notin 1 .. Len(w)
    BY <1>2, <2>2, Joined DEF Silent
  <2>. QED
    BY <2>1, <2>2
<1>. QED
  BY <1>1, <1>2 DEF Tells

\* After nothing about k, a message about k is the only one.
LEMMA TellsNew ==
  ASSUME NEW S, NEW w \in Seq(S), NEW t \in Seq(S), NEW k, NEW version, NEW v, Silent(w, k),
         NEW n \in 1 .. Len(t), Tells(t, k, n, version, v)
  PROVE  \E i \in 1 .. Len(w \o t) : Tells(w \o t, k, i, version, v)
<1>1. Len(w) + n \in 1 .. Len(w \o t) /\ (w \o t)[Len(w) + n] = t[n]
  BY Joined
<1>2. ASSUME NEW j \in 1 .. Len(w \o t), (w \o t)[j].key = k PROVE j = Len(w) + n
  <2>1. j \notin 1 .. Len(w)
    BY <1>2, Joined DEF Silent
  <2>2. j - Len(w) \in 1 .. Len(t) /\ (w \o t)[j] = t[j - Len(w)]
    BY <2>1, Joined
  <2>3. j - Len(w) = n
    BY <1>2, <2>2 DEF Tells
  <2>. QED
    BY <2>3, Joined
<1>. QED
  BY <1>1, <1>2 DEF Tells

-----------------------------------------------------------------------------
(* The map: the invariant holds at first and is kept *)

Phase(k) == AtRest(k) \/ Told(k) \/ Answered(k)

LEMMA MapInit == Init => MapInv
<1>. SUFFICES ASSUME Init PROVE MapInv
  OBVIOUS
<1>1. TypeOK
  BY RdMapAssumption DEF Init, TypeOK
<1>2. ASSUME NEW k \in Key PROVE AtRest(k)
  <2>1. /\ wire["slave"] = <<>> /\ wire["master"] = <<>> /\ pendingForAck[k] = 0
        /\ map["master"][k] = map["slave"][k]
    BY DEF Init, End
  <2>. QED
    BY <2>1 DEF AtRest, Silent, NoAck, WillBe
<1>. QED
  BY <1>1, <1>2 DEF MapInv, Init

\* A change of the slave.
LEMMA SlaveChanges ==
  ASSUME TypeOK, NEW s \in Seq(Key), NEW value \in Value \cup {None},
         Changes("slave", s, value), NEW k \in Key, Phase(k)
  PROVE  Phase(k)'
<1>. DEFINE w == wire["master"]
<1>1. PICK t \in Seq(Message) :
        /\ Len(t) = Len(s)
        /\ \A i \in 1 .. Len(s) : t[i].op = "PUT" /\ t[i].key = s[i] /\ t[i].value = value
        /\ wire'["master"] = w \o t /\ wire'["slave"] = wire["slave"]
  <2>1. "slave" \in End /\ Other("slave") = "master"
    BY DEF End, Other
  <2>2. \E t \in Seq(Message) :
          /\ Len(t) = Len(s)
          /\ \A i \in 1 .. Len(s) :
               /\ t[i].op = "PUT" /\ t[i].key = s[i] /\ t[i].value = value
               /\ "slave" = "master" => t[i].version = next_version + i
          /\ wire' \in [End -> Seq(Message)]
          /\ wire'[Other("slave")] = wire[Other("slave")] \o t /\ wire'["slave"] = wire["slave"]
    BY <2>1, ChangesTypes, Zenon
  <2>. QED
    BY <2>1, <2>2
<1>2. /\ wire'["master"] = w \o t /\ wire'["slave"] = wire["slave"]
      /\ pendingForAck' = pendingForAck
      /\ map'["master"][k] = map["master"][k]
      /\ map'["slave"][k] = IF k \in {s[i] : i \in 1 .. Len(s)} THEN value ELSE map["slave"][k]
  BY <1>1 DEF Changes, Announce, TypeOK, End, masterVars
<1>3. w \in Seq(Message)
  BY DEF TypeOK, End
<1>4. NoAck(t, k)
  BY <1>1 DEF NoAck, IsAck
<1>. HIDE DEF w
<1>5. ASSUME NEW i \in 0 .. Len(w), WillBe(w, k, i, map["master"][k], map["slave"][k])
      PROVE  WillBe(w \o t, k, i, map["master"][k], map'["slave"][k])
  <2>1. CASE \E n \in 1 .. Len(s) : s[n] = k
    <3>1. PICK n \in 1 .. Len(s) : s[n] = k
      BY <2>1
    <3>2. n \in 1 .. Len(t) /\ t[n].key = k /\ t[n].value = map'["slave"][k]
      BY <1>1, <1>2, <3>1
    <3>3. \A l, j \in 1 .. Len(s) : s[l] = s[j] => l = j
      BY DEF Changes
    <3>4. \A j \in 1 .. Len(t) : t[j].key = k => j = n
      BY <1>1, <3>1, <3>3
    <3>. QED
      BY <1>3, <3>2, <3>4, WillBeByNew
  <2>2. CASE \A n \in 1 .. Len(s) : s[n] # k
    <3>1. Silent(t, k) /\ map'["slave"][k] = map["slave"][k]
      BY <1>1, <1>2, <2>2 DEF Silent
    <3>. QED
      BY <1>3, <1>5, <3>1, WillBeOthers
  <2>. QED
    BY <2>1, <2>2
<1>6. ASSUME AtRest(k) PROVE AtRest(k)'
  <2>1. WillBe(w \o t, k, 0, map["master"][k], map'["slave"][k])
    BY <1>3, <1>5, <1>6 DEF AtRest, w
  <2>2. NoAck(w \o t, k)
    BY <1>3, <1>4, <1>6, NoAckJoined DEF AtRest, w
  <2>. QED
    BY <1>2, <1>6, <2>1, <2>2 DEF AtRest
<1>7. ASSUME Told(k) PROVE Told(k)'
  <2>1. NoAck(w \o t, k)
    BY <1>3, <1>4, <1>7, NoAckJoined DEF Told, w
  <2>. QED
    BY <1>2, <1>7, <2>1 DEF Told
<1>8. ASSUME Answered(k) PROVE Answered(k)'
  <2>1. PICK i \in 1 .. Len(w) :
          /\ Acks(w, k, i, pendingForAck[k])
          /\ WillBe(w, k, i, map["master"][k], map["slave"][k])
    BY <1>8 DEF Answered, w
  <2>2. i \in 1 .. Len(w \o t) /\ Acks(w \o t, k, i, pendingForAck[k])
    BY <1>3, <1>4, <2>1, AcksJoined
  <2>3. WillBe(w \o t, k, i, map["master"][k], map'["slave"][k])
    BY <1>3, <1>5, <2>1
  <2>. QED
    BY <1>2, <1>8, <2>2, <2>3 DEF Answered
<1>. QED
  BY <1>6, <1>7, <1>8 DEF Phase

\* A change of the master.
LEMMA MasterChanges ==
  ASSUME TypeOK, NEW s \in Seq(Key), NEW value \in Value \cup {None},
         Changes("master", s, value), NEW k \in Key, k \notin entangled', Phase(k)
  PROVE  Phase(k)'
<1>. DEFINE w == wire["slave"]
<1>1. PICK t \in Seq(Message) :
        /\ Len(t) = Len(s)
        /\ \A i \in 1 .. Len(s) :
             /\ t[i].op = "PUT" /\ t[i].key = s[i] /\ t[i].value = value
             /\ t[i].version = next_version + i
        /\ wire'["slave"] = w \o t /\ wire'["master"] = wire["master"]
  <2>1. "master" \in End /\ Other("master") = "slave"
    BY DEF End, Other
  <2>2. \E t \in Seq(Message) :
          /\ Len(t) = Len(s)
          /\ \A i \in 1 .. Len(s) :
               /\ t[i].op = "PUT" /\ t[i].key = s[i] /\ t[i].value = value
               /\ "master" = "master" => t[i].version = next_version + i
          /\ wire' \in [End -> Seq(Message)]
          /\ wire'[Other("master")] = wire[Other("master")] \o t /\ wire'["master"] = wire["master"]
    BY <2>1, ChangesTypes, Zenon
  <2>. QED
    BY <2>1, <2>2
<1>2. /\ wire'["slave"] = w \o t /\ wire'["master"] = wire["master"]
      /\ map'["slave"][k] = map["slave"][k]
      /\ map'["master"][k] = IF k \in {s[i] : i \in 1 .. Len(s)} THEN value ELSE map["master"][k]
  BY <1>1 DEF Changes, TypeOK, End
<1>3. w \in Seq(Message)
  BY DEF TypeOK, End
<1>4. CASE \A n \in 1 .. Len(s) : s[n] # k
  <2>1. Silent(t, k) /\ map'["master"][k] = map["master"][k] /\ pendingForAck'[k] = pendingForAck[k]
    <3>1. Silent(t, k)
      BY <1>1, <1>4 DEF Silent
    <3>2. k \notin {s[i] : i \in 1 .. Len(s)}
      BY <1>4
    <3>3. pendingForAck'[k] = pendingForAck[k]
      BY <1>4, MasterNotes
    <3>. QED
      BY <1>2, <3>1, <3>2, <3>3
  <2>2. ASSUME AtRest(k) PROVE AtRest(k)'
    BY <1>2, <1>3, <2>1, <2>2, SilentJoined DEF AtRest
  <2>3. ASSUME Told(k) PROVE Told(k)'
    <3>1. PICK i \in 1 .. Len(w) : Tells(w, k, i, pendingForAck[k], map["master"][k])
      BY <2>3 DEF Told
    <3>2. i \in 1 .. Len(w \o t) /\ Tells(w \o t, k, i, pendingForAck[k], map["master"][k])
      BY <1>3, <2>1, <3>1, TellsJoined
    <3>. QED
      BY <1>2, <2>1, <2>3, <3>2 DEF Told
  <2>4. ASSUME Answered(k) PROVE Answered(k)'
    BY <1>2, <1>3, <2>1, <2>4, SilentJoined DEF Answered
  <2>. QED
    BY <2>2, <2>3, <2>4 DEF Phase
<1>5. CASE \E n \in 1 .. Len(s) : s[n] = k
  <2>1. PICK n \in 1 .. Len(s) : s[n] = k
    BY <1>5
  <2>2. pendingForAck[k] = 0 /\ pendingForAck'[k] = next_version + n
    BY <2>1, MasterNotes
  <2>3. AtRest(k)
    BY <2>2 DEF Phase, Told, Answered
  <2>4. n \in 1 .. Len(t) /\ Tells(t, k, n, pendingForAck'[k], map'["master"][k])
    <3>1. \A i, j \in 1 .. Len(s) : s[i] = s[j] => i = j
      BY DEF Changes
    <3>2. \A j \in 1 .. Len(t) : t[j].key = k => j = n
      BY <1>1, <2>1, <3>1
    <3>3. map'["master"][k] = value
      BY <1>2, <2>1
    <3>. QED
      BY <1>1, <2>1, <2>2, <3>2, <3>3 DEF Tells
  <2>5. \E i \in 1 .. Len(w \o t) : Tells(w \o t, k, i, pendingForAck'[k], map'["master"][k])
    BY <1>3, <2>3, <2>4, TellsNew DEF AtRest
  <2>6. pendingForAck'[k] # 0
    BY <2>2 DEF TypeOK
  <2>. QED
    BY <1>2, <2>3, <2>5, <2>6 DEF Phase, Told, AtRest
<1>. QED
  BY <1>4, <1>5

-----------------------------------------------------------------------------
(* What is left when the first message is taken *)

LEMMA SilentTaken ==
  ASSUME NEW S, NEW w \in Seq(S), w # <<>>, NEW k, Silent(w, k)
  PROVE  Silent(Tail(w), k) /\ Head(w).key # k
<1>1. 1 \in 1 .. Len(w)
  BY Taken
<1>2. \A j \in 1 .. Len(Tail(w)) : j + 1 \in 1 .. Len(w) /\ Tail(w)[j] = w[j + 1]
  BY Taken
<1>. QED
  BY <1>1, <1>2, Taken DEF Silent

LEMMA NoAckTaken ==
  ASSUME NEW S, NEW w \in Seq(S), w # <<>>, NEW k, NoAck(w, k)
  PROVE  NoAck(Tail(w), k) /\ ~IsAck(Head(w), k)
<1>1. 1 \in 1 .. Len(w)
  BY Taken
<1>2. \A j \in 1 .. Len(Tail(w)) : j + 1 \in 1 .. Len(w) /\ Tail(w)[j] = w[j + 1]
  BY Taken
<1>. QED
  BY <1>1, <1>2, Taken DEF NoAck

LEMMA AcksTaken ==
  ASSUME NEW S, NEW w \in Seq(S), w # <<>>, NEW k, NEW version,
         NEW i \in 1 .. Len(w), Acks(w, k, i, version)
  PROVE  /\ IsAck(Head(w), k) => i = 1 /\ NoAck(Tail(w), k)
         /\ ~IsAck(Head(w), k) =>
              i - 1 \in 1 .. Len(Tail(w)) /\ Acks(Tail(w), k, i - 1, version)
<1>1. 1 \in 1 .. Len(w) /\ Head(w) = w[1]
  BY Taken
<1>2. \A j \in 1 .. Len(Tail(w)) : j + 1 \in 1 .. Len(w) /\ Tail(w)[j] = w[j + 1]
  BY Taken
<1>3. ASSUME IsAck(Head(w), k) PROVE i = 1 /\ NoAck(Tail(w), k)
  <2>1. i = 1
    BY <1>1, <1>3 DEF Acks
  <2>2. ASSUME NEW j \in 1 .. Len(Tail(w)), IsAck(Tail(w)[j], k) PROVE FALSE
    <3>1. j + 1 = 1
      BY <1>2, <2>1, <2>2 DEF Acks
    <3>. QED
      BY <3>1
  <2>. QED
    BY <2>1, <2>2 DEF NoAck
<1>4. ASSUME ~IsAck(Head(w), k)
      PROVE  i - 1 \in 1 .. Len(Tail(w)) /\ Acks(Tail(w), k, i - 1, version)
  <2>1. i # 1
    BY <1>1, <1>4 DEF Acks
  <2>2. i - 1 \in 1 .. Len(Tail(w)) /\ Tail(w)[i - 1] = w[i]
    BY <2>1, Taken
  <2>3. ASSUME NEW j \in 1 .. Len(Tail(w)), IsAck(Tail(w)[j], k) PROVE j = i - 1
    <3>1. j + 1 = i
      BY <1>2, <2>3 DEF Acks
    <3>. QED
      BY <3>1
  <2>. QED
    BY <2>2, <2>3 DEF Acks
<1>. QED
  BY <1>3, <1>4

LEMMA TellsTaken ==
  ASSUME NEW S, NEW w \in Seq(S), w # <<>>, NEW k, NEW version, NEW v,
         NEW i \in 1 .. Len(w), Tells(w, k, i, version, v)
  PROVE  /\ Head(w).key = k =>
              Silent(Tail(w), k) /\ Head(w).version = version /\ Head(w).value = v
         /\ Head(w).key # k =>
              i - 1 \in 1 .. Len(Tail(w)) /\ Tells(Tail(w), k, i - 1, version, v)
<1>1. 1 \in 1 .. Len(w) /\ Head(w) = w[1]
  BY Taken
<1>2. \A j \in 1 .. Len(Tail(w)) : j + 1 \in 1 .. Len(w) /\ Tail(w)[j] = w[j + 1]
  BY Taken
<1>3. ASSUME Head(w).key = k
      PROVE  Silent(Tail(w), k) /\ Head(w).version = version /\ Head(w).value = v
  <2>1. i = 1
    BY <1>1, <1>3 DEF Tells
  <2>2. ASSUME NEW j \in 1 .. Len(Tail(w)), Tail(w)[j].key = k PROVE FALSE
    <3>1. j + 1 = 1
      BY <1>2, <2>1, <2>2 DEF Tells
    <3>. QED
      BY <3>1
  <2>. QED
    BY <1>1, <2>1, <2>2 DEF Silent, Tells
<1>4. ASSUME Head(w).key # k
      PROVE  i - 1 \in 1 .. Len(Tail(w)) /\ Tells(Tail(w), k, i - 1, version, v)
  <2>1. i # 1
    BY <1>1, <1>4 DEF Tells
  <2>2. i - 1 \in 1 .. Len(Tail(w)) /\ Tail(w)[i - 1] = w[i]
    BY <2>1, Taken
  <2>3. ASSUME NEW j \in 1 .. Len(Tail(w)), Tail(w)[j].key = k PROVE j = i - 1
    <3>1. j + 1 = i
      BY <1>2, <2>3 DEF Tells
    <3>. QED
      BY <3>1
  <2>. QED
    BY <2>2, <2>3 DEF Tells
<1>. QED
  BY <1>3, <1>4

-----------------------------------------------------------------------------
(* Messages that are received *)

LEMMA SlaveReceives ==
  ASSUME TypeOK, ReceiveAtSlave, NEW k \in Key, Phase(k)
  PROVE  Phase(k)'
<1>. DEFINE w == wire["slave"]
            a == wire["master"]
            answer == [Head(w) EXCEPT !.op = "ACK", !.value = None]
            t == <<answer>>
<1>1. w \in Seq(Message) /\ w # <<>> /\ a \in Seq(Message)
  BY DEF TypeOK, End, ReceiveAtSlave
<1>2. Head(w) \in Message
  BY <1>1, Taken
<1>3. answer \in Message /\ answer.op = "ACK" /\ answer.key = Head(w).key /\ answer.version = Head(w).version
  BY <1>2 DEF Message
<1>5. wire'["slave"] = Tail(w) /\ wire'["master"] = a \o t
  BY <1>1, <1>3 DEF ReceiveAtSlave, TypeOK, End
<1>. HIDE DEF answer
<1>4. /\ t \in Seq(Message) /\ Len(t) = 1
      /\ t[1].op = "ACK" /\ t[1].key = Head(w).key /\ t[1].version = Head(w).version
  BY <1>3
<1>6. /\ pendingForAck' = pendingForAck /\ map'["master"][k] = map["master"][k]
      /\ map'["slave"][k] = IF Head(w).key = k THEN Head(w).value ELSE map["slave"][k]
  BY <1>2 DEF ReceiveAtSlave, Apply, TypeOK, End, Message
<1>. HIDE DEF w, a, t
<1>7. CASE Head(w).key # k
  <2>1. Silent(t, k) /\ NoAck(t, k)
    BY <1>4, <1>7 DEF Silent, NoAck, IsAck
  <2>2. ASSUME AtRest(k) PROVE AtRest(k)'
    <3>1. Silent(w, k) /\ NoAck(a, k) /\ WillBe(a, k, 0, map["master"][k], map["slave"][k])
      BY <2>2 DEF AtRest, w, a
    <3>2. Silent(Tail(w), k) /\ NoAck(a \o t, k)
      BY <1>1, <1>4, <2>1, <3>1, SilentTaken, NoAckJoined
    <3>3. WillBe(a \o t, k, 0, map["master"][k], map["slave"][k])
      BY <1>1, <1>4, <2>1, <3>1, WillBeOthers
    <3>. QED
      BY <1>5, <1>6, <1>7, <2>2, <3>2, <3>3 DEF AtRest
  <2>3. ASSUME Told(k) PROVE Told(k)'
    <3>1. PICK i \in 1 .. Len(w) : Tells(w, k, i, pendingForAck[k], map["master"][k])
      BY <2>3 DEF Told, w
    <3>2. i - 1 \in 1 .. Len(Tail(w)) /\ Tells(Tail(w), k, i - 1, pendingForAck[k], map["master"][k])
      BY <1>1, <1>7, <3>1, TellsTaken
    <3>3. NoAck(a \o t, k)
      BY <1>1, <1>4, <2>1, <2>3, NoAckJoined DEF Told, a
    <3>. QED
      BY <1>5, <1>6, <2>3, <3>2, <3>3 DEF Told
  <2>4. ASSUME Answered(k) PROVE Answered(k)'
    <3>1. PICK i \in 1 .. Len(a) :
            /\ Acks(a, k, i, pendingForAck[k])
            /\ WillBe(a, k, i, map["master"][k], map["slave"][k])
      BY <2>4 DEF Answered, a
    <3>2. i \in 1 .. Len(a \o t) /\ Acks(a \o t, k, i, pendingForAck[k])
      BY <1>1, <1>4, <2>1, <3>1, AcksJoined
    <3>3. WillBe(a \o t, k, i, map["master"][k], map["slave"][k])
      BY <1>1, <1>4, <2>1, <3>1, WillBeOthers
    <3>4. Silent(Tail(w), k)
      BY <1>1, <2>4, SilentTaken DEF Answered, w
    <3>. QED
      BY <1>5, <1>6, <1>7, <2>4, <3>2, <3>3, <3>4 DEF Answered
  <2>. QED
    BY <2>2, <2>3, <2>4 DEF Phase
<1>8. CASE Head(w).key = k
  <2>1. ~Silent(w, k)
    BY <1>1, <1>8, SilentTaken
  <2>2. Told(k)
    BY <2>1 DEF Phase, AtRest, Answered, w
  <2>3. PICK i \in 1 .. Len(w) : Tells(w, k, i, pendingForAck[k], map["master"][k])
    BY <2>2 DEF Told, w
  <2>4. Silent(Tail(w), k) /\ Head(w).version = pendingForAck[k] /\ Head(w).value = map["master"][k]
    BY <1>1, <1>8, <2>3, TellsTaken
  <2>5. NoAck(a, k)
    BY <2>2 DEF Told, a
  <2>6. Len(a) + 1 \in 1 .. Len(a \o t) /\ (a \o t)[Len(a) + 1] = t[1] /\ Len(a \o t) = Len(a) + 1
    BY <1>1, <1>4, JoinedOne
  <2>7. Acks(a \o t, k, Len(a) + 1, pendingForAck[k])
    <3>1. ASSUME NEW j \in 1 .. Len(a \o t), IsAck((a \o t)[j], k) PROVE j = Len(a) + 1
      <4>1. j \notin 1 .. Len(a)
        BY <1>1, <1>4, <2>5, <3>1, Joined DEF NoAck
      <4>. QED
        BY <1>1, <2>6, <4>1
    <3>. QED
      BY <1>4, <1>8, <2>4, <2>6, <3>1 DEF Acks, IsAck
  <2>8. WillBe(a \o t, k, Len(a) + 1, map["master"][k], Head(w).value)
    BY <2>4, <2>6 DEF WillBe
  <2>. QED
    BY <1>5, <1>6, <1>8, <2>2, <2>4, <2>6, <2>7, <2>8 DEF Phase, Told, Answered
<1>. QED
  BY <1>7, <1>8

LEMMA MasterReceivesPut ==
  ASSUME TypeOK, dangling \subseteq entangled, ReceivePut,
         NEW k \in Key, k \notin entangled, Phase(k)
  PROVE  Phase(k)'
<1>. DEFINE a == wire["master"]
<1>1. a \in Seq(Message) /\ a # <<>> /\ Head(a).op = "PUT"
  BY DEF TypeOK, End, ReceivePut
<1>2. Head(a) \in Message /\ ~IsAck(Head(a), k)
  BY <1>1, Taken DEF IsAck
<1>3. wire'["slave"] = wire["slave"] /\ wire'["master"] = Tail(a)
  BY DEF ReceivePut, TypeOK, End
<1>4. /\ pendingForAck' = pendingForAck /\ map'["slave"][k] = map["slave"][k]
      /\ map'["master"][k] = IF Head(a).key = k /\ pendingForAck[k] = 0
                               THEN Head(a).value ELSE map["master"][k]
  <2>1. PICK missed \in Missed({Head(a).key}) :
          IF pendingForAck[Head(a).key] = 0 \/ Head(a).key \in missed
            THEN Apply("master", Head(a))
            ELSE UNCHANGED <<map, dangling, entangled>>
    BY DEF ReceivePut
  <2>2. k \notin missed
    BY <2>1 DEF Missed
  <2>3. pendingForAck' = pendingForAck
    BY DEF ReceivePut
  <2>4. \/ /\ pendingForAck[Head(a).key] = 0 \/ Head(a).key \in missed
           /\ map' = [map EXCEPT !["master"][Head(a).key] = Head(a).value]
        \/ /\ pendingForAck[Head(a).key] # 0 /\ Head(a).key \notin missed
           /\ map' = map
    BY <2>1 DEF Apply
  <2>5. Head(a).key \in Key
    BY <1>2 DEF Message
  <2>. HIDE DEF a
  <2>. QED
    BY <2>2, <2>3, <2>4, <2>5 DEF TypeOK, End
<1>. HIDE DEF a
<1>5. ASSUME AtRest(k) PROVE AtRest(k)'
  <2>1. NoAck(a, k) /\ WillBe(a, k, 0, map["master"][k], map["slave"][k]) /\ pendingForAck[k] = 0
    BY <1>5 DEF AtRest, a
  <2>2. NoAck(Tail(a), k)
    BY <1>1, <2>1, NoAckTaken
  <2>3. WillBe(Tail(a), k, 0, map'["master"][k], map["slave"][k])
    BY <1>1, <1>4, <2>1, WillBeRead
  <2>. QED
    BY <1>3, <1>4, <1>5, <2>2, <2>3 DEF AtRest
<1>6. ASSUME Told(k) PROVE Told(k)'
  <2>1. NoAck(Tail(a), k)
    BY <1>1, <1>6, NoAckTaken DEF Told, a
  <2>. QED
    BY <1>3, <1>4, <1>6, <2>1 DEF Told
<1>7. ASSUME Answered(k) PROVE Answered(k)'
  <2>1. PICK i \in 1 .. Len(a) :
          /\ Acks(a, k, i, pendingForAck[k])
          /\ WillBe(a, k, i, map["master"][k], map["slave"][k])
    BY <1>7 DEF Answered, a
  <2>2. i - 1 \in 1 .. Len(Tail(a)) /\ Acks(Tail(a), k, i - 1, pendingForAck[k])
    BY <1>1, <1>2, <2>1, AcksTaken
  <2>3. WillBe(Tail(a), k, i - 1, map["master"][k], map["slave"][k])
    BY <1>1, <2>1, WillBeShift
  <2>. QED
    BY <1>3, <1>4, <1>7, <2>2, <2>3 DEF Answered
<1>. QED
  BY <1>5, <1>6, <1>7 DEF Phase

LEMMA MasterReceivesAck ==
  ASSUME TypeOK, dangling \subseteq entangled, ReceiveAck,
         NEW k \in Key, k \notin entangled, Phase(k)
  PROVE  Phase(k)' /\ (k \in unpaired' => k \in unpaired)
<1>. DEFINE a == wire["master"]
<1>1. a \in Seq(Message) /\ a # <<>> /\ Head(a).op = "ACK"
  BY DEF TypeOK, End, ReceiveAck
<1>2. Head(a) \in Message /\ (IsAck(Head(a), k) <=> Head(a).key = k)
  BY <1>1, Taken DEF IsAck
<1>3. /\ wire'["slave"] = wire["slave"] /\ wire'["master"] = Tail(a) /\ map' = map
  BY DEF ReceiveAck, TypeOK, End
<1>4. CASE Head(a).key # k
  <2>1. pendingForAck'[k] = pendingForAck[k] /\ (k \in unpaired' => k \in unpaired)
    BY <1>2, <1>4 DEF ReceiveAck, TypeOK, Message
  <2>. HIDE DEF a
  <2>2. ASSUME AtRest(k) PROVE AtRest(k)'
    <3>1. NoAck(a, k) /\ WillBe(a, k, 0, map["master"][k], map["slave"][k])
      BY <2>2 DEF AtRest, a
    <3>2. NoAck(Tail(a), k)
      BY <1>1, <3>1, NoAckTaken
    <3>3. WillBe(Tail(a), k, 0, map["master"][k], map["slave"][k])
      BY <1>1, <1>4, <3>1, WillBeRead
    <3>. QED
      BY <1>3, <2>1, <2>2, <3>2, <3>3 DEF AtRest
  <2>3. ASSUME Told(k) PROVE Told(k)'
    <3>1. NoAck(Tail(a), k)
      BY <1>1, <2>3, NoAckTaken DEF Told, a
    <3>. QED
      BY <1>3, <2>1, <2>3, <3>1 DEF Told
  <2>4. ASSUME Answered(k) PROVE Answered(k)'
    <3>1. PICK i \in 1 .. Len(a) :
            /\ Acks(a, k, i, pendingForAck[k])
            /\ WillBe(a, k, i, map["master"][k], map["slave"][k])
      BY <2>4 DEF Answered, a
    <3>2. i - 1 \in 1 .. Len(Tail(a)) /\ Acks(Tail(a), k, i - 1, pendingForAck[k])
      BY <1>1, <1>2, <1>4, <3>1, AcksTaken
    <3>3. WillBe(Tail(a), k, i - 1, map["master"][k], map["slave"][k])
      BY <1>1, <3>1, WillBeShift
    <3>. QED
      BY <1>3, <2>1, <2>4, <3>2, <3>3 DEF Answered
  <2>. QED
    BY <2>1, <2>2, <2>3, <2>4 DEF Phase
<1>5. CASE Head(a).key = k
  <2>1. ~NoAck(a, k)
    BY <1>1, <1>2, <1>5, NoAckTaken
  <2>2. Answered(k)
    BY <2>1 DEF Phase, AtRest, Told
  <2>3. PICK i \in 1 .. Len(a) :
          /\ Acks(a, k, i, pendingForAck[k])
          /\ WillBe(a, k, i, map["master"][k], map["slave"][k])
    BY <2>2 DEF Answered
  <2>4. i = 1 /\ NoAck(Tail(a), k)
    BY <1>1, <1>2, <1>5, <2>3, AcksTaken
  <2>5. WillBe(Tail(a), k, 0, map["master"][k], map["slave"][k])
    <3>1. WillBe(Tail(a), k, i - 1, map["master"][k], map["slave"][k])
      BY <1>1, <2>3, WillBeShift
    <3>. QED
      BY <2>4, <3>1
  <2>6. Head(a).version = pendingForAck[k]
    BY <1>1, <2>3, <2>4, Taken DEF Acks
  <2>7. pendingForAck[k] # 0 /\ pendingForAck[k] \in Nat
    BY <2>2 DEF Answered, TypeOK
  <2>8. pendingForAck'[k] = 0 /\ unpaired' = unpaired
    BY <1>5, <2>6, <2>7 DEF ReceiveAck, TypeOK, Missed
  <2>9. AtRest(k)'
    BY <1>3, <2>2, <2>4, <2>5, <2>8 DEF AtRest, Answered
  <2>. QED
    BY <2>8, <2>9 DEF Phase
<1>. QED
  BY <1>4, <1>5

LEMMA AppliedTypes ==
  ASSUME TypeOK, NEW e \in End, NEW m \in Message, Apply(e, m)
  PROVE  /\ map' \in [End -> [Key -> Value \cup {None}]]
         /\ dangling' \in SUBSET Key /\ entangled' \in SUBSET Key
         /\ entangled \subseteq entangled'
         /\ dangling \subseteq entangled => dangling' \subseteq entangled'
<1>1. m.key \in Key /\ m.value \in Value \cup {None}
  BY DEF Message
<1>2. map' \in [End -> [Key -> Value \cup {None}]]
  BY <1>1 DEF Apply, TypeOK
<1>. QED
  BY <1>1, <1>2 DEF Apply, TypeOK

\* What receiving keeps of the types and of the notes.
LEMMA ReceiveTypes ==
  ASSUME TypeOK, dangling \subseteq entangled, Receive
  PROVE  TypeOK' /\ dangling' \subseteq entangled' /\ entangled \subseteq entangled'
<1>1. "master" \in End /\ "slave" \in End
  BY DEF End
<1>2. CASE ReceiveAtSlave
  <2>1. Head(wire["slave"]) \in Message /\ Tail(wire["slave"]) \in Seq(Message)
    BY <1>1, <1>2, Taken DEF ReceiveAtSlave, TypeOK
  <2>2. [Head(wire["slave"]) EXCEPT !.op = "ACK", !.value = None] \in Message
    BY <2>1 DEF Message
  <2>3. wire' \in [End -> Seq(Message)]
    <3>. DEFINE answer == [Head(wire["slave"]) EXCEPT !.op = "ACK", !.value = None]
    <3>1. wire' = [master |-> Append(wire["master"], answer), slave |-> Tail(wire["slave"])]
      BY <1>2 DEF ReceiveAtSlave
    <3>2. answer \in Message
      BY <2>2
    <3>. HIDE DEF answer
    <3>3. Append(wire["master"], answer) \in Seq(Message)
      BY <1>1, <3>2 DEF TypeOK
    <3>4. \A x, y \in Seq(Message) : [master |-> x, slave |-> y] \in [End -> Seq(Message)]
      BY DEF End
    <3>. QED
      BY <2>1, <3>1, <3>3, <3>4, Zenon
  <2>4. Apply("slave", Head(wire["slave"]))
    BY <1>2 DEF ReceiveAtSlave
  <2>. QED
    BY <1>1, <1>2, <2>1, <2>3, <2>4, AppliedTypes DEF ReceiveAtSlave, TypeOK
<1>3. CASE ReceivePut
  <2>1. Head(wire["master"]) \in Message /\ Tail(wire["master"]) \in Seq(Message)
    BY <1>1, <1>3, Taken DEF ReceivePut, TypeOK
  <2>2. wire' \in [End -> Seq(Message)]
    BY <1>1, <1>3, <2>1 DEF ReceivePut, TypeOK
  <2>3. Apply("master", Head(wire["master"])) \/ UNCHANGED <<map, dangling, entangled>>
    BY <1>3 DEF ReceivePut
  <2>. QED
    BY <1>1, <1>3, <2>1, <2>2, <2>3, AppliedTypes DEF ReceivePut, TypeOK
<1>4. CASE ReceiveAck
  <2>. DEFINE m == Head(wire["master"])
  <2>1. m \in Message /\ Tail(wire["master"]) \in Seq(Message) /\ m.key \in Key
    <3>1. wire["master"] \in Seq(Message) /\ wire["master"] # <<>>
      BY <1>1, <1>4 DEF ReceiveAck, TypeOK
    <3>2. m \in Message /\ Tail(wire["master"]) \in Seq(Message)
      BY <3>1, Taken
    <3>. QED
      BY <3>2 DEF Message
  <2>2. wire' \in [End -> Seq(Message)]
    BY <1>1, <1>4, <2>1 DEF ReceiveAck, TypeOK
  <2>3. /\ pendingForAck' = [pendingForAck EXCEPT ![m.key] = 0] \/ pendingForAck' = pendingForAck
        /\ dangling' = dangling \ {m.key} \/ dangling' = dangling
        /\ unpaired' = unpaired \cup {m.key} \/ unpaired' = unpaired
        /\ UNCHANGED <<map, next_version, changes, entangled>>
    BY <1>4 DEF ReceiveAck
  <2>. HIDE DEF m
  <2>4. pendingForAck' \in [Key -> Nat]
    BY <2>1, <2>3 DEF TypeOK
  <2>. QED
    BY <2>1, <2>2, <2>3, <2>4 DEF TypeOK
<1>. QED
  BY <1>2, <1>3, <1>4 DEF Receive

LEMMA ChangeKeeps ==
  ASSUME MapInv, NEW e \in End, LocalChange(e)
  PROVE  MapInv'
<1>1. TypeOK /\ changes' \in Nat /\ unpaired' = unpaired
  BY LocalChangeIs DEF MapInv
<1>2. PICK s \in Seq(Key), value \in Value \cup {None} : Changes(e, s, value)
  BY LocalChangeIs DEF MapInv
<1>3. map' \in [End -> [Key -> Value \cup {None}]] /\ wire' \in [End -> Seq(Message)]
  BY <1>1, <1>2, ChangesTypes
<1>4. CASE e = "master"
  <2>1. Changes("master", s, value)
    BY <1>2, <1>4
  <2>2. /\ next_version' \in Nat /\ pendingForAck' \in [Key -> Nat]
        /\ dangling' \in SUBSET Key /\ entangled' \in SUBSET Key
        /\ entangled \subseteq entangled' /\ dangling' \subseteq entangled'
    BY <1>1, <2>1, MasterNotes DEF MapInv
  <2>3. TypeOK'
    BY <1>1, <1>3, <2>2 DEF TypeOK
  <2>4. ASSUME NEW k \in Key \ entangled' PROVE Phase(k)'
    <3>1. Phase(k)
      BY <2>2, <2>4 DEF MapInv, Phase
    <3>. QED
      BY <1>1, <2>1, <3>1, MasterChanges
  <2>. QED
    BY <1>1, <2>2, <2>3, <2>4 DEF MapInv, Phase
<1>5. CASE e = "slave"
  <2>1. Changes("slave", s, value)
    BY <1>2, <1>5
  <2>2. UNCHANGED <<masterVars, entangled>>
    BY <2>1 DEF Changes, Announce
  <2>3. TypeOK'
    BY <1>1, <1>3, <2>2 DEF TypeOK, masterVars
  <2>4. ASSUME NEW k \in Key \ entangled' PROVE Phase(k)'
    <3>1. Phase(k)
      BY <2>2 DEF MapInv, Phase
    <3>. QED
      BY <1>1, <2>1, <3>1, SlaveChanges
  <2>. QED
    BY <1>1, <2>2, <2>3, <2>4 DEF MapInv, Phase, masterVars
<1>. QED
  BY <1>4, <1>5 DEF End

LEMMA ReceiveKeeps ==
  ASSUME MapInv, Receive
  PROVE  MapInv'
<1>1. /\ TypeOK /\ dangling \subseteq entangled /\ unpaired \subseteq entangled
      /\ \A k \in Key \ entangled : Phase(k)
  BY DEF MapInv, Phase
<1>2. TypeOK' /\ dangling' \subseteq entangled' /\ entangled \subseteq entangled'
  BY <1>1, ReceiveTypes
<1>3. ASSUME NEW k \in Key \ entangled'
      PROVE  Phase(k)' /\ (k \in unpaired' => k \in unpaired)
  <2>1. k \in Key /\ k \notin entangled /\ Phase(k)
    BY <1>1, <1>2
  <2>2. CASE ReceiveAtSlave
    BY <1>1, <2>1, <2>2, SlaveReceives DEF ReceiveAtSlave
  <2>3. CASE ReceivePut
    BY <1>1, <2>1, <2>3, MasterReceivesPut DEF ReceivePut
  <2>4. CASE ReceiveAck
    BY <1>1, <2>1, <2>4, MasterReceivesAck
  <2>. QED
    BY <2>2, <2>3, <2>4 DEF Receive
<1>4. unpaired' \subseteq entangled'
  <2>1. unpaired' \subseteq Key
    BY <1>2 DEF TypeOK
  <2>. QED
    BY <1>1, <1>2, <1>3, <2>1
<1>. QED
  BY <1>2, <1>3, <1>4 DEF MapInv, Phase

LEMMA MapStep == MapInv /\ [Next]_vars => MapInv'
<1>. SUFFICES ASSUME MapInv, [Next]_vars PROVE MapInv'
  OBVIOUS
<1>1. CASE Next
  BY <1>1, ChangeKeeps, ReceiveKeeps DEF Next
<1>2. CASE UNCHANGED vars
  BY <1>2 DEF vars, masterVars, MapInv, TypeOK, AtRest, Told, Answered
<1>. QED
  BY <1>1, <1>2

LEMMA MapAlways == Spec => []MapInv
BY MapInit, MapStep, PTL DEF Spec

-----------------------------------------------------------------------------
(* The map: theorems *)

\* The state keeps its types: the handlers of RdMap.h:89-242.
THEOREM MapTypeOK == Spec => []TypeOK
<1>1. MapInv => TypeOK
  BY DEF MapInv
<1>. QED
  BY <1>1, MapAlways, PTL

\* However the changes of the two ends cross, a key that is not entangled has
\* the same value at both ends once no message about it is under way.
THEOREM MapEndsAgree == Spec => []EndsAgree
<1>1. MapInv => EndsAgree
  <2>. SUFFICES ASSUME MapInv, NEW k \in Key \ entangled,
                       ~UnderWay("master", k), ~UnderWay("slave", k)
                PROVE  map["master"][k] = map["slave"][k]
    BY DEF EndsAgree
  <2>1. Silent(wire["master"], k) /\ Silent(wire["slave"], k)
    BY DEF UnderWay, Silent
  <2>2. AtRest(k)
    BY <2>1 DEF MapInv, Told, Answered, Tells, Acks, IsAck, Silent
  <2>. QED
    BY <2>1, <2>2 DEF AtRest, WillBe, Silent
<1>. QED
  BY <1>1, MapAlways, PTL

\* Only for an entangled key can an acknowledgement be one that nobody waits for.
THEOREM MapAcksArePaired == Spec => []AcksArePaired
<1>1. MapInv => AcksArePaired
  BY DEF MapInv, AcksArePaired
<1>. QED
  BY <1>1, MapAlways, PTL

\* While the master waits for a key that is not entangled, its message or the
\* answer to it is under way.
THEOREM MapWaitsForAnswer == Spec => []WaitsForAnswer
<1>1. MapInv => WaitsForAnswer
  <2>. SUFFICES ASSUME MapInv, NEW k \in Key \ entangled, pendingForAck[k] # 0
                PROVE  \/ \E i \in 1 .. Len(wire["slave"]) :
                            wire["slave"][i].key = k /\ wire["slave"][i].version = pendingForAck[k]
                       \/ \E i \in 1 .. Len(wire["master"]) :
                            LET m == wire["master"][i] IN
                            m.op = "ACK" /\ m.key = k /\ m.version = pendingForAck[k]
    BY DEF WaitsForAnswer
  <2>1. Told(k) \/ Answered(k)
    BY DEF MapInv, AtRest
  <2>. QED
    BY <2>1 DEF Told, Answered, Tells, Acks, IsAck
<1>. QED
  BY <1>1, MapAlways, PTL

-----------------------------------------------------------------------------
(* The broker: what is where *)

Entry(id) == broker[id].entry
Dsm(id) == broker[id].default_scheduler_messages
Csm(id) == broker[id].custom_scheduler_messages

\* The messages in s are for id.
For(id, s) == \A i \in 1 .. Len(s) : s[i] \in 1 .. Len(sent) /\ sent[s[i]] = id

Stages == {"pop", "deliver", "check", "take", "flush"}
Subscription == {Null, Absent} \cup 1 .. MaxEntities

SentOK == sent \in Seq(Id) /\ Len(sent) <= MaxMessages

SubscriptionsOK ==
  /\ subscriptions \in [Id -> Subscription] /\ entities \in 0 .. MaxEntities
  /\ \A id \in Id : subscriptions[id] <= entities

EntriesOK ==
  /\ broker \in [Id -> [entry : 0 .. MaxMessages, default_scheduler_messages : Seq(MessageNumber),
                        custom_scheduler_messages : Seq(MessageNumber)]]
  /\ \A id \in Id :
       /\ Entry(id) <= Len(sent) /\ For(id, Dsm(id)) /\ For(id, Csm(id))
       /\ id \notin CustomIds => Csm(id) = <<>>

DispatchOK ==
  /\ dispatching \in [message : 0 .. MaxMessages, subscription : Subscription, entry : 0 .. MaxMessages]
  /\ dispatching.message # 0 =>
       /\ dispatching.message = Len(sent)
       /\ dispatching.entry <= dispatching.message
       /\ dispatching.subscription <= entities
       /\ ~IsEntity(dispatching.subscription) => dispatching.entry # 0

ActionOK ==
  /\ \/ action = Idle
     \/ action \in [at : Stages, id : Id, entry : 1 .. MaxMessages, subscription : Subscription,
                    message : 0 .. MaxMessages, taken : Seq(MessageNumber)]
  /\ action.entry <= Len(sent) /\ action.subscription <= entities
  /\ action.message # 0 =>
       action.at = "deliver" /\ action.message <= Len(sent) /\ sent[action.message] = action.id
  /\ action.taken # <<>> => action.at = "flush"
  /\ For(action.id, action.taken)

\* t hands a message for its id to an entity.
Hands(t) == t.message \in 1 .. Len(sent) /\ sent[t.message] = t.id /\ t.that \in 1 .. entities

DefaultTask(t) ==
  /\ t.op = "deferred" => t.message = 0 /\ t.entry \in 1 .. Len(sent)
  /\ t.op = "invoke" => t.id \in DefaultIds /\ Hands(t)

CustomTask(t) == t.op = "invoke" /\ t.id \notin DefaultIds /\ Hands(t)

TasksOK ==
  /\ defaultQueue \in Seq(Task) /\ \A i \in 1 .. Len(defaultQueue) : DefaultTask(defaultQueue[i])
  /\ customQueue \in Seq(Task) /\ \A i \in 1 .. Len(customQueue) : CustomTask(customQueue[i])

ResultsOK ==
  /\ executed \in Seq(MessageNumber) /\ \A i \in 1 .. Len(executed) : executed[i] <= Len(sent)
  /\ dropped \subseteq 1 .. Len(sent) /\ astray \subseteq 1 .. Len(sent)

HistoryOK == crashed \in BOOLEAN /\ raced \subseteq Id /\ abandoned \subseteq CustomIds

TypeInv ==
  /\ SentOK /\ SubscriptionsOK /\ EntriesOK /\ DispatchOK
  /\ ActionOK /\ TasksOK /\ ResultsOK /\ HistoryOK

LEMMA TypeInvTypes == TypeInv => BrokerTypeOK
<1>. SUFFICES ASSUME TypeInv PROVE BrokerTypeOK
  OBVIOUS
<1>0. Len(sent) \in 0 .. MaxMessages
  BY BrokerAssumption DEF TypeInv, SentOK
<1>1. /\ sent \in Seq(Id) /\ Len(sent) <= MaxMessages
      /\ subscriptions \in [Id -> {Null, Absent} \cup 1 .. MaxEntities]
  BY DEF TypeInv, SentOK, SubscriptionsOK, Subscription
<1>2. /\ broker \in [Id -> [entry : 0 .. MaxMessages, default_scheduler_messages : Seq(MessageNumber),
                            custom_scheduler_messages : Seq(MessageNumber)]]
      /\ \A id \in Id \ CustomIds : broker[id].custom_scheduler_messages = <<>>
  BY DEF TypeInv, EntriesOK, Csm
<1>3. dispatching.message \in 0 .. Len(sent)
  BY <1>0 DEF TypeInv, DispatchOK
<1>4. /\ action.at \in {"idle", "pop", "deliver", "check", "take", "flush"}
      /\ action.message \in 0 .. Len(sent) /\ action.taken \in Seq(MessageNumber)
  <2>1. CASE action = Idle
    BY <1>0, <2>1 DEF Idle
  <2>2. CASE action # Idle
    BY <1>0, <2>2 DEF TypeInv, ActionOK, Stages
  <2>. QED
    BY <2>1, <2>2
<1>5. /\ defaultQueue \in Seq(Task) /\ customQueue \in Seq(Task)
      /\ \A i \in 1 .. Len(customQueue) : customQueue[i].op = "invoke"
  BY DEF TypeInv, TasksOK, CustomTask
<1>6. executed \in Seq(MessageNumber) /\ dropped \in SUBSET MessageNumber /\ astray \in SUBSET MessageNumber
  BY <1>0, BrokerAssumption DEF TypeInv, ResultsOK, MessageNumber
<1>7. crashed \in BOOLEAN /\ raced \in SUBSET Id /\ abandoned \in SUBSET CustomIds
  BY Zenon DEF TypeInv, HistoryOK
<1>. QED
  BY <1>1, <1>2, <1>3, <1>4, <1>5, <1>6, <1>7 DEF BrokerTypeOK

LEMMA TypeInit == BrokerInit => TypeInv
<1>. SUFFICES ASSUME BrokerInit PROVE TypeInv
  OBVIOUS
<1>1. SentOK /\ SubscriptionsOK
  BY BrokerAssumption DEF BrokerInit, SentOK, SubscriptionsOK, Subscription, Absent, Null
<1>2. EntriesOK
  BY BrokerAssumption DEF BrokerInit, EntriesOK, NoEntry, Entry, Dsm, Csm, For
<1>3. DispatchOK
  BY BrokerAssumption DEF BrokerInit, DispatchOK, NoDispatch, Subscription, Absent, Null
<1>4. ActionOK
  BY DEF BrokerInit, ActionOK, Idle, For, Absent
<1>5. TasksOK /\ ResultsOK
  BY DEF BrokerInit, TasksOK, ResultsOK
<1>6. HistoryOK
  BY Zenon DEF BrokerInit, HistoryOK
<1>. QED
  BY <1>1, <1>2, <1>3, <1>4, <1>5, <1>6 DEF TypeInv

-----------------------------------------------------------------------------
(* What a step leaves alone *)

\* No message and no entity is forgotten.
Grows ==
  /\ Len(sent) \in Nat /\ Len(sent)' \in Nat /\ Len(sent) <= Len(sent)'
  /\ \A n \in 1 .. Len(sent) : n \in 1 .. Len(sent)' /\ sent'[n] = sent[n]
  /\ entities \in Nat /\ entities' \in Nat /\ entities <= entities'

LEMMA Stays ==
  ASSUME TypeInv, UNCHANGED <<sent, entities>>
  PROVE  Grows
BY BrokerAssumption DEF TypeInv, SentOK, SubscriptionsOK, Grows

LEMMA ForGrows ==
  ASSUME Grows, NEW id, NEW s, For(id, s)
  PROVE  \A i \in 1 .. Len(s) : s[i] \in 1 .. Len(sent)' /\ sent'[s[i]] = id
BY DEF Grows, For

LEMMA EntriesStay ==
  ASSUME TypeInv, Grows, UNCHANGED broker
  PROVE  EntriesOK'
<1>1. ASSUME NEW id \in Id
      PROVE  /\ broker[id].entry <= Len(sent)'
             /\ For(id, Dsm(id))' /\ For(id, Csm(id))'
             /\ id \notin CustomIds => broker[id].custom_scheduler_messages = <<>>
  <2>1. For(id, Dsm(id)) /\ For(id, Csm(id))
    BY DEF TypeInv, EntriesOK
  <2>2. For(id, Dsm(id))' /\ For(id, Csm(id))'
    BY <2>1, ForGrows DEF For, Dsm, Csm
  <2>3. broker[id].entry \in 0 .. MaxMessages /\ broker[id].entry <= Len(sent)
    BY DEF TypeInv, EntriesOK, Entry
  <2>4. broker[id].entry <= Len(sent)'
    BY <2>3, BrokerAssumption DEF Grows
  <2>. QED
    BY <2>2, <2>4 DEF TypeInv, EntriesOK, Csm
<1>. QED
  BY <1>1 DEF TypeInv, EntriesOK, Entry, Csm

LEMMA DispatchStays ==
  ASSUME TypeInv, Grows, UNCHANGED <<sent, dispatching>>
  PROVE  DispatchOK'
<1>1. dispatching.subscription \in Int
  BY BrokerAssumption DEF TypeInv, DispatchOK, Subscription, Null, Absent
<1>. QED
  BY <1>1 DEF TypeInv, DispatchOK, Grows

LEMMA ActionTypes ==
  ASSUME TypeInv
  PROVE  /\ action.entry \in 0 .. MaxMessages /\ action.subscription \in Subscription
         /\ action.message \in 0 .. MaxMessages /\ action.taken \in Seq(MessageNumber)
         /\ action.at # "idle" => action.id \in Id /\ action # Idle
         /\ action # Idle => action.at \in Stages
<1>1. CASE action = Idle
  BY <1>1, BrokerAssumption DEF Idle, Subscription
<1>2. CASE action # Idle
  BY <1>2 DEF TypeInv, ActionOK, Idle, Stages
<1>. QED
  BY <1>1, <1>2

LEMMA ActionStays ==
  ASSUME TypeInv, Grows, UNCHANGED action
  PROVE  ActionOK'
<1>1. action.subscription \in Int /\ action.entry \in Int
  BY ActionTypes, BrokerAssumption DEF Subscription, Null, Absent
<1>2. action.entry <= Len(sent)' /\ action.subscription <= entities'
  BY <1>1 DEF TypeInv, ActionOK, Grows
<1>3. For(action.id, action.taken)'
  <2>1. For(action.id, action.taken)
    BY DEF TypeInv, ActionOK
  <2>2. \A i \in 1 .. Len(action.taken) :
          action.taken[i] \in 1 .. Len(sent)' /\ sent'[action.taken[i]] = action.id
    BY <2>1, ForGrows
  <2>. QED
    BY <2>2 DEF For
<1>4. action.message # 0 =>
        action.at = "deliver" /\ action.message <= Len(sent)' /\ sent'[action.message] = action.id
  BY ActionTypes DEF TypeInv, ActionOK, Grows
<1>. QED
  BY <1>2, <1>3, <1>4 DEF TypeInv, ActionOK

LEMMA TaskGrows ==
  ASSUME Grows, NEW t
  PROVE  (DefaultTask(t) => DefaultTask(t)') /\ (CustomTask(t) => CustomTask(t)')
<1>1. Hands(t) => Hands(t)'
  BY DEF Hands, Grows
<1>2. t.entry \in 1 .. Len(sent) => t.entry \in 1 .. Len(sent)'
  BY DEF Grows
<1>. QED
  BY <1>1, <1>2 DEF DefaultTask, CustomTask

LEMMA ResultsStay ==
  ASSUME TypeInv, Grows, UNCHANGED results
  PROVE  ResultsOK'
<1>1. \A i \in 1 .. Len(executed) : executed[i] \in MessageNumber
  BY DEF TypeInv, ResultsOK
<1>2. \A i \in 1 .. Len(executed) : executed[i] \in Nat
  BY <1>1 DEF MessageNumber
<1>. QED
  BY <1>2 DEF TypeInv, ResultsOK, Grows, results

-----------------------------------------------------------------------------
(* Sequences that grow *)

\* invoke of one message queues one task.
LEMMA InvokeIs ==
  ASSUME defaultQueue \in Seq(Task), customQueue \in Seq(Task),
         NEW id \in Id, NEW that \in 0 .. MaxEntities, NEW n \in 0 .. MaxMessages, MaxMessages \in Nat,
         Invoke(id, that, <<n>>)
  PROVE  /\ Invocation(id, that, n) \in Task
         /\ id \in DefaultIds =>
              /\ defaultQueue' = Append(defaultQueue, Invocation(id, that, n))
              /\ customQueue' = customQueue
         /\ id \notin DefaultIds =>
              /\ customQueue' = Append(customQueue, Invocation(id, that, n))
              /\ defaultQueue' = defaultQueue
<1>. DEFINE t == Invocation(id, that, n)
            s == [i \in 1 .. Len(<<n>>) |-> Invocation(id, that, <<n>>[i])]
<1>1. t \in Task
  BY DEF Invocation, Task
<1>2. s = <<t>>
  <2>1. Len(<<n>>) = 1 /\ <<n>>[1] = n
    OBVIOUS
  <2>2. s = [i \in 1 .. 1 |-> t]
    BY <2>1
  <2>. QED
    BY <2>2
<1>3. id \in DefaultIds => defaultQueue' = defaultQueue \o s /\ customQueue' = customQueue
  BY DEF Invoke
<1>4. id \notin DefaultIds => customQueue' = customQueue \o s /\ defaultQueue' = defaultQueue
  BY DEF Invoke
<1>. HIDE DEF t, s
<1>5. defaultQueue \o s = Append(defaultQueue, t) /\ customQueue \o s = Append(customQueue, t)
  BY <1>1, <1>2
<1>. QED
  BY <1>1, <1>3, <1>4, <1>5 DEF t

LEMMA EntryTypes ==
  ASSUME TypeInv, NEW id \in Id
  PROVE  /\ Entry(id) \in 0 .. MaxMessages /\ Entry(id) <= Len(sent)
         /\ Dsm(id) \in Seq(MessageNumber) /\ Csm(id) \in Seq(MessageNumber)
         /\ For(id, Dsm(id)) /\ For(id, Csm(id)) /\ (id \notin CustomIds => Csm(id) = <<>>)
         /\ broker[id] = [entry |-> Entry(id), default_scheduler_messages |-> Dsm(id),
                          custom_scheduler_messages |-> Csm(id)]
BY DEF TypeInv, EntriesOK, Entry, Dsm, Csm

\* Queues of which every task was there before, or is a new one.
LEMMA TasksFrom ==
  ASSUME TypeInv, Grows, defaultQueue' \in Seq(Task), customQueue' \in Seq(Task),
         \A i \in 1 .. Len(defaultQueue') :
           \/ DefaultTask(defaultQueue[i])'
           \/ \E j \in 1 .. Len(defaultQueue) : defaultQueue'[i] = defaultQueue[j],
         \A i \in 1 .. Len(customQueue') :
           \/ CustomTask(customQueue[i])'
           \/ \E j \in 1 .. Len(customQueue) : customQueue'[i] = customQueue[j]
  PROVE  TasksOK'
<1>1. ASSUME NEW i \in 1 .. Len(defaultQueue'), NEW j \in 1 .. Len(defaultQueue),
             defaultQueue'[i] = defaultQueue[j]
      PROVE  DefaultTask(defaultQueue[i])'
  <2>1. defaultQueue[j] \in Task /\ DefaultTask(defaultQueue[j])
    BY DEF TypeInv, TasksOK
  <2>2. PICK t \in Task : t = defaultQueue[j]
    BY <2>1
  <2>3. DefaultTask(t)'
    BY <2>1, <2>2, TaskGrows, Zenon
  <2>. QED
    BY <1>1, <2>2, <2>3 DEF DefaultTask, Hands
<1>2. ASSUME NEW i \in 1 .. Len(customQueue'), NEW j \in 1 .. Len(customQueue),
             customQueue'[i] = customQueue[j]
      PROVE  CustomTask(customQueue[i])'
  <2>1. customQueue[j] \in Task /\ CustomTask(customQueue[j])
    BY DEF TypeInv, TasksOK
  <2>2. PICK t \in Task : t = customQueue[j]
    BY <2>1
  <2>3. CustomTask(t)'
    BY <2>1, <2>2, TaskGrows, Zenon
  <2>. QED
    BY <1>2, <2>2, <2>3 DEF CustomTask, Hands
<1>. QED
  BY <1>1, <1>2 DEF TasksOK

LEMMA TasksStay ==
  ASSUME TypeInv, Grows, UNCHANGED <<defaultQueue, customQueue>>
  PROVE  TasksOK'
<1>1. /\ defaultQueue' \in Seq(Task) /\ customQueue' \in Seq(Task)
      /\ \A i \in 1 .. Len(defaultQueue') : \E j \in 1 .. Len(defaultQueue) : defaultQueue'[i] = defaultQueue[j]
      /\ \A i \in 1 .. Len(customQueue') : \E j \in 1 .. Len(customQueue) : customQueue'[i] = customQueue[j]
  BY DEF TypeInv, TasksOK
<1>. QED
  BY <1>1, TasksFrom

\* A task that is added is a task.
LEMMA TasksDefault ==
  ASSUME TypeInv, Grows, NEW t \in Task, DefaultTask(t)', defaultQueue' = Append(defaultQueue, t),
         customQueue' = customQueue
  PROVE  TasksOK'
<1>1. defaultQueue \in Seq(Task) /\ customQueue \in Seq(Task)
  BY DEF TypeInv, TasksOK
<1>2. \A i \in 1 .. Len(defaultQueue') :
        \/ defaultQueue'[i] = t
        \/ \E j \in 1 .. Len(defaultQueue) : defaultQueue'[i] = defaultQueue[j]
  BY <1>1, Appended
<1>3. \A i \in 1 .. Len(defaultQueue') : defaultQueue'[i] = t => DefaultTask(defaultQueue[i])'
  BY DEF DefaultTask, Hands
<1>4. defaultQueue' \in Seq(Task) /\ customQueue' \in Seq(Task)
  BY <1>1, Appended
<1>. QED
  BY <1>2, <1>3, <1>4, TasksFrom

LEMMA TasksCustom ==
  ASSUME TypeInv, Grows, NEW t \in Task, CustomTask(t)', customQueue' = Append(customQueue, t),
         defaultQueue' = defaultQueue
  PROVE  TasksOK'
<1>1. defaultQueue \in Seq(Task) /\ customQueue \in Seq(Task)
  BY DEF TypeInv, TasksOK
<1>2. \A i \in 1 .. Len(customQueue') :
        \/ customQueue'[i] = t
        \/ \E j \in 1 .. Len(customQueue) : customQueue'[i] = customQueue[j]
  BY <1>1, Appended
<1>3. \A i \in 1 .. Len(customQueue') : customQueue'[i] = t => CustomTask(customQueue[i])'
  BY DEF CustomTask, Hands
<1>4. defaultQueue' \in Seq(Task) /\ customQueue' \in Seq(Task)
  BY <1>1, Appended
<1>. QED
  BY <1>2, <1>3, <1>4, TasksFrom

\* And a task that is taken leaves tasks behind.
LEMMA TasksShrink ==
  ASSUME TypeInv, Grows,
         \/ defaultQueue # <<>> /\ defaultQueue' = Tail(defaultQueue) /\ customQueue' = customQueue
         \/ customQueue # <<>> /\ customQueue' = Tail(customQueue) /\ defaultQueue' = defaultQueue
  PROVE  TasksOK'
<1>1. defaultQueue \in Seq(Task) /\ customQueue \in Seq(Task)
  BY DEF TypeInv, TasksOK
<1>2. defaultQueue' \in Seq(Task) /\ customQueue' \in Seq(Task)
  BY <1>1, Taken
<1>3. ASSUME NEW q \in Seq(Task), NEW r \in Seq(Task), r = q \/ (q # <<>> /\ r = Tail(q))
      PROVE  \A i \in 1 .. Len(r) : \E j \in 1 .. Len(q) : r[i] = q[j]
  <2>1. CASE r = q
    BY <2>1
  <2>2. CASE q # <<>> /\ r = Tail(q)
    BY <2>2, Taken
  <2>. QED
    BY <1>3, <2>1, <2>2
<1>4. /\ \A i \in 1 .. Len(defaultQueue') : \E j \in 1 .. Len(defaultQueue) : defaultQueue'[i] = defaultQueue[j]
      /\ \A i \in 1 .. Len(customQueue') : \E j \in 1 .. Len(customQueue) : customQueue'[i] = customQueue[j]
  BY <1>1, <1>2, <1>3
<1>. QED
  BY <1>2, <1>4, TasksFrom

-----------------------------------------------------------------------------
(* Dispatch *)

LEMMA DispatchIs ==
  ASSUME TypeInv, NEW id \in Id, Dispatch(id)
  PROVE  /\ sent' = Append(sent, id) /\ Grows /\ Len(sent)' = Len(sent) + 1 /\ sent'[Len(sent) + 1] = id
         /\ Len(sent) + 1 \in MessageNumber
         /\ broker' = [broker EXCEPT ![id] = [@ EXCEPT !.entry =
              IF Entry(id) = 0 /\ ~IsEntity(subscriptions[id]) THEN Len(sent) + 1 ELSE Entry(id)]]
         /\ \A x \in Id : /\ x # id => Entry(x)' = Entry(x)
                          /\ Dsm(x)' = Dsm(x) /\ Csm(x)' = Csm(x)
         /\ Entry(id)' = IF Entry(id) = 0 /\ ~IsEntity(subscriptions[id]) THEN Len(sent) + 1 ELSE Entry(id)
         /\ dispatching.message = 0
         /\ dispatching' = [message |-> Len(sent) + 1, subscription |-> subscriptions[id], entry |-> Entry(id)']
         /\ subscriptions'[id] = IF subscriptions[id] = Absent THEN Null ELSE subscriptions[id]
         /\ \A x \in Id : x # id => subscriptions'[x] = subscriptions[x]
         /\ UNCHANGED <<action, queues, entities, results, crashed, history>>
<1>. DEFINE n == Len(sent) + 1
            e == IF Entry(id) = 0 /\ ~IsEntity(subscriptions[id]) THEN n ELSE Entry(id)
<1>1. /\ sent' = Append(sent, id)
      /\ broker' = [broker EXCEPT ![id].entry = e]
      /\ dispatching' = [message |-> n, subscription |-> subscriptions[id], entry |-> e]
      /\ Lookup(id) /\ dispatching.message = 0
      /\ UNCHANGED <<action, queues, entities, results, crashed, history>>
      /\ Len(sent) < MaxMessages
  BY DEF Dispatch, Entry
<1>2. Grows /\ Len(sent)' = n /\ sent'[n] = id /\ n \in MessageNumber
  <2>1. sent \in Seq(Id) /\ entities \in Nat /\ entities' = entities
    BY <1>1 DEF TypeInv, SentOK, SubscriptionsOK
  <2>. QED
    BY <1>1, <2>1, Appended, BrokerAssumption DEF Grows, MessageNumber
<1>. HIDE DEF e
<1>3. /\ \A x \in Id : /\ x # id => Entry(x)' = Entry(x)
                       /\ Dsm(x)' = Dsm(x) /\ Csm(x)' = Csm(x)
      /\ Entry(id)' = e
  BY <1>1 DEF TypeInv, EntriesOK, Entry, Dsm, Csm
<1>4. /\ subscriptions'[id] = IF subscriptions[id] = Absent THEN Null ELSE subscriptions[id]
      /\ \A x \in Id : x # id => subscriptions'[x] = subscriptions[x]
  BY <1>1 DEF Lookup, TypeInv, SubscriptionsOK
<1>. QED
  BY <1>1, <1>2, <1>3, <1>4 DEF e

LEMMA LookupTypes ==
  ASSUME TypeInv, NEW id \in Id, Lookup(id), entities' = entities
  PROVE  SubscriptionsOK'
<1>1. subscriptions'[id] \in {Null, subscriptions[id]} /\ Null <= entities
  BY DEF TypeInv, SubscriptionsOK, Lookup, Null
<1>2. \A x \in Id : x # id => subscriptions'[x] = subscriptions[x]
  BY DEF TypeInv, SubscriptionsOK, Lookup
<1>3. subscriptions' \in [Id -> Subscription]
  BY <1>1, <1>2 DEF TypeInv, SubscriptionsOK, Lookup, Subscription
<1>. QED
  BY <1>1, <1>2, <1>3 DEF TypeInv, SubscriptionsOK

LEMMA DispatchTypes ==
  ASSUME TypeInv, NEW id \in Id, Dispatch(id)
  PROVE  TypeInv'
<1>1. SentOK'
  BY DispatchIs DEF SentOK, TypeInv, MessageNumber
<1>2. SubscriptionsOK'
  BY LookupTypes DEF Dispatch
<1>3. EntriesOK'
  <2>1. ASSUME NEW x \in Id
        PROVE /\ Entry(x)' \in 0 .. MaxMessages /\ Entry(x)' <= Len(sent)'
              /\ For(x, Dsm(x))' /\ For(x, Csm(x))'
              /\ x \notin CustomIds => Csm(x)' = <<>>
    <3>1. Entry(x) \in 0 .. MaxMessages /\ Entry(x) <= Len(sent) /\ Len(sent) + 1 \in 0 .. MaxMessages
      <4>1. Entry(x) \in 0 .. MaxMessages /\ Entry(x) <= Len(sent)
        BY EntryTypes
      <4>2. Len(sent) + 1 \in MessageNumber
        BY DispatchIs
      <4>. QED
        BY <4>1, <4>2, BrokerAssumption DEF MessageNumber
    <3>2. Entry(x)' \in {Entry(x), Len(sent) + 1} /\ Len(sent)' = Len(sent) + 1 /\ Len(sent) \in Nat
      BY DispatchIs DEF Grows
    <3>3. Entry(x)' \in 0 .. MaxMessages /\ Entry(x)' <= Len(sent)'
      BY <3>1, <3>2
    <3>4. For(x, Dsm(x)) /\ For(x, Csm(x)) /\ Dsm(x)' = Dsm(x) /\ Csm(x)' = Csm(x) /\ Grows
      BY EntryTypes, DispatchIs
    <3>5. For(x, Dsm(x))' /\ For(x, Csm(x))'
      <4>1. /\ \A i \in 1 .. Len(Dsm(x)) : Dsm(x)[i] \in 1 .. Len(sent)' /\ sent'[Dsm(x)[i]] = x
            /\ \A i \in 1 .. Len(Csm(x)) : Csm(x)[i] \in 1 .. Len(sent)' /\ sent'[Csm(x)[i]] = x
        BY <3>4, ForGrows
      <4>. QED
        BY <3>4, <4>1 DEF For
    <3>. QED
      BY <3>3, <3>4, <3>5, EntryTypes
  <2>2. broker' \in [Id -> [entry : 0 .. MaxMessages, default_scheduler_messages : Seq(MessageNumber),
                        custom_scheduler_messages : Seq(MessageNumber)]]
    <3>1. Entry(id)' \in 0 .. MaxMessages /\ broker' = [broker EXCEPT ![id] = [@ EXCEPT !.entry = Entry(id)']]
      BY <2>1, DispatchIs
    <3>. HIDE DEF Entry
    <3>. QED
      BY <3>1 DEF TypeInv, EntriesOK
  <2>. QED
    BY <2>1, <2>2 DEF EntriesOK
<1>4. DispatchOK'
  <2>1. /\ Entry(id)' \in 0 .. MaxMessages /\ Entry(id)' <= Len(sent)'
        /\ Len(sent)' = Len(sent) + 1 /\ Len(sent) + 1 \in MessageNumber
    BY <1>3, EntryTypes, DispatchIs DEF EntriesOK, Entry
  <2>2. subscriptions[id] \in Subscription /\ subscriptions[id] <= entities /\ entities' = entities
    BY DispatchIs DEF TypeInv, SubscriptionsOK
  <2>3. ~IsEntity(subscriptions[id]) => Entry(id)' # 0
    BY <2>1, DispatchIs DEF MessageNumber
  <2>4. dispatching' = [message |-> Len(sent) + 1, subscription |-> subscriptions[id], entry |-> Entry(id)']
    BY DispatchIs
  <2>. HIDE DEF Entry
  <2>. QED
    BY <2>1, <2>2, <2>3, <2>4, BrokerAssumption DEF DispatchOK, MessageNumber
<1>5. ActionOK' /\ TasksOK' /\ ResultsOK'
  BY DispatchIs, ActionStays, TasksStay, ResultsStay DEF queues, results
<1>6. HistoryOK'
  BY DispatchIs, Zenon DEF TypeInv, HistoryOK, history
<1>. QED
  BY <1>1, <1>2, <1>3, <1>4, <1>5, <1>6 DEF TypeInv

-----------------------------------------------------------------------------
(* Put: the message is deferred, held back or handed on *)

\* The id of the message that is dispatched.
Target == sent[dispatching.message]

PutDefers == Put /\ ~IsEntity(dispatching.subscription)
PutHolds == Put /\ IsEntity(dispatching.subscription) /\ Target \in CustomIds /\ dispatching.entry # 0
PutInvokes == Put /\ IsEntity(dispatching.subscription) /\ ~(Target \in CustomIds /\ dispatching.entry # 0)

LEMMA PutIs ==
  ASSUME TypeInv, NEW id, id = Target, Put
  PROVE  /\ dispatching.message = Len(sent) /\ dispatching.message \in MessageNumber
         /\ dispatching.message # 0 /\ dispatching.message \in 1 .. Len(sent)
         /\ id \in Id /\ dispatching.subscription <= entities /\ dispatching.subscription \in Subscription
         /\ dispatching.entry \in 0 .. MaxMessages /\ dispatching.entry <= Len(sent)
         /\ ~IsEntity(dispatching.subscription) => dispatching.entry # 0
         /\ dispatching' = NoDispatch /\ raced' = IF Closing(id) THEN raced \cup {id} ELSE raced
         /\ UNCHANGED <<sent, subscriptions, action, entities, results, abandoned>>
         /\ Grows
<1>1. /\ dispatching.message # 0
      /\ dispatching' = NoDispatch /\ raced' = IF Closing(id) THEN raced \cup {id} ELSE raced
      /\ UNCHANGED <<sent, subscriptions, action, entities, results, abandoned>>
  BY DEF Put, Target
<1>2. /\ dispatching.message \in 0 .. MaxMessages /\ dispatching.message = Len(sent)
      /\ dispatching.subscription <= entities /\ dispatching.subscription \in Subscription
      /\ dispatching.entry \in 0 .. MaxMessages /\ dispatching.entry <= Len(sent)
      /\ ~IsEntity(dispatching.subscription) => dispatching.entry # 0
  BY <1>1 DEF TypeInv, DispatchOK
<1>3. dispatching.message \in MessageNumber /\ dispatching.message \in 1 .. Len(sent)
  BY <1>1, <1>2, BrokerAssumption DEF MessageNumber
<1>4. id \in Id
  BY <1>3 DEF Target, TypeInv, SentOK
<1>. QED
  BY <1>1, <1>2, <1>3, <1>4, Stays

LEMMA BrokerWith ==
  ASSUME TypeInv, NEW id \in Id, NEW r, broker' = [broker EXCEPT ![id] = r]
  PROVE  broker'[id] = r /\ \A x \in Id : x # id => broker'[x] = broker[x]
BY DEF TypeInv, EntriesOK

LEMMA DefersIs ==
  ASSUME TypeInv, NEW id, id = Target, PutDefers
  PROVE  /\ Put /\ id \in Id
         /\ \A x \in Id : /\ x # id => Entry(x)' = Entry(x) /\ Dsm(x)' = Dsm(x)
                          /\ Csm(x)' = Csm(x)
         /\ Entry(id)' = IF Entry(id) = 0 THEN dispatching.message ELSE Entry(id)
         /\ Dsm(id)' = Append(Dsm(id), dispatching.message)
         /\ Deferred(id, dispatching.entry) \in Task
         /\ defaultQueue' = Append(defaultQueue, Deferred(id, dispatching.entry))
         /\ customQueue' = customQueue /\ crashed' = crashed
         /\ broker' = [broker EXCEPT ![id] = [broker[id] EXCEPT
                         !.entry = Entry(id)', !.default_scheduler_messages = Dsm(id)']]
<1>1. Put /\ Defer(id)
  BY DEF PutDefers, Put, Target
<1>2. id \in Id /\ dispatching.entry \in 0 .. MaxMessages
  BY <1>1, PutIs
<1>3. /\ \A x \in Id : /\ x # id => Entry(x)' = Entry(x) /\ Dsm(x)' = Dsm(x)
                       /\ Csm(x)' = Csm(x)
      /\ Entry(id)' = IF Entry(id) = 0 THEN dispatching.message ELSE Entry(id)
      /\ Dsm(id)' = Append(Dsm(id), dispatching.message)
      /\ broker' = [broker EXCEPT ![id] = [broker[id] EXCEPT
                      !.entry = Entry(id)', !.default_scheduler_messages = Dsm(id)']]
  <2>. DEFINE e == IF Entry(id) = 0 THEN dispatching.message ELSE Entry(id)
              d == Append(Dsm(id), dispatching.message)
  <2>1. broker' = [broker EXCEPT ![id] = [broker[id] EXCEPT
                      !.entry = e, !.default_scheduler_messages = d]]
    BY <1>1 DEF Defer, Entry, Dsm
  <2>. HIDE DEF e, d
  <2>2. /\ \A x \in Id : /\ x # id => Entry(x)' = Entry(x) /\ Dsm(x)' = Dsm(x)
                         /\ Csm(x)' = Csm(x)
        /\ Entry(id)' = e /\ Dsm(id)' = d
    <3>1. /\ broker'[id] = [broker[id] EXCEPT !.entry = e, !.default_scheduler_messages = d]
          /\ \A x \in Id : x # id => broker'[x] = broker[x]
      BY <1>2, <2>1, BrokerWith
    <3>2. broker[id] \in [entry : 0 .. MaxMessages, default_scheduler_messages : Seq(MessageNumber),
                              custom_scheduler_messages : Seq(MessageNumber)]
      BY <1>2 DEF TypeInv, EntriesOK
    <3>3. /\ broker'[id].entry = e /\ broker'[id].default_scheduler_messages = d
          /\ broker'[id].custom_scheduler_messages = broker[id].custom_scheduler_messages
      BY <3>1, <3>2
    <3>. QED
      BY <3>1, <3>3 DEF Entry, Dsm, Csm
  <2>. QED
    BY <2>1, <2>2 DEF e, d
<1>4. Deferred(id, dispatching.entry) \in Task
  BY <1>2, BrokerAssumption DEF Deferred, Task
<1>5. /\ defaultQueue' = Append(defaultQueue, Deferred(id, dispatching.entry))
      /\ customQueue' = customQueue /\ crashed' = crashed
  BY <1>1 DEF Defer
<1>. QED
  BY <1>1, <1>2, <1>3, <1>4, <1>5

LEMMA HoldsIs ==
  ASSUME TypeInv, NEW id, id = Target, PutHolds
  PROVE  /\ Put /\ id \in Id
         /\ \A x \in Id : /\ Entry(x)' = Entry(x) /\ Dsm(x)' = Dsm(x)
                          /\ x # id => Csm(x)' = Csm(x)
         /\ Csm(id)' = Append(Csm(id), dispatching.message)
         /\ defaultQueue' = defaultQueue /\ customQueue' = customQueue
         /\ crashed' = (Entry(id) # dispatching.entry)
         /\ broker' = [broker EXCEPT ![id] = [broker[id] EXCEPT
                         !.custom_scheduler_messages = Csm(id)']]
<1>1. Put /\ Hand(id) /\ id \in CustomIds /\ dispatching.entry # 0
  BY DEF PutHolds, Put, Target
<1>2. id \in Id
  BY <1>1, PutIs
<1>3. crashed' = (broker[id].entry # dispatching.entry)
  BY <1>1 DEF Hand
<1>4. crashed' = (Entry(id) # dispatching.entry)
  BY <1>3, Zenon DEF Entry
<1>5. /\ broker' = [broker EXCEPT ![id] = [broker[id] EXCEPT
                      !.custom_scheduler_messages = Append(Csm(id), dispatching.message)]]
      /\ defaultQueue' = defaultQueue /\ customQueue' = customQueue
  BY <1>1 DEF Hand, Csm, queues
<1>6. /\ \A x \in Id : /\ Entry(x)' = Entry(x) /\ Dsm(x)' = Dsm(x)
                       /\ x # id => Csm(x)' = Csm(x)
      /\ Csm(id)' = Append(Csm(id), dispatching.message)
  <2>. DEFINE c == Append(Csm(id), dispatching.message)
  <2>. HIDE DEF c
  <2>1. /\ broker'[id] = [broker[id] EXCEPT !.custom_scheduler_messages = c]
        /\ \A x \in Id : x # id => broker'[x] = broker[x]
    BY <1>2, <1>5, BrokerWith DEF c
  <2>2. broker[id] \in [entry : 0 .. MaxMessages, default_scheduler_messages : Seq(MessageNumber),
                            custom_scheduler_messages : Seq(MessageNumber)]
    BY <1>2 DEF TypeInv, EntriesOK
  <2>3. /\ broker'[id].custom_scheduler_messages = c
        /\ broker'[id].entry = broker[id].entry
        /\ broker'[id].default_scheduler_messages = broker[id].default_scheduler_messages
    BY <2>1, <2>2
  <2>. QED
    BY <2>1, <2>3 DEF Entry, Dsm, Csm, c
<1>7. broker' = [broker EXCEPT ![id] = [broker[id] EXCEPT
                         !.custom_scheduler_messages = Csm(id)']]
  BY <1>5, <1>6
<1>. QED
  BY <1>1, <1>2, <1>4, <1>5, <1>6, <1>7, Zenon

LEMMA InvokesIs ==
  ASSUME TypeInv, NEW id, id = Target, PutInvokes
  PROVE  /\ Put /\ id \in Id /\ broker' = broker /\ crashed' = crashed
         /\ dispatching.subscription \in 1 .. MaxEntities
         /\ Invocation(id, dispatching.subscription, dispatching.message) \in Task
         /\ id \in DefaultIds =>
              /\ defaultQueue' = Append(defaultQueue, Invocation(id, dispatching.subscription, dispatching.message))
              /\ customQueue' = customQueue
         /\ id \notin DefaultIds =>
              /\ customQueue' = Append(customQueue, Invocation(id, dispatching.subscription, dispatching.message))
              /\ defaultQueue' = defaultQueue
<1>1. /\ Put /\ Invoke(id, dispatching.subscription, <<dispatching.message>>)
      /\ broker' = broker /\ crashed' = crashed
  BY DEF PutInvokes, Put, Target, Hand
<1>2. id \in Id /\ dispatching.subscription \in 1 .. MaxEntities /\ dispatching.message \in 0 .. MaxMessages
  <2>1. IsEntity(dispatching.subscription)
    BY DEF PutInvokes
  <2>. QED
    BY <1>1, <2>1, PutIs, BrokerAssumption DEF Subscription, IsEntity, Null, Absent, MessageNumber
<1>. QED
  BY <1>1, <1>2, InvokeIs, BrokerAssumption DEF TypeInv, TasksOK

LEMMA PutCases == Put => PutDefers \/ PutHolds \/ PutInvokes
BY DEF PutDefers, PutHolds, PutInvokes

\* An entry whose messages are for its id.
LEMMA EntriesFrom ==
  ASSUME TypeInv, Grows, NEW id \in Id,
         NEW r \in [entry : 0 .. MaxMessages, default_scheduler_messages : Seq(MessageNumber),
                    custom_scheduler_messages : Seq(MessageNumber)],
         broker' = [broker EXCEPT ![id] = r], r.entry <= Len(sent)',
         \A i \in 1 .. Len(r.default_scheduler_messages) :
           LET n == r.default_scheduler_messages[i] IN n \in 1 .. Len(sent)' /\ sent'[n] = id,
         \A i \in 1 .. Len(r.custom_scheduler_messages) :
           LET n == r.custom_scheduler_messages[i] IN n \in 1 .. Len(sent)' /\ sent'[n] = id,
         id \notin CustomIds => r.custom_scheduler_messages = <<>>
  PROVE  EntriesOK'
<1>1. broker'[id] = r /\ \A x \in Id : x # id => broker'[x] = broker[x]
  BY BrokerWith
<1>2. ASSUME NEW x \in Id
      PROVE  /\ Entry(x)' <= Len(sent)' /\ For(x, Dsm(x))' /\ For(x, Csm(x))'
             /\ x \notin CustomIds => Csm(x)' = <<>>
  <2>1. CASE x = id
    BY <1>1, <2>1 DEF Entry, Dsm, Csm, For
  <2>2. CASE x # id
    <3>1. broker'[x] = broker[x]
      BY <1>1, <2>2
    <3>2. Entry(x) \in 0 .. MaxMessages /\ Entry(x) <= Len(sent) /\ For(x, Dsm(x)) /\ For(x, Csm(x))
          /\ (x \notin CustomIds => Csm(x) = <<>>)
      BY EntryTypes
    <3>3. /\ \A i \in 1 .. Len(Dsm(x)) : Dsm(x)[i] \in 1 .. Len(sent)' /\ sent'[Dsm(x)[i]] = x
          /\ \A i \in 1 .. Len(Csm(x)) : Csm(x)[i] \in 1 .. Len(sent)' /\ sent'[Csm(x)[i]] = x
      BY <3>2, ForGrows
    <3>4. Entry(x)' <= Len(sent)'
      BY <3>1, <3>2, BrokerAssumption DEF Entry, Grows
    <3>. QED
      BY <3>1, <3>2, <3>3, <3>4 DEF Dsm, Csm, For
  <2>. QED
    BY <2>1, <2>2
<1>3. broker' \in [Id -> [entry : 0 .. MaxMessages, default_scheduler_messages : Seq(MessageNumber),
                          custom_scheduler_messages : Seq(MessageNumber)]]
  BY DEF TypeInv, EntriesOK
<1>. QED
  BY <1>2, <1>3 DEF EntriesOK

\* A message for id that comes after those of s.
LEMMA ForMore ==
  ASSUME NEW id, NEW s \in Seq(MessageNumber), For(id, s),
         NEW n \in MessageNumber, n \in 1 .. Len(sent), sent[n] = id, UNCHANGED sent
  PROVE  /\ Append(s, n) \in Seq(MessageNumber)
         /\ \A i \in 1 .. Len(Append(s, n)) :
              Append(s, n)[i] \in 1 .. Len(sent)' /\ sent'[Append(s, n)[i]] = id
BY Appended DEF For

LEMMA DispatchEnds ==
  ASSUME TypeInv, Put
  PROVE  DispatchOK'
BY PutIs, BrokerAssumption DEF DispatchOK, NoDispatch, Subscription

LEMMA DefersEntries ==
  ASSUME TypeInv, PutDefers
  PROVE  EntriesOK'
<1>1. PICK id : id = Target
  OBVIOUS
<1>. DEFINE e == IF Entry(id) = 0 THEN dispatching.message ELSE Entry(id)
            d == Append(Dsm(id), dispatching.message)
            r == [broker[id] EXCEPT !.entry = e, !.default_scheduler_messages = d]
<1>2. /\ Put /\ id \in Id /\ broker' = [broker EXCEPT ![id] = r]
  BY <1>1, DefersIs
<1>3. /\ dispatching.message \in MessageNumber /\ dispatching.message \in 1 .. Len(sent)
      /\ sent[dispatching.message] = id /\ sent' = sent /\ Grows
  BY <1>1, <1>2, PutIs DEF Target
<1>4. /\ broker[id] \in [entry : 0 .. MaxMessages, default_scheduler_messages : Seq(MessageNumber),
                         custom_scheduler_messages : Seq(MessageNumber)]
      /\ Entry(id) \in 0 .. MaxMessages /\ Entry(id) <= Len(sent)
      /\ Dsm(id) \in Seq(MessageNumber) /\ For(id, Dsm(id)) /\ For(id, Csm(id))
      /\ (id \notin CustomIds => Csm(id) = <<>>)
  BY <1>2, EntryTypes DEF TypeInv, EntriesOK
<1>5. /\ d \in Seq(MessageNumber)
      /\ \A i \in 1 .. Len(d) : d[i] \in 1 .. Len(sent)' /\ sent'[d[i]] = id
  BY <1>3, <1>4, ForMore
<1>6. /\ e \in 0 .. MaxMessages /\ e <= Len(sent)'
  BY <1>3, <1>4, BrokerAssumption DEF MessageNumber, Grows
<1>7. \A i \in 1 .. Len(Csm(id)) : Csm(id)[i] \in 1 .. Len(sent)' /\ sent'[Csm(id)[i]] = id
  BY <1>3, <1>4, ForGrows
<1>. HIDE DEF e, d
<1>8. /\ r \in [entry : 0 .. MaxMessages, default_scheduler_messages : Seq(MessageNumber),
                custom_scheduler_messages : Seq(MessageNumber)]
      /\ r.entry = e /\ r.default_scheduler_messages = d /\ r.custom_scheduler_messages = Csm(id)
  BY <1>4, <1>5, <1>6 DEF Csm
<1>. HIDE DEF r
<1>. QED
  BY <1>2, <1>3, <1>4, <1>5, <1>6, <1>7, <1>8, EntriesFrom

LEMMA HoldsEntries ==
  ASSUME TypeInv, PutHolds
  PROVE  EntriesOK'
<1>1. PICK id : id = Target
  OBVIOUS
<1>. DEFINE c == Append(Csm(id), dispatching.message)
            r == [broker[id] EXCEPT !.custom_scheduler_messages = c]
<1>2. /\ Put /\ id \in Id /\ broker' = [broker EXCEPT ![id] = r] /\ id \in CustomIds
  BY <1>1, HoldsIs DEF PutHolds
<1>3. /\ dispatching.message \in MessageNumber /\ dispatching.message \in 1 .. Len(sent)
      /\ sent[dispatching.message] = id /\ sent' = sent /\ Grows
  BY <1>1, <1>2, PutIs DEF Target
<1>4. /\ broker[id] \in [entry : 0 .. MaxMessages, default_scheduler_messages : Seq(MessageNumber),
                         custom_scheduler_messages : Seq(MessageNumber)]
      /\ Entry(id) \in 0 .. MaxMessages /\ Entry(id) <= Len(sent)
      /\ Csm(id) \in Seq(MessageNumber) /\ For(id, Dsm(id)) /\ For(id, Csm(id))
  BY <1>2, EntryTypes DEF TypeInv, EntriesOK
<1>5. /\ c \in Seq(MessageNumber)
      /\ \A i \in 1 .. Len(c) : c[i] \in 1 .. Len(sent)' /\ sent'[c[i]] = id
  BY <1>3, <1>4, ForMore
<1>7. \A i \in 1 .. Len(Dsm(id)) : Dsm(id)[i] \in 1 .. Len(sent)' /\ sent'[Dsm(id)[i]] = id
  BY <1>3, <1>4, ForGrows
<1>. HIDE DEF c
<1>8. /\ r \in [entry : 0 .. MaxMessages, default_scheduler_messages : Seq(MessageNumber),
                custom_scheduler_messages : Seq(MessageNumber)]
      /\ r.entry = Entry(id) /\ r.default_scheduler_messages = Dsm(id) /\ r.custom_scheduler_messages = c
  BY <1>4, <1>5 DEF Dsm, Entry
<1>. HIDE DEF r
<1>9. /\ \A i \in 1 .. Len(r.default_scheduler_messages) :
           r.default_scheduler_messages[i] \in 1 .. Len(sent)' /\ sent'[r.default_scheduler_messages[i]] = id
      /\ \A i \in 1 .. Len(r.custom_scheduler_messages) :
           r.custom_scheduler_messages[i] \in 1 .. Len(sent)' /\ sent'[r.custom_scheduler_messages[i]] = id
      /\ r.entry <= Len(sent)'
  BY <1>3, <1>4, <1>5, <1>7, <1>8
<1>. QED
  BY <1>2, <1>3, <1>8, <1>9, EntriesFrom

LEMMA PutTypes ==
  ASSUME TypeInv, Put
  PROVE  TypeInv'
<1>1. PICK id : id = Target
  OBVIOUS
<1>2. /\ id \in Id /\ Grows /\ UNCHANGED <<sent, subscriptions, action, entities, results, abandoned>>
      /\ raced' = IF Closing(id) THEN raced \cup {id} ELSE raced
      /\ dispatching.message \in 1 .. Len(sent) /\ dispatching.entry \in 0 .. MaxMessages
      /\ dispatching.entry <= Len(sent) /\ dispatching.subscription <= entities
      /\ ~IsEntity(dispatching.subscription) => dispatching.entry # 0
  BY <1>1, PutIs
<1>3. SentOK' /\ SubscriptionsOK' /\ ActionOK' /\ DispatchOK' /\ ResultsOK'
  BY <1>2, ActionStays, ResultsStay, DispatchEnds DEF TypeInv, SentOK, SubscriptionsOK, results
<1>4. raced' \subseteq Id /\ abandoned' \subseteq CustomIds
  BY <1>2 DEF TypeInv, HistoryOK
<1>5. CASE PutDefers
  <2>. DEFINE t == Deferred(id, dispatching.entry)
  <2>1. /\ t \in Task /\ defaultQueue' = Append(defaultQueue, t) /\ customQueue' = customQueue
        /\ crashed' = crashed
    BY <1>1, <1>5, DefersIs
  <2>2. crashed' \in BOOLEAN
    BY <2>1, Zenon DEF TypeInv, HistoryOK
  <2>3. t.op = "deferred" /\ t.message = 0 /\ t.entry \in 1 .. Len(sent)'
    BY <1>2, <1>5 DEF Deferred, PutDefers, Grows
  <2>. HIDE DEF t
  <2>4. PICK u \in Task : u = t
    BY <2>1
  <2>5. DefaultTask(u)'
    BY <2>3, <2>4 DEF DefaultTask
  <2>6. TasksOK'
    BY <1>2, <2>1, <2>4, <2>5, TasksDefault
  <2>7. HistoryOK'
    BY <1>4, <2>2, Zenon DEF HistoryOK
  <2>. QED
    BY <1>3, <1>5, <2>6, <2>7, DefersEntries DEF TypeInv
<1>6. CASE PutHolds
  <2>1. crashed' = (Entry(id) # dispatching.entry)
    BY <1>1, <1>6, HoldsIs
  <2>2. crashed' \in BOOLEAN
    BY <2>1, Zenon
  <2>3. HistoryOK'
    BY <1>4, <2>2, Zenon DEF HistoryOK
  <2>4. defaultQueue' = defaultQueue /\ customQueue' = customQueue
    BY <1>1, <1>6, HoldsIs
  <2>5. TasksOK'
    BY <1>2, <2>4, TasksStay
  <2>. QED
    BY <1>3, <1>6, <2>3, <2>5, HoldsEntries DEF TypeInv
<1>7. CASE PutInvokes
  <2>. DEFINE t == Invocation(id, dispatching.subscription, dispatching.message)
  <2>1. /\ broker' = broker /\ crashed' = crashed
        /\ dispatching.subscription \in 1 .. MaxEntities
    BY <1>1, <1>7, InvokesIs
  <2>2. /\ t \in Task
        /\ id \in DefaultIds => defaultQueue' = Append(defaultQueue, t) /\ customQueue' = customQueue
        /\ id \notin DefaultIds => customQueue' = Append(customQueue, t) /\ defaultQueue' = defaultQueue
    BY <1>1, <1>7, InvokesIs
  <2>3. crashed' \in BOOLEAN
    BY <2>1, Zenon DEF TypeInv, HistoryOK
  <2>4. HistoryOK'
    BY <1>4, <2>3, Zenon DEF HistoryOK
  <2>5. t.op = "invoke" /\ t.id = id /\ t.message = dispatching.message /\ t.that = dispatching.subscription
    BY DEF Invocation
  <2>. HIDE DEF t
  <2>6. PICK u \in Task : u = t
    BY <2>2
  <2>7. u.that \in 1 .. entities'
    BY <1>2, <2>1, <2>5, <2>6 DEF Grows
  <2>8. Hands(u)'
    BY <1>1, <1>2, <2>5, <2>6, <2>7 DEF Hands, Target
  <2>9. TasksOK'
    <3>1. CASE id \in DefaultIds
      <4>1. DefaultTask(u)'
        BY <2>5, <2>6, <2>8, <3>1 DEF DefaultTask
      <4>. QED
        BY <1>2, <2>2, <2>6, <3>1, <4>1, TasksDefault
    <3>2. CASE id \notin DefaultIds
      <4>1. CustomTask(u)'
        BY <2>5, <2>6, <2>8, <3>2 DEF CustomTask
      <4>. QED
        BY <1>2, <2>2, <2>6, <3>2, <4>1, TasksCustom
    <3>. QED
      BY <3>1, <3>2
  <2>. QED
    BY <1>2, <1>3, <2>1, <2>4, <2>9, EntriesStay DEF TypeInv
<1>. QED
  BY <1>5, <1>6, <1>7, PutCases

-----------------------------------------------------------------------------
(* The default scheduler *)

ActionRecord == [at : Stages, id : Id, entry : 1 .. MaxMessages, subscription : Subscription,
                 message : 0 .. MaxMessages, taken : Seq(MessageNumber)]

LEMMA ActionIs ==
  ASSUME TypeInv, action.at # "idle"
  PROVE  action \in ActionRecord /\ action.id \in Id
BY DEF TypeInv, ActionOK, Idle, ActionRecord

LEMMA AdviseOnTypes ==
  ASSUME TypeInv, NEW id \in Id, AdviseOn(id)
  PROVE  TypeInv'
<1>1. /\ entities < MaxEntities /\ entities' = entities + 1
      /\ subscriptions' = [subscriptions EXCEPT ![id] = entities + 1]
      /\ UNCHANGED <<sent, broker, dispatching, action, queues, results, crashed, history>>
  BY DEF AdviseOn
<1>2. entities \in Nat /\ entities + 1 \in 1 .. MaxEntities
  BY <1>1, BrokerAssumption DEF TypeInv, SubscriptionsOK
<1>3. Grows
  BY <1>1, <1>2 DEF TypeInv, SentOK, Grows
<1>4. SubscriptionsOK'
  <2>1. subscriptions' \in [Id -> Subscription]
    BY <1>1, <1>2 DEF TypeInv, SubscriptionsOK, Subscription
  <2>2. ASSUME NEW x \in Id PROVE subscriptions'[x] <= entities'
    <3>1. subscriptions[x] \in Int /\ subscriptions[x] <= entities
      BY BrokerAssumption DEF TypeInv, SubscriptionsOK, Subscription, Null, Absent
    <3>2. subscriptions'[x] = IF x = id THEN entities + 1 ELSE subscriptions[x]
      BY <1>1 DEF TypeInv, SubscriptionsOK
    <3>. QED
      BY <1>1, <1>2, <3>1, <3>2
  <2>. QED
    BY <1>1, <1>2, <2>1, <2>2 DEF SubscriptionsOK
<1>5. SentOK' /\ EntriesOK' /\ DispatchOK' /\ ActionOK' /\ TasksOK' /\ ResultsOK'
  BY <1>1, <1>3, EntriesStay, DispatchStays, ActionStays, TasksStay, ResultsStay DEF TypeInv, SentOK, queues
<1>6. HistoryOK'
  BY <1>1, Zenon DEF TypeInv, HistoryOK, history
<1>. QED
  BY <1>4, <1>5, <1>6 DEF TypeInv

LEMMA LifetimeEndsTypes ==
  ASSUME TypeInv, NEW id \in Id, LifetimeEnds(id)
  PROVE  TypeInv'
<1>1. /\ subscriptions' = [subscriptions EXCEPT ![id] = Absent]
      /\ UNCHANGED <<sent, broker, dispatching, action, queues, entities, results, crashed, raced>>
  BY DEF LifetimeEnds
<1>2. abandoned' \subseteq CustomIds
  BY DEF LifetimeEnds, TypeInv, HistoryOK
<1>3. Grows
  BY <1>1, Stays
<1>4. SubscriptionsOK'
  BY <1>1, BrokerAssumption DEF TypeInv, SubscriptionsOK, Subscription, Absent
<1>5. SentOK' /\ EntriesOK' /\ DispatchOK' /\ ActionOK' /\ TasksOK' /\ ResultsOK'
  BY <1>1, <1>3, EntriesStay, DispatchStays, ActionStays, TasksStay, ResultsStay DEF TypeInv, SentOK, queues
<1>6. HistoryOK'
  BY <1>1, <1>2, Zenon DEF TypeInv, HistoryOK
<1>. QED
  BY <1>4, <1>5, <1>6 DEF TypeInv

LEMMA BeginDeferredIs ==
  ASSUME TypeInv, BeginDeferred
  PROVE  \E id \in Id :
         /\ action = Idle /\ defaultQueue # <<>> /\ Head(defaultQueue).op = "deferred"
         /\ Head(defaultQueue).id = id /\ Head(defaultQueue).entry \in 1 .. Len(sent)
         /\ action' = [at |-> "pop", id |-> id, entry |-> Head(defaultQueue).entry,
                       subscription |-> subscriptions[id], message |-> 0, taken |-> <<>>]
         /\ Lookup(id) /\ defaultQueue' = Tail(defaultQueue)
         /\ UNCHANGED <<sent, broker, dispatching, customQueue, entities, results, crashed, history>>
<1>1. /\ action = Idle /\ defaultQueue # <<>> /\ Head(defaultQueue).op = "deferred"
      /\ action' = [Idle EXCEPT !.at = "pop", !.id = Head(defaultQueue).id, !.entry = Head(defaultQueue).entry,
                                !.subscription = subscriptions[Head(defaultQueue).id]]
      /\ Lookup(Head(defaultQueue).id) /\ defaultQueue' = Tail(defaultQueue)
      /\ UNCHANGED <<sent, broker, dispatching, customQueue, entities, results, crashed, history>>
  BY DEF BeginDeferred
<1>2. defaultQueue \in Seq(Task) /\ \A i \in 1 .. Len(defaultQueue) : DefaultTask(defaultQueue[i])
  BY DEF TypeInv, TasksOK
<1>3. Head(defaultQueue) \in Task /\ Head(defaultQueue) = defaultQueue[1] /\ 1 \in 1 .. Len(defaultQueue)
  BY <1>1, <1>2
<1>4. DefaultTask(Head(defaultQueue))
  BY <1>2, <1>3
<1>5. Head(defaultQueue).id \in Id /\ Head(defaultQueue).entry \in 1 .. Len(sent)
  BY <1>1, <1>3, <1>4 DEF Task, DefaultTask
<1>. DEFINE id == Head(defaultQueue).id
<1>6. action' = [at |-> "pop", id |-> id, entry |-> Head(defaultQueue).entry,
                 subscription |-> subscriptions[id], message |-> 0, taken |-> <<>>]
  BY <1>1 DEF Idle
<1>7. PICK i \in Id : i = id
  BY <1>5
<1>. HIDE DEF id
<1>8. /\ Head(defaultQueue).id = i /\ Lookup(i)
  BY <1>1, <1>7 DEF id
<1>. QED
  BY <1>1, <1>5, <1>6, <1>7, <1>8, Zenon

LEMMA BeginDeferredTypes ==
  ASSUME TypeInv, BeginDeferred
  PROVE  TypeInv'
<1>1. PICK id \in Id :
         /\ action = Idle /\ defaultQueue # <<>> /\ Head(defaultQueue).op = "deferred"
         /\ Head(defaultQueue).id = id /\ Head(defaultQueue).entry \in 1 .. Len(sent)
         /\ action' = [at |-> "pop", id |-> id, entry |-> Head(defaultQueue).entry,
                       subscription |-> subscriptions[id], message |-> 0, taken |-> <<>>]
         /\ Lookup(id) /\ defaultQueue' = Tail(defaultQueue)
         /\ UNCHANGED <<sent, broker, dispatching, customQueue, entities, results, crashed, history>>
  BY BeginDeferredIs, Zenon
<1>2. Grows
  BY <1>1, Stays
<1>3. SubscriptionsOK'
  BY <1>1, LookupTypes
<1>4. SentOK' /\ EntriesOK' /\ DispatchOK' /\ ResultsOK'
  BY <1>1, <1>2, EntriesStay, DispatchStays, ResultsStay DEF TypeInv, SentOK
<1>5. TasksOK'
  BY <1>1, <1>2, TasksShrink
<1>6. ActionOK'
  <2>1. Head(defaultQueue).entry \in 1 .. MaxMessages /\ subscriptions[id] \in Subscription
        /\ subscriptions[id] <= entities
    BY <1>1, BrokerAssumption DEF TypeInv, SentOK, SubscriptionsOK
  <2>2. action' \in [at : Stages, id : Id, entry : 1 .. MaxMessages, subscription : Subscription,
                     message : 0 .. MaxMessages, taken : Seq(MessageNumber)]
    BY <1>1, <2>1, BrokerAssumption DEF Stages
  <2>. QED
    BY <1>1, <2>1, <2>2 DEF ActionOK, For
<1>7. HistoryOK'
  BY <1>1, Zenon DEF TypeInv, HistoryOK, history
<1>. QED
  BY <1>3, <1>4, <1>5, <1>6, <1>7 DEF TypeInv

LEMMA PopIs ==
  ASSUME TypeInv, NEW id, id = action.id, Pop
  PROVE  /\ id \in Id /\ action.at = "pop" /\ dispatching.message = 0 /\ ~crashed
         /\ \A x \in Id : /\ Entry(x)' = Entry(x) /\ Csm(x)' = Csm(x)
                          /\ x # id => Dsm(x)' = Dsm(x)
         /\ Dsm(id)' = IF Dsm(id) = <<>> THEN <<>> ELSE Tail(Dsm(id))
         /\ broker' = [broker EXCEPT ![id] = [broker[id] EXCEPT !.default_scheduler_messages = Dsm(id)']]
         /\ action' = [action EXCEPT !.at = "deliver", !.message = IF Dsm(id) = <<>> THEN 0 ELSE Head(Dsm(id))]
         /\ action'.at = "deliver" /\ action'.message = IF Dsm(id) = <<>> THEN 0 ELSE Head(Dsm(id))
         /\ action'.id = id /\ action'.entry = action.entry /\ action'.subscription = action.subscription
         /\ action'.taken = action.taken
         /\ crashed' = (Entry(id) # action.entry)
         /\ Grows /\ UNCHANGED <<sent, subscriptions, dispatching, queues, entities, results, history>>
<1>. DEFINE d == IF Dsm(id) = <<>> THEN <<>> ELSE Tail(Dsm(id))
            m == IF Dsm(id) = <<>> THEN 0 ELSE Head(Dsm(id))
<1>1. /\ action.at = "pop" /\ dispatching.message = 0
      /\ broker' = [broker EXCEPT ![id] = [broker[id] EXCEPT !.default_scheduler_messages = d]]
      /\ action' = [action EXCEPT !.at = "deliver", !.message = m]
      /\ UNCHANGED <<sent, subscriptions, dispatching, queues, entities, results, history>>
  BY DEF Pop, Free, Dsm
<1>2. crashed' = (Entry(id) # action.entry) /\ ~crashed
  <2>1. crashed' = (broker[id].entry # action.entry) /\ ~crashed
    BY Zenon DEF Pop
  <2>. QED
    BY <2>1, Zenon DEF Entry
<1>3. id \in Id /\ action \in ActionRecord
  BY <1>1, ActionIs
<1>. HIDE DEF d, m
<1>4. broker'[id] = [broker[id] EXCEPT !.default_scheduler_messages = d]
      /\ \A x \in Id : x # id => broker'[x] = broker[x]
  BY <1>1, <1>3, BrokerWith
<1>5. broker[id] \in [entry : 0 .. MaxMessages, default_scheduler_messages : Seq(MessageNumber),
                      custom_scheduler_messages : Seq(MessageNumber)]
  BY <1>3 DEF TypeInv, EntriesOK
<1>6. /\ broker'[id].default_scheduler_messages = d /\ broker'[id].entry = broker[id].entry
      /\ broker'[id].custom_scheduler_messages = broker[id].custom_scheduler_messages
  BY <1>4, <1>5
<1>7. /\ \A x \in Id : /\ Entry(x)' = Entry(x) /\ Csm(x)' = Csm(x)
                       /\ x # id => Dsm(x)' = Dsm(x)
      /\ Dsm(id)' = d
  BY <1>4, <1>6 DEF Entry, Dsm, Csm
<1>8. /\ action'.at = "deliver" /\ action'.message = m
      /\ action'.id = id /\ action'.entry = action.entry /\ action'.subscription = action.subscription
      /\ action'.taken = action.taken
  BY <1>1, <1>3 DEF ActionRecord
<1>9. Grows
  BY <1>1, Stays
<1>. QED
  BY <1>1, <1>2, <1>3, <1>7, <1>8, <1>9, Zenon DEF d, m

\* What remains of a sequence of messages for id, and the message that is taken.
LEMMA ForLess ==
  ASSUME NEW id, NEW s \in Seq(MessageNumber), For(id, s), s # <<>>, UNCHANGED sent
  PROVE  /\ Tail(s) \in Seq(MessageNumber) /\ Head(s) \in MessageNumber
         /\ Head(s) \in 1 .. Len(sent) /\ sent[Head(s)] = id
         /\ \A i \in 1 .. Len(Tail(s)) : Tail(s)[i] \in 1 .. Len(sent)' /\ sent'[Tail(s)[i]] = id
<1>1. 1 \in 1 .. Len(s)
  OBVIOUS
<1>. QED
  BY <1>1, Taken DEF For

LEMMA PopTypes ==
  ASSUME TypeInv, Pop
  PROVE  TypeInv'
<1>1. PICK id : id = action.id
  OBVIOUS
<1>. DEFINE d == IF Dsm(id) = <<>> THEN <<>> ELSE Tail(Dsm(id))
            m == IF Dsm(id) = <<>> THEN 0 ELSE Head(Dsm(id))
            r == [broker[id] EXCEPT !.default_scheduler_messages = d]
<1>2. /\ id \in Id /\ action.at = "pop" /\ Dsm(id)' = d
      /\ broker' = [broker EXCEPT ![id] = r]
      /\ action' = [action EXCEPT !.at = "deliver", !.message = m]
      /\ crashed' = (Entry(id) # action.entry)
      /\ Grows /\ UNCHANGED <<sent, subscriptions, dispatching, queues, entities, results, history>>
  BY <1>1, PopIs
<1>3. /\ broker[id] \in [entry : 0 .. MaxMessages, default_scheduler_messages : Seq(MessageNumber),
                         custom_scheduler_messages : Seq(MessageNumber)]
      /\ Entry(id) \in 0 .. MaxMessages /\ Entry(id) <= Len(sent)
      /\ Dsm(id) \in Seq(MessageNumber) /\ For(id, Dsm(id)) /\ For(id, Csm(id))
      /\ (id \notin CustomIds => Csm(id) = <<>>)
  BY <1>2, EntryTypes DEF TypeInv, EntriesOK
<1>4. /\ d \in Seq(MessageNumber)
      /\ \A i \in 1 .. Len(d) : d[i] \in 1 .. Len(sent)' /\ sent'[d[i]] = id
      /\ m \in 0 .. MaxMessages
      /\ m # 0 => m <= Len(sent) /\ sent[m] = id
  <2>1. CASE Dsm(id) = <<>>
    BY <2>1, BrokerAssumption
  <2>2. CASE Dsm(id) # <<>>
    <3>1. /\ Tail(Dsm(id)) \in Seq(MessageNumber) /\ Head(Dsm(id)) \in MessageNumber
          /\ Head(Dsm(id)) \in 1 .. Len(sent) /\ sent[Head(Dsm(id))] = id
          /\ \A i \in 1 .. Len(Tail(Dsm(id))) :
               Tail(Dsm(id))[i] \in 1 .. Len(sent)' /\ sent'[Tail(Dsm(id))[i]] = id
      BY <1>2, <1>3, <2>2, ForLess
    <3>2. d = Tail(Dsm(id)) /\ m = Head(Dsm(id))
      BY <2>2
    <3>. HIDE DEF d, m
    <3>. QED
      BY <3>1, <3>2, BrokerAssumption DEF MessageNumber
  <2>. QED
    BY <2>1, <2>2
<1>5. \A i \in 1 .. Len(Csm(id)) : Csm(id)[i] \in 1 .. Len(sent)' /\ sent'[Csm(id)[i]] = id
  BY <1>2, <1>3, ForGrows
<1>. HIDE DEF d, m
<1>6. /\ r \in [entry : 0 .. MaxMessages, default_scheduler_messages : Seq(MessageNumber),
                custom_scheduler_messages : Seq(MessageNumber)]
      /\ r.entry = Entry(id) /\ r.default_scheduler_messages = d /\ r.custom_scheduler_messages = Csm(id)
  BY <1>3, <1>4 DEF Csm, Entry
<1>. HIDE DEF r
<1>7. EntriesOK'
  <2>1. /\ \A i \in 1 .. Len(r.default_scheduler_messages) :
             r.default_scheduler_messages[i] \in 1 .. Len(sent)' /\ sent'[r.default_scheduler_messages[i]] = id
        /\ \A i \in 1 .. Len(r.custom_scheduler_messages) :
             r.custom_scheduler_messages[i] \in 1 .. Len(sent)' /\ sent'[r.custom_scheduler_messages[i]] = id
        /\ r.entry <= Len(sent)' /\ (id \notin CustomIds => r.custom_scheduler_messages = <<>>)
    BY <1>2, <1>3, <1>4, <1>5, <1>6
  <2>. QED
    BY <1>2, <1>6, <2>1, EntriesFrom
<1>8. ActionOK'
  <2>1. action \in ActionRecord /\ action.taken = <<>>
    BY <1>2, ActionIs DEF TypeInv, ActionOK
  <2>2. /\ action' \in ActionRecord /\ action'.taken = <<>> /\ action'.entry = action.entry
        /\ action'.subscription = action.subscription /\ action'.id = id
        /\ action'.at = "deliver" /\ action'.message = m
    BY <1>1, <1>2, <1>4, <2>1 DEF ActionRecord, Stages
  <2>. QED
    BY <1>2, <1>4, <2>2 DEF ActionOK, ActionRecord, For, TypeInv
<1>9. SentOK' /\ SubscriptionsOK' /\ DispatchOK' /\ TasksOK' /\ ResultsOK'
  BY <1>2, DispatchStays, TasksStay, ResultsStay DEF TypeInv, SentOK, SubscriptionsOK, queues
<1>10. HistoryOK'
  <2>1. crashed' \in BOOLEAN
    BY <1>2, Zenon
  <2>2. raced' = raced /\ abandoned' = abandoned
    BY <1>2 DEF history
  <2>. QED
    BY <2>1, <2>2, Zenon DEF TypeInv, HistoryOK
<1>. QED
  BY <1>7, <1>8, <1>9, <1>10 DEF TypeInv

\* The three things that deliver does.
DeliverDrops == Deliver /\ ~IsEntity(action.subscription)
DeliverNone == Deliver /\ IsEntity(action.subscription) /\ action.message = 0
DeliverHere == Deliver /\ IsEntity(action.subscription) /\ action.message # 0 /\ action.id \in DefaultIds
DeliverThere == Deliver /\ IsEntity(action.subscription) /\ action.message # 0 /\ action.id \notin DefaultIds

LEMMA DeliverCases == Deliver => DeliverDrops \/ DeliverNone \/ DeliverHere \/ DeliverThere
BY DEF DeliverDrops, DeliverNone, DeliverHere, DeliverThere

LEMMA DeliverIs ==
  ASSUME TypeInv, NEW id, id = action.id, Deliver
  PROVE  /\ id \in Id /\ action.at = "deliver" /\ action.taken = <<>>
         /\ action' = [action EXCEPT !.at = "check", !.message = 0]
         /\ action'.at = "check" /\ action'.message = 0 /\ action'.taken = <<>>
         /\ action'.id = id /\ action'.entry = action.entry /\ action'.subscription = action.subscription
         /\ action.message # 0 => action.message \in 1 .. Len(sent) /\ action.message \in MessageNumber
                                  /\ sent[action.message] = id
         /\ action.message \in 0 .. MaxMessages
         /\ Grows /\ UNCHANGED <<sent, subscriptions, broker, dispatching, entities, astray, crashed, history>>
<1>1. /\ action.at = "deliver" /\ action' = [action EXCEPT !.at = "check", !.message = 0]
      /\ UNCHANGED <<sent, subscriptions, broker, dispatching, entities, astray, crashed, history>>
  BY DEF Deliver
<1>2. action \in ActionRecord /\ id \in Id
  BY <1>1, ActionIs
<1>3. /\ action.taken = <<>>
      /\ action.message # 0 => action.message <= Len(sent) /\ sent[action.message] = id
  BY <1>1 DEF TypeInv, ActionOK
<1>4. action.message # 0 => action.message \in 1 .. Len(sent) /\ action.message \in MessageNumber
  BY <1>2, <1>3, BrokerAssumption DEF TypeInv, SentOK, ActionRecord, MessageNumber
<1>5. Grows
  BY <1>1, Stays
<1>. QED
  BY <1>1, <1>2, <1>3, <1>4, <1>5 DEF ActionRecord

LEMMA DeliverResults ==
  ASSUME TypeInv, Deliver
  PROVE  /\ astray' = astray
         /\ DeliverDrops => /\ dropped' = dropped \cup ({action.message} \ {0})
                            /\ executed' = executed /\ defaultQueue' = defaultQueue /\ customQueue' = customQueue
         /\ DeliverNone => /\ dropped' = dropped
                           /\ executed' = executed /\ defaultQueue' = defaultQueue /\ customQueue' = customQueue
         /\ DeliverHere => /\ dropped' = dropped /\ executed' = Append(executed, action.message)
                           /\ defaultQueue' = defaultQueue /\ customQueue' = customQueue
         /\ DeliverThere =>
              /\ dropped' = dropped /\ executed' = executed /\ defaultQueue' = defaultQueue
              /\ Invocation(action.id, action.subscription, action.message) \in Task
              /\ customQueue' = Append(customQueue, Invocation(action.id, action.subscription, action.message))
<1>1. astray' = astray
  BY DEF Deliver
<1>2. DeliverDrops => /\ dropped' = dropped \cup ({action.message} \ {0})
                      /\ executed' = executed /\ defaultQueue' = defaultQueue /\ customQueue' = customQueue
  BY DEF DeliverDrops, Deliver, queues
<1>3. DeliverNone => /\ dropped' = dropped
                     /\ executed' = executed /\ defaultQueue' = defaultQueue /\ customQueue' = customQueue
  BY DEF DeliverNone, Deliver, queues
<1>4. DeliverHere => /\ dropped' = dropped /\ executed' = Append(executed, action.message)
                     /\ defaultQueue' = defaultQueue /\ customQueue' = customQueue
  BY DEF DeliverHere, Deliver, queues
<1>5. ASSUME DeliverThere
      PROVE  /\ dropped' = dropped /\ executed' = executed /\ defaultQueue' = defaultQueue
             /\ Invocation(action.id, action.subscription, action.message) \in Task
             /\ customQueue' = Append(customQueue, Invocation(action.id, action.subscription, action.message))
  <2>1. Invoke(action.id, action.subscription, <<action.message>>) /\ dropped' = dropped /\ executed' = executed
        /\ action.id \notin DefaultIds /\ action.at = "deliver"
    BY <1>5 DEF DeliverThere, Deliver
  <2>2. action \in ActionRecord /\ action.id \in Id
    BY <2>1, ActionIs
  <2>3. action.subscription \in 0 .. MaxEntities /\ action.message \in 0 .. MaxMessages
    BY <1>5, <2>2, BrokerAssumption DEF DeliverThere, IsEntity, ActionRecord, Subscription, Null, Absent
  <2>. QED
    BY <2>1, <2>2, <2>3, InvokeIs, BrokerAssumption DEF TypeInv, TasksOK
<1>. QED
  BY <1>1, <1>2, <1>3, <1>4, <1>5

LEMMA DeliverTypes ==
  ASSUME TypeInv, Deliver
  PROVE  TypeInv'
<1>1. PICK id : id = action.id
  OBVIOUS
<1>2. /\ id \in Id /\ action.at = "deliver"
      /\ action' = [action EXCEPT !.at = "check", !.message = 0]
      /\ action'.at = "check" /\ action'.message = 0 /\ action'.taken = <<>>
      /\ action'.id = id /\ action'.entry = action.entry /\ action'.subscription = action.subscription
      /\ action.message # 0 => action.message \in 1 .. Len(sent) /\ action.message \in MessageNumber
                               /\ sent[action.message] = id
      /\ Grows /\ UNCHANGED <<sent, subscriptions, broker, dispatching, entities, astray, crashed, history>>
  BY <1>1, DeliverIs
<1>3. SentOK' /\ SubscriptionsOK' /\ DispatchOK' /\ EntriesOK'
  BY <1>2, DispatchStays, EntriesStay DEF TypeInv, SentOK, SubscriptionsOK
<1>4. HistoryOK'
  BY <1>2, Zenon DEF TypeInv, HistoryOK, history
<1>5. ActionOK'
  <2>1. action \in ActionRecord
    BY <1>2, ActionIs
  <2>2. action' \in ActionRecord
    <3>1. action' = [action EXCEPT !.at = "check", !.message = 0] /\ 0 \in 0 .. MaxMessages
      BY <1>2, BrokerAssumption
    <3>. QED
      BY <2>1, <3>1 DEF ActionRecord, Stages
  <2>. QED
    BY <1>2, <2>2 DEF TypeInv, ActionOK, ActionRecord, For
<1>6. ASSUME UNCHANGED <<defaultQueue, customQueue>> PROVE TasksOK'
  BY <1>2, <1>6, TasksStay
<1>7. CASE DeliverDrops
  <2>1. /\ dropped' = dropped \cup ({action.message} \ {0}) /\ executed' = executed /\ astray' = astray
        /\ defaultQueue' = defaultQueue /\ customQueue' = customQueue
    BY <1>7, DeliverResults
  <2>2. ResultsOK'
    BY <1>2, <2>1 DEF TypeInv, ResultsOK
  <2>. QED
    BY <1>3, <1>4, <1>5, <1>6, <2>1, <2>2 DEF TypeInv
<1>8. CASE DeliverNone
  <2>1. UNCHANGED results /\ defaultQueue' = defaultQueue /\ customQueue' = customQueue
    BY <1>8, DeliverResults DEF results
  <2>. QED
    BY <1>2, <1>3, <1>4, <1>5, <1>6, <2>1, ResultsStay DEF TypeInv
<1>9. CASE DeliverHere
  <2>1. /\ dropped' = dropped /\ executed' = Append(executed, action.message) /\ astray' = astray
        /\ defaultQueue' = defaultQueue /\ customQueue' = customQueue /\ action.message # 0
    BY <1>9, DeliverResults DEF DeliverHere
  <2>2. ResultsOK'
    <3>1. executed \in Seq(MessageNumber) /\ action.message \in MessageNumber
      BY <1>2, <2>1 DEF TypeInv, ResultsOK
    <3>2. executed' \in Seq(MessageNumber) /\ \A i \in 1 .. Len(executed') : executed'[i] <= Len(sent)'
      BY <1>2, <2>1, <3>1, Appended DEF TypeInv, ResultsOK
    <3>. QED
      BY <1>2, <2>1, <3>2 DEF TypeInv, ResultsOK
  <2>. QED
    BY <1>3, <1>4, <1>5, <1>6, <2>1, <2>2 DEF TypeInv
<1>10. CASE DeliverThere
  <2>. DEFINE t == Invocation(action.id, action.subscription, action.message)
  <2>1. /\ UNCHANGED results /\ defaultQueue' = defaultQueue /\ t \in Task
        /\ customQueue' = Append(customQueue, t)
    BY <1>10, DeliverResults DEF results
  <2>2. t.op = "invoke" /\ t.id = id /\ t.message = action.message /\ t.that = action.subscription
    BY <1>1 DEF Invocation
  <2>3. action.subscription \in 1 .. entities' /\ action.message # 0 /\ id \notin DefaultIds
    <3>1. action.subscription \in Subscription /\ action.subscription <= entities
      BY <1>2, ActionTypes DEF TypeInv, ActionOK
    <3>. QED
      BY <1>1, <1>2, <1>10, <3>1, BrokerAssumption DEF DeliverThere, IsEntity, Subscription, Null, Absent, Grows
  <2>. HIDE DEF t
  <2>4. PICK u \in Task : u = t
    BY <2>1
  <2>5. CustomTask(u)'
    BY <1>2, <2>2, <2>3, <2>4 DEF CustomTask, Hands
  <2>6. TasksOK'
    BY <1>2, <2>1, <2>4, <2>5, TasksCustom
  <2>. QED
    BY <1>2, <1>3, <1>4, <1>5, <2>1, <2>6, ResultsStay DEF TypeInv
<1>. QED
  BY <1>7, <1>8, <1>9, <1>10, DeliverCases

LEMMA CheckIs ==
  ASSUME TypeInv, NEW id, id = action.id, Check
  PROVE  /\ id \in Id /\ action.at = "check" /\ action.message = 0 /\ action.taken = <<>>
         /\ Dsm(id) = <<>> => action' = [action EXCEPT !.at = "take"] /\ action' \in ActionRecord
                              /\ action'.at = "take" /\ action'.id = id /\ action'.entry = action.entry
                              /\ action'.subscription = action.subscription
                              /\ action'.message = 0 /\ action'.taken = <<>>
         /\ Dsm(id) # <<>> => action' = Idle
         /\ Grows
         /\ UNCHANGED <<sent, subscriptions, broker, dispatching, queues, entities, results, crashed, history>>
<1>1. /\ action.at = "check"
      /\ action' = IF Dsm(id) = <<>> THEN [action EXCEPT !.at = "take"] ELSE Idle
      /\ UNCHANGED <<sent, subscriptions, broker, dispatching, queues, entities, results, crashed, history>>
  BY DEF Check, Dsm
<1>2. action \in ActionRecord /\ id \in Id
  BY <1>1, ActionIs
<1>3. action.message = 0 /\ action.taken = <<>>
  BY <1>1 DEF TypeInv, ActionOK
<1>4. Dsm(id) = <<>> => action' = [action EXCEPT !.at = "take"] /\ action' \in ActionRecord
                        /\ action'.at = "take" /\ action'.id = id /\ action'.entry = action.entry
                        /\ action'.subscription = action.subscription
                        /\ action'.message = 0 /\ action'.taken = <<>>
  BY <1>1, <1>2, <1>3 DEF ActionRecord, Stages
<1>5. Grows
  BY <1>1, Stays
<1>. QED
  BY <1>1, <1>2, <1>3, <1>4, <1>5

LEMMA IdleOK ==
  ASSUME TypeInv, Grows, action' = Idle
  PROVE  ActionOK'
BY DEF ActionOK, Idle, For, Absent, Grows

LEMMA CheckTypes ==
  ASSUME TypeInv, Check
  PROVE  TypeInv'
<1>1. PICK id : id = action.id
  OBVIOUS
<1>2. Grows /\ UNCHANGED <<sent, subscriptions, broker, dispatching, queues, entities, results, crashed, history>>
  BY <1>1, CheckIs
<1>3. SentOK' /\ SubscriptionsOK' /\ DispatchOK' /\ EntriesOK' /\ TasksOK' /\ ResultsOK'
  BY <1>2, DispatchStays, EntriesStay, TasksStay, ResultsStay DEF TypeInv, SentOK, SubscriptionsOK, queues
<1>4. HistoryOK'
  BY <1>2, Zenon DEF TypeInv, HistoryOK, history
<1>5. ActionOK'
  <2>1. CASE Dsm(id) = <<>>
    <3>1. /\ action' \in ActionRecord /\ action'.at = "take" /\ action'.entry = action.entry
          /\ action'.subscription = action.subscription /\ action'.message = 0 /\ action'.taken = <<>>
      BY <1>1, <2>1, CheckIs
    <3>2. action.entry <= Len(sent) /\ action.subscription <= entities
      BY DEF TypeInv, ActionOK
    <3>. QED
      BY <1>2, <3>1, <3>2 DEF ActionOK, ActionRecord, For
  <2>2. CASE Dsm(id) # <<>>
    <3>1. action' = Idle
      BY <1>1, <2>2, CheckIs
    <3>. QED
      BY <1>2, <3>1, IdleOK
  <2>. QED
    BY <2>1, <2>2
<1>. QED
  BY <1>3, <1>4, <1>5 DEF TypeInv

LEMMA TakeIs ==
  ASSUME TypeInv, NEW id, id = action.id, Take
  PROVE  /\ id \in Id /\ action.at = "take" /\ action.message = 0 /\ action.taken = <<>>
         /\ action' \in ActionRecord /\ action'.at = "flush" /\ action'.id = id /\ action'.entry = action.entry
         /\ action'.subscription = action.subscription /\ action'.message = 0 /\ action'.taken = Csm(id)
         /\ broker' = [broker EXCEPT ![id] = NoEntry]
         /\ \A x \in Id : x # id => Entry(x)' = Entry(x) /\ Csm(x)' = Csm(x) /\ Dsm(x)' = Dsm(x)
         /\ Entry(id)' = 0 /\ Csm(id)' = <<>> /\ Dsm(id)' = <<>>
         /\ raced' = IF ~Free /\ Target = id THEN raced \cup {id} ELSE raced
         /\ Grows /\ UNCHANGED <<sent, subscriptions, dispatching, queues, entities, results, crashed, abandoned>>
<1>1. /\ action.at = "take"
      /\ action' = [action EXCEPT !.at = "flush", !.taken = Csm(id)]
      /\ broker' = [broker EXCEPT ![id] = NoEntry]
      /\ raced' = IF ~Free /\ Target = id THEN raced \cup {id} ELSE raced
      /\ UNCHANGED <<sent, subscriptions, dispatching, queues, entities, results, crashed, abandoned>>
  BY DEF Take, Csm, Target
<1>2. action \in ActionRecord /\ id \in Id /\ Csm(id) \in Seq(MessageNumber)
  BY <1>1, ActionIs, EntryTypes
<1>3. action.message = 0 /\ action.taken = <<>>
  BY <1>1 DEF TypeInv, ActionOK
<1>4. /\ action' \in ActionRecord /\ action'.at = "flush" /\ action'.id = id /\ action'.entry = action.entry
      /\ action'.subscription = action.subscription /\ action'.message = 0 /\ action'.taken = Csm(id)
  <2>. HIDE DEF Csm
  <2>. QED
    BY <1>1, <1>2, <1>3 DEF ActionRecord, Stages
<1>5. broker'[id] = NoEntry /\ \A x \in Id : x # id => broker'[x] = broker[x]
  BY <1>1, <1>2, BrokerWith
<1>6. /\ \A x \in Id : x # id => Entry(x)' = Entry(x) /\ Csm(x)' = Csm(x) /\ Dsm(x)' = Dsm(x)
      /\ Entry(id)' = 0 /\ Csm(id)' = <<>> /\ Dsm(id)' = <<>>
  BY <1>5 DEF Entry, Csm, Dsm, NoEntry
<1>7. Grows
  BY <1>1, Stays
<1>. QED
  BY <1>1, <1>2, <1>3, <1>4, <1>6, <1>7

LEMMA TakeTypes ==
  ASSUME TypeInv, Take
  PROVE  TypeInv'
<1>1. PICK id : id = action.id
  OBVIOUS
<1>2. /\ id \in Id /\ Grows /\ broker' = [broker EXCEPT ![id] = NoEntry]
      /\ raced' = IF ~Free /\ Target = id THEN raced \cup {id} ELSE raced
      /\ UNCHANGED <<sent, subscriptions, dispatching, queues, entities, results, crashed, abandoned>>
  BY <1>1, TakeIs
<1>3. SentOK' /\ SubscriptionsOK' /\ DispatchOK' /\ TasksOK' /\ ResultsOK'
  BY <1>2, DispatchStays, TasksStay, ResultsStay DEF TypeInv, SentOK, SubscriptionsOK, queues
<1>4. HistoryOK'
  <2>1. raced' \subseteq Id
    BY <1>2 DEF TypeInv, HistoryOK
  <2>. QED
    BY <1>2, <2>1, Zenon DEF TypeInv, HistoryOK
<1>5. EntriesOK'
  <2>1. /\ NoEntry \in [entry : 0 .. MaxMessages, default_scheduler_messages : Seq(MessageNumber),
                        custom_scheduler_messages : Seq(MessageNumber)]
        /\ NoEntry.entry = 0 /\ NoEntry.default_scheduler_messages = <<>>
        /\ NoEntry.custom_scheduler_messages = <<>> /\ 0 <= Len(sent)'
    BY <1>2, BrokerAssumption DEF NoEntry, Grows
  <2>2. /\ \A i \in 1 .. Len(NoEntry.default_scheduler_messages) :
             NoEntry.default_scheduler_messages[i] \in 1 .. Len(sent)' /\ sent'[NoEntry.default_scheduler_messages[i]] = id
        /\ \A i \in 1 .. Len(NoEntry.custom_scheduler_messages) :
             NoEntry.custom_scheduler_messages[i] \in 1 .. Len(sent)' /\ sent'[NoEntry.custom_scheduler_messages[i]] = id
        /\ NoEntry.entry <= Len(sent)' /\ (id \notin CustomIds => NoEntry.custom_scheduler_messages = <<>>)
    BY <2>1
  <2>. HIDE DEF NoEntry
  <2>. QED
    BY <1>2, <2>1, <2>2, EntriesFrom
<1>6. ActionOK'
  <2>1. /\ action' \in ActionRecord /\ action'.at = "flush" /\ action'.entry = action.entry /\ action'.id = id
        /\ action'.subscription = action.subscription /\ action'.message = 0 /\ action'.taken = Csm(id)
    BY <1>1, TakeIs
  <2>2. action.entry <= Len(sent) /\ action.subscription <= entities
    BY DEF TypeInv, ActionOK
  <2>3. For(id, Csm(id))
    BY <1>2, EntryTypes
  <2>. QED
    BY <1>2, <2>1, <2>2, <2>3 DEF ActionOK, ActionRecord, For
<1>. QED
  BY <1>3, <1>4, <1>5, <1>6 DEF TypeInv

\* Flush ends, or hands on the first message, or has nobody to hand it to.
FlushEnds == Flush /\ action.taken = <<>>
FlushHands == Flush /\ action.taken # <<>> /\ IsEntity(action.subscription)
FlushCrashes == Flush /\ action.taken # <<>> /\ ~IsEntity(action.subscription)

LEMMA FlushCases == Flush => FlushEnds \/ FlushHands \/ FlushCrashes
BY DEF FlushEnds, FlushHands, FlushCrashes

LEMMA FlushIs ==
  ASSUME TypeInv, NEW id, id = action.id, Flush
  PROVE  /\ id \in Id /\ action.at = "flush" /\ action.message = 0
         /\ Grows /\ UNCHANGED <<sent, subscriptions, broker, dispatching, entities, results, history>>
         /\ FlushEnds => action' = Idle /\ defaultQueue' = defaultQueue /\ customQueue' = customQueue
                         /\ crashed' = crashed
         /\ ~FlushEnds =>
              /\ action' \in ActionRecord /\ action'.at = "flush" /\ action'.id = id /\ action'.entry = action.entry
              /\ action'.subscription = action.subscription /\ action'.message = 0
              /\ action'.taken = Tail(action.taken)
              /\ Head(action.taken) \in MessageNumber /\ Head(action.taken) \in 1 .. Len(sent)
              /\ sent[Head(action.taken)] = id
<1>1. /\ action.at = "flush"
      /\ UNCHANGED <<sent, subscriptions, broker, dispatching, entities, results, history>>
  BY DEF Flush
<1>2. FlushEnds => action' = Idle /\ defaultQueue' = defaultQueue /\ customQueue' = customQueue
                   /\ crashed' = crashed
  BY DEF FlushEnds, Flush, queues
<1>3. action \in ActionRecord /\ id \in Id
  BY <1>1, ActionIs
<1>4. action.message = 0 /\ For(id, action.taken)
  BY <1>1 DEF TypeInv, ActionOK
<1>5. ASSUME ~FlushEnds
      PROVE  /\ action' \in ActionRecord /\ action'.at = "flush" /\ action'.id = id /\ action'.entry = action.entry
             /\ action'.subscription = action.subscription /\ action'.message = 0
             /\ action'.taken = Tail(action.taken)
             /\ Head(action.taken) \in MessageNumber /\ Head(action.taken) \in 1 .. Len(sent)
             /\ sent[Head(action.taken)] = id
  <2>1. action.taken # <<>> /\ action' = [action EXCEPT !.taken = Tail(action.taken)]
    BY <1>5 DEF FlushEnds, Flush
  <2>2. action.taken \in Seq(MessageNumber)
    BY <1>3 DEF ActionRecord
  <2>3. /\ Head(action.taken) \in MessageNumber /\ Head(action.taken) \in 1 .. Len(sent)
        /\ sent[Head(action.taken)] = id /\ Tail(action.taken) \in Seq(MessageNumber)
    BY <1>1, <1>4, <2>1, <2>2, ForLess
  <2>. QED
    BY <1>1, <1>3, <1>4, <2>1, <2>3 DEF ActionRecord
<1>6. Grows
  BY <1>1, Stays
<1>. QED
  BY <1>1, <1>2, <1>3, <1>4, <1>5, <1>6

LEMMA FlushQueues ==
  ASSUME TypeInv, NEW id, id = action.id, Flush
  PROVE  /\ FlushHands =>
              /\ Invocation(id, action.subscription, Head(action.taken)) \in Task
              /\ id \in DefaultIds =>
                   /\ defaultQueue' = Append(defaultQueue, Invocation(id, action.subscription, Head(action.taken)))
                   /\ customQueue' = customQueue
              /\ id \notin DefaultIds =>
                   /\ customQueue' = Append(customQueue, Invocation(id, action.subscription, Head(action.taken)))
                   /\ defaultQueue' = defaultQueue
         /\ FlushCrashes => defaultQueue' = defaultQueue /\ customQueue' = customQueue
         /\ ~FlushEnds => crashed' = ~IsEntity(action.subscription)
<1>1. ~FlushEnds => crashed' = ~IsEntity(action.subscription)
  BY Zenon DEF FlushEnds, Flush
<1>2. FlushCrashes => defaultQueue' = defaultQueue /\ customQueue' = customQueue
  BY DEF FlushCrashes, Flush, queues
<1>3. ASSUME FlushHands
      PROVE  /\ Invocation(id, action.subscription, Head(action.taken)) \in Task
             /\ id \in DefaultIds =>
                  /\ defaultQueue' = Append(defaultQueue, Invocation(id, action.subscription, Head(action.taken)))
                  /\ customQueue' = customQueue
             /\ id \notin DefaultIds =>
                  /\ customQueue' = Append(customQueue, Invocation(id, action.subscription, Head(action.taken)))
                  /\ defaultQueue' = defaultQueue
  <2>1. Invoke(id, action.subscription, <<Head(action.taken)>>) /\ ~FlushEnds /\ IsEntity(action.subscription)
    BY <1>3 DEF FlushHands, Flush, FlushEnds
  <2>2. id \in Id /\ Head(action.taken) \in MessageNumber /\ action.at = "flush"
    BY <2>1, FlushIs
  <2>3. action.subscription \in 0 .. MaxEntities /\ Head(action.taken) \in 0 .. MaxMessages
    <3>1. action.subscription \in Subscription
      BY ActionTypes
    <3>. QED
      BY <2>1, <2>2, <3>1, BrokerAssumption DEF IsEntity, Subscription, Null, Absent, MessageNumber
  <2>. QED
    BY <2>1, <2>2, <2>3, InvokeIs, BrokerAssumption DEF TypeInv, TasksOK
<1>. QED
  BY <1>1, <1>2, <1>3, Zenon

LEMMA FlushTypes ==
  ASSUME TypeInv, Flush
  PROVE  TypeInv'
<1>1. PICK id : id = action.id
  OBVIOUS
<1>2. /\ id \in Id /\ Grows /\ UNCHANGED <<sent, subscriptions, broker, dispatching, entities, results, history>>
  BY <1>1, FlushIs
<1>3. SentOK' /\ SubscriptionsOK' /\ DispatchOK' /\ EntriesOK' /\ ResultsOK'
  BY <1>2, DispatchStays, EntriesStay, ResultsStay DEF TypeInv, SentOK, SubscriptionsOK
<1>4. raced' \subseteq Id /\ abandoned' \subseteq CustomIds
  BY <1>2 DEF TypeInv, HistoryOK, history
<1>5. ASSUME crashed' \in BOOLEAN PROVE HistoryOK'
  BY <1>4, <1>5, Zenon DEF HistoryOK
<1>6. CASE FlushEnds
  <2>1. action' = Idle /\ defaultQueue' = defaultQueue /\ customQueue' = customQueue /\ crashed' = crashed
    BY <1>1, <1>6, FlushIs DEF FlushEnds
  <2>2. crashed' \in BOOLEAN
    BY <2>1, Zenon DEF TypeInv, HistoryOK
  <2>. QED
    BY <1>2, <1>3, <1>5, <2>1, <2>2, IdleOK, TasksStay DEF TypeInv
<1>7. CASE ~FlushEnds
  <2>1. crashed' = ~IsEntity(action.subscription)
    BY <1>1, <1>7, FlushQueues
  <2>2. crashed' \in BOOLEAN
    BY <2>1, Zenon
  <2>3. ActionOK'
    <3>1. /\ action' \in ActionRecord /\ action'.at = "flush" /\ action'.id = id /\ action'.entry = action.entry
          /\ action'.subscription = action.subscription /\ action'.message = 0
          /\ action'.taken = Tail(action.taken)
      BY <1>1, <1>7, FlushIs
    <3>2. action.entry <= Len(sent) /\ action.subscription <= entities /\ For(id, action.taken)
      BY <1>1 DEF TypeInv, ActionOK
    <3>3. action.taken \in Seq(MessageNumber) /\ action.taken # <<>>
      BY <1>7, ActionTypes DEF FlushEnds
    <3>4. \A i \in 1 .. Len(Tail(action.taken)) :
            Tail(action.taken)[i] \in 1 .. Len(sent)' /\ sent'[Tail(action.taken)[i]] = id
      BY <1>2, <3>2, <3>3, ForLess
    <3>. QED
      BY <1>2, <3>1, <3>2, <3>4 DEF ActionOK, ActionRecord, For
  <2>4. TasksOK'
    <3>1. CASE FlushCrashes
      BY <1>1, <1>2, <3>1, FlushQueues, TasksStay DEF FlushCrashes
    <3>2. CASE FlushHands
      <4>. DEFINE t == Invocation(id, action.subscription, Head(action.taken))
      <4>1. /\ t \in Task
            /\ id \in DefaultIds => defaultQueue' = Append(defaultQueue, t) /\ customQueue' = customQueue
            /\ id \notin DefaultIds => customQueue' = Append(customQueue, t) /\ defaultQueue' = defaultQueue
        BY <1>1, <3>2, FlushQueues DEF FlushHands
      <4>2. t.op = "invoke" /\ t.id = id /\ t.message = Head(action.taken) /\ t.that = action.subscription
        BY DEF Invocation
      <4>3. Head(action.taken) \in 1 .. Len(sent) /\ sent[Head(action.taken)] = id
        BY <1>1, <1>7, FlushIs
      <4>4. action.subscription \in 1 .. entities'
        <5>1. action.subscription \in Subscription /\ action.subscription <= entities
          BY ActionTypes DEF TypeInv, ActionOK
        <5>. QED
          BY <1>2, <3>2, <5>1, BrokerAssumption DEF FlushHands, IsEntity, Subscription, Null, Absent, Grows
      <4>. HIDE DEF t
      <4>5. PICK u \in Task : u = t
        BY <4>1
      <4>6. Hands(u)'
        BY <1>2, <4>2, <4>3, <4>4, <4>5 DEF Hands
      <4>7. (id \in DefaultIds => DefaultTask(u)') /\ (id \notin DefaultIds => CustomTask(u)')
        BY <4>2, <4>5, <4>6 DEF DefaultTask, CustomTask
      <4>8. CASE id \in DefaultIds
        BY <1>2, <4>1, <4>5, <4>7, <4>8, TasksDefault
      <4>9. CASE id \notin DefaultIds
        BY <1>2, <4>1, <4>5, <4>7, <4>9, TasksCustom
      <4>. QED
        BY <4>8, <4>9
    <3>. QED
      BY <1>7, <3>1, <3>2, FlushCases DEF FlushCrashes, FlushHands
  <2>. QED
    BY <1>3, <1>5, <2>2, <2>3, <2>4 DEF TypeInv
<1>. QED
  BY <1>6, <1>7

-----------------------------------------------------------------------------
(* What invoke queued *)

LEMMA ExecuteIs ==
  ASSUME TypeInv, NEW t, Hands(t), Execute(t)
  PROVE  \/ /\ subscriptions[t.id] = Absent /\ dropped' = dropped \cup {t.message}
            /\ executed' = executed /\ astray' = astray
         \/ /\ subscriptions[t.id] = t.that /\ executed' = Append(executed, t.message)
            /\ dropped' = dropped /\ astray' = astray
         \/ /\ subscriptions[t.id] # Absent /\ subscriptions[t.id] # t.that
            /\ astray' = astray \cup {t.message}
            /\ dropped' = dropped /\ executed' = executed
<1>1. t.that # Absent
  BY BrokerAssumption DEF TypeInv, SubscriptionsOK, Hands, Absent
<1>. QED
  BY <1>1 DEF Execute

LEMMA ExecuteTypes ==
  ASSUME TypeInv, NEW t, Hands(t), Execute(t), UNCHANGED sent
  PROVE  ResultsOK'
<1>1. t.message \in MessageNumber /\ t.message \in 1 .. Len(sent)
  BY BrokerAssumption DEF Hands, TypeInv, SentOK, MessageNumber
<1>2. executed \in Seq(MessageNumber)
  BY DEF TypeInv, ResultsOK
<1>3. ASSUME executed' = Append(executed, t.message)
      PROVE  executed' \in Seq(MessageNumber) /\ \A i \in 1 .. Len(executed') : executed'[i] <= Len(sent)'
  BY <1>1, <1>2, <1>3, Appended DEF TypeInv, ResultsOK
<1>4. CASE executed' = Append(executed, t.message) /\ dropped' = dropped /\ astray' = astray
  BY <1>3, <1>4 DEF TypeInv, ResultsOK
<1>5. CASE executed' = executed /\ dropped' \in {dropped, dropped \cup {t.message}}
           /\ astray' \in {astray, astray \cup {t.message}}
  BY <1>1, <1>5 DEF TypeInv, ResultsOK
<1>. QED
  BY <1>4, <1>5, ExecuteIs

LEMMA RunInvokedIs ==
  ASSUME TypeInv, RunInvoked
  PROVE  \E t \in Task :
         /\ action = Idle /\ dispatching.message = 0 /\ defaultQueue # <<>>
         /\ t = Head(defaultQueue) /\ t.op = "invoke" /\ t.id \in DefaultIds /\ Hands(t) /\ Execute(t)
         /\ defaultQueue' = Tail(defaultQueue) /\ Grows
         /\ UNCHANGED <<sent, subscriptions, broker, dispatching, action, customQueue, entities, crashed, history>>
<1>1. /\ action = Idle /\ dispatching.message = 0 /\ defaultQueue # <<>>
      /\ Head(defaultQueue).op = "invoke" /\ Execute(Head(defaultQueue))
      /\ defaultQueue' = Tail(defaultQueue)
      /\ UNCHANGED <<sent, subscriptions, broker, dispatching, action, customQueue, entities, crashed, history>>
  BY DEF RunInvoked, Free
<1>2. defaultQueue \in Seq(Task) /\ \A i \in 1 .. Len(defaultQueue) : DefaultTask(defaultQueue[i])
  BY DEF TypeInv, TasksOK
<1>3. Head(defaultQueue) \in Task /\ Head(defaultQueue) = defaultQueue[1] /\ 1 \in 1 .. Len(defaultQueue)
  BY <1>1, <1>2
<1>4. Head(defaultQueue).id \in DefaultIds /\ Hands(Head(defaultQueue))
  BY <1>1, <1>2, <1>3 DEF DefaultTask
<1>5. Grows
  BY <1>1, Stays
<1>. QED
  BY <1>1, <1>3, <1>4, <1>5

LEMMA RunCustomIs ==
  ASSUME TypeInv, RunCustom
  PROVE  \E t \in Task :
         /\ dispatching.message = 0 /\ customQueue # <<>>
         /\ t = Head(customQueue) /\ t.op = "invoke" /\ t.id \notin DefaultIds /\ Hands(t) /\ Execute(t)
         /\ customQueue' = Tail(customQueue) /\ Grows
         /\ UNCHANGED <<sent, subscriptions, broker, dispatching, action, defaultQueue, entities, crashed, history>>
<1>1. /\ dispatching.message = 0 /\ customQueue # <<>> /\ Execute(Head(customQueue))
      /\ customQueue' = Tail(customQueue)
      /\ UNCHANGED <<sent, subscriptions, broker, dispatching, action, defaultQueue, entities, crashed, history>>
  BY DEF RunCustom, Free
<1>2. customQueue \in Seq(Task) /\ \A i \in 1 .. Len(customQueue) : CustomTask(customQueue[i])
  BY DEF TypeInv, TasksOK
<1>3. Head(customQueue) \in Task /\ Head(customQueue) = customQueue[1] /\ 1 \in 1 .. Len(customQueue)
  BY <1>1, <1>2
<1>4. Head(customQueue).op = "invoke" /\ Head(customQueue).id \notin DefaultIds /\ Hands(Head(customQueue))
  BY <1>2, <1>3 DEF CustomTask
<1>5. Grows
  BY <1>1, Stays
<1>. QED
  BY <1>1, <1>3, <1>4, <1>5

LEMMA RunTypes ==
  ASSUME TypeInv, RunInvoked \/ RunCustom
  PROVE  TypeInv'
<1>1. PICK t \in Task :
        /\ Hands(t) /\ Execute(t) /\ Grows
        /\ \/ defaultQueue # <<>> /\ defaultQueue' = Tail(defaultQueue) /\ customQueue' = customQueue
           \/ customQueue # <<>> /\ customQueue' = Tail(customQueue) /\ defaultQueue' = defaultQueue
        /\ UNCHANGED <<sent, subscriptions, broker, dispatching, action, entities, crashed, history>>
  BY RunInvokedIs, RunCustomIs, Zenon
<1>2. SentOK' /\ SubscriptionsOK' /\ EntriesOK' /\ DispatchOK' /\ ActionOK'
  BY <1>1, EntriesStay, DispatchStays, ActionStays DEF TypeInv, SentOK, SubscriptionsOK
<1>3. TasksOK'
  BY <1>1, TasksShrink
<1>4. ResultsOK'
  BY <1>1, ExecuteTypes
<1>5. HistoryOK'
  BY <1>1, Zenon DEF TypeInv, HistoryOK, history
<1>. QED
  BY <1>2, <1>3, <1>4, <1>5 DEF TypeInv

LEMMA TypeStutters ==
  ASSUME TypeInv, UNCHANGED brokerVars
  PROVE  TypeInv'
<1>1. /\ UNCHANGED <<sent, subscriptions, broker, dispatching, action, defaultQueue, customQueue, entities>>
      /\ UNCHANGED <<executed, dropped, astray, crashed, raced, abandoned>>
  BY DEF brokerVars, queues, results, history
<1>2. Grows
  BY <1>1, Stays
<1>3. SentOK' /\ SubscriptionsOK' /\ EntriesOK' /\ DispatchOK' /\ ActionOK' /\ TasksOK' /\ ResultsOK'
  BY <1>1, <1>2, EntriesStay, DispatchStays, ActionStays, TasksStay, ResultsStay
     DEF TypeInv, SentOK, SubscriptionsOK, results
<1>4. HistoryOK'
  BY <1>1, Zenon DEF TypeInv, HistoryOK
<1>. QED
  BY <1>3, <1>4 DEF TypeInv

LEMMA TypeStep == TypeInv /\ [BrokerNext]_brokerVars => TypeInv'
<1>. SUFFICES ASSUME TypeInv, [BrokerNext]_brokerVars PROVE TypeInv'
  OBVIOUS
<1>1. ASSUME NEW id \in Id, Dispatch(id) \/ AdviseOn(id) \/ LifetimeEnds(id) PROVE TypeInv'
  BY <1>1, DispatchTypes, AdviseOnTypes, LifetimeEndsTypes
<1>2. CASE Put
  BY <1>2, PutTypes
<1>3. CASE DefaultThread
  BY <1>3, BeginDeferredTypes, PopTypes, DeliverTypes, CheckTypes, TakeTypes, FlushTypes, RunTypes DEF DefaultThread
<1>4. CASE RunCustom
  BY <1>4, RunTypes
<1>5. CASE UNCHANGED brokerVars
  BY <1>5, TypeStutters
<1>. QED
  BY <1>1, <1>2, <1>3, <1>4, <1>5 DEF BrokerNext, SocketThread

LEMMA TypeAlways == BrokerSpec => []TypeInv
BY TypeInit, TypeStep, PTL DEF BrokerSpec

\* The types of the broker, for any ids, messages and entities: every index a
\* queue, an entry or an action holds is that of a message that arrived.
THEOREM BrokerTypes == BrokerSpec => []BrokerTypeOK
<1>1. TypeInv => BrokerTypeOK
  BY TypeInvTypes
<1>. QED
  BY <1>1, TypeAlways, PTL

-----------------------------------------------------------------------------
(* Entries, the tasks that were queued for them, and who is subscribed *)

Ascending(s) == \A i, j \in 1 .. Len(s) : i < j => s[i] < s[j]

\* The action takes the first message of the entry it was queued for.
Popping(id) == action.at = "pop" /\ action.id = id /\ action.entry = Entry(id)

\* The messages that wait for a task of their own.
Rest(id) == Elements(Dsm(id)) \ (IF Popping(id) THEN {Head(Dsm(id))} ELSE {})

\* The message of the action, which is older than all of the queue.
Front ==
  IF action.at = "idle" \/ action.id \in raced THEN {}
  ELSE IF Popping(action.id) THEN {Head(Dsm(action.id))} ELSE {action.message} \ {0}

\* Message n is the one for which task t was queued.
Numbers(n, t) ==
  /\ n \in 1 .. Len(sent) /\ n # dispatching.message
  /\ sent[n] = t.id /\ t.entry <= n
  /\ t.op = "invoke" => n = t.message
  /\ t.op = "deferred" /\ t.entry = Entry(t.id) => n \in Rest(t.id)

IsDeferred(t, id) == t.op = "deferred" /\ t.id = id

\* The messages c for which the tasks of the default scheduler were queued, in
\* the order in which they arrived.  A deferred task that finds its entry finds
\* its own message in it, and each that waits has a task.
Numbering(c) ==
  /\ c \in Seq(MessageNumber) /\ Len(c) = Len(defaultQueue) /\ Ascending(c)
  /\ \A i \in 1 .. Len(c) : Numbers(c[i], defaultQueue[i])
  /\ \A id \in Id \ raced : \A n \in Rest(id) :
       \E i \in 1 .. Len(c) : IsDeferred(defaultQueue[i], id) /\ c[i] = n
  /\ \A n \in Front, i \in 1 .. Len(c) : n < c[i]

WaitingInv ==
  /\ \A id \in Id : Ascending(Dsm(id)) /\ (Popping(id) => Dsm(id) # <<>>)
  /\ dispatching.message # 0 =>
       /\ action.entry # dispatching.message /\ action.message # dispatching.message
       /\ \A id \in Id : dispatching.message \notin Elements(Dsm(id))
  /\ action.taken # <<>> => action.id \in CustomIds

\* Who looks for the entry of id finds the one that is there, and an entry that
\* goes is empty.
EntryOK(id) ==
  /\ dispatching.message # 0 /\ Target = id => Entry(id) = dispatching.entry
  /\ action.id = id /\ action.at \in {"pop", "deliver", "check", "take"} => Entry(id) = action.entry
  /\ action.id = id /\ action.at \in {"take", "flush"} => Dsm(id) = <<>>
  /\ action.id = id /\ action.at = "flush" => Csm(id) = <<>>
  /\ \A i \in 1 .. Len(defaultQueue) : IsDeferred(defaultQueue[i], id) => defaultQueue[i].entry = Entry(id)
  /\ Entry(id) = 0 => Dsm(id) = <<>> /\ Csm(id) = <<>>

EntryInv == \A id \in Id \ raced : EntryOK(id)

\* Who is subscribed while a message or an action is under way.
PresenceInv ==
  /\ action.at # "idle" /\ (IsEntity(action.subscription) \/ IsEntity(subscriptions[action.id])) =>
       subscriptions[action.id] = action.subscription
  /\ dispatching.message # 0 /\ ~IsEntity(dispatching.subscription) => ~IsEntity(subscriptions[Target])
  /\ dispatching.message # 0 /\ IsEntity(dispatching.subscription) /\ Target \in CustomIds \ abandoned =>
       subscriptions[Target] = dispatching.subscription
  /\ \A id \in CustomIds \ abandoned : Csm(id) # <<>> => IsEntity(subscriptions[id])
  /\ action.id \notin abandoned /\ action.taken # <<>> => IsEntity(action.subscription)

LiveInv == PresenceInv /\ EntryInv /\ WaitingInv /\ \E c \in Seq(MessageNumber) : Numbering(c)

BrokerInv == TypeInv /\ (~crashed => LiveInv) /\ CrashIsExplained

LEMMA AppendedElements ==
  ASSUME NEW S, NEW s \in Seq(S), NEW n \in S
  PROVE  Elements(Append(s, n)) = Elements(s) \cup {n} /\ Elements(s) \subseteq S
<1>1. ASSUME NEW x \in Elements(Append(s, n)) PROVE x \in Elements(s) \cup {n}
  <2>1. PICK i \in 1 .. Len(s) + 1 : x = Append(s, n)[i]
    BY Appended DEF Elements
  <2>. QED
    BY <2>1, Appended DEF Elements
<1>2. Elements(s) \subseteq Elements(Append(s, n))
  BY Appended DEF Elements
<1>3. n \in Elements(Append(s, n))
  <2>1. Len(s) + 1 \in 1 .. Len(Append(s, n)) /\ Append(s, n)[Len(s) + 1] = n
    BY Appended
  <2>. QED
    BY <2>1 DEF Elements
<1>4. Elements(s) \subseteq S
  BY DEF Elements
<1>. QED
  BY <1>1, <1>2, <1>3, <1>4

LEMMA TakenElements ==
  ASSUME NEW S, NEW s \in Seq(S), s # <<>>
  PROVE  /\ Elements(s) = {Head(s)} \cup Elements(Tail(s))
         /\ Head(s) \in Elements(s) /\ Elements(s) \subseteq S /\ Head(s) \in S
<1>1. 1 \in 1 .. Len(s) /\ Head(s) = s[1]
  BY Taken
<1>2. Head(s) \in Elements(s)
  BY <1>1 DEF Elements
<1>3. Elements(Tail(s)) \subseteq Elements(s)
  BY Taken DEF Elements
<1>4. ASSUME NEW x \in Elements(s), x # Head(s) PROVE x \in Elements(Tail(s))
  <2>1. PICK i \in 1 .. Len(s) : x = s[i]
    BY DEF Elements
  <2>2. i # 1 /\ i - 1 \in 1 .. Len(s) - 1
    BY <1>1, <1>4, <2>1
  <2>3. i - 1 \in 1 .. Len(Tail(s)) /\ Tail(s)[i - 1] = s[i]
    BY <2>2, Taken
  <2>. QED
    BY <2>1, <2>3 DEF Elements
<1>5. Elements(s) \subseteq S
  BY DEF Elements
<1>. QED
  BY <1>2, <1>3, <1>4, <1>5

LEMMA NoElements ==
  /\ Elements(<<>>) = {} /\ Ascending(<<>>)
  /\ \A S : \A s \in Seq(S) : Elements(s) = {} => s = <<>>
<1>1. Elements(<<>>) = {} /\ Ascending(<<>>)
  BY DEF Elements, Ascending
<1>2. ASSUME NEW S, NEW s \in Seq(S), Elements(s) = {} PROVE s = <<>>
  BY <1>2, TakenElements
<1>. QED
  BY <1>1, <1>2

LEMMA AppendedAscending ==
  ASSUME NEW s \in Seq(MessageNumber), NEW n \in MessageNumber, Ascending(s), \A m \in Elements(s) : m < n
  PROVE  Ascending(Append(s, n))
<1>. SUFFICES ASSUME NEW i \in 1 .. Len(s) + 1, NEW j \in 1 .. Len(s) + 1, i < j
              PROVE  Append(s, n)[i] < Append(s, n)[j]
  BY Appended DEF Ascending
<1>1. i \in 1 .. Len(s) /\ Append(s, n)[i] = s[i] /\ s[i] \in Elements(s)
  BY Appended DEF Elements
<1>2. CASE j \in 1 .. Len(s)
  BY <1>1, <1>2, Appended DEF Ascending
<1>3. CASE j \notin 1 .. Len(s)
  <2>1. Append(s, n)[j] = n
    BY <1>3, Appended
  <2>. QED
    BY <1>1, <2>1
<1>. QED
  BY <1>2, <1>3

LEMMA TakenAscending ==
  ASSUME NEW s \in Seq(MessageNumber), s # <<>>, Ascending(s)
  PROVE  /\ Ascending(Tail(s)) /\ \A n \in Elements(Tail(s)) : Head(s) < n
         /\ Elements(Tail(s)) = Elements(s) \ {Head(s)}
<1>1. Ascending(Tail(s))
  <2>. SUFFICES ASSUME NEW i \in 1 .. Len(Tail(s)), NEW j \in 1 .. Len(Tail(s)), i < j
                PROVE  Tail(s)[i] < Tail(s)[j]
    BY DEF Ascending
  <2>1. /\ Tail(s)[i] = s[i + 1] /\ i + 1 \in 1 .. Len(s)
        /\ Tail(s)[j] = s[j + 1] /\ j + 1 \in 1 .. Len(s)
    BY Taken
  <2>. QED
    BY <2>1 DEF Ascending
<1>2. ASSUME NEW n \in Elements(Tail(s)) PROVE Head(s) < n
  <2>1. PICK i \in 1 .. Len(Tail(s)) : n = Tail(s)[i]
    BY DEF Elements
  <2>2. n = s[i + 1] /\ i + 1 \in 1 .. Len(s) /\ 1 \in 1 .. Len(s) /\ Head(s) = s[1] /\ 1 < i + 1
    BY <2>1, Taken
  <2>. QED
    BY <2>2 DEF Ascending
<1>3. Head(s) \notin Elements(Tail(s))
  <2>1. Head(s) \in Int
    BY TakenElements, BrokerAssumption DEF MessageNumber
  <2>. QED
    BY <1>2, <2>1
<1>. QED
  BY <1>1, <1>2, <1>3, TakenElements

\* A step after which each task finds what it would have found before.
TasksSteady ==
  /\ Grows /\ raced \subseteq raced'
  /\ dispatching'.message \in {0, dispatching.message} \/ dispatching'.message > Len(sent)
  /\ \A x \in Id :
       \/ Rest(x) \subseteq Rest(x)' /\ Entry(x)' = Entry(x)
       \/ Entry(x)' > Len(sent) \/ Entry(x)' = dispatching.message \/ Entry(x)' = 0

\* Such a step that queues nothing on the default scheduler, and takes nothing there.
QueueSteady ==
  /\ TasksSteady /\ defaultQueue' = defaultQueue
  /\ \A x \in Id : Rest(x)' \subseteq Rest(x)
  /\ Front' \subseteq Front

LEMMA NumbersStay ==
  ASSUME TypeInv, TasksSteady, NEW n \in MessageNumber, NEW t \in Task, DefaultTask(t), Numbers(n, t)
  PROVE  Numbers(n, t)'
<1>1. n \in 1 .. Len(sent)' /\ sent'[n] = t.id /\ t.entry <= n /\ (t.op = "invoke" => n = t.message)
  BY DEF Numbers, TasksSteady, Grows
<1>2. n # dispatching'.message
  BY BrokerAssumption DEF Numbers, TasksSteady, Grows, MessageNumber
<1>3. ASSUME t.op = "deferred", t.entry = Entry(t.id)' PROVE n \in Rest(t.id)'
  <2>1. t.id \in Id /\ t.entry \in 1 .. Len(sent) /\ Len(sent) \in Nat
    BY <1>3 DEF Task, DefaultTask, TasksSteady, Grows
  <2>2. ~(Entry(t.id)' > Len(sent)) /\ Entry(t.id)' # 0
    BY <1>3, <2>1
  <2>3. Entry(t.id)' # dispatching.message
    <3>1. dispatching.message # 0 => dispatching.message = Len(sent)
      BY DEF TypeInv, DispatchOK
    <3>2. n \in 1 .. Len(sent) /\ n # dispatching.message /\ t.entry <= n
      BY DEF Numbers
    <3>. QED
      BY <1>3, <2>1, <3>1, <3>2
  <2>4. Rest(t.id) \subseteq Rest(t.id)' /\ Entry(t.id)' = Entry(t.id)
    BY <2>1, <2>2, <2>3 DEF TasksSteady
  <2>. QED
    BY <1>3, <2>4 DEF Numbers
<1>. QED
  BY <1>1, <1>2, <1>3 DEF Numbers

LEMMA NumberingStays ==
  ASSUME TypeInv, QueueSteady, NEW c, Numbering(c)
  PROVE  Numbering(c)'
<1>1. /\ c \in Seq(MessageNumber) /\ Len(c) = Len(defaultQueue)' /\ Ascending(c)
      /\ defaultQueue' = defaultQueue
  BY DEF Numbering, QueueSteady
<1>2. ASSUME NEW i \in 1 .. Len(c) PROVE Numbers(c[i], defaultQueue[i])'
  <2>1. c[i] \in MessageNumber /\ Numbers(c[i], defaultQueue[i])
    BY <1>1 DEF Numbering
  <2>2. defaultQueue[i] \in Task /\ DefaultTask(defaultQueue[i])
    BY <1>1 DEF TypeInv, TasksOK
  <2>3. PICK t \in Task : t = defaultQueue[i]
    BY <2>2
  <2>4. Numbers(c[i], t)'
    BY <2>1, <2>2, <2>3, NumbersStay DEF QueueSteady
  <2>. QED
    BY <1>1, <2>3, <2>4 DEF Numbers
<1>3. ASSUME NEW id \in Id \ raced', NEW n \in Rest(id)'
      PROVE  \E i \in 1 .. Len(c) : IsDeferred(defaultQueue[i], id)' /\ c[i] = n
  <2>1. id \in Id \ raced /\ n \in Rest(id)
    BY <1>3 DEF QueueSteady, TasksSteady
  <2>2. PICK i \in 1 .. Len(c) : IsDeferred(defaultQueue[i], id) /\ c[i] = n
    BY <2>1 DEF Numbering
  <2>. QED
    BY <1>1, <2>2 DEF IsDeferred
<1>4. ASSUME NEW n \in Front', NEW i \in 1 .. Len(c) PROVE n < c[i]
  BY <1>4 DEF Numbering, QueueSteady
<1>. QED
  BY <1>1, <1>2, <1>3, <1>4 DEF Numbering, Ascending

\* A task is queued for message m.
LEMMA NumberingMore ==
  ASSUME TypeInv, TasksSteady, NEW c, Numbering(c), NEW m \in MessageNumber, NEW t \in Task,
         defaultQueue' = Append(defaultQueue, t), Numbers(m, t)',
         \A n \in 1 .. Len(sent) : n # dispatching.message => n < m,
         \A x \in Id \ raced' : \A n \in Rest(x)' : n \in Rest(x) \/ (n = m /\ IsDeferred(t, x)),
         Front' \subseteq Front, \A n \in Front' : n < m
  PROVE  Numbering(Append(c, m))'
<1>0. PICK d : d = Append(c, m)
  OBVIOUS
<1>1. /\ c \in Seq(MessageNumber) /\ Len(c) = Len(defaultQueue) /\ Ascending(c)
      /\ \A i \in 1 .. Len(c) : Numbers(c[i], defaultQueue[i])
      /\ defaultQueue \in Seq(Task) /\ \A i \in 1 .. Len(defaultQueue) : DefaultTask(defaultQueue[i])
  BY DEF Numbering, TypeInv, TasksOK
<1>2. /\ d \in Seq(MessageNumber) /\ Len(d) = Len(c) + 1 /\ Len(c) \in Nat
      /\ Len(defaultQueue') = Len(defaultQueue) + 1
      /\ \A i \in 1 .. Len(c) : d[i] = c[i] /\ defaultQueue'[i] = defaultQueue[i] /\ i \in 1 .. Len(d)
      /\ d[Len(c) + 1] = m /\ defaultQueue'[Len(c) + 1] = t /\ Len(c) + 1 \in 1 .. Len(d)
      /\ \A i \in 1 .. Len(d) : i \in 1 .. Len(c) \/ i = Len(c) + 1
  BY <1>0, <1>1, Appended
<1>3. \A n \in Elements(c) : n < m
  BY <1>1 DEF Elements, Numbers
<1>4. Ascending(d)
  BY <1>0, <1>1, <1>3, AppendedAscending
<1>5. ASSUME NEW i \in 1 .. Len(d) PROVE Numbers(d[i], defaultQueue[i])'
  <2>1. CASE i \in 1 .. Len(c)
    <3>1. c[i] \in MessageNumber /\ defaultQueue[i] \in Task
      BY <1>1, <2>1
    <3>2. PICK n \in MessageNumber, u \in Task : n = c[i] /\ u = defaultQueue[i]
      BY <3>1
    <3>3. Numbers(n, u)'
      BY <1>1, <2>1, <3>2, NumbersStay
    <3>. QED
      BY <1>2, <2>1, <3>2, <3>3 DEF Numbers
  <2>2. CASE i = Len(c) + 1
    BY <1>2, <2>2 DEF Numbers
  <2>. QED
    BY <1>2, <2>1, <2>2
<1>6. ASSUME NEW x \in Id \ raced', NEW n \in Rest(x)'
      PROVE  \E i \in 1 .. Len(d) : IsDeferred(defaultQueue[i], x)' /\ d[i] = n
  <2>1. CASE n \in Rest(x)
    <3>1. x \in Id \ raced
      BY DEF TasksSteady
    <3>2. PICK i \in 1 .. Len(c) : IsDeferred(defaultQueue[i], x) /\ c[i] = n
      BY <2>1, <3>1 DEF Numbering
    <3>. QED
      BY <1>2, <3>2 DEF IsDeferred
  <2>2. CASE n = m /\ IsDeferred(t, x)
    BY <1>2, <2>2 DEF IsDeferred
  <2>. QED
    BY <2>1, <2>2
<1>7. ASSUME NEW n \in Front', NEW i \in 1 .. Len(d) PROVE n < d[i]
  BY <1>2, <1>7 DEF Numbering
<1>. QED
  <2>1. Numbering(d)'
    BY <1>1, <1>2, <1>4, <1>5, <1>6, <1>7 DEF Numbering, Ascending
  <2>. QED
    BY <1>0, <2>1

\* The first task is taken.
LEMMA NumberingLess ==
  ASSUME TypeInv, NEW c, Numbering(c), defaultQueue # <<>>, defaultQueue' = Tail(defaultQueue),
         \A i \in 2 .. Len(c) : Numbers(c[i], defaultQueue[i]) => Numbers(c[i], defaultQueue[i - 1])',
         \A x \in Id \ raced' : \A n \in Rest(x)' :
           x \notin raced /\ n \in Rest(x) /\ ~(n = c[1] /\ IsDeferred(defaultQueue[1], x)),
         \A n \in Front', i \in 2 .. Len(c) : n < c[i]
  PROVE  Numbering(Tail(c))' /\ c # <<>>
<1>0. PICK d : d = Tail(c)
  OBVIOUS
<1>1. /\ c \in Seq(MessageNumber) /\ Len(c) = Len(defaultQueue) /\ Ascending(c)
      /\ \A i \in 1 .. Len(c) : Numbers(c[i], defaultQueue[i])
      /\ defaultQueue \in Seq(Task)
  BY DEF Numbering, TypeInv, TasksOK
<1>2. c # <<>>
  BY <1>1
<1>3. /\ d \in Seq(MessageNumber) /\ Len(d) = Len(c) - 1 /\ Len(defaultQueue') = Len(defaultQueue) - 1
      /\ Len(c) \in Nat /\ Len(c) >= 1 /\ Ascending(d)
      /\ \A i \in 1 .. Len(d) : i + 1 \in 2 .. Len(c) /\ d[i] = c[i + 1] /\ defaultQueue'[i] = defaultQueue[i + 1]
      /\ \A i \in 2 .. Len(c) : i - 1 \in 1 .. Len(d) /\ d[i - 1] = c[i] /\ defaultQueue'[i - 1] = defaultQueue[i]
  BY <1>0, <1>1, <1>2, Taken, TakenAscending
<1>4. ASSUME NEW i \in 1 .. Len(d) PROVE Numbers(d[i], defaultQueue[i])'
  <2>1. PICK j \in 2 .. Len(c) : j = i + 1
    BY <1>3
  <2>2. j \in 1 .. Len(c) /\ Numbers(c[j], defaultQueue[j]) /\ i = j - 1 /\ d[i] = c[j]
    BY <1>1, <1>3, <2>1
  <2>3. Numbers(c[j], defaultQueue[j - 1])'
    BY <2>2
  <2>. QED
    BY <2>2, <2>3 DEF Numbers
<1>5. ASSUME NEW x \in Id \ raced', NEW n \in Rest(x)'
      PROVE  \E i \in 1 .. Len(d) : IsDeferred(defaultQueue[i], x)' /\ d[i] = n
  <2>1. PICK i \in 1 .. Len(c) : IsDeferred(defaultQueue[i], x) /\ c[i] = n
    BY DEF Numbering
  <2>2. i # 1 /\ i \in 2 .. Len(c)
    <3>1. i # 1
      BY <2>1
    <3>. QED
      BY <1>3, <3>1
  <2>3. i - 1 \in 1 .. Len(d) /\ d[i - 1] = n /\ defaultQueue'[i - 1] = defaultQueue[i]
    BY <1>3, <2>1, <2>2
  <2>. QED
    BY <2>1, <2>3 DEF IsDeferred
<1>6. ASSUME NEW n \in Front', NEW i \in 1 .. Len(d) PROVE n < d[i]
  BY <1>3, <1>6
<1>. QED
  <2>1. Numbering(d)'
    BY <1>1, <1>3, <1>4, <1>5, <1>6 DEF Numbering, Ascending
  <2>. QED
    BY <1>0, <1>2, <2>1

-----------------------------------------------------------------------------
(* Steps that leave the queue of the default scheduler alone *)

LEMMA SameElements ==
  ASSUME NEW x, Dsm(x)' = Dsm(x)
  PROVE  Elements(Dsm(x))' = Elements(Dsm(x)) /\ (Ascending(Dsm(x)) => Ascending(Dsm(x))')
BY DEF Elements, Ascending

LEMMA SameRest ==
  ASSUME action' = action, NEW x, Entry(x)' = Entry(x), Dsm(x)' = Dsm(x)
  PROVE  Rest(x)' = Rest(x) /\ (Popping(x)' <=> Popping(x))
BY DEF Rest, Popping, Elements

LEMMA SameFront ==
  ASSUME TypeInv, action' = action, raced \subseteq raced',
         \A x \in Id : Entry(x)' = Entry(x) /\ Dsm(x)' = Dsm(x)
  PROVE  Front' \subseteq Front
<1>1. CASE action.at = "idle"
  BY <1>1 DEF Front
<1>2. CASE action.at # "idle"
  <2>1. PICK id \in Id : id = action.id
    BY <1>2, ActionIs
  <2>2. (Popping(id)' <=> Popping(id)) /\ Dsm(id)' = Dsm(id)
    BY <2>1, SameRest
  <2>3. (Popping(action.id)' <=> Popping(action.id)) /\ Dsm(action.id)' = Dsm(action.id) /\ action'.id = action.id
    BY <2>1, <2>2 DEF Popping, Dsm, Entry
  <2>. QED
    BY <1>2, <2>3 DEF Front
<1>. QED
  BY <1>1, <1>2

\* The broker, the action and the queue stay.
LEMMA SameSteady ==
  ASSUME TypeInv, Grows, raced \subseteq raced', defaultQueue' = defaultQueue, action' = action,
         dispatching'.message \in {0, dispatching.message},
         \A x \in Id : Entry(x)' = Entry(x) /\ Dsm(x)' = Dsm(x)
  PROVE  QueueSteady /\ \A x \in Id : (Popping(x)' <=> Popping(x)) /\ Rest(x)' = Rest(x)
<1>1. \A x \in Id : (Popping(x)' <=> Popping(x)) /\ Rest(x)' = Rest(x)
  BY SameRest
<1>2. Front' \subseteq Front
  BY SameFront
<1>. QED
  BY <1>1, <1>2 DEF QueueSteady, TasksSteady

LEMMA DispatchSteady ==
  ASSUME TypeInv, NEW id \in Id, Dispatch(id)
  PROVE  QueueSteady /\ \A x \in Id : Popping(x)' <=> Popping(x)
<1>1. /\ \A x \in Id : (x # id => Entry(x)' = Entry(x)) /\ Dsm(x)' = Dsm(x)
      /\ Entry(id)' = Entry(id) \/ (Entry(id) = 0 /\ Entry(id)' = Len(sent) + 1)
      /\ UNCHANGED <<action, queues, history>> /\ Grows /\ Len(sent) \in Nat
      /\ dispatching' = [message |-> Len(sent) + 1, subscription |-> subscriptions[id], entry |-> Entry(id)']
  BY DispatchIs DEF Grows
<1>2. action.at = "pop" => action.entry # 0 /\ action.entry # Len(sent) + 1
  <2>1. action.at = "pop" => action.entry \in 1 .. MaxMessages
    BY ActionIs DEF ActionRecord
  <2>2. action.entry <= Len(sent)
    BY DEF TypeInv, ActionOK
  <2>. QED
    BY <1>1, <2>1, <2>2, BrokerAssumption
<1>3. ASSUME NEW x \in Id PROVE (Popping(x)' <=> Popping(x)) /\ Rest(x)' = Rest(x)
  <2>1. CASE Entry(x)' = Entry(x)
    BY <1>1, <2>1, SameRest
  <2>2. CASE Entry(x)' # Entry(x)
    <3>1. ~Popping(x) /\ ~Popping(x)'
      BY <1>1, <1>2, <2>2 DEF Popping
    <3>. QED
      BY <1>1, <3>1 DEF Rest, Elements
  <2>. QED
    BY <2>1, <2>2
<1>4. Front' \subseteq Front
  <2>1. CASE action.at = "idle"
    BY <1>1, <2>1 DEF Front
  <2>2. CASE action.at # "idle"
    <3>1. PICK i \in Id : i = action.id
      BY <2>2, ActionIs
    <3>2. (Popping(i)' <=> Popping(i)) /\ Dsm(i)' = Dsm(i)
      BY <1>1, <1>3, <3>1
    <3>3. (Popping(action.id)' <=> Popping(action.id)) /\ Dsm(action.id)' = Dsm(action.id)
      BY <1>1, <3>1, <3>2 DEF Popping, Dsm, Entry
    <3>. QED
      BY <1>1, <2>2, <3>3 DEF Front, history
  <2>. QED
    BY <2>1, <2>2
<1>5. \A x \in Id : Entry(x)' = Entry(x) \/ Entry(x)' > Len(sent)
  BY <1>1
<1>6. dispatching'.message > Len(sent)
  BY <1>1
<1>. QED
  BY <1>1, <1>3, <1>4, <1>5, <1>6 DEF QueueSteady, TasksSteady, queues, history

LEMMA PopSteady ==
  ASSUME TypeInv, WaitingInv, Pop, ~crashed'
  PROVE  QueueSteady /\ \A x \in Id : ~Popping(x)'
<1>1. PICK id : id = action.id
  OBVIOUS
<1>2. /\ id \in Id /\ action.at = "pop"
      /\ \A x \in Id : Entry(x)' = Entry(x) /\ (x # id => Dsm(x)' = Dsm(x))
      /\ Dsm(id)' = IF Dsm(id) = <<>> THEN <<>> ELSE Tail(Dsm(id))
      /\ action'.at = "deliver" /\ action'.message = IF Dsm(id) = <<>> THEN 0 ELSE Head(Dsm(id))
      /\ action'.id = id /\ Grows /\ UNCHANGED <<dispatching, queues, history>>
  BY <1>1, PopIs
<1>3. Entry(id) = action.entry
  <2>1. crashed' = (Entry(id) # action.entry)
    BY <1>1, PopIs
  <2>. QED
    BY <2>1, Zenon
<1>4. Popping(id) /\ Dsm(id) # <<>> /\ Dsm(id) \in Seq(MessageNumber) /\ Ascending(Dsm(id))
  BY <1>1, <1>2, <1>3, EntryTypes DEF Popping, WaitingInv
<1>5. \A x \in Id : ~Popping(x)'
  BY <1>2 DEF Popping
<1>6. ASSUME NEW x \in Id PROVE Rest(x)' = Rest(x)
  <2>1. Rest(x)' = Elements(Dsm(x))'
    BY <1>5 DEF Rest
  <2>2. CASE x = id
    <3>1. Elements(Dsm(id))' = Elements(Tail(Dsm(id)))
      BY <1>2, <1>4 DEF Elements
    <3>. QED
      BY <1>4, <2>1, <2>2, <3>1, TakenAscending DEF Rest
  <2>3. CASE x # id
    <3>1. ~Popping(x) /\ Elements(Dsm(x))' = Elements(Dsm(x))
      BY <1>1, <1>2, <2>3 DEF Popping, Elements
    <3>. QED
      BY <2>1, <3>1 DEF Rest
  <2>. QED
    BY <2>2, <2>3
<1>7. Front' \subseteq Front
  <2>1. Front' \subseteq IF id \in raced THEN {} ELSE {Head(Dsm(id))}
    BY <1>2, <1>4 DEF Front, Popping, history
  <2>2. Front = IF id \in raced THEN {} ELSE {Head(Dsm(id))}
    BY <1>1, <1>2, <1>4 DEF Front
  <2>. QED
    BY <2>1, <2>2
<1>. QED
  BY <1>2, <1>5, <1>6, <1>7 DEF QueueSteady, TasksSteady, queues, history

\* A step of the action after it has taken its message.
LEMMA LaterSteady ==
  ASSUME TypeInv, Grows, raced \subseteq raced', defaultQueue' = defaultQueue, dispatching' = dispatching,
         action.at \in {"deliver", "check", "take", "flush"},
         action'.at \in {"idle", "check", "take", "flush"}, action'.message = 0,
         \A x \in Id : (Entry(x)' = Entry(x) /\ Dsm(x)' = Dsm(x)) \/ (Entry(x)' = 0 /\ Dsm(x)' = <<>>)
  PROVE  QueueSteady /\ \A x \in Id : ~Popping(x)'
<1>1. \A x : ~Popping(x) /\ ~Popping(x)'
  BY DEF Popping
<1>2. \A x \in Id : Rest(x) = Elements(Dsm(x)) /\ Rest(x)' = Elements(Dsm(x))'
  BY <1>1 DEF Rest
<1>3. ASSUME NEW x \in Id
      PROVE  (Entry(x)' = Entry(x) /\ Rest(x)' = Rest(x)) \/ (Entry(x)' = 0 /\ Rest(x)' = {})
  <2>1. CASE Entry(x)' = Entry(x) /\ Dsm(x)' = Dsm(x)
    BY <1>2, <2>1, SameElements
  <2>2. CASE Entry(x)' = 0 /\ Dsm(x)' = <<>>
    <3>1. Elements(Dsm(x))' = Elements(<<>>)
      BY <2>2 DEF Elements
    <3>. QED
      BY <1>2, <2>2, <3>1, NoElements
  <2>. QED
    BY <2>1, <2>2
<1>4. Front' = {}
  BY DEF Front, Popping
<1>. QED
  BY <1>1, <1>3, <1>4 DEF QueueSteady, TasksSteady

-----------------------------------------------------------------------------
(* What is kept when little changes *)

LEMMA LivingNumbers ==
  ASSUME TypeInv, LiveInv, QueueSteady
  PROVE  \E c \in Seq(MessageNumber) : Numbering(c)'
<1>1. PICK c \in Seq(MessageNumber) : Numbering(c)
  BY DEF LiveInv
<1>. QED
  BY <1>1, NumberingStays

\* An id whose entry a step leaves alone.
LEMMA EntryStays ==
  ASSUME TypeInv, EntryInv, raced \subseteq raced', NEW x \in Id \ raced',
         Entry(x)' = Entry(x), Dsm(x)' = Dsm(x), Csm(x)' = Csm(x),
         dispatching'.message = 0 \/ Target' # x \/ (dispatching' = dispatching /\ Target' = Target),
         action' = action \/ action'.id # x \/ action'.at = "idle",
         \A i \in 1 .. Len(defaultQueue') :
           IsDeferred(defaultQueue'[i], x) => \E j \in 1 .. Len(defaultQueue) : defaultQueue'[i] = defaultQueue[j]
  PROVE  EntryOK(x)'
<1>1. EntryOK(x)
  BY DEF EntryInv
<1>2. dispatching'.message # 0 /\ Target' = x => Entry(x)' = dispatching'.entry
  BY <1>1 DEF EntryOK
<1>3. /\ action'.id = x /\ action'.at \in {"pop", "deliver", "check", "take"} => Entry(x)' = action'.entry
      /\ action'.id = x /\ action'.at \in {"take", "flush"} => Dsm(x)' = <<>>
      /\ action'.id = x /\ action'.at = "flush" => Csm(x)' = <<>>
  BY <1>1 DEF EntryOK
<1>4. \A i \in 1 .. Len(defaultQueue') : IsDeferred(defaultQueue'[i], x) => defaultQueue'[i].entry = Entry(x)'
  BY <1>1 DEF EntryOK
<1>5. Entry(x)' = 0 => Dsm(x)' = <<>> /\ Csm(x)' = <<>>
  BY <1>1 DEF EntryOK
<1>. QED
  BY <1>2, <1>3, <1>4, <1>5 DEF EntryOK, IsDeferred

LEMMA PresenceStays ==
  ASSUME PresenceInv, sent' = sent, abandoned \subseteq abandoned',
         UNCHANGED subscriptions,
         dispatching' = dispatching \/ dispatching'.message = 0,
         action'.at # "idle" =>
           action.at # "idle" /\ action'.id = action.id /\ action'.subscription = action.subscription,
         action'.taken # <<>> =>
           action.taken # <<>> /\ action'.id = action.id /\ action'.subscription = action.subscription,
         \A x \in CustomIds : Csm(x)' # <<>> => Csm(x) # <<>>
  PROVE  PresenceInv'
<1>1. action'.at # "idle" /\ (IsEntity(action'.subscription) \/ IsEntity(subscriptions'[action'.id])) =>
        subscriptions'[action'.id] = action'.subscription
  BY DEF PresenceInv
<1>2. /\ dispatching'.message # 0 /\ ~IsEntity(dispatching'.subscription) => ~IsEntity(subscriptions'[Target'])
      /\ dispatching'.message # 0 /\ IsEntity(dispatching'.subscription) /\ Target' \in CustomIds \ abandoned' =>
           subscriptions'[Target'] = dispatching'.subscription
  <2>1. CASE dispatching' = dispatching
    BY <2>1 DEF PresenceInv, Target
  <2>2. CASE dispatching'.message = 0
    BY <2>2
  <2>. QED
    BY <2>1, <2>2
<1>3. \A id \in CustomIds \ abandoned' : Csm(id)' # <<>> => IsEntity(subscriptions'[id])
  BY DEF PresenceInv
<1>4. action'.id \notin abandoned' /\ action'.taken # <<>> => IsEntity(action'.subscription)
  BY DEF PresenceInv
<1>. QED
  BY <1>1, <1>2, <1>3, <1>4 DEF PresenceInv, IsEntity

LEMMA WaitingStays ==
  ASSUME WaitingInv,
         \A x \in Id : Dsm(x)' = Dsm(x) /\ (Popping(x)' => Popping(x)),
         action'.entry = action.entry \/ action'.entry = 0,
         action'.message = action.message \/ action'.message = 0,
         dispatching' = dispatching \/ dispatching'.message = 0,
         action'.taken # <<>> => action.taken # <<>> /\ action'.id = action.id
  PROVE  WaitingInv'
<1>1. ASSUME NEW x \in Id
      PROVE  Ascending(Dsm(x))' /\ (Popping(x)' => Dsm(x)' # <<>>) /\ Elements(Dsm(x))' = Elements(Dsm(x))
  <2>1. Ascending(Dsm(x)) /\ (Popping(x) => Dsm(x) # <<>>)
    BY DEF WaitingInv
  <2>. QED
    BY <2>1 DEF Ascending, Elements
<1>2. dispatching'.message # 0 =>
        /\ action'.entry # dispatching'.message /\ action'.message # dispatching'.message
        /\ \A id \in Id : dispatching'.message \notin Elements(Dsm(id))'
  BY <1>1 DEF WaitingInv
<1>3. action'.taken # <<>> => action'.id \in CustomIds
  BY DEF WaitingInv
<1>. QED
  BY <1>1, <1>2, <1>3 DEF WaitingInv, Elements

-----------------------------------------------------------------------------
(* Dispatch *)

\* Looking for an id finds no entity that was not there, and loses none.
LEMMA LookupKeeps ==
  ASSUME TypeInv, NEW id \in Id, Lookup(id)
  PROVE  \A x \in Id : /\ IsEntity(subscriptions'[x]) <=> IsEntity(subscriptions[x])
                       /\ IsEntity(subscriptions[x]) => subscriptions'[x] = subscriptions[x]
<1>1. /\ subscriptions'[id] = IF subscriptions[id] = Absent THEN Null ELSE subscriptions[id]
      /\ \A x \in Id : x # id => subscriptions'[x] = subscriptions[x]
  BY DEF Lookup, TypeInv, SubscriptionsOK
<1>. QED
  BY <1>1 DEF IsEntity, Absent, Null

LEMMA ForElements ==
  ASSUME NEW id, NEW s, For(id, s)
  PROVE  \A n \in Elements(s) : n \in 1 .. Len(sent) /\ sent[n] = id
BY DEF For, Elements

LEMMA DispatchFacts ==
  ASSUME TypeInv, NEW id \in Id, Dispatch(id)
  PROVE  /\ \A x \in Id : (x # id => Entry(x)' = Entry(x)) /\ Dsm(x)' = Dsm(x) /\ Csm(x)' = Csm(x)
         /\ Entry(id)' = Entry(id) \/ (Entry(id) = 0 /\ Entry(id)' = Len(sent) + 1)
         /\ UNCHANGED <<action, defaultQueue, raced, abandoned, crashed>> /\ Len(sent) \in Nat
         /\ dispatching' = [message |-> Len(sent) + 1, subscription |-> subscriptions[id], entry |-> Entry(id)']
         /\ Target' = id /\ Lookup(id)
<1>1. Target' = id
  <2>1. sent'[Len(sent) + 1] = id
    BY DispatchIs
  <2>2. dispatching' = [message |-> Len(sent) + 1, subscription |-> subscriptions[id], entry |-> Entry(id)']
    BY DispatchIs
  <2>. QED
    BY <2>1, <2>2 DEF Target
<1>2. Lookup(id)
  BY DEF Dispatch
<1>3. /\ \A x \in Id : (x # id => Entry(x)' = Entry(x)) /\ Dsm(x)' = Dsm(x) /\ Csm(x)' = Csm(x)
      /\ Entry(id)' = Entry(id) \/ (Entry(id) = 0 /\ Entry(id)' = Len(sent) + 1)
      /\ dispatching' = [message |-> Len(sent) + 1, subscription |-> subscriptions[id], entry |-> Entry(id)']
  BY DispatchIs
<1>4. UNCHANGED <<action, defaultQueue, raced, abandoned, crashed>> /\ Len(sent) \in Nat
  BY DispatchIs DEF Grows, queues, history
<1>. QED
  BY <1>1, <1>2, <1>3, <1>4

LEMMA DispatchPresence ==
  ASSUME TypeInv, PresenceInv, NEW id \in Id, Dispatch(id)
  PROVE  PresenceInv'
<1>1. /\ \A x \in Id : Csm(x)' = Csm(x)
      /\ UNCHANGED <<action, abandoned>>
      /\ dispatching'.subscription = subscriptions[id]
      /\ Target' = id
  BY DispatchFacts
<1>2. \A x \in Id : /\ IsEntity(subscriptions'[x]) <=> IsEntity(subscriptions[x])
                    /\ IsEntity(subscriptions[x]) => subscriptions'[x] = subscriptions[x]
  BY LookupKeeps, DispatchFacts
<1>3. action.at # "idle" /\ (IsEntity(action.subscription) \/ IsEntity(subscriptions'[action.id])) =>
        subscriptions'[action.id] = action.subscription
  <2>1. action.at # "idle" => action.id \in Id
    BY ActionIs
  <2>. QED
    BY <1>2, <2>1 DEF PresenceInv
<1>4. /\ ~IsEntity(dispatching'.subscription) => ~IsEntity(subscriptions'[Target'])
      /\ IsEntity(dispatching'.subscription) => subscriptions'[Target'] = dispatching'.subscription
  BY <1>1, <1>2
<1>5. \A x \in CustomIds \ abandoned : Csm(x)' # <<>> => IsEntity(subscriptions'[x])
  <2>1. CustomIds \subseteq Id
    BY DEF Id
  <2>. QED
    BY <1>1, <1>2, <2>1 DEF PresenceInv
<1>6. action.id \notin abandoned /\ action.taken # <<>> => IsEntity(action.subscription)
  BY DEF PresenceInv
<1>. QED
  BY <1>1, <1>3, <1>4, <1>5, <1>6 DEF PresenceInv, IsEntity

LEMMA DispatchEntries ==
  ASSUME TypeInv, EntryInv, NEW id \in Id, Dispatch(id)
  PROVE  EntryInv'
<1>1. /\ \A x \in Id : (x # id => Entry(x)' = Entry(x)) /\ Dsm(x)' = Dsm(x) /\ Csm(x)' = Csm(x)
      /\ Entry(id)' = Entry(id) \/ (Entry(id) = 0 /\ Entry(id)' = Len(sent) + 1)
      /\ UNCHANGED <<action, defaultQueue, raced>>
      /\ dispatching'.entry = Entry(id)' /\ Target' = id
  BY DispatchFacts
<1>2. ASSUME NEW x \in Id \ raced', x # id PROVE EntryOK(x)'
  BY <1>1, <1>2, EntryStays
<1>3. ASSUME id \in Id \ raced' PROVE EntryOK(id)'
  <2>1. EntryOK(id)
    BY <1>1, <1>3 DEF EntryInv
  <2>2. action.id = id /\ action.at \in {"pop", "deliver", "check", "take"} =>
          Entry(id)' = Entry(id) /\ Entry(id) = action.entry
    <3>1. action.at # "idle" => action.entry \in 1 .. MaxMessages
      BY ActionIs DEF ActionRecord
    <3>. QED
      BY <1>1, <2>1, <3>1, BrokerAssumption DEF EntryOK
  <2>3. ASSUME NEW i \in 1 .. Len(defaultQueue), IsDeferred(defaultQueue[i], id)
        PROVE  defaultQueue[i].entry = Entry(id)'
    <3>1. DefaultTask(defaultQueue[i])
      BY DEF TypeInv, TasksOK
    <3>2. defaultQueue[i].entry \in 1 .. Len(sent)
      BY <2>3, <3>1 DEF DefaultTask, IsDeferred
    <3>. QED
      BY <1>1, <2>1, <2>3, <3>2 DEF EntryOK
  <2>4. Entry(id)' = 0 => Dsm(id)' = <<>> /\ Csm(id)' = <<>>
    <3>1. Entry(id)' = 0 => Entry(id) = 0
      BY <1>1 DEF TypeInv, SentOK
    <3>. QED
      BY <1>1, <2>1, <3>1 DEF EntryOK
  <2>. QED
    BY <1>1, <2>1, <2>2, <2>3, <2>4 DEF EntryOK
<1>. QED
  BY <1>2, <1>3 DEF EntryInv

LEMMA DispatchWaiting ==
  ASSUME TypeInv, WaitingInv, NEW id \in Id, Dispatch(id)
  PROVE  WaitingInv'
<1>1. /\ \A x \in Id : Dsm(x)' = Dsm(x)
      /\ action' = action /\ dispatching'.message = Len(sent) + 1 /\ Len(sent) \in Nat
  BY DispatchFacts
<1>2. ASSUME NEW x \in Id
      PROVE  Ascending(Dsm(x))' /\ (Popping(x)' => Dsm(x)' # <<>>) /\ dispatching'.message \notin Elements(Dsm(x))'
  <2>1. Ascending(Dsm(x)) /\ (Popping(x) => Dsm(x) # <<>>)
    BY DEF WaitingInv
  <2>2. Popping(x)' => Popping(x)
    BY DispatchSteady
  <2>3. \A n \in Elements(Dsm(x)) : n \in 1 .. Len(sent)
    BY EntryTypes, ForElements
  <2>. QED
    BY <1>1, <2>1, <2>2, <2>3, SameElements
<1>3. action.entry # Len(sent) + 1 /\ action.message # Len(sent) + 1
  <2>1. action.entry \in Nat /\ action.message \in Nat
    BY ActionTypes, BrokerAssumption
  <2>2. action.entry <= Len(sent) /\ action.message <= Len(sent)
    BY <1>1, <2>1 DEF TypeInv, ActionOK
  <2>. QED
    BY <1>1, <2>1, <2>2
<1>. QED
  BY <1>1, <1>2, <1>3 DEF WaitingInv, Elements

LEMMA DispatchKeeps ==
  ASSUME TypeInv, LiveInv, NEW id \in Id, Dispatch(id)
  PROVE  LiveInv'
BY DispatchPresence, DispatchEntries, DispatchWaiting, DispatchSteady, LivingNumbers DEF LiveInv

-----------------------------------------------------------------------------
(* Put *)

\* What is dispatched came after all that waits.
LEMMA NewestMessage ==
  ASSUME TypeInv, WaitingInv, dispatching.message # 0
  PROVE  /\ \A n \in 1 .. Len(sent) : n # dispatching.message => n < dispatching.message
         /\ \A x \in Id : \A n \in Elements(Dsm(x)) : n < dispatching.message
         /\ \A n \in Front : n < dispatching.message
<1>1. dispatching.message = Len(sent) /\ Len(sent) \in Nat
  BY DEF TypeInv, SentOK, DispatchOK
<1>2. \A n \in 1 .. Len(sent) : n # dispatching.message => n < dispatching.message
  BY <1>1
<1>3. ASSUME NEW x \in Id, NEW n \in Elements(Dsm(x)) PROVE n < dispatching.message
  <2>1. n \in 1 .. Len(sent)
    BY EntryTypes, ForElements
  <2>2. n # dispatching.message
    BY DEF WaitingInv
  <2>. QED
    BY <1>2, <2>1, <2>2
<1>4. ASSUME NEW n \in Front PROVE n < dispatching.message
  <2>1. action.at # "idle"
    BY DEF Front
  <2>2. PICK id \in Id : id = action.id
    BY <2>1, ActionIs
  <2>3. CASE Popping(id)
    <3>1. n = Head(Dsm(id)) /\ Dsm(id) # <<>>
      BY <2>2, <2>3 DEF Front, WaitingInv
    <3>2. Head(Dsm(id)) \in Elements(Dsm(id))
      BY <3>1, TakenElements, EntryTypes
    <3>. QED
      BY <1>3, <3>1, <3>2
  <2>4. CASE ~Popping(id)
    <3>1. n = action.message /\ n # 0
      BY <2>2, <2>4 DEF Front
    <3>2. n <= Len(sent) /\ n # dispatching.message /\ n \in Nat
      BY <3>1, ActionTypes, BrokerAssumption DEF TypeInv, ActionOK, WaitingInv
    <3>. QED
      BY <1>1, <3>2
  <2>. QED
    BY <2>3, <2>4
<1>. QED
  BY <1>2, <1>3, <1>4

LEMMA PutPresence ==
  ASSUME TypeInv, PresenceInv, Put
  PROVE  PresenceInv'
<1>1. PICK id : id = Target
  OBVIOUS
<1>2. /\ dispatching'.message = 0 /\ UNCHANGED <<sent, subscriptions, action, abandoned>>
      /\ id \in Id /\ dispatching.message # 0
  BY <1>1, PutIs DEF NoDispatch
<1>3. CASE PutDefers \/ PutInvokes
  <2>1. \A x \in Id : Csm(x)' = Csm(x)
    BY <1>1, <1>3, DefersIs, InvokesIs DEF Csm
  <2>2. \A x \in CustomIds : Csm(x)' = Csm(x)
    BY <2>1 DEF Id
  <2>. QED
    BY <1>2, <2>2, PresenceStays
<1>4. CASE PutHolds
  <2>1. \A x \in Id : x # id => Csm(x)' = Csm(x)
    BY <1>1, <1>4, HoldsIs
  <2>2. id \in CustomIds \ abandoned => IsEntity(subscriptions[id])
    BY <1>1, <1>2, <1>4 DEF PutHolds, PresenceInv
  <2>3. \A x \in CustomIds \ abandoned : Csm(x)' # <<>> => IsEntity(subscriptions[x])
    BY <2>1, <2>2 DEF PresenceInv, Id
  <2>. QED
    BY <1>2, <2>3 DEF PresenceInv, IsEntity
<1>. QED
  BY <1>3, <1>4, PutCases

\* An entry that is being taken away is that of a raced id.
LEMMA PutNotClosing ==
  ASSUME TypeInv, Put, NEW id, id = Target, id \notin raced'
  PROVE  id \notin raced /\ ~Closing(id) /\ raced' = raced
BY PutIs

LEMMA PutEntries ==
  ASSUME TypeInv, EntryInv, Put
  PROVE  EntryInv'
<1>1. PICK id : id = Target
  OBVIOUS
<1>2. /\ dispatching'.message = 0 /\ UNCHANGED <<sent, action>> /\ raced \subseteq raced'
      /\ id \in Id /\ dispatching.message # 0
  BY <1>1, PutIs DEF NoDispatch
<1>3. CASE PutDefers
  <2>1. /\ \A x \in Id : x # id => Entry(x)' = Entry(x) /\ Dsm(x)' = Dsm(x) /\ Csm(x)' = Csm(x)
        /\ Csm(id)' = Csm(id)
        /\ Entry(id)' = IF Entry(id) = 0 THEN dispatching.message ELSE Entry(id)
        /\ Deferred(id, dispatching.entry) \in Task
        /\ defaultQueue' = Append(defaultQueue, Deferred(id, dispatching.entry))
    BY <1>1, <1>2, <1>3, DefersIs
  <2>2. dispatching.entry # 0
    BY <1>1, <1>2, <1>3, PutIs DEF PutDefers
  <2>3. /\ defaultQueue \in Seq(Task)
        /\ \A i \in 1 .. Len(defaultQueue') :
             \/ i \in 1 .. Len(defaultQueue) /\ defaultQueue'[i] = defaultQueue[i]
             \/ defaultQueue'[i] = Deferred(id, dispatching.entry)
    BY <2>1, Appended DEF TypeInv, TasksOK
  <2>4. /\ Deferred(id, dispatching.entry).id = id
        /\ Deferred(id, dispatching.entry).entry = dispatching.entry
    BY DEF Deferred
  <2>5. ASSUME NEW x \in Id \ raced', x # id PROVE EntryOK(x)'
    <3>1. \A i \in 1 .. Len(defaultQueue') :
            IsDeferred(defaultQueue'[i], x) => \E j \in 1 .. Len(defaultQueue) : defaultQueue'[i] = defaultQueue[j]
      BY <2>3, <2>4, <2>5 DEF IsDeferred
    <3>. QED
      BY <1>2, <2>1, <2>5, <3>1, EntryStays
  <2>6. ASSUME id \in Id \ raced' PROVE EntryOK(id)'
    <3>1. EntryOK(id) /\ ~Closing(id)
      BY <1>1, <1>2, <2>6, PutNotClosing DEF EntryInv
    <3>2. Entry(id) = dispatching.entry /\ Entry(id)' = Entry(id) /\ Entry(id)' # 0
      BY <1>1, <1>2, <2>1, <2>2, <3>1 DEF EntryOK
    <3>3. ~(action'.id = id /\ action'.at \in {"take", "flush"})
      BY <1>2, <3>1 DEF Closing
    <3>4. \A i \in 1 .. Len(defaultQueue') : IsDeferred(defaultQueue'[i], id) => defaultQueue'[i].entry = Entry(id)'
      BY <2>3, <2>4, <3>1, <3>2 DEF EntryOK
    <3>5. action'.id = id /\ action'.at \in {"pop", "deliver", "check", "take"} => Entry(id)' = action'.entry
      BY <1>2, <3>1, <3>2 DEF EntryOK
    <3>. QED
      BY <1>2, <3>2, <3>3, <3>4, <3>5 DEF EntryOK, IsDeferred
  <2>. QED
    BY <2>5, <2>6 DEF EntryInv
<1>4. CASE PutHolds
  <2>1. /\ \A x \in Id : Entry(x)' = Entry(x) /\ Dsm(x)' = Dsm(x) /\ (x # id => Csm(x)' = Csm(x))
        /\ defaultQueue' = defaultQueue
    BY <1>1, <1>2, <1>4, HoldsIs
  <2>2. ASSUME NEW x \in Id \ raced', x # id PROVE EntryOK(x)'
    BY <1>2, <2>1, <2>2, EntryStays
  <2>3. ASSUME id \in Id \ raced' PROVE EntryOK(id)'
    <3>1. EntryOK(id) /\ ~Closing(id)
      BY <1>1, <1>2, <2>3, PutNotClosing DEF EntryInv
    <3>2. Entry(id) = dispatching.entry /\ Entry(id)' = Entry(id) /\ Entry(id)' # 0
      BY <1>1, <1>2, <1>4, <2>1, <3>1 DEF EntryOK, PutHolds
    <3>3. ~(action'.id = id /\ action'.at \in {"take", "flush"})
      BY <1>2, <3>1 DEF Closing
    <3>4. action'.id = id /\ action'.at \in {"pop", "deliver", "check", "take"} => Entry(id)' = action'.entry
      BY <1>2, <3>1, <3>2 DEF EntryOK
    <3>. QED
      BY <1>2, <2>1, <3>1, <3>2, <3>3, <3>4 DEF EntryOK
  <2>. QED
    BY <2>2, <2>3 DEF EntryInv
<1>5. CASE PutInvokes
  <2>1. broker' = broker
    BY <1>1, <1>5, InvokesIs
  <2>2. \A x \in Id : Entry(x)' = Entry(x) /\ Dsm(x)' = Dsm(x) /\ Csm(x)' = Csm(x)
    BY <2>1 DEF Entry, Dsm, Csm
  <2>3. \A i \in 1 .. Len(defaultQueue') :
          \/ \E j \in 1 .. Len(defaultQueue) : defaultQueue'[i] = defaultQueue[j]
          \/ defaultQueue'[i].op = "invoke"
    <3>. DEFINE t == Invocation(id, dispatching.subscription, dispatching.message)
    <3>1. /\ defaultQueue' = defaultQueue \/ defaultQueue' = Append(defaultQueue, t)
          /\ t \in Task /\ defaultQueue \in Seq(Task)
      BY <1>1, <1>5, InvokesIs DEF TypeInv, TasksOK
    <3>2. t.op = "invoke"
      BY DEF Invocation
    <3>. HIDE DEF t
    <3>. QED
      BY <3>1, <3>2, Appended
  <2>4. \A x : \A i \in 1 .. Len(defaultQueue') :
          IsDeferred(defaultQueue'[i], x) => \E j \in 1 .. Len(defaultQueue) : defaultQueue'[i] = defaultQueue[j]
    BY <2>3 DEF IsDeferred
  <2>5. ASSUME NEW x \in Id \ raced' PROVE EntryOK(x)'
    BY <1>2, <2>2, <2>4, EntryStays
  <2>. QED
    BY <2>5 DEF EntryInv
<1>. QED
  BY <1>3, <1>4, <1>5, PutCases

\* What is deferred waits behind what waited already, and the action that takes
\* the first message takes the same one.
LEMMA DefersRest ==
  ASSUME TypeInv, WaitingInv, PutDefers, NEW id, id = Target
  PROVE  /\ \A x \in Id : (Popping(x)' <=> Popping(x)) /\ Rest(x) \subseteq Rest(x)'
         /\ \A x \in Id : \A n \in Rest(x)' : n \in Rest(x) \/ (x = id /\ n = dispatching.message)
         /\ dispatching.message \in Rest(id)' /\ Front' \subseteq Front
         /\ \A x \in Id : Ascending(Dsm(x))' /\ (Popping(x)' => Dsm(x)' # <<>>)
<1>0. PICK m : m = dispatching.message
  OBVIOUS
<1>1. /\ Put /\ id \in Id
      /\ \A x \in Id : x # id => Entry(x)' = Entry(x) /\ Dsm(x)' = Dsm(x)
      /\ Entry(id)' = IF Entry(id) = 0 THEN m ELSE Entry(id)
      /\ Dsm(id)' = Append(Dsm(id), m)
  BY <1>0, DefersIs
<1>2. m \in MessageNumber /\ m # 0 /\ action' = action /\ raced \subseteq raced'
  BY <1>0, <1>1, PutIs
<1>3. /\ Dsm(id) \in Seq(MessageNumber) /\ Ascending(Dsm(id)) /\ (Popping(id) => Dsm(id) # <<>>)
      /\ \A n \in Elements(Dsm(id)) : n < m
  BY <1>0, <1>1, <1>2, EntryTypes, NewestMessage DEF WaitingInv
<1>4. PICK d : d = Append(Dsm(id), m)
  OBVIOUS
<1>5. /\ Elements(d) = Elements(Dsm(id)) \cup {m} /\ Ascending(d) /\ d # <<>>
      /\ Dsm(id) # <<>> => Head(d) = Head(Dsm(id)) /\ Head(Dsm(id)) # m
  <2>1. Elements(d) = Elements(Dsm(id)) \cup {m} /\ Ascending(d) /\ d # <<>>
    BY <1>2, <1>3, <1>4, AppendedElements, AppendedAscending
  <2>2. ASSUME Dsm(id) # <<>> PROVE Head(d) = Head(Dsm(id)) /\ Head(Dsm(id)) # m
    <3>1. Head(d) = Head(Dsm(id))
      BY <1>2, <1>3, <1>4, <2>2
    <3>2. Head(Dsm(id)) < m /\ Head(Dsm(id)) \in MessageNumber
      BY <1>3, <2>2, TakenElements
    <3>. QED
      BY <1>2, <3>1, <3>2, BrokerAssumption DEF MessageNumber
  <2>. QED
    BY <2>1, <2>2
<1>6. Popping(id)' <=> Popping(id)
  <2>1. action.at = "pop" => action.entry # 0 /\ action.entry # m
    <3>1. action.at = "pop" => action.entry \in 1 .. MaxMessages
      BY ActionIs DEF ActionRecord
    <3>2. action.entry # m
      BY <1>0, <1>2 DEF WaitingInv
    <3>. QED
      BY <3>1, <3>2, BrokerAssumption
  <2>. QED
    BY <1>1, <1>2, <2>1 DEF Popping
<1>7. /\ Rest(id) \subseteq Rest(id)' /\ m \in Rest(id)' /\ \A n \in Rest(id)' : n \in Rest(id) \/ n = m
  <2>1. Elements(Dsm(id))' = Elements(d) /\ Dsm(id)' = d
    BY <1>1, <1>4 DEF Elements
  <2>2. CASE Popping(id)
    <3>1. Rest(id) = Elements(Dsm(id)) \ {Head(Dsm(id))}
      BY <2>2 DEF Rest
    <3>2. Rest(id)' = Elements(d) \ {Head(d)}
      BY <1>6, <2>1, <2>2 DEF Rest
    <3>. QED
      BY <1>3, <1>5, <2>2, <3>1, <3>2
  <2>3. CASE ~Popping(id)
    <3>1. Rest(id) = Elements(Dsm(id))
      BY <2>3 DEF Rest
    <3>2. Rest(id)' = Elements(d)
      BY <1>6, <2>1, <2>3 DEF Rest
    <3>. QED
      BY <1>5, <3>1, <3>2
  <2>. QED
    BY <2>2, <2>3
<1>8. ASSUME NEW x \in Id, x # id PROVE (Popping(x)' <=> Popping(x)) /\ Rest(x)' = Rest(x)
  BY <1>1, <1>2, <1>8, SameRest
<1>9. Front' \subseteq Front
  <2>1. CASE action.at = "idle"
    BY <1>2, <2>1 DEF Front
  <2>2. CASE action.at # "idle"
    <3>1. PICK i \in Id : i = action.id
      BY <2>2, ActionIs
    <3>2. Popping(i)' <=> Popping(i)
      BY <1>6, <1>8
    <3>3. Popping(i) => Head(Dsm(i)') = Head(Dsm(i))
      BY <1>1, <1>3, <1>4, <1>5
    <3>4. (Popping(action.id)' <=> Popping(i)) /\ Dsm(action.id)' = Dsm(i)'
      BY <1>2, <3>1, <3>2 DEF Popping, Dsm, Entry
    <3>. QED
      BY <1>2, <2>2, <3>1, <3>3, <3>4 DEF Front
  <2>. QED
    BY <2>1, <2>2
<1>10. ASSUME NEW x \in Id PROVE Ascending(Dsm(x))' /\ (Popping(x)' => Dsm(x)' # <<>>)
  <2>1. CASE x = id
    <3>1. Ascending(Dsm(id))'
      BY <1>1, <1>4, <1>5 DEF Ascending
    <3>. QED
      BY <1>1, <1>4, <1>5, <2>1, <3>1
  <2>2. CASE x # id
    <3>1. Ascending(Dsm(x)) /\ (Popping(x) => Dsm(x) # <<>>) /\ Dsm(x)' = Dsm(x)
      BY <1>1, <2>2 DEF WaitingInv
    <3>. QED
      BY <1>8, <2>2, <3>1, SameElements
  <2>. QED
    BY <2>1, <2>2
<1>. QED
  BY <1>0, <1>6, <1>7, <1>8, <1>9, <1>10

LEMMA PutWaiting ==
  ASSUME TypeInv, WaitingInv, Put
  PROVE  WaitingInv'
<1>1. PICK id : id = Target
  OBVIOUS
<1>2. dispatching'.message = 0 /\ UNCHANGED <<sent, action>>
  BY <1>1, PutIs DEF NoDispatch
<1>3. CASE PutDefers
  <2>1. \A x \in Id : Ascending(Dsm(x))' /\ (Popping(x)' => Dsm(x)' # <<>>)
    BY <1>1, <1>3, DefersRest
  <2>. QED
    BY <1>2, <2>1 DEF WaitingInv
<1>4. CASE PutHolds \/ PutInvokes
  <2>1. \A x \in Id : Entry(x)' = Entry(x) /\ Dsm(x)' = Dsm(x)
    BY <1>1, <1>4, HoldsIs, InvokesIs DEF Entry, Dsm
  <2>2. \A x \in Id : Popping(x)' => Popping(x)
    BY <1>2, <2>1, SameRest
  <2>. QED
    BY <1>2, <2>1, <2>2, WaitingStays
<1>. QED
  BY <1>3, <1>4, PutCases

LEMMA PutNumbering ==
  ASSUME TypeInv, LiveInv, Put
  PROVE  \E c \in Seq(MessageNumber) : Numbering(c)'
<1>1. PICK id : id = Target
  OBVIOUS
<1>2. PICK m : m = dispatching.message
  OBVIOUS
<1>3. /\ dispatching'.message = 0 /\ UNCHANGED <<sent, action>> /\ raced \subseteq raced' /\ Grows
      /\ m \in MessageNumber /\ m # 0 /\ m \in 1 .. Len(sent) /\ id \in Id
      /\ dispatching.entry <= Len(sent) /\ m = Len(sent) /\ sent[m] = id
  BY <1>1, <1>2, PutIs DEF NoDispatch, Target
<1>4. /\ WaitingInv
      /\ \A n \in 1 .. Len(sent) : n # dispatching.message => n < m
      /\ \A n \in Front : n < m
  BY <1>2, <1>3, NewestMessage DEF LiveInv
<1>5. PICK c \in Seq(MessageNumber) : Numbering(c)
  BY DEF LiveInv
<1>6. Append(c, m) \in Seq(MessageNumber)
  BY <1>3
<1>7. CASE PutDefers
  <2>1. PICK t : t = Deferred(id, dispatching.entry)
    OBVIOUS
  <2>2. /\ t \in Task /\ defaultQueue' = Append(defaultQueue, t)
        /\ t.op = "deferred" /\ t.id = id /\ t.entry = dispatching.entry
    BY <1>1, <1>7, <2>1, DefersIs DEF Deferred
  <2>3. /\ \A x \in Id : Rest(x) \subseteq Rest(x)'
        /\ \A x \in Id : \A n \in Rest(x)' : n \in Rest(x) \/ (x = id /\ n = m)
        /\ m \in Rest(id)' /\ Front' \subseteq Front
    BY <1>1, <1>2, <1>4, <1>7, DefersRest
  <2>4. \A x \in Id : Entry(x)' = Entry(x) \/ Entry(x)' = dispatching.message
    BY <1>1, <1>7, DefersIs
  <2>5. TasksSteady
    BY <1>3, <2>3, <2>4 DEF TasksSteady
  <2>6. Numbers(m, t)'
    <3>1. m \in 1 .. Len(sent)' /\ m # dispatching'.message /\ sent'[m] = t.id /\ t.entry <= m
      BY <1>3, <2>2
    <3>2. m \in Rest(t.id)'
      BY <2>2, <2>3 DEF Rest, Dsm, Popping, Entry
    <3>. QED
      BY <2>2, <3>1, <3>2 DEF Numbers
  <2>7. \A x \in Id \ raced' : \A n \in Rest(x)' : n \in Rest(x) \/ (n = m /\ IsDeferred(t, x))
    BY <2>2, <2>3 DEF IsDeferred
  <2>8. \A n \in Front' : n < m
    BY <1>4, <2>3
  <2>9. Numbering(Append(c, m))'
    BY <1>3, <1>4, <1>5, <2>2, <2>3, <2>5, <2>6, <2>7, <2>8, NumberingMore
  <2>. QED
    BY <1>6, <2>9
<1>8. CASE PutHolds \/ PutInvokes
  <2>1. \A x \in Id : Entry(x)' = Entry(x) /\ Dsm(x)' = Dsm(x)
    BY <1>1, <1>8, HoldsIs, InvokesIs DEF Entry, Dsm
  <2>2. CASE defaultQueue' = defaultQueue
    BY <1>3, <2>1, <2>2, SameSteady, LivingNumbers
  <2>3. CASE defaultQueue' # defaultQueue
    <3>1. PICK t : t = Invocation(id, dispatching.subscription, m)
      OBVIOUS
    <3>2. t \in Task /\ defaultQueue' = Append(defaultQueue, t)
      BY <1>1, <1>2, <1>8, <2>3, <3>1, HoldsIs, InvokesIs
    <3>3. t.op = "invoke" /\ t.id = id /\ t.message = m /\ t.entry = 0
      BY <3>1 DEF Invocation
    <3>4. (\A x \in Id : Rest(x)' = Rest(x)) /\ Front' \subseteq Front
      BY <1>3, <2>1, SameRest, SameFront
    <3>5. TasksSteady
      BY <1>3, <2>1, <3>4 DEF TasksSteady
    <3>6. Numbers(m, t)'
      BY <1>3, <3>3 DEF Numbers
    <3>7. \A n \in Front' : n < m
      BY <1>4, <3>4
    <3>8. \A x \in Id \ raced' : \A n \in Rest(x)' : n \in Rest(x) \/ (n = m /\ IsDeferred(t, x))
      BY <3>4
    <3>9. Numbering(Append(c, m))'
      BY <1>3, <1>4, <1>5, <3>2, <3>4, <3>5, <3>6, <3>7, <3>8, NumberingMore
    <3>. QED
      BY <1>6, <3>9
  <2>. QED
    BY <2>2, <2>3
<1>. QED
  BY <1>7, <1>8, PutCases

LEMMA PutKeeps ==
  ASSUME TypeInv, LiveInv, Put
  PROVE  LiveInv'
BY PutPresence, PutEntries, PutWaiting, PutNumbering DEF LiveInv

-----------------------------------------------------------------------------
(* Entities come and go *)

\* A step that leaves the broker, the action and the default scheduler alone.
LEMMA RestStays ==
  ASSUME TypeInv, LiveInv, Grows,
         UNCHANGED <<sent, broker, dispatching, action, defaultQueue, raced>>
  PROVE  EntryInv' /\ WaitingInv' /\ \E c \in Seq(MessageNumber) : Numbering(c)'
<1>1. \A x \in Id : Entry(x)' = Entry(x) /\ Dsm(x)' = Dsm(x) /\ Csm(x)' = Csm(x)
  BY DEF Entry, Dsm, Csm
<1>2. ASSUME NEW x \in Id \ raced' PROVE EntryOK(x)'
  BY <1>1, EntryStays DEF LiveInv, Target
<1>3. \A x \in Id : Popping(x)' => Popping(x)
  BY <1>1, SameRest
<1>4. WaitingInv'
  BY <1>1, <1>3, WaitingStays DEF LiveInv
<1>5. \E c \in Seq(MessageNumber) : Numbering(c)'
  BY <1>1, SameSteady, LivingNumbers
<1>. QED
  BY <1>2, <1>4, <1>5 DEF EntryInv

LEMMA AdviseOnKeeps ==
  ASSUME TypeInv, LiveInv, NEW id \in Id, AdviseOn(id)
  PROVE  LiveInv'
<1>1. /\ action = Idle /\ dispatching.message = 0
      /\ subscriptions' = [subscriptions EXCEPT ![id] = entities + 1]
      /\ UNCHANGED <<sent, broker, dispatching, action, defaultQueue, raced, abandoned>>
      /\ entities' = entities + 1
  BY DEF AdviseOn, Free, queues, history
<1>2. Grows /\ IsEntity(entities + 1)
  BY <1>1, BrokerAssumption DEF TypeInv, SentOK, SubscriptionsOK, Grows, IsEntity
<1>3. \A x \in Id : IsEntity(subscriptions[x]) => IsEntity(subscriptions'[x])
  BY <1>1, <1>2 DEF TypeInv, SubscriptionsOK
<1>4. \A x \in CustomIds \ abandoned' : Csm(x)' # <<>> => IsEntity(subscriptions'[x])
  BY <1>1, <1>3 DEF Csm, LiveInv, PresenceInv, Id
<1>5. action'.at = "idle" /\ action'.taken = <<>> /\ dispatching'.message = 0
  BY <1>1 DEF Idle
<1>6. PresenceInv'
  BY <1>4, <1>5 DEF PresenceInv, IsEntity
<1>. QED
  BY <1>1, <1>2, <1>6, RestStays DEF LiveInv

LEMMA LifetimeEndsKeeps ==
  ASSUME TypeInv, LiveInv, NEW id \in Id, LifetimeEnds(id)
  PROVE  LiveInv'
<1>1. /\ action = Idle
      /\ subscriptions' = [subscriptions EXCEPT ![id] = Absent]
      /\ UNCHANGED <<sent, broker, dispatching, action, defaultQueue, raced, entities>>
      /\ abandoned' = IF /\ id \in CustomIds
                         /\ Csm(id) # <<>> \/ (dispatching.message # 0 /\ Target = id)
                        THEN abandoned \cup {id} ELSE abandoned
  BY DEF LifetimeEnds, Free, queues, Target, Csm
<1>2. /\ ~IsEntity(subscriptions'[id]) /\ \A x \in Id : x # id => subscriptions'[x] = subscriptions[x]
  BY <1>1 DEF TypeInv, SubscriptionsOK, IsEntity, Absent
<1>3. \A x \in CustomIds \ abandoned' : Csm(x)' # <<>> => IsEntity(subscriptions'[x])
  <2>1. ASSUME NEW x \in CustomIds \ abandoned', Csm(x)' # <<>> PROVE IsEntity(subscriptions'[x])
    <3>1. Csm(x) # <<>> /\ x \in Id
      BY <1>1, <2>1 DEF Csm, Id
    <3>2. x # id /\ x \notin abandoned
      BY <1>1, <2>1, <3>1
    <3>. QED
      BY <1>2, <3>1, <3>2 DEF LiveInv, PresenceInv
  <2>. QED
    BY <2>1
<1>4. action'.at = "idle" /\ action'.taken = <<>>
  BY <1>1 DEF Idle
<1>5. ASSUME dispatching.message # 0
      PROVE  /\ ~IsEntity(dispatching.subscription) => ~IsEntity(subscriptions'[Target])
             /\ IsEntity(dispatching.subscription) /\ Target \in CustomIds \ abandoned' =>
                  subscriptions'[Target] = dispatching.subscription
  <2>1. PICK x : x = Target
    OBVIOUS
  <2>2. x \in Id
    BY <1>5, <2>1, BrokerAssumption DEF TypeInv, DispatchOK, SentOK, Target
  <2>3. CASE x = id
    BY <1>1, <1>2, <1>5, <2>1, <2>3
  <2>4. CASE x # id
    <3>1. subscriptions'[x] = subscriptions[x] /\ abandoned \subseteq abandoned'
      BY <1>1, <1>2, <2>2, <2>4
    <3>. QED
      BY <1>5, <2>1, <3>1 DEF LiveInv, PresenceInv
  <2>. QED
    BY <2>3, <2>4
<1>6. Target' = Target /\ dispatching' = dispatching
  BY <1>1 DEF Target
<1>7. PresenceInv'
  BY <1>3, <1>4, <1>5, <1>6 DEF PresenceInv, IsEntity
<1>8. Grows
  BY <1>1, Stays
<1>. QED
  BY <1>1, <1>7, <1>8, RestStays DEF LiveInv

LEMMA RunCustomKeeps ==
  ASSUME TypeInv, LiveInv, RunCustom
  PROVE  LiveInv'
<1>1. /\ UNCHANGED <<sent, subscriptions, broker, dispatching, action, defaultQueue, raced, abandoned, entities>>
      /\ Grows
  BY RunCustomIs DEF history
<1>2. \A x \in CustomIds : Csm(x)' = Csm(x)
  BY <1>1 DEF Csm
<1>3. PresenceInv'
  BY <1>1, <1>2, PresenceStays DEF LiveInv
<1>. QED
  BY <1>1, <1>3, RestStays DEF LiveInv

-----------------------------------------------------------------------------
(* A deferred action begins *)

\* The first message of an ascending sequence is the least.
LEMMA LeastIsFirst ==
  ASSUME NEW s \in Seq(MessageNumber), s # <<>>, Ascending(s), NEW n \in Elements(s)
  PROVE  Head(s) <= n /\ Head(s) \in MessageNumber /\ n \in MessageNumber
<1>1. Head(s) \in MessageNumber /\ n \in MessageNumber
  BY TakenElements
<1>2. CASE n = Head(s)
  BY <1>1, <1>2, BrokerAssumption DEF MessageNumber
<1>3. CASE n # Head(s)
  <2>1. n \in Elements(Tail(s))
    BY <1>3, TakenElements
  <2>2. Head(s) < n
    BY <2>1, TakenAscending
  <2>. QED
    BY <1>1, <2>2, BrokerAssumption DEF MessageNumber
<1>. QED
  BY <1>1, <1>2, <1>3

\* The task that is taken finds its message, unless its entry has gone, and if
\* its id is not raced this message is the first.
LEMMA BeginDeferredFinds ==
  ASSUME TypeInv, EntryInv, WaitingInv, BeginDeferred, NEW c, Numbering(c), NEW id, id = Head(defaultQueue).id
  PROVE  /\ id \in Id /\ c \in Seq(MessageNumber) /\ Len(c) \in Nat /\ Len(c) >= 1
         /\ Head(defaultQueue).entry <= c[1] /\ c[1] \in 1 .. Len(sent) /\ c[1] # dispatching.message
         /\ \A i \in 2 .. Len(c) : c[1] < c[i]
         /\ \A x : ~Popping(x) /\ Rest(x) = Elements(Dsm(x))
         /\ Head(defaultQueue).entry = Entry(id) => Dsm(id) # <<>> /\ Head(Dsm(id)) <= c[1]
         /\ id \notin raced => Head(defaultQueue).entry = Entry(id) /\ Head(Dsm(id)) = c[1]
<1>1. /\ c \in Seq(MessageNumber) /\ Len(c) = Len(defaultQueue) /\ Ascending(c)
      /\ \A i \in 1 .. Len(c) : Numbers(c[i], defaultQueue[i])
      /\ defaultQueue \in Seq(Task) /\ defaultQueue # <<>>
  BY BeginDeferredIs DEF Numbering, TypeInv, TasksOK
<1>2. 1 \in 1 .. Len(c) /\ Head(defaultQueue) = defaultQueue[1] /\ Len(c) \in Nat /\ Len(c) >= 1
  BY <1>1
<1>3. action = Idle /\ id \in Id /\ Head(defaultQueue).op = "deferred"
  BY BeginDeferredIs
<1>4. \A x : ~Popping(x) /\ Rest(x) = Elements(Dsm(x))
  BY <1>3 DEF Popping, Idle, Rest
<1>5. PICK t : t = Head(defaultQueue)
  OBVIOUS
<1>6. Numbers(c[1], t)
  BY <1>1, <1>2, <1>5
<1>7. t.entry <= c[1] /\ c[1] \in 1 .. Len(sent) /\ c[1] # dispatching.message
  BY <1>6 DEF Numbers
<1>8. \A i \in 2 .. Len(c) : c[1] < c[i]
  BY <1>1, <1>2 DEF Ascending
<1>9. Dsm(id) \in Seq(MessageNumber) /\ Ascending(Dsm(id))
  BY <1>3, EntryTypes DEF WaitingInv
<1>10. ASSUME t.entry = Entry(id) PROVE Dsm(id) # <<>> /\ c[1] \in Elements(Dsm(id)) /\ Head(Dsm(id)) <= c[1]
  <2>1. c[1] \in Rest(t.id)
    BY <1>3, <1>5, <1>6, <1>10 DEF Numbers
  <2>2. c[1] \in Elements(Dsm(id))
    BY <1>4, <1>5, <2>1
  <2>. QED
    BY <1>9, <2>2, NoElements, LeastIsFirst
<1>11. ASSUME id \notin raced PROVE t.entry = Entry(id) /\ Head(Dsm(id)) = c[1]
  <2>1. IsDeferred(defaultQueue[1], id) /\ 1 \in 1 .. Len(defaultQueue)
    BY <1>1, <1>2, <1>3 DEF IsDeferred
  <2>2. t.entry = Entry(id)
    BY <1>2, <1>3, <1>5, <1>11, <2>1 DEF EntryInv, EntryOK
  <2>3. Head(Dsm(id)) <= c[1] /\ Head(Dsm(id)) \in Elements(Dsm(id)) /\ Head(Dsm(id)) \in MessageNumber
    BY <1>9, <1>10, <2>2, TakenElements
  <2>4. PICK i \in 1 .. Len(c) : c[i] = Head(Dsm(id))
    BY <1>3, <1>4, <1>11, <2>3 DEF Numbering
  <2>5. c[1] \in MessageNumber
    BY <1>1, <1>2
  <2>6. i = 1
    BY <1>2, <1>8, <2>3, <2>4, <2>5, BrokerAssumption DEF MessageNumber
  <2>. QED
    BY <2>2, <2>4, <2>6
<1>. QED
  BY <1>1, <1>2, <1>3, <1>4, <1>5, <1>7, <1>8, <1>10, <1>11

LEMMA BeginDeferredPresence ==
  ASSUME TypeInv, PresenceInv, BeginDeferred
  PROVE  PresenceInv'
<1>1. PICK id \in Id :
         /\ action'.id = id /\ action'.subscription = subscriptions[id] /\ action'.taken = <<>> /\ Lookup(id)
         /\ UNCHANGED <<sent, broker, dispatching, history>>
  BY BeginDeferredIs
<1>2. \A x \in Id : /\ IsEntity(subscriptions'[x]) <=> IsEntity(subscriptions[x])
                    /\ IsEntity(subscriptions[x]) => subscriptions'[x] = subscriptions[x]
  BY <1>1, LookupKeeps
<1>3. action'.at # "idle" /\ (IsEntity(action'.subscription) \/ IsEntity(subscriptions'[action'.id])) =>
        subscriptions'[action'.id] = action'.subscription
  BY <1>1, <1>2
<1>4. ASSUME dispatching.message # 0
      PROVE  /\ ~IsEntity(dispatching.subscription) => ~IsEntity(subscriptions'[Target])
             /\ IsEntity(dispatching.subscription) /\ Target \in CustomIds \ abandoned =>
                  subscriptions'[Target] = dispatching.subscription
  <2>1. Target \in Id
    BY <1>4, BrokerAssumption DEF TypeInv, DispatchOK, SentOK, Target
  <2>. QED
    BY <1>2, <1>4, <2>1 DEF PresenceInv
<1>5. \A x \in CustomIds \ abandoned : Csm(x)' # <<>> => IsEntity(subscriptions'[x])
  BY <1>1, <1>2 DEF PresenceInv, Csm, Id
<1>6. Target' = Target /\ dispatching' = dispatching /\ abandoned' = abandoned
  BY <1>1 DEF Target, history
<1>. QED
  BY <1>1, <1>3, <1>4, <1>5, <1>6 DEF PresenceInv, IsEntity

LEMMA BeginDeferredEntries ==
  ASSUME TypeInv, EntryInv, WaitingInv, BeginDeferred, NEW c, Numbering(c)
  PROVE  EntryInv'
<1>1. PICK id \in Id :
         /\ Head(defaultQueue).id = id /\ defaultQueue # <<>>
         /\ action'.at = "pop" /\ action'.id = id /\ action'.entry = Head(defaultQueue).entry
         /\ defaultQueue' = Tail(defaultQueue)
         /\ UNCHANGED <<sent, broker, dispatching, history>>
  BY BeginDeferredIs
<1>2. /\ \A x \in Id : Entry(x)' = Entry(x) /\ Dsm(x)' = Dsm(x) /\ Csm(x)' = Csm(x)
      /\ raced' = raced /\ Target' = Target /\ dispatching' = dispatching
  BY <1>1 DEF Entry, Dsm, Csm, Target, history
<1>3. \A i \in 1 .. Len(defaultQueue') :
        i + 1 \in 1 .. Len(defaultQueue) /\ defaultQueue'[i] = defaultQueue[i + 1]
  BY <1>1, Taken DEF TypeInv, TasksOK
<1>4. ASSUME NEW x \in Id \ raced', x # id PROVE EntryOK(x)'
  BY <1>1, <1>2, <1>3, <1>4, EntryStays
<1>5. ASSUME id \in Id \ raced' PROVE EntryOK(id)'
  <2>1. EntryOK(id)
    BY <1>2, <1>5 DEF EntryInv
  <2>2. Head(defaultQueue).entry = Entry(id)
    BY <1>1, <1>2, <1>5, BeginDeferredFinds
  <2>3. dispatching'.message # 0 /\ Target' = id => Entry(id)' = dispatching'.entry
    BY <1>2, <2>1 DEF EntryOK
  <2>4. \A i \in 1 .. Len(defaultQueue') : IsDeferred(defaultQueue'[i], id) => defaultQueue'[i].entry = Entry(id)'
    BY <1>2, <1>3, <2>1 DEF EntryOK
  <2>5. Entry(id)' = 0 => Dsm(id)' = <<>> /\ Csm(id)' = <<>>
    BY <1>2, <2>1 DEF EntryOK
  <2>6. action'.entry = Entry(id)' /\ action'.at = "pop"
    BY <1>1, <1>2, <2>2
  <2>. QED
    BY <2>3, <2>4, <2>5, <2>6 DEF EntryOK, IsDeferred
<1>. QED
  BY <1>4, <1>5 DEF EntryInv

LEMMA BeginDeferredWaiting ==
  ASSUME TypeInv, EntryInv, WaitingInv, BeginDeferred, NEW c, Numbering(c)
  PROVE  WaitingInv'
<1>1. PICK id \in Id :
         /\ Head(defaultQueue).id = id /\ Head(defaultQueue).entry \in 1 .. Len(sent)
         /\ action'.id = id /\ action'.entry = Head(defaultQueue).entry
         /\ action'.message = 0 /\ action'.taken = <<>>
         /\ UNCHANGED <<sent, broker, dispatching>>
  BY BeginDeferredIs
<1>2. \A x \in Id : Entry(x)' = Entry(x) /\ Dsm(x)' = Dsm(x)
  BY <1>1 DEF Entry, Dsm
<1>3. ASSUME NEW x \in Id PROVE Ascending(Dsm(x))' /\ (Popping(x)' => Dsm(x)' # <<>>)
  <2>1. Ascending(Dsm(x))'
    BY <1>2, SameElements DEF WaitingInv
  <2>2. ASSUME Popping(x)' PROVE Dsm(x)' # <<>>
    <3>1. x = id /\ Head(defaultQueue).entry = Entry(id)
      BY <1>1, <1>2, <2>2 DEF Popping
    <3>. QED
      BY <1>1, <1>2, <3>1, BeginDeferredFinds
  <2>. QED
    BY <2>1, <2>2
<1>4. ASSUME dispatching'.message # 0
      PROVE  /\ action'.entry # dispatching'.message /\ action'.message # dispatching'.message
             /\ \A x \in Id : dispatching'.message \notin Elements(Dsm(x))'
  <2>1. dispatching.message = Len(sent) /\ dispatching.message # 0 /\ Len(sent) \in Nat
    BY <1>1, <1>4 DEF TypeInv, DispatchOK, SentOK
  <2>2. c[1] \in 1 .. Len(sent) /\ c[1] # dispatching.message /\ Head(defaultQueue).entry <= c[1]
    BY <1>1, BeginDeferredFinds
  <2>3. action'.entry # dispatching'.message
    BY <1>1, <2>1, <2>2
  <2>4. \A x \in Id : dispatching'.message \notin Elements(Dsm(x))'
    BY <1>1, <1>2, <1>4, SameElements DEF WaitingInv
  <2>. QED
    BY <1>1, <1>4, <2>3, <2>4
<1>. QED
  BY <1>1, <1>3, <1>4 DEF WaitingInv, Elements

LEMMA BeginDeferredNumbering ==
  ASSUME TypeInv, EntryInv, WaitingInv, BeginDeferred, NEW c, Numbering(c)
  PROVE  Tail(c) \in Seq(MessageNumber) /\ Numbering(Tail(c))'
<1>1. PICK id \in Id :
         /\ Head(defaultQueue).id = id /\ defaultQueue # <<>>
         /\ action'.at = "pop" /\ action'.id = id /\ action'.entry = Head(defaultQueue).entry
         /\ action'.message = 0
         /\ defaultQueue' = Tail(defaultQueue)
         /\ UNCHANGED <<sent, broker, dispatching, history>>
  BY BeginDeferredIs
<1>2. /\ \A x \in Id : Entry(x)' = Entry(x) /\ Dsm(x)' = Dsm(x) /\ Elements(Dsm(x))' = Elements(Dsm(x))
      /\ raced' = raced /\ dispatching' = dispatching
  BY <1>1, SameElements DEF Entry, Dsm, history
<1>3. /\ c \in Seq(MessageNumber) /\ Len(c) \in Nat /\ Len(c) >= 1
      /\ \A i \in 2 .. Len(c) : c[1] < c[i]
      /\ \A x : ~Popping(x) /\ Rest(x) = Elements(Dsm(x))
      /\ Head(defaultQueue).entry = Entry(id) => Dsm(id) # <<>> /\ Head(Dsm(id)) <= c[1]
      /\ id \notin raced => Head(defaultQueue).entry = Entry(id) /\ Head(Dsm(id)) = c[1]
  BY <1>1, BeginDeferredFinds
<1>4. Dsm(id) \in Seq(MessageNumber) /\ Ascending(Dsm(id))
  BY EntryTypes DEF WaitingInv
<1>5. Popping(id)' <=> Head(defaultQueue).entry = Entry(id)
  BY <1>1, <1>2 DEF Popping
<1>6. \A x \in Id : x # id => ~Popping(x)'
  BY <1>1 DEF Popping
<1>7. \A x \in Id : x # id => Rest(x)' = Rest(x)
  BY <1>2, <1>3, <1>6 DEF Rest
<1>8. Rest(id)' = IF Head(defaultQueue).entry = Entry(id) THEN Rest(id) \ {Head(Dsm(id))} ELSE Rest(id)
  <2>1. Elements(Dsm(id))' = Rest(id) /\ Dsm(id)' = Dsm(id)
    BY <1>2, <1>3
  <2>. QED
    BY <1>5, <2>1 DEF Rest
<1>9. ASSUME NEW i \in 2 .. Len(c), Head(defaultQueue).entry = Entry(id) PROVE Head(Dsm(id)) < c[i]
  <2>1. c[1] < c[i] /\ Head(Dsm(id)) <= c[1] /\ Head(Dsm(id)) \in MessageNumber
    BY <1>3, <1>4, <1>9, TakenElements
  <2>2. c[1] \in MessageNumber /\ c[i] \in MessageNumber
    BY <1>3
  <2>. QED
    BY <2>1, <2>2, BrokerAssumption DEF MessageNumber
<1>10. Front' \subseteq IF Head(defaultQueue).entry = Entry(id) THEN {Head(Dsm(id))} ELSE {}
  <2>1. (Popping(action.id)' <=> Popping(id)') /\ Dsm(action.id)' = Dsm(id)'
    BY <1>1 DEF Popping, Dsm, Entry
  <2>. QED
    BY <1>1, <1>2, <1>5, <2>1 DEF Front
<1>11. \A n \in Front', i \in 2 .. Len(c) : n < c[i]
  BY <1>9, <1>10
<1>12. ASSUME NEW i \in 2 .. Len(c), Numbers(c[i], defaultQueue[i]) PROVE Numbers(c[i], defaultQueue[i - 1])'
  <2>1. Len(c) = Len(defaultQueue) /\ defaultQueue \in Seq(Task)
    BY DEF Numbering, TypeInv, TasksOK
  <2>2. i - 1 \in 1 .. Len(Tail(defaultQueue)) /\ Tail(defaultQueue)[i - 1] = defaultQueue[i]
    BY <1>1, <2>1, Taken
  <2>3. defaultQueue'[i - 1] = defaultQueue[i] /\ defaultQueue[i] \in Task
    BY <1>1, <2>1, <2>2
  <2>4. PICK t \in Task : t = defaultQueue[i]
    BY <2>3
  <2>5. PICK n : n = c[i]
    OBVIOUS
  <2>6. ASSUME t.op = "deferred", t.entry = Entry(t.id)' PROVE n \in Rest(t.id)'
    <3>1. t.id \in Id
      BY DEF Task
    <3>2. n \in Rest(t.id)
      BY <1>2, <1>12, <2>4, <2>5, <2>6, <3>1 DEF Numbers
    <3>3. CASE t.id # id
      BY <1>7, <3>1, <3>2, <3>3
    <3>4. CASE t.id = id
      <4>1. PICK x \in Id : x = t.id
        BY <3>1
      <4>2. Head(defaultQueue).entry = Entry(id) => Head(Dsm(id)) < n /\ Head(Dsm(id)) \in MessageNumber
        BY <1>3, <1>4, <1>9, <2>5, TakenElements
      <4>3. Head(defaultQueue).entry = Entry(id) => Head(Dsm(id)) # n
        BY <4>2, BrokerAssumption DEF MessageNumber
      <4>4. n \in Rest(id)'
        BY <1>8, <3>2, <3>4, <4>3
      <4>. QED
        BY <3>4, <4>4 DEF Rest, Dsm, Popping, Entry
    <3>. QED
      BY <3>3, <3>4
  <2>7. Numbers(n, t)'
    BY <1>1, <1>12, <2>4, <2>5, <2>6 DEF Numbers
  <2>. QED
    BY <2>3, <2>4, <2>5, <2>7 DEF Numbers
<1>13. ASSUME NEW x \in Id \ raced', NEW n \in Rest(x)'
       PROVE  x \notin raced /\ n \in Rest(x) /\ ~(n = c[1] /\ IsDeferred(defaultQueue[1], x))
  <2>1. defaultQueue[1] = Head(defaultQueue)
    BY <1>1, Taken DEF TypeInv, TasksOK
  <2>2. CASE x # id
    BY <1>1, <1>2, <1>7, <2>1, <2>2 DEF IsDeferred
  <2>3. CASE x = id
    BY <1>2, <1>3, <1>8, <2>3
  <2>. QED
    BY <2>2, <2>3
<1>14. Tail(c) \in Seq(MessageNumber)
  BY <1>3
<1>. QED
  BY <1>1, <1>11, <1>12, <1>13, <1>14, NumberingLess

LEMMA BeginDeferredKeeps ==
  ASSUME TypeInv, LiveInv, BeginDeferred
  PROVE  LiveInv'
<1>1. PICK c \in Seq(MessageNumber) : Numbering(c)
  BY DEF LiveInv
<1>. QED
  BY <1>1, BeginDeferredPresence, BeginDeferredEntries, BeginDeferredWaiting, BeginDeferredNumbering DEF LiveInv

-----------------------------------------------------------------------------
(* The steps of the deferred action *)

LEMMA PopKeeps ==
  ASSUME TypeInv, LiveInv, Pop, ~crashed'
  PROVE  LiveInv'
<1>1. PICK id : id = action.id
  OBVIOUS
<1>2. /\ id \in Id /\ action.at = "pop" /\ dispatching.message = 0
      /\ \A x \in Id : Entry(x)' = Entry(x) /\ Csm(x)' = Csm(x) /\ (x # id => Dsm(x)' = Dsm(x))
      /\ Dsm(id)' = IF Dsm(id) = <<>> THEN <<>> ELSE Tail(Dsm(id))
      /\ action'.at = "deliver" /\ action'.id = id /\ action'.entry = action.entry
      /\ action'.subscription = action.subscription /\ action'.taken = action.taken
      /\ UNCHANGED <<sent, subscriptions, dispatching, queues, history>>
  BY <1>1, PopIs
<1>3. UNCHANGED <<defaultQueue, raced, abandoned>> /\ dispatching'.message = 0
  BY <1>2 DEF queues, history
<1>4. PresenceInv'
  <2>1. \A x \in CustomIds : Csm(x)' = Csm(x)
    BY <1>2 DEF Id
  <2>. QED
    BY <1>1, <1>2, <1>3, <2>1, PresenceStays DEF LiveInv
<1>5. EntryInv'
  <2>1. ASSUME NEW x \in Id \ raced', x # id PROVE EntryOK(x)'
    BY <1>2, <1>3, <2>1, EntryStays DEF LiveInv
  <2>2. ASSUME id \in Id \ raced' PROVE EntryOK(id)'
    <3>1. EntryOK(id)
      BY <1>3, <2>2 DEF LiveInv, EntryInv
    <3>2. Entry(id)' = action'.entry /\ Entry(id)' = Entry(id) /\ Csm(id)' = Csm(id)
      BY <1>1, <1>2, <3>1 DEF EntryOK
    <3>3. \A i \in 1 .. Len(defaultQueue') : IsDeferred(defaultQueue'[i], id) => defaultQueue'[i].entry = Entry(id)'
      BY <1>3, <3>1, <3>2 DEF EntryOK
    <3>4. Entry(id)' = 0 => Dsm(id)' = <<>> /\ Csm(id)' = <<>>
      BY <1>2, <3>1, <3>2 DEF EntryOK
    <3>5. action'.at = "deliver" /\ dispatching'.message = 0
      BY <1>2, <1>3
    <3>. QED
      BY <3>2, <3>3, <3>4, <3>5 DEF EntryOK, IsDeferred
  <2>. QED
    BY <2>1, <2>2 DEF EntryInv
<1>6. WaitingInv'
  <2>1. ASSUME NEW x \in Id PROVE Ascending(Dsm(x))'
    <3>1. Ascending(Dsm(x)) /\ Dsm(x) \in Seq(MessageNumber)
      BY EntryTypes DEF LiveInv, WaitingInv
    <3>2. CASE x = id /\ Dsm(id) # <<>>
      <4>1. Ascending(Tail(Dsm(id))) /\ Dsm(x)' = Tail(Dsm(id))
        BY <1>2, <3>1, <3>2, TakenAscending
      <4>. QED
        BY <4>1 DEF Ascending
    <3>3. CASE ~(x = id /\ Dsm(id) # <<>>)
      <4>1. Dsm(x)' = Dsm(x)
        BY <1>2, <3>3
      <4>. QED
        BY <3>1, <4>1, SameElements
    <3>. QED
      BY <3>2, <3>3
  <2>2. \A x \in Id : ~Popping(x)'
    BY <1>2 DEF Popping
  <2>3. action'.taken # <<>> => action'.id \in CustomIds
    BY <1>1, <1>2 DEF LiveInv, WaitingInv
  <2>. QED
    BY <1>3, <2>1, <2>2, <2>3 DEF WaitingInv
<1>7. \E c \in Seq(MessageNumber) : Numbering(c)'
  BY PopSteady, LivingNumbers DEF LiveInv
<1>. QED
  BY <1>4, <1>5, <1>6, <1>7 DEF LiveInv

\* The action, which has taken its message, goes on, and leaves the broker alone.
LEMMA LaterKeeps ==
  ASSUME TypeInv, LiveInv, Grows,
         action.at \in {"deliver", "check", "flush"},
         \/ action'.at = "idle" /\ action'.taken = <<>> /\ action'.entry = 0
         \/ /\ action'.id = action.id /\ action'.entry = action.entry
            /\ action'.subscription = action.subscription
            /\ action'.taken # <<>> => action.taken # <<>>
            /\ \/ action.at = "deliver" /\ action'.at = "check"
               \/ action.at = "check" /\ action'.at = "take" /\ Dsm(action.id) = <<>>
               \/ action.at = "flush" /\ action'.at = "flush",
         action'.message = 0,
         UNCHANGED <<sent, subscriptions, broker, dispatching, defaultQueue, history>>
  PROVE  LiveInv'
<1>1. /\ \A x \in Id : Entry(x)' = Entry(x) /\ Dsm(x)' = Dsm(x) /\ Csm(x)' = Csm(x)
      /\ UNCHANGED <<raced, abandoned>> /\ Target' = Target
  BY DEF Entry, Dsm, Csm, Target, history
<1>2. PICK id \in Id : id = action.id
  BY ActionIs
<1>3. PresenceInv'
  <2>1. \A x \in CustomIds : Csm(x)' = Csm(x)
    BY <1>1 DEF Id
  <2>. QED
    BY <1>1, <2>1, PresenceStays DEF LiveInv
<1>4. EntryInv'
  <2>1. ASSUME NEW x \in Id \ raced', x # id \/ action'.at = "idle" PROVE EntryOK(x)'
    <3>1. action'.id # x \/ action'.at = "idle"
      BY <1>2, <2>1
    <3>. QED
      BY <1>1, <3>1, EntryStays DEF LiveInv
  <2>2. ASSUME id \in Id \ raced', action'.at # "idle" PROVE EntryOK(id)'
    <3>1. EntryOK(id)
      BY <1>1, <2>2 DEF LiveInv, EntryInv
    <3>2. /\ Entry(id)' = Entry(id) /\ Dsm(id)' = Dsm(id) /\ Csm(id)' = Csm(id)
          /\ action'.id = id /\ action'.entry = action.entry
          /\ Dsm(action.id) = Dsm(id)
      BY <1>1, <1>2, <2>2
    <3>3. dispatching'.message # 0 /\ Target' = id => Entry(id)' = dispatching'.entry
      BY <1>1, <3>1 DEF EntryOK
    <3>4. \A i \in 1 .. Len(defaultQueue') : IsDeferred(defaultQueue'[i], id) => defaultQueue'[i].entry = Entry(id)'
      BY <3>1, <3>2 DEF EntryOK
    <3>5. /\ action'.at \in {"pop", "deliver", "check", "take"} => Entry(id)' = action'.entry
          /\ action'.at \in {"take", "flush"} => Dsm(id)' = <<>>
          /\ action'.at = "flush" => Csm(id)' = <<>>
      BY <1>2, <2>2, <3>1, <3>2 DEF EntryOK
    <3>6. Entry(id)' = 0 => Dsm(id)' = <<>> /\ Csm(id)' = <<>>
      BY <3>1, <3>2 DEF EntryOK
    <3>. QED
      BY <3>3, <3>4, <3>5, <3>6 DEF EntryOK, IsDeferred
  <2>. QED
    BY <2>1, <2>2 DEF EntryInv
<1>5. QueueSteady /\ \A x \in Id : ~Popping(x)'
  BY <1>1, LaterSteady
<1>6. WaitingInv'
  BY <1>1, <1>5, WaitingStays DEF LiveInv
<1>7. \E c \in Seq(MessageNumber) : Numbering(c)'
  BY <1>5, LivingNumbers
<1>. QED
  BY <1>3, <1>4, <1>6, <1>7 DEF LiveInv

LEMMA DeliverKeeps ==
  ASSUME TypeInv, LiveInv, Deliver
  PROVE  LiveInv'
<1>1. /\ action.at = "deliver" /\ action'.at = "check" /\ action'.message = 0 /\ action'.taken = <<>>
      /\ action'.id = action.id /\ action'.entry = action.entry /\ action'.subscription = action.subscription
      /\ Grows /\ UNCHANGED <<sent, subscriptions, broker, dispatching, history>>
  BY DeliverIs
<1>2. defaultQueue' = defaultQueue
  BY DeliverResults, DeliverCases
<1>. QED
  BY <1>1, <1>2, LaterKeeps

LEMMA CheckKeeps ==
  ASSUME TypeInv, LiveInv, Check
  PROVE  LiveInv'
<1>1. /\ action.at = "check"
      /\ Dsm(action.id) = <<>> => /\ action'.at = "take" /\ action'.id = action.id /\ action'.entry = action.entry
                                  /\ action'.subscription = action.subscription
                                  /\ action'.message = 0 /\ action'.taken = <<>>
      /\ Dsm(action.id) # <<>> => action' = Idle
      /\ Grows /\ UNCHANGED <<sent, subscriptions, broker, dispatching, queues, history>>
  BY CheckIs
<1>2. Dsm(action.id) # <<>> =>
        action'.at = "idle" /\ action'.taken = <<>> /\ action'.message = 0 /\ action'.entry = 0
  BY <1>1 DEF Idle
<1>3. defaultQueue' = defaultQueue
  BY <1>1 DEF queues
<1>. QED
  BY <1>1, <1>2, <1>3, LaterKeeps

LEMMA FlushKeeps ==
  ASSUME TypeInv, LiveInv, Flush, ~crashed'
  PROVE  LiveInv'
<1>1. /\ action.at = "flush" /\ Grows /\ UNCHANGED <<sent, subscriptions, broker, dispatching, history>>
      /\ FlushEnds => action' = Idle /\ defaultQueue' = defaultQueue
      /\ ~FlushEnds => /\ action'.at = "flush" /\ action'.id = action.id /\ action'.entry = action.entry
                       /\ action'.subscription = action.subscription /\ action'.message = 0
  BY FlushIs
<1>2. CASE FlushEnds
  <2>1. action'.at = "idle" /\ action'.taken = <<>> /\ action'.message = 0 /\ action'.entry = 0
    BY <1>1, <1>2 DEF Idle
  <2>. QED
    BY <1>1, <1>2, <2>1, LaterKeeps
<1>3. CASE FlushHands
  <2>1. ~FlushEnds /\ action.taken # <<>>
    BY <1>3 DEF FlushEnds, FlushHands
  <2>2. action.id \in CustomIds
    BY <2>1 DEF LiveInv, WaitingInv
  <2>3. action.id \notin DefaultIds
    BY <2>2, BrokerAssumption
  <2>4. defaultQueue' = defaultQueue
    BY <1>3, <2>3, FlushQueues
  <2>. QED
    BY <1>1, <2>1, <2>4, LaterKeeps
<1>4. CASE FlushCrashes
  <2>1. ~FlushEnds /\ ~IsEntity(action.subscription)
    BY <1>4 DEF FlushEnds, FlushCrashes
  <2>2. crashed' = ~IsEntity(action.subscription)
    BY <2>1, FlushQueues
  <2>. QED
    BY <2>1, <2>2, Zenon
<1>. QED
  BY <1>2, <1>3, <1>4, FlushCases

\* The entry that is taken away leaves no deferred action of its id behind.
LEMMA TakenLast ==
  ASSUME TypeInv, LiveInv, NEW id \in Id \ raced, Dsm(id) = <<>>
  PROVE  \A i \in 1 .. Len(defaultQueue) : ~IsDeferred(defaultQueue[i], id)
<1>1. PICK c \in Seq(MessageNumber) : Numbering(c)
  BY DEF LiveInv
<1>. SUFFICES ASSUME NEW i \in 1 .. Len(defaultQueue), IsDeferred(defaultQueue[i], id) PROVE FALSE
  OBVIOUS
<1>2. i \in 1 .. Len(c) /\ Numbers(c[i], defaultQueue[i])
  BY <1>1 DEF Numbering
<1>3. defaultQueue[i].entry = Entry(id)
  BY DEF LiveInv, EntryInv, EntryOK
<1>4. defaultQueue[i].op = "deferred" /\ defaultQueue[i].id = id
  BY DEF IsDeferred
<1>5. PICK t : t = defaultQueue[i]
  OBVIOUS
<1>6. c[i] \in Rest(id)
  BY <1>2, <1>3, <1>4, <1>5 DEF Numbers
<1>7. c[i] \in Elements(<<>>)
  BY <1>6 DEF Rest
<1>. QED
  BY <1>7, NoElements

LEMMA TakeKeeps ==
  ASSUME TypeInv, LiveInv, Take
  PROVE  LiveInv'
<1>1. PICK id : id = action.id
  OBVIOUS
<1>2. /\ id \in Id /\ action.at = "take" /\ action.message = 0 /\ action.taken = <<>>
      /\ action'.at = "flush" /\ action'.id = id /\ action'.entry = action.entry
      /\ action'.subscription = action.subscription /\ action'.message = 0 /\ action'.taken = Csm(id)
      /\ \A x \in Id : x # id => Entry(x)' = Entry(x) /\ Csm(x)' = Csm(x) /\ Dsm(x)' = Dsm(x)
      /\ Entry(id)' = 0 /\ Csm(id)' = <<>> /\ Dsm(id)' = <<>>
      /\ raced' = IF ~Free /\ Target = id THEN raced \cup {id} ELSE raced
      /\ Grows /\ UNCHANGED <<sent, subscriptions, dispatching, queues, abandoned>>
  BY <1>1, TakeIs
<1>3. defaultQueue' = defaultQueue /\ Target' = Target /\ raced \subseteq raced'
  BY <1>2 DEF queues, Target
<1>4. Csm(id) # <<>> => id \in CustomIds
  BY <1>2, EntryTypes
<1>5. PresenceInv'
  <2>1. action'.at # "idle" /\ (IsEntity(action'.subscription) \/ IsEntity(subscriptions'[action'.id])) =>
          subscriptions'[action'.id] = action'.subscription
    BY <1>1, <1>2 DEF LiveInv, PresenceInv
  <2>2. /\ dispatching'.message # 0 /\ ~IsEntity(dispatching'.subscription) => ~IsEntity(subscriptions'[Target'])
        /\ dispatching'.message # 0 /\ IsEntity(dispatching'.subscription) /\ Target' \in CustomIds \ abandoned' =>
             subscriptions'[Target'] = dispatching'.subscription
    BY <1>2, <1>3 DEF LiveInv, PresenceInv
  <2>3. \A x \in CustomIds \ abandoned' : Csm(x)' # <<>> => IsEntity(subscriptions'[x])
    BY <1>2 DEF LiveInv, PresenceInv, Id
  <2>4. action'.id \notin abandoned' /\ action'.taken # <<>> => IsEntity(action'.subscription)
    <3>1. ASSUME id \notin abandoned, Csm(id) # <<>> PROVE IsEntity(action.subscription)
      <4>1. IsEntity(subscriptions[id])
        BY <1>4, <3>1 DEF LiveInv, PresenceInv
      <4>2. subscriptions[id] = action.subscription
        BY <1>1, <1>2, <4>1 DEF LiveInv, PresenceInv
      <4>. QED
        BY <4>1, <4>2
    <3>. QED
      BY <1>2, <3>1
  <2>. QED
    BY <2>1, <2>2, <2>3, <2>4 DEF PresenceInv, IsEntity
<1>6. EntryInv'
  <2>1. ASSUME NEW x \in Id \ raced', x # id PROVE EntryOK(x)'
    BY <1>2, <1>3, <2>1, EntryStays DEF LiveInv
  <2>2. ASSUME id \in Id \ raced' PROVE EntryOK(id)'
    <3>1. id \in Id \ raced /\ ~(dispatching.message # 0 /\ Target = id)
      BY <1>2, <2>2 DEF Free
    <3>2. Dsm(id) = <<>>
      BY <1>1, <1>2, <3>1 DEF LiveInv, EntryInv, EntryOK
    <3>3. \A i \in 1 .. Len(defaultQueue') : ~IsDeferred(defaultQueue'[i], id)
      BY <1>3, <3>1, <3>2, TakenLast
    <3>4. ~(dispatching'.message # 0 /\ Target' = id)
      BY <1>2, <1>3, <3>1
    <3>. QED
      BY <1>2, <3>3, <3>4 DEF EntryOK, IsDeferred
  <2>. QED
    BY <2>1, <2>2 DEF EntryInv
<1>7. QueueSteady /\ \A x \in Id : ~Popping(x)'
  <2>1. \A x \in Id : (Entry(x)' = Entry(x) /\ Dsm(x)' = Dsm(x)) \/ (Entry(x)' = 0 /\ Dsm(x)' = <<>>)
    BY <1>2
  <2>. QED
    BY <1>2, <1>3, <2>1, LaterSteady
<1>8. WaitingInv'
  <2>1. ASSUME NEW x \in Id PROVE Ascending(Dsm(x))' /\ Elements(Dsm(x))' \subseteq Elements(Dsm(x))
    <3>1. CASE x # id
      BY <1>2, <3>1, SameElements DEF LiveInv, WaitingInv
    <3>2. CASE x = id
      <4>1. Elements(Dsm(x))' = Elements(<<>>) /\ (Ascending(<<>>) => Ascending(Dsm(x))')
        BY <1>2, <3>2 DEF Elements, Ascending
      <4>. QED
        BY <4>1, NoElements
    <3>. QED
      BY <3>1, <3>2
  <2>2. dispatching'.message # 0 =>
          /\ action'.entry # dispatching'.message /\ action'.message # dispatching'.message
          /\ \A x \in Id : dispatching'.message \notin Elements(Dsm(x))'
    BY <1>2, <2>1 DEF LiveInv, WaitingInv
  <2>3. action'.taken # <<>> => action'.id \in CustomIds
    BY <1>2, <1>4
  <2>. QED
    BY <1>7, <2>1, <2>2, <2>3 DEF WaitingInv, Elements
<1>9. \E c \in Seq(MessageNumber) : Numbering(c)'
  BY <1>7, LivingNumbers
<1>. QED
  BY <1>5, <1>6, <1>8, <1>9 DEF LiveInv

LEMMA RunInvokedKeeps ==
  ASSUME TypeInv, LiveInv, RunInvoked
  PROVE  LiveInv'
<1>1. /\ action = Idle /\ dispatching.message = 0 /\ defaultQueue # <<>>
      /\ Head(defaultQueue).op = "invoke" /\ defaultQueue' = Tail(defaultQueue)
      /\ UNCHANGED <<sent, subscriptions, broker, dispatching, action, history>>
  BY RunInvokedIs
<1>2. /\ \A x \in Id : Entry(x)' = Entry(x) /\ Dsm(x)' = Dsm(x) /\ Csm(x)' = Csm(x)
      /\ UNCHANGED <<raced, abandoned>> /\ dispatching'.message = 0
  BY <1>1 DEF Entry, Dsm, Csm, history
<1>3. /\ \A i \in 1 .. Len(defaultQueue') :
           i + 1 \in 1 .. Len(defaultQueue) /\ defaultQueue'[i] = defaultQueue[i + 1]
      /\ defaultQueue[1] = Head(defaultQueue)
  BY <1>1, Taken DEF TypeInv, TasksOK
<1>4. \A x \in Id : (Popping(x)' <=> Popping(x)) /\ Rest(x)' = Rest(x)
  BY <1>1, <1>2, SameRest
<1>5. PresenceInv'
  <2>1. \A x \in CustomIds : Csm(x)' = Csm(x)
    BY <1>2 DEF Id
  <2>. QED
    BY <1>1, <1>2, <2>1, PresenceStays DEF LiveInv
<1>6. EntryInv'
  <2>1. ASSUME NEW x \in Id \ raced' PROVE EntryOK(x)'
    BY <1>1, <1>2, <1>3, EntryStays DEF LiveInv
  <2>. QED
    BY <2>1 DEF EntryInv
<1>7. WaitingInv'
  BY <1>1, <1>2, <1>4, WaitingStays DEF LiveInv
<1>8. \E c \in Seq(MessageNumber) : Numbering(c)'
  <2>1. PICK c \in Seq(MessageNumber) : Numbering(c)
    BY DEF LiveInv
  <2>2. ASSUME NEW i \in 2 .. Len(c), Numbers(c[i], defaultQueue[i]) PROVE Numbers(c[i], defaultQueue[i - 1])'
    <3>1. Len(c) = Len(defaultQueue) /\ defaultQueue \in Seq(Task)
      BY <2>1 DEF Numbering, TypeInv, TasksOK
    <3>2. i - 1 \in 1 .. Len(Tail(defaultQueue)) /\ Tail(defaultQueue)[i - 1] = defaultQueue[i]
      BY <1>1, <3>1, Taken
    <3>3. defaultQueue'[i - 1] = defaultQueue[i] /\ defaultQueue[i] \in Task
      BY <1>1, <3>1, <3>2
    <3>4. PICK t \in Task, n \in MessageNumber : t = defaultQueue[i] /\ n = c[i]
      <4>1. c[i] \in MessageNumber
        BY <2>1
      <4>. QED
        BY <3>3, <4>1
    <3>5. t.id \in Id
      BY DEF Task
    <3>6. Entry(t.id)' = Entry(t.id) /\ Rest(t.id)' = Rest(t.id)
      BY <1>2, <1>4, <3>5
    <3>7. Numbers(n, t)'
      BY <1>1, <2>2, <3>4, <3>6 DEF Numbers
    <3>. QED
      BY <3>3, <3>4, <3>7 DEF Numbers
  <2>3. \A x \in Id \ raced' : \A n \in Rest(x)' :
          x \notin raced /\ n \in Rest(x) /\ ~(n = c[1] /\ IsDeferred(defaultQueue[1], x))
    BY <1>1, <1>2, <1>3, <1>4 DEF IsDeferred
  <2>4. Front' = {}
    BY <1>1 DEF Front, Idle
  <2>5. Numbering(Tail(c))' /\ c # <<>>
    BY <1>1, <2>1, <2>2, <2>3, <2>4, NumberingLess
  <2>6. Tail(c) \in Seq(MessageNumber)
    BY <2>1, <2>5
  <2>. QED
    BY <2>5, <2>6
<1>. QED
  BY <1>5, <1>6, <1>7, <1>8 DEF LiveInv

-----------------------------------------------------------------------------
(* Crashes, and the theorems *)

\* The steps that can crash: an entry that is gone, or an entity that is gone.
LEMMA PutCrashes ==
  ASSUME TypeInv, LiveInv, Put
  PROVE  raced \subseteq raced' /\ abandoned' = abandoned /\ (crashed' => crashed \/ raced' # {})
<1>1. PICK id : id = Target
  OBVIOUS
<1>2. /\ id \in Id /\ dispatching.message # 0 /\ raced \subseteq raced' /\ abandoned' = abandoned
  BY <1>1, PutIs
<1>3. CASE PutHolds
  <2>1. crashed' = (Entry(id) # dispatching.entry)
    BY <1>1, <1>3, HoldsIs
  <2>2. id \notin raced => Entry(id) = dispatching.entry
    BY <1>1, <1>2 DEF LiveInv, EntryInv, EntryOK
  <2>3. crashed' => id \in raced
    BY <2>1, <2>2, Zenon
  <2>. QED
    BY <1>2, <2>3
<1>4. CASE PutDefers \/ PutInvokes
  BY <1>1, <1>2, <1>4, DefersIs, InvokesIs
<1>. QED
  BY <1>3, <1>4, PutCases

LEMMA PopCrashes ==
  ASSUME TypeInv, LiveInv, Pop
  PROVE  raced' = raced /\ abandoned' = abandoned /\ (crashed' => raced' # {})
<1>1. PICK id : id = action.id
  OBVIOUS
<1>2. id \in Id /\ action.at = "pop" /\ UNCHANGED <<raced, abandoned>>
  BY <1>1, PopIs DEF history
<1>3. crashed' = (Entry(id) # action.entry)
  BY <1>1, PopIs
<1>4. id \notin raced => Entry(id) = action.entry
  BY <1>1, <1>2 DEF LiveInv, EntryInv, EntryOK
<1>5. crashed' => id \in raced
  BY <1>3, <1>4, Zenon
<1>. QED
  BY <1>2, <1>5

LEMMA FlushCrashesOnly ==
  ASSUME TypeInv, LiveInv, Flush
  PROVE  raced' = raced /\ abandoned' = abandoned /\ (crashed' => crashed \/ abandoned' # {})
<1>1. UNCHANGED <<raced, abandoned>>
  BY FlushIs DEF history
<1>2. CASE FlushEnds
  <2>1. crashed' = crashed
    BY <1>2, FlushIs
  <2>. QED
    BY <1>1, <2>1
<1>3. CASE ~FlushEnds
  <2>1. crashed' = ~IsEntity(action.subscription)
    BY <1>3, FlushQueues
  <2>2. action.taken # <<>>
    BY <1>3 DEF FlushEnds
  <2>3. action.id \notin abandoned => IsEntity(action.subscription)
    BY <2>2 DEF LiveInv, PresenceInv
  <2>4. crashed' => action.id \in abandoned
    BY <2>1, <2>3, Zenon
  <2>. QED
    BY <1>1, <2>4
<1>. QED
  BY <1>2, <1>3

\* No other step crashes.
LEMMA OthersLive ==
  ASSUME TypeInv, [BrokerNext]_brokerVars, ~Put, ~Pop, ~Flush
  PROVE  /\ crashed' = crashed /\ raced \subseteq raced' /\ abandoned \subseteq abandoned'
<1>1. ASSUME NEW id \in Id, Dispatch(id) PROVE UNCHANGED <<crashed, raced, abandoned>>
  BY <1>1 DEF Dispatch, history
<1>2. ASSUME NEW id \in Id, AdviseOn(id) PROVE UNCHANGED <<crashed, raced, abandoned>>
  BY <1>2 DEF AdviseOn, history
<1>3. ASSUME NEW id \in Id, LifetimeEnds(id)
      PROVE  UNCHANGED <<crashed, raced>> /\ abandoned \subseteq abandoned'
  BY <1>3 DEF LifetimeEnds
<1>4. ASSUME BeginDeferred \/ Deliver \/ Check \/ RunInvoked \/ RunCustom PROVE UNCHANGED <<crashed, raced, abandoned>>
  BY <1>4 DEF BeginDeferred, Deliver, Check, RunInvoked, RunCustom, history
<1>5. ASSUME Take PROVE UNCHANGED <<crashed, abandoned>> /\ raced \subseteq raced'
  BY <1>5 DEF Take
<1>6. ASSUME UNCHANGED brokerVars PROVE UNCHANGED <<crashed, raced, abandoned>>
  BY <1>6 DEF brokerVars, history
<1>. QED
  BY <1>1, <1>2, <1>3, <1>4, <1>5, <1>6 DEF BrokerNext, SocketThread, DefaultThread

LEMMA LiveInit == BrokerInit => LiveInv
<1>. SUFFICES ASSUME BrokerInit PROVE LiveInv
  OBVIOUS
<1>1. /\ \A x \in Id : Entry(x) = 0 /\ Dsm(x) = <<>> /\ Csm(x) = <<>>
      /\ dispatching.message = 0 /\ action.at = "idle" /\ action.taken = <<>>
      /\ defaultQueue = <<>> /\ Len(defaultQueue) = 0
  BY DEF BrokerInit, Entry, Dsm, Csm, NoEntry, NoDispatch, Idle
<1>2. PresenceInv
  BY <1>1 DEF PresenceInv, Id
<1>3. EntryInv
  BY <1>1 DEF EntryInv, EntryOK
<1>4. WaitingInv
  <2>1. ASSUME NEW x \in Id PROVE Ascending(Dsm(x)) /\ (Popping(x) => Dsm(x) # <<>>)
    BY <1>1, NoElements DEF Popping
  <2>. QED
    BY <1>1, <2>1 DEF WaitingInv
<1>5. <<>> \in Seq(MessageNumber) /\ Numbering(<<>>)
  <2>1. \A x \in Id : Rest(x) = {}
    BY <1>1, NoElements DEF Rest
  <2>2. Ascending(<<>>) /\ <<>> \in Seq(MessageNumber) /\ Len(<<>>) = 0
    BY NoElements
  <2>. QED
    BY <1>1, <2>1, <2>2 DEF Numbering
<1>. QED
  BY <1>2, <1>3, <1>4, <1>5 DEF LiveInv

LEMMA LiveStutters ==
  ASSUME TypeInv, LiveInv, UNCHANGED brokerVars
  PROVE  LiveInv'
<1>1. UNCHANGED <<sent, subscriptions, broker, dispatching, action, defaultQueue, entities, raced, abandoned>>
  BY DEF brokerVars, queues, history
<1>2. Grows
  BY <1>1, Stays
<1>3. \A x \in CustomIds : Csm(x)' = Csm(x)
  BY <1>1 DEF Csm
<1>4. PresenceInv'
  BY <1>1, <1>3, PresenceStays DEF LiveInv
<1>. QED
  BY <1>1, <1>2, <1>4, RestStays DEF LiveInv

LEMMA LiveStep ==
  ASSUME TypeInv, LiveInv, [BrokerNext]_brokerVars, ~crashed'
  PROVE  LiveInv'
<1>1. ASSUME NEW id \in Id, Dispatch(id) \/ AdviseOn(id) \/ LifetimeEnds(id) PROVE LiveInv'
  BY <1>1, DispatchKeeps, AdviseOnKeeps, LifetimeEndsKeeps
<1>2. CASE Put
  BY <1>2, PutKeeps
<1>3. CASE DefaultThread
  BY <1>3, BeginDeferredKeeps, PopKeeps, DeliverKeeps, CheckKeeps, TakeKeeps, FlushKeeps, RunInvokedKeeps
     DEF DefaultThread
<1>4. CASE RunCustom
  BY <1>4, RunCustomKeeps
<1>5. CASE UNCHANGED brokerVars
  BY <1>5, LiveStutters
<1>. QED
  BY <1>1, <1>2, <1>3, <1>4, <1>5 DEF BrokerNext, SocketThread

\* Nothing happens after a crash.
LEMMA CrashEnds ==
  ASSUME TypeInv, crashed, [BrokerNext]_brokerVars
  PROVE  UNCHANGED brokerVars
BY DEF BrokerNext, SocketThread, DefaultThread, Dispatch, Put, BeginDeferred, Pop, Deliver, Check, Take, Flush,
       RunInvoked, RunCustom, AdviseOn, LifetimeEnds

LEMMA CrashStep ==
  ASSUME TypeInv, ~crashed, LiveInv, [BrokerNext]_brokerVars
  PROVE  CrashIsExplained'
<1>1. CASE Put \/ Pop \/ Flush
  BY <1>1, PutCrashes, PopCrashes, FlushCrashesOnly DEF CrashIsExplained
<1>2. CASE ~Put /\ ~Pop /\ ~Flush
  BY <1>2, OthersLive DEF CrashIsExplained
<1>. QED
  BY <1>1, <1>2

LEMMA BrokerInit_Inv == BrokerInit => BrokerInv
<1>1. BrokerInit => CrashIsExplained
  BY Zenon DEF BrokerInit, CrashIsExplained
<1>. QED
  BY <1>1, TypeInit, LiveInit DEF BrokerInv

LEMMA BrokerStep == BrokerInv /\ [BrokerNext]_brokerVars => BrokerInv'
<1>. SUFFICES ASSUME BrokerInv, [BrokerNext]_brokerVars PROVE BrokerInv'
  OBVIOUS
<1>1. TypeInv /\ TypeInv'
  BY TypeStep DEF BrokerInv
<1>2. CASE crashed
  <2>1. UNCHANGED brokerVars
    BY <1>1, <1>2, CrashEnds
  <2>2. crashed' = crashed /\ raced' = raced /\ abandoned' = abandoned
    BY <2>1 DEF brokerVars, history
  <2>. QED
    BY <1>1, <1>2, <2>2, Zenon DEF BrokerInv, CrashIsExplained
<1>3. CASE ~crashed
  <2>1. LiveInv
    BY <1>3 DEF BrokerInv
  <2>2. ~crashed' => LiveInv'
    BY <1>1, <2>1, LiveStep
  <2>3. CrashIsExplained'
    BY <1>1, <1>3, <2>1, CrashStep
  <2>. QED
    BY <1>1, <2>2, <2>3 DEF BrokerInv
<1>. QED
  BY <1>2, <1>3

LEMMA BrokerAlways == BrokerSpec => []BrokerInv
BY BrokerInit_Inv, BrokerStep, PTL DEF BrokerSpec

\* The program uses an entry that is erased, or an entity that is not there,
\* only if a message came while the entry of its id was taken away, or an
\* entity left while messages were held back for it.
THEOREM CrashesAreExplained == BrokerSpec => []CrashIsExplained
<1>1. BrokerInv => CrashIsExplained
  BY DEF BrokerInv
<1>. QED
  BY <1>1, BrokerAlways, PTL

-----------------------------------------------------------------------------
(* No message is lost *)

Kept(n) == sent[n] \in raced \/ Settled(n) \/ Waiting(n)

\* A message that the step did not move is where it was; one that it moved is
\* somewhere else.
LEMMA KeptBefore ==
  ASSUME NEW n, Kept(n), NEW x, x = sent[n]
  PROVE  \/ x \in raced \/ n \in Elements(executed) \cup dropped \cup astray
         \/ dispatching.message = n \/ action.message = n \/ n \in Elements(action.taken)
         \/ n \in Elements(Dsm(x)) \/ n \in Elements(Csm(x))
         \/ \E t \in Elements(defaultQueue) \cup Elements(customQueue) : t.message = n
BY DEF Kept, Settled, Waiting, Dsm, Csm

LEMMA KeptAfter ==
  ASSUME NEW n, NEW x, x = sent'[n],
         \/ x \in raced' \/ n \in Elements(executed') \cup dropped' \cup astray'
         \/ dispatching'.message = n \/ action'.message = n \/ n \in Elements(action'.taken)
         \/ n \in Elements(Dsm(x)') \/ n \in Elements(Csm(x)')
         \/ \E t \in Elements(defaultQueue') \cup Elements(customQueue') : t.message = n
  PROVE  Kept(n)'
BY DEF Kept, Settled, Waiting, Dsm, Csm, Elements

\* What an append or a take does to the elements of the queues, and to those
\* that were executed.
LEMMA QueuesElements ==
  ASSUME TypeInv
  PROVE  /\ \A t \in Task : defaultQueue' = Append(defaultQueue, t) =>
                              Elements(defaultQueue') = Elements(defaultQueue) \cup {t}
         /\ \A t \in Task : customQueue' = Append(customQueue, t) =>
                              Elements(customQueue') = Elements(customQueue) \cup {t}
         /\ defaultQueue # <<>> /\ defaultQueue' = Tail(defaultQueue) =>
              Elements(defaultQueue) = Elements(defaultQueue') \cup {Head(defaultQueue)}
         /\ customQueue # <<>> /\ customQueue' = Tail(customQueue) =>
              Elements(customQueue) = Elements(customQueue') \cup {Head(customQueue)}
         /\ \A n \in MessageNumber : executed' = Append(executed, n) =>
                                       Elements(executed') = Elements(executed) \cup {n}
<1>1. defaultQueue \in Seq(Task) /\ customQueue \in Seq(Task) /\ executed \in Seq(MessageNumber)
  BY DEF TypeInv, TasksOK, ResultsOK
<1>2. ASSUME NEW t \in Task, defaultQueue' = Append(defaultQueue, t)
      PROVE  Elements(defaultQueue') = Elements(defaultQueue) \cup {t}
  BY <1>1, <1>2, AppendedElements
<1>3. ASSUME NEW t \in Task, customQueue' = Append(customQueue, t)
      PROVE  Elements(customQueue') = Elements(customQueue) \cup {t}
  BY <1>1, <1>3, AppendedElements
<1>4. ASSUME defaultQueue # <<>>, defaultQueue' = Tail(defaultQueue)
      PROVE  Elements(defaultQueue) = Elements(defaultQueue') \cup {Head(defaultQueue)}
  BY <1>1, <1>4, TakenElements
<1>5. ASSUME customQueue # <<>>, customQueue' = Tail(customQueue)
      PROVE  Elements(customQueue) = Elements(customQueue') \cup {Head(customQueue)}
  BY <1>1, <1>5, TakenElements
<1>6. ASSUME NEW n \in MessageNumber, executed' = Append(executed, n)
      PROVE  Elements(executed') = Elements(executed) \cup {n}
  BY <1>1, <1>6, AppendedElements
<1>. QED
  BY <1>2, <1>3, <1>4, <1>5, <1>6, Zenon

LEMMA DispatchLoses ==
  ASSUME TypeInv, NEW id \in Id, Dispatch(id)
  PROVE  /\ \A n \in 1 .. Len(sent) : Kept(n) => Kept(n)'
         /\ \A n \in 1 .. Len(sent') : n \in 1 .. Len(sent) \/ Kept(n)'
<1>1. /\ \A x \in Id : Dsm(x)' = Dsm(x) /\ Csm(x)' = Csm(x)
      /\ UNCHANGED <<action, queues, results, history>>
      /\ dispatching'.message = Len(sent) + 1 /\ Len(sent) \in Nat /\ Len(sent') = Len(sent) + 1
      /\ dispatching.message = 0
      /\ \A n \in 1 .. Len(sent) : sent'[n] = sent[n] /\ sent[n] \in Id
  <2>1. sent' = Append(sent, id) /\ dispatching.message = 0 /\ sent \in Seq(Id)
    BY DEF Dispatch, TypeInv, SentOK
  <2>2. Len(sent) \in Nat /\ Len(sent') = Len(sent) + 1 /\ \A n \in 1 .. Len(sent) : sent'[n] = sent[n] /\ sent[n] \in Id
    BY <2>1
  <2>3. \A x \in Id : Dsm(x)' = Dsm(x) /\ Csm(x)' = Csm(x)
    BY DispatchFacts
  <2>4. UNCHANGED <<action, queues, results, history>>
    BY DEF Dispatch
  <2>5. dispatching'.message = Len(sent) + 1
    BY DispatchFacts
  <2>. QED
    BY <2>1, <2>2, <2>3, <2>4, <2>5
<1>2. ASSUME NEW n \in 1 .. Len(sent), Kept(n) PROVE Kept(n)'
  <2>1. PICK x \in Id : x = sent[n] /\ x = sent'[n]
    BY <1>1
  <2>2. dispatching.message # n
    BY <1>1
  <2>. QED
    BY <1>1, <1>2, <2>1, <2>2, KeptBefore, KeptAfter DEF queues, results, history
<1>3. ASSUME NEW n \in 1 .. Len(sent'), n \notin 1 .. Len(sent) PROVE Kept(n)'
  <2>1. dispatching'.message = n
    BY <1>1, <1>3
  <2>. QED
    BY <2>1, KeptAfter
<1>. QED
  BY <1>2, <1>3

LEMMA PutLoses ==
  ASSUME TypeInv, Put, NEW n \in 1 .. Len(sent), Kept(n)
  PROVE  Kept(n)'
<1>1. PICK id, x : id = Target /\ x = sent[n]
  OBVIOUS
<1>2. /\ id \in Id /\ UNCHANGED <<sent, action, results>> /\ raced \subseteq raced'
      /\ dispatching.message \in MessageNumber
      /\ n = dispatching.message => x = id
      /\ x \in Id
  BY <1>1, PutIs DEF Target, TypeInv, SentOK
<1>3. /\ Dsm(id) \in Seq(MessageNumber) /\ Csm(id) \in Seq(MessageNumber)
  BY <1>2, EntryTypes
<1>4. CASE PutDefers
  <2>1. /\ \A y \in Id : Csm(y)' = Csm(y) /\ (y # id => Dsm(y)' = Dsm(y))
        /\ Dsm(id)' = Append(Dsm(id), dispatching.message)
        /\ Deferred(id, dispatching.entry) \in Task
        /\ defaultQueue' = Append(defaultQueue, Deferred(id, dispatching.entry)) /\ customQueue' = customQueue
    BY <1>1, <1>4, DefersIs
  <2>2. Elements(defaultQueue') = Elements(defaultQueue) \cup {Deferred(id, dispatching.entry)}
    BY <2>1, QueuesElements
  <2>3. Elements(Dsm(id)') = Elements(Dsm(id)) \cup {dispatching.message}
    BY <1>2, <1>3, <2>1, AppendedElements
  <2>4. Elements(Dsm(x)) \subseteq Elements(Dsm(x)') /\ Elements(Csm(x)) = Elements(Csm(x)')
    BY <1>2, <2>1, <2>3
  <2>5. n = dispatching.message => n \in Elements(Dsm(x)')
    BY <1>2, <2>3
  <2>. QED
    BY <1>1, <1>2, <2>1, <2>2, <2>4, <2>5, KeptBefore, KeptAfter DEF results
<1>5. CASE PutHolds
  <2>1. /\ \A y \in Id : Dsm(y)' = Dsm(y) /\ (y # id => Csm(y)' = Csm(y))
        /\ Csm(id)' = Append(Csm(id), dispatching.message)
        /\ defaultQueue' = defaultQueue /\ customQueue' = customQueue
    BY <1>1, <1>5, HoldsIs
  <2>2. Elements(Csm(id)') = Elements(Csm(id)) \cup {dispatching.message}
    BY <1>2, <1>3, <2>1, AppendedElements
  <2>3. Elements(Csm(x)) \subseteq Elements(Csm(x)') /\ Elements(Dsm(x)) = Elements(Dsm(x)')
    BY <1>2, <2>1, <2>2
  <2>4. n = dispatching.message => n \in Elements(Csm(x)')
    BY <1>2, <2>2
  <2>. QED
    BY <1>1, <1>2, <2>1, <2>3, <2>4, KeptBefore, KeptAfter DEF results
<1>6. CASE PutInvokes
  <2>1. PICK t : t = Invocation(id, dispatching.subscription, dispatching.message)
    OBVIOUS
  <2>2. /\ broker' = broker /\ t \in Task
        /\ \/ defaultQueue' = Append(defaultQueue, t) /\ customQueue' = customQueue
           \/ customQueue' = Append(customQueue, t) /\ defaultQueue' = defaultQueue
    BY <1>1, <1>6, <2>1, InvokesIs
  <2>3. Elements(defaultQueue') \cup Elements(customQueue') = Elements(defaultQueue) \cup Elements(customQueue) \cup {t}
    BY <2>2, QueuesElements
  <2>4. t.message = dispatching.message
    BY <2>1 DEF Invocation
  <2>5. Dsm(x)' = Dsm(x) /\ Csm(x)' = Csm(x)
    BY <2>2 DEF Dsm, Csm
  <2>. QED
    BY <1>1, <1>2, <2>3, <2>4, <2>5, KeptBefore, KeptAfter DEF results
<1>. QED
  BY <1>4, <1>5, <1>6, PutCases

\* A step that moves no message.
LEMMA NothingMoves ==
  ASSUME NEW n \in 1 .. Len(sent), Kept(n),
         UNCHANGED <<sent, broker, dispatching, action, queues, results, raced>>
  PROVE  Kept(n)'
<1>1. PICK x : x = sent[n]
  OBVIOUS
<1>2. Dsm(x)' = Dsm(x) /\ Csm(x)' = Csm(x)
  BY DEF Dsm, Csm
<1>. QED
  BY <1>1, <1>2, KeptBefore, KeptAfter DEF queues, results

LEMMA BeginDeferredLoses ==
  ASSUME TypeInv, BeginDeferred, NEW n \in 1 .. Len(sent), Kept(n)
  PROVE  Kept(n)'
<1>1. PICK x : x = sent[n]
  OBVIOUS
<1>2. /\ action = Idle /\ defaultQueue # <<>> /\ Head(defaultQueue).op = "deferred"
      /\ defaultQueue' = Tail(defaultQueue)
      /\ UNCHANGED <<sent, broker, dispatching, customQueue, results, history>>
  BY BeginDeferredIs
<1>3. Head(defaultQueue).message = 0
  BY <1>2, Taken DEF TypeInv, TasksOK, DefaultTask
<1>4. Elements(defaultQueue) = Elements(defaultQueue') \cup {Head(defaultQueue)}
  BY <1>2, QueuesElements
<1>5. action.message = 0 /\ Elements(action.taken) = {} /\ n # 0
  BY <1>2, NoElements DEF Idle
<1>6. Dsm(x)' = Dsm(x) /\ Csm(x)' = Csm(x)
  BY <1>2 DEF Dsm, Csm
<1>. QED
  BY <1>1, <1>2, <1>3, <1>4, <1>5, <1>6, KeptBefore, KeptAfter DEF results, history

LEMMA PopLoses ==
  ASSUME TypeInv, Pop, NEW n \in 1 .. Len(sent), Kept(n)
  PROVE  Kept(n)'
<1>1. PICK id, x : id = action.id /\ x = sent[n]
  OBVIOUS
<1>2. /\ id \in Id /\ action.at = "pop"
      /\ \A y \in Id : Csm(y)' = Csm(y) /\ (y # id => Dsm(y)' = Dsm(y))
      /\ Dsm(id)' = IF Dsm(id) = <<>> THEN <<>> ELSE Tail(Dsm(id))
      /\ action'.message = IF Dsm(id) = <<>> THEN 0 ELSE Head(Dsm(id))
      /\ action'.taken = action.taken
      /\ UNCHANGED <<sent, dispatching, queues, results, history>>
  BY <1>1, PopIs
<1>3. action.message # n
  BY <1>2 DEF TypeInv, ActionOK
<1>4. x \in Id
  BY <1>1 DEF TypeInv, SentOK
<1>5. n \in Elements(Dsm(x)) => n \in Elements(Dsm(x)') \/ n = action'.message
  <2>1. CASE x = id /\ Dsm(id) # <<>>
    <3>1. Elements(Dsm(id)) = {Head(Dsm(id))} \cup Elements(Tail(Dsm(id)))
      BY <1>2, <2>1, EntryTypes, TakenElements
    <3>. QED
      BY <1>2, <2>1, <3>1
  <2>2. CASE ~(x = id /\ Dsm(id) # <<>>)
    BY <1>2, <1>4, <2>2
  <2>. QED
    BY <2>1, <2>2
<1>. QED
  BY <1>1, <1>2, <1>3, <1>4, <1>5, KeptBefore, KeptAfter DEF queues, results, history

LEMMA DeliverLoses ==
  ASSUME TypeInv, Deliver, NEW n \in 1 .. Len(sent), Kept(n)
  PROVE  Kept(n)'
<1>1. PICK x : x = sent[n]
  OBVIOUS
<1>2. /\ action.taken = <<>> /\ action'.taken = <<>>
      /\ action.message # 0 => action.message \in MessageNumber
      /\ UNCHANGED <<sent, broker, dispatching, astray, history>>
  BY DeliverIs
<1>3. Dsm(x)' = Dsm(x) /\ Csm(x)' = Csm(x) /\ n # 0
  BY <1>2 DEF Dsm, Csm
<1>4. CASE DeliverDrops \/ DeliverNone
  <2>1. /\ executed' = executed /\ defaultQueue' = defaultQueue /\ customQueue' = customQueue
        /\ dropped \subseteq dropped' /\ (n = action.message => n \in dropped')
    BY <1>3, <1>4, DeliverResults DEF DeliverNone
  <2>. QED
    BY <1>1, <1>2, <1>3, <2>1, KeptBefore, KeptAfter DEF history
<1>5. CASE DeliverHere
  <2>1. /\ dropped' = dropped /\ executed' = Append(executed, action.message)
        /\ defaultQueue' = defaultQueue /\ customQueue' = customQueue /\ action.message # 0
    BY <1>5, DeliverResults DEF DeliverHere
  <2>2. Elements(executed') = Elements(executed) \cup {action.message}
    BY <1>2, <2>1, QueuesElements
  <2>. QED
    BY <1>1, <1>2, <1>3, <2>1, <2>2, KeptBefore, KeptAfter DEF history
<1>6. CASE DeliverThere
  <2>1. PICK t : t = Invocation(action.id, action.subscription, action.message)
    OBVIOUS
  <2>2. /\ dropped' = dropped /\ executed' = executed /\ defaultQueue' = defaultQueue
        /\ t \in Task /\ customQueue' = Append(customQueue, t)
    BY <1>6, <2>1, DeliverResults
  <2>3. Elements(customQueue') = Elements(customQueue) \cup {t} /\ t.message = action.message
    BY <2>1, <2>2, QueuesElements DEF Invocation
  <2>. QED
    BY <1>1, <1>2, <1>3, <2>2, <2>3, KeptBefore, KeptAfter DEF history
<1>. QED
  BY <1>4, <1>5, <1>6, DeliverCases

LEMMA CheckLoses ==
  ASSUME TypeInv, Check, NEW n \in 1 .. Len(sent), Kept(n)
  PROVE  Kept(n)'
<1>1. PICK x : x = sent[n]
  OBVIOUS
<1>2. /\ action.message = 0 /\ action.taken = <<>>
      /\ UNCHANGED <<sent, broker, dispatching, queues, results, history>>
  BY CheckIs
<1>3. Dsm(x)' = Dsm(x) /\ Csm(x)' = Csm(x) /\ n # 0 /\ Elements(action.taken) = {}
  BY <1>2, NoElements DEF Dsm, Csm
<1>. QED
  BY <1>1, <1>2, <1>3, KeptBefore, KeptAfter DEF queues, results, history

LEMMA TakeLoses ==
  ASSUME TypeInv, LiveInv, Take, NEW n \in 1 .. Len(sent), Kept(n)
  PROVE  Kept(n)'
<1>1. PICK id, x : id = action.id /\ x = sent[n]
  OBVIOUS
<1>2. /\ id \in Id /\ action.at = "take" /\ action.message = 0 /\ action.taken = <<>>
      /\ action'.taken = Csm(id)
      /\ \A y \in Id : y # id => Csm(y)' = Csm(y) /\ Dsm(y)' = Dsm(y)
      /\ raced \subseteq raced' /\ UNCHANGED <<sent, dispatching, queues, results>>
  BY <1>1, TakeIs
<1>3. Elements(action.taken) = {} /\ n # 0 /\ x \in Id
  BY <1>1, <1>2, NoElements DEF TypeInv, SentOK
<1>4. n \in Elements(Dsm(x)) => x \in raced' \/ n \in Elements(Dsm(x)')
  <2>1. CASE x = id /\ id \notin raced
    <3>1. Dsm(id) = <<>>
      BY <1>1, <1>2, <2>1 DEF LiveInv, EntryInv, EntryOK
    <3>2. Elements(Dsm(x)) = {}
      BY <2>1, <3>1, NoElements
    <3>. QED
      BY <3>2
  <2>2. CASE x # id
    BY <1>2, <1>3, <2>2
  <2>3. CASE x \in raced
    BY <1>2, <2>3
  <2>. QED
    BY <2>1, <2>2, <2>3
<1>5. n \in Elements(Csm(x)) => n \in Elements(action'.taken) \/ n \in Elements(Csm(x)')
  BY <1>2, <1>3
<1>. QED
  BY <1>1, <1>2, <1>3, <1>4, <1>5, KeptBefore, KeptAfter DEF queues, results

LEMMA FlushLoses ==
  ASSUME TypeInv, Flush, ~crashed', NEW n \in 1 .. Len(sent), Kept(n)
  PROVE  Kept(n)'
<1>1. PICK id, x : id = action.id /\ x = sent[n]
  OBVIOUS
<1>2. /\ id \in Id /\ action.message = 0
      /\ UNCHANGED <<sent, broker, dispatching, results, history>>
      /\ FlushEnds => defaultQueue' = defaultQueue /\ customQueue' = customQueue
      /\ ~FlushEnds => action'.taken = Tail(action.taken)
  BY <1>1, FlushIs
<1>3. Dsm(x)' = Dsm(x) /\ Csm(x)' = Csm(x) /\ n # 0
  BY <1>2 DEF Dsm, Csm
<1>4. CASE FlushEnds
  <2>1. Elements(action.taken) = {}
    BY <1>4, NoElements DEF FlushEnds
  <2>. QED
    BY <1>1, <1>2, <1>3, <1>4, <2>1, KeptBefore, KeptAfter DEF results, history
<1>5. CASE FlushHands
  <2>1. ~FlushEnds /\ action.taken # <<>> /\ action.taken \in Seq(MessageNumber)
    BY <1>5, ActionTypes DEF FlushEnds, FlushHands
  <2>2. PICK t : t = Invocation(id, action.subscription, Head(action.taken))
    OBVIOUS
  <2>3. /\ t \in Task
        /\ \/ defaultQueue' = Append(defaultQueue, t) /\ customQueue' = customQueue
           \/ customQueue' = Append(customQueue, t) /\ defaultQueue' = defaultQueue
    BY <1>1, <1>5, <2>2, FlushQueues DEF FlushHands
  <2>4. Elements(defaultQueue') \cup Elements(customQueue') = Elements(defaultQueue) \cup Elements(customQueue) \cup {t}
    BY <2>3, QueuesElements
  <2>5. t.message = Head(action.taken)
    BY <2>2 DEF Invocation
  <2>6. Elements(action.taken) = {Head(action.taken)} \cup Elements(action'.taken)
    BY <1>2, <2>1, TakenElements
  <2>. QED
    BY <1>1, <1>2, <1>3, <2>4, <2>5, <2>6, KeptBefore, KeptAfter DEF results, history
<1>6. CASE FlushCrashes
  <2>1. ~FlushEnds /\ ~IsEntity(action.subscription)
    BY <1>6 DEF FlushEnds, FlushCrashes
  <2>2. crashed' = ~IsEntity(action.subscription)
    BY <2>1, FlushQueues
  <2>. QED
    BY <2>1, <2>2, Zenon
<1>. QED
  BY <1>4, <1>5, <1>6, FlushCases

\* A task that is executed leaves its message among the results.
LEMMA RunLoses ==
  ASSUME TypeInv, RunInvoked \/ RunCustom, NEW n \in 1 .. Len(sent), Kept(n)
  PROVE  Kept(n)'
<1>1. PICK x : x = sent[n]
  OBVIOUS
<1>2. PICK t \in Task :
        /\ Hands(t) /\ Execute(t)
        /\ \/ defaultQueue # <<>> /\ t = Head(defaultQueue)
              /\ defaultQueue' = Tail(defaultQueue) /\ customQueue' = customQueue
           \/ customQueue # <<>> /\ t = Head(customQueue)
              /\ customQueue' = Tail(customQueue) /\ defaultQueue' = defaultQueue
        /\ UNCHANGED <<sent, broker, dispatching, action, history>>
  BY RunInvokedIs, RunCustomIs, Zenon
<1>3. Elements(defaultQueue) \cup Elements(customQueue) = Elements(defaultQueue') \cup Elements(customQueue') \cup {t}
  BY <1>2, QueuesElements
<1>4. t.message \in MessageNumber
  BY <1>2, BrokerAssumption DEF Hands, TypeInv, SentOK, MessageNumber
<1>5. /\ Elements(executed) \subseteq Elements(executed') /\ dropped \subseteq dropped' /\ astray \subseteq astray'
      /\ t.message \in Elements(executed') \cup dropped' \cup astray'
  BY <1>2, <1>4, ExecuteIs, QueuesElements
<1>6. Dsm(x)' = Dsm(x) /\ Csm(x)' = Csm(x)
  BY <1>2 DEF Dsm, Csm
<1>. QED
  BY <1>1, <1>2, <1>3, <1>5, <1>6, KeptBefore, KeptAfter DEF history

LEMMA NothingLostStep ==
  ASSUME TypeInv, ~crashed => LiveInv, NothingLost, [BrokerNext]_brokerVars
  PROVE  NothingLost'
<1>1. CASE crashed'
  BY <1>1 DEF NothingLost
<1>2. CASE ~crashed'
  <2>1. ~crashed
    BY <1>2, CrashEnds DEF brokerVars
  <2>2. \A n \in 1 .. Len(sent) : Kept(n)
    BY <2>1 DEF NothingLost, Kept
  <2>3. LiveInv
    BY <2>1
  <2>4. ASSUME NEW id \in Id, Dispatch(id) PROVE \A n \in 1 .. Len(sent') : Kept(n)'
    BY <2>2, <2>4, DispatchLoses
  <2>5. ASSUME Put \/ BeginDeferred \/ Pop \/ Deliver \/ Check \/ Take \/ Flush \/ RunInvoked \/ RunCustom
        PROVE  \A n \in 1 .. Len(sent') : Kept(n)'
    <3>1. sent' = sent
      BY <2>5 DEF Put, BeginDeferred, Pop, Deliver, Check, Take, Flush, RunInvoked, RunCustom
    <3>2. ASSUME NEW n \in 1 .. Len(sent) PROVE Kept(n)'
      BY <1>2, <2>2, <2>3, <2>5, PutLoses, BeginDeferredLoses, PopLoses, DeliverLoses, CheckLoses,
         TakeLoses, FlushLoses, RunLoses
    <3>3. Len(sent') = Len(sent)
      BY <3>1
    <3>. QED
      BY <3>2, <3>3
  <2>6. ASSUME (\E id \in Id : AdviseOn(id) \/ LifetimeEnds(id)) \/ UNCHANGED brokerVars
        PROVE  \A n \in 1 .. Len(sent') : Kept(n)'
    <3>1. UNCHANGED <<sent, broker, dispatching, action, queues, results, raced>>
      BY <2>6 DEF AdviseOn, LifetimeEnds, brokerVars, history
    <3>2. ASSUME NEW n \in 1 .. Len(sent) PROVE Kept(n)'
      BY <2>2, <3>1, NothingMoves
    <3>3. Len(sent') = Len(sent)
      BY <3>1
    <3>. QED
      BY <3>2, <3>3
  <2>7. \A n \in 1 .. Len(sent') : Kept(n)'
    <3>1. \/ \E id \in Id : Dispatch(id)
          \/ Put \/ BeginDeferred \/ Pop \/ Deliver \/ Check \/ Take \/ Flush \/ RunInvoked \/ RunCustom
          \/ (\E id \in Id : AdviseOn(id) \/ LifetimeEnds(id)) \/ UNCHANGED brokerVars
      BY DEF BrokerNext, SocketThread, DefaultThread
    <3>. QED
      BY <2>4, <2>5, <2>6, <3>1, Zenon
  <2>. QED
    BY <2>7 DEF NothingLost, Kept
<1>. QED
  BY <1>1, <1>2

\* Whatever the order of the threads, as long as the program has not crashed, a
\* message for an id that is not raced is on its way in one of the queues, the
\* entries or the running action, or was handled, or the log has a line about it.
THEOREM NoMessageIsLost == BrokerSpec => []NothingLost
<1>1. BrokerInit => NothingLost
  <2>1. BrokerInit => Len(sent) = 0
    BY DEF BrokerInit
  <2>. QED
    BY <2>1 DEF NothingLost
<1>2. BrokerInv /\ NothingLost /\ [BrokerNext]_brokerVars => NothingLost'
  BY NothingLostStep DEF BrokerInv
<1>. QED
  BY <1>1, <1>2, BrokerAlways, PTL DEF BrokerSpec

-----------------------------------------------------------------------------
(* A message is in one place *)

Place == {"dispatching", "action", "taken", "waiting", "held", "queued", "executed", "dropped", "astray"}

Dispatched == {dispatching.message} \ {0}
Acted == {action.message} \ {0}
Waits == UNION {Elements(Dsm(id)) : id \in Id}
Held == UNION {Elements(Csm(id)) : id \in Id}
Invocations(q) == {t.message : t \in {u \in Elements(q) : u.op = "invoke"}}
Invoked == Invocations(defaultQueue) \cup Invocations(customQueue)

In(S, p, place) == \A n \in S : p[n] = place

\* p says where each message is.
Placed(p) ==
  /\ p \in [MessageNumber -> Place]
  /\ In(Dispatched, p, "dispatching") /\ In(Acted, p, "action") /\ In(Elements(action.taken), p, "taken")
  /\ In(Waits, p, "waiting") /\ In(Held, p, "held") /\ In(Invoked, p, "queued")
  /\ In(Elements(executed), p, "executed") /\ In(dropped, p, "dropped") /\ In(astray, p, "astray")

\* And it is there only once.
Distinct(s) == \A i, j \in 1 .. Len(s) : i # j => s[i] # s[j]

OnceInv ==
  /\ Ascending(action.taken) /\ \A id \in Id : Ascending(Csm(id))
  /\ \A i, j \in 1 .. Len(customQueue) : i # j => customQueue[i].message # customQueue[j].message
  /\ Distinct(executed)

PlaceInv == OnceInv /\ \E p \in [MessageNumber -> Place] : Placed(p)

LEMMA PlaceTypes ==
  ASSUME TypeInv
  PROVE  /\ Len(sent) \in Nat /\ 1 .. Len(sent) \subseteq MessageNumber
         /\ Dispatched \subseteq 1 .. Len(sent) /\ Acted \subseteq 1 .. Len(sent)
         /\ Elements(action.taken) \subseteq 1 .. Len(sent) /\ Waits \subseteq 1 .. Len(sent)
         /\ Held \subseteq 1 .. Len(sent) /\ Invoked \subseteq 1 .. Len(sent)
         /\ Elements(executed) \subseteq 1 .. Len(sent)
         /\ dropped \subseteq 1 .. Len(sent) /\ astray \subseteq 1 .. Len(sent)
<1>1. Len(sent) \in Nat /\ 1 .. Len(sent) \subseteq MessageNumber
  BY BrokerAssumption DEF TypeInv, SentOK, MessageNumber
<1>2. Dispatched \subseteq 1 .. Len(sent)
  BY <1>1 DEF TypeInv, DispatchOK, Dispatched
<1>3. Acted \subseteq 1 .. Len(sent)
  <2>1. action.message \in 0 .. MaxMessages /\ (action.message # 0 => action.message <= Len(sent))
    BY ActionTypes DEF TypeInv, ActionOK
  <2>. QED
    BY <1>1, <2>1, BrokerAssumption DEF Acted
<1>4. Elements(action.taken) \subseteq 1 .. Len(sent)
  BY ForElements DEF TypeInv, ActionOK
<1>5. Waits \subseteq 1 .. Len(sent) /\ Held \subseteq 1 .. Len(sent)
  BY EntryTypes, ForElements DEF Waits, Held
<1>6. Invoked \subseteq 1 .. Len(sent)
  <2>1. \A t \in Elements(defaultQueue) : t.op = "invoke" => t.message \in 1 .. Len(sent)
    BY DEF TypeInv, TasksOK, DefaultTask, Hands, Elements
  <2>2. \A t \in Elements(customQueue) : t.message \in 1 .. Len(sent)
    BY DEF TypeInv, TasksOK, CustomTask, Hands, Elements
  <2>. QED
    BY <2>1, <2>2 DEF Invoked, Invocations
<1>7. Elements(executed) \subseteq 1 .. Len(sent)
  <2>1. ASSUME NEW i \in 1 .. Len(executed) PROVE executed[i] \in 1 .. Len(sent)
    <3>1. executed[i] \in MessageNumber /\ executed[i] <= Len(sent)
      BY DEF TypeInv, ResultsOK
    <3>. QED
      BY <1>1, <3>1, BrokerAssumption DEF MessageNumber
  <2>. QED
    BY <2>1 DEF Elements
<1>8. dropped \subseteq 1 .. Len(sent) /\ astray \subseteq 1 .. Len(sent)
  BY DEF TypeInv, ResultsOK
<1>. QED
  BY <1>1, <1>2, <1>3, <1>4, <1>5, <1>6, <1>7, <1>8

\* The messages N go to the place b.
LEMMA PlacedMoves ==
  ASSUME TypeInv, NEW p, Placed(p), NEW N \in SUBSET MessageNumber, NEW b \in Place,
         Dispatched' \subseteq Dispatched \cup N, b = "dispatching" \/ Dispatched' \cap N = {},
         Acted' \subseteq Acted \cup N, b = "action" \/ Acted' \cap N = {},
         Elements(action'.taken) \subseteq Elements(action.taken) \cup N,
         b = "taken" \/ Elements(action'.taken) \cap N = {},
         Waits' \subseteq Waits \cup N, b = "waiting" \/ Waits' \cap N = {},
         Held' \subseteq Held \cup N, b = "held" \/ Held' \cap N = {},
         Invoked' \subseteq Invoked \cup N, b = "queued" \/ Invoked' \cap N = {},
         Elements(executed') \subseteq Elements(executed) \cup N,
         b = "executed" \/ Elements(executed') \cap N = {},
         dropped' \subseteq dropped \cup N, b = "dropped" \/ dropped' \cap N = {},
         astray' \subseteq astray \cup N, b = "astray" \/ astray' \cap N = {}
  PROVE  \E q \in [MessageNumber -> Place] : Placed(q)'
<1>1. PICK r \in [MessageNumber -> Place] : r = [n \in MessageNumber |-> IF n \in N THEN b ELSE p[n]]
  BY DEF Placed
<1>2. /\ Dispatched \in SUBSET MessageNumber /\ Acted \in SUBSET MessageNumber
      /\ Elements(action.taken) \in SUBSET MessageNumber /\ Waits \in SUBSET MessageNumber
      /\ Held \in SUBSET MessageNumber /\ Invoked \in SUBSET MessageNumber
      /\ Elements(executed) \in SUBSET MessageNumber
      /\ dropped \in SUBSET MessageNumber /\ astray \in SUBSET MessageNumber
  BY PlaceTypes
<1>3. /\ In(Dispatched, p, "dispatching") /\ In(Acted, p, "action") /\ In(Elements(action.taken), p, "taken")
      /\ In(Waits, p, "waiting") /\ In(Held, p, "held") /\ In(Invoked, p, "queued")
      /\ In(Elements(executed), p, "executed") /\ In(dropped, p, "dropped") /\ In(astray, p, "astray")
  BY DEF Placed
<1>0. \A n \in MessageNumber : r[n] = IF n \in N THEN b ELSE p[n]
  BY <1>1
<1>4. In(Dispatched', r, "dispatching") /\ In(Acted', r, "action")
  BY <1>0, <1>2, <1>3 DEF In
<1>5. In(Elements(action'.taken), r, "taken")
  BY <1>0, <1>2, <1>3 DEF In
<1>6. In(Waits', r, "waiting") /\ In(Held', r, "held")
  BY <1>0, <1>2, <1>3 DEF In
<1>7. In(Invoked', r, "queued")
  BY <1>0, <1>2, <1>3 DEF In
<1>8. In(Elements(executed'), r, "executed")
  BY <1>0, <1>2, <1>3 DEF In
<1>9. In(dropped', r, "dropped") /\ In(astray', r, "astray")
  BY <1>0, <1>2, <1>3 DEF In
<1>10. Placed(r)'
  BY <1>4, <1>5, <1>6, <1>7, <1>8, <1>9 DEF Placed, In, Elements
<1>. QED
  BY <1>10

\* Where a message is not.
LEMMA Elsewhere ==
  ASSUME NEW p, Placed(p), NEW n
  PROVE  /\ p[n] # "dispatching" => n \notin Dispatched
         /\ p[n] # "action" => n \notin Acted
         /\ p[n] # "taken" => n \notin Elements(action.taken)
         /\ p[n] # "waiting" => n \notin Waits
         /\ p[n] # "held" => n \notin Held
         /\ p[n] # "queued" => n \notin Invoked
         /\ p[n] # "executed" => n \notin Elements(executed)
         /\ p[n] # "dropped" => n \notin dropped
         /\ p[n] # "astray" => n \notin astray
BY DEF Placed, In

\* One message is moved from f to b.
LEMMA OneMoves ==
  ASSUME TypeInv, NEW p, Placed(p), NEW n \in MessageNumber, NEW b \in Place, p[n] # b,
         Dispatched' \subseteq Dispatched \cup (IF b = "dispatching" THEN {n} ELSE {}),
         Acted' \subseteq Acted \cup (IF b = "action" THEN {n} ELSE {}),
         Elements(action'.taken) \subseteq Elements(action.taken) \cup (IF b = "taken" THEN {n} ELSE {}),
         Waits' \subseteq Waits \cup (IF b = "waiting" THEN {n} ELSE {}),
         Held' \subseteq Held \cup (IF b = "held" THEN {n} ELSE {}),
         Invoked' \subseteq Invoked \cup (IF b = "queued" THEN {n} ELSE {}),
         Elements(executed') \subseteq Elements(executed) \cup (IF b = "executed" THEN {n} ELSE {}),
         dropped' \subseteq dropped \cup (IF b = "dropped" THEN {n} ELSE {}),
         astray' \subseteq astray \cup (IF b = "astray" THEN {n} ELSE {}),
         p[n] = "dispatching" => n \notin Dispatched',
         p[n] = "action" => n \notin Acted',
         p[n] = "taken" => n \notin Elements(action'.taken),
         p[n] = "waiting" => n \notin Waits',
         p[n] = "held" => n \notin Held',
         p[n] = "queued" => n \notin Invoked',
         p[n] = "executed" => n \notin Elements(executed'),
         p[n] = "dropped" => n \notin dropped',
         p[n] = "astray" => n \notin astray'
  PROVE  \E q \in [MessageNumber -> Place] : Placed(q)'
<1>1. PICK N \in SUBSET MessageNumber : N = {n}
  OBVIOUS
<1>2. /\ Dispatched' \subseteq Dispatched \cup N /\ Acted' \subseteq Acted \cup N
      /\ Elements(action'.taken) \subseteq Elements(action.taken) \cup N
      /\ Waits' \subseteq Waits \cup N /\ Held' \subseteq Held \cup N /\ Invoked' \subseteq Invoked \cup N
      /\ Elements(executed') \subseteq Elements(executed) \cup N
      /\ dropped' \subseteq dropped \cup N /\ astray' \subseteq astray \cup N
  BY <1>1
<1>3. b = "dispatching" \/ n \notin Dispatched'
  BY Elsewhere
<1>4. b = "action" \/ n \notin Acted'
  BY Elsewhere
<1>5. b = "taken" \/ n \notin Elements(action'.taken)
  BY Elsewhere
<1>6. b = "waiting" \/ n \notin Waits'
  BY Elsewhere
<1>7. b = "held" \/ n \notin Held'
  BY Elsewhere
<1>8. b = "queued" \/ n \notin Invoked'
  BY Elsewhere
<1>9. b = "executed" \/ n \notin Elements(executed')
  BY Elsewhere
<1>10. b = "dropped" \/ n \notin dropped'
  BY Elsewhere
<1>11. b = "astray" \/ n \notin astray'
  BY Elsewhere
<1>12. /\ b = "dispatching" \/ Dispatched' \cap N = {}
       /\ b = "action" \/ Acted' \cap N = {}
       /\ b = "taken" \/ Elements(action'.taken) \cap N = {}
       /\ b = "waiting" \/ Waits' \cap N = {}
       /\ b = "held" \/ Held' \cap N = {}
       /\ b = "queued" \/ Invoked' \cap N = {}
       /\ b = "executed" \/ Elements(executed') \cap N = {}
       /\ b = "dropped" \/ dropped' \cap N = {}
       /\ b = "astray" \/ astray' \cap N = {}
  BY <1>1, <1>3, <1>4, <1>5, <1>6, <1>7, <1>8, <1>9, <1>10, <1>11
<1>. QED
  BY <1>2, <1>12, PlacedMoves, Zenon

\* No message is moved, though it may leave the places that are watched.
LEMMA NoneMoves ==
  ASSUME TypeInv, NEW p, Placed(p),
         Dispatched' \subseteq Dispatched, Acted' \subseteq Acted,
         Elements(action'.taken) \subseteq Elements(action.taken),
         Waits' \subseteq Waits, Held' \subseteq Held, Invoked' \subseteq Invoked,
         Elements(executed') \subseteq Elements(executed), dropped' \subseteq dropped, astray' \subseteq astray
  PROVE  \E q \in [MessageNumber -> Place] : Placed(q)'
<1>1. Placed(p)'
  BY DEF Placed, In, Elements
<1>. QED
  BY <1>1 DEF Placed

\* What the entries and the queues do to the sets of messages.
LEMMA EntriesSets ==
  ASSUME NEW id \in Id, NEW S, NEW T, \A x \in Id : x # id => Dsm(x)' = Dsm(x) /\ Csm(x)' = Csm(x),
         Elements(Dsm(id)') \subseteq Elements(Dsm(id)) \cup S,
         Elements(Csm(id)') \subseteq Elements(Csm(id)) \cup T
  PROVE  Waits' \subseteq Waits \cup S /\ Held' \subseteq Held \cup T
<1>1. ASSUME NEW x \in Id
      PROVE  /\ Elements(Dsm(x)') \subseteq Elements(Dsm(x)) \cup S
             /\ Elements(Csm(x)') \subseteq Elements(Csm(x)) \cup T
  BY <1>1
<1>2. Waits' = UNION {Elements(Dsm(x)') : x \in Id} /\ Held' = UNION {Elements(Csm(x)') : x \in Id}
  BY DEF Waits, Held, Elements
<1>. QED
  BY <1>1, <1>2 DEF Waits, Held

LEMMA SameSets ==
  ASSUME broker' = broker
  PROVE  Waits' = Waits /\ Held' = Held
BY DEF Waits, Held, Dsm, Csm, Elements

LEMMA InvokedIs ==
  ASSUME TypeInv
  PROVE  /\ Invoked' = Invocations(defaultQueue') \cup Invocations(customQueue')
         /\ defaultQueue' = defaultQueue /\ customQueue' = customQueue => Invoked' = Invoked
         /\ \A t \in Task : defaultQueue' = Append(defaultQueue, t) /\ customQueue' = customQueue =>
              Invoked' = Invoked \cup (IF t.op = "invoke" THEN {t.message} ELSE {})
         /\ \A t \in Task : customQueue' = Append(customQueue, t) /\ defaultQueue' = defaultQueue =>
              Invoked' = Invoked \cup (IF t.op = "invoke" THEN {t.message} ELSE {})
         /\ defaultQueue # <<>> /\ defaultQueue' = Tail(defaultQueue) /\ customQueue' = customQueue =>
              Invoked' \subseteq Invoked
         /\ customQueue # <<>> /\ customQueue' = Tail(customQueue) /\ defaultQueue' = defaultQueue =>
              Invoked' \subseteq Invoked
<1>1. Invoked' = Invocations(defaultQueue') \cup Invocations(customQueue')
  BY DEF Invoked, Invocations, Elements
<1>2. ASSUME defaultQueue' = defaultQueue, customQueue' = customQueue PROVE Invoked' = Invoked
  BY <1>1, <1>2 DEF Invoked
<1>3. ASSUME NEW q, NEW r, NEW t, Elements(r) = Elements(q) \cup {t}
      PROVE  Invocations(r) = Invocations(q) \cup (IF t.op = "invoke" THEN {t.message} ELSE {})
  BY <1>3 DEF Invocations
<1>4. ASSUME NEW t \in Task, defaultQueue' = Append(defaultQueue, t), customQueue' = customQueue
      PROVE  Invoked' = Invoked \cup (IF t.op = "invoke" THEN {t.message} ELSE {})
  <2>1. Elements(defaultQueue') = Elements(defaultQueue) \cup {t}
    BY <1>4, QueuesElements
  <2>2. Invocations(defaultQueue') = Invocations(defaultQueue) \cup (IF t.op = "invoke" THEN {t.message} ELSE {})
    BY <1>3, <2>1
  <2>. QED
    BY <1>1, <1>4, <2>2 DEF Invoked
<1>5. ASSUME NEW t \in Task, customQueue' = Append(customQueue, t), defaultQueue' = defaultQueue
      PROVE  Invoked' = Invoked \cup (IF t.op = "invoke" THEN {t.message} ELSE {})
  <2>1. Elements(customQueue') = Elements(customQueue) \cup {t}
    BY <1>5, QueuesElements
  <2>2. Invocations(customQueue') = Invocations(customQueue) \cup (IF t.op = "invoke" THEN {t.message} ELSE {})
    BY <1>3, <2>1
  <2>. QED
    BY <1>1, <1>5, <2>2 DEF Invoked
<1>6. ASSUME NEW q, NEW r, Elements(r) \subseteq Elements(q) PROVE Invocations(r) \subseteq Invocations(q)
  BY <1>6 DEF Invocations
<1>7. ASSUME defaultQueue # <<>>, defaultQueue' = Tail(defaultQueue), customQueue' = customQueue
      PROVE  Invoked' \subseteq Invoked
  <2>1. Elements(defaultQueue') \subseteq Elements(defaultQueue)
    BY <1>7, QueuesElements
  <2>2. Invocations(defaultQueue') \subseteq Invocations(defaultQueue)
    BY <1>6, <2>1
  <2>. QED
    BY <1>1, <1>7, <2>2 DEF Invoked
<1>8. ASSUME customQueue # <<>>, customQueue' = Tail(customQueue), defaultQueue' = defaultQueue
      PROVE  Invoked' \subseteq Invoked
  <2>1. Elements(customQueue') \subseteq Elements(customQueue)
    BY <1>8, QueuesElements
  <2>2. Invocations(customQueue') \subseteq Invocations(customQueue)
    BY <1>6, <2>1
  <2>. QED
    BY <1>1, <1>8, <2>2 DEF Invoked
<1>. QED
  BY <1>1, <1>2, <1>4, <1>5, <1>7, <1>8, Zenon

LEMMA DispatchPlaces ==
  ASSUME TypeInv, NEW p, Placed(p), NEW id \in Id, Dispatch(id)
  PROVE  \E q \in [MessageNumber -> Place] : Placed(q)'
<1>1. PICK n : n = Len(sent) + 1
  OBVIOUS
<1>2. /\ \A x \in Id : Dsm(x)' = Dsm(x) /\ Csm(x)' = Csm(x)
      /\ UNCHANGED <<action, queues, results>> /\ dispatching'.message = n
  BY <1>1, DispatchFacts DEF Dispatch
<1>3. n \in MessageNumber /\ n \notin 1 .. Len(sent)
  BY <1>1, BrokerAssumption DEF Dispatch, TypeInv, SentOK, MessageNumber
<1>4. Waits' \subseteq Waits /\ Held' \subseteq Held
  BY <1>2, EntriesSets
<1>5. Invoked' = Invoked /\ Acted' = Acted /\ action' = action
  BY <1>2, InvokedIs DEF queues, Acted
<1>6. Dispatched' = {n} /\ "dispatching" \in Place
  BY <1>2, <1>3, PlaceTypes, BrokerAssumption DEF Dispatched, MessageNumber, Place
<1>7. executed' = executed /\ dropped' = dropped /\ astray' = astray
  BY <1>2 DEF results
<1>8. /\ n \notin Acted /\ n \notin Elements(action.taken) /\ n \notin Waits /\ n \notin Held /\ n \notin Invoked
      /\ n \notin Elements(executed) /\ n \notin dropped /\ n \notin astray
  BY <1>3, PlaceTypes
<1>9. PICK N \in SUBSET MessageNumber : N = {n}
  BY <1>3
<1>. QED
  BY <1>4, <1>5, <1>6, <1>7, <1>8, <1>9, PlacedMoves

LEMMA PutPlaces ==
  ASSUME TypeInv, NEW p, Placed(p), Put
  PROVE  \E q \in [MessageNumber -> Place] : Placed(q)'
<1>1. PICK id, n : id = Target /\ n = dispatching.message
  OBVIOUS
<1>2. /\ UNCHANGED <<sent, action, results>> /\ dispatching'.message = 0
      /\ n \in MessageNumber /\ n # 0 /\ id \in Id
  BY <1>1, PutIs DEF NoDispatch
<1>3. /\ Dispatched' = {} /\ Acted' = Acted /\ action' = action
      /\ executed' = executed /\ dropped' = dropped /\ astray' = astray
  BY <1>2 DEF Dispatched, Acted, results
<1>4. p[n] = "dispatching"
  BY <1>1, <1>2 DEF Placed, In, Dispatched
<1>5. Dsm(id) \in Seq(MessageNumber) /\ Csm(id) \in Seq(MessageNumber)
  BY <1>2, EntryTypes
<1>6. CASE PutDefers
  <2>1. PICK t : t = Deferred(id, dispatching.entry)
    OBVIOUS
  <2>2. /\ \A y \in Id : Csm(y)' = Csm(y) /\ (y # id => Dsm(y)' = Dsm(y))
        /\ Dsm(id)' = Append(Dsm(id), n)
        /\ t \in Task /\ defaultQueue' = Append(defaultQueue, t) /\ customQueue' = customQueue
    BY <1>1, <1>6, <2>1, DefersIs
  <2>3. t.op # "invoke"
    BY <2>1 DEF Deferred
  <2>4. Invoked' = Invoked
    BY <2>2, <2>3, InvokedIs
  <2>5. Elements(Dsm(id)') \subseteq Elements(Dsm(id)) \cup {n} /\ Elements(Csm(id)') \subseteq Elements(Csm(id)) \cup {}
    BY <1>2, <1>5, <2>2, AppendedElements
  <2>6. Waits' \subseteq Waits \cup {n} /\ Held' \subseteq Held
    BY <1>2, <2>2, <2>5, EntriesSets
  <2>7. "waiting" \in Place
    BY DEF Place
  <2>. QED
    BY <1>2, <1>3, <1>4, <2>4, <2>6, <2>7, OneMoves
<1>7. CASE PutHolds
  <2>1. /\ \A y \in Id : Dsm(y)' = Dsm(y) /\ (y # id => Csm(y)' = Csm(y))
        /\ Csm(id)' = Append(Csm(id), n)
        /\ defaultQueue' = defaultQueue /\ customQueue' = customQueue
    BY <1>1, <1>7, HoldsIs
  <2>2. Invoked' = Invoked
    BY <2>1, InvokedIs
  <2>3. Elements(Csm(id)') \subseteq Elements(Csm(id)) \cup {n} /\ Elements(Dsm(id)') \subseteq Elements(Dsm(id)) \cup {}
    BY <1>2, <1>5, <2>1, AppendedElements
  <2>4. Held' \subseteq Held \cup {n} /\ Waits' \subseteq Waits
    BY <1>2, <2>1, <2>3, EntriesSets
  <2>5. "held" \in Place
    BY DEF Place
  <2>. QED
    BY <1>2, <1>3, <1>4, <2>2, <2>4, <2>5, OneMoves
<1>8. CASE PutInvokes
  <2>1. PICK t : t = Invocation(id, dispatching.subscription, n)
    OBVIOUS
  <2>2. /\ broker' = broker /\ t \in Task
        /\ \/ defaultQueue' = Append(defaultQueue, t) /\ customQueue' = customQueue
           \/ customQueue' = Append(customQueue, t) /\ defaultQueue' = defaultQueue
    BY <1>1, <1>8, <2>1, InvokesIs
  <2>3. Invoked' = Invoked \cup {n}
    <3>1. t.op = "invoke" /\ t.message = n
      BY <2>1 DEF Invocation
    <3>. QED
      BY <2>2, <3>1, InvokedIs
  <2>4. Waits' = Waits /\ Held' = Held
    BY <2>2, SameSets
  <2>5. "queued" \in Place
    BY DEF Place
  <2>. QED
    BY <1>2, <1>3, <1>4, <2>3, <2>4, <2>5, OneMoves
<1>. QED
  BY <1>6, <1>7, <1>8, PutCases

LEMMA BeginDeferredPlaces ==
  ASSUME TypeInv, NEW p, Placed(p), BeginDeferred
  PROVE  \E q \in [MessageNumber -> Place] : Placed(q)'
<1>1. /\ action'.message = 0 /\ action'.taken = <<>> /\ defaultQueue # <<>> /\ defaultQueue' = Tail(defaultQueue)
      /\ UNCHANGED <<broker, dispatching, customQueue, results>>
  BY BeginDeferredIs
<1>2. Acted' = {} /\ Elements(action'.taken) = {} /\ Dispatched' = Dispatched
  BY <1>1, NoElements DEF Acted, Dispatched
<1>3. Invoked' \subseteq Invoked
  BY <1>1, InvokedIs
<1>4. Waits' = Waits /\ Held' = Held
  BY <1>1, SameSets
<1>5. executed' = executed /\ dropped' = dropped /\ astray' = astray
  BY <1>1 DEF results
<1>. QED
  BY <1>2, <1>3, <1>4, <1>5, NoneMoves

LEMMA PopPlaces ==
  ASSUME TypeInv, WaitingInv, NEW p, Placed(p), Pop
  PROVE  \E q \in [MessageNumber -> Place] : Placed(q)'
<1>1. PICK id : id = action.id
  OBVIOUS
<1>2. /\ id \in Id /\ action.at = "pop"
      /\ \A y \in Id : Csm(y)' = Csm(y) /\ (y # id => Dsm(y)' = Dsm(y))
      /\ Dsm(id)' = IF Dsm(id) = <<>> THEN <<>> ELSE Tail(Dsm(id))
      /\ action'.message = IF Dsm(id) = <<>> THEN 0 ELSE Head(Dsm(id))
      /\ action'.taken = action.taken
      /\ UNCHANGED <<sent, dispatching, queues, results>>
  BY <1>1, PopIs
<1>3. /\ Dispatched' = Dispatched /\ Invoked' = Invoked
      /\ executed' = executed /\ dropped' = dropped /\ astray' = astray
  BY <1>2, InvokedIs DEF Dispatched, queues, results
<1>4. Dsm(id) \in Seq(MessageNumber) /\ Ascending(Dsm(id)) /\ For(id, Dsm(id))
  BY <1>2, EntryTypes DEF WaitingInv
<1>5. CASE Dsm(id) = <<>>
  <2>1. Acted' = {}
    BY <1>2, <1>5 DEF Acted
  <2>2. Dsm(id)' = Dsm(id)
    BY <1>2, <1>5
  <2>3. Waits' \subseteq Waits /\ Held' \subseteq Held
    BY <1>2, <2>2, EntriesSets
  <2>. QED
    BY <1>2, <1>3, <2>1, <2>3, NoneMoves
<1>6. CASE Dsm(id) # <<>>
  <2>1. PICK n : n = Head(Dsm(id))
    OBVIOUS
  <2>2. /\ n \in MessageNumber /\ n \in Elements(Dsm(id)) /\ Elements(Tail(Dsm(id))) = Elements(Dsm(id)) \ {n}
    BY <1>4, <1>6, <2>1, TakenElements, TakenAscending
  <2>3. Acted' = {n}
    <3>1. n # 0
      BY <2>2, BrokerAssumption DEF MessageNumber
    <3>. QED
      BY <1>2, <1>6, <2>1, <3>1 DEF Acted
  <2>4. Elements(Dsm(id)') = Elements(Dsm(id)) \ {n}
    BY <1>2, <1>6, <2>2
  <2>5. Waits' \subseteq Waits /\ Held' \subseteq Held
    BY <1>2, <2>4, EntriesSets
  <2>6. n \notin Waits'
    <3>1. ASSUME NEW x \in Id, x # id PROVE n \notin Elements(Dsm(x)')
      <4>1. sent[n] = id
        BY <1>4, <2>2, ForElements
      <4>2. \A m \in Elements(Dsm(x)) : sent[m] = x
        BY EntryTypes, ForElements
      <4>. QED
        BY <1>2, <3>1, <4>1, <4>2
    <3>2. \A x \in Id : n \notin Elements(Dsm(x)')
      BY <2>4, <3>1
    <3>. QED
      BY <3>2 DEF Waits, Elements
  <2>7. p[n] = "waiting" /\ "action" \in Place
    BY <1>2, <2>2 DEF Placed, In, Waits, Place
  <2>8. action'.taken = action.taken
    BY <1>2
  <2>. QED
    BY <1>3, <2>2, <2>3, <2>5, <2>6, <2>7, <2>8, OneMoves
<1>. QED
  BY <1>5, <1>6

\* Deliver moves the message of the action, if it has one.
LEMMA DeliverPlaces ==
  ASSUME TypeInv, NEW p, Placed(p), Deliver
  PROVE  \E q \in [MessageNumber -> Place] : Placed(q)'
<1>1. PICK id, n : id = action.id /\ n = action.message
  OBVIOUS
<1>2. /\ action'.message = 0 /\ action'.taken = action.taken /\ n \in 0 .. MaxMessages
      /\ n # 0 => n \in MessageNumber
      /\ UNCHANGED <<sent, broker, dispatching>> /\ astray' = astray
  BY <1>1, DeliverIs
<1>3. /\ Dispatched' = Dispatched /\ Acted' = {} /\ Elements(action'.taken) = Elements(action.taken)
      /\ Waits' = Waits /\ Held' = Held
  BY <1>2, SameSets DEF Dispatched, Acted
<1>4. CASE n = 0
  <2>1. dropped' = dropped /\ executed' = executed /\ defaultQueue' = defaultQueue /\ customQueue' = customQueue
    BY <1>1, <1>4, DeliverResults, DeliverCases DEF DeliverHere, DeliverThere
  <2>2. Invoked' = Invoked
    BY <2>1, InvokedIs
  <2>. QED
    BY <1>2, <1>3, <2>1, <2>2, NoneMoves
<1>5. CASE n # 0
  <2>1. p[n] = "action" /\ n \in MessageNumber
    BY <1>1, <1>2, <1>5 DEF Placed, In, Acted
  <2>2. CASE DeliverDrops
    <3>1. dropped' = dropped \cup {n} /\ executed' = executed /\ Invoked' = Invoked
      BY <1>1, <1>5, <2>2, DeliverResults, InvokedIs
    <3>2. "dropped" \in Place
      BY DEF Place
    <3>. QED
      BY <1>2, <1>3, <2>1, <3>1, <3>2, OneMoves
  <2>3. CASE DeliverHere
    <3>1. dropped' = dropped /\ executed' = Append(executed, n) /\ Invoked' = Invoked
      BY <1>1, <1>5, <2>3, DeliverResults, InvokedIs
    <3>2. Elements(executed') = Elements(executed) \cup {n}
      BY <2>1, <3>1, AppendedElements DEF TypeInv, ResultsOK
    <3>3. "executed" \in Place
      BY DEF Place
    <3>. QED
      BY <1>2, <1>3, <2>1, <3>1, <3>2, <3>3, OneMoves
  <2>4. CASE DeliverThere
    <3>1. PICK t \in Task : t = Invocation(id, action.subscription, n)
      BY <1>1, <2>4, DeliverResults
    <3>2. /\ dropped' = dropped /\ executed' = executed
          /\ customQueue' = Append(customQueue, t) /\ defaultQueue' = defaultQueue
      BY <1>1, <2>4, <3>1, DeliverResults
    <3>3. t.op = "invoke" /\ t.message = n
      BY <3>1 DEF Invocation
    <3>4. Invoked' = Invoked \cup {n}
      BY <3>2, <3>3, InvokedIs
    <3>5. "queued" \in Place
      BY DEF Place
    <3>. QED
      BY <1>2, <1>3, <2>1, <3>2, <3>4, <3>5, OneMoves
  <2>. QED
    BY <1>1, <1>5, <2>2, <2>3, <2>4, DeliverCases DEF DeliverNone
<1>. QED
  BY <1>4, <1>5

LEMMA CheckPlaces ==
  ASSUME TypeInv, NEW p, Placed(p), Check
  PROVE  \E q \in [MessageNumber -> Place] : Placed(q)'
<1>1. PICK id : id = action.id
  OBVIOUS
<1>2. action'.message = 0 /\ action'.taken = <<>> /\ UNCHANGED <<broker, dispatching, queues, results>>
  BY <1>1, CheckIs DEF Idle
<1>3. /\ Dispatched' = Dispatched /\ Acted' = {} /\ Elements(action'.taken) = {}
      /\ Waits' = Waits /\ Held' = Held /\ Invoked' = Invoked
      /\ executed' = executed /\ dropped' = dropped /\ astray' = astray
  BY <1>2, SameSets, InvokedIs, NoElements DEF Dispatched, Acted, queues, results
<1>. QED
  BY <1>3, NoneMoves

\* Take moves all that is held back for the id of the action.
LEMMA TakePlaces ==
  ASSUME TypeInv, NEW p, Placed(p), Take
  PROVE  \E q \in [MessageNumber -> Place] : Placed(q)'
<1>1. PICK id : id = action.id
  OBVIOUS
<1>2. /\ id \in Id /\ action'.message = 0 /\ action'.taken = Csm(id)
      /\ \A x \in Id : x # id => Csm(x)' = Csm(x) /\ Dsm(x)' = Dsm(x)
      /\ Csm(id)' = <<>> /\ Dsm(id)' = <<>>
      /\ UNCHANGED <<sent, dispatching, queues, results>>
  BY <1>1, TakeIs
<1>3. PICK N \in SUBSET MessageNumber : N = Elements(Csm(id))
  <2>1. Csm(id) \in Seq(MessageNumber)
    BY <1>2, EntryTypes
  <2>2. Elements(Csm(id)) \subseteq MessageNumber
    BY <2>1 DEF Elements
  <2>. QED
    BY <2>2
<1>4. /\ Dispatched' = Dispatched /\ Acted' = {} /\ Elements(action'.taken) = N /\ Invoked' = Invoked
      /\ executed' = executed /\ dropped' = dropped /\ astray' = astray
  BY <1>2, <1>3, InvokedIs DEF Dispatched, Acted, queues, results
<1>5. Elements(Dsm(id)') \subseteq {} /\ Elements(Csm(id)') \subseteq {}
  BY <1>2, NoElements
<1>6. Waits' \subseteq Waits /\ Held' \subseteq Held
  BY <1>2, <1>5, EntriesSets
<1>7. \A n \in N : p[n] = "held"
  BY <1>2, <1>3 DEF Placed, In, Held
<1>8. /\ Dispatched \cap N = {} /\ Waits \cap N = {} /\ Invoked \cap N = {}
      /\ Elements(executed) \cap N = {} /\ dropped \cap N = {} /\ astray \cap N = {}
  BY <1>7, Elsewhere
<1>9. Held' \cap N = {}
  <2>1. ASSUME NEW x \in Id, x # id PROVE Elements(Csm(x)') \cap N = {}
    <3>1. (\A n \in N : sent[n] = id) /\ (\A m \in Elements(Csm(x)) : sent[m] = x)
      BY <1>2, <1>3, EntryTypes, ForElements
    <3>. QED
      BY <1>2, <2>1, <3>1
  <2>2. \A x \in Id : Elements(Csm(x)') \cap N = {}
    BY <1>5, <2>1
  <2>. QED
    BY <2>2 DEF Held, Elements
<1>10. "taken" \in Place
  BY DEF Place
<1>. QED
  BY <1>4, <1>6, <1>8, <1>9, <1>10, PlacedMoves

LEMMA FlushPlaces ==
  ASSUME TypeInv, OnceInv, NEW p, Placed(p), Flush
  PROVE  \E q \in [MessageNumber -> Place] : Placed(q)'
<1>1. PICK id : id = action.id
  OBVIOUS
<1>2. UNCHANGED <<broker, dispatching, results>> /\ action'.message = 0
  BY <1>1, FlushIs DEF Idle
<1>3. /\ Dispatched' = Dispatched /\ Acted' = {} /\ Waits' = Waits /\ Held' = Held
      /\ executed' = executed /\ dropped' = dropped /\ astray' = astray
  BY <1>2, SameSets DEF Dispatched, Acted, results
<1>4. CASE FlushEnds
  <2>1. Elements(action'.taken) = {} /\ Invoked' = Invoked
    BY <1>1, <1>4, FlushIs, InvokedIs, NoElements DEF FlushEnds, Idle
  <2>. QED
    BY <1>3, <2>1, NoneMoves
<1>5. CASE ~FlushEnds
  <2>1. PICK n : n = Head(action.taken)
    OBVIOUS
  <2>2. action'.taken = Tail(action.taken) /\ n \in MessageNumber
    BY <1>1, <1>5, <2>1, FlushIs
  <2>3. action.taken \in Seq(MessageNumber) /\ action.taken # <<>> /\ Ascending(action.taken)
    BY <1>5, ActionTypes DEF FlushEnds, OnceInv
  <2>4. Elements(action'.taken) = Elements(action.taken) \ {n} /\ n \in Elements(action.taken)
    BY <2>1, <2>2, <2>3, TakenElements, TakenAscending
  <2>5. CASE FlushCrashes
    <3>1. Invoked' = Invoked
      BY <1>1, <2>5, FlushQueues, InvokedIs DEF FlushCrashes
    <3>. QED
      BY <1>3, <2>4, <3>1, NoneMoves
  <2>6. CASE FlushHands
    <3>1. PICK t \in Task : t = Invocation(id, action.subscription, n)
      BY <1>1, <2>1, <2>6, FlushQueues DEF FlushHands
    <3>2. \/ defaultQueue' = Append(defaultQueue, t) /\ customQueue' = customQueue
          \/ customQueue' = Append(customQueue, t) /\ defaultQueue' = defaultQueue
      BY <1>1, <2>1, <2>6, <3>1, FlushQueues DEF FlushHands
    <3>3. t.op = "invoke" /\ t.message = n
      BY <3>1 DEF Invocation
    <3>4. Invoked' = Invoked \cup {n}
      BY <3>2, <3>3, InvokedIs
    <3>5. p[n] = "taken" /\ "queued" \in Place
      BY <2>4 DEF Placed, In, Place
    <3>. QED
      BY <1>3, <2>2, <2>4, <3>4, <3>5, OneMoves
  <2>. QED
    BY <1>5, <2>5, <2>6, FlushCases, FlushIs DEF Flush
<1>. QED
  BY <1>4, <1>5

\* What is queued is executed, dropped or led astray.
LEMMA ExecutePlaces ==
  ASSUME TypeInv, NEW p, Placed(p), NEW t, Hands(t), Execute(t), p[t.message] = "queued",
         Invoked' \subseteq Invoked, t.message \notin Invoked', UNCHANGED <<broker, dispatching, action>>
  PROVE  \E q \in [MessageNumber -> Place] : Placed(q)'
<1>1. PICK n \in MessageNumber : n = t.message
  BY PlaceTypes DEF Hands
<1>2. /\ Dispatched' = Dispatched /\ Acted' = Acted /\ Elements(action'.taken) = Elements(action.taken)
      /\ Waits' = Waits /\ Held' = Held
  BY SameSets DEF Dispatched, Acted
<1>3. p[n] = "queued" /\ n \notin Invoked'
  BY <1>1
<1>4. "dropped" \in Place /\ "executed" \in Place /\ "astray" \in Place
  BY DEF Place
<1>5. CASE dropped' = dropped \cup {n} /\ executed' = executed /\ astray' = astray
  BY <1>2, <1>3, <1>4, <1>5, OneMoves
<1>6. CASE executed' = Append(executed, n) /\ dropped' = dropped /\ astray' = astray
  <2>1. Elements(executed') = Elements(executed) \cup {n}
    BY <1>6, AppendedElements DEF TypeInv, ResultsOK
  <2>. QED
    BY <1>2, <1>3, <1>4, <1>6, <2>1, OneMoves
<1>7. CASE astray' = astray \cup {n} /\ dropped' = dropped /\ executed' = executed
  BY <1>2, <1>3, <1>4, <1>7, OneMoves
<1>. QED
  BY <1>1, <1>5, <1>6, <1>7, ExecuteIs

LEMMA RunInvokedPlaces ==
  ASSUME TypeInv, LiveInv, NEW p, Placed(p), RunInvoked
  PROVE  \E q \in [MessageNumber -> Place] : Placed(q)'
<1>1. PICK t \in Task :
        /\ defaultQueue # <<>> /\ t = Head(defaultQueue) /\ t.op = "invoke" /\ t.id \in DefaultIds
        /\ Hands(t) /\ Execute(t) /\ defaultQueue' = Tail(defaultQueue)
        /\ UNCHANGED <<broker, dispatching, action, customQueue>>
  BY RunInvokedIs, Zenon
<1>2. PICK c \in Seq(MessageNumber) : Numbering(c)
  BY DEF LiveInv
<1>3. defaultQueue \in Seq(Task) /\ customQueue \in Seq(Task)
  BY DEF TypeInv, TasksOK
<1>4. t \in Elements(defaultQueue) /\ Elements(defaultQueue') \subseteq Elements(defaultQueue)
  BY <1>1, <1>3, TakenElements
<1>5. p[t.message] = "queued"
  BY <1>1, <1>4 DEF Placed, In, Invoked, Invocations
<1>6. Invoked' \subseteq Invoked
  BY <1>1, InvokedIs
<1>7. ASSUME NEW u \in Elements(defaultQueue'), u.op = "invoke" PROVE u.message # t.message
  <2>1. PICK i \in 1 .. Len(defaultQueue) - 1 : u = defaultQueue[i + 1] /\ i + 1 \in 1 .. Len(defaultQueue)
    BY <1>1, <1>3, Taken DEF Elements
  <2>2. t = defaultQueue[1] /\ 1 \in 1 .. Len(defaultQueue) /\ 1 < i + 1
    BY <1>1, <1>3, Taken
  <2>3. Len(c) = Len(defaultQueue) /\ Ascending(c) /\ \A k \in 1 .. Len(c) : Numbers(c[k], defaultQueue[k])
    BY <1>2 DEF Numbering
  <2>4. c[1] = t.message /\ c[i + 1] = u.message
    BY <1>1, <1>7, <2>1, <2>2, <2>3 DEF Numbers
  <2>5. c[1] < c[i + 1] /\ c[1] \in MessageNumber
    BY <2>1, <2>2, <2>3 DEF Ascending
  <2>. QED
    BY <2>4, <2>5, BrokerAssumption DEF MessageNumber
<1>8. ASSUME NEW u \in Elements(customQueue') PROVE u.message # t.message
  <2>1. PICK i \in 1 .. Len(customQueue) : u = customQueue[i]
    BY <1>1 DEF Elements
  <2>2. CustomTask(u)
    BY <2>1 DEF TypeInv, TasksOK
  <2>. QED
    BY <1>1, <2>2 DEF CustomTask, Hands
<1>9. t.message \notin Invoked'
  BY <1>7, <1>8, InvokedIs DEF Invocations
<1>. QED
  BY <1>1, <1>5, <1>6, <1>9, ExecutePlaces

LEMMA RunCustomPlaces ==
  ASSUME TypeInv, OnceInv, NEW p, Placed(p), RunCustom
  PROVE  \E q \in [MessageNumber -> Place] : Placed(q)'
<1>1. PICK t \in Task :
        /\ customQueue # <<>> /\ t = Head(customQueue) /\ t.op = "invoke" /\ t.id \notin DefaultIds
        /\ Hands(t) /\ Execute(t) /\ customQueue' = Tail(customQueue)
        /\ UNCHANGED <<broker, dispatching, action, defaultQueue>>
  BY RunCustomIs, Zenon
<1>3. defaultQueue \in Seq(Task) /\ customQueue \in Seq(Task)
  BY DEF TypeInv, TasksOK
<1>4. t \in Elements(customQueue) /\ Elements(customQueue') \subseteq Elements(customQueue)
  BY <1>1, <1>3, TakenElements
<1>5. p[t.message] = "queued"
  BY <1>1, <1>4 DEF Placed, In, Invoked, Invocations
<1>6. Invoked' \subseteq Invoked
  BY <1>1, InvokedIs
<1>7. ASSUME NEW u \in Elements(customQueue') PROVE u.message # t.message
  <2>1. PICK i \in 1 .. Len(customQueue) - 1 : u = customQueue[i + 1] /\ i + 1 \in 1 .. Len(customQueue)
    BY <1>1, <1>3, Taken DEF Elements
  <2>2. t = customQueue[1] /\ 1 \in 1 .. Len(customQueue) /\ 1 # i + 1
    BY <1>1, <1>3, Taken
  <2>. QED
    BY <2>1, <2>2 DEF OnceInv
<1>8. ASSUME NEW u \in Elements(defaultQueue'), u.op = "invoke" PROVE u.message # t.message
  <2>1. PICK i \in 1 .. Len(defaultQueue) : u = defaultQueue[i]
    BY <1>1 DEF Elements
  <2>2. DefaultTask(u)
    BY <2>1 DEF TypeInv, TasksOK
  <2>. QED
    BY <1>1, <1>8, <2>2 DEF DefaultTask, Hands
<1>9. t.message \notin Invoked'
  BY <1>7, <1>8, InvokedIs DEF Invocations
<1>. QED
  BY <1>1, <1>5, <1>6, <1>9, ExecutePlaces

\* A message that is somewhere else may come to the end of a sequence.
LEMMA OnceFrom ==
  ASSUME TypeInv, OnceInv, Ascending(action'.taken), \A x \in Id : Ascending(Csm(x)'),
         \/ customQueue' = customQueue
         \/ customQueue # <<>> /\ customQueue' = Tail(customQueue)
         \/ \E t \in Task : t.message \notin Invoked /\ customQueue' = Append(customQueue, t),
         \/ executed' = executed
         \/ \E n \in MessageNumber : n \notin Elements(executed) /\ executed' = Append(executed, n)
  PROVE  OnceInv'
<1>1. customQueue \in Seq(Task) /\ executed \in Seq(MessageNumber)
  BY DEF TypeInv, TasksOK, ResultsOK
<1>2. \A i \in 1 .. Len(customQueue) : customQueue[i].message \in Invoked
  BY DEF TypeInv, TasksOK, CustomTask, Invoked, Invocations, Elements
<1>3. \A i, j \in 1 .. Len(customQueue') : i # j => customQueue'[i].message # customQueue'[j].message
  <2>1. CASE customQueue' = customQueue
    BY <2>1 DEF OnceInv
  <2>2. CASE customQueue # <<>> /\ customQueue' = Tail(customQueue)
    <3>1. /\ Len(customQueue') = Len(customQueue) - 1
          /\ \A i \in 1 .. Len(customQueue) - 1 : customQueue'[i] = customQueue[i + 1] /\ i + 1 \in 1 .. Len(customQueue)
      BY <1>1, <2>2, Taken
    <3>2. ASSUME NEW i \in 1 .. Len(customQueue'), NEW j \in 1 .. Len(customQueue'), i # j
          PROVE  customQueue'[i].message # customQueue'[j].message
      <4>1. i \in 1 .. Len(customQueue) - 1 /\ j \in 1 .. Len(customQueue) - 1
        BY <3>1
      <4>2. i + 1 # j + 1
        BY <3>2
      <4>3. i + 1 \in 1 .. Len(customQueue) /\ j + 1 \in 1 .. Len(customQueue)
        BY <3>1, <4>1
      <4>4. customQueue[i + 1].message # customQueue[j + 1].message
        BY <4>2, <4>3 DEF OnceInv
      <4>. QED
        BY <3>1, <4>1, <4>4
    <3>. QED
      BY <3>2
  <2>3. ASSUME NEW t \in Task, t.message \notin Invoked, customQueue' = Append(customQueue, t),
               NEW i \in 1 .. Len(customQueue'), NEW j \in 1 .. Len(customQueue'), i # j
        PROVE  customQueue'[i].message # customQueue'[j].message
    <3>0. \A k \in 1 .. Len(customQueue') :
            \/ k \in 1 .. Len(customQueue) /\ customQueue'[k] = customQueue[k]
            \/ k = Len(customQueue) + 1 /\ customQueue'[k] = t
      <4>1. /\ Len(customQueue') = Len(customQueue) + 1 /\ customQueue'[Len(customQueue) + 1] = t
            /\ \A k \in 1 .. Len(customQueue) : customQueue'[k] = customQueue[k]
            /\ \A k \in 1 .. Len(customQueue) + 1 : k \in 1 .. Len(customQueue) \/ k = Len(customQueue) + 1
        BY <1>1, <2>3, Appended
      <4>. QED
        BY <4>1
    <3>1. /\ \/ i \in 1 .. Len(customQueue) /\ customQueue'[i] = customQueue[i]
             \/ i = Len(customQueue) + 1 /\ customQueue'[i] = t
          /\ \/ j \in 1 .. Len(customQueue) /\ customQueue'[j] = customQueue[j]
             \/ j = Len(customQueue) + 1 /\ customQueue'[j] = t
      BY <2>3, <3>0
    <3>. QED
      BY <1>2, <2>3, <3>1 DEF OnceInv
  <2>. QED
    BY <2>1, <2>2, <2>3
<1>4. Distinct(executed')
  <2>1. CASE executed' = executed
    BY <2>1 DEF OnceInv, Distinct
  <2>2. ASSUME NEW n \in MessageNumber, n \notin Elements(executed), executed' = Append(executed, n),
               NEW i \in 1 .. Len(executed'), NEW j \in 1 .. Len(executed'), i # j
        PROVE  executed'[i] # executed'[j]
    <3>0. \A k \in 1 .. Len(executed') :
            \/ k \in 1 .. Len(executed) /\ executed'[k] = executed[k]
            \/ k = Len(executed) + 1 /\ executed'[k] = n
      <4>1. /\ Len(executed') = Len(executed) + 1 /\ executed'[Len(executed) + 1] = n
            /\ \A k \in 1 .. Len(executed) : executed'[k] = executed[k]
            /\ \A k \in 1 .. Len(executed) + 1 : k \in 1 .. Len(executed) \/ k = Len(executed) + 1
        BY <1>1, <2>2, Appended
      <4>. QED
        BY <4>1
    <3>1. /\ \/ i \in 1 .. Len(executed) /\ executed'[i] = executed[i]
             \/ i = Len(executed) + 1 /\ executed'[i] = n
          /\ \/ j \in 1 .. Len(executed) /\ executed'[j] = executed[j]
             \/ j = Len(executed) + 1 /\ executed'[j] = n
      BY <2>2, <3>0
    <3>2. \A k \in 1 .. Len(executed) : executed[k] # n
      BY <2>2 DEF Elements
    <3>. QED
      BY <2>2, <3>1, <3>2 DEF OnceInv, Distinct
  <2>. QED
    BY <2>1, <2>2 DEF Distinct
<1>. QED
  BY <1>3, <1>4 DEF OnceInv, Distinct, Ascending

LEMMA PutOnce ==
  ASSUME TypeInv, OnceInv, NEW p, Placed(p), Put
  PROVE  OnceInv'
<1>1. PICK id, n : id = Target /\ n = dispatching.message
  OBVIOUS
<1>2. /\ UNCHANGED <<sent, action, results>> /\ n = Len(sent)
      /\ n \in MessageNumber /\ n # 0 /\ id \in Id
  BY <1>1, PutIs
<1>3. p[n] = "dispatching" /\ n \notin Held /\ n \notin Invoked
  <2>1. p[n] = "dispatching"
    BY <1>1, <1>2 DEF Placed, In, Dispatched
  <2>. QED
    BY <2>1, Elsewhere
<1>4. executed' = executed /\ Ascending(action'.taken)
  BY <1>2 DEF results, OnceInv
<1>5. CASE PutDefers
  <2>1. (\A x \in Id : Csm(x)' = Csm(x)) /\ customQueue' = customQueue
    BY <1>1, <1>5, DefersIs
  <2>2. \A x \in Id : Ascending(Csm(x)')
    BY <2>1 DEF OnceInv
  <2>. QED
    BY <1>4, <2>1, <2>2, OnceFrom
<1>6. CASE PutHolds
  <2>1. /\ \A x \in Id : x # id => Csm(x)' = Csm(x)
        /\ Csm(id)' = Append(Csm(id), n) /\ customQueue' = customQueue
    BY <1>1, <1>6, HoldsIs
  <2>2. Ascending(Append(Csm(id), n))
    <3>1. Csm(id) \in Seq(MessageNumber) /\ Ascending(Csm(id))
      BY <1>2, EntryTypes DEF OnceInv
    <3>2. ASSUME NEW m \in Elements(Csm(id)) PROVE m < n
      <4>1. m \in 1 .. Len(sent)
        BY <1>2, <3>2, EntryTypes, ForElements
      <4>2. m # n
        BY <1>2, <1>3, <3>2 DEF Held
      <4>. QED
        BY <1>2, <4>1, <4>2
    <3>. QED
      BY <1>2, <3>1, <3>2, AppendedAscending
  <2>3. ASSUME NEW x \in Id PROVE Ascending(Csm(x)')
    <3>1. CASE x = id
      BY <2>1, <2>2, <3>1
    <3>2. CASE x # id
      BY <2>1, <3>2 DEF OnceInv
    <3>. QED
      BY <3>1, <3>2
  <2>. QED
    BY <1>4, <2>1, <2>3, OnceFrom
<1>7. CASE PutInvokes
  <2>1. PICK t : t = Invocation(id, dispatching.subscription, n)
    OBVIOUS
  <2>2. broker' = broker /\ t \in Task /\ (customQueue' = Append(customQueue, t) \/ customQueue' = customQueue)
    BY <1>1, <1>7, <2>1, InvokesIs
  <2>3. t.message \notin Invoked
    BY <1>3, <2>1 DEF Invocation
  <2>4. \A x \in Id : Ascending(Csm(x)')
    BY <2>2 DEF OnceInv, Csm
  <2>. QED
    BY <1>4, <2>2, <2>3, <2>4, OnceFrom
<1>. QED
  BY <1>5, <1>6, <1>7, PutCases

LEMMA DeliverOnce ==
  ASSUME TypeInv, OnceInv, NEW p, Placed(p), Deliver
  PROVE  OnceInv'
<1>1. PICK id, n : id = action.id /\ n = action.message
  OBVIOUS
<1>2. action'.taken = <<>> /\ broker' = broker /\ (n # 0 => n \in MessageNumber)
  BY <1>1, DeliverIs
<1>3. Ascending(action'.taken) /\ \A x \in Id : Ascending(Csm(x)')
  BY <1>2, NoElements DEF OnceInv, Csm
<1>4. n # 0 => n \notin Invoked /\ n \notin Elements(executed)
  <2>1. n # 0 => p[n] = "action"
    BY <1>1 DEF Placed, In, Acted
  <2>. QED
    BY <2>1, Elsewhere
<1>5. CASE DeliverDrops \/ DeliverNone
  <2>1. executed' = executed /\ customQueue' = customQueue
    BY <1>5, DeliverResults
  <2>. QED
    BY <1>3, <2>1, OnceFrom
<1>6. CASE DeliverHere
  <2>1. executed' = Append(executed, n) /\ customQueue' = customQueue /\ n # 0
    BY <1>1, <1>6, DeliverResults DEF DeliverHere
  <2>. QED
    BY <1>2, <1>3, <1>4, <2>1, OnceFrom
<1>7. CASE DeliverThere
  <2>1. PICK t \in Task : t = Invocation(id, action.subscription, n)
    BY <1>1, <1>7, DeliverResults
  <2>2. executed' = executed /\ customQueue' = Append(customQueue, t) /\ n # 0
    BY <1>1, <1>7, <2>1, DeliverResults DEF DeliverThere
  <2>3. t.message \notin Invoked
    BY <1>4, <2>1, <2>2 DEF Invocation
  <2>. QED
    BY <1>3, <2>2, <2>3, OnceFrom
<1>. QED
  BY <1>5, <1>6, <1>7, DeliverCases

LEMMA FlushOnce ==
  ASSUME TypeInv, OnceInv, NEW p, Placed(p), Flush
  PROVE  OnceInv'
<1>1. PICK id : id = action.id
  OBVIOUS
<1>2. broker' = broker /\ executed' = executed
  BY <1>1, FlushIs DEF results
<1>3. \A x \in Id : Ascending(Csm(x)')
  BY <1>2 DEF OnceInv, Csm
<1>4. CASE FlushEnds
  <2>1. Ascending(action'.taken) /\ customQueue' = customQueue
    BY <1>1, <1>4, FlushIs, NoElements DEF FlushEnds, Idle
  <2>. QED
    BY <1>2, <1>3, <2>1, OnceFrom
<1>5. CASE ~FlushEnds
  <2>1. PICK n : n = Head(action.taken)
    OBVIOUS
  <2>2. action'.taken = Tail(action.taken)
    BY <1>1, <1>5, FlushIs
  <2>3. action.taken \in Seq(MessageNumber) /\ action.taken # <<>> /\ Ascending(action.taken)
    BY <1>5, ActionTypes DEF FlushEnds, OnceInv
  <2>4. Ascending(action'.taken) /\ n \in Elements(action.taken)
    BY <2>1, <2>2, <2>3, TakenElements, TakenAscending
  <2>5. CASE FlushCrashes
    <3>1. customQueue' = customQueue
      BY <1>1, <2>5, FlushQueues DEF FlushCrashes
    <3>. QED
      BY <1>2, <1>3, <2>4, <3>1, OnceFrom
  <2>6. CASE FlushHands
    <3>1. PICK t \in Task : t = Invocation(id, action.subscription, n)
      BY <1>1, <2>1, <2>6, FlushQueues DEF FlushHands
    <3>2. customQueue' = Append(customQueue, t) \/ customQueue' = customQueue
      BY <1>1, <2>1, <2>6, <3>1, FlushQueues DEF FlushHands
    <3>3. t.message \notin Invoked
      <4>1. p[n] = "taken"
        BY <2>4 DEF Placed, In
      <4>. QED
        BY <3>1, <4>1, Elsewhere DEF Invocation
    <3>. QED
      BY <1>2, <1>3, <2>4, <3>2, <3>3, OnceFrom
  <2>. QED
    BY <1>5, <2>5, <2>6, FlushCases, FlushIs DEF Flush
<1>. QED
  BY <1>4, <1>5

LEMMA RunOnce ==
  ASSUME TypeInv, OnceInv, NEW p, Placed(p), RunInvoked \/ RunCustom
  PROVE  OnceInv'
<1>1. PICK t \in Task :
        /\ Hands(t) /\ Execute(t) /\ t.op = "invoke"
        /\ \/ defaultQueue # <<>> /\ t = Head(defaultQueue) /\ customQueue' = customQueue
           \/ customQueue # <<>> /\ t = Head(customQueue) /\ customQueue' = Tail(customQueue)
        /\ UNCHANGED <<broker, action>>
  BY RunInvokedIs, RunCustomIs, Zenon
<1>2. t \in Elements(defaultQueue) \cup Elements(customQueue)
  BY <1>1, TakenElements DEF TypeInv, TasksOK
<1>3. p[t.message] = "queued"
  BY <1>1, <1>2 DEF Placed, In, Invoked, Invocations
<1>4. t.message \notin Elements(executed) /\ t.message \in MessageNumber
  BY <1>1, <1>3, Elsewhere, PlaceTypes DEF Hands
<1>5. Ascending(action'.taken) /\ \A x \in Id : Ascending(Csm(x)')
  BY <1>1 DEF OnceInv, Csm
<1>6. executed' = executed \/ executed' = Append(executed, t.message)
  BY <1>1, ExecuteIs
<1>. QED
  BY <1>1, <1>4, <1>5, <1>6, OnceFrom

LEMMA PlacesStay ==
  ASSUME TypeInv, NEW p, Placed(p), UNCHANGED <<broker, dispatching, action, queues, results>>
  PROVE  \E q \in [MessageNumber -> Place] : Placed(q)'
<1>1. /\ Dispatched' = Dispatched /\ Acted' = Acted /\ Elements(action'.taken) = Elements(action.taken)
      /\ Waits' = Waits /\ Held' = Held /\ Invoked' = Invoked
      /\ executed' = executed /\ dropped' = dropped /\ astray' = astray
  BY SameSets, InvokedIs DEF Dispatched, Acted, queues, results
<1>. QED
  BY <1>1, NoneMoves

\* The other steps add nothing to a sequence, but Take moves one.
LEMMA OthersOnce ==
  ASSUME TypeInv, OnceInv, executed' = executed, customQueue' = customQueue,
         \A x \in Id : Csm(x)' = Csm(x) \/ Csm(x)' = <<>>,
         \/ action'.taken = action.taken
         \/ action'.taken = <<>>
         \/ \E x \in Id : action'.taken = Csm(x)
  PROVE  OnceInv'
<1>1. Ascending(action'.taken) /\ \A x \in Id : Ascending(Csm(x)')
  BY NoElements DEF OnceInv
<1>. QED
  BY <1>1, OnceFrom

LEMMA PlaceStep == BrokerInv /\ PlaceInv /\ [BrokerNext]_brokerVars => PlaceInv'
<1>. SUFFICES ASSUME BrokerInv, PlaceInv, [BrokerNext]_brokerVars PROVE PlaceInv'
  OBVIOUS
<1>1. TypeInv /\ OnceInv /\ (~crashed => LiveInv)
  BY DEF BrokerInv, PlaceInv
<1>2. PICK p \in [MessageNumber -> Place] : Placed(p)
  BY DEF PlaceInv
<1>3. ASSUME NEW id \in Id, Dispatch(id) PROVE PlaceInv'
  <2>1. /\ \A x \in Id : Csm(x)' = Csm(x)
        /\ action' = action /\ executed' = executed /\ customQueue' = customQueue
    BY <1>1, <1>3, DispatchIs DEF queues, results
  <2>2. OnceInv'
    BY <1>1, <2>1, OthersOnce
  <2>. QED
    BY <1>1, <1>2, <1>3, <2>2, DispatchPlaces DEF PlaceInv
<1>4. ASSUME NEW id \in Id, AdviseOn(id) \/ LifetimeEnds(id) PROVE PlaceInv'
  <2>1. UNCHANGED <<broker, dispatching, action, queues, results>>
    BY <1>4 DEF AdviseOn, LifetimeEnds
  <2>2. OnceInv'
    BY <1>1, <2>1, OthersOnce DEF queues, results, Csm
  <2>. QED
    BY <1>1, <1>2, <2>1, <2>2, PlacesStay DEF PlaceInv
<1>5. CASE Put
  BY <1>1, <1>2, <1>5, PutPlaces, PutOnce DEF PlaceInv
<1>6. CASE BeginDeferred
  <2>1. action'.taken = <<>> /\ UNCHANGED <<broker, customQueue, results>>
    BY <1>1, <1>6, BeginDeferredIs
  <2>2. OnceInv'
    BY <1>1, <2>1, OthersOnce DEF results, Csm
  <2>. QED
    BY <1>1, <1>2, <1>6, <2>2, BeginDeferredPlaces DEF PlaceInv
<1>7. CASE Pop
  <2>1. PICK id : id = action.id
    OBVIOUS
  <2>2. (\A x \in Id : Csm(x)' = Csm(x)) /\ action'.taken = action.taken /\ UNCHANGED <<queues, results>>
    BY <1>1, <1>7, <2>1, PopIs
  <2>3. OnceInv'
    BY <1>1, <2>2, OthersOnce DEF queues, results
  <2>4. WaitingInv
    BY <1>1, <1>7 DEF Pop, LiveInv
  <2>. QED
    BY <1>1, <1>2, <1>7, <2>3, <2>4, PopPlaces DEF PlaceInv
<1>8. CASE Deliver
  BY <1>1, <1>2, <1>8, DeliverPlaces, DeliverOnce DEF PlaceInv
<1>9. CASE Check
  <2>1. PICK id : id = action.id
    OBVIOUS
  <2>2. action'.taken = <<>> /\ UNCHANGED <<broker, queues, results>>
    BY <1>1, <1>9, <2>1, CheckIs DEF Idle
  <2>3. OnceInv'
    BY <1>1, <2>2, OthersOnce DEF queues, results, Csm
  <2>. QED
    BY <1>1, <1>2, <1>9, <2>3, CheckPlaces DEF PlaceInv
<1>10. CASE Take
  <2>1. PICK id : id = action.id
    OBVIOUS
  <2>2. /\ id \in Id /\ action'.taken = Csm(id) /\ UNCHANGED <<queues, results>>
        /\ \A x \in Id : Csm(x)' = Csm(x) \/ Csm(x)' = <<>>
    BY <1>1, <1>10, <2>1, TakeIs
  <2>3. OnceInv'
    BY <1>1, <2>2, OthersOnce DEF queues, results
  <2>. QED
    BY <1>1, <1>2, <1>10, <2>3, TakePlaces DEF PlaceInv
<1>11. CASE Flush
  BY <1>1, <1>2, <1>11, FlushPlaces, FlushOnce DEF PlaceInv
<1>12. CASE RunInvoked
  <2>1. LiveInv
    BY <1>1, <1>12 DEF RunInvoked
  <2>. QED
    BY <1>1, <1>2, <1>12, <2>1, RunInvokedPlaces, RunOnce DEF PlaceInv
<1>13. CASE RunCustom
  BY <1>1, <1>2, <1>13, RunCustomPlaces, RunOnce DEF PlaceInv
<1>14. CASE UNCHANGED brokerVars
  <2>1. UNCHANGED <<broker, dispatching, action, queues, results>>
    BY <1>14 DEF brokerVars
  <2>2. OnceInv'
    BY <1>1, <2>1, OthersOnce DEF queues, results, Csm
  <2>. QED
    BY <1>1, <1>2, <2>1, <2>2, PlacesStay DEF PlaceInv
<1>. QED
  BY <1>3, <1>4, <1>5, <1>6, <1>7, <1>8, <1>9, <1>10, <1>11, <1>12, <1>13, <1>14
     DEF BrokerNext, SocketThread, DefaultThread

LEMMA PlaceInit == BrokerInit => PlaceInv
<1>. SUFFICES ASSUME BrokerInit PROVE PlaceInv
  OBVIOUS
<1>1. \A id \in Id : Dsm(id) = <<>> /\ Csm(id) = <<>>
  BY DEF BrokerInit, Dsm, Csm, NoEntry
<1>2. OnceInv
  BY <1>1, NoElements DEF BrokerInit, OnceInv, Distinct, Idle
<1>3. Waits = {} /\ Held = {}
  BY <1>1, NoElements DEF Waits, Held
<1>4. Dispatched = {} /\ Acted = {} /\ Elements(action.taken) = {}
  BY NoElements DEF BrokerInit, Dispatched, Acted, NoDispatch, Idle
<1>5. Invoked = {} /\ Elements(executed) = {} /\ dropped = {} /\ astray = {}
  BY NoElements DEF BrokerInit, Invoked, Invocations
<1>6. PICK p : p = [n \in MessageNumber |-> "dropped"]
  OBVIOUS
<1>7. p \in [MessageNumber -> Place]
  BY <1>6 DEF Place
<1>8. Placed(p)
  BY <1>3, <1>4, <1>5, <1>7 DEF Placed, In
<1>. QED
  BY <1>2, <1>7, <1>8 DEF PlaceInv

\* A message is handed to a living entity, given up with a line in the log, or
\* handed to one that has gone, and one of these only, and only once.
HandledOnce ==
  /\ Distinct(executed) /\ Elements(executed) \cap dropped = {}
  /\ Elements(executed) \cap astray = {} /\ dropped \cap astray = {}

\* No message is handled twice, whatever the threads do: the entry of its id, the
\* queues and the action in between hand it on, and none of them keeps it.
THEOREM NoMessageTwice == BrokerSpec => []HandledOnce
<1>1. PlaceInv => HandledOnce
  <2>. SUFFICES ASSUME PlaceInv PROVE HandledOnce
    OBVIOUS
  <2>1. PICK p \in [MessageNumber -> Place] : Placed(p)
    BY DEF PlaceInv
  <2>. QED
    BY <2>1 DEF PlaceInv, OnceInv, Placed, In, HandledOnce
<1>2. BrokerInit => PlaceInv
  BY PlaceInit
<1>3. BrokerInv /\ PlaceInv /\ [BrokerNext]_brokerVars => PlaceInv'
  BY PlaceStep
<1>. QED
  BY <1>1, <1>2, <1>3, BrokerAlways, PTL DEF BrokerSpec

LEMMA PlaceAlways == BrokerSpec => []PlaceInv
<1>1. BrokerInit => PlaceInv
  BY PlaceInit
<1>2. BrokerInv /\ PlaceInv /\ [BrokerNext]_brokerVars => PlaceInv'
  BY PlaceStep
<1>. QED
  BY <1>1, <1>2, BrokerAlways, PTL DEF BrokerSpec

-----------------------------------------------------------------------------
(* The order in which messages are handled *)

\* The messages for x that were executed, that are queued for the other
\* scheduler and for the default one, and that are in the hands of the action.
Executed(x) == {n \in Elements(executed) : sent[n] = x}
Queued(x) == {n \in Invocations(customQueue) : sent[n] = x}
Called(x) == {n \in Invocations(defaultQueue) : sent[n] = x}
Acting(x) == {n \in Acted \cup Elements(action.taken) : sent[n] = x}

Before(S, T) == \A m \in S, n \in T : m < n

\* What has come further arrived earlier: E were executed, Q and C are queued,
\* A are in the action, D wait and H are held back.
Layered(E, Q, C, A, D, H) ==
  /\ Before(E, Q) /\ Before(E, C) /\ Before(E, A) /\ Before(E, D) /\ Before(E, H)
  /\ Before(Q, A) /\ Before(Q, D) /\ Before(Q, H)
  /\ Before(A, D) /\ Before(A, H)
  /\ Before(D, H)

InTurn(s, ids, x) == \A i, j \in 1 .. Len(s) : i < j /\ ids[s[i]] = x /\ ids[s[j]] = x => s[i] < s[j]
QueueTurn(q, x) == \A i, j \in 1 .. Len(q) : i < j /\ q[i].id = x /\ q[j].id = x => q[i].message < q[j].message

OrderOK(x) ==
  /\ InTurn(executed, sent, x) /\ QueueTurn(customQueue, x)
  /\ Layered(Executed(x), Queued(x), Called(x), Acting(x), Elements(Dsm(x)), Elements(Csm(x)))

OrderInv == \A x \in (DefaultIds \cup CustomIds) \ (raced \cup abandoned) : OrderOK(x)

LEMMA OrderAfter ==
  ASSUME NEW x, InTurn(executed', sent', x), QueueTurn(customQueue', x),
         Layered(Executed(x)', Queued(x)', Called(x)', Acting(x)', Elements(Dsm(x)'), Elements(Csm(x)'))
  PROVE  OrderOK(x)'
BY DEF OrderOK, InTurn, QueueTurn, Layered, Before, Elements

LEMMA LayeredLess ==
  ASSUME NEW E, NEW Q, NEW C, NEW A, NEW D, NEW H, Layered(E, Q, C, A, D, H),
         NEW E1, NEW Q1, NEW C1, NEW A1, NEW D1, NEW H1,
         E1 \subseteq E, Q1 \subseteq Q, C1 \subseteq C, A1 \subseteq A, D1 \subseteq D, H1 \subseteq H
  PROVE  Layered(E1, Q1, C1, A1, D1, H1)
BY DEF Layered, Before

\* The layers after the messages N have moved.
LEMMA LayersAfter ==
  ASSUME TypeInv, sent' = sent, NEW x, NEW N, NEW M, M = {n \in N : sent[n] = x},
         Elements(executed') \subseteq Elements(executed) \cup N,
         Invocations(customQueue') \subseteq Invocations(customQueue) \cup N,
         Invocations(defaultQueue') \subseteq Invocations(defaultQueue) \cup N,
         Acted' \subseteq Acted \cup N, Elements(action'.taken) \subseteq Elements(action.taken) \cup N
  PROVE  /\ Executed(x)' \subseteq Executed(x) \cup M /\ Queued(x)' \subseteq Queued(x) \cup M
         /\ Called(x)' \subseteq Called(x) \cup M /\ Acting(x)' \subseteq Acting(x) \cup M
<1>1. /\ Executed(x)' = {n \in Elements(executed') : sent[n] = x}
      /\ Queued(x)' = {n \in Invocations(customQueue') : sent[n] = x}
      /\ Called(x)' = {n \in Invocations(defaultQueue') : sent[n] = x}
      /\ Acting(x)' = {n \in Acted' \cup Elements(action'.taken) : sent[n] = x}
  BY DEF Executed, Queued, Called, Acting, Elements, Invocations
<1>2. Executed(x)' \subseteq Executed(x) \cup M
  BY <1>1 DEF Executed
<1>3. Queued(x)' \subseteq Queued(x) \cup M /\ Called(x)' \subseteq Called(x) \cup M
  BY <1>1 DEF Queued, Called
<1>4. Acting(x)' \subseteq Acting(x) \cup M
  BY <1>1 DEF Acting
<1>. QED
  BY <1>2, <1>3, <1>4

\* A message that comes to the end of what was executed.
LEMMA ExecutedTurn ==
  ASSUME TypeInv, sent' = sent, NEW x, InTurn(executed, sent, x), NEW n \in MessageNumber,
         executed' = Append(executed, n), sent[n] = x => \A m \in Executed(x) : m < n
  PROVE  InTurn(executed', sent', x)
<1>1. executed \in Seq(MessageNumber)
  BY DEF TypeInv, ResultsOK
<1>2. /\ Len(executed') = Len(executed) + 1 /\ executed'[Len(executed) + 1] = n /\ Len(executed) \in Nat
      /\ \A k \in 1 .. Len(executed) : executed'[k] = executed[k]
  BY <1>1, Appended
<1>. SUFFICES ASSUME NEW i \in 1 .. Len(executed'), NEW j \in 1 .. Len(executed'), i < j,
                     sent[executed'[i]] = x, sent[executed'[j]] = x
              PROVE  executed'[i] < executed'[j]
  BY DEF InTurn
<1>3. i \in 1 .. Len(executed)
  BY <1>2
<1>4. CASE j \in 1 .. Len(executed)
  BY <1>2, <1>3, <1>4 DEF InTurn
<1>5. CASE j \notin 1 .. Len(executed)
  <2>1. executed'[j] = n
    BY <1>2, <1>5
  <2>2. executed[i] \in Executed(x)
    BY <1>2, <1>3 DEF Executed, Elements
  <2>. QED
    BY <1>2, <1>3, <2>1, <2>2
<1>. QED
  BY <1>4, <1>5

\* A task that comes to the end of the other scheduler's queue, and one that is taken.
LEMMA QueueTurnMore ==
  ASSUME TypeInv, NEW x, QueueTurn(customQueue, x), NEW t \in Task, customQueue' = Append(customQueue, t),
         t.id = x => \A m \in Queued(x) : m < t.message
  PROVE  QueueTurn(customQueue', x)
<1>1. customQueue \in Seq(Task)
  BY DEF TypeInv, TasksOK
<1>2. /\ Len(customQueue') = Len(customQueue) + 1 /\ customQueue'[Len(customQueue) + 1] = t /\ Len(customQueue) \in Nat
      /\ \A k \in 1 .. Len(customQueue) : customQueue'[k] = customQueue[k]
  BY <1>1, Appended
<1>. SUFFICES ASSUME NEW i \in 1 .. Len(customQueue'), NEW j \in 1 .. Len(customQueue'), i < j,
                     customQueue'[i].id = x, customQueue'[j].id = x
              PROVE  customQueue'[i].message < customQueue'[j].message
  BY DEF QueueTurn
<1>3. i \in 1 .. Len(customQueue)
  BY <1>2
<1>4. CASE j \in 1 .. Len(customQueue)
  BY <1>2, <1>3, <1>4 DEF QueueTurn
<1>5. CASE j \notin 1 .. Len(customQueue)
  <2>1. customQueue'[j] = t
    BY <1>2, <1>5
  <2>2. customQueue[i].message \in Queued(x)
    <3>1. CustomTask(customQueue[i]) /\ customQueue[i] \in Elements(customQueue)
      BY <1>3 DEF TypeInv, TasksOK, Elements
    <3>. QED
      BY <1>2, <1>3, <3>1 DEF CustomTask, Hands, Queued, Invocations
  <2>. QED
    BY <1>2, <1>3, <2>1, <2>2
<1>. QED
  BY <1>4, <1>5

LEMMA QueueTurnLess ==
  ASSUME TypeInv, NEW x, QueueTurn(customQueue, x), customQueue # <<>>, customQueue' = Tail(customQueue)
  PROVE  QueueTurn(customQueue', x)
<1>1. /\ Len(customQueue') = Len(customQueue) - 1
      /\ \A i \in 1 .. Len(customQueue) - 1 :
           customQueue'[i] = customQueue[i + 1] /\ i + 1 \in 1 .. Len(customQueue)
  BY Taken DEF TypeInv, TasksOK
<1>2. ASSUME NEW i \in 1 .. Len(customQueue'), NEW j \in 1 .. Len(customQueue'), i < j,
             customQueue'[i].id = x, customQueue'[j].id = x
      PROVE  customQueue'[i].message < customQueue'[j].message
  <2>1. i + 1 < j + 1
    BY <1>2
  <2>. QED
    BY <1>1, <1>2, <2>1 DEF QueueTurn
<1>. QED
  BY <1>2 DEF QueueTurn

\* What is moved is for another id, or leaves the layers.
LEMMA OrderStays ==
  ASSUME TypeInv, sent' = sent, NEW x, OrderOK(x), NEW N, \A n \in N : sent[n] # x,
         Elements(executed') \subseteq Elements(executed) \cup N,
         Invocations(customQueue') \subseteq Invocations(customQueue) \cup N,
         Invocations(defaultQueue') \subseteq Invocations(defaultQueue) \cup N,
         Acted' \subseteq Acted \cup N, Elements(action'.taken) \subseteq Elements(action.taken) \cup N,
         Elements(Dsm(x)') \subseteq Elements(Dsm(x)), Elements(Csm(x)') \subseteq Elements(Csm(x)),
         executed' = executed \/ \E n \in MessageNumber : n \in N /\ executed' = Append(executed, n),
         \/ customQueue' = customQueue
         \/ customQueue # <<>> /\ customQueue' = Tail(customQueue)
         \/ \E t \in Task : t.id # x /\ customQueue' = Append(customQueue, t)
  PROVE  OrderOK(x)'
<1>1. /\ Executed(x)' \subseteq Executed(x) /\ Queued(x)' \subseteq Queued(x)
      /\ Called(x)' \subseteq Called(x) /\ Acting(x)' \subseteq Acting(x)
  <2>1. PICK M : M = {n \in N : sent[n] = x}
    OBVIOUS
  <2>2. M = {}
    BY <2>1
  <2>. QED
    BY <2>1, <2>2, LayersAfter
<1>2. Layered(Executed(x)', Queued(x)', Called(x)', Acting(x)', Elements(Dsm(x)'), Elements(Csm(x)'))
  BY <1>1, LayeredLess DEF OrderOK
<1>3. InTurn(executed', sent', x)
  <2>1. CASE executed' = executed
    BY <2>1 DEF OrderOK, InTurn
  <2>2. ASSUME NEW n \in MessageNumber, n \in N, executed' = Append(executed, n)
        PROVE  InTurn(executed', sent', x)
    BY <2>2, ExecutedTurn DEF OrderOK
  <2>. QED
    BY <2>1, <2>2
<1>4. QueueTurn(customQueue', x)
  <2>1. CASE customQueue' = customQueue
    BY <2>1 DEF OrderOK, QueueTurn
  <2>2. CASE customQueue # <<>> /\ customQueue' = Tail(customQueue)
    BY <2>2, QueueTurnLess DEF OrderOK
  <2>3. ASSUME NEW t \in Task, t.id # x, customQueue' = Append(customQueue, t)
        PROVE  QueueTurn(customQueue', x)
    BY <2>3, QueueTurnMore DEF OrderOK
  <2>. QED
    BY <2>1, <2>2, <2>3
<1>. QED
  BY <1>2, <1>3, <1>4, OrderAfter

\* The message that is dispatched arrived after all the others.
LEMMA NewestLast ==
  ASSUME TypeInv, NEW p, Placed(p), dispatching.message # 0, NEW x \in Id, NEW n, n = dispatching.message
  PROVE  /\ \A m \in Executed(x) : m < n
         /\ \A m \in Queued(x) : m < n
         /\ \A m \in Called(x) : m < n
         /\ \A m \in Acting(x) : m < n
         /\ \A m \in Elements(Dsm(x)) : m < n
         /\ \A m \in Elements(Csm(x)) : m < n
<1>1. n = Len(sent) /\ p[n] = "dispatching"
  BY DEF TypeInv, DispatchOK, Placed, In, Dispatched
<1>2. /\ n \notin Acted /\ n \notin Elements(action.taken) /\ n \notin Waits /\ n \notin Held
      /\ n \notin Invoked /\ n \notin Elements(executed)
  BY <1>1, Elsewhere
<1>3. \A m \in 1 .. Len(sent) : m # n => m < n
  BY <1>1, PlaceTypes
<1>4. (\A m \in Executed(x) : m < n) /\ (\A m \in Acting(x) : m < n)
  BY <1>2, <1>3, PlaceTypes DEF Executed, Acting
<1>5. (\A m \in Queued(x) : m < n) /\ (\A m \in Called(x) : m < n)
  BY <1>2, <1>3, PlaceTypes DEF Queued, Called, Invoked
<1>6. (\A m \in Elements(Dsm(x)) : m < n) /\ (\A m \in Elements(Csm(x)) : m < n)
  BY <1>2, <1>3, PlaceTypes DEF Waits, Held
<1>. QED
  BY <1>4, <1>5, <1>6

LEMMA InvocationsMore ==
  ASSUME NEW q \in Seq(Task), NEW t \in Task
  PROVE  /\ t.op = "invoke" => Invocations(Append(q, t)) = Invocations(q) \cup {t.message}
         /\ t.op # "invoke" => Invocations(Append(q, t)) = Invocations(q)
<1>1. Elements(Append(q, t)) = Elements(q) \cup {t}
  BY AppendedElements
<1>. QED
  BY <1>1 DEF Invocations

LEMMA InvocationsLess ==
  ASSUME NEW q \in Seq(Task), q # <<>>
  PROVE  Invocations(Tail(q)) \subseteq Invocations(q) /\ (Head(q).op = "invoke" => Head(q).message \in Invocations(q))
<1>1. Elements(Tail(q)) \subseteq Elements(q) /\ Head(q) \in Elements(q)
  BY TakenElements
<1>. QED
  BY <1>1 DEF Invocations


\* Which layers an id can have.
LEMMA LayersOf ==
  ASSUME TypeInv, NEW x \in Id
  PROVE  /\ x \in DefaultIds => Queued(x) = {} /\ Elements(Csm(x)) = {}
         /\ x \notin DefaultIds => Called(x) = {}
         /\ \A n \in Acting(x) : action.id = x /\ (n = action.message \/ n \in Elements(action.taken))
<1>1. ASSUME NEW n \in Queued(x) PROVE x \notin DefaultIds
  <2>1. PICK i \in 1 .. Len(customQueue) : customQueue[i].message = n
    BY DEF Queued, Invocations, Elements
  <2>2. CustomTask(customQueue[i])
    BY DEF TypeInv, TasksOK
  <2>. QED
    BY <2>1, <2>2 DEF CustomTask, Hands, Queued
<1>2. ASSUME NEW n \in Called(x) PROVE x \in DefaultIds
  <2>1. PICK i \in 1 .. Len(defaultQueue) : defaultQueue[i].message = n /\ defaultQueue[i].op = "invoke"
    BY DEF Called, Invocations, Elements
  <2>2. DefaultTask(defaultQueue[i])
    BY DEF TypeInv, TasksOK
  <2>. QED
    BY <2>1, <2>2 DEF DefaultTask, Hands, Called
<1>3. x \in DefaultIds => Elements(Csm(x)) = {}
  BY EntryTypes, NoElements, BrokerAssumption
<1>4. ASSUME NEW n \in Acting(x) PROVE action.id = x /\ (n = action.message \/ n \in Elements(action.taken))
  <2>1. sent[n] = x /\ ((n = action.message /\ n # 0) \/ n \in Elements(action.taken))
    BY DEF Acting, Acted
  <2>2. n \in Elements(action.taken) => sent[n] = action.id
    BY ForElements DEF TypeInv, ActionOK
  <2>3. n = action.message /\ n # 0 => sent[n] = action.id
    BY DEF TypeInv, ActionOK
  <2>. QED
    BY <2>1, <2>2, <2>3
<1>. QED
  BY <1>1, <1>2, <1>3, <1>4

LEMMA DispatchOrder ==
  ASSUME TypeInv, NEW id \in Id, Dispatch(id), NEW x \in Id, OrderOK(x)
  PROVE  OrderOK(x)'
<1>1. /\ Grows /\ \A y \in Id : Dsm(y)' = Dsm(y) /\ Csm(y)' = Csm(y)
      /\ UNCHANGED <<action, queues, results>>
  BY DispatchIs
<1>2. \A n \in 1 .. Len(sent) : sent'[n] = sent[n]
  BY <1>1 DEF Grows
<1>3. Executed(x)' = Executed(x)
  <2>1. Executed(x)' = {n \in Elements(executed) : sent'[n] = x}
    BY <1>1 DEF Executed, Elements, results
  <2>. QED
    BY <1>2, <2>1, PlaceTypes DEF Executed
<1>4. Queued(x)' = Queued(x)
  <2>1. Queued(x)' = {n \in Invocations(customQueue) : sent'[n] = x}
    BY <1>1 DEF Queued, Invocations, Elements, queues
  <2>. QED
    BY <1>2, <2>1, PlaceTypes DEF Queued, Invoked
<1>5. Called(x)' = Called(x)
  <2>1. Called(x)' = {n \in Invocations(defaultQueue) : sent'[n] = x}
    BY <1>1 DEF Called, Invocations, Elements, queues
  <2>. QED
    BY <1>2, <2>1, PlaceTypes DEF Called, Invoked
<1>6. Acting(x)' = Acting(x)
  <2>1. Acting(x)' = {n \in Acted \cup Elements(action.taken) : sent'[n] = x}
    BY <1>1 DEF Acting, Acted, Elements
  <2>. QED
    BY <1>2, <2>1, PlaceTypes DEF Acting
<1>7. Layered(Executed(x)', Queued(x)', Called(x)', Acting(x)', Elements(Dsm(x)'), Elements(Csm(x)'))
  BY <1>1, <1>3, <1>4, <1>5, <1>6 DEF OrderOK
<1>8. InTurn(executed', sent', x)
  <2>1. \A i \in 1 .. Len(executed) : executed[i] \in 1 .. Len(sent)
    BY PlaceTypes DEF Elements
  <2>. QED
    BY <1>1, <1>2, <2>1 DEF OrderOK, InTurn, results
<1>9. QueueTurn(customQueue', x)
  BY <1>1 DEF OrderOK, QueueTurn, queues
<1>. QED
  BY <1>7, <1>8, <1>9, OrderAfter

\* Steps that only take away.
LEMMA LessOrder ==
  ASSUME TypeInv, sent' = sent, NEW x, OrderOK(x), executed' = executed, customQueue' = customQueue,
         Invocations(defaultQueue') \subseteq Invocations(defaultQueue),
         Acted' \subseteq Acted, Elements(action'.taken) \subseteq Elements(action.taken),
         Elements(Dsm(x)') \subseteq Elements(Dsm(x)), Elements(Csm(x)') \subseteq Elements(Csm(x))
  PROVE  OrderOK(x)'
<1>1. PICK N : N = {}
  OBVIOUS
<1>. QED
  BY <1>1, OrderStays

LEMMA PutOrder ==
  ASSUME TypeInv, LiveInv, NEW p, Placed(p), Put,
         NEW x \in DefaultIds \cup CustomIds, x \notin raced' \cup abandoned', OrderOK(x)
  PROVE  OrderOK(x)'
<1>1. PICK id, n : id = Target /\ n = dispatching.message
  OBVIOUS
<1>2. /\ UNCHANGED <<sent, action, results, abandoned>> /\ n \in MessageNumber /\ n # 0
      /\ id \in Id /\ sent[n] = id /\ x \in Id
      /\ raced' = IF Closing(id) THEN raced \cup {id} ELSE raced
  BY <1>1, PutIs DEF Target, Id
<1>3. x \notin raced /\ x \notin abandoned
  BY <1>2
<1>4. Acted' = Acted /\ action' = action /\ executed' = executed
  BY <1>2 DEF Acted, results
<1>5. PICK N, M : N = {n} /\ M = {m \in N : sent[m] = x}
  OBVIOUS
<1>6. M = IF x = id THEN {n} ELSE {}
  BY <1>2, <1>5
<1>7. /\ \A m \in Executed(x) : m < n
      /\ \A m \in Queued(x) : m < n
      /\ \A m \in Called(x) : m < n
      /\ \A m \in Acting(x) : m < n
      /\ \A m \in Elements(Dsm(x)) : m < n
      /\ \A m \in Elements(Csm(x)) : m < n
  BY <1>1, <1>2, NewestLast
<1>8. InTurn(executed', sent', x)
  BY <1>2, <1>4 DEF OrderOK, InTurn
<1>9. defaultQueue \in Seq(Task) /\ customQueue \in Seq(Task)
  BY DEF TypeInv, TasksOK
<1>10. Dsm(x) \in Seq(MessageNumber) /\ Csm(x) \in Seq(MessageNumber)
  BY <1>2, EntryTypes
<1>11. CASE PutDefers
  <2>1. PICK t \in Task : t = Deferred(id, dispatching.entry)
    BY <1>1, <1>11, DefersIs
  <2>2. /\ Csm(x)' = Csm(x) /\ (x # id => Dsm(x)' = Dsm(x))
        /\ x = id => Dsm(x)' = Append(Dsm(x), n)
        /\ defaultQueue' = Append(defaultQueue, t) /\ customQueue' = customQueue
    BY <1>1, <1>2, <1>11, <2>1, DefersIs
  <2>3. Invocations(defaultQueue') = Invocations(defaultQueue)
    BY <1>9, <2>1, <2>2, InvocationsMore DEF Deferred
  <2>4. CASE x # id
    BY <1>2, <1>4, <2>2, <2>3, <2>4, LessOrder
  <2>5. CASE x = id
    <3>1. Elements(Csm(x)) = {}
      <4>1. x \notin CustomIds => Csm(x) = <<>>
        BY <1>2, EntryTypes
      <4>2. x \in CustomIds => Csm(x) = <<>>
        <5>1. ~IsEntity(dispatching.subscription) /\ n # 0
          BY <1>2, <1>11 DEF PutDefers
        <5>2. ~IsEntity(subscriptions[x])
          BY <1>1, <2>5, <5>1 DEF LiveInv, PresenceInv
        <5>. QED
          BY <1>3, <5>2 DEF LiveInv, PresenceInv
      <4>. QED
        BY <4>1, <4>2, NoElements
    <3>2. /\ Executed(x)' \subseteq Executed(x) /\ Queued(x)' \subseteq Queued(x)
          /\ Called(x)' \subseteq Called(x) /\ Acting(x)' \subseteq Acting(x)
      <4>1. PICK L : L = {}
        OBVIOUS
      <4>2. L = {m \in L : sent[m] = x}
        BY <4>1
      <4>. QED
        BY <1>2, <1>4, <2>2, <2>3, <4>1, <4>2, LayersAfter
    <3>3. Elements(Dsm(x)') = Elements(Dsm(x)) \cup {n} /\ Elements(Csm(x)') = {}
      <4>1. Dsm(x)' = Append(Dsm(x), n) /\ Csm(x)' = Csm(x)
        BY <2>2, <2>5
      <4>2. Elements(Append(Dsm(x), n)) = Elements(Dsm(x)) \cup {n}
        BY <1>2, <1>10, AppendedElements
      <4>. QED
        BY <3>1, <4>1, <4>2
    <3>4. Layered(Executed(x), Queued(x), Called(x), Acting(x), Elements(Dsm(x)'), Elements(Csm(x)'))
      BY <1>7, <3>1, <3>3 DEF OrderOK, Layered, Before
    <3>5. Layered(Executed(x)', Queued(x)', Called(x)', Acting(x)', Elements(Dsm(x)'), Elements(Csm(x)'))
      BY <3>2, <3>4, LayeredLess
    <3>6. QueueTurn(customQueue', x)
      BY <2>2 DEF OrderOK, QueueTurn
    <3>. QED
      BY <1>8, <3>5, <3>6, OrderAfter
  <2>. QED
    BY <2>4, <2>5
<1>12. CASE PutHolds
  <2>1. /\ Dsm(x)' = Dsm(x) /\ (x # id => Csm(x)' = Csm(x))
        /\ x = id => Csm(x)' = Append(Csm(x), n)
        /\ defaultQueue' = defaultQueue /\ customQueue' = customQueue
    BY <1>1, <1>2, <1>12, HoldsIs
  <2>2. CASE x # id
    BY <1>2, <1>4, <2>1, <2>2, LessOrder
  <2>3. CASE x = id
    <3>2. /\ Executed(x)' \subseteq Executed(x) /\ Queued(x)' \subseteq Queued(x)
          /\ Called(x)' \subseteq Called(x) /\ Acting(x)' \subseteq Acting(x)
      <4>1. PICK L : L = {}
        OBVIOUS
      <4>2. L = {m \in L : sent[m] = x}
        BY <4>1
      <4>. QED
        BY <1>2, <1>4, <2>1, <4>1, <4>2, LayersAfter
    <3>3. Elements(Csm(x)') = Elements(Csm(x)) \cup {n} /\ Elements(Dsm(x)') = Elements(Dsm(x))
      <4>1. Csm(x)' = Append(Csm(x), n) /\ Dsm(x)' = Dsm(x)
        BY <2>1, <2>3
      <4>2. Elements(Append(Csm(x), n)) = Elements(Csm(x)) \cup {n}
        BY <1>2, <1>10, AppendedElements
      <4>. QED
        BY <4>1, <4>2
    <3>4. Layered(Executed(x), Queued(x), Called(x), Acting(x), Elements(Dsm(x)'), Elements(Csm(x)'))
      BY <1>7, <3>3 DEF OrderOK, Layered, Before
    <3>5. Layered(Executed(x)', Queued(x)', Called(x)', Acting(x)', Elements(Dsm(x)'), Elements(Csm(x)'))
      BY <3>2, <3>4, LayeredLess
    <3>6. QueueTurn(customQueue', x)
      BY <2>1 DEF OrderOK, QueueTurn
    <3>. QED
      BY <1>8, <3>5, <3>6, OrderAfter
  <2>. QED
    BY <2>2, <2>3
<1>13. CASE PutInvokes
  <2>1. PICK t \in Task : t = Invocation(id, dispatching.subscription, n)
    BY <1>1, <1>13, InvokesIs
  <2>2. /\ broker' = broker
        /\ id \in DefaultIds => defaultQueue' = Append(defaultQueue, t) /\ customQueue' = customQueue
        /\ id \notin DefaultIds => customQueue' = Append(customQueue, t) /\ defaultQueue' = defaultQueue
    BY <1>1, <1>13, <2>1, InvokesIs
  <2>3. t.op = "invoke" /\ t.message = n /\ t.id = id
    BY <2>1 DEF Invocation
  <2>4. /\ id \in DefaultIds => Invocations(defaultQueue') = Invocations(defaultQueue) \cup {n}
                                /\ Invocations(customQueue') = Invocations(customQueue)
        /\ id \notin DefaultIds => Invocations(customQueue') = Invocations(customQueue) \cup {n}
                                   /\ Invocations(defaultQueue') = Invocations(defaultQueue)
    BY <1>9, <2>2, <2>3, InvocationsMore
  <2>5. Dsm(x)' = Dsm(x) /\ Csm(x)' = Csm(x)
    BY <2>2 DEF Dsm, Csm
  <2>6. /\ Invocations(defaultQueue') \subseteq Invocations(defaultQueue) \cup N
        /\ Invocations(customQueue') \subseteq Invocations(customQueue) \cup N
        /\ Elements(executed') \subseteq Elements(executed) \cup N
        /\ Acted' \subseteq Acted \cup N /\ Elements(action'.taken) \subseteq Elements(action.taken) \cup N
    BY <1>4, <1>5, <2>4
  <2>7. CASE x # id
    <3>1. \A m \in N : sent[m] # x
      BY <1>2, <1>5, <2>7
    <3>. QED
      BY <1>2, <1>4, <2>2, <2>3, <2>5, <2>6, <2>7, <3>1, OrderStays
  <2>8. CASE x = id /\ x \in DefaultIds
    <3>3. Called(x)' \subseteq Called(x) \cup {n}
      <4>1. M = {n}
        BY <1>6, <2>8
      <4>2. Called(x)' \subseteq Called(x) \cup M
        BY <1>2, <1>5, <2>6, LayersAfter
      <4>. QED
        BY <4>1, <4>2
    <3>4. /\ Executed(x)' \subseteq Executed(x) /\ Queued(x)' \subseteq Queued(x) /\ Acting(x)' \subseteq Acting(x)
      <4>1. /\ Executed(x)' = {m \in Elements(executed') : sent[m] = x}
            /\ Queued(x)' = {m \in Invocations(customQueue') : sent[m] = x}
            /\ Acting(x)' = {m \in Acted' \cup Elements(action'.taken) : sent[m] = x}
        BY <1>2 DEF Executed, Queued, Acting, Elements, Invocations
      <4>. QED
        BY <1>4, <2>4, <2>8, <4>1 DEF Executed, Queued, Acting
    <3>5. Layered(Executed(x), Queued(x), Called(x) \cup {n}, Acting(x), Elements(Dsm(x)'), Elements(Csm(x)'))
      BY <1>7, <2>5 DEF OrderOK, Layered, Before
    <3>6. Layered(Executed(x)', Queued(x)', Called(x)', Acting(x)', Elements(Dsm(x)'), Elements(Csm(x)'))
      BY <3>3, <3>4, <3>5, LayeredLess
    <3>7. QueueTurn(customQueue', x)
      BY <2>2, <2>8 DEF OrderOK, QueueTurn
    <3>. QED
      BY <1>8, <3>6, <3>7, OrderAfter
  <2>9. CASE x = id /\ x \notin DefaultIds
    <3>1. dispatching.entry = 0
      BY <1>1, <1>13, <2>9 DEF PutInvokes
    <3>2. Entry(x) = 0 /\ Dsm(x) = <<>> /\ Csm(x) = <<>>
      BY <1>1, <1>2, <1>3, <2>9, <3>1 DEF LiveInv, EntryInv, EntryOK
    <3>3. Acting(x) = {}
      <4>1. SUFFICES ASSUME NEW m \in Acting(x) PROVE FALSE
        OBVIOUS
      <4>2. action.id = x /\ ((m = action.message /\ m # 0) \/ m \in Elements(action.taken))
        BY <1>2, LayersOf DEF Acting, Acted
      <4>3. action.at \in {"deliver", "flush"}
        <5>1. action.taken = <<>> => m \notin Elements(action.taken)
          BY NoElements
        <5>. QED
          BY <4>2, <5>1 DEF TypeInv, ActionOK
      <4>4. action.at # "flush"
        BY <1>2, <2>9, <4>2 DEF Closing
      <4>5. Entry(x) = action.entry
        BY <1>2, <1>3, <4>2, <4>3, <4>4 DEF LiveInv, EntryInv, EntryOK
      <4>6. action.entry # 0
        BY <4>3, ActionIs DEF ActionRecord
      <4>. QED
        BY <3>2, <4>5, <4>6
    <3>4. Queued(x)' \subseteq Queued(x) \cup {n}
      <4>1. M = {n}
        BY <1>6, <2>9
      <4>2. Queued(x)' \subseteq Queued(x) \cup M
        BY <1>2, <1>5, <2>6, LayersAfter
      <4>. QED
        BY <4>1, <4>2
    <3>5. Executed(x)' \subseteq Executed(x) /\ Called(x)' \subseteq Called(x) /\ Acting(x)' \subseteq Acting(x)
      <4>1. /\ Executed(x)' = {m \in Elements(executed') : sent[m] = x}
            /\ Called(x)' = {m \in Invocations(defaultQueue') : sent[m] = x}
            /\ Acting(x)' = {m \in Acted' \cup Elements(action'.taken) : sent[m] = x}
        BY <1>2 DEF Executed, Called, Acting, Elements, Invocations
      <4>. QED
        BY <1>4, <2>4, <2>9, <4>1 DEF Executed, Called, Acting
    <3>6. Elements(Dsm(x)') = {} /\ Elements(Csm(x)') = {}
      BY <2>5, <3>2, NoElements
    <3>7. Layered(Executed(x), Queued(x) \cup {n}, Called(x), Acting(x), Elements(Dsm(x)'), Elements(Csm(x)'))
      BY <1>7, <3>3, <3>6 DEF OrderOK, Layered, Before
    <3>8. Layered(Executed(x)', Queued(x)', Called(x)', Acting(x)', Elements(Dsm(x)'), Elements(Csm(x)'))
      BY <3>4, <3>5, <3>7, LayeredLess
    <3>9. QueueTurn(customQueue', x)
      BY <1>7, <2>2, <2>3, <2>9, QueueTurnMore DEF OrderOK
    <3>. QED
      BY <1>8, <3>8, <3>9, OrderAfter
  <2>. QED
    BY <2>7, <2>8, <2>9
<1>. QED
  BY <1>11, <1>12, <1>13, PutCases

LEMMA SteadyOrder ==
  ASSUME TypeInv, NEW x, OrderOK(x), UNCHANGED <<sent, broker, action, queues, results>>
  PROVE  OrderOK(x)'
<1>1. /\ executed' = executed /\ customQueue' = customQueue /\ defaultQueue' = defaultQueue
      /\ Acted' = Acted /\ action' = action /\ Dsm(x)' = Dsm(x) /\ Csm(x)' = Csm(x)
  BY DEF queues, results, Acted, Dsm, Csm
<1>. QED
  BY <1>1, LessOrder

LEMMA BeginDeferredOrder ==
  ASSUME TypeInv, BeginDeferred, NEW x, OrderOK(x)
  PROVE  OrderOK(x)'
<1>1. /\ action'.message = 0 /\ action'.taken = <<>> /\ defaultQueue # <<>> /\ defaultQueue' = Tail(defaultQueue)
      /\ UNCHANGED <<sent, broker, customQueue, results>>
  BY BeginDeferredIs
<1>2. Acted' = {} /\ Elements(action'.taken) = {}
  BY <1>1, NoElements DEF Acted
<1>3. Invocations(defaultQueue') \subseteq Invocations(defaultQueue)
  BY <1>1, InvocationsLess DEF TypeInv, TasksOK
<1>4. executed' = executed /\ Dsm(x)' = Dsm(x) /\ Csm(x)' = Csm(x)
  BY <1>1 DEF results, Dsm, Csm
<1>. QED
  BY <1>1, <1>2, <1>3, <1>4, LessOrder

LEMMA PopOrder ==
  ASSUME TypeInv, WaitingInv, Pop, NEW x \in Id, OrderOK(x)
  PROVE  OrderOK(x)'
<1>1. PICK id : id = action.id
  OBVIOUS
<1>2. /\ id \in Id /\ action.at = "pop"
      /\ \A y \in Id : Csm(y)' = Csm(y) /\ (y # id => Dsm(y)' = Dsm(y))
      /\ Dsm(id)' = IF Dsm(id) = <<>> THEN <<>> ELSE Tail(Dsm(id))
      /\ action'.message = IF Dsm(id) = <<>> THEN 0 ELSE Head(Dsm(id))
      /\ action'.taken = action.taken
      /\ UNCHANGED <<sent, queues, results>>
  BY <1>1, PopIs
<1>3. executed' = executed /\ customQueue' = customQueue /\ defaultQueue' = defaultQueue /\ Csm(x)' = Csm(x)
  BY <1>2 DEF queues, results
<1>4. Dsm(id) \in Seq(MessageNumber) /\ Ascending(Dsm(id)) /\ For(id, Dsm(id))
  BY <1>2, EntryTypes DEF WaitingInv
<1>5. CASE Dsm(id) = <<>>
  <2>1. Acted' = {} /\ Dsm(x)' = Dsm(x)
    BY <1>2, <1>5 DEF Acted
  <2>. QED
    BY <1>2, <1>3, <2>1, LessOrder
<1>6. CASE Dsm(id) # <<>>
  <2>1. PICK n : n = Head(Dsm(id))
    OBVIOUS
  <2>2. /\ n \in MessageNumber /\ n \in Elements(Dsm(id)) /\ Elements(Tail(Dsm(id))) = Elements(Dsm(id)) \ {n}
        /\ \A m \in Elements(Tail(Dsm(id))) : n < m
    BY <1>4, <1>6, <2>1, TakenElements, TakenAscending
  <2>3. sent[n] = id
    BY <1>4, <2>2, ForElements
  <2>4. Acted' = {n} /\ Acted = {} /\ action.taken = <<>>
    <3>1. n # 0
      BY <2>2, BrokerAssumption DEF MessageNumber
    <3>. QED
      BY <1>2, <1>6, <2>1, <3>1 DEF Acted, TypeInv, ActionOK
  <2>5. PICK N, M : N = {n} /\ M = {m \in N : sent[m] = x}
    OBVIOUS
  <2>6. CASE x # id
    <3>1. \A m \in N : sent[m] # x
      BY <2>3, <2>5, <2>6
    <3>2. Dsm(x)' = Dsm(x)
      BY <1>2, <2>6
    <3>. QED
      BY <1>2, <1>3, <2>4, <2>5, <3>1, <3>2, OrderStays
  <2>7. CASE x = id
    <3>1. M = {n}
      BY <2>3, <2>5, <2>7
    <3>2. Acting(x)' \subseteq Acting(x) \cup {n} /\ Acting(x) = {}
      <4>1. Acting(x)' \subseteq Acting(x) \cup M
        BY <1>2, <1>3, <2>4, <2>5, LayersAfter
      <4>2. Acting(x) = {}
        BY <2>4, NoElements DEF Acting
      <4>. QED
        BY <3>1, <4>1, <4>2
    <3>3. Executed(x)' \subseteq Executed(x) /\ Queued(x)' \subseteq Queued(x) /\ Called(x)' \subseteq Called(x)
      BY <1>2, <1>3 DEF Executed, Queued, Called, Elements, Invocations
    <3>4. Elements(Dsm(x)') = Elements(Dsm(x)) \ {n} /\ n \in Elements(Dsm(x))
          /\ \A m \in Elements(Dsm(x)') : n < m
      BY <1>2, <1>6, <2>2, <2>7
    <3>5. Layered(Executed(x), Queued(x), Called(x), {n}, Elements(Dsm(x)'), Elements(Csm(x)'))
      BY <1>3, <3>4 DEF OrderOK, Layered, Before
    <3>6. Layered(Executed(x)', Queued(x)', Called(x)', Acting(x)', Elements(Dsm(x)'), Elements(Csm(x)'))
      BY <3>2, <3>3, <3>5, LayeredLess
    <3>7. InTurn(executed', sent', x) /\ QueueTurn(customQueue', x)
      BY <1>2, <1>3 DEF OrderOK, InTurn, QueueTurn
    <3>. QED
      BY <3>6, <3>7, OrderAfter
  <2>. QED
    BY <2>6, <2>7
<1>. QED
  BY <1>5, <1>6

LEMMA CheckOrder ==
  ASSUME TypeInv, Check, NEW x, OrderOK(x)
  PROVE  OrderOK(x)'
<1>1. PICK id : id = action.id
  OBVIOUS
<1>2. action'.message = 0 /\ action'.taken = <<>> /\ UNCHANGED <<sent, broker, queues, results>>
  BY <1>1, CheckIs DEF Idle
<1>3. /\ Acted' = {} /\ Elements(action'.taken) = {}
      /\ executed' = executed /\ customQueue' = customQueue /\ defaultQueue' = defaultQueue
      /\ Dsm(x)' = Dsm(x) /\ Csm(x)' = Csm(x)
  BY <1>2, NoElements DEF Acted, queues, results, Dsm, Csm
<1>. QED
  BY <1>2, <1>3, LessOrder

LEMMA TakeOrder ==
  ASSUME TypeInv, Take, NEW x \in Id, OrderOK(x)
  PROVE  OrderOK(x)'
<1>1. PICK id : id = action.id
  OBVIOUS
<1>2. /\ id \in Id /\ action'.message = 0 /\ action'.taken = Csm(id)
      /\ x # id => Csm(x)' = Csm(x) /\ Dsm(x)' = Dsm(x)
      /\ Csm(id)' = <<>> /\ Dsm(id)' = <<>>
      /\ UNCHANGED <<sent, queues, results>>
  BY <1>1, TakeIs
<1>3. PICK N, M : N = Elements(Csm(id)) /\ M = {m \in N : sent[m] = x}
  OBVIOUS
<1>4. Acted' = {} /\ executed' = executed /\ customQueue' = customQueue /\ defaultQueue' = defaultQueue
  BY <1>2 DEF Acted, queues, results
<1>5. \A m \in N : sent[m] = id
  BY <1>2, <1>3, EntryTypes, ForElements
<1>6. CASE x # id
  <2>1. \A m \in N : sent[m] # x
    BY <1>5, <1>6
  <2>. QED
    BY <1>2, <1>3, <1>4, <1>6, <2>1, OrderStays
<1>7. CASE x = id
  <2>1. Acting(x)' \subseteq Elements(Csm(x))
    <3>1. Acting(x)' = {n \in Acted' \cup Elements(action'.taken) : sent[n] = x}
      BY <1>2 DEF Acting, Elements
    <3>. QED
      BY <1>2, <1>4, <1>7, <3>1
  <2>2. Executed(x)' \subseteq Executed(x) /\ Queued(x)' \subseteq Queued(x) /\ Called(x)' \subseteq Called(x)
    BY <1>2, <1>4 DEF Executed, Queued, Called, Elements, Invocations
  <2>3. Elements(Dsm(x)') = {} /\ Elements(Csm(x)') = {}
    BY <1>2, <1>7, NoElements
  <2>4. Layered(Executed(x), Queued(x), Called(x), Elements(Csm(x)), Elements(Dsm(x)'), Elements(Csm(x)'))
    BY <2>3 DEF OrderOK, Layered, Before
  <2>5. Layered(Executed(x)', Queued(x)', Called(x)', Acting(x)', Elements(Dsm(x)'), Elements(Csm(x)'))
    BY <2>1, <2>2, <2>4, LayeredLess
  <2>6. InTurn(executed', sent', x) /\ QueueTurn(customQueue', x)
    BY <1>2, <1>4 DEF OrderOK, InTurn, QueueTurn
  <2>. QED
    BY <2>5, <2>6, OrderAfter
<1>. QED
  BY <1>6, <1>7

\* The message that the action hands to the other scheduler.
LEMMA HandsOver ==
  ASSUME TypeInv, sent' = sent, NEW x \in Id, OrderOK(x), NEW n \in MessageNumber, n \in Acting(x),
         NEW t \in Task, t.op = "invoke", t.message = n, customQueue' = Append(customQueue, t),
         defaultQueue' = defaultQueue, executed' = executed, broker' = broker,
         Acting(x)' \subseteq Acting(x), \A m \in Acting(x)' : n < m
  PROVE  OrderOK(x)'
<1>1. Invocations(customQueue') = Invocations(customQueue) \cup {n}
  BY InvocationsMore DEF TypeInv, TasksOK
<1>2. Queued(x)' \subseteq Queued(x) \cup {n}
  <2>1. Queued(x)' = {m \in Invocations(customQueue') : sent[m] = x}
    BY DEF Queued, Invocations, Elements
  <2>. QED
    BY <1>1, <2>1 DEF Queued
<1>3. Executed(x)' \subseteq Executed(x) /\ Called(x)' \subseteq Called(x)
  BY DEF Executed, Called, Elements, Invocations
<1>4. Dsm(x)' = Dsm(x) /\ Csm(x)' = Csm(x)
  BY DEF Dsm, Csm
<1>5. PICK A : A = Acting(x)'
  OBVIOUS
<1>6. Layered(Executed(x), Queued(x) \cup {n}, Called(x), A, Elements(Dsm(x)), Elements(Csm(x)))
  BY <1>5 DEF OrderOK, Layered, Before
<1>7. Layered(Executed(x)', Queued(x)', Called(x)', Acting(x)', Elements(Dsm(x)'), Elements(Csm(x)'))
  BY <1>2, <1>3, <1>4, <1>5, <1>6, LayeredLess
<1>8. QueueTurn(customQueue', x)
  <2>1. \A m \in Queued(x) : m < n
    BY DEF OrderOK, Layered, Before
  <2>. QED
    BY <2>1, QueueTurnMore DEF OrderOK
<1>9. InTurn(executed', sent', x)
  BY DEF OrderOK, InTurn
<1>. QED
  BY <1>7, <1>8, <1>9, OrderAfter

LEMMA FlushOrder ==
  ASSUME TypeInv, LiveInv, OnceInv, Flush, NEW x \in Id, OrderOK(x)
  PROVE  OrderOK(x)'
<1>1. PICK id : id = action.id
  OBVIOUS
<1>2. UNCHANGED <<sent, broker, results>> /\ action'.message = 0 /\ id \in Id /\ action.message = 0
  BY <1>1, FlushIs DEF Idle
<1>3. Acted' = {} /\ executed' = executed /\ Dsm(x)' = Dsm(x) /\ Csm(x)' = Csm(x)
  BY <1>2 DEF Acted, results, Dsm, Csm
<1>4. CASE FlushEnds
  <2>1. Elements(action'.taken) = {} /\ defaultQueue' = defaultQueue /\ customQueue' = customQueue
    BY <1>1, <1>4, FlushIs, NoElements DEF FlushEnds, Idle
  <2>. QED
    BY <1>2, <1>3, <2>1, LessOrder
<1>5. CASE ~FlushEnds
  <2>1. PICK n : n = Head(action.taken)
    OBVIOUS
  <2>2. action'.taken = Tail(action.taken) /\ n \in MessageNumber /\ sent[n] = id
    BY <1>1, <1>5, <2>1, FlushIs
  <2>3. action.taken \in Seq(MessageNumber) /\ action.taken # <<>> /\ Ascending(action.taken)
    BY <1>5, ActionTypes DEF FlushEnds, OnceInv
  <2>4. /\ Elements(action'.taken) = Elements(action.taken) \ {n} /\ n \in Elements(action.taken)
        /\ \A m \in Elements(action'.taken) : n < m
    BY <2>1, <2>2, <2>3, TakenElements, TakenAscending
  <2>5. CASE FlushCrashes
    <3>1. defaultQueue' = defaultQueue /\ customQueue' = customQueue
      BY <1>1, <2>5, FlushQueues DEF FlushCrashes
    <3>. QED
      BY <1>2, <1>3, <2>4, <3>1, LessOrder
  <2>6. CASE FlushHands
    <3>1. id \in CustomIds
      BY <1>1, <2>3 DEF LiveInv, WaitingInv
    <3>2. PICK t \in Task : t = Invocation(id, action.subscription, n)
      BY <1>1, <2>1, <2>6, FlushQueues DEF FlushHands
    <3>3. customQueue' = Append(customQueue, t) /\ defaultQueue' = defaultQueue
      <4>1. id \notin DefaultIds
        BY <3>1, BrokerAssumption
      <4>. QED
        BY <1>1, <2>1, <2>6, <3>2, <4>1, FlushQueues DEF FlushHands
    <3>4. t.op = "invoke" /\ t.message = n /\ t.id = id
      BY <3>2 DEF Invocation
    <3>5. CASE x # id
      <4>1. PICK N : N = {n}
        OBVIOUS
      <4>2. Invocations(customQueue') = Invocations(customQueue) \cup {n}
        BY <3>3, <3>4, InvocationsMore DEF TypeInv, TasksOK
      <4>3. \A m \in N : sent[m] # x
        BY <2>2, <3>5, <4>1
      <4>. QED
        BY <1>2, <1>3, <2>4, <3>3, <3>4, <3>5, <4>1, <4>2, <4>3, OrderStays
    <3>6. CASE x = id
      <4>1. Acting(x)' = {m \in Acted' \cup Elements(action'.taken) : sent[m] = x}
        BY <1>2 DEF Acting, Elements
      <4>2. Acting(x)' \subseteq Acting(x) /\ \A m \in Acting(x)' : n < m
        BY <1>3, <2>4, <4>1 DEF Acting
      <4>3. n \in Acting(x)
        BY <2>2, <2>4, <3>6 DEF Acting
      <4>. QED
        BY <1>2, <1>3, <2>2, <3>3, <3>4, <4>2, <4>3, HandsOver
    <3>. QED
      BY <3>5, <3>6
  <2>. QED
    BY <1>5, <2>5, <2>6, FlushCases, FlushIs DEF Flush
<1>. QED
  BY <1>4, <1>5

LEMMA DeliverOrder ==
  ASSUME TypeInv, LiveInv, Deliver,
         NEW x \in DefaultIds \cup CustomIds, x \notin raced \cup abandoned, OrderOK(x)
  PROVE  OrderOK(x)'
<1>1. PICK id, n : id = action.id /\ n = action.message
  OBVIOUS
<1>2. /\ id \in Id /\ action.at = "deliver" /\ action.taken = <<>> /\ action'.message = 0 /\ action'.taken = <<>>
      /\ n # 0 => n \in MessageNumber /\ sent[n] = id
      /\ UNCHANGED <<sent, broker>> /\ x \in Id
  BY <1>1, DeliverIs DEF Id
<1>3. Acted' = {} /\ Elements(action'.taken) = {} /\ Dsm(x)' = Dsm(x) /\ Csm(x)' = Csm(x)
  BY <1>2, NoElements DEF Acted, Dsm, Csm
<1>4. CASE DeliverDrops \/ DeliverNone
  <2>1. executed' = executed /\ customQueue' = customQueue /\ defaultQueue' = defaultQueue
    BY <1>4, DeliverResults
  <2>. QED
    BY <1>2, <1>3, <2>1, LessOrder
<1>5. Acting(x)' = {}
  <2>1. Acting(x)' = {m \in Acted' \cup Elements(action'.taken) : sent[m] = x}
    BY <1>2 DEF Acting, Elements
  <2>. QED
    BY <1>3, <2>1
<1>6. CASE DeliverHere
  <2>1. executed' = Append(executed, n) /\ customQueue' = customQueue /\ defaultQueue' = defaultQueue /\ n # 0
        /\ id \in DefaultIds
    BY <1>1, <1>6, DeliverResults DEF DeliverHere
  <2>2. Elements(executed') = Elements(executed) \cup {n}
    BY <1>2, <2>1, AppendedElements DEF TypeInv, ResultsOK
  <2>3. CASE x # id
    <3>1. PICK N : N = {n}
      OBVIOUS
    <3>2. \A m \in N : sent[m] # x
      BY <1>2, <2>1, <2>3, <3>1
    <3>. QED
      BY <1>2, <1>3, <2>1, <2>2, <2>3, <3>1, <3>2, OrderStays
  <2>4. CASE x = id
    <3>1. Executed(x)' \subseteq Executed(x) \cup {n}
      <4>1. Executed(x)' = {m \in Elements(executed') : sent[m] = x}
        BY <1>2 DEF Executed, Elements
      <4>. QED
        BY <2>2, <4>1 DEF Executed
    <3>2. Queued(x)' \subseteq Queued(x) /\ Called(x)' \subseteq Called(x) /\ Queued(x) = {}
      BY <1>2, <2>1, <2>4, LayersOf DEF Queued, Called, Invocations, Elements
    <3>3. n \in Acting(x)
      BY <1>1, <1>2, <2>1, <2>4 DEF Acting, Acted
    <3>4. \A m \in Called(x) : n < m
      <4>1. PICK c \in Seq(MessageNumber) : Numbering(c)
        BY DEF LiveInv
      <4>2. n \in Front
        BY <1>1, <1>2, <2>1, <2>4 DEF Front, Popping
      <4>3. ASSUME NEW m \in Called(x) PROVE n < m
        <5>1. PICK i \in 1 .. Len(defaultQueue) : defaultQueue[i].op = "invoke" /\ defaultQueue[i].message = m
          BY DEF Called, Invocations, Elements
        <5>2. i \in 1 .. Len(c) /\ c[i] = m
          BY <4>1, <5>1 DEF Numbering, Numbers
        <5>. QED
          BY <4>1, <4>2, <5>2 DEF Numbering
      <4>. QED
        BY <4>3
    <3>5. \A m \in Executed(x) : m < n
      BY <3>3 DEF OrderOK, Layered, Before
    <3>6. Layered(Executed(x) \cup {n}, Queued(x), Called(x), {}, Elements(Dsm(x)), Elements(Csm(x)))
      BY <3>2, <3>3, <3>4 DEF OrderOK, Layered, Before
    <3>7. Layered(Executed(x)', Queued(x)', Called(x)', Acting(x)', Elements(Dsm(x)'), Elements(Csm(x)'))
      BY <1>3, <1>5, <3>1, <3>2, <3>6, LayeredLess
    <3>8. InTurn(executed', sent', x)
      BY <1>2, <2>1, <3>5, ExecutedTurn DEF OrderOK
    <3>9. QueueTurn(customQueue', x)
      BY <2>1 DEF OrderOK, QueueTurn
    <3>. QED
      BY <3>7, <3>8, <3>9, OrderAfter
  <2>. QED
    BY <2>3, <2>4
<1>7. CASE DeliverThere
  <2>1. PICK t \in Task : t = Invocation(id, action.subscription, n)
    BY <1>1, <1>7, DeliverResults
  <2>2. executed' = executed /\ customQueue' = Append(customQueue, t) /\ defaultQueue' = defaultQueue /\ n # 0
    BY <1>1, <1>7, <2>1, DeliverResults DEF DeliverThere
  <2>3. t.op = "invoke" /\ t.message = n /\ t.id = id
    BY <2>1 DEF Invocation
  <2>4. CASE x # id
    <3>1. PICK N : N = {n}
      OBVIOUS
    <3>2. Invocations(customQueue') = Invocations(customQueue) \cup {n}
      BY <2>2, <2>3, InvocationsMore DEF TypeInv, TasksOK
    <3>3. \A m \in N : sent[m] # x
      BY <1>2, <2>2, <2>4, <3>1
    <3>. QED
      BY <1>2, <1>3, <2>2, <2>3, <2>4, <3>1, <3>2, <3>3, OrderStays
  <2>5. CASE x = id
    <3>1. n \in Acting(x)
      BY <1>1, <1>2, <2>2, <2>5 DEF Acting, Acted
    <3>. QED
      BY <1>2, <1>5, <2>2, <2>3, <3>1, HandsOver
  <2>. QED
    BY <2>4, <2>5
<1>. QED
  BY <1>4, <1>6, <1>7, DeliverCases

\* What is executed next.
LEMMA ExecutedNext ==
  ASSUME TypeInv, sent' = sent, NEW x \in Id, OrderOK(x), NEW t, Hands(t), Execute(t), NEW n, n = t.message,
         UNCHANGED <<broker, action>>,
         Invocations(defaultQueue') \subseteq Invocations(defaultQueue),
         Invocations(customQueue') \subseteq Invocations(customQueue),
         customQueue' = customQueue \/ (customQueue # <<>> /\ customQueue' = Tail(customQueue)),
         t.id = x => /\ \A m \in Executed(x) : m < n
                     /\ \A m \in Queued(x)' : n < m
                     /\ \A m \in Called(x)' : n < m
                     /\ \A m \in Acting(x) : n < m
                     /\ \A m \in Elements(Dsm(x)) : n < m
                     /\ \A m \in Elements(Csm(x)) : n < m
  PROVE  OrderOK(x)'
<1>1. n \in MessageNumber /\ sent[n] = t.id
  BY PlaceTypes DEF Hands
<1>2. Acted' = Acted /\ action' = action /\ Dsm(x)' = Dsm(x) /\ Csm(x)' = Csm(x)
  BY DEF Acted, Dsm, Csm
<1>3. executed' = executed \/ executed' = Append(executed, n)
  BY ExecuteIs
<1>4. PICK N : N = {n}
  OBVIOUS
<1>5. executed' = Append(executed, n) => Elements(executed') = Elements(executed) \cup {n}
  BY <1>1, AppendedElements DEF TypeInv, ResultsOK
<1>6. Elements(executed') \subseteq Elements(executed) \cup {n}
  BY <1>3, <1>5
<1>7. CASE t.id # x
  <2>1. \A m \in N : sent[m] # x
    BY <1>1, <1>4, <1>7
  <2>. QED
    BY <1>1, <1>2, <1>3, <1>4, <1>6, <2>1, OrderStays
<1>8. CASE t.id = x
  <2>1. Executed(x)' \subseteq Executed(x) \cup {n}
    <3>1. Executed(x)' = {m \in Elements(executed') : sent[m] = x}
      BY DEF Executed, Elements
    <3>. QED
      BY <1>6, <3>1 DEF Executed
  <2>2. Queued(x)' \subseteq Queued(x) /\ Called(x)' \subseteq Called(x) /\ Acting(x)' = Acting(x)
    <3>1. /\ Queued(x)' = {m \in Invocations(customQueue') : sent[m] = x}
          /\ Called(x)' = {m \in Invocations(defaultQueue') : sent[m] = x}
          /\ Acting(x)' = {m \in Acted' \cup Elements(action'.taken) : sent[m] = x}
      BY DEF Queued, Called, Acting, Invocations, Elements
    <3>. QED
      BY <1>2, <3>1 DEF Queued, Called, Acting
  <2>3. PICK Q, C : Q = Queued(x)' /\ C = Called(x)'
    OBVIOUS
  <2>4. Q \subseteq Queued(x) /\ C \subseteq Called(x) /\ (\A m \in Q : n < m) /\ (\A m \in C : n < m)
    BY <1>8, <2>2, <2>3
  <2>5. Layered(Executed(x) \cup {n}, Q, C, Acting(x), Elements(Dsm(x)), Elements(Csm(x)))
    BY <1>8, <2>4 DEF OrderOK, Layered, Before
  <2>6. Layered(Executed(x)', Queued(x)', Called(x)', Acting(x)', Elements(Dsm(x)'), Elements(Csm(x)'))
    BY <1>2, <2>1, <2>2, <2>3, <2>5, LayeredLess
  <2>7. InTurn(executed', sent', x)
    <3>1. CASE executed' = executed
      BY <3>1 DEF OrderOK, InTurn
    <3>2. CASE executed' = Append(executed, n)
      BY <1>1, <1>8, <3>2, ExecutedTurn DEF OrderOK
    <3>. QED
      BY <1>3, <3>1, <3>2
  <2>8. QueueTurn(customQueue', x)
    <3>1. CASE customQueue' = customQueue
      BY <3>1 DEF OrderOK, QueueTurn
    <3>2. CASE customQueue # <<>> /\ customQueue' = Tail(customQueue)
      BY <3>2, QueueTurnLess DEF OrderOK
    <3>. QED
      BY <3>1, <3>2
  <2>. QED
    BY <2>6, <2>7, <2>8, OrderAfter
<1>. QED
  BY <1>7, <1>8

LEMMA RunInvokedOrder ==
  ASSUME TypeInv, LiveInv, RunInvoked,
         NEW x \in DefaultIds \cup CustomIds, x \notin raced \cup abandoned, OrderOK(x)
  PROVE  OrderOK(x)'
<1>1. PICK t \in Task :
        /\ action = Idle /\ defaultQueue # <<>> /\ t = Head(defaultQueue) /\ t.op = "invoke" /\ t.id \in DefaultIds
        /\ Hands(t) /\ Execute(t) /\ defaultQueue' = Tail(defaultQueue)
        /\ UNCHANGED <<sent, broker, action, customQueue>>
  BY RunInvokedIs, Zenon
<1>2. PICK c \in Seq(MessageNumber) : Numbering(c)
  BY DEF LiveInv
<1>3. PICK n : n = t.message
  OBVIOUS
<1>4. defaultQueue \in Seq(Task) /\ x \in Id
  BY DEF TypeInv, TasksOK, Id
<1>5. Invocations(defaultQueue') \subseteq Invocations(defaultQueue) /\ n \in Invocations(defaultQueue)
  BY <1>1, <1>3, <1>4, InvocationsLess
<1>6. t = defaultQueue[1] /\ 1 \in 1 .. Len(defaultQueue)
      /\ Len(defaultQueue') = Len(defaultQueue) - 1 /\ Len(defaultQueue) \in Nat
      /\ \A i \in 1 .. Len(defaultQueue) - 1 : defaultQueue'[i] = defaultQueue[i + 1] /\ i + 1 \in 1 .. Len(defaultQueue)
  BY <1>1, <1>4, Taken
<1>7. Len(c) = Len(defaultQueue) /\ Ascending(c) /\ \A k \in 1 .. Len(c) : Numbers(c[k], defaultQueue[k])
  BY <1>2 DEF Numbering
<1>8. c[1] = n
  BY <1>1, <1>3, <1>6, <1>7 DEF Numbers
<1>9. ASSUME NEW i \in 1 .. Len(defaultQueue), i # 1 PROVE n < c[i]
  BY <1>6, <1>7, <1>8, <1>9 DEF Ascending
<1>10. ASSUME t.id = x
       PROVE  /\ \A m \in Executed(x) : m < n
              /\ \A m \in Queued(x)' : n < m
              /\ \A m \in Called(x)' : n < m
              /\ \A m \in Acting(x) : n < m
              /\ \A m \in Elements(Dsm(x)) : n < m
              /\ \A m \in Elements(Csm(x)) : n < m
  <2>1. \A m \in Executed(x) : m < n
    <3>1. n \in Called(x)
      BY <1>1, <1>3, <1>5, <1>10 DEF Called, Hands
    <3>. QED
      BY <3>1 DEF OrderOK, Layered, Before
  <2>2. Queued(x) = {} /\ Elements(Csm(x)) = {}
    BY <1>1, <1>4, <1>10, LayersOf
  <2>3. Queued(x)' = Queued(x)
    BY <1>1 DEF Queued, Invocations, Elements
  <2>4. ASSUME NEW m \in Called(x)' PROVE n < m
    <3>1. m \in Invocations(defaultQueue')
      BY DEF Called, Invocations, Elements
    <3>2. PICK i \in 1 .. Len(defaultQueue') : defaultQueue'[i].op = "invoke" /\ defaultQueue'[i].message = m
      BY <3>1 DEF Invocations, Elements
    <3>3. /\ i + 1 \in 1 .. Len(defaultQueue) /\ i + 1 # 1
          /\ defaultQueue[i + 1].op = "invoke" /\ defaultQueue[i + 1].message = m
      BY <1>6, <3>2
    <3>4. Numbers(c[i + 1], defaultQueue[i + 1])
      BY <1>7, <3>3
    <3>5. c[i + 1] = m
      BY <3>3, <3>4 DEF Numbers
    <3>. QED
      BY <1>9, <3>3, <3>5
  <2>5. Acting(x) = {}
    BY <1>1, NoElements DEF Acting, Acted, Idle
  <2>6. ASSUME NEW m \in Elements(Dsm(x)) PROVE n < m
    <3>1. m \in Rest(x)
      BY <1>1 DEF Rest, Popping, Idle
    <3>2. PICK i \in 1 .. Len(c) : IsDeferred(defaultQueue[i], x) /\ c[i] = m
      BY <1>2, <1>4, <3>1 DEF Numbering
    <3>3. i # 1
      BY <1>1, <1>6, <3>2 DEF IsDeferred
    <3>. QED
      BY <1>7, <1>9, <3>2, <3>3
  <2>. QED
    BY <2>1, <2>2, <2>3, <2>4, <2>5, <2>6
<1>11. Invocations(customQueue') \subseteq Invocations(customQueue)
  BY <1>1
<1>. QED
  BY <1>1, <1>3, <1>4, <1>5, <1>10, <1>11, ExecutedNext

LEMMA RunCustomOrder ==
  ASSUME TypeInv, RunCustom, NEW x \in Id, OrderOK(x)
  PROVE  OrderOK(x)'
<1>1. PICK t \in Task :
        /\ customQueue # <<>> /\ t = Head(customQueue) /\ t.op = "invoke" /\ t.id \notin DefaultIds
        /\ Hands(t) /\ Execute(t) /\ customQueue' = Tail(customQueue)
        /\ UNCHANGED <<sent, broker, action, defaultQueue>>
  BY RunCustomIs, Zenon
<1>2. PICK n : n = t.message
  OBVIOUS
<1>3. customQueue \in Seq(Task)
  BY DEF TypeInv, TasksOK
<1>4. Invocations(customQueue') \subseteq Invocations(customQueue) /\ n \in Invocations(customQueue)
  BY <1>1, <1>2, <1>3, InvocationsLess
<1>5. t = customQueue[1] /\ 1 \in 1 .. Len(customQueue)
      /\ Len(customQueue') = Len(customQueue) - 1 /\ Len(customQueue) \in Nat
      /\ \A i \in 1 .. Len(customQueue) - 1 : customQueue'[i] = customQueue[i + 1] /\ i + 1 \in 1 .. Len(customQueue)
  BY <1>1, <1>3, Taken
<1>6. ASSUME t.id = x
      PROVE  /\ \A m \in Executed(x) : m < n
             /\ \A m \in Queued(x)' : n < m
             /\ \A m \in Called(x)' : n < m
             /\ \A m \in Acting(x) : n < m
             /\ \A m \in Elements(Dsm(x)) : n < m
             /\ \A m \in Elements(Csm(x)) : n < m
  <2>1. n \in Queued(x)
    BY <1>1, <1>2, <1>4, <1>6 DEF Queued, Hands
  <2>2. /\ \A m \in Executed(x) : m < n
        /\ \A m \in Acting(x) : n < m
        /\ \A m \in Elements(Dsm(x)) : n < m
        /\ \A m \in Elements(Csm(x)) : n < m
    BY <2>1 DEF OrderOK, Layered, Before
  <2>3. Called(x)' = Called(x) /\ Called(x) = {}
    <3>1. Called(x)' = Called(x)
      BY <1>1 DEF Called, Invocations, Elements
    <3>. QED
      BY <1>1, <1>6, <3>1, LayersOf
  <2>4. ASSUME NEW m \in Queued(x)' PROVE n < m
    <3>1. m \in Invocations(customQueue') /\ sent[m] = x
      BY <1>1 DEF Queued, Invocations, Elements
    <3>2. PICK i \in 1 .. Len(customQueue') : customQueue'[i].message = m
      BY <3>1 DEF Invocations, Elements
    <3>3. i + 1 \in 1 .. Len(customQueue) /\ 1 < i + 1 /\ customQueue[i + 1].message = m
      BY <1>5, <3>2
    <3>4. customQueue[i + 1].id = x
      <4>1. CustomTask(customQueue[i + 1])
        BY <3>3 DEF TypeInv, TasksOK
      <4>. QED
        BY <3>1, <3>3, <4>1 DEF CustomTask, Hands
    <3>. QED
      BY <1>2, <1>5, <1>6, <3>3, <3>4 DEF OrderOK, QueueTurn
  <2>. QED
    BY <2>2, <2>3, <2>4
<1>7. Invocations(defaultQueue') \subseteq Invocations(defaultQueue)
  BY <1>1
<1>. QED
  BY <1>1, <1>2, <1>4, <1>6, <1>7, ExecutedNext

LEMMA OrderStep == BrokerInv /\ PlaceInv /\ OrderInv /\ [BrokerNext]_brokerVars => OrderInv'
<1>. SUFFICES ASSUME BrokerInv, PlaceInv, OrderInv, [BrokerNext]_brokerVars,
                     NEW x \in DefaultIds \cup CustomIds, x \notin raced' \cup abandoned'
              PROVE  OrderOK(x)'
  BY DEF OrderInv
<1>1. TypeInv /\ OnceInv /\ (~crashed => LiveInv) /\ x \in Id
  BY DEF BrokerInv, PlaceInv, Id
<1>2. PICK p \in [MessageNumber -> Place] : Placed(p)
  BY DEF PlaceInv
<1>3. x \notin raced \cup abandoned
  <2>1. CASE Put \/ Take
    BY <2>1 DEF Put, Take
  <2>2. CASE RunCustom \/ RunInvoked \/ Flush \/ Check \/ Deliver \/ Pop \/ BeginDeferred
    BY <2>2 DEF RunCustom, RunInvoked, Flush, Check, Deliver, Pop, BeginDeferred, history
  <2>3. ASSUME NEW id \in Id, Dispatch(id) \/ AdviseOn(id) \/ LifetimeEnds(id) PROVE x \notin raced \cup abandoned
    BY <2>3 DEF Dispatch, AdviseOn, LifetimeEnds, history
  <2>4. CASE UNCHANGED brokerVars
    BY <2>4 DEF brokerVars, history
  <2>. QED
    BY <2>1, <2>2, <2>3, <2>4 DEF BrokerNext, SocketThread, DefaultThread
<1>4. OrderOK(x)
  BY <1>3 DEF OrderInv
<1>5. ASSUME NEW id \in Id, Dispatch(id) PROVE OrderOK(x)'
  BY <1>1, <1>4, <1>5, DispatchOrder
<1>6. ASSUME NEW id \in Id, AdviseOn(id) \/ LifetimeEnds(id) PROVE OrderOK(x)'
  BY <1>1, <1>4, <1>6, SteadyOrder DEF AdviseOn, LifetimeEnds
<1>7. CASE Put
  <2>1. LiveInv
    BY <1>1, <1>7 DEF Put
  <2>. QED
    BY <1>1, <1>2, <1>4, <1>7, <2>1, PutOrder
<1>8. CASE BeginDeferred
  BY <1>1, <1>4, <1>8, BeginDeferredOrder
<1>9. CASE Pop
  <2>1. WaitingInv
    BY <1>1, <1>9 DEF Pop, LiveInv
  <2>. QED
    BY <1>1, <1>4, <1>9, <2>1, PopOrder
<1>10. CASE Deliver
  <2>1. LiveInv
    BY <1>1, <1>10 DEF Deliver
  <2>. QED
    BY <1>1, <1>3, <1>4, <1>10, <2>1, DeliverOrder
<1>11. CASE Check
  BY <1>1, <1>4, <1>11, CheckOrder
<1>12. CASE Take
  BY <1>1, <1>4, <1>12, TakeOrder
<1>13. CASE Flush
  <2>1. LiveInv
    BY <1>1, <1>13 DEF Flush
  <2>. QED
    BY <1>1, <1>4, <1>13, <2>1, FlushOrder
<1>14. CASE RunInvoked
  <2>1. LiveInv
    BY <1>1, <1>14 DEF RunInvoked
  <2>. QED
    BY <1>1, <1>3, <1>4, <1>14, <2>1, RunInvokedOrder
<1>15. CASE RunCustom
  BY <1>1, <1>4, <1>15, RunCustomOrder
<1>16. CASE UNCHANGED brokerVars
  BY <1>1, <1>4, <1>16, SteadyOrder DEF brokerVars
<1>. QED
  BY <1>5, <1>6, <1>7, <1>8, <1>9, <1>10, <1>11, <1>12, <1>13, <1>14, <1>15, <1>16
     DEF BrokerNext, SocketThread, DefaultThread

\* An entity on a scheduler that keeps the order handles its messages in the
\* order in which they arrived, whatever waited and whatever was held back, as
\* long as its id is neither raced nor abandoned.
THEOREM MessagesInOrder == BrokerSpec => []InOrder
<1>1. BrokerInit => OrderInv
  <2>. SUFFICES ASSUME BrokerInit, NEW x \in Id PROVE OrderOK(x)
    BY DEF OrderInv, Id
  <2>1. executed = <<>> /\ customQueue = <<>> /\ Dsm(x) = <<>>
    BY DEF BrokerInit, Dsm, NoEntry
  <2>2. Executed(x) = {} /\ Queued(x) = {} /\ Acting(x) = {} /\ Elements(Dsm(x)) = {}
    BY <2>1, NoElements DEF BrokerInit, Executed, Queued, Acting, Acted, Invocations, Idle
  <2>. QED
    BY <2>1, <2>2 DEF OrderOK, InTurn, QueueTurn, Layered, Before
<1>2. TypeInv /\ OrderInv => InOrder
  <2>. SUFFICES ASSUME TypeInv, OrderInv, NEW i \in 1 .. Len(executed), NEW j \in 1 .. Len(executed), i < j,
                       sent[executed[j]] = sent[executed[i]],
                       sent[executed[i]] \notin UnorderedIds \cup raced \cup abandoned
                PROVE  executed[i] < executed[j]
    BY DEF InOrder
  <2>1. PICK x : x = sent[executed[i]]
    OBVIOUS
  <2>2. executed[i] \in 1 .. Len(sent)
    BY PlaceTypes DEF Elements
  <2>3. x \in (DefaultIds \cup CustomIds) \ (raced \cup abandoned)
    BY <2>1, <2>2 DEF TypeInv, SentOK, Id
  <2>. QED
    BY <2>1, <2>3 DEF OrderInv, OrderOK, InTurn
<1>3. BrokerInv /\ PlaceInv /\ OrderInv /\ [BrokerNext]_brokerVars => OrderInv'
  BY OrderStep
<1>4. BrokerInv => TypeInv
  BY DEF BrokerInv
<1>. QED
  BY <1>1, <1>2, <1>3, <1>4, BrokerAlways, PlaceAlways, PTL DEF BrokerSpec

-----------------------------------------------------------------------------
(* A message that goes astray was not alone *)

\* The log says of some message for id that nobody handles it.
Gone(id) == \E k \in dropped : sent[k] = id

\* Message k found nobody there.
Stuck(k, id) ==
  /\ k \in 1 .. Len(sent) /\ sent[k] = id
  /\ \/ k \in dropped
     \/ k \in Elements(Dsm(id))
     \/ dispatching.message = k /\ ~IsEntity(dispatching.subscription)
     \/ action.message = k /\ ~IsEntity(action.subscription)

Company(id) == \E k \in MessageNumber : Stuck(k, id)

\* A task, an action or a dispatch that finds no entry comes after a message
\* that was given up; and who found nobody there is still to be seen.
TasksFind(id) ==
  \A i \in 1 .. Len(defaultQueue) :
    IsDeferred(defaultQueue[i], id) => defaultQueue[i].entry = Entry(id) \/ Gone(id)
LaterGone(id) == action.id = id /\ action.at \in {"check", "take", "flush"} /\ ~IsEntity(action.subscription) => Gone(id)
TakesNone(id) == action.id = id /\ action.at = "take" /\ IsEntity(action.subscription) => Dsm(id) = <<>>
DispatchFinds(id) ==
  dispatching.message # 0 /\ Target = id /\ ~IsEntity(dispatching.subscription) =>
    dispatching.entry = Entry(id) \/ Gone(id)
NullCompany(id) == subscriptions[id] = Null => Company(id)

CompanyOK(id) == TasksFind(id) /\ LaterGone(id) /\ TakesNone(id) /\ DispatchFinds(id) /\ NullCompany(id)

CompanyInv == (action.at = "deliver" => action.message # 0) /\ \A id \in Id : CompanyOK(id)

AstrayInv ==
  \A n \in astray :
    \/ entities > 1
    \/ entities = 1 /\ \E id \in Id : id = sent[n] /\ ~IsEntity(subscriptions[id]) /\ Company(id)

LEMMA GoneStays ==
  ASSUME TypeInv, Grows, dropped \subseteq dropped', NEW id, Gone(id)
  PROVE  Gone(id)'
BY PlaceTypes DEF Gone, Grows

LEMMA GoneLasts ==
  ASSUME TypeInv, Grows, dropped \subseteq dropped', NEW id, Gone(id)
  PROVE  Company(id)'
<1>1. PICK j \in dropped : sent[j] = id
  BY DEF Gone
<1>2. j \in 1 .. Len(sent) /\ j \in MessageNumber
  BY <1>1, PlaceTypes
<1>3. j \in 1 .. Len(sent)' /\ sent'[j] = id /\ j \in dropped'
  BY <1>1, <1>2 DEF Grows
<1>4. Stuck(j, id)'
  BY <1>3 DEF Stuck
<1>. QED
  BY <1>2, <1>4 DEF Company

LEMMA CompanyMoves ==
  ASSUME TypeInv, Grows, dropped \subseteq dropped', NEW id, NEW k \in MessageNumber, Stuck(k, id),
         k \in Elements(Dsm(id)) =>
           \/ k \in Elements(Dsm(id)')
           \/ action'.message = k /\ ~IsEntity(action'.subscription),
         dispatching.message = k /\ ~IsEntity(dispatching.subscription) =>
           \/ k \in Elements(Dsm(id)')
           \/ dispatching'.message = k /\ ~IsEntity(dispatching'.subscription),
         action.message = k /\ ~IsEntity(action.subscription) =>
           \/ k \in dropped'
           \/ action'.message = k /\ ~IsEntity(action'.subscription)
  PROVE  Company(id)'
<1>1. k \in 1 .. Len(sent)' /\ sent'[k] = id
  BY DEF Stuck, Grows
<1>2. \/ k \in dropped'
      \/ k \in Elements(Dsm(id)')
      \/ dispatching'.message = k /\ ~IsEntity(dispatching'.subscription)
      \/ action'.message = k /\ ~IsEntity(action'.subscription)
  BY DEF Stuck
<1>3. Stuck(k, id)'
  BY <1>1, <1>2 DEF Stuck, Elements, IsEntity
<1>. QED
  BY <1>3 DEF Company

\* No message is taken back from those that the log names.
LEMMA DroppedGrows ==
  ASSUME [BrokerNext]_brokerVars
  PROVE  dropped \subseteq dropped'
<1>1. CASE Put \/ BeginDeferred \/ Pop \/ Check \/ Take \/ Flush
  BY <1>1 DEF Put, BeginDeferred, Pop, Check, Take, Flush, results
<1>2. ASSUME NEW id \in Id, Dispatch(id) \/ AdviseOn(id) \/ LifetimeEnds(id) PROVE dropped \subseteq dropped'
  BY <1>2 DEF Dispatch, AdviseOn, LifetimeEnds, results
<1>3. CASE Deliver \/ RunInvoked \/ RunCustom
  BY <1>3 DEF Deliver, RunInvoked, RunCustom, Execute
<1>4. CASE UNCHANGED brokerVars
  BY <1>4 DEF brokerVars, results
<1>. QED
  BY <1>1, <1>2, <1>3, <1>4 DEF BrokerNext, SocketThread, DefaultThread

\* As long as nobody subscribes the id, the company remains.
LEMMA CompanyStays ==
  ASSUME TypeInv, LiveInv, CompanyInv, [BrokerNext]_brokerVars,
         NEW id \in Id, ~IsEntity(subscriptions[id]), Company(id)
  PROVE  Company(id)'
<1>1. PICK k \in MessageNumber : Stuck(k, id)
  BY DEF Company
<1>2. dropped \subseteq dropped' /\ k # 0 /\ sent[k] = id
  BY <1>1, DroppedGrows, BrokerAssumption DEF MessageNumber, Stuck
<1>3. ASSUME NEW x \in Id, Dispatch(x) PROVE Company(id)'
  <2>1. Grows /\ dispatching.message = 0 /\ action' = action /\ Dsm(id)' = Dsm(id)
    BY <1>3, DispatchIs
  <2>. QED
    BY <1>1, <1>2, <2>1, CompanyMoves
<1>4. ASSUME Grows, UNCHANGED <<broker, dispatching, action>> PROVE Company(id)'
  <2>1. Dsm(id)' = Dsm(id)
    BY <1>4 DEF Dsm
  <2>. QED
    BY <1>1, <1>2, <1>4, <2>1, CompanyMoves
<1>5. ASSUME NEW x \in Id, AdviseOn(x) \/ LifetimeEnds(x) PROVE Company(id)'
  <2>1. Grows
    BY <1>5, BrokerAssumption DEF AdviseOn, LifetimeEnds, Grows, TypeInv, SentOK, SubscriptionsOK
  <2>. QED
    BY <1>4, <1>5, <2>1 DEF AdviseOn, LifetimeEnds
<1>6. CASE Put
  <2>1. PICK x : x = Target
    OBVIOUS
  <2>2. Grows /\ x \in Id /\ action' = action
    BY <1>6, <2>1, PutIs
  <2>3. Dsm(id) \in Seq(MessageNumber)
    BY EntryTypes
  <2>4. CASE PutDefers
    <3>1. Dsm(id)' = IF id = x THEN Append(Dsm(id), dispatching.message) ELSE Dsm(id)
      BY <2>1, <2>4, DefersIs
    <3>2. dispatching.message = k => x = id
      BY <1>2, <2>1 DEF Target
    <3>3. dispatching.message \in MessageNumber
      BY <1>6, <2>1, PutIs
    <3>4. CASE id = x
      <4>1. Dsm(id)' = Append(Dsm(id), dispatching.message)
        BY <3>1, <3>4
      <4>2. Elements(Append(Dsm(id), dispatching.message)) = Elements(Dsm(id)) \cup {dispatching.message}
        BY <2>3, <3>3, AppendedElements
      <4>. QED
        BY <1>1, <1>2, <2>2, <4>1, <4>2, CompanyMoves
    <3>5. CASE id # x
      <4>1. Dsm(id)' = Dsm(id)
        BY <3>1, <3>5
      <4>. QED
        BY <1>1, <1>2, <2>2, <3>2, <3>5, <4>1, CompanyMoves
    <3>. QED
      BY <3>4, <3>5
  <2>5. CASE PutHolds \/ PutInvokes
    <3>1. Dsm(id)' = Dsm(id) /\ IsEntity(dispatching.subscription)
      BY <2>1, <2>5, HoldsIs, InvokesIs DEF Dsm, PutHolds, PutInvokes
    <3>. QED
      BY <1>1, <1>2, <2>2, <3>1, CompanyMoves
  <2>. QED
    BY <1>6, <2>4, <2>5, PutCases
<1>7. CASE BeginDeferred
  <2>1. action = Idle /\ UNCHANGED <<sent, entities, broker, dispatching>>
    BY <1>7 DEF BeginDeferred
  <2>2. Grows /\ action.message = 0 /\ Dsm(id)' = Dsm(id)
    BY <2>1, Stays DEF Idle, Dsm
  <2>. QED
    BY <1>1, <1>2, <2>1, <2>2, CompanyMoves
<1>8. CASE Pop
  <2>1. PICK x : x = action.id
    OBVIOUS
  <2>2. /\ x \in Id /\ Grows /\ action.at = "pop" /\ dispatching' = dispatching
        /\ x # id => Dsm(id)' = Dsm(id)
        /\ Dsm(x)' = IF Dsm(x) = <<>> THEN <<>> ELSE Tail(Dsm(x))
        /\ action'.message = IF Dsm(x) = <<>> THEN 0 ELSE Head(Dsm(x))
        /\ action'.subscription = action.subscription
    BY <1>8, <2>1, PopIs
  <2>3. action.message = 0
    BY <2>2 DEF TypeInv, ActionOK
  <2>4. k \in Elements(Dsm(id)) =>
           \/ k \in Elements(Dsm(id)')
           \/ action'.message = k /\ ~IsEntity(action'.subscription)
    <3>1. SUFFICES ASSUME k \in Elements(Dsm(id)), x = id
                   PROVE  \/ k \in Elements(Dsm(id)')
                          \/ action'.message = k /\ ~IsEntity(action'.subscription)
      BY <2>2
    <3>2. Dsm(id) # <<>> /\ Dsm(id) \in Seq(MessageNumber)
      BY <3>1, EntryTypes, NoElements
    <3>3. Dsm(id)' = Tail(Dsm(id)) /\ action'.message = Head(Dsm(id))
      BY <2>2, <3>1, <3>2
    <3>4. k \in Elements(Tail(Dsm(id))) \/ k = Head(Dsm(id))
      BY <3>1, <3>2, TakenElements
    <3>5. ~IsEntity(action.subscription)
      BY <2>1, <2>2, <3>1 DEF LiveInv, PresenceInv
    <3>. QED
      BY <2>2, <3>3, <3>4, <3>5
  <2>. QED
    BY <1>1, <1>2, <2>2, <2>3, <2>4, CompanyMoves
<1>9. CASE Deliver
  <2>1. PICK x : x = action.id
    OBVIOUS
  <2>2. Grows /\ broker' = broker /\ dispatching' = dispatching
    BY <1>9, <2>1, DeliverIs
  <2>3. action.message = k /\ ~IsEntity(action.subscription) => k \in dropped'
    BY <1>2, <1>9, DeliverResults DEF DeliverDrops
  <2>4. Dsm(id)' = Dsm(id)
    BY <2>2 DEF Dsm
  <2>. QED
    BY <1>1, <1>2, <2>2, <2>3, <2>4, CompanyMoves
<1>10. CASE Check \/ Flush
  <2>1. PICK x : x = action.id
    OBVIOUS
  <2>2. Grows /\ broker' = broker /\ dispatching' = dispatching /\ action.message = 0
    BY <1>10, <2>1, CheckIs, FlushIs
  <2>3. Dsm(id)' = Dsm(id)
    BY <2>2 DEF Dsm
  <2>. QED
    BY <1>1, <1>2, <2>2, <2>3, CompanyMoves
<1>11. CASE Take
  <2>1. PICK x : x = action.id
    OBVIOUS
  <2>2. /\ Grows /\ action.at = "take" /\ action.message = 0 /\ dispatching' = dispatching
        /\ x # id => Dsm(id)' = Dsm(id)
    BY <1>11, <2>1, TakeIs
  <2>3. CASE x = id /\ k \in Elements(Dsm(id))
    <3>1. Dsm(id) # <<>>
      BY <2>3, NoElements
    <3>2. Gone(id)
      BY <2>1, <2>2, <2>3, <3>1 DEF CompanyInv, CompanyOK, LaterGone, TakesNone
    <3>. QED
      BY <1>2, <2>2, <3>2, GoneLasts
  <2>4. CASE ~(x = id /\ k \in Elements(Dsm(id)))
    BY <1>1, <1>2, <2>2, <2>4, CompanyMoves
  <2>. QED
    BY <2>3, <2>4
<1>12. CASE RunInvoked \/ RunCustom
  <2>1. Grows /\ UNCHANGED <<broker, dispatching, action>>
    BY <1>12, RunInvokedIs, RunCustomIs
  <2>. QED
    BY <1>4, <2>1
<1>13. CASE UNCHANGED brokerVars
  <2>1. UNCHANGED <<sent, entities, broker, dispatching, action>>
    BY <1>13 DEF brokerVars
  <2>. QED
    BY <1>4, <2>1, Stays
<1>. QED
  BY <1>3, <1>5, <1>6, <1>7, <1>8, <1>9, <1>10, <1>11, <1>12, <1>13 DEF BrokerNext, SocketThread, DefaultThread

\* A new subscription is Null only when somebody looks for it who finds nobody.
LEMMA NullStays ==
  ASSUME TypeInv, LiveInv, CompanyInv, [BrokerNext]_brokerVars, NEW id \in Id
  PROVE  NullCompany(id)'
<1>. SUFFICES ASSUME subscriptions'[id] = Null PROVE Company(id)'
  BY DEF NullCompany
<1>1. CASE subscriptions[id] = Null
  <2>1. ~IsEntity(subscriptions[id]) /\ Company(id)
    BY <1>1 DEF IsEntity, Null, CompanyInv, CompanyOK, NullCompany
  <2>. QED
    BY <2>1, CompanyStays
<1>2. ASSUME subscriptions[id] # Null, NEW x \in Id, Dispatch(x) PROVE Company(id)'
  <2>0. PICK n : n = Len(sent) + 1
    OBVIOUS
  <2>1. x = id /\ subscriptions[id] = Absent
    BY <1>2, DispatchIs
  <2>2. /\ Len(sent)' = n /\ n \in MessageNumber /\ sent'[n] = id /\ Len(sent) \in Nat
        /\ dispatching'.message = n /\ dispatching'.subscription = Absent
    BY <1>2, <2>0, <2>1, DispatchIs DEF Grows
  <2>3. n \in 1 .. Len(sent)' /\ ~IsEntity(dispatching'.subscription)
    BY <2>0, <2>2 DEF IsEntity, Absent
  <2>4. Stuck(n, id)'
    BY <2>2, <2>3 DEF Stuck, IsEntity
  <2>. QED
    BY <2>2, <2>4 DEF Company
<1>3. ASSUME subscriptions[id] # Null, BeginDeferred PROVE Company(id)'
  <2>1. PICK x \in Id :
          /\ defaultQueue # <<>> /\ Head(defaultQueue).op = "deferred" /\ Head(defaultQueue).id = x /\ Lookup(x)
          /\ UNCHANGED <<sent, broker, dispatching, entities, results>>
    BY <1>3, BeginDeferredIs
  <2>2. x = id
    BY <1>3, <2>1 DEF Lookup, TypeInv, SubscriptionsOK
  <2>3. Grows /\ dropped \subseteq dropped' /\ Dsm(id)' = Dsm(id)
    BY <2>1, Stays DEF results, Dsm
  <2>4. PICK t : t = defaultQueue[1]
    OBVIOUS
  <2>5. Len(defaultQueue) \in Nat /\ 1 \in 1 .. Len(defaultQueue) /\ t = Head(defaultQueue)
    BY <2>1, <2>4, Taken DEF TypeInv, TasksOK
  <2>6. IsDeferred(t, id) /\ t.id = id /\ t.op = "deferred"
    BY <2>1, <2>2, <2>5 DEF IsDeferred
  <2>7. CASE Gone(id)
    BY <2>3, <2>7, GoneLasts
  <2>8. CASE ~Gone(id)
    <3>1. t.entry = Entry(id)
      BY <2>4, <2>5, <2>6, <2>8 DEF CompanyInv, CompanyOK, TasksFind
    <3>2. PICK c \in Seq(MessageNumber) : Numbering(c)
      BY DEF LiveInv
    <3>3. PICK n : n = c[1]
      OBVIOUS
    <3>4. Numbers(n, t) /\ n \in MessageNumber
      BY <2>4, <2>5, <3>2, <3>3 DEF Numbering
    <3>5. n \in 1 .. Len(sent) /\ sent[n] = id /\ n \in Elements(Dsm(id))
      BY <2>6, <3>1, <3>4 DEF Numbers, Rest
    <3>6. n \in 1 .. Len(sent)' /\ sent'[n] = id /\ n \in Elements(Dsm(id)')
      BY <2>3, <3>5 DEF Grows
    <3>7. Stuck(n, id)'
      BY <3>6 DEF Stuck, Elements
    <3>. QED
      BY <3>4, <3>7 DEF Company
  <2>. QED
    BY <2>7, <2>8
<1>4. ASSUME NEW x \in Id, AdviseOn(x) \/ LifetimeEnds(x) PROVE subscriptions[id] = Null
  <2>1. \/ subscriptions'[id] = subscriptions[id]
        \/ subscriptions'[id] = entities + 1 \/ subscriptions'[id] = Absent
    BY <1>4 DEF AdviseOn, LifetimeEnds, TypeInv, SubscriptionsOK
  <2>. QED
    BY <2>1, BrokerAssumption DEF Null, Absent, TypeInv, SubscriptionsOK
<1>5. CASE Put \/ Pop \/ Deliver \/ Check \/ Take \/ Flush \/ RunInvoked \/ RunCustom \/ UNCHANGED brokerVars
  <2>1. subscriptions' = subscriptions
    BY <1>5 DEF Put, Pop, Deliver, Check, Take, Flush, RunInvoked, RunCustom, brokerVars
  <2>. QED
    BY <1>1, <2>1
<1>. QED
  BY <1>1, <1>2, <1>3, <1>4, <1>5 DEF BrokerNext, SocketThread, DefaultThread

\* The deferred tasks for id carry e: some are added that do, some are taken.
LEMMA FindMore ==
  ASSUME TypeInv, NEW id, NEW e, NEW q,
         \A i \in 1 .. Len(defaultQueue) : IsDeferred(defaultQueue[i], id) => defaultQueue[i].entry = e,
         \/ q = defaultQueue
         \/ defaultQueue # <<>> /\ q = Tail(defaultQueue)
         \/ \E t \in Task : q = Append(defaultQueue, t) /\ (IsDeferred(t, id) => t.entry = e)
  PROVE  \A i \in 1 .. Len(q) : IsDeferred(q[i], id) => q[i].entry = e
<1>1. defaultQueue \in Seq(Task)
  BY DEF TypeInv, TasksOK
<1>2. CASE q = defaultQueue
  BY <1>2
<1>3. CASE defaultQueue # <<>> /\ q = Tail(defaultQueue)
  <2>1. \A i \in 1 .. Len(q) : \E j \in 1 .. Len(defaultQueue) : q[i] = defaultQueue[j]
    BY <1>1, <1>3, Taken
  <2>. QED
    BY <2>1
<1>4. ASSUME NEW t \in Task, q = Append(defaultQueue, t), IsDeferred(t, id) => t.entry = e
      PROVE  \A i \in 1 .. Len(q) : IsDeferred(q[i], id) => q[i].entry = e
  <2>1. \A i \in 1 .. Len(q) : q[i] = t \/ \E j \in 1 .. Len(defaultQueue) : q[i] = defaultQueue[j]
    BY <1>1, <1>4, Appended
  <2>. QED
    BY <1>4, <2>1
<1>. QED
  BY <1>2, <1>3, <1>4

\* Only a deferred action that is put off is not an invocation.
LEMMA QueueMoves ==
  ASSUME TypeInv, [BrokerNext]_brokerVars, ~PutDefers
  PROVE  \/ defaultQueue' = defaultQueue
         \/ defaultQueue # <<>> /\ defaultQueue' = Tail(defaultQueue)
         \/ \E t \in Task : defaultQueue' = Append(defaultQueue, t) /\ t.op = "invoke"
<1>1. CASE Pop \/ Check \/ Take \/ RunCustom \/ UNCHANGED brokerVars
  BY <1>1 DEF Pop, Check, Take, RunCustom, brokerVars, queues
<1>2. ASSUME NEW id \in Id, Dispatch(id) \/ AdviseOn(id) \/ LifetimeEnds(id) PROVE defaultQueue' = defaultQueue
  BY <1>2 DEF Dispatch, AdviseOn, LifetimeEnds, queues
<1>3. CASE BeginDeferred \/ RunInvoked
  BY <1>3 DEF BeginDeferred, RunInvoked
<1>4. CASE Put
  <2>1. PICK x : x = Target
    OBVIOUS
  <2>2. CASE PutHolds
    BY <2>1, <2>2, HoldsIs
  <2>3. CASE PutInvokes
    <3>1. PICK t : t = Invocation(x, dispatching.subscription, dispatching.message)
      OBVIOUS
    <3>2. t \in Task /\ t.op = "invoke" /\ (defaultQueue' = defaultQueue \/ defaultQueue' = Append(defaultQueue, t))
      BY <2>1, <2>3, <3>1, InvokesIs DEF Invocation
    <3>. QED
      BY <3>2
  <2>. QED
    BY <1>4, <2>2, <2>3, PutCases
<1>5. CASE Deliver
  BY <1>5, DeliverResults, DeliverCases
<1>6. CASE Flush
  <2>1. PICK x : x = action.id
    OBVIOUS
  <2>2. CASE FlushEnds \/ FlushCrashes
    BY <1>6, <2>1, <2>2, FlushIs, FlushQueues
  <2>3. CASE FlushHands
    <3>1. PICK t : t = Invocation(x, action.subscription, Head(action.taken))
      OBVIOUS
    <3>2. t \in Task /\ t.op = "invoke" /\ (defaultQueue' = defaultQueue \/ defaultQueue' = Append(defaultQueue, t))
      BY <1>6, <2>1, <2>3, <3>1, FlushQueues DEF Invocation
    <3>. QED
      BY <3>2
  <2>. QED
    BY <1>6, <2>2, <2>3, FlushCases
<1>. QED
  BY <1>1, <1>2, <1>3, <1>4, <1>5, <1>6 DEF BrokerNext, SocketThread, DefaultThread

\* No step takes a message or an entity back.
LEMMA AllGrow ==
  ASSUME TypeInv, [BrokerNext]_brokerVars
  PROVE  Grows
<1>1. ASSUME NEW x \in Id, Dispatch(x) PROVE Grows
  BY <1>1, DispatchIs
<1>2. ASSUME NEW x \in Id, AdviseOn(x) PROVE Grows
  BY <1>2, BrokerAssumption DEF AdviseOn, Grows, TypeInv, SentOK, SubscriptionsOK
<1>3. CASE UNCHANGED <<sent, entities>>
  BY <1>3, Stays
<1>4. ASSUME NEW x \in Id, LifetimeEnds(x) PROVE Grows
  BY <1>3, <1>4 DEF LifetimeEnds
<1>5. CASE Put \/ DefaultThread \/ RunCustom \/ UNCHANGED brokerVars
  BY <1>3, <1>5 DEF Put, DefaultThread, BeginDeferred, Pop, Deliver, Check, Take, Flush, RunInvoked, RunCustom,
                    brokerVars
<1>. QED
  BY <1>1, <1>2, <1>4, <1>5 DEF BrokerNext, SocketThread

\* The entry of id, while no message for id was given up.
LEMMA FoundTasks ==
  ASSUME TypeInv, LiveInv, CompanyInv, [BrokerNext]_brokerVars, NEW id \in Id, ~Gone(id)
  PROVE  \A i \in 1 .. Len(defaultQueue') :
           IsDeferred(defaultQueue'[i], id) => defaultQueue'[i].entry = Entry(id)'
<1>1. PICK e : e = Entry(id)
  OBVIOUS
<1>2. PICK q : q = defaultQueue'
  OBVIOUS
<1>3. \A i \in 1 .. Len(defaultQueue) : IsDeferred(defaultQueue[i], id) => defaultQueue[i].entry = e
  BY <1>1 DEF CompanyInv, CompanyOK, TasksFind
<1>4. SUFFICES \A i \in 1 .. Len(q) : IsDeferred(q[i], id) => q[i].entry = Entry(id)'
  BY <1>2
<1>5. CASE PutDefers
  <2>1. PICK x : x = Target
    OBVIOUS
  <2>2. PICK t : t = Deferred(x, dispatching.entry)
    OBVIOUS
  <2>3. q = Append(defaultQueue, t) /\ t \in Task /\ Put
    BY <1>2, <1>5, <2>1, <2>2, DefersIs
  <2>4. dispatching.message # 0 /\ ~IsEntity(dispatching.subscription) /\ dispatching.entry # 0
    BY <1>5, <2>1, <2>3, PutIs DEF PutDefers
  <2>5. x = id => dispatching.entry = e
    BY <1>1, <2>1, <2>4 DEF CompanyInv, CompanyOK, DispatchFinds
  <2>6. Entry(id)' = e
    BY <1>1, <1>5, <2>1, <2>4, <2>5, DefersIs
  <2>7. IsDeferred(t, id) => t.entry = e
    BY <2>2, <2>5 DEF IsDeferred, Deferred
  <2>. QED
    BY <1>3, <2>3, <2>6, <2>7, FindMore
<1>6. CASE ~PutDefers
  <2>1. \/ q = defaultQueue
        \/ defaultQueue # <<>> /\ q = Tail(defaultQueue)
        \/ \E t \in Task : q = Append(defaultQueue, t) /\ t.op = "invoke"
    BY <1>2, <1>6, QueueMoves
  <2>2. \A i \in 1 .. Len(q) : IsDeferred(q[i], id) => q[i].entry = e
    BY <1>3, <2>1, FindMore DEF IsDeferred
  <2>3. CASE Entry(id)' = e
    BY <2>2, <2>3
  <2>4. ASSUME NEW x \in Id, Dispatch(x), Entry(id)' # e
        PROVE  \A i \in 1 .. Len(q) : ~IsDeferred(q[i], id)
    <3>1. x = id /\ e = 0 /\ q = defaultQueue
      BY <1>1, <1>2, <2>4, DispatchIs DEF queues
    <3>2. ASSUME NEW i \in 1 .. Len(q), IsDeferred(q[i], id) PROVE FALSE
      <4>1. q[i].entry \in 1 .. Len(sent)
        BY <3>1, <3>2 DEF TypeInv, TasksOK, DefaultTask, IsDeferred
      <4>. QED
        BY <2>2, <3>1, <3>2, <4>1
    <3>. QED
      BY <3>2
  <2>5. ASSUME Take, Entry(id)' # e
        PROVE  \A i \in 1 .. Len(q) : ~IsDeferred(q[i], id)
    <3>1. PICK x : x = action.id
      OBVIOUS
    <3>2. x = id /\ action.at = "take" /\ q = defaultQueue
      BY <1>1, <1>2, <2>5, <3>1, TakeIs DEF queues
    <3>3. Dsm(id) = <<>>
      BY <3>1, <3>2 DEF CompanyInv, CompanyOK, LaterGone, TakesNone
    <3>4. PICK c \in Seq(MessageNumber) : Numbering(c)
      BY DEF LiveInv
    <3>5. ASSUME NEW i \in 1 .. Len(q), IsDeferred(q[i], id) PROVE FALSE
      <4>1. PICK t : t = defaultQueue[i]
        OBVIOUS
      <4>2. IsDeferred(t, id) /\ t.entry = Entry(id)
        BY <1>1, <2>2, <3>2, <3>5, <4>1
      <4>3. Numbers(c[i], t)
        BY <3>2, <3>4, <3>5, <4>1 DEF Numbering
      <4>4. c[i] \in Elements(Dsm(id))
        BY <4>2, <4>3 DEF Numbers, IsDeferred, Rest
      <4>. QED
        BY <3>3, <4>4, NoElements
    <3>. QED
      BY <3>5
  <2>6. CASE broker' = broker
    BY <1>1, <2>3, <2>6 DEF Entry
  <2>7. CASE PutHolds \/ Pop
    <3>1. PICK x, y : x = Target /\ y = action.id
      OBVIOUS
    <3>2. Entry(id)' = e
      BY <1>1, <2>7, <3>1, HoldsIs, PopIs
    <3>. QED
      BY <2>3, <3>2
  <2>8. CASE PutInvokes
    <3>1. PICK x : x = Target
      OBVIOUS
    <3>. QED
      BY <2>6, <2>8, <3>1, InvokesIs
  <2>9. ASSUME NEW x \in Id, AdviseOn(x) \/ LifetimeEnds(x) PROVE broker' = broker
    BY <2>9 DEF AdviseOn, LifetimeEnds
  <2>10. CASE BeginDeferred \/ Deliver \/ Check \/ Flush \/ RunInvoked \/ RunCustom \/ UNCHANGED brokerVars
    BY <2>6, <2>10 DEF BeginDeferred, Deliver, Check, Flush, RunInvoked, RunCustom, brokerVars
  <2>. QED
    BY <1>6, <2>2, <2>3, <2>4, <2>5, <2>6, <2>7, <2>8, <2>9, <2>10, PutCases DEF BrokerNext, SocketThread, DefaultThread
<1>. QED
  BY <1>5, <1>6

\* Only the default scheduler moves its action.
LEMMA ActionMoves ==
  ASSUME [BrokerNext]_brokerVars, action' # action
  PROVE  BeginDeferred \/ Pop \/ Deliver \/ Check \/ Take \/ Flush
<1>1. ASSUME NEW x \in Id, Dispatch(x) \/ AdviseOn(x) \/ LifetimeEnds(x) PROVE action' = action
  BY <1>1 DEF Dispatch, AdviseOn, LifetimeEnds
<1>2. CASE Put \/ RunInvoked \/ RunCustom \/ UNCHANGED brokerVars
  BY <1>2 DEF Put, RunInvoked, RunCustom, brokerVars
<1>. QED
  BY <1>1, <1>2 DEF BrokerNext, SocketThread, DefaultThread

LEMMA LaterStays ==
  ASSUME TypeInv, LiveInv, CompanyInv, [BrokerNext]_brokerVars, NEW id \in Id, ~Gone(id)'
  PROVE  LaterGone(id)'
<1>0. Grows /\ dropped \subseteq dropped' /\ ~Gone(id)
  BY AllGrow, DroppedGrows, GoneStays
<1>. SUFFICES ASSUME action'.id = id, action'.at \in {"check", "take", "flush"}, ~IsEntity(action'.subscription)
              PROVE  FALSE
  BY DEF LaterGone, IsEntity
<1>1. PICK x : x = action.id
  OBVIOUS
<1>2. ~(action.id = id /\ action.at \in {"check", "take", "flush"} /\ ~IsEntity(action.subscription))
  BY <1>0 DEF CompanyInv, CompanyOK, LaterGone
<1>3. BeginDeferred \/ Pop \/ Deliver \/ Check \/ Take \/ Flush
  BY <1>2, ActionMoves
<1>4. CASE BeginDeferred
  BY <1>4, BeginDeferredIs
<1>5. CASE Pop
  BY <1>1, <1>5, PopIs
<1>6. CASE Deliver
  <2>1. /\ x = id /\ ~IsEntity(action.subscription) /\ action.at = "deliver"
        /\ action.message # 0 => action.message \in 1 .. Len(sent) /\ sent[action.message] = id
    BY <1>1, <1>6, DeliverIs
  <2>2. action.message # 0
    BY <2>1 DEF CompanyInv
  <2>3. action.message \in dropped'
    BY <1>6, <2>1, <2>2, DeliverResults DEF DeliverDrops
  <2>4. sent'[action.message] = id
    BY <1>0, <2>1, <2>2 DEF Grows
  <2>. QED
    BY <1>0, <2>3, <2>4 DEF Gone
<1>7. CASE Check
  <2>1. action.at = "check" /\ action' # Idle
    BY <1>1, <1>7, CheckIs DEF Idle
  <2>2. action'.id = action.id /\ action'.subscription = action.subscription
    BY <1>1, <1>7, <2>1, CheckIs
  <2>. QED
    BY <1>2, <2>1, <2>2
<1>8. CASE Take
  BY <1>1, <1>2, <1>8, TakeIs
<1>9. CASE Flush
  <2>1. action.at = "flush" /\ action' # Idle
    BY <1>1, <1>9, FlushIs DEF Idle
  <2>2. action'.id = action.id /\ action'.subscription = action.subscription
    BY <1>1, <1>9, <2>1, FlushIs
  <2>. QED
    BY <1>2, <2>1, <2>2
<1>. QED
  BY <1>3, <1>4, <1>5, <1>6, <1>7, <1>8, <1>9

LEMMA TakesStay ==
  ASSUME TypeInv, LiveInv, CompanyInv, [BrokerNext]_brokerVars, NEW id \in Id
  PROVE  TakesNone(id)'
<1>. SUFFICES ASSUME action'.id = id, action'.at = "take", IsEntity(action'.subscription)
              PROVE  Dsm(id)' = <<>>
  BY DEF TakesNone, IsEntity
<1>1. PICK x, y : x = action.id /\ y = Target
  OBVIOUS
<1>2. CASE action' = action
  <2>1. Dsm(id) = <<>>
    BY <1>2 DEF CompanyInv, CompanyOK, TakesNone
  <2>2. CASE Dsm(id)' = Dsm(id)
    BY <2>1, <2>2
  <2>3. CASE broker' = broker
    BY <2>2, <2>3 DEF Dsm
  <2>4. CASE PutDefers
    <3>1. y # id
      <4>1. subscriptions[id] = action.subscription
        BY <1>2 DEF LiveInv, PresenceInv
      <4>2. dispatching.message # 0 /\ ~IsEntity(dispatching.subscription)
        BY <1>1, <2>4, DefersIs, PutIs DEF PutDefers
      <4>. QED
        BY <1>1, <1>2, <4>1, <4>2 DEF LiveInv, PresenceInv
    <3>. QED
      BY <1>1, <2>2, <2>4, <3>1, DefersIs
  <2>5. CASE PutHolds
    BY <1>1, <2>2, <2>5, HoldsIs
  <2>6. CASE PutInvokes
    BY <1>1, <2>3, <2>6, InvokesIs
  <2>7. ASSUME NEW z \in Id, Dispatch(z) \/ AdviseOn(z) \/ LifetimeEnds(z) PROVE Dsm(id)' = <<>>
    <3>1. CASE Dispatch(z)
      BY <2>2, <3>1, DispatchIs
    <3>2. CASE AdviseOn(z) \/ LifetimeEnds(z)
      BY <2>3, <3>2 DEF AdviseOn, LifetimeEnds
    <3>. QED
      BY <2>7, <3>1, <3>2
  <2>8. CASE Pop \/ Take
    BY <1>1, <1>2, <2>8, PopIs, TakeIs
  <2>9. CASE BeginDeferred \/ Deliver \/ Check \/ Flush \/ RunInvoked \/ RunCustom \/ UNCHANGED brokerVars
    BY <2>3, <2>9 DEF BeginDeferred, Deliver, Check, Flush, RunInvoked, RunCustom, brokerVars
  <2>. QED
    BY <2>4, <2>5, <2>6, <2>7, <2>8, <2>9, PutCases DEF BrokerNext, SocketThread, DefaultThread
<1>3. CASE Check
  <2>1. action' # Idle
    BY DEF Idle
  <2>2. Dsm(x) = <<>> /\ broker' = broker /\ action'.id = x
    BY <1>1, <1>3, <2>1, CheckIs
  <2>. QED
    BY <2>2 DEF Dsm
<1>4. CASE BeginDeferred
  BY <1>4, BeginDeferredIs
<1>5. CASE Pop \/ Deliver \/ Take
  BY <1>1, <1>5, PopIs, DeliverIs, TakeIs
<1>6. CASE Flush
  BY <1>1, <1>6, FlushIs DEF Idle
<1>. QED
  BY <1>2, <1>3, <1>4, <1>5, <1>6, ActionMoves

LEMMA DispatchStaysFound ==
  ASSUME TypeInv, LiveInv, CompanyInv, [BrokerNext]_brokerVars, NEW id \in Id, ~Gone(id)'
  PROVE  DispatchFinds(id)'
<1>0. Grows /\ dropped \subseteq dropped' /\ ~Gone(id)
  BY AllGrow, DroppedGrows, GoneStays
<1>. SUFFICES ASSUME dispatching'.message # 0, sent'[dispatching'.message] = id, ~IsEntity(dispatching'.subscription)
              PROVE  dispatching'.entry = Entry(id)'
  BY DEF DispatchFinds, Target, IsEntity
<1>1. PICK x : x = action.id
  OBVIOUS
<1>2. ASSUME NEW z \in Id, Dispatch(z) PROVE dispatching'.entry = Entry(id)'
  <2>1. dispatching'.message = Len(sent) + 1 /\ sent'[Len(sent) + 1] = z /\ dispatching'.entry = Entry(z)'
    BY <1>2, DispatchIs
  <2>2. z = id
    BY <2>1
  <2>. QED
    BY <2>1, <2>2
<1>3. CASE Put
  BY <1>3 DEF Put, NoDispatch
<1>4. CASE dispatching' = dispatching
  <2>1. dispatching.message \in 1 .. Len(sent)
    BY <1>0, <1>4, BrokerAssumption DEF TypeInv, DispatchOK, Grows
  <2>2. Target = id
    BY <1>0, <1>4, <2>1 DEF Grows, Target
  <2>3. dispatching.entry = Entry(id)
    BY <1>0, <1>4, <2>2 DEF CompanyInv, CompanyOK, DispatchFinds
  <2>4. CASE broker' = broker
    BY <1>4, <2>3, <2>4 DEF Entry
  <2>5. CASE Pop
    BY <1>1, <1>4, <2>3, <2>5, PopIs
  <2>6. CASE Take
    <3>1. x # id
      <4>1. SUFFICES ASSUME x = id PROVE FALSE
        OBVIOUS
      <4>2. action.at = "take"
        BY <1>1, <2>6, TakeIs
      <4>3. IsEntity(action.subscription)
        BY <1>0, <1>1, <4>1, <4>2 DEF CompanyInv, CompanyOK, LaterGone
      <4>4. subscriptions[id] = action.subscription
        BY <1>1, <4>1, <4>2, <4>3 DEF LiveInv, PresenceInv
      <4>. QED
        BY <1>4, <2>2, <4>3, <4>4 DEF LiveInv, PresenceInv
    <3>. QED
      BY <1>1, <1>4, <2>3, <2>6, <3>1, TakeIs
  <2>7. ASSUME NEW z \in Id, AdviseOn(z) \/ LifetimeEnds(z) PROVE broker' = broker
    BY <2>7 DEF AdviseOn, LifetimeEnds
  <2>8. CASE BeginDeferred \/ Deliver \/ Check \/ Flush \/ RunInvoked \/ RunCustom \/ UNCHANGED brokerVars
    BY <2>4, <2>8 DEF BeginDeferred, Deliver, Check, Flush, RunInvoked, RunCustom, brokerVars
  <2>. QED
    BY <1>2, <1>3, <2>4, <2>5, <2>6, <2>7, <2>8 DEF BrokerNext, SocketThread, DefaultThread
<1>5. ASSUME NEW z \in Id, AdviseOn(z) \/ LifetimeEnds(z) PROVE dispatching' = dispatching
  BY <1>5 DEF AdviseOn, LifetimeEnds
<1>6. CASE DefaultThread \/ RunCustom \/ UNCHANGED brokerVars
  BY <1>4, <1>6 DEF DefaultThread, BeginDeferred, Pop, Deliver, Check, Take, Flush, RunInvoked, RunCustom, brokerVars
<1>. QED
  BY <1>2, <1>3, <1>4, <1>5, <1>6 DEF BrokerNext, SocketThread

LEMMA CompanyStep ==
  ASSUME TypeInv, LiveInv, CompanyInv, [BrokerNext]_brokerVars, ~crashed'
  PROVE  CompanyInv'
<1>1. ASSUME action'.at = "deliver" PROVE action'.message # 0
  <2>1. PICK x : x = action.id
    OBVIOUS
  <2>2. CASE action' = action
    BY <1>1, <2>2 DEF CompanyInv
  <2>3. CASE Pop
    <3>1. action.at = "pop" /\ x \in Id /\ Entry(x) = action.entry
      BY <2>1, <2>3, PopIs
    <3>2. Dsm(x) # <<>> /\ Dsm(x) \in Seq(MessageNumber)
      BY <2>1, <3>1, EntryTypes DEF LiveInv, WaitingInv, Popping
    <3>3. PICK n \in MessageNumber : n = Head(Dsm(x))
      BY <3>2, TakenElements
    <3>4. n # 0
      BY BrokerAssumption DEF MessageNumber
    <3>. QED
      BY <2>1, <2>3, <3>2, <3>3, <3>4, PopIs
  <2>4. CASE BeginDeferred \/ Deliver \/ Check \/ Take \/ Flush
    BY <1>1, <2>1, <2>4, BeginDeferredIs, DeliverIs, CheckIs, TakeIs, FlushIs DEF Idle
  <2>. QED
    BY <2>2, <2>3, <2>4, ActionMoves
<1>2. ASSUME NEW id \in Id PROVE CompanyOK(id)'
  <2>1. NullCompany(id)' /\ TakesNone(id)'
    BY NullStays, TakesStay
  <2>2. CASE Gone(id)'
    <3>1. TasksFind(id)' /\ LaterGone(id)' /\ DispatchFinds(id)'
      BY <2>2 DEF TasksFind, LaterGone, DispatchFinds
    <3>. QED
      BY <2>1, <3>1 DEF CompanyOK
  <2>3. CASE ~Gone(id)'
    <3>1. ~Gone(id)
      BY <2>3, AllGrow, DroppedGrows, GoneStays
    <3>2. TasksFind(id)'
      BY <3>1, FoundTasks DEF TasksFind, IsDeferred
    <3>3. LaterGone(id)' /\ DispatchFinds(id)'
      BY <2>3, LaterStays, DispatchStaysFound
    <3>. QED
      BY <2>1, <3>2, <3>3 DEF CompanyOK
  <2>. QED
    BY <2>2, <2>3
<1>. QED
  BY <1>1, <1>2 DEF CompanyInv

LEMMA AstrayStep ==
  ASSUME TypeInv, LiveInv, CompanyInv, AstrayInv, [BrokerNext]_brokerVars
  PROVE  AstrayInv'
<1>1. Grows
  BY AllGrow
<1>2. ASSUME NEW id \in Id, ~IsEntity(subscriptions[id]), entities = 1, entities' = 1
      PROVE  ~IsEntity(subscriptions'[id])
  <2>1. ASSUME NEW x \in Id, Dispatch(x) PROVE ~IsEntity(subscriptions'[id])
    BY <1>2, <2>1, DispatchIs DEF IsEntity, Null
  <2>2. ASSUME NEW x \in Id, AdviseOn(x) \/ LifetimeEnds(x) PROVE ~IsEntity(subscriptions'[id])
    BY <1>2, <2>2 DEF AdviseOn, LifetimeEnds, IsEntity, Absent, TypeInv, SubscriptionsOK
  <2>3. CASE BeginDeferred
    BY <1>2, <2>3, BeginDeferredIs DEF Lookup, IsEntity, Null, TypeInv, SubscriptionsOK
  <2>4. CASE Put \/ Pop \/ Deliver \/ Check \/ Take \/ Flush \/ RunInvoked \/ RunCustom \/ UNCHANGED brokerVars
    BY <1>2, <2>4 DEF Put, Pop, Deliver, Check, Take, Flush, RunInvoked, RunCustom, brokerVars
  <2>. QED
    BY <2>1, <2>2, <2>3, <2>4 DEF BrokerNext, SocketThread, DefaultThread
<1>3. ASSUME NEW n \in astray' PROVE n \in 1 .. Len(sent)
            /\ \/ entities > 1
               \/ entities = 1 /\ \E id \in Id : id = sent[n] /\ ~IsEntity(subscriptions[id]) /\ Company(id)
  <2>1. CASE n \in astray
    BY <2>1, PlaceTypes DEF AstrayInv
  <2>2. ASSUME NEW t \in Task, Hands(t), Execute(t), n \notin astray
        PROVE  n \in 1 .. Len(sent)
            /\ \/ entities > 1
               \/ entities = 1 /\ \E id \in Id : id = sent[n] /\ ~IsEntity(subscriptions[id]) /\ Company(id)
    <3>1. PICK id \in Id : id = t.id
      BY DEF Task
    <3>2. n = t.message /\ n \in 1 .. Len(sent) /\ sent[n] = id /\ t.that \in 1 .. entities
          /\ subscriptions[id] # Absent /\ subscriptions[id] # t.that
      BY <1>3, <2>2, <3>1, ExecuteIs DEF Hands
    <3>3. CASE entities = 1
      <4>1. subscriptions[id] = Null
        BY <3>2, <3>3 DEF TypeInv, SubscriptionsOK, Subscription, Absent
      <4>2. Company(id) /\ ~IsEntity(subscriptions[id])
        BY <4>1 DEF CompanyInv, CompanyOK, NullCompany, IsEntity, Null
      <4>. QED
        BY <3>2, <3>3, <4>2
    <3>. QED
      BY <1>1, <3>2, <3>3 DEF Grows
  <2>3. CASE RunInvoked \/ RunCustom
    BY <2>1, <2>2, <2>3, RunInvokedIs, RunCustomIs
  <2>4. CASE Put \/ BeginDeferred \/ Pop \/ Check \/ Take \/ Flush \/ UNCHANGED brokerVars
    BY <1>3, <2>1, <2>4 DEF Put, BeginDeferred, Pop, Check, Take, Flush, results, brokerVars
  <2>5. ASSUME NEW x \in Id, Dispatch(x) \/ AdviseOn(x) \/ LifetimeEnds(x) PROVE n \in astray
    BY <1>3, <2>5 DEF Dispatch, AdviseOn, LifetimeEnds, results
  <2>6. CASE Deliver
    BY <1>3, <2>1, <2>6 DEF Deliver
  <2>. QED
    BY <2>1, <2>3, <2>4, <2>5, <2>6 DEF BrokerNext, SocketThread, DefaultThread
<1>4. ASSUME NEW n \in astray'
      PROVE  \/ entities' > 1
             \/ entities' = 1 /\ \E id \in Id : id = sent'[n] /\ ~IsEntity(subscriptions'[id]) /\ Company(id)'
  <2>1. CASE entities' > 1 \/ entities > 1
    BY <1>1, <2>1 DEF Grows
  <2>2. CASE entities' <= 1 /\ ~(entities > 1)
    <3>1. PICK id \in Id : id = sent[n] /\ ~IsEntity(subscriptions[id]) /\ Company(id)
      BY <1>3, <2>2
    <3>2. entities = 1 /\ entities' = 1 /\ sent'[n] = id
      BY <1>1, <1>3, <2>2, <3>1 DEF Grows
    <3>3. ~IsEntity(subscriptions'[id]) /\ Company(id)'
      BY <1>2, <3>1, <3>2, CompanyStays
    <3>. QED
      BY <3>2, <3>3
  <2>. QED
    BY <1>1, <2>1, <2>2 DEF Grows
<1>. QED
  BY <1>4 DEF AstrayInv, IsEntity

\* What is known of the messages that go astray.
StrayInv == AstrayInv /\ (~crashed => CompanyInv)

LEMMA StrayAlways == BrokerSpec => []StrayInv
<1>1. BrokerInit => StrayInv
  <2>. SUFFICES ASSUME BrokerInit PROVE AstrayInv /\ CompanyInv
    BY DEF StrayInv
  <2>1. \A id \in Id : CompanyOK(id)
    BY DEF BrokerInit, CompanyOK, TasksFind, LaterGone, TakesNone, DispatchFinds, NullCompany, NoDispatch, Idle,
           Null, Absent
  <2>. QED
    BY <2>1 DEF BrokerInit, AstrayInv, CompanyInv, Idle
<1>2. BrokerInv /\ StrayInv /\ [BrokerNext]_brokerVars => StrayInv'
  <2>. SUFFICES ASSUME BrokerInv, StrayInv, [BrokerNext]_brokerVars PROVE StrayInv'
    OBVIOUS
  <2>1. CASE crashed
    <3>1. UNCHANGED brokerVars
      BY <2>1, CrashEnds DEF BrokerInv
    <3>2. UNCHANGED <<sent, subscriptions, broker, dispatching, action, entities, dropped, astray>> /\ crashed' = crashed
      BY <3>1 DEF brokerVars, results
    <3>3. \A id \in Id : Company(id) => Company(id)'
      BY <3>2 DEF Company, Stuck, Dsm
    <3>4. AstrayInv'
      BY <3>2, <3>3 DEF StrayInv, AstrayInv, IsEntity
    <3>. QED
      BY <2>1, <3>2, <3>4 DEF StrayInv
  <2>2. CASE ~crashed
    BY <2>2, CompanyStep, AstrayStep DEF BrokerInv, StrayInv
  <2>. QED
    BY <2>1, <2>2
<1>. QED
  BY <1>1, <1>2, BrokerAlways, PTL DEF BrokerSpec

\* A message goes to an entity that has left only if another message for the
\* same id found nobody there, before or after it, or another entity took the
\* id: the check in the queued action notices the others.
THEOREM StrayIsNotAlone == BrokerSpec => []AstrayNeedsCompany
<1>1. BrokerInv /\ PlaceInv /\ StrayInv => AstrayNeedsCompany
  <2>. SUFFICES ASSUME BrokerInv, PlaceInv, StrayInv, NEW n \in astray
                PROVE  \/ \E k \in 1 .. Len(sent) : k # n /\ sent[k] = sent[n] /\ (k \in dropped \/ Waiting(k))
                       \/ entities > 1
    BY DEF AstrayNeedsCompany
  <2>1. CASE entities > 1
    BY <2>1
  <2>2. CASE ~(entities > 1)
    <3>1. PICK id \in Id : id = sent[n] /\ Company(id)
      BY <2>2 DEF StrayInv, AstrayInv
    <3>2. PICK k \in MessageNumber : Stuck(k, id)
      BY <3>1 DEF Company
    <3>3. k \in 1 .. Len(sent) /\ sent[k] = id /\ (k \in dropped \/ Waiting(k))
      BY <3>2 DEF Stuck, Waiting, Dsm
    <3>4. k # n
      <4>1. PICK p \in [MessageNumber -> Place] : Placed(p)
        BY DEF PlaceInv
      <4>2. k # 0 /\ TypeInv
        BY BrokerAssumption DEF MessageNumber, BrokerInv
      <4>3. n \in astray /\ p[n] = "astray"
        BY <4>1 DEF Placed, In
      <4>4. CASE k \in dropped
        BY <4>1, <4>3, <4>4 DEF Placed, In
      <4>5. CASE k \in Elements(Dsm(id))
        <5>1. k \in Waits
          BY <4>5 DEF Waits
        <5>. QED
          BY <4>1, <4>3, <5>1 DEF Placed, In
      <4>6. CASE dispatching.message = k
        <5>1. k \in Dispatched
          BY <4>2, <4>6 DEF Dispatched
        <5>. QED
          BY <4>1, <4>3, <5>1 DEF Placed, In
      <4>7. CASE action.message = k
        <5>1. k \in Acted
          BY <4>2, <4>7 DEF Acted
        <5>. QED
          BY <4>1, <4>3, <5>1 DEF Placed, In
      <4>. QED
        BY <3>2, <4>4, <4>5, <4>6, <4>7 DEF Stuck
    <3>. QED
      BY <3>1, <3>3, <3>4
  <2>. QED
    BY <2>1, <2>2
<1>. QED
  BY <1>1, BrokerAlways, PlaceAlways, StrayAlways, PTL

=============================================================================
