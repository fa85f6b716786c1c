--------------------------------- MODULE RdMap ---------------------------------
(***************************************************************************)
(* The two ends of an RdMap: a map that is kept the same on both sides of  *)
(* a wire.  Each end changes its own copy at once and tells the other; the *)
(* wire delivers in order.  One end is the master: its messages carry a    *)
(* version, and until such a message is acknowledged the master rejects    *)
(* what the other end, the slave, says of the same key.                    *)
(*                                                                         *)
(* The code runs the changes and the messages of one end on one scheduler, *)
(* so that each is one step of that end.  It keeps pendingForAck by        *)
(* pointers to keys.  Once the key is gone from the map the pointer        *)
(* dangles, and a lookup finds the entry or does not.                      *)
(***************************************************************************)
EXTENDS Integers, Sequences, FiniteSets

CONSTANTS
  Key, Value,
  None,         \* the value of a key that is not in the map
  MaxChanges    \* bound: how many changes both ends make together

ASSUME RdMapAssumption == IsFiniteSet(Key) /\ None \notin Value /\ MaxChanges \in Nat

End == {"master", "slave"}

Other(e) == IF e = "master" THEN "slave" ELSE "master"

VARIABLES
  map,            \* the copy of each end
  wire,           \* the messages on their way to each end
  next_version,   \* the version of the master's last change
  pendingForAck,  \* the version the master waits for, by key; 0 for none
  dangling,       \* the keys whose entry in pendingForAck has a dead pointer
  changes,        \* how many changes were made
  entangled,      \* auxiliary: keys whose entry was in use or dead when a change came
  unpaired        \* auxiliary: keys whose acknowledgement was reported as an error

masterVars == <<next_version, pendingForAck, dangling>>
vars == <<map, wire, masterVars, changes, entangled, unpaired>>

\* ADD and UPDATE are a put of a value, REMOVE is a put of None.
Message == [op : {"PUT", "ACK"}, key : Key, value : Value \cup {None}, version : Nat]

-----------------------------------------------------------------------------

Init ==
  /\ map = [e \in End |-> [k \in Key |-> None]]
  /\ wire = [e \in End |-> <<>>]
  /\ next_version = 0
  /\ pendingForAck = [k \in Key |-> 0]
  /\ dangling = {}
  /\ changes = 0
  /\ entangled = {} /\ unpaired = {}

\* The entries of K a lookup may miss.
Missed(K) == SUBSET (dangling \cap K)

\* Fault: the master does not note what it waits for.
AnnounceAll(e, s, value) ==
  /\ wire' = [wire EXCEPT ![Other(e)] = @ \o
       [i \in 1 .. Len(s) |->
          [op |-> "PUT", key |-> s[i], value |-> value,
           version |-> IF e = "master" THEN next_version + i ELSE 0]]]
  /\ IF e = "master"
       THEN /\ next_version' = next_version + Len(s)
            /\ UNCHANGED <<pendingForAck, dangling, entangled>>
       ELSE UNCHANGED <<masterVars, entangled>>

\* The handler that init advises: a local change of the keys in s, one after the
\* other, is sent to the other end.  The master gives each a version and notes
\* it in pendingForAck, where emplace leaves an entry that it finds as it is.
\* The entry points to the key of the map, or to the argument of remove: when
\* the change leaves no such key, the pointer is dead as soon as it returns.
Announce(e, s, value) ==
  LET K == {s[i] : i \in 1 .. Len(s)}
      Version(k) == next_version + (CHOOSE i \in 1 .. Len(s) : s[i] = k) IN
  /\ wire' = [wire EXCEPT ![Other(e)] = @ \o
       [i \in 1 .. Len(s) |->
          [op |-> "PUT", key |-> s[i], value |-> value,
           version |-> IF e = "master" THEN next_version + i ELSE 0]]]
  /\ IF e = "master"
       THEN \E missed \in Missed(K) :
              LET entered == {k \in K : pendingForAck[k] = 0 \/ k \in missed} IN
              /\ next_version' = next_version + Len(s)
              /\ pendingForAck' = [k \in Key |-> IF k \in entered THEN Version(k) ELSE pendingForAck[k]]
              /\ dangling' = IF value = None THEN dangling \cup K ELSE dangling \ entered
              /\ entangled' = entangled \cup {k \in K : pendingForAck[k] # 0}
                                         \cup (IF value = None THEN K ELSE {})
       ELSE UNCHANGED <<masterVars, entangled>>

\* set fires only when the value differs.
LocalSet(e, k, v) ==
  /\ changes < MaxChanges /\ changes' = changes + 1
  /\ map[e][k] # v
  /\ map' = [map EXCEPT ![e][k] = v]
  /\ Announce(e, <<k>>, v)
  /\ UNCHANGED unpaired

LocalRemove(e, k) ==
  /\ changes < MaxChanges /\ changes' = changes + 1
  /\ map[e][k] # None
  /\ map' = [map EXCEPT ![e][k] = None]
  /\ Announce(e, <<k>>, None)
  /\ UNCHANGED unpaired

\* clear fires for every key, in the order of the map, before it empties it.
Clear(e) ==
  /\ changes < MaxChanges /\ changes' = changes + 1
  /\ LET K == {k \in Key : map[e][k] # None} IN
       \E s \in [1 .. Cardinality(K) -> K] :
         /\ K # {} /\ K = {s[i] : i \in 1 .. Cardinality(K)}
         /\ \A i, j \in 1 .. Cardinality(K) : s[i] = s[j] => i = j
         /\ map' = [map EXCEPT ![e] = [k \in Key |-> None]]
         /\ Announce(e, s, None)
  /\ UNCHANGED unpaired

-----------------------------------------------------------------------------
(* on_wire_received *)

\* A change of a key that is put into the map or taken out of it by the other
\* end is not announced.  An entry of a key that goes loses its key.
Apply(e, m) ==
  /\ map' = [map EXCEPT ![e][m.key] = m.value]
  /\ dangling' = IF e = "master" /\ m.value = None /\ pendingForAck[m.key] # 0
                   THEN dangling \cup {m.key} ELSE dangling
  /\ entangled' = IF e = "master" /\ m.value = None /\ pendingForAck[m.key] # 0
                   THEN entangled \cup {m.key} ELSE entangled

\* Fault: the slave acknowledges nothing.
SlaveSilent ==
  /\ wire["slave"] # <<>>
  /\ Apply("slave", Head(wire["slave"]))
  /\ wire' = [wire EXCEPT !["slave"] = Tail(@)]
  /\ UNCHANGED <<next_version, pendingForAck, changes, unpaired>>

\* The slave takes whatever the master says and acknowledges it.
ReceiveAtSlave ==
  /\ wire["slave"] # <<>>
  /\ LET m == Head(wire["slave"]) IN
       /\ Apply("slave", m)
       /\ wire' = [master |-> Append(wire["master"], [m EXCEPT !.op = "ACK", !.value = None]),
                   slave |-> Tail(wire["slave"])]
  /\ UNCHANGED <<next_version, pendingForAck, changes, unpaired>>

\* Fault: nothing is rejected.
ReceiveAnyPut ==
  /\ wire["master"] # <<>> /\ Head(wire["master"]).op = "PUT"
  /\ Apply("master", Head(wire["master"]))
  /\ wire' = [wire EXCEPT !["master"] = Tail(@)]
  /\ UNCHANGED <<next_version, pendingForAck, changes, unpaired>>

\* The master rejects what the slave says of a key it waits for.
ReceivePut ==
  /\ wire["master"] # <<>> /\ Head(wire["master"]).op = "PUT"
  /\ LET m == Head(wire["master"]) IN
       \E missed \in Missed({m.key}) :
         IF pendingForAck[m.key] = 0 \/ m.key \in missed
           THEN Apply("master", m)
           ELSE UNCHANGED <<map, dangling, entangled>>
  /\ wire' = [wire EXCEPT !["master"] = Tail(@)]
  /\ UNCHANGED <<next_version, pendingForAck, changes, unpaired>>

\* Fault: the entry is emptied and stays.
ReceiveAckEmptied ==
  /\ wire["master"] # <<>> /\ Head(wire["master"]).op = "ACK"
  /\ pendingForAck' = [pendingForAck EXCEPT ![Head(wire["master"]).key] = None]
  /\ wire' = [wire EXCEPT !["master"] = Tail(@)]
  /\ UNCHANGED <<map, next_version, dangling, changes, entangled, unpaired>>

\* An acknowledgement of the version that is waited for ends the waiting; an
\* older one is dropped; any other, or one nobody waits for, is an error.
ReceiveAck ==
  /\ wire["master"] # <<>> /\ Head(wire["master"]).op = "ACK"
  /\ LET m == Head(wire["master"])
         pending == pendingForAck[m.key] IN
       \E missed \in Missed({m.key}) :
         LET found == pending # 0 /\ m.key \notin missed IN
         /\ pendingForAck' = IF found /\ pending = m.version
                               THEN [pendingForAck EXCEPT ![m.key] = 0] ELSE pendingForAck
         /\ dangling' = IF found /\ pending = m.version THEN dangling \ {m.key} ELSE dangling
         /\ unpaired' = IF ~found \/ pending < m.version THEN unpaired \cup {m.key} ELSE unpaired
  /\ wire' = [wire EXCEPT !["master"] = Tail(@)]
  /\ UNCHANGED <<map, next_version, changes, entangled>>

-----------------------------------------------------------------------------

LocalChange(e) ==
  \/ \E k \in Key, v \in Value : LocalSet(e, k, v)
  \/ \E k \in Key : LocalRemove(e, k)
  \/ Clear(e)

Receive == ReceiveAtSlave \/ ReceivePut \/ ReceiveAck

Next == (\E e \in End : LocalChange(e)) \/ Receive

Spec == Init /\ [][Next]_vars

-----------------------------------------------------------------------------
(* Properties *)

TypeOK ==
  /\ map \in [End -> [Key -> Value \cup {None}]]
  /\ wire \in [End -> Seq(Message)]
  /\ next_version \in Nat
  /\ pendingForAck \in [Key -> Nat]
  /\ dangling \in SUBSET Key
  /\ changes \in Nat
  /\ entangled \in SUBSET Key /\ unpaired \in SUBSET Key

\* Whether a message about k is on its way to end e.
UnderWay(e, k) == \E i \in 1 .. Len(wire[e]) : wire[e][i].key = k

\* Once no message about a key is under way both ends have the same value, in
\* whatever order their changes crossed, as long as the master neither removed
\* the key nor changed it again before the acknowledgement.
EndsAgree ==
  \A k \in Key \ entangled :
    UnderWay("master", k) \/ UnderWay("slave", k) \/ map["master"][k] = map["slave"][k]

\* Under the same condition each acknowledgement finds the version it is for.
AcksArePaired == unpaired \subseteq entangled

\* The master waits for a key only while its message, or the answer, is under
\* way: it never locks the slave out of a key for good.
WaitsForAnswer ==
  \A k \in Key \ entangled : pendingForAck[k] # 0 =>
    \/ \E i \in 1 .. Len(wire["slave"]) :
         wire["slave"][i].key = k /\ wire["slave"][i].version = pendingForAck[k]
    \/ \E i \in 1 .. Len(wire["master"]) :
         LET m == wire["master"][i] IN
         m.op = "ACK" /\ m.key = k /\ m.version = pendingForAck[k]

=============================================================================
