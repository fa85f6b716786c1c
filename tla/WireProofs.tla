------------------------------ MODULE WireProofs ------------------------------
(***************************************************************************)
(* Theorems about Wire, for any number of messages and of breaks.          *)
(*                                                                         *)
(* The invariant comes in three layers.  BufferInv relates the queues, the *)
(* counters and the threads of the sender.  WindowInv adds what is under   *)
(* way: nothing beyond what left, no acknowledgement beyond what arrived;  *)
(* it carries the refinement.  OrderInv holds until a new package goes out *)
(* before the old ones are resent: each package under way follows one that *)
(* is known to the receiver or goes ahead of it, and the acknowledgements  *)
(* of a connection, read, under way and still to come, ascend.  FirstInv   *)
(* holds until the first connection breaks: the packages under way are     *)
(* numbered on from what was received, without a gap.                      *)
(***************************************************************************)
EXTENDS Wire, TLAPS

-----------------------------------------------------------------------------
(* The invariant *)

BufferInv ==
  /\ TypeOK /\ NothingForgotten
  /\ current_seqn >= 1
  /\ async = "sent" => queue # <<>>
  /\ link = "resending" => ~Processing
  /\ link \in {"down", "connected"} => interrupt_balance = 1
  /\ link = "resending" => interrupt_balance = 1 /\ resent <= Len(pending_queue)
  /\ link = "reading" => interrupt_balance = 0
  /\ link = "down" => ~up

WindowInv ==
  /\ BufferInv /\ NumbersAreKept
  /\ \A i \in 1 .. Len(packages) : packages[i].seqn \in 1 .. Sent /\ packages[i].over <= connection
  /\ \A i \in 1 .. Len(acks) : acks[i] <= highest
  /\ acknowledged_seqn <= highest /\ highest <= Sent
  /\ current_seqn <= acknowledged_seqn + 1

\* The receiver knows number n, or a package under way brings it there.
Reaches(n) == n <= highest \/ \E j \in 1 .. Len(packages) : n <= packages[j].seqn

\* No package goes further than one past what arrives before it.
Chained ==
  \A i \in 1 .. Len(packages) :
    \/ packages[i].seqn <= highest + 1
    \/ \E j \in 1 .. i - 1 : packages[i].seqn <= packages[j].seqn + 1

GapInv ==
  /\ accepted = 1 .. highest
  /\ max_received_seqn <= highest
  /\ Chained
  /\ link = "reading" /\ up => Reaches(Sent)
  /\ link = "resending" /\ up => Reaches(current_seqn + resent - 1)

\* The packages that will be answered.
Answered == IF up THEN {i \in 1 .. Len(packages) : packages[i].over = connection} ELSE {}

\* Everything answered on this connection is below n.
Below(n) ==
  /\ \A i \in 1 .. Len(acks) : acks[i] < n
  /\ \A i \in Answered : packages[i].seqn < n

AckInv ==
  /\ ~refused
  /\ \A i \in 1 .. Len(acks) : acks[i] > acknowledged_seqn
  /\ \A i, j \in 1 .. Len(acks) : i < j => acks[i] < acks[j]
  /\ \A j \in Answered :
       /\ packages[j].seqn > acknowledged_seqn
       /\ \A i \in 1 .. Len(acks) : acks[i] < packages[j].seqn
       /\ \A i \in Answered : i < j => packages[i].seqn < packages[j].seqn
  /\ link = "connected" => acks = <<>> /\ Answered = {}
  /\ link = "resending" => acknowledged_seqn < current_seqn
  /\ link = "resending" /\ up => Below(current_seqn + resent)

OrderInv == ~overtook => GapInv /\ AckInv

-----------------------------------------------------------------------------
(* Sequences of messages in the order they were put *)

LEMMA PutFromAppend ==
  ASSUME NEW s \in Seq(Nat), NEW n \in Nat, PutFrom(s, n), NEW m \in Nat, m = n + Len(s)
  PROVE  PutFrom(Append(s, m), n) /\ Append(s, m) \in Seq(Nat) /\ Len(Append(s, m)) = Len(s) + 1
BY DEF PutFrom

LEMMA PutFromTail ==
  ASSUME NEW s \in Seq(Nat), NEW n \in Nat, PutFrom(s, n), s # <<>>
  PROVE  /\ Head(s) = n /\ Tail(s) \in Seq(Nat)
         /\ Len(Tail(s)) = Len(s) - 1 /\ Len(s) >= 1
         /\ PutFrom(Tail(s), n + 1)
BY DEF PutFrom

LEMMA PutFromConcat ==
  ASSUME NEW s \in Seq(Nat), NEW t \in Seq(Nat), NEW n \in Nat,
         PutFrom(s, n), PutFrom(t, n + Len(s))
  PROVE  PutFrom(s \o t, n) /\ s \o t \in Seq(Nat) /\ Len(s \o t) = Len(s) + Len(t)
BY DEF PutFrom

LEMMA PutFromSubSeq ==
  ASSUME NEW s \in Seq(Nat), NEW n \in Nat, PutFrom(s, n), NEW k \in 0 .. Len(s)
  PROVE  /\ SubSeq(s, k + 1, Len(s)) \in Seq(Nat)
         /\ Len(SubSeq(s, k + 1, Len(s))) = Len(s) - k
         /\ PutFrom(SubSeq(s, k + 1, Len(s)), n + k)
BY DEF PutFrom

\* What is kept of a sequence when the connection breaks.
LEMMA Kept ==
  ASSUME NEW S, NEW s \in Seq(S), NEW k \in 0 .. Len(s)
  PROVE  /\ SubSeq(s, 1, k) \in Seq(S)
         /\ Len(SubSeq(s, 1, k)) = k
         /\ \A i \in 1 .. k : SubSeq(s, 1, k)[i] = s[i]
OBVIOUS

\* What is left when the first is taken.
LEMMA Rest ==
  ASSUME NEW S, NEW s \in Seq(S), s # <<>>
  PROVE  /\ Head(s) \in S /\ Head(s) = s[1] /\ Len(s) \in Nat /\ Len(s) >= 1
         /\ Tail(s) \in Seq(S) /\ Len(Tail(s)) = Len(s) - 1
         /\ \A i \in 1 .. Len(s) - 1 : Tail(s)[i] = s[i + 1]
OBVIOUS

LEMMA Appended ==
  ASSUME NEW S, NEW s \in Seq(S), NEW e \in S
  PROVE  /\ Append(s, e) \in Seq(S) /\ Len(Append(s, e)) = Len(s) + 1 /\ Len(s) \in Nat
         /\ Append(s, e)[Len(s) + 1] = e
         /\ \A i \in 1 .. Len(s) : Append(s, e)[i] = s[i]
OBVIOUS

-----------------------------------------------------------------------------
(* BufferInv *)

LEMMA BufferInit == Init => BufferInv
<1>. SUFFICES ASSUME Init PROVE BufferInv
  OBVIOUS
<1>0. <<>> \in Seq(Nat) /\ <<>> \in Seq(Package)
  OBVIOUS
<1>1. TypeOK
  BY <1>0 DEF Init, TypeOK
<1>2. NothingForgotten
  BY DEF Init, NothingForgotten, PutFrom
<1>. QED
  BY <1>1, <1>2 DEF Init, BufferInv, Processing

LEMMA TransmitType ==
  ASSUME TypeOK, NEW seqn \in Nat, NEW message \in Nat, NEW success \in BOOLEAN,
         Transmit(seqn, message, success)
  PROVE  packages' \in Seq(Package)
<1>1. [seqn |-> seqn, message |-> message, over |-> connection] \in Package
  BY DEF TypeOK, Package
<1>2. packages \in Seq(Package)
  BY DEF TypeOK
<1>. QED
  BY <1>1, <1>2, Appended DEF Transmit

\* Each action keeps the accounts of the sender.
LEMMA BufferStep == WindowInv /\ [Next]_vars => BufferInv'
<1>. SUFFICES ASSUME WindowInv, [Next]_vars PROVE BufferInv'
  OBVIOUS
<1>. BufferInv
  BY DEF WindowInv
<1>. USE DEF bufferVars, threadVars, networkVars, receiverVars
<1>1. CASE Put
  <2>1. PutFrom(data', max_sent_seqn + Len(queue) + 1) /\ data' \in Seq(Nat) /\ Len(data') = Len(data) + 1
    BY <1>1, PutFromAppend DEF Put, BufferInv, TypeOK, NothingForgotten
  <2>. QED
    BY <1>1, <2>1 DEF Put, BufferInv, TypeOK, NothingForgotten, PutFrom, Processing
<1>2. CASE Stop
  BY <1>2 DEF Stop, BufferInv, TypeOK, NothingForgotten, PutFrom, Processing
<1>3. CASE Terminate
  BY <1>3 DEF Terminate, BufferInv, TypeOK, NothingForgotten, PutFrom, Processing
<1>4. CASE Grab
  <2>1. /\ PutFrom(queue', max_sent_seqn + 1) /\ queue' \in Seq(Nat)
        /\ Len(queue') = Len(queue) + Len(data)
    BY <1>4, PutFromConcat DEF Grab, BufferInv, TypeOK, NothingForgotten
  <2>. QED
    BY <1>4, <2>1 DEF Grab, BufferInv, TypeOK, NothingForgotten, PutFrom, Processing, Locked
<1>5. CASE SendNext
  <2>1. PICK success \in BOOLEAN :
          /\ Transmit(max_sent_seqn + 1, Head(queue), success)
          /\ async' = IF success THEN "sent" ELSE "waiting"
          /\ overtook' = (overtook \/ (success /\ up /\ link = "connected"))
    BY <1>5 DEF SendNext
  <2>2. packages' \in Seq(Package)
    BY <1>5, <2>1, TransmitType DEF SendNext, BufferInv, TypeOK
  <2>. QED
    BY <1>5, <2>1, <2>2 DEF SendNext, BufferInv, TypeOK, NothingForgotten, PutFrom, Processing, Locked
<1>6. CASE RecordSent
  <2>1. Head(queue) = max_sent_seqn + 1 /\ queue' \in Seq(Nat) /\ Len(queue') = Len(queue) - 1
        /\ PutFrom(queue', max_sent_seqn + 2)
    BY <1>6, PutFromTail DEF RecordSent, BufferInv, TypeOK, NothingForgotten
  <2>2. /\ pending_queue' \in Seq(Nat) /\ Len(pending_queue') = Len(pending_queue) + 1
        /\ PutFrom(pending_queue', current_seqn)
    <3>1. /\ pending_queue \in Seq(Nat) /\ current_seqn \in Nat /\ PutFrom(pending_queue, current_seqn)
          /\ Head(queue) \in Nat /\ Head(queue) = current_seqn + Len(pending_queue)
      BY <2>1 DEF BufferInv, TypeOK, NothingForgotten
    <3>. QED
      BY <1>6, <3>1, PutFromAppend DEF RecordSent
  <2>3. TypeOK'
    BY <1>6, <2>1, <2>2 DEF RecordSent, BufferInv, TypeOK
  <2>4. PutFrom(data', max_sent_seqn' + Len(queue') + 1)
    BY <1>6, <2>1 DEF RecordSent, BufferInv, TypeOK, NothingForgotten, PutFrom
  <2>. QED
    BY <1>6, <2>1, <2>2, <2>3, <2>4 DEF RecordSent, BufferInv, TypeOK, NothingForgotten, Processing
<1>7. CASE EndProcess
  BY <1>7 DEF EndProcess, BufferInv, TypeOK, NothingForgotten, PutFrom, Processing
<1>8. CASE Exit
  BY <1>8 DEF Exit, BufferInv, TypeOK, NothingForgotten, PutFrom, Processing
<1>9. CASE Connect
  BY <1>9 DEF Connect, BufferInv, TypeOK, NothingForgotten, PutFrom, Processing
<1>10. CASE Reprocess
  <2>1. Acknowledged \in 0 .. Len(pending_queue)
    BY <1>10 DEF Reprocess, Acknowledged, WindowInv, BufferInv, TypeOK, NothingForgotten, Sent, Processing
  <2>2. /\ pending_queue' \in Seq(Nat) /\ Len(pending_queue') = Len(pending_queue) - Acknowledged
        /\ PutFrom(pending_queue', current_seqn + Acknowledged)
    BY <1>10, <2>1, PutFromSubSeq DEF Reprocess, BufferInv, TypeOK, NothingForgotten
  <2>. QED
    BY <1>10, <2>1, <2>2 DEF Reprocess, BufferInv, TypeOK, NothingForgotten, PutFrom, Processing
<1>11. CASE Resend
  <2>1. PICK success \in BOOLEAN :
          /\ Transmit(current_seqn + resent, pending_queue[resent + 1], success)
          /\ resent' = IF success THEN resent + 1 ELSE Len(pending_queue)
    BY <1>11 DEF Resend
  <2>2. packages' \in Seq(Package)
    BY <1>11, <2>1, TransmitType DEF Resend, BufferInv, TypeOK
  <2>. QED
    BY <1>11, <2>1, <2>2 DEF Resend, BufferInv, TypeOK, NothingForgotten, PutFrom, Processing
<1>12. CASE EndResume
  BY <1>12 DEF EndResume, BufferInv, TypeOK, NothingForgotten, PutFrom, Processing
<1>13. CASE Acknowledge
  <2>1. Head(acks) \in Nat /\ acks' \in Seq(Nat)
    BY <1>13, Rest DEF Acknowledge, BufferInv, TypeOK
  <2>2. acknowledged_seqn' \in Nat /\ refused' \in BOOLEAN
    BY <1>13, <2>1 DEF Acknowledge, BufferInv, TypeOK
  <2>3. TypeOK'
    BY <1>13, <2>1, <2>2 DEF Acknowledge, BufferInv, TypeOK
  <2>. QED
    BY <1>13, <2>3 DEF Acknowledge, BufferInv, NothingForgotten, PutFrom, Processing
<1>14. CASE Pause
  BY <1>14 DEF Pause, BufferInv, TypeOK, NothingForgotten, PutFrom, Processing
<1>15. CASE Break
  <2>1. packages' \in Seq(Package) /\ acks' \in Seq(Nat)
    BY <1>15, Kept DEF Break, BufferInv, TypeOK
  <2>2. TypeOK'
    BY <1>15, <2>1 DEF Break, BufferInv, TypeOK
  <2>. QED
    BY <1>15, <2>2 DEF Break, BufferInv, NothingForgotten, PutFrom, Processing
<1>16. CASE Receive
  <2>0. Head(packages) \in Package /\ packages' \in Seq(Package)
    BY <1>16, Rest DEF Receive, BufferInv, TypeOK
  <2>1. /\ Head(packages) \in Package /\ packages' \in Seq(Package)
        /\ Head(packages).seqn \in Nat /\ Head(packages).message \in Nat
    BY <2>0 DEF Package
  <2>2. acks' \in Seq(Nat)
    BY <1>16, <2>1, Appended DEF Receive, Answer, BufferInv, TypeOK
  <2>3. /\ max_received_seqn' \in Nat /\ highest' \in Nat
        /\ delivered' \in Seq(Nat) /\ accepted' \in SUBSET Nat
    BY <1>16, <2>1, Appended DEF Receive, Take, BufferInv, TypeOK
  <2>4. garbled' \in BOOLEAN
    BY <1>16 DEF Receive, Take, IsDuplicate, BufferInv, TypeOK
  <2>5. TypeOK'
    BY <1>16, <2>1, <2>2, <2>3, <2>4 DEF Receive, BufferInv, TypeOK
  <2>. QED
    BY <1>16, <2>5 DEF Receive, BufferInv, NothingForgotten, PutFrom, Processing
<1>17. CASE UNCHANGED vars
  BY <1>17 DEF vars, BufferInv, TypeOK, NothingForgotten, PutFrom, Processing
<1>. QED
  BY <1>1, <1>2, <1>3, <1>4, <1>5, <1>6, <1>7, <1>8, <1>9, <1>10, <1>11, <1>12, <1>13, <1>14,
     <1>15, <1>16, <1>17 DEF Next, AsyncThread, SocketThread

-----------------------------------------------------------------------------
(* WindowInv *)

\* What a package that goes out adds to the network.
LEMMA Transmitted ==
  ASSUME TypeOK, NEW seqn \in Nat, NEW message \in Nat, NEW success \in BOOLEAN,
         Transmit(seqn, message, success)
  PROVE  \/ ~up /\ packages' = packages
         \/ /\ up /\ success
            /\ Len(packages') = Len(packages) + 1
            /\ packages'[Len(packages) + 1].seqn = seqn
            /\ packages'[Len(packages) + 1].message = message
            /\ packages'[Len(packages) + 1].over = connection
            /\ \A i \in 1 .. Len(packages) : packages'[i] = packages[i]
<1>1. [seqn |-> seqn, message |-> message, over |-> connection] \in Package
  BY DEF TypeOK, Package
<1>2. packages \in Seq(Package)
  BY DEF TypeOK
<1>3. CASE up /\ success /\ packages' = Append(packages, [seqn |-> seqn, message |-> message, over |-> connection])
  BY <1>1, <1>2, <1>3, Appended
<1>. QED
  BY <1>3 DEF Transmit

LEMMA NetworkTypes ==
  TypeOK => /\ packages \in Seq(Package) /\ Len(packages) \in Nat
            /\ \A i \in 1 .. Len(packages) :
                 packages[i].seqn \in Nat /\ packages[i].message \in Nat /\ packages[i].over \in Nat
            /\ acks \in Seq(Nat) /\ Len(acks) \in Nat
            /\ \A i \in 1 .. Len(acks) : acks[i] \in Nat
            /\ highest \in Nat /\ acknowledged_seqn \in Nat /\ max_sent_seqn \in Nat
            /\ current_seqn \in Nat /\ connection \in Nat /\ Sent \in Nat
<1>. SUFFICES ASSUME TypeOK
              PROVE  /\ \A i \in 1 .. Len(packages) :
                          packages[i].seqn \in Nat /\ packages[i].message \in Nat /\ packages[i].over \in Nat
                     /\ Len(packages) \in Nat
  BY DEF TypeOK, Sent
<1>1. packages \in Seq(Package)
  BY DEF TypeOK
<1>2. \A i \in 1 .. Len(packages) : packages[i] \in Package
  BY <1>1
<1>. QED
  BY <1>1, <1>2 DEF Package

LEMMA StillBelow ==
  ASSUME NEW a \in Nat, NEW b \in Nat, NEW c \in Nat, c <= a + 1, a <= b
  PROVE  c <= b + 1
OBVIOUS

LEMMA WindowInit == Init => WindowInv
<1>. SUFFICES ASSUME Init PROVE WindowInv
  OBVIOUS
<1>. QED
  BY BufferInit DEF Init, WindowInv, NumbersAreKept, Sent

\* The package sent next, or resent next, has the number of its message.
LEMMA NumberOfNext ==
  ASSUME WindowInv
  PROVE  /\ SendNext => Head(queue) = max_sent_seqn + 1 /\ Sent = max_sent_seqn
         /\ Resend => /\ pending_queue[resent + 1] = current_seqn + resent
                      /\ current_seqn + resent \in 1 .. Sent
<1>1. ASSUME SendNext PROVE Head(queue) = max_sent_seqn + 1 /\ Sent = max_sent_seqn
  BY <1>1, PutFromTail DEF SendNext, WindowInv, BufferInv, TypeOK, NothingForgotten, Sent
<1>2. ASSUME Resend
      PROVE  /\ pending_queue[resent + 1] = current_seqn + resent
             /\ current_seqn + resent \in 1 .. Sent
  BY <1>2 DEF Resend, WindowInv, BufferInv, TypeOK, NothingForgotten, PutFrom, Sent
<1>. QED
  BY <1>1, <1>2

LEMMA WindowStep == WindowInv /\ [Next]_vars => WindowInv'
<1>. SUFFICES ASSUME WindowInv, [Next]_vars PROVE WindowInv'
  OBVIOUS
<1>. USE DEF bufferVars, threadVars, networkVars, receiverVars
<1>0. BufferInv' /\ BufferInv /\ TypeOK /\ TypeOK'
  BY BufferStep DEF WindowInv, BufferInv
<1>t. /\ Len(packages) \in Nat /\ Len(acks) \in Nat
      /\ \A i \in 1 .. Len(packages) : packages[i].seqn \in Nat /\ packages[i].over \in Nat
      /\ \A i \in 1 .. Len(acks) : acks[i] \in Nat
      /\ highest \in Nat /\ acknowledged_seqn \in Nat /\ connection \in Nat /\ Sent \in Nat
  BY <1>0, NetworkTypes
<1>w. /\ \A i \in 1 .. Len(packages) :
           /\ packages[i].seqn = packages[i].message
           /\ packages[i].seqn \in 1 .. Sent /\ packages[i].over <= connection
      /\ \A i \in 1 .. Len(acks) : acks[i] <= highest
      /\ acknowledged_seqn <= highest /\ highest <= Sent
  BY DEF WindowInv, NumbersAreKept
<1>a. CASE UNCHANGED <<packages, acks, connection, max_sent_seqn, async, highest, acknowledged_seqn, current_seqn>>
  BY <1>0, <1>a DEF WindowInv, NumbersAreKept, Sent
<1>4. CASE Grab
  BY <1>0, <1>4 DEF Grab, WindowInv, NumbersAreKept, Sent
<1>5. CASE SendNext
  <2>1. PICK success \in BOOLEAN :
          /\ Transmit(max_sent_seqn + 1, Head(queue), success)
          /\ async' = IF success THEN "sent" ELSE "waiting"
    BY <1>5 DEF SendNext
  <2>2. Head(queue) = max_sent_seqn + 1 /\ Sent = max_sent_seqn /\ Sent \in Nat
    BY <1>0, <1>5, NumberOfNext DEF TypeOK
  <2>3. Sent' = IF success THEN Sent + 1 ELSE Sent
    BY <1>5, <2>1, <2>2 DEF SendNext, Sent
  <2>4. \/ packages' = packages
        \/ /\ success /\ Len(packages') = Len(packages) + 1
           /\ packages'[Len(packages) + 1].seqn = Sent + 1
           /\ packages'[Len(packages) + 1].message = Sent + 1
           /\ packages'[Len(packages) + 1].over = connection
           /\ \A i \in 1 .. Len(packages) : packages'[i] = packages[i]
    BY <1>0, <2>1, <2>2, Transmitted
  <2>5. \A i \in 1 .. Len(packages') :
          /\ packages'[i].seqn = packages'[i].message
          /\ packages'[i].seqn \in 1 .. Sent' /\ packages'[i].over <= connection
    <3>1. CASE packages' = packages
      <4>1. \A n \in 1 .. Sent : n \in 1 .. Sent'
        BY <1>t, <2>3
      <4>. QED
        BY <1>w, <3>1, <4>1
    <3>2. CASE packages' # packages
      <4>. SUFFICES ASSUME NEW i \in 1 .. Len(packages) + 1
                    PROVE  /\ packages'[i].seqn = packages'[i].message
                           /\ packages'[i].seqn \in 1 .. Sent + 1 /\ packages'[i].over <= connection
        BY <2>3, <2>4, <3>2
      <4>1. CASE i = Len(packages) + 1
        BY <1>t, <2>4, <3>2, <4>1
      <4>2. CASE i \in 1 .. Len(packages)
        BY <1>t, <1>w, <2>4, <3>2, <4>2
      <4>. QED
        BY <1>t, <4>1, <4>2
    <3>. QED
      BY <3>1, <3>2
  <2>. QED
    BY <1>0, <1>5, <2>2, <2>3, <2>5 DEF SendNext, WindowInv, NumbersAreKept, TypeOK
<1>6. CASE RecordSent
  <2>1. Sent' = Sent
    BY <1>0, <1>6 DEF RecordSent, Sent
  <2>. QED
    BY <1>0, <1>6, <2>1 DEF RecordSent, WindowInv, NumbersAreKept
<1>7. CASE EndProcess
  BY <1>0, <1>7 DEF EndProcess, WindowInv, NumbersAreKept, Sent
<1>8. CASE Exit
  BY <1>0, <1>8 DEF Exit, WindowInv, NumbersAreKept, Sent
<1>9. CASE Connect
  <2>1. \A i \in 1 .. Len(packages) : packages[i].over <= connection + 1
    BY <1>t, <1>w
  <2>. QED
    BY <1>0, <1>9, <2>1 DEF Connect, WindowInv, NumbersAreKept, Sent
<1>10. CASE Reprocess
  <2>1. current_seqn' <= acknowledged_seqn + 1
    BY <1>0, <1>10 DEF Reprocess, WindowInv, Acknowledged, TypeOK
  <2>. QED
    BY <1>0, <1>10, <2>1 DEF Reprocess, WindowInv, NumbersAreKept, Sent
<1>11. CASE Resend
  <2>1. PICK success \in BOOLEAN : Transmit(current_seqn + resent, pending_queue[resent + 1], success)
    BY <1>11 DEF Resend
  <2>2. pending_queue[resent + 1] = current_seqn + resent /\ current_seqn + resent \in 1 .. Sent
    BY <1>11, NumberOfNext
  <2>3. current_seqn + resent \in Nat
    BY <1>0 DEF TypeOK
  <2>4. \/ packages' = packages
        \/ /\ Len(packages') = Len(packages) + 1
           /\ packages'[Len(packages) + 1].seqn = current_seqn + resent
           /\ packages'[Len(packages) + 1].message = current_seqn + resent
           /\ packages'[Len(packages) + 1].over = connection
           /\ \A i \in 1 .. Len(packages) : packages'[i] = packages[i]
    BY <1>0, <2>1, <2>2, <2>3, Transmitted
  <2>5. \A i \in 1 .. Len(packages') :
          /\ packages'[i].seqn = packages'[i].message
          /\ packages'[i].seqn \in 1 .. Sent /\ packages'[i].over <= connection
    BY <1>t, <1>w, <2>2, <2>4
  <2>6. Sent' = Sent
    BY <1>11 DEF Resend, Sent
  <2>. QED
    BY <1>0, <1>11, <2>5, <2>6 DEF Resend, WindowInv, NumbersAreKept
<1>13. CASE Acknowledge
  <2>1. /\ Head(acks) = acks[1] /\ Len(acks) >= 1 /\ Len(acks') = Len(acks) - 1
        /\ \A i \in 1 .. Len(acks) - 1 : acks'[i] = acks[i + 1]
        /\ Head(acks) \in Nat
    BY <1>0, <1>13, Rest DEF Acknowledge, TypeOK
  <2>2. Head(acks) <= highest /\ \A i \in 1 .. Len(acks') : acks'[i] <= highest
    <3>1. 1 \in 1 .. Len(acks) /\ \A i \in 1 .. Len(acks') : i + 1 \in 1 .. Len(acks) /\ acks'[i] = acks[i + 1]
      BY <1>t, <2>1
    <3>. QED
      BY <1>w, <2>1, <3>1
  <2>3. acknowledged_seqn' <= highest /\ acknowledged_seqn' >= acknowledged_seqn
    BY <1>0, <1>13, <2>1, <2>2 DEF Acknowledge, WindowInv, TypeOK
  <2>. QED
    <3>1. current_seqn <= acknowledged_seqn' + 1
      <4>1. /\ current_seqn' = current_seqn /\ current_seqn \in Nat /\ acknowledged_seqn' \in Nat
            /\ current_seqn <= acknowledged_seqn + 1 /\ acknowledged_seqn \in Nat
        BY <1>0, <1>13, NetworkTypes DEF Acknowledge, WindowInv, TypeOK
      <4>. QED
        <5>1. acknowledged_seqn <= acknowledged_seqn'
          BY <2>3, <4>1
        <5>2. current_seqn <= acknowledged_seqn' + 1
          BY <4>1, <5>1, StillBelow
        <5>. QED
          BY <4>1, <5>2
    <3>. QED
      BY <1>0, <1>13, <2>2, <2>3, <3>1 DEF Acknowledge, WindowInv, NumbersAreKept, Sent
<1>15. CASE Break
  <2>1. PICK k \in 0 .. Len(packages), m \in 0 .. Len(acks) :
          packages' = SubSeq(packages, 1, k) /\ acks' = SubSeq(acks, 1, m)
    BY <1>15 DEF Break
  <2>2. /\ Len(packages') = k /\ \A i \in 1 .. k : packages'[i] = packages[i]
        /\ Len(acks') = m /\ \A i \in 1 .. m : acks'[i] = acks[i]
    BY <1>0, <2>1, Kept DEF TypeOK
  <2>3. \A i \in 1 .. Len(packages') : i \in 1 .. Len(packages) /\ packages'[i] = packages[i]
    BY <1>t, <2>2
  <2>4. \A i \in 1 .. Len(acks') : i \in 1 .. Len(acks) /\ acks'[i] = acks[i]
    BY <1>t, <2>2
  <2>. QED
    BY <1>0, <1>15, <2>3, <2>4 DEF Break, WindowInv, NumbersAreKept, Sent
<1>16. CASE Receive
  <2>1. /\ Head(packages) = packages[1] /\ Len(packages) >= 1 /\ Len(packages') = Len(packages) - 1
        /\ \A i \in 1 .. Len(packages) - 1 : packages'[i] = packages[i + 1]
    BY <1>0, <1>16, Rest DEF Receive, TypeOK
  <2>2. Head(packages).seqn \in 1 .. Sent
    BY <1>t, <1>w, <2>1
  <2>3. /\ highest' = IF Head(packages).seqn > highest THEN Head(packages).seqn ELSE highest
        /\ Sent' = Sent /\ Sent \in Nat
    BY <1>0, <1>16 DEF Receive, Take, Sent, TypeOK
  <2>4. Head(packages).seqn <= highest' /\ highest <= highest' /\ highest' <= Sent
    BY <1>t, <1>w, <2>2, <2>3
  <2>5. \A i \in 1 .. Len(acks') : acks'[i] <= highest'
    <3>1. acks' = acks \/ acks' = Append(acks, Head(packages).seqn)
      BY <1>16 DEF Receive, Answer
    <3>. QED
      <4>1. CASE acks' = acks
        <5>1. highest' \in Nat
          BY <1>0 DEF TypeOK
        <5>. QED
          BY <1>t, <1>w, <2>4, <4>1, <5>1
      <4>2. CASE acks' = Append(acks, Head(packages).seqn)
        <5>1. acks \in Seq(Nat) /\ Head(packages).seqn \in Nat
          BY <1>0, <1>t, <2>2, NetworkTypes
        <5>2. /\ Len(acks') = Len(acks) + 1 /\ acks'[Len(acks) + 1] = Head(packages).seqn
              /\ \A i \in 1 .. Len(acks) : acks'[i] = acks[i]
          BY <4>2, <5>1, Appended
        <5>. QED
          BY <1>t, <1>w, <2>2, <2>3, <2>4, <5>2
      <4>. QED
        BY <3>1, <4>1, <4>2
  <2>6. \A i \in 1 .. Len(packages') : i + 1 \in 1 .. Len(packages) /\ packages'[i] = packages[i + 1]
    BY <1>t, <2>1
  <2>. QED
    BY <1>0, <1>16, <2>3, <2>4, <2>5, <2>6 DEF Receive, WindowInv, NumbersAreKept, TypeOK
<1>. QED
  BY <1>a, <1>4, <1>5, <1>6, <1>7, <1>8, <1>9, <1>10, <1>11, <1>13, <1>15, <1>16
  DEF Next, AsyncThread, SocketThread, Put, Stop, Terminate, EndResume, Pause, vars

LEMMA WindowInvariant == Spec => []WindowInv
BY WindowInit, WindowStep, PTL DEF Spec

\* Every variable keeps its type; in particular interrupt_balance is 0 or 1:
\* the pauses and resumes of the socket thread alternate.
THEOREM TypeCorrect == Spec => []TypeOK
<1>1. WindowInv => TypeOK
  BY DEF WindowInv, BufferInv
<1>. QED
  BY WindowInvariant, <1>1, PTL

\* The queues hold all that was put and is not acknowledged, in order, through
\* every interleaving of put, the async thread and the socket thread.
THEOREM NothingIsForgotten == Spec => []NothingForgotten
<1>1. WindowInv => NothingForgotten
  BY DEF WindowInv, BufferInv
<1>. QED
  BY WindowInvariant, <1>1, PTL

\* A message goes out under its own number, the first time and every later one.
THEOREM NumbersStay == Spec => []NumbersAreKept
<1>1. WindowInv => NumbersAreKept
  BY DEF WindowInv
<1>. QED
  BY WindowInvariant, <1>1, PTL

-----------------------------------------------------------------------------
(* The refinement of Window *)

LEMMA WindowStarts == Init => W!Init
BY DEF Init, W!Init, Sent

LEMMA WindowMoves == WindowInv /\ WindowInv' /\ [Next]_vars => [W!Next]_W!window
<1>. SUFFICES ASSUME WindowInv, WindowInv', [Next]_vars PROVE [W!Next]_W!window
  OBVIOUS
<1>. USE DEF bufferVars, threadVars, networkVars, receiverVars, W!window
<1>0. TypeOK /\ TypeOK'
  BY DEF WindowInv, BufferInv
<1>t. highest \in Nat /\ acknowledged_seqn \in Nat /\ Sent \in Nat /\ puts \in Nat
  BY <1>0, NetworkTypes DEF TypeOK
<1>1. CASE Put
  BY <1>1 DEF Put, Sent, W!Next, W!Put
<1>2. CASE SendNext
  <2>1. Sent = max_sent_seqn /\ queue # <<>>
    BY <1>2, NumberOfNext DEF SendNext
  <2>2. Len(queue) \in Nat /\ Len(queue) >= 1 /\ Len(data) \in Nat
    <3>1. queue \in Seq(Nat) /\ data \in Seq(Nat)
      BY <1>0 DEF TypeOK
    <3>2. Len(queue) \in Nat /\ Len(queue) >= 1
      BY <2>1, <3>1, Rest
    <3>. QED
      BY <3>1, <3>2
  <2>3. Sent < puts
    BY <1>t, <2>1, <2>2 DEF WindowInv, BufferInv, NothingForgotten
  <2>4. Sent' = Sent \/ Sent' = Sent + 1
    BY <1>2, <2>1 DEF SendNext, Sent
  <2>. QED
    BY <1>2, <2>3, <2>4 DEF SendNext, W!Next, W!Send
<1>3. CASE Receive
  <2>1. highest <= highest' /\ highest' <= Sent /\ highest' \in Nat
    BY <1>0, <1>3 DEF Receive, Take, WindowInv, Sent, TypeOK
  <2>2. UNCHANGED <<puts, acknowledged_seqn, Sent>>
    BY <1>3 DEF Receive, Sent
  <2>3. highest' = highest \/ highest' \in (highest + 1) .. Sent
    BY <1>t, <2>1
  <2>. QED
    BY <2>2, <2>3 DEF W!Next, W!Receive
<1>4. CASE Acknowledge
  <2>1. /\ acknowledged_seqn' = acknowledged_seqn
           \/ acknowledged_seqn' > acknowledged_seqn
        /\ acknowledged_seqn' <= highest /\ acknowledged_seqn' \in Nat
    BY <1>0, <1>4 DEF Acknowledge, WindowInv, TypeOK
  <2>2. UNCHANGED <<puts, highest, Sent>>
    BY <1>4 DEF Acknowledge, Sent
  <2>3. acknowledged_seqn' = acknowledged_seqn \/ acknowledged_seqn' \in (acknowledged_seqn + 1) .. highest
    BY <1>t, <2>1
  <2>. QED
    BY <2>2, <2>3 DEF W!Next, W!Confirm
<1>5. CASE RecordSent
  BY <1>5 DEF RecordSent, Sent
<1>6. CASE Grab \/ EndProcess \/ Exit
  BY <1>6 DEF Grab, EndProcess, Exit, Sent
<1>7. CASE Connect \/ Reprocess \/ Resend \/ EndResume \/ Pause
  BY <1>7 DEF Connect, Reprocess, Resend, EndResume, Pause, Sent
<1>8. CASE Stop \/ Terminate \/ Break \/ UNCHANGED vars
  BY <1>8 DEF Stop, Terminate, Break, vars, Sent
<1>. QED
  BY <1>1, <1>2, <1>3, <1>4, <1>5, <1>6, <1>7, <1>8 DEF Next, AsyncThread, SocketThread

\* The wire implements Window: over any number of connections nothing is taken
\* for received that was not sent, nor for confirmed that was not received.
THEOREM KeepsThePromise == Spec => Promise
<1>1. Spec => Init /\ [][Next]_vars
  BY DEF Spec
<1>. QED
  BY <1>1, WindowInvariant, WindowStarts, WindowMoves, PTL DEF Promise, W!Spec

-----------------------------------------------------------------------------
(* OrderInv *)

LEMMA OrderInit == Init => OrderInv
<1>. SUFFICES ASSUME Init PROVE GapInv /\ AckInv
  BY DEF OrderInv
<1>1. Len(packages) = 0 /\ Len(acks) = 0
  BY DEF Init
<1>. QED
  BY <1>1 DEF Init, GapInv, AckInv, Chained, Answered

\* A package with the number after one that is reached keeps the chain.
LEMMA ChainGrows ==
  ASSUME Len(packages) \in Nat, highest \in Nat,
         \A i \in 1 .. Len(packages) : packages[i].seqn \in Nat,
         Chained, NEW n \in Nat, Reaches(n - 1), highest' = highest,
         Len(packages') = Len(packages) + 1,
         packages'[Len(packages) + 1].seqn = n,
         \A i \in 1 .. Len(packages) : packages'[i] = packages[i]
  PROVE  Chained'
<1>. SUFFICES ASSUME NEW i \in 1 .. Len(packages) + 1
              PROVE  \/ packages'[i].seqn <= highest + 1
                     \/ \E j \in 1 .. i - 1 : packages'[i].seqn <= packages'[j].seqn + 1
  BY DEF Chained
<1>1. CASE i = Len(packages) + 1
  <2>1. CASE n - 1 <= highest
    BY <1>1, <2>1
  <2>2. ASSUME NEW j \in 1 .. Len(packages), n - 1 <= packages[j].seqn
        PROVE  \E m \in 1 .. i - 1 : packages'[i].seqn <= packages'[m].seqn + 1
    <3>1. j \in 1 .. i - 1 /\ packages'[j].seqn = packages[j].seqn /\ packages'[i].seqn = n
      BY <1>1
    <3>2. n <= packages[j].seqn + 1
      BY <2>2
    <3>. QED
      BY <3>1, <3>2
  <2>. QED
    BY <2>1, <2>2 DEF Reaches
<1>2. CASE i # Len(packages) + 1
  <2>1. i \in 1 .. Len(packages)
    BY <1>2
  <2>2. \A j \in 1 .. i - 1 : j \in 1 .. Len(packages)
    BY <2>1
  <2>. QED
    BY <2>1, <2>2 DEF Chained
<1>. QED
  BY <1>1, <1>2

LEMMA GapStep ==
  ASSUME WindowInv, WindowInv', GapInv, [Next]_vars, ~overtook'
  PROVE  GapInv'
<1>. USE DEF bufferVars, threadVars, networkVars, receiverVars
<1>0. TypeOK /\ TypeOK' /\ BufferInv
  BY DEF WindowInv, BufferInv
<1>t. /\ Len(packages) \in Nat /\ highest \in Nat /\ Sent \in Nat /\ current_seqn \in Nat
      /\ \A i \in 1 .. Len(packages) : packages[i].seqn \in Nat
      /\ resent \in Nat
  BY <1>0, NetworkTypes DEF TypeOK
<1>1. CASE UNCHANGED <<packages, highest, accepted, max_received_seqn, link, up, max_sent_seqn, async, current_seqn, resent>>
  BY <1>1 DEF GapInv, Chained, Reaches, Sent
<1>2. CASE Grab \/ EndProcess \/ Exit \/ RecordSent
  <2>1. UNCHANGED <<packages, highest, accepted, max_received_seqn, link, up, current_seqn, resent>>
    BY <1>2 DEF Grab, EndProcess, Exit, RecordSent
  <2>2. Sent' = Sent
    BY <1>2 DEF Grab, EndProcess, Exit, RecordSent, Sent
  <2>. QED
    BY <2>1, <2>2 DEF GapInv, Chained, Reaches
<1>3. CASE Connect \/ Pause
  BY <1>3 DEF Connect, Pause, GapInv, Chained, Reaches
<1>4. CASE Reprocess
  <2>1. current_seqn' + 0 - 1 <= highest
    BY <1>0, <1>4 DEF Reprocess, WindowInv, TypeOK
  <2>. QED
    BY <1>4, <2>1 DEF Reprocess, GapInv, Chained, Reaches
<1>5. CASE EndResume
  <2>1. current_seqn + resent - 1 = Sent /\ Sent' = Sent
    BY <1>0, <1>5 DEF EndResume, BufferInv, TypeOK, NothingForgotten, Processing, Sent
  <2>. QED
    BY <1>5, <2>1 DEF EndResume, GapInv, Chained, Reaches
<1>6. CASE SendNext
  <2>1. PICK success \in BOOLEAN :
          /\ Transmit(max_sent_seqn + 1, Head(queue), success)
          /\ async' = IF success THEN "sent" ELSE "waiting"
          /\ overtook' = (overtook \/ (success /\ up /\ link = "connected"))
    BY <1>6 DEF SendNext
  <2>2. Head(queue) = Sent + 1 /\ Sent = max_sent_seqn
    BY <1>6, NumberOfNext
  <2>3. UNCHANGED <<highest, accepted, max_received_seqn, link, up>> /\ link # "resending"
    BY <1>6 DEF SendNext, Locked
  <2>4. CASE ~up /\ packages' = packages
    BY <2>3, <2>4 DEF GapInv, Chained, Reaches
  <2>5. CASE /\ up /\ success
             /\ Len(packages') = Len(packages) + 1
             /\ packages'[Len(packages) + 1].seqn = Sent + 1
             /\ \A i \in 1 .. Len(packages) : packages'[i] = packages[i]
    <3>1. link = "reading"
      BY <1>0, <2>1, <2>3, <2>5 DEF BufferInv, TypeOK
    <3>2. Reaches(Sent)
      BY <2>5, <3>1 DEF GapInv
    <3>3. Sent' = Sent + 1
      BY <1>6, <2>1, <2>2, <2>5 DEF SendNext, Sent
    <3>4. Chained'
      <4>1. Chained /\ Sent + 1 \in Nat /\ Reaches(Sent + 1 - 1)
        BY <1>t, <3>2 DEF GapInv
      <4>. QED
        BY <1>t, <2>3, <2>5, <4>1, ChainGrows
    <3>5. Reaches(Sent)'
      BY <1>t, <2>5, <3>3 DEF Reaches
    <3>. QED
      BY <2>3, <3>4, <3>5 DEF GapInv
  <2>. QED
    BY <1>0, <1>t, <2>1, <2>2, <2>4, <2>5, Transmitted
<1>7. CASE Resend
  <2>1. PICK success \in BOOLEAN :
          /\ Transmit(current_seqn + resent, pending_queue[resent + 1], success)
          /\ resent' = IF success THEN resent + 1 ELSE Len(pending_queue)
    BY <1>7 DEF Resend
  <2>2. pending_queue[resent + 1] = current_seqn + resent /\ current_seqn + resent \in Nat
    BY <1>t, <1>7, NumberOfNext
  <2>3. UNCHANGED <<highest, accepted, max_received_seqn, link, up, current_seqn>> /\ link = "resending"
    BY <1>7 DEF Resend
  <2>4. CASE ~up /\ packages' = packages
    BY <2>3, <2>4 DEF GapInv, Chained, Reaches
  <2>5. CASE /\ up /\ success
             /\ Len(packages') = Len(packages) + 1
             /\ packages'[Len(packages) + 1].seqn = current_seqn + resent
             /\ \A i \in 1 .. Len(packages) : packages'[i] = packages[i]
    <3>1. Reaches(current_seqn + resent - 1)
      BY <2>3, <2>5 DEF GapInv
    <3>2. Chained'
      <4>1. Chained /\ current_seqn + resent \in Nat
        BY <1>t DEF GapInv
      <4>. QED
        BY <1>t, <2>3, <2>5, <3>1, <4>1, ChainGrows
    <3>3. current_seqn' + resent' - 1 = current_seqn + resent
      BY <1>t, <2>1, <2>3, <2>5
    <3>4. Reaches(current_seqn + resent - 1)'
      BY <1>t, <2>5, <3>3 DEF Reaches
    <3>. QED
      BY <2>3, <3>2, <3>4 DEF GapInv
  <2>. QED
    BY <1>0, <1>t, <2>1, <2>2, <2>4, <2>5, Transmitted
<1>8. CASE Break
  <2>1. PICK k \in 0 .. Len(packages) : packages' = SubSeq(packages, 1, k)
    BY <1>8 DEF Break
  <2>2. Len(packages') = k /\ \A i \in 1 .. k : packages'[i] = packages[i]
    BY <1>0, <2>1, Kept DEF TypeOK
  <2>3. Chained'
    <3>. SUFFICES ASSUME NEW i \in 1 .. k
                  PROVE  \/ packages'[i].seqn <= highest + 1
                         \/ \E j \in 1 .. i - 1 : packages'[i].seqn <= packages'[j].seqn + 1
      BY <1>8, <2>2 DEF Break, Chained
    <3>1. i \in 1 .. Len(packages) /\ packages'[i] = packages[i]
      BY <1>t, <2>2
    <3>2. \A j \in 1 .. i - 1 : packages'[j] = packages[j]
      BY <1>t, <2>2
    <3>. QED
      BY <3>1, <3>2 DEF GapInv, Chained
  <2>. QED
    BY <1>8, <2>3 DEF Break, GapInv
<1>9. CASE Receive
  <2>. DEFINE n == Head(packages).seqn
  <2>1. /\ n = packages[1].seqn /\ Len(packages) >= 1 /\ Len(packages') = Len(packages) - 1
        /\ \A i \in 1 .. Len(packages) - 1 : packages'[i] = packages[i + 1]
    BY <1>0, <1>9, Rest DEF Receive, TypeOK
  <2>2. n \in Nat /\ n >= 1
    BY <1>t, <2>1 DEF WindowInv
  <2>3. highest' = IF n > highest THEN n ELSE highest
    BY <1>9 DEF Receive, Take
  <2>4. n <= highest + 1
    BY <1>t, <2>1 DEF GapInv, Chained
  <2>5. accepted' = 1 .. highest' /\ max_received_seqn' <= highest'
    <3>1. CASE IsDuplicate(Head(packages))
      <4>1. max_received_seqn' = max_received_seqn /\ accepted' = accepted
        BY <1>9, <3>1 DEF Receive, Take
      <4>2. n <= highest
        <5>1. n <= max_received_seqn /\ max_received_seqn <= highest /\ max_received_seqn \in Nat
          BY <1>0, <3>1 DEF IsDuplicate, GapInv, TypeOK
        <5>. QED
          BY <1>t, <2>2, <5>1
      <4>. QED
        BY <1>t, <2>2, <2>3, <4>1, <4>2 DEF GapInv
    <3>2. CASE ~IsDuplicate(Head(packages))
      <4>1. max_received_seqn' = n /\ accepted' = accepted \cup {n}
        BY <1>9, <3>2 DEF Receive, Take
      <4>. QED
        BY <1>t, <2>2, <2>3, <2>4, <4>1 DEF GapInv
    <3>. QED
      BY <3>1, <3>2
  <2>6. highest' \in Nat /\ highest <= highest' /\ n <= highest'
    BY <1>t, <2>2, <2>3
  <2>7. Chained'
    <3>. SUFFICES ASSUME NEW i \in 1 .. Len(packages'),
                         ~(packages'[i].seqn <= highest' + 1)
                  PROVE  \E j \in 1 .. i - 1 : packages'[i].seqn <= packages'[j].seqn + 1
      BY DEF Chained
    <3>1. i + 1 \in 1 .. Len(packages) /\ packages'[i] = packages[i + 1]
      BY <1>t, <2>1
    <3>2. ~(packages[i + 1].seqn <= highest + 1)
      BY <1>t, <2>6, <3>1
    <3>3. PICK j \in 1 .. i : packages[i + 1].seqn <= packages[j].seqn + 1
      BY <1>t, <3>1, <3>2 DEF GapInv, Chained
    <3>4. j # 1
      BY <1>t, <2>1, <2>2, <2>6, <3>1, <3>3
    <3>5. j - 1 \in 1 .. i - 1 /\ packages'[j - 1] = packages[j]
      BY <1>t, <2>1, <3>4
    <3>. QED
      BY <3>1, <3>3, <3>5
  <2>8. ASSUME NEW m \in Int, Reaches(m) PROVE Reaches(m)'
    <3>1. CASE m <= highest
      BY <1>t, <2>6, <3>1 DEF Reaches
    <3>2. ASSUME NEW j \in 1 .. Len(packages), m <= packages[j].seqn PROVE Reaches(m)'
      <4>1. CASE j = 1
        BY <1>t, <2>1, <2>2, <2>6, <3>2, <4>1 DEF Reaches
      <4>2. CASE j # 1
        <5>1. j - 1 \in 1 .. Len(packages') /\ packages'[j - 1] = packages[j]
          BY <1>t, <2>1, <4>2
        <5>. QED
          BY <3>2, <5>1 DEF Reaches
      <4>. QED
        BY <4>1, <4>2
    <3>. QED
      BY <2>8, <3>1, <3>2 DEF Reaches
  <2>9. UNCHANGED <<link, up, current_seqn, resent, Sent>>
    BY <1>9 DEF Receive, Sent
  <2>10. Sent \in Int /\ current_seqn + resent - 1 \in Int
    BY <1>t
  <2>11. (link = "reading" /\ up => Reaches(Sent)')
         /\ (link = "resending" /\ up => Reaches(current_seqn + resent - 1)')
    BY <2>8, <2>9, <2>10 DEF GapInv
  <2>. QED
    BY <2>5, <2>7, <2>9, <2>11 DEF GapInv
<1>. QED
  BY <1>1, <1>2, <1>3, <1>4, <1>5, <1>6, <1>7, <1>8, <1>9
  DEF Next, AsyncThread, SocketThread, Put, Stop, Terminate, Acknowledge, vars

\* A package that will be answered and has a number above all the others keeps
\* the answers ascending.
LEMMA AnswersGrow ==
  ASSUME TypeOK, AckInv, up, NEW n \in Nat, Below(n), n > acknowledged_seqn,
         link # "connected",
         Len(packages') = Len(packages) + 1,
         packages'[Len(packages) + 1].seqn = n,
         \A i \in 1 .. Len(packages) : packages'[i] = packages[i],
         UNCHANGED <<acks, acknowledged_seqn, up, connection, link>>
  PROVE  /\ \A j \in Answered' :
              /\ packages'[j].seqn > acknowledged_seqn
              /\ \A i \in 1 .. Len(acks) : acks[i] < packages'[j].seqn
              /\ \A i \in Answered' : i < j => packages'[i].seqn < packages'[j].seqn
         /\ \A i \in 1 .. Len(acks) : acks[i] < n + 1
         /\ \A i \in Answered' : packages'[i].seqn < n + 1
<1>t. /\ Len(packages) \in Nat /\ Len(acks) \in Nat
      /\ \A i \in 1 .. Len(packages) : packages[i].seqn \in Nat
      /\ \A i \in 1 .. Len(acks) : acks[i] \in Nat
  BY NetworkTypes
<1>1. \A i \in Answered' : i = Len(packages) + 1 \/ (i \in Answered /\ packages'[i] = packages[i])
  <2>. SUFFICES ASSUME NEW i \in Answered', i # Len(packages) + 1
                PROVE  i \in Answered /\ packages'[i] = packages[i]
    OBVIOUS
  <2>1. i \in 1 .. Len(packages') /\ packages'[i].over = connection
    BY DEF Answered
  <2>2. i \in 1 .. Len(packages)
    BY <1>t, <2>1
  <2>. QED
    BY <2>1, <2>2 DEF Answered
<1>2. \A i \in Answered : i \in 1 .. Len(packages) /\ packages[i].seqn \in Nat /\ packages[i].seqn < n
  BY <1>t DEF Answered, Below
<1>3. \A i \in 1 .. Len(acks) : acks[i] < n
  BY DEF Below
<1>4. ASSUME NEW j \in Answered'
      PROVE  /\ packages'[j].seqn > acknowledged_seqn
             /\ \A i \in 1 .. Len(acks) : acks[i] < packages'[j].seqn
             /\ \A i \in Answered' : i < j => packages'[i].seqn < packages'[j].seqn
  <2>1. CASE j = Len(packages) + 1
    BY <1>t, <1>1, <1>2, <1>3, <2>1
  <2>2. CASE j \in Answered /\ packages'[j] = packages[j]
    <3>1. \A i \in Answered' : i < j => i \in Answered /\ packages'[i] = packages[i]
      BY <1>t, <1>1, <1>2, <2>2
    <3>. QED
      BY <2>2, <3>1 DEF AckInv
  <2>. QED
    BY <1>1, <2>1, <2>2
<1>5. /\ \A i \in 1 .. Len(acks) : acks[i] < n + 1
      /\ \A i \in Answered' : packages'[i].seqn < n + 1
  BY <1>t, <1>1, <1>2, <1>3
<1>. QED
  BY <1>4, <1>5

LEMMA AckStep ==
  ASSUME WindowInv, WindowInv', AckInv, [Next]_vars, ~overtook'
  PROVE  AckInv'
<1>. USE DEF bufferVars, threadVars, networkVars, receiverVars
<1>0. TypeOK /\ TypeOK' /\ BufferInv
  BY DEF WindowInv, BufferInv
<1>t. /\ Len(packages) \in Nat /\ Len(acks) \in Nat
      /\ \A i \in 1 .. Len(packages) : packages[i].seqn \in Nat /\ packages[i].over \in Nat
      /\ \A i \in 1 .. Len(acks) : acks[i] \in Nat
      /\ acknowledged_seqn \in Nat /\ highest \in Nat /\ Sent \in Nat /\ current_seqn \in Nat
      /\ connection \in Nat /\ resent \in Nat
  BY <1>0, NetworkTypes DEF TypeOK
<1>1. CASE UNCHANGED <<packages, acks, acknowledged_seqn, up, connection, refused, link, current_seqn, resent>>
  BY <1>1 DEF AckInv, Below, Answered
<1>3. CASE Connect
  <2>1. Answered' = {}
    BY <1>t, <1>3 DEF Connect, Answered, WindowInv
  <2>. QED
    BY <1>3, <2>1 DEF Connect, AckInv
<1>4. CASE Reprocess
  <2>1. acks = <<>> /\ Answered = {}
    BY <1>4 DEF Reprocess, AckInv
  <2>2. Answered' = {} /\ acks' = <<>>
    BY <1>4, <2>1 DEF Reprocess, Answered
  <2>3. acknowledged_seqn < current_seqn'
    BY <1>t, <1>4 DEF Reprocess, Acknowledged
  <2>. QED
    BY <1>4, <2>1, <2>2, <2>3 DEF Reprocess, AckInv, Below
<1>5. CASE EndResume \/ Pause
  BY <1>5 DEF EndResume, Pause, AckInv, Answered
<1>6. CASE SendNext
  <2>1. PICK success \in BOOLEAN :
          /\ Transmit(max_sent_seqn + 1, Head(queue), success)
          /\ overtook' = (overtook \/ (success /\ up /\ link = "connected"))
    BY <1>6 DEF SendNext
  <2>2. Head(queue) = Sent + 1 /\ Sent = max_sent_seqn
    BY <1>6, NumberOfNext
  <2>3. UNCHANGED <<acks, acknowledged_seqn, up, connection, refused, link>> /\ link # "resending"
    BY <1>6 DEF SendNext, Locked
  <2>4. CASE ~up /\ packages' = packages
    BY <2>3, <2>4 DEF AckInv, Answered
  <2>5. CASE /\ up /\ success
             /\ Len(packages') = Len(packages) + 1
             /\ packages'[Len(packages) + 1].seqn = Sent + 1
             /\ \A i \in 1 .. Len(packages) : packages'[i] = packages[i]
    <3>1. link = "reading"
      BY <1>0, <2>1, <2>3, <2>5 DEF BufferInv, TypeOK
    <3>2. Below(Sent + 1) /\ Sent + 1 > acknowledged_seqn /\ Sent + 1 \in Nat
      BY <1>t DEF WindowInv, Below, Answered
    <3>3. \A j \in Answered' :
            /\ packages'[j].seqn > acknowledged_seqn
            /\ \A i \in 1 .. Len(acks) : acks[i] < packages'[j].seqn
            /\ \A i \in Answered' : i < j => packages'[i].seqn < packages'[j].seqn
      BY <1>0, <2>3, <2>5, <3>1, <3>2, AnswersGrow
    <3>. QED
      BY <2>3, <3>1, <3>3 DEF AckInv
  <2>6. Transmit(Sent + 1, Sent + 1, success) /\ Sent + 1 \in Nat
    BY <1>t, <2>1, <2>2
  <2>. QED
    BY <1>0, <2>4, <2>5, <2>6, Transmitted
<1>7. CASE Resend
  <2>1. PICK success \in BOOLEAN :
          /\ Transmit(current_seqn + resent, pending_queue[resent + 1], success)
          /\ resent' = IF success THEN resent + 1 ELSE Len(pending_queue)
    BY <1>7 DEF Resend
  <2>2. pending_queue[resent + 1] = current_seqn + resent /\ current_seqn + resent \in Nat
    BY <1>t, <1>7, NumberOfNext
  <2>3. UNCHANGED <<acks, acknowledged_seqn, up, connection, refused, link, current_seqn>> /\ link = "resending"
    BY <1>7 DEF Resend
  <2>4. CASE ~up /\ packages' = packages
    BY <2>3, <2>4 DEF AckInv, Answered
  <2>5. CASE /\ up /\ success
             /\ Len(packages') = Len(packages) + 1
             /\ packages'[Len(packages) + 1].seqn = current_seqn + resent
             /\ \A i \in 1 .. Len(packages) : packages'[i] = packages[i]
    <3>1. Below(current_seqn + resent) /\ acknowledged_seqn < current_seqn
      BY <2>3, <2>5 DEF AckInv
    <3>2. current_seqn + resent > acknowledged_seqn
      BY <1>t, <3>1
    <3>3. /\ \A j \in Answered' :
               /\ packages'[j].seqn > acknowledged_seqn
               /\ \A i \in 1 .. Len(acks) : acks[i] < packages'[j].seqn
               /\ \A i \in Answered' : i < j => packages'[i].seqn < packages'[j].seqn
          /\ \A i \in 1 .. Len(acks) : acks[i] < current_seqn + resent + 1
          /\ \A i \in Answered' : packages'[i].seqn < current_seqn + resent + 1
      BY <1>0, <2>2, <2>3, <2>5, <3>1, <3>2, AnswersGrow
    <3>4. current_seqn' + resent' = current_seqn + resent + 1
      BY <1>t, <2>1, <2>3, <2>5
    <3>5. Below(current_seqn + resent)'
      BY <1>t, <2>3, <3>3, <3>4 DEF Below
    <3>. QED
      BY <2>3, <3>3, <3>5 DEF AckInv
  <2>. QED
    BY <1>0, <1>t, <2>1, <2>2, <2>4, <2>5, Transmitted
<1>8. CASE Acknowledge
  <2>1. /\ Head(acks) = acks[1] /\ Len(acks) >= 1 /\ Len(acks') = Len(acks) - 1
        /\ \A i \in 1 .. Len(acks) - 1 : acks'[i] = acks[i + 1]
    BY <1>0, <1>8, Rest DEF Acknowledge, TypeOK
  <2>2. Head(acks) > acknowledged_seqn
    BY <1>t, <2>1 DEF AckInv
  <2>3. /\ acknowledged_seqn' = Head(acks) /\ link = "reading"
        /\ UNCHANGED <<packages, up, connection, refused, link, current_seqn, resent, Answered>>
    BY <1>8, <2>2 DEF Acknowledge, Answered
  <2>4. \A i \in 1 .. Len(acks') : i + 1 \in 1 .. Len(acks) /\ acks'[i] = acks[i + 1]
    BY <1>t, <2>1
  <2>5. \A i \in 1 .. Len(acks') : acks'[i] > acknowledged_seqn'
    <3>. SUFFICES ASSUME NEW i \in 1 .. Len(acks') PROVE acks[i + 1] > acks[1]
      BY <2>1, <2>3, <2>4
    <3>1. i + 1 \in 1 .. Len(acks) /\ 1 \in 1 .. Len(acks) /\ 1 < i + 1
      BY <1>t, <2>1, <2>4
    <3>2. acks[1] < acks[i + 1]
      BY <3>1 DEF AckInv
    <3>. QED
      BY <1>t, <3>1, <3>2
  <2>6. \A i, j \in 1 .. Len(acks') : i < j => acks'[i] < acks'[j]
    BY <1>t, <2>4 DEF AckInv
  <2>7. \A j \in Answered :
          packages[j].seqn > acknowledged_seqn' /\ \A i \in 1 .. Len(acks') : acks'[i] < packages[j].seqn
    <3>. SUFFICES ASSUME NEW j \in Answered
                  PROVE  /\ packages[j].seqn > acks[1]
                         /\ \A i \in 1 .. Len(acks') : acks'[i] < packages[j].seqn
      BY <2>1, <2>3
    <3>1. j \in 1 .. Len(packages) /\ packages[j].seqn \in Nat /\ 1 \in 1 .. Len(acks)
      BY <1>t, <2>1 DEF Answered
    <3>2. \A i \in 1 .. Len(acks) : acks[i] < packages[j].seqn
      BY DEF AckInv
    <3>. QED
      BY <1>t, <2>4, <3>1, <3>2
  <2>. QED
    BY <2>3, <2>5, <2>6, <2>7 DEF AckInv
<1>9. CASE Break
  <2>1. PICK m \in 0 .. Len(acks) : acks' = SubSeq(acks, 1, m)
    BY <1>9 DEF Break
  <2>2. Len(acks') = m /\ \A i \in 1 .. m : acks'[i] = acks[i] /\ i \in 1 .. Len(acks)
    <3>1. acks \in Seq(Nat)
      BY <1>0 DEF TypeOK
    <3>2. Len(acks') = m /\ \A i \in 1 .. m : acks'[i] = acks[i]
      BY <2>1, <3>1, Kept
    <3>. QED
      BY <1>t, <3>2
  <2>3. Answered' = {} /\ ~up'
    BY <1>9 DEF Break, Answered
  <2>4. acks = <<>> => acks' = <<>>
    BY <2>1
  <2>5. UNCHANGED <<acknowledged_seqn, refused, link, current_seqn>>
    BY <1>9 DEF Break
  <2>. QED
    BY <2>2, <2>3, <2>4, <2>5 DEF AckInv
<1>10. CASE Receive
  <2>. DEFINE n == Head(packages).seqn
  <2>1. /\ Head(packages) = packages[1] /\ Len(packages) >= 1 /\ Len(packages') = Len(packages) - 1
        /\ \A i \in 1 .. Len(packages) - 1 : packages'[i] = packages[i + 1]
    BY <1>0, <1>10, Rest DEF Receive, TypeOK
  <2>2. UNCHANGED <<acknowledged_seqn, up, connection, refused, link, current_seqn, resent>>
    BY <1>10 DEF Receive
  <2>3. \A i \in Answered' : i + 1 \in Answered /\ packages'[i] = packages[i + 1] /\ i >= 1 /\ i \in Nat
    BY <1>t, <2>1, <2>2 DEF Answered
  <2>4. /\ \A j \in Answered' : packages'[j].seqn > acknowledged_seqn
        /\ \A i, j \in Answered' : i < j => packages'[i].seqn < packages'[j].seqn
    <3>. SUFFICES ASSUME NEW j \in Answered'
                  PROVE  /\ packages'[j].seqn > acknowledged_seqn
                         /\ \A i \in Answered' : i < j => packages'[i].seqn < packages'[j].seqn
      OBVIOUS
    <3>1. j + 1 \in Answered /\ packages'[j] = packages[j + 1] /\ j \in Nat
      BY <2>3
    <3>2. ASSUME NEW i \in Answered', i < j PROVE packages'[i].seqn < packages'[j].seqn
      <4>1. i + 1 \in Answered /\ packages'[i] = packages[i + 1] /\ i + 1 < j + 1
        BY <2>3, <3>1, <3>2
      <4>. QED
        BY <3>1, <4>1 DEF AckInv
    <3>. QED
      BY <3>1, <3>2 DEF AckInv
  <2>5. CASE acks' = acks /\ 1 \notin Answered
    <3>1. link = "connected" => Answered' = {}
      BY <2>3 DEF AckInv
    <3>2. link = "resending" /\ up => Below(current_seqn + resent)'
      BY <2>2, <2>3, <2>5 DEF AckInv, Below
    <3>3. \A j \in Answered' : \A i \in 1 .. Len(acks) : acks[i] < packages'[j].seqn
      BY <2>3 DEF AckInv
    <3>. QED
      BY <2>2, <2>4, <2>5, <3>1, <3>2, <3>3 DEF AckInv
  <2>6. CASE acks' = Append(acks, n) /\ 1 \in Answered
    <3>1. n = packages[1].seqn /\ n \in Nat /\ link # "connected"
      <4>1. 1 \in 1 .. Len(packages) /\ packages[1].seqn \in Nat
        BY <1>t, <2>1
      <4>2. Answered # {}
        BY <2>6
      <4>. QED
        BY <2>1, <4>1, <4>2 DEF AckInv
    <3>2. /\ Len(acks') = Len(acks) + 1 /\ acks'[Len(acks) + 1] = n
          /\ \A i \in 1 .. Len(acks) : acks'[i] = acks[i]
      BY <1>0, <2>6, <3>1, Appended DEF TypeOK
    <3>3. n > acknowledged_seqn /\ \A i \in 1 .. Len(acks) : acks[i] < n
      BY <2>6, <3>1 DEF AckInv
    <3>4. \A i \in 1 .. Len(acks') : i = Len(acks) + 1 \/ i \in 1 .. Len(acks)
      BY <1>t, <3>2
    <3>5. \A i \in 1 .. Len(acks') : acks'[i] > acknowledged_seqn
      BY <3>2, <3>3, <3>4 DEF AckInv
    <3>6. \A i, j \in 1 .. Len(acks') : i < j => acks'[i] < acks'[j]
      BY <1>t, <3>2, <3>3, <3>4 DEF AckInv
    <3>7. \A j \in Answered' : n < packages'[j].seqn
      BY <1>t, <2>3, <2>6, <3>1 DEF AckInv
    <3>8. \A j \in Answered' : \A i \in 1 .. Len(acks') : acks'[i] < packages'[j].seqn
      BY <2>3, <3>2, <3>4, <3>7 DEF AckInv
    <3>9. link = "resending" /\ up => Below(current_seqn + resent)'
      <4>. SUFFICES ASSUME link = "resending", up PROVE Below(current_seqn + resent)'
        OBVIOUS
      <4>1. Below(current_seqn + resent)
        BY DEF AckInv
      <4>2. \A i \in 1 .. Len(acks') : acks'[i] < current_seqn + resent
        BY <2>6, <3>1, <3>2, <3>4, <4>1 DEF Below
      <4>3. \A i \in Answered' : packages'[i].seqn < current_seqn + resent
        BY <2>3, <4>1 DEF Below
      <4>. QED
        BY <2>2, <4>2, <4>3 DEF Below
    <3>. QED
      BY <2>2, <2>4, <3>1, <3>5, <3>6, <3>8, <3>9 DEF AckInv
  <2>7. \/ acks' = acks /\ 1 \notin Answered
        \/ acks' = Append(acks, n) /\ 1 \in Answered
    BY <1>t, <1>10, <2>1 DEF Receive, Answer, Answered
  <2>. QED
    BY <2>5, <2>6, <2>7
<1>. QED
  BY <1>1, <1>3, <1>4, <1>5, <1>6, <1>7, <1>8, <1>9, <1>10
  DEF Next, AsyncThread, SocketThread, Put, Stop, Terminate, Grab, RecordSent, EndProcess, Exit, vars

LEMMA OrderInvariant == Spec => []OrderInv
<1>1. ASSUME WindowInv, WindowInv', OrderInv, [Next]_vars PROVE OrderInv'
  <2>1. overtook => overtook'
    BY <1>1 DEF Next, AsyncThread, SocketThread, Put, Stop, Terminate, Grab, SendNext, RecordSent, EndProcess,
       Exit, Connect, Reprocess, Resend, EndResume, Acknowledge, Pause, Break, Receive, vars
  <2>. QED
    BY <1>1, <2>1, GapStep, AckStep DEF OrderInv
<1>. QED
  BY <1>1, OrderInit, WindowInvariant, PTL DEF Spec

\* The receiver passes over no message unless a new package overtook the
\* resending: the only way to lose one is the gap between grab and process.
THEOREM NothingIsPassedOver == Spec => []Gapless
<1>1. OrderInv => Gapless
  BY DEF OrderInv, GapInv, Gapless
<1>. QED
  BY OrderInvariant, <1>1, PTL

\* The sender drops no message that was not received, under the same condition.
THEOREM ConfirmedIsReceived == Spec => []ConfirmedWasReceived
<1>1. WindowInv /\ OrderInv => ConfirmedWasReceived
  BY NetworkTypes DEF OrderInv, GapInv, ConfirmedWasReceived, WindowInv, BufferInv
<1>. QED
  BY OrderInvariant, WindowInvariant, <1>1, PTL

\* Acknowledgements are read in ascending order, under the same condition.
THEOREM AcksAscend == Spec => []AcksGrow
<1>1. OrderInv => AcksGrow
  BY DEF OrderInv, AckInv, AcksGrow
<1>. QED
  BY OrderInvariant, <1>1, PTL

-----------------------------------------------------------------------------
(* The first connection *)

\* Nothing was sent before the first connection is ready to be read.
Fresh ==
  /\ pending_queue = <<>> /\ queue = <<>> /\ packages = <<>>
  /\ max_sent_seqn = 0 /\ highest = 0
  /\ async \in {"waiting", "exited"}

\* What is under way on the first connection follows what was received, and
\* while it works, nothing that was sent is missing.
FirstInv ==
  connection <= 1 =>
    /\ OnceOverOneConnection
    /\ max_received_seqn = highest
    /\ \A i \in 1 .. Len(packages) : packages[i].seqn = highest + i
    /\ up => Len(packages) = Sent - highest
    /\ connection = 0 => link = "down"
    /\ connection = 0 \/ link \in {"connected", "resending"} => Fresh

LEMMA FirstInit == Init => FirstInv
<1>. SUFFICES ASSUME Init PROVE FirstInv
  OBVIOUS
<1>1. <<>> = [i \in 1 .. 0 |-> i]
  OBVIOUS
<1>. QED
  BY <1>1 DEF Init, FirstInv, OnceOverOneConnection, Fresh

LEMMA FirstStep == WindowInv /\ WindowInv' /\ FirstInv /\ [Next]_vars => FirstInv'
<1>. SUFFICES ASSUME WindowInv, WindowInv', FirstInv, [Next]_vars, connection' <= 1 PROVE FirstInv'
  BY DEF FirstInv
<1>. USE DEF bufferVars, threadVars, networkVars, receiverVars
<1>0. BufferInv /\ TypeOK /\ TypeOK' /\ connection \in Nat
  BY DEF WindowInv, BufferInv, TypeOK
<1>t. /\ Len(packages) \in Nat /\ packages \in Seq(Package)
      /\ \A i \in 1 .. Len(packages) : packages[i].seqn \in Nat /\ packages[i].seqn = packages[i].message
      /\ highest \in Nat /\ Sent \in Nat /\ highest <= Sent /\ max_sent_seqn \in Nat
  BY <1>0, NetworkTypes DEF WindowInv, NumbersAreKept
<1>c. connection <= 1
  BY <1>0 DEF Next, AsyncThread, SocketThread, Put, Stop, Terminate, Grab, SendNext, RecordSent, EndProcess,
     Exit, Connect, Reprocess, Resend, EndResume, Acknowledge, Pause, Break, Receive, vars
<1>i. /\ OnceOverOneConnection
      /\ max_received_seqn = highest
      /\ \A i \in 1 .. Len(packages) : packages[i].seqn = highest + i
      /\ up => Len(packages) = Sent - highest
      /\ connection = 0 => link = "down"
      /\ connection = 0 \/ link \in {"connected", "resending"} => Fresh
  BY <1>c DEF FirstInv
<1>1. CASE Put
  BY <1>1, <1>i, <1>c DEF Put, FirstInv, OnceOverOneConnection, Fresh, Sent
<1>2. CASE Stop
  BY <1>2, <1>i, <1>c DEF Stop, FirstInv, OnceOverOneConnection, Fresh, Sent
<1>3. CASE Terminate
  BY <1>3, <1>i, <1>c DEF Terminate, FirstInv, OnceOverOneConnection, Fresh, Sent
<1>4. CASE Grab
  <2>1. connection = 1 /\ link = "reading"
    BY <1>0, <1>4, <1>c, <1>i DEF Grab, BufferInv, TypeOK
  <2>. QED
    BY <1>4, <1>i, <1>c, <2>1 DEF Grab, FirstInv, OnceOverOneConnection, Fresh, Sent
<1>5. CASE SendNext
  <2>1. PICK success \in BOOLEAN :
          /\ Transmit(max_sent_seqn + 1, Head(queue), success)
          /\ async' = IF success THEN "sent" ELSE "waiting"
    BY <1>5 DEF SendNext
  <2>2. Head(queue) = max_sent_seqn + 1 /\ Sent = max_sent_seqn
    BY <1>5, NumberOfNext
  <2>3. Sent' = IF success THEN Sent + 1 ELSE Sent
    BY <1>5, <2>1, <2>2 DEF SendNext, Sent
  <2>4. \/ ~up /\ packages' = packages
        \/ /\ up /\ success /\ Len(packages') = Len(packages) + 1
           /\ packages'[Len(packages) + 1].seqn = Sent + 1
           /\ \A i \in 1 .. Len(packages) : packages'[i] = packages[i]
    <3>1. Transmit(Sent + 1, Sent + 1, success) /\ Sent + 1 \in Nat
      BY <1>t, <2>1, <2>2
    <3>. QED
      BY <1>0, <3>1, Transmitted
  <2>5. ~(connection = 0 \/ link \in {"connected", "resending"})
    BY <1>5, <1>i DEF SendNext, Fresh
  <2>6. /\ \A i \in 1 .. Len(packages') : packages'[i].seqn = highest + i
        /\ up => Len(packages') = Sent' - highest
    <3>1. CASE ~up /\ packages' = packages
      BY <1>i, <3>1
    <3>2. CASE /\ up /\ success /\ Len(packages') = Len(packages) + 1
               /\ packages'[Len(packages) + 1].seqn = Sent + 1
               /\ \A i \in 1 .. Len(packages) : packages'[i] = packages[i]
      <4>0. Sent' = Sent + 1 /\ Len(packages) = Sent - highest
        BY <1>i, <2>3, <3>2, Zenon
      <4>1. Len(packages') = Sent' - highest
        BY <1>t, <3>2, <4>0
      <4>2. ASSUME NEW i \in 1 .. Len(packages') PROVE packages'[i].seqn = highest + i
        <5>1. CASE i = Len(packages) + 1
          BY <1>t, <3>2, <4>0, <5>1
        <5>2. CASE i \in 1 .. Len(packages)
          BY <1>i, <3>2, <5>2
        <5>. QED
          BY <1>t, <3>2, <5>1, <5>2
      <4>. QED
        BY <4>1, <4>2
    <3>. QED
      BY <2>4, <3>1, <3>2
  <2>. QED
    BY <1>5, <1>i, <1>c, <2>5, <2>6 DEF SendNext, FirstInv, OnceOverOneConnection
<1>6. CASE RecordSent
  <2>1. Sent' = Sent
    BY <1>0, <1>6 DEF RecordSent, Sent
  <2>2. ~(connection = 0 \/ link \in {"connected", "resending"})
    BY <1>6, <1>i DEF RecordSent, Fresh
  <2>. QED
    BY <1>6, <1>i, <1>c, <2>1, <2>2 DEF RecordSent, FirstInv, OnceOverOneConnection
<1>7. CASE EndProcess
  BY <1>7, <1>i, <1>c DEF EndProcess, FirstInv, OnceOverOneConnection, Fresh, Sent
<1>8. CASE Exit
  BY <1>8, <1>i, <1>c DEF Exit, FirstInv, OnceOverOneConnection, Fresh, Sent
<1>9. CASE Connect
  <2>1. connection = 0 /\ connection' = 1
    BY <1>0, <1>9 DEF Connect
  <2>2. Fresh /\ Len(packages) = 0 /\ Sent = 0 /\ Sent' = 0
    BY <1>9, <1>i, <2>1 DEF Connect, Fresh, Sent
  <2>3. Fresh'
    BY <1>9, <2>2 DEF Connect, Fresh
  <2>. QED
    BY <1>9, <1>i, <1>c, <2>1, <2>2, <2>3 DEF Connect, FirstInv, OnceOverOneConnection, Fresh
<1>10. CASE Reprocess
  <2>1. Fresh /\ connection = 1
    BY <1>10, <1>c, <1>0, <1>i DEF Reprocess
  <2>2. pending_queue' = <<>>
    <3>1. Acknowledged \in Nat
      BY <1>0 DEF Acknowledged, TypeOK
    <3>2. pending_queue' = SubSeq(<<>>, Acknowledged + 1, 0)
      BY <1>10, <2>1 DEF Reprocess, Fresh
    <3>. QED
      BY <3>1, <3>2
  <2>. QED
    BY <1>10, <1>i, <1>c, <2>1, <2>2 DEF Reprocess, FirstInv, OnceOverOneConnection, Fresh, Sent
<1>11. CASE Resend
  <2>1. pending_queue = <<>> /\ resent \in Nat /\ resent < Len(pending_queue)
    BY <1>0, <1>11, <1>i DEF Resend, Fresh, TypeOK
  <2>. QED
    BY <2>1
<1>12. CASE EndResume
  BY <1>12, <1>i, <1>c DEF EndResume, FirstInv, OnceOverOneConnection, Fresh, Sent
<1>13. CASE Acknowledge
  BY <1>13, <1>i, <1>c DEF Acknowledge, FirstInv, OnceOverOneConnection, Fresh, Sent
<1>14. CASE Pause
  BY <1>14, <1>i, <1>c DEF Pause, FirstInv, OnceOverOneConnection, Fresh, Sent
<1>15. CASE Break
  <2>1. PICK kept \in 0 .. Len(packages) : packages' = SubSeq(packages, 1, kept)
    BY <1>15 DEF Break
  <2>2. /\ Len(packages') = kept
        /\ \A i \in 1 .. kept : packages'[i] = packages[i]
        /\ packages = <<>> => packages' = <<>>
    BY <1>t, <2>1, Kept
  <2>3. \A i \in 1 .. Len(packages') : packages'[i].seqn = highest + i
    BY <1>i, <1>t, <2>1, <2>2
  <2>. QED
    BY <1>15, <1>i, <1>c, <2>2, <2>3 DEF Break, FirstInv, OnceOverOneConnection, Fresh
<1>16. CASE Receive
  <2>1. /\ Head(packages) = packages[1] /\ Len(packages) >= 1
        /\ Len(packages') = Len(packages) - 1
        /\ \A i \in 1 .. Len(packages) - 1 : packages'[i] = packages[i + 1]
    BY <1>16, <1>t, Rest DEF Receive
  <2>2. Head(packages).seqn = highest + 1 /\ Head(packages).message = highest + 1
    BY <1>i, <1>t, <2>1
  <2>3. ~IsDuplicate(Head(packages))
    BY <1>i, <1>t, <2>2 DEF IsDuplicate
  <2>4. ~garbled /\ delivered = [i \in 1 .. highest |-> i]
    BY <1>c, <1>i DEF OnceOverOneConnection
  <2>5. /\ max_received_seqn' = highest + 1 /\ highest' = highest + 1 /\ ~garbled'
        /\ delivered' = Append(delivered, highest + 1)
    <3>1. Take(Head(packages))
      BY <1>16 DEF Receive
    <3>2. ~garbled'
      BY <2>3, <2>4, <3>1, Zenon DEF Take
    <3>3. delivered' = Append(delivered, Head(packages).message) /\ max_received_seqn' = Head(packages).seqn
      BY <2>3, <2>4, <3>1, Zenon DEF Take
    <3>4. highest' = highest + 1
      BY <1>t, <2>2, <3>1 DEF Take
    <3>. QED
      BY <2>2, <3>2, <3>3, <3>4
  <2>6. delivered' = [i \in 1 .. highest' |-> i]
    BY <1>t, <2>4, <2>5
  <2>7. ASSUME NEW i \in 1 .. Len(packages') PROVE packages'[i].seqn = highest' + i
    <3>1. i + 1 \in 1 .. Len(packages) /\ packages'[i] = packages[i + 1] /\ i \in Nat
      BY <1>t, <2>1, <2>7
    <3>2. packages[i + 1].seqn = highest + (i + 1)
      BY <1>i, <3>1
    <3>. QED
      BY <1>t, <2>5, <3>1, <3>2
  <2>8. up => Len(packages') = Sent' - highest'
    BY <1>16, <1>i, <1>t, <2>1, <2>5 DEF Receive, Sent
  <2>9. ~(connection = 0 \/ link \in {"connected", "resending"})
    BY <1>16, <1>i DEF Receive, Fresh
  <2>. QED
    BY <1>16, <1>i, <1>c, <2>5, <2>6, <2>7, <2>8, <2>9 DEF Receive, FirstInv, OnceOverOneConnection
<1>17. CASE UNCHANGED vars
  BY <1>17, <1>i, <1>c DEF vars, FirstInv, OnceOverOneConnection, Fresh, Sent
<1>. QED
  BY <1>1, <1>2, <1>3, <1>4, <1>5, <1>6, <1>7, <1>8, <1>9, <1>10, <1>11, <1>12, <1>13, <1>14,
     <1>15, <1>16, <1>17 DEF Next, AsyncThread, SocketThread

\* Until the first reconnection every message is passed on once and in order,
\* however the threads of the sender interleave, and also when they go on
\* sending over the connection that broke.
THEOREM OnceAndInOrder == Spec => []OnceOverOneConnection
<1>1. FirstInv => OnceOverOneConnection
  BY DEF FirstInv, OnceOverOneConnection
<1>. QED
  BY FirstInit, FirstStep, WindowInvariant, <1>1, PTL DEF Spec

=============================================================================
