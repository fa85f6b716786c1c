--------------------------------- MODULE Wire ---------------------------------
(***************************************************************************)
(* One direction of RiderLink's socket wire.  On the sender's side three   *)
(* threads share a ByteBufferAsyncProcessor: any thread may `put' a        *)
(* message; the async thread grabs what was put, numbers it and sends it;  *)
(* the socket thread connects, resends what was not acknowledged, reads    *)
(* acknowledgements and pauses the sending when the connection breaks.     *)
(* The receiver's socket thread acknowledges every package and drops the   *)
(* ones it has had.                                                        *)
(*                                                                         *)
(* Messages are numbered in the order they are put, so that a message and  *)
(* its sequence number can be compared.  A connection delivers in order;   *)
(* when it breaks, any tail of what was under way is lost, in either       *)
(* direction, and until the sender notices a send may fail or seem to      *)
(* succeed.  A mutex that is held from one action to the next is the pc of *)
(* its holder; the actions are cut where another thread can come between.  *)
(***************************************************************************)
EXTENDS Integers, Sequences

CONSTANTS
  MaxPuts,    \* bound: how many messages are put
  MaxBreaks   \* bound: how many connections break

ASSUME WireAssumption == MaxPuts \in Nat /\ MaxBreaks \in Nat

VARIABLES
  \* the sender's ByteBufferAsyncProcessor
  state,              \* "AsyncProcessing", "Stopping" or "Terminated"
  data,               \* what was put and the async thread has not grabbed
  queue,              \* what it grabbed and has not sent
  pending_queue,      \* what it sent and reprocess has not dropped
  max_sent_seqn, current_seqn, acknowledged_seqn,
  interrupt_balance,  \* the pauses without a resume: it sends only at 0
  async,              \* where the async thread is
  link,               \* where the sender's socket thread is
  resent,             \* how many of pending_queue it has resent
  \* the network
  up,                 \* whether the current connection works
  connection,         \* its number
  packages,           \* the packages under way, of old connections too
  acks,               \* the acknowledgements under way
  \* the receiver's SocketWire
  max_received_seqn,
  garbled,            \* whether its stream of bytes took a byte of a duplicate
  delivered,          \* the messages it passed on, in that order
  \* auxiliary
  puts,               \* how many messages were put
  accepted,           \* the sequence numbers it did not drop
  highest,            \* the highest of them, 0 before the first
  overtook,           \* whether a new package went out before the old were resent
  refused             \* whether an acknowledgement was reported as an error

bufferVars == <<state, data, queue, pending_queue, max_sent_seqn, current_seqn,
                acknowledged_seqn, interrupt_balance>>
threadVars == <<async, link, resent>>
networkVars == <<up, connection, packages, acks>>
receiverVars == <<max_received_seqn, garbled, delivered, accepted, highest>>
vars == <<bufferVars, threadVars, networkVars, receiverVars, puts, overtook, refused>>

Package == [seqn : Nat, message : Nat, over : Nat]

-----------------------------------------------------------------------------

\* The constructor of the wire pauses its buffer ("initial") and starts it.
Init ==
  /\ state = "AsyncProcessing"
  /\ data = <<>> /\ queue = <<>> /\ pending_queue = <<>>
  /\ max_sent_seqn = 0 /\ current_seqn = 1 /\ acknowledged_seqn = 0
  /\ interrupt_balance = 1
  /\ async = "waiting" /\ link = "down" /\ resent = 0
  /\ up = FALSE /\ connection = 0 /\ packages = <<>> /\ acks = <<>>
  /\ max_received_seqn = 0 /\ garbled = FALSE /\ delivered = <<>>
  /\ puts = 0 /\ accepted = {} /\ highest = 0 /\ overtook = FALSE /\ refused = FALSE

\* resume holds `lock' while it resends: put, Grab and Stop wait for it.
Locked == link = "resending"

\* send0: a package goes out over the current connection.  Once that is broken
\* the call fails, or the network takes the package and loses it.
Transmit(seqn, message, success) ==
  \/ up /\ success /\ packages' = Append(packages, [seqn |-> seqn, message |-> message, over |-> connection])
  \/ ~up /\ packages' = packages

-----------------------------------------------------------------------------
(* Any thread *)

\* A put to a stopped wire is dropped without a word: only the others are counted.
Put ==
  /\ puts < MaxPuts
  /\ ~Locked /\ state = "AsyncProcessing"
  /\ puts' = puts + 1
  /\ data' = Append(data, puts + 1)
  /\ UNCHANGED <<state, queue, pending_queue, max_sent_seqn, current_seqn, acknowledged_seqn,
                 interrupt_balance, threadVars, networkVars, receiverVars, overtook, refused>>

\* The end of the wire's lifetime stops the buffer, waits for the async thread ...
Stop ==
  /\ ~Locked /\ state = "AsyncProcessing"
  /\ state' = "Stopping"
  /\ UNCHANGED <<data, queue, pending_queue, max_sent_seqn, current_seqn, acknowledged_seqn,
                 interrupt_balance, threadVars, networkVars, receiverVars, puts, overtook, refused>>

\* ... but not longer than `timeout'.
Terminate ==
  /\ ~Locked /\ state = "Stopping"
  /\ state' = "Terminated"
  /\ UNCHANGED <<data, queue, pending_queue, max_sent_seqn, current_seqn, acknowledged_seqn,
                 interrupt_balance, threadVars, networkVars, receiverVars, puts, overtook, refused>>

-----------------------------------------------------------------------------
(* The async thread *)

\* Fault: what the queue still holds is replaced.
GrabOver ==
  /\ async = "waiting" /\ ~Locked
  /\ state # "Terminated" /\ data # <<>> /\ interrupt_balance = 0
  /\ queue' = data
  /\ data' = <<>>
  /\ async' = "grabbed"
  /\ UNCHANGED <<state, pending_queue, max_sent_seqn, current_seqn, acknowledged_seqn, interrupt_balance,
                 link, resent, networkVars, receiverVars, puts, overtook, refused>>

\* With something to do and no pause it takes all the data, and lets `lock' go.
Grab ==
  /\ async = "waiting" /\ ~Locked
  /\ state # "Terminated" /\ data # <<>> /\ interrupt_balance = 0
  /\ queue' = queue \o data
  /\ data' = <<>>
  /\ async' = "grabbed"
  /\ UNCHANGED <<state, pending_queue, max_sent_seqn, current_seqn, acknowledged_seqn, interrupt_balance,
                 link, resent, networkVars, receiverVars, puts, overtook, refused>>

\* process sends the front of the queue under the next number.  From its first
\* package on it holds queue_lock, so it begins before reprocess or after it.
\* A failure ends it, and what is in the queue stays there.
SendNext ==
  /\ async \in {"grabbed", "processing"} /\ ~Locked
  /\ queue # <<>>
  /\ \E success \in BOOLEAN :
       /\ Transmit(max_sent_seqn + 1, Head(queue), success)
       /\ async' = IF success THEN "sent" ELSE "waiting"
       /\ overtook' = (overtook \/ (success /\ up /\ link = "connected"))
  /\ UNCHANGED <<bufferVars, link, resent, up, connection, acks, receiverVars, puts, refused>>

\* Fault: the package stays at the front of the queue.
RecordKept ==
  /\ async = "sent"
  /\ max_sent_seqn' = max_sent_seqn + 1
  /\ pending_queue' = Append(pending_queue, Head(queue))
  /\ async' = "processing"
  /\ UNCHANGED <<state, data, queue, current_seqn, acknowledged_seqn, interrupt_balance,
                 link, resent, networkVars, receiverVars, puts, overtook, refused>>

\* Then it does the accounts, while the answer may be there already.
RecordSent ==
  /\ async = "sent"
  /\ max_sent_seqn' = max_sent_seqn + 1
  /\ pending_queue' = Append(pending_queue, Head(queue))
  /\ queue' = Tail(queue)
  /\ async' = "processing"
  /\ UNCHANGED <<state, data, current_seqn, acknowledged_seqn, interrupt_balance,
                 link, resent, networkVars, receiverVars, puts, overtook, refused>>

EndProcess ==
  /\ async = "processing" /\ queue = <<>>
  /\ async' = "waiting"
  /\ UNCHANGED <<bufferVars, link, resent, networkVars, receiverVars, puts, overtook, refused>>

\* The thread leaves once stopped with nothing to do, and a pause is as good
\* as nothing to do: what was put is then kept in `data' for ever.
Exit ==
  /\ async = "waiting" /\ ~Locked
  /\ \/ state = "Terminated"
     \/ state = "Stopping" /\ (data = <<>> \/ interrupt_balance # 0)
  /\ async' = "exited"
  /\ UNCHANGED <<bufferVars, link, resent, networkVars, receiverVars, puts, overtook, refused>>

-----------------------------------------------------------------------------
(* The sender's socket thread *)

\* set_socket_provider swaps the socket.  What its peer has of older
\* connections it still reads; their acknowledgements are gone.
Connect ==
  /\ link = "down" /\ state # "Terminated"
  /\ link' = "connected"
  /\ up' = TRUE /\ connection' = connection + 1 /\ acks' = <<>>
  /\ UNCHANGED <<bufferVars, async, resent, packages, receiverVars, puts, overtook, refused>>

Processing == async \in {"processing", "sent"}

\* How many of pending_queue are acknowledged.
Acknowledged == IF current_seqn <= acknowledged_seqn THEN acknowledged_seqn - current_seqn + 1 ELSE 0

\* Fault: one package too many is dropped.
ReprocessBeyond ==
  /\ link = "connected" /\ ~Processing
  /\ pending_queue' = SubSeq(pending_queue, Acknowledged + 2, Len(pending_queue))
  /\ current_seqn' = current_seqn + Acknowledged + 1
  /\ resent' = 0
  /\ link' = "resending"
  /\ UNCHANGED <<state, data, queue, max_sent_seqn, acknowledged_seqn, interrupt_balance,
                 async, networkVars, receiverVars, puts, overtook, refused>>

\* Fault: what was acknowledged is resent as well.
ReprocessAll ==
  /\ link = "connected" /\ ~Processing
  /\ resent' = 0
  /\ link' = "resending"
  /\ UNCHANGED <<bufferVars, async, networkVars, receiverVars, puts, overtook, refused>>

\* resume takes `lock' and reprocess waits for process; it drops what was
\* acknowledged and is ready to resend the rest.
Reprocess ==
  /\ link = "connected" /\ ~Processing
  /\ pending_queue' = SubSeq(pending_queue, Acknowledged + 1, Len(pending_queue))
  /\ current_seqn' = current_seqn + Acknowledged
  /\ resent' = 0
  /\ link' = "resending"
  /\ UNCHANGED <<state, data, queue, max_sent_seqn, acknowledged_seqn, interrupt_balance,
                 async, networkVars, receiverVars, puts, overtook, refused>>

\* A package is resent under the number it had; a failure ends the resending.
Resend ==
  /\ link = "resending" /\ resent < Len(pending_queue)
  /\ \E success \in BOOLEAN :
       /\ Transmit(current_seqn + resent, pending_queue[resent + 1], success)
       /\ resent' = IF success THEN resent + 1 ELSE Len(pending_queue)
  /\ UNCHANGED <<bufferVars, async, link, up, connection, acks, receiverVars, puts, overtook, refused>>

\* Fault: the pause is not taken back.
EndResumePaused ==
  /\ link = "resending" /\ resent = Len(pending_queue)
  /\ resent' = 0
  /\ link' = "reading"
  /\ UNCHANGED <<bufferVars, async, networkVars, receiverVars, puts, overtook, refused>>

EndResume ==
  /\ link = "resending" /\ resent = Len(pending_queue)
  /\ interrupt_balance' = interrupt_balance - 1
  /\ resent' = 0
  /\ link' = "reading"
  /\ UNCHANGED <<state, data, queue, pending_queue, max_sent_seqn, current_seqn, acknowledged_seqn,
                 async, networkVars, receiverVars, puts, overtook, refused>>

\* read_header meets an acknowledgement.
Acknowledge ==
  /\ link = "reading" /\ acks # <<>>
  /\ IF Head(acks) > acknowledged_seqn
       THEN acknowledged_seqn' = Head(acks) /\ refused' = refused
       ELSE acknowledged_seqn' = acknowledged_seqn /\ refused' = TRUE
  /\ acks' = Tail(acks)
  /\ UNCHANGED <<state, data, queue, pending_queue, max_sent_seqn, current_seqn, interrupt_balance,
                 threadVars, up, connection, packages, receiverVars, puts, overtook>>

\* The end of receiverProc: pause waits for process, but the async thread may
\* have grabbed and not have begun to process.
Pause ==
  /\ link = "reading" /\ ~up /\ acks = <<>> /\ ~Processing
  /\ interrupt_balance' = interrupt_balance + 1
  /\ link' = "down"
  /\ UNCHANGED <<state, data, queue, pending_queue, max_sent_seqn, current_seqn, acknowledged_seqn,
                 async, resent, networkVars, receiverVars, puts, overtook, refused>>

-----------------------------------------------------------------------------
(* The network and the receiver's socket thread *)

\* A stopped wire closes its socket; other breaks are bounded.
Break ==
  /\ up /\ (connection <= MaxBreaks \/ state = "Terminated")
  /\ up' = FALSE
  /\ \E kept \in 0 .. Len(packages) : packages' = SubSeq(packages, 1, kept)
  /\ \E kept \in 0 .. Len(acks) : acks' = SubSeq(acks, 1, kept)
  /\ UNCHANGED <<bufferVars, threadVars, connection, receiverVars, puts, overtook, refused>>

IsDuplicate(p) == p.seqn <= max_received_seqn /\ p.seqn # 1

\* For a duplicate read_package returns `true' as the length: the stream goes on
\* with one byte of it, and no later message is read as it was written.  Number
\* 1 is never a duplicate.  A new package is passed on.
Take(p) ==
  /\ max_received_seqn' = IF IsDuplicate(p) THEN max_received_seqn ELSE p.seqn
  /\ accepted' = IF IsDuplicate(p) THEN accepted ELSE accepted \cup {p.seqn}
  /\ highest' = IF p.seqn > highest THEN p.seqn ELSE highest
  /\ garbled' = (garbled \/ IsDuplicate(p))
  /\ delivered' = IF IsDuplicate(p) \/ garbled THEN delivered ELSE Append(delivered, p.message)

\* An acknowledgement goes back over the connection its package came by.
Answer(p, seqn) == IF up /\ p.over = connection THEN Append(acks, seqn) ELSE acks

\* Fault: the number that is acknowledged is the one expected next.
ReceiveNext ==
  /\ packages # <<>>
  /\ acks' = Answer(Head(packages), Head(packages).seqn + 1)
  /\ Take(Head(packages))
  /\ packages' = Tail(packages)
  /\ UNCHANGED <<bufferVars, threadVars, up, connection, puts, overtook, refused>>

\* Fault: a duplicate is dropped before it is acknowledged.
ReceiveQuietly ==
  /\ packages # <<>>
  /\ acks' = IF IsDuplicate(Head(packages)) THEN acks ELSE Answer(Head(packages), Head(packages).seqn)
  /\ Take(Head(packages))
  /\ packages' = Tail(packages)
  /\ UNCHANGED <<bufferVars, threadVars, up, connection, puts, overtook, refused>>

\* read_package acknowledges whatever it reads, before anyone handles it.
Receive ==
  /\ packages # <<>>
  /\ acks' = Answer(Head(packages), Head(packages).seqn)
  /\ Take(Head(packages))
  /\ packages' = Tail(packages)
  /\ UNCHANGED <<bufferVars, threadVars, up, connection, puts, overtook, refused>>

-----------------------------------------------------------------------------

AsyncThread == Grab \/ SendNext \/ RecordSent \/ EndProcess \/ Exit

SocketThread == Connect \/ Reprocess \/ Resend \/ EndResume \/ Acknowledge \/ Pause

Next == Put \/ Stop \/ Terminate \/ AsyncThread \/ SocketThread \/ Break \/ Receive

\* Each thread goes on when it can.  Nobody has to put, to stop or to break.
Fairness ==
  /\ WF_vars(AsyncThread)
  /\ WF_vars(SocketThread)
  /\ WF_vars(Receive)

Spec == Init /\ [][Next]_vars /\ Fairness

-----------------------------------------------------------------------------
(* Properties *)

TypeOK ==
  /\ state \in {"AsyncProcessing", "Stopping", "Terminated"}
  /\ data \in Seq(Nat) /\ queue \in Seq(Nat) /\ pending_queue \in Seq(Nat)
  /\ max_sent_seqn \in Nat /\ current_seqn \in Nat /\ acknowledged_seqn \in Nat
  /\ interrupt_balance \in {0, 1}
  /\ async \in {"waiting", "grabbed", "processing", "sent", "exited"}
  /\ link \in {"down", "connected", "resending", "reading"}
  /\ resent \in Nat
  /\ up \in BOOLEAN /\ connection \in Nat
  /\ packages \in Seq(Package) /\ acks \in Seq(Nat)
  /\ max_received_seqn \in Nat /\ garbled \in BOOLEAN /\ delivered \in Seq(Nat)
  /\ puts \in Nat /\ accepted \in SUBSET Nat /\ highest \in Nat
  /\ overtook \in BOOLEAN /\ refused \in BOOLEAN

\* The messages of s are the ones put from number n on.
PutFrom(s, n) == \A i \in 1 .. Len(s) : s[i] = n + i - 1

\* Between put, grab, send, resend and pause no message is forgotten, doubled
\* or put out of order: pending_queue, queue and data hold, one after the
\* other, all that was put and is not acknowledged, and the two counters agree
\* with them (reprocess never pops an empty pending_queue).
NothingForgotten ==
  /\ Len(pending_queue) = max_sent_seqn - current_seqn + 1
  /\ puts = max_sent_seqn + Len(queue) + Len(data)
  /\ PutFrom(pending_queue, current_seqn)
  /\ PutFrom(queue, max_sent_seqn + 1)
  /\ PutFrom(data, max_sent_seqn + Len(queue) + 1)

\* A package that is resent, over any connection, carries the number it was
\* first sent with: the receiver can know it by its number.
NumbersAreKept == \A i \in 1 .. Len(packages) : packages[i].seqn = packages[i].message

\* The receiver passes over no message, whatever breaks, as long as no new
\* package went out on a connection before the old ones were resent over it.
Gapless == ~overtook => accepted = 1 .. highest

\* What the sender was told of, and may drop, was received.
ConfirmedWasReceived == ~overtook => 1 .. acknowledged_seqn \subseteq accepted

\* No acknowledgement is older than the last, which the code takes for an error.
AcksGrow == ~overtook => ~refused

\* What the comment in the error message of acknowledge requires.
EveryAckIsNext == ~refused

\* Until the first reconnection the receiver passes on every message once and
\* in order, however the threads of the sender interleave.
OnceOverOneConnection ==
  connection <= 1 => ~garbled /\ delivered = [i \in 1 .. highest |-> i]

\* The number of the last package that left, counted or not.
Sent == IF async = "sent" THEN max_sent_seqn + 1 ELSE max_sent_seqn

W == INSTANCE Window WITH put <- puts, sent <- Sent, received <- highest, confirmed <- acknowledged_seqn

\* The wire is a window over the messages put: none is received before it was
\* sent or confirmed before it was received, through all breaks and races.
Promise == W!Spec

\* When the connections stop breaking, everything sent is confirmed, and all
\* that was put is sent but for what a failed send left in the queue.
SentIsConfirmed ==
  <>[](state = "AsyncProcessing") => <>[](acknowledged_seqn = max_sent_seqn /\ data = <<>>)

=============================================================================
