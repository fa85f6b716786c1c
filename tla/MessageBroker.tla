----------------------------- MODULE MessageBroker -----------------------------
(***************************************************************************)
(* The message broker of a protocol: it hands the messages that the wire   *)
(* reads on its socket thread to the entities they are for, each on the    *)
(* scheduler of that entity.                                               *)
(*                                                                         *)
(* A message for an id that nobody has subscribed yet waits in an entry    *)
(* of the broker, and a deferred action is queued on the default scheduler *)
(* to look again: the subscription may be on its way there.  Messages that *)
(* come after the subscription, but before that look, are held back in the *)
(* same entry, unless the entity runs on the default scheduler itself.     *)
(*                                                                         *)
(* dispatch and parts of the actions hold the lock.  A deferred action     *)
(* holds it only for its second step: it asks whether the queue is empty,  *)
(* and erases the entry, without it.                                       *)
(***************************************************************************)
EXTENDS Integers, Sequences, FiniteSets

CONSTANTS
  DefaultIds,   \* ids of entities on the default scheduler
  CustomIds,    \* on another scheduler that keeps the order
  UnorderedIds, \* on another scheduler, which out_of_order_execution allows to mix
  MaxMessages,  \* bound: how many messages arrive
  MaxEntities   \* bound: how often an entity subscribes

Id == DefaultIds \cup CustomIds \cup UnorderedIds

ASSUME BrokerAssumption ==
  /\ DefaultIds \cap CustomIds = {} /\ DefaultIds \cap UnorderedIds = {}
  /\ CustomIds \cap UnorderedIds = {}
  /\ MaxMessages \in Nat /\ MaxEntities \in Nat

VARIABLES
  sent,           \* the ids of the messages so far: message n is for sent[n]
  subscriptions,  \* by id: an entity, Null, or Absent
  broker,         \* the entry of each id, and what waits in it
  dispatching,    \* the message the socket thread dispatches under the lock
  action,         \* the deferred action the default scheduler runs
  defaultQueue,   \* what is queued on the default scheduler
  customQueue,    \* what is queued on the other scheduler
  entities,       \* how many entities have subscribed
  executed,       \* the messages handed to a living entity, in order
  dropped,        \* the messages of which the log says that nobody handles them
  astray,         \* the messages handed to an entity that has gone
  crashed,        \* the program used what is no more
  raced,          \* auxiliary: ids of which a message came while their entry went
  abandoned       \* auxiliary: ids whose entity left while a message was, or was being, held back

queues == <<defaultQueue, customQueue>>
results == <<executed, dropped, astray>>
history == <<raced, abandoned>>
brokerVars ==
  <<sent, subscriptions, broker, dispatching, action, queues, entities, results, crashed, history>>

\* operator[] of the map of subscriptions leaves Null behind for an absent id.
Absent == 0
Null == -1
IsEntity(s) == s > 0

MessageNumber == 1 .. MaxMessages

\* An entry is named by the message that made it; 0 for none.
NoEntry == [entry |-> 0, default_scheduler_messages |-> <<>>, custom_scheduler_messages |-> <<>>]

Idle == [at |-> "idle", id |-> 0, entry |-> 0, subscription |-> Absent, message |-> 0, taken |-> <<>>]
NoDispatch == [message |-> 0, subscription |-> Absent, entry |-> 0]

Deferred(id, entry) == [op |-> "deferred", id |-> id, entry |-> entry, message |-> 0, that |-> 0]
Invocation(id, that, n) == [op |-> "invoke", id |-> id, entry |-> 0, message |-> n, that |-> that]

-----------------------------------------------------------------------------

BrokerInit ==
  /\ sent = <<>>
  /\ subscriptions = [id \in Id |-> Absent]
  /\ broker = [id \in Id |-> NoEntry]
  /\ dispatching = NoDispatch
  /\ action = Idle
  /\ defaultQueue = <<>> /\ customQueue = <<>>
  /\ entities = 0
  /\ executed = <<>> /\ dropped = {} /\ astray = {}
  /\ crashed = FALSE
  /\ raced = {} /\ abandoned = {}

\* subscriptions[id]
Lookup(id) ==
  subscriptions' = [subscriptions EXCEPT ![id] = IF @ = Absent THEN Null ELSE @]

\* invoke that is not sync: the scheduler of the entity gets an action.
Invoke(id, that, messages) ==
  LET actions == [i \in 1 .. Len(messages) |-> Invocation(id, that, messages[i])] IN
  IF id \in DefaultIds
    THEN defaultQueue' = defaultQueue \o actions /\ UNCHANGED customQueue
    ELSE customQueue' = customQueue \o actions /\ UNCHANGED defaultQueue

-----------------------------------------------------------------------------
(* The socket thread: dispatch *)

\* It takes the lock, looks for the subscription and for the entry of the id.
\* Without a subscription the entry is made.
Dispatch(id) ==
  /\ ~crashed /\ dispatching.message = 0
  /\ Len(sent) < MaxMessages
  /\ LET n == Len(sent) + 1
         s == subscriptions[id]
         entry == IF broker[id].entry = 0 /\ ~IsEntity(s) THEN n ELSE broker[id].entry IN
       /\ sent' = Append(sent, id)
       /\ broker' = [broker EXCEPT ![id].entry = entry]
       /\ dispatching' = [message |-> n, subscription |-> s, entry |-> entry]
       /\ Lookup(id)
  /\ UNCHANGED <<action, queues, entities, results, crashed, history>>

\* Whether the running action is taking the entry of id away.
Closing(id) == action.id = id /\ action.at \in {"take", "flush"}

\* Nobody is there: the message waits, and an action that holds the entry found
\* before will look again.
Defer(id) ==
  /\ broker' = [broker EXCEPT ![id].entry = IF @ = 0 THEN dispatching.message ELSE @,
                              ![id].default_scheduler_messages = Append(@, dispatching.message)]
  /\ defaultQueue' = Append(defaultQueue, Deferred(id, dispatching.entry))
  /\ UNCHANGED <<customQueue, crashed>>

\* Fault: no message is held back.
HoldNone(id) == Invoke(id, dispatching.subscription, <<dispatching.message>>) /\ UNCHANGED <<broker, crashed>>

\* Fault: messages are held back although their scheduler keeps no order.
HoldAny(id) ==
  IF id \notin DefaultIds /\ dispatching.entry # 0
    THEN /\ crashed' = (broker[id].entry # dispatching.entry)
         /\ broker' = [broker EXCEPT ![id].custom_scheduler_messages = Append(@, dispatching.message)]
         /\ UNCHANGED queues
    ELSE Invoke(id, dispatching.subscription, <<dispatching.message>>) /\ UNCHANGED <<broker, crashed>>

\* Somebody is there: the message is handed on, or held back behind those that
\* wait, if its scheduler is to keep the order.
Hand(id) ==
  IF id \in CustomIds /\ dispatching.entry # 0
    THEN /\ crashed' = (broker[id].entry # dispatching.entry)
         /\ broker' = [broker EXCEPT ![id].custom_scheduler_messages = Append(@, dispatching.message)]
         /\ UNCHANGED queues
    ELSE Invoke(id, dispatching.subscription, <<dispatching.message>>) /\ UNCHANGED <<broker, crashed>>

\* It puts the message where it belongs and gives the lock back.
Put ==
  /\ ~crashed /\ dispatching.message # 0
  /\ LET id == sent[dispatching.message] IN
       /\ IF IsEntity(dispatching.subscription) THEN Hand(id) ELSE Defer(id)
       /\ raced' = IF Closing(id) THEN raced \cup {id} ELSE raced
  /\ dispatching' = NoDispatch
  /\ UNCHANGED <<sent, subscriptions, action, entities, results, abandoned>>

-----------------------------------------------------------------------------
(* The default scheduler: one thread, one action after the other *)

Free == dispatching.message = 0

\* advise_on, from a task of the default scheduler
AdviseOn(id) ==
  /\ ~crashed /\ action = Idle /\ Free
  /\ entities < MaxEntities /\ ~IsEntity(subscriptions[id])
  /\ entities' = entities + 1
  /\ subscriptions' = [subscriptions EXCEPT ![id] = entities + 1]
  /\ UNCHANGED <<sent, broker, dispatching, action, queues, results, crashed, history>>

\* The lifetime of the subscription ends; this takes no lock.
LifetimeEnds(id) ==
  /\ ~crashed /\ action = Idle
  /\ IsEntity(subscriptions[id])
  /\ subscriptions' = [subscriptions EXCEPT ![id] = Absent]
  /\ abandoned' = IF /\ id \in CustomIds
                     /\ \/ broker[id].custom_scheduler_messages # <<>>
                        \/ ~Free /\ sent[dispatching.message] = id
                    THEN abandoned \cup {id} ELSE abandoned
  /\ UNCHANGED <<sent, broker, dispatching, action, queues, entities, results, crashed, raced>>

\* The deferred action reads the subscription.
BeginDeferred ==
  /\ ~crashed /\ action = Idle
  /\ defaultQueue # <<>> /\ Head(defaultQueue).op = "deferred"
  /\ LET d == Head(defaultQueue) IN
       /\ action' = [Idle EXCEPT !.at = "pop", !.id = d.id, !.entry = d.entry,
                                 !.subscription = subscriptions[d.id]]
       /\ Lookup(d.id)
  /\ defaultQueue' = Tail(defaultQueue)
  /\ UNCHANGED <<sent, broker, dispatching, customQueue, entities, results, crashed, history>>

\* Under the lock it takes the first message, if there is one.  Its entry may
\* have been erased.
Pop ==
  /\ ~crashed /\ action.at = "pop" /\ Free
  /\ LET mq == broker[action.id]
         waiting == mq.default_scheduler_messages IN
       /\ crashed' = (mq.entry # action.entry)
       /\ action' = [action EXCEPT !.at = "deliver", !.message = IF waiting = <<>> THEN 0 ELSE Head(waiting)]
       /\ broker' = [broker EXCEPT ![action.id].default_scheduler_messages =
                       IF waiting = <<>> THEN <<>> ELSE Tail(waiting)]
  /\ UNCHANGED <<sent, subscriptions, dispatching, queues, entities, results, history>>

\* The message goes to the entity, at once on the default scheduler.
Deliver ==
  /\ ~crashed /\ action.at = "deliver"
  /\ IF ~IsEntity(action.subscription)
       THEN /\ dropped' = dropped \cup ({action.message} \ {0})
            /\ UNCHANGED <<executed, queues>>
       ELSE /\ IF action.message = 0
                 THEN UNCHANGED <<executed, queues>>
                 ELSE IF action.id \in DefaultIds
                   THEN executed' = Append(executed, action.message) /\ UNCHANGED queues
                   ELSE Invoke(action.id, action.subscription, <<action.message>>) /\ UNCHANGED executed
            /\ UNCHANGED dropped
  /\ action' = [action EXCEPT !.at = "check", !.message = 0]
  /\ UNCHANGED <<sent, subscriptions, broker, dispatching, entities, astray, crashed, history>>

\* Fault: the entry goes with the messages that wait in it.
CheckNothing ==
  /\ ~crashed /\ action.at = "check"
  /\ action' = [action EXCEPT !.at = "take"]
  /\ UNCHANGED <<sent, subscriptions, broker, dispatching, queues, entities, results, crashed, history>>

\* Fault: an entry with messages that are held back stays.
CheckBoth ==
  /\ ~crashed /\ action.at = "check"
  /\ action' = IF /\ broker[action.id].default_scheduler_messages = <<>>
                  /\ broker[action.id].custom_scheduler_messages = <<>>
                 THEN [action EXCEPT !.at = "take"] ELSE Idle
  /\ UNCHANGED <<sent, subscriptions, broker, dispatching, queues, entities, results, crashed, history>>

\* Without the lock it asks whether more is waiting.
Check ==
  /\ ~crashed /\ action.at = "check"
  /\ action' = IF broker[action.id].default_scheduler_messages = <<>>
                 THEN [action EXCEPT !.at = "take"] ELSE Idle
  /\ UNCHANGED <<sent, subscriptions, broker, dispatching, queues, entities, results, crashed, history>>

\* It moves the entry out of the broker, with whatever is in it by now.
Take ==
  /\ ~crashed /\ action.at = "take"
  /\ action' = [action EXCEPT !.at = "flush", !.taken = broker[action.id].custom_scheduler_messages]
  /\ broker' = [broker EXCEPT ![action.id] = NoEntry]
  /\ raced' = IF ~Free /\ sent[dispatching.message] = action.id THEN raced \cup {action.id} ELSE raced
  /\ UNCHANGED <<sent, subscriptions, dispatching, queues, entities, results, crashed, abandoned>>

\* The messages that were held back follow, one by one.
Flush ==
  /\ ~crashed /\ action.at = "flush"
  /\ IF action.taken = <<>>
       THEN action' = Idle /\ UNCHANGED <<queues, crashed>>
       ELSE /\ action' = [action EXCEPT !.taken = Tail(@)]
            /\ crashed' = ~IsEntity(action.subscription)
            /\ IF IsEntity(action.subscription)
                 THEN Invoke(action.id, action.subscription, <<Head(action.taken)>>)
                 ELSE UNCHANGED queues
  /\ UNCHANGED <<sent, subscriptions, broker, dispatching, entities, results, history>>

-----------------------------------------------------------------------------
(* The action that invoke queued, on either scheduler *)

\* Fault: it does not look for the id.
ExecuteAny(t) ==
  /\ executed' = IF subscriptions[t.id] = t.that THEN Append(executed, t.message) ELSE executed
  /\ astray' = IF subscriptions[t.id] # t.that THEN astray \cup {t.message} ELSE astray
  /\ UNCHANGED dropped

\* It looks for the id in the subscriptions, not for the entity it holds.
Execute(t) ==
  LET s == subscriptions[t.id] IN
  /\ dropped' = IF s = Absent THEN dropped \cup {t.message} ELSE dropped
  /\ executed' = IF s = t.that THEN Append(executed, t.message) ELSE executed
  /\ astray' = IF s # Absent /\ s # t.that THEN astray \cup {t.message} ELSE astray

RunInvoked ==
  /\ ~crashed /\ action = Idle /\ Free
  /\ defaultQueue # <<>> /\ Head(defaultQueue).op = "invoke"
  /\ Execute(Head(defaultQueue))
  /\ defaultQueue' = Tail(defaultQueue)
  /\ UNCHANGED <<sent, subscriptions, broker, dispatching, action, customQueue, entities, crashed, history>>

RunCustom ==
  /\ ~crashed /\ Free
  /\ customQueue # <<>>
  /\ Execute(Head(customQueue))
  /\ customQueue' = Tail(customQueue)
  /\ UNCHANGED <<sent, subscriptions, broker, dispatching, action, defaultQueue, entities, crashed, history>>

-----------------------------------------------------------------------------

SocketThread == (\E id \in Id : Dispatch(id)) \/ Put

DefaultThread == BeginDeferred \/ Pop \/ Deliver \/ Check \/ Take \/ Flush \/ RunInvoked

BrokerNext ==
  \/ SocketThread \/ DefaultThread \/ RunCustom
  \/ \E id \in Id : AdviseOn(id) \/ LifetimeEnds(id)

BrokerSpec == BrokerInit /\ [][BrokerNext]_brokerVars

\* The threads of the program run: a dispatch that has the lock ends, and the
\* schedulers take what is queued.  Nothing obliges a message to come, or an
\* entity to subscribe.
FairBrokerSpec == BrokerSpec /\ WF_brokerVars(Put) /\ WF_brokerVars(DefaultThread) /\ WF_brokerVars(RunCustom)

-----------------------------------------------------------------------------
(* Properties *)

Task == [op : {"deferred", "invoke"}, id : Id, entry : 0 .. MaxMessages,
         message : 0 .. MaxMessages, that : 0 .. MaxEntities]

BrokerTypeOK ==
  /\ sent \in Seq(Id) /\ Len(sent) <= MaxMessages
  /\ subscriptions \in [Id -> {Null, Absent} \cup 1 .. MaxEntities]
  /\ broker \in [Id -> [entry : 0 .. MaxMessages, default_scheduler_messages : Seq(MessageNumber),
                        custom_scheduler_messages : Seq(MessageNumber)]]
  /\ \A id \in Id \ CustomIds : broker[id].custom_scheduler_messages = <<>>
  /\ dispatching.message \in 0 .. Len(sent)
  /\ action.at \in {"idle", "pop", "deliver", "check", "take", "flush"}
  /\ action.message \in 0 .. Len(sent) /\ action.taken \in Seq(MessageNumber)
  /\ defaultQueue \in Seq(Task) /\ customQueue \in Seq(Task)
  /\ \A i \in 1 .. Len(customQueue) : customQueue[i].op = "invoke"
  /\ executed \in Seq(MessageNumber) /\ dropped \in SUBSET MessageNumber /\ astray \in SUBSET MessageNumber
  /\ crashed \in BOOLEAN /\ raced \in SUBSET Id /\ abandoned \in SUBSET CustomIds

Elements(s) == {s[i] : i \in 1 .. Len(s)}

\* An entity on a scheduler that keeps the order handles its messages in the
\* order in which they arrived, whatever waited and whatever was held back,
\* unless a message came while the entry of its id was taken away, or an entity
\* left while messages were held back for it.
InOrder ==
  \A i, j \in 1 .. Len(executed) :
    LET id == sent[executed[i]] IN
    i < j /\ sent[executed[j]] = id /\ id \notin UnorderedIds \cup raced \cup abandoned
      => executed[i] < executed[j]

\* Where message n is.
Settled(n) == n \in Elements(executed) \cup dropped \cup astray

Waiting(n) ==
  \/ dispatching.message = n \/ action.message = n \/ n \in Elements(action.taken)
  \/ n \in Elements(broker[sent[n]].default_scheduler_messages)
  \/ n \in Elements(broker[sent[n]].custom_scheduler_messages)
  \/ \E t \in Elements(defaultQueue) \cup Elements(customQueue) : t.message = n

\* No message is lost, again unless it came while the entry was taken away: it
\* is on its way, or was handled, or the log has a line about it.
NothingLost ==
  ~crashed => \A n \in 1 .. Len(sent) : sent[n] \in raced \/ Settled(n) \/ Waiting(n)

\* The program never uses an entry that is erased, or an entity that is not
\* there, in an action of the broker: each deferred action finds the entry its
\* message waits in.  This again needs ids that are neither raced nor abandoned.
CrashIsExplained == crashed => raced \cup abandoned # {}

\* A message goes to an entity that has left only if another message for the
\* same id found nobody there, before or after it, or another entity took the
\* id: otherwise the check in the queued action notices that nobody is there.
AstrayNeedsCompany ==
  \A n \in astray :
    \/ \E k \in 1 .. Len(sent) : k # n /\ sent[k] = sent[n] /\ (k \in dropped \/ Waiting(k))
    \/ entities > 1

\* Every message is handled or given up in the end, those that are held back
\* included, unless the program crashed or the id was raced.
Decided ==
  \A n \in MessageNumber :
    (n <= Len(sent)) ~> (crashed \/ (n <= Len(sent) /\ (Settled(n) \/ sent[n] \in raced)))

=============================================================================
