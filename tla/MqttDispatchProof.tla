-------------------------- MODULE MqttDispatchProof --------------------------
(***************************************************************************)
(* Proofs about MqttDispatch: no message is dropped silently, and without  *)
(* redelivery a message is handled once and the channel keeps the order,   *)
(* for any number of workers and messages, any size of the channel, and    *)
(* any number of lost connections and restarts.                            *)
(*                                                                         *)
(* Neither is inductive.  NothingDropped does not say that what the broker *)
(* is about to forget is on the channel or further: HandIsHead and         *)
(* HandIsQueued do.  HandledOnce does not say why the message put on the   *)
(* channel is a new one: the broker keeps its messages in order, and all   *)
(* that has left it is older than what it keeps (Ordered).                 *)
(***************************************************************************)
EXTENDS MqttDispatch, SequenceTheorems, TLAPS

Increasing(s) == \A i, j \in DOMAIN s : i < j => s[i] < s[j]

\* All that is with the process or has left it.
Passed == InProgress \cup Settled

\* What paho has in hand is the oldest message the broker keeps.
HandIsHead ==
    /\ inHand # Idle => broker # <<>> /\ inHand = Head(broker)
    /\ inHand = Idle => ~onQueue

\* Once the send has gone through, the message is in progress or settled.
HandIsQueued == onQueue => inHand \in Passed

\* What has left the broker is older than what it keeps, up to the message
\* that is on the channel and not acknowledged yet.
Ordered ==
    /\ Increasing(broker) /\ Range(broker) \subseteq 1 .. published
    /\ Passed \subseteq 1 .. published
    /\ \A m \in Passed, b \in Range(broker) : m <= b /\ (~onQueue => m < b)

\* The queue is in order and a message is in one place only.
OnePlace ==
    /\ Increasing(queue)
    /\ \A v, w \in Workers : worker[v] = worker[w] /\ worker[w] # Idle => v = w
    /\ (InProgress \cap Settled) = {}
    /\ \A w \in Workers : worker[w] \notin Range(queue)

IInv ==
    /\ DispatchTypeOK
    /\ HandIsHead /\ HandIsQueued
    /\ NothingDropped
    /\ losses + restarts = 0 => Ordered /\ OnePlace

USE DispatchAssumption

LEMMA MessageFacts == Messages \subseteq Nat /\ Idle \notin Messages
BY DEF Messages

-----------------------------------------------------------------------------
(* Appending to a sequence of messages, and taking its head.               *)

LEMMA AppendRange ==
    ASSUME NEW s \in Seq(Messages), NEW m \in Messages
    PROVE  /\ Append(s, m) \in Seq(Messages)
           /\ Len(Append(s, m)) = Len(s) + 1
           /\ Append(s, m) # <<>>
           /\ Range(Append(s, m)) = Range(s) \cup {m}
           /\ Head(Append(s, m)) = IF s = <<>> THEN m ELSE Head(s)
BY AppendProperties, HeadTailAppend DEF Range

LEMMA TailRange ==
    ASSUME NEW s \in Seq(Messages), s # <<>>
    PROVE  /\ Tail(s) \in Seq(Messages)
           /\ Len(Tail(s)) = Len(s) - 1
           /\ Head(s) \in Messages
           /\ Range(s) = {Head(s)} \cup Range(Tail(s))
<1>1. /\ Tail(s) \in Seq(Messages) /\ Head(s) \in Messages
      /\ Len(Tail(s)) = Len(s) - 1
      /\ \A i \in 1 .. Len(Tail(s)) : Tail(s)[i] = s[i + 1]
  BY HeadTailProperties
<1>2. Head(s) = s[1] /\ Len(s) \in Nat \ {0}
  OBVIOUS
<1>3. Range(Tail(s)) \subseteq Range(s) /\ Head(s) \in Range(s)
  BY <1>1, <1>2 DEF Range
<1>4. ASSUME NEW k \in Range(s), k # Head(s) PROVE k \in Range(Tail(s))
  <2>1. PICK i \in 1 .. Len(s) : k = s[i]
    BY <1>4 DEF Range
  <2>2. i - 1 \in 1 .. Len(Tail(s)) /\ Tail(s)[i - 1] = s[i]
    BY <1>1, <1>2, <1>4, <2>1
  <2>3. DOMAIN Tail(s) = 1 .. Len(Tail(s))
    BY <1>1, LenProperties
  <2> QED BY <2>1, <2>2, <2>3 DEF Range
<1> QED BY <1>1, <1>3, <1>4

LEMMA AppendIncreases ==
    ASSUME NEW s \in Seq(Messages), NEW m \in Messages, Increasing(s),
           \A k \in Range(s) : k < m
    PROVE  Increasing(Append(s, m))
BY AppendProperties, MessageFacts DEF Range, Increasing

LEMMA TailIncreases ==
    ASSUME NEW s \in Seq(Messages), s # <<>>, Increasing(s)
    PROVE  Increasing(Tail(s)) /\ \A k \in Range(Tail(s)) : Head(s) < k
<1>1. /\ Head(s) = s[1] /\ Len(s) \in Nat \ {0} /\ Len(Tail(s)) = Len(s) - 1
      /\ DOMAIN s = 1 .. Len(s) /\ DOMAIN Tail(s) = 1 .. Len(s) - 1
  BY HeadTailProperties, LenProperties
<1>2. \A i \in 1 .. Len(s) - 1 : Tail(s)[i] = s[i + 1]
  BY <1>1, HeadTailProperties
<1>3. ASSUME NEW i \in 1 .. Len(s) - 1
      PROVE  i + 1 \in 1 .. Len(s) /\ Head(s) < Tail(s)[i]
  BY <1>1, <1>2 DEF Increasing
<1>4. ASSUME NEW i \in 1 .. Len(s) - 1, NEW j \in 1 .. Len(s) - 1, i < j
      PROVE  Tail(s)[i] < Tail(s)[j]
  BY <1>1, <1>2, <1>3, <1>4 DEF Increasing
<1> QED BY <1>1, <1>3, <1>4 DEF Range, Increasing

\* The empty sequence has nothing in it.
LEMMA EmptyRange == <<>> \in Seq(Messages) /\ Range(<<>>) = {} /\ Increasing(<<>>) /\ Len(<<>>) = 0
BY DEF Range, Increasing

-----------------------------------------------------------------------------
(* Initially.                                                              *)

LEMMA InitIInv == DispatchInit => IInv
<1> SUFFICES ASSUME DispatchInit PROVE IInv
  OBVIOUS
<1>1. DispatchTypeOK
  <2>1. broker \in Seq(Messages) /\ queue \in Seq(Messages) /\ Len(queue) = 0
    BY EmptyRange DEF DispatchInit
  <2>2. worker \in [Workers -> Messages \cup {Idle}] /\ checked \in [Workers -> BOOLEAN]
    BY DEF DispatchInit
  <2>3. /\ published \in 0 .. MaxMessages /\ losses \in 0 .. MaxLosses
        /\ restarts \in 0 .. MaxRestarts /\ Len(queue) <= QueueSize
    BY <2>1 DEF DispatchInit
  <2> QED BY <2>1, <2>2, <2>3 DEF DispatchInit, DispatchTypeOK
<1>2. HandIsHead /\ HandIsQueued
  BY DEF DispatchInit, HandIsHead, HandIsQueued
<1>3. Passed = {} /\ Range(queue) = {} /\ Range(broker) = {}
  BY EmptyRange DEF DispatchInit, Passed, InProgress, Settled
<1>4. NothingDropped
  BY DEF DispatchInit, NothingDropped
<1>5. Ordered
  BY <1>3, EmptyRange DEF DispatchInit, Ordered
<1>6. OnePlace
  BY <1>3, EmptyRange DEF DispatchInit, OnePlace, Passed
<1> QED BY <1>1, <1>2, <1>4, <1>5, <1>6 DEF IInv
-----------------------------------------------------------------------------
(* The broker and paho's goroutine.                                        *)

LEMMA PublishKeeps ==
    ASSUME IInv, Publish
    PROVE  IInv'
<1>1. published \in Nat /\ published + 1 \in Messages /\ broker \in Seq(Messages)
  BY DEF IInv, DispatchTypeOK, Publish, Messages
<1>2. /\ broker' \in Seq(Messages) /\ broker' # <<>>
      /\ Range(broker') = Range(broker) \cup {published + 1}
      /\ broker # <<>> => Head(broker') = Head(broker)
  BY <1>1, AppendRange DEF Publish
<1>3. /\ published' = published + 1 /\ Passed' = Passed
      /\ InProgress' = InProgress /\ Settled' = Settled
      /\ UNCHANGED <<inHand, onQueue, queue, worker, losses, restarts>>
  BY DEF Publish, Passed, InProgress, Settled, outcome, bounds
<1>4. DispatchTypeOK'
  BY <1>1, <1>2, <1>3 DEF IInv, DispatchTypeOK, Publish, outcome, Messages
<1>5. HandIsHead' /\ HandIsQueued'
  BY <1>2, <1>3 DEF IInv, HandIsHead, HandIsQueued
<1>6. NothingDropped'
  BY <1>1, <1>2, <1>3 DEF IInv, NothingDropped
<1>7. losses + restarts = 0 => Ordered'
  <2> SUFFICES ASSUME Ordered PROVE Ordered'
    BY DEF IInv
  <2>1. \A m \in Range(broker) \cup Passed : m < published + 1
    <3>1. Range(broker) \cup Passed \subseteq 1 .. published
      BY DEF Ordered
    <3> QED BY <1>1, <3>1
  <2>2. Increasing(broker')
    BY <1>1, <2>1, AppendIncreases DEF Ordered, Publish
  <2>3. 1 .. published' = (1 .. published) \cup {published + 1}
    BY <1>1, <1>3
  <2> QED BY <1>2, <1>3, <2>1, <2>2, <2>3 DEF Ordered
<1>8. losses + restarts = 0 => OnePlace'
  BY <1>3 DEF IInv, OnePlace
<1> QED BY <1>3, <1>4, <1>5, <1>6, <1>7, <1>8 DEF IInv

LEMMA ReceiveKeeps ==
    ASSUME IInv, Receive
    PROVE  IInv'
<1>1. /\ inHand = Idle /\ broker # <<>> /\ inHand' = Head(broker) /\ ~onQueue /\ ~onQueue'
      /\ Passed' = Passed /\ InProgress' = InProgress /\ Settled' = Settled
      /\ UNCHANGED <<broker, published, queue, worker, losses, restarts>>
  BY DEF Receive, IInv, HandIsHead, Passed, InProgress, Settled, outcome, bounds
<1>2. DispatchTypeOK'
  BY <1>1, TailRange DEF IInv, DispatchTypeOK, Receive, outcome
<1>3. HandIsHead' /\ HandIsQueued'
  BY <1>1, <1>2, MessageFacts, TailRange DEF HandIsHead, HandIsQueued, IInv, DispatchTypeOK
<1>4. NothingDropped' /\ (losses + restarts = 0 => Ordered' /\ OnePlace')
  BY <1>1 DEF IInv, NothingDropped, Ordered, OnePlace
<1> QED BY <1>1, <1>2, <1>3, <1>4 DEF IInv

\* The message put on the channel is newer than all that went before.
LEMMA EnqueueKeeps ==
    ASSUME IInv, Enqueue
    PROVE  IInv'
<1>1. /\ inHand \in Messages /\ broker # <<>> /\ inHand = Head(broker) /\ ~onQueue /\ onQueue'
      /\ queue \in Seq(Messages) /\ Len(queue) < QueueSize /\ broker \in Seq(Messages)
      /\ UNCHANGED <<broker, published, inHand, worker, losses, restarts>>
      /\ Settled' = Settled
  BY DEF Enqueue, IInv, DispatchTypeOK, HandIsHead, Settled, outcome, bounds
<1>2. /\ queue' \in Seq(Messages) /\ Len(queue') = Len(queue) + 1
      /\ Range(queue') = Range(queue) \cup {inHand}
  BY <1>1, AppendRange DEF Enqueue
<1>3. InProgress' = InProgress \cup {inHand} /\ Passed' = Passed \cup {inHand}
  BY <1>1, <1>2, MessageFacts DEF InProgress, Passed
<1>4. DispatchTypeOK'
  BY <1>1, <1>2, LenProperties DEF IInv, DispatchTypeOK, Enqueue, outcome
<1>5. HandIsHead' /\ HandIsQueued'
  BY <1>1, <1>3, MessageFacts DEF IInv, HandIsHead, HandIsQueued
<1>6. NothingDropped'
  BY <1>1, <1>3 DEF IInv, NothingDropped
<1>7. inHand \in Range(broker) /\ Range(broker) \subseteq Messages
  BY <1>1, TailRange, RangeOfSeq
<1>8. ASSUME Ordered PROVE Ordered'
  <2>1. \A b \in Range(broker) : inHand <= b
    BY <1>1, <1>7, <1>8, TailRange, TailIncreases, MessageFacts DEF Ordered
  <2> QED BY <1>1, <1>3, <1>7, <1>8, <2>1 DEF Ordered
<1>9. ASSUME Ordered, OnePlace PROVE OnePlace'
  <2>1. \A m \in Passed : m < inHand
    BY <1>1, <1>7, <1>9 DEF Ordered
  <2>2. inHand \notin Passed
    BY <1>1, <2>1, MessageFacts
  <2>3. Increasing(queue')
    <3>1. Range(queue) \subseteq Passed
      BY DEF Passed, InProgress
    <3> QED BY <1>1, <1>9, <2>1, <3>1, AppendIncreases DEF OnePlace, Enqueue
  <2>4. \A w \in Workers : worker[w] # inHand
    BY <1>1, <2>2, MessageFacts DEF Passed, InProgress
  <2> QED BY <1>1, <1>2, <1>3, <1>9, <2>2, <2>3, <2>4 DEF OnePlace, Passed
<1> QED BY <1>1, <1>4, <1>5, <1>6, <1>8, <1>9 DEF IInv

\* What the broker forgets is on the channel or further.
LEMMA AcknowledgeKeeps ==
    ASSUME IInv, Acknowledge
    PROVE  IInv'
<1>1. /\ inHand # Idle /\ broker # <<>> /\ inHand = Head(broker) /\ onQueue
      /\ inHand' = Idle /\ ~onQueue' /\ broker' = Tail(broker) /\ broker \in Seq(Messages)
      /\ inHand \in Passed
      /\ UNCHANGED <<published, queue, worker, losses, restarts>>
      /\ Passed' = Passed /\ InProgress' = InProgress /\ Settled' = Settled
  BY DEF Acknowledge, IInv, DispatchTypeOK, HandIsHead, HandIsQueued, Passed, InProgress, Settled,
         outcome, bounds
<1>2. broker' \in Seq(Messages) /\ Range(broker) = {inHand} \cup Range(broker')
  BY <1>1, TailRange
<1>3. DispatchTypeOK'
  BY <1>1, <1>2 DEF IInv, DispatchTypeOK, Acknowledge, outcome
<1>4. HandIsHead' /\ HandIsQueued'
  BY <1>1 DEF HandIsHead, HandIsQueued
<1>5. NothingDropped'
  BY <1>1, <1>2 DEF IInv, NothingDropped, Passed
<1>6. ASSUME Ordered PROVE Ordered'
  <2>1. Increasing(broker') /\ \A b \in Range(broker') : inHand < b
    BY <1>1, <1>6, TailIncreases DEF Ordered
  <2>2. \A m \in Passed : m <= inHand
    BY <1>2, <1>6 DEF Ordered
  <2>3. \A m \in Passed, b \in Range(broker') : m < b
    BY <1>1, <1>2, <1>6, <2>1, <2>2 DEF Ordered, IInv, DispatchTypeOK
  <2> QED BY <1>1, <1>2, <1>6, <2>1, <2>3 DEF Ordered
<1>7. OnePlace => OnePlace'
  BY <1>1 DEF OnePlace
<1> QED BY <1>1, <1>3, <1>4, <1>5, <1>6, <1>7 DEF IInv

\* Redelivery may put a message on the channel twice.
LEMMA ConnectionLostKeeps ==
    ASSUME IInv, ConnectionLost
    PROVE  IInv'
<1>1. /\ inHand \in Messages /\ inHand' = Idle /\ ~onQueue'
      /\ queue \in Seq(Messages) /\ Len(queue) <= QueueSize
      /\ UNCHANGED <<broker, published, worker, restarts>> /\ Settled' = Settled
      /\ losses \in Nat /\ restarts \in Nat /\ losses' = losses + 1 /\ losses' \in 0 .. MaxLosses
  BY DEF ConnectionLost, IInv, DispatchTypeOK, Settled, outcome
<1>2. \/ queue' = queue
      \/ Len(queue) < QueueSize /\ queue' = Append(queue, inHand)
  BY <1>1, LenProperties DEF ConnectionLost
<1>3. /\ queue' \in Seq(Messages) /\ Len(queue') <= QueueSize
      /\ Range(queue) \subseteq Range(queue')
  <2>1. CASE queue' = queue
    BY <1>1, <2>1
  <2>2. CASE Len(queue) < QueueSize /\ queue' = Append(queue, inHand)
    <3>1. /\ queue' \in Seq(Messages) /\ Len(queue') = Len(queue) + 1
          /\ Range(queue') = Range(queue) \cup {inHand}
      BY <1>1, <2>2, AppendRange
    <3>2. Len(queue') <= QueueSize
      BY <1>1, <2>2, <3>1, LenProperties
    <3> QED BY <3>1, <3>2
  <2> QED BY <1>2, <2>1, <2>2
<1>4. DispatchTypeOK'
  BY <1>1, <1>3 DEF IInv, DispatchTypeOK, ConnectionLost, outcome
<1>5. HandIsHead' /\ HandIsQueued'
  BY <1>1 DEF HandIsHead, HandIsQueued
<1>6. NothingDropped'
  BY <1>1, <1>3 DEF IInv, NothingDropped, InProgress
<1> QED BY <1>1, <1>4, <1>5, <1>6 DEF IInv

-----------------------------------------------------------------------------
(* The workers.                                                            *)

LEMMA TakeJobKeeps ==
    ASSUME IInv, NEW w \in Workers, TakeJob(w)
    PROVE  IInv'
<1>1. /\ worker[w] = Idle /\ queue # <<>> /\ queue \in Seq(Messages) /\ Len(queue) <= QueueSize
      /\ worker \in [Workers -> Messages \cup {Idle}]
      /\ worker' = [worker EXCEPT ![w] = Head(queue)] /\ queue' = Tail(queue)
      /\ UNCHANGED <<broker, published, inHand, onQueue, losses, restarts>> /\ Settled' = Settled
  BY DEF TakeJob, IInv, DispatchTypeOK, Settled, outcome, bounds
<1>2. /\ queue' \in Seq(Messages) /\ Len(queue') = Len(queue) - 1 /\ Head(queue) \in Messages
      /\ Range(queue) = {Head(queue)} \cup Range(queue')
  BY <1>1, TailRange
<1>3. \A v \in Workers : worker'[v] = IF v = w THEN Head(queue) ELSE worker[v]
  BY <1>1
<1>4. InProgress' = InProgress
  BY <1>1, <1>2, <1>3, MessageFacts DEF InProgress
<1>5. Passed' = Passed
  BY <1>1, <1>4 DEF Passed
<1>6. DispatchTypeOK'
  BY <1>1, <1>2, LenProperties DEF IInv, DispatchTypeOK, TakeJob, outcome, bounds
<1>7. HandIsHead' /\ HandIsQueued' /\ NothingDropped' /\ (Ordered => Ordered')
  BY <1>1, <1>4, <1>5 DEF IInv, HandIsHead, HandIsQueued, NothingDropped, Ordered
<1>8. ASSUME OnePlace PROVE OnePlace'
  <2>1. Increasing(queue') /\ Head(queue) \notin Range(queue')
    <3>1. Increasing(Tail(queue)) /\ \A k \in Range(Tail(queue)) : Head(queue) < k
      BY <1>1, <1>8, TailIncreases DEF OnePlace
    <3>2. Head(queue) \in Nat
      BY <1>2, MessageFacts
    <3>3. Head(queue) \notin Range(Tail(queue))
      BY <3>1, <3>2
    <3> QED BY <1>1, <3>1, <3>3
  <2>2. \A v \in Workers : worker[v] # Head(queue)
    BY <1>2, <1>8 DEF OnePlace
  <2>3. \A v, u \in Workers : worker'[v] = worker'[u] /\ worker'[v] # Idle => v = u
    BY <1>3, <1>8, <2>2 DEF OnePlace
  <2>4. \A v \in Workers : worker'[v] \notin Range(queue')
    BY <1>2, <1>3, <1>8, <2>1 DEF OnePlace
  <2> QED BY <1>1, <1>4, <1>8, <2>1, <2>3, <2>4 DEF OnePlace
<1> QED BY <1>1, <1>6, <1>7, <1>8 DEF IInv

\* A worker lets go of a message whose outcome is known.
LEMMA SettleKeeps ==
    ASSUME IInv, NEW w \in Workers, worker[w] # Idle,
           worker' = [worker EXCEPT ![w] = Idle],
           Settled' = Settled \cup {worker[w]},
           UNCHANGED <<broker, published, inHand, onQueue, queue, losses, restarts>>
    PROVE  /\ HandIsHead' /\ HandIsQueued' /\ NothingDropped'
           /\ losses + restarts = 0 => Ordered' /\ OnePlace'
<1>1. worker \in [Workers -> Messages \cup {Idle}]
  BY DEF IInv, DispatchTypeOK
<1>2. \A v \in Workers : worker'[v] = IF v = w THEN Idle ELSE worker[v]
  BY <1>1
<1>3. /\ InProgress' \subseteq InProgress /\ InProgress \subseteq InProgress' \cup {worker[w]}
      /\ worker[w] \in InProgress
  BY <1>2 DEF InProgress
<1>4. Passed' = Passed
  BY <1>3 DEF Passed
<1>5. HandIsHead' /\ HandIsQueued' /\ NothingDropped' /\ (Ordered => Ordered')
  BY <1>3, <1>4 DEF IInv, HandIsHead, HandIsQueued, NothingDropped, Ordered
<1>6. ASSUME OnePlace PROVE OnePlace'
  <2>1. worker[w] \notin InProgress'
    BY <1>2, <1>6 DEF InProgress, OnePlace
  <2>2. Idle \notin Range(queue')
    BY RangeOfSeq, MessageFacts DEF IInv, DispatchTypeOK
  <2> QED BY <1>2, <1>3, <1>6, <2>1, <2>2 DEF OnePlace
<1> QED BY <1>5, <1>6 DEF IInv

LEMMA CheckTriggerKeeps ==
    ASSUME IInv, NEW w \in Workers, CheckTrigger(w)
    PROVE  IInv'
<1>1. /\ UNCHANGED <<broker, published, inHand, onQueue, queue, enabled, fired, failed, losses, restarts>>
      /\ worker[w] # Idle /\ worker[w] \in Messages
  BY DEF CheckTrigger, IInv, DispatchTypeOK, bounds
<1>2. CASE enabled
  <2>1. checked' = [checked EXCEPT ![w] = TRUE] /\ UNCHANGED <<worker, refused>>
    BY <1>2 DEF CheckTrigger
  <2>2. DispatchTypeOK'
    BY <1>1, <2>1 DEF IInv, DispatchTypeOK
  <2>3. InProgress' = InProgress /\ Settled' = Settled /\ Passed' = Passed
    BY <1>1, <2>1 DEF InProgress, Settled, Passed
  <2> QED BY <1>1, <2>1, <2>2, <2>3 DEF IInv, HandIsHead, HandIsQueued, NothingDropped, Ordered, OnePlace
<1>3. CASE ~enabled
  <2>1. /\ worker' = [worker EXCEPT ![w] = Idle] /\ refused' = refused \cup {worker[w]}
        /\ UNCHANGED checked
    BY <1>3 DEF CheckTrigger
  <2>2. DispatchTypeOK'
    BY <1>1, <2>1 DEF IInv, DispatchTypeOK
  <2>3. Settled' = Settled \cup {worker[w]}
    BY <1>1, <2>1 DEF Settled
  <2> QED BY <1>1, <2>1, <2>2, <2>3, SettleKeeps DEF IInv
<1> QED BY <1>2, <1>3

LEMMA FireKeeps ==
    ASSUME IInv, NEW w \in Workers, Fire(w)
    PROVE  IInv'
<1>1. /\ UNCHANGED <<broker, published, inHand, onQueue, queue, enabled, refused, losses, restarts>>
      /\ worker[w] # Idle /\ worker[w] \in Messages
      /\ worker' = [worker EXCEPT ![w] = Idle] /\ checked' = [checked EXCEPT ![w] = FALSE]
      /\ \/ fired' = fired \cup {worker[w]} /\ UNCHANGED failed
         \/ failed' = failed \cup {worker[w]} /\ UNCHANGED fired
  BY DEF Fire, IInv, DispatchTypeOK, bounds
<1>2. DispatchTypeOK'
  BY <1>1 DEF IInv, DispatchTypeOK
<1>3. Settled' = Settled \cup {worker[w]}
  BY <1>1 DEF Settled
<1> QED BY <1>1, <1>2, <1>3, SettleKeeps DEF IInv

-----------------------------------------------------------------------------
(* A restart, and the steps that touch no message.                         *)

LEMMA RestartKeeps ==
    ASSUME IInv, Restart
    PROVE  IInv'
<1>1. restarts' = restarts + 1 /\ restarts \in Nat /\ losses \in Nat /\ UNCHANGED losses
  BY DEF Restart, IInv, DispatchTypeOK
<1>2. DispatchTypeOK'
  <2>1. queue' \in Seq(Messages) /\ Len(queue') <= QueueSize
    BY EmptyRange DEF Restart
  <2>2. worker' \in [Workers -> Messages \cup {Idle}] /\ checked' \in [Workers -> BOOLEAN]
    BY DEF Restart
  <2>3. restarts' \in 0 .. MaxRestarts
    BY <1>1 DEF Restart, IInv, DispatchTypeOK
  <2> QED BY <2>1, <2>2, <2>3 DEF Restart, IInv, DispatchTypeOK, outcome
<1>3. HandIsHead' /\ HandIsQueued'
  BY DEF Restart, HandIsHead, HandIsQueued
<1>4. restarts' # 0 /\ losses' + restarts' # 0
  BY <1>1
<1> QED BY <1>2, <1>3, <1>4 DEF IInv, NothingDropped

LEMMA QuietKeeps ==
    ASSUME IInv, Disable \/ UNCHANGED dispatchVars
    PROVE  IInv'
<1>1. /\ UNCHANGED <<broker, published, inHand, onQueue, queue, worker, checked, losses, restarts>>
      /\ UNCHANGED <<fired, refused, failed>> /\ enabled' \in BOOLEAN
  BY DEF Disable, dispatchVars, outcome, bounds, IInv, DispatchTypeOK
<1>2. InProgress' = InProgress /\ Settled' = Settled /\ Passed' = Passed
  BY <1>1 DEF InProgress, Settled, Passed
<1>3. DispatchTypeOK'
  BY <1>1 DEF IInv, DispatchTypeOK
<1> QED BY <1>1, <1>2, <1>3 DEF IInv, HandIsHead, HandIsQueued, NothingDropped, Ordered, OnePlace

-----------------------------------------------------------------------------
(* The theorems.                                                           *)

\* What the process has taken from the broker is accounted for (dispatch,
\* dispatchWorker and deliver): the inductive invariant.
THEOREM DispatchInvariant == DispatchSpec => []IInv
<1>1. IInv /\ [DispatchNext]_dispatchVars => IInv'
  <2> SUFFICES ASSUME IInv, [DispatchNext]_dispatchVars PROVE IInv'
    OBVIOUS
  <2>1. CASE Publish \/ ConnectionLost \/ Restart
    BY <2>1, PublishKeeps, ConnectionLostKeeps, RestartKeeps
  <2>2. CASE Client
    BY <2>2, ReceiveKeeps, EnqueueKeeps, AcknowledgeKeeps DEF Client
  <2>3. CASE \E w \in Workers : Work(w)
    BY <2>3, TakeJobKeeps, CheckTriggerKeeps, FireKeeps DEF Work
  <2>4. CASE Disable \/ UNCHANGED dispatchVars
    BY <2>4, QuietKeeps
  <2> QED BY <2>1, <2>2, <2>3, <2>4 DEF DispatchNext
<1> QED BY InitIInv, <1>1, PTL DEF DispatchSpec

\* The types; in particular the channel is never longer than its buffer.
THEOREM DispatchTypes == DispatchSpec => []DispatchTypeOK
<1>1. IInv => DispatchTypeOK
  BY DEF IInv
<1> QED BY <1>1, DispatchInvariant, PTL

\* "Real backpressure rather than a silent drop", for any size of the channel.
THEOREM NoSilentDrop == DispatchSpec => []NothingDropped
<1>1. IInv => NothingDropped
  BY DEF IInv
<1> QED BY <1>1, DispatchInvariant, PTL

\* Without redelivery a message is handled once and the channel keeps the
\* order of the broker, for any number of workers.
THEOREM OneOutcome == DispatchSpec => []HandledOnce
<1>1. IInv => HandledOnce
  <2> SUFFICES ASSUME IInv, Ordered, OnePlace PROVE HandledOnce
    BY DEF IInv, HandledOnce
  <2>1. \A i \in DOMAIN queue : queue[i] \in Passed
    BY DEF Passed, InProgress, Range
  <2>2. InOrder
    BY <2>1 DEF InOrder, Ordered, OnePlace, Increasing
  <2> QED BY <2>2 DEF HandledOnce, OnePlace
<1> QED BY <1>1, DispatchInvariant, PTL
=============================================================================
