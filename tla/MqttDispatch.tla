---------------------------- MODULE MqttDispatch ----------------------------
(***************************************************************************)
(* The way of an MQTT message from the broker to a flow run: paho hands    *)
(* messages one at a time to the subscribe handler (OrderMatters), which   *)
(* puts them on a bounded channel and blocks while it is full; a pool of   *)
(* workers reads the trigger again and starts the flow.                    *)
(*                                                                         *)
(* The session is durable: the broker keeps a message until the client     *)
(* acknowledges it, and paho acknowledges when the handler returns, that   *)
(* is, when the message is on the channel and nothing has run yet.         *)
(***************************************************************************)
EXTENDS Integers, Sequences, SequencesExt

CONSTANTS Workers,      \* dispatchWorkers
          QueueSize,    \* dispatchQueueSize
          MaxMessages,  \* messages published, 1, 2, ... in this order
          MaxLosses,    \* bound on lost connections
          MaxRestarts,  \* bound on restarts of the process
          Idle

ASSUME DispatchAssumption ==
    /\ QueueSize \in Nat \ {0} /\ MaxMessages \in Nat
    /\ MaxLosses \in Nat /\ MaxRestarts \in Nat
    /\ Idle \notin 1 .. MaxMessages

Messages == 1 .. MaxMessages

VARIABLES
    broker,     \* messages the broker still keeps for the session, in order
    published,  \* how many were published
    inHand,     \* the message paho has given to the handler, or Idle
    onQueue,    \* whether the handler has sent it on the channel
    queue,      \* Service.dispatch
    worker,     \* worker[w]: the message deliver is working on, or Idle
    checked,    \* checked[w]: whether deliver found the trigger enabled
    enabled,    \* the trigger's row: there and not disabled
    fired,      \* messages that started a flow
    refused,    \* messages dropped because the trigger is gone or disabled
    failed,     \* messages whose flow could not be started
    losses, restarts

dispatchVars == <<broker, published, inHand, onQueue, queue, worker, checked, enabled,
                  fired, refused, failed, losses, restarts>>

DispatchTypeOK ==
    /\ broker \in Seq(Messages) /\ published \in 0 .. MaxMessages
    /\ inHand \in Messages \cup {Idle} /\ onQueue \in BOOLEAN
    /\ queue \in Seq(Messages) /\ Len(queue) <= QueueSize
    /\ worker \in [Workers -> Messages \cup {Idle}]
    /\ checked \in [Workers -> BOOLEAN]
    /\ enabled \in BOOLEAN
    /\ fired \subseteq Messages /\ refused \subseteq Messages /\ failed \subseteq Messages
    /\ losses \in 0 .. MaxLosses /\ restarts \in 0 .. MaxRestarts

DispatchInit ==
    /\ broker = <<>> /\ published = 0
    /\ inHand = Idle /\ onQueue = FALSE
    /\ queue = <<>>
    /\ worker = [w \in Workers |-> Idle]
    /\ checked = [w \in Workers |-> FALSE]
    /\ enabled = TRUE
    /\ fired = {} /\ refused = {} /\ failed = {}
    /\ losses = 0 /\ restarts = 0

outcome == <<fired, refused, failed>>
bounds == <<losses, restarts>>

Publish ==
    /\ published < MaxMessages
    /\ published' = published + 1
    /\ broker' = Append(broker, published + 1)
    /\ UNCHANGED <<inHand, onQueue, queue, worker, checked, enabled, outcome, bounds>>

\* OrderMatters: one handler call at a time, in the broker's order.
Receive ==
    /\ inHand = Idle /\ broker # <<>>
    /\ inHand' = Head(broker)
    /\ onQueue' = FALSE
    /\ UNCHANGED <<broker, published, queue, worker, checked, enabled, outcome, bounds>>

\* Faulty variants: a full channel loses the message, or has no limit.
Enqueue_DropsWhenFull ==
    /\ inHand # Idle /\ ~onQueue
    /\ queue' = IF Len(queue) < QueueSize THEN Append(queue, inHand) ELSE queue
    /\ onQueue' = TRUE
    /\ UNCHANGED <<broker, published, inHand, worker, checked, enabled, outcome, bounds>>

Enqueue_Unbounded ==
    /\ inHand # Idle /\ ~onQueue
    /\ queue' = Append(queue, inHand)
    /\ onQueue' = TRUE
    /\ UNCHANGED <<broker, published, inHand, worker, checked, enabled, outcome, bounds>>

\* The send on the channel, immediate or after blocking.
Enqueue ==
    /\ inHand # Idle /\ ~onQueue
    /\ Len(queue) < QueueSize
    /\ queue' = Append(queue, inHand)
    /\ onQueue' = TRUE
    /\ UNCHANGED <<broker, published, inHand, worker, checked, enabled, outcome, bounds>>

\* The handler has returned; the broker forgets the message.
Acknowledge ==
    /\ inHand # Idle /\ onQueue
    /\ broker' = Tail(broker)
    /\ inHand' = Idle
    /\ onQueue' = FALSE
    /\ UNCHANGED <<published, queue, worker, checked, enabled, outcome, bounds>>

\* The connection drops before the acknowledgement: after paho has
\* reconnected, the broker sends the message again.
ConnectionLost ==
    /\ inHand # Idle /\ losses < MaxLosses
    /\ losses' = losses + 1
    /\ queue' \in IF onQueue \/ Len(queue) = QueueSize THEN {queue}
                  ELSE {queue, Append(queue, inHand)}
    /\ inHand' = Idle
    /\ onQueue' = FALSE
    /\ UNCHANGED <<broker, published, worker, checked, enabled, outcome, restarts>>

\* Faulty variant: two workers can see the same job.
TakeJob_Peeks(w) ==
    /\ worker[w] = Idle /\ queue # <<>>
    /\ worker' = [worker EXCEPT ![w] = Head(queue)]
    /\ UNCHANGED <<broker, published, inHand, onQueue, queue, checked, enabled, outcome, bounds>>

\* dispatchWorker takes the next job.
TakeJob(w) ==
    /\ worker[w] = Idle /\ queue # <<>>
    /\ worker' = [worker EXCEPT ![w] = Head(queue)]
    /\ queue' = Tail(queue)
    /\ UNCHANGED <<broker, published, inHand, onQueue, checked, enabled, outcome, bounds>>

\* Faulty variant: a worker waits for the trigger to be enabled again.
CheckTrigger_Waits(w) ==
    /\ worker[w] # Idle /\ ~checked[w] /\ enabled
    /\ checked' = [checked EXCEPT ![w] = TRUE]
    /\ UNCHANGED <<broker, published, inHand, onQueue, queue, worker, enabled, outcome, bounds>>

\* deliver reads the trigger again.
CheckTrigger(w) ==
    /\ worker[w] # Idle /\ ~checked[w]
    /\ IF enabled
       THEN /\ checked' = [checked EXCEPT ![w] = TRUE]
            /\ UNCHANGED <<worker, refused>>
       ELSE /\ worker' = [worker EXCEPT ![w] = Idle]
            /\ refused' = refused \cup {worker[w]}
            /\ UNCHANGED checked
    /\ UNCHANGED <<broker, published, inHand, onQueue, queue, enabled, fired, failed, bounds>>

\* Trigger starts the flow, or its failure is logged and forgotten.
Fire(w) ==
    /\ worker[w] # Idle /\ checked[w]
    /\ \/ fired' = fired \cup {worker[w]} /\ UNCHANGED failed
       \/ failed' = failed \cup {worker[w]} /\ UNCHANGED fired
    /\ worker' = [worker EXCEPT ![w] = Idle]
    /\ checked' = [checked EXCEPT ![w] = FALSE]
    /\ UNCHANGED <<broker, published, inHand, onQueue, queue, enabled, refused, bounds>>

\* The row is disabled from outside, or deleted.
Disable ==
    /\ enabled
    /\ enabled' = FALSE
    /\ UNCHANGED <<broker, published, inHand, onQueue, queue, worker, checked, outcome, bounds>>

\* The process stops and starts again: the channel and the workers are memory.
Restart ==
    /\ restarts < MaxRestarts
    /\ restarts' = restarts + 1
    /\ inHand' = Idle /\ onQueue' = FALSE
    /\ queue' = <<>>
    /\ worker' = [w \in Workers |-> Idle]
    /\ checked' = [w \in Workers |-> FALSE]
    /\ UNCHANGED <<broker, published, enabled, outcome, losses>>

Client == Receive \/ Enqueue \/ Acknowledge
Work(w) == TakeJob(w) \/ CheckTrigger(w) \/ Fire(w)

DispatchNext ==
    \/ Publish \/ Client \/ ConnectionLost \/ Disable \/ Restart
    \/ \E w \in Workers : Work(w)

DispatchSpec == DispatchInit /\ [][DispatchNext]_dispatchVars

\* paho's goroutine and the workers keep running.
DispatchFairness == WF_dispatchVars(Client) /\ \A w \in Workers : WF_dispatchVars(Work(w))

-----------------------------------------------------------------------------
InProgress == Range(queue) \cup ({worker[w] : w \in Workers} \ {Idle})
Settled == fired \cup refused \cup failed

\* "Real backpressure rather than a silent drop": every message published is
\* still with the broker, in the process, or has had an outcome.  A restart
\* does lose what is acknowledged and not yet delivered.
NothingDropped ==
    restarts = 0 =>
        1 .. published \subseteq Range(broker) \cup InProgress \cup Settled

\* The messages on the channel are in the order the broker sent them, and none
\* is newer than what the broker still keeps.
InOrder ==
    /\ \A i, j \in DOMAIN queue : i < j => queue[i] < queue[j]
    /\ \A i \in DOMAIN queue, b \in Range(broker) : queue[i] <= b

\* Without redelivery messages are queued in order and no message is handled
\* twice, whatever the workers do: it is in one place only.
HandledOnce ==
    losses + restarts = 0 =>
        /\ InOrder
        /\ \A v, w \in Workers : worker[v] = worker[w] /\ worker[w] # Idle => v = w
        /\ (InProgress \cap Settled) = {}
        /\ \A w \in Workers : worker[w] \notin Range(queue)

\* Each message gets an outcome in the end, unless the process restarts.
EveryMessageSettles ==
    \A m \in Messages : published >= m ~> m \in Settled \/ restarts > 0
=============================================================================
