# Flomation Launch in TLA+

Launch is the ingress service of Flomation Automate: it turns webhooks, forms,
schedules, chat messages, MQTT messages and polled sources into flow runs,
which it asks the API service to create. This directory specifies the parts of
it that are hard to test, checks them with TLC on small instances and proves
the most important results with TLAPS.

## The system

Several Launch instances run side by side. They share one Postgres database and
nothing else; each keeps the rest of its state in memory and loses it on a
restart. Triggers are rows of `trigger`; deleting a row cascades to
`trigger_state` (key/value per trigger) and `trigger_lease`.

| Component | State | Operations | What is hard | What makes it correct |
|---|---|---|---|---|
| MQTT service (`mqtt/service.go`) | one subscription slot per trigger, a paho client each, a bounded channel | reconcile, Register, Deregister, ensure, dial, deliver, sweep | lease held by clock, slot reserved before the dial, rejected SUBSCRIBE, redelivery | one subscriber at a time over all instances; no silent drop; rejected subscriptions are retried |
| Leases (`persistence/database.go`) | owner and expiry per trigger | TryAcquireLease | expiry while the owner still works | one owner; a new one only after expiry |
| Schedule (`schedule/service.go`) | lastFired, cached in memory and stored | checkTrigger, readLastFired, writeLastFired, ShouldFire | a cache that outlives the lease, restarts between store and fire | at most one run per window |
| Form drafts (`http/service.go`, `persistence/form_draft.go`) | draft row: status, payload, field states, expiry | create, resume, autosave, submit, purge | double submit, expiry during filling in, concurrent tabs | a submission runs the flow once and is never lost silently |
| Form payments (`http/form_payment.go`) | field state pending/complete with a Stripe session | create intent, complete | two intents, late redirects | a paid field stays paid; no fire without payment |
| Form data (`http/form_data.go`) | TTL cache, singleflight | resolve, run, poll | concurrent loads, failures cached | a burst runs the flow once |
| Agents (`agent/service.go`, `persistence/agent.go`) | registration and lease rows, a table of managed agents, sockets and mail pollers per instance | register, deregister, heartbeat, renew, watchdog: list, claim, enter | lease loss, orphan claims racing a stop, a start that deletes live leases | one instance manages an agent; an active one is served again in the end |
| Agent messages (`agent/service.go`, channel handlers in `http/`, `slack/`, `email/`, `facebook/`) | the stored conversation, a deduplication map per process | receive, enable, hand to the API, fall back: scope, fetch, store, run, extract | several events of one message, lost answers of the API, history read before or after the store | a message starts one flow, which is not shown its own prompt as history |
| Known-set pollers (S3, RDS, Drive, Outlook, Route 53, CloudWatch alarms and metrics) | known keys and a baseline sentinel in `trigger_state` | poll | list read before the stored set, crash in the baseline | every new item fires once; what was there before never does |
| Watermark pollers (database rows, Salesforce, CloudWatch logs) | a stored cursor | poll | ties at the cursor, batch limit, crash before the store | nothing is skipped and little is repeated |
| Gmail poller | stored history id | poll | stored before fired, re-baselined on errors | no message is skipped |
| Git, LinkedIn and agent mail pollers | last seen commit, post or history id | poll | no lease at all | as above |
| Voice calls (`twilio/voice_call.go`) | a session with two websockets | create, attach, wait, bridge, clean up | attaching after a time-out | both sides meet or both are closed |
| Provider webhooks (`http/*.go` of 24 providers, `http/service.go`) | hook id, secret and events in `trigger_state`; the hooks at the provider | save: load, delete the old hook, clear, create, store; deregister; deliver | a save of several calls that fails half way, overlapping saves, deletion | one start per event; a good save is heard; no hook is forgotten |
| Gateway, embeds, OAuth | mostly none | see PROJECT.json | waits with deadlines | no wait outlives its deadline |

The instances call the API service over HTTP (30s time-out) to read secrets,
create runs and poll their results; brokers, Stripe, Google, AWS and the chat
services are called directly. PROJECT.json lists every part of the repository
with its status, and under "hazards" the places that a test would hardly reach.

## Plan

The modules are ordered by what a mistake would cost: a message, a payment or a
scheduled run handled twice or not at all.

| Step | Modules | State |
|---|---|---|
| 1 | `TriggerLease`, `ExclusiveHolder`, `MqttHandover`, `MqttConnection`, `MqttDispatch` | modelled, checked, proved |
| 2 | `FormDraft` (drafts, submission, payments) | modelled, checked, proved |
| 3 | `Schedule` | modelled, checked, proved |
| 3b | `ScheduleCalendar`: weekly, monthly and yearly days, monthly ordinals, month lengths, compared with a reference definition | planned |
| 4 | `Pollers`: fifteen pollers, known sets and cursors, on `TriggerLease` | modelled, checked, proved |
| 5 | `Agents` (lifecycle) and `AgentMessages` (one message) | modelled, checked, proved |
| 6 | `FormData` (cache and singleflight), gateway matching as an operator, the wait of an embedded flow, voice calls | planned |
| 7 | `Webhooks`: register, remember, replace and deliver for 24 providers | modelled, checked, proved |

Every invariant and action property that a passing run checks is stated by a theorem,
those of `MqttHandover` under a named assumption (`SafeTiming`), the others under
what the module assumes of its constants.
Worth proving after that: what `ScheduleCalendar` and `FormData` will promise.

## Modules

A definition `Name_What` (`Grantable_Anyone`, `ListFails_NoSweep`, ...) is a
faulty variant of `Name`: what a plausible mistake in that code would look like.
No specification uses them; they document which mistake each property notices.

`None`, `NotHeld` and `NoOwner` stand for an empty value. A `Fault` is a failed
statement or call, bounded by `MaxFaults`. Where a statement can be carried out
although its answer is lost, the action for the failure has a disjunct for that.

### TriggerLease, ExclusiveHolder

`TriggerLease` is the row of `trigger_lease`: owner and remaining time, granted by
the single upsert `TryAcquireLease`, removed when the trigger is. `MqttHandover`,
`Schedule` and `Pollers` extend it. `ExclusiveHolder` is what users of a lease want from
it: a resource has one holder, and a new one only after the last let go.

### MqttHandover

Several instances and one trigger. The state of an instance is where its
reconcile loop and one HTTP handler are (`loop`, `http`), and what is left of
`leaseExpiry` of its map slot (`held`). Actions are the steps of `reconcile`
(`ListTriggers`, `LoopGranted`, `LoopDenied`, `LoopLeaseFails`, `LoopEnsure`,
`DropStale`, `Sweep`), of `Register` and of `Deregister` with the deletion of the
row, besides crashes and the clock. Two constants carry what other work in the
process costs: `SweepGap`, the longest time between two sweeps, and
`ResolveDelay`, the time from the lease's grant to the moment `ensure` reads its
clock (references of the configuration are resolved in between).

### MqttConnection

One instance and one trigger: `subs[id]`, the paho clients, and the goroutines that
change them. Every critical section under `Service.mu`, every dial and every
close is one action of the reconcile goroutine or of a handler; a lease call
answers what it likes. Connections come up, are rejected by the broker and drop.
`calm` is a history variable: it is true as long as nothing was edited, deleted,
denied or out of reach, and the trigger was not created while the loop was about
to drop what it had not listed (the loop then drops the new subscription, and
what it does to one that is not dialled yet is the orphan described below).

### MqttDispatch

The path of a message: the broker's session, paho's handler (one message at a
time), the bounded channel, the workers that read the trigger again and start
the flow. The broker sends again what was not acknowledged when the connection
drops or the process restarts.

### FormDraft

A form that is opened, resumed, autosaved, paid for and submitted from several
tabs. `draft` is the table, `page` and `req` a tab and the request it waits for,
`checkout` the sessions at Stripe, `calls` and `carried` what reached the API.
Each statement of a handler is an action, so that requests interleave between
the gate, the claim and the call (`Submit`), and between the verification at
Stripe and the record (`Payment`). Expiry, the hourly purge and a handler that
dies are actions too.

### Schedule

One trigger with several instances that poll it. `check` is where `checkTrigger` is
and the time it read, `cache` the copy of the last run in memory, `stored` the
row, `history` and `runs` what was stored and started. A day (or interval) is
`Period` units long. Leases lapse at any point: between two polls, and, where `Overrun`
is TRUE, in the middle of a check. Two history variables follow what comes of it:
`late` holds the instances that lost their lease to another one while they were
checking or remembered a time, `outlived` says whether one of them has stored a time
since. With `Overrun` FALSE the clock waits for a check that has begun under the
lease; the run that shows the finding uses it, so that nothing but the memory of
the last run can be blamed.

### Pollers

One trigger of one of fifteen pollers, taken from a table that says how the
program treats its source: as a set of keys with a baseline, or as a cursor; with
or without a lease; whether a key or cursor is stored before or after the flow is
started; what a failed write does. `source` is the provider, which puts up, changes and
removes items; a poll is the actions from the lease through the listing, the read
of the state and each item to the store or the pruning, so that a crash, a lapse
of the lease or another instance comes between any two statements. `told` and
`silent` are what was fired and what was taken for the baseline. Of event filters
only the edge of a metric is modelled. The order in which LinkedIn lists is taken
as it comes. Items that share a stamp share it with an item (`NextStamps`): an event
in the very millisecond of a clock baseline, which no item bears, counts as later.
The database rows appear twice in the table, because the user names the cursor column:
`DbRow` has an auto-increment id, `DbRowTime` a timestamp, which rows can share and
which an update moves on. S3 and Drive start a flow for what they prune (`Prune`);
`vanished` remembers the stamp an item had when it was removed and `deleted` what a flow
was told is gone.

### Webhooks

One trigger of one of 24 providers, again from a table: who makes the hook, what
is remembered of it and when, whether an old hook is deleted before or after the
new one is made, what a duplicate at the provider does, how a delivery is verified and
filtered. A save is the actions of its handler (`Load`, `DeleteOld`, `Clear`,
`Create` or `Adopt`, `Store`, `Undo`, ...), two of them may overlap, and deletion
deregisters first and removes the row then. `Deliver` is `handleWebhook`, which
answers before it starts the flow. Where the provider only has a URL, the user
sets the hook up (`SetUp`). A creation, a deletion or a statement that fails had no
effect, or it was carried out and its answer lost; SendGrid takes a deletion that is
refused with 401 or 403 for done (`unauthorised`). An adopted AWX template keeps the
attachments of the configuration it was made for, Asana removes whatever hook has its URL when
a creation fails, and of a delivery with several events Asana surfaces the first. Users
may go back to any earlier configuration.
`lost` holds the hooks a failed call has hidden from the program; `overlapped`,
`settled` (the last save went well and alone, or the user has set up what it needs)
and `calm` (what the provider emitted since) are history variables; so is `stranded`:
a request that failed has left a state which reads as current and describes a hook
that is not there.

### Agents

One agent and several instances: registration row, lease row, and per instance the
entry in `managedAgents` (`managed`, which also tells a channel that was closed
already), the socket or mail poller (`line`), the heartbeat (`beat`), the watchdog
(`dog`) and a message that is about to enable the agent (`waking`). A request of
the API is `RegisterAgent` or `DeregisterAgent` statement by statement; requests
for one agent come one after the other. A new process has a new name, so the lease
of a dead one belongs to `Gone`. `disturbed` becomes true where the code takes a
lease from a live manager: a start that deletes all leases, a heartbeat that
came too late, a stop that overtook the claim of a watchdog.

### AgentMessages

One message over one of eight channels, which reaches Launch as up to three events
(a mention is sent beside the message, the reply of the agent comes back): what
each handler lets through, and `HandleInboundMessage` from the registration through
`handleInboundViaAPI` to the old pipeline with its steps. What `Agents` says of
registration, processes and channels is here an environment that may do more than
`Agents` allows. Assumed: the agent has an orchestrator flow, the provider delivers
an event at most once, a mail is polled by one instance (polling it twice is in
`Pollers`). The handlers of Telegram, Slack and SMS *triggers* take another path
and are not part of it.

## Runs

| Run | Shows | Bounds |
|---|---|---|
| `mqtt` | two instances never hold the subscription at once; the holder owns an unexpired lease; the row changes hands only after the holder let go; the subscriptions implement `ExclusiveHolder`; a live trigger is taken over after its owner crashed. Before a restart every message published is at the broker, in the process or settled; without redelivery it is handled once and the channel keeps the order; every message settles | 2 instances, 2 faults; lease 5, margin 3, sweep gap 2, resolve delay 1 (units of 15s: margin, gap and delay are the code's 45s, 30s and the 15s that leaves; the lease is shortened from 8 to 5, long enough to survive one failed renewal and not two); 4 messages, channel of 2, 2 workers, one lost connection, one restart |
| `mqtt_connection` | when the goroutines are done, a taken slot has a client; with unchanged saves only, one client at a time and a healthy one stays | loop and one handler, 3 saves of which the first creates the trigger, one configuration `dial` refuses, 3 subscriptions at a time, one fault |
| `mqtt_connection_live` | a rejected subscription is retried; an edit reaches the connection; a deleted trigger ends without a slot | loop and one handler, 1 edit, 5 subscriptions, no faults |
| `mqtt_connection_orphan` | **violated**: `OneClient` when a save changes the configuration | 3 subscriptions, 2 edits |
| `form_draft` | `IInv`; one start per submission; no start without payment; a complete field names a paid session and its amount; a dead draft does not change | 2 tabs, 2 drafts, 2 sessions, 2 answers, 2 faults, expiry and purge; symmetric |
| `form_lost` | **violated**: `AcceptedIsFired` | one draft, one fault, no expiry |
| `schedule` | `IInv`; no process runs a window twice, and two do only after one has stored what outlived its lease; every run is stored before it starts; nothing at first sight; a due schedule is noticed | 2 instances, two days of 2 units with the first excluded, lease of 1 that may lapse in a check, one fault |
| `schedule_handover` | **violated**: `OncePerWindow` when an owner returns after its lease lapsed | three days of 3 units, no lapse in a check |
| `pollers` | what was there before the trigger never fires; an event starts one flow, over two instances; what the stored state claims was handled was; a deletion is told only of what has vanished | 15 pollers in turn, 2 instances, 3 items of which one was there and one changes, 3 stamps, 2 items per poll, lease of 1, one crash, failed statement or slow poll (slow ones for the cursors stored last) |
| `webhooks` | an event starts the flow once; after a save that went well the selected events are heard, unless a failed request has left a state that describes no hook; no hook is left that the program does not remember | 24 providers in turn, 2 overlapping saves (AWX, Calendly), 2 configurations, 3 saves, one fault; symmetric in the savers |
| `webhooks_retry` | **violated**: `RetriedCleanly` after an upsert whose answer is lost | Calendly, no overlap, one fault |
| `agents` | one manager at a time; an active agent is served again; a message starts one flow and is not its own history | 2 instances, 2 requests or messages, one fault; 2 processes, all 8 channels, 1 change of the environment, 2 failed calls or deaths |

`mqtt` and `agents` check two modules side by side each: a behaviour of `MC_Mqtt` is one
of `MqttHandover` or one of `MqttDispatch`, one of `MC_Agents` is one of `Agents` or one of
`AgentMessages`, because the product of the two adds states and no question. The
fairness of `MqttHandover` is assumed of the behaviours in which it is the one that moves.

The bounds are small but reach the cases that matter: two instances or tabs give
every pairwise interleaving, and the properties relate two actors at a time; the
message burst exceeds the channel; the clock of `schedule` reaches the first window that
is open, and lease, crash and takeover fit before it, that of `schedule_handover` runs
over three days so that a lease lapses, passes on and comes back; with two faults a renewal and its retry
both fail, which is what the sweep is for.
Deadlock is not checked (`CHECK_DEADLOCK FALSE`): the counters that bound saves,
messages, faults and time run out, and a bounded system ends.

## Fairness

- `MqttHandover`: weak fairness of the clock, of `Start` (deployments start their
  instances), of the reconcile loop, which a ticker drives, and of a handler that
  has been granted a lease or is deleting the row. Crashes, outages and saves are never forced.
- `MqttConnection`: weak fairness of the ticker, of each goroutine's next step and of
  the API's return. Nothing is assumed of users or of the broker.
- `MqttDispatch`: weak fairness of paho's goroutine and of each worker. The disjuncts
  of a worker include the failing ones, so no flow is assumed to succeed.
- `Schedule`: weak fairness of the clock, of `Start` and of each instance's poll.
- `Agents`: weak fairness of each instance's heartbeat and watchdog, whose tickers run
  for ever, of the goroutine of a request, of the expiry of an abandoned lease (it is
  a clock) and of the restart of a dead process. Requests, messages and failures are
  never forced.
- `FormDraft`, `Pollers`, `Webhooks` and `AgentMessages` state safety only: what a user
  or a provider does next is not forced.

## Proofs

Each proof module says at its top how it is laid out. The theorems hold for every
value of the constants that satisfies the named assumptions.

- `MqttHandoverProof`, assuming `SafeTiming` (`SweepGap + ResolveDelay <= SafetyMargin`).
  `SingleSubscriber` is not inductive: nothing in it says why the other instance
  cannot get the lease. `IInv` adds that a slot which survived a sweep has at least
  the margin left, less the time since (`SweptInTime`), and that the row outlives
  the slot's own expiry less the resolve delay (`LeaseCovers`); the two and
  `SafeTiming` give that the row of a subscribed instance has not expired, so it is
  not granted to another. When the trigger is deleted its lease goes with it, and
  what is left to carry the argument is that one instance at most ever got past
  the lease (`OneEngaged`). Proved: `IInv`, types, `SingleSubscriber`,
  `HeldUnderLease`, `HandoverOrdered` and that the module implements
  `ExclusiveHolder`, step by step.
- `MqttConnectionProof`, from `ConnectionAssumption` alone: any number of goroutines,
  configurations and faults. `SlotIsBacked` speaks of the end only. `Owned` says who is
  responsible before it: a subscription without a client is reserved by exactly one
  goroutine, which will dial it or give it back (`Reserved`), and nobody is about to
  close what is in the slot (`SlotInUse`). While all is calm (`CalmInv`) there is one
  fingerprint, so a reservation is never taken over and its goroutine keeps the slot;
  who is connected besides is the one victim that goroutine closes before it dials.
  Proved: `IInv`, types, `SlotIsBacked`, `OneClientWhileCalm`, `HealthyLeftAlone`. Looking for the
  invariant showed that a trigger created during a reconcile must be excepted
  from `calm`; the run starts before the trigger exists, so that it meets this case.
- `MqttDispatchProof`, from `DispatchAssumption`. `NothingDropped` does not say that what the
  broker is about to forget is queued: `HandIsHead` and `HandIsQueued` do. `HandledOnce`
  does not say that the message put on the channel is a new one: `Ordered` does, because
  all that has left the broker is older than what it keeps. Proved: the invariant,
  types, `NothingDropped`, `HandledOnce`, for any channel size, workers, losses and restarts.
- `FormDraftProof`, from `DraftAssumption` alone. `IInv` treats the claim as a ticket
  (`OneTicket`): as long as the row is a draft nobody is firing and no call was
  made, and one request holds the ticket at a time. What a request read earlier is
  still true of the session it names, because amounts and payments of a session
  never change (`ReadFits`, `StoredFits`, `CheckoutFits`). Proved: `IInv`, types,
  `FiresOnce`, `NoUnpaidFire`, `LocksChargedAmount`, `DeadIsImmutable`, and
  `AcceptedIsFinal`, a part of `IInv`: an accepted draft cannot be fired any more.
- `ScheduleProof`, from `ScheduleAssumption` alone: checks as slow as they like. Who works on
  the trigger or remembers a time holds the lease or is late (`UnderLease`), so one
  memory at most stands against the row; it lies between the latest run and the row
  (`MemoryFits`, `RowIsLatest`) until somebody late stores a time; and being due is
  monotone (`DueFacts`), so that a time due after the memory is due after every run. The
  memory of a process is never behind its own runs, late or not. Proved: `IInv`,
  types, `OnceWithinLease`, `RecordedFirst`, `SilentFirstSight`. `OncePerWindow` without
  the exception is false, as `schedule_handover` shows.
- `AgentsProof`, about two modules. `Agents`, from `AgentsAssumption`: `SingleManager` is not
  inductive, because nothing in it says why a third party cannot get the lease. `IInv` adds
  `LeaseHeld`: who manages the agent holds an unexpired lease in its own name, and a claim
  on its way into the table does too as long as the lease is its own. Proved: types, the
  invariant, and `SingleManager`. `AgentMessages`, from `MessageAssumption`: `OneTurn` says
  nothing of a second handling under way. `MInv` adds `TurnOpen`: one event at most is
  being handled, nothing has run before its handling runs, and nothing is stored before it
  stores; and `Arrived`: what arrived was let through by the table of channels or seen
  before. Proved: the invariant and `OneTurn`, for every subset of the channels.
- `WebhooksProof`, from `WebhooksAssumption`: any number of savers, configurations and
  faults, every provider of the table, whichever of them may overlap. `NothingForgotten`
  speaks of the quiet trigger only. `Tracked` follows a hook through a request: it is
  one a failed call has hidden, the one the state names, or the one a single request
  has made and not stored yet. `SavedIsHeard` needs what holds although requests
  overlap: a state that reads as current describes a hook that is there, armed, and
  verified with the key of the state (`CurrentIsGood`), because a request removes what it
  found to be outdated (`Outdated`) and nobody else knows what it has made (`Distinct`).
  `OneRun` follows each delivery from the hook that sent it (`OneDelivery`,
  `CalmDelivery`). Proved: the invariant, types, `NothingForgotten`, `OneRun`, and
  `SavedIsHeard`, whatever configurations users go back to. What `SavedIsHeard` excepts, a
  state that is `stranded`, is a case the code gets wrong: `RetriedCleanly` states the
  property without the exception, and `webhooks_retry` refutes it.

- `PollersProof`, from `PollersAssumption` and the assumptions of `TriggerLease`: any number of
  instances, items, stamps and faults, any limit, all fifteen pollers. None of the
  properties is inductive: they speak of what was fired, and not of the listing
  or the batch a poll under way is about to fire from. Both kinds rest on `UnderLease` (as
  long as no lease has lapsed, who polls holds it, so one instance polls) and on `Bounded` (no
  stamp is ahead of the provider's clock).
  For known sets, stored, known and listed stamps only grow (`Grown`). Whoever lists an item
  that has fired finds it stored (`Recognised`), which gives `FiredOnce`; once the sentinel
  stands, what was there before is stored, or, with Outlook, left to the poll that set it
  (`Baselined`), which gives `ExistingStaysSilent`; what is stored was fired, was taken
  for the baseline, or is in the hand of a poll (`StoredIsHandled`).
  For cursors, an item that has changed since it was listed is behind the batch (`Later`), and
  a batch implies a baseline (`HasBaseline`). What was fired lies behind the cursor that is
  stored or will be (`Passed`); the cursor covers what was there before (`Started`);
  and what lies behind it was dealt with: for an exclusive cursor stored last at
  every step of a batch that fires in order (`CursorTrails`), for Salesforce with the ids at
  the cursor (`CursorMeets`), for Gmail with the batch under way (`CursorLeads`).
  For deletions a second invariant (`GoneInv`) follows the last stamp an item vanished
  with: what is stored or known of an item that is not there, or not listed, is no
  later; it needs `Grown` for the step in which an item vanishes under a poll.
  Proved: the invariant, types, `ExistingStaysSilent`, `FiredOnce`, `NothingSkipped`,
  `DeletedIsGone`. `NothingSkipped` excepts an item whose cursor value another item that was
  handled has (`Overtaken`); the proof gives that nothing else is passed over.
  Proving it disclosed that arms of two `CASE` expressions overlapped, which left it to the
  evaluator which one counts, and that an item could share a stamp with no item.

Only model-checked: the liveness properties (`TakenOver`, `RejectedIsRetried`,
`EditTakesEffect`, `DeletedIsReleased`, `EveryMessageSettles`, `DueIsNoticed`,
`ActiveIsServed`), which rest on fairness and `ENABLED` and are beyond the prover. No module declares a
recursive operator.

## Where the code and its comments disagree

Four runs end in a counterexample; PROJECT.json quotes the lines.

- `mqtt_connection_orphan`: the loop has reserved the slot and not dialled yet; a save
  with another configuration takes the slot over, closes a connection that does not
  exist, and both goroutines dial. The first client stays connected, unknown to the map.
- `form_lost`: the draft row could not be created (or was purged), the page works as
  promised, and the submit is answered with success although the claim finds no
  row and no flow starts.
- `schedule_handover`: `readLastFired` believes its memory after the lease has been
  somewhere else, and runs a window that was run there. A slow poll is enough:
  triggers are handled one after the other and each call may take 30 seconds.
- `webhooks_retry`: the statement that stores a subscription is carried out and its answer
  lost; the handler removes the subscription again "so the next save retries
  cleanly", and the next save takes the stored state for current. The trigger is deaf.

Other behaviour the models contain and no property contradicts, because the
properties stop short of it:

- Resolving the configuration may take longer than the 15s the margin leaves (several
  references at 30s each). `SafeTiming` is then false, and two instances can be subscribed.
- An API outage changes the fingerprint of an unchanged configuration, so a healthy
  MQTT connection is rebuilt; `HealthyLeftAlone` is stated for `calm`.
- Messages on the channel are acknowledged and lost by a restart; `NothingDropped` is
  stated up to the first one.
- A second payment intent replaces a pending and even a complete field state.
- A schedule's daily window ends at midnight and is not caught up;
  `DueIsNoticed` is stated for a clock that stays in the window.

Pollers:

- The rows of a database trigger are asked for with an exclusive `>` and a `LIMIT`
  (`dbrow/query.go:190`). With a timestamp column a row that shares the value of the last row
  of a batch and fell outside it, or is inserted after the poll, is never listed,
  although the package promises one flow per new row for timestamps too
  (`dbrow/service.go:5-7`). `DbRowTime` skips them, and `NothingSkipped` excepts them (`Overtaken`),
  as it does log events of one millisecond. For an id column it excepts nothing.
- CloudWatch logs keep a cap on the events of one poll although the comment says that
  nothing is missed: the event that meets the cap is lost (`cloudwatch/service.go:426-430`,
  comment at 11-12). `NothingSkipped` is stated for what one poll can take; likewise for
  the 25 mails of the Outlook window and the first 1000 files of Drive.
- A failed upsert of a modified S3 or Drive object leaves its key out of the known state: the
  row is pruned, and "deleted" fires for an object that is there. When Drive lists the
  account of the token endpoint instead (below), "deleted" fires for every item it knew.
  `DeletedIsGone` is stated for polls in which no statement fails, no lease lapses and
  the listing holds all items.
- Outlook marks its baseline before it stores it: after a crash in between it fires mails
  that were there before. `ExistingStaysSilent` excepts that crash.
- A poll that outlives its lease compares an old listing with what another instance has stored
  since; `FiredOnce` and `ExistingStaysSilent` are stated as long as no lease lapses.
- More than 200 Salesforce records in one second saturate the inclusive query.
- When the baseline cursor of a database trigger is lost and the sentinel stored, the whole table fires.
- When the API does not answer, `ResolveString` returns the text unresolved, and Drive
  or Outlook lists another place than the trigger names.
- Git, LinkedIn and agent mail are polled without a lease, once per instance.
- Gmail skips mails whose fetch fails, or when its state cannot be read.

Webhooks:

- The old hook is deleted and the new one cannot be created: every provider with state except
  SendGrid, which clears it in between, keeps the old state. Putting the configuration
  back then reads as unchanged, and the trigger is deaf. So it is when the deletion
  seems to fail but was carried out (Calendly, Cal.com, Acuity, SendGrid stop there), and
  when the upsert seems to fail but was carried out, after which the handler removes
  the hook the state describes. `SavedIsHeard` excepts all of these as `stranded`.
- SendGrid takes a 401 or 403 for the deletion of the old hook for done; that hook stays, and its
  deliveries are refused. The hook is in `lost`.
- Overlapping saves of an AWX or Asana trigger can leave a state that is taken for current
  and is not (with AWX the secret of the first save is stored last, and every delivery is refused).
- Acuity stores the events it asked for, not those it got, and never repairs the rest.
- Of a QuickBooks, Xero or Asana batch only the first event is looked at, and the batch stands or
  falls with it.
- A failed read of the state counts as no state and makes a second hook; a changed
  account or token is not compared; Mailchimp ignores a change of the events.
- A flow that fails to start loses its event: the delivery was already answered.

Agents:

- A registration whose lease is refused or fails, for an agent that is managed already,
  leaves a closed channel in the table. The next stop or refused heartbeat closes it
  again and panics, in a heartbeat for the whole process; after a failed statement the
  agent can neither be stopped nor registered there (`agent/service.go:503-515`). `ActiveIsServed`
  excepts it as `Stuck`.
- `ExpireAllAgentLeases` is called safe "because no agents are managed yet at this point",
  which is true of the new instance and not of the others.
- A deletion served by an instance that does not own the agent leaves the owner managing,
  renewing and connected.
- Any inbound message enables a stopped agent again, with the row it read before.
- Losing the lease does not close the channels.
- The Slack Events API handler has no deduplication, although both events of a mention pass
  `ParseEvent`: the message is handled twice and the second flow is shown it as history.
- When the answer of the API is lost the old pipeline handles the message again, with
  itself in the history; `OneTurn` excuses both.

## Not modelled

- `ScheduleCalendar` and the components of step 6 are planned: pure date arithmetic, a cache with singleflight,
  the websockets of voice calls, the wait of an embedded flow.
- OAuth sign-in, QR and manual triggers, human-in-the-loop pages, presence and interactions of
  Slack, feed events of Facebook and its page index, session summaries, the confirmation of
  pending agent actions (two concurrent confirmations both go through) and the
  trigger-keyed Telegram registration, which lives in the memory of one process.
- Disabled triggers in `Webhooks`, redelivery of an event by its provider (the code keeps no
  record of events), the account a hook belongs to.

Known and not covered by a property: `Deregister` runs on the instance that serves the
deletion while another holds the MQTT subscription (`http/trigger.go:259`; it lets go at its next
reconcile); the amount of a payment comes from the autosaved answers
(`http/form_payment.go:218`); a daily target close to midnight leaves a short window
(`schedule/service.go:445`).

Besides: HTML rendering of forms, signature checks, prompt
assembly, TLS and configuration, metrics and start-up have no protocol or are pure
I/O. Parsing of node configurations is reduced to the kinds the callers tell apart
(usable, unparsable, not dialable). `ReleaseLease` and the three retired pollers are never
called. How a flow runs is the API service's business: to start one is a call that
succeeds or fails.
