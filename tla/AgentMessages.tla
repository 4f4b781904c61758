---------------------------- MODULE AgentMessages ----------------------------
(***************************************************************************)
(* One message of a user to an agent, from the channel to the flow         *)
(* (HandleInboundMessage of agent/service.go and the handlers that call    *)
(* it).  A message reaches Launch over one of the agent's channels as one  *)
(* or several events, each at a process the channel allows.  The handler   *)
(* answers the sender, and a goroutine asks the API to do everything; when *)
(* the API does not confirm, the old pipeline runs in this process.        *)
(*                                                                         *)
(* What Agents says of the registration, the open channels and the         *)
(* managers is here an environment that may change them at any time.       *)
(* What the API and the providers do is taken from how the code uses them. *)
(***************************************************************************)
EXTENDS Naturals

CONSTANTS
    Processes,      \* processes of Launch
    Channels,       \* channels of this run, a subset of DOMAIN Channel
    MaxMoves,       \* bound on changes of the environment
    MaxMisses       \* bound on failed calls and deaths of processes

VARIABLES
    row,        \* the registration: "none", "active" or "disabled"
    up,         \* processes that run
    serving,    \* processes where the channel is open or polled
    channel,    \* the channel of the message, "none" before it is sent
    event,      \* event[e] = [pc, at, conv, own]: the handling of event e of
                \* the message; conv: it knows the conversation; own: the
                \* history it read holds the message
    heard,      \* processes whose deduplication map holds the message
    stored,     \* the message is in the stored conversation
    runs,       \* flows started for the message
    learnt,     \* extractions asked for beside them
    echoed,     \* one of them was given the message as part of its history
    excused,    \* the message may be handled again: see OneTurn
    moves, misses

environment == <<row, up, serving, moves>>
handling    == <<heard, stored, runs, learnt, echoed, excused>>
messageVars == <<environment, channel, event, handling, misses>>

-----------------------------------------------------------------------------
(* The channels.  "at": who may be handed an event (any process behind the *)
(* load balancer, or one where the channel is open or polled); "sends":    *)
(* the events one message makes, a mention being sent beside the message   *)
(* and the reply of the agent coming back; "takes": those the handler lets *)
(* through; "dedup": whether it remembers what it has seen.                *)

Entry(at, sends, takes, dedup) == [at |-> at, sends |-> sends, takes |-> takes, dedup |-> dedup]

Webhook  == Entry("any", {"message"}, {"message"}, FALSE)

Telegram == Entry("any", {"message"}, {"message"}, FALSE)

Teams    == Entry("any", {"message"}, {"message"}, FALSE)

Sms      == Entry("any", {"message"}, {"message"}, FALSE)

\* ParseEvent: bot messages are dropped, both events of a mention pass.
SlackTakes == {"message", "mention"}

Slack == Entry("any", {"message", "mention", "reply"}, SlackTakes, FALSE)

\* handleEventsAPI, and the map in front of the pipeline.
SocketTakes == {"message", "mention"}

Socket == Entry("serving", {"message", "mention", "reply"}, SocketTakes, TRUE)

\* is_echo marks what the page itself said.
MessengerTakes == {"message"}

Messenger == Entry("serving", {"message", "reply"}, MessengerTakes, FALSE)

\* A mail from the account itself is skipped.
EmailTakes == {"message"}

Email == Entry("serving", {"message", "reply"}, EmailTakes, FALSE)

Channel ==
    [webhook |-> Webhook, telegram |-> Telegram, teams     |-> Teams,     sms   |-> Sms,
     slack   |-> Slack,   socket   |-> Socket,   messenger |-> Messenger, email |-> Email]

ASSUME MessageAssumption ==
    /\ Channels \subseteq DOMAIN Channel
    /\ {MaxMoves, MaxMisses} \subseteq Nat

Events == {"message", "mention", "reply"}

Handling(pc, at) == [pc |-> pc, at |-> at, conv |-> FALSE, own |-> FALSE]

MessageInit ==
    /\ row \in {"none", "active", "disabled"}
    /\ up = Processes /\ serving \in SUBSET Processes
    /\ channel = "none"
    /\ event = [e \in Events |-> Handling("none", {})]
    /\ heard = {} /\ stored = FALSE
    /\ runs = 0 /\ learnt = 0 /\ echoed = FALSE /\ excused = FALSE
    /\ moves = 0 /\ misses = 0

Miss == misses < MaxMisses /\ misses' = misses + 1

-----------------------------------------------------------------------------
(* The environment.                                                        *)

\* The agent is started or stopped, its channels are opened or closed.
Move ==
    /\ moves < MaxMoves /\ moves' = moves + 1
    /\ row' \in {"active", "disabled"} /\ serving' \in SUBSET up
    /\ row = "none" => row' = "active"
    /\ <<row, serving>>' # <<row, serving>>
    /\ UNCHANGED <<up, channel, event, handling, misses>>

\* A process ends, with the goroutines and the map it has.
Die(i) ==
    /\ i \in up /\ Miss
    /\ up' = up \ {i} /\ serving' = serving \ {i} /\ heard' = heard \ {i}
    /\ event' = [e \in Events |->
                    IF event[e].at = {i} THEN Handling("done", {}) ELSE event[e]]
    /\ UNCHANGED <<row, moves, channel, stored, runs, learnt, echoed, excused>>

Rise(i) ==
    /\ i \notin up
    /\ up' = up \cup {i}
    /\ UNCHANGED <<row, serving, moves, channel, event, handling, misses>>

-----------------------------------------------------------------------------
(* An event arrives.                                                       *)

Reaches(i, at) == IF at = "any" THEN i \in up ELSE i \in serving

\* isDuplicateSlackEvent, a map in the memory of one process.
Seen(i) == i \in heard

\* Two events of one message both pass, at a handler without a map, or where
\* the map does not hold the message.
Twice(e, i, c) ==
    /\ e # "reply" /\ i \notin heard
    /\ \E f \in (Events \ {e, "reply"}) \cap Channel[c].takes : event[f].pc # "none"

Receive(e, i, c) ==
    LET entry == Channel[c]
        taken == e \in entry.takes /\ ~(entry.dedup /\ Seen(i))
    IN  /\ e \in entry.sends /\ event[e].pc = "none"
        /\ e = "reply" => runs > 0
        /\ Reaches(i, entry.at)
        /\ event' = [event EXCEPT ![e] = IF taken THEN Handling("read", {i}) ELSE Handling("done", {})]
        /\ heard' = IF entry.dedup /\ taken THEN heard \cup {i} ELSE heard
        /\ excused' = (excused \/ (taken /\ Twice(e, i, c)))
        /\ UNCHANGED <<environment, stored, runs, learnt, echoed, misses>>

Arrive(e, i) ==
    \/ /\ channel = "none" /\ e # "reply"
       /\ channel' \in Channels
       /\ Receive(e, i, channel')
    \/ /\ channel # "none"
       /\ Receive(e, i, channel)
       /\ UNCHANGED channel

-----------------------------------------------------------------------------
(* HandleInboundMessage.                                                   *)

At(e, pc) == event[e].pc = pc

Go(e, pc) ==
    event' = [event EXCEPT ![e] = IF pc = "done" THEN Handling("done", {}) ELSE [@ EXCEPT !.pc = pc]]

\* The registration is read; there must be one.
ReadReg(e) ==
    /\ At(e, "read")
    /\ \/ /\ Go(e, CASE row = "none"     -> "done"
                     [] row = "disabled" -> "enable"
                     [] row = "active"   -> "api")
          /\ UNCHANGED misses
       \/ Miss /\ Go(e, "done")
    /\ UNCHANGED <<environment, channel, handling>>

\* A disabled registration is enabled again; failing that, the message is
\* handled all the same.
Enable(e) ==
    /\ At(e, "enable")
    /\ \/ row' = "active" /\ UNCHANGED misses
       \/ Miss /\ UNCHANGED row
    /\ Go(e, "api")
    /\ UNCHANGED <<up, serving, moves, channel, handling>>

\* handleInboundViaAPI: done, done without an answer, or not done.
ViaApi(e) ==
    /\ At(e, "api")
    /\ \/ /\ runs' = runs + 1 /\ stored' = TRUE
          /\ Go(e, "done") /\ UNCHANGED <<excused, misses>>
       \/ /\ Miss /\ runs' = runs + 1 /\ stored' = TRUE /\ excused' = TRUE
          /\ Go(e, "scope")
       \/ Go(e, "scope") /\ UNCHANGED <<runs, stored, excused, misses>>
    /\ UNCHANGED <<environment, channel, heard, learnt, echoed>>

\* deriveChannelScope: a plain webhook belongs to no conversation.
Scoped(c) == c # "webhook"

\* handleInboundMessageForReg: the sender and the conversation are resolved;
\* when that fails the message is handled outside any conversation.
Scope(e) ==
    /\ At(e, "scope")
    /\ \/ /\ event' = [event EXCEPT ![e] = [@ EXCEPT !.pc = "fetch", !.conv = Scoped(channel)]]
          /\ UNCHANGED misses
       \/ Miss /\ Go(e, "fetch")
    /\ UNCHANGED <<environment, channel, handling>>

\* Faulty variant: the message is stored before the history is fetched.
Fetch_StoresFirst(e) ==
    /\ At(e, "fetch")
    /\ stored' = (stored \/ event[e].conv)
    /\ event' = [event EXCEPT ![e] = [@ EXCEPT !.pc = "store", !.own = event[e].conv]]
    /\ UNCHANGED <<environment, channel, heard, runs, learnt, echoed, excused, misses>>

\* The history of the conversation; an error counts as an empty one.
Fetch(e) ==
    /\ At(e, "fetch")
    /\ \/ /\ event' = [event EXCEPT ![e] = [@ EXCEPT !.pc = "store", !.own = event[e].conv /\ stored]]
          /\ UNCHANGED misses
       \/ Miss /\ Go(e, "store")
    /\ UNCHANGED <<environment, channel, handling>>

\* Into the conversation, or beside all of them.  A failure is only logged.
Store(e) ==
    /\ At(e, "store")
    /\ \/ stored' = (stored \/ event[e].conv) /\ UNCHANGED misses
       \/ Miss /\ stored' \in {stored, stored \/ event[e].conv}
    /\ Go(e, "run")
    /\ UNCHANGED <<environment, channel, heard, runs, learnt, echoed, excused>>

\* dispatchExecution, with the history read before; an error ends the handling.
Run(e) ==
    /\ At(e, "run")
    /\ \/ /\ runs' = runs + 1 /\ echoed' = (echoed \/ event[e].own)
          /\ \/ Go(e, "learn") /\ UNCHANGED misses
             \/ Go(e, "done") /\ Miss
       \/ Miss /\ Go(e, "done") /\ UNCHANGED <<runs, echoed>>
    /\ UNCHANGED <<environment, channel, heard, stored, learnt, excused>>

\* dispatchExtraction: best effort.
Learn(e) ==
    /\ At(e, "learn")
    /\ \/ learnt' = learnt + 1 /\ UNCHANGED misses
       \/ Miss /\ UNCHANGED learnt
    /\ Go(e, "done")
    /\ UNCHANGED <<environment, channel, heard, stored, runs, echoed, excused>>

MessageNext ==
    \/ Move
    \/ \E i \in Processes : Die(i) \/ Rise(i)
    \/ \E e \in Events, i \in Processes : Arrive(e, i)
    \/ \E e \in Events :
        \/ ReadReg(e) \/ Enable(e) \/ ViaApi(e)
        \/ Scope(e) \/ Fetch(e) \/ Store(e) \/ Run(e) \/ Learn(e)

-----------------------------------------------------------------------------
(* Properties.                                                             *)

\* A message starts the flow and its extraction once, and the flow is not shown
\* the message as something said before ("if we stored first the AI action
\* would see its own prompt"); the agent's reply starts nothing.  A message may
\* be handled again when the API handled it but its answer was lost, and when
\* two events of it were taken where no common map could tell.
OneTurn == excused \/ (runs <= 1 /\ learnt <= runs /\ ~echoed)
=============================================================================
