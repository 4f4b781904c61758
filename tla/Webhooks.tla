------------------------------- MODULE Webhooks -------------------------------
(***************************************************************************)
(* The webhook of one trigger at its provider: saving a flow registers it, *)
(* editing the flow replaces it, deleting the trigger removes it, and the  *)
(* deliveries it sends start the flow.                                     *)
(*                                                                         *)
(* Every provider has its own copy of this program.  A record per provider *)
(* (Jira, Awx, ...) says what its copy does where they differ; the actions *)
(* are the program they share.  A configuration is what the copy compares  *)
(* to see whether it was edited: events, board, resource, signing secret.  *)
(*                                                                         *)
(* A hook is what the provider keeps: one webhook, or the set of those     *)
(* made together where the provider wants one for each event.  A call or a *)
(* statement that fails had no effect, or it had and the answer is lost.   *)
(***************************************************************************)
EXTENDS Naturals, FiniteSets

CONSTANTS Savers,       \* requests that save the flow
          MaxConfig,    \* the configurations are 1 .. MaxConfig
          MaxSaves,     \* bounds the saves
          MaxFaults,    \* bounds failed calls and statements, lost answers, crashes
          Hosts,        \* names of the providers of this instance of the model
          Overlapping   \* those for which two saves may overlap

ASSUME WebhooksAssumption ==
    MaxConfig \in Nat \ {0} /\ MaxSaves \in Nat /\ MaxFaults \in Nat

-----------------------------------------------------------------------------
(* What the copies differ in.                                              *)
(*   knows    how a registration is remembered: in trigger_state (state),  *)
(*            by asking the provider (list), or by whoever set it up by    *)
(*            hand (operator)                                              *)
(*   key      what a delivery is checked with: a key made for this hook    *)
(*            (own), one the provider hands over in a call of its own      *)
(*            while it creates the hook (handshake), one that every hook   *)
(*            of the trigger shares, if any (shared), a secret that is a   *)
(*            field of the configuration (secret), the audience the event  *)
(*            is from (guarded)                                            *)
(*   badDelete  when the old hook cannot be removed: goon, or stop         *)
(*   clears   the state is cleared once the old hook is removed            *)
(*   unauthorised  a refused deletion of the old hook passes for done      *)
(*   clash    a second hook: may be made (none), is refused and the first  *)
(*            one adopted (adopt), or is refused if it is for the same     *)
(*            configuration and one that is found removed (replace)        *)
(*   confirms a hook is of use only after further calls                    *)
(*   parts    a hook may be made in part                                   *)
(*   repairs  a hook made in part is stored as one to replace              *)
(*   filter   the events that fire: those of the stored or of the current  *)
(*            configuration, or all                                        *)
(*   batch    the events of a delivery: one (single), several that start   *)
(*            the flow one by one (each), several that start it together   *)
(*            if the first one does (first)                                *)
(*   keepsRow without credentials the deletion leaves the state            *)

JiraCheck == [key |-> "shared", filter |-> "state"]
Jira == [name |-> "jira", knows |-> "state", key |-> JiraCheck.key, badDelete |-> "goon",
         unauthorised |-> FALSE, clears |-> FALSE, clash |-> "none",
         confirms |-> FALSE, parts |-> FALSE,
         repairs |-> TRUE, filter |-> JiraCheck.filter, batch |-> "single", keepsRow |-> TRUE]

TrelloCheck == [key |-> "shared", filter |-> "none"]
Trello == [Jira EXCEPT !.name = "trello", !.key = TrelloCheck.key, !.filter = TrelloCheck.filter]

MondayCheck == [key |-> "shared", filter |-> "none"]
Monday == [Trello EXCEPT !.name = "monday", !.key = MondayCheck.key, !.filter = MondayCheck.filter]

AsanaCheck == [key |-> "handshake", filter |-> "none"]
AsanaClash == "replace"
AsanaEvent == "first"
Asana == [Trello EXCEPT !.name = "asana", !.key = AsanaCheck.key, !.clash = AsanaClash,
                        !.batch = AsanaEvent]

MailchimpCheck == [key |-> "guarded", filter |-> "config"]
MailchimpDeregister == "list"
Mailchimp == [Trello EXCEPT !.name = "mailchimp", !.knows = MailchimpDeregister,
                            !.key = MailchimpCheck.key, !.filter = MailchimpCheck.filter]

ZendeskCheck == [key |-> "own", filter |-> "none"]
ZendeskKeepsRow == FALSE
ZendeskEvent == "single"
Zendesk == [Trello EXCEPT !.name = "zendesk", !.key = ZendeskCheck.key, !.confirms = TRUE,
                          !.keepsRow = ZendeskKeepsRow, !.batch = ZendeskEvent]

CalendlyCheck == [key |-> "own", filter |-> "config"]
CalendlyEvent == "single"
Calendly == [Jira EXCEPT !.name = "calendly", !.key = CalendlyCheck.key, !.batch = CalendlyEvent,
                         !.filter = CalendlyCheck.filter, !.badDelete = "stop"]

CalcomCheck == [key |-> "own", filter |-> "config"]
CalcomEvent == "single"
Calcom == [Calendly EXCEPT !.name = "calcom", !.key = CalcomCheck.key, !.batch = CalcomEvent,
                           !.filter = CalcomCheck.filter]

AcuityCheck == [key |-> "shared", filter |-> "config"]
AcuityEvent == "single"
Acuity == [Jira EXCEPT !.name = "acuity", !.key = AcuityCheck.key, !.batch = AcuityEvent,
                       !.filter = AcuityCheck.filter, !.parts = TRUE, !.repairs = FALSE]

WooCommerceCheck == [key |-> "own", filter |-> "state"]
WooCommerceEvent == "single"
WooCommerce == [Jira EXCEPT !.name = "woocommerce", !.key = WooCommerceCheck.key, !.parts = TRUE,
                            !.filter = WooCommerceCheck.filter, !.batch = WooCommerceEvent]

SendGridCheck == [key |-> "own", filter |-> "state"]
SendGridEvents == "each"
SendGridBadDelete == "stop"
SendGridUnauthorised == TRUE
SendGrid == [Jira EXCEPT !.name = "sendgrid", !.key = SendGridCheck.key,
                         !.filter = SendGridCheck.filter, !.badDelete = SendGridBadDelete,
                         !.unauthorised = SendGridUnauthorised, !.clears = TRUE,
                         !.confirms = TRUE, !.batch = SendGridEvents]

AwxCheck == [key |-> "own", filter |-> "state"]
AwxClash == "adopt"
AwxConfirms == TRUE
AwxRepairs == TRUE
AwxBadDelete == "goon"
Awx == [WooCommerce EXCEPT !.name = "awx", !.key = AwxCheck.key, !.filter = AwxCheck.filter,
                           !.clash = AwxClash, !.confirms = AwxConfirms,
                           !.repairs = AwxRepairs, !.badDelete = AwxBadDelete]

\* Set up by hand at the provider.  These want the secret of the trigger.
Signed == [Trello EXCEPT !.knows = "operator", !.key = "secret", !.filter = "config"]
StripeEvent     == "single"
Stripe          == [Signed EXCEPT !.name = "stripe", !.batch = StripeEvent]
ShopifyEvent    == "single"
Shopify         == [Signed EXCEPT !.name = "shopify", !.batch = ShopifyEvent]
ApolloEvent     == "single"
Apollo          == [Signed EXCEPT !.name = "apollo", !.batch = ApolloEvent]
FreshsalesEvent == "single"
Freshsales      == [Signed EXCEPT !.name = "freshsales", !.batch = FreshsalesEvent]
HeyGenEvent     == "single"
HeyGen          == [Signed EXCEPT !.name = "heygen", !.batch = HeyGenEvent]
TypeformEvent   == "single"
Typeform        == [Signed EXCEPT !.name = "typeform", !.batch = TypeformEvent]
QuickBooksEvent == "first"
QuickBooks      == [Signed EXCEPT !.name = "quickbooks", !.batch = QuickBooksEvent]
XeroEvent       == "first"
Xero            == [Signed EXCEPT !.name = "xero", !.batch = XeroEvent]

\* These accept any delivery when the trigger has no secret, as here.
Open == [Signed EXCEPT !.key = "shared"]
GitHubEvent       == "single"
GitLabEvent       == "single"
GitProvider       == [Open EXCEPT !.name = "git", !.batch = GitHubEvent]
Intercom          == [Open EXCEPT !.name = "intercom"]
JotformEvent      == "single"
Jotform           == [Open EXCEPT !.name = "jotform", !.batch = JotformEvent]
SurveyMonkeyEvent == "single"
SurveyMonkey      == [Open EXCEPT !.name = "surveymonkey", !.batch = SurveyMonkeyEvent]

Profiles == {Jira, Trello, Monday, Asana, Mailchimp, Zendesk, Calendly, Calcom, Acuity,
             WooCommerce, SendGrid, Awx, Stripe, Shopify, Apollo, Freshsales, HeyGen,
             QuickBooks, Xero, Typeform, GitProvider, Intercom, Jotform, SurveyMonkey}

-----------------------------------------------------------------------------
VARIABLES
    host,       \* the provider of this trigger
    exists,     \* the row of the trigger
    config,     \* its configuration
    state,      \* trigger_state: the hook, its configuration, its key; 0 is none
    hooks,      \* the hooks at the provider
    next,       \* the next id, or key
    save,       \* the requests that save the flow
    del,        \* the request that deletes the trigger
    flight,     \* deliveries on their way
    emitted,    \* events the provider has sent deliveries for
    runs,       \* how often the flow was started for an event
    unheard,    \* events whose flow could not be started
    settled,    \* the last save went well, alone, or what it needs was set up by
                \* hand, and nothing was touched since
    calm,       \* events emitted while settled, and nothing was touched since
    lost,       \* hooks that a failed call hides from the program
    stranded,   \* a failed request has left a state that describes no hook
    overlapped, \* two requests were under way together
    saves, faults

atProvider == <<hooks, next>>
delivery == <<flight, emitted, runs, unheard>>
verdict == <<settled, stranded>>
ghosts == <<verdict, calm, lost, overlapped>>
vars == <<host, exists, config, state, atProvider, save, del, delivery, ghosts, saves, faults>>

Configs == 1 .. MaxConfig
Events == {0, 1}   \* 0 is selected by every configuration, 1 by the first

\* An event of a guarded provider belongs to one configuration (an audience).
Selects(c, e) == e = c \/ (e = 0 /\ host.key # "guarded")

\* What an operator sets up sends every event, a hook made in part some of those
\* it was made for, and an adopted one those of its earlier attachments too.
Sends(h, e) ==
    \/ /\ h.armed /\ (h.whole \/ e = 0)
       /\ host.knows = "operator" \/ Selects(h.config, e)
    \/ \E c \in h.also : Selects(c, e)

Batches == IF host.batch = "single" THEN {{e} : e \in Events} ELSE SUBSET Events \ {{}}

NoState == [hook |-> 0, config |-> 0, key |-> 0]
Idle == [pc |-> "idle", config |-> 0, old |-> 0, hook |-> 0, key |-> 0,
         whole |-> TRUE, retried |-> FALSE, clean |-> FALSE]
NoDelete == [pc |-> "idle", hook |-> 0]

Quiet == del.pc \in {"idle", "done"} /\ \A s \in Savers : save[s].pc = "idle"

Ids == Nat   \* of hooks and keys; 0 is none
Steps == {"idle", "load", "delete", "clear", "create", "replace", "confirm", "store", "undo"}
Requests == [pc : Steps, config : {0} \cup Configs, old : Ids, hook : Ids, key : Ids,
             whole : BOOLEAN, retried : BOOLEAN, clean : BOOLEAN]
Hooks == [id : Ids, config : Configs, key : Ids, whole : BOOLEAN, armed : BOOLEAN,
          also : SUBSET Configs]
Deliveries == [events : SUBSET Events, first : Events, config : Configs, key : Ids, hook : Ids]

TypeOK ==
    /\ host \in Profiles /\ exists \in BOOLEAN /\ config \in Configs
    /\ state \in [hook : Ids, config : {0} \cup Configs, key : Ids]
    /\ ~exists => state = NoState
    /\ hooks \subseteq Hooks
    /\ \A h, g \in hooks : h.id = g.id => h = g
    /\ next \in Ids
    /\ save \in [Savers -> Requests]
    /\ del \in [pc : {"idle", "hook", "row", "done"}, hook : Ids]
    /\ flight \subseteq Deliveries
    /\ runs \in [Events -> Nat]
    /\ calm \subseteq emitted /\ emitted \subseteq Events /\ unheard \subseteq Events
    /\ {settled, stranded, overlapped} \subseteq BOOLEAN /\ lost \subseteq Ids
    /\ saves \in 0 .. MaxSaves /\ faults \in 0 .. MaxFaults

Init ==
    /\ host \in {p \in Profiles : p.name \in Hosts}
    /\ exists = FALSE /\ config = 1 /\ state = NoState
    /\ hooks = {} /\ next = 1
    /\ save = [s \in Savers |-> Idle] /\ del = NoDelete
    /\ flight = {} /\ emitted = {} /\ runs = [e \in Events |-> 0] /\ unheard = {}
    /\ settled = FALSE /\ calm = {} /\ lost = {} /\ stranded = FALSE
    /\ overlapped = FALSE /\ saves = 0 /\ faults = 0

-----------------------------------------------------------------------------
(* Helpers of the actions.                                                 *)

Fault == faults < MaxFaults /\ faults' = faults + 1
NoFault == UNCHANGED faults
Lose(ids) == lost' = lost \cup (ids \ {0})

HookOf(id) == {h \in hooks : h.id = id}
Compared == {h \in hooks : h.config = config}

Keyed == host.key \in {"own", "handshake"}

\* st, a state that can read as current, describes none of the hooks hs.
Stale(st, hs) ==
    /\ st.hook # 0 /\ st.config # 0
    /\ \A h \in hs : ~ (/\ h.id = st.hook /\ h.config = st.config /\ h.armed
                       /\ (host.repairs => h.whole) /\ (Keyed => h.key = st.key))

Goto(s, pc) == save' = [save EXCEPT ![s].pc = pc] /\ UNCHANGED verdict
Spoilt(s, pc) == save' = [save EXCEPT ![s].pc = pc, ![s].clean = FALSE] /\ UNCHANGED verdict

\* The request is answered; how the registration went is only logged.
Finish(s, clean) ==
    /\ save' = [save EXCEPT ![s] = Idle]
    /\ settled' = clean

\* It was registered already; or it has failed.
Approve(s, clean) == Finish(s, clean) /\ UNCHANGED stranded
GiveUp(s) == Finish(s, FALSE) /\ stranded' = Stale(state', hooks')

-----------------------------------------------------------------------------
(* Saving the flow.                                                        *)

\* createTrigger: the row is written, then the hook is registered.
Save(s, c) ==
    /\ save[s].pc = "idle" /\ saves < MaxSaves /\ del.pc # "done"
    /\ Quiet \/ host.name \in Overlapping
    /\ exists' = TRUE /\ config' = c
    /\ save' = [t \in Savers |-> IF t = s THEN [Idle EXCEPT !.pc = "load", !.clean = Quiet]
                                 ELSE [save[t] EXCEPT !.clean = FALSE]]
    /\ saves' = saves + 1
    /\ settled' = FALSE /\ calm' = {} /\ overlapped' = (overlapped \/ ~Quiet)
    /\ UNCHANGED <<host, state, atProvider, del, delivery, stranded, lost, faults>>

\* Faulty variant: an edit is not noticed.
StateCurrent_AnyConfig(st, c) == st.hook # 0

\* Whether what is stored describes a usable hook of configuration c.
StateCurrent(st, c) ==
    /\ st.hook # 0 /\ st.config = c
    /\ host.key = "own" => st.key # 0

\* What there is to do for a request that has read st.
Plan(s, st) ==
    IF StateCurrent(st, config) THEN Approve(s, save[s].clean)
    ELSE /\ save' = [save EXCEPT ![s].config = config, ![s].old = st.hook,
                                 ![s].pc = IF st.hook = 0 THEN "create" ELSE "delete"]
         /\ UNCHANGED verdict

\* The credentials are resolved and the state is read.  A state that cannot be
\* read counts as none; without credentials nothing is registered.
Load(s) ==
    /\ save[s].pc = "load" /\ host.knows = "state"
    /\ UNCHANGED <<host, exists, config, state, atProvider, del, delivery, calm, overlapped, saves>>
    /\ \/ Plan(s, state) /\ NoFault /\ UNCHANGED lost
       \/ /\ Fault
          /\ save' = [save EXCEPT ![s].config = config, ![s].pc = "create", ![s].clean = FALSE]
          /\ Lose({state.hook}) /\ UNCHANGED verdict
       \/ Fault /\ GiveUp(s) /\ UNCHANGED lost

\* Mailchimp is asked for the hooks of the audience.
LoadList(s) ==
    /\ save[s].pc = "load" /\ host.knows = "list"
    /\ UNCHANGED <<host, exists, config, state, atProvider, del, delivery,
                   calm, lost, overlapped, saves>>
    /\ \/ NoFault /\ Compared # {} /\ Approve(s, save[s].clean)
       \/ /\ NoFault /\ Compared = {}
          /\ save' = [save EXCEPT ![s].config = config, ![s].pc = "create"]
          /\ UNCHANGED verdict
       \/ Fault /\ GiveUp(s)

\* Nothing is registered for a provider that is set up by hand: all is well if
\* what was set up fits already.
LoadNothing(s) ==
    /\ save[s].pc = "load" /\ host.knows = "operator"
    /\ Approve(s, save[s].clean /\ Compared # {})
    /\ UNCHANGED <<host, exists, config, state, atProvider, del, delivery,
                   calm, lost, overlapped, saves, faults>>

\* Faulty variant: the hook of the old configuration is left in place.
DeleteOld_Skipped(s) ==
    /\ save[s].pc = "delete"
    /\ Goto(s, "create")
    /\ UNCHANGED <<host, exists, config, state, atProvider, del, delivery, calm, lost,
                   overlapped, saves, faults>>

\* Where a request goes on when the old hook is removed.
Onwards == IF host.clears THEN "clear" ELSE "create"

\* The old hook is removed first; one that is gone already counts as removed.
\* The call may fail, or only its answer be lost.
DeleteOld(s) ==
    /\ save[s].pc = "delete"
    /\ UNCHANGED <<host, exists, config, state, next, del, delivery, calm, overlapped, saves>>
    /\ \/ /\ hooks' = hooks \ HookOf(save[s].old) /\ UNCHANGED lost
          /\ \/ Goto(s, Onwards) /\ NoFault
             \/ Fault /\ host.badDelete = "goon" /\ Spoilt(s, "create")
             \/ Fault /\ host.badDelete = "stop" /\ GiveUp(s)
       \/ /\ UNCHANGED hooks /\ Lose({save[s].old}) /\ Fault
          /\ \/ host.badDelete = "goon" /\ Spoilt(s, "create")
             \/ host.unauthorised /\ Spoilt(s, Onwards)
       \/ /\ UNCHANGED <<hooks, lost>> /\ Fault
          /\ host.badDelete = "stop" /\ GiveUp(s)

\* SendGrid: the state that describes the removed hook is dropped.
Clear(s) ==
    /\ save[s].pc = "clear"
    /\ \/ state' = NoState /\ Goto(s, "create") /\ NoFault
       \/ Fault /\ Spoilt(s, "create") /\ UNCHANGED state
    /\ UNCHANGED <<host, exists, config, atProvider, del, delivery, calm, lost, overlapped, saves>>

\* The hooks that keep the provider from making another one.
Clashing(c) ==
    CASE host.clash = "adopt"   -> hooks
      [] host.clash = "replace" -> {h \in hooks : h.config = c}
      [] OTHER                  -> {}

NewHook(c, whole) ==
    [id |-> next, config |-> c, key |-> next, whole |-> whole, armed |-> ~host.confirms,
     also |-> {}]

\* Asana hands over the key while it creates the hook, and waits for it to be
\* stored; it is merged into what was read of the state.
Handshake(st) == state' = IF host.key = "handshake" THEN [st EXCEPT !.key = next] ELSE state

AfterCreate(s, whole) ==
    IF host.knows = "list" THEN Approve(s, save[s].clean)
    ELSE /\ save' = [save EXCEPT ![s].hook = next, ![s].key = next, ![s].whole = whole,
                                 ![s].clean = @ /\ whole,
                                 ![s].pc = IF host.confirms THEN "confirm" ELSE "store"]
         /\ UNCHANGED verdict

\* The creation has failed: Asana looks once for what may be in its way.
Unmade(s) ==
    IF host.clash = "replace" /\ ~save[s].retried THEN Goto(s, "replace") ELSE GiveUp(s)

\* The hook is made, perhaps in part.
Create(s) ==
    /\ save[s].pc = "create" /\ Clashing(save[s].config) = {}
    /\ \/ /\ host.key = "handshake" => exists
          /\ hooks' = hooks \cup {NewHook(save[s].config, TRUE)}
          /\ Handshake(state) /\ NoFault
          /\ AfterCreate(s, TRUE)
       \/ /\ Fault /\ host.key = "handshake" /\ exists
          /\ hooks' = hooks \cup {NewHook(save[s].config, TRUE)}
          /\ Handshake(NoState)
          /\ AfterCreate(s, TRUE)
       \/ /\ Fault /\ host.parts
          /\ hooks' = hooks \cup {NewHook(save[s].config, FALSE)} /\ UNCHANGED state
          /\ AfterCreate(s, FALSE)
    /\ next' = next + 1
    /\ UNCHANGED <<host, exists, config, del, delivery, calm, lost, overlapped, saves>>

\* It is not, at times after the key was handed over; or it is, and the answer
\* is lost.
CreateFails(s) ==
    /\ save[s].pc = "create" /\ (host.clash = "adopt" => hooks = {})
    /\ \/ /\ Fault /\ Clashing(save[s].config) = {} /\ (host.key = "handshake" => exists)
          /\ hooks' = hooks \cup {NewHook(save[s].config, TRUE)}
          /\ Handshake(state) /\ Lose({next})
       \/ /\ \/ Fault /\ (UNCHANGED state \/ (exists /\ Handshake(state)))
             \/ /\ NoFault /\ UNCHANGED state
                /\ Clashing(save[s].config) # {} \/ (host.key = "handshake" /\ ~exists)
          /\ UNCHANGED <<hooks, lost>>
    /\ Unmade(s)
    /\ next' = next + 1
    /\ UNCHANGED <<host, exists, config, del, delivery, calm, overlapped, saves>>

\* AWX: the name is taken, by a template of this trigger; it gets the new key and
\* keeps what it was attached to.
Adopt(s) ==
    /\ save[s].pc = "create" /\ host.clash = "adopt"
    /\ UNCHANGED <<host, exists, config, state, del, delivery, calm, lost, overlapped, saves>>
    /\ next' = next + 1
    /\ \E h \in hooks :
        \/ /\ \E whole \in BOOLEAN :
               /\ IF whole THEN NoFault ELSE Fault
               /\ hooks' = (hooks \ {h}) \cup
                    {[NewHook(save[s].config, whole) EXCEPT
                        !.id = h.id, !.also = h.also \cup IF h.armed THEN {h.config} ELSE {}]}
               /\ save' = [save EXCEPT ![s].hook = h.id, ![s].key = next, ![s].whole = whole,
                                       ![s].clean = @ /\ whole, ![s].pc = "confirm"]
           /\ UNCHANGED verdict
        \/ /\ Fault
           /\ hooks' \in {hooks, (hooks \ {h}) \cup {[h EXCEPT !.key = next]}}
           /\ GiveUp(s)

\* Asana: the hook with this target that is found is removed, if it can be, and the
\* creation repeated.  None is found when the lookup fails or cannot be made.
Replace(s) ==
    /\ save[s].pc = "replace"
    /\ UNCHANGED <<host, exists, config, state, next, del, delivery, calm, lost, overlapped, saves>>
    /\ \/ /\ UNCHANGED <<hooks, faults>> /\ GiveUp(s)
       \/ /\ \E h \in hooks : \/ hooks' = hooks \ {h} /\ NoFault
                              \/ UNCHANGED hooks /\ Fault
          /\ save' = [save EXCEPT ![s].pc = "create", ![s].retried = TRUE]
          /\ UNCHANGED verdict

\* Zendesk reads the key and makes the rule, SendGrid turns signing on, AWX
\* attaches the template to the job.
Confirm(s) ==
    /\ save[s].pc = "confirm"
    /\ \/ /\ hooks' = {IF h.id = save[s].hook THEN [h EXCEPT !.armed = TRUE] ELSE h : h \in hooks}
          /\ Goto(s, "store") /\ NoFault
       \/ Fault /\ Spoilt(s, "undo") /\ UNCHANGED hooks
    /\ UNCHANGED <<host, exists, config, state, next, del, delivery, calm, lost, overlapped, saves>>

\* What is stored of the hook a request has made.
Remembered(s) ==
    [hook   |-> save[s].hook,
     config |-> IF save[s].whole \/ ~host.repairs THEN save[s].config ELSE 0,
     key    |-> CASE host.key = "own" -> save[s].key
                  [] host.key = "handshake" -> state.key
                  [] OTHER -> 0]

CanStore == exists /\ (host.key = "handshake" => state.key # 0)

\* The hook is stored.  When the trigger is gone, or the statement fails or seems
\* to, the hook is removed again.
Store(s) ==
    /\ save[s].pc = "store"
    /\ \/ /\ CanStore /\ state' = Remembered(s) /\ NoFault
          /\ Finish(s, save[s].clean) /\ stranded' = FALSE
       \/ /\ CanStore /\ state' = Remembered(s) /\ Fault
          /\ Spoilt(s, "undo")
       \/ /\ Fault \/ (NoFault /\ ~CanStore)
          /\ Spoilt(s, "undo") /\ UNCHANGED state
    /\ UNCHANGED <<host, exists, config, atProvider, del, delivery, calm, lost, overlapped, saves>>

\* Faulty variant: a hook that could not be stored is left at the provider.
Undo_Skipped(s) ==
    /\ save[s].pc = "undo"
    /\ UNCHANGED <<host, exists, config, state, atProvider, del, delivery,
                   calm, lost, overlapped, saves, faults>>
    /\ GiveUp(s)

Undo(s) ==
    /\ save[s].pc = "undo"
    /\ UNCHANGED <<host, exists, config, state, next, del, delivery, calm, overlapped, saves>>
    /\ \/ hooks' = hooks \ HookOf(save[s].hook) /\ NoFault /\ UNCHANGED lost
       \/ Fault /\ Lose({save[s].hook}) /\ UNCHANGED hooks
    /\ GiveUp(s)

\* The instance that serves the request dies.
Crash(s) ==
    /\ save[s].pc # "idle" /\ Fault
    /\ Lose({save[s].hook})
    /\ UNCHANGED <<host, exists, config, state, atProvider, del, delivery, calm, overlapped, saves>>
    /\ GiveUp(s)

-----------------------------------------------------------------------------
(* Deleting the trigger.                                                   *)

\* deleteTrigger: the state is read, or cannot be.
Delete ==
    /\ exists /\ del.pc = "idle"
    /\ Quiet \/ host.name \in Overlapping
    /\ \/ del' = [pc |-> "hook", hook |-> state.hook] /\ NoFault /\ UNCHANGED lost
       \/ Fault /\ del' = [pc |-> "row", hook |-> 0] /\ Lose({state.hook})
    /\ settled' = FALSE /\ calm' = {} /\ overlapped' = (overlapped \/ ~Quiet)
    /\ save' = [s \in Savers |-> [save[s] EXCEPT !.clean = FALSE]]
    /\ UNCHANGED <<host, exists, config, state, atProvider, delivery, stranded, saves>>

\* The hooks that a deletion asks the provider to remove.
Deregistered == IF host.knows = "list" THEN Compared ELSE HookOf(del.hook)

\* The hook is removed and then forgotten; without credentials neither, except
\* that Zendesk forgets it.  Whatever fails, the deletion goes on.
Deregister ==
    /\ del.pc = "hook"
    /\ \/ /\ hooks' = IF host.knows = "operator" THEN hooks ELSE hooks \ Deregistered
          /\ UNCHANGED lost
          /\ \/ state' = NoState /\ NoFault
             \/ Fault /\ UNCHANGED state
       \/ /\ Fault
          /\ Lose({h.id : h \in Deregistered}) /\ UNCHANGED hooks
          /\ state' = NoState \/ (host.keepsRow /\ UNCHANGED state)
    /\ del' = [del EXCEPT !.pc = "row"]
    /\ UNCHANGED <<host, exists, config, next, save, delivery, verdict, calm, overlapped, saves>>

\* Faulty variant: trigger_state outlives the row.
RemoveRow_KeepsState ==
    /\ del.pc = "row"
    /\ exists' = FALSE /\ del' = [del EXCEPT !.pc = "done"]
    /\ UNCHANGED <<host, config, state, atProvider, save, delivery, ghosts, saves, faults>>

\* RemoveTrigger: trigger_state goes with the row, or the deletion ends here.
RemoveRow ==
    /\ del.pc = "row"
    /\ \/ /\ exists' = FALSE /\ state' = NoState /\ UNCHANGED stranded
          /\ del' = [del EXCEPT !.pc = "done"] /\ NoFault
       \/ /\ Fault /\ del' = NoDelete /\ stranded' = Stale(state, hooks)
          /\ UNCHANGED <<exists, state>>
    /\ UNCHANGED <<host, config, atProvider, save, delivery, settled, calm, lost, overlapped, saves>>

-----------------------------------------------------------------------------
(* Deliveries.                                                             *)

\* Whoever set up the hook by hand does so again after an edit.
SetUp ==
    /\ host.knows = "operator" /\ exists /\ Compared = {}
    /\ hooks' = {[NewHook(config, TRUE) EXCEPT !.armed = TRUE]}
    /\ next' = next + 1 /\ settled' = Quiet
    /\ UNCHANGED <<host, exists, config, state, save, del, delivery, stranded, calm, lost,
                   overlapped, saves, faults>>

\* The delivery of h for a batch; first matters where all events are sent.
Told(h, b) == {e \in b : Sends(h, e)}
DeliveryOf(h, b, first) ==
    [events |-> Told(h, b), first |-> first, config |-> h.config, key |-> h.key, hook |-> h.id]

\* Something happens at the provider: every hook that asked for it sends it.
Emit(b, first) ==
    /\ b \cap emitted = {}
    /\ emitted' = emitted \cup b
    /\ flight' = flight \cup {DeliveryOf(h, b, first) : h \in {g \in hooks : Told(g, b) # {}}}
    /\ calm' = IF settled THEN calm \cup b ELSE calm
    /\ UNCHANGED <<host, exists, config, state, atProvider, save, del, runs, unheard,
                   verdict, lost, overlapped, saves, faults>>

Verified(d) ==
    CASE Keyed                 -> state.key # 0 /\ d.key = state.key
      [] host.key \in {"guarded", "secret"} -> d.config = config
      [] OTHER                 -> TRUE

\* The stored events are those of the stored configuration; without a stored
\* one every event passes.
Matches(e) ==
    CASE host.filter = "state"  -> state.config # 0 => Selects(state.config, e)
      [] host.filter = "config" -> Selects(config, e)
      [] OTHER                  -> TRUE

\* The events of a delivery that start the flow, those it is started with, and
\* those that are dropped because the first one is not selected.
Firing(d) == IF host.batch = "first"
             THEN {e \in d.events : Matches(d.first)}
             ELSE {e \in d.events : Matches(e)}
Overlooked(d) == IF host.batch = "first" /\ Firing(d) = {} THEN d.events ELSE {}

\* handleWebhook.  The answer is sent before the flow is started: a start that
\* fails, or a check with AWX that does, loses the event.  A delivery that is
\* refused and sent again is one that arrives later.
Deliver(d) ==
    /\ flight' = flight \ {d}
    /\ IF exists /\ Verified(d)
       THEN \E gone \in SUBSET Firing(d) :
            /\ IF gone = {} THEN NoFault
               ELSE Fault /\ (host.batch # "each" => gone = Firing(d))
            /\ runs' = [e \in Events |-> IF e \in Firing(d) \ gone THEN runs[e] + 1 ELSE runs[e]]
            /\ unheard' = unheard \cup gone \cup Overlooked(d)
       ELSE NoFault /\ UNCHANGED <<runs, unheard>>
    /\ UNCHANGED <<host, exists, config, state, atProvider, save, del, emitted, ghosts, saves>>

-----------------------------------------------------------------------------
Next ==
    \/ \E s \in Savers :
        \/ \E c \in Configs : Save(s, c)
        \/ Load(s) \/ LoadList(s) \/ LoadNothing(s)
        \/ DeleteOld(s) \/ Clear(s) \/ Create(s) \/ CreateFails(s) \/ Adopt(s) \/ Replace(s)
        \/ Confirm(s) \/ Store(s) \/ Undo(s) \/ Crash(s)
    \/ Delete \/ Deregister \/ RemoveRow
    \/ SetUp
    \/ \E b \in Batches : \E first \in b : Emit(b, first)
    \/ \E d \in flight : Deliver(d)

Spec == Init /\ [][Next]_vars

-----------------------------------------------------------------------------
(* Properties.                                                             *)

\* An event starts the flow once ("a stale subscription would double-fire the
\* flow"), unless a failed call has hidden a hook from the program or two saves
\* overlapped.  Where every hook has a key of its own it does even then, when
\* the event comes while no request is under way.
OneRun ==
    \A e \in Events :
        (lost = {} /\ ~overlapped) \/ (Keyed /\ e \in calm) => runs[e] <= 1

\* After a save that went well and alone an event the configuration selects
\* starts the flow, whatever failed before, unless a request that failed has left
\* a state that describes a hook which is not there: the save takes it for current
\* (RetriedCleanly).  Acuity does not replace a hook made in part, and where a
\* second hook is refused two overlapping saves may leave such a state too.
SavedIsHeard ==
    \A e \in calm \ unheard :
        \/ ~Selects(config, e)
        \/ \E d \in flight : e \in d.events
        \/ stranded
        \/ ~host.repairs /\ \E h \in hooks : ~h.whole
        \/ host.clash # "none" /\ overlapped
        \/ runs[e] >= 1

\* "The next save retries cleanly": once a save has gone well, an event that the
\* configuration selects starts the flow, whatever failed before.
RetriedCleanly ==
    \A e \in calm \ unheard :
        Selects(config, e) => runs[e] >= 1 \/ \E d \in flight : e \in d.events

\* When no request is under way, a hook at the provider is the one the trigger
\* remembers, unless a failed call has hidden it: no step of several that fails
\* leaves a hook behind that the next save or the deletion would not find.
NothingForgotten ==
    Quiet /\ ~overlapped /\ host.knows = "state" =>
        {h.id : h \in hooks} \subseteq lost \cup (IF exists THEN {state.hook} ELSE {})
=============================================================================
