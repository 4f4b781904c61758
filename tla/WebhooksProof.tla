----------------------------- MODULE WebhooksProof -----------------------------
(***************************************************************************)
(* Proofs about Webhooks, for any requests, configurations and bounds, any *)
(* provider, and whichever of them may overlap: no hook is forgotten, an   *)
(* event starts the flow once, and after a save that went well it does.    *)
(*                                                                         *)
(* The invariant follows the hooks.  As long as no two requests overlap, a *)
(* hook is one a failed call has hidden, the one the state names, or the   *)
(* one the request under way has made (Tracked).  What a request has made  *)
(* is there when it is stored (MadeFits), as nobody else knows of it       *)
(* (Distinct).  So a state that reads as current describes a hook that is  *)
(* there, unless a request is about to change it or has given up in        *)
(* between (CurrentIsGood).                                                *)
(***************************************************************************)
EXTENDS Webhooks, TLAPS

\* Where a request has made a hook that it has not stored.
Making == {"confirm", "store", "undo"}

\* Where what it does about the hook of the state is not finished.
Working == {"clear", "create", "replace"} \cup Making

\* No other request is under way next to that of s.
Sole(s) == del.pc \notin {"hook", "row"} /\ \A t \in Savers : save[t].pc # "idle" => t = s

\* A hook refused because of another one.
Clashes == host.clash # "none"

\* Ids and keys are made once, for a configuration.
Fresh ==
    /\ next > 0 /\ state.hook < next /\ state.key < next /\ del.hook < next
    /\ \A h \in hooks : h.id > 0 /\ h.id < next /\ h.key > 0 /\ h.key < next
    /\ \A h, g \in hooks : h.key = g.key => h = g
    /\ \A s \in Savers :
        /\ save[s].old < next /\ save[s].hook < next /\ save[s].key < next
        /\ save[s].pc \in Making => save[s].hook > 0 /\ save[s].key > 0
        /\ save[s].pc \notin {"idle", "load"} => save[s].config # 0

\* What a clean request, and a settled trigger, know of the others.
Alone ==
    /\ \A s \in Savers : /\ save[s].pc # "idle" /\ (~overlapped \/ save[s].clean) => Sole(s)
                         /\ save[s].clean => save[s].pc # "idle"
    /\ settled \/ calm # {} => Quiet

\* What there can be with the provider there is.
HostFits ==
    /\ \A s \in Savers : /\ save[s].pc = "clear" => host.clears
                         /\ save[s].pc = "replace" => host.clash = "replace"
    /\ host.knows # "state" => /\ state = NoState
                               /\ \A h \in hooks : h.armed /\ h.whole /\ h.also = {}
    /\ host.knows = "list" => \A s \in Savers : save[s].pc \in {"idle", "load", "create"}
    /\ host.knows = "operator" => /\ \A s \in Savers : save[s].pc \in {"idle", "load"}
                                  /\ \A h, g \in hooks : h = g

\* No hook is out of sight: a failed call has hidden it, or the state names it
\* while nobody is replacing it, or the request that made it does.
InSight(h) ==
    \/ h.id \in lost
    \/ /\ h.id = state.hook /\ del.pc # "row"
       /\ \A s \in Savers : save[s].pc \in {"idle", "load", "delete"}
    \/ \E s \in Savers : save[s].pc \in Making /\ h.id = save[s].hook

Tracked ==
    ~overlapped /\ host.knows = "state" =>
        /\ \A h \in hooks : InSight(h)
        /\ \A s \in Savers : save[s].pc = "delete" => save[s].old = state.hook
        /\ del.pc = "hook" => del.hook = state.hook

\* Mailchimp is asked before a hook is made.
ListFits ==
    host.knows = "list" /\ lost = {} /\ ~overlapped =>
        /\ \A h, g \in hooks : h.config = g.config => h = g
        /\ \A s \in Savers : save[s].pc = "create" =>
              \A h \in hooks : h.config # save[s].config

\* What is on its way, or has arrived, was emitted.
FlightFits ==
    /\ \A d \in flight : d.events \subseteq emitted
    /\ \A e \in Events : runs[e] > 0 => e \in emitted
    /\ unheard \subseteq emitted

\* An event that one hook sent is delivered once.
OneDelivery ==
    lost = {} /\ ~overlapped =>
        \A e \in Events :
            /\ \A d, f \in flight : e \in d.events /\ e \in f.events => d = f
            /\ runs[e] > 0 => \A d \in flight : e \notin d.events
            /\ runs[e] <= 1

\* d is verified for e.
Keyfit(d, e) == e \in d.events /\ d.key = state.key

\* The same of those that are verified, where every hook has its own key.
CalmDelivery ==
    Keyed =>
        \A e \in calm :
            /\ \A d, f \in flight : Keyfit(d, e) /\ Keyfit(f, e) => d = f
            /\ runs[e] > 0 => \A d \in flight : ~Keyfit(d, e)
            /\ runs[e] <= 1

\* Where a second hook is refused, two requests that overlap may leave a state
\* that only seems current.
Deaf == Clashes /\ overlapped

\* What a request has made is known to nobody else.
Distinct ==
    ~Clashes =>
        \A s \in Savers : save[s].pc \in {"confirm", "store"} =>
            /\ save[s].hook # state.hook /\ save[s].hook # del.hook
            /\ \A t \in Savers :
                /\ save[t].pc = "delete" => save[s].hook # save[t].old
                /\ save[t].pc \in Making /\ save[t].hook = save[s].hook => t = s

\* The hook that a request has made is there, as it will be stored.
MadeBy(s, h) ==
    /\ h.id = save[s].hook /\ h.config = save[s].config
    /\ host.key = "own" => h.key = save[s].key
    /\ host.key = "handshake" => h.key = state.key
    /\ save[s].whole => h.whole
    /\ save[s].pc = "store" => h.armed

MadeFits ==
    ~Deaf => \A s \in Savers : save[s].pc \in {"confirm", "store"} => \E h \in hooks : MadeBy(s, h)

\* A state that reads as current describes a hook that is there and usable, or
\* a request has left it so, or is about to.
CurrentIsGood ==
    Stale(state, hooks) =>
        \/ stranded \/ Deaf \/ del.pc = "row"
        \/ \E s \in Savers : save[s].pc \in Working

\* A clean request registers what is wanted now.
CleanFits ==
    \A s \in Savers : save[s].clean =>
        /\ exists /\ save[s].whole
        /\ save[s].pc # "load" => save[s].config = config

\* The hook that will be heard.
Heard(h) ==
    /\ h.armed /\ h.whole /\ h.config = config
    /\ Keyed => h.key = state.key
    /\ host.filter = "state" => state.config \in {0, config}

Exempt == Deaf \/ stranded \/ (~host.repairs /\ \E h \in hooks : ~h.whole)

SettledFits == settled => exists /\ (Exempt \/ \E h \in hooks : Heard(h))

\* A delivery that starts the flow for e when it arrives.
Starts(d, e) == e \in d.events /\ Verified(d) /\ (host.batch # "first" => Matches(e))

CalmFits ==
    /\ calm # {} => exists
    /\ ~Exempt =>
        \A e \in calm \ unheard : Selects(config, e) =>
            runs[e] >= 1 \/ \E d \in flight : Starts(d, e)

Sight == Fresh /\ Alone /\ HostFits /\ Tracked /\ ListFits
Once == FlightFits /\ OneDelivery /\ CalmDelivery
Aware == Distinct /\ MadeFits /\ CurrentIsGood
Hearing == CleanFits /\ SettledFits /\ CalmFits

IInv == TypeOK /\ Sight /\ Once
JInv == Aware /\ Hearing

USE WebhooksAssumption

-----------------------------------------------------------------------------
(* What the providers have in common.                                      *)

ProfileFits(p) ==
    /\ p.knows \in {"state", "list", "operator"}
    /\ {p.clears, p.confirms, p.parts, p.repairs, p.unauthorised} \subseteq BOOLEAN
    /\ p.knows = "list" => /\ p.key = "guarded" /\ p.clash = "none" /\ p.filter = "config"
                           /\ ~p.confirms /\ ~p.parts /\ p.repairs /\ ~p.clears
    /\ p.knows = "operator" => /\ p.key \in {"secret", "shared"} /\ p.clash = "none"
                               /\ p.filter = "config" /\ p.repairs /\ ~p.clears
    /\ p.key = "guarded" => p.knows = "list"
    /\ p.key = "secret" => p.knows = "operator"
    /\ p.key \in {"own", "handshake"} => p.knows = "state"
    /\ p.key = "handshake" => p.clash = "replace" /\ ~p.parts
    /\ p.clash = "adopt" => p.key = "own" /\ p.confirms
    /\ p.clash \in {"none", "adopt", "replace"}
    /\ p.filter = "state" => p.knows = "state"
    /\ p.clears => p.clash = "none"

\* Each of the 24 copies is one of a few kinds.
LEMMA Profile == \A p \in Profiles : ProfileFits(p)
<1>1. ProfileFits(Jira)
  BY DEF ProfileFits, Jira, JiraCheck
<1>2. ProfileFits(Trello)
  BY DEF ProfileFits, Trello, TrelloCheck, Jira, JiraCheck
<1>3. ProfileFits(Monday)
  BY DEF ProfileFits, Monday, MondayCheck, Trello, TrelloCheck, Jira,
         JiraCheck
<1>4. ProfileFits(Asana)
  BY DEF ProfileFits, Asana, AsanaCheck, AsanaClash, AsanaEvent, Trello, TrelloCheck,
         Jira, JiraCheck
<1>5. ProfileFits(Mailchimp)
  BY DEF ProfileFits, Mailchimp, MailchimpCheck, MailchimpDeregister,
         Trello, TrelloCheck, Jira, JiraCheck
<1>6. ProfileFits(Zendesk)
  BY DEF ProfileFits, Zendesk, ZendeskCheck, ZendeskKeepsRow, ZendeskEvent,
         Trello, TrelloCheck, Jira, JiraCheck
<1>7. ProfileFits(Calendly)
  BY DEF ProfileFits, Calendly, CalendlyCheck, CalendlyEvent, Jira,
         JiraCheck
<1>8. ProfileFits(Calcom)
  BY DEF ProfileFits, Calcom, CalcomCheck, CalcomEvent, Calendly,
         CalendlyCheck, CalendlyEvent, Jira, JiraCheck
<1>9. ProfileFits(Acuity)
  BY DEF ProfileFits, Acuity, AcuityCheck, AcuityEvent, Jira, JiraCheck
<1>10. ProfileFits(WooCommerce)
  BY DEF ProfileFits, WooCommerce, WooCommerceCheck, WooCommerceEvent, Jira,
         JiraCheck
<1>11. ProfileFits(SendGrid)
  BY DEF ProfileFits, SendGrid, SendGridCheck, SendGridEvents,
         SendGridBadDelete, SendGridUnauthorised, Jira, JiraCheck
<1>12. ProfileFits(Awx)
  BY DEF ProfileFits, Awx, AwxCheck, AwxClash, AwxConfirms, AwxRepairs,
         AwxBadDelete, WooCommerce, WooCommerceCheck, WooCommerceEvent,
         Jira, JiraCheck
<1>13. ProfileFits(Stripe)
  BY DEF ProfileFits, Stripe, StripeEvent, Signed, Trello, TrelloCheck,
         Jira, JiraCheck
<1>14. ProfileFits(Shopify)
  BY DEF ProfileFits, Shopify, ShopifyEvent, Signed, Trello, TrelloCheck,
         Jira, JiraCheck
<1>15. ProfileFits(Apollo)
  BY DEF ProfileFits, Apollo, ApolloEvent, Signed, Trello, TrelloCheck,
         Jira, JiraCheck
<1>16. ProfileFits(Freshsales)
  BY DEF ProfileFits, Freshsales, FreshsalesEvent, Signed, Trello,
         TrelloCheck, Jira, JiraCheck
<1>17. ProfileFits(HeyGen)
  BY DEF ProfileFits, HeyGen, HeyGenEvent, Signed, Trello, TrelloCheck,
         Jira, JiraCheck
<1>18. ProfileFits(Typeform)
  BY DEF ProfileFits, Typeform, TypeformEvent, Signed, Trello, TrelloCheck,
         Jira, JiraCheck
<1>19. ProfileFits(QuickBooks)
  BY DEF ProfileFits, QuickBooks, QuickBooksEvent, Signed, Trello,
         TrelloCheck, Jira, JiraCheck
<1>20. ProfileFits(Xero)
  BY DEF ProfileFits, Xero, XeroEvent, Signed, Trello, TrelloCheck, Jira,
         JiraCheck
<1>21. ProfileFits(GitProvider)
  BY DEF ProfileFits, GitProvider, GitHubEvent, Open, Signed, Trello,
         TrelloCheck, Jira, JiraCheck
<1>22. ProfileFits(Intercom)
  BY DEF ProfileFits, Intercom, Open, Signed, Trello, TrelloCheck, Jira,
         JiraCheck
<1>23. ProfileFits(Jotform)
  BY DEF ProfileFits, Jotform, JotformEvent, Open, Signed, Trello,
         TrelloCheck, Jira, JiraCheck
<1>24. ProfileFits(SurveyMonkey)
  BY DEF ProfileFits, SurveyMonkey, SurveyMonkeyEvent, Open, Signed, Trello,
         TrelloCheck, Jira, JiraCheck
<1> QED BY <1>1, <1>2, <1>3, <1>4, <1>5, <1>6, <1>7, <1>8, <1>9, <1>10, <1>11, <1>12,
         <1>13, <1>14, <1>15, <1>16, <1>17, <1>18, <1>19, <1>20, <1>21, <1>22, <1>23, <1>24 DEF Profiles

-----------------------------------------------------------------------------
(* Initially.                                                              *)

\* Initially there is nothing to remember.
LEMMA Initially == Init => IInv /\ JInv
<1> SUFFICES ASSUME Init PROVE IInv /\ JInv
  OBVIOUS
<1>1. TypeOK
  <2>1. Idle \in Requests /\ NoDelete \in [pc : {"idle", "hook", "row", "done"}, hook : Ids]
    BY DEF Idle, NoDelete, Requests, Ids, Steps
  <2>2. NoState \in [hook : Ids, config : {0} \cup Configs, key : Ids]
    BY DEF NoState, Ids
  <2>3. config \in Configs /\ next \in Ids /\ saves \in 0 .. MaxSaves /\ faults \in 0 .. MaxFaults
    BY DEF Init, Configs, Ids
  <2>4. runs \in [Events -> Nat] /\ save \in [Savers -> Requests]
    BY <2>1 DEF Init
  <2> QED BY <2>1, <2>2, <2>3, <2>4 DEF Init, TypeOK
<1>2. Sight
  BY Profile DEF Init, Sight, Fresh, Alone, HostFits, Tracked, ListFits, NoDelete, NoState,
                 Idle, Making, Sole, Quiet, ProfileFits
<1>3. Once
  BY DEF Init, Once, FlightFits, OneDelivery, CalmDelivery
<1>4. Aware
  BY DEF Init, Aware, Distinct, MadeFits, CurrentIsGood, Stale, NoState, Idle, Making
<1>5. Hearing
  BY DEF Init, Hearing, CleanFits, SettledFits, CalmFits, Idle
<1> QED BY <1>1, <1>2, <1>3, <1>4, <1>5 DEF IInv, JInv
-----------------------------------------------------------------------------
(* The steps of a request that saves.                                      *)

\* The variables that a request leaves alone, whatever it does.
Others == <<host, exists, config, del, delivery, calm, overlapped, saves>>

\* What its steps have in common.
Step(s) ==
    /\ save[s].pc # "idle"
    /\ UNCHANGED Others
    /\ faults' \in 0 .. MaxFaults
    /\ lost \subseteq lost' /\ lost' \subseteq Ids
    /\ save' \in [Savers -> Requests]
    /\ \A t \in Savers : t # s => save'[t] = save[t]
    /\ save'[s].clean => save[s].clean /\ save'[s].pc # "idle"
    /\ settled' \in BOOLEAN /\ (settled' => save[s].clean /\ save'[s].pc = "idle")
    /\ stranded' \in BOOLEAN

\* The types of what they may change.
SaveFits ==
    /\ state \in [hook : Ids, config : {0} \cup Configs, key : Ids]
    /\ ~exists => state = NoState
    /\ hooks \subseteq Hooks
    /\ \A h, g \in hooks : h.id = g.id => h = g
    /\ next \in Ids

\* They take place while nothing is calm, and so do not touch deliveries.
LEMMA StepKeeps ==
    ASSUME IInv, NEW s \in Savers, Step(s), SaveFits'
    PROVE  TypeOK' /\ Alone' /\ Once' /\ CalmFits'
<1>0. UNCHANGED <<host, exists, config, del, delivery, calm, overlapped, saves>>
  BY DEF Step, Others
<1>1. calm = {} /\ settled = FALSE
  BY DEF Step, IInv, Sight, Alone, Quiet, TypeOK
<1>2. TypeOK'
  BY <1>0 DEF Step, IInv, TypeOK, SaveFits, delivery
<1>3. Alone'
  <2>1. \A t \in Savers : save'[t].clean => save'[t].pc # "idle"
    BY DEF Step, IInv, Sight, Alone
  <2>2. ASSUME NEW t \in Savers, save'[t].pc # "idle", ~overlapped' \/ save'[t].clean
        PROVE  Sole(t)'
    BY <1>0, <2>2 DEF Step, IInv, Sight, Alone, Sole
  <2>3. settled' \/ calm' # {} => Quiet'
    <3> SUFFICES ASSUME settled' PROVE Quiet'
      BY <1>0, <1>1
    <3> QED BY <1>0 DEF Step, IInv, Sight, Alone, Sole, Quiet, TypeOK
  <2> QED BY <2>1, <2>2, <2>3 DEF Alone
<1>4. Once'
  <2>1. FlightFits' BY <1>0 DEF IInv, Once, FlightFits, delivery
  <2>2. OneDelivery' BY <1>0 DEF Step, IInv, Once, OneDelivery, delivery
  <2>3. CalmDelivery' BY <1>0, <1>1 DEF CalmDelivery
  <2> QED BY <2>1, <2>2, <2>3 DEF Once
<1>5. CalmFits'
  BY <1>0, <1>1 DEF CalmFits
<1> QED BY <1>2, <1>3, <1>4, <1>5

\* A failed call counts at most up to the bound.
LEMMA Counted == ASSUME TypeOK, Fault \/ NoFault PROVE faults' \in 0 .. MaxFaults
  BY DEF TypeOK, Fault, NoFault

\* A request that was answered is one like any other.
LEMMA IdleRequest == Idle \in Requests /\ Idle.pc = "idle" /\ ~Idle.clean
  BY DEF Idle, Requests, Steps, Ids

\* What is hidden stays hidden.
LEMMA Hidden ==
    ASSUME TypeOK, NEW id \in Ids, Lose({id})
    PROVE  lost \subseteq lost' /\ lost' \subseteq Ids /\ (id # 0 => id \in lost')
  BY DEF TypeOK, Lose

\* Whether a state is stale does not depend on anything else that changes.
LEMMA StaleNext ==
    ASSUME UNCHANGED host PROVE Stale(state, hooks)' <=> Stale(state', hooks')
  BY DEF Stale, Keyed

\* A request that is answered.
LEMMA Answered ==
    ASSUME TypeOK, NEW s \in Savers, save[s].pc # "idle", NEW clean \in BOOLEAN,
           Finish(s, clean), clean => save[s].clean, UNCHANGED Others, Fault \/ NoFault,
           lost \subseteq lost', lost' \subseteq Ids, stranded' \in BOOLEAN
    PROVE  Step(s) /\ save'[s] = Idle /\ settled' = clean
  BY Counted, IdleRequest DEF Finish, TypeOK, Step

\* A request that is given up.
LEMMA GivenUp ==
    ASSUME TypeOK, NEW s \in Savers, save[s].pc # "idle", GiveUp(s),
           UNCHANGED Others, Fault \/ NoFault, lost \subseteq lost', lost' \subseteq Ids
    PROVE  /\ Step(s) /\ save'[s] = Idle /\ settled' = FALSE
           /\ stranded' <=> Stale(state', hooks')
<1>1. Finish(s, FALSE) /\ stranded' = Stale(state', hooks') BY DEF GiveUp
<1>2. stranded' \in BOOLEAN /\ (stranded' <=> Stale(state', hooks')) BY <1>1 DEF Stale
<1> QED BY <1>1, <1>2, Answered

\* Nothing is settled while a request is under way.
LEMMA Unsettled ==
    ASSUME IInv, NEW s \in Savers, save[s].pc # "idle" PROVE settled = FALSE /\ calm = {}
  BY DEF IInv, Sight, Alone, Quiet, TypeOK

\* A request that goes on is a step that keeps the types.
LEMMA Goes ==
    ASSUME IInv, NEW s \in Savers, save[s].pc # "idle", NEW pc \in Steps \ {"idle"}, Goto(s, pc),
           UNCHANGED Others, Fault \/ NoFault, lost \subseteq lost', lost' \subseteq Ids
    PROVE  /\ Step(s) /\ settled' = FALSE /\ stranded' = stranded
           /\ save'[s] = [save[s] EXCEPT !.pc = pc]
<1>1. /\ save' \in [Savers -> Requests] /\ save'[s] = [save[s] EXCEPT !.pc = pc]
      /\ \A t \in Savers : t # s => save'[t] = save[t]
  BY DEF Goto, IInv, TypeOK, Requests
<1>2. save[s] \in Requests /\ stranded \in BOOLEAN BY DEF IInv, TypeOK
<1>3. settled' = settled /\ stranded' = stranded BY DEF Goto, verdict
<1> QED BY <1>1, <1>2, <1>3, Unsettled, Counted DEF Step, Requests, IInv

\* So is one that goes on after a failure, and it is not clean any more.
LEMMA Spoils ==
    ASSUME IInv, NEW s \in Savers, save[s].pc # "idle", NEW pc \in Steps \ {"idle"}, Spoilt(s, pc),
           UNCHANGED Others, Fault \/ NoFault, lost \subseteq lost', lost' \subseteq Ids
    PROVE  /\ Step(s) /\ settled' = FALSE /\ stranded' = stranded
           /\ save'[s] = [save[s] EXCEPT !.pc = pc, !.clean = FALSE]
<1>0. save \in [Savers -> Requests] /\ save[s] \in Requests /\ stranded \in BOOLEAN
  BY DEF IInv, TypeOK
<1>1. /\ save'[s] = [save[s] EXCEPT !.pc = pc, !.clean = FALSE]
      /\ \A t \in Savers : t # s => save'[t] = save[t]
  BY <1>0 DEF Spoilt
<1>2. save'[s] \in Requests BY <1>0, <1>1 DEF Requests
<1>3. save' \in [Savers -> Requests] BY <1>0, <1>1, <1>2 DEF Spoilt
<1>4. settled' = settled /\ stranded' = stranded BY DEF Spoilt, verdict
<1> QED BY <1>0, <1>1, <1>3, <1>4, Unsettled, Counted DEF Step, Requests, IInv

\* Where the hooks are while one request is under way alone.
LEMMA Known ==
    ASSUME IInv, NEW s \in Savers, save[s].pc # "idle", ~overlapped, host.knows = "state"
    PROVE  /\ Sole(s) /\ (save[s].pc = "delete" => save[s].old = state.hook)
           /\ \A h \in hooks : \/ h.id \in lost
                               \/ h.id = state.hook /\ save[s].pc \in {"load", "delete"}
                               \/ h.id = save[s].hook /\ save[s].pc \in Making
<1>1. Sole(s) BY DEF IInv, Sight, Alone
<1> QED BY <1>1 DEF IInv, Sight, Tracked, InSight, Sole, Making

\* The hooks that a request leaves at the provider are still in sight.
StillInSight(s) ==
    \A h \in hooks' : \/ h.id \in lost'
                      \/ h.id = state'.hook /\ save'[s].pc \in {"idle", "delete"}
                      \/ h.id = save'[s].hook /\ save'[s].pc = "undo"

\* A request that does not remember a hook it has made, or is to remove it.
Rests(s) ==
    /\ Step(s)
    /\ save'[s].pc \in {"idle", "delete", "clear", "create", "replace", "undo"}
    /\ ~overlapped /\ host.knows = "state" => StillInSight(s)
    /\ save'[s].pc = "delete" => save'[s].old = state'.hook
    /\ save'[s].pc = "undo" => save[s].pc \in {"confirm", "store"} /\ save'[s].hook = save[s].hook
    /\ \/ state'.hook \in {0, state.hook}
       \/ save[s].pc = "store" /\ state'.hook = save[s].hook
    /\ ~Clashes => /\ state'.key = state.key \/ host.key # "handshake"
                   /\ \A h \in hooks : h \notin hooks' =>
                        \/ save[s].pc = "delete" /\ h.id = save[s].old
                        \/ save[s].pc \in Making /\ h.id = save[s].hook
    /\ save'[s].clean =>
        /\ save'[s].whole = save[s].whole
        /\ save'[s].config = IF save[s].pc = "load" THEN config ELSE save[s].config
    /\ \/ save'[s].pc \in Working
       \/ stranded' <=> Stale(state', hooks')
       \/ save[s].pc = "load" /\ UNCHANGED <<state, hooks, stranded>>

\* Such a step keeps the invariant.
LEMMA RestsKeeps ==
    ASSUME IInv, NEW s \in Savers, Rests(s), SaveFits', Fresh', HostFits', ListFits',
           JInv => SettledFits'
    PROVE  IInv' /\ (JInv => JInv')
<1>0. Step(s) /\ UNCHANGED <<host, exists, config, del, delivery, calm, overlapped, saves>>
  BY DEF Rests, Step, Others
<1>1. TypeOK' /\ Alone' /\ Once' /\ CalmFits'
  BY <1>0, StepKeeps
<1>2. Tracked'
  <2> SUFFICES ASSUME ~overlapped, host.knows = "state" PROVE Tracked'
    BY <1>0 DEF Tracked
  <2>1. Sole(s) BY <1>0 DEF Step, IInv, Sight, Alone
  <2>2. \A t \in Savers : t # s => save'[t].pc = "idle"
    BY <1>0, <2>1 DEF Step, Sole
  <2>3. \A h \in hooks' : InSight(h)'
    BY <1>0, <2>1, <2>2 DEF Rests, StillInSight, InSight, Sole, Making
  <2> QED BY <1>0, <2>1, <2>2, <2>3 DEF Tracked, Sole, Rests
<1>3. ASSUME JInv PROVE JInv'
  <2>1. Distinct'
    <3> SUFFICES ASSUME ~Clashes, NEW t \in Savers, save'[t].pc \in {"confirm", "store"},
                        NEW u \in Savers
                 PROVE  /\ save'[t].hook # state'.hook /\ save'[t].hook # del.hook
                        /\ save'[u].pc = "delete" => save'[t].hook # save'[u].old
                        /\ save'[u].pc \in Making /\ save'[u].hook = save'[t].hook => u = t
      BY <1>0 DEF Distinct, Clashes
    <3>1. t # s /\ save'[t] = save[t] /\ save[t].hook > 0
      BY <1>0 DEF Rests, Step, IInv, Sight, Fresh, Making
    <3>2. /\ save[t].hook # state.hook /\ save[t].hook # del.hook
          /\ \A v \in Savers : /\ save[v].pc = "delete" => save[t].hook # save[v].old
                               /\ save[v].pc \in Making /\ save[v].hook = save[t].hook => v = t
      BY <1>3, <3>1 DEF JInv, Aware, Distinct
    <3>3. save[t].hook # state'.hook
      BY <3>1, <3>2 DEF Rests, Making
    <3>4. CASE u = s
      BY <3>1, <3>2, <3>3, <3>4 DEF Rests, Making
    <3>5. CASE u # s
      BY <1>0, <3>1, <3>2, <3>3, <3>5 DEF Step
    <3> QED BY <3>4, <3>5
  <2>2. MadeFits'
    <3> SUFFICES ASSUME ~Deaf, NEW t \in Savers, save'[t].pc \in {"confirm", "store"}
                 PROVE  \E h \in hooks' : MadeBy(t, h)'
      BY <1>0 DEF MadeFits, Deaf, Clashes
    <3>1. t # s /\ save'[t] = save[t] BY <1>0 DEF Rests, Step
    <3>2. save[s].pc # "idle" /\ save[t].pc # "idle" BY <1>0, <3>1 DEF Step
    <3>3. ~Clashes BY <3>1, <3>2 DEF Deaf, IInv, Sight, Alone, Sole
    <3>4. PICK h \in hooks : MadeBy(t, h)
      BY <1>3, <3>1 DEF JInv, Aware, MadeFits
    <3>5. h \in hooks'
      BY <1>3, <3>1, <3>3, <3>4 DEF JInv, Aware, Distinct, MadeBy, Rests, Making
    <3> QED BY <1>0, <3>1, <3>3, <3>4, <3>5 DEF MadeBy, Rests
  <2>3. CurrentIsGood'
    <3> SUFFICES ASSUME Stale(state', hooks')
                 PROVE  \/ stranded' \/ Deaf' \/ del.pc = "row"
                        \/ \E t \in Savers : save'[t].pc \in Working
      BY <1>0, StaleNext DEF CurrentIsGood
    <3>1. CASE save'[s].pc \in Working \/ (stranded' <=> Stale(state', hooks'))
      BY <3>1
    <3>2. CASE save[s].pc = "load" /\ UNCHANGED <<state, hooks, stranded>>
      <4>1. Stale(state, hooks) BY <3>2
      <4>2. \A t \in Savers : save[t].pc \in Working => save'[t].pc \in Working
        BY <1>0, <3>2 DEF Step, Working, Making
      <4> QED BY <1>0, <1>3, <3>2, <4>1, <4>2 DEF JInv, Aware, CurrentIsGood, Deaf, Clashes
    <3> QED BY <3>1, <3>2 DEF Rests
  <2>4. CleanFits'
    BY <1>0, <1>3 DEF Rests, Step, JInv, Hearing, CleanFits
  <2> QED BY <1>1, <1>3, <2>1, <2>2, <2>3, <2>4 DEF JInv, Aware, Hearing
<1> QED BY <1>1, <1>2, <1>3 DEF IInv, Sight

\* What a request knows of ids fits.
RequestFits(s) ==
    /\ save[s].old < next /\ save[s].hook < next /\ save[s].key < next
    /\ save[s].pc \in Making => save[s].hook > 0 /\ save[s].key > 0
    /\ save[s].pc \notin {"idle", "load"} => save[s].config # 0
    /\ save[s].pc = "clear" => host.clears
    /\ save[s].pc = "replace" => host.clash = "replace"
    /\ host.knows = "list" => save[s].pc \in {"idle", "load", "create"}
    /\ host.knows = "operator" => save[s].pc \in {"idle", "load"}

\* Where no hook is made the parts of the invariant about ids follow.
LEMMA Fewer ==
    ASSUME IInv, NEW s \in Savers, Step(s), hooks' \subseteq hooks, next' \in Ids, next <= next',
           state' \in [hook : Ids, config : {0} \cup Configs, key : Ids],
           state' = NoState \/ (exists /\ host.knows = "state") \/ state' = state,
           state'.hook < next', state'.key < next', RequestFits(s)',
           host.knows = "list" /\ save'[s].pc = "create" =>
              \A h \in hooks : h.config # save'[s].config
    PROVE  SaveFits' /\ Fresh' /\ HostFits' /\ ListFits'
<1>0. UNCHANGED <<host, exists, config, del, overlapped>>
  BY DEF Step, Others
<1>1. SaveFits'
  BY <1>0 DEF IInv, TypeOK, SaveFits
<1>2. \A t \in Savers : RequestFits(t)'
  <2>1. \A t \in Savers : /\ save[t] \in Requests /\ save[t].old < next /\ save[t].hook < next
                          /\ save[t].key < next
    BY DEF IInv, Sight, Fresh, TypeOK
  <2>2. ASSUME NEW t \in Savers, t # s PROVE RequestFits(t)'
    <3>1. save[t].old < next' /\ save[t].hook < next' /\ save[t].key < next'
      BY <2>1 DEF IInv, TypeOK, Requests, Ids
    <3> QED BY <1>0, <2>2, <3>1 DEF Step, RequestFits, IInv, Sight, Fresh, HostFits
  <2> QED BY <2>2
<1>3. Fresh'
  <2>1. next' > 0 /\ del.hook < next'
    BY DEF IInv, Sight, Fresh, TypeOK, Ids
  <2>2. \A h \in hooks' : h.id > 0 /\ h.id < next' /\ h.key > 0 /\ h.key < next'
    BY DEF IInv, Sight, Fresh, TypeOK, Hooks, Ids
  <2>3. \A h, g \in hooks' : h.key = g.key => h = g
    BY DEF IInv, Sight, Fresh
  <2> QED BY <1>0, <1>2, <2>1, <2>2, <2>3 DEF Fresh, RequestFits
<1>4. HostFits'
  BY <1>0, <1>2 DEF IInv, Sight, HostFits, RequestFits
<1>5. ListFits'
  BY <1>0 DEF Step, IInv, Sight, ListFits
<1> QED BY <1>1, <1>3, <1>4, <1>5

\* A request that only forgets or removes what it knows keeps the invariant.
LEMMA LessKeeps ==
    ASSUME IInv, NEW s \in Savers, Rests(s), hooks' \subseteq hooks, next' \in Ids, next <= next',
           state' \in [hook : Ids, config : {0} \cup Configs, key : Ids],
           state' = NoState \/ (exists /\ host.knows = "state") \/ state' = state,
           state'.hook < next', state'.key < next', RequestFits(s)',
           host.knows = "list" /\ save'[s].pc = "create" =>
              \A h \in hooks : h.config # save'[s].config,
           JInv => SettledFits'
    PROVE  IInv' /\ (JInv => JInv')
<1>1. SaveFits' /\ Fresh' /\ HostFits' /\ ListFits'
  BY Fewer DEF Rests
<1> QED BY <1>1, RestsKeeps

\* So does one that is given up.
LEMMA GiveUpKeeps ==
    ASSUME IInv, NEW s \in Savers, save[s].pc # "idle", GiveUp(s), UNCHANGED Others,
           Fault \/ NoFault, lost \subseteq lost', lost' \subseteq Ids,
           SaveFits', Fresh', HostFits', ListFits',
           ~overlapped /\ host.knows = "state" => StillInSight(s),
           state'.hook = state.hook,
           ~Clashes => /\ state'.key = state.key \/ host.key # "handshake"
                       /\ \A h \in hooks : h \notin hooks' =>
                            \/ save[s].pc = "delete" /\ h.id = save[s].old
                            \/ save[s].pc \in Making /\ h.id = save[s].hook
    PROVE  IInv' /\ (JInv => JInv')
<1>1. /\ Step(s) /\ save'[s] = Idle /\ settled' = FALSE
      /\ stranded' <=> Stale(state', hooks')
  BY GivenUp DEF IInv
<1>2. save'[s].pc = "idle" /\ ~save'[s].clean BY <1>1, IdleRequest
<1>3. Rests(s) BY <1>1, <1>2 DEF Rests
<1>4. SettledFits' BY <1>1 DEF SettledFits
<1> QED BY <1>3, <1>4, RestsKeeps

\* And one that is given up without having made anything.
LEMMA QuitKeeps ==
    ASSUME IInv, NEW s \in Savers, save[s].pc # "idle", GiveUp(s), UNCHANGED Others,
           Fault \/ NoFault, lost \subseteq lost', lost' \subseteq Ids,
           UNCHANGED state, next' \in Ids, next <= next', hooks' \subseteq hooks,
           save[s].pc \in Making => \A h \in hooks' : h.id = save[s].hook => h.id \in lost',
           ~Clashes => \A h \in hooks : h \notin hooks' =>
                            \/ save[s].pc = "delete" /\ h.id = save[s].old
                            \/ save[s].pc \in Making /\ h.id = save[s].hook
    PROVE  IInv' /\ (JInv => JInv')
<1>1. /\ Step(s) /\ save'[s] = Idle /\ settled' = FALSE
  BY GivenUp DEF IInv
<1>2. next' > 0 /\ state.hook < next' /\ state.key < next'
  BY DEF IInv, Sight, Fresh, TypeOK, Ids
<1>3. SaveFits' /\ Fresh' /\ HostFits' /\ ListFits'
  <2>1. RequestFits(s)' BY <1>1, <1>2 DEF RequestFits, Idle, Making
  <2> QED BY <1>1, <1>2, <2>1, Fewer DEF IInv, TypeOK, Idle
<1>4. ~overlapped /\ host.knows = "state" => StillInSight(s)
  BY <1>1, Known DEF StillInSight, Idle
<1> QED BY <1>3, <1>4, GiveUpKeeps

\* What is needed of a request that goes on.
LEMMA RequestNow ==
    ASSUME IInv, NEW s \in Savers, save[s].pc # "idle"
    PROVE  /\ RequestFits(s) /\ save[s] \in Requests /\ config # 0
           /\ state.hook < next /\ state.key < next /\ next \in Ids /\ next > 0
           /\ state \in [hook : Ids, config : {0} \cup Configs, key : Ids]
           /\ ProfileFits(host) /\ settled = FALSE
           /\ save[s].pc \notin {"load", "create"} => host.knows = "state"
           /\ \A h \in hooks : h.id # 0 /\ h.id \in Ids
<1>1. /\ RequestFits(s) /\ save[s] \in Requests /\ config # 0 /\ next \in Ids /\ next > 0
      /\ state.hook < next /\ state.key < next
      /\ state \in [hook : Ids, config : {0} \cup Configs, key : Ids]
  BY DEF IInv, TypeOK, Sight, Fresh, HostFits, RequestFits, Configs
<1>2. ProfileFits(host) BY Profile DEF IInv, TypeOK
<1>3. settled = FALSE BY Unsettled
<1>4. save[s].pc \notin {"load", "create"} => host.knows = "state"
  BY <1>2 DEF ProfileFits, IInv, Sight, HostFits
<1>5. \A h \in hooks : h.id # 0 /\ h.id \in Ids
  BY DEF IInv, TypeOK, Hooks, Sight, Fresh, Ids
<1> QED BY <1>1, <1>2, <1>3, <1>4, <1>5

\* A load finds that the hook is there, or cannot find out.
LEMMA LoadKeeps ==
    ASSUME IInv, NEW s \in Savers, Load(s) PROVE IInv' /\ (JInv => JInv')
<1>1. UNCHANGED Others /\ UNCHANGED <<state, hooks, next>> /\ save[s].pc = "load" /\ host.knows = "state"
  BY DEF Load, Others, atProvider
<1>2. /\ RequestFits(s) /\ save[s] \in Requests /\ config # 0 /\ config \in Configs
      /\ state.hook < next /\ state.key < next /\ next \in Ids /\ next > 0
      /\ state \in [hook : Ids, config : {0} \cup Configs, key : Ids]
      /\ ProfileFits(host) /\ settled = FALSE /\ TypeOK
      /\ save \in [Savers -> Requests] /\ stranded \in BOOLEAN /\ lost \subseteq Ids
  BY <1>1, RequestNow DEF IInv, TypeOK
<1>3. CASE Plan(s, state) /\ NoFault /\ UNCHANGED lost
  <2>1. CASE StateCurrent(state, config)
    <3>1. Finish(s, save[s].clean) /\ save[s].clean \in BOOLEAN /\ stranded' = stranded
      BY <1>2, <1>3, <2>1 DEF Plan, Approve, Requests
    <3>2. Step(s) /\ save'[s] = Idle /\ settled' = save[s].clean
      BY <1>1, <1>2, <1>3, <3>1, Answered
    <3>3. ASSUME JInv, settled' PROVE SettledFits'
      <4>1. exists /\ save[s].clean /\ Sole(s)
        BY <1>1, <3>2, <3>3 DEF JInv, Hearing, CleanFits, IInv, Sight, Alone
      <4>2. ASSUME ~Exempt PROVE \E h \in hooks : Heard(h)
        <5>1. state.hook # 0 /\ state.config = config
          BY <2>1 DEF StateCurrent
        <5>2. /\ ~ \E t \in Savers : save[t].pc \in Working
              /\ del.pc # "row"
          BY <1>1, <4>1 DEF Sole, Working, Making
        <5>3. ~Stale(state, hooks)
          BY <3>3, <4>2, <5>2 DEF JInv, Aware, CurrentIsGood, Exempt
        <5>4. PICK h \in hooks : /\ h.id = state.hook /\ h.config = state.config /\ h.armed
                                 /\ host.repairs => h.whole
                                 /\ Keyed => h.key = state.key
          BY <1>2, <5>1, <5>3 DEF Stale
        <5> QED BY <1>2, <4>2, <5>1, <5>4 DEF Heard, Exempt
      <4>3. UNCHANGED <<host, exists, config, overlapped>> BY <1>1 DEF Others
      <4> QED BY <1>1, <3>1, <4>1, <4>2, <4>3 DEF SettledFits, Exempt, Heard, Deaf, Clashes, Keyed
    <3>4. save'[s].pc = "idle" /\ ~save'[s].clean BY <3>2, IdleRequest
    <3>5. ~overlapped => StillInSight(s)
      BY <1>1, <1>3, <3>4, Known DEF StillInSight, Making
    <3>6. Rests(s) BY <1>1, <3>1, <3>2, <3>4, <3>5 DEF Rests
    <3>7. RequestFits(s)' BY <1>1, <1>2, <3>2 DEF RequestFits, Idle, Making
    <3> QED BY <1>1, <1>2, <3>2, <3>3, <3>4, <3>6, <3>7, LessKeeps DEF SettledFits, Ids
  <2>2. CASE ~StateCurrent(state, config)
    <3>0. PICK pc \in {"create", "delete"} :
            /\ save' = [save EXCEPT ![s].config = config, ![s].old = state.hook, ![s].pc = pc]
            /\ pc = "create" <=> state.hook = 0
      BY <1>3, <2>2 DEF Plan
    <3>1. /\ save'[s] = [save[s] EXCEPT !.config = config, !.old = state.hook, !.pc = pc]
          /\ \A t \in Savers : t # s => save'[t] = save[t]
          /\ settled' = settled /\ stranded' = stranded
      BY <1>2, <1>3, <2>2, <3>0 DEF Plan, verdict
    <3>2. /\ save'[s].config = config /\ save'[s].old = state.hook /\ save'[s].pc = pc
          /\ save'[s].hook = save[s].hook /\ save'[s].key = save[s].key
          /\ save'[s].whole = save[s].whole /\ save'[s].clean = save[s].clean
          /\ save'[s] \in Requests
      BY <1>2, <3>1 DEF Requests, Steps
    <3>3. Step(s)
      <4>1. save' \in [Savers -> Requests] BY <1>2, <3>0, <3>1, <3>2
      <4>2. faults' \in 0 .. MaxFaults BY <1>2, <1>3, Counted
      <4> QED BY <1>1, <1>2, <1>3, <3>1, <3>2, <4>1, <4>2 DEF Step
    <3>4. ~overlapped => StillInSight(s)
      <4>1. \A h \in hooks : h.id # 0 BY DEF IInv, Sight, Fresh
      <4> QED BY <1>1, <1>3, <3>0, <3>2, <4>1, Known DEF StillInSight, Making
    <3>5. Rests(s) BY <1>1, <3>1, <3>2, <3>3, <3>4 DEF Rests
    <3>6. RequestFits(s)'
      <4>1. UNCHANGED host BY <1>1 DEF Others
      <4> QED BY <1>1, <1>2, <3>2, <4>1 DEF RequestFits, Making
    <3> QED BY <1>1, <1>2, <3>1, <3>3, <3>5, <3>6, LessKeeps DEF SettledFits, Ids
  <2> QED BY <2>1, <2>2
<1>4. CASE /\ Fault
           /\ save' = [save EXCEPT ![s].config = config, ![s].pc = "create", ![s].clean = FALSE]
           /\ Lose({state.hook}) /\ UNCHANGED verdict
  <2>1. /\ save'[s] = [save[s] EXCEPT !.config = config, !.pc = "create", !.clean = FALSE]
        /\ \A t \in Savers : t # s => save'[t] = save[t]
        /\ settled' = settled /\ stranded' = stranded
    BY <1>2, <1>4 DEF verdict
  <2>2. /\ save'[s].config = config /\ save'[s].old = save[s].old /\ save'[s].pc = "create"
        /\ save'[s].hook = save[s].hook /\ save'[s].key = save[s].key
        /\ ~save'[s].clean /\ save'[s] \in Requests
    BY <1>2, <2>1 DEF Requests, Steps
  <2>3. lost \subseteq lost' /\ lost' \subseteq Ids /\ (state.hook # 0 => state.hook \in lost')
    BY <1>2, <1>4, Hidden
  <2>4. Step(s)
    <3>1. save' \in [Savers -> Requests] BY <1>2, <1>4, <2>1, <2>2
    <3>2. faults' \in 0 .. MaxFaults BY <1>2, <1>4, Counted
    <3> QED BY <1>1, <1>2, <2>1, <2>2, <2>3, <3>1, <3>2 DEF Step
  <2>5. ~overlapped => StillInSight(s)
    <3>1. \A h \in hooks : h.id # 0 BY DEF IInv, Sight, Fresh
    <3> QED BY <1>1, <2>2, <2>3, <3>1, Known DEF StillInSight, Making
  <2>6. Rests(s) BY <1>1, <2>1, <2>2, <2>4, <2>5 DEF Rests
  <2>7. RequestFits(s)'
    <3>1. UNCHANGED host BY <1>1 DEF Others
    <3> QED BY <1>1, <1>2, <2>2, <3>1 DEF RequestFits, Making
  <2> QED BY <1>1, <1>2, <2>1, <2>4, <2>6, <2>7, LessKeeps DEF SettledFits, Ids
<1>5. CASE Fault /\ GiveUp(s) /\ UNCHANGED lost
  BY <1>1, <1>2, <1>5, QuitKeeps DEF Making, Ids
<1> QED BY <1>3, <1>4, <1>5 DEF Load

\* Mailchimp: the list shows the hook, or that there is none.
LEMMA LoadListKeeps ==
    ASSUME IInv, NEW s \in Savers, LoadList(s) PROVE IInv' /\ (JInv => JInv')
<1>1. /\ UNCHANGED Others /\ UNCHANGED <<state, hooks, next, lost>>
      /\ save[s].pc = "load" /\ host.knows = "list"
  BY DEF LoadList, Others, atProvider
<1>2. /\ RequestFits(s) /\ save[s] \in Requests /\ config # 0 /\ config \in Configs
      /\ state.hook < next /\ state.key < next /\ next \in Ids /\ next > 0
      /\ state \in [hook : Ids, config : {0} \cup Configs, key : Ids] /\ state = NoState
      /\ ProfileFits(host) /\ settled = FALSE /\ TypeOK
      /\ save \in [Savers -> Requests] /\ stranded \in BOOLEAN /\ lost \subseteq Ids
  BY <1>1, RequestNow DEF IInv, TypeOK, Sight, HostFits
<1>3. CASE NoFault /\ Compared # {} /\ Approve(s, save[s].clean)
  <2>1. /\ Step(s) /\ save'[s] = Idle /\ settled' = save[s].clean
        /\ stranded' = stranded /\ save'[s].pc = "idle" /\ ~save'[s].clean
    BY <1>1, <1>2, <1>3, Answered, IdleRequest DEF Requests, Approve
  <2>2. ASSUME JInv, settled' PROVE SettledFits'
    <3>0. UNCHANGED <<host, exists, config>> BY <1>1 DEF Others
    <3>1. PICK h \in hooks : h.config = config BY <1>3 DEF Compared
    <3>2. Heard(h)'
      BY <1>1, <1>2, <3>0, <3>1
      DEF Heard, IInv, Sight, HostFits, Keyed, ProfileFits, NoState
    <3> QED BY <1>1, <2>1, <2>2, <3>0, <3>1, <3>2 DEF SettledFits, JInv, Hearing, CleanFits
  <2>3. Rests(s) BY <1>1, <2>1 DEF Rests
  <2>4. RequestFits(s)' BY <1>1, <1>2, <2>1 DEF RequestFits, Idle, Making
  <2> QED BY <1>1, <1>2, <2>1, <2>2, <2>3, <2>4, LessKeeps DEF SettledFits, Ids
<1>4. CASE /\ NoFault /\ Compared = {} /\ UNCHANGED verdict
           /\ save' = [save EXCEPT ![s].config = config, ![s].pc = "create"]
  <2>1. /\ save'[s] = [save[s] EXCEPT !.config = config, !.pc = "create"]
        /\ \A t \in Savers : t # s => save'[t] = save[t]
        /\ settled' = settled /\ stranded' = stranded
    BY <1>2, <1>4 DEF verdict
  <2>2. /\ save'[s].config = config /\ save'[s].old = save[s].old /\ save'[s].pc = "create"
        /\ save'[s].hook = save[s].hook /\ save'[s].key = save[s].key
        /\ save'[s].whole = save[s].whole /\ save'[s].clean = save[s].clean
        /\ save'[s] \in Requests
    BY <1>2, <2>1 DEF Requests, Steps
  <2>3. Step(s)
    <3>1. save' \in [Savers -> Requests] BY <1>2, <1>4, <2>1, <2>2
    <3>2. faults' \in 0 .. MaxFaults BY <1>2, <1>4, Counted
    <3> QED BY <1>1, <1>2, <2>1, <2>2, <3>1, <3>2 DEF Step
  <2>4. Rests(s) BY <1>1, <2>1, <2>2, <2>3 DEF Rests
  <2>5. RequestFits(s)'
    <3>1. UNCHANGED host BY <1>1 DEF Others
    <3> QED BY <1>1, <1>2, <2>2, <3>1 DEF RequestFits, Making
  <2> QED BY <1>1, <1>2, <1>4, <2>1, <2>2, <2>3, <2>4, <2>5, LessKeeps DEF SettledFits, Ids, Compared
<1>5. CASE Fault /\ GiveUp(s)
  BY <1>1, <1>2, <1>5, QuitKeeps DEF Making, Ids
<1> QED BY <1>3, <1>4, <1>5 DEF LoadList

\* Set up by hand: the request knows whether what is there fits.
LEMMA LoadNothingKeeps ==
    ASSUME IInv, NEW s \in Savers, LoadNothing(s) PROVE IInv' /\ (JInv => JInv')
<1>1. /\ UNCHANGED Others /\ UNCHANGED <<state, hooks, next, lost>> /\ NoFault
      /\ save[s].pc = "load" /\ host.knows = "operator"
  BY DEF LoadNothing, Others, atProvider, NoFault
<1>2. /\ RequestFits(s) /\ state.hook < next /\ state.key < next /\ next \in Ids /\ next > 0
      /\ state \in [hook : Ids, config : {0} \cup Configs, key : Ids] /\ state = NoState
      /\ ProfileFits(host) /\ TypeOK /\ stranded \in BOOLEAN /\ lost \subseteq Ids
  BY <1>1, RequestNow DEF IInv, TypeOK, Sight, HostFits
<1>3. /\ Step(s) /\ save'[s] = Idle /\ settled' = (save[s].clean /\ Compared # {})
      /\ stranded' = stranded /\ save'[s].pc = "idle" /\ ~save'[s].clean
  <2>1. /\ (save[s].clean /\ Compared # {}) \in BOOLEAN
        /\ Finish(s, save[s].clean /\ Compared # {}) /\ stranded' = stranded
    BY DEF LoadNothing, Approve
  <2> QED BY <1>1, <1>2, <2>1, Answered, IdleRequest
<1>4. ASSUME JInv, settled' PROVE SettledFits'
  <2>0. UNCHANGED <<host, exists, config>> BY <1>1 DEF Others
  <2>1. PICK h \in hooks : h.config = config BY <1>3, <1>4 DEF Compared
  <2>2. Heard(h)'
    BY <1>1, <1>2, <2>0, <2>1
    DEF Heard, IInv, Sight, HostFits, Keyed, ProfileFits, NoState
  <2> QED BY <1>1, <1>3, <1>4, <2>0, <2>1, <2>2 DEF SettledFits, JInv, Hearing, CleanFits
<1>5. Rests(s) BY <1>1, <1>3 DEF Rests
<1>6. RequestFits(s)' BY <1>1, <1>2, <1>3 DEF RequestFits, Idle, Making
<1> QED BY <1>1, <1>2, <1>3, <1>4, <1>5, <1>6, LessKeeps DEF SettledFits, Ids

\* A request that goes on without having made anything: whatever it removes is
\* its own, and it knows that no other hook is in sight when it goes on.
LEMMA MoveKeeps ==
    ASSUME IInv, NEW s \in Savers, Step(s), settled' = FALSE,
           save[s].pc \notin {"load", "idle"}, host.knows = "state",
           NEW pc \in {"clear", "create", "replace", "undo"},
           pc = "clear" => host.clears, pc = "replace" => host.clash = "replace",
           pc = "undo" => save[s].pc \in {"confirm", "store"},
           \/ save'[s] = [save[s] EXCEPT !.pc = pc]
           \/ save'[s] = [save[s] EXCEPT !.pc = pc, !.clean = FALSE],
           UNCHANGED next, hooks' \subseteq hooks,
           state' = NoState \/ state' = state,
           ~overlapped => StillInSight(s),
           ~Clashes => \A h \in hooks : h \notin hooks' =>
                         \/ save[s].pc = "delete" /\ h.id = save[s].old
                         \/ save[s].pc \in Making /\ h.id = save[s].hook
    PROVE  IInv' /\ (JInv => JInv')
<1>1. /\ RequestFits(s) /\ save[s] \in Requests
      /\ state.hook < next /\ state.key < next /\ next \in Ids /\ next > 0
      /\ state \in [hook : Ids, config : {0} \cup Configs, key : Ids]
      /\ ProfileFits(host)
  BY RequestNow
<1>2. /\ save'[s].pc = pc /\ save'[s].config = save[s].config
      /\ save'[s].old = save[s].old
      /\ save'[s].hook = save[s].hook /\ save'[s].key = save[s].key
      /\ save'[s].whole = save[s].whole
  BY <1>1 DEF Requests
<1>3. UNCHANGED host BY DEF Step, Others
<1>4. RequestFits(s)'
  BY <1>1, <1>2, <1>3 DEF RequestFits, Making
<1>5. NoState.hook = 0 /\ NoState.key = 0
      /\ NoState \in [hook : Ids, config : {0} \cup Configs, key : Ids]
  BY DEF NoState, Ids
<1>6. /\ state' \in [hook : Ids, config : {0} \cup Configs, key : Ids]
      /\ state'.hook < next' /\ state'.key < next'
      /\ state'.hook \in {0, state.hook}
  BY <1>1, <1>5
<1>7. ~Clashes => host.key # "handshake"
  BY <1>1 DEF ProfileFits, Clashes
<1>8. Rests(s)
  BY <1>2, <1>6, <1>7 DEF Rests, Working, Making
<1>9. SettledFits' BY DEF SettledFits
<1> QED BY <1>1, <1>2, <1>4, <1>6, <1>8, <1>9, LessKeeps DEF Ids

\* The old hook is removed, or hidden, or it stays and the request ends.
LEMMA DeleteOldKeeps ==
    ASSUME IInv, NEW s \in Savers, DeleteOld(s) PROVE IInv' /\ (JInv => JInv')
<1>1. UNCHANGED Others /\ UNCHANGED <<state, next>> /\ save[s].pc = "delete"
  BY DEF DeleteOld, Others
<1>2. /\ host.knows = "state" /\ save[s] \in Requests /\ next \in Ids /\ TypeOK
      /\ lost \subseteq Ids /\ save[s].old \in Ids
      /\ \A h \in hooks : h.id # 0 /\ h.id \in Ids
  BY <1>1, RequestNow DEF IInv, TypeOK, Requests
<1>3. /\ hooks' \subseteq hooks /\ (Fault \/ NoFault)
      /\ lost \subseteq lost' /\ lost' \subseteq Ids
      /\ \A h \in hooks : h \notin hooks' => h.id = save[s].old
      /\ \/ GiveUp(s)
         \/ /\ \/ Goto(s, Onwards) \/ Spoilt(s, "create")
               \/ Spoilt(s, Onwards)
            /\ \A h \in hooks' : h.id = save[s].old => h.id \in lost'
  <2>1. CASE /\ hooks' = hooks \ HookOf(save[s].old) /\ UNCHANGED lost
             /\ \/ Goto(s, Onwards) /\ NoFault
                \/ Fault /\ host.badDelete = "goon" /\ Spoilt(s, "create")
                \/ Fault /\ host.badDelete = "stop" /\ GiveUp(s)
    BY <1>2, <2>1 DEF HookOf
  <2>2. CASE /\ UNCHANGED hooks /\ Lose({save[s].old}) /\ Fault
             /\ \/ host.badDelete = "goon" /\ Spoilt(s, "create")
                \/ host.unauthorised /\ Spoilt(s, Onwards)
    BY <1>2, <2>2, Hidden
  <2>3. CASE /\ UNCHANGED <<hooks, lost>> /\ Fault
             /\ host.badDelete = "stop" /\ GiveUp(s)
    BY <1>2, <2>3
  <2> QED BY <2>1, <2>2, <2>3 DEF DeleteOld
<1>4. CASE GiveUp(s)
  BY <1>1, <1>2, <1>3, <1>4, QuitKeeps DEF Making, Ids
<1>5. CASE /\ \/ Goto(s, Onwards) \/ Spoilt(s, "create")
              \/ Spoilt(s, Onwards)
           /\ \A h \in hooks' : h.id = save[s].old => h.id \in lost'
  <2>1. PICK pc \in {"clear", "create"} :
          /\ pc = "clear" => host.clears
          /\ Goto(s, pc) \/ Spoilt(s, pc)
    BY <1>5 DEF Onwards
  <2>2. /\ Step(s) /\ settled' = FALSE
        /\ \/ save'[s] = [save[s] EXCEPT !.pc = pc]
           \/ save'[s] = [save[s] EXCEPT !.pc = pc, !.clean = FALSE]
    <3>1. pc \in Steps \ {"idle"} BY DEF Steps
    <3>2. CASE Goto(s, pc) BY <1>1, <1>3, <3>1, <3>2, Goes
    <3>3. CASE Spoilt(s, pc) BY <1>1, <1>3, <3>1, <3>3, Spoils
    <3> QED BY <2>1, <3>2, <3>3
  <2>3. ~overlapped => StillInSight(s)
    BY <1>1, <1>2, <1>3, <1>5, Known DEF StillInSight, Making
  <2> QED BY <1>1, <1>2, <1>3, <2>1, <2>2, <2>3, MoveKeeps
<1> QED BY <1>3, <1>4, <1>5

\* SendGrid: the state is dropped, or its hook is gone already.
LEMMA ClearKeeps ==
    ASSUME IInv, NEW s \in Savers, Clear(s) PROVE IInv' /\ (JInv => JInv')
<1>1. UNCHANGED Others /\ UNCHANGED <<hooks, next, lost>> /\ save[s].pc = "clear"
  BY DEF Clear, Others, atProvider
<1>2. host.knows = "state" /\ lost \subseteq Ids
  BY <1>1, RequestNow DEF IInv, TypeOK
<1>3. /\ Step(s) /\ settled' = FALSE /\ (state' = NoState \/ state' = state)
      /\ \/ save'[s] = [save[s] EXCEPT !.pc = "create"]
         \/ save'[s] = [save[s] EXCEPT !.pc = "create", !.clean = FALSE]
  <2>1. "create" \in Steps \ {"idle"} BY DEF Steps
  <2>2. CASE state' = NoState /\ Goto(s, "create") /\ NoFault
    BY <1>1, <1>2, <2>1, <2>2, Goes
  <2>3. CASE Fault /\ Spoilt(s, "create") /\ UNCHANGED state
    BY <1>1, <1>2, <2>1, <2>3, Spoils
  <2> QED BY <2>2, <2>3 DEF Clear
<1>4. ~overlapped => StillInSight(s)
  BY <1>1, <1>2, Known DEF StillInSight, Making
<1> QED BY <1>1, <1>2, <1>3, <1>4, MoveKeeps

\* A hook is made, or taken over, perhaps in part, and the request remembers it.
Makes(s, new) ==
    /\ Step(s) /\ settled' = FALSE /\ UNCHANGED lost /\ next' = next + 1
    /\ save[s].pc = "create" /\ host.knows = "state"
    /\ new \in Hooks /\ new.key = next /\ new.config = save[s].config
    /\ \/ new.id = next /\ hooks' = hooks \cup {new}
       \/ Clashes /\ \E h \in hooks : new.id = h.id /\ hooks' = (hooks \ {h}) \cup {new}
    /\ state' \in [hook : Ids, config : {0} \cup Configs, key : Ids]
    /\ state'.hook \in {0, state.hook} /\ (~exists => state' = NoState)
    /\ IF host.key = "handshake" THEN state'.key = next ELSE state' = state
    /\ save'[s].hook = new.id /\ save'[s].key = next
    /\ save'[s].whole => new.whole
    /\ save'[s].config = save[s].config /\ save'[s].old = save[s].old
    /\ save'[s].clean => save'[s].whole
    /\ save'[s].pc \in {"confirm", "store"} /\ (save'[s].pc = "store" => new.armed)

\* It goes on to confirm or store it.
LEMMA MakesKeeps ==
    ASSUME IInv, NEW s \in Savers, NEW new, Makes(s, new)
    PROVE  IInv' /\ (JInv => JInv')
<1>0. /\ Step(s) /\ UNCHANGED <<host, exists, config, del, delivery, calm, overlapped, saves, lost>>
      /\ save[s].pc = "create" /\ host.knows = "state"
  BY DEF Makes, Step, Others
<1>1. ProfileFits(host) BY Profile DEF IInv, TypeOK
<1>2. /\ save[s] \in Requests /\ next \in Nat /\ next > 0 /\ next' = next + 1
      /\ save[s].config # 0
  BY <1>0 DEF Makes, IInv, TypeOK, Ids, Sight, Fresh
<1>3. /\ new \in Hooks /\ new.key = next /\ new.config = save[s].config
      /\ new.id > 0 /\ new.id < next' /\ new.id \in Nat
      /\ save'[s].hook = new.id /\ save'[s].key = next
      /\ save'[s].pc \in {"confirm", "store"}
      /\ save'[s].config = save[s].config /\ save'[s].old = save[s].old
  <2>1. \A h \in hooks : h.id > 0 /\ h.id < next BY DEF IInv, Sight, Fresh
  <2>2. new.id \in Nat BY DEF Makes, Hooks, Ids
  <2> QED BY <1>2, <2>1, <2>2 DEF Makes
<1>4. /\ new \in hooks' /\ \A h \in hooks' : h = new \/ (h \in hooks /\ h.id # new.id)
      /\ ~Clashes => new.id = next /\ hooks \subseteq hooks'
  <2>1. \A h \in hooks : h.id < next BY DEF IInv, Sight, Fresh
  <2>2. CASE new.id = next /\ hooks' = hooks \cup {new}
    BY <1>2, <2>1, <2>2
  <2>3. CASE Clashes /\ \E h \in hooks : new.id = h.id /\ hooks' = (hooks \ {h}) \cup {new}
    BY <2>3 DEF IInv, TypeOK
  <2> QED BY <2>2, <2>3 DEF Makes
<1>5. SaveFits'
  <2>1. hooks' \subseteq Hooks BY <1>3, <1>4 DEF IInv, TypeOK
  <2>2. \A h, g \in hooks' : h.id = g.id => h = g
    BY <1>4 DEF IInv, TypeOK
  <2> QED BY <1>0, <1>2, <2>1, <2>2 DEF Makes, SaveFits, Ids
<1>6. TypeOK' /\ Alone' /\ Once' /\ CalmFits'
  BY <1>0, <1>5, StepKeeps
<1>7. Fresh'
  <2>1. next' > 0 /\ state'.hook < next' /\ state'.key < next' /\ del'.hook < next'
    BY <1>0, <1>2 DEF Makes, IInv, Sight, Fresh, TypeOK, Ids
  <2>2. \A h \in hooks' : h.id > 0 /\ h.id < next' /\ h.key > 0 /\ h.key < next'
    BY <1>2, <1>3, <1>4 DEF IInv, Sight, Fresh, TypeOK, Hooks, Ids
  <2>3. \A h, g \in hooks' : h.key = g.key => h = g
    <3>1. \A h \in hooks : h.key # next BY <1>2 DEF IInv, Sight, Fresh
    <3> QED BY <1>3, <1>4, <3>1 DEF IInv, Sight, Fresh
  <2>4. ASSUME NEW t \in Savers
        PROVE  /\ save'[t].old < next' /\ save'[t].hook < next' /\ save'[t].key < next'
               /\ save'[t].pc \in Making => save'[t].hook > 0 /\ save'[t].key > 0
               /\ save'[t].pc \notin {"idle", "load"} => save'[t].config # 0
    <3>1. /\ save[t].old < next' /\ save[t].hook < next' /\ save[t].key < next'
          /\ save[t].pc \in Making => save[t].hook > 0 /\ save[t].key > 0
          /\ save[t].pc \notin {"idle", "load"} => save[t].config # 0
      BY <1>2 DEF IInv, Sight, Fresh, TypeOK, Requests, Ids
    <3>2. CASE t = s BY <1>2, <1>3, <3>1, <3>2
    <3>3. CASE t # s BY <1>0, <3>1, <3>3 DEF Step
    <3> QED BY <3>2, <3>3
  <2> QED BY <2>1, <2>2, <2>3, <2>4 DEF Fresh
<1>8. HostFits'
  BY <1>0, <1>3 DEF Step, IInv, Sight, HostFits
<1>9. Tracked'
  <2> SUFFICES ASSUME ~overlapped PROVE Tracked'
    BY <1>0 DEF Tracked
  <2>1. Sole(s) /\ \A h \in hooks : h.id \in lost
    BY <1>0, Known DEF Making
  <2>2. \A h \in hooks' : InSight(h)'
    BY <1>0, <1>3, <1>4, <2>1 DEF InSight, Making
  <2> QED BY <1>0, <1>3, <2>1, <2>2 DEF Tracked, Sole, Step
<1>10. ListFits'
  BY <1>0 DEF ListFits
<1>11. ASSUME JInv PROVE JInv'
  <2>1. Distinct'
    <3> SUFFICES ASSUME ~Clashes, NEW t \in Savers, save'[t].pc \in {"confirm", "store"},
                        NEW u \in Savers
                 PROVE  /\ save'[t].hook # state'.hook /\ save'[t].hook # del.hook
                        /\ save'[u].pc = "delete" => save'[t].hook # save'[u].old
                        /\ save'[u].pc \in Making /\ save'[u].hook = save'[t].hook => u = t
      BY <1>0 DEF Distinct, Clashes
    <3>1. /\ new.id = next /\ state'.hook \in {0, state.hook}
          /\ state.hook < next /\ del.hook < next
          /\ \A v \in Savers : save[v].old < next /\ save[v].hook < next
          /\ \A v \in Savers : v # s => save'[v] = save[v]
      BY <1>0, <1>4 DEF Makes, Step, IInv, Sight, Fresh
    <3>2. CASE t = s
      BY <1>2, <1>3, <3>1, <3>2
    <3>3. CASE t # s
      <4>1. /\ save[t].hook # state.hook /\ save[t].hook # del.hook
            /\ save[u].pc = "delete" => save[t].hook # save[u].old
            /\ save[u].pc \in Making /\ save[u].hook = save[t].hook => u = t
            /\ save[t].hook > 0
        BY <1>11, <3>1, <3>3 DEF JInv, Aware, Distinct, IInv, Sight, Fresh, Making
      <4>2. CASE u = s BY <1>2, <1>3, <3>1, <3>3, <4>1, <4>2
      <4>3. CASE u # s BY <3>1, <3>3, <4>1, <4>3
      <4> QED BY <4>2, <4>3
    <3> QED BY <3>2, <3>3
  <2>2. MadeFits'
    <3> SUFFICES ASSUME ~Deaf, NEW t \in Savers, save'[t].pc \in {"confirm", "store"}
                 PROVE  \E h \in hooks' : MadeBy(t, h)'
      BY <1>0 DEF MadeFits, Deaf, Clashes
    <3>1. CASE t = s
      <4>1. MadeBy(s, new)'
        BY <1>0, <1>3 DEF Makes, MadeBy
      <4> QED BY <1>4, <3>1, <4>1
    <3>2. CASE t # s
      <4>0. save'[t] = save[t] BY <1>0, <3>2 DEF Step
      <4>1. ~Clashes BY <1>0, <3>2, <4>0 DEF Deaf, IInv, Sight, Alone, Sole
      <4>2. state' = state BY <1>1, <4>1 DEF ProfileFits, Clashes, Makes
      <4>3. PICK h \in hooks : MadeBy(t, h)
        BY <1>11, <4>0 DEF JInv, Aware, MadeFits
      <4> QED BY <1>0, <1>4, <4>0, <4>1, <4>2, <4>3 DEF MadeBy
    <3> QED BY <3>1, <3>2
  <2>3. CurrentIsGood'
    BY <1>0, <1>3 DEF CurrentIsGood, Working, Making
  <2>4. CleanFits' /\ SettledFits'
    BY <1>0, <1>3, <1>11 DEF Makes, Step, JInv, Hearing, CleanFits, SettledFits
  <2> QED BY <1>6, <2>1, <2>2, <2>3, <2>4 DEF JInv, Aware, Hearing
<1> QED BY <1>6, <1>7, <1>8, <1>9, <1>10, <1>11 DEF IInv, Sight

\* The hook that is made has the new id and key.
LEMMA NewHookFits ==
    ASSUME IInv, NEW s \in Savers, save[s].pc = "create", NEW whole \in BOOLEAN
    PROVE  LET new == NewHook(save[s].config, whole)
           IN  /\ new \in Hooks /\ new.id = next /\ new.key = next
               /\ new.config = save[s].config /\ new.whole = whole
               /\ new.armed = ~host.confirms /\ new.also = {}
<1>1. save[s].config \in Configs /\ next \in Ids /\ host.confirms \in BOOLEAN
  BY Profile DEF IInv, Sight, Fresh, TypeOK, Requests, ProfileFits
<1> QED BY <1>1 DEF NewHook, Hooks

\* What Asana's handshake does to the state.
LEMMA HandshakeKeeps ==
    ASSUME TypeOK, NEW st \in {state, NoState}, Handshake(st)
    PROVE  /\ state' \in [hook : Ids, config : {0} \cup Configs, key : Ids]
           /\ state'.hook \in {0, state.hook} /\ (st = state => state'.hook = state.hook)
           /\ IF host.key = "handshake" THEN state'.key = next ELSE state' = state
<1>1. /\ st \in [hook : Ids, config : {0} \cup Configs, key : Ids] /\ next \in Ids
      /\ st.hook \in {0, state.hook}
      /\ state \in [hook : Ids, config : {0} \cup Configs, key : Ids]
  BY DEF TypeOK, NoState, Ids
<1>2. CASE host.key = "handshake"
  <2>1. state' = [st EXCEPT !.key = next] BY <1>2 DEF Handshake
  <2> QED BY <1>1, <1>2, <2>1
<1>3. CASE host.key # "handshake"
  BY <1>1, <1>3 DEF Handshake
<1> QED BY <1>2, <1>3

\* Where a hook is made that nobody remembers, the parts of the invariant about
\* ids follow.
LEMMA Added ==
    ASSUME IInv, NEW s \in Savers, Step(s), save[s].pc = "create",
           save'[s].pc \in {"idle", "replace"}, RequestFits(s)',
           hooks' = hooks \cup {NewHook(save[s].config, TRUE)}, next' = next + 1,
           Handshake(state), host.key = "handshake" => exists,
           host.knows = "list" => UNCHANGED lost \/ next \in lost'
    PROVE  SaveFits' /\ Fresh' /\ HostFits' /\ ListFits'
<1>0. UNCHANGED <<host, exists, config, del, overlapped>>
  BY DEF Step, Others
<1>1. PICK new : /\ new \in Hooks /\ new.id = next /\ new.key = next /\ new.config = save[s].config
                 /\ new.whole /\ new.armed = ~host.confirms /\ new.also = {}
                 /\ hooks' = hooks \cup {new}
  BY NewHookFits
<1>2. /\ next \in Nat /\ next > 0 /\ next' = next + 1 /\ ProfileFits(host)
      /\ host.knows \in {"list", "state"}
  BY Profile DEF IInv, Sight, Fresh, HostFits, TypeOK, Ids, ProfileFits
<1>3. /\ state' \in [hook : Ids, config : {0} \cup Configs, key : Ids]
      /\ state'.hook = state.hook
      /\ IF host.key = "handshake" THEN state'.key = next ELSE state' = state
  BY HandshakeKeeps DEF IInv
<1>4. \A h \in hooks : /\ h.id > 0 /\ h.id < next' /\ h.key > 0 /\ h.key < next'
                       /\ h.id # next /\ h.key # next
  <2> SUFFICES ASSUME NEW h \in hooks
               PROVE  /\ h.id > 0 /\ h.id < next' /\ h.key > 0 /\ h.key < next'
                      /\ h.id # next /\ h.key # next
    OBVIOUS
  <2>1. h.id \in Nat /\ h.key \in Nat BY DEF IInv, TypeOK, Hooks, Ids
  <2>2. h.id > 0 /\ h.id < next /\ h.key > 0 /\ h.key < next BY DEF IInv, Sight, Fresh
  <2> QED BY <1>2, <2>1, <2>2
<1>5. SaveFits'
  <2>1. \A h, g \in hooks' : h.id = g.id => h = g
    BY <1>1, <1>4 DEF IInv, TypeOK
  <2>2. ~exists => state' = NoState BY <1>3 DEF IInv, TypeOK
  <2>3. hooks' \subseteq Hooks BY <1>1 DEF IInv, TypeOK
  <2>4. next' \in Ids BY <1>2 DEF Ids
  <2> QED BY <1>0, <1>3, <2>1, <2>2, <2>3, <2>4 DEF SaveFits
<1>6. \A t \in Savers : RequestFits(t)'
  <2> SUFFICES ASSUME NEW t \in Savers, t # s PROVE RequestFits(t)'
    OBVIOUS
  <2>1. save[t].old < next' /\ save[t].hook < next' /\ save[t].key < next'
    BY <1>2 DEF IInv, Sight, Fresh, TypeOK, Requests, Ids
  <2> QED BY <1>0, <2>1 DEF Step, RequestFits, IInv, Sight, Fresh, HostFits
<1>7. Fresh'
  <2>1. next' > 0 /\ state'.hook < next' /\ state'.key < next' /\ del'.hook < next'
    BY <1>0, <1>2, <1>3 DEF IInv, Sight, Fresh, TypeOK, Ids
  <2>2. ASSUME NEW h \in hooks' PROVE h.id > 0 /\ h.id < next' /\ h.key > 0 /\ h.key < next'
    <3>1. CASE h = new
      <4>1. h.id = next /\ h.key = next BY <1>1, <3>1
      <4> QED BY <1>2, <4>1
    <3>2. CASE h \in hooks BY <1>4, <3>2
    <3> QED BY <1>1, <3>1, <3>2
  <2>3. \A h, g \in hooks' : h.key = g.key => h = g
    BY <1>1, <1>4 DEF IInv, Sight, Fresh
  <2> QED BY <1>6, <2>1, <2>2, <2>3 DEF Fresh, RequestFits
<1>8. HostFits'
  <2>1. host.knows = "list" => ~host.confirms /\ host.key # "handshake"
    BY <1>2 DEF ProfileFits
  <2> QED BY <1>0, <1>1, <1>2, <1>3, <1>6, <2>1 DEF IInv, Sight, HostFits, RequestFits
<1>9. ListFits'
  <2> SUFFICES ASSUME host.knows = "list", lost' = {}, ~overlapped PROVE ListFits'
    BY <1>0 DEF ListFits
  <2>1. lost = {} /\ Sole(s) BY DEF Step, IInv, Sight, Alone
  <2>2. \A h \in hooks : h.config # save[s].config
    BY <2>1 DEF IInv, Sight, ListFits
  <2>3. \A t \in Savers : save'[t].pc # "create"
    BY <2>1 DEF Sole, Step
  <2>5. \A h, g \in hooks' : h.config = g.config => h = g
    BY <1>1, <2>1, <2>2 DEF IInv, Sight, ListFits
  <2> QED BY <2>3, <2>5 DEF ListFits
<1> QED BY <1>5, <1>7, <1>8, <1>9

\* The request remembers what it has made.
LEMMA Remembers ==
    ASSUME IInv, NEW s \in Savers, NEW whole \in BOOLEAN, save[s].pc = "create",
           host.knows # "list", AfterCreate(s, whole), UNCHANGED Others, UNCHANGED lost,
           Fault \/ NoFault
    PROVE  /\ Step(s) /\ settled' = FALSE
           /\ save'[s].hook = next /\ save'[s].key = next /\ save'[s].whole = whole
           /\ save'[s].config = save[s].config /\ save'[s].old = save[s].old
           /\ save'[s].clean => whole
           /\ save'[s].pc = IF host.confirms THEN "confirm" ELSE "store"
<1>1. save \in [Savers -> Requests] /\ save[s] \in Requests /\ next \in Ids /\ stranded \in BOOLEAN
  BY DEF IInv, TypeOK
<1>2. PICK pc \in {"confirm", "store"} :
        /\ pc = IF host.confirms THEN "confirm" ELSE "store"
        /\ save' = [save EXCEPT ![s].hook = next, ![s].key = next, ![s].whole = whole,
                                ![s].clean = @ /\ whole, ![s].pc = pc]
        /\ settled' = settled /\ stranded' = stranded
  BY DEF AfterCreate, verdict
<1>3. /\ save'[s] = [save[s] EXCEPT !.hook = next, !.key = next, !.whole = whole,
                                    !.clean = @ /\ whole, !.pc = pc]
      /\ \A t \in Savers : t # s => save'[t] = save[t]
  BY <1>1, <1>2
<1>4. save'[s] \in Requests BY <1>1, <1>3 DEF Requests, Steps
<1>5. save' \in [Savers -> Requests] BY <1>1, <1>2, <1>3, <1>4
<1>6. settled' = FALSE /\ faults' \in 0 .. MaxFaults /\ lost' \subseteq Ids
  BY <1>2, Unsettled, Counted DEF IInv, TypeOK
<1>7. Step(s) BY <1>1, <1>2, <1>3, <1>5, <1>6 DEF Step, Requests
<1> QED BY <1>1, <1>2, <1>3, <1>6, <1>7 DEF Requests

\* The hook is made, or in part; Mailchimp is done with it.
LEMMA CreateKeeps ==
    ASSUME IInv, NEW s \in Savers, Create(s) PROVE IInv' /\ (JInv => JInv')
<1>1. /\ UNCHANGED Others /\ UNCHANGED lost /\ next' = next + 1 /\ save[s].pc = "create"
      /\ TypeOK /\ lost \subseteq Ids
  BY DEF Create, Others, IInv, TypeOK
<1>2. /\ host.knows \in {"list", "state"} /\ ProfileFits(host)
      /\ save[s].clean \in BOOLEAN /\ next \in Nat /\ next > 0 /\ stranded \in BOOLEAN
      /\ (~exists => state = NoState)
      /\ state \in [hook : Ids, config : {0} \cup Configs, key : Ids]
  BY <1>1, Profile DEF IInv, TypeOK, Sight, HostFits, Fresh, ProfileFits, Requests, Ids
<1>3. ASSUME NEW whole \in BOOLEAN, NEW st \in {state, NoState}, host.knows = "state",
             hooks' = hooks \cup {NewHook(save[s].config, whole)}, Handshake(st),
             host.key = "handshake" => exists, AfterCreate(s, whole), Fault \/ NoFault
      PROVE  IInv' /\ (JInv => JInv')
  <2> DEFINE new == NewHook(save[s].config, whole)
  <2>1. /\ new \in Hooks /\ new.id = next /\ new.key = next /\ new.config = save[s].config
        /\ new.whole = whole /\ new.armed = ~host.confirms
        /\ hooks' = hooks \cup {new}
    BY <1>1, <1>3, NewHookFits
  <2> HIDE DEF new
  <2>2. /\ Step(s) /\ settled' = FALSE
        /\ save'[s].hook = next /\ save'[s].key = next /\ save'[s].whole = whole
        /\ save'[s].config = save[s].config /\ save'[s].old = save[s].old
        /\ save'[s].clean => whole
        /\ save'[s].pc = IF host.confirms THEN "confirm" ELSE "store"
    BY <1>1, <1>3, Remembers
  <2>3. /\ state' \in [hook : Ids, config : {0} \cup Configs, key : Ids]
        /\ state'.hook \in {0, state.hook}
        /\ IF host.key = "handshake" THEN state'.key = next ELSE state' = state
    BY <1>1, <1>3, HandshakeKeeps
  <2>4. /\ save'[s].pc \in {"confirm", "store"}
        /\ save'[s].pc = "store" => new.armed
    BY <2>1, <2>2
  <2>5. Makes(s, new)
    BY <1>1, <1>2, <1>3, <2>1, <2>2, <2>3, <2>4 DEF Makes
  <2> QED BY <2>5, MakesKeeps
<1>4. CASE /\ host.key = "handshake" => exists
           /\ hooks' = hooks \cup {NewHook(save[s].config, TRUE)}
           /\ Handshake(state) /\ NoFault
           /\ AfterCreate(s, TRUE)
  <2>1. CASE host.knows = "list"
    <3>1. /\ Step(s) /\ save'[s] = Idle /\ settled' = save[s].clean
          /\ save'[s].pc = "idle" /\ ~save'[s].clean /\ stranded' = stranded
      <4>1. Finish(s, save[s].clean) /\ stranded' = stranded
        BY <1>4, <2>1 DEF AfterCreate, Approve
      <4> QED BY <1>1, <1>2, <1>4, <4>1, Answered, IdleRequest
    <3>2. RequestFits(s)'
      BY <1>1, <1>2, <3>1 DEF RequestFits, Idle, Making
    <3>3. SaveFits' /\ Fresh' /\ HostFits' /\ ListFits'
      BY <1>1, <1>4, <3>1, <3>2, Added
    <3>4. state' = NoState /\ ~Clashes /\ hooks \subseteq hooks' /\ ~Keyed /\ host.filter = "config"
          /\ ~host.confirms
      BY <1>1, <1>2, <1>4, <2>1
      DEF Handshake, ProfileFits, Clashes, Keyed, IInv, Sight, HostFits
    <3>5. ~Stale(state', hooks') BY <3>4 DEF Stale, NoState
    <3>6. JInv => SettledFits'
      <4> SUFFICES ASSUME JInv, settled' PROVE exists' /\ \E h \in hooks' : Heard(h)'
        BY DEF SettledFits
      <4>1. exists /\ save[s].config = config /\ UNCHANGED <<host, exists, config>>
        BY <1>1, <3>1 DEF JInv, Hearing, CleanFits, Others
      <4>2. PICK new \in hooks' : new.config = config /\ new.whole /\ new.armed
        BY <1>1, <1>4, <3>4, <4>1, NewHookFits
      <4> QED BY <3>4, <4>1, <4>2 DEF Heard, Keyed
    <3>7. JInv => JInv'
      <4> SUFFICES ASSUME JInv PROVE JInv'
        OBVIOUS
      <4>0. Step(s) /\ UNCHANGED <<host, exists, config, del, overlapped>>
        BY <1>1, <3>1 DEF Others
      <4>1. CalmFits' BY <3>1, <3>3, StepKeeps
      <4>2. \A t \in Savers : save'[t].pc \in {"idle", "load", "create"}
        BY <2>1, <3>3, <4>0 DEF HostFits
      <4>3. Distinct' /\ MadeFits' BY <4>2 DEF Distinct, MadeFits
      <4>4. CurrentIsGood' BY <3>5, <4>0, StaleNext DEF CurrentIsGood
      <4>5. CleanFits' BY <3>1, <4>0 DEF Step, JInv, Hearing, CleanFits
      <4> QED BY <3>6, <4>1, <4>3, <4>4, <4>5 DEF JInv, Aware, Hearing
    <3>8. IInv'
      <4>1. TypeOK' /\ Alone' /\ Once' BY <3>1, <3>3, StepKeeps
      <4>2. Tracked' BY <1>1, <2>1 DEF Tracked, Others
      <4> QED BY <3>3, <4>1, <4>2 DEF IInv, Sight
    <3> QED BY <3>7, <3>8
  <2>2. CASE host.knows = "state"
    BY <1>3, <1>4, <2>2
  <2> QED BY <1>2, <2>1, <2>2
<1>5. CASE /\ Fault /\ host.key = "handshake" /\ exists
           /\ hooks' = hooks \cup {NewHook(save[s].config, TRUE)}
           /\ Handshake(NoState)
           /\ AfterCreate(s, TRUE)
  BY <1>2, <1>3, <1>5 DEF ProfileFits
<1>6. CASE /\ Fault /\ host.parts
           /\ hooks' = hooks \cup {NewHook(save[s].config, FALSE)} /\ UNCHANGED state
           /\ AfterCreate(s, FALSE)
  <2>1. host.knows = "state" /\ host.key # "handshake" BY <1>2, <1>6 DEF ProfileFits
  <2>2. Handshake(state) BY <1>6, <2>1 DEF Handshake
  <2> QED BY <1>3, <1>6, <2>1, <2>2
<1> QED BY <1>4, <1>5, <1>6 DEF Create

\* The hook is not made, or nobody learns that it is.
LEMMA CreateFailsKeeps ==
    ASSUME IInv, NEW s \in Savers, CreateFails(s) PROVE IInv' /\ (JInv => JInv')
<1>1. /\ UNCHANGED Others /\ next' = next + 1 /\ save[s].pc = "create" /\ Unmade(s)
      /\ TypeOK /\ lost \subseteq Ids
  BY DEF CreateFails, Others, IInv, TypeOK
<1>2. /\ RequestFits(s) /\ save[s] \in Requests
      /\ state.hook < next /\ state.key < next /\ next \in Nat /\ next > 0
      /\ state \in [hook : Ids, config : {0} \cup Configs, key : Ids]
      /\ (~exists => state = NoState)
      /\ ProfileFits(host) /\ settled = FALSE
  BY <1>1, RequestNow DEF Ids, TypeOK
<1>3. /\ Fault \/ NoFault
      /\ \/ /\ hooks' = hooks \cup {NewHook(save[s].config, TRUE)}
            /\ Handshake(state) /\ (host.key = "handshake" => exists) /\ Lose({next})
         \/ /\ state' = state \/ (exists /\ Handshake(state))
            /\ hooks' = hooks /\ lost' = lost
  BY DEF CreateFails
<1>4. /\ lost \subseteq lost' /\ lost' \subseteq Ids
      /\ state' \in [hook : Ids, config : {0} \cup Configs, key : Ids]
      /\ state'.hook = state.hook /\ state'.hook < next' /\ state'.key < next'
      /\ state' = NoState \/ (exists /\ host.knows = "state") \/ state' = state
      /\ host.key # "handshake" => state' = state
  <2>1. lost \subseteq lost' /\ lost' \subseteq Ids
    BY <1>1, <1>2, <1>3, Hidden DEF Ids
  <2>2. CASE Handshake(state)
    <3>1. /\ state' \in [hook : Ids, config : {0} \cup Configs, key : Ids]
          /\ state'.hook = state.hook
          /\ IF host.key = "handshake" THEN state'.key = next ELSE state' = state
      BY <1>1, <2>2, HandshakeKeeps
    <3>2. host.key = "handshake" => host.knows = "state" BY <1>2 DEF ProfileFits
    <3>3. state'.key \in {state.key, next} BY <3>1
    <3>4. state'.hook < next' /\ state'.key < next'
      BY <1>1, <1>2, <3>1, <3>3 DEF Ids
    <3>5. state' = state \/ (exists /\ host.knows = "state")
      BY <1>3, <3>1, <3>2
    <3> QED BY <2>1, <3>1, <3>4, <3>5
  <2>3. CASE state' = state
    BY <1>1, <1>2, <2>1, <2>3 DEF Ids
  <2> QED BY <1>3, <2>2, <2>3
<1>5. \/ hooks' = hooks
      \/ /\ hooks' = hooks \cup {NewHook(save[s].config, TRUE)} /\ next \in lost'
         /\ Handshake(state) /\ (host.key = "handshake" => exists)
  <2>1. Lose({next}) => next \in lost' BY <1>1, <1>2, Hidden DEF Ids
  <2> QED BY <1>3, <2>1
<1>6. hooks \subseteq hooks' BY <1>5
<1>7. ~Clashes => host.key # "handshake"
  BY <1>2 DEF ProfileFits, Clashes
<1>8. ASSUME ~overlapped, host.knows = "state" PROVE \A h \in hooks' : h.id \in lost'
  <2>1. \A h \in hooks : h.id \in lost BY <1>1, <1>8, Known DEF Making
  <2>2. ASSUME NEW new, new = NewHook(save[s].config, TRUE) PROVE new.id = next
    BY <2>2 DEF NewHook
  <2> QED BY <1>4, <1>5, <2>1, <2>2
<1>9. ASSUME Step(s), RequestFits(s)', save'[s].pc \in {"idle", "replace"}
      PROVE  SaveFits' /\ Fresh' /\ HostFits' /\ ListFits'
  <2>1. CASE hooks' = hooks
    BY <1>1, <1>2, <1>4, <1>9, <2>1, Fewer DEF Ids
  <2>2. CASE /\ hooks' = hooks \cup {NewHook(save[s].config, TRUE)} /\ next \in lost'
             /\ Handshake(state) /\ (host.key = "handshake" => exists)
    BY <1>1, <1>9, <2>2, Added
  <2> QED BY <1>5, <2>1, <2>2
<1>10. CASE host.clash = "replace" /\ Goto(s, "replace")
  <2>1. /\ Step(s) /\ settled' = FALSE
        /\ save'[s] = [save[s] EXCEPT !.pc = "replace"]
    <3>1. "replace" \in Steps \ {"idle"} BY DEF Steps
    <3> QED BY <1>1, <1>3, <1>4, <1>10, <3>1, Goes
  <2>2. /\ save'[s].pc = "replace" /\ save'[s].config = save[s].config
        /\ save'[s].old = save[s].old /\ save'[s].hook = save[s].hook
        /\ save'[s].key = save[s].key /\ save'[s].whole = save[s].whole
    BY <1>2, <2>1 DEF Requests
  <2>3. RequestFits(s)'
    <3>1. UNCHANGED host BY <1>1 DEF Others
    <3>2. /\ save[s].old \in Nat /\ save[s].hook \in Nat /\ save[s].key \in Nat
          /\ save[s].config # 0 /\ host.knows = "state"
      BY <1>1, <1>2, <1>10 DEF Requests, Ids, RequestFits, ProfileFits
    <3> QED BY <1>1, <1>2, <1>10, <2>2, <3>1, <3>2 DEF RequestFits, Making
  <2>4. Rests(s)
    BY <1>1, <1>4, <1>6, <1>7, <1>8, <2>1, <2>2 DEF Rests, StillInSight, Working
  <2>5. SettledFits' BY <2>1 DEF SettledFits
  <2> QED BY <1>9, <2>1, <2>2, <2>3, <2>4, <2>5, RestsKeeps
<1>11. CASE GiveUp(s)
  <2>1. Step(s) /\ save'[s] = Idle /\ save'[s].pc = "idle"
    BY <1>1, <1>3, <1>4, <1>11, GivenUp, IdleRequest
  <2>2. RequestFits(s)'
    BY <1>1, <1>2, <2>1 DEF RequestFits, Idle, Making
  <2>3. SaveFits' /\ Fresh' /\ HostFits' /\ ListFits'
    BY <1>9, <2>1, <2>2
  <2>4. ~overlapped /\ host.knows = "state" => StillInSight(s)
    BY <1>8 DEF StillInSight
  <2> QED BY <1>1, <1>3, <1>4, <1>6, <1>7, <1>11, <2>3, <2>4, GiveUpKeeps
<1> QED BY <1>1, <1>10, <1>11 DEF Unmade

\* AWX: the template there becomes the one of the request.
LEMMA AdoptKeeps ==
    ASSUME IInv, NEW s \in Savers, Adopt(s) PROVE IInv' /\ (JInv => JInv')
<1>1. /\ UNCHANGED Others /\ UNCHANGED <<state, lost>> /\ next' = next + 1
      /\ save[s].pc = "create" /\ host.clash = "adopt"
  BY DEF Adopt, Others
<1>2. /\ RequestFits(s) /\ save[s] \in Requests /\ save[s].config \in Configs
      /\ state.hook < next /\ state.key < next /\ next \in Nat /\ next > 0
      /\ state \in [hook : Ids, config : {0} \cup Configs, key : Ids]
      /\ (~exists => state = NoState) /\ lost \subseteq Ids /\ stranded \in BOOLEAN
      /\ save \in [Savers -> Requests] /\ ProfileFits(host) /\ settled = FALSE
      /\ host.confirms \in BOOLEAN
  BY <1>1, RequestNow DEF Ids, IInv, TypeOK, RequestFits, Requests, ProfileFits
<1>3. host.key = "own" /\ host.knows = "state" /\ host.confirms /\ Clashes
  BY <1>1, <1>2 DEF ProfileFits, Clashes
<1>4. PICK h \in hooks :
        \/ /\ \E whole \in BOOLEAN :
               /\ Fault \/ NoFault
               /\ hooks' = (hooks \ {h}) \cup
                    {[NewHook(save[s].config, whole) EXCEPT
                        !.id = h.id, !.also = h.also \cup IF h.armed THEN {h.config} ELSE {}]}
               /\ save' = [save EXCEPT ![s].hook = h.id, ![s].key = next, ![s].whole = whole,
                                       ![s].clean = @ /\ whole, ![s].pc = "confirm"]
           /\ UNCHANGED verdict
        \/ /\ Fault
           /\ hooks' \in {hooks, (hooks \ {h}) \cup {[h EXCEPT !.key = next]}}
           /\ GiveUp(s)
  BY DEF Adopt
<1>5. /\ h \in Hooks /\ h.id > 0 /\ h.id < next /\ h.key > 0 /\ h.key < next
      /\ h.id \in Nat /\ h.config \in Configs /\ h.also \subseteq Configs
  BY DEF IInv, TypeOK, Sight, Fresh, Hooks, Ids
<1>6. ASSUME NEW whole \in BOOLEAN, Fault \/ NoFault,
             hooks' = (hooks \ {h}) \cup
                {[NewHook(save[s].config, whole) EXCEPT
                    !.id = h.id, !.also = h.also \cup IF h.armed THEN {h.config} ELSE {}]},
             save' = [save EXCEPT ![s].hook = h.id, ![s].key = next, ![s].whole = whole,
                                  ![s].clean = @ /\ whole, ![s].pc = "confirm"],
             UNCHANGED verdict
      PROVE  IInv' /\ (JInv => JInv')
  <2>1. PICK new : /\ new = [NewHook(save[s].config, whole) EXCEPT
                        !.id = h.id, !.also = h.also \cup IF h.armed THEN {h.config} ELSE {}]
                   /\ hooks' = (hooks \ {h}) \cup {new}
    BY <1>6
  <2>2. /\ new \in Hooks /\ new.id = h.id /\ new.key = next
        /\ new.config = save[s].config /\ new.whole = whole
    <3>1. PICK made : /\ made = NewHook(save[s].config, whole) /\ made \in Hooks
                      /\ made.key = next /\ made.config = save[s].config /\ made.whole = whole
      BY <1>1, NewHookFits
    <3>2. PICK also \in SUBSET Configs : also = h.also \cup IF h.armed THEN {h.config} ELSE {}
      BY <1>5
    <3>3. new = [made EXCEPT !.id = h.id, !.also = also] BY <2>1, <3>1, <3>2
    <3> QED BY <1>5, <3>1, <3>3 DEF Hooks, Ids
  <2>3. /\ save'[s] = [save[s] EXCEPT !.hook = h.id, !.key = next, !.whole = whole,
                                      !.clean = @ /\ whole, !.pc = "confirm"]
        /\ \A t \in Savers : t # s => save'[t] = save[t]
        /\ settled' = settled /\ stranded' = stranded
    BY <1>2, <1>6 DEF verdict
  <2>4. save'[s] \in Requests BY <1>2, <1>5, <2>3 DEF Requests, Steps, Ids
  <2>5. save' \in [Savers -> Requests] BY <1>2, <1>6, <2>3, <2>4
  <2>6. faults' \in 0 .. MaxFaults BY <1>6, Counted DEF IInv
  <2>7. /\ save'[s].hook = h.id /\ save'[s].key = next /\ save'[s].whole = whole
        /\ save'[s].config = save[s].config /\ save'[s].old = save[s].old
        /\ save'[s].clean => save[s].clean /\ whole
        /\ save'[s].pc = "confirm"
    BY <1>2, <2>3 DEF Requests
  <2>8. Step(s) BY <1>1, <1>2, <2>3, <2>5, <2>6, <2>7 DEF Step
  <2>9. Makes(s, new)
    BY <1>1, <1>2, <1>3, <2>1, <2>2, <2>3, <2>7, <2>8 DEF Makes
  <2> QED BY <2>9, MakesKeeps
<1>7. CASE /\ Fault
           /\ hooks' \in {hooks, (hooks \ {h}) \cup {[h EXCEPT !.key = next]}}
           /\ GiveUp(s)
  <2>1. PICK new : /\ new \in Hooks /\ new.id = h.id /\ new.key \in {h.key, next}
                   /\ hooks' = (hooks \ {h}) \cup {new}
    <3>1. CASE hooks' = hooks BY <1>5, <3>1
    <3>2. CASE hooks' = (hooks \ {h}) \cup {[h EXCEPT !.key = next]}
      BY <1>2, <1>5, <3>2 DEF Hooks, Ids
    <3> QED BY <1>7, <3>1, <3>2
  <2>2. Step(s) /\ save'[s] = Idle /\ settled' = FALSE
    BY <1>1, <1>2, <1>7, GivenUp DEF IInv
  <2>3. UNCHANGED <<host, exists, config, del, overlapped>> BY <1>1 DEF Others
  <2>4. SaveFits'
    <3>1. \A g, k \in hooks' : g.id = k.id => g = k BY <2>1 DEF IInv, TypeOK
    <3>2. hooks' \subseteq Hooks BY <2>1 DEF IInv, TypeOK
    <3> QED BY <1>1, <1>2, <2>3, <3>1, <3>2 DEF SaveFits, Ids
  <2>5. \A g \in hooks : /\ g.id > 0 /\ g.id < next' /\ g.key > 0 /\ g.key < next'
                         /\ g.key # next
    <3> SUFFICES ASSUME NEW g \in hooks
                 PROVE  /\ g.id > 0 /\ g.id < next' /\ g.key > 0 /\ g.key < next'
                        /\ g.key # next
      OBVIOUS
    <3>1. g.id \in Nat /\ g.key \in Nat BY DEF IInv, TypeOK, Hooks, Ids
    <3>2. g.id > 0 /\ g.id < next /\ g.key > 0 /\ g.key < next BY DEF IInv, Sight, Fresh
    <3> QED BY <1>1, <1>2, <3>1, <3>2
  <2>6. \A t \in Savers : RequestFits(t)'
    <3>1. RequestFits(s)' BY <1>1, <1>2, <2>2 DEF RequestFits, Idle, Making
    <3>2. ASSUME NEW t \in Savers, t # s PROVE RequestFits(t)'
      <4>1. save[t].old < next' /\ save[t].hook < next' /\ save[t].key < next'
        BY <1>1, <1>2 DEF IInv, Sight, Fresh, TypeOK, Requests, Ids
      <4> QED BY <2>2, <2>3, <3>2, <4>1 DEF Step, RequestFits, IInv, Sight, Fresh, HostFits
    <3> QED BY <3>1, <3>2
  <2>7. Fresh'
    <3>1. next' > 0 /\ state'.hook < next' /\ state'.key < next' /\ del'.hook < next'
      BY <1>1, <1>2, <2>3 DEF IInv, Sight, Fresh, TypeOK, Ids
    <3>2. ASSUME NEW g \in hooks' PROVE g.id > 0 /\ g.id < next' /\ g.key > 0 /\ g.key < next'
      <4>1. CASE g = new
        <5>1. g.id = h.id /\ g.key \in {h.key, next} BY <2>1, <4>1
        <5> QED BY <1>1, <1>2, <2>5, <5>1
      <4>2. CASE g \in hooks BY <2>5, <4>2
      <4> QED BY <2>1, <4>1, <4>2
    <3>3. \A g, k \in hooks' : g.key = k.key => g = k
      <4>1. \A g, k \in hooks : g.key = k.key => g = k BY DEF IInv, Sight, Fresh
      <4> QED BY <2>1, <2>5, <4>1
    <3> QED BY <2>6, <3>1, <3>2, <3>3 DEF Fresh, RequestFits
  <2>8. HostFits'
    BY <1>1, <1>3, <2>3, <2>6 DEF HostFits, RequestFits
  <2>9. ListFits' BY <1>3, <2>3 DEF ListFits
  <2>10. ~overlapped => StillInSight(s)
    <3> SUFFICES ASSUME ~overlapped PROVE StillInSight(s)
      OBVIOUS
    <3>1. \A g \in hooks : g.id \in lost BY <1>1, <1>3, Known DEF Making
    <3> QED BY <1>1, <2>1, <3>1 DEF StillInSight
  <2> QED BY <1>1, <1>2, <1>3, <1>7, <2>4, <2>7, <2>8, <2>9, <2>10, GiveUpKeeps
<1> QED BY <1>4, <1>6, <1>7

\* Asana: what is in the way is removed, or the request gives up.
LEMMA ReplaceKeeps ==
    ASSUME IInv, NEW s \in Savers, Replace(s) PROVE IInv' /\ (JInv => JInv')
<1>1. UNCHANGED Others /\ UNCHANGED <<state, lost, next>> /\ save[s].pc = "replace"
  BY DEF Replace, Others
<1>2. /\ RequestFits(s) /\ save[s] \in Requests
      /\ state.hook < next /\ state.key < next /\ next \in Ids
      /\ state \in [hook : Ids, config : {0} \cup Configs, key : Ids]
      /\ lost \subseteq Ids /\ stranded \in BOOLEAN
      /\ save \in [Savers -> Requests] /\ settled = FALSE /\ host.knows = "state"
  BY <1>1, RequestNow DEF IInv, TypeOK
<1>3. Clashes BY <1>1, <1>2 DEF RequestFits, Clashes
<1>4. CASE UNCHANGED <<hooks, faults>> /\ GiveUp(s)
  <2>1. NoFault BY <1>4 DEF NoFault
  <2> QED BY <1>1, <1>2, <1>3, <1>4, <2>1, QuitKeeps DEF Making, Ids
<1>5. CASE /\ \E h \in hooks : \/ hooks' = hooks \ {h} /\ NoFault
                               \/ UNCHANGED hooks /\ Fault
           /\ save' = [save EXCEPT ![s].pc = "create", ![s].retried = TRUE]
           /\ UNCHANGED verdict
  <2>1. /\ save'[s] = [save[s] EXCEPT !.pc = "create", !.retried = TRUE]
        /\ \A t \in Savers : t # s => save'[t] = save[t]
        /\ settled' = settled /\ stranded' = stranded
    BY <1>2, <1>5 DEF verdict
  <2>2. /\ save'[s].pc = "create" /\ save'[s].config = save[s].config
        /\ save'[s].old = save[s].old /\ save'[s].hook = save[s].hook
        /\ save'[s].key = save[s].key /\ save'[s].whole = save[s].whole
        /\ save'[s].clean = save[s].clean /\ save'[s] \in Requests
    BY <1>2, <2>1 DEF Requests, Steps
  <2>3. hooks' \subseteq hooks /\ faults' \in 0 .. MaxFaults
    BY <1>5, Counted DEF IInv
  <2>4. save' \in [Savers -> Requests] BY <1>2, <1>5, <2>1, <2>2
  <2>5. Step(s) BY <1>1, <1>2, <2>1, <2>2, <2>3, <2>4 DEF Step
  <2>6. ~overlapped => StillInSight(s)
    BY <1>1, <1>2, <2>3, Known DEF StillInSight, Making
  <2>7. Rests(s) BY <1>1, <1>3, <2>2, <2>5, <2>6 DEF Rests, Working
  <2>8. RequestFits(s)'
    <3>1. UNCHANGED host BY <1>1 DEF Others
    <3> QED BY <1>1, <1>2, <2>2, <3>1 DEF RequestFits, Making
  <2> QED BY <1>1, <1>2, <2>1, <2>3, <2>5, <2>7, <2>8, LessKeeps DEF SettledFits, Ids
<1> QED BY <1>4, <1>5 DEF Replace

\* What was made is of use now, or is to be removed.
LEMMA ConfirmKeeps ==
    ASSUME IInv, NEW s \in Savers, Confirm(s) PROVE IInv' /\ (JInv => JInv')
<1>1. UNCHANGED Others /\ UNCHANGED <<state, lost, next>> /\ save[s].pc = "confirm"
  BY DEF Confirm, Others
<1>2. /\ RequestFits(s) /\ save[s] \in Requests /\ host.knows = "state" /\ lost \subseteq Ids
      /\ state \in [hook : Ids, config : {0} \cup Configs, key : Ids]
      /\ (~exists => state = NoState) /\ next \in Ids
  BY <1>1, RequestNow DEF IInv, TypeOK
<1>3. CASE Fault /\ Spoilt(s, "undo") /\ UNCHANGED hooks
  <2>1. /\ Step(s) /\ settled' = FALSE
        /\ save'[s] = [save[s] EXCEPT !.pc = "undo", !.clean = FALSE]
    <3>1. "undo" \in Steps \ {"idle"} BY DEF Steps
    <3> QED BY <1>1, <1>2, <1>3, <3>1, Spoils
  <2>2. save'[s].pc = "undo" /\ save'[s].hook = save[s].hook
    BY <1>2, <2>1 DEF Requests
  <2>3. ~overlapped => StillInSight(s)
    BY <1>1, <1>2, <1>3, <2>2, Known DEF StillInSight, Making
  <2> QED BY <1>1, <1>2, <1>3, <2>1, <2>3, MoveKeeps
<1>4. CASE /\ hooks' = {IF h.id = save[s].hook THEN [h EXCEPT !.armed = TRUE] ELSE h : h \in hooks}
           /\ Goto(s, "store") /\ NoFault
  <2>1. Step(s) /\ settled' = FALSE /\ save'[s] = [save[s] EXCEPT !.pc = "store"]
    <3>1. "store" \in Steps \ {"idle"} BY DEF Steps
    <3> QED BY <1>1, <1>2, <1>4, <3>1, Goes
  <2>2. /\ save'[s].config = save[s].config
        /\ save'[s].old = save[s].old /\ save'[s].hook = save[s].hook
        /\ save'[s].key = save[s].key /\ save'[s].whole = save[s].whole
        /\ save'[s].clean = save[s].clean /\ save'[s].pc = "store"
        /\ \A t \in Savers : t # s => save'[t] = save[t]
        /\ UNCHANGED <<host, exists, config, del, overlapped>>
    BY <1>2, <2>1 DEF Step, Requests, Others
  <2> DEFINE Now(h) == IF h.id = save[s].hook THEN [h EXCEPT !.armed = TRUE] ELSE h
  <2>4. \A h \in hooks :
          /\ Now(h) \in hooks' /\ Now(h) \in Hooks
          /\ Now(h).id = h.id /\ Now(h).config = h.config /\ Now(h).key = h.key
          /\ Now(h).whole = h.whole
          /\ h.armed \/ h.id = save[s].hook => Now(h).armed
    <3> SUFFICES ASSUME NEW h \in hooks
                 PROVE  /\ Now(h) \in hooks' /\ Now(h) \in Hooks
                        /\ Now(h).id = h.id /\ Now(h).config = h.config /\ Now(h).key = h.key
                        /\ Now(h).whole = h.whole
                        /\ h.armed \/ h.id = save[s].hook => Now(h).armed
      OBVIOUS
    <3>1. Now(h) \in hooks' BY <1>4
    <3>2. h \in Hooks BY DEF IInv, TypeOK
    <3>3. CASE h.id = save[s].hook BY <3>1, <3>2, <3>3 DEF Hooks
    <3>4. CASE h.id # save[s].hook BY <3>1, <3>2, <3>4
    <3> QED BY <3>3, <3>4
  <2>5. \A g \in hooks' : \E h \in hooks : g = Now(h) BY <1>4
  <2> HIDE DEF Now
  <2>6. SaveFits'
    <3>1. \A h, g \in hooks' : h.id = g.id => h = g
      BY <2>4, <2>5 DEF IInv, TypeOK
    <3> QED BY <1>1, <1>2, <2>2, <2>4, <2>5, <3>1 DEF SaveFits
  <2>7. TypeOK' /\ Alone' /\ Once' /\ CalmFits'
    BY <2>1, <2>6, StepKeeps
  <2>8. Fresh'
    <3>1. \A h \in hooks' : h.id > 0 /\ h.id < next /\ h.key > 0 /\ h.key < next
      BY <2>4, <2>5 DEF IInv, Sight, Fresh
    <3>2. \A h, g \in hooks' : h.key = g.key => h = g
      BY <2>4, <2>5 DEF IInv, Sight, Fresh
    <3>3. \A t \in Savers :
            /\ save'[t].old < next /\ save'[t].hook < next /\ save'[t].key < next
            /\ save'[t].pc \in Making => save'[t].hook > 0 /\ save'[t].key > 0
            /\ save'[t].pc \notin {"idle", "load"} => save'[t].config # 0
      BY <1>1, <2>2 DEF IInv, Sight, Fresh, Making
    <3> QED BY <1>1, <2>2, <3>1, <3>2, <3>3 DEF IInv, Sight, Fresh
  <2>9. HostFits' /\ ListFits'
    BY <1>1, <1>2, <2>2 DEF IInv, Sight, HostFits, ListFits
  <2>10. Tracked'
    <3> SUFFICES ASSUME ~overlapped PROVE Tracked' BY <2>2 DEF Tracked
    <3>1. /\ Sole(s)
          /\ \A h \in hooks : h.id \in lost \/ h.id = save[s].hook
      BY <1>1, <1>2, Known DEF Making
    <3>2. \A h \in hooks' : InSight(h)'
      BY <1>1, <2>2, <2>4, <2>5, <3>1 DEF InSight, Making
    <3> QED BY <2>2, <3>1, <3>2 DEF Tracked, Sole
  <2>11. ASSUME JInv PROVE JInv'
    <3>1. Distinct'
      BY <1>1, <2>2, <2>11 DEF JInv, Aware, Distinct, Clashes, Making
    <3>2. MadeFits'
      <4> SUFFICES ASSUME ~Deaf, NEW t \in Savers, save'[t].pc \in {"confirm", "store"}
                   PROVE  \E g \in hooks' : MadeBy(t, g)'
        BY <2>2 DEF MadeFits, Deaf, Clashes
      <4>0. save[t].pc \in {"confirm", "store"} BY <1>1, <2>2
      <4>1. PICK h \in hooks : MadeBy(t, h)
        BY <2>11, <4>0 DEF JInv, Aware, MadeFits
      <4>2. ASSUME NEW g, g = Now(h) PROVE MadeBy(t, g)'
        <5>1. CASE t = s BY <1>1, <2>2, <2>4, <4>1, <4>2, <5>1 DEF MadeBy
        <5>2. CASE t # s BY <1>1, <2>2, <2>4, <4>1, <4>2, <5>2 DEF MadeBy
        <5> QED BY <5>1, <5>2
      <4> QED BY <2>4, <4>2
    <3>3. CurrentIsGood'
      BY <2>2 DEF CurrentIsGood, Working, Making
    <3>4. CleanFits' /\ SettledFits'
      BY <1>1, <2>1, <2>2, <2>11 DEF JInv, Hearing, CleanFits, SettledFits
    <3> QED BY <2>7, <3>1, <3>2, <3>3, <3>4 DEF JInv, Aware, Hearing
  <2> QED BY <2>7, <2>8, <2>9, <2>10, <2>11 DEF IInv, Sight
<1> QED BY <1>3, <1>4 DEF Confirm

\* The state names the hook of the request, or the request is to remove it.
LEMMA StoreKeeps ==
    ASSUME IInv, NEW s \in Savers, Store(s) PROVE IInv' /\ (JInv => JInv')
<1>1. UNCHANGED Others /\ UNCHANGED <<hooks, lost, next>> /\ save[s].pc = "store"
  BY DEF Store, Others, atProvider
<1>2. /\ RequestFits(s) /\ save[s] \in Requests /\ host.knows = "state" /\ lost \subseteq Ids
      /\ save[s].config \in Configs /\ save[s].hook < next /\ save[s].key < next
      /\ save[s].hook # 0 /\ save[s].clean \in BOOLEAN
      /\ state \in [hook : Ids, config : {0} \cup Configs, key : Ids]
      /\ state.hook < next /\ state.key < next /\ next \in Ids /\ next > 0 /\ ProfileFits(host)
  <2>1. /\ RequestFits(s) /\ save[s] \in Requests /\ host.knows = "state" /\ ProfileFits(host)
        /\ state.hook < next /\ state.key < next /\ next \in Ids /\ next > 0
        /\ state \in [hook : Ids, config : {0} \cup Configs, key : Ids] /\ lost \subseteq Ids
    BY <1>1, RequestNow DEF IInv, TypeOK
  <2>2. save[s].config \in Configs /\ save[s].hook # 0 /\ save[s].clean \in BOOLEAN
    BY <1>1, <2>1 DEF Requests, RequestFits, Making, Ids
  <2>3. save[s].hook < next /\ save[s].key < next BY <2>1 DEF RequestFits
  <2> QED BY <2>1, <2>2, <2>3
<1>3. /\ Remembered(s).hook = save[s].hook
      /\ Remembered(s).config = IF save[s].whole \/ ~host.repairs THEN save[s].config ELSE 0
      /\ host.key = "own" => Remembered(s).key = save[s].key
      /\ host.key = "handshake" => Remembered(s).key = state.key
      /\ Remembered(s).key \in {save[s].key, state.key, 0}
      /\ Remembered(s) \in [hook : Ids, config : {0} \cup Configs, key : Ids]
  BY <1>2 DEF Remembered, Requests, Ids
<1>4. Remembered(s).hook < next /\ Remembered(s).key < next
  BY <1>2, <1>3
<1>5. ~Clashes => host.key # "handshake"
  BY <1>2 DEF ProfileFits, Clashes
<1>6. CASE /\ Fault \/ NoFault
           /\ Spoilt(s, "undo") /\ UNCHANGED state
  <2>1. /\ Step(s) /\ settled' = FALSE
        /\ save'[s] = [save[s] EXCEPT !.pc = "undo", !.clean = FALSE]
    <3>1. "undo" \in Steps \ {"idle"} BY DEF Steps
    <3> QED BY <1>1, <1>2, <1>6, <3>1, Spoils
  <2>2. save'[s].pc = "undo" /\ save'[s].hook = save[s].hook
    BY <1>2, <2>1 DEF Requests
  <2>3. ~overlapped => StillInSight(s)
    BY <1>1, <1>2, <1>6, <2>2, Known DEF StillInSight, Making
  <2> QED BY <1>1, <1>2, <1>6, <2>1, <2>3, MoveKeeps
<1>7. CASE CanStore /\ state' = Remembered(s) /\ Fault /\ Spoilt(s, "undo")
  <2>1. /\ Step(s) /\ settled' = FALSE
        /\ save'[s] = [save[s] EXCEPT !.pc = "undo", !.clean = FALSE]
    <3>1. "undo" \in Steps \ {"idle"} BY DEF Steps
    <3> QED BY <1>1, <1>2, <1>7, <3>1, Spoils
  <2>2. /\ save'[s].pc = "undo" /\ save'[s].hook = save[s].hook /\ save'[s].old = save[s].old
        /\ save'[s].key = save[s].key /\ save'[s].config = save[s].config /\ ~save'[s].clean
    BY <1>2, <2>1 DEF Requests
  <2>3. ~overlapped => StillInSight(s)
    BY <1>1, <1>2, <2>2, Known DEF StillInSight, Making
  <2>4. Rests(s)
    BY <1>1, <1>3, <1>5, <1>7, <2>1, <2>2, <2>3 DEF Rests, Working, Making
  <2>5. RequestFits(s)'
    <3>1. UNCHANGED host BY <1>1 DEF Others
    <3> QED BY <1>1, <1>2, <2>2, <3>1 DEF RequestFits, Making
  <2>6. exists BY <1>7 DEF CanStore
  <2>7. next <= next' BY <1>1, <1>2 DEF Ids
  <2>8. hooks' \subseteq hooks BY <1>1
  <2> QED BY <1>1, <1>2, <1>3, <1>4, <1>7, <2>1, <2>2, <2>4, <2>5, <2>6, <2>7, <2>8, LessKeeps
          DEF SettledFits
<1>8. CASE /\ CanStore /\ state' = Remembered(s) /\ NoFault
           /\ Finish(s, save[s].clean) /\ stranded' = FALSE
  <2>1. Step(s) /\ save'[s] = Idle /\ settled' = save[s].clean
    BY <1>1, <1>2, <1>8, Answered DEF IInv
  <2>2. UNCHANGED <<host, exists, config, del, overlapped>> /\ exists
    BY <1>1, <1>8 DEF Others, CanStore
  <2>3. save'[s].pc = "idle" /\ ~save'[s].clean BY <2>1, IdleRequest
  <2>4. \A t \in Savers : save'[t].pc # "idle" => t # s /\ save'[t] = save[t]
    BY <2>1, <2>3 DEF Step
  <2>5. SaveFits' /\ Fresh' /\ HostFits' /\ ListFits'
    <3>1. RequestFits(s)' BY <1>1, <1>2, <2>1 DEF RequestFits, Idle, Making
    <3>2. next <= next' BY <1>1, <1>2 DEF Ids
    <3>3. hooks' \subseteq hooks BY <1>1
    <3> QED BY <1>1, <1>2, <1>3, <1>4, <1>8, <2>1, <2>2, <2>3, <3>1, <3>2, <3>3, Fewer
  <2>6. TypeOK' /\ Alone' /\ Once' /\ CalmFits'
    BY <2>1, <2>5, StepKeeps
  <2>7. Tracked'
    <3> SUFFICES ASSUME ~overlapped PROVE Tracked' BY <2>2 DEF Tracked
    <3>1. /\ Sole(s)
          /\ \A h \in hooks : h.id \in lost \/ h.id = save[s].hook
      BY <1>1, <1>2, Known DEF Making
    <3>2. \A t \in Savers : save'[t].pc = "idle" BY <2>4, <3>1 DEF Sole
    <3>3. \A h \in hooks' : InSight(h)'
      BY <1>1, <1>3, <1>8, <2>2, <3>1, <3>2 DEF InSight, Sole
    <3> QED BY <2>2, <3>1, <3>2, <3>3 DEF Tracked, Sole
  <2>8. ASSUME JInv PROVE JInv'
    <3>1. Distinct'
      BY <1>1, <1>3, <1>8, <2>2, <2>4, <2>8 DEF JInv, Aware, Distinct, Clashes, Making
    <3>2. MadeFits'
      <4> SUFFICES ASSUME ~Deaf, NEW t \in Savers, save'[t].pc \in {"confirm", "store"}
                   PROVE  \E h \in hooks : MadeBy(t, h)'
        BY <1>1, <2>2 DEF MadeFits, Deaf, Clashes
      <4>1. t # s /\ save'[t] = save[t] BY <2>4
      <4>2. host.key # "handshake"
        BY <1>1, <1>5, <4>1 DEF IInv, Sight, Alone, Sole, Deaf, Clashes
      <4>3. PICK h \in hooks : MadeBy(t, h)
        BY <4>1, <2>8 DEF JInv, Aware, MadeFits
      <4> QED BY <2>2, <4>1, <4>2, <4>3 DEF MadeBy
    <3>3. ASSUME ~Deaf PROVE \E h \in hooks : MadeBy(s, h)
      BY <1>1, <3>3, <2>8 DEF JInv, Aware, MadeFits
    <3>4. ~Deaf => ~Stale(state', hooks')
      <4> SUFFICES ASSUME ~Deaf, state'.config # 0 PROVE ~Stale(state', hooks')
        BY DEF Stale
      <4>1. PICK h \in hooks : MadeBy(s, h) BY <3>3
      <4>2. state'.config = save[s].config /\ (host.repairs => save[s].whole)
        BY <1>3, <1>8
      <4>3. h \in hooks' /\ h.id = state'.hook /\ h.config = state'.config /\ h.armed
            /\ (host.repairs => h.whole)
        BY <1>1, <1>3, <1>8, <4>1, <4>2 DEF MadeBy
      <4>4. Keyed => h.key = state'.key
        BY <1>3, <1>8, <4>1 DEF MadeBy, Keyed
      <4> QED BY <4>3, <4>4 DEF Stale
    <3>5. CurrentIsGood'
      BY <2>2, <3>4, StaleNext DEF CurrentIsGood, Deaf, Clashes
    <3>6. CleanFits' BY <2>1, <2>2, <2>3, <2>8 DEF Step, JInv, Hearing, CleanFits
    <3>7. SettledFits'
      <4> SUFFICES ASSUME settled', ~Deaf PROVE \E h \in hooks : Heard(h)'
        BY <1>1, <2>2 DEF SettledFits, Exempt, Deaf, Clashes
      <4>1. save[s].config = config /\ save[s].whole
        BY <1>1, <2>1, <2>8 DEF JInv, Hearing, CleanFits
      <4>2. PICK h \in hooks : MadeBy(s, h) BY <3>3
      <4> QED BY <1>1, <1>3, <1>8, <2>2, <4>1, <4>2 DEF MadeBy, Heard, Keyed
    <3> QED BY <2>6, <3>1, <3>2, <3>5, <3>6, <3>7 DEF JInv, Aware, Hearing
  <2> QED BY <2>5, <2>6, <2>7, <2>8 DEF IInv, Sight
<1> QED BY <1>6, <1>7, <1>8 DEF Store

\* What was made is removed, or hidden.
LEMMA UndoKeeps ==
    ASSUME IInv, NEW s \in Savers, Undo(s) PROVE IInv' /\ (JInv => JInv')
<1>1. UNCHANGED Others /\ UNCHANGED <<state, next>> /\ GiveUp(s) /\ save[s].pc = "undo"
  BY DEF Undo, Others
<1>2. /\ save[s] \in Requests /\ lost \subseteq Ids /\ next \in Ids /\ save[s].hook \in Ids
      /\ \A h \in hooks : h.id # 0
  BY <1>1, RequestNow DEF IInv, TypeOK, Requests
<1>3. /\ Fault \/ NoFault
      /\ lost \subseteq lost' /\ lost' \subseteq Ids /\ hooks' \subseteq hooks
      /\ \A h \in hooks : h \notin hooks' => h.id = save[s].hook
      /\ \A h \in hooks' : h.id = save[s].hook => h.id \in lost'
  <2>1. CASE hooks' = hooks \ HookOf(save[s].hook) /\ NoFault /\ UNCHANGED lost
    BY <1>2, <2>1 DEF HookOf
  <2>2. CASE Fault /\ Lose({save[s].hook}) /\ UNCHANGED hooks
    BY <1>2, <2>2, Hidden DEF IInv
  <2> QED BY <2>1, <2>2 DEF Undo
<1>4. next <= next' BY <1>1, <1>2 DEF Ids
<1> QED BY <1>1, <1>2, <1>3, <1>4, QuitKeeps DEF Making

\* What the request knew is hidden.
LEMMA CrashKeeps ==
    ASSUME IInv, NEW s \in Savers, Crash(s) PROVE IInv' /\ (JInv => JInv')
<1>1. /\ UNCHANGED Others /\ UNCHANGED <<state, hooks, next>> /\ GiveUp(s) /\ Fault
      /\ save[s].pc # "idle" /\ Lose({save[s].hook})
  BY DEF Crash, Others, atProvider
<1>2. /\ save[s] \in Requests /\ lost \subseteq Ids /\ next \in Ids /\ save[s].hook \in Ids
      /\ \A h \in hooks : h.id # 0
  BY <1>1, RequestNow DEF IInv, TypeOK, Requests
<1>3. /\ lost \subseteq lost' /\ lost' \subseteq Ids
      /\ save[s].hook # 0 => save[s].hook \in lost'
  BY <1>1, <1>2, Hidden DEF IInv
<1>4. next <= next' /\ hooks' \subseteq hooks BY <1>1, <1>2 DEF Ids
<1> QED BY <1>1, <1>2, <1>3, <1>4, QuitKeeps

-----------------------------------------------------------------------------
(* Requests that begin, and the deletion.                                  *)

\* While nothing is calm, deliveries are not touched.
LEMMA DeliveriesKeep ==
    ASSUME IInv, UNCHANGED <<host, delivery>>, calm' = {},
           lost \subseteq lost', overlapped => overlapped'
    PROVE  Once' /\ CalmFits'
<1>1. FlightFits' BY DEF IInv, Once, FlightFits, delivery
<1>2. OneDelivery' BY DEF IInv, Once, OneDelivery, delivery
<1>3. CalmDelivery' /\ CalmFits' BY DEF CalmDelivery, CalmFits
<1> QED BY <1>1, <1>2, <1>3 DEF Once

\* A save begins: nothing is settled, and the others are not clean any more.
LEMMA SaveKeeps ==
    ASSUME IInv, NEW s \in Savers, NEW c \in Configs, Save(s, c)
    PROVE  IInv' /\ (JInv => JInv')
<1> USE DEF IInv
<1>1. /\ UNCHANGED <<host, state, hooks, next, del, delivery, lost, faults>>
      /\ save[s].pc = "idle" /\ exists' = TRUE /\ config' = c
      /\ settled' = FALSE /\ calm' = {} /\ overlapped' = (overlapped \/ ~Quiet)
      /\ saves' \in 0 .. MaxSaves
      /\ stranded' = stranded /\ del.pc # "done"
  BY DEF Save, atProvider, TypeOK
<1>2. Quiet \in BOOLEAN /\ (~overlapped' => Quiet /\ ~overlapped) /\ overlapped' \in BOOLEAN
  BY <1>1 DEF Quiet, TypeOK
<1> DEFINE first == [Idle EXCEPT !.pc = "load", !.clean = Quiet]
<1>3. /\ first \in Requests /\ first.pc = "load" /\ first.clean = Quiet /\ first.whole
      /\ first.config = 0 /\ first.old = 0 /\ first.hook = 0 /\ first.key = 0
  BY <1>2 DEF Idle, Requests, Steps, Ids
<1>4. save' = [t \in Savers |-> IF t = s THEN first ELSE [save[t] EXCEPT !.clean = FALSE]]
  BY DEF Save
<1> HIDE DEF first
<1>5. save'[s] = first BY <1>4
<1>6. \A t \in Savers : t # s =>
        /\ save'[t].pc = save[t].pc /\ save'[t].config = save[t].config
        /\ save'[t].old = save[t].old /\ save'[t].hook = save[t].hook
        /\ save'[t].key = save[t].key /\ save'[t].whole = save[t].whole
        /\ ~save'[t].clean /\ save'[t] \in Requests
  <2> SUFFICES ASSUME NEW t \in Savers, t # s
               PROVE  /\ save'[t].pc = save[t].pc /\ save'[t].config = save[t].config
                      /\ save'[t].old = save[t].old /\ save'[t].hook = save[t].hook
                      /\ save'[t].key = save[t].key /\ save'[t].whole = save[t].whole
                      /\ ~save'[t].clean /\ save'[t] \in Requests
    OBVIOUS
  <2>1. save[t] \in Requests /\ save'[t] = [save[t] EXCEPT !.clean = FALSE]
    BY <1>4 DEF TypeOK
  <2> QED BY <2>1 DEF Requests
<1>7. TypeOK'
  <2>1. save' \in [Savers -> Requests] BY <1>3, <1>4, <1>5, <1>6
  <2> QED BY <1>1, <1>2, <2>1 DEF TypeOK, delivery
<1>8. Fresh' BY <1>1, <1>3, <1>5, <1>6 DEF Sight, Fresh, Making
<1>9. ASSUME NEW t \in Savers, save'[t].pc # "idle", ~overlapped' \/ save'[t].clean
      PROVE  t = s /\ Quiet
  BY <1>2, <1>3, <1>5, <1>6, <1>9 DEF Quiet
<1>10. Quiet => \A t \in Savers : t # s => save'[t].pc = "idle"
  BY <1>6 DEF Quiet
<1>11. Alone'
  <2>1. Quiet => Sole(s)' BY <1>1, <1>10 DEF Sole, Quiet
  <2>2. \A t \in Savers : save'[t].clean => save'[t].pc # "idle" BY <1>3, <1>5, <1>6
  <2> QED BY <1>1, <1>9, <2>1, <2>2 DEF Alone
<1>12. HostFits' BY <1>1, <1>3, <1>5, <1>6 DEF Sight, HostFits
<1>13. Tracked'
  <2> SUFFICES ASSUME Quiet, ~overlapped, host.knows = "state" PROVE Tracked'
    BY <1>1, <1>2 DEF Tracked
  <2>1. \A h \in hooks : InSight(h)'
    BY <1>1, <1>3, <1>5, <1>10 DEF Sight, Tracked, InSight, Quiet, Making
  <2> QED BY <1>1, <1>3, <1>5, <1>10, <2>1 DEF Tracked, Quiet
<1>14. ListFits'
  BY <1>1, <1>2, <1>3, <1>5, <1>10 DEF Sight, ListFits
<1>15. Once' /\ CalmFits'
  BY <1>1, DeliveriesKeep
<1>16. ASSUME JInv PROVE JInv'
  <2>1. Distinct'
    BY <1>1, <1>3, <1>5, <1>6, <1>16 DEF JInv, Aware, Distinct, Clashes, Making
  <2>2. MadeFits'
    BY <1>1, <1>2, <1>3, <1>5, <1>6, <1>16 DEF JInv, Aware, MadeFits, MadeBy, Deaf, Clashes
  <2>3. CurrentIsGood'
    <3>1. \A t \in Savers : save[t].pc \in Working => save'[t].pc \in Working
      BY <1>1, <1>6 DEF Working, Making
    <3> QED BY <1>1, <1>2, <1>16, <3>1
            DEF JInv, Aware, CurrentIsGood, Stale, Keyed, Deaf, Clashes
  <2>4. CleanFits' /\ SettledFits'
    BY <1>1, <1>3, <1>5, <1>6 DEF CleanFits, SettledFits
  <2> QED BY <1>15, <2>1, <2>2, <2>3, <2>4 DEF JInv, Aware, Hearing
<1> QED BY <1>7, <1>8, <1>11, <1>12, <1>13, <1>14, <1>15, <1>16 DEF Sight

\* A deletion begins: it remembers the hook of the state, or hides it.
LEMMA DeleteKeeps ==
    ASSUME IInv, Delete PROVE IInv' /\ (JInv => JInv')
<1> USE DEF IInv
<1>1. /\ UNCHANGED <<host, exists, config, state, hooks, next, delivery, saves>>
      /\ exists /\ del.pc = "idle" /\ faults' \in 0 .. MaxFaults
      /\ settled' = FALSE /\ calm' = {} /\ overlapped' = (overlapped \/ ~Quiet)
      /\ save' = [t \in Savers |-> [save[t] EXCEPT !.clean = FALSE]]
      /\ stranded' = stranded
  BY Counted DEF Delete, atProvider
<1>2. Quiet \in BOOLEAN /\ (~overlapped' => Quiet /\ ~overlapped) /\ overlapped' \in BOOLEAN
  BY <1>1 DEF Quiet, TypeOK
<1>3. \A t \in Savers :
        /\ save'[t].pc = save[t].pc /\ save'[t].config = save[t].config
        /\ save'[t].old = save[t].old /\ save'[t].hook = save[t].hook
        /\ save'[t].key = save[t].key /\ save'[t].whole = save[t].whole
        /\ ~save'[t].clean /\ save'[t] \in Requests
  <2> SUFFICES ASSUME NEW t \in Savers
               PROVE  /\ save'[t].pc = save[t].pc /\ save'[t].config = save[t].config
                      /\ save'[t].old = save[t].old /\ save'[t].hook = save[t].hook
                      /\ save'[t].key = save[t].key /\ save'[t].whole = save[t].whole
                      /\ ~save'[t].clean /\ save'[t] \in Requests
    OBVIOUS
  <2>1. save[t] \in Requests /\ save'[t] = [save[t] EXCEPT !.clean = FALSE]
    BY <1>1 DEF TypeOK
  <2> QED BY <2>1 DEF Requests
<1>4. /\ lost \subseteq lost' /\ lost' \subseteq Ids
      /\ del' \in [pc : {"hook", "row"}, hook : Ids]
      /\ del'.pc = "hook" => del'.hook = state.hook
      /\ del'.pc = "row" => del'.hook = 0 /\ (state.hook # 0 => state.hook \in lost')
  <2>1. CASE del' = [pc |-> "hook", hook |-> state.hook] /\ NoFault /\ UNCHANGED lost
    BY <2>1 DEF TypeOK
  <2>2. CASE Fault /\ del' = [pc |-> "row", hook |-> 0] /\ Lose({state.hook})
    BY <2>2, Hidden DEF TypeOK, Ids
  <2> QED BY <2>1, <2>2 DEF Delete
<1>5. TypeOK'
  <2>1. save' \in [Savers -> Requests] BY <1>1, <1>3
  <2> QED BY <1>1, <1>2, <1>4, <2>1 DEF TypeOK, delivery
<1>6. Fresh'
  BY <1>1, <1>3, <1>4 DEF Sight, Fresh, Making
<1>7. Alone'
  BY <1>1, <1>2, <1>3 DEF Alone, Quiet
<1>8. HostFits' BY <1>1, <1>3 DEF Sight, HostFits
<1>9. Tracked'
  <2> SUFFICES ASSUME Quiet, ~overlapped, host.knows = "state" PROVE Tracked'
    BY <1>1, <1>2 DEF Tracked
  <2>1. \A t \in Savers : save[t].pc = "idle" BY DEF Quiet
  <2>2. \A h \in hooks : h.id # 0 BY DEF Sight, Fresh
  <2>3. \A h \in hooks' : InSight(h)'
    BY <1>1, <1>3, <1>4, <2>1, <2>2 DEF Sight, Tracked, InSight, Making
  <2> QED BY <1>1, <1>3, <1>4, <2>1, <2>3 DEF Tracked
<1>10. ListFits'
  BY <1>1, <1>2, <1>3, <1>4 DEF Sight, ListFits
<1>11. Once' /\ CalmFits'
  BY <1>1, <1>4, DeliveriesKeep
<1>12. ASSUME JInv PROVE JInv'
  <2>1. Distinct'
    <3>1. \A t \in Savers : save[t].pc \in Making =>
            save[t].hook # 0 /\ (save[t].hook # del'.hook \/ save[t].hook = state.hook)
      BY <1>4 DEF Sight, Fresh
    <3> QED BY <1>1, <1>3, <1>12, <3>1 DEF JInv, Aware, Distinct, Clashes, Making
  <2>2. MadeFits'
    BY <1>1, <1>2, <1>3, <1>12 DEF JInv, Aware, MadeFits, MadeBy, Deaf, Clashes
  <2>3. CurrentIsGood'
    <3>1. \A t \in Savers : save[t].pc \in Working => save'[t].pc \in Working
      BY <1>3
    <3> QED BY <1>1, <1>2, <1>4, <1>12, <3>1
            DEF JInv, Aware, CurrentIsGood, Stale, Keyed, Deaf, Clashes
  <2>4. CleanFits' /\ SettledFits' BY <1>1, <1>3 DEF CleanFits, SettledFits
  <2> QED BY <1>11, <2>1, <2>2, <2>3, <2>4 DEF JInv, Aware, Hearing
<1> QED BY <1>5, <1>6, <1>7, <1>8, <1>9, <1>10, <1>11, <1>12 DEF Sight

\* During a deletion the requests under way have overlapped with it.
LEMMA WhileDeleting ==
    ASSUME IInv, del.pc \in {"hook", "row"}
    PROVE  /\ settled = FALSE /\ calm = {}
           /\ \A s \in Savers : ~save[s].clean /\ (save[s].pc # "idle" => overlapped)
  BY DEF IInv, Sight, Alone, Quiet, Sole, TypeOK

\* The hook of the deletion is removed, or hidden, and the state dropped.
LEMMA DeregisterKeeps ==
    ASSUME IInv, Deregister PROVE IInv' /\ (JInv => JInv')
<1> USE DEF IInv
<1>1. /\ UNCHANGED <<host, exists, config, next, save, delivery, settled, stranded>>
      /\ UNCHANGED <<calm, overlapped, saves>>
      /\ del.pc = "hook" /\ faults' \in 0 .. MaxFaults
      /\ del' = [del EXCEPT !.pc = "row"]
  BY Counted DEF Deregister, verdict
<1>2. del' \in [pc : {"hook", "row"}, hook : Ids] /\ del'.pc = "row" /\ del'.hook = del.hook
  BY <1>1 DEF TypeOK
<1>3. /\ settled = FALSE /\ calm = {}
      /\ \A s \in Savers : ~save[s].clean /\ (save[s].pc # "idle" => overlapped)
  BY <1>1, WhileDeleting
<1>4. Deregistered \subseteq hooks /\ (host.knows = "state" => Deregistered = HookOf(del.hook))
  BY DEF Deregistered, Compared, HookOf
<1>5. /\ hooks' \subseteq hooks /\ lost \subseteq lost' /\ lost' \subseteq Ids
      /\ \A h \in hooks : h \notin hooks' /\ host.knows = "state" => h.id = del.hook
      /\ host.knows = "state" => \A h \in hooks' : h.id = del.hook => h.id \in lost'
      /\ state' = NoState \/ state' = state
  <2>1. CASE /\ hooks' = IF host.knows = "operator" THEN hooks ELSE hooks \ Deregistered
             /\ UNCHANGED lost
             /\ \/ state' = NoState /\ NoFault
                \/ Fault /\ UNCHANGED state
    BY <1>4, <2>1 DEF HookOf, TypeOK
  <2>2. CASE /\ Fault /\ Lose({h.id : h \in Deregistered}) /\ UNCHANGED hooks
             /\ state' = NoState \/ (host.keepsRow /\ UNCHANGED state)
    <3>1. \A h \in hooks : h.id # 0 /\ h.id \in Ids BY DEF Sight, Fresh, TypeOK, Hooks
    <3> QED BY <1>4, <2>2, <3>1 DEF HookOf, TypeOK, Lose
  <2> QED BY <2>1, <2>2 DEF Deregister
<1>6. NoState.hook = 0 /\ NoState.config = 0 /\ NoState.key = 0
  BY DEF NoState
<1>7. TypeOK'
  <2>1. state' \in [hook : Ids, config : {0} \cup Configs, key : Ids] /\ (~exists => state' = NoState)
    BY <1>5 DEF TypeOK, NoState, Ids
  <2>2. del' \in [pc : {"idle", "hook", "row", "done"}, hook : Ids] BY <1>2
  <2> QED BY <1>1, <1>5, <2>1, <2>2 DEF TypeOK, delivery
<1>8. Fresh'
  <2>1. state'.hook < next /\ state'.key < next BY <1>5, <1>6 DEF Sight, Fresh
  <2> QED BY <1>1, <1>2, <1>5, <2>1 DEF Sight, Fresh
<1>9. Alone'
  BY <1>1, <1>2, <1>3 DEF Alone
<1>10. HostFits' BY <1>1, <1>5 DEF Sight, HostFits
<1>11. Tracked'
  <2> SUFFICES ASSUME ~overlapped, host.knows = "state" PROVE Tracked'
    BY <1>1 DEF Tracked
  <2>1. \A s \in Savers : save[s].pc = "idle" BY <1>3
  <2>2. \A h \in hooks' : InSight(h)'
    BY <1>1, <1>2, <1>5, <2>1 DEF Sight, Tracked, InSight, Making
  <2> QED BY <1>1, <1>2, <2>1, <2>2 DEF Tracked
<1>12. ListFits'
  BY <1>1, <1>5 DEF Sight, ListFits
<1>13. Once' /\ CalmFits'
  BY <1>1, <1>3, <1>5, DeliveriesKeep
<1>14. ASSUME JInv PROVE JInv'
  <2>2. Distinct'
    <3>1. \A t \in Savers : save[t].pc \in Making => save[t].hook # 0
      BY DEF Sight, Fresh
    <3> QED BY <1>1, <1>2, <1>5, <1>6, <1>14, <3>1 DEF JInv, Aware, Distinct, Clashes, Making
  <2>3. MadeFits'
    <3> SUFFICES ASSUME ~Deaf, NEW t \in Savers, save[t].pc \in {"confirm", "store"}
                 PROVE  \E h \in hooks' : MadeBy(t, h)'
      BY <1>1 DEF MadeFits, Deaf, Clashes
    <3>1. ~Clashes /\ host.knows = "state" /\ host.key # "handshake"
      BY <1>3, Profile DEF TypeOK, ProfileFits, Deaf, Clashes, Sight, HostFits
    <3>2. PICK h \in hooks : MadeBy(t, h) BY <1>14 DEF JInv, Aware, MadeFits
    <3>3. h \in hooks' BY <1>5, <1>14, <3>1, <3>2 DEF JInv, Aware, Distinct, MadeBy
    <3> QED BY <1>1, <3>1, <3>2, <3>3 DEF MadeBy
  <2>4. CurrentIsGood' BY <1>2 DEF CurrentIsGood
  <2>5. CleanFits' /\ SettledFits' BY <1>1, <1>3 DEF CleanFits, SettledFits
  <2> QED BY <1>13, <2>2, <2>3, <2>4, <2>5 DEF JInv, Aware, Hearing
<1> QED BY <1>7, <1>8, <1>9, <1>10, <1>11, <1>12, <1>13, <1>14 DEF Sight

\* The row goes with the state, whose hook is gone or hidden by now.
LEMMA RemoveRowKeeps ==
    ASSUME IInv, RemoveRow PROVE IInv' /\ (JInv => JInv')
<1> USE DEF IInv
<1>1. /\ UNCHANGED <<host, config, hooks, next, save, delivery, settled, calm, lost, overlapped, saves>>
      /\ del.pc = "row" /\ faults' \in 0 .. MaxFaults
      /\ del'.pc \in {"idle", "done"} /\ del'.hook \in {0, del.hook}
      /\ del' \in [pc : {"idle", "hook", "row", "done"}, hook : Ids]
      /\ exists' \in BOOLEAN /\ (~exists' => state' = NoState)
      /\ stranded' \in BOOLEAN
      /\ state' = NoState \/ (UNCHANGED state /\ (stranded' <=> Stale(state, hooks)))
  <2>1. CASE /\ exists' = FALSE /\ state' = NoState /\ UNCHANGED stranded
             /\ del' = [del EXCEPT !.pc = "done"] /\ NoFault
    BY <2>1, Counted DEF RemoveRow, atProvider, TypeOK
  <2>2. CASE /\ Fault /\ del' = NoDelete /\ stranded' = Stale(state, hooks)
             /\ UNCHANGED <<exists, state>>
    <3>1. stranded' \in BOOLEAN /\ (stranded' <=> Stale(state, hooks)) BY <2>2 DEF Stale
    <3> QED BY <2>2, <3>1, Counted DEF RemoveRow, atProvider, NoDelete, TypeOK, Ids
  <2> QED BY <2>1, <2>2 DEF RemoveRow
<1>2. /\ settled = FALSE /\ calm = {}
      /\ \A s \in Savers : ~save[s].clean /\ (save[s].pc # "idle" => overlapped)
  BY <1>1, WhileDeleting
<1>3. NoState.hook = 0 /\ NoState.config = 0 /\ NoState.key = 0
  BY DEF NoState
<1>4. TypeOK'
  <2>1. state' \in [hook : Ids, config : {0} \cup Configs, key : Ids]
    BY <1>1 DEF TypeOK, NoState, Ids
  <2> QED BY <1>1, <2>1 DEF TypeOK, delivery
<1>5. Fresh'
  <2>1. state'.hook < next /\ state'.key < next /\ del'.hook < next
    BY <1>1, <1>3 DEF Sight, Fresh
  <2> QED BY <1>1, <2>1 DEF Sight, Fresh
<1>6. Alone' BY <1>1, <1>2 DEF Alone
<1>7. HostFits' BY <1>1 DEF Sight, HostFits
<1>8. Tracked'
  <2> SUFFICES ASSUME ~overlapped, host.knows = "state" PROVE Tracked'
    BY <1>1 DEF Tracked
  <2>1. \A s \in Savers : save[s].pc = "idle" BY <1>2
  <2>2. \A h \in hooks' : InSight(h)'
    BY <1>1, <2>1 DEF Sight, Tracked, InSight, Making
  <2> QED BY <1>1, <2>1, <2>2 DEF Tracked
<1>9. ListFits' BY <1>1 DEF Sight, ListFits
<1>10. Once' /\ CalmFits' BY <1>1, <1>2, DeliveriesKeep
<1>11. ASSUME JInv PROVE JInv'
  <2>2. Distinct'
    <3>1. \A t \in Savers : save[t].pc \in Making => save[t].hook # 0
      BY DEF Sight, Fresh
    <3> QED BY <1>1, <1>3, <1>11, <3>1 DEF JInv, Aware, Distinct, Clashes, Making
  <2>3. MadeFits'
    <3> SUFFICES ASSUME ~Deaf, NEW t \in Savers, save[t].pc \in {"confirm", "store"}
                 PROVE  \E h \in hooks : MadeBy(t, h)'
      BY <1>1 DEF MadeFits, Deaf, Clashes
    <3>1. host.key # "handshake" BY <1>2, Profile DEF TypeOK, ProfileFits, Deaf, Clashes
    <3>2. PICK h \in hooks : MadeBy(t, h) BY <1>11 DEF JInv, Aware, MadeFits
    <3> QED BY <1>1, <3>1, <3>2 DEF MadeBy
  <2>4. CurrentIsGood'
    <3>1. Stale(state, hooks)' => state' # NoState /\ Stale(state, hooks)
      BY <1>1, <1>3, StaleNext DEF Stale
    <3> QED BY <1>1, <3>1 DEF CurrentIsGood
  <2>5. CleanFits' /\ SettledFits' BY <1>1, <1>2 DEF CleanFits, SettledFits
  <2> QED BY <1>10, <2>2, <2>3, <2>4, <2>5 DEF JInv, Aware, Hearing
<1> QED BY <1>4, <1>5, <1>6, <1>7, <1>8, <1>9, <1>10, <1>11 DEF Sight

-----------------------------------------------------------------------------
(* What is set up by hand, and deliveries.                                 *)

\* What is set up by hand is the only hook, and is heard.
LEMMA SetUpKeeps ==
    ASSUME IInv, SetUp PROVE IInv' /\ (JInv => JInv')
<1> USE DEF IInv
<1>1. /\ UNCHANGED <<host, exists, config, state, save, del, delivery, stranded, calm, lost>>
      /\ UNCHANGED <<overlapped, saves, faults>>
      /\ exists /\ host.knows = "operator" /\ next' = next + 1 /\ settled' = Quiet
      /\ ProfileFits(host) /\ config \in Configs /\ next \in Nat
  BY Profile DEF SetUp, TypeOK, Ids
<1>2. PICK new : new = [NewHook(config, TRUE) EXCEPT !.armed = TRUE] /\ hooks' = {new}
  BY DEF SetUp
<1>3. /\ new.id = next /\ new.key = next /\ new.config = config /\ new.whole /\ new.armed
      /\ new.also = {} /\ new \in Hooks
  BY <1>1, <1>2 DEF NewHook, Hooks, Ids
<1>4. state = NoState /\ \A s \in Savers : save[s].pc \in {"idle", "load"}
  BY <1>1 DEF Sight, HostFits
<1>5. ~Clashes /\ ~host.clears /\ ~Keyed /\ host.filter = "config" /\ host.repairs
  BY <1>1 DEF ProfileFits, Clashes, Keyed
<1>6. TypeOK'
  <2>1. Quiet \in BOOLEAN BY DEF Quiet
  <2>2. hooks' \subseteq Hooks /\ \A h, g \in hooks' : h.id = g.id => h = g
    BY <1>2, <1>3
  <2> QED BY <1>1, <1>3, <2>1, <2>2 DEF TypeOK, delivery, Ids
<1>7. Fresh'
  <2>1. /\ next > 0 /\ state.hook \in Nat /\ state.key \in Nat /\ del.hook \in Nat
        /\ state.hook < next /\ state.key < next /\ del.hook < next
    BY DEF Sight, Fresh, TypeOK, Ids
  <2>2. \A s \in Savers :
          /\ save[s].old < next' /\ save[s].hook < next' /\ save[s].key < next'
          /\ save[s].pc \in Making => save[s].hook > 0 /\ save[s].key > 0
          /\ save[s].pc \notin {"idle", "load"} => save[s].config # 0
    BY <1>1 DEF Sight, Fresh, TypeOK, Requests, Ids
  <2>3. next' > 0 /\ state.hook < next' /\ state.key < next' /\ del.hook < next'
    BY <1>1, <2>1
  <2>4. ASSUME NEW h \in hooks' PROVE h.id > 0 /\ h.id < next' /\ h.key > 0 /\ h.key < next'
    <3>1. h.id = next /\ h.key = next BY <1>2, <1>3
    <3> QED BY <1>1, <2>1, <3>1
  <2>5. \A h, g \in hooks' : h.key = g.key => h = g BY <1>2
  <2> QED BY <1>1, <2>2, <2>3, <2>4, <2>5 DEF Fresh
<1>8. Alone' BY <1>1 DEF Sight, Alone, Sole, Quiet
<1>9. HostFits' BY <1>1, <1>2, <1>3 DEF Sight, HostFits
<1>10. Tracked' /\ ListFits' BY <1>1 DEF Tracked, ListFits
<1>11. Once'
  BY <1>1 DEF Once, FlightFits, OneDelivery, CalmDelivery, delivery, Keyed, Keyfit
<1>12. ASSUME JInv PROVE JInv'
  <2>1. Distinct' BY <1>1, <1>4 DEF Distinct
  <2>2. MadeFits' /\ CurrentIsGood'
    BY <1>1, <1>4 DEF MadeFits, CurrentIsGood, Stale, NoState
  <2>3. CleanFits' BY <1>1, <1>12 DEF JInv, Hearing, CleanFits
  <2>4. SettledFits'
    <3>1. ASSUME NEW h, h = new PROVE Heard(h)'
      BY <1>1, <1>3, <1>5, <3>1 DEF Heard, Keyed
    <3> QED BY <1>1, <1>2, <3>1 DEF SettledFits
  <2>5. CalmFits'
    <3>1. Exempt <=> stranded BY <1>5 DEF Exempt, Deaf
    <3>2. Exempt' <=> stranded BY <1>1, <1>5 DEF Exempt, Deaf, Clashes
    <3>3. ~stranded => \A e \in calm \ unheard : Selects(config, e) =>
            runs[e] >= 1 \/ \E d \in flight : Starts(d, e)
      BY <1>12, <3>1 DEF JInv, Hearing, CalmFits
    <3>4. calm # {} => exists BY <1>1
    <3> QED BY <1>1, <3>2, <3>3, <3>4
            DEF CalmFits, Selects, Starts, Verified, Matches, Keyed, delivery
  <2> QED BY <2>1, <2>2, <2>3, <2>4, <2>5 DEF JInv, Aware, Hearing
<1> QED BY <1>6, <1>7, <1>8, <1>9, <1>10, <1>11, <1>12 DEF Sight

\* Deliveries change nothing of what the program and the provider keep.
Delivers ==
    UNCHANGED <<host, exists, config, state, atProvider, save, del, verdict, lost, overlapped, saves>>

\* Nothing but deliveries: what is registered is as it was.
LEMMA DeliversKeeps ==
    ASSUME IInv, Delivers, calm' # {} => settled \/ calm # {}
    PROVE  /\ Sight' /\ (JInv => Aware' /\ CleanFits' /\ SettledFits')
           /\ Keyed' = Keyed /\ Exempt' = Exempt
           /\ \A c, e : Selects(c, e)' = Selects(c, e)
           /\ \A d, e : Starts(d, e)' = Starts(d, e)
<1> USE DEF IInv
<1>1. /\ UNCHANGED <<host, exists, config, state, hooks, next, save, del, settled, stranded, lost>>
      /\ UNCHANGED <<overlapped, saves>>
  BY DEF Delivers, atProvider, verdict
<1>2. Fresh' /\ HostFits' BY <1>1 DEF Sight, Fresh, HostFits
<1>3. Alone' BY <1>1 DEF Sight, Alone, Sole, Quiet
<1>4. Tracked' /\ ListFits' BY <1>1 DEF Sight, Tracked, InSight, ListFits
<1>5. ASSUME JInv PROVE Aware' /\ CleanFits' /\ SettledFits'
  <2>1. Distinct' BY <1>1, <1>5 DEF JInv, Aware, Distinct, Clashes
  <2>2. MadeFits' BY <1>1, <1>5 DEF JInv, Aware, MadeFits, MadeBy, Deaf, Clashes
  <2>3. CurrentIsGood'
    BY <1>1, <1>5 DEF JInv, Aware, CurrentIsGood, Stale, Keyed, Deaf, Clashes
  <2>4. CleanFits' /\ SettledFits'
    BY <1>1, <1>5
    DEF JInv, Hearing, CleanFits, SettledFits, Exempt, Deaf, Clashes, Heard, Keyed
  <2> QED BY <2>1, <2>2, <2>3, <2>4 DEF Aware
<1>6. Keyed' = Keyed /\ Exempt' = Exempt /\ \A c, e : Selects(c, e)' = Selects(c, e)
  BY <1>1 DEF Keyed, Exempt, Deaf, Clashes, Selects
<1>7. \A d, e : Starts(d, e)' = Starts(d, e)
  BY <1>1 DEF Starts, Verified, Matches, Keyed, Selects
<1> QED BY <1>2, <1>3, <1>4, <1>5, <1>6, <1>7 DEF Sight

\* One hook at most sends an event.
LEMMA OneTeller ==
    ASSUME IInv, lost = {}, ~overlapped, NEW e \in Events, NEW h \in hooks, NEW g \in hooks,
           Sends(h, e), Sends(g, e)
    PROVE  h = g
<1> USE DEF IInv
<1>1. ProfileFits(host) BY Profile DEF TypeOK
<1>2. CASE host.knows = "state"
  <2>1. InSight(h) /\ InSight(g) BY <1>2 DEF Sight, Tracked
  <2>2. \A s, t \in Savers : save[s].pc \in Making /\ save[t].pc # "idle" => s = t
    BY DEF Sight, Alone, Sole, Making
  <2>3. h.id = g.id BY <2>1, <2>2 DEF InSight, Making
  <2> QED BY <2>3 DEF TypeOK
<1>3. CASE host.knows = "list"
  <2>1. h.also = {} /\ g.also = {} BY <1>3 DEF Sight, HostFits
  <2> QED BY <1>1, <1>3, <2>1 DEF Sends, Selects, ProfileFits, Sight, ListFits
<1>4. CASE host.knows = "operator"
  BY <1>4 DEF Sight, HostFits
<1> QED BY <1>1, <1>2, <1>3, <1>4 DEF ProfileFits

\* An event is sent by the hook that will be heard, and by no other as long as
\* none is hidden and no requests have overlapped.
LEMMA EmitKeeps ==
    ASSUME IInv, NEW b \in Batches, NEW first \in b, Emit(b, first)
    PROVE  IInv' /\ (JInv => JInv')
<1> USE DEF IInv
<1>1. Delivers /\ runs' = runs /\ unheard' = unheard /\ faults' = faults
  BY DEF Emit, Delivers
<1>2. /\ b \cap emitted = {} /\ emitted' = emitted \cup b
      /\ calm' = IF settled THEN calm \cup b ELSE calm
  BY DEF Emit
<1>3. b \subseteq Events BY DEF Batches
<1>4. \A d \in flight' : d \in flight \/
        \E h \in hooks : d = DeliveryOf(h, b, first) /\ Told(h, b) # {}
  BY DEF Emit
<1>5. /\ flight \subseteq flight'
      /\ \A h \in hooks : Told(h, b) # {} => DeliveryOf(h, b, first) \in flight'
  BY DEF Emit
<1>6. \A h \in hooks :
        /\ DeliveryOf(h, b, first).events = Told(h, b)
        /\ DeliveryOf(h, b, first).key = h.key /\ DeliveryOf(h, b, first).config = h.config
        /\ \A e \in Told(h, b) : e \in b /\ Sends(h, e)
        /\ \A e \in b : Sends(h, e) => e \in Told(h, b)
        /\ DeliveryOf(h, b, first) \in Deliveries
  BY <1>3 DEF DeliveryOf, Told, Deliveries, TypeOK, Hooks
<1>7. ASSUME NEW d \in flight', NEW e \in d.events, e \in b
      PROVE  \E h \in hooks : d = DeliveryOf(h, b, first) /\ Sends(h, e)
  BY <1>2, <1>4, <1>6, <1>7 DEF Once, FlightFits
<1>8. ASSUME NEW d \in flight', NEW e \in d.events, e \notin b
      PROVE  d \in flight
  BY <1>4, <1>6, <1>8
<1>9. \A e \in b : runs[e] = 0
  BY <1>2, <1>3 DEF Once, FlightFits, TypeOK
<1>10. TypeOK'
  <2>1. flight' \subseteq Deliveries BY <1>4, <1>6 DEF TypeOK
  <2>2. emitted' \subseteq Events /\ calm' \subseteq emitted' BY <1>2, <1>3 DEF TypeOK
  <2> QED BY <1>1, <2>1, <2>2 DEF TypeOK, Delivers, atProvider, verdict
<1>11. /\ Sight' /\ (JInv => Aware' /\ CleanFits' /\ SettledFits')
       /\ Keyed' = Keyed /\ Exempt' = Exempt
       /\ \A c, e : Selects(c, e)' = Selects(c, e)
       /\ \A d, e : Starts(d, e)' = Starts(d, e)
  BY <1>1, <1>2, DeliversKeeps
<1>12. host' = host /\ state' = state /\ config' = config /\ lost' = lost
       /\ overlapped' = overlapped /\ exists' = exists
  BY <1>1 DEF Delivers
<1>13. Once'
  <2>1. FlightFits'
    <3>1. \A d \in flight' : d.events \subseteq emitted'
      BY <1>2, <1>4, <1>6 DEF Once, FlightFits
    <3> QED BY <1>1, <1>2, <3>1 DEF Once, FlightFits
  <2>2. OneDelivery'
    <3> SUFFICES ASSUME lost = {}, ~overlapped, NEW e \in Events
                 PROVE  /\ \A d, f \in flight' : e \in d.events /\ e \in f.events => d = f
                        /\ runs[e] > 0 => \A d \in flight' : e \notin d.events
                        /\ runs[e] <= 1
      BY <1>1, <1>12 DEF OneDelivery
    <3>1. CASE e \in b
      <4>1. ASSUME NEW d \in flight', NEW f \in flight', e \in d.events, e \in f.events
            PROVE  d = f
        BY <1>7, <3>1, <4>1, OneTeller
      <4> QED BY <1>9, <3>1, <4>1
    <3>2. CASE e \notin b
      BY <1>8, <3>2 DEF Once, OneDelivery
    <3> QED BY <3>1, <3>2
  <2>3. CalmDelivery'
    <3> SUFFICES ASSUME Keyed, NEW e \in calm'
                 PROVE  /\ \A d, f \in flight' : Keyfit(d, e) /\ Keyfit(f, e) => d = f
                        /\ runs[e] > 0 => \A d \in flight' : ~Keyfit(d, e)
                        /\ runs[e] <= 1
      BY <1>1, <1>11, <1>12 DEF CalmDelivery, Keyfit
    <3>1. CASE e \in b
      <4>1. ASSUME NEW d \in flight', NEW f \in flight', Keyfit(d, e), Keyfit(f, e)
            PROVE  d = f
        <5>1. PICK h \in hooks : d = DeliveryOf(h, b, first) BY <1>7, <3>1, <4>1 DEF Keyfit
        <5>2. PICK g \in hooks : f = DeliveryOf(g, b, first) BY <1>7, <3>1, <4>1 DEF Keyfit
        <5>3. h.key = g.key BY <1>6, <4>1, <5>1, <5>2 DEF Keyfit
        <5> QED BY <5>1, <5>2, <5>3 DEF Sight, Fresh
      <4> QED BY <1>9, <3>1, <4>1
    <3>2. CASE e \notin b
      BY <1>2, <1>8, <3>2 DEF Once, CalmDelivery, Keyfit
    <3> QED BY <3>1, <3>2
  <2> QED BY <2>1, <2>2, <2>3 DEF Once
<1>14. ASSUME JInv PROVE CalmFits'
  <2>1. calm' # {} => exists'
    BY <1>2, <1>12, <1>14 DEF JInv, Hearing, CalmFits, SettledFits
  <2>2. ASSUME ~Exempt, NEW e \in calm' \ unheard, Selects(config, e)
        PROVE  runs[e] >= 1 \/ \E d \in flight' : Starts(d, e)
    <3>1. CASE e \in calm
      BY <1>5, <1>14, <2>2, <3>1 DEF JInv, Hearing, CalmFits
    <3>2. CASE e \notin calm
      <4>1. settled /\ e \in b BY <1>2, <2>2, <3>2
      <4>2. PICK h \in hooks : Heard(h) BY <1>14, <2>2, <4>1 DEF JInv, Hearing, SettledFits
      <4>3. Sends(h, e) BY <2>2, <4>2 DEF Heard, Sends
      <4>4. e \in Told(h, b) BY <1>6, <4>1, <4>3
      <4>5. PICK d \in flight' : d = DeliveryOf(h, b, first) BY <1>5, <4>4
      <4>6. e \in d.events /\ d.key = h.key /\ d.config = config
        BY <1>6, <4>2, <4>4, <4>5 DEF Heard
      <4>7. Verified(d)
        <5>1. Keyed => state.key # 0 /\ d.key = state.key
          BY <4>2, <4>6 DEF Heard, Sight, Fresh
        <5> QED BY <4>6, <5>1 DEF Verified
      <4>8. Matches(e) BY <2>2, <4>2 DEF Matches, Heard
      <4> QED BY <4>6, <4>7, <4>8 DEF Starts
    <3> QED BY <3>1, <3>2
  <2>3. \A c, e : Selects(c, e)' = Selects(c, e) /\ \A d : Starts(d, e)' = Starts(d, e)
    BY <1>11
  <2> QED BY <1>1, <1>11, <1>12, <2>1, <2>2, <2>3 DEF CalmFits, Selects
<1> QED BY <1>10, <1>11, <1>13, <1>14 DEF JInv, Hearing

\* A delivery arrives once, and starts the flow if it is verified and matches.
LEMMA DeliverKeeps ==
    ASSUME IInv, NEW d \in flight, Deliver(d)
    PROVE  IInv' /\ (JInv => JInv')
<1> USE DEF IInv
<1>1. /\ Delivers /\ calm' = calm /\ emitted' = emitted /\ flight' = flight \ {d}
      /\ d \in Deliveries /\ d.events \subseteq Events /\ d.events \subseteq emitted
  BY DEF Deliver, Delivers, ghosts, TypeOK, Deliveries, Once, FlightFits
<1>2. PICK fired \in SUBSET d.events :
        /\ \A e \in Events : runs'[e] = IF e \in fired THEN runs[e] + 1 ELSE runs[e]
        /\ runs' \in [Events -> Nat]
        /\ fired # {} => Verified(d)
        /\ unheard \subseteq unheard' /\ unheard' \subseteq unheard \cup d.events
        /\ exists /\ Verified(d) =>
              \A e \in d.events : (host.batch # "first" => Matches(e)) => e \in fired \cup unheard'
        /\ faults' \in 0 .. MaxFaults
  <2>1. Firing(d) \subseteq d.events /\ Overlooked(d) \subseteq d.events
    BY DEF Firing, Overlooked
  <2>2. CASE exists /\ Verified(d)
    <3>1. PICK gone \in SUBSET Firing(d) :
            /\ Fault \/ NoFault
            /\ runs' = [e \in Events |-> IF e \in Firing(d) \ gone THEN runs[e] + 1 ELSE runs[e]]
            /\ unheard' = unheard \cup gone \cup Overlooked(d)
      BY <2>2 DEF Deliver
    <3>2. \A e \in d.events : (host.batch # "first" => Matches(e)) =>
            e \in Firing(d) \cup Overlooked(d)
      BY DEF Firing, Overlooked
    <3> DEFINE fired == Firing(d) \ gone
    <3>3. fired \in SUBSET d.events BY <2>1
    <3>4. \A e \in Events : runs[e] \in Nat /\ runs[e] + 1 \in Nat BY DEF TypeOK
    <3>5. /\ \A e \in Events : runs'[e] = IF e \in fired THEN runs[e] + 1 ELSE runs[e]
          /\ runs' \in [Events -> Nat]
      BY <3>1, <3>4
    <3>6. unheard \subseteq unheard' /\ unheard' \subseteq unheard \cup d.events
      BY <2>1, <3>1
    <3>7. \A e \in d.events : (host.batch # "first" => Matches(e)) => e \in fired \cup unheard'
      BY <3>1, <3>2
    <3>8. faults' \in 0 .. MaxFaults BY <3>1, Counted DEF TypeOK
    <3> HIDE DEF fired
    <3> QED BY <2>2, <3>3, <3>5, <3>6, <3>7, <3>8
  <2>3. CASE ~(exists /\ Verified(d))
    <3>1. {} \in SUBSET d.events /\ NoFault /\ runs' = runs /\ unheard' = unheard
      BY <2>3 DEF Deliver
    <3>2. runs \in [Events -> Nat] /\ faults' \in 0 .. MaxFaults
      BY <3>1, Counted DEF TypeOK
    <3>3. PICK fired : fired = {} OBVIOUS
    <3> QED BY <2>3, <3>1, <3>2, <3>3
  <2> QED BY <2>2, <2>3
<1>3. TypeOK'
  BY <1>1, <1>2 DEF TypeOK, Delivers, atProvider, verdict
<1>4. /\ Sight' /\ (JInv => Aware' /\ CleanFits' /\ SettledFits')
      /\ Keyed' = Keyed /\ Exempt' = Exempt
      /\ \A c, e : Selects(c, e)' = Selects(c, e)
      /\ \A f, e : Starts(f, e)' = Starts(f, e)
  BY <1>1, DeliversKeeps
<1>5. host' = host /\ state' = state /\ config' = config /\ lost' = lost
      /\ overlapped' = overlapped /\ exists' = exists
  BY <1>1 DEF Delivers
<1>6. \A e \in Events : runs[e] \in Nat /\ runs'[e] \in Nat
  BY <1>2 DEF TypeOK
<1>7. Once'
  <2>1. FlightFits'
    BY <1>1, <1>2 DEF Once, FlightFits
  <2>2. OneDelivery'
    <3> SUFFICES ASSUME lost = {}, ~overlapped, NEW e \in Events
                 PROVE  /\ \A f, g \in flight' : e \in f.events /\ e \in g.events => f = g
                        /\ runs'[e] > 0 => \A f \in flight' : e \notin f.events
                        /\ runs'[e] <= 1
      BY <1>5 DEF OneDelivery
    <3>1. /\ \A f, g \in flight : e \in f.events /\ e \in g.events => f = g
          /\ runs[e] > 0 => \A f \in flight : e \notin f.events
          /\ runs[e] <= 1
      BY DEF Once, OneDelivery
    <3>2. CASE e \in fired
      BY <1>1, <1>2, <1>6, <3>1, <3>2
    <3>3. CASE e \notin fired
      BY <1>1, <1>2, <1>6, <3>1, <3>3
    <3> QED BY <3>2, <3>3
  <2>3. CalmDelivery'
    <3> SUFFICES ASSUME Keyed, NEW e \in calm
                 PROVE  /\ \A f, g \in flight' : Keyfit(f, e) /\ Keyfit(g, e) => f = g
                        /\ runs'[e] > 0 => \A f \in flight' : ~Keyfit(f, e)
                        /\ runs'[e] <= 1
      BY <1>1, <1>4, <1>5 DEF CalmDelivery, Keyfit
    <3>1. /\ \A f, g \in flight : Keyfit(f, e) /\ Keyfit(g, e) => f = g
          /\ runs[e] > 0 => \A f \in flight : ~Keyfit(f, e)
          /\ runs[e] <= 1 /\ e \in Events
      BY DEF Once, CalmDelivery, TypeOK
    <3>2. CASE e \in fired
      <4>1. Verified(d) /\ e \in d.events BY <1>2, <3>2
      <4>2. Keyfit(d, e)
        <5>1. Verified(d) => state.key # 0 /\ d.key = state.key BY DEF Verified, Keyed
        <5> QED BY <4>1, <5>1 DEF Keyfit
      <4> QED BY <1>1, <1>2, <1>6, <3>1, <3>2, <4>2
    <3>3. CASE e \notin fired
      BY <1>1, <1>2, <1>6, <3>1, <3>3
    <3> QED BY <3>2, <3>3
  <2> QED BY <2>1, <2>2, <2>3 DEF Once
<1>8. ASSUME JInv PROVE CalmFits'
  <2>1. calm' # {} => exists'
    BY <1>1, <1>5, <1>8 DEF JInv, Hearing, CalmFits
  <2>2. ASSUME ~Exempt, NEW e \in calm \ unheard', Selects(config, e)
        PROVE  runs'[e] >= 1 \/ \E f \in flight' : Starts(f, e)
    <3>1. e \in Events /\ exists BY <1>8 DEF TypeOK, JInv, Hearing, CalmFits
    <3>2. runs[e] >= 1 \/ \E f \in flight : Starts(f, e)
      BY <1>2, <1>8, <2>2 DEF JInv, Hearing, CalmFits
    <3>3. CASE runs[e] >= 1 BY <1>2, <1>6, <3>1, <3>3
    <3>4. CASE Starts(d, e)
      <4>1. e \in fired BY <1>2, <2>2, <3>1, <3>4 DEF Starts
      <4> QED BY <1>2, <1>6, <3>1, <4>1
    <3>5. CASE \E f \in flight : f # d /\ Starts(f, e) BY <1>1, <3>5
    <3> QED BY <3>2, <3>3, <3>4, <3>5
  <2> QED BY <1>1, <1>4, <1>5, <2>1, <2>2 DEF CalmFits, Selects
<1> QED BY <1>3, <1>4, <1>7, <1>8 DEF JInv, Hearing
-----------------------------------------------------------------------------
(* The theorems.                                                           *)

\* Every step keeps the invariant.
LEMMA StepInvariant ==
    ASSUME IInv, JInv, [Next]_vars
    PROVE  IInv' /\ JInv'
<1>1. CASE UNCHANGED vars
  <2>1. Delivers /\ UNCHANGED <<calm, delivery, faults>>
    BY <1>1 DEF vars, Delivers, ghosts
  <2>2. /\ Sight' /\ (JInv => Aware' /\ CleanFits' /\ SettledFits')
        /\ Keyed' = Keyed /\ Exempt' = Exempt
        /\ \A c, e : Selects(c, e)' = Selects(c, e)
        /\ \A d, e : Starts(d, e)' = Starts(d, e)
    BY <2>1, DeliversKeeps
  <2>3. TypeOK' BY <2>1 DEF IInv, TypeOK, Delivers, atProvider, delivery, verdict
  <2>4. Once'
    BY <2>1, <2>2
    DEF IInv, Once, FlightFits, OneDelivery, CalmDelivery, Keyfit, Delivers, delivery
  <2>5. JInv => CalmFits'
    BY <2>1, <2>2 DEF JInv, Hearing, CalmFits, Delivers, delivery, Selects
  <2> QED BY <2>2, <2>3, <2>4, <2>5 DEF IInv, JInv, Hearing
<1>2. CASE Next
  <2>1. ASSUME NEW s \in Savers, NEW c \in Configs, Save(s, c)
        PROVE  IInv' /\ JInv'
    BY <2>1, SaveKeeps
  <2>2. ASSUME NEW s \in Savers,
               \/ Load(s) \/ LoadList(s) \/ LoadNothing(s)
               \/ DeleteOld(s) \/ Clear(s) \/ Create(s) \/ CreateFails(s) \/ Adopt(s) \/ Replace(s)
               \/ Confirm(s) \/ Store(s) \/ Undo(s) \/ Crash(s)
        PROVE  IInv' /\ JInv'
    BY <2>2, LoadKeeps, LoadListKeeps, LoadNothingKeeps, DeleteOldKeeps, ClearKeeps,
       CreateKeeps, CreateFailsKeeps, AdoptKeeps, ReplaceKeeps, ConfirmKeeps, StoreKeeps,
       UndoKeeps, CrashKeeps
  <2>3. CASE Delete \/ Deregister \/ RemoveRow \/ SetUp
    BY <2>3, DeleteKeeps, DeregisterKeeps, RemoveRowKeeps, SetUpKeeps
  <2>4. CASE \E b \in Batches : \E first \in b : Emit(b, first)
    BY <2>4, EmitKeeps
  <2>5. CASE \E d \in flight : Deliver(d)
    BY <2>5, DeliverKeeps
  <2> QED BY <1>2, <2>1, <2>2, <2>3, <2>4, <2>5 DEF Next
<1> QED BY <1>1, <1>2

\* Every reachable state is one of the invariant.
THEOREM WebhooksInvariant == Spec => [](IInv /\ JInv)
<1>1. Init => IInv /\ JInv
  BY Initially
<1>2. IInv /\ JInv /\ [Next]_vars => (IInv /\ JInv)'
  BY StepInvariant
<1> QED BY <1>1, <1>2, PTL DEF Spec

\* The variables keep their types; in particular no state is kept for a trigger
\* whose row is gone.
THEOREM WebhooksTypes == Spec => []TypeOK
<1>1. IInv => TypeOK BY DEF IInv
<1> QED BY <1>1, WebhooksInvariant, PTL

\* No hook stays at a provider that the program has not lost to a failed call
\* and does not remember: the next save or the deletion finds it.
THEOREM NoHookForgotten == Spec => []NothingForgotten
<1>1. IInv => NothingForgotten
  <2> SUFFICES ASSUME IInv, Quiet, ~overlapped, host.knows = "state", NEW h \in hooks
               PROVE  h.id \in lost \/ (exists /\ h.id = state.hook)
    BY DEF NothingForgotten
  <2>1. InSight(h) BY DEF IInv, Sight, Tracked
  <2>2. h.id \in lost \/ h.id = state.hook BY <2>1 DEF InSight, Quiet, Making
  <2>3. h.id # 0 BY DEF IInv, Sight, Fresh
  <2> QED BY <2>2, <2>3 DEF IInv, TypeOK, NoState
<1> QED BY <1>1, WebhooksInvariant, PTL

\* An event starts the flow once as long as no failed call has hidden a hook and
\* no requests have overlapped, and, where hooks have their own key, whenever it
\* comes in between requests.
THEOREM EventsRunOnce == Spec => []OneRun
<1>1. IInv => OneRun
  BY DEF IInv, Once, OneDelivery, CalmDelivery, OneRun
<1> QED BY <1>1, WebhooksInvariant, PTL

\* After a save that went well and alone, whatever had failed and overlapped
\* before, the events that the configuration selects start the flow, unless a
\* failed request has left a state that describes no hook.
THEOREM SavedFlowsHear == Spec => []SavedIsHeard
<1>1. IInv /\ JInv => SavedIsHeard
  <2> SUFFICES ASSUME IInv, JInv, NEW e \in calm \ unheard, Selects(config, e), ~Exempt
               PROVE  runs[e] >= 1 \/ \E d \in flight : e \in d.events
    BY DEF SavedIsHeard, Exempt, Deaf, Clashes
  <2> QED BY DEF JInv, Hearing, CalmFits, Starts
<1> QED BY <1>1, WebhooksInvariant, PTL
=============================================================================
