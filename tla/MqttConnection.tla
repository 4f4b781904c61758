--------------------------- MODULE MqttConnection ---------------------------
(***************************************************************************)
(* The broker connections one Launch instance keeps for one MQTT trigger.  *)
(*                                                                         *)
(* Service.subs maps the trigger to at most one subscription, but the map  *)
(* and the paho clients are changed by several goroutines: the reconcile   *)
(* loop, and one goroutine per flow save (Register) or trigger deletion    *)
(* (Deregister).  Only the map is guarded by Service.mu; dialling and      *)
(* closing happen outside it.  Each goroutine's critical sections are one  *)
(* action each, and the others may run between any two of them.            *)
(*                                                                         *)
(* The lease is left to MqttHandover: here TryAcquireLease answers what it *)
(* likes.                                                                  *)
(***************************************************************************)
EXTENDS Integers, FiniteSets

CONSTANTS Loop,         \* the reconcile goroutine
          Handlers,     \* goroutines that serve saves and deletions
          Configs,      \* stored node configurations
          Unparsable,   \* those parseConfig rejects
          Undialable,   \* those dial rejects: topics or certificates
          Subs,         \* subscription structs that can exist at once
          None,
          InitRow,      \* "absent", or "live" for a restart over a stored trigger
          MaxSaves,     \* bound on flow saves
          AllowDelete,  \* whether the trigger is ever deleted
          AllowDenial,  \* whether another instance ever owns the lease
          MaxFaults     \* failed lease calls and API outages

ASSUME ConnectionAssumption ==
    /\ Loop \notin Handlers
    /\ None \notin Subs
    /\ Unparsable \subseteq Configs /\ Undialable \subseteq Configs
    /\ InitRow \in {"absent", "live"} /\ MaxSaves \in Nat
    /\ AllowDelete \in BOOLEAN /\ AllowDenial \in BOOLEAN
    /\ MaxFaults \in Nat

Threads == Handlers \cup {Loop}

VARIABLES
    row,      \* "absent", "live" or "deleted"
    cfg,      \* the stored configuration of the row
    apiUp,    \* whether the API resolves ${secrets.X}
    slot,     \* subs[triggerID]
    sub,      \* the subscription structs
    pc,       \* where each goroutine is
    job,      \* its local variables
    calm,     \* nothing but unchanged saves so far: no edit, deletion, denied
              \* lease or outage, no creation during a reconcile that missed it
    saves,
    faults

vars == <<row, cfg, apiUp, slot, sub, pc, job, calm, saves, faults>>

\* A fingerprint covers the resolved values: while the API is away, references
\* stay in the text and the fingerprint is another one.
Fingerprints == [cfg : Configs, resolved : BOOLEAN] \cup {None}

\* client: "none" until dial has built it; link: what the broker side is.
Subscriptions == [fp : Fingerprints, client : {"free", "none", "open"},
                  link : {"down", "accepted", "rejected"}, failed : BOOLEAN]

FreeSub == [fp |-> None, client |-> "free", link |-> "down", failed |-> FALSE]

\* seen: the configuration read from the row; fp: the fingerprint computed from
\* it; mine: the subscription reserved; victim: the one taken out of the map.
Jobs == [seen : Configs \cup {None}, fp : Fingerprints,
         mine : Subs \cup {None}, victim : Subs \cup {None}]

NoJob == [seen |-> None, fp |-> None, mine |-> None, victim |-> None]

Steps == {"idle", "read", "lease", "parse", "reserve", "closePrevious", "dial",
          "giveBack", "drop", "close", "remove"}

TypeOK ==
    /\ row \in {"absent", "live", "deleted"} /\ cfg \in Configs /\ apiUp \in BOOLEAN
    /\ slot \in Subs \cup {None}
    /\ sub \in [Subs -> Subscriptions]
    /\ pc \in [Threads -> Steps]
    /\ job \in [Threads -> Jobs]
    /\ calm \in BOOLEAN
    /\ saves \in 0 .. MaxSaves /\ faults \in 0 .. MaxFaults

Init ==
    /\ row = InitRow /\ cfg \in Configs /\ apiUp = TRUE
    /\ slot = None
    /\ sub = [s \in Subs |-> FreeSub]
    /\ pc = [t \in Threads |-> "idle"]
    /\ job = [t \in Threads |-> NoJob]
    /\ calm = TRUE
    /\ saves = 0 /\ faults = 0

Goto(t, l) == pc' = [pc EXCEPT ![t] = l]
Return(t) == Goto(t, "idle") /\ job' = [job EXCEPT ![t] = NoJob]
Fault == faults < MaxFaults /\ faults' = faults + 1

\* Structs nothing refers to can become a new subscription.
Unused == {s \in Subs : /\ sub[s] = FreeSub
                        /\ \A t \in Threads : s \notin {job[t].mine, job[t].victim}}

-----------------------------------------------------------------------------
(* Where a goroutine starts. *)

\* createTrigger: the upsert, then Register on a goroutine of its own.
Save(h) ==
    /\ pc[h] = "idle" /\ row # "deleted"
    /\ saves < MaxSaves /\ saves' = saves + 1
    /\ row' = "live"
    /\ cfg' \in Configs
    /\ Goto(h, "read")
    /\ calm' = (calm /\ IF row = "absent" THEN pc[Loop] # "drop" ELSE cfg' = cfg)
    /\ UNCHANGED <<apiUp, slot, sub, job, faults>>

\* deleteTrigger calls Deregister before it removes the row.
Delete(h) ==
    /\ AllowDelete /\ pc[h] = "idle" /\ row = "live"
    /\ Goto(h, "drop")
    /\ calm' = FALSE
    /\ UNCHANGED <<row, cfg, apiUp, slot, sub, job, faults, saves>>

\* A tick of the reconcile loop.
Wake ==
    /\ pc[Loop] = "idle"
    /\ Goto(Loop, "read")
    /\ UNCHANGED <<row, cfg, apiUp, slot, sub, job, calm, faults, saves>>

\* Faulty variant: the loop does not look for stale subscriptions.
ReadRow_KeepsStale(t) ==
    /\ pc[t] = "read"
    /\ \/ row = "live" /\ Goto(t, "lease") /\ job' = [job EXCEPT ![t].seen = cfg]
       \/ row # "live" /\ Return(t)
    /\ UNCHANGED <<row, cfg, apiUp, slot, sub, calm, faults, saves>>

\* GetTriggersByType in the loop, GetTriggerByID in Register.  A subscription
\* whose trigger was not listed is stale for the loop and dropped.
ReadRow(t) ==
    /\ pc[t] = "read"
    /\ \/ row = "live" /\ Goto(t, "lease") /\ job' = [job EXCEPT ![t].seen = cfg]
       \/ row # "live" /\ t = Loop /\ Goto(t, "drop") /\ UNCHANGED job
       \/ row # "live" /\ t # Loop /\ Return(t)
    /\ UNCHANGED <<row, cfg, apiUp, slot, sub, calm, faults, saves>>

\* TryAcquireLease.  When another instance owns the trigger the loop lets the
\* subscription go; when the call fails it does so if the lease is lapsing.
Lease(t) ==
    /\ pc[t] = "lease"
    /\ \/ Goto(t, "parse") /\ UNCHANGED <<job, calm, faults>>
       \/ /\ AllowDenial
          /\ IF t = Loop THEN Goto(t, "drop") /\ UNCHANGED job ELSE Return(t)
          /\ calm' = FALSE /\ UNCHANGED faults
       \/ /\ Fault
          /\ \/ Return(t) /\ UNCHANGED calm
             \/ t = Loop /\ AllowDenial /\ Goto(t, "drop") /\ calm' = FALSE /\ UNCHANGED job
    /\ UNCHANGED <<row, cfg, apiUp, slot, sub, saves>>

-----------------------------------------------------------------------------
(* ensure and dial. *)

\* parseConfig resolves the secrets; what cannot be resolved stays as written.
Parse(t) ==
    /\ pc[t] = "parse"
    /\ IF job[t].seen \in Unparsable
       THEN Return(t)
       ELSE /\ job' = [job EXCEPT ![t].fp = [cfg |-> job[t].seen, resolved |-> apiUp]]
            /\ Goto(t, "reserve")
    /\ UNCHANGED <<row, cfg, apiUp, slot, sub, calm, faults, saves>>

\* Faulty variants of the test in ensure: it asks for a live connection, it
\* overlooks a rejected one, it overlooks the configuration, it is not made.
Keeps_OnlyAlive(t) == slot # None /\ sub[slot].fp = job[t].fp /\ sub[slot].link = "accepted"
Keeps_Rejected(t) == slot # None /\ sub[slot].fp = job[t].fp
Keeps_AnyConfig(t) == slot # None /\ ~sub[slot].failed /\ job[t].fp # None
Keeps_Nothing(t) == slot # None /\ job[t].fp = None

Keeps(t) == slot # None /\ sub[slot].fp = job[t].fp /\ ~sub[slot].failed

\* The critical section of ensure: the connection is right as it is ...
Refresh(t) ==
    /\ pc[t] = "reserve" /\ Keeps(t)
    /\ Return(t)
    /\ UNCHANGED <<row, cfg, apiUp, slot, sub, calm, faults, saves>>

\* ... or the slot is given to a new subscription that has no client yet.
Reserve(t) ==
    /\ pc[t] = "reserve" /\ ~Keeps(t)
    /\ Unused # {}
    /\ LET s == CHOOSE s \in Unused : TRUE IN
         /\ slot' = s
         /\ sub' = [sub EXCEPT ![s] = [FreeSub EXCEPT !.fp = job[t].fp, !.client = "none"]]
         /\ job' = [job EXCEPT ![t].mine = s, ![t].victim = slot]
    /\ Goto(t, "closePrevious")
    /\ UNCHANGED <<row, cfg, apiUp, calm, faults, saves>>

\* Faulty variant: a closed subscription is left in the pool as it is.
Closed_Kept(s) == IF s # None /\ sub[s].client = "open"
                  THEN [sub EXCEPT ![s].client = "closed"]
                  ELSE sub

\* closeClient: a subscription whose client is still nil has nothing to close.
Closed(s) == IF s # None /\ sub[s].client = "open"
             THEN [sub EXCEPT ![s] = FreeSub]
             ELSE sub

ClosePrevious(t) ==
    /\ pc[t] = "closePrevious"
    /\ sub' = Closed(job[t].victim)
    /\ job' = [job EXCEPT ![t].victim = None]
    /\ Goto(t, "dial")
    /\ UNCHANGED <<row, cfg, apiUp, slot, calm, faults, saves>>

\* dial: NewClient, sub.client = client, Connect in the background.
Dial(t) ==
    /\ pc[t] = "dial"
    /\ IF job[t].seen \in Undialable
       THEN Goto(t, "giveBack") /\ UNCHANGED <<sub, job>>
       ELSE sub' = [sub EXCEPT ![job[t].mine].client = "open"] /\ Return(t)
    /\ UNCHANGED <<row, cfg, apiUp, slot, calm, faults, saves>>

\* Faulty variant: the reservation survives the failed dial.
GiveBack_KeepsSlot(t) ==
    /\ pc[t] = "giveBack"
    /\ Return(t)
    /\ UNCHANGED <<row, cfg, apiUp, slot, sub, calm, faults, saves>>

\* dial returned an error: the slot goes back, if it is still this one's.
GiveBack(t) ==
    /\ pc[t] = "giveBack"
    /\ slot' = IF slot = job[t].mine THEN None ELSE slot
    /\ sub' = [sub EXCEPT ![job[t].mine] = FreeSub]
    /\ Return(t)
    /\ UNCHANGED <<row, cfg, apiUp, calm, faults, saves>>

-----------------------------------------------------------------------------
(* disconnect, in its two parts, and the removal of the row. *)

Drop(t) ==
    /\ pc[t] = "drop"
    /\ job' = [job EXCEPT ![t] = [NoJob EXCEPT !.victim = slot]]
    /\ slot' = None
    /\ Goto(t, "close")
    /\ UNCHANGED <<row, cfg, apiUp, sub, calm, faults, saves>>

Close(t) ==
    /\ pc[t] = "close"
    /\ sub' = Closed(job[t].victim)
    /\ job' = [job EXCEPT ![t] = NoJob]
    /\ Goto(t, IF t = Loop THEN "idle" ELSE "remove")
    /\ UNCHANGED <<row, cfg, apiUp, slot, calm, faults, saves>>

\* The row goes, or the statement fails and the trigger stays: its slot is
\* empty until a reconcile or a save fills it again.
RemoveTrigger(t) ==
    /\ pc[t] = "remove"
    /\ \/ row' = "deleted" /\ UNCHANGED faults
       \/ Fault /\ UNCHANGED row
    /\ Goto(t, "idle")
    /\ UNCHANGED <<cfg, apiUp, slot, sub, job, calm, saves>>

-----------------------------------------------------------------------------
(* The broker and the API. *)

\* OnConnect subscribes, and the broker accepts or rejects.
Connect(s) ==
    /\ sub[s].client = "open" /\ sub[s].link = "down"
    /\ \/ sub' = [sub EXCEPT ![s].link = "accepted", ![s].failed = FALSE]
       \/ sub' = [sub EXCEPT ![s].link = "rejected", ![s].failed = TRUE]
    /\ UNCHANGED <<row, cfg, apiUp, slot, pc, job, calm, faults, saves>>

ConnectionLost(s) ==
    /\ sub[s].client = "open" /\ sub[s].link # "down"
    /\ sub' = [sub EXCEPT ![s].link = "down"]
    /\ UNCHANGED <<row, cfg, apiUp, slot, pc, job, calm, faults, saves>>

ApiOutage ==
    /\ apiUp /\ Fault
    /\ apiUp' = FALSE /\ calm' = FALSE
    /\ UNCHANGED <<row, cfg, slot, sub, pc, job, saves>>

ApiBack ==
    /\ ~apiUp
    /\ apiUp' = TRUE
    /\ UNCHANGED <<row, cfg, slot, sub, pc, job, calm, faults, saves>>

-----------------------------------------------------------------------------
Ensure(t) ==
    \/ Parse(t) \/ Refresh(t) \/ Reserve(t) \/ ClosePrevious(t) \/ Dial(t) \/ GiveBack(t)

Step(t) ==
    ReadRow(t) \/ Lease(t) \/ Ensure(t) \/ Drop(t) \/ Close(t) \/ RemoveTrigger(t)

Next ==
    \/ Wake \/ ApiOutage \/ ApiBack
    \/ \E h \in Handlers : Save(h) \/ Delete(h)
    \/ \E t \in Threads : Step(t)
    \/ \E s \in Subs : Connect(s) \/ ConnectionLost(s)

Spec == Init /\ [][Next]_vars

\* Goroutines are scheduled, the ticker ticks and the API comes back; nothing
\* is promised of the users or of the broker.
Fairness ==
    /\ WF_vars(Wake) /\ WF_vars(ApiBack)
    /\ \A t \in Threads : WF_vars(Step(t))

FairSpec == Spec /\ Fairness

-----------------------------------------------------------------------------
Quiet == \A t \in Threads : pc[t] = "idle"

Clients == {s \in Subs : sub[s].client = "open"}

\* A slot whose subscription has no client would make the loop think the
\* trigger is connected for ever (ensure: "Give the slot back").
SlotIsBacked == Quiet /\ slot # None => sub[slot].client = "open"

\* The trigger's client ID is never dialled twice at once: the comment of
\* ensure says that reserving the slot makes it impossible.
OneClient == Cardinality(Clients) <= 1

\* The reservation does so as long as all that happens is saves of an unchanged
\* configuration, next to the loop and to rejections.
OneClientWhileCalm == calm => OneClient

\* A subscription the broker has accepted is left alone as long as nothing but
\* unchanged saves happens: "leaves the existing one alone when it is already
\* healthy on the same config".
HealthyLeftAlone ==
    [][calm' /\ slot # None /\ sub[slot].link = "accepted" => slot' = slot]_vars

\* A rejected subscription is rebuilt or recovers; nothing else retries it.
RejectedIsRetried ==
    \A s \in Subs : slot = s /\ sub[s].failed ~> slot # s \/ ~sub[s].failed

\* An edit reaches the connection, whichever goroutine wins the races: the
\* slot is connected with it, or empty when it cannot be dialled.
EditTakesEffect ==
    \A c \in Configs \ Unparsable :
        row = "live" /\ cfg = c
            ~> \/ slot # None /\ sub[slot].fp.cfg = c
               \/ c \in Undialable /\ slot = None
               \/ row = "deleted" \/ cfg # c

\* A deleted trigger keeps no slot, even when a reconcile that listed it
\* before the deletion subscribes it again.
DeletedIsReleased == row = "deleted" ~> [](slot = None)
=============================================================================
