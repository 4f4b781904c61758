----------------------------- MODULE FormDraft -----------------------------
(***************************************************************************)
(* The draft of a hosted form: it is minted when the form is opened,       *)
(* resumed by its submission id, autosaved, possibly paid for half way,    *)
(* and claimed once by a submit (internal/http/service.go,                 *)
(* internal/http/form_payment.go, internal/persistence/form_draft.go).     *)
(*                                                                         *)
(* A tab makes one request at a time; the statements a handler sends to    *)
(* the database are one action each, and the requests of other tabs, the   *)
(* purge and the clock come between them.  Two tabs on the same id stand   *)
(* for a double submit as well.  The form has one payment field, whose     *)
(* price depends on the answers autosaved so far.                          *)
(***************************************************************************)
EXTENDS Integers

CONSTANTS Tabs,
          Sids,         \* submission ids that can be minted
          Sessions,     \* Stripe checkout sessions that can be created
          Answers,      \* what the form can be filled in with; also its price
          Required,     \* whether the payment field is required
          None,
          AllowExpiry,  \* whether formDraftTTL can pass
          MaxFaults     \* bound on failed statements and dying handlers

ASSUME DraftAssumption ==
    /\ None \notin Sids \cup Sessions \cup Answers
    /\ Required \in BOOLEAN /\ AllowExpiry \in BOOLEAN /\ MaxFaults \in Nat

VARIABLES
    draft,      \* the rows of form_submission_draft
    minted,     \* ids handed to a page
    page,       \* page[t]: the submission id in the tab, or None
    req,        \* req[t]: the request the tab is waiting for
    checkout,   \* the checkout sessions at Stripe
    accepted,   \* ids for which a submit was answered with 200
    calls,      \* calls[s]: how often the submission was sent to the API
    carried,    \* carried[s]: the __field_states it was sent with
    anonymous,  \* whether a submit without an id started a flow
    faults

vars == <<draft, minted, page, req, checkout, accepted, calls, carried, anonymous, faults>>

NoState == [status |-> "none", session |-> None, amount |-> None]

FieldStates ==
    {NoState} \cup [status : {"pending", "complete"}, session : Sessions, amount : Answers]

Drafts == [status : {"absent", "draft", "fired"}, live : BOOLEAN,
           field : FieldStates, answers : Answers \cup {None}]

Absent == [status |-> "absent", live |-> FALSE, field |-> NoState, answers |-> None]
Fresh == [status |-> "draft", live |-> TRUE, field |-> NoState, answers |-> None]

Checkouts == [sid : Sids \cup {None}, amount : Answers \cup {None},
              handed : BOOLEAN, paid : BOOLEAN]

NoCheckout == [sid |-> None, amount |-> None, handed |-> FALSE, paid |-> FALSE]

\* at: the statement that comes next; seen: the field state read before;
\* session: the checkout session the request is about.
Requests == [at : {"idle", "claim", "fire", "record", "verify"},
             seen : FieldStates, session : Sessions \cup {None}]

Idle == [at |-> "idle", seen |-> NoState, session |-> None]

TypeOK ==
    /\ draft \in [Sids -> Drafts]
    /\ minted \subseteq Sids /\ accepted \subseteq Sids
    /\ page \in [Tabs -> Sids \cup {None}]
    /\ req \in [Tabs -> Requests]
    /\ checkout \in [Sessions -> Checkouts]
    /\ calls \in [Sids -> Nat]
    /\ carried \in [Sids -> FieldStates]
    /\ anonymous \in BOOLEAN
    /\ faults \in 0 .. MaxFaults

Init ==
    /\ draft = [s \in Sids |-> Absent]
    /\ minted = {} /\ accepted = {}
    /\ page = [t \in Tabs |-> None]
    /\ req = [t \in Tabs |-> Idle]
    /\ checkout = [k \in Sessions |-> NoCheckout]
    /\ calls = [s \in Sids |-> 0]
    /\ carried = [s \in Sids |-> NoState]
    /\ anonymous = FALSE
    /\ faults = 0

Fault == faults < MaxFaults /\ faults' = faults + 1
Ready(t) == req[t].at = "idle"
Answered(t) == req' = [req EXCEPT ![t] = Idle]

-----------------------------------------------------------------------------
(* Opening, resuming and autosaving. *)

\* handleForm without a usable submission_id: a fresh id goes into the page
\* whether or not its row could be created.
Mint(t) ==
    \E s \in Sids \ minted :
        /\ minted' = minted \cup {s}
        /\ page' = [page EXCEPT ![t] = s]
        /\ \/ draft' = [draft EXCEPT ![s] = Fresh] /\ UNCHANGED faults
           \/ Fault /\ UNCHANGED draft

OpenForm(t) ==
    /\ Ready(t)
    /\ Mint(t)
    /\ UNCHANGED <<req, checkout, accepted, calls, carried, anonymous>>

\* GetFormDraft
Resumable(s) == draft[s].status = "draft" /\ draft[s].live

\* handleForm with the submission_id of a page opened before.
ResumeForm(t, s) ==
    /\ Ready(t) /\ s \in minted
    /\ IF Resumable(s)
       THEN page' = [page EXCEPT ![t] = s] /\ UNCHANGED <<draft, minted, faults>>
       ELSE Mint(t)
    /\ UNCHANGED <<req, checkout, accepted, calls, carried, anonymous>>

\* Faulty variant: any row can be written.
Writable_Any(s) == draft[s].status # "absent"

\* The WHERE clause of SaveFormDraftPayload and SetFieldState.
Writable(s) == draft[s].status = "draft" /\ draft[s].live

Autosave(t, a) ==
    /\ Ready(t) /\ page[t] # None
    /\ Writable(page[t])
    /\ draft' = [draft EXCEPT ![page[t]].answers = a]
    /\ UNCHANGED <<minted, page, req, checkout, accepted, calls, carried, anonymous, faults>>

-----------------------------------------------------------------------------
(* submitForm *)

\* Faulty variant of isFieldStateSatisfied: a pending payment is good enough.
Satisfied_Pending(state) == state.status # "none"

Satisfied(state) == state.status = "complete"

\* GetFieldStates and the gate on what it returned.  Without an id there is
\* no state and nothing to claim.
SubmitGate(t) ==
    /\ Ready(t)
    /\ LET state == IF page[t] = None THEN NoState ELSE draft[page[t]].field IN
         /\ Required => Satisfied(state)
         /\ req' = [req EXCEPT ![t] =
                       [at |-> IF page[t] = None THEN "fire" ELSE "claim",
                        seen |-> state, session |-> None]]
    /\ UNCHANGED <<draft, minted, page, checkout, accepted, calls, carried, anonymous, faults>>

\* Faulty variant: a fired draft can be claimed again.
Claimable_Again(s) == draft[s].status # "absent"

\* FireFormDraft's WHERE clause.  No code path writes 'finalising', and the
\* expiry is not looked at.
Claimable(s) == draft[s].status = "draft"

Fired(s) == draft' = [draft EXCEPT ![s].status = "fired"]

Claim(t) ==
    /\ req[t].at = "claim" /\ Claimable(page[t])
    /\ Fired(page[t])
    /\ req' = [req EXCEPT ![t].at = "fire"]
    /\ UNCHANGED <<minted, page, checkout, accepted, calls, carried, anonymous, faults>>

\* "Already fired": answered with 200 and nothing done.
ClaimNothing(t) ==
    /\ req[t].at = "claim" /\ ~Claimable(page[t])
    /\ accepted' = accepted \cup {page[t]}
    /\ Answered(t)
    /\ UNCHANGED <<draft, minted, page, checkout, calls, carried, anonymous, faults>>

\* The statement fails, or succeeds and its answer is lost.
ClaimFails(t) ==
    /\ req[t].at = "claim" /\ Fault
    /\ \/ UNCHANGED draft
       \/ Claimable(page[t]) /\ Fired(page[t])
    /\ Answered(t)
    /\ UNCHANGED <<minted, page, checkout, accepted, calls, carried, anonymous>>

\* The answers are sanitised, the flow is started, and whatever came of it the
\* submission is accepted.
Fire(t) ==
    /\ req[t].at = "fire"
    /\ IF page[t] = None
       THEN anonymous' = TRUE /\ UNCHANGED <<accepted, calls, carried>>
       ELSE /\ calls' = [calls EXCEPT ![page[t]] = @ + 1]
            /\ carried' = [carried EXCEPT ![page[t]] = req[t].seen]
            /\ accepted' = accepted \cup {page[t]}
            /\ UNCHANGED anonymous
    /\ Answered(t)
    /\ UNCHANGED <<draft, minted, page, checkout, faults>>

-----------------------------------------------------------------------------
(* createFormPaymentIntent and completeFormPayment *)

\* Any draft that has not been fired will do, expired ones included.  The
\* price comes from the autosaved answers; without any there is none.
CreateIntent(t, k) ==
    /\ Ready(t) /\ page[t] # None
    /\ draft[page[t]].status = "draft" /\ draft[page[t]].answers # None
    /\ checkout[k] = NoCheckout
    /\ checkout' = [checkout EXCEPT ![k] =
                      [sid |-> page[t], amount |-> draft[page[t]].answers,
                       handed |-> FALSE, paid |-> FALSE]]
    /\ req' = [req EXCEPT ![t] = [at |-> "record", seen |-> NoState, session |-> k]]
    /\ UNCHANGED <<draft, minted, page, accepted, calls, carried, anonymous, faults>>

Pending(k) == [status |-> "pending", session |-> k, amount |-> checkout[k].amount]

\* SetFieldState clobbers whatever the field's state was.
SetFieldState(s, state) == draft' = [draft EXCEPT ![s].field = state]

\* Only a recorded session's URL is handed out.
RecordPending(t) ==
    /\ req[t].at = "record"
    /\ LET s == page[t]
           k == req[t].session
       IN  \/ /\ Writable(s)
              /\ SetFieldState(s, Pending(k))
              /\ checkout' = [checkout EXCEPT ![k].handed = TRUE]
              /\ UNCHANGED faults
           \/ /\ ~Writable(s)
              /\ UNCHANGED <<draft, checkout, faults>>
           \/ /\ Fault
              /\ \/ UNCHANGED draft
                 \/ Writable(s) /\ SetFieldState(s, Pending(k))
              /\ UNCHANGED checkout
    /\ Answered(t)
    /\ UNCHANGED <<minted, page, accepted, calls, carried, anonymous>>

Pay(k) ==
    /\ checkout[k].handed /\ ~checkout[k].paid
    /\ checkout' = [checkout EXCEPT ![k].paid = TRUE]
    /\ UNCHANGED <<draft, minted, page, req, accepted, calls, carried, anonymous, faults>>

\* Faulty variant: the session of the callback is not compared.
BoundTo_AnySession(state, k) == state.status = "pending" /\ k \in Sessions

BoundTo(state, k) == state.status = "pending" /\ state.session = k

\* The success URL names a draft and a session in its query, and may be loaded
\* at any time with any two of them.  Only the field's state ties the session
\* to the draft: a field that is complete already, or that waits for another
\* session, sends the browser back to the form.
ReturnFromCheckout(t, k, s) ==
    /\ Ready(t) /\ checkout[k].handed
    /\ draft[s].status # "absent"
    /\ LET state == draft[s].field IN
         /\ BoundTo(state, k)
         /\ req' = [req EXCEPT ![t] = [at |-> "verify", seen |-> state, session |-> k]]
    /\ page' = [page EXCEPT ![t] = s]
    /\ UNCHANGED <<draft, minted, checkout, accepted, calls, carried, anonymous, faults>>

\* The amount is the one read with the pending state.
Complete(state, k) == [status |-> "complete", session |-> k, amount |-> state.amount]

\* The session must be paid and the draft still open.
CompletePayment(t) ==
    /\ req[t].at = "verify"
    /\ LET s == page[t]
           k == req[t].session
           complete == Complete(req[t].seen, k)
       IN  \/ /\ checkout[k].paid /\ Writable(s)
              /\ SetFieldState(s, complete)
              /\ UNCHANGED faults
           \/ /\ ~(checkout[k].paid /\ Writable(s))
              /\ UNCHANGED <<draft, faults>>
           \/ /\ checkout[k].paid /\ Fault
              /\ \/ UNCHANGED draft
                 \/ Writable(s) /\ SetFieldState(s, complete)
    /\ Answered(t)
    /\ UNCHANGED <<minted, page, checkout, accepted, calls, carried, anonymous>>

-----------------------------------------------------------------------------
(* The clock, the hourly purge and handlers that die with their process. *)

Expire(s) ==
    /\ AllowExpiry
    /\ draft[s].live
    /\ draft' = [draft EXCEPT ![s].live = FALSE]
    /\ UNCHANGED <<minted, page, req, checkout, accepted, calls, carried, anonymous, faults>>

\* PurgeExpiredFormDrafts, whatever the status
Purge(s) ==
    /\ draft[s].status # "absent" /\ ~draft[s].live
    /\ draft' = [draft EXCEPT ![s] = Absent]
    /\ UNCHANGED <<minted, page, req, checkout, accepted, calls, carried, anonymous, faults>>

Die(t) ==
    /\ ~Ready(t) /\ Fault
    /\ Answered(t)
    /\ UNCHANGED <<draft, minted, page, checkout, accepted, calls, carried, anonymous>>

-----------------------------------------------------------------------------
Submit(t) == SubmitGate(t) \/ Claim(t) \/ ClaimNothing(t) \/ ClaimFails(t) \/ Fire(t)

Payment(t) ==
    \/ RecordPending(t) \/ CompletePayment(t)
    \/ \E k \in Sessions :
         CreateIntent(t, k) \/ \E s \in Sids : ReturnFromCheckout(t, k, s)

Next ==
    \/ \E t \in Tabs :
         \/ OpenForm(t) \/ Submit(t) \/ Payment(t) \/ Die(t)
         \/ \E s \in Sids : ResumeForm(t, s)
         \/ \E a \in Answers : Autosave(t, a)
    \/ \E k \in Sessions : Pay(k)
    \/ \E s \in Sids : Expire(s) \/ Purge(s)

Spec == Init /\ [][Next]_vars

-----------------------------------------------------------------------------
\* "A double-submit (or a payment callback) can never trigger the flow twice"
\* (form_draft.go): whatever tabs, errors, expiry and purges do.
FiresOnce == \A s \in Sids : calls[s] <= 1

\* The gate of a required payment reads a state that may have changed by the
\* time the draft is claimed; still no flow starts for a submission that was
\* not paid for, and none at all without an id.
NoUnpaidFire ==
    Required =>
        /\ ~anonymous
        /\ \A s \in Sids :
             calls[s] > 0 => /\ Satisfied(carried[s])
                             /\ checkout[carried[s].session].paid
                             /\ checkout[carried[s].session].sid = s

\* A complete field names a session of this draft that was paid, and the
\* amount that session charged, although the answers and the pending session
\* may have changed while the callback was being verified.
LocksChargedAmount ==
    \A s \in Sids :
        LET f == draft[s].field IN
        f.status = "complete" =>
            checkout[f.session] =
                [sid |-> s, amount |-> f.amount, handed |-> TRUE, paid |-> TRUE]

\* A submit is answered with 200 only once its draft can never be fired any
\* more: what the user was told is final.
AcceptedIsFinal == \A s \in accepted : draft[s].status # "draft"

Dead(s) ==
    \/ draft[s].status = "fired"
    \/ draft[s].status = "draft" /\ ~draft[s].live

\* "A fired/expired draft is immutable" (SetFieldState): late callbacks, late
\* intents and autosaves do not reach it.
DeadIsImmutable ==
    [][\A s \in Sids :
         Dead(s) /\ draft'[s].status # "absent" =>
            draft'[s].field = draft[s].field /\ draft'[s].answers = draft[s].answers]_vars

\* "The form still renders and submits" when its draft could not be stored
\* (handleForm): what is accepted starts the flow, or is about to.
AcceptedIsFired ==
    \A s \in accepted :
        calls[s] > 0 \/ \E t \in Tabs : page[t] = s /\ req[t].at = "fire"

-----------------------------------------------------------------------------
(* The inductive invariant behind the safety properties. *)

\* A page has its id from Mint, and only minted ids have left a trace.
OnlyMinted ==
    /\ \A t \in Tabs : page[t] # None => page[t] \in minted
    /\ \A s \in Sids \ minted :
         draft[s].status = "absent" /\ calls[s] = 0 /\ s \notin accepted

\* What a request is doing fits the page it came from.
RequestFits ==
    \A t \in Tabs :
        /\ req[t].at \in {"claim", "record", "verify"} => page[t] # None
        /\ req[t].at \in {"record", "verify"} =>
             /\ req[t].session # None
             /\ checkout[req[t].session].sid = page[t]
             /\ checkout[req[t].session].amount # None
        /\ req[t].at = "verify" =>
             /\ BoundTo(req[t].seen, req[t].session)
             /\ checkout[req[t].session].handed
        /\ Required /\ req[t].at = "fire" => page[t] # None

\* The claim is a ticket: it is used up by the call, and only one is sold.
OneTicket ==
    \A s \in Sids :
        /\ calls[s] <= 1
        /\ draft[s].status = "draft" =>
             calls[s] = 0 /\ \A t \in Tabs : page[t] = s => req[t].at # "fire"
        /\ \A t \in Tabs :
             page[t] = s /\ req[t].at = "fire" =>
                calls[s] = 0 /\ \A u \in Tabs : page[u] = s /\ req[u].at = "fire" => u = t

\* Field states, stored or read, carry the amount of a session of the draft.
StateFits(s, state) ==
    state.status # "none" =>
        /\ checkout[state.session].sid = s
        /\ checkout[state.session].amount = state.amount
        /\ Satisfied(state) => checkout[state.session].paid /\ checkout[state.session].handed

StoredFits == \A s \in Sids : StateFits(s, draft[s].field)

ReadFits ==
    \A t \in Tabs :
        req[t].at \in {"claim", "fire", "verify"} /\ page[t] # None =>
            /\ StateFits(page[t], req[t].seen)
            /\ Required /\ req[t].at # "verify" => Satisfied(req[t].seen)

CarriedFits ==
    \A s \in Sids :
        calls[s] > 0 =>
            /\ StateFits(s, carried[s])
            /\ Required => Satisfied(carried[s])

\* Only a session that was created can have been handed out or paid.
CheckoutFits ==
    \A k \in Sessions :
        /\ checkout[k].sid # None => checkout[k].sid \in minted /\ checkout[k].amount # None
        /\ checkout[k].handed => checkout[k].sid # None
        /\ checkout[k].paid => checkout[k].handed

IInv ==
    /\ TypeOK /\ OnlyMinted /\ RequestFits /\ OneTicket
    /\ StoredFits /\ ReadFits /\ CarriedFits /\ CheckoutFits
    /\ AcceptedIsFinal
    /\ Required => ~anonymous
=============================================================================
