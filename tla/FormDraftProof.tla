--------------------------- MODULE FormDraftProof ---------------------------
(***************************************************************************)
(* Proofs about FormDraft.  IInv, the invariant of FormDraft.tla, is shown *)
(* to be inductive: one lemma per action (OpenFormKeeps to DieKeeps), put  *)
(* together in NextKeeps; Values, CompleteState, PendingState and the      *)
(* Row..., To... and Checkout... lemmas say pointwise what a statement     *)
(* does to a row, so that the lemmas about actions need not open records.  *)
(* The safety properties follow from IInv alone, DeadIsImmutable from IInv *)
(* and the next-state relation.                                            *)
(***************************************************************************)
EXTENDS FormDraft, TLAPS

\* The values the records of FormDraft are made of.
LEMMA Values ==
    /\ NoState \in FieldStates /\ NoState.status = "none"
    /\ \A st \in FieldStates : st.status \in {"none", "pending", "complete"}
    /\ \A st \in FieldStates :
         st.status # "none" => st.session \in Sessions /\ st.amount \in Answers
    /\ Idle \in Requests /\ Idle.at = "idle" /\ Idle.session = None
    /\ Absent \in Drafts /\ Absent.status = "absent" /\ Absent.field = NoState /\ ~Absent.live
    /\ Fresh \in Drafts /\ Fresh.status = "draft" /\ Fresh.field = NoState
    /\ NoCheckout \in Checkouts /\ NoCheckout.sid = None
    /\ ~NoCheckout.handed /\ ~NoCheckout.paid
  BY DEF NoState, FieldStates, Idle, Requests, Absent, Drafts, Fresh, NoCheckout, Checkouts

\* Completing a field state keeps its amount.
LEMMA CompleteState ==
    ASSUME NEW st \in FieldStates, NEW k \in Sessions, st.status # "none"
    PROVE  /\ Complete(st, k) \in FieldStates
           /\ Complete(st, k).status = "complete"
           /\ Complete(st, k).session = k /\ Complete(st, k).amount = st.amount
  BY DEF Complete, FieldStates, NoState

\* A pending state carries the amount of its session.
LEMMA PendingState ==
    ASSUME NEW k \in Sessions, checkout[k].amount \in Answers
    PROVE  /\ Pending(k) \in FieldStates
           /\ Pending(k).status = "pending"
           /\ Pending(k).session = k /\ Pending(k).amount = checkout[k].amount
  BY DEF Pending, FieldStates

\* What the statements do to the rows.
LEMMA RowFired ==
    ASSUME draft \in [Sids -> Drafts], NEW s \in Sids, Fired(s)
    PROVE  /\ draft' \in [Sids -> Drafts]
           /\ draft'[s].status = "fired" /\ draft'[s].field = draft[s].field
           /\ draft'[s].answers = draft[s].answers
           /\ \A x \in Sids \ {s} : draft'[x] = draft[x]
  BY DEF Fired, Drafts

\* A statement that changes the field state of one row.
LEMMA RowField ==
    ASSUME draft \in [Sids -> Drafts], NEW s \in Sids, NEW st \in FieldStates,
           SetFieldState(s, st)
    PROVE  /\ draft' \in [Sids -> Drafts]
           /\ draft'[s].status = draft[s].status /\ draft'[s].field = st
           /\ \A x \in Sids \ {s} : draft'[x] = draft[x]
  BY DEF SetFieldState, Drafts

\* A request that claimed a draft goes on to fire it.
LEMMA ToFire ==
    ASSUME req \in [Tabs -> Requests], NEW t \in Tabs,
           req' = [req EXCEPT ![t].at = "fire"]
    PROVE  req' \in [Tabs -> Requests]
  BY DEF Requests

\* Setting a flag of a checkout session.
LEMMA CheckoutHanded ==
    ASSUME checkout \in [Sessions -> Checkouts], NEW k \in Sessions,
           checkout' = [checkout EXCEPT ![k].handed = TRUE]
    PROVE  /\ checkout' \in [Sessions -> Checkouts]
           /\ checkout'[k].sid = checkout[k].sid /\ checkout'[k].amount = checkout[k].amount
           /\ checkout'[k].handed /\ checkout'[k].paid = checkout[k].paid
           /\ \A x \in Sessions \ {k} : checkout'[x] = checkout[x]
  BY DEF Checkouts

\* A session that is paid keeps its draft and its amount.
LEMMA CheckoutPaid ==
    ASSUME checkout \in [Sessions -> Checkouts], NEW k \in Sessions,
           checkout' = [checkout EXCEPT ![k].paid = TRUE]
    PROVE  /\ checkout' \in [Sessions -> Checkouts]
           /\ checkout'[k].sid = checkout[k].sid /\ checkout'[k].amount = checkout[k].amount
           /\ checkout'[k].paid /\ checkout'[k].handed = checkout[k].handed
           /\ \A x \in Sessions \ {k} : checkout'[x] = checkout[x]
  BY DEF Checkouts

\* A statement that changes the answers of one row.
LEMMA RowAnswers ==
    ASSUME draft \in [Sids -> Drafts], NEW s \in Sids, NEW a \in Answers,
           draft' = [draft EXCEPT ![s].answers = a]
    PROVE  /\ draft' \in [Sids -> Drafts]
           /\ draft'[s].status = draft[s].status /\ draft'[s].field = draft[s].field
           /\ \A x \in Sids \ {s} : draft'[x] = draft[x]
  BY DEF Drafts

\* A row that expires.
LEMMA RowExpired ==
    ASSUME draft \in [Sids -> Drafts], NEW s \in Sids,
           draft' = [draft EXCEPT ![s].live = FALSE]
    PROVE  /\ draft' \in [Sids -> Drafts]
           /\ draft'[s].status = draft[s].status /\ draft'[s].field = draft[s].field
           /\ draft'[s].answers = draft[s].answers
           /\ \A x \in Sids \ {s} : draft'[x] = draft[x]
  BY DEF Drafts

\* What a new draft has in common for OpenForm, Reopen and Resume.
LEMMA MintKeeps ==
    ASSUME IInv, NEW t \in Tabs, Ready(t), Mint(t),
           UNCHANGED <<req, checkout, accepted, calls, carried, anonymous>>
    PROVE  IInv'
<1> USE DraftAssumption, Values DEF Answered, Ready, Fault, IInv, TypeOK, Requests, Checkouts, Writable, Claimable
<1>0. PICK s \in Sids \ minted :
         /\ minted' = minted \cup {s}
         /\ page' = [page EXCEPT ![t] = s]
         /\ \/ draft' = [draft EXCEPT ![s] = Fresh] /\ UNCHANGED faults
            \/ Fault /\ UNCHANGED draft
  BY DEF Mint
<1>1. /\ draft' \in [Sids -> Drafts]
      /\ draft'[s] \in {draft[s], Fresh}
      /\ \A x \in Sids \ {s} : draft'[x] = draft[x]
      /\ faults' \in 0 .. MaxFaults
  <2>1. CASE draft' = [draft EXCEPT ![s] = Fresh] /\ UNCHANGED faults
    BY <1>0, <2>1
  <2>2. CASE Fault /\ UNCHANGED draft
    BY <1>0, <2>2
  <2>3. QED
    BY <1>0, <2>1, <2>2
<1>2. TypeOK'
  BY <1>0, <1>1 DEF OnlyMinted, RequestFits, CheckoutFits
<1>3. OnlyMinted'
  BY <1>0, <1>1 DEF OnlyMinted, RequestFits
<1>4. RequestFits'
  BY <1>0, <1>1 DEF OnlyMinted, RequestFits, CheckoutFits, BoundTo
<1>5. OneTicket'
  BY <1>0, <1>1 DEF OnlyMinted, RequestFits, OneTicket
<1>6. StoredFits'
  BY <1>0, <1>1 DEF StoredFits, StateFits, Satisfied, RequestFits, ReadFits, CheckoutFits, BoundTo
<1>7. ReadFits'
  BY <1>0, <1>1 DEF RequestFits, StoredFits, ReadFits, StateFits, Satisfied, OnlyMinted
<1>8. CarriedFits'
  BY <1>0, <1>1 DEF RequestFits, ReadFits, CarriedFits, StateFits, Satisfied
<1>9. CheckoutFits'
  BY <1>0, <1>1 DEF CheckoutFits, OnlyMinted, RequestFits
<1>10. AcceptedIsFinal'
  BY <1>0, <1>1 DEF AcceptedIsFinal, OnlyMinted, RequestFits, OneTicket
<1>11. (Required => ~anonymous)'
  BY DEF RequestFits
<1>12. QED
  BY <1>2, <1>3, <1>4, <1>5, <1>6, <1>7, <1>8, <1>9, <1>10, <1>11 DEF IInv

\* OpenForm preserves the invariant.
LEMMA OpenFormKeeps ==
    ASSUME IInv, NEW t \in Tabs, OpenForm(t)
    PROVE  IInv'
  BY MintKeeps DEF OpenForm

\* Reopen preserves the invariant.
LEMMA ReopenKeeps ==
    ASSUME IInv, NEW t \in Tabs, NEW s \in minted, Ready(t),
           page' = [page EXCEPT ![t] = s],
           UNCHANGED <<draft, minted, req, checkout, accepted, calls, carried, anonymous, faults>>
    PROVE  IInv'
<1> USE DraftAssumption, Values DEF Answered, Ready, Fault, IInv, TypeOK, Requests, Checkouts, Writable, Claimable
<1>1. TypeOK'
  BY DEF OnlyMinted, RequestFits, CheckoutFits
<1>2. OnlyMinted'
  BY DEF OnlyMinted, RequestFits
<1>3. RequestFits'
  BY DEF OnlyMinted, RequestFits, CheckoutFits, BoundTo
<1>4. OneTicket'
  BY DEF OnlyMinted, RequestFits, OneTicket
<1>5. StoredFits'
  BY DEF StoredFits, StateFits, Satisfied, RequestFits, ReadFits, CheckoutFits, BoundTo
<1>6. ReadFits'
  BY DEF RequestFits, StoredFits, ReadFits, StateFits, Satisfied, OnlyMinted
<1>7. CarriedFits'
  BY DEF RequestFits, ReadFits, CarriedFits, StateFits, Satisfied
<1>8. CheckoutFits'
  BY DEF CheckoutFits, OnlyMinted, RequestFits
<1>9. AcceptedIsFinal'
  BY DEF AcceptedIsFinal, OnlyMinted, RequestFits, OneTicket
<1>10. (Required => ~anonymous)'
  BY DEF RequestFits
<1>11. QED
  BY <1>1, <1>2, <1>3, <1>4, <1>5, <1>6, <1>7, <1>8, <1>9, <1>10 DEF IInv

\* ResumeForm preserves the invariant.
LEMMA ResumeFormKeeps ==
    ASSUME IInv, NEW t \in Tabs, NEW s \in Sids, ResumeForm(t, s)
    PROVE  IInv'
<1>1. CASE Resumable(s)
  BY <1>1, ReopenKeeps DEF ResumeForm
<1>2. CASE ~Resumable(s)
  BY <1>2, MintKeeps DEF ResumeForm
<1>3. QED
  BY <1>1, <1>2

\* Autosave preserves the invariant.
LEMMA AutosaveKeeps ==
    ASSUME IInv, NEW t \in Tabs, NEW a \in Answers, Autosave(t, a)
    PROVE  IInv'
<1> USE DraftAssumption, Values DEF Answered, Ready, Fault, IInv, TypeOK, Requests, Checkouts, Writable, Claimable, Autosave
<1>1. /\ page[t] \in Sids /\ draft' \in [Sids -> Drafts]
      /\ draft'[page[t]].status = draft[page[t]].status
      /\ draft'[page[t]].field = draft[page[t]].field
      /\ \A x \in Sids \ {page[t]} : draft'[x] = draft[x]
  BY RowAnswers
<1>2. TypeOK'
  BY <1>1 DEF OnlyMinted, RequestFits, CheckoutFits
<1>3. OnlyMinted'
  BY <1>1 DEF OnlyMinted, RequestFits
<1>4. RequestFits'
  BY <1>1 DEF OnlyMinted, RequestFits, CheckoutFits, BoundTo
<1>5. OneTicket'
  BY <1>1 DEF OnlyMinted, RequestFits, OneTicket
<1>6. StoredFits'
  BY <1>1 DEF StoredFits, StateFits, Satisfied, RequestFits, ReadFits, CheckoutFits, BoundTo
<1>7. ReadFits'
  BY <1>1 DEF RequestFits, StoredFits, ReadFits, StateFits, Satisfied, OnlyMinted
<1>8. CarriedFits'
  BY <1>1 DEF RequestFits, ReadFits, CarriedFits, StateFits, Satisfied
<1>9. CheckoutFits'
  BY <1>1 DEF CheckoutFits, OnlyMinted, RequestFits
<1>10. AcceptedIsFinal'
  BY <1>1 DEF AcceptedIsFinal, OnlyMinted, RequestFits, OneTicket
<1>11. (Required => ~anonymous)'
  BY DEF RequestFits
<1>12. QED
  BY <1>2, <1>3, <1>4, <1>5, <1>6, <1>7, <1>8, <1>9, <1>10, <1>11 DEF IInv

\* SubmitGate preserves the invariant.
LEMMA SubmitGateKeeps ==
    ASSUME IInv, NEW t \in Tabs, SubmitGate(t)
    PROVE  IInv'
<1> USE DraftAssumption, Values DEF Answered, Ready, Fault, IInv, TypeOK, Requests, Checkouts, Writable, Claimable, Drafts
<1>1. PICK state \in FieldStates, at \in {"claim", "fire"} :
         /\ req' = [req EXCEPT ![t] = [at |-> at, seen |-> state, session |-> None]]
         /\ page[t] # None => at = "claim" /\ state = draft[page[t]].field
         /\ page[t] = None => at = "fire" /\ state = NoState
         /\ Required => Satisfied(state)
         /\ UNCHANGED <<draft, minted, page, checkout, accepted, calls, carried, anonymous, faults>>
  BY DEF SubmitGate
<1>2. TypeOK'
  BY <1>1 DEF OnlyMinted, RequestFits, CheckoutFits
<1>3. OnlyMinted'
  BY <1>1 DEF OnlyMinted, RequestFits
<1>4. RequestFits'
  BY <1>1 DEF RequestFits, BoundTo, Satisfied
<1>5. OneTicket'
  BY <1>1 DEF OnlyMinted, RequestFits, OneTicket
<1>6. StoredFits'
  BY <1>1 DEF StoredFits, StateFits, Satisfied, RequestFits, ReadFits, CheckoutFits, BoundTo
<1>7. ReadFits'
  BY <1>1 DEF RequestFits, StoredFits, ReadFits, StateFits, Satisfied, OnlyMinted
<1>8. CarriedFits'
  BY <1>1 DEF RequestFits, ReadFits, CarriedFits, StateFits, Satisfied
<1>9. CheckoutFits'
  BY <1>1 DEF CheckoutFits, OnlyMinted, RequestFits
<1>10. AcceptedIsFinal'
  BY <1>1 DEF AcceptedIsFinal, OnlyMinted, RequestFits, OneTicket
<1>11. (Required => ~anonymous)'
  BY <1>1 DEF RequestFits
<1>12. QED
  BY <1>2, <1>3, <1>4, <1>5, <1>6, <1>7, <1>8, <1>9, <1>10, <1>11 DEF IInv

\* Claim preserves the invariant.
LEMMA ClaimKeeps ==
    ASSUME IInv, NEW t \in Tabs, Claim(t)
    PROVE  IInv'
<1> USE DraftAssumption, Values DEF Answered, Ready, Fault, IInv, TypeOK, Requests, Checkouts, Writable, Claimable, Claim
<1>1. /\ page[t] \in Sids /\ draft' \in [Sids -> Drafts]
      /\ draft'[page[t]].status = "fired" /\ draft'[page[t]].field = draft[page[t]].field
      /\ \A x \in Sids \ {page[t]} : draft'[x] = draft[x]
  BY RowFired DEF RequestFits
<1>2. TypeOK'
  <2>1. req' \in [Tabs -> Requests]
    BY ToFire
  <2>2. QED
    BY <1>1, <2>1
<1>3. OnlyMinted'
  BY <1>1 DEF OnlyMinted, RequestFits
<1>4. RequestFits'
  BY <1>1 DEF OnlyMinted, RequestFits, CheckoutFits, BoundTo
<1>5. OneTicket'
  BY <1>1 DEF OnlyMinted, RequestFits, OneTicket
<1>6. StoredFits'
  BY <1>1 DEF StoredFits, StateFits, Satisfied, RequestFits, ReadFits, CheckoutFits, BoundTo
<1>7. ReadFits'
  BY <1>1 DEF RequestFits, StoredFits, ReadFits, StateFits, Satisfied, OnlyMinted
<1>8. CarriedFits'
  BY <1>1 DEF RequestFits, ReadFits, CarriedFits, StateFits, Satisfied
<1>9. CheckoutFits'
  BY <1>1 DEF CheckoutFits, OnlyMinted, RequestFits
<1>10. AcceptedIsFinal'
  BY <1>1 DEF AcceptedIsFinal, OnlyMinted, RequestFits, OneTicket
<1>11. (Required => ~anonymous)'
  BY DEF RequestFits
<1>12. QED
  BY <1>2, <1>3, <1>4, <1>5, <1>6, <1>7, <1>8, <1>9, <1>10, <1>11 DEF IInv

\* ClaimNothing preserves the invariant.
LEMMA ClaimNothingKeeps ==
    ASSUME IInv, NEW t \in Tabs, ClaimNothing(t)
    PROVE  IInv'
<1> USE DraftAssumption, Values DEF Answered, Ready, Fault, IInv, TypeOK, Requests, Checkouts, Writable, Claimable, ClaimNothing, Drafts
<1>1. TypeOK'
  BY DEF OnlyMinted, RequestFits, CheckoutFits
<1>2. OnlyMinted'
  BY DEF OnlyMinted, RequestFits
<1>3. RequestFits'
  BY DEF OnlyMinted, RequestFits, CheckoutFits, BoundTo
<1>4. OneTicket'
  BY DEF OnlyMinted, RequestFits, OneTicket
<1>5. StoredFits'
  BY DEF StoredFits, StateFits, Satisfied, RequestFits, ReadFits, CheckoutFits, BoundTo
<1>6. ReadFits'
  BY DEF RequestFits, StoredFits, ReadFits, StateFits, Satisfied, OnlyMinted
<1>7. CarriedFits'
  BY DEF RequestFits, ReadFits, CarriedFits, StateFits, Satisfied
<1>8. CheckoutFits'
  BY DEF CheckoutFits, OnlyMinted, RequestFits
<1>9. AcceptedIsFinal'
  BY DEF AcceptedIsFinal, OnlyMinted, RequestFits, OneTicket
<1>10. (Required => ~anonymous)'
  BY DEF RequestFits
<1>11. QED
  BY <1>1, <1>2, <1>3, <1>4, <1>5, <1>6, <1>7, <1>8, <1>9, <1>10 DEF IInv

\* ClaimFails preserves the invariant.
LEMMA ClaimFailsKeeps ==
    ASSUME IInv, NEW t \in Tabs, ClaimFails(t)
    PROVE  IInv'
<1> USE DraftAssumption, Values DEF Answered, Ready, Fault, IInv, TypeOK, Requests, Checkouts, Writable, Claimable, ClaimFails
<1>1. /\ page[t] \in Sids /\ draft' \in [Sids -> Drafts]
      /\ draft'[page[t]].status \in {draft[page[t]].status, "fired"}
      /\ draft[page[t]].status # "draft" => draft'[page[t]] = draft[page[t]]
      /\ draft'[page[t]].field = draft[page[t]].field
      /\ \A x \in Sids \ {page[t]} : draft'[x] = draft[x]
  BY RowFired DEF RequestFits
<1>2. TypeOK'
  BY <1>1 DEF OnlyMinted, RequestFits, CheckoutFits
<1>3. OnlyMinted'
  BY <1>1 DEF OnlyMinted, RequestFits
<1>4. RequestFits'
  BY <1>1 DEF OnlyMinted, RequestFits, CheckoutFits, BoundTo
<1>5. OneTicket'
  BY <1>1 DEF OnlyMinted, RequestFits, OneTicket
<1>6. StoredFits'
  BY <1>1 DEF StoredFits, StateFits, Satisfied, RequestFits, ReadFits, CheckoutFits, BoundTo
<1>7. ReadFits'
  BY <1>1 DEF RequestFits, StoredFits, ReadFits, StateFits, Satisfied, OnlyMinted
<1>8. CarriedFits'
  BY <1>1 DEF RequestFits, ReadFits, CarriedFits, StateFits, Satisfied
<1>9. CheckoutFits'
  BY <1>1 DEF CheckoutFits, OnlyMinted, RequestFits
<1>10. AcceptedIsFinal'
  BY <1>1 DEF AcceptedIsFinal, OnlyMinted, RequestFits, OneTicket
<1>11. (Required => ~anonymous)'
  BY DEF RequestFits
<1>12. QED
  BY <1>2, <1>3, <1>4, <1>5, <1>6, <1>7, <1>8, <1>9, <1>10, <1>11 DEF IInv

\* Fire preserves the invariant.
LEMMA FireKeeps ==
    ASSUME IInv, NEW t \in Tabs, Fire(t)
    PROVE  IInv'
<1> USE DraftAssumption, Values DEF Answered, Ready, Fault, IInv, TypeOK, Requests, Checkouts, Writable, Claimable, Fire, Drafts
<1>1. TypeOK'
  <2>1. req' \in [Tabs -> Requests]
    OBVIOUS
  <2>2. calls' \in [Sids -> Nat] /\ carried' \in [Sids -> FieldStates] /\ accepted' \subseteq Sids
    <3>1. CASE page[t] = None
      BY <3>1
    <3>2. CASE page[t] # None
      <4>1. page[t] \in Sids /\ req[t].seen \in FieldStates
        BY <3>2
      <4>2. calls' = [calls EXCEPT ![page[t]] = calls[page[t]] + 1]
        BY <3>2
      <4>3. carried' = [carried EXCEPT ![page[t]] = req[t].seen]
        BY <3>2
      <4>4. accepted' = accepted \cup {page[t]}
        BY <3>2
      <4>5. QED
        BY <4>1, <4>2, <4>3, <4>4
    <3>3. QED
      BY <3>1, <3>2
  <2>3. anonymous' \in BOOLEAN
    OBVIOUS
  <2>4. QED
    BY <2>1, <2>2, <2>3
<1>2. OnlyMinted'
  BY DEF OnlyMinted, RequestFits
<1>3. RequestFits'
  BY DEF OnlyMinted, RequestFits, CheckoutFits, BoundTo
<1>4. OneTicket'
  BY DEF OnlyMinted, RequestFits, OneTicket
<1>5. StoredFits'
  BY DEF StoredFits, StateFits, Satisfied, RequestFits, ReadFits, CheckoutFits, BoundTo
<1>6. ReadFits'
  BY DEF RequestFits, StoredFits, ReadFits, StateFits, Satisfied, OnlyMinted
<1>7. CarriedFits'
  BY DEF RequestFits, ReadFits, CarriedFits, StateFits, Satisfied
<1>8. CheckoutFits'
  BY DEF CheckoutFits, OnlyMinted, RequestFits
<1>9. AcceptedIsFinal'
  BY DEF AcceptedIsFinal, OnlyMinted, RequestFits, OneTicket
<1>10. (Required => ~anonymous)'
  BY DEF RequestFits
<1>11. QED
  BY <1>1, <1>2, <1>3, <1>4, <1>5, <1>6, <1>7, <1>8, <1>9, <1>10 DEF IInv

\* CreateIntent preserves the invariant.
LEMMA CreateIntentKeeps ==
    ASSUME IInv, NEW t \in Tabs, NEW k \in Sessions, CreateIntent(t, k)
    PROVE  IInv'
<1> USE DraftAssumption, Values DEF Answered, Ready, Fault, IInv, TypeOK, Requests, Checkouts, Writable, Claimable, CreateIntent, Drafts
<1>1. TypeOK'
  BY DEF OnlyMinted, RequestFits, CheckoutFits
<1>2. OnlyMinted'
  BY DEF OnlyMinted, RequestFits
<1>3. RequestFits'
  BY DEF OnlyMinted, RequestFits, CheckoutFits, BoundTo
<1>4. OneTicket'
  BY DEF OnlyMinted, RequestFits, OneTicket
<1>5. StoredFits'
  BY DEF StoredFits, StateFits, Satisfied, RequestFits, ReadFits, CheckoutFits, BoundTo
<1>6. ReadFits'
  BY DEF RequestFits, StoredFits, ReadFits, StateFits, Satisfied, OnlyMinted
<1>7. CarriedFits'
  BY DEF RequestFits, ReadFits, CarriedFits, StateFits, Satisfied
<1>8. CheckoutFits'
  BY DEF CheckoutFits, OnlyMinted, RequestFits
<1>9. AcceptedIsFinal'
  BY DEF AcceptedIsFinal, OnlyMinted, RequestFits, OneTicket
<1>10. (Required => ~anonymous)'
  BY DEF RequestFits
<1>11. QED
  BY <1>1, <1>2, <1>3, <1>4, <1>5, <1>6, <1>7, <1>8, <1>9, <1>10 DEF IInv

\* RecordPending preserves the invariant.
LEMMA RecordPendingKeeps ==
    ASSUME IInv, NEW t \in Tabs, RecordPending(t)
    PROVE  IInv'
<1> USE DraftAssumption, Values DEF Answered, Ready, Fault, IInv, TypeOK, Requests, Checkouts, Writable, Claimable, RecordPending
<1>1. /\ page[t] \in Sids /\ draft' \in [Sids -> Drafts]
      /\ req[t].session \in Sessions
      /\ draft'[page[t]].status = draft[page[t]].status
      /\ \/ draft'[page[t]] = draft[page[t]]
         \/ /\ draft[page[t]].status = "draft"
            /\ draft'[page[t]].field = Pending(req[t].session)
      /\ \A x \in Sids \ {page[t]} : draft'[x] = draft[x]
      /\ checkout' \in [Sessions -> Checkouts]
      /\ \A k \in Sessions :
           /\ checkout'[k].sid = checkout[k].sid /\ checkout'[k].amount = checkout[k].amount
           /\ checkout'[k].paid = checkout[k].paid
           /\ checkout[k].handed => checkout'[k].handed
           /\ checkout'[k].handed => checkout[k].handed \/ k = req[t].session
      /\ faults' \in 0 .. MaxFaults
  BY RowField, PendingState, CheckoutHanded DEF RequestFits, Drafts
<1>2. TypeOK'
  BY <1>1 DEF OnlyMinted, RequestFits, CheckoutFits
<1>3. OnlyMinted'
  BY <1>1 DEF OnlyMinted, RequestFits
<1>4. RequestFits'
  BY <1>1 DEF OnlyMinted, RequestFits, CheckoutFits, BoundTo
<1>5. OneTicket'
  BY <1>1 DEF OnlyMinted, RequestFits, OneTicket
<1>6. StoredFits'
  <2>1. ASSUME NEW x \in Sids PROVE StateFits(x, draft[x].field)'
    <3>1. CASE draft'[x] = draft[x]
      BY <1>1, <3>1 DEF StoredFits, StateFits, Satisfied, Drafts
    <3>2. CASE x = page[t] /\ draft'[x].field = Pending(req[t].session)
      BY <1>1, <3>2, PendingState DEF RequestFits, StateFits, Satisfied
    <3>3. QED
      BY <1>1, <3>1, <3>2
  <2>2. QED
    BY <2>1 DEF StoredFits
<1>7. ReadFits'
  BY <1>1 DEF RequestFits, StoredFits, ReadFits, StateFits, Satisfied, OnlyMinted
<1>8. CarriedFits'
  BY <1>1 DEF RequestFits, ReadFits, CarriedFits, StateFits, Satisfied
<1>9. CheckoutFits'
  BY <1>1 DEF CheckoutFits, OnlyMinted, RequestFits
<1>10. AcceptedIsFinal'
  BY <1>1 DEF AcceptedIsFinal, OnlyMinted, RequestFits, OneTicket
<1>11. (Required => ~anonymous)'
  BY DEF RequestFits
<1>12. QED
  BY <1>2, <1>3, <1>4, <1>5, <1>6, <1>7, <1>8, <1>9, <1>10, <1>11 DEF IInv

\* Pay preserves the invariant.
LEMMA PayKeeps ==
    ASSUME IInv, NEW k \in Sessions, Pay(k)
    PROVE  IInv'
<1> USE DraftAssumption, Values DEF Answered, Ready, Fault, IInv, TypeOK, Requests, Checkouts, Writable, Claimable, Pay
<1>1. /\ checkout' \in [Sessions -> Checkouts]
      /\ checkout[k].handed
      /\ checkout'[k].sid = checkout[k].sid /\ checkout'[k].amount = checkout[k].amount
      /\ checkout'[k].paid /\ checkout'[k].handed = checkout[k].handed
      /\ \A x \in Sessions \ {k} : checkout'[x] = checkout[x]
  BY CheckoutPaid
<1>2. TypeOK'
  BY <1>1 DEF OnlyMinted, RequestFits, CheckoutFits
<1>3. OnlyMinted'
  BY <1>1 DEF OnlyMinted, RequestFits
<1>4. RequestFits'
  BY <1>1 DEF OnlyMinted, RequestFits, CheckoutFits, BoundTo
<1>5. OneTicket'
  BY <1>1 DEF OnlyMinted, RequestFits, OneTicket
<1>6. StoredFits'
  BY <1>1 DEF StoredFits, StateFits, Satisfied, RequestFits, ReadFits, CheckoutFits, BoundTo
<1>7. ReadFits'
  BY <1>1 DEF RequestFits, StoredFits, ReadFits, StateFits, Satisfied, OnlyMinted
<1>8. CarriedFits'
  BY <1>1 DEF RequestFits, ReadFits, CarriedFits, StateFits, Satisfied
<1>9. CheckoutFits'
  BY <1>1 DEF CheckoutFits, OnlyMinted, RequestFits
<1>10. AcceptedIsFinal'
  BY <1>1 DEF AcceptedIsFinal, OnlyMinted, RequestFits, OneTicket
<1>11. (Required => ~anonymous)'
  BY DEF RequestFits
<1>12. QED
  BY <1>2, <1>3, <1>4, <1>5, <1>6, <1>7, <1>8, <1>9, <1>10, <1>11 DEF IInv

\* Return preserves the invariant.
LEMMA ReturnKeeps ==
    ASSUME IInv, NEW t \in Tabs, NEW k \in Sessions, NEW s0 \in Sids,
           ReturnFromCheckout(t, k, s0)
    PROVE  IInv'
<1> USE DraftAssumption, Values DEF Answered, Ready, Fault, IInv, TypeOK, Requests, Checkouts, Writable, Claimable, Drafts
<1>1. PICK state \in FieldStates :
         /\ req' = [req EXCEPT ![t] = [at |-> "verify", seen |-> state, session |-> k]]
         /\ page' = [page EXCEPT ![t] = s0]
         /\ checkout[k].handed /\ checkout[k].sid = s0
         /\ state = draft[s0].field /\ BoundTo(state, k)
         /\ req[t].at = "idle"
         /\ UNCHANGED <<draft, minted, checkout, accepted, calls, carried, anonymous, faults>>
  BY DEF ReturnFromCheckout, Drafts, StoredFits, StateFits, BoundTo
<1>2. TypeOK'
  BY <1>1 DEF OnlyMinted, RequestFits, CheckoutFits
<1>3. OnlyMinted'
  BY <1>1 DEF OnlyMinted, RequestFits, CheckoutFits
<1>4. RequestFits'
  BY <1>1 DEF OnlyMinted, RequestFits, CheckoutFits, BoundTo
<1>5. OneTicket'
  BY <1>1 DEF OnlyMinted, RequestFits, OneTicket
<1>6. StoredFits'
  BY <1>1 DEF StoredFits, StateFits, Satisfied, RequestFits, ReadFits, CheckoutFits, BoundTo
<1>7. ReadFits'
  <2>1. StateFits(page[t], req[t].seen)' /\ req'[t].at = "verify"
    BY <1>1 DEF StoredFits, StateFits, Satisfied
  <2>2. \A u \in Tabs \ {t} : req'[u] = req[u] /\ page'[u] = page[u]
    BY <1>1
  <2>3. ASSUME NEW u \in Tabs \ {t}, req'[u].at \in {"claim", "fire", "verify"}, page'[u] # None
        PROVE  /\ StateFits(page[u], req[u].seen)'
               /\ Required /\ req'[u].at # "verify" => Satisfied(req'[u].seen)
    BY <1>1, <2>2, <2>3 DEF ReadFits, StateFits, Satisfied
  <2>4. QED
    BY <2>1, <2>3 DEF ReadFits
<1>8. CarriedFits'
  BY <1>1 DEF RequestFits, ReadFits, CarriedFits, StateFits, Satisfied
<1>9. CheckoutFits'
  BY <1>1 DEF CheckoutFits, OnlyMinted, RequestFits
<1>10. AcceptedIsFinal'
  BY <1>1 DEF AcceptedIsFinal, OnlyMinted, RequestFits, OneTicket
<1>11. (Required => ~anonymous)'
  BY <1>1 DEF RequestFits
<1>12. QED
  BY <1>2, <1>3, <1>4, <1>5, <1>6, <1>7, <1>8, <1>9, <1>10, <1>11 DEF IInv

\* CompletePayment preserves the invariant.
LEMMA CompletePaymentKeeps ==
    ASSUME IInv, NEW t \in Tabs, CompletePayment(t)
    PROVE  IInv'
<1> USE DraftAssumption, Values DEF Answered, Ready, Fault, IInv, TypeOK, Requests, Checkouts, Writable, Claimable, CompletePayment
<1>1. /\ page[t] \in Sids /\ draft' \in [Sids -> Drafts]
      /\ req[t].session \in Sessions
      /\ draft'[page[t]].status = draft[page[t]].status
      /\ \/ draft'[page[t]] = draft[page[t]]
         \/ /\ draft[page[t]].status = "draft" /\ checkout[req[t].session].paid
            /\ draft'[page[t]].field = Complete(req[t].seen, req[t].session)
      /\ \A x \in Sids \ {page[t]} : draft'[x] = draft[x]
      /\ faults' \in 0 .. MaxFaults
  BY RowField, CompleteState DEF RequestFits, BoundTo, Drafts
<1>2. TypeOK'
  BY <1>1 DEF OnlyMinted, RequestFits, CheckoutFits
<1>3. OnlyMinted'
  BY <1>1 DEF OnlyMinted, RequestFits
<1>4. RequestFits'
  BY <1>1 DEF OnlyMinted, RequestFits, CheckoutFits, BoundTo
<1>5. OneTicket'
  BY <1>1 DEF OnlyMinted, RequestFits, OneTicket
<1>6. StoredFits'
  BY <1>1, CompleteState DEF StoredFits, StateFits, Satisfied, RequestFits, ReadFits, BoundTo
<1>7. ReadFits'
  BY <1>1 DEF RequestFits, StoredFits, ReadFits, StateFits, Satisfied, OnlyMinted
<1>8. CarriedFits'
  BY <1>1 DEF RequestFits, ReadFits, CarriedFits, StateFits, Satisfied
<1>9. CheckoutFits'
  BY <1>1 DEF CheckoutFits, OnlyMinted, RequestFits
<1>10. AcceptedIsFinal'
  BY <1>1 DEF AcceptedIsFinal, OnlyMinted, RequestFits, OneTicket
<1>11. (Required => ~anonymous)'
  BY DEF RequestFits
<1>12. QED
  BY <1>2, <1>3, <1>4, <1>5, <1>6, <1>7, <1>8, <1>9, <1>10, <1>11 DEF IInv

\* Expire preserves the invariant.
LEMMA ExpireKeeps ==
    ASSUME IInv, NEW s \in Sids, Expire(s)
    PROVE  IInv'
<1> USE DraftAssumption, Values DEF Answered, Ready, Fault, IInv, TypeOK, Requests, Checkouts, Writable, Claimable, Expire
<1>1. /\ draft' \in [Sids -> Drafts]
      /\ draft'[s].status = draft[s].status /\ draft'[s].field = draft[s].field
      /\ \A x \in Sids \ {s} : draft'[x] = draft[x]
  BY RowExpired
<1>2. TypeOK'
  BY <1>1 DEF OnlyMinted, RequestFits, CheckoutFits
<1>3. OnlyMinted'
  BY <1>1 DEF OnlyMinted, RequestFits
<1>4. RequestFits'
  BY <1>1 DEF OnlyMinted, RequestFits, CheckoutFits, BoundTo
<1>5. OneTicket'
  BY <1>1 DEF OnlyMinted, RequestFits, OneTicket
<1>6. StoredFits'
  BY <1>1 DEF StoredFits, StateFits, Satisfied, RequestFits, ReadFits, CheckoutFits, BoundTo
<1>7. ReadFits'
  BY <1>1 DEF RequestFits, StoredFits, ReadFits, StateFits, Satisfied, OnlyMinted
<1>8. CarriedFits'
  BY <1>1 DEF RequestFits, ReadFits, CarriedFits, StateFits, Satisfied
<1>9. CheckoutFits'
  BY <1>1 DEF CheckoutFits, OnlyMinted, RequestFits
<1>10. AcceptedIsFinal'
  BY <1>1 DEF AcceptedIsFinal, OnlyMinted, RequestFits, OneTicket
<1>11. (Required => ~anonymous)'
  BY DEF RequestFits
<1>12. QED
  BY <1>2, <1>3, <1>4, <1>5, <1>6, <1>7, <1>8, <1>9, <1>10, <1>11 DEF IInv

\* Purge preserves the invariant.
LEMMA PurgeKeeps ==
    ASSUME IInv, NEW s \in Sids, Purge(s)
    PROVE  IInv'
<1> USE DraftAssumption, Values DEF Answered, Ready, Fault, IInv, TypeOK, Requests, Checkouts, Writable, Claimable, Purge
<1>1. /\ draft' \in [Sids -> Drafts] /\ draft'[s] = Absent
      /\ \A x \in Sids \ {s} : draft'[x] = draft[x]
  OBVIOUS
<1>2. TypeOK'
  BY <1>1 DEF OnlyMinted, RequestFits, CheckoutFits
<1>3. OnlyMinted'
  BY <1>1 DEF OnlyMinted, RequestFits
<1>4. RequestFits'
  BY <1>1 DEF OnlyMinted, RequestFits, CheckoutFits, BoundTo
<1>5. OneTicket'
  BY <1>1 DEF OnlyMinted, RequestFits, OneTicket
<1>6. StoredFits'
  BY <1>1 DEF StoredFits, StateFits, Satisfied, RequestFits, ReadFits, CheckoutFits, BoundTo
<1>7. ReadFits'
  BY <1>1 DEF RequestFits, StoredFits, ReadFits, StateFits, Satisfied, OnlyMinted
<1>8. CarriedFits'
  BY <1>1 DEF RequestFits, ReadFits, CarriedFits, StateFits, Satisfied
<1>9. CheckoutFits'
  BY <1>1 DEF CheckoutFits, OnlyMinted, RequestFits
<1>10. AcceptedIsFinal'
  BY <1>1 DEF AcceptedIsFinal, OnlyMinted, RequestFits, OneTicket
<1>11. (Required => ~anonymous)'
  BY DEF RequestFits
<1>12. QED
  BY <1>2, <1>3, <1>4, <1>5, <1>6, <1>7, <1>8, <1>9, <1>10, <1>11 DEF IInv

\* Die preserves the invariant.
LEMMA DieKeeps ==
    ASSUME IInv, NEW t \in Tabs, Die(t)
    PROVE  IInv'
<1> USE DraftAssumption, Values DEF Answered, Ready, Fault, IInv, TypeOK, Requests, Checkouts, Writable, Claimable, Die, Drafts
<1>1. TypeOK'
  BY DEF OnlyMinted, RequestFits, CheckoutFits
<1>2. OnlyMinted'
  BY DEF OnlyMinted, RequestFits
<1>3. RequestFits'
  BY DEF OnlyMinted, RequestFits, CheckoutFits, BoundTo
<1>4. OneTicket'
  BY DEF OnlyMinted, RequestFits, OneTicket
<1>5. StoredFits'
  BY DEF StoredFits, StateFits, Satisfied, RequestFits, ReadFits, CheckoutFits, BoundTo
<1>6. ReadFits'
  BY DEF RequestFits, StoredFits, ReadFits, StateFits, Satisfied, OnlyMinted
<1>7. CarriedFits'
  BY DEF RequestFits, ReadFits, CarriedFits, StateFits, Satisfied
<1>8. CheckoutFits'
  BY DEF CheckoutFits, OnlyMinted, RequestFits
<1>9. AcceptedIsFinal'
  BY DEF AcceptedIsFinal, OnlyMinted, RequestFits, OneTicket
<1>10. (Required => ~anonymous)'
  BY DEF RequestFits
<1>11. QED
  BY <1>1, <1>2, <1>3, <1>4, <1>5, <1>6, <1>7, <1>8, <1>9, <1>10 DEF IInv

-----------------------------------------------------------------------------
\* The initial states.
LEMMA InitHolds == Init => IInv
<1> SUFFICES ASSUME Init PROVE IInv
  OBVIOUS
<1> USE DraftAssumption, Values DEF Init
<1>1. TypeOK
  <2>1. draft \in [Sids -> Drafts] /\ req \in [Tabs -> Requests]
    OBVIOUS
  <2>2. checkout \in [Sessions -> Checkouts] /\ carried \in [Sids -> FieldStates]
    OBVIOUS
  <2>3. page \in [Tabs -> Sids \cup {None}] /\ calls \in [Sids -> Nat]
    OBVIOUS
  <2>4. faults \in 0 .. MaxFaults
    OBVIOUS
  <2>5. QED
    BY <2>1, <2>2, <2>3, <2>4 DEF TypeOK
<1>2. OnlyMinted /\ RequestFits /\ OneTicket
  BY DEF OnlyMinted, RequestFits, OneTicket
<1>3. StoredFits /\ ReadFits /\ CarriedFits
  BY DEF StoredFits, ReadFits, CarriedFits, StateFits
<1>4. CheckoutFits /\ AcceptedIsFinal
  BY DEF CheckoutFits, AcceptedIsFinal
<1>5. QED
  BY <1>1, <1>2, <1>3, <1>4 DEF IInv

\* A step that changes nothing.
LEMMA Stutter == IInv /\ UNCHANGED vars => IInv'
  BY DEF vars, IInv, TypeOK, OnlyMinted, RequestFits, OneTicket, StoredFits, ReadFits,
         CarriedFits, CheckoutFits, AcceptedIsFinal, StateFits, Satisfied, BoundTo

\* Every step preserves the invariant, by the lemmas above.
LEMMA NextKeeps == IInv /\ [Next]_vars => IInv'
<1> SUFFICES ASSUME IInv, Next PROVE IInv'
  BY Stutter
<1>1. CASE \E t \in Tabs : OpenForm(t) \/ Die(t)
  BY <1>1, OpenFormKeeps, DieKeeps
<1>2. CASE \E t \in Tabs : Submit(t)
  BY <1>2, SubmitGateKeeps, ClaimKeeps, ClaimNothingKeeps, ClaimFailsKeeps, FireKeeps
     DEF Submit
<1>3. CASE \E t \in Tabs : Payment(t)
  BY <1>3, RecordPendingKeeps, CompletePaymentKeeps, CreateIntentKeeps, ReturnKeeps
     DEF Payment
<1>4. CASE \E t \in Tabs, s \in Sids : ResumeForm(t, s)
  BY <1>4, ResumeFormKeeps
<1>5. CASE \E t \in Tabs, a \in Answers : Autosave(t, a)
  BY <1>5, AutosaveKeeps
<1>6. CASE \E k \in Sessions : Pay(k)
  BY <1>6, PayKeeps
<1>7. CASE \E s \in Sids : Expire(s) \/ Purge(s)
  BY <1>7, ExpireKeeps, PurgeKeeps
<1>8. QED
  BY <1>1, <1>2, <1>3, <1>4, <1>5, <1>6, <1>7 DEF Next

\* The strengthened invariant holds for any number of tabs, drafts, checkout
\* sessions and failures.
THEOREM Invariant == Spec => []IInv
  BY InitHolds, NextKeeps, PTL DEF Spec

\* Every variable keeps its type.
THEOREM TypeCorrect == Spec => []TypeOK
  BY Invariant, PTL DEF IInv

\* FireFormDraft's promise: one submission id starts the flow at most once.
THEOREM AtMostOneFire == Spec => []FiresOnce
<1>1. IInv => FiresOnce
  BY DEF IInv, OneTicket, FiresOnce
<1>2. QED
  BY <1>1, Invariant, PTL

\* No flow starts without its required payment.
THEOREM PaidBeforeFire == Spec => []NoUnpaidFire
<1>1. IInv => NoUnpaidFire
  <2> SUFFICES ASSUME IInv, Required PROVE NoUnpaidFire
    BY DEF NoUnpaidFire
  <2>1. ~anonymous
    BY DEF IInv
  <2>2. ASSUME NEW s \in Sids, calls[s] > 0
        PROVE  /\ Satisfied(carried[s])
               /\ checkout[carried[s].session].paid
               /\ checkout[carried[s].session].sid = s
    BY <2>2 DEF IInv, CarriedFits, StateFits, Satisfied
  <2>3. QED
    BY <2>1, <2>2 DEF NoUnpaidFire
<1>2. QED
  BY <1>1, Invariant, PTL

\* A field marked complete carries what its session charged.
THEOREM ChargedAmountLocked == Spec => []LocksChargedAmount
<1>1. IInv => LocksChargedAmount
  <2> SUFFICES ASSUME IInv, NEW s \in Sids, draft[s].field.status = "complete"
               PROVE  checkout[draft[s].field.session] =
                        [sid |-> s, amount |-> draft[s].field.amount,
                         handed |-> TRUE, paid |-> TRUE]
    BY DEF LocksChargedAmount
  <2> DEFINE k == draft[s].field.session
  <2>1. k \in Sessions /\ checkout[k] \in Checkouts
    BY Values DEF IInv, TypeOK, Drafts
  <2>2. /\ checkout[k].sid = s /\ checkout[k].amount = draft[s].field.amount
        /\ checkout[k].handed /\ checkout[k].paid
    BY DEF IInv, StoredFits, StateFits, Satisfied
  <2>3. QED
    BY <2>1, <2>2 DEF Checkouts
<1>2. QED
  BY <1>1, Invariant, PTL

\* A submit that was answered with 200 leaves nothing to be fired later.
THEOREM AcceptanceIsFinal == Spec => []AcceptedIsFinal
<1>1. IInv => AcceptedIsFinal
  BY DEF IInv
<1>2. QED
  BY <1>1, Invariant, PTL

\* No step touches the answers or states of a dead row.
LEMMA DeadStays ==
    ASSUME IInv, Next, NEW s \in Sids, Dead(s), draft'[s].status # "absent"
    PROVE  draft'[s].field = draft[s].field /\ draft'[s].answers = draft[s].answers
<1> USE DEF Dead, Writable, Claimable, IInv, TypeOK
<1>1. CASE \E t \in Tabs : Mint(t)
  BY <1>1 DEF Mint, OnlyMinted
<1>2. CASE \E t \in Tabs : Claim(t) \/ ClaimFails(t)
  BY <1>2, RowFired DEF Claim, ClaimFails, RequestFits
<1>3. CASE \E t \in Tabs : RecordPending(t)
  <2> PICK t \in Tabs : RecordPending(t)
    BY <1>3
  <2>1. \/ UNCHANGED draft
        \/ Writable(page[t]) /\ SetFieldState(page[t], Pending(req[t].session))
    BY DEF RecordPending
  <2>2. QED
    BY <2>1 DEF SetFieldState, RequestFits, RecordPending
<1>4. CASE \E t \in Tabs : CompletePayment(t)
  <2> PICK t \in Tabs : CompletePayment(t)
    BY <1>4
  <2>1. \/ UNCHANGED draft
        \/ /\ Writable(page[t])
           /\ SetFieldState(page[t], Complete(req[t].seen, req[t].session))
    BY DEF CompletePayment
  <2>2. QED
    BY <2>1 DEF SetFieldState, RequestFits, CompletePayment
<1>5. CASE \E t \in Tabs, a \in Answers : Autosave(t, a)
  BY <1>5 DEF Autosave
<1>6. CASE \E x \in Sids : Expire(x)
  BY <1>6, RowExpired DEF Expire
<1>7. CASE \E x \in Sids : Purge(x)
  BY <1>7, Values DEF Purge
<1>8. CASE UNCHANGED draft
  BY <1>8
<1>9. QED
  BY <1>1, <1>2, <1>3, <1>4, <1>5, <1>6, <1>7, <1>8
     DEF Next, OpenForm, ResumeForm, Submit, Payment, SubmitGate, ClaimNothing, Fire,
         CreateIntent, Pay, ReturnFromCheckout, Die

\* SetFieldState's promise: nothing reaches a fired or expired draft.
THEOREM DeadImmutable == Spec => DeadIsImmutable
<1>1. IInv /\ [Next]_vars =>
        [\A s \in Sids :
           Dead(s) /\ draft'[s].status # "absent" =>
              draft'[s].field = draft[s].field /\ draft'[s].answers = draft[s].answers]_vars
  BY DeadStays
<1>2. QED
  BY <1>1, Invariant, PTL DEF Spec, DeadIsImmutable
=============================================================================
