------------------------------- MODULE Pollers -------------------------------
(***************************************************************************)
(* One polled trigger and the instances that poll it.  The pollers of      *)
(* Launch are one program in many copies: take the lease, ask the          *)
(* provider, compare with what trigger_state remembers, fire what is new.  *)
(* They differ in the order of these steps and in what they do when one of *)
(* them fails; a record per poller (S3, DbRow, ...) says how.              *)
(*                                                                         *)
(* There are two kinds.  A poller of kind "set" remembers every item it    *)
(* has seen; one of kind "cursor" remembers how far it has read.           *)
(*                                                                         *)
(* The state of an item at the provider is a stamp: a version (an ETag, a  *)
(* modification time, a status) for the first kind, a cursor value for the *)
(* second.  Stamps are handed out in order, as arrival times are.  An      *)
(* event is an item with a stamp; each wants one run of the flow.          *)
(***************************************************************************)
EXTENDS TriggerLease, FiniteSets

CONSTANTS Items,      \* numbers, so that a provider can order by id
          Old,        \* the items that are there before the trigger is
          MaxStamp,   \* bounds the changes at the provider
          Changing,   \* the items that change or vanish once they are there
          Limit,      \* of a query or a page
          Polled,     \* names of the pollers of this instance of the model
          SlowPolls,  \* names of those whose poll may outlast the lease
          MaxFaults   \* bounds crashes, failed calls and slow polls together

ASSUME PollersAssumption ==
    /\ Items \subseteq Nat /\ IsFiniteSet(Items) /\ Old \subseteq Items
    /\ Limit \in Nat \ {0} /\ MaxStamp \in Nat \ {0} /\ MaxFaults \in Nat
    /\ "trigger_state" \notin Instances

-----------------------------------------------------------------------------
(* The pollers of kind "set".                                              *)
(*   reads     all items, or the Limit newest                              *)
(*   leased    the lease is taken at the start of each poll                *)
(*   private   what is known is kept in the process                        *)
(*   changes   an item is compared with what is known of it                *)
(*   firesNew  an item not known before fires (unless it is the baseline)  *)
(*   changeFirst  a change fires in the first poll too                     *)
(*   edge      only every other state of an item is wanted                 *)
(*   prunes    what is no longer listed is forgotten                       *)
(*   deletes   and starts a flow of its own, unless the poll is the first  *)
(*   sentinel  when the baseline is marked as taken: last, first or none   *)
(*   failedWrite  an item that cannot be stored is skipped, left over for  *)
(*             the pruning, or fired all the same                          *)
(*   fallback  without its credential it lists another account             *)

S3Reads == "all"
S3 == [name |-> "s3", kind |-> "set", reads |-> S3Reads, leased |-> TRUE,
       private |-> FALSE, changes |-> TRUE, firesNew |-> TRUE, changeFirst |-> TRUE,
       edge |-> FALSE, prunes |-> TRUE, deletes |-> TRUE, sentinel |-> "last",
       failedWrite |-> "leftover", fallback |-> FALSE, ties |-> FALSE]

DriveReads == "newest"
DriveFallback == TRUE
Drive == [S3 EXCEPT !.name = "drive", !.reads = DriveReads, !.fallback = DriveFallback]

RdsReads == "all"
RdsEvent == [S3 EXCEPT !.name = "rds", !.reads = RdsReads, !.changes = FALSE,
                       !.deletes = FALSE, !.failedWrite = "skip"]

MailReads == "newest"
MailFallback == TRUE
Mail == [RdsEvent EXCEPT !.name = "mail", !.reads = MailReads, !.prunes = FALSE,
                         !.sentinel = "first", !.fallback = MailFallback]

Alarm == [S3 EXCEPT !.name = "alarm", !.changeFirst = FALSE, !.prunes = FALSE,
                    !.deletes = FALSE, !.failedWrite = "ignore"]

Metric == [Alarm EXCEPT !.name = "metric", !.edge = TRUE]

\* No sentinel: a status that is not known yet does not fire.
HealthCheck == [Alarm EXCEPT !.name = "health", !.firesNew = FALSE, !.changeFirst = TRUE,
                             !.sentinel = "none"]

GitReads == "all"
GitPoll == [HealthCheck EXCEPT !.name = "git", !.reads = GitReads, !.leased = FALSE,
                               !.private = TRUE]

(* The pollers of kind "cursor".                                           *)
(*   inclusive  the query includes the cursor, and the items fired at the  *)
(*              cursor are remembered                                      *)
(*   limited    a poll handles Limit items                                 *)
(*   over       the cursor may take the stamp of the item that met the cap *)
(*   ordered    the provider answers in the order of the stamps            *)
(*   baseline   the stamp the first poll starts from: the greatest listed, *)
(*              the provider's clock, or none                              *)
(*   sentinel   of its own (last), or the cursor is the sentinel, or none  *)
(*   store      the cursor is stored before or after the items are fired   *)
(*   badRead    a state that cannot be read ends the poll, or counts as    *)
(*              empty                                                      *)
(*   ties       items can share a stamp                                    *)

\* The cursor column is an auto-increment id, or a timestamp: rows can then share
\* a value, and a row that is updated is a new event.
DbRowBaseline == "greatest"
DbRowQuery == [inclusive |-> FALSE, limited |-> TRUE]
DbRow == [name |-> "dbrow", kind |-> "cursor", leased |-> TRUE, private |-> FALSE,
          inclusive |-> DbRowQuery.inclusive, limited |-> DbRowQuery.limited,
          over |-> FALSE, ordered |-> TRUE, baseline |-> DbRowBaseline, sentinel |-> "last",
          store |-> "after", badRead |-> "return", ties |-> FALSE, changes |-> FALSE]

DbRowTime == [DbRow EXCEPT !.name = "dbrowtime", !.ties = TRUE, !.changes = TRUE]

SalesforceBaseline == "greatest"
SalesforceQuery == [inclusive |-> TRUE, limited |-> TRUE]
Salesforce == [DbRow EXCEPT !.name = "salesforce", !.baseline = SalesforceBaseline,
                            !.inclusive = SalesforceQuery.inclusive,
                            !.limited = SalesforceQuery.limited, !.ties = TRUE,
                            !.changes = TRUE]

LogsPage == [limited |-> TRUE, over |-> TRUE]
Logs == [DbRow EXCEPT !.name = "logs", !.limited = LogsPage.limited, !.over = LogsPage.over,
                      !.baseline = "clock", !.sentinel = "cursor", !.ties = TRUE]

GmailHistory == [limited |-> FALSE, baseline |-> "clock"]
Gmail == [DbRow EXCEPT !.name = "gmail", !.limited = GmailHistory.limited,
                       !.baseline = GmailHistory.baseline, !.sentinel = "cursor",
                       !.store = "before", !.badRead = "forget"]

\* The mailbox of an agent: the same without a lease.
AgentMail == [Gmail EXCEPT !.name = "agentmail", !.leased = FALSE]

LinkedInReactions == [limited |-> TRUE, ordered |-> FALSE]
LinkedIn == [DbRow EXCEPT !.name = "linkedin", !.leased = FALSE, !.ties = TRUE,
                          !.limited = LinkedInReactions.limited,
                          !.ordered = LinkedInReactions.ordered,
                          !.baseline = "none", !.sentinel = "none", !.badRead = "forget"]

Profiles == {S3, Drive, RdsEvent, Mail, Alarm, Metric, HealthCheck, GitPoll,
             DbRow, DbRowTime, Salesforce, Logs, Gmail, AgentMail, LinkedIn}

-----------------------------------------------------------------------------
VARIABLES
    poller,     \* the kind of trigger this is
    source,     \* the provider: the stamp of each item, 0 not yet, -1 no more
    newest,     \* the provider's clock: the last stamp it has given
    vanished,   \* the last stamp each item has vanished with
    deleted,    \* the events whose item a flow was told is deleted
    rows,       \* trigger_state by item, or the memory of an instance
    sentinel, cursor, firedAt,  \* the other keys of trigger_state; 0 is no cursor
    job,        \* the poll each instance is in
    told,       \* the events each instance has started a flow for
    again,      \* those it has started a flow for twice
    silent,     \* the events a baseline has taken
    faults, crashes, failed, lapses

rowVars == <<rows, sentinel, cursor, firedAt>>
toldVars == <<told, again, silent>>
faultVars == <<faults, crashes, failed, lapses>>
sourceVars == <<source, newest, poller, vanished, deleted>>
vars == <<sourceVars, rowVars, job, toldVars, faultVars, leaseVars>>

Table == "trigger_state"
Stamps == 1 .. MaxStamp
Nothing == [x \in Items |-> 0]
Present(v) == {x \in Items : v[x] > 0}

Idle == [pc |-> "idle", view |-> Nothing, known |-> Nothing, first |-> FALSE,
         todo |-> {}, ids |-> {}, mark |-> 0, top |-> 0]

\* Where the known items of instance i are.
Place(i) == IF poller.private THEN i ELSE Table

Events == Items \X Stamps
Views == [Items -> -1 .. MaxStamp]
Steps == {"idle", "dead", "begun", "listed", "mark", "sift", "tell", "prune",
          "baseline", "basecursor", "baseids", "basemark", "fire", "cursor", "ids"}
Jobs == [pc : Steps, view : Views, known : [Items -> 0 .. MaxStamp], first : BOOLEAN,
         todo : SUBSET Items, ids : SUBSET Items, mark : 0 .. MaxStamp \cup Items,
         top : 0 .. MaxStamp]

TypeOK ==
    /\ LeaseTypeOK
    /\ poller \in Profiles
    /\ source \in Views /\ newest \in Stamps
    /\ vanished \in [Items -> 0 .. MaxStamp] /\ deleted \subseteq Events
    /\ rows \in [Instances \cup {Table} -> [Items -> 0 .. MaxStamp]]
    /\ sentinel \in BOOLEAN /\ cursor \in 0 .. MaxStamp /\ firedAt \subseteq Items
    /\ job \in [Instances -> Jobs]
    /\ told \in [Instances -> SUBSET Events] /\ again \subseteq Events /\ silent \subseteq Events
    /\ faults = crashes + failed + lapses /\ faults \in 0 .. MaxFaults
    /\ crashes \in Nat /\ failed \in Nat /\ lapses \in Nat

Init ==
    /\ LeaseInit
    /\ poller \in {p \in Profiles : p.name \in Polled}
    /\ source = [x \in Items |-> IF x \in Old THEN 1 ELSE 0]
    /\ newest = 1 /\ vanished = Nothing /\ deleted = {}
    /\ rows = [p \in Instances \cup {Table} |-> Nothing]
    /\ sentinel = FALSE /\ cursor = 0 /\ firedAt = {}
    /\ job = [i \in Instances |-> Idle]
    /\ told = [i \in Instances |-> {}] /\ again = {} /\ silent = {}
    /\ faults = 0 /\ crashes = 0 /\ failed = 0 /\ lapses = 0

-----------------------------------------------------------------------------
(* Helpers of the actions.                                                 *)

Goto(i, pc) == job' = [job EXCEPT ![i].pc = pc]
Quit(i) == job' = [job EXCEPT ![i] = Idle]

Failure ==
    /\ faults < MaxFaults
    /\ faults' = faults + 1 /\ failed' = failed + 1
    /\ UNCHANGED <<crashes, lapses>>

\* Trigger returned, whatever it returned: its error is only logged.
Tell(i, e) ==
    /\ told' = [told EXCEPT ![i] = @ \cup {e}]
    /\ again' = IF e \in told[i] THEN again \cup {e} ELSE again

\* Whether a statement is carried out: it is when it succeeds; when it fails,
\* it may have been, and the answer was lost.
Upsert(new, old) ==
    \/ new /\ UNCHANGED faultVars
    \/ Failure /\ (new \/ old)

Greatest(v) == IF Present(v) = {} THEN 0
               ELSE CHOOSE s \in Stamps : \E x \in Present(v) :
                        v[x] = s /\ \A y \in Present(v) : v[y] <= s

\* The first n of the set in the order of the stamps, then of the ids.
Before(v, x, y) == v[x] < v[y] \/ (v[x] = v[y] /\ x < y)
FirstOf(v, set, n) == {x \in set : Cardinality({y \in set : Before(v, y, x)}) < n}
NewestOf(v, set, n) == {x \in set : Cardinality({y \in set : Before(v, x, y)}) < n}

-----------------------------------------------------------------------------
(* The start of a poll.                                                    *)

\* A poll begins; when the lease is refused there is none.
Begin(i) ==
    /\ job[i].pc = "idle"
    /\ IF poller.leased THEN TryAcquireLease(i) ELSE UNCHANGED leaseVars
    /\ Goto(i, "begun")
    /\ UNCHANGED <<sourceVars, rowVars, toldVars, faultVars>>

\* The configuration is unusable, it is not time yet, a call or the read of
\* the state fails: each of these ends the poll.
GiveUp(i) ==
    /\ job[i].pc \in {"begun", "listed", "baseline"}
    /\ Quit(i)
    /\ UNCHANGED <<sourceVars, rowVars, toldVars, faultVars, leaseVars>>

-----------------------------------------------------------------------------
(* Pollers that remember every item.                                       *)

Only(v, set) == [x \in Items |-> IF x \in set THEN v[x] ELSE 0]

Listing ==
    IF poller.reads = "all" THEN Present(source)
    ELSE NewestOf(source, Present(source), Limit)

List(i) ==
    /\ poller.kind = "set" /\ job[i].pc = "begun"
    /\ job' = [job EXCEPT ![i].pc = "listed", ![i].view = Only(source, Listing)]
    /\ UNCHANGED <<sourceVars, rowVars, toldVars, faultVars, leaseVars>>

\* ResolveString answers the unresolved text when the API fails: the account
\* of the token endpoint is listed instead, which has none of these items.
ListElsewhere(i) ==
    /\ poller.kind = "set" /\ job[i].pc = "begun" /\ poller.fallback
    /\ Failure
    /\ Goto(i, "listed")
    /\ UNCHANGED <<sourceVars, rowVars, toldVars, leaseVars>>

\* An item that is not known, or not as it is listed.
Differs(known, view, x) == known[x] = 0 \/ (poller.changes /\ known[x] # view[x])

\* Faulty variant: the first poll is one that knows no item.
IsFirst_Empty(i) == rows[Place(i)] = Nothing

IsFirst(i) == poller.sentinel # "none" /\ ~sentinel

ReadKnown(i) ==
    /\ poller.kind = "set" /\ job[i].pc = "listed"
    /\ LET known == rows[Place(i)]
           view  == job[i].view
       IN  job' = [job EXCEPT
                ![i].known = known,
                ![i].first = IsFirst(i),
                ![i].pc = IF IsFirst(i) /\ poller.sentinel = "first" THEN "mark" ELSE "sift",
                ![i].todo = {x \in Present(view) : Differs(known, view, x)}]
    /\ UNCHANGED <<sourceVars, rowVars, toldVars, faultVars, leaseVars>>

\* The Outlook poller ends its first poll before it has begun.
MarkFirst(i) ==
    /\ job[i].pc = "mark"
    /\ Upsert(sentinel' = TRUE, UNCHANGED sentinel)
    /\ Goto(i, "sift")
    /\ UNCHANGED <<sourceVars, rows, cursor, firedAt, toldVars, leaseVars>>

Fires(i, x) ==
    /\ IF job[i].known[x] = 0 THEN poller.firesNew /\ ~job[i].first
       ELSE poller.changeFirst \/ ~job[i].first
    /\ poller.edge => job[i].view[x] % 2 = 0

Store(i, x, s) == rows' = [rows EXCEPT ![Place(i)][x] = s]

\* Faulty variant: the flow is started before the item is stored.
Sift_FiresFirst(i, x) ==
    /\ job[i].pc = "sift" /\ x \in job[i].todo
    /\ job' = [job EXCEPT ![i].todo = @ \ {x}]
    /\ IF Fires(i, x)
       THEN Tell(i, <<x, job[i].view[x]>>) /\ UNCHANGED silent
       ELSE UNCHANGED <<told, again>> /\ silent' = silent \cup {<<x, job[i].view[x]>>}
    /\ Upsert(Store(i, x, job[i].view[x]), UNCHANGED rows)
    /\ UNCHANGED <<sourceVars, sentinel, cursor, firedAt, leaseVars>>

\* An item is stored first and fires next.  The item of a failed write is left
\* for a later poll; that of a poller which ignores the error fires.
Sift(i, x) ==
    /\ job[i].pc = "sift" /\ x \in job[i].todo
    /\ LET e == <<x, job[i].view[x]>>
           Goes == job' = [job EXCEPT ![i].todo = @ \ {x},
                                      ![i].pc = IF Fires(i, x) THEN "tell" ELSE "sift",
                                      ![i].mark = IF Fires(i, x) THEN x ELSE 0]
       IN  \/ /\ Store(i, x, job[i].view[x])
              /\ Goes
              /\ silent' = IF Fires(i, x) THEN silent ELSE silent \cup {e}
              /\ UNCHANGED faultVars
           \/ /\ ~poller.private /\ Failure
              /\ Store(i, x, job[i].view[x]) \/ UNCHANGED rows
              /\ IF poller.failedWrite = "ignore" THEN Goes
                 ELSE job' = [job EXCEPT ![i].todo = @ \ {x},
                                         ![i].ids = @ \cup {x}]
              /\ UNCHANGED silent
    /\ UNCHANGED <<sourceVars, sentinel, cursor, firedAt, told, again, leaseVars>>

TellSifted(i) ==
    /\ job[i].pc = "tell"
    /\ Tell(i, <<job[i].mark, job[i].view[job[i].mark]>>)
    /\ job' = [job EXCEPT ![i].pc = "sift", ![i].mark = 0]
    /\ UNCHANGED <<sourceVars, rowVars, silent, faultVars, leaseVars>>

\* Faulty variant: an item that has changed is stored but not crossed off.
Gone_Changed(i) == {x \in Present(job[i].known) : job[i].view[x] # job[i].known[x]}

\* The known items that were not crossed off: those no longer listed and, where
\* a failed write skips the crossing off, those that could not be stored.
Gone(i) ==
    {x \in Present(job[i].known) :
        \/ job[i].view[x] <= 0
        \/ poller.failedWrite = "leftover" /\ x \in job[i].ids}

EndSift(i) ==
    /\ job[i].pc = "sift" /\ job[i].todo = {}
    /\ job' = [job EXCEPT ![i].pc = "prune", ![i].view = Nothing,
                          ![i].known = IF poller.deletes THEN Only(@, Gone(i)) ELSE Nothing,
                          ![i].ids = {},
                          ![i].todo = IF poller.prunes THEN Gone(i) ELSE {}]
    /\ UNCHANGED <<sourceVars, rowVars, toldVars, faultVars, leaseVars>>

\* Once its row is deleted the item starts a flow, and none if that failed.  (A
\* crash between the two is a lost answer followed by the crash.)
Prune(i, x) ==
    /\ job[i].pc = "prune" /\ x \in job[i].todo
    /\ \/ /\ Store(i, x, 0)
          /\ deleted' = IF poller.deletes /\ ~job[i].first
                        THEN deleted \cup {<<x, job[i].known[x]>>} ELSE deleted
          /\ UNCHANGED faultVars
       \/ /\ Failure
          /\ Store(i, x, 0) \/ UNCHANGED rows
          /\ UNCHANGED deleted
    /\ job' = [job EXCEPT ![i].todo = @ \ {x}]
    /\ UNCHANGED <<source, newest, poller, vanished, sentinel, cursor, firedAt,
                   toldVars, leaseVars>>

Finish(i) ==
    /\ job[i].pc = "prune" /\ job[i].todo = {}
    /\ IF job[i].first /\ poller.sentinel = "last"
       THEN Upsert(sentinel' = TRUE, UNCHANGED sentinel)
       ELSE UNCHANGED <<sentinel, faultVars>>
    /\ Quit(i)
    /\ UNCHANGED <<sourceVars, rows, cursor, firedAt, toldVars, leaseVars>>

-----------------------------------------------------------------------------
(* Pollers that remember how far they have read.                           *)

Query(i, mark, ids) ==
    LET Beyond == {x \in Present(source) :
                      source[x] > mark \/ (poller.inclusive /\ mark # 0 /\ source[x] = mark)}
        batch  == CASE ~poller.limited -> Beyond
                    [] poller.limited /\ poller.ordered -> FirstOf(source, Beyond, Limit)
                    [] OTHER -> Beyond \cap NewestOf(source, Present(source), Limit)
        cut    == Beyond \ batch
        next   == {source[x] : x \in FirstOf(source, cut, 1)}
    IN  \E top \in {mark} \cup (IF poller.over THEN next ELSE {}) :
            job' = [job EXCEPT
                ![i].view = source, ![i].ids = ids, ![i].mark = mark,
                ![i].top = IF poller.store = "before" THEN newest ELSE top,
                ![i].todo = {x \in batch : ~(source[x] = mark /\ x \in ids)},
                ![i].pc = IF poller.store = "before" THEN "cursor" ELSE "fire"]

Unbaselined(s, c) ==
    CASE poller.sentinel = "last" -> ~s
      [] poller.sentinel = "cursor" -> c = 0
      [] poller.sentinel = "none" -> FALSE

\* The state is read, then the provider is asked.
ReadCursor(i) ==
    /\ poller.kind = "cursor" /\ job[i].pc = "begun"
    /\ IF Unbaselined(sentinel, cursor) THEN Goto(i, "baseline") ELSE Query(i, cursor, firedAt)
    /\ UNCHANGED <<sourceVars, rowVars, toldVars, faultVars, leaseVars>>

\* A read that fails looks like an empty state.
ReadCursorFails(i) ==
    /\ poller.kind = "cursor" /\ job[i].pc = "begun" /\ poller.badRead = "forget"
    /\ Failure
    /\ IF Unbaselined(FALSE, 0) THEN Goto(i, "baseline") ELSE Query(i, 0, {})
    /\ UNCHANGED <<sourceVars, rowVars, toldVars, leaseVars>>

BaselineStamp == IF poller.baseline = "clock" THEN newest ELSE Greatest(source)

\* The ids at the boundary are a query of their own, limited and in no order.
Baseline(i) ==
    /\ job[i].pc = "baseline"
    /\ \E ids \in SUBSET {x \in Present(source) : source[x] = BaselineStamp} :
        /\ IF poller.inclusive
           THEN \/ Cardinality(ids) = Limit
                \/ Cardinality(ids) < Limit /\ \A x \in Present(source) : source[x] = BaselineStamp => x \in ids
           ELSE ids = {}
        /\ job' = [job EXCEPT ![i].pc = IF BaselineStamp = 0 THEN "basemark" ELSE "basecursor",
                              ![i].top = BaselineStamp, ![i].ids = ids]
    /\ silent' = silent \cup {<<x, source[x]>> : x \in Present(source)}
    /\ UNCHANGED <<sourceVars, rowVars, told, again, faultVars, leaseVars>>

\* The last key of the baseline but for the sentinel.
LastKey == IF poller.inclusive THEN "baseids" ELSE "basecursor"

BaselineNext(i) ==
    CASE job[i].pc = "basecursor" /\ poller.inclusive -> "baseids"
      [] job[i].pc = LastKey /\ poller.sentinel = "last" -> "basemark"
      [] OTHER -> "idle"

\* cursor, ids at the cursor, sentinel: each failure is only logged.
BaselineStores(i) ==
    /\ \/ /\ job[i].pc = "basecursor"
          /\ Upsert(cursor' = job[i].top, UNCHANGED cursor)
          /\ UNCHANGED <<firedAt, sentinel>>
       \/ /\ job[i].pc = "baseids"
          /\ Upsert(firedAt' = job[i].ids, UNCHANGED firedAt)
          /\ UNCHANGED <<cursor, sentinel>>
       \/ /\ job[i].pc = "basemark"
          /\ Upsert(sentinel' = TRUE, UNCHANGED sentinel)
          /\ UNCHANGED <<cursor, firedAt>>
    /\ IF BaselineNext(i) = "idle" THEN Quit(i) ELSE Goto(i, BaselineNext(i))
    /\ UNCHANGED <<sourceVars, rows, toldVars, leaseVars>>

Larger(a, b) == IF a < b THEN b ELSE a

\* One item of the batch, in the order of the provider; what lies behind it is
\* then behind the cursor of an unordered answer.
FireNext(i, x) ==
    /\ job[i].pc = "fire" /\ x \in job[i].todo
    /\ poller.ordered => FirstOf(job[i].view, job[i].todo, 1) = {x}
    /\ Tell(i, <<x, job[i].view[x]>>)
    /\ LET s == job[i].view[x]
       IN  job' = [job EXCEPT
            ![i].todo = {y \in @ \ {x} : poller.ordered \/ job[i].view[y] > s},
            ![i].ids = IF s > job[i].mark THEN {x} ELSE @ \cup {x},
            ![i].mark = Larger(@, s),
            ![i].top = Larger(@, s)]
    /\ UNCHANGED <<sourceVars, rowVars, silent, faultVars, leaseVars>>

\* A row that cannot be scanned ends the batch, a page that cannot be read ends
\* the poll before the cursor is stored, a message that cannot be fetched is
\* passed over.
FireCut(i, x) ==
    /\ job[i].pc = "fire" /\ x \in job[i].todo
    /\ Failure
    /\ CASE poller.name \in {"dbrow", "dbrowtime"} -> job' = [job EXCEPT ![i].todo = {}]
         [] poller.name = "logs" -> Quit(i)
         [] poller.store = "before" -> job' = [job EXCEPT ![i].todo = @ \ {x}]
         [] OTHER -> FALSE
    /\ UNCHANGED <<sourceVars, rowVars, toldVars, leaseVars>>

EndBatch(i) ==
    /\ job[i].pc = "fire" /\ job[i].todo = {}
    /\ IF poller.store = "before" \/ job[i].top = 0 THEN Quit(i) ELSE Goto(i, "cursor")
    /\ UNCHANGED <<sourceVars, rowVars, toldVars, faultVars, leaseVars>>

\* Faulty variants: the cursor moves to the end of what the provider holds, or
\* past the last item.
StoredCursor_Newest(i) == newest
StoredCursor_Past(i) == job[i].top + 1

StoredCursor(i) == job[i].top

StoreCursor(i) ==
    /\ job[i].pc = "cursor"
    /\ Upsert(cursor' = StoredCursor(i), UNCHANGED cursor)
    /\ CASE poller.store = "before" -> Goto(i, "fire")
         [] poller.inclusive -> Goto(i, "ids")
         [] OTHER -> Quit(i)
    /\ UNCHANGED <<sourceVars, rows, sentinel, firedAt, toldVars, leaseVars>>

StoreFired(i) ==
    /\ job[i].pc = "ids"
    /\ Upsert(firedAt' = job[i].ids, UNCHANGED firedAt)
    /\ Quit(i)
    /\ UNCHANGED <<sourceVars, rows, sentinel, cursor, toldVars, leaseVars>>

-----------------------------------------------------------------------------
(* The provider, the clock and the processes.                              *)

\* Items share a stamp that one of them has; an item in the very millisecond of a
\* clock that no item bears counts as later.
NextStamps(x) ==
    {s \in Stamps : /\ s \in {newest, newest + 1} /\ s # source[x]
                    /\ s > newest \/ (poller.ties /\ \E y \in Items : source[y] = s)}

Appear(x) ==
    /\ source[x] = 0 \/ (poller.changes /\ x \in Changing)
    /\ \E s \in NextStamps(x) : source' = [source EXCEPT ![x] = s] /\ newest' = s
    /\ UNCHANGED <<poller, vanished, deleted, rowVars, job, toldVars, faultVars, leaseVars>>

Vanish(x) ==
    /\ poller.kind = "set" /\ source[x] > 0 /\ x \in Changing
    /\ source' = [source EXCEPT ![x] = -1]
    /\ vanished' = [vanished EXCEPT ![x] = source[x]]
    /\ UNCHANGED <<newest, poller, deleted, rowVars, job, toldVars, faultVars, leaseVars>>

Working(i) == job[i].pc \notin {"idle", "dead"}

\* A lease that runs out during a poll is a fault: LeaseDuration is chosen
\* longer than a poll should take.
Tick ==
    /\ leaseTtl >= 0
    /\ LeaseTick
    /\ IF leaseTtl = 0 /\ \E i \in Instances : Working(i) /\ leaseOwner = i
       THEN /\ faults < MaxFaults /\ poller.name \in SlowPolls
            /\ faults' = faults + 1 /\ lapses' = lapses + 1
            /\ UNCHANGED <<crashes, failed>>
       ELSE UNCHANGED faultVars
    /\ UNCHANGED <<sourceVars, rowVars, job, toldVars>>

\* The process dies; the one that replaces it is another instance.
Crash(i) ==
    /\ job[i].pc # "dead" /\ faults < MaxFaults
    /\ faults' = faults + 1 /\ crashes' = crashes + 1
    /\ job' = [job EXCEPT ![i] = [Idle EXCEPT !.pc = "dead"]]
    /\ rows' = [rows EXCEPT ![i] = Nothing]
    /\ UNCHANGED <<sourceVars, sentinel, cursor, firedAt, toldVars, failed, lapses, leaseVars>>

-----------------------------------------------------------------------------
Next ==
    \/ \E i \in Instances :
        \/ Begin(i) \/ GiveUp(i) \/ Crash(i)
        \/ List(i) \/ ListElsewhere(i) \/ ReadKnown(i) \/ MarkFirst(i)
        \/ TellSifted(i) \/ EndSift(i) \/ Finish(i)
        \/ ReadCursor(i) \/ ReadCursorFails(i) \/ Baseline(i) \/ BaselineStores(i)
        \/ EndBatch(i) \/ StoreCursor(i) \/ StoreFired(i)
        \/ \E x \in Items : Sift(i, x) \/ Prune(i, x) \/ FireNext(i, x) \/ FireCut(i, x)
    \/ \E x \in Items : Appear(x) \/ Vanish(x)
    \/ Tick

Spec == Init /\ [][Next]_vars

-----------------------------------------------------------------------------
(* What the pollers are for.                                               *)

\* The items never were more than the provider lists at once.
Fits ==
    \/ poller.kind = "set" /\ poller.reads = "all"
    \/ Cardinality({x \in Items : source[x] # 0}) <= Limit

\* What was there before the trigger never fires, although a crash may end the
\* first poll anywhere and a second instance repeats it.  (The Outlook poller
\* marks its baseline first and is exempt from crashes, the LinkedIn poller
\* has no baseline.)
ExistingStaysSilent ==
    /\ Fits /\ lapses = 0 /\ failed = 0
    /\ crashes > 0 => poller.sentinel # "first"
    /\ poller.name # "linkedin"
    => \A i \in Instances : told[i] \cap (Old \X {1}) = {}

StoresFirst == IF poller.kind = "set" THEN poller.failedWrite # "ignore" ELSE poller.store = "before"

\* No event starts two flows, not on two instances either: whatever fails when
\* the item is stored first, and without failures when it is stored last.
FiredOnce ==
    /\ poller.leased /\ lapses = 0 /\ Fits
    /\ failed > 0 => StoresFirst /\ poller.kind = "set" /\ ~poller.fallback
    /\ crashes > 0 => StoresFirst
    => /\ again = {}
       /\ \A i, k \in Instances : i # k => told[i] \cap told[k] = {}

Wanted(x) == poller.kind = "set" => (poller.edge => source[x] % 2 = 0)

Settled(x) ==
    \/ <<x, source[x]>> \in silent
    \/ \E i \in Instances : <<x, source[x]>> \in told[i]
    \/ ~Wanted(x)

\* The stored state claims that the event has been dealt with.
Recorded(x) ==
    CASE poller.kind = "set" -> rows[Table][x] = source[x]
      [] poller.kind = "cursor" /\ ~poller.inclusive -> source[x] <= cursor
      [] OTHER -> source[x] < cursor \/ (source[x] = cursor /\ x \in firedAt)

\* Of several items that share a stamp an exclusive query is sure to find one:
\* the row that falls outside the batch, or appears once the batch was read, lies
\* at the stored cursor and is not listed again.
Overtaken(x) ==
    /\ poller.ties /\ ~poller.inclusive
    /\ \E e \in silent \cup UNION {told[i] : i \in Instances} : e[2] = source[x]

Accounted == \A x \in Present(source) : Recorded(x) => Settled(x) \/ Overtaken(x)

\* A flow is told of a deletion only where something was deleted: the item has
\* vanished since it had the stamp that was stored of it, however many crashed
\* polls and changes lie between.  (When a statement fails the S3 and the Drive
\* poller take an item they could not store for a deleted one, and the Drive
\* poller one that the account it falls back to does not have.)
DeletedIsGone ==
    lapses = 0 /\ failed = 0 /\ Fits => \A e \in deleted : vanished[e[1]] >= e[2]

\* What the state says was handled has started a flow or belongs to the
\* baseline, but for items that are Overtaken.  A poller that stores last keeps
\* this through every crash, failed statement and slow poll; one that stores
\* first, or in two statements, is held to it between polls that went well.
NothingSkipped ==
    /\ poller.name # "linkedin" /\ (poller.name = "logs" => Fits)
    /\ \/ poller.kind = "cursor" /\ poller.store = "after" /\ ~poller.inclusive
       \/ faults = 0 /\ \A i \in Instances : ~Working(i)
    => Accounted
=============================================================================
