----------------------------- MODULE PollersProof -----------------------------
(***************************************************************************)
(* Proofs about Pollers, for any instances, items, limits and faults, and  *)
(* any of the pollers: what was there before the trigger never fires, an   *)
(* event starts one flow, and what the stored state claims was handled     *)
(* was.                                                                    *)
(*                                                                         *)
(* Both kinds of poller rest on the same two facts.  As long as no lease   *)
(* has lapsed, one instance at most polls (UnderLease).  And stamps only   *)
(* grow, so that what a poll has listed is never ahead of the provider     *)
(* (Bounded, Grown, Later).  For pollers that remember items the invariant *)
(* compares the listing of the poll under way with the stored items; for   *)
(* those that remember a cursor it says what the cursor, and the batch     *)
(* that will move it, have left behind.                                    *)
(***************************************************************************)
EXTENDS Pollers, FiniteSetTheorems, TLAPS

SetSteps == {"listed", "mark", "sift", "tell", "prune"}
BaseSteps == {"baseline", "basecursor", "baseids", "basemark"}
CursorSteps == BaseSteps \cup {"fire", "cursor", "ids"}

IsTold(e) == \E i \in Instances : e \in told[i]
Handled(e) == e \in silent \/ IsTold(e)

-----------------------------------------------------------------------------
(* What holds of every poller.                                             *)

\* A poll that knows nothing yet.
Fresh(j) == j.view = Nothing /\ j.ids = {} /\ j.todo = {} /\ ~j.first /\ j.top = 0

\* The steps of a poll are those of its kind.
PhasesOf(j) ==
    /\ j.pc \in SetSteps => poller.kind = "set"
    /\ j.pc \in CursorSteps => poller.kind = "cursor"
    /\ j.pc = "mark" => poller.sentinel = "first" /\ j.first
    /\ j.first => poller.kind = "set" /\ poller.sentinel # "none"
    /\ j.pc = "listed" => j.ids = {} /\ \A x \in Items : j.view[x] >= 0
    /\ j.pc \in {"mark", "sift", "tell"} =>
          /\ \A x \in j.todo \cup j.ids : j.view[x] > 0
          /\ j.todo \cap j.ids = {}
    /\ j.pc = "tell" =>
          j.mark \in Items /\ j.view[j.mark] > 0 /\ j.mark \notin j.todo \cup j.ids
    /\ j.pc = "prune" /\ poller.deletes => \A x \in j.todo : j.known[x] > 0
    /\ j.pc \in {"fire", "cursor"} => \A x \in j.todo : j.view[x] > 0
    /\ j.pc \in {"idle", "begun"} => Fresh(j)

Phases == \A i \in Instances : PhasesOf(job[i])

\* Who polls holds the lease.
UnderLease ==
    poller.leased /\ lapses = 0 =>
        \A i \in Instances : Working(i) => leaseOwner = i /\ leaseTtl >= 0

\* No stamp is ahead of the provider's clock.
Bounded ==
    /\ \A x \in Items : source[x] <= newest
    /\ \A i \in Instances : /\ \A x \in Items : job[i].view[x] <= newest
                            /\ job[i].top <= newest
    /\ \A p \in Instances \cup {Table}, x \in Items : rows[p][x] <= newest
    /\ \A x \in Items, s \in Stamps : Handled(<<x, s>>) => s <= newest
    /\ cursor <= newest

-----------------------------------------------------------------------------
(* Pollers that remember every item.                                       *)

\* Nobody else writes what an instance has read.
Sole == poller.private \/ lapses = 0

\* Stamps grow: what is stored, listed or known is not later than what comes
\* after it.
GrownOf(i, j) ==
    /\ \A x \in Items : source[x] > 0 => j.view[x] <= source[x]
    /\ Sole => \A x \in Items : j.view[x] > 0 =>
          /\ j.pc = "listed" => rows[Place(i)][x] <= j.view[x]
          /\ j.pc \in {"mark", "sift", "tell"} => j.known[x] <= j.view[x]

Grown ==
    /\ \A p \in Instances \cup {Table}, x \in Items : source[x] > 0 => rows[p][x] <= source[x]
    /\ \A i \in Instances : GrownOf(i, job[i])

\* When an event is to start one flow.
OnceCase ==
    /\ poller.leased /\ lapses = 0 /\ Fits
    /\ failed > 0 => StoresFirst /\ ~poller.fallback
    /\ crashes > 0 => StoresFirst

\* Whoever lists an item that has fired finds it stored.
RecognisedOf(j) ==
    /\ j.pc \in {"listed", "mark", "sift", "tell"} =>
          \A x \in Items : IsTold(<<x, source[x]>>) => j.view[x] = source[x]
    /\ j.pc = "listed" =>
          \A x \in Items : IsTold(<<x, j.view[x]>>) => rows[Table][x] = j.view[x]
    /\ j.pc \in {"mark", "sift", "tell"} => \A x \in j.todo : ~IsTold(<<x, j.view[x]>>)
    /\ j.pc = "tell" => /\ ~IsTold(<<j.mark, j.view[j.mark]>>)
                        /\ rows[Table][j.mark] = j.view[j.mark]
    /\ j.pc \in {"mark", "sift", "tell"} /\ poller.failedWrite = "leftover" =>
          \A x \in j.ids : ~IsTold(<<x, j.view[x]>>)
    /\ j.pc = "prune" => \A x \in j.todo : ~IsTold(<<x, source[x]>>)

Recognised ==
    OnceCase =>
        /\ \A x \in Items : IsTold(<<x, source[x]>>) => rows[Table][x] = source[x]
        /\ \A i \in Instances : RecognisedOf(job[i])

NoneTwice ==
    /\ again = {}
    /\ \A i, k \in Instances : i # k => told[i] \cap told[k] = {}

\* When what was there before is to stay silent.
SilentCase ==
    /\ Fits /\ lapses = 0 /\ failed = 0
    /\ crashes > 0 => poller.sentinel # "first"
    /\ poller.name # "linkedin"

Existing(x) == x \in Old /\ source[x] = 1

Silent == SilentCase => \A x \in Old : ~IsTold(<<x, 1>>)

\* The first poll stores what was there before it ends, and a later one finds it.
BaselinedOf(j) ==
    /\ j.pc \in SetSteps => j.ids = {}
    /\ j.pc \in {"listed", "mark", "sift", "tell"} =>
          \A x \in Items : Existing(x) => j.view[x] = 1
    /\ j.pc = "listed" /\ sentinel =>
          \A x \in Old : j.view[x] = 1 => rows[Table][x] = 1
    /\ j.pc \in {"mark", "sift", "tell"} =>
          /\ j.first => \A x \in Items : Existing(x) => x \in j.todo \/ rows[Table][x] = 1
          /\ ~j.first /\ poller.sentinel # "none" =>
                \A x \in Old : j.view[x] = 1 => x \notin j.todo
          /\ \A x \in j.todo : j.view[x] = 1 => j.known[x] = 0
    /\ j.pc = "tell" => ~(j.mark \in Old /\ j.view[j.mark] = 1)
    /\ j.pc = "prune" =>
          /\ \A x \in j.todo : ~Existing(x)
          /\ j.first => \A x \in Items : Existing(x) => rows[Table][x] = 1

\* The Outlook poller marks its first poll when it begins, and what it has left.
LeftOf(x, j) ==
    poller.sentinel = "first" /\ j.pc \in {"sift", "tell"} /\ j.first /\ x \in j.todo

Baselined ==
    /\ poller.sentinel = "none" => ~sentinel
    /\ SilentCase =>
        /\ sentinel => \A x \in Items : Existing(x) =>
              rows[Table][x] = 1 \/ \E i \in Instances : LeftOf(x, job[i])
        /\ \A i \in Instances : BaselinedOf(job[i])

\* What is stored was fired, taken for the baseline, or is about to fire.
AboutTo(x, s, j) == j.pc = "tell" /\ j.mark = x /\ j.view[x] = s

StoredIsHandled ==
    faults = 0 =>
        \A x \in Items : rows[Table][x] > 0 =>
            \/ Handled(<<x, rows[Table][x]>>)
            \/ \E i \in Instances : AboutTo(x, rows[Table][x], job[i])

SetInv == Grown /\ Recognised /\ Baselined /\ StoredIsHandled

-----------------------------------------------------------------------------
(* Pollers that remember how far they have read.                           *)

\* The clock stands at a stamp that was given to an item, and nothing vanishes.
SourceFits ==
    /\ \A x \in Items : source[x] >= 0 /\ (x \in Old => source[x] >= 1)
    /\ (\E x \in Items : source[x] > 0) => \E x \in Items : source[x] = newest
    /\ ~poller.ties => \A x, y \in Items :
          source[x] = source[y] /\ source[x] > 0 => x = y \/ (x \in Old /\ source[x] = 1)

Asked(j) == j.pc \in {"fire", "cursor"}

\* A poll that has asked for items has a baseline behind it.
HasBaselineOf(j) ==
    /\ Asked(j) \/ j.pc = "ids" => ~Unbaselined(sentinel, cursor)
    /\ Asked(j) /\ poller.sentinel = "cursor" => j.top >= 1
    /\ j.pc = "basecursor" => j.top >= 1
    /\ j.pc \in {"baseids", "basemark"} => poller.sentinel = "last"
    /\ j.pc \in {"baseids", "ids"} => poller.inclusive

HasBaseline ==
    poller.name # "linkedin" =>
        /\ \A i \in Instances : HasBaselineOf(job[i])
        /\ (\E x \in Items, s \in Stamps : IsTold(<<x, s>>)) => ~Unbaselined(sentinel, cursor)

\* What a poll has listed: an item that has changed since is behind it.
LaterOf(j) ==
    Asked(j) =>
        /\ \A x \in Items : j.view[x] >= 0
        /\ \A x \in Items : j.view[x] # source[x] =>
              \A y \in Items : /\ j.view[y] <= source[x]
                               /\ ~poller.ties => j.view[y] < source[x]
        /\ ~poller.ties => \A x, y \in Items :
              j.view[x] = j.view[y] /\ j.view[x] > 0 => x = y \/ (x \in Old /\ j.view[x] = 1)
        /\ poller.inclusive => j.top = j.mark

Later == poller.name # "linkedin" => \A i \in Instances : LaterOf(job[i])

\* A cursor c, and the ids at it, leave behind what was fired.
Knows(c, ids) ==
    \A x \in Items, s \in Stamps : IsTold(<<x, s>>) =>
        s <= c /\ (poller.inclusive /\ s = c => x \in ids)

CursorOnce ==
    /\ poller.leased /\ lapses = 0 /\ failed = 0
    /\ crashes > 0 => poller.store = "before"

\* What was fired lies behind the cursor, or will, and is not in the batch.
PassedOf(j) ==
    /\ j.pc = "cursor" \/ (j.pc = "fire" /\ poller.store = "after") => Knows(j.top, j.ids)
    /\ j.pc = "ids" => Knows(cursor, j.ids)
    /\ poller.store = "before" =>
          /\ j.pc = "fire" => \A x \in j.todo : j.view[x] <= cursor
          /\ j.pc = "cursor" => \A x \in j.todo : j.view[x] <= j.top
    /\ Asked(j) => \A x \in j.todo : /\ ~IsTold(<<x, j.view[x]>>)
                                     /\ poller.inclusive => j.view[x] >= j.mark
    /\ j.pc \in BaseSteps =>
          \A x \in Items, s \in Stamps : ~IsTold(<<x, s>>)

\* A poll that has yet to store the cursor.
Storing(j) == poller.store = "after" /\ j.pc \in {"fire", "cursor", "ids"}

Passed ==
    CursorOnce =>
        /\ Knows(cursor, firedAt) \/ \E i \in Instances : Storing(job[i])
        /\ \A i \in Instances : PassedOf(job[i])

\* A cursor, with the ids at it, that leaves behind what was there before.
Covers(c, ids) ==
    /\ Old # {} => c >= 1
    /\ poller.inclusive => c > 1 \/ \A x \in Items : Existing(x) => x \in ids

StartedOf(j) ==
    /\ Asked(j) => \A x \in j.todo \cap Old : j.view[x] # 1
    /\ Asked(j) /\ poller.sentinel = "last" => Covers(j.top, j.ids) /\ cursor <= j.top
    /\ j.pc = "basecursor" => Covers(j.top, j.ids)
    /\ j.pc \in {"ids", "baseids"} => Covers(cursor, j.ids)
    /\ j.pc = "basemark" => Covers(cursor, firedAt)
    /\ j.pc \in BaseSteps /\ poller.sentinel = "last" => ~sentinel

Started ==
    SilentCase =>
        /\ poller.sentinel = "last" /\ sentinel => Covers(cursor, firedAt)
        /\ \A i \in Instances : StartedOf(job[i])

\* What lies at or behind c was dealt with.
Behind(c) ==
    \A x \in Items : source[x] > 0 /\ source[x] <= c =>
        Handled(<<x, source[x]>>) \/ Overtaken(x)

\* Of the items that share a stamp the batch may hold some.
Precedes(s, t) == s < t \/ (poller.ties /\ s = t)

\* A listed item that was not dealt with is in the batch, or comes after it.
InOrder(j) ==
    \A x \in Items : j.view[x] > 0 /\ j.view[x] = source[x] =>
        \/ Handled(<<x, source[x]>>) \/ Overtaken(x)
        \/ x \in j.todo
        \/ \A y \in j.todo : Precedes(j.view[y], j.view[x])

TrailsOf(j) ==
    /\ j.pc \in {"fire", "cursor", "basecursor"} => Behind(j.top)
    /\ j.pc = "fire" => InOrder(j)

Exclusive == poller.name \in {"dbrow", "dbrowtime", "logs"} /\ (poller.name = "logs" => Fits)

\* The poller of rows with ids baselines at the greatest value, so the items of the first
\* stamp are those it found.
FirstTaken ==
    poller.name = "dbrow" =>
        /\ sentinel \/ (\E i \in Instances : job[i].pc \in {"basecursor", "basemark"}) =>
              \A x \in Old : source[x] = 1 => <<x, 1>> \in silent
        /\ \A x \in Items : source[x] = 1 => x \in Old

CursorTrails ==
    Exclusive =>
        /\ Behind(cursor)
        /\ \A i \in Instances : TrailsOf(job[i])
        /\ FirstTaken

\* The same for a query that includes the cursor.
Told(c, ids) ==
    /\ \A x \in Items : source[x] > 0 /\ source[x] < c => Handled(<<x, source[x]>>)
    /\ \A x \in ids : c > 0 => Handled(<<x, c>>)

MeetsOf(j) ==
    /\ Asked(j) \/ j.pc = "basecursor" => Told(j.top, j.ids)
    /\ j.pc \in {"ids", "baseids"} => Told(cursor, j.ids)
    /\ j.pc = "fire" =>
          /\ \A x \in j.todo : j.view[x] >= j.mark
          /\ \A x \in Items : j.view[x] > 0 /\ j.view[x] = source[x] =>
                \/ Handled(<<x, source[x]>>) \/ x \in j.todo
                \/ \A y \in j.todo : j.view[y] <= j.view[x]

CursorMeets ==
    poller.inclusive /\ faults = 0 =>
        /\ Told(cursor, firedAt) \/ \E i \in Instances : job[i].pc \in {"ids", "baseids"}
        /\ \A i \in Instances : MeetsOf(job[i])

\* Where the cursor is stored first, what it leaves behind is in a batch.
InBatch(x, j) == Asked(j) /\ x \in j.todo /\ j.view[x] = source[x]

Taken(c) ==
    \A x \in Items : source[x] > 0 /\ source[x] <= c =>
        Handled(<<x, source[x]>>) \/ \E i \in Instances : InBatch(x, job[i])

CursorLeads ==
    poller.store = "before" /\ faults = 0 =>
        /\ Taken(cursor)
        /\ \A i \in Instances : job[i].pc \in {"cursor", "basecursor"} => Taken(job[i].top)

CursorInv ==
    /\ SourceFits /\ HasBaseline /\ Later
    /\ Passed /\ Started /\ CursorTrails /\ CursorMeets /\ CursorLeads

IInv ==
    /\ TypeOK /\ Phases /\ UnderLease /\ Bounded /\ Silent
    /\ poller.kind = "set" => SetInv
    /\ poller.kind = "cursor" => CursorInv
    /\ (poller.kind = "set" /\ OnceCase) \/ (poller.kind = "cursor" /\ CursorOnce) => NoneTwice

-----------------------------------------------------------------------------
(* The pollers that tell of deletions.                                     *)

TellsDeletions == poller.kind = "set" /\ poller.deletes /\ failed = 0 /\ lapses = 0 /\ Fits

\* What a poll knew of an item that it has not listed, or that is no longer
\* there, the item had when it vanished or before.
GoneOf(j) ==
    /\ j.pc = "listed" => \A x \in Items : j.view[x] <= 0 => rows[Table][x] <= vanished[x]
    /\ j.pc \in {"listed", "mark", "sift", "tell"} =>
          \A x \in Items : source[x] <= 0 => j.view[x] <= vanished[x]
    /\ j.pc \in {"mark", "sift", "tell"} =>
          \A x \in Items : j.view[x] <= 0 => j.known[x] <= vanished[x]
    /\ j.pc = "prune" => \A x \in j.todo : j.known[x] <= vanished[x]

GoneInv ==
    /\ \A x \in Items : vanished[x] <= newest /\ (source[x] > 0 => vanished[x] <= source[x])
    /\ poller.kind = "cursor" => deleted = {}
    /\ poller.kind = "set" /\ ~poller.deletes => deleted = {}
    /\ TellsDeletions =>
          /\ \A x \in Items : source[x] <= 0 => rows[Table][x] <= vanished[x]
          /\ \A i \in Instances : GoneOf(job[i])
          /\ \A e \in deleted : e[2] <= vanished[e[1]]

USE NoOwnerAssumption, LeaseDurationAssumption, PollersAssumption

-----------------------------------------------------------------------------
(* What the pollers have in common.                                        *)

ProfileFits(p) ==
    /\ p.kind \in {"set", "cursor"}
    /\ p.kind = "set" =>
        /\ p.reads \in {"all", "newest"} /\ p.sentinel \in {"last", "first", "none"}
        /\ p.private => ~p.leased /\ p.sentinel = "none" /\ ~p.prunes
        /\ ~p.private => p.leased
        /\ p.deletes => ~p.private /\ p.sentinel = "last"
        /\ p.sentinel = "none" => ~p.firesNew
        /\ p.failedWrite = "leftover" => p.changes
        /\ ~p.ties /\ p.name \notin {"dbrow", "dbrowtime", "logs", "linkedin"}
    /\ p.kind = "cursor" =>
        /\ p.store \in {"before", "after"} /\ ~p.private
        /\ p.sentinel \in {"last", "cursor", "none"}
        /\ p.name = "linkedin" => ~p.leased /\ ~p.inclusive /\ p.store = "after" /\ p.sentinel = "none"
        /\ p.name # "linkedin" => p.ordered /\ p.sentinel # "none"
        /\ p.sentinel = "last" => /\ p.baseline # "clock" /\ p.leased /\ p.badRead # "forget"
                                  /\ p.store = "after"
        /\ p.sentinel = "cursor" => p.baseline = "clock"
        /\ p.inclusive => /\ p.sentinel = "last" /\ ~p.over /\ p.ties /\ p.limited
                          /\ p.name \notin {"dbrow", "dbrowtime", "logs"}
        /\ p.store = "before" => /\ p.sentinel = "cursor" /\ ~p.limited /\ ~p.changes
                                 /\ ~p.ties /\ ~p.inclusive /\ ~p.over
                                 /\ p.name \notin {"dbrow", "dbrowtime", "logs"}
        /\ p.over => p.name = "logs"
        /\ p.name = "dbrow" => /\ p.sentinel = "last" /\ ~p.ties /\ ~p.inclusive
                               /\ p.store = "after"
        /\ p.name = "dbrowtime" => /\ p.sentinel = "last" /\ p.ties /\ ~p.inclusive
                                   /\ p.store = "after"
        /\ p.name = "logs" => /\ p.sentinel = "cursor" /\ p.ties /\ ~p.changes /\ ~p.inclusive
                              /\ p.store = "after" /\ p.badRead # "forget"
        /\ p.store = "after" /\ ~p.inclusive => p.name \in {"dbrow", "dbrowtime", "logs", "linkedin"}

\* Each of the fifteen pollers is one of a few kinds.
LEMMA Profile == \A p \in Profiles : ProfileFits(p)
<1>1. ProfileFits(S3) BY DEF ProfileFits, S3, S3Reads
<1>2. ProfileFits(Drive) BY DEF ProfileFits, Drive, DriveReads, DriveFallback, S3, S3Reads
<1>3. ProfileFits(RdsEvent) BY DEF ProfileFits, RdsEvent, RdsReads, S3, S3Reads
<1>4. ProfileFits(Mail)
  BY DEF ProfileFits, Mail, MailReads, MailFallback, RdsEvent, RdsReads, S3, S3Reads
<1>5. ProfileFits(Alarm) BY DEF ProfileFits, Alarm, S3, S3Reads
<1>6. ProfileFits(Metric) BY DEF ProfileFits, Metric, Alarm, S3, S3Reads
<1>7. ProfileFits(HealthCheck) BY DEF ProfileFits, HealthCheck, Alarm, S3, S3Reads
<1>8. ProfileFits(GitPoll)
  BY DEF ProfileFits, GitPoll, GitReads, HealthCheck, Alarm, S3, S3Reads
<1>9. ProfileFits(DbRow) BY DEF ProfileFits, DbRow, DbRowBaseline, DbRowQuery
<1>10. ProfileFits(Salesforce)
  BY DEF ProfileFits, Salesforce, SalesforceBaseline, SalesforceQuery, DbRow, DbRowBaseline,
         DbRowQuery
<1>11. ProfileFits(Logs) BY DEF ProfileFits, Logs, LogsPage, DbRow, DbRowBaseline, DbRowQuery
<1>12. ProfileFits(Gmail)
  BY DEF ProfileFits, Gmail, GmailHistory, DbRow, DbRowBaseline, DbRowQuery
<1>13. ProfileFits(AgentMail)
  BY DEF ProfileFits, AgentMail, Gmail, GmailHistory, DbRow, DbRowBaseline, DbRowQuery
<1>14. ProfileFits(LinkedIn)
  BY DEF ProfileFits, LinkedIn, LinkedInReactions, DbRow, DbRowBaseline, DbRowQuery
<1>15. ProfileFits(DbRowTime)
  BY DEF ProfileFits, DbRowTime, DbRow, DbRowBaseline, DbRowQuery
<1> QED
  BY <1>1, <1>2, <1>3, <1>4, <1>5, <1>6, <1>7, <1>8, <1>9, <1>10, <1>11, <1>12, <1>13, <1>14,
     <1>15
  DEF Profiles

-----------------------------------------------------------------------------
(* What a provider lists.                                                  *)

\* The items there ever were, and any of them, are finitely many.
LEMMA ItemsFinite ==
    ASSUME NEW S \in SUBSET Items
    PROVE  IsFiniteSet(S) /\ Cardinality(S) \in Nat
  BY FS_Subset, FS_CardinalityType

\* Part of a set is no larger, and as large only when it is all of it.
LEMMA FewerItems ==
    ASSUME NEW S \in SUBSET Items, NEW T \in SUBSET S
    PROVE  Cardinality(T) <= Cardinality(S) /\ (Cardinality(T) = Cardinality(S) => T = S)
  BY ItemsFinite, FS_Subset

\* An item that is one of n at most is among the first, and among the last, n.
LEMMA AllOfFew ==
    ASSUME NEW v \in Views, NEW n \in Nat, NEW S \in SUBSET Items, Cardinality(S) <= n
    PROVE  FirstOf(v, S, n) = S /\ NewestOf(v, S, n) = S
<1>1. ASSUME NEW x \in S, NEW T \in SUBSET S, x \notin T PROVE Cardinality(T) < n
  <2>1. Cardinality(T) <= Cardinality(S) /\ Cardinality(T) # Cardinality(S)
    BY <1>1, FewerItems
  <2>2. Cardinality(T) \in Nat /\ Cardinality(S) \in Nat
    <3>1. T \in SUBSET Items BY <1>1
    <3> QED BY <3>1, ItemsFinite
  <2> QED BY <2>1, <2>2
<1>2. \A x \in S : v[x] \in Int BY DEF Views
<1>3. \A x \in S : Cardinality({y \in S : Before(v, y, x)}) < n
  <2> TAKE x \in S
  <2>1. x \notin {y \in S : Before(v, y, x)} BY <1>2 DEF Before
  <2> QED BY <1>1, <2>1
<1>4. \A x \in S : Cardinality({y \in S : Before(v, x, y)}) < n
  <2> TAKE x \in S
  <2>1. x \notin {y \in S : Before(v, x, y)} BY <1>2 DEF Before
  <2> QED BY <1>1, <2>1
<1> QED BY <1>3, <1>4 DEF FirstOf, NewestOf

\* Nothing comes before the first item.
LEMMA FirstIsLeast ==
    ASSUME NEW v \in Views, NEW S \in SUBSET Items, NEW x, FirstOf(v, S, 1) = {x}
    PROVE  x \in S /\ \A y \in S : v[x] <= v[y]
<1>1. x \in S /\ Cardinality({y \in S : Before(v, y, x)}) < 1
  BY DEF FirstOf
<1>2. {y \in S : Before(v, y, x)} = {}
  <2> DEFINE T == {y \in S : Before(v, y, x)}
  <2>1. T \in SUBSET Items OBVIOUS
  <2>2. IsFiniteSet(T) /\ Cardinality(T) = 0
    <3>1. IsFiniteSet(T) /\ Cardinality(T) \in Nat BY <2>1, ItemsFinite
    <3> QED BY <1>1, <3>1
  <2> QED BY <2>2, FS_EmptySet
<1>3. \A y \in S : v[y] \in Int /\ v[x] \in Int
  BY <1>1 DEF Views
<1> QED BY <1>1, <1>2, <1>3 DEF Before

\* What is not among the first n comes after them.
LEMMA RestIsLater ==
    ASSUME NEW v \in Views, NEW S \in SUBSET Items, NEW n \in Nat,
           NEW x \in FirstOf(v, S, n), NEW y \in S \ FirstOf(v, S, n)
    PROVE  v[x] <= v[y]
<1>1. \A z \in Items : v[z] \in Int /\ z \in Int BY DEF Views
<1> SUFFICES ASSUME v[y] < v[x] PROVE FALSE
  BY <1>1 DEF FirstOf
<1> DEFINE X == {z \in S : Before(v, z, x)}
           Y == {z \in S : Before(v, z, y)}
<1>2. X \in SUBSET Items /\ Y \in SUBSET X
  <2>1. x \in Items /\ y \in Items BY DEF FirstOf
  <2>2. \A z \in S : Before(v, z, y) => Before(v, z, x) BY <1>1, <2>1 DEF Before
  <2> QED BY <2>2
<1>3. Cardinality(Y) <= Cardinality(X) BY <1>2, FewerItems
<1>4. Cardinality(X) \in Nat /\ Cardinality(Y) \in Nat
  <2>1. Y \in SUBSET Items BY <1>2
  <2> QED BY <1>2, <2>1, ItemsFinite
<1>5. Cardinality(X) < n BY DEF FirstOf
<1>6. ~(Cardinality(Y) < n) BY DEF FirstOf
<1> QED BY <1>3, <1>4, <1>5, <1>6

\* When the items fit, they are all listed.
LEMMA ListsAll ==
    ASSUME TypeOK, Fits, poller.kind = "set"
    PROVE  Listing = Present(source)
<1>1. CASE poller.reads = "all" BY <1>1 DEF Listing
<1>2. CASE Cardinality({x \in Items : source[x] # 0}) <= Limit
  <2> DEFINE S == {x \in Items : source[x] # 0}
  <2>1. source \in Views /\ Limit \in Nat BY DEF TypeOK
  <2>2. S \in SUBSET Items /\ Present(source) \in SUBSET S /\ Present(source) \in SUBSET Items
    BY DEF Present
  <2>3. Cardinality(Present(source)) <= Cardinality(S) BY <2>2, FewerItems
  <2>4. Cardinality(Present(source)) <= Limit
    <3>1. Cardinality(Present(source)) \in Nat BY <2>2, ItemsFinite
    <3>2. Cardinality(S) \in Nat BY <2>2, ItemsFinite
    <3> QED BY <1>2, <2>1, <2>3, <3>1, <3>2
  <2>5. NewestOf(source, Present(source), Limit) = Present(source)
    BY <2>1, <2>2, <2>4, AllOfFew
  <2> QED BY <2>5 DEF Listing
<1> QED BY <1>1, <1>2 DEF Fits

\* And a batch leaves nothing out.
LEMMA TakesAll ==
    ASSUME TypeOK, Fits, poller.kind = "cursor", NEW S \in SUBSET Present(source)
    PROVE  FirstOf(source, S, Limit) = S
<1> DEFINE P == {x \in Items : source[x] # 0}
<1>1. source \in Views /\ Limit \in Nat BY DEF TypeOK
<1>2. P \in SUBSET Items /\ S \in SUBSET P /\ S \in SUBSET Items
  BY <1>1 DEF Present, Views
<1>3. Cardinality(S) <= Cardinality(P) BY <1>2, FewerItems
<1>4. Cardinality(P) <= Limit BY DEF Fits
<1>5. Cardinality(S) \in Nat /\ Cardinality(P) \in Nat BY <1>2, ItemsFinite
<1>6. Cardinality(S) <= Limit BY <1>1, <1>3, <1>4, <1>5
<1> QED BY <1>1, <1>2, <1>6, AllOfFew

\* The ids at the boundary, when the items fit, are all of them.
LEMMA AllIds ==
    ASSUME TypeOK, Fits, poller.kind = "cursor", NEW S \in SUBSET Present(source),
           NEW T \in SUBSET S, Cardinality(T) = Limit
    PROVE  T = S
<1> DEFINE P == {x \in Items : source[x] # 0}
<1>1. P \in SUBSET Items /\ S \in SUBSET P /\ S \in SUBSET Items /\ T \in SUBSET Items
  BY DEF TypeOK, Present, Views
<1>2. Cardinality(S) <= Cardinality(P) BY <1>1, FewerItems
<1>3. Cardinality(P) <= Limit BY DEF Fits
<1>4. Cardinality(T) <= Cardinality(S) /\ (Cardinality(T) = Cardinality(S) => T = S)
  BY <1>1, FewerItems
<1>5. Cardinality(S) \in Nat /\ Cardinality(P) \in Nat /\ Cardinality(T) \in Nat
  BY <1>1, ItemsFinite
<1> QED BY <1>2, <1>3, <1>4, <1>5

\* The items that there ever were do not get fewer.
LEMMA FitsBefore ==
    ASSUME TypeOK, poller' = poller,
           \A x \in Items : source[x] # 0 => source'[x] # 0, Fits'
    PROVE  Fits
<1> DEFINE P == {x \in Items : source[x] # 0}
           Q == {x \in Items : source'[x] # 0}
<1>1. Q \in SUBSET Items /\ P \in SUBSET Q /\ P \in SUBSET Items OBVIOUS
<1>2. Cardinality(P) <= Cardinality(Q) BY <1>1, FewerItems
<1>3. Cardinality(P) \in Nat /\ Cardinality(Q) \in Nat BY <1>1, ItemsFinite
<1>4. CASE Cardinality(Q) <= Limit
  <2>1. Cardinality(P) <= Limit BY <1>2, <1>3, <1>4
  <2> QED BY <2>1 DEF Fits
<1>5. CASE ~(Cardinality(Q) <= Limit)
  BY <1>5 DEF Fits
<1> QED BY <1>4, <1>5

-----------------------------------------------------------------------------
(* What every step does, and what the steps of a poll have in common.      *)

provider == <<source, newest, poller, vanished>>

\* The poller stays, items do not become unborn, faults are not taken back.
Grows ==
    /\ poller' = poller
    /\ \A x \in Items : source[x] # 0 => source'[x] # 0
    /\ crashes <= crashes' /\ failed <= failed' /\ lapses <= lapses' /\ faults <= faults'

\* So a promise that is still conditioned on no faults was conditioned so before.
LEMMA CasesKeep ==
    ASSUME TypeOK, TypeOK', Grows
    PROVE  /\ OnceCase' => OnceCase
           /\ SilentCase' => SilentCase
           /\ CursorOnce' => CursorOnce
           /\ Sole' => Sole
           /\ Exclusive' => Exclusive
           /\ faults' = 0 => faults = 0
           /\ lapses' = 0 => lapses = 0
<1>1. Fits' => Fits BY FitsBefore DEF Grows
<1>0. /\ crashes \in Nat /\ failed \in Nat /\ lapses \in Nat /\ faults \in Nat
      /\ crashes' \in Nat /\ failed' \in Nat /\ lapses' \in Nat /\ faults' \in Nat
  <2>1. crashes \in Nat /\ failed \in Nat /\ lapses \in Nat /\ faults = crashes + failed + lapses
    BY DEF TypeOK
  <2>2. /\ crashes' \in Nat /\ failed' \in Nat /\ lapses' \in Nat
        /\ faults' = crashes' + failed' + lapses'
    BY DEF TypeOK
  <2>3. \A a, b, c \in Nat : a + b + c \in Nat OBVIOUS
  <2>4. faults \in Nat BY <2>1, <2>3, Zenon
  <2>5. faults' \in Nat BY <2>2, <2>3, Zenon
  <2> QED BY <2>1, <2>2, <2>4, <2>5
<1>2. /\ poller' = poller
      /\ crashes' = 0 => crashes = 0
      /\ failed' = 0 => failed = 0
      /\ lapses' = 0 => lapses = 0
      /\ faults' = 0 => faults = 0
      /\ crashes > 0 => crashes' > 0
      /\ failed > 0 => failed' > 0
  BY <1>0 DEF Grows
<1>3. StoresFirst' <=> StoresFirst BY <1>2 DEF StoresFirst
<1>4. OnceCase' => OnceCase BY <1>1, <1>2, <1>3 DEF OnceCase
<1>5. SilentCase' => SilentCase BY <1>1, <1>2 DEF SilentCase
<1>6. CursorOnce' => CursorOnce BY <1>2 DEF CursorOnce
<1>7. Sole' => Sole BY <1>2 DEF Sole
<1>8. Exclusive' => Exclusive BY <1>1, <1>2 DEF Exclusive
<1> QED BY <1>2, <1>4, <1>5, <1>6, <1>7, <1>8

\* A step of instance i changes the poll of no other.
LEMMA JobStep ==
    ASSUME TypeOK, NEW i \in Instances, NEW j \in Jobs, job' = [job EXCEPT ![i] = j]
    PROVE  /\ job' \in [Instances -> Jobs]
           /\ job'[i] = j
           /\ \A k \in Instances : k # i => job'[k] = job[k]
  BY DEF TypeOK

\* While no lease has lapsed, one instance polls.
LEMMA OnePoll ==
    ASSUME TypeOK, UnderLease, poller.leased, lapses = 0,
           NEW i \in Instances, Working(i), NEW k \in Instances, Working(k)
    PROVE  i = k
  BY DEF UnderLease

\* Or each has its own memory.
LEMMA Apart ==
    ASSUME TypeOK, UnderLease, Sole, poller.kind = "set",
           NEW i \in Instances, Working(i), NEW k \in Instances, Working(k), i # k
    PROVE  Place(i) # Place(k)
<1>1. ProfileFits(poller) BY Profile DEF TypeOK
<1>2. CASE poller.private BY <1>2 DEF Place
<1>3. CASE ~poller.private BY <1>1, <1>3, OnePoll DEF Sole, ProfileFits
<1> QED BY <1>2, <1>3

\* Where an instance keeps what it knows.
LEMMA Places ==
    ASSUME TypeOK, NEW i \in Instances
    PROVE  /\ Place(i) \in Instances \cup {Table}
           /\ ~poller.private => Place(i) = Table
           /\ poller.private => Place(i) = i /\ i # Table
  BY DEF Place, Table

\* What starting a flow does to what has been started.
LEMMA Tells ==
    ASSUME TypeOK, NEW i \in Instances, NEW e \in Events, Tell(i, e)
    PROVE  /\ told' \in [Instances -> SUBSET Events] /\ again' \subseteq Events
           /\ \A f : IsTold(f)' <=> IsTold(f) \/ f = e
           /\ NoneTwice /\ ~IsTold(e) => NoneTwice'
<1>1. told' = [told EXCEPT ![i] = @ \cup {e}] BY DEF Tell
<1>2. told' \in [Instances -> SUBSET Events] BY <1>1 DEF TypeOK
<1>3. again' \subseteq Events BY DEF Tell, TypeOK
<1>4. \A k \in Instances : told'[k] = IF k = i THEN told[k] \cup {e} ELSE told[k]
  BY <1>1 DEF TypeOK
<1>5. \A f : IsTold(f)' <=> IsTold(f) \/ f = e
  BY <1>4 DEF IsTold
<1>6. ASSUME NoneTwice, ~IsTold(e) PROVE NoneTwice'
  <2>1. \A k \in Instances : e \notin told[k] BY <1>6 DEF IsTold
  <2>2. again' = {} BY <1>6, <2>1 DEF Tell, NoneTwice
  <2>3. ASSUME NEW a \in Instances, NEW b \in Instances, a # b
        PROVE  told'[a] \cap told'[b] = {}
    <3>1. told[a] \cap told[b] = {} BY <1>6, <2>3 DEF NoneTwice
    <3> QED BY <1>4, <2>1, <2>3, <3>1
  <2> QED BY <2>2, <2>3 DEF NoneTwice
<1> QED BY <1>2, <1>3, <1>5, <1>6

\* Which events overtake an item.
LEMMA OvertakenIs ==
    ASSUME TypeOK, NEW x \in Items
    PROVE  Overtaken(x) <=> /\ poller.ties /\ ~poller.inclusive
                            /\ \E e \in Events : Handled(e) /\ e[2] = source[x]
  BY DEF Overtaken, Handled, IsTold, TypeOK

\* A failed call is a fault.
LEMMA FaultsStep ==
    ASSUME TypeOK, UNCHANGED faultVars \/ Failure
    PROVE  /\ faults' = crashes' + failed' + lapses' /\ faults' \in 0 .. MaxFaults
           /\ crashes' \in Nat /\ failed' \in Nat /\ lapses' \in Nat
           /\ crashes' = crashes /\ lapses' = lapses /\ failed <= failed' /\ faults <= faults'
<1>1. /\ crashes \in Nat /\ failed \in Nat /\ lapses \in Nat /\ MaxFaults \in Nat
      /\ faults = crashes + failed + lapses /\ faults \in 0 .. MaxFaults
  BY DEF TypeOK
<1>2. CASE UNCHANGED faultVars BY <1>1, <1>2 DEF faultVars
<1>3. CASE Failure
  <2>1. faults' = faults + 1 /\ failed' = failed + 1 /\ crashes' = crashes /\ lapses' = lapses
        /\ faults < MaxFaults
    BY <1>3 DEF Failure
  <2> QED BY <1>1, <2>1
<1> QED BY <1>2, <1>3

\* A step of a poll leaves the provider and the lease alone.
LEMMA TypesMove ==
    ASSUME TypeOK, UNCHANGED <<provider, leaseVars>>, UNCHANGED faultVars \/ Failure,
           deleted' \subseteq Events,
           job' \in [Instances -> Jobs],
           rows' \in [Instances \cup {Table} -> [Items -> 0 .. MaxStamp]],
           sentinel' \in BOOLEAN, cursor' \in 0 .. MaxStamp, firedAt' \subseteq Items,
           told' \in [Instances -> SUBSET Events], again' \subseteq Events, silent' \subseteq Events
    PROVE  TypeOK' /\ Grows
<1>1. /\ faults' = crashes' + failed' + lapses' /\ faults' \in 0 .. MaxFaults
      /\ crashes' \in Nat /\ failed' \in Nat /\ lapses' \in Nat
      /\ crashes' = crashes /\ lapses' = lapses /\ failed <= failed' /\ faults <= faults'
  BY FaultsStep
<1>2. poller' = poller /\ source' = source /\ newest' = newest /\ vanished' = vanished
  BY DEF provider
<1>3. LeaseTypeOK' BY DEF TypeOK, leaseVars, LeaseTypeOK
<1>4. /\ poller' \in Profiles /\ source' \in Views /\ newest' \in Stamps
      /\ vanished' \in [Items -> 0 .. MaxStamp]
  BY <1>2 DEF TypeOK
<1>5. TypeOK' BY <1>1, <1>3, <1>4 DEF TypeOK
<1>6. crashes \in Nat /\ lapses \in Nat BY DEF TypeOK
<1>7. Grows BY <1>1, <1>2, <1>6 DEF Grows
<1> QED BY <1>5, <1>7

\* Only the pruning tells of a deletion.
LEMMA TypesStep ==
    ASSUME TypeOK, UNCHANGED <<sourceVars, leaseVars>>, UNCHANGED faultVars \/ Failure,
           job' \in [Instances -> Jobs],
           rows' \in [Instances \cup {Table} -> [Items -> 0 .. MaxStamp]],
           sentinel' \in BOOLEAN, cursor' \in 0 .. MaxStamp, firedAt' \subseteq Items,
           told' \in [Instances -> SUBSET Events], again' \subseteq Events, silent' \subseteq Events
    PROVE  TypeOK' /\ Grows
<1>1. UNCHANGED provider /\ deleted' = deleted BY DEF provider, sourceVars
<1>2. deleted' \subseteq Events BY <1>1 DEF TypeOK
<1> QED BY <1>1, <1>2, TypesMove

\* A step that changes the poll of one instance, and nothing else.
LEMMA JobOnly ==
    ASSUME TypeOK, NEW i \in Instances, NEW j \in Jobs, job' = [job EXCEPT ![i] = j],
           UNCHANGED <<sourceVars, rowVars, toldVars, leaseVars>>, UNCHANGED faultVars \/ Failure
    PROVE  TypeOK' /\ Grows
<1>1. job' \in [Instances -> Jobs] BY JobStep
<1>2. /\ rows' = rows /\ sentinel' = sentinel /\ cursor' = cursor /\ firedAt' = firedAt
      /\ told' = told /\ again' = again /\ silent' = silent
  BY DEF rowVars, toldVars
<1>3. /\ rows \in [Instances \cup {Table} -> [Items -> 0 .. MaxStamp]]
      /\ sentinel \in BOOLEAN /\ cursor \in 0 .. MaxStamp /\ firedAt \subseteq Items
      /\ told \in [Instances -> SUBSET Events] /\ again \subseteq Events /\ silent \subseteq Events
  BY DEF TypeOK
<1> QED BY <1>1, <1>2, <1>3, TypesStep

\* The poll of an instance that does not poll.
LEMMA IdlePoll ==
    /\ Idle \in Jobs /\ Idle.pc = "idle" /\ Fresh(Idle)
    /\ [Idle EXCEPT !.pc = "dead"] \in Jobs /\ [Idle EXCEPT !.pc = "dead"].pc = "dead"
    /\ Fresh([Idle EXCEPT !.pc = "dead"])
    /\ \A x \in Items : Nothing[x] = 0
<1>1. Nothing \in Views /\ Nothing \in [Items -> 0 .. MaxStamp] /\ \A x \in Items : Nothing[x] = 0
  BY DEF Nothing, Views
<1>2. Idle \in Jobs BY <1>1 DEF Idle, Jobs, Steps
<1>3. [Idle EXCEPT !.pc = "dead"] \in Jobs BY <1>2 DEF Jobs, Steps
<1>4. /\ Idle.pc = "idle" /\ Idle.view = Nothing /\ Idle.ids = {} /\ Idle.todo = {}
      /\ ~Idle.first /\ Idle.top = 0
  BY DEF Idle
<1>5. [Idle EXCEPT !.pc = "dead"].pc = "dead" /\ Fresh([Idle EXCEPT !.pc = "dead"])
  BY DEF Idle, Fresh
<1> QED BY <1>1, <1>2, <1>3, <1>4, <1>5 DEF Fresh

-----------------------------------------------------------------------------
(* Initially nothing is polled, stored or fired.                           *)

\* So the invariant holds of nothing but what the provider had.
LEMMA Initially == Init => IInv
<1> SUFFICES ASSUME Init PROVE IInv
  OBVIOUS
<1>1. /\ Idle \in Jobs /\ Idle.pc = "idle" /\ Idle.view = Nothing /\ Idle.ids = {} /\ Idle.todo = {}
      /\ ~Idle.first /\ Idle.top = 0 /\ Fresh(Idle)
      /\ \A x \in Items : Nothing[x] = 0
  BY IdlePoll DEF Fresh
<1>2. /\ \A i \in Instances : job[i] = Idle
      /\ \A p \in Instances \cup {Table}, x \in Items : rows[p][x] = 0
      /\ \A x \in Items : source[x] = IF x \in Old THEN 1 ELSE 0
      /\ \A e : ~Handled(e) /\ ~IsTold(e)
  BY <1>1 DEF Init, Handled, IsTold
<1>3. TypeOK
  <2>1. Nothing \in [Items -> 0 .. MaxStamp] BY DEF Nothing
  <2>2. rows \in [Instances \cup {Table} -> [Items -> 0 .. MaxStamp]] BY <2>1 DEF Init
  <2>3. source \in Views /\ newest \in Stamps BY DEF Init, Views, Stamps
  <2>4. job \in [Instances -> Jobs] BY <1>1 DEF Init
  <2>5. told \in [Instances -> SUBSET Events] /\ again \subseteq Events /\ silent \subseteq Events
    BY DEF Init
  <2>6. LeaseTypeOK BY DEF Init, LeaseInit, LeaseTypeOK
  <2>7. poller \in Profiles /\ sentinel \in BOOLEAN /\ firedAt \subseteq Items BY DEF Init
  <2>8. cursor \in 0 .. MaxStamp BY DEF Init
  <2>9. /\ faults = crashes + failed + lapses /\ faults \in 0 .. MaxFaults
        /\ crashes \in Nat /\ failed \in Nat /\ lapses \in Nat
    BY DEF Init
  <2>10. vanished \in [Items -> 0 .. MaxStamp] /\ deleted \subseteq Events BY <2>1 DEF Init
  <2> QED BY <2>2, <2>3, <2>4, <2>5, <2>6, <2>7, <2>8, <2>9, <2>10 DEF TypeOK
<1>4. Phases /\ UnderLease
  BY <1>1, <1>2 DEF Phases, PhasesOf, UnderLease, SetSteps, CursorSteps, BaseSteps, Working
<1>5. Bounded /\ Silent
  <2>1. newest = 1 /\ cursor = 0 BY DEF Init
  <2> QED BY <1>1, <1>2, <2>1 DEF Bounded, Silent
<1>6. SetInv
  <2>1. Grown
    <3>1. \A x \in Items : source[x] \in Int BY <1>2
    <3>2. ASSUME NEW i \in Instances PROVE GrownOf(i, job[i])
      <4>1. ASSUME NEW x \in Items PROVE job[i].view[x] = 0
        <5>1. job[i].view = Nothing /\ Nothing[x] = 0 BY <1>1, <1>2
        <5> QED BY <5>1
      <4>2. \A x \in Items : ~(job[i].view[x] > 0) BY <4>1
      <4>3. ASSUME NEW x \in Items, source[x] > 0 PROVE job[i].view[x] <= source[x]
        <5>1. source[x] \in Int /\ job[i].view[x] = 0 BY <3>1, <4>1
        <5> QED BY <4>3, <5>1
      <4> QED BY <4>2, <4>3 DEF GrownOf
    <3>3. ASSUME NEW p \in Instances \cup {Table}, NEW x \in Items, source[x] > 0
          PROVE  rows[p][x] <= source[x]
      <4>1. source[x] \in Int /\ rows[p][x] = 0 BY <1>2, <3>1
      <4> QED BY <3>3, <4>1
    <3> QED BY <3>2, <3>3 DEF Grown
  <2>2. Recognised BY <1>1, <1>2 DEF Recognised, RecognisedOf
  <2>3. Baselined BY <1>1, <1>2 DEF Baselined, BaselinedOf, LeftOf, Init, SetSteps
  <2>4. StoredIsHandled BY <1>1, <1>2 DEF StoredIsHandled, AboutTo
  <2> QED BY <2>1, <2>2, <2>3, <2>4 DEF SetInv
<1>7. CursorInv
  <2>1. SourceFits BY <1>2 DEF SourceFits, Init
  <2>2. HasBaseline BY <1>1, <1>2 DEF HasBaseline, HasBaselineOf, Asked
  <2>3. Later BY <1>1, <1>2 DEF Later, LaterOf, Asked
  <2>4. Passed BY <1>1, <1>2 DEF Passed, PassedOf, Storing, Asked, BaseSteps, Knows
  <2>5. Started BY <1>1, <1>2 DEF Started, StartedOf, Asked, BaseSteps, Init
  <2>6. CursorTrails BY <1>1, <1>2 DEF CursorTrails, TrailsOf, FirstTaken, Behind, Init
  <2>7. CursorMeets BY <1>1, <1>2 DEF CursorMeets, MeetsOf, Asked, Told, Init
  <2>8. CursorLeads BY <1>1, <1>2 DEF CursorLeads, InBatch, Asked, Taken, Init
  <2> QED BY <2>1, <2>2, <2>3, <2>4, <2>5, <2>6, <2>7, <2>8 DEF CursorInv
<1>8. NoneTwice BY <1>2 DEF NoneTwice, Init
<1> QED BY <1>3, <1>4, <1>5, <1>6, <1>7, <1>8 DEF IInv

-----------------------------------------------------------------------------
(* The start and the end of a poll.                                        *)

\* The poll of an instance that begins, or ends before it has done anything,
\* or anywhere in a crash, leaves no trace.
LEMMA RestsKeep ==
    ASSUME IInv, TypeOK', Grows, NEW i \in Instances, NEW j \in Jobs,
           job' = [job EXCEPT ![i] = j], Fresh(j), j.pc \in {"idle", "begun", "dead"},
           UNCHANGED <<source, newest, sentinel, cursor, firedAt, toldVars>>,
           rows'[Table] = rows[Table],
           \A p \in Instances \cup {Table} : rows'[p] = rows[p] \/ rows'[p] = Nothing,
           UnderLease',
           \/ job[i].pc \in {"idle", "dead", "begun", "listed", "baseline"}
           \/ crashes' > 0 /\ faults' > 0
    PROVE  IInv'
<1>1. /\ TypeOK /\ Phases /\ UnderLease /\ Bounded /\ Silent
      /\ poller.kind = "set" => SetInv
      /\ poller.kind = "cursor" => CursorInv
      /\ (poller.kind = "set" /\ OnceCase) \/ (poller.kind = "cursor" /\ CursorOnce) => NoneTwice
  BY DEF IInv
<1>4. /\ job'[i] = j /\ \A x \in Items : j.view[x] = 0
      /\ \A k \in Instances : k # i => job'[k] = job[k]
  BY <1>1, IdlePoll, JobStep DEF Fresh
<1>5. /\ poller' = poller /\ source' = source /\ newest' = newest
      /\ sentinel' = sentinel /\ cursor' = cursor /\ firedAt' = firedAt
      /\ told' = told /\ again' = again /\ silent' = silent
  BY DEF Grows, toldVars
<1>6. /\ OnceCase' => OnceCase
      /\ SilentCase' => SilentCase
      /\ CursorOnce' => CursorOnce
      /\ Sole' => Sole
      /\ Exclusive' => Exclusive
      /\ faults' = 0 => faults = 0
  BY <1>1, CasesKeep
<1>7. /\ \A e : Handled(e)' <=> Handled(e)
      /\ \A e : IsTold(e)' <=> IsTold(e)
  BY <1>5 DEF Handled, IsTold
<1>2. /\ \A p \in Instances \cup {Table}, x \in Items :
            rows[p][x] \in Nat /\ rows'[p][x] \in Nat /\ rows'[p][x] <= rows[p][x]
      /\ newest \in Nat /\ \A x \in Items : source[x] \in Int
  <2>1. \A p \in Instances \cup {Table}, x \in Items : rows[p][x] \in Nat
    BY <1>1 DEF TypeOK
  <2>2. newest \in Nat /\ \A x \in Items : source[x] \in Int
    BY <1>1 DEF TypeOK, Stamps, Views
  <2>3. rows' \in [Instances \cup {Table} -> [Items -> 0 .. MaxStamp]] BY DEF TypeOK
  <2>4. ASSUME NEW p \in Instances \cup {Table}, NEW x \in Items PROVE rows'[p][x] \in Nat
    <3>1. rows'[p] \in [Items -> 0 .. MaxStamp] BY <2>3
    <3>2. rows'[p][x] \in 0 .. MaxStamp BY <3>1
    <3> QED BY <3>2
  <2>5. ASSUME NEW p \in Instances \cup {Table}, NEW x \in Items
        PROVE  rows'[p][x] <= rows[p][x]
    <3>1. rows[p][x] \in Nat BY <2>1
    <3>2. CASE rows'[p] = rows[p]
      <4>1. rows'[p][x] = rows[p][x] BY <3>2
      <4> QED BY <3>1, <4>1
    <3>3. CASE rows'[p] = Nothing
      <4>1. rows'[p][x] = 0 BY <3>3, IdlePoll
      <4> QED BY <3>1, <4>1
    <3> QED BY <3>2, <3>3
  <2> QED BY <2>1, <2>2, <2>4, <2>5
<1>3. \/ job[i].pc \in {"idle", "dead", "begun", "listed", "baseline"}
      \/ /\ ~(SilentCase' /\ poller.sentinel = "first")
         /\ CursorOnce' => poller.store = "before"
         /\ faults' # 0
  <2>1. crashes' \in Nat BY DEF TypeOK
  <2>2. faults' > 0 => faults' # 0 OBVIOUS
  <2> QED BY <1>5, <2>1, <2>2 DEF SilentCase, CursorOnce
<1>8. Phases' BY <1>1, <1>4, <1>5 DEF Phases, PhasesOf, Fresh, SetSteps, CursorSteps, BaseSteps
<1>10. Bounded'
  <2>1. \A p \in Instances \cup {Table}, x \in Items : rows'[p][x] <= newest'
    BY <1>1, <1>2, <1>5 DEF Bounded
  <2>2. ASSUME NEW k \in Instances
        PROVE  job'[k].top <= newest' /\ \A x \in Items : job'[k].view[x] <= newest'
    <3>1. CASE k = i BY <1>2, <1>4, <1>5, <3>1 DEF Fresh
    <3>2. CASE k # i BY <1>1, <1>4, <1>5, <3>2 DEF Bounded
    <3> QED BY <3>1, <3>2
  <2>3. /\ \A x \in Items : source'[x] <= newest'
        /\ \A x \in Items, s \in Stamps : Handled(<<x, s>>)' => s <= newest'
        /\ cursor' <= newest'
    BY <1>1, <1>5, <1>7 DEF Bounded
  <2> QED BY <2>1, <2>2, <2>3 DEF Bounded
<1>11. Silent' BY <1>1, <1>5, <1>6 DEF Silent, IsTold
<1>12. ASSUME poller.kind = "set" PROVE SetInv'
  <2>0. SetInv BY <1>1, <1>12
  <2>1. Grown'
    <3>1. \A k \in Instances : Place(k)' = Place(k) BY <1>5 DEF Place
    <3>2. \A x \in Items : source'[x] > 0 =>
             /\ \A p \in Instances \cup {Table} : rows'[p][x] <= source'[x]
             /\ \A k \in Instances : job'[k].view[x] <= source'[x]
      <4> TAKE x \in Items
      <4> HAVE source'[x] > 0
      <4>1. source[x] > 0 /\ source[x] \in Int BY <1>2, <1>5
      <4>2. ASSUME NEW p \in Instances \cup {Table} PROVE rows'[p][x] <= source'[x]
        <5>1. rows[p][x] <= source[x] BY <2>0, <4>1 DEF SetInv, Grown
        <5>2. rows[p][x] \in Nat /\ rows'[p][x] \in Nat /\ rows'[p][x] <= rows[p][x] BY <1>2
        <5> QED BY <1>5, <4>1, <5>1, <5>2
      <4>3. ASSUME NEW k \in Instances PROVE job'[k].view[x] <= source'[x]
        <5>1. CASE k = i BY <1>4, <1>5, <4>1, <5>1
        <5>2. CASE k # i BY <1>4, <1>5, <2>0, <4>1, <5>2 DEF SetInv, Grown, GrownOf
        <5> QED BY <5>1, <5>2
      <4> QED BY <4>2, <4>3
    <3>3. Sole => \A k \in Instances, x \in Items : job'[k].view[x] > 0 =>
             /\ job'[k].pc = "listed" => rows'[Place(k)][x] <= job'[k].view[x]
             /\ job'[k].pc \in {"mark", "sift", "tell"} => job'[k].known[x] <= job'[k].view[x]
      <4>1. \A k \in Instances : Place(k) \in Instances \cup {Table} BY <1>1, Places
      <4>2. \A k \in Instances, x \in Items : job[k].view[x] \in Int
        BY <1>1 DEF TypeOK, Jobs, Views
      <4> QED BY <1>2, <1>4, <1>5, <2>0, <4>1, <4>2 DEF SetInv, Grown, GrownOf
    <3> QED BY <1>6, <3>1, <3>2, <3>3 DEF Grown, GrownOf
  <2>2. Recognised' BY <1>4, <1>5, <1>6, <2>0 DEF SetInv, Recognised, RecognisedOf, IsTold
  <2>3. Baselined'
    BY <1>3, <1>4, <1>5, <1>6, <2>0
    DEF SetInv, Baselined, BaselinedOf, LeftOf, Existing, SetSteps
  <2>4. StoredIsHandled' BY <1>3, <1>4, <1>5, <1>6, <1>7, <2>0 DEF SetInv, StoredIsHandled, AboutTo
  <2> QED BY <2>1, <2>2, <2>3, <2>4 DEF SetInv
<1>13. ASSUME poller.kind = "cursor" PROVE CursorInv'
  <2>0. CursorInv BY <1>1, <1>13
  <2>1. SourceFits' BY <1>5, <2>0 DEF CursorInv, SourceFits
  <2>2. HasBaseline'
    <3>1. Unbaselined(sentinel, cursor)' <=> Unbaselined(sentinel, cursor)
      BY <1>5 DEF Unbaselined
    <3> QED BY <1>4, <1>5, <1>7, <2>0, <3>1 DEF CursorInv, HasBaseline, HasBaselineOf, Asked
  <2>3. Later' BY <1>4, <1>5, <2>0 DEF CursorInv, Later, LaterOf, Asked
  <2>4. Passed'
    <3>1. \A c, ids : Knows(c, ids)' <=> Knows(c, ids) BY <1>5, <1>7 DEF Knows
    <3>2. CursorOnce' => job[i].pc \notin {"fire", "cursor", "ids"} \/ poller.store = "before"
      BY <1>3
    <3>3. ~(poller.store = "before" /\ poller.store = "after") OBVIOUS
    <3> QED
      BY <1>4, <1>5, <1>6, <1>7, <2>0, <3>1, <3>2, <3>3
      DEF CursorInv, Passed, PassedOf, Storing, Asked, BaseSteps
  <2>5. Started'
    BY <1>4, <1>5, <1>6, <2>0
    DEF CursorInv, Started, StartedOf, Asked, BaseSteps, Covers, Existing
  <2>6. CursorTrails'
    BY <1>4, <1>5, <1>6, <1>7, <2>0
    DEF CursorInv, CursorTrails, TrailsOf, FirstTaken, Behind, Overtaken, InOrder, Precedes
  <2>7. CursorMeets'
    <3>1. \A c, ids : Told(c, ids)' <=> Told(c, ids) BY <1>5, <1>7 DEF Told
    <3> SUFFICES ASSUME poller.inclusive, faults' = 0
                 PROVE  /\ Told(cursor, firedAt)' \/ \E k \in Instances : job'[k].pc \in {"ids", "baseids"}
                        /\ \A k \in Instances : MeetsOf(job[k])'
      BY <1>5 DEF CursorMeets
    <3>2. CursorMeets /\ faults = 0 /\ job[i].pc \notin {"ids", "baseids"}
      BY <1>3, <1>6, <2>0 DEF CursorInv
    <3>3. Told(cursor, firedAt) \/ \E k \in Instances : k # i /\ job[k].pc \in {"ids", "baseids"}
      BY <1>5, <3>2 DEF CursorMeets
    <3>4. Told(cursor, firedAt)' \/ \E k \in Instances : job'[k].pc \in {"ids", "baseids"}
      <4> PICK c, f : c = cursor /\ f = firedAt OBVIOUS
      <4>1. Told(c, f) => Told(c, f)' BY <3>1
      <4>2. Told(c, f)' => Told(cursor, firedAt)' BY <1>5 DEF Told
      <4> QED BY <1>4, <3>3, <4>1, <4>2
    <3>5. ASSUME NEW k \in Instances PROVE MeetsOf(job[k])'
      <4>1. CASE k = i BY <1>4, <4>1 DEF MeetsOf, Asked
      <4>2. CASE k # i
        <5> PICK h : h = job[k] OBVIOUS
        <5>1. MeetsOf(h) BY <1>5, <3>2 DEF CursorMeets
        <5>2. /\ Told(h.top, h.ids)' <=> Told(h.top, h.ids)
              /\ Told(cursor, h.ids)' <=> Told(cursor, h.ids)
          <6> PICK c : c = cursor OBVIOUS
          <6>1. (Told(h.top, h.ids)' <=> Told(h.top, h.ids)) /\ (Told(c, h.ids)' <=> Told(c, h.ids))
            BY <3>1
          <6> QED BY <1>5, <6>1 DEF Told
        <5>3. MeetsOf(h)' BY <1>5, <1>7, <5>1, <5>2 DEF MeetsOf, Asked
        <5> QED BY <1>4, <4>2, <5>3
      <4> QED BY <4>1, <4>2
    <3> QED BY <3>4, <3>5
  <2>8. CursorLeads'
    BY <1>3, <1>4, <1>5, <1>6, <1>7, <2>0
    DEF CursorInv, CursorLeads, InBatch, Asked, Taken
  <2> QED BY <2>1, <2>2, <2>3, <2>4, <2>5, <2>6, <2>7, <2>8 DEF CursorInv
<1>14. NoneTwice => NoneTwice' BY <1>5 DEF NoneTwice
<1> QED BY <1>1, <1>5, <1>6, <1>8, <1>10, <1>11, <1>12, <1>13, <1>14 DEF IInv

\* Whoever begins has the lease, and nobody else was at work under it.
LEMMA BeginKeeps ==
    ASSUME IInv, NEW i \in Instances, Begin(i)
    PROVE  IInv'
<1>1. TypeOK /\ Phases /\ UnderLease BY DEF IInv
<1>2. /\ job[i].pc = "idle" /\ job' = [job EXCEPT ![i].pc = "begun"]
      /\ IF poller.leased THEN TryAcquireLease(i) ELSE UNCHANGED leaseVars
      /\ UNCHANGED <<sourceVars, rowVars, toldVars, faultVars>>
  BY DEF Begin, Goto
<1> DEFINE j == [job[i] EXCEPT !.pc = "begun"]
<1>3. j \in Jobs /\ job' = [job EXCEPT ![i] = j] /\ j.pc = "begun" /\ Fresh(j)
  <2>1. job[i] \in Jobs /\ Fresh(job[i]) BY <1>1, <1>2 DEF TypeOK, Phases, PhasesOf
  <2>2. j \in Jobs BY <2>1 DEF Jobs, Steps
  <2>3. job' = [job EXCEPT ![i] = j] BY <1>1, <1>2 DEF TypeOK
  <2> QED BY <2>1, <2>2, <2>3 DEF Fresh, Jobs
<1>4. job' \in [Instances -> Jobs] /\ job'[i] = j /\ \A k \in Instances : k # i => job'[k] = job[k]
  <2> HIDE DEF j
  <2> QED BY <1>1, <1>3, JobStep
<1>5. LeaseTypeOK'
  BY <1>1, <1>2 DEF TypeOK, LeaseTypeOK, TryAcquireLease, leaseVars
<1>6. TypeOK' /\ Grows
  <2>1. TypeOK'
    BY <1>1, <1>2, <1>4, <1>5 DEF TypeOK, sourceVars, rowVars, toldVars, faultVars
  <2>2. crashes \in Nat /\ failed \in Nat /\ lapses \in Nat /\ faults \in Int
    BY <1>1 DEF TypeOK
  <2>3. Grows BY <1>2, <2>2 DEF Grows, sourceVars, faultVars
  <2> QED BY <2>1, <2>3
<1>7. UnderLease'
  <2> SUFFICES ASSUME poller.leased, lapses = 0, NEW k \in Instances, Working(k)'
               PROVE  leaseOwner' = k /\ leaseTtl' >= 0
    BY <1>2 DEF UnderLease, sourceVars, faultVars
  <2>1. leaseOwner' = i /\ leaseTtl' = LeaseDuration /\ Grantable(i)
    BY <1>2 DEF TryAcquireLease
  <2>2. CASE k = i BY <2>1, <2>2
  <2>3. CASE k # i
    <3>1. Working(k) BY <1>4, <2>3 DEF Working
    <3>2. leaseOwner = k /\ leaseTtl >= 0 BY <1>1, <3>1 DEF UnderLease
    <3>3. k # NoOwner OBVIOUS
    <3> QED BY <2>1, <2>3, <3>2, <3>3, <1>1 DEF Grantable, TypeOK, LeaseTypeOK
  <2> QED BY <2>2, <2>3
<1> HIDE DEF j
<1> QED
  BY <1>2, <1>3, <1>6, <1>7, RestsKeep DEF sourceVars, rowVars

\* A poll that is given up has stored nothing.
LEMMA GiveUpKeeps ==
    ASSUME IInv, NEW i \in Instances, GiveUp(i)
    PROVE  IInv'
<1>1. TypeOK /\ UnderLease BY DEF IInv
<1>2. /\ job' = [job EXCEPT ![i] = Idle] /\ job[i].pc \in {"begun", "listed", "baseline"}
      /\ UNCHANGED <<sourceVars, rowVars, toldVars, faultVars, leaseVars>>
  BY DEF GiveUp, Quit
<1>3. TypeOK' /\ Grows BY <1>1, <1>2, IdlePoll, JobOnly
<1>4. UnderLease' BY <1>1, <1>2, IdlePoll, JobStep
  DEF UnderLease, Working, sourceVars, faultVars, leaseVars
<1> QED
  BY <1>2, <1>3, <1>4, IdlePoll, RestsKeep DEF sourceVars, rowVars

\* A crash takes the memory of the process with it, and the poll.
LEMMA CrashKeeps ==
    ASSUME IInv, NEW i \in Instances, Crash(i)
    PROVE  IInv'
<1>1. TypeOK /\ UnderLease BY DEF IInv
<1> DEFINE j == [Idle EXCEPT !.pc = "dead"]
<1>2. /\ job' = [job EXCEPT ![i] = j] /\ rows' = [rows EXCEPT ![i] = Nothing]
      /\ faults' = faults + 1 /\ crashes' = crashes + 1 /\ faults < MaxFaults
      /\ UNCHANGED <<sourceVars, sentinel, cursor, firedAt, toldVars, failed, lapses, leaseVars>>
  BY DEF Crash
<1>3. j \in Jobs /\ j.pc = "dead" /\ Fresh(j) BY IdlePoll
<1>4. /\ job' \in [Instances -> Jobs] /\ job'[i] = j
      /\ \A k \in Instances : k # i => job'[k] = job[k]
  <2> HIDE DEF j
  <2> QED BY <1>1, <1>2, <1>3, JobStep
<1>5. /\ rows' \in [Instances \cup {Table} -> [Items -> 0 .. MaxStamp]]
      /\ \A p \in Instances \cup {Table} : rows'[p] = rows[p] \/ rows'[p] = Nothing
      /\ rows'[Table] = rows[Table]
  <2>1. Nothing \in [Items -> 0 .. MaxStamp] BY DEF Nothing
  <2> QED BY <1>1, <1>2, <2>1 DEF TypeOK, Table
<1>6. /\ crashes \in Nat /\ failed \in Nat /\ lapses \in Nat /\ MaxFaults \in Nat
      /\ faults = crashes + failed + lapses /\ faults \in 0 .. MaxFaults
  BY <1>1 DEF TypeOK
<1>7. /\ crashes' \in Nat /\ failed' \in Nat /\ lapses' \in Nat
      /\ faults' = crashes' + failed' + lapses' /\ faults' \in 0 .. MaxFaults
      /\ crashes' > 0 /\ faults' > 0 /\ crashes <= crashes' /\ faults <= faults'
      /\ failed <= failed' /\ lapses <= lapses'
  BY <1>2, <1>6
<1>8. TypeOK'
  BY <1>1, <1>2, <1>4, <1>5, <1>7 DEF TypeOK, LeaseTypeOK, sourceVars, toldVars, leaseVars
<1>9. Grows BY <1>2, <1>7 DEF Grows, sourceVars
<1>10. UnderLease'
  BY <1>1, <1>2, <1>3, <1>4 DEF UnderLease, Working, sourceVars, leaseVars
<1> HIDE DEF j
<1> QED
  BY <1>2, <1>3, <1>5, <1>7, <1>8, <1>9, <1>10, RestsKeep DEF sourceVars

-----------------------------------------------------------------------------
(* The polls that remember every item.                                     *)

\* What the steps of such a poll have in common: the provider and the lease
\* stay, so do the polls of the others, and nobody else polls as long as the
\* poll holds its lease.
LEMMA SetMove ==
    ASSUME IInv, TypeOK', Grows, NEW i \in Instances, NEW j \in Jobs,
           job' = [job EXCEPT ![i] = j], poller.kind = "set",
           Working(i), UNCHANGED <<provider, leaseVars>>
    PROVE  /\ job'[i] = j
           /\ \A k \in Instances : k # i => job'[k] = job[k]
           /\ poller' = poller /\ source' = source /\ newest' = newest
           /\ OnceCase' => OnceCase
           /\ SilentCase' => SilentCase
           /\ Sole' => Sole
           /\ faults' = 0 => faults = 0
           /\ UnderLease'
           /\ \A k \in Instances : Place(k)' = Place(k)
           /\ OnceCase \/ (SilentCase /\ poller.sentinel # "none") =>
                 /\ Place(i) = Table
                 /\ \A k \in Instances : k # i => ~Working(k)
           /\ Sole => \A k \in Instances : k # i /\ Working(k) => Place(k) # Place(i)
<1>1. TypeOK /\ UnderLease BY DEF IInv
<1>2. ProfileFits(poller) BY <1>1, Profile DEF TypeOK
<1>3. job'[i] = j /\ \A k \in Instances : k # i => job'[k] = job[k]
  BY <1>1, JobStep
<1>4. poller' = poller /\ source' = source /\ newest' = newest /\ leaseOwner' = leaseOwner
      /\ leaseTtl' = leaseTtl
  BY DEF provider, leaseVars
<1>5. /\ OnceCase' => OnceCase
      /\ SilentCase' => SilentCase
      /\ Sole' => Sole
      /\ faults' = 0 => faults = 0
      /\ lapses' = 0 => lapses = 0
  BY <1>1, CasesKeep
<1>6. UnderLease' BY <1>1, <1>3, <1>4, <1>5 DEF UnderLease, Working
<1>7. \A k \in Instances : Place(k)' = Place(k) BY <1>4 DEF Place
<1>8. ASSUME OnceCase \/ (SilentCase /\ poller.sentinel # "none")
      PROVE  Place(i) = Table /\ \A k \in Instances : k # i => ~Working(k)
  <2>1. ~poller.private /\ poller.leased /\ lapses = 0
    BY <1>2, <1>8 DEF OnceCase, SilentCase, ProfileFits
  <2> QED BY <1>1, <2>1, OnePoll, Places
<1>9. Sole => \A k \in Instances : k # i /\ Working(k) => Place(k) # Place(i)
  BY <1>1, Apart
<1> QED BY <1>3, <1>4, <1>5, <1>6, <1>7, <1>8, <1>9

LEMMA SetStep ==
    ASSUME IInv, TypeOK', Grows, NEW i \in Instances, NEW j \in Jobs,
           job' = [job EXCEPT ![i] = j], poller.kind = "set",
           Working(i), UNCHANGED <<sourceVars, leaseVars>>
    PROVE  /\ job'[i] = j
           /\ \A k \in Instances : k # i => job'[k] = job[k]
           /\ poller' = poller /\ source' = source /\ newest' = newest
           /\ OnceCase' => OnceCase
           /\ SilentCase' => SilentCase
           /\ Sole' => Sole
           /\ faults' = 0 => faults = 0
           /\ UnderLease'
           /\ \A k \in Instances : Place(k)' = Place(k)
           /\ OnceCase \/ (SilentCase /\ poller.sentinel # "none") =>
                 /\ Place(i) = Table
                 /\ \A k \in Instances : k # i => ~Working(k)
           /\ Sole => \A k \in Instances : k # i /\ Working(k) => Place(k) # Place(i)
<1>1. UNCHANGED <<provider, leaseVars>> BY DEF sourceVars, provider
<1> QED BY <1>1, SetMove

\* The parts of the invariant.
LEMMA SetParts ==
    ASSUME IInv, poller.kind = "set"
    PROVE  /\ TypeOK /\ Phases /\ UnderLease /\ Bounded /\ Silent
           /\ Grown /\ Recognised /\ Baselined /\ StoredIsHandled
           /\ OnceCase => NoneTwice
  BY DEF IInv, SetInv

\* What is a number.
LEMMA SetTypes ==
    ASSUME TypeOK
    PROVE  /\ ProfileFits(poller)
           /\ newest \in Nat /\ \A x \in Items : source[x] \in Int
           /\ \A p \in Instances \cup {Table}, x \in Items : rows[p][x] \in Nat
           /\ \A k \in Instances, x \in Items : job[k].view[x] \in Int /\ job[k].known[x] \in Nat
           /\ \A x, s : IsTold(<<x, s>>) => s \in Nat \ {0}
<1>2. ProfileFits(poller) BY Profile DEF TypeOK
<1>3. newest \in Nat /\ \A x \in Items : source[x] \in Int BY DEF TypeOK, Stamps, Views
<1>4. \A p \in Instances \cup {Table}, x \in Items : rows[p][x] \in Nat BY DEF TypeOK
<1>5. \A k \in Instances : job[k].view \in Views /\ job[k].known \in [Items -> 0 .. MaxStamp]
  BY DEF TypeOK, Jobs
<1>6. \A k \in Instances, x \in Items : job[k].view[x] \in Int
  BY <1>5 DEF Views
<1>7. \A k \in Instances, x \in Items : job[k].known[x] \in Nat
  BY <1>5
<1>8. \A x, s : IsTold(<<x, s>>) => s \in Nat \ {0}
  BY DEF IsTold, TypeOK, Events, Stamps
<1> QED BY <1>2, <1>3, <1>4, <1>6, <1>7, <1>8

\* The parts put together again.
LEMMA SetWhole ==
    ASSUME poller.kind = "set", poller' = poller,
           TypeOK', Phases', UnderLease', Bounded', Silent',
           Grown', Recognised', Baselined', StoredIsHandled', OnceCase' => NoneTwice'
    PROVE  IInv'
  BY DEF IInv, SetInv

\* A step that changes what one poll has listed, read or chosen, or marks the
\* first poll as done, is right when the poll is.
LEMMA SetJobKeeps ==
    ASSUME IInv, NEW i \in Instances, NEW j \in Jobs, job' = [job EXCEPT ![i] = j],
           poller.kind = "set", Working(i), job[i].pc # "tell",
           UNCHANGED <<sourceVars, rows, cursor, firedAt, toldVars, leaseVars>>,
           UNCHANGED faultVars \/ Failure,
           \/ sentinel' = sentinel /\ \A x \in Items : LeftOf(x, job[i]) => LeftOf(x, j)
           \/ /\ sentinel' \in BOOLEAN /\ poller.sentinel # "none" /\ j.pc # "listed"
              /\ SilentCase' => sentinel' /\ \A x \in Items : Existing(x) =>
                                   rows[Table][x] = 1 \/ LeftOf(x, j),
           PhasesOf(j), GrownOf(i, j), j.top <= newest, \A x \in Items : j.view[x] <= newest,
           OnceCase' => RecognisedOf(j), SilentCase' => BaselinedOf(j)
    PROVE  IInv'
<1>1. /\ TypeOK /\ Phases /\ UnderLease /\ Bounded /\ Silent
      /\ Grown /\ Recognised /\ Baselined /\ StoredIsHandled
      /\ OnceCase => NoneTwice
  BY SetParts
<1>2. TypeOK' /\ Grows
  <2>1. job' \in [Instances -> Jobs] BY <1>1, JobStep
  <2>2. /\ rows' \in [Instances \cup {Table} -> [Items -> 0 .. MaxStamp]]
        /\ sentinel' \in BOOLEAN /\ cursor' \in 0 .. MaxStamp /\ firedAt' \subseteq Items
        /\ told' \in [Instances -> SUBSET Events] /\ again' \subseteq Events
        /\ silent' \subseteq Events
    BY <1>1 DEF TypeOK, toldVars
  <2> QED BY <1>1, <2>1, <2>2, TypesStep
<1>3. /\ job'[i] = j
      /\ \A k \in Instances : k # i => job'[k] = job[k]
      /\ poller' = poller /\ source' = source /\ newest' = newest
      /\ OnceCase' => OnceCase
      /\ SilentCase' => SilentCase
      /\ Sole' => Sole
      /\ faults' = 0 => faults = 0
      /\ UnderLease'
      /\ \A k \in Instances : Place(k)' = Place(k)
      /\ SilentCase /\ poller.sentinel # "none" => \A k \in Instances : k # i => ~Working(k)
  BY <1>2, SetStep
<1>4. /\ rows' = rows /\ cursor' = cursor
      /\ told' = told /\ again' = again /\ silent' = silent
  BY DEF toldVars
<1>5. /\ \A e : Handled(e)' <=> Handled(e)
      /\ \A e : IsTold(e)' <=> IsTold(e)
      /\ \A x : Existing(x)' <=> Existing(x)
  BY <1>3, <1>4 DEF Handled, IsTold, Existing
<1>6. Phases' BY <1>1, <1>3 DEF Phases, PhasesOf
<1>7. Bounded' BY <1>1, <1>3, <1>4, <1>5 DEF Bounded
<1>8. Silent' BY <1>1, <1>3, <1>5 DEF Silent
<1>9. Grown'
  <2>1. ASSUME NEW k \in Instances PROVE GrownOf(k, job[k])'
    <3>1. GrownOf(k, job'[k]) BY <1>1, <1>3 DEF Grown
    <3> QED BY <1>3, <1>4, <3>1 DEF GrownOf
  <2> QED BY <1>1, <1>3, <1>4, <2>1 DEF Grown
<1>10. Recognised'
  <2> SUFFICES ASSUME OnceCase' PROVE Recognised' BY DEF Recognised
  <2>1. ASSUME NEW k \in Instances PROVE RecognisedOf(job[k])'
    <3>1. RecognisedOf(job'[k]) BY <1>1, <1>3 DEF Recognised
    <3> QED BY <1>3, <1>4, <1>5, <3>1 DEF RecognisedOf
  <2> QED BY <1>1, <1>3, <1>4, <1>5, <2>1 DEF Recognised
<1>11. Baselined'
  <2>0. poller.sentinel = "none" => ~sentinel' BY <1>1 DEF Baselined
  <2>1. CASE ~SilentCase' BY <1>3, <2>0, <2>1 DEF Baselined
  <2>2. CASE SilentCase'
    <3>0. /\ \A k \in Instances : BaselinedOf(job[k])
          /\ sentinel => \A x \in Items : Existing(x) =>
                rows[Table][x] = 1 \/ \E k \in Instances : LeftOf(x, job[k])
      BY <1>1, <1>3, <2>2 DEF Baselined
    <3>1. ASSUME NEW k \in Instances PROVE BaselinedOf(job[k])'
      <4>1. BaselinedOf(job'[k]) BY <1>3, <2>2, <3>0
      <4>2. sentinel' = sentinel \/ job'[k].pc # "listed"
        <5>1. k # i /\ sentinel' # sentinel => ~Working(k) BY <1>3, <2>2
        <5> QED BY <1>3, <5>1 DEF Working
      <4> QED BY <1>3, <1>4, <1>5, <4>1, <4>2 DEF BaselinedOf
    <3>2. ASSUME sentinel', NEW x \in Items, Existing(x), rows[Table][x] # 1
          PROVE  \E k \in Instances : LeftOf(x, job[k])'
      <4>1. \E k \in Instances : LeftOf(x, job'[k])
        <5>1. CASE sentinel' = sentinel /\ \A y \in Items : LeftOf(y, job[i]) => LeftOf(y, j)
          <6>1. PICK k \in Instances : LeftOf(x, job[k]) BY <3>0, <3>2, <5>1
          <6> QED BY <1>3, <5>1, <6>1
        <5>2. CASE LeftOf(x, j) BY <1>3, <5>2
        <5> QED BY <2>2, <3>2, <5>1, <5>2
      <4> QED BY <1>3, <4>1 DEF LeftOf
    <3> QED BY <1>3, <1>4, <1>5, <2>0, <3>1, <3>2 DEF Baselined
  <2> QED BY <2>1, <2>2
<1>12. StoredIsHandled'
  <2>1. \A k \in Instances : \A x, s : AboutTo(x, s, job[k]) => job'[k] = job[k]
    BY <1>3 DEF AboutTo
  <2>2. ASSUME faults = 0, NEW x \in Items, rows[Table][x] > 0
        PROVE  \/ Handled(<<x, rows[Table][x]>>)
               \/ \E k \in Instances : AboutTo(x, rows[Table][x], job'[k])
    BY <1>1, <2>1, <2>2 DEF StoredIsHandled
  <2> QED BY <1>3, <1>4, <1>5, <2>2 DEF StoredIsHandled, AboutTo
<1>13. OnceCase' => NoneTwice' BY <1>1, <1>3, <1>4 DEF NoneTwice
<1> QED
  BY <1>2, <1>3, <1>6, <1>7, <1>8, <1>9, <1>10, <1>11, <1>12, <1>13, SetWhole

\* The listing names the items that are there: all of them while they fit.
LEMMA ListKeeps ==
    ASSUME IInv, NEW i \in Instances, List(i)
    PROVE  IInv'
<1> DEFINE j == [job[i] EXCEPT !.pc = "listed", !.view = Only(source, Listing)]
<1>1. /\ poller.kind = "set" /\ job[i].pc = "begun"
      /\ UNCHANGED <<sourceVars, rowVars, toldVars, faultVars, leaseVars>>
  BY DEF List
<1>2. /\ TypeOK /\ Phases /\ UnderLease /\ Bounded
      /\ Grown /\ Recognised /\ Baselined
  BY <1>1, SetParts
<1>3. /\ newest \in Nat /\ \A x \in Items : source[x] \in Int
      /\ \A p \in Instances \cup {Table}, x \in Items : rows[p][x] \in Nat
      /\ \A x, s : IsTold(<<x, s>>) => s \in Nat \ {0}
      /\ ProfileFits(poller)
  BY <1>2, SetTypes
<1>4. /\ j \in Jobs /\ job' = [job EXCEPT ![i] = j] /\ j.pc = "listed"
      /\ j.view = Only(source, Listing) /\ j.todo = {} /\ j.ids = {} /\ ~j.first /\ j.top = 0
  <2>1. job[i] \in Jobs /\ Fresh(job[i]) BY <1>1, <1>2 DEF TypeOK, Phases, PhasesOf
  <2>2. Only(source, Listing) \in Views BY <1>2 DEF Only, Views, TypeOK
  <2>3. j \in Jobs BY <2>1, <2>2 DEF Jobs, Steps
  <2>4. job' = [job EXCEPT ![i] = j] BY <1>2 DEF TypeOK, List
  <2> QED BY <2>1, <2>3, <2>4 DEF Fresh, Jobs
<1>5. \A x \in Items : /\ j.view[x] \in {0, source[x]} /\ j.view[x] >= 0
                       /\ Fits /\ source[x] > 0 => j.view[x] = source[x]
  <2>1. Listing \subseteq Present(source) BY DEF Listing, NewestOf
  <2>2. Fits => Listing = Present(source) BY <1>1, <1>2, ListsAll
  <2> QED BY <1>3, <1>4, <2>1, <2>2 DEF Only, Present
<1> HIDE DEF j
<1>6. TypeOK' /\ Grows BY <1>1, <1>2, <1>4, JobOnly
<1>7. /\ OnceCase' => OnceCase
      /\ SilentCase' => SilentCase
      /\ SilentCase /\ poller.sentinel # "none" => \A k \in Instances : k # i => ~Working(k)
  BY <1>1, <1>4, <1>6, SetStep DEF Working
<1>8. PhasesOf(j) BY <1>1, <1>4, <1>5 DEF PhasesOf, SetSteps, CursorSteps, BaseSteps
<1>9. j.top <= newest /\ \A x \in Items : j.view[x] <= newest
  <2>1. \A x \in Items : source[x] <= newest BY <1>2 DEF Bounded
  <2> QED BY <1>3, <1>4, <1>5, <2>1
<1>10. GrownOf(i, j)
  <2>1. Place(i) \in Instances \cup {Table} BY <1>2, Places
  <2>2. \A x \in Items : source[x] > 0 => rows[Place(i)][x] <= source[x]
    BY <1>2, <2>1 DEF Grown
  <2>3. ASSUME NEW x \in Items, source[x] > 0 PROVE j.view[x] <= source[x]
    <3>1. j.view[x] = 0 \/ j.view[x] = source[x] BY <1>5
    <3>2. source[x] \in Int BY <1>3
    <3> QED BY <2>3, <3>1, <3>2
  <2>4. \A x \in Items : j.view[x] > 0 => rows[Place(i)][x] <= j.view[x]
    <3> TAKE x \in Items
    <3> HAVE j.view[x] > 0
    <3>1. j.view[x] = source[x] BY <1>5
    <3> QED BY <2>2, <3>1
  <2> QED BY <1>4, <2>3, <2>4 DEF GrownOf
<1>11. OnceCase' => RecognisedOf(j)
  <2> SUFFICES ASSUME OnceCase PROVE RecognisedOf(j) BY <1>7
  <2>1. Fits BY DEF OnceCase
  <2>2. \A x \in Items : IsTold(<<x, source[x]>>) => rows[Table][x] = source[x]
    BY <1>2 DEF Recognised
  <2>3. \A x \in Items : IsTold(<<x, source[x]>>) => j.view[x] = source[x]
    <3> TAKE x \in Items
    <3> HAVE IsTold(<<x, source[x]>>)
    <3>1. source[x] > 0 BY <1>3
    <3> QED BY <1>5, <2>1, <3>1
  <2>4. \A x \in Items : IsTold(<<x, j.view[x]>>) => rows[Table][x] = j.view[x]
    BY <1>3, <1>5, <2>2
  <2> QED BY <1>4, <2>3, <2>4 DEF RecognisedOf
<1>12. SilentCase' => BaselinedOf(j)
  <2> SUFFICES ASSUME SilentCase PROVE BaselinedOf(j) BY <1>7
  <2>1. Fits BY DEF SilentCase
  <2>2. \A x \in Items : Existing(x) => j.view[x] = 1 BY <1>5, <2>1 DEF Existing
  <2>3. ASSUME sentinel, NEW x \in Old, j.view[x] = 1 PROVE rows[Table][x] = 1
    <3>1. Existing(x)
      <4>1. x \in Items OBVIOUS
      <4>2. j.view[x] \in {0, source[x]} BY <1>5, <4>1
      <4>3. source[x] = 1 BY <2>3, <4>2
      <4> QED BY <4>1, <4>3 DEF Existing
    <3>2. \A k \in Instances : ~LeftOf(x, job[k])
      BY <1>1, <1>2, <1>7, <2>3 DEF Baselined, LeftOf, Working
    <3> QED BY <1>2, <2>3, <3>1, <3>2 DEF Baselined
  <2> QED BY <1>4, <2>2, <2>3 DEF BaselinedOf
<1> QED
  BY <1>1, <1>4, <1>8, <1>9, <1>10, <1>11, <1>12, SetJobKeeps DEF Working, LeftOf, rowVars

\* The wrong account lists nothing, and that is a failure.
LEMMA ListElsewhereKeeps ==
    ASSUME IInv, NEW i \in Instances, ListElsewhere(i)
    PROVE  IInv'
<1> DEFINE j == [job[i] EXCEPT !.pc = "listed"]
<1>1. /\ poller.kind = "set" /\ job[i].pc = "begun" /\ poller.fallback /\ Failure
      /\ UNCHANGED <<sourceVars, rowVars, toldVars, leaseVars>>
  BY DEF ListElsewhere
<1>2. TypeOK /\ Phases /\ UnderLease
  BY <1>1, SetParts
<1>3. /\ newest \in Nat /\ \A x \in Items : source[x] \in Int
      /\ failed \in Nat /\ failed' = failed + 1
  BY <1>1, <1>2, SetTypes DEF TypeOK, Failure
<1>4. /\ j \in Jobs /\ job' = [job EXCEPT ![i] = j] /\ j.pc = "listed"
      /\ j.view = Nothing /\ j.todo = {} /\ j.ids = {} /\ ~j.first /\ j.top = 0
  <2>1. job[i] \in Jobs /\ Fresh(job[i]) BY <1>1, <1>2 DEF TypeOK, Phases, PhasesOf
  <2>2. j \in Jobs BY <2>1 DEF Jobs, Steps
  <2>3. job' = [job EXCEPT ![i] = j] BY <1>2 DEF TypeOK, ListElsewhere, Goto
  <2> QED BY <2>1, <2>2, <2>3 DEF Fresh, Jobs
<1>5. \A x \in Items : j.view[x] = 0 BY <1>4, IdlePoll
<1> HIDE DEF j
<1>6. poller' = poller /\ failed' > 0 BY <1>1, <1>3 DEF sourceVars
<1>7. ~OnceCase' /\ ~SilentCase' BY <1>1, <1>6, <1>3 DEF OnceCase, SilentCase
<1>8. PhasesOf(j) BY <1>1, <1>4, <1>5 DEF PhasesOf, SetSteps, CursorSteps, BaseSteps
<1>9. j.top <= newest /\ \A x \in Items : j.view[x] <= newest BY <1>3, <1>4, <1>5
<1>10. GrownOf(i, j)
  <2>1. \A x \in Items : ~(j.view[x] > 0) BY <1>5
  <2>2. \A x \in Items : source[x] > 0 => j.view[x] <= source[x] BY <1>3, <1>5
  <2> QED BY <2>1, <2>2 DEF GrownOf
<1> QED
  BY <1>1, <1>4, <1>7, <1>8, <1>9, <1>10, SetJobKeeps DEF Working, LeftOf, rowVars

\* What is known is not later than what was listed, so an item that was known
\* as it is listed is not in the work list.
LEMMA ReadKnownKeeps ==
    ASSUME IInv, NEW i \in Instances, ReadKnown(i)
    PROVE  IInv'
<1> DEFINE view == job[i].view
           known == rows[Place(i)]
           todo == {x \in Present(view) : Differs(known, view, x)}
           pc == IF IsFirst(i) /\ poller.sentinel = "first" THEN "mark" ELSE "sift"
           j == [job[i] EXCEPT !.known = known, !.first = IsFirst(i), !.pc = pc, !.todo = todo]
<1>1. /\ poller.kind = "set" /\ job[i].pc = "listed"
      /\ UNCHANGED <<sourceVars, rowVars, toldVars, faultVars, leaseVars>>
  BY DEF ReadKnown
<1>2. /\ TypeOK /\ Phases /\ UnderLease /\ Bounded
      /\ Grown /\ Recognised /\ Baselined
  BY <1>1, SetParts
<1>3. /\ \A p \in Instances \cup {Table}, x \in Items : rows[p][x] \in Nat
      /\ \A x \in Items : view[x] \in Int
      /\ ProfileFits(poller) /\ Place(i) \in Instances \cup {Table}
      /\ ~poller.private => Place(i) = Table
      /\ \A x, s : IsTold(<<x, s>>) => s \in Nat \ {0}
  BY <1>2, SetTypes, Places
<1>4. /\ j \in Jobs /\ job' = [job EXCEPT ![i] = j] /\ j.pc = pc
      /\ j.view = view /\ j.todo = todo /\ j.known = known /\ j.first = IsFirst(i)
      /\ j.ids = job[i].ids /\ j.ids = {} /\ j.top = job[i].top
  <2>1. job[i] \in Jobs /\ PhasesOf(job[i]) BY <1>1, <1>2 DEF TypeOK, Phases
  <2>2. known \in [Items -> 0 .. MaxStamp] BY <1>2, <1>3 DEF TypeOK
  <2>3. IsFirst(i) \in BOOLEAN BY <1>2 DEF IsFirst, TypeOK
  <2>4. todo \in SUBSET Items BY DEF Present
  <2>5. pc \in Steps BY DEF Steps
  <2>6. j \in Jobs
    <3> HIDE DEF todo, known, pc
    <3> QED BY <2>1, <2>2, <2>3, <2>4, <2>5 DEF Jobs
  <2>7. job' = [job EXCEPT ![i] = j] BY <1>2 DEF TypeOK, ReadKnown
  <2> QED BY <1>1, <2>1, <2>6, <2>7 DEF Jobs, PhasesOf
<1> HIDE DEF j
<1>5. \A x \in Items : view[x] > 0 /\ Sole => known[x] <= view[x]
  BY <1>1, <1>2 DEF Grown, GrownOf
<1>6. /\ TypeOK' /\ Grows
      /\ OnceCase' => OnceCase
      /\ SilentCase' => SilentCase
      /\ OnceCase => Place(i) = Table
  <2>1. TypeOK' /\ Grows BY <1>1, <1>2, <1>4, JobOnly
  <2> QED BY <1>1, <1>4, <2>1, SetStep DEF Working
<1>7. PhasesOf(j)
  BY <1>1, <1>3, <1>4 DEF PhasesOf, SetSteps, CursorSteps, BaseSteps, IsFirst, Present
<1>8. j.top <= newest /\ \A x \in Items : j.view[x] <= newest
  BY <1>2, <1>4 DEF Bounded
<1>9. GrownOf(i, j)
  <2>1. j.pc \in {"mark", "sift"} BY <1>4
  <2>2. \A x \in Items : source[x] > 0 => view[x] <= source[x] BY <1>2 DEF Grown, GrownOf
  <2> QED BY <1>4, <1>5, <2>1, <2>2 DEF GrownOf
<1>10. OnceCase' => RecognisedOf(j)
  <2> SUFFICES ASSUME OnceCase PROVE RecognisedOf(j) BY <1>6
  <2>1. RecognisedOf(job[i]) BY <1>2 DEF Recognised
  <2>2. ASSUME NEW x \in todo PROVE ~IsTold(<<x, view[x]>>)
    <3>1. x \in Items /\ view[x] > 0 BY DEF Present
    <3>2. IsTold(<<x, view[x]>>) => known[x] = view[x] BY <1>1, <1>6, <2>1, <3>1 DEF RecognisedOf
    <3>3. known[x] = view[x] => known[x] # 0 BY <1>3, <3>1
    <3> QED BY <3>2, <3>3 DEF Differs
  <2> HIDE DEF todo, known, pc
  <2>3. j.pc \in {"mark", "sift"} BY <1>4 DEF pc
  <2> QED BY <1>1, <1>4, <2>1, <2>2, <2>3 DEF RecognisedOf
<1>11. SilentCase' => BaselinedOf(j)
  <2> SUFFICES ASSUME SilentCase PROVE BaselinedOf(j) BY <1>6
  <2>0. BaselinedOf(job[i]) /\ Sole BY <1>2 DEF Baselined, SilentCase, Sole
  <2>1. \A x \in Items : Existing(x) => view[x] = 1 BY <1>1, <2>0 DEF BaselinedOf
  <2>2. ASSUME NEW x \in Items, view[x] = 1, x \notin todo PROVE known[x] = 1
    <3>1. known[x] <= 1 /\ known[x] \in Nat BY <1>3, <1>5, <2>0, <2>2
    <3>2. known[x] # 0 BY <2>2 DEF Present, Differs
    <3> QED BY <3>1, <3>2
  <2>3. ASSUME NEW x \in Items, x \in todo, view[x] = 1 PROVE known[x] = 0
    <3>1. known[x] # 1 BY <2>3 DEF Differs
    <3>2. known[x] \in Nat BY <1>3
    <3>3. known[x] <= view[x] BY <1>5, <2>0, <2>3
    <3> HIDE DEF known, view
    <3> QED BY <2>3, <3>1, <3>2, <3>3
  <2>4. poller.sentinel # "none" => known = rows[Table] BY <1>1, <1>3 DEF ProfileFits
  <2>5. IsFirst(i) => poller.sentinel # "none" BY DEF IsFirst
  <2>6. ASSUME ~IsFirst(i), poller.sentinel # "none", NEW x \in Old, view[x] = 1
        PROVE  x \notin todo
    <3>1. known[x] = 1 BY <1>1, <2>0, <2>4, <2>6 DEF BaselinedOf, IsFirst
    <3> QED BY <2>6, <3>1 DEF Differs
  <2>8. todo \subseteq Items BY DEF Present
  <2> HIDE DEF todo, known, pc
  <2>7. j.pc \in {"mark", "sift"} BY <1>4 DEF pc
  <2> QED BY <1>4, <2>1, <2>2, <2>3, <2>4, <2>5, <2>6, <2>7, <2>8 DEF BaselinedOf
<1> QED
  BY <1>1, <1>4, <1>7, <1>8, <1>9, <1>10, <1>11, SetJobKeeps DEF Working, LeftOf, rowVars

\* What is left over is not listed, or could not be stored: it has not fired.
LEMMA EndSiftKeeps ==
    ASSUME IInv, NEW i \in Instances, EndSift(i)
    PROVE  IInv'
<1> DEFINE todo == IF poller.prunes THEN Gone(i) ELSE {}
           known == IF poller.deletes THEN Only(job[i].known, Gone(i)) ELSE Nothing
           j == [job[i] EXCEPT !.pc = "prune", !.view = Nothing, !.known = known,
                               !.ids = {}, !.todo = todo]
<1>1. /\ job[i].pc = "sift" /\ job[i].todo = {}
      /\ UNCHANGED <<sourceVars, rowVars, toldVars, faultVars, leaseVars>>
  BY DEF EndSift
<1>2. TypeOK /\ Phases BY DEF IInv
<1>3. poller.kind = "set" BY <1>1, <1>2 DEF Phases, PhasesOf, SetSteps
<1>4. Bounded /\ Grown /\ Recognised /\ Baselined BY <1>3, SetParts
<1>5. /\ newest \in Nat /\ \A x \in Items : source[x] \in Int
      /\ \A x \in Items : job[i].view[x] \in Int
      /\ \A x, s : IsTold(<<x, s>>) => s \in Nat \ {0}
  BY <1>2, SetTypes
<1>6. /\ j \in Jobs /\ job' = [job EXCEPT ![i] = j] /\ j.pc = "prune"
      /\ j.view = Nothing /\ j.todo = todo /\ j.first = job[i].first
      /\ j.ids = {} /\ j.top = job[i].top /\ j.known = known
  <2>1. job[i] \in Jobs BY <1>2 DEF TypeOK
  <2>2. todo \in SUBSET Items BY DEF Gone, Present
  <2>3. Nothing \in Views /\ known \in [Items -> 0 .. MaxStamp]
    BY <2>1 DEF Nothing, Views, Only, Jobs
  <2>4. j \in Jobs
    <3> HIDE DEF todo, known
    <3> QED BY <2>1, <2>2, <2>3 DEF Jobs, Steps
  <2>5. job' = [job EXCEPT ![i] = j] BY <1>2 DEF TypeOK, EndSift
  <2> QED BY <2>1, <2>4, <2>5 DEF Jobs
<1>7. \A x \in Items : j.view[x] = 0 BY <1>6, IdlePoll
<1> HIDE DEF j
<1>8. /\ OnceCase' => OnceCase
      /\ SilentCase' => SilentCase
  <2>1. TypeOK' /\ Grows BY <1>1, <1>2, <1>6, JobOnly
  <2> QED BY <1>2, <2>1, CasesKeep
<1>9. PhasesOf(j)
  <2>1. PhasesOf(job[i]) BY <1>2 DEF Phases
  <2>2. poller.deletes => \A x \in todo : j.known[x] > 0
    BY <1>6 DEF Gone, Only, Present
  <2> QED BY <1>3, <1>6, <1>7, <2>1, <2>2 DEF PhasesOf, SetSteps, CursorSteps, BaseSteps
<1>10. j.top <= newest /\ \A x \in Items : j.view[x] <= newest
  BY <1>4, <1>5, <1>6, <1>7 DEF Bounded
<1>11. GrownOf(i, j)
  <2>1. \A x \in Items : ~(j.view[x] > 0) BY <1>7
  <2>2. ASSUME NEW x \in Items, source[x] > 0 PROVE j.view[x] <= source[x]
    <3>1. j.view[x] = 0 /\ source[x] \in Int BY <1>5, <1>7
    <3> QED BY <2>2, <3>1
  <2> QED BY <2>1, <2>2 DEF GrownOf
<1>12. OnceCase' => RecognisedOf(j)
  <2> SUFFICES ASSUME OnceCase PROVE RecognisedOf(j) BY <1>8
  <2>1. RecognisedOf(job[i]) BY <1>4 DEF Recognised
  <2>2. ASSUME NEW x \in todo, IsTold(<<x, source[x]>>) PROVE FALSE
    <3>1. x \in Items /\ x \in Gone(i) BY DEF Gone, Present
    <3>2. job[i].view[x] = source[x] BY <1>1, <2>1, <2>2, <3>1 DEF RecognisedOf
    <3>3. ~(job[i].view[x] <= 0) BY <1>5, <2>2, <3>2
    <3>4. poller.failedWrite = "leftover" /\ x \in job[i].ids BY <3>1, <3>3 DEF Gone
    <3> QED BY <1>1, <2>1, <2>2, <3>2, <3>4 DEF RecognisedOf
  <2> QED BY <1>6, <2>2 DEF RecognisedOf
<1>13. SilentCase' => BaselinedOf(j)
  <2> SUFFICES ASSUME SilentCase PROVE BaselinedOf(j) BY <1>8
  <2>1. BaselinedOf(job[i]) BY <1>4 DEF Baselined
  <2>2. ASSUME NEW x \in todo, Existing(x) PROVE FALSE
    <3>1. x \in Items /\ x \in Gone(i) BY DEF Gone, Present
    <3>2. job[i].view[x] = 1 BY <1>1, <2>1, <2>2, <3>1 DEF BaselinedOf
    <3>3. job[i].ids = {} BY <1>1, <2>1 DEF BaselinedOf, SetSteps
    <3> QED BY <3>1, <3>2, <3>3 DEF Gone
  <2>3. j.first => \A x \in Items : Existing(x) => rows[Table][x] = 1
    BY <1>1, <1>6, <2>1 DEF BaselinedOf
  <2> QED BY <1>6, <2>2, <2>3 DEF BaselinedOf
<1>14. \A x \in Items : ~LeftOf(x, job[i]) BY <1>1 DEF LeftOf
<1> QED
  BY <1>1, <1>3, <1>6, <1>9, <1>10, <1>11, <1>12, <1>13, <1>14, SetJobKeeps DEF Working, rowVars

\* The Outlook poller ends its first poll before it has begun: what the poll
\* has yet to store is in its work list.
LEMMA MarkFirstKeeps ==
    ASSUME IInv, NEW i \in Instances, MarkFirst(i)
    PROVE  IInv'
<1> DEFINE j == [job[i] EXCEPT !.pc = "sift"]
<1>1. /\ job[i].pc = "mark"
      /\ Upsert(sentinel' = TRUE, UNCHANGED sentinel)
      /\ UNCHANGED <<sourceVars, rows, cursor, firedAt, toldVars, leaseVars>>
  BY DEF MarkFirst
<1>2. TypeOK /\ Phases BY DEF IInv
<1>3. poller.kind = "set" BY <1>1, <1>2 DEF Phases, PhasesOf, SetSteps
<1>4. Bounded /\ Grown /\ Recognised /\ Baselined BY <1>3, SetParts
<1>5. /\ j \in Jobs /\ job' = [job EXCEPT ![i] = j] /\ j.pc = "sift"
      /\ j.view = job[i].view /\ j.known = job[i].known /\ j.todo = job[i].todo
      /\ j.first = job[i].first /\ j.ids = job[i].ids /\ j.top = job[i].top
  <2>1. job[i] \in Jobs BY <1>2 DEF TypeOK
  <2>2. j \in Jobs BY <2>1 DEF Jobs, Steps
  <2>3. job' = [job EXCEPT ![i] = j] BY <1>2 DEF TypeOK, MarkFirst, Goto
  <2> QED BY <2>1, <2>2, <2>3 DEF Jobs
<1> HIDE DEF j
<1>6. (UNCHANGED faultVars \/ Failure) /\ sentinel' \in BOOLEAN
  BY <1>1, <1>2 DEF Upsert, TypeOK
<1>7. /\ TypeOK' /\ Grows
  <2>1. job' \in [Instances -> Jobs] BY <1>2, <1>5, JobStep
  <2>2. /\ rows' \in [Instances \cup {Table} -> [Items -> 0 .. MaxStamp]]
        /\ cursor' \in 0 .. MaxStamp /\ firedAt' \subseteq Items
        /\ told' \in [Instances -> SUBSET Events] /\ again' \subseteq Events
        /\ silent' \subseteq Events
    BY <1>1, <1>2 DEF TypeOK, toldVars
  <2> QED BY <1>1, <1>2, <1>6, <2>1, <2>2, TypesStep
<1>8. /\ OnceCase' => OnceCase
      /\ SilentCase' => SilentCase
  BY <1>2, <1>7, CasesKeep
<1>9. PhasesOf(job[i]) /\ GrownOf(i, job[i]) BY <1>2, <1>4 DEF Phases, Grown
<1>10. PhasesOf(j) BY <1>1, <1>3, <1>5, <1>9 DEF PhasesOf, SetSteps, CursorSteps, BaseSteps
<1>11. j.top <= newest /\ \A x \in Items : j.view[x] <= newest BY <1>4, <1>5 DEF Bounded
<1>12. GrownOf(i, j) BY <1>1, <1>5, <1>9 DEF GrownOf
<1>13. OnceCase' => RecognisedOf(j)
  <2> SUFFICES ASSUME OnceCase PROVE RecognisedOf(j) BY <1>8
  <2>1. RecognisedOf(job[i]) BY <1>4 DEF Recognised
  <2> QED BY <1>1, <1>5, <2>1 DEF RecognisedOf
<1>14. SilentCase => BaselinedOf(job[i]) BY <1>4 DEF Baselined
<1>15. SilentCase' => BaselinedOf(j) BY <1>1, <1>5, <1>8, <1>14 DEF BaselinedOf, SetSteps
<1>16. SilentCase' => sentinel' /\ \A x \in Items : Existing(x) => rows[Table][x] = 1 \/ LeftOf(x, j)
  <2> SUFFICES ASSUME SilentCase' PROVE sentinel' /\ \A x \in Items : Existing(x) =>
                                           rows[Table][x] = 1 \/ LeftOf(x, j)
    OBVIOUS
  <2>1. sentinel'
    <3>1. failed' = 0 /\ failed \in Nat BY <1>2 DEF SilentCase, TypeOK
    <3>2. ~Failure BY <3>1 DEF Failure
    <3> QED BY <1>1, <3>2 DEF Upsert
  <2>2. poller.sentinel = "first" /\ job[i].first BY <1>1, <1>9 DEF PhasesOf
  <2> QED BY <1>1, <1>5, <1>8, <1>14, <2>1, <2>2 DEF BaselinedOf, LeftOf
<1>17. poller.sentinel # "none" BY <1>1, <1>9 DEF PhasesOf
<1> QED
  BY <1>1, <1>3, <1>5, <1>6, <1>10, <1>11, <1>12, <1>13, <1>15, <1>16, <1>17, SetJobKeeps
  DEF Working

\* The first poll is marked when all it found is stored.
LEMMA FinishKeeps ==
    ASSUME IInv, NEW i \in Instances, Finish(i)
    PROVE  IInv'
<1>1. /\ job[i].pc = "prune" /\ job' = [job EXCEPT ![i] = Idle]
      /\ IF job[i].first /\ poller.sentinel = "last"
         THEN Upsert(sentinel' = TRUE, UNCHANGED sentinel)
         ELSE UNCHANGED <<sentinel, faultVars>>
      /\ UNCHANGED <<sourceVars, rows, cursor, firedAt, toldVars, leaseVars>>
  BY DEF Finish, Quit
<1>2. TypeOK /\ Phases BY DEF IInv
<1>3. poller.kind = "set" BY <1>1, <1>2 DEF Phases, PhasesOf, SetSteps
<1>4. Bounded /\ Grown /\ Recognised /\ Baselined BY <1>3, SetParts
<1>5. newest \in Nat /\ \A x \in Items : source[x] \in Int BY <1>2, SetTypes
<1>6. Idle \in Jobs /\ Idle.pc = "idle" /\ Fresh(Idle) /\ \A x \in Items : Idle.view[x] = 0
  BY IdlePoll DEF Fresh
<1>7. (UNCHANGED faultVars \/ Failure) /\ sentinel' \in BOOLEAN
  BY <1>1, <1>2 DEF Upsert, TypeOK, faultVars
<1>8. TypeOK' /\ Grows
  <2>1. job' \in [Instances -> Jobs] BY <1>1, <1>2, <1>6, JobStep
  <2>2. /\ rows' \in [Instances \cup {Table} -> [Items -> 0 .. MaxStamp]]
        /\ cursor' \in 0 .. MaxStamp /\ firedAt' \subseteq Items
        /\ told' \in [Instances -> SUBSET Events] /\ again' \subseteq Events
        /\ silent' \subseteq Events
    BY <1>1, <1>2 DEF TypeOK, toldVars
  <2> QED BY <1>1, <1>2, <1>7, <2>1, <2>2, TypesStep
<1>9. SilentCase' => SilentCase BY <1>2, <1>8, CasesKeep
<1>10. PhasesOf(Idle) BY <1>6 DEF PhasesOf, SetSteps, CursorSteps, BaseSteps, Fresh
<1>11. Idle.top <= newest /\ \A x \in Items : Idle.view[x] <= newest
  BY <1>5, <1>6 DEF Fresh
<1>12. GrownOf(i, Idle)
  <2>1. \A x \in Items : ~(Idle.view[x] > 0) BY <1>6
  <2>2. ASSUME NEW x \in Items, source[x] > 0 PROVE Idle.view[x] <= source[x]
    <3>1. Idle.view[x] = 0 /\ source[x] \in Int BY <1>5, <1>6
    <3> QED BY <2>2, <3>1
  <2> QED BY <2>1, <2>2 DEF GrownOf
<1>13. RecognisedOf(Idle) /\ BaselinedOf(Idle)
  BY <1>6 DEF RecognisedOf, BaselinedOf, SetSteps
<1>14. \/ sentinel' = sentinel
       \/ /\ sentinel' \in BOOLEAN /\ poller.sentinel # "none" /\ Idle.pc # "listed"
          /\ SilentCase' => sentinel' /\ \A x \in Items : Existing(x) =>
                               rows[Table][x] = 1 \/ LeftOf(x, Idle)
  <2>1. CASE ~(job[i].first /\ poller.sentinel = "last") BY <1>1, <2>1
  <2>2. CASE job[i].first /\ poller.sentinel = "last"
    <3>1. ASSUME SilentCase'
          PROVE  sentinel' /\ \A x \in Items : Existing(x) => rows[Table][x] = 1
      <4>1. failed' = 0 /\ failed \in Nat BY <1>2, <3>1 DEF SilentCase, TypeOK
      <4>2. ~Failure BY <4>1 DEF Failure
      <4>3. sentinel' BY <1>1, <2>2, <4>2 DEF Upsert
      <4>4. BaselinedOf(job[i]) BY <1>4, <1>9, <3>1 DEF Baselined
      <4> QED BY <1>1, <2>2, <4>3, <4>4 DEF BaselinedOf
    <3> QED BY <1>6, <1>7, <2>2, <3>1
  <2> QED BY <2>1, <2>2
<1>15. \A x \in Items : ~LeftOf(x, job[i]) BY <1>1 DEF LeftOf
<1> QED
  BY <1>1, <1>3, <1>6, <1>7, <1>10, <1>11, <1>12, <1>13, <1>14, <1>15, SetJobKeeps
  DEF Working

\* The flow of an item that has just been stored starts: nobody has started it,
\* and it is not one of those that were there before.
LEMMA TellSiftedKeeps ==
    ASSUME IInv, NEW i \in Instances, TellSifted(i)
    PROVE  IInv'
<1>0. PICK m, v : m = job[i].mark /\ v = job[i].view
  OBVIOUS
<1> DEFINE e == <<m, v[m]>>
<1>1. /\ job[i].pc = "tell" /\ Tell(i, e)
      /\ UNCHANGED <<sourceVars, rowVars, silent, faultVars, leaseVars>>
  BY <1>0 DEF TellSifted
<1>2. TypeOK /\ Phases BY DEF IInv
<1>3. poller.kind = "set" BY <1>1, <1>2 DEF Phases, PhasesOf, SetSteps
<1>4. /\ Bounded /\ Silent /\ Grown /\ Recognised /\ Baselined /\ StoredIsHandled
      /\ OnceCase => NoneTwice
  BY <1>3, SetParts
<1>5. PICK j \in Jobs :
        /\ job' = [job EXCEPT ![i] = j] /\ j.pc = "sift"
        /\ j.view = v /\ j.known = job[i].known /\ j.todo = job[i].todo
        /\ j.first = job[i].first /\ j.ids = job[i].ids /\ j.top = job[i].top
  <2> DEFINE h == [job[i] EXCEPT !.pc = "sift", !.mark = 0]
  <2>1. job[i] \in Jobs BY <1>2 DEF TypeOK
  <2>2. 0 \in 0 .. MaxStamp OBVIOUS
  <2>3. h \in Jobs BY <2>1, <2>2 DEF Jobs, Steps
  <2>4. job' = [job EXCEPT ![i] = h] BY <1>2 DEF TypeOK, TellSifted
  <2>5. /\ h.pc = "sift" /\ h.view = v /\ h.known = job[i].known /\ h.todo = job[i].todo
        /\ h.first = job[i].first /\ h.ids = job[i].ids /\ h.top = job[i].top
    BY <1>0, <2>1 DEF Jobs
  <2> HIDE DEF h
  <2> QED BY <2>3, <2>4, <2>5
<1>6. PhasesOf(job[i]) /\ GrownOf(i, job[i]) BY <1>2, <1>4 DEF Phases, Grown
<1>7. e \in Events /\ m \in Items /\ v[m] \in Stamps /\ m \notin job[i].todo \cup job[i].ids
  <2>1. m \in Items /\ v[m] > 0 /\ m \notin job[i].todo \cup job[i].ids
    BY <1>0, <1>1, <1>6 DEF PhasesOf
  <2>2. v \in Views BY <1>0, <1>2 DEF TypeOK, Jobs
  <2>3. v[m] \in Stamps
    <3>1. v[m] \in -1 .. MaxStamp /\ v[m] > 0 BY <2>1, <2>2 DEF Views
    <3> QED BY <3>1 DEF Stamps
  <2> QED BY <2>1, <2>3 DEF Events
<1>8. /\ told' \in [Instances -> SUBSET Events] /\ again' \subseteq Events
      /\ \A f : IsTold(f)' <=> IsTold(f) \/ f = e
      /\ NoneTwice /\ ~IsTold(e) => NoneTwice'
  <2> HIDE DEF e
  <2> QED BY <1>1, <1>2, <1>7, Tells
<1>9. TypeOK' /\ Grows
  <2>1. job' \in [Instances -> Jobs] BY <1>2, <1>5, JobStep
  <2>2. /\ rows' \in [Instances \cup {Table} -> [Items -> 0 .. MaxStamp]]
        /\ sentinel' \in BOOLEAN /\ cursor' \in 0 .. MaxStamp /\ firedAt' \subseteq Items
        /\ silent' \subseteq Events
    BY <1>1, <1>2 DEF TypeOK, rowVars
  <2> QED BY <1>1, <1>2, <1>8, <2>1, <2>2, TypesStep
<1>10. /\ job'[i] = j
       /\ \A k \in Instances : k # i => job'[k] = job[k]
       /\ poller' = poller /\ source' = source /\ newest' = newest
       /\ OnceCase' => OnceCase
       /\ SilentCase' => SilentCase
       /\ Sole' => Sole
       /\ faults' = 0 => faults = 0
       /\ UnderLease'
       /\ \A k \in Instances : Place(k)' = Place(k)
       /\ OnceCase => \A k \in Instances : k # i => ~Working(k)
  BY <1>1, <1>3, <1>5, <1>9, SetStep DEF Working
<1>11. rows' = rows /\ sentinel' = sentinel /\ cursor' = cursor /\ silent' = silent
  BY <1>1 DEF rowVars
<1>12. /\ \A x, s : IsTold(<<x, s>>)' <=> IsTold(<<x, s>>) \/ (x = m /\ s = v[m])
       /\ \A x, s : Handled(<<x, s>>)' <=> Handled(<<x, s>>) \/ (x = m /\ s = v[m])
       /\ \A x : Existing(x)' <=> Existing(x)
  BY <1>8, <1>10, <1>11 DEF Handled, Existing
<1> HIDE DEF e
<1>13. Phases'
  <2>1. PhasesOf(j) BY <1>0, <1>1, <1>3, <1>5, <1>6 DEF PhasesOf, SetSteps, CursorSteps, BaseSteps
  <2> QED BY <1>2, <1>10, <2>1 DEF Phases, PhasesOf
<1>14. Bounded'
  <2>1. \A x \in Items, s \in Stamps : Handled(<<x, s>>)' => s <= newest
    BY <1>0, <1>4, <1>7, <1>12 DEF Bounded
  <2>2. \A k \in Instances : /\ \A x \in Items : job'[k].view[x] <= newest
                             /\ job'[k].top <= newest
    BY <1>0, <1>4, <1>5, <1>10 DEF Bounded
  <2> QED BY <1>4, <1>10, <1>11, <2>1, <2>2 DEF Bounded
<1>15. Silent'
  <2>1. SilentCase => ~(m \in Old /\ v[m] = 1) BY <1>0, <1>1, <1>4 DEF Baselined, BaselinedOf
  <2> QED BY <1>4, <1>10, <1>12, <2>1 DEF Silent
<1>16. Grown'
  <2>1. GrownOf(i, j) BY <1>0, <1>1, <1>5, <1>6 DEF GrownOf
  <2>2. ASSUME NEW k \in Instances PROVE GrownOf(k, job[k])'
    <3>1. GrownOf(k, job'[k]) BY <1>4, <1>10, <2>1 DEF Grown
    <3> QED BY <1>10, <1>11, <3>1 DEF GrownOf
  <2> QED BY <1>4, <1>10, <1>11, <2>2 DEF Grown
<1>17. ASSUME OnceCase'
       PROVE  ~IsTold(e) /\ Recognised'
  <2>1. /\ \A x \in Items : IsTold(<<x, source[x]>>) => rows[Table][x] = source[x]
        /\ RecognisedOf(job[i])
    BY <1>4, <1>10, <1>17 DEF Recognised
  <2>2. ~IsTold(e) /\ rows[Table][m] = v[m] BY <1>0, <1>1, <2>1 DEF RecognisedOf, e
  <2>3. \A x \in Items : IsTold(<<x, source[x]>>)' => rows[Table][x] = source[x]
    BY <1>10, <1>12, <2>1, <2>2
  <2>4. RecognisedOf(j)'
    <3>1. \A x \in Items : IsTold(<<x, source[x]>>)' => j.view[x] = source[x]
      BY <1>0, <1>1, <1>5, <1>10, <1>12, <2>1 DEF RecognisedOf
    <3>2. \A x \in j.todo : ~IsTold(<<x, j.view[x]>>)'
      BY <1>0, <1>1, <1>5, <1>7, <1>12, <2>1 DEF RecognisedOf
    <3>3. poller.failedWrite = "leftover" => \A x \in j.ids : ~IsTold(<<x, j.view[x]>>)'
      BY <1>0, <1>1, <1>5, <1>7, <1>12, <2>1 DEF RecognisedOf
    <3> QED BY <1>5, <1>10, <1>11, <3>1, <3>2, <3>3 DEF RecognisedOf
  <2>5. ASSUME NEW k \in Instances, k # i PROVE RecognisedOf(job[k])'
    <3>1. ~Working(k) /\ job'[k] = job[k] BY <1>10, <1>17, <2>5
    <3> QED BY <3>1 DEF RecognisedOf, Working
  <2>6. ASSUME NEW k \in Instances PROVE RecognisedOf(job[k])'
    BY <1>10, <2>4, <2>5
  <2> QED BY <1>10, <1>11, <2>2, <2>3, <2>6 DEF Recognised
<1>18. Baselined'
  <2>1. CASE ~SilentCase' BY <1>4, <1>10, <1>11, <2>1 DEF Baselined
  <2>2. CASE SilentCase'
    <3>0. /\ \A k \in Instances : BaselinedOf(job[k])
          /\ sentinel => \A x \in Items : Existing(x) =>
                rows[Table][x] = 1 \/ \E k \in Instances : LeftOf(x, job[k])
      BY <1>4, <1>10, <2>2 DEF Baselined
    <3>1. BaselinedOf(j) BY <1>0, <1>1, <1>5, <3>0 DEF BaselinedOf, SetSteps
    <3>2. ASSUME NEW k \in Instances PROVE BaselinedOf(job[k])'
      <4>1. BaselinedOf(job'[k]) BY <1>10, <3>0, <3>1
      <4> QED BY <1>10, <1>11, <1>12, <4>1 DEF BaselinedOf
    <3>3. \A x \in Items, k \in Instances : LeftOf(x, job[k]) => LeftOf(x, job'[k])
      BY <1>5, <1>10 DEF LeftOf
    <3>4. \A x \in Items, k \in Instances : LeftOf(x, job[k])' <=> LeftOf(x, job'[k])
      BY <1>10 DEF LeftOf
    <3>5. ASSUME sentinel, NEW x \in Items, Existing(x), rows[Table][x] # 1
          PROVE  \E k \in Instances : LeftOf(x, job[k])'
      BY <3>0, <3>3, <3>4, <3>5
    <3> QED BY <1>4, <1>10, <1>11, <1>12, <3>2, <3>5 DEF Baselined
  <2> QED BY <2>1, <2>2
<1>19. StoredIsHandled'
  <2>1. ASSUME faults = 0, NEW x \in Items, rows[Table][x] > 0
        PROVE  \/ Handled(<<x, rows[Table][x]>>)'
               \/ \E k \in Instances : AboutTo(x, rows[Table][x], job'[k])
    <3>1. CASE Handled(<<x, rows[Table][x]>>) BY <1>11, <1>12, <3>1
    <3>2. CASE \E k \in Instances : AboutTo(x, rows[Table][x], job[k])
      <4>1. PICK k \in Instances : AboutTo(x, rows[Table][x], job[k]) BY <3>2
      <4>2. CASE k = i
        <5>1. x = m /\ rows[Table][x] = v[m] BY <1>0, <4>1, <4>2 DEF AboutTo
        <5> QED BY <1>11, <1>12, <5>1
      <4>3. CASE k # i BY <1>10, <4>1, <4>3
      <4> QED BY <4>2, <4>3
    <3> QED BY <1>4, <2>1, <3>1, <3>2 DEF StoredIsHandled
  <2> QED BY <1>10, <1>11, <2>1 DEF StoredIsHandled, AboutTo
<1>20. OnceCase' => NoneTwice' BY <1>4, <1>8, <1>10, <1>17
<1>21. Recognised' BY <1>17 DEF Recognised
<1> QED
  BY <1>3, <1>9, <1>10, <1>13, <1>14, <1>15, <1>16, <1>18, <1>19, <1>20, <1>21, SetWhole

\* An item is stored, and then it fires or is part of the baseline.
LEMMA SiftKeeps ==
    ASSUME IInv, NEW i \in Instances, NEW x \in Items, Sift(i, x)
    PROVE  IInv'
<1>1. /\ job[i].pc = "sift" /\ x \in job[i].todo
      /\ UNCHANGED <<sourceVars, sentinel, cursor, firedAt, told, again, leaseVars>>
  BY DEF Sift
<1>2. TypeOK /\ Phases BY DEF IInv
<1>3. poller.kind = "set" BY <1>1, <1>2 DEF Phases, PhasesOf, SetSteps
<1>4. /\ Bounded /\ Silent /\ Grown /\ Recognised /\ Baselined /\ StoredIsHandled
      /\ OnceCase => NoneTwice
  BY <1>3, SetParts
<1>5. /\ PhasesOf(job[i]) /\ GrownOf(i, job[i])
      /\ newest \in Nat /\ \A y \in Items : source[y] \in Int
      /\ ProfileFits(poller)
      /\ job[i] \in Jobs /\ job[i].view \in Views
      /\ ~poller.private => Place(i) = Table
      /\ poller.private => Place(i) # Table
  BY <1>2, <1>4, SetTypes, Places DEF Phases, Grown, TypeOK, Jobs
<1>6. PICK p, s : p = Place(i) /\ s = job[i].view[x]
  OBVIOUS
<1> DEFINE fires == Fires(i, x)
<1>7. /\ p \in Instances \cup {Table} /\ s \in Stamps /\ <<x, s>> \in Events
      /\ x \notin job[i].ids
  <2>1. s \in -1 .. MaxStamp /\ s > 0 BY <1>1, <1>5, <1>6 DEF Views, PhasesOf
  <2>2. s \in Stamps BY <2>1 DEF Stamps
  <2> QED BY <1>1, <1>2, <1>5, <1>6, <2>2, Places DEF Events, PhasesOf
\* It was stored, or the write failed.
<1>8. PICK j \in Jobs :
        /\ job' = [job EXCEPT ![i] = j]
        /\ j.view = job[i].view /\ j.known = job[i].known /\ j.first = job[i].first
        /\ j.top = job[i].top /\ j.todo = job[i].todo \ {x}
        /\ \/ /\ j.pc = "tell" /\ j.mark = x /\ fires
           \/ j.pc = "sift" /\ ~fires
           \/ j.pc = "sift" /\ Failure /\ silent' = silent
        /\ j.ids = job[i].ids \/ (j.ids = job[i].ids \cup {x} /\ j.pc = "sift" /\ Failure)
        /\ \/ /\ Store(i, x, s) /\ UNCHANGED faultVars
              /\ silent' = IF fires THEN silent ELSE silent \cup {<<x, s>>}
           \/ /\ Failure /\ silent' = silent /\ (Store(i, x, s) \/ UNCHANGED rows)
              /\ poller.failedWrite = "ignore" \/ (j.pc = "sift" /\ j.ids = job[i].ids \cup {x})
  <2> DEFINE goes == [job[i] EXCEPT !.todo = @ \ {x}, !.pc = IF Fires(i, x) THEN "tell" ELSE "sift",
                                    !.mark = IF Fires(i, x) THEN x ELSE 0]
             stays == [job[i] EXCEPT !.todo = @ \ {x}, !.ids = @ \cup {x}]
  <2>1. goes \in Jobs
    <3>1. 0 \in 0 .. MaxStamp OBVIOUS
    <3> QED BY <1>5, <3>1 DEF Jobs, Steps
  <2>2. stays \in Jobs BY <1>5 DEF Jobs
  <2>3. /\ goes.view = job[i].view /\ goes.known = job[i].known /\ goes.first = job[i].first
        /\ goes.top = job[i].top /\ goes.todo = job[i].todo \ {x} /\ goes.ids = job[i].ids
        /\ fires => goes.pc = "tell" /\ goes.mark = x
        /\ ~fires => goes.pc = "sift"
    BY <1>5, <1>6 DEF Jobs
  <2>4. /\ stays.view = job[i].view /\ stays.known = job[i].known /\ stays.first = job[i].first
        /\ stays.top = job[i].top /\ stays.todo = job[i].todo \ {x}
        /\ stays.ids = job[i].ids \cup {x} /\ stays.pc = "sift"
    BY <1>1, <1>5 DEF Jobs
  <2>5. \/ /\ Store(i, x, s) /\ UNCHANGED faultVars /\ job' = [job EXCEPT ![i] = goes]
           /\ silent' = IF fires THEN silent ELSE silent \cup {<<x, s>>}
        \/ /\ Failure /\ silent' = silent /\ (Store(i, x, s) \/ UNCHANGED rows)
           /\ \/ poller.failedWrite = "ignore" /\ job' = [job EXCEPT ![i] = goes]
              \/ job' = [job EXCEPT ![i] = stays]
    BY <1>2, <1>6 DEF Sift, TypeOK
  <2> HIDE DEF goes, stays, fires
  <2>6. CASE /\ Store(i, x, s) /\ UNCHANGED faultVars /\ job' = [job EXCEPT ![i] = goes]
             /\ silent' = IF fires THEN silent ELSE silent \cup {<<x, s>>}
    BY <2>1, <2>3, <2>6
  <2>7. CASE /\ Failure /\ silent' = silent /\ (Store(i, x, s) \/ UNCHANGED rows)
             /\ poller.failedWrite = "ignore" /\ job' = [job EXCEPT ![i] = goes]
    BY <2>1, <2>3, <2>7
  <2>8. CASE /\ Failure /\ silent' = silent /\ (Store(i, x, s) \/ UNCHANGED rows)
             /\ job' = [job EXCEPT ![i] = stays]
    BY <2>2, <2>4, <2>8
  <2> QED BY <2>5, <2>6, <2>7, <2>8
<1> HIDE DEF fires
<1>9. (UNCHANGED faultVars \/ Failure) /\ (Store(i, x, s) \/ rows' = rows)
      /\ (silent' = silent \/ silent' = silent \cup {<<x, s>>})
  BY <1>8
<1>10. /\ rows' \in [Instances \cup {Table} -> [Items -> 0 .. MaxStamp]]
       /\ \A q \in Instances \cup {Table}, y \in Items :
             rows'[q][y] = rows[q][y] \/ (q = p /\ y = x /\ rows'[q][y] = s)
       /\ Store(i, x, s) => rows'[p][x] = s
  <2>1. rows \in [Instances \cup {Table} -> [Items -> 0 .. MaxStamp]] /\ s \in 0 .. MaxStamp
    BY <1>2, <1>7 DEF TypeOK, Stamps
  <2>2. CASE rows' = [rows EXCEPT ![p][x] = s]
    <3>1. rows' = [rows EXCEPT ![p] = [rows[p] EXCEPT ![x] = s]] BY <2>2
    <3>2. [rows[p] EXCEPT ![x] = s] \in [Items -> 0 .. MaxStamp] BY <1>7, <2>1
    <3> QED BY <1>7, <2>1, <3>1, <3>2
  <2>3. CASE rows' = rows /\ ~Store(i, x, s) BY <2>1, <2>3
  <2> QED BY <1>6, <1>9, <2>2, <2>3 DEF Store
<1>11. TypeOK' /\ Grows
  <2>1. job' \in [Instances -> Jobs] BY <1>2, <1>8, JobStep
  <2>2. /\ sentinel' \in BOOLEAN /\ cursor' \in 0 .. MaxStamp /\ firedAt' \subseteq Items
        /\ told' \in [Instances -> SUBSET Events] /\ again' \subseteq Events
        /\ silent' \subseteq Events
    BY <1>1, <1>2, <1>7, <1>9 DEF TypeOK
  <2> QED BY <1>1, <1>2, <1>9, <1>10, <2>1, <2>2, TypesStep
<1>12. /\ job'[i] = j
       /\ \A k \in Instances : k # i => job'[k] = job[k]
       /\ poller' = poller /\ source' = source /\ newest' = newest
       /\ OnceCase' => OnceCase
       /\ SilentCase' => SilentCase
       /\ Sole' => Sole
       /\ faults' = 0 => faults = 0
       /\ UnderLease'
       /\ \A k \in Instances : Place(k)' = Place(k)
       /\ OnceCase \/ (SilentCase /\ poller.sentinel # "none") =>
             /\ Place(i) = Table
             /\ \A k \in Instances : k # i => ~Working(k)
       /\ Sole => \A k \in Instances : k # i /\ Working(k) => Place(k) # Place(i)
  BY <1>1, <1>3, <1>8, <1>11, SetStep DEF Working
<1>13. /\ told' = told /\ again' = again /\ sentinel' = sentinel /\ cursor' = cursor
       /\ \A e : IsTold(e)' <=> IsTold(e)
       /\ \A e : Handled(e) => Handled(e)'
       /\ \A e : Handled(e)' => Handled(e) \/ e = <<x, s>>
       /\ \A y : Existing(y)' <=> Existing(y)
  BY <1>1, <1>9, <1>12 DEF IsTold, Handled, Existing
<1>14. ASSUME OnceCase' \/ SilentCase' \/ faults' = 0, Failure
       PROVE  OnceCase' /\ poller.failedWrite # "ignore"
  <2>1. failed' = failed + 1 /\ failed \in Nat BY <1>2, <1>14 DEF TypeOK, Failure
  <2>2. faults' = faults + 1 /\ faults \in Nat
    <3>1. faults \in 0 .. MaxFaults BY <1>2 DEF TypeOK
    <3> QED BY <1>14, <3>1 DEF Failure
  <2>3. ~SilentCase' /\ faults' # 0 BY <2>1, <2>2 DEF SilentCase
  <2>4. OnceCase' BY <1>14, <2>3
  <2> QED BY <1>3, <1>12, <2>1, <2>4 DEF OnceCase, StoresFirst
<1>15. Phases'
  <2>1. PhasesOf(j)
    BY <1>1, <1>3, <1>5, <1>6, <1>7, <1>8
    DEF PhasesOf, SetSteps, CursorSteps, BaseSteps
  <2> QED BY <1>2, <1>12, <2>1 DEF Phases, PhasesOf
<1>16. Bounded'
  <2>1. s <= newest BY <1>4, <1>6 DEF Bounded
  <2>2. \A q \in Instances \cup {Table}, y \in Items : rows'[q][y] <= newest
    BY <1>4, <1>10, <2>1 DEF Bounded
  <2>3. \A k \in Instances : /\ \A y \in Items : job'[k].view[y] <= newest
                             /\ job'[k].top <= newest
    BY <1>4, <1>8, <1>12 DEF Bounded
  <2>4. \A y \in Items, t \in Stamps : Handled(<<y, t>>)' => t <= newest
    BY <1>4, <1>13, <2>1 DEF Bounded
  <2> QED BY <1>4, <1>12, <1>13, <2>2, <2>3, <2>4 DEF Bounded
<1>17. Silent' BY <1>4, <1>12, <1>13 DEF Silent
<1>18. Grown'
  <2>1. GrownOf(i, j)
    BY <1>1, <1>5, <1>8 DEF GrownOf
  <2>2. \A q \in Instances \cup {Table}, y \in Items : source[y] > 0 => rows'[q][y] <= source[y]
    BY <1>4, <1>5, <1>6, <1>10 DEF Grown, GrownOf
  <2>3. ASSUME NEW k \in Instances PROVE GrownOf(k, job[k])'
    <3>1. GrownOf(k, job'[k]) BY <1>4, <1>12, <2>1 DEF Grown
    <3>2. ASSUME Sole, job'[k].pc = "listed", NEW y \in Items
          PROVE  rows'[Place(k)][y] = rows[Place(k)][y]
      <4>1. k # i BY <1>8, <1>12, <3>2
      <4>2. Place(k) # p /\ Place(k) \in Instances \cup {Table}
        BY <1>2, <1>6, <1>12, <3>2, <4>1, Places DEF Working
      <4> QED BY <1>10, <4>2
    <3> QED BY <1>12, <3>1, <3>2 DEF GrownOf
  <2> QED BY <1>12, <2>2, <2>3 DEF Grown
<1>19. ASSUME OnceCase'
       PROVE  Recognised'
  <2>1. /\ \A y \in Items : IsTold(<<y, source[y]>>) => rows[Table][y] = source[y]
        /\ RecognisedOf(job[i]) /\ p = Table
    BY <1>4, <1>6, <1>12, <1>19 DEF Recognised
  <2>2. ~IsTold(<<x, s>>) BY <1>1, <1>6, <2>1 DEF RecognisedOf
  <2>3. \A y \in Items : IsTold(<<y, source[y]>>) => rows'[Table][y] = source[y]
    <3> SUFFICES ASSUME NEW y \in Items, IsTold(<<y, source[y]>>) PROVE rows'[Table][y] = source[y]
      OBVIOUS
    <3>1. y = x => source[y] # s BY <2>2
    <3>2. y = x => job[i].view[y] = source[y] BY <1>1, <2>1 DEF RecognisedOf
    <3>3. y # x BY <1>6, <3>1, <3>2
    <3> QED BY <1>10, <2>1, <3>3
  <2>4. RecognisedOf(j)'
    <3>1. \A y \in Items : IsTold(<<y, source[y]>>) => j.view[y] = source[y]
      BY <1>1, <1>8, <2>1 DEF RecognisedOf
    <3>2. \A y \in j.todo : ~IsTold(<<y, j.view[y]>>)
      BY <1>1, <1>8, <2>1 DEF RecognisedOf
    <3>3. poller.failedWrite = "leftover" => \A y \in j.ids : ~IsTold(<<y, j.view[y]>>)
      BY <1>1, <1>6, <1>8, <2>1, <2>2 DEF RecognisedOf
    <3>4. j.pc = "tell" => /\ ~IsTold(<<j.mark, j.view[j.mark]>>)
                           /\ rows'[Table][j.mark] = j.view[j.mark]
      <4>1. j.pc = "tell" => j.mark = x /\ j.view[x] = s BY <1>6, <1>8
      <4>2. j.pc = "tell" => Store(i, x, s) BY <1>8, <1>14, <1>19
      <4> QED BY <1>10, <2>1, <2>2, <4>1, <4>2
    <3>5. j.pc \in {"sift", "tell"} BY <1>8
    <3> QED BY <1>12, <1>13, <3>1, <3>2, <3>3, <3>4, <3>5 DEF RecognisedOf
  <2>5. ASSUME NEW k \in Instances PROVE RecognisedOf(job[k])'
    <3>1. CASE k = i BY <1>12, <2>4, <3>1 DEF RecognisedOf
    <3>2. CASE k # i
      <4>1. ~Working(k) /\ job'[k] = job[k] BY <1>12, <1>19, <3>2
      <4> QED BY <4>1 DEF RecognisedOf, Working
    <3> QED BY <3>1, <3>2
  <2> QED BY <1>12, <1>13, <2>3, <2>5 DEF Recognised
<1>20. Recognised' BY <1>19 DEF Recognised
<1>21. Baselined'
  <2>1. CASE ~SilentCase' BY <1>4, <1>12, <1>13, <2>1 DEF Baselined
  <2>2. CASE SilentCase'
    <3>0. /\ \A k \in Instances : BaselinedOf(job[k])
          /\ sentinel => \A y \in Items : Existing(y) =>
                rows[Table][y] = 1 \/ \E k \in Instances : LeftOf(y, job[k])
          /\ sentinel => poller.sentinel # "none"
      BY <1>4, <1>12, <2>2 DEF Baselined
    <3>1. Store(i, x, s) /\ j.ids = job[i].ids /\ ~Failure
      <4>1. failed' = 0 /\ failed \in Nat BY <1>2, <2>2 DEF SilentCase, TypeOK
      <4>2. ~Failure BY <4>1 DEF Failure
      <4> QED BY <1>8, <4>2
    <3>2. Existing(x) => s = 1 BY <1>1, <1>6, <3>0 DEF BaselinedOf
    <3>3. poller.sentinel # "none" => p = Table BY <1>6, <1>12, <2>2
    <3>4. ASSUME NEW y \in Items, Existing(y), rows[Table][y] = 1 PROVE rows'[Table][y] = 1
      BY <1>10, <3>2, <3>4
    <3>5. poller.sentinel # "none" /\ Existing(x) => rows'[Table][x] = 1
      BY <1>10, <3>1, <3>2, <3>3
    <3>6. BaselinedOf(job[i]) BY <3>0
    <3>7. BaselinedOf(j)'
      <4>1. j.pc = "tell" => ~(j.mark \in Old /\ j.view[j.mark] = 1)
        <5> SUFFICES ASSUME j.pc = "tell", x \in Old, s = 1 PROVE FALSE BY <1>6, <1>8
        <5>1. Fires(i, x) BY <1>8, <3>1 DEF fires
        <5>2. job[i].known[x] = 0 BY <1>1, <1>6, <3>6 DEF BaselinedOf
        <5>3. poller.firesNew /\ ~job[i].first BY <5>1, <5>2 DEF Fires
        <5>4. poller.sentinel # "none" BY <1>3, <1>5, <5>3 DEF ProfileFits
        <5> QED BY <1>1, <1>6, <3>6, <5>3, <5>4 DEF BaselinedOf
      <4>2. j.first => \A y \in Items : Existing(y) => y \in j.todo \/ rows'[Table][y] = 1
        <5>1. j.first => poller.sentinel # "none" BY <1>5, <1>8 DEF PhasesOf
        <5> QED BY <1>1, <1>8, <3>4, <3>5, <3>6, <5>1 DEF BaselinedOf
      <4>3. j.pc \in {"sift", "tell"} /\ j.ids = {}
        BY <1>1, <1>8, <3>1, <3>6 DEF BaselinedOf, SetSteps
      <4>4. /\ \A y \in Items : Existing(y) => j.view[y] = 1
            /\ ~j.first /\ poller.sentinel # "none" =>
                  \A y \in Old : j.view[y] = 1 => y \notin j.todo
            /\ \A y \in j.todo : j.view[y] = 1 => j.known[y] = 0
        BY <1>1, <1>8, <3>6 DEF BaselinedOf
      <4> QED BY <1>12, <1>13, <4>1, <4>2, <4>3, <4>4 DEF BaselinedOf
    <3>8. ASSUME NEW k \in Instances, k # i PROVE BaselinedOf(job[k])'
      <4>1. BaselinedOf(job'[k]) /\ job'[k] = job[k] BY <1>12, <3>0, <3>8
      <4>2. CASE Working(k)
        <5>1. poller.sentinel = "none" BY <1>12, <2>2, <3>8, <4>2
        <5>2. ~sentinel /\ ~job[k].first
          BY <1>2, <3>0, <5>1 DEF Phases, PhasesOf
        <5> QED BY <1>12, <1>13, <4>1, <5>1, <5>2 DEF BaselinedOf
      <4>3. CASE ~Working(k) BY <1>12, <1>13, <4>1, <4>3 DEF BaselinedOf, Working, SetSteps
      <4> QED BY <4>2, <4>3
    <3>9. ASSUME sentinel, NEW y \in Items, Existing(y)
          PROVE  rows'[Table][y] = 1 \/ \E k \in Instances : LeftOf(y, job[k])'
      <4>1. CASE rows[Table][y] = 1 BY <3>4, <3>9, <4>1
      <4>2. CASE y = x BY <3>0, <3>5, <3>9, <4>2
      <4>3. CASE y # x /\ \E k \in Instances : LeftOf(y, job[k])
        <5>1. PICK k \in Instances : LeftOf(y, job[k]) BY <4>3
        <5>2. LeftOf(y, job'[k])
          BY <1>8, <1>12, <4>3, <5>1 DEF LeftOf
        <5> QED BY <1>12, <5>2 DEF LeftOf
      <4> QED BY <3>0, <3>9, <4>1, <4>2, <4>3
    <3>10. ASSUME NEW k \in Instances PROVE BaselinedOf(job[k])'
      <4>1. CASE k = i BY <1>12, <3>7, <4>1 DEF BaselinedOf
      <4> QED BY <3>8, <4>1
    <3> QED BY <1>4, <1>12, <1>13, <3>9, <3>10 DEF Baselined
  <2> QED BY <2>1, <2>2
<1>22. StoredIsHandled'
  <2> SUFFICES ASSUME faults' = 0, NEW y \in Items, rows'[Table][y] > 0
               PROVE  \/ Handled(<<y, rows[Table][y]>>)'
                      \/ \E k \in Instances : AboutTo(y, rows'[Table][y], job'[k])
    BY DEF StoredIsHandled, AboutTo
  <2>1. ~Failure
    <3>1. faults \in 0 .. MaxFaults BY <1>2 DEF TypeOK
    <3> QED BY <3>1 DEF Failure
  <2>2. CASE rows'[Table][y] = rows[Table][y]
    <3>1. CASE Handled(<<y, rows[Table][y]>>)
      <4>1. PICK t : t = rows[Table][y] OBVIOUS
      <4>2. Handled(<<y, t>>)' BY <1>13, <3>1, <4>1
      <4>3. rows'[Table][y] = t BY <2>2, <4>1
      <4> QED BY <4>2, <4>3
    <3>2. CASE \E k \in Instances : AboutTo(y, rows[Table][y], job[k])
      <4>1. PICK k \in Instances : AboutTo(y, rows[Table][y], job[k]) BY <3>2
      <4>2. k # i BY <1>1, <4>1 DEF AboutTo
      <4> QED BY <1>12, <2>2, <4>1, <4>2
    <3> QED BY <1>4, <1>12, <2>2, <3>1, <3>2 DEF StoredIsHandled
  <2>3. CASE y = x /\ rows'[Table][y] = s
    <3>1. CASE fires
      <4>1. j.pc = "tell" /\ j.mark = x /\ j.view[x] = s BY <1>6, <1>8, <2>1, <3>1
      <4> QED BY <1>12, <2>3, <4>1 DEF AboutTo
    <3>2. CASE ~fires
      <4>1. <<x, s>> \in silent' BY <1>8, <2>1, <3>2
      <4>2. <<y, rows'[Table][y]>> \in silent' BY <2>3, <4>1
      <4> QED BY <4>2 DEF Handled
    <3> QED BY <3>1, <3>2
  <2> QED BY <1>10, <2>2, <2>3
<1>23. OnceCase' => NoneTwice' BY <1>4, <1>12, <1>13 DEF NoneTwice
<1> QED
  BY <1>3, <1>11, <1>12, <1>15, <1>16, <1>17, <1>18, <1>20, <1>21, <1>22, <1>23, SetWhole

\* An item that is forgotten has not fired as it is, and was not there before.
LEMMA PruneKeeps ==
    ASSUME IInv, NEW i \in Instances, NEW x \in Items, Prune(i, x)
    PROVE  IInv'
<1>1. /\ job[i].pc = "prune" /\ x \in job[i].todo
      /\ UNCHANGED <<provider, sentinel, cursor, firedAt, toldVars, leaseVars>>
  BY DEF Prune, provider
<1>2. TypeOK /\ Phases BY DEF IInv
<1>3. poller.kind = "set" BY <1>1, <1>2 DEF Phases, PhasesOf, SetSteps
<1>4. /\ Bounded /\ Silent /\ Grown /\ Recognised /\ Baselined /\ StoredIsHandled
      /\ OnceCase => NoneTwice
  BY <1>3, SetParts
<1>5. /\ PhasesOf(job[i]) /\ GrownOf(i, job[i]) /\ job[i] \in Jobs
      /\ newest \in Nat /\ \A y \in Items : source[y] \in Int
      /\ \A q \in Instances \cup {Table}, y \in Items : rows[q][y] \in Nat
      /\ \A k \in Instances, y \in Items : job[k].view[y] \in Int
      /\ \A y, s : IsTold(<<y, s>>) => s \in Nat \ {0}
      /\ Place(i) \in Instances \cup {Table}
  BY <1>2, <1>4, SetTypes, Places DEF Phases, Grown, TypeOK
<1>6. PICK j \in Jobs :
        /\ job' = [job EXCEPT ![i] = j] /\ j.pc = "prune"
        /\ j.view = job[i].view /\ j.first = job[i].first /\ j.ids = job[i].ids
        /\ j.top = job[i].top /\ j.todo = job[i].todo \ {x} /\ j.known = job[i].known
  <2> DEFINE h == [job[i] EXCEPT !.todo = @ \ {x}]
  <2>1. h \in Jobs BY <1>5 DEF Jobs
  <2>2. job' = [job EXCEPT ![i] = h] BY <1>2 DEF TypeOK, Prune
  <2>3. /\ h.pc = "prune" /\ h.view = job[i].view /\ h.first = job[i].first
        /\ h.ids = job[i].ids /\ h.top = job[i].top /\ h.todo = job[i].todo \ {x} /\ h.known = job[i].known
    BY <1>1, <1>5 DEF Jobs
  <2> HIDE DEF h
  <2> QED BY <2>1, <2>2, <2>3
<1>7. (UNCHANGED faultVars \/ Failure) /\ (Store(i, x, 0) \/ rows' = rows)
  BY DEF Prune
<1>8. /\ rows' \in [Instances \cup {Table} -> [Items -> 0 .. MaxStamp]]
      /\ \A q \in Instances \cup {Table}, y \in Items :
            rows'[q][y] = rows[q][y] \/ (y = x /\ rows'[q][y] = 0)
  <2>1. rows \in [Instances \cup {Table} -> [Items -> 0 .. MaxStamp]] /\ 0 \in 0 .. MaxStamp
    BY <1>2 DEF TypeOK
  <2>2. CASE Store(i, x, 0)
    <3>1. rows' = [rows EXCEPT ![Place(i)] = [rows[Place(i)] EXCEPT ![x] = 0]]
      BY <2>2 DEF Store
    <3>2. [rows[Place(i)] EXCEPT ![x] = 0] \in [Items -> 0 .. MaxStamp] BY <1>5, <2>1
    <3> QED BY <1>5, <2>1, <3>1, <3>2
  <2> QED BY <1>7, <2>1, <2>2
<1>9. TypeOK' /\ Grows
  <2>1. job' \in [Instances -> Jobs] BY <1>2, <1>6, JobStep
  <2>2. /\ sentinel' \in BOOLEAN /\ cursor' \in 0 .. MaxStamp /\ firedAt' \subseteq Items
        /\ told' \in [Instances -> SUBSET Events] /\ again' \subseteq Events
        /\ silent' \subseteq Events
    BY <1>1, <1>2 DEF TypeOK, toldVars
  <2>3. deleted' \subseteq Events
    <3> DEFINE e == <<x, job[i].known[x]>>
    <3>1. deleted' \in {deleted, deleted \cup {e}} /\ (deleted' # deleted => poller.deletes)
      BY DEF Prune
    <3>2. deleted \subseteq Events BY <1>2 DEF TypeOK
    <3>3. CASE poller.deletes
      <4>1. job[i].known[x] > 0 /\ job[i].known[x] \in 0 .. MaxStamp
        BY <1>1, <1>5, <3>3 DEF PhasesOf, Jobs
      <4>2. e \in Events BY <4>1 DEF Events, Stamps
      <4> HIDE DEF e
      <4> QED BY <3>1, <3>2, <4>2
    <3> QED BY <3>1, <3>2, <3>3
  <2> QED BY <1>1, <1>2, <1>7, <1>8, <2>1, <2>2, <2>3, TypesMove
<1>10. /\ job'[i] = j
       /\ \A k \in Instances : k # i => job'[k] = job[k]
       /\ poller' = poller /\ source' = source /\ newest' = newest
       /\ OnceCase' => OnceCase
       /\ SilentCase' => SilentCase
       /\ Sole' => Sole
       /\ faults' = 0 => faults = 0
       /\ UnderLease'
       /\ \A k \in Instances : Place(k)' = Place(k)
       /\ OnceCase \/ (SilentCase /\ poller.sentinel # "none") =>
             \A k \in Instances : k # i => ~Working(k)
  BY <1>1, <1>3, <1>6, <1>9, SetMove DEF Working
<1>11. /\ told' = told /\ again' = again /\ sentinel' = sentinel /\ cursor' = cursor
       /\ \A e : IsTold(e)' <=> IsTold(e)
       /\ \A e : Handled(e)' <=> Handled(e)
       /\ \A y : Existing(y)' <=> Existing(y)
  BY <1>1, <1>10 DEF IsTold, Handled, Existing, toldVars
<1>12. \A q \in Instances \cup {Table}, y \in Items : rows'[q][y] <= rows[q][y] /\ rows'[q][y] \in Nat
  <2> TAKE q \in Instances \cup {Table}, y \in Items
  <2>1. rows[q][y] \in Nat BY <1>5
  <2>2. rows'[q][y] = rows[q][y] \/ rows'[q][y] = 0 BY <1>8
  <2> QED BY <2>1, <2>2
<1>13. Phases'
  <2>1. PhasesOf(j) BY <1>1, <1>3, <1>5, <1>6 DEF PhasesOf, SetSteps, CursorSteps, BaseSteps
  <2> QED BY <1>2, <1>10, <2>1 DEF Phases, PhasesOf
<1>14. Bounded'
  <2>1. \A q \in Instances \cup {Table}, y \in Items : rows'[q][y] <= newest
    <3> TAKE q \in Instances \cup {Table}, y \in Items
    <3>1. rows[q][y] <= newest BY <1>4 DEF Bounded
    <3>2. rows'[q][y] <= rows[q][y] /\ rows'[q][y] \in Nat /\ rows[q][y] \in Nat
      BY <1>5, <1>12
    <3> QED BY <1>5, <3>1, <3>2
  <2>2. \A k \in Instances : /\ \A y \in Items : job'[k].view[y] <= newest
                             /\ job'[k].top <= newest
    BY <1>4, <1>6, <1>10 DEF Bounded
  <2> QED BY <1>4, <1>10, <1>11, <2>1, <2>2 DEF Bounded
<1>15. Silent' BY <1>4, <1>10, <1>11 DEF Silent
<1>16. Grown'
  <2>1. GrownOf(i, j) BY <1>1, <1>5, <1>6 DEF GrownOf
  <2>2. ASSUME NEW q \in Instances \cup {Table}, NEW y \in Items, source[y] > 0
        PROVE  rows'[q][y] <= source[y]
    <3>1. rows[q][y] <= source[y] BY <1>4, <2>2 DEF Grown
    <3>2. /\ source[y] \in Int /\ rows[q][y] \in Nat
          /\ rows'[q][y] \in Nat /\ rows'[q][y] <= rows[q][y]
      BY <1>5, <1>12
    <3> QED BY <3>1, <3>2
  <2>3. ASSUME NEW k \in Instances PROVE GrownOf(k, job[k])'
    <3>1. GrownOf(k, job'[k]) BY <1>4, <1>10, <2>1 DEF Grown
    <3>2. ASSUME Sole, job'[k].pc = "listed", NEW y \in Items, job'[k].view[y] > 0
          PROVE  rows'[Place(k)][y] <= job'[k].view[y]
      <4>1. rows[Place(k)][y] <= job'[k].view[y] BY <3>1, <3>2 DEF GrownOf
      <4>2. Place(k) \in Instances \cup {Table} BY <1>2, Places
      <4>3. job'[k].view[y] \in Int BY <1>5, <1>6, <1>10
      <4>4. /\ rows'[Place(k)][y] <= rows[Place(k)][y]
            /\ rows'[Place(k)][y] \in Nat /\ rows[Place(k)][y] \in Nat
        BY <1>5, <1>12, <4>2
      <4> QED BY <4>1, <4>3, <4>4
    <3> QED BY <1>10, <3>1, <3>2 DEF GrownOf
  <2> QED BY <1>10, <2>2, <2>3 DEF Grown
<1>17. ASSUME OnceCase'
       PROVE  Recognised'
  <2>1. /\ \A y \in Items : IsTold(<<y, source[y]>>) => rows[Table][y] = source[y]
        /\ RecognisedOf(job[i])
    BY <1>4, <1>10, <1>17 DEF Recognised
  <2>2. \A y \in Items : IsTold(<<y, source[y]>>) => rows'[Table][y] = source[y]
    BY <1>1, <1>8, <2>1 DEF RecognisedOf
  <2>3. \A y \in j.todo : ~IsTold(<<y, source[y]>>)
    BY <1>1, <1>6, <2>1 DEF RecognisedOf
  <2>4. RecognisedOf(j)' BY <1>6, <1>10, <1>11, <2>3 DEF RecognisedOf
  <2>5. ASSUME NEW k \in Instances PROVE RecognisedOf(job[k])'
    <3>1. CASE k = i BY <1>10, <2>4, <3>1 DEF RecognisedOf
    <3>2. CASE k # i
      <4>1. ~Working(k) /\ job'[k] = job[k] BY <1>10, <1>17, <3>2
      <4> QED BY <4>1 DEF RecognisedOf, Working
    <3> QED BY <3>1, <3>2
  <2> QED BY <1>10, <1>11, <2>2, <2>5 DEF Recognised
<1>18. Recognised' BY <1>17 DEF Recognised
<1>19. Baselined'
  <2>1. CASE ~SilentCase' BY <1>4, <1>10, <1>11, <2>1 DEF Baselined
  <2>2. CASE SilentCase'
    <3>0. /\ \A k \in Instances : BaselinedOf(job[k])
          /\ sentinel => \A y \in Items : Existing(y) =>
                rows[Table][y] = 1 \/ \E k \in Instances : LeftOf(y, job[k])
          /\ sentinel => poller.sentinel # "none"
      BY <1>4, <1>10, <2>2 DEF Baselined
    <3>1. ~Existing(x) BY <1>1, <3>0 DEF BaselinedOf
    <3>2. \A y \in Items : Existing(y) => rows'[Table][y] = rows[Table][y]
      BY <1>8, <3>1
    <3>3. BaselinedOf(j)'
      <4>1. BaselinedOf(job[i]) BY <3>0
      <4>2. j.ids = {} /\ \A y \in j.todo : ~Existing(y)
        BY <1>1, <1>6, <4>1 DEF BaselinedOf, SetSteps
      <4>3. j.first => \A y \in Items : Existing(y) => rows'[Table][y] = 1
        BY <1>1, <1>6, <3>2, <4>1 DEF BaselinedOf
      <4> QED BY <1>6, <1>10, <1>11, <4>2, <4>3 DEF BaselinedOf
    <3>4. ASSUME NEW k \in Instances, k # i PROVE BaselinedOf(job[k])'
      <4>1. BaselinedOf(job'[k]) /\ job'[k] = job[k] BY <1>10, <3>0, <3>4
      <4>2. CASE Working(k)
        <5>1. poller.sentinel = "none" BY <1>10, <2>2, <3>4, <4>2
        <5>2. ~sentinel /\ ~job[k].first
          BY <1>2, <3>0, <5>1 DEF Phases, PhasesOf
        <5> QED BY <1>10, <1>11, <4>1, <5>1, <5>2 DEF BaselinedOf
      <4>3. CASE ~Working(k) BY <1>10, <1>11, <4>1, <4>3 DEF BaselinedOf, Working, SetSteps
      <4> QED BY <4>2, <4>3
    <3>5. ASSUME sentinel, NEW y \in Items, Existing(y)
          PROVE  rows'[Table][y] = 1 \/ \E k \in Instances : LeftOf(y, job[k])'
      <4>1. CASE rows[Table][y] = 1 BY <3>2, <3>5, <4>1
      <4>2. CASE \E k \in Instances : LeftOf(y, job[k])
        <5>1. PICK k \in Instances : LeftOf(y, job[k]) BY <4>2
        <5>2. LeftOf(y, job'[k]) BY <1>1, <1>10, <5>1 DEF LeftOf
        <5> QED BY <1>10, <5>2 DEF LeftOf
      <4> QED BY <3>0, <3>5, <4>1, <4>2
    <3>6. ASSUME NEW k \in Instances PROVE BaselinedOf(job[k])'
      <4>1. CASE k = i BY <1>10, <3>3, <4>1 DEF BaselinedOf
      <4> QED BY <3>4, <4>1
    <3> QED BY <1>4, <1>10, <1>11, <3>5, <3>6 DEF Baselined
  <2> QED BY <2>1, <2>2
<1>20. StoredIsHandled'
  <2> SUFFICES ASSUME faults' = 0, NEW y \in Items, rows'[Table][y] > 0
               PROVE  \/ Handled(<<y, rows[Table][y]>>)'
                      \/ \E k \in Instances : AboutTo(y, rows'[Table][y], job'[k])
    BY DEF StoredIsHandled, AboutTo
  <2>1. rows'[Table][y] = rows[Table][y] BY <1>8
  <2>2. CASE Handled(<<y, rows[Table][y]>>)
    <3>1. PICK t : t = rows[Table][y] OBVIOUS
    <3>2. Handled(<<y, t>>)' BY <1>11, <2>2, <3>1
    <3>3. rows'[Table][y] = t BY <2>1, <3>1
    <3> QED BY <3>2, <3>3
  <2>3. CASE \E k \in Instances : AboutTo(y, rows[Table][y], job[k])
    <3>1. PICK k \in Instances : AboutTo(y, rows[Table][y], job[k]) BY <2>3
    <3>2. k # i BY <1>1, <3>1 DEF AboutTo
    <3> QED BY <1>10, <2>1, <3>1, <3>2
  <2> QED BY <1>4, <1>10, <2>1, <2>2, <2>3 DEF StoredIsHandled
<1>21. OnceCase' => NoneTwice' BY <1>4, <1>10, <1>11 DEF NoneTwice
<1> QED
  BY <1>3, <1>9, <1>10, <1>13, <1>14, <1>15, <1>16, <1>18, <1>19, <1>20, <1>21, SetWhole

-----------------------------------------------------------------------------
(* The provider and the clock.                                             *)

\* What the clock does: a lease that runs out under a poll is a lapse.
LEMMA TickKeeps ==
    ASSUME IInv, Tick
    PROVE  IInv'
<1>1. /\ TypeOK /\ Phases /\ UnderLease /\ Bounded /\ Silent
      /\ poller.kind = "set" => SetInv
      /\ poller.kind = "cursor" => CursorInv
      /\ (poller.kind = "set" /\ OnceCase) \/ (poller.kind = "cursor" /\ CursorOnce) => NoneTwice
  BY DEF IInv
<1>2. /\ leaseTtl >= 0 /\ LeaseTick
      /\ IF leaseTtl = 0 /\ \E i \in Instances : Working(i) /\ leaseOwner = i
         THEN /\ faults < MaxFaults
              /\ faults' = faults + 1 /\ lapses' = lapses + 1
              /\ UNCHANGED <<crashes, failed>>
         ELSE UNCHANGED faultVars
      /\ UNCHANGED <<sourceVars, rowVars, job, toldVars>>
  BY DEF Tick
<1>3. /\ poller' = poller /\ source' = source /\ newest' = newest /\ job' = job
      /\ vanished' = vanished /\ deleted' = deleted
      /\ rows' = rows /\ sentinel' = sentinel /\ cursor' = cursor /\ firedAt' = firedAt
      /\ told' = told /\ again' = again /\ silent' = silent
  BY <1>2 DEF sourceVars, rowVars, toldVars
<1>4. /\ crashes \in Nat /\ failed \in Nat /\ lapses \in Nat /\ MaxFaults \in Nat
      /\ faults = crashes + failed + lapses /\ faults \in 0 .. MaxFaults
      /\ leaseTtl \in -1 .. LeaseDuration /\ leaseOwner \in Instances \cup {NoOwner}
  BY <1>1 DEF TypeOK, LeaseTypeOK
<1>5. /\ faults' = crashes' + failed' + lapses' /\ faults' \in 0 .. MaxFaults
      /\ crashes' \in Nat /\ failed' \in Nat /\ lapses' \in Nat
      /\ crashes <= crashes' /\ failed <= failed' /\ lapses <= lapses' /\ faults <= faults'
  <2>1. CASE leaseTtl = 0 /\ \E i \in Instances : Working(i) /\ leaseOwner = i
    BY <1>2, <1>4, <2>1
  <2>2. CASE ~(leaseTtl = 0 /\ \E i \in Instances : Working(i) /\ leaseOwner = i)
    BY <1>2, <1>4, <2>2 DEF faultVars
  <2> QED BY <2>1, <2>2
<1>6. LeaseTypeOK'
  <2>1. leaseTtl' = leaseTtl - 1 /\ leaseOwner' = leaseOwner BY <1>2 DEF LeaseTick
  <2> QED BY <1>2, <1>4, <2>1 DEF LeaseTypeOK
<1>7. TypeOK' /\ Grows
  <2>1. TypeOK' BY <1>1, <1>3, <1>5, <1>6 DEF TypeOK
  <2>2. Grows BY <1>3, <1>5 DEF Grows
  <2> QED BY <2>1, <2>2
<1>8. UnderLease'
  <2> SUFFICES ASSUME poller.leased, lapses' = 0, NEW i \in Instances, Working(i)
               PROVE  leaseOwner' = i /\ leaseTtl' >= 0
    BY <1>3 DEF UnderLease, Working
  <2>1. lapses = 0 BY <1>4, <1>5
  <2>2. leaseOwner = i BY <1>1, <2>1 DEF UnderLease
  <2>3. leaseTtl # 0
    <3>1. leaseTtl = 0 => lapses' = lapses + 1 BY <1>2, <2>2
    <3> QED BY <1>4, <3>1
  <2> QED BY <1>2, <1>4, <2>2, <2>3 DEF LeaseTick
<1>9. /\ OnceCase' => OnceCase
      /\ SilentCase' => SilentCase
      /\ CursorOnce' => CursorOnce
      /\ Sole' => Sole
      /\ Exclusive' => Exclusive
      /\ faults' = 0 => faults = 0
  BY <1>1, <1>7, CasesKeep
<1>10. /\ \A e : Handled(e)' <=> Handled(e)
       /\ \A e : IsTold(e)' <=> IsTold(e)
       /\ \A x : Existing(x)' <=> Existing(x)
       /\ \A k \in Instances : Place(k)' = Place(k)
  BY <1>3 DEF Handled, IsTold, Existing, Place
<1>11. Phases' BY <1>1, <1>3 DEF Phases, PhasesOf
<1>12. Bounded' BY <1>1, <1>3, <1>10 DEF Bounded
<1>13. Silent' BY <1>1, <1>9, <1>10 DEF Silent
<1>14. ASSUME poller.kind = "set" PROVE SetInv'
  <2>0. SetInv BY <1>1, <1>14
  <2>1. Grown' BY <1>3, <1>9, <1>10, <2>0 DEF SetInv, Grown, GrownOf
  <2>2. Recognised' BY <1>3, <1>9, <1>10, <2>0 DEF SetInv, Recognised, RecognisedOf
  <2>3. Baselined' BY <1>3, <1>9, <1>10, <2>0 DEF SetInv, Baselined, BaselinedOf, LeftOf
  <2>4. StoredIsHandled' BY <1>3, <1>9, <1>10, <2>0 DEF SetInv, StoredIsHandled, AboutTo
  <2> QED BY <2>1, <2>2, <2>3, <2>4 DEF SetInv
<1>15. ASSUME poller.kind = "cursor" PROVE CursorInv'
  <2>0. CursorInv BY <1>1, <1>15
  <2>1. SourceFits' BY <1>3, <2>0 DEF CursorInv, SourceFits
  <2>2. HasBaseline'
    <3>1. Unbaselined(sentinel, cursor)' <=> Unbaselined(sentinel, cursor)
      BY <1>3 DEF Unbaselined
    <3> QED BY <1>3, <1>10, <2>0, <3>1 DEF CursorInv, HasBaseline, HasBaselineOf, Asked
  <2>3. Later' BY <1>3, <2>0 DEF CursorInv, Later, LaterOf, Asked
  <2>4. Passed'
    <3>1. \A c, ids : Knows(c, ids)' <=> Knows(c, ids) BY <1>3, <1>10 DEF Knows
    <3> QED
      BY <1>3, <1>9, <1>10, <2>0, <3>1
      DEF CursorInv, Passed, PassedOf, Storing, Asked, BaseSteps
  <2>5. Started'
    <3>1. \A c, ids : Covers(c, ids)' <=> Covers(c, ids) BY <1>3, <1>10 DEF Covers
    <3> QED BY <1>3, <1>9, <2>0, <3>1 DEF CursorInv, Started, StartedOf, Asked, BaseSteps
  <2>6. CursorTrails'
    <3>1. \A x : Overtaken(x)' <=> Overtaken(x) BY <1>3 DEF Overtaken
    <3>2. \A c : Behind(c)' <=> Behind(c) BY <1>3, <1>10, <3>1 DEF Behind
    <3>3. \A k \in Instances : InOrder(job[k])' <=> InOrder(job[k])
      BY <1>3, <1>10, <3>1 DEF InOrder, Precedes
    <3> QED BY <1>3, <1>9, <2>0, <3>2, <3>3 DEF CursorInv, CursorTrails, TrailsOf, FirstTaken
  <2>7. CursorMeets'
    <3>1. \A c, ids : Told(c, ids)' <=> Told(c, ids) BY <1>3, <1>10 DEF Told
    <3> QED BY <1>3, <1>9, <1>10, <2>0, <3>1 DEF CursorInv, CursorMeets, MeetsOf, Asked
  <2>8. CursorLeads' BY <1>3, <1>9, <1>10, <2>0 DEF CursorInv, CursorLeads, Taken, InBatch, Asked
  <2> QED BY <2>1, <2>2, <2>3, <2>4, <2>5, <2>6, <2>7, <2>8 DEF CursorInv
<1>16. NoneTwice => NoneTwice' BY <1>3 DEF NoneTwice
<1> QED BY <1>1, <1>3, <1>7, <1>8, <1>9, <1>11, <1>12, <1>13, <1>14, <1>15, <1>16 DEF IInv

\* What is left alone when an item changes at the provider.
LEMMA MoveStep ==
    ASSUME IInv, NEW x \in Items, NEW s \in Stamps \cup {-1},
           source' = [source EXCEPT ![x] = s], newest' \in Stamps, poller' = poller,
           newest <= newest', s <= newest',
           UNCHANGED <<deleted, rowVars, job, toldVars, faultVars, leaseVars>>,
           vanished' \in [Items -> 0 .. MaxStamp]
    PROVE  /\ TypeOK' /\ Phases' /\ UnderLease' /\ Bounded' /\ Silent'
           /\ source'[x] = s /\ \A y \in Items : y # x => source'[y] = source[y]
           /\ rows' = rows /\ sentinel' = sentinel /\ cursor' = cursor /\ firedAt' = firedAt
           /\ told' = told /\ again' = again /\ silent' = silent /\ job' = job
           /\ OnceCase' => OnceCase
           /\ SilentCase' => SilentCase
           /\ CursorOnce' => CursorOnce
           /\ Sole' => Sole
           /\ Exclusive' => Exclusive
           /\ faults' = faults
           /\ \A e : Handled(e)' <=> Handled(e)
           /\ \A e : IsTold(e)' <=> IsTold(e)
           /\ \A k \in Instances : Place(k)' = Place(k)
           /\ NoneTwice => NoneTwice'
<1>1. TypeOK /\ Phases /\ UnderLease /\ Bounded /\ Silent BY DEF IInv
<1>2. /\ rows' = rows /\ sentinel' = sentinel /\ cursor' = cursor /\ firedAt' = firedAt
      /\ told' = told /\ again' = again /\ silent' = silent /\ job' = job
      /\ faults' = faults /\ crashes' = crashes /\ failed' = failed /\ lapses' = lapses
      /\ leaseOwner' = leaseOwner /\ leaseTtl' = leaseTtl
  BY DEF rowVars, toldVars, faultVars, leaseVars
<1>3. source' \in Views /\ source'[x] = s /\ \A y \in Items : y # x => source'[y] = source[y]
  <2>1. s \in -1 .. MaxStamp BY DEF Stamps
  <2> QED BY <1>1, <2>1 DEF TypeOK, Views
<1>4. TypeOK'
  BY <1>1, <1>2, <1>3 DEF TypeOK, LeaseTypeOK
<1>5. Grows
  <2>1. s # 0 BY DEF Stamps
  <2>2. crashes \in Nat /\ failed \in Nat /\ lapses \in Nat /\ faults \in Int
    BY <1>1 DEF TypeOK
  <2> QED BY <1>2, <1>3, <2>1, <2>2 DEF Grows
<1>6. /\ OnceCase' => OnceCase
      /\ SilentCase' => SilentCase
      /\ CursorOnce' => CursorOnce
      /\ Sole' => Sole
      /\ Exclusive' => Exclusive
  BY <1>1, <1>4, <1>5, CasesKeep
<1>7. /\ \A e : Handled(e)' <=> Handled(e)
      /\ \A e : IsTold(e)' <=> IsTold(e)
      /\ \A k \in Instances : Place(k)' = Place(k)
  BY <1>2 DEF Handled, IsTold, Place
<1>8. Phases' BY <1>1, <1>2 DEF Phases, PhasesOf
<1>9. UnderLease' BY <1>1, <1>2 DEF UnderLease, Working
<1>10. Silent' BY <1>1, <1>6, <1>7 DEF Silent
<1>11. NoneTwice => NoneTwice' BY <1>2 DEF NoneTwice
<1>12. /\ newest \in Nat \ {0} /\ newest' \in Nat /\ s \in Int
       /\ \A p \in Instances \cup {Table}, y \in Items : rows[p][y] \in Nat
       /\ \A k \in Instances, y \in Items : job[k].view[y] \in Int
       /\ \A k \in Instances : job[k].top \in Int
       /\ cursor \in Int /\ \A y \in Items : source[y] \in Int
  <2>1. newest \in Nat \ {0} /\ newest' \in Nat /\ s \in Int BY <1>1 DEF TypeOK, Stamps
  <2>2. \A k \in Instances : job[k].top \in Int BY <1>1 DEF TypeOK, Jobs
  <2>3. cursor \in Int BY <1>1 DEF TypeOK
  <2> QED BY <1>1, <2>1, <2>2, <2>3, SetTypes
<1>13. Bounded'
  <2>1. ASSUME NEW y \in Items PROVE source'[y] <= newest'
    <3>1. source[y] <= newest BY <1>1 DEF Bounded
    <3>2. CASE y = x BY <1>3, <3>2
    <3>3. CASE y # x BY <1>3, <1>12, <3>1, <3>3
    <3> QED BY <3>2, <3>3
  <2>2. ASSUME NEW k \in Instances, NEW y \in Items PROVE job[k].view[y] <= newest'
    <3>1. job[k].view[y] <= newest BY <1>1 DEF Bounded
    <3>2. job[k].view[y] \in Int BY <1>12
    <3>3. newest \in Nat /\ newest' \in Nat /\ newest <= newest' BY <1>12
    <3> QED BY <3>1, <3>2, <3>3
  <2>3. ASSUME NEW k \in Instances PROVE job[k].top <= newest'
    <3>1. job[k].top <= newest BY <1>1 DEF Bounded
    <3> QED BY <1>12, <3>1
  <2>4. ASSUME NEW p \in Instances \cup {Table}, NEW y \in Items PROVE rows[p][y] <= newest'
    <3>1. rows[p][y] <= newest BY <1>1 DEF Bounded
    <3> QED BY <1>12, <3>1
  <2>5. ASSUME NEW y \in Items, NEW t \in Stamps, Handled(<<y, t>>) PROVE t <= newest'
    <3>1. t <= newest BY <1>1, <2>5 DEF Bounded
    <3> QED BY <1>12, <3>1 DEF Stamps
  <2>6. cursor <= newest'
    <3>1. cursor <= newest BY <1>1 DEF Bounded
    <3> QED BY <1>12, <3>1
  <2> QED BY <1>2, <1>7, <2>1, <2>2, <2>3, <2>4, <2>5, <2>6 DEF Bounded
<1> QED BY <1>2, <1>3, <1>4, <1>6, <1>7, <1>8, <1>9, <1>10, <1>11, <1>13

\* A poller that remembers items: the state an item takes is new.
LEMMA SetMoveKeeps ==
    ASSUME IInv, NEW x \in Items, NEW s \in Stamps \cup {-1}, poller.kind = "set",
           source' = [source EXCEPT ![x] = s], newest' \in Stamps, poller' = poller,
           UNCHANGED <<deleted, rowVars, job, toldVars, faultVars, leaseVars>>,
           vanished' \in [Items -> 0 .. MaxStamp],
           (s = -1 /\ newest' = newest) \/ (s > newest /\ newest' = s)
    PROVE  IInv'
<1>1. /\ TypeOK /\ Bounded /\ Grown /\ Recognised /\ Baselined /\ StoredIsHandled
      /\ OnceCase => NoneTwice
  BY SetParts
<1>0. newest <= newest' /\ s <= newest' /\ newest \in Nat \ {0} /\ newest' \in Nat /\ s \in Int
  BY <1>1 DEF TypeOK, Stamps
<1>2. /\ TypeOK' /\ Phases' /\ UnderLease' /\ Bounded' /\ Silent'
      /\ source'[x] = s /\ \A y \in Items : y # x => source'[y] = source[y]
      /\ rows' = rows /\ sentinel' = sentinel /\ cursor' = cursor
      /\ silent' = silent /\ job' = job
      /\ OnceCase' => OnceCase
      /\ SilentCase' => SilentCase
      /\ Sole' => Sole
      /\ faults' = faults
      /\ \A e : Handled(e)' <=> Handled(e)
      /\ \A e : IsTold(e)' <=> IsTold(e)
      /\ \A k \in Instances : Place(k)' = Place(k)
      /\ NoneTwice => NoneTwice'
  BY <1>0, MoveStep
<1>3. /\ newest \in Nat \ {0} /\ newest' \in Nat /\ newest <= newest' /\ s <= newest' /\ s \in Int
      /\ \A p \in Instances \cup {Table}, y \in Items : rows[p][y] \in Nat
      /\ \A k \in Instances, y \in Items : job[k].view[y] \in Int
      /\ \A y \in Items : source[y] \in Int
  BY <1>0, <1>1, SetTypes
<1>4. ~IsTold(<<x, s>>)
  <2> SUFFICES ASSUME IsTold(<<x, s>>) PROVE FALSE
    OBVIOUS
  <2>1. s \in Stamps BY <1>1 DEF IsTold, TypeOK, Events
  <2>2. s <= newest BY <1>1, <2>1 DEF Bounded, Handled
  <2>3. s > 0 BY <2>1 DEF Stamps
  <2> QED BY <1>3, <2>2, <2>3
<1>5. \A y \in Items : IsTold(<<y, source[y]>>)' => source'[y] = source[y]
  <2> TAKE y \in Items
  <2>1. IsTold(<<y, source[y]>>)' => IsTold(<<y, source'[y]>>) BY <1>2
  <2> QED BY <1>2, <1>4, <2>1
<1>6. \A y : Existing(y)' => Existing(y)
  <2>1. s # 1 BY <1>3
  <2> QED BY <1>2, <2>1 DEF Existing
<1>8. Grown'
  <2>1. ASSUME NEW y \in Items, source'[y] > 0, NEW p \in Instances \cup {Table}
        PROVE  rows[p][y] <= source'[y]
    <3>1. rows[p][y] <= newest /\ (source[y] > 0 => rows[p][y] <= source[y])
      BY <1>1 DEF Bounded, Grown
    <3>2. CASE y = x
      <4>1. s > newest BY <1>2, <2>1, <3>2
      <4>2. rows'[p][y] = rows[p][y] /\ rows[p][y] \in Nat /\ source'[y] = s BY <1>2, <1>3, <3>2
      <4> QED BY <1>3, <3>1, <4>1, <4>2
    <3>3. CASE y # x BY <1>2, <2>1, <3>1, <3>3
    <3> QED BY <3>2, <3>3
  <2>2. ASSUME NEW k \in Instances PROVE GrownOf(k, job[k])'
    <3>1. ASSUME NEW y \in Items, source'[y] > 0 PROVE job[k].view[y] <= source'[y]
      <4>1. job[k].view[y] <= newest /\ (source[y] > 0 => job[k].view[y] <= source[y])
        BY <1>1 DEF Bounded, Grown, GrownOf
      <4>2. CASE y = x BY <1>2, <1>3, <3>1, <4>1, <4>2
      <4>3. CASE y # x BY <1>2, <3>1, <4>1, <4>3
      <4> QED BY <4>2, <4>3
    <3>2. GrownOf(k, job[k]) BY <1>1 DEF Grown
    <3> QED BY <1>2, <3>1, <3>2 DEF GrownOf
  <2> QED BY <1>2, <2>1, <2>2 DEF Grown
<1>9. Recognised'
  <2> SUFFICES ASSUME OnceCase' PROVE Recognised' BY DEF Recognised
  <2>1. /\ \A y \in Items : IsTold(<<y, source[y]>>) => rows[Table][y] = source[y]
        /\ \A k \in Instances : RecognisedOf(job[k])
    BY <1>1, <1>2 DEF Recognised
  <2>2. \A y \in Items : IsTold(<<y, source[y]>>)' => IsTold(<<y, source[y]>>) /\ source'[y] = source[y]
    BY <1>2, <1>5
  <2>3. ASSUME NEW k \in Instances PROVE RecognisedOf(job[k])'
    <3> PICK j : j = job[k]
      OBVIOUS
    <3>1. RecognisedOf(j) BY <2>1
    <3>2. \A y, t : IsTold(<<y, t>>)' <=> IsTold(<<y, t>>) BY <1>2
    <3>3. j.pc = "prune" => \A y \in j.todo \cap Items : ~IsTold(<<y, source[y]>>)'
      BY <2>2, <3>1 DEF RecognisedOf
    <3>4. j.todo \subseteq Items BY <1>1 DEF TypeOK, Jobs
    <3>5. j.pc \in {"listed", "mark", "sift", "tell"} =>
              \A y \in Items : IsTold(<<y, source[y]>>)' => j.view[y] = source'[y]
      BY <2>2, <3>1 DEF RecognisedOf
    <3>6. /\ j.pc = "listed" =>
                \A y \in Items : IsTold(<<y, j.view[y]>>)' => rows'[Table][y] = j.view[y]
          /\ j.pc \in {"mark", "sift", "tell"} => \A y \in j.todo : ~IsTold(<<y, j.view[y]>>)'
          /\ j.pc = "tell" => /\ ~IsTold(<<j.mark, j.view[j.mark]>>)'
                              /\ rows'[Table][j.mark] = j.view[j.mark]
          /\ j.pc \in {"mark", "sift", "tell"} /\ poller.failedWrite = "leftover" =>
                \A y \in j.ids : ~IsTold(<<y, j.view[y]>>)'
      BY <1>2, <3>1, <3>2 DEF RecognisedOf
    <3>7. j.pc = "prune" => \A y \in j.todo : ~IsTold(<<y, source[y]>>)'
      BY <3>3, <3>4
    <3>8. RecognisedOf(j)' BY <1>2, <3>5, <3>6, <3>7 DEF RecognisedOf
    <3> QED BY <1>2, <3>8
  <2> QED BY <1>2, <2>1, <2>2, <2>3 DEF Recognised
<1>10. Baselined'
  <2>1. \A y \in Items, k \in Instances : LeftOf(y, job[k])' <=> LeftOf(y, job[k])
    BY <1>2 DEF LeftOf
  <2>2. ASSUME SilentCase', NEW k \in Instances PROVE BaselinedOf(job[k])'
    <3>1. BaselinedOf(job[k]) BY <1>1, <1>2, <2>2 DEF Baselined
    <3> QED BY <1>2, <1>6, <3>1 DEF BaselinedOf
  <2> QED BY <1>1, <1>2, <1>6, <2>1, <2>2 DEF Baselined
<1>11. StoredIsHandled' BY <1>1, <1>2 DEF StoredIsHandled, AboutTo
<1> QED BY <1>1, <1>2, <1>8, <1>9, <1>10, <1>11, SetWhole

\* An item that vanishes.
LEMMA VanishKeeps ==
    ASSUME IInv, NEW x \in Items, Vanish(x)
    PROVE  IInv'
<1>1. newest \in Stamps /\ source \in Views /\ vanished \in [Items -> 0 .. MaxStamp]
  BY DEF IInv, TypeOK
<1>2. /\ poller.kind = "set" /\ source[x] > 0 /\ source' = [source EXCEPT ![x] = -1]
      /\ vanished' = [vanished EXCEPT ![x] = source[x]]
      /\ UNCHANGED <<newest, poller, deleted, rowVars, job, toldVars, faultVars, leaseVars>>
  BY DEF Vanish
<1>3. source[x] \in 0 .. MaxStamp BY <1>1, <1>2 DEF Views
<1>4. vanished' \in [Items -> 0 .. MaxStamp] BY <1>1, <1>2, <1>3
<1> QED BY <1>1, <1>2, <1>4, SetMoveKeeps


\* A poller that remembers how far it has read: the stamp an item takes is the
\* next one or, where items can share one, that of an item which was handled, or
\* will be, with it.
LEMMA CursorMoveKeeps ==
    ASSUME IInv, NEW x \in Items, NEW s \in Stamps, poller.kind = "cursor",
           source' = [source EXCEPT ![x] = s], newest' = s, poller' = poller,
           UNCHANGED <<deleted, rowVars, job, toldVars, faultVars, leaseVars>>,
           vanished' \in [Items -> 0 .. MaxStamp],
           s = newest \/ s = newest + 1, s # source[x],
           s > newest \/ (poller.ties /\ \E y \in Items : source[y] = s)
    PROVE  IInv'
<1>1. /\ TypeOK /\ Bounded /\ SourceFits /\ HasBaseline /\ Later
      /\ Passed /\ Started /\ CursorTrails /\ CursorMeets /\ CursorLeads
      /\ CursorOnce => NoneTwice
  BY DEF IInv, CursorInv
<1>2. newest \in Nat \ {0} /\ s \in Nat \ {0} /\ newest <= s BY <1>1 DEF TypeOK, Stamps
<1>3. /\ TypeOK' /\ Phases' /\ UnderLease' /\ Bounded' /\ Silent'
      /\ source'[x] = s /\ \A y \in Items : y # x => source'[y] = source[y]
      /\ sentinel' = sentinel /\ cursor' = cursor /\ firedAt' = firedAt
      /\ told' = told /\ silent' = silent /\ job' = job
      /\ SilentCase' => SilentCase
      /\ CursorOnce' => CursorOnce
      /\ Exclusive' => Exclusive
      /\ faults' = faults
      /\ \A e : Handled(e)' <=> Handled(e)
      /\ \A e : IsTold(e)' <=> IsTold(e)
      /\ NoneTwice => NoneTwice'
  <2>1. s \in Stamps \cup {-1} /\ newest' \in Stamps /\ newest <= newest' /\ s <= newest'
    BY <1>2
  <2> QED BY <2>1, MoveStep
<1>4. /\ \A y \in Items : source[y] \in Int /\ source[y] <= newest
      /\ \A k \in Instances, y \in Items : job[k].view[y] \in Int /\ job[k].view[y] <= newest
      /\ \A k \in Instances : job[k].top \in Int /\ job[k].top <= newest
      /\ cursor \in Int /\ cursor <= newest
  <2>1. \A k \in Instances : job[k].top \in Int BY <1>1 DEF TypeOK, Jobs
  <2>2. cursor \in Int BY <1>1 DEF TypeOK
  <2> QED BY <1>1, <2>1, <2>2, SetTypes DEF Bounded
<1>5. ProfileFits(poller) BY <1>1, Profile DEF TypeOK
<1>6. \A y : Existing(y)' => Existing(y)
  <2>1. ASSUME x \in Old PROVE s # 1
    <3>1. source[x] >= 1 /\ source[x] <= newest /\ source[x] \in Int
      BY <1>1, <1>4, <2>1 DEF SourceFits
    <3> QED BY <1>2, <3>1
  <2> QED BY <1>3, <2>1 DEF Existing
<1>7. SourceFits'
  <2>1. ASSUME ~poller.ties, NEW y \in Items, NEW z \in Items,
               source'[y] = source'[z], source'[y] > 0, y # z
        PROVE  y \in Old /\ source'[y] = 1
    <3>1. s > newest BY <2>1
    <3>2. y # x /\ z # x BY <1>2, <1>3, <1>4, <2>1, <3>1
    <3> QED BY <1>1, <1>3, <2>1, <3>2 DEF SourceFits
  <2>2. \A y \in Items : source'[y] >= 0 /\ (y \in Old => source'[y] >= 1)
    BY <1>1, <1>2, <1>3 DEF SourceFits
  <2> QED BY <1>3, <2>1, <2>2 DEF SourceFits
<1>8. HasBaseline'
  <2>1. Unbaselined(sentinel, cursor)' <=> Unbaselined(sentinel, cursor)
    BY <1>3 DEF Unbaselined
  <2> QED BY <1>1, <1>3, <2>1 DEF HasBaseline, HasBaselineOf, Asked
<1>9. Later'
  <2> SUFFICES ASSUME poller.name # "linkedin", NEW k \in Instances PROVE LaterOf(job[k])'
    BY DEF Later
  <2>1. LaterOf(job[k]) BY <1>1 DEF Later
  <2>2. ASSUME Asked(job[k]), NEW y \in Items, job[k].view[y] # source'[y], NEW z \in Items
        PROVE  /\ job[k].view[z] <= source'[y]
               /\ ~poller.ties => job[k].view[z] < source'[y]
    <3>1. CASE y = x
      <4>1. job[k].view[z] \in Int /\ job[k].view[z] <= newest BY <1>4
      <4> QED BY <1>2, <1>3, <3>1, <4>1
    <3>2. CASE y # x BY <1>3, <2>1, <2>2, <3>2 DEF LaterOf
    <3> QED BY <3>1, <3>2
  <2> QED BY <1>3, <2>1, <2>2 DEF LaterOf, Asked
<1>10. Passed'
  <2>1. \A c, ids : Knows(c, ids)' <=> Knows(c, ids) BY <1>3 DEF Knows
  <2> QED BY <1>1, <1>3, <2>1 DEF Passed, PassedOf, Storing, Asked, BaseSteps
<1>11. Started'
  <2>1. \A c, ids : Covers(c, ids) => Covers(c, ids)' BY <1>3, <1>6 DEF Covers
  <2>2. ASSUME SilentCase', NEW k \in Instances PROVE StartedOf(job[k])'
    <3>1. StartedOf(job[k]) BY <1>1, <1>3, <2>2 DEF Started
    <3> QED BY <1>3, <2>1, <3>1 DEF StartedOf, Asked
  <2> QED BY <1>1, <1>3, <2>1, <2>2 DEF Started
<1>12. ASSUME poller.name # "linkedin", NEW k \in Instances, job[k].pc = "fire"
       PROVE  job[k].view[x] # source'[x]
  <2>1. job[k].view[x] # source[x] => job[k].view[x] <= source[x]
    BY <1>1, <1>12 DEF Later, LaterOf, Asked
  <2>2. source[x] <= newest /\ source[x] \in Int /\ job[k].view[x] \in Int BY <1>4
  <2> QED BY <1>2, <1>3, <2>1, <2>2
<1>13. CursorTrails'
  <2> SUFFICES ASSUME Exclusive'
               PROVE  Behind(cursor)' /\ (\A k \in Instances : TrailsOf(job[k])') /\ FirstTaken'
    BY DEF CursorTrails
  <2>1. Behind(cursor) /\ (\A k \in Instances : TrailsOf(job[k])) /\ FirstTaken
    BY <1>1, <1>3 DEF CursorTrails
  <2>2. poller.name # "linkedin" /\ ~poller.inclusive
    BY <1>3, <1>5 DEF Exclusive, ProfileFits
  <2>3. \A y \in Items : y # x => (Overtaken(y)' <=> Overtaken(y)) BY <1>3 DEF Overtaken
  <2>4. ASSUME NEW c \in Int, c <= newest, Behind(c), s <= c PROVE Overtaken(x)'
    <3>1. s = newest /\ poller.ties BY <1>2, <2>4
    <3>2. PICK y \in Items : source[y] = s BY <1>2, <3>1
    <3>3. Handled(<<y, s>>) \/ Overtaken(y) BY <1>2, <2>4, <3>2 DEF Behind
    <3>4. \E e \in silent \cup UNION {told[i] : i \in Instances} : e[2] = s
      <4>1. CASE Handled(<<y, s>>) BY <4>1 DEF Handled, IsTold
      <4>2. CASE Overtaken(y) BY <3>2, <4>2 DEF Overtaken
      <4> QED BY <3>3, <4>1, <4>2
    <3> QED BY <1>3, <2>2, <3>1, <3>4 DEF Overtaken
  <2>5. ASSUME NEW c \in Int, c <= newest, Behind(c), NEW y \in Items,
               source'[y] > 0, source'[y] <= c
        PROVE  Handled(<<y, source[y]>>)' \/ Overtaken(y)'
    <3>1. CASE y = x BY <1>3, <2>4, <2>5, <3>1
    <3>2. CASE y # x BY <1>3, <2>3, <2>5, <3>2 DEF Behind
    <3> QED BY <3>1, <3>2
  <2>6. Behind(cursor)' BY <1>3, <1>4, <2>1, <2>5 DEF Behind
  <2>7. ASSUME NEW k \in Instances PROVE TrailsOf(job[k])'
    <3>1. TrailsOf(job[k]) BY <2>1
    <3>2. job[k].pc \in {"fire", "cursor", "basecursor"} => Behind(job[k].top)'
      BY <1>3, <1>4, <2>5, <3>1 DEF Behind, TrailsOf
    <3>3. ASSUME job[k].pc = "fire", NEW y \in Items, job[k].view[y] > 0,
                 job[k].view[y] = source'[y]
          PROVE  \/ Handled(<<y, source[y]>>)' \/ Overtaken(y)'
                 \/ y \in job[k].todo
                 \/ \A z \in job[k].todo : Precedes(job[k].view[z], job[k].view[y])
      <4>1. y # x BY <1>12, <2>2, <3>3
      <4> QED BY <1>3, <2>3, <3>1, <3>3, <4>1 DEF TrailsOf, InOrder
    <3> QED BY <1>3, <3>2, <3>3 DEF TrailsOf, InOrder, Precedes
  <2>8. FirstTaken'
    <3>1. ASSUME poller.name = "dbrow" PROVE s # 1
      <4>1. ~poller.ties BY <1>5, <3>1 DEF ProfileFits
      <4> QED BY <1>2, <4>1
    <3> QED BY <1>3, <2>1, <3>1 DEF FirstTaken
  <2> QED BY <2>6, <2>7, <2>8
<1>14. CursorMeets'
  <2> SUFFICES ASSUME poller.inclusive, faults = 0
               PROVE  /\ \/ Told(cursor, firedAt)'
                         \/ \E k \in Instances : job[k].pc \in {"ids", "baseids"}
                      /\ \A k \in Instances : MeetsOf(job[k])'
    BY <1>3 DEF CursorMeets
  <2>1. poller.name # "linkedin" BY <1>5 DEF ProfileFits
  <2>2. ASSUME NEW c \in Int, c <= newest, NEW ids, Told(c, ids) PROVE Told(c, ids)'
    <3>1. ~(s < c) BY <1>2, <2>2
    <3>2. ASSUME NEW y \in Items, source'[y] > 0, source'[y] < c
          PROVE  Handled(<<y, source[y]>>)'
      <4>1. y # x BY <1>3, <3>1, <3>2
      <4> QED BY <1>3, <2>2, <3>2, <4>1 DEF Told
    <3>3. \A y \in ids : c > 0 => Handled(<<y, c>>)' BY <1>3, <2>2 DEF Told
    <3> QED BY <3>2, <3>3 DEF Told
  <2>3. \/ Told(cursor, firedAt)'
        \/ \E k \in Instances : job[k].pc \in {"ids", "baseids"}
    <3>1. Told(cursor, firedAt) => Told(cursor, firedAt)'
      <4> PICK c, ids : c = cursor /\ ids = firedAt OBVIOUS
      <4>1. Told(c, ids) => Told(c, ids)' BY <1>4, <2>2
      <4> QED BY <1>3, <4>1
    <3> QED BY <1>1, <3>1 DEF CursorMeets
  <2>4. ASSUME NEW k \in Instances PROVE MeetsOf(job[k])'
    <3>1. MeetsOf(job[k]) BY <1>1 DEF CursorMeets
    <3> PICK j, c : j = job[k] /\ c = cursor OBVIOUS
    <3>2. /\ Told(j.top, j.ids) => Told(j.top, j.ids)'
          /\ Told(c, j.ids) => Told(c, j.ids)'
      BY <1>4, <2>2
    <3>3. ASSUME j.pc = "fire", NEW y \in Items, j.view[y] > 0, j.view[y] = source'[y]
          PROVE  \/ Handled(<<y, source[y]>>)' \/ y \in j.todo
                 \/ \A z \in j.todo : j.view[z] <= j.view[y]
      <4>1. y # x BY <1>12, <2>1, <3>3
      <4> QED BY <1>3, <3>1, <3>3, <4>1 DEF MeetsOf
    <3> QED BY <1>3, <3>1, <3>2, <3>3 DEF MeetsOf, Asked
  <2> QED BY <2>3, <2>4
<1>15. CursorLeads'
  <2> SUFFICES ASSUME poller.store = "before", faults = 0
               PROVE  /\ Taken(cursor)'
                      /\ \A k \in Instances :
                            job[k].pc \in {"cursor", "basecursor"} => Taken(job[k].top)'
    BY <1>3 DEF CursorLeads
  <2>1. s > newest BY <1>5 DEF ProfileFits
  <2>2. \A y \in Items, k \in Instances : y # x => (InBatch(y, job[k])' <=> InBatch(y, job[k]))
    BY <1>3 DEF InBatch, Asked
  <2>3. ASSUME NEW c \in Int, c <= newest, Taken(c), NEW y \in Items,
               source'[y] > 0, source'[y] <= c
        PROVE  Handled(<<y, source[y]>>)' \/ \E k \in Instances : InBatch(y, job[k])'
    <3>1. y # x BY <1>2, <1>3, <2>1, <2>3
    <3> QED BY <1>3, <2>2, <2>3, <3>1 DEF Taken
  <2>4. Taken(cursor)' BY <1>1, <1>3, <1>4, <2>3 DEF Taken, CursorLeads
  <2>5. ASSUME NEW k \in Instances, job[k].pc \in {"cursor", "basecursor"}
        PROVE  Taken(job[k].top)'
    BY <1>1, <1>3, <1>4, <2>3, <2>5 DEF Taken, CursorLeads
  <2> QED BY <2>4, <2>5
<1> QED
  BY <1>1, <1>3, <1>7, <1>8, <1>9, <1>10, <1>11, <1>13, <1>14, <1>15 DEF IInv, CursorInv

\* An item that appears or changes.
LEMMA AppearKeeps ==
    ASSUME IInv, NEW x \in Items, Appear(x)
    PROVE  IInv'
<1>1. TypeOK BY DEF IInv
<1>2. newest \in Int /\ poller.kind \in {"set", "cursor"}
  BY <1>1, Profile DEF TypeOK, Stamps, ProfileFits
<1>3. PICK s \in NextStamps(x) : source' = [source EXCEPT ![x] = s] /\ newest' = s
  BY DEF Appear
<1>4. /\ poller' = poller /\ UNCHANGED <<deleted, rowVars, job, toldVars, faultVars, leaseVars>>
      /\ vanished' \in [Items -> 0 .. MaxStamp]
  BY <1>1 DEF Appear, TypeOK
<1>5. /\ s \in Stamps /\ (s = newest \/ s = newest + 1) /\ s # source[x]
      /\ s > newest \/ (poller.ties /\ \E y \in Items : source[y] = s)
  BY DEF NextStamps
<1>6. CASE poller.kind = "set"
  <2>1. s > newest BY <1>1, <1>5, <1>6, Profile DEF TypeOK, ProfileFits
  <2> QED BY <1>3, <1>4, <1>5, <1>6, <2>1, SetMoveKeeps
<1>7. CASE poller.kind = "cursor" BY <1>3, <1>4, <1>5, <1>7, CursorMoveKeeps
<1> QED BY <1>2, <1>6, <1>7

-----------------------------------------------------------------------------
(* The polls that remember how far they have read.                         *)

\* The parts of the invariant.
LEMMA CursorParts ==
    ASSUME IInv, poller.kind = "cursor"
    PROVE  /\ TypeOK /\ Phases /\ UnderLease /\ Bounded /\ Silent
           /\ SourceFits /\ HasBaseline /\ Later
           /\ Passed /\ Started /\ CursorTrails /\ CursorMeets /\ CursorLeads
           /\ CursorOnce => NoneTwice
           /\ ProfileFits(poller)
  BY Profile DEF IInv, CursorInv, TypeOK

\* What is a number.
LEMMA CursorTypes ==
    ASSUME TypeOK, Bounded
    PROVE  /\ newest \in Nat \ {0}
           /\ \A x \in Items : source[x] \in Int /\ source[x] <= newest
           /\ \A k \in Instances, x \in Items : job[k].view[x] \in Int /\ job[k].view[x] <= newest
           /\ \A k \in Instances : job[k].top \in Nat /\ job[k].top <= newest
           /\ \A k \in Instances : job[k].mark \in Nat
           /\ cursor \in Nat /\ cursor <= newest
<1>1. newest \in Nat \ {0} BY DEF TypeOK, Stamps
<1>2. \A k \in Instances : job[k].top \in Nat /\ job[k].mark \in Nat
  <2> TAKE k \in Instances
  <2>1. job[k].top \in 0 .. MaxStamp /\ job[k].mark \in 0 .. MaxStamp \cup Items
    BY DEF TypeOK, Jobs
  <2>2. 0 .. MaxStamp \subseteq Nat /\ Items \subseteq Nat OBVIOUS
  <2> QED BY <2>1, <2>2
<1>3. cursor \in Nat BY DEF TypeOK
<1> QED BY <1>1, <1>2, <1>3, SetTypes DEF Bounded

\* What the steps of such a poll have in common.
LEMMA CursorStep ==
    ASSUME IInv, TypeOK', Grows, NEW i \in Instances, NEW j \in Jobs,
           job' = [job EXCEPT ![i] = j], poller.kind = "cursor",
           Working(i), UNCHANGED <<sourceVars, leaseVars>>
    PROVE  /\ job'[i] = j
           /\ \A k \in Instances : k # i => job'[k] = job[k]
           /\ poller' = poller /\ source' = source /\ newest' = newest
           /\ CursorOnce' => CursorOnce
           /\ SilentCase' => SilentCase
           /\ Exclusive' => Exclusive
           /\ faults' = 0 => faults = 0
           /\ UnderLease'
           /\ CursorOnce \/ (poller.leased /\ (SilentCase \/ faults = 0)) =>
                 \A k \in Instances : k # i => ~Working(k)
<1>1. TypeOK /\ UnderLease BY DEF IInv
<1>2. job'[i] = j /\ \A k \in Instances : k # i => job'[k] = job[k]
  BY <1>1, JobStep
<1>3. poller' = poller /\ source' = source /\ newest' = newest /\ leaseOwner' = leaseOwner
      /\ leaseTtl' = leaseTtl
  BY DEF sourceVars, leaseVars
<1>4. /\ CursorOnce' => CursorOnce
      /\ SilentCase' => SilentCase
      /\ Exclusive' => Exclusive
      /\ faults' = 0 => faults = 0
      /\ lapses' = 0 => lapses = 0
  BY <1>1, CasesKeep
<1>5. UnderLease' BY <1>1, <1>2, <1>3, <1>4 DEF UnderLease, Working
<1>6. faults = 0 => lapses = 0
  <2>1. faults = crashes + failed + lapses /\ crashes \in Nat /\ failed \in Nat /\ lapses \in Nat
    BY <1>1 DEF TypeOK
  <2> QED BY <2>1
<1>7. ASSUME CursorOnce \/ (poller.leased /\ (SilentCase \/ faults = 0))
      PROVE  \A k \in Instances : k # i => ~Working(k)
  <2>1. poller.leased /\ lapses = 0 BY <1>6, <1>7 DEF CursorOnce, SilentCase
  <2> QED BY <1>1, <2>1, OnePoll
<1> QED BY <1>2, <1>3, <1>4, <1>5, <1>7

\* A call that succeeds leaves the count of failures alone.
LEMMA Succeeds ==
    ASSUME TypeOK, UNCHANGED faultVars \/ Failure, SilentCase' \/ CursorOnce' \/ faults' = 0
    PROVE  ~Failure /\ UNCHANGED faultVars
<1>1. failed \in Nat /\ crashes \in Nat /\ lapses \in Nat /\ faults = crashes + failed + lapses
  BY DEF TypeOK
<1>2. Failure => failed' = failed + 1 /\ faults' = faults + 1 BY DEF Failure
<1>3. SilentCase' \/ CursorOnce' => failed' = 0 BY DEF SilentCase, CursorOnce
<1> QED BY <1>1, <1>2, <1>3

\* A step of such a poll is right when the poll, the stored cursor and what it
\* has fired or passed over are: whatever was handled still is, and the others
\* either do not poll or do not depend on what has changed.
LEMMA CursorStepKeeps ==
    ASSUME IInv, NEW i \in Instances, NEW j \in Jobs, job' = [job EXCEPT ![i] = j],
           poller.kind = "cursor", Working(i), UNCHANGED <<sourceVars, rows, leaseVars>>,
           UNCHANGED faultVars \/ Failure,
           TypeOK', Grows,
           PhasesOf(j), j.top <= newest, \A x \in Items : j.view[x] <= newest, cursor' <= newest,
           \A e : IsTold(e) => IsTold(e)', \A e : Handled(e) => Handled(e)',
           \A x \in Items, s \in Stamps : Handled(<<x, s>>)' => s <= newest,
           Silent', CursorOnce' => NoneTwice',
           poller.name # "linkedin" =>
               /\ ~Unbaselined(sentinel, cursor) => ~Unbaselined(sentinel, cursor)'
               /\ (\E x \in Items, s \in Stamps : IsTold(<<x, s>>)') =>
                     ~Unbaselined(sentinel, cursor)'
               /\ HasBaselineOf(j)' /\ LaterOf(j),
           CursorOnce' => PassedOf(j)' /\ (Knows(cursor, firedAt)' \/ Storing(j)),
           SilentCase' => /\ StartedOf(j)'
                          /\ poller.sentinel = "last" /\ sentinel' => Covers(cursor, firedAt)',
           Exclusive' => Behind(cursor)' /\ TrailsOf(j)',
           poller.name = "dbrow" /\ (sentinel' \/ j.pc \in {"basecursor", "basemark"}) =>
               \/ sentinel \/ job[i].pc \in {"basecursor", "basemark"}
               \/ \A x \in Old : source[x] = 1 => <<x, 1>> \in silent',
           silent \subseteq silent',
           poller.inclusive /\ faults' = 0 =>
               MeetsOf(j)' /\ (Told(cursor, firedAt)' \/ j.pc \in {"ids", "baseids"}),
           poller.store = "before" /\ faults' = 0 =>
               /\ \A x \in Items : InBatch(x, job[i]) =>
                     InBatch(x, j) \/ Handled(<<x, source[x]>>)'
               /\ \/ cursor' = cursor
                  \/ \E c \in Nat : cursor' = c /\ Taken(c)
               /\ j.pc \in {"cursor", "basecursor"} =>
                     \A x \in Items : source[x] > 0 /\ source[x] <= j.top =>
                        \/ Handled(<<x, source[x]>>)' \/ InBatch(x, j)
                        \/ \E k \in Instances : InBatch(x, job[k])
    PROVE  IInv'
<1>1. /\ TypeOK /\ Phases /\ UnderLease /\ Bounded
      /\ SourceFits /\ HasBaseline /\ Later
      /\ Passed /\ Started /\ CursorTrails /\ CursorMeets /\ CursorLeads
      /\ ProfileFits(poller)
  BY CursorParts
<1>2. /\ job'[i] = j
      /\ \A k \in Instances : k # i => job'[k] = job[k]
      /\ poller' = poller /\ source' = source /\ newest' = newest
      /\ CursorOnce' => CursorOnce
      /\ SilentCase' => SilentCase
      /\ Exclusive' => Exclusive
      /\ faults' = 0 => faults = 0
      /\ UnderLease'
      /\ CursorOnce \/ (poller.leased /\ (SilentCase \/ faults = 0)) =>
            \A k \in Instances : k # i => ~Working(k)
  BY CursorStep
<1>3. rows' = rows OBVIOUS
<1>4. Phases' BY <1>1, <1>2 DEF Phases, PhasesOf
<1>5. Bounded'
  <2>1. \A k \in Instances : job'[k].top <= newest /\ \A x \in Items : job'[k].view[x] <= newest
    BY <1>1, <1>2 DEF Bounded
  <2>2. /\ \A x \in Items : source[x] <= newest
        /\ \A p \in Instances \cup {Table}, x \in Items : rows[p][x] <= newest
    BY <1>1 DEF Bounded
  <2> QED BY <1>2, <1>3, <2>1, <2>2 DEF Bounded
<1>6. SourceFits' BY <1>1, <1>2 DEF SourceFits
<1>7. HasBaseline'
  <2> SUFFICES ASSUME poller.name # "linkedin"
               PROVE  \A k \in Instances : HasBaselineOf(job[k])'
    BY <1>2 DEF HasBaseline
  <2> TAKE k \in Instances
  <2>1. CASE k = i BY <1>2, <2>1 DEF HasBaselineOf, Asked
  <2>2. CASE k # i
    <3>1. HasBaselineOf(job[k]) BY <1>1 DEF HasBaseline
    <3> QED BY <1>2, <2>2, <3>1 DEF HasBaselineOf, Asked
  <2> QED BY <2>1, <2>2
<1>8. Later'
  <2> SUFFICES ASSUME poller.name # "linkedin", NEW k \in Instances PROVE LaterOf(job[k])'
    BY <1>2 DEF Later
  <2>1. LaterOf(job'[k]) BY <1>1, <1>2 DEF Later
  <2> QED BY <1>2, <2>1 DEF LaterOf, Asked
<1>9. Passed'
  <2> SUFFICES ASSUME CursorOnce'
               PROVE  /\ Knows(cursor, firedAt)' \/ \E k \in Instances : Storing(job[k])'
                      /\ \A k \in Instances : PassedOf(job[k])'
    BY DEF Passed
  <2>1. Knows(cursor, firedAt)' \/ Storing(job[i])'
    BY <1>2 DEF Storing
  <2>2. ASSUME NEW k \in Instances PROVE PassedOf(job[k])'
    <3>1. CASE k = i BY <1>2, <3>1 DEF PassedOf, Asked
    <3>2. CASE k # i
      <4>1. ~Working(k) BY <1>2, <3>2
      <4> QED BY <1>2, <3>2, <4>1 DEF PassedOf, Working, Asked, BaseSteps
    <3> QED BY <3>1, <3>2
  <2> QED BY <2>1, <2>2
<1>10. Started'
  <2> SUFFICES ASSUME SilentCase', NEW k \in Instances PROVE StartedOf(job[k])'
    BY <1>2 DEF Started
  <2>1. CASE k = i BY <1>2, <2>1 DEF StartedOf, Asked
  <2>2. CASE k # i
    <3>1. StartedOf(job[k]) BY <1>1, <1>2 DEF Started
    <3>2. CASE poller.leased
      <4>1. ~Working(k) BY <1>2, <2>2, <3>2
      <4> QED BY <1>2, <2>2, <4>1 DEF StartedOf, Working, Asked, BaseSteps
    <3>3. CASE ~poller.leased
      <4>1. poller.sentinel # "last" /\ ~poller.inclusive BY <1>1, <3>3 DEF ProfileFits
      <4>2. HasBaselineOf(job[k]) BY <1>1, <1>2 DEF HasBaseline, SilentCase
      <4>3. job[k].pc \notin {"ids", "baseids", "basemark"} BY <4>1, <4>2 DEF HasBaselineOf
      <4>4. \A c, ids : Covers(c, ids)' <=> Covers(c, ids) BY <1>2 DEF Covers, Existing
      <4> QED BY <1>2, <2>2, <3>1, <4>1, <4>3, <4>4 DEF StartedOf, Asked
    <3> QED BY <3>2, <3>3
  <2> QED BY <2>1, <2>2
<1>11. \A x : Overtaken(x) => Overtaken(x)'
  <2> SUFFICES ASSUME NEW x, Overtaken(x) PROVE Overtaken(x)' OBVIOUS
  <2>1. PICK e \in silent \cup UNION {told[k] : k \in Instances} : e[2] = source[x]
    BY DEF Overtaken
  <2>2. Handled(e) BY <2>1 DEF Handled, IsTold
  <2>3. Handled(e)' BY <2>2
  <2>4. e \in silent' \cup UNION {told'[k] : k \in Instances} BY <2>3 DEF Handled, IsTold
  <2> QED BY <1>2, <2>1, <2>4 DEF Overtaken
<1>12. CursorTrails'
  <2> SUFFICES ASSUME Exclusive' PROVE (\A k \in Instances : TrailsOf(job[k])') /\ FirstTaken'
    BY DEF CursorTrails
  <2>1. (\A k \in Instances : TrailsOf(job[k])) /\ FirstTaken
    BY <1>1, <1>2 DEF CursorTrails
  <2>2. ASSUME NEW k \in Instances PROVE TrailsOf(job[k])'
    <3>1. CASE k = i BY <1>2, <3>1 DEF TrailsOf, InOrder
    <3>2. CASE k # i
      <4>1. \A c : Behind(c) => Behind(c)' BY <1>2, <1>11 DEF Behind
      <4> PICK h : h = job[k] OBVIOUS
      <4>2. InOrder(h) => InOrder(h)' BY <1>2, <1>11 DEF InOrder, Precedes
      <4>3. TrailsOf(h)' BY <2>1, <4>1, <4>2 DEF TrailsOf
      <4> QED BY <1>2, <3>2, <4>3
    <3> QED BY <3>1, <3>2
  <2>3. FirstTaken'
    <3> SUFFICES ASSUME poller.name = "dbrow",
                        sentinel' \/ \E k \in Instances : job'[k].pc \in {"basecursor", "basemark"}
                 PROVE  \A x \in Old : source[x] = 1 => <<x, 1>> \in silent'
      BY <1>2, <2>1 DEF FirstTaken
    <3>1. CASE sentinel' \/ j.pc \in {"basecursor", "basemark"}
      BY <2>1, <3>1 DEF FirstTaken
    <3>2. CASE \E k \in Instances : k # i /\ job[k].pc \in {"basecursor", "basemark"}
      BY <2>1, <3>2 DEF FirstTaken
    <3> QED BY <1>2, <3>1, <3>2
  <2> QED BY <2>2, <2>3
<1>13. CursorMeets'
  <2> SUFFICES ASSUME poller.inclusive, faults' = 0
               PROVE  /\ Told(cursor, firedAt)' \/ \E k \in Instances : job'[k].pc \in {"ids", "baseids"}
                      /\ \A k \in Instances : MeetsOf(job[k])'
    BY <1>2 DEF CursorMeets
  <2>1. ASSUME NEW k \in Instances PROVE MeetsOf(job[k])'
    <3>1. CASE k = i BY <1>2, <3>1 DEF MeetsOf, Asked
    <3>2. CASE k # i
      <4>1. poller.leased BY <1>1 DEF ProfileFits
      <4>2. ~Working(k) BY <1>2, <3>2, <4>1
      <4> QED BY <1>2, <3>2, <4>2 DEF MeetsOf, Working, Asked
    <3> QED BY <3>1, <3>2
  <2> QED BY <1>2, <2>1
<1>14. CursorLeads'
  <2> SUFFICES ASSUME poller.store = "before", faults' = 0
               PROVE  /\ Taken(cursor)'
                      /\ \A k \in Instances :
                            job'[k].pc \in {"cursor", "basecursor"} => Taken(job[k].top)'
    BY <1>2 DEF CursorLeads
  <2>1. /\ Taken(cursor)
        /\ \A k \in Instances : job[k].pc \in {"cursor", "basecursor"} => Taken(job[k].top)
    BY <1>1, <1>2 DEF CursorLeads
  <2>2. \A x \in Items, k \in Instances : InBatch(x, job[k])' <=> InBatch(x, job'[k])
    BY <1>2 DEF InBatch, Asked
  <2>3. ASSUME NEW x \in Items, \E k \in Instances : InBatch(x, job[k])
        PROVE  Handled(<<x, source[x]>>)' \/ \E k \in Instances : InBatch(x, job[k])'
    <3>1. PICK k \in Instances : InBatch(x, job[k]) BY <2>3
    <3>2. CASE k = i BY <1>2, <2>2, <3>1, <3>2
    <3>3. CASE k # i BY <1>2, <2>2, <3>1, <3>3
    <3> QED BY <3>2, <3>3
  <2>4. ASSUME NEW x \in Items, Handled(<<x, source[x]>>) PROVE Handled(<<x, source[x]>>)'
    BY <1>2, <2>4
  <2>5. \A c : Taken(c) => Taken(c)'
    BY <1>2, <2>3, <2>4 DEF Taken
  <2>6. Taken(cursor)'
    <3> PICK c : c = cursor' OBVIOUS
    <3>1. Taken(c) BY <2>1
    <3>2. Taken(c)' BY <2>5, <3>1
    <3> QED BY <3>2 DEF Taken
  <2>7. ASSUME j.pc \in {"cursor", "basecursor"} PROVE Taken(j.top)'
    <3>1. ASSUME NEW x \in Items, source[x] > 0, source[x] <= j.top
          PROVE  Handled(<<x, source[x]>>)' \/ \E k \in Instances : InBatch(x, job[k])'
      <4>1. InBatch(x, j) => InBatch(x, job[i])' BY <1>2, <2>2
      <4> QED BY <2>3, <2>7, <3>1, <4>1
    <3> QED BY <1>2, <3>1 DEF Taken
  <2>8. ASSUME NEW k \in Instances, job'[k].pc \in {"cursor", "basecursor"}
        PROVE  Taken(job[k].top)'
    <3> PICK c : c = job'[k].top OBVIOUS
    <3>1. Taken(c)'
      <4>1. CASE k = i BY <1>2, <2>7, <2>8, <4>1
      <4>2. CASE k # i BY <1>2, <2>1, <2>5, <2>8, <4>2
      <4> QED BY <4>1, <4>2
    <3> QED BY <3>1 DEF Taken
  <2> QED BY <2>6, <2>8
<1> QED
  BY <1>2, <1>4, <1>5, <1>6, <1>7, <1>8, <1>9, <1>10, <1>12, <1>13, <1>14 DEF IInv, CursorInv

\* Most of these steps start no flow and pass over nothing: what the invariant
\* says of what was handled stays as it is.
LEMMA CursorQuiet ==
    ASSUME IInv, NEW i \in Instances, NEW j \in Jobs, job' = [job EXCEPT ![i] = j],
           poller.kind = "cursor", Working(i),
           UNCHANGED <<sourceVars, rows, toldVars, leaseVars>>,
           UNCHANGED faultVars \/ Failure,
           sentinel' \in BOOLEAN, cursor' \in 0 .. MaxStamp, firedAt' \subseteq Items
    PROVE  /\ TypeOK' /\ Grows /\ Silent' /\ (CursorOnce' => NoneTwice')
           /\ poller' = poller /\ source' = source /\ newest' = newest /\ silent' = silent
           /\ \A e : IsTold(e)' <=> IsTold(e)
           /\ \A e : Handled(e)' <=> Handled(e)
           /\ \A x \in Items, s \in Stamps : Handled(<<x, s>>)' => s <= newest
           /\ \A c, ids : Knows(c, ids)' <=> Knows(c, ids)
           /\ \A c, ids : Covers(c, ids)' <=> Covers(c, ids)
           /\ \A c, ids : Told(c, ids)' <=> Told(c, ids)
           /\ \A c : Behind(c)' <=> Behind(c)
           /\ \A h : InOrder(h)' <=> InOrder(h)
           /\ CursorOnce' => CursorOnce
           /\ SilentCase' => SilentCase
           /\ Exclusive' => Exclusive
           /\ faults' = 0 => faults = 0
           /\ SilentCase' \/ CursorOnce' \/ faults' = 0 => ~Failure
           /\ CursorOnce \/ (poller.leased /\ (SilentCase \/ faults = 0)) =>
                 \A k \in Instances : k # i => ~Working(k)
<1>1. /\ TypeOK /\ Bounded /\ Silent /\ (CursorOnce => NoneTwice)
  BY CursorParts
<1>2. TypeOK' /\ Grows
  <2>1. job' \in [Instances -> Jobs] BY <1>1, JobStep
  <2>2. /\ rows' \in [Instances \cup {Table} -> [Items -> 0 .. MaxStamp]]
        /\ told' \in [Instances -> SUBSET Events] /\ again' \subseteq Events
        /\ silent' \subseteq Events
    BY <1>1 DEF TypeOK, toldVars
  <2> QED BY <1>1, <2>1, <2>2, TypesStep
<1>3. /\ poller' = poller /\ source' = source /\ newest' = newest
      /\ CursorOnce' => CursorOnce
      /\ SilentCase' => SilentCase
      /\ Exclusive' => Exclusive
      /\ faults' = 0 => faults = 0
      /\ CursorOnce \/ (poller.leased /\ (SilentCase \/ faults = 0)) =>
            \A k \in Instances : k # i => ~Working(k)
  BY <1>2, CursorStep
<1>4. told' = told /\ again' = again /\ silent' = silent BY DEF toldVars
<1>5. /\ \A e : IsTold(e)' <=> IsTold(e)
      /\ \A e : Handled(e)' <=> Handled(e)
  BY <1>4 DEF Handled, IsTold
<1>6. Silent' BY <1>1, <1>3, <1>5 DEF Silent
<1>7. CursorOnce' => NoneTwice' BY <1>1, <1>3, <1>4 DEF NoneTwice
<1>8. \A x \in Items, s \in Stamps : Handled(<<x, s>>)' => s <= newest
  BY <1>1, <1>5 DEF Bounded
<1>9. \A x : Overtaken(x)' <=> Overtaken(x) BY <1>3, <1>4 DEF Overtaken
<1>10. /\ \A c, ids : Knows(c, ids)' <=> Knows(c, ids)
       /\ \A c, ids : Covers(c, ids)' <=> Covers(c, ids)
       /\ \A c, ids : Told(c, ids)' <=> Told(c, ids)
  BY <1>3, <1>5 DEF Knows, Covers, Existing, Told
<1>11. /\ \A c : Behind(c)' <=> Behind(c)
       /\ \A h : InOrder(h)' <=> InOrder(h)
  BY <1>3, <1>5, <1>9 DEF Behind, InOrder, Precedes
<1>12. SilentCase' \/ CursorOnce' \/ faults' = 0 => ~Failure BY <1>1, Succeeds
<1> QED
  BY <1>2, <1>3, <1>4, <1>5, <1>6, <1>7, <1>8, <1>10, <1>11, <1>12

\* Such a step is right when the poll and the stored cursor are.
LEMMA CursorQuietKeeps ==
    ASSUME IInv, NEW i \in Instances, NEW j \in Jobs, job' = [job EXCEPT ![i] = j],
           poller.kind = "cursor", Working(i),
           UNCHANGED <<sourceVars, rows, toldVars, leaseVars>>,
           UNCHANGED faultVars \/ Failure,
           sentinel' \in BOOLEAN, cursor' \in 0 .. MaxStamp, firedAt' \subseteq Items,
           PhasesOf(j), j.top <= newest, \A x \in Items : j.view[x] <= newest, cursor' <= newest,
           poller.name # "linkedin" =>
               /\ ~Unbaselined(sentinel, cursor) => ~Unbaselined(sentinel, cursor)'
               /\ HasBaselineOf(j)' /\ LaterOf(j),
           CursorOnce' => PassedOf(j)' /\ (Knows(cursor', firedAt') \/ Storing(j)),
           SilentCase' => /\ StartedOf(j)'
                          /\ poller.sentinel = "last" /\ sentinel' => Covers(cursor', firedAt'),
           Exclusive' => Behind(cursor') /\ TrailsOf(j),
           poller.name = "dbrow" /\ (sentinel' \/ j.pc \in {"basecursor", "basemark"}) =>
               sentinel \/ job[i].pc \in {"basecursor", "basemark"},
           poller.inclusive /\ faults' = 0 =>
               MeetsOf(j)' /\ (Told(cursor', firedAt') \/ j.pc \in {"ids", "baseids"}),
           poller.store = "before" /\ faults' = 0 =>
               /\ \A x \in Items : InBatch(x, job[i]) => InBatch(x, j)
               /\ cursor' = cursor \/ Taken(cursor')
               /\ j.pc \in {"cursor", "basecursor"} =>
                     \A x \in Items : source[x] > 0 /\ source[x] <= j.top =>
                        \/ Handled(<<x, source[x]>>) \/ InBatch(x, j)
                        \/ \E k \in Instances : InBatch(x, job[k])
    PROVE  IInv'
<1>1. HasBaseline BY CursorParts
<1>2. /\ TypeOK' /\ Grows /\ Silent' /\ (CursorOnce' => NoneTwice')
      /\ source' = source /\ silent' = silent
      /\ \A e : IsTold(e)' <=> IsTold(e)
      /\ \A e : Handled(e)' <=> Handled(e)
      /\ \A x \in Items, s \in Stamps : Handled(<<x, s>>)' => s <= newest
      /\ \A c, ids : Knows(c, ids)' <=> Knows(c, ids)
      /\ \A c, ids : Covers(c, ids)' <=> Covers(c, ids)
      /\ \A c, ids : Told(c, ids)' <=> Told(c, ids)
      /\ \A c : Behind(c)' <=> Behind(c)
      /\ \A h : InOrder(h)' <=> InOrder(h)
  BY CursorQuiet
<1> PICK c, f : c = cursor' /\ f = firedAt' OBVIOUS
<1>3. (Knows(cursor, firedAt)' <=> Knows(c, f)) /\ (Covers(cursor, firedAt)' <=> Covers(c, f))
  <2>1. (Knows(c, f)' <=> Knows(c, f)) /\ (Covers(c, f)' <=> Covers(c, f)) BY <1>2
  <2> QED BY <2>1 DEF Knows, Covers
<1>4. (Behind(cursor)' <=> Behind(c)) /\ (Told(cursor, firedAt)' <=> Told(c, f))
  <2>1. (Behind(c)' <=> Behind(c)) /\ (Told(c, f)' <=> Told(c, f)) BY <1>2
  <2> QED BY <2>1 DEF Behind, Told
<1>5. TrailsOf(j) => TrailsOf(j)'
  <2>1. (InOrder(j)' <=> InOrder(j)) /\ (Behind(j.top)' <=> Behind(j.top)) BY <1>2
  <2> QED BY <2>1 DEF TrailsOf
<1>6. poller.name # "linkedin" /\ (\E x \in Items, s \in Stamps : IsTold(<<x, s>>)') =>
          ~Unbaselined(sentinel, cursor)'
  BY <1>1, <1>2 DEF HasBaseline
<1>7. poller.store = "before" /\ faults' = 0 =>
          /\ \A x \in Items : InBatch(x, job[i]) => InBatch(x, j)
          /\ \/ cursor' = cursor
             \/ \E d \in Nat : cursor' = d /\ Taken(d)
          /\ j.pc \in {"cursor", "basecursor"} =>
                \A x \in Items : source[x] > 0 /\ source[x] <= j.top =>
                   \/ Handled(<<x, source[x]>>)' \/ InBatch(x, j)
                   \/ \E k \in Instances : InBatch(x, job[k])
  <2>1. c \in Nat OBVIOUS
  <2>2. \A x : Handled(<<x, source[x]>>)' <=> Handled(<<x, source[x]>>) BY <1>2
  <2> QED BY <2>1, <2>2
<1>8. CursorOnce' => PassedOf(j)' /\ (Knows(cursor, firedAt)' \/ Storing(j)) BY <1>3
<1>9. SilentCase' => /\ StartedOf(j)'
                     /\ poller.sentinel = "last" /\ sentinel' => Covers(cursor, firedAt)'
  BY <1>3
<1>10. Exclusive' => Behind(cursor)' /\ TrailsOf(j)' BY <1>4, <1>5
<1>11. poller.inclusive /\ faults' = 0 =>
          MeetsOf(j)' /\ (Told(cursor, firedAt)' \/ j.pc \in {"ids", "baseids"})
  BY <1>4
<1>12. poller.name # "linkedin" =>
          /\ ~Unbaselined(sentinel, cursor) => ~Unbaselined(sentinel, cursor)'
          /\ (\E x \in Items, s \in Stamps : IsTold(<<x, s>>)') => ~Unbaselined(sentinel, cursor)'
          /\ HasBaselineOf(j)' /\ LaterOf(j)
  BY <1>6
<1>13. /\ \A e : IsTold(e) => IsTold(e)'
       /\ \A e : Handled(e) => Handled(e)'
       /\ silent \subseteq silent'
  BY <1>2
<1> QED
  BY <1>2, <1>7, <1>8, <1>9, <1>10, <1>11, <1>12, <1>13, CursorStepKeeps

\* After what it began with, a poll of an instance that stops leaves nothing.
LEMMA IdleCursor ==
    ASSUME TypeOK, Bounded
    PROVE  /\ Idle \in Jobs /\ PhasesOf(Idle) /\ Idle.top <= newest
           /\ \A x \in Items : Idle.view[x] <= newest
           /\ HasBaselineOf(Idle)' /\ LaterOf(Idle) /\ PassedOf(Idle)' /\ StartedOf(Idle)'
           /\ TrailsOf(Idle) /\ MeetsOf(Idle)' /\ ~Storing(Idle)
           /\ Idle.pc = "idle" /\ \A x \in Items : ~InBatch(x, Idle)
<1>1. Idle \in Jobs /\ Idle.pc = "idle" /\ Fresh(Idle) /\ \A x \in Items : Nothing[x] = 0
  BY IdlePoll
<1>2. newest \in Nat BY CursorTypes
<1>3. PhasesOf(Idle) BY <1>1 DEF PhasesOf, SetSteps, CursorSteps, BaseSteps, Fresh
<1>4. Idle.top <= newest /\ \A x \in Items : Idle.view[x] <= newest
  BY <1>1, <1>2 DEF Fresh
<1> QED
  BY <1>1, <1>3, <1>4
  DEF HasBaselineOf, LaterOf, PassedOf, StartedOf, TrailsOf, MeetsOf, Storing, Asked, InBatch,
      BaseSteps

\* A step that stores nothing.
LEMMA CursorStays ==
    ASSUME TypeOK, Bounded, UNCHANGED <<sourceVars, rowVars>>
    PROVE  /\ rows' = rows /\ sentinel' = sentinel /\ cursor' = cursor /\ firedAt' = firedAt
           /\ poller' = poller
           /\ sentinel' \in BOOLEAN /\ cursor' \in 0 .. MaxStamp /\ firedAt' \subseteq Items
           /\ cursor' <= newest
           /\ Unbaselined(sentinel, cursor)' <=> Unbaselined(sentinel, cursor)
<1>1. /\ rows' = rows /\ sentinel' = sentinel /\ cursor' = cursor /\ firedAt' = firedAt
      /\ poller' = poller
  BY DEF rowVars, sourceVars
<1>2. sentinel \in BOOLEAN /\ cursor \in 0 .. MaxStamp /\ firedAt \subseteq Items
  BY DEF TypeOK
<1>3. cursor <= newest BY DEF Bounded
<1> QED BY <1>1, <1>2, <1>3 DEF Unbaselined

\* A failed call ends the promises about firing once and about the baseline; what
\* an exclusive cursor has left behind was handled all the same.
LEMMA CursorFails ==
    ASSUME IInv, NEW i \in Instances, NEW j \in Jobs, job' = [job EXCEPT ![i] = j],
           poller.kind = "cursor", Working(i),
           UNCHANGED <<sourceVars, rowVars, toldVars, leaseVars>>, Failure,
           PhasesOf(j), j.top <= newest, \A x \in Items : j.view[x] <= newest,
           j.pc \notin {"basecursor", "basemark"},
           poller.name # "linkedin" => HasBaselineOf(j)' /\ LaterOf(j),
           Exclusive => TrailsOf(j)
    PROVE  IInv'
<1>1. TypeOK /\ Bounded /\ CursorTrails BY CursorParts
<1>2. /\ rows' = rows /\ sentinel' = sentinel /\ cursor' = cursor /\ firedAt' = firedAt
      /\ sentinel' \in BOOLEAN /\ cursor' \in 0 .. MaxStamp /\ firedAt' \subseteq Items
      /\ cursor' <= newest
      /\ ~Unbaselined(sentinel, cursor) => ~Unbaselined(sentinel, cursor)'
  BY <1>1, CursorStays
<1>3. ~CursorOnce' /\ ~SilentCase' /\ ~(faults' = 0) BY <1>1, Succeeds
<1>4. Exclusive' => Exclusive BY <1>2, CursorQuiet
<1>5. Exclusive' => Behind(cursor') /\ TrailsOf(j) BY <1>1, <1>2, <1>4 DEF CursorTrails
<1> QED BY <1>2, <1>3, <1>5, CursorQuietKeeps

\* When the batch is done, the cursor follows unless it was stored first.
LEMMA EndBatchKeeps ==
    ASSUME IInv, NEW i \in Instances, EndBatch(i)
    PROVE  IInv'
<1>1. /\ job[i].pc = "fire" /\ job[i].todo = {}
      /\ UNCHANGED <<sourceVars, rowVars, toldVars, faultVars, leaseVars>>
  BY DEF EndBatch
<1>2. TypeOK /\ Phases BY DEF IInv
<1>3. poller.kind = "cursor" BY <1>1, <1>2 DEF Phases, PhasesOf, CursorSteps
<1>4. /\ Bounded /\ HasBaseline /\ Later /\ Passed /\ Started /\ CursorTrails /\ CursorMeets
      /\ CursorLeads /\ ProfileFits(poller)
  BY <1>3, CursorParts
<1>5. /\ rows' = rows /\ sentinel' = sentinel /\ cursor' = cursor /\ firedAt' = firedAt
      /\ sentinel' \in BOOLEAN /\ cursor' \in 0 .. MaxStamp /\ firedAt' \subseteq Items
      /\ cursor' <= newest /\ Working(i)
      /\ ~Unbaselined(sentinel, cursor) => ~Unbaselined(sentinel, cursor)'
  BY <1>1, <1>2, <1>4, CursorStays DEF Working
<1>6. PhasesOf(job[i]) BY <1>2 DEF Phases
<1>7. CASE poller.store = "before" \/ job[i].top = 0
  <2>1. job' = [job EXCEPT ![i] = Idle] BY <1>1, <1>7 DEF EndBatch, Quit
  <2>2. /\ Idle \in Jobs /\ PhasesOf(Idle) /\ Idle.top <= newest
        /\ \A x \in Items : Idle.view[x] <= newest
        /\ HasBaselineOf(Idle)' /\ LaterOf(Idle) /\ PassedOf(Idle)' /\ StartedOf(Idle)'
        /\ TrailsOf(Idle) /\ MeetsOf(Idle)' /\ Idle.pc = "idle"
    BY <1>2, <1>4, IdleCursor
  <2>3. /\ CursorOnce' => CursorOnce
        /\ SilentCase' => SilentCase
        /\ Exclusive' => Exclusive
        /\ faults' = 0 => faults = 0
        /\ CursorOnce \/ (poller.leased /\ (SilentCase \/ faults = 0)) =>
              \A k \in Instances : k # i => ~Working(k)
    BY <1>1, <1>3, <1>5, <2>1, <2>2, CursorQuiet
  <2>4. CursorOnce' => Knows(cursor', firedAt')
    <3> SUFFICES ASSUME CursorOnce PROVE Knows(cursor, firedAt) BY <1>5, <2>3
    <3>1. CASE poller.store = "before" BY <1>4, <3>1 DEF Passed, Storing
    <3>2. CASE poller.store = "after"
      <4>1. job[i].top = 0 /\ Knows(job[i].top, job[i].ids)
        BY <1>1, <1>4, <1>7, <3>2 DEF Passed, PassedOf
      <4>2. ASSUME NEW x \in Items, NEW s \in Stamps, IsTold(<<x, s>>) PROVE FALSE
        <5>1. s <= 0 BY <4>1, <4>2 DEF Knows
        <5> QED BY <5>1 DEF Stamps
      <4> QED BY <4>2 DEF Knows
    <3> QED BY <1>3, <1>4, <3>1, <3>2 DEF ProfileFits
  <2>5. SilentCase' => (poller.sentinel = "last" /\ sentinel' => Covers(cursor', firedAt'))
    BY <1>4, <1>5, <2>3 DEF Started
  <2>6. Exclusive' => Behind(cursor') BY <1>4, <1>5, <2>3 DEF CursorTrails
  <2>7. poller.inclusive /\ faults' = 0 => Told(cursor', firedAt')
    <3> SUFFICES ASSUME poller.inclusive, faults = 0 PROVE Told(cursor, firedAt) BY <1>5, <2>3
    <3>1. poller.leased BY <1>3, <1>4 DEF ProfileFits
    <3>2. \A k \in Instances : job[k].pc \notin {"ids", "baseids"} BY <1>1, <2>3, <3>1 DEF Working
    <3> QED BY <1>4, <3>2 DEF CursorMeets
  <2>8. \A x \in Items : ~InBatch(x, job[i]) BY <1>1 DEF InBatch
  <2> QED
    BY <1>1, <1>3, <1>5, <2>1, <2>2, <2>4, <2>5, <2>6, <2>7, <2>8, CursorQuietKeeps
<1>8. CASE ~(poller.store = "before" \/ job[i].top = 0)
  <2>1. PICK j \in Jobs :
          /\ job' = [job EXCEPT ![i] = j] /\ j.pc = "cursor"
          /\ j.view = job[i].view /\ j.todo = {} /\ j.first = job[i].first
          /\ j.ids = job[i].ids /\ j.top = job[i].top /\ j.mark = job[i].mark
    <3> DEFINE h == [job[i] EXCEPT !.pc = "cursor"]
    <3>1. job[i] \in Jobs BY <1>2 DEF TypeOK
    <3>2. h \in Jobs BY <3>1 DEF Jobs, Steps
    <3>3. job' = [job EXCEPT ![i] = h] BY <1>1, <1>2, <1>8 DEF TypeOK, EndBatch, Goto
    <3>4. /\ h.pc = "cursor" /\ h.view = job[i].view /\ h.todo = {} /\ h.first = job[i].first
          /\ h.ids = job[i].ids /\ h.top = job[i].top /\ h.mark = job[i].mark
      BY <1>1, <3>1 DEF Jobs
    <3> HIDE DEF h
    <3> QED BY <3>2, <3>3, <3>4
  <2>2. PhasesOf(j) BY <1>1, <1>3, <1>6, <2>1 DEF PhasesOf, SetSteps, CursorSteps
  <2>3. j.top <= newest /\ \A x \in Items : j.view[x] <= newest BY <1>4, <2>1 DEF Bounded
  <2>4. /\ CursorOnce' => CursorOnce
        /\ SilentCase' => SilentCase
        /\ Exclusive' => Exclusive
        /\ faults' = 0 => faults = 0
        /\ poller' = poller
        /\ \A e : IsTold(e)' <=> IsTold(e)
        /\ \A c, ids : Knows(c, ids)' <=> Knows(c, ids)
        /\ \A c, ids : Covers(c, ids)' <=> Covers(c, ids)
        /\ \A c, ids : Told(c, ids)' <=> Told(c, ids)
        /\ CursorOnce \/ (poller.leased /\ (SilentCase \/ faults = 0)) =>
              \A k \in Instances : k # i => ~Working(k)
    BY <1>1, <1>3, <1>5, <2>1, CursorQuiet
  <2>5. poller.name # "linkedin" => HasBaselineOf(j)' /\ LaterOf(j)
    <3> SUFFICES ASSUME poller.name # "linkedin" PROVE HasBaselineOf(j)' /\ LaterOf(j)
      OBVIOUS
    <3>1. HasBaselineOf(job[i]) /\ LaterOf(job[i]) BY <1>4 DEF HasBaseline, Later
    <3>2. LaterOf(j) BY <1>1, <2>1, <3>1 DEF LaterOf, Asked
    <3> QED BY <1>1, <1>5, <2>1, <2>4, <3>1, <3>2 DEF HasBaselineOf, Asked
  <2>6. CursorOnce' => PassedOf(j)' /\ Storing(j)
    <3> SUFFICES ASSUME CursorOnce PROVE PassedOf(j)' /\ Storing(j) BY <2>4
    <3>1. poller.store = "after" BY <1>3, <1>4, <1>8 DEF ProfileFits
    <3>2. Knows(j.top, j.ids)' BY <1>1, <1>4, <2>1, <2>4, <3>1 DEF Passed, PassedOf
    <3> QED BY <2>1, <2>4, <3>1, <3>2 DEF PassedOf, Storing, Asked, BaseSteps
  <2>7. SilentCase' => /\ StartedOf(j)'
                       /\ poller.sentinel = "last" /\ sentinel' => Covers(cursor', firedAt')
    <3> SUFFICES ASSUME SilentCase PROVE /\ StartedOf(j)'
                                         /\ poller.sentinel = "last" /\ sentinel' => Covers(cursor', firedAt')
      BY <2>4
    <3>1. StartedOf(job[i]) BY <1>4 DEF Started
    <3>2. StartedOf(j)' BY <1>1, <1>5, <2>1, <2>4, <3>1 DEF StartedOf, Asked, BaseSteps
    <3> QED BY <1>4, <1>5, <3>2 DEF Started
  <2>8. Exclusive' => Behind(cursor') /\ TrailsOf(j)
    BY <1>1, <1>4, <1>5, <2>1, <2>4 DEF CursorTrails, TrailsOf
  <2>9. poller.inclusive /\ faults' = 0 => MeetsOf(j)' /\ Told(cursor', firedAt')
    <3> SUFFICES ASSUME poller.inclusive, faults = 0 PROVE MeetsOf(j)' /\ Told(cursor, firedAt)
      BY <1>5, <2>4
    <3>1. poller.leased BY <1>3, <1>4 DEF ProfileFits
    <3>2. \A k \in Instances : job[k].pc \notin {"ids", "baseids"} BY <1>1, <2>4, <3>1 DEF Working
    <3>3. Told(cursor, firedAt) /\ MeetsOf(job[i]) BY <1>4, <3>2 DEF CursorMeets
    <3> QED BY <1>1, <2>1, <2>4, <3>3 DEF MeetsOf, Asked
  <2>10. \A x \in Items : ~InBatch(x, job[i]) BY <1>1 DEF InBatch
  <2> QED
    BY <1>1, <1>3, <1>5, <1>8, <2>1, <2>2, <2>3, <2>5, <2>6, <2>7, <2>8, <2>9, <2>10,
       CursorQuietKeeps
<1> QED BY <1>7, <1>8

\* A row that cannot be scanned, a page or a message that cannot be read.
LEMMA FireCutKeeps ==
    ASSUME IInv, NEW i \in Instances, NEW x \in Items, FireCut(i, x)
    PROVE  IInv'
<1>1. /\ job[i].pc = "fire" /\ Failure /\ Working(i)
      /\ UNCHANGED <<sourceVars, rowVars, toldVars, leaseVars>>
  BY DEF FireCut, Working
<1>2. TypeOK /\ Phases BY DEF IInv
<1>3. poller.kind = "cursor" BY <1>1, <1>2 DEF Phases, PhasesOf, CursorSteps
<1>4. Bounded /\ HasBaseline /\ Later /\ CursorTrails /\ ProfileFits(poller)
  BY <1>3, CursorParts
<1>5. PhasesOf(job[i]) /\ job[i] \in Jobs BY <1>2 DEF Phases, TypeOK
<1>6. poller' = poller /\ (Unbaselined(sentinel, cursor)' <=> Unbaselined(sentinel, cursor))
  BY <1>1, <1>2, <1>4, CursorStays
<1>0. poller.store = "before" => poller.name \notin {"dbrow", "dbrowtime", "logs"} BY <1>3, <1>4 DEF ProfileFits
<1>7. CASE poller.name = "logs"
  <2>1. job' = [job EXCEPT ![i] = Idle] BY <1>0, <1>7 DEF FireCut, Quit
  <2>2. /\ Idle \in Jobs /\ PhasesOf(Idle) /\ Idle.top <= newest
        /\ \A y \in Items : Idle.view[y] <= newest
        /\ HasBaselineOf(Idle)' /\ LaterOf(Idle) /\ TrailsOf(Idle) /\ Idle.pc = "idle"
    BY <1>2, <1>4, IdleCursor
  <2> QED BY <1>1, <1>3, <2>1, <2>2, CursorFails
<1>8. CASE poller.name # "logs"
  <2> DEFINE Rows == poller.name \in {"dbrow", "dbrowtime"}
  <2>1. Rows \/ poller.store = "before" BY <1>8 DEF FireCut
  <2>2. PICK T \in SUBSET job[i].todo :
          /\ job' = [job EXCEPT ![i].todo = T]
          /\ Rows => T = {}
    <3>1. CASE Rows
      <4>1. job' = [job EXCEPT ![i].todo = {}] BY <1>0, <3>1 DEF FireCut
      <4> QED BY <3>1, <4>1
    <3>2. CASE ~Rows
      <4>1. job' = [job EXCEPT ![i].todo = @ \ {x}] BY <1>0, <1>8, <2>1, <3>2 DEF FireCut
      <4>2. job' = [job EXCEPT ![i].todo = job[i].todo \ {x}] BY <1>2, <4>1 DEF TypeOK
      <4> QED BY <3>2, <4>2
    <3> QED BY <3>1, <3>2
  <2>3. PICK j \in Jobs :
          /\ job' = [job EXCEPT ![i] = j] /\ j.pc = "fire"
          /\ j.view = job[i].view /\ j.todo = T /\ j.first = job[i].first
          /\ j.ids = job[i].ids /\ j.top = job[i].top /\ j.mark = job[i].mark
    <3> DEFINE h == [job[i] EXCEPT !.todo = T]
    <3>1. h \in Jobs BY <1>5 DEF Jobs
    <3>2. job' = [job EXCEPT ![i] = h] BY <1>2, <2>2 DEF TypeOK
    <3>3. /\ h.pc = "fire" /\ h.view = job[i].view /\ h.todo = T /\ h.first = job[i].first
          /\ h.ids = job[i].ids /\ h.top = job[i].top /\ h.mark = job[i].mark
      BY <1>1, <1>5 DEF Jobs
    <3> HIDE DEF h
    <3> QED BY <3>1, <3>2, <3>3
  <2>4. PhasesOf(j) BY <1>1, <1>3, <1>5, <2>3 DEF PhasesOf, SetSteps, CursorSteps
  <2>5. j.top <= newest /\ \A y \in Items : j.view[y] <= newest BY <1>4, <2>3 DEF Bounded
  <2>6. poller.name # "linkedin" => HasBaselineOf(j)' /\ LaterOf(j)
    <3> SUFFICES ASSUME poller.name # "linkedin" PROVE HasBaselineOf(j)' /\ LaterOf(j)
      OBVIOUS
    <3>1. HasBaselineOf(job[i]) /\ LaterOf(job[i]) BY <1>4 DEF HasBaseline, Later
    <3>2. LaterOf(j) BY <1>1, <2>3, <3>1 DEF LaterOf, Asked
    <3> QED BY <1>1, <1>6, <2>3, <3>1, <3>2 DEF HasBaselineOf, Asked
  <2>7. Exclusive => TrailsOf(j)
    <3> SUFFICES ASSUME Exclusive PROVE TrailsOf(j) OBVIOUS
    <3>1. T = {} BY <1>8, <2>2 DEF Exclusive
    <3>2. Behind(j.top) BY <1>1, <1>4, <2>3 DEF CursorTrails, TrailsOf
    <3> QED BY <2>3, <3>1, <3>2 DEF TrailsOf, InOrder
  <2> QED BY <1>1, <1>3, <2>3, <2>4, <2>5, <2>6, <2>7, CursorFails
<1> QED BY <1>7, <1>8

\* A poll that ends is right when what is stored is.
LEMMA CursorEndsKeeps ==
    ASSUME IInv, NEW i \in Instances, job' = [job EXCEPT ![i] = Idle],
           poller.kind = "cursor", Working(i),
           UNCHANGED <<sourceVars, rows, toldVars, leaseVars>>,
           UNCHANGED faultVars \/ Failure,
           sentinel' \in BOOLEAN, cursor' \in 0 .. MaxStamp, firedAt' \subseteq Items,
           cursor' <= newest,
           poller.name # "linkedin" =>
               (~Unbaselined(sentinel, cursor) => ~Unbaselined(sentinel, cursor)'),
           CursorOnce' => Knows(cursor', firedAt'),
           SilentCase' => (poller.sentinel = "last" /\ sentinel' => Covers(cursor', firedAt')),
           Exclusive' => Behind(cursor'),
           poller.name = "dbrow" /\ sentinel' =>
               sentinel \/ job[i].pc \in {"basecursor", "basemark"},
           poller.inclusive /\ faults' = 0 => Told(cursor', firedAt'),
           poller.store = "before" /\ faults' = 0 =>
               /\ \A x \in Items : ~InBatch(x, job[i])
               /\ cursor' = cursor \/ Taken(cursor')
    PROVE  IInv'
<1>1. TypeOK /\ Bounded BY CursorParts
<1>2. /\ Idle \in Jobs /\ PhasesOf(Idle) /\ Idle.top <= newest
      /\ \A x \in Items : Idle.view[x] <= newest
      /\ HasBaselineOf(Idle)' /\ LaterOf(Idle) /\ PassedOf(Idle)' /\ StartedOf(Idle)'
      /\ TrailsOf(Idle) /\ MeetsOf(Idle)' /\ Idle.pc = "idle"
  BY <1>1, IdleCursor
<1>3. Idle.pc \notin {"cursor", "basecursor", "basemark"} BY <1>2
<1>4. poller.store = "before" /\ faults' = 0 =>
          \A x \in Items : InBatch(x, job[i]) => InBatch(x, Idle)
  OBVIOUS
<1>5. poller.name # "linkedin" =>
          /\ ~Unbaselined(sentinel, cursor) => ~Unbaselined(sentinel, cursor)'
          /\ HasBaselineOf(Idle)' /\ LaterOf(Idle)
  BY <1>2
<1>6. CursorOnce' => PassedOf(Idle)' /\ (Knows(cursor', firedAt') \/ Storing(Idle)) BY <1>2
<1>7. SilentCase' => /\ StartedOf(Idle)'
                     /\ poller.sentinel = "last" /\ sentinel' => Covers(cursor', firedAt')
  BY <1>2
<1>8. Exclusive' => Behind(cursor') /\ TrailsOf(Idle) BY <1>2
<1>9. poller.name = "dbrow" /\ (sentinel' \/ Idle.pc \in {"basecursor", "basemark"}) =>
          sentinel \/ job[i].pc \in {"basecursor", "basemark"}
  BY <1>3
<1>10. poller.inclusive /\ faults' = 0 =>
           MeetsOf(Idle)' /\ (Told(cursor', firedAt') \/ Idle.pc \in {"ids", "baseids"})
  BY <1>2
<1>11. poller.store = "before" /\ faults' = 0 =>
           /\ \A x \in Items : InBatch(x, job[i]) => InBatch(x, Idle)
           /\ cursor' = cursor \/ Taken(cursor')
           /\ Idle.pc \in {"cursor", "basecursor"} =>
                 \A x \in Items : source[x] > 0 /\ source[x] <= Idle.top =>
                    \/ Handled(<<x, source[x]>>) \/ InBatch(x, Idle)
                    \/ \E k \in Instances : InBatch(x, job[k])
  BY <1>3, <1>4
<1> QED BY <1>2, <1>5, <1>6, <1>7, <1>8, <1>9, <1>10, <1>11, CursorQuietKeeps

\* The ids at the cursor follow the cursor.
LEMMA StoreFiredKeeps ==
    ASSUME IInv, NEW i \in Instances, StoreFired(i)
    PROVE  IInv'
<1>1. /\ job[i].pc = "ids" /\ job' = [job EXCEPT ![i] = Idle] /\ Working(i)
      /\ Upsert(firedAt' = job[i].ids, UNCHANGED firedAt)
      /\ UNCHANGED <<sourceVars, rows, sentinel, cursor, toldVars, leaseVars>>
  BY DEF StoreFired, Quit, Working
<1>2. TypeOK /\ Phases BY DEF IInv
<1>3. poller.kind = "cursor" BY <1>1, <1>2 DEF Phases, PhasesOf, CursorSteps
<1>4. /\ Bounded /\ HasBaseline /\ Passed /\ Started /\ CursorTrails /\ CursorMeets
      /\ CursorLeads /\ ProfileFits(poller)
  BY <1>3, CursorParts
<1>5. /\ Idle \in Jobs /\ PhasesOf(Idle) /\ Idle.top <= newest
      /\ \A x \in Items : Idle.view[x] <= newest
      /\ HasBaselineOf(Idle)' /\ LaterOf(Idle) /\ PassedOf(Idle)' /\ StartedOf(Idle)'
      /\ TrailsOf(Idle) /\ MeetsOf(Idle)' /\ Idle.pc = "idle"
  BY <1>2, <1>4, IdleCursor
<1>6. /\ sentinel' = sentinel /\ cursor' = cursor /\ (UNCHANGED faultVars \/ Failure)
      /\ firedAt' \in {firedAt, job[i].ids} /\ (~Failure => firedAt' = job[i].ids)
  BY <1>1 DEF Upsert
<1>7. sentinel' \in BOOLEAN /\ cursor' \in 0 .. MaxStamp /\ firedAt' \subseteq Items /\ cursor' <= newest
  BY <1>2, <1>4, <1>6 DEF TypeOK, Jobs, Bounded
<1>8. /\ CursorOnce' => CursorOnce /\ firedAt' = job[i].ids
      /\ SilentCase' => SilentCase /\ firedAt' = job[i].ids
      /\ faults' = 0 => faults = 0 /\ firedAt' = job[i].ids
      /\ Exclusive' => Exclusive
      /\ poller' = poller
  BY <1>1, <1>3, <1>5, <1>6, <1>7, CursorQuiet
<1>9. ~Unbaselined(sentinel, cursor) => ~Unbaselined(sentinel, cursor)'
  BY <1>6, <1>8 DEF Unbaselined
<1>10. CursorOnce' => Knows(cursor', firedAt')
  BY <1>1, <1>4, <1>6, <1>8 DEF Passed, PassedOf
<1>11. SilentCase' => Covers(cursor', firedAt')
  BY <1>1, <1>4, <1>6, <1>8 DEF Started, StartedOf
<1>12. Exclusive' => Behind(cursor') BY <1>4, <1>6, <1>8 DEF CursorTrails
<1>13. poller.inclusive /\ faults' = 0 => Told(cursor', firedAt')
  BY <1>1, <1>4, <1>6, <1>8 DEF CursorMeets, MeetsOf
<1>14. \A x \in Items : ~InBatch(x, job[i]) BY <1>1 DEF InBatch, Asked
<1> QED
  <2>1. UNCHANGED <<sourceVars, rows, toldVars, leaseVars>> BY <1>1
  <2>2. poller.name = "dbrow" /\ sentinel' => sentinel BY <1>6
  <2>3. cursor' = cursor BY <1>6
  <2>4. UNCHANGED faultVars \/ Failure BY <1>6
  <2>5. SilentCase' => (poller.sentinel = "last" /\ sentinel' => Covers(cursor', firedAt'))
    BY <1>11
  <2> QED
    BY <1>1, <1>3, <1>7, <1>9, <1>10, <1>12, <1>13, <1>14, <2>1, <2>2, <2>3, <2>4, <2>5,
       CursorEndsKeeps

\* The cursor is stored: first where the poller says so, with the ids at it still
\* to come where the query includes it.
LEMMA StoreCursorKeeps ==
    ASSUME IInv, NEW i \in Instances, StoreCursor(i)
    PROVE  IInv'
<1>1. /\ job[i].pc = "cursor" /\ Working(i)
      /\ Upsert(cursor' = job[i].top, UNCHANGED cursor)
      /\ UNCHANGED <<sourceVars, rows, sentinel, firedAt, toldVars, leaseVars>>
  BY DEF StoreCursor, StoredCursor, Working
<1>2. TypeOK /\ Phases BY DEF IInv
<1>3. poller.kind = "cursor" BY <1>1, <1>2 DEF Phases, PhasesOf, CursorSteps
<1>4. /\ Bounded /\ HasBaseline /\ Later /\ Passed /\ Started /\ CursorTrails /\ CursorMeets
      /\ CursorLeads /\ ProfileFits(poller)
  BY <1>3, CursorParts
<1>5. PhasesOf(job[i]) /\ job[i] \in Jobs BY <1>2 DEF Phases, TypeOK
<1>6. /\ sentinel' = sentinel /\ firedAt' = firedAt /\ (UNCHANGED faultVars \/ Failure)
      /\ cursor' \in {cursor, job[i].top} /\ (~Failure => cursor' = job[i].top)
  BY <1>1 DEF Upsert
<1>7. sentinel' \in BOOLEAN /\ cursor' \in 0 .. MaxStamp /\ firedAt' \subseteq Items /\ cursor' <= newest
  BY <1>2, <1>4, <1>6 DEF TypeOK, Jobs, Bounded
<1>8. poller' = poller BY <1>1 DEF sourceVars
<1>9. ASSUME poller.name # "linkedin"
      PROVE  /\ HasBaselineOf(job[i]) /\ LaterOf(job[i])
             /\ ~Unbaselined(sentinel, cursor) /\ ~Unbaselined(sentinel, cursor)'
             /\ job[i].top >= 1 \/ poller.sentinel = "last"
  <2>1. HasBaselineOf(job[i]) /\ LaterOf(job[i]) BY <1>4, <1>9 DEF HasBaseline, Later
  <2>2. ~Unbaselined(sentinel, cursor) BY <1>1, <2>1 DEF HasBaselineOf, Asked
  <2>3. poller.sentinel = "cursor" => job[i].top >= 1 BY <1>1, <2>1 DEF HasBaselineOf, Asked
  <2>4. poller.sentinel \in {"last", "cursor"} BY <1>3, <1>4, <1>9 DEF ProfileFits
  <2>5. ~Unbaselined(sentinel, cursor)'
    <3>1. CASE poller.sentinel = "last" BY <1>6, <1>8, <2>2, <3>1 DEF Unbaselined
    <3>2. CASE poller.sentinel = "cursor"
      <4>1. job[i].top # 0 /\ cursor # 0 BY <2>2, <2>3, <3>2 DEF Unbaselined
      <4>2. cursor' # 0 BY <1>6, <4>1
      <4> QED BY <1>8, <3>2, <4>2 DEF Unbaselined
    <3> QED BY <2>4, <3>1, <3>2
  <2> QED BY <2>1, <2>2, <2>3, <2>4, <2>5
<1>10. SilentCase /\ cursor' = job[i].top =>
           (poller.sentinel = "last" /\ sentinel' => Covers(cursor', firedAt'))
  <2> SUFFICES ASSUME SilentCase, cursor' = job[i].top, poller.sentinel = "last", sentinel
               PROVE  Covers(job[i].top, firedAt)
    BY <1>6
  <2>1. Covers(cursor, firedAt) /\ Covers(job[i].top, job[i].ids) /\ cursor <= job[i].top
    BY <1>1, <1>4 DEF Started, StartedOf, Asked
  <2>2. cursor \in Nat /\ job[i].top \in Nat BY <1>2, <1>4, CursorTypes
  <2> QED BY <2>1, <2>2 DEF Covers
<1>11. ASSUME NEW j \in Jobs, job' = [job EXCEPT ![i] = j]
       PROVE  /\ CursorOnce' => CursorOnce /\ cursor' = job[i].top
              /\ SilentCase' => SilentCase /\ cursor' = job[i].top
              /\ faults' = 0 => faults = 0 /\ cursor' = job[i].top
              /\ Exclusive' => Exclusive
              /\ \A e : IsTold(e)' <=> IsTold(e)
              /\ \A c, ids : Knows(c, ids)' <=> Knows(c, ids)
              /\ \A c, ids : Covers(c, ids)' <=> Covers(c, ids)
              /\ \A c, ids : Told(c, ids)' <=> Told(c, ids)
  BY <1>1, <1>3, <1>6, <1>7, <1>11, CursorQuiet
<1>12. ASSUME NEW pc \in {"fire", "ids"}, job' = [job EXCEPT ![i].pc = pc]
       PROVE  \E j \in Jobs :
                 /\ job' = [job EXCEPT ![i] = j] /\ j.pc = pc
                 /\ j.view = job[i].view /\ j.todo = job[i].todo /\ j.first = job[i].first
                 /\ j.ids = job[i].ids /\ j.top = job[i].top /\ j.mark = job[i].mark
  <2> DEFINE h == [job[i] EXCEPT !.pc = pc]
  <2>1. h \in Jobs BY <1>5 DEF Jobs, Steps
  <2>2. job' = [job EXCEPT ![i] = h] BY <1>2, <1>12 DEF TypeOK
  <2>3. /\ h.pc = pc /\ h.view = job[i].view /\ h.todo = job[i].todo /\ h.first = job[i].first
        /\ h.ids = job[i].ids /\ h.top = job[i].top /\ h.mark = job[i].mark
    BY <1>5 DEF Jobs
  <2> HIDE DEF h
  <2> QED BY <2>1, <2>2, <2>3
<1>13. \A x \in Items : job[i].view[x] <= newest /\ job[i].top <= newest
  BY <1>4 DEF Bounded
<1>14. CASE poller.store = "before"
  <2>0. job' = [job EXCEPT ![i].pc = "fire"] BY <1>14, <1>3, <1>4 DEF StoreCursor, Goto, ProfileFits
  <2>1. PICK j \in Jobs :
          /\ job' = [job EXCEPT ![i] = j] /\ j.pc = "fire"
          /\ j.view = job[i].view /\ j.todo = job[i].todo /\ j.first = job[i].first
          /\ j.ids = job[i].ids /\ j.top = job[i].top /\ j.mark = job[i].mark
    BY <1>12, <2>0
  <2>2. /\ CursorOnce' => CursorOnce /\ cursor' = job[i].top
        /\ SilentCase' => SilentCase /\ cursor' = job[i].top
        /\ faults' = 0 => faults = 0 /\ cursor' = job[i].top
        /\ Exclusive' => Exclusive
        /\ \A e : IsTold(e)' <=> IsTold(e)
    BY <1>11, <2>1
  <2>3. /\ ~poller.inclusive /\ poller.sentinel = "cursor" /\ poller.name \notin {"dbrow", "dbrowtime", "logs"}
        /\ poller.store # "after"
    BY <1>3, <1>4, <1>14 DEF ProfileFits
  <2>4. PhasesOf(j) BY <1>1, <1>3, <1>5, <2>1 DEF PhasesOf, SetSteps, CursorSteps
  <2>5. j.top <= newest /\ \A x \in Items : j.view[x] <= newest BY <1>4, <2>1 DEF Bounded
  <2>6. poller.name # "linkedin" => HasBaselineOf(j)' /\ LaterOf(j)
    <3> SUFFICES ASSUME poller.name # "linkedin" PROVE HasBaselineOf(j)' /\ LaterOf(j)
      OBVIOUS
    <3>1. LaterOf(j) BY <1>1, <1>9, <2>1 DEF LaterOf, Asked
    <3> QED BY <1>1, <1>8, <1>9, <2>1, <2>3, <3>1 DEF HasBaselineOf, Asked
  <2>7. CursorOnce' => PassedOf(j)' /\ Knows(cursor', firedAt')
    <3> SUFFICES ASSUME CursorOnce, cursor' = job[i].top PROVE PassedOf(j)' /\ Knows(cursor', firedAt')
      BY <2>2
    <3>1. PassedOf(job[i]) BY <1>4 DEF Passed
    <3>2. Knows(job[i].top, job[i].ids) BY <1>1, <3>1 DEF PassedOf
    <3>3. Knows(cursor', firedAt') BY <2>3, <3>2 DEF Knows
    <3>4. \A x \in j.todo : /\ ~IsTold(<<x, j.view[x]>>)' /\ j.view[x] <= cursor'
      BY <1>1, <1>14, <2>1, <2>2, <3>1 DEF PassedOf, Asked
    <3>5. PassedOf(j)' BY <1>8, <2>1, <2>3, <3>4 DEF PassedOf, Asked, BaseSteps
    <3> QED BY <3>3, <3>5
  <2>8. SilentCase' => StartedOf(j)'
    <3> SUFFICES ASSUME SilentCase PROVE StartedOf(j)' BY <2>2
    <3>1. StartedOf(job[i]) BY <1>4 DEF Started
    <3> QED BY <1>1, <1>8, <2>1, <2>3, <3>1 DEF StartedOf, Asked, BaseSteps
  <2>9. ~Exclusive' BY <1>8, <2>3 DEF Exclusive
  <2>10. faults' = 0 => cursor' = cursor \/ Taken(cursor')
    BY <1>1, <1>4, <1>14, <2>2 DEF CursorLeads
  <2>11. \A x \in Items : InBatch(x, job[i]) => InBatch(x, j) BY <2>1 DEF InBatch, Asked
  <2> QED
    BY <1>1, <1>3, <1>6, <1>7, <1>9, <1>10, <2>1, <2>2, <2>3, <2>4, <2>5, <2>6, <2>7, <2>8, <2>9,
       <2>10, <2>11, CursorQuietKeeps
<1>15. CASE poller.store # "before" /\ poller.inclusive
  <2>0. job' = [job EXCEPT ![i].pc = "ids"] BY <1>15 DEF StoreCursor, Goto
  <2>1. PICK j \in Jobs :
          /\ job' = [job EXCEPT ![i] = j] /\ j.pc = "ids"
          /\ j.view = job[i].view /\ j.todo = job[i].todo /\ j.first = job[i].first
          /\ j.ids = job[i].ids /\ j.top = job[i].top /\ j.mark = job[i].mark
    BY <1>12, <2>0
  <2>2. /\ CursorOnce' => CursorOnce /\ cursor' = job[i].top
        /\ SilentCase' => SilentCase /\ cursor' = job[i].top
        /\ faults' = 0 => faults = 0 /\ cursor' = job[i].top
        /\ Exclusive' => Exclusive
        /\ \A c, ids : Knows(c, ids)' <=> Knows(c, ids)
        /\ \A c, ids : Covers(c, ids)' <=> Covers(c, ids)
        /\ \A c, ids : Told(c, ids)' <=> Told(c, ids)
    BY <1>11, <2>1
  <2>3. /\ poller.name \notin {"dbrow", "dbrowtime", "logs", "linkedin"} /\ poller.store = "after"
        /\ poller.sentinel = "last"
    BY <1>3, <1>4, <1>15 DEF ProfileFits
  <2>4. PhasesOf(j) BY <1>1, <1>3, <1>5, <2>1 DEF PhasesOf, SetSteps, CursorSteps
  <2>5. j.top <= newest /\ \A x \in Items : j.view[x] <= newest BY <1>4, <2>1 DEF Bounded
  <2>6. HasBaselineOf(j)' /\ LaterOf(j)
    BY <1>8, <1>9, <1>15, <2>1, <2>3 DEF HasBaselineOf, LaterOf, Asked
  <2>7. CursorOnce' => PassedOf(j)' /\ Storing(j)
    <3> SUFFICES ASSUME CursorOnce, cursor' = job[i].top PROVE PassedOf(j)' /\ Storing(j)
      BY <2>2
    <3>1. Knows(job[i].top, job[i].ids) BY <1>1, <1>4 DEF Passed, PassedOf
    <3>2. Knows(cursor, j.ids)'
      <4> PICK c : c = job[i].top OBVIOUS
      <4>1. Knows(c, j.ids)' BY <2>1, <2>2, <3>1
      <4> QED BY <4>1 DEF Knows
    <3> QED BY <2>1, <2>3, <3>2, <1>8 DEF PassedOf, Asked, BaseSteps, Storing
  <2>8. SilentCase' => StartedOf(j)'
    <3> SUFFICES ASSUME SilentCase, cursor' = job[i].top PROVE StartedOf(j)' BY <2>2
    <3>1. Covers(job[i].top, job[i].ids) BY <1>1, <1>4, <2>3 DEF Started, StartedOf, Asked
    <3>2. Covers(cursor, j.ids)'
      <4> PICK c : c = job[i].top OBVIOUS
      <4>1. Covers(c, j.ids)' BY <2>1, <2>2, <3>1
      <4> QED BY <4>1 DEF Covers
    <3> QED BY <2>1, <3>2 DEF StartedOf, Asked, BaseSteps
  <2>9. ~Exclusive' BY <1>8, <2>3 DEF Exclusive
  <2>10. faults' = 0 => MeetsOf(j)'
    <3> SUFFICES ASSUME faults = 0, cursor' = job[i].top PROVE MeetsOf(j)' BY <2>2
    <3>1. Told(job[i].top, job[i].ids) BY <1>1, <1>4, <1>15 DEF CursorMeets, MeetsOf, Asked
    <3>2. Told(cursor, j.ids)'
      <4> PICK c : c = job[i].top OBVIOUS
      <4>1. Told(c, j.ids)' BY <2>1, <2>2, <3>1
      <4> QED BY <4>1 DEF Told
    <3> QED BY <2>1, <3>2 DEF MeetsOf, Asked
  <2> QED
    BY <1>1, <1>3, <1>6, <1>7, <1>9, <1>10, <1>15, <2>1, <2>2, <2>3, <2>4, <2>5, <2>6, <2>7,
       <2>8, <2>9, <2>10, CursorQuietKeeps
<1>16. CASE poller.store # "before" /\ ~poller.inclusive
  <2>1. job' = [job EXCEPT ![i] = Idle] BY <1>16 DEF StoreCursor, Quit
  <2>2. /\ Idle \in Jobs /\ PhasesOf(Idle) /\ Idle.top <= newest
        /\ \A x \in Items : Idle.view[x] <= newest
        /\ HasBaselineOf(Idle)' /\ LaterOf(Idle) /\ PassedOf(Idle)' /\ StartedOf(Idle)'
        /\ TrailsOf(Idle) /\ MeetsOf(Idle)' /\ Idle.pc = "idle"
    BY <1>2, <1>4, IdleCursor
  <2>3. /\ CursorOnce' => CursorOnce /\ cursor' = job[i].top
        /\ SilentCase' => SilentCase /\ cursor' = job[i].top
        /\ Exclusive' => Exclusive
    BY <1>11, <2>1, <2>2
  <2>4. CursorOnce' => Knows(cursor', firedAt')
    <3> SUFFICES ASSUME CursorOnce, cursor' = job[i].top PROVE Knows(cursor', firedAt')
      BY <2>3
    <3>1. Knows(job[i].top, job[i].ids) BY <1>1, <1>4 DEF Passed, PassedOf
    <3> QED BY <1>16, <3>1 DEF Knows
  <2>5. Exclusive' => Behind(cursor')
    BY <1>1, <1>4, <1>6, <2>3 DEF CursorTrails, TrailsOf
  <2> QED
    <3>1. UNCHANGED <<sourceVars, rows, toldVars, leaseVars>> BY <1>1
    <3>2. poller.name = "dbrow" /\ sentinel' => sentinel BY <1>6
    <3>3. UNCHANGED faultVars \/ Failure BY <1>6
    <3>4. SilentCase' => (poller.sentinel = "last" /\ sentinel' => Covers(cursor', firedAt'))
      BY <1>10, <2>3
    <3> QED
      BY <1>1, <1>3, <1>7, <1>9, <1>16, <2>1, <2>4, <2>5, <3>1, <3>2, <3>3, <3>4,
         CursorEndsKeeps
<1> QED BY <1>14, <1>15, <1>16

\* The greatest stamp the provider holds is the last it has given.
LEMMA GreatestIs ==
    ASSUME TypeOK, Bounded, SourceFits
    PROVE  /\ Present(source) = {} => Greatest(source) = 0
           /\ Present(source) # {} => Greatest(source) = newest
<1>1. newest \in Stamps /\ newest \in Nat \ {0} BY DEF TypeOK, Stamps
<1>2. \A x \in Items : source[x] \in Int /\ source[x] <= newest BY CursorTypes
<1>3. ASSUME Present(source) # {} PROVE Greatest(source) = newest
  <2> DEFINE P(s) == \E x \in Present(source) :
                        source[x] = s /\ \A y \in Present(source) : source[y] <= s
  <2>1. PICK x \in Items : source[x] = newest BY <1>3 DEF Present, SourceFits
  <2>2. x \in Present(source) BY <1>1, <2>1 DEF Present
  <2>3. P(newest) BY <1>2, <2>1, <2>2 DEF Present
  <2>4. ASSUME NEW s \in Stamps, P(s) PROVE s = newest
    <3>1. s \in Int BY DEF Stamps
    <3>2. PICK y \in Present(source) :
            source[y] = s /\ \A z \in Present(source) : source[z] <= s
      BY <2>4
    <3>3. newest <= s BY <2>1, <2>2, <3>2
    <3>4. s <= newest BY <1>2, <3>2 DEF Present
    <3> QED BY <1>1, <3>1, <3>3, <3>4
  <2>5. Greatest(source) = CHOOSE s \in Stamps : P(s) BY <1>3 DEF Greatest
  <2> HIDE DEF P
  <2> QED BY <1>1, <2>3, <2>4, <2>5
<1> QED BY <1>3 DEF Greatest

\* The baseline is taken at the provider's clock, or when there is nothing yet.
LEMMA BaselineIs ==
    ASSUME TypeOK, Bounded, SourceFits
    PROVE  /\ BaselineStamp \in 0 .. MaxStamp /\ BaselineStamp <= newest
           /\ BaselineStamp # 0 => BaselineStamp = newest /\ newest >= 1
           /\ BaselineStamp = 0 => poller.baseline # "clock" /\ Present(source) = {}
<1>1. newest \in Nat \ {0} /\ newest \in 0 .. MaxStamp BY DEF TypeOK, Stamps
<1>2. BaselineStamp = newest \/ (BaselineStamp = 0 /\ poller.baseline # "clock" /\ Present(source) = {})
  BY GreatestIs DEF BaselineStamp
<1> QED BY <1>1, <1>2

\* The baseline passes over what the provider holds: all of it lies at or behind
\* the stamp, and the ids at the stamp are complete when the items fit.
LEMMA BaselineKeeps ==
    ASSUME IInv, NEW i \in Instances, Baseline(i)
    PROVE  IInv'
<1> PICK c : c = BaselineStamp OBVIOUS
<1>1. /\ job[i].pc = "baseline" /\ Working(i)
      /\ silent' = silent \cup {<<x, source[x]>> : x \in Present(source)}
      /\ UNCHANGED <<sourceVars, rowVars, told, again, faultVars, leaseVars>>
  BY DEF Baseline, Working
<1>2. TypeOK /\ Phases BY DEF IInv
<1>3. poller.kind = "cursor" BY <1>1, <1>2 DEF Phases, PhasesOf, CursorSteps, BaseSteps
<1>4. /\ Bounded /\ Silent /\ SourceFits /\ HasBaseline /\ Passed /\ Started /\ CursorTrails
      /\ CursorMeets /\ CursorLeads /\ (CursorOnce => NoneTwice) /\ ProfileFits(poller)
  BY <1>3, CursorParts
<1>5. /\ c \in 0 .. MaxStamp /\ c <= newest /\ (c # 0 => c = newest /\ newest >= 1)
      /\ c = 0 => poller.baseline # "clock" /\ Present(source) = {}
  BY <1>2, <1>4, BaselineIs
<1>6. PhasesOf(job[i]) /\ job[i] \in Jobs BY <1>2 DEF Phases, TypeOK
<1>7. PICK ids \in SUBSET {x \in Present(source) : source[x] = c} :
        /\ poller.inclusive => \/ Cardinality(ids) = Limit
                               \/ \A x \in Present(source) : source[x] = c => x \in ids
        /\ job' = [job EXCEPT ![i].pc = IF c = 0 THEN "basemark" ELSE "basecursor",
                              ![i].top = c, ![i].ids = ids]
  BY DEF Baseline
<1>8. PICK j \in Jobs :
        /\ job' = [job EXCEPT ![i] = j]
        /\ j.pc = IF c = 0 THEN "basemark" ELSE "basecursor"
        /\ j.view = job[i].view /\ j.todo = job[i].todo /\ j.first = job[i].first
        /\ j.ids = ids /\ j.top = c
  <2> DEFINE h == [job[i] EXCEPT !.pc = IF c = 0 THEN "basemark" ELSE "basecursor",
                                 !.top = c, !.ids = ids]
  <2>1. ids \subseteq Items BY DEF Present
  <2>2. h \in Jobs BY <1>5, <1>6, <2>1 DEF Jobs, Steps
  <2>3. job' = [job EXCEPT ![i] = h] BY <1>2, <1>7 DEF TypeOK
  <2>4. /\ h.pc = IF c = 0 THEN "basemark" ELSE "basecursor"
        /\ h.view = job[i].view /\ h.todo = job[i].todo /\ h.first = job[i].first
        /\ h.ids = ids /\ h.top = c
    BY <1>6 DEF Jobs
  <2> HIDE DEF h
  <2> QED BY <2>2, <2>3, <2>4
<1>9. /\ rows' = rows /\ sentinel' = sentinel /\ cursor' = cursor /\ firedAt' = firedAt
      /\ cursor' <= newest /\ poller' = poller /\ source' = source
      /\ Unbaselined(sentinel, cursor)' <=> Unbaselined(sentinel, cursor)
  BY <1>1, <1>2, <1>4, CursorStays DEF sourceVars
<1>10. TypeOK' /\ Grows
  <2>1. job' \in [Instances -> Jobs] BY <1>2, <1>8, JobStep
  <2>2. silent' \subseteq Events
    <3>1. \A x \in Present(source) : <<x, source[x]>> \in Events
      <4> TAKE x \in Present(source)
      <4>1. x \in Items /\ source[x] \in -1 .. MaxStamp /\ source[x] > 0
        BY <1>2 DEF Present, TypeOK, Views
      <4>2. source[x] \in Stamps BY <4>1 DEF Stamps
      <4> QED BY <4>1, <4>2 DEF Events
    <3> QED BY <1>1, <1>2, <3>1 DEF TypeOK
  <2>3. /\ rows' \in [Instances \cup {Table} -> [Items -> 0 .. MaxStamp]]
        /\ sentinel' \in BOOLEAN /\ cursor' \in 0 .. MaxStamp /\ firedAt' \subseteq Items
        /\ told' \in [Instances -> SUBSET Events] /\ again' \subseteq Events
    BY <1>1, <1>2, <1>9 DEF TypeOK
  <2> QED BY <1>1, <1>2, <2>1, <2>2, <2>3, TypesStep
<1>11. /\ CursorOnce' => CursorOnce
       /\ SilentCase' => SilentCase
       /\ Exclusive' => Exclusive
       /\ faults' = 0 => faults = 0
       /\ CursorOnce \/ (poller.leased /\ (SilentCase \/ faults = 0)) =>
             \A k \in Instances : k # i => ~Working(k)
  BY <1>1, <1>3, <1>8, <1>10, CursorStep
<1>12. /\ \A e : IsTold(e)' <=> IsTold(e)
       /\ \A e : Handled(e) => Handled(e)'
       /\ \A x \in Present(source) : Handled(<<x, source[x]>>)'
       /\ \A e : Handled(e)' => Handled(e) \/ \E x \in Present(source) : e = <<x, source[x]>>
       /\ silent \subseteq silent'
  <2>1. \A e : IsTold(e)' <=> IsTold(e) BY <1>1 DEF IsTold
  <2>2. \A e : Handled(e)' <=> Handled(e) \/ e \in {<<x, source[x]>> : x \in Present(source)}
    BY <1>1, <2>1 DEF Handled
  <2>3. ASSUME NEW x \in Present(source) PROVE Handled(<<x, source[x]>>)'
    BY <1>9, <2>2
  <2> QED BY <1>1, <2>1, <2>2, <2>3
<1>13. PhasesOf(j)
  BY <1>1, <1>3, <1>6, <1>8 DEF PhasesOf, SetSteps, CursorSteps, BaseSteps
<1>14. j.top <= newest /\ \A x \in Items : j.view[x] <= newest
  BY <1>4, <1>5, <1>8 DEF Bounded
<1>15. \A x \in Items, s \in Stamps : Handled(<<x, s>>)' => s <= newest
  <2> TAKE x \in Items, s \in Stamps
  <2> HAVE Handled(<<x, s>>)'
  <2>1. CASE Handled(<<x, s>>) BY <1>4, <2>1 DEF Bounded
  <2>2. CASE \E y \in Present(source) : <<x, s>> = <<y, source[y]>>
    BY <1>4, <2>2 DEF Bounded
  <2> QED BY <1>12, <2>1, <2>2
<1>16. Silent' /\ (CursorOnce' => NoneTwice')
  BY <1>1, <1>4, <1>11, <1>12 DEF Silent, NoneTwice
<1>17. ASSUME poller.name # "linkedin"
       PROVE  /\ (\E x \in Items, s \in Stamps : IsTold(<<x, s>>)') => ~Unbaselined(sentinel, cursor)'
              /\ HasBaselineOf(j)' /\ LaterOf(j)
  <2>1. (\E x \in Items, s \in Stamps : IsTold(<<x, s>>)') => ~Unbaselined(sentinel, cursor)'
    BY <1>4, <1>9, <1>12, <1>17 DEF HasBaseline
  <2>2. c = 0 => poller.sentinel = "last"
    BY <1>3, <1>4, <1>5, <1>17 DEF ProfileFits
  <2> QED BY <1>5, <1>8, <1>9, <2>1, <2>2 DEF HasBaselineOf, LaterOf, Asked
<1>18. CursorOnce' => PassedOf(j)' /\ Knows(cursor, firedAt)'
  <2> SUFFICES ASSUME CursorOnce PROVE PassedOf(j)' /\ Knows(cursor, firedAt)' BY <1>11
  <2>1. \A x \in Items, s \in Stamps : ~IsTold(<<x, s>>)
    BY <1>1, <1>4 DEF Passed, PassedOf, BaseSteps
  <2>2. \A x \in Items, s \in Stamps : ~IsTold(<<x, s>>)' BY <1>12, <2>1
  <2> QED BY <1>8, <2>2 DEF PassedOf, Knows, Asked, BaseSteps
<1>19. SilentCase' => /\ StartedOf(j)'
                      /\ poller.sentinel = "last" /\ sentinel' => Covers(cursor, firedAt)'
  <2> SUFFICES ASSUME SilentCase PROVE /\ StartedOf(j)'
                                       /\ poller.sentinel = "last" /\ sentinel' => Covers(cursor, firedAt)'
    BY <1>11
  <2>1. /\ StartedOf(job[i])
        /\ poller.sentinel = "last" /\ sentinel => Covers(cursor, firedAt)
    BY <1>4 DEF Started
  <2>2. \A a, b : Covers(a, b)' <=> Covers(a, b) BY <1>9 DEF Covers, Existing
  <2>3. Covers(cursor, firedAt)' <=> Covers(cursor, firedAt) BY <1>9 DEF Covers, Existing
  <2>4. poller.sentinel = "last" => ~sentinel BY <1>1, <2>1 DEF StartedOf, BaseSteps
  <2>5. ASSUME c # 0 PROVE Covers(c, ids)
    <3>1. c >= 1 BY <1>5, <2>5
    <3>2. ASSUME poller.inclusive, c <= 1, NEW x \in Items, Existing(x) PROVE x \in ids
      <4>1. c = 1 BY <1>5, <3>1, <3>2
      <4>2. x \in Present(source) /\ source[x] = c BY <3>2, <4>1 DEF Existing, Present
      <4>3. CASE Cardinality(ids) = Limit
        <5> DEFINE S == {y \in Present(source) : source[y] = c}
        <5>1. S \in SUBSET Present(source) /\ ids \in SUBSET S OBVIOUS
        <5>2. Fits BY DEF SilentCase
        <5> HIDE DEF S
        <5>3. ids = S BY <1>2, <1>3, <4>3, <5>1, <5>2, AllIds
        <5> QED BY <4>2, <5>3 DEF S
      <4>4. CASE Cardinality(ids) # Limit BY <1>7, <3>2, <4>2, <4>4
      <4> QED BY <4>3, <4>4
    <3> QED BY <1>5, <3>1, <3>2 DEF Covers
  <2>6. ASSUME c = 0 PROVE Covers(cursor, firedAt)
    <3>1. Old = {}
      <4>1. ASSUME NEW x \in Old PROVE x \in Present(source)
        <5>1. x \in Items /\ source[x] >= 1 BY <1>4 DEF SourceFits
        <5>2. source[x] \in Int BY <1>2, <1>4, <5>1, CursorTypes
        <5> QED BY <5>1, <5>2 DEF Present
      <4> QED BY <1>5, <2>6, <4>1
    <3> QED BY <3>1 DEF Covers, Existing
  <2>7. StartedOf(j)'
    BY <1>5, <1>8, <1>9, <2>2, <2>3, <2>4, <2>5, <2>6 DEF StartedOf, Asked, BaseSteps
  <2> QED BY <1>9, <2>1, <2>3, <2>7
<1>20. Exclusive' => Behind(cursor)' /\ TrailsOf(j)'
  <2> SUFFICES ASSUME Exclusive PROVE Behind(cursor)' /\ TrailsOf(j)' BY <1>11
  <2>1. \A x \in Items : source'[x] > 0 => Handled(<<x, source[x]>>)'
    BY <1>9, <1>12 DEF Present
  <2>2. \A a : Behind(a)' BY <2>1 DEF Behind
  <2>3. Behind(cursor)' BY <2>1 DEF Behind
  <2> QED BY <1>8, <2>2, <2>3 DEF TrailsOf
<1>21. \A x \in Old : source[x] = 1 => <<x, 1>> \in silent'
  BY <1>1 DEF Present
<1>22. poller.inclusive /\ faults' = 0 => MeetsOf(j)' /\ Told(cursor, firedAt)'
  <2> SUFFICES ASSUME poller.inclusive, faults = 0 PROVE MeetsOf(j)' /\ Told(cursor, firedAt)'
    BY <1>11
  <2>1. Told(cursor, firedAt)
    <3>1. poller.leased BY <1>3, <1>4 DEF ProfileFits
    <3>2. \A k \in Instances : job[k].pc \notin {"ids", "baseids"} BY <1>1, <1>11, <3>1 DEF Working
    <3> QED BY <1>4, <3>2 DEF CursorMeets
  <2>2. Told(cursor, firedAt)' BY <1>9, <1>12, <2>1 DEF Told
  <2>3. Told(j.top, j.ids)'
    <3>1. \A x \in Items : source'[x] > 0 => Handled(<<x, source[x]>>)'
      BY <1>9, <1>12 DEF Present
    <3>2. ASSUME NEW x \in j.ids PROVE Handled(<<x, j.top>>)'
      <4>1. x \in Present(source) /\ source[x] = j.top BY <1>8
      <4> QED BY <1>9, <1>12, <4>1
    <3> QED BY <3>1, <3>2 DEF Told
  <2> QED BY <1>8, <2>2, <2>3 DEF MeetsOf, Asked
<1>23. poller.store = "before" /\ faults' = 0 =>
          /\ \A x \in Items : ~InBatch(x, job[i])
          /\ cursor' = cursor
          /\ \A x \in Items : source[x] > 0 => Handled(<<x, source[x]>>)'
  BY <1>1, <1>9, <1>12 DEF InBatch, Asked, Present
<1>24. UNCHANGED <<sourceVars, rows, leaseVars>> /\ (UNCHANGED faultVars \/ Failure)
  BY <1>1, <1>9
<1> QED
  BY <1>1, <1>3, <1>8, <1>9, <1>10, <1>12, <1>13, <1>14, <1>15, <1>16, <1>17, <1>18, <1>19,
     <1>20, <1>21, <1>22, <1>23, <1>24, CursorStepKeeps

\* The keys of the baseline are stored one by one, the sentinel last.
LEMMA BaselineStoresKeeps ==
    ASSUME IInv, NEW i \in Instances, BaselineStores(i)
    PROVE  IInv'
<1>1. /\ job[i].pc \in {"basecursor", "baseids", "basemark"} /\ Working(i)
      /\ UNCHANGED <<sourceVars, rows, toldVars, leaseVars>>
      /\ job' = IF BaselineNext(i) = "idle" THEN [job EXCEPT ![i] = Idle]
                ELSE [job EXCEPT ![i].pc = BaselineNext(i)]
  BY DEF BaselineStores, Working, Quit, Goto
<1>2. TypeOK /\ Phases BY DEF IInv
<1>3. poller.kind = "cursor" BY <1>1, <1>2 DEF Phases, PhasesOf, CursorSteps, BaseSteps
<1>4. /\ Bounded /\ HasBaseline /\ Passed /\ Started /\ CursorTrails /\ CursorMeets
      /\ CursorLeads /\ ProfileFits(poller)
  BY <1>3, CursorParts
<1>5. PhasesOf(job[i]) /\ job[i] \in Jobs BY <1>2 DEF Phases, TypeOK
<1>6. /\ UNCHANGED faultVars \/ Failure
      /\ cursor' \in {cursor, job[i].top} /\ firedAt' \in {firedAt, job[i].ids}
      /\ sentinel' \in BOOLEAN /\ (sentinel => sentinel')
      /\ job[i].pc # "basecursor" => cursor' = cursor
      /\ job[i].pc # "baseids" => firedAt' = firedAt
      /\ job[i].pc # "basemark" => sentinel' = sentinel
      /\ ~Failure /\ job[i].pc = "basecursor" => cursor' = job[i].top
      /\ ~Failure /\ job[i].pc = "baseids" => firedAt' = job[i].ids
  <2>1. sentinel \in BOOLEAN BY <1>2 DEF TypeOK
  <2>2. CASE job[i].pc = "basecursor" BY <2>1, <2>2 DEF BaselineStores, Upsert
  <2>3. CASE job[i].pc = "baseids" BY <2>1, <2>3 DEF BaselineStores, Upsert
  <2>4. CASE job[i].pc = "basemark"
    <3>1. /\ Upsert(sentinel' = TRUE, UNCHANGED sentinel)
          /\ cursor' = cursor /\ firedAt' = firedAt
      BY <2>4 DEF BaselineStores
    <3>2. sentinel' = TRUE \/ sentinel' = sentinel BY <3>1 DEF Upsert
    <3>3. UNCHANGED faultVars \/ Failure BY <3>1 DEF Upsert
    <3>4. sentinel' \in BOOLEAN /\ (sentinel => sentinel') BY <2>1, <3>2
    <3> QED BY <2>4, <3>1, <3>3, <3>4
  <2> QED BY <1>1, <2>2, <2>3, <2>4
<1>7. cursor' \in 0 .. MaxStamp /\ firedAt' \subseteq Items /\ cursor' <= newest
  BY <1>2, <1>4, <1>6 DEF TypeOK, Jobs, Bounded
<1>8. poller' = poller BY <1>1 DEF sourceVars
<1>9. PICK j \in Jobs :
        /\ job' = [job EXCEPT ![i] = j]
        /\ \/ j = Idle
           \/ /\ job[i].pc = "basecursor" /\ poller.inclusive /\ j.pc = "baseids"
              /\ j.ids = job[i].ids
           \/ /\ job[i].pc = LastKey /\ poller.sentinel = "last" /\ j.pc = "basemark"
        /\ j = Idle => \/ ~(job[i].pc = "basecursor" /\ poller.inclusive)
        /\ PhasesOf(j) /\ j.top <= newest /\ \A x \in Items : j.view[x] <= newest
  <2>1. BaselineNext(i) \in {"idle", "baseids", "basemark"} BY DEF BaselineNext
  <2>2. /\ BaselineNext(i) = "baseids" => job[i].pc = "basecursor" /\ poller.inclusive
        /\ BaselineNext(i) = "basemark" => job[i].pc = LastKey /\ poller.sentinel = "last"
        /\ BaselineNext(i) = "idle" => ~(job[i].pc = "basecursor" /\ poller.inclusive)
    BY DEF BaselineNext, LastKey
  <2>3. CASE BaselineNext(i) = "idle"
    <3>1. job' = [job EXCEPT ![i] = Idle] BY <1>1, <2>3
    <3>2. /\ Idle \in Jobs /\ PhasesOf(Idle) /\ Idle.top <= newest
          /\ \A x \in Items : Idle.view[x] <= newest
      BY <1>2, <1>4, IdleCursor
    <3> QED BY <2>2, <2>3, <3>1, <3>2
  <2>4. CASE BaselineNext(i) # "idle"
    <3> PICK pc : pc = BaselineNext(i) OBVIOUS
    <3> DEFINE h == [job[i] EXCEPT !.pc = pc]
    <3>1. h \in Jobs BY <1>5, <2>1, <2>4 DEF Jobs, Steps
    <3>2. job' = [job EXCEPT ![i] = h] BY <1>1, <1>2, <2>4 DEF TypeOK
    <3>3. /\ h.pc = pc /\ h.view = job[i].view /\ h.todo = job[i].todo /\ h.first = job[i].first
          /\ h.ids = job[i].ids /\ h.top = job[i].top
      BY <1>5 DEF Jobs
    <3>4. Idle.pc = "idle" BY IdlePoll
    <3> HIDE DEF h
    <3>5. PhasesOf(h)
      BY <1>1, <1>3, <1>5, <2>1, <2>4, <3>3 DEF PhasesOf, SetSteps, CursorSteps, BaseSteps
    <3>6. h.top <= newest /\ \A x \in Items : h.view[x] <= newest BY <1>4, <3>3 DEF Bounded
    <3>7. h # Idle BY <2>4, <3>3, <3>4
    <3>8. \/ /\ job[i].pc = "basecursor" /\ poller.inclusive /\ h.pc = "baseids"
             /\ h.ids = job[i].ids
          \/ /\ job[i].pc = LastKey /\ poller.sentinel = "last" /\ h.pc = "basemark"
      BY <2>1, <2>2, <2>4, <3>3
    <3> QED BY <3>1, <3>2, <3>5, <3>6, <3>7, <3>8
  <2> QED BY <2>3, <2>4
<1>10. Idle.pc = "idle" BY IdlePoll
<1>11. j.pc \in {"idle", "baseids", "basemark"} BY <1>9, <1>10
<1>12. /\ CursorOnce' => CursorOnce /\ ~Failure
       /\ SilentCase' => SilentCase /\ ~Failure
       /\ faults' = 0 => faults = 0 /\ ~Failure
       /\ Exclusive' => Exclusive
       /\ \A e : IsTold(e)' <=> IsTold(e)
       /\ \A c, ids : Covers(c, ids)' <=> Covers(c, ids)
       /\ \A c, ids : Told(c, ids)' <=> Told(c, ids)
       /\ CursorOnce \/ (poller.leased /\ (SilentCase \/ faults = 0)) =>
             \A k \in Instances : k # i => ~Working(k)
  BY <1>1, <1>3, <1>6, <1>7, <1>9, CursorQuiet
<1>13. ASSUME poller.name # "linkedin"
       PROVE  /\ ~Unbaselined(sentinel, cursor) => ~Unbaselined(sentinel, cursor)'
              /\ HasBaselineOf(j)' /\ LaterOf(j)
  <2>1. HasBaselineOf(job[i]) BY <1>4, <1>13 DEF HasBaseline
  <2>2. ~Unbaselined(sentinel, cursor) => ~Unbaselined(sentinel, cursor)'
    <3>1. poller.sentinel \in {"last", "cursor"} BY <1>3, <1>4, <1>13 DEF ProfileFits
    <3>2. CASE poller.sentinel = "last" BY <1>6, <1>8, <3>2 DEF Unbaselined
    <3>3. CASE poller.sentinel = "cursor"
      <4>1. cursor' # cursor => cursor' # 0
        <5>1. job[i].pc = "basecursor" => job[i].top # 0 BY <2>1 DEF HasBaselineOf
        <5> QED BY <1>6, <5>1
      <4> QED BY <1>8, <3>3, <4>1 DEF Unbaselined
    <3> QED BY <3>1, <3>2, <3>3
  <2>3. j.pc \in {"baseids", "basemark"} => poller.sentinel = "last"
    BY <1>3, <1>4, <1>9, <1>10 DEF ProfileFits
  <2>4. j.pc = "baseids" => poller.inclusive BY <1>9, <1>10
  <2> QED BY <1>8, <1>11, <2>2, <2>3, <2>4 DEF HasBaselineOf, LaterOf, Asked
<1>14. CursorOnce' => PassedOf(j)' /\ Knows(cursor', firedAt')
  <2> SUFFICES ASSUME CursorOnce PROVE PassedOf(j)' /\ Knows(cursor', firedAt') BY <1>12
  <2>1. \A x \in Items, s \in Stamps : ~IsTold(<<x, s>>)
    BY <1>1, <1>4 DEF Passed, PassedOf, BaseSteps
  <2>2. \A x \in Items, s \in Stamps : ~IsTold(<<x, s>>)' BY <1>12, <2>1
  <2> QED BY <1>11, <2>1, <2>2 DEF PassedOf, Knows, Asked, BaseSteps
<1>15. SilentCase' => /\ StartedOf(j)'
                      /\ poller.sentinel = "last" /\ sentinel' => Covers(cursor', firedAt')
  <2> SUFFICES ASSUME SilentCase, ~Failure
               PROVE  /\ StartedOf(j)'
                      /\ poller.sentinel = "last" /\ sentinel' => Covers(cursor', firedAt')
    BY <1>12
  <2>1. StartedOf(job[i]) BY <1>4 DEF Started
  <2>2. poller.sentinel = "last" => ~sentinel BY <1>1, <2>1 DEF StartedOf, BaseSteps
  <2>3. poller.sentinel = "last" /\ sentinel' =>
           job[i].pc = "basemark" /\ Covers(cursor, firedAt) /\ cursor' = cursor /\ firedAt' = firedAt
    <3>1. CASE job[i].pc = "basemark" BY <1>6, <2>1, <3>1 DEF StartedOf
    <3>2. CASE job[i].pc # "basemark" BY <1>6, <2>2, <3>2
    <3> QED BY <3>1, <3>2
  <2>4. poller.sentinel = "last" /\ sentinel' => Covers(cursor', firedAt') BY <2>3
  <2>5. j.pc = "baseids" => Covers(cursor, j.ids)' /\ ~sentinel'
    <3> SUFFICES ASSUME j.pc = "baseids" PROVE Covers(cursor, j.ids)' /\ ~sentinel' OBVIOUS
    <3>1. job[i].pc = "basecursor" /\ poller.inclusive /\ j.ids = job[i].ids
      BY <1>9, <1>10
    <3>2. cursor' = job[i].top /\ sentinel' = sentinel BY <1>6, <2>1, <3>1
    <3>3. Covers(job[i].top, job[i].ids) BY <2>1, <3>1 DEF StartedOf
    <3> PICK c : c = job[i].top OBVIOUS
    <3>4. Covers(c, j.ids)' BY <1>12, <3>1, <3>3
    <3>5. poller.sentinel = "last" BY <1>3, <1>4, <3>1 DEF ProfileFits
    <3> QED BY <2>2, <3>2, <3>4, <3>5 DEF Covers
  <2>6. j.pc = "basemark" => Covers(cursor, firedAt)' /\ ~sentinel'
    <3> SUFFICES ASSUME j.pc = "basemark" PROVE Covers(cursor, firedAt)' /\ ~sentinel' OBVIOUS
    <3>1. job[i].pc = LastKey /\ poller.sentinel = "last" BY <1>9, <1>10
    <3> PICK c, f : c = cursor' /\ f = firedAt' OBVIOUS
    <3>2. CASE poller.inclusive
      <4>1. job[i].pc = "baseids" BY <3>1, <3>2 DEF LastKey
      <4>2. c = cursor /\ f = job[i].ids /\ sentinel' = sentinel BY <1>6, <2>1, <4>1
      <4>3. Covers(c, f) BY <2>1, <4>1, <4>2 DEF StartedOf
      <4>4. Covers(c, f)' BY <1>12, <4>3
      <4> QED BY <2>2, <3>1, <4>2, <4>4 DEF Covers
    <3>3. CASE ~poller.inclusive
      <4>1. job[i].pc = "basecursor" BY <3>1, <3>3 DEF LastKey
      <4>2. c = job[i].top /\ sentinel' = sentinel BY <1>6, <2>1, <4>1
      <4>3. Covers(c, job[i].ids) BY <2>1, <4>1, <4>2 DEF StartedOf
      <4>4. Covers(c, f) BY <3>3, <4>3 DEF Covers
      <4>5. Covers(c, f)' BY <1>12, <4>4
      <4> QED BY <2>2, <3>1, <4>2, <4>5 DEF Covers
    <3> QED BY <3>2, <3>3
  <2>7. StartedOf(j)' BY <1>11, <2>5, <2>6 DEF StartedOf, Asked, BaseSteps
  <2> QED BY <2>4, <2>7
<1>16. Exclusive' => Behind(cursor') /\ TrailsOf(j)
  <2> SUFFICES ASSUME Exclusive PROVE Behind(cursor') /\ TrailsOf(j) BY <1>12
  <2>1. Behind(cursor) /\ (job[i].pc = "basecursor" => Behind(job[i].top))
    BY <1>4 DEF CursorTrails, TrailsOf
  <2>2. Behind(cursor') BY <1>6, <2>1
  <2> QED BY <1>11, <2>2 DEF TrailsOf
<1>17. poller.name = "dbrow" /\ (sentinel' \/ j.pc \in {"basecursor", "basemark"}) =>
           sentinel \/ job[i].pc \in {"basecursor", "basemark"}
  <2> SUFFICES ASSUME poller.name = "dbrow", sentinel' \/ j.pc \in {"basecursor", "basemark"},
                      job[i].pc \notin {"basecursor", "basemark"}
               PROVE  sentinel
    OBVIOUS
  <2>1. ~poller.inclusive BY <1>3, <1>4 DEF ProfileFits
  <2>2. j.pc # "basemark" BY <1>9, <1>10, <2>1 DEF LastKey
  <2>3. sentinel' BY <1>11, <2>2
  <2> QED BY <1>6, <2>3
<1>18. poller.inclusive /\ faults' = 0 =>
           MeetsOf(j)' /\ (Told(cursor', firedAt') \/ j.pc \in {"ids", "baseids"})
  <2> SUFFICES ASSUME poller.inclusive, faults = 0, ~Failure
               PROVE  MeetsOf(j)' /\ (Told(cursor', firedAt') \/ j.pc \in {"ids", "baseids"})
    BY <1>12
  <2>0. MeetsOf(job[i]) BY <1>4 DEF CursorMeets
  <2>1. poller.leased BY <1>3, <1>4 DEF ProfileFits
  <2>2. CASE job[i].pc = "basecursor"
    <3>1. j.pc = "baseids" /\ j.ids = job[i].ids BY <1>9, <2>2 DEF LastKey
    <3>2. cursor' = job[i].top BY <1>6, <2>2
    <3>3. Told(job[i].top, job[i].ids) BY <2>0, <2>2 DEF MeetsOf
    <3> PICK c : c = job[i].top OBVIOUS
    <3>4. Told(c, j.ids)' BY <1>12, <3>1, <3>3
    <3>5. Told(cursor, j.ids)' BY <3>2, <3>4 DEF Told
    <3> QED BY <3>1, <3>5 DEF MeetsOf, Asked
  <2>3. CASE job[i].pc = "baseids"
    <3>1. Told(cursor', firedAt') BY <1>6, <2>0, <2>3 DEF MeetsOf
    <3>2. j.pc # "baseids" BY <1>9, <1>10, <2>3
    <3> QED BY <1>11, <3>1, <3>2 DEF MeetsOf, Asked
  <2>4. CASE job[i].pc = "basemark"
    <3>1. \A k \in Instances : job[k].pc \notin {"ids", "baseids"}
      BY <1>12, <2>1, <2>4 DEF Working
    <3>2. Told(cursor, firedAt) BY <1>4, <3>1 DEF CursorMeets
    <3>3. j.pc # "baseids" BY <1>9, <1>10, <2>4
    <3> QED BY <1>6, <1>11, <2>4, <3>2, <3>3 DEF MeetsOf, Asked
  <2> QED BY <1>1, <2>2, <2>3, <2>4
<1>19. poller.store = "before" /\ faults' = 0 =>
          /\ \A x \in Items : InBatch(x, job[i]) => InBatch(x, j)
          /\ cursor' = cursor \/ Taken(cursor')
  <2>1. \A x \in Items : ~InBatch(x, job[i]) BY <1>1 DEF InBatch, Asked
  <2>2. poller.store = "before" /\ faults' = 0 => cursor' = cursor \/ Taken(cursor')
    BY <1>4, <1>6, <1>12 DEF CursorLeads
  <2> QED BY <2>1, <2>2
<1>20. j.pc \notin {"cursor", "basecursor"} BY <1>11
<1> QED
  BY <1>1, <1>3, <1>6, <1>7, <1>9, <1>13, <1>14, <1>15, <1>16, <1>17, <1>18, <1>19, <1>20,
     CursorQuietKeeps

\* What a query lists, and where the cursor goes from there.
LEMMA QueryIs ==
    ASSUME TypeOK, Bounded, NEW i \in Instances, Fresh(job[i]), poller.kind = "cursor",
           NEW mark \in 0 .. MaxStamp, mark <= newest, NEW ids \in SUBSET Items,
           Query(i, mark, ids)
    PROVE  \E j \in Jobs :
              /\ job' = [job EXCEPT ![i] = j]
              /\ j.view = source /\ j.ids = ids /\ j.mark = mark /\ ~j.first
              /\ j.pc = IF poller.store = "before" THEN "cursor" ELSE "fire"
              /\ j.top <= newest /\ mark <= j.top
              /\ poller.store = "before" => j.top = newest
              /\ poller.store # "before" => j.top = mark \/ (poller.over /\ ~Fits)
              /\ \A x \in j.todo : /\ x \in Present(source)
                                   /\ \/ source[x] > mark
                                      \/ poller.inclusive /\ source[x] = mark /\ x \notin ids
              /\ \A x \in Present(source) :
                    source[x] > mark \/ (poller.inclusive /\ source[x] = mark /\ x \notin ids) =>
                       \/ x \in j.todo
                       \/ /\ poller.limited
                          /\ poller.ordered =>
                                ~Fits /\ \A y \in j.todo : source[y] <= source[x]
<1> DEFINE Beyond == {x \in Present(source) :
                         source[x] > mark \/ (poller.inclusive /\ mark # 0 /\ source[x] = mark)}
           batch  == CASE ~poller.limited -> Beyond
                       [] poller.limited /\ poller.ordered -> FirstOf(source, Beyond, Limit)
                       [] OTHER -> Beyond \cap NewestOf(source, Present(source), Limit)
           next   == {source[x] : x \in FirstOf(source, Beyond \ batch, 1)}
<1>1. PICK top \in {mark} \cup (IF poller.over THEN next ELSE {}) :
         job' = [job EXCEPT
             ![i].view = source, ![i].ids = ids, ![i].mark = mark,
             ![i].top = IF poller.store = "before" THEN newest ELSE top,
             ![i].todo = {x \in batch : ~(source[x] = mark /\ x \in ids)},
             ![i].pc = IF poller.store = "before" THEN "cursor" ELSE "fire"]
  BY DEF Query
<1>2. /\ newest \in Nat \ {0} /\ newest \in 0 .. MaxStamp
      /\ \A x \in Items : source[x] \in Int /\ source[x] <= newest
      /\ source \in Views
  BY CursorTypes DEF TypeOK, Stamps
<1>3. ProfileFits(poller) BY Profile DEF TypeOK
<1>4. Beyond \in SUBSET Present(source) /\ Present(source) \in SUBSET Items BY DEF Present
<1>5. batch \in SUBSET Beyond BY DEF FirstOf
<1>6. \A x \in Present(source) : source[x] \in Int /\ source[x] > 0 /\ source[x] \in 0 .. MaxStamp
  <2>1. ASSUME NEW x \in Present(source) PROVE source[x] \in Int /\ source[x] > 0 /\ source[x] \in 0 .. MaxStamp
    <3>1. x \in Items /\ source[x] > 0 BY DEF Present
    <3>2. source[x] \in -1 .. MaxStamp BY <1>2, <3>1 DEF Views
    <3> QED BY <3>1, <3>2
  <2> QED BY <2>1
<1>7. Fits /\ poller.over => batch = Beyond
  <2>1. poller.over => poller.ordered BY <1>3 DEF ProfileFits
  <2>2. Fits => FirstOf(source, Beyond, Limit) = Beyond BY <1>4, TakesAll
  <2> QED BY <2>1, <2>2
<1>8. /\ top = mark \/ (poller.over /\ ~Fits)
      /\ top \in 0 .. MaxStamp /\ mark <= top /\ top <= newest
  <2>1. CASE top = mark BY <2>1
  <2>2. CASE top # mark
    <3>1. poller.over /\ top \in next BY <2>2
    <3>2. PICK x \in FirstOf(source, Beyond \ batch, 1) : top = source[x] BY <3>1
    <3>3. x \in Beyond /\ x \notin batch BY <3>2 DEF FirstOf
    <3>4. ~Fits BY <1>7, <3>1, <3>3
    <3>5. x \in Present(source) /\ x \in Items BY <1>4, <3>3
    <3>6. source[x] > mark \/ source[x] = mark BY <3>3
    <3>7. mark <= source[x] /\ source[x] \in 0 .. MaxStamp /\ source[x] <= newest
      BY <1>2, <1>6, <3>5, <3>6
    <3> QED BY <3>1, <3>2, <3>4, <3>7
  <2> QED BY <2>1, <2>2
<1> DEFINE todo == {x \in batch : ~(source[x] = mark /\ x \in ids)}
<1>9. \A x \in todo : /\ x \in Present(source)
                      /\ \/ source[x] > mark
                         \/ poller.inclusive /\ source[x] = mark /\ x \notin ids
  <2> TAKE x \in todo
  <2>1. x \in Beyond BY <1>5
  <2> QED BY <2>1
<1>10. ASSUME NEW x \in Present(source),
              source[x] > mark \/ (poller.inclusive /\ source[x] = mark /\ x \notin ids),
              x \notin todo
       PROVE  /\ poller.limited
              /\ poller.ordered => ~Fits /\ \A y \in todo : source[y] <= source[x]
  <2>1. x \in Beyond BY <1>6, <1>10
  <2>2. ~(source[x] = mark /\ x \in ids) BY <1>6, <1>10
  <2>3. x \notin batch BY <1>10, <2>2
  <2>4. poller.limited BY <2>1, <2>3
  <2>5. ASSUME poller.ordered PROVE ~Fits /\ \A y \in todo : source[y] <= source[x]
    <3>1. batch = FirstOf(source, Beyond, Limit) BY <2>4, <2>5
    <3>2. ~Fits BY <1>4, <2>1, <2>3, <3>1, TakesAll
    <3>3. ASSUME NEW y \in todo PROVE source[y] <= source[x]
      <4>1. y \in FirstOf(source, Beyond, Limit) /\ x \in Beyond \ FirstOf(source, Beyond, Limit)
        BY <2>1, <2>3, <3>1
      <4>2. Beyond \in SUBSET Items BY <1>4
      <4> HIDE DEF Beyond, batch, todo
      <4> QED BY <1>2, <4>1, <4>2, RestIsLater
    <3> QED BY <3>2, <3>3
  <2> QED BY <2>4, <2>5
<1> DEFINE h == [job[i] EXCEPT
                    !.view = source, !.ids = ids, !.mark = mark,
                    !.top = IF poller.store = "before" THEN newest ELSE top,
                    !.todo = todo,
                    !.pc = IF poller.store = "before" THEN "cursor" ELSE "fire"]
<1>11. todo \in SUBSET Items
  <2>1. todo \in SUBSET batch OBVIOUS
  <2> HIDE DEF todo, batch, Beyond
  <2> QED BY <1>4, <1>5, <2>1
<1> HIDE DEF todo, batch, Beyond, next
<1>12. job[i] \in Jobs /\ ~job[i].first BY DEF TypeOK, Fresh
<1>13. h \in Jobs BY <1>2, <1>8, <1>11, <1>12 DEF Jobs, Steps
<1>14. job' = [job EXCEPT ![i] = h] BY <1>1 DEF TypeOK, todo
<1>15. /\ h.view = source /\ h.ids = ids /\ h.mark = mark /\ ~h.first /\ h.todo = todo
       /\ h.pc = IF poller.store = "before" THEN "cursor" ELSE "fire"
       /\ h.top = IF poller.store = "before" THEN newest ELSE top
  BY <1>12 DEF Jobs
<1> HIDE DEF h
<1>16. /\ h.top <= newest /\ mark <= h.top
       /\ poller.store = "before" => h.top = newest
       /\ poller.store # "before" => h.top = mark \/ (poller.over /\ ~Fits)
  BY <1>2, <1>8, <1>15
<1>17. \A x \in h.todo : /\ x \in Present(source)
                         /\ \/ source[x] > mark
                            \/ poller.inclusive /\ source[x] = mark /\ x \notin ids
  BY <1>9, <1>15
<1>18. \A x \in Present(source) :
          source[x] > mark \/ (poller.inclusive /\ source[x] = mark /\ x \notin ids) =>
             \/ x \in h.todo
             \/ /\ poller.limited
                /\ poller.ordered => ~Fits /\ \A y \in h.todo : source[y] <= source[x]
  BY <1>10, <1>15
<1> QED BY <1>13, <1>14, <1>15, <1>16, <1>17, <1>18

\* A poll that finds no baseline has nothing to say of what was handled.
LEMMA ToBaseline ==
    ASSUME TypeOK, Bounded, NEW i \in Instances, job[i].pc = "begun", PhasesOf(job[i]),
           Goto(i, "baseline"), poller.kind = "cursor"
    PROVE  \E j \in Jobs : /\ job' = [job EXCEPT ![i] = j] /\ j.pc = "baseline"
                           /\ PhasesOf(j) /\ j.top <= newest /\ \A x \in Items : j.view[x] <= newest
<1> DEFINE h == [job[i] EXCEPT !.pc = "baseline"]
<1>1. job[i] \in Jobs BY DEF TypeOK
<1>2. h \in Jobs BY <1>1 DEF Jobs, Steps
<1>3. job' = [job EXCEPT ![i] = h] BY DEF TypeOK, Goto
<1>4. h.pc = "baseline" /\ h.view = job[i].view /\ h.first = job[i].first /\ h.top = job[i].top
  BY <1>1 DEF Jobs
<1> HIDE DEF h
<1>5. PhasesOf(h) BY <1>4 DEF PhasesOf, SetSteps, CursorSteps, BaseSteps, Fresh
<1>6. h.top <= newest /\ \A x \in Items : h.view[x] <= newest BY <1>4 DEF Bounded
<1> QED BY <1>2, <1>3, <1>4, <1>5, <1>6

\* The state is read: the poll starts from the baseline, or asks for what lies
\* beyond the cursor.
LEMMA ReadCursorKeeps ==
    ASSUME IInv, NEW i \in Instances, ReadCursor(i)
    PROVE  IInv'
<1>1. /\ job[i].pc = "begun" /\ poller.kind = "cursor" /\ Working(i)
      /\ UNCHANGED <<sourceVars, rowVars, toldVars, faultVars, leaseVars>>
  BY DEF ReadCursor, Working
<1>2. /\ TypeOK /\ Phases /\ Bounded /\ SourceFits /\ HasBaseline /\ Passed /\ Started
      /\ CursorTrails /\ CursorMeets /\ CursorLeads /\ ProfileFits(poller)
  BY <1>1, CursorParts
<1>3. PhasesOf(job[i]) BY <1>2 DEF Phases
<1>4. UNCHANGED <<sourceVars, rowVars>> /\ UNCHANGED <<sourceVars, rows, toldVars, leaseVars>>
      /\ (UNCHANGED faultVars \/ Failure)
  BY <1>1 DEF rowVars
<1>5. /\ rows' = rows /\ sentinel' = sentinel /\ cursor' = cursor /\ firedAt' = firedAt
      /\ poller' = poller
      /\ sentinel' \in BOOLEAN /\ cursor' \in 0 .. MaxStamp /\ firedAt' \subseteq Items
      /\ cursor' <= newest
      /\ Unbaselined(sentinel, cursor)' <=> Unbaselined(sentinel, cursor)
  BY <1>2, <1>4, CursorStays
<1>6. ASSUME NEW j \in Jobs, job' = [job EXCEPT ![i] = j]
      PROVE  /\ CursorOnce' => CursorOnce
             /\ SilentCase' => SilentCase
             /\ faults' = 0 => faults = 0
             /\ Exclusive' => Exclusive
             /\ \A e : IsTold(e)' <=> IsTold(e)
             /\ \A c, ids : Knows(c, ids)' <=> Knows(c, ids)
             /\ \A c, ids : Covers(c, ids)' <=> Covers(c, ids)
             /\ \A c, ids : Told(c, ids)' <=> Told(c, ids)
             /\ CursorOnce \/ (poller.leased /\ (SilentCase \/ faults = 0)) =>
                   \A k \in Instances : k # i => ~Working(k)
  BY <1>1, <1>4, <1>5, <1>6, CursorQuiet
<1>7. \A x \in Items : ~InBatch(x, job[i]) BY <1>1 DEF InBatch, Asked
<1>8. ASSUME NEW j \in Jobs, job' = [job EXCEPT ![i] = j]
      PROVE  /\ CursorOnce => Knows(cursor, firedAt)
             /\ poller.inclusive /\ faults = 0 => Told(cursor, firedAt)
  <2>1. ASSUME CursorOnce PROVE Knows(cursor, firedAt)
    <3>1. \A k \in Instances : ~Storing(job[k])
      BY <1>1, <1>6, <1>8, <2>1 DEF Storing, Working
    <3> QED BY <1>2, <2>1, <3>1 DEF Passed
  <2>2. ASSUME poller.inclusive, faults = 0 PROVE Told(cursor, firedAt)
    <3>1. poller.leased BY <1>1, <1>2, <2>2 DEF ProfileFits
    <3>2. \A k \in Instances : job[k].pc \notin {"ids", "baseids"}
      BY <1>1, <1>6, <1>8, <2>2, <3>1 DEF Working
    <3> QED BY <1>2, <2>2, <3>2 DEF CursorMeets
  <2> QED BY <2>1, <2>2
<1>9. Exclusive => Behind(cursor) BY <1>2 DEF CursorTrails
<1>10. CASE Unbaselined(sentinel, cursor)
  <2>1. Goto(i, "baseline") BY <1>10 DEF ReadCursor
  <2>2. PICK j \in Jobs :
          /\ job' = [job EXCEPT ![i] = j] /\ j.pc = "baseline"
          /\ PhasesOf(j) /\ j.top <= newest /\ \A x \in Items : j.view[x] <= newest
    BY <1>1, <1>2, <1>3, <2>1, ToBaseline
  <2>3. poller.name # "linkedin" BY <1>1, <1>2, <1>10 DEF Unbaselined, ProfileFits
  <2>4. \A x \in Items, s \in Stamps : ~IsTold(<<x, s>>) BY <1>2, <1>10, <2>3 DEF HasBaseline
  <2>5. \A x \in Items, s \in Stamps : ~IsTold(<<x, s>>)' BY <1>6, <2>2, <2>4
  <2>6. HasBaselineOf(j)' /\ LaterOf(j) BY <2>2 DEF HasBaselineOf, LaterOf, Asked
  <2>7. CursorOnce' => PassedOf(j)' /\ Knows(cursor', firedAt')
    BY <2>2, <2>4, <2>5 DEF PassedOf, Knows, Asked, BaseSteps
  <2>8. poller.sentinel = "last" => ~sentinel BY <1>10 DEF Unbaselined
  <2>9. SilentCase' => /\ StartedOf(j)'
                       /\ poller.sentinel = "last" /\ sentinel' => Covers(cursor', firedAt')
    BY <1>5, <2>2, <2>8 DEF StartedOf, Asked, BaseSteps
  <2>10. Exclusive' => Behind(cursor') /\ TrailsOf(j) BY <1>5, <1>6, <1>9, <2>2 DEF TrailsOf
  <2>11. poller.inclusive /\ faults' = 0 => MeetsOf(j)' /\ Told(cursor', firedAt')
    BY <1>5, <1>6, <1>8, <2>2 DEF MeetsOf, Asked
  <2>12. poller.name = "dbrow" /\ (sentinel' \/ j.pc \in {"basecursor", "basemark"}) => sentinel
    BY <1>5, <2>2
  <2>13. j.pc \notin {"cursor", "basecursor"} BY <2>2
  <2> QED
    BY <1>1, <1>4, <1>5, <1>7, <2>2, <2>6, <2>7, <2>9, <2>10, <2>11, <2>12, <2>13,
       CursorQuietKeeps
<1>11. CASE ~Unbaselined(sentinel, cursor)
  <2>1. Query(i, cursor, firedAt) BY <1>11 DEF ReadCursor
  <2>2. Fresh(job[i]) BY <1>1, <1>3 DEF PhasesOf
  <2>3. cursor \in 0 .. MaxStamp /\ firedAt \in SUBSET Items /\ cursor <= newest
    BY <1>2 DEF TypeOK, Bounded
  <2>4. PICK j \in Jobs :
          /\ job' = [job EXCEPT ![i] = j]
          /\ j.view = source /\ j.ids = firedAt /\ j.mark = cursor /\ ~j.first
          /\ j.pc = IF poller.store = "before" THEN "cursor" ELSE "fire"
          /\ j.top <= newest /\ cursor <= j.top
          /\ poller.store = "before" => j.top = newest
          /\ poller.store # "before" => j.top = cursor \/ (poller.over /\ ~Fits)
          /\ \A x \in j.todo :
                /\ x \in Present(source)
                /\ \/ source[x] > cursor
                   \/ poller.inclusive /\ source[x] = cursor /\ x \notin firedAt
          /\ \A x \in Present(source) :
                source[x] > cursor \/ (poller.inclusive /\ source[x] = cursor /\ x \notin firedAt) =>
                   \/ x \in j.todo
                   \/ /\ poller.limited
                      /\ poller.ordered =>
                            ~Fits /\ \A y \in j.todo : source[y] <= source[x]
    BY <1>1, <1>2, <2>1, <2>2, <2>3, QueryIs
  <2>5. /\ newest \in Nat \ {0} /\ cursor \in Nat /\ j.top \in Nat
        /\ \A x \in Items : source[x] \in Int /\ source[x] <= newest
    BY <1>2, CursorTypes DEF Jobs
  <2>6. Asked(j) /\ j.pc \notin BaseSteps /\ j.pc # "ids" BY <2>4 DEF Asked, BaseSteps
  <2>7. \A x \in j.todo : x \in Items /\ source[x] > 0 BY <2>4 DEF Present
  <2>8. PhasesOf(j) /\ \A x \in Items : j.view[x] <= newest
    <3>1. \A x \in j.todo : j.view[x] > 0 BY <2>4, <2>7
    <3>2. j.pc \in {"fire", "cursor"} BY <2>4
    <3> QED BY <1>1, <2>4, <2>5, <3>1, <3>2 DEF PhasesOf, SetSteps, CursorSteps
  <2>9. poller.name # "linkedin" => HasBaselineOf(j)' /\ LaterOf(j)
    <3> SUFFICES ASSUME poller.name # "linkedin" PROVE HasBaselineOf(j)' /\ LaterOf(j)
      OBVIOUS
    <3>1. poller.sentinel = "cursor" => cursor # 0 BY <1>11 DEF Unbaselined
    <3>2. poller.sentinel = "cursor" => j.top >= 1 BY <2>4, <2>5, <3>1
    <3>3. j.pc \notin {"basecursor", "baseids", "basemark", "ids"} BY <2>4
    <3>4. HasBaselineOf(j)' BY <1>5, <1>11, <3>2, <3>3 DEF HasBaselineOf
    <3>5. \A x \in Items : j.view[x] >= 0 BY <1>2, <2>4 DEF SourceFits
    <3>6. ~poller.ties => \A x, y \in Items :
             j.view[x] = j.view[y] /\ j.view[x] > 0 => x = y \/ (x \in Old /\ j.view[x] = 1)
      BY <1>2, <2>4 DEF SourceFits
    <3>7. poller.inclusive => j.top = j.mark
      BY <1>1, <1>2, <2>4 DEF ProfileFits
    <3> QED BY <2>4, <3>4, <3>5, <3>6, <3>7 DEF LaterOf
  <2>10. CursorOnce' => PassedOf(j)' /\ Knows(cursor', firedAt')
    <3> SUFFICES ASSUME CursorOnce PROVE PassedOf(j)' /\ Knows(cursor', firedAt')
      BY <1>6, <2>4
    <3>1. Knows(cursor, firedAt) BY <1>8, <2>4
    <3>2. \A x \in Items, s \in Stamps : IsTold(<<x, s>>) => s <= newest
      BY <1>2 DEF Bounded, Handled
    <3>3. Knows(j.top, j.ids)
      <4>1. CASE poller.store = "before"
        <5>1. ~poller.inclusive /\ j.top = newest BY <1>1, <1>2, <2>4, <4>1 DEF ProfileFits
        <5> QED BY <3>2, <5>1 DEF Knows
      <4>2. CASE poller.store # "before" /\ j.top = cursor BY <2>4, <3>1, <4>2
      <4>3. CASE poller.store # "before" /\ j.top # cursor
        <5>1. poller.over /\ ~poller.inclusive BY <1>1, <1>2, <2>4, <4>3 DEF ProfileFits
        <5>2. ASSUME NEW x \in Items, NEW s \in Stamps, IsTold(<<x, s>>) PROVE s <= j.top
          <6>1. s <= cursor /\ s \in Int BY <3>1, <5>2 DEF Knows, Stamps
          <6> QED BY <2>4, <2>5, <6>1
        <5> QED BY <5>1, <5>2 DEF Knows
      <4> QED BY <4>1, <4>2, <4>3
    <3>4. ASSUME NEW x \in j.todo
          PROVE  /\ ~IsTold(<<x, source[x]>>)
                 /\ poller.inclusive => source[x] >= j.mark
      <4>1. x \in Items /\ source[x] \in Int /\ source[x] \in Stamps
        <5>1. x \in Items /\ source[x] > 0 BY <2>7
        <5>2. source[x] \in -1 .. MaxStamp BY <1>2, <5>1 DEF TypeOK, Views
        <5> QED BY <5>1, <5>2 DEF Stamps
      <4>2. \/ source[x] > cursor
            \/ poller.inclusive /\ source[x] = cursor /\ x \notin firedAt
        BY <2>4
      <4>3. IsTold(<<x, source[x]>>) =>
               source[x] <= cursor /\ (poller.inclusive /\ source[x] = cursor => x \in firedAt)
        BY <3>1, <4>1 DEF Knows
      <4>4. ~IsTold(<<x, source[x]>>) BY <2>5, <4>1, <4>2, <4>3
      <4> QED BY <2>4, <2>5, <4>1, <4>2, <4>4
    <3>5. Knows(j.top, j.ids)' 
      <4> PICK c, f : c = j.top /\ f = j.ids OBVIOUS
      <4>1. Knows(c, f)' BY <1>6, <2>4, <3>3
      <4> QED BY <4>1 DEF Knows
    <3>6. \A x \in j.todo : /\ ~IsTold(<<x, j.view[x]>>)'
                            /\ poller.inclusive => j.view[x] >= j.mark
      <4> TAKE x \in j.todo
      <4>1. j.view[x] = source[x] BY <2>4
      <4> QED BY <1>6, <2>4, <3>4, <4>1
    <3>7. poller.store = "before" =>
             j.pc = "cursor" /\ \A x \in j.todo : j.view[x] <= j.top
      BY <2>4, <2>5, <2>7
    <3>8. j.pc # "fire" \/ poller.store # "before" BY <2>4
    <3>9. PassedOf(j)' BY <1>5, <2>6, <3>5, <3>6, <3>7, <3>8 DEF PassedOf
    <3> QED BY <1>5, <3>1, <3>9
  <2>11. SilentCase' => /\ StartedOf(j)'
                        /\ poller.sentinel = "last" /\ sentinel' => Covers(cursor', firedAt')
    <3> SUFFICES ASSUME SilentCase
                 PROVE  /\ StartedOf(j)'
                        /\ poller.sentinel = "last" /\ sentinel' => Covers(cursor', firedAt')
      BY <1>6, <2>4
    <3>1. poller.name # "linkedin" /\ poller.sentinel \in {"last", "cursor"}
      BY <1>1, <1>2 DEF SilentCase, ProfileFits
    <3>2. poller.sentinel = "last" => Covers(cursor, firedAt)
      BY <1>2, <1>11 DEF Started, Unbaselined
    <3>3. poller.sentinel = "cursor" => cursor # 0 /\ ~poller.inclusive
      BY <1>1, <1>2, <1>11 DEF Unbaselined, ProfileFits
    <3>4. ASSUME NEW x \in j.todo \cap Old PROVE j.view[x] # 1
      <4>1. x \in Items /\ source[x] \in Int /\ j.view[x] = source[x] BY <2>4, <2>5, <2>7
      <4> SUFFICES ASSUME source[x] = 1 PROVE FALSE BY <4>1
      <4>2. cursor >= 1 BY <2>5, <3>1, <3>2, <3>3 DEF Covers
      <4>3. poller.inclusive /\ source[x] = cursor /\ x \notin firedAt BY <2>4, <2>5, <4>2
      <4>4. Covers(cursor, firedAt) BY <3>1, <3>2, <3>3, <4>3
      <4> QED BY <2>5, <4>1, <4>3, <4>4 DEF Covers, Existing
    <3>5. ASSUME poller.sentinel = "last" PROVE Covers(j.top, j.ids)' /\ (cursor <= j.top)'
      <4>1. j.top = cursor BY <1>1, <1>2, <2>4, <3>5 DEF ProfileFits
      <4> PICK c, f : c = j.top /\ f = j.ids OBVIOUS
      <4>2. Covers(c, f)' BY <1>6, <2>4, <3>2, <3>5, <4>1
      <4>3. Covers(j.top, j.ids)' BY <4>2 DEF Covers
      <4> QED BY <1>5, <2>4, <4>3
    <3>6. StartedOf(j)' BY <1>5, <2>4, <2>6, <3>4, <3>5 DEF StartedOf, BaseSteps
    <3> QED BY <1>5, <3>2, <3>6
  <2>12. Exclusive' => Behind(cursor') /\ TrailsOf(j)
    <3> SUFFICES ASSUME Exclusive PROVE Behind(cursor') /\ TrailsOf(j) BY <1>6, <2>4
    <3>1. /\ ~poller.inclusive /\ poller.store # "before" /\ poller.ordered
          /\ poller.over => poller.name = "logs"
      BY <1>1, <1>2 DEF Exclusive, ProfileFits
    <3>2. j.top = cursor BY <2>4, <3>1 DEF Exclusive
    <3>3. Behind(cursor') /\ Behind(j.top) BY <1>5, <1>9, <3>2
    <3>4. ASSUME NEW x \in Items, j.view[x] > 0, j.view[x] = source[x]
          PROVE  \/ Handled(<<x, source[x]>>) \/ Overtaken(x)
                 \/ x \in j.todo
                 \/ \A y \in j.todo : Precedes(j.view[y], j.view[x])
      <4>1. x \in Present(source) /\ source[x] \in Int BY <2>5, <3>4 DEF Present
      <4>2. CASE source[x] <= cursor BY <1>9, <3>4, <4>2 DEF Behind
      <4>3. CASE source[x] > cursor
        <5> SUFFICES ASSUME x \notin j.todo, ~Handled(<<x, source[x]>>), NEW y \in j.todo
                     PROVE  Precedes(source[y], source[x])
          BY <2>4
        <5>1. ~Fits /\ source[y] <= source[x] BY <2>4, <3>1, <4>1, <4>3
        <5>2. poller.name \in {"dbrow", "dbrowtime"} BY <5>1 DEF Exclusive
        <5>3. /\ poller.sentinel = "last"
              /\ ~poller.ties => poller.name = "dbrow"
          BY <1>1, <1>2, <5>2 DEF ProfileFits
        <5>4. y \in Items /\ source[y] \in Int BY <2>5, <2>7
        <5>5. ASSUME source[y] = source[x], ~poller.ties PROVE FALSE
          <6>1. x = y \/ (x \in Old /\ source[x] = 1)
            BY <1>2, <3>4, <2>4, <5>4, <5>5 DEF SourceFits
          <6>2. x \in Old /\ source[x] = 1 BY <6>1
          <6>3. sentinel BY <1>11, <5>3 DEF Unbaselined
          <6>4. <<x, 1>> \in silent BY <1>2, <5>3, <5>5, <6>2, <6>3 DEF CursorTrails, FirstTaken
          <6> QED BY <6>2, <6>4 DEF Handled
        <5> QED BY <4>1, <5>1, <5>4, <5>5 DEF Precedes
      <4> QED BY <2>5, <4>1, <4>2, <4>3
    <3>5. InOrder(j) BY <3>4 DEF InOrder
    <3>6. j.pc = "fire" BY <2>4, <3>1
    <3> QED BY <3>3, <3>5, <3>6 DEF TrailsOf
  <2>13. poller.inclusive /\ faults' = 0 => MeetsOf(j)' /\ Told(cursor', firedAt')
    <3> SUFFICES ASSUME poller.inclusive, faults = 0 PROVE MeetsOf(j)' /\ Told(cursor', firedAt')
      BY <1>6, <2>4
    <3>1. /\ poller.ordered /\ poller.store # "before" /\ ~poller.over
      BY <1>1, <1>2 DEF ProfileFits
    <3>2. Told(cursor, firedAt) BY <1>8, <2>4
    <3>3. j.top = cursor /\ j.ids = firedAt BY <2>4, <3>1
    <3>4. Told(j.top, j.ids)'
      <4> PICK c, f : c = j.top /\ f = j.ids OBVIOUS
      <4>1. Told(c, f)' BY <1>6, <2>4, <3>2, <3>3
      <4> QED BY <4>1 DEF Told
    <3>5. \A x \in j.todo : j.view[x] >= j.mark
      <4> TAKE x \in j.todo
      <4>1. x \in Items /\ source[x] \in Int BY <2>5, <2>7
      <4> QED BY <2>4, <2>5, <4>1
    <3>6. ASSUME NEW x \in Items, j.view[x] > 0, j.view[x] = source[x]
          PROVE  \/ Handled(<<x, source[x]>>) \/ x \in j.todo
                 \/ \A y \in j.todo : j.view[y] <= j.view[x]
      <4>1. x \in Present(source) /\ source[x] \in Int BY <2>5, <3>6 DEF Present
      <4>2. CASE source[x] < cursor BY <3>2, <3>6, <4>2 DEF Told
      <4>3. CASE source[x] = cursor /\ x \in firedAt BY <3>2, <3>6, <4>3 DEF Told
      <4>4. CASE source[x] > cursor \/ (source[x] = cursor /\ x \notin firedAt)
        BY <2>4, <3>1, <4>1, <4>4
      <4> QED BY <2>5, <4>1, <4>2, <4>3, <4>4
    <3>7. \A x \in Items : (j.view[x] > 0 /\ j.view[x] = source[x])' =>
             \/ Handled(<<x, source[x]>>)' \/ x \in j.todo
             \/ \A y \in j.todo : j.view[y] <= j.view[x]
      <4>1. source' = source BY <1>1 DEF sourceVars
      <4>2. \A e : Handled(e)' <=> Handled(e)
        BY <1>1, <1>4, <1>5, <2>4, CursorQuiet
      <4> QED BY <3>6, <4>1, <4>2
    <3>8. MeetsOf(j)' BY <2>6, <3>4, <3>5, <3>7, <2>4, <3>1 DEF MeetsOf, BaseSteps
    <3> QED BY <1>5, <3>2, <3>8
  <2>14. poller.store = "before" /\ faults' = 0 =>
            /\ \A x \in Items : InBatch(x, job[i]) => InBatch(x, j)
            /\ cursor' = cursor
            /\ j.pc \in {"cursor", "basecursor"} =>
                  \A x \in Items : source[x] > 0 /\ source[x] <= j.top =>
                     \/ Handled(<<x, source[x]>>) \/ InBatch(x, j)
                     \/ \E k \in Instances : InBatch(x, job[k])
    <3> SUFFICES ASSUME poller.store = "before", faults = 0
                 PROVE  \A x \in Items : source[x] > 0 /\ source[x] <= j.top =>
                           \/ Handled(<<x, source[x]>>) \/ InBatch(x, j)
                           \/ \E k \in Instances : InBatch(x, job[k])
      BY <1>5, <1>6, <1>7, <2>4
    <3> TAKE x \in Items
    <3> HAVE source[x] > 0 /\ source[x] <= j.top
    <3>1. ~poller.limited BY <1>1, <1>2 DEF ProfileFits
    <3>2. x \in Present(source) /\ source[x] \in Int BY <2>5 DEF Present
    <3>3. CASE source[x] <= cursor BY <1>2, <3>3 DEF CursorLeads, Taken
    <3>4. CASE source[x] > cursor
      <4>1. x \in j.todo BY <2>4, <3>1, <3>2, <3>4
      <4> QED BY <2>4, <2>6, <4>1 DEF InBatch
    <3> QED BY <2>5, <3>2, <3>3, <3>4
  <2>15. poller.name = "dbrow" /\ (sentinel' \/ j.pc \in {"basecursor", "basemark"}) => sentinel
    BY <1>5, <2>4
  <2> QED
    BY <1>1, <1>4, <1>5, <2>4, <2>8, <2>9, <2>10, <2>11, <2>12, <2>13, <2>14, <2>15,
       CursorQuietKeeps
<1> QED BY <1>10, <1>11

\* Where a state that cannot be read counts as empty, a mailbox gets a new baseline
\* and the reactions to a post are asked for from the start.
LEMMA ReadCursorFailsKeeps ==
    ASSUME IInv, NEW i \in Instances, ReadCursorFails(i)
    PROVE  IInv'
<1>1. /\ job[i].pc = "begun" /\ poller.kind = "cursor" /\ Working(i)
      /\ poller.badRead = "forget" /\ Failure
      /\ UNCHANGED <<sourceVars, rowVars, toldVars, leaseVars>>
  BY DEF ReadCursorFails, Working
<1>2. TypeOK /\ Phases /\ Bounded /\ ProfileFits(poller) BY <1>1, CursorParts
<1>3. PhasesOf(job[i]) BY <1>2 DEF Phases
<1>4. ~Exclusive BY <1>1, <1>2, Profile
  DEF Exclusive, TypeOK, Profiles, ProfileFits
<1>5. CASE Unbaselined(FALSE, 0)
  <2>1. Goto(i, "baseline") BY <1>5 DEF ReadCursorFails
  <2>2. PICK j \in Jobs :
          /\ job' = [job EXCEPT ![i] = j] /\ j.pc = "baseline"
          /\ PhasesOf(j) /\ j.top <= newest /\ \A x \in Items : j.view[x] <= newest
    BY <1>1, <1>2, <1>3, <2>1, ToBaseline
  <2>3. HasBaselineOf(j)' /\ LaterOf(j) BY <2>2 DEF HasBaselineOf, LaterOf, Asked
  <2>4. j.pc \notin {"basecursor", "basemark"} BY <2>2
  <2> QED BY <1>1, <1>4, <2>2, <2>3, <2>4, CursorFails
<1>6. CASE ~Unbaselined(FALSE, 0)
  <2>1. Query(i, 0, {}) BY <1>6 DEF ReadCursorFails
  <2>2. Fresh(job[i]) BY <1>1, <1>3 DEF PhasesOf
  <2>3. newest \in Nat \ {0} BY <1>2, CursorTypes
  <2>4. 0 \in 0 .. MaxStamp /\ {} \in SUBSET Items /\ 0 <= newest BY <2>3
  <2>5. PICK j \in Jobs :
          /\ job' = [job EXCEPT ![i] = j]
          /\ j.view = source /\ ~j.first
          /\ j.pc = IF poller.store = "before" THEN "cursor" ELSE "fire"
          /\ j.top <= newest
          /\ \A x \in j.todo : x \in Present(source)
    BY <1>1, <1>2, <2>1, <2>2, <2>4, QueryIs
  <2>6. \A x \in j.todo : j.view[x] > 0 BY <2>5 DEF Present
  <2>7. j.pc \in {"fire", "cursor"} BY <2>5
  <2>8. PhasesOf(j) BY <1>1, <2>5, <2>6, <2>7 DEF PhasesOf, SetSteps, CursorSteps
  <2>9. \A x \in Items : j.view[x] <= newest BY <1>2, <2>5 DEF Bounded
  <2>10. poller.name = "linkedin" BY <1>1, <1>2, <1>6 DEF Unbaselined, ProfileFits
  <2>11. j.pc \notin {"basecursor", "basemark"} BY <2>7
  <2> QED BY <1>1, <1>4, <2>5, <2>8, <2>9, <2>10, <2>11, CursorFails
<1> QED BY <1>5, <1>6

\* An item fires: it is behind the cursor that the poll will store, and the rest
\* of the batch is not.
LEMMA FireNextKeeps ==
    ASSUME IInv, NEW i \in Instances, NEW x \in Items, FireNext(i, x)
    PROVE  IInv'
<1> DEFINE s == job[i].view[x]
           e == <<x, s>>
<1>1. /\ job[i].pc = "fire" /\ x \in job[i].todo /\ Working(i)
      /\ poller.ordered => FirstOf(job[i].view, job[i].todo, 1) = {x}
      /\ Tell(i, e)
      /\ UNCHANGED <<sourceVars, rowVars, silent, faultVars, leaseVars>>
  BY DEF FireNext, Working
<1>2. TypeOK /\ Phases BY DEF IInv
<1>3. poller.kind = "cursor" BY <1>1, <1>2 DEF Phases, PhasesOf, CursorSteps
<1>4. /\ Bounded /\ Silent /\ SourceFits /\ HasBaseline /\ Later /\ Passed /\ Started
      /\ CursorTrails /\ CursorMeets /\ CursorLeads /\ (CursorOnce => NoneTwice)
      /\ ProfileFits(poller)
  BY <1>3, CursorParts
<1>5. PhasesOf(job[i]) /\ job[i] \in Jobs BY <1>2 DEF Phases, TypeOK
<1>6. /\ newest \in Nat \ {0} /\ cursor \in Nat
      /\ \A y \in Items : source[y] \in Int /\ source[y] <= newest
      /\ \A y \in Items : job[i].view[y] \in Int /\ job[i].view[y] <= newest
      /\ job[i].top \in Nat /\ job[i].top <= newest /\ job[i].mark \in Nat
  BY <1>2, <1>4, CursorTypes
<1>7. s \in Stamps /\ e \in Events
  <2>1. s > 0 /\ s \in -1 .. MaxStamp BY <1>1, <1>5 DEF PhasesOf, Jobs, Views
  <2> QED BY <2>1 DEF Stamps, Events
<1>8. PICK j \in Jobs :
        /\ job' = [job EXCEPT ![i] = j]
        /\ j.pc = "fire" /\ j.view = job[i].view /\ ~j.first
        /\ j.todo = {y \in job[i].todo \ {x} : poller.ordered \/ job[i].view[y] > s}
        /\ j.ids = IF s > job[i].mark THEN {x} ELSE job[i].ids \cup {x}
        /\ j.mark = Larger(job[i].mark, s) /\ j.top = Larger(job[i].top, s)
  <2> DEFINE h == [job[i] EXCEPT
                      !.todo = {y \in @ \ {x} : poller.ordered \/ job[i].view[y] > s},
                      !.ids = IF s > job[i].mark THEN {x} ELSE @ \cup {x},
                      !.mark = Larger(@, s),
                      !.top = Larger(@, s)]
  <2>1. job' = [job EXCEPT ![i] = h] BY <1>2 DEF FireNext, TypeOK
  <2>2. /\ h.pc = "fire" /\ h.view = job[i].view /\ h.first = job[i].first
        /\ h.todo = {y \in job[i].todo \ {x} : poller.ordered \/ job[i].view[y] > s}
        /\ h.ids = IF s > job[i].mark THEN {x} ELSE job[i].ids \cup {x}
        /\ h.mark = Larger(job[i].mark, s) /\ h.top = Larger(job[i].top, s)
    BY <1>1, <1>5 DEF Jobs
  <2>3. ~job[i].first BY <1>3, <1>5 DEF PhasesOf
  <2>4. s \in 0 .. MaxStamp BY <1>7 DEF Stamps
  <2>5. h \in Jobs BY <1>5, <2>4 DEF Jobs, Larger
  <2> HIDE DEF h
  <2> QED BY <2>1, <2>2, <2>3, <2>5
<1>9. /\ j.todo \subseteq job[i].todo /\ x \notin j.todo
      /\ poller.ordered => \A y \in job[i].todo : y = x \/ y \in j.todo
      /\ poller.ordered => \A y \in job[i].todo : s <= job[i].view[y]
  <2>1. job[i].view \in Views /\ job[i].todo \in SUBSET Items BY <1>5 DEF Jobs
  <2>2. poller.ordered => \A y \in job[i].todo : s <= job[i].view[y]
    BY <1>1, <2>1, FirstIsLeast
  <2> QED BY <1>8, <2>2
<1>10. /\ told' \in [Instances -> SUBSET Events] /\ again' \subseteq Events
       /\ \A f : IsTold(f)' <=> IsTold(f) \/ f = e
       /\ NoneTwice /\ ~IsTold(e) => NoneTwice'
  BY <1>1, <1>2, <1>7, Tells
<1>11. /\ rows' = rows /\ sentinel' = sentinel /\ cursor' = cursor /\ firedAt' = firedAt
       /\ poller' = poller /\ source' = source /\ silent' = silent /\ newest' = newest
       /\ cursor' <= newest
       /\ Unbaselined(sentinel, cursor)' <=> Unbaselined(sentinel, cursor)
  <2>1. UNCHANGED <<sourceVars, rowVars>> BY <1>1
  <2>2. source' = source /\ silent' = silent /\ newest' = newest BY <1>1 DEF sourceVars
  <2> QED BY <1>2, <1>4, <2>1, <2>2, CursorStays
<1>12. TypeOK' /\ Grows
  <2>1. UNCHANGED <<sourceVars, leaseVars>> /\ (UNCHANGED faultVars \/ Failure) BY <1>1
  <2>2. job' \in [Instances -> Jobs] BY <1>2, <1>8, JobStep
  <2>3. /\ rows' \in [Instances \cup {Table} -> [Items -> 0 .. MaxStamp]]
        /\ sentinel' \in BOOLEAN /\ cursor' \in 0 .. MaxStamp /\ firedAt' \subseteq Items
        /\ silent' \subseteq Events
    BY <1>2, <1>11 DEF TypeOK
  <2> QED BY <1>2, <1>10, <2>1, <2>2, <2>3, TypesStep
<1>13. /\ CursorOnce' => CursorOnce
       /\ SilentCase' => SilentCase
       /\ Exclusive' => Exclusive
       /\ faults' = 0 => faults = 0
       /\ CursorOnce \/ (poller.leased /\ (SilentCase \/ faults = 0)) =>
             \A k \in Instances : k # i => ~Working(k)
  <2>1. UNCHANGED <<sourceVars, leaseVars>> BY <1>1
  <2> QED BY <1>1, <1>3, <1>8, <1>12, <2>1, CursorStep
<1>14. /\ \A f : IsTold(f) => IsTold(f)'
       /\ \A f : Handled(f)' <=> Handled(f) \/ f = e
       /\ \A f : Handled(f) => Handled(f)'
       /\ \A y \in Items, t \in Stamps : Handled(<<y, t>>)' => t <= newest
  <2>1. \A f : Handled(f)' <=> Handled(f) \/ f = e BY <1>10, <1>11 DEF Handled
  <2>2. \A y \in Items, t \in Stamps : Handled(<<y, t>>)' => t <= newest
    BY <1>4, <1>6, <2>1 DEF Bounded
  <2> QED BY <1>10, <2>1, <2>2
<1>15. Silent'
  <2> SUFFICES ASSUME SilentCase, NEW y \in Old PROVE ~IsTold(<<y, 1>>)'
    BY <1>13 DEF Silent
  <2>1. ~IsTold(<<y, 1>>) BY <1>4 DEF Silent
  <2>2. x \in Old => s # 1 BY <1>1, <1>4 DEF Started, StartedOf, Asked
  <2> QED BY <1>10, <2>1, <2>2
<1>16. CursorOnce' => NoneTwice'
  <2>1. CursorOnce => ~IsTold(e) BY <1>1, <1>4 DEF Passed, PassedOf, Asked
  <2> QED BY <1>4, <1>10, <1>13, <2>1
<1>17. PhasesOf(j) /\ j.top <= newest /\ \A y \in Items : j.view[y] <= newest
  <2>1. \A y \in j.todo : j.view[y] > 0 BY <1>1, <1>5, <1>8, <1>9 DEF PhasesOf
  <2>2. j.top <= newest BY <1>6, <1>8 DEF Larger
  <2> QED BY <1>3, <1>6, <1>8, <2>1, <2>2 DEF PhasesOf, SetSteps, CursorSteps
<1>18. poller.inclusive => job[i].top = job[i].mark /\ poller.name # "linkedin"
  BY <1>1, <1>3, <1>4 DEF Later, LaterOf, Asked, ProfileFits
<1>19. poller.name # "linkedin" =>
          /\ ~Unbaselined(sentinel, cursor)' /\ HasBaselineOf(j)' /\ LaterOf(j)
  <2> SUFFICES ASSUME poller.name # "linkedin"
               PROVE  ~Unbaselined(sentinel, cursor)' /\ HasBaselineOf(j)' /\ LaterOf(j)
    OBVIOUS
  <2>1. HasBaselineOf(job[i]) /\ LaterOf(job[i]) BY <1>4 DEF HasBaseline, Later
  <2>2. ~Unbaselined(sentinel, cursor)' BY <1>1, <1>11, <2>1 DEF HasBaselineOf, Asked
  <2>3. poller.sentinel = "cursor" => j.top >= 1
    <3>1. poller.sentinel = "cursor" => job[i].top >= 1 BY <1>1, <2>1 DEF HasBaselineOf, Asked
    <3> QED BY <1>6, <1>7, <1>8, <3>1 DEF Larger, Stamps
  <2>4. HasBaselineOf(j)' BY <1>8, <1>11, <2>2, <2>3 DEF HasBaselineOf, Asked
  <2>5. poller.inclusive => j.top = j.mark BY <1>8, <1>18
  <2>6. LaterOf(j) BY <1>1, <1>8, <2>1, <2>5 DEF LaterOf, Asked
  <2> QED BY <2>2, <2>4, <2>6
<1>20. CursorOnce' => PassedOf(j)' /\ (Knows(cursor, firedAt)' \/ Storing(j))
  <2> SUFFICES ASSUME CursorOnce PROVE PassedOf(j)' /\ (Knows(cursor, firedAt)' \/ Storing(j))
    BY <1>13
  <2>1. PassedOf(job[i]) BY <1>4 DEF Passed
  <2>2. \A y \in job[i].todo : /\ ~IsTold(<<y, job[i].view[y]>>)
                               /\ poller.inclusive => job[i].view[y] >= job[i].mark
    BY <1>1, <2>1 DEF PassedOf, Asked
  <2>3. ASSUME NEW y \in j.todo
        PROVE  /\ ~IsTold(<<y, j.view[y]>>)'
               /\ poller.inclusive => j.view[y] >= j.mark
    <3>1. y \in job[i].todo /\ y # x /\ y \in Items BY <1>5, <1>8, <1>9 DEF Jobs
    <3> PICK t : t = job[i].view[y] OBVIOUS
    <3>2. ~IsTold(<<y, t>>)' BY <1>10, <2>2, <3>1
    <3>3. poller.inclusive => job[i].view[y] >= job[i].mark /\ job[i].view[y] >= s
      BY <1>3, <1>4, <1>6, <1>7, <1>9, <2>2, <3>1 DEF ProfileFits
    <3>4. j.view[y] = job[i].view[y] BY <1>8
    <3>5. poller.inclusive => j.view[y] >= j.mark BY <1>8, <3>3, <3>4 DEF Larger
    <3>6. ~IsTold(<<y, j.view[y]>>)' BY <3>2, <3>4
    <3> QED BY <3>5, <3>6
  <2>4. CASE poller.store = "after"
    <3>1. Knows(job[i].top, job[i].ids) BY <1>1, <2>1, <2>4 DEF PassedOf
    <3>2. ASSUME NEW y \in Items, NEW t \in Stamps, IsTold(<<y, t>>)'
          PROVE  t <= j.top /\ (poller.inclusive /\ t = j.top => y \in j.ids)
      <4>1. CASE IsTold(<<y, t>>)
        <5>1. t <= job[i].top /\ (poller.inclusive /\ t = job[i].top => y \in job[i].ids)
          BY <3>1, <4>1 DEF Knows
        <5>2. t <= j.top BY <1>6, <1>7, <1>8, <5>1 DEF Larger, Stamps
        <5>3. ASSUME poller.inclusive, t = j.top PROVE y \in j.ids
          <6>1. t = job[i].top /\ ~(s > job[i].top)
            BY <1>6, <1>7, <1>8, <5>1, <5>3 DEF Larger, Stamps
          <6> QED BY <1>8, <1>18, <5>1, <5>3, <6>1
        <5> QED BY <5>2, <5>3
      <4>2. CASE <<y, t>> = e
        <5>1. y = x /\ t = s BY <4>2
        <5> QED BY <1>6, <1>7, <1>8, <5>1 DEF Larger, Stamps
      <4> QED BY <1>10, <3>2, <4>1, <4>2
    <3>3. Knows(j.top, j.ids)' BY <1>11, <3>2 DEF Knows
    <3>4. poller.store # "before" BY <2>4
    <3> QED BY <1>8, <1>11, <2>3, <2>4, <3>3, <3>4 DEF PassedOf, Storing, Asked, BaseSteps
  <2>5. CASE poller.store = "before"
    <3>0. ~poller.inclusive /\ poller.store # "after" BY <1>3, <1>4, <2>5 DEF ProfileFits
    <3>1. \A y \in job[i].todo : job[i].view[y] <= cursor BY <1>1, <2>1, <2>5 DEF PassedOf
    <3>2. Knows(cursor, firedAt) BY <1>4, <3>0 DEF Passed, Storing
    <3>3. Knows(cursor, firedAt)'
      <4>1. ASSUME NEW y \in Items, NEW t \in Stamps, IsTold(<<y, t>>)' PROVE t <= cursor
        BY <1>1, <1>10, <3>1, <3>2, <4>1 DEF Knows
      <4> QED BY <1>11, <3>0, <4>1 DEF Knows
    <3>4. \A y \in j.todo : j.view[y] <= cursor' BY <1>8, <1>9, <1>11, <3>1
    <3> QED BY <1>8, <1>11, <2>3, <3>0, <3>3, <3>4 DEF PassedOf, Asked, BaseSteps
  <2> QED BY <1>3, <1>4, <2>4, <2>5 DEF ProfileFits
<1>21. SilentCase' => /\ StartedOf(j)'
                      /\ poller.sentinel = "last" /\ sentinel' => Covers(cursor, firedAt)'
  <2> SUFFICES ASSUME SilentCase
               PROVE  /\ StartedOf(j)'
                      /\ poller.sentinel = "last" /\ sentinel' => Covers(cursor, firedAt)'
    BY <1>13
  <2>1. StartedOf(job[i]) BY <1>4 DEF Started
  <2>2. poller.sentinel = "last" /\ sentinel' => Covers(cursor, firedAt)'
    <3>1. poller.sentinel = "last" /\ sentinel => Covers(cursor, firedAt) BY <1>4 DEF Started
    <3> QED BY <1>11, <3>1 DEF Covers, Existing
  <2>3. \A y \in j.todo \cap Old : j.view[y] # 1
    BY <1>1, <1>8, <1>9, <2>1 DEF StartedOf, Asked
  <2>4. ASSUME poller.sentinel = "last" PROVE Covers(j.top, j.ids)' /\ cursor' <= j.top
    <3>1. Covers(job[i].top, job[i].ids) /\ cursor <= job[i].top
      BY <1>1, <2>1, <2>4 DEF StartedOf, Asked
    <3>2. s \in Nat /\ job[i].top <= j.top /\ cursor <= j.top /\ j.top \in Nat
      BY <1>6, <1>7, <1>8, <3>1 DEF Larger, Stamps
    <3>3. Old # {} => j.top >= 1 BY <1>6, <3>1, <3>2 DEF Covers
    <3>4. ASSUME poller.inclusive
          PROVE  j.top > 1 \/ \A y \in Items : Existing(y) => y \in j.ids
      <4>1. CASE s > job[i].mark
        <5>1. j.top = s /\ s > job[i].top BY <1>6, <1>8, <1>18, <3>2, <3>4, <4>1 DEF Larger
        <5>2. Old # {} => j.top > 1 BY <1>6, <3>1, <3>2, <5>1 DEF Covers
        <5> QED BY <5>2 DEF Existing
      <4>2. CASE ~(s > job[i].mark)
        <5>1. j.top = job[i].top /\ job[i].ids \subseteq j.ids
          BY <1>6, <1>8, <1>18, <3>2, <3>4, <4>2 DEF Larger
        <5> QED BY <3>1, <3>4, <5>1 DEF Covers
      <4> QED BY <4>1, <4>2
    <3>5. Covers(j.top, j.ids)' BY <1>11, <3>3, <3>4 DEF Covers, Existing
    <3> QED BY <1>11, <3>2, <3>5
  <2>5. StartedOf(j)' BY <1>8, <1>11, <2>3, <2>4 DEF StartedOf, Asked, BaseSteps
  <2> QED BY <2>2, <2>5
<1>22. Exclusive' => Behind(cursor)' /\ TrailsOf(j)'
  <2> SUFFICES ASSUME Exclusive PROVE Behind(cursor)' /\ TrailsOf(j)'
    BY <1>13
  <2>1. Behind(cursor) /\ Behind(job[i].top) /\ InOrder(job[i])
    BY <1>1, <1>4 DEF CursorTrails, TrailsOf
  <2>2. poller.name # "linkedin" /\ poller.ordered /\ ~poller.inclusive
    BY <1>3, <1>4 DEF Exclusive, ProfileFits
  <2>3. LaterOf(job[i]) BY <1>4, <2>2 DEF Later
  <2>4. ASSUME NEW y \in Items, poller.ties,
               NEW f, Handled(f) \/ f = e, f[2] = source[y]
        PROVE  Overtaken(y)'
    <3>1. Handled(f)' BY <1>14, <2>4
    <3>2. f \in silent' \cup UNION {told'[k] : k \in Instances} BY <3>1 DEF Handled, IsTold
    <3> QED BY <1>11, <2>2, <2>4, <3>2 DEF Overtaken
  <2>5. \A y \in Items : Overtaken(y) => Overtaken(y)'
    <3> SUFFICES ASSUME NEW y \in Items, Overtaken(y) PROVE Overtaken(y)' OBVIOUS
    <3>1. poller.ties BY DEF Overtaken
    <3>2. PICK f \in silent \cup UNION {told[k] : k \in Instances} : f[2] = source[y]
      BY DEF Overtaken
    <3>3. Handled(f) BY <3>2 DEF Handled, IsTold
    <3> QED BY <2>4, <3>1, <3>2, <3>3
  <2>6. ASSUME NEW y \in Items, source[y] = s, poller.ties PROVE Overtaken(y)'
    <3>1. e[2] = source[y] BY <2>6
    <3> QED BY <2>4, <2>6, <3>1
  <2>7. ASSUME NEW y \in Items, Handled(<<y, source[y]>>) \/ Overtaken(y)
        PROVE  Handled(<<y, source[y]>>)' \/ Overtaken(y)'
    <3> PICK t : t = source[y] OBVIOUS
    <3>1. Handled(<<y, t>>) => Handled(<<y, t>>)' BY <1>14
    <3>2. Handled(<<y, t>>)' => Handled(<<y, source[y]>>)' BY <1>11
    <3> QED BY <2>5, <2>7, <3>1, <3>2
  <2>8. ASSUME NEW y \in Items, source[y] = job[i].view[y], y = x
        PROVE  Handled(<<y, source[y]>>)'
    <3> PICK t : t = s OBVIOUS
    <3>1. Handled(<<x, t>>)' BY <1>14
    <3> QED BY <1>11, <2>8, <3>1
  <2>9. ASSUME NEW y \in Items, source[y] > 0, source[y] <= s
        PROVE  Handled(<<y, source[y]>>)' \/ Overtaken(y)'
    <3>1. source[y] \in Int /\ s \in Int BY <1>6
    <3>2. CASE job[i].view[y] # source[y]
      <4>1. s <= source[y] /\ (~poller.ties => s < source[y])
        BY <1>1, <2>3, <3>2 DEF LaterOf, Asked
      <4>2. source[y] = s BY <2>9, <3>1, <4>1
      <4>3. poller.ties BY <3>1, <4>1, <4>2
      <4> QED BY <2>6, <4>2, <4>3
    <3>3. CASE job[i].view[y] = source[y]
      <4>1. \/ Handled(<<y, source[y]>>) \/ Overtaken(y)
            \/ y \in job[i].todo
            \/ \A z \in job[i].todo : Precedes(job[i].view[z], job[i].view[y])
        BY <2>1, <2>9, <3>3 DEF InOrder
      <4>2. CASE \A z \in job[i].todo : Precedes(job[i].view[z], job[i].view[y])
        <5>1. Precedes(s, source[y]) BY <1>1, <3>3, <4>2
        <5>2. poller.ties /\ source[y] = s BY <2>9, <3>1, <5>1 DEF Precedes
        <5> QED BY <2>6, <5>2
      <4>3. CASE y \in job[i].todo
        <5>1. source[y] = s BY <1>9, <2>2, <2>9, <3>1, <3>3, <4>3
        <5>2. CASE y = x BY <2>8, <3>3, <5>2
        <5>3. CASE poller.ties BY <2>6, <5>1, <5>3
        <5>4. CASE ~poller.ties /\ y # x
          <6>1. x = y \/ (x \in Old /\ s = 1)
            BY <1>1, <1>7, <2>3, <3>3, <5>1, <5>4 DEF LaterOf, Asked, Stamps
          <6>2. source[y] = 1 BY <5>1, <5>4, <6>1
          <6>3. poller.name = "dbrow" /\ poller.sentinel = "last"
            BY <1>3, <1>4, <5>4 DEF Exclusive, ProfileFits
          <6>4. sentinel
            BY <1>1, <1>4, <2>2, <6>3 DEF HasBaseline, HasBaselineOf, Asked, Unbaselined
          <6>5. <<y, 1>> \in silent BY <1>4, <6>2, <6>3, <6>4 DEF CursorTrails, FirstTaken
          <6>6. Handled(<<y, source[y]>>) BY <6>2, <6>5 DEF Handled
          <6> QED BY <2>7, <6>6
        <5> QED BY <5>2, <5>3, <5>4
      <4> QED BY <2>7, <4>1, <4>2, <4>3
    <3> QED BY <3>2, <3>3
  <2>10. ASSUME NEW y \in Items, source[y] > 0, source[y] <= j.top
         PROVE  Handled(<<y, source[y]>>)' \/ Overtaken(y)'
    <3>1. source[y] <= job[i].top \/ source[y] <= s BY <1>8, <2>10 DEF Larger
    <3>2. CASE source[y] <= job[i].top BY <2>1, <2>7, <2>10, <3>2 DEF Behind
    <3> QED BY <2>9, <2>10, <3>1, <3>2
  <2>11. Behind(j.top)' BY <1>11, <2>10 DEF Behind
  <2>12. Behind(cursor)' BY <1>11, <2>1, <2>7 DEF Behind
  <2>13. ASSUME NEW y \in Items, j.view[y] > 0, j.view[y] = source[y]
         PROVE  \/ Handled(<<y, source[y]>>)' \/ Overtaken(y)'
                \/ y \in j.todo
                \/ \A z \in j.todo : Precedes(j.view[z], j.view[y])
    <3>1. \/ Handled(<<y, source[y]>>) \/ Overtaken(y)
          \/ y \in job[i].todo
          \/ \A z \in job[i].todo : Precedes(job[i].view[z], job[i].view[y])
      BY <1>8, <2>1, <2>13 DEF InOrder
    <3>2. CASE y \in job[i].todo BY <1>8, <1>9, <2>2, <2>8, <2>13, <3>2
    <3>3. CASE \A z \in job[i].todo : Precedes(job[i].view[z], job[i].view[y])
      BY <1>8, <1>9, <3>3
    <3> QED BY <2>7, <3>1, <3>2, <3>3
  <2>14. InOrder(j)' BY <1>11, <2>13 DEF InOrder, Precedes
  <2> QED BY <2>11, <2>12, <2>14 DEF TrailsOf
<1>23. poller.name = "dbrow" /\ (sentinel' \/ j.pc \in {"basecursor", "basemark"}) => sentinel
  BY <1>8, <1>11
<1>24. poller.inclusive /\ faults' = 0 => MeetsOf(j)' /\ Told(cursor, firedAt)'
  <2> SUFFICES ASSUME poller.inclusive, faults = 0
               PROVE  MeetsOf(j)' /\ Told(cursor, firedAt)'
    BY <1>13
  <2>1. /\ poller.name # "linkedin" /\ poller.ordered /\ poller.leased
    BY <1>3, <1>4 DEF ProfileFits
  <2>2. MeetsOf(job[i]) /\ LaterOf(job[i]) BY <1>4, <2>1 DEF CursorMeets, Later
  <2>3. Told(cursor, firedAt)
    <3>1. \A k \in Instances : job[k].pc \notin {"ids", "baseids"}
      BY <1>1, <1>13, <2>1 DEF Working
    <3> QED BY <1>4, <3>1 DEF CursorMeets
  <2>4. ASSUME NEW y \in Items, Handled(<<y, source[y]>>) PROVE Handled(<<y, source[y]>>)'
    <3> PICK t : t = source[y] OBVIOUS
    <3>1. Handled(<<y, t>>)' BY <1>14, <2>4
    <3> QED BY <1>11, <3>1
  <2>5. Told(cursor, firedAt)'
    <3>1. \A y \in firedAt : cursor > 0 => Handled(<<y, cursor>>)'
      <4> TAKE y \in firedAt
      <4> PICK t : t = cursor OBVIOUS
      <4>1. cursor > 0 => Handled(<<y, t>>)' BY <1>14, <2>3 DEF Told
      <4> QED BY <1>11, <4>1
    <3> QED BY <1>11, <2>3, <2>4, <3>1 DEF Told
  <2>6. s >= job[i].mark /\ Told(job[i].top, job[i].ids) /\ s \in Nat
    BY <1>1, <1>7, <2>2 DEF MeetsOf, Asked, Stamps
  <2>7. j.top = s /\ j.mark = s BY <1>6, <1>8, <1>18, <2>6 DEF Larger
  <2>8. ASSUME NEW y \in Items, source[y] > 0, source[y] < s
        PROVE  Handled(<<y, source[y]>>)
    <3>1. source[y] \in Int BY <1>6
    <3>2. job[i].view[y] = source[y] BY <1>1, <2>2, <2>6, <2>8, <3>1 DEF LaterOf, Asked
    <3>3. \/ Handled(<<y, source[y]>>) \/ y \in job[i].todo
          \/ \A z \in job[i].todo : job[i].view[z] <= job[i].view[y]
      BY <1>1, <2>2, <2>8, <3>2 DEF MeetsOf
    <3> QED BY <1>1, <1>9, <2>1, <2>6, <2>8, <3>1, <3>2, <3>3
  <2>9. ASSUME NEW y \in j.ids PROVE Handled(<<y, j.top>>)'
    <3> PICK t : t = s OBVIOUS
    <3>1. Handled(<<x, t>>)' BY <1>14
    <3>2. CASE y = x BY <2>7, <3>1, <3>2
    <3>3. CASE y # x
      <4>1. y \in job[i].ids /\ ~(s > job[i].mark) BY <1>8, <2>9, <3>3
      <4>2. job[i].top = t BY <1>6, <1>18, <2>6, <4>1
      <4>3. t > 0 BY <1>7 DEF Stamps
      <4>4. Handled(<<y, t>>) BY <2>6, <4>1, <4>2, <4>3 DEF Told
      <4>5. Handled(<<y, t>>)' BY <1>14, <4>4
      <4> QED BY <2>7, <4>5
    <3> QED BY <3>2, <3>3
  <2>10. Told(j.top, j.ids)' BY <1>11, <2>4, <2>7, <2>8, <2>9 DEF Told
  <2>11. \A y \in j.todo : j.view[y] >= j.mark BY <1>6, <1>8, <1>9, <2>1, <2>6, <2>7
  <2>12. ASSUME NEW y \in Items, j.view[y] > 0, j.view[y] = source[y]
         PROVE  \/ Handled(<<y, source[y]>>)' \/ y \in j.todo
                \/ \A z \in j.todo : j.view[z] <= j.view[y]
    <3>1. \/ Handled(<<y, source[y]>>) \/ y \in job[i].todo
          \/ \A z \in job[i].todo : job[i].view[z] <= job[i].view[y]
      BY <1>1, <1>8, <2>2, <2>12 DEF MeetsOf
    <3>2. CASE y = x
      <4> PICK t : t = s OBVIOUS
      <4>1. Handled(<<x, t>>)' BY <1>14
      <4> QED BY <1>8, <1>11, <2>12, <3>2, <4>1
    <3>3. CASE y # x BY <1>8, <1>9, <2>1, <2>4, <3>1, <3>3
    <3> QED BY <3>2, <3>3
  <2>13. MeetsOf(j)' BY <1>8, <1>11, <2>10, <2>11, <2>12 DEF MeetsOf, Asked
  <2> QED BY <2>5, <2>13
<1>25. poller.store = "before" /\ faults' = 0 =>
          \A y \in Items : InBatch(y, job[i]) => InBatch(y, j) \/ Handled(<<y, source[y]>>)'
  <2> SUFFICES ASSUME poller.store = "before", NEW y \in Items, InBatch(y, job[i])
               PROVE  InBatch(y, j) \/ Handled(<<y, source[y]>>)'
    OBVIOUS
  <2>1. poller.ordered BY <1>3, <1>4 DEF ProfileFits
  <2>2. y \in job[i].todo /\ job[i].view[y] = source[y] BY DEF InBatch
  <2>3. CASE y = x BY <1>11, <1>14, <2>2, <2>3
  <2>4. CASE y # x BY <1>8, <1>9, <2>1, <2>2, <2>4 DEF InBatch, Asked
  <2> QED BY <2>3, <2>4
<1> HIDE DEF e, s
<1> QED
  <2>1. UNCHANGED <<sourceVars, rows, leaseVars>> /\ (UNCHANGED faultVars \/ Failure)
    BY <1>1, <1>11
  <2>2. silent \subseteq silent' BY <1>11
  <2>3. j.pc = "fire" BY <1>8
  <2> QED
    BY <1>1, <1>3, <1>8, <1>11, <1>12, <1>14, <1>15, <1>16, <1>17, <1>19, <1>20, <1>21, <1>22,
       <1>23, <1>24, <1>25, <2>1, <2>2, <2>3, CursorStepKeeps

-----------------------------------------------------------------------------
(* The theorems.                                                           *)

\* Nothing happens and nothing changes.
LEMMA StutterKeeps ==
    ASSUME IInv, UNCHANGED vars
    PROVE  IInv'
<1>1. /\ source' = source /\ newest' = newest /\ poller' = poller /\ rows' = rows
      /\ vanished' = vanished /\ deleted' = deleted
      /\ sentinel' = sentinel /\ cursor' = cursor /\ firedAt' = firedAt /\ job' = job
      /\ told' = told /\ again' = again /\ silent' = silent
      /\ faults' = faults /\ crashes' = crashes /\ failed' = failed /\ lapses' = lapses
      /\ leaseOwner' = leaseOwner /\ leaseTtl' = leaseTtl
  BY DEF vars, sourceVars, rowVars, toldVars, faultVars, leaseVars
<1>2. /\ TypeOK /\ Phases /\ UnderLease /\ Bounded /\ Silent
      /\ poller.kind = "set" => SetInv
      /\ poller.kind = "cursor" => CursorInv
      /\ (poller.kind = "set" /\ OnceCase) \/ (poller.kind = "cursor" /\ CursorOnce) => NoneTwice
  BY DEF IInv
<1>3. /\ \A e : IsTold(e)' <=> IsTold(e)
      /\ \A e : Handled(e)' <=> Handled(e)
      /\ \A k : Place(k)' = Place(k)
      /\ Fits' <=> Fits
      /\ \A x : Existing(x)' <=> Existing(x)
      /\ \A x : Overtaken(x)' <=> Overtaken(x)
  BY <1>1 DEF IsTold, Handled, Place, Fits, Existing, Overtaken
<1>4. /\ OnceCase' <=> OnceCase
      /\ SilentCase' <=> SilentCase
      /\ CursorOnce' <=> CursorOnce
      /\ Sole' <=> Sole
      /\ Exclusive' <=> Exclusive
  BY <1>1, <1>3 DEF OnceCase, SilentCase, CursorOnce, Sole, Exclusive, StoresFirst
<1>5. TypeOK' BY <1>1, <1>2 DEF TypeOK, LeaseTypeOK
<1>6. Phases' BY <1>1, <1>2 DEF Phases, PhasesOf
<1>7. UnderLease' BY <1>1, <1>2 DEF UnderLease, Working
<1>8. Bounded' BY <1>1, <1>2, <1>3 DEF Bounded
<1>9. Silent' BY <1>2, <1>3, <1>4 DEF Silent
<1>10. NoneTwice => NoneTwice' BY <1>1 DEF NoneTwice
<1>11. ASSUME SetInv PROVE SetInv'
  <2>1. Grown' BY <1>1, <1>3, <1>4, <1>11 DEF SetInv, Grown, GrownOf
  <2>2. Recognised' BY <1>1, <1>3, <1>4, <1>11 DEF SetInv, Recognised, RecognisedOf
  <2>3. Baselined' BY <1>1, <1>3, <1>4, <1>11 DEF SetInv, Baselined, BaselinedOf, LeftOf
  <2>4. StoredIsHandled' BY <1>1, <1>3, <1>11 DEF SetInv, StoredIsHandled, AboutTo
  <2> QED BY <2>1, <2>2, <2>3, <2>4 DEF SetInv
<1>12. ASSUME CursorInv PROVE CursorInv'
  <2>1. SourceFits' BY <1>1, <1>12 DEF CursorInv, SourceFits
  <2>2. HasBaseline'
    BY <1>1, <1>3, <1>12
    DEF CursorInv, HasBaseline, HasBaselineOf, Asked, Unbaselined
  <2>3. Later' BY <1>1, <1>12 DEF CursorInv, Later, LaterOf, Asked
  <2>4. Passed' BY <1>1, <1>3, <1>4, <1>12 DEF CursorInv, Passed, PassedOf, Knows, Storing, Asked
  <2>5. Started' BY <1>1, <1>3, <1>4, <1>12 DEF CursorInv, Started, StartedOf, Covers, Asked
  <2>6. CursorTrails'
    BY <1>1, <1>3, <1>4, <1>12 DEF CursorInv, CursorTrails, TrailsOf, Behind, InOrder, Precedes, FirstTaken
  <2>7. CursorMeets' BY <1>1, <1>3, <1>12 DEF CursorInv, CursorMeets, MeetsOf, Told, Asked
  <2>8. CursorLeads' BY <1>1, <1>3, <1>12 DEF CursorInv, CursorLeads, Taken, InBatch, Asked
  <2> QED BY <2>1, <2>2, <2>3, <2>4, <2>5, <2>6, <2>7, <2>8 DEF CursorInv
<1> QED
  BY <1>1, <1>2, <1>4, <1>5, <1>6, <1>7, <1>8, <1>9, <1>10, <1>11, <1>12 DEF IInv

\* Every step keeps the invariant.
LEMMA StepKeeps ==
    ASSUME IInv, [Next]_vars
    PROVE  IInv'
<1>1. CASE UNCHANGED vars BY <1>1, StutterKeeps
<1>2. ASSUME NEW i \in Instances, Begin(i) \/ GiveUp(i) \/ Crash(i) PROVE IInv'
  BY <1>2, BeginKeeps, GiveUpKeeps, CrashKeeps
<1>3. ASSUME NEW i \in Instances, List(i) \/ ListElsewhere(i) \/ ReadKnown(i) \/ MarkFirst(i)
      PROVE  IInv'
  BY <1>3, ListKeeps, ListElsewhereKeeps, ReadKnownKeeps, MarkFirstKeeps
<1>4. ASSUME NEW i \in Instances, TellSifted(i) \/ EndSift(i) \/ Finish(i) PROVE IInv'
  BY <1>4, TellSiftedKeeps, EndSiftKeeps, FinishKeeps
<1>5. ASSUME NEW i \in Instances,
             ReadCursor(i) \/ ReadCursorFails(i) \/ Baseline(i) \/ BaselineStores(i)
      PROVE  IInv'
  BY <1>5, ReadCursorKeeps, ReadCursorFailsKeeps, BaselineKeeps, BaselineStoresKeeps
<1>6. ASSUME NEW i \in Instances, EndBatch(i) \/ StoreCursor(i) \/ StoreFired(i) PROVE IInv'
  BY <1>6, EndBatchKeeps, StoreCursorKeeps, StoreFiredKeeps
<1>7. ASSUME NEW i \in Instances, NEW x \in Items,
             Sift(i, x) \/ Prune(i, x) \/ FireNext(i, x) \/ FireCut(i, x)
      PROVE  IInv'
  BY <1>7, SiftKeeps, PruneKeeps, FireNextKeeps, FireCutKeeps
<1>8. ASSUME NEW x \in Items, Appear(x) \/ Vanish(x) PROVE IInv'
  BY <1>8, AppearKeeps, VanishKeeps
<1>9. CASE Tick BY <1>9, TickKeeps
<1> QED BY <1>1, <1>2, <1>3, <1>4, <1>5, <1>6, <1>7, <1>8, <1>9 DEF Next

\* Every reachable state is one of the invariant.
THEOREM PollersInvariant == Spec => []IInv
<1>1. Init => IInv BY Initially
<1>2. IInv /\ [Next]_vars => IInv' BY StepKeeps
<1> QED BY <1>1, <1>2, PTL DEF Spec

\* The variables keep their types.
THEOREM PollersTypes == Spec => []TypeOK
<1>1. IInv => TypeOK BY DEF IInv
<1> QED BY <1>1, PollersInvariant, PTL

\* Without failed calls, lapsed leases or more items than a listing holds, no
\* item that was there before the trigger starts a flow, whoever crashes.
THEOREM ExistingItemsStaySilent == Spec => []ExistingStaysSilent
<1>1. IInv => ExistingStaysSilent
  <2> SUFFICES ASSUME IInv, SilentCase, NEW i \in Instances PROVE told[i] \cap (Old \X {1}) = {}
    BY DEF ExistingStaysSilent, SilentCase
  <2>1. \A x \in Old : ~IsTold(<<x, 1>>) BY DEF IInv, Silent
  <2>2. ASSUME NEW f \in told[i] \cap (Old \X {1}) PROVE FALSE
    <3>0. f \in Old \X {1} BY <2>2
    <3>1. PICK x \in Old : f = <<x, 1>>
      <4>1. PICK x, s : x \in Old /\ s \in {1} /\ f = <<x, s>> BY <3>0, SMT
      <4> QED BY <4>1
    <3>2. IsTold(<<x, 1>>) BY <2>2, <3>1 DEF IsTold
    <3> QED BY <2>1, <3>2
  <2> QED BY <2>2
<1> QED BY <1>1, PollersInvariant, PTL

\* An event starts one flow, on one instance: through crashes and failed
\* statements where an item is stored before it fires.
THEOREM EventsFireOnce == Spec => []FiredOnce
<1>1. IInv => FiredOnce
  <2> SUFFICES ASSUME IInv,
                      poller.leased /\ lapses = 0 /\ Fits,
                      failed > 0 => StoresFirst /\ poller.kind = "set" /\ ~poller.fallback,
                      crashes > 0 => StoresFirst
               PROVE  NoneTwice
    BY DEF FiredOnce, NoneTwice
  <2>1. ProfileFits(poller) /\ failed \in Nat BY Profile DEF IInv, TypeOK
  <2>2. CASE poller.kind = "set" BY <2>2 DEF IInv, OnceCase
  <2>3. CASE poller.kind = "cursor"
    <3>1. CursorOnce BY <2>1, <2>3 DEF CursorOnce, StoresFirst
    <3> QED BY <2>3, <3>1 DEF IInv
  <2> QED BY <2>1, <2>2, <2>3 DEF ProfileFits
<1> QED BY <1>1, PollersInvariant, PTL

\* What the stored state claims was handled has started a flow or belongs to the
\* baseline: always where an exclusive cursor is stored last, and between polls
\* that went well for the others.
THEOREM RecordedIsHandled == Spec => []NothingSkipped
<1>1. IInv => NothingSkipped
  <2> SUFFICES ASSUME IInv, poller.name # "linkedin", poller.name = "logs" => Fits,
                      \/ poller.kind = "cursor" /\ poller.store = "after" /\ ~poller.inclusive
                      \/ faults = 0 /\ \A i \in Instances : ~Working(i),
                      NEW x \in Present(source), Recorded(x)
               PROVE  Handled(<<x, source[x]>>) \/ Overtaken(x)
    BY DEF NothingSkipped, Accounted, Settled, Handled, IsTold
  <2>1. TypeOK /\ ProfileFits(poller) BY Profile DEF IInv, TypeOK
  <2>2. x \in Items /\ source[x] > 0 /\ source[x] \in Int BY <2>1, SetTypes DEF Present
  <2>3. CASE poller.kind = "set"
    <3>1. rows[Table][x] = source[x] BY <2>3 DEF Recorded
    <3>2. \A i \in Instances : job[i].pc # "tell" BY <2>3 DEF Working
    <3>3. faults = 0 /\ StoredIsHandled BY <2>3 DEF IInv, SetInv
    <3> QED BY <2>2, <3>1, <3>2, <3>3 DEF StoredIsHandled, AboutTo
  <2>4. CASE poller.kind = "cursor" /\ poller.inclusive
    <3>1. faults = 0 /\ \A i \in Instances : job[i].pc \notin {"ids", "baseids"}
      BY <2>4 DEF Working
    <3>2. Told(cursor, firedAt) BY <2>4, <3>1 DEF IInv, CursorInv, CursorMeets
    <3>3. source[x] < cursor \/ (source[x] = cursor /\ x \in firedAt) BY <2>4 DEF Recorded
    <3> QED BY <2>2, <3>2, <3>3 DEF Told
  <2>5. CASE poller.kind = "cursor" /\ ~poller.inclusive /\ poller.store = "after"
    <3>1. Exclusive BY <2>1, <2>5 DEF ProfileFits, Exclusive
    <3>2. Behind(cursor) BY <2>5, <3>1 DEF IInv, CursorInv, CursorTrails
    <3>3. source[x] <= cursor BY <2>5 DEF Recorded
    <3> QED BY <2>2, <3>2, <3>3 DEF Behind
  <2>6. CASE poller.kind = "cursor" /\ ~poller.inclusive /\ poller.store = "before"
    <3>1. faults = 0 /\ \A i \in Instances : job[i].pc \notin {"fire", "cursor"}
      BY <2>6 DEF Working
    <3>2. Taken(cursor) BY <2>6, <3>1 DEF IInv, CursorInv, CursorLeads
    <3>3. source[x] <= cursor BY <2>6 DEF Recorded
    <3>4. \A i \in Instances : ~InBatch(x, job[i]) BY <3>1 DEF InBatch, Asked
    <3> QED BY <2>2, <3>2, <3>3, <3>4 DEF Taken
  <2> QED BY <2>1, <2>3, <2>4, <2>5, <2>6 DEF ProfileFits
<1> QED BY <1>1, PollersInvariant, PTL

-----------------------------------------------------------------------------
(* Deletions.                                                              *)

\* A step that leaves the provider and the stored items alone is right when the
\* polls are.
LEMMA GoneFrame ==
    ASSUME IInv, GoneInv, UNCHANGED sourceVars, rows'[Table] = rows[Table],
           failed' = 0 => failed = 0, lapses' = 0 => lapses = 0,
           ASSUME TellsDeletions, NEW k \in Instances PROVE GoneOf(job'[k])
    PROVE  GoneInv'
<1>1. /\ source' = source /\ newest' = newest /\ poller' = poller
      /\ vanished' = vanished /\ deleted' = deleted
  BY DEF sourceVars
<1>2. TellsDeletions' => TellsDeletions BY <1>1 DEF TellsDeletions, Fits
<1>3. \A k \in Instances : GoneOf(job'[k]) => GoneOf(job[k])' BY <1>1 DEF GoneOf
<1> QED BY <1>1, <1>2, <1>3 DEF GoneInv

\* A step of instance i that keeps what its poll has listed and known, or ends it.
LEMMA GoneJob ==
    ASSUME IInv, GoneInv, UNCHANGED <<sourceVars, rows>>,
           UNCHANGED faultVars \/ Failure, NEW i \in Instances,
           NEW j, job' = [job EXCEPT ![i] = j],
           TellsDeletions /\ failed' = 0 => GoneOf(j)
    PROVE  GoneInv'
<1>1. /\ failed \in Nat /\ job \in [Instances -> Jobs] BY DEF IInv, TypeOK
<1>2. /\ failed' = 0 => failed = 0
      /\ lapses' = 0 => lapses = 0
      /\ Failure => failed' # 0
  BY <1>1 DEF Failure, faultVars
<1>3. CASE UNCHANGED faultVars
  <2>1. ASSUME TellsDeletions, NEW k \in Instances PROVE GoneOf(job'[k])
    <3>1. failed' = 0 BY <1>3, <2>1 DEF faultVars, TellsDeletions
    <3>2. job'[k] = IF k = i THEN j ELSE job[k] BY <1>1
    <3> QED BY <2>1, <3>1, <3>2 DEF GoneInv
  <2> QED BY <1>2, <2>1, GoneFrame
<1>4. CASE Failure
  <2>1. /\ source' = source /\ newest' = newest /\ poller' = poller
        /\ vanished' = vanished /\ deleted' = deleted
    BY DEF sourceVars
  <2>2. ~TellsDeletions' BY <1>2, <1>4 DEF TellsDeletions
  <2> QED BY <2>1, <2>2 DEF GoneInv
<1> QED BY <1>3, <1>4

\* The steps that only move on in a poll.
LEMMA GoneMoves ==
    ASSUME IInv, GoneInv, NEW i \in Instances,
           Begin(i) \/ GiveUp(i) \/ MarkFirst(i) \/ TellSifted(i) \/ Finish(i)
           \/ ListElsewhere(i)
    PROVE  GoneInv'
<1>1. job[i] \in Jobs /\ job \in [Instances -> Jobs] BY DEF IInv, TypeOK
<1>2. TellsDeletions => GoneOf(job[i]) BY DEF GoneInv
<1>3. Idle.pc = "idle" BY IdlePoll
<1>4. GoneOf(Idle) BY <1>3 DEF GoneOf
<1>5. CASE Begin(i)
  <2> DEFINE j == [job[i] EXCEPT !.pc = "begun"]
  <2>1. job' = [job EXCEPT ![i] = j] BY <1>1, <1>5 DEF Begin, Goto
  <2>2. GoneOf(j) BY <1>1 DEF GoneOf, Jobs
  <2>3. UNCHANGED <<sourceVars, rows>> /\ UNCHANGED faultVars BY <1>5 DEF Begin, rowVars
  <2> QED BY <2>1, <2>2, <2>3, GoneJob
<1>6. CASE GiveUp(i)
  <2>1. job' = [job EXCEPT ![i] = Idle] BY <1>6 DEF GiveUp, Quit
  <2>2. UNCHANGED <<sourceVars, rows>> /\ UNCHANGED faultVars BY <1>6 DEF GiveUp, rowVars
  <2> QED BY <1>4, <2>1, <2>2, GoneJob
<1>7. CASE MarkFirst(i)
  <2> DEFINE j == [job[i] EXCEPT !.pc = "sift"]
  <2>1. job' = [job EXCEPT ![i] = j] /\ job[i].pc = "mark"
    BY <1>1, <1>7 DEF MarkFirst, Goto
  <2>2. TellsDeletions => GoneOf(j) BY <1>1, <1>2, <2>1 DEF GoneOf, Jobs
  <2>3. UNCHANGED <<sourceVars, rows>> /\ (UNCHANGED faultVars \/ Failure)
    BY <1>7 DEF MarkFirst, Upsert
  <2> QED BY <2>1, <2>2, <2>3, GoneJob
<1>8. CASE TellSifted(i)
  <2> DEFINE j == [job[i] EXCEPT !.pc = "sift", !.mark = 0]
  <2>1. job' = [job EXCEPT ![i] = j] /\ job[i].pc = "tell"
    BY <1>1, <1>8 DEF TellSifted
  <2>2. TellsDeletions => GoneOf(j) BY <1>1, <1>2, <2>1 DEF GoneOf, Jobs
  <2>3. UNCHANGED <<sourceVars, rows>> /\ UNCHANGED faultVars
    BY <1>8 DEF TellSifted, rowVars
  <2> QED BY <2>1, <2>2, <2>3, GoneJob
<1>9. CASE Finish(i)
  <2>1. job' = [job EXCEPT ![i] = Idle] BY <1>9 DEF Finish, Quit
  <2>2. UNCHANGED <<sourceVars, rows>> /\ (UNCHANGED faultVars \/ Failure)
    BY <1>9 DEF Finish, Upsert
  <2> QED BY <1>4, <2>1, <2>2, GoneJob
<1>10. CASE ListElsewhere(i)
  <2> DEFINE j == [job[i] EXCEPT !.pc = "listed"]
  <2>1. job' = [job EXCEPT ![i] = j] BY <1>1, <1>10 DEF ListElsewhere, Goto
  <2>2. UNCHANGED <<sourceVars, rows>> /\ Failure BY <1>10 DEF ListElsewhere, rowVars
  <2>3. failed \in Nat /\ failed' # 0 BY <2>2 DEF Failure, IInv, TypeOK
  <2> QED BY <2>1, <2>2, <2>3, GoneJob
<1> QED BY <1>5, <1>6, <1>7, <1>8, <1>9, <1>10

\* The pollers that read a cursor tell of no deletion.
LEMMA GoneCursor ==
    ASSUME IInv, GoneInv, poller.kind = "cursor", UNCHANGED sourceVars
    PROVE  GoneInv'
<1>1. /\ source' = source /\ newest' = newest /\ poller' = poller
      /\ vanished' = vanished /\ deleted' = deleted
  BY DEF sourceVars
<1> QED BY <1>1 DEF GoneInv, TellsDeletions

\* The listing holds all items that are there; what is stored of the others they
\* had when they vanished.
LEMMA GoneList ==
    ASSUME IInv, GoneInv, NEW i \in Instances, List(i)
    PROVE  GoneInv'
<1> DEFINE j == [job[i] EXCEPT !.pc = "listed", !.view = Only(source, Listing)]
<1>1. /\ poller.kind = "set" /\ UNCHANGED <<sourceVars, rows>> /\ UNCHANGED faultVars
      /\ TypeOK /\ Phases /\ job[i].pc = "begun"
  BY DEF List, rowVars, IInv
<1>2. /\ job[i] \in Jobs /\ job' = [job EXCEPT ![i] = j]
      /\ \A x \in Items : source[x] \in Int /\ vanished[x] \in Nat
  <2>1. job \in [Instances -> Jobs] /\ vanished \in [Items -> 0 .. MaxStamp]
    BY <1>1 DEF TypeOK
  <2>2. \A x \in Items : source[x] \in Int BY <1>1, SetTypes
  <2>3. job' = [job EXCEPT ![i].pc = "listed", ![i].view = Only(source, Listing)] BY DEF List
  <2>4. job' = [job EXCEPT ![i] = j] BY <2>1, <2>3
  <2> QED BY <2>1, <2>2, <2>4
<1>3. ASSUME TellsDeletions PROVE GoneOf(j)
  <2>1. j.pc = "listed" /\ j.view = Only(source, Listing) BY <1>2 DEF Jobs
  <2>2. Listing = Present(source) BY <1>1, <1>3, ListsAll, SetTypes DEF TellsDeletions
  <2>3. \A x \in Items : j.view[x] = IF source[x] > 0 THEN source[x] ELSE 0
    BY <2>1, <2>2 DEF Only, Present
  <2>4. \A x \in Items : source[x] <= 0 => rows[Table][x] <= vanished[x]
    BY <1>3 DEF GoneInv
  <2> HIDE DEF j
  <2> QED BY <1>2, <2>1, <2>3, <2>4 DEF GoneOf
<1> HIDE DEF j
<1> QED BY <1>1, <1>2, <1>3, GoneJob

\* What is known of the items is what is stored of them.
LEMMA GoneReadKnown ==
    ASSUME IInv, GoneInv, NEW i \in Instances, ReadKnown(i)
    PROVE  GoneInv'
<1> DEFINE known == rows[Place(i)]
           pc == IF IsFirst(i) /\ poller.sentinel = "first" THEN "mark" ELSE "sift"
           todo == {x \in Present(job[i].view) : Differs(known, job[i].view, x)}
           j == [job[i] EXCEPT !.known = known, !.first = IsFirst(i), !.pc = pc, !.todo = todo]
<1>1. /\ poller.kind = "set" /\ UNCHANGED <<sourceVars, rows>> /\ UNCHANGED faultVars
      /\ TypeOK /\ job[i].pc = "listed"
  BY DEF ReadKnown, rowVars, IInv
<1>2. job[i] \in Jobs /\ job' = [job EXCEPT ![i] = j] /\ ProfileFits(poller)
  BY <1>1, SetTypes DEF ReadKnown, TypeOK
<1>3. ASSUME TellsDeletions PROVE GoneOf(j)
  <2>1. j.pc = pc /\ j.view = job[i].view /\ j.known = known BY <1>2 DEF Jobs
  <2>2. pc \in {"mark", "sift"} OBVIOUS
  <2>3. known = rows[Table] BY <1>1, <1>2, <1>3 DEF TellsDeletions, ProfileFits, Place
  <2>4. GoneOf(job[i]) BY <1>3 DEF GoneInv
  <2> HIDE DEF j, pc, known
  <2> QED BY <1>1, <2>1, <2>2, <2>3, <2>4 DEF GoneOf
<1> HIDE DEF j
<1> QED BY <1>1, <1>2, <1>3, GoneJob

\* What is left over was not listed.
LEMMA GoneEndSift ==
    ASSUME IInv, GoneInv, NEW i \in Instances, EndSift(i)
    PROVE  GoneInv'
<1> DEFINE todo == IF poller.prunes THEN Gone(i) ELSE {}
           known == IF poller.deletes THEN Only(job[i].known, Gone(i)) ELSE Nothing
           j == [job[i] EXCEPT !.pc = "prune", !.view = Nothing, !.known = known,
                               !.ids = {}, !.todo = todo]
<1>1. /\ TypeOK /\ Phases /\ UNCHANGED <<sourceVars, rows>> /\ UNCHANGED faultVars
      /\ job[i].pc = "sift"
  BY DEF EndSift, rowVars, IInv
<1>2. job[i] \in Jobs /\ job' = [job EXCEPT ![i] = j] /\ poller.kind = "set" /\ ProfileFits(poller)
  BY <1>1, SetTypes DEF EndSift, TypeOK, Phases, PhasesOf, SetSteps
<1>3. ASSUME TellsDeletions PROVE GoneOf(j)
  <2>1. j.pc = "prune" /\ j.todo = todo /\ j.known = known BY <1>2 DEF Jobs
  <2>2. GoneOf(job[i]) BY <1>3 DEF GoneInv
  <2>3. job[i].ids = {}
    <3>1. SilentCase BY <1>2, <1>3 DEF TellsDeletions, SilentCase, ProfileFits
    <3> QED BY <1>1, <1>2, <3>1 DEF IInv, SetInv, Baselined, BaselinedOf, SetSteps
  <2>4. ASSUME NEW x \in todo PROVE known[x] <= vanished[x]
    <3>1. x \in Gone(i) /\ x \in Items BY <2>4 DEF Gone, Present
    <3>2. job[i].view[x] <= 0 BY <2>3, <3>1 DEF Gone
    <3>3. job[i].known[x] <= vanished[x] BY <1>1, <2>2, <3>1, <3>2 DEF GoneOf
    <3>4. known[x] = job[i].known[x] BY <1>3, <3>1 DEF TellsDeletions, Only
    <3> QED BY <3>3, <3>4
  <2> HIDE DEF j, todo, known
  <2> QED BY <2>1, <2>4 DEF GoneOf
<1> HIDE DEF j
<1> QED BY <1>1, <1>2, <1>3, GoneJob

\* Nobody else polls meanwhile.
LEMMA OthersRest ==
    ASSUME IInv, TellsDeletions, NEW i \in Instances, Working(i), NEW k \in Instances, k # i
    PROVE  ~Working(k)
<1>1. TypeOK /\ UnderLease /\ ProfileFits(poller) BY Profile DEF IInv, TypeOK
<1>2. poller.leased /\ lapses = 0 BY <1>1 DEF TellsDeletions, ProfileFits
<1> QED BY <1>1, <1>2, OnePoll

\* What is stored was listed: if the item has vanished, it had that when it did.
LEMMA GoneSift ==
    ASSUME IInv, GoneInv, NEW i \in Instances, NEW x \in Items, Sift(i, x)
    PROVE  GoneInv'
<1> DEFINE s == job[i].view[x]
<1>1. /\ job[i].pc = "sift" /\ x \in job[i].todo /\ UNCHANGED sourceVars
      /\ TypeOK /\ Phases /\ (UNCHANGED faultVars \/ Failure)
  BY DEF Sift, IInv
<1>2. /\ source' = source /\ newest' = newest /\ poller' = poller
      /\ vanished' = vanished /\ deleted' = deleted
  BY <1>1 DEF sourceVars
<1>3. job \in [Instances -> Jobs] /\ failed \in Nat BY <1>1 DEF TypeOK
<1>4. CASE Failure
  <2>1. ~TellsDeletions' BY <1>3, <1>4 DEF TellsDeletions, Failure
  <2> QED BY <1>2, <2>1 DEF GoneInv
<1>5. CASE ~Failure
  <2> SUFFICES ASSUME TellsDeletions
               PROVE  /\ \A y \in Items : source[y] <= 0 => rows'[Table][y] <= vanished[y]
                      /\ \A k \in Instances : GoneOf(job[k])'
    <3>1. UNCHANGED faultVars BY <1>1, <1>5
    <3>2. TellsDeletions' => TellsDeletions BY <1>2, <3>1 DEF TellsDeletions, Fits, faultVars
    <3> QED BY <1>2, <3>2 DEF GoneInv
  <2>1. GoneOf(job[i]) BY DEF GoneInv
  <2>2. rows' = [rows EXCEPT ![Place(i)][x] = s] BY <1>5 DEF Sift, Store
  <2>3. \A y \in Items : rows'[Table][y] = rows[Table][y] \/ (y = x /\ rows'[Table][y] = s)
    <3>1. rows \in [Instances \cup {Table} -> [Items -> 0 .. MaxStamp]] BY <1>1 DEF TypeOK
    <3> QED BY <2>2, <3>1
  <2>4. source[x] <= 0 => s <= vanished[x] BY <1>1, <2>1 DEF GoneOf
  <2>5. \A y \in Items : source[y] <= 0 => rows'[Table][y] <= vanished[y]
    BY <2>3, <2>4 DEF GoneInv
  <2>6. /\ job'[i].view = job[i].view /\ job'[i].known = job[i].known
        /\ job'[i].pc \in {"sift", "tell"}
        /\ \A k \in Instances : k # i => job'[k] = job[k]
    <3>1. PICK j : job' = [job EXCEPT ![i] = j] /\ j.view = job[i].view
                   /\ j.known = job[i].known /\ j.pc \in {"sift", "tell"}
      <4> DEFINE h == [job[i] EXCEPT !.todo = @ \ {x},
                                     !.pc = IF Fires(i, x) THEN "tell" ELSE "sift",
                                     !.mark = IF Fires(i, x) THEN x ELSE 0]
      <4>1. job' = [job EXCEPT ![i] = h] BY <1>3, <1>5 DEF Sift
      <4>2. /\ h.view = job[i].view /\ h.known = job[i].known
            /\ h.pc \in {"sift", "tell"}
        BY <1>3 DEF Jobs
      <4> HIDE DEF h
      <4> QED BY <4>1, <4>2
    <3> QED BY <1>3, <3>1
  <2>7. GoneOf(job'[i])
    <3>1. job'[i].pc \notin {"listed", "prune"} BY <2>6
    <3> QED BY <1>1, <2>1, <2>6, <3>1 DEF GoneOf
  <2>8. ASSUME NEW k \in Instances PROVE GoneOf(job[k])'
    <3>1. CASE k = i
      <4>1. job'[i].pc # "listed" BY <2>6
      <4> QED BY <1>2, <2>7, <3>1, <4>1 DEF GoneOf
    <3>2. CASE k # i
      <4>1. ~Working(k) BY <1>1, <3>2, OthersRest DEF Working
      <4>2. job'[k] = job[k] BY <2>6, <3>2
      <4> QED BY <4>1, <4>2 DEF Working, GoneOf
    <3> QED BY <3>1, <3>2
  <2> QED BY <2>5, <2>8
<1> QED BY <1>4, <1>5

\* The pruning tells of what is left over, and forgets it.
LEMMA GonePrune ==
    ASSUME IInv, GoneInv, NEW i \in Instances, NEW x \in Items, Prune(i, x)
    PROVE  GoneInv'
<1> DEFINE e == <<x, job[i].known[x]>>
<1>1. /\ job[i].pc = "prune" /\ x \in job[i].todo /\ Working(i)
      /\ source' = source /\ newest' = newest /\ poller' = poller /\ vanished' = vanished
  BY DEF Prune, Working
<1>2. /\ job \in [Instances -> Jobs] /\ failed \in Nat /\ Phases
      /\ rows \in [Instances \cup {Table} -> [Items -> 0 .. MaxStamp]]
      /\ vanished \in [Items -> 0 .. MaxStamp]
  BY DEF IInv, TypeOK
<1>3. poller.kind = "set" BY <1>1, <1>2 DEF Phases, PhasesOf, SetSteps
<1>4. CASE Failure
  <2>1. ~TellsDeletions' BY <1>2, <1>4 DEF TellsDeletions, Failure
  <2>2. deleted' = deleted BY <1>2, <1>4 DEF Prune, Failure, faultVars
  <2> QED BY <1>1, <2>1, <2>2 DEF GoneInv
<1>5. CASE ~Failure
  <2>1. /\ UNCHANGED faultVars /\ rows' = [rows EXCEPT ![Place(i)][x] = 0]
        /\ deleted' = deleted \/ (poller.deletes /\ deleted' = deleted \cup {e})
    BY <1>5 DEF Prune, Store
  <2>2. ~poller.deletes /\ deleted = {} => deleted' = {} BY <2>1
  <2>3. ASSUME TellsDeletions
        PROVE  /\ \A y \in Items : source[y] <= 0 => rows'[Table][y] <= vanished[y]
               /\ \A k \in Instances : GoneOf(job[k])'
               /\ \A d \in deleted' : d[2] <= vanished[d[1]]
    <3>1. GoneOf(job[i]) BY <2>3 DEF GoneInv
    <3>2. \A y \in Items : rows'[Table][y] = rows[Table][y] \/ rows'[Table][y] = 0
      BY <1>2, <2>1
    <3>3. \A y \in Items : source[y] <= 0 => rows'[Table][y] <= vanished[y]
      <4>1. \A y \in Items : vanished[y] \in 0 .. MaxStamp BY <1>2
      <4>2. \A y \in Items : vanished[y] >= 0 BY <4>1
      <4>3. \A y \in Items : source[y] <= 0 => rows[Table][y] <= vanished[y]
        BY <2>3 DEF GoneInv
      <4> QED BY <3>2, <4>2, <4>3
    <3>4. \A d \in deleted' : d[2] <= vanished[d[1]]
      <4>1. job[i].known[x] <= vanished[x] BY <1>1, <3>1 DEF GoneOf
      <4>2. e[1] = x /\ e[2] = job[i].known[x] OBVIOUS
      <4> QED BY <2>1, <2>3, <4>1, <4>2 DEF GoneInv
    <3>5. job' = [job EXCEPT ![i].todo = @ \ {x}] BY DEF Prune
    <3>6. ASSUME NEW k \in Instances PROVE GoneOf(job[k])'
      <4>1. CASE k = i
        <5>1. job'[i].pc = "prune" /\ job'[i].known = job[i].known
              /\ job'[i].todo \subseteq job[i].todo
          BY <1>1, <1>2, <3>5 DEF Jobs
        <5> QED BY <1>1, <3>1, <4>1, <5>1 DEF GoneOf
      <4>2. CASE k # i
        <5>1. ~Working(k) BY <1>1, <2>3, <4>2, OthersRest
        <5>2. job'[k] = job[k] BY <1>2, <3>5, <4>2
        <5> QED BY <5>1, <5>2 DEF Working, GoneOf
      <4> QED BY <4>1, <4>2
    <3> QED BY <3>3, <3>4, <3>6
  <2>4. TellsDeletions' => TellsDeletions
    BY <1>1, <2>1 DEF TellsDeletions, Fits, faultVars
  <2> HIDE DEF e
  <2> QED BY <1>1, <1>3, <2>2, <2>3, <2>4 DEF GoneInv
<1> QED BY <1>4, <1>5

\* A new stamp is later than all others.
LEMMA GoneAppear ==
    ASSUME IInv, GoneInv, NEW x \in Items, Appear(x)
    PROVE  GoneInv'
<1>1. /\ source \in Views /\ newest \in Stamps /\ TypeOK
      /\ vanished \in [Items -> 0 .. MaxStamp]
  BY DEF IInv, TypeOK
<1>2. PICK s \in NextStamps(x) : source' = [source EXCEPT ![x] = s] /\ newest' = s
  BY DEF Appear
<1>3. /\ s \in Nat /\ s > 0 /\ newest \in Nat /\ newest <= s
      /\ \A y \in Items : source'[y] = IF y = x THEN s ELSE source[y]
  BY <1>1, <1>2 DEF NextStamps, Stamps, Views
<1>4. /\ poller' = poller /\ vanished' = vanished /\ deleted' = deleted
      /\ rows' = rows /\ job' = job /\ failed' = failed /\ lapses' = lapses
  BY DEF Appear, rowVars, faultVars
<1>5. /\ \A y \in Items : vanished[y] \in Nat
      /\ \A y \in Items : source[y] \in Int
  BY <1>1 DEF Views
<1>6. \A y \in Items : vanished'[y] <= newest' /\ (source'[y] > 0 => vanished'[y] <= source'[y])
  <2>1. \A y \in Items : vanished[y] <= newest /\ (source[y] > 0 => vanished[y] <= source[y])
    BY DEF GoneInv
  <2> QED BY <1>2, <1>3, <1>4, <1>5, <2>1
<1>7. \A y \in Items : source'[y] <= 0 => source[y] <= 0 BY <1>3
<1>8. TellsDeletions' => TellsDeletions
  <2>1. \A y \in Items : source[y] # 0 => source'[y] # 0 BY <1>3
  <2>2. Fits' => Fits BY <1>1, <1>4, <2>1, FitsBefore
  <2> QED BY <1>4, <2>2 DEF TellsDeletions
<1>9. \A k \in Instances : GoneOf(job[k]) => GoneOf(job[k])' BY <1>4, <1>7 DEF GoneOf
<1> QED BY <1>4, <1>6, <1>7, <1>8, <1>9 DEF GoneInv

\* What is stored or listed of an item is not later than what it vanishes with.
LEMMA GoneVanish ==
    ASSUME IInv, GoneInv, NEW x \in Items, Vanish(x)
    PROVE  GoneInv'
<1>1. /\ source \in Views /\ newest \in Stamps /\ TypeOK /\ Bounded
      /\ vanished \in [Items -> 0 .. MaxStamp] /\ poller.kind = "set" /\ source[x] > 0
      /\ deleted \subseteq Events
  BY DEF IInv, TypeOK, Vanish
<1>2. /\ Grown
      /\ \A p \in Instances \cup {Table}, y \in Items : rows[p][y] \in Nat
      /\ \A k \in Instances, y \in Items : job[k].view[y] \in Int /\ job[k].known[y] \in Nat
  BY <1>1, SetTypes, SetParts
<1>3. /\ newest \in Nat
      /\ \A y \in Items : source[y] \in Int /\ vanished[y] \in Nat
      /\ \A y \in Items : source'[y] = IF y = x THEN -1 ELSE source[y]
      /\ \A y \in Items : vanished'[y] = IF y = x THEN source[x] ELSE vanished[y]
      /\ source[x] <= newest
  BY <1>1 DEF Vanish, Stamps, Views, Bounded
<1>4. /\ poller' = poller /\ newest' = newest /\ deleted' = deleted
      /\ rows' = rows /\ job' = job /\ failed' = failed /\ lapses' = lapses
  BY DEF Vanish, rowVars, faultVars
<1>5. \A y \in Items : vanished[y] <= newest /\ (source[y] > 0 => vanished[y] <= source[y])
  BY DEF GoneInv
<1>6. \A y \in Items : vanished[y] <= vanished'[y] BY <1>1, <1>3, <1>5
<1>7. \A y \in Items : vanished'[y] \in Int BY <1>3
<1>8. \A y \in Items : vanished'[y] <= newest' /\ (source'[y] > 0 => vanished'[y] <= source'[y])
  BY <1>3, <1>4, <1>5
<1>9. TellsDeletions' => TellsDeletions
  <2>1. \A y \in Items : source[y] # 0 => source'[y] # 0 BY <1>3
  <2>2. Fits' => Fits BY <1>1, <1>4, <2>1, FitsBefore
  <2> QED BY <1>4, <2>2 DEF TellsDeletions
<1>10. ASSUME TellsDeletions, NEW y \in Items, source'[y] <= 0
       PROVE  rows[Table][y] <= vanished'[y]
  <2>1. CASE y = x BY <1>1, <1>2, <1>3, <2>1 DEF Grown
  <2>2. CASE y # x
    <3>1. rows[Table][y] <= vanished[y] BY <1>3, <1>10, <2>2 DEF GoneInv
    <3> QED BY <1>3, <2>2, <3>1
  <2> QED BY <2>1, <2>2
<1>11. ASSUME TellsDeletions, NEW k \in Instances PROVE GoneOf(job[k])'
  <2>1. GoneOf(job[k]) BY <1>11 DEF GoneInv
  <2>2. \A y \in Items : source[y] > 0 => job[k].view[y] <= source[y]
    BY <1>2 DEF Grown, GrownOf
  <2>3. ASSUME NEW y \in Items, source'[y] <= 0, job[k].pc \in {"listed", "mark", "sift", "tell"}
        PROVE  job[k].view[y] <= vanished'[y]
    <3>1. CASE y = x BY <1>1, <1>3, <2>2, <3>1
    <3>2. CASE y # x
      <4>1. job[k].view[y] <= vanished[y] BY <1>3, <2>1, <2>3, <3>2 DEF GoneOf
      <4> QED BY <1>3, <3>2, <4>1
    <3> QED BY <3>1, <3>2
  <2>4. \A y \in Items : \A n \in Int : n <= vanished[y] => n <= vanished'[y]
    BY <1>3, <1>6, <1>7
  <2>5. job[k].todo \subseteq Items BY <1>1 DEF TypeOK, Jobs
  <2>6. job[k].pc = "listed" =>
           \A y \in Items : job[k].view[y] <= 0 => rows[Table][y] <= vanished'[y]
    BY <1>2, <2>1, <2>4 DEF GoneOf
  <2>7. job[k].pc \in {"mark", "sift", "tell"} =>
           \A y \in Items : job[k].view[y] <= 0 => job[k].known[y] <= vanished'[y]
    BY <1>2, <2>1, <2>4 DEF GoneOf
  <2>8. job[k].pc = "prune" => \A y \in job[k].todo : job[k].known[y] <= vanished'[y]
    <3> SUFFICES ASSUME job[k].pc = "prune", NEW y \in job[k].todo
                 PROVE  job[k].known[y] <= vanished'[y]
      OBVIOUS
    <3>1. y \in Items BY <2>5
    <3>a. job[k].known[y] \in Nat BY <1>2, <3>1
    <3>2. job[k].known[y] <= vanished[y] BY <2>1 DEF GoneOf
    <3>3. job[k].known[y] \in Int BY <3>a
    <3> QED BY <2>4, <3>1, <3>2, <3>3
  <2> QED BY <1>4, <2>3, <2>6, <2>7, <2>8 DEF GoneOf
<1>12. ASSUME TellsDeletions, NEW d \in deleted PROVE d[2] <= vanished'[d[1]]
  <2>1. d \in Events BY <1>1
  <2>2. d[1] \in Items /\ d[2] \in Int BY <2>1 DEF Events, Stamps
  <2>3. d[2] <= vanished[d[1]] BY <1>12 DEF GoneInv
  <2>4. \A n \in Int, y \in Items : n <= vanished[y] => n <= vanished'[y]
    <3> SUFFICES ASSUME NEW n \in Int, NEW y \in Items, n <= vanished[y]
                 PROVE  n <= vanished'[y]
      OBVIOUS
    <3>1. vanished[y] \in Int /\ vanished'[y] \in Int /\ vanished[y] <= vanished'[y]
      BY <1>3, <1>6, <1>7
    <3> QED BY <3>1
  <2> QED BY <2>2, <2>3, <2>4
<1>13. poller.kind = "set" /\ ~poller.deletes => deleted = {} BY DEF GoneInv
<1> QED BY <1>1, <1>4, <1>8, <1>9, <1>10, <1>11, <1>12, <1>13 DEF GoneInv

\* Time and crashes tell of nothing.
LEMMA GoneTick ==
    ASSUME IInv, GoneInv, Tick
    PROVE  GoneInv'
<1>1. lapses \in Nat BY DEF IInv, TypeOK
<1>2. UNCHANGED sourceVars /\ rows' = rows /\ job' = job /\ failed' = failed
  BY DEF Tick, rowVars, faultVars
<1>3. lapses' = lapses \/ lapses' = lapses + 1 BY DEF Tick, faultVars
<1>4. lapses' = 0 => lapses = 0 BY <1>1, <1>3
<1> QED BY <1>2, <1>4, GoneFrame DEF GoneInv

LEMMA GoneCrash ==
    ASSUME IInv, GoneInv, NEW i \in Instances, Crash(i)
    PROVE  GoneInv'
<1> DEFINE j == [Idle EXCEPT !.pc = "dead"]
<1>1. /\ job \in [Instances -> Jobs]
      /\ rows \in [Instances \cup {Table} -> [Items -> 0 .. MaxStamp]]
  BY DEF IInv, TypeOK
<1>2. UNCHANGED sourceVars /\ failed' = failed /\ lapses' = lapses BY DEF Crash
<1>3. rows'[Table] = rows[Table] BY <1>1, PollersAssumption DEF Crash, Table
<1>4. j.pc = "dead" BY IdlePoll
<1>5. job' = [job EXCEPT ![i] = j] BY DEF Crash
<1> HIDE DEF j
<1>6. GoneOf(j) BY <1>4 DEF GoneOf
<1>7. ASSUME TellsDeletions, NEW k \in Instances PROVE GoneOf(job'[k])
  <2>1. job'[k] = IF k = i THEN j ELSE job[k] BY <1>1, <1>5
  <2> QED BY <1>6, <1>7, <2>1 DEF GoneInv
<1> QED BY <1>2, <1>3, <1>7, GoneFrame

\* Every step keeps it.
LEMMA GoneStep ==
    ASSUME IInv, GoneInv, [Next]_vars
    PROVE  GoneInv'
<1>1. CASE UNCHANGED vars
  <2>1. UNCHANGED sourceVars /\ rows' = rows /\ job' = job /\ failed' = failed /\ lapses' = lapses
    BY <1>1 DEF vars, rowVars, faultVars
  <2> QED BY <2>1, GoneFrame DEF GoneInv
<1>2. ASSUME NEW i \in Instances,
             \/ Begin(i) \/ GiveUp(i) \/ Crash(i) \/ List(i) \/ ListElsewhere(i) \/ ReadKnown(i)
             \/ MarkFirst(i) \/ TellSifted(i) \/ EndSift(i) \/ Finish(i)
      PROVE  GoneInv'
  BY <1>2, GoneMoves, GoneCrash, GoneList, GoneReadKnown, GoneEndSift
<1>3. ASSUME NEW i \in Instances,
             \/ ReadCursor(i) \/ ReadCursorFails(i) \/ Baseline(i) \/ BaselineStores(i)
             \/ EndBatch(i) \/ StoreCursor(i) \/ StoreFired(i)
      PROVE  GoneInv'
  <2>1. UNCHANGED sourceVars
    BY <1>3 DEF ReadCursor, ReadCursorFails, Baseline, BaselineStores, EndBatch, StoreCursor,
                StoreFired
  <2>2. \/ poller.kind = "cursor"
        \/ job[i].pc \in {"baseline", "basecursor", "baseids", "basemark", "fire", "cursor", "ids"}
    BY <1>3 DEF ReadCursor, ReadCursorFails, Baseline, BaselineStores, EndBatch, StoreCursor,
                StoreFired
  <2>3. poller.kind = "cursor"
    BY <2>2 DEF IInv, Phases, PhasesOf, CursorSteps, BaseSteps
  <2> QED BY <2>1, <2>3, GoneCursor
<1>4. ASSUME NEW i \in Instances, NEW x \in Items, FireNext(i, x) \/ FireCut(i, x)
      PROVE  GoneInv'
  <2>1. UNCHANGED sourceVars /\ job[i].pc = "fire" BY <1>4 DEF FireNext, FireCut
  <2>2. poller.kind = "cursor"
    BY <2>1 DEF IInv, Phases, PhasesOf, CursorSteps, BaseSteps
  <2> QED BY <2>1, <2>2, GoneCursor
<1>5. ASSUME NEW i \in Instances, NEW x \in Items, Sift(i, x) \/ Prune(i, x) PROVE GoneInv'
  BY <1>5, GoneSift, GonePrune
<1>6. ASSUME NEW x \in Items, Appear(x) \/ Vanish(x) PROVE GoneInv'
  BY <1>6, GoneAppear, GoneVanish
<1>7. CASE Tick BY <1>7, GoneTick
<1> QED BY <1>1, <1>2, <1>3, <1>4, <1>5, <1>6, <1>7 DEF Next

\* Without failed statements, lapsed leases or a listing that is cut off, a flow
\* is told of a deletion only where the item is gone, or was since it was stored.
THEOREM DeletionsAreReal == Spec => []DeletedIsGone
<1>1. Init => GoneInv
  <2> SUFFICES ASSUME Init PROVE GoneInv
    OBVIOUS
  <2>1. IInv BY Initially
  <2>2. /\ deleted = {} /\ newest = 1 /\ rows[Table] = Nothing
        /\ \A i \in Instances : job[i] = Idle
        /\ \A x \in Items : vanished[x] = 0
    BY IdlePoll DEF Init
  <2>3. \A x \in Items : Nothing[x] = 0 BY IdlePoll
  <2>4. \A i \in Instances : GoneOf(job[i])
    <3>1. Idle.pc = "idle" BY IdlePoll
    <3> QED BY <2>2, <3>1 DEF GoneOf
  <2>5. \A x \in Items : source[x] \in Int BY <2>1 DEF IInv, TypeOK, Views
  <2> QED BY <2>2, <2>3, <2>4, <2>5 DEF GoneInv
<1>2. IInv /\ GoneInv /\ [Next]_vars => IInv' /\ GoneInv' BY StepKeeps, GoneStep
<1>3. Init => IInv BY Initially
<1>4. IInv /\ GoneInv => DeletedIsGone
  <2> SUFFICES ASSUME IInv, GoneInv, lapses = 0, failed = 0, Fits, NEW e \in deleted
               PROVE  vanished[e[1]] >= e[2]
    BY DEF DeletedIsGone
  <2>1. ProfileFits(poller) /\ deleted \subseteq Events /\ vanished \in [Items -> 0 .. MaxStamp]
    BY Profile DEF IInv, TypeOK
  <2>2. TellsDeletions BY <2>1 DEF GoneInv, TellsDeletions, ProfileFits
  <2>3. e[2] <= vanished[e[1]] BY <2>2 DEF GoneInv
  <2>4. e \in Events BY <2>1
  <2>5. e[1] \in Items /\ e[2] \in Int BY <2>4 DEF Events, Stamps
  <2> QED BY <2>1, <2>3, <2>5
<1> QED BY <1>1, <1>2, <1>3, <1>4, PTL DEF Spec
=============================================================================
