----------------------------- MODULE ReadRoutes -----------------------------
(***************************************************************************)
(* What the backend's reading routes answer: walks over lists that others  *)
(* write, and answers kept for a while.                                    *)
(***************************************************************************)
EXTENDS Naturals, FiniteSets

(***************************************************************************)
(* Walks over the backend's lists while others write the tables: by cursor *)
(* (routes/grants.ts, activity.ts, milestone-proof.ts, leaderboard.ts,     *)
(* utils/pagination.ts), by after_id (activity.ts) and by page number.     *)
(* Time is counted in ticks; a cursor holds whole milliseconds.            *)
(***************************************************************************)

CONSTANTS MaxId,    \* bound: rows have the ids (or addresses) 1..MaxId
          MaxTick,  \* bound: time, and reputation
          Fine,     \* ticks in a millisecond: 1 on sql.js, more on Postgres
          Limit     \* rows of a page

ASSUME PagesAssumption == {MaxId, MaxTick} \subseteq Nat /\ {Fine, Limit} \subseteq Nat \ {0}

\* Lists walked by cursor: the grants and the proofs of a contributor differ
\* from the activity in what may move a row while somebody walks.
ByTime == {"grants", "activity", "proofs"}
ByCursor == ByTime \cup {"leaders"}
\* What a contributor is the recipient of: grants by id or by their last change, and
\* the proofs the contributor submitted for them.
Theirs == {"their grants", "their grants by change", "their proofs"}
ByOffset ==
    {"grants by page", "contributors", "leaders by page", "proofs by page", "deliveries"}
        \cup Theirs
ListKinds == ByCursor \cup ByOffset \cup {"activity after"}
People == {"leaders", "contributors", "leaders by page"}
NoSecondKey == {"contributors", "their grants by change", "their proofs", "deliveries"}

VARIABLES
    list,   \* the list of this behaviour
    table,  \* id -> key (timestamp in ticks, or reputation) and hidden (blacklisted, or of
            \* a grant that has another recipient)
    tick,   \* the database's clock
    walk    \* where the client is, what it saw, see PageInit

pageVars == <<list, table, tick, walk>>
Ids == DOMAIN table

-----------------------------------------------------------------------------

\* ORDER BY.  The contributors are ordered by reputation alone, and theirs and the
\* deliveries of a webhook by time alone.
Before(r, s) ==
    CASE list \in {"activity after", "grants by page", "their grants"} -> r < s
      [] list \in {"leaders", "leaders by page"} ->
            \/ table[r].key > table[s].key
            \/ table[r].key = table[s].key /\ r < s
      [] list \in NoSecondKey -> table[r].key > table[s].key
      [] OTHER -> \/ table[r].key > table[s].key
                  \/ table[r].key = table[s].key /\ r > s

\* encodeCursor: a Date in milliseconds.
Millisecond(t) == t - (t % Fine)

\* Mutation: rows of the cursor's time are not asked for.
AfterTimeOnly(r, c) == table[r].key < c.ts
\* WHERE: what the query after the cursor may return.
AfterTimeCursor(r, c) ==
    \/ table[r].key < c.ts
    \/ table[r].key = c.ts /\ r < c.id
\* The leaderboard reads its cursor's reputation again.
AfterLeaderCursor(r, c) ==
    \/ table[r].key < table[c.id].key
    \/ table[r].key = table[c.id].key /\ r > c.id

Hits ==
    {r \in Ids :
        /\ ~(list \in {"leaders", "leaders by page"} \cup Theirs /\ table[r].hidden)
        /\ \/ walk.cursor.id = 0
           \/ list \in ByTime /\ AfterTimeCursor(r, walk.cursor)
           \/ list = "leaders" /\ AfterLeaderCursor(r, walk.cursor)
           \/ list = "activity after" /\ r > walk.cursor.id}

\* The orders the database may return them in: more than one if keys tie.
Orders(hits) ==
    {o \in [1..Cardinality(hits) -> hits] :
        /\ \A i, j \in DOMAIN o : i # j => o[i] # o[j]
        /\ \A i, j \in DOMAIN o : i < j => ~Before(o[j], o[i])}

-----------------------------------------------------------------------------

Show(page, cursor, more) ==
    walk' = [walk EXCEPT !.seen = @ \cup page, !.again = @ \cup (walk.seen \cap page),
                         !.cursor = cursor, !.cuts = @ \cup {cursor}, !.pages = @ + 1,
                         !.done = ~more]

\* One page after the cursor: limit + 1 rows are fetched to tell if there is more.
CursorPage(kinds) ==
    /\ ~walk.done /\ list \in kinds
    /\ \E o \in Orders(Hits) :
       LET more == Cardinality(Hits) > Limit
           page == {o[i] : i \in DOMAIN o \cap 1..Limit}
           last == o[Limit]
       IN Show(page, IF ~more THEN walk.cursor
                     ELSE [id |-> last, ts |-> Millisecond(table[last].key)], more)
    /\ UNCHANGED <<list, table, tick>>

\* ?page=n skips the rows of the pages before it.
NumberedPage(kinds) ==
    /\ ~walk.done /\ list \in kinds
    /\ \E o \in Orders(Hits) :
       LET skip == walk.pages * Limit
           page == {o[i] : i \in DOMAIN o \cap (skip + 1)..(skip + Limit)}
       IN Show(page, walk.cursor, Cardinality(Hits) > skip + Limit)
    /\ UNCHANGED <<list, table, tick>>
GrantsPage == CursorPage({"grants"}) \/ NumberedPage({"grants by page"})
ActivityPage == CursorPage({"activity", "activity after"})
LeadersPage == CursorPage({"leaders"}) \/ NumberedPage({"leaders by page"})
ProofsPage == CursorPage({"proofs"}) \/ NumberedPage({"proofs by page"})
ContributorsPage == NumberedPage({"contributors"})
DeliveriesPage == NumberedPage({"deliveries"})
RecipientGrantsPage == NumberedPage({"their grants", "their grants by change"})
RecipientProofsPage == NumberedPage({"their proofs"})

\* Time passes; a reconciliation, a proof or a grant's first synchronisation
\* inserts a row.
PassTick ==
    /\ tick < MaxTick /\ tick' = tick + 1
    /\ UNCHANGED <<list, table, walk>>
InsertRow(r) ==
    /\ ~walk.done
    /\ r = Cardinality(Ids \cup walk.gone) + 1 /\ r <= MaxId
    /\ table' = [s \in Ids \cup {r} |-> IF s \in Ids THEN table[s] ELSE
                   [key |-> IF list \in People THEN 0 ELSE tick, hidden |-> FALSE]]
    /\ UNCHANGED <<list, tick, walk>>
\* A synchronisation that changes a grant gives it a new updatedAt, an award
\* more reputation; the administrator hides people, and a synchronisation gives a grant
\* another recipient.  Drafts are deleted.
TouchRow(r) ==
    /\ ~walk.done /\ list \in {"grants", "their grants by change"} \cup People
    /\ table' = [table EXCEPT ![r].key = IF list \in People THEN @ + 1 ELSE tick]
    /\ table'[r].key <= MaxTick
    /\ walk' = [walk EXCEPT !.still = @ \ {r}]
    /\ UNCHANGED <<list, tick>>
HideRow(r) ==
    /\ ~walk.done /\ list \in People \cup Theirs
    /\ table' = [table EXCEPT ![r].hidden = ~@]
    /\ walk' = [walk EXCEPT !.still = @ \ {r}, !.gone = IF list \in Theirs THEN @ \cup {r} ELSE @]
    /\ UNCHANGED <<list, tick>>
DeleteRow(r) ==
    /\ ~walk.done /\ list \in {"grants", "grants by page"}
    /\ table' = [s \in Ids \ {r} |-> table[s]]
    /\ walk' = [walk EXCEPT !.still = @ \ {r}, !.gone = @ \cup {r}]
    /\ UNCHANGED <<list, tick>>

\* "still": rows there from the start and never touched; "cuts": the cursors used.
PageInit ==
    /\ list \in ListKinds /\ tick = 1
    /\ \E n \in 1..MaxId : \E keys \in [1..n -> 0..tick] :
          /\ table = [r \in 1..n |-> [key |-> keys[r], hidden |-> FALSE]]
          /\ walk = [cursor |-> [id |-> 0, ts |-> 0], cuts |-> {}, seen |-> {},
                     again |-> {}, pages |-> 0, done |-> FALSE, still |-> 1..n, gone |-> {}]

PageNext ==
    \/ GrantsPage \/ ActivityPage \/ LeadersPage \/ ProofsPage \/ ContributorsPage
    \/ RecipientGrantsPage \/ RecipientProofsPage \/ DeliveriesPage \/ PassTick
    \/ \E r \in 1..MaxId : InsertRow(r)
    \/ \E r \in Ids : TouchRow(r) \/ HideRow(r) \/ DeleteRow(r)

-----------------------------------------------------------------------------

Moved == (Ids \cup walk.gone) \ walk.still
Tied(r) == \E s \in Ids \ {r} : table[s].key = table[r].key

\* Nobody who stayed where they were is left out of a finished walk: by time,
\* but for the rows of a page's last millisecond; by reputation, although the
\* cursor moves with its row; by number, if nothing moved, or only came, where what is
\* new is listed first or last (and, where there is no second key, if no other row has
\* the same).
NobodyIsMissed ==
    walk.done => \A r \in walk.still :
        \/ r \in walk.seen
        \/ list \in ByTime /\ \E c \in walk.cuts :
              /\ c.ts = Millisecond(table[r].key)
              /\ \/ table[r].key # c.ts
                 \/ c.id \notin walk.still \/ table[c.id].key # c.ts
        \/ list \in {"grants by page", "their grants"} /\ \E s \in walk.gone : s < r
        \/ list = "their proofs" /\ walk.gone # {}
        \/ list \in {"contributors", "leaders by page", "their grants by change"} /\ Moved # {}
        \/ list \in NoSecondKey /\ Tied(r)

\* Nobody who stayed is shown twice, unless the row a leaderboard's cursor names
\* climbed since, or numbered pages were shifted by someone who moved.
NobodyIsRepeated ==
    \A r \in walk.again \cap walk.still :
        \/ list = "leaders" /\ \E c \in walk.cuts : c.id \in Moved
        \/ list = "their grants" /\ \E s \in walk.gone : s < r
        \/ list \in NoSecondKey \cup {"leaders by page", "proofs by page"} /\ Moved # {}
        \/ list \in NoSecondKey /\ Tied(r)

\* A walk over the pages of a list misses no row that stayed and repeats none, for the
\* routes and the changes that the two conjuncts name (pagination.ts, leaderboard-service.ts).
WalksAreFaithful == NobodyIsMissed /\ NobodyIsRepeated

-----------------------------------------------------------------------------
(***************************************************************************)
(* Answers the backend keeps for a while (services/response-cache): the    *)
(* feedback on a grant, dropped when somebody adds to it (routes/grants),  *)
(* and the statistics, which only time drops (routes/stats).               *)
(***************************************************************************)

CONSTANTS Author,         \* addresses that may give feedback, once each
          AnswerRequest,  \* requests that may be under way at once
          Ttl,            \* time an answer is kept
          MaxHours        \* bound: time

ASSUME AnswersAssumption == {Ttl, MaxHours} \subseteq Nat

VARIABLES
    key,       \* the answer of this behaviour: "feedback" or "stats"
    given,     \* rows: by author, how many
    kept,      \* the cached answer: authors in it, when it was read, its end
    hour,      \* Date.now()
    counter,   \* what each request is doing
    lastHeard  \* history: rows answered, the last answer served and
               \* what it lacked of them, overlaps

answerVars == <<key, given, kept, hour, counter, lastHeard>>
NoCounter == [step |-> "idle"]
Nothing == [of |-> {}, read |-> 0, until |-> 0]
Given == {a \in Author : given[a] > 0}

Start(q, job) ==
    /\ counter[q] = NoCounter
    /\ counter' = [counter EXCEPT ![q] = job]
    /\ lastHeard' = [lastHeard EXCEPT !.overlapped =
                    @ \/ \E p \in AnswerRequest : counter[p] # NoCounter]

-----------------------------------------------------------------------------

\* get(): an entry past its end is dropped; a hit is sent as it is.
GetHit(q) ==
    /\ counter[q] = NoCounter /\ kept # Nothing /\ kept.until >= hour
    /\ lastHeard' = [lastHeard EXCEPT !.served = [of |-> kept.of, read |-> kept.read, at |-> hour],
                              !.behind = {e[1] : e \in lastHeard.answered} \ kept.of]
    /\ UNCHANGED <<key, given, kept, hour, counter>>
\* A miss reads the rows (after a synchronisation of the grant) ...
GetMiss(q) ==
    /\ kept = Nothing \/ kept.until < hour
    /\ kept' = Nothing
    /\ Start(q, [step |-> "fill", of |-> Given, read |-> hour])
    /\ UNCHANGED <<key, given, hour>>
\* ... and keeps what it read, whatever was dropped meanwhile.
FillAnswer(q) ==
    LET c == counter[q] IN
    /\ c.step = "fill"
    /\ kept' = [of |-> c.of, read |-> c.read, until |-> hour + Ttl]
    /\ counter' = [counter EXCEPT ![q] = NoCounter]
    /\ UNCHANGED <<key, given, hour, lastHeard>>

\* POST feedback: a read refuses a second one; so does the unique key.
BeginFeedback(q, a) ==
    /\ given[a] = 0
    /\ Start(q, [step |-> "insert", by |-> a])
    /\ UNCHANGED <<key, given, kept, hour>>
InsertFeedback(q) ==
    LET c == counter[q] IN
    /\ c.step = "insert"
    /\ IF given[c.by] > 0
       THEN UNCHANGED given /\ counter' = [counter EXCEPT ![q] = NoCounter]
       ELSE /\ given' = [given EXCEPT ![c.by] = @ + 1]
            /\ counter' = [counter EXCEPT ![q].step = "drop"]
    /\ UNCHANGED <<key, kept, hour, lastHeard>>
\* Mutation: the stored answer stays.
NotDropped == kept
AfterDrop == IF key = "feedback" THEN Nothing ELSE kept
DropAnswer(q) ==
    LET c == counter[q] IN
    /\ c.step = "drop"
    /\ kept' = AfterDrop
    /\ counter' = [counter EXCEPT ![q] = NoCounter]
    /\ lastHeard' = [lastHeard EXCEPT !.answered = @ \cup {<<c.by, hour>>}]
    /\ UNCHANGED <<key, given, hour>>

PassHour ==
    /\ hour < MaxHours /\ hour' = hour + 1
    /\ UNCHANGED <<key, given, kept, counter, lastHeard>>

AnswerInit ==
    /\ key \in {"feedback", "stats"}
    /\ given = [a \in Author |-> 0] /\ kept = Nothing /\ hour = 1
    /\ counter = [q \in AnswerRequest |-> NoCounter]
    /\ lastHeard = [answered |-> {}, served |-> [of |-> {}, read |-> 0, at |-> 0],
                behind |-> {}, overlapped |-> FALSE]

AnswerNext ==
    \/ PassHour
    \/ \E q \in AnswerRequest :
          \/ GetHit(q) \/ GetMiss(q) \/ FillAnswer(q) \/ InsertFeedback(q) \/ DropAnswer(q)
          \/ \E a \in Author : BeginFeedback(q, a)

-----------------------------------------------------------------------------

\* An author has one row however their requests race.  An answer from the cache
\* has every row answered before it was read; and the feedback's has every row
\* answered, unless a request that read earlier could fill the cache later
\* (grants.ts:252-303, 379-399).
ServedAnswersAreHonest ==
    /\ \A a \in Author : given[a] <= 1
    /\ \A e \in lastHeard.answered : e[2] < lastHeard.served.read => e[1] \in lastHeard.served.of
    /\ key = "feedback" /\ ~lastHeard.overlapped => lastHeard.behind = {}
=============================================================================
