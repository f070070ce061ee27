---------------------------- MODULE EventStream ----------------------------
(***************************************************************************)
(* GET /events (routes/events.ts): a connection polls the activities table *)
(* every five seconds for rows above the last id it knows, and writes them *)
(* as server-sent events.  The timer does not wait for an earlier poll.    *)
(* Rows get their id when they are inserted and are visible when they are  *)
(* committed, which may be in another order.  A client that was cut off    *)
(* connects again with the id of the last event it received.              *)
(***************************************************************************)
EXTENDS Naturals, FiniteSetsExt, SequencesExt

CONSTANTS MaxRows,         \* bound: activity rows
          Poll,            \* polls of a connection that may be under way at once
          Take,            \* rows one poll reads at most
          MaxConnections,  \* CONNECTION_LIMIT_PER_IP
          MaxCuts          \* bound: connections lost, and queries that fail

ASSUME StreamAssumption == {MaxRows, Take, MaxConnections, MaxCuts} \subseteq Nat

VARIABLES
    rows,     \* activities in the order of their ids: streamed type or not, committed or not
    last,     \* lastEventId of the connection
    polling,  \* what each poll under way read; NotPolling otherwise
    sent,     \* ids the client received, in order
    open,     \* the client is connected
    others,   \* other connections of the same address
    counted,  \* connectionsByIp of that address
    past      \* history: ids passed over, whether polls overlapped, cuts

streamVars == <<rows, last, polling, sent, open, others, counted, past>>
connection == <<last, polling, sent, open, others, counted, past>>

NotPolling == <<>>
Visible == {i \in DOMAIN rows : rows[i].committed}
FirstOf(S) == SetToSortSeq({i \in S : Cardinality({j \in S : j <= i}) <= Take}, <)

-----------------------------------------------------------------------------

\* A row of a type in STREAMED_TYPES, or of another one, is inserted.
Insert(streamed) ==
    /\ Len(rows) < MaxRows
    /\ rows' = Append(rows, [streamed |-> streamed, committed |-> FALSE])
    /\ UNCHANGED connection
Commit(i) ==
    /\ rows' = [rows EXCEPT ![i].committed = TRUE]
    /\ UNCHANGED connection

\* incrementConnections() refuses an address that has reached the limit.
HasRoom == counted < MaxConnections

Connect ==
    /\ ~open /\ HasRoom
    /\ open' = TRUE
    /\ counted' = counted + 1
    /\ last' = IF sent = <<>> THEN 0 ELSE Last(sent)
    /\ UNCHANGED <<rows, polling, sent, others, past>>

OtherConnects ==
    /\ HasRoom
    /\ others' = others + 1 /\ counted' = counted + 1
    /\ UNCHANGED <<rows, last, polling, sent, open, past>>

\* decrementConnections() on "close"; a counter that reaches 0 is deleted.
Closed == IF counted <= 1 THEN 0 ELSE counted - 1

OtherCloses ==
    /\ others > 0
    /\ others' = others - 1 /\ counted' = Closed
    /\ UNCHANGED <<rows, last, polling, sent, open, past>>

\* The timers are cleared; what polls under way read is written to nobody.
Cut ==
    /\ open /\ past.cuts < MaxCuts
    /\ open' = FALSE /\ counted' = Closed
    /\ polling' = [p \in Poll |-> NotPolling]
    /\ past' = [past EXCEPT !.cuts = @ + 1]
    /\ UNCHANGED <<rows, last, sent, others>>

\* One round of the timer: the query.  One that finds nothing changes nothing.
Query(p) ==
    LET found == FirstOf({i \in Visible : i > last}) IN
    /\ open /\ polling[p] = NotPolling
    /\ found # <<>>
    /\ polling' = [polling EXCEPT ![p] = found]
    /\ past' = [past EXCEPT !.over = @ \cup ((1..Last(found)) \ Visible),
                            !.overlapped =
                   @ \/ \E q \in Poll \ {p} : polling[q] # NotPolling]
    /\ UNCHANGED <<rows, last, sent, open, others, counted>>

\* Mutation: a row that is left out does not count.
AfterStreamed(l, i) == IF rows[i].streamed THEN i ELSE l
\* Its answer: streamed rows are written, and lastEventId follows the loop,
\* set to each id written and raised to each id left out.
AfterRow(l, i) == IF rows[i].streamed \/ i > l THEN i ELSE l
Answer(p) ==
    /\ polling[p] # NotPolling
    /\ sent' = sent \o SelectSeq(polling[p], LAMBDA i : rows[i].streamed)
    /\ last' = FoldLeft(AfterRow, last, polling[p])
    /\ polling' = [polling EXCEPT ![p] = NotPolling]
    /\ UNCHANGED <<rows, open, others, counted, past>>

\* The query rejects: the error is logged and nothing changes.
QueryFails(p) ==
    /\ polling[p] # NotPolling /\ past.cuts < MaxCuts
    /\ polling' = [polling EXCEPT ![p] = NotPolling]
    /\ past' = [past EXCEPT !.cuts = @ + 1]
    /\ UNCHANGED <<rows, last, sent, open, others, counted>>

-----------------------------------------------------------------------------

StreamInit ==
    /\ rows = <<>> /\ last = 0 /\ sent = <<>>
    /\ polling = [p \in Poll |-> NotPolling]
    /\ open = FALSE /\ others = 0 /\ counted = 0
    /\ past = [over |-> {}, overlapped |-> FALSE, cuts |-> 0]

StreamNext ==
    \/ \E streamed \in BOOLEAN : Insert(streamed)
    \/ \E i \in DOMAIN rows \ Visible : Commit(i)
    \/ Connect \/ OtherConnects \/ OtherCloses \/ Cut
    \/ \E p \in Poll : Query(p) \/ Answer(p) \/ QueryFails(p)

\* The timer runs while the connection is open, the database answers, and a
\* client that was cut off tries again (EventSource does) when there is room.
StreamFairness ==
    /\ \A p \in Poll : WF_streamVars(Query(p)) /\ WF_streamVars(Answer(p))
    /\ SF_streamVars(Connect)

-----------------------------------------------------------------------------

\* Nothing at or below lastEventId was lost: the client has received every
\* such streamed row, but for one whose commit came after a poll had read
\* higher ids (events.ts:98-133).  Overlapping polls, lost connections and
\* failed queries included.
NothingLostBelowLast ==
    \A i \in Visible :
        i <= last /\ rows[i].streamed => i \in ToSet(sent) \cup past.over

\* Without overlapping polls the client sees each event once, in order, over
\* all its connections.
SentInOrder ==
    ~past.overlapped => \A i, j \in DOMAIN sent : i < j => sent[i] < sent[j]

\* connectionsByIp counts the open connections, so that a client that was
\* cut off is refused only for connections that exist (events.ts:38-52).
CountsConnections == counted = others + (IF open THEN 1 ELSE 0)

\* A committed row reaches a client that keeps connecting, unless it was
\* passed over or the address is full of other connections.
RowsAreStreamed ==
    \A i \in 1..MaxRows :
        []<>(i \in Visible /\ rows[i].streamed
                => i \in ToSet(sent) \cup past.over \/ others = MaxConnections)
=============================================================================
