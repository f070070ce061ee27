------------------------------ MODULE SdkEvents ------------------------------
(***************************************************************************)
(* subscribeToEvents() of the client SDK: a subscription opens a           *)
(* WebSocket, or polls getEvents() from a cursor; a heartbeat timer starts *)
(* it again when nothing was heard for a while, a failed poll after a      *)
(* delay.  The handles of the poll timer, the heartbeat timer and the      *)
(* socket are fields of the SDK object, so that all subscriptions of one   *)
(* object share them, and a timer whose handle was overwritten still fires.*)
(***************************************************************************)
EXTENDS Integers, FiniteSetsExt, SequencesExt

CONSTANTS Sub,            \* subscriptions of one SDK object
          Request,        \* polls of a subscription that may be under way
          HasSocket,      \* WebSocket is defined and the URL has a socket form
          MaxRetries,     \* maxRetries
          MaxEmitted,     \* bound: events of the contract
          PageLimit,      \* limit of a getEvents() page
          MaxEventFaults  \* bound: failed polls, silences, callbacks that throw

ASSUME EventsAssumption ==
    /\ "nobody" \notin Sub
    /\ HasSocket \in BOOLEAN /\ PageLimit \in Nat \ {0}
    /\ {MaxRetries, MaxEmitted, MaxEventFaults} \subseteq Nat

VARIABLES
    emitted,     \* events of the contract so far; their paging tokens are 1, 2, ...
    subOf,       \* the closure of each subscription
    asking,      \* cursors of the polls under way
    heardBy,     \* events each callback got, in order
    missed,      \* history: events a throwing callback kept from being called
    pollTimer,   \* eventPollHandle: its owner, what it starts, whether it is armed
    heartTimer,  \* eventHeartbeatHandle
    orphans,     \* armed timers whose handle was overwritten
    eventWs,     \* the subscription whose socket the field holds
    eventFaults

eventVars == <<emitted, subOf, asking, heardBy, missed, pollTimer, heartTimer, orphans,
               eventWs, eventFaults>>

Nobody == "nobody"
NoFetch == -1
TimerKind == {"start", "poll", "heart"}
NoTimer == [of |-> Nobody, kind |-> "poll", armed |-> FALSE]

\* A closure before and after its life: `active`, cursor, retryCount, seenIds,
\* useWebSocket, its socket and the timer that gives the socket up.
IdleSub == [state |-> "idle", cursor |-> 0, retries |-> 0, seen |-> {}, useSocket |-> TRUE,
         socket |-> "none", giveUp |-> FALSE]

ActiveSub(s) == subOf[s].state = "active"
Free(s) == {q \in Request : asking[s][q] = NoFetch}

\* clearTimeout() of both handles, and a socket without handlers that closes.
Cleaned(subs) ==
    IF eventWs = Nobody THEN subs ELSE [subs EXCEPT ![eventWs].socket = "none"]
cleanup == pollTimer' = NoTimer /\ heartTimer' = NoTimer

\* A new timeout in a handle; the one it held fires all the same.
Orphaned(handle, cleared) ==
    IF ~cleared /\ handle.armed
    THEN [orphans EXCEPT ![handle.of][handle.kind] = @ + 1] ELSE orphans
Armed(s, kind) == [of |-> s, kind |-> kind, armed |-> TRUE]

-----------------------------------------------------------------------------

\* start(): everything is cleared; a socket is opened where there is one,
\* otherwise the first poll goes out.
StartSub(s, subs) ==
    /\ cleanup
    /\ \/ /\ HasSocket /\ subs[s].useSocket
          /\ eventWs' = s
          /\ subOf' = [Cleaned(subs) EXCEPT ![s].socket = "opening", ![s].giveUp = TRUE]
          /\ UNCHANGED asking
       \/ /\ ~(HasSocket /\ subs[s].useSocket)
          /\ eventWs' = Nobody
          /\ subOf' = Cleaned(subs)
          /\ \E q \in Free(s) : asking' = [asking EXCEPT ![s][q] = subs[s].cursor]

subscribeToEvents(s) ==
    /\ subOf[s].state = "idle"
    /\ StartSub(s, [subOf EXCEPT ![s].state = "active"])
    /\ UNCHANGED <<emitted, heardBy, missed, orphans, eventFaults>>

\* The function that subscribeToEvents() returns.
Unsubscribe(s) ==
    /\ ActiveSub(s)
    /\ cleanup
    /\ subOf' = Cleaned([subOf EXCEPT ![s].state = "closed"])
    /\ eventWs' = Nobody
    /\ UNCHANGED <<emitted, asking, heardBy, missed, orphans, eventFaults>>

\* The contract emits an event (external).
EmitEvent ==
    /\ emitted < MaxEmitted
    /\ emitted' = emitted + 1
    /\ UNCHANGED <<subOf, asking, heardBy, missed, pollTimer, heartTimer, orphans, eventWs,
                   eventFaults>>

-----------------------------------------------------------------------------

\* scheduleReconnect(): a new start after a delay, or the end.
Reconnect(s, subs, handle, cleared) ==
    IF subs[s].retries + 1 > MaxRetries
    THEN /\ subOf' = [subs EXCEPT ![s].retries = @ + 1, ![s].state = "closed"]
         /\ pollTimer' = handle /\ UNCHANGED orphans
    ELSE /\ subOf' = [subs EXCEPT ![s].retries = @ + 1]
         /\ pollTimer' = Armed(s, "start")
         /\ orphans' = Orphaned(handle, cleared)

\* Events as they come: in the order of their tokens.
InOrder(events) ==
    CHOOSE row \in [1..Cardinality(events) -> events] :
        /\ ToSet(row) = events
        /\ \A i, j \in DOMAIN row : i < j => row[i] < row[j]

\* The callback is called with each new event and throws at the one numbered
\* `thrown`, if any: the cursor and seenIds have already moved on.
Delivered(s, new, thrown) ==
    /\ heardBy' = [heardBy EXCEPT ![s] = @ \o InOrder({e \in new : e < thrown})]
    /\ missed' = [missed EXCEPT ![s] = @ \union {e \in new : e >= thrown}]

CursorAfter(s, new, saw) ==
    [subOf EXCEPT ![s].cursor = Max({@} \union new), ![s].retries = 0, ![s].seen = @ \union saw]

NeverThrown == MaxEmitted + 1

EventPage(cursor) == cursor + 1 .. Min({cursor + PageLimit, emitted})

\* poll(): getEvents() answers.
AnswerEvents(s, q, thrown) ==
    LET cursor == asking[s][q]
        new == EventPage(cursor) \ subOf[s].seen
        next == CursorAfter(s, new, new)
    IN
    /\ cursor # NoFetch
    /\ asking' = [asking EXCEPT ![s][q] = NoFetch]
    /\ \/ /\ ~ActiveSub(s) /\ thrown = NeverThrown
          /\ UNCHANGED <<subOf, heardBy, missed, pollTimer, heartTimer, orphans, eventFaults>>
       \/ /\ ActiveSub(s)
          /\ heartTimer' = Armed(s, "heart")
          /\ Delivered(s, new, thrown)
          /\ \/ /\ thrown = NeverThrown
                /\ subOf' = next
                /\ pollTimer' = Armed(s, "poll") /\ orphans' = Orphaned(pollTimer, FALSE)
                /\ UNCHANGED eventFaults
             \/ /\ thrown \in new /\ eventFaults < MaxEventFaults
                /\ eventFaults' = eventFaults + 1
                /\ Reconnect(s, next, pollTimer, FALSE)
    /\ UNCHANGED <<emitted, eventWs>>

\* getEvents() fails.
FailEvents(s, q) ==
    /\ asking[s][q] # NoFetch /\ eventFaults < MaxEventFaults
    /\ eventFaults' = eventFaults + 1
    /\ asking' = [asking EXCEPT ![s][q] = NoFetch]
    /\ \/ (~ActiveSub(s) /\ UNCHANGED <<subOf, pollTimer, orphans>>)
       \/ (ActiveSub(s) /\ Reconnect(s, subOf, pollTimer, FALSE))
    /\ UNCHANGED <<emitted, heardBy, missed, heartTimer, eventWs>>

-----------------------------------------------------------------------------
(* Timers.  The one a handle holds fires and stays in it; an orphan fires. *)

Fires(s, kind, held, handle) ==
    \/ held /\ handle = Armed(s, kind) /\ UNCHANGED orphans
    \/ ~held /\ orphans[s][kind] > 0 /\ orphans' = [orphans EXCEPT ![s][kind] = @ - 1]

Spent(handle, held) == IF held THEN [handle EXCEPT !.armed = FALSE] ELSE handle

\* The delay of scheduleReconnect() is over.
FireStart(s, held) ==
    /\ Fires(s, "start", held, pollTimer)
    /\ \/ /\ ~ActiveSub(s)
          /\ pollTimer' = Spent(pollTimer, held)
          /\ UNCHANGED <<subOf, asking, heartTimer, eventWs>>
       \/ ActiveSub(s) /\ StartSub(s, subOf)
    /\ UNCHANGED <<emitted, heardBy, missed, eventFaults>>

\* The poll interval is over.
FirePoll(s, held) ==
    /\ Fires(s, "poll", held, pollTimer)
    /\ pollTimer' = Spent(pollTimer, held)
    /\ \/ (~ActiveSub(s) /\ UNCHANGED asking)
       \/ /\ ActiveSub(s)
          /\ \E q \in Free(s) : asking' = [asking EXCEPT ![s][q] = subOf[s].cursor]
    /\ UNCHANGED <<emitted, subOf, heardBy, missed, heartTimer, eventWs, eventFaults>>

\* Nothing was heard for heartbeatTimeoutMs.  resetHeartbeat() clears the
\* handle it overwrites: a heartbeat is never an orphan.
FireHeartbeat(s) ==
    /\ heartTimer = Armed(s, "heart")
    /\ \/ /\ ~ActiveSub(s)
          /\ heartTimer' = Spent(heartTimer, TRUE)
          /\ UNCHANGED <<subOf, pollTimer, orphans, eventWs, eventFaults>>
       \/ /\ ActiveSub(s) /\ eventFaults < MaxEventFaults
          /\ eventFaults' = eventFaults + 1
          /\ heartTimer' = NoTimer /\ eventWs' = Nobody
          /\ Reconnect(s, Cleaned(subOf), NoTimer, TRUE)
    /\ UNCHANGED <<emitted, asking, heardBy, missed>>

-----------------------------------------------------------------------------
(* tryWebSocket()                                                          *)

OpenSocket(s) ==
    /\ subOf[s].socket = "opening"
    /\ subOf' = [subOf EXCEPT ![s].socket = "open", ![s].giveUp = FALSE]
    /\ heartTimer' = Armed(s, "heart")
    /\ UNCHANGED <<emitted, asking, heardBy, missed, pollTimer, orphans, eventWs, eventFaults>>

\* onmessage: what throws is swallowed, the rest of the message with it.
SocketMessage(s, thrown) ==
    LET new == EventPage(subOf[s].cursor) IN
    /\ subOf[s].socket = "open" /\ ActiveSub(s) /\ new # {}
    /\ thrown = NeverThrown \/ (thrown \in new /\ eventFaults < MaxEventFaults)
    /\ eventFaults' = IF thrown = NeverThrown THEN eventFaults ELSE eventFaults + 1
    /\ heartTimer' = Armed(s, "heart")
    /\ subOf' = CursorAfter(s, new, {})
    /\ Delivered(s, new, thrown)
    /\ UNCHANGED <<emitted, asking, pollTimer, orphans, eventWs>>

\* onerror or onclose: polling from now on.
SocketFails(s) ==
    /\ subOf[s].socket # "none"
    /\ subOf' = [subOf EXCEPT ![s].socket = "none", ![s].giveUp = FALSE, ![s].useSocket = FALSE]
    /\ eventWs' = Nobody
    /\ \E q \in Free(s) : asking' = [asking EXCEPT ![s][q] = subOf[s].cursor]
    /\ UNCHANGED <<emitted, heardBy, missed, pollTimer, heartTimer, orphans, eventFaults>>

\* The socket did not open within five seconds.
GiveUpSocket(s) ==
    /\ subOf[s].giveUp
    /\ IF ActiveSub(s)
       THEN /\ cleanup /\ eventWs' = Nobody
            /\ subOf' = Cleaned([subOf EXCEPT ![s].giveUp = FALSE, ![s].useSocket = FALSE])
            /\ \E q \in Free(s) : asking' = [asking EXCEPT ![s][q] = subOf[s].cursor]
       ELSE /\ subOf' = [subOf EXCEPT ![s].giveUp = FALSE]
            /\ UNCHANGED <<asking, pollTimer, heartTimer, eventWs>>
    /\ UNCHANGED <<emitted, heardBy, missed, orphans, eventFaults>>

-----------------------------------------------------------------------------

EventInit ==
    /\ emitted = 0 /\ subOf = [s \in Sub |-> IdleSub]
    /\ asking = [s \in Sub |-> [q \in Request |-> NoFetch]]
    /\ heardBy = [s \in Sub |-> <<>>] /\ missed = [s \in Sub |-> {}]
    /\ pollTimer = NoTimer /\ heartTimer = NoTimer
    /\ orphans = [s \in Sub |-> [k \in TimerKind |-> 0]]
    /\ eventWs = Nobody /\ eventFaults = 0

Timers(s) == \E held \in BOOLEAN : FireStart(s, held) \/ FirePoll(s, held)
RpcAnswers(s) == \E q \in Request : AnswerEvents(s, q, NeverThrown)
Sockets(s) == OpenSocket(s) \/ SocketMessage(s, NeverThrown)

EventNext ==
    \/ EmitEvent
    \/ \E s \in Sub :
        \/ subscribeToEvents(s) \/ Unsubscribe(s) \/ Timers(s) \/ FireHeartbeat(s)
        \/ \E thrown \in 1..NeverThrown :
            \/ SocketMessage(s, thrown)
            \/ \E q \in Request : AnswerEvents(s, q, thrown)
        \/ \E q \in Request : FailEvents(s, q)
        \/ OpenSocket(s) \/ SocketFails(s) \/ GiveUpSocket(s)

-----------------------------------------------------------------------------

\* A callback gets every event at most once and in order, and none is passed
\* over but those a throwing callback cut off: whatever polls overlap, the
\* cursor covers what was heard.
HeardInOrder ==
    \A s \in Sub :
        /\ \A i, j \in DOMAIN heardBy[s] : i < j => heardBy[s][i] < heardBy[s][j]
        /\ 1..subOf[s].cursor = ToSet(heardBy[s]) \union missed[s]
        /\ eventFaults = 0 => missed[s] = {}

\* A subscription that was ended, by its owner or after too many failures,
\* is never heard of again: its timers and answers find it inactive.
ClosedIsSilent ==
    [][\A s \in Sub : subOf[s].state = "closed" =>
            heardBy'[s] = heardBy[s] /\ subOf'[s].state = "closed"]_<<heardBy, subOf>>

\* Timers fire, polls and sockets are answered.
EventFairness ==
    \A s \in Sub :
        /\ WF_eventVars(Timers(s)) /\ WF_eventVars(RpcAnswers(s))
        /\ WF_eventVars(Sockets(s)) /\ WF_eventVars(FireHeartbeat(s))
        /\ WF_eventVars(GiveUpSocket(s))

\* While it lasts, a subscription hears of every event.
EventsAreHeard ==
    \A s \in Sub, e \in 1..MaxEmitted :
        []<>(ActiveSub(s) /\ emitted >= e => e \in ToSet(heardBy[s]) \union missed[s])
=============================================================================
