-------------------------------- MODULE WebEvents --------------------------------
(***************************************************************************)
(* subscribeToEvents() of the web frontend (lib/stellar/subscription.ts):  *)
(* a WebSocket that streams the events after a cursor or, where none can   *)
(* be made, polling with a cursor; a heartbeat timer starts it again when  *)
(* nothing was heard for a while.  One subscription: its handles of timers *)
(* are its own, but a timer whose handle was overwritten still fires, and  *)
(* the pause before another try has no handle at all.                      *)
(***************************************************************************)
EXTENDS Integers, Sequences, FiniteSetsExt

CONSTANTS FeedAsk,           \* polls that may be under way
          MaxWebRetries,     \* maxRetries
          MaxWebEvents,      \* bound: events of the contract
          MaxWebEventFaults  \* bound: failures, silences and handlers that throw

ASSUME WebEventsAssumption == {MaxWebRetries, MaxWebEvents, MaxWebEventFaults} \subseteq Nat

VARIABLES
    published,  \* events of the contract; their paging tokens are 1, 2, ...
    closure,    \* sockets (can be made), status, cursor, retries, stopped
    stream,     \* the socket: none, opening, open; and the last event it sent
    request,    \* each poll under way: the cursor asked for, the last event answered
    handles,    \* pollTimer: none, start or poll; heartbeatTimer: armed or not
    loose,      \* armed timers without a handle: start, poll
    gotten,     \* history: events the handler got
    webTrouble  \* history: failures; calls of the handler after unsubscribe()

webEventVars ==
    <<published, closure, stream, request, handles, loose, gotten, webTrouble>>

NotAsked == -1
NoFeedAsk == [from |-> NotAsked, upTo |-> NotAsked]
NoStream == [at |-> "none", sent |-> 0]
NoHandles == [poll |-> "none", heart |-> FALSE]

Fault == /\ webTrouble.faults < MaxWebEventFaults
         /\ webTrouble' = [webTrouble EXCEPT !.faults = @ + 1]

\* setTimeout() into pollTimer: what the handle held goes on without it.
Loosened(old) == IF old = "none" THEN loose ELSE [loose EXCEPT ![old] = @ + 1]

-----------------------------------------------------------------------------

\* poll(): a request goes out, unless the subscription was stopped.
PollFeed ==
    \/ closure.stopped /\ UNCHANGED request
    \/ ~closure.stopped /\ \E q \in FeedAsk :
            request[q] = NoFeedAsk /\ request' = [request EXCEPT ![q].from = closure.cursor]

\* start(): a socket with a heartbeat; without sockets a poll.  `fired` is what
\* the handles hold when it is called.
StartFeed(fired) ==
    \/ /\ closure.stopped
       /\ handles' = fired
       /\ UNCHANGED <<closure, stream, request>>
    \/ /\ ~closure.stopped
       /\ closure' = [closure EXCEPT !.status = "connecting"]
       /\ IF closure.sockets
          THEN /\ stream' = [at |-> "opening", sent |-> closure.cursor]
               /\ handles' = [fired EXCEPT !.heart = TRUE]
               /\ UNCHANGED request
          ELSE /\ PollFeed
               /\ handles' = fired
               /\ UNCHANGED stream

SubscribeFeed ==
    /\ closure.status = "new"
    /\ StartFeed(NoHandles)
    /\ UNCHANGED <<published, loose, gotten, webTrouble>>

\* The timer of pollTimer fires.
PollTimerFires ==
    LET fired == [handles EXCEPT !.poll = "none"] IN
    /\ \/ handles.poll = "start" /\ StartFeed(fired)
       \/ /\ handles.poll = "poll" /\ PollFeed /\ handles' = fired
          /\ UNCHANGED <<closure, stream>>
    /\ UNCHANGED <<published, loose, gotten, webTrouble>>

\* One without a handle fires: unsubscribe() did not clear it.
LooseTimerFires(timer) ==
    /\ loose[timer] > 0
    /\ loose' = [loose EXCEPT ![timer] = @ - 1]
    /\ \/ timer = "start" /\ StartFeed(handles)
       \/ timer = "poll" /\ PollFeed /\ UNCHANGED <<closure, stream, handles>>
    /\ UNCHANGED <<published, gotten, webTrouble>>

\* Nothing was heard: cleanup(), which lets the socket go, and scheduleReconnect(),
\* which knows no maximum of retries.
HeartbeatFires ==
    /\ handles.heart /\ ~closure.stopped /\ Fault
    /\ stream' = NoStream
    /\ closure' = [closure EXCEPT !.status = "reconnecting", !.retries = @ + 1]
    /\ handles' = [NoHandles EXCEPT !.poll = "start"]
    /\ UNCHANGED <<published, request, loose, gotten>>

unsubscribe ==
    /\ closure.status # "new" /\ ~closure.stopped
    /\ closure' = [closure EXCEPT !.stopped = TRUE, !.status = "closed"]
    /\ stream' = NoStream /\ handles' = NoHandles
    /\ UNCHANGED <<published, request, loose, gotten, webTrouble>>

-----------------------------------------------------------------------------
(* Polls *)

\* The RPC reads the events after the cursor asked for (external).
ReadFeed(q) ==
    /\ request[q].from # NotAsked /\ request[q].upTo = NotAsked
    /\ request' = [request EXCEPT ![q].upTo = published]
    /\ UNCHANGED <<published, closure, stream, handles, loose, gotten, webTrouble>>

\* A failed poll, or a handler that throws in one: the try is repeated after a
\* pause, which sleep() waits for without a handle, or the subscription is given
\* up: its timers are cleared, but another poll or pause goes on.
PollAgain(c) ==
    /\ Fault
    /\ IF c.retries + 1 > MaxWebRetries
       THEN /\ closure' = [c EXCEPT !.retries = @ + 1, !.status = "closed"]
            /\ handles' = NoHandles
            /\ UNCHANGED loose
       ELSE /\ closure' = [c EXCEPT !.retries = @ + 1, !.status = "reconnecting"]
            /\ loose' = [loose EXCEPT !["poll"] = @ + 1]
            /\ UNCHANGED handles

AnsweredWith(q) == request' = [request EXCEPT ![q] = NoFeedAsk]
DeliveredTo(from, upTo) ==
    /\ gotten' = gotten \union from + 1..upTo
    /\ webTrouble' = [webTrouble EXCEPT
            !.late = @ \/ (closure.stopped /\ upTo > from)]

\* Mutation: the cursor becomes the newest event's.
MovedToLatest(r) == [closure EXCEPT !.cursor = published, !.retries = 0, !.status = "active"]
\* The cursor becomes the last event's of the answer, or the one that was asked for.
MovedOn(r) == [closure EXCEPT !.cursor = r.upTo, !.retries = 0, !.status = "active"]
AnswerFeed(q) ==
    LET r == request[q] IN
    /\ r.upTo # NotAsked
    /\ AnsweredWith(q)
    /\ \/ /\ closure.stopped
          /\ UNCHANGED <<closure, handles, loose, gotten, webTrouble>>
       \/ /\ ~closure.stopped
          /\ closure' = MovedOn(r)
          /\ handles' = [poll |-> "poll", heart |-> TRUE]
          /\ loose' = Loosened(handles.poll)
          /\ DeliveredTo(r.from, r.upTo)
       \/ /\ ~closure.stopped /\ r.upTo > r.from   \* the handler throws
          /\ PollAgain(MovedOn(r))
          /\ gotten' = gotten \union r.from + 1..r.upTo
    /\ UNCHANGED <<published, stream>>
FeedFails(q) ==
    /\ request[q].from # NotAsked
    /\ AnsweredWith(q)
    /\ IF closure.stopped THEN UNCHANGED <<closure, handles, loose, webTrouble>>
       ELSE PollAgain(closure)
    /\ UNCHANGED <<published, stream, gotten>>

-----------------------------------------------------------------------------
(* The socket *)

OpenStream ==
    /\ stream.at = "opening"
    /\ stream' = [stream EXCEPT !.at = "open"]
    /\ UNCHANGED <<published, closure, request, handles, loose, gotten, webTrouble>>

\* A message with the events that follow; a handler that throws changes nothing,
\* the cursor has moved on.
StreamMessage(upTo) ==
    /\ stream.at = "open" /\ stream.sent < upTo /\ upTo <= published
    /\ stream' = [stream EXCEPT !.sent = upTo]
    /\ closure' = [closure EXCEPT !.cursor = upTo, !.retries = 0, !.status = "active"]
    /\ handles' = [handles EXCEPT !.heart = TRUE]
    /\ DeliveredTo(stream.sent, upTo)
    /\ UNCHANGED <<published, request, loose>>

\* It closes, or cannot be opened: the heartbeat timer stays armed.
StreamCloses(normally) ==
    /\ stream.at # "none" /\ Fault
    /\ stream' = NoStream
    /\ closure' = [closure EXCEPT !.status = "reconnecting",
                                  !.retries = @ + (IF normally THEN 1 ELSE 2)]
    /\ handles' = [handles EXCEPT !.poll = "start"] /\ loose' = Loosened(handles.poll)
    /\ UNCHANGED <<published, request, gotten>>

Publish ==
    /\ published < MaxWebEvents
    /\ published' = published + 1
    /\ UNCHANGED <<closure, stream, request, handles, loose, gotten, webTrouble>>

-----------------------------------------------------------------------------

WebEventInit ==
    /\ published = 0
    /\ \E sockets \in BOOLEAN :
        closure = [sockets |-> sockets, status |-> "new", cursor |-> 0, retries |-> 0,
                   stopped |-> FALSE]
    /\ stream = NoStream /\ handles = NoHandles
    /\ request = [q \in FeedAsk |-> NoFeedAsk]
    /\ loose = [timer \in {"start", "poll"} |-> 0]
    /\ gotten = {} /\ webTrouble = [faults |-> 0, late |-> FALSE]

WebEventNext ==
    \/ SubscribeFeed \/ unsubscribe \/ PollTimerFires \/ HeartbeatFires \/ Publish
    \/ OpenStream
    \/ \E timer \in {"start", "poll"} : LooseTimerFires(timer)
    \/ \E q \in FeedAsk : ReadFeed(q) \/ AnswerFeed(q) \/ FeedFails(q)
    \/ \E upTo \in 1..MaxWebEvents : StreamMessage(upTo)
    \/ \E normally \in BOOLEAN : StreamCloses(normally)

-----------------------------------------------------------------------------

\* The cursor never passes an event the handler was not given, whatever polls
\* and sockets overlap; so nothing is lost by starting again from it.
NothingSkipped == 1..closure.cursor \subseteq gotten

\* A subscription that was neither stopped nor given up has something armed that
\* carries it on, and one that was stopped calls the handler no more.
FeedCarriesOn ==
    /\ closure.status \notin {"new", "closed"} =>
        \/ handles.poll # "none" \/ \E timer \in DOMAIN loose : loose[timer] > 0
        \/ \E q \in FeedAsk : request[q] # NoFeedAsk
        \/ stream.at # "none" /\ handles.heart
    /\ ~webTrouble.late


\* Timers fire, RPC and socket answer.  A heartbeat need not fire while they do.
WebEventFairness ==
    /\ WF_webEventVars(PollTimerFires) /\ WF_webEventVars(OpenStream)
    /\ \A timer \in {"start", "poll"} : WF_webEventVars(LooseTimerFires(timer))
    /\ \A q \in FeedAsk : WF_webEventVars(ReadFeed(q)) /\ WF_webEventVars(AnswerFeed(q))
    /\ WF_webEventVars(\E upTo \in 1..MaxWebEvents : StreamMessage(upTo))

\* A subscription that began, and was neither stopped nor given up, gives every
\* event to its handler.
FeedIsHeard ==
    <>[](closure.status \in {"new", "closed"} \/ gotten = 1..published)
-----------------------------------------------------------------------------
(* The grant's page: useContractEvents() keeps an EventSource to the route     *)
(* GET /api/events, one run of its effect for each grant that is watched.      *)

CONSTANTS MaxSources,    \* bound: sources opened
          PollEvery, MaxBackOff  \* POLL_INTERVAL_MS, MAX_BACKOFF_MS

ASSUME LiveAssumption ==
    {MaxSources, PollEvery, MaxBackOff} \subseteq Nat /\ PollEvery <= MaxBackOff

VARIABLES
    liveHook,     \* the run of the effect (0: not mounted), status, error, the retry timer
    sources,  \* each EventSource: the run that opened it, where it is
    routes    \* the request of each: its poll, wait, an error sent, cut off, closed

liveVars == <<liveHook, sources, routes>>

NewRoute == [poll |-> "fetch", closed |-> FALSE, wait |-> PollEvery, told |-> FALSE,
             cut |-> FALSE]
RouteOver == [NewRoute EXCEPT !.poll = "over", !.closed = TRUE]
Ours(f) == sources[f].run = liveHook.run

\* openConnection(): the request goes out and its first poll begins.
OpenConnection(run) ==
    /\ Len(sources) < MaxSources
    /\ sources' = Append(sources, [run |-> run, at |-> "opening", first |-> FALSE])
    /\ routes' = Append(routes, NewRoute)
    /\ liveHook' = [run |-> run, status |-> "connecting", error |-> liveHook.error, timer |-> FALSE]

\* The cleanup knows the source of openConnection()'s first call only: one that was
\* opened by the timer is left as it is.
CleanedUp == [f \in DOMAIN sources |->
    IF Ours(f) /\ sources[f].first THEN [sources[f] EXCEPT !.at = "closed"] ELSE sources[f]]

Watch ==
    /\ Len(sources) < MaxSources
    /\ LET run == Len(sources) + 1 IN
       /\ sources' = Append(CleanedUp, [run |-> run, at |-> "opening", first |-> TRUE])
       /\ routes' = Append(routes, NewRoute)
       /\ liveHook' = [run |-> run, status |-> "connecting", error |-> liveHook.error,
                   timer |-> FALSE]
LeavePage ==
    /\ liveHook.run # 0
    /\ sources' = CleanedUp
    /\ liveHook' = [run |-> 0, status |-> "disconnected", error |-> liveHook.error, timer |-> FALSE]
    /\ UNCHANGED routes
RetryFires ==
    /\ liveHook.timer /\ OpenConnection(liveHook.run)

SourceOpens(f) ==
    /\ sources[f].at = "opening"
    /\ sources' = [sources EXCEPT ![f].at = IF Ours(f) THEN "open" ELSE "closed"]
    /\ liveHook' = IF ~Ours(f) THEN liveHook
                   ELSE [liveHook EXCEPT !.status = "connected", !.error = FALSE]
    /\ UNCHANGED routes

\* onerror: the connection was lost, or the route sent an event that is named "error",
\* which is heard as one.  A browser opens a lost source again that was not closed.
SourceFails(f, lost) ==
    /\ sources[f].at \in {"opening", "open"} /\ (lost \/ routes[f].told)
    /\ \/ /\ Ours(f)
          /\ sources' = [sources EXCEPT ![f].at = "closed"]
          /\ liveHook' = [liveHook EXCEPT !.status = "error", !.error = TRUE, !.timer = TRUE]
       \/ /\ ~Ours(f)
          /\ sources' = [sources EXCEPT ![f].at = IF lost THEN "opening" ELSE @]
          /\ UNCHANGED liveHook
    /\ routes' = [routes EXCEPT ![f].told = FALSE, ![f].cut = @ \/ lost]

\* poll(): fetchContractEvents() answers with no event, or an error, which is told;
\* what follows is as far away as the errors in a row make it.
BackOff(wait) == Min({2 * wait, MaxBackOff})
PollRoute(f) ==
    LET route == routes[f] IN
    /\ route.poll = "fetch"
    /\ \E fails \in BOOLEAN :
          routes' = [routes EXCEPT ![f] =
              IF route.closed THEN RouteOver
              ELSE [route EXCEPT !.poll = "timer", !.told = fails /\ sources[f].at # "closed",
                                 !.wait = IF fails THEN BackOff(route.wait) ELSE PollEvery]]
    /\ UNCHANGED <<liveHook, sources>>
RouteTimerFires(f) ==
    /\ routes[f].poll = "timer"
    /\ routes' = [routes EXCEPT ![f].poll = "fetch"]
    /\ UNCHANGED <<liveHook, sources>>
\* The request is aborted: its timers are cleared, a fetch goes on.
RouteAborts(f) ==
    /\ ~routes[f].closed /\ (sources[f].at = "closed" \/ routes[f].cut)
    /\ routes' = [routes EXCEPT ![f] =
           IF @.poll = "timer" THEN RouteOver ELSE [@ EXCEPT !.closed = TRUE]]
    /\ UNCHANGED <<liveHook, sources>>

LiveInit ==
    /\ liveHook = [run |-> 0, status |-> "disconnected", error |-> FALSE, timer |-> FALSE]
    /\ sources = <<>> /\ routes = <<>>
LiveNext ==
    \/ Watch \/ LeavePage \/ RetryFires
    \/ \E f \in DOMAIN sources :
          \/ SourceOpens(f) \/ PollRoute(f) \/ RouteTimerFires(f) \/ RouteAborts(f)
          \/ \E lost \in BOOLEAN : SourceFails(f, lost)

\* The status is that of the one source of the grant that is watched, or of the timer
\* that opens another, whatever sources earlier grants left behind; one that was left
\* by a page that is gone is of the earlier runs' timers, and never counts.
StatusIsOfTheSource ==
    LET open == {f \in DOMAIN sources : Ours(f) /\ sources[f].at # "closed"} IN
    /\ Cardinality(open) + (IF liveHook.timer THEN 1 ELSE 0) = (IF liveHook.run = 0 THEN 0 ELSE 1)
    /\ liveHook.status = "connected" <=> \E f \in open : sources[f].at = "open"
    /\ liveHook.status = "error" <=> liveHook.timer
    /\ \A f \in DOMAIN sources : ~Ours(f) /\ sources[f].at # "closed" => ~sources[f].first

\* A request that was aborted polls no more, and errors in a row are never nearer to
\* each other than an answer and the next poll.
RoutesEnd ==
    \A f \in DOMAIN routes :
        /\ routes[f].closed => routes[f].poll # "timer"
        /\ routes[f].wait \in PollEvery..MaxBackOff

\* The feed has no hole, and sources and routes end as they should (subscription.ts,
\* useContractEvents.ts, api/events/route.ts).
FeedIsWhole == NothingSkipped /\ FeedCarriesOn /\ StatusIsOfTheSource /\ RoutesEnd
=============================================================================
