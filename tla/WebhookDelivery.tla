-------------------------- MODULE WebhookDelivery --------------------------
(***************************************************************************)
(* WebhookDispatcher (services/webhook-dispatcher.ts) and the routes its   *)
(* owner uses (routes/webhooks.ts), for one subscription and its           *)
(* deliveries.  A task is a call of dispatch() or a round of the retry     *)
(* timer, which does not wait for an earlier round.  Tasks keep copies of  *)
(* the rows they read; save() writes every column of the copy that differs *)
(* from the row, so that a stale copy takes the row back, and inserts the  *)
(* row again if it was deleted.                                            *)
(***************************************************************************)
EXTENDS Naturals, FiniteSetsExt, SequencesExt

CONSTANTS Delivery,      \* events to deliver
          Task,          \* dispatches and timer rounds that may be under way at once
          MaxAttempts,   \* the least of max_retries and the retry delays
          DisableAfter,  \* failures in a row that switch the subscription off
          Filter,        \* whether the store understands the filter of processRetries
          MaxTroubles    \* bound: changes by the owner, saves that fail, restarts

ASSUME WebhookAssumption ==
    /\ {MaxAttempts, DisableAfter} \subseteq Nat \ {0}
    /\ MaxTroubles \in Nat
    /\ Filter \subseteq BOOLEAN
    /\ IsFiniteSet(Delivery)

NoRow == [status |-> "none"]
Pending == [status |-> "pending", attempts |-> 0, due |-> FALSE]
NoTask == [step |-> "idle", items |-> <<>>]

VARIABLES
    sub,     \* the subscription's row: active, failures, url; NoRow once deleted
    logs,    \* the row of each delivery: status, attempts, due
    task,    \* step, and the items left: delivery, copies of both rows
    edit,    \* the owner's PATCH between its read and its save
    filter,  \* the filter { $lte } selects rows
    seen     \* history: sent, received, exhausted, overlapped, raced, edits, faults

webhookVars == <<sub, logs, task, edit, filter, seen>>

Item(t) == Head(task[t].items)
Holders(d) == {t \in Task : \E i \in DOMAIN task[t].items : task[t].items[i].d = d}

\* The task goes on with its item changed, or with the next one.
With(t, step, item) ==
    task' = [task EXCEPT ![t] = [step |-> step, items |-> <<item>> \o Tail(@.items)]]
NextItem(t) ==
    task' = [task EXCEPT ![t] =
        IF Len(@.items) = 1 THEN NoTask ELSE [step |-> "take", items |-> Tail(@.items)]]

-----------------------------------------------------------------------------
(* dispatch(), deliver() *)

\* The subscription is read if it is active.
Dispatch(t, d) ==
    /\ task[t] = NoTask
    /\ d \notin seen.sent
    /\ sub # NoRow /\ sub.active
    /\ task' = [task EXCEPT ![t] = [step |-> "create",
                   items |-> <<[d |-> d, log |-> Pending, sub |-> sub, tried |-> FALSE]>>]]
    /\ seen' = [seen EXCEPT !.sent = @ \cup {d}]
    /\ UNCHANGED <<sub, logs, edit, filter>>

\* The pending log is saved before the first attempt; its foreign key fails
\* if the subscription is gone.
CreateLog(t) ==
    /\ task[t].step = "create"
    /\ IF sub = NoRow THEN NextItem(t) /\ UNCHANGED logs
       ELSE /\ logs' = [logs EXCEPT ![Item(t).d] = Pending]
            /\ With(t, "post", Item(t))
    /\ UNCHANGED <<sub, edit, filter, seen>>

-----------------------------------------------------------------------------
(* attemptDelivery(), scheduleRetry() *)

\* The copies after scheduleRetry(): exhausted and counted against the
\* subscription, or to be tried again.
Exhausted(item) ==
    LET failures == item.sub.failures + 1 IN
    [item EXCEPT !.log.status = "exhausted",
                 !.sub.failures = failures,
                 !.sub.active = @ /\ failures < DisableAfter]
Retrying(item) == [item EXCEPT !.log.status = "retrying", !.log.due = FALSE]
\* Mutation: one attempt more.
PastAttempts(item) == item.log.attempts > MaxAttempts
OutOfAttempts(item) == item.log.attempts >= MaxAttempts
ScheduleRetry(t, item) ==
    IF OutOfAttempts(item)
    THEN /\ With(t, "saveSub", Exhausted(item))
         /\ seen' = [seen EXCEPT !.exhausted = @ + 1]
    ELSE /\ With(t, "saveLog", Retrying(item))
         /\ UNCHANGED seen

Attempted(t) == [Item(t) EXCEPT !.log.attempts = @ + 1]

\* The endpoint answers 2xx.
PostOk(t) ==
    LET item == [Attempted(t) EXCEPT !.log.status = "delivered"] IN
    /\ task[t].step = "post"
    /\ IF item.sub.failures > 0
       THEN With(t, "saveSub", [item EXCEPT !.sub.failures = 0])
       ELSE With(t, "saveLog", item)
    /\ seen' = [seen EXCEPT !.received = @ \cup {item.d}]
    /\ UNCHANGED <<sub, logs, edit, filter>>

\* It answers something else, or does not answer within 30 seconds; the
\* latter is handled in the catch block already.
PostFails(t, answered) ==
    /\ task[t].step = "post"
    /\ ScheduleRetry(t, [Attempted(t) EXCEPT !.tried = ~answered])
    /\ UNCHANGED <<sub, logs, edit, filter>>

SaveSub(t) ==
    /\ task[t].step = "saveSub"
    /\ sub' = Item(t).sub
    /\ With(t, "saveLog", Item(t))
    /\ UNCHANGED <<logs, edit, filter, seen>>

\* A save of the subscription that rejects inside the try block is taken for
\* a failed attempt; in the catch block it ends the attempt, the log unsaved.
SaveSubFails(t) ==
    /\ task[t].step = "saveSub"
    /\ seen.edits + seen.faults < MaxTroubles
    /\ LET item == [Item(t) EXCEPT !.tried = TRUE] IN
       IF Item(t).tried THEN NextItem(t)
       ELSE IF OutOfAttempts(item) THEN With(t, "saveSub", Exhausted(item))
       ELSE With(t, "saveLog", Retrying(item))
    /\ seen' = [seen EXCEPT !.faults = @ + 1]
    /\ UNCHANGED <<sub, logs, edit, filter>>

SaveDeliveryLog(t) ==
    /\ task[t].step = "saveLog"
    /\ logs' = IF sub = NoRow THEN logs ELSE [logs EXCEPT ![Item(t).d] = Item(t).log]
    /\ NextItem(t)
    /\ UNCHANGED <<sub, edit, filter, seen>>

-----------------------------------------------------------------------------
(* processRetries() *)

\* The delay of a retry passes.
Elapse(d) ==
    /\ logs[d].status = "retrying" /\ ~logs[d].due
    /\ logs' = [logs EXCEPT ![d].due = TRUE]
    /\ UNCHANGED <<sub, task, edit, filter, seen>>

\* The filter is written for a document store, nextRetryAt: { $lte: now };
\* the SQL stores of data-source.ts compare the column with the object.
DueRetries == {d \in Delivery : filter /\ logs[d].status = "retrying" /\ logs[d].due}

WebhookRound(t) ==
    /\ task[t] = NoTask /\ DueRetries # {}
    /\ LET due == SetToSeq(DueRetries) IN
       task' = [task EXCEPT ![t] = [step |-> "take", items |->
           [i \in DOMAIN due |-> [d |-> due[i], log |-> logs[due[i]], sub |-> sub,
                                  tried |-> FALSE]]]]
    /\ seen' = [seen EXCEPT !.overlapped =
                   @ \/ \E d \in DueRetries : Holders(d) # {}]
    /\ UNCHANGED <<sub, logs, edit, filter>>

\* A log of a subscription that was switched off when it was read is closed.
BeginRetry(t) ==
    /\ task[t].step = "take"
    /\ IF Item(t).sub.active THEN With(t, "post", Item(t)) /\ UNCHANGED seen
       ELSE /\ With(t, "saveLog", [Item(t) EXCEPT !.log.status = "exhausted"])
            /\ seen' = [seen EXCEPT !.closed = @ \cup {Item(t).d}]
    /\ UNCHANGED <<sub, logs, edit, filter>>

-----------------------------------------------------------------------------
(* The owner and the process *)

Races == seen.raced \/ \E t \in Task : task[t] # NoTask

\* PATCH reads the row, and saves it with another target or switched on or off.
ReadForEdit(url, active) ==
    /\ seen.edits + seen.faults < MaxTroubles
    /\ edit = NoRow /\ sub # NoRow
    /\ edit' = [sub EXCEPT !.url = url, !.active = active]
    /\ seen' = [seen EXCEPT !.edits = @ + 1, !.raced = Races]
    /\ UNCHANGED <<sub, logs, task, filter>>
SaveEdit ==
    /\ edit # NoRow
    /\ sub' = edit
    /\ edit' = NoRow
    /\ seen' = [seen EXCEPT !.raced = Races, !.url = edit.url]
    /\ UNCHANGED <<logs, task, filter>>

\* DELETE removes the subscription and, by the foreign key, its logs.
Delete ==
    /\ seen.edits + seen.faults < MaxTroubles
    /\ sub # NoRow
    /\ sub' = NoRow /\ logs' = [d \in Delivery |-> NoRow]
    /\ seen' = [seen EXCEPT !.edits = @ + 1, !.raced = Races \/ edit # NoRow, !.url = 0]
    /\ UNCHANGED <<task, edit, filter>>

RestartDispatcher ==
    /\ seen.edits + seen.faults < MaxTroubles
    /\ task' = [t \in Task |-> NoTask] /\ edit' = NoRow
    /\ seen' = [seen EXCEPT !.faults = @ + 1]
    /\ UNCHANGED <<sub, logs, filter>>

-----------------------------------------------------------------------------

WebhookInit ==
    /\ sub = [status |-> "row", active |-> TRUE, failures |-> 0, url |-> 1]
    /\ logs = [d \in Delivery |-> NoRow]
    /\ task = [t \in Task |-> NoTask]
    /\ edit = NoRow
    /\ filter \in Filter
    /\ seen = [sent |-> {}, received |-> {}, closed |-> {}, exhausted |-> 0,
               overlapped |-> FALSE, raced |-> FALSE, url |-> 1, edits |-> 0, faults |-> 0]

TaskStep(t) ==
    \/ CreateLog(t) \/ PostOk(t) \/ SaveSub(t) \/ SaveDeliveryLog(t) \/ BeginRetry(t)
    \/ \E answered \in BOOLEAN : PostFails(t, answered)

WebhookNext ==
    \/ \E t \in Task :
          \/ TaskStep(t) \/ SaveSubFails(t) \/ WebhookRound(t)
          \/ \E d \in Delivery : Dispatch(t, d)
    \/ \E d \in Delivery : Elapse(d)
    \/ \E url \in {1, 2}, active \in BOOLEAN : ReadForEdit(url, active)
    \/ SaveEdit \/ Delete \/ RestartDispatcher

\* fetch() is aborted after 30 seconds, saves end, delays pass, and a round of
\* the timer starts every 30 seconds.
WebhookFairness ==
    /\ \A t \in Task : WF_webhookVars(TaskStep(t))
    /\ \A d \in Delivery : WF_webhookVars(Elapse(d))
    /\ \E t \in Task : WF_webhookVars(WebhookRound(t))

-----------------------------------------------------------------------------

\* No interleaving of rounds takes a delivery past its limit, and a log is
\* given up only at the limit or because the subscription was switched off
\* (webhook-dispatcher.ts:174-196, 232-237).
AttemptsAreLimited ==
    \A d \in Delivery : logs[d] # NoRow =>
        /\ logs[d].attempts <= MaxAttempts
        /\ logs[d].status = "retrying" => logs[d].attempts \in 1..MaxAttempts - 1
        /\ logs[d].status = "exhausted" =>
              logs[d].attempts = MaxAttempts \/ d \in seen.closed

\* A log says what happened to its delivery, as long as no two rounds work on
\* the same log and nothing fails: the endpoint accepted a delivery that
\* nobody works on exactly when its log says "delivered".
StatusTellsOutcome ==
    ~seen.overlapped /\ seen.faults = 0 =>
        \A d \in Delivery : logs[d] # NoRow /\ Holders(d) = {} =>
            (logs[d].status = "delivered" <=> d \in seen.received)

\* Failures counted against a subscription happened: the counter, which
\* switches the subscription off, never exceeds the deliveries given up,
\* however stale the copies saved are, unless a save failed
\* (webhook-dispatcher.ts:181-189).
FailuresHappened ==
    seen.faults = 0 /\ sub # NoRow => sub.failures <= seen.exhausted

\* The owner's last change of the target stands, a deletion included, unless
\* an attempt or another change was under way (webhooks.ts:183-249).
OwnersWordStands ==
    ~seen.raced /\ edit = NoRow => (IF sub = NoRow THEN 0 ELSE sub.url) = seen.url

\* WEBHOOK_README.md:149: a delivery that failed is taken up again by the
\* retry queue until it is delivered or given up.
RetriesAreTakenUp ==
    \A d \in Delivery : []<>(logs[d].status # "retrying")
=============================================================================
