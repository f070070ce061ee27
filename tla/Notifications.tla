--------------------------- MODULE Notifications ---------------------------
(***************************************************************************)
(* What tells people of things: NotificationQueue (mail with retries) and  *)
(* MilestoneDeadlineService (the daily sweep over milestones without a     *)
(* proof).  The sweep reads every table first and then goes through the    *)
(* milestones, mailing and saving one after the other, while the           *)
(* synchronisation moves deadlines and proofs come in.                     *)
(***************************************************************************)
EXTENDS Integers, FiniteSetsExt, SequencesExt

CONSTANTS Mail,       \* mails to send
          MaxTries,   \* maxAttempts
          BatchSize,  \* mails taken by one flush
          Milestone,  \* milestones of the one grant
          Windows,    \* UPCOMING_REMINDER_WINDOWS
          MaxDay,     \* bound: days
          Deadlines,  \* deadlines a milestone may have, in days
          MaxMoves    \* bound: times a deadline moves

ASSUME NotificationsAssumption ==
    /\ {MaxTries, BatchSize} \subseteq Nat \ {0}
    /\ {MaxDay, MaxMoves} \subseteq Nat
    /\ Deadlines \subseteq Nat /\ Windows \subseteq Nat
    /\ IsFiniteSet(Milestone)

VARIABLES
    queue,       \* mails queued, with their attempts
    batch,       \* the mails a flush took and has not handled yet
    processing,  \* a flush is under way
    mailed,      \* mails the provider accepted, in order
    dropped,     \* mails given up
    day,         \* today
    milestones,  \* rows: deadline, reminded window (NoWindow: none), overdue notified
    proven,      \* milestones with a proof
    sweep,       \* copies of the rows the sweep still goes through, "mailing" or not
    alerts       \* history: alerts sent, deadlines moved, under a sweep or not

notifyVars == <<queue, batch, processing, mailed, dropped, day, milestones, proven, sweep, alerts>>
mailVars == <<queue, batch, processing, mailed, dropped>>
sweepVars == <<day, milestones, proven, sweep, alerts>>

-----------------------------------------------------------------------------
(* NotificationQueue *)

Known(m) == \/ \E i \in DOMAIN queue : queue[i].mail = m
            \/ \E i \in DOMAIN batch : batch[i].mail = m
            \/ m \in ToSet(mailed) \cup dropped

Enqueue(m) ==
    /\ ~Known(m)
    /\ queue' = Append(queue, [mail |-> m, attempts |-> 0])
    /\ UNCHANGED <<batch, processing, mailed, dropped, sweepVars>>

\* One round of the timer; it does nothing while an earlier flush is awaited.
Flush ==
    /\ ~processing /\ queue # <<>>
    /\ LET n == IF Len(queue) < BatchSize THEN Len(queue) ELSE BatchSize IN
          /\ batch' = SubSeq(queue, 1, n)
          /\ queue' = SubSeq(queue, n + 1, Len(queue))
    /\ processing' = TRUE
    /\ UNCHANGED <<mailed, dropped, sweepVars>>

SendOk ==
    /\ batch # <<>>
    /\ mailed' = Append(mailed, Head(batch).mail)
    /\ batch' = Tail(batch)
    /\ UNCHANGED <<queue, processing, dropped, sweepVars>>

SendFails ==
    /\ batch # <<>>
    /\ LET item == [Head(batch) EXCEPT !.attempts = @ + 1] IN
       IF item.attempts < MaxTries
       THEN queue' = Append(queue, item) /\ UNCHANGED dropped
       ELSE dropped' = dropped \cup {item.mail} /\ UNCHANGED queue
    /\ batch' = Tail(batch)
    /\ UNCHANGED <<processing, mailed, sweepVars>>

EndFlush ==
    /\ processing /\ batch = <<>>
    /\ processing' = FALSE
    /\ UNCHANGED <<queue, batch, mailed, dropped, sweepVars>>

-----------------------------------------------------------------------------
(* MilestoneDeadlineService *)

NoWindow == -1
Swept == [left |-> <<>>, mailing |-> FALSE]

\* getReminderWindow() and isMilestoneOverdue() for a copy without a proof, on
\* the day the sweep began.
Reminder(c) ==
    LET days == c.row.deadline - c.day IN IF days \in Windows THEN days ELSE NoWindow
IsOverdue(c) == c.row.deadline < c.day
Alert(c) ==
    IF Reminder(c) # NoWindow
    THEN IF c.row.window = Reminder(c) THEN "none" ELSE "upcoming"
    ELSE IF IsOverdue(c) /\ ~c.row.overdue THEN "overdue" ELSE "none"

\* The rows as they are now, of milestones without a proof.
RunCheck ==
    /\ sweep = Swept
    /\ LET due == SetToSeq(Milestone \ proven) IN
       /\ due # <<>>
       /\ sweep' = [Swept EXCEPT !.left = [i \in DOMAIN due |->
                       [id |-> due[i], row |-> milestones[due[i]], day |-> day]]]
    /\ UNCHANGED <<mailVars, day, milestones, proven, alerts>>

Current == Head(sweep.left)

Skip ==
    /\ sweep.left # <<>> /\ ~sweep.mailing
    /\ Alert(Current) = "none"
    /\ sweep' = [sweep EXCEPT !.left = Tail(@)]
    /\ UNCHANGED <<mailVars, day, milestones, proven, alerts>>

\* dispatchDeadlineAlert(): the socket is told at once, the mail is awaited;
\* a mail that fails is logged and counts as sent.
SendAlert ==
    /\ sweep.left # <<>> /\ ~sweep.mailing
    /\ Alert(Current) # "none"
    /\ sweep' = [sweep EXCEPT !.mailing = TRUE]
    /\ alerts' = [alerts EXCEPT !.sent = Append(@,
          [id |-> Current.id, move |-> alerts.moves[Current.id],
           kind |-> IF Alert(Current) = "overdue" THEN NoWindow ELSE Reminder(Current)])]
    /\ UNCHANGED <<mailVars, day, milestones, proven>>

\* save() of the copy writes the columns that differ, a deadline moved since
\* then among them.
SaveAlert ==
    /\ sweep.mailing
    /\ milestones' = [milestones EXCEPT ![Current.id] =
          IF Alert(Current) = "overdue"
          THEN [Current.row EXCEPT !.overdue = TRUE]
          ELSE [Current.row EXCEPT !.window = Reminder(Current)]]
    /\ sweep' = [left |-> Tail(sweep.left), mailing |-> FALSE]
    /\ UNCHANGED <<mailVars, day, proven, alerts>>

\* The save rejects or the process stops: the rest of the sweep is not done;
\* once at most.
SweepCut ==
    /\ sweep # Swept /\ ~alerts.cut
    /\ sweep' = Swept
    /\ alerts' = [alerts EXCEPT !.cut = TRUE]
    /\ UNCHANGED <<mailVars, day, milestones, proven>>

NextDay ==
    /\ day < MaxDay
    /\ day' = day + 1
    /\ UNCHANGED <<mailVars, milestones, proven, sweep, alerts>>

\* The upsert of grant-sync-service.ts:51-70 leaves the marks alone.
MoveDeadline(id, deadline) ==
    /\ alerts.moves[id] < MaxMoves
    /\ milestones[id].deadline # deadline
    /\ milestones' = [milestones EXCEPT ![id].deadline = deadline]
    /\ alerts' = [alerts EXCEPT !.moves[id] = @ + 1, !.wanted[id] = deadline,
          !.stale = @ \cup {c.id : c \in {c \in ToSet(sweep.left) : c.id = id}}]
    /\ UNCHANGED <<mailVars, day, proven, sweep>>

ProofArrives(id) ==
    /\ id \notin proven
    /\ proven' = proven \cup {id}
    /\ UNCHANGED <<mailVars, day, milestones, sweep, alerts>>

-----------------------------------------------------------------------------

NotifyInit ==
    /\ queue = <<>> /\ batch = <<>> /\ processing = FALSE /\ mailed = <<>> /\ dropped = {}
    /\ day = 0
    /\ \E d \in Deadlines : milestones =
          [id \in Milestone |-> [deadline |-> d, window |-> NoWindow, overdue |-> FALSE]]
    /\ proven = {} /\ sweep = Swept
    /\ alerts = [sent |-> <<>>, stale |-> {}, cut |-> FALSE,
                 moves |-> [id \in Milestone |-> 0],
                 wanted |-> [id \in Milestone |-> milestones[id].deadline]]

FlushStep == Flush \/ SendOk \/ SendFails \/ EndFlush
MailNext == FlushStep \/ \E m \in Mail : Enqueue(m)
SweepNext ==
    \/ RunCheck \/ Skip \/ SendAlert \/ SaveAlert \/ SweepCut \/ NextDay
    \/ \E id \in Milestone :
          ProofArrives(id) \/ \E deadline \in Deadlines : MoveDeadline(id, deadline)

\* The timer goes on, and the mail provider answers.
MailFairness == WF_notifyVars(FlushStep)

-----------------------------------------------------------------------------

\* A mail is in one place, once, and is given up only after all its tries:
\* retries go to the end of the queue while a batch is taken off its front
\* (notification-queue.ts:33-55).
NoMailLostOrDoubled ==
    LET pending == queue \o batch
        ids == [i \in DOMAIN pending |-> pending[i].mail] \o mailed
    IN /\ IsInjective(ids)
       /\ dropped \cap ToSet(ids) = {}
       /\ \A i \in DOMAIN pending : pending[i].attempts < MaxTries

\* However often the sweep runs, a reminder is sent once for each window of a
\* deadline and an overdue milestone is announced once, unless a sweep is cut
\* off before it saved or the deadline moves under it
\* (milestone-deadline-service.ts:86-134).
RemindedOnce ==
    ~alerts.cut => \A i, j \in DOMAIN alerts.sent :
        alerts.sent[i] = alerts.sent[j] /\ alerts.sent[i].id \notin alerts.stale => i = j

\* A deadline moved by the synchronisation stands, unless a sweep that read
\* the row before it saved the row after it.
DeadlineStands ==
    \A id \in Milestone :
        milestones[id].deadline = alerts.wanted[id] \/ id \in alerts.stale

\* Every mail is sent or given up.
MailIsSettled ==
    \A m \in Mail : []<>(Known(m) => m \in ToSet(mailed) \cup dropped)
=============================================================================
