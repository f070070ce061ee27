------------------------------ MODULE MCBackend ------------------------------
(* The components of the backend, for TLC. *)
EXTENDS Together, ChainSync, EventStream, WebhookDelivery, Notifications,
        MilestoneCases, Records, ReadRoutes, TLC

CONSTANTS grant1, contributor1

PayTo == [g \in Grant |-> contributor1]

backendVars ==
    <<syncVars, streamVars, webhookVars, notifyVars, appealVars, disputeVars, recordVars,
      pageVars, roleVars, answerVars>>

\* Requests and timer runs are alike (the same two model values stand for them in
\* every component).
BackendSymmetry == Permutations(Worker) \cup Permutations(Reviewer)

\* A component that does not run rests in one of its initial states.
BackendInit ==
    /\ part \in Parts
    /\ SyncInit /\ StreamInit /\ AppealInit /\ DisputeInit
    /\ WebhookInit /\ (Runs("webhook") \/ filter)
    /\ NotifyInit
    /\ Runs("sweep") \/ \A id \in Milestone : milestones[id].deadline = Min(Deadlines)
    /\ RecordInit /\ (Runs("records") \/ (about = "drafts" /\ record = Absent))
    /\ PageInit /\ (Runs("pages") \/ (list = "grants" /\ table = <<[key |-> 0, hidden |-> FALSE]>>))
    /\ RoleInit /\ (Runs("roles") \/ roleRows = RoleNames)
    /\ AnswerInit /\ (Runs("answers") \/ key = "stats")

BackendNext ==
    /\ UNCHANGED part
    /\ \/ /\ Runs("sync") /\ SyncNext
          /\ UNCHANGED <<streamVars, webhookVars, notifyVars, appealVars, disputeVars,
                         recordVars, pageVars, roleVars, answerVars>>
       \/ /\ Runs("stream") /\ StreamNext
          /\ UNCHANGED <<syncVars, webhookVars, notifyVars, appealVars, disputeVars,
                         recordVars, pageVars, roleVars, answerVars>>
       \/ /\ Runs("webhook") /\ WebhookNext
          /\ UNCHANGED <<syncVars, streamVars, notifyVars, appealVars, disputeVars,
                         recordVars, pageVars, roleVars, answerVars>>
       \/ /\ (Runs("mail") /\ MailNext) \/ (Runs("sweep") /\ SweepNext)
          /\ UNCHANGED <<syncVars, streamVars, webhookVars, appealVars, disputeVars,
                         recordVars, pageVars, roleVars, answerVars>>
       \/ /\ Runs("appeals") /\ AppealNext
          /\ UNCHANGED <<syncVars, streamVars, webhookVars, notifyVars, disputeVars,
                         recordVars, pageVars, roleVars, answerVars>>
       \/ /\ Runs("disputes") /\ DisputeNext
          /\ UNCHANGED <<syncVars, streamVars, webhookVars, notifyVars, appealVars,
                         recordVars, pageVars, roleVars, answerVars>>
       \/ /\ Runs("records") /\ RecordNext
          /\ UNCHANGED <<syncVars, streamVars, webhookVars, notifyVars, appealVars,
                         disputeVars, pageVars, roleVars, answerVars>>
       \/ /\ Runs("pages") /\ PageNext
          /\ UNCHANGED <<syncVars, streamVars, webhookVars, notifyVars, appealVars,
                         disputeVars, recordVars, roleVars, answerVars>>
       \/ /\ Runs("roles") /\ RoleNext
          /\ UNCHANGED <<syncVars, streamVars, webhookVars, notifyVars, appealVars,
                         disputeVars, recordVars, pageVars, answerVars>>
       \/ /\ Runs("answers") /\ AnswerNext
          /\ UNCHANGED <<syncVars, streamVars, webhookVars, notifyVars, appealVars,
                         disputeVars, recordVars, pageVars, roleVars>>

BackendSpec == BackendInit /\ [][BackendNext]_<<part, backendVars>>

-----------------------------------------------------------------------------

\* What the chain says is copied exactly and streamed in order: the checkpoint hides
\* no event, jobs that do not overlap leave rows of one read, no reputation is awarded
\* without its log; and a client that loses its connection loses nothing at or below
\* its last id (reconciliation-service.ts, grant-sync-service.ts, routes/events.ts).
ChainIsFollowed ==
    /\ CheckpointCovers /\ SequentialJobsAreExact /\ ReputationIsLogged
    /\ NothingLostBelowLast /\ SentInOrder /\ CountsConnections

\* Whatever is sent has its limit and its record: webhooks are tried as often as
\* allowed and their logs say what became of them, mails are neither lost nor doubled,
\* and nobody is reminded twice of a deadline (webhook-dispatcher.ts,
\* notification-queue.ts, milestone-deadline-service.ts).
DeliveriesAreSound ==
    /\ AttemptsAreLimited /\ StatusTellsOutcome /\ FailuresHappened /\ OwnersWordStands
    /\ NoMailLostOrDoubled /\ RemindedOnce /\ DeadlineStands

\* The outcome stored for an appeal is that of its votes, a resolved dispute is signed
\* by the council and final, the two gates of the routes agree and roles are held as
\* answered (milestone-appeals.ts, disputes.ts, rbac-service.ts).
CasesAreSound == AppealsAreSound /\ DisputesAreSound /\ RolesAreSound

\* What a request answered stays true: of the columns it wrote, and of the answers
\* that are served from the cache afterwards (the routes that save entities;
\* response-cache.ts, milestone feedback and statistics in grants.ts).
AnswersAreKept == AnswersStand /\ ServedAnswersAreHonest
=============================================================================
