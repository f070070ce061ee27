----------------------------- MODULE ChainSync -----------------------------
(***************************************************************************)
(* The backend's copy of the chain: GrantSyncService (grant rows, milestone *)
(* rows, reputation, dispute rows) and ReconciliationService (the activity *)
(* feed and its checkpoint).  A worker is a request or a timer's run; each  *)
(* step of a worker is what the code does from one await to the next, so    *)
(* that other workers, the chain and a restart of the process come between. *)
(* A grant's state on the chain is a version number, 0 before it exists.    *)
(***************************************************************************)
EXTENDS Integers, FiniteSetsExt, SequencesExt

CONSTANTS Grant,        \* grant identifiers
          Contributor,  \* addresses of recipients
          RecipientOf,  \* the recipient of each grant
          Disputed,     \* the versions in which a grant's status is "disputed"
          Worker,       \* requests and timer runs
          MaxVersion,   \* bound: changes of a grant on the chain
          MaxLedger,    \* bound: ledgers closed
          MaxEvents,    \* bound: contract events
          Span,         \* MAX_LEDGER_RANGE
          Page,         \* events in one answer of getEvents
          MaxRequests,  \* bound: requests that sync grants
          MaxFaults     \* bound: failures of a step and restarts of the process

ASSUME SyncAssumption ==
    /\ RecipientOf \in [Grant -> Contributor]
    /\ Disputed \subseteq 1..MaxVersion
    /\ {MaxVersion, MaxLedger, MaxEvents, Span, Page, MaxRequests, MaxFaults} \subseteq Nat

Gain == 100
NoCheckpoint == -1

VARIABLES
    chain,       \* version of each grant on the chain
    ledger,      \* the last ledger closed
    log,         \* contract events in the order of their ids
    row,         \* version in the grants table, 0: no row
    deadlines,   \* version in the milestones table
    reputation,  \* contributors.reputation
    logged,      \* rows of reputation_logs with a gain of 100
    opened,      \* dispute rows with status "open"
    feed,        \* event ids of the activity rows written by passes
    checkpoint,  \* reconciliation_checkpoints "main"
    worker,      \* what each worker is doing and what it holds in memory
    audit        \* history: what the properties need of the past

chainVars == <<chain, ledger, log>>
tables == <<row, deadlines, reputation, logged, opened, feed, checkpoint>>
syncVars == <<chain, ledger, log, row, deadlines, reputation, logged,
              opened, feed, checkpoint, worker, audit>>

-----------------------------------------------------------------------------
(* The chain *)

\* Only some events make a pass fetch a grant it has a row of: "state" stands
\* for grant_updated, grant_funded, grant_completed and milestone_approved.
IsGrantStateEvent(e) == log[e].kind = "state"

\* A ledger closes with at most one event, which may change the grant.
CloseLedger ==
    /\ ledger < MaxLedger
    /\ ledger' = ledger + 1
    /\ UNCHANGED <<tables, worker, audit>>
    /\ \/ UNCHANGED <<chain, log>>
       \/ \E g \in Grant :
          /\ Len(log) < MaxEvents
          /\ \/ /\ chain[g] > 0
                /\ log' = Append(log, [ledger |-> ledger', grant |-> g,
                                       kind |-> "submitted", version |-> chain[g]])
                /\ UNCHANGED chain
             \/ /\ chain[g] < MaxVersion
                /\ chain' = [chain EXCEPT ![g] = @ + 1]
                /\ log' = Append(log, [ledger |-> ledger', grant |-> g,
                                       kind |-> IF chain[g] = 0 THEN "created" ELSE "state",
                                       version |-> chain'[g]])

\* getEvents answers one page from startLedger on; there is no second request.
EventsIn(from, to) == {e \in DOMAIN log : log[e].ledger \in from..to}
PageFrom(from) ==
    {e \in DOMAIN log : /\ log[e].ledger >= from
                        /\ Cardinality({d \in 1..e : log[d].ledger >= from}) <= Page}
FetchEvents(from, to) == EventsIn(from, to) \cap PageFrom(from)

-----------------------------------------------------------------------------
(* Workers *)

Idle == [step |-> "idle", all |-> FALSE, todo |-> <<>>, reputation |-> 0,
         gaps |-> <<>>, to |-> 0]

\* A job starts; the history notes whether another one is running.
Starts(w, job, requests) ==
    /\ worker[w].step = "idle"
    /\ audit.requests + requests <= MaxRequests
    /\ worker' = [worker EXCEPT ![w] = job]
    /\ audit' = [audit EXCEPT !.requests = @ + requests, !.overlapped =
                    @ \/ \E v \in Worker \ {w} : worker[v].step # "idle"]

Goes(w, step) == worker' = [worker EXCEPT ![w].step = step]
Payee(w) == RecipientOf[Head(worker[w].todo).grant]

\* GET of one grant, and the webhook of the indexer (admin.ts): syncGrant().
\* The grant is fetched before anything is written.
SyncOne(w, g) ==
    /\ chain[g] > 0
    /\ Starts(w, [Idle EXCEPT !.step = "save", !.todo = <<[grant |-> g, version |-> chain[g]]>>], 1)
    /\ UNCHANGED <<chainVars, tables>>

\* GET of the list and of the dashboard: syncAllGrants() fetches every grant
\* and only then saves them one after the other.
SyncAll(w) ==
    LET known == {g \in Grant : chain[g] > 0}
        todo  == [i \in 1..Cardinality(known) |->
                    LET g == SetToSeq(known)[i] IN [grant |-> g, version |-> chain[g]]]
    IN /\ known # {}
       /\ Starts(w, [Idle EXCEPT !.step = "save", !.all = TRUE, !.todo = todo], 1)
       /\ UNCHANGED <<chainVars, tables>>

\* grantRepo.save() of the fetched grant: its status replaces any other.
SaveGrant(w) ==
    /\ worker[w].step = "save"
    /\ LET s == Head(worker[w].todo) IN
          row' = [row EXCEPT ![s.grant] = s.version]
    /\ Goes(w, "milestones")
    /\ UNCHANGED <<chainVars, deadlines, reputation, logged, opened, feed, checkpoint, audit>>

\* The milestones are upserted, then the contributor is read.
UpsertMilestones(w) ==
    /\ worker[w].step = "milestones"
    /\ LET s == Head(worker[w].todo) IN
          deadlines' = [deadlines EXCEPT ![s.grant] = s.version]
    /\ worker' = [worker EXCEPT ![w].step = "log", ![w].reputation = reputation[Payee(w)]]
    /\ UNCHANGED <<chainVars, row, reputation, logged, opened, feed, checkpoint, audit>>

\* What a worker does once a grant is synced: syncAllGrants() looks for a
\* dispute row, a pass goes on to write the activity.
Synced(w) ==
    LET rest == Tail(worker[w].todo) IN
    worker' = [worker EXCEPT ![w] =
        IF rest # <<>> THEN [@ EXCEPT !.step = "save", !.todo = rest]
        ELSE IF @.gaps # <<>> THEN [@ EXCEPT !.step = "write", !.todo = <<>>]
        ELSE Idle]
NextStep(w) ==
    IF worker[w].all /\ Head(worker[w].todo).version \in Disputed
    THEN Goes(w, "dispute")
    ELSE Synced(w)

\* The last log with this gain decides, whatever grant it was for.
ReadLog(w) ==
    /\ worker[w].step = "log"
    /\ IF logged[Payee(w)] = 0 THEN Goes(w, "award") ELSE NextStep(w)
    /\ UNCHANGED <<chainVars, tables, audit>>

\* The reputation read before the log was looked up is saved, increased.
SaveReputation(w) ==
    /\ worker[w].step = "award"
    /\ reputation' = [reputation EXCEPT ![Payee(w)] = worker[w].reputation + Gain]
    /\ Goes(w, "record")
    /\ UNCHANGED <<chainVars, row, deadlines, logged, opened, feed, checkpoint, audit>>

SaveLog(w) ==
    /\ worker[w].step = "record"
    /\ logged' = [logged EXCEPT ![Payee(w)] = @ + 1]
    /\ NextStep(w)
    /\ UNCHANGED <<chainVars, row, deadlines, reputation, opened, feed, checkpoint, audit>>

\* ensureDisputeRecord() reads the open row, and inserts one if there is none.
ReadDispute(w) ==
    /\ worker[w].step = "dispute"
    /\ IF opened[Head(worker[w].todo).grant] = 0 THEN Goes(w, "open") ELSE Synced(w)
    /\ UNCHANGED <<chainVars, tables, audit>>
OpenDispute(w) ==
    /\ worker[w].step = "open"
    /\ opened' = [opened EXCEPT ![Head(worker[w].todo).grant] = @ + 1]
    /\ Synced(w)
    /\ UNCHANGED <<chainVars, row, deadlines, reputation, logged, feed, checkpoint, audit>>

-----------------------------------------------------------------------------
(* A reconciliation pass: ReconciliationService.run() *)

BeginPass(w) ==
    /\ Starts(w, [Idle EXCEPT !.step = "checkpoint", !.to = ledger], 0)
    /\ UNCHANGED <<chainVars, tables>>

\* The first pass ever creates the checkpoint, one span below the ledger it
\* saw.  A pass with nothing to do ends here.  findGaps() looks at the type of
\* the activities it reads, but selects their data only: it knows of none, and
\* every event that was found is a gap.
ReadCheckpoint(w) ==
    LET latest == worker[w].to
        start  == IF latest > Span THEN latest - Span ELSE 0
        last   == IF checkpoint = NoCheckpoint THEN start ELSE checkpoint
        to     == IF latest < last + Span THEN latest ELSE last + Span
        found  == FetchEvents(last + 1, to)
    IN /\ worker[w].step = "checkpoint"
       /\ checkpoint' = last
       /\ IF last + 1 > to
          THEN /\ worker' = [worker EXCEPT ![w] = Idle]
               /\ UNCHANGED audit
          ELSE /\ worker' = [worker EXCEPT ![w] =
                     [@ EXCEPT !.step = IF found = {} THEN "advance" ELSE "gap",
                               !.to = to, !.gaps = SetToSortSeq(found, <)]]
               /\ audit' = [audit EXCEPT !.skipped =
                     @ \cup (EventsIn(last + 1, to) \ found) \cup EventsIn(1, start)]
       /\ UNCHANGED <<chainVars, row, deadlines, reputation, logged, opened, feed>>

\* fillGap() fetches the grant if it has no row or the event changed it.
BeginGap(w) ==
    /\ worker[w].step = "gap"
    /\ LET e == Head(worker[w].gaps)
           g == log[e].grant
       IN IF row[g] = 0 \/ IsGrantStateEvent(e)
          THEN worker' = [worker EXCEPT ![w].step = "save",
                                        ![w].todo = <<[grant |-> g, version |-> chain[g]]>>]
          ELSE Goes(w, "write")
    /\ UNCHANGED <<chainVars, tables, audit>>

GapDone(w) ==
    worker' = [worker EXCEPT ![w].gaps = Tail(@), ![w].todo = <<>>,
                  ![w].step = IF Len(worker[w].gaps) = 1 THEN "advance" ELSE "gap"]

WriteActivity(w) ==
    /\ worker[w].step = "write"
    /\ feed' = Append(feed, Head(worker[w].gaps))
    /\ GapDone(w)
    /\ UNCHANGED <<chainVars, row, deadlines, reputation, logged, opened, checkpoint, audit>>

\* Mutation: the pass saves the ledger the network has by now.
AdvanceToLatest(w) ==
    /\ worker[w].step = "advance"
    /\ checkpoint' = ledger
    /\ worker' = [worker EXCEPT ![w] = Idle]
    /\ UNCHANGED <<chainVars, row, deadlines, reputation, logged, opened, feed, audit>>
\* The pass saves the ledger it computed, whatever the row holds by now.
AdvanceCheckpoint(w) ==
    /\ worker[w].step = "advance"
    /\ checkpoint' = worker[w].to
    /\ worker' = [worker EXCEPT ![w] = Idle]
    /\ UNCHANGED <<chainVars, row, deadlines, reputation, logged, opened, feed, audit>>

-----------------------------------------------------------------------------
(* Failures and restarts *)

Unlogged(w) == IF worker[w].step = "record" THEN {Payee(w)} ELSE {}

\* An await rejects.  Inside the loop of a pass the error is noted and the
\* loop goes on; anywhere else it ends the job.
StepFails(w) ==
    /\ worker[w].step # "idle"
    /\ audit.faults < MaxFaults
    /\ IF worker[w].gaps # <<>>
       THEN /\ GapDone(w)
            /\ audit' = [audit EXCEPT !.skipped = @ \cup {Head(worker[w].gaps)},
                                      !.unlogged = @ \cup Unlogged(w),
                                      !.faults = @ + 1]
       ELSE /\ worker' = [worker EXCEPT ![w] = Idle]
            /\ audit' = [audit EXCEPT !.unlogged = @ \cup Unlogged(w), !.faults = @ + 1]
    /\ UNCHANGED <<chainVars, tables>>

\* The process stops and starts again: what was in memory is gone.
Restart ==
    /\ audit.faults < MaxFaults
    /\ worker' = [w \in Worker |-> Idle]
    /\ audit' = [audit EXCEPT !.faults = @ + 1,
                    !.unlogged = @ \cup UNION {Unlogged(w) : w \in Worker}]
    /\ UNCHANGED <<chainVars, tables>>

-----------------------------------------------------------------------------

SyncInit ==
    /\ chain = [g \in Grant |-> 0] /\ ledger = 0 /\ log = <<>>
    /\ row = [g \in Grant |-> 0]
    /\ deadlines = [g \in Grant |-> 0]
    /\ reputation = [c \in Contributor |-> 0] /\ logged = [c \in Contributor |-> 0]
    /\ opened = [g \in Grant |-> 0]
    /\ feed = <<>> /\ checkpoint = NoCheckpoint
    /\ worker = [w \in Worker |-> Idle]
    /\ audit = [overlapped |-> FALSE, skipped |-> {}, unlogged |-> {}, faults |-> 0, requests |-> 0]

PassStep(w) ==
    BeginPass(w) \/ ReadCheckpoint(w) \/ BeginGap(w) \/ WriteActivity(w) \/ AdvanceCheckpoint(w)
SyncStep(w) ==
    \/ SaveGrant(w) \/ UpsertMilestones(w) \/ ReadLog(w) \/ SaveReputation(w) \/ SaveLog(w)
    \/ ReadDispute(w) \/ OpenDispute(w)

SyncNext ==
    \/ CloseLedger \/ Restart
    \/ \E w \in Worker :
          \/ PassStep(w) \/ SyncStep(w) \/ StepFails(w) \/ SyncAll(w)
          \/ \E g \in Grant : SyncOne(w, g)

-----------------------------------------------------------------------------

\* Behind the checkpoint nothing is missing: every event at or below it is in
\* the feed, except those a pass saw fail, those cut off by the page of
\* getEvents and those older than the first checkpoint
\* (reconciliation-service.ts:86-140).  Overlapping passes that move the
\* checkpoint back, restarts and failures included.
CheckpointCovers ==
    \A e \in DOMAIN log :
        log[e].ledger <= checkpoint => e \in ToSet(feed) \cup audit.skipped

\* One job at a time keeps the tables exact, restarts and failures included:
\* a grant has at most one open dispute row and a row is never older than a
\* recorded change of its grant; without a failure an event is recorded once
\* too, and a grant and its milestones are of one read
\* (reconciliation-service.ts:177-190: synced first, recorded afterwards).
SequentialJobsAreExact ==
    ~audit.overlapped =>
        /\ audit.faults = 0 => IsInjective(feed)
        /\ \A g \in Grant : opened[g] <= 1
        /\ \A e \in ToSet(feed) :
              IsGrantStateEvent(e) => row[log[e].grant] >= log[e].version
        /\ audit.faults = 0 /\ (\A w \in Worker : worker[w].step # "milestones")
              => row = deadlines

\* However syncs interleave, nobody holds more reputation than the log
\* accounts for, but for an award whose log was lost by a failure between the
\* two saves of grant-sync-service.ts:94-101.
ReputationIsLogged ==
    \A c \in Contributor \ audit.unlogged :
        reputation[c] <= Gain *
            (logged[c] + Cardinality({w \in Worker : worker[w].step = "record" /\ Payee(w) = c}))

PassFairness == \E w \in Worker : WF_syncVars(PassStep(w) \/ SyncStep(w))

\* Every event reaches the feed if a worker keeps running passes and finishes
\* them, unless a failure, the page or the first checkpoint cost it.
EventsReachFeed ==
    \A e \in 1..MaxEvents :
        []<>(e \in DOMAIN log => e \in ToSet(feed) \cup audit.skipped)
=============================================================================
