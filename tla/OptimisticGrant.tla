---------------------------- MODULE OptimisticGrant ----------------------------
(***************************************************************************)
(* What a page shows of a grant between the sending of a transaction and   *)
(* its end: OptimisticStore, TransactionTracker and useOptimisticGrant() of *)
(* the web frontend, and the OptimisticStateManager of the SDK.            *)
(* A state of the grant is the set of mutations it contains.               *)
(***************************************************************************)
EXTENDS Naturals, FiniteSets

CONSTANTS Mut  \* mutations of one grant: fundings, votes, proofs

VARIABLES
    cached,     \* the grant: confirmed and shown; its milestones: the same two
    predicted,  \* the milestones a mutation's own listener will confirm
    stage,      \* what each tracker was told last
    truth,      \* mutations the network has applied
    dead,       \* mutations it will never apply
    served,     \* the grant as the last poll of the page gave it
    operation,  \* the SDK's operations: none, predicted or actual
    snapshot,   \* its snapshots: the state before, for those that have one
    crossed     \* history: two mutations were under way at once

optimisticVars == <<cached, predicted, stage, truth, dead, served, operation, snapshot, crossed>>

SettledUpdates == {"confirmed", "failed"}
UnderWay == {m \in Mut : stage[m] \notin SettledUpdates \cup {"none"}}
NoState == <<>>

\* predictGrantState(): the mutation added to what is given.
Predict(state, m) == state \cup {m}

-----------------------------------------------------------------------------
(* OptimisticStateManager of the SDK: its operations and their snapshots    *)

\* What predictGrantCreate() .. predictMilestoneVote() return is marked
\* `optimistic`, until commit() puts the actual state in its place.
Marked == "predicted"
KeepOperation(m, before) ==
    /\ operation' = [operation EXCEPT ![m] = Marked]
    /\ snapshot' = [snapshot EXCEPT ![m] = <<before>>]
CommitOperation(m) ==
    /\ operation' = [operation EXCEPT ![m] = IF @ = "none" THEN @ ELSE "actual"]
    /\ snapshot' = [snapshot EXCEPT ![m] = NoState]
DropOperation(m) ==
    /\ operation' = [operation EXCEPT ![m] = "none"]
    /\ snapshot' = [snapshot EXCEPT ![m] = NoState]

-----------------------------------------------------------------------------

\* applyMutation(): the prediction starts from the confirmed state, so it takes
\* the place of one that is still shown.  The SDK's caller hands the state
\* before to apply().
ApplyMutation(m) ==
    /\ stage[m] = "none"
    /\ cached' = [cached EXCEPT !.shown = Predict(cached.confirmed, m),
                              !.msShown = Predict(cached.msConfirmed, m)]
    /\ predicted' = [predicted EXCEPT ![m] = Predict(cached.msConfirmed, m)]
    /\ KeepOperation(m, cached.shown)
    /\ stage' = [stage EXCEPT ![m] = "applied"]
    /\ crossed' = (crossed \/ UnderWay # {})
    /\ UNCHANGED <<truth, dead, served>>

\* markSigned() and markSubmitted() tell the listeners and change no state.
Advance(m) ==
    /\ \/ stage[m] = "applied" /\ stage' = [stage EXCEPT ![m] = "signed"]
       \/ stage[m] = "signed" /\ stage' = [stage EXCEPT ![m] = "submitted"]
    /\ UNCHANGED <<cached, predicted, truth, dead, served, operation, snapshot, crossed>>

\* OptimisticStore.commit(): whatever is shown is confirmed.
CommitUpdate == [cached EXCEPT !.confirmed = cached.shown]
\* Mutation: the milestones of the prediction stay.
RollbackGrantOnly == [cached EXCEPT !.shown = cached.confirmed]
\* OptimisticStore.rollback(): what is confirmed is shown.
Rollback == [cached EXCEPT !.shown = cached.confirmed, !.msShown = cached.msConfirmed]

\* markConfirmed(); the SDK's commit() keeps the operation.
MarkConfirmed(m) ==
    /\ stage[m] = "submitted" /\ m \in truth
    /\ stage' = [stage EXCEPT ![m] = "confirmed"]
    /\ cached' = [CommitUpdate EXCEPT !.msConfirmed = predicted[m]]
    /\ CommitOperation(m)
    /\ UNCHANGED <<predicted, truth, dead, served, crossed>>

\* markFailed(): refused by the wallet or the network, or no answer in time.
MarkFailed(m) ==
    /\ m \in UnderWay
    /\ stage[m] = "submitted" \/ m \notin truth
    /\ stage' = [stage EXCEPT ![m] = "failed"]
    /\ cached' = Rollback
    /\ dead' = IF stage[m] = "submitted" THEN dead ELSE dead \cup {m}
    /\ DropOperation(m)
    /\ UNCHANGED <<predicted, truth, served, crossed>>

\* A poll brings a grant that differs from the last one: setConfirmed().  The
\* hook's own milestones are left as they are.
Refresh ==
    /\ served # truth
    /\ served' = truth
    /\ cached' = [cached EXCEPT !.confirmed = truth, !.shown = truth]
    /\ UNCHANGED <<predicted, stage, truth, dead, operation, snapshot, crossed>>

\* clearOld(): operations of more than five minutes, settled or not.
ClearOld(m) ==
    /\ operation[m] # "none"
    /\ DropOperation(m)
    /\ UNCHANGED <<cached, predicted, stage, truth, dead, served, crossed>>

\* The network applies a transaction that was submitted, or never will.
NetworkDecides(m) ==
    /\ stage[m] \in {"submitted", "failed"} /\ m \notin truth \cup dead
    /\ \/ truth' = truth \cup {m} /\ UNCHANGED dead
       \/ dead' = dead \cup {m} /\ UNCHANGED truth
    /\ UNCHANGED <<cached, predicted, stage, served, operation, snapshot, crossed>>

-----------------------------------------------------------------------------

OptimisticInit ==
    /\ cached = [confirmed |-> {}, shown |-> {}, msConfirmed |-> {}, msShown |-> {}]
    /\ predicted = [m \in Mut |-> {}] /\ stage = [m \in Mut |-> "none"]
    /\ truth = {} /\ dead = {} /\ served = {}
    /\ operation = [m \in Mut |-> "none"] /\ snapshot = [m \in Mut |-> NoState]
    /\ crossed = FALSE

OptimisticNext ==
    \/ \E m \in Mut :
        \/ ApplyMutation(m) \/ Advance(m) \/ MarkConfirmed(m) \/ MarkFailed(m)
        \/ ClearOld(m) \/ NetworkDecides(m)
    \/ Refresh

-----------------------------------------------------------------------------

\* With one mutation under way at a time: nothing is confirmed that the network
\* did not apply, in the grant or its milestones; besides that only the mutation
\* under way is shown, and none when there is none.  (The stores confirm with
\* one mutation whatever another predicts, hence the condition.)
AloneIsExact ==
    ~crossed =>
        /\ cached.confirmed \cup cached.msConfirmed \subseteq truth
        /\ cached.shown \cup cached.msShown \subseteq truth \cup UnderWay
        /\ UnderWay = {} => cached.shown = cached.confirmed /\ cached.msShown = cached.msConfirmed

\* An SDK operation can be rolled back as long as it is a prediction, and only
\* then: the snapshot is there, and holds nothing of the mutation itself.
SnapshotsAreThere ==
    \A m \in Mut :
        /\ operation[m] = Marked <=> snapshot[m] # NoState
        /\ snapshot[m] # NoState => m \notin snapshot[m][1]

\* A prediction is what its mutations add, and a failed one is taken back (optimistic.ts).
PredictionsAreHonest == AloneIsExact /\ SnapshotsAreThere

\* The page polls; the network decides; wallets need not answer.
OptimisticFairness ==
    /\ WF_optimisticVars(Refresh)
    /\ \A m \in Mut : WF_optimisticVars(NetworkDecides(m) \/ MarkConfirmed(m))

\* When nothing is under way the page comes to show what the network applied.
PageCatchesUp == <>[](UnderWay = {} /\ ~crossed => cached.shown = truth)
=============================================================================
