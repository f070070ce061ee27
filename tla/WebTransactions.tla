---------------------------- MODULE WebTransactions ----------------------------
(***************************************************************************)
(* What the pages of the web frontend say about the transactions they      *)
(* send: useContractTransaction() and the pages that call its execute(),   *)
(* a reviewer's vote (useVoting, VotePanel), a proof (MilestoneSubmitForm), *)
(* a new grant (Step4ReviewSubmit) and a council's decision (DisputePanel). *)
(* One page is open.  A page whose buttons come back while the wallet asks *)
(* for a signature can have several executions under way, which share the  *)
(* state of one hook.  The contract refuses a second vote, proof or        *)
(* decision, and takes any number of grants.                               *)
(***************************************************************************)
EXTENDS Naturals, Sequences, FiniteSets

CONSTANTS Exec,          \* executions: calls of a page's handler, one after the other
          MaxRpcErrors,  \* bound: RPC calls that reject
          MaxOthers      \* bound: other transactions of the account, other votes

ASSUME WebTransactionsAssumption ==
    Exec \subseteq Nat /\ {MaxRpcErrors, MaxOthers} \subseteq Nat

VARIABLES
    kind,          \* what the open page does
    hook,          \* isSimulating, isPending, isSuccess, txHash, error
    contractPage,  \* the state of the page itself, see WebTxInit
    exec,          \* each execution: step, what it asks for, its sequence number, verdict
    net,           \* what became of each execution's transaction
    sequence,      \* the account's next sequence number
    ledgerNow,     \* executions applied, in order
    live,          \* votes as the backend shows them: mine and how many others
    trouble        \* history: RPC calls that rejected, other transactions, overlaps

webTxVars == <<kind, hook, contractPage, exec, net, sequence, ledgerNow, live, trouble>>
networkVars == <<net, sequence, ledgerNow>>

Kinds == {"vote", "proof", "create", "resolve"}
None == 0
Quiet == [simulating |-> FALSE, pending |-> FALSE, success |-> FALSE, hash |-> None,
          error |-> FALSE]
NotStarted == [step |-> "idle", asks |-> "none", seq |-> 0, verdict |-> "none",
               second |-> FALSE, fault |-> FALSE]
AtWork == {e \in Exec : exec[e].step \notin {"idle", "done"}}
Applied == {ledgerNow[i] : i \in DOMAIN ledgerNow}

\* Only a transaction with 180 seconds to live outlasts 60 seconds of polling;
\* the others have 30.
Outlives == kind = "proof"

To(e, step) == exec' = [exec EXCEPT ![e].step = step]
Next1(e) == e \in Exec /\ exec[e].step = "idle" /\ \A d \in Exec : d < e => exec[d].step # "idle"

-----------------------------------------------------------------------------
(* What the pages offer *)

Busy == hook.simulating \/ hook.pending

\* The vote buttons and the keys A and R; vote() asks again.
VoteOffered == kind = "vote" /\ ~contractPage.submitting /\ contractPage.shown = "none"
\* The button of the form, with what it needs filled in.
ProofOffered == kind = "proof" /\ ~Busy /\ \A e \in Exec : exec[e].step # "upload"
\* "Deploy" and, with an error, "Retry": the modal lies over the page, and the
\* button keeps the focus.
CreateOffered == kind = "create" /\ ~Busy /\ contractPage.modal # "left"
\* "Confirm", for the decision that was chosen.
ResolveOffered == kind = "resolve" /\ ~Busy /\ contractPage.chosen # "none"

\* A handler begins, while others may be at work.
ExecStarts(e, asks, step) ==
    /\ Next1(e)
    /\ exec' = [exec EXCEPT ![e].asks = asks, ![e].step = step]
    /\ trouble' = [trouble EXCEPT !.overlapped = @ \/ AtWork # {}]
    /\ UNCHANGED <<kind, networkVars, live>>

\* useVoting: the vote is shown before it is sent.
CastVote(e, choice) ==
    /\ VoteOffered /\ choice \in {"yes", "no"}
    /\ ExecStarts(e, choice, "build")
    /\ contractPage' = [contractPage EXCEPT !.submitting = TRUE, !.shown = choice]
    /\ UNCHANGED hook
handleSubmit(e) ==
    /\ ProofOffered
    /\ ExecStarts(e, "none", "upload")
    /\ hook' = Quiet
    /\ UNCHANGED contractPage
handleDeploy(e) ==
    /\ CreateOffered
    /\ ExecStarts(e, "none", "build")
    /\ hook' = Quiet
    /\ contractPage' = [contractPage EXCEPT !.modal = "open"]
handleResolve(e) ==
    /\ ResolveOffered
    /\ ExecStarts(e, contractPage.chosen, "build")
    /\ hook' = Quiet
    /\ UNCHANGED contractPage

StartExec(e) ==
    \/ \E choice \in {"yes", "no"} : CastVote(e, choice)
    \/ handleSubmit(e) \/ handleDeploy(e) \/ handleResolve(e)

\* DisputePanel: a decision is chosen, or taken back.
Choose(choice) ==
    /\ kind = "resolve" /\ contractPage.chosen = "none"
    /\ contractPage' = [contractPage EXCEPT !.chosen = choice]
    /\ UNCHANGED <<kind, hook, exec, networkVars, live, trouble>>
TakeBack ==
    /\ kind = "resolve" /\ contractPage.chosen # "none" /\ ~Busy
    /\ contractPage' = [contractPage EXCEPT !.chosen = "none"]
    /\ hook' = Quiet
    /\ UNCHANGED <<kind, exec, networkVars, live, trouble>>

\* "Cancel" of the deployment that failed.
CancelDeploy ==
    /\ kind = "create" /\ contractPage.modal = "open" /\ hook.error
    /\ contractPage' = [contractPage EXCEPT !.modal = "closed"]
    /\ hook' = Quiet
    /\ UNCHANGED <<kind, exec, networkVars, live, trouble>>

-----------------------------------------------------------------------------
(* Ends of an execution *)

\* What the page does when execute() or the handler is over.
PageAfter(e, verdict) ==
    contractPage' = [contractPage EXCEPT
        !.submitting = FALSE,
        !.shown = IF kind = "vote" /\ verdict = "failed" THEN "none" ELSE @,
        !.chosen = IF verdict = "success" THEN "none" ELSE @,
        !.modal = IF kind = "create" /\ verdict = "success" THEN "leaving" ELSE @,
        !.told = IF verdict = "success" THEN exec[e].asks ELSE @]

\* The catch block of execute().  MilestoneSubmitForm then calls the method
\* under another name.
Fails(e, fault) ==
    LET again == kind = "proof" /\ ~exec[e].second IN
    /\ exec' = [exec EXCEPT ![e].step = IF again THEN "second" ELSE "done",
                            ![e].verdict = "failed", ![e].fault = @ \/ fault]
    /\ hook' = [hook EXCEPT !.simulating = FALSE, !.pending = FALSE, !.error = TRUE]
    /\ PageAfter(e, "failed")

\* One of the RPC calls rejects.
Rejects == trouble.errors < MaxRpcErrors /\ trouble' = [trouble EXCEPT !.errors = @ + 1]

Succeeds(e) ==
    /\ exec' = [exec EXCEPT ![e].step = "done", ![e].verdict = "success"]
    /\ hook' = [hook EXCEPT !.success = TRUE, !.pending = FALSE]
    /\ PageAfter(e, "success")

\* The modal closes two seconds later and the page is left.
Leave ==
    /\ contractPage.modal = "leaving"
    /\ contractPage' = [contractPage EXCEPT !.modal = "left"]
    /\ UNCHANGED <<kind, hook, exec, networkVars, live, trouble>>

-----------------------------------------------------------------------------
(* execute() *)

\* The proof is pinned, and execute() begins; a failed upload ends the handler.
Upload(e) ==
    /\ exec[e].step = "upload"
    /\ \/ /\ To(e, "build")
          /\ hook' = [Quiet EXCEPT !.simulating = TRUE]
          /\ UNCHANGED trouble
       \/ /\ Rejects
          /\ exec' = [exec EXCEPT ![e].step = "done", ![e].verdict = "failed"]
          /\ UNCHANGED hook
    /\ UNCHANGED <<kind, contractPage, networkVars, live>>

\* The account is loaded for its sequence number: inside execute() by the form, and
\* before it begins by ContractClient, for the others.
Load(e) ==
    /\ exec[e].step = "build"
    /\ exec' = [exec EXCEPT ![e].step = "simulate", ![e].seq = sequence]
    /\ hook' = [Quiet EXCEPT !.simulating = TRUE]
    /\ UNCHANGED <<kind, contractPage, networkVars, live, trouble>>
Build(e) == kind = "proof" /\ Load(e)
BuildWriteXdr(e) == kind # "proof" /\ Load(e)

\* It fails: the form and a vote say so; the other two handlers write to the
\* console.
BuildFails(e) ==
    /\ exec[e].step = "build" /\ Rejects
    /\ IF kind = "proof" THEN Fails(e, FALSE)
       ELSE /\ exec' = [exec EXCEPT ![e].step = "done", ![e].verdict = "failed"]
            /\ PageAfter(e, "failed")
            /\ UNCHANGED hook
    /\ UNCHANGED <<kind, networkVars, live>>

\* The simulation: refused by the contract, or assembled for the wallet.  While
\* the wallet asks, neither flag is set.
Refused == kind # "create" /\ ledgerNow # <<>>
Simulate(e) ==
    /\ exec[e].step = "simulate"
    /\ IF Refused \/ exec[e].second
       THEN Fails(e, FALSE)
       ELSE /\ To(e, "sign")
            /\ hook' = [hook EXCEPT !.simulating = FALSE]
            /\ UNCHANGED contractPage
    /\ UNCHANGED <<kind, networkVars, live, trouble>>
SimulateFails(e) ==
    /\ exec[e].step = "simulate" /\ Rejects
    /\ Fails(e, FALSE)
    /\ UNCHANGED <<kind, networkVars, live>>

Sign(e) ==
    /\ exec[e].step = "sign"
    /\ To(e, "send")
    /\ hook' = [hook EXCEPT !.pending = TRUE]
    /\ UNCHANGED <<kind, contractPage, networkVars, live, trouble>>
RejectSigning(e) ==
    /\ exec[e].step = "sign"
    /\ Fails(e, FALSE)
    /\ UNCHANGED <<kind, networkVars, live, trouble>>

\* sendTransaction(): accepted; or TRY_AGAIN_LATER three times, which is polled
\* for like an accepted one.
SendHash(e) ==
    /\ exec[e].step = "send"
    /\ To(e, "poll")
    /\ hook' = [hook EXCEPT !.hash = e]
    /\ \/ net' = [net EXCEPT ![e] = "pending"]
       \/ UNCHANGED net
    /\ UNCHANGED <<kind, contractPage, sequence, ledgerNow, live, trouble>>
\* It answers ERROR; or it rejects, whether the transaction reached the node or not.
SendHashFails(e, reached) ==
    /\ exec[e].step = "send"
    /\ \/ ~reached /\ Fails(e, FALSE) /\ UNCHANGED <<net, trouble>>
       \/ /\ Rejects /\ Fails(e, TRUE)
          /\ net' = IF reached THEN [net EXCEPT ![e] = "pending"] ELSE net
    /\ UNCHANGED <<kind, sequence, ledgerNow, live>>

PollHash(e) ==
    /\ exec[e].step = "poll"
    /\ \/ net[e] = "applied" /\ Succeeds(e)
       \/ net[e] = "failed" /\ Fails(e, FALSE)
    /\ UNCHANGED <<kind, networkVars, live, trouble>>
\* 60 seconds of polling are over.
GiveUp(e) ==
    /\ exec[e].step = "poll"
    /\ net[e] \in {"none", "expired"} \/ Outlives
    /\ Fails(e, FALSE)
    /\ UNCHANGED <<kind, networkVars, live, trouble>>
\* A poll that rejects is the end.
PollFails(e) ==
    /\ exec[e].step = "poll" /\ Rejects
    /\ Fails(e, TRUE)
    /\ UNCHANGED <<kind, networkVars, live>>

\* MilestoneSubmitForm calls "milestoneSubmit" when "milestone_submit" gave no
\* hash, for whatever reason; the contract has no such function.
SecondName(e) ==
    /\ exec[e].step = "second"
    /\ exec' = [exec EXCEPT ![e].step = "build", ![e].second = TRUE]
    /\ hook' = [Quiet EXCEPT !.simulating = TRUE]
    /\ UNCHANGED <<kind, contractPage, networkVars, live, trouble>>

-----------------------------------------------------------------------------
(* The network and the backend (external) *)

ApplyWebTx(e) ==
    /\ net[e] = "pending" /\ exec[e].seq = sequence
    /\ sequence' = sequence + 1
    /\ IF Refused THEN net' = [net EXCEPT ![e] = "failed"] /\ UNCHANGED ledgerNow
       ELSE net' = [net EXCEPT ![e] = "applied"] /\ ledgerNow' = Append(ledgerNow, e)
    /\ UNCHANGED <<kind, hook, contractPage, exec, live, trouble>>
ExpireWebTx(e) ==
    /\ net[e] = "pending"
    /\ net' = [net EXCEPT ![e] = "expired"]
    /\ UNCHANGED <<kind, hook, contractPage, exec, sequence, ledgerNow, live, trouble>>

\* The account sends something from elsewhere; another reviewer votes.
OtherTx ==
    /\ trouble.others < MaxOthers
    /\ trouble' = [trouble EXCEPT !.others = @ + 1]
    /\ \/ sequence' = sequence + 1 /\ UNCHANGED live
       \/ kind = "vote" /\ live' = [live EXCEPT !.others = @ + 1] /\ UNCHANGED sequence
    /\ UNCHANGED <<kind, hook, contractPage, exec, net, ledgerNow>>

\* The backend learns of my vote.
IndexVote ==
    /\ kind = "vote" /\ ledgerNow # <<>> /\ live.mine = "none"
    /\ live' = [live EXCEPT !.mine = exec[ledgerNow[1]].asks]
    /\ UNCHANGED <<kind, hook, contractPage, exec, networkVars, trouble>>

\* useMilestone() polls; votes that differ from the last ones replace mine.
SyncVotes ==
    /\ kind = "vote" /\ live # contractPage.lastLive
    /\ contractPage' = [contractPage EXCEPT !.lastLive = live, !.shown = live.mine]
    /\ UNCHANGED <<kind, hook, exec, networkVars, live, trouble>>

-----------------------------------------------------------------------------

\* shown and lastLive: useVoting's votes; chosen: confirmingAction of the
\* dispute; modal: Step4's; told: what the last message of success was about.
WebTxInit ==
    /\ kind \in Kinds
    /\ hook = Quiet
    /\ live = [mine |-> "none", others |-> 0]
    /\ contractPage = [submitting |-> FALSE, shown |-> "none", lastLive |-> live, chosen |-> "none",
               modal |-> "closed", told |-> "nothing"]
    /\ exec = [e \in Exec |-> NotStarted] /\ net = [e \in Exec |-> "none"]
    /\ sequence = 1 /\ ledgerNow = <<>>
    /\ trouble = [errors |-> 0, others |-> 0, overlapped |-> FALSE]

ExecStep(e) ==
    \/ Upload(e) \/ Build(e) \/ BuildWriteXdr(e) \/ Simulate(e)
    \/ SendHash(e) \/ PollHash(e) \/ GiveUp(e) \/ SecondName(e)
NetStep(e) == ApplyWebTx(e) \/ ExpireWebTx(e)

WebTxNext ==
    \/ \E e \in Exec :
        \/ StartExec(e) \/ ExecStep(e) \/ NetStep(e) \/ Sign(e) \/ RejectSigning(e)
        \/ BuildFails(e) \/ SimulateFails(e) \/ PollFails(e)
        \/ \E reached \in BOOLEAN : SendHashFails(e, reached)
    \/ \E choice \in {"yes", "no"} : Choose(choice)
    \/ TakeBack \/ CancelDeploy \/ Leave
    \/ OtherTx \/ IndexVote \/ SyncVotes

-----------------------------------------------------------------------------

\* A page that says "success" says the truth, of the transaction it shows if
\* executions did not overlap; its message is about what was applied.
SuccessIsTrue ==
    /\ \A e \in Exec : exec[e].verdict = "success" => e \in Applied
    /\ hook.success => \E e \in Applied : exec[e].verdict = "success"
    /\ hook.success /\ ~trouble.overlapped => hook.hash \in Applied
    /\ contractPage.told # "nothing" => \E e \in Applied : exec[e].asks = contractPage.told

\* A page that says "failed" is right for ever, unless an RPC call rejected on
\* the way: nothing of the execution is applied later, because 60 seconds of
\* polling outlast the 30 a transaction of ContractClient has to live.  So a
\* retry does not make a second grant.
FailureIsFinal ==
    \A e \in Exec :
        exec[e].step = "done" /\ exec[e].verdict = "failed" /\ ~exec[e].fault /\ ~Outlives
            => e \notin Applied /\ net[e] # "pending"

\* The vote a page shows as mine, while it sends none, is on the chain.
ShownVoteExists ==
    contractPage.shown # "none" /\ ~contractPage.submitting => \E e \in Applied : exec[e].asks = contractPage.shown

\* When nothing is under way the page is usable again: no flag is left set, a
\* vote is not "submitting", and the deployment's modal can be closed, unless
\* the account could not be loaded (it then says "Preparing" for good).
PageComesBack ==
    AtWork = {} =>
        /\ ~Busy /\ ~contractPage.submitting
        /\ contractPage.modal = "open" => hook.error \/ \E e \in Exec : exec[e].seq = 0 /\ exec[e].step = "done"

\* What a page says of its transaction is so, and the page stays usable (useContractTransaction.ts).
PagesAreHonest == SuccessIsTrue /\ FailureIsFinal /\ ShownVoteExists /\ PageComesBack

\* RPC calls are answered, a transaction is applied or expires, and 60 seconds
\* of polling come to an end; a wallet need not answer.
WebTxFairness ==
    /\ \A e \in Exec : WF_webTxVars(ExecStep(e)) /\ WF_webTxVars(NetStep(e))
    /\ WF_webTxVars(Leave)

\* A handler comes to an end, or waits for the wallet.
HandlersEnd ==
    \A e \in Exec : []<>(exec[e].step \in {"idle", "done", "sign"})
=============================================================================
