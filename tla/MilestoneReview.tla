-------------------------- MODULE MilestoneReview --------------------------
(***************************************************************************)
(* How a milestone of a grant is submitted, reviewed and decided: the      *)
(* milestone entry points of lib.rs, governance.rs, quadratic.rs,          *)
(* auto_approve.rs, checklist.rs, invoice.rs, and the three ways in which  *)
(* the reviewers of a grant change after its creation (multi_grant.rs,     *)
(* reviewer_pool.rs, grant_transfer.rs).                                   *)
(*                                                                         *)
(* A contract call runs to its end or leaves no trace, so a call is one    *)
(* action and a call that fails is no step.  The money of a grant is left  *)
(* out here: its status changes by CloseGrant, which GrantProtocol         *)
(* replaces by the handlers of the money.                                  *)
(***************************************************************************)
EXTENDS Gates, Sequences, FiniteSets, Functions

CONSTANTS
    Person,           \* the addresses that may review
    Quadratic,        \* the grants created with VotingMechanism::Quadratic
    InitialReviewers, \* grant -> the reviewers it was created with
    AutoConfig,       \* the auto-approve settings an owner may store
    EntryPoints,      \* the entry points the environment calls
    MaxReviewers,     \* bound: the length of a reviewer list
    MaxReputation,    \* bound: nothing is submitted past this reputation
    MaxCredits,       \* bound: the voice credits allocated to a voter
    MaxTally          \* bound: the quadratic votes cast on a milestone

AllEntryPoints ==
    {"gates", "vote", "reject", "checklist", "invoice", "auto_approve",
     "add_reviewer", "remove_reviewer", "accept_request", "replace_reviewer",
     "credits", "cast_qv_vote", "extension", "close",
     "clock"}

\* The reviewer lists up to the bound, with duplicates.
ReviewerList == UNION {[1..n -> Person] : n \in 0..MaxReviewers}

ASSUME ReviewAssumption ==
    /\ IsFiniteSet(Person)
    /\ Quadratic \subseteq Grant
    /\ MaxReviewers \in Nat
    /\ InitialReviewers \in [Grant -> ReviewerList]
    /\ AutoConfig \subseteq [enabled : BOOLEAN, grace : Nat, minVotes : Nat]
    /\ MaxReputation \in Nat
    /\ {MaxCredits, MaxTally} \subseteq Nat
    /\ EntryPoints \subseteq AllEntryPoints

VARIABLES
    status,      \* grant -> "Active", "Cancelled" or "Completed"
    reviewers,   \* grant.reviewers; nothing keeps duplicates out
    milestone,   \* grant -> idx -> the stored milestone
    reputation,  \* DataKey::ReviewerReputation, 1 when absent
    checklist,   \* grant -> idx -> "none", "open" or "met"
    invoice,     \* grant -> idx -> "none" or the InvoiceStatus
    autoConfig,  \* grant -> the stored AutoApproveConfig, Disabled when absent
    autoRecord,  \* grant -> idx -> an AutoApproveRecord is stored
    extension,   \* grant -> idx -> the pending ExtensionRequest, if any
    qvTally,     \* grant -> idx -> the quadratic votes [for, against]
    credits      \* grant -> person -> NoRecord or the voice credits left

reviewVars == <<reviewers, milestone, reputation, checklist, invoice,
                autoConfig, autoRecord, extension, qvTally, credits>>
vars == <<gateVars, status, reviewVars>>

Status == {"Active", "Cancelled", "Completed"}
MilestoneState == {"Absent", "Submitted", "Approved", "Rejected"}
Vote == {"none", "approve", "reject"}
Disabled == [enabled |-> FALSE, grace |-> 0, minVotes |-> 0]

\* types.rs `Milestone`: the fields decisions depend on.  `snapshot` is
\* reviewer_count_snapshot; a deadline of NoRecord is None.
Milestone ==
    [state : MilestoneState, votes : [Person -> Vote], approvals : Nat,
     rejections : Nat, snapshot : Nat, submittedAt : Time,
     deadline : Until]

Absent ==
    [state |-> "Absent", votes |-> [p \in Person |-> "none"], approvals |-> 0,
     rejections |-> 0, snapshot |-> 0, submittedAt |-> 0, deadline |-> NoRecord]

\* types.rs `ExtensionRequest` while it is pending: the votes of the reviewers
\* and the deadline asked for, NoRecord when no request is pending.
ExtensionRequest == [until : Time \cup {NoRecord}, votes : [Person -> Vote]]

NoRequest == [until |-> NoRecord, votes |-> [p \in Person |-> "none"]]

\* Every stored record of the review has the type its struct in types.rs gives it.
ReviewTypeOK ==
    /\ status \in [Grant -> Status]
    /\ reviewers \in [Grant -> ReviewerList]
    /\ milestone \in [Grant -> [Index -> Milestone]]
    /\ reputation \in [Person -> Nat]
    /\ checklist \in [Grant -> [Index -> {"none", "open", "met"}]]
    /\ invoice \in [Grant -> [Index -> {"none", "Submitted", "Approved", "Rejected"}]]
    /\ autoConfig \in [Grant -> AutoConfig \cup {Disabled}]
    /\ autoRecord \in [Grant -> [Index -> BOOLEAN]]
    /\ extension \in [Grant -> [Index -> ExtensionRequest]]
    /\ qvTally \in [Grant -> [Index -> [for : Nat, against : Nat]]]
    /\ credits \in [Grant -> [Person -> Nat \cup {NoRecord}]]

\* The type invariant of the gates and the review together (types.rs).
TypeOK == GatesTypeOK /\ ReviewTypeOK

ReviewInit ==
    /\ status = [g \in Grant |-> "Active"]
    /\ reviewers = InitialReviewers
    /\ milestone = [g \in Grant |-> [i \in Index |-> Absent]]
    /\ reputation = [p \in Person |-> 1]
    /\ checklist = [g \in Grant |-> [i \in Index |-> "none"]]
    /\ invoice = [g \in Grant |-> [i \in Index |-> "none"]]
    /\ autoConfig = [g \in Grant |-> Disabled]
    /\ autoRecord = [g \in Grant |-> [i \in Index |-> FALSE]]
    /\ extension = [g \in Grant |-> [i \in Index |-> NoRequest]]
    /\ qvTally = [g \in Grant |-> [i \in Index |-> [for |-> 0, against |-> 0]]]
    /\ credits = [g \in Grant |-> [p \in Person |-> NoRecord]]

Init == GatesInit /\ ReviewInit

Uses(e) == e \in EntryPoints

IsReviewer(g, p) == \E k \in DOMAIN reviewers[g] : reviewers[g][k] = p

AllApproved(g) == \A i \in Index : milestone[g][i].state = "Approved"

-----------------------------------------------------------------------------
(* Votes of a milestone, as the code counts them.                          *)

\* governance.rs quorum_reached
QuorumReached(weight, total) == total # 0 /\ weight * 2 > total

ApprovalQuorum(m) == QuorumReached(m.approvals, m.snapshot)
RejectionQuorum(m) == QuorumReached(m.rejections, m.snapshot)

Voters(m, v) == {p \in Person : m.votes[p] = v}

\* Mutation of Counted: the tallies are swapped.
CountedSwapped(m, p, approve) ==
    IF approve
    THEN [m EXCEPT !.votes[p] = "approve", !.rejections = @ + reputation[p]]
    ELSE [m EXCEPT !.votes[p] = "reject", !.approvals = @ + reputation[p]]

\* One vote counts as much as the reputation of the reviewer who casts it.
Counted(m, p, approve) ==
    IF approve
    THEN [m EXCEPT !.votes[p] = "approve", !.approvals = @ + reputation[p]]
    ELSE [m EXCEPT !.votes[p] = "reject", !.rejections = @ + reputation[p]]

\* set_reviewer_reputation for every voter who sided with the outcome
Rewarded(ps) == [p \in Person |-> IF p \in ps THEN reputation[p] + 1 ELSE reputation[p]]

\* Mutations of MayVote: a decided milestone, a second vote of a reviewer.
MayVoteLate(g, i, p) == IsReviewer(g, p) /\ milestone[g][i].votes[p] = "none"
MayVoteAgain(g, i, p) == milestone[g][i].state = "Submitted" /\ IsReviewer(g, p)

\* What cast_vote asks of a vote outside quadratic voting.
MayVote(g, i, p) ==
    /\ milestone[g][i].state = "Submitted"
    /\ IsReviewer(g, p)
    /\ milestone[g][i].votes[p] = "none"

\* Mutation of Settled: a rejection is left to milestone_reject.
SettledApproval(m) == IF ApprovalQuorum(m) THEN [m EXCEPT !.state = "Approved"] ELSE m

\* The milestone cast_vote hands back, given the counted one.
Settled(m) ==
    IF ApprovalQuorum(m) THEN [m EXCEPT !.state = "Approved"]
    ELSE IF RejectionQuorum(m) THEN [m EXCEPT !.state = "Rejected"]
    ELSE m

\* The voters cast_vote rewards when the vote decided the milestone.
Aligned(m) ==
    IF ApprovalQuorum(m) THEN Voters(m, "approve")
    ELSE IF RejectionQuorum(m) THEN Voters(m, "reject")
    ELSE {}

\* quadratic.rs tally_votes and is_approved_qv, after one more vote
QvAfter(g, i, votes, favor) ==
    IF favor THEN [qvTally[g][i] EXCEPT !.for = @ + votes]
    ELSE [qvTally[g][i] EXCEPT !.against = @ + votes]

\* The quadratic branch of cast_vote finalizes on any strict majority of the
\* votes ever cast on this index and never looks at the state it replaces.
QvSettled(m, q) ==
    IF q.for > q.against THEN [m EXCEPT !.state = "Approved"]
    ELSE IF q.against > q.for THEN [m EXCEPT !.state = "Rejected"]
    ELSE m

\* Mutation of CreditCost: the cost is linear.
LinearCost(votes) == votes

\* quadratic.rs credit_cost
CreditCost(votes) == votes * votes

\* Mutation of SpendCredits: the credits left are not looked at.
SpendUnchecked(g, i, p, votes, favor) ==
    /\ credits[g][p] # NoRecord
    /\ qvTally[g][i].for + qvTally[g][i].against + votes <= MaxTally
    /\ credits' = [credits EXCEPT ![g][p] = @ - CreditCost(votes)]
    /\ qvTally' = [qvTally EXCEPT ![g][i] = QvAfter(g, i, votes, favor)]

\* quadratic.rs cast_qv_vote
SpendCredits(g, i, p, votes, favor) ==
    /\ credits[g][p] # NoRecord
    /\ CreditCost(votes) <= credits[g][p]
    /\ qvTally[g][i].for + qvTally[g][i].against + votes <= MaxTally
    /\ credits' = [credits EXCEPT ![g][p] = @ - CreditCost(votes)]
    /\ qvTally' = [qvTally EXCEPT ![g][i] = QvAfter(g, i, votes, favor)]

-----------------------------------------------------------------------------
(* Submission.                                                             *)

\* Mutation of PreviousApproved: it is enough that they were submitted.
PreviousSubmitted(g, i) == \A j \in Index : j < i => milestone[g][j].state # "Absent"

\* milestone_deps::can_submit
PreviousApproved(g, i) == \A j \in Index : j < i => milestone[g][j].state = "Approved"

\* apply_milestone_submission: a fresh milestone replaces the stored one.  The
\* checklist, the invoice, the quadratic votes and the auto-approve record of
\* the earlier submission stay.
SubmitMilestone(g, i) ==
    /\ status[g] = "Active"
    /\ ~GrantPaused(g)
    /\ milestone[g][i].state \notin {"Submitted", "Approved"}
    /\ PreviousApproved(g, i)
    /\ \A p \in Person : reputation[p] < MaxReputation
    /\ milestone' = [milestone EXCEPT ![g][i] =
                        [Absent EXCEPT !.state = "Submitted",
                                       !.snapshot = Len(reviewers[g]),
                                       !.submittedAt = now]]
    /\ UNCHANGED <<gateVars, status, reviewers, reputation, checklist, invoice,
                   autoConfig, autoRecord, extension, qvTally, credits>>

MilestoneSubmit(g, i) == GrantsGateOpen /\ SubmitMilestone(g, i)

\* milestone_submit_batch asks neither the breaker nor the rate limit.  A batch
\* is one submission: an index above another one of the batch finds it
\* Submitted, not Approved, and the call fails as a whole.
MilestoneSubmitBatch(g, i) == ~paused /\ SubmitMilestone(g, i)

-----------------------------------------------------------------------------
(* Review.  None of these asks whether the grant is still Active.          *)

\* milestone_vote outside quadratic voting: lib.rs stores what cast_vote
\* hands back, decided or not.
SimpleVote(g, i, p, approve) ==
    /\ g \notin Quadratic
    /\ MayVote(g, i, p)
    /\ LET counted == Counted(milestone[g][i], p, approve) IN
          /\ milestone' = [milestone EXCEPT ![g][i] = Settled(counted)]
          /\ reputation' = Rewarded(Aligned(counted))
    /\ UNCHANGED <<qvTally, credits>>

\* milestone_vote on a quadratic grant: any voter with credits, any state.
QuadraticVote(g, i, p, approve) ==
    /\ g \in Quadratic
    /\ milestone[g][i].state # "Absent"
    /\ SpendCredits(g, i, p, 1, approve)
    /\ milestone' = [milestone EXCEPT ![g][i] =
                        QvSettled(@, QvAfter(g, i, 1, approve))]
    /\ UNCHANGED reputation

\* An approval needs a checklist whose required criteria are all approved: a
\* milestone for which none was ever submitted can only be rejected here.
MilestoneVote(g, i, p, approve) ==
    /\ GrantsGateOpen
    /\ ~GrantPaused(g)
    /\ approve => checklist[g][i] = "met"
    /\ SimpleVote(g, i, p, approve) \/ QuadraticVote(g, i, p, approve)
    /\ UNCHANGED <<gateVars, status, reviewers, checklist, invoice,
                   autoConfig, autoRecord, extension>>

\* milestone_reject has its own threshold, looks at neither the voting
\* mechanism nor the pause of the grant, and rewards every voter against.
MilestoneReject(g, i, p) ==
    /\ GrantsGateOpen
    /\ MayVote(g, i, p)
    /\ LET counted  == Counted(milestone[g][i], p, FALSE)
           majority == counted.snapshot \div 2 + 1
           rejected == counted.rejections >= majority
       IN /\ milestone' = [milestone EXCEPT ![g][i] =
                IF rejected THEN [counted EXCEPT !.state = "Rejected"] ELSE counted]
          /\ reputation' = IF rejected THEN Rewarded(Voters(counted, "reject"))
                           ELSE reputation
    /\ UNCHANGED <<gateVars, status, reviewers, checklist, invoice,
                   autoConfig, autoRecord, extension, qvTally, credits>>

\* cast_qv_vote, the entry point: the votes are recorded, nothing is finalized.
CastQvVote(g, i, p, votes, favor) ==
    /\ ~paused
    /\ IsReviewer(g, p)
    /\ votes > 0
    /\ SpendCredits(g, i, p, votes, favor)
    /\ UNCHANGED <<gateVars, status, reviewers, milestone, reputation, checklist,
                   invoice, autoConfig, autoRecord, extension>>

\* allocate_voice_credits by the admin: what was spent before is forgotten.
AllocateCredits(g, p, total) ==
    /\ credits' = [credits EXCEPT ![g][p] = total]
    /\ UNCHANGED <<gateVars, status, reviewers, milestone, reputation, checklist,
                   invoice, autoConfig, autoRecord, extension, qvTally>>

-----------------------------------------------------------------------------
(* Checklists.  One required criterion stands for all of them.             *)

\* submit_checklist: once for an index, whatever happens to the milestone.
SubmitChecklist(g, i) ==
    /\ ~paused
    /\ checklist[g][i] = "none"
    /\ checklist' = [checklist EXCEPT ![g][i] = "open"]
    /\ UNCHANGED <<gateVars, status, reviewers, milestone, reputation, invoice,
                   autoConfig, autoRecord, extension, qvTally, credits>>

ReviewCriterion(g, i, p, approve) ==
    /\ ~paused
    /\ IsReviewer(g, p)
    /\ checklist[g][i] # "none"
    /\ checklist' = [checklist EXCEPT ![g][i] = IF approve THEN "met" ELSE "open"]
    /\ UNCHANGED <<gateVars, status, reviewers, milestone, reputation, invoice,
                   autoConfig, autoRecord, extension, qvTally, credits>>

-----------------------------------------------------------------------------
(* Invoices.  They ask the emergency pause and no other gate.              *)

\* submit_invoice and resubmit_invoice
SubmitInvoice(g, i) ==
    /\ ~paused
    /\ milestone[g][i].state # "Absent"
    /\ invoice[g][i] \in {"none", "Rejected"}
    /\ invoice' = [invoice EXCEPT ![g][i] = "Submitted"]
    /\ UNCHANGED <<gateVars, status, reviewers, milestone, reputation, checklist,
                   autoConfig, autoRecord, extension, qvTally, credits>>

RejectInvoice(g, i, p) ==
    /\ ~paused
    /\ IsReviewer(g, p)
    /\ invoice[g][i] = "Submitted"
    /\ invoice' = [invoice EXCEPT ![g][i] = "Rejected"]
    /\ UNCHANGED <<gateVars, status, reviewers, milestone, reputation, checklist,
                   autoConfig, autoRecord, extension, qvTally, credits>>

\* approve_invoice casts an approval on its copy of the milestone and stores
\* the copy only when the votes decide: the vote of a reviewer who does not
\* decide is lost.  On a quadratic grant a majority against the milestone
\* stores it as Rejected and its invoice as Approved.
ApproveInvoice(g, i, p) ==
    /\ ~paused
    /\ IsReviewer(g, p)
    /\ invoice[g][i] = "Submitted"
    /\ \/ /\ SimpleVote(g, i, p, TRUE)
          /\ ApprovalQuorum(milestone'[g][i])
       \/ /\ QuadraticVote(g, i, p, TRUE)
          /\ qvTally'[g][i].for # qvTally'[g][i].against
    /\ invoice' = [invoice EXCEPT ![g][i] = "Approved"]
    /\ UNCHANGED <<gateVars, status, reviewers, checklist,
                   autoConfig, autoRecord, extension>>

\* The undecided call: only a quadratic vote leaves a trace.
ApproveInvoiceUndecided(g, i, p) ==
    /\ ~paused
    /\ g \in Quadratic
    /\ IsReviewer(g, p)
    /\ invoice[g][i] = "Submitted"
    /\ milestone[g][i].state # "Absent"
    /\ SpendCredits(g, i, p, 1, TRUE)
    /\ qvTally'[g][i].for = qvTally'[g][i].against
    /\ UNCHANGED <<gateVars, status, reviewers, milestone, reputation, checklist,
                   invoice, autoConfig, autoRecord, extension>>

-----------------------------------------------------------------------------
(* Auto-approval and deadlines.  None of these consults a gate.            *)

SetAutoApprove(g, cfg) ==
    /\ autoConfig' = [autoConfig EXCEPT ![g] = cfg]
    /\ UNCHANGED <<gateVars, status, reviewers, milestone, reputation, checklist,
                   invoice, autoRecord, extension, qvTally, credits>>

\* The grace period runs from the deadline when there is one.
GraceEnd(g, i) ==
    LET m == milestone[g][i] IN
    (IF m.deadline > 0 THEN m.deadline ELSE m.submittedAt) + autoConfig[g].grace

\* try_auto_approve, by anybody: the weight of the votes cast counts, not their
\* direction, and a record of an earlier round rules a second one out.
AutoApprove(g, i) ==
    /\ autoConfig[g].enabled
    /\ milestone[g][i].state = "Submitted"
    /\ ~autoRecord[g][i]
    /\ now >= GraceEnd(g, i)
    /\ milestone[g][i].approvals + milestone[g][i].rejections >= autoConfig[g].minVotes
    /\ milestone' = [milestone EXCEPT ![g][i].state = "Approved"]
    /\ autoRecord' = [autoRecord EXCEPT ![g][i] = TRUE]
    /\ UNCHANGED <<gateVars, status, reviewers, reputation, checklist, invoice,
                   autoConfig, extension, qvTally, credits>>

\* Mutation of RequestExtension: any time to come will do.
RequestAnyTime(g, i, until) ==
    /\ milestone[g][i].state # "Absent"
    /\ extension[g][i].until = NoRecord
    /\ until > now
    /\ extension' = [extension EXCEPT ![g][i] = [NoRequest EXCEPT !.until = until]]
    /\ UNCHANGED <<gateVars, status, reviewers, milestone, reputation, checklist,
                   invoice, autoConfig, autoRecord, qvTally, credits>>

RequestExtension(g, i, until) ==
    /\ milestone[g][i].state # "Absent"
    /\ extension[g][i].until = NoRecord
    /\ until > now
    /\ until > milestone[g][i].deadline
    /\ extension' = [extension EXCEPT ![g][i] = [NoRequest EXCEPT !.until = until]]
    /\ UNCHANGED <<gateVars, status, reviewers, milestone, reputation, checklist,
                   invoice, autoConfig, autoRecord, qvTally, credits>>

WithdrawExtension(g, i) ==
    /\ extension[g][i].until # NoRecord
    /\ extension' = [extension EXCEPT ![g][i] = NoRequest]
    /\ UNCHANGED <<gateVars, status, reviewers, milestone, reputation, checklist,
                   invoice, autoConfig, autoRecord, qvTally, credits>>

\* vote_extension: the majority is of the reviewers of the moment, and the
\* deadline it sets was in the future when it was asked for.
VoteExtension(g, i, p, approve) ==
    LET voted    == [extension[g][i] EXCEPT !.votes[p] =
                        IF approve THEN "approve" ELSE "reject"]
        count(v) == Cardinality({q \in Person : voted.votes[q] = v})
        majority == Len(reviewers[g]) \div 2 + 1
    IN /\ extension[g][i].until # NoRecord
       /\ IsReviewer(g, p)
       /\ extension[g][i].votes[p] = "none"
       /\ extension' = [extension EXCEPT ![g][i] =
             IF count("approve") >= majority \/ count("reject") >= majority
             THEN NoRequest ELSE voted]
       /\ milestone' = IF count("approve") >= majority
                       THEN [milestone EXCEPT ![g][i].deadline = voted.until]
                       ELSE milestone
       /\ UNCHANGED <<gateVars, status, reviewers, reputation, checklist, invoice,
                      autoConfig, autoRecord, qvTally, credits>>

-----------------------------------------------------------------------------
(* The reviewers of a grant, which its milestones in review do not follow.  *)

ChangeReviewers(g, list) ==
    /\ list \in ReviewerList
    /\ reviewers' = [reviewers EXCEPT ![g] = list]
    /\ UNCHANGED <<gateVars, status, milestone, reputation, checklist, invoice,
                   autoConfig, autoRecord, extension, qvTally, credits>>

\* multi_grant::add_reviewer_to_grant: no list length limit, no duplicate.
AddReviewer(g, p) ==
    /\ ~IsReviewer(g, p)
    /\ ChangeReviewers(g, Append(reviewers[g], p))

\* remove_reviewer_from_grant drops every occurrence.
RemoveReviewer(g, p) ==
    /\ IsReviewer(g, p)
    /\ ChangeReviewers(g, SelectSeq(reviewers[g], LAMBDA q : q # p))

\* reviewer_pool::accept_request appends without looking.
AcceptRequest(g, p) == ChangeReviewers(g, Append(reviewers[g], p))

\* grant_transfer::accept_transfer of a reviewer role: the first occurrence is
\* replaced; a new holder who reviews already is then listed twice.
ReplaceReviewer(g, p, q) ==
    /\ ~paused
    /\ \E k \in DOMAIN reviewers[g] :
          /\ reviewers[g][k] = p
          /\ \A j \in DOMAIN reviewers[g] : j < k => reviewers[g][j] # p
          /\ ChangeReviewers(g, [reviewers[g] EXCEPT ![k] = q])

-----------------------------------------------------------------------------

\* cancel_grant, finalize_grant_release and the timers, seen from here.
CloseGrant(g, final) ==
    /\ status[g] = "Active"
    /\ status' = [status EXCEPT ![g] = final]
    /\ UNCHANGED <<gateVars, reviewVars>>

GateStep == GatesNext /\ UNCHANGED <<status, reviewVars>>

MilestoneStep(g, i) ==
    \/ MilestoneSubmit(g, i)
    \/ MilestoneSubmitBatch(g, i)
    \/ Uses("auto_approve") /\ AutoApprove(g, i)
    \/ Uses("checklist") /\ SubmitChecklist(g, i)
    \/ Uses("invoice") /\ SubmitInvoice(g, i)
    \/ Uses("extension") /\ \E until \in Time : RequestExtension(g, i, until)
    \/ Uses("extension") /\ WithdrawExtension(g, i)

ReviewerStep(g, i, p) ==
    \/ Uses("reject") /\ MilestoneReject(g, i, p)
    \/ Uses("invoice") /\ \/ RejectInvoice(g, i, p)
                          \/ ApproveInvoice(g, i, p)
                          \/ ApproveInvoiceUndecided(g, i, p)
    \/ \E approve \in BOOLEAN :
          \/ Uses("vote") /\ MilestoneVote(g, i, p, approve)
          \/ Uses("checklist") /\ ReviewCriterion(g, i, p, approve)
          \/ Uses("extension") /\ VoteExtension(g, i, p, approve)
          \/ Uses("cast_qv_vote") /\ \E votes \in 1..MaxCredits :
                CastQvVote(g, i, p, votes, approve)

MembershipStep(g, p) ==
    \/ Uses("add_reviewer") /\ AddReviewer(g, p)
    \/ Uses("remove_reviewer") /\ RemoveReviewer(g, p)
    \/ Uses("accept_request") /\ AcceptRequest(g, p)
    \/ Uses("replace_reviewer") /\ \E q \in Person : ReplaceReviewer(g, p, q)
    \/ Uses("credits") /\ AllocateCredits(g, p, MaxCredits)

ReviewNext ==
    \/ Uses("gates") /\ GateStep
    \/ Uses("clock") /\ Tick /\ UNCHANGED <<status, reviewVars>>
    \/ \E g \in Grant :
          \/ \E i \in Index : MilestoneStep(g, i)
          \/ \E i \in Index, p \in Person : ReviewerStep(g, i, p)
          \/ \E p \in Person : MembershipStep(g, p)
          \/ Uses("auto_approve") /\ \E cfg \in AutoConfig : SetAutoApprove(g, cfg)

Next ==
    \/ ReviewNext
    \/ Uses("close") /\ \E g \in Grant :
          \E final \in {"Cancelled", "Completed"} : CloseGrant(g, final)

Spec == Init /\ [][Next]_vars

-----------------------------------------------------------------------------
(* Safety.                                                                 *)

Simple == Grant \ Quadratic

\* Milestones are worked off in order: outside quadratic voting nothing is
\* submitted, approved or rejected while an earlier milestone is not approved
\* (milestone_deps::can_submit looks only at the moment of submission; that the
\* order stays is up to every later writer of a milestone).
DependencyOrder ==
    \A g \in Simple : \A i \in Index :
        milestone[g][i].state # "Absent" => PreviousApproved(g, i)

\* The vote entry point, the reject entry point and the invoice entry point
\* agree on what decides a milestone: an open milestone has no quorum either
\* way, an approved one has the approval quorum of its snapshot or was approved
\* automatically, a rejected one has the majority milestone_reject asks for.
OutcomeFollowsVotes ==
    \A g \in Simple : \A i \in Index : LET m == milestone[g][i] IN
        /\ m.state = "Submitted" => ~ApprovalQuorum(m) /\ ~RejectionQuorum(m)
        /\ m.state = "Approved" => ApprovalQuorum(m) \/ autoRecord[g][i]
        /\ m.state = "Rejected" =>
              m.rejections >= m.snapshot \div 2 + 1 /\ ~ApprovalQuorum(m)

\* The running tallies stay between the number of votes and what the voters
\* would weigh today: every vote counts once, with a weight that its reviewer
\* had, though reputations move while votes are open and votes of removed
\* reviewers stay.
TallyWithinVotes ==
    \A g \in Grant : \A i \in Index : LET m == milestone[g][i] IN
        /\ Cardinality(Voters(m, "approve")) <= m.approvals
        /\ m.approvals <= SumFunctionOnSet(reputation, Voters(m, "approve"))
        /\ Cardinality(Voters(m, "reject")) <= m.rejections
        /\ m.rejections <= SumFunctionOnSet(reputation, Voters(m, "reject"))

\* An approval is final outside quadratic voting: no later vote, rejection,
\* resubmission or invoice changes the votes or the state of an approved
\* milestone, on which the payout of the grant relies.
ApprovalIsFinal ==
    [][\A g \in Simple : \A i \in Index :
          milestone[g][i].state = "Approved" =>
             milestone'[g][i] = [milestone[g][i] EXCEPT
                                    !.deadline = milestone'[g][i].deadline]]_vars

\* A vote stays what it was until the milestone is submitted afresh, and a
\* fresh submission takes a rejection first.
VotesStand ==
    [][\A g \in Grant : \A i \in Index : \A p \in Person :
          milestone[g][i].votes[p] # "none" =>
             \/ milestone'[g][i].votes[p] = milestone[g][i].votes[p]
             \/ milestone[g][i].state = "Rejected" /\ milestone'[g][i].state = "Submitted"]_vars

\* A quadratic milestone is decided by its quadratic votes (quadratic.rs:97
\* "Determine approval using QV tally vs quorum threshold (>50% of total votes
\* cast)"): whichever entry point approves it, more votes are for it than
\* against it at that moment, and votes that reject it leave more against it,
\* though other votes were cast meanwhile that decided nothing (cast_qv_vote).
QvDecisionFollowsTally ==
    [][\A g \in Quadratic : \A i \in Index :
          LET decided == milestone'[g][i].state # milestone[g][i].state
              tally   == qvTally'[g][i]
          IN decided =>
                /\ milestone'[g][i].state = "Approved" => tally.for > tally.against
                /\ milestone'[g][i].state = "Rejected" /\ tally # qvTally[g][i] =>
                      tally.against > tally.for]_vars

QvCast(g, i) == qvTally[g][i].for + qvTally[g][i].against

\* Quadratic votes are never taken back and never free: whichever entry point
\* casts them (milestone_vote, cast_qv_vote, approve_invoice), k votes cost
\* their voter k^2 voice credits in the same call.
QvVotesArePaid ==
    [][\A g \in Grant : \A i \in Index :
          LET k == QvCast(g, i)' - QvCast(g, i) IN
          /\ k >= 0
          /\ k > 0 => \E p \in Person : credits[g][p] - credits'[g][p] = k * k]_vars

\* Quadratic voting is honest: votes are paid for and decide the milestone by their
\* tally (quadratic.rs, governance.rs).
QvIsHonest == QvVotesArePaid /\ QvDecisionFollowsTally

\* Within one submission the deadline of a milestone only moves forward, though
\* a request may be granted long after it was made (milestone_extension.rs).
DeadlineOnlyExtends ==
    [][\A g \in Grant : \A i \in Index :
          LET m == milestone[g][i] IN
          m.state # "Absent" =>
             \/ milestone'[g][i].deadline >= m.deadline
             \/ m.state = "Rejected" /\ milestone'[g][i].state = "Submitted"]_vars

\* emergency.rs:22 "Pause the contract.": no milestone changes its state while
\* the contract is paused, whichever entry point decides it.
NothingDecidedWhilePaused ==
    [][paused => \A g \in Grant : \A i \in Index :
          milestone'[g][i].state = milestone[g][i].state]_vars

-----------------------------------------------------------------------------
(* The promise: ReviewLifecycle for the grants outside quadratic voting,   *)
(* with the states of their milestones for its stages.  Quadratic grants   *)
(* do not keep it: see QvSettled.                                          *)

Promise == INSTANCE ReviewLifecycle WITH
    Grant  <- Simple,
    status <- [g \in Simple |-> status[g]],
    stage  <- [g \in Simple |-> [i \in Index |-> milestone[g][i].state]]

\* The review implements its abstract specification: whichever of the voting,
\* rejection, invoice and auto-approval handlers writes a milestone, its state
\* is seen to be submitted in order, decided while submitted, and final once
\* it is approved.
KeepsThePromise == Promise!LifecycleSpec
=============================================================================
