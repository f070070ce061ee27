----------------------- MODULE MilestoneReview_proofs -----------------------
(***************************************************************************)
(* Theorems about MilestoneReview, for any grants, reviewers and settings: *)
(* its type invariant, that it implements ReviewLifecycle, and that what   *)
(* is decided follows the votes and stays decided.                         *)
(***************************************************************************)
EXTENDS MilestoneReview, FiniteSums

-----------------------------------------------------------------------------
(* Types.                                                                  *)

\* The votes of a milestone after one more, and its state after a decision,
\* are those of a milestone.
LEMMA CountedType ==
  ASSUME reputation \in [Person -> Nat], NEW m \in Milestone, NEW p \in Person,
         NEW approve \in BOOLEAN
  PROVE  /\ Counted(m, p, approve) \in Milestone
         /\ Settled(Counted(m, p, approve)) \in Milestone
<1>1. Counted(m, p, approve) \in Milestone
  <2> DEFINE w == reputation[p]
             votes(v) == [m.votes EXCEPT ![p] = v]
             approvals == m.approvals + w
             rejections == m.rejections + w
  <2>1. /\ approvals \in Nat
        /\ rejections \in Nat
        /\ votes("approve") \in [Person -> Vote]
        /\ votes("reject") \in [Person -> Vote]
    BY DEF Milestone, Vote
  <2>2. CASE approve
    <3>1. Counted(m, p, approve) =
             [m EXCEPT !.votes = votes("approve"), !.approvals = approvals]
      BY <2>2 DEF Counted, Milestone
    <3> HIDE DEF votes, approvals, rejections
    <3> QED BY <2>1, <3>1 DEF Milestone
  <2>3. CASE ~approve
    <3>1. Counted(m, p, approve) =
             [m EXCEPT !.votes = votes("reject"), !.rejections = rejections]
      BY <2>3 DEF Counted, Milestone
    <3> HIDE DEF votes, approvals, rejections
    <3> QED BY <2>1, <3>1 DEF Milestone
  <2> QED BY <2>2, <2>3
<1>2. ASSUME NEW c \in Milestone PROVE Settled(c) \in Milestone
  BY DEF Settled, Milestone, MilestoneState
<1> QED BY <1>1, <1>2

LEMMA QvTypes ==
  ASSUME NEW m \in Milestone, NEW q \in [for : Nat, against : Nat]
  PROVE  QvSettled(m, q) \in Milestone
  BY DEF QvSettled, Milestone, MilestoneState

LEMMA AbsentType == Absent \in Milestone
  BY MaxTimeAssumption DEF Absent, Milestone, MilestoneState, Vote, Time, Until, NoRecord

LEMMA FreshType ==
  ASSUME NEW n \in Nat, NEW t \in Time
  PROVE  [Absent EXCEPT !.state = "Submitted", !.snapshot = n, !.submittedAt = t]
            \in Milestone
  BY AbsentType DEF Milestone, MilestoneState

\* The parts of the stored records that decisions write.
LEMMA StoredType ==
  ASSUME ReviewTypeOK, NEW g \in Grant, NEW i \in Index
  PROVE  milestone[g][i] \in Milestone /\ extension[g][i] \in ExtensionRequest
  BY DEF ReviewTypeOK

LEMMA StateType ==
  ASSUME NEW m \in Milestone, NEW s \in MilestoneState
  PROVE  [m EXCEPT !.state = s] \in Milestone
  BY DEF Milestone

LEMMA DeadlineType ==
  ASSUME NEW m \in Milestone, NEW until \in Time
  PROVE  [m EXCEPT !.deadline = until] \in Milestone
  BY DEF Milestone, Until

\* Quadratic votes are added to the tally and taken out of the credits that
\* cover them.
LEMMA SpendCreditsType ==
  ASSUME ReviewTypeOK, NEW g \in Grant, NEW i \in Index, NEW p \in Person,
         NEW votes \in Nat, NEW favor \in BOOLEAN, SpendCredits(g, i, p, votes, favor)
  PROVE  /\ qvTally' \in [Grant -> [Index -> [for : Nat, against : Nat]]]
         /\ credits' \in [Grant -> [Person -> Nat \cup {NoRecord}]]
         /\ QvAfter(g, i, votes, favor) \in [for : Nat, against : Nat]
<1> DEFINE left == credits[g][p] - CreditCost(votes)
<1>1. CreditCost(votes) \in Nat
  BY DEF CreditCost
<1>2. left \in Nat
  BY <1>1 DEF SpendCredits, ReviewTypeOK, NoRecord
<1>3. credits' = [credits EXCEPT ![g][p] = left]
  BY DEF SpendCredits
<1>4. credits' \in [Grant -> [Person -> Nat \cup {NoRecord}]]
  <2> HIDE DEF left
  <2> QED BY <1>2, <1>3 DEF ReviewTypeOK
<1>5. QvAfter(g, i, votes, favor) \in [for : Nat, against : Nat]
  <2>1. qvTally[g][i] \in [for : Nat, against : Nat]
    BY DEF ReviewTypeOK
  <2>2. CASE favor
    BY <2>1, <2>2 DEF QvAfter
  <2>3. CASE ~favor
    BY <2>1, <2>3 DEF QvAfter
  <2> QED BY <2>2, <2>3
<1>6. qvTally' = [qvTally EXCEPT ![g][i] = QvAfter(g, i, votes, favor)]
  BY DEF SpendCredits
<1> QED BY <1>4, <1>5, <1>6 DEF ReviewTypeOK

\* The gates keep their types, from a clock at 0 and every flag in its initial
\* state on (the steps of GatesNext never read anything of the review).
LEMMA GatesKeepTypes ==
    /\ GatesInit => GatesTypeOK
    /\ GatesTypeOK /\ GatesNext => GatesTypeOK'
<1>1. 0 \in Time
  BY MaxTimeAssumption DEF Time
<1>2. GatesInit => GatesTypeOK
  BY <1>1 DEF GatesInit, GatesTypeOK, Until
<1>3. GatesTypeOK /\ GatesNext => GatesTypeOK'
  <2> SUFFICES ASSUME GatesTypeOK, GatesNext PROVE GatesTypeOK'
    OBVIOUS
  <2> USE DEF GatesTypeOK, Until, Time
  <2>1. CASE EmergencyPause \/ EmergencyUnpause
    BY <2>1 DEF EmergencyPause, EmergencyUnpause
  <2>4. CASE Tick
    BY <2>4, MaxTimeAssumption DEF Tick
  <2>2. CASE \E m \in Module : Reset(m) \/ \E until \in Until : Trip(m, until)
    BY <2>2 DEF Reset, Trip
  <2>3. CASE \E g \in Grant : UnpauseGrant(g) \/ \E until \in Until : PauseGrant(g, until)
    BY <2>3 DEF UnpauseGrant, PauseGrant
  <2> QED BY <2>1, <2>2, <2>3, <2>4 DEF GatesNext
<1> QED BY <1>2, <1>3

LEMMA InitTypeOK == Init => TypeOK
<1>1. ASSUME Init PROVE ReviewTypeOK
  BY <1>1, AbsentType, ReviewAssumption
     DEF Init, ReviewInit, ReviewTypeOK, Status, Disabled, ExtensionRequest,
         NoRequest, Vote, NoRecord
<1> QED BY <1>1, GatesKeepTypes DEF Init, TypeOK

\* Submission, auto-approval, checklists, invoices and extension requests.
LEMMA MilestoneStepTypeOK ==
  ASSUME TypeOK, NEW g \in Grant, NEW i \in Index, MilestoneStep(g, i)
  PROVE  ReviewTypeOK'
<1> USE DEF TypeOK, ReviewTypeOK
<1>1. ASSUME SubmitMilestone(g, i) PROVE ReviewTypeOK'
  <2> DEFINE fresh == [Absent EXCEPT !.state = "Submitted",
                                     !.snapshot = Len(reviewers[g]),
                                     !.submittedAt = now]
  <2>1. Len(reviewers[g]) \in Nat
    BY ReviewAssumption DEF ReviewerList
  <2>2. fresh \in Milestone
    BY <2>1, FreshType DEF GatesTypeOK
  <2>3. milestone' = [milestone EXCEPT ![g][i] = fresh]
    BY <1>1 DEF SubmitMilestone
  <2> HIDE DEF fresh
  <2> QED BY <1>1, <2>2, <2>3 DEF SubmitMilestone
<1>2. CASE AutoApprove(g, i)
  <2>1. [milestone[g][i] EXCEPT !.state = "Approved"] \in Milestone
    BY StoredType, StateType DEF MilestoneState
  <2> QED BY <1>2, <2>1 DEF AutoApprove
<1>3. CASE SubmitChecklist(g, i)
  BY <1>3 DEF SubmitChecklist
<1>4. CASE SubmitInvoice(g, i)
  BY <1>4 DEF SubmitInvoice
<1>5. ASSUME NEW until \in Time, RequestExtension(g, i, until)
      PROVE  ReviewTypeOK'
  <2>1. [NoRequest EXCEPT !.until = until] \in ExtensionRequest
    BY DEF NoRequest, ExtensionRequest, Vote
  <2> QED BY <1>5, <2>1 DEF RequestExtension
<1>6. CASE WithdrawExtension(g, i)
  <2>1. NoRequest \in ExtensionRequest
    BY DEF NoRequest, ExtensionRequest, Vote
  <2> QED BY <1>6, <2>1 DEF WithdrawExtension
<1> QED BY <1>1, <1>2, <1>3, <1>4, <1>5, <1>6, MilestoneStep(g, i)
        DEF MilestoneStep, MilestoneSubmit, MilestoneSubmitBatch

\* The reputations after a decision are still natural numbers.
LEMMA RewardedType ==
  ASSUME reputation \in [Person -> Nat], NEW ps
  PROVE  Rewarded(ps) \in [Person -> Nat]
  BY DEF Rewarded

\* What a plain vote writes.
LEMMA SimpleVoteTypes ==
  ASSUME ReviewTypeOK, NEW g \in Grant, NEW i \in Index, NEW p \in Person,
         NEW approve \in BOOLEAN, SimpleVote(g, i, p, approve)
  PROVE  /\ milestone' \in [Grant -> [Index -> Milestone]]
         /\ reputation' \in [Person -> Nat]
         /\ UNCHANGED <<qvTally, credits>>
<1> DEFINE counted == Counted(milestone[g][i], p, approve)
<1>1. Settled(counted) \in Milestone
  BY CountedType DEF ReviewTypeOK
<1>2. Rewarded(Aligned(counted)) \in [Person -> Nat]
  BY RewardedType DEF ReviewTypeOK
<1>3. /\ milestone' = [milestone EXCEPT ![g][i] = Settled(counted)]
      /\ reputation' = Rewarded(Aligned(counted))
      /\ UNCHANGED <<qvTally, credits>>
  BY DEF SimpleVote
<1> HIDE DEF counted
<1> QED BY <1>1, <1>2, <1>3 DEF ReviewTypeOK

\* What a quadratic vote writes.
LEMMA QuadraticVoteTypes ==
  ASSUME ReviewTypeOK, NEW g \in Grant, NEW i \in Index, NEW p \in Person,
         NEW approve \in BOOLEAN, QuadraticVote(g, i, p, approve)
  PROVE  /\ milestone' \in [Grant -> [Index -> Milestone]]
         /\ reputation' \in [Person -> Nat]
         /\ qvTally' \in [Grant -> [Index -> [for : Nat, against : Nat]]]
         /\ credits' \in [Grant -> [Person -> Nat \cup {NoRecord}]]
<1>1. SpendCredits(g, i, p, 1, approve)
  BY DEF QuadraticVote
<1>2. QvSettled(milestone[g][i], QvAfter(g, i, 1, approve)) \in Milestone
  BY <1>1, SpendCreditsType, QvTypes DEF ReviewTypeOK
<1>3. milestone' \in [Grant -> [Index -> Milestone]]
  BY <1>2 DEF QuadraticVote, ReviewTypeOK
<1>4. reputation' = reputation
  BY DEF QuadraticVote
<1> QED BY <1>1, <1>3, <1>4, SpendCreditsType DEF ReviewTypeOK

LEMMA VoteTypes ==
  ASSUME ReviewTypeOK, NEW g \in Grant, NEW i \in Index, NEW p \in Person,
         NEW approve \in BOOLEAN,
         SimpleVote(g, i, p, approve) \/ QuadraticVote(g, i, p, approve)
  PROVE  /\ milestone' \in [Grant -> [Index -> Milestone]]
         /\ reputation' \in [Person -> Nat]
         /\ qvTally' \in [Grant -> [Index -> [for : Nat, against : Nat]]]
         /\ credits' \in [Grant -> [Person -> Nat \cup {NoRecord}]]
<1>1. CASE SimpleVote(g, i, p, approve)
  BY <1>1, SimpleVoteTypes DEF ReviewTypeOK
<1>2. CASE QuadraticVote(g, i, p, approve)
  BY <1>2, QuadraticVoteTypes
<1> QED BY <1>1, <1>2

\* What a vote on an extension writes.
LEMMA VoteExtensionTypes ==
  ASSUME ReviewTypeOK, NEW g \in Grant, NEW i \in Index, NEW p \in Person,
         NEW approve \in BOOLEAN, VoteExtension(g, i, p, approve)
  PROVE  /\ milestone' \in [Grant -> [Index -> Milestone]]
         /\ extension' \in [Grant -> [Index -> ExtensionRequest]]
<1> DEFINE vote == IF approve THEN "approve" ELSE "reject"
           voted == [extension[g][i] EXCEPT !.votes[p] = vote]
<1>1. extension[g][i] \in ExtensionRequest
  BY StoredType
<1>2. extension[g][i].until \in Time
  BY <1>1 DEF VoteExtension, ExtensionRequest
<1>3. vote \in Vote
  BY DEF Vote
<1> HIDE DEF vote
<1>4. voted \in ExtensionRequest /\ voted.until \in Time
  BY <1>1, <1>2, <1>3 DEF ExtensionRequest
<1>5. NoRequest \in ExtensionRequest
  BY DEF NoRequest, ExtensionRequest, Vote
<1>6. /\ \/ extension' = [extension EXCEPT ![g][i] = NoRequest]
         \/ extension' = [extension EXCEPT ![g][i] = voted]
      /\ \/ milestone' = [milestone EXCEPT ![g][i] =
                              [milestone[g][i] EXCEPT !.deadline = voted.until]]
         \/ milestone' = milestone
  BY DEF VoteExtension, vote
<1> HIDE DEF voted
<1>7. [milestone[g][i] EXCEPT !.deadline = voted.until] \in Milestone
  BY <1>4, StoredType, DeadlineType
<1> DEFINE after == [milestone[g][i] EXCEPT !.deadline = voted.until]
<1>8. /\ milestone \in [Grant -> [Index -> Milestone]]
      /\ extension \in [Grant -> [Index -> ExtensionRequest]]
  BY DEF ReviewTypeOK
<1> HIDE DEF after
<1>9. milestone' \in [Grant -> [Index -> Milestone]]
  <2>1. after \in Milestone
    BY <1>7 DEF after
  <2>2. milestone' = [milestone EXCEPT ![g][i] = after] \/ milestone' = milestone
    BY <1>6 DEF after
  <2>3. [milestone EXCEPT ![g][i] = after] \in [Grant -> [Index -> Milestone]]
    BY <1>8, <2>1
  <2> QED BY <1>8, <2>2, <2>3
<1>10. extension' \in [Grant -> [Index -> ExtensionRequest]]
  <2>1. /\ [extension EXCEPT ![g][i] = NoRequest] \in [Grant -> [Index -> ExtensionRequest]]
        /\ [extension EXCEPT ![g][i] = voted] \in [Grant -> [Index -> ExtensionRequest]]
    BY <1>4, <1>5, <1>8
  <2> QED BY <1>6, <1>8, <2>1
<1> QED BY <1>9, <1>10

\* What reviewers call: votes, rejections, criteria, invoices, extensions.
LEMMA ReviewerStepTypeOK ==
  ASSUME TypeOK, NEW g \in Grant, NEW i \in Index, NEW p \in Person,
         ReviewerStep(g, i, p)
  PROVE  ReviewTypeOK'
<1> USE DEF TypeOK
<1>1. CASE MilestoneReject(g, i, p)
  <2> DEFINE counted == Counted(milestone[g][i], p, FALSE)
             rejected == counted.rejections >= counted.snapshot \div 2 + 1
             after == IF rejected THEN [counted EXCEPT !.state = "Rejected"] ELSE counted
  <2>1. counted \in Milestone
    BY CountedType, StoredType DEF ReviewTypeOK
  <2>2. after \in Milestone
    <3> HIDE DEF counted
    <3> QED BY <2>1, StateType DEF MilestoneState
  <2>3. /\ milestone' = [milestone EXCEPT ![g][i] = after]
        /\ reputation' = IF rejected THEN Rewarded(Voters(counted, "reject"))
                         ELSE reputation
        /\ UNCHANGED <<status, reviewers, checklist, invoice,
                       autoConfig, autoRecord, extension, qvTally, credits>>
    BY <1>1 DEF MilestoneReject
  <2>4. reputation' \in [Person -> Nat]
    BY <2>3, RewardedType DEF ReviewTypeOK
  <2> HIDE DEF after
  <2> QED BY <2>2, <2>3, <2>4 DEF ReviewTypeOK
<1>2. CASE RejectInvoice(g, i, p)
  BY <1>2 DEF RejectInvoice, ReviewTypeOK
<1>3. CASE ApproveInvoice(g, i, p)
  <2>1. /\ SimpleVote(g, i, p, TRUE) \/ QuadraticVote(g, i, p, TRUE)
        /\ invoice' = [invoice EXCEPT ![g][i] = "Approved"]
        /\ UNCHANGED <<status, reviewers, checklist, autoConfig, autoRecord, extension>>
    BY <1>3 DEF ApproveInvoice
  <2> QED BY <2>1, VoteTypes DEF ReviewTypeOK
<1>4. CASE ApproveInvoiceUndecided(g, i, p)
  <2>1. SpendCredits(g, i, p, 1, TRUE)
    BY <1>4 DEF ApproveInvoiceUndecided
  <2> QED BY <1>4, <2>1, SpendCreditsType DEF ApproveInvoiceUndecided, ReviewTypeOK
<1>5. ASSUME NEW approve \in BOOLEAN, MilestoneVote(g, i, p, approve)
      PROVE  ReviewTypeOK'
  <2>1. /\ SimpleVote(g, i, p, approve) \/ QuadraticVote(g, i, p, approve)
        /\ UNCHANGED <<status, reviewers, checklist, invoice, autoConfig,
                       autoRecord, extension>>
    BY <1>5 DEF MilestoneVote
  <2> QED BY <2>1, VoteTypes DEF ReviewTypeOK
<1>6. ASSUME NEW approve \in BOOLEAN, ReviewCriterion(g, i, p, approve)
      PROVE  ReviewTypeOK'
  BY <1>6 DEF ReviewCriterion, ReviewTypeOK
<1>7. ASSUME NEW approve \in BOOLEAN, VoteExtension(g, i, p, approve)
      PROVE  ReviewTypeOK'
  BY <1>7, VoteExtensionTypes DEF VoteExtension, ReviewTypeOK
<1>8. ASSUME NEW approve \in BOOLEAN, NEW votes \in 1..MaxCredits,
             CastQvVote(g, i, p, votes, approve)
      PROVE  ReviewTypeOK'
  <2>1. SpendCredits(g, i, p, votes, approve) /\ votes \in Nat
    BY <1>8, ReviewAssumption DEF CastQvVote
  <2> QED BY <1>8, <2>1, SpendCreditsType DEF CastQvVote, ReviewTypeOK
<1> QED BY <1>1, <1>2, <1>3, <1>4, <1>5, <1>6, <1>7, <1>8 DEF ReviewerStep

\* Who may review, and with how many credits.
LEMMA MembershipStepTypeOK ==
  ASSUME TypeOK, NEW g \in Grant, NEW p \in Person, MembershipStep(g, p)
  PROVE  ReviewTypeOK'
<1> USE DEF TypeOK
<1>1. ASSUME NEW list, ChangeReviewers(g, list) PROVE ReviewTypeOK'
  BY <1>1 DEF ChangeReviewers, ReviewTypeOK
<1>2. CASE AddReviewer(g, p)
  BY <1>1, <1>2 DEF AddReviewer
<1>3. CASE RemoveReviewer(g, p)
  BY <1>1, <1>3 DEF RemoveReviewer
<1>4. CASE AcceptRequest(g, p)
  BY <1>1, <1>4 DEF AcceptRequest
<1>5. ASSUME NEW q \in Person, ReplaceReviewer(g, p, q) PROVE ReviewTypeOK'
  BY <1>1, <1>5 DEF ReplaceReviewer
<1>6. CASE AllocateCredits(g, p, MaxCredits)
  BY <1>6, ReviewAssumption DEF AllocateCredits, ReviewTypeOK
<1> QED BY <1>2, <1>3, <1>4, <1>5, <1>6 DEF MembershipStep

LEMMA StepTypeOK == TypeOK /\ [Next]_vars => TypeOK'
<1> SUFFICES ASSUME TypeOK, [Next]_vars PROVE TypeOK'
  OBVIOUS
<1>1. ASSUME UNCHANGED gateVars, ReviewTypeOK' PROVE TypeOK'
  BY <1>1 DEF TypeOK, gateVars, GatesTypeOK
<1>2. ASSUME GatesNext, UNCHANGED <<status, reviewVars>> PROVE TypeOK'
  BY <1>2, GatesKeepTypes DEF TypeOK, ReviewTypeOK, reviewVars
<1>3. CASE Uses("gates") /\ GateStep
  BY <1>2, <1>3 DEF GateStep
<1>4. CASE Uses("clock") /\ Tick /\ UNCHANGED <<status, reviewVars>>
  BY <1>2, <1>4 DEF GatesNext
<1>5. ASSUME NEW g \in Grant, NEW i \in Index, MilestoneStep(g, i) PROVE TypeOK'
  <2>1. UNCHANGED gateVars
    BY <1>5 DEF MilestoneStep, MilestoneSubmit, MilestoneSubmitBatch, SubmitMilestone,
               AutoApprove, SubmitChecklist, SubmitInvoice, RequestExtension,
               WithdrawExtension
  <2> QED BY <1>1, <1>5, <2>1, MilestoneStepTypeOK
<1>6. ASSUME NEW g \in Grant, NEW i \in Index, NEW p \in Person, ReviewerStep(g, i, p)
      PROVE  TypeOK'
  <2>1. UNCHANGED gateVars
    BY <1>6 DEF ReviewerStep, MilestoneReject, RejectInvoice, ApproveInvoice,
               ApproveInvoiceUndecided, MilestoneVote, ReviewCriterion,
               VoteExtension, CastQvVote
  <2> QED BY <1>1, <1>6, <2>1, ReviewerStepTypeOK
<1>7. ASSUME NEW g \in Grant, NEW p \in Person, MembershipStep(g, p) PROVE TypeOK'
  <2>1. UNCHANGED gateVars
    BY <1>7 DEF MembershipStep, AddReviewer, RemoveReviewer, AcceptRequest,
               ReplaceReviewer, ChangeReviewers, AllocateCredits
  <2> QED BY <1>1, <1>7, <2>1, MembershipStepTypeOK
<1>8. ASSUME NEW g \in Grant, NEW cfg \in AutoConfig, SetAutoApprove(g, cfg)
      PROVE  TypeOK'
  BY <1>1, <1>8 DEF SetAutoApprove, TypeOK, ReviewTypeOK
<1>9. ASSUME NEW g \in Grant, NEW final \in {"Cancelled", "Completed"},
             CloseGrant(g, final)
      PROVE  TypeOK'
  BY <1>1, <1>9 DEF CloseGrant, TypeOK, ReviewTypeOK, reviewVars, Status
<1>10. CASE UNCHANGED vars
  BY <1>1, <1>10 DEF vars, TypeOK, ReviewTypeOK, reviewVars
<1> QED BY <1>3, <1>4, <1>5, <1>6, <1>7, <1>8, <1>9, <1>10 DEF Next, ReviewNext

\* Every record the review stores has the type its struct in types.rs gives it:
\* in particular no sequence of allocations and votes takes the credits of a
\* voter below zero (quadratic.rs).
THEOREM TypeCorrect == Spec => []TypeOK
  BY InitTypeOK, StepTypeOK, PTL DEF Spec

-----------------------------------------------------------------------------
(* Who writes a milestone.                                                 *)

\* The votes of milestone_vote and of approve_invoice, without what the two
\* entry points ask before and write besides.
Voted(g, i, p, approve) ==
    /\ SimpleVote(g, i, p, approve)
    /\ UNCHANGED <<status, autoRecord, extension>>

VotedQuadratically(g, i, p, approve) ==
    /\ QuadraticVote(g, i, p, approve)
    /\ UNCHANGED <<status, autoRecord, extension>>

\* Of all the steps of the review, these and the closing of a grant alone write
\* a milestone, an auto-approve record, a reputation or the status of a grant.
Writing(g, i) ==
    \/ SubmitMilestone(g, i)
    \/ Uses("auto_approve") /\ AutoApprove(g, i)
    \/ \E p \in Person :
          \/ MilestoneReject(g, i, p)
          \/ \E approve \in BOOLEAN :
                \/ Voted(g, i, p, approve)
                \/ VotedQuadratically(g, i, p, approve)
                \/ VoteExtension(g, i, p, approve)

\* A request to extend a deadline comes and goes.
Asking(g, i) ==
    \/ WithdrawExtension(g, i)
    \/ \E until \in Time : RequestExtension(g, i, until)

LEMMA StepKindsOfAll ==
  ASSUME [Next]_vars
  PROVE  \/ UNCHANGED <<milestone, autoRecord, status, reputation, extension>>
         \/ \E g \in Grant, final \in {"Cancelled", "Completed"} : CloseGrant(g, final)
         \/ \E g \in Grant, i \in Index : Writing(g, i) \/ Asking(g, i)
<1> DEFINE Kept == UNCHANGED <<milestone, autoRecord, status, reputation, extension>>
<1>1. ASSUME NEW g \in Grant, NEW i \in Index, MilestoneStep(g, i)
      PROVE  Kept \/ Writing(g, i) \/ Asking(g, i)
  <2>1. ASSUME SubmitChecklist(g, i) \/ SubmitInvoice(g, i) PROVE Kept
    BY <2>1 DEF SubmitChecklist, SubmitInvoice
  <2> QED BY <1>1, <2>1 DEF MilestoneStep, MilestoneSubmit, MilestoneSubmitBatch, Writing,
                            Asking
<1>2. ASSUME NEW g \in Grant, NEW i \in Index, NEW p \in Person, ReviewerStep(g, i, p)
      PROVE  Kept \/ Writing(g, i)
  <2>1. CASE RejectInvoice(g, i, p) \/ ApproveInvoiceUndecided(g, i, p)
    BY <2>1 DEF RejectInvoice, ApproveInvoiceUndecided
  <2>2. CASE ApproveInvoice(g, i, p)
    <3>1. Voted(g, i, p, TRUE) \/ VotedQuadratically(g, i, p, TRUE)
      BY <2>2 DEF ApproveInvoice, Voted, VotedQuadratically
    <3> QED BY <3>1 DEF Writing
  <2>3. ASSUME NEW approve \in BOOLEAN, MilestoneVote(g, i, p, approve)
        PROVE  Writing(g, i)
    BY <2>3 DEF MilestoneVote, Voted, VotedQuadratically, Writing
  <2>4. ASSUME NEW approve \in BOOLEAN, ReviewCriterion(g, i, p, approve) PROVE Kept
    BY <2>4 DEF ReviewCriterion
  <2>5. ASSUME NEW approve \in BOOLEAN, NEW votes \in 1..MaxCredits,
               CastQvVote(g, i, p, votes, approve)
        PROVE  Kept
    BY <2>5 DEF CastQvVote
  <2>6. CASE MilestoneReject(g, i, p)
    BY <2>6 DEF Writing
  <2>7. ASSUME NEW approve \in BOOLEAN, VoteExtension(g, i, p, approve)
        PROVE  Writing(g, i)
    BY <2>7 DEF Writing
  <2> QED BY <1>2, <2>1, <2>2, <2>3, <2>4, <2>5, <2>6, <2>7 DEF ReviewerStep
<1>3. ASSUME NEW g \in Grant, NEW p \in Person, MembershipStep(g, p) PROVE Kept
  BY <1>3 DEF MembershipStep, AddReviewer, RemoveReviewer, AcceptRequest,
             ReplaceReviewer, ChangeReviewers, AllocateCredits
<1>4. ASSUME NEW g \in Grant, NEW cfg \in AutoConfig, SetAutoApprove(g, cfg) PROVE Kept
  BY <1>4 DEF SetAutoApprove
<1>5. ASSUME UNCHANGED <<status, reviewVars>> PROVE Kept
  BY <1>5 DEF reviewVars
<1> HIDE DEF Kept
<1> QED BY <1>1, <1>2, <1>3, <1>4, <1>5 DEF Next, ReviewNext, GateStep, vars, Kept

LEMMA StepKinds ==
  ASSUME [Next]_vars
  PROVE  \/ UNCHANGED <<milestone, autoRecord, status, reputation>>
         \/ \E g \in Grant, final \in {"Cancelled", "Completed"} : CloseGrant(g, final)
         \/ \E g \in Grant, i \in Index : Writing(g, i)
<1>1. ASSUME NEW g \in Grant, NEW i \in Index, Asking(g, i)
      PROVE  UNCHANGED <<milestone, autoRecord, status, reputation>>
  BY <1>1 DEF Asking, WithdrawExtension, RequestExtension
<1> QED BY <1>1, StepKindsOfAll

-----------------------------------------------------------------------------
(* The refinement.                                                         *)

\* The state a milestone is in, as ReviewLifecycle sees it.
StateOf(g, i) == milestone[g][i].state

LEMMA InitPromise == Init => Promise!LifecycleInit
  BY DEF Init, ReviewInit, Absent, Simple, Promise!LifecycleInit, Promise!Index, Index

\* Outside quadratic voting a milestone is decided while it is submitted, or
\* keeps its state.
LEMMA DecidedWhileSubmitted ==
  ASSUME TypeOK, NEW g \in Grant, NEW i \in Index, Writing(g, i),
         ~SubmitMilestone(g, i), g \in Simple
  PROVE  /\ UNCHANGED status
         /\ \E m \in Milestone :
               /\ milestone' = [milestone EXCEPT ![g][i] = m]
               /\ \/ m.state = StateOf(g, i)
                  \/ StateOf(g, i) = "Submitted" /\ m.state \in {"Approved", "Rejected"}
<1> DEFINE Decided ==
      /\ UNCHANGED status
      /\ \E m \in Milestone :
            /\ milestone' = [milestone EXCEPT ![g][i] = m]
            /\ \/ m.state = StateOf(g, i)
               \/ StateOf(g, i) = "Submitted" /\ m.state \in {"Approved", "Rejected"}
<1>1. milestone[g][i] \in Milestone
  BY StoredType DEF TypeOK
<1>2. CASE AutoApprove(g, i)
  <2> DEFINE m == [milestone[g][i] EXCEPT !.state = "Approved"]
  <2>1. m \in Milestone /\ m.state = "Approved"
    BY <1>1, StateType DEF MilestoneState, Milestone
  <2>2. milestone' = [milestone EXCEPT ![g][i] = m]
    BY <1>2 DEF AutoApprove
  <2>3. StateOf(g, i) = "Submitted" /\ UNCHANGED status
    BY <1>2 DEF AutoApprove, StateOf
  <2> QED BY <2>1, <2>2, <2>3
<1>3. ASSUME NEW p \in Person, NEW approve \in BOOLEAN
      PROVE  LET c == Counted(milestone[g][i], p, approve) IN
             c \in Milestone /\ c.state = StateOf(g, i)
  <2>1. Counted(milestone[g][i], p, approve).state = StateOf(g, i)
    BY <1>1 DEF Counted, StateOf, Milestone
  <2> QED BY <1>1, <2>1, CountedType DEF TypeOK, ReviewTypeOK
<1>4. ASSUME NEW p \in Person, MilestoneReject(g, i, p) PROVE Decided
  <2> DEFINE c == Counted(milestone[g][i], p, FALSE)
             rejected == c.rejections >= c.snapshot \div 2 + 1
             m == IF rejected THEN [c EXCEPT !.state = "Rejected"] ELSE c
  <2>1. c \in Milestone /\ c.state = StateOf(g, i)
    BY <1>3
  <2>2. m \in Milestone /\ m.state \in {StateOf(g, i), "Rejected"}
    <3> HIDE DEF c
    <3> QED BY <2>1, StateType DEF MilestoneState, Milestone
  <2>3. milestone' = [milestone EXCEPT ![g][i] = m]
    BY <1>4 DEF MilestoneReject
  <2>4. StateOf(g, i) = "Submitted" /\ UNCHANGED status
    BY <1>4 DEF MilestoneReject, MayVote, StateOf
  <2> HIDE DEF m
  <2> QED BY <2>2, <2>3, <2>4
<1>5. ASSUME NEW p \in Person, NEW approve \in BOOLEAN, Voted(g, i, p, approve)
      PROVE  Decided
  <2> DEFINE c == Counted(milestone[g][i], p, approve)
             m == Settled(c)
  <2>1. c \in Milestone /\ c.state = StateOf(g, i)
    BY <1>3
  <2>2. m \in Milestone /\ m.state \in {StateOf(g, i), "Approved", "Rejected"}
    <3>1. m \in Milestone
      BY <1>1, CountedType DEF TypeOK, ReviewTypeOK
    <3>2. m.state \in {c.state, "Approved", "Rejected"}
      <4> HIDE DEF c
      <4> QED BY <2>1 DEF Settled, Milestone
    <3> QED BY <2>1, <3>1, <3>2
  <2>3. milestone' = [milestone EXCEPT ![g][i] = m]
    BY <1>5 DEF Voted, SimpleVote
  <2>4. StateOf(g, i) = "Submitted" /\ UNCHANGED status
    BY <1>5 DEF Voted, SimpleVote, MayVote, StateOf
  <2> HIDE DEF m
  <2> QED BY <2>2, <2>3, <2>4
<1>6. ASSUME NEW p \in Person, NEW approve \in BOOLEAN, VotedQuadratically(g, i, p, approve)
      PROVE  Decided
  BY <1>6 DEF VotedQuadratically, QuadraticVote, Simple
<1>7. ASSUME NEW p \in Person, NEW approve \in BOOLEAN, VoteExtension(g, i, p, approve)
      PROVE  Decided
  <2> DEFINE until == extension[g][i].until
             m == [milestone[g][i] EXCEPT !.deadline = until]
  <2>1. until \in Time
    BY <1>7, StoredType DEF VoteExtension, ExtensionRequest, TypeOK
  <2>2. m \in Milestone /\ m.state = StateOf(g, i)
    <3> HIDE DEF until
    <3> QED BY <1>1, <2>1, DeadlineType DEF StateOf, Milestone
  <2>3. milestone' = [milestone EXCEPT ![g][i] = m] \/ milestone' = milestone
    <3>1. [extension[g][i] EXCEPT !.votes[p] = IF approve THEN "approve" ELSE "reject"].until
            = until
      BY StoredType DEF ExtensionRequest, TypeOK
    <3> QED BY <1>7, <3>1 DEF VoteExtension
  <2>4. milestone = [milestone EXCEPT ![g][i] = milestone[g][i]]
    BY DEF TypeOK, ReviewTypeOK
  <2>5. UNCHANGED status
    BY <1>7 DEF VoteExtension
  <2> HIDE DEF m
  <2> QED BY <1>1, <2>2, <2>3, <2>4, <2>5 DEF StateOf
<1> QED BY <1>2, <1>4, <1>5, <1>6, <1>7 DEF Writing

\* Every step of the review is a step of ReviewLifecycle or a stutter.
LEMMA StepPromise ==
  TypeOK /\ [Next]_vars => [Promise!LifecycleNext]_(Promise!lifecycleVars)
<1> SUFFICES ASSUME TypeOK, [Next]_vars
             PROVE  Promise!LifecycleNext \/ UNCHANGED Promise!lifecycleVars
  OBVIOUS
<1> DEFINE Statuses == [g \in Simple |-> status[g]]
           Stages == [g \in Simple |-> [i \in Index |-> StateOf(g, i)]]
<1>1. /\ Promise!lifecycleVars = <<Statuses, Stages>>
      /\ (Promise!lifecycleVars)' = <<Statuses', Stages'>>
      /\ Promise!Index = Index
  BY DEF Promise!lifecycleVars, StateOf, Promise!Index, Index
<1>2. CASE UNCHANGED <<milestone, autoRecord, status>>
  BY <1>1, <1>2 DEF StateOf
<1>3. ASSUME NEW g \in Grant, NEW final \in {"Cancelled", "Completed"}, CloseGrant(g, final)
      PROVE  Promise!LifecycleNext \/ UNCHANGED Promise!lifecycleVars
  <2>1. /\ status[g] = "Active"
        /\ status' = [status EXCEPT ![g] = final]
        /\ UNCHANGED milestone
        /\ status \in [Grant -> Status]
    BY <1>3 DEF CloseGrant, reviewVars, TypeOK, ReviewTypeOK
  <2>2. CASE g \in Simple
    <3>1. Promise!Close(g, final)
      BY <1>1, <2>1, <2>2 DEF Promise!Close, StateOf, Simple
    <3> QED BY <2>2, <3>1 DEF Promise!LifecycleNext
  <2>3. CASE g \notin Simple
    BY <1>1, <2>1, <2>3 DEF StateOf, Simple
  <2> QED BY <2>2, <2>3
<1>4. ASSUME NEW g \in Grant, NEW i \in Index, Writing(g, i)
      PROVE  Promise!LifecycleNext \/ UNCHANGED Promise!lifecycleVars
  <2> milestone \in [Grant -> [Index -> Milestone]]
    BY DEF TypeOK, ReviewTypeOK
  <2>1. ASSUME g \notin Simple, UNCHANGED status,
               \A h \in Simple : milestone'[h] = milestone[h]
        PROVE  UNCHANGED Promise!lifecycleVars
    BY <1>1, <2>1 DEF StateOf
  <2>2. CASE g \notin Simple
    <3>1. UNCHANGED status
      BY <1>4 DEF Writing, SubmitMilestone, AutoApprove, MilestoneReject, Voted,
                 VotedQuadratically, VoteExtension
    <3>2. \A h \in Simple : milestone'[h] = milestone[h]
      BY <1>4, <2>2 DEF Writing, SubmitMilestone, AutoApprove, MilestoneReject, Voted,
                 VotedQuadratically, VoteExtension, SimpleVote, QuadraticVote, Simple
    <3> QED BY <2>1, <2>2, <3>1, <3>2
  <2>3. CASE g \in Simple /\ SubmitMilestone(g, i)
    <3>1. /\ status[g] = "Active"
          /\ StateOf(g, i) \in {"Absent", "Rejected"}
          /\ \A j \in Index : j < i => StateOf(g, j) = "Approved"
          /\ UNCHANGED status
      BY <2>3 DEF SubmitMilestone, PreviousApproved, StateOf, Milestone, MilestoneState
    <3>2. PICK m \in Milestone : m.state = "Submitted"
                                /\ milestone' = [milestone EXCEPT ![g][i] = m]
      <4> DEFINE fresh == [Absent EXCEPT !.state = "Submitted",
                                         !.snapshot = Len(reviewers[g]),
                                         !.submittedAt = now]
      <4>1. Len(reviewers[g]) \in Nat /\ now \in Time
        BY ReviewAssumption DEF ReviewerList, TypeOK, ReviewTypeOK, GatesTypeOK
      <4>2. fresh \in Milestone
        BY <4>1, FreshType
      <4>3. fresh.state = "Submitted"
        BY DEF Absent
      <4>4. milestone' = [milestone EXCEPT ![g][i] = fresh]
        BY <2>3 DEF SubmitMilestone
      <4> HIDE DEF fresh
      <4> QED BY <4>2, <4>3, <4>4
    <3>3. Stages' = [Stages EXCEPT ![g][i] = "Submitted"]
      BY <2>3, <3>2 DEF StateOf, Simple
    <3>4. Promise!Submit(g, i)
      BY <1>1, <2>3, <3>1, <3>3 DEF Promise!Submit, Promise!EarlierApproved, StateOf, Simple
    <3> QED BY <1>1, <2>3, <3>4 DEF Promise!LifecycleNext
  <2>4. CASE g \in Simple /\ ~SubmitMilestone(g, i)
    <3>1. UNCHANGED status
      BY <1>4, <2>4, DecidedWhileSubmitted
    <3>2. PICK m \in Milestone :
             /\ milestone' = [milestone EXCEPT ![g][i] = m]
             /\ \/ m.state = StateOf(g, i)
                \/ StateOf(g, i) = "Submitted" /\ m.state \in {"Approved", "Rejected"}
      BY <1>4, <2>4, DecidedWhileSubmitted
    <3>3. Stages' = [Stages EXCEPT ![g][i] = m.state]
      BY <2>4, <3>2 DEF StateOf, Simple
    <3>4. CASE m.state = StateOf(g, i)
      <4>1. Stages' = Stages
        BY <2>4, <3>2, <3>4 DEF StateOf, Simple
      <4> QED BY <1>1, <3>1, <4>1
    <3>5. CASE StateOf(g, i) = "Submitted" /\ m.state \in {"Approved", "Rejected"}
      <4>1. Promise!Decide(g, i, m.state)
        BY <1>1, <2>4, <3>1, <3>3, <3>5 DEF Promise!Decide, StateOf, Simple
      <4> QED BY <1>1, <2>4, <3>5, <4>1 DEF Promise!LifecycleNext
    <3> QED BY <3>2, <3>4, <3>5
  <2> QED BY <2>2, <2>3, <2>4
<1> QED BY <1>2, <1>3, <1>4, StepKinds

\* The review keeps its promise: seen through the states of the milestones of
\* the grants outside quadratic voting, every behaviour of the voting,
\* rejection, invoice, auto-approval and extension handlers is a behaviour of
\* ReviewLifecycle, whoever reviews and whatever reputation they have.
THEOREM Refinement == Spec => KeepsThePromise
  BY InitPromise, StepPromise, TypeCorrect, PTL
     DEF Spec, KeepsThePromise, Promise!LifecycleSpec

-----------------------------------------------------------------------------
(* What follows from the refinement.                                       *)

\* The stages that ReviewLifecycle is promised, and stages worked off in order.
Promised == [g \in Simple |-> [i \in Index |-> milestone[g][i].state]]
StageType == [Simple -> [Index -> Promise!Stage]]
InLine(st) ==
    \A g \in Simple : \A i \in Index : \A j \in Index :
        st[g][i] # "Absent" /\ j < i => st[g][j] = "Approved"

\* A milestone whose earlier ones are approved may be written, while it is not approved.
LEMMA WrittenInLine ==
  ASSUME NEW st \in StageType, InLine(st), NEW g \in Simple, NEW i \in Index,
         NEW s \in Promise!Stage, st[g][i] # "Approved",
         \A j \in Index : j < i => st[g][j] = "Approved"
  PROVE  LET written == [st EXCEPT ![g][i] = s]
         IN  written \in StageType /\ InLine(written)
<1> DEFINE written == [st EXCEPT ![g][i] = s]
<1>1. written \in StageType
  BY DEF StageType
<1>2. ASSUME NEW h \in Simple, NEW k \in Index, NEW j \in Index,
             written[h][k] # "Absent", j < k
      PROVE  written[h][j] = "Approved"
  <2>1. CASE h = g /\ k = i
    BY <1>2, <2>1 DEF StageType, Index
  <2>2. CASE ~(h = g /\ k = i)
    <3>1. st[h][j] = "Approved"
      BY <1>2, <2>2 DEF StageType, InLine
    <3> QED BY <3>1 DEF StageType
  <2> QED BY <2>1, <2>2
<1> QED BY <1>1, <1>2 DEF InLine

\* What is promised keeps the milestones in order: the one that is written is next in
\* line, and those before it are approved and not written.
LEMMA PromisedInLine ==
  ASSUME Promised \in StageType, InLine(Promised),
         Promise!LifecycleNext \/ UNCHANGED Promise!lifecycleVars
  PROVE  Promised' \in StageType /\ InLine(Promised')
<1> USE DEF Promise!Index, Index
<1>1. ASSUME NEW g \in Simple, NEW i \in Index, Promise!Submit(g, i)
      PROVE  Promised' \in StageType /\ InLine(Promised')
  <2>1. /\ Promised' = [Promised EXCEPT ![g][i] = "Submitted"]
        /\ Promised[g][i] # "Approved"
        /\ \A j \in Index : j < i => Promised[g][j] = "Approved"
    BY <1>1 DEF Promise!Submit, Promise!EarlierApproved, Promised
  <2> QED BY <2>1, WrittenInLine DEF Promise!Stage
<1>2. ASSUME NEW g \in Simple, NEW i \in Index,
             NEW outcome \in {"Approved", "Rejected"}, Promise!Decide(g, i, outcome)
      PROVE  Promised' \in StageType /\ InLine(Promised')
  <2>1. Promised' = [Promised EXCEPT ![g][i] = outcome] /\ Promised[g][i] = "Submitted"
    BY <1>2 DEF Promise!Decide, Promised
  <2>2. \A j \in Index : j < i => Promised[g][j] = "Approved"
    BY <2>1 DEF InLine
  <2> QED BY <2>1, <2>2, WrittenInLine DEF Promise!Stage
<1>3. CASE UNCHANGED Promised
  BY <1>3 DEF InLine
<1>4. ASSUME NEW g \in Simple, NEW final \in {"Cancelled", "Completed"}, Promise!Close(g, final)
      PROVE  UNCHANGED Promised
  BY <1>4 DEF Promise!Close, Promised
<1>5. UNCHANGED Promise!lifecycleVars => UNCHANGED Promised
  BY DEF Promise!lifecycleVars, Promised
<1> QED BY <1>1, <1>2, <1>3, <1>4, <1>5 DEF Promise!LifecycleNext

\* Outside quadratic voting milestones are worked off in order
\* (milestone_deps.rs): the review inherits it from what it implements.
THEOREM InDependencyOrder == Spec => []DependencyOrder
<1>1. Promise!LifecycleInit => Promised \in StageType /\ InLine(Promised)
  <2> SUFFICES ASSUME Promise!LifecycleInit
               PROVE  Promised \in StageType /\ InLine(Promised)
    OBVIOUS
  <2>1. Promised = [g \in Simple |-> [i \in Index |-> "Absent"]]
    BY DEF Promise!LifecycleInit, Promise!Index, Index, Promised
  <2> QED BY <2>1 DEF StageType, InLine, Promise!Stage
<1>2. Promised \in StageType /\ InLine(Promised) /\ [Promise!LifecycleNext]_(Promise!lifecycleVars)
        => (Promised \in StageType /\ InLine(Promised))'
  BY PromisedInLine
<1>3. InLine(Promised) => DependencyOrder
  BY DEF InLine, Promised, DependencyOrder, PreviousApproved, Index
<1> QED BY <1>1, <1>2, <1>3, Refinement, PTL DEF KeepsThePromise, Promise!LifecycleSpec

-----------------------------------------------------------------------------
(* Outcomes.                                                               *)

\* What OutcomeFollowsVotes says of one milestone and its auto-approve record.
Sound(m, auto) ==
    /\ m.state = "Submitted" => ~ApprovalQuorum(m) /\ ~RejectionQuorum(m)
    /\ m.state = "Approved" => ApprovalQuorum(m) \/ auto
    /\ m.state = "Rejected" =>
          m.rejections >= m.snapshot \div 2 + 1 /\ ~ApprovalQuorum(m)

\* The thresholds of governance.rs and of milestone_reject are the same one.
LEMMA Majority ==
  ASSUME NEW n \in Nat, NEW weight \in Nat, n # 0
  PROVE  weight * 2 > n <=> weight >= n \div 2 + 1
  OBVIOUS

\* One more vote of a milestone in review changes one of its tallies.
LEMMA CountedKeeps ==
  ASSUME TypeOK, NEW m \in Milestone, NEW p \in Person, NEW approve \in BOOLEAN
  PROVE  LET c == Counted(m, p, approve) IN
         /\ c \in Milestone
         /\ c.state = m.state /\ c.snapshot = m.snapshot
         /\ ~approve => c.approvals = m.approvals
  BY CountedType DEF Counted, Milestone, TypeOK, ReviewTypeOK

\* A vote settles a milestone by the quorum it reached.
LEMMA SettledSound ==
  ASSUME NEW c \in Milestone, c.state = "Submitted", NEW auto \in BOOLEAN
  PROVE  Sound(Settled(c), auto)
<1>1. /\ c.snapshot \in Nat /\ c.approvals \in Nat /\ c.rejections \in Nat
      /\ c.state = "Submitted"
  BY DEF Milestone
<1>2. CASE ApprovalQuorum(c)
  <2> DEFINE m == [c EXCEPT !.state = "Approved"]
  <2>1. m.state = "Approved" /\ m.approvals = c.approvals /\ m.snapshot = c.snapshot
    BY DEF Milestone
  <2>2. ApprovalQuorum(m)
    BY <1>2, <2>1 DEF ApprovalQuorum
  <2>3. Settled(c) = m
    BY <1>2 DEF Settled
  <2> HIDE DEF m
  <2> QED BY <2>1, <2>2, <2>3 DEF Sound
<1>3. CASE ~ApprovalQuorum(c) /\ RejectionQuorum(c)
  <2> DEFINE m == [c EXCEPT !.state = "Rejected"]
  <2>1. /\ m.state = "Rejected" /\ m.approvals = c.approvals
        /\ m.rejections = c.rejections /\ m.snapshot = c.snapshot
    BY DEF Milestone
  <2>2. m.rejections >= m.snapshot \div 2 + 1
    BY <1>1, <1>3, <2>1, Majority DEF RejectionQuorum, QuorumReached
  <2>3. ~ApprovalQuorum(m)
    BY <1>3, <2>1 DEF ApprovalQuorum
  <2>4. Settled(c) = m
    BY <1>3 DEF Settled
  <2> HIDE DEF m
  <2> QED BY <2>1, <2>2, <2>3, <2>4 DEF Sound
<1>4. CASE ~ApprovalQuorum(c) /\ ~RejectionQuorum(c)
  BY <1>1, <1>4 DEF Settled, Sound
<1> QED BY <1>2, <1>3, <1>4

\* Whatever is written of a milestone outside quadratic voting follows its votes.
LEMMA WritingSound ==
  ASSUME TypeOK, OutcomeFollowsVotes, NEW g \in Simple, NEW i \in Index, Writing(g, i)
  PROVE  Sound(milestone'[g][i], autoRecord'[g][i])
<1> DEFINE m == milestone[g][i]
           Goal == Sound(milestone'[g][i], autoRecord'[g][i])
<1>1. g \in Grant /\ g \notin Quadratic
  BY DEF Simple
<1>2. m \in Milestone /\ autoRecord[g][i] \in BOOLEAN
  BY <1>1, StoredType DEF TypeOK, ReviewTypeOK
<1>3. Sound(m, autoRecord[g][i])
  BY DEF OutcomeFollowsVotes, Sound
<1>4. ASSUME NEW n, milestone' = [milestone EXCEPT ![g][i] = n]
      PROVE  milestone'[g][i] = n
  BY <1>1, <1>4 DEF TypeOK, ReviewTypeOK
<1> HIDE DEF Goal, m
<1>5. CASE SubmitMilestone(g, i)
  <2> DEFINE n == [Absent EXCEPT !.state = "Submitted",
                                 !.snapshot = Len(reviewers[g]),
                                 !.submittedAt = now]
  <2>1. n.state = "Submitted" /\ n.approvals = 0 /\ n.rejections = 0
        /\ n.snapshot = Len(reviewers[g])
    BY DEF Absent
  <2>2. Len(reviewers[g]) \in Nat
    BY <1>1, ReviewAssumption DEF ReviewerList, TypeOK, ReviewTypeOK
  <2>3. milestone' = [milestone EXCEPT ![g][i] = n]
    BY <1>5 DEF SubmitMilestone
  <2> HIDE DEF n
  <2>4. milestone'[g][i] = n
    BY <1>4, <2>3
  <2> QED BY <2>1, <2>2, <2>4 DEF Goal, Sound, ApprovalQuorum, RejectionQuorum, QuorumReached
<1>6. CASE AutoApprove(g, i)
  <2> DEFINE n == [m EXCEPT !.state = "Approved"]
  <2>1. n.state = "Approved"
    BY <1>2 DEF Milestone
  <2>2. milestone' = [milestone EXCEPT ![g][i] = n] /\ autoRecord'[g][i] = TRUE
    BY <1>1, <1>6 DEF AutoApprove, m, TypeOK, ReviewTypeOK
  <2> HIDE DEF n
  <2> QED BY <1>4, <2>1, <2>2 DEF Goal, Sound
<1>7. ASSUME NEW p \in Person, MilestoneReject(g, i, p) PROVE Goal
  <2> DEFINE c == Counted(m, p, FALSE)
             rejected == c.rejections >= c.snapshot \div 2 + 1
             r == [c EXCEPT !.state = "Rejected"]
             n == IF rejected THEN r ELSE c
  <2>1. /\ c \in Milestone /\ c.state = "Submitted"
        /\ c.snapshot = m.snapshot /\ c.approvals = m.approvals
    BY <1>2, <1>7, CountedKeeps DEF MilestoneReject, MayVote, m
  <2>2. ~ApprovalQuorum(m)
    BY <1>3, <1>7 DEF Sound, MilestoneReject, MayVote, m
  <2>3. milestone' = [milestone EXCEPT ![g][i] = n] /\ UNCHANGED autoRecord
    BY <1>7 DEF MilestoneReject, m
  <2> HIDE DEF c
  <2>4. ~ApprovalQuorum(c)
    BY <2>1, <2>2 DEF ApprovalQuorum
  <2>5. c.snapshot \in Nat /\ c.rejections \in Nat
    BY <2>1 DEF Milestone
  <2>6. CASE rejected
    <3>1. /\ r.state = "Rejected" /\ r.approvals = c.approvals
          /\ r.rejections = c.rejections /\ r.snapshot = c.snapshot
      BY <2>1 DEF Milestone
    <3>2. ~ApprovalQuorum(r)
      BY <2>4, <3>1 DEF ApprovalQuorum
    <3>3. milestone'[g][i] = r
      BY <1>4, <2>3, <2>6
    <3>4. r.rejections >= r.snapshot \div 2 + 1
      BY <2>6, <3>1
    <3> HIDE DEF r
    <3> QED BY <3>1, <3>2, <3>3, <3>4 DEF Goal, Sound
  <2>7. CASE ~rejected
    <3>1. ~RejectionQuorum(c)
      BY <2>5, <2>7, Majority DEF RejectionQuorum, QuorumReached
    <3>2. milestone'[g][i] = c
      BY <1>4, <2>3, <2>7
    <3> QED BY <2>1, <2>4, <3>1, <3>2 DEF Goal, Sound
  <2> QED BY <2>6, <2>7
<1>8. ASSUME NEW p \in Person, NEW approve \in BOOLEAN, Voted(g, i, p, approve) PROVE Goal
  <2> DEFINE c == Counted(m, p, approve)
             n == Settled(c)
  <2>1. c \in Milestone /\ c.state = "Submitted"
    BY <1>2, <1>8, CountedKeeps DEF Voted, SimpleVote, MayVote, m
  <2>2. milestone' = [milestone EXCEPT ![g][i] = n] /\ UNCHANGED autoRecord
    BY <1>8 DEF Voted, SimpleVote, m
  <2> HIDE DEF c
  <2>3. Sound(n, autoRecord[g][i])
    BY <1>2, <2>1, SettledSound
  <2> HIDE DEF n
  <2> QED BY <1>4, <2>2, <2>3 DEF Goal
<1>9. ASSUME NEW p \in Person, NEW approve \in BOOLEAN, VotedQuadratically(g, i, p, approve)
      PROVE  Goal
  BY <1>1, <1>9 DEF VotedQuadratically, QuadraticVote
<1>10. ASSUME NEW p \in Person, NEW approve \in BOOLEAN, VoteExtension(g, i, p, approve)
       PROVE  Goal
  <2>1. PICK until : milestone' = milestone
                     \/ milestone' = [milestone EXCEPT ![g][i] = [m EXCEPT !.deadline = until]]
    BY <1>10 DEF VoteExtension, m
  <2> DEFINE n == [m EXCEPT !.deadline = until]
  <2>2. /\ n.state = m.state /\ n.approvals = m.approvals
        /\ n.rejections = m.rejections /\ n.snapshot = m.snapshot
    BY <1>2 DEF Milestone
  <2>3. UNCHANGED autoRecord
    BY <1>10 DEF VoteExtension
  <2>4. Sound(n, autoRecord[g][i])
    <3> HIDE DEF n
    <3> QED BY <1>3, <2>2 DEF Sound, ApprovalQuorum, RejectionQuorum
  <2> HIDE DEF n
  <2>5. milestone'[g][i] = m \/ milestone'[g][i] = n
    BY <1>4, <2>1 DEF m, n
  <2> QED BY <1>3, <2>3, <2>4, <2>5 DEF Goal
<1> QED BY <1>5, <1>6, <1>7, <1>8, <1>9, <1>10 DEF Writing, Goal

\* What is not written stays.
LEMMA WritesOne ==
  ASSUME TypeOK, NEW g \in Grant, NEW i \in Index, Writing(g, i),
         NEW h \in Grant, NEW k \in Index, ~(h = g /\ k = i)
  PROVE  milestone'[h][k] = milestone[h][k] /\ autoRecord'[h][k] = autoRecord[h][k]
<1> USE DEF TypeOK, ReviewTypeOK
<1>1. CASE SubmitMilestone(g, i)
  BY <1>1 DEF SubmitMilestone
<1>2. CASE AutoApprove(g, i)
  BY <1>2 DEF AutoApprove
<1>3. ASSUME NEW p \in Person, MilestoneReject(g, i, p)
      PROVE  milestone'[h][k] = milestone[h][k] /\ UNCHANGED autoRecord
  BY <1>3 DEF MilestoneReject
<1>4. ASSUME NEW p \in Person, NEW approve \in BOOLEAN, Voted(g, i, p, approve)
      PROVE  milestone'[h][k] = milestone[h][k] /\ UNCHANGED autoRecord
  BY <1>4 DEF Voted, SimpleVote
<1>5. ASSUME NEW p \in Person, NEW approve \in BOOLEAN, VotedQuadratically(g, i, p, approve)
      PROVE  milestone'[h][k] = milestone[h][k] /\ UNCHANGED autoRecord
  BY <1>5 DEF VotedQuadratically, QuadraticVote
<1>6. ASSUME NEW p \in Person, NEW approve \in BOOLEAN, VoteExtension(g, i, p, approve)
      PROVE  milestone'[h][k] = milestone[h][k] /\ UNCHANGED autoRecord
  BY <1>6 DEF VoteExtension
<1> QED BY <1>1, <1>2, <1>3, <1>4, <1>5, <1>6 DEF Writing

LEMMA StepOutcome == TypeOK /\ OutcomeFollowsVotes /\ [Next]_vars => OutcomeFollowsVotes'
<1> SUFFICES ASSUME TypeOK, OutcomeFollowsVotes, [Next]_vars,
                    NEW h \in Simple, NEW k \in Index
             PROVE  Sound(milestone'[h][k], autoRecord'[h][k])
  BY DEF OutcomeFollowsVotes, Sound, ApprovalQuorum, RejectionQuorum
<1>1. h \in Grant /\ Sound(milestone[h][k], autoRecord[h][k])
  BY DEF OutcomeFollowsVotes, Sound, Simple
<1>2. CASE UNCHANGED <<milestone, autoRecord, status>>
  BY <1>1, <1>2
<1>3. ASSUME NEW g \in Grant, NEW final, CloseGrant(g, final)
      PROVE  UNCHANGED <<milestone, autoRecord>>
  BY <1>3 DEF CloseGrant, reviewVars
<1>4. ASSUME NEW g \in Grant, NEW i \in Index, Writing(g, i)
      PROVE  Sound(milestone'[h][k], autoRecord'[h][k])
  <2>1. CASE h = g /\ k = i
    BY <1>4, <2>1, WritingSound
  <2>2. CASE ~(h = g /\ k = i)
    BY <1>1, <1>4, <2>2, WritesOne
  <2> QED BY <2>1, <2>2
<1> QED BY <1>1, <1>2, <1>3, <1>4, StepKinds

\* Whichever entry point decides a milestone outside quadratic voting, the
\* decision is the one its votes carry, by the one threshold that governance.rs
\* and milestone_reject share in different forms, or an auto-approval of which
\* there is a record; and no milestone stays open that its votes decide.
THEOREM OutcomesFollowVotes == Spec => []OutcomeFollowsVotes
<1>1. Init => OutcomeFollowsVotes
  BY DEF Init, ReviewInit, Absent, OutcomeFollowsVotes, Simple
<1> QED BY <1>1, StepOutcome, TypeCorrect, PTL DEF Spec

-----------------------------------------------------------------------------
(* Finality.                                                               *)

\* The votes and the state of an approved milestone outside quadratic voting
\* are never written again; only its deadline may be (milestone_extension.rs).
THEOREM ApprovalsAreFinal == Spec => ApprovalIsFinal
<1> DEFINE Final ==
      \A g \in Simple : \A i \in Index :
          milestone[g][i].state = "Approved" =>
             milestone'[g][i] = [milestone[g][i] EXCEPT
                                    !.deadline = milestone'[g][i].deadline]
<1>1. TypeOK /\ [Next]_vars => Final
  <2> SUFFICES ASSUME TypeOK, [Next]_vars, NEW h \in Simple, NEW k \in Index,
                      milestone[h][k].state = "Approved"
               PROVE  milestone'[h][k] = [milestone[h][k] EXCEPT
                                             !.deadline = milestone'[h][k].deadline]
    OBVIOUS
  <2> DEFINE Kept == milestone'[h][k] = [milestone[h][k] EXCEPT
                                            !.deadline = milestone'[h][k].deadline]
  <2> HIDE DEF Kept
  <2>1. h \in Grant /\ h \notin Quadratic /\ milestone[h][k] \in Milestone
    BY StoredType DEF Simple, TypeOK
  <2>2. ASSUME milestone'[h][k] = milestone[h][k] PROVE Kept
    BY <2>1, <2>2 DEF Milestone, Kept
  <2>3. ASSUME NEW g \in Grant, NEW final, CloseGrant(g, final)
        PROVE  UNCHANGED milestone
    BY <2>3 DEF CloseGrant, reviewVars
  <2>4. ASSUME Writing(h, k) PROVE Kept
    <3>1. PICK p \in Person, approve \in BOOLEAN : VoteExtension(h, k, p, approve)
      BY <2>1, <2>4 DEF Writing, SubmitMilestone, AutoApprove, MilestoneReject, Voted,
         SimpleVote, MayVote, VotedQuadratically, QuadraticVote
    <3>2. PICK until : milestone' = milestone
             \/ milestone' = [milestone EXCEPT ![h][k] =
                                 [milestone[h][k] EXCEPT !.deadline = until]]
      BY <3>1 DEF VoteExtension
    <3> DEFINE n == [milestone[h][k] EXCEPT !.deadline = until]
    <3>3. n.deadline = until
      BY <2>1 DEF Milestone
    <3>4. milestone'[h][k] = milestone[h][k] \/ milestone'[h][k] = n
      <4>1. ASSUME milestone' = [milestone EXCEPT ![h][k] = n] PROVE milestone'[h][k] = n
        BY <2>1, <4>1 DEF TypeOK, ReviewTypeOK
      <4> QED BY <3>2, <4>1
    <3> QED BY <2>2, <3>3, <3>4 DEF Kept
  <2>5. ASSUME NEW g \in Grant, NEW i \in Index, Writing(g, i) PROVE Kept
    BY <2>1, <2>2, <2>4, <2>5, WritesOne
  <2> QED BY <2>2, <2>3, <2>5, StepKinds DEF Kept
<1> QED BY <1>1, TypeCorrect, PTL DEF Spec, ApprovalIsFinal

-----------------------------------------------------------------------------
(* The votes of a milestone.                                               *)

\* Two records of a milestone carry the same votes; a record carries none.
SameVotes(m, n) ==
    n.votes = m.votes /\ n.approvals = m.approvals /\ n.rejections = m.rejections

Afresh(n) ==
    n.votes = [p \in Person |-> "none"] /\ n.approvals = 0 /\ n.rejections = 0

\* One reviewer more has voted.
OneVoteMore(m, n) ==
    \E p \in Person, approve \in BOOLEAN :
        m.votes[p] = "none" /\ SameVotes(Counted(m, p, approve), n)

\* In one step the votes of a milestone stay, start afresh with a submission, or
\* grow by one.
VotesMove(m, n) ==
    \/ SameVotes(m, n) /\ (n.state = "Absent" => m.state = "Absent")
    \/ Afresh(n) /\ m.state \in {"Absent", "Rejected"} /\ n.state = "Submitted"
    \/ OneVoteMore(m, n) /\ n.state # "Absent"

LEMMA StateKeepsVotes ==
  ASSUME NEW c \in Milestone, NEW s
  PROVE  SameVotes(c, [c EXCEPT !.state = s]) /\ [c EXCEPT !.state = s].state = s
  BY DEF Milestone, SameVotes

LEMMA DeadlineKeepsVotes ==
  ASSUME NEW c \in Milestone, NEW until
  PROVE  /\ SameVotes(c, [c EXCEPT !.deadline = until])
         /\ [c EXCEPT !.deadline = until].state = c.state
  BY DEF Milestone, SameVotes

LEMMA WritingVotes ==
  ASSUME TypeOK, NEW g \in Grant, NEW i \in Index, Writing(g, i)
  PROVE  VotesMove(milestone[g][i], milestone'[g][i])
<1> DEFINE m == milestone[g][i]
           Goal == VotesMove(m, milestone'[g][i])
<1>1. m \in Milestone
  BY StoredType DEF TypeOK
<1>2. ASSUME NEW n, milestone' = [milestone EXCEPT ![g][i] = n]
      PROVE  milestone'[g][i] = n
  BY <1>2 DEF TypeOK, ReviewTypeOK
<1>3. ASSUME NEW p \in Person, NEW approve \in BOOLEAN
      PROVE  /\ Counted(m, p, approve) \in Milestone
             /\ Counted(m, p, approve).state = m.state
  BY <1>1, CountedKeeps
<1>4. ASSUME NEW n, SameVotes(m, n), n.state = "Absent" => m.state = "Absent",
             milestone' = [milestone EXCEPT ![g][i] = n]
      PROVE  Goal
  BY <1>2, <1>4 DEF VotesMove
<1>5. ASSUME NEW n, NEW p \in Person, NEW approve \in BOOLEAN, m.votes[p] = "none",
             SameVotes(Counted(m, p, approve), n), n.state # "Absent",
             milestone' = [milestone EXCEPT ![g][i] = n]
      PROVE  Goal
  <2>1. milestone'[g][i] = n
    BY <1>2, <1>5
  <2> HIDE DEF m
  <2> QED BY <1>5, <2>1 DEF VotesMove, OneVoteMore
<1>6. ASSUME SubmitMilestone(g, i) PROVE Goal
  <2> DEFINE n == [Absent EXCEPT !.state = "Submitted",
                                 !.snapshot = Len(reviewers[g]),
                                 !.submittedAt = now]
  <2>1. n.state = "Submitted" /\ Afresh(n)
    BY DEF Absent, Afresh
  <2>2. m.state \in {"Absent", "Rejected"}
    BY <1>1, <1>6 DEF SubmitMilestone, Milestone, MilestoneState
  <2>3. milestone' = [milestone EXCEPT ![g][i] = n]
    BY <1>6 DEF SubmitMilestone
  <2> HIDE DEF n, m
  <2> QED BY <1>2, <2>1, <2>2, <2>3 DEF VotesMove
<1>7. ASSUME AutoApprove(g, i) PROVE Goal
  <2>1. milestone' = [milestone EXCEPT ![g][i] = [m EXCEPT !.state = "Approved"]]
    BY <1>7 DEF AutoApprove
  <2> HIDE DEF Goal, m
  <2> QED BY <1>1, <1>4, <2>1, StateKeepsVotes
<1>8. ASSUME NEW p \in Person, MilestoneReject(g, i, p) PROVE Goal
  <2> DEFINE c == Counted(m, p, FALSE)
  <2>1. PICK n : /\ n = c \/ n = [c EXCEPT !.state = "Rejected"]
                 /\ milestone' = [milestone EXCEPT ![g][i] = n]
    BY <1>8 DEF MilestoneReject
  <2>2. c \in Milestone /\ c.state = "Submitted"
    BY <1>3, <1>8 DEF MilestoneReject, MayVote
  <2>3. m.votes[p] = "none"
    BY <1>8 DEF MilestoneReject, MayVote
  <2>4. SameVotes(c, n) /\ n.state # "Absent"
    <3> HIDE DEF c
    <3>1. SameVotes(c, c)
      BY DEF SameVotes
    <3> QED BY <2>1, <2>2, <3>1, StateKeepsVotes
  <2> HIDE DEF Goal, m
  <2> QED BY <1>5, <2>1, <2>3, <2>4
<1>9. ASSUME NEW p \in Person, NEW approve \in BOOLEAN, Voted(g, i, p, approve)
      PROVE  Goal
  <2> DEFINE c == Counted(m, p, approve)
             n == Settled(c)
  <2>1. milestone' = [milestone EXCEPT ![g][i] = n]
    BY <1>9 DEF Voted, SimpleVote
  <2>2. c \in Milestone /\ c.state = "Submitted"
    BY <1>3, <1>9 DEF Voted, SimpleVote, MayVote
  <2>3. m.votes[p] = "none"
    BY <1>9 DEF Voted, SimpleVote, MayVote
  <2>4. SameVotes(c, n) /\ n.state # "Absent"
    <3> HIDE DEF c
    <3>1. SameVotes(c, c)
      BY DEF SameVotes
    <3>2. n \in {c, [c EXCEPT !.state = "Approved"], [c EXCEPT !.state = "Rejected"]}
      BY DEF Settled
    <3> HIDE DEF n
    <3> QED BY <2>2, <3>1, <3>2, StateKeepsVotes
  <2> HIDE DEF Goal, m, n
  <2> QED BY <1>5, <2>1, <2>3, <2>4
<1>10. ASSUME NEW p \in Person, NEW approve \in BOOLEAN, VotedQuadratically(g, i, p, approve)
       PROVE  Goal
  <2> DEFINE n == QvSettled(m, QvAfter(g, i, 1, approve))
  <2>1. milestone' = [milestone EXCEPT ![g][i] = n]
    BY <1>10 DEF VotedQuadratically, QuadraticVote
  <2> HIDE DEF Goal, m
  <2>2. n \in {m, [m EXCEPT !.state = "Approved"], [m EXCEPT !.state = "Rejected"]}
    BY DEF QvSettled
  <2>3. SameVotes(m, m)
    BY DEF SameVotes
  <2> HIDE DEF n
  <2>4. SameVotes(m, n) /\ (n.state = "Absent" => m.state = "Absent")
    BY <1>1, <2>2, <2>3, StateKeepsVotes
  <2> QED BY <1>4, <2>1, <2>4
<1>11. ASSUME NEW p \in Person, NEW approve \in BOOLEAN, VoteExtension(g, i, p, approve)
       PROVE  Goal
  <2>1. PICK until : milestone' = milestone
                     \/ milestone' = [milestone EXCEPT ![g][i] = [m EXCEPT !.deadline = until]]
    BY <1>11 DEF VoteExtension
  <2>2. ASSUME milestone' = milestone PROVE Goal
    BY <2>2 DEF VotesMove, SameVotes
  <2> HIDE DEF Goal, m
  <2> QED BY <1>1, <1>4, <2>1, <2>2, DeadlineKeepsVotes
<1> HIDE DEF Goal
<1> QED BY <1>6, <1>7, <1>8, <1>9, <1>10, <1>11 DEF Writing, Goal

LEMMA StepVotes ==
  ASSUME TypeOK, [Next]_vars, NEW h \in Grant, NEW k \in Index
  PROVE  VotesMove(milestone[h][k], milestone'[h][k])
<1> DEFINE Goal == VotesMove(milestone[h][k], milestone'[h][k])
<1>1. ASSUME milestone'[h][k] = milestone[h][k] PROVE Goal
  BY <1>1 DEF VotesMove, SameVotes
<1>2. ASSUME NEW g \in Grant, NEW final, CloseGrant(g, final)
      PROVE  UNCHANGED milestone
  BY <1>2 DEF CloseGrant, reviewVars
<1>3. ASSUME NEW g \in Grant, NEW i \in Index, Writing(g, i) PROVE Goal
  <2>1. CASE h = g /\ k = i
    BY <1>3, <2>1, WritingVotes
  <2>2. CASE ~(h = g /\ k = i)
    BY <1>1, <1>3, <2>2, WritesOne
  <2> QED BY <2>1, <2>2
<1> HIDE DEF Goal
<1> QED BY <1>1, <1>2, <1>3, StepKinds DEF Goal

\* Votes need a submission: a milestone that is absent has none.
AbsentUnvoted ==
    \A g \in Grant : \A i \in Index :
        milestone[g][i].state = "Absent" =>
            \A p \in Person : milestone[g][i].votes[p] = "none"

LEMMA StepAbsentUnvoted == TypeOK /\ AbsentUnvoted /\ [Next]_vars => AbsentUnvoted'
<1> SUFFICES ASSUME TypeOK, AbsentUnvoted, [Next]_vars, NEW g \in Grant, NEW i \in Index,
                    milestone'[g][i].state = "Absent", NEW p \in Person
             PROVE  milestone'[g][i].votes[p] = "none"
  BY DEF AbsentUnvoted
<1>1. VotesMove(milestone[g][i], milestone'[g][i])
  BY StepVotes
<1>2. milestone[g][i].state = "Absent" => milestone[g][i].votes[p] = "none"
  BY DEF AbsentUnvoted
<1> QED BY <1>1, <1>2 DEF VotesMove, SameVotes

\* A vote stays what it was until its milestone is submitted afresh, after a
\* rejection: no vote, invoice, extension or change of reviewers takes it back.
THEOREM VotesAreKept == Spec => VotesStand
<1> DEFINE Stand ==
      \A g \in Grant : \A i \in Index : \A p \in Person :
          milestone[g][i].votes[p] # "none" =>
             \/ milestone'[g][i].votes[p] = milestone[g][i].votes[p]
             \/ milestone[g][i].state = "Rejected" /\ milestone'[g][i].state = "Submitted"
<1>1. Init => AbsentUnvoted
  BY DEF Init, ReviewInit, Absent, AbsentUnvoted
<1>2. TypeOK /\ AbsentUnvoted /\ [Next]_vars => Stand
  <2> SUFFICES ASSUME TypeOK, AbsentUnvoted, [Next]_vars,
                      NEW g \in Grant, NEW i \in Index, NEW q \in Person,
                      milestone[g][i].votes[q] # "none"
               PROVE  \/ milestone'[g][i].votes[q] = milestone[g][i].votes[q]
                      \/ milestone[g][i].state = "Rejected" /\ milestone'[g][i].state = "Submitted"
    OBVIOUS
  <2> DEFINE m == milestone[g][i]
             n == milestone'[g][i]
  <2>1. m \in Milestone /\ m.state # "Absent"
    BY StoredType DEF TypeOK, AbsentUnvoted
  <2>2. VotesMove(m, n)
    BY StepVotes
  <2> HIDE DEF m, n
  <2>3. ASSUME NEW p \in Person, NEW approve \in BOOLEAN, m.votes[p] = "none",
               SameVotes(Counted(m, p, approve), n), m.votes[q] # "none"
        PROVE  n.votes[q] = m.votes[q]
    BY <2>1, <2>3 DEF SameVotes, Counted, Milestone
  <2>4. m.votes[q] # "none"
    BY DEF m
  <2> QED BY <2>1, <2>2, <2>3, <2>4 DEF VotesMove, OneVoteMore, SameVotes, m, n
<1>3. Spec => []AbsentUnvoted
  BY <1>1, StepAbsentUnvoted, TypeCorrect, PTL DEF Spec
<1> QED BY <1>2, <1>3, TypeCorrect, PTL DEF Spec, VotesStand

-----------------------------------------------------------------------------
(* The tallies of a milestone.                                             *)

\* What TallyWithinVotes says of one milestone, with the reputations R.
Tallied(m, R) ==
    /\ Cardinality(Voters(m, "approve")) <= m.approvals
    /\ m.approvals <= Sum(R, Voters(m, "approve"))
    /\ Cardinality(Voters(m, "reject")) <= m.rejections
    /\ m.rejections <= Sum(R, Voters(m, "reject"))

\* A reputation starts at 1 and is never taken down (governance.rs).
EveryVoteWeighs == \A p \in Person : reputation[p] >= 1

ReputationGrows == \A p \in Person : reputation'[p] >= reputation[p]

LEMMA RewardedGrows ==
  ASSUME reputation \in [Person -> Nat], NEW ps, NEW p \in Person
  PROVE  Rewarded(ps)[p] >= reputation[p]
  BY DEF Rewarded

LEMMA StepReputation == TypeOK /\ [Next]_vars => ReputationGrows
<1> SUFFICES ASSUME TypeOK, [Next]_vars, NEW q \in Person
             PROVE  reputation'[q] >= reputation[q]
  BY DEF ReputationGrows
<1> DEFINE Goal == reputation'[q] >= reputation[q]
<1>1. reputation \in [Person -> Nat]
  BY DEF TypeOK, ReviewTypeOK
<1>2. ASSUME NEW ps, reputation' = reputation \/ reputation' = Rewarded(ps) PROVE Goal
  BY <1>1, <1>2, RewardedGrows
<1>3. ASSUME NEW g \in Grant, NEW final, CloseGrant(g, final) PROVE UNCHANGED reputation
  BY <1>3 DEF CloseGrant, reviewVars
<1>4. ASSUME NEW g \in Grant, NEW i \in Index, Writing(g, i) PROVE Goal
  <2>1. ASSUME SubmitMilestone(g, i) \/ AutoApprove(g, i) PROVE UNCHANGED reputation
    BY <2>1 DEF SubmitMilestone, AutoApprove
  <2>2. ASSUME NEW p \in Person, MilestoneReject(g, i, p)
        PROVE  \E ps : reputation' = reputation \/ reputation' = Rewarded(ps)
    BY <2>2 DEF MilestoneReject
  <2>3. ASSUME NEW p \in Person, NEW approve \in BOOLEAN, Voted(g, i, p, approve)
        PROVE  \E ps : reputation' = Rewarded(ps)
    BY <2>3 DEF Voted, SimpleVote
  <2>4. ASSUME NEW p \in Person, NEW approve \in BOOLEAN,
               VotedQuadratically(g, i, p, approve) \/ VoteExtension(g, i, p, approve)
        PROVE  UNCHANGED reputation
    BY <2>4 DEF VotedQuadratically, QuadraticVote, VoteExtension
  <2> HIDE DEF Goal
  <2> QED BY <1>2, <1>4, <2>1, <2>2, <2>3, <2>4 DEF Writing
<1> HIDE DEF Goal
<1> QED BY <1>2, <1>3, <1>4, StepKinds DEF Goal

\* The weights a set of voters may have.
LEMMA VotersSummands ==
  ASSUME NEW m \in Milestone, NEW v, NEW R \in [Person -> Nat]
  PROVE  Summands(R, Voters(m, v)) /\ Cardinality(Voters(m, v)) \in Nat
<1>1. IsFiniteSet(Person) /\ Voters(m, v) \subseteq Person
  BY ReviewAssumption DEF Voters
<1> QED BY <1>1, FS_Subset, FS_CardinalityType DEF Summands

LEMMA TalliedLater ==
  ASSUME NEW m \in Milestone, NEW n \in Milestone, SameVotes(m, n),
         NEW R \in [Person -> Nat], NEW L \in [Person -> Nat],
         \A p \in Person : R[p] <= L[p], Tallied(m, R)
  PROVE  Tallied(n, L)
<1>1. Voters(n, "approve") = Voters(m, "approve") /\ Voters(n, "reject") = Voters(m, "reject")
  BY DEF Voters, SameVotes
<1>2. ASSUME NEW v
      PROVE  /\ Sum(R, Voters(m, v)) <= Sum(L, Voters(m, v))
             /\ Sum(R, Voters(m, v)) \in Int /\ Sum(L, Voters(m, v)) \in Int
  <2>1. Summands(R, Voters(m, v)) /\ Summands(L, Voters(m, v))
    BY VotersSummands
  <2>2. \A p \in Voters(m, v) : R[p] <= L[p]
    BY DEF Voters
  <2> QED BY <2>1, <2>2, SumMonotone, SumType
<1>3. m.approvals \in Nat /\ m.rejections \in Nat
  BY DEF Milestone
<1>4. ASSUME NEW v, NEW k \in Nat, k <= Sum(R, Voters(m, v))
      PROVE  k <= Sum(L, Voters(m, v))
  BY <1>2, <1>4
<1>5. /\ m.approvals <= Sum(L, Voters(m, "approve"))
      /\ m.rejections <= Sum(L, Voters(m, "reject"))
  BY <1>3, <1>4 DEF Tallied
<1>6. n.approvals = m.approvals /\ n.rejections = m.rejections
  BY DEF SameVotes
<1> QED BY <1>1, <1>5, <1>6 DEF Tallied

\* In n the reviewer p, who has not voted in m, votes v.
CastsVote(p, v, m, n) == m.votes[p] = "none" /\ n.votes = [m.votes EXCEPT ![p] = v]

\* One vote more adds its voter to those who voted so and to no others.
LEMMA VotersAfter ==
  ASSUME TypeOK, NEW m \in Milestone, NEW p \in Person, NEW v \in {"approve", "reject"},
         NEW n, CastsVote(p, v, m, n)
  PROVE  /\ Cardinality(Voters(n, v)) = Cardinality(Voters(m, v)) + 1
         /\ Sum(reputation, Voters(n, v)) = Sum(reputation, Voters(m, v)) + reputation[p]
         /\ \A w \in {"approve", "reject"} : w # v => Voters(n, w) = Voters(m, w)
<1>1. m.votes \in [Person -> Vote]
  BY DEF Milestone
<1>2. Voters(n, v) = Voters(m, v) \cup {p} /\ p \notin Voters(m, v)
  BY <1>1 DEF Voters, CastsVote
<1>3. \A w \in {"approve", "reject"} : w # v => Voters(n, w) = Voters(m, w)
  BY <1>1 DEF Voters, CastsVote
<1>4. /\ Summands(reputation, Voters(m, v)) /\ IsFiniteSet(Voters(m, v))
      /\ reputation[p] \in Int
  BY VotersSummands DEF Summands, TypeOK, ReviewTypeOK
<1> DEFINE V == Voters(m, v)
<1> HIDE DEF V
<1>5. Cardinality(V \cup {p}) = Cardinality(V) + 1
  BY <1>2, <1>4, FS_AddElement DEF V
<1>6. Sum(reputation, V \cup {p}) = Sum(reputation, V) + reputation[p]
  BY <1>2, <1>4, SumAdd DEF V
<1> QED BY <1>2, <1>3, <1>5, <1>6, Zenon DEF V

LEMMA TalliedVote ==
  ASSUME TypeOK, EveryVoteWeighs, NEW m \in Milestone, Tallied(m, reputation),
         NEW p \in Person, NEW approve \in BOOLEAN, m.votes[p] = "none"
  PROVE  Tallied(Counted(m, p, approve), reputation)
<1> DEFINE c == Counted(m, p, approve)
           v == IF approve THEN "approve" ELSE "reject"
           w == IF approve THEN "reject" ELSE "approve"
<1>1. reputation \in [Person -> Nat] /\ reputation[p] >= 1 /\ reputation[p] \in Nat
  BY DEF TypeOK, ReviewTypeOK, EveryVoteWeighs
<1>2. CastsVote(p, v, m, c)
  BY DEF Counted, Milestone, CastsVote
<1>3. v \in {"approve", "reject"} /\ w \in {"approve", "reject"} /\ w # v
  OBVIOUS
<1> HIDE DEF c
<1>4. /\ Cardinality(Voters(c, v)) = Cardinality(Voters(m, v)) + 1
      /\ Sum(reputation, Voters(c, v)) = Sum(reputation, Voters(m, v)) + reputation[p]
      /\ Voters(c, w) = Voters(m, w)
  <2> HIDE DEF v, w
  <2>1. /\ Cardinality(Voters(c, v)) = Cardinality(Voters(m, v)) + 1
        /\ Sum(reputation, Voters(c, v)) = Sum(reputation, Voters(m, v)) + reputation[p]
        /\ \A u \in {"approve", "reject"} : u # v => Voters(c, u) = Voters(m, u)
    BY <1>2, <1>3, VotersAfter
  <2> QED BY <1>3, <2>1, Zenon
<1>5. \A u \in {"approve", "reject"} :
         Cardinality(Voters(m, u)) \in Nat /\ Sum(reputation, Voters(m, u)) \in Int
  BY <1>1, VotersSummands, SumType
<1>6. m.approvals \in Nat /\ m.rejections \in Nat
  BY DEF Milestone
<1>7. CASE approve
  <2>1. c.approvals = m.approvals + reputation[p] /\ c.rejections = m.rejections
    BY <1>7 DEF c, Counted, Milestone
  <2>2. v = "approve" /\ w = "reject"
    BY <1>7
  <2> HIDE DEF v, w
  <2> QED BY <1>1, <1>4, <1>5, <1>6, <2>1, <2>2 DEF Tallied, c
<1>8. CASE ~approve
  <2>1. c.rejections = m.rejections + reputation[p] /\ c.approvals = m.approvals
    BY <1>8 DEF c, Counted, Milestone
  <2>2. v = "reject" /\ w = "approve"
    BY <1>8
  <2> HIDE DEF v, w
  <2> QED BY <1>1, <1>4, <1>5, <1>6, <2>1, <2>2 DEF Tallied, c
<1> QED BY <1>7, <1>8

LEMMA AfreshTallied ==
  ASSUME NEW n, Afresh(n), NEW R
  PROVE  Tallied(n, R)
<1>1. Voters(n, "approve") = {} /\ Voters(n, "reject") = {}
  BY DEF Afresh, Voters
<1>2. Sum(R, {}) = 0 /\ Cardinality({}) = 0
  BY SumEmpty, FS_EmptySet
<1> QED BY <1>1, <1>2 DEF Tallied, Afresh

LEMMA StepTally ==
  TypeOK /\ EveryVoteWeighs /\ TallyWithinVotes /\ [Next]_vars => TallyWithinVotes'
<1> SUFFICES ASSUME TypeOK, EveryVoteWeighs, TallyWithinVotes, [Next]_vars,
                    NEW g \in Grant, NEW i \in Index
             PROVE  Tallied(milestone'[g][i], reputation')
  BY DEF TallyWithinVotes, Tallied, Voters, Sum
<1> DEFINE m == milestone[g][i]
           n == milestone'[g][i]
<1>1. TypeOK'
  BY StepTypeOK
<1>2. m \in Milestone /\ n \in Milestone
  BY <1>1, StoredType DEF TypeOK, ReviewTypeOK
<1>3. reputation \in [Person -> Nat] /\ reputation' \in [Person -> Nat]
  BY <1>1 DEF TypeOK, ReviewTypeOK
<1>4. \A p \in Person : reputation[p] <= reputation'[p]
  BY <1>3, StepReputation DEF ReputationGrows
<1>5. Tallied(m, reputation)
  BY DEF TallyWithinVotes, Tallied, Sum
<1>6. VotesMove(m, n)
  BY StepVotes
<1> HIDE DEF m, n
<1>7. ASSUME NEW c \in Milestone, Tallied(c, reputation), SameVotes(c, n)
      PROVE  Tallied(n, reputation')
  BY <1>2, <1>3, <1>4, <1>7, TalliedLater
<1>8. ASSUME OneVoteMore(m, n) PROVE Tallied(n, reputation')
  <2>1. PICK p \in Person, approve \in BOOLEAN :
               m.votes[p] = "none" /\ SameVotes(Counted(m, p, approve), n)
    BY <1>8 DEF OneVoteMore
  <2>2. Counted(m, p, approve) \in Milestone
    BY <1>2, <1>3, CountedType
  <2>3. Tallied(Counted(m, p, approve), reputation)
    BY <1>2, <1>5, <2>1, TalliedVote
  <2> QED BY <1>7, <2>1, <2>2, <2>3
<1> QED BY <1>2, <1>5, <1>6, <1>7, <1>8, AfreshTallied DEF VotesMove, n

\* Every vote counts once, with a weight its reviewer has had: a tally is at
\* least the number of its voters and at most what they weigh today, though
\* reputations move while votes are open and reviewers come and go.
THEOREM TalliesStayWithinVotes == Spec => []TallyWithinVotes
<1>1. Init => EveryVoteWeighs /\ TallyWithinVotes
  <2> SUFFICES ASSUME Init PROVE EveryVoteWeighs /\ TallyWithinVotes
    OBVIOUS
  <2>1. EveryVoteWeighs
    BY DEF Init, ReviewInit, EveryVoteWeighs
  <2>2. ASSUME NEW g \in Grant, NEW i \in Index PROVE Tallied(milestone[g][i], reputation)
    <3>1. Afresh(milestone[g][i])
      BY DEF Init, ReviewInit, Absent, Afresh
    <3> QED BY <3>1, AfreshTallied
  <2>3. TallyWithinVotes
    BY <2>2 DEF TallyWithinVotes, Tallied, Sum
  <2> QED BY <2>1, <2>3
<1>2. TypeOK /\ EveryVoteWeighs /\ [Next]_vars => EveryVoteWeighs'
  <2> SUFFICES ASSUME TypeOK, EveryVoteWeighs, [Next]_vars, NEW p \in Person
               PROVE  reputation'[p] >= 1
    BY DEF EveryVoteWeighs
  <2>1. TypeOK'
    BY StepTypeOK
  <2>2. reputation[p] \in Nat /\ reputation'[p] \in Nat
    BY <2>1 DEF TypeOK, ReviewTypeOK
  <2>3. reputation'[p] >= reputation[p] /\ reputation[p] >= 1
    BY StepReputation DEF ReputationGrows, EveryVoteWeighs
  <2> QED BY <2>2, <2>3
<1> QED BY <1>1, <1>2, StepTally, TypeCorrect, PTL DEF Spec

-----------------------------------------------------------------------------
(* Pauses.                                                                 *)

\* While the contract is paused only a vote on an extension writes a milestone,
\* and an auto-approval, which asks no gate.
LEMMA PausedSteps ==
  ASSUME [Next]_vars, paused, "auto_approve" \notin EntryPoints
  PROVE  \/ UNCHANGED milestone
         \/ \E g \in Grant, i \in Index, p \in Person, approve \in BOOLEAN :
               VoteExtension(g, i, p, approve)
<1> DEFINE Kept == UNCHANGED milestone
           Extended == \E g \in Grant, i \in Index, p \in Person, approve \in BOOLEAN :
                          VoteExtension(g, i, p, approve)
<1>1. ASSUME NEW g \in Grant, NEW i \in Index, MilestoneStep(g, i) PROVE Kept
  <2>1. ASSUME SubmitChecklist(g, i) \/ SubmitInvoice(g, i) \/ WithdrawExtension(g, i)
        PROVE  Kept
    BY <2>1 DEF SubmitChecklist, SubmitInvoice, WithdrawExtension
  <2>2. ASSUME NEW until \in Time, RequestExtension(g, i, until) PROVE Kept
    BY <2>2 DEF RequestExtension
  <2> QED BY <1>1, <2>1, <2>2
          DEF MilestoneStep, MilestoneSubmit, MilestoneSubmitBatch, GrantsGateOpen, Uses
<1>2. ASSUME NEW g \in Grant, NEW i \in Index, NEW p \in Person, ReviewerStep(g, i, p)
      PROVE  Kept \/ Extended
  <2>1. ASSUME RejectInvoice(g, i, p) \/ ApproveInvoiceUndecided(g, i, p) PROVE Kept
    BY <2>1 DEF RejectInvoice, ApproveInvoiceUndecided
  <2>2. ~ApproveInvoice(g, i, p) /\ ~MilestoneReject(g, i, p)
    BY DEF ApproveInvoice, MilestoneReject, GrantsGateOpen
  <2>3. ASSUME NEW approve \in BOOLEAN PROVE ~MilestoneVote(g, i, p, approve)
    BY DEF MilestoneVote, GrantsGateOpen
  <2>4. ASSUME NEW approve \in BOOLEAN, ReviewCriterion(g, i, p, approve) PROVE Kept
    BY <2>4 DEF ReviewCriterion
  <2>5. ASSUME NEW approve \in BOOLEAN, NEW votes \in 1..MaxCredits,
               CastQvVote(g, i, p, votes, approve)
        PROVE  Kept
    BY <2>5 DEF CastQvVote
  <2>6. ASSUME NEW approve \in BOOLEAN, VoteExtension(g, i, p, approve) PROVE Extended
    BY <2>6
  <2> HIDE DEF Kept, Extended
  <2> QED BY <1>2, <2>1, <2>2, <2>3, <2>4, <2>5, <2>6 DEF ReviewerStep
<1>3. ASSUME NEW g \in Grant, NEW p \in Person, MembershipStep(g, p) PROVE Kept
  BY <1>3 DEF MembershipStep, AddReviewer, RemoveReviewer, AcceptRequest,
             ReplaceReviewer, ChangeReviewers, AllocateCredits
<1>4. ASSUME NEW g \in Grant, NEW cfg \in AutoConfig, SetAutoApprove(g, cfg) PROVE Kept
  BY <1>4 DEF SetAutoApprove
<1>5. ASSUME UNCHANGED reviewVars PROVE Kept
  BY <1>5 DEF reviewVars
<1>6. ASSUME NEW g \in Grant, NEW final, CloseGrant(g, final) PROVE Kept
  BY <1>5, <1>6 DEF CloseGrant
<1> HIDE DEF Kept, Extended
<1> QED BY <1>1, <1>2, <1>3, <1>4, <1>5, <1>6
        DEF Next, ReviewNext, GateStep, vars, Kept, Extended

\* emergency.rs:22 "Pause the contract.": but for auto_approve, whose entry
\* point asks no gate, no milestone changes its state while the contract is
\* paused, for any grants, reviewers and settings.
THEOREM PauseHoldsDecisions ==
  ASSUME "auto_approve" \notin EntryPoints
  PROVE  Spec => NothingDecidedWhilePaused
<1> DEFINE Held ==
      paused => \A g \in Grant : \A i \in Index :
                   milestone'[g][i].state = milestone[g][i].state
<1>1. TypeOK /\ [Next]_vars => Held
  <2> SUFFICES ASSUME TypeOK, [Next]_vars, paused, NEW h \in Grant, NEW k \in Index
               PROVE  milestone'[h][k].state = milestone[h][k].state
    OBVIOUS
  <2>1. ASSUME NEW g \in Grant, NEW i \in Index, NEW p \in Person, NEW approve \in BOOLEAN,
               VoteExtension(g, i, p, approve)
        PROVE  milestone'[h][k].state = milestone[h][k].state
    <3>1. PICK until : milestone' = milestone
                       \/ milestone' = [milestone EXCEPT ![g][i] =
                                            [milestone[g][i] EXCEPT !.deadline = until]]
      BY <2>1 DEF VoteExtension
    <3> DEFINE n == [milestone[g][i] EXCEPT !.deadline = until]
    <3>2. n.state = milestone[g][i].state
      BY DeadlineKeepsVotes, StoredType DEF TypeOK
    <3> HIDE DEF n
    <3>3. milestone' = milestone \/ milestone' = [milestone EXCEPT ![g][i] = n]
      BY <3>1 DEF n
    <3>4. ASSUME milestone' = [milestone EXCEPT ![g][i] = n]
          PROVE  milestone'[h][k] = IF h = g /\ k = i THEN n ELSE milestone[h][k]
      BY <3>4 DEF TypeOK, ReviewTypeOK
    <3> QED BY <3>2, <3>3, <3>4
  <2> QED BY <2>1, PausedSteps
<1>2. Spec => [][Held]_vars
  BY <1>1, TypeCorrect, PTL DEF Spec
<1> QED BY <1>2 DEF NothingDecidedWhilePaused

-----------------------------------------------------------------------------
(* Deadlines.                                                              *)

\* A pending request asks for a later deadline than the milestone has.
RequestsLookAhead ==
    \A g \in Grant : \A i \in Index :
        extension[g][i].until # NoRecord =>
            extension[g][i].until > milestone[g][i].deadline

\* What a step does to the deadline of a milestone and to the request pending
\* for it: neither moves, a fresh submission drops the deadline, the request is
\* asked, withdrawn, voted on or granted.
DeadlineMoves(m, n, e, f) ==
    \/ n.deadline = m.deadline /\ (f.until = NoRecord \/ f.until = e.until \/ f.until > n.deadline)
    \/ /\ n.deadline = NoRecord /\ f = e
       /\ m.state \in {"Absent", "Rejected"} /\ n.state = "Submitted"
    \/ n.deadline = e.until /\ e.until # NoRecord /\ f.until = NoRecord

\* What a vote does to a milestone leaves its deadline alone.
LEMMA VotesKeepDeadlines ==
  ASSUME NEW m \in Milestone
  PROVE  /\ \A s : [m EXCEPT !.state = s].deadline = m.deadline
         /\ \A p \in Person, approve \in BOOLEAN :
               Counted(m, p, approve).deadline = m.deadline
  BY DEF Milestone, Counted

LEMMA WritingDeadlines ==
  ASSUME TypeOK, NEW g \in Grant, NEW i \in Index, Writing(g, i)
  PROVE  DeadlineMoves(milestone[g][i], milestone'[g][i], extension[g][i], extension'[g][i])
<1> DEFINE m == milestone[g][i]
           e == extension[g][i]
           Goal == DeadlineMoves(m, milestone'[g][i], e, extension'[g][i])
<1>1. m \in Milestone /\ e \in ExtensionRequest
  BY StoredType DEF TypeOK
<1>2. ASSUME NEW n, milestone' = [milestone EXCEPT ![g][i] = n]
      PROVE  milestone'[g][i] = n
  BY <1>2 DEF TypeOK, ReviewTypeOK
<1>3. ASSUME NEW n, n.deadline = m.deadline, UNCHANGED extension,
             milestone' = [milestone EXCEPT ![g][i] = n]
      PROVE  Goal
  BY <1>2, <1>3 DEF DeadlineMoves
<1>4. ASSUME SubmitMilestone(g, i) PROVE Goal
  <2> DEFINE n == [Absent EXCEPT !.state = "Submitted",
                                 !.snapshot = Len(reviewers[g]),
                                 !.submittedAt = now]
  <2>1. n.state = "Submitted" /\ n.deadline = NoRecord
    BY DEF Absent
  <2>2. m.state \in {"Absent", "Rejected"}
    BY <1>1, <1>4 DEF SubmitMilestone, Milestone, MilestoneState
  <2>3. milestone' = [milestone EXCEPT ![g][i] = n] /\ extension'[g][i] = e
    BY <1>4 DEF SubmitMilestone
  <2> HIDE DEF n, m
  <2> QED BY <1>2, <2>1, <2>2, <2>3 DEF DeadlineMoves
<1>5. ASSUME AutoApprove(g, i) PROVE Goal
  <2>1. milestone' = [milestone EXCEPT ![g][i] = [m EXCEPT !.state = "Approved"]]
        /\ UNCHANGED extension
    BY <1>5 DEF AutoApprove
  <2> HIDE DEF Goal, m
  <2> QED BY <1>1, <1>3, <2>1, VotesKeepDeadlines
<1>6. ASSUME NEW p \in Person, NEW approve \in BOOLEAN
      PROVE  Counted(m, p, approve) \in Milestone
             /\ Counted(m, p, approve).deadline = m.deadline
  BY <1>1, CountedKeeps, VotesKeepDeadlines
<1>7. ASSUME NEW c \in Milestone, c.deadline = m.deadline, NEW n,
             n \in {c, [c EXCEPT !.state = "Approved"], [c EXCEPT !.state = "Rejected"]},
             UNCHANGED extension, milestone' = [milestone EXCEPT ![g][i] = n]
      PROVE  Goal
  <2>1. n.deadline = c.deadline
    <3>1. /\ [c EXCEPT !.state = "Approved"].deadline = c.deadline
          /\ [c EXCEPT !.state = "Rejected"].deadline = c.deadline
      BY VotesKeepDeadlines
    <3> QED BY <1>7, <3>1, Zenon
  <2> HIDE DEF Goal, m
  <2> QED BY <1>3, <1>7, <2>1
<1>8. ASSUME NEW p \in Person, MilestoneReject(g, i, p) PROVE Goal
  <2> DEFINE c == Counted(m, p, FALSE)
  <2>1. PICK n : /\ n \in {c, [c EXCEPT !.state = "Approved"], [c EXCEPT !.state = "Rejected"]}
                 /\ milestone' = [milestone EXCEPT ![g][i] = n]
                 /\ UNCHANGED extension
    BY <1>8 DEF MilestoneReject
  <2>2. c \in Milestone /\ c.deadline = m.deadline
    BY <1>6
  <2> HIDE DEF Goal, m, c
  <2> QED BY <1>7, <2>1, <2>2
<1>9. ASSUME NEW p \in Person, NEW approve \in BOOLEAN, Voted(g, i, p, approve)
      PROVE  Goal
  <2> DEFINE c == Counted(m, p, approve)
             n == Settled(c)
  <2>1. milestone' = [milestone EXCEPT ![g][i] = n] /\ UNCHANGED extension
    BY <1>9 DEF Voted, SimpleVote
  <2>2. c \in Milestone /\ c.deadline = m.deadline
    BY <1>6
  <2> HIDE DEF Goal, m, c
  <2>3. n \in {c, [c EXCEPT !.state = "Approved"], [c EXCEPT !.state = "Rejected"]}
    BY DEF Settled
  <2> HIDE DEF n
  <2> QED BY <1>7, <2>1, <2>2, <2>3
<1>10. ASSUME NEW p \in Person, NEW approve \in BOOLEAN, VotedQuadratically(g, i, p, approve)
       PROVE  Goal
  <2> DEFINE n == QvSettled(m, QvAfter(g, i, 1, approve))
  <2>1. milestone' = [milestone EXCEPT ![g][i] = n] /\ UNCHANGED extension
    BY <1>10 DEF VotedQuadratically, QuadraticVote
  <2> HIDE DEF Goal, m
  <2>2. n \in {m, [m EXCEPT !.state = "Approved"], [m EXCEPT !.state = "Rejected"]}
    BY DEF QvSettled
  <2> HIDE DEF n
  <2> QED BY <1>1, <1>7, <2>1, <2>2
<1>11. ASSUME NEW p \in Person, NEW approve \in BOOLEAN, VoteExtension(g, i, p, approve)
       PROVE  Goal
  <2> DEFINE voted == [e EXCEPT !.votes[p] = IF approve THEN "approve" ELSE "reject"]
             n == [m EXCEPT !.deadline = voted.until]
  <2>1. e.until # NoRecord /\ voted.until = e.until /\ NoRequest.until = NoRecord
    BY <1>1, <1>11 DEF VoteExtension, ExtensionRequest, NoRequest
  <2>2. \/ /\ milestone' = milestone
           /\ \/ extension' = [extension EXCEPT ![g][i] = NoRequest]
              \/ extension' = [extension EXCEPT ![g][i] = voted]
        \/ /\ milestone' = [milestone EXCEPT ![g][i] = n]
           /\ extension' = [extension EXCEPT ![g][i] = NoRequest]
    BY <1>11 DEF VoteExtension
  <2>3. n.deadline = e.until
    BY <1>1, <2>1 DEF Milestone
  <2> HIDE DEF voted, n
  <2>4. \A f : extension' = [extension EXCEPT ![g][i] = f] => extension'[g][i] = f
    BY DEF TypeOK, ReviewTypeOK
  <2> HIDE DEF e
  <2> QED BY <1>2, <2>1, <2>2, <2>3, <2>4 DEF DeadlineMoves
<1> HIDE DEF Goal
<1> QED BY <1>4, <1>5, <1>8, <1>9, <1>10, <1>11 DEF Writing, Goal

LEMMA StepDeadlines ==
  ASSUME TypeOK, [Next]_vars, NEW h \in Grant, NEW k \in Index
  PROVE  DeadlineMoves(milestone[h][k], milestone'[h][k], extension[h][k], extension'[h][k])
<1> DEFINE Goal == DeadlineMoves(milestone[h][k], milestone'[h][k],
                                 extension[h][k], extension'[h][k])
<1>1. ASSUME milestone'[h][k] = milestone[h][k],
             \/ extension'[h][k] = extension[h][k]
             \/ extension'[h][k].until = NoRecord
             \/ extension'[h][k].until > milestone[h][k].deadline
      PROVE  Goal
  BY <1>1 DEF DeadlineMoves
<1>2. ASSUME NEW g \in Grant, NEW final, CloseGrant(g, final)
      PROVE  UNCHANGED <<milestone, extension>>
  BY <1>2 DEF CloseGrant, reviewVars
<1>3. ASSUME NEW g \in Grant, NEW i \in Index, Writing(g, i) PROVE Goal
  <2>1. CASE h = g /\ k = i
    BY <1>3, <2>1, WritingDeadlines
  <2>2. CASE ~(h = g /\ k = i)
    <3>1. UNCHANGED extension \/ \E f : extension' = [extension EXCEPT ![g][i] = f]
      BY <1>3 DEF Writing, SubmitMilestone, AutoApprove, MilestoneReject, Voted,
                 VotedQuadratically, VoteExtension
    <3>2. extension'[h][k] = extension[h][k]
      BY <2>2, <3>1 DEF TypeOK, ReviewTypeOK
    <3> HIDE DEF Goal
    <3> QED BY <1>1, <1>3, <2>2, <3>2, WritesOne
  <2> QED BY <2>1, <2>2
<1>4. ASSUME NEW g \in Grant, NEW i \in Index, Asking(g, i) PROVE Goal
  <2>1. UNCHANGED milestone
    BY <1>4 DEF Asking, WithdrawExtension, RequestExtension
  <2>2. PICK f : /\ extension' = [extension EXCEPT ![g][i] = f]
                 /\ f.until = NoRecord \/ f.until > milestone[g][i].deadline
    <3>1. CASE WithdrawExtension(g, i)
      <4>1. extension' = [extension EXCEPT ![g][i] = NoRequest]
        BY <3>1 DEF WithdrawExtension
      <4>2. NoRequest.until = NoRecord
        BY DEF NoRequest
      <4> QED BY <4>1, <4>2
    <3>2. ASSUME NEW until \in Time, RequestExtension(g, i, until)
          PROVE  \E f : /\ extension' = [extension EXCEPT ![g][i] = f]
                        /\ f.until = NoRecord \/ f.until > milestone[g][i].deadline
      <4> DEFINE f == [NoRequest EXCEPT !.until = until]
      <4>1. f.until = until
        BY DEF NoRequest
      <4>2. extension' = [extension EXCEPT ![g][i] = f] /\ until > milestone[g][i].deadline
        BY <3>2 DEF RequestExtension
      <4> HIDE DEF f
      <4> QED BY <4>1, <4>2
    <3> QED BY <1>4, <3>1, <3>2 DEF Asking
  <2>3. extension'[h][k] = IF h = g /\ k = i THEN f ELSE extension[h][k]
    BY <2>2 DEF TypeOK, ReviewTypeOK
  <2> HIDE DEF Goal
  <2> QED BY <1>1, <2>1, <2>2, <2>3
<1> HIDE DEF Goal
<1> QED BY <1>1, <1>2, <1>3, <1>4, StepKindsOfAll DEF Goal

LEMMA StepLookAhead == TypeOK /\ RequestsLookAhead /\ [Next]_vars => RequestsLookAhead'
<1> SUFFICES ASSUME TypeOK, RequestsLookAhead, [Next]_vars, NEW g \in Grant, NEW i \in Index,
                    extension'[g][i].until # NoRecord
             PROVE  extension'[g][i].until > milestone'[g][i].deadline
  BY DEF RequestsLookAhead
<1>1. DeadlineMoves(milestone[g][i], milestone'[g][i], extension[g][i], extension'[g][i])
  BY StepDeadlines
<1>2. extension[g][i].until # NoRecord =>
         extension[g][i].until > milestone[g][i].deadline
  BY DEF RequestsLookAhead
<1>3. extension[g][i].until \in Time \cup {NoRecord}
  BY StoredType DEF TypeOK, ExtensionRequest
<1> QED BY <1>1, <1>2, <1>3, MaxTimeAssumption DEF DeadlineMoves, Time, NoRecord

\* Within one submission a deadline only moves forward, however long after it was
\* asked for an extension is granted and whoever grants it.
THEOREM DeadlinesOnlyExtend == Spec => DeadlineOnlyExtends
<1> DEFINE Extends ==
      \A g \in Grant : \A i \in Index :
          LET m == milestone[g][i] IN
          m.state # "Absent" =>
             \/ milestone'[g][i].deadline >= m.deadline
             \/ m.state = "Rejected" /\ milestone'[g][i].state = "Submitted"
<1>1. Init => RequestsLookAhead
  BY DEF Init, ReviewInit, NoRequest, RequestsLookAhead
<1>2. TypeOK /\ RequestsLookAhead /\ [Next]_vars => Extends
  <2> SUFFICES ASSUME TypeOK, RequestsLookAhead, [Next]_vars,
                      NEW g \in Grant, NEW i \in Index, milestone[g][i].state # "Absent"
               PROVE  \/ milestone'[g][i].deadline >= milestone[g][i].deadline
                      \/ milestone[g][i].state = "Rejected" /\ milestone'[g][i].state = "Submitted"
    OBVIOUS
  <2>1. DeadlineMoves(milestone[g][i], milestone'[g][i], extension[g][i], extension'[g][i])
    BY StepDeadlines
  <2>2. extension[g][i].until # NoRecord =>
           extension[g][i].until > milestone[g][i].deadline
    BY DEF RequestsLookAhead
  <2>3. extension[g][i].until \in Int /\ milestone[g][i].deadline \in Int
    BY StoredType, MaxTimeAssumption
       DEF TypeOK, ExtensionRequest, Milestone, Until, Time, NoRecord, Forever
  <2> QED BY <2>1, <2>2, <2>3 DEF DeadlineMoves
<1>3. Spec => []RequestsLookAhead
  BY <1>1, StepLookAhead, TypeCorrect, PTL DEF Spec
<1>4. Spec => [][Extends]_vars
  BY <1>2, <1>3, TypeCorrect, PTL DEF Spec
<1> QED BY <1>4 DEF DeadlineOnlyExtends

-----------------------------------------------------------------------------
(* Quadratic votes.                                                        *)

\* Of all the steps of the review, only this one moves a tally of quadratic votes.
Spending(g, i) ==
    \E p \in Person, favor \in BOOLEAN, votes \in Nat :
        votes > 0 /\ SpendCredits(g, i, p, votes, favor)

LEMMA TallyKinds ==
  ASSUME TypeOK, [Next]_vars
  PROVE  UNCHANGED qvTally \/ \E g \in Grant, i \in Index : Spending(g, i)
<1> DEFINE Kept == UNCHANGED qvTally
<1>1. ASSUME NEW g \in Grant, NEW i \in Index, MilestoneStep(g, i) PROVE Kept
  BY <1>1 DEF MilestoneStep, MilestoneSubmit, MilestoneSubmitBatch, SubmitMilestone,
             AutoApprove, SubmitChecklist, SubmitInvoice, RequestExtension,
             WithdrawExtension
<1>2. ASSUME NEW g \in Grant, NEW i \in Index, NEW p \in Person, ReviewerStep(g, i, p)
      PROVE  Kept \/ Spending(g, i)
  <2>1. ASSUME NEW approve \in BOOLEAN, QuadraticVote(g, i, p, approve)
        PROVE  Spending(g, i)
    BY <2>1 DEF QuadraticVote, Spending
  <2>2. ASSUME NEW approve \in BOOLEAN, SimpleVote(g, i, p, approve) PROVE Kept
    BY <2>2 DEF SimpleVote
  <2>3. ASSUME RejectInvoice(g, i, p) \/ MilestoneReject(g, i, p) PROVE Kept
    BY <2>3 DEF RejectInvoice, MilestoneReject
  <2>4. ASSUME ApproveInvoiceUndecided(g, i, p) PROVE Spending(g, i)
    <3>1. SpendCredits(g, i, p, 1, TRUE)
      BY <2>4, Zenon DEF ApproveInvoiceUndecided
    <3>2. 1 \in Nat /\ 1 > 0 /\ TRUE \in BOOLEAN
      OBVIOUS
    <3> QED BY <3>1, <3>2, Zenon DEF Spending
  <2>5. ASSUME ApproveInvoice(g, i, p) PROVE Kept \/ Spending(g, i)
    BY <2>1, <2>2, <2>5 DEF ApproveInvoice
  <2>6. ASSUME NEW approve \in BOOLEAN, MilestoneVote(g, i, p, approve)
        PROVE  Kept \/ Spending(g, i)
    BY <2>1, <2>2, <2>6 DEF MilestoneVote
  <2>7. ASSUME NEW approve \in BOOLEAN,
               ReviewCriterion(g, i, p, approve) \/ VoteExtension(g, i, p, approve)
        PROVE  Kept
    BY <2>7 DEF ReviewCriterion, VoteExtension
  <2>8. ASSUME NEW approve \in BOOLEAN, NEW votes \in 1..MaxCredits,
               CastQvVote(g, i, p, votes, approve)
        PROVE  Spending(g, i)
    <3>1. votes \in Nat /\ votes > 0 /\ SpendCredits(g, i, p, votes, approve)
      BY <2>8, ReviewAssumption DEF CastQvVote
    <3> QED BY <3>1 DEF Spending
  <2> HIDE DEF Kept
  <2> QED BY <1>2, <2>3, <2>4, <2>5, <2>6, <2>7, <2>8 DEF ReviewerStep
<1>3. ASSUME NEW g \in Grant, NEW p \in Person, MembershipStep(g, p) PROVE Kept
  BY <1>3 DEF MembershipStep, AddReviewer, RemoveReviewer, AcceptRequest,
             ReplaceReviewer, ChangeReviewers, AllocateCredits
<1>4. ASSUME NEW g \in Grant, NEW cfg \in AutoConfig, SetAutoApprove(g, cfg) PROVE Kept
  BY <1>4 DEF SetAutoApprove
<1>5. ASSUME UNCHANGED reviewVars PROVE Kept
  BY <1>5 DEF reviewVars
<1>6. ASSUME NEW g \in Grant, NEW final, CloseGrant(g, final) PROVE Kept
  BY <1>5, <1>6 DEF CloseGrant
<1> HIDE DEF Kept
<1> QED BY <1>1, <1>2, <1>3, <1>4, <1>5, <1>6 DEF Next, ReviewNext, GateStep, vars, Kept

\* Whichever entry point casts them, k quadratic votes cost their voter k * k
\* voice credits in the same call, and no vote is taken back (quadratic.rs).
THEOREM VotesArePaid == Spec => QvVotesArePaid
<1> DEFINE Paid ==
      \A g \in Grant : \A i \in Index :
          LET k == QvCast(g, i)' - QvCast(g, i) IN
          /\ k >= 0
          /\ k > 0 => \E p \in Person : credits[g][p] - credits'[g][p] = k * k
<1>1. TypeOK /\ [Next]_vars => Paid
  <2> SUFFICES ASSUME TypeOK, [Next]_vars, NEW h \in Grant, NEW j \in Index
               PROVE  LET k == QvCast(h, j)' - QvCast(h, j) IN
                      /\ k >= 0
                      /\ k > 0 => \E p \in Person : credits[h][p] - credits'[h][p] = k * k
    OBVIOUS
  <2>1. qvTally[h][j].for \in Nat /\ qvTally[h][j].against \in Nat
    BY DEF TypeOK, ReviewTypeOK
  <2>2. CASE qvTally'[h][j] = qvTally[h][j]
    BY <2>1, <2>2 DEF QvCast
  <2>3. ASSUME NEW g \in Grant, NEW i \in Index, Spending(g, i)
        PROVE  \/ qvTally'[h][j] = qvTally[h][j]
               \/ \E p \in Person, votes \in Nat :
                     /\ QvCast(h, j)' = QvCast(h, j) + votes
                     /\ credits[h][p] - credits'[h][p] = votes * votes
    <3>1. PICK p \in Person, favor \in BOOLEAN, votes \in Nat :
                 SpendCredits(g, i, p, votes, favor)
      BY <2>3 DEF Spending
    <3> DEFINE q == QvAfter(g, i, votes, favor)
               left == credits[g][p] - votes * votes
    <3>2. /\ qvTally' = [qvTally EXCEPT ![g][i] = q]
          /\ credits' = [credits EXCEPT ![g][p] = left]
          /\ votes * votes <= credits[g][p] /\ credits[g][p] # NoRecord
      BY <3>1 DEF SpendCredits, CreditCost
    <3>3. votes * votes \in Nat
      OBVIOUS
    <3>4. credits[g][p] - left = votes * votes
      BY <3>2, <3>3 DEF TypeOK, ReviewTypeOK
    <3>5. qvTally[g][i].for \in Nat /\ qvTally[g][i].against \in Nat
          /\ qvTally[g][i] \in [for : Nat, against : Nat]
      BY DEF TypeOK, ReviewTypeOK
    <3>6. q.for + q.against = qvTally[g][i].for + qvTally[g][i].against + votes
      BY <3>5 DEF QvAfter
    <3> HIDE DEF q, left
    <3>7. CASE h = g /\ j = i
      <4>1. qvTally'[h][j] = q /\ credits'[h][p] = left
        BY <3>2, <3>7 DEF TypeOK, ReviewTypeOK
      <4>2. QvCast(h, j)' = QvCast(h, j) + votes
        BY <3>6, <3>7, <4>1 DEF QvCast
      <4>3. credits[h][p] - credits'[h][p] = votes * votes
        BY <3>4, <3>7, <4>1
      <4> QED BY <4>2, <4>3
    <3>8. CASE ~(h = g /\ j = i)
      BY <3>2, <3>8 DEF TypeOK, ReviewTypeOK
    <3> QED BY <3>7, <3>8
  <2>4. ASSUME NEW p \in Person, NEW votes \in Nat,
               QvCast(h, j)' = QvCast(h, j) + votes,
               credits[h][p] - credits'[h][p] = votes * votes
        PROVE  LET k == QvCast(h, j)' - QvCast(h, j) IN
               /\ k >= 0
               /\ k > 0 => \E r \in Person : credits[h][r] - credits'[h][r] = k * k
    <3>1. QvCast(h, j) \in Nat
      BY <2>1 DEF QvCast
    <3>2. QvCast(h, j)' - QvCast(h, j) = votes
      BY <2>4, <3>1
    <3> QED BY <2>4, <3>2
  <2>5. CASE UNCHANGED qvTally
    BY <2>2, <2>5
  <2> QED BY <2>2, <2>3, <2>4, <2>5, TallyKinds
<1>2. Spec => [][Paid]_vars
  BY <1>1, TypeCorrect, PTL DEF Spec
<1> QED BY <1>2 DEF QvVotesArePaid

LEMMA QvWriting ==
  ASSUME TypeOK, NEW g \in Quadratic, NEW i \in Index, Writing(g, i),
         "auto_approve" \notin EntryPoints,
         milestone'[g][i].state # milestone[g][i].state
  PROVE  /\ milestone'[g][i].state = "Approved" =>
               qvTally'[g][i].for > qvTally'[g][i].against
         /\ milestone'[g][i].state = "Rejected" /\ qvTally'[g][i] # qvTally[g][i] =>
               qvTally'[g][i].against > qvTally'[g][i].for
<1> DEFINE m == milestone[g][i]
           Goal == /\ milestone'[g][i].state = "Approved" =>
                         qvTally'[g][i].for > qvTally'[g][i].against
                   /\ milestone'[g][i].state = "Rejected" /\ qvTally'[g][i] # qvTally[g][i] =>
                         qvTally'[g][i].against > qvTally'[g][i].for
<1>1. g \in Grant /\ m \in Milestone
  BY ReviewAssumption, StoredType DEF TypeOK
<1>2. ASSUME NEW n, milestone' = [milestone EXCEPT ![g][i] = n]
      PROVE  milestone'[g][i] = n
  BY <1>1, <1>2 DEF TypeOK, ReviewTypeOK
<1>3. ASSUME SubmitMilestone(g, i) PROVE milestone'[g][i].state = "Submitted"
  <2> DEFINE n == [Absent EXCEPT !.state = "Submitted",
                                 !.snapshot = Len(reviewers[g]),
                                 !.submittedAt = now]
  <2>1. n.state = "Submitted"
    BY DEF Absent
  <2>2. milestone' = [milestone EXCEPT ![g][i] = n]
    BY <1>3 DEF SubmitMilestone
  <2> HIDE DEF n
  <2> QED BY <1>2, <2>1, <2>2
<1>4. ASSUME NEW p \in Person, MilestoneReject(g, i, p)
      PROVE  milestone'[g][i].state # "Approved" /\ UNCHANGED qvTally
  <2> DEFINE c == Counted(m, p, FALSE)
  <2>1. PICK n : /\ n = c \/ n = [c EXCEPT !.state = "Rejected"]
                 /\ milestone' = [milestone EXCEPT ![g][i] = n]
                 /\ UNCHANGED qvTally
    BY <1>4 DEF MilestoneReject
  <2>2. c \in Milestone /\ c.state = "Submitted"
    BY <1>1, <1>4, CountedKeeps DEF MilestoneReject, MayVote
  <2> HIDE DEF c
  <2>3. n.state # "Approved"
    <3>1. [c EXCEPT !.state = "Rejected"].state = "Rejected"
      BY <2>2, StateKeepsVotes
    <3> QED BY <2>1, <2>2, <3>1
  <2> QED BY <1>2, <2>1, <2>3
<1>5. ASSUME NEW p \in Person, NEW approve \in BOOLEAN, VotedQuadratically(g, i, p, approve)
      PROVE  Goal
  <2> DEFINE q == QvAfter(g, i, 1, approve)
             n == QvSettled(m, q)
  <2>1. /\ milestone' = [milestone EXCEPT ![g][i] = n]
        /\ qvTally' = [qvTally EXCEPT ![g][i] = q]
    BY <1>5 DEF VotedQuadratically, QuadraticVote, SpendCredits
  <2> HIDE DEF q, m
  <2>2. n.state # m.state =>
           \/ n.state = "Approved" /\ q.for > q.against
           \/ n.state = "Rejected" /\ q.against > q.for
    BY <1>1, StateKeepsVotes DEF QvSettled
  <2> HIDE DEF n
  <2>3. milestone'[g][i] = n /\ qvTally'[g][i] = q
    BY <1>1, <1>2, <2>1 DEF TypeOK, ReviewTypeOK
  <2> QED BY <2>2, <2>3 DEF m
<1>6. ASSUME NEW p \in Person, NEW approve \in BOOLEAN, VoteExtension(g, i, p, approve)
      PROVE  milestone'[g][i].state = m.state
  <2>1. PICK until : milestone' = milestone
                     \/ milestone' = [milestone EXCEPT ![g][i] = [m EXCEPT !.deadline = until]]
    BY <1>6 DEF VoteExtension
  <2> DEFINE n == [m EXCEPT !.deadline = until]
  <2>2. n.state = m.state
    BY <1>1, DeadlineKeepsVotes
  <2>3. milestone' = milestone \/ milestone'[g][i] = n
    BY <1>2, <2>1
  <2> HIDE DEF n
  <2> QED BY <2>2, <2>3
<1>7. ASSUME NEW p \in Person, NEW approve \in BOOLEAN PROVE ~Voted(g, i, p, approve)
  BY DEF Voted, SimpleVote
<1> HIDE DEF Goal
<1>8. ASSUME milestone'[g][i].state = "Submitted" PROVE Goal
  BY <1>8 DEF Goal
<1>9. ASSUME milestone'[g][i].state # "Approved" /\ UNCHANGED qvTally PROVE Goal
  BY <1>9 DEF Goal
<1> QED BY <1>3, <1>4, <1>5, <1>6, <1>7, <1>8, <1>9 DEF Writing, Uses, Goal

\* Quadratic votes are paid for and decide: with no auto-approval, which looks at
\* no tally, whichever entry point approves a quadratic milestone finds more
\* votes for it than against it, though cast_qv_vote casts votes that decide
\* nothing, and votes that reject it leave more against it.
THEOREM QuadraticVotingIsHonest ==
  ASSUME "auto_approve" \notin EntryPoints
  PROVE  Spec => QvIsHonest
<1> DEFINE Follows ==
      \A g \in Quadratic : \A i \in Index :
          LET decided == milestone'[g][i].state # milestone[g][i].state
              tally   == qvTally'[g][i]
          IN decided =>
                /\ milestone'[g][i].state = "Approved" => tally.for > tally.against
                /\ milestone'[g][i].state = "Rejected" /\ tally # qvTally[g][i] =>
                      tally.against > tally.for
<1>1. TypeOK /\ [Next]_vars => Follows
  <2> SUFFICES ASSUME TypeOK, [Next]_vars, NEW h \in Quadratic, NEW k \in Index,
                      milestone'[h][k].state # milestone[h][k].state
               PROVE  /\ milestone'[h][k].state = "Approved" =>
                            qvTally'[h][k].for > qvTally'[h][k].against
                      /\ milestone'[h][k].state = "Rejected" /\ qvTally'[h][k] # qvTally[h][k] =>
                            qvTally'[h][k].against > qvTally'[h][k].for
    OBVIOUS
  <2>1. h \in Grant
    BY ReviewAssumption
  <2>2. ASSUME NEW g \in Grant, NEW final, CloseGrant(g, final) PROVE UNCHANGED milestone
    BY <2>2 DEF CloseGrant, reviewVars
  <2>3. PICK g \in Grant, i \in Index : Writing(g, i)
    BY <2>2, StepKinds
  <2>4. h = g /\ k = i
    BY <2>1, <2>3, WritesOne
  <2> QED BY <2>3, <2>4, QvWriting
<1>2. Spec => [][Follows]_vars
  BY <1>1, TypeCorrect, PTL DEF Spec
<1> QED BY <1>2, VotesArePaid DEF QvDecisionFollowsTally, QvIsHonest
=============================================================================
