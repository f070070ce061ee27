------------------------------ MODULE MCReview ------------------------------
(* Instances of MilestoneReview for TLC. *)
EXTENDS MilestoneReview, TLC

CONSTANTS g1, g2, r1, r2

\* A grant may be created without reviewers (lib.rs:4262-4272).
NoReviewers == [g \in Grant |-> <<>>]

\* The grace period may be 0: auto_approve.rs set_config does not look at it.
ImpatientOwner == {[enabled |-> TRUE, grace |-> 0, minVotes |-> 1]}

\* Sound where no reviewer is named by the constants.
PersonSymmetry == Permutations(Person)

NoQuadratic == {}

\* A state constraint: an invoice decides its own milestone and none other, so
\* that of a second milestone may wait.
OneInvoice ==
    \A g \in Grant : \A i, j \in Index : i # j => "none" \in {invoice[g][i], invoice[g][j]}

-----------------------------------------------------------------------------
(* A plain and a quadratic grant beside each other: in a behaviour one of them     *)
(* moves, the plain one with time, pauses and extensions, the quadratic one with   *)
(* voice credits, invoices and the end of the grant.                               *)

QuadraticGrant == {g2}
ReviewersOfBoth == [g \in Grant |-> <<r1, r2>>]

AtRest(g) ==
    /\ status[g] = "Active" /\ pause[g] = NoRecord
    /\ reviewers[g] = InitialReviewers[g]
    /\ milestone[g] = [i \in Index |-> Absent]
    /\ checklist[g] = [i \in Index |-> "none"]
    /\ invoice[g] = [i \in Index |-> "none"]
    /\ extension[g] = [i \in Index |-> NoRequest]
    /\ credits[g] = [p \in Person |-> NoRecord]

PlainMoved ==
    /\ AtRest(g2)
    /\ status[g1] = "Active"
    /\ invoice[g1] = invoice[g2] /\ credits[g1] = credits[g2]

QuadraticMoved ==
    /\ AtRest(g1) /\ GatesInit
    /\ reviewers[g2] = InitialReviewers[g2]
    /\ extension[g2] = extension[g1]
    /\ \A i \in Index : milestone[g2][i].deadline = NoRecord

\* The state constraint: grants share the gates and the reputations only, so two that
\* move at once show nothing that one of them does not.
OneMoved == PlainMoved \/ QuadraticMoved
=============================================================================
