SPECIFICATION Spec
CONSTANTS
    g1 = g1
    g2 = g2
    r1 = r1
    r2 = r2
    Grant = {g1}
    Module = {"Grants"}
    MaxTime = 0
    Person = {r1, r2}
    NumMilestones = 2
    Quadratic <- NoQuadratic
    InitialReviewers <- NoReviewers
    AutoConfig <- ImpatientOwner
    EntryPoints = {"vote", "reject", "checklist", "invoice", "auto_approve", "add_reviewer", "remove_reviewer", "accept_request", "replace_reviewer"}
    MaxReviewers = 2
    MaxReputation = 3
    MaxCredits = 1
    MaxTally = 0
INVARIANTS
    DependencyOrder
    OutcomeFollowsVotes
    TallyWithinVotes
PROPERTIES
    KeepsThePromise
    ApprovalIsFinal
    VotesStand
CONSTRAINT OneInvoice
SYMMETRY PersonSymmetry
CHECK_DEADLOCK FALSE
