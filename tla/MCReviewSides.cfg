SPECIFICATION Spec
CONSTANTS
    g1 = g1
    g2 = g2
    r1 = r1
    r2 = r2
    Grant = {g1, g2}
    Module = {"Grants"}
    MaxTime = 2
    Person = {r1, r2}
    NumMilestones = 1
    Quadratic <- QuadraticGrant
    InitialReviewers <- ReviewersOfBoth
    AutoConfig <- ImpatientOwner
    EntryPoints = {"vote", "reject", "checklist", "invoice", "credits", "cast_qv_vote", "close", "extension", "gates", "clock"}
    MaxReviewers = 2
    MaxReputation = 2
    MaxCredits = 4
    MaxTally = 3
INVARIANTS
    TypeOK
PROPERTIES
    QvIsHonest
    DeadlineOnlyExtends
    NothingDecidedWhilePaused
CONSTRAINT OneMoved
CHECK_DEADLOCK FALSE
