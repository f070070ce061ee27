------------------------------- MODULE Grants -------------------------------
(* What every module about grants has in common: the grants themselves and *)
(* the indexes of their milestones.  types.rs `Grant`, lib.rs:4242-4355.   *)
EXTENDS Integers

CONSTANTS
    Grant,          \* the grants that exist
    NumMilestones   \* grant.total_milestones, the same for all grants

\* internal_grant_create refuses a grant without milestones.
ASSUME GrantsAssumption == NumMilestones \in Nat \ {0}

\* milestone_idx counts from 0.
Index == 0..(NumMilestones - 1)
=============================================================================
