-------------------------- MODULE ReviewLifecycle --------------------------
(***************************************************************************)
(* What the review of milestones promises to the payout of grants: the     *)
(* abstract specification that MilestoneReview implements outside quadratic*)
(* voting, and on which GrantProtocol builds.                              *)
(*                                                                         *)
(* A milestone is submitted once every earlier one is approved, is decided *)
(* while it is submitted, may be submitted again after a rejection, and    *)
(* stays approved once it is.  A grant leaves the status Active once.      *)
(***************************************************************************)
EXTENDS Grants

VARIABLES
    status,   \* grant.status
    stage     \* grant -> idx -> the state of the milestone

lifecycleVars == <<status, stage>>

Status == {"Active", "Cancelled", "Completed"}
Stage == {"Absent", "Submitted", "Approved", "Rejected"}

\* Status and stages are those of GrantStatus and MilestoneState (types.rs).
LifecycleTypeOK ==
    /\ status \in [Grant -> Status]
    /\ stage \in [Grant -> [Index -> Stage]]

LifecycleInit ==
    /\ status = [g \in Grant |-> "Active"]
    /\ stage = [g \in Grant |-> [i \in Index |-> "Absent"]]

EarlierApproved(g, i) == \A j \in Index : j < i => stage[g][j] = "Approved"

AllApproved(g) == \A i \in Index : stage[g][i] = "Approved"

Submit(g, i) ==
    /\ status[g] = "Active"
    /\ stage[g][i] \in {"Absent", "Rejected"}
    /\ EarlierApproved(g, i)
    /\ stage' = [stage EXCEPT ![g][i] = "Submitted"]
    /\ UNCHANGED status

\* Mutation of Decide: an approval may be decided again.
DecideAgain(g, i, outcome) ==
    /\ stage[g][i] \in {"Submitted", "Approved"}
    /\ stage' = [stage EXCEPT ![g][i] = outcome]
    /\ UNCHANGED status

\* Nothing ties a decision to the status of the grant.
Decide(g, i, outcome) ==
    /\ stage[g][i] = "Submitted"
    /\ stage' = [stage EXCEPT ![g][i] = outcome]
    /\ UNCHANGED status

Close(g, final) ==
    /\ status[g] = "Active"
    /\ status' = [status EXCEPT ![g] = final]
    /\ UNCHANGED stage

LifecycleNext ==
    \E g \in Grant :
        \/ \E i \in Index :
              \/ Submit(g, i)
              \/ \E outcome \in {"Approved", "Rejected"} : Decide(g, i, outcome)
        \/ \E final \in {"Cancelled", "Completed"} : Close(g, final)

LifecycleSpec == LifecycleInit /\ [][LifecycleNext]_lifecycleVars

-----------------------------------------------------------------------------

\* No milestone is touched before the ones it depends on are approved
\* (milestone_deps.rs), at any later time.
StagesInOrder ==
    \A g \in Grant : \A i \in Index :
        stage[g][i] # "Absent" => EarlierApproved(g, i)

\* THREAT_MODEL.md:73 "The state machine is Active -> {Cancelled, Completed}
\* with no reverse transitions", and an approval is not taken back either.
FinalStaysFinal ==
    [][\A g \in Grant :
          /\ status[g] # "Active" => status'[g] = status[g]
          /\ \A i \in Index : stage[g][i] = "Approved" => stage'[g][i] = "Approved"
      ]_lifecycleVars

=============================================================================
