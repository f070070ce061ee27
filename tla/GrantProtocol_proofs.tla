------------------------ MODULE GrantProtocol_proofs ------------------------
(***************************************************************************)
(* Theorems about GrantProtocol, for any grants, amounts, signers, funders *)
(* and configurations, and with every entry point enabled unless a theorem *)
(* says otherwise.  The control of the release first: the end of a grant   *)
(* is final, a grant is completed over approved milestones only, and a     *)
(* high security grant over the signatures of its whole list.  Then the    *)
(* money: the accounts, the mirror, what recipients and funders are paid,  *)
(* the deposits, and what the contract holds for all grants at once.       *)
(***************************************************************************)
EXTENDS GrantProtocol, EscrowLedger_proofs

-----------------------------------------------------------------------------
(* What ReviewLifecycle promises, for any set of grants and any number of   *)
(* milestones: the types, the order of the milestones, and that the end of *)
(* a grant and the approval of a milestone are final.                      *)

\* Init and one step keep the types; the step is needed with each invariant.
LEMMA InitTypeOK == LifecycleInit => LifecycleTypeOK
  BY DEF LifecycleInit, LifecycleTypeOK, Status, Stage

LEMMA StepTypeOK ==
  LifecycleTypeOK /\ [LifecycleNext]_lifecycleVars => LifecycleTypeOK'
<1> SUFFICES ASSUME LifecycleTypeOK, [LifecycleNext]_lifecycleVars
             PROVE  LifecycleTypeOK'
  OBVIOUS
<1> USE DEF LifecycleTypeOK
<1>1. ASSUME NEW g \in Grant, NEW i \in Index, Submit(g, i)
      PROVE  LifecycleTypeOK'
  BY <1>1 DEF Submit, Stage
<1>2. ASSUME NEW g \in Grant, NEW i \in Index,
             NEW outcome \in {"Approved", "Rejected"}, Decide(g, i, outcome)
      PROVE  LifecycleTypeOK'
  BY <1>2 DEF Decide, Stage
<1>3. ASSUME NEW g \in Grant, NEW final \in {"Cancelled", "Completed"}, Close(g, final)
      PROVE  LifecycleTypeOK'
  BY <1>3 DEF Close, Status
<1>4. CASE UNCHANGED lifecycleVars
  BY <1>4 DEF lifecycleVars
<1> QED BY <1>1, <1>2, <1>3, <1>4 DEF LifecycleNext

\* The statuses of grants and the states of milestones are those of
\* GrantStatus and MilestoneState (types.rs), in every reachable state.
THEOREM TypeCorrect == LifecycleSpec => []LifecycleTypeOK
  BY InitTypeOK, StepTypeOK, PTL DEF LifecycleSpec

\* One step keeps the milestones in order: what is written is next in line,
\* and what it follows is approved and not written.
LEMMA StepInOrder ==
  LifecycleTypeOK /\ StagesInOrder /\ [LifecycleNext]_lifecycleVars => StagesInOrder'
<1> SUFFICES ASSUME LifecycleTypeOK, StagesInOrder, [LifecycleNext]_lifecycleVars,
                    NEW h \in Grant, NEW k \in Index, stage'[h][k] # "Absent",
                    NEW j \in Index, j < k
             PROVE  stage'[h][j] = "Approved"
  BY DEF StagesInOrder, EarlierApproved
<1> USE DEF LifecycleTypeOK, Index
<1>1. ASSUME NEW g \in Grant, NEW i \in Index, Submit(g, i)
      PROVE  stage'[h][j] = "Approved"
  <2>1. CASE h = g /\ k = i
    BY <1>1, <2>1 DEF Submit, EarlierApproved
  <2>2. CASE ~(h = g /\ k = i)
    <3>1. stage[h][k] # "Absent"
      BY <1>1, <2>2 DEF Submit
    <3>2. stage[h][j] = "Approved"
      BY <3>1 DEF StagesInOrder, EarlierApproved
    <3> QED BY <1>1, <3>2 DEF Submit
  <2> QED BY <2>1, <2>2
<1>2. ASSUME NEW g \in Grant, NEW i \in Index,
             NEW outcome \in {"Approved", "Rejected"}, Decide(g, i, outcome)
      PROVE  stage'[h][j] = "Approved"
  <2>1. stage[h][k] # "Absent"
    BY <1>2 DEF Decide
  <2>2. stage[h][j] = "Approved"
    BY <2>1 DEF StagesInOrder, EarlierApproved
  <2> QED BY <1>2, <2>2 DEF Decide
<1>3. ASSUME NEW g \in Grant, NEW final \in {"Cancelled", "Completed"}, Close(g, final)
      PROVE  stage'[h][j] = "Approved"
  BY <1>3 DEF Close, StagesInOrder, EarlierApproved
<1>4. CASE UNCHANGED lifecycleVars
  BY <1>4 DEF lifecycleVars, StagesInOrder, EarlierApproved
<1> QED BY <1>1, <1>2, <1>3, <1>4 DEF LifecycleNext

\* Milestones are worked off in order (milestone_deps.rs): no sequence of
\* submissions, decisions and closings leaves a gap.
THEOREM InOrder == LifecycleSpec => []StagesInOrder
<1>1. LifecycleInit => StagesInOrder
  BY DEF LifecycleInit, StagesInOrder
<1> QED BY <1>1, InitTypeOK, StepTypeOK, StepInOrder, PTL DEF LifecycleSpec

\* THREAT_MODEL.md:73: the status of a grant has no reverse transitions, and
\* an approved milestone stays approved.
THEOREM Final == LifecycleSpec => FinalStaysFinal
<1> DEFINE Keeps ==
      \A g \in Grant :
          /\ status[g] # "Active" => status'[g] = status[g]
          /\ \A i \in Index : stage[g][i] = "Approved" => stage'[g][i] = "Approved"
<1>1. LifecycleTypeOK /\ LifecycleNext => Keeps
  <2> SUFFICES ASSUME LifecycleTypeOK, LifecycleNext PROVE Keeps
    OBVIOUS
  <2> USE DEF LifecycleTypeOK
  <2>1. ASSUME NEW g \in Grant, NEW i \in Index, Submit(g, i) PROVE Keeps
    BY <2>1 DEF Submit
  <2>2. ASSUME NEW g \in Grant, NEW i \in Index,
               NEW outcome \in {"Approved", "Rejected"}, Decide(g, i, outcome)
        PROVE  Keeps
    BY <2>2 DEF Decide
  <2>3. ASSUME NEW g \in Grant, NEW final \in {"Cancelled", "Completed"}, Close(g, final)
        PROVE  Keeps
    BY <2>3 DEF Close
  <2> QED BY <2>1, <2>2, <2>3 DEF LifecycleNext
<1> QED BY <1>1, TypeCorrect, PTL DEF LifecycleSpec, FinalStaysFinal

-----------------------------------------------------------------------------
(* The control of the release.                                             *)

controlVars == <<status, stage, lifecycle, quorumReady, signed>>

\* The types of the control of the release.
ControlTypeOK ==
    /\ LifecycleTypeOK
    /\ lifecycle \in [Grant -> Lifecycle]
    /\ quorumReady \in [Grant -> BOOLEAN]
    /\ signed \in [Grant -> SUBSET Signer]

-----------------------------------------------------------------------------
(* What the steps of the protocol do to the control of the release.        *)

\* A decision of the review or a submission, as ReviewLifecycle has them.
Reviewing(g, i) ==
    /\ \/ Submit(g, i)
       \/ \E outcome \in {"Approved", "Rejected"} : Decide(g, i, outcome)
    /\ UNCHANGED <<lifecycle, quorumReady, signed>>

\* The release: finalize_grant_release, with a signature or without.
Completing(g) ==
    /\ status[g] = "Active"
    /\ AllApproved(g)
    /\ status' = [status EXCEPT ![g] = "Completed"]
    /\ lifecycle' = [lifecycle EXCEPT ![g] = "Released"]
    /\ quorumReady' = [quorumReady EXCEPT ![g] = TRUE]
    /\ UNCHANGED stage

\* A signature that comes before the release.
Signing(g, p) ==
    /\ CanSign(g, p)
    /\ signed' = [signed EXCEPT ![g] = @ \cup {p}]
    /\ \E after \in {lifecycle[g], "AwaitingMultisig"} :
          lifecycle' = [lifecycle EXCEPT ![g] = after]
    /\ UNCHANGED <<status, stage, quorumReady>>

\* grant_complete of a high security grant.
Awaiting(g) ==
    /\ status[g] = "Active"
    /\ quorumReady' = [quorumReady EXCEPT ![g] = TRUE]
    /\ lifecycle' = [lifecycle EXCEPT ![g] = "AwaitingMultisig"]
    /\ UNCHANGED <<status, stage, signed>>

\* cancel_grant and trigger_timers.
Cancelling(g) ==
    /\ status[g] = "Active"
    /\ status' = [status EXCEPT ![g] = "Cancelled"]
    /\ UNCHANGED <<stage, lifecycle, quorumReady, signed>>

\* Who may complete a grant: everybody without multisig; the signature that
\* completes the list; an executed proposal.
CompletesGrant(g) ==
    \/ g \notin HighSecurity /\ UNCHANGED signed
    \/ \E p \in Signer :
          CanSign(g, p) /\ Completes(g, p) /\ signed' = [signed EXCEPT ![g] = @ \cup {p}]
    \/ Uses("proposal") /\ UNCHANGED signed

\* The steps that touch the control at all.
Controlling(g) ==
    \/ \E i \in Index : Reviewing(g, i)
    \/ Completing(g) /\ CompletesGrant(g)
    \/ \E p \in Signer : Signing(g, p)
    \/ Awaiting(g)
    \/ Cancelling(g)

LEMMA FinalizeCompletes ==
  ASSUME NEW g \in Grant, Finalize(g)
  PROVE  Completing(g)
  BY DEF Finalize, Completing

LEMMA ControlSteps ==
  ASSUME [Next]_vars
  PROVE  UNCHANGED controlVars \/ \E g \in Grant : Controlling(g)
<1> DEFINE Untouched == UNCHANGED controlVars
<1> USE DEF controlVars, moneyVars, releaseVars, lifecycleVars
<1>1. ASSUME NEW g \in Grant, NEW i \in Index, ReviewStep(g, i) PROVE Controlling(g)
  <2>1. Reviewing(g, i)
    BY <1>1 DEF ReviewStep, SubmitMilestone, DecideMilestone, Reviewing
  <2> QED BY <2>1 DEF Controlling
<1>2. ASSUME NEW g \in Grant, NEW f \in Funder, FundingStep(g, f) PROVE Untouched
  BY <1>2 DEF FundingStep, GrantFund, FundBatch, SwapAndFund, RefundFunder, DepositTo
<1>3. ASSUME NEW g \in Grant, ReleaseStep(g) PROVE Untouched \/ Controlling(g)
  <2>1. CASE GrantComplete(g)
    <3>1. Completing(g) /\ g \notin HighSecurity /\ UNCHANGED signed
      BY <2>1, FinalizeCompletes DEF GrantComplete
    <3> QED BY <3>1 DEF Controlling, CompletesGrant
  <2>2. CASE AwaitSignatures(g)
    <3>1. Awaiting(g)
      BY <2>2 DEF AwaitSignatures, Awaiting
    <3> QED BY <3>1 DEF Controlling
  <2>3. ASSUME NEW p \in Signer, SignRelease(g, p) PROVE Controlling(g)
    <3>1. CASE Completes(g, p) /\ quorumReady[g] /\ Finalize(g)
      <4>1. Completing(g)
        BY <3>1, FinalizeCompletes
      <4>2. CanSign(g, p) /\ signed' = [signed EXCEPT ![g] = @ \cup {p}]
        BY <2>3 DEF SignRelease
      <4> QED BY <3>1, <4>1, <4>2 DEF Controlling, CompletesGrant
    <3>2. CASE ~(Completes(g, p) /\ quorumReady[g] /\ Finalize(g))
      <4> DEFINE after == IF Completes(g, p) THEN "AwaitingMultisig" ELSE lifecycle[g]
      <4>1. /\ CanSign(g, p) /\ signed' = [signed EXCEPT ![g] = @ \cup {p}]
            /\ UNCHANGED <<status, stage, quorumReady>>
            /\ lifecycle' = [lifecycle EXCEPT ![g] = after]
        BY <2>3, <3>2 DEF SignRelease
      <4>2. after \in {lifecycle[g], "AwaitingMultisig"}
        OBVIOUS
      <4> HIDE DEF after
      <4> QED BY <4>1, <4>2 DEF Controlling, Signing
    <3> QED BY <3>1, <3>2
  <2>4. CASE Uses("proposal") /\ ExecuteProposal(g)
    <3>1. Completing(g) /\ UNCHANGED signed
      BY <2>4, FinalizeCompletes DEF ExecuteProposal
    <3> QED BY <2>4, <3>1 DEF Controlling, CompletesGrant
  <2>5. CASE SwapAndPay(g, MilestoneAmount)
    BY <2>5 DEF SwapAndPay
  <2>6. ASSUME NEW on \in BOOLEAN, LockEscrow(g, on) PROVE Untouched
    BY <2>6 DEF LockEscrow
  <2> QED BY <1>3, <2>1, <2>2, <2>3, <2>4, <2>5, <2>6 DEF ReleaseStep
<1>4. ASSUME NEW g \in Grant, EndStep(g) PROVE Untouched \/ Controlling(g)
  <2>1. CASE CancelGrant(g)
    <3>1. Cancelling(g)
      BY <2>1 DEF CancelGrant, Cancelling
    <3> QED BY <3>1 DEF Controlling
  <2>2. CASE TriggerTimers(g)
    <3>1. Cancelling(g)
      BY <2>2 DEF TriggerTimers, Eligible, Cancelling
    <3> QED BY <3>1 DEF Controlling
  <2>3. ASSUME NEW kind \in TimerKind, NEW due \in Time, RegisterTimer(g, kind, due)
        PROVE  Untouched
    BY <2>3 DEF RegisterTimer
  <2>4. ASSUME NEW kind \in TimerKind, CancelTimer(g, kind) PROVE Untouched
    BY <2>4 DEF CancelTimer
  <2> QED BY <1>4, <2>1, <2>2, <2>3, <2>4 DEF EndStep
<1>5. ASSUME NEW g \in Grant, NEW i \in Index, DisputeStep(g, i) PROVE Untouched
  BY <1>5 DEF DisputeStep, RaiseDispute, AssignArbiter, CancelDispute, ArbiterVote,
             ResolveDispute, SetDispute
<1>6. ASSUME NEW g \in Grant, SideStep(g) PROVE Untouched
  BY <1>6 DEF SideStep, RequireBond, PostBond, ClaimBond, SetBond, RequireCollateral,
             DepositCollateral, SetCollateral, ReleaseCollateral, ForfeitCollateral,
             RegisterSplit
<1>7. ASSUME NEW cfg \in Configs, UpdateConfig(cfg) PROVE Untouched
  BY <1>7 DEF UpdateConfig
<1>8. ASSUME UNCHANGED <<lifecycleVars, moneyVars>> PROVE Untouched
  BY <1>8
<1> HIDE DEF Untouched, controlVars, moneyVars, releaseVars, lifecycleVars
<1> QED BY <1>1, <1>2, <1>3, <1>4, <1>5, <1>6, <1>7, <1>8
        DEF Next, GateStep, vars, Untouched

-----------------------------------------------------------------------------
(* The protocol keeps the promise of the review.                           *)

LEMMA StepLifecycle == [Next]_vars => [LifecycleNext]_lifecycleVars
<1> SUFFICES ASSUME [Next]_vars PROVE LifecycleNext \/ UNCHANGED lifecycleVars
  OBVIOUS
<1>1. CASE UNCHANGED controlVars
  BY <1>1 DEF controlVars, lifecycleVars
<1>2. ASSUME NEW g \in Grant, Controlling(g)
      PROVE  LifecycleNext \/ UNCHANGED lifecycleVars
  <2>1. ASSUME NEW i \in Index, Reviewing(g, i) PROVE LifecycleNext
    BY <2>1 DEF Reviewing, LifecycleNext
  <2>2. CASE Completing(g)
    BY <2>2 DEF Completing, LifecycleNext, Close
  <2>3. CASE Cancelling(g)
    BY <2>3 DEF Cancelling, LifecycleNext, Close
  <2>4. ASSUME NEW p \in Signer, Signing(g, p) PROVE UNCHANGED lifecycleVars
    BY <2>4 DEF Signing, lifecycleVars
  <2>5. CASE Awaiting(g)
    BY <2>5 DEF Awaiting, lifecycleVars
  <2> QED BY <1>2, <2>1, <2>2, <2>3, <2>4, <2>5 DEF Controlling
<1> QED BY <1>1, <1>2, ControlSteps

\* Funding, completing, cancelling, timers, disputes and signatures only ever
\* do to a grant and its milestones what ReviewLifecycle allows: no handler of
\* the money reopens a grant or takes an approval back.
THEOREM ImplementsLifecycle == Spec => LifecycleSpec
  BY StepLifecycle, PTL DEF Spec, Init, LifecycleSpec

\* THREAT_MODEL.md:73 for the whole protocol: cancel_grant, grant_complete,
\* sign_release, trigger_timers and proposals cannot undo each other.
THEOREM ProtocolFinal == Spec => FinalStaysFinal
  BY ImplementsLifecycle, Final

-----------------------------------------------------------------------------
(* Completion.                                                             *)

LEMMA ControlInit == Init => ControlTypeOK
  BY InitTypeOK DEF Init, ControlTypeOK, Lifecycle

LEMMA ControlStep == ControlTypeOK /\ [Next]_vars => ControlTypeOK'
<1> SUFFICES ASSUME ControlTypeOK, [Next]_vars PROVE ControlTypeOK'
  OBVIOUS
<1>1. LifecycleTypeOK'
  BY StepTypeOK, StepLifecycle DEF ControlTypeOK
<1>2. CASE UNCHANGED controlVars
  BY <1>1, <1>2 DEF controlVars, ControlTypeOK
<1>3. ASSUME NEW g \in Grant, Controlling(g) PROVE ControlTypeOK'
  <2> USE DEF ControlTypeOK
  <2>1. ASSUME NEW p \in Signer
        PROVE  [signed EXCEPT ![g] = @ \cup {p}] \in [Grant -> SUBSET Signer]
    OBVIOUS
  <2>2. ASSUME NEW i \in Index, Reviewing(g, i) PROVE ControlTypeOK'
    BY <1>1, <2>2 DEF Reviewing
  <2>3. CASE Completing(g) /\ CompletesGrant(g)
    BY <1>1, <2>1, <2>3 DEF Completing, CompletesGrant, Lifecycle
  <2>4. ASSUME NEW p \in Signer, Signing(g, p) PROVE ControlTypeOK'
    BY <1>1, <2>1, <2>4 DEF Signing, Lifecycle
  <2>5. CASE Awaiting(g)
    BY <1>1, <2>5 DEF Awaiting, Lifecycle
  <2>6. CASE Cancelling(g)
    BY <1>1, <2>6 DEF Cancelling
  <2> QED BY <1>3, <2>2, <2>3, <2>4, <2>5, <2>6 DEF Controlling
<1> QED BY <1>2, <1>3, ControlSteps

\* The control of the release keeps its types, whoever signs or executes what.
THEOREM ControlTypeCorrect == Spec => []ControlTypeOK
  BY ControlInit, ControlStep, PTL DEF Spec

LEMMA StepCompleted ==
  ControlTypeOK /\ CompletedMeansApproved /\ [Next]_vars => CompletedMeansApproved'
<1> SUFFICES ASSUME ControlTypeOK, CompletedMeansApproved, [Next]_vars,
                    NEW h \in Grant
             PROVE  /\ status'[h] = "Completed" =>
                          (\A k \in Index : stage'[h][k] = "Approved") /\ quorumReady'[h]
                    /\ status'[h] = "Completed" <=> lifecycle'[h] = "Released"
  BY DEF CompletedMeansApproved, AllApproved
<1> DEFINE Goal == /\ status'[h] = "Completed" =>
                         (\A k \in Index : stage'[h][k] = "Approved") /\ quorumReady'[h]
                   /\ status'[h] = "Completed" <=> lifecycle'[h] = "Released"
<1>1. /\ status[h] = "Completed" =>
            (\A k \in Index : stage[h][k] = "Approved") /\ quorumReady[h]
      /\ status[h] = "Completed" <=> lifecycle[h] = "Released"
  BY DEF CompletedMeansApproved, AllApproved
<1>2. CASE UNCHANGED controlVars
  BY <1>1, <1>2 DEF controlVars
<1>3. ASSUME NEW g \in Grant, Controlling(g) PROVE Goal
  <2> USE DEF ControlTypeOK, LifecycleTypeOK
  <2>1. ASSUME NEW i \in Index, Reviewing(g, i) PROVE Goal
    <3>1. UNCHANGED <<status, lifecycle, quorumReady>>
      BY <2>1 DEF Reviewing, Submit, Decide
    <3>2. \A k \in Index : stage[h][k] = "Approved" => stage'[h][k] = "Approved"
      BY <2>1 DEF Reviewing, Submit, Decide
    <3> QED BY <1>1, <3>1, <3>2
  <2>2. CASE Completing(g)
    BY <1>1, <2>2 DEF Completing, AllApproved
  <2>3. ASSUME NEW p \in Signer, Signing(g, p) PROVE Goal
    BY <1>1, <2>3 DEF Signing, CanSign
  <2>4. CASE Awaiting(g)
    BY <1>1, <2>4 DEF Awaiting
  <2>5. CASE Cancelling(g)
    BY <1>1, <2>5 DEF Cancelling
  <2> QED BY <1>3, <2>1, <2>2, <2>3, <2>4, <2>5 DEF Controlling
<1> QED BY <1>2, <1>3, ControlSteps

\* A completed grant has every milestone approved at every later time, and its
\* status and its escrow lifecycle (types.rs EscrowState) never disagree about
\* the release, on whichever of the four ways to the release it was completed.
THEOREM CompletedIsApproved == Spec => []CompletedMeansApproved
<1>1. Init => CompletedMeansApproved
  BY DEF Init, LifecycleInit, CompletedMeansApproved
<1> QED BY <1>1, StepCompleted, ControlTypeCorrect, PTL DEF Spec

-----------------------------------------------------------------------------
(* Signatures.                                                             *)

Listed(g) == {Signers[g][k] : k \in DOMAIN Signers[g]}

\* Only listed signers have signed, and a completed grant has all of them.
SignedInv ==
    \A g \in HighSecurity :
        /\ signed[g] \subseteq Listed(g)
        /\ status[g] = "Completed" => signed[g] = Listed(g)

\* As many distinct listed signers as the list is long are all of the list.
LEMMA AllSigned ==
  ASSUME NEW g \in HighSecurity, NEW S \in SUBSET Listed(g),
         Cardinality(S) >= Len(Signers[g])
  PROVE  S = Listed(g)
<1> DEFINE n == Len(Signers[g])
           T == Listed(g)
<1>1. Signers[g] \in Seq(Signer) /\ n \in Nat /\ DOMAIN Signers[g] = 1..n
  BY ProtocolAssumption
<1>2. IsFiniteSet(1..n) /\ Cardinality(1..n) = n
  BY <1>1, FS_Interval
<1>3. Signers[g] \in Surjection(1..n, T)
  BY <1>1 DEF Surjection, Listed
<1>4. IsFiniteSet(T) /\ Cardinality(T) <= n
  BY <1>2, <1>3, FS_Surjection
<1>5. /\ Cardinality(S) <= Cardinality(T)
      /\ Cardinality(T) = Cardinality(S) => T = S
      /\ Cardinality(S) \in Nat /\ Cardinality(T) \in Nat
  BY <1>4, FS_Subset, FS_CardinalityType
<1> HIDE DEF n, T
<1>6. Cardinality(S) >= n
  BY DEF n
<1>7. Cardinality(T) = Cardinality(S)
  BY <1>1, <1>4, <1>5, <1>6
<1> QED BY <1>5, <1>7 DEF T

LEMMA StepSigned ==
  ASSUME ~Uses("proposal")
  PROVE  ControlTypeOK /\ SignedInv /\ [Next]_vars => SignedInv'
<1> SUFFICES ASSUME ControlTypeOK, SignedInv, [Next]_vars, NEW h \in HighSecurity
             PROVE  /\ signed'[h] \subseteq Listed(h)
                    /\ status'[h] = "Completed" => signed'[h] = Listed(h)
  BY DEF SignedInv, Listed
<1> DEFINE Goal == /\ signed'[h] \subseteq Listed(h)
                   /\ status'[h] = "Completed" => signed'[h] = Listed(h)
<1>1. /\ signed[h] \subseteq Listed(h)
      /\ status[h] = "Completed" => signed[h] = Listed(h)
      /\ h \in Grant
  BY ProtocolAssumption DEF SignedInv
<1>2. CASE UNCHANGED controlVars
  BY <1>1, <1>2 DEF controlVars
<1>3. ASSUME NEW g \in Grant, Controlling(g) PROVE Goal
  <2> USE DEF ControlTypeOK, LifecycleTypeOK
  <2>1. ASSUME NEW i \in Index, Reviewing(g, i) PROVE Goal
    BY <1>1, <2>1 DEF Reviewing, Submit, Decide
  <2>2. CASE Completing(g) /\ CompletesGrant(g) /\ g # h
    BY <1>1, <2>2 DEF Completing, CompletesGrant
  <2>3. CASE Completing(g) /\ CompletesGrant(g) /\ g = h
    <3>1. PICK p \in Signer :
             CanSign(h, p) /\ Completes(h, p) /\ signed' = [signed EXCEPT ![h] = @ \cup {p}]
      BY <2>3 DEF CompletesGrant
    <3>2. signed'[h] = signed[h] \cup {p}
      BY <1>1, <3>1
    <3>3. signed[h] \cup {p} \subseteq Listed(h)
      BY <1>1, <3>1 DEF CanSign, Listed
    <3>4. signed[h] \cup {p} = Listed(h)
      BY <3>1, <3>3, AllSigned DEF Completes
    <3> QED BY <3>2, <3>4
  <2>4. ASSUME NEW p \in Signer, Signing(g, p) PROVE Goal
    <3>1. CASE g = h
      <4>1. p \in Listed(h) /\ status'[h] = "Active"
        BY <2>4, <3>1 DEF Signing, CanSign, Listed
      <4>2. signed'[h] = signed[h] \cup {p}
        BY <1>1, <2>4, <3>1 DEF Signing
      <4> QED BY <1>1, <4>1, <4>2
    <3>2. CASE g # h
      BY <1>1, <2>4, <3>2 DEF Signing
    <3> QED BY <3>1, <3>2
  <2>5. CASE Awaiting(g)
    BY <1>1, <2>5 DEF Awaiting
  <2>6. CASE Cancelling(g)
    BY <1>1, <2>6 DEF Cancelling
  <2> QED BY <1>3, <2>1, <2>2, <2>3, <2>4, <2>5, <2>6 DEF Controlling
<1> QED BY <1>2, <1>3, ControlSteps

\* sign_release compares a count of approvals with the length of the list: as
\* long as nobody executes a multisig proposal for the grant, a high security
\* grant that is completed was signed by every signer of its list, though the
\* list may name a signer twice.
THEOREM SignedRelease ==
  ASSUME "proposal" \notin EntryPoints
  PROVE  Spec => []SignedBeforeRelease
<1>1. ~Uses("proposal")
  BY DEF Uses
<1>2. Init => SignedInv
  <2>1. HighSecurity \subseteq Grant
    BY ProtocolAssumption
  <2>2. Init => /\ status = [g \in Grant |-> "Active"]
                /\ signed = [g \in Grant |-> {}]
    BY DEF Init, LifecycleInit
  <2> QED BY <2>1, <2>2 DEF SignedInv
<1>3. ControlTypeOK /\ SignedInv /\ [Next]_vars => SignedInv'
  BY <1>1, StepSigned
<1>4. SignedInv => SignedBeforeRelease
  BY DEF SignedInv, SignedBeforeRelease, Listed
<1> QED BY <1>2, <1>3, <1>4, ControlTypeCorrect, PTL DEF Spec

-----------------------------------------------------------------------------
(* Amounts.                                                                *)

Part(a, bps) == (a * bps) \div 10000

\* A part of an amount, in basis points of at most the whole, is no more than it.
LEMMA PartOf ==
  ASSUME NEW a \in Nat, NEW bps \in Nat, bps <= 10000
  PROVE  Part(a, bps) \in 0..a
<1> DEFINE p == a * bps
           q == p \div 10000
<1>1. p \in Nat /\ p <= a * 10000
  BY ProductMonotone, Product
<1> HIDE DEF p
<1>2. q \in Nat /\ 10000 * q <= p
  BY <1>1, Division
<1> HIDE DEF q
<1>3. 10000 * q <= 10000 * a
  BY <1>1, <1>2
<1>4. q <= a
  BY <1>2, <1>3, ProductCancels
<1>5. q \in 0..a
  BY <1>2, <1>4
<1> QED BY <1>5 DEF p, q, Part

LEMMA Amounts ==
  /\ MilestoneAmount \in Nat \ {0} /\ Funding \subseteq Nat \ {0}
  /\ BondAmount \in Nat \ {0} /\ CollateralAmount \in Nat \ {0}
  /\ BondTerm \in Nat /\ ForfeitBps \in Nat /\ ForfeitBps <= 10000
  BY ProtocolAssumption

ConfigOK == config \in Configs \cup {DefaultConfig}

LEMMA FeeBounds ==
  ASSUME ConfigOK
  PROVE  Fee \in 0..MilestoneAmount /\ NetAmount \in 0..MilestoneAmount
<1>1. config.feeBps \in Nat /\ config.feeBps <= 10000
  <2>1. CASE config = DefaultConfig
    BY <2>1 DEF DefaultConfig
  <2>2. CASE config \in Configs
    <3>1. config.feeBps \in 0..1000
      BY <2>2, ConfigAssumption, Zenon
    <3> QED BY <3>1
  <2> QED BY <2>1, <2>2 DEF ConfigOK
<1>2. Fee \in 0..MilestoneAmount
  <2>1. Fee = Part(MilestoneAmount, config.feeBps)
    BY DEF Fee, Part
  <2> QED BY <1>1, <2>1, PartOf, Amounts
<1>3. NetAmount \in 0..MilestoneAmount
  <2> DEFINE x == Fee
  <2>1. x \in 0..MilestoneAmount /\ MilestoneAmount \in Nat /\ NetAmount = MilestoneAmount - x
    BY <1>2, Amounts DEF NetAmount
  <2> HIDE DEF x
  <2> QED BY <2>1
<1> QED BY <1>2, <1>3

LEMMA ForfeitBounds == ForfeitAmount \in 0..CollateralAmount
<1>1. ForfeitAmount = Part(CollateralAmount, ForfeitBps)
  BY DEF ForfeitAmount, Part
<1>2. CollateralAmount \in Nat /\ ForfeitBps \in Nat /\ ForfeitBps <= 10000
  BY Amounts
<1>3. Part(CollateralAmount, ForfeitBps) \in 0..CollateralAmount
  BY <1>2, PartOf
<1> QED BY <1>1, <1>3

\* The owner's part and the split part are for different milestones, so what
\* completion pays out is never more than the milestones are worth.
LEMMA PayoutBounds ==
  ASSUME ConfigOK, NEW g \in Grant
  PROVE  Payout(g) \in 0..Total /\ OwnerAmount(g) \in Nat /\ Total \in Nat
<1> DEFINE A == SplitMilestones(g)
           a == Cardinality(A)
           b == Cardinality(Index \ A)
<1>1. A \in SUBSET Index
  BY DEF SplitMilestones
<1>2. IsFiniteSet(Index) /\ Cardinality(Index) = NumMilestones
  BY GrantsAssumption, FS_Interval DEF Index
<1>3. a \in Nat /\ b \in Nat /\ a + b = NumMilestones
  <2>1. IsFiniteSet(A) /\ IsFiniteSet(Index \ A) /\ a \in Nat /\ b \in Nat
    BY <1>1, <1>2, FS_Subset, FS_CardinalityType
  <2>2. Cardinality(Index \ A) = Cardinality(Index) - Cardinality(Index \cap A)
    BY <1>2, FS_Difference
  <2>3. Index \cap A = A
    BY <1>1
  <2>4. Cardinality(Index \cap A) = a
    BY <2>3, Zenon
  <2>5. b = NumMilestones - a /\ NumMilestones \in Nat
    BY <1>2, <2>2, <2>4, GrantsAssumption
  <2> HIDE DEF a, b
  <2> QED BY <2>1, <2>5
<1> DEFINE n == NetAmount
           m == MilestoneAmount
<1>4. n \in 0..m /\ m \in Nat
  BY FeeBounds, Amounts
<1>5. /\ OwnerAmount(g) = b * n /\ Total = NumMilestones * m
      /\ Payout(g) = a * n + IF Deferred(g) THEN 0 ELSE OwnerAmount(g)
  BY DEF OwnerAmount, Total, Payout
<1> HIDE DEF a, b, n, m, A
<1>6. a * n \in Nat /\ b * n \in Nat /\ a * m \in Nat /\ b * m \in Nat
  BY <1>3, <1>4, Product
<1>7. a * n <= a * m /\ b * n <= b * m
  BY <1>3, <1>4, ProductMonotone
<1>8. NumMilestones * m = a * m + b * m
  BY <1>3, <1>4
<1> QED BY <1>5, <1>6, <1>7, <1>8

-----------------------------------------------------------------------------
(* What the steps of the protocol do to the money.                         *)

coreVars == <<status, escrow, held, paid, bond, collateral>>

\* grant_fund, fund_batch and swap_and_fund.
Depositing(g) ==
    /\ \E f \in Funder, amount \in Funding :
          /\ escrow' = [escrow EXCEPT ![g] = Deposit(@, f, amount)]
          /\ held' = held + amount
    /\ UNCHANGED <<status, paid, bond, collateral>>

\* The steps of performance_bond.rs and collateral.rs that are calls of their own.
Securing(g) ==
    \/ RequireBond(g) \/ PostBond(g) \/ ClaimBond(g)
    \/ RequireCollateral(g) \/ DepositCollateral(g)
    \/ Uses("collateral_entries") /\ (ReleaseCollateral(g) \/ ForfeitCollateral(g))

\* The steps that touch money at all.
Moving(g) ==
    \/ Depositing(g)
    \/ \E f \in Funder : RefundFunder(g, f)
    \/ \E on \in BOOLEAN : LockEscrow(g, on)
    \/ Uses("swap_and_pay") /\ SwapAndPay(g, MilestoneAmount)
    \/ Finalize(g)
    \/ CancelGrant(g)
    \/ Uses("timer") /\ TriggerTimers(g)
    \/ Uses("dispute") /\ \E i \in Index, side \in {"contributor", "funder"} :
                             ResolveDispute(g, i, side)
    \/ Securing(g)

LEMMA MoneySteps ==
  ASSUME [Next]_vars
  PROVE  UNCHANGED coreVars \/ \E g \in Grant : Moving(g)
<1> DEFINE Untouched == UNCHANGED coreVars
<1> USE DEF coreVars, moneyVars, releaseVars, sideVars, lifecycleVars
<1>1. ASSUME NEW g \in Grant, NEW i \in Index, ReviewStep(g, i) PROVE Untouched
  BY <1>1 DEF ReviewStep, SubmitMilestone, DecideMilestone, Submit, Decide
<1>2. ASSUME NEW g \in Grant, NEW f \in Funder, FundingStep(g, f) PROVE Moving(g)
  <2>1. ASSUME NEW amount \in Funding, DepositTo(g, f, amount) PROVE Depositing(g)
    BY <2>1 DEF DepositTo, Depositing
  <2>2. (\E amount \in Funding : DepositTo(g, f, amount)) \/ RefundFunder(g, f)
    BY <1>2 DEF FundingStep, GrantFund, FundBatch, SwapAndFund
  <2> QED BY <2>1, <2>2 DEF Moving
<1>3. ASSUME NEW g \in Grant, ReleaseStep(g) PROVE Untouched \/ Moving(g)
  <2>1. CASE GrantComplete(g)
    BY <2>1 DEF GrantComplete, Moving
  <2>2. CASE AwaitSignatures(g)
    BY <2>2 DEF AwaitSignatures
  <2>3. ASSUME NEW p \in Signer, SignRelease(g, p) PROVE Untouched \/ Moving(g)
    BY <2>3 DEF SignRelease, Moving
  <2>4. CASE ExecuteProposal(g)
    BY <2>4 DEF ExecuteProposal, Moving
  <2>5. CASE Uses("swap_and_pay") /\ SwapAndPay(g, MilestoneAmount)
    BY <2>5 DEF Moving
  <2>6. ASSUME NEW on \in BOOLEAN, LockEscrow(g, on) PROVE Moving(g)
    BY <2>6 DEF Moving
  <2> QED BY <1>3, <2>1, <2>2, <2>3, <2>4, <2>5, <2>6 DEF ReleaseStep
<1>4. ASSUME NEW g \in Grant, EndStep(g) PROVE Untouched \/ Moving(g)
  <2>1. CASE CancelGrant(g) \/ (Uses("timer") /\ TriggerTimers(g))
    BY <2>1 DEF Moving
  <2>2. ASSUME NEW kind \in TimerKind, NEW due \in Time, RegisterTimer(g, kind, due)
        PROVE  Untouched
    BY <2>2 DEF RegisterTimer
  <2>3. ASSUME NEW kind \in TimerKind, CancelTimer(g, kind) PROVE Untouched
    BY <2>3 DEF CancelTimer
  <2> QED BY <1>4, <2>1, <2>2, <2>3 DEF EndStep
<1>5. ASSUME NEW g \in Grant, NEW i \in Index, Uses("dispute"), DisputeStep(g, i)
      PROVE  Untouched \/ Moving(g)
  <2>1. CASE RaiseDispute(g, i) \/ AssignArbiter(g, i) \/ CancelDispute(g, i)
    BY <2>1 DEF RaiseDispute, AssignArbiter, CancelDispute, SetDispute
  <2>2. ASSUME NEW side \in {"contributor", "funder"}, ArbiterVote(g, i, side)
        PROVE  Untouched
    BY <2>2 DEF ArbiterVote, SetDispute
  <2>3. ASSUME NEW side \in {"contributor", "funder"}, ResolveDispute(g, i, side)
        PROVE  Moving(g)
    BY <1>5, <2>3 DEF Moving
  <2> QED BY <1>5, <2>1, <2>2, <2>3 DEF DisputeStep
<1>6. ASSUME NEW g \in Grant, SideStep(g) PROVE Untouched \/ Moving(g)
  <2>1. CASE \E i \in Index : RegisterSplit(g, i)
    BY <2>1 DEF RegisterSplit
  <2>2. CASE Securing(g)
    BY <2>2 DEF Moving
  <2> QED BY <1>6, <2>1, <2>2 DEF SideStep, Securing
<1>7. ASSUME NEW cfg \in Configs, UpdateConfig(cfg) PROVE Untouched
  BY <1>7 DEF UpdateConfig
<1>8. ASSUME UNCHANGED <<lifecycleVars, moneyVars>> PROVE Untouched
  BY <1>8
<1> HIDE DEF Untouched, coreVars, moneyVars, releaseVars, sideVars, lifecycleVars
<1> QED BY <1>1, <1>2, <1>3, <1>4, <1>5, <1>6, <1>7, <1>8
        DEF Next, GateStep, vars, Untouched

-----------------------------------------------------------------------------
(* Every account stays in order.                                           *)

\* The inductive invariant about the accounts.  The refund of a whole account
\* may round in the favour of its last funder, so nobody is refunded too much
\* only as long as the grant is open.
AccountsInOrder ==
    /\ escrow \in [Grant -> Escrow]
    /\ \A g \in Grant : /\ Kept(escrow[g])
                        /\ status[g] = "Active" => Unexceeded(escrow[g])

\* A grant that is not Active stays that way, and an open one was open.
LEMMA StatusSteps ==
  ASSUME ControlTypeOK, [Next]_vars, NEW g \in Grant, status'[g] = "Active"
  PROVE  status[g] = "Active"
<1>1. [LifecycleNext]_lifecycleVars
  BY StepLifecycle
<1> QED BY <1>1 DEF ControlTypeOK, LifecycleTypeOK, LifecycleNext, Close, Submit, Decide, lifecycleVars

\* What an account looks like when its grant has ended, and what was paid for it.
FinalAccount(g) == [AfterRemainder(g) EXCEPT !.mirror = 0]

CancelledAccount(g) ==
    [(IF escrow[g].mirror > 0 THEN RefundAll(escrow[g]) ELSE escrow[g]) EXCEPT !.mirror = 0]

CancelPaid(g) == IF escrow[g].mirror > 0 THEN TotalPaid(escrow[g]) ELSE 0

\* What completion pays out of an account comes out of its balance.
LEMMA FinalAccountKept ==
  ASSUME ConfigOK, NEW g \in Grant, Kept(escrow[g]), Unexceeded(escrow[g]),
         Payout(g) > 0 => CanRelease(escrow[g], Payout(g))
  PROVE  /\ Kept(FinalAccount(g))
         /\ FinalAccount(g).balance \in Nat /\ FinalAccount(g).mirror = 0
         /\ Payout(g) \in Nat /\ RemainderPaid(g) \in Nat
         /\ Payout(g) + RemainderPaid(g) + FinalAccount(g).balance <= escrow[g].balance
<1> DEFINE e == escrow[g]
           p == Payout(g)
           a == AfterPayout(g)
           r == AfterRemainder(g)
<1>1. p \in Nat /\ e \in Escrow /\ e.balance \in Nat
  BY PayoutBounds, FieldTypes DEF Kept
<1>2. Kept(a) /\ Unexceeded(a) /\ a.balance = e.balance - p
  <2>1. CASE p > 0
    <3>1. a = Release(e, p) /\ p <= e.balance
      BY <2>1 DEF AfterPayout, CanRelease
    <3> QED BY <1>1, <3>1, ReleaseKept
  <2>2. CASE ~(p > 0)
    <3>1. a = e /\ p = 0
      BY <1>1, <2>2 DEF AfterPayout
    <3> QED BY <1>1, <3>1
  <2> QED BY <2>1, <2>2
<1>3. a.balance \in Nat
  BY <1>2, FieldTypes DEF Kept
<1>4. /\ Kept(r) /\ r.balance \in Nat /\ RemainderPaid(g) \in Nat
      /\ RemainderPaid(g) + r.balance <= a.balance
  <2>1. CASE Remainder(g) > 0
    <3>1. r = RefundAll(a) /\ RemainderPaid(g) = TotalPaid(a)
      BY <2>1 DEF AfterRemainder, RemainderPaid
    <3>2. /\ Kept(RefundAll(a)) /\ RefundAll(a).balance = 0
          /\ TotalPaid(a) \in Nat /\ TotalPaid(a) <= a.balance
      BY <1>2, RefundAllKept
    <3> QED BY <1>3, <3>1, <3>2
  <2>2. CASE ~(Remainder(g) > 0)
    <3>1. r = a /\ RemainderPaid(g) = 0
      BY <2>2 DEF AfterRemainder, RemainderPaid
    <3> QED BY <1>2, <1>3, <3>1
  <2> QED BY <2>1, <2>2
<1>5. Kept(FinalAccount(g)) /\ FinalAccount(g).balance = r.balance /\ FinalAccount(g).mirror = 0
  <2> HIDE DEF r
  <2>1. LET l == [r EXCEPT !.mirror = 0] IN Kept(l) /\ l.balance = r.balance /\ l.mirror = 0
    BY <1>4, SetMirrorKept
  <2> QED BY <2>1 DEF FinalAccount, r
<1> HIDE DEF a, r, p, e
<1>6. p + RemainderPaid(g) + FinalAccount(g).balance <= e.balance
  BY <1>1, <1>2, <1>3, <1>4, <1>5
<1> QED BY <1>1, <1>4, <1>5, <1>6 DEF p, e

LEMMA CancelledAccountKept ==
  ASSUME NEW g \in Grant, Kept(escrow[g]), Unexceeded(escrow[g])
  PROVE  /\ Kept(CancelledAccount(g))
         /\ CancelledAccount(g).balance =
              IF escrow[g].mirror > 0 THEN 0 ELSE escrow[g].balance
         /\ CancelledAccount(g).mirror = 0
         /\ CancelPaid(g) \in Nat
         /\ CancelPaid(g) + CancelledAccount(g).balance <= escrow[g].balance
<1> DEFINE e == escrow[g]
           r == IF e.mirror > 0 THEN RefundAll(e) ELSE e
<1>1. e \in Escrow /\ e.balance \in Nat
  BY FieldTypes DEF Kept
<1>2. /\ Kept(r) /\ r.balance = IF e.mirror > 0 THEN 0 ELSE e.balance
      /\ CancelPaid(g) \in Nat /\ CancelPaid(g) + r.balance <= e.balance
  <2>1. CASE e.mirror > 0
    <3>1. r = RefundAll(e) /\ CancelPaid(g) = TotalPaid(e)
      BY <2>1 DEF CancelPaid
    <3>2. /\ Kept(RefundAll(e)) /\ RefundAll(e).balance = 0
          /\ TotalPaid(e) \in Nat /\ TotalPaid(e) <= e.balance
      BY RefundAllKept
    <3> QED BY <1>1, <2>1, <3>1, <3>2
  <2>2. CASE ~(e.mirror > 0)
    <3>1. r = e /\ CancelPaid(g) = 0
      BY <2>2 DEF CancelPaid
    <3> QED BY <1>1, <2>2, <3>1
  <2> QED BY <2>1, <2>2
<1>3. /\ Kept(CancelledAccount(g)) /\ CancelledAccount(g).balance = r.balance
      /\ CancelledAccount(g).mirror = 0
  <2> HIDE DEF r
  <2>1. LET l == [r EXCEPT !.mirror = 0] IN Kept(l) /\ l.balance = r.balance /\ l.mirror = 0
    BY <1>2, SetMirrorKept
  <2> QED BY <2>1 DEF CancelledAccount, r
<1> QED BY <1>1, <1>2, <1>3

LEMMA AccountChanged ==
  ASSUME AccountsInOrder, ControlTypeOK, [Next]_vars, NEW g \in Grant, NEW e, Kept(e),
         escrow' = [escrow EXCEPT ![g] = e], status'[g] = "Active" => Unexceeded(e)
  PROVE  AccountsInOrder'
<1>1. e \in Escrow
  BY DEF Kept
<1>2. escrow' \in [Grant -> Escrow]
  BY <1>1 DEF AccountsInOrder
<1>3. ASSUME NEW h \in Grant
      PROVE  Kept(escrow'[h]) /\ (status'[h] = "Active" => Unexceeded(escrow'[h]))
  <2>1. CASE h = g
    <3>1. escrow'[h] = e
      BY <2>1 DEF AccountsInOrder
    <3> QED BY <2>1, <3>1
  <2>2. CASE h # g
    <3>1. escrow'[h] = escrow[h]
      BY <2>2 DEF AccountsInOrder
    <3>2. Kept(escrow[h]) /\ (status[h] = "Active" => Unexceeded(escrow[h]))
      BY DEF AccountsInOrder
    <3>3. status'[h] = "Active" => status[h] = "Active"
      BY StatusSteps
    <3> QED BY <3>1, <3>2, <3>3
  <2> QED BY <2>1, <2>2
<1> QED BY <1>2, <1>3 DEF AccountsInOrder

LEMMA AccountsUntouched ==
  ASSUME AccountsInOrder, ControlTypeOK, [Next]_vars, UNCHANGED escrow
  PROVE  AccountsInOrder'
  BY StatusSteps DEF AccountsInOrder

LEMMA FinalizeAccount ==
  ASSUME NEW g \in Grant, Finalize(g)
  PROVE  /\ escrow' = [escrow EXCEPT ![g] = FinalAccount(g)]
         /\ status[g] = "Active" /\ status' = [status EXCEPT ![g] = "Completed"]
         /\ Payout(g) > 0 => CanRelease(escrow[g], Payout(g))
  BY DEF Finalize, FinalAccount

LEMMA CancelAccount ==
  ASSUME AccountsInOrder, NEW g \in Grant, CancelGrant(g)
  PROVE  /\ escrow' = [escrow EXCEPT ![g] = CancelledAccount(g)]
         /\ status[g] = "Active" /\ status' = [status EXCEPT ![g] = "Cancelled"]
         /\ Pay(Forfeited(g) + CancelPaid(g))
  BY DEF CancelGrant, CancelledAccount, CancelPaid, AccountsInOrder

\* What a dispute moves is taken from the mirror only, which covers it.
DisputedAccount(g, i) == [escrow[g] EXCEPT !.mirror = @ - Disputed(g, i)]

LEMMA DisputedAccountKept ==
  ASSUME NEW g \in Grant, NEW i \in Index, Kept(escrow[g])
  PROVE  /\ Kept(DisputedAccount(g, i))
         /\ Unexceeded(escrow[g]) => Unexceeded(DisputedAccount(g, i))
         /\ Disputed(g, i) \in Nat
<1> DEFINE m == escrow[g].mirror - Disputed(g, i)
<1>1. escrow[g].mirror \in Nat /\ MilestoneAmount \in Nat
  BY FieldTypes, Amounts DEF Kept
<1>2. m \in Nat /\ Disputed(g, i) \in Nat
  BY <1>1 DEF Disputed
<1> HIDE DEF m
<1>3. LET l == [escrow[g] EXCEPT !.mirror = m] IN
      Kept(l) /\ (Unexceeded(escrow[g]) => Unexceeded(l))
  BY <1>2, SetMirrorKept
<1>4. DisputedAccount(g, i) = [escrow[g] EXCEPT !.mirror = m]
  BY DEF DisputedAccount, m
<1> QED BY <1>2, <1>3, <1>4

LEMMA AccountsStep ==
  ASSUME AccountsInOrder, ControlTypeOK, ConfigOK, [Next]_vars
  PROVE  AccountsInOrder'
<1>1. ASSUME UNCHANGED escrow PROVE AccountsInOrder'
  BY <1>1, AccountsUntouched
<1>2. ASSUME NEW g \in Grant, Moving(g) PROVE AccountsInOrder'
  <2>1. /\ Kept(escrow[g]) /\ escrow[g] \in Escrow /\ escrow \in [Grant -> Escrow]
        /\ status[g] = "Active" => Unexceeded(escrow[g])
        /\ status'[g] = "Active" => status[g] = "Active"
    BY StatusSteps DEF AccountsInOrder, Kept
  <2>2. CASE Depositing(g)
    <3>1. PICK f \in Funder, amount \in Funding :
             escrow' = [escrow EXCEPT ![g] = Deposit(@, f, amount)]
      BY <2>2 DEF Depositing
    <3> DEFINE e == Deposit(escrow[g], f, amount)
    <3>2. Kept(e) /\ (Unexceeded(escrow[g]) => Unexceeded(e))
      BY <2>1, DepositKept, Amounts
    <3>3. escrow' = [escrow EXCEPT ![g] = e]
      BY <2>1, <3>1
    <3> HIDE DEF e
    <3> QED BY <2>1, <3>2, <3>3, AccountChanged
  <2>3. ASSUME NEW f \in Funder, RefundFunder(g, f) PROVE AccountsInOrder'
    <3> DEFINE e == Refund(escrow[g], f)
    <3>1. Kept(e)
      BY <2>1, <2>3, RefundKept DEF RefundFunder
    <3>2. escrow' = [escrow EXCEPT ![g] = e] /\ status[g] # "Active"
      BY <2>1, <2>3 DEF RefundFunder
    <3> HIDE DEF e
    <3> QED BY <2>1, <3>1, <3>2, AccountChanged
  <2>4. ASSUME NEW on \in BOOLEAN, LockEscrow(g, on) PROVE AccountsInOrder'
    <3> DEFINE e == SetLock(escrow[g], on)
    <3>1. Kept(e) /\ (Unexceeded(escrow[g]) => Unexceeded(e))
      BY <2>1, SetLockKept
    <3>2. escrow' = [escrow EXCEPT ![g] = e]
      BY <2>1, <2>4 DEF LockEscrow
    <3> HIDE DEF e
    <3> QED BY <2>1, <3>1, <3>2, AccountChanged
  <2>5. CASE SwapAndPay(g, MilestoneAmount)
    <3> DEFINE e == Release(escrow[g], MilestoneAmount)
    <3>1. MilestoneAmount \in Nat /\ MilestoneAmount <= escrow[g].balance
      BY <2>5, Amounts, <2>1, FieldTypes DEF SwapAndPay, CanRelease
    <3>2. Kept(e) /\ (Unexceeded(escrow[g]) => Unexceeded(e))
      BY <2>1, <3>1, ReleaseKept
    <3>3. escrow' = [escrow EXCEPT ![g] = e]
      BY <2>1, <2>5 DEF SwapAndPay
    <3> HIDE DEF e
    <3> QED BY <2>1, <3>2, <3>3, AccountChanged
  <2>6. CASE Finalize(g)
    <3>1. Kept(FinalAccount(g)) /\ status'[g] # "Active"
          /\ escrow' = [escrow EXCEPT ![g] = FinalAccount(g)]
      BY <2>1, <2>6, FinalizeAccount, FinalAccountKept DEF ControlTypeOK, LifecycleTypeOK
    <3> QED BY <3>1, AccountChanged
  <2>7. CASE CancelGrant(g)
    <3>1. Kept(CancelledAccount(g)) /\ status'[g] # "Active"
          /\ escrow' = [escrow EXCEPT ![g] = CancelledAccount(g)]
      BY <2>1, <2>7, CancelAccount, CancelledAccountKept DEF ControlTypeOK, LifecycleTypeOK
    <3> QED BY <3>1, AccountChanged
  <2>8. CASE TriggerTimers(g)
    BY <1>1, <2>8 DEF TriggerTimers
  <2>9. ASSUME NEW i \in Index, NEW side \in {"contributor", "funder"}, ResolveDispute(g, i, side)
        PROVE  AccountsInOrder'
    <3>1. escrow' = [escrow EXCEPT ![g] = DisputedAccount(g, i)]
      BY <2>1, <2>9 DEF ResolveDispute, DisputedAccount
    <3>2. /\ Kept(DisputedAccount(g, i))
          /\ Unexceeded(escrow[g]) => Unexceeded(DisputedAccount(g, i))
      BY <2>1, DisputedAccountKept
    <3> QED BY <2>1, <3>1, <3>2, AccountChanged
  <2>10. CASE Securing(g)
    BY <1>1, <2>10 DEF Securing, RequireBond, PostBond, ClaimBond, SetBond, RequireCollateral,
                       DepositCollateral, SetCollateral, ReleaseCollateral, ForfeitCollateral
  <2> QED BY <1>2, <2>2, <2>3, <2>4, <2>5, <2>6, <2>7, <2>8, <2>9, <2>10 DEF Moving
<1> QED BY <1>1, <1>2, MoneySteps DEF coreVars

LEMMA ConfigStep == ConfigOK /\ [Next]_vars => ConfigOK'
<1> SUFFICES ASSUME ConfigOK, [Next]_vars PROVE ConfigOK'
  OBVIOUS
<1>1. config' = config \/ \E cfg \in Configs : config' = cfg
  <2> USE DEF moneyVars, releaseVars
  <2>1. ASSUME NEW g \in Grant, NEW i \in Index, ReviewStep(g, i) PROVE config' = config
    BY <2>1 DEF ReviewStep, SubmitMilestone, DecideMilestone
  <2>2. ASSUME NEW g \in Grant, NEW f \in Funder, FundingStep(g, f) PROVE config' = config
    BY <2>2 DEF FundingStep, GrantFund, FundBatch, SwapAndFund, DepositTo, RefundFunder
  <2>3. ASSUME NEW g \in Grant, ReleaseStep(g) PROVE config' = config
    BY <2>3 DEF ReleaseStep, GrantComplete, AwaitSignatures, SignRelease, ExecuteProposal,
                Finalize, SwapAndPay, LockEscrow
  <2>4. ASSUME NEW g \in Grant, EndStep(g) PROVE config' = config
    BY <2>4 DEF EndStep, CancelGrant, TriggerTimers, RegisterTimer, CancelTimer
  <2>5. ASSUME NEW g \in Grant, NEW i \in Index, DisputeStep(g, i) PROVE config' = config
    BY <2>5 DEF DisputeStep, RaiseDispute, AssignArbiter, CancelDispute, ArbiterVote,
                ResolveDispute, SetDispute
  <2>6. ASSUME NEW g \in Grant, SideStep(g) PROVE config' = config
    BY <2>6 DEF SideStep, RequireBond, PostBond, ClaimBond, SetBond, RequireCollateral,
                DepositCollateral, SetCollateral, ReleaseCollateral, ForfeitCollateral,
                RegisterSplit
  <2> HIDE DEF moneyVars, releaseVars
  <2>7. UNCHANGED moneyVars => config' = config
    BY DEF moneyVars, releaseVars
  <2> QED BY <2>1, <2>2, <2>3, <2>4, <2>5, <2>6, <2>7 DEF Next, UpdateConfig, GateStep, vars
<1> QED BY <1>1 DEF ConfigOK

LEMMA AccountsInit == Init => AccountsInOrder /\ ConfigOK
  BY OpenedKept DEF Init, AccountsInOrder, ConfigOK, Kept

LEMMA AccountsCorrect == Spec => [](AccountsInOrder /\ ConfigOK)
<1>1. (AccountsInOrder /\ ConfigOK) /\ ControlTypeOK /\ [Next]_vars
        => (AccountsInOrder /\ ConfigOK)'
  BY AccountsStep, ConfigStep
<1> QED BY AccountsInit, <1>1, ControlTypeCorrect, PTL DEF Spec

-----------------------------------------------------------------------------
(* The mirror of the balance.                                              *)

LEMMA MirrorStep ==
  ASSUME ~Uses("dispute"), AccountsInOrder, ConfigOK, ControlTypeOK, OpenMirrorAgrees,
         [Next]_vars
  PROVE  OpenMirrorAgrees'
<1> DEFINE Agrees(h) == status'[h] = "Active" => escrow'[h].mirror = escrow'[h].balance
<1>1. \A h \in Grant : status'[h] = "Active" =>
          status[h] = "Active" /\ escrow[h].mirror = escrow[h].balance
  BY StatusSteps DEF OpenMirrorAgrees
<1>2. ASSUME UNCHANGED escrow PROVE OpenMirrorAgrees'
  BY <1>1, <1>2 DEF OpenMirrorAgrees
<1>3. ASSUME NEW g \in Grant, NEW e, escrow' = [escrow EXCEPT ![g] = e],
             status'[g] = "Active" => e.mirror = e.balance
      PROVE  OpenMirrorAgrees'
  <2>1. ASSUME NEW h \in Grant PROVE Agrees(h)
    BY <1>1, <1>3 DEF AccountsInOrder
  <2> QED BY <2>1 DEF OpenMirrorAgrees
<1>4. ASSUME NEW g \in Grant, Moving(g) PROVE OpenMirrorAgrees'
  <2>1. /\ Kept(escrow[g]) /\ escrow[g] \in Escrow /\ escrow \in [Grant -> Escrow]
        /\ escrow[g].balance \in Nat
    BY FieldTypes DEF AccountsInOrder, Kept
  <2>2. CASE Depositing(g)
    <3>1. PICK f \in Funder, amount \in Funding :
             escrow' = [escrow EXCEPT ![g] = Deposit(@, f, amount)]
      BY <2>2 DEF Depositing
    <3> DEFINE e == Deposit(escrow[g], f, amount)
    <3>2. e.mirror = e.balance
      <4>1. amount \in Nat
        BY Amounts
      <4>2. /\ e.balance = escrow[g].balance + amount
            /\ e.mirror = escrow[g].balance + amount
        BY <2>1, <4>1, DepositFields, Zenon
      <4> HIDE DEF e
      <4> QED BY <4>2
    <3>3. escrow' = [escrow EXCEPT ![g] = e]
      BY <2>1, <3>1
    <3> HIDE DEF e
    <3> QED BY <3>2, <3>3, <1>3
  <2>3. ASSUME NEW f \in Funder, RefundFunder(g, f) PROVE OpenMirrorAgrees'
    <3> DEFINE e == Refund(escrow[g], f)
    <3>1. escrow' = [escrow EXCEPT ![g] = e] /\ status'[g] # "Active"
      BY <1>1, <2>1, <2>3 DEF RefundFunder
    <3> HIDE DEF e
    <3> QED BY <3>1, <1>3
  <2>4. ASSUME NEW on \in BOOLEAN, LockEscrow(g, on) PROVE OpenMirrorAgrees'
    <3> DEFINE e == SetLock(escrow[g], on)
    <3>1. e.balance = escrow[g].balance /\ e.mirror = escrow[g].mirror
      BY <2>1, SetLockKept
    <3>2. escrow' = [escrow EXCEPT ![g] = e]
      BY <2>1, <2>4 DEF LockEscrow
    <3> HIDE DEF e
    <3> QED BY <1>1, <3>1, <3>2, <1>3
  <2>5. CASE SwapAndPay(g, MilestoneAmount)
    <3> DEFINE e == Release(escrow[g], MilestoneAmount)
    <3>1. MilestoneAmount \in Nat /\ MilestoneAmount <= escrow[g].balance
      BY <2>5, Amounts, <2>1 DEF SwapAndPay, CanRelease
    <3>2. e.balance = e.mirror
      BY <2>1, <3>1, ReleaseKept
    <3>3. escrow' = [escrow EXCEPT ![g] = e]
      BY <2>1, <2>5 DEF SwapAndPay
    <3> HIDE DEF e
    <3> QED BY <3>2, <3>3, <1>3
  <2>6. CASE Finalize(g)
    <3>1. status'[g] # "Active" /\ escrow' = [escrow EXCEPT ![g] = FinalAccount(g)]
      BY <2>6, FinalizeAccount DEF ControlTypeOK, LifecycleTypeOK
    <3> QED BY <3>1, <1>3
  <2>7. CASE CancelGrant(g)
    <3>1. status'[g] # "Active" /\ escrow' = [escrow EXCEPT ![g] = CancelledAccount(g)]
      BY <2>7, CancelAccount DEF ControlTypeOK, LifecycleTypeOK
    <3> QED BY <3>1, <1>3
  <2>8. CASE TriggerTimers(g)
    BY <1>2, <2>8 DEF TriggerTimers
  <2>9. CASE Securing(g)
    BY <1>2, <2>9 DEF Securing, RequireBond, PostBond, ClaimBond, SetBond, RequireCollateral,
                      DepositCollateral, SetCollateral, ReleaseCollateral, ForfeitCollateral
  <2> QED BY <1>4, <2>2, <2>3, <2>4, <2>5, <2>6, <2>7, <2>8, <2>9 DEF Moving
<1> QED BY <1>2, <1>4, MoneySteps DEF coreVars

\* As long as no dispute is resolved, cancel_grant and grant_complete decide by
\* a mirror that is the balance of the escrow account: no call that moves the
\* tokens of an open grant forgets to tell it.
THEOREM MirrorAgrees ==
  ASSUME "dispute" \notin EntryPoints
  PROVE  Spec => []OpenMirrorAgrees
<1>1. ~Uses("dispute")
  BY DEF Uses
<1>2. Init => OpenMirrorAgrees
  BY OpenedKept DEF Init, OpenMirrorAgrees
<1>3. OpenMirrorAgrees /\ (AccountsInOrder /\ ConfigOK) /\ ControlTypeOK /\ [Next]_vars
        => OpenMirrorAgrees'
  BY <1>1, MirrorStep
<1> QED BY <1>2, <1>3, AccountsCorrect, ControlTypeCorrect, PTL DEF Spec

\* A grant ends by its release, by cancel_grant, or by a timer.
LEMMA EndSteps ==
  ASSUME [Next]_vars
  PROVE  \/ UNCHANGED status
         \/ \E g \in Grant :
              Finalize(g) \/ CancelGrant(g) \/ (Uses("timer") /\ TriggerTimers(g))
<1> SUFFICES ASSUME NEW h \in Grant, Moving(h)
             PROVE  \/ UNCHANGED status
                    \/ Finalize(h) \/ CancelGrant(h) \/ (Uses("timer") /\ TriggerTimers(h))
  BY MoneySteps DEF coreVars
<1>1. ASSUME Depositing(h) \/ Securing(h) PROVE UNCHANGED status
  BY <1>1 DEF Depositing, Securing, RequireBond, PostBond, ClaimBond, SetBond,
              RequireCollateral, DepositCollateral, SetCollateral, ReleaseCollateral,
              ForfeitCollateral, lifecycleVars
<1>2. ASSUME NEW f \in Funder, RefundFunder(h, f) PROVE UNCHANGED status
  BY <1>2 DEF RefundFunder, lifecycleVars
<1>3. ASSUME NEW on \in BOOLEAN, LockEscrow(h, on) PROVE UNCHANGED status
  BY <1>3 DEF LockEscrow, lifecycleVars
<1>4. ASSUME SwapAndPay(h, MilestoneAmount) PROVE UNCHANGED status
  BY <1>4 DEF SwapAndPay, lifecycleVars
<1>5. ASSUME NEW i \in Index, NEW side \in {"contributor", "funder"}, ResolveDispute(h, i, side)
      PROVE  UNCHANGED status
  BY <1>5 DEF ResolveDispute, SetDispute, lifecycleVars
<1> QED BY <1>1, <1>2, <1>3, <1>4, <1>5 DEF Moving

LEMMA CancelledBy ==
  ASSUME ControlTypeOK, [Next]_vars, NEW g \in Grant,
         status[g] = "Active", status'[g] = "Cancelled"
  PROVE  CancelGrant(g) \/ (Uses("timer") /\ TriggerTimers(g))
<1>1. PICK h \in Grant : Finalize(h) \/ CancelGrant(h) \/ (Uses("timer") /\ TriggerTimers(h))
  BY EndSteps
<1>2. CASE Finalize(h)
  BY <1>2, FinalizeAccount DEF ControlTypeOK, LifecycleTypeOK
<1>3. CASE CancelGrant(h)
  BY <1>3 DEF CancelGrant, ControlTypeOK, LifecycleTypeOK
<1>4. CASE Uses("timer") /\ TriggerTimers(h)
  BY <1>4 DEF TriggerTimers, ControlTypeOK, LifecycleTypeOK
<1> QED BY <1>1, <1>2, <1>3, <1>4

LEMMA CompletedBy ==
  ASSUME ControlTypeOK, [Next]_vars, NEW g \in Grant,
         status[g] # "Completed", status'[g] = "Completed"
  PROVE  Finalize(g)
<1>1. PICK h \in Grant : Finalize(h) \/ CancelGrant(h) \/ TriggerTimers(h)
  BY EndSteps
<1>2. CASE Finalize(h)
  BY <1>2, FinalizeAccount DEF ControlTypeOK, LifecycleTypeOK
<1>3. CASE CancelGrant(h)
  BY <1>3 DEF CancelGrant, ControlTypeOK, LifecycleTypeOK
<1>4. CASE TriggerTimers(h)
  BY <1>4 DEF TriggerTimers, ControlTypeOK, LifecycleTypeOK
<1> QED BY <1>1, <1>2, <1>3, <1>4

\* Without timers and disputes, the call that cancels a grant leaves nothing in
\* its escrow account, whatever the rounding.
THEOREM CancellationRefunds ==
  ASSUME "dispute" \notin EntryPoints, "timer" \notin EntryPoints
  PROVE  Spec => CancelRefunds
<1> DEFINE Refunded == \A g \in Grant : status[g] = "Active" /\ status'[g] = "Cancelled" =>
                                          escrow'[g].balance = 0
<1>1. OpenMirrorAgrees /\ (AccountsInOrder /\ ConfigOK) /\ ControlTypeOK /\ [Next]_vars
        => [Refunded]_vars
  <2> SUFFICES ASSUME OpenMirrorAgrees, AccountsInOrder, ControlTypeOK, [Next]_vars,
                      NEW g \in Grant, status[g] = "Active", status'[g] = "Cancelled"
               PROVE  escrow'[g].balance = 0
    OBVIOUS
  <2>1. CancelGrant(g)
    BY CancelledBy DEF Uses
  <2>2. Kept(escrow[g]) /\ Unexceeded(escrow[g]) /\ escrow[g].mirror = escrow[g].balance
    BY DEF AccountsInOrder, OpenMirrorAgrees
  <2>3. escrow[g].balance \in Nat
    BY <2>2, FieldTypes DEF Kept
  <2>4. CancelledAccount(g).balance = 0
    BY <2>2, <2>3, CancelledAccountKept
  <2>5. escrow' = [escrow EXCEPT ![g] = CancelledAccount(g)]
    BY <2>1, CancelAccount
  <2> QED BY <2>4, <2>5 DEF AccountsInOrder
<1> QED BY <1>1, MirrorAgrees, AccountsCorrect, ControlTypeCorrect, PTL DEF Spec, CancelRefunds

-----------------------------------------------------------------------------
(* What recipients are paid.                                               *)

\* A recipient is paid by a completion, a swap or a dispute.
LEMMA PaidSteps ==
  ASSUME [Next]_vars
  PROVE  \/ UNCHANGED paid
         \/ \E g \in Grant : Finalize(g)
         \/ Uses("swap_and_pay") \/ Uses("dispute")
<1> SUFFICES ASSUME NEW h \in Grant, Moving(h)
             PROVE  UNCHANGED paid \/ Finalize(h) \/ Uses("swap_and_pay") \/ Uses("dispute")
  BY MoneySteps DEF coreVars
<1>1. ASSUME Depositing(h) \/ Securing(h) PROVE UNCHANGED paid
  BY <1>1 DEF Depositing, Securing, RequireBond, PostBond, ClaimBond, SetBond,
              RequireCollateral, DepositCollateral, SetCollateral, ReleaseCollateral,
              ForfeitCollateral
<1>2. ASSUME NEW f \in Funder, RefundFunder(h, f) PROVE UNCHANGED paid
  BY <1>2 DEF RefundFunder
<1>3. ASSUME NEW on \in BOOLEAN, LockEscrow(h, on) PROVE UNCHANGED paid
  BY <1>3 DEF LockEscrow
<1>4. ASSUME CancelGrant(h) \/ TriggerTimers(h) PROVE UNCHANGED paid
  BY <1>4 DEF CancelGrant, TriggerTimers
<1> QED BY <1>1, <1>2, <1>3, <1>4 DEF Moving

\* Nothing was paid for a grant before it is completed.
PaidOnCompletion ==
    /\ paid \in [Grant -> Int]
    /\ \A g \in Grant : IF status[g] = "Completed" THEN paid[g] \in 0..Total ELSE paid[g] = 0

LEMMA PaidStep ==
  ASSUME ~Uses("swap_and_pay"), ~Uses("dispute"),
         PaidOnCompletion, ControlTypeOK, ConfigOK, [Next]_vars
  PROVE  PaidOnCompletion'
<1>1. Total' = Total
  BY DEF Total
<1>2. \A h \in Grant : status[h] = "Completed" => status'[h] = "Completed"
  BY StepLifecycle DEF ControlTypeOK, LifecycleTypeOK, LifecycleNext, Close, Submit, Decide,
                       lifecycleVars
<1>3. CASE \E g \in Grant : Finalize(g)
  <2>1. PICK g \in Grant : Finalize(g)
    BY <1>3
  <2>2. /\ status[g] = "Active" /\ status' = [status EXCEPT ![g] = "Completed"]
        /\ paid' = [paid EXCEPT ![g] = @ + Payout(g)]
    BY <2>1 DEF Finalize
  <2>3. Payout(g) \in 0..Total /\ Total \in Nat
    BY PayoutBounds
  <2> DEFINE p == Payout(g)
             t == Total
  <2>4. p \in 0..t /\ t \in Nat
    BY <2>3
  <2>5. paid' = [paid EXCEPT ![g] = @ + p]
    BY <2>2
  <2>6. paid \in [Grant -> Int] /\ paid[g] = 0
        /\ \A h \in Grant : IF status[h] = "Completed" THEN paid[h] \in 0..t ELSE paid[h] = 0
    BY <2>2 DEF PaidOnCompletion
  <2>7. t' = t
    BY <1>1
  <2> HIDE DEF p, t
  <2>8. paid'[g] = p /\ p \in Int /\ paid' \in [Grant -> Int]
    BY <2>4, <2>5, <2>6
  <2>9. ASSUME NEW h \in Grant
        PROVE  IF status'[h] = "Completed" THEN paid'[h] \in 0..t ELSE paid'[h] = 0
    BY <2>2, <2>4, <2>5, <2>6, <2>8 DEF ControlTypeOK, LifecycleTypeOK
  <2> QED BY <1>1, <2>8, <2>9 DEF PaidOnCompletion, t
<1>4. CASE UNCHANGED paid /\ ~ \E g \in Grant : Finalize(g)
  <2>1. \A h \in Grant : status'[h] = "Completed" => status[h] = "Completed"
    BY <1>4, CompletedBy
  <2> QED BY <1>1, <1>2, <1>4, <2>1 DEF PaidOnCompletion
<1> QED BY <1>3, <1>4, PaidSteps

\* ARCHITECTURE.md:114 holds of the escrow calls themselves: where nobody uses
\* swap_and_pay or disputes, recipients are paid on completion only, for
\* approved milestones, and no more than these are worth, whatever the fees,
\* the splits, the signatures and the proposals.
THEOREM OnlyApprovedWorkIsPaid ==
  ASSUME "swap_and_pay" \notin EntryPoints, "dispute" \notin EntryPoints
  PROVE  Spec => []PaidForApprovedWork
<1>1. Init => PaidOnCompletion
  BY DEF Init, LifecycleInit, PaidOnCompletion
<1>2. PaidOnCompletion /\ (AccountsInOrder /\ ConfigOK) /\ ControlTypeOK /\ [Next]_vars
        => PaidOnCompletion'
  BY PaidStep DEF Uses
<1>3. PaidOnCompletion /\ CompletedMeansApproved => PaidForApprovedWork
  BY DEF PaidOnCompletion, CompletedMeansApproved, PaidForApprovedWork
<1> QED BY <1>1, <1>2, <1>3, AccountsCorrect, ControlTypeCorrect, CompletedIsApproved, PTL
        DEF Spec

-----------------------------------------------------------------------------
(* Bonds and collateral.                                                   *)

DepositsTypeOK ==
    /\ bond \in [Grant -> Bond]
    /\ collateral \in [Grant -> CollateralStatus]

LEMMA DepositsStep ==
  ASSUME DepositsTypeOK, [Next]_vars, now \in Nat
  PROVE  DepositsTypeOK'
<1> USE DEF DepositsTypeOK, Bond, BondStatus, CollateralStatus
<1>1. ASSUME UNCHANGED <<bond, collateral>> PROVE DepositsTypeOK'
  BY <1>1
<1>2. ASSUME NEW g \in Grant, NEW b \in Bond, bond' = [bond EXCEPT ![g] = b],
             UNCHANGED collateral
      PROVE  DepositsTypeOK'
  BY <1>2
<1>3. ASSUME NEW g \in Grant, NEW c \in CollateralStatus,
             collateral' = [collateral EXCEPT ![g] = c], UNCHANGED bond
      PROVE  DepositsTypeOK'
  BY <1>3
<1>4. ASSUME NEW g \in Grant PROVE AfterForfeit(g) \in [Grant -> CollateralStatus]
  BY DEF AfterForfeit
<1>5. ASSUME NEW g \in Grant, NEW s \in BondStatus
      PROVE  [bond[g] EXCEPT !.status = s] \in Bond
  OBVIOUS
<1>6. ASSUME NEW g \in Grant, Moving(g) PROVE DepositsTypeOK'
  <2>1. CASE Depositing(g)
    BY <1>1, <2>1 DEF Depositing
  <2>2. ASSUME NEW f \in Funder, RefundFunder(g, f) PROVE DepositsTypeOK'
    BY <1>1, <2>2 DEF RefundFunder, sideVars
  <2>3. ASSUME NEW on \in BOOLEAN, LockEscrow(g, on) PROVE DepositsTypeOK'
    BY <1>1, <2>3 DEF LockEscrow, sideVars
  <2>4. CASE SwapAndPay(g, MilestoneAmount)
    BY <1>1, <2>4 DEF SwapAndPay, sideVars
  <2>5. CASE Finalize(g)
    <3>1. bond' = AfterBondRelease(g) /\ collateral' = AfterCollateralRelease(g)
      BY <2>5 DEF Finalize
    <3>2. AfterCollateralRelease(g) \in [Grant -> CollateralStatus]
      BY DEF AfterCollateralRelease
    <3>3. AfterBondRelease(g) \in [Grant -> Bond]
      BY DEF AfterBondRelease
    <3> QED BY <3>1, <3>2, <3>3
  <2>6. CASE CancelGrant(g)
    BY <1>4, <2>6 DEF CancelGrant
  <2>7. CASE TriggerTimers(g)
    BY <1>1, <2>7 DEF TriggerTimers
  <2>8. ASSUME NEW i \in Index, NEW side \in {"contributor", "funder"}, ResolveDispute(g, i, side)
        PROVE  DepositsTypeOK'
    BY <1>4, <2>8 DEF ResolveDispute, SetDispute
  <2>9. CASE Securing(g)
    <3>1. CASE RequireBond(g)
      <4>1. now + BondTerm \in Nat
        BY Amounts
      <4> QED BY <3>1, <4>1, <1>2 DEF RequireBond, SetBond
    <3>2. CASE PostBond(g) \/ ClaimBond(g)
      BY <3>2, <1>2, <1>5 DEF PostBond, ClaimBond, SetBond
    <3>3. CASE RequireCollateral(g) \/ DepositCollateral(g) \/ ReleaseCollateral(g)
      BY <3>3, <1>3 DEF RequireCollateral, DepositCollateral, ReleaseCollateral, SetCollateral
    <3>4. CASE ForfeitCollateral(g)
      BY <3>4, <1>4 DEF ForfeitCollateral
    <3> QED BY <2>9, <3>1, <3>2, <3>3, <3>4 DEF Securing
  <2> QED BY <1>6, <2>1, <2>2, <2>3, <2>4, <2>5, <2>6, <2>7, <2>8, <2>9 DEF Moving
<1> QED BY <1>1, <1>6, MoneySteps DEF coreVars

\* What the gates are asked for never changes them.
LEMMA StepGates == [Next]_vars => [GatesNext]_gateVars
<1> SUFFICES ASSUME [Next]_vars PROVE GatesNext \/ UNCHANGED gateVars
  OBVIOUS
<1>1. ASSUME NEW g \in Grant, NEW i \in Index, ReviewStep(g, i) PROVE UNCHANGED gateVars
  BY <1>1 DEF ReviewStep, SubmitMilestone, DecideMilestone
<1>2. ASSUME NEW g \in Grant, NEW f \in Funder, FundingStep(g, f) PROVE UNCHANGED gateVars
  BY <1>2 DEF FundingStep, GrantFund, FundBatch, SwapAndFund, DepositTo, RefundFunder
<1>3. ASSUME NEW g \in Grant, ReleaseStep(g) PROVE UNCHANGED gateVars
  BY <1>3 DEF ReleaseStep, GrantComplete, AwaitSignatures, SignRelease, ExecuteProposal,
              Finalize, SwapAndPay, LockEscrow
<1>4. ASSUME NEW g \in Grant, EndStep(g) PROVE UNCHANGED gateVars
  BY <1>4 DEF EndStep, CancelGrant, TriggerTimers, RegisterTimer, CancelTimer
<1>5. ASSUME NEW g \in Grant, NEW i \in Index, DisputeStep(g, i) PROVE UNCHANGED gateVars
  BY <1>5 DEF DisputeStep, RaiseDispute, AssignArbiter, CancelDispute, ArbiterVote,
              ResolveDispute, SetDispute
<1>6. ASSUME NEW g \in Grant, SideStep(g) PROVE UNCHANGED gateVars
  BY <1>6 DEF SideStep, RequireBond, PostBond, ClaimBond, SetBond, RequireCollateral,
              DepositCollateral, SetCollateral, ReleaseCollateral, ForfeitCollateral,
              RegisterSplit
<1>7. ASSUME NEW cfg \in Configs, UpdateConfig(cfg) PROVE UNCHANGED gateVars
  BY <1>7 DEF UpdateConfig
<1>8. ASSUME GateStep \/ Tick PROVE GatesNext
  BY <1>8 DEF GateStep, GatesNext
<1> QED BY <1>1, <1>2, <1>3, <1>4, <1>5, <1>6, <1>7, <1>8 DEF Next, vars

\* The clock starts at 0 and every flag and record in its initial state.
LEMMA GatesInitTypeOK == GatesInit => GatesTypeOK
<1>1. 0 \in Time
  BY MaxTimeAssumption DEF Time
<1> QED BY <1>1 DEF GatesInit, GatesTypeOK, Until

\* One step of a gate or of the clock keeps the types.
LEMMA GatesStepTypeOK == GatesTypeOK /\ GatesNext => GatesTypeOK'
<1> SUFFICES ASSUME GatesTypeOK, GatesNext PROVE GatesTypeOK'
  OBVIOUS
<1> USE DEF GatesTypeOK, Until, Time
<1>1. CASE EmergencyPause
  BY <1>1 DEF EmergencyPause
<1>2. CASE EmergencyUnpause
  BY <1>2 DEF EmergencyUnpause
<1>3. ASSUME NEW m \in Module, NEW until \in Until, Trip(m, until)
      PROVE  GatesTypeOK'
  BY <1>3 DEF Trip
<1>4. ASSUME NEW m \in Module, Reset(m) PROVE GatesTypeOK'
  BY <1>4 DEF Reset
<1>5. ASSUME NEW g \in Grant, NEW until \in Until, PauseGrant(g, until)
      PROVE  GatesTypeOK'
  BY <1>5 DEF PauseGrant
<1>6. ASSUME NEW g \in Grant, UnpauseGrant(g) PROVE GatesTypeOK'
  BY <1>6 DEF UnpauseGrant
<1>7. CASE Tick
  BY <1>7, MaxTimeAssumption DEF Tick
<1> QED BY <1>1, <1>2, <1>3, <1>4, <1>5, <1>6, <1>7 DEF GatesNext

\* Every flag, breaker and pause has the type that types.rs gives it, whatever
\* the admin and the owners trip, reset, pause and unpause.
THEOREM GatesTypeCorrect == GatesSpec => []GatesTypeOK
<1>1. GatesTypeOK /\ UNCHANGED gateVars => GatesTypeOK'
  BY DEF gateVars, GatesTypeOK
<1> QED BY <1>1, GatesInitTypeOK, GatesStepTypeOK, PTL DEF GatesSpec

\* Nothing but the calls of emergency.rs, circuit_breaker.rs and grant_pause.rs
\* moves a gate: the protocol leaves them as GatesSpec has them.
THEOREM ImplementsGates == Spec => GatesSpec
  BY StepGates, PTL DEF Spec, Init, GatesSpec

LEMMA GatesCorrect == Spec => []GatesTypeOK
  BY ImplementsGates, GatesTypeCorrect

LEMMA NowIsNat == GatesTypeOK => now \in Nat
  BY MaxTimeAssumption DEF GatesTypeOK, Time

LEMMA DepositsCorrect == Spec => []DepositsTypeOK
<1>1. Init => DepositsTypeOK
  BY DEF Init, DepositsTypeOK, Bond, BondStatus, CollateralStatus
<1>2. DepositsTypeOK /\ GatesTypeOK /\ [Next]_vars => DepositsTypeOK'
  BY DepositsStep, NowIsNat
<1> QED BY <1>1, <1>2, GatesCorrect, PTL DEF Spec

\* While a grant is open only the entry points of collateral.rs and a dispute
\* can forfeit a part of its collateral.
OpenCollateralWhole == \A g \in Grant : status[g] = "Active" => collateral[g] # "Partial"

LEMMA CollateralStep ==
  ASSUME ~Uses("collateral_entries"), ~Uses("dispute"),
         OpenCollateralWhole, DepositsTypeOK, ControlTypeOK, [Next]_vars
  PROVE  OpenCollateralWhole'
<1>1. \A h \in Grant : status'[h] = "Active" => status[h] = "Active" /\ collateral[h] # "Partial"
  BY StatusSteps DEF OpenCollateralWhole
<1>2. ASSUME UNCHANGED collateral PROVE OpenCollateralWhole'
  BY <1>1, <1>2 DEF OpenCollateralWhole
<1>3. ASSUME NEW g \in Grant, NEW c \in CollateralStatus \ {"Partial"},
             collateral' = [collateral EXCEPT ![g] = c]
      PROVE  OpenCollateralWhole'
  BY <1>1, <1>3 DEF OpenCollateralWhole, DepositsTypeOK
<1>4. ASSUME NEW g \in Grant, Moving(g) PROVE OpenCollateralWhole'
  <2>1. CASE Depositing(g)
    BY <1>2, <2>1 DEF Depositing
  <2>2. ASSUME NEW f \in Funder, RefundFunder(g, f) PROVE OpenCollateralWhole'
    BY <1>2, <2>2 DEF RefundFunder, sideVars
  <2>3. ASSUME NEW on \in BOOLEAN, LockEscrow(g, on) PROVE OpenCollateralWhole'
    BY <1>2, <2>3 DEF LockEscrow, sideVars
  <2>4. CASE SwapAndPay(g, MilestoneAmount)
    BY <1>2, <2>4 DEF SwapAndPay, sideVars
  <2>5. CASE Finalize(g)
    <3>1. collateral' = AfterCollateralRelease(g)
      BY <2>5 DEF Finalize
    <3>2. \A h \in Grant : collateral'[h] = "Partial" => collateral[h] = "Partial"
      BY <3>1 DEF AfterCollateralRelease, DepositsTypeOK
    <3> QED BY <1>1, <3>2 DEF OpenCollateralWhole
  <2>6. CASE CancelGrant(g)
    <3>1. collateral' = AfterForfeit(g) /\ status'[g] # "Active"
      BY <2>6 DEF CancelGrant, ControlTypeOK, LifecycleTypeOK
    <3>2. \A h \in Grant \ {g} : collateral'[h] = collateral[h]
      BY <3>1 DEF AfterForfeit, DepositsTypeOK
    <3> QED BY <1>1, <3>1, <3>2 DEF OpenCollateralWhole
  <2>7. CASE TriggerTimers(g)
    BY <1>2, <2>7 DEF TriggerTimers
  <2>8. CASE Securing(g)
    BY <1>2, <1>3, <2>8 DEF Securing, RequireBond, PostBond, ClaimBond, SetBond,
       RequireCollateral, DepositCollateral, SetCollateral, CollateralStatus
  <2> QED BY <1>4, <2>1, <2>2, <2>3, <2>4, <2>5, <2>6, <2>7, <2>8 DEF Moving
<1> QED BY <1>2, <1>4, MoneySteps DEF coreVars

\* collateral.rs:75: the call that completes a grant leaves neither a posted
\* bond nor collateral behind, provided that nobody forfeits a part of the
\* collateral of an open grant.
THEOREM CompletionReturns ==
  ASSUME "collateral_entries" \notin EntryPoints, "dispute" \notin EntryPoints
  PROVE  Spec => CompletionReturnsDeposits
<1> DEFINE Returned == \A g \in Grant :
                          status[g] # "Completed" /\ status'[g] = "Completed" =>
                             /\ bond'[g].status \in {"None", "Released"}
                             /\ collateral'[g] \notin {"Deposited", "Partial"}
<1>1. Init => OpenCollateralWhole
  BY DEF Init, OpenCollateralWhole
<1>2. OpenCollateralWhole /\ DepositsTypeOK /\ ControlTypeOK /\ [Next]_vars
        => OpenCollateralWhole'
  BY CollateralStep DEF Uses
<1>3. OpenCollateralWhole /\ DepositsTypeOK /\ ControlTypeOK /\ [Next]_vars => [Returned]_vars
  <2> SUFFICES ASSUME OpenCollateralWhole, DepositsTypeOK, ControlTypeOK, [Next]_vars,
                      NEW g \in Grant, status[g] # "Completed", status'[g] = "Completed"
               PROVE  /\ bond'[g].status \in {"None", "Released"}
                      /\ collateral'[g] \notin {"Deposited", "Partial"}
    OBVIOUS
  <2>1. Finalize(g)
    BY CompletedBy
  <2>2. /\ bond[g].status \in {"None", "Active"} /\ bond' = AfterBondRelease(g)
        /\ status[g] = "Active" /\ collateral' = AfterCollateralRelease(g)
    BY <2>1 DEF Finalize
  <2>3. bond'[g].status \in {"None", "Released"}
    BY <2>2 DEF AfterBondRelease, DepositsTypeOK, Bond
  <2>4. collateral'[g] \notin {"Deposited", "Partial"}
    BY <2>2 DEF AfterCollateralRelease, DepositsTypeOK, OpenCollateralWhole
  <2> QED BY <2>3, <2>4
<1> QED BY <1>1, <1>2, <1>3, DepositsCorrect, ControlTypeCorrect, PTL
        DEF Spec, CompletionReturnsDeposits

-----------------------------------------------------------------------------
(* Solvency.                                                               *)

BondWorth(b) == IF b.status = "Active" THEN BondAmount ELSE 0

CollateralWorth(c) ==
    IF c = "Deposited" THEN CollateralAmount
    ELSE IF c = "Partial" THEN CollateralAmount - ForfeitAmount ELSE 0

\* What the contract owes for a grant, by the records it depends on.
Due(e, b, c) == e.balance + BondWorth(b) + CollateralWorth(c)

Dues == [g \in Grant |-> Due(escrow[g], bond[g], collateral[g])]

LEMMA TotalOwingIs == TotalOwing = Sum(Dues, Grant)
<1>1. Dues = [g \in Grant |-> Owing(g)]
  BY DEF Dues, Due, Owing, BondReturned, BondWorth, CollateralWorth
<1>2. Grant = DOMAIN Dues
  BY DEF Dues
<1>3. SumFunction(Dues) = Sum(Dues, Grant)
  BY <1>2, SumOfFunction
<1> HIDE DEF Dues
<1> QED BY <1>1, <1>3 DEF TotalOwing

LEMMA DueType ==
  ASSUME NEW e \in Escrow, NEW b, NEW c
  PROVE  Due(e, b, c) \in Int
<1>1. e.balance \in Int
  BY FieldTypes
<1>2. CollateralAmount \in Int /\ ForfeitAmount \in Int /\ BondAmount \in Int
  BY Amounts, ForfeitBounds
<1> QED BY <1>1, <1>2 DEF Due, BondWorth, CollateralWorth

\* What one grant is owed may grow by no more than the contract is paid.
LEMMA StaysSolvent ==
  ASSUME Solvent, AccountsInOrder, AccountsInOrder', held \in Int, held' \in Int, NEW g \in Grant,
         \A h \in Grant \ {g} : /\ escrow'[h] = escrow[h] /\ bond'[h] = bond[h]
                                /\ collateral'[h] = collateral[h],
         held' - held >= Due(escrow'[g], bond'[g], collateral'[g])
                           - Due(escrow[g], bond[g], collateral[g])
  PROVE  Solvent'
<1> DEFINE F == Dues
           G == [h \in Grant |-> Due(escrow'[h], bond'[h], collateral'[h])]
<1>1. /\ \A h \in Grant : F[h] = Due(escrow[h], bond[h], collateral[h]) /\ F[h] \in Int
      /\ \A h \in Grant : G[h] = Due(escrow'[h], bond'[h], collateral'[h]) /\ G[h] \in Int
  BY DueType DEF Dues, AccountsInOrder
<1>2. Dues' = G
  BY DEF Dues, Due, BondWorth, CollateralWorth, ForfeitAmount
<1>3. TotalOwing = Sum(F, Grant) /\ TotalOwing' = Sum(G, Grant)
  <2>1. TotalOwing' = Sum(Dues', Grant)
    <3>1. Dues' = [h \in Grant |-> Owing(h)']
      BY DEF Dues, Due, Owing, BondReturned, BondWorth, CollateralWorth, ForfeitAmount
    <3>2. Grant = DOMAIN (Dues')
      BY <1>2
    <3>3. SumFunction(Dues') = Sum(Dues', Grant)
      BY <3>2, SumOfFunction
    <3>4. TotalOwing' = SumFunction([h \in Grant |-> Owing(h)'])
      BY DEF TotalOwing
    <3> QED BY <3>1, <3>3, <3>4, Zenon
  <2> QED BY <1>2, <2>1, TotalOwingIs, Zenon
<1>4. \A h \in Grant : h # g => G[h] = F[h]
  BY <1>1
<1>5. held' - held >= G[g] - F[g]
  BY <1>1
<1> HIDE DEF F, G
<1>6. Summands(F, Grant)
  BY <1>1, ProtocolAssumption DEF Summands
<1>7. Sum(G, Grant) = Sum(F, Grant) - F[g] + G[g]
  BY <1>1, <1>4, <1>6, SumChange
<1>8. Sum(F, Grant) \in Int
  BY <1>6, SumType
<1>9. held >= Sum(F, Grant)
  BY <1>3 DEF Solvent
<1>10. held' >= Sum(G, Grant)
  BY <1>1, <1>5, <1>7, <1>8, <1>9
<1> QED BY <1>3, <1>10 DEF Solvent

\* The contract has what it owes, before and after a step that does not panic.
SolventOK == Solvent /\ held \in Int

\* A step of a grant that leaves it the account e and pays what it takes: a out
\* of the account, b out of the bond and c out of the collateral.
Spends(g, e, a, b, c) ==
    /\ escrow' = [escrow EXCEPT ![g] = e]
    /\ \A h \in Grant \ {g} : bond'[h] = bond[h] /\ collateral'[h] = collateral[h]
    /\ a \in Int /\ b \in Int /\ c \in Int /\ held' = held - (a + b + c)
    /\ a + e.balance <= escrow[g].balance
    /\ b + BondWorth(bond'[g]) <= BondWorth(bond[g])
    /\ c + CollateralWorth(collateral'[g]) <= CollateralWorth(collateral[g])

LEMMA SolventByPayment ==
  ASSUME SolventOK, AccountsInOrder, AccountsInOrder', NEW g \in Grant,
         NEW e \in Escrow, NEW a, NEW b, NEW c, Spends(g, e, a, b, c)
  PROVE  SolventOK'
<1> USE DEF Spends
<1> DEFINE v == BondWorth(bond[g])
           x == BondWorth(bond'[g])
           w == CollateralWorth(collateral[g])
           y == CollateralWorth(collateral'[g])
<1>1. /\ v \in Int /\ w \in Int /\ x \in Int /\ y \in Int
      /\ e.balance \in Int /\ escrow[g].balance \in Int
  BY Amounts, ForfeitBounds, FieldTypes DEF BondWorth, CollateralWorth, AccountsInOrder
<1>2. escrow'[g] = e /\ \A h \in Grant \ {g} : escrow'[h] = escrow[h]
  BY DEF AccountsInOrder
<1>3. /\ Due(e, bond'[g], collateral'[g]) = e.balance + x + y
      /\ Due(escrow[g], bond[g], collateral[g]) = escrow[g].balance + v + w
  BY DEF Due
<1>4. b + x <= v /\ c + y <= w
  OBVIOUS
<1> HIDE DEF v, w, x, y
<1>5. held' \in Int /\ held \in Int
  BY DEF SolventOK
<1>6. Due(escrow'[g], bond'[g], collateral'[g]) = e.balance + x + y
  BY <1>2, <1>3
<1>7. held' - held >= Due(escrow'[g], bond'[g], collateral'[g])
                        - Due(escrow[g], bond[g], collateral[g])
  BY <1>1, <1>3, <1>4, <1>5, <1>6
<1> QED BY <1>2, <1>5, <1>7, StaysSolvent DEF SolventOK

\* A forfeit pays out what the collateral loses.
LEMMA ForfeitWorth ==
  ASSUME DepositsTypeOK, NEW g \in Grant
  PROVE  /\ Forfeited(g) \in Nat
         /\ Forfeited(g) + CollateralWorth(AfterForfeit(g)[g]) <= CollateralWorth(collateral[g])
         /\ \A h \in Grant \ {g} : AfterForfeit(g)[h] = collateral[h]
<1>1. CollateralAmount \in Nat /\ ForfeitAmount \in 0..CollateralAmount
  BY Amounts, ForfeitBounds
<1>2. CASE ~Forfeits(g)
  <2>1. Forfeited(g) = 0 /\ AfterForfeit(g) = collateral
    BY <1>2 DEF Forfeited, AfterForfeit
  <2> QED BY <1>1, <2>1 DEF CollateralWorth
<1>3. CASE Forfeits(g)
  <2>1. /\ Forfeited(g) = ForfeitAmount /\ collateral[g] = "Deposited"
        /\ AfterForfeit(g)[g] = IF ForfeitAmount >= CollateralAmount THEN "Forfeited" ELSE "Partial"
        /\ \A h \in Grant \ {g} : AfterForfeit(g)[h] = collateral[h]
    BY <1>3 DEF Forfeits, Forfeited, AfterForfeit, DepositsTypeOK
  <2> DEFINE z == ForfeitAmount
  <2>2. z \in 0..CollateralAmount
    BY <1>1
  <2>3. z + CollateralWorth(AfterForfeit(g)[g]) <= CollateralWorth(collateral[g])
    <3>1. CollateralWorth(collateral[g]) = CollateralAmount
      BY <2>1 DEF CollateralWorth
    <3>2. CollateralWorth(AfterForfeit(g)[g]) = IF z >= CollateralAmount THEN 0 ELSE CollateralAmount - z
      BY <2>1 DEF CollateralWorth
    <3> HIDE DEF z
    <3> QED BY <1>1, <2>2, <3>1, <3>2
  <2> QED BY <1>1, <2>1, <2>3
<1> QED BY <1>2, <1>3

LEMMA SolventUntouched ==
  ASSUME SolventOK, UNCHANGED <<escrow, held, bond, collateral>>
  PROVE  SolventOK'
<1>1. TotalOwing' = TotalOwing
  <2>1. Dues' = Dues
    BY DEF Dues, Due, BondWorth, CollateralWorth, ForfeitAmount
  <2>2. Dues' = [h \in Grant |-> Owing(h)'] /\ Dues = [h \in Grant |-> Owing(h)]
    BY DEF Dues, Due, Owing, BondReturned, BondWorth, CollateralWorth, ForfeitAmount
  <2>3. TotalOwing' = SumFunction(Dues') /\ TotalOwing = SumFunction(Dues)
    BY <2>2, Zenon DEF TotalOwing
  <2> QED BY <2>1, <2>3, Zenon
<1> QED BY <1>1 DEF SolventOK, Solvent

\* What is not touched is worth the same.
LEMMA SameWorth ==
  /\ UNCHANGED bond => \A g \in Grant : 0 + BondWorth(bond'[g]) <= BondWorth(bond[g])
  /\ UNCHANGED collateral =>
        \A g \in Grant : 0 + CollateralWorth(collateral'[g]) <= CollateralWorth(collateral[g])
<1>1. /\ BondAmount \in Int /\ CollateralAmount \in Int /\ ForfeitAmount \in Int
  BY Amounts, ForfeitBounds
<1> QED BY <1>1 DEF BondWorth, CollateralWorth

\* A step of the escrow account alone, and one of the bond or the collateral.
AccountSpends(g, e, a) ==
    /\ escrow' = [escrow EXCEPT ![g] = e] /\ UNCHANGED <<bond, collateral>>
    /\ a \in Int /\ held' = held - a
    /\ a + e.balance <= escrow[g].balance

DepositsSpend(g, b, c) ==
    /\ UNCHANGED escrow
    /\ \A h \in Grant \ {g} : bond'[h] = bond[h] /\ collateral'[h] = collateral[h]
    /\ b \in Int /\ c \in Int /\ held' = held - (b + c)
    /\ b + BondWorth(bond'[g]) <= BondWorth(bond[g])
    /\ c + CollateralWorth(collateral'[g]) <= CollateralWorth(collateral[g])

LEMMA SolventByAccount ==
  ASSUME SolventOK, AccountsInOrder, AccountsInOrder', NEW g \in Grant,
         NEW e \in Escrow, NEW a, AccountSpends(g, e, a)
  PROVE  SolventOK'
<1>1. held' = held - (a + 0 + 0)
  BY DEF SolventOK, AccountSpends
<1>2. Spends(g, e, a, 0, 0)
  BY <1>1, SameWorth DEF Spends, AccountSpends
<1> QED BY <1>2, SolventByPayment

LEMMA SolventByDeposits ==
  ASSUME SolventOK, AccountsInOrder, AccountsInOrder', NEW g \in Grant,
         NEW b, NEW c, DepositsSpend(g, b, c)
  PROVE  SolventOK'
<1> DEFINE e == escrow[g]
<1>1. e \in Escrow /\ escrow' = [escrow EXCEPT ![g] = e]
  BY DEF AccountsInOrder, DepositsSpend
<1>2. 0 + e.balance <= escrow[g].balance
  BY <1>1, FieldTypes
<1> HIDE DEF e
<1>3. held' = held - (0 + b + c)
  BY DEF SolventOK, DepositsSpend
<1>4. Spends(g, e, 0, b, c)
  <2>1. /\ \A h \in Grant \ {g} : bond'[h] = bond[h] /\ collateral'[h] = collateral[h]
        /\ b \in Int /\ c \in Int
        /\ b + BondWorth(bond'[g]) <= BondWorth(bond[g])
        /\ c + CollateralWorth(collateral'[g]) <= CollateralWorth(collateral[g])
    BY DEF DepositsSpend
  <2> QED BY <1>1, <1>2, <1>3, <2>1 DEF Spends
<1> QED BY <1>1, <1>4, SolventByPayment

LEMMA SolventStep ==
  ASSUME ~Uses("dispute"), SolventOK, AccountsInOrder, ConfigOK, ControlTypeOK,
         DepositsTypeOK, [Next]_vars
  PROVE  SolventOK'
<1>1. AccountsInOrder'
  BY AccountsStep
<1>2. ASSUME UNCHANGED <<escrow, held, bond, collateral>> PROVE SolventOK'
  BY <1>2, SolventUntouched
<1>3. ASSUME NEW g \in Grant, Moving(g) PROVE SolventOK'
  <2>1. /\ Kept(escrow[g]) /\ escrow[g] \in Escrow /\ escrow \in [Grant -> Escrow]
        /\ status[g] = "Active" => Unexceeded(escrow[g])
        /\ escrow[g].balance \in Nat
    BY FieldTypes DEF AccountsInOrder, Kept
  <2>2. /\ BondAmount \in Nat /\ CollateralAmount \in Nat /\ ForfeitAmount \in 0..CollateralAmount
        /\ held \in Int
    BY Amounts, ForfeitBounds DEF SolventOK
  <2>3. CASE Depositing(g)
    <3>1. PICK f \in Funder, amount \in Funding :
             /\ escrow' = [escrow EXCEPT ![g] = Deposit(@, f, amount)]
             /\ held' = held + amount
      BY <2>3 DEF Depositing
    <3> DEFINE e == Deposit(escrow[g], f, amount)
    <3>2. amount \in Nat
      BY Amounts
    <3>3. e \in Escrow /\ e.balance = escrow[g].balance + amount
      BY <2>1, <3>2, DepositFields, Zenon
    <3>4. escrow' = [escrow EXCEPT ![g] = e]
      BY <2>1, <3>1
    <3> HIDE DEF e
    <3>5. -amount \in Int /\ held' = held - (-amount) /\ -amount + e.balance <= escrow[g].balance
      BY <2>1, <2>2, <3>1, <3>2, <3>3
    <3>6. UNCHANGED <<bond, collateral>>
      BY <2>3 DEF Depositing
    <3>7. AccountSpends(g, e, -amount)
      BY <3>4, <3>5, <3>6 DEF AccountSpends
    <3> QED BY <1>1, <3>3, <3>7, SolventByAccount
  <2>4. ASSUME NEW f \in Funder, RefundFunder(g, f) PROVE SolventOK'
    <3> DEFINE e == Refund(escrow[g], f)
               a == RefundAmount(escrow[g], f)
    <3>1. Kept(e) /\ e.balance = escrow[g].balance - a /\ a \in Nat
      BY <2>1, <2>4, RefundKept DEF RefundFunder
    <3>2. /\ escrow' = [escrow EXCEPT ![g] = e] /\ held' = held - a
          /\ UNCHANGED <<bond, collateral>>
      BY <2>1, <2>4 DEF RefundFunder, Pay, sideVars
    <3> HIDE DEF e, a
    <3>3. a + e.balance <= escrow[g].balance
      BY <2>1, <3>1
    <3>4. e \in Escrow /\ AccountSpends(g, e, a)
      BY <3>1, <3>2, <3>3 DEF AccountSpends, Kept
    <3> QED BY <1>1, <3>4, SolventByAccount
  <2>5. ASSUME NEW on \in BOOLEAN, LockEscrow(g, on) PROVE SolventOK'
    <3> DEFINE e == SetLock(escrow[g], on)
    <3>1. Kept(e) /\ e.balance = escrow[g].balance
      BY <2>1, SetLockKept
    <3>2. /\ escrow' = [escrow EXCEPT ![g] = e] /\ UNCHANGED <<held, bond, collateral>>
      BY <2>1, <2>5 DEF LockEscrow, sideVars
    <3> HIDE DEF e
    <3>3. 0 + e.balance <= escrow[g].balance /\ held' = held - 0
      BY <2>1, <2>2, <3>1, <3>2
    <3>4. e \in Escrow /\ AccountSpends(g, e, 0)
      BY <3>1, <3>2, <3>3 DEF AccountSpends, Kept
    <3> QED BY <1>1, <3>4, SolventByAccount
  <2>6. CASE SwapAndPay(g, MilestoneAmount)
    <3> DEFINE e == Release(escrow[g], MilestoneAmount)
    <3>1. MilestoneAmount \in Nat /\ MilestoneAmount <= escrow[g].balance
      BY <2>6, Amounts, <2>1 DEF SwapAndPay, CanRelease
    <3>2. Kept(e) /\ e.balance = escrow[g].balance - MilestoneAmount
      BY <2>1, <3>1, ReleaseKept
    <3>3. /\ escrow' = [escrow EXCEPT ![g] = e] /\ held' = held - MilestoneAmount
          /\ UNCHANGED <<bond, collateral>>
      BY <2>1, <2>6 DEF SwapAndPay, Pay, sideVars
    <3> HIDE DEF e
    <3>4. MilestoneAmount + e.balance <= escrow[g].balance
      BY <2>1, <3>1, <3>2
    <3>5. e \in Escrow /\ AccountSpends(g, e, MilestoneAmount)
      BY <3>1, <3>2, <3>3, <3>4 DEF AccountSpends, Kept
    <3> QED BY <1>1, <3>5, SolventByAccount
  <2>7. CASE Finalize(g)
    <3> DEFINE e == FinalAccount(g)
               a == Payout(g) + RemainderPaid(g)
               b == BondReturned(g)
               c == CollateralReturned(g)
    <3>1. /\ escrow' = [escrow EXCEPT ![g] = e] /\ status[g] = "Active"
          /\ Payout(g) > 0 => CanRelease(escrow[g], Payout(g))
      BY <2>7, FinalizeAccount
    <3>2. Kept(e) /\ a \in Nat /\ a + e.balance <= escrow[g].balance
      BY <2>1, <3>1, FinalAccountKept
    <3>3. /\ held' = held - (a + b + c)
          /\ bond' = AfterBondRelease(g) /\ collateral' = AfterCollateralRelease(g)
      BY <2>7 DEF Finalize, Pay
    <3>4. b \in Int /\ b + BondWorth(bond'[g]) <= BondWorth(bond[g])
      BY <2>2, <3>3 DEF AfterBondRelease, DepositsTypeOK, Bond, BondReturned, BondWorth
    <3>5. c \in Int /\ c + CollateralWorth(collateral'[g]) <= CollateralWorth(collateral[g])
      BY <2>2, <3>3 DEF AfterCollateralRelease, DepositsTypeOK, CollateralReturned, CollateralWorth
    <3>6. \A h \in Grant \ {g} : bond'[h] = bond[h] /\ collateral'[h] = collateral[h]
      BY <3>3 DEF AfterBondRelease, AfterCollateralRelease, DepositsTypeOK
    <3> HIDE DEF e, a, b, c
    <3>7. e \in Escrow /\ Spends(g, e, a, b, c)
      BY <3>1, <3>2, <3>3, <3>4, <3>5, <3>6 DEF Spends, Kept
    <3> QED BY <1>1, <3>7, SolventByPayment
  <2>8. CASE CancelGrant(g)
    <3> DEFINE e == CancelledAccount(g)
               a == CancelPaid(g)
               c == Forfeited(g)
    <3>1. /\ escrow' = [escrow EXCEPT ![g] = e] /\ status[g] = "Active"
          /\ held' = held - (c + a)
      BY <2>8, CancelAccount DEF Pay
    <3>2. Kept(e) /\ a \in Nat /\ a + e.balance <= escrow[g].balance
      BY <2>1, <3>1, CancelledAccountKept
    <3>3. bond' = bond /\ collateral' = AfterForfeit(g)
      BY <2>8 DEF CancelGrant
    <3>4. /\ c \in Nat /\ c + CollateralWorth(collateral'[g]) <= CollateralWorth(collateral[g])
          /\ \A h \in Grant \ {g} : bond'[h] = bond[h] /\ collateral'[h] = collateral[h]
      BY <3>3, ForfeitWorth
    <3> HIDE DEF e, a, c
    <3>5. held' = held - (a + 0 + c)
      BY <2>2, <3>1, <3>2, <3>4
    <3>6. 0 + BondWorth(bond'[g]) <= BondWorth(bond[g])
      BY <2>2, <3>3 DEF BondWorth
    <3>7. e \in Escrow /\ Spends(g, e, a, 0, c)
      BY <3>1, <3>2, <3>4, <3>5, <3>6 DEF Spends, Kept
    <3> QED BY <1>1, <3>7, SolventByPayment
  <2>9. CASE TriggerTimers(g)
    BY <1>2, <2>9 DEF TriggerTimers
  <2>10. CASE Securing(g)
    <3>1. CASE RequireBond(g)
      <4>1. /\ bond' = [bond EXCEPT ![g] = [status |-> "Pending", expires |-> now + BondTerm]]
            /\ UNCHANGED <<escrow, collateral, held>> /\ bond[g].status = "None"
        BY <3>1 DEF RequireBond, SetBond
      <4>2. bond'[g].status = "Pending"
        BY <4>1 DEF DepositsTypeOK
      <4>3. 0 + BondWorth(bond'[g]) <= BondWorth(bond[g]) /\ held' = held - (0 + 0)
        BY <2>2, <4>1, <4>2 DEF BondWorth
      <4>4. DepositsSpend(g, 0, 0)
        BY <4>1, <4>3, SameWorth DEF DepositsTypeOK, DepositsSpend
      <4> QED BY <1>1, <4>4, SolventByDeposits
    <3>2. CASE PostBond(g)
      <4>1. /\ bond' = [bond EXCEPT ![g] = [bond[g] EXCEPT !.status = "Active"]]
            /\ UNCHANGED <<escrow, collateral>>
            /\ bond[g].status = "Pending" /\ held' = held + BondAmount
        BY <3>2 DEF PostBond, SetBond
      <4>2. bond'[g].status = "Active"
        BY <4>1 DEF DepositsTypeOK, Bond
      <4>3. /\ -BondAmount \in Int /\ held' = held - (-BondAmount + 0)
            /\ -BondAmount + BondWorth(bond'[g]) <= BondWorth(bond[g])
        BY <2>2, <4>1, <4>2 DEF BondWorth
      <4>4. DepositsSpend(g, -BondAmount, 0)
        BY <4>1, <4>3, SameWorth DEF DepositsTypeOK, DepositsSpend
      <4> QED BY <1>1, <4>4, SolventByDeposits
    <3>3. CASE ClaimBond(g)
      <4>1. /\ bond' = [bond EXCEPT ![g] = [bond[g] EXCEPT !.status = "Claimed"]]
            /\ UNCHANGED <<escrow, collateral>>
            /\ bond[g].status = "Active" /\ held' = held - BondAmount
        BY <3>3 DEF ClaimBond, SetBond, Pay
      <4>2. bond'[g].status = "Claimed"
        BY <4>1 DEF DepositsTypeOK, Bond
      <4>3. /\ BondAmount \in Int /\ held' = held - (BondAmount + 0)
            /\ BondAmount + BondWorth(bond'[g]) <= BondWorth(bond[g])
        BY <2>2, <4>1, <4>2 DEF BondWorth
      <4>4. DepositsSpend(g, BondAmount, 0)
        BY <4>1, <4>3, SameWorth DEF DepositsTypeOK, DepositsSpend
      <4> QED BY <1>1, <4>4, SolventByDeposits
    <3>4. ASSUME UNCHANGED <<escrow, bond>>, NEW c \in Int, held' = held - c,
                 \A h \in Grant \ {g} : collateral'[h] = collateral[h],
                 c + CollateralWorth(collateral'[g]) <= CollateralWorth(collateral[g])
          PROVE  SolventOK'
      <4>1. held' = held - (0 + c)
        BY <2>2, <3>4
      <4>2. DepositsSpend(g, 0, c)
        BY <3>4, <4>1, SameWorth DEF DepositsSpend
      <4> QED BY <1>1, <4>2, SolventByDeposits
    <3>5. CASE RequireCollateral(g)
      <4>1. /\ UNCHANGED <<escrow, bond>> /\ held' = held - 0
            /\ collateral'[g] = "Required" /\ collateral[g] = "None"
            /\ \A h \in Grant \ {g} : collateral'[h] = collateral[h]
        BY <2>2, <3>5 DEF RequireCollateral, SetCollateral, DepositsTypeOK
      <4>2. 0 + CollateralWorth(collateral'[g]) <= CollateralWorth(collateral[g])
        BY <4>1 DEF CollateralWorth
      <4> QED BY <3>4, <4>1, <4>2
    <3>6. CASE DepositCollateral(g)
      <4>1. /\ UNCHANGED <<escrow, bond>> /\ held' = held - (-CollateralAmount)
            /\ collateral'[g] = "Deposited" /\ collateral[g] = "Required"
            /\ \A h \in Grant \ {g} : collateral'[h] = collateral[h]
        BY <2>2, <3>6 DEF DepositCollateral, SetCollateral, DepositsTypeOK
      <4>2. -CollateralAmount + CollateralWorth(collateral'[g]) <= CollateralWorth(collateral[g])
        BY <2>2, <4>1 DEF CollateralWorth
      <4>3. -CollateralAmount \in Int
        BY <2>2
      <4> QED BY <3>4, <4>1, <4>2, <4>3
    <3>7. CASE ReleaseCollateral(g)
      <4>1. /\ UNCHANGED <<escrow, bond>> /\ held' = held - CollateralAmount
            /\ collateral'[g] = "Released" /\ collateral[g] = "Deposited"
            /\ \A h \in Grant \ {g} : collateral'[h] = collateral[h]
        BY <3>7 DEF ReleaseCollateral, SetCollateral, DepositsTypeOK, Pay
      <4>2. CollateralAmount + CollateralWorth(collateral'[g]) <= CollateralWorth(collateral[g])
        BY <2>2, <4>1 DEF CollateralWorth
      <4> QED BY <2>2, <3>4, <4>1, <4>2
    <3>8. CASE ForfeitCollateral(g)
      <4> DEFINE c == Forfeited(g)
      <4>1. /\ UNCHANGED <<escrow, bond>> /\ held' = held - c
            /\ collateral' = AfterForfeit(g)
        BY <3>8 DEF ForfeitCollateral, Pay
      <4>2. /\ c \in Int /\ c + CollateralWorth(collateral'[g]) <= CollateralWorth(collateral[g])
            /\ \A h \in Grant \ {g} : collateral'[h] = collateral[h]
        BY <4>1, ForfeitWorth
      <4> HIDE DEF c
      <4> QED BY <3>4, <4>1, <4>2
    <3> QED BY <2>10, <3>1, <3>2, <3>3, <3>5, <3>6, <3>7, <3>8 DEF Securing
  <2> QED BY <1>3, <2>3, <2>4, <2>5, <2>6, <2>7, <2>8, <2>9, <2>10 DEF Moving
<1> QED BY <1>2, <1>3, MoneySteps DEF coreVars

LEMMA SolventInit == Init => SolventOK
<1> SUFFICES ASSUME Init PROVE SolventOK
  OBVIOUS
<1>1. /\ escrow = [g \in Grant |-> Opened] /\ held = 0
      /\ \A g \in Grant : bond[g].status = "None" /\ collateral[g] = "None"
  BY DEF Init
<1>2. \A g \in Grant : Dues[g] = 0
  <2>1. Opened.balance = 0
    BY OpenedKept
  <2> HIDE DEF Opened
  <2>2. \A g \in Grant : escrow[g].balance = 0
    BY <1>1, <2>1
  <2>3. ASSUME NEW g \in Grant PROVE Dues[g] = 0
    <3>1. BondWorth(bond[g]) = 0 /\ CollateralWorth(collateral[g]) = 0
      BY <1>1 DEF BondWorth, CollateralWorth
    <3>2. Dues[g] = 0 + 0 + 0
      BY <2>2, <3>1 DEF Dues, Due
    <3> QED BY <3>2
  <2> QED BY <2>3
<1>3. IsFiniteSet(Grant) /\ Cardinality(Grant) \in Nat
  BY ProtocolAssumption, FS_CardinalityType
<1>4. Sum(Dues, Grant) = 0 * Cardinality(Grant)
  BY <1>2, <1>3, SumConstant
<1> QED BY <1>1, <1>3, <1>4, TotalOwingIs DEF SolventOK, Solvent

\* The contract can pay all it owes at any time: no completion, cancellation,
\* refund, swap, claim or forfeit of one grant spends what belongs to another
\* one, for any number of grants.  A dispute does (dispute.rs:160).
THEOREM StaysCovered ==
  ASSUME "dispute" \notin EntryPoints
  PROVE  Spec => []Solvent
<1>1. SolventOK /\ (AccountsInOrder /\ ConfigOK) /\ ControlTypeOK /\ DepositsTypeOK
        /\ [Next]_vars => SolventOK'
  BY SolventStep DEF Uses
<1>2. SolventOK => Solvent
  BY DEF SolventOK
<1> QED BY <1>1, <1>2, SolventInit, AccountsCorrect, ControlTypeCorrect, DepositsCorrect, PTL
        DEF Spec

-----------------------------------------------------------------------------
(* The types of all the rest.                                              *)

RecordsTypeOK ==
    /\ split \in [Grant -> [Index -> BOOLEAN]]
    /\ request \in [Grant -> Nat]
    /\ timer \in [Grant -> [TimerKind -> Time \cup {NoRecord}]]
    /\ dispute \in [Grant -> [Index -> Dispute]]
    /\ fees \in Int

TokensTypeOK == held \in Int /\ paid \in [Grant -> Int]

LEMMA RecordsStep ==
  ASSUME RecordsTypeOK, ConfigOK, [Next]_vars
  PROVE  RecordsTypeOK'
<1> USE DEF RecordsTypeOK
<1>1. ASSUME UNCHANGED <<split, request, timer, dispute, fees>> PROVE RecordsTypeOK'
  BY <1>1
<1>2. ASSUME NEW g \in Grant, Finalize(g) PROVE RecordsTypeOK'
  <2>1. OwnerAmount(g) \in Nat
    BY PayoutBounds
  <2>2. NumMilestones * Fee \in Int
    <3> DEFINE x == Fee
    <3>1. x \in Nat /\ NumMilestones \in Nat
      BY FeeBounds, Amounts, GrantsAssumption
    <3> HIDE DEF x
    <3>2. NumMilestones * x \in Nat
      BY <3>1, Product
    <3> QED BY <3>2 DEF x
  <2> DEFINE o == OwnerAmount(g)
             n == NumMilestones * Fee
             r == IF Deferred(g) THEN o ELSE request[g]
  <2>3. /\ request' = [request EXCEPT ![g] = r] /\ fees' = fees + n
        /\ UNCHANGED <<split, timer, dispute>>
    BY <1>2 DEF Finalize
  <2>4. r \in Nat /\ n \in Int
    BY <2>1, <2>2
  <2> HIDE DEF r, n
  <2> QED BY <2>3, <2>4
<1>3. ASSUME NEW g \in Grant, NEW i \in Index, ReviewStep(g, i) PROVE RecordsTypeOK'
  BY <1>1, <1>3 DEF ReviewStep, SubmitMilestone, DecideMilestone, moneyVars, releaseVars, sideVars
<1>4. ASSUME NEW g \in Grant, NEW f \in Funder, FundingStep(g, f) PROVE RecordsTypeOK'
  BY <1>1, <1>4 DEF FundingStep, GrantFund, FundBatch, SwapAndFund, DepositTo, RefundFunder,
                    releaseVars, sideVars
<1>5. ASSUME NEW g \in Grant, ReleaseStep(g) PROVE RecordsTypeOK'
  <2>1. CASE GrantComplete(g) \/ ExecuteProposal(g)
    BY <1>2, <2>1 DEF GrantComplete, ExecuteProposal
  <2>2. ASSUME NEW p \in Signer, SignRelease(g, p) PROVE RecordsTypeOK'
    BY <1>1, <1>2, <2>2 DEF SignRelease, sideVars
  <2>3. CASE AwaitSignatures(g)
    BY <1>1, <2>3 DEF AwaitSignatures, sideVars
  <2>4. CASE SwapAndPay(g, MilestoneAmount)
    BY <1>1, <2>4 DEF SwapAndPay, releaseVars, sideVars
  <2>5. ASSUME NEW on \in BOOLEAN, LockEscrow(g, on) PROVE RecordsTypeOK'
    BY <1>1, <2>5 DEF LockEscrow, releaseVars, sideVars
  <2> QED BY <1>5, <2>1, <2>2, <2>3, <2>4, <2>5 DEF ReleaseStep
<1>6. ASSUME NEW g \in Grant, EndStep(g) PROVE RecordsTypeOK'
  <2>1. CASE CancelGrant(g)
    BY <1>1, <2>1 DEF CancelGrant, releaseVars
  <2>2. ASSUME UNCHANGED <<split, request, dispute, fees>>, NEW t \in Time \cup {NoRecord},
               NEW kind \in TimerKind, timer' = [timer EXCEPT ![g][kind] = t]
        PROVE  RecordsTypeOK'
    BY <2>2
  <2>3. ASSUME NEW kind \in TimerKind, NEW due \in Time, RegisterTimer(g, kind, due)
        PROVE  RecordsTypeOK'
    BY <2>2, <2>3 DEF RegisterTimer, releaseVars
  <2>4. ASSUME NEW kind \in TimerKind, CancelTimer(g, kind) PROVE RecordsTypeOK'
    BY <2>2, <2>4 DEF CancelTimer, releaseVars
  <2>5. CASE TriggerTimers(g)
    <3> DEFINE t == [k \in TimerKind |-> IF k \in Eligible(g) THEN NoRecord ELSE timer[g][k]]
    <3>1. timer' = [timer EXCEPT ![g] = t] /\ UNCHANGED <<split, request, dispute, fees>>
      BY <2>5 DEF TriggerTimers, releaseVars
    <3>2. t \in [TimerKind -> Time \cup {NoRecord}]
      OBVIOUS
    <3> HIDE DEF t
    <3> QED BY <3>1, <3>2
  <2> QED BY <1>6, <2>1, <2>3, <2>4, <2>5 DEF EndStep
<1>7. ASSUME NEW g \in Grant, NEW i \in Index, DisputeStep(g, i) PROVE RecordsTypeOK'
  <2>1. ASSUME NEW d \in Dispute, SetDispute(g, i, d) PROVE RecordsTypeOK'
    BY <2>1 DEF SetDispute, releaseVars
  <2>2. dispute[g][i] \in Dispute
    OBVIOUS
  <2>3. ASSUME NEW s \in DisputeStatus PROVE [dispute[g][i] EXCEPT !.status = s] \in Dispute
    BY <2>2 DEF Dispute
  <2>4. CASE RaiseDispute(g, i) \/ AssignArbiter(g, i) \/ CancelDispute(g, i)
    BY <2>1, <2>3, <2>4 DEF RaiseDispute, AssignArbiter, CancelDispute, DisputeStatus
  <2>5. ASSUME NEW side \in {"contributor", "funder"}, ArbiterVote(g, i, side)
        PROVE  RecordsTypeOK'
    <3> DEFINE d == [dispute[g][i] EXCEPT ![side] = @ + 1]
    <3>1. d \in Dispute
      <4>1. CASE side = "contributor"
        <5>1. dispute[g][i].contributor + 1 \in 0..MaxArbiterVotes
          BY <2>2, <2>5, <4>1 DEF Dispute, ArbiterVote, MaxArbiterVotes
        <5> QED BY <2>2, <4>1, <5>1 DEF Dispute
      <4>2. CASE side = "funder"
        <5>1. dispute[g][i].funder + 1 \in 0..MaxArbiterVotes
          BY <2>2, <2>5, <4>2 DEF Dispute, ArbiterVote, MaxArbiterVotes
        <5> QED BY <2>2, <4>2, <5>1 DEF Dispute
      <4> QED BY <4>1, <4>2
    <3>2. SetDispute(g, i, d)
      BY <2>5 DEF ArbiterVote
    <3> HIDE DEF d
    <3> QED BY <2>1, <3>1, <3>2
  <2>6. ASSUME NEW side \in {"contributor", "funder"}, ResolveDispute(g, i, side)
        PROVE  RecordsTypeOK'
    <3> DEFINE s == IF side = "funder" THEN "ForFunder" ELSE "ForContributor"
    <3>1. s \in DisputeStatus
      BY DEF DisputeStatus
    <3>2. SetDispute(g, i, [dispute[g][i] EXCEPT !.status = s])
      BY <2>6 DEF ResolveDispute
    <3> HIDE DEF s
    <3> QED BY <2>1, <2>3, <3>1, <3>2
  <2> QED BY <1>7, <2>4, <2>5, <2>6 DEF DisputeStep
<1>8. ASSUME NEW g \in Grant, SideStep(g) PROVE RecordsTypeOK'
  <2>1. CASE Securing(g)
    BY <1>1, <2>1 DEF Securing, RequireBond, PostBond, ClaimBond, SetBond, RequireCollateral,
       DepositCollateral, SetCollateral, ReleaseCollateral, ForfeitCollateral, releaseVars
  <2>2. ASSUME NEW i \in Index, RegisterSplit(g, i) PROVE RecordsTypeOK'
    <3>1. [split EXCEPT ![g][i] = TRUE] \in [Grant -> [Index -> BOOLEAN]]
      OBVIOUS
    <3> QED BY <2>2, <3>1 DEF RegisterSplit, sideVars
  <2> QED BY <1>8, <2>1, <2>2 DEF SideStep, Securing
<1>9. ASSUME NEW cfg \in Configs, UpdateConfig(cfg) PROVE RecordsTypeOK'
  BY <1>1, <1>9 DEF UpdateConfig, sideVars
<1>10. ASSUME UNCHANGED moneyVars PROVE RecordsTypeOK'
  BY <1>1, <1>10 DEF moneyVars, releaseVars, sideVars
<1> HIDE DEF RecordsTypeOK
<1> QED BY <1>3, <1>4, <1>5, <1>6, <1>7, <1>8, <1>9, <1>10 DEF Next, GateStep, vars

LEMMA TokensStep ==
  ASSUME TokensTypeOK, AccountsInOrder, ConfigOK, ControlTypeOK, DepositsTypeOK, [Next]_vars
  PROVE  TokensTypeOK'
<1> USE DEF TokensTypeOK
<1>1. ASSUME UNCHANGED paid, NEW n \in Int, held' = held - n PROVE TokensTypeOK'
  BY <1>1
<1>2. ASSUME NEW n \in Int, held' = held - n, NEW g \in Grant, NEW p \in Int,
             paid' = [paid EXCEPT ![g] = @ + p]
      PROVE  TokensTypeOK'
  BY <1>2
<1>3. ASSUME NEW g \in Grant, Moving(g) PROVE TokensTypeOK'
  <2>1. Kept(escrow[g]) /\ escrow[g] \in Escrow
        /\ (status[g] = "Active" => Unexceeded(escrow[g]))
    BY DEF AccountsInOrder, Kept
  <2>2. /\ BondAmount \in Int /\ CollateralAmount \in Int /\ MilestoneAmount \in Int
        /\ Forfeited(g) \in Int
    BY Amounts, ForfeitWorth
  <2>3. CASE Depositing(g)
    <3>1. PICK amount \in Funding : held' = held + amount
      BY <2>3 DEF Depositing
    <3>2. amount \in Int
      BY Amounts
    <3>3. held' \in Int
      BY <3>1, <3>2
    <3> QED BY <2>3, <3>3 DEF Depositing
  <2>4. ASSUME NEW f \in Funder, RefundFunder(g, f) PROVE TokensTypeOK'
    BY <1>1, <2>1, <2>4, RefundAmountBounds DEF RefundFunder, Pay
  <2>5. ASSUME NEW on \in BOOLEAN, LockEscrow(g, on) PROVE TokensTypeOK'
    BY <2>5 DEF LockEscrow
  <2>6. CASE SwapAndPay(g, MilestoneAmount)
    BY <1>2, <2>2, <2>6 DEF SwapAndPay, Pay
  <2>7. CASE Finalize(g)
    <3> DEFINE p == Payout(g)
               r == RemainderPaid(g)
               b == BondReturned(g)
               c == CollateralReturned(g)
    <3>1. p \in Int /\ r \in Int
      BY <2>1, <2>7, FinalizeAccount, FinalAccountKept
    <3>2. b \in Int /\ c \in Int
      BY <2>2 DEF BondReturned, CollateralReturned
    <3>3. held' = held - (p + r + b + c) /\ paid' = [paid EXCEPT ![g] = @ + p]
      BY <2>7 DEF Finalize, Pay
    <3> HIDE DEF p, r, b, c
    <3>4. p + r + b + c \in Int
      BY <3>1, <3>2
    <3> QED BY <1>2, <3>1, <3>3, <3>4
  <2>8. CASE CancelGrant(g)
    <3>1. CancelPaid(g) \in Int
      BY <2>1, <2>8, CancelAccount, CancelledAccountKept
    <3>2. held' = held - (Forfeited(g) + CancelPaid(g)) /\ UNCHANGED paid
      BY <2>8, CancelAccount DEF CancelGrant, Pay
    <3>3. Forfeited(g) + CancelPaid(g) \in Int
      BY <2>2, <3>1
    <3> QED BY <1>1, <3>2, <3>3
  <2>9. CASE TriggerTimers(g)
    BY <2>9 DEF TriggerTimers
  <2>10. ASSUME NEW i \in Index, NEW side \in {"contributor", "funder"}, ResolveDispute(g, i, side)
         PROVE  TokensTypeOK'
    <3> DEFINE x == Disputed(g, i)
               y == IF side = "funder" THEN Forfeited(g) ELSE 0
               p == IF side = "funder" THEN 0 ELSE Disputed(g, i)
    <3>1. x \in Int /\ y \in Int /\ p \in Int
      BY <2>1, <2>2, DisputedAccountKept
    <3>2. held' = held - (x + y)
      BY <2>10 DEF ResolveDispute, Pay
    <3>3. paid' = [paid EXCEPT ![g] = IF side = "funder" THEN @ ELSE @ + Disputed(g, i)]
      BY <2>10 DEF ResolveDispute
    <3>4. paid' \in [Grant -> Int]
      BY <3>1, <3>3
    <3> HIDE DEF x, y, p
    <3>5. held' \in Int
      BY <3>1, <3>2
    <3> QED BY <3>4, <3>5
  <2>11. CASE Securing(g)
    BY <2>2, <2>11 DEF Securing, RequireBond, PostBond, ClaimBond, SetBond, RequireCollateral,
       DepositCollateral, SetCollateral, ReleaseCollateral, ForfeitCollateral, Pay
  <2> QED BY <1>3, <2>3, <2>4, <2>5, <2>6, <2>7, <2>8, <2>9, <2>10, <2>11 DEF Moving
<1>4. ASSUME UNCHANGED <<held, paid>> PROVE TokensTypeOK'
  BY <1>4
<1> QED BY <1>3, <1>4, MoneySteps DEF coreVars

\* Every record of a grant keeps the type its struct in types.rs gives it,
\* under every entry point, disputes and proposals included.
THEOREM ProtocolTypeCorrect == Spec => []ProtocolTypeOK
<1>1. Init => RecordsTypeOK /\ TokensTypeOK
  <2> SUFFICES ASSUME Init PROVE RecordsTypeOK /\ TokensTypeOK
    OBVIOUS
  <2>1. [status |-> "None", contributor |-> 0, funder |-> 0] \in Dispute
    BY DEF Dispute, DisputeStatus, MaxArbiterVotes
  <2> QED BY <2>1 DEF Init, RecordsTypeOK, TokensTypeOK
<1>2. RecordsTypeOK /\ TokensTypeOK /\ (AccountsInOrder /\ ConfigOK) /\ ControlTypeOK
        /\ DepositsTypeOK /\ [Next]_vars => (RecordsTypeOK /\ TokensTypeOK)'
  BY RecordsStep, TokensStep
<1>3. RecordsTypeOK /\ TokensTypeOK /\ (AccountsInOrder /\ ConfigOK) /\ ControlTypeOK
        /\ DepositsTypeOK /\ GatesTypeOK => ProtocolTypeOK
  BY DEF RecordsTypeOK, TokensTypeOK, AccountsInOrder, ConfigOK, ControlTypeOK, DepositsTypeOK,
         ProtocolTypeOK
<1> QED BY <1>1, <1>2, <1>3, AccountsCorrect, ControlTypeCorrect, DepositsCorrect, GatesCorrect,
           PTL DEF Spec
=============================================================================
