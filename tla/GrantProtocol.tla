--------------------------- MODULE GrantProtocol ---------------------------
(***************************************************************************)
(* The money of a grant from its creation to its end: the funding,         *)
(* completion, cancellation, multisig-release and dispute entry points of  *)
(* lib.rs, with the escrow of each grant (EscrowLedger), the fees          *)
(* (fees.rs), the splits (split_payment.rs), the timers (grant_timer.rs),  *)
(* the performance bond and the collateral, over the milestones that       *)
(* ReviewLifecycle promises and behind the gates of Gates.                 *)
(*                                                                         *)
(* All grants use one token.  The contract holds it in one balance, out of *)
(* which every escrow, fee pool, bond and deposit is paid, and a transfer  *)
(* the balance cannot cover panics and undoes the call.                    *)
(***************************************************************************)
EXTENDS ReviewLifecycle, Gates, EscrowLedger

CONSTANTS
    HighSecurity,     \* grants made by grant_create_high_security
    Signer,           \* addresses that may be multisig signers
    Signers,          \* grant -> its list of multisig signers
    Cleared,          \* grants whose owner passes the compliance and KYC gates
    EntryPoints,      \* the entry points the environment calls
    MilestoneAmount,  \* grant.milestone_amount
    Funding,          \* the amounts a funder deposits in one call
    Configs,          \* the protocol configurations an admin may store
    BondAmount, CollateralAmount, ForfeitBps, TreasurySet,
    BondTerm,         \* the time a required bond is open
    MaxDeposited      \* bound: what a grant may receive in deposits

AllEntryPoints ==
    {"gates", "swap_and_fund", "swap_and_pay", "refund_funder", "lock",
     "proposal", "config", "split", "timer", "dispute", "bond", "collateral",
     "collateral_entries", "cancel", "clock"}

ASSUME ProtocolAssumption ==
    /\ IsFiniteSet(Grant)
    /\ HighSecurity \subseteq Grant
    /\ Signers \in [HighSecurity -> Seq(Signer)]
    /\ \A g \in HighSecurity : Signers[g] # <<>>
    /\ MilestoneAmount \in Nat \ {0}
    /\ Funding \subseteq Nat \ {0}
    /\ EntryPoints \subseteq AllEntryPoints
    /\ {BondAmount, CollateralAmount} \subseteq Nat \ {0}
    /\ BondTerm \in Nat
    /\ ForfeitBps \in 0..10000
    /\ TreasurySet \in BOOLEAN

\* config.rs validate_config(): a fee of at most a tenth.
ASSUME ConfigAssumption ==
    \A cfg \in Configs : cfg.stored /\ cfg.feeBps \in 0..1000 /\ cfg.threshold \in Nat

VARIABLES
    escrow,        \* grant -> its escrow account (EscrowLedger)
    lifecycle,     \* grant -> EscrowState.lifecycle
    quorumReady,   \* grant -> EscrowState.quorum_ready
    signed,        \* grant -> the signers with a release approval
    split,         \* grant -> idx -> a payment split is registered
    request,       \* grant -> the amount of its EscrowReleaseRequest, 0 if none
    timer,         \* grant -> kind -> the due time of its timer, or NoRecord
    dispute,       \* grant -> idx -> the Dispute
    bond,          \* grant -> the PerformanceBond
    collateral,    \* grant -> the status of its CollateralDeposit
    config,        \* the stored ProtocolConfig, or the default one
    held,          \* the contract's balance of the token
    fees,          \* what the fee pools and the treasury are credited with
    paid           \* history: grant -> what went to recipients, not to funders

releaseVars == <<lifecycle, quorumReady, signed, split, request, config, fees>>
sideVars == <<timer, dispute, bond, collateral>>
moneyVars == <<escrow, held, paid, releaseVars, sideVars>>
vars == <<gateVars, lifecycleVars, moneyVars>>

\* config.rs default_config(): used wherever no configuration is stored.
DefaultConfig == [stored |-> FALSE, feeBps |-> 100, threshold |-> 0]

Lifecycle == {"Funding", "AwaitingMultisig", "Released"}
\* The other three kinds do nothing when they fire (grant_timer.rs:192-200).
TimerKind == {"AutoExpire", "AutoCancel"}
DisputeStatus == {"None", "Open", "UnderReview", "ForContributor", "ForFunder", "Cancelled"}
BondStatus == {"None", "Pending", "Active", "Released", "Claimed"}
CollateralStatus == {"None", "Required", "Deposited", "Released", "Forfeited", "Partial"}

\* Bound on the votes counted either way: enough for both outcomes and a tie.
MaxArbiterVotes == 1

Dispute == [status : DisputeStatus, contributor : 0..MaxArbiterVotes, funder : 0..MaxArbiterVotes]
Bond == [status : BondStatus, expires : Nat]

\* Every stored record of a grant has the type its struct in types.rs gives it.
ProtocolTypeOK ==
    /\ LifecycleTypeOK
    /\ GatesTypeOK
    /\ escrow \in [Grant -> Escrow]
    /\ lifecycle \in [Grant -> Lifecycle]
    /\ quorumReady \in [Grant -> BOOLEAN]
    /\ signed \in [Grant -> SUBSET Signer]
    /\ split \in [Grant -> [Index -> BOOLEAN]]
    /\ request \in [Grant -> Nat]
    /\ timer \in [Grant -> [TimerKind -> Time \cup {NoRecord}]]
    /\ dispute \in [Grant -> [Index -> Dispute]]
    /\ bond \in [Grant -> Bond]
    /\ collateral \in [Grant -> CollateralStatus]
    /\ config \in Configs \cup {DefaultConfig}
    /\ held \in Int /\ fees \in Int
    /\ paid \in [Grant -> Int]

\* grant_create and grant_create_high_security ran for every grant.
Init ==
    /\ LifecycleInit
    /\ GatesInit
    /\ escrow = [g \in Grant |-> Opened]
    /\ lifecycle = [g \in Grant |-> "Funding"]
    /\ quorumReady = [g \in Grant |-> FALSE]
    /\ signed = [g \in Grant |-> {}]
    /\ split = [g \in Grant |-> [i \in Index |-> FALSE]]
    /\ request = [g \in Grant |-> 0]
    /\ timer = [g \in Grant |-> [k \in TimerKind |-> NoRecord]]
    /\ dispute = [g \in Grant |-> [i \in Index |->
                     [status |-> "None", contributor |-> 0, funder |-> 0]]]
    /\ bond = [g \in Grant |-> [status |-> "None", expires |-> 0]]
    /\ collateral = [g \in Grant |-> "None"]
    /\ config = DefaultConfig
    /\ held = 0
    /\ fees = 0
    /\ paid = [g \in Grant |-> 0]

Uses(e) == e \in EntryPoints

-----------------------------------------------------------------------------
(* Review, as ReviewLifecycle promises it.                                 *)

\* milestone_submit and milestone_submit_batch ask for the bond and the
\* collateral a grant requires.
SubmitMilestone(g, i) ==
    /\ ~paused
    /\ ~GrantPaused(g)
    /\ bond[g].status # "Pending"
    /\ collateral[g] \in {"None", "Deposited"}
    /\ Submit(g, i)
    /\ UNCHANGED <<gateVars, moneyVars>>

DecideMilestone(g, i, outcome) ==
    /\ Decide(g, i, outcome)
    /\ UNCHANGED <<gateVars, moneyVars>>

-----------------------------------------------------------------------------
(* Funding and refunds.                                                    *)

Pay(amount) == held >= amount /\ held' = held - amount

DepositTo(g, f, amount) ==
    /\ escrow[g].deposited + amount <= MaxDeposited
    /\ escrow' = [escrow EXCEPT ![g] = Deposit(@, f, amount)]
    /\ held' = held + amount
    /\ UNCHANGED <<gateVars, lifecycleVars, paid, releaseVars, sideVars>>

GrantFund(g, f, amount) ==
    /\ GrantsGateOpen
    /\ status[g] = "Active"
    /\ DepositTo(g, f, amount)

\* fund_batch asks no gate; a batch is as many of these steps in a row.
FundBatch(g, f, amount) ==
    /\ status[g] = "Active"
    /\ DepositTo(g, f, amount)

\* swap_and_fund with the grant's own token: the status is not looked at.
SwapAndFund(g, f, amount) ==
    /\ ~paused
    /\ DepositTo(g, f, amount)

\* refund_funder, once the grant is over
RefundFunder(g, f) ==
    /\ status[g] # "Active"
    /\ CanRefund(escrow[g], f)
    /\ Pay(RefundAmount(escrow[g], f))
    /\ escrow' = [escrow EXCEPT ![g] = Refund(@, f)]
    /\ UNCHANGED <<gateVars, lifecycleVars, paid, releaseVars, sideVars>>

\* lock_escrow and unlock_escrow by the admin
LockEscrow(g, on) ==
    /\ escrow' = [escrow EXCEPT ![g] = SetLock(@, on)]
    /\ UNCHANGED <<gateVars, lifecycleVars, held, paid, releaseVars, sideVars>>

\* swap_and_pay with the grant's own token is a release to the recipient named.
SwapAndPay(g, amount) ==
    /\ ~paused
    /\ CanRelease(escrow[g], amount)
    /\ Pay(amount)
    /\ escrow' = [escrow EXCEPT ![g] = Release(@, amount)]
    /\ paid' = [paid EXCEPT ![g] = @ + amount]
    /\ UNCHANGED <<gateVars, lifecycleVars, releaseVars, sideVars>>

-----------------------------------------------------------------------------
(* Completion.                                                             *)

Total == NumMilestones * MilestoneAmount

\* fees.rs: the fee of one milestone, and what is left of its amount.
Fee == (MilestoneAmount * config.feeBps) \div 10000

\* Mutation of NetAmount: the fee comes on top.
GrossAmount == MilestoneAmount + Fee

NetAmount == MilestoneAmount - Fee

SplitMilestones(g) == {i \in Index : split[g][i]}

OwnerAmount(g) == Cardinality(Index \ SplitMilestones(g)) * NetAmount

\* The owner's part waits for multisig approvals and is not paid out.
Deferred(g) ==
    config.threshold > 0 /\ OwnerAmount(g) > 0 /\ OwnerAmount(g) >= config.threshold

Payout(g) ==
    Cardinality(SplitMilestones(g)) * NetAmount
        + IF Deferred(g) THEN 0 ELSE OwnerAmount(g)

\* The account once the payout was released: the fee is not taken out of it.
AfterPayout(g) == IF Payout(g) > 0 THEN Release(escrow[g], Payout(g)) ELSE escrow[g]

Remainder(g) == escrow[g].mirror - Total

AfterRemainder(g) == IF Remainder(g) > 0 THEN RefundAll(AfterPayout(g)) ELSE AfterPayout(g)

RemainderPaid(g) == IF Remainder(g) > 0 THEN TotalPaid(AfterPayout(g)) ELSE 0

BondReturned(g) == IF bond[g].status = "Active" THEN BondAmount ELSE 0
CollateralReturned(g) == IF collateral[g] = "Deposited" THEN CollateralAmount ELSE 0

\* performance_bond::release_bond and collateral::release
AfterBondRelease(g) ==
    [bond EXCEPT ![g].status = IF @ = "Active" THEN "Released" ELSE @]

\* Mutation of AfterCollateralRelease: it is released beside a bond only.
AfterBondedRelease(g) ==
    [collateral EXCEPT ![g] =
        IF @ = "Deposited" /\ bond[g].status = "Active" THEN "Released" ELSE @]

AfterCollateralRelease(g) ==
    [collateral EXCEPT ![g] = IF @ = "Deposited" THEN "Released" ELSE @]

\* finalize_grant_release.  The owner's part makes it read the stored
\* configuration and unwrap it, though the fee falls back to the default one.
\* A bond that is not Active fails the call; a collateral deposit that cannot
\* be released does not.
Finalize(g) ==
    /\ status[g] = "Active"
    /\ ~GrantPaused(g)
    /\ g \in Cleared
    /\ AllApproved(g)
    /\ escrow[g].mirror >= Total
    /\ OwnerAmount(g) > 0 => config.stored
    /\ Payout(g) > 0 => CanRelease(escrow[g], Payout(g))
    /\ bond[g].status \in {"None", "Active"}
    /\ Pay(Payout(g) + RemainderPaid(g) + BondReturned(g) + CollateralReturned(g))
    /\ status' = [status EXCEPT ![g] = "Completed"]
    /\ escrow' = [escrow EXCEPT ![g] = [AfterRemainder(g) EXCEPT !.mirror = 0]]
    /\ lifecycle' = [lifecycle EXCEPT ![g] = "Released"]
    /\ quorumReady' = [quorumReady EXCEPT ![g] = TRUE]
    /\ request' = [request EXCEPT ![g] = IF Deferred(g) THEN OwnerAmount(g) ELSE @]
    /\ fees' = fees + NumMilestones * Fee
    /\ paid' = [paid EXCEPT ![g] = @ + Payout(g)]
    /\ bond' = AfterBondRelease(g)
    /\ collateral' = AfterCollateralRelease(g)
    /\ UNCHANGED <<gateVars, stage, split, config, timer, dispute>>

\* Mutation of GrantComplete: it waits for signatures on every grant.
GrantCompleteSigned(g) ==
    /\ g \notin HighSecurity
    /\ lifecycle[g] = "AwaitingMultisig"
    /\ Finalize(g)
    /\ UNCHANGED signed

\* grant_complete, by anybody
GrantComplete(g) ==
    /\ g \notin HighSecurity
    /\ lifecycle[g] # "Released"
    /\ Finalize(g)
    /\ UNCHANGED signed

\* On a high security grant grant_complete records that the quorum is there and
\* leaves the release to the signature that completes the list.
AwaitSignatures(g) ==
    /\ g \in HighSecurity
    /\ status[g] = "Active"
    /\ lifecycle[g] # "Released"
    /\ AllApproved(g)
    /\ quorumReady' = [quorumReady EXCEPT ![g] = TRUE]
    /\ lifecycle' = [lifecycle EXCEPT ![g] = "AwaitingMultisig"]
    /\ UNCHANGED <<gateVars, lifecycleVars, escrow, held, paid, signed, split,
                   request, config, fees, sideVars>>

\* sign_release counts one approval for each signer and compares the count with
\* the length of the list, in which a signer may stand twice.
CanSign(g, p) ==
    /\ g \in HighSecurity
    /\ status[g] = "Active"
    /\ lifecycle[g] # "Released"
    /\ \E k \in DOMAIN Signers[g] : Signers[g][k] = p
    /\ p \notin signed[g]

\* Mutation of Completes: one signature short.
CompletesEarly(g, p) == Cardinality(signed[g] \cup {p}) + 1 >= Len(Signers[g])

Completes(g, p) == Cardinality(signed[g] \cup {p}) >= Len(Signers[g])

SignRelease(g, p) ==
    /\ CanSign(g, p)
    /\ signed' = [signed EXCEPT ![g] = @ \cup {p}]
    /\ \/ Completes(g, p) /\ quorumReady[g] /\ Finalize(g)
       \/ /\ ~(Completes(g, p) /\ quorumReady[g])
          /\ lifecycle' = [lifecycle EXCEPT ![g] =
                              IF Completes(g, p) THEN "AwaitingMultisig" ELSE @]
          /\ UNCHANGED <<gateVars, lifecycleVars, escrow, held, paid, quorumReady,
                         split, request, config, fees, sideVars>>

\* execute_multisig_proposal with a GrantWithdraw payload: a proposal lists its
\* own signers and threshold and may name any grant, so one that is ready can
\* exist at any time (multisig.rs).
ExecuteProposal(g) == Finalize(g) /\ UNCHANGED signed

-----------------------------------------------------------------------------
(* Cancellation: cancel_grant by the owner or the admin, and the timers.   *)

\* collateral.rs forfeit(): the part that goes to the treasury.  With no
\* treasury the call fails, and every caller ignores that it does.
ForfeitAmount == (CollateralAmount * ForfeitBps) \div 10000

Forfeits(g) == collateral[g] = "Deposited" /\ (ForfeitAmount = 0 \/ TreasurySet)

AfterForfeit(g) ==
    IF ~Forfeits(g) THEN collateral
    ELSE [collateral EXCEPT ![g] =
             IF ForfeitAmount >= CollateralAmount THEN "Forfeited" ELSE "Partial"]

Forfeited(g) == IF Forfeits(g) THEN ForfeitAmount ELSE 0

\* cancel_grant asks no gate and goes by the mirror, not by the account.
CancelGrant(g) ==
    LET refunds == escrow[g].mirror > 0 IN
    /\ status[g] = "Active"
    /\ Pay(Forfeited(g) + IF refunds THEN TotalPaid(escrow[g]) ELSE 0)
    /\ collateral' = AfterForfeit(g)
    /\ escrow' = [escrow EXCEPT ![g] =
                     [(IF refunds THEN RefundAll(@) ELSE @) EXCEPT !.mirror = 0]]
    /\ status' = [status EXCEPT ![g] = "Cancelled"]
    /\ UNCHANGED <<gateVars, stage, paid, releaseVars, timer, dispute, bond>>

\* register_timer by the owner or the admin: one unfired timer of each kind.
RegisterTimer(g, kind, due) ==
    /\ timer[g][kind] = NoRecord
    /\ timer' = [timer EXCEPT ![g][kind] = due]
    /\ UNCHANGED <<gateVars, lifecycleVars, escrow, held, paid, releaseVars,
                   dispute, bond, collateral>>

CancelTimer(g, kind) ==
    /\ timer[g][kind] # NoRecord
    /\ timer' = [timer EXCEPT ![g][kind] = NoRecord]
    /\ UNCHANGED <<gateVars, lifecycleVars, escrow, held, paid, releaseVars,
                   dispute, bond, collateral>>

\* Mutation of Eligible: the status of the grant is not looked at.
EligibleWhenDue(g) ==
    {k \in TimerKind :
        /\ timer[g][k] # NoRecord
        /\ now >= timer[g][k]
        /\ k = "AutoCancel" => escrow[g].mirror = 0}

Eligible(g) ==
    {k \in TimerKind :
        /\ timer[g][k] # NoRecord
        /\ now >= timer[g][k]
        /\ status[g] = "Active"
        /\ k = "AutoCancel" => escrow[g].mirror = 0}

\* trigger_timers fires all that are eligible in one call.  Either kind writes
\* the status and nothing else: no refund, no forfeit.
TriggerTimers(g) ==
    /\ Eligible(g) # {}
    /\ timer' = [timer EXCEPT ![g] =
                    [k \in TimerKind |-> IF k \in Eligible(g) THEN NoRecord ELSE @[k]]]
    /\ status' = [status EXCEPT ![g] = "Cancelled"]
    /\ UNCHANGED <<gateVars, stage, escrow, held, paid, releaseVars, dispute,
                   bond, collateral>>

-----------------------------------------------------------------------------
(* Disputes (dispute.rs).  None of the steps asks whether the grant is      *)
(* Active or its escrow locked.                                            *)

SetDispute(g, i, d) ==
    /\ dispute' = [dispute EXCEPT ![g][i] = d]
    /\ UNCHANGED <<gateVars, lifecycleVars, releaseVars, timer, bond>>

\* raise_dispute: one dispute for a milestone, ever.
RaiseDispute(g, i) ==
    /\ ~paused
    /\ dispute[g][i].status = "None"
    /\ SetDispute(g, i, [dispute[g][i] EXCEPT !.status = "Open"])
    /\ UNCHANGED <<escrow, held, paid, collateral>>

AssignArbiter(g, i) ==
    /\ dispute[g][i].status = "Open"
    /\ SetDispute(g, i, [dispute[g][i] EXCEPT !.status = "UnderReview"])
    /\ UNCHANGED <<escrow, held, paid, collateral>>

\* arbiter_vote does not remember who voted.
ArbiterVote(g, i, side) ==
    /\ dispute[g][i].status = "UnderReview"
    /\ dispute[g][i][side] < MaxArbiterVotes
    /\ SetDispute(g, i, [dispute[g][i] EXCEPT ![side] = @ + 1])
    /\ UNCHANGED <<escrow, held, paid, collateral>>

CancelDispute(g, i) ==
    /\ dispute[g][i].status \in {"Open", "UnderReview"}
    /\ SetDispute(g, i, [dispute[g][i] EXCEPT !.status = "Cancelled"])
    /\ UNCHANGED <<escrow, held, paid, collateral>>

\* Mutation of Disputed: the mirror is not looked at.
DisputedInFull(g, i) == IF stage[g][i] # "Absent" THEN MilestoneAmount ELSE 0

\* What resolve_dispute moves: the amount of a milestone that exists, when the
\* mirror says that it is there.
Disputed(g, i) ==
    IF stage[g][i] # "Absent" /\ escrow[g].mirror >= MilestoneAmount
    THEN MilestoneAmount ELSE 0

\* The tokens leave past the escrow account: only the mirror is told.
ResolveDispute(g, i, side) ==
    LET d == dispute[g][i]
        lost == side = "funder"
    IN /\ d.status = "UnderReview"
       /\ d[side] >= (d.contributor + d.funder) \div 2 + 1
       /\ Pay(Disputed(g, i) + IF lost THEN Forfeited(g) ELSE 0)
       /\ escrow' = [escrow EXCEPT ![g].mirror = @ - Disputed(g, i)]
       /\ paid' = [paid EXCEPT ![g] = IF lost THEN @ ELSE @ + Disputed(g, i)]
       /\ collateral' = IF lost THEN AfterForfeit(g) ELSE collateral
       /\ SetDispute(g, i, [d EXCEPT !.status =
                               IF lost THEN "ForFunder" ELSE "ForContributor"])

-----------------------------------------------------------------------------
(* Performance bond, collateral, payment splits and configuration.         *)

SetBond(g, b) ==
    /\ bond' = [bond EXCEPT ![g] = b]
    /\ UNCHANGED <<gateVars, lifecycleVars, escrow, paid, releaseVars, timer,
                   dispute, collateral>>

RequireBond(g) ==
    /\ bond[g].status = "None"
    /\ SetBond(g, [status |-> "Pending", expires |-> now + BondTerm])
    /\ UNCHANGED held

PostBond(g) ==
    /\ bond[g].status = "Pending"
    /\ now <= bond[g].expires
    /\ SetBond(g, [bond[g] EXCEPT !.status = "Active"])
    /\ held' = held + BondAmount

\* Mutation of ClaimBond: a bond nobody posted can be claimed.
ClaimUnposted(g) ==
    /\ escrow[g].funders # <<>>
    /\ bond[g].status \in {"Pending", "Active"}
    /\ now > bond[g].expires \/ status[g] = "Cancelled"
    /\ SetBond(g, [bond[g] EXCEPT !.status = "Claimed"])
    /\ Pay(BondAmount)

\* claim_bond by any funder, whoever else funded
ClaimBond(g) ==
    /\ escrow[g].funders # <<>>
    /\ bond[g].status = "Active"
    /\ now > bond[g].expires \/ status[g] = "Cancelled"
    /\ SetBond(g, [bond[g] EXCEPT !.status = "Claimed"])
    /\ Pay(BondAmount)

SetCollateral(g, s) ==
    /\ collateral' = [collateral EXCEPT ![g] = s]
    /\ UNCHANGED <<gateVars, lifecycleVars, escrow, paid, releaseVars, timer,
                   dispute, bond>>

RequireCollateral(g) ==
    /\ collateral[g] = "None"
    /\ SetCollateral(g, "Required")
    /\ UNCHANGED held

DepositCollateral(g) ==
    /\ collateral[g] = "Required"
    /\ SetCollateral(g, "Deposited")
    /\ held' = held + CollateralAmount

\* collateral_release and collateral_forfeit, the entry points: neither looks at
\* the grant, and the part forfeited is the caller's choice.
ReleaseCollateral(g) ==
    /\ collateral[g] = "Deposited"
    /\ SetCollateral(g, "Released")
    /\ Pay(CollateralAmount)

ForfeitCollateral(g) ==
    /\ Forfeits(g)
    /\ Pay(Forfeited(g))
    /\ collateral' = AfterForfeit(g)
    /\ UNCHANGED <<gateVars, lifecycleVars, escrow, paid, releaseVars, timer,
                   dispute, bond>>

\* register_split by the owner, at any time
RegisterSplit(g, i) ==
    /\ split' = [split EXCEPT ![g][i] = TRUE]
    /\ UNCHANGED <<gateVars, lifecycleVars, escrow, held, paid, lifecycle,
                   quorumReady, signed, request, config, fees, sideVars>>

UpdateConfig(cfg) ==
    /\ config' = cfg
    /\ UNCHANGED <<gateVars, lifecycleVars, escrow, held, paid, lifecycle,
                   quorumReady, signed, split, request, fees, sideVars>>

-----------------------------------------------------------------------------

GateStep == GatesNext /\ UNCHANGED <<lifecycleVars, moneyVars>>

ReviewStep(g, i) ==
    \/ SubmitMilestone(g, i)
    \/ \E outcome \in {"Approved", "Rejected"} : DecideMilestone(g, i, outcome)

FundingStep(g, f) ==
    \/ \E amount \in Funding :
          \/ GrantFund(g, f, amount)
          \/ FundBatch(g, f, amount)
          \/ Uses("swap_and_fund") /\ SwapAndFund(g, f, amount)
    \/ Uses("refund_funder") /\ RefundFunder(g, f)

ReleaseStep(g) ==
    \/ GrantComplete(g)
    \/ AwaitSignatures(g)
    \/ \E p \in Signer : SignRelease(g, p)
    \/ Uses("proposal") /\ ExecuteProposal(g)
    \/ Uses("swap_and_pay") /\ SwapAndPay(g, MilestoneAmount)
    \/ Uses("lock") /\ \E on \in BOOLEAN : LockEscrow(g, on)

EndStep(g) ==
    \/ Uses("cancel") /\ CancelGrant(g)
    \/ Uses("timer") /\ \/ TriggerTimers(g)
                        \/ \E kind \in TimerKind :
                              \/ \E due \in Time : RegisterTimer(g, kind, due)
                              \/ CancelTimer(g, kind)

DisputeStep(g, i) ==
    \/ RaiseDispute(g, i)
    \/ AssignArbiter(g, i)
    \/ CancelDispute(g, i)
    \/ \E side \in {"contributor", "funder"} :
          ArbiterVote(g, i, side) \/ ResolveDispute(g, i, side)

SideStep(g) ==
    \/ Uses("bond") /\ (RequireBond(g) \/ PostBond(g) \/ ClaimBond(g))
    \/ Uses("collateral") /\ (RequireCollateral(g) \/ DepositCollateral(g))
    \/ Uses("collateral_entries") /\ (ReleaseCollateral(g) \/ ForfeitCollateral(g))
    \/ Uses("split") /\ \E i \in Index : RegisterSplit(g, i)

Next ==
    \/ \E g \in Grant :
          \/ \E i \in Index : ReviewStep(g, i)
          \/ \E f \in Funder : FundingStep(g, f)
          \/ ReleaseStep(g)
          \/ EndStep(g)
          \/ Uses("dispute") /\ \E i \in Index : DisputeStep(g, i)
          \/ SideStep(g)
    \/ Uses("config") /\ \E cfg \in Configs : UpdateConfig(cfg)
    \/ Uses("gates") /\ GateStep
    \/ Uses("clock") /\ Tick /\ UNCHANGED <<lifecycleVars, moneyVars>>

Spec == Init /\ [][Next]_vars

\* Anybody may call grant_complete, and the signers of a grant want it paid:
\* each of these calls is made sooner or later when it would go through.
CallersFair ==
    \A g \in Grant :
        /\ WF_vars(GrantComplete(g))
        /\ WF_vars(AwaitSignatures(g))
        /\ \A p \in Signer : WF_vars(SignRelease(g, p))

\* The admin stores a configuration sooner or later; nothing makes him.
AdminFair == WF_vars(~config.stored /\ \E cfg \in Configs : UpdateConfig(cfg))

FairSpec == Spec /\ CallersFair /\ AdminFair

-----------------------------------------------------------------------------
(* Safety.                                                                 *)

\* What the contract owes for a grant: the escrow balance, a posted bond and
\* the collateral that was not forfeited.
Owing(g) ==
    escrow[g].balance
        + BondReturned(g)
        + CASE collateral[g] = "Deposited" -> CollateralAmount
            [] collateral[g] = "Partial"   -> CollateralAmount - ForfeitAmount
            [] OTHER -> 0

TotalOwing == SumFunction([g \in Grant |-> Owing(g)])

\* The one token balance of the contract covers what it owes for every grant
\* at once: no payout, refund, bond or deposit of one grant is paid out of
\* the money of another one.
Solvent == held >= TotalOwing

\* cancel_grant and grant_complete decide by the mirror in the Grant record
\* while the tokens follow the escrow account: as long as the grant is open
\* the two are the same.
OpenMirrorAgrees ==
    \A g \in Grant : status[g] = "Active" => escrow[g].mirror = escrow[g].balance

\* A completed grant has all its milestones approved, now and not only when it
\* was completed, and its escrow state says so; only completion releases it.
CompletedMeansApproved ==
    \A g \in Grant :
        /\ status[g] = "Completed" => AllApproved(g) /\ quorumReady[g]
        /\ status[g] = "Completed" <=> lifecycle[g] = "Released"

\* A high security grant is paid out over the approvals of all its signers.
SignedBeforeRelease ==
    \A g \in HighSecurity :
        status[g] = "Completed" =>
            \A k \in DOMAIN Signers[g] : Signers[g][k] \in signed[g]

\* ARCHITECTURE.md:114 "The contract never releases tokens without a valid
\* quorum approval": recipients are paid once, on completion, for approved
\* milestones, and no more than these are worth.
PaidForApprovedWork ==
    \A g \in Grant :
        paid[g] # 0 =>
            status[g] = "Completed" /\ AllApproved(g) /\ paid[g] \in 0..Total

\* THREAT_MODEL.md:68 "First call sets `status = Cancelled` and refunds all
\* funders": the tokens do not stay behind a grant that is called off.
CancelRefunds ==
    [][\A g \in Grant :
          status[g] = "Active" /\ status'[g] = "Cancelled" =>
              escrow'[g].balance = 0]_vars

\* collateral.rs:75 "Release collateral back to contributor on grant
\* completion": the call that completes a grant gives back the bond and
\* whatever is left of the collateral.
CompletionReturnsDeposits ==
    [][\A g \in Grant :
          status[g] # "Completed" /\ status'[g] = "Completed" =>
              /\ bond'[g].status \in {"None", "Released"}
              /\ collateral'[g] \notin {"Deposited", "Partial"}]_vars

-----------------------------------------------------------------------------
(* Liveness.                                                               *)

\* lib.rs:387 "Mark a grant as completed when all milestones are approved": a
\* grant that is approved, funded and signed for does not stay open forever.
Ready(g) == AllApproved(g) /\ escrow[g].mirror >= Total

ReadyGrantsEnd == \A g \in Grant : Ready(g) ~> status[g] # "Active"

=============================================================================
