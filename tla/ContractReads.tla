------------------------------ MODULE ContractReads ------------------------------
(***************************************************************************)
(* The frontend's contract client: its views, which are simulated and kept *)
(* for a while; and what a funding needs first, an allowance of the token  *)
(* to the contract, or the balance when the token is the native one.       *)
(* A view's answer is told by the moment it was read; time is in steps.    *)
(***************************************************************************)
EXTENDS Integers, FiniteSetsExt

CONSTANTS ViewCall,      \* simulations that can be under way together
          Funding,       \* fundings that can be under way together
          Needs,         \* amounts that are funded
          ViewTtl,       \* VIEW_TTL_MS
          Allowed,       \* steps an allowance lasts
          BaseReserve, FeeBuffer,
          Balance,       \* what the funder has of each token
          MaxClock,      \* bound: steps of time
          MaxReadFaults  \* bound: requests that fail

ASSUME ContractReadsAssumption ==
    /\ {ViewTtl, Allowed, BaseReserve, FeeBuffer, Balance, MaxClock, MaxReadFaults} \subseteq Nat
    /\ Needs \subseteq Nat

NotKept == [read |-> -1, until |-> -1]
NoView == [at |-> "idle", read |-> -1]
NoFunding == [at |-> "idle", token |-> "asset", need |-> 0, alone |-> TRUE]

VARIABLES
    clock,
    viewEntry,   \* the cache's entry: when its answer was read, expiresAt
    views,       \* each simulation: idle, asked or read, and when it read
    servedView,  \* history: the answer served last: how old it was, and how long it took to come
    allowance,   \* what the contract may take of the asset: amount, expiration ledger
    funds,       \* what the funder has of each token
    fundings,    \* each funding: idle, checking, approving or ready; its token and amount;
                 \* alone: no other funding was under way since it began
    failed,      \* history: a funding that was alone had no allowance, or left no reserve
    readFaults

readsVars == <<clock, viewEntry, views, servedView, allowance, funds, fundings, failed, readFaults>>

-----------------------------------------------------------------------------
(* Views *)

\* An entry serves until its time has passed.
TtlGet == IF clock > viewEntry.until THEN NotKept ELSE viewEntry
Serve(read, took) == servedView' = [age |-> clock - read, took |-> took]

SimulateView(v) ==
    /\ views[v].at = "idle"
    /\ IF TtlGet # NotKept
       THEN /\ Serve(TtlGet.read, TtlGet.until - ViewTtl - TtlGet.read)
            /\ UNCHANGED views
       ELSE views' = [views EXCEPT ![v].at = "asked"] /\ UNCHANGED servedView
    /\ UNCHANGED <<clock, viewEntry, allowance, funds, fundings, failed, readFaults>>
ReadView(v) ==
    /\ views[v].at = "asked"
    /\ views' = [views EXCEPT ![v] = [at |-> "read", read |-> clock]]
    /\ UNCHANGED <<clock, viewEntry, servedView, allowance, funds, fundings, failed, readFaults>>
KeepView(v) ==
    /\ views[v].at = "read"
    /\ viewEntry' = [read |-> views[v].read, until |-> clock + ViewTtl]
    /\ Serve(views[v].read, clock - views[v].read)
    /\ views' = [views EXCEPT ![v] = NoView]
    /\ UNCHANGED <<clock, allowance, funds, fundings, failed, readFaults>>
\* An error is thrown, and nothing is kept.
ViewFails(v) ==
    /\ views[v].at = "asked" /\ readFaults < MaxReadFaults
    /\ readFaults' = readFaults + 1
    /\ views' = [views EXCEPT ![v] = NoView]
    /\ UNCHANGED <<clock, viewEntry, servedView, allowance, funds, fundings, failed>>

-----------------------------------------------------------------------------
(* Funding *)

Allowance == IF clock > allowance.until THEN 0 ELSE allowance.amount
ComputeRequiredBalance(amount) == amount + FeeBuffer + BaseReserve

BeginFunding(f, token, need) ==
    /\ fundings[f].at = "idle"
    /\ fundings' = [g \in Funding |->
          IF g # f THEN [fundings[g] EXCEPT !.alone = FALSE]
          ELSE [at |-> "checking", token |-> token, need |-> need,
                alone |-> \A h \in Funding \ {f} : fundings[h].at = "idle"]]
    /\ UNCHANGED <<clock, viewEntry, views, servedView, allowance, funds, failed, readFaults>>
IsNative(f) == fundings[f].token = "native"
\* An allowance that cannot be read is 0, and so one is approved.
EnsureAllowance(f) ==
    /\ fundings[f].at = "checking" /\ ~IsNative(f)
    /\ \E read \in {Allowance} \cup (IF readFaults < MaxReadFaults THEN {0} ELSE {}) :
          /\ readFaults' = IF read = Allowance THEN readFaults ELSE readFaults + 1
          /\ fundings' = [fundings EXCEPT ![f].at =
                             IF read >= fundings[f].need THEN "ready" ELSE "approving"]
    /\ UNCHANGED <<clock, viewEntry, views, servedView, allowance, funds, failed>>
\* Approved without asking what is allowed.
ApproveToken(f) ==
    /\ fundings[f].at = "checking" /\ ~IsNative(f) /\ fundings[f].need > 0
    /\ fundings' = [fundings EXCEPT ![f].at = "approving"]
    /\ UNCHANGED <<clock, viewEntry, views, servedView, allowance, funds, failed, readFaults>>
\* approve() sets the allowance, it does not add to it.
SetAllowance(f) ==
    /\ fundings[f].at = "approving"
    /\ allowance' = [amount |-> fundings[f].need, until |-> clock + Allowed]
    /\ fundings' = [fundings EXCEPT ![f].at = "ready"]
    /\ UNCHANGED <<clock, viewEntry, views, servedView, funds, failed, readFaults>>
\* The native token needs no allowance but a balance that leaves the reserve and the
\* fee; one that cannot be read is 0.
CheckXlmSufficiency(f) ==
    /\ fundings[f].at = "checking" /\ IsNative(f)
    /\ \E read \in {funds["native"]} \cup (IF readFaults < MaxReadFaults THEN {0} ELSE {}) :
          /\ readFaults' = IF read = funds["native"] THEN readFaults ELSE readFaults + 1
          /\ fundings' = [fundings EXCEPT ![f] =
                IF read >= ComputeRequiredBalance(fundings[f].need)
                THEN [fundings[f] EXCEPT !.at = "ready"] ELSE NoFunding]
    /\ UNCHANGED <<clock, viewEntry, views, servedView, allowance, funds, failed>>

ReadDone(f, wrong) ==
    /\ failed' = (failed \/ (fundings[f].alone /\ wrong))
    /\ fundings' = [fundings EXCEPT ![f] = NoFunding]
    /\ UNCHANGED <<clock, viewEntry, views, servedView, readFaults>>
\* grant_fund() of an asset takes from the allowance.
GrantFund(f) ==
    LET need == fundings[f].need allowed == Allowance >= need IN
    /\ fundings[f].at = "ready" /\ ~IsNative(f)
    /\ IF allowed /\ funds["asset"] >= need
       THEN /\ funds' = [funds EXCEPT !["asset"] = @ - need]
            /\ allowance' = [allowance EXCEPT !.amount = @ - need]
       ELSE UNCHANGED <<funds, allowance>>
    /\ ReadDone(f, ~allowed /\ clock <= allowance.until)
\* With the native token one transaction approves and funds: both happen, or neither,
\* and of what was approved nothing is left.
BuildNativeXlmFund(f) ==
    LET need == fundings[f].need IN
    /\ fundings[f].at = "ready" /\ IsNative(f)
    /\ IF funds["native"] >= need + FeeBuffer
       THEN funds' = [funds EXCEPT !["native"] = @ - need - FeeBuffer]
       ELSE UNCHANGED funds
    /\ ReadDone(f, funds'["native"] < BaseReserve)
    /\ UNCHANGED allowance

-----------------------------------------------------------------------------

Minute == /\ clock < MaxClock /\ clock' = clock + 1
          /\ UNCHANGED <<viewEntry, views, servedView, allowance, funds, fundings, failed, readFaults>>

ReadsInit ==
    /\ clock = 0 /\ viewEntry = NotKept
    /\ views = [v \in ViewCall |-> NoView] /\ servedView = [age |-> 0, took |-> 0]
    /\ allowance = [amount |-> 0, until |-> -1]
    /\ funds = [token \in {"asset", "native"} |-> Balance]
    /\ fundings = [f \in Funding |-> NoFunding] /\ failed = FALSE
    /\ readFaults = 0

\* Views and fundings share nothing but the clock.
ReadViewNext ==
    \/ Minute
    \/ \E v \in ViewCall : SimulateView(v) \/ ReadView(v) \/ KeepView(v) \/ ViewFails(v)
FundNext ==
    \/ Minute
    \/ \E f \in Funding :
          \/ \E token \in {"asset", "native"}, need \in Needs : BeginFunding(f, token, need)
          \/ EnsureAllowance(f) \/ ApproveToken(f) \/ SetAllowance(f) \/ GrantFund(f)
          \/ CheckXlmSufficiency(f) \/ BuildNativeXlmFund(f)

-----------------------------------------------------------------------------
(* Properties *)

\* A funding that was alone has the allowance it ensured: it fails only when that has
\* expired. A native funding that was found sufficient leaves the account its reserve.
AloneIsCovered == ~failed
\* An answer is never older, when it is served, than the cache's lifetime and what its
\* simulation took to come, also when simulations of the same view overtake each other.
ViewsAreFresh == servedView.age <= ViewTtl + servedView.took

\* A funding that runs alone is covered, and a view is no older than allowed (contract.ts).
ReadsAreSound == AloneIsCovered /\ ViewsAreFresh
=============================================================================
