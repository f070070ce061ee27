--------------------------- MODULE SdkTransactions ---------------------------
(***************************************************************************)
(* A write through the client SDK (StellarGrantsSDK.ts): invokeWrite()     *)
(* builds, simulates, builds again with the fee, prepares, signs and sends *)
(* a transaction, and waitForTransaction() polls for its verdict until it  *)
(* has one, an overall timer fires, the network fails too often or the     *)
(* caller aborts.  A send whose answer is lost is repeated with the same   *)
(* signed transaction (utils/retry.ts).  Every call is made through        *)
(* TransactionTracker.track(), which tells listeners its stages.           *)
(* All calls are signed by one account.                                    *)
(***************************************************************************)
EXTENDS Integers, FiniteSets, SequencesExt

CONSTANTS Call,          \* calls of the SDK's write methods
          MaxSends,      \* maxAttempts of the retry configuration
          MaxNetErrors,  \* maxNetworkRetries of waitForTransaction()
          MaxRpcFaults   \* bound: requests or answers lost on the way

ASSUME TransactionsAssumption ==
    /\ MaxSends \in Nat \ {0}
    /\ {MaxNetErrors, MaxRpcFaults} \subseteq Nat

VARIABLES
    sdkCall,     \* where each call's promise stands and the transaction it made
    watch,       \* waitForTransaction() of each call: its poll and errors in a row
    toldOf,      \* stages the tracker's listeners heard of each call, in order
    stored,      \* stage the tracker keeps of each call
    pending,     \* pendingXdrStore
    mempool,     \* transactions the network holds
    applied,     \* verdicts of the ledger on each call's transactions
    sdkAccount,  \* sequence number of the signer's account
    rpcFaults

callVars == <<sdkCall, watch, toldOf, stored, pending>>
netVars == <<mempool, applied, sdkAccount>>
transactionVars == <<callVars, netVars, rpcFaults>>

\* What the caller asked for: WriteOptions, the wait with a poll interval or
\* a timeout that waitForTransaction() refuses (lines 258-264).
Mode == {"plain", "unsigned", "wait", "badwait"}
Verdict == {"SUCCESS", "FAILED"}
Settled == {"error", "unsigned", "sent", "refused", "confirmed", "failed",
            "timeout", "network", "aborted"}

NoPoll == [poll |-> "none", errors |-> 0, abortable |-> FALSE]

-----------------------------------------------------------------------------
(* Fees, in stroops; a priority multiplies tenths.                         *)

MulCeil(v, tenths) == (v * tenths + 9) \div 10

\* applyFeePriority(): the fee a write offers above the simulated minimum.
applyFeePriority(base, priority) ==
    CASE priority = "low" -> base
      [] priority = "high" -> base * 2
      [] OTHER -> MulCeil(base, 15)

\* A write goes by Horizon's base fee when that is higher; a batch never asks Horizon.
WriteFee(minimum, recommended, priority) ==
    applyFeePriority(IF recommended > minimum THEN recommended ELSE minimum, priority)
BatchFee(minimum, priority) == applyFeePriority(minimum, priority)

\* getDynamicFeeStats(): the multipliers estimateFees() uses at a load.
Modifiers(load) ==
    CASE load = "surge" -> [low |-> 16, medium |-> 25, high |-> 35]
      [] load = "high" -> [low |-> 13, medium |-> 20, high |-> 28]
      [] load = "moderate" -> [low |-> 10, medium |-> 15, high |-> 20]
      [] load = "normal" -> [low |-> 9, medium |-> 12, high |-> 16]
      [] load = "unknown" -> [low |-> 10, medium |-> 15, high |-> 20]

\* estimateFees(): the quote for a simulated minimum and Horizon's base fee.
Estimate(minimum, recommended, load) ==
    [p \in {"low", "medium", "high"} |->
        MulCeil(IF load # "unknown" /\ recommended > minimum
                THEN recommended ELSE minimum,
                Modifiers(load)[p])]

-----------------------------------------------------------------------------

\* updateStage(): listeners hear the new stage, but "...existing" comes after
\* the new stage in the record that is stored, so the first one stays.
UpdateStages(c, stages) ==
    /\ toldOf' = [toldOf EXCEPT ![c] = @ \o stages]
    /\ stored' = [stored EXCEPT ![c] = IF @ = "none" THEN Head(stages) ELSE @]

\* The stages track() announces when the call's promise settles.
StagesOf(outcome) ==
    CASE outcome \in {"sent", "unsigned"} -> <<"submitted">>
      [] outcome = "confirmed" -> <<"submitted", "confirmed">>
      [] OTHER -> <<"failed">>

Settle(c, outcome) ==
    /\ sdkCall' = [sdkCall EXCEPT ![c].at = outcome]
    /\ UpdateStages(c, StagesOf(outcome))

\* track() and the call's first await.
StartCall(c, mode) ==
    /\ sdkCall[c].at = "idle"
    /\ sdkCall' = [sdkCall EXCEPT ![c].at = "called", ![c].mode = mode]
    /\ UpdateStages(c, <<"pending", "signed">>)
    /\ UNCHANGED <<watch, pending, netVars, rpcFaults>>

\* buildTx(), or __buildBatchTx() for the calls of a batch, asks the network for the
\* sequence number; then the simulation.
NextSequence == sdkAccount + 1
BuildTx(c) ==
    /\ sdkCall[c].at = "called"
    /\ sdkCall' = [sdkCall EXCEPT ![c].at = "simulated", ![c].seq = NextSequence]
    /\ UNCHANGED <<watch, toldOf, stored, pending, netVars, rpcFaults>>

\* The transaction is built again when the simulation told a fee, and prepared.
PrepareTx(c, rebuilt) ==
    /\ sdkCall[c].at = "simulated"
    /\ sdkCall' = [sdkCall EXCEPT ![c].at = "prepared",
                            ![c].seq = IF rebuilt THEN NextSequence ELSE @]
    /\ UNCHANGED <<watch, toldOf, stored, pending, netVars, rpcFaults>>

\* returnUnsignedXdr: the transaction is kept for signatures to come.
KeepUnsigned(c) ==
    /\ sdkCall[c].at = "prepared" /\ sdkCall[c].mode = "unsigned"
    /\ pending' = pending \union {c}
    /\ Settle(c, "unsigned")
    /\ UNCHANGED <<watch, netVars, rpcFaults>>

SignTx(c) ==
    /\ sdkCall[c].at = "prepared" /\ sdkCall[c].mode # "unsigned"
    /\ sdkCall' = [sdkCall EXCEPT ![c].at = "signed"]
    /\ UNCHANGED <<watch, toldOf, stored, pending, netVars, rpcFaults>>

\* The simulation finds a contract error, the wallet refuses, or a request
\* fails in a way that is not retried or too often: parseSorobanError().
FailBeforeSend(c) ==
    /\ sdkCall[c].at \in {"called", "simulated", "prepared"}
    /\ Settle(c, "error")
    /\ UNCHANGED <<watch, pending, netVars, rpcFaults>>

-----------------------------------------------------------------------------
(* The network (external): it holds one transaction of an account, takes   *)
(* the next sequence number only, and applies a transaction once.          *)

NetAnswer(c) ==
    IF c \in mempool THEN "DUPLICATE"
    ELSE IF sdkCall[c].seq # NextSequence THEN "ERROR"
    ELSE IF mempool # {} THEN "TRY_AGAIN_LATER" ELSE "PENDING"

Submit(c) ==
    mempool' = IF NetAnswer(c) = "PENDING" THEN mempool \union {c} ELSE mempool

ApplyTx(c, verdict) ==
    /\ c \in mempool
    /\ mempool' = mempool \ {c}
    /\ applied' = [applied EXCEPT ![c] = Append(@, verdict)]
    /\ sdkAccount' = sdkAccount + 1
    /\ UNCHANGED <<callVars, rpcFaults>>

\* The time bound of sixty seconds passes first.
ExpireTx(c) ==
    /\ c \in mempool
    /\ mempool' = mempool \ {c}
    /\ UNCHANGED <<callVars, applied, sdkAccount, rpcFaults>>

-----------------------------------------------------------------------------

BeginWatch(c, abortable) ==
    watch' = [watch EXCEPT ![c] = [NoPoll EXCEPT !.poll = "due", !.abortable = abortable]]

\* sendTransaction() is answered.  Every status but ERROR counts as sent.
AnswerSend(c) ==
    LET mode == sdkCall[c].mode IN
    \/ /\ NetAnswer(c) = "ERROR"
       /\ Settle(c, "error")
       /\ UNCHANGED watch
    \/ /\ NetAnswer(c) # "ERROR" /\ mode = "plain"
       /\ Settle(c, "sent")
       /\ UNCHANGED watch
    \/ /\ NetAnswer(c) # "ERROR" /\ mode = "badwait"
       /\ Settle(c, "refused")
       /\ UNCHANGED watch
    \/ /\ NetAnswer(c) # "ERROR" /\ mode = "wait"
       /\ sdkCall' = [sdkCall EXCEPT ![c].at = "waiting"]
       /\ BeginWatch(c, FALSE)
       /\ UNCHANGED <<toldOf, stored>>

Send(c) ==
    /\ sdkCall[c].at = "signed"
    /\ Submit(c) /\ AnswerSend(c)
    /\ UNCHANGED <<pending, applied, sdkAccount, rpcFaults>>

\* What a request fails with, and which of it is worth another attempt.
RequestFault == {"rate limit", "timeout", "network", "other"}
shouldRetry(fault) == fault # "other"
\* retryWithBackoff(): the request or its answer is lost; the closure sends
\* the same signed transaction again until the attempts are used up.
LoseSend(c, reached, fault) ==
    /\ sdkCall[c].at = "signed" /\ rpcFaults < MaxRpcFaults
    /\ rpcFaults' = rpcFaults + 1
    /\ IF reached THEN Submit(c) ELSE UNCHANGED mempool
    /\ \/ /\ shouldRetry(fault) /\ sdkCall[c].tries < MaxSends
          /\ sdkCall' = [sdkCall EXCEPT ![c].tries = @ + 1]
          /\ UNCHANGED <<toldOf, stored>>
       \/ /\ ~shouldRetry(fault) \/ sdkCall[c].tries = MaxSends
          /\ Settle(c, "error")
    /\ UNCHANGED <<watch, pending, applied, sdkAccount>>

-----------------------------------------------------------------------------
(* waitForTransaction()                                                    *)

\* The caller of a plain write waits by himself, with an AbortSignal.
WatchSent(c) ==
    /\ sdkCall[c].at = "sent" /\ watch[c].poll = "none"
    /\ BeginWatch(c, TRUE)
    /\ sdkCall' = [sdkCall EXCEPT ![c].at = "waiting"]
    /\ UNCHANGED <<toldOf, stored, pending, netVars, rpcFaults>>

PollOnce(c) ==
    /\ sdkCall[c].at = "waiting" /\ watch[c].poll = "due"
    /\ watch' = [watch EXCEPT ![c].poll = "asking"]
    /\ UNCHANGED <<sdkCall, toldOf, stored, pending, netVars, rpcFaults>>

\* Mutation: a poll that is under way goes on.
PollUnderWay(c) == watch[c].poll # "none"
\* `active` of the closure: nobody has settled the promise.
Active(c) == sdkCall[c].at = "waiting"

\* The wait that invokeWrite() returns is the call track() waits for; the
\* tracker heard nothing of a wait the caller began afterwards.
SettleWatch(c, outcome) ==
    IF watch[c].abortable
    THEN sdkCall' = [sdkCall EXCEPT ![c].at = outcome] /\ UNCHANGED <<toldOf, stored>>
    ELSE Settle(c, outcome)

\* getTransaction() answers; onStatusChange is called unless the promise is
\* settled.  The node may not have seen a verdict the ledger has.
AnswerStatus(c, status) ==
    /\ watch[c].poll = "asking"
    /\ \/ status = "NOT_FOUND"
       \/ applied[c] # <<>> /\ status = Last(applied[c])
    /\ \/ /\ ~Active(c)
          /\ watch' = [watch EXCEPT ![c].poll = "none"]
          /\ UNCHANGED <<sdkCall, toldOf, stored>>
       \/ /\ Active(c) /\ status \in Verdict
          /\ watch' = [watch EXCEPT ![c].poll = "none"]
          /\ SettleWatch(c, IF status = "SUCCESS" THEN "confirmed" ELSE "failed")
       \/ /\ Active(c) /\ status = "NOT_FOUND"
          /\ watch' = [watch EXCEPT ![c].poll = "due", ![c].errors = 0]
          /\ UNCHANGED <<sdkCall, toldOf, stored>>
    /\ UNCHANGED <<pending, netVars, rpcFaults>>

\* getTransaction() fails: polled again until the errors in a row are too many.
FailPoll(c) ==
    /\ watch[c].poll = "asking" /\ rpcFaults < MaxRpcFaults
    /\ rpcFaults' = rpcFaults + 1
    /\ \/ /\ ~Active(c)
          /\ watch' = [watch EXCEPT ![c].poll = "none"]
          /\ UNCHANGED <<sdkCall, toldOf, stored>>
       \/ /\ Active(c) /\ watch[c].errors < MaxNetErrors
          /\ watch' = [watch EXCEPT ![c].poll = "due", ![c].errors = @ + 1]
          /\ UNCHANGED <<sdkCall, toldOf, stored>>
       \/ /\ Active(c) /\ watch[c].errors = MaxNetErrors
          /\ watch' = [watch EXCEPT ![c].poll = "none", ![c].errors = @ + 1]
          /\ SettleWatch(c, "network")
    /\ UNCHANGED <<pending, netVars>>

\* Mutation: only a poll that is due sees that the time is over.
TimeOutBetweenPolls(c) ==
    /\ Active(c) /\ watch[c].poll = "due"
    /\ SettleWatch(c, "timeout")
    /\ watch' = [watch EXCEPT ![c].poll = "none"]
    /\ UNCHANGED <<pending, netVars, rpcFaults>>
\* The overall timer of timeoutMs, or a poll that sees that it is over; a
\* poll under way is not cut off, its answer finds the promise settled.
TimeOut(c) ==
    /\ Active(c)
    /\ SettleWatch(c, "timeout")
    /\ watch' = [watch EXCEPT ![c].poll = IF @ = "due" THEN "none" ELSE @]
    /\ UNCHANGED <<pending, netVars, rpcFaults>>

Abort(c) ==
    /\ Active(c) /\ watch[c].abortable
    /\ SettleWatch(c, "aborted")
    /\ watch' = [watch EXCEPT ![c].poll = IF @ = "due" THEN "none" ELSE @]
    /\ UNCHANGED <<pending, netVars, rpcFaults>>

-----------------------------------------------------------------------------

TransactionInit ==
    /\ sdkCall = [c \in Call |-> [at |-> "idle", mode |-> "plain", seq |-> 0, tries |-> 1]]
    /\ watch = [c \in Call |-> NoPoll]
    /\ toldOf = [c \in Call |-> <<>>] /\ stored = [c \in Call |-> "none"]
    /\ pending = {} /\ mempool = {} /\ applied = [c \in Call |-> <<>>]
    /\ sdkAccount = 0 /\ rpcFaults = 0

\* The write methods, each a call of invokeWrite() that is tracked.
WriteMethods(c) == \E mode \in Mode : StartCall(c, mode)

\* The steps of invokeWrite(), and of __sendBatch(), whose calls are the operations of
\* one transaction.
CallStep(c) ==
    \/ BuildTx(c) \/ KeepUnsigned(c) \/ SignTx(c) \/ Send(c) \/ FailBeforeSend(c)
    \/ \E rebuilt \in BOOLEAN : PrepareTx(c, rebuilt)

TransactionNext ==
    \E c \in Call :
        \/ WriteMethods(c) \/ CallStep(c)
        \/ \E reached \in BOOLEAN, fault \in RequestFault : LoseSend(c, reached, fault)
        \/ \E verdict \in Verdict : ApplyTx(c, verdict)
        \/ ExpireTx(c)
        \/ WatchSent(c) \/ PollOnce(c) \/ FailPoll(c) \/ TimeOut(c) \/ Abort(c)
        \/ \E status \in Verdict \union {"NOT_FOUND"} : AnswerStatus(c, status)

-----------------------------------------------------------------------------

\* One call spends one sequence number, however often its send is repeated.
AppliedOnce == \A c \in Call : Len(applied[c]) <= 1

\* Whoever waited was told what the ledger says.
VerdictsAreTrue ==
    \A c \in Call :
        /\ sdkCall[c].at = "confirmed" => applied[c] = <<"SUCCESS">>
        /\ sdkCall[c].at = "failed" => applied[c] = <<"FAILED">>

\* A transaction kept for other signers is in the store and nowhere else; an
\* error means that nothing was sent, unless a request or an answer was lost.
OnlySentIsApplied ==
    \A c \in Call :
        /\ sdkCall[c].mode = "unsigned" \/ (sdkCall[c].at = "error" /\ rpcFaults = 0) =>
              c \notin mempool /\ applied[c] = <<>>
        /\ c \in pending <=> sdkCall[c].at = "unsigned"

\* Listeners hear of a call in order, of one end at most, and of a
\* confirmation only when the ledger has one.
TrackerIsInOrder ==
    \A c \in Call :
        /\ toldOf[c] \in {<<>>, <<"pending", "signed">>, <<"pending", "signed", "submitted">>,
                        <<"pending", "signed", "submitted", "confirmed">>,
                        <<"pending", "signed", "failed">>}
        /\ Contains(toldOf[c], "confirmed") => applied[c] = <<"SUCCESS">>

\* A write offers what the simulation asks for, and more for a higher priority.
FeesCoverTheMinimum ==
    \A base \in 0..12 :
        LET Offer(p) == BatchFee(base, p) IN
        /\ base <= Offer("low") /\ Offer("low") <= Offer("medium")
        /\ Offer("medium") <= Offer("high") /\ 2 * Offer("medium") >= 3 * base
        /\ \A more \in 0..12, p \in {"low", "medium", "high"} : Offer(p) <= WriteFee(base, more, p)
        /\ \A load \in {"moderate", "high", "surge", "unknown"}, more \in 0..12 :
              Estimate(base, more, load)["low"] >= base

\* What the SDK promises of a write: invokeWrite(), waitForTransaction(),
\* retryWithBackoff() and TransactionTracker together.
WritesAreSound ==
    AppliedOnce /\ VerdictsAreTrue /\ OnlySentIsApplied /\ TrackerIsInOrder
        /\ FeesCoverTheMinimum

\* A promise that is settled stays settled: a late answer, timer or abort
\* changes nothing (`active` in waitForTransaction()).
PromisesAreKept ==
    [][\A c \in Call : sdkCall[c].at \in Settled \ {"sent"} => sdkCall'[c].at = sdkCall[c].at]_sdkCall

\* Requests and the wallet are answered, and the overall timer fires.  A poll
\* may hang for ever.
TransactionFairness ==
    \A c \in Call : WF_transactionVars(CallStep(c)) /\ WF_transactionVars(TimeOut(c))

\* Every write is settled one way or another.
WritesSettle == \A c \in Call : []<>(sdkCall[c].at \in Settled \cup {"idle"})
=============================================================================
