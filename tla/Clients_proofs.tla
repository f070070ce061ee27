---------------------------- MODULE Clients_proofs ----------------------------
(***************************************************************************)
(* Theorems about the SDK and the frontend that uses it, for any number of *)
(* calls, subscriptions, events, wallets and failures: what the callers of *)
(* a write are told, what subscriptions hear, and what the pages show of   *)
(* balances, grants and wallets.                                           *)
(*                                                                         *)
(* Each component has an inductive invariant (...InOrder) about its own    *)
(* steps, however the chain's answers, the timers and the user interleave; *)
(* at the end they are put together for the clients, where one component   *)
(* runs and the others rest.                                               *)
(***************************************************************************)
EXTENDS MCClients, FiniteSums, SequenceTheorems

-----------------------------------------------------------------------------
(* Writes of the SDK, and what their callers are told (StellarGrantsSDK.ts). *)

CallPoints == {"idle", "called", "simulated", "prepared", "signed", "waiting"} \cup Settled
CallType == [at : CallPoints, mode : Mode, seq : Nat, tries : Nat]
WatchType == [poll : {"none", "due", "asking"}, errors : Nat, abortable : BOOLEAN]
Verdicts == {<<>>, <<"SUCCESS">>, <<"FAILED">>}

Begun == <<"pending", "signed">>
Submitted == <<"pending", "signed", "submitted">>
Confirmed == <<"pending", "signed", "submitted", "confirmed">>
Failed == <<"pending", "signed", "failed">>
Stages == {<<>>, Begun, Submitted, Confirmed, Failed}

TransactionTypeOK ==
    /\ sdkCall \in [Call -> CallType] /\ watch \in [Call -> WatchType]
    /\ toldOf \in [Call -> Stages]
    /\ applied \in [Call -> Verdicts]
    /\ pending \subseteq Call /\ mempool \subseteq Call
    /\ sdkAccount \in Nat /\ rpcFaults \in Nat

\* What the tracker's listeners heard of a call: nothing of a wait the caller began.
Heard(at, abortable, stages) ==
    /\ at = "idle" => stages = <<>>
    /\ at \in {"called", "simulated", "prepared", "signed"} => stages = Begun
    /\ at \in {"sent", "unsigned"} => stages = Submitted
    /\ at \in {"error", "refused"} => stages = Failed
    /\ at = "waiting" => stages = IF abortable THEN Submitted ELSE Begun
    /\ at = "confirmed" => stages = IF abortable THEN Submitted ELSE Confirmed
    /\ at \in {"failed", "timeout", "network", "aborted"}
         => stages = IF abortable THEN Submitted ELSE Failed

\* What the network may have of a call: the transaction it holds has the next sequence
\* number, the one it applied has an earlier one.
Unsent == {"idle", "called", "simulated", "prepared", "unsigned"}
CallInOrder(c, call, w, stages, verdicts, pool, kept, account, faults) ==
    /\ c \in pool => verdicts = <<>> /\ call.seq = account + 1
    /\ verdicts # <<>> => call.seq <= account
    /\ call.at \in Unsent \/ call.mode = "unsigned" => c \notin pool /\ verdicts = <<>>
    /\ call.at \in {"signed", "error"} /\ faults = 0 => c \notin pool /\ verdicts = <<>>
    /\ call.mode = "unsigned" => call.at \in Unsent \cup {"error"}
    /\ call.at = "unsigned" <=> c \in kept
    /\ call.at = "confirmed" => verdicts = <<"SUCCESS">>
    /\ call.at = "failed" => verdicts = <<"FAILED">>
    /\ Heard(call.at, w.abortable, stages)

\* The inductive invariant.
TransactionsInOrder ==
    /\ TransactionTypeOK
    /\ \A c, d \in mempool : c = d
    /\ \A c \in Call :
          CallInOrder(c, sdkCall[c], watch[c], toldOf[c], applied[c], mempool, pending,
                      sdkAccount, rpcFaults)

-----------------------------------------------------------------------------
(* Fees *)

\* Rounding up to a whole stroop adds less than one.
LEMMA MulCeilBounds ==
  ASSUME NEW v \in Nat, NEW tenths \in Nat
  PROVE  /\ MulCeil(v, tenths) \in Nat
         /\ v * tenths <= 10 * MulCeil(v, tenths) /\ 10 * MulCeil(v, tenths) <= v * tenths + 9
<1> DEFINE n == v * tenths
<1>1. n \in Nat
  OBVIOUS
<1> HIDE DEF n
<1>2. /\ (n + 9) \div 10 \in Nat
      /\ n <= 10 * ((n + 9) \div 10) /\ 10 * ((n + 9) \div 10) <= n + 9
  BY <1>1
<1> QED BY <1>2 DEF MulCeil, n

LEMMA FeesCover == FeesCoverTheMinimum
<1> DEFINE Offer(base, p) == BatchFee(base, p)
<1>1. ASSUME NEW base \in Nat
      PROVE  /\ Offer(base, "low") = base /\ Offer(base, "high") = base * 2
             /\ Offer(base, "medium") \in Nat /\ Offer(base, "medium") = MulCeil(base, 15)
             /\ base * 15 <= 10 * Offer(base, "medium")
             /\ 10 * Offer(base, "medium") <= base * 15 + 9
  BY MulCeilBounds DEF BatchFee, applyFeePriority
<1>2. ASSUME NEW base \in Nat, NEW more \in Nat, NEW p \in {"low", "medium", "high"}
      PROVE  Offer(base, p) <= WriteFee(base, more, p)
  <2> DEFINE top == IF more > base THEN more ELSE base
  <2>1. top \in Nat /\ top >= base
    OBVIOUS
  <2>2. WriteFee(base, more, p) = Offer(top, p)
    BY DEF WriteFee, BatchFee
  <2> HIDE DEF top, Offer
  <2>3. Offer(base, p) <= Offer(top, p)
    <3>1. CASE p = "medium"
      <4> DEFINE low == Offer(base, "medium")
                 up == Offer(top, "medium")
      <4>1. low \in Nat /\ 10 * low <= base * 15 + 9 /\ up \in Nat /\ top * 15 <= 10 * up
        BY <1>1, <2>1
      <4> HIDE DEF low, up
      <4>2. CASE top = base
        BY <4>2, <3>1, <4>1 DEF low, up
      <4>3. CASE top >= base + 1
        BY <4>1, <4>3, <2>1, <3>1 DEF low, up
      <4> QED BY <2>1, <4>2, <4>3
    <3>2. CASE p = "low"
      BY <1>1, <2>1, <3>2
    <3>3. CASE p = "high"
      <4>1. Offer(base, "high") = base * 2 /\ Offer(top, "high") = top * 2
        BY <1>1, <2>1
      <4> QED BY <2>1, <3>3, <4>1
    <3> QED BY <3>1, <3>2, <3>3
  <2> QED BY <2>2, <2>3
<1>3. ASSUME NEW base \in Nat, NEW more \in Nat, NEW load \in {"moderate", "high", "surge", "unknown"}
      PROVE  Estimate(base, more, load)["low"] >= base
  <2> DEFINE top == IF load # "unknown" /\ more > base THEN more ELSE base
             tenths == Modifiers(load)["low"]
  <2>1. top \in Nat /\ top >= base
    OBVIOUS
  <2>2. tenths \in {10, 13, 16}
    BY DEF Modifiers
  <2>3. Estimate(base, more, load)["low"] = MulCeil(top, tenths)
    BY DEF Estimate
  <2> HIDE DEF top, tenths
  <2>4. top * tenths >= top * 10
    BY <2>1, <2>2
  <2>5. MulCeil(top, tenths) \in Nat /\ top * tenths <= 10 * MulCeil(top, tenths)
    BY <2>1, <2>2, MulCeilBounds
  <2> DEFINE paid == MulCeil(top, tenths)
             n == top * tenths
  <2>6. n \in Nat
    BY <2>1, <2>2
  <2> HIDE DEF paid, n
  <2>7. paid \in Nat /\ n <= 10 * paid /\ n >= top * 10
    BY <2>4, <2>5 DEF paid, n
  <2>8. paid >= base
    BY <2>1, <2>6, <2>7
  <2> QED BY <2>3, <2>8 DEF paid
<1> HIDE DEF Offer
<1>4. ASSUME NEW base \in Nat
      PROVE  /\ base <= Offer(base, "low") /\ Offer(base, "low") <= Offer(base, "medium")
             /\ Offer(base, "medium") <= Offer(base, "high") /\ 2 * Offer(base, "medium") >= 3 * base
  <2> DEFINE low == Offer(base, "low")
             medium == Offer(base, "medium")
             high == Offer(base, "high")
  <2>1. /\ low = base /\ high = base * 2 /\ medium \in Nat
        /\ base * 15 <= 10 * medium /\ 10 * medium <= base * 15 + 9
    BY <1>1
  <2> HIDE DEF low, medium, high
  <2>2. base <= low /\ low <= medium /\ medium <= high /\ 2 * medium >= 3 * base
    BY <2>1
  <2> QED BY <2>2 DEF low, medium, high
<1>5. ASSUME NEW base \in 0..12
      PROVE  /\ base <= Offer(base, "low") /\ Offer(base, "low") <= Offer(base, "medium")
             /\ Offer(base, "medium") <= Offer(base, "high") /\ 2 * Offer(base, "medium") >= 3 * base
             /\ \A more \in 0..12, p \in {"low", "medium", "high"} :
                   Offer(base, p) <= WriteFee(base, more, p)
             /\ \A load \in {"moderate", "high", "surge", "unknown"}, more \in 0..12 :
                   Estimate(base, more, load)["low"] >= base
  <2>1. base \in Nat /\ \A more \in 0..12 : more \in Nat
    OBVIOUS
  <2> QED BY <1>2, <1>3, <1>4, <2>1
<1> QED BY <1>5, Zenon DEF FeesCoverTheMinimum, Offer

-----------------------------------------------------------------------------
(* One call moves *)

\* A sequence that begins as one and goes on as another is the two in a row.
LEMMA Joined ==
  ASSUME NEW S, NEW s \in Seq(S), NEW t \in Seq(S), NEW u \in Seq(S),
         Len(u) = Len(s) + Len(t), \A i \in 1..Len(s) : u[i] = s[i],
         \A i \in 1..Len(t) : u[Len(s) + i] = t[i]
  PROVE  s \o t = u
<1>1. /\ s \o t \in Seq(S) /\ Len(s \o t) = Len(s) + Len(t)
      /\ \A i \in 1..Len(s) + Len(t) : (s \o t)[i] = IF i <= Len(s) THEN s[i] ELSE t[i - Len(s)]
  BY ConcatProperties
<1>2. ASSUME NEW i \in 1..Len(s \o t)
      PROVE  (s \o t)[i] = u[i]
  <2>0. Len(s) \in Nat /\ Len(t) \in Nat
    OBVIOUS
  <2>1. CASE i <= Len(s)
    BY <1>1, <2>0, <2>1
  <2>2. CASE i > Len(s)
    <3> DEFINE j == i - Len(s)
    <3>1. j \in 1..Len(t) /\ i = Len(s) + j
      BY <1>1, <2>0, <2>2
    <3>2. (s \o t)[i] = t[j]
      BY <1>1, <2>0, <2>2
    <3> QED BY <3>1, <3>2
  <2> QED BY <1>1, <2>0, <2>1, <2>2
<1> QED BY <1>1, <1>2, SeqEqual

LEMMA JoinedPairs ==
  ASSUME NEW a, NEW b, NEW c, NEW d
  PROVE  <<a, b>> \o <<c>> = <<a, b, c>> /\ <<a, b>> \o <<c, d>> = <<a, b, c, d>>
<1> DEFINE words == {a, b, c, d}
           ab == <<a, b>>
           abc == <<a, b, c>>
           abcd == <<a, b, c, d>>
           one == <<c>>
           two == <<c, d>>
<1>1. ab \in Seq(words) /\ Len(ab) = 2 /\ ab[1] = a /\ ab[2] = b
  OBVIOUS
<1>2. abc \in Seq(words) /\ Len(abc) = 3 /\ abc[1] = a /\ abc[2] = b /\ abc[3] = c
  OBVIOUS
<1>3. abcd \in Seq(words) /\ Len(abcd) = 4 /\ abcd[1] = a /\ abcd[2] = b /\ abcd[3] = c /\ abcd[4] = d
  OBVIOUS
<1>4. one \in Seq(words) /\ Len(one) = 1 /\ one[1] = c
  OBVIOUS
<1>5. two \in Seq(words) /\ Len(two) = 2 /\ two[1] = c /\ two[2] = d
  OBVIOUS
<1> HIDE DEF ab, abc, abcd, one, two, words
<1>6. ab \o one = abc
  <2>1. Len(abc) = Len(ab) + Len(one) /\ (\A i \in 1..Len(ab) : abc[i] = ab[i])
        /\ \A i \in 1..Len(one) : abc[Len(ab) + i] = one[i]
    BY <1>1, <1>2, <1>4
  <2> QED BY <1>1, <1>2, <1>4, <2>1, Joined
<1>7. ab \o two = abcd
  <2>1. Len(abcd) = Len(ab) + Len(two) /\ (\A i \in 1..Len(ab) : abcd[i] = ab[i])
        /\ \A i \in 1..Len(two) : abcd[Len(ab) + i] = two[i]
    BY <1>1, <1>3, <1>5
  <2> QED BY <1>1, <1>3, <1>5, <2>1, Joined
<1> QED BY <1>6, <1>7 DEF ab, abc, abcd, one, two

LEMMA StagesAdded ==
  /\ <<>> \o Begun = Begun
  /\ Begun \o <<"submitted">> = Submitted
  /\ Begun \o <<"submitted", "confirmed">> = Confirmed
  /\ Begun \o <<"failed">> = Failed
<1>1. <<>> \o Begun = Begun
  <2> DEFINE words == {"pending", "signed"}
  <2>1. Begun \in Seq(words)
    BY DEF Begun
  <2> QED BY <2>1, ConcatEmptySeq
<1> QED BY <1>1, JoinedPairs DEF Begun, Submitted, Confirmed, Failed

LEMMA TransactionsInitially == TransactionInit => TransactionsInOrder
<1> SUFFICES ASSUME TransactionInit PROVE TransactionsInOrder
  OBVIOUS
<1>1. TransactionTypeOK
  BY DEF TransactionInit, TransactionTypeOK, CallType, CallPoints, Mode, WatchType, NoPoll, Stages, Verdicts
<1>2. ASSUME NEW c \in Call
      PROVE  CallInOrder(c, sdkCall[c], watch[c], toldOf[c], applied[c], mempool, pending,
                         sdkAccount, rpcFaults)
  BY DEF TransactionInit, CallInOrder, Heard, Unsent
<1>3. mempool = {}
  BY DEF TransactionInit
<1> QED BY <1>1, <1>2, <1>3 DEF TransactionsInOrder

\* Calls that do not move stay in order.
LEMMA OneCallMoves ==
  ASSUME TransactionsInOrder, NEW c \in Call, TransactionTypeOK',
         \A d \in Call \ {c} :
            /\ sdkCall'[d] = sdkCall[d] /\ watch'[d] = watch[d] /\ toldOf'[d] = toldOf[d]
            /\ applied'[d] = applied[d] /\ (d \in pending' <=> d \in pending)
            /\ d \in mempool' => d \in mempool /\ sdkAccount' = sdkAccount,
         sdkAccount <= sdkAccount', rpcFaults <= rpcFaults',
         \A d, e \in mempool' : d = e,
         CallInOrder(c, sdkCall'[c], watch'[c], toldOf'[c], applied'[c], mempool', pending',
                     sdkAccount', rpcFaults')
  PROVE  TransactionsInOrder'
<1>1. ASSUME NEW d \in Call \ {c}
      PROVE  CallInOrder(d, sdkCall'[d], watch'[d], toldOf'[d], applied'[d], mempool', pending',
                         sdkAccount', rpcFaults')
  <2>1. CallInOrder(d, sdkCall[d], watch[d], toldOf[d], applied[d], mempool, pending,
                    sdkAccount, rpcFaults)
    BY DEF TransactionsInOrder
  <2>2. sdkAccount \in Nat /\ sdkAccount' \in Nat /\ rpcFaults \in Nat /\ rpcFaults' \in Nat
        /\ sdkCall[d].seq \in Nat
    BY DEF TransactionsInOrder, TransactionTypeOK, CallType
  <2>3. /\ sdkCall'[d] = sdkCall[d] /\ watch'[d] = watch[d] /\ toldOf'[d] = toldOf[d]
        /\ applied'[d] = applied[d] /\ (d \in pending' <=> d \in pending)
        /\ d \in mempool' => d \in mempool /\ sdkAccount' = sdkAccount
    OBVIOUS
  <2> QED BY <2>1, <2>2, <2>3 DEF CallInOrder
<1> QED BY <1>1 DEF TransactionsInOrder

\* What changes of the call that moves, and only of it.
Moves(c, next) ==
    /\ sdkCall' \in [Call -> CallType] /\ sdkCall'[c] = next
    /\ \A d \in Call \ {c} : sdkCall'[d] = sdkCall[d]
Hears(c, stages) ==
    /\ toldOf' \in [Call -> Stages] /\ toldOf'[c] = stages
    /\ \A d \in Call \ {c} : toldOf'[d] = toldOf[d]

LEMMA GoesOn ==
  ASSUME TransactionTypeOK, NEW c \in Call, NEW next \in CallType,
         sdkCall' = [sdkCall EXCEPT ![c] = next]
  PROVE  Moves(c, next)
  BY DEF TransactionTypeOK, Moves

LEMMA HearsOn ==
  ASSUME TransactionTypeOK, NEW c \in Call, NEW stages, NEW now \in Stages,
         toldOf[c] \o stages = now, UpdateStages(c, stages)
  PROVE  Hears(c, now)
<1>1. toldOf \in [Call -> Stages]
  BY DEF TransactionTypeOK
<1>2. toldOf' = [toldOf EXCEPT ![c] = now]
  BY DEF UpdateStages
<1> QED BY <1>1, <1>2 DEF Hears

\* The tracker's last stages.
LastStages(outcome) ==
    IF outcome \in {"sent", "unsigned"} THEN Submitted
    ELSE IF outcome = "confirmed" THEN Confirmed ELSE Failed

LEMMA Settles ==
  ASSUME TransactionTypeOK, NEW c \in Call, NEW outcome \in Settled, Settle(c, outcome),
         toldOf[c] = Begun
  PROVE  /\ Moves(c, [sdkCall[c] EXCEPT !.at = outcome])
         /\ Hears(c, LastStages(outcome))
<1>1. sdkCall[c] \in CallType
  BY DEF TransactionTypeOK
<1> DEFINE next == [sdkCall[c] EXCEPT !.at = outcome]
<1>2. next \in CallType
  BY <1>1 DEF CallType, CallPoints
<1>3. sdkCall' = [sdkCall EXCEPT ![c] = next]
  BY DEF Settle
<1> HIDE DEF next
<1>4. Moves(c, next)
  BY <1>2, <1>3, GoesOn
<1>5. LastStages(outcome) \in Stages /\ toldOf[c] \o StagesOf(outcome) = LastStages(outcome)
  BY StagesAdded DEF LastStages, Stages, StagesOf, Settled
<1>6. Hears(c, LastStages(outcome))
  BY <1>5, HearsOn DEF Settle
<1> QED BY <1>4, <1>6 DEF next

WaitOutcomes == {"confirmed", "failed", "timeout", "network", "aborted"}
LEMMA WatchSettles ==
  ASSUME TransactionTypeOK, NEW c \in Call, NEW outcome \in WaitOutcomes, SettleWatch(c, outcome),
         Heard("waiting", watch[c].abortable, toldOf[c])
  PROVE  /\ Moves(c, [sdkCall[c] EXCEPT !.at = outcome])
         /\ \E stages \in Stages : Hears(c, stages) /\ Heard(outcome, watch[c].abortable, stages)
<1>0. outcome \in Settled
  BY DEF WaitOutcomes, Settled
<1>1. CASE watch[c].abortable
  <2>1. sdkCall[c] \in CallType /\ toldOf \in [Call -> Stages]
    BY DEF TransactionTypeOK
  <2> DEFINE next == [sdkCall[c] EXCEPT !.at = outcome]
  <2>2. next \in CallType
    BY <1>0, <2>1 DEF CallType, CallPoints
  <2>3. sdkCall' = [sdkCall EXCEPT ![c] = next] /\ toldOf' = toldOf
    BY <1>1 DEF SettleWatch
  <2> HIDE DEF next
  <2>4. Moves(c, next) /\ Hears(c, toldOf[c])
    BY <2>1, <2>2, <2>3, GoesOn DEF Hears
  <2>5. Heard(outcome, watch[c].abortable, toldOf[c])
    BY <1>1 DEF Heard, WaitOutcomes
  <2> QED BY <2>1, <2>4, <2>5 DEF next
<1>2. CASE ~watch[c].abortable
  <2>1. toldOf[c] = Begun /\ Settle(c, outcome)
    BY <1>2 DEF Heard, SettleWatch
  <2>2. LastStages(outcome) \in Stages /\ Heard(outcome, watch[c].abortable, LastStages(outcome))
    BY <1>2 DEF LastStages, Heard, WaitOutcomes, Stages
  <2> QED BY <1>0, <2>1, <2>2, Settles
<1> QED BY <1>1, <1>2

LEMMA QuietMove ==
  ASSUME TransactionsInOrder, NEW c \in Call, NEW next \in CallType, Moves(c, next),
         NEW stages, Hears(c, stages), NEW w \in WatchType, watch' = [watch EXCEPT ![c] = w],
         mempool' = mempool, applied' = applied, sdkAccount' = sdkAccount,
         rpcFaults' \in Nat, rpcFaults <= rpcFaults',
         pending' \subseteq Call, \A d \in Call \ {c} : d \in pending' <=> d \in pending,
         CallInOrder(c, next, w, stages, applied[c], mempool, pending', sdkAccount, rpcFaults')
  PROVE  TransactionsInOrder'
<1>1. watch \in [Call -> WatchType]
  BY DEF TransactionsInOrder, TransactionTypeOK
<1>2. watch' \in [Call -> WatchType] /\ watch'[c] = w /\ \A d \in Call \ {c} : watch'[d] = watch[d]
  BY <1>1
<1>3. TransactionTypeOK'
  BY <1>2 DEF TransactionsInOrder, TransactionTypeOK, Moves, Hears
<1>4. \A d \in Call \ {c} :
         /\ sdkCall'[d] = sdkCall[d] /\ watch'[d] = watch[d] /\ toldOf'[d] = toldOf[d]
         /\ applied'[d] = applied[d] /\ (d \in pending' <=> d \in pending)
         /\ d \in mempool' => d \in mempool /\ sdkAccount' = sdkAccount
  BY <1>2 DEF Moves, Hears
<1>5. CallInOrder(c, sdkCall'[c], watch'[c], toldOf'[c], applied'[c], mempool', pending',
                  sdkAccount', rpcFaults')
  BY <1>2 DEF Moves, Hears
<1>6. (\A d, e \in mempool' : d = e) /\ sdkAccount \in Nat
  BY DEF TransactionsInOrder, TransactionTypeOK
<1> QED BY <1>3, <1>4, <1>5, <1>6, OneCallMoves

\* What is known of the call that moves.
Known(c) ==
    /\ sdkCall[c] \in CallType /\ watch[c] \in WatchType /\ toldOf[c] \in Stages
    /\ applied[c] \in Verdicts /\ sdkAccount \in Nat /\ rpcFaults \in Nat
    /\ pending \subseteq Call /\ mempool \subseteq Call
    /\ watch = [watch EXCEPT ![c] = watch[c]]
    /\ CallInOrder(c, sdkCall[c], watch[c], toldOf[c], applied[c], mempool, pending,
                   sdkAccount, rpcFaults)
LEMMA AllKnown ==
  ASSUME TransactionsInOrder, NEW c \in Call
  PROVE  Known(c) /\ TransactionTypeOK
  BY DEF TransactionsInOrder, TransactionTypeOK, Known

\* Steps that change neither what the listeners heard nor the watch.
LEMMA SilentMove ==
  ASSUME TransactionsInOrder, NEW c \in Call, NEW next \in CallType,
         sdkCall' = [sdkCall EXCEPT ![c] = next],
         UNCHANGED <<watch, toldOf, pending, mempool, applied, sdkAccount, rpcFaults>>,
         CallInOrder(c, next, watch[c], toldOf[c], applied[c], mempool, pending, sdkAccount, rpcFaults)
  PROVE  TransactionsInOrder'
<1>1. Known(c) /\ TransactionTypeOK
  BY AllKnown
<1>2. Moves(c, next)
  BY <1>1, GoesOn
<1>3. Hears(c, toldOf[c])
  BY <1>1 DEF Hears, TransactionTypeOK
<1>4. pending' \subseteq Call /\ rpcFaults' \in Nat /\ rpcFaults <= rpcFaults'
  BY <1>1 DEF Known
<1>5. watch' = [watch EXCEPT ![c] = watch[c]] /\ watch[c] \in WatchType
  BY <1>1 DEF Known
<1> QED BY <1>2, <1>3, <1>4, <1>5, QuietMove

\* The call before it is sent.
LEMMA PreparesStep ==
  ASSUME TransactionsInOrder, NEW c \in Call,
         WriteMethods(c) \/ BuildTx(c) \/ SignTx(c) \/ \E rebuilt \in BOOLEAN : PrepareTx(c, rebuilt)
  PROVE  TransactionsInOrder'
<1>1. Known(c) /\ TransactionTypeOK
  BY AllKnown
<1> DEFINE call == sdkCall[c]
<1>2. ASSUME NEW mode \in Mode, StartCall(c, mode)
      PROVE  TransactionsInOrder'
  <2> DEFINE half == [call EXCEPT !.at = "called"]
             next == [half EXCEPT !.mode = mode]
  <2>1. call.at = "idle" /\ toldOf[c] = <<>> /\ call \in CallType
    BY <1>1, <1>2 DEF StartCall, Known, CallInOrder, Heard
  <2>2. sdkCall' = [sdkCall EXCEPT ![c] = next]
    BY <1>2 DEF StartCall
  <2>3. half \in CallType /\ half.at = "called" /\ half.seq = call.seq
    BY <2>1 DEF CallType, CallPoints
  <2> HIDE DEF half
  <2>4. next \in CallType /\ next.at = "called" /\ next.seq = call.seq /\ next.mode = mode
    BY <2>3 DEF CallType
  <2> HIDE DEF next
  <2>5. Moves(c, next)
    BY <1>1, <2>2, <2>4, GoesOn
  <2>6. Begun \in Stages /\ <<>> \o <<"pending", "signed">> = Begun
    BY StagesAdded DEF Stages, Begun
  <2>7. Hears(c, Begun)
    BY <1>1, <1>2, <2>1, <2>6, HearsOn DEF StartCall
  <2>8. UNCHANGED <<watch, pending, mempool, applied, sdkAccount, rpcFaults>>
    BY <1>2 DEF StartCall, netVars
  <2>9. CallInOrder(c, next, watch[c], Begun, applied[c], mempool, pending, sdkAccount, rpcFaults)
    BY <1>1, <2>1, <2>4 DEF Known, CallInOrder, Heard, Unsent
  <2>10. watch' = [watch EXCEPT ![c] = watch[c]] /\ watch[c] \in WatchType
         /\ pending' \subseteq Call /\ rpcFaults' \in Nat /\ rpcFaults <= rpcFaults'
    BY <1>1, <2>8 DEF Known
  <2>11. /\ CallInOrder(c, next, watch[c], Begun, applied[c], mempool, pending', sdkAccount, rpcFaults')
         /\ mempool' = mempool /\ applied' = applied /\ sdkAccount' = sdkAccount /\ pending' = pending
    BY <2>8, <2>9
  <2> QED BY <2>4, <2>5, <2>7, <2>10, <2>11, QuietMove
<1>3. CASE BuildTx(c)
  <2> DEFINE half == [call EXCEPT !.at = "simulated"]
             next == [half EXCEPT !.seq = NextSequence]
  <2>1. call.at = "called" /\ call \in CallType /\ NextSequence \in Nat
    BY <1>1, <1>3 DEF BuildTx, Known, NextSequence
  <2>2. sdkCall' = [sdkCall EXCEPT ![c] = next]
    BY <1>3 DEF BuildTx
  <2>3. half \in CallType /\ half.at = "simulated" /\ half.mode = call.mode
    BY <2>1 DEF CallType, CallPoints
  <2> HIDE DEF half
  <2>4. next \in CallType /\ next.at = "simulated" /\ next.mode = call.mode
    BY <2>1, <2>3 DEF CallType
  <2> HIDE DEF next
  <2>5. CallInOrder(c, next, watch[c], toldOf[c], applied[c], mempool, pending, sdkAccount, rpcFaults)
    BY <1>1, <2>1, <2>4 DEF Known, CallInOrder, Heard, Unsent
  <2>6. UNCHANGED <<watch, toldOf, pending, mempool, applied, sdkAccount, rpcFaults>>
    BY <1>3 DEF BuildTx, netVars
  <2> QED BY <2>2, <2>4, <2>5, <2>6, SilentMove
<1>4. CASE SignTx(c)
  <2> DEFINE next == [call EXCEPT !.at = "signed"]
  <2>1. call.at = "prepared" /\ call.mode # "unsigned" /\ call \in CallType
    BY <1>1, <1>4 DEF SignTx, Known
  <2>2. sdkCall' = [sdkCall EXCEPT ![c] = next]
    BY <1>4 DEF SignTx
  <2>3. next \in CallType /\ next.at = "signed" /\ next.mode = call.mode /\ next.seq = call.seq
    BY <2>1 DEF CallType, CallPoints
  <2> HIDE DEF next
  <2>4. CallInOrder(c, next, watch[c], toldOf[c], applied[c], mempool, pending, sdkAccount, rpcFaults)
    BY <1>1, <2>1, <2>3 DEF Known, CallInOrder, Heard, Unsent
  <2>5. UNCHANGED <<watch, toldOf, pending, mempool, applied, sdkAccount, rpcFaults>>
    BY <1>4 DEF SignTx, netVars
  <2> QED BY <2>2, <2>3, <2>4, <2>5, SilentMove
<1>5. ASSUME NEW rebuilt \in BOOLEAN, PrepareTx(c, rebuilt)
      PROVE  TransactionsInOrder'
  <2> DEFINE seq == IF rebuilt THEN NextSequence ELSE call.seq
             half == [call EXCEPT !.at = "prepared"]
             next == [half EXCEPT !.seq = seq]
  <2>1. call.at = "simulated" /\ call \in CallType
    BY <1>1, <1>5 DEF PrepareTx, Known
  <2>2. seq \in Nat
    BY <1>1, <2>1 DEF Known, NextSequence, CallType
  <2>3. sdkCall' = [sdkCall EXCEPT ![c] = next]
    BY <1>5, <2>1 DEF PrepareTx, CallType
  <2> HIDE DEF seq
  <2>4. half \in CallType /\ half.at = "prepared" /\ half.mode = call.mode
    BY <2>1 DEF CallType, CallPoints
  <2> HIDE DEF half
  <2>5. next \in CallType /\ next.at = "prepared" /\ next.mode = call.mode
    BY <2>2, <2>4 DEF CallType
  <2> HIDE DEF next
  <2>6. CallInOrder(c, next, watch[c], toldOf[c], applied[c], mempool, pending, sdkAccount, rpcFaults)
    BY <1>1, <2>1, <2>5 DEF Known, CallInOrder, Heard, Unsent
  <2>7. UNCHANGED <<watch, toldOf, pending, mempool, applied, sdkAccount, rpcFaults>>
    BY <1>5 DEF PrepareTx, netVars
  <2> QED BY <2>3, <2>5, <2>6, <2>7, SilentMove
<1> QED BY <1>2, <1>3, <1>4, <1>5 DEF WriteMethods

LEMMA SettledBeforeSent ==
  ASSUME TransactionsInOrder, NEW c \in Call, KeepUnsigned(c) \/ FailBeforeSend(c)
  PROVE  TransactionsInOrder'
<1>1. Known(c) /\ TransactionTypeOK
  BY AllKnown
<1> DEFINE call == sdkCall[c]
           outcome == IF KeepUnsigned(c) THEN "unsigned" ELSE "error"
           next == [call EXCEPT !.at = outcome]
<1>2. /\ call.at \in {"called", "simulated", "prepared"} /\ call \in CallType
      /\ outcome \in Settled /\ Settle(c, outcome) /\ toldOf[c] = Begun
      /\ outcome \in {"unsigned", "error"} /\ (outcome = "unsigned" => call.mode = "unsigned")
  BY <1>1 DEF KeepUnsigned, FailBeforeSend, Known, CallInOrder, Heard, Settled
<1>3. /\ pending' = (IF outcome = "unsigned" THEN pending \cup {c} ELSE pending)
      /\ UNCHANGED <<watch, mempool, applied, sdkAccount, rpcFaults>>
  BY DEF KeepUnsigned, FailBeforeSend, netVars
<1> HIDE DEF outcome
<1>4. next \in CallType /\ next.at = outcome /\ next.mode = call.mode /\ next.seq = call.seq
  BY <1>2 DEF CallType, CallPoints
<1>5. Moves(c, next) /\ Hears(c, LastStages(outcome))
  BY <1>1, <1>2, Settles
<1> HIDE DEF next
<1>6. CallInOrder(c, next, watch[c], LastStages(outcome), applied[c], mempool, pending', sdkAccount, rpcFaults)
  BY <1>1, <1>2, <1>3, <1>4 DEF Known, CallInOrder, Heard, Unsent, LastStages
<1>7. /\ watch' = [watch EXCEPT ![c] = watch[c]] /\ watch[c] \in WatchType
      /\ pending' \subseteq Call /\ rpcFaults' \in Nat /\ rpcFaults <= rpcFaults'
      /\ mempool' = mempool /\ applied' = applied /\ sdkAccount' = sdkAccount /\ rpcFaults' = rpcFaults
      /\ \A d \in Call \ {c} : d \in pending' <=> d \in pending
  BY <1>1, <1>3 DEF Known
<1>8. CallInOrder(c, next, watch[c], LastStages(outcome), applied[c], mempool, pending', sdkAccount, rpcFaults')
  BY <1>6, <1>7
<1> QED BY <1>4, <1>5, <1>7, <1>8, QuietMove

\* The ledger takes the transaction it holds, or drops it.
LEMMA LedgerStep ==
  ASSUME TransactionsInOrder, NEW c \in Call,
         (\E ending \in Verdict : ApplyTx(c, ending)) \/ ExpireTx(c)
  PROVE  TransactionsInOrder'
<1>1. Known(c) /\ TransactionTypeOK
  BY AllKnown
<1>2. c \in mempool /\ mempool' = mempool \ {c}
      /\ UNCHANGED <<sdkCall, watch, toldOf, pending, rpcFaults>>
  BY DEF ApplyTx, ExpireTx, callVars
<1>3. mempool' = {} /\ applied[c] = <<>> /\ sdkCall[c].seq = sdkAccount + 1
  BY <1>1, <1>2 DEF Known, CallInOrder, TransactionsInOrder
<1>4. /\ applied' \in [Call -> Verdicts] /\ (\A d \in Call \ {c} : applied'[d] = applied[d])
      /\ sdkAccount' \in Nat
      /\ \/ applied'[c] \in Verdicts /\ sdkAccount' = sdkAccount + 1
         \/ applied'[c] = <<>> /\ sdkAccount' = sdkAccount
  <2>1. ASSUME NEW ending \in Verdict, ApplyTx(c, ending)
        PROVE  /\ applied' \in [Call -> Verdicts] /\ (\A d \in Call \ {c} : applied'[d] = applied[d])
               /\ sdkAccount' \in Nat /\ applied'[c] \in Verdicts /\ sdkAccount' = sdkAccount + 1
    <3>1. Append(<<>>, ending) = <<ending>> /\ <<ending>> \in Verdicts
      BY DEF Verdict, Verdicts
    <3>2. applied' = [applied EXCEPT ![c] = <<ending>>] /\ sdkAccount' = sdkAccount + 1
      BY <1>3, <2>1, <3>1 DEF ApplyTx
    <3> QED BY <1>1, <3>1, <3>2 DEF Known, TransactionTypeOK
  <2>2. CASE ExpireTx(c)
    BY <1>1, <1>3, <2>2 DEF ExpireTx, TransactionTypeOK
  <2> QED BY <2>1, <2>2
<1>5. TransactionTypeOK'
  BY <1>1, <1>2, <1>4 DEF TransactionTypeOK
<1>6. CallInOrder(c, sdkCall'[c], watch'[c], toldOf'[c], applied'[c], mempool', pending', sdkAccount', rpcFaults')
  <2>1. sdkCall[c].at \notin Unsent /\ sdkCall[c].mode # "unsigned"
        /\ ~(sdkCall[c].at \in {"signed", "error"} /\ rpcFaults = 0)
        /\ sdkCall[c].at # "confirmed" /\ sdkCall[c].at # "failed"
    BY <1>1, <1>2, <1>3 DEF Known, CallInOrder, Unsent
  <2>2. sdkCall[c].seq <= sdkAccount + 1 /\ sdkAccount \in Nat
    BY <1>1, <1>3 DEF Known
  <2>3. applied'[c] # <<>> => sdkCall[c].seq <= sdkAccount'
    BY <1>4, <2>2, <1>3
  <2> QED BY <1>1, <1>2, <1>3, <2>1, <2>3 DEF Known, CallInOrder
<1>7. \A d \in Call \ {c} :
         /\ sdkCall'[d] = sdkCall[d] /\ watch'[d] = watch[d] /\ toldOf'[d] = toldOf[d]
         /\ applied'[d] = applied[d] /\ (d \in pending' <=> d \in pending)
         /\ d \in mempool' => d \in mempool /\ sdkAccount' = sdkAccount
  BY <1>2, <1>3, <1>4
<1>8. sdkAccount <= sdkAccount' /\ rpcFaults <= rpcFaults'
  BY <1>1, <1>2, <1>4 DEF Known
<1> QED BY <1>3, <1>5, <1>6, <1>7, <1>8, OneCallMoves

\* What the network does with a transaction it is sent: it takes it if it holds none and
\* the sequence number is the next one.
LEMMA Submitting ==
  ASSUME TransactionsInOrder, NEW c \in Call, Submit(c), sdkCall[c].mode # "unsigned"
  PROVE  /\ mempool' \subseteq Call /\ (\A d \in Call \ {c} : d \in mempool' => d \in mempool)
         /\ \A d, e \in mempool' : d = e
         /\ c \in mempool' => applied[c] = <<>> /\ sdkCall[c].seq = sdkAccount + 1
         /\ NetAnswer(c) = "ERROR" => mempool' = mempool /\ c \notin mempool
<1>1. Known(c)
  BY AllKnown
<1>2. sdkAccount \in Nat /\ sdkCall[c].seq \in Nat
  BY <1>1 DEF Known, CallType
<1>3. CASE c \in mempool
  BY <1>1, <1>3 DEF Submit, NetAnswer, Known, CallInOrder, TransactionsInOrder
<1>4. CASE c \notin mempool /\ sdkCall[c].seq = NextSequence /\ mempool = {}
  <2>1. applied[c] = <<>>
    BY <1>1, <1>2, <1>4 DEF Known, CallInOrder, NextSequence
  <2> QED BY <1>4, <2>1 DEF Submit, NetAnswer, NextSequence
<1>5. CASE c \notin mempool /\ (sdkCall[c].seq # NextSequence \/ mempool # {})
  BY <1>1, <1>5 DEF Submit, NetAnswer, Known, TransactionsInOrder
<1> QED BY <1>3, <1>4, <1>5

LEMMA SentMove ==
  ASSUME TransactionsInOrder, NEW c \in Call, Submit(c) \/ mempool' = mempool,
         sdkCall[c].mode # "unsigned",
         NEW next \in CallType, Moves(c, next), NEW stages, Hears(c, stages),
         NEW w \in WatchType, watch' = [watch EXCEPT ![c] = w],
         UNCHANGED <<pending, applied, sdkAccount>>, rpcFaults' \in Nat, rpcFaults <= rpcFaults',
         CallInOrder(c, next, w, stages, applied[c], mempool', pending, sdkAccount, rpcFaults')
  PROVE  TransactionsInOrder'
<1>1. Known(c) /\ TransactionTypeOK
  BY AllKnown
<1>2. /\ mempool' \subseteq Call /\ (\A d \in Call \ {c} : d \in mempool' => d \in mempool)
      /\ \A d, e \in mempool' : d = e
  BY <1>1, Submitting DEF Known, TransactionsInOrder
<1>3. watch' \in [Call -> WatchType] /\ watch'[c] = w /\ \A d \in Call \ {c} : watch'[d] = watch[d]
  BY <1>1 DEF TransactionTypeOK
<1>4. TransactionTypeOK'
  BY <1>1, <1>2, <1>3 DEF TransactionTypeOK, Moves, Hears
<1>5. \A d \in Call \ {c} :
         /\ sdkCall'[d] = sdkCall[d] /\ watch'[d] = watch[d] /\ toldOf'[d] = toldOf[d]
         /\ applied'[d] = applied[d] /\ (d \in pending' <=> d \in pending)
         /\ d \in mempool' => d \in mempool /\ sdkAccount' = sdkAccount
  BY <1>2, <1>3 DEF Moves, Hears
<1>6. CallInOrder(c, sdkCall'[c], watch'[c], toldOf'[c], applied'[c], mempool', pending',
                  sdkAccount', rpcFaults')
  BY <1>3 DEF Moves, Hears
<1>7. sdkAccount <= sdkAccount'
  BY <1>1 DEF Known
<1> QED BY <1>2, <1>4, <1>5, <1>6, <1>7, OneCallMoves

\* The first wait of a call, or one its caller began.
LEMMA BeginsWatch ==
  ASSUME NEW c \in Call, NEW abortable \in BOOLEAN, BeginWatch(c, abortable)
  PROVE  \E w \in WatchType : watch' = [watch EXCEPT ![c] = w] /\ w.abortable = abortable
<1> DEFINE half == [NoPoll EXCEPT !.poll = "due"]
           w == [half EXCEPT !.abortable = abortable]
<1>1. half \in WatchType
  BY DEF NoPoll, WatchType
<1>2. w = [NoPoll EXCEPT !.poll = "due", !.abortable = abortable]
  BY DEF NoPoll
<1>3. watch' = [watch EXCEPT ![c] = w]
  BY <1>2 DEF BeginWatch
<1> HIDE DEF half
<1>4. w \in WatchType /\ w.abortable = abortable
  BY <1>1 DEF WatchType
<1> QED BY <1>3, <1>4

LEMMA SendStep ==
  ASSUME TransactionsInOrder, NEW c \in Call, Send(c)
  PROVE  TransactionsInOrder'
<1>1. Known(c) /\ TransactionTypeOK
  BY AllKnown
<1> DEFINE call == sdkCall[c]
<1>2. /\ call.at = "signed" /\ call.mode # "unsigned" /\ call \in CallType /\ toldOf[c] = Begun
      /\ Submit(c) /\ AnswerSend(c) /\ UNCHANGED <<pending, applied, sdkAccount, rpcFaults>>
  BY <1>1 DEF Send, Known, CallInOrder, Heard, Unsent
<1>3. rpcFaults' \in Nat /\ rpcFaults <= rpcFaults' /\ rpcFaults' = rpcFaults
      /\ watch = [watch EXCEPT ![c] = watch[c]] /\ watch[c] \in WatchType
  BY <1>1, <1>2 DEF Known
<1>4. /\ c \in mempool' => applied[c] = <<>> /\ sdkCall[c].seq = sdkAccount + 1
      /\ NetAnswer(c) = "ERROR" => mempool' = mempool /\ c \notin mempool
  BY <1>2, Submitting
<1>5. ASSUME NEW outcome \in Settled, Settle(c, outcome), watch' = watch,
             outcome \in {"sent", "refused"} \/ (outcome = "error" /\ NetAnswer(c) = "ERROR")
      PROVE  TransactionsInOrder'
  <2> DEFINE next == [call EXCEPT !.at = outcome]
  <2>1. next \in CallType /\ next.at = outcome /\ next.mode = call.mode /\ next.seq = call.seq
    BY <1>2, <1>5 DEF CallType, CallPoints
  <2>2. Moves(c, next) /\ Hears(c, LastStages(outcome))
    BY <1>1, <1>2, <1>5, Settles
  <2> HIDE DEF next
  <2>3. CallInOrder(c, next, watch[c], LastStages(outcome), applied[c], mempool', pending, sdkAccount, rpcFaults)
    BY <1>1, <1>2, <1>4, <1>5, <2>1 DEF Known, CallInOrder, Heard, Unsent, LastStages
  <2>4. CallInOrder(c, next, watch[c], LastStages(outcome), applied[c], mempool', pending, sdkAccount, rpcFaults')
    BY <1>3, <2>3
  <2>5. watch' = [watch EXCEPT ![c] = watch[c]]
    BY <1>3, <1>5
  <2> QED BY <1>2, <1>3, <2>1, <2>2, <2>4, <2>5, SentMove
<1>6. CASE /\ sdkCall' = [sdkCall EXCEPT ![c].at = "waiting"]
           /\ BeginWatch(c, FALSE)
           /\ UNCHANGED <<toldOf, stored>>
  <2> DEFINE next == [call EXCEPT !.at = "waiting"]
  <2>1. next \in CallType /\ next.at = "waiting" /\ next.mode = call.mode /\ next.seq = call.seq
    BY <1>2 DEF CallType, CallPoints
  <2>2. sdkCall' = [sdkCall EXCEPT ![c] = next]
    BY <1>6
  <2> HIDE DEF next
  <2>3. Moves(c, next)
    BY <1>1, <2>1, <2>2, GoesOn
  <2>4. Hears(c, Begun)
    BY <1>1, <1>2, <1>6 DEF Hears, TransactionTypeOK, Stages
  <2>5. PICK w \in WatchType : watch' = [watch EXCEPT ![c] = w] /\ w.abortable = FALSE
    BY <1>6, BeginsWatch
  <2>6. CallInOrder(c, next, w, Begun, applied[c], mempool', pending, sdkAccount, rpcFaults)
    BY <1>1, <1>2, <1>4, <2>1, <2>5 DEF Known, CallInOrder, Heard, Unsent
  <2>7. CallInOrder(c, next, w, Begun, applied[c], mempool', pending, sdkAccount, rpcFaults')
    BY <1>3, <2>6
  <2> QED BY <1>2, <1>3, <2>1, <2>3, <2>4, <2>5, <2>7, SentMove
<1>7. "error" \in Settled /\ "sent" \in Settled /\ "refused" \in Settled
  BY DEF Settled
<1> QED BY <1>2, <1>5, <1>6, <1>7 DEF AnswerSend

LEMMA LoseStep ==
  ASSUME TransactionsInOrder, NEW c \in Call, NEW reached \in BOOLEAN, NEW fault \in RequestFault,
         LoseSend(c, reached, fault)
  PROVE  TransactionsInOrder'
<1>1. Known(c) /\ TransactionTypeOK
  BY AllKnown
<1> DEFINE call == sdkCall[c]
<1>2. /\ call.at = "signed" /\ call.mode # "unsigned" /\ call \in CallType /\ toldOf[c] = Begun
      /\ Submit(c) \/ mempool' = mempool
      /\ UNCHANGED <<watch, pending, applied, sdkAccount>> /\ rpcFaults' = rpcFaults + 1
  BY <1>1 DEF LoseSend, Known, CallInOrder, Heard, Unsent
<1>3. rpcFaults' \in Nat /\ rpcFaults <= rpcFaults' /\ rpcFaults' # 0
      /\ watch' = [watch EXCEPT ![c] = watch[c]] /\ watch[c] \in WatchType
  BY <1>1, <1>2 DEF Known
<1>4. c \in mempool' => applied[c] = <<>> /\ sdkCall[c].seq = sdkAccount + 1
  BY <1>1, <1>2, Submitting DEF Known, CallInOrder
<1>5. CASE /\ sdkCall' = [sdkCall EXCEPT ![c].tries = @ + 1]
           /\ UNCHANGED <<toldOf, stored>>
  <2> DEFINE next == [call EXCEPT !.tries = @ + 1]
  <2>1. next \in CallType /\ next.at = "signed" /\ next.mode = call.mode /\ next.seq = call.seq
    BY <1>2 DEF CallType
  <2>2. sdkCall' = [sdkCall EXCEPT ![c] = next]
    BY <1>5
  <2> HIDE DEF next
  <2>3. Moves(c, next)
    BY <1>1, <2>1, <2>2, GoesOn
  <2>4. Hears(c, Begun)
    BY <1>1, <1>2, <1>5 DEF Hears, TransactionTypeOK, Stages
  <2>5. CallInOrder(c, next, watch[c], Begun, applied[c], mempool', pending, sdkAccount, rpcFaults')
    BY <1>1, <1>2, <1>3, <1>4, <2>1 DEF Known, CallInOrder, Heard, Unsent
  <2> QED BY <1>2, <1>3, <2>1, <2>3, <2>4, <2>5, SentMove
<1>6. CASE Settle(c, "error")
  <2> DEFINE next == [call EXCEPT !.at = "error"]
  <2>0. "error" \in Settled
    BY DEF Settled
  <2>1. next \in CallType /\ next.at = "error" /\ next.mode = call.mode /\ next.seq = call.seq
    BY <1>2, <2>0 DEF CallType, CallPoints
  <2>2. Moves(c, next) /\ Hears(c, LastStages("error"))
    BY <1>1, <1>2, <1>6, <2>0, Settles
  <2> HIDE DEF next
  <2>3. CallInOrder(c, next, watch[c], LastStages("error"), applied[c], mempool', pending, sdkAccount, rpcFaults')
    BY <1>1, <1>2, <1>3, <1>4, <2>1 DEF Known, CallInOrder, Heard, Unsent, LastStages
  <2> QED BY <1>2, <1>3, <2>1, <2>2, <2>3, SentMove
<1> QED BY <1>5, <1>6 DEF LoseSend

-----------------------------------------------------------------------------
(* The wait for a verdict *)

\* A step of the wait: the promise stays as it is, or settles with what is known.
LEMMA WatchStays ==
  ASSUME TransactionsInOrder, NEW c \in Call, NEW w \in WatchType,
         watch' = [watch EXCEPT ![c] = w], w.abortable = watch[c].abortable,
         UNCHANGED <<sdkCall, toldOf, pending, mempool, applied, sdkAccount>>,
         rpcFaults' \in Nat, rpcFaults <= rpcFaults'
  PROVE  TransactionsInOrder'
<1>1. Known(c) /\ TransactionTypeOK
  BY AllKnown
<1>2. sdkCall[c] \in CallType /\ Moves(c, sdkCall[c]) /\ Hears(c, toldOf[c])
  BY <1>1 DEF Moves, Hears, TransactionTypeOK
<1>3. pending' \subseteq Call
  BY <1>1 DEF Known
<1>4. CallInOrder(c, sdkCall[c], w, toldOf[c], applied[c], mempool, pending, sdkAccount, rpcFaults')
  BY <1>1 DEF Known, CallInOrder, Heard
<1>5. CallInOrder(c, sdkCall[c], w, toldOf[c], applied[c], mempool, pending', sdkAccount, rpcFaults')
  BY <1>4
<1> QED BY <1>2, <1>3, <1>5, QuietMove

LEMMA WatchEnds ==
  ASSUME TransactionsInOrder, NEW c \in Call, NEW w \in WatchType, NEW outcome \in WaitOutcomes,
         watch' = [watch EXCEPT ![c] = w], w.abortable = watch[c].abortable,
         Active(c), SettleWatch(c, outcome),
         outcome = "confirmed" => applied[c] = <<"SUCCESS">>,
         outcome = "failed" => applied[c] = <<"FAILED">>,
         UNCHANGED <<pending, mempool, applied, sdkAccount>>,
         rpcFaults' \in Nat, rpcFaults <= rpcFaults'
  PROVE  TransactionsInOrder'
<1>1. Known(c) /\ TransactionTypeOK
  BY AllKnown
<1> DEFINE call == sdkCall[c]
           next == [call EXCEPT !.at = outcome]
<1>2. call \in CallType /\ call.at = "waiting" /\ Heard("waiting", watch[c].abortable, toldOf[c])
  BY <1>1 DEF Known, CallInOrder, Active
<1>3. PICK stages \in Stages :
        Moves(c, next) /\ Hears(c, stages) /\ Heard(outcome, watch[c].abortable, stages)
  BY <1>1, <1>2, WatchSettles
<1>4. next \in CallType /\ next.at = outcome /\ next.mode = call.mode /\ next.seq = call.seq
  BY <1>2 DEF CallType, CallPoints, WaitOutcomes, Settled
<1> HIDE DEF next
<1>5. CallInOrder(c, next, w, stages, applied[c], mempool, pending, sdkAccount, rpcFaults')
  <2>1. c \notin pending /\ call.mode # "unsigned" /\ next.at \notin Unsent \cup {"signed", "error"}
        /\ next.at # "unsigned" /\ (next.at = "confirmed" => applied[c] = <<"SUCCESS">>)
        /\ (next.at = "failed" => applied[c] = <<"FAILED">>)
    BY <1>1, <1>2, <1>4 DEF Known, CallInOrder, Unsent, WaitOutcomes
  <2> QED BY <1>1, <1>2, <1>3, <1>4, <2>1 DEF Known, CallInOrder
<1>6. CallInOrder(c, next, w, stages, applied[c], mempool, pending', sdkAccount, rpcFaults')
      /\ pending' \subseteq Call
  BY <1>1, <1>5 DEF Known
<1> QED BY <1>3, <1>4, <1>6, QuietMove

LEMMA WatchStep ==
  ASSUME TransactionsInOrder, NEW c \in Call,
         \/ WatchSent(c) \/ PollOnce(c) \/ FailPoll(c) \/ TimeOut(c) \/ Abort(c)
         \/ \E status \in Verdict \union {"NOT_FOUND"} : AnswerStatus(c, status)
  PROVE  TransactionsInOrder'
<1>1. Known(c) /\ TransactionTypeOK
  BY AllKnown
<1>2. watch[c] \in WatchType /\ rpcFaults \in Nat /\ Append(<<>>, "SUCCESS") = <<"SUCCESS">>
  BY <1>1 DEF Known
<1>3. CASE WatchSent(c)
  <2> DEFINE call == sdkCall[c]
             next == [call EXCEPT !.at = "waiting"]
  <2>1. call.at = "sent" /\ call \in CallType /\ toldOf[c] = Submitted
    BY <1>1, <1>3 DEF WatchSent, Known, CallInOrder, Heard
  <2>2. next \in CallType /\ next.at = "waiting" /\ next.mode = call.mode /\ next.seq = call.seq
    BY <2>1 DEF CallType, CallPoints
  <2>3. sdkCall' = [sdkCall EXCEPT ![c] = next] /\ toldOf' = toldOf
    BY <1>3 DEF WatchSent
  <2> HIDE DEF next
  <2>4. Moves(c, next) /\ Hears(c, toldOf[c])
    BY <1>1, <2>2, <2>3, GoesOn DEF Hears, TransactionTypeOK
  <2>5. PICK w \in WatchType : watch' = [watch EXCEPT ![c] = w] /\ w.abortable = TRUE
    BY <1>3, BeginsWatch DEF WatchSent
  <2>6. UNCHANGED <<pending, mempool, applied, sdkAccount, rpcFaults>>
    BY <1>3 DEF WatchSent, netVars
  <2>7. CallInOrder(c, next, w, toldOf[c], applied[c], mempool, pending, sdkAccount, rpcFaults)
    BY <1>1, <2>1, <2>2, <2>5 DEF Known, CallInOrder, Heard, Unsent
  <2>8. CallInOrder(c, next, w, toldOf[c], applied[c], mempool, pending', sdkAccount, rpcFaults')
        /\ pending' \subseteq Call /\ rpcFaults' \in Nat /\ rpcFaults <= rpcFaults'
    BY <1>1, <2>6, <2>7 DEF Known
  <2> QED BY <2>2, <2>4, <2>5, <2>6, <2>8, QuietMove
<1>4. CASE PollOnce(c)
  <2> DEFINE w == [watch[c] EXCEPT !.poll = "asking"]
  <2>1. w \in WatchType /\ w.abortable = watch[c].abortable
    BY <1>2 DEF WatchType
  <2>2. watch' = [watch EXCEPT ![c] = w]
    BY <1>4 DEF PollOnce
  <2>3. UNCHANGED <<sdkCall, toldOf, pending, mempool, applied, sdkAccount>> /\ rpcFaults' = rpcFaults
    BY <1>4 DEF PollOnce, netVars
  <2>4. rpcFaults' \in Nat /\ rpcFaults <= rpcFaults'
    BY <1>2, <2>3
  <2> QED BY <2>1, <2>2, <2>3, <2>4, WatchStays
<1>5. CASE FailPoll(c)
  <2>1. UNCHANGED <<pending, mempool, applied, sdkAccount>> /\ rpcFaults' = rpcFaults + 1
        /\ rpcFaults' \in Nat /\ rpcFaults <= rpcFaults'
    BY <1>2, <1>5 DEF FailPoll, netVars
  <2> DEFINE quiet == [watch[c] EXCEPT !.poll = "none"]
             due == [watch[c] EXCEPT !.poll = "due"]
             again == [due EXCEPT !.errors = @ + 1]
             over == [quiet EXCEPT !.errors = @ + 1]
  <2>2. quiet \in WatchType /\ due \in WatchType
        /\ quiet.abortable = watch[c].abortable /\ due.abortable = watch[c].abortable
    BY <1>2 DEF WatchType
  <2>3. again = [watch[c] EXCEPT !.poll = "due", !.errors = @ + 1]
        /\ over = [watch[c] EXCEPT !.poll = "none", !.errors = @ + 1]
    BY <1>2 DEF WatchType
  <2>a. \/ watch' = [watch EXCEPT ![c].poll = "none"] /\ UNCHANGED <<sdkCall, toldOf>>
        \/ watch' = [watch EXCEPT ![c].poll = "due", ![c].errors = @ + 1] /\ UNCHANGED <<sdkCall, toldOf>>
        \/ /\ Active(c) /\ SettleWatch(c, "network")
           /\ watch' = [watch EXCEPT ![c].poll = "none", ![c].errors = @ + 1]
    BY <1>5 DEF FailPoll
  <2>4. \/ watch' = [watch EXCEPT ![c] = quiet] /\ UNCHANGED <<sdkCall, toldOf>>
        \/ watch' = [watch EXCEPT ![c] = again] /\ UNCHANGED <<sdkCall, toldOf>>
        \/ watch' = [watch EXCEPT ![c] = over] /\ Active(c) /\ SettleWatch(c, "network")
    <3>1. watch \in [Call -> WatchType]
      BY <1>1 DEF TransactionTypeOK
    <3> QED BY <2>a, <2>3, <3>1
  <2> HIDE DEF quiet, due
  <2>5. again \in WatchType /\ over \in WatchType
        /\ again.abortable = watch[c].abortable /\ over.abortable = watch[c].abortable
    BY <2>2 DEF WatchType
  <2> HIDE DEF again, over
  <2>6. "network" \in WaitOutcomes /\ "network" # "confirmed" /\ "network" # "failed"
    BY DEF WaitOutcomes
  <2>7. CASE watch' = [watch EXCEPT ![c] = quiet] /\ UNCHANGED <<sdkCall, toldOf>>
    BY <2>1, <2>2, <2>7, WatchStays
  <2>8. CASE watch' = [watch EXCEPT ![c] = again] /\ UNCHANGED <<sdkCall, toldOf>>
    BY <2>1, <2>5, <2>8, WatchStays
  <2>9. CASE watch' = [watch EXCEPT ![c] = over] /\ Active(c) /\ SettleWatch(c, "network")
    BY <2>1, <2>5, <2>6, <2>9, WatchEnds
  <2> QED BY <2>4, <2>7, <2>8, <2>9
<1>6. ASSUME NEW outcome \in {"timeout", "aborted"}, Active(c), SettleWatch(c, outcome),
             watch' = [watch EXCEPT ![c].poll = IF @ = "due" THEN "none" ELSE @],
             UNCHANGED <<pending, netVars, rpcFaults>>
      PROVE  TransactionsInOrder'
  <2> DEFINE turn == IF watch[c].poll = "due" THEN "none" ELSE watch[c].poll
             w == [watch[c] EXCEPT !.poll = turn]
  <2>1. turn \in {"none", "due", "asking"}
    BY <1>2 DEF WatchType
  <2>2. watch' = [watch EXCEPT ![c] = w]
    BY <1>6
  <2> HIDE DEF turn
  <2>3. w \in WatchType /\ w.abortable = watch[c].abortable
    BY <1>2, <2>1 DEF WatchType
  <2> HIDE DEF w
  <2>4. outcome \in WaitOutcomes /\ outcome # "confirmed" /\ outcome # "failed"
    BY DEF WaitOutcomes
  <2>5. UNCHANGED <<pending, mempool, applied, sdkAccount>> /\ rpcFaults' \in Nat /\ rpcFaults <= rpcFaults'
    BY <1>2, <1>6 DEF netVars
  <2> QED BY <1>6, <2>2, <2>3, <2>4, <2>5, WatchEnds
<1>7. ASSUME NEW status \in Verdict \union {"NOT_FOUND"}, AnswerStatus(c, status)
      PROVE  TransactionsInOrder'
  <2>1. UNCHANGED <<pending, mempool, applied, sdkAccount>> /\ rpcFaults' \in Nat
        /\ rpcFaults <= rpcFaults'
    BY <1>2, <1>7 DEF AnswerStatus, netVars
  <2> DEFINE quiet == [watch[c] EXCEPT !.poll = "none"]
             due == [watch[c] EXCEPT !.poll = "due"]
             again == [due EXCEPT !.errors = 0]
             outcome == IF status = "SUCCESS" THEN "confirmed" ELSE "failed"
  <2>2. quiet \in WatchType /\ due \in WatchType
        /\ quiet.abortable = watch[c].abortable /\ due.abortable = watch[c].abortable
    BY <1>2 DEF WatchType
  <2>3. \/ watch' = [watch EXCEPT ![c] = quiet] /\ UNCHANGED <<sdkCall, toldOf>>
        \/ watch' = [watch EXCEPT ![c] = again] /\ UNCHANGED <<sdkCall, toldOf>>
        \/ /\ watch' = [watch EXCEPT ![c] = quiet] /\ Active(c) /\ SettleWatch(c, outcome)
           /\ status \in Verdict /\ applied[c] # <<>> /\ status = Last(applied[c])
    <3>1. watch \in [Call -> WatchType]
      BY <1>1 DEF TransactionTypeOK
    <3>2. again = [watch[c] EXCEPT !.poll = "due", !.errors = 0]
      BY <1>2 DEF WatchType
    <3>3. status = "NOT_FOUND" => status \notin Verdict
      BY DEF Verdict
    <3> QED BY <1>7, <3>1, <3>2, <3>3 DEF AnswerStatus
  <2> HIDE DEF quiet, due
  <2>4. again \in WatchType /\ again.abortable = watch[c].abortable
    BY <2>2 DEF WatchType
  <2> HIDE DEF again
  <2>5. CASE watch' = [watch EXCEPT ![c] = quiet] /\ UNCHANGED <<sdkCall, toldOf>>
    BY <2>1, <2>2, <2>5, WatchStays
  <2>6. CASE watch' = [watch EXCEPT ![c] = again] /\ UNCHANGED <<sdkCall, toldOf>>
    BY <2>1, <2>4, <2>6, WatchStays
  <2>7. CASE /\ watch' = [watch EXCEPT ![c] = quiet] /\ Active(c) /\ SettleWatch(c, outcome)
             /\ status \in Verdict /\ applied[c] # <<>> /\ status = Last(applied[c])
    <3>1. applied[c] \in {<<"SUCCESS">>, <<"FAILED">>} /\ status \in {"SUCCESS", "FAILED"}
      BY <1>1, <2>7 DEF Known, Verdicts, Verdict
    <3>2. Last(<<"SUCCESS">>) = "SUCCESS" /\ Last(<<"FAILED">>) = "FAILED"
      BY DEF Last
    <3>3. applied[c] = <<status>>
      BY <2>7, <3>1, <3>2
    <3>4. outcome \in WaitOutcomes /\ (outcome = "confirmed" => status = "SUCCESS")
          /\ (outcome = "failed" => status = "FAILED")
      BY <3>1 DEF WaitOutcomes
    <3> HIDE DEF outcome
    <3>5. (outcome = "confirmed" => applied[c] = <<"SUCCESS">>)
          /\ (outcome = "failed" => applied[c] = <<"FAILED">>)
      BY <3>3, <3>4
    <3> QED BY <2>1, <2>2, <2>7, <3>4, <3>5, WatchEnds
  <2> QED BY <2>3, <2>5, <2>6, <2>7
<1>8. CASE TimeOut(c)
  BY <1>6, <1>8 DEF TimeOut
<1>9. CASE Abort(c)
  BY <1>6, <1>9 DEF Abort
<1> QED BY <1>3, <1>4, <1>5, <1>7, <1>8, <1>9

LEMMA TransactionStep ==
  ASSUME TransactionsInOrder, [TransactionNext]_transactionVars
  PROVE  TransactionsInOrder'
<1>1. CASE UNCHANGED transactionVars
  BY <1>1 DEF TransactionsInOrder, TransactionTypeOK, transactionVars, callVars, netVars
<1>2. ASSUME NEW c \in Call, WriteMethods(c) \/ CallStep(c)
      PROVE  TransactionsInOrder'
  BY <1>2, PreparesStep, SettledBeforeSent, SendStep DEF CallStep
<1>3. ASSUME NEW c \in Call, NEW reached \in BOOLEAN, NEW fault \in RequestFault,
             LoseSend(c, reached, fault)
      PROVE  TransactionsInOrder'
  BY <1>3, LoseStep
<1>4. ASSUME NEW c \in Call, (\E ending \in Verdict : ApplyTx(c, ending)) \/ ExpireTx(c)
      PROVE  TransactionsInOrder'
  BY <1>4, LedgerStep
<1>5. ASSUME NEW c \in Call,
             \/ WatchSent(c) \/ PollOnce(c) \/ FailPoll(c) \/ TimeOut(c) \/ Abort(c)
             \/ \E status \in Verdict \union {"NOT_FOUND"} : AnswerStatus(c, status)
      PROVE  TransactionsInOrder'
  BY <1>5, WatchStep
<1> QED BY <1>1, <1>2, <1>3, <1>4, <1>5 DEF TransactionNext

LEMMA TransactionsSound ==
  ASSUME TransactionsInOrder
  PROVE  WritesAreSound
<1>1. ASSUME NEW c \in Call
      PROVE  Known(c)
  BY AllKnown
<1>2. AppliedOnce
  <2>1. \A verdicts \in Verdicts : Len(verdicts) <= 1
    BY DEF Verdicts
  <2> QED BY <1>1, <2>1 DEF AppliedOnce, Known
<1>3. VerdictsAreTrue
  BY <1>1 DEF VerdictsAreTrue, Known, CallInOrder
<1>4. OnlySentIsApplied
  BY <1>1 DEF OnlySentIsApplied, Known, CallInOrder, Unsent
<1>5. TrackerIsInOrder
  <2>1. ASSUME NEW stages \in Stages, Contains(stages, "confirmed")
        PROVE  stages = Confirmed
    BY <2>1 DEF Stages, Contains, Begun, Submitted, Confirmed, Failed
  <2>2. ASSUME NEW c \in Call, toldOf[c] = Confirmed
        PROVE  applied[c] = <<"SUCCESS">>
    <3>1. Confirmed # Submitted /\ Confirmed # Begun /\ Confirmed # Failed /\ Confirmed # <<>>
      BY DEF Confirmed, Submitted, Begun, Failed
    <3>2. Heard(sdkCall[c].at, watch[c].abortable, Confirmed) /\ sdkCall[c].at \in CallPoints
      BY <1>1, <2>2 DEF Known, CallInOrder, CallType
    <3>3. sdkCall[c].at = "confirmed"
      BY <3>1, <3>2 DEF Heard, CallPoints, Settled
    <3> QED BY <1>1, <3>3 DEF Known, CallInOrder
  <2>3. ASSUME NEW c \in Call
        PROVE  toldOf[c] \in Stages
    BY <1>1 DEF Known
  <2> QED BY <2>1, <2>2, <2>3 DEF TrackerIsInOrder, Stages, Begun, Submitted, Confirmed, Failed
<1> QED BY <1>2, <1>3, <1>4, <1>5, FeesCover DEF WritesAreSound

\* A promise that is settled is not settled again: the steps that settle one ask for it.
LEMMA PromisesKept ==
  ASSUME TransactionsInOrder, [TransactionNext]_transactionVars, NEW c \in Call,
         sdkCall[c].at \in Settled \ {"sent"}
  PROVE  sdkCall'[c].at = sdkCall[c].at
<1>1. sdkCall \in [Call -> CallType] /\ CallType # {} /\ toldOf \in [Call -> Stages]
  BY DEF TransactionsInOrder, TransactionTypeOK
<1>2. sdkCall[c].at \notin {"idle", "called", "simulated", "prepared", "signed", "waiting", "sent"}
  BY DEF Settled
<1>3. CASE UNCHANGED sdkCall
  BY <1>3
<1>4. ASSUME NEW d \in Call, NEW next, sdkCall' = [sdkCall EXCEPT ![d] = next],
             sdkCall[d].at \in {"idle", "called", "simulated", "prepared", "signed", "waiting", "sent"}
      PROVE  sdkCall'[c].at = sdkCall[c].at
  BY <1>1, <1>2, <1>4
<1>5. ASSUME NEW d \in Call, NEW outcome, Settle(d, outcome) \/ SettleWatch(d, outcome),
             sdkCall[d].at \in {"called", "simulated", "prepared", "signed", "waiting"}
      PROVE  sdkCall'[c].at = sdkCall[c].at
  <2>1. sdkCall' = [sdkCall EXCEPT ![d] = [sdkCall[d] EXCEPT !.at = outcome]]
    BY <1>5 DEF Settle, SettleWatch
  <2> QED BY <1>4, <1>5, <2>1
<1>6. ASSUME NEW d \in Call, WriteMethods(d) \/ BuildTx(d) \/ SignTx(d)
                             \/ (\E rebuilt \in BOOLEAN : PrepareTx(d, rebuilt)) \/ WatchSent(d)
      PROVE  sdkCall'[c].at = sdkCall[c].at
  <2>1. \E next : sdkCall' = [sdkCall EXCEPT ![d] = next]
    BY <1>1, <1>6 DEF WriteMethods, StartCall, BuildTx, SignTx, PrepareTx, WatchSent
  <2>2. sdkCall[d].at \in {"idle", "called", "simulated", "prepared", "signed", "waiting", "sent"}
    BY <1>6 DEF WriteMethods, StartCall, BuildTx, SignTx, PrepareTx, WatchSent
  <2> QED BY <1>4, <2>1, <2>2
<1>7. ASSUME NEW d \in Call, KeepUnsigned(d) \/ FailBeforeSend(d)
      PROVE  sdkCall'[c].at = sdkCall[c].at
  BY <1>5, <1>7 DEF KeepUnsigned, FailBeforeSend
<1>8. ASSUME NEW d \in Call, Send(d)
      PROVE  sdkCall'[c].at = sdkCall[c].at
  <2>1. sdkCall[d].at = "signed"
    BY <1>8 DEF Send
  <2>2. CASE sdkCall' = [sdkCall EXCEPT ![d].at = "waiting"]
    BY <1>4, <2>1, <2>2
  <2>3. CASE \E outcome \in {"error", "sent", "refused"} : Settle(d, outcome)
    BY <1>5, <2>1, <2>3
  <2> QED BY <1>8, <2>2, <2>3 DEF Send, AnswerSend
<1>9. ASSUME NEW d \in Call, NEW reached \in BOOLEAN, NEW fault \in RequestFault, LoseSend(d, reached, fault)
      PROVE  sdkCall'[c].at = sdkCall[c].at
  <2>1. sdkCall[d].at = "signed"
    BY <1>9 DEF LoseSend
  <2>2. CASE sdkCall' = [sdkCall EXCEPT ![d].tries = @ + 1]
    BY <1>4, <2>1, <2>2
  <2>3. CASE Settle(d, "error")
    BY <1>5, <2>1, <2>3
  <2> QED BY <1>9, <2>2, <2>3 DEF LoseSend
<1>10. ASSUME NEW d \in Call, (\E ending \in Verdict : ApplyTx(d, ending)) \/ ExpireTx(d) \/ PollOnce(d)
      PROVE  UNCHANGED sdkCall
  BY <1>10 DEF ApplyTx, ExpireTx, PollOnce, callVars
<1>11. ASSUME NEW d \in Call, FailPoll(d)
       PROVE  sdkCall'[c].at = sdkCall[c].at
  <2>1. CASE Active(d) /\ SettleWatch(d, "network")
    BY <1>5, <2>1 DEF Active
  <2> QED BY <1>3, <1>11, <2>1 DEF FailPoll
<1>12. ASSUME NEW d \in Call, TimeOut(d) \/ Abort(d)
       PROVE  sdkCall'[c].at = sdkCall[c].at
  BY <1>5, <1>12 DEF TimeOut, Abort, Active
<1>13. ASSUME NEW d \in Call, NEW status \in Verdict \union {"NOT_FOUND"}, AnswerStatus(d, status)
       PROVE  sdkCall'[c].at = sdkCall[c].at
  <2>1. CASE Active(d) /\ SettleWatch(d, IF status = "SUCCESS" THEN "confirmed" ELSE "failed")
    BY <1>5, <2>1 DEF Active
  <2> QED BY <1>3, <1>13, <2>1 DEF AnswerStatus
<1>14. ASSUME NEW d \in Call, CallStep(d)
       PROVE  sdkCall'[c].at = sdkCall[c].at
  BY <1>6, <1>7, <1>8, <1>14 DEF CallStep
<1>15. CASE UNCHANGED transactionVars
  BY <1>3, <1>15 DEF transactionVars, callVars
<1>16. CASE TransactionNext
  <2>1. PICK d \in Call :
           \/ WriteMethods(d) \/ CallStep(d)
           \/ \E reached \in BOOLEAN, fault \in RequestFault : LoseSend(d, reached, fault)
           \/ \E ending \in Verdict : ApplyTx(d, ending)
           \/ ExpireTx(d)
           \/ WatchSent(d) \/ PollOnce(d) \/ FailPoll(d) \/ TimeOut(d) \/ Abort(d)
           \/ \E status \in Verdict \union {"NOT_FOUND"} : AnswerStatus(d, status)
    BY <1>16 DEF TransactionNext
  <2> QED BY <1>3, <1>6, <1>9, <1>10, <1>11, <1>12, <1>13, <1>14, <2>1
<1> QED BY <1>15, <1>16

-----------------------------------------------------------------------------
(* The frontend's transactions (useContractTransaction.ts).                *)

Votes == {"none", "yes", "no"}
HookType2 == [simulating : BOOLEAN, pending : BOOLEAN, success : BOOLEAN,
              hash : Exec \cup {None}, error : BOOLEAN]
ExecType == [step : {"idle", "upload", "build", "simulate", "sign", "send", "poll", "second", "done"},
             asks : Votes, seq : Nat, verdict : {"none", "failed", "success"},
             second : BOOLEAN, fault : BOOLEAN]
NetStates == {"none", "pending", "applied", "failed", "expired"}
LiveVotes == [mine : Votes, others : Nat]
ContractPageType == [submitting : BOOLEAN, shown : Votes, lastLive : LiveVotes, chosen : Votes,
                     modal : {"closed", "open", "leaving", "left"}, told : Votes \cup {"nothing"}]
WebTroubleType == [errors : Nat, others : Nat, overlapped : BOOLEAN]
WebTxTypeOK ==
    /\ kind \in Kinds /\ hook \in HookType2 /\ contractPage \in ContractPageType
    /\ exec \in [Exec -> ExecType] /\ net \in [Exec -> NetStates]
    /\ sequence \in Nat /\ ledgerNow \in Seq(Exec) /\ live \in LiveVotes
    /\ trouble \in WebTroubleType

AtRest == {"idle", "done"}

\* An execution x whose transaction is n at the network.
ExecSound(x, n, there) ==
    /\ n = "applied" <=> there
    /\ n # "none" => x.step \in {"poll", "second", "done"} \/ x.second
    /\ x.step \in {"idle", "upload", "sign", "send", "poll"} => ~x.second
    /\ x.verdict = "success" => x.step = "done" /\ there
    /\ x.step \in {"upload", "second"} \/ x.second => kind = "proof"
    /\ kind # "proof" /\ x.step = "done" /\ x.verdict = "failed" /\ ~x.fault
          => n \notin {"applied", "pending"}
    /\ x.step \in {"idle", "upload", "build"} /\ ~x.second => x.seq = 0

ExecsSound == \A e \in Exec : ExecSound(exec[e], net[e], e \in Applied)

\* What a page says was applied, it was.
SaidIsApplied ==
    /\ hook.success => \E e \in Applied : exec[e].verdict = "success"
    /\ contractPage.told # "nothing" => \E e \in Applied : exec[e].asks = contractPage.told
    /\ live.mine # "none" => \E e \in Applied : exec[e].asks = live.mine

\* A vote that is shown is on the chain, or on its way, and one is at a time.
VoteIsKnown ==
    /\ contractPage.shown # "none" =>
          kind = "vote" /\ \E e \in Applied \cup AtWork : exec[e].asks = contractPage.shown
    /\ kind = "vote" => \A d, e \in AtWork : d = e
    /\ kind = "vote" /\ AtWork # {} => contractPage.submitting
    /\ contractPage.submitting => kind = "vote" /\ AtWork # {}

\* Somebody will take down each flag, and the modal of a deployment can be closed.
FlagsAreKnown ==
    /\ hook.simulating =>
          \E e \in Exec : exec[e].step = "simulate" \/ (exec[e].step = "build" /\ kind = "proof")
    /\ hook.pending => \E e \in Exec : exec[e].step \in {"send", "poll"}
ModalIsKnown ==
    contractPage.modal = "open" =>
        /\ kind = "create"
        /\ AtWork # {} \/ hook.error \/ \E e \in Exec : exec[e].seq = 0 /\ exec[e].step = "done"

\* Executions that do not overlap own the hook.
OwnsHook ==
    ~trouble.overlapped =>
        /\ \A d, e \in AtWork : d = e
        /\ \A e \in Exec :
              /\ exec[e].step \in {"simulate", "sign", "send", "poll"} => ~hook.error /\ ~hook.success
              /\ exec[e].step \in {"send", "poll"} => hook.pending
              /\ exec[e].step = "poll" => hook.hash = e
        /\ hook.success => hook.hash \in Applied

\* The inductive invariant.
WebTxInOrder ==
    /\ WebTxTypeOK /\ ExecsSound /\ SaidIsApplied /\ VoteIsKnown /\ FlagsAreKnown
    /\ ModalIsKnown /\ OwnsHook

LEMMA WebTxSound == WebTxInOrder => PagesAreHonest
<1> SUFFICES ASSUME WebTxInOrder PROVE PagesAreHonest
  OBVIOUS
<1> USE DEF WebTxInOrder
<1>1. SuccessIsTrue
  BY DEF ExecsSound, ExecSound, SaidIsApplied, OwnsHook, SuccessIsTrue
<1>2. FailureIsFinal
  BY DEF ExecsSound, ExecSound, FailureIsFinal, Outlives
<1>3. ShownVoteExists
  BY DEF VoteIsKnown, ShownVoteExists
<1>4. PageComesBack
  <2> SUFFICES ASSUME AtWork = {} PROVE /\ ~Busy /\ ~contractPage.submitting
                                        /\ contractPage.modal = "open" =>
                                             hook.error \/ \E e \in Exec : exec[e].seq = 0 /\ exec[e].step = "done"
    BY DEF PageComesBack
  <2>1. \A e \in Exec : exec[e].step \in {"idle", "done"}
    BY DEF AtWork
  <2> QED BY <2>1 DEF VoteIsKnown, FlagsAreKnown, ModalIsKnown, Busy
<1> QED BY <1>1, <1>2, <1>3, <1>4 DEF PagesAreHonest

LEMMA WebTxInitially == WebTxInit => WebTxInOrder
<1> SUFFICES ASSUME WebTxInit PROVE WebTxInOrder
  OBVIOUS
<1>1. Applied = {} /\ AtWork = {}
  <2>1. DOMAIN ledgerNow = {}
    BY DEF WebTxInit
  <2> QED BY <2>1 DEF WebTxInit, Applied, AtWork, NotStarted
<1>2. WebTxTypeOK
  BY DEF WebTxInit, WebTxTypeOK, NotStarted, Quiet, HookType2, ExecType, NetStates, LiveVotes,
         ContractPageType, WebTroubleType, Votes, None
<1>3. ExecsSound
  BY <1>1 DEF WebTxInit, ExecsSound, ExecSound, NotStarted
<1>4. SaidIsApplied /\ VoteIsKnown /\ FlagsAreKnown /\ ModalIsKnown
  BY <1>1 DEF WebTxInit, Quiet, SaidIsApplied, VoteIsKnown, FlagsAreKnown, ModalIsKnown
<1>5. OwnsHook
  BY <1>1 DEF WebTxInit, Quiet, NotStarted, OwnsHook
<1> QED BY <1>2, <1>3, <1>4, <1>5 DEF WebTxInOrder

\* One execution moves.
LEMMA ExecMoved ==
  ASSUME WebTxTypeOK, NEW e \in Exec, NEW to \in ExecType, exec' = [exec EXCEPT ![e] = to]
  PROVE  /\ exec' \in [Exec -> ExecType] /\ exec'[e] = to
         /\ \A d \in Exec : d # e => exec'[d] = exec[d]
         /\ AtWork' = IF to.step \in AtRest THEN AtWork \ {e} ELSE AtWork \cup {e}
  BY DEF WebTxTypeOK, AtWork, AtRest

LEMMA NetMoved ==
  ASSUME WebTxTypeOK, NEW e \in Exec, NEW n \in NetStates, net' = [net EXCEPT ![e] = n]
  PROVE  /\ net' \in [Exec -> NetStates] /\ net'[e] = n
         /\ \A d \in Exec : d # e => net'[d] = net[d]
  BY DEF WebTxTypeOK

LEMMA AppliedAre == WebTxTypeOK => Applied \subseteq Exec
  BY DEF WebTxTypeOK, Applied

\* An execution is sound after its own step, and the others stay so.
LEMMA ExecsStaySound ==
  ASSUME WebTxTypeOK, ExecsSound, NEW e \in Exec, NEW to \in ExecType, NEW n \in NetStates,
         exec' = [exec EXCEPT ![e] = to], net' = [net EXCEPT ![e] = n],
         UNCHANGED <<kind, ledgerNow>>, ExecSound(to, n, e \in Applied)
  PROVE  ExecsSound'
<1>1. Applied' = Applied
  BY DEF Applied
<1>2. ASSUME NEW d \in Exec PROVE ExecSound(exec[d], net[d], d \in Applied)'
  <2>1. CASE d = e
    BY <1>1, <2>1, ExecMoved, NetMoved DEF ExecSound
  <2>2. CASE d # e
    <3>1. exec'[d] = exec[d] /\ net'[d] = net[d]
      BY <2>2, ExecMoved, NetMoved
    <3> QED BY <1>1, <3>1 DEF ExecsSound, ExecSound
  <2> QED BY <2>1, <2>2
<1> QED BY <1>2 DEF ExecsSound

\* One that goes on, while the page stays as it is.
LEMMA ExecGoesOn ==
  ASSUME WebTxInOrder, NEW e \in Exec, NEW to \in ExecType, NEW n \in NetStates,
         exec' = [exec EXCEPT ![e] = to], net' = [net EXCEPT ![e] = n],
         UNCHANGED <<kind, contractPage, sequence, ledgerNow, live, trouble>>,
         exec[e].step \notin AtRest, to.step \notin AtRest, to.asks = exec[e].asks,
         ExecSound(to, n, e \in Applied),
         hook' \in HookType2, hook'.success => hook.success, FlagsAreKnown', OwnsHook'
  PROVE  WebTxInOrder'
<1>0. /\ WebTxTypeOK /\ ExecsSound /\ SaidIsApplied /\ VoteIsKnown /\ ModalIsKnown
      /\ Applied \subseteq Exec
  BY AppliedAre DEF WebTxInOrder
<1>1. /\ exec' \in [Exec -> ExecType] /\ exec'[e] = to
      /\ \A d \in Exec : d # e => exec'[d] = exec[d]
      /\ AtWork' = AtWork \cup {e}
  BY <1>0, ExecMoved
<1>2. e \in AtWork /\ Applied' = Applied /\ AtWork' = AtWork
  BY <1>1 DEF AtWork, Applied, AtRest
<1>3. WebTxTypeOK'
  BY <1>0, <1>1, NetMoved DEF WebTxTypeOK
<1>4. ExecsSound'
  BY <1>0, ExecsStaySound
<1>5. \A d \in Exec : exec'[d].asks = exec[d].asks
  BY <1>1
<1>6. \A d \in Exec : exec[d].verdict = "success" => d # e
  BY <1>0 DEF ExecsSound, ExecSound, AtRest
<1>7. SaidIsApplied'
  BY <1>0, <1>1, <1>2, <1>5, <1>6 DEF SaidIsApplied
<1>8. VoteIsKnown'
  <2>1. AtWork \subseteq Exec
    BY DEF AtWork
  <2> QED BY <1>0, <1>2, <1>5, <2>1 DEF VoteIsKnown
<1>9. ModalIsKnown'
  BY <1>0, <1>2 DEF ModalIsKnown
<1> QED BY <1>3, <1>4, <1>7, <1>8, <1>9 DEF WebTxInOrder

\* One that ends, or is called under another name.
LEMMA ExecFails ==
  ASSUME WebTxInOrder, NEW e \in Exec, NEW fault \in BOOLEAN, NEW n \in NetStates,
         Fails(e, fault), net' = [net EXCEPT ![e] = n],
         UNCHANGED <<kind, sequence, ledgerNow, live>>,
         trouble' \in WebTroubleType, trouble'.overlapped = trouble.overlapped,
         exec[e].step \notin AtRest, n = "applied" <=> e \in Applied,
         kind # "proof" /\ ~fault => n \notin {"applied", "pending"}
  PROVE  WebTxInOrder'
<1>0. /\ WebTxTypeOK /\ ExecsSound /\ SaidIsApplied /\ VoteIsKnown /\ FlagsAreKnown /\ ModalIsKnown
      /\ OwnsHook /\ Applied \subseteq Exec
  BY AppliedAre DEF WebTxInOrder
<1> DEFINE was == exec[e]
           again == kind = "proof" /\ ~was.second
           at == IF again THEN "second" ELSE "done"
           to == [was EXCEPT !.step = at, !.verdict = "failed", !.fault = @ \/ fault]
<1>1. was \in ExecType
  BY <1>0 DEF WebTxTypeOK
<1>2. /\ to \in ExecType /\ to.step = at /\ to.verdict = "failed" /\ to.asks = was.asks
      /\ to.second = was.second /\ to.seq = was.seq /\ to.fault = (was.fault \/ fault)
  BY <1>1 DEF ExecType
<1>3. exec' = [exec EXCEPT ![e] = to]
  BY DEF Fails
<1> DEFINE next == to
<1> HIDE DEF to
<1>4. /\ exec' \in [Exec -> ExecType] /\ exec'[e] = to
      /\ \A d \in Exec : d # e => exec'[d] = exec[d]
      /\ AtWork' = IF to.step \in AtRest THEN AtWork \ {e} ELSE AtWork \cup {e}
  BY ONLY <1>0, <1>2, <1>3, e \in Exec, ExecMoved
<1>5. /\ hook' = [hook EXCEPT !.simulating = FALSE, !.pending = FALSE, !.error = TRUE]
      /\ hook' \in HookType2
  BY <1>0 DEF Fails, WebTxTypeOK, HookType2
<1>6. /\ ~hook'.simulating /\ ~hook'.pending /\ hook'.error /\ hook'.success = hook.success
      /\ hook'.hash = hook.hash
  BY <1>0, <1>5 DEF WebTxTypeOK, HookType2
<1>7. /\ contractPage' \in ContractPageType /\ ~contractPage'.submitting
      /\ contractPage'.shown = (IF kind = "vote" THEN "none" ELSE contractPage.shown)
      /\ contractPage'.chosen = contractPage.chosen /\ contractPage'.modal = contractPage.modal
      /\ contractPage'.told = contractPage.told
  BY <1>0 DEF Fails, PageAfter, WebTxTypeOK, ContractPageType, Votes
<1>8. Applied' = Applied /\ e \in AtWork
  BY DEF Applied, AtWork, AtRest
<1>9. WebTxTypeOK'
  BY <1>0, <1>4, <1>5, <1>7, NetMoved DEF WebTxTypeOK
<1>10. ExecsSound'
  <2>1. ExecSound(was, net[e], e \in Applied)
    BY <1>0 DEF ExecsSound
  <2>2. ExecSound(to, n, e \in Applied)
    BY <1>2, <2>1 DEF ExecSound, AtRest
  <2> QED BY <1>0, <1>2, <1>3, <2>2, ExecsStaySound
<1>11. \A d \in Exec : exec'[d].asks = exec[d].asks
  BY <1>2, <1>4
<1>12. \A d \in Exec : exec[d].verdict = "success" => d # e
  BY <1>0 DEF ExecsSound, ExecSound, AtRest
<1>13. SaidIsApplied'
  BY <1>0, <1>4, <1>6, <1>7, <1>8, <1>11, <1>12 DEF SaidIsApplied
<1>14. VoteIsKnown'
  <2>1. CASE kind = "vote"
    <3>1. to.step = "done"
      BY <1>2, <2>1
    <3>2. AtWork' = {}
      BY <1>0, <1>4, <1>8, <2>1, <3>1 DEF VoteIsKnown, AtRest
    <3> QED BY <1>7, <2>1, <3>2 DEF VoteIsKnown
  <2>2. CASE kind # "vote"
    BY <1>0, <1>7, <2>2 DEF VoteIsKnown
  <2> QED BY <2>1, <2>2
<1>15. FlagsAreKnown' /\ ModalIsKnown'
  BY <1>0, <1>6, <1>7 DEF FlagsAreKnown, ModalIsKnown
<1>16. OwnsHook'
  <2> SUFFICES ASSUME ~trouble.overlapped
               PROVE  /\ \A d, f \in AtWork' : d = f
                      /\ \A d \in Exec : exec'[d].step \notin {"simulate", "sign", "send", "poll"}
                      /\ hook'.success => hook'.hash \in Applied'
    BY DEF OwnsHook
  <2>1. \A d \in AtWork : d = e
    BY <1>0, <1>8 DEF OwnsHook
  <2>2. AtWork' \subseteq {e} /\ (hook.success => hook.hash \in Applied)
    BY <1>0, <1>4, <2>1 DEF OwnsHook
  <2>3. \A d \in Exec : d # e => exec[d].step \in AtRest
    BY <2>1 DEF AtWork, AtRest
  <2> QED BY <1>2, <1>4, <1>6, <1>8, <2>2, <2>3 DEF AtRest
<1> QED BY <1>9, <1>10, <1>13, <1>14, <1>15, <1>16 DEF WebTxInOrder

\* One that succeeds.
LEMMA ExecSucceeds ==
  ASSUME WebTxInOrder, NEW e \in Exec, exec[e].step = "poll", net[e] = "applied", Succeeds(e),
         UNCHANGED <<kind, networkVars, live, trouble>>
  PROVE  WebTxInOrder'
<1>0. /\ WebTxTypeOK /\ ExecsSound /\ SaidIsApplied /\ VoteIsKnown /\ FlagsAreKnown /\ ModalIsKnown
      /\ OwnsHook /\ Applied \subseteq Exec
  BY AppliedAre DEF WebTxInOrder
<1> DEFINE was == exec[e]
           to == [was EXCEPT !.step = "done", !.verdict = "success"]
<1>1. was \in ExecType /\ ExecSound(was, net[e], e \in Applied)
  BY <1>0 DEF WebTxTypeOK, ExecsSound
<1>2. /\ to \in ExecType /\ to.step = "done" /\ to.verdict = "success" /\ to.asks = was.asks
      /\ to.second = was.second /\ to.seq = was.seq /\ to.fault = was.fault
  BY <1>1 DEF ExecType
<1>3. exec' = [exec EXCEPT ![e] = to]
  BY DEF Succeeds
<1> HIDE DEF to
<1>4. /\ exec' \in [Exec -> ExecType] /\ exec'[e] = to
      /\ \A d \in Exec : d # e => exec'[d] = exec[d]
      /\ AtWork' = AtWork \ {e}
  <2>1. /\ exec' \in [Exec -> ExecType] /\ exec'[e] = to
        /\ \A d \in Exec : d # e => exec'[d] = exec[d]
        /\ AtWork' = IF to.step \in AtRest THEN AtWork \ {e} ELSE AtWork \cup {e}
    BY ONLY <1>0, <1>2, <1>3, e \in Exec, ExecMoved
  <2> QED BY <1>2, <2>1 DEF AtRest
<1>5. /\ hook' = [hook EXCEPT !.success = TRUE, !.pending = FALSE] /\ hook' \in HookType2
  BY <1>0 DEF Succeeds, WebTxTypeOK, HookType2
<1>6. /\ hook'.simulating = hook.simulating /\ ~hook'.pending /\ hook'.success
      /\ hook'.error = hook.error /\ hook'.hash = hook.hash
  BY <1>0, <1>5 DEF WebTxTypeOK, HookType2
<1>7. /\ contractPage' \in ContractPageType /\ ~contractPage'.submitting
      /\ contractPage'.shown = contractPage.shown
      /\ contractPage'.modal = (IF kind = "create" THEN "leaving" ELSE contractPage.modal)
      /\ contractPage'.told = was.asks
  BY <1>0, <1>1 DEF Succeeds, PageAfter, WebTxTypeOK, ContractPageType, Votes, ExecType
<1>8. Applied' = Applied /\ e \in AtWork /\ e \in Applied /\ UNCHANGED <<sequence, net, ledgerNow>>
  BY <1>1 DEF Applied, AtWork, networkVars, ExecSound
<1>9. WebTxTypeOK'
  BY <1>0, <1>4, <1>5, <1>7, <1>8 DEF WebTxTypeOK
<1>10. ExecsSound'
  <2>1. ExecSound(to, net[e], e \in Applied)
    BY <1>1, <1>2, <1>8 DEF ExecSound
  <2>2. net' = [net EXCEPT ![e] = net[e]] /\ net[e] \in NetStates
    BY <1>0, <1>8 DEF WebTxTypeOK
  <2> QED BY <1>0, <1>2, <1>3, <1>8, <2>1, <2>2, ExecsStaySound
<1>11. \A d \in Exec : exec'[d].asks = exec[d].asks
  BY <1>2, <1>4
<1>12. SaidIsApplied'
  BY <1>0, <1>2, <1>4, <1>7, <1>8, <1>11 DEF SaidIsApplied
<1>13. VoteIsKnown'
  <2>1. CASE kind = "vote"
    <3>1. AtWork' = {}
      BY <1>0, <1>4, <1>8, <2>1 DEF VoteIsKnown
    <3>2. contractPage.shown # "none" => \E d \in Applied : exec[d].asks = contractPage.shown
      <4>1. \A d \in AtWork : d = e
        BY <1>0, <1>8, <2>1 DEF VoteIsKnown
      <4> QED BY <1>0, <1>8, <4>1 DEF VoteIsKnown
    <3> QED BY <1>0, <1>7, <1>8, <1>11, <2>1, <3>1, <3>2 DEF VoteIsKnown
  <2>2. CASE kind # "vote"
    BY <1>0, <1>7, <2>2 DEF VoteIsKnown
  <2> QED BY <2>1, <2>2
<1>14. FlagsAreKnown'
  <2>1. \A d \in Exec : exec[d].step \in {"simulate", "build"} => d # e
    OBVIOUS
  <2> QED BY <1>0, <1>4, <1>6, <2>1 DEF FlagsAreKnown
<1>15. ModalIsKnown'
  BY <1>0, <1>7 DEF ModalIsKnown
<1>16. OwnsHook'
  <2> SUFFICES ASSUME ~trouble.overlapped
               PROVE  /\ \A d, f \in AtWork' : d = f
                      /\ \A d \in Exec : exec'[d].step \notin {"simulate", "sign", "send", "poll"}
                      /\ hook'.hash \in Applied'
    BY DEF OwnsHook
  <2>1. (\A d \in AtWork : d = e) /\ hook.hash = e
    BY <1>0, <1>8 DEF OwnsHook
  <2>2. \A d \in Exec : d # e => exec[d].step \in AtRest
    BY <2>1 DEF AtWork, AtRest
  <2> QED BY <1>2, <1>4, <1>6, <1>8, <2>1, <2>2 DEF AtRest
<1> QED BY <1>9, <1>10, <1>12, <1>13, <1>14, <1>15, <1>16 DEF WebTxInOrder

\* One that ends with an error the hook does not hear of.
LEMMA ExecDropped ==
  ASSUME WebTxInOrder, NEW e \in Exec,
         exec' = [exec EXCEPT ![e].step = "done", ![e].verdict = "failed"],
         UNCHANGED <<kind, hook, networkVars, live>>,
         trouble' \in WebTroubleType, trouble'.overlapped = trouble.overlapped,
         \/ exec[e].step = "upload" /\ UNCHANGED contractPage
         \/ exec[e].step = "build" /\ kind # "proof" /\ PageAfter(e, "failed")
  PROVE  WebTxInOrder'
<1>0. /\ WebTxTypeOK /\ ExecsSound /\ SaidIsApplied /\ VoteIsKnown /\ FlagsAreKnown /\ ModalIsKnown
      /\ OwnsHook /\ Applied \subseteq Exec
  BY AppliedAre DEF WebTxInOrder
<1> DEFINE was == exec[e]
           to == [was EXCEPT !.step = "done", !.verdict = "failed"]
<1>1. was \in ExecType /\ ExecSound(was, net[e], e \in Applied)
  BY <1>0 DEF WebTxTypeOK, ExecsSound
<1>2. /\ to \in ExecType /\ to.step = "done" /\ to.verdict = "failed" /\ to.asks = was.asks
      /\ to.second = was.second /\ to.seq = was.seq /\ to.fault = was.fault
  BY <1>1 DEF ExecType
<1>3. exec' = [exec EXCEPT ![e] = to]
  OBVIOUS
<1> HIDE DEF to
<1>4. /\ exec' \in [Exec -> ExecType] /\ exec'[e] = to
      /\ \A d \in Exec : d # e => exec'[d] = exec[d]
      /\ AtWork' = AtWork \ {e}
  <2>1. /\ exec' \in [Exec -> ExecType] /\ exec'[e] = to
        /\ \A d \in Exec : d # e => exec'[d] = exec[d]
        /\ AtWork' = IF to.step \in AtRest THEN AtWork \ {e} ELSE AtWork \cup {e}
    BY ONLY <1>0, <1>2, <1>3, e \in Exec, ExecMoved
  <2> QED BY <1>2, <2>1 DEF AtRest
<1>5. /\ Applied' = Applied /\ e \in AtWork /\ UNCHANGED <<sequence, net, ledgerNow, hook, kind, live>>
      /\ was.verdict # "success"
  BY <1>1 DEF Applied, AtWork, networkVars, ExecSound
<1>6. /\ contractPage' \in ContractPageType
      /\ contractPage'.shown \in {contractPage.shown, "none"}
      /\ contractPage'.modal = contractPage.modal /\ contractPage'.told = contractPage.told
      /\ kind # "proof" => ~contractPage'.submitting
      /\ kind = "proof" => contractPage'.submitting = contractPage.submitting
      /\ kind = "vote" => contractPage'.shown = "none"
  BY <1>0, <1>1 DEF PageAfter, WebTxTypeOK, ContractPageType, Votes, ExecSound
<1>7. WebTxTypeOK'
  BY <1>0, <1>4, <1>5, <1>6 DEF WebTxTypeOK
<1>8. ExecsSound'
  <2>1. ExecSound(to, net[e], e \in Applied)
    BY <1>1, <1>2 DEF ExecSound
  <2>2. net' = [net EXCEPT ![e] = net[e]] /\ net[e] \in NetStates
    BY <1>0, <1>5 DEF WebTxTypeOK
  <2> QED BY <1>0, <1>2, <1>3, <1>5, <2>1, <2>2, ExecsStaySound
<1>9. \A d \in Exec : exec'[d].asks = exec[d].asks
  BY <1>2, <1>4
<1>10. SaidIsApplied'
  BY <1>0, <1>4, <1>5, <1>6, <1>9 DEF SaidIsApplied
<1>11. VoteIsKnown'
  <2>1. CASE kind = "vote"
    <3>1. AtWork' = {}
      BY <1>0, <1>4, <1>5, <2>1 DEF VoteIsKnown
    <3> QED BY <1>5, <1>6, <2>1, <3>1 DEF VoteIsKnown
  <2>2. CASE kind # "vote"
    BY <1>0, <1>5, <1>6, <2>2 DEF VoteIsKnown
  <2> QED BY <2>1, <2>2
<1>12. FlagsAreKnown'
  <2>1. \A d \in Exec : exec[d].step \in {"simulate", "send", "poll"} => d # e
    OBVIOUS
  <2>2. \A d \in Exec : exec[d].step = "build" /\ kind = "proof" => d # e
    OBVIOUS
  <2> QED BY <1>0, <1>4, <1>5, <2>1, <2>2 DEF FlagsAreKnown
<1>13. ModalIsKnown'
  <2>1. kind # "proof" => to.seq = 0
    BY <1>1, <1>2 DEF ExecSound
  <2> QED BY <1>0, <1>2, <1>4, <1>5, <1>6, <2>1 DEF ModalIsKnown
<1>14. OwnsHook'
  <2> SUFFICES ASSUME ~trouble.overlapped
               PROVE  /\ \A d, f \in AtWork' : d = f
                      /\ \A d \in Exec : exec'[d].step \notin {"simulate", "sign", "send", "poll"}
                      /\ hook'.success => hook'.hash \in Applied'
    BY DEF OwnsHook
  <2>1. \A d \in AtWork : d = e
    BY <1>0, <1>5 DEF OwnsHook
  <2>2. \A d \in Exec : d # e => exec[d].step \in AtRest
    BY <2>1 DEF AtWork, AtRest
  <2> QED BY <1>0, <1>2, <1>4, <1>5, <2>1, <2>2 DEF AtRest, OwnsHook
<1> QED BY <1>7, <1>8, <1>10, <1>11, <1>12, <1>13, <1>14 DEF WebTxInOrder

\* One that begins.
LEMMA ExecBegins ==
  ASSUME WebTxInOrder, NEW e \in Exec, NEW asks \in Votes, NEW step \in {"build", "upload"},
         ExecStarts(e, asks, step), step = "upload" => kind = "proof",
         hook' = hook \/ hook' = Quiet,
         contractPage' \in ContractPageType, contractPage'.told = contractPage.told,
         \/ /\ kind # "vote" /\ contractPage'.shown = contractPage.shown
            /\ contractPage'.submitting = contractPage.submitting
         \/ /\ kind = "vote" /\ ~contractPage.submitting
            /\ contractPage'.shown = asks /\ contractPage'.submitting,
         contractPage'.modal = "open" => kind = "create"
  PROVE  WebTxInOrder'
<1>0. /\ WebTxTypeOK /\ ExecsSound /\ SaidIsApplied /\ VoteIsKnown /\ FlagsAreKnown /\ ModalIsKnown
      /\ OwnsHook /\ Applied \subseteq Exec
  BY AppliedAre DEF WebTxInOrder
<1> DEFINE was == exec[e]
           to == [was EXCEPT !.asks = asks, !.step = step]
<1>1. was \in ExecType /\ ExecSound(was, net[e], e \in Applied) /\ was.step = "idle"
  BY <1>0 DEF WebTxTypeOK, ExecsSound, ExecStarts, Next1
<1>2. /\ to \in ExecType /\ to.step = step /\ to.verdict = was.verdict /\ to.asks = asks
      /\ to.second = was.second /\ to.seq = was.seq /\ to.fault = was.fault
  BY <1>1 DEF ExecType
<1>3. exec' = [exec EXCEPT ![e] = to]
  BY DEF ExecStarts
<1> HIDE DEF to
<1>4. /\ exec' \in [Exec -> ExecType] /\ exec'[e] = to
      /\ \A d \in Exec : d # e => exec'[d] = exec[d]
      /\ AtWork' = AtWork \cup {e}
  <2>1. /\ exec' \in [Exec -> ExecType] /\ exec'[e] = to
        /\ \A d \in Exec : d # e => exec'[d] = exec[d]
        /\ AtWork' = IF to.step \in AtRest THEN AtWork \ {e} ELSE AtWork \cup {e}
    BY ONLY <1>0, <1>2, <1>3, e \in Exec, ExecMoved
  <2> QED BY <1>2, <2>1 DEF AtRest
<1>5. /\ Applied' = Applied /\ e \notin Applied /\ net[e] = "none"
      /\ UNCHANGED <<sequence, net, ledgerNow, kind, live>>
      /\ was.verdict # "success"
  <2>1. UNCHANGED <<sequence, net, ledgerNow, kind, live>>
    BY DEF ExecStarts, networkVars
  <2> QED BY <1>1, <2>1 DEF Applied, ExecSound
<1>6. hook' \in HookType2 /\ (hook' = hook \/ (~hook'.success /\ ~hook'.simulating /\ ~hook'.pending))
  <2>1. CASE hook' = hook
    BY <1>0, <2>1 DEF WebTxTypeOK
  <2>2. CASE hook' = Quiet
    BY <2>2 DEF Quiet, HookType2, None
  <2> QED BY <2>1, <2>2
<1>7. /\ trouble' \in WebTroubleType
      /\ ~trouble'.overlapped => ~trouble.overlapped /\ AtWork = {}
  BY <1>0 DEF ExecStarts, WebTxTypeOK, WebTroubleType
<1>8. WebTxTypeOK'
  BY <1>0, <1>4, <1>5, <1>6, <1>7 DEF WebTxTypeOK
<1>9. ExecsSound'
  <2>1. ExecSound(to, net[e], e \in Applied)
    BY <1>1, <1>2, <1>5 DEF ExecSound
  <2>2. net' = [net EXCEPT ![e] = net[e]] /\ net[e] \in NetStates
    BY <1>0, <1>5 DEF WebTxTypeOK
  <2> QED BY <1>0, <1>2, <1>3, <1>5, <2>1, <2>2, ExecsStaySound
<1>10. \A d \in Applied : exec'[d] = exec[d]
  BY <1>0, <1>4, <1>5
<1>11. SaidIsApplied'
  BY <1>0, <1>5, <1>6, <1>10 DEF SaidIsApplied
<1>12. VoteIsKnown'
  <2>1. CASE kind = "vote"
    <3>1. AtWork' = {e} /\ contractPage'.shown = asks /\ contractPage'.submitting
      BY <1>0, <1>4, <2>1 DEF VoteIsKnown
    <3> QED BY <1>2, <1>4, <1>5, <2>1, <3>1 DEF VoteIsKnown
  <2>2. CASE kind # "vote"
    BY <1>0, <1>5, <2>2 DEF VoteIsKnown
  <2> QED BY <2>1, <2>2
<1>13. FlagsAreKnown'
  BY <1>0, <1>1, <1>4, <1>5, <1>6 DEF FlagsAreKnown
<1>14. ModalIsKnown'
  BY <1>4, <1>5 DEF ModalIsKnown
<1>15. OwnsHook'
  <2> SUFFICES ASSUME ~trouble'.overlapped
               PROVE  /\ \A d, f \in AtWork' : d = f
                      /\ \A d \in Exec : exec'[d].step \notin {"simulate", "sign", "send", "poll"}
                      /\ hook'.success => hook'.hash \in Applied'
    BY DEF OwnsHook
  <2>1. \A d \in Exec : exec[d].step \in AtRest
    BY <1>7 DEF AtWork, AtRest
  <2> QED BY <1>0, <1>2, <1>4, <1>5, <1>6, <1>7, <2>1 DEF AtRest, OwnsHook
<1> QED BY <1>8, <1>9, <1>11, <1>12, <1>13, <1>14, <1>15 DEF WebTxInOrder

LEMMA StartExecStep ==
  ASSUME WebTxInOrder, NEW e \in Exec, StartExec(e)
  PROVE  WebTxInOrder'
<1>0. /\ WebTxTypeOK /\ VoteIsKnown /\ ModalIsKnown /\ contractPage \in ContractPageType
  BY DEF WebTxInOrder, WebTxTypeOK
<1>1. ASSUME NEW choice \in {"yes", "no"}, CastVote(e, choice) PROVE WebTxInOrder'
  <2>1. /\ contractPage' \in ContractPageType /\ contractPage'.told = contractPage.told
        /\ contractPage'.shown = choice /\ contractPage'.submitting
        /\ contractPage'.modal = contractPage.modal
    BY <1>0, <1>1 DEF CastVote, ContractPageType, Votes
  <2>2. kind = "vote" /\ ~contractPage.submitting /\ ExecStarts(e, choice, "build") /\ hook' = hook
    BY <1>1 DEF CastVote, VoteOffered
  <2>3. choice \in Votes
    BY DEF Votes
  <2> QED BY <1>0, <2>1, <2>2, <2>3, ExecBegins DEF ModalIsKnown
<1>2. CASE handleSubmit(e)
  <2>1. kind = "proof" /\ ExecStarts(e, "none", "upload") /\ hook' = Quiet /\ UNCHANGED contractPage
    BY <1>2 DEF handleSubmit, ProofOffered
  <2> QED BY <1>0, <2>1, ExecBegins DEF ModalIsKnown, Votes
<1>3. CASE handleDeploy(e)
  <2>1. /\ contractPage' \in ContractPageType /\ contractPage'.told = contractPage.told
        /\ contractPage'.shown = contractPage.shown
        /\ contractPage'.submitting = contractPage.submitting
    BY <1>0, <1>3 DEF handleDeploy, ContractPageType
  <2>2. kind = "create" /\ ExecStarts(e, "none", "build") /\ hook' = Quiet
    BY <1>3 DEF handleDeploy, CreateOffered
  <2> QED BY <1>0, <2>1, <2>2, ExecBegins DEF Votes
<1>4. CASE handleResolve(e)
  <2>1. /\ kind = "resolve" /\ ExecStarts(e, contractPage.chosen, "build") /\ hook' = Quiet
        /\ UNCHANGED contractPage
    BY <1>4 DEF handleResolve, ResolveOffered
  <2>2. contractPage.chosen \in Votes
    BY <1>0 DEF ContractPageType
  <2> QED BY <1>0, <2>1, <2>2, ExecBegins DEF ModalIsKnown
<1> QED BY <1>1, <1>2, <1>3, <1>4 DEF StartExec

\* The first steps of execute().
LEMMA LoadStep ==
  ASSUME WebTxInOrder, NEW e \in Exec,
         \/ Load(e)
         \/ exec[e].step = "upload" /\ Upload(e)
         \/ SecondName(e)
  PROVE  WebTxInOrder'
<1>0. /\ WebTxTypeOK /\ ExecsSound /\ FlagsAreKnown /\ OwnsHook /\ exec[e] \in ExecType
      /\ sequence \in Nat /\ net[e] \in NetStates /\ ExecSound(exec[e], net[e], e \in Applied)
  BY DEF WebTxInOrder, WebTxTypeOK, ExecsSound
<1> DEFINE hook2 == [Quiet EXCEPT !.simulating = TRUE]
<1>1. hook2 \in HookType2 /\ ~hook2.success /\ ~hook2.pending /\ ~hook2.error
  BY DEF Quiet, HookType2, None
<1>2. ASSUME NEW to \in ExecType, exec' = [exec EXCEPT ![e] = to], hook' = hook2,
             UNCHANGED <<kind, contractPage, networkVars, live, trouble>>,
             exec[e].step \notin AtRest, to.asks = exec[e].asks,
             ExecSound(to, net[e], e \in Applied),
             to.step = "simulate" \/ (to.step = "build" /\ kind = "proof")
      PROVE  WebTxInOrder'
  <2>1. /\ exec'[e] = to /\ \A d \in Exec : d # e => exec'[d] = exec[d]
        /\ AtWork' = AtWork \cup {e}
    <3>1. /\ exec' \in [Exec -> ExecType] /\ exec'[e] = to
          /\ \A d \in Exec : d # e => exec'[d] = exec[d]
          /\ AtWork' = IF to.step \in AtRest THEN AtWork \ {e} ELSE AtWork \cup {e}
      BY ONLY <1>0, <1>2, e \in Exec, ExecMoved
    <3> QED BY <1>2, <3>1 DEF AtRest
  <2>2. e \in AtWork /\ AtWork' = AtWork /\ kind' = kind
    BY <1>2, <2>1 DEF AtWork, AtRest
  <2>3. FlagsAreKnown'
    BY <1>1, <1>2, <2>1, <2>2 DEF FlagsAreKnown
  <2>4. OwnsHook'
    <3> SUFFICES ASSUME ~trouble.overlapped
                 PROVE  /\ \A d, f \in AtWork' : d = f
                        /\ \A d \in Exec : exec'[d].step \notin {"sign", "send", "poll"}
      BY <1>1, <1>2 DEF OwnsHook
    <3>1. \A d \in AtWork : d = e
      BY <1>0, <2>2 DEF OwnsHook
    <3>2. \A d \in Exec : d # e => exec[d].step \in AtRest
      BY <3>1 DEF AtWork, AtRest
    <3> QED BY <1>2, <2>1, <2>2, <3>1, <3>2 DEF AtRest
  <2>5. net' = [net EXCEPT ![e] = net[e]] /\ UNCHANGED <<contractPage, sequence, ledgerNow, live, trouble>>
    BY <1>0, <1>2 DEF networkVars, WebTxTypeOK
  <2>6. to.step \notin AtRest
    BY <1>2 DEF AtRest
  <2> HIDE DEF hook2
  <2> QED BY <1>0, <1>1, <1>2, <2>2, <2>3, <2>4, <2>5, <2>6, ExecGoesOn
<1> HIDE DEF hook2
<1>3. CASE Load(e)
  <2> DEFINE to == [exec[e] EXCEPT !.step = "simulate", !.seq = sequence]
  <2>1. to \in ExecType /\ to.step = "simulate" /\ to.asks = exec[e].asks
        /\ to.second = exec[e].second /\ to.verdict = exec[e].verdict
    BY <1>0 DEF ExecType
  <2>2. /\ exec' = [exec EXCEPT ![e] = to] /\ hook' = hook2 /\ exec[e].step = "build"
        /\ UNCHANGED <<kind, contractPage, networkVars, live, trouble>>
    BY <1>3 DEF Load, hook2
  <2> HIDE DEF to
  <2>3. ExecSound(to, net[e], e \in Applied) /\ exec[e].step \notin AtRest
    BY <1>0, <2>1, <2>2 DEF ExecSound, AtRest
  <2> QED BY <1>2, <2>1, <2>2, <2>3
<1>4. CASE SecondName(e)
  <2> DEFINE to == [exec[e] EXCEPT !.step = "build", !.second = TRUE]
  <2>1. to \in ExecType /\ to.step = "build" /\ to.asks = exec[e].asks
        /\ to.second = TRUE /\ to.verdict = exec[e].verdict
    BY <1>0 DEF ExecType
  <2>2. /\ exec' = [exec EXCEPT ![e] = to] /\ hook' = hook2 /\ exec[e].step = "second"
        /\ UNCHANGED <<kind, contractPage, networkVars, live, trouble>>
    BY <1>4 DEF SecondName, hook2
  <2> HIDE DEF to
  <2>3. ExecSound(to, net[e], e \in Applied) /\ exec[e].step \notin AtRest /\ kind = "proof"
    BY <1>0, <2>1, <2>2 DEF ExecSound, AtRest
  <2> QED BY <1>2, <2>1, <2>2, <2>3
<1>5. CASE exec[e].step = "upload" /\ Upload(e)
  <2>1. kind = "proof"
    BY <1>0, <1>5 DEF ExecSound
  <2>2. CASE To(e, "build") /\ hook' = hook2 /\ UNCHANGED trouble
    <3> DEFINE to == [exec[e] EXCEPT !.step = "build"]
    <3>1. to \in ExecType /\ to.step = "build" /\ to.asks = exec[e].asks
          /\ to.second = exec[e].second /\ to.verdict = exec[e].verdict /\ to.seq = exec[e].seq
      BY <1>0 DEF ExecType
    <3>2. /\ exec' = [exec EXCEPT ![e] = to]
          /\ UNCHANGED <<kind, contractPage, networkVars, live, trouble>>
      BY <1>5, <2>2 DEF Upload, To
    <3> HIDE DEF to
    <3>3. ExecSound(to, net[e], e \in Applied) /\ exec[e].step \notin AtRest
      BY <1>0, <1>5, <3>1 DEF ExecSound, AtRest
    <3> QED BY <1>2, <2>1, <2>2, <3>1, <3>2, <3>3
  <2>3. CASE Rejects /\ exec' = [exec EXCEPT ![e].step = "done", ![e].verdict = "failed"]
             /\ UNCHANGED hook
    <3>1. trouble' \in WebTroubleType /\ trouble'.overlapped = trouble.overlapped
      BY <1>0, <2>3 DEF Rejects, WebTxTypeOK, WebTroubleType
    <3>2. UNCHANGED <<kind, contractPage, networkVars, live>>
      BY <1>5 DEF Upload
    <3> QED BY <1>5, <2>3, <3>1, <3>2, ExecDropped
  <2> QED BY <1>5, <2>2, <2>3 DEF Upload, hook2
<1> QED BY <1>3, <1>4, <1>5

\* The others: simulated, signed, sent and polled for.
LEMMA SignStep ==
  ASSUME WebTxInOrder, NEW e \in Exec,
         \/ exec[e].step = "simulate" /\ To(e, "sign") /\ UNCHANGED net
            /\ hook' = [hook EXCEPT !.simulating = FALSE] /\ ~exec[e].second
         \/ exec[e].step = "sign" /\ To(e, "send") /\ UNCHANGED net
            /\ hook' = [hook EXCEPT !.pending = TRUE]
         \/ exec[e].step = "send" /\ To(e, "poll") /\ hook' = [hook EXCEPT !.hash = e]
            /\ (net' = [net EXCEPT ![e] = "pending"] \/ UNCHANGED net),
         UNCHANGED <<kind, contractPage, sequence, ledgerNow, live, trouble>>
  PROVE  WebTxInOrder'
<1>0. /\ WebTxTypeOK /\ ExecsSound /\ FlagsAreKnown /\ OwnsHook /\ exec[e] \in ExecType
      /\ net[e] \in NetStates /\ ExecSound(exec[e], net[e], e \in Applied) /\ hook \in HookType2
  BY DEF WebTxInOrder, WebTxTypeOK, ExecsSound
<1>1. PICK at \in {"sign", "send", "poll"} : To(e, at)
  OBVIOUS
<1> DEFINE to == [exec[e] EXCEPT !.step = at]
<1>2. /\ to \in ExecType /\ to.step = at /\ to.asks = exec[e].asks
      /\ to.second = exec[e].second /\ to.verdict = exec[e].verdict
  BY <1>0 DEF ExecType
<1>3. exec' = [exec EXCEPT ![e] = to]
  BY <1>1 DEF To
<1> HIDE DEF to
<1>4. /\ exec'[e] = to /\ \A d \in Exec : d # e => exec'[d] = exec[d]
      /\ AtWork' = AtWork \cup {e}
  <2>1. /\ exec' \in [Exec -> ExecType] /\ exec'[e] = to
        /\ \A d \in Exec : d # e => exec'[d] = exec[d]
        /\ AtWork' = IF to.step \in AtRest THEN AtWork \ {e} ELSE AtWork \cup {e}
    BY ONLY <1>0, <1>2, <1>3, e \in Exec, ExecMoved
  <2> QED BY <1>2, <2>1 DEF AtRest
<1>5. /\ exec[e].step \in {"simulate", "sign", "send"} /\ ~exec[e].second /\ net[e] = "none"
      /\ exec[e].step \notin AtRest /\ e \in AtWork /\ AtWork' = AtWork
  <2>1. exec[e].step \in {"simulate", "sign", "send"}
    OBVIOUS
  <2>2. exec[e].step \notin AtRest /\ e \in AtWork
    BY <2>1 DEF AtRest, AtWork
  <2>3. ~exec[e].second /\ net[e] = "none"
    BY <1>0, <2>1 DEF ExecSound
  <2> QED BY <1>4, <2>1, <2>2, <2>3
<1>6. PICK n \in {"none", "pending"} : net' = [net EXCEPT ![e] = n] /\ (at = "poll" \/ n = "none")
  <2>1. CASE UNCHANGED net
    <3>1. net' = [net EXCEPT ![e] = "none"]
      BY <1>0, <1>5, <2>1 DEF WebTxTypeOK
    <3> QED BY <3>1
  <2>2. CASE exec[e].step = "send" /\ net' = [net EXCEPT ![e] = "pending"]
    <3>1. at = "poll"
      <4>1. to = [exec[e] EXCEPT !.step = "poll"]
        BY <1>0, <1>4, <2>2 DEF To, WebTxTypeOK
      <4> QED BY <1>0, <1>2, <4>1 DEF ExecType
    <3> QED BY <2>2, <3>1
  <2> QED BY <2>1, <2>2
<1>7. ExecSound(to, n, e \in Applied)
  BY <1>0, <1>2, <1>5, <1>6 DEF ExecSound
<1>8. /\ hook' \in HookType2 /\ hook'.success = hook.success /\ hook'.error = hook.error
      /\ hook'.simulating => hook.simulating /\ exec[e].step # "simulate"
      /\ hook'.pending => hook.pending \/ at = "send"
      /\ hook.pending => hook'.pending
      /\ at = "poll" => hook'.hash = e
      /\ at = "send" => hook'.pending
      /\ hook'.hash # hook.hash => at = "poll"
      /\ at = "sign" <=> exec[e].step = "simulate"
      /\ at = "poll" <=> exec[e].step = "send"
  <2>1. CASE exec[e].step = "simulate" /\ To(e, "sign") /\ hook' = [hook EXCEPT !.simulating = FALSE]
    <3>1. at = "sign"
      <4>1. to = [exec[e] EXCEPT !.step = "sign"]
        BY <1>0, <1>4, <2>1 DEF To, WebTxTypeOK
      <4> QED BY <1>0, <1>2, <4>1 DEF ExecType
    <3> QED BY <1>0, <2>1, <3>1 DEF HookType2
  <2>2. CASE exec[e].step = "sign" /\ To(e, "send") /\ hook' = [hook EXCEPT !.pending = TRUE]
    <3>1. at = "send"
      <4>1. to = [exec[e] EXCEPT !.step = "send"]
        BY <1>0, <1>4, <2>2 DEF To, WebTxTypeOK
      <4> QED BY <1>0, <1>2, <4>1 DEF ExecType
    <3> QED BY <1>0, <2>2, <3>1 DEF HookType2
  <2>3. CASE exec[e].step = "send" /\ To(e, "poll") /\ hook' = [hook EXCEPT !.hash = e]
    <3>1. at = "poll"
      <4>1. to = [exec[e] EXCEPT !.step = "poll"]
        BY <1>0, <1>4, <2>3 DEF To, WebTxTypeOK
      <4> QED BY <1>0, <1>2, <4>1 DEF ExecType
    <3> QED BY <1>0, <2>3, <3>1 DEF HookType2
  <2> QED BY <2>1, <2>2, <2>3
<1>9. FlagsAreKnown'
  <2>1. ASSUME hook'.simulating
        PROVE \E d \in Exec : exec'[d].step = "simulate" \/ (exec'[d].step = "build" /\ kind' = "proof")
    <3>1. PICK d \in Exec : exec[d].step = "simulate" \/ (exec[d].step = "build" /\ kind = "proof")
      BY <1>0, <1>8, <2>1 DEF FlagsAreKnown
    <3>2. d # e
      BY <1>5, <1>8, <2>1, <3>1
    <3> QED BY <1>4, <3>1, <3>2
  <2>2. ASSUME hook'.pending PROVE \E d \in Exec : exec'[d].step \in {"send", "poll"}
    <3>1. CASE at \in {"send", "poll"}
      BY <1>2, <1>4, <3>1
    <3>2. CASE at = "sign"
      <4>1. PICK d \in Exec : exec[d].step \in {"send", "poll"}
        BY <1>0, <1>8, <2>2, <3>2 DEF FlagsAreKnown
      <4>2. d # e
        BY <1>8, <3>2, <4>1
      <4> QED BY <1>4, <4>1, <4>2
    <3> QED BY <3>1, <3>2
  <2> QED BY <2>1, <2>2 DEF FlagsAreKnown
<1>10. OwnsHook'
  <2> SUFFICES ASSUME ~trouble.overlapped
               PROVE  /\ \A d, f \in AtWork : d = f
                      /\ \A d \in Exec :
                           /\ exec'[d].step \in {"simulate", "sign", "send", "poll"} =>
                                 ~hook'.error /\ ~hook'.success
                           /\ exec'[d].step \in {"send", "poll"} => hook'.pending
                           /\ exec'[d].step = "poll" => hook'.hash = d
                      /\ hook'.success => hook'.hash \in Applied'
    BY <1>5 DEF OwnsHook
  <2>1. (\A d, f \in AtWork : d = f) /\ ~hook.error /\ ~hook.success
    BY <1>0, <1>5 DEF OwnsHook
  <2>2. \A d \in Exec : d # e => exec'[d].step \in AtRest
    BY <1>4, <1>5, <2>1 DEF AtWork, AtRest
  <2>3. exec[e].step = "send" => hook.pending
    BY <1>0 DEF OwnsHook
  <2>4. to.step \in {"send", "poll"} => hook'.pending
    BY <1>2, <1>8, <2>3
  <2> QED BY <1>2, <1>4, <1>8, <2>1, <2>2, <2>4 DEF AtRest
<1>11. n \in NetStates /\ to.step \notin AtRest
  BY <1>2 DEF NetStates, AtRest
<1> QED BY <1>2, <1>3, <1>5, <1>6, <1>7, <1>8, <1>9, <1>10, <1>11, ExecGoesOn

\* Any step of an execution.
LEMMA ExecutionStep ==
  ASSUME WebTxInOrder, NEW e \in Exec,
         \/ ExecStep(e) \/ Sign(e) \/ RejectSigning(e) \/ BuildFails(e) \/ SimulateFails(e)
         \/ PollFails(e) \/ \E reached \in BOOLEAN : SendHashFails(e, reached)
  PROVE  WebTxInOrder'
<1>0. /\ WebTxTypeOK /\ ExecsSound /\ exec[e] \in ExecType /\ trouble \in WebTroubleType
      /\ net[e] \in NetStates /\ ExecSound(exec[e], net[e], e \in Applied)
  BY DEF WebTxInOrder, WebTxTypeOK, ExecsSound
<1>1. Rejects => trouble' \in WebTroubleType /\ trouble'.overlapped = trouble.overlapped
  BY <1>0 DEF Rejects, WebTroubleType
<1>2. net' = net => net' = [net EXCEPT ![e] = net[e]]
  BY <1>0 DEF WebTxTypeOK
\* A failure with nothing new at the network.
<1>3. ASSUME NEW fault \in BOOLEAN, Fails(e, fault), UNCHANGED <<kind, networkVars, live>>,
             exec[e].step \notin AtRest, Rejects \/ UNCHANGED trouble,
             kind # "proof" /\ ~fault => net[e] \notin {"applied", "pending"}
      PROVE  WebTxInOrder'
  <2>1. /\ UNCHANGED <<kind, sequence, ledgerNow, live>> /\ net' = [net EXCEPT ![e] = net[e]]
        /\ trouble' \in WebTroubleType /\ trouble'.overlapped = trouble.overlapped
        /\ net[e] = "applied" <=> e \in Applied
    BY <1>0, <1>1, <1>2, <1>3 DEF networkVars, ExecSound
  <2> QED BY <1>0, <1>3, <2>1, ExecFails
<1>4. CASE Upload(e)
  BY <1>4, LoadStep DEF Upload
<1>5. CASE Build(e) \/ BuildWriteXdr(e) \/ SecondName(e)
  BY <1>5, LoadStep DEF Build, BuildWriteXdr
<1>6. CASE Simulate(e)
  <2>1. CASE Refused \/ exec[e].second
    <3>1. Fails(e, FALSE) /\ exec[e].step = "simulate" /\ UNCHANGED <<kind, networkVars, live, trouble>>
      BY <1>6, <2>1 DEF Simulate
    <3>2. kind # "proof" => net[e] = "none"
      BY <1>0, <3>1 DEF ExecSound
    <3> QED BY <1>3, <3>1, <3>2 DEF AtRest
  <2>2. CASE ~(Refused \/ exec[e].second)
    <3>1. /\ exec[e].step = "simulate" /\ To(e, "sign") /\ UNCHANGED net
          /\ hook' = [hook EXCEPT !.simulating = FALSE] /\ ~exec[e].second
          /\ UNCHANGED <<kind, contractPage, sequence, ledgerNow, live, trouble>>
      BY <1>6, <2>2 DEF Simulate, networkVars
    <3> QED BY <3>1, SignStep
  <2> QED BY <2>1, <2>2
<1>7. CASE Sign(e)
  <2>1. /\ exec[e].step = "sign" /\ To(e, "send") /\ UNCHANGED net
        /\ hook' = [hook EXCEPT !.pending = TRUE]
        /\ UNCHANGED <<kind, contractPage, sequence, ledgerNow, live, trouble>>
    BY <1>7 DEF Sign, networkVars
  <2> QED BY <2>1, SignStep
<1>8. CASE SendHash(e)
  <2>1. /\ exec[e].step = "send" /\ To(e, "poll") /\ hook' = [hook EXCEPT !.hash = e]
        /\ (net' = [net EXCEPT ![e] = "pending"] \/ UNCHANGED net)
        /\ UNCHANGED <<kind, contractPage, sequence, ledgerNow, live, trouble>>
    BY <1>8 DEF SendHash
  <2> QED BY <2>1, SignStep
<1>9. CASE PollHash(e)
  <2>1. exec[e].step = "poll" /\ UNCHANGED <<kind, networkVars, live, trouble>>
    BY <1>9 DEF PollHash
  <2>2. CASE net[e] = "applied" /\ Succeeds(e)
    BY <2>1, <2>2, ExecSucceeds
  <2>3. CASE net[e] = "failed" /\ Fails(e, FALSE)
    BY <1>3, <2>1, <2>3 DEF AtRest
  <2> QED BY <1>9, <2>2, <2>3 DEF PollHash
<1>10. CASE GiveUp(e)
  <2>1. /\ exec[e].step = "poll" /\ UNCHANGED <<kind, networkVars, live, trouble>>
        /\ Fails(e, FALSE) /\ (net[e] \in {"none", "expired"} \/ kind = "proof")
    BY <1>10 DEF GiveUp, Outlives
  <2> QED BY <1>3, <2>1 DEF AtRest
<1>11. CASE RejectSigning(e)
  <2>1. /\ exec[e].step = "sign" /\ UNCHANGED <<kind, networkVars, live, trouble>>
        /\ Fails(e, FALSE)
    BY <1>11 DEF RejectSigning
  <2>2. net[e] = "none"
    BY <1>0, <2>1 DEF ExecSound
  <2> QED BY <1>3, <2>1, <2>2 DEF AtRest
<1>12. CASE SimulateFails(e)
  <2>1. /\ exec[e].step = "simulate" /\ UNCHANGED <<kind, networkVars, live>>
        /\ Fails(e, FALSE) /\ Rejects
    BY <1>12 DEF SimulateFails
  <2>2. kind # "proof" => net[e] = "none"
    BY <1>0, <2>1 DEF ExecSound
  <2> QED BY <1>3, <2>1, <2>2 DEF AtRest
<1>13. CASE PollFails(e)
  <2>1. /\ exec[e].step = "poll" /\ UNCHANGED <<kind, networkVars, live>>
        /\ Fails(e, TRUE) /\ Rejects
    BY <1>13 DEF PollFails
  <2> QED BY <1>3, <2>1 DEF AtRest
<1>14. CASE BuildFails(e)
  <2>1. exec[e].step = "build" /\ Rejects /\ UNCHANGED <<kind, networkVars, live>>
    BY <1>14 DEF BuildFails
  <2>2. CASE kind = "proof"
    <3>1. Fails(e, FALSE)
      BY <1>14, <2>2 DEF BuildFails
    <3> QED BY <1>3, <2>1, <2>2, <3>1 DEF AtRest
  <2>3. CASE kind # "proof"
    <3>1. /\ exec' = [exec EXCEPT ![e].step = "done", ![e].verdict = "failed"]
          /\ PageAfter(e, "failed") /\ UNCHANGED hook
      BY <1>14, <2>3 DEF BuildFails
    <3> QED BY <1>1, <2>1, <2>3, <3>1, ExecDropped
  <2> QED BY <2>2, <2>3
<1>15. ASSUME NEW reached \in BOOLEAN, SendHashFails(e, reached) PROVE WebTxInOrder'
  <2>1. exec[e].step = "send" /\ UNCHANGED <<kind, sequence, ledgerNow, live>>
    BY <1>15 DEF SendHashFails
  <2>2. net[e] = "none"
    BY <1>0, <2>1 DEF ExecSound
  <2>3. CASE Fails(e, FALSE) /\ UNCHANGED <<net, trouble>>
    BY <1>3, <2>1, <2>2, <2>3 DEF AtRest, networkVars
  <2>4. CASE Rejects /\ Fails(e, TRUE) /\ net' = IF reached THEN [net EXCEPT ![e] = "pending"] ELSE net
    <3>1. PICK n \in {"none", "pending"} : net' = [net EXCEPT ![e] = n]
      BY <1>2, <2>2, <2>4
    <3>2. n \in NetStates /\ (n = "applied" <=> e \in Applied)
      BY <1>0, <2>2 DEF NetStates, ExecSound
    <3>3. exec[e].step \notin AtRest
      BY <2>1 DEF AtRest
    <3> QED BY <1>1, <2>1, <2>4, <3>1, <3>2, <3>3, ExecFails
  <2> QED BY <1>15, <2>3, <2>4 DEF SendHashFails
<1> QED BY <1>4, <1>5, <1>6, <1>7, <1>8, <1>9, <1>10, <1>11, <1>12, <1>13, <1>14, <1>15 DEF ExecStep

\* The network applies, refuses or forgets a transaction.
LEMMA NetworkStep ==
  ASSUME WebTxInOrder, NEW e \in Exec, NetStep(e)
  PROVE  WebTxInOrder'
<1>0. /\ WebTxTypeOK /\ ExecsSound /\ SaidIsApplied /\ VoteIsKnown /\ FlagsAreKnown /\ ModalIsKnown
      /\ OwnsHook /\ Applied \subseteq Exec
  BY AppliedAre DEF WebTxInOrder
<1>1. /\ net[e] = "pending" /\ UNCHANGED <<kind, hook, contractPage, exec, live, trouble>>
      /\ sequence' \in Nat
  BY <1>0 DEF NetStep, ApplyWebTx, ExpireWebTx, WebTxTypeOK
<1>2. AtWork' = AtWork
  BY <1>1 DEF AtWork
<1>3. PICK n \in {"applied", "failed", "expired"} :
        /\ net' = [net EXCEPT ![e] = n]
        /\ ledgerNow' = IF n = "applied" THEN Append(ledgerNow, e) ELSE ledgerNow
  BY DEF NetStep, ApplyWebTx, ExpireWebTx
<1>4. /\ ledgerNow' \in Seq(Exec)
      /\ Applied' = IF n = "applied" THEN Applied \cup {e} ELSE Applied
  <2>1. CASE n # "applied"
    BY <1>0, <1>3, <2>1 DEF WebTxTypeOK, Applied
  <2>2. CASE n = "applied"
    <3>1. ledgerNow \in Seq(Exec)
      BY <1>0 DEF WebTxTypeOK
    <3>2. /\ Len(ledgerNow') = Len(ledgerNow) + 1 /\ ledgerNow'[Len(ledgerNow) + 1] = e
          /\ \A i \in 1..Len(ledgerNow) : ledgerNow'[i] = ledgerNow[i]
          /\ ledgerNow' \in Seq(Exec) /\ Len(ledgerNow) \in Nat
          /\ DOMAIN ledgerNow = 1..Len(ledgerNow) /\ DOMAIN ledgerNow' = 1..Len(ledgerNow')
      BY <1>3, <2>2, <3>1
    <3>3. 1..(Len(ledgerNow) + 1) = 1..Len(ledgerNow) \cup {Len(ledgerNow) + 1}
      BY <3>2
    <3>4. Applied' = {ledgerNow'[i] : i \in 1..Len(ledgerNow) \cup {Len(ledgerNow) + 1}}
      BY <3>2, <3>3 DEF Applied
    <3> QED BY <2>2, <3>2, <3>4 DEF Applied
  <2> QED BY <2>1, <2>2
<1>5. /\ net' \in [Exec -> NetStates] /\ net'[e] = n
      /\ \A d \in Exec : d # e => net'[d] = net[d]
  BY <1>0, <1>3, NetMoved DEF NetStates
<1>6. WebTxTypeOK'
  BY <1>0, <1>1, <1>4, <1>5 DEF WebTxTypeOK
<1>7. ExecsSound'
  <2>1. ASSUME NEW d \in Exec PROVE ExecSound(exec[d], net[d], d \in Applied)'
    <3>1. ExecSound(exec[d], net[d], d \in Applied)
      BY <1>0 DEF ExecsSound
    <3>2. CASE d = e
      BY <1>1, <1>4, <1>5, <3>1, <3>2 DEF ExecSound
    <3>3. CASE d # e
      BY <1>1, <1>4, <1>5, <3>1, <3>3 DEF ExecSound
    <3> QED BY <3>2, <3>3
  <2> QED BY <2>1 DEF ExecsSound
<1>8. Applied \subseteq Applied'
  BY <1>4
<1>9. SaidIsApplied' /\ VoteIsKnown' /\ FlagsAreKnown' /\ ModalIsKnown' /\ OwnsHook'
  BY <1>0, <1>1, <1>2, <1>8 DEF SaidIsApplied, VoteIsKnown, FlagsAreKnown, ModalIsKnown, OwnsHook
<1> QED BY <1>6, <1>7, <1>9 DEF WebTxInOrder

\* The user and the backend.
LEMMA ScreenStep ==
  ASSUME WebTxInOrder,
         \/ \E choice \in {"yes", "no"} : Choose(choice)
         \/ TakeBack \/ CancelDeploy \/ Leave \/ OtherTx \/ IndexVote \/ SyncVotes
  PROVE  WebTxInOrder'
<1>0. /\ WebTxTypeOK /\ ExecsSound /\ SaidIsApplied /\ VoteIsKnown /\ FlagsAreKnown /\ ModalIsKnown
      /\ OwnsHook /\ Applied \subseteq Exec
  BY AppliedAre DEF WebTxInOrder
<1>1. UNCHANGED <<kind, exec, net, ledgerNow>> /\ sequence' \in Nat
  BY <1>0 DEF Choose, TakeBack, CancelDeploy, Leave, OtherTx, IndexVote, SyncVotes, networkVars,
           WebTxTypeOK
<1>2. AtWork' = AtWork /\ Applied' = Applied
  BY <1>1 DEF AtWork, Applied
<1>3. ExecsSound'
  BY <1>0, <1>1, <1>2 DEF ExecsSound, ExecSound
<1>4. /\ contractPage' \in ContractPageType /\ contractPage'.submitting = contractPage.submitting
      /\ contractPage'.told = contractPage.told
      /\ contractPage'.shown = contractPage.shown
           \/ (kind = "vote" /\ contractPage'.shown = live.mine)
      /\ contractPage'.modal = "open" => contractPage.modal = "open" /\ ~CancelDeploy
  <2>1. contractPage \in ContractPageType /\ live \in LiveVotes
    BY <1>0 DEF WebTxTypeOK
  <2>2. ASSUME NEW choice \in {"yes", "no"}, Choose(choice)
        PROVE  contractPage' = [contractPage EXCEPT !.chosen = choice] /\ ~CancelDeploy
    BY <2>2 DEF Choose, CancelDeploy
  <2>3. TakeBack => contractPage' = [contractPage EXCEPT !.chosen = "none"] /\ ~CancelDeploy
    BY DEF TakeBack, CancelDeploy
  <2>4. CancelDeploy => contractPage' = [contractPage EXCEPT !.modal = "closed"]
    BY DEF CancelDeploy
  <2>5. Leave => contractPage' = [contractPage EXCEPT !.modal = "left"]
    BY DEF Leave
  <2>6. OtherTx \/ IndexVote => contractPage' = contractPage
    BY DEF OtherTx, IndexVote
  <2>7. SyncVotes => /\ contractPage' = [contractPage EXCEPT !.lastLive = live, !.shown = live.mine]
                     /\ kind = "vote"
    BY DEF SyncVotes
  <2>8. CancelDeploy => contractPage'.modal = "closed"
    BY <2>1, <2>4 DEF ContractPageType
  <2>9. contractPage'.modal = "open" => ~CancelDeploy
    BY <2>8
  <2> DEFINE Follows == /\ contractPage' \in ContractPageType
                        /\ contractPage'.submitting = contractPage.submitting
                        /\ contractPage'.told = contractPage.told
                        /\ contractPage'.shown = contractPage.shown
                             \/ (kind = "vote" /\ contractPage'.shown = live.mine)
                        /\ contractPage'.modal = "open" => contractPage.modal = "open"
  <2>10. ASSUME NEW choice \in {"yes", "no"}, Choose(choice) PROVE Follows
    BY <2>1, <2>2, <2>10 DEF ContractPageType, Votes
  <2>11. TakeBack => Follows
    BY <2>1, <2>3 DEF ContractPageType, Votes
  <2>12. CancelDeploy => Follows
    BY <2>1, <2>4 DEF ContractPageType
  <2>13. Leave => Follows
    BY <2>1, <2>5 DEF ContractPageType
  <2>14. OtherTx \/ IndexVote => Follows
    BY <2>1, <2>6
  <2>15. SyncVotes => Follows
    <3> DEFINE seen == [contractPage EXCEPT !.lastLive = live]
    <3>1. /\ seen \in ContractPageType /\ seen.submitting = contractPage.submitting
          /\ seen.told = contractPage.told /\ seen.modal = contractPage.modal
      BY <2>1 DEF ContractPageType
    <3>2. SyncVotes => contractPage' = [seen EXCEPT !.shown = live.mine] /\ kind = "vote"
      BY <2>7
    <3>3. live.mine \in Votes
      BY <2>1 DEF LiveVotes
    <3> HIDE DEF seen
    <3> QED BY <3>1, <3>2, <3>3 DEF ContractPageType
  <2>16. Follows
    BY <2>10, <2>11, <2>12, <2>13, <2>14, <2>15
  <2> QED BY <2>9, <2>16
<1>5. /\ live' \in LiveVotes /\ trouble' \in WebTroubleType /\ trouble'.overlapped = trouble.overlapped
      /\ live'.mine # live.mine => \E e \in Applied : exec[e].asks = live'.mine
  <2>1. live \in LiveVotes /\ trouble \in WebTroubleType
    BY <1>0 DEF WebTxTypeOK
  <2>2. CASE IndexVote
    <3>1. ledgerNow[1] \in Applied
      <4>1. ledgerNow \in Seq(Exec) /\ ledgerNow # <<>>
        BY <1>0, <2>2 DEF IndexVote, WebTxTypeOK
      <4>2. 1 \in DOMAIN ledgerNow
        BY <4>1
      <4> QED BY <4>2 DEF Applied
    <3>2. exec[ledgerNow[1]].asks \in Votes
      BY <1>0, <3>1 DEF WebTxTypeOK, ExecType
    <3>3. live' = [live EXCEPT !.mine = exec[ledgerNow[1]].asks] /\ trouble' = trouble
      BY <2>2 DEF IndexVote
    <3> QED BY <2>1, <3>1, <3>2, <3>3 DEF LiveVotes
  <2>3. CASE OtherTx
    BY <2>1, <2>3 DEF OtherTx, LiveVotes, WebTroubleType
  <2>4. CASE ~IndexVote /\ ~OtherTx
    BY <2>1, <2>4 DEF Choose, TakeBack, CancelDeploy, Leave, SyncVotes
  <2> QED BY <2>2, <2>3, <2>4
<1>6. \/ hook' = hook /\ ~TakeBack /\ ~CancelDeploy
      \/ hook' = Quiet /\ (CancelDeploy \/ TakeBack)
  <2>1. TakeBack \/ CancelDeploy => hook' = Quiet
    BY DEF TakeBack, CancelDeploy
  <2>2. ~(TakeBack \/ CancelDeploy) => hook' = hook
    BY DEF Choose, Leave, OtherTx, IndexVote, SyncVotes
  <2> QED BY <2>1, <2>2
<1>7. hook' \in HookType2 /\ (hook' = hook \/ (~hook'.success /\ ~hook'.simulating /\ ~hook'.pending
                                               /\ ~hook'.error))
  <2>1. Quiet \in HookType2 /\ ~Quiet.success /\ ~Quiet.simulating /\ ~Quiet.pending /\ ~Quiet.error
    BY DEF Quiet, HookType2, None
  <2>2. hook \in HookType2
    BY <1>0 DEF WebTxTypeOK
  <2> QED BY <1>6, <2>1, <2>2
<1>8. WebTxTypeOK'
  BY <1>0, <1>1, <1>4, <1>5, <1>7 DEF WebTxTypeOK
<1>9. SaidIsApplied'
  BY <1>0, <1>1, <1>2, <1>4, <1>5, <1>7 DEF SaidIsApplied
<1>10. VoteIsKnown'
  <2>1. contractPage'.shown # "none" =>
            kind = "vote" /\ \E e \in Applied \cup AtWork : exec[e].asks = contractPage'.shown
    BY <1>0, <1>4 DEF VoteIsKnown, SaidIsApplied
  <2> QED BY <1>0, <1>1, <1>2, <1>4, <2>1 DEF VoteIsKnown
<1>11. FlagsAreKnown'
  BY <1>0, <1>1, <1>7 DEF FlagsAreKnown
<1>12. ModalIsKnown'
  <2>1. contractPage'.modal = "open" => contractPage.modal = "open" /\ hook' = hook
    <3>1. contractPage'.modal = "open" /\ TakeBack => kind = "create" /\ kind = "resolve"
      BY <1>0, <1>4 DEF TakeBack, ModalIsKnown
    <3> QED BY <1>4, <1>6, <3>1
  <2> QED BY <1>0, <1>1, <1>2, <2>1 DEF ModalIsKnown
<1>13. OwnsHook'
  <2>1. CASE hook' = hook
    BY <1>0, <1>1, <1>2, <1>5, <2>1 DEF OwnsHook
  <2>2. CASE hook' = Quiet /\ (CancelDeploy \/ TakeBack)
    <3>1. ~Busy \/ hook.error
      BY <2>2 DEF CancelDeploy, TakeBack
    <3>2. ~Quiet.success /\ ~Quiet.error
      BY DEF Quiet
    <3>3. ASSUME ~trouble.overlapped, NEW e \in Exec PROVE exec[e].step \notin {"send", "poll"}
      BY <1>0, <3>1, <3>3 DEF OwnsHook, Busy
    <3> QED BY <1>0, <1>1, <1>2, <1>5, <2>2, <3>2, <3>3 DEF OwnsHook
  <2> QED BY <1>6, <2>1, <2>2
<1> QED BY <1>3, <1>8, <1>9, <1>10, <1>11, <1>12, <1>13 DEF WebTxInOrder

LEMMA WebTxStep ==
  ASSUME WebTxInOrder, [WebTxNext]_webTxVars
  PROVE  WebTxInOrder'
<1>1. CASE UNCHANGED webTxVars
  BY <1>1 DEF webTxVars, WebTxInOrder, WebTxTypeOK, ExecsSound, ExecSound, SaidIsApplied,
              VoteIsKnown, FlagsAreKnown, ModalIsKnown, OwnsHook, Applied, AtWork
<1>2. CASE WebTxNext
  BY <1>2, StartExecStep, ExecutionStep, NetworkStep, ScreenStep DEF WebTxNext
<1> QED BY <1>1, <1>2

-----------------------------------------------------------------------------
(* States shown before they are final (optimistic.ts).                     *)

TrackerStages == {"none", "applied", "signed", "submitted"} \cup SettledUpdates
CachedType == [confirmed : SUBSET Mut, shown : SUBSET Mut, msConfirmed : SUBSET Mut,
               msShown : SUBSET Mut]
OptimisticTypeOK ==
    /\ cached \in CachedType /\ predicted \in [Mut -> SUBSET Mut]
    /\ stage \in [Mut -> TrackerStages]
    /\ truth \subseteq Mut /\ dead \subseteq Mut /\ served \subseteq Mut
    /\ operation \in [Mut -> {"none", "predicted", "actual"}]
    /\ snapshot \in [Mut -> {NoState} \cup {<<before>> : before \in SUBSET Mut}]
    /\ crossed \in BOOLEAN

\* What is shown, predicted or decided was begun.
OnlyBegun ==
    \A m \in Mut : stage[m] = "none" =>
        /\ m \notin cached.confirmed \cup cached.shown \cup cached.msConfirmed \cup cached.msShown
        /\ m \notin truth \cup served
        /\ \A n \in Mut : m \notin predicted[n]

\* One mutation at a time: besides what the network applied, only it is shown.
OneIsExact ==
    /\ cached.confirmed \cup cached.msConfirmed \subseteq truth
    /\ \A m, n \in UnderWay : m = n
    /\ \A m \in UnderWay : /\ cached.shown \subseteq truth \cup {m}
                           /\ predicted[m] = cached.msConfirmed \cup {m}
                           /\ cached.msShown = predicted[m]
    /\ UnderWay = {} => cached.shown = cached.confirmed /\ cached.msShown = cached.msConfirmed

\* The inductive invariant.
OptimisticInOrder ==
    OptimisticTypeOK /\ OnlyBegun /\ SnapshotsAreThere /\ (~crossed => OneIsExact)

LEMMA OptimisticInitially == OptimisticInit => OptimisticInOrder
<1> SUFFICES ASSUME OptimisticInit PROVE OptimisticInOrder
  OBVIOUS
<1>1. OptimisticTypeOK
  BY DEF OptimisticInit, OptimisticTypeOK, CachedType, TrackerStages, SettledUpdates
<1>2. UnderWay = {}
  BY DEF OptimisticInit, UnderWay
<1>3. OnlyBegun /\ SnapshotsAreThere /\ OneIsExact
  BY <1>2 DEF OptimisticInit, OnlyBegun, SnapshotsAreThere, OneIsExact, Marked, NoState
<1> QED BY <1>1, <1>3 DEF OptimisticInOrder

\* A snapshot that was taken is one.
LEMMA SnapshotTaken == ASSUME NEW s PROVE <<s>> # NoState /\ <<s>>[1] = s
<1>1. Len(<<s>>) = 1 /\ Len(<<>>) = 0
  OBVIOUS
<1> QED BY <1>1 DEF NoState

\* Only m's own stage changes.
LEMMA OthersUnderWay ==
  ASSUME OptimisticTypeOK, NEW m \in Mut, NEW to \in TrackerStages,
         stage' = [stage EXCEPT ![m] = to]
  PROVE  /\ stage' \in [Mut -> TrackerStages]
         /\ UnderWay' = IF to \in SettledUpdates \cup {"none"} THEN UnderWay \ {m}
                        ELSE UnderWay \cup {m}
         /\ stage'[m] = to /\ \A n \in Mut : n # m => stage'[n] = stage[n]
  BY DEF OptimisticTypeOK, UnderWay

\* What an SDK operation keeps, commits or drops.
LEMMA OperationStep ==
  ASSUME OptimisticTypeOK, SnapshotsAreThere, NEW m \in Mut,
         \/ CommitOperation(m) \/ DropOperation(m)
         \/ m \notin cached.shown /\ KeepOperation(m, cached.shown)
         \/ UNCHANGED <<operation, snapshot>>
  PROVE  /\ SnapshotsAreThere'
         /\ operation' \in [Mut -> {"none", "predicted", "actual"}]
         /\ snapshot' \in [Mut -> {NoState} \cup {<<before>> : before \in SUBSET Mut}]
<1> USE DEF OptimisticTypeOK, SnapshotsAreThere
<1>1. CASE CommitOperation(m) \/ DropOperation(m)
  <2>1. \A n \in Mut : n # m => operation'[n] = operation[n] /\ snapshot'[n] = snapshot[n]
    BY <1>1 DEF CommitOperation, DropOperation
  <2>2. operation'[m] \in {"none", "actual"}
    <3>1. CASE DropOperation(m)
      BY <3>1 DEF DropOperation
    <3>2. CASE CommitOperation(m)
      <4>1. operation'[m] = IF operation[m] = "none" THEN operation[m] ELSE "actual"
        BY <3>2 DEF CommitOperation
      <4> QED BY <4>1
    <3> QED BY <1>1, <3>1, <3>2
  <2>3. snapshot'[m] = NoState
    BY <1>1 DEF CommitOperation, DropOperation
  <2>4. /\ operation' \in [Mut -> {"none", "predicted", "actual"}]
        /\ snapshot' \in [Mut -> {NoState} \cup {<<before>> : before \in SUBSET Mut}]
    BY <1>1 DEF CommitOperation, DropOperation
  <2> QED BY <2>1, <2>2, <2>3, <2>4 DEF Marked
<1>2. CASE m \notin cached.shown /\ KeepOperation(m, cached.shown)
  <2>1. cached.shown \in SUBSET Mut
    BY DEF CachedType
  <2>2. \A n \in Mut : n # m => operation'[n] = operation[n] /\ snapshot'[n] = snapshot[n]
    BY <1>2 DEF KeepOperation
  <2>3. operation'[m] = Marked /\ snapshot'[m] = <<cached.shown>>
    BY <1>2 DEF KeepOperation
  <2>4. snapshot'[m] # NoState /\ snapshot'[m][1] = cached.shown
    BY <2>3, SnapshotTaken
  <2>5. /\ operation' \in [Mut -> {"none", "predicted", "actual"}]
        /\ snapshot' \in [Mut -> {NoState} \cup {<<before>> : before \in SUBSET Mut}]
    BY <1>2, <2>1 DEF KeepOperation, Marked
  <2> QED BY <1>2, <2>2, <2>3, <2>4, <2>5
<1>3. CASE UNCHANGED <<operation, snapshot>>
  BY <1>3
<1> QED BY <1>1, <1>2, <1>3

LEMMA OptimisticStep ==
  ASSUME OptimisticInOrder, [OptimisticNext]_optimisticVars
  PROVE  OptimisticInOrder'
<1>0. OptimisticTypeOK /\ SnapshotsAreThere /\ OnlyBegun /\ (~crossed => OneIsExact)
  BY DEF OptimisticInOrder
<1>1. CASE UNCHANGED optimisticVars
  BY <1>1 DEF optimisticVars, OptimisticInOrder, OptimisticTypeOK, OnlyBegun, SnapshotsAreThere,
              OneIsExact, UnderWay
<1>2. ASSUME NEW m \in Mut, ApplyMutation(m) PROVE OptimisticInOrder'
  <2> USE <1>0, <1>2 DEF ApplyMutation, Predict
  <2>1. m \notin cached.shown /\ m \notin UnderWay
    BY DEF OnlyBegun, UnderWay
  <2>2. /\ SnapshotsAreThere'
        /\ operation' \in [Mut -> {"none", "predicted", "actual"}]
        /\ snapshot' \in [Mut -> {NoState} \cup {<<before>> : before \in SUBSET Mut}]
    BY <2>1, OperationStep
  <2>3. /\ stage' \in [Mut -> TrackerStages] /\ UnderWay' = UnderWay \cup {m}
        /\ stage'[m] = "applied" /\ \A n \in Mut : n # m => stage'[n] = stage[n]
    <3>1. "applied" \in TrackerStages /\ "applied" \notin SettledUpdates \cup {"none"}
      BY DEF TrackerStages, SettledUpdates
    <3> QED BY <3>1, OthersUnderWay
  <2>4. /\ cached' = [confirmed |-> cached.confirmed, shown |-> cached.confirmed \cup {m},
                      msConfirmed |-> cached.msConfirmed, msShown |-> cached.msConfirmed \cup {m}]
        /\ cached' \in CachedType
    BY DEF OptimisticTypeOK, CachedType
  <2>5. /\ predicted' \in [Mut -> SUBSET Mut] /\ predicted'[m] = cached.msConfirmed \cup {m}
        /\ \A n \in Mut : n # m => predicted'[n] = predicted[n]
    BY DEF OptimisticTypeOK, CachedType
  <2>6. OptimisticTypeOK'
    BY <2>2, <2>3, <2>4, <2>5 DEF OptimisticTypeOK
  <2>7. OnlyBegun'
    BY <2>3, <2>4, <2>5 DEF OnlyBegun
  <2>8. ~crossed' => OneIsExact'
    BY <2>3, <2>4, <2>5 DEF OneIsExact
  <2> QED BY <2>2, <2>6, <2>7, <2>8 DEF OptimisticInOrder
<1>3. ASSUME NEW m \in Mut, Advance(m) PROVE OptimisticInOrder'
  <2>1. PICK to \in {"signed", "submitted"} : stage' = [stage EXCEPT ![m] = to]
    BY <1>3 DEF Advance
  <2>2. to \in TrackerStages /\ to \notin SettledUpdates \cup {"none"}
    BY DEF TrackerStages, SettledUpdates
  <2>3. m \in UnderWay
    BY <1>3 DEF Advance, UnderWay, SettledUpdates
  <2>4. /\ stage' \in [Mut -> TrackerStages] /\ UnderWay' = UnderWay
        /\ stage'[m] = to /\ \A n \in Mut : n # m => stage'[n] = stage[n]
    <3>1. to \in TrackerStages /\ ~(to \in SettledUpdates \cup {"none"})
      BY <2>2
    <3>2. /\ stage' \in [Mut -> TrackerStages]
          /\ UnderWay' = IF to \in SettledUpdates \cup {"none"} THEN UnderWay \ {m}
                          ELSE UnderWay \cup {m}
          /\ stage'[m] = to /\ \A n \in Mut : n # m => stage'[n] = stage[n]
      BY ONLY m \in Mut, <1>0, <2>1, <3>1, OthersUnderWay
    <3>3. UnderWay \cup {m} = UnderWay
      BY <2>3
    <3> QED BY <3>1, <3>2, <3>3
  <2>5. UNCHANGED <<cached, predicted, truth, dead, served, operation, snapshot, crossed>>
    BY <1>3 DEF Advance
  <2> QED BY <1>0, <2>2, <2>4, <2>5
          DEF OptimisticInOrder, OptimisticTypeOK, OnlyBegun, SnapshotsAreThere, OneIsExact
<1>4. ASSUME NEW m \in Mut, MarkConfirmed(m) PROVE OptimisticInOrder'
  <2> USE <1>0, <1>4 DEF MarkConfirmed, CommitUpdate
  <2>1. /\ SnapshotsAreThere'
        /\ operation' \in [Mut -> {"none", "predicted", "actual"}]
        /\ snapshot' \in [Mut -> {NoState} \cup {<<before>> : before \in SUBSET Mut}]
    BY OperationStep
  <2>2. /\ stage' \in [Mut -> TrackerStages] /\ UnderWay' = UnderWay \ {m}
        /\ stage'[m] = "confirmed" /\ \A n \in Mut : n # m => stage'[n] = stage[n]
    <3>1. "confirmed" \in TrackerStages /\ "confirmed" \in SettledUpdates \cup {"none"}
      BY DEF TrackerStages, SettledUpdates
    <3> QED BY <3>1, OthersUnderWay
  <2>3. m \in UnderWay
    BY DEF UnderWay, SettledUpdates
  <2>4. /\ cached' = [confirmed |-> cached.shown, shown |-> cached.shown,
                      msConfirmed |-> predicted[m], msShown |-> cached.msShown]
        /\ cached' \in CachedType
    BY DEF OptimisticTypeOK, CachedType
  <2>5. OptimisticTypeOK'
    BY <2>1, <2>2, <2>4 DEF OptimisticTypeOK
  <2>6. OnlyBegun'
    BY <2>2, <2>4 DEF OnlyBegun
  <2>7. ~crossed' => OneIsExact'
    BY <2>2, <2>3, <2>4 DEF OneIsExact
  <2> QED BY <2>1, <2>5, <2>6, <2>7 DEF OptimisticInOrder
<1>5. ASSUME NEW m \in Mut, MarkFailed(m) PROVE OptimisticInOrder'
  <2> USE <1>0, <1>5 DEF MarkFailed, Rollback
  <2>1. /\ SnapshotsAreThere'
        /\ operation' \in [Mut -> {"none", "predicted", "actual"}]
        /\ snapshot' \in [Mut -> {NoState} \cup {<<before>> : before \in SUBSET Mut}]
    BY OperationStep
  <2>2. /\ stage' \in [Mut -> TrackerStages] /\ UnderWay' = UnderWay \ {m}
        /\ stage'[m] = "failed" /\ \A n \in Mut : n # m => stage'[n] = stage[n]
    <3>1. "failed" \in TrackerStages /\ "failed" \in SettledUpdates \cup {"none"}
      BY DEF TrackerStages, SettledUpdates
    <3> QED BY <3>1, OthersUnderWay
  <2>4. /\ cached' = [confirmed |-> cached.confirmed, shown |-> cached.confirmed,
                      msConfirmed |-> cached.msConfirmed, msShown |-> cached.msConfirmed]
        /\ cached' \in CachedType
    BY DEF OptimisticTypeOK, CachedType
  <2>5. OptimisticTypeOK'
    BY <2>1, <2>2, <2>4 DEF OptimisticTypeOK
  <2>6. OnlyBegun'
    BY <2>2, <2>4 DEF OnlyBegun
  <2>7. ~crossed' => OneIsExact'
    BY <2>2, <2>4 DEF OneIsExact
  <2> QED BY <2>1, <2>5, <2>6, <2>7 DEF OptimisticInOrder
<1>6. ASSUME NEW m \in Mut, ClearOld(m) PROVE OptimisticInOrder'
  <2>1. /\ SnapshotsAreThere'
        /\ operation' \in [Mut -> {"none", "predicted", "actual"}]
        /\ snapshot' \in [Mut -> {NoState} \cup {<<before>> : before \in SUBSET Mut}]
    BY <1>0, <1>6, OperationStep DEF ClearOld
  <2>2. UNCHANGED <<cached, predicted, stage, truth, dead, served, crossed>>
    BY <1>6 DEF ClearOld
  <2> QED BY <1>0, <2>1, <2>2 DEF OptimisticInOrder, OptimisticTypeOK, OnlyBegun, OneIsExact, UnderWay
<1>7. ASSUME NEW m \in Mut, NetworkDecides(m) PROVE OptimisticInOrder'
  <2>1. /\ truth \subseteq truth' /\ truth' \subseteq truth \cup {m} /\ dead' \subseteq Mut
        /\ stage[m] # "none"
        /\ UNCHANGED <<cached, predicted, stage, served, operation, snapshot, crossed>>
    BY <1>0, <1>7 DEF NetworkDecides, OptimisticTypeOK
  <2> QED BY <1>0, <2>1
          DEF OptimisticInOrder, OptimisticTypeOK, OnlyBegun, SnapshotsAreThere, OneIsExact, UnderWay
<1>8. CASE Refresh
  <2>1. /\ cached' = [confirmed |-> truth, shown |-> truth, msConfirmed |-> cached.msConfirmed,
                      msShown |-> cached.msShown]
        /\ cached' \in CachedType /\ served' = truth
        /\ UNCHANGED <<predicted, stage, truth, dead, operation, snapshot, crossed>>
    BY <1>0, <1>8 DEF Refresh, OptimisticTypeOK, CachedType
  <2> QED BY <1>0, <2>1
          DEF OptimisticInOrder, OptimisticTypeOK, OnlyBegun, SnapshotsAreThere, OneIsExact, UnderWay
<1> QED BY <1>1, <1>2, <1>3, <1>4, <1>5, <1>6, <1>7, <1>8 DEF OptimisticNext

LEMMA OptimisticSound == OptimisticInOrder => PredictionsAreHonest
<1> SUFFICES ASSUME OptimisticInOrder PROVE PredictionsAreHonest
  OBVIOUS
<1>1. ASSUME ~crossed PROVE cached.shown \cup cached.msShown \subseteq truth \cup UnderWay
  <2>1. OneIsExact
    BY <1>1 DEF OptimisticInOrder
  <2>2. CASE UnderWay = {}
    BY <2>1, <2>2 DEF OneIsExact
  <2>3. ASSUME NEW m \in UnderWay PROVE cached.shown \cup cached.msShown \subseteq truth \cup UnderWay
    BY <2>1, <2>3 DEF OneIsExact
  <2> QED BY <2>2, <2>3
<1> QED BY <1>1 DEF OptimisticInOrder, OneIsExact, AloneIsExact, PredictionsAreHonest

-----------------------------------------------------------------------------
(* Views that are kept, and the allowance of a funding (contract.ts).      *)

Tokens == {"asset", "native"}
FundingType == [at : {"idle", "checking", "approving", "ready"}, token : Tokens, need : Nat,
                alone : BOOLEAN]
ViewType == [at : {"idle", "asked", "read"}, read : Int]
ReadsTypeOK ==
    /\ clock \in Nat /\ viewEntry \in [read : Int, until : Int]
    /\ views \in [ViewCall -> ViewType] /\ servedView \in [age : Int, took : Int]
    /\ allowance \in [amount : Nat, until : Int] /\ funds \in [Tokens -> Nat]
    /\ fundings \in [Funding -> FundingType] /\ readFaults \in Nat

\* A funding that is alone is so, and once ready has what it needs.
AloneHas(f) ==
    LET funding == fundings[f] IN
    /\ funding.at = "approving" => funding.token = "asset"
    /\ funding.alone =>
        /\ funding.at # "idle" => \A g \in Funding \ {f} : fundings[g].at = "idle"
        /\ funding.at = "ready" /\ funding.token = "asset" =>
              allowance.amount >= funding.need \/ clock > allowance.until
        /\ funding.at = "ready" /\ funding.token = "native" =>
              funds["native"] >= funding.need + FeeBuffer + BaseReserve

\* The inductive invariant.
ReadsInOrder == ReadsTypeOK /\ ReadsAreSound /\ \A f \in Funding : AloneHas(f)

LEMMA ReadsInitially == ReadsInit => ReadsInOrder
<1> SUFFICES ASSUME ReadsInit PROVE ReadsInOrder
  OBVIOUS
<1>1. Balance \in Nat /\ ViewTtl \in Nat
  BY ContractReadsAssumption
<1>2. ReadsTypeOK
  BY <1>1 DEF ReadsInit, ReadsTypeOK, NotKept, NoView, NoFunding, ViewType, FundingType, Tokens
<1>3. \A f \in Funding : AloneHas(f)
  BY DEF ReadsInit, AloneHas, NoFunding
<1> QED BY <1>1, <1>2, <1>3 DEF ReadsInit, ReadsInOrder, ReadsAreSound, AloneIsCovered, ViewsAreFresh

LEMMA ViewStep ==
  ASSUME ReadsInOrder, ReadViewNext \/ UNCHANGED readsVars
  PROVE  ReadsInOrder'
<1>0. /\ ReadsTypeOK /\ servedView.age <= ViewTtl + servedView.took /\ ~failed /\ ViewTtl \in Nat
      /\ \A f \in Funding : AloneHas(f)
  BY ContractReadsAssumption DEF ReadsInOrder, ReadsAreSound, AloneIsCovered, ViewsAreFresh
<1>1. CASE UNCHANGED readsVars
  BY <1>0, <1>1 DEF readsVars, ReadsInOrder, ReadsTypeOK, AloneHas, ReadsAreSound, AloneIsCovered,
              ViewsAreFresh
<1>2. CASE Minute
  <2>1. clock' = clock + 1 /\ clock' \in Nat
    BY <1>0, <1>2 DEF Minute, ReadsTypeOK
  <2>2. UNCHANGED <<viewEntry, views, servedView, allowance, funds, fundings, failed, readFaults>>
    BY <1>2 DEF Minute
  <2>3. \A f \in Funding : AloneHas(f)'
    BY <1>0, <2>1, <2>2 DEF AloneHas, ReadsTypeOK
  <2> QED BY <1>0, <2>1, <2>2, <2>3 DEF ReadsInOrder, ReadsTypeOK, ReadsAreSound, AloneIsCovered,
              ViewsAreFresh
<1>3. ASSUME NEW v \in ViewCall, SimulateView(v) \/ ReadView(v) \/ KeepView(v) \/ ViewFails(v)
      PROVE  ReadsInOrder'
  <2>1. UNCHANGED <<clock, allowance, funds, fundings, failed>>
    BY <1>3 DEF SimulateView, ReadView, KeepView, ViewFails
  <2>2. \A f \in Funding : AloneHas(f)'
    BY <1>0, <2>1 DEF AloneHas
  <2>3. viewEntry' \in [read : Int, until : Int] /\ readFaults' \in Nat
    BY <1>0, <1>3 DEF SimulateView, ReadView, KeepView, ViewFails, ReadsTypeOK, ViewType
  <2>4. views' \in [ViewCall -> ViewType]
    BY <1>0, <1>3 DEF SimulateView, ReadView, KeepView, ViewFails, ReadsTypeOK, ViewType, NoView
  <2>5. servedView' \in [age : Int, took : Int] /\ servedView'.age <= ViewTtl + servedView'.took
    <3>1. CASE UNCHANGED servedView
      BY <1>0, <3>1 DEF ReadsTypeOK
    <3>2. CASE KeepView(v)
      BY <1>0, <3>2 DEF KeepView, Serve, ReadsTypeOK, ViewType
    <3>3. CASE SimulateView(v) /\ TtlGet # NotKept
      <4>1. TtlGet = viewEntry /\ clock <= viewEntry.until
        BY <1>0, <3>3 DEF TtlGet, ReadsTypeOK
      <4>2. servedView' = [age |-> clock - viewEntry.read,
                           took |-> viewEntry.until - ViewTtl - viewEntry.read]
        BY <3>3, <4>1 DEF SimulateView, Serve
      <4> QED BY <1>0, <4>1, <4>2 DEF ReadsTypeOK
    <3> QED BY <1>3, <3>1, <3>2, <3>3 DEF SimulateView, ReadView, ViewFails
  <2> QED BY <1>0, <2>1, <2>2, <2>3, <2>4, <2>5 DEF ReadsInOrder, ReadsTypeOK, ReadsAreSound,
              AloneIsCovered, ViewsAreFresh
<1> QED BY <1>1, <1>2, <1>3 DEF ReadViewNext

\* What fundings leave alone.
LEMMA FundingMoves ==
  ASSUME ReadsInOrder, UNCHANGED <<clock, viewEntry, views, servedView>>,
         fundings' \in [Funding -> FundingType], allowance' \in [amount : Nat, until : Int],
         funds' \in [Tokens -> Nat], readFaults' \in Nat, ~failed',
         \A f \in Funding : AloneHas(f)'
  PROVE  ReadsInOrder'
  BY DEF ReadsInOrder, ReadsTypeOK, ReadsAreSound, AloneIsCovered, ViewsAreFresh

\* A funding that was under way leaves no other alone, whatever it changes.
LEMMA OthersAreNotAlone ==
  ASSUME ReadsInOrder, NEW f \in Funding, fundings[f].at # "idle",
         NEW g \in Funding, g # f, fundings[g].alone
  PROVE  fundings[g].at = "idle"
  BY DEF ReadsInOrder, AloneHas

LEMMA OneFundingMoves ==
  ASSUME ReadsInOrder, NEW f \in Funding, fundings[f].at # "idle",
         UNCHANGED clock, NEW to, fundings' = [fundings EXCEPT ![f] = to],
         AloneHas(f)'
  PROVE  \A g \in Funding : AloneHas(g)'
<1> SUFFICES ASSUME NEW g \in Funding, g # f PROVE AloneHas(g)'
  OBVIOUS
<1>1. fundings'[g] = fundings[g]
  BY DEF ReadsInOrder, ReadsTypeOK
<1>2. fundings[g].alone => fundings[g].at = "idle"
  BY OthersAreNotAlone
<1>3. AloneHas(g)
  BY DEF ReadsInOrder
<1> QED BY <1>1, <1>2, <1>3 DEF AloneHas

LEMMA FundStep ==
  ASSUME ReadsInOrder, FundNext
  PROVE  ReadsInOrder'
<1>0. /\ ReadsTypeOK /\ ~failed /\ \A f \in Funding : AloneHas(f)
      /\ FeeBuffer \in Nat /\ BaseReserve \in Nat /\ Allowed \in Nat /\ Needs \subseteq Nat
  BY ContractReadsAssumption DEF ReadsInOrder, ReadsAreSound, AloneIsCovered
<1>1. CASE Minute
  BY <1>1, ViewStep DEF ReadViewNext
<1>2. ASSUME NEW f \in Funding, NEW token \in {"asset", "native"}, NEW need \in Needs,
             BeginFunding(f, token, need)
      PROVE  ReadsInOrder'
  <2>1. UNCHANGED <<clock, viewEntry, views, servedView, allowance, funds, failed, readFaults>>
    BY <1>2 DEF BeginFunding
  <2>2. fundings' \in [Funding -> FundingType]
    BY <1>0, <1>2 DEF BeginFunding, ReadsTypeOK, FundingType, Tokens
  <2>3. \A g \in Funding : g # f => /\ ~fundings'[g].alone
                                        /\ fundings'[g].at = fundings[g].at
                                        /\ fundings'[g].token = fundings[g].token
    BY <1>0, <1>2 DEF BeginFunding, ReadsTypeOK, FundingType
  <2>4. /\ fundings'[f].at = "checking"
        /\ fundings'[f].alone => \A g \in Funding \ {f} : fundings[g].at = "idle"
    BY <1>0, <1>2 DEF BeginFunding
  <2>5. \A g \in Funding : AloneHas(g)'
    BY <1>0, <2>3, <2>4 DEF AloneHas
  <2> QED BY <1>0, <2>1, <2>2, <2>5, FundingMoves DEF ReadsTypeOK
<1>3. ASSUME NEW f \in Funding,
             \/ EnsureAllowance(f) \/ ApproveToken(f) \/ SetAllowance(f) \/ GrantFund(f)
             \/ CheckXlmSufficiency(f) \/ BuildNativeXlmFund(f)
      PROVE  ReadsInOrder'
  <2> DEFINE was == fundings[f]
  <2>1. was \in FundingType /\ was.at # "idle" /\ UNCHANGED <<clock, viewEntry, views, servedView>>
    BY <1>0, <1>3 DEF EnsureAllowance, ApproveToken, SetAllowance, GrantFund, CheckXlmSufficiency,
              BuildNativeXlmFund, ReadDone, ReadsTypeOK
  <2>2. /\ clock \in Nat /\ allowance \in [amount : Nat, until : Int] /\ funds \in [Tokens -> Nat]
        /\ readFaults \in Nat /\ fundings \in [Funding -> FundingType]
    BY <1>0 DEF ReadsTypeOK
  <2>3. was.alone => \A g \in Funding \ {f} : fundings[g].at = "idle"
    BY <1>0, <2>1 DEF AloneHas
  \* It is enough to know what becomes of this one.
  <2>4. ASSUME NEW to \in FundingType, fundings' = [fundings EXCEPT ![f] = to], ~failed',
               allowance' \in [amount : Nat, until : Int], funds' \in [Tokens -> Nat],
               readFaults' \in Nat,
               to.at = "approving" => to.token = "asset",
               to.alone => was.alone \/ to.at = "idle",
               to.alone /\ to.at = "ready" /\ to.token = "asset" =>
                   allowance'.amount >= to.need \/ clock > allowance'.until,
               to.alone /\ to.at = "ready" /\ to.token = "native" =>
                   funds'["native"] >= to.need + FeeBuffer + BaseReserve
        PROVE  ReadsInOrder'
    <3>1. fundings' \in [Funding -> FundingType] /\ fundings'[f] = to
          /\ \A g \in Funding : g # f => fundings'[g] = fundings[g]
      BY <2>2, <2>4
    <3>2. AloneHas(f)'
      BY <2>1, <2>3, <2>4, <3>1 DEF AloneHas
    <3>3. \A g \in Funding : AloneHas(g)'
      BY <2>1, <2>4, <3>2, OneFundingMoves
    <3> QED BY <2>1, <2>4, <3>1, <3>3, FundingMoves
  <2>5. CASE EnsureAllowance(f)
    <3>1. PICK read \in {Allowance} \cup (IF readFaults < MaxReadFaults THEN {0} ELSE {}) :
            /\ readFaults' = IF read = Allowance THEN readFaults ELSE readFaults + 1
            /\ fundings' = [fundings EXCEPT ![f].at =
                               IF read >= fundings[f].need THEN "ready" ELSE "approving"]
      BY <2>5 DEF EnsureAllowance
    <3> DEFINE at == IF read >= was.need THEN "ready" ELSE "approving"
               to == [was EXCEPT !.at = at]
    <3>2. fundings' = [fundings EXCEPT ![f] = to]
      BY <2>2, <3>1
    <3>3. to \in FundingType /\ to.at = at /\ to.token = was.token /\ to.need = was.need
          /\ to.alone = was.alone
      BY <2>1 DEF FundingType
    <3>4. Allowance \in Nat /\ (clock <= allowance.until => Allowance = allowance.amount)
      BY <2>2 DEF Allowance
    <3>5. at = "ready" => allowance.amount >= was.need \/ clock > allowance.until
      BY <2>1, <2>2, <3>1, <3>4 DEF FundingType
    <3>6. was.token = "asset" /\ UNCHANGED <<allowance, funds, failed>>
      BY <2>1, <2>5 DEF EnsureAllowance, IsNative, FundingType, Tokens
    <3>7. readFaults' \in Nat
      BY <2>2, <3>1
    <3> HIDE DEF to, was, at
    <3> QED BY <1>0, <2>2, <2>4, <3>2, <3>3, <3>5, <3>6, <3>7
  <2>6. CASE ApproveToken(f)
    <3> DEFINE to == [was EXCEPT !.at = "approving"]
    <3>1. /\ fundings' = [fundings EXCEPT ![f] = to] /\ was.token = "asset"
          /\ UNCHANGED <<allowance, funds, failed, readFaults>>
      BY <2>1, <2>2, <2>6 DEF ApproveToken, IsNative, FundingType, Tokens
    <3>2. /\ to \in FundingType /\ to.at = "approving" /\ to.alone = was.alone
          /\ to.token = was.token
      BY <2>1 DEF FundingType
    <3> HIDE DEF to, was
    <3> QED BY <1>0, <2>2, <2>4, <3>1, <3>2
  <2>7. CASE SetAllowance(f)
    <3> DEFINE to == [was EXCEPT !.at = "ready"]
    <3>1. /\ fundings' = [fundings EXCEPT ![f] = to] /\ was.at = "approving"
          /\ allowance' = [amount |-> was.need, until |-> clock + Allowed]
          /\ UNCHANGED <<funds, failed, readFaults>>
      BY <2>2, <2>7 DEF SetAllowance
    <3>2. to \in FundingType /\ to.alone = was.alone /\ to.need = was.need
          /\ to.token = was.token
      BY <2>1 DEF FundingType
    <3>3. was.token = "asset" /\ to.at = "ready"
      BY <1>0, <2>1, <3>1 DEF AloneHas, FundingType
    <3>4. allowance'.amount = was.need /\ allowance' \in [amount : Nat, until : Int]
      BY <1>0, <2>1, <2>2, <3>1 DEF FundingType
    <3>5. was.need >= was.need
      BY <2>1 DEF FundingType
    <3> HIDE DEF to, was
    <3> QED BY <1>0, <2>2, <2>4, <3>1, <3>2, <3>3, <3>4, <3>5
  <2>8. CASE CheckXlmSufficiency(f)
    <3> DEFINE required == ComputeRequiredBalance(was.need)
    <3>1. PICK read \in {funds["native"]} \cup (IF readFaults < MaxReadFaults THEN {0} ELSE {}) :
            /\ readFaults' = IF read = funds["native"] THEN readFaults ELSE readFaults + 1
            /\ fundings' = [fundings EXCEPT ![f] =
                  IF read >= required THEN [was EXCEPT !.at = "ready"] ELSE NoFunding]
      BY <2>8 DEF CheckXlmSufficiency
    <3> DEFINE to == IF read >= required THEN [was EXCEPT !.at = "ready"] ELSE NoFunding
    <3>2. to \in FundingType /\ (to.alone => was.alone \/ to.at = "idle") /\ to.at # "approving"
          /\ (to.at = "ready" => read >= required /\ to.need = was.need /\ to.token = was.token)
      BY <2>1 DEF FundingType, NoFunding, Tokens
    <3>3. was.token = "native" /\ UNCHANGED <<allowance, funds, failed>>
      BY <2>8 DEF CheckXlmSufficiency, IsNative
    <3>4. required = was.need + FeeBuffer + BaseReserve /\ required \in Nat /\ funds["native"] \in Nat
      BY <1>0, <2>1, <2>2 DEF ComputeRequiredBalance, FundingType, Tokens
    <3>5. read >= required => funds["native"] >= was.need + FeeBuffer + BaseReserve
      BY <3>1, <3>4
    <3>6. readFaults' \in Nat
      BY <2>2, <3>1
    <3>7. fundings' = [fundings EXCEPT ![f] = to]
      BY <3>1
    <3> HIDE DEF to, was, required
    <3> QED BY <1>0, <2>2, <2>4, <3>2, <3>3, <3>5, <3>6, <3>7
  <2>9. CASE GrantFund(f)
    <3>1. /\ was.at = "ready" /\ was.token = "asset"
          /\ failed' = (failed \/ (was.alone /\ ~(Allowance >= was.need) /\ clock <= allowance.until))
          /\ fundings' = [fundings EXCEPT ![f] = NoFunding] /\ UNCHANGED readFaults
      BY <2>1, <2>9 DEF GrantFund, ReadDone, IsNative, FundingType, Tokens
    <3>2. was.alone /\ clock <= allowance.until => Allowance >= was.need
      BY <1>0, <2>1, <2>2, <3>1 DEF AloneHas, Allowance, FundingType
    <3>3. ~failed'
      BY <1>0, <3>1, <3>2
    <3>4. allowance' \in [amount : Nat, until : Int] /\ funds' \in [Tokens -> Nat]
      <4>1. CASE Allowance >= was.need /\ funds["asset"] >= was.need
        <5>1. /\ funds' = [funds EXCEPT !["asset"] = @ - was.need]
              /\ allowance' = [allowance EXCEPT !.amount = @ - was.need]
          BY <2>9, <4>1 DEF GrantFund
        <5>2. was.need \in Nat /\ funds["asset"] \in Nat /\ "asset" \in Tokens
          BY <2>1, <2>2 DEF FundingType, Tokens
        <5>3. allowance.amount >= was.need
          BY <2>2, <4>1, <5>2 DEF Allowance
        <5> QED BY <2>2, <4>1, <5>1, <5>2, <5>3
      <4>2. CASE ~(Allowance >= was.need /\ funds["asset"] >= was.need)
        BY <2>2, <2>9, <4>2 DEF GrantFund
      <4> QED BY <4>1, <4>2
    <3>5. NoFunding \in FundingType /\ NoFunding.at = "idle"
      BY DEF NoFunding, FundingType, Tokens
    <3> HIDE DEF was
    <3> QED BY <2>2, <2>4, <3>1, <3>3, <3>4, <3>5
  <2>10. CASE BuildNativeXlmFund(f)
    <3>1. /\ was.at = "ready" /\ was.token = "native"
          /\ failed' = (failed \/ (was.alone /\ funds'["native"] < BaseReserve))
          /\ fundings' = [fundings EXCEPT ![f] = NoFunding] /\ UNCHANGED <<readFaults, allowance>>
      BY <2>10 DEF BuildNativeXlmFund, ReadDone, IsNative
    <3>2. was.need \in Nat /\ funds["native"] \in Nat /\ "native" \in Tokens
      BY <2>1, <2>2 DEF FundingType, Tokens
    <3>3. funds' = IF funds["native"] >= was.need + FeeBuffer
                   THEN [funds EXCEPT !["native"] = @ - was.need - FeeBuffer] ELSE funds
      BY <2>10 DEF BuildNativeXlmFund
    <3>4. funds' \in [Tokens -> Nat]
      BY <1>0, <2>2, <3>2, <3>3
    <3>5. was.alone => funds["native"] >= was.need + FeeBuffer + BaseReserve
      BY <1>0, <3>1 DEF AloneHas
    <3>6. was.alone => funds'["native"] >= BaseReserve
      BY <1>0, <2>2, <3>2, <3>3, <3>5
    <3>7. ~failed'
      <4>1. funds'["native"] \in Nat
        BY <3>2, <3>4
      <4>2. ~(was.alone /\ funds'["native"] < BaseReserve)
        BY <1>0, <3>6, <4>1
      <4> QED BY <1>0, <3>1, <4>2
    <3>8. NoFunding \in FundingType /\ NoFunding.at = "idle"
      BY DEF NoFunding, FundingType, Tokens
    <3> HIDE DEF was
    <3> QED BY <2>2, <2>4, <3>1, <3>4, <3>7, <3>8
  <2> QED BY <1>3, <2>5, <2>6, <2>7, <2>8, <2>9, <2>10
<1> QED BY <1>1, <1>2, <1>3 DEF FundNext

-----------------------------------------------------------------------------
(* Folds of a finite set in an order of its own.                           *)

\* A fold over a finite set whose members are chosen by c, from a step that is a
\* function of the member and of what was folded before.
Chain(W, c, b, S, h) ==
    h = [s \in SUBSET S |-> IF s = {} THEN b ELSE W[<<c[s], h[s \ {c[s]}]>>]]
Chooses(c, S) == \A s \in SUBSET S : s # {} => c[s] \in s

\* Two chains agree where both are defined.
LEMMA ChainUnique ==
  ASSUME NEW W, NEW c, NEW b, NEW S, NEW T, IsFiniteSet(S), Chooses(c, S),
         NEW h, NEW k, Chain(W, c, b, S, h), Chain(W, c, b, T, k),
         NEW s \in SUBSET (S \cap T)
  PROVE  h[s] = k[s]
<1> DEFINE C == {u \in SUBSET (S \cap T) : h[u] # k[u]}
<1>1. SUFFICES ASSUME C # {} PROVE FALSE
  OBVIOUS
<1>2. C \in SUBSET (SUBSET S)
  OBVIOUS
<1>3. PICK u \in C : \A v \in C : v \subseteq u => v = u
  <2> HIDE DEF C
  <2> QED BY <1>1, <1>2, MinimalSet
<1>4. u \in SUBSET S /\ u \in SUBSET T /\ h[u] # k[u]
  OBVIOUS
<1>5. CASE u = {}
  <2>1. h[u] = b /\ k[u] = b
    BY <1>4, <1>5 DEF Chain
  <2> QED BY <1>4, <2>1
<1>6. CASE u # {}
  <2> DEFINE v == u \ {c[u]}
  <2>1. v \subseteq u /\ v # u
    BY <1>4, <1>6 DEF Chooses
  <2>2. h[v] = k[v]
    BY <1>3, <1>4, <2>1
  <2>3. h[u] = W[<<c[u], h[v]>>] /\ k[u] = W[<<c[u], k[v]>>]
    BY <1>4, <1>6 DEF Chain
  <2> QED BY <1>4, <2>2, <2>3
<1> QED BY <1>5, <1>6

\* A chain exists for every finite set.
LEMMA ChainExists ==
  ASSUME NEW W, NEW c, NEW b, NEW S, IsFiniteSet(S), Chooses(c, S)
  PROVE  \E h : Chain(W, c, b, S, h)
<1> DEFINE C == {u \in SUBSET S : ~ \E h : Chain(W, c, b, u, h)}
<1>1. SUFFICES ASSUME C # {} PROVE FALSE
  OBVIOUS
<1>2. PICK u \in C : \A v \in C : v \subseteq u => v = u
  <2>1. C \in SUBSET (SUBSET S)
    OBVIOUS
  <2> HIDE DEF C
  <2> QED BY <1>1, <2>1, MinimalSet
<1> DEFINE piece(v) == CHOOSE h : Chain(W, c, b, v, h)
           whole == [s \in SUBSET u |->
                        IF s = {} THEN b
                        ELSE W[<<c[s], piece(s \ {c[s]})[s \ {c[s]}]>>]]
<1>a. u \in SUBSET S
  OBVIOUS
<1>b. \A s \in SUBSET u : s # {} => c[s] \in s
  BY <1>a DEF Chooses
<1>3. ASSUME NEW v \in SUBSET u, v # u PROVE Chain(W, c, b, v, piece(v))
  <2>1. v \in SUBSET S /\ v \notin C
    BY <1>2, <1>3
  <2>2. \E h : Chain(W, c, b, v, h)
    BY <2>1
  <2> HIDE DEF Chain
  <2> QED BY <2>2
<1> HIDE DEF piece
<1>4. ASSUME NEW s \in SUBSET u, s # u PROVE whole[s] = piece(s)[s]
  <2>1. Chain(W, c, b, s, piece(s))
    BY <1>3, <1>4
  <2>2. CASE s = {}
    <3>1. piece(s)[s] = b
      BY <2>1, <2>2 DEF Chain
    <3> QED BY <2>2, <3>1
  <2>3. CASE s # {}
    <3> DEFINE v == s \ {c[s]}
    <3>1. v \in SUBSET s /\ v # s /\ v \in SUBSET u /\ v # u
      BY <2>3, <1>b
    <3>2. piece(s)[s] = W[<<c[s], piece(s)[v]>>]
      BY <2>1, <2>3 DEF Chain
    <3>3. Chain(W, c, b, v, piece(v))
      BY <1>3, <3>1
    <3>4. IsFiniteSet(s) /\ Chooses(c, s)
      BY <1>a, <1>b, FS_Subset DEF Chooses
    <3>5. piece(s)[v] = piece(v)[v]
      BY <2>1, <3>1, <3>3, <3>4, ChainUnique
    <3>6. whole[s] = W[<<c[s], piece(v)[v]>>]
      BY <2>3
    <3> QED BY <3>2, <3>5, <3>6
  <2> QED BY <2>2, <2>3
<1>5. ASSUME NEW s \in SUBSET u, s # {}
      PROVE  whole[s] = W[<<c[s], whole[s \ {c[s]}]>>]
  <2> DEFINE v == s \ {c[s]}
  <2>1. v \in SUBSET u /\ v # u
    BY <1>5, <1>b
  <2>2. whole[v] = piece(v)[v]
    BY <1>4, <2>1
  <2>3. whole[s] = W[<<c[s], piece(v)[v]>>]
    BY <1>5
  <2> QED BY <2>2, <2>3
<1>6. whole[{}] = b
  OBVIOUS
<1>7. whole = [s \in SUBSET u |-> whole[s]]
  OBVIOUS
<1> HIDE DEF whole
<1>8. Chain(W, c, b, u, whole)
  BY <1>5, <1>6, <1>7 DEF Chain
<1> QED BY <1>2, <1>8

\* What is folded stays among the values.
LEMMA ChainType ==
  ASSUME NEW W, NEW c, NEW b, NEW S, NEW V, NEW h, IsFiniteSet(S), Chooses(c, S),
         W \in [S \X V -> V], b \in V, Chain(W, c, b, S, h)
  PROVE  \A s \in SUBSET S : h[s] \in V
<1> DEFINE C == {u \in SUBSET S : h[u] \notin V}
<1>1. SUFFICES ASSUME C # {} PROVE FALSE
  OBVIOUS
<1>2. C \in SUBSET (SUBSET S)
  OBVIOUS
<1>3. PICK u \in C : \A v \in C : v \subseteq u => v = u
  <2> HIDE DEF C
  <2> QED BY <1>1, <1>2, MinimalSet
<1>4. u \in SUBSET S /\ h[u] \notin V
  OBVIOUS
<1>5. CASE u = {}
  <2>1. h[u] = b
    BY <1>4, <1>5 DEF Chain
  <2> QED BY <1>4, <2>1
<1>6. CASE u # {}
  <2> DEFINE v == u \ {c[u]}
  <2>1. v \subseteq u /\ v # u /\ c[u] \in S
    BY <1>4, <1>6 DEF Chooses
  <2>2. h[v] \in V
    BY <1>3, <1>4, <2>1
  <2>3. h[u] = W[<<c[u], h[v]>>]
    BY <1>4, <1>6 DEF Chain
  <2> QED BY <1>4, <2>1, <2>2, <2>3
<1> QED BY <1>5, <1>6

-----------------------------------------------------------------------------
\* The last of some positions is one of them.
Positions(S) == \A i \in S : i \in Nat

LEMMA MaxIsMember ==
  ASSUME NEW S, Positions(S), IsFiniteSet(S), S # {}
  PROVE  Max(S) \in S
<1> DEFINE C == {U \in SUBSET S : \E i \in S : U = {j \in S : j >= i}}
<1>1. C \in SUBSET (SUBSET S) /\ C # {}
  <2>1. PICK i \in S : TRUE
    OBVIOUS
  <2>2. {j \in S : j >= i} \in C
    OBVIOUS
  <2> QED BY <2>2
<1>2. PICK T \in C : \A U \in C : U \subseteq T => U = T
  <2> HIDE DEF C
  <2> QED BY <1>1, MinimalSet
<1>3. PICK i \in S : T = {j \in S : j >= i}
  OBVIOUS
<1>4. ASSUME NEW j \in S, j > i PROVE FALSE
  <2> DEFINE U == {k \in S : k >= j}
  <2>1. i \in Nat /\ j \in Nat
    BY DEF Positions
  <2>2. U \in C
    OBVIOUS
  <2>3. \A k \in U : k >= i /\ k \in S
    BY <1>4, <2>1
  <2> HIDE DEF C
  <2>4. U \subseteq T /\ i \in T
    <3>1. \A k \in S : k \in T <=> k >= i
      BY <1>3
    <3>2. i \in T
      BY <3>1, <2>1
    <3> HIDE DEF U
    <3> QED BY <3>1, <3>2, <2>3
  <2>5. i \notin U
    BY <1>4, <2>1
  <2> HIDE DEF U
  <2> QED BY <1>2, <2>2, <2>4, <2>5
<1>5. \A j \in S : i >= j
  BY <1>4 DEF Positions
<1> QED BY <1>5 DEF Max

\* A finite set is listed once and whole.
LEMMA ListIsWhole ==
  ASSUME NEW S, IsFiniteSet(S)
  PROVE  /\ SetToSeq(S) \in Seq(S) /\ IsInjective(SetToSeq(S))
         /\ Len(SetToSeq(S)) = Cardinality(S) /\ ToSet(SetToSeq(S)) = S
         /\ DOMAIN SetToSeq(S) = 1..Cardinality(S)
<1> DEFINE n == Cardinality(S)
           f == SetToSeq(S)
<1>1. n \in Nat /\ ExistsBijection(1..n, S)
  BY FS_CardinalityType
<1>2. \E g \in [1..n -> S] : IsInjective(g)
  BY <1>1 DEF ExistsBijection, Bijection, Injection
<1>3. f \in [1..n -> S] /\ IsInjective(f)
  BY <1>2 DEF SetToSeq
<1> HIDE DEF f
<1>4. f \in Injection(1..n, S)
  BY <1>3 DEF Injection
<1>5. IsFiniteSet(1..n) /\ Cardinality(1..n) = n
  BY <1>1, FS_Interval
<1>6. f \in Surjection(1..n, S)
  BY <1>4, <1>5, FS_Injection
<1>7. ToSet(f) = S
  BY <1>3, <1>6 DEF Surjection, ToSet
<1>8. f \in Seq(S) /\ Len(f) = n
  BY <1>1, <1>3
<1> QED BY <1>3, <1>7, <1>8 DEF f

\* A sequence without repetitions is as long as the set of its members.
LEMMA OnceEachLength ==
  ASSUME NEW S, NEW q \in Seq(S), IsInjective(q)
  PROVE  IsFiniteSet(ToSet(q)) /\ Len(q) = Cardinality(ToSet(q))
<1>1. Len(q) \in Nat /\ DOMAIN q = 1..Len(q) /\ q \in [1..Len(q) -> ToSet(q)]
  BY DEF ToSet
<1>2. q \in Surjection(1..Len(q), ToSet(q)) /\ q \in Injection(1..Len(q), ToSet(q))
  BY <1>1 DEF Surjection, Injection, ToSet
<1>3. IsFiniteSet(1..Len(q)) /\ Cardinality(1..Len(q)) = Len(q)
  BY <1>1, FS_Interval
<1> HIDE DEF ToSet
<1> QED BY <1>1, <1>2, <1>3, FS_Surjection

-----------------------------------------------------------------------------
(* Signatures of several copies, combined (combineSignatures()).           *)

\* Lists of signatures in which none is repeated.
OnceEach == {q \in Seq(Key) : IsInjective(q)}

LEMMA AddSignatureAdds ==
  ASSUME NEW v \in OnceEach, NEW k \in Key
  PROVE  AddSignature(v, k) \in OnceEach /\ ToSet(AddSignature(v, k)) = ToSet(v) \cup {k}
<1> DEFINE w == Append(v, k)
<1>1. v \in Seq(Key) /\ Len(v) \in Nat /\ DOMAIN v = 1..Len(v) /\ IsInjective(v)
  BY DEF OnceEach
<1>2. CASE k \in ToSet(v)
  BY <1>2 DEF AddSignature
<1>3. CASE k \notin ToSet(v)
  <2>1. /\ w \in Seq(Key) /\ Len(w) = Len(v) + 1 /\ DOMAIN w = 1..Len(w)
        /\ \A i \in 1..Len(v) : w[i] = v[i]
        /\ w[Len(v) + 1] = k
    BY <1>1
  <2> HIDE DEF w
  <2>2. IsInjective(w)
    <3>1. SUFFICES ASSUME NEW i \in DOMAIN w, NEW j \in DOMAIN w, w[i] = w[j] PROVE i = j
      BY DEF IsInjective
    <3>2. i \in 1..Len(v) \/ i = Len(v) + 1
      BY <1>1, <2>1
    <3>3. j \in 1..Len(v) \/ j = Len(v) + 1
      BY <1>1, <2>1
    <3>4. \A n \in 1..Len(v) : v[n] # k
      BY <1>1, <1>3 DEF ToSet
    <3> QED BY <1>1, <2>1, <3>1, <3>2, <3>3, <3>4 DEF IsInjective
  <2>3. ToSet(w) = ToSet(v) \cup {k}
    <3>1. ToSet(w) \subseteq ToSet(v) \cup {k}
      <4>1. SUFFICES ASSUME NEW i \in DOMAIN w PROVE w[i] \in ToSet(v) \cup {k}
        BY DEF ToSet
      <4>2. i \in 1..Len(v) \/ i = Len(v) + 1
        BY <1>1, <2>1
      <4> QED BY <1>1, <2>1, <4>2 DEF ToSet
    <3>2. k \in ToSet(w)
      <4>1. Len(v) + 1 \in DOMAIN w
        BY <1>1, <2>1
      <4> QED BY <2>1, <4>1 DEF ToSet
    <3>3. ToSet(v) \subseteq ToSet(w)
      <4>1. SUFFICES ASSUME NEW i \in 1..Len(v) PROVE v[i] \in ToSet(w)
        BY <1>1 DEF ToSet
      <4>2. i \in DOMAIN w /\ w[i] = v[i]
        BY <1>1, <2>1
      <4> QED BY <4>2 DEF ToSet
    <3> QED BY <3>1, <3>2, <3>3
  <2>4. AddSignature(v, k) = w
    BY <1>3 DEF AddSignature, w
  <2> QED BY <2>1, <2>2, <2>3, <2>4 DEF OnceEach
<1> QED BY <1>2, <1>3

\* A fold whose every step adds some signatures has added them all.
Collecting(D, c, A, k) ==
    \A s \in SUBSET D : s # {} /\ k[s \ {c[s]}] \in OnceEach =>
        k[s] \in OnceEach /\ ToSet(k[s]) = ToSet(k[s \ {c[s]}]) \cup A[c[s]]

LEMMA ChainCollects ==
  ASSUME NEW D, IsFiniteSet(D), NEW c, Chooses(c, D), NEW A, NEW k, k[{}] \in OnceEach,
         Collecting(D, c, A, k)
  PROVE  k[D] \in OnceEach /\ ToSet(k[D]) = ToSet(k[{}]) \cup UNION {A[i] : i \in D}
<1> DEFINE Collects(s) == /\ k[s] \in OnceEach
                          /\ ToSet(k[s]) = ToSet(k[{}]) \cup UNION {A[i] : i \in s}
           C == {s \in SUBSET D : ~Collects(s)}
<1>1. SUFFICES ASSUME C # {} PROVE FALSE
  OBVIOUS
<1>2. C \in SUBSET (SUBSET D)
  OBVIOUS
<1>3. PICK u \in C : \A v \in C : v \subseteq u => v = u
  <2> HIDE DEF C
  <2> QED BY <1>1, <1>2, MinimalSet
<1>4. u \in SUBSET D /\ ~Collects(u)
  OBVIOUS
<1>5. Collects({})
  OBVIOUS
<1>6. CASE u # {}
  <2> DEFINE v == u \ {c[u]}
  <2>1. v \subseteq u /\ v # u /\ c[u] \in u
    BY <1>4, <1>6 DEF Chooses
  <2>2. v \in SUBSET D /\ v \notin C
    BY <1>3, <1>4, <2>1
  <2>3. Collects(v)
    <3> HIDE DEF Collects
    <3> QED BY <2>2
  <2>4. k[u] \in OnceEach /\ ToSet(k[u]) = ToSet(k[v]) \cup A[c[u]]
    BY <1>4, <1>6, <2>3 DEF Collecting
  <2>5. UNION {A[i] : i \in u} = (UNION {A[i] : i \in v}) \cup A[c[u]]
    BY <2>1
  <2>6. Collects(u)
    BY <2>3, <2>4, <2>5
  <2> QED BY <1>4, <2>6
<1> QED BY <1>4, <1>5, <1>6

\* The last position of each set of positions.
LastOf(n) == [s \in SUBSET (1..n) |-> Max(s)]

LEMMA LastChosen ==
  ASSUME NEW n \in Nat
  PROVE  Chooses(LastOf(n), 1..n) /\ IsFiniteSet(1..n)
<1>1. IsFiniteSet(1..n)
  BY FS_Interval
<1>2. ASSUME NEW s \in SUBSET (1..n), s # {} PROVE LastOf(n)[s] \in s
  <2>1. IsFiniteSet(s)
    BY <1>1, FS_Subset
  <2>a. Positions(s)
    BY DEF Positions
  <2>2. Max(s) \in s
    BY <1>2, <2>1, <2>a, MaxIsMember
  <2> QED BY <2>2 DEF LastOf
<1> QED BY <1>1, <1>2 DEF Chooses

\* The signatures of one more copy.
LEMMA CopyAdds ==
  ASSUME NEW v \in OnceEach, NEW q \in Seq(Key)
  PROVE  /\ FoldLeft(AddSignature, v, q) \in OnceEach
         /\ ToSet(FoldLeft(AddSignature, v, q)) = ToSet(v) \cup ToSet(q)
<1> DEFINE n == Len(q)
           D == 1..n
           c == LastOf(n)
           W == [p \in D \X OnceEach |-> AddSignature(p[2], q[p[1]])]
           Fold(g) == g = [s \in SUBSET D |->
                IF s = {} THEN v ELSE AddSignature(g[s \ {Max(s)}], q[Max(s)])]
           k == CHOOSE g : Fold(g)
<1>1. n \in Nat /\ DOMAIN q = D /\ \A i \in D : q[i] \in Key
  OBVIOUS
<1>2. Chooses(c, D) /\ IsFiniteSet(D)
  BY <1>1, LastChosen
<1>3. W \in [D \X OnceEach -> OnceEach]
  BY <1>1, AddSignatureAdds
<1>c. \A s \in SUBSET D : c[s] = Max(s)
  BY DEF LastOf
<1>d. \A s \in SUBSET D : s # {} => Max(s) \in s
  BY <1>2, <1>c DEF Chooses
<1>4. \E g : Fold(g)
  <2> HIDE DEF D, c, W
  <2>1. PICK h : Chain(W, c, v, D, h)
    BY <1>2, ChainExists
  <2>2. \A s \in SUBSET D : h[s] \in OnceEach
    BY <1>2, <1>3, <2>1, ChainType
  <2>3. h = [s \in SUBSET D |-> IF s = {} THEN v ELSE W[<<c[s], h[s \ {c[s]}]>>]]
    BY <2>1 DEF Chain
  <2>4. ASSUME NEW s \in SUBSET D, s # {}
        PROVE  W[<<c[s], h[s \ {c[s]}]>>] = AddSignature(h[s \ {Max(s)}], q[Max(s)])
    <3>1. c[s] = Max(s) /\ Max(s) \in D /\ s \ {Max(s)} \in SUBSET D
      BY <1>c, <1>d, <2>4
    <3>2. h[s \ {Max(s)}] \in OnceEach
      BY <2>2, <3>1
    <3> QED BY <3>1, <3>2 DEF W
  <2>5. Fold(h)
    BY <2>3, <2>4
  <2> QED BY <2>5
<1>5. Fold(k)
  <2> HIDE DEF Fold
  <2> QED BY <1>4
<1>6. FoldLeft(AddSignature, v, q) = k[D]
  BY <1>1 DEF FoldLeft, MapThenFoldSet
<1> HIDE DEF k, W
<1> DEFINE A == [i \in D |-> {q[i]}]
<1>7. k[{}] = v
  BY <1>5
<1>8. ASSUME NEW s \in SUBSET D, s # {}, k[s \ {c[s]}] \in OnceEach
      PROVE  k[s] \in OnceEach /\ ToSet(k[s]) = ToSet(k[s \ {c[s]}]) \cup A[c[s]]
  <2>1. c[s] = Max(s) /\ Max(s) \in D
    BY <1>c, <1>d, <1>8
  <2>2. k[s] = AddSignature(k[s \ {c[s]}], q[c[s]])
    BY <1>5, <1>8, <2>1
  <2>3. q[c[s]] \in Key /\ A[c[s]] = {q[c[s]]}
    BY <1>1, <2>1
  <2> DEFINE x == k[s \ {c[s]}]
             y == q[c[s]]
  <2>4. x \in OnceEach /\ y \in Key
    BY <1>8, <2>3
  <2> HIDE DEF x, y
  <2>5. AddSignature(x, y) \in OnceEach /\ ToSet(AddSignature(x, y)) = ToSet(x) \cup {y}
    BY <2>4, AddSignatureAdds
  <2> HIDE DEF A, D, c
  <2> QED BY <2>2, <2>3, <2>5 DEF x, y
<1>9. UNION {A[i] : i \in D} = ToSet(q)
  BY <1>1 DEF ToSet
<1> HIDE DEF A, D, c, Fold
<1>10. k[D] \in OnceEach /\ ToSet(k[D]) = ToSet(k[{}]) \cup UNION {A[i] : i \in D}
  <2>1. Collecting(D, c, A, k)
    BY <1>8 DEF Collecting
  <2>2. k[{}] \in OnceEach
    BY <1>7
  <2> HIDE DEF OnceEach
  <2> QED BY ONLY <1>2, <2>1, <2>2, ChainCollects
<1> QED BY <1>6, <1>7, <1>9, <1>10

\* What is combined has each signature of the copies given, once.
LEMMA CombinedIsWhole ==
  ASSUME NEW given, IsFiniteSet(given), \A copy \in given : copy.keys \in SUBSET Key
  PROVE  /\ Combined(given) \in OnceEach
         /\ ToSet(Combined(given)) = UNION {copy.keys : copy \in given}
<1> DEFINE q == SetToSeq(given)
           n == Cardinality(given)
           D == 1..n
           c == LastOf(n)
           W == [p \in D \X OnceEach |->
                    FoldLeft(AddSignature, p[2], SetToSeq(q[p[1]].keys))]
           Fold(g) == g = [s \in SUBSET D |->
                IF s = {} THEN <<>>
                ELSE FoldLeft(AddSignature, g[s \ {Max(s)}], SetToSeq(q[Max(s)].keys))]
           k == CHOOSE g : Fold(g)
<1>1. n \in Nat /\ DOMAIN q = D /\ ToSet(q) = given
  BY FS_CardinalityType, ListIsWhole
<1>q. ASSUME NEW i \in D
      PROVE  /\ q[i] \in given /\ q[i].keys \in SUBSET Key
             /\ SetToSeq(q[i].keys) \in Seq(Key)
             /\ ToSet(SetToSeq(q[i].keys)) = q[i].keys
  <2>1. q[i] \in given
    BY <1>1 DEF ToSet
  <2> DEFINE keys == q[i].keys
  <2>2. keys \in SUBSET Key
    BY <2>1
  <2>3. IsFiniteSet(keys)
    BY <2>2, SignaturesAssumption, FS_Subset DEF SignaturesAssumption
  <2> HIDE DEF keys
  <2>4. SetToSeq(keys) \in Seq(keys) /\ ToSet(SetToSeq(keys)) = keys
    BY <2>3, ListIsWhole
  <2>5. SetToSeq(keys) \in Seq(Key)
    BY <2>2, <2>4, SeqMonotonic
  <2> QED BY <2>1, <2>2, <2>4, <2>5 DEF keys
<1> HIDE DEF q
<1>2. Chooses(c, D) /\ IsFiniteSet(D)
  BY <1>1, LastChosen
<1>0. <<>> \in OnceEach /\ ToSet(<<>>) = {}
  <2>1. <<>> \in Seq(Key) /\ DOMAIN <<>> = {}
    OBVIOUS
  <2> QED BY <2>1 DEF OnceEach, IsInjective, ToSet
<1>3. W \in [D \X OnceEach -> OnceEach]
  <2>1. ASSUME NEW i \in D, NEW v \in OnceEach
        PROVE  FoldLeft(AddSignature, v, SetToSeq(q[i].keys)) \in OnceEach
    BY <1>q, CopyAdds
  <2> QED BY <2>1
<1>c. \A s \in SUBSET D : c[s] = Max(s)
  BY DEF LastOf
<1>d. \A s \in SUBSET D : s # {} => Max(s) \in s
  BY <1>2, <1>c DEF Chooses
<1>4. \E g : Fold(g)
  <2> HIDE DEF D, c, W
  <2>1. PICK h : Chain(W, c, <<>>, D, h)
    BY <1>2, ChainExists
  <2>2. \A s \in SUBSET D : h[s] \in OnceEach
    BY <1>0, <1>2, <1>3, <2>1, ChainType
  <2>3. h = [s \in SUBSET D |-> IF s = {} THEN <<>> ELSE W[<<c[s], h[s \ {c[s]}]>>]]
    BY <2>1 DEF Chain
  <2>4. ASSUME NEW s \in SUBSET D, s # {}
        PROVE  W[<<c[s], h[s \ {c[s]}]>>]
                 = FoldLeft(AddSignature, h[s \ {Max(s)}], SetToSeq(q[Max(s)].keys))
    <3>1. c[s] = Max(s) /\ Max(s) \in D /\ s \ {Max(s)} \in SUBSET D
      BY <1>c, <1>d, <2>4
    <3>2. h[s \ {Max(s)}] \in OnceEach
      BY <2>2, <3>1
    <3> QED BY <3>1, <3>2 DEF W
  <2>5. Fold(h)
    BY <2>3, <2>4
  <2> QED BY <2>5
<1>5. Fold(k)
  <2> HIDE DEF Fold
  <2> QED BY <1>4
<1>6. Combined(given) = k[D]
  BY <1>1 DEF Combined, FoldLeft, MapThenFoldSet, q
<1> HIDE DEF k, W
<1> DEFINE A == [i \in D |-> q[i].keys]
<1>7. k[{}] = <<>>
  BY <1>5
<1>8. ASSUME NEW s \in SUBSET D, s # {}, k[s \ {c[s]}] \in OnceEach
      PROVE  k[s] \in OnceEach /\ ToSet(k[s]) = ToSet(k[s \ {c[s]}]) \cup A[c[s]]
  <2>1. c[s] = Max(s) /\ Max(s) \in D
    BY <1>c, <1>d, <1>8
  <2> DEFINE x == k[s \ {c[s]}]
             y == SetToSeq(q[c[s]].keys)
  <2>2. k[s] = FoldLeft(AddSignature, x, y)
    BY <1>5, <1>8, <2>1
  <2>3. y \in Seq(Key) /\ ToSet(y) = A[c[s]]
    BY <1>q, <2>1
  <2>4. x \in OnceEach
    BY <1>8
  <2> HIDE DEF x, y
  <2>5. /\ FoldLeft(AddSignature, x, y) \in OnceEach
        /\ ToSet(FoldLeft(AddSignature, x, y)) = ToSet(x) \cup ToSet(y)
    BY <2>3, <2>4, CopyAdds
  <2> HIDE DEF A, D, c
  <2> QED BY <2>2, <2>3, <2>5 DEF x
<1>9. UNION {A[i] : i \in D} = UNION {copy.keys : copy \in given}
  BY <1>1 DEF ToSet
<1> HIDE DEF A, D, c, Fold
<1>10. k[D] \in OnceEach /\ ToSet(k[D]) = ToSet(k[{}]) \cup UNION {A[i] : i \in D}
  <2>1. Collecting(D, c, A, k)
    BY <1>8 DEF Collecting
  <2>2. k[{}] \in OnceEach
    BY <1>0, <1>7
  <2> HIDE DEF OnceEach
  <2> QED BY ONLY <1>2, <2>1, <2>2, ChainCollects
<1> QED BY <1>0, <1>6, <1>7, <1>9, <1>10

-----------------------------------------------------------------------------
(* What signatures weigh (computeSignatureWeight()).                       *)

LEMMA WeightIsSum ==
  ASSUME NEW T, IsFiniteSet(T)
  PROVE  MapThenSumSet(LAMBDA k : KeyWeight[k], T) = Sum(KeyWeight, T)
<1> DEFINE W(g) == g = [s \in SUBSET T |-> IF s = {} THEN 0
                        ELSE KeyWeight[CHOOSE x \in s : TRUE]
                               + g[s \ {CHOOSE x \in s : TRUE}]]
<1>1. MapThenSumSet(LAMBDA k : KeyWeight[k], T) = (CHOOSE g : W(g))[T]
  BY DEF MapThenSumSet, MapThenFoldSet
<1>2. Sum(KeyWeight, T) = (CHOOSE g : W(g))[T]
  BY DEF Sum, SumFunctionOnSet, FoldFunctionOnSet, MapThenFoldSet
<1> QED BY <1>1, <1>2

\* A list of signatures weighs what its signers weigh if no two keys share a hint.
LEMMA WeightOfSigners ==
  ASSUME NEW q, ToSet(q) \in SUBSET Key, IsInjective(KeyHint)
  PROVE  Weight(q) = Sum(KeyWeight, ToSet(q))
<1> DEFINE T == ToSet(q)
           hints == {KeyHint[k] : k \in T}
           F == [k \in Key |-> IF KeyHint[k] \in hints THEN KeyWeight[k] ELSE 0]
           W(g) == g = [s \in SUBSET Key |-> IF s = {} THEN 0
                        ELSE (IF KeyHint[Chosen(s)] \in hints THEN KeyWeight[Chosen(s)] ELSE 0)
                               + g[s \ {Chosen(s)}]]
           w == CHOOSE g : W(g)
<1>1. Weight(q) = w[Key]
  BY DEF Weight, MapThenSumSet, MapThenFoldSet, Chosen
<1>2. IsFiniteSet(Key) /\ KeyWeight \in [Key -> Nat] /\ DOMAIN KeyHint = Key
  BY SignaturesAssumption DEF SignaturesAssumption
<1>3. PICK h : Folds(F, Key, h)
  BY <1>2, FoldExists
<1>4. ASSUME NEW s \in SUBSET Key, s # {}
      PROVE  F[Chosen(s)] = IF KeyHint[Chosen(s)] \in hints THEN KeyWeight[Chosen(s)] ELSE 0
  BY <1>4, ChosenIsMember
<1>5. \A g : Folds(F, Key, g) <=> W(g)
  <2> HIDE DEF F
  <2> QED BY <1>4 DEF Folds, Unfolded
<1>6. Folds(F, Key, w)
  <2>1. W(w)
    <3> HIDE DEF W
    <3> QED BY <1>3, <1>5
  <2> HIDE DEF w, W
  <2> QED BY <1>5, <2>1
<1>7. Sum(F, Key) = w[Key]
  <2> DEFINE v == CHOOSE g : Folds(F, Key, g)
  <2>1. Folds(F, Key, v)
    <3> HIDE DEF Folds
    <3> QED BY <1>3
  <2>2. Sum(F, Key) = v[Key]
    BY SumIsFold
  <2> HIDE DEF v, w, F
  <2>3. v[Key] = w[Key]
    BY <1>2, <1>6, <2>1, FoldUnique
  <2> QED BY <2>2, <2>3
<1>8. \A k \in Key : KeyHint[k] \in hints <=> k \in T
  BY <1>2 DEF IsInjective
<1>9. \A k \in Key : F[k] = IF k \in T THEN KeyWeight[k] ELSE 0
  BY <1>8
<1> HIDE DEF F, T, hints, w
<1>10. T \in SUBSET Key /\ IsFiniteSet(T)
  BY <1>2, FS_Subset DEF T
<1>11. Summands(F, Key) /\ Summands(F, T)
  BY <1>2, <1>9, <1>10 DEF Summands
<1>12. Sum(F, Key) = Sum(F, T)
  BY <1>9, <1>10, <1>11, SumRestrict
<1>13. Sum(F, T) = Sum(KeyWeight, T)
  <2>1. \A k \in T : KeyWeight[k] = F[k]
    BY <1>9, <1>10
  <2> QED BY <2>1, <1>11, SumSame
<1> QED BY <1>1, <1>7, <1>12, <1>13 DEF T

\* As many signers as are required, each of whom weighs something, meet the threshold.
LEMMA EnoughSigners ==
  ASSUME NEW T \in SUBSET Key, Cardinality(T) >= Required, \A k \in Key : KeyWeight[k] >= 1
  PROVE  Sum(KeyWeight, T) >= Required
<1>1. IsFiniteSet(T) /\ KeyWeight \in [Key -> Nat] /\ Required \in Nat
  BY SignaturesAssumption, FS_Subset, FS_CardinalityType DEF SignaturesAssumption
<1> DEFINE one == [k \in T |-> 1]
<1>2. Summands(one, T) /\ Summands(KeyWeight, T) /\ \A k \in T : one[k] <= KeyWeight[k]
  BY <1>1 DEF Summands
<1>3. Sum(one, T) = 1 * Cardinality(T)
  BY <1>1, SumConstant
<1> HIDE DEF one
<1>4. Sum(one, T) <= Sum(KeyWeight, T)
  BY <1>2, SumMonotone
<1>5. Cardinality(T) \in Nat /\ Sum(KeyWeight, T) \in Int
  BY <1>1, <1>2, FS_CardinalityType, SumType
<1> QED BY <1>1, <1>3, <1>4, <1>5

-----------------------------------------------------------------------------
(* The tracker and its calls (multisig.ts, useMultiSig.ts).                *)

SubmitSteps == {"idle", "send", "poll", "done", "failed"}
OnItsWay == {"send", "poll", "done"}
SubmitRecord == [step : SubmitSteps, sigs : Seq(Key), of : SUBSET Key, held : SUBSET Key]

\* Every entry holds a copy or none; what is sent is whole, and was asked of enough.
WholeCall(s) ==
    s.step \in OnItsWay =>
        /\ s.sigs \in OnceEach /\ ToSet(s.sigs) = s.held
        /\ Cardinality(s.of) >= Required
        /\ s.step # "send" => Len(s.sigs) >= Required

SigInOrder ==
    /\ entries \in [Key -> [status : {"pending", "signed", "declined"}, copy : Copy \cup {NoCopy}]]
    /\ tally.ready = (Collected(entries) >= Required)
    /\ submit \in [SubmitCall -> SubmitRecord]
    /\ shownSig \in [submitting : BOOLEAN, hash : BOOLEAN, error : BOOLEAN]
    /\ \A c \in SubmitCall : WholeCall(submit[c])
    /\ shownSig.hash => posted = "applied" /\ \E c \in SubmitCall : submit[c].step = "done"

LEMMA SigInitially == SigInit => SigInOrder
<1> SUFFICES ASSUME SigInit PROVE SigInOrder
  OBVIOUS
<1> USE DEF SigInit
<1>1. entries \in [Key -> [status : {"pending", "signed", "declined"}, copy : Copy \cup {NoCopy}]]
  OBVIOUS
<1>2. tally.ready = (Collected(entries) >= Required)
  <2>1. {k \in Key : entries[k].status = "signed"} = {}
    OBVIOUS
  <2>2. Collected(entries) = 0
    BY <2>1, FS_EmptySet DEF Collected
  <2>3. ~(0 >= Required)
    BY SignaturesAssumption, FS_CardinalityType DEF SignaturesAssumption
  <2>4. tally.ready = FALSE
    OBVIOUS
  <2>5. ~(Collected(entries) >= Required)
    BY <2>2, <2>3
  <2>6. (Collected(entries) >= Required) = FALSE
    BY <2>5
  <2> QED BY <2>4, <2>6
<1>3. submit \in [SubmitCall -> SubmitRecord]
  BY DEF SubmitRecord, SubmitSteps
<1>4. \A c \in SubmitCall : WholeCall(submit[c])
  BY DEF WholeCall, OnItsWay
<1> QED BY <1>1, <1>2, <1>3, <1>4 DEF SigInOrder

\* The copies that were given are finitely many, of some keys each.
LEMMA GivenAreFinite ==
  ASSUME SigInOrder
  PROVE  /\ IsFiniteSet(GivenCopies) /\ Signed \in SUBSET Key
         /\ \A copy \in GivenCopies : copy.keys \in SUBSET Key
<1> DEFINE f == [k \in Signed |-> entries[k].copy]
<1>1. Signed \in SUBSET Key /\ IsFiniteSet(Signed)
  BY SignaturesAssumption, FS_Subset DEF SignaturesAssumption, Signed
<1>2. f \in Surjection(Signed, GivenCopies)
  BY DEF Surjection, GivenCopies
<1>3. IsFiniteSet(GivenCopies)
  <2> HIDE DEF f
  <2> QED BY <1>1, <1>2, FS_Surjection
<1>4. ASSUME NEW k \in Key PROVE entries[k].copy.keys \in SUBSET Key
  BY DEF SigInOrder, Copy, NoCopy
<1> QED BY <1>1, <1>3, <1>4 DEF GivenCopies

\* A call ends with an error and whatever it had.
LEMMA CallFails ==
  ASSUME SigInOrder, NEW c \in SubmitCall, SubmitFails(c), submit[c].step # "done"
  PROVE  /\ submit' \in [SubmitCall -> SubmitRecord]
         /\ \A d \in SubmitCall : WholeCall(submit'[d])
         /\ \A d \in SubmitCall : submit[d].step = "done" => submit'[d].step = "done"
         /\ shownSig' \in [submitting : BOOLEAN, hash : BOOLEAN, error : BOOLEAN]
         /\ shownSig'.hash = shownSig.hash
<1> DEFINE s == [submit[c] EXCEPT !.step = "failed"]
<1>1. submit[c] \in SubmitRecord
  BY DEF SigInOrder
<1>2. s \in SubmitRecord /\ s.step = "failed"
  BY <1>1 DEF SubmitRecord, SubmitSteps
<1>3. submit' = [submit EXCEPT ![c] = s]
  BY DEF SubmitFails
<1> HIDE DEF s
<1>4. submit' \in [SubmitCall -> SubmitRecord] /\ submit'[c] = s
      /\ \A d \in SubmitCall : d # c => submit'[d] = submit[d]
  BY <1>2, <1>3 DEF SigInOrder
<1>5. WholeCall(s)
  BY <1>2 DEF WholeCall, OnItsWay
<1>6. /\ shownSig' \in [submitting : BOOLEAN, hash : BOOLEAN, error : BOOLEAN]
      /\ shownSig'.hash = shownSig.hash
  BY DEF SigInOrder, SubmitFails
<1>7. \A d \in SubmitCall : WholeCall(submit'[d])
  BY <1>4, <1>5 DEF SigInOrder
<1>8. \A d \in SubmitCall : submit[d].step = "done" => submit'[d].step = "done"
  BY <1>4
<1> QED BY <1>4, <1>6, <1>7, <1>8

\* A call goes one step on with what it sends.
LEMMA CallGoesOn ==
  ASSUME SigInOrder, NEW c \in SubmitCall, NEW to \in SubmitSteps,
         submit' = [submit EXCEPT ![c].step = to],
         submit[c].step \in OnItsWay, submit[c].step # "done",
         to # "send" => Len(submit[c].sigs) >= Required
  PROVE  /\ submit' \in [SubmitCall -> SubmitRecord]
         /\ \A d \in SubmitCall : WholeCall(submit'[d])
         /\ \A d \in SubmitCall : submit[d].step = "done" => submit'[d].step = "done"
         /\ submit'[c].step = to
<1> DEFINE s == [submit[c] EXCEPT !.step = to]
<1>1. submit[c] \in SubmitRecord /\ WholeCall(submit[c])
  BY DEF SigInOrder
<1>2. /\ s \in SubmitRecord /\ s.step = to
      /\ s.sigs = submit[c].sigs /\ s.of = submit[c].of /\ s.held = submit[c].held
  BY <1>1 DEF SubmitRecord
<1>3. submit' = [submit EXCEPT ![c] = s]
  OBVIOUS
<1> HIDE DEF s
<1>4. submit' \in [SubmitCall -> SubmitRecord] /\ submit'[c] = s
      /\ \A d \in SubmitCall : d # c => submit'[d] = submit[d]
  BY <1>2, <1>3 DEF SigInOrder
<1>5. WholeCall(s)
  BY <1>1, <1>2 DEF WholeCall
<1>7. \A d \in SubmitCall : WholeCall(submit'[d])
  BY <1>4, <1>5 DEF SigInOrder
<1>8. \A d \in SubmitCall : submit[d].step = "done" => submit'[d].step = "done"
  BY <1>4
<1> QED BY <1>2, <1>4, <1>7, <1>8

LEMMA SigStep == SigInOrder /\ [SigNext]_sigVars => SigInOrder'
<1> DEFINE Entry == [status : {"pending", "signed", "declined"}, copy : Copy \cup {NoCopy}]
           Ready == tally.ready = (Collected(entries) >= Required)
           Shows == [submitting : BOOLEAN, hash : BOOLEAN, error : BOOLEAN]
           Hash == shownSig.hash =>
                     posted = "applied" /\ \E c \in SubmitCall : submit[c].step = "done"
<1> SUFFICES ASSUME SigInOrder, [SigNext]_sigVars PROVE SigInOrder'
  OBVIOUS
<1>a. /\ entries \in [Key -> Entry] /\ Ready /\ submit \in [SubmitCall -> SubmitRecord]
      /\ shownSig \in Shows /\ Hash
      /\ \A c \in SubmitCall : WholeCall(submit[c])
  BY DEF SigInOrder
<1>b. ASSUME entries' \in [Key -> Entry], Ready', submit' \in [SubmitCall -> SubmitRecord],
             shownSig' \in Shows, \A c \in SubmitCall : WholeCall(submit'[c]), Hash'
      PROVE  SigInOrder'
  BY <1>b DEF SigInOrder
<1>1. ASSUME NEW key \in Key, MarkDeclined(key) PROVE SigInOrder'
  <2> DEFINE e == [entries[key] EXCEPT !.status = "declined"]
  <2>1. e \in Entry
    BY <1>a
  <2>2. entries' = [entries EXCEPT ![key] = e]
    BY <1>1 DEF MarkDeclined
  <2> HIDE DEF e
  <2>3. entries' \in [Key -> Entry]
    BY <1>a, <2>1, <2>2
  <2>4. Ready' /\ UNCHANGED <<submit, posted>>
    BY <1>1 DEF MarkDeclined, recompute
  <2>5. shownSig' \in Shows /\ shownSig'.hash = shownSig.hash
    BY <1>1, <1>a DEF MarkDeclined
  <2>6. Hash'
    BY <1>a, <2>4, <2>5
  <2> HIDE DEF Entry, Ready, Hash, Shows
  <2> QED BY <1>a, <1>b, <2>3, <2>4, <2>5, <2>6
<1>2. ASSUME NEW key \in Key, NEW copy \in Copy, AddCopy(key, copy) PROVE SigInOrder'
  <2>2. entries' \in [Key -> Entry]
    BY <1>a, <1>2 DEF AddCopy
  <2>4. Ready' /\ UNCHANGED <<submit, posted>>
    BY <1>2 DEF AddCopy, recompute
  <2>5. shownSig' \in Shows /\ shownSig'.hash = shownSig.hash
    BY <1>2, <1>a DEF AddCopy
  <2>6. Hash'
    BY <1>a, <2>4, <2>5
  <2> HIDE DEF Entry, Ready, Hash, Shows
  <2> QED BY <1>a, <1>b, <2>2, <2>4, <2>5, <2>6
<1>3. ASSUME NEW c \in SubmitCall, SubmitWhenReady(c) PROVE SigInOrder'
  <2>1. UNCHANGED <<entries, tally, posted>> /\ submit[c].step = "idle"
    BY <1>3 DEF SubmitWhenReady
  <2>2. entries' \in [Key -> Entry] /\ Ready'
    BY <1>a, <2>1 DEF Collected
  <2>3. CASE ~tally.ready /\ shownSig' = [shownSig EXCEPT !.error = TRUE] /\ UNCHANGED submit
    <3>1. shownSig' \in Shows /\ shownSig'.hash = shownSig.hash
      BY <1>a, <2>3
    <3>2. Hash'
      BY <1>a, <2>1, <2>3, <3>1
    <3> HIDE DEF Entry, Ready, Hash, Shows
    <3> QED BY <1>a, <1>b, <2>2, <2>3, <3>1, <3>2
  <2>4. CASE SubmitFails(c)
    <3>1. /\ submit' \in [SubmitCall -> SubmitRecord]
          /\ \A d \in SubmitCall : WholeCall(submit'[d])
          /\ \A d \in SubmitCall : submit[d].step = "done" => submit'[d].step = "done"
          /\ shownSig' \in Shows /\ shownSig'.hash = shownSig.hash
      BY <2>1, <2>4, CallFails
    <3>2. Hash'
      BY <1>a, <2>1, <3>1
    <3> HIDE DEF Entry, Ready, Hash, Shows
    <3> QED BY <1>b, <2>2, <3>1, <3>2
  <2>5. CASE /\ tally.ready
             /\ submit' = [submit EXCEPT ![c] =
                  [step |-> "send", sigs |-> Combined(GivenCopies), of |-> Signed,
                   held |-> UNION {copy.keys : copy \in GivenCopies}]]
             /\ shownSig' = [shownSig EXCEPT !.submitting = TRUE, !.error = FALSE]
    <3> DEFINE q == Combined(GivenCopies)
               keys == UNION {copy.keys : copy \in GivenCopies}
               s == [step |-> "send", sigs |-> q, of |-> Signed, held |-> keys]
    <3>1. /\ IsFiniteSet(GivenCopies) /\ Signed \in SUBSET Key
          /\ \A copy \in GivenCopies : copy.keys \in SUBSET Key
      BY GivenAreFinite
    <3>2. q \in OnceEach /\ ToSet(q) = keys
      BY <3>1, CombinedIsWhole
    <3>3. keys \in SUBSET Key
      BY <3>1
    <3>4. Cardinality(Signed) >= Required
      BY <1>a, <2>5 DEF Collected, Signed
    <3>5. submit' = [submit EXCEPT ![c] = s]
      BY <2>5
    <3> HIDE DEF q, keys
    <3>6. q \in Seq(Key)
      BY <3>2 DEF OnceEach
    <3>7. s \in SubmitRecord
      BY <3>1, <3>3, <3>6 DEF SubmitRecord, SubmitSteps
    <3>8. WholeCall(s)
      BY <3>2, <3>4 DEF WholeCall
    <3>9. s.step = "send"
      OBVIOUS
    <3> HIDE DEF s
    <3>10. /\ submit' \in [SubmitCall -> SubmitRecord] /\ submit'[c] = s
           /\ \A d \in SubmitCall : d # c => submit'[d] = submit[d]
      BY <1>a, <3>5, <3>7
    <3>11. \A d \in SubmitCall : WholeCall(submit'[d])
      BY <1>a, <3>8, <3>10
    <3>12. shownSig' \in Shows /\ shownSig'.hash = shownSig.hash
      BY <1>a, <2>5
    <3>13. Hash'
      BY <1>a, <2>1, <3>10, <3>12
    <3> HIDE DEF Entry, Ready, Hash, Shows
    <3> QED BY <1>b, <2>2, <3>10, <3>11, <3>12, <3>13
  <2> QED BY <1>3, <2>3, <2>4, <2>5 DEF SubmitWhenReady
<1>4. ASSUME NEW c \in SubmitCall, SendCombined(c) PROVE SigInOrder'
  <2>1. UNCHANGED <<entries, tally>> /\ submit[c].step = "send"
    BY <1>4 DEF SendCombined
  <2>2. entries' \in [Key -> Entry] /\ Ready'
    BY <1>a, <2>1 DEF Collected
  <2>3. posted = "applied" => posted' = "applied"
    BY <1>4 DEF SendCombined, Accepted
  <2>4. CASE SubmitFails(c)
    <3>1. /\ submit' \in [SubmitCall -> SubmitRecord]
          /\ \A d \in SubmitCall : WholeCall(submit'[d])
          /\ \A d \in SubmitCall : submit[d].step = "done" => submit'[d].step = "done"
          /\ shownSig' \in Shows /\ shownSig'.hash = shownSig.hash
      BY <2>1, <2>4, CallFails
    <3>2. Hash'
      BY <1>a, <2>3, <3>1
    <3> HIDE DEF Entry, Ready, Hash, Shows
    <3> QED BY <1>b, <2>2, <3>1, <3>2
  <2>5. CASE /\ Accepted(submit[c].sigs)
             /\ submit' = [submit EXCEPT ![c].step = "poll"] /\ UNCHANGED shownSig
    <3>1. Len(submit[c].sigs) >= Required
      BY <2>5 DEF Accepted
    <3>2. "poll" \in SubmitSteps /\ submit[c].step \in OnItsWay
      BY <2>1 DEF SubmitSteps, OnItsWay
    <3>3. /\ submit' \in [SubmitCall -> SubmitRecord]
          /\ \A d \in SubmitCall : WholeCall(submit'[d])
          /\ \A d \in SubmitCall : submit[d].step = "done" => submit'[d].step = "done"
      BY <2>1, <2>5, <3>1, <3>2, CallGoesOn
    <3>4. Hash' /\ shownSig' \in Shows
      BY <1>a, <2>3, <2>5, <3>3
    <3> HIDE DEF Entry, Ready, Hash, Shows
    <3> QED BY <1>b, <2>2, <3>3, <3>4
  <2> QED BY <1>4, <2>4, <2>5 DEF SendCombined
<1>5. ASSUME NEW c \in SubmitCall, Confirm(c) PROVE SigInOrder'
  <2>1. UNCHANGED <<entries, tally, posted>> /\ submit[c].step = "poll"
    BY <1>5 DEF Confirm
  <2>2. entries' \in [Key -> Entry] /\ Ready'
    BY <1>a, <2>1 DEF Collected
  <2>4. CASE SubmitFails(c)
    <3>1. /\ submit' \in [SubmitCall -> SubmitRecord]
          /\ \A d \in SubmitCall : WholeCall(submit'[d])
          /\ \A d \in SubmitCall : submit[d].step = "done" => submit'[d].step = "done"
          /\ shownSig' \in Shows /\ shownSig'.hash = shownSig.hash
      BY <2>1, <2>4, CallFails
    <3>2. Hash'
      BY <1>a, <2>1, <3>1
    <3> HIDE DEF Entry, Ready, Hash, Shows
    <3> QED BY <1>b, <2>2, <3>1, <3>2
  <2>5. CASE /\ posted = "applied"
             /\ submit' = [submit EXCEPT ![c].step = "done"]
             /\ shownSig' = [shownSig EXCEPT !.submitting = FALSE, !.hash = TRUE]
    <3>1. Len(submit[c].sigs) >= Required
      BY <1>a, <2>1 DEF WholeCall, OnItsWay
    <3>2. "done" \in SubmitSteps /\ submit[c].step \in OnItsWay
      BY <2>1 DEF SubmitSteps, OnItsWay
    <3>3. /\ submit' \in [SubmitCall -> SubmitRecord]
          /\ \A d \in SubmitCall : WholeCall(submit'[d])
          /\ submit'[c].step = "done"
      BY <2>1, <2>5, <3>1, <3>2, CallGoesOn
    <3>4. Hash'
      BY <2>1, <2>5, <3>3
    <3>5. shownSig' \in Shows
      BY <1>a, <2>5
    <3> HIDE DEF Entry, Ready, Hash, Shows
    <3> QED BY <1>b, <2>2, <3>3, <3>4, <3>5
  <2> QED BY <1>5, <2>4, <2>5 DEF Confirm
<1>6. ASSUME Posted PROVE SigInOrder'
  <2>1. posted # "applied" /\ UNCHANGED <<entries, tally, submit, shownSig>>
    BY <1>6 DEF Posted
  <2>2. Hash' /\ Ready'
    BY <1>a, <2>1 DEF Collected
  <2> HIDE DEF Entry, Ready, Hash, Shows
  <2> QED BY <1>a, <1>b, <2>1, <2>2
<1>7. ASSUME UNCHANGED sigVars PROVE SigInOrder'
  <2>1. UNCHANGED <<entries, tally, submit, shownSig, posted>>
    BY <1>7 DEF sigVars
  <2>2. Hash' /\ Ready'
    BY <1>a, <2>1 DEF Collected
  <2> HIDE DEF Entry, Ready, Hash, Shows
  <2> QED BY <1>a, <1>b, <2>1, <2>2
<1> QED BY <1>1, <1>2, <1>3, <1>4, <1>5, <1>6, <1>7 DEF SigNext

\* What is sent is whole and weighs what its signers weigh, and a hash means applied.
LEMMA SigSound == SigInOrder => EnvelopeIsWhole /\ HashMeansSigned
<1> SUFFICES ASSUME SigInOrder PROVE EnvelopeIsWhole /\ HashMeansSigned
  OBVIOUS
<1>1. ASSUME NEW c \in SubmitCall, submit[c].step \in OnItsWay
      PROVE  /\ ToSet(submit[c].sigs) = submit[c].held
             /\ Len(submit[c].sigs) = Cardinality(submit[c].held)
             /\ Cardinality(submit[c].of) >= Required
             /\ ToSet(submit[c].sigs) \in SUBSET Key
  <2>1. WholeCall(submit[c]) /\ submit[c] \in SubmitRecord
    BY DEF SigInOrder
  <2> DEFINE q == submit[c].sigs
  <2>2. q \in OnceEach /\ ToSet(q) = submit[c].held /\ Cardinality(submit[c].of) >= Required
    BY <1>1, <2>1 DEF WholeCall
  <2>3. submit[c].held \in SUBSET Key
    BY <2>1 DEF SubmitRecord
  <2> HIDE DEF q
  <2>4. q \in Seq(Key) /\ IsInjective(q)
    BY <2>2 DEF OnceEach
  <2>5. Len(q) = Cardinality(ToSet(q))
    BY <2>4, OnceEachLength
  <2> QED BY <2>2, <2>3, <2>5 DEF q
<1>2. ASSUME NEW c \in SubmitCall, submit[c].step \in OnItsWay, IsInjective(KeyHint)
      PROVE  LET q == submit[c].sigs IN
             /\ Weight(q) = MapThenSumSet(LAMBDA k : KeyWeight[k], ToSet(q))
             /\ (\A k \in Key : KeyWeight[k] >= 1) /\ Len(q) >= Required
                    => MeetsThreshold(Weight(q))
  <2> DEFINE q == submit[c].sigs
  <2>1. ToSet(q) \in SUBSET Key /\ Len(q) = Cardinality(ToSet(q))
    BY <1>1, <1>2
  <2> HIDE DEF q
  <2>2. Weight(q) = Sum(KeyWeight, ToSet(q))
    BY <1>2, <2>1, WeightOfSigners
  <2>3. IsFiniteSet(ToSet(q))
    BY <2>1, SignaturesAssumption, FS_Subset DEF SignaturesAssumption
  <2>4. MapThenSumSet(LAMBDA k : KeyWeight[k], ToSet(q)) = Sum(KeyWeight, ToSet(q))
    BY <2>3, WeightIsSum
  <2>5. ASSUME \A k \in Key : KeyWeight[k] >= 1, Len(q) >= Required
        PROVE  MeetsThreshold(Weight(q))
    <3>1. Sum(KeyWeight, ToSet(q)) >= Required
      BY <2>1, <2>5, EnoughSigners
    <3> QED BY <2>2, <3>1 DEF MeetsThreshold
  <2>6. Weight(q) = MapThenSumSet(LAMBDA k : KeyWeight[k], ToSet(q))
    BY <2>2, <2>4
  <2> QED BY <2>5, <2>6 DEF q
<1>3. EnvelopeIsWhole
  BY <1>1, <1>2 DEF EnvelopeIsWhole, OnItsWay
<1>4. HashMeansSigned
  <2> SUFFICES ASSUME shownSig.hash PROVE HashMeansSigned
    BY DEF HashMeansSigned
  <2>1. posted = "applied" /\ \E c \in SubmitCall : submit[c].step = "done"
    BY DEF SigInOrder
  <2>2. PICK c \in SubmitCall : submit[c].step = "done"
    BY <2>1
  <2>3. /\ ToSet(submit[c].sigs) = submit[c].held
        /\ Len(submit[c].sigs) = Cardinality(submit[c].held)
    BY <1>1, <2>2 DEF OnItsWay
  <2>4. Len(submit[c].sigs) >= Required
    BY <2>2 DEF SigInOrder, WholeCall, OnItsWay
  <2>5. Cardinality(ToSet(submit[c].sigs)) >= Required
    BY <2>3, <2>4
  <2> QED BY <2>1, <2>2, <2>5 DEF HashMeansSigned
<1> QED BY <1>3, <1>4

-----------------------------------------------------------------------------
(* The wallets of the SDK (its adapters).                                  *)

Adapters == {"freighter", "albedo", "xbull", "walletConnect", "none"}
SignerRecord == [adapter : Adapters, expected : Networks, cache : Key \cup {NoKey}]
ExtensionRecord == [account : Key, network : Networks, allowed : BOOLEAN]
SessionRecord == [session : Nat, keyOf : Seq(Key), live : SUBSET Nat, offers : Int,
                  ended : SUBSET Nat]
AskRecord == [step : {"idle", "built", "signed", "failed", "ending"},
              source : Key \cup Nat, by : Key \cup {NoKey},
              net : Networks \cup {"none"}, moved : BOOLEAN]

\* No session that was ended lives or is in use.
SessionsInOrder(w) ==
    LET known == 1..Len(w.keyOf) IN
    /\ w.live \subseteq known /\ w.ended \subseteq known /\ w.live \cap w.ended = {}
    /\ w.session \in known \cup {NoKey} /\ w.session \notin w.ended

\* What a call was told is what its adapter still tells, unless it was told of a
\* change; what was signed was signed as asked.
AskInOrder(a, s, account, w) ==
    /\ a.step = "ending" => a.source \in 1..Len(w.keyOf)
    /\ a.step = "built" =>
         /\ s.adapter \in {"freighter", "xbull"} => a.moved \/ a.source = account
         /\ s.adapter = "walletConnect" /\ w.session # NoKey
              => a.moved \/ a.source = w.keyOf[w.session]
         /\ s.adapter = "albedo" => s.cache # NoKey /\ a.source = s.cache
    /\ a.step = "signed" =>
         /\ a.by = a.source \/ a.moved \/ s.adapter = "albedo"
         /\ a.net = s.expected \/ (s.expected = "futurenet" /\ s.adapter # "freighter")

SignersInOrder ==
    /\ signer \in SignerRecord /\ extension \in ExtensionRecord /\ wc \in SessionRecord
    /\ walletAsks \in [SubmitCall -> AskRecord]
    /\ signer.adapter # "albedo" => signer.cache = NoKey
    /\ SessionsInOrder(wc)
    /\ \A c \in SubmitCall : AskInOrder(walletAsks[c], signer, extension.account, wc)

LEMMA KeysExist == Key # {} /\ NoKey \notin Key
<1>1. Cardinality({}) = 0 /\ Required >= 1 /\ Required <= Cardinality(Key) /\ Required \in Int
  BY SignaturesAssumption, FS_EmptySet, FS_CardinalityType DEF SignaturesAssumption
<1>2. Cardinality(Key) \in Nat
  BY SignaturesAssumption, FS_CardinalityType DEF SignaturesAssumption
<1>3. Key # {}
  BY <1>1, <1>2
<1> QED BY <1>3, SignaturesAssumption DEF SignaturesAssumption, NoKey

LEMMA PreferredIsAdapter ==
  ASSUME NEW installed \in SUBSET {"freighter", "albedo", "xbull"}
  PROVE  Preferred(installed) \in Adapters
<1>1. CASE "freighter" \in installed
  BY <1>1 DEF Preferred, Adapters
<1>2. CASE "freighter" \notin installed /\ "albedo" \in installed
  <2>1. installed # {"xbull"} /\ installed # {}
    BY <1>2
  <2> QED BY <1>2, <2>1 DEF Preferred, Adapters
<1>3. CASE "freighter" \notin installed /\ "albedo" \notin installed
  <2>1. installed = {} \/ installed = {"xbull"}
    BY <1>3
  <2>2. {} # {"xbull"}
    OBVIOUS
  <2> QED BY <1>3, <2>1, <2>2 DEF Preferred, Adapters
<1> QED BY <1>1, <1>2, <1>3

LEMMA NoRequestIsAsk == NoRequestYet \in AskRecord /\ NoRequestYet.step = "idle"
  BY DEF NoRequestYet, AskRecord, NoKey

LEMMA SignersInitially == SignerInit => SignersInOrder
<1> SUFFICES ASSUME SignerInit PROVE SignersInOrder
  OBVIOUS
<1>1. signer \in SignerRecord /\ signer.cache = NoKey
  <2>1. PICK installed \in SUBSET {"freighter", "albedo", "xbull"}, onNet \in Networks :
          \E adapter \in {Preferred(installed), "walletConnect"} :
             signer = [adapter |-> adapter, expected |-> onNet, cache |-> NoKey]
    BY DEF SignerInit
  <2>2. PICK adapter \in {Preferred(installed), "walletConnect"} :
             signer = [adapter |-> adapter, expected |-> onNet, cache |-> NoKey]
    BY <2>1
  <2>3. adapter \in Adapters
    BY PreferredIsAdapter DEF Adapters
  <2> QED BY <2>2, <2>3 DEF SignerRecord
<1>2. extension \in ExtensionRecord
  <2>1. (CHOOSE key \in Key : TRUE) \in Key
    BY KeysExist
  <2> QED BY <2>1 DEF SignerInit, ExtensionRecord, Networks
<1>3. wc \in SessionRecord /\ SessionsInOrder(wc)
  BY DEF SignerInit, SessionRecord, SessionsInOrder, NoKey
<1>4. walletAsks \in [SubmitCall -> AskRecord]
  BY NoRequestIsAsk DEF SignerInit
<1>5. \A c \in SubmitCall : AskInOrder(walletAsks[c], signer, extension.account, wc)
  BY NoRequestIsAsk DEF SignerInit, AskInOrder
<1> QED BY <1>1, <1>2, <1>3, <1>4, <1>5 DEF SignersInOrder

\* One call changes, and the others keep what holds of them.
LEMMA OneAskChanges ==
  ASSUME SignersInOrder, NEW c \in SubmitCall, NEW a \in AskRecord,
         walletAsks' = [walletAsks EXCEPT ![c] = a],
         signer' \in SignerRecord, extension' \in ExtensionRecord, wc' \in SessionRecord,
         signer'.adapter # "albedo" => signer'.cache = NoKey,
         SessionsInOrder(wc'),
         AskInOrder(a, signer', extension'.account, wc'),
         \A d \in SubmitCall : AskInOrder(walletAsks[d], signer', extension'.account, wc')
  PROVE  SignersInOrder'
<1>1. walletAsks' \in [SubmitCall -> AskRecord]
  BY DEF SignersInOrder
<1>2. \A d \in SubmitCall : walletAsks'[d] = IF d = c THEN a ELSE walletAsks[d]
  BY DEF SignersInOrder
<1>3. \A d \in SubmitCall : AskInOrder(walletAsks'[d], signer', extension'.account, wc')
  BY <1>2
<1> QED BY <1>1, <1>3 DEF SignersInOrder

\* A call is told a key.
LEMMA ToldKeyIsAsk ==
  ASSUME NEW key \in Key
  PROVE  LET a == [NoRequestYet EXCEPT !.step = "built", !.source = key] IN
         a \in AskRecord /\ a.step = "built" /\ a.source = key
  BY DEF NoRequestYet, AskRecord, NoKey

LEMMA InVain ==
  ASSUME SignersInOrder, NEW c \in SubmitCall, AskedInVain(c),
         UNCHANGED <<signer, wc>>, UNCHANGED extension
  PROVE  SignersInOrder'
<1> DEFINE a == [walletAsks[c] EXCEPT !.step = "failed"]
<1>1. walletAsks[c] \in AskRecord
  BY DEF SignersInOrder
<1>2. a \in AskRecord /\ a.step = "failed"
  BY <1>1 DEF AskRecord
<1>3. walletAsks' = [walletAsks EXCEPT ![c] = a]
  BY DEF AskedInVain
<1> HIDE DEF a
<1>4. AskInOrder(a, signer', extension'.account, wc')
  BY <1>2 DEF AskInOrder
<1>5. /\ signer' \in SignerRecord /\ extension' \in ExtensionRecord /\ wc' \in SessionRecord
      /\ (signer'.adapter # "albedo" => signer'.cache = NoKey)
      /\ SessionsInOrder(wc')
      /\ \A d \in SubmitCall : AskInOrder(walletAsks[d], signer', extension'.account, wc')
  BY DEF SignersInOrder
<1> QED BY <1>2, <1>3, <1>4, <1>5, OneAskChanges

LEMMA KeyAsked ==
  ASSUME SignersInOrder, NEW c \in SubmitCall, AskKey(c)
  PROVE  SignersInOrder'
<1>1. walletAsks[c].step = "idle" /\ wc' = wc
  BY DEF AskKey
<1>a. /\ signer \in SignerRecord /\ extension \in ExtensionRecord /\ wc \in SessionRecord
      /\ (signer.adapter # "albedo" => signer.cache = NoKey)
      /\ SessionsInOrder(wc) /\ walletAsks \in [SubmitCall -> AskRecord]
      /\ \A d \in SubmitCall : AskInOrder(walletAsks[d], signer, extension.account, wc)
  BY DEF SignersInOrder
<1>b. ASSUME NEW key \in Key, KeyIs(c, key), signer' = signer,
             extension' \in ExtensionRecord, extension'.account = extension.account,
             signer.adapter \in {"freighter", "xbull"} => key = extension.account,
             signer.adapter = "walletConnect" => wc.session # NoKey /\ key = wc.keyOf[wc.session],
             signer.adapter = "albedo" => signer.cache # NoKey /\ key = signer.cache
      PROVE  SignersInOrder'
  <2> DEFINE a == [NoRequestYet EXCEPT !.step = "built", !.source = key]
  <2>1. a \in AskRecord /\ a.step = "built" /\ a.source = key
    BY ToldKeyIsAsk
  <2>2. walletAsks' = [walletAsks EXCEPT ![c] = a]
    BY <1>b DEF KeyIs
  <2> HIDE DEF a
  <2>3. AskInOrder(a, signer', extension'.account, wc')
    BY <1>1, <1>b, <2>1 DEF AskInOrder
  <2>4. /\ signer' \in SignerRecord /\ wc' \in SessionRecord
        /\ (signer'.adapter # "albedo" => signer'.cache = NoKey)
        /\ SessionsInOrder(wc')
        /\ \A d \in SubmitCall : AskInOrder(walletAsks[d], signer', extension'.account, wc')
    BY <1>1, <1>a, <1>b
  <2> QED BY <1>b, <2>1, <2>2, <2>3, <2>4, OneAskChanges
<1>c. extension.account \in Key
  BY <1>a DEF ExtensionRecord
<1>2. CASE signer.adapter = "freighter" /\ FreighterTells(c)
  <2>1. CASE AskedInVain(c) /\ UNCHANGED <<signer, extension>>
    BY <1>1, <2>1, InVain
  <2>2. CASE /\ extension' = [extension EXCEPT !.allowed = TRUE]
             /\ KeyIs(c, extension.account) /\ UNCHANGED signer
    <3>1. extension' \in ExtensionRecord /\ extension'.account = extension.account
      BY <1>a, <2>2 DEF ExtensionRecord
    <3>2. signer.adapter # "walletConnect" /\ signer.adapter # "albedo"
      BY <1>2
    <3> QED BY <1>b, <1>c, <2>2, <3>1, <3>2
  <2> QED BY <1>2, <2>1, <2>2 DEF FreighterTells
<1>3. CASE signer.adapter = "xbull" /\ XBullTells(c)
  <2>1. CASE AskedInVain(c)
    BY <1>1, <1>3, <2>1, InVain DEF XBullTells
  <2>2. CASE KeyIs(c, extension.account)
    <3>1. signer.adapter # "walletConnect" /\ signer.adapter # "albedo"
      BY <1>3
    <3>2. signer' = signer /\ extension' = extension
      BY <1>3 DEF XBullTells
    <3> QED BY <1>a, <1>b, <1>c, <2>2, <3>1, <3>2
  <2> QED BY <1>3, <2>1, <2>2 DEF XBullTells
<1>4. CASE signer.adapter = "walletConnect" /\ SessionTells(c)
  <2>1. signer' = signer /\ extension' = extension
    BY <1>4 DEF SessionTells
  <2>2. CASE AskedInVain(c)
    BY <1>1, <2>1, <2>2, InVain
  <2>3. CASE InSession /\ KeyIs(c, wc.keyOf[wc.session])
    <3>1. wc.session \in 1..Len(wc.keyOf) /\ wc.keyOf \in Seq(Key)
      BY <1>a, <2>3 DEF InSession, SessionsInOrder, SessionRecord
    <3>2. wc.keyOf[wc.session] \in Key
      BY <3>1
    <3>3. signer.adapter \notin {"freighter", "xbull"} /\ signer.adapter # "albedo"
      BY <1>4
    <3> QED BY <1>a, <1>b, <2>1, <2>3, <3>2, <3>3 DEF InSession
  <2> QED BY <1>4, <2>2, <2>3 DEF SessionTells
<1>5. CASE signer.adapter = "albedo" /\ AlbedoTells(c)
  <2>1. extension' = extension
    BY <1>5 DEF AlbedoTells
  <2>2. CASE AskedInVain(c) /\ UNCHANGED signer
    BY <1>1, <2>1, <2>2, InVain
  <2>3. CASE signer.cache # NoKey /\ KeyIs(c, signer.cache) /\ UNCHANGED signer
    <3>1. signer.cache \in Key
      BY <1>a, <2>3 DEF SignerRecord
    <3>2. signer.adapter \notin {"freighter", "xbull"} /\ signer.adapter # "walletConnect"
      BY <1>5
    <3> QED BY <1>a, <1>b, <2>1, <2>3, <3>1, <3>2
  <2>4. ASSUME NEW key \in Key, signer.cache = NoKey, KeyIs(c, key),
               signer' = [signer EXCEPT !.cache = key]
        PROVE  SignersInOrder'
    <3>1. /\ signer' \in SignerRecord /\ signer'.cache = key
          /\ signer'.adapter = signer.adapter /\ signer'.expected = signer.expected
      BY <1>a, <2>4 DEF SignerRecord
    <3> DEFINE a == [NoRequestYet EXCEPT !.step = "built", !.source = key]
    <3>2. a \in AskRecord /\ a.step = "built" /\ a.source = key
      BY ToldKeyIsAsk
    <3>3. walletAsks' = [walletAsks EXCEPT ![c] = a]
      BY <2>4 DEF KeyIs
    <3> HIDE DEF a
    <3>4. key # NoKey
      BY KeysExist
    <3>5. AskInOrder(a, signer', extension'.account, wc')
      BY <1>1, <1>5, <3>1, <3>2, <3>4 DEF AskInOrder
    <3>6. ASSUME NEW d \in SubmitCall
          PROVE  AskInOrder(walletAsks[d], signer', extension'.account, wc')
      <4>1. AskInOrder(walletAsks[d], signer, extension.account, wc)
        BY <1>a
      <4>2. walletAsks[d].step # "built"
        BY <1>5, <2>4, <4>1 DEF AskInOrder
      <4> QED BY <1>1, <2>1, <3>1, <4>1, <4>2 DEF AskInOrder
    <3>7. /\ extension' \in ExtensionRecord /\ wc' \in SessionRecord
          /\ (signer'.adapter # "albedo" => signer'.cache = NoKey)
          /\ SessionsInOrder(wc')
      BY <1>1, <1>5, <1>a, <2>1, <3>1
    <3> QED BY <3>1, <3>2, <3>3, <3>5, <3>6, <3>7, OneAskChanges
  <2> QED BY <1>5, <2>2, <2>3, <2>4 DEF AlbedoTells
<1> QED BY <1>2, <1>3, <1>4, <1>5 DEF AskKey

LEMMA SignatureAsked ==
  ASSUME SignersInOrder, NEW c \in SubmitCall, AskSignature(c)
  PROVE  SignersInOrder'
<1>1. walletAsks[c].step = "built" /\ UNCHANGED <<signer, extension, wc>>
  BY DEF AskSignature
<1>a. /\ signer \in SignerRecord /\ extension \in ExtensionRecord /\ wc \in SessionRecord
      /\ (signer.adapter # "albedo" => signer.cache = NoKey)
      /\ SessionsInOrder(wc) /\ walletAsks \in [SubmitCall -> AskRecord]
      /\ \A d \in SubmitCall : AskInOrder(walletAsks[d], signer, extension.account, wc)
  BY DEF SignersInOrder
<1>b. ASSUME NEW key \in Key, NEW onNet \in Networks, SignedBy(c, key, onNet),
             key = walletAsks[c].source \/ walletAsks[c].moved \/ signer.adapter = "albedo",
             onNet = signer.expected \/ (signer.expected = "futurenet" /\ signer.adapter # "freighter")
      PROVE  SignersInOrder'
  <2> DEFINE a == [walletAsks[c] EXCEPT !.step = "signed", !.by = key, !.net = onNet]
  <2>1. walletAsks[c] \in AskRecord
    BY <1>a
  <2>2. /\ a \in AskRecord /\ a.step = "signed" /\ a.by = key /\ a.net = onNet
        /\ a.source = walletAsks[c].source /\ a.moved = walletAsks[c].moved
    BY <2>1 DEF AskRecord
  <2>3. walletAsks' = [walletAsks EXCEPT ![c] = a]
    BY <1>b, <1>a DEF SignedBy
  <2> HIDE DEF a
  <2>4. AskInOrder(a, signer', extension'.account, wc')
    BY <1>1, <1>b, <2>2 DEF AskInOrder
  <2>5. /\ signer' \in SignerRecord /\ extension' \in ExtensionRecord /\ wc' \in SessionRecord
        /\ (signer'.adapter # "albedo" => signer'.cache = NoKey)
        /\ SessionsInOrder(wc')
        /\ \A d \in SubmitCall : AskInOrder(walletAsks[d], signer', extension'.account, wc')
    BY <1>1, <1>a
  <2> QED BY <2>2, <2>3, <2>4, <2>5, OneAskChanges
<1>c. AskInOrder(walletAsks[c], signer, extension.account, wc)
  BY <1>a
<1>d. extension.account \in Key /\ signer.expected \in Networks
  BY <1>a DEF ExtensionRecord, SignerRecord
<1>e. /\ Resolved(signer.expected) \in Networks
      /\ Resolved(signer.expected) = signer.expected \/ signer.expected = "futurenet"
  BY <1>d DEF Resolved, Networks
<1>v. CASE AskedInVain(c)
  BY <1>1, <1>v, InVain
<1>2. CASE /\ signer.adapter = "freighter" /\ SignedBy(c, extension.account, signer.expected)
  <2>1. extension.account = walletAsks[c].source \/ walletAsks[c].moved
    BY <1>1, <1>2, <1>c DEF AskInOrder
  <2> QED BY <1>2, <1>b, <1>d, <2>1
<1>3. CASE /\ signer.adapter = "xbull"
           /\ SignedBy(c, extension.account, Resolved(signer.expected))
  <2>1. extension.account = walletAsks[c].source \/ walletAsks[c].moved
    BY <1>1, <1>3, <1>c DEF AskInOrder
  <2> QED BY <1>3, <1>b, <1>d, <1>e, <2>1
<1>4. CASE /\ signer.adapter = "walletConnect" /\ InSession
           /\ SignedBy(c, wc.keyOf[wc.session], Resolved(signer.expected))
  <2>1. wc.keyOf[wc.session] = walletAsks[c].source \/ walletAsks[c].moved
    BY <1>1, <1>4, <1>c DEF AskInOrder, InSession
  <2>2. wc.session \in 1..Len(wc.keyOf) /\ wc.keyOf \in Seq(Key)
    BY <1>a, <1>4 DEF InSession, SessionsInOrder, SessionRecord
  <2>3. wc.keyOf[wc.session] \in Key
    BY <2>2
  <2> QED BY <1>4, <1>b, <1>e, <2>1, <2>3
<1>5. ASSUME NEW key \in Key, signer.adapter = "albedo",
             SignedBy(c, key, Resolved(signer.expected))
      PROVE  SignersInOrder'
  BY <1>5, <1>b, <1>e
<1> QED BY <1>v, <1>2, <1>3, <1>4, <1>5
        DEF AskSignature, FreighterSigns, XBullSigns, AlbedoSigns, SessionSigns

\* A call that began is told of a change, whatever it is.
LEMMA ToldOfChange ==
  ASSUME SignersInOrder, AccountMoves, signer' = signer,
         extension' \in ExtensionRecord, wc' \in SessionRecord, SessionsInOrder(wc'),
         \A i \in 1..Len(wc.keyOf) : i \in 1..Len(wc'.keyOf)
  PROVE  SignersInOrder'
<1>a. /\ signer \in SignerRecord /\ (signer.adapter # "albedo" => signer.cache = NoKey)
      /\ walletAsks \in [SubmitCall -> AskRecord]
      /\ \A d \in SubmitCall : AskInOrder(walletAsks[d], signer, extension.account, wc)
  BY DEF SignersInOrder
<1>1. ASSUME NEW d \in SubmitCall
      PROVE  /\ walletAsks'[d] \in AskRecord
             /\ AskInOrder(walletAsks'[d], signer', extension'.account, wc')
  <2> DEFINE a == [walletAsks[d] EXCEPT !.moved = TRUE]
             b == walletAsks[d]
  <2>1. b \in AskRecord /\ AskInOrder(b, signer, extension.account, wc)
    BY <1>a
  <2>2. /\ a \in AskRecord /\ a.moved = TRUE /\ a.step = b.step /\ a.source = b.source
        /\ a.by = b.by /\ a.net = b.net
    BY <2>1 DEF AskRecord
  <2>3. walletAsks'[d] = a
    BY DEF AccountMoves
  <2> HIDE DEF a, b
  <2>4. AskInOrder(a, signer', extension'.account, wc')
    BY <2>1, <2>2 DEF AskInOrder
  <2> QED BY <2>2, <2>3, <2>4
<1>2. walletAsks' \in [SubmitCall -> AskRecord]
  BY <1>1 DEF AccountMoves
<1> QED BY <1>a, <1>1, <1>2 DEF SignersInOrder

LEMMA Offered ==
  ASSUME SignersInOrder, connect
  PROVE  SignersInOrder'
<1>a. /\ wc \in SessionRecord /\ SessionsInOrder(wc)
      /\ \A d \in SubmitCall : AskInOrder(walletAsks[d], signer, extension.account, wc)
  BY DEF SignersInOrder
<1>1. /\ wc' \in SessionRecord /\ wc'.session = wc.session /\ wc'.keyOf = wc.keyOf
      /\ wc'.live = wc.live /\ wc'.ended = wc.ended
  BY <1>a DEF connect, SessionRecord
<1>2. UNCHANGED <<signer, extension, walletAsks>>
  BY DEF connect
<1>3. SessionsInOrder(wc')
  BY <1>a, <1>1 DEF SessionsInOrder
<1>4. \A d \in SubmitCall : AskInOrder(walletAsks'[d], signer', extension'.account, wc')
  BY <1>a, <1>1, <1>2 DEF AskInOrder
<1> QED BY <1>1, <1>2, <1>3, <1>4 DEF SignersInOrder

LEMMA Approved ==
  ASSUME SignersInOrder, approval
  PROVE  SignersInOrder'
<1>a. wc \in SessionRecord /\ SessionsInOrder(wc)
  BY DEF SignersInOrder
<1> DEFINE id == Len(wc.keyOf) + 1
<1>1. PICK key \in Key : wc' = [wc EXCEPT !.offers = @ - 1, !.keyOf = Append(@, key),
                                          !.live = @ \union {id}, !.session = id]
  BY DEF approval
<1> DEFINE keys == Append(wc.keyOf, key)
<1>2. wc.keyOf \in Seq(Key) /\ Len(wc.keyOf) \in Nat
  BY <1>a DEF SessionRecord
<1>3. keys \in Seq(Key) /\ Len(keys) = id /\ id \in Nat
  BY <1>2
<1> HIDE DEF keys, id
<1>4. /\ wc'.session = id /\ wc'.keyOf = keys /\ wc'.live = wc.live \cup {id}
      /\ wc'.ended = wc.ended
  BY <1>a, <1>1 DEF SessionRecord, keys
<1>5. wc' \in SessionRecord
  <2>1. wc.offers - 1 \in Int /\ wc.live \cup {id} \in SUBSET Nat
    BY <1>a, <1>3 DEF SessionRecord
  <2> QED BY <1>a, <1>1, <1>3, <2>1 DEF SessionRecord, keys
<1>6. SessionsInOrder(wc')
  <2>1. \A i \in 1..Len(wc.keyOf) : i \in 1..id /\ i # id
    BY <1>2 DEF id
  <2>2. id \in 1..id
    BY <1>2 DEF id
  <2>3. id \notin wc.ended
    BY <1>a, <2>1 DEF SessionsInOrder
  <2> QED BY <1>a, <1>3, <1>4, <2>1, <2>2, <2>3 DEF SessionsInOrder
<1>7. \A i \in 1..Len(wc.keyOf) : i \in 1..Len(wc'.keyOf)
  BY <1>2, <1>3, <1>4 DEF id
<1>8. AccountMoves /\ signer' = signer /\ extension' \in ExtensionRecord
  BY DEF approval, SignersInOrder
<1> QED BY <1>5, <1>6, <1>7, <1>8, ToldOfChange

LEMMA Disconnects ==
  ASSUME SignersInOrder, NEW c \in SubmitCall, disconnect(c)
  PROVE  SignersInOrder'
<1>a. /\ signer \in SignerRecord /\ extension \in ExtensionRecord /\ wc \in SessionRecord
      /\ (signer.adapter # "albedo" => signer.cache = NoKey)
      /\ SessionsInOrder(wc)
      /\ \A d \in SubmitCall : AskInOrder(walletAsks[d], signer, extension.account, wc)
  BY DEF SignersInOrder
<1> DEFINE a == [NoRequestYet EXCEPT !.step = "ending", !.source = wc.session]
<1>1. walletAsks' = [walletAsks EXCEPT ![c] = a] /\ InSession
      /\ UNCHANGED <<signer, extension, wc>>
  BY DEF disconnect
<1>2. wc.session \in 1..Len(wc.keyOf) /\ wc.session \in Nat
  BY <1>1, <1>a DEF SessionsInOrder, InSession, SessionRecord
<1>3. a \in AskRecord /\ a.step = "ending" /\ a.source = wc.session
  BY <1>2 DEF AskRecord, NoRequestYet, NoKey
<1> HIDE DEF a
<1>4. AskInOrder(a, signer', extension'.account, wc')
  BY <1>1, <1>2, <1>3 DEF AskInOrder
<1>5. /\ signer' \in SignerRecord /\ extension' \in ExtensionRecord /\ wc' \in SessionRecord
      /\ (signer'.adapter # "albedo" => signer'.cache = NoKey)
      /\ SessionsInOrder(wc')
      /\ \A d \in SubmitCall : AskInOrder(walletAsks[d], signer', extension'.account, wc')
  BY <1>1, <1>a
<1> QED BY <1>1, <1>3, <1>4, <1>5, OneAskChanges

LEMMA SessionDropped ==
  ASSUME SignersInOrder, NEW c \in SubmitCall, DisconnectEnds(c)
  PROVE  SignersInOrder'
<1>a. /\ signer \in SignerRecord /\ extension \in ExtensionRecord /\ wc \in SessionRecord
      /\ (signer.adapter # "albedo" => signer.cache = NoKey)
      /\ SessionsInOrder(wc)
      /\ \A d \in SubmitCall : AskInOrder(walletAsks[d], signer, extension.account, wc)
  BY DEF SignersInOrder
<1> DEFINE id == walletAsks[c].source
<1>1. id \in 1..Len(wc.keyOf)
  BY <1>a DEF DisconnectEnds, AskInOrder
<1>2. /\ walletAsks' = [walletAsks EXCEPT ![c] = NoRequestYet] /\ UNCHANGED <<signer, extension>>
      /\ wc' \in {[wc EXCEPT !.session = NoKey],
                 [wc EXCEPT !.session = NoKey, !.live = @ \ {id}, !.ended = @ \union {id}]}
  BY DEF DisconnectEnds
<1> HIDE DEF id
<1>3. /\ wc' \in SessionRecord /\ wc'.session = NoKey /\ wc'.keyOf = wc.keyOf
      /\ \/ wc'.live = wc.live /\ wc'.ended = wc.ended
         \/ wc'.live = wc.live \ {id} /\ wc'.ended = wc.ended \cup {id}
  <2>0. Len(wc.keyOf) \in Nat /\ id \in Nat /\ NoKey \in Nat
    BY <1>a, <1>1 DEF SessionRecord, NoKey
  <2>1. CASE wc' = [wc EXCEPT !.session = NoKey]
    BY <1>a, <2>0, <2>1 DEF SessionRecord
  <2>2. CASE wc' = [wc EXCEPT !.session = NoKey, !.live = @ \ {id}, !.ended = @ \union {id}]
    <3>1. wc.live \ {id} \in SUBSET Nat /\ wc.ended \cup {id} \in SUBSET Nat
      BY <1>a, <2>0 DEF SessionRecord
    <3> QED BY <1>a, <2>0, <2>2, <3>1 DEF SessionRecord
  <2> QED BY <1>2, <2>1, <2>2
<1>4. SessionsInOrder(wc')
  <2>1. NoKey \notin 1..Len(wc.keyOf)
    BY <1>a DEF NoKey, SessionRecord
  <2> QED BY <1>a, <1>1, <1>3, <2>1 DEF SessionsInOrder
<1>5. NoRequestYet \in AskRecord /\ AskInOrder(NoRequestYet, signer', extension'.account, wc')
  BY NoRequestIsAsk DEF AskInOrder
<1>6. \A d \in SubmitCall : AskInOrder(walletAsks[d], signer', extension'.account, wc')
  BY <1>a, <1>2, <1>3 DEF AskInOrder
<1>7. /\ signer' \in SignerRecord /\ extension' \in ExtensionRecord
      /\ (signer'.adapter # "albedo" => signer'.cache = NoKey)
  BY <1>2, <1>a
<1> QED BY <1>2, <1>3, <1>4, <1>5, <1>6, <1>7, OneAskChanges

LEMMA WalletTurns ==
  ASSUME SignersInOrder, InTheWallet
  PROVE  SignersInOrder'
<1>a. extension \in ExtensionRecord /\ wc \in SessionRecord /\ SessionsInOrder(wc)
  BY DEF SignersInOrder
<1>1. AccountMoves /\ signer' = signer
  BY DEF InTheWallet
<1>2. ASSUME NEW key \in Key, NEW onNet \in Networks, wc' = wc,
             extension' = [extension EXCEPT !.account = key, !.network = onNet]
      PROVE  SignersInOrder'
  <2>1. extension' \in ExtensionRecord
    BY <1>a, <1>2 DEF ExtensionRecord
  <2> QED BY <1>a, <1>1, <1>2, <2>1, ToldOfChange
<1>3. ASSUME NEW id \in wc.live, wc' = [wc EXCEPT !.live = @ \ {id}], extension' = extension
      PROVE  SignersInOrder'
  <2>1. /\ wc' \in SessionRecord /\ wc'.session = wc.session /\ wc'.keyOf = wc.keyOf
        /\ wc'.live = wc.live \ {id} /\ wc'.ended = wc.ended
    BY <1>a, <1>3 DEF SessionRecord
  <2>2. SessionsInOrder(wc')
    BY <1>a, <2>1 DEF SessionsInOrder
  <2> QED BY <1>a, <1>1, <1>3, <2>1, <2>2, ToldOfChange
<1> QED BY <1>2, <1>3 DEF InTheWallet

LEMMA PageReloads ==
  ASSUME SignersInOrder, NewPage
  PROVE  SignersInOrder'
<1>a. /\ signer \in SignerRecord /\ extension \in ExtensionRecord /\ wc \in SessionRecord
      /\ SessionsInOrder(wc)
  BY DEF SignersInOrder
<1>1. Restored(wc.live) = NoKey \/ Restored(wc.live) \in wc.live
  <2>1. Len(wc.keyOf) \in Nat /\ wc.live \subseteq 1..Len(wc.keyOf)
    BY <1>a DEF SessionRecord, SessionsInOrder
  <2>2. IsFiniteSet(1..Len(wc.keyOf))
    <3> DEFINE n == Len(wc.keyOf)
    <3>1. n \in Int /\ 1 \in Int
      BY <2>1
    <3> HIDE DEF n
    <3>2. IsFiniteSet(1..n)
      BY <3>1, FS_Interval
    <3> QED BY <3>2 DEF n
  <2>3. IsFiniteSet(wc.live)
    BY <2>1, <2>2, FS_Subset
  <2>4. Positions(wc.live)
    BY <2>1 DEF Positions
  <2>5. wc.live # {} => Max(wc.live) \in wc.live
    BY <2>3, <2>4, MaxIsMember
  <2> QED BY <2>5 DEF Restored
<1> DEFINE id == Restored(wc.live)
<1>2. id \in Nat /\ id \in (1..Len(wc.keyOf)) \cup {NoKey} /\ id \notin wc.ended
  <2>1. NoKey \in Nat /\ NoKey \notin 1..Len(wc.keyOf)
    BY <1>a DEF NoKey, SessionRecord
  <2>2. wc.live \subseteq Nat
    BY <1>a DEF SessionRecord
  <2> HIDE DEF id
  <2>3. id = NoKey \/ id \in wc.live
    BY <1>1 DEF id
  <2> QED BY <1>a, <2>1, <2>2, <2>3 DEF SessionsInOrder
<1>3. wc' = [wc EXCEPT !.session = id, !.offers = 0]
  BY DEF NewPage
<1> HIDE DEF id
<1>4. /\ wc' \in SessionRecord /\ wc'.session = id /\ wc'.keyOf = wc.keyOf
      /\ wc'.live = wc.live /\ wc'.ended = wc.ended
  <2> DEFINE w == [wc EXCEPT !.session = id]
  <2>1. /\ w \in SessionRecord /\ w.session = id /\ w.keyOf = wc.keyOf
        /\ w.live = wc.live /\ w.ended = wc.ended
    BY <1>a, <1>2 DEF SessionRecord
  <2>2. wc' = [w EXCEPT !.offers = 0]
    BY <1>a, <1>3 DEF SessionRecord
  <2> HIDE DEF w
  <2> QED BY <2>1, <2>2 DEF SessionRecord
<1>5. SessionsInOrder(wc')
  BY <1>a, <1>2, <1>4 DEF SessionsInOrder
<1>6. signer' \in SignerRecord /\ signer'.cache = NoKey
  BY <1>a DEF NewPage, SignerRecord
<1>7. extension' = extension
  BY DEF NewPage
<1>8. walletAsks' \in [SubmitCall -> AskRecord]
      /\ \A d \in SubmitCall : walletAsks'[d] = NoRequestYet
  BY NoRequestIsAsk DEF NewPage
<1>9. \A d \in SubmitCall : AskInOrder(walletAsks'[d], signer', extension'.account, wc')
  BY <1>8, NoRequestIsAsk DEF AskInOrder
<1> QED BY <1>a, <1>4, <1>5, <1>6, <1>7, <1>8, <1>9 DEF SignersInOrder

LEMMA SignerStep == SignersInOrder /\ [SignerNext]_signerVars => SignersInOrder'
<1> SUFFICES ASSUME SignersInOrder, [SignerNext]_signerVars PROVE SignersInOrder'
  OBVIOUS
<1>1. CASE UNCHANGED signerVars
  <2>1. UNCHANGED <<signer, extension, wc, walletAsks>>
    BY <1>1 DEF signerVars
  <2> QED BY <2>1 DEF SignersInOrder
<1>2. CASE SignerNext
  BY <1>2, KeyAsked, SignatureAsked, Disconnects, SessionDropped, Offered, Approved,
     WalletTurns, PageReloads DEF SignerNext
<1> QED BY <1>1, <1>2

LEMMA SignersSound == SignersInOrder => SignedAsAsked /\ SessionsEnd
<1> SUFFICES ASSUME SignersInOrder PROVE SignedAsAsked /\ SessionsEnd
  OBVIOUS
<1>1. SignedAsAsked
  BY DEF SignersInOrder, AskInOrder, SignedAsAsked
<1>2. SessionsEnd
  BY DEF SignersInOrder, AskInOrder, SessionsInOrder, SessionsEnd
<1> QED BY <1>1, <1>2

-----------------------------------------------------------------------------
(* The SDK's subscriptions to events (StellarGrantsSDK.ts).                *)

SubState == {"idle", "active", "closed"}
SubType == [state : SubState, cursor : Nat, retries : Nat, seen : SUBSET Nat,
            useSocket : BOOLEAN, socket : {"none", "opening", "open"}, giveUp : BOOLEAN]
TimerType == [of : Sub \cup {Nobody}, kind : TimerKind, armed : BOOLEAN]

EventTypeOK ==
    /\ emitted \in 0..MaxEmitted /\ subOf \in [Sub -> SubType]
    /\ asking \in [Sub -> [Request -> Nat \cup {NoFetch}]]
    /\ heardBy \in [Sub -> Seq(Nat)] /\ missed \in [Sub -> SUBSET Nat]
    /\ pollTimer \in TimerType
    /\ orphans \in [Sub -> [TimerKind -> Nat]]
    /\ eventWs \in Sub \cup {Nobody} /\ eventFaults \in Nat

\* A subscription that goes by its socket, and a poll's timer that will fire for it.
BySocket(sub) == HasSocket /\ sub.useSocket
PollArmed(s, handle, loose_) ==
    (handle.armed /\ handle.of = s /\ handle.kind = "poll") \/ loose_["poll"] > 0
Ascending(row) == \A i, j \in DOMAIN row : i < j => row[i] < row[j]

\* One socket at most has handlers, the one the field holds; polls and their timers are of
\* subscriptions without one.  What a poll under way asks for again was seen.
SubInOrder(s, sub, asks, heard, lost, handle, loose_, ws, out, faults) ==
    /\ sub.socket # "none" => ws = s /\ BySocket(sub)
    /\ sub.cursor <= out /\ sub.seen \subseteq 1..sub.cursor
    /\ \A q \in Request : asks[q] # NoFetch =>
          ~BySocket(sub) /\ asks[q] <= sub.cursor /\ asks[q] + 1 .. sub.cursor \subseteq sub.seen
    /\ PollArmed(s, handle, loose_) => ~BySocket(sub)
    /\ Ascending(heard) /\ 1..sub.cursor = ToSet(heard) \cup lost
    /\ faults = 0 => lost = {}

\* The inductive invariant.
EventsInOrder ==
    /\ EventTypeOK
    /\ \A s \in Sub :
          SubInOrder(s, subOf[s], asking[s], heardBy[s], missed[s], pollTimer, orphans[s],
                     eventWs, emitted, eventFaults)

LEMMA EventsInitially == EventInit => EventsInOrder
<1> SUFFICES ASSUME EventInit PROVE EventsInOrder
  OBVIOUS
<1>1. EventTypeOK
  <2>1. IdleSub \in SubType
    BY DEF IdleSub, SubType, SubState
  <2>2. NoTimer \in TimerType
    BY DEF NoTimer, TimerType, TimerKind
  <2>3. <<>> \in Seq(Nat) /\ MaxEmitted \in Nat
    BY EventsAssumption
  <2> QED BY <2>1, <2>2, <2>3 DEF EventInit, EventTypeOK
<1>2. ASSUME NEW s \in Sub
      PROVE  SubInOrder(s, subOf[s], asking[s], heardBy[s], missed[s], pollTimer, orphans[s],
                        eventWs, emitted, eventFaults)
  <2>1. /\ subOf[s].socket = "none" /\ subOf[s].cursor = 0 /\ subOf[s].seen = {}
        /\ \A q \in Request : asking[s][q] = NoFetch
        /\ heardBy[s] = <<>> /\ missed[s] = {} /\ emitted = 0
    BY DEF EventInit, IdleSub
  <2>2. ~PollArmed(s, pollTimer, orphans[s])
    BY DEF EventInit, PollArmed, NoTimer, TimerKind
  <2>3. Ascending(<<>>) /\ ToSet(<<>>) = {} /\ 1..0 = {}
    BY DEF Ascending, ToSet
  <2> QED BY <2>1, <2>2, <2>3 DEF SubInOrder
<1> QED BY <1>1, <1>2 DEF EventsInOrder

-----------------------------------------------------------------------------
(* Events in a row *)

LEMMA MaxOfTwo ==
  ASSUME NEW a \in Nat, NEW b \in Nat, a <= b
  PROVE  Max({a} \cup (a + 1 .. b)) = b
<1> DEFINE S == {a} \cup (a + 1 .. b)
<1>1. b \in S /\ \A y \in S : b >= y
  OBVIOUS
<1>2. \A x \in S : (\A y \in S : x >= y) => x = b
  BY <1>1
<1> HIDE DEF S
<1>3. Max(S) \in S /\ \A y \in S : Max(S) >= y
  BY <1>1 DEF Max
<1> QED BY <1>2, <1>3 DEF S

LEMMA RowOfInterval ==
  ASSUME NEW a \in Nat, NEW b \in Nat, a <= b
  PROVE  /\ InOrder(a + 1 .. b) \in Seq(Nat) /\ Ascending(InOrder(a + 1 .. b))
         /\ ToSet(InOrder(a + 1 .. b)) = a + 1 .. b
<1> DEFINE S == a + 1 .. b
           n == b - a
           witness == [i \in 1..n |-> a + i]
           Row(row) == ToSet(row) = S /\ \A i, j \in DOMAIN row : i < j => row[i] < row[j]
<1>1. n \in Nat /\ Cardinality(S) = n
  <2>1. a + 1 \in Int /\ b \in Int
    OBVIOUS
  <2>2. Cardinality(S) = IF a + 1 > b THEN 0 ELSE b - (a + 1) + 1
    BY <2>1, FS_Interval
  <2> QED BY <2>2
<1>2. witness \in [1..n -> S]
  BY <1>1
<1>3. Row(witness)
  <2>1. ToSet(witness) \subseteq S
    BY DEF ToSet
  <2>2. \A e \in S : e - a \in 1..n /\ witness[e - a] = e
    OBVIOUS
  <2>3. DOMAIN witness = 1..n /\ ToSet(witness) = {witness[i] : i \in DOMAIN witness}
    BY DEF ToSet
  <2>4. S \subseteq ToSet(witness)
    <3> HIDE DEF witness, S, n
    <3> QED BY <2>2, <2>3
  <2>5. \A i, j \in DOMAIN witness : i < j => witness[i] < witness[j]
    BY <2>3
  <2> QED BY <2>1, <2>4, <2>5
<1> HIDE DEF S, n
<1> HIDE DEF witness
<1>4. \E row \in [1..Cardinality(S) -> S] : Row(row)
  BY <1>1, <1>2, <1>3
<1>5. InOrder(S) \in [1..n -> S] /\ Row(InOrder(S))
  <2>1. InOrder(S) \in [1..Cardinality(S) -> S] /\ Row(InOrder(S))
    BY <1>4 DEF InOrder
  <2> QED BY <1>1, <2>1
<1> HIDE DEF Row
<1>6. S \subseteq Nat
  BY DEF S
<1>b. S = a + 1 .. b
  BY DEF S
<1>7. InOrder(S) \in Seq(Nat)
  <2>1. InOrder(S) \in [1..n -> Nat]
    BY <1>5, <1>6
  <2> QED BY <1>1, <2>1, SeqDef
<1>8. Ascending(InOrder(S)) /\ ToSet(InOrder(S)) = S
  BY <1>5 DEF Row, Ascending
<1> QED BY <1>7, <1>8, <1>b

\* A row goes on with later events.
UpTo(r, a) == \A e \in ToSet(r) : e <= a
After_(r, a) == \A e \in ToSet(r) : e > a
LEMMA RowGoesOn ==
  ASSUME NEW r \in Seq(Nat), NEW t \in Seq(Nat), Ascending(r), Ascending(t), NEW a \in Nat,
         UpTo(r, a), After_(t, a)
  PROVE  r \o t \in Seq(Nat) /\ Ascending(r \o t) /\ ToSet(r \o t) = ToSet(r) \cup ToSet(t)
<1>0. Len(r) \in Nat /\ Len(t) \in Nat /\ DOMAIN r = 1..Len(r) /\ DOMAIN t = 1..Len(t)
  OBVIOUS
<1>1. /\ r \o t \in Seq(Nat) /\ Len(r \o t) = Len(r) + Len(t)
      /\ \A i \in 1..Len(r) + Len(t) : (r \o t)[i] = IF i <= Len(r) THEN r[i] ELSE t[i - Len(r)]
  BY ConcatProperties
<1>2. DOMAIN (r \o t) = 1..Len(r) + Len(t)
  BY <1>1
<1> DEFINE u == r \o t
<1>a. /\ DOMAIN u = 1..Len(r) + Len(t)
      /\ \A i \in 1..Len(r) : u[i] = r[i]
      /\ \A i \in 1..Len(r) + Len(t) : i > Len(r) => u[i] = t[i - Len(r)] /\ i - Len(r) \in 1..Len(t)
      /\ \A i \in 1..Len(t) : u[Len(r) + i] = t[i] /\ Len(r) + i \in 1..Len(r) + Len(t)
  BY <1>0, <1>1, <1>2
<1> HIDE DEF u
<1>3. \A i \in 1..Len(r) : r[i] \in ToSet(r) /\ r[i] \in Nat
  BY <1>0 DEF ToSet
<1>4. \A i \in 1..Len(t) : t[i] \in ToSet(t) /\ t[i] \in Nat
  BY <1>0 DEF ToSet
<1>5. Ascending(u)
  <2>1. ASSUME NEW i \in 1..Len(r) + Len(t), NEW j \in 1..Len(r) + Len(t), i < j
        PROVE  u[i] < u[j]
    <3>1. CASE j <= Len(r)
      <4>1. i \in 1..Len(r) /\ j \in 1..Len(r)
        BY <1>0, <2>1, <3>1
      <4> QED BY <1>0, <1>a, <2>1, <4>1 DEF Ascending
    <3>2. CASE i <= Len(r) /\ j > Len(r)
      <4>1. i \in 1..Len(r) /\ j - Len(r) \in 1..Len(t) /\ u[i] = r[i] /\ u[j] = t[j - Len(r)]
        BY <1>0, <1>a, <3>2
      <4>2. r[i] <= a /\ t[j - Len(r)] > a /\ r[i] \in Nat /\ t[j - Len(r)] \in Nat
        BY <1>3, <1>4, <4>1 DEF UpTo, After_
      <4> QED BY <4>1, <4>2
    <3>3. CASE i > Len(r)
      <4>1. /\ i - Len(r) \in 1..Len(t) /\ j - Len(r) \in 1..Len(t) /\ i - Len(r) < j - Len(r)
            /\ u[i] = t[i - Len(r)] /\ u[j] = t[j - Len(r)]
        BY <1>0, <1>a, <2>1, <3>3
      <4> QED BY <1>0, <4>1 DEF Ascending
    <3> QED BY <1>0, <3>1, <3>2, <3>3
  <2> QED BY <1>a, <2>1 DEF Ascending
<1>6. ToSet(u) = ToSet(r) \cup ToSet(t)
  <2>1. ASSUME NEW e \in ToSet(u)
        PROVE  e \in ToSet(r) \cup ToSet(t)
    <3>1. PICK i \in 1..Len(r) + Len(t) : u[i] = e
      BY <1>a DEF ToSet
    <3>2. CASE i <= Len(r)
      BY <1>0, <1>3, <1>a, <3>1, <3>2
    <3>3. CASE i > Len(r)
      BY <1>0, <1>4, <1>a, <3>1, <3>3
    <3> QED BY <1>0, <3>2, <3>3
  <2>2. ASSUME NEW e \in ToSet(r)
        PROVE  e \in ToSet(u)
    <3>1. PICK i \in 1..Len(r) : r[i] = e
      BY <1>0 DEF ToSet
    <3> QED BY <1>0, <1>a, <3>1 DEF ToSet
  <2>3. ASSUME NEW e \in ToSet(t)
        PROVE  e \in ToSet(u)
    <3>1. PICK i \in 1..Len(t) : t[i] = e
      BY <1>0 DEF ToSet
    <3> QED BY <1>0, <1>a, <3>1 DEF ToSet
  <2> QED BY <2>1, <2>2, <2>3
<1> QED BY <1>1, <1>5, <1>6 DEF u

-----------------------------------------------------------------------------
(* Steps that deliver nothing *)

\* A subscription goes on: where its cursor stands and what it has seen stay.
Goes(new, old) ==
    /\ new \in SubType /\ new.cursor = old.cursor /\ new.seen = old.seen
    /\ new.useSocket => old.useSocket

LEMMA QuietSub ==
  ASSUME NEW s \in Sub, NEW sub \in SubType, NEW asks, NEW heard, NEW lost, NEW handle, NEW loose_,
         NEW ws, NEW out \in Nat, NEW faults \in Nat,
         SubInOrder(s, sub, asks, heard, lost, handle, loose_, ws, out, faults),
         NEW sub2, Goes(sub2, sub), NEW asks2, NEW handle2, NEW loose2, NEW ws2, NEW out2 \in Nat,
         NEW faults2 \in Nat, out <= out2, faults <= faults2,
         sub2.socket # "none" => ws2 = s /\ BySocket(sub2),
         \A q \in Request : asks2[q] # NoFetch =>
             asks2[q] = asks[q] \/ (asks2[q] = sub2.cursor /\ ~BySocket(sub2)),
         PollArmed(s, handle2, loose2) => PollArmed(s, handle, loose_) \/ ~BySocket(sub2)
  PROVE  SubInOrder(s, sub2, asks2, heard, lost, handle2, loose2, ws2, out2, faults2)
<1>1. sub.cursor \in Nat /\ sub2.cursor = sub.cursor /\ sub2.seen = sub.seen
      /\ (BySocket(sub2) => BySocket(sub))
  BY DEF Goes, SubType, BySocket
<1>2. sub2.cursor + 1 .. sub2.cursor = {}
  BY <1>1
<1>3. ASSUME NEW q \in Request, asks2[q] # NoFetch
      PROVE  ~BySocket(sub2) /\ asks2[q] <= sub2.cursor /\ asks2[q] + 1 .. sub2.cursor \subseteq sub2.seen
  BY <1>1, <1>2, <1>3 DEF SubInOrder
<1> QED BY <1>1, <1>3 DEF SubInOrder

\* Sockets without handlers.
LEMMA CleanedSubs ==
  ASSUME EventTypeOK, NEW subs \in [Sub -> SubType],
         \A t \in Sub : subs[t].socket # "none" => eventWs = t
  PROVE  /\ Cleaned(subs) \in [Sub -> SubType]
         /\ \A t \in Sub : /\ Goes(Cleaned(subs)[t], subs[t]) /\ Cleaned(subs)[t].socket = "none"
                           /\ Cleaned(subs)[t].useSocket = subs[t].useSocket
                           /\ Cleaned(subs)[t].state = subs[t].state
<1>0. Nobody \notin Sub /\ eventWs \in Sub \cup {Nobody}
  BY EventsAssumption DEF Nobody, EventTypeOK
<1>1. CASE eventWs = Nobody
  BY <1>0, <1>1 DEF Cleaned, Goes
<1>2. CASE eventWs # Nobody
  <2> DEFINE next == [subs[eventWs] EXCEPT !.socket = "none"]
  <2>1. Cleaned(subs) = [subs EXCEPT ![eventWs] = next]
    BY <1>2 DEF Cleaned
  <2>2. next \in SubType /\ next.socket = "none" /\ next.cursor = subs[eventWs].cursor
        /\ next.seen = subs[eventWs].seen /\ next.useSocket = subs[eventWs].useSocket
        /\ next.state = subs[eventWs].state
    BY <1>0, <1>2 DEF SubType
  <2> HIDE DEF next
  <2> QED BY <1>0, <1>2, <2>1, <2>2 DEF Goes
<1> QED BY <1>1, <1>2

\* Sockets, cursors and what was seen are as they were.
Alike(new, old) ==
    /\ new \in SubType /\ new.cursor = old.cursor /\ new.seen = old.seen
    /\ new.useSocket = old.useSocket /\ new.socket = old.socket

Quiet_(t) ==
    /\ Goes(subOf'[t], subOf[t])
    /\ subOf'[t].socket # "none" => eventWs' = t /\ BySocket(subOf'[t])
    /\ \A q \in Request : asking'[t][q] # NoFetch =>
          asking'[t][q] = asking[t][q] \/ (asking'[t][q] = subOf'[t].cursor /\ ~BySocket(subOf'[t]))
    /\ PollArmed(t, pollTimer', orphans'[t]) =>
          PollArmed(t, pollTimer, orphans[t]) \/ ~BySocket(subOf'[t])

LEMMA QuietEvents ==
  ASSUME EventsInOrder, EventTypeOK', UNCHANGED <<heardBy, missed>>,
         emitted <= emitted', eventFaults <= eventFaults', \A t \in Sub : Quiet_(t)
  PROVE  EventsInOrder'
<1>1. ASSUME NEW t \in Sub
      PROVE  SubInOrder(t, subOf'[t], asking'[t], heardBy'[t], missed'[t], pollTimer', orphans'[t],
                        eventWs', emitted', eventFaults')
  <2>1. SubInOrder(t, subOf[t], asking[t], heardBy[t], missed[t], pollTimer, orphans[t],
                   eventWs, emitted, eventFaults)
    BY DEF EventsInOrder
  <2>2. subOf[t] \in SubType /\ emitted \in Nat /\ emitted' \in Nat /\ eventFaults \in Nat
        /\ eventFaults' \in Nat /\ heardBy'[t] = heardBy[t] /\ missed'[t] = missed[t]
    BY DEF EventsInOrder, EventTypeOK
  <2>3. Quiet_(t)
    OBVIOUS
  <2>4. SubInOrder(t, subOf'[t], asking'[t], heardBy[t], missed[t], pollTimer', orphans'[t],
                   eventWs', emitted', eventFaults')
    BY <2>1, <2>2, <2>3, QuietSub DEF Quiet_
  <2> QED BY <2>2, <2>4
<1> QED BY <1>1 DEF EventsInOrder

\* A poll goes out, or is answered.
Asked(s, q, x) == asking' = [asking EXCEPT ![s][q] = x]
LEMMA Asks ==
  ASSUME EventTypeOK, NEW s \in Sub, NEW q \in Request, NEW x \in Nat \cup {NoFetch},
         Asked(s, q, x)
  PROVE  /\ asking' \in [Sub -> [Request -> Nat \cup {NoFetch}]]
         /\ \A t \in Sub, r \in Request :
               asking'[t][r] = asking[t][r] \/ (t = s /\ asking'[t][r] = x)
<1>1. asking \in [Sub -> [Request -> Nat \cup {NoFetch}]]
  BY DEF EventTypeOK
<1> DEFINE next == [asking[s] EXCEPT ![q] = x]
<1>2. next \in [Request -> Nat \cup {NoFetch}] /\ \A r \in Request : next[r] = asking[s][r] \/ next[r] = x
  BY <1>1
<1>3. asking' = [asking EXCEPT ![s] = next]
  BY <1>1 DEF Asked
<1> HIDE DEF next
<1> QED BY <1>1, <1>2, <1>3

(* Timers *)

LEMMA NoTimerPolls ==
  ASSUME NEW t \in Sub, NEW loose_, PollArmed(t, NoTimer, loose_)
  PROVE  loose_["poll"] > 0
  BY DEF PollArmed, NoTimer

LEMMA OrphansKept ==
  ASSUME EventTypeOK, NEW handle \in TimerType, NEW cleared \in BOOLEAN,
         orphans' = Orphaned(handle, cleared)
  PROVE  /\ orphans' \in [Sub -> [TimerKind -> Nat]]
         /\ \A t \in Sub : orphans'[t]["poll"] > 0 => PollArmed(t, handle, orphans[t])
<1>1. orphans \in [Sub -> [TimerKind -> Nat]]
  BY DEF EventTypeOK
<1>2. CASE cleared \/ ~handle.armed \/ handle.of \notin Sub
  <2>1. orphans' = orphans
    BY <1>1, <1>2 DEF Orphaned
  <2> QED BY <1>1, <2>1 DEF PollArmed
<1>3. CASE ~cleared /\ handle.armed /\ handle.of \in Sub
  <2> DEFINE s == handle.of
             k == handle.kind
             next == [orphans[s] EXCEPT ![k] = @ + 1]
  <2>1. k \in TimerKind /\ "poll" \in TimerKind /\ s \in Sub
    BY <1>3 DEF TimerType, TimerKind
  <2>2. orphans' = [orphans EXCEPT ![s] = next]
    BY <1>1, <1>3, <2>1 DEF Orphaned
  <2>3. next \in [TimerKind -> Nat] /\ (k # "poll" => next["poll"] = orphans[s]["poll"])
    BY <1>1, <2>1
  <2> HIDE DEF next
  <2> QED BY <1>1, <1>3, <2>1, <2>2, <2>3 DEF PollArmed
<1> QED BY <1>2, <1>3

LEMMA ReconnectEffect ==
  ASSUME EventTypeOK, NEW s \in Sub, NEW subs \in [Sub -> SubType], NEW handle \in TimerType,
         NEW cleared \in BOOLEAN, Reconnect(s, subs, handle, cleared)
  PROVE  /\ subOf' \in [Sub -> SubType] /\ \A t \in Sub : Alike(subOf'[t], subs[t])
         /\ \A t \in Sub : subOf'[t].state = subs[t].state \/ (t = s /\ subOf'[t].state = "closed")
         /\ pollTimer' \in TimerType /\ orphans' \in [Sub -> [TimerKind -> Nat]]
         /\ \A t \in Sub : PollArmed(t, pollTimer', orphans'[t]) => PollArmed(t, handle, orphans[t])
<1> DEFINE tried == [subs[s] EXCEPT !.retries = @ + 1]
           over == [tried EXCEPT !.state = "closed"]
<1>1. tried \in SubType /\ Alike(tried, subs[s]) /\ tried.state = subs[s].state
  BY DEF SubType, Alike
<1>2. over = [subs[s] EXCEPT !.retries = @ + 1, !.state = "closed"]
  BY DEF SubType
<1> HIDE DEF tried
<1>3. over \in SubType /\ Alike(over, subs[s]) /\ over.state = "closed"
  BY <1>1 DEF SubType, SubState, Alike
<1>4. \A t \in Sub : Alike(subs[t], subs[t])
  BY DEF Alike
<1>5. CASE subs[s].retries + 1 > MaxRetries
  <2>1. subOf' = [subs EXCEPT ![s] = over] /\ pollTimer' = handle /\ orphans' = orphans
    BY <1>2, <1>5 DEF Reconnect
  <2> HIDE DEF over
  <2>2. subOf' \in [Sub -> SubType] /\ \A t \in Sub : subOf'[t] = IF t = s THEN over ELSE subs[t]
    BY <1>3, <2>1
  <2> QED BY <1>3, <1>4, <2>1, <2>2 DEF EventTypeOK
<1>6. CASE ~(subs[s].retries + 1 > MaxRetries)
  <2>1. subOf' = [subs EXCEPT ![s] = tried] /\ pollTimer' = Armed(s, "start")
        /\ orphans' = Orphaned(handle, cleared)
    BY <1>6 DEF Reconnect, tried
  <2>2. subOf' \in [Sub -> SubType] /\ \A t \in Sub : subOf'[t] = IF t = s THEN tried ELSE subs[t]
    BY <1>1, <2>1
  <2>3. pollTimer' \in TimerType /\ pollTimer'.kind = "start"
    BY <2>1 DEF Armed, TimerType, TimerKind
  <2>4. /\ orphans' \in [Sub -> [TimerKind -> Nat]]
        /\ \A t \in Sub : orphans'[t]["poll"] > 0 => PollArmed(t, handle, orphans[t])
    BY <2>1, OrphansKept
  <2>5. \A t \in Sub : PollArmed(t, pollTimer', orphans'[t]) => PollArmed(t, handle, orphans[t])
    BY <2>3, <2>4 DEF PollArmed
  <2> QED BY <1>1, <1>4, <2>2, <2>3, <2>4, <2>5
<1> QED BY <1>5, <1>6

-----------------------------------------------------------------------------
(* The steps of a subscription *)

\* What is known of every subscription.
SubFacts(t) ==
    /\ subOf[t] \in SubType /\ heardBy[t] \in Seq(Nat) /\ missed[t] \in SUBSET Nat
    /\ SubInOrder(t, subOf[t], asking[t], heardBy[t], missed[t], pollTimer, orphans[t],
                  eventWs, emitted, eventFaults)
    /\ subOf[t].socket # "none" => eventWs = t /\ BySocket(subOf[t])
LEMMA AllSubs ==
  ASSUME EventsInOrder
  PROVE  EventTypeOK /\ \A t \in Sub : SubFacts(t)
  BY DEF EventsInOrder, EventTypeOK, SubFacts, SubInOrder

LEMMA StartSubStep ==
  ASSUME EventsInOrder, NEW s \in Sub, NEW subs \in [Sub -> SubType],
         \A t \in Sub : Alike(subs[t], subOf[t]),
         StartSub(s, subs), orphans' \in [Sub -> [TimerKind -> Nat]],
         \A t \in Sub : orphans'[t]["poll"] > 0 => orphans[t]["poll"] > 0,
         UNCHANGED <<emitted, heardBy, missed, eventFaults>>
  PROVE  EventsInOrder'
<1>1. EventTypeOK /\ \A t \in Sub : SubFacts(t)
  BY AllSubs
<1>2. \A t \in Sub : subs[t].socket # "none" => eventWs = t
  BY <1>1 DEF SubFacts, Alike
<1> DEFINE cleaned == Cleaned(subs)
<1>3. /\ cleaned \in [Sub -> SubType]
      /\ \A t \in Sub : /\ Goes(cleaned[t], subs[t]) /\ cleaned[t].socket = "none"
                        /\ cleaned[t].useSocket = subs[t].useSocket
  BY <1>1, <1>2, CleanedSubs
<1>4. \A t \in Sub : Goes(cleaned[t], subOf[t]) /\ cleaned[t].useSocket = subOf[t].useSocket
  BY <1>3 DEF Goes, Alike
<1>5. pollTimer' = NoTimer /\ NoTimer \in TimerType
  BY DEF StartSub, cleanup, NoTimer, TimerType, TimerKind
<1>6. \A t \in Sub : PollArmed(t, pollTimer', orphans'[t]) => PollArmed(t, pollTimer, orphans[t])
  BY <1>5, NoTimerPolls DEF PollArmed
<1>7. emitted <= emitted' /\ eventFaults <= eventFaults'
  BY <1>1 DEF EventTypeOK
<1>8. CASE HasSocket /\ subs[s].useSocket
  <2> DEFINE half == [cleaned[s] EXCEPT !.socket = "opening"]
             next == [half EXCEPT !.giveUp = TRUE]
  <2>1. half \in SubType /\ half.cursor = cleaned[s].cursor /\ half.seen = cleaned[s].seen
        /\ half.useSocket = cleaned[s].useSocket
    BY <1>3 DEF SubType
  <2>2. subOf' = [cleaned EXCEPT ![s].socket = "opening", ![s].giveUp = TRUE] /\ eventWs' = s
        /\ asking' = asking
    BY <1>8 DEF StartSub
  <2> HIDE DEF cleaned
  <2>3. subOf' = [cleaned EXCEPT ![s] = next]
    BY <1>3, <2>2
  <2> HIDE DEF half
  <2>4. next \in SubType /\ next.cursor = cleaned[s].cursor /\ next.seen = cleaned[s].seen
        /\ next.useSocket = cleaned[s].useSocket
    BY <2>1 DEF SubType
  <2> HIDE DEF next
  <2>5. subOf' \in [Sub -> SubType] /\ \A t \in Sub : subOf'[t] = IF t = s THEN next ELSE cleaned[t]
    BY <1>3, <2>3, <2>4
  <2>6. EventTypeOK'
    BY <1>1, <1>5, <2>2, <2>5 DEF EventTypeOK
  <2>7. ASSUME NEW t \in Sub
        PROVE  Quiet_(t)
    <3>1. Goes(subOf'[t], subOf[t])
      BY <1>4, <2>4, <2>5 DEF Goes
    <3>2. subOf'[t].socket # "none" => eventWs' = t /\ BySocket(subOf'[t])
      BY <1>3, <1>8, <2>2, <2>4, <2>5 DEF BySocket
    <3> QED BY <1>6, <2>2, <3>1, <3>2 DEF Quiet_
  <2> QED BY <1>7, <2>6, <2>7, QuietEvents
<1>9. CASE ~(HasSocket /\ subs[s].useSocket)
  <2>1. subOf' = cleaned /\ eventWs' = Nobody
    BY <1>9 DEF StartSub
  <2>2. PICK q \in Request : Asked(s, q, subs[s].cursor)
    BY <1>9 DEF StartSub, Free, Asked
  <2> HIDE DEF cleaned
  <2>3. subs[s].cursor \in Nat \cup {NoFetch}
    BY DEF SubType
  <2>4. /\ asking' \in [Sub -> [Request -> Nat \cup {NoFetch}]]
        /\ \A t \in Sub, r \in Request :
              asking'[t][r] = asking[t][r] \/ (t = s /\ asking'[t][r] = subs[s].cursor)
    <3> DEFINE x == subs[s].cursor
    <3>1. x \in Nat \cup {NoFetch} /\ Asked(s, q, x)
      BY <2>2, <2>3
    <3> HIDE DEF x
    <3>2. /\ asking' \in [Sub -> [Request -> Nat \cup {NoFetch}]]
          /\ \A t \in Sub, r \in Request :
                asking'[t][r] = asking[t][r] \/ (t = s /\ asking'[t][r] = x)
      BY <1>1, <3>1, Asks
    <3> QED BY <3>2 DEF x
  <2>5. EventTypeOK'
    BY <1>1, <1>3, <1>5, <2>1, <2>4 DEF EventTypeOK
  <2>6. ~BySocket(cleaned[s]) /\ cleaned[s].cursor = subs[s].cursor
    BY <1>3, <1>9 DEF BySocket, Goes
  <2>7. ASSUME NEW t \in Sub
        PROVE  Quiet_(t)
    BY <1>3, <1>4, <1>6, <2>1, <2>4, <2>6 DEF Quiet_
  <2> QED BY <1>7, <2>5, <2>7, QuietEvents
<1> QED BY <1>8, <1>9

LEMMA SubscribeStep ==
  ASSUME EventsInOrder, NEW s \in Sub, subscribeToEvents(s) \/ Unsubscribe(s)
  PROVE  EventsInOrder'
<1>1. EventTypeOK /\ \A t \in Sub : SubFacts(t)
  BY AllSubs
<1>2. ASSUME NEW state \in SubState
      PROVE  /\ [subOf EXCEPT ![s].state = state] \in [Sub -> SubType]
             /\ \A t \in Sub : Alike([subOf EXCEPT ![s].state = state][t], subOf[t])
  <2> DEFINE next == [subOf[s] EXCEPT !.state = state]
  <2>1. next \in SubType /\ Alike(next, subOf[s])
    BY <1>1 DEF SubFacts, SubType, Alike
  <2>2. \A t \in Sub : Alike(subOf[t], subOf[t])
    BY <1>1 DEF SubFacts, Alike
  <2> HIDE DEF next
  <2>3. subOf \in [Sub -> SubType]
    BY <1>1 DEF EventTypeOK
  <2>4. /\ [subOf EXCEPT ![s] = next] \in [Sub -> SubType]
        /\ \A t \in Sub : Alike([subOf EXCEPT ![s] = next][t], subOf[t])
    BY <2>1, <2>2, <2>3
  <2> QED BY <2>4 DEF next
<1>3. CASE subscribeToEvents(s)
  <2> DEFINE subs == [subOf EXCEPT ![s].state = "active"]
  <2>1. "active" \in SubState
    BY DEF SubState
  <2>2. subs \in [Sub -> SubType] /\ \A t \in Sub : Alike(subs[t], subOf[t])
    BY <1>2, <2>1
  <2>3. StartSub(s, subs) /\ UNCHANGED <<emitted, heardBy, missed, orphans, eventFaults>>
    BY <1>3 DEF subscribeToEvents
  <2>4. orphans' \in [Sub -> [TimerKind -> Nat]]
        /\ \A t \in Sub : orphans'[t]["poll"] > 0 => orphans[t]["poll"] > 0
    BY <1>1, <2>3 DEF EventTypeOK
  <2> HIDE DEF subs
  <2> QED BY <2>2, <2>3, <2>4, StartSubStep
<1>4. CASE Unsubscribe(s)
  <2> DEFINE subs == [subOf EXCEPT ![s].state = "closed"]
  <2>1. "closed" \in SubState
    BY DEF SubState
  <2>2. subs \in [Sub -> SubType] /\ \A t \in Sub : Alike(subs[t], subOf[t])
    BY <1>2, <2>1
  <2>3. /\ subOf' = Cleaned(subs) /\ pollTimer' = NoTimer /\ eventWs' = Nobody
        /\ UNCHANGED <<emitted, asking, heardBy, missed, orphans, eventFaults>>
    BY <1>4 DEF Unsubscribe, cleanup
  <2> HIDE DEF subs
  <2>4. \A t \in Sub : subs[t].socket # "none" => eventWs = t
    BY <1>1, <2>2 DEF SubFacts, Alike
  <2>5. /\ subOf' \in [Sub -> SubType]
        /\ \A t \in Sub : Goes(subOf'[t], subs[t]) /\ subOf'[t].socket = "none"
    BY <1>1, <2>2, <2>3, <2>4, CleanedSubs
  <2>6. NoTimer \in TimerType
    BY DEF NoTimer, TimerType, TimerKind
  <2>7. EventTypeOK'
    BY <1>1, <2>3, <2>5, <2>6 DEF EventTypeOK
  <2>8. ASSUME NEW t \in Sub
        PROVE  Quiet_(t)
    <3>1. Goes(subOf'[t], subOf[t])
      BY <2>2, <2>5 DEF Goes, Alike
    <3>2. PollArmed(t, pollTimer', orphans'[t]) => PollArmed(t, pollTimer, orphans[t])
      BY <2>3, NoTimerPolls DEF PollArmed
    <3> QED BY <2>3, <2>5, <3>1, <3>2 DEF Quiet_
  <2>9. emitted <= emitted' /\ eventFaults <= eventFaults' /\ UNCHANGED <<heardBy, missed>>
    BY <1>1, <2>3 DEF EventTypeOK
  <2> QED BY <2>7, <2>8, <2>9, QuietEvents
<1> QED BY <1>3, <1>4

LEMMA EmitStep ==
  ASSUME EventsInOrder, EmitEvent
  PROVE  EventsInOrder'
<1>1. EventTypeOK /\ \A t \in Sub : SubFacts(t)
  BY AllSubs
<1>2. MaxEmitted \in Nat
  BY EventsAssumption
<1>3. EventTypeOK' /\ emitted <= emitted' /\ eventFaults <= eventFaults' /\ UNCHANGED <<heardBy, missed>>
  BY <1>1, <1>2 DEF EmitEvent, EventTypeOK
<1>4. ASSUME NEW t \in Sub
      PROVE  Quiet_(t)
  BY <1>1 DEF EmitEvent, Quiet_, SubFacts, Goes
<1> QED BY <1>3, <1>4, QuietEvents

LEMMA FailStep ==
  ASSUME EventsInOrder, NEW s \in Sub, NEW q \in Request, FailEvents(s, q)
  PROVE  EventsInOrder'
<1>1. EventTypeOK /\ \A t \in Sub : SubFacts(t)
  BY AllSubs
<1>2. /\ Asked(s, q, NoFetch) /\ eventFaults' = eventFaults + 1
      /\ UNCHANGED <<emitted, heardBy, missed, eventWs>>
  BY DEF FailEvents, Asked
<1>3. /\ asking' \in [Sub -> [Request -> Nat \cup {NoFetch}]]
      /\ \A t \in Sub, r \in Request :
            asking'[t][r] = asking[t][r] \/ (t = s /\ asking'[t][r] = NoFetch)
  <2>1. NoFetch \in Nat \cup {NoFetch}
    OBVIOUS
  <2> QED BY <1>1, <1>2, <2>1, Asks
<1>4. /\ subOf' \in [Sub -> SubType] /\ \A t \in Sub : Alike(subOf'[t], subOf[t])
      /\ pollTimer' \in TimerType /\ orphans' \in [Sub -> [TimerKind -> Nat]]
      /\ \A t \in Sub : PollArmed(t, pollTimer', orphans'[t]) => PollArmed(t, pollTimer, orphans[t])
  <2>1. CASE UNCHANGED <<subOf, pollTimer, orphans>>
    BY <1>1, <2>1 DEF EventTypeOK, SubFacts, Alike
  <2>2. CASE Reconnect(s, subOf, pollTimer, FALSE)
    <3>1. subOf \in [Sub -> SubType] /\ pollTimer \in TimerType
      BY <1>1 DEF EventTypeOK
    <3> QED BY <1>1, <2>2, <3>1, ReconnectEffect
  <2> QED BY <2>1, <2>2 DEF FailEvents
<1>5. EventTypeOK' /\ emitted <= emitted' /\ eventFaults <= eventFaults' /\ UNCHANGED <<heardBy, missed>>
  BY <1>1, <1>2, <1>3, <1>4 DEF EventTypeOK
<1>6. ASSUME NEW t \in Sub
      PROVE  Quiet_(t)
  <2>1. Goes(subOf'[t], subOf[t])
    BY <1>4 DEF Goes, Alike
  <2>2. subOf'[t].socket # "none" => eventWs' = t /\ BySocket(subOf'[t])
    BY <1>1, <1>2, <1>4 DEF SubFacts, Alike, BySocket
  <2> QED BY <1>3, <1>4, <2>1, <2>2 DEF Quiet_
<1> QED BY <1>5, <1>6, QuietEvents

-----------------------------------------------------------------------------
(* Timers that fire *)

LEMMA FiredTimer ==
  ASSUME EventTypeOK, NEW s \in Sub, NEW kind_ \in TimerKind, NEW held \in BOOLEAN,
         Fires(s, kind_, held, pollTimer)
  PROVE  /\ orphans' \in [Sub -> [TimerKind -> Nat]]
         /\ \A t \in Sub : orphans'[t]["poll"] > 0 => orphans[t]["poll"] > 0
         /\ kind_ = "poll" => PollArmed(s, pollTimer, orphans[s])
         /\ Spent(pollTimer, held) \in TimerType
         /\ \A t \in Sub : PollArmed(t, Spent(pollTimer, held), orphans'[t])
               => PollArmed(t, pollTimer, orphans[t])
<1>1. orphans \in [Sub -> [TimerKind -> Nat]] /\ pollTimer \in TimerType
  BY DEF EventTypeOK
<1>2. CASE held
  <2>1. orphans' = orphans /\ pollTimer = Armed(s, kind_)
    BY <1>2 DEF Fires
  <2>2. kind_ = "poll" => PollArmed(s, pollTimer, orphans[s])
    BY <2>1 DEF PollArmed, Armed
  <2> DEFINE spent == [pollTimer EXCEPT !.armed = FALSE]
  <2>3. spent \in TimerType /\ ~spent.armed /\ Spent(pollTimer, held) = spent
    BY <1>1, <1>2 DEF TimerType, Spent
  <2> HIDE DEF spent
  <2> QED BY <1>1, <2>1, <2>2, <2>3 DEF PollArmed
<1>3. CASE ~held
  <2>1. orphans[s][kind_] > 0 /\ orphans' = [orphans EXCEPT ![s][kind_] = @ - 1]
        /\ Spent(pollTimer, held) = pollTimer
    BY <1>3 DEF Fires, Spent
  <2> DEFINE next == [orphans[s] EXCEPT ![kind_] = @ - 1]
  <2>2. orphans' = [orphans EXCEPT ![s] = next] /\ "poll" \in TimerKind
    BY <2>1 DEF TimerKind
  <2>3. next \in [TimerKind -> Nat] /\ (next["poll"] > 0 => orphans[s]["poll"] > 0)
    BY <1>1, <2>1, <2>2
  <2> HIDE DEF next
  <2>4. orphans' \in [Sub -> [TimerKind -> Nat]]
        /\ \A t \in Sub : orphans'[t]["poll"] > 0 => orphans[t]["poll"] > 0
    BY <1>1, <2>2, <2>3
  <2> QED BY <1>1, <2>1, <2>4 DEF PollArmed
<1> QED BY <1>2, <1>3

LEMMA TimerStep ==
  ASSUME EventsInOrder, NEW s \in Sub, NEW held \in BOOLEAN, FireStart(s, held) \/ FirePoll(s, held)
  PROVE  EventsInOrder'
<1>1. EventTypeOK /\ \A t \in Sub : SubFacts(t)
  BY AllSubs
<1>2. "start" \in TimerKind /\ "poll" \in TimerKind
  BY DEF TimerKind
<1>3. CASE FireStart(s, held)
  <2>1. Fires(s, "start", held, pollTimer) /\ UNCHANGED <<emitted, heardBy, missed, eventFaults>>
    BY <1>3 DEF FireStart
  <2>2. /\ orphans' \in [Sub -> [TimerKind -> Nat]]
        /\ \A t \in Sub : orphans'[t]["poll"] > 0 => orphans[t]["poll"] > 0
        /\ Spent(pollTimer, held) \in TimerType
        /\ \A t \in Sub : PollArmed(t, Spent(pollTimer, held), orphans'[t])
              => PollArmed(t, pollTimer, orphans[t])
    BY <1>1, <1>2, <2>1, FiredTimer
  <2>3. CASE StartSub(s, subOf)
    <3>1. subOf \in [Sub -> SubType] /\ \A t \in Sub : Alike(subOf[t], subOf[t])
      BY <1>1 DEF EventTypeOK, SubFacts, Alike
    <3> QED BY <2>1, <2>2, <2>3, <3>1, StartSubStep
  <2>4. CASE pollTimer' = Spent(pollTimer, held) /\ UNCHANGED <<subOf, asking, eventWs>>
    <3>1. EventTypeOK' /\ emitted <= emitted' /\ eventFaults <= eventFaults' /\ UNCHANGED <<heardBy, missed>>
      BY <1>1, <2>1, <2>2, <2>4 DEF EventTypeOK
    <3>2. ASSUME NEW t \in Sub
          PROVE  Quiet_(t)
      BY <1>1, <2>2, <2>4 DEF Quiet_, SubFacts, Goes
    <3> QED BY <3>1, <3>2, QuietEvents
  <2> QED BY <1>3, <2>3, <2>4 DEF FireStart
<1>4. CASE FirePoll(s, held)
  <2>1. /\ Fires(s, "poll", held, pollTimer) /\ pollTimer' = Spent(pollTimer, held)
        /\ UNCHANGED <<emitted, subOf, heardBy, missed, eventWs, eventFaults>>
    BY <1>4 DEF FirePoll
  <2>2. /\ orphans' \in [Sub -> [TimerKind -> Nat]]
        /\ PollArmed(s, pollTimer, orphans[s])
        /\ pollTimer' \in TimerType
        /\ \A t \in Sub : PollArmed(t, pollTimer', orphans'[t]) => PollArmed(t, pollTimer, orphans[t])
    BY <1>1, <1>2, <2>1, FiredTimer
  <2>3. ~BySocket(subOf[s]) /\ subOf[s].cursor \in Nat \cup {NoFetch}
    BY <1>1, <2>2 DEF SubFacts, SubInOrder, SubType
  <2>4. /\ asking' \in [Sub -> [Request -> Nat \cup {NoFetch}]]
        /\ \A t \in Sub, r \in Request :
              asking'[t][r] = asking[t][r] \/ (t = s /\ asking'[t][r] = subOf[s].cursor)
    <3>1. CASE asking' = asking
      BY <1>1, <3>1 DEF EventTypeOK
    <3>2. ASSUME NEW q \in Request, Asked(s, q, subOf[s].cursor)
          PROVE  /\ asking' \in [Sub -> [Request -> Nat \cup {NoFetch}]]
                 /\ \A t \in Sub, r \in Request :
                       asking'[t][r] = asking[t][r] \/ (t = s /\ asking'[t][r] = subOf[s].cursor)
      <4> DEFINE x == subOf[s].cursor
      <4>1. x \in Nat \cup {NoFetch} /\ Asked(s, q, x)
        BY <2>3, <3>2
      <4> HIDE DEF x
      <4>2. /\ asking' \in [Sub -> [Request -> Nat \cup {NoFetch}]]
            /\ \A t \in Sub, r \in Request :
                  asking'[t][r] = asking[t][r] \/ (t = s /\ asking'[t][r] = x)
        BY <1>1, <4>1, Asks
      <4> QED BY <4>2 DEF x
    <3> QED BY <1>4, <3>1, <3>2 DEF FirePoll, Free, Asked
  <2>5. EventTypeOK' /\ emitted <= emitted' /\ eventFaults <= eventFaults' /\ UNCHANGED <<heardBy, missed>>
    BY <1>1, <2>1, <2>2, <2>4 DEF EventTypeOK
  <2>6. ASSUME NEW t \in Sub
        PROVE  Quiet_(t)
    BY <1>1, <2>1, <2>2, <2>3, <2>4 DEF Quiet_, SubFacts, Goes
  <2> QED BY <2>5, <2>6, QuietEvents
<1> QED BY <1>3, <1>4

LEMMA HeartbeatStep ==
  ASSUME EventsInOrder, NEW s \in Sub, FireHeartbeat(s)
  PROVE  EventsInOrder'
<1>1. EventTypeOK /\ \A t \in Sub : SubFacts(t)
  BY AllSubs
<1>2. UNCHANGED <<emitted, asking, heardBy, missed>>
  BY DEF FireHeartbeat
<1>3. CASE UNCHANGED <<subOf, pollTimer, orphans, eventWs, eventFaults>>
  <2>1. EventTypeOK' /\ emitted <= emitted' /\ eventFaults <= eventFaults' /\ UNCHANGED <<heardBy, missed>>
    BY <1>1, <1>2, <1>3 DEF EventTypeOK
  <2>2. ASSUME NEW t \in Sub
        PROVE  Quiet_(t)
    BY <1>1, <1>2, <1>3 DEF Quiet_, SubFacts, Goes
  <2> QED BY <2>1, <2>2, QuietEvents
<1>4. CASE /\ eventFaults' = eventFaults + 1 /\ eventWs' = Nobody
           /\ Reconnect(s, Cleaned(subOf), NoTimer, TRUE)
  <2> DEFINE cleaned == Cleaned(subOf)
  <2>1. subOf \in [Sub -> SubType] /\ \A t \in Sub : subOf[t].socket # "none" => eventWs = t
    BY <1>1 DEF EventTypeOK, SubFacts
  <2>2. /\ cleaned \in [Sub -> SubType]
        /\ \A t \in Sub : Goes(cleaned[t], subOf[t]) /\ cleaned[t].socket = "none"
    BY <1>1, <2>1, CleanedSubs
  <2>3. NoTimer \in TimerType
    BY DEF NoTimer, TimerType, TimerKind
  <2> HIDE DEF cleaned
  <2>4. /\ subOf' \in [Sub -> SubType] /\ \A t \in Sub : Alike(subOf'[t], cleaned[t])
        /\ pollTimer' \in TimerType /\ orphans' \in [Sub -> [TimerKind -> Nat]]
        /\ \A t \in Sub : PollArmed(t, pollTimer', orphans'[t]) => PollArmed(t, NoTimer, orphans[t])
    BY <1>1, <1>4, <2>2, <2>3, ReconnectEffect DEF cleaned
  <2>5. EventTypeOK' /\ emitted <= emitted' /\ eventFaults <= eventFaults' /\ UNCHANGED <<heardBy, missed>>
    BY <1>1, <1>2, <1>4, <2>4 DEF EventTypeOK
  <2>6. ASSUME NEW t \in Sub
        PROVE  Quiet_(t)
    <3>1. Goes(subOf'[t], subOf[t]) /\ subOf'[t].socket = "none"
      BY <2>2, <2>4 DEF Goes, Alike
    <3>2. PollArmed(t, pollTimer', orphans'[t]) => PollArmed(t, pollTimer, orphans[t])
      BY <2>4, NoTimerPolls DEF PollArmed
    <3> QED BY <1>2, <3>1, <3>2 DEF Quiet_
  <2> QED BY <2>5, <2>6, QuietEvents
<1> QED BY <1>3, <1>4 DEF FireHeartbeat

-----------------------------------------------------------------------------
(* Sockets *)

LEMMA AsksFrom ==
  ASSUME EventTypeOK, NEW s \in Sub, NEW x \in Nat,
         \E q \in Free(s) : asking' = [asking EXCEPT ![s][q] = x]
  PROVE  /\ asking' \in [Sub -> [Request -> Nat \cup {NoFetch}]]
         /\ \A t \in Sub, r \in Request :
               asking'[t][r] = asking[t][r] \/ (t = s /\ asking'[t][r] = x)
<1>1. PICK q \in Request : Asked(s, q, x)
  BY DEF Free, Asked
<1>2. x \in Nat \cup {NoFetch}
  OBVIOUS
<1> QED BY <1>1, <1>2, Asks

LEMMA SocketStep ==
  ASSUME EventsInOrder, NEW s \in Sub, OpenSocket(s) \/ SocketFails(s) \/ GiveUpSocket(s)
  PROVE  EventsInOrder'
<1>1. EventTypeOK /\ (\A t \in Sub : SubFacts(t)) /\ subOf \in [Sub -> SubType]
  BY AllSubs DEF EventTypeOK
<1> DEFINE sub == subOf[s]
<1>2. sub \in SubType /\ sub.cursor \in Nat
  BY <1>1 DEF SubType
<1>3. CASE OpenSocket(s)
  <2> DEFINE half == [sub EXCEPT !.socket = "open"]
             next == [half EXCEPT !.giveUp = FALSE]
  <2>1. half \in SubType /\ half.cursor = sub.cursor /\ half.seen = sub.seen
        /\ half.useSocket = sub.useSocket
    BY <1>2 DEF SubType
  <2>2. subOf' = [subOf EXCEPT ![s] = next] /\ sub.socket = "opening"
        /\ UNCHANGED <<emitted, asking, heardBy, missed, pollTimer, orphans, eventWs, eventFaults>>
    BY <1>1, <1>3 DEF OpenSocket
  <2> HIDE DEF half
  <2>3. next \in SubType /\ next.cursor = sub.cursor /\ next.seen = sub.seen
        /\ next.useSocket = sub.useSocket
    BY <2>1 DEF SubType
  <2> HIDE DEF next
  <2>4. subOf' \in [Sub -> SubType] /\ \A t \in Sub : subOf'[t] = IF t = s THEN next ELSE subOf[t]
    BY <1>1, <2>2, <2>3
  <2>5. EventTypeOK' /\ emitted <= emitted' /\ eventFaults <= eventFaults' /\ UNCHANGED <<heardBy, missed>>
    BY <1>1, <2>2, <2>4 DEF EventTypeOK
  <2>6. ASSUME NEW t \in Sub
        PROVE  Quiet_(t)
    <3>1. Goes(subOf'[t], subOf[t])
      BY <1>1, <2>3, <2>4 DEF Goes
    <3>2. subOf'[t].socket # "none" => eventWs' = t /\ BySocket(subOf'[t])
      BY <1>1, <2>2, <2>3, <2>4 DEF SubFacts, BySocket
    <3> QED BY <2>2, <3>1, <3>2 DEF Quiet_
  <2> QED BY <2>5, <2>6, QuietEvents
<1>4. CASE SocketFails(s)
  <2> DEFINE half == [sub EXCEPT !.socket = "none"]
             quiet == [half EXCEPT !.giveUp = FALSE]
             next == [quiet EXCEPT !.useSocket = FALSE]
  <2>1. half \in SubType /\ half.cursor = sub.cursor /\ half.seen = sub.seen /\ half.socket = "none"
    BY <1>2 DEF SubType
  <2>2. subOf' = [subOf EXCEPT ![s] = next] /\ sub.socket # "none" /\ eventWs' = Nobody
        /\ UNCHANGED <<emitted, heardBy, missed, pollTimer, orphans, eventFaults>>
    BY <1>1, <1>4 DEF SocketFails
  <2> HIDE DEF half
  <2>3. quiet \in SubType /\ quiet.cursor = sub.cursor /\ quiet.seen = sub.seen /\ quiet.socket = "none"
    BY <2>1 DEF SubType
  <2> HIDE DEF quiet
  <2>4. next \in SubType /\ next.cursor = sub.cursor /\ next.seen = sub.seen /\ next.socket = "none"
        /\ next.useSocket = FALSE
    BY <2>3 DEF SubType
  <2> HIDE DEF next
  <2>5. subOf' \in [Sub -> SubType] /\ \A t \in Sub : subOf'[t] = IF t = s THEN next ELSE subOf[t]
    BY <1>1, <2>2, <2>4
  <2>6. /\ asking' \in [Sub -> [Request -> Nat \cup {NoFetch}]]
        /\ \A t \in Sub, r \in Request :
              asking'[t][r] = asking[t][r] \/ (t = s /\ asking'[t][r] = sub.cursor)
    <3>1. \E q \in Free(s) : asking' = [asking EXCEPT ![s][q] = sub.cursor]
      BY <1>4 DEF SocketFails
    <3>2. sub.cursor \in Nat /\ EventTypeOK
      BY <1>1, <1>2
    <3> HIDE DEF sub
    <3> QED BY ONLY s \in Sub, <3>1, <3>2, AsksFrom
  <2>7. EventTypeOK' /\ emitted <= emitted' /\ eventFaults <= eventFaults' /\ UNCHANGED <<heardBy, missed>>
    BY <1>1, <2>2, <2>5, <2>6 DEF EventTypeOK
  <2>8. ASSUME NEW t \in Sub
        PROVE  Quiet_(t)
    <3>1. Goes(subOf'[t], subOf[t])
      BY <1>1, <2>4, <2>5 DEF Goes
    <3>2. subOf'[t].socket = "none"
      BY <1>1, <2>2, <2>4, <2>5 DEF SubFacts
    <3>3. ~BySocket(next)
      BY <2>4 DEF BySocket
    <3> QED BY <2>2, <2>4, <2>5, <2>6, <3>1, <3>2, <3>3 DEF Quiet_
  <2> QED BY <2>7, <2>8, QuietEvents
<1>5. CASE GiveUpSocket(s) /\ ActiveSub(s)
  <2> DEFINE half == [sub EXCEPT !.giveUp = FALSE]
             next == [half EXCEPT !.useSocket = FALSE]
             subs == [subOf EXCEPT ![s] = next]
  <2>1. half \in SubType /\ half.cursor = sub.cursor /\ half.seen = sub.seen /\ half.socket = sub.socket
    BY <1>2 DEF SubType
  <2>2. /\ [subOf EXCEPT ![s].giveUp = FALSE, ![s].useSocket = FALSE] = subs
        /\ UNCHANGED <<emitted, heardBy, missed, orphans, eventFaults>>
        /\ pollTimer' = NoTimer /\ eventWs' = Nobody
    BY <1>1, <1>5 DEF GiveUpSocket, cleanup
  <2> HIDE DEF half
  <2>3. next \in SubType /\ next.cursor = sub.cursor /\ next.seen = sub.seen
        /\ next.socket = sub.socket /\ next.useSocket = FALSE
    BY <2>1 DEF SubType
  <2>a. subOf' = Cleaned(subs)
    BY <1>5, <2>2 DEF GiveUpSocket
  <2> HIDE DEF next
  <2>4. subs \in [Sub -> SubType] /\ \A t \in Sub : subs[t] = IF t = s THEN next ELSE subOf[t]
    BY <1>1, <2>3
  <2> HIDE DEF subs
  <2>5. \A t \in Sub : subs[t].socket # "none" => eventWs = t
    BY <1>1, <2>3, <2>4 DEF SubFacts
  <2>6. /\ subOf' \in [Sub -> SubType]
        /\ \A t \in Sub : /\ Goes(subOf'[t], subs[t]) /\ subOf'[t].socket = "none"
                          /\ subOf'[t].useSocket = subs[t].useSocket
    BY <1>1, <2>4, <2>5, <2>a, CleanedSubs
  <2>7. /\ asking' \in [Sub -> [Request -> Nat \cup {NoFetch}]]
        /\ \A t \in Sub, r \in Request :
              asking'[t][r] = asking[t][r] \/ (t = s /\ asking'[t][r] = sub.cursor)
    BY <1>1, <1>2, <1>5, AsksFrom DEF GiveUpSocket
  <2>8. NoTimer \in TimerType
    BY DEF NoTimer, TimerType, TimerKind
  <2>b. /\ UNCHANGED <<emitted, heardBy, missed, orphans, eventFaults>>
        /\ pollTimer' \in TimerType /\ eventWs' = Nobody
    BY <2>2, <2>8
  <2>c. EventTypeOK /\ subOf' \in [Sub -> SubType]
        /\ asking' \in [Sub -> [Request -> Nat \cup {NoFetch}]]
    BY <1>1, <2>6, <2>7
  <2>9. EventTypeOK' /\ emitted <= emitted' /\ eventFaults <= eventFaults' /\ UNCHANGED <<heardBy, missed>>
    BY ONLY <2>b, <2>c DEF EventTypeOK
  <2>10. ASSUME NEW t \in Sub
         PROVE  Quiet_(t)
    <3>1. Goes(subOf'[t], subOf[t])
      BY <1>1, <2>3, <2>4, <2>6 DEF Goes
    <3>2. t = s => ~BySocket(subOf'[t]) /\ subOf'[t].cursor = sub.cursor
      BY <2>3, <2>4, <2>6 DEF BySocket, Goes
    <3>3. PollArmed(t, pollTimer', orphans'[t]) => PollArmed(t, pollTimer, orphans[t])
      BY <2>2, NoTimerPolls DEF PollArmed
    <3> QED BY <2>6, <2>7, <3>1, <3>2, <3>3 DEF Quiet_
  <2> QED BY <2>9, <2>10, QuietEvents
<1>6. CASE GiveUpSocket(s) /\ ~ActiveSub(s)
  <2> DEFINE next == [sub EXCEPT !.giveUp = FALSE]
  <2>1. next \in SubType /\ Alike(next, sub)
    BY <1>2 DEF SubType, Alike
  <2>2. subOf' = [subOf EXCEPT ![s] = next]
        /\ UNCHANGED <<emitted, asking, heardBy, missed, pollTimer, orphans, eventWs, eventFaults>>
    BY <1>6 DEF GiveUpSocket
  <2> HIDE DEF next
  <2>3. subOf' \in [Sub -> SubType] /\ \A t \in Sub : subOf'[t] = IF t = s THEN next ELSE subOf[t]
    BY <1>1, <2>1, <2>2
  <2>4. EventTypeOK' /\ emitted <= emitted' /\ eventFaults <= eventFaults' /\ UNCHANGED <<heardBy, missed>>
    BY <1>1, <2>2, <2>3 DEF EventTypeOK
  <2>5. ASSUME NEW t \in Sub
        PROVE  Quiet_(t)
    <3>1. Alike(subOf'[t], subOf[t])
      BY <1>1, <2>1, <2>3 DEF Alike
    <3>2. Goes(subOf'[t], subOf[t])
      BY <3>1 DEF Goes, Alike
    <3>3. subOf'[t].socket # "none" => eventWs' = t /\ BySocket(subOf'[t])
      BY <1>1, <2>2, <3>1 DEF SubFacts, BySocket, Alike
    <3> QED BY <2>2, <3>2, <3>3 DEF Quiet_
  <2> QED BY <2>4, <2>5, QuietEvents
<1> QED BY <1>3, <1>4, <1>5, <1>6

-----------------------------------------------------------------------------
(* Events that come *)

LEMMA MinOfTwo ==
  ASSUME NEW a \in Nat, NEW b \in Nat
  PROVE  Min({a, b}) = IF a <= b THEN a ELSE b
<1> DEFINE S == {a, b}
           m == IF a <= b THEN a ELSE b
<1>1. m \in S /\ \A y \in S : m <= y
  OBVIOUS
<1>2. \A x \in S : (\A y \in S : x <= y) => x = m
  BY <1>1
<1> HIDE DEF S, m
<1>3. Min(S) \in S /\ \A y \in S : Min(S) <= y
  BY <1>1 DEF Min
<1>4. Min(S) = m
  BY <1>2, <1>3
<1> QED BY <1>4 DEF S, m

\* What the callback gets of a page, and what it is not called with.
Given(new, thrown) == {e \in new : e < thrown}
NotGiven(new, thrown) == {e \in new : e >= thrown}
NewOnes(new, cursor, top) == cursor <= top /\ new = cursor + 1 .. top
\* What a page brings that was not seen goes on where the cursor stands.
Unseen(a, seen) == EventPage(a) \ seen
SeenSince(a, cursor, seen) ==
    a <= cursor /\ cursor <= emitted /\ a + 1 .. cursor \subseteq seen /\ seen \subseteq 1..cursor
LEMMA NewEvents ==
  ASSUME EventTypeOK, NEW a \in Nat, NEW cursor \in Nat, NEW seen, SeenSince(a, cursor, seen)
  PROVE  \E top \in Nat : top <= emitted /\ NewOnes(Unseen(a, seen), cursor, top)
<1>0. a <= cursor /\ cursor <= emitted /\ a + 1 .. cursor \subseteq seen /\ seen \subseteq 1..cursor
  BY DEF SeenSince
<1>1. emitted \in Nat /\ PageLimit \in Nat
  BY EventsAssumption DEF EventTypeOK
<1>2. a + PageLimit \in Nat
  BY <1>1
<1> DEFINE last == IF a + PageLimit <= emitted THEN a + PageLimit ELSE emitted
           top == IF last > cursor THEN last ELSE cursor
<1>3. EventPage(a) = a + 1 .. last
  BY <1>1, <1>2, MinOfTwo DEF EventPage
<1>4. last \in Nat /\ last <= emitted /\ top \in Nat /\ cursor <= top /\ top <= emitted /\ last <= top
  BY <1>0, <1>1, <1>2
<1>5. (a + 1 .. last) \ seen = cursor + 1 .. top
  <2>1. ASSUME NEW e \in (a + 1 .. last) \ seen
        PROVE  e \in cursor + 1 .. top
    <3>1. e \notin a + 1 .. cursor
      BY <1>0, <2>1
    <3> QED BY <1>4, <3>1
  <2>2. ASSUME NEW e \in cursor + 1 .. top
        PROVE  e \in (a + 1 .. last) \ seen
    <3>1. e \notin 1..cursor
      OBVIOUS
    <3>2. e \notin seen
      BY <1>0, <3>1
    <3>3. e \in a + 1 .. last
      BY <1>0, <1>4
    <3> QED BY <3>2, <3>3
  <2> QED BY <2>1, <2>2
<1>6. Unseen(a, seen) = cursor + 1 .. top
  BY <1>3, <1>5 DEF Unseen
<1> HIDE DEF top, last
<1> QED BY <1>4, <1>6 DEF NewOnes

HeardNow(heard, new, thrown) == heard \o InOrder(Given(new, thrown))
LostNow(lost, new, thrown) == lost \cup NotGiven(new, thrown)
RowOf(cursor, heard, lost) == Ascending(heard) /\ 1..cursor = ToSet(heard) \cup lost
LEMMA DeliveredRow ==
  ASSUME NEW cursor \in Nat, NEW top \in Nat, NEW new, NewOnes(new, cursor, top), NEW thrown \in Nat,
         NEW heard \in Seq(Nat), NEW lost \in SUBSET Nat, RowOf(cursor, heard, lost)
  PROVE  /\ HeardNow(heard, new, thrown) \in Seq(Nat) /\ LostNow(lost, new, thrown) \in SUBSET Nat
         /\ RowOf(top, HeardNow(heard, new, thrown), LostNow(lost, new, thrown))
         /\ top < thrown => LostNow(lost, new, thrown) = lost
<1> DEFINE heard2 == HeardNow(heard, new, thrown)
           lost2 == LostNow(lost, new, thrown)
           cut == IF thrown > top THEN top ELSE IF thrown > cursor THEN thrown - 1 ELSE cursor
           heardNow == InOrder(cursor + 1 .. cut)
<1>1. cut \in Nat /\ cursor <= cut /\ cut <= top /\ cursor <= top
  BY DEF NewOnes
<1>2. Given(new, thrown) = cursor + 1 .. cut /\ NotGiven(new, thrown) = cut + 1 .. top
  BY DEF Given, NotGiven, NewOnes
<1> HIDE DEF cut
<1>3. heardNow \in Seq(Nat) /\ Ascending(heardNow) /\ ToSet(heardNow) = cursor + 1 .. cut
  BY <1>1, RowOfInterval
<1>4. heard2 = heard \o heardNow /\ lost2 = lost \cup (cut + 1 .. top)
  BY <1>2 DEF HeardNow, LostNow
<1> HIDE DEF heardNow, heard2, lost2
<1>5. UpTo(heard, cursor) /\ After_(heardNow, cursor)
  BY <1>3 DEF UpTo, After_, RowOf
<1>a. /\ heard \in Seq(Nat) /\ heardNow \in Seq(Nat) /\ cursor \in Nat
      /\ Ascending(heard) /\ Ascending(heardNow)
  BY <1>3 DEF RowOf
<1>b. /\ heard \o heardNow \in Seq(Nat) /\ Ascending(heard \o heardNow)
      /\ ToSet(heard \o heardNow) = ToSet(heard) \cup ToSet(heardNow)
  BY ONLY <1>5, <1>a, RowGoesOn
<1>6. heard2 \in Seq(Nat) /\ Ascending(heard2) /\ ToSet(heard2) = ToSet(heard) \cup (cursor + 1 .. cut)
  BY <1>3, <1>4, <1>b
<1>7. lost2 \in SUBSET Nat
  <2>1. cut + 1 .. top \subseteq Nat
    BY <1>1
  <2> QED BY <1>4, <2>1
<1>8. 1..top = (1..cursor) \cup (cursor + 1 .. cut) \cup (cut + 1 .. top)
  BY <1>1
<1>9. top < thrown => lost2 = lost
  BY <1>1, <1>4 DEF cut
<1>10. RowOf(top, heard2, lost2)
  <2>1. ToSet(heard2) \cup lost2 = ToSet(heard) \cup lost \cup (cursor + 1 .. cut) \cup (cut + 1 .. top)
    BY <1>4, <1>6
  <2>2. 1..cursor = ToSet(heard) \cup lost
    BY DEF RowOf
  <2> QED BY <1>6, <1>8, <2>1, <2>2 DEF RowOf
<1> QED BY <1>6, <1>7, <1>9, <1>10 DEF heard2, lost2

LEMMA DeliveredSub ==
  ASSUME NEW s \in Sub, NEW sub \in SubType, NEW asks, NEW heard, NEW lost, NEW handle, NEW loose_,
         NEW ws, NEW out \in Nat, NEW faults \in Nat,
         SubInOrder(s, sub, asks, heard, lost, handle, loose_, ws, out, faults),
         NEW sub2 \in SubType, sub.cursor <= sub2.cursor, sub2.cursor <= out, sub2.useSocket = sub.useSocket,
         sub2.socket = sub.socket,
         \/ sub2.seen = sub.seen \cup (sub.cursor + 1 .. sub2.cursor)
         \/ sub2.seen = sub.seen /\ BySocket(sub),
         NEW asks2, \A q \in Request : asks2[q] # NoFetch => asks2[q] \in Nat /\ asks2[q] = asks[q],
         NEW handle2, NEW loose2, PollArmed(s, handle2, loose2) => ~BySocket(sub),
         NEW faults2 \in Nat, faults <= faults2,
         NEW heard2, NEW lost2, RowOf(sub2.cursor, heard2, lost2),
         faults2 = 0 => lost2 = lost
  PROVE  SubInOrder(s, sub2, asks2, heard2, lost2, handle2, loose2, ws, out, faults2)
<1> DEFINE top == sub2.cursor
<1>1. sub.cursor \in Nat /\ top \in Nat /\ (BySocket(sub2) <=> BySocket(sub)) /\ sub.seen \subseteq 1..sub.cursor
  BY DEF SubType, BySocket, SubInOrder
<1>2. sub2.seen \subseteq 1..top
  BY <1>1
<1>3. ASSUME NEW q \in Request, asks2[q] # NoFetch
      PROVE  ~BySocket(sub2) /\ asks2[q] <= sub2.cursor /\ asks2[q] + 1 .. sub2.cursor \subseteq sub2.seen
  <2>1. /\ ~BySocket(sub) /\ asks2[q] <= sub.cursor /\ asks2[q] \in Nat
        /\ asks2[q] + 1 .. sub.cursor \subseteq sub.seen
    BY <1>3 DEF SubInOrder
  <2>2. sub2.seen = sub.seen \cup (sub.cursor + 1 .. sub2.cursor)
    BY <2>1
  <2>3. asks2[q] + 1 .. top \subseteq sub2.seen
    BY <1>1, <2>1, <2>2
  <2> QED BY <1>1, <2>1, <2>3
<1>4. faults2 = 0 => lost2 = {}
  BY DEF SubInOrder
<1> QED BY <1>1, <1>2, <1>3, <1>4 DEF SubInOrder, RowOf

CursorAt(subs, s, top, saw) ==
    /\ subs \in [Sub -> SubType] /\ \A t \in Sub \ {s} : subs[t] = subOf[t]
    /\ subs[s].cursor = top /\ subs[s].seen = subOf[s].seen \cup saw
    /\ subs[s].useSocket = subOf[s].useSocket /\ subs[s].socket = subOf[s].socket
    /\ subs[s].state = subOf[s].state
LEMMA CursorMoves ==
  ASSUME EventTypeOK, NEW s \in Sub, NEW saw \in SUBSET Nat, NEW top \in Nat,
         NEW new, NewOnes(new, subOf[s].cursor, top)
  PROVE  CursorAt(CursorAfter(s, new, saw), s, top, saw)
<1> DEFINE sub == subOf[s]
           seen == sub.seen \cup saw
           far == Max({sub.cursor} \cup new)
           half == [sub EXCEPT !.cursor = top]
           third == [half EXCEPT !.retries = 0]
           next == [third EXCEPT !.seen = seen]
<1>1. subOf \in [Sub -> SubType] /\ sub \in SubType
  BY DEF EventTypeOK
<1>2. sub.cursor \in Nat /\ sub.seen \in SUBSET Nat
  BY <1>1 DEF SubType
<1>3. far = top
  BY <1>2, MaxOfTwo DEF NewOnes
<1>4. new \in SUBSET Nat
  BY <1>2 DEF NewOnes
<1>5. seen \in SUBSET Nat
  BY <1>2, <1>4
<1>6. CursorAfter(s, new, saw) = [subOf EXCEPT ![s].cursor = far, ![s].retries = 0, ![s].seen = seen]
  BY <1>1 DEF CursorAfter
<1> HIDE DEF far, seen
<1>7. [subOf EXCEPT ![s].cursor = far, ![s].retries = 0, ![s].seen = seen] = [subOf EXCEPT ![s] = next]
  BY <1>1, <1>3
<1>8. half \in SubType /\ half.cursor = top /\ half.useSocket = sub.useSocket
      /\ half.socket = sub.socket /\ half.state = sub.state
  BY <1>1 DEF SubType
<1> HIDE DEF half
<1>9. third \in SubType /\ third.cursor = top /\ third.useSocket = sub.useSocket
      /\ third.socket = sub.socket /\ third.state = sub.state
  BY <1>8 DEF SubType
<1> HIDE DEF third
<1>10. next \in SubType /\ next.cursor = top /\ next.useSocket = sub.useSocket
       /\ next.socket = sub.socket /\ next.state = sub.state /\ next.seen = seen
  BY <1>5, <1>9 DEF SubType
<1> DEFINE all == CursorAfter(s, new, saw)
<1>11. all = [subOf EXCEPT ![s] = next]
  BY <1>6, <1>7
<1> HIDE DEF next, all
<1>12. all \in [Sub -> SubType] /\ all[s] = next /\ \A t \in Sub \ {s} : all[t] = subOf[t]
  BY <1>1, <1>10, <1>11
<1>13. all[s].seen = subOf[s].seen \cup saw
  BY <1>10, <1>12 DEF seen
<1>14. all[s].cursor = top /\ all[s].useSocket = sub.useSocket /\ all[s].socket = sub.socket
       /\ all[s].state = sub.state
  BY <1>10, <1>12
<1>15. CursorAt(all, s, top, saw)
  BY <1>12, <1>13, <1>14 DEF CursorAt
<1> QED BY <1>15 DEF all

\* One subscription is delivered events, the others go on.
LEMMA OneDelivered ==
  ASSUME EventsInOrder, EventTypeOK', NEW s \in Sub, emitted' = emitted, eventFaults <= eventFaults',
         \A t \in Sub \ {s} :
             Quiet_(t) /\ heardBy'[t] = heardBy[t] /\ missed'[t] = missed[t],
         SubInOrder(s, subOf'[s], asking'[s], heardBy'[s], missed'[s], pollTimer', orphans'[s],
                    eventWs', emitted', eventFaults')
  PROVE  EventsInOrder'
<1>1. ASSUME NEW t \in Sub \ {s}
      PROVE  SubInOrder(t, subOf'[t], asking'[t], heardBy'[t], missed'[t], pollTimer', orphans'[t],
                        eventWs', emitted', eventFaults')
  <2>1. SubInOrder(t, subOf[t], asking[t], heardBy[t], missed[t], pollTimer, orphans[t],
                   eventWs, emitted, eventFaults)
    BY DEF EventsInOrder
  <2>2. subOf[t] \in SubType /\ emitted \in Nat /\ emitted' \in Nat /\ eventFaults \in Nat
        /\ eventFaults' \in Nat /\ heardBy'[t] = heardBy[t] /\ missed'[t] = missed[t]
        /\ emitted <= emitted'
    BY DEF EventsInOrder, EventTypeOK
  <2>3. Quiet_(t)
    OBVIOUS
  <2>4. SubInOrder(t, subOf'[t], asking'[t], heardBy[t], missed[t], pollTimer', orphans'[t],
                   eventWs', emitted', eventFaults')
    BY <2>1, <2>2, <2>3, QuietSub DEF Quiet_
  <2> QED BY <2>2, <2>4
<1> QED BY <1>1 DEF EventsInOrder

\* What Delivered() changes, of one subscription.
LEMMA DeliveredTyped ==
  ASSUME EventTypeOK, NEW s \in Sub, NEW new, NEW thrown, Delivered(s, new, thrown),
         HeardNow(heardBy[s], new, thrown) \in Seq(Nat),
         LostNow(missed[s], new, thrown) \in SUBSET Nat
  PROVE  /\ heardBy' \in [Sub -> Seq(Nat)] /\ missed' \in [Sub -> SUBSET Nat]
         /\ heardBy'[s] = HeardNow(heardBy[s], new, thrown)
         /\ missed'[s] = LostNow(missed[s], new, thrown)
         /\ \A t \in Sub \ {s} : heardBy'[t] = heardBy[t] /\ missed'[t] = missed[t]
<1> DEFINE now == HeardNow(heardBy[s], new, thrown)
           lost == LostNow(missed[s], new, thrown)
<1>1. heardBy \in [Sub -> Seq(Nat)] /\ missed \in [Sub -> SUBSET Nat]
  BY DEF EventTypeOK
<1>2. heardBy' = [heardBy EXCEPT ![s] = now] /\ missed' = [missed EXCEPT ![s] = lost]
  BY DEF Delivered, HeardNow, LostNow, Given, NotGiven
<1>3. now \in Seq(Nat) /\ lost \in SUBSET Nat
  OBVIOUS
<1> HIDE DEF now, lost
<1>4. /\ heardBy' \in [Sub -> Seq(Nat)] /\ missed' \in [Sub -> SUBSET Nat]
      /\ heardBy'[s] = now /\ missed'[s] = lost
      /\ \A t \in Sub \ {s} : heardBy'[t] = heardBy[t] /\ missed'[t] = missed[t]
  BY <1>1, <1>2, <1>3
<1> QED BY <1>4 DEF now, lost

LEMMA MessageStep ==
  ASSUME EventsInOrder, NEW s \in Sub, NEW thrown \in 1..NeverThrown, SocketMessage(s, thrown)
  PROVE  EventsInOrder'
<1>1. EventTypeOK /\ (\A t \in Sub : SubFacts(t)) /\ subOf \in [Sub -> SubType]
  BY AllSubs DEF EventTypeOK
<1> DEFINE sub == subOf[s]
           new == EventPage(sub.cursor)
<1>2. /\ sub \in SubType /\ sub.cursor \in Nat /\ heardBy[s] \in Seq(Nat) /\ missed[s] \in SUBSET Nat
      /\ SubInOrder(s, sub, asking[s], heardBy[s], missed[s], pollTimer, orphans[s],
                    eventWs, emitted, eventFaults)
      /\ emitted \in Nat /\ emitted <= MaxEmitted /\ MaxEmitted \in Nat /\ eventFaults \in Nat
  BY <1>1, EventsAssumption DEF SubType, SubFacts, EventTypeOK
<1>3. /\ sub.socket = "open" /\ BySocket(sub) /\ sub.cursor <= emitted
      /\ thrown = NeverThrown \/ thrown \in new
      /\ eventFaults' = IF thrown = NeverThrown THEN eventFaults ELSE eventFaults + 1
      /\ subOf' = CursorAfter(s, new, {}) /\ Delivered(s, new, thrown)
      /\ UNCHANGED <<emitted, asking, pollTimer, orphans, eventWs>>
  BY <1>1, <1>2 DEF SocketMessage, SubFacts, SubInOrder
<1>4. thrown \in Nat /\ eventFaults' \in Nat /\ eventFaults <= eventFaults'
      /\ (eventFaults' = 0 => thrown = NeverThrown) /\ NeverThrown = MaxEmitted + 1
  BY <1>2, <1>3 DEF NeverThrown
<1>5. PICK top \in Nat : top <= emitted /\ NewOnes(new, sub.cursor, top)
  <2> DEFINE cursor == sub.cursor
             seen == 1..cursor
  <2>1. cursor \in Nat /\ SeenSince(cursor, cursor, seen)
    BY <1>2, <1>3 DEF SeenSince
  <2>2. Unseen(cursor, seen) = EventPage(cursor)
    BY <1>2 DEF EventPage, Unseen
  <2> HIDE DEF cursor, seen
  <2>3. \E top \in Nat : top <= emitted /\ NewOnes(Unseen(cursor, seen), cursor, top)
    BY <1>1, <2>1, NewEvents
  <2> QED BY <2>2, <2>3 DEF cursor
<1> HIDE DEF new
<1>6. /\ CursorAfter(s, new, {}) \in [Sub -> SubType]
      /\ \A t \in Sub \ {s} : CursorAfter(s, new, {})[t] = subOf[t]
      /\ CursorAfter(s, new, {})[s].cursor = top
      /\ CursorAfter(s, new, {})[s].useSocket = sub.useSocket
      /\ CursorAfter(s, new, {})[s].socket = sub.socket
      /\ CursorAfter(s, new, {})[s].seen = sub.seen
  <2> DEFINE nothing == {}
  <2>1. nothing \in SUBSET Nat /\ sub.seen \cup nothing = sub.seen
    OBVIOUS
  <2> HIDE DEF nothing
  <2>2. CursorAt(CursorAfter(s, new, nothing), s, top, nothing)
    BY <1>1, <1>5, <2>1, CursorMoves
  <2>3. CursorAt(CursorAfter(s, new, {}), s, top, nothing)
    BY <2>2 DEF nothing
  <2> QED BY <2>1, <2>3 DEF CursorAt
<1> DEFINE now == HeardNow(heardBy[s], new, thrown)
           lost == LostNow(missed[s], new, thrown)
<1>7. now \in Seq(Nat) /\ lost \in SUBSET Nat /\ RowOf(top, now, lost)
      /\ (top < thrown => lost = missed[s])
  <2> DEFINE heard == heardBy[s]
             before == missed[s]
             cursor == sub.cursor
  <2>1. RowOf(cursor, heard, before) /\ heard \in Seq(Nat) /\ before \in SUBSET Nat /\ cursor \in Nat
    BY <1>2 DEF SubInOrder, RowOf
  <2>2. now = HeardNow(heard, new, thrown) /\ lost = LostNow(before, new, thrown)
    OBVIOUS
  <2>3. NewOnes(new, cursor, top) /\ thrown \in Nat
    BY <1>4, <1>5
  <2> HIDE DEF heard, before, cursor, now, lost
  <2>4. now \in Seq(Nat) /\ lost \in SUBSET Nat /\ RowOf(top, now, lost)
        /\ (top < thrown => lost = before)
    BY ONLY <2>1, <2>2, <2>3, top \in Nat, DeliveredRow
  <2> QED BY <2>4 DEF before
<1>8. /\ heardBy' \in [Sub -> Seq(Nat)] /\ missed' \in [Sub -> SUBSET Nat]
      /\ heardBy'[s] = now /\ missed'[s] = lost
      /\ \A t \in Sub \ {s} : heardBy'[t] = heardBy[t] /\ missed'[t] = missed[t]
  BY <1>1, <1>3, <1>7, DeliveredTyped
<1> HIDE DEF now, lost
<1>9. EventTypeOK'
  BY <1>1, <1>3, <1>4, <1>6, <1>8 DEF EventTypeOK
<1>10. ASSUME NEW t \in Sub \ {s}
       PROVE  Quiet_(t)
  BY <1>1, <1>3, <1>6 DEF Quiet_, SubFacts, Goes
<1>11. SubInOrder(s, subOf'[s], asking[s], heardBy'[s], missed'[s], pollTimer, orphans[s],
                  eventWs, emitted, eventFaults')
  <2>1. eventFaults' = 0 => missed'[s] = missed[s]
    BY <1>2, <1>4, <1>5, <1>7, <1>8
  <2>2. subOf'[s] \in SubType /\ subOf'[s].cursor = top /\ subOf'[s].useSocket = sub.useSocket
        /\ subOf'[s].socket = sub.socket /\ subOf'[s].seen = sub.seen
    BY <1>3, <1>6
  <2>3. PollArmed(s, pollTimer, orphans[s]) => ~BySocket(sub)
    BY <1>2 DEF SubInOrder
  <2>4. \A q \in Request : asking[s][q] # NoFetch => asking[s][q] \in Nat /\ asking[s][q] = asking[s][q]
    BY <1>1 DEF EventTypeOK
  <2>5. RowOf(top, heardBy'[s], missed'[s]) /\ sub.cursor <= top
    BY <1>5, <1>7, <1>8 DEF NewOnes
  <2> DEFINE next == subOf'[s]
             heard == heardBy'[s]
             without == missed'[s]
             asks == asking[s]
             faults == eventFaults'
  <2>6. /\ next \in SubType /\ sub.cursor <= next.cursor /\ next.cursor <= emitted
        /\ next.useSocket = sub.useSocket /\ next.socket = sub.socket
        /\ next.seen = sub.seen /\ BySocket(sub)
        /\ RowOf(next.cursor, heard, without) /\ (faults = 0 => without = missed[s])
        /\ faults \in Nat /\ eventFaults <= faults
    BY <1>3, <1>4, <1>5, <2>1, <2>2, <2>5
  <2>7. \A q \in Request : asks[q] # NoFetch => asks[q] \in Nat /\ asks[q] = asks[q]
    BY <2>4
  <2>8. /\ sub \in SubType /\ emitted \in Nat /\ eventFaults \in Nat
        /\ SubInOrder(s, sub, asks, heardBy[s], missed[s], pollTimer, orphans[s],
                      eventWs, emitted, eventFaults)
    BY <1>2
  <2> HIDE DEF next, heard, without, asks, faults, sub
  <2>9. SubInOrder(s, next, asks, heard, without, pollTimer, orphans[s], eventWs, emitted, faults)
    BY ONLY s \in Sub, <2>3, <2>6, <2>7, <2>8, DeliveredSub
  <2> QED BY <2>9 DEF next, heard, without, asks, faults
<1>12. SubInOrder(s, subOf'[s], asking'[s], heardBy'[s], missed'[s], pollTimer', orphans'[s],
                  eventWs', emitted', eventFaults')
  BY <1>3, <1>11
<1>13. emitted' = emitted
  BY <1>3
<1> QED BY <1>4, <1>8, <1>9, <1>10, <1>12, <1>13, OneDelivered

\* A poll is answered: what goes on of every subscription.
AnsweredTimers(s) ==
    /\ pollTimer' \in TimerType /\ orphans' \in [Sub -> [TimerKind -> Nat]]
    /\ \A t \in Sub \ {s} : PollArmed(t, pollTimer', orphans'[t]) => PollArmed(t, pollTimer, orphans[t])
LEMMA AnotherPoll ==
  ASSUME EventTypeOK, NEW s \in Sub, pollTimer' = Armed(s, "poll"), orphans' = Orphaned(pollTimer, FALSE)
  PROVE  AnsweredTimers(s)
<1>1. pollTimer \in TimerType /\ pollTimer' \in TimerType /\ pollTimer'.of = s
  BY DEF EventTypeOK, Armed, TimerType, TimerKind
<1>2. /\ orphans' \in [Sub -> [TimerKind -> Nat]]
      /\ \A t \in Sub : orphans'[t]["poll"] > 0 => PollArmed(t, pollTimer, orphans[t])
  BY <1>1, OrphansKept
<1>3. ASSUME NEW t \in Sub \ {s}, PollArmed(t, pollTimer', orphans'[t])
      PROVE  PollArmed(t, pollTimer, orphans[t])
  <2>1. orphans'[t]["poll"] > 0
    BY <1>1, <1>3 DEF PollArmed
  <2> QED BY <1>2, <2>1
<1> QED BY <1>1, <1>2, <1>3 DEF AnsweredTimers

LEMMA AnswerStep ==
  ASSUME EventsInOrder, NEW s \in Sub, NEW q \in Request, NEW thrown \in 1..NeverThrown,
         AnswerEvents(s, q, thrown)
  PROVE  EventsInOrder'
<1>1. EventTypeOK /\ (\A t \in Sub : SubFacts(t)) /\ subOf \in [Sub -> SubType]
  BY AllSubs DEF EventTypeOK
<1> DEFINE sub == subOf[s]
           a == asking[s][q]
           new == Unseen(a, sub.seen)
           next == CursorAfter(s, new, new)
<1>2. /\ sub \in SubType /\ sub.cursor \in Nat /\ heardBy[s] \in Seq(Nat) /\ missed[s] \in SUBSET Nat
      /\ SubInOrder(s, sub, asking[s], heardBy[s], missed[s], pollTimer, orphans[s],
                    eventWs, emitted, eventFaults)
      /\ emitted \in Nat /\ emitted <= MaxEmitted /\ MaxEmitted \in Nat /\ eventFaults \in Nat
      /\ sub.seen \in SUBSET Nat
  BY <1>1, EventsAssumption DEF SubType, SubFacts, EventTypeOK
<1>3. a \in Nat /\ Asked(s, q, NoFetch) /\ eventWs' = eventWs /\ emitted' = emitted
  BY <1>1 DEF AnswerEvents, EventTypeOK, Asked
<1>4. /\ asking' \in [Sub -> [Request -> Nat \cup {NoFetch}]]
      /\ \A t \in Sub, r \in Request : asking'[t][r] = asking[t][r] \/ asking'[t][r] = NoFetch
  <2> DEFINE x == NoFetch
  <2>1. x \in Nat \cup {NoFetch} /\ Asked(s, q, x)
    BY <1>3
  <2> HIDE DEF x
  <2>2. /\ asking' \in [Sub -> [Request -> Nat \cup {NoFetch}]]
        /\ \A t \in Sub, r \in Request :
              asking'[t][r] = asking[t][r] \/ (t = s /\ asking'[t][r] = x)
    BY <1>1, <2>1, Asks
  <2> QED BY <2>2 DEF x
<1>5. CASE ~ActiveSub(s)
  <2>1. UNCHANGED <<subOf, heardBy, missed, pollTimer, orphans, eventFaults>>
    BY <1>5 DEF AnswerEvents
  <2>2. EventTypeOK'
    BY <1>1, <1>3, <1>4, <2>1 DEF EventTypeOK
  <2>3. ASSUME NEW t \in Sub
        PROVE  Quiet_(t)
    BY <1>1, <1>3, <1>4, <2>1 DEF Quiet_, SubFacts, Goes
  <2> QED BY <1>2, <1>3, <2>1, <2>2, <2>3, QuietEvents
<1>6. CASE ActiveSub(s)
  <2>1. /\ Delivered(s, new, thrown)
        /\ \/ /\ thrown = NeverThrown /\ subOf' = next /\ eventFaults' = eventFaults
              /\ pollTimer' = Armed(s, "poll") /\ orphans' = Orphaned(pollTimer, FALSE)
           \/ /\ thrown \in new /\ eventFaults' = eventFaults + 1
              /\ Reconnect(s, next, pollTimer, FALSE)
    BY <1>6 DEF AnswerEvents, Unseen
  <2>2. ~BySocket(sub) /\ SeenSince(a, sub.cursor, sub.seen)
    BY <1>2, <1>3 DEF SubInOrder, SeenSince, NoFetch
  <2>3. PICK top \in Nat : top <= emitted /\ NewOnes(new, sub.cursor, top)
    <3> DEFINE cursor == sub.cursor
               seen == sub.seen
    <3>1. cursor \in Nat /\ SeenSince(a, cursor, seen)
      BY <1>2, <2>2
    <3> HIDE DEF cursor, seen, a
    <3>2. \E top \in Nat : top <= emitted /\ NewOnes(Unseen(a, seen), cursor, top)
      BY <1>1, <1>3, <3>1, NewEvents
    <3> QED BY <3>2 DEF cursor, seen
  <2>4. new = sub.cursor + 1 .. top /\ sub.cursor <= top /\ new \in SUBSET Nat
    BY <1>2, <2>3 DEF NewOnes
  <2> HIDE DEF new, a
  <2>5. CursorAt(next, s, top, new)
    BY <1>1, <2>3, <2>4, CursorMoves
  <2>6. thrown \in Nat /\ eventFaults' \in Nat /\ eventFaults <= eventFaults'
        /\ (eventFaults' = 0 => thrown = NeverThrown) /\ NeverThrown = MaxEmitted + 1
    <3>1. thrown \in Nat /\ NeverThrown = MaxEmitted + 1
      BY <1>2 DEF NeverThrown
    <3>2. \/ eventFaults' = eventFaults /\ thrown = NeverThrown
          \/ eventFaults' = eventFaults + 1
      BY <2>1
    <3> QED BY ONLY <1>2, <3>1, <3>2
  <2> HIDE DEF next
  <2>7. /\ next \in [Sub -> SubType] /\ \A t \in Sub \ {s} : next[t] = subOf[t]
        /\ next[s].cursor = top /\ next[s].seen = sub.seen \cup new
        /\ next[s].useSocket = sub.useSocket /\ next[s].socket = sub.socket
    BY <2>5 DEF CursorAt
  <2>8. /\ subOf' \in [Sub -> SubType] /\ (\A t \in Sub : Alike(subOf'[t], next[t]))
        /\ AnsweredTimers(s)
    <3>1. CASE thrown = NeverThrown /\ subOf' = next
               /\ pollTimer' = Armed(s, "poll") /\ orphans' = Orphaned(pollTimer, FALSE)
      <4>1. \A t \in Sub : Alike(subOf'[t], next[t])
        BY <2>7, <3>1 DEF Alike
      <4>2. AnsweredTimers(s)
        BY <1>1, <3>1, AnotherPoll
      <4> QED BY <2>7, <3>1, <4>1, <4>2
    <3>2. CASE Reconnect(s, next, pollTimer, FALSE)
      <4>1. pollTimer \in TimerType /\ FALSE \in BOOLEAN
        BY <1>1 DEF EventTypeOK
      <4>2. /\ subOf' \in [Sub -> SubType] /\ \A t \in Sub : Alike(subOf'[t], next[t])
            /\ pollTimer' \in TimerType /\ orphans' \in [Sub -> [TimerKind -> Nat]]
            /\ \A t \in Sub : PollArmed(t, pollTimer', orphans'[t]) => PollArmed(t, pollTimer, orphans[t])
        BY <1>1, <2>7, <3>2, <4>1, ReconnectEffect
      <4> QED BY <4>2 DEF AnsweredTimers
    <3> QED BY <2>1, <3>1, <3>2
  <2> DEFINE now == HeardNow(heardBy[s], new, thrown)
             lost == LostNow(missed[s], new, thrown)
  <2>9. now \in Seq(Nat) /\ lost \in SUBSET Nat /\ RowOf(top, now, lost)
        /\ (top < thrown => lost = missed[s])
    <3> DEFINE heard == heardBy[s]
               before == missed[s]
               cursor == sub.cursor
    <3>1. RowOf(cursor, heard, before) /\ heard \in Seq(Nat) /\ before \in SUBSET Nat /\ cursor \in Nat
      BY <1>2 DEF SubInOrder, RowOf
    <3>2. now = HeardNow(heard, new, thrown) /\ lost = LostNow(before, new, thrown)
      OBVIOUS
    <3>3. NewOnes(new, cursor, top) /\ thrown \in Nat
      BY <2>3, <2>6
    <3> HIDE DEF heard, before, cursor, now, lost
    <3>4. now \in Seq(Nat) /\ lost \in SUBSET Nat /\ RowOf(top, now, lost)
          /\ (top < thrown => lost = before)
      BY ONLY <3>1, <3>2, <3>3, top \in Nat, DeliveredRow
    <3> QED BY <3>4 DEF before
  <2>10. /\ heardBy' \in [Sub -> Seq(Nat)] /\ missed' \in [Sub -> SUBSET Nat]
         /\ heardBy'[s] = now /\ missed'[s] = lost
         /\ \A t \in Sub \ {s} : heardBy'[t] = heardBy[t] /\ missed'[t] = missed[t]
    BY <1>1, <2>1, <2>9, DeliveredTyped
  <2> HIDE DEF now, lost
  <2>11. EventTypeOK'
    BY <1>1, <1>3, <1>4, <2>6, <2>8, <2>10 DEF EventTypeOK, AnsweredTimers
  <2>12. ASSUME NEW t \in Sub \ {s}
         PROVE  Quiet_(t)
    <3>1. Alike(subOf'[t], subOf[t])
      BY <2>7, <2>8
    <3>2. PollArmed(t, pollTimer', orphans'[t]) => PollArmed(t, pollTimer, orphans[t])
      BY <2>8 DEF AnsweredTimers
    <3> QED BY <1>1, <1>3, <1>4, <3>1, <3>2 DEF Quiet_, SubFacts, Goes, Alike, BySocket
  <2>13. SubInOrder(s, subOf'[s], asking'[s], heardBy'[s], missed'[s], pollTimer', orphans'[s],
                    eventWs', emitted', eventFaults')
    <3> DEFINE was == subOf[s]
               then == subOf'[s]
               heard == heardBy'[s]
               without == missed'[s]
               asks == asking'[s]
               faults == eventFaults'
               handle == pollTimer'
               adrift == orphans'[s]
    <3>1. eventFaults' = 0 => missed'[s] = missed[s]
      BY <1>2, <2>3, <2>6, <2>9, <2>10
    <3>2. /\ then \in SubType /\ then.cursor = top /\ then.useSocket = was.useSocket
          /\ then.socket = was.socket /\ then.seen = was.seen \cup (was.cursor + 1 .. top)
      BY <2>4, <2>7, <2>8 DEF Alike
    <3>3. PollArmed(s, handle, adrift) => ~BySocket(was)
      BY <2>2
    <3>4. \A r \in Request : asks[r] # NoFetch => asks[r] \in Nat /\ asks[r] = asking[s][r]
      BY <1>1, <1>4 DEF EventTypeOK
    <3>5. RowOf(top, heard, without) /\ was.cursor <= top /\ top <= emitted
      BY <2>3, <2>4, <2>9, <2>10
    <3>6. /\ was \in SubType /\ emitted \in Nat /\ eventFaults \in Nat /\ faults \in Nat
          /\ eventFaults <= faults
          /\ SubInOrder(s, was, asking[s], heardBy[s], missed[s], pollTimer, orphans[s],
                        eventWs, emitted, eventFaults)
      BY <1>2, <2>6
    <3> HIDE DEF then, heard, without, asks, faults, was, handle, adrift
    <3>7. /\ was.cursor <= then.cursor /\ then.cursor <= emitted
          /\ then.useSocket = was.useSocket /\ then.socket = was.socket
          /\ then.seen = was.seen \cup (was.cursor + 1 .. then.cursor)
          /\ RowOf(then.cursor, heard, without) /\ (faults = 0 => without = missed[s])
      BY <3>1, <3>2, <3>5 DEF faults, without
    <3>8. SubInOrder(s, then, asks, heard, without, handle, adrift, eventWs, emitted, faults)
      BY ONLY s \in Sub, <3>2, <3>3, <3>4, <3>6, <3>7, DeliveredSub
    <3> QED BY <1>3, <3>8 DEF then, heard, without, asks, faults, handle, adrift
  <2> QED BY <1>3, <2>6, <2>10, <2>11, <2>12, <2>13, OneDelivered
<1> QED BY <1>5, <1>6

\* Every step.
LEMMA EventStep ==
  ASSUME EventsInOrder, [EventNext]_eventVars
  PROVE  EventsInOrder'
<1>1. CASE UNCHANGED eventVars
  BY <1>1 DEF eventVars, EventsInOrder, EventTypeOK, SubInOrder, BySocket, PollArmed
<1>2. CASE EmitEvent
  BY <1>2, EmitStep
<1>3. ASSUME NEW s \in Sub, subscribeToEvents(s) \/ Unsubscribe(s)
      PROVE  EventsInOrder'
  BY <1>3, SubscribeStep
<1>4. ASSUME NEW s \in Sub, Timers(s)
      PROVE  EventsInOrder'
  BY <1>4, TimerStep DEF Timers
<1>5. ASSUME NEW s \in Sub, FireHeartbeat(s)
      PROVE  EventsInOrder'
  BY <1>5, HeartbeatStep
<1>6. ASSUME NEW s \in Sub, NEW thrown \in 1..NeverThrown, SocketMessage(s, thrown)
      PROVE  EventsInOrder'
  BY <1>6, MessageStep
<1>7. ASSUME NEW s \in Sub, NEW thrown \in 1..NeverThrown, NEW q \in Request, AnswerEvents(s, q, thrown)
      PROVE  EventsInOrder'
  BY <1>7, AnswerStep
<1>8. ASSUME NEW s \in Sub, NEW q \in Request, FailEvents(s, q)
      PROVE  EventsInOrder'
  BY <1>8, FailStep
<1>9. ASSUME NEW s \in Sub, OpenSocket(s) \/ SocketFails(s) \/ GiveUpSocket(s)
      PROVE  EventsInOrder'
  BY <1>9, SocketStep
<1> QED BY <1>1, <1>2, <1>3, <1>4, <1>5, <1>6, <1>7, <1>8, <1>9 DEF EventNext

LEMMA EventsSound ==
  ASSUME EventsInOrder
  PROVE  HeardInOrder
  BY DEF EventsInOrder, SubInOrder, Ascending, HeardInOrder

-----------------------------------------------------------------------------
(* What a closed subscription hears *)

SameStates(new, old) == \A t \in Sub : new[t].state = old[t].state

LEMMA StartKeeps ==
  ASSUME EventTypeOK, NEW s \in Sub, NEW subs \in [Sub -> SubType],
         \A t \in Sub : subs[t].socket # "none" => eventWs = t, StartSub(s, subs)
  PROVE  SameStates(subOf', subs)
<1> DEFINE cleaned == Cleaned(subs)
<1>1. cleaned \in [Sub -> SubType] /\ \A t \in Sub : cleaned[t].state = subs[t].state
  BY CleanedSubs
<1>2. CASE HasSocket /\ subs[s].useSocket
  <2> DEFINE half == [cleaned[s] EXCEPT !.socket = "opening"]
             next == [half EXCEPT !.giveUp = TRUE]
  <2>1. half \in SubType /\ half.state = cleaned[s].state
    BY <1>1 DEF SubType
  <2>2. subOf' = [cleaned EXCEPT ![s].socket = "opening", ![s].giveUp = TRUE]
    BY <1>2 DEF StartSub
  <2> HIDE DEF cleaned
  <2>3. subOf' = [cleaned EXCEPT ![s] = next]
    BY <1>1, <2>2
  <2> HIDE DEF half
  <2>4. next.state = cleaned[s].state
    BY <2>1 DEF SubType
  <2> HIDE DEF next
  <2>5. \A t \in Sub : subOf'[t] = IF t = s THEN next ELSE cleaned[t]
    BY <1>1, <2>3
  <2> QED BY <1>1, <2>4, <2>5 DEF SameStates
<1>3. CASE ~(HasSocket /\ subs[s].useSocket)
  <2>1. subOf' = cleaned
    BY <1>3 DEF StartSub
  <2> QED BY <1>1, <2>1 DEF SameStates
<1> QED BY <1>2, <1>3

LEMMA SocketKeeps ==
  ASSUME EventsInOrder, NEW s \in Sub, OpenSocket(s) \/ SocketFails(s) \/ GiveUpSocket(s)
  PROVE  SameStates(subOf', subOf) /\ heardBy' = heardBy
<1>1. EventTypeOK /\ (\A t \in Sub : SubFacts(t)) /\ subOf \in [Sub -> SubType]
  BY AllSubs DEF EventTypeOK
<1> DEFINE sub == subOf[s]
<1>2. sub \in SubType
  BY <1>1
<1>3. heardBy' = heardBy
  BY DEF OpenSocket, SocketFails, GiveUpSocket
<1>4. CASE OpenSocket(s)
  <2> DEFINE half == [sub EXCEPT !.socket = "open"]
             next == [half EXCEPT !.giveUp = FALSE]
  <2>1. half \in SubType /\ half.state = sub.state
    BY <1>2 DEF SubType
  <2>2. subOf' = [subOf EXCEPT ![s] = next]
    BY <1>1, <1>4 DEF OpenSocket
  <2> HIDE DEF half
  <2>3. next.state = sub.state
    BY <2>1 DEF SubType
  <2> HIDE DEF next
  <2> QED BY <1>1, <1>3, <2>2, <2>3 DEF SameStates
<1>5. CASE SocketFails(s)
  <2> DEFINE half == [sub EXCEPT !.socket = "none"]
             quiet == [half EXCEPT !.giveUp = FALSE]
             next == [quiet EXCEPT !.useSocket = FALSE]
  <2>1. half \in SubType /\ half.state = sub.state
    BY <1>2 DEF SubType
  <2>2. subOf' = [subOf EXCEPT ![s] = next]
    BY <1>1, <1>5 DEF SocketFails
  <2> HIDE DEF half
  <2>3. quiet \in SubType /\ quiet.state = sub.state
    BY <2>1 DEF SubType
  <2> HIDE DEF quiet
  <2>4. next.state = sub.state
    BY <2>3 DEF SubType
  <2> HIDE DEF next
  <2> QED BY <1>1, <1>3, <2>2, <2>4 DEF SameStates
<1>6. CASE GiveUpSocket(s) /\ ActiveSub(s)
  <2> DEFINE half == [sub EXCEPT !.giveUp = FALSE]
             next == [half EXCEPT !.useSocket = FALSE]
             subs == [subOf EXCEPT ![s] = next]
  <2>1. half \in SubType /\ half.state = sub.state /\ half.socket = sub.socket
    BY <1>2 DEF SubType
  <2>2. [subOf EXCEPT ![s].giveUp = FALSE, ![s].useSocket = FALSE] = subs
    BY <1>1
  <2> HIDE DEF half
  <2>3. next \in SubType /\ next.state = sub.state /\ next.socket = sub.socket
    BY <2>1 DEF SubType
  <2>4. subOf' = Cleaned(subs)
    BY <1>6, <2>2 DEF GiveUpSocket
  <2> HIDE DEF next
  <2>5. subs \in [Sub -> SubType] /\ \A t \in Sub : subs[t] = IF t = s THEN next ELSE subOf[t]
    BY <1>1, <2>3
  <2> HIDE DEF subs
  <2>6. \A t \in Sub : subs[t].socket # "none" => eventWs = t
    BY <1>1, <2>3, <2>5 DEF SubFacts
  <2>7. \A t \in Sub : subOf'[t].state = subs[t].state
    BY <1>1, <2>4, <2>5, <2>6, CleanedSubs
  <2> QED BY <1>3, <2>3, <2>5, <2>7 DEF SameStates
<1>7. CASE GiveUpSocket(s) /\ ~ActiveSub(s)
  <2> DEFINE next == [sub EXCEPT !.giveUp = FALSE]
  <2>1. next.state = sub.state
    BY <1>2 DEF SubType
  <2>2. subOf' = [subOf EXCEPT ![s] = next]
    BY <1>7 DEF GiveUpSocket
  <2> HIDE DEF next
  <2> QED BY <1>1, <1>3, <2>1, <2>2 DEF SameStates
<1> QED BY <1>4, <1>5, <1>6, <1>7

\* Nobody's state changes but the subscription's that the step is about: it opens, or closes.
OnlyOf(s) == \A t \in Sub \ {s} : subOf'[t].state = subOf[t].state
LEMMA SubscribeKeeps ==
  ASSUME EventsInOrder, NEW s \in Sub, subscribeToEvents(s) \/ Unsubscribe(s)
  PROVE  OnlyOf(s) /\ subOf[s].state # "closed" /\ heardBy' = heardBy
<1>1. EventTypeOK /\ (\A t \in Sub : SubFacts(t)) /\ subOf \in [Sub -> SubType]
  BY AllSubs DEF EventTypeOK
<1>2. subOf[s].state # "closed" /\ heardBy' = heardBy
  BY DEF subscribeToEvents, Unsubscribe, ActiveSub
<1>3. ASSUME NEW state \in SubState
      PROVE  /\ [subOf EXCEPT ![s].state = state] \in [Sub -> SubType]
             /\ \A t \in Sub : [subOf EXCEPT ![s].state = state][t].socket = subOf[t].socket
             /\ \A t \in Sub \ {s} : [subOf EXCEPT ![s].state = state][t] = subOf[t]
  <2> DEFINE next == [subOf[s] EXCEPT !.state = state]
  <2>1. next \in SubType /\ next.socket = subOf[s].socket
    BY <1>1 DEF SubFacts, SubType
  <2> HIDE DEF next
  <2>2. /\ [subOf EXCEPT ![s] = next] \in [Sub -> SubType]
        /\ \A t \in Sub : [subOf EXCEPT ![s] = next][t].socket = subOf[t].socket
        /\ \A t \in Sub \ {s} : [subOf EXCEPT ![s] = next][t] = subOf[t]
    BY <1>1, <2>1
  <2> QED BY <2>2 DEF next
<1>4. CASE subscribeToEvents(s)
  <2> DEFINE subs == [subOf EXCEPT ![s].state = "active"]
  <2>1. StartSub(s, subs) /\ "active" \in SubState
    BY <1>4 DEF subscribeToEvents, SubState
  <2>2. /\ subs \in [Sub -> SubType] /\ \A t \in Sub : subs[t].socket = subOf[t].socket
        /\ \A t \in Sub \ {s} : subs[t] = subOf[t]
    BY <1>3, <2>1
  <2> HIDE DEF subs
  <2>3. \A t \in Sub : subs[t].socket # "none" => eventWs = t
    BY <1>1, <2>2 DEF SubFacts
  <2>4. SameStates(subOf', subs)
    BY <1>1, <2>1, <2>2, <2>3, StartKeeps
  <2> QED BY <1>2, <2>2, <2>4 DEF SameStates, OnlyOf
<1>5. CASE Unsubscribe(s)
  <2> DEFINE subs == [subOf EXCEPT ![s].state = "closed"]
  <2>1. subOf' = Cleaned(subs) /\ "closed" \in SubState
    BY <1>5 DEF Unsubscribe, SubState
  <2>2. /\ subs \in [Sub -> SubType] /\ \A t \in Sub : subs[t].socket = subOf[t].socket
        /\ \A t \in Sub \ {s} : subs[t] = subOf[t]
    BY <1>3, <2>1
  <2> HIDE DEF subs
  <2>3. \A t \in Sub : subs[t].socket # "none" => eventWs = t
    BY <1>1, <2>2 DEF SubFacts
  <2>4. \A t \in Sub : subOf'[t].state = subs[t].state
    BY <1>1, <2>1, <2>2, <2>3, CleanedSubs
  <2> QED BY <1>2, <2>2, <2>4 DEF OnlyOf
<1> QED BY <1>4, <1>5

\* A subscription that starts again, of itself or after a failure, was active.
LEMMA RestartKeeps ==
  ASSUME EventsInOrder, NEW s \in Sub,
         \/ \E held \in BOOLEAN : FireStart(s, held) \/ FirePoll(s, held)
         \/ FireHeartbeat(s)
         \/ \E q \in Request : FailEvents(s, q)
  PROVE  /\ heardBy' = heardBy
         /\ SameStates(subOf', subOf) \/ (OnlyOf(s) /\ ActiveSub(s))
<1>1. EventTypeOK /\ (\A t \in Sub : SubFacts(t)) /\ subOf \in [Sub -> SubType] /\ pollTimer \in TimerType
  BY AllSubs DEF EventTypeOK
<1>2. heardBy' = heardBy
  BY DEF FireStart, FirePoll, FireHeartbeat, FailEvents
<1>3. CASE subOf' = subOf
  BY <1>2, <1>3 DEF SameStates
<1>4. CASE StartSub(s, subOf)
  <2>1. \A t \in Sub : subOf[t].socket # "none" => eventWs = t
    BY <1>1 DEF SubFacts
  <2>2. SameStates(subOf', subOf)
    BY <1>1, <1>4, <2>1, StartKeeps
  <2> QED BY <1>2, <2>2
<1>5. ASSUME NEW subs \in [Sub -> SubType], SameStates(subs, subOf), NEW handle \in TimerType,
             NEW cleared \in BOOLEAN, Reconnect(s, subs, handle, cleared)
      PROVE  OnlyOf(s)
  <2>1. \A t \in Sub : subOf'[t].state = subs[t].state \/ (t = s /\ subOf'[t].state = "closed")
    BY <1>1, <1>5, ReconnectEffect
  <2> QED BY <1>5, <2>1 DEF SameStates, OnlyOf
<1>6. CASE ActiveSub(s) /\ Reconnect(s, subOf, pollTimer, FALSE)
  <2>1. SameStates(subOf, subOf) /\ FALSE \in BOOLEAN
    BY DEF SameStates
  <2> QED BY <1>1, <1>2, <1>5, <1>6, <2>1
<1>7. CASE ActiveSub(s) /\ Reconnect(s, Cleaned(subOf), NoTimer, TRUE)
  <2> DEFINE cleaned == Cleaned(subOf)
  <2>1. \A t \in Sub : subOf[t].socket # "none" => eventWs = t
    BY <1>1 DEF SubFacts
  <2>2. cleaned \in [Sub -> SubType] /\ SameStates(cleaned, subOf)
    BY <1>1, <2>1, CleanedSubs DEF SameStates
  <2>3. NoTimer \in TimerType /\ TRUE \in BOOLEAN
    BY DEF NoTimer, TimerType, TimerKind
  <2> HIDE DEF cleaned
  <2>4. Reconnect(s, cleaned, NoTimer, TRUE)
    BY <1>7 DEF cleaned
  <2>5. OnlyOf(s)
    BY <1>5, <2>2, <2>3, <2>4
  <2> QED BY <1>2, <1>7, <2>5
<1> QED BY <1>3, <1>4, <1>6, <1>7 DEF FireStart, FirePoll, FireHeartbeat, FailEvents

\* What is delivered is delivered to an active subscription.
LEMMA DeliveryKeeps ==
  ASSUME EventsInOrder, NEW s \in Sub, NEW thrown \in 1..NeverThrown,
         SocketMessage(s, thrown) \/ \E q \in Request : AnswerEvents(s, q, thrown)
  PROVE  \/ heardBy' = heardBy /\ subOf' = subOf
         \/ OnlyOf(s) /\ ActiveSub(s) /\ \A t \in Sub \ {s} : heardBy'[t] = heardBy[t]
<1>1. EventTypeOK /\ (\A t \in Sub : SubFacts(t)) /\ subOf \in [Sub -> SubType] /\ pollTimer \in TimerType
      /\ emitted \in Nat /\ PageLimit \in Nat
  BY AllSubs, EventsAssumption DEF EventTypeOK
<1>2. ASSUME NEW new, Delivered(s, new, thrown)
      PROVE  \A t \in Sub \ {s} : heardBy'[t] = heardBy[t]
  <2>1. heardBy \in [Sub -> Seq(Nat)]
    BY <1>1 DEF EventTypeOK
  <2> QED BY <1>2, <2>1 DEF Delivered
<1>3. CASE SocketMessage(s, thrown)
  <2>1. PICK new : ActiveSub(s) /\ subOf' = CursorAfter(s, new, {}) /\ Delivered(s, new, thrown)
    BY <1>3 DEF SocketMessage
  <2>2. OnlyOf(s)
    BY <1>1, <2>1 DEF CursorAfter, OnlyOf
  <2> QED BY <1>2, <2>1, <2>2
<1>4. ASSUME NEW q \in Request, AnswerEvents(s, q, thrown), ActiveSub(s)
      PROVE  OnlyOf(s) /\ \A t \in Sub \ {s} : heardBy'[t] = heardBy[t]
  <2> DEFINE new == EventPage(asking[s][q]) \ subOf[s].seen
             next == CursorAfter(s, new, new)
  <2>1. /\ Delivered(s, new, thrown)
        /\ subOf' = next \/ Reconnect(s, next, pollTimer, FALSE)
    BY <1>4 DEF AnswerEvents
  <2>2. \A t \in Sub \ {s} : next[t] = subOf[t]
    BY <1>1 DEF CursorAfter
  <2>3. Reconnect(s, next, pollTimer, FALSE) => OnlyOf(s)
    <3>1. SUFFICES ASSUME Reconnect(s, next, pollTimer, FALSE)
                   PROVE  OnlyOf(s)
      OBVIOUS
    <3>2. DOMAIN next = Sub
      BY <1>1 DEF CursorAfter
    <3> HIDE DEF next, new
    <3>3. \A t \in Sub \ {s} : subOf'[t] = next[t]
      BY <3>1, <3>2 DEF Reconnect
    <3> QED BY <2>2, <3>3 DEF OnlyOf
  <2>4. subOf' = next => OnlyOf(s)
    BY <2>2 DEF OnlyOf
  <2> QED BY <1>2, <2>1, <2>3, <2>4
<1>5. ASSUME NEW q \in Request, AnswerEvents(s, q, thrown), ~ActiveSub(s)
      PROVE  heardBy' = heardBy /\ subOf' = subOf
  BY <1>5 DEF AnswerEvents
<1> QED BY <1>3, <1>4, <1>5

LEMMA ClosedEnds ==
  ASSUME EventsInOrder, [EventNext]_eventVars, NEW s \in Sub, subOf[s].state = "closed"
  PROVE  heardBy'[s] = heardBy[s] /\ subOf'[s].state = "closed"
<1>1. CASE UNCHANGED eventVars \/ EmitEvent
  BY <1>1 DEF eventVars, EmitEvent
<1>2. ASSUME NEW t \in Sub, subscribeToEvents(t) \/ Unsubscribe(t)
      PROVE  heardBy'[s] = heardBy[s] /\ subOf'[s].state = "closed"
  BY <1>2, SubscribeKeeps DEF OnlyOf
<1>3. ASSUME NEW t \in Sub, Timers(t) \/ FireHeartbeat(t) \/ \E q \in Request : FailEvents(t, q)
      PROVE  heardBy'[s] = heardBy[s] /\ subOf'[s].state = "closed"
  <2>1. /\ heardBy' = heardBy
        /\ SameStates(subOf', subOf) \/ (OnlyOf(t) /\ ActiveSub(t))
    BY <1>3, RestartKeeps DEF Timers
  <2> QED BY <2>1 DEF SameStates, OnlyOf, ActiveSub
<1>4. ASSUME NEW t \in Sub, NEW thrown \in 1..NeverThrown,
             SocketMessage(t, thrown) \/ \E q \in Request : AnswerEvents(t, q, thrown)
      PROVE  heardBy'[s] = heardBy[s] /\ subOf'[s].state = "closed"
  <2>1. \/ heardBy' = heardBy /\ subOf' = subOf
        \/ OnlyOf(t) /\ ActiveSub(t) /\ \A u \in Sub \ {t} : heardBy'[u] = heardBy[u]
    BY <1>4, DeliveryKeeps
  <2> QED BY <2>1 DEF OnlyOf, ActiveSub
<1>5. ASSUME NEW t \in Sub, OpenSocket(t) \/ SocketFails(t) \/ GiveUpSocket(t)
      PROVE  heardBy'[s] = heardBy[s] /\ subOf'[s].state = "closed"
  BY <1>5, SocketKeeps DEF SameStates
<1> QED BY <1>1, <1>2, <1>3, <1>4, <1>5 DEF EventNext

-----------------------------------------------------------------------------
(* The balances a listener is told (useGrantBalances.ts).                  *)

BalanceTypeOK ==
    /\ balance \in Nat /\ data \in Nat /\ failures \in Nat /\ changes \in Nat /\ previous \in Nat
    /\ poll \in [at : {"timer", "asked", "read", "off"}, got : Nat]
    /\ fetch \in [Fetch -> [at : {"idle", "asked", "read", "done"}, got : Nat]]
    /\ balanceTold \in [last : Nat, late : Nat]
    /\ stopped \in BOOLEAN /\ overtaken \in BOOLEAN

\* The inductive invariant: answers under way are of balances the account had, and
\* nobody was told anything late before the listener was stopped.
BalancesInOrder ==
    /\ BalanceTypeOK
    /\ poll.got <= balance /\ \A f \in Fetch : fetch[f].got <= balance
    /\ ~stopped => balanceTold.late = 0
    /\ BalancesAreTold

LEMMA BalancesInitially == BalanceInit => BalancesInOrder
<1> SUFFICES ASSUME BalanceInit PROVE BalancesInOrder
  OBVIOUS
<1>1. BalanceTypeOK
  BY DEF BalanceInit, BalanceTypeOK
<1> QED BY <1>1 DEF BalanceInit, BalancesInOrder, BalancesAreTold, DataKeepsUp, StopEnds

LEMMA BalanceStep ==
  ASSUME BalancesInOrder, [BalanceNext]_balanceVars
  PROVE  BalancesInOrder'
<1> USE DEF BalancesInOrder, BalanceTypeOK, BalancesAreTold, DataKeepsUp, StopEnds
<1>1. CASE Ask
  BY <1>1 DEF Ask
<1>2. CASE ReadPoll
  BY <1>2 DEF ReadPoll, Snapshot
<1>3. CASE AnswerBalance
  <2> USE <1>3 DEF AnswerBalance, NextPoll
  <2>1. CASE HasBalanceChanged
    <3>1. balanceTold' = [last |-> poll.got, late |-> IF stopped THEN balanceTold.late + 1 ELSE balanceTold.late]
      BY <2>1
    <3>2. stopped => balanceTold.late = 0
      OBVIOUS
    <3>3. BalanceTypeOK'
      BY <2>1, <3>1
    <3>4. data' = balanceTold'.last /\ data' <= balance
      BY <2>1, <3>1
    <3>5. balanceTold'.late = IF stopped THEN 1 ELSE 0
      BY <3>1, <3>2
    <3> QED BY <3>3, <3>4, <3>5
  <2>2. CASE ~HasBalanceChanged
    <3>1. BalanceTypeOK'
      BY <2>2
    <3> QED BY <2>2, <3>1
  <2> QED BY <2>1, <2>2
<1>4. CASE PollBalanceFails
  BY <1>4 DEF PollBalanceFails, NextPoll
<1>5. CASE StopListening
  BY <1>5 DEF StopListening
<1>6. ASSUME NEW f \in Fetch, Refetch(f)
      PROVE  BalancesInOrder'
  BY <1>6 DEF Refetch
<1>7. ASSUME NEW f \in Fetch, ReadFetch(f)
      PROVE  BalancesInOrder'
  BY <1>7 DEF ReadFetch, Snapshot
<1>8. ASSUME NEW f \in Fetch, AnswerFetch(f)
      PROVE  BalancesInOrder'
  <2> USE <1>8 DEF AnswerFetch
  <2>1. BalanceTypeOK' /\ \A e \in Fetch : fetch'[e].got <= balance'
    OBVIOUS
  <2>2. overtaken' \/ (~overtaken /\ data' >= data)
    <3>1. overtaken' <=> overtaken \/ fetch[f].got < data
      OBVIOUS
    <3>2. data' = fetch[f].got /\ fetch[f].got \in Nat /\ data \in Nat
      OBVIOUS
    <3> QED BY <3>1, <3>2
  <2>3. ~overtaken' => data' >= balanceTold.last
    BY <2>2
  <2> QED BY <2>1, <2>3
<1>9. ASSUME NEW f \in Fetch, FetchBalanceFails(f)
      PROVE  BalancesInOrder'
  BY <1>9 DEF FetchBalanceFails
<1>10. CASE BalanceChanges
  BY <1>10 DEF BalanceChanges
<1>11. CASE UNCHANGED balanceVars
  BY <1>11 DEF balanceVars
<1> QED BY <1>1, <1>2, <1>3, <1>4, <1>5, <1>6, <1>7, <1>8, <1>9, <1>10, <1>11 DEF BalanceNext

-----------------------------------------------------------------------------
(* The page of a grant and the form that funds it (GrantDetailClient.tsx). *)

Shapes == {"none", "parsed", "raw"}
GrantPageTypeOK ==
    /\ place \in Places \cup {"crashed"}
    /\ entry \in [shape : Shapes, funded : Nat]
    /\ query \in [shape : Shapes, got : Nat, read : BOOLEAN]
    /\ own \in [state : {"none", "asked", "shown", "missing"}, funded : Nat]
    /\ fundDialog \in {"closed", "form", "pending", "success"}
    /\ readers \in [new : Nat, old : Nat] /\ timer \in Nat
    /\ funded \in Nat /\ least \in Nat
    /\ \A o \in offers : o.amount \in Nat /\ o.knew \in Nat

\* The inductive invariant: what a page knows was true once, and an answer under way is
\* nothing or no less than what was shown.
PageInOrder ==
    /\ GrantPageTypeOK
    /\ entry.funded <= funded /\ own.funded <= funded /\ least <= funded
    /\ query.got <= funded /\ (query.read => query.got = 0 \/ query.got >= least)
    /\ entry = NoData \/ entry.funded = 0 \/ entry.funded = least
    /\ own.state = "asked" => place = "fund"
    /\ GrantPageIsHonest

LEMMA PageInitially == GrantPageInit => PageInOrder
<1> SUFFICES ASSUME GrantPageInit PROVE PageInOrder
  OBVIOUS
<1> USE DEF GrantPageInit, NoData, NoQuery, NotFetched, NoReaders
<1>1. GrantPageTypeOK
  BY DEF GrantPageTypeOK, Shapes, Places
<1>2. GrantPageIsHonest
  BY DEF GrantPageIsHonest, FundsWithinLeft, EntryNeverGoesBack, OpenPageCanCompute
<1> QED BY <1>1, <1>2 DEF PageInOrder

\* A query that was just asked has read nothing.
LEMMA FreshQuery ==
  ASSUME NEW p, Reads(p)
  PROVE  /\ [NoQuery EXCEPT !.shape = ShapeAt[p]] \in [shape : Shapes, got : Nat, read : BOOLEAN]
         /\ [NoQuery EXCEPT !.shape = ShapeAt[p]].got = 0
         /\ ~[NoQuery EXCEPT !.shape = ShapeAt[p]].read
<1>1. ShapeAt[p] \in Shapes
  BY DEF Reads, ShapeAt, Shapes
<1> DEFINE shape == ShapeAt[p]
<1>2. shape \in Shapes
  BY <1>1
<1> HIDE DEF shape
<1>3. /\ [NoQuery EXCEPT !.shape = shape] \in [shape : Shapes, got : Nat, read : BOOLEAN]
      /\ [NoQuery EXCEPT !.shape = shape].got = 0
      /\ ~[NoQuery EXCEPT !.shape = shape].read
  BY <1>2 DEF NoQuery
<1> QED BY <1>3 DEF shape

LEMMA RerenderKeepsTypes ==
  ASSUME NEW base \in [new : Nat, old : Nat], Rerendered(base), timer \in Nat
  PROVE  readers' \in [new : Nat, old : Nat] /\ timer' \in Nat
<1>1. CASE fundDialog = "success" /\ place = "detail"
  <2> DEFINE n == IF base.new + 2 > MaxReaders THEN MaxReaders ELSE base.new + 2
  <2>1. n \in Nat
    BY GrantPageAssumption
  <2>2. readers' = [base EXCEPT !.new = n] /\ timer' = AutoClose
    BY <1>1 DEF Rerendered
  <2> HIDE DEF n
  <2> QED BY <2>1, <2>2, GrantPageAssumption
<1>2. CASE ~(fundDialog = "success" /\ place = "detail")
  BY <1>2 DEF Rerendered
<1> QED BY <1>1, <1>2

LEMMA PageStep ==
  ASSUME PageInOrder, [GrantPageNext]_grantPageVars
  PROVE  PageInOrder'
<1> USE GrantPageAssumption DEF PageInOrder, GrantPageTypeOK, GrantPageIsHonest, FundsWithinLeft,
        EntryNeverGoesBack, OpenPageCanCompute, Shapes, Places, Reads, ShapeAt, Renders, CanFund
<1>1. ASSUME NEW p \in Places, Go(p)
      PROVE  PageInOrder'
  <2> USE <1>1 DEF Go
  <2>1. own' \in [state : {"none", "asked", "shown", "missing"}, funded : Nat]
        /\ own'.funded = 0 /\ (own'.state = "asked" => p = "fund")
    BY DEF NotFetched
  <2>2. readers' \in [new : Nat, old : Nat] /\ (place' # "detail" => readers' = NoReaders)
    BY DEF NoReaders
  <2>3. place' \in Places \cup {"crashed"} /\ (p = "fund" => place' = "fund")
        /\ (place' = "detail" => Renders(entry))
    OBVIOUS
  <2> QED BY <2>1, <2>2, <2>3
<1>2. CASE CacheExpires
  BY <1>2 DEF CacheExpires, NoData, NoQuery
<1>3. CASE AskGrant
  <2>1. query' \in [shape : Shapes, got : Nat, read : BOOLEAN] /\ query'.got = 0 /\ ~query'.read
    BY <1>3, FreshQuery DEF AskGrant
  <2> QED BY <1>3, <2>1 DEF AskGrant
<1>4. CASE ReadGrant
  <2> USE <1>4 DEF ReadGrant
  <2>1. PICK got \in FundersSum : query' = [query EXCEPT !.got = got, !.read = TRUE]
    OBVIOUS
  <2>2. got \in Nat /\ (got = 0 \/ got >= least) /\ got <= funded
    BY DEF FundersSum
  <2>3. query' \in [shape : Shapes, got : Nat, read : BOOLEAN] /\ query'.got = got
    BY <2>1, <2>2
  <2> QED BY <2>2, <2>3
<1>5. CASE AnswerGrant
  <2> USE <1>5 DEF AnswerGrant
  <2>1. /\ entry' \in [shape : Shapes, funded : Nat] /\ entry'.funded = query.got
        /\ least' \in Nat /\ least' <= funded' /\ (query.got = 0 \/ least' = query.got)
        /\ query' = NoQuery
    OBVIOUS
  <2>2. query' \in [shape : Shapes, got : Nat, read : BOOLEAN] /\ query'.got = 0 /\ ~query'.read
    BY <2>1 DEF NoQuery
  <2>3. CASE place = "detail" /\ ~Renders(entry')
    BY <2>1, <2>2, <2>3 DEF NoReaders
  <2>4. CASE ~(place = "detail" /\ ~Renders(entry'))
    <3>1. /\ readers' \in [new : Nat, old : Nat] /\ timer' \in Nat
          /\ place # "detail" => readers' = readers /\ timer' = timer
      BY <2>4 DEF Rerendered
    <3>2. UNCHANGED <<place, fundDialog, own, funded, offers>>
      BY <2>4
    <3> QED BY <2>1, <2>2, <2>4, <3>1, <3>2
  <2> QED BY <2>3, <2>4
<1>6. CASE AnswerOwn
  <2> USE <1>6 DEF AnswerOwn, NotFetched, FundersSum
  <2>1. /\ own' \in [state : {"none", "asked", "shown", "missing"}, funded : Nat]
        /\ own'.funded <= funded /\ own'.state # "asked"
    OBVIOUS
  <2>2. fundDialog = "closed"
    OBVIOUS
  <2> QED BY <2>1, <2>2
<1>7. ASSUME NEW age \in {"new", "old"}, AnswerFunders(age)
      PROVE  PageInOrder'
  <2> USE <1>7 DEF AnswerFunders
  <2>1. readers[age] > 0 /\ readers # NoReaders
    BY DEF NoReaders
  <2> DEFINE base == [readers EXCEPT ![age] = @ - 1]
  <2>3. base \in [new : Nat, old : Nat]
    BY <2>1
  <2>4. Rerendered(base) /\ place = "detail"
    BY <2>1
  <2> HIDE DEF base
  <2>2. readers' \in [new : Nat, old : Nat] /\ timer' \in Nat
    BY <2>3, <2>4, RerenderKeepsTypes
  <2> QED BY <2>2, <2>4
<1>8. CASE OpenDialog
  BY <1>8 DEF OpenDialog, CanFund
<1>9. CASE Funded
  <2> USE <1>9 DEF Funded
  <2>1. query' \in [shape : Shapes, got : Nat, read : BOOLEAN] /\ query'.got = 0 /\ ~query'.read
    <3>1. CASE Reads(place)
      <4>1. query' = [NoQuery EXCEPT !.shape = ShapeAt[place]]
        BY <3>1
      <4> QED BY <3>1, <4>1, FreshQuery
    <3>2. CASE ~Reads(place)
      BY <3>2 DEF NoQuery
    <3> QED BY <3>1, <3>2
  <2>2. /\ readers' \in [new : Nat, old : Nat] /\ timer' \in Nat
        /\ place # "detail" => readers' = readers /\ timer' = timer
    OBVIOUS
  <2> QED BY <2>1, <2>2 DEF CanFund
<1>10. CASE CloseDialog
  BY <1>10 DEF CloseDialog, CanFund
<1>11. CASE ClosesItself
  BY <1>11 DEF ClosesItself, CanFund
<1>12. CASE TickPage
  <2>1. place = "detail"
    BY <1>12 DEF TickPage
  <2>2. readers' \in [new : Nat, old : Nat] /\ timer' \in Nat
    BY <1>12 DEF TickPage
  <2> QED BY <1>12, <2>1, <2>2 DEF TickPage, CanFund
<1>13. ASSUME NEW amount \in 1..Budget, SubmitFunding(amount)
       PROVE  PageInOrder'
  <2> USE <1>13 DEF SubmitFunding
  <2>1. Knows \in Nat /\ Knows <= funded
    BY DEF Knows
  <2>2. amount \in Nat /\ amount + Knows <= Budget
    BY <2>1 DEF ValidAmount, Unfunded
  <2> DEFINE new == [amount |-> amount, knew |-> Knows, n |-> Cardinality(offers)]
  <2>3. new.amount = amount /\ new.knew = Knows
    OBVIOUS
  <2>4. \A o \in offers' : o \in offers \/ o = new
    OBVIOUS
  <2> HIDE DEF new
  <2>5. FundsWithinLeft' /\ \A o \in offers' : o.amount \in Nat /\ o.knew \in Nat
    BY <2>1, <2>2, <2>3, <2>4
  <2> QED BY <2>5 DEF CanFund
<1>14. CASE OthersFund
  <2>1. funded' \in Nat /\ funded' >= funded
    BY <1>14 DEF OthersFund
  <2> QED BY <1>14, <2>1 DEF OthersFund, CanFund
<1>15. CASE UNCHANGED grantPageVars
  BY <1>15 DEF grantPageVars, CanFund
<1> QED BY <1>1, <1>2, <1>3, <1>4, <1>5, <1>6, <1>7, <1>8, <1>9, <1>10, <1>11, <1>12, <1>13,
           <1>14, <1>15 DEF GrantPageNext

-----------------------------------------------------------------------------
(* The form of a contribution (FundGrantModal.tsx, useFundGrant.ts). *)

FundFormTypeOK ==
    /\ formOn \in {"dialog", "page"}
    /\ donor \in Donor \cup {NoDonor}
    /\ purse \in [xlm : Nat, loading : BOOLEAN]
    /\ fundForm \in [at : {"closed", "open", "thanks"}, amount : Nat, error : BOOLEAN, tried : BOOLEAN]
    /\ left \in Nat /\ donated \in Nat
    /\ filled \in [amount : Nat, held : Nat, left : Nat]

\* The inductive invariant: an open form has given nothing yet.
FormInOrder ==
    /\ FundFormTypeOK
    /\ fundForm.at = "open" => donated = 0
    /\ FormIsHonest

LEMMA FormInitially == FundFormInit => FormInOrder
<1> SUFFICES ASSUME FundFormInit PROVE FormInOrder
  OBVIOUS
<1>1. FundFormTypeOK
  BY GrantPageAssumption DEF FundFormInit, FundFormTypeOK, NoFill, EmptyForm
<1>2. fundForm.at # "thanks" /\ donated = 0
  BY DEF FundFormInit, EmptyForm
<1> QED BY <1>1, <1>2 DEF FundFormInit, FormInOrder, FormIsHonest, BalanceIsOwn, MaxIsWithin, GivesOnce

\* What is read up to the first separator is no more than what was printed.
LEMMA ReadsNoMore ==
  ASSUME NEW amount \in Nat
  PROVE  /\ XlmToStroops(amount) \in Nat /\ XlmToStroops(amount) <= amount
         /\ amount < Thousand => XlmToStroops(amount) = amount
<1>1. Thousand \in Nat /\ Thousand > 0
  BY FundFormAssumption
<1>2. amount \div Thousand \in Nat /\ amount \div Thousand <= amount
  <2>1. Thousand * (amount \div Thousand) <= amount /\ amount \div Thousand \in Nat
    BY <1>1, SMTT(30)
  <2> DEFINE d == amount \div Thousand
  <2>2. d \in Nat /\ Thousand * d <= amount
    BY <2>1
  <2> HIDE DEF d
  <2>3. d <= Thousand * d
    BY <1>1, <2>2, SMTT(30)
  <2> QED BY <1>1, <2>2, <2>3 DEF d
<1> QED BY <1>1, <1>2 DEF XlmToStroops

LEMMA FormStep ==
  ASSUME FormInOrder, [FundFormNext]_fundFormVars
  PROVE  FormInOrder'
<1> USE GrantPageAssumption, FundFormAssumption
    DEF FormInOrder, FundFormTypeOK, FormIsHonest, BalanceIsOwn, MaxIsWithin, GivesOnce
<1>1. ASSUME NEW w \in Donor \cup {NoDonor}, ConnectDonor(w)
      PROVE  FormInOrder'
  <2> USE <1>1 DEF ConnectDonor
  <2>1. purse' \in [xlm : Nat, loading : BOOLEAN] /\ (w # NoDonor => purse'.loading)
    OBVIOUS
  <2> QED BY <2>1
<1>2. CASE BalanceLoaded
  BY <1>2 DEF BalanceLoaded
<1>3. ASSUME NEW w \in Donor, LateBalance(w)
      PROVE  FormInOrder'
  BY <1>3 DEF LateBalance
<1>4. CASE OpenForm
  BY <1>4 DEF OpenForm, EmptyForm, NoFill
<1>5. CASE CloseForm
  <2>1. /\ fundForm' \in [at : {"closed", "open", "thanks"}, amount : Nat, error : BOOLEAN, tried : BOOLEAN]
        /\ fundForm'.at = "closed"
    BY <1>5 DEF CloseForm, EmptyForm
  <2> QED BY <1>5, <2>1 DEF CloseForm
<1>6. ASSUME NEW amount \in 0..(Budget + 1), TypeAmount(amount)
      PROVE  FormInOrder'
  <2> USE <1>6 DEF TypeAmount, FormShown
  <2> DEFINE wrong == formOn = "dialog" /\ fundForm.tried /\ ~Acceptable(amount)
  <2>1. wrong \in BOOLEAN
    OBVIOUS
  <2>2. fundForm' = [fundForm EXCEPT !.amount = amount, !.error = wrong] /\ amount \in Nat
    OBVIOUS
  <2> HIDE DEF wrong
  <2>3. /\ fundForm' \in [at : {"closed", "open", "thanks"}, amount : Nat, error : BOOLEAN, tried : BOOLEAN]
        /\ fundForm'.at = fundForm.at
    BY <2>1, <2>2
  <2> QED BY <2>3 DEF NoFill
<1>7. CASE ClickMax
  <2> USE <1>7 DEF ClickMax
  <2> DEFINE amount == XlmToStroops(MaxFundable)
             wrong == ~Acceptable(amount)
  <2>1. MaxFundable \in Nat /\ MaxFundable > 0 /\ donor \in Donor /\ purse.xlm = HeldBy[donor]
    BY DEF MaxFundable, FormShown, Prompted
  <2>2. /\ amount \in Nat /\ amount <= MaxFundable
        /\ MaxFundable < Thousand => amount = MaxFundable
    BY <2>1, ReadsNoMore
  <2>3. MaxFundable = IF HeldBy[donor] < left THEN HeldBy[donor] ELSE left
    BY <2>1 DEF MaxFundable
  <2>4. wrong \in BOOLEAN /\ HeldBy[donor] \in Nat
    BY <2>1
  <2>5. /\ fundForm' = [fundForm EXCEPT !.amount = amount, !.error = wrong]
        /\ filled' = [amount |-> amount, held |-> HeldBy[donor], left |-> left]
    OBVIOUS
  <2> HIDE DEF amount, wrong
  <2>6. /\ fundForm' \in [at : {"closed", "open", "thanks"}, amount : Nat, error : BOOLEAN, tried : BOOLEAN]
        /\ fundForm'.at = fundForm.at
    BY <2>2, <2>4, <2>5
  <2>7. /\ filled' \in [amount : Nat, held : Nat, left : Nat]
        /\ filled'.amount = amount /\ filled'.held = HeldBy[donor] /\ filled'.left = left
    BY <2>2, <2>4, <2>5
  <2> QED BY <2>2, <2>3, <2>6, <2>7
<1>8. CASE SubmitForm
  <2> USE <1>8 DEF SubmitForm, SubmitOffered, FormShown
  <2>1. CASE Acceptable(fundForm.amount)
    <3>0. fundForm.at = "open" /\ donated = 0
      OBVIOUS
    <3>1. /\ fundForm' = [fundForm EXCEPT !.at = "thanks", !.error = FALSE]
          /\ donated' = donated + 1
      BY <2>1
    <3>2. fundForm \in [at : {"closed", "open", "thanks"}, amount : Nat, error : BOOLEAN, tried : BOOLEAN]
      OBVIOUS
    <3>3. fundForm' \in [at : {"closed", "open", "thanks"}, amount : Nat, error : BOOLEAN, tried : BOOLEAN]
      BY ONLY <3>1, <3>2
    <3>4. fundForm'.at = "thanks"
      BY ONLY <3>1, <3>2
    <3>5. donated' = 1
      BY ONLY <3>0, <3>1
    <3>6. UNCHANGED <<formOn, donor, purse, lateLoads, left, filled, connected>>
      OBVIOUS
    <3> HIDE <1>8
    <3> QED BY <3>3, <3>4, <3>5, <3>6
  <2>2. CASE ~Acceptable(fundForm.amount)
    <3>1. /\ fundForm' \in [at : {"closed", "open", "thanks"}, amount : Nat, error : BOOLEAN, tried : BOOLEAN]
          /\ fundForm'.at = "open" /\ donated' = donated
      BY <2>2
    <3> QED BY <3>1
  <2> QED BY <2>1, <2>2
<1>9. CASE LeftChanges
  BY <1>9 DEF LeftChanges
<1>10. CASE UNCHANGED fundFormVars
  BY <1>10 DEF fundFormVars
<1> QED BY <1>1, <1>2, <1>3, <1>4, <1>5, <1>6, <1>7, <1>8, <1>9, <1>10 DEF FundFormNext

-----------------------------------------------------------------------------
(* The feed of events of the frontend (subscription.ts).                   *)

FeedStatus == {"new", "connecting", "reconnecting", "active", "closed"}
ClosureType == [sockets : BOOLEAN, status : FeedStatus, cursor : Nat, retries : Nat,
                stopped : BOOLEAN]
StreamType == [at : {"none", "opening", "open"}, sent : Nat]
AskedType == [from : Nat \cup {NotAsked}, upTo : Nat \cup {NotAsked}]
HandlesType == [poll : {"none", "start", "poll"}, heart : BOOLEAN]
LooseType == [{"start", "poll"} -> Nat]
TroubleType == [faults : Nat, late : BOOLEAN]

FeedTypeOK ==
    /\ published \in Nat /\ closure \in ClosureType /\ stream \in StreamType
    /\ request \in [FeedAsk -> AskedType] /\ handles \in HandlesType /\ loose \in LooseType
    /\ gotten \in SUBSET Nat /\ webTrouble \in TroubleType

\* What a poll or the socket goes on from was given to the handler.
AskFollows(r) == /\ r.from # NotAsked => 1..r.from \subseteq gotten
                 /\ r.upTo # NotAsked => r.from # NotAsked
StreamFollows == stream.at # "none" => 1..stream.sent \subseteq gotten
StoppedIsQuiet == closure.stopped => stream.at = "none" /\ closure.status = "closed"

\* The inductive invariant.
FeedInOrder ==
    /\ FeedTypeOK /\ NothingSkipped /\ FeedCarriesOn
    /\ (\A q \in FeedAsk : AskFollows(request[q])) /\ StreamFollows /\ StoppedIsQuiet

LEMMA FeedInitially == WebEventInit => FeedInOrder
<1> SUFFICES ASSUME WebEventInit PROVE FeedInOrder
  OBVIOUS
<1>1. PICK sockets \in BOOLEAN :
        closure = [sockets |-> sockets, status |-> "new", cursor |-> 0, retries |-> 0,
                   stopped |-> FALSE]
  BY DEF WebEventInit
<1>2. closure \in ClosureType /\ closure.cursor = 0 /\ closure.status = "new" /\ ~closure.stopped
  BY <1>1 DEF ClosureType, FeedStatus
<1>3. /\ NoStream \in StreamType /\ NoStream.at = "none" /\ NoHandles \in HandlesType
      /\ NoFeedAsk \in AskedType /\ NoFeedAsk.from = NotAsked /\ NoFeedAsk.upTo = NotAsked
  BY DEF NoStream, StreamType, NoHandles, HandlesType, NoFeedAsk, AskedType
<1>4. FeedTypeOK
  BY <1>2, <1>3 DEF WebEventInit, FeedTypeOK, LooseType, TroubleType
<1>5. webTrouble.late = FALSE
  BY DEF WebEventInit
<1>6. NothingSkipped /\ FeedCarriesOn
  BY <1>2, <1>5 DEF NothingSkipped, FeedCarriesOn
<1>7. (\A q \in FeedAsk : AskFollows(request[q])) /\ StreamFollows /\ StoppedIsQuiet
  BY <1>2, <1>3 DEF WebEventInit, AskFollows, StreamFollows, StoppedIsQuiet
<1> QED BY <1>4, <1>6, <1>7 DEF FeedInOrder

\* Something carries the subscription on.
Carried ==
    \/ handles.poll # "none" \/ \E tick \in DOMAIN loose : loose[tick] > 0
    \/ \E q \in FeedAsk : request[q] # NoFeedAsk
    \/ stream.at # "none" /\ handles.heart

\* A poll goes out: it goes on from the cursor.
LEMMA FeedPolls ==
  ASSUME FeedInOrder, PollFeed
  PROVE  /\ request' \in [FeedAsk -> AskedType]
         /\ \A q \in FeedAsk : request'[q] = request[q] \/
               (request'[q].from = closure.cursor /\ request'[q].upTo = NotAsked)
         /\ closure.stopped \/ \E q \in FeedAsk : request'[q] # NoFeedAsk
<1>1. /\ request \in [FeedAsk -> AskedType] /\ closure.cursor \in Nat
  BY DEF FeedInOrder, FeedTypeOK, ClosureType
<1>2. CASE closure.stopped /\ UNCHANGED request
  BY <1>1, <1>2
<1>3. CASE ~closure.stopped
  <2>1. PICK q \in FeedAsk :
           request[q] = NoFeedAsk /\ request' = [request EXCEPT ![q].from = closure.cursor]
    BY <1>3 DEF PollFeed
  <2> DEFINE next == [NoFeedAsk EXCEPT !.from = closure.cursor]
  <2>2. next \in AskedType /\ next.from = closure.cursor /\ next.upTo = NotAsked
    BY <1>1 DEF NoFeedAsk, AskedType
  <2>3. request' = [request EXCEPT ![q] = next]
    BY <1>1, <2>1
  <2>4. next # NoFeedAsk
    BY <1>1, <2>2 DEF NoFeedAsk, NotAsked
  <2> HIDE DEF next
  <2>5. request' \in [FeedAsk -> AskedType]
        /\ \A r \in FeedAsk : request'[r] = IF r = q THEN next ELSE request[r]
    BY <1>1, <2>2, <2>3
  <2> QED BY <2>2, <2>4, <2>5
<1> QED BY <1>2, <1>3 DEF PollFeed

\* start().
LEMMA FeedStarts ==
  ASSUME FeedInOrder, NEW fired \in HandlesType, StartFeed(fired),
         loose' \in LooseType, UNCHANGED <<published, gotten, webTrouble>>
  PROVE  FeedInOrder'
<1>1. /\ FeedTypeOK /\ closure \in ClosureType /\ closure.cursor \in Nat
      /\ (\A q \in FeedAsk : AskFollows(request[q])) /\ 1..closure.cursor \subseteq gotten
  BY DEF FeedInOrder, FeedTypeOK, ClosureType, NothingSkipped
<1>2. CASE closure.stopped
  <2>1. handles' = fired /\ UNCHANGED <<closure, stream, request>>
    BY <1>2 DEF StartFeed
  <2>2. FeedTypeOK'
    BY <1>1, <2>1 DEF FeedTypeOK
  <2>3. FeedCarriesOn'
    BY <1>2, <2>1 DEF FeedInOrder, StoppedIsQuiet, FeedCarriesOn
  <2> QED BY <2>1, <2>2, <2>3 DEF FeedInOrder, NothingSkipped, AskFollows, StreamFollows, StoppedIsQuiet
<1>3. CASE ~closure.stopped
  <2> DEFINE next == [closure EXCEPT !.status = "connecting"]
  <2>1. /\ next \in ClosureType /\ next.cursor = closure.cursor /\ next.stopped = closure.stopped
        /\ next.status = "connecting"
    BY <1>1 DEF ClosureType, FeedStatus
  <2>2. closure' = next
    BY <1>3 DEF StartFeed
  <2> HIDE DEF next
  <2>3. NothingSkipped' /\ StoppedIsQuiet'
    BY <1>1, <1>3, <2>1, <2>2 DEF NothingSkipped, StoppedIsQuiet
  <2>4. CASE closure.sockets
    <3> DEFINE then == [fired EXCEPT !.heart = TRUE]
               opened == [at |-> "opening", sent |-> closure.cursor]
    <3>1. then \in HandlesType /\ then.heart = TRUE
      BY DEF HandlesType
    <3>2. opened \in StreamType /\ opened.at = "opening" /\ opened.sent = closure.cursor
      BY <1>1 DEF StreamType
    <3>3. stream' = opened /\ handles' = then /\ request' = request
      BY <1>3, <2>4 DEF StartFeed
    <3> HIDE DEF then, opened
    <3>4. FeedTypeOK'
      BY <1>1, <2>1, <2>2, <3>1, <3>2, <3>3 DEF FeedTypeOK
    <3>5. FeedCarriesOn'
      BY <3>1, <3>2, <3>3 DEF FeedInOrder, FeedCarriesOn
    <3>6. (\A q \in FeedAsk : AskFollows(request[q]))' /\ StreamFollows'
      BY <1>1, <3>2, <3>3 DEF AskFollows, StreamFollows
    <3> QED BY <2>3, <3>4, <3>5, <3>6 DEF FeedInOrder
  <2>5. CASE ~closure.sockets
    <3>1. PollFeed /\ handles' = fired /\ stream' = stream
      BY <1>3, <2>5 DEF StartFeed
    <3>2. /\ request' \in [FeedAsk -> AskedType]
          /\ \A q \in FeedAsk : request'[q] = request[q] \/
                (request'[q].from = closure.cursor /\ request'[q].upTo = NotAsked)
          /\ \E q \in FeedAsk : request'[q] # NoFeedAsk
      BY <1>3, <3>1, FeedPolls
    <3>3. FeedTypeOK'
      BY <1>1, <2>1, <2>2, <3>1, <3>2 DEF FeedTypeOK
    <3>4. FeedCarriesOn'
      BY <3>2 DEF FeedInOrder, FeedCarriesOn
    <3>5. \A q \in FeedAsk : AskFollows(request[q])'
      BY <1>1, <3>2 DEF AskFollows
    <3>6. StreamFollows'
      BY <3>1 DEF FeedInOrder, StreamFollows
    <3> QED BY <2>3, <3>3, <3>4, <3>5, <3>6 DEF FeedInOrder
  <2> QED BY <2>4, <2>5
<1> QED BY <1>2, <1>3

LEMMA FeedTimers ==
  ASSUME FeedInOrder,
         \/ SubscribeFeed \/ PollTimerFires
         \/ \E tick \in {"start", "poll"} : LooseTimerFires(tick)
  PROVE  FeedInOrder'
<1>1. /\ FeedTypeOK /\ handles \in HandlesType /\ loose \in LooseType
  BY DEF FeedInOrder, FeedTypeOK
<1>2. CASE SubscribeFeed
  <2>1. NoHandles \in HandlesType
    BY DEF NoHandles, HandlesType
  <2> QED BY <1>1, <1>2, <2>1, FeedStarts DEF SubscribeFeed
<1> DEFINE fired == [handles EXCEPT !.poll = "none"]
<1>3. fired \in HandlesType
  BY <1>1 DEF HandlesType
<1>4. ASSUME PollFeed, handles' \in HandlesType, loose' \in LooseType,
             UNCHANGED <<closure, stream, published, gotten, webTrouble>>
      PROVE  FeedInOrder'
  <2>1. /\ request' \in [FeedAsk -> AskedType]
        /\ \A q \in FeedAsk : request'[q] = request[q] \/
              (request'[q].from = closure.cursor /\ request'[q].upTo = NotAsked)
        /\ closure.stopped \/ \E q \in FeedAsk : request'[q] # NoFeedAsk
    BY <1>4, FeedPolls
  <2>2. FeedTypeOK'
    BY <1>1, <1>4, <2>1 DEF FeedTypeOK
  <2>3. FeedCarriesOn'
    BY <1>4, <2>1 DEF FeedInOrder, FeedCarriesOn, StoppedIsQuiet
  <2>4. \A q \in FeedAsk : AskFollows(request[q])'
    BY <1>4, <2>1 DEF FeedInOrder, NothingSkipped, AskFollows
  <2>5. NothingSkipped' /\ StreamFollows' /\ StoppedIsQuiet'
    BY <1>4 DEF FeedInOrder, NothingSkipped, StreamFollows, StoppedIsQuiet
  <2> QED BY <2>2, <2>3, <2>4, <2>5 DEF FeedInOrder
<1>5. CASE PollTimerFires
  <2>1. UNCHANGED <<published, loose, gotten, webTrouble>>
    BY <1>5 DEF PollTimerFires
  <2>2. StartFeed(fired) \/ (PollFeed /\ handles' = fired /\ UNCHANGED <<closure, stream>>)
    BY <1>5 DEF PollTimerFires
  <2> HIDE DEF fired
  <2> QED BY <1>1, <1>3, <1>4, <2>1, <2>2, FeedStarts
<1>6. ASSUME NEW tick \in {"start", "poll"}, LooseTimerFires(tick)
      PROVE  FeedInOrder'
  <2>1. loose' = [loose EXCEPT ![tick] = @ - 1] /\ loose[tick] > 0
        /\ UNCHANGED <<published, gotten, webTrouble>>
    BY <1>6 DEF LooseTimerFires
  <2>2. loose' \in LooseType
    BY <1>1, <2>1 DEF LooseType
  <2>3. StartFeed(handles) \/ (PollFeed /\ UNCHANGED <<closure, stream, handles>>)
    BY <1>6 DEF LooseTimerFires
  <2> QED BY <1>1, <1>4, <2>1, <2>2, <2>3, FeedStarts
<1> QED BY <1>2, <1>5, <1>6

\* A try that is repeated, or the last one.
LEMMA FeedTriesAgain ==
  ASSUME FeedTypeOK, NEW c \in ClosureType, PollAgain(c)
  PROVE  /\ closure' \in ClosureType /\ closure'.cursor = c.cursor /\ closure'.stopped = c.stopped
         /\ handles' \in HandlesType /\ loose' \in LooseType /\ webTrouble' \in TroubleType
         /\ webTrouble'.late = webTrouble.late
         /\ closure'.status = "closed" \/ loose'["poll"] > 0
<1>1. handles \in HandlesType /\ loose \in LooseType /\ webTrouble \in TroubleType
  BY DEF FeedTypeOK
<1>2. webTrouble' \in TroubleType /\ webTrouble'.late = webTrouble.late
  <2> DEFINE next == [webTrouble EXCEPT !.faults = @ + 1]
  <2>1. next \in TroubleType /\ next.late = webTrouble.late
    BY <1>1 DEF TroubleType
  <2>2. webTrouble' = next
    BY DEF PollAgain, Fault
  <2> QED BY <2>1, <2>2
<1> DEFINE tried == [c EXCEPT !.retries = @ + 1]
           over == [tried EXCEPT !.status = "closed"]
           again == [tried EXCEPT !.status = "reconnecting"]
<1>3. tried \in ClosureType /\ tried.cursor = c.cursor /\ tried.stopped = c.stopped
  BY DEF ClosureType
<1>4. /\ [c EXCEPT !.retries = @ + 1, !.status = "closed"] = over
      /\ [c EXCEPT !.retries = @ + 1, !.status = "reconnecting"] = again
  BY DEF ClosureType
<1> HIDE DEF tried
<1>5. /\ over \in ClosureType /\ over.cursor = c.cursor /\ over.stopped = c.stopped
      /\ over.status = "closed"
  BY <1>3 DEF ClosureType, FeedStatus
<1>6. again \in ClosureType /\ again.cursor = c.cursor /\ again.stopped = c.stopped
  BY <1>3 DEF ClosureType, FeedStatus
<1>7. CASE c.retries + 1 > MaxWebRetries
  <2>1. closure' = over /\ handles' = NoHandles /\ loose' = loose
    BY <1>4, <1>7 DEF PollAgain
  <2>2. NoHandles \in HandlesType
    BY DEF NoHandles, HandlesType
  <2> HIDE DEF over, again
  <2> QED BY <1>1, <1>2, <1>5, <2>1, <2>2
<1>8. CASE ~(c.retries + 1 > MaxWebRetries)
  <2>1. closure' = again /\ handles' = handles /\ loose' = [loose EXCEPT !["poll"] = @ + 1]
    BY <1>4, <1>8 DEF PollAgain
  <2> HIDE DEF over, again
  <2>2. loose' \in LooseType /\ loose'["poll"] > 0
    BY <1>1, <2>1 DEF LooseType
  <2> QED BY <1>1, <1>2, <1>6, <2>1, <2>2
<1> QED BY <1>7, <1>8

\* A poll is over.
LEMMA FeedAnswered ==
  ASSUME FeedTypeOK, NEW q \in FeedAsk, AnsweredWith(q)
  PROVE  request' \in [FeedAsk -> AskedType]
         /\ \A p \in FeedAsk : request'[p] = IF p = q THEN NoFeedAsk ELSE request[p]
  BY DEF FeedTypeOK, AnsweredWith, NoFeedAsk, AskedType

\* Rows of events that go on.
LEMMA FeedGoesOn ==
  ASSUME NEW a \in Nat, NEW b \in Nat, NEW got \in SUBSET Nat, 1..a \subseteq got
  PROVE  1..b \subseteq got \cup (a + 1 .. b)
  OBVIOUS

LEMMA MovedOnIs ==
  ASSUME closure \in ClosureType, NEW r \in AskedType, r.upTo \in Nat
  PROVE  /\ MovedOn(r) \in ClosureType /\ MovedOn(r).cursor = r.upTo
         /\ MovedOn(r).stopped = closure.stopped
<1> DEFINE half == [closure EXCEPT !.cursor = r.upTo]
           third == [half EXCEPT !.retries = 0]
           next == [third EXCEPT !.status = "active"]
<1>1. half \in ClosureType /\ half.cursor = r.upTo /\ half.stopped = closure.stopped
  BY DEF ClosureType
<1>2. MovedOn(r) = next
  BY DEF MovedOn, ClosureType
<1> HIDE DEF half
<1>3. third \in ClosureType /\ third.cursor = r.upTo /\ third.stopped = closure.stopped
  BY <1>1 DEF ClosureType
<1> HIDE DEF third
<1>4. next \in ClosureType /\ next.cursor = r.upTo /\ next.stopped = closure.stopped
  BY <1>3 DEF ClosureType, FeedStatus
<1> QED BY <1>2, <1>4

LEMMA FeedAnswers ==
  ASSUME FeedInOrder, NEW q \in FeedAsk, AnswerFeed(q) \/ FeedFails(q)
  PROVE  FeedInOrder'
<1>1. /\ FeedTypeOK /\ closure \in ClosureType /\ closure.cursor \in Nat
      /\ (\A p \in FeedAsk : AskFollows(request[p])) /\ 1..closure.cursor \subseteq gotten
      /\ gotten \in SUBSET Nat /\ webTrouble.late = FALSE
      /\ StreamFollows /\ StoppedIsQuiet
  BY DEF FeedInOrder, FeedTypeOK, ClosureType, NothingSkipped, FeedCarriesOn, TroubleType
<1> DEFINE r == request[q]
<1>2. /\ request' \in [FeedAsk -> AskedType]
      /\ \A p \in FeedAsk : request'[p] = IF p = q THEN NoFeedAsk ELSE request[p]
  BY <1>1, FeedAnswered DEF AnswerFeed, FeedFails
<1>3. published' = published /\ stream' = stream
  BY DEF AnswerFeed, FeedFails
\* Whatever the handler is given, what was given stays given.
<1>4. ASSUME gotten' \in SUBSET Nat, gotten \subseteq gotten'
      PROVE  (\A p \in FeedAsk : AskFollows(request[p])') /\ StreamFollows'
  BY <1>1, <1>2, <1>3, <1>4 DEF AskFollows, StreamFollows, NoFeedAsk
<1>5. CASE closure.stopped
  <2>1. UNCHANGED <<closure, handles, loose, gotten, webTrouble>>
    BY <1>5 DEF AnswerFeed, FeedFails
  <2>2. FeedTypeOK'
    BY <1>1, <1>2, <1>3, <2>1 DEF FeedTypeOK
  <2>3. FeedCarriesOn' /\ StoppedIsQuiet' /\ NothingSkipped'
    BY <1>1, <1>3, <1>5, <2>1 DEF FeedCarriesOn, StoppedIsQuiet, NothingSkipped
  <2> QED BY <1>1, <1>4, <2>1, <2>2, <2>3 DEF FeedInOrder
<1>6. ASSUME ~closure.stopped, NEW c \in ClosureType, PollAgain(c), c.stopped = closure.stopped,
             gotten' \in SUBSET Nat, gotten \subseteq gotten', 1..c.cursor \subseteq gotten'
      PROVE  FeedInOrder'
  <2>1. /\ closure' \in ClosureType /\ closure'.cursor = c.cursor /\ closure'.stopped = c.stopped
        /\ handles' \in HandlesType /\ loose' \in LooseType /\ webTrouble' \in TroubleType
        /\ webTrouble'.late = webTrouble.late
        /\ closure'.status = "closed" \/ loose'["poll"] > 0
    BY <1>1, <1>6, FeedTriesAgain
  <2>2. FeedTypeOK'
    BY <1>1, <1>2, <1>3, <1>6, <2>1 DEF FeedTypeOK
  <2>3. FeedCarriesOn' /\ StoppedIsQuiet' /\ NothingSkipped'
    BY <1>1, <1>6, <2>1 DEF FeedCarriesOn, StoppedIsQuiet, NothingSkipped, LooseType
  <2> QED BY <1>4, <1>6, <2>2, <2>3 DEF FeedInOrder
<1>7. CASE FeedFails(q) /\ ~closure.stopped
  BY <1>1, <1>6, <1>7 DEF FeedFails
<1>8. CASE AnswerFeed(q) /\ ~closure.stopped
  <2>1. /\ r \in AskedType /\ r.upTo \in Nat /\ r.from \in Nat /\ 1..r.from \subseteq gotten
    BY <1>1, <1>8 DEF AnswerFeed, AskFollows, FeedTypeOK, AskedType
  <2>2. /\ MovedOn(r) \in ClosureType /\ MovedOn(r).cursor = r.upTo
        /\ MovedOn(r).stopped = closure.stopped
    BY <1>1, <2>1, MovedOnIs
  <2>3. 1..r.upTo \subseteq gotten \cup (r.from + 1 .. r.upTo)
        /\ gotten \cup (r.from + 1 .. r.upTo) \in SUBSET Nat
    <3> DEFINE a == r.from
               b == r.upTo
    <3>1. a \in Nat /\ b \in Nat /\ gotten \in SUBSET Nat /\ 1..a \subseteq gotten
      BY <1>1, <2>1
    <3> HIDE DEF a, b
    <3>2. 1..b \subseteq gotten \cup (a + 1 .. b)
      BY ONLY <3>1, FeedGoesOn
    <3>3. a + 1 .. b \subseteq Nat
      BY <3>1
    <3> QED BY <3>1, <3>2, <3>3 DEF a, b
  <2>4. CASE /\ PollAgain(MovedOn(r)) /\ gotten' = gotten \cup (r.from + 1 .. r.upTo)
    <3>1. gotten' \in SUBSET Nat /\ gotten \subseteq gotten' /\ 1..MovedOn(r).cursor \subseteq gotten'
      BY <2>2, <2>3, <2>4
    <3> QED BY <1>6, <1>8, <2>2, <2>4, <3>1
  <2>5. CASE /\ closure' = MovedOn(r) /\ handles' = [poll |-> "poll", heart |-> TRUE]
             /\ loose' = Loosened(handles.poll) /\ DeliveredTo(r.from, r.upTo)
    <3>1. gotten' \in SUBSET Nat /\ gotten \subseteq gotten' /\ 1..r.upTo \subseteq gotten'
      BY <2>3, <2>5 DEF DeliveredTo
    <3>2. webTrouble' \in TroubleType /\ webTrouble'.late = FALSE
      BY <1>1, <1>8, <2>5 DEF DeliveredTo, FeedTypeOK, TroubleType
    <3>3. handles' \in HandlesType /\ handles'.poll = "poll"
      BY <2>5 DEF HandlesType
    <3>4. loose' \in LooseType
      BY <1>1, <2>5 DEF FeedTypeOK, LooseType, HandlesType, Loosened
    <3>5. FeedTypeOK'
      BY <1>1, <1>2, <1>3, <2>2, <2>5, <3>1, <3>2, <3>3, <3>4 DEF FeedTypeOK
    <3>6. FeedCarriesOn' /\ StoppedIsQuiet' /\ NothingSkipped'
      BY <1>8, <2>2, <2>5, <3>1, <3>2, <3>3 DEF FeedCarriesOn, StoppedIsQuiet, NothingSkipped
    <3> QED BY <1>4, <3>1, <3>5, <3>6 DEF FeedInOrder
  <2> QED BY <1>8, <2>4, <2>5 DEF AnswerFeed
<1> QED BY <1>5, <1>7, <1>8

\* The other steps: nothing is asked, and no timer of a poll is let go.
LEMMA FeedRest ==
  ASSUME FeedInOrder,
         \/ unsubscribe \/ HeartbeatFires \/ Publish \/ OpenStream
         \/ \E q \in FeedAsk : ReadFeed(q)
  PROVE  FeedInOrder'
<1>1. /\ FeedTypeOK /\ closure \in ClosureType /\ closure.cursor \in Nat
      /\ (\A p \in FeedAsk : AskFollows(request[p])) /\ NothingSkipped /\ FeedCarriesOn
      /\ StreamFollows /\ StoppedIsQuiet /\ webTrouble.late = FALSE
  BY DEF FeedInOrder, FeedTypeOK, ClosureType, FeedCarriesOn, TroubleType
<1>2. NoStream \in StreamType /\ NoStream.at = "none" /\ NoHandles \in HandlesType
  BY DEF NoStream, StreamType, NoHandles, HandlesType
<1>3. CASE unsubscribe
  <2> DEFINE half == [closure EXCEPT !.stopped = TRUE]
             next == [half EXCEPT !.status = "closed"]
  <2>1. half \in ClosureType /\ half.cursor = closure.cursor /\ half.stopped
    BY <1>1 DEF ClosureType
  <2>2. closure' = next
    BY <1>1, <1>3 DEF unsubscribe, ClosureType
  <2> HIDE DEF half
  <2>3. next \in ClosureType /\ next.cursor = closure.cursor /\ next.stopped /\ next.status = "closed"
    BY <2>1 DEF ClosureType, FeedStatus
  <2> HIDE DEF next
  <2>4. stream' = NoStream /\ handles' = NoHandles
        /\ UNCHANGED <<published, request, loose, gotten, webTrouble>>
    BY <1>3 DEF unsubscribe
  <2>5. FeedTypeOK'
    BY <1>1, <1>2, <2>2, <2>3, <2>4 DEF FeedTypeOK
  <2>6. FeedCarriesOn' /\ NothingSkipped' /\ StoppedIsQuiet' /\ StreamFollows'
    BY <1>1, <1>2, <2>2, <2>3, <2>4 DEF FeedCarriesOn, NothingSkipped, StoppedIsQuiet, StreamFollows
  <2>7. \A p \in FeedAsk : AskFollows(request[p])'
    BY <1>1, <2>4 DEF AskFollows
  <2> QED BY <2>5, <2>6, <2>7 DEF FeedInOrder
<1>4. CASE HeartbeatFires
  <2> DEFINE half == [closure EXCEPT !.status = "reconnecting"]
             next == [half EXCEPT !.retries = @ + 1]
             trouble2 == [webTrouble EXCEPT !.faults = @ + 1]
             held == [NoHandles EXCEPT !.poll = "start"]
  <2>1. half \in ClosureType /\ half.cursor = closure.cursor /\ half.stopped = closure.stopped
    BY <1>1 DEF ClosureType, FeedStatus
  <2>2. closure' = next /\ ~closure.stopped
    BY <1>1, <1>4 DEF HeartbeatFires, ClosureType
  <2> HIDE DEF half
  <2>3. next \in ClosureType /\ next.cursor = closure.cursor /\ next.stopped = closure.stopped
    BY <2>1 DEF ClosureType
  <2> HIDE DEF next
  <2>4. trouble2 \in TroubleType /\ trouble2.late = FALSE
    BY <1>1 DEF TroubleType, FeedTypeOK
  <2>5. held \in HandlesType /\ held.poll = "start"
    BY DEF HandlesType, NoHandles
  <2>6. stream' = NoStream /\ handles' = held /\ webTrouble' = trouble2
        /\ UNCHANGED <<published, request, loose, gotten>>
    BY <1>4 DEF HeartbeatFires, Fault
  <2> HIDE DEF trouble2, held
  <2>7. FeedTypeOK'
    BY <1>1, <1>2, <2>2, <2>3, <2>4, <2>5, <2>6 DEF FeedTypeOK
  <2>8. FeedCarriesOn' /\ NothingSkipped' /\ StoppedIsQuiet' /\ StreamFollows'
    BY <1>1, <1>2, <2>2, <2>3, <2>4, <2>5, <2>6 DEF FeedCarriesOn, NothingSkipped, StoppedIsQuiet, StreamFollows
  <2>9. \A p \in FeedAsk : AskFollows(request[p])'
    BY <1>1, <2>6 DEF AskFollows
  <2> QED BY <2>7, <2>8, <2>9 DEF FeedInOrder
<1>5. CASE Publish
  <2>1. published' \in Nat /\ UNCHANGED <<closure, stream, request, handles, loose, gotten, webTrouble>>
    BY <1>1, <1>5 DEF Publish, FeedTypeOK
  <2>2. FeedTypeOK'
    BY <1>1, <2>1 DEF FeedTypeOK
  <2> QED BY <1>1, <2>1, <2>2 DEF FeedInOrder, FeedCarriesOn, NothingSkipped, StoppedIsQuiet,
                                   StreamFollows, AskFollows
<1>6. CASE OpenStream
  <2> DEFINE next == [stream EXCEPT !.at = "open"]
  <2>1. next \in StreamType /\ next.sent = stream.sent /\ next.at # "none"
    BY <1>1 DEF FeedTypeOK, StreamType
  <2>2. stream' = next /\ stream.at # "none"
        /\ UNCHANGED <<published, closure, request, handles, loose, gotten, webTrouble>>
    BY <1>6 DEF OpenStream
  <2> HIDE DEF next
  <2>3. FeedTypeOK'
    BY <1>1, <2>1, <2>2 DEF FeedTypeOK
  <2>4. FeedCarriesOn' /\ NothingSkipped' /\ StoppedIsQuiet' /\ StreamFollows'
    BY <1>1, <2>1, <2>2 DEF FeedCarriesOn, NothingSkipped, StoppedIsQuiet, StreamFollows
  <2>5. \A p \in FeedAsk : AskFollows(request[p])'
    BY <1>1, <2>2 DEF AskFollows
  <2> QED BY <2>3, <2>4, <2>5 DEF FeedInOrder
<1>7. ASSUME NEW q \in FeedAsk, ReadFeed(q)
      PROVE  FeedInOrder'
  <2> DEFINE next == [request[q] EXCEPT !.upTo = published]
  <2>1. next \in AskedType /\ next.from = request[q].from /\ next.from # NotAsked
    BY <1>1, <1>7 DEF FeedTypeOK, AskedType, ReadFeed
  <2>2. next # NoFeedAsk
    BY <2>1 DEF NoFeedAsk
  <2>3. request' = [request EXCEPT ![q] = next]
        /\ UNCHANGED <<published, closure, stream, handles, loose, gotten, webTrouble>>
    BY <1>7 DEF ReadFeed
  <2> HIDE DEF next
  <2>4. request' \in [FeedAsk -> AskedType]
        /\ \A p \in FeedAsk : request'[p] = IF p = q THEN next ELSE request[p]
    BY <1>1, <2>1, <2>3 DEF FeedTypeOK
  <2>5. FeedTypeOK'
    BY <1>1, <2>3, <2>4 DEF FeedTypeOK
  <2>6. FeedCarriesOn' /\ NothingSkipped' /\ StoppedIsQuiet' /\ StreamFollows'
    BY <1>1, <2>2, <2>3, <2>4 DEF FeedCarriesOn, NothingSkipped, StoppedIsQuiet, StreamFollows
  <2>7. \A p \in FeedAsk : AskFollows(request[p])'
    BY <1>1, <2>1, <2>3, <2>4 DEF AskFollows
  <2> QED BY <2>5, <2>6, <2>7 DEF FeedInOrder
<1> QED BY <1>3, <1>4, <1>5, <1>6, <1>7

LEMMA FeedStreams ==
  ASSUME FeedInOrder,
         \/ \E upTo \in 1..MaxWebEvents : StreamMessage(upTo)
         \/ \E normally \in BOOLEAN : StreamCloses(normally)
  PROVE  FeedInOrder'
<1>1. /\ FeedTypeOK /\ closure \in ClosureType /\ closure.cursor \in Nat
      /\ (\A p \in FeedAsk : AskFollows(request[p])) /\ NothingSkipped /\ FeedCarriesOn
      /\ StreamFollows /\ StoppedIsQuiet /\ webTrouble.late = FALSE
      /\ gotten \in SUBSET Nat /\ stream \in StreamType /\ MaxWebEvents \in Nat
  BY WebEventsAssumption DEF FeedInOrder, FeedTypeOK, ClosureType, FeedCarriesOn, TroubleType
<1>2. ASSUME NEW upTo \in 1..MaxWebEvents, StreamMessage(upTo)
      PROVE  FeedInOrder'
  <2>a. /\ stream.sent \in Nat /\ upTo \in Nat /\ stream.at = "open"
    <3>1. stream.sent \in Nat
      BY <1>1 DEF StreamType
    <3>2. stream.at = "open"
      BY <1>2 DEF StreamMessage
    <3>3. upTo \in Nat
      BY <1>1
    <3> QED BY <3>1, <3>2, <3>3
  <2>b. 1..stream.sent \subseteq gotten /\ ~closure.stopped
    BY <1>1, <2>a DEF StreamFollows, StoppedIsQuiet
  <2> DEFINE sent == stream.sent
             then == [stream EXCEPT !.sent = upTo]
             half == [closure EXCEPT !.cursor = upTo]
             third == [half EXCEPT !.retries = 0]
             next == [third EXCEPT !.status = "active"]
             held == [handles EXCEPT !.heart = TRUE]
  <2>1. /\ sent \in Nat /\ upTo \in Nat /\ 1..sent \subseteq gotten /\ ~closure.stopped
        /\ stream.at = "open"
    BY <2>a, <2>b
  <2>2. then \in StreamType /\ then.sent = upTo /\ then.at = "open"
    BY <1>1, <2>1 DEF StreamType
  <2>3. half \in ClosureType /\ half.cursor = upTo /\ half.stopped = closure.stopped
    BY <1>1, <2>1 DEF ClosureType
  <2>4. [closure EXCEPT !.cursor = upTo, !.retries = 0, !.status = "active"] = next
    BY <1>1 DEF ClosureType
  <2> HIDE DEF half
  <2>5. third \in ClosureType /\ third.cursor = upTo /\ third.stopped = closure.stopped
    BY <2>3 DEF ClosureType
  <2> HIDE DEF third
  <2>6. next \in ClosureType /\ next.cursor = upTo /\ next.stopped = closure.stopped
    BY <2>5 DEF ClosureType, FeedStatus
  <2>7. held \in HandlesType /\ held.heart = TRUE
    BY <1>1 DEF FeedTypeOK, HandlesType
  <2>8. /\ closure' = next /\ stream' = then /\ handles' = held
        /\ DeliveredTo(sent, upTo) /\ UNCHANGED <<published, request, loose>>
    BY <1>2, <2>4 DEF StreamMessage
  <2> HIDE DEF next, then, held, sent
  <2>9. gotten' = gotten \cup (sent + 1 .. upTo) /\ gotten' \in SUBSET Nat /\ 1..upTo \subseteq gotten'
        /\ gotten \subseteq gotten'
    <3>1. gotten' = gotten \cup (sent + 1 .. upTo)
      BY <2>8 DEF DeliveredTo
    <3>2. 1..upTo \subseteq gotten \cup (sent + 1 .. upTo)
      BY <1>1, <2>1, FeedGoesOn
    <3>3. sent + 1 .. upTo \subseteq Nat
      BY <2>1
    <3> QED BY <1>1, <3>1, <3>2, <3>3
  <2>10. webTrouble' \in TroubleType /\ webTrouble'.late = FALSE
    BY <1>1, <2>1, <2>8 DEF DeliveredTo, FeedTypeOK, TroubleType
  <2>11. FeedTypeOK'
    BY <1>1, <2>2, <2>6, <2>7, <2>8, <2>9, <2>10 DEF FeedTypeOK
  <2>12. FeedCarriesOn' /\ NothingSkipped' /\ StoppedIsQuiet' /\ StreamFollows'
    BY <2>1, <2>2, <2>6, <2>7, <2>8, <2>9, <2>10
       DEF FeedCarriesOn, NothingSkipped, StoppedIsQuiet, StreamFollows
  <2>13. \A p \in FeedAsk : AskFollows(request[p])'
    BY <1>1, <2>8, <2>9 DEF AskFollows
  <2> QED BY <2>11, <2>12, <2>13 DEF FeedInOrder
<1>3. ASSUME NEW normally \in BOOLEAN, StreamCloses(normally)
      PROVE  FeedInOrder'
  <2> DEFINE more == closure.retries + (IF normally THEN 1 ELSE 2)
             half == [closure EXCEPT !.status = "reconnecting"]
             next == [half EXCEPT !.retries = more]
             trouble2 == [webTrouble EXCEPT !.faults = @ + 1]
             held == [handles EXCEPT !.poll = "start"]
  <2>1. more \in Nat
    BY <1>1 DEF ClosureType
  <2>2. half \in ClosureType /\ half.cursor = closure.cursor /\ half.stopped = closure.stopped
    BY <1>1 DEF ClosureType, FeedStatus
  <2>3. closure' = next
    BY <1>1, <1>3 DEF StreamCloses, ClosureType
  <2> HIDE DEF half, more
  <2>4. next \in ClosureType /\ next.cursor = closure.cursor /\ next.stopped = closure.stopped
    BY <2>1, <2>2 DEF ClosureType
  <2> HIDE DEF next
  <2>5. trouble2 \in TroubleType /\ trouble2.late = FALSE
    BY <1>1 DEF TroubleType, FeedTypeOK
  <2>6. held \in HandlesType /\ held.poll = "start"
    BY <1>1 DEF HandlesType, FeedTypeOK
  <2>7. loose' \in LooseType
    <3>1. loose' = Loosened(handles.poll) /\ loose \in LooseType
          /\ handles.poll \in {"none", "start", "poll"}
      BY <1>1, <1>3 DEF StreamCloses, FeedTypeOK, HandlesType
    <3> QED BY ONLY <3>1 DEF LooseType, Loosened
  <2>8. stream' = NoStream /\ handles' = held /\ webTrouble' = trouble2 /\ stream.at # "none"
        /\ UNCHANGED <<published, request, gotten>>
    BY <1>3 DEF StreamCloses, Fault
  <2> HIDE DEF trouble2, held
  <2>9. NoStream \in StreamType /\ NoStream.at = "none"
    BY DEF NoStream, StreamType
  <2>10. FeedTypeOK'
    BY <1>1, <2>3, <2>4, <2>5, <2>6, <2>7, <2>8, <2>9 DEF FeedTypeOK
  <2>11. FeedCarriesOn' /\ NothingSkipped' /\ StoppedIsQuiet' /\ StreamFollows'
    BY <1>1, <2>3, <2>4, <2>5, <2>6, <2>8, <2>9
       DEF FeedCarriesOn, NothingSkipped, StoppedIsQuiet, StreamFollows
  <2>12. \A p \in FeedAsk : AskFollows(request[p])'
    BY <1>1, <2>8 DEF AskFollows
  <2> QED BY <2>10, <2>11, <2>12 DEF FeedInOrder
<1> QED BY <1>2, <1>3

LEMMA FeedStep ==
  ASSUME FeedInOrder, [WebEventNext]_webEventVars
  PROVE  FeedInOrder'
<1>1. CASE UNCHANGED webEventVars
  BY <1>1 DEF webEventVars, FeedInOrder, FeedTypeOK, FeedCarriesOn, NothingSkipped, StoppedIsQuiet,
              StreamFollows, AskFollows
<1>2. CASE WebEventNext
  BY <1>2, FeedTimers, FeedAnswers, FeedRest, FeedStreams DEF WebEventNext
<1> QED BY <1>1, <1>2

-----------------------------------------------------------------------------
(* The live events of a grant's page (useGrantEvents.ts).                  *)

HookType == [run : Nat, status : {"disconnected", "connecting", "connected", "error"},
             error : BOOLEAN, timer : BOOLEAN]
SourceType == [run : Nat, at : {"opening", "open", "closed"}, first : BOOLEAN]
RouteType == [poll : {"fetch", "timer", "over"}, closed : BOOLEAN, wait : PollEvery..MaxBackOff,
              told : BOOLEAN, cut : BOOLEAN]
LiveTypeOK ==
    /\ liveHook \in HookType /\ sources \in Seq(SourceType) /\ routes \in Seq(RouteType)
    /\ Len(routes) = Len(sources)

\* Runs of the effect are numbered by the first source each opened.
RunsAreKnown ==
    /\ liveHook.run <= Len(sources)
    /\ \A f \in 1..Len(sources) : sources[f].run # 0 /\ sources[f].run <= Len(sources)
\* A source that is ours and that may be heard.
IsHeard(src, run) == src.run = run /\ src.at # "closed"
\* What another run left open is not its first source, which its cleanup knew.
LeftOpen(src, run) == src.run # run /\ src.at # "closed" => ~src.first
NobodyOpen == \A f \in 1..Len(sources) : ~IsHeard(sources[f], liveHook.run)
OnlyOpen(f) == /\ IsHeard(sources[f], liveHook.run)
               /\ \A g \in 1..Len(sources) : IsHeard(sources[g], liveHook.run) => g = f
HookFollows ==
    \/ liveHook.run = 0 /\ ~liveHook.timer /\ liveHook.status = "disconnected"
    \/ liveHook.run # 0 /\ liveHook.timer /\ liveHook.status = "error" /\ NobodyOpen
    \/ /\ liveHook.run # 0 /\ ~liveHook.timer
       /\ \E f \in 1..Len(sources) :
             /\ OnlyOpen(f)
             /\ liveHook.status = IF sources[f].at = "open" THEN "connected" ELSE "connecting"
RoutesFollow == \A f \in 1..Len(routes) : routes[f].closed => routes[f].poll # "timer"

\* The inductive invariant.
LiveInOrder ==
    /\ LiveTypeOK /\ RunsAreKnown /\ HookFollows /\ RoutesFollow
    /\ \A f \in 1..Len(sources) : LeftOpen(sources[f], liveHook.run)

LEMMA LiveInitially == LiveInit => LiveInOrder
<1> SUFFICES ASSUME LiveInit PROVE LiveInOrder
  OBVIOUS
<1>1. /\ sources = <<>> /\ routes = <<>> /\ <<>> \in Seq(SourceType) /\ <<>> \in Seq(RouteType)
      /\ Len(sources) = 0 /\ Len(routes) = 0
  BY DEF LiveInit
<1>2. liveHook \in HookType /\ liveHook.run = 0 /\ ~liveHook.timer /\ liveHook.status = "disconnected"
  BY DEF LiveInit, HookType
<1> QED BY <1>1, <1>2 DEF LiveInOrder, LiveTypeOK, RunsAreKnown, HookFollows, RoutesFollow

LEMMA LiveFacts ==
  ASSUME LiveInOrder
  PROVE  /\ liveHook \in HookType /\ liveHook.run \in Nat
         /\ sources \in Seq(SourceType) /\ routes \in Seq(RouteType)
         /\ Len(sources) \in Nat /\ Len(routes) = Len(sources)
         /\ \A f \in 1..Len(sources) : sources[f] \in SourceType /\ sources[f].run \in Nat
         /\ \A f \in 1..Len(sources) : routes[f] \in RouteType
         /\ DOMAIN sources = 1..Len(sources)
<1>1. /\ liveHook \in HookType /\ sources \in Seq(SourceType) /\ routes \in Seq(RouteType)
      /\ Len(routes) = Len(sources)
  BY DEF LiveInOrder, LiveTypeOK
<1>2. Len(sources) \in Nat /\ DOMAIN sources = 1..Len(sources)
  BY <1>1
<1>3. \A f \in 1..Len(sources) : sources[f] \in SourceType
  BY <1>1
<1>4. \A f \in 1..Len(sources) : routes[f] \in RouteType
  BY <1>1
<1>5. liveHook.run \in Nat
  BY <1>1 DEF HookType
<1>6. \A f \in 1..Len(sources) : sources[f].run \in Nat
  BY <1>3 DEF SourceType
<1> QED BY <1>1, <1>2, <1>3, <1>4, <1>5, <1>6

-----------------------------------------------------------------------------
(* Routes *)

LEMMA WaitsInRange ==
  ASSUME NEW wait \in PollEvery..MaxBackOff
  PROVE  BackOff(wait) \in PollEvery..MaxBackOff /\ PollEvery \in PollEvery..MaxBackOff
<1>1. PollEvery \in Nat /\ MaxBackOff \in Nat /\ PollEvery <= MaxBackOff
  BY LiveAssumption
<1>2. 2 * wait \in Nat
  BY <1>1
<1> DEFINE S == {2 * wait, MaxBackOff}
           m == IF 2 * wait <= MaxBackOff THEN 2 * wait ELSE MaxBackOff
<1>3. m \in S /\ \A y \in S : m <= y
  BY <1>1, <1>2
<1>4. \A x \in S : (\A y \in S : x <= y) => x = m
  BY <1>1, <1>2, <1>3
<1>5. m \in PollEvery..MaxBackOff
  BY <1>1, <1>2
<1> HIDE DEF S, m
<1>6. Min(S) \in S /\ \A y \in S : Min(S) <= y
  BY <1>3 DEF Min
<1>7. Min(S) = m
  BY <1>4, <1>6
<1> QED BY <1>1, <1>5, <1>7 DEF S, BackOff

LEMMA NewRoutes ==
  /\ NewRoute \in RouteType /\ ~NewRoute.closed
  /\ RouteOver \in RouteType /\ RouteOver.poll # "timer"
<1>1. PollEvery \in PollEvery..MaxBackOff
  BY LiveAssumption
<1>2. NewRoute \in RouteType /\ ~NewRoute.closed
  BY <1>1 DEF NewRoute, RouteType
<1> DEFINE half == [NewRoute EXCEPT !.poll = "over"]
           next == [half EXCEPT !.closed = TRUE]
<1>3. half \in RouteType /\ half.poll = "over"
  BY <1>2 DEF RouteType
<1>4. RouteOver = next
  BY <1>2 DEF RouteOver, RouteType
<1> HIDE DEF half
<1>5. next \in RouteType /\ next.poll = "over"
  BY <1>3 DEF RouteType
<1> QED BY <1>2, <1>4, <1>5

\* One route goes on, the sources as they are.
LEMMA RouteGoesOn ==
  ASSUME LiveInOrder, UNCHANGED <<liveHook, sources>>, NEW f \in 1..Len(sources),
         NEW next \in RouteType, next.closed => next.poll # "timer",
         routes' = [routes EXCEPT ![f] = next]
  PROVE  LiveInOrder'
<1>1. /\ routes \in Seq(RouteType) /\ Len(routes) = Len(sources) /\ Len(sources) \in Nat
      /\ liveHook \in HookType /\ sources \in Seq(SourceType)
  BY LiveFacts
<1>2. /\ routes' \in Seq(RouteType) /\ Len(routes') = Len(routes)
      /\ \A g \in 1..Len(routes) : routes'[g] = IF g = f THEN next ELSE routes[g]
  BY <1>1
<1>3. RoutesFollow'
  BY <1>1, <1>2 DEF LiveInOrder, RoutesFollow
<1>4. LiveTypeOK'
  BY <1>1, <1>2 DEF LiveTypeOK
<1>5. RunsAreKnown' /\ HookFollows' /\ \A g \in 1..Len(sources)' : LeftOpen(sources[g], liveHook.run)'
  BY DEF LiveInOrder, RunsAreKnown, HookFollows, NobodyOpen, OnlyOpen
<1> QED BY <1>3, <1>4, <1>5 DEF LiveInOrder

LEMMA RouteStep ==
  ASSUME LiveInOrder, NEW f \in 1..Len(sources),
         PollRoute(f) \/ RouteTimerFires(f) \/ RouteAborts(f)
  PROVE  LiveInOrder'
<1> DEFINE route == routes[f]
<1>1. route \in RouteType /\ (route.closed => route.poll # "timer")
      /\ UNCHANGED <<liveHook, sources>>
  <2>1. route \in RouteType /\ Len(routes) = Len(sources)
    BY LiveFacts
  <2>2. route.closed => route.poll # "timer"
    BY <2>1 DEF LiveInOrder, RoutesFollow
  <2>3. UNCHANGED <<liveHook, sources>>
    BY DEF PollRoute, RouteTimerFires, RouteAborts
  <2> QED BY <2>1, <2>2, <2>3
<1>2. CASE PollRoute(f)
  <2>1. PICK fails \in BOOLEAN :
          routes' = [routes EXCEPT ![f] =
              IF route.closed THEN RouteOver
              ELSE [route EXCEPT !.poll = "timer", !.told = fails /\ sources[f].at # "closed",
                                 !.wait = IF fails THEN BackOff(route.wait) ELSE PollEvery]]
    BY <1>2 DEF PollRoute
  <2>2. CASE route.closed
    <3>1. routes' = [routes EXCEPT ![f] = RouteOver]
      BY <2>1, <2>2
    <3> QED BY <1>1, <3>1, NewRoutes, RouteGoesOn
  <2>3. CASE ~route.closed
    <3> DEFINE told == fails /\ sources[f].at # "closed"
               wait == IF fails THEN BackOff(route.wait) ELSE PollEvery
               half == [route EXCEPT !.poll = "timer"]
               third == [half EXCEPT !.told = told]
               next == [third EXCEPT !.wait = wait]
    <3>1. told \in BOOLEAN
      OBVIOUS
    <3>2. wait \in PollEvery..MaxBackOff
      <4>1. route.wait \in PollEvery..MaxBackOff
        BY <1>1 DEF RouteType
      <4> QED BY <4>1, WaitsInRange
    <3>3. routes' = [routes EXCEPT ![f] = [route EXCEPT !.poll = "timer", !.told = told, !.wait = wait]]
      <4> DEFINE now == IF route.closed THEN RouteOver
                        ELSE [route EXCEPT !.poll = "timer", !.told = told, !.wait = wait]
      <4>1. routes' = [routes EXCEPT ![f] = now]
        BY <2>1
      <4>2. now = [route EXCEPT !.poll = "timer", !.told = told, !.wait = wait]
        BY <2>3
      <4> HIDE DEF now
      <4> QED BY <4>1, <4>2
    <3> HIDE DEF told, wait, route
    <3>4. half \in RouteType /\ half.closed = route.closed
      BY <1>1 DEF RouteType
    <3>5. [route EXCEPT !.poll = "timer", !.told = told, !.wait = wait] = next
      BY <1>1 DEF RouteType
    <3> HIDE DEF half
    <3>6. third \in RouteType /\ third.closed = route.closed
      BY <3>1, <3>4 DEF RouteType
    <3> HIDE DEF third
    <3>7. next \in RouteType /\ next.closed = route.closed
      BY <3>2, <3>6 DEF RouteType
    <3> HIDE DEF next
    <3>8. routes' = [routes EXCEPT ![f] = next]
      BY <3>3, <3>5
    <3> QED BY <1>1, <2>3, <3>7, <3>8, RouteGoesOn
  <2> QED BY <2>2, <2>3
<1>3. CASE RouteTimerFires(f)
  <2> DEFINE next == [route EXCEPT !.poll = "fetch"]
  <2>1. next \in RouteType /\ next.poll = "fetch"
    BY <1>1 DEF RouteType
  <2>2. routes' = [routes EXCEPT ![f] = next]
    BY <1>3 DEF RouteTimerFires
  <2> HIDE DEF next
  <2> QED BY <1>1, <2>1, <2>2, RouteGoesOn
<1>4. CASE RouteAborts(f)
  <2>1. CASE route.poll = "timer"
    <3>1. routes' = [routes EXCEPT ![f] = RouteOver]
      BY <1>4, <2>1 DEF RouteAborts
    <3> QED BY <1>1, <3>1, NewRoutes, RouteGoesOn
  <2>2. CASE route.poll # "timer"
    <3> DEFINE next == [route EXCEPT !.closed = TRUE]
    <3>1. next \in RouteType /\ next.poll # "timer"
      BY <1>1, <2>2 DEF RouteType
    <3>2. routes' = [routes EXCEPT ![f] = next]
      BY <1>4, <2>2 DEF RouteAborts
    <3> HIDE DEF next
    <3> QED BY <1>1, <3>1, <3>2, RouteGoesOn
  <2> QED BY <2>1, <2>2
<1> QED BY <1>2, <1>3, <1>4

-----------------------------------------------------------------------------
(* Sources *)

\* A new source with its route.
LEMMA NewSource ==
  ASSUME NEW srcs \in Seq(SourceType), NEW src \in SourceType, LiveTypeOK, Len(srcs) = Len(sources)
  PROVE  /\ Append(srcs, src) \in Seq(SourceType) /\ Append(routes, NewRoute) \in Seq(RouteType)
         /\ Len(Append(srcs, src)) = Len(sources) + 1
         /\ Len(Append(routes, NewRoute)) = Len(sources) + 1
         /\ \A f \in 1..Len(sources) + 1 :
               Append(srcs, src)[f] = IF f = Len(sources) + 1 THEN src ELSE srcs[f]
         /\ RoutesFollow => \A f \in 1..Len(sources) + 1 :
               Append(routes, NewRoute)[f].closed => Append(routes, NewRoute)[f].poll # "timer"
<1>1. routes \in Seq(RouteType) /\ Len(routes) = Len(sources) /\ Len(sources) \in Nat
  BY DEF LiveTypeOK
<1>2. /\ Append(srcs, src) \in Seq(SourceType) /\ Len(Append(srcs, src)) = Len(srcs) + 1
      /\ \A f \in 1..Len(sources) + 1 :
               Append(srcs, src)[f] = IF f = Len(sources) + 1 THEN src ELSE srcs[f]
  BY <1>1
<1> DEFINE more == Append(routes, NewRoute)
<1>3. /\ more \in Seq(RouteType) /\ Len(more) = Len(routes) + 1
      /\ \A f \in 1..Len(sources) + 1 :
               more[f] = IF f = Len(sources) + 1 THEN NewRoute ELSE routes[f]
  BY <1>1, NewRoutes
<1> HIDE DEF more
<1>4. RoutesFollow => \A f \in 1..Len(sources) + 1 : more[f].closed => more[f].poll # "timer"
  BY <1>1, <1>3, NewRoutes DEF RoutesFollow
<1> QED BY <1>1, <1>2, <1>3, <1>4 DEF more

\* What the cleanup of a run closes.
LEMMA CleanedSources ==
  ASSUME LiveInOrder
  PROVE  /\ CleanedUp \in Seq(SourceType) /\ Len(CleanedUp) = Len(sources)
         /\ \A f \in 1..Len(sources) :
               /\ CleanedUp[f].run = sources[f].run
               /\ CleanedUp[f].at # "closed" => ~CleanedUp[f].first
<1>1. /\ sources \in Seq(SourceType) /\ Len(sources) \in Nat /\ DOMAIN sources = 1..Len(sources)
      /\ \A f \in 1..Len(sources) : sources[f] \in SourceType
      /\ \A f \in 1..Len(sources) : LeftOpen(sources[f], liveHook.run)
  BY LiveFacts DEF LiveInOrder
<1> DEFINE shut(f) == [sources[f] EXCEPT !.at = "closed"]
           now(f) == IF Ours(f) /\ sources[f].first THEN shut(f) ELSE sources[f]
<1>2. \A f \in 1..Len(sources) : shut(f) \in SourceType /\ shut(f).at = "closed"
                                 /\ shut(f).run = sources[f].run
  BY <1>1 DEF SourceType
<1>3. CleanedUp = [f \in 1..Len(sources) |-> now(f)]
  BY <1>1 DEF CleanedUp
<1> HIDE DEF shut
<1>4. \A f \in 1..Len(sources) : now(f) \in SourceType /\ now(f).run = sources[f].run
                                 /\ (now(f).at # "closed" => ~now(f).first)
  BY <1>1, <1>2 DEF LeftOpen, Ours
<1> HIDE DEF now
<1>5. CleanedUp \in [1..Len(sources) -> SourceType]
  BY <1>3, <1>4
<1>6. CleanedUp \in Seq(SourceType) /\ Len(CleanedUp) = Len(sources)
  BY <1>1, <1>5
<1> QED BY <1>3, <1>4, <1>6

LEMMA WatchGrantStep ==
  ASSUME LiveInOrder, Watch \/ LeavePage
  PROVE  LiveInOrder'
<1>1. /\ liveHook \in HookType /\ Len(sources) \in Nat /\ LiveTypeOK /\ RoutesFollow
      /\ routes \in Seq(RouteType) /\ Len(routes) = Len(sources)
      /\ \A f \in 1..Len(sources) : sources[f].run # 0 /\ sources[f].run <= Len(sources)
                                    /\ sources[f].run \in Nat
  BY LiveFacts DEF LiveInOrder, RunsAreKnown
<1>2. /\ CleanedUp \in Seq(SourceType) /\ Len(CleanedUp) = Len(sources)
      /\ \A f \in 1..Len(sources) :
            /\ CleanedUp[f].run = sources[f].run
            /\ CleanedUp[f].at # "closed" => ~CleanedUp[f].first
  BY CleanedSources
<1>3. CASE Watch
  <2>n. PICK n \in Nat : n = Len(sources) + 1
    BY <1>1
  <2> DEFINE src == [run |-> n, at |-> "opening", first |-> TRUE]
             mounted == [run |-> n, status |-> "connecting", error |-> liveHook.error, timer |-> FALSE]
             closed == CleanedUp
  <2>1. n \in Nat /\ n # 0 /\ n > Len(sources) /\ n = Len(sources) + 1
    BY <1>1, <2>n
  <2>2. sources' = Append(closed, src) /\ routes' = Append(routes, NewRoute) /\ liveHook' = mounted
    BY <1>3, <2>n DEF Watch
  <2>3. src \in SourceType /\ src.run = n /\ src.at = "opening"
    BY <2>1 DEF SourceType
  <2>4. mounted \in HookType /\ mounted.run = n /\ mounted.status = "connecting" /\ mounted.timer = FALSE
    BY <1>1, <2>1 DEF HookType
  <2> HIDE DEF src, mounted, closed
  <2>5. /\ sources' \in Seq(SourceType) /\ routes' \in Seq(RouteType)
        /\ Len(sources') = n /\ Len(routes') = n
        /\ \A f \in 1..n : sources'[f] = IF f = n THEN src ELSE closed[f]
        /\ RoutesFollow'
    <3>1. closed \in Seq(SourceType) /\ Len(closed) = Len(sources)
      BY <1>2 DEF closed
    <3>2. /\ Append(closed, src) \in Seq(SourceType) /\ Append(routes, NewRoute) \in Seq(RouteType)
          /\ Len(Append(closed, src)) = Len(sources) + 1
          /\ Len(Append(routes, NewRoute)) = Len(sources) + 1
          /\ \A f \in 1..Len(sources) + 1 :
                Append(closed, src)[f] = IF f = Len(sources) + 1 THEN src ELSE closed[f]
          /\ RoutesFollow => \A f \in 1..Len(sources) + 1 :
                Append(routes, NewRoute)[f].closed => Append(routes, NewRoute)[f].poll # "timer"
      BY <1>1, <2>3, <3>1, NewSource
    <3> QED BY <1>1, <2>1, <2>2, <3>2 DEF RoutesFollow
  <2>6. \A f \in 1..Len(sources) :
            /\ closed[f].run = sources[f].run
            /\ closed[f].at # "closed" => ~closed[f].first
    BY <1>2 DEF closed
  <2>7. LiveTypeOK'
    BY <2>2, <2>4, <2>5 DEF LiveTypeOK
  <2>8. \A f \in 1..n : f = n \/ (f \in 1..Len(sources) /\ sources'[f] = closed[f])
    BY <1>1, <2>1, <2>5
  <2>9. RunsAreKnown'
    <3>1. \A f \in 1..n : sources'[f].run # 0 /\ sources'[f].run <= n
      BY <1>1, <2>1, <2>3, <2>5, <2>6, <2>8
    <3> QED BY <2>1, <2>2, <2>4, <2>5, <3>1 DEF RunsAreKnown
  <2>10. \A f \in 1..n : f # n => sources'[f].run # n /\ (sources'[f].at # "closed" => ~sources'[f].first)
    BY <1>1, <2>1, <2>6, <2>8
  <2>11. HookFollows'
    <3>1. n \in 1..n /\ sources'[n] = src
      BY <2>1, <2>5
    <3>2. OnlyOpen(n)'
      BY <2>2, <2>3, <2>4, <2>5, <2>10, <3>1 DEF OnlyOpen, IsHeard
    <3> QED BY <2>1, <2>2, <2>3, <2>4, <2>5, <3>1, <3>2 DEF HookFollows
  <2>12. \A f \in 1..Len(sources') : LeftOpen(sources'[f], liveHook'.run)
    BY <2>2, <2>3, <2>4, <2>5, <2>10 DEF LeftOpen
  <2> QED BY <2>5, <2>7, <2>9, <2>11, <2>12 DEF LiveInOrder
<1>4. CASE LeavePage
  <2> DEFINE gone == [run |-> 0, status |-> "disconnected", error |-> liveHook.error, timer |-> FALSE]
             closed == CleanedUp
  <2>1. gone \in HookType /\ gone.run = 0 /\ gone.status = "disconnected" /\ gone.timer = FALSE
    BY <1>1 DEF HookType
  <2>2. sources' = closed /\ routes' = routes /\ liveHook' = gone
    BY <1>4 DEF LeavePage
  <2> HIDE DEF gone, closed
  <2>3. /\ closed \in Seq(SourceType) /\ Len(closed) = Len(sources)
        /\ \A f \in 1..Len(sources) :
            /\ closed[f].run = sources[f].run
            /\ closed[f].at # "closed" => ~closed[f].first
    BY <1>2 DEF closed
  <2>4. LiveTypeOK'
    BY <1>1, <2>1, <2>2, <2>3 DEF LiveTypeOK
  <2>5. RunsAreKnown' /\ HookFollows' /\ RoutesFollow'
    BY <1>1, <2>1, <2>2, <2>3 DEF RunsAreKnown, HookFollows, RoutesFollow
  <2>6. \A f \in 1..Len(sources') : LeftOpen(sources'[f], liveHook'.run)
    BY <2>2, <2>3 DEF LeftOpen
  <2> QED BY <2>4, <2>5, <2>6 DEF LiveInOrder
<1> QED BY <1>3, <1>4

LEMMA RetryStep ==
  ASSUME LiveInOrder, RetryFires
  PROVE  LiveInOrder'
<1>1. /\ liveHook \in HookType /\ Len(sources) \in Nat /\ LiveTypeOK /\ RoutesFollow
      /\ liveHook.run \in Nat /\ sources \in Seq(SourceType)
      /\ \A f \in 1..Len(sources) : sources[f].run # 0 /\ sources[f].run <= Len(sources)
                                    /\ sources[f].run \in Nat
      /\ \A f \in 1..Len(sources) : LeftOpen(sources[f], liveHook.run)
      /\ liveHook.run <= Len(sources)
  BY LiveFacts DEF LiveInOrder, RunsAreKnown
<1>2. liveHook.run # 0 /\ NobodyOpen
  BY DEF LiveInOrder, HookFollows, RetryFires
<1>n. PICK n \in Nat : n = Len(sources) + 1
  BY <1>1
<1> DEFINE src == [run |-> liveHook.run, at |-> "opening", first |-> FALSE]
           mounted == [run |-> liveHook.run, status |-> "connecting", error |-> liveHook.error,
                       timer |-> FALSE]
<1>3. n \in Nat /\ n > Len(sources) /\ n = Len(sources) + 1
  BY <1>1, <1>n
<1>4. sources' = Append(sources, src) /\ routes' = Append(routes, NewRoute) /\ liveHook' = mounted
  BY DEF RetryFires, OpenConnection
<1>5. src \in SourceType /\ src.run = liveHook.run /\ src.at = "opening"
  BY <1>1 DEF SourceType
<1>6. /\ mounted \in HookType /\ mounted.run = liveHook.run /\ mounted.status = "connecting"
      /\ mounted.timer = FALSE
  BY <1>1 DEF HookType
<1> HIDE DEF src, mounted
<1>7. /\ sources' \in Seq(SourceType) /\ routes' \in Seq(RouteType)
      /\ Len(sources') = n /\ Len(routes') = n
      /\ \A f \in 1..n : sources'[f] = IF f = n THEN src ELSE sources[f]
      /\ RoutesFollow'
  <2>1. /\ Append(sources, src) \in Seq(SourceType) /\ Append(routes, NewRoute) \in Seq(RouteType)
        /\ Len(Append(sources, src)) = Len(sources) + 1
        /\ Len(Append(routes, NewRoute)) = Len(sources) + 1
        /\ \A f \in 1..Len(sources) + 1 :
              Append(sources, src)[f] = IF f = Len(sources) + 1 THEN src ELSE sources[f]
        /\ RoutesFollow => \A f \in 1..Len(sources) + 1 :
              Append(routes, NewRoute)[f].closed => Append(routes, NewRoute)[f].poll # "timer"
    BY <1>1, <1>5, NewSource
  <2> QED BY <1>1, <1>3, <1>4, <2>1 DEF RoutesFollow
<1>8. LiveTypeOK'
  BY <1>4, <1>6, <1>7 DEF LiveTypeOK
<1>9. \A f \in 1..n : f = n \/ (f \in 1..Len(sources) /\ sources'[f] = sources[f])
  BY <1>1, <1>3, <1>7
<1>10. RunsAreKnown'
  <2>1. \A f \in 1..n : sources'[f].run # 0 /\ sources'[f].run <= n
    BY <1>1, <1>2, <1>3, <1>5, <1>7, <1>9
  <2> QED BY <1>1, <1>3, <1>4, <1>6, <1>7, <2>1 DEF RunsAreKnown
<1>11. n \in 1..n /\ sources'[n] = src
  BY <1>3, <1>7
<1>12. OnlyOpen(n)'
  BY <1>2, <1>4, <1>5, <1>6, <1>7, <1>9, <1>11 DEF OnlyOpen, IsHeard, NobodyOpen
<1>13. HookFollows'
  BY <1>2, <1>4, <1>5, <1>6, <1>7, <1>11, <1>12 DEF HookFollows
<1>14. \A f \in 1..Len(sources') : LeftOpen(sources'[f], liveHook'.run)
  BY <1>1, <1>4, <1>5, <1>6, <1>7, <1>9, <1>11 DEF LeftOpen
<1> QED BY <1>7, <1>8, <1>10, <1>13, <1>14 DEF LiveInOrder

\* One source moves.
MovedTo(src, at) == [src EXCEPT !.at = at]
LEMMA SourceMoves ==
  ASSUME LiveInOrder, NEW f \in 1..Len(sources), NEW at \in {"opening", "open", "closed"},
         sources' = [sources EXCEPT ![f] = MovedTo(sources[f], at)]
  PROVE  /\ sources' \in Seq(SourceType) /\ Len(sources') = Len(sources)
         /\ sources'[f].run = sources[f].run /\ sources'[f].first = sources[f].first
         /\ sources'[f].at = at
         /\ \A g \in 1..Len(sources) : g # f => sources'[g] = sources[g]
<1>1. sources \in Seq(SourceType) /\ Len(sources) \in Nat /\ sources[f] \in SourceType
  BY LiveFacts
<1> DEFINE next == MovedTo(sources[f], at)
<1>2. /\ next \in SourceType /\ next.run = sources[f].run /\ next.first = sources[f].first
      /\ next.at = at
  BY <1>1 DEF SourceType, MovedTo
<1> HIDE DEF next
<1>3. sources' = [sources EXCEPT ![f] = next]
  BY DEF next
<1>4. /\ sources' \in Seq(SourceType) /\ Len(sources') = Len(sources)
      /\ \A g \in 1..Len(sources) : sources'[g] = IF g = f THEN next ELSE sources[g]
  BY <1>1, <1>2, <1>3
<1> QED BY <1>2, <1>4

\* A source that is not the run's own may move as long as it was open, or closes.
LEMMA OtherMoves ==
  ASSUME LiveInOrder, NEW f \in 1..Len(sources), ~Ours(f), NEW at \in {"opening", "open", "closed"},
         at # "closed" => sources[f].at # "closed",
         sources' = [sources EXCEPT ![f] = MovedTo(sources[f], at)], liveHook' = liveHook,
         routes' \in Seq(RouteType), Len(routes') = Len(routes), RoutesFollow'
  PROVE  LiveInOrder'
<1>1. /\ liveHook \in HookType /\ Len(sources) \in Nat /\ Len(routes) = Len(sources)
      /\ \A g \in 1..Len(sources) : LeftOpen(sources[g], liveHook.run)
      /\ RunsAreKnown /\ HookFollows
  BY LiveFacts DEF LiveInOrder
<1>2. /\ sources' \in Seq(SourceType) /\ Len(sources') = Len(sources)
      /\ sources'[f].run = sources[f].run /\ sources'[f].first = sources[f].first
      /\ sources'[f].at = at
      /\ \A g \in 1..Len(sources) : g # f => sources'[g] = sources[g]
  BY SourceMoves
<1>3. LiveTypeOK'
  BY <1>1, <1>2 DEF LiveTypeOK
<1>4. RunsAreKnown'
  BY <1>1, <1>2 DEF RunsAreKnown
<1>5. \A g \in 1..Len(sources) : IsHeard(sources'[g], liveHook.run) <=> IsHeard(sources[g], liveHook.run)
  BY <1>2 DEF IsHeard, Ours
<1>6. NobodyOpen => NobodyOpen'
  BY <1>2, <1>5 DEF NobodyOpen
<1>7. \A g \in 1..Len(sources) : OnlyOpen(g) => OnlyOpen(g)' /\ sources'[g] = sources[g]
  BY <1>2, <1>5 DEF OnlyOpen, IsHeard, Ours
<1>8. HookFollows'
  BY <1>1, <1>2, <1>6, <1>7 DEF HookFollows
<1>9. \A g \in 1..Len(sources') : LeftOpen(sources'[g], liveHook'.run)
  BY <1>1, <1>2 DEF LeftOpen
<1> QED BY <1>3, <1>4, <1>8, <1>9 DEF LiveInOrder

\* The run's own source moves: it was the one that is open.
LEMMA OwnMoves ==
  ASSUME LiveInOrder, NEW f \in 1..Len(sources), Ours(f), sources[f].at # "closed",
         NEW at \in {"open", "closed"},
         sources' = [sources EXCEPT ![f] = MovedTo(sources[f], at)],
         liveHook' \in HookType, liveHook'.run = liveHook.run,
         liveHook'.timer = (at = "closed"),
         liveHook'.status = (IF at = "closed" THEN "error" ELSE "connected"),
         routes' \in Seq(RouteType), Len(routes') = Len(routes), RoutesFollow'
  PROVE  LiveInOrder'
<1>1. /\ Len(sources) \in Nat /\ Len(routes) = Len(sources)
      /\ \A g \in 1..Len(sources) : LeftOpen(sources[g], liveHook.run)
      /\ RunsAreKnown /\ HookFollows /\ sources[f].run # 0
  BY LiveFacts DEF LiveInOrder, RunsAreKnown
<1>2. /\ sources' \in Seq(SourceType) /\ Len(sources') = Len(sources)
      /\ sources'[f].run = sources[f].run /\ sources'[f].first = sources[f].first
      /\ sources'[f].at = at
      /\ \A g \in 1..Len(sources) : g # f => sources'[g] = sources[g]
  BY SourceMoves
<1>3. IsHeard(sources[f], liveHook.run) /\ liveHook.run # 0
  BY <1>1 DEF IsHeard, Ours
<1>4. OnlyOpen(f)
  <2>1. PICK g \in 1..Len(sources) : OnlyOpen(g)
    BY <1>1, <1>3 DEF HookFollows, NobodyOpen
  <2>2. g = f
    BY <1>3, <2>1 DEF OnlyOpen
  <2> QED BY <2>1, <2>2
<1>5. LiveTypeOK'
  BY <1>1, <1>2 DEF LiveTypeOK
<1>6. RunsAreKnown'
  BY <1>1, <1>2 DEF RunsAreKnown
<1>7. at = "closed" => NobodyOpen'
  BY <1>2, <1>4 DEF NobodyOpen, OnlyOpen, IsHeard
<1>8. at # "closed" => OnlyOpen(f)'
  BY <1>2, <1>3, <1>4 DEF OnlyOpen, IsHeard
<1>9. HookFollows'
  BY <1>2, <1>3, <1>7, <1>8 DEF HookFollows
<1>10. \A g \in 1..Len(sources') : LeftOpen(sources'[g], liveHook'.run)
  BY <1>1, <1>2 DEF LeftOpen, Ours
<1> QED BY <1>5, <1>6, <1>9, <1>10 DEF LiveInOrder

LEMMA SourceStep ==
  ASSUME LiveInOrder, NEW f \in 1..Len(sources),
         SourceOpens(f) \/ \E lost \in BOOLEAN : SourceFails(f, lost)
  PROVE  LiveInOrder'
<1>1. /\ liveHook \in HookType /\ sources[f] \in SourceType /\ routes[f] \in RouteType
      /\ routes \in Seq(RouteType) /\ Len(routes) = Len(sources) /\ Len(sources) \in Nat
      /\ RoutesFollow /\ sources \in Seq(SourceType)
  BY LiveFacts DEF LiveInOrder
<1>2. CASE SourceOpens(f)
  <2>1. routes' \in Seq(RouteType) /\ Len(routes') = Len(routes) /\ RoutesFollow'
    BY <1>1, <1>2 DEF SourceOpens, RoutesFollow
  <2>2. CASE Ours(f)
    <3> DEFINE half == [liveHook EXCEPT !.status = "connected"]
               next == [half EXCEPT !.error = FALSE]
               at == "open"
    <3>1. half \in HookType /\ half.run = liveHook.run /\ half.timer = liveHook.timer
          /\ half.status = "connected"
      BY <1>1 DEF HookType
    <3>2. liveHook' = next
      BY <1>1, <1>2, <2>2 DEF SourceOpens, HookType
    <3> HIDE DEF half
    <3>3. next \in HookType /\ next.run = liveHook.run /\ next.timer = liveHook.timer
          /\ next.status = "connected"
      BY <3>1 DEF HookType
    <3> HIDE DEF next
    <3>4. sources[f].at # "closed" /\ ~liveHook.timer
      <4>1. sources[f].at # "closed"
        BY <1>2 DEF SourceOpens
      <4>2. IsHeard(sources[f], liveHook.run) /\ sources[f].run # 0
        BY <2>2, <4>1 DEF IsHeard, Ours, LiveInOrder, RunsAreKnown
      <4> QED BY <4>1, <4>2 DEF LiveInOrder, HookFollows, NobodyOpen, IsHeard
    <3>5. sources' = [sources EXCEPT ![f] = MovedTo(sources[f], at)] /\ at \in {"open", "closed"}
          /\ at # "closed"
      BY <1>2, <2>2 DEF SourceOpens, MovedTo
    <3>6. liveHook' \in HookType /\ liveHook'.run = liveHook.run
          /\ liveHook'.timer = (at = "closed")
          /\ liveHook'.status = (IF at = "closed" THEN "error" ELSE "connected")
      BY <3>2, <3>3, <3>4 DEF HookType
    <3> HIDE DEF at
    <3> QED BY <2>1, <2>2, <3>4, <3>5, <3>6, OwnMoves
  <2>3. CASE ~Ours(f)
    <3> DEFINE at == "closed"
    <3>1. sources' = [sources EXCEPT ![f] = MovedTo(sources[f], at)] /\ liveHook' = liveHook
          /\ at \in {"opening", "open", "closed"} /\ ~(at # "closed")
      BY <1>2, <2>3 DEF SourceOpens, MovedTo
    <3> HIDE DEF at
    <3> QED BY <2>1, <2>3, <3>1, OtherMoves
  <2> QED BY <2>2, <2>3
<1>3. ASSUME NEW lost \in BOOLEAN, SourceFails(f, lost)
      PROVE  LiveInOrder'
  <2>1. routes' \in Seq(RouteType) /\ Len(routes') = Len(routes) /\ RoutesFollow'
    <3> DEFINE cut == routes[f].cut \/ lost
               half == [routes[f] EXCEPT !.told = FALSE]
               next == [half EXCEPT !.cut = cut]
    <3>1. half \in RouteType /\ half.closed = routes[f].closed /\ half.poll = routes[f].poll
          /\ cut \in BOOLEAN
      BY <1>1 DEF RouteType
    <3>2. routes' = [routes EXCEPT ![f].told = FALSE, ![f].cut = cut]
      BY <1>3 DEF SourceFails
    <3>3. [routes EXCEPT ![f].told = FALSE, ![f].cut = cut] = [routes EXCEPT ![f] = next]
      BY <1>1
    <3> HIDE DEF half, cut
    <3>4. next \in RouteType /\ next.closed = routes[f].closed /\ next.poll = routes[f].poll
      BY <3>1 DEF RouteType
    <3> HIDE DEF next
    <3>5. /\ routes' \in Seq(RouteType) /\ Len(routes') = Len(routes)
          /\ \A g \in 1..Len(routes) : routes'[g] = IF g = f THEN next ELSE routes[g]
      <4>1. routes' = [routes EXCEPT ![f] = next]
        BY <3>2, <3>3
      <4>2. f \in 1..Len(routes) /\ routes \in Seq(RouteType) /\ next \in RouteType
        BY <1>1, <3>4
      <4> QED BY ONLY <4>1, <4>2
    <3>6. ASSUME NEW g \in 1..Len(routes), routes'[g].closed
          PROVE  routes'[g].poll # "timer"
      <4>1. routes[f].closed => routes[f].poll # "timer"
        BY <1>1 DEF RoutesFollow
      <4>2. CASE g = f
        BY <3>4, <3>5, <3>6, <4>1, <4>2
      <4>3. CASE g # f
        <5>1. routes'[g] = routes[g]
          BY <3>5, <4>3
        <5> QED BY <1>1, <3>6, <5>1 DEF RoutesFollow
      <4> QED BY <4>2, <4>3
    <3> QED BY <3>5, <3>6 DEF RoutesFollow
  <2>2. sources[f].at # "closed"
    BY <1>3 DEF SourceFails
  <2>3. CASE Ours(f)
    <3> DEFINE half == [liveHook EXCEPT !.status = "error"]
               third == [half EXCEPT !.error = TRUE]
               next == [third EXCEPT !.timer = TRUE]
               at == "closed"
    <3>1. half \in HookType /\ half.run = liveHook.run /\ half.status = "error"
      BY <1>1 DEF HookType
    <3>2. liveHook' = next
      BY <1>1, <1>3, <2>3 DEF SourceFails, HookType
    <3> HIDE DEF half
    <3>3. third \in HookType /\ third.run = liveHook.run /\ third.status = "error"
      BY <3>1 DEF HookType
    <3> HIDE DEF third
    <3>4. next \in HookType /\ next.run = liveHook.run /\ next.status = "error" /\ next.timer = TRUE
      BY <3>3 DEF HookType
    <3> HIDE DEF next
    <3>5. sources' = [sources EXCEPT ![f] = MovedTo(sources[f], at)] /\ at \in {"open", "closed"}
      BY <1>3, <2>3 DEF SourceFails, MovedTo
    <3>6. liveHook' \in HookType /\ liveHook'.run = liveHook.run
          /\ liveHook'.timer = (at = "closed")
          /\ liveHook'.status = (IF at = "closed" THEN "error" ELSE "connected")
      BY <3>2, <3>4
    <3> HIDE DEF at
    <3> QED BY <2>1, <2>2, <2>3, <3>5, <3>6, OwnMoves
  <2>4. CASE ~Ours(f)
    <3> DEFINE at == IF lost THEN "opening" ELSE sources[f].at
    <3>1. sources' = [sources EXCEPT ![f] = MovedTo(sources[f], at)] /\ liveHook' = liveHook
      BY <1>3, <2>4 DEF SourceFails, MovedTo
    <3>2. at \in {"opening", "open", "closed"} /\ (at # "closed" => sources[f].at # "closed")
      BY <1>1, <2>2 DEF SourceType
    <3> HIDE DEF at
    <3> QED BY <2>1, <2>4, <3>1, <3>2, OtherMoves
  <2> QED BY <2>3, <2>4
<1> QED BY <1>2, <1>3

LEMMA LiveStep ==
  ASSUME LiveInOrder, [LiveNext]_liveVars
  PROVE  LiveInOrder'
<1>1. CASE UNCHANGED liveVars
  BY <1>1 DEF liveVars, LiveInOrder, LiveTypeOK, RunsAreKnown, HookFollows, NobodyOpen, OnlyOpen,
              RoutesFollow
<1>2. DOMAIN sources = 1..Len(sources)
  BY LiveFacts
<1>3. CASE LiveNext
  BY <1>2, <1>3, WatchGrantStep, RetryStep, SourceStep, RouteStep DEF LiveNext
<1> QED BY <1>1, <1>3

\* What the run checks of it.
LEMMA LiveSound ==
  ASSUME LiveInOrder
  PROVE  StatusIsOfTheSource /\ RoutesEnd
<1>1. /\ liveHook \in HookType /\ Len(sources) \in Nat /\ DOMAIN sources = 1..Len(sources)
      /\ \A f \in 1..Len(sources) : sources[f].run # 0
      /\ Len(routes) = Len(sources) /\ DOMAIN routes = 1..Len(sources)
      /\ \A f \in 1..Len(sources) : routes[f] \in RouteType
      /\ routes \in Seq(RouteType)
  BY LiveFacts DEF LiveInOrder, RunsAreKnown
<1>2. RoutesEnd
  BY <1>1 DEF LiveInOrder, RoutesFollow, RoutesEnd, RouteType
<1> DEFINE open == {f \in DOMAIN sources : Ours(f) /\ sources[f].at # "closed"}
<1>3. \A f \in 1..Len(sources) : f \in open <=> IsHeard(sources[f], liveHook.run)
  BY <1>1 DEF Ours, IsHeard
<1>4. open \subseteq 1..Len(sources)
  BY <1>1
<1>5. \A f \in DOMAIN sources : ~Ours(f) /\ sources[f].at # "closed" => ~sources[f].first
  BY <1>1 DEF LiveInOrder, LeftOpen, Ours
<1>6. \A f \in open : sources[f].at # "closed"
  OBVIOUS
<1>7. (\A f \in 1..Len(sources) : ~IsHeard(sources[f], liveHook.run)) => open = {}
  BY <1>3, <1>4
<1>8. \A f \in 1..Len(sources) : OnlyOpen(f) => open = {f}
  BY <1>3, <1>4 DEF OnlyOpen
<1> HIDE DEF open
<1>9. /\ Cardinality(open) + (IF liveHook.timer THEN 1 ELSE 0) = (IF liveHook.run = 0 THEN 0 ELSE 1)
      /\ liveHook.status = "connected" <=> \E f \in open : sources[f].at = "open"
      /\ liveHook.status = "error" <=> liveHook.timer
  <2>1. CASE liveHook.run = 0 /\ ~liveHook.timer /\ liveHook.status = "disconnected"
    <3>1. open = {}
      BY <1>1, <1>7, <2>1 DEF IsHeard
    <3>2. Cardinality(open) = 0
      BY <3>1, FS_EmptySet
    <3> QED BY <2>1, <3>1, <3>2
  <2>2. CASE liveHook.run # 0 /\ liveHook.timer /\ liveHook.status = "error" /\ NobodyOpen
    <3>1. open = {}
      BY <1>7, <2>2 DEF NobodyOpen
    <3>2. Cardinality(open) = 0
      BY <3>1, FS_EmptySet
    <3> QED BY <2>2, <3>1, <3>2
  <2>3. ASSUME liveHook.run # 0, ~liveHook.timer, NEW f \in 1..Len(sources), OnlyOpen(f),
               liveHook.status = IF sources[f].at = "open" THEN "connected" ELSE "connecting"
        PROVE  /\ Cardinality(open) + (IF liveHook.timer THEN 1 ELSE 0)
                    = (IF liveHook.run = 0 THEN 0 ELSE 1)
               /\ liveHook.status = "connected" <=> \E g \in open : sources[g].at = "open"
               /\ liveHook.status = "error" <=> liveHook.timer
    <3>1. open = {f}
      BY <1>8, <2>3
    <3>2. Cardinality(open) = 1
      BY <3>1, FS_Singleton
    <3> QED BY <2>3, <3>1, <3>2
  <2> QED BY <2>1, <2>2, <2>3 DEF LiveInOrder, HookFollows
<1> QED BY <1>2, <1>5, <1>9 DEF StatusIsOfTheSource, open

-----------------------------------------------------------------------------
(* The wallet and its session (useWallet.ts).                              *)

WalletKinds == {NoWallet, "freighter", "albedo"}
MaybeAddress == Address \cup {NoWallet}
StoreType == [address : MaybeAddress, type : WalletKinds, adapter : WalletKinds]
RestoreType == [at : {"no", "check", "address", "network", "adapter"}, address : MaybeAddress]
ConnType == [at : {"no", "key", "network"}, type : WalletKinds, address : MaybeAddress]
CardType == [modal : BOOLEAN, balance : MaybeAddress, for : MaybeAddress,
             asks : SUBSET [of : Address, live : BOOLEAN]]
InstType == [mounted : BOOLEAN, connecting : BOOLEAN]

WalletTypeOK ==
    /\ walletStore \in StoreType /\ freighter \in Address
    /\ inst \in [Component -> InstType]
    /\ restore \in [Component -> RestoreType] /\ conn \in [Component -> ConnType]
    /\ card \in CardType /\ mixed \in BOOLEAN

\* What is under way has the address it read, and what was asked for the header is
\* of the address it was asked for.
CallsHaveAddresses ==
    /\ \A c \in Component : restore[c].at = "network" => restore[c].address # NoWallet
    /\ \A c \in Component : conn[c].at = "network" => conn[c].address # NoWallet
BalanceOfAsked ==
    /\ \A ask \in card.asks : ask.live => ask.of = card.for
    /\ card.for # NoWallet /\ (\A ask \in card.asks : ~ask.live)
         => card.balance \in {card.for, NoWallet}

\* As long as no calls overlapped there is one at a time, and a session that is looked at
\* again is one of Freighter.
Calling(c) == restore[c].at # "no" \/ conn[c].at # "no"
OneCall ==
    ~mixed =>
        /\ \A c, d \in Component : Calling(c) /\ Calling(d) => c = d
        /\ \A c \in Component :
              restore[c].at # "no" => conn[c].at = "no" /\ walletStore.type = "freighter"

\* The inductive invariant.
WalletInOrder ==
    /\ WalletTypeOK /\ CallsHaveAddresses /\ BalanceOfAsked /\ OneCall
    /\ StoreIsOneWallet /\ ModalComesBack

LEMMA WalletSound == WalletInOrder => WalletIsSound
  BY DEF WalletInOrder, WalletIsSound, LateBalanceIsDropped, BalanceOfAsked, Connected

LEMMA NobodyHasNoName == NoWallet \notin Address /\ ReviewerWallet \subseteq Address
  BY WalletAssumption DEF NoWallet

LEMMA WalletInitially == WalletInit => WalletInOrder
<1> SUFFICES ASSUME WalletInit PROVE WalletInOrder
  OBVIOUS
<1> USE NobodyHasNoName DEF WalletInit, Disconnected, Still, NoConn
<1>1. WalletTypeOK
  BY DEF WalletTypeOK, StoreType, WalletKinds, MaybeAddress, InstType, RestoreType, ConnType, CardType
<1>2. CallsHaveAddresses /\ BalanceOfAsked
  BY DEF CallsHaveAddresses, BalanceOfAsked
<1>3. OneCall /\ StoreIsOneWallet /\ ModalComesBack
  BY DEF OneCall, Calling, StoreIsOneWallet, ModalComesBack
<1> QED BY <1>1, <1>2, <1>3 DEF WalletInOrder

\* A component is mounted and looks at the session.
LEMMA RestoringStep ==
  ASSUME WalletInOrder, NEW c \in Component, Restoring(c),
         UNCHANGED <<freighter, conn, card, walletUse>>
  PROVE  WalletInOrder'
<1> USE DEF Restoring
<1>1. walletStore \in StoreType /\ restore \in [Component -> RestoreType]
      /\ inst \in [Component -> InstType] /\ conn \in [Component -> ConnType]
      /\ mixed \in BOOLEAN
  BY DEF WalletInOrder, WalletTypeOK
<1>2. walletStore' \in StoreType
  BY <1>1 DEF Disconnected, StoreType, MaybeAddress, WalletKinds
<1>3. inst' \in [Component -> InstType] /\ \A d \in Component : inst'[d].connecting = inst[d].connecting
  BY <1>1 DEF InstType
<1>4. /\ restore' \in [Component -> RestoreType]
      /\ \A d \in Component : d # c => restore'[d] = restore[d]
      /\ restore'[c].at = IF walletStore.type = "freighter" THEN "check" ELSE "no"
  BY <1>1 DEF RestoreType
<1>5. WalletTypeOK'
  <2>1. mixed' \in BOOLEAN
    BY <1>1 DEF Crossing, RestoresUnderWay
  <2> QED BY <1>2, <1>3, <1>4, <2>1 DEF WalletInOrder, WalletTypeOK
<1>6. CallsHaveAddresses' /\ BalanceOfAsked'
  BY <1>4 DEF WalletInOrder, CallsHaveAddresses, BalanceOfAsked
<1>7. ModalComesBack'
  BY <1>3 DEF WalletInOrder, ModalComesBack
<1>8. OneCall'
  <2> SUFFICES ASSUME ~mixed' PROVE /\ \A d, e \in Component : Calling(d)' /\ Calling(e)' => d = e
                                    /\ \A d \in Component : restore'[d].at # "no" =>
                                          conn'[d].at = "no" /\ walletStore'.type = "freighter"
    BY DEF OneCall
  <2>1. \A d \in Component : restore[d].at = "no" /\ conn[d].at = "no"
    BY DEF Crossing, RestoresUnderWay
  <2>2. \A d \in Component : Calling(d)' => d = c /\ walletStore.type = "freighter"
    BY <2>1, <1>4 DEF Calling
  <2>3. walletStore.type = "freighter" => walletStore' = walletStore
    OBVIOUS
  <2> QED BY <2>1, <2>2, <2>3 DEF Calling
<1>9. StoreIsOneWallet'
  <2>1. CASE walletStore.type = "albedo"
    BY <2>1 DEF StoreIsOneWallet, Disconnected
  <2>2. CASE walletStore.type # "albedo"
    <3>1. ~mixed' => ~mixed
      BY DEF Crossing
    <3> QED BY <2>2, <3>1 DEF WalletInOrder, StoreIsOneWallet
  <2> QED BY <2>1, <2>2
<1> QED BY <1>5, <1>6, <1>7, <1>8, <1>9 DEF WalletInOrder

\* A step of a session that is looked at again: it goes on or ends, and leaves in the store
\* another account of Freighter, its adapter, or nothing.
LEMMA SessionStep ==
  ASSUME WalletInOrder, NEW c \in Component,
         restore[c].at # "no",
         NEW next \in RestoreType, next.at = "network" => next.address # NoWallet,
         restore' = [restore EXCEPT ![c] = next],
         \/ walletStore' = walletStore
         \/ walletStore' = Disconnected /\ next.at = "no"
         \/ \E a \in Address : walletStore' = [walletStore EXCEPT !.address = a]
         \/ walletStore' = [walletStore EXCEPT !.adapter = "freighter"],
         UNCHANGED <<freighter, inst, conn, card, mixed>>
  PROVE  WalletInOrder'
<1>1. walletStore \in StoreType /\ restore \in [Component -> RestoreType]
  BY DEF WalletInOrder, WalletTypeOK
<1>2. walletStore' \in StoreType
  BY <1>1 DEF Disconnected, StoreType, MaybeAddress, WalletKinds
<1>3. /\ restore' \in [Component -> RestoreType] /\ restore'[c] = next
      /\ \A d \in Component : d # c => restore'[d] = restore[d]
  BY <1>1
<1>4. WalletTypeOK'
  BY <1>2, <1>3 DEF WalletInOrder, WalletTypeOK
<1>5. CallsHaveAddresses' /\ BalanceOfAsked' /\ ModalComesBack'
  BY <1>3 DEF WalletInOrder, CallsHaveAddresses, BalanceOfAsked, ModalComesBack
<1>6. ~mixed => /\ \A d \in Component : restore[d].at # "no" \/ conn[d].at # "no" => d = c
                /\ walletStore.type = "freighter" /\ conn[c].at = "no"
                /\ walletStore.address # NoWallet /\ walletStore.adapter \in {NoWallet, "freighter"}
  BY DEF WalletInOrder, OneCall, Calling, StoreIsOneWallet, NoWallet
<1>7. walletStore' = Disconnected \/ walletStore'.type = walletStore.type
  BY <1>1 DEF StoreType
<1>8. OneCall'
  <2> SUFFICES ASSUME ~mixed' PROVE /\ \A d, e \in Component : Calling(d)' /\ Calling(e)' => d = e
                                    /\ \A d \in Component : restore'[d].at # "no" =>
                                          conn'[d].at = "no" /\ walletStore'.type = "freighter"
    BY DEF OneCall
  <2>1. \A d \in Component : Calling(d)' => d = c
    BY <1>3, <1>6 DEF Calling
  <2>2. \A d \in Component : restore'[d].at # "no" => conn'[d].at = "no"
    BY <1>3, <1>6
  <2>3. next.at # "no" => walletStore'.type = "freighter"
    <3>1. walletStore.type = "freighter"
      BY <1>6
    <3> QED BY <3>1, <1>1 DEF StoreType
  <2> QED BY <2>1, <2>2, <2>3, <1>3 DEF Calling
<1>9. StoreIsOneWallet'
  <2>1. CASE walletStore' = walletStore
    BY <2>1 DEF WalletInOrder, StoreIsOneWallet
  <2>2. CASE walletStore' = Disconnected
    BY <2>2 DEF StoreIsOneWallet, Disconnected
  <2>3. ASSUME NEW a \in Address, walletStore' = [walletStore EXCEPT !.address = a]
        PROVE  StoreIsOneWallet'
    <3>1. walletStore'.type = walletStore.type /\ walletStore'.adapter = walletStore.adapter
          /\ walletStore'.address # NoWallet
      BY <2>3, <1>1, NobodyHasNoName DEF StoreType
    <3> QED BY <3>1, <1>6 DEF StoreIsOneWallet, NoWallet
  <2>4. CASE walletStore' = [walletStore EXCEPT !.adapter = "freighter"]
    <3>1. walletStore'.type = walletStore.type /\ walletStore'.adapter = "freighter"
          /\ walletStore'.address = walletStore.address
      BY <2>4, <1>1 DEF StoreType
    <3> QED BY <3>1, <1>6 DEF WalletInOrder, StoreIsOneWallet, NoWallet
  <2> QED BY <2>1, <2>2, <2>3, <2>4
<1> QED BY <1>4, <1>5, <1>8, <1>9 DEF WalletInOrder

\* A connection ends, and the store is as before or of the wallet that was connected.
LEMMA ConnectionEnds ==
  ASSUME WalletInOrder, NEW c \in Component, conn[c].at # "no", ConnectEnds(c),
         \/ walletStore' = walletStore
         \/ \E a \in Address, kindOf \in {"freighter", "albedo"} :
               walletStore' = [address |-> a, type |-> kindOf, adapter |-> kindOf],
         UNCHANGED <<freighter, restore, card, mixed>>
  PROVE  WalletInOrder'
<1>1. /\ walletStore \in StoreType /\ conn \in [Component -> ConnType]
      /\ inst \in [Component -> InstType]
  BY DEF WalletInOrder, WalletTypeOK
<1>2. walletStore' \in StoreType
  BY <1>1 DEF StoreType, MaybeAddress, WalletKinds
<1>3. NoConn \in ConnType /\ NoConn.at = "no"
  BY DEF NoConn, ConnType, MaybeAddress, WalletKinds
<1>4. /\ conn' \in [Component -> ConnType] /\ conn'[c].at = "no"
      /\ \A d \in Component : d # c => conn'[d] = conn[d]
  BY <1>1, <1>3 DEF ConnectEnds
<1>5. /\ inst' \in [Component -> InstType] /\ ~inst'[c].connecting
      /\ \A d \in Component : d # c => inst'[d] = inst[d]
  BY <1>1 DEF ConnectEnds, InstType
<1>6. WalletTypeOK'
  BY <1>2, <1>4, <1>5 DEF WalletInOrder, WalletTypeOK
<1>7. CallsHaveAddresses' /\ BalanceOfAsked'
  BY <1>4 DEF WalletInOrder, CallsHaveAddresses, BalanceOfAsked
<1>8. ModalComesBack'
  BY <1>4, <1>5 DEF WalletInOrder, ModalComesBack
<1>9. OneCall'
  <2>1. ~mixed => \A d \in Component : restore[d].at = "no"
    BY DEF WalletInOrder, OneCall, Calling
  <2>2. \A d \in Component : Calling(d)' => Calling(d)
    BY <1>4 DEF Calling
  <2> QED BY <2>1, <2>2 DEF WalletInOrder, OneCall
<1>10. StoreIsOneWallet'
  BY NobodyHasNoName DEF WalletInOrder, StoreIsOneWallet, NoWallet
<1> QED BY <1>6, <1>7, <1>8, <1>9, <1>10 DEF WalletInOrder

LEMMA WalletStep ==
  ASSUME WalletInOrder, [WalletNext]_walletVars
  PROVE  WalletInOrder'
<1>1. CASE MountHeader \/ MountCard \/ MountPage
  BY <1>1, RestoringStep DEF MountHeader, MountCard, MountPage, Component
<1>2. CASE OpenModal \/ CloseModal
  <2>1. card \in CardType
    BY DEF WalletInOrder, WalletTypeOK
  <2>2. card' \in CardType /\ card'.asks = card.asks /\ card'.for = card.for /\ card'.balance = card.balance
    BY <1>2, <2>1 DEF OpenModal, CloseModal, CardType
  <2>3. UNCHANGED <<walletStore, freighter, inst, restore, conn, mixed>>
    BY <1>2 DEF OpenModal, CloseModal
  <2> QED BY <2>2, <2>3 DEF WalletInOrder, WalletTypeOK, CallsHaveAddresses, BalanceOfAsked, OneCall,
        Calling, StoreIsOneWallet, ModalComesBack
<1>3. CASE Disconnect
  <2> USE <1>3 DEF Disconnect
  <2>1. mixed' \in BOOLEAN /\ (~mixed' => \A c \in Component : restore[c].at = "no" /\ conn[c].at = "no")
    BY DEF WalletInOrder, WalletTypeOK, Crossing, RestoresUnderWay
  <2>2. walletStore' \in StoreType
    BY DEF Disconnected, StoreType, MaybeAddress, WalletKinds
  <2>3. WalletTypeOK'
    BY <2>1, <2>2 DEF WalletInOrder, WalletTypeOK
  <2>4. CallsHaveAddresses' /\ BalanceOfAsked' /\ ModalComesBack'
    BY DEF WalletInOrder, CallsHaveAddresses, BalanceOfAsked, ModalComesBack
  <2>5. OneCall'
    BY <2>1 DEF OneCall, Calling
  <2>6. StoreIsOneWallet'
    BY DEF StoreIsOneWallet, Disconnected
  <2> QED BY <2>3, <2>4, <2>5, <2>6 DEF WalletInOrder
<1>4. CASE Reload
  <2> USE <1>4 DEF Reload
  <2>1. walletStore \in StoreType
    BY DEF WalletInOrder, WalletTypeOK
  <2>2. /\ walletStore' \in StoreType /\ walletStore'.address = walletStore.address
        /\ walletStore'.type = walletStore.type /\ walletStore'.adapter = NoWallet
    BY <2>1 DEF StoreType, WalletKinds
  <2>3. /\ inst' \in [Component -> InstType] /\ restore' \in [Component -> RestoreType]
        /\ conn' \in [Component -> ConnType] /\ card' \in CardType
        /\ \A c \in Component : restore'[c].at = "no" /\ conn'[c].at = "no" /\ ~inst'[c].connecting
    BY DEF InstType, RestoreType, ConnType, CardType, Still, NoConn, MaybeAddress, WalletKinds
  <2>4. WalletTypeOK'
    BY <2>2, <2>3 DEF WalletInOrder, WalletTypeOK
  <2>5. CallsHaveAddresses' /\ ModalComesBack' /\ OneCall'
    BY <2>3 DEF CallsHaveAddresses, ModalComesBack, OneCall, Calling
  <2>6. BalanceOfAsked'
    BY DEF BalanceOfAsked
  <2>7. StoreIsOneWallet'
    BY <2>2 DEF WalletInOrder, StoreIsOneWallet
  <2> QED BY <2>4, <2>5, <2>6, <2>7 DEF WalletInOrder
<1>5. CASE SwitchAccount
  BY <1>5 DEF SwitchAccount, WalletInOrder, WalletTypeOK, CallsHaveAddresses, BalanceOfAsked, OneCall,
        Calling, StoreIsOneWallet, ModalComesBack
<1>6. CASE AskBalance
  <2> USE <1>6 DEF AskBalance
  <2>1. card \in CardType /\ walletStore \in StoreType
    BY DEF WalletInOrder, WalletTypeOK
  <2> DEFINE new == IF Connected THEN {[of |-> walletStore.address, live |-> TRUE]} ELSE {}
             old == {[of |-> ask.of, live |-> FALSE] : ask \in card.asks}
  <2>a. \A ask \in old : ask \in [of : Address, live : BOOLEAN] /\ ~ask.live
    <3>1. \A ask \in card.asks : ask \in [of : Address, live : BOOLEAN]
      BY <2>1 DEF CardType
    <3>2. \A a \in Address : [of |-> a, live |-> FALSE] \in [of : Address, live : BOOLEAN]
      OBVIOUS
    <3> QED BY <3>1, <3>2
  <2>b. /\ new \subseteq [of : Address, live : BOOLEAN]
        /\ \A ask \in new : ask.of = walletStore.address
        /\ walletStore.address # NoWallet => \E ask \in new : ask.live
    <3>1. CASE Connected
      <4>1. walletStore.address \in Address
        BY <2>1, <3>1 DEF StoreType, Connected, MaybeAddress
      <4>2. new = {[of |-> walletStore.address, live |-> TRUE]}
        BY <3>1
      <4> DEFINE one == [of |-> walletStore.address, live |-> TRUE]
      <4>3. one \in [of : Address, live : BOOLEAN] /\ one.of = walletStore.address /\ one.live
        BY <4>1
      <4>4. one \in new /\ \A ask \in new : ask = one
        BY <4>2
      <4> HIDE DEF one, new
      <4> QED BY <4>3, <4>4
    <3>2. CASE ~Connected
      BY <3>2 DEF Connected
    <3> QED BY <3>1, <3>2
  <2>2. new \subseteq [of : Address, live : BOOLEAN] /\ old \subseteq [of : Address, live : BOOLEAN]
    BY <2>a, <2>b
  <2>3. /\ \A ask \in old : ~ask.live
        /\ \A ask \in new : ask.of = walletStore.address
        /\ walletStore.address # NoWallet => \E ask \in new : ask.live
    BY <2>a, <2>b
  <2>4. card' = [card EXCEPT !.for = walletStore.address, !.asks = old \cup new]
    OBVIOUS
  <2> HIDE DEF new, old
  <2> DEFINE both == old \cup new
             half == [card EXCEPT !.for = walletStore.address]
  <2>8. both \subseteq [of : Address, live : BOOLEAN] /\ walletStore.address \in MaybeAddress
    BY <2>1, <2>2 DEF StoreType
  <2>9. half \in CardType /\ half.for = walletStore.address
    BY <2>1, <2>8 DEF CardType
  <2>10. card' = [half EXCEPT !.asks = both]
    BY <2>1, <2>4 DEF CardType
  <2> HIDE DEF both, half
  <2>5. card' \in CardType /\ card'.for = walletStore.address /\ card'.asks = old \cup new
    <3>1. card' \in CardType /\ card'.for = walletStore.address /\ card'.asks = both
      BY <2>8, <2>9, <2>10 DEF CardType
    <3> QED BY <3>1 DEF both
  <2>6. BalanceOfAsked'
    BY <2>3, <2>5 DEF BalanceOfAsked
  <2> QED BY <2>5, <2>6 DEF WalletInOrder, WalletTypeOK, CallsHaveAddresses, OneCall,
        Calling, StoreIsOneWallet, ModalComesBack
<1>7. ASSUME NEW c \in Component, Unmount(c)
      PROVE  WalletInOrder'
  <2> USE <1>7 DEF Unmount
  <2>1. inst \in [Component -> InstType]
    BY DEF WalletInOrder, WalletTypeOK
  <2>2. /\ inst' \in [Component -> InstType] /\ ~inst'[c].connecting
        /\ \A d \in Component : d # c => inst'[d] = inst[d]
    BY <2>1 DEF InstType
  <2>3. ModalComesBack'
    BY <2>2 DEF WalletInOrder, ModalComesBack
  <2> QED BY <2>2, <2>3 DEF WalletInOrder, WalletTypeOK, CallsHaveAddresses, BalanceOfAsked, OneCall,
        Calling, StoreIsOneWallet
<1>8. ASSUME NEW c \in Component, RestoreStep(c) \/ RestoreAdapter(c) \/ RestoreRefused(c) \/ RestoreFails(c)
      PROVE  WalletInOrder'
  <2>1. /\ restore \in [Component -> RestoreType] /\ freighter \in Address /\ Address \subseteq MaybeAddress
        /\ restore[c].at = "network" => restore[c].address \in Address
    BY DEF WalletInOrder, WalletTypeOK, CallsHaveAddresses, RestoreType, MaybeAddress
  <2>2. Still \in RestoreType /\ Still.at = "no"
    BY DEF Still, RestoreType, MaybeAddress
  <2>3. CASE RestoreStep(c)
    <3> USE <2>3 DEF RestoreStep
    <3>1. CASE restore[c].at = "check"
      <4> DEFINE next == [restore[c] EXCEPT !.at = "address"]
      <4>1. next \in RestoreType /\ next.at = "address"
        BY <2>1 DEF RestoreType
      <4>2. restore' = [restore EXCEPT ![c] = next] /\ walletStore' = walletStore
        BY <3>1
      <4> HIDE DEF next
      <4> QED BY <3>1, <4>1, <4>2, SessionStep
    <3>2. CASE restore[c].at = "address"
      <4> DEFINE next == [at |-> "network", address |-> freighter]
      <4>1. next \in RestoreType /\ next.address # NoWallet
        BY <2>1, NobodyHasNoName DEF RestoreType
      <4>2. restore' = [restore EXCEPT ![c] = next] /\ walletStore' = walletStore
        BY <3>2
      <4> HIDE DEF next
      <4> QED BY <3>2, <4>1, <4>2, SessionStep
    <3>3. CASE restore[c].at = "network"
      <4> DEFINE next == [restore[c] EXCEPT !.at = "adapter"]
      <4>1. next \in RestoreType /\ next.at = "adapter"
        BY <2>1 DEF RestoreType
      <4>2. /\ restore' = [restore EXCEPT ![c] = next]
            /\ walletStore' = [walletStore EXCEPT !.address = restore[c].address]
        BY <3>3
      <4> HIDE DEF next
      <4> QED BY <3>3, <2>1, <4>1, <4>2, SessionStep
    <3> QED BY <3>1, <3>2, <3>3
  <2>4. CASE RestoreAdapter(c)
    BY <2>2, <2>4, SessionStep DEF RestoreAdapter, RestoreEnds
  <2>5. CASE RestoreRefused(c)
    BY <2>2, <2>5, SessionStep DEF RestoreRefused, RestoreEnds
  <2>6. CASE RestoreFails(c)
    BY <2>2, <2>6, SessionStep DEF RestoreFails, RestoreEnds
  <2> QED BY <1>8, <2>3, <2>4, <2>5, <2>6
<1>9. ASSUME NEW c \in Component, NEW type \in {"freighter", "albedo"}, ConnectWallet(c, type)
      PROVE  WalletInOrder'
  <2> USE <1>9 DEF ConnectWallet
  <2>1. conn \in [Component -> ConnType] /\ inst \in [Component -> InstType]
    BY DEF WalletInOrder, WalletTypeOK
  <2>2. [at |-> "key", type |-> type, address |-> NoWallet] \in ConnType
    BY DEF ConnType, WalletKinds, MaybeAddress
  <2>3. /\ conn' \in [Component -> ConnType] /\ conn'[c].at = "key"
        /\ \A d \in Component : d # c => conn'[d] = conn[d]
    BY <2>1, <2>2
  <2>4. /\ inst' \in [Component -> InstType]
        /\ \A d \in Component : d # c => inst'[d] = inst[d]
    BY <2>1 DEF InstType
  <2>5. mixed' \in BOOLEAN /\ (mixed => mixed')
        /\ (~mixed' => \A d \in Component : restore[d].at = "no" /\ conn[d].at = "no")
    BY DEF WalletInOrder, WalletTypeOK, Crossing, RestoresUnderWay
  <2>6. WalletTypeOK'
    BY <2>3, <2>4, <2>5 DEF WalletInOrder, WalletTypeOK
  <2>7. CallsHaveAddresses' /\ BalanceOfAsked'
    BY <2>3 DEF WalletInOrder, CallsHaveAddresses, BalanceOfAsked
  <2>8. ModalComesBack'
    BY <2>3, <2>4 DEF WalletInOrder, ModalComesBack
  <2>9. OneCall'
    <3>1. ~mixed' => \A d \in Component : Calling(d)' => d = c
      BY <2>3, <2>5 DEF Calling
    <3>2. ~mixed' => \A d \in Component : restore'[d].at = "no"
      BY <2>5
    <3> QED BY <3>1, <3>2 DEF OneCall
  <2>10. StoreIsOneWallet'
    BY <2>5 DEF WalletInOrder, StoreIsOneWallet
  <2> QED BY <2>6, <2>7, <2>8, <2>9, <2>10 DEF WalletInOrder
<1>10. ASSUME NEW c \in Component, FreighterKey(c)
       PROVE  WalletInOrder'
  <2> USE <1>10 DEF FreighterKey
  <2>1. conn \in [Component -> ConnType] /\ freighter \in Address /\ freighter # NoWallet
    BY NobodyHasNoName DEF WalletInOrder, WalletTypeOK
  <2> DEFINE half == [conn[c] EXCEPT !.at = "network"]
             next == [half EXCEPT !.address = freighter]
  <2>2. half \in ConnType /\ half.at = "network"
    BY <2>1 DEF ConnType
  <2>3. conn' = [conn EXCEPT ![c] = next]
    BY <2>1
  <2> HIDE DEF half
  <2>4. next \in ConnType /\ next.at = "network" /\ next.address = freighter
    BY <2>1, <2>2 DEF ConnType, MaybeAddress
  <2> HIDE DEF next
  <2>5. /\ conn' \in [Component -> ConnType] /\ conn'[c] = next
        /\ \A d \in Component : d # c => conn'[d] = conn[d]
    BY <2>1, <2>3, <2>4
  <2>6. \A d \in Component : conn'[d].at = "no" <=> conn[d].at = "no"
    BY <2>4, <2>5
  <2>7. CallsHaveAddresses'
    BY <2>1, <2>4, <2>5 DEF WalletInOrder, CallsHaveAddresses
  <2> QED BY <2>5, <2>6, <2>7 DEF WalletInOrder, WalletTypeOK, BalanceOfAsked, OneCall,
        Calling, StoreIsOneWallet, ModalComesBack
<1>11. ASSUME NEW c \in Component, NEW key \in Address, AlbedoKey(c, key)
       PROVE  WalletInOrder'
  BY <1>11, ConnectionEnds DEF AlbedoKey
<1>12. ASSUME NEW c \in Component, GetNetwork(c)
       PROVE  WalletInOrder'
  <2>1. conn[c].address \in Address
    BY <1>12 DEF GetNetwork, WalletInOrder, WalletTypeOK, CallsHaveAddresses, ConnType, MaybeAddress
  <2> QED BY <1>12, <2>1, ConnectionEnds DEF GetNetwork
<1>13. ASSUME NEW c \in Component, ConnectFails(c)
       PROVE  WalletInOrder'
  BY <1>13, ConnectionEnds DEF ConnectFails
<1>14. ASSUME NEW ask \in [of : Address, live : BOOLEAN], NEW ok \in BOOLEAN, ShowBalance(ask, ok)
       PROVE  WalletInOrder'
  <2> USE <1>14 DEF ShowBalance
  <2> DEFINE shown == IF ~ask.live THEN card.balance ELSE IF ok THEN ask.of ELSE NoWallet
             ended == card.asks \ {ask}
  <2>1. card \in CardType
    BY DEF WalletInOrder, WalletTypeOK
  <2>2. shown \in MaybeAddress /\ ended \subseteq [of : Address, live : BOOLEAN]
    BY <2>1 DEF CardType, MaybeAddress
  <2>3. card' = [card EXCEPT !.asks = ended, !.balance = shown]
    OBVIOUS
  <2> HIDE DEF shown, ended
  <2>4. card' \in CardType /\ card'.asks = ended /\ card'.balance = shown /\ card'.for = card.for
    BY <2>1, <2>2, <2>3 DEF CardType
  <2>5. BalanceOfAsked'
    BY <2>4 DEF WalletInOrder, BalanceOfAsked, shown, ended
  <2>6. UNCHANGED <<walletStore, freighter, inst, restore, conn, mixed>>
    OBVIOUS
  <2> QED BY <2>4, <2>5, <2>6 DEF WalletInOrder, WalletTypeOK, CallsHaveAddresses, OneCall,
        Calling, StoreIsOneWallet, ModalComesBack
<1>15. CASE UNCHANGED walletVars
  BY <1>15 DEF walletVars, WalletInOrder, WalletTypeOK, CallsHaveAddresses, BalanceOfAsked, OneCall,
        Calling, StoreIsOneWallet, ModalComesBack
<1> QED BY <1>1, <1>2, <1>3, <1>4, <1>5, <1>6, <1>7, <1>8, <1>9, <1>10, <1>11, <1>12, <1>13,
           <1>14, <1>15 DEF WalletNext, ComponentStep

-----------------------------------------------------------------------------
(* The clients: one component runs, the others rest (Together).             *)

\* Whichever component runs, every component takes a step of its own or none.
LEMMA ClientRuns ==
  ASSUME [ClientNext]_<<part, clientVars>>
  PROVE  /\ [TransactionNext]_transactionVars /\ [EventNext]_eventVars
         /\ [BalanceNext]_balanceVars /\ [GrantPageNext]_grantPageVars
         /\ [FundFormNext]_fundFormVars /\ [WebEventNext]_webEventVars
         /\ [LiveNext]_liveVars /\ [WalletNext]_walletVars
         /\ [WebTxNext]_webTxVars /\ [OptimisticNext]_optimisticVars
         /\ [SigNext]_sigVars /\ [SignerNext]_signerVars
         /\ ReadViewNext \/ FundNext \/ UNCHANGED readsVars
  BY DEF ClientNext, clientVars

LEMMA WritesInOrderAlways == ClientSpec => []TransactionsInOrder
<1>1. ClientInit => TransactionsInOrder
  BY TransactionsInitially DEF ClientInit
<1>2. TransactionsInOrder /\ [ClientNext]_<<part, clientVars>> => TransactionsInOrder'
  BY ClientRuns, TransactionStep
<1> QED BY <1>1, <1>2, PTL DEF ClientSpec

LEMMA EventsInOrderAlways == ClientSpec => []EventsInOrder
<1>1. ClientInit => EventsInOrder
  BY EventsInitially DEF ClientInit
<1>2. EventsInOrder /\ [ClientNext]_<<part, clientVars>> => EventsInOrder'
  BY ClientRuns, EventStep
<1> QED BY <1>1, <1>2, PTL DEF ClientSpec

\* StellarGrantsSDK.ts, transactions: a write is applied once at most, whatever is sent
\* again; an outcome that is final was that of the chain; and its caller is told of the
\* stages in their order, up to the outcome.
THEOREM WritesAlwaysSound == ClientSpec => []WritesAreSound
  BY WritesInOrderAlways, TransactionsSound, PTL

\* A transaction does what its caller is told (StellarGrantsSDK.ts); a page shows a vote
\* or a status only if it was applied (useContractTransaction.ts); a prediction that
\* fails is taken back (optimistic.ts); what is submitted has every signature given,
\* once, and is signed by the account it is from (multisig.ts, the wallet adapters);
\* and what is kept of a view is no older than it may be (contract.ts).
THEOREM TransactionsAlwaysHonest == ClientSpec => []TransactionsAreHonest
<1> DEFINE Inv == /\ WebTxInOrder /\ OptimisticInOrder /\ SigInOrder /\ SignersInOrder
                  /\ ReadsInOrder
<1>1. ClientInit => Inv
  BY WebTxInitially, OptimisticInitially, SigInitially, SignersInitially, ReadsInitially
     DEF ClientInit
<1>2. Inv /\ [ClientNext]_<<part, clientVars>> => Inv'
  BY ClientRuns, WebTxStep, OptimisticStep, SigStep, SignerStep, ViewStep, FundStep
<1>3. TransactionsInOrder /\ Inv => TransactionsAreHonest
  BY TransactionsSound, WebTxSound, OptimisticSound, SigSound, SignersSound
     DEF TransactionsAreHonest, SignaturesAreSound, ReadsInOrder
<1> QED BY <1>1, <1>2, <1>3, WritesInOrderAlways, PTL DEF ClientSpec

\* useGrantBalances.ts: the listener tells the newest balance it read and ends when
\* stopped; useFundGrant.ts, GrantDetailClient.tsx: the page never goes back behind a
\* funding it has shown; FundGrantModal.tsx: the form gives once, from the balance of the
\* wallet it shows; useWallet.ts: no wallet is shown with the session of another.
THEOREM MoneyAlwaysTrue == ClientSpec => []MoneyIsTrue
<1> DEFINE Shown == BalancesInOrder /\ PageInOrder /\ FormInOrder /\ WalletInOrder
<1>1. ClientInit => Shown
  BY BalancesInitially, PageInitially, FormInitially, WalletInitially DEF ClientInit
<1>2. Shown /\ [ClientNext]_<<part, clientVars>> => Shown'
  BY ClientRuns, BalanceStep, PageStep, FormStep, WalletStep
<1>3. Shown => MoneyIsTrue
  BY WalletSound DEF MoneyIsTrue, BalancesInOrder, PageInOrder, FormInOrder
<1> QED BY <1>1, <1>2, <1>3, PTL DEF ClientSpec

\* StellarGrantsSDK.ts, subscribeToEvents(): every event is heard once at most and in
\* order, and none is passed over but by a callback that threw; subscription.ts: the
\* cursor covers only what was heard, and a feed that is not stopped has something armed;
\* useContractEvents.ts, api/events/route.ts: the status shown is the open source's, and
\* a route whose source is gone ends.
THEOREM EventsAlwaysHeardOnce == ClientSpec => []EventsAreHeardOnce
<1> DEFINE Feeds == FeedInOrder /\ LiveInOrder
<1>1. ClientInit => Feeds
  BY FeedInitially, LiveInitially DEF ClientInit
<1>2. Feeds /\ [ClientNext]_<<part, clientVars>> => Feeds'
  BY ClientRuns, FeedStep, LiveStep
<1>3. EventsInOrder /\ Feeds => EventsAreHeardOnce
  BY EventsSound, LiveSound DEF EventsAreHeardOnce, FeedIsWhole, FeedInOrder
<1> QED BY <1>1, <1>2, <1>3, EventsInOrderAlways, PTL DEF ClientSpec

\* A write whose outcome is known keeps it, and a subscription that was closed hears
\* nothing more and stays closed, whatever timers and answers are still on their way
\* (StellarGrantsSDK.ts).
THEOREM SettledAlwaysStaySettled == ClientSpec => TheSettledStaySettled
<1>1. TransactionsInOrder /\ [ClientNext]_<<part, clientVars>>
        => [\A c \in Call : sdkCall[c].at \in Settled \ {"sent"}
                              => sdkCall'[c].at = sdkCall[c].at]_sdkCall
  BY ClientRuns, PromisesKept
<1>2. EventsInOrder /\ [ClientNext]_<<part, clientVars>>
        => [\A s \in Sub : subOf[s].state = "closed" =>
              heardBy'[s] = heardBy[s] /\ subOf'[s].state = "closed"]_<<heardBy, subOf>>
  BY ClientRuns, ClosedEnds
<1> QED BY <1>1, <1>2, WritesInOrderAlways, EventsInOrderAlways, PTL
        DEF ClientSpec, TheSettledStaySettled, PromisesAreKept, ClosedIsSilent
=============================================================================
