--------------------------- MODULE EscrowAccount ---------------------------
(***************************************************************************)
(* The life of one escrow account under everything its callers do to it:   *)
(* deposits at any time (token_swap.rs and syndication.rs deposit without  *)
(* a look at the grant), payouts, the withdrawal of a syndicate member     *)
(* while the grant is active and of any funder afterwards (both refund()), *)
(* and refund_all(), which the code reaches only from an Active grant and  *)
(* only in the call that makes it Cancelled or Completed (lib.rs:314-385,  *)
(* 480-571), so at most once.                                              *)
(***************************************************************************)
EXTENDS EscrowLedger_proofs

CONSTANTS Amount,      \* the amounts moved in one call
          MaxDeposits  \* bound: the total deposited

ASSUME AmountAssumption == Amount \subseteq Nat \ {0} /\ MaxDeposits \in Nat

VARIABLES
    escrow,   \* the account
    held,     \* the tokens the contract holds on behalf of this grant
    settled   \* refund_all() ran, or the grant ended without it

escrowVars == <<escrow, held, settled>>

\* The account has the type of EscrowAccount and FunderLedger in types.rs.
EscrowTypeOK ==
    /\ escrow \in Escrow
    /\ held \in Int
    /\ settled \in BOOLEAN

EscrowInit == escrow = Opened /\ held = 0 /\ settled = FALSE

DepositStep(f, amount) ==
    /\ escrow.deposited + amount <= MaxDeposits
    /\ escrow' = Deposit(escrow, f, amount)
    /\ held' = held + amount
    /\ UNCHANGED settled

ReleaseStep(amount) ==
    /\ CanRelease(escrow, amount)
    /\ escrow' = Release(escrow, amount)
    /\ held' = held - amount
    /\ UNCHANGED settled

RefundStep(f) ==
    /\ CanRefund(escrow, f)
    /\ escrow' = Refund(escrow, f)
    /\ held' = held - RefundAmount(escrow, f)
    /\ UNCHANGED settled

RefundAllStep ==
    /\ ~settled
    /\ settled' = TRUE
    /\ escrow' = RefundAll(escrow)
    /\ held' = held - TotalPaid(escrow)

LockStep(on) ==
    /\ escrow' = SetLock(escrow, on)
    /\ UNCHANGED <<held, settled>>

EscrowNext ==
    \/ \E f \in Funder :
          \/ \E amount \in Amount : DepositStep(f, amount)
          \/ RefundStep(f)
    \/ \E amount \in Amount : ReleaseStep(amount)
    \/ RefundAllStep
    \/ \E on \in BOOLEAN : LockStep(on)

EscrowSpec == EscrowInit /\ [][EscrowNext]_escrowVars

-----------------------------------------------------------------------------

\* The balance never runs ahead of what came in: what was released and what
\* is left were deposited, after any refunds and any rounding (escrow.rs).
BalanceCovered == escrow.released + escrow.balance <= escrow.deposited

\* escrow.rs:100: the field of Grant that the rest of the contract reads never
\* departs from the account, after any sequence of these calls.
MirrorAgrees == escrow.mirror = escrow.balance

\* Nothing is stranded: what is left is owed to the funders, who can take all
\* of it back by refund(), after any rounding and any payout.
BalanceIsOwed ==
    escrow.balance <= SumFunction([f \in Owed(escrow) |-> Net(escrow, f)])

\* The tokens are there: refund_all() never pays more than the balance, and
\* the rounding it leaves behind is less than one unit for each funder.
HeldCoversBalance ==
    /\ held >= escrow.balance
    /\ held - escrow.balance < Cardinality(Funder)

\* The balance of an account is backed: by deposits, by tokens, by the field of the
\* grant, and by what its funders may take back (escrow.rs).
BalanceIsBacked == BalanceCovered /\ MirrorAgrees /\ BalanceIsOwed /\ HeldCoversBalance

\* Rounding costs nobody more than it must: refund_all() pays each funder who
\* is owed something less than one unit below the exact share of the balance,
\* and all but the last of the list no more than that share.
SharesAreProportional ==
    [][settled' # settled /\ escrow.balance > 0 =>
          \A f \in Owed(escrow) :
             LET exact == Net(escrow, f) * escrow.balance
                 paid  == (escrow'.refunded[f] - escrow.refunded[f]) * NetTotal(escrow)
             IN /\ paid > exact - NetTotal(escrow)
                /\ ~IsLast(escrow, f) => paid <= exact]_escrowVars

\* Nobody gets back more than was put in, but for the rounding that
\* refund_all() gives to one funder, the last of the list at that moment.
RefundsWithinContributions ==
    LET over == {f \in Funder : escrow.refunded[f] > escrow.contributed[f]} IN
        /\ \A f \in over : escrow.refunded[f] < escrow.contributed[f] + Cardinality(Funder)
        /\ Cardinality(over) <= 1
        /\ over # {} => settled

-----------------------------------------------------------------------------
(* The account of a grant stays backed under everything its callers do,    *)
(* for any set of funders, any amounts and any number of calls.            *)

\* The inductive invariant.  Before refund_all() the contract holds exactly the
\* balance and nobody got more than was put in; afterwards both hold up to the
\* rounding.
AccountIsSound ==
    /\ Kept(escrow) /\ Rounded(escrow)
    /\ held \in Int /\ settled \in BOOLEAN
    /\ escrow.mirror = escrow.balance
    /\ escrow.released + escrow.balance <= escrow.deposited
    /\ held >= escrow.balance /\ held - escrow.balance < Cardinality(Funder)
    /\ ~settled => held = escrow.balance /\ Unexceeded(escrow)

LEMMA FunderCount == Cardinality(Funder) \in Nat /\ Cardinality(Funder) > 0
<1>1. Cardinality(Funder) \in Nat /\ Cardinality(Funder) # 0
  BY FunderAssumption, FS_CardinalityType, FS_EmptySet
<1> QED BY <1>1

LEMMA SoundInitially == EscrowInit => AccountIsSound
<1> SUFFICES ASSUME EscrowInit PROVE AccountIsSound
  OBVIOUS
<1>1. escrow = Opened /\ held = 0 /\ settled = FALSE
  BY DEF EscrowInit
<1>2. Opened \in Escrow /\ Rounded(Opened)
  BY OpenedKept, UnexceededIsRounded DEF Kept
<1>3. /\ Kept(escrow) /\ Unexceeded(escrow) /\ Rounded(escrow)
      /\ escrow.balance = 0 /\ escrow.mirror = 0 /\ escrow.released = 0 /\ escrow.deposited = 0
  BY <1>1, <1>2, OpenedKept, Zenon
<1>4. held \in Int /\ held >= escrow.balance /\ held = escrow.balance
      /\ held - escrow.balance < Cardinality(Funder)
      /\ escrow.released + escrow.balance <= escrow.deposited
  BY <1>1, <1>3, FunderCount
<1>5. settled \in BOOLEAN
  BY <1>1
<1> QED BY <1>3, <1>4, <1>5 DEF AccountIsSound

LEMMA SoundAfterDeposit ==
  ASSUME AccountIsSound, NEW f \in Funder, NEW amount \in Amount, DepositStep(f, amount)
  PROVE  AccountIsSound'
<1> DEFINE d == Deposit(escrow, f, amount)
<1>1. Kept(escrow) /\ escrow \in Escrow /\ amount \in Nat
  BY AmountAssumption DEF AccountIsSound, Kept
<1>2. /\ d \in Escrow /\ d.balance = escrow.balance + amount /\ d.mirror = escrow.balance + amount
      /\ d.deposited = escrow.deposited + amount /\ d.released = escrow.released
  BY <1>1, DepositFields
<1>3. /\ Kept(d) /\ (Unexceeded(escrow) => Unexceeded(d))
      /\ \A h \in Funder : /\ d.refunded[h] = escrow.refunded[h]
                           /\ d.contributed[h] >= escrow.contributed[h]
  BY <1>1, DepositKept
<1>4. escrow' = d /\ held' = held + amount /\ settled' = settled
  BY DEF DepositStep
<1> HIDE DEF d
<1>5. Rounded(d)
  BY <1>1, <1>2, <1>3, RoundedStays DEF AccountIsSound
<1>6. /\ escrow.balance \in Nat /\ escrow.deposited \in Nat /\ escrow.released \in Nat
      /\ held \in Int
  BY <1>1, FieldTypes DEF AccountIsSound
<1> QED BY <1>1, <1>2, <1>3, <1>4, <1>5, <1>6, FunderCount DEF AccountIsSound

LEMMA SoundAfterRelease ==
  ASSUME AccountIsSound, NEW amount \in Amount, ReleaseStep(amount)
  PROVE  AccountIsSound'
<1> DEFINE r == Release(escrow, amount)
<1>1. /\ Kept(escrow) /\ escrow \in Escrow /\ amount \in Nat /\ amount <= escrow.balance
      /\ escrow.balance \in Nat /\ escrow.deposited \in Nat /\ escrow.released \in Nat
      /\ held \in Int
  BY AmountAssumption, FieldTypes DEF AccountIsSound, Kept, ReleaseStep, CanRelease
<1>2. /\ Kept(r) /\ (Unexceeded(escrow) => Unexceeded(r))
      /\ r.balance = escrow.balance - amount /\ r.mirror = escrow.balance - amount
      /\ r.released = escrow.released + amount /\ r.deposited = escrow.deposited
      /\ r.contributed = escrow.contributed /\ r.refunded = escrow.refunded
  BY <1>1, ReleaseKept
<1>3. escrow' = r /\ held' = held - amount /\ settled' = settled
  BY DEF ReleaseStep
<1> HIDE DEF r
<1>4. Rounded(r)
  BY <1>2 DEF AccountIsSound, Rounded
<1> QED BY <1>1, <1>2, <1>3, <1>4, FunderCount DEF AccountIsSound

LEMMA SoundAfterRefund ==
  ASSUME AccountIsSound, NEW f \in Funder, RefundStep(f)
  PROVE  AccountIsSound'
<1> DEFINE r == Refund(escrow, f)
           amount == RefundAmount(escrow, f)
<1>1. /\ Kept(escrow) /\ escrow \in Escrow /\ CanRefund(escrow, f)
      /\ escrow.balance \in Nat /\ escrow.deposited \in Nat /\ escrow.released \in Nat
      /\ held \in Int
  BY FieldTypes DEF AccountIsSound, Kept, RefundStep
<1>2. /\ Kept(r) /\ (Unexceeded(escrow) => Unexceeded(r))
      /\ amount \in Nat /\ amount <= escrow.balance
      /\ r.balance = escrow.balance - amount /\ r.mirror = escrow.balance - amount
      /\ r.released = escrow.released /\ r.deposited = escrow.deposited
      /\ r.contributed = escrow.contributed /\ r.refunded[f] <= r.contributed[f]
      /\ \A h \in Funder \ {f} : r.refunded[h] = escrow.refunded[h]
  BY <1>1, RefundKept
<1>3. escrow' = r /\ held' = held - amount /\ settled' = settled
  BY DEF RefundStep
<1> HIDE DEF r, amount
<1>4. Rounded(r)
  <2>1. r \in Escrow /\ Rounded(escrow)
    BY <1>2 DEF Kept, AccountIsSound
  <2>2. ASSUME NEW h \in Funder
        PROVE  \/ r.refunded[h] = escrow.refunded[h] /\ r.contributed[h] >= escrow.contributed[h]
               \/ r.refunded[h] <= r.contributed[h]
    <3>1. r.contributed[h] \in Int /\ r.contributed[h] = escrow.contributed[h]
      BY <1>2, <2>1, FieldTypes
    <3> QED BY <1>2, <3>1
  <2> QED BY <1>1, <2>1, <2>2, RoundedStays
<1> QED BY <1>1, <1>2, <1>3, <1>4, FunderCount DEF AccountIsSound

LEMMA SoundAfterRefundAll ==
  ASSUME AccountIsSound, RefundAllStep
  PROVE  AccountIsSound'
<1> DEFINE r == RefundAll(escrow)
           paid == TotalPaid(escrow)
<1>1. /\ Kept(escrow) /\ escrow \in Escrow /\ Unexceeded(escrow) /\ held = escrow.balance
      /\ escrow.balance \in Nat /\ escrow.deposited \in Nat /\ escrow.released \in Nat
      /\ escrow.mirror = escrow.balance
  BY FieldTypes DEF AccountIsSound, Kept, RefundAllStep
<1>2. /\ Kept(r) /\ Rounded(r)
      /\ r.balance = 0 /\ r.mirror = IF escrow.balance = 0 THEN escrow.mirror ELSE 0
      /\ r.deposited = escrow.deposited /\ r.released = escrow.released
      /\ paid \in Nat /\ paid <= escrow.balance
      /\ escrow.balance - paid < Cardinality(Funder)
  BY <1>1, RefundAllKept
<1>3. escrow' = r /\ held' = held - paid /\ settled' = TRUE
  BY DEF RefundAllStep
<1> HIDE DEF r, paid
<1>4. escrow.released + escrow.balance <= escrow.deposited
  BY DEF AccountIsSound
<1> QED BY <1>1, <1>2, <1>3, <1>4, FunderCount DEF AccountIsSound

LEMMA SoundAfterLock ==
  ASSUME AccountIsSound, NEW on \in BOOLEAN, LockStep(on)
  PROVE  AccountIsSound'
<1> DEFINE l == SetLock(escrow, on)
<1>1. /\ Kept(l) /\ (Unexceeded(escrow) => Unexceeded(l))
      /\ l.balance = escrow.balance /\ l.mirror = escrow.mirror
      /\ l.released = escrow.released /\ l.deposited = escrow.deposited
      /\ l.contributed = escrow.contributed /\ l.refunded = escrow.refunded
  BY SetLockKept DEF AccountIsSound
<1>2. escrow' = l /\ held' = held /\ settled' = settled
  BY DEF LockStep
<1> HIDE DEF l
<1>3. Rounded(l)
  BY <1>1 DEF AccountIsSound, Rounded
<1> QED BY <1>1, <1>2, <1>3 DEF AccountIsSound

LEMMA SoundAfterStep ==
  ASSUME AccountIsSound, [EscrowNext]_escrowVars
  PROVE  AccountIsSound'
<1>1. CASE UNCHANGED escrowVars
  BY <1>1 DEF escrowVars, AccountIsSound
<1>2. CASE EscrowNext
  BY <1>2, SoundAfterDeposit, SoundAfterRelease, SoundAfterRefund, SoundAfterRefundAll,
     SoundAfterLock DEF EscrowNext
<1> QED BY <1>1, <1>2

LEMMA AccountSound == EscrowSpec => []AccountIsSound
<1>1. AccountIsSound /\ [EscrowNext]_escrowVars => AccountIsSound'
  BY SoundAfterStep
<1> QED BY SoundInitially, <1>1, PTL DEF EscrowSpec

-----------------------------------------------------------------------------

\* An account keeps the type of EscrowAccount and FunderLedger in types.rs: no
\* call drives the balance below zero.
THEOREM AccountKeepsItsType == EscrowSpec => []EscrowTypeOK
<1>1. AccountIsSound => EscrowTypeOK
  BY DEF AccountIsSound, EscrowTypeOK, Kept
<1> QED BY AccountSound, <1>1, PTL

\* The balance of escrow.rs is backed by deposits, by the mirror, by what the
\* funders are owed and by the tokens held, after any calls and any rounding.
THEOREM BalanceStaysBacked == EscrowSpec => []BalanceIsBacked
<1>1. AccountIsSound => BalanceIsBacked
  <2> SUFFICES ASSUME AccountIsSound PROVE BalanceIsBacked
    OBVIOUS
  <2>1. BalanceIsOwed
    BY OwedCoversBalance DEF AccountIsSound, BalanceIsOwed
  <2> QED BY <2>1 DEF AccountIsSound, BalanceIsBacked, BalanceCovered, MirrorAgrees,
                      HeldCoversBalance
<1> QED BY AccountSound, <1>1, PTL

\* refund() and refund_all() together give nobody more than was put in, but for
\* the rounding one funder gets.
THEOREM RefundsStayWithin == EscrowSpec => []RefundsWithinContributions
<1>1. AccountIsSound => RefundsWithinContributions
  <2> SUFFICES ASSUME AccountIsSound PROVE RefundsWithinContributions
    OBVIOUS
  <2> DEFINE over == {f \in Funder : escrow.refunded[f] > escrow.contributed[f]}
  <2>1. \A f \in over : escrow.refunded[f] < escrow.contributed[f] + Cardinality(Funder)
    BY DEF AccountIsSound, Rounded
  <2>2. Cardinality(over) <= 1
    <3>1. \A f, h \in over : f = h
      BY DEF AccountIsSound, Rounded
    <3> HIDE DEF over
    <3>2. CASE over = {}
      BY <3>2, FS_EmptySet
    <3>3. CASE over # {}
      <4>1. PICK f \in over : over = {f}
        BY <3>1, <3>3
      <4>2. Cardinality({f}) = 1
        BY FS_Singleton
      <4> QED BY <4>1, <4>2
    <3> QED BY <3>2, <3>3
  <2>3. over # {} => settled
    <3>1. escrow \in Escrow
      BY DEF AccountIsSound, Kept
    <3> QED BY <3>1, FieldTypes DEF AccountIsSound, Unexceeded
  <2> QED BY <2>1, <2>2, <2>3 DEF RefundsWithinContributions
<1> QED BY AccountSound, <1>1, PTL

\* refund_all() pays everybody owed something within one unit of the exact share.
THEOREM SharesStayProportional == EscrowSpec => SharesAreProportional
<1> DEFINE Fair == settled' # settled /\ escrow.balance > 0 =>
                     \A f \in Owed(escrow) :
                        LET exact == Net(escrow, f) * escrow.balance
                            paid  == (escrow'.refunded[f] - escrow.refunded[f]) * NetTotal(escrow)
                        IN /\ paid > exact - NetTotal(escrow)
                           /\ ~IsLast(escrow, f) => paid <= exact
<1>1. AccountIsSound /\ [EscrowNext]_escrowVars => [Fair]_escrowVars
  <2> SUFFICES ASSUME AccountIsSound, EscrowNext, settled' # settled, escrow.balance > 0,
                      NEW f \in Owed(escrow)
               PROVE  LET exact == Net(escrow, f) * escrow.balance
                          paid  == (escrow'.refunded[f] - escrow.refunded[f]) * NetTotal(escrow)
                      IN /\ paid > exact - NetTotal(escrow)
                         /\ ~IsLast(escrow, f) => paid <= exact
    OBVIOUS
  <2>1. RefundAllStep
    BY DEF EscrowNext, DepositStep, ReleaseStep, RefundStep, LockStep
  <2>2. Payable(escrow)
    BY <2>1 DEF RefundAllStep, AccountIsSound, Payable
  <2> DEFINE N == NetTotal(escrow)
             n == Net(escrow, f)
             share == Share(escrow, f)
             got == escrow'.refunded[f] - escrow.refunded[f]
             exact == n * escrow.balance
  <2>3. f \in Funder /\ escrow \in Escrow
    BY <2>2, NetsArePositive
  <2>4. got = Payment(escrow, f)
    <3>1. escrow'.refunded[f] = escrow.refunded[f] + Payment(escrow, f)
      BY <2>1, <2>2, <2>3, RefundAllFields DEF RefundAllStep
    <3>2. escrow.refunded[f] \in Int /\ Payment(escrow, f) \in Int
      BY <2>2, <2>3, FieldTypes, PaymentType
    <3> QED BY <3>1, <3>2
  <2>5. /\ share \in Nat /\ exact \in Nat /\ N \in Nat \ {0}
        /\ N * share <= exact /\ exact < N * share + N
    BY <2>2, ShareBounds, BackingOfOwed
  <2>6. Left(escrow) \in Nat
    BY <2>2, LeftBounds
  <2>7. /\ got \in Nat /\ share <= got
        /\ ~IsLast(escrow, f) => got = share
    BY <2>2, <2>3, <2>4, <2>5, <2>6, PaymentIs
  <2> HIDE DEF N, n, share, got, exact
  <2>8. N * share <= N * got /\ N * got = got * N
    BY <2>5, <2>7, ProductMonotone, Product
  <2>9. got * N > exact - N /\ (~IsLast(escrow, f) => got * N <= exact)
    BY <2>5, <2>7, <2>8
  <2> QED BY <2>9 DEF N, n, got, exact
<1> QED BY AccountSound, <1>1, PTL DEF EscrowSpec, SharesAreProportional
=============================================================================
