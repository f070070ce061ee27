---------------------------- MODULE EscrowLedger ----------------------------
(***************************************************************************)
(* escrow.rs: the account every grant has inside the contract, as a record *)
(* and the operations on it.  One record holds what the code stores under  *)
(* four keys: the EscrowAccount, the FunderLedger of each funder, the list *)
(* of funders, and Grant.escrow_balance, the mirror of the balance that    *)
(* the other modules read.                                                 *)
(*                                                                         *)
(* Amounts are unbounded integers here and i128 in the code; the checked   *)
(* additions of the code fail before they wrap.  Token transfers are       *)
(* external: the modules that use these operators move the tokens.         *)
(***************************************************************************)
EXTENDS Integers, Sequences, FiniteSets, FiniteSetsExt, Functions

CONSTANTS Funder   \* the addresses that may fund a grant

\* An address is a value of bounded length, and somebody may fund.
ASSUME FunderAssumption == IsFiniteSet(Funder) /\ Funder # {}

Escrow ==
    [balance : Nat, deposited : Nat, released : Nat, locked : BOOLEAN,
     mirror : Nat, funders : Seq(Funder),
     contributed : [Funder -> Int], refunded : [Funder -> Int]]

\* open()
Opened ==
    [balance |-> 0, deposited |-> 0, released |-> 0, locked |-> FALSE,
     mirror |-> 0, funders |-> <<>>,
     contributed |-> [f \in Funder |-> 0], refunded |-> [f \in Funder |-> 0]]

FunderSet(e) == {e.funders[k] : k \in DOMAIN e.funders}

\* What a funder paid in and did not get back.
Net(e, f) == e.contributed[f] - e.refunded[f]

NetTotal(e) == SumFunction([f \in FunderSet(e) |-> Net(e, f)])

-----------------------------------------------------------------------------

\* Mutation of Deposit: the mirror is not told.
DepositUnmirrored(e, f, amount) ==
    [e EXCEPT !.balance = @ + amount,
              !.deposited = @ + amount,
              !.funders = IF f \in FunderSet(e) THEN @ ELSE Append(@, f),
              !.contributed[f] = @ + amount]

\* deposit(): any positive amount, locked or not.
Deposit(e, f, amount) ==
    [e EXCEPT !.balance = @ + amount,
              !.deposited = @ + amount,
              !.mirror = e.balance + amount,
              !.funders = IF f \in FunderSet(e) THEN @ ELSE Append(@, f),
              !.contributed[f] = @ + amount]

\* Mutation of CanRelease: the balance is not looked at.
CanReleaseAny(e, amount) == amount > 0 /\ ~e.locked

\* release(): the one operation a lock stops.
CanRelease(e, amount) == amount > 0 /\ ~e.locked /\ e.balance >= amount

\* Mutation of Release: the release is recorded, the balance stays.
ReleaseRecorded(e, amount) == [e EXCEPT !.released = @ + amount]

Release(e, amount) ==
    [e EXCEPT !.balance = @ - amount,
              !.released = @ + amount,
              !.mirror = e.balance - amount]

\* Mutation of RefundAmount: whatever is there.
RefundWhatIsThere(e, f) == e.balance

\* refund(): at most what the funder is owed and what is there.
RefundAmount(e, f) == Min({Net(e, f), e.balance})

CanRefund(e, f) == f \in FunderSet(e) /\ RefundAmount(e, f) > 0

Refund(e, f) ==
    LET amount == RefundAmount(e, f) IN
    [e EXCEPT !.balance = @ - amount,
              !.refunded[f] = @ + amount,
              !.mirror = e.balance - amount]

-----------------------------------------------------------------------------
(* refund_all()                                                            *)

\* Mutation of Share: earlier refunds do not count.
ShareOfContribution(e, f) == (e.contributed[f] * e.balance) \div NetTotal(e)

\* proportional_share(): the division rounds down.
Share(e, f) == (Net(e, f) * e.balance) \div NetTotal(e)

Owed(e) == {f \in FunderSet(e) : Net(e, f) > 0}

IsLast(e, f) == f = e.funders[Len(e.funders)]

\* The payments: everybody owed gets the rounded share, but the last of the
\* list gets what is left.  When the last one is owed nothing, what the
\* rounding left is paid to nobody.
Payment(e, f) ==
    IF f \notin Owed(e) \/ e.balance = 0 THEN 0
    ELSE IF IsLast(e, f)
         THEN e.balance - SumFunction([h \in Owed(e) \ {f} |-> Share(e, h)])
         ELSE Share(e, f)

TotalPaid(e) == SumFunction([f \in FunderSet(e) |-> Payment(e, f)])

\* Mutation of RefundAll: a locked account is skipped.
RefundAllUnlocked(e) ==
    IF e.locked \/ e.balance = 0 \/ e.funders = <<>> THEN e
    ELSE [e EXCEPT !.balance = 0,
                   !.refunded = [f \in Funder |-> e.refunded[f] + Payment(e, f)],
                   !.mirror = 0]

\* With nothing to pay or nobody to pay it the account is left untouched;
\* otherwise the balance is zeroed, whatever was paid.
RefundAll(e) ==
    IF e.balance = 0 \/ e.funders = <<>> THEN e
    ELSE [e EXCEPT !.balance = 0,
                   !.refunded = [f \in Funder |-> e.refunded[f] + Payment(e, f)],
                   !.mirror = 0]

\* lock() and unlock()
SetLock(e, on) == [e EXCEPT !.locked = on]
=============================================================================
