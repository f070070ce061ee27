------------------------ MODULE EscrowLedger_proofs ------------------------
(***************************************************************************)
(* Facts about the operations of escrow.rs on one account: the types they  *)
(* keep, what they do to the sum of what the funders are owed, and the     *)
(* rounding of refund_all().  The proofs about EscrowAccount and about     *)
(* GrantProtocol, where these operations are called, rest on them.         *)
(***************************************************************************)
EXTENDS EscrowLedger, FiniteSums

\* What each funder is owed, and all of it.
Nets(e) == [f \in Funder |-> Net(e, f)]
Backing(e) == Sum(Nets(e), Funder)

\* What every operation keeps: who is not on the list of funders neither paid
\* nor got anything, and the balance is owed to somebody.
Kept(e) ==
    /\ e \in Escrow
    /\ \A f \in Funder \ FunderSet(e) : e.contributed[f] = 0 /\ e.refunded[f] = 0
    /\ e.balance <= Backing(e)

\* What only refund_all() may end: nobody got more than was put in.
Unexceeded(e) == \A f \in Funder : e.refunded[f] <= e.contributed[f]

LEMMA FieldTypes ==
  ASSUME NEW e \in Escrow
  PROVE  /\ e.balance \in Nat /\ e.deposited \in Nat /\ e.released \in Nat
         /\ e.locked \in BOOLEAN /\ e.mirror \in Nat /\ e.funders \in Seq(Funder)
         /\ e.contributed \in [Funder -> Int] /\ e.refunded \in [Funder -> Int]
  BY DEF Escrow

\* An account by its fields, for the operations that change several of them.
LEMMA Fields ==
  ASSUME NEW e \in Escrow
  PROVE  e = [balance |-> e.balance, deposited |-> e.deposited, released |-> e.released,
              locked |-> e.locked, mirror |-> e.mirror, funders |-> e.funders,
              contributed |-> e.contributed, refunded |-> e.refunded]
  BY DEF Escrow

LEMMA FromFields ==
  ASSUME NEW d,
         d = [x \in {"balance", "deposited", "released", "locked",
                     "mirror", "funders", "contributed", "refunded"} |-> d[x]],
         d.balance \in Nat, d.deposited \in Nat, d.released \in Nat,
         d.locked \in BOOLEAN, d.mirror \in Nat, d.funders \in Seq(Funder),
         d.contributed \in [Funder -> Int], d.refunded \in [Funder -> Int]
  PROVE  d \in Escrow
<1>1. d = [balance |-> d.balance, deposited |-> d.deposited, released |-> d.released,
           locked |-> d.locked, mirror |-> d.mirror, funders |-> d.funders,
           contributed |-> d.contributed, refunded |-> d.refunded]
  OBVIOUS
<1> QED BY <1>1 DEF Escrow

LEMMA FunderSetType ==
  ASSUME NEW e \in Escrow
  PROVE  FunderSet(e) \in SUBSET Funder /\ IsFiniteSet(FunderSet(e))
<1>1. FunderSet(e) \in SUBSET Funder
  BY FieldTypes DEF FunderSet
<1> QED BY <1>1, FunderAssumption, FS_Subset

LEMMA NetsAt ==
  ASSUME NEW e, NEW f \in Funder
  PROVE  Nets(e)[f] = e.contributed[f] - e.refunded[f]
  BY DEF Nets, Net

LEMMA NetsType ==
  ASSUME NEW e \in Escrow
  PROVE  /\ Nets(e) \in [Funder -> Int]
         /\ Summands(Nets(e), Funder)
         /\ Backing(e) \in Int
<1>1. Nets(e) \in [Funder -> Int]
  BY FieldTypes DEF Nets, Net
<1>2. Summands(Nets(e), Funder)
  BY <1>1, FunderAssumption DEF Summands
<1> QED BY <1>1, <1>2, SumType DEF Backing

\* Only funders on the list are owed anything, so NetTotal misses nobody.
LEMMA NetTotalIsBacking ==
  ASSUME NEW e, Kept(e)
  PROVE  NetTotal(e) = Backing(e)
<1> DEFINE S == FunderSet(e)
           F == [f \in S |-> Net(e, f)]
<1>1. e \in Escrow /\ S \in SUBSET Funder
  BY FunderSetType DEF Kept
<1>2. NetTotal(e) = Sum(F, S)
  <2>1. SumFunction(F) = Sum(F, S)
    BY SumOfFunction
  <2> QED BY <2>1 DEF NetTotal
<1>3. Summands(Nets(e), S)
  BY <1>1, NetsType, SummandsSubset
<1>4. Sum(F, S) = Sum(Nets(e), S)
  <2>1. \A f \in S : F[f] = Nets(e)[f]
    BY <1>1 DEF Nets
  <2> QED BY <1>3, <2>1, SumSame
<1>5. \A f \in Funder \ S : Nets(e)[f] = 0
  BY DEF Kept, Nets, Net
<1>6. Sum(Nets(e), Funder) = Sum(Nets(e), S)
  BY <1>1, <1>5, NetsType, SumRestrict
<1> QED BY <1>2, <1>4, <1>6 DEF Backing

-----------------------------------------------------------------------------
(* open(), deposit(), release(), lock() and unlock()                       *)

LEMMA OpenedKept ==
  /\ Kept(Opened) /\ Unexceeded(Opened)
  /\ Opened.balance = 0 /\ Opened.mirror = 0 /\ Opened.released = 0 /\ Opened.deposited = 0
<1>1. Opened \in Escrow
  BY DEF Opened, Escrow
<1>2. \A f \in Funder : Nets(Opened)[f] = 0
  BY DEF Opened, Nets, Net
<1>3. Backing(Opened) = 0
  <2>1. Backing(Opened) = 0 * Cardinality(Funder)
    BY <1>2, FunderAssumption, SumConstant DEF Backing
  <2>2. Cardinality(Funder) \in Nat
    BY FunderAssumption, FS_CardinalityType
  <2> QED BY <2>1, <2>2
<1> QED BY <1>1, <1>3 DEF Kept, Unexceeded, Opened

LEMMA DepositFields ==
  ASSUME NEW e \in Escrow, NEW f \in Funder, NEW amount \in Nat
  PROVE  LET d == Deposit(e, f, amount) IN
         /\ d \in Escrow
         /\ d.balance = e.balance + amount /\ d.mirror = e.balance + amount
         /\ d.deposited = e.deposited + amount /\ d.released = e.released
         /\ d.locked = e.locked /\ d.refunded = e.refunded
         /\ d.contributed = [e.contributed EXCEPT ![f] = @ + amount]
         /\ FunderSet(d) = FunderSet(e) \cup {f}
<1> DEFINE list == IF f \in FunderSet(e) THEN e.funders ELSE Append(e.funders, f)
           d == Deposit(e, f, amount)
<1>1. /\ d.balance = e.balance + amount /\ d.mirror = e.balance + amount
      /\ d.deposited = e.deposited + amount /\ d.released = e.released
      /\ d.locked = e.locked /\ d.refunded = e.refunded
      /\ d.contributed = [e.contributed EXCEPT ![f] = @ + amount]
      /\ d.funders = list
  BY Fields DEF Deposit
<1>2. d = [x \in {"balance", "deposited", "released", "locked",
                  "mirror", "funders", "contributed", "refunded"} |-> d[x]]
  BY Fields DEF Deposit
<1>3. {list[k] : k \in DOMAIN list} = FunderSet(e) \cup {f}
  <2>1. CASE f \in FunderSet(e)
    BY <2>1 DEF FunderSet
  <2>2. CASE f \notin FunderSet(e)
    <3>1. /\ DOMAIN e.funders = 1..Len(e.funders) /\ Len(e.funders) \in Nat
          /\ DOMAIN list = 1..(Len(e.funders) + 1)
          /\ \A k \in 1..Len(e.funders) : list[k] = e.funders[k]
          /\ list[Len(e.funders) + 1] = f
      BY <2>2, FieldTypes
    <3> HIDE DEF list
    <3> QED BY <3>1 DEF FunderSet
  <2> QED BY <2>1, <2>2
<1>4. list \in Seq(Funder)
  BY FieldTypes
<1> HIDE DEF d, list
<1>5. FunderSet(d) = FunderSet(e) \cup {f}
  BY <1>1, <1>3 DEF FunderSet
<1>6. /\ d.balance \in Nat /\ d.deposited \in Nat /\ d.released \in Nat
      /\ d.locked \in BOOLEAN /\ d.mirror \in Nat /\ d.funders \in Seq(Funder)
      /\ d.contributed \in [Funder -> Int] /\ d.refunded \in [Funder -> Int]
  BY <1>1, <1>4, FieldTypes
<1>7. d \in Escrow
  BY <1>2, <1>6, FromFields
<1> QED BY <1>1, <1>5, <1>7 DEF d

LEMMA DepositKept ==
  ASSUME NEW e, Kept(e), NEW f \in Funder, NEW amount \in Nat
  PROVE  LET d == Deposit(e, f, amount) IN
         /\ Kept(d)
         /\ Backing(d) = Backing(e) + amount
         /\ \A h \in Funder : /\ d.refunded[h] = e.refunded[h]
                              /\ d.contributed[h] >= e.contributed[h]
         /\ Unexceeded(e) => Unexceeded(d)
<1> DEFINE d == Deposit(e, f, amount)
<1>1. e \in Escrow
  BY DEF Kept
<1>2. /\ d \in Escrow
      /\ d.balance = e.balance + amount
      /\ d.refunded = e.refunded
      /\ d.contributed = [e.contributed EXCEPT ![f] = @ + amount]
      /\ FunderSet(d) = FunderSet(e) \cup {f}
  BY <1>1, DepositFields
<1> HIDE DEF d
<1>3. /\ Nets(d)[f] = Nets(e)[f] + amount
      /\ \A h \in Funder : h # f => Nets(d)[h] = Nets(e)[h]
  <2>1. e.contributed \in [Funder -> Int] /\ e.refunded \in [Funder -> Int]
    BY <1>1, FieldTypes
  <2>2. d.contributed[f] = e.contributed[f] + amount
    BY <1>2, <2>1
  <2>3. \A h \in Funder : h # f => d.contributed[h] = e.contributed[h]
    BY <1>2, <2>1
  <2>4. e.contributed[f] + amount - e.refunded[f] = e.contributed[f] - e.refunded[f] + amount
    BY <2>1
  <2>5. d.refunded = e.refunded
    BY <1>2
  <2>6. /\ Nets(d)[f] = d.contributed[f] - d.refunded[f]
        /\ Nets(e)[f] = e.contributed[f] - e.refunded[f]
    BY NetsAt
  <2>7. \A h \in Funder : h # f => Nets(d)[h] = Nets(e)[h]
    BY <2>3, <2>5, NetsAt
  <2>8. Nets(d)[f] = e.contributed[f] + amount - e.refunded[f]
    BY <2>1, <2>2, <2>5, <2>6
  <2> QED BY <2>4, <2>6, <2>7, <2>8
<1>4. Nets(e)[f] \in Int /\ Nets(d)[f] \in Int
  BY <1>1, <1>2, NetsType
<1>5. Backing(d) = Backing(e) - Nets(e)[f] + Nets(d)[f]
  BY <1>1, <1>3, <1>4, NetsType, SumChange DEF Backing
<1>6. Backing(e) \in Int /\ e.balance \in Nat
  BY <1>1, NetsType, FieldTypes
<1>7. Backing(d) = Backing(e) + amount
  BY <1>3, <1>4, <1>5, <1>6
<1>8. \A h \in Funder : /\ d.refunded[h] = e.refunded[h]
                        /\ d.contributed[h] >= e.contributed[h]
                        /\ h # f => d.contributed[h] = e.contributed[h]
                        /\ e.refunded[h] \in Int /\ e.contributed[h] \in Int
                        /\ d.contributed[h] \in Int
  BY <1>1, <1>2, FieldTypes
<1>9. Kept(d)
  BY <1>2, <1>6, <1>7, <1>8 DEF Kept
<1>10. Unexceeded(e) => Unexceeded(d)
  BY <1>8 DEF Unexceeded
<1> QED BY <1>7, <1>8, <1>9, <1>10 DEF d

\* An operation that takes tokens out and leaves what the funders are owed.
LEMMA ReleaseKept ==
  ASSUME NEW e, Kept(e), NEW amount \in Nat, amount <= e.balance
  PROVE  LET r == Release(e, amount) IN
         /\ Kept(r) /\ Backing(r) = Backing(e)
         /\ r.balance = e.balance - amount /\ r.mirror = e.balance - amount
         /\ r.released = e.released + amount /\ r.deposited = e.deposited
         /\ r.locked = e.locked /\ r.funders = e.funders
         /\ r.contributed = e.contributed /\ r.refunded = e.refunded
         /\ Unexceeded(e) => Unexceeded(r)
<1> DEFINE r == Release(e, amount)
<1>1. e \in Escrow
  BY DEF Kept
<1>2. /\ r \in Escrow
      /\ r.balance = e.balance - amount /\ r.mirror = e.balance - amount
      /\ r.released = e.released + amount /\ r.deposited = e.deposited
      /\ r.locked = e.locked /\ r.funders = e.funders
      /\ r.contributed = e.contributed /\ r.refunded = e.refunded
  <2>1. /\ r.balance = e.balance - amount /\ r.mirror = e.balance - amount
        /\ r.released = e.released + amount /\ r.deposited = e.deposited
        /\ r.locked = e.locked /\ r.funders = e.funders
        /\ r.contributed = e.contributed /\ r.refunded = e.refunded
    BY <1>1, Fields DEF Release
  <2>2. r = [x \in {"balance", "deposited", "released", "locked",
                    "mirror", "funders", "contributed", "refunded"} |-> r[x]]
    BY <1>1, Fields DEF Release
  <2> HIDE DEF r
  <2>3. r.balance \in Nat /\ r.released \in Nat
    BY <1>1, <2>1, FieldTypes
  <2> QED BY <1>1, <2>1, <2>2, <2>3, FieldTypes, FromFields
<1> HIDE DEF r
<1>3. Nets(r) = Nets(e) /\ FunderSet(r) = FunderSet(e)
  BY <1>2 DEF Nets, Net, FunderSet
<1>4. Backing(r) = Backing(e) /\ Backing(e) \in Int /\ e.balance \in Nat
  BY <1>1, <1>3, NetsType, FieldTypes DEF Backing
<1>5. Kept(r)
  BY <1>2, <1>3, <1>4 DEF Kept
<1> QED BY <1>2, <1>4, <1>5 DEF r, Unexceeded

LEMMA SetLockKept ==
  ASSUME NEW e, Kept(e), NEW on \in BOOLEAN
  PROVE  LET l == SetLock(e, on) IN
         /\ Kept(l) /\ Backing(l) = Backing(e)
         /\ l.balance = e.balance /\ l.mirror = e.mirror
         /\ l.released = e.released /\ l.deposited = e.deposited
         /\ l.contributed = e.contributed /\ l.refunded = e.refunded
         /\ Unexceeded(e) => Unexceeded(l)
<1> DEFINE l == SetLock(e, on)
<1>1. e \in Escrow
  BY DEF Kept
<1>2. /\ l \in Escrow
      /\ l.balance = e.balance /\ l.mirror = e.mirror
      /\ l.released = e.released /\ l.deposited = e.deposited
      /\ l.funders = e.funders
      /\ l.contributed = e.contributed /\ l.refunded = e.refunded
  BY <1>1 DEF SetLock, Escrow
<1> HIDE DEF l
<1>3. Nets(l) = Nets(e) /\ FunderSet(l) = FunderSet(e)
  BY <1>2 DEF Nets, Net, FunderSet
<1> QED BY <1>2, <1>3 DEF Kept, Backing, Unexceeded, l

\* The mirror alone may be set (lib.rs sets it to 0 when a grant ends).
LEMMA SetMirrorKept ==
  ASSUME NEW e, Kept(e), NEW m \in Nat
  PROVE  LET l == [e EXCEPT !.mirror = m] IN
         /\ Kept(l) /\ Backing(l) = Backing(e)
         /\ l.balance = e.balance /\ l.mirror = m
         /\ l.contributed = e.contributed /\ l.refunded = e.refunded
         /\ Unexceeded(e) => Unexceeded(l)
<1> DEFINE l == [e EXCEPT !.mirror = m]
<1>1. e \in Escrow
  BY DEF Kept
<1>2. /\ l \in Escrow
      /\ l.balance = e.balance /\ l.mirror = m /\ l.funders = e.funders
      /\ l.contributed = e.contributed /\ l.refunded = e.refunded
  BY <1>1 DEF Escrow
<1> HIDE DEF l
<1>3. Nets(l) = Nets(e) /\ FunderSet(l) = FunderSet(e)
  BY <1>2 DEF Nets, Net, FunderSet
<1> QED BY <1>2, <1>3 DEF Kept, Backing, Unexceeded, l

-----------------------------------------------------------------------------
(* refund()                                                                *)

LEMMA RefundAmountBounds ==
  ASSUME NEW e \in Escrow, NEW f \in Funder
  PROVE  /\ RefundAmount(e, f) \in Int
         /\ RefundAmount(e, f) <= Net(e, f) /\ RefundAmount(e, f) <= e.balance
<1>1. Net(e, f) \in Int /\ e.balance \in Int
  BY FieldTypes DEF Net
<1>2. \E x \in {Net(e, f), e.balance} : \A y \in {Net(e, f), e.balance} : x <= y
  BY <1>1
<1> QED BY <1>1, <1>2 DEF RefundAmount, Min

LEMMA RefundFields ==
  ASSUME NEW e \in Escrow, NEW f \in Funder, RefundAmount(e, f) > 0
  PROVE  LET r == Refund(e, f)
             amount == RefundAmount(e, f) IN
         /\ r \in Escrow
         /\ r.balance = e.balance - amount /\ r.mirror = e.balance - amount
         /\ r.deposited = e.deposited /\ r.released = e.released
         /\ r.locked = e.locked /\ r.funders = e.funders
         /\ r.contributed = e.contributed
         /\ r.refunded = [e.refunded EXCEPT ![f] = @ + amount]
<1> DEFINE r == Refund(e, f)
           amount == RefundAmount(e, f)
<1>1. amount \in Int /\ amount <= e.balance
  BY RefundAmountBounds
<1> HIDE DEF amount
<1>2. r = [e EXCEPT !.balance = @ - amount, !.refunded[f] = @ + amount,
                    !.mirror = e.balance - amount]
  BY DEF Refund, amount
<1>3. /\ r.balance = e.balance - amount /\ r.mirror = e.balance - amount
      /\ r.deposited = e.deposited /\ r.released = e.released
      /\ r.locked = e.locked /\ r.funders = e.funders
      /\ r.contributed = e.contributed
      /\ r.refunded = [e.refunded EXCEPT ![f] = @ + amount]
  <2> HIDE DEF r
  <2> QED BY <1>2, Fields
<1>4. r = [x \in {"balance", "deposited", "released", "locked",
                  "mirror", "funders", "contributed", "refunded"} |-> r[x]]
  <2> HIDE DEF r
  <2> QED BY <1>2, Fields
<1> HIDE DEF r
<1>5. r.balance \in Nat /\ r.refunded \in [Funder -> Int]
  BY <1>1, <1>3, FieldTypes
<1>6. r \in Escrow
  BY <1>3, <1>4, <1>5, FieldTypes, FromFields
<1> QED BY <1>3, <1>6 DEF r, amount

LEMMA RefundKept ==
  ASSUME NEW e, Kept(e), NEW f \in Funder, CanRefund(e, f)
  PROVE  LET r == Refund(e, f)
             amount == RefundAmount(e, f) IN
         /\ Kept(r) /\ Backing(r) = Backing(e) - amount
         /\ amount \in Nat /\ amount <= e.balance
         /\ r.balance = e.balance - amount /\ r.mirror = e.balance - amount
         /\ r.deposited = e.deposited /\ r.released = e.released
         /\ r.contributed = e.contributed
         /\ r.refunded[f] <= r.contributed[f]
         /\ \A h \in Funder \ {f} : r.refunded[h] = e.refunded[h]
         /\ Unexceeded(e) => Unexceeded(r)
<1> DEFINE r == Refund(e, f)
           amount == RefundAmount(e, f)
<1>1. e \in Escrow /\ amount > 0
  BY DEF Kept, CanRefund
<1>2. amount \in Int /\ amount <= Net(e, f) /\ amount <= e.balance
  BY <1>1, RefundAmountBounds
<1>3. /\ r \in Escrow
      /\ r.balance = e.balance - amount /\ r.mirror = e.balance - amount
      /\ r.deposited = e.deposited /\ r.released = e.released
      /\ r.funders = e.funders /\ r.contributed = e.contributed
      /\ r.refunded = [e.refunded EXCEPT ![f] = @ + amount]
  BY <1>1, RefundFields
<1> HIDE DEF r, amount
<1>4. e.contributed \in [Funder -> Int] /\ e.refunded \in [Funder -> Int] /\ e.balance \in Nat
  BY <1>1, FieldTypes
<1>5. /\ r.refunded[f] = e.refunded[f] + amount
      /\ \A h \in Funder \ {f} : r.refunded[h] = e.refunded[h]
  BY <1>3, <1>4
<1>6. Nets(r)[f] = Nets(e)[f] - amount /\ \A h \in Funder : h # f => Nets(r)[h] = Nets(e)[h]
  <2>1. Nets(r)[f] = r.contributed[f] - r.refunded[f] /\ r.contributed = e.contributed
    BY <1>3, NetsAt
  <2>2. Nets(r)[f] = e.contributed[f] - (e.refunded[f] + amount)
    BY <1>2, <1>4, <1>5, <2>1
  <2>3. Nets(e)[f] = e.contributed[f] - e.refunded[f]
    BY NetsAt
  <2>4. ASSUME NEW h \in Funder, h # f PROVE Nets(r)[h] = Nets(e)[h]
    <3>1. r.refunded[h] = e.refunded[h]
      BY <1>5, <2>4
    <3> QED BY <2>1, <3>1, NetsAt
  <2> QED BY <1>2, <1>4, <2>2, <2>3, <2>4
<1>7. Nets(e)[f] \in Int /\ Nets(r)[f] \in Int /\ Backing(e) \in Int
  BY <1>1, <1>3, NetsType
<1>8. Backing(r) = Backing(e) - Nets(e)[f] + Nets(r)[f]
  BY <1>1, <1>6, <1>7, NetsType, SumChange DEF Backing
<1>9. Backing(r) = Backing(e) - amount
  BY <1>2, <1>6, <1>7, <1>8
<1>10. FunderSet(r) = FunderSet(e) /\ f \in FunderSet(e)
  BY <1>3 DEF FunderSet, CanRefund
<1>11. Kept(r)
  <2>1. r.balance <= Backing(r)
    BY <1>2, <1>3, <1>4, <1>7, <1>9 DEF Kept
  <2> QED BY <1>3, <1>5, <1>10, <2>1 DEF Kept
<1>12. r.refunded[f] <= r.contributed[f]
  BY <1>2, <1>3, <1>4, <1>5 DEF Net
<1>13. Unexceeded(e) => Unexceeded(r)
  BY <1>3, <1>5, <1>12 DEF Unexceeded
<1>14. amount \in Nat
  BY <1>1, <1>2
<1> QED BY <1>2, <1>3, <1>5, <1>9, <1>11, <1>12, <1>13, <1>14 DEF r, amount

-----------------------------------------------------------------------------
(* refund_all(): what the rounding does.                                   *)

LEMMA Division ==
  ASSUME NEW a \in Nat, NEW n \in Nat \ {0}
  PROVE  a \div n \in Nat /\ n * (a \div n) <= a /\ a < n * (a \div n) + n
  OBVIOUS

LEMMA Product ==
  ASSUME NEW a \in Nat, NEW b \in Nat
  PROVE  a * b \in Nat /\ a * b = b * a
  OBVIOUS

LEMMA ProductMonotone ==
  ASSUME NEW n \in Nat, NEW a \in Int, NEW b \in Int, a <= b
  PROVE  n * a <= n * b
  OBVIOUS

LEMMA ProductCancels ==
  ASSUME NEW n \in Nat \ {0}, NEW a \in Int, NEW b \in Int, n * a <= n * b
  PROVE  a <= b
  OBVIOUS

Shares(e) == [f \in Funder |-> Share(e, f)]
Payments(e) == [f \in Funder |-> Payment(e, f)]

\* What the rounded shares leave of the balance.
Left(e) == e.balance - Sum(Shares(e), Owed(e))

\* An account refund_all() pays from.
Payable(e) == Kept(e) /\ Unexceeded(e) /\ e.balance > 0

LEMMA NetsArePositive ==
  ASSUME NEW e, Payable(e)
  PROVE  /\ e \in Escrow /\ e.balance \in Nat
         /\ \A f \in Funder : Net(e, f) \in Nat
         /\ Owed(e) \in SUBSET Funder /\ IsFiniteSet(Owed(e))
         /\ \A f \in Funder : f \in Owed(e) <=> Net(e, f) > 0
<1>1. e \in Escrow
  BY DEF Payable, Kept
<1>2. \A f \in Funder : Net(e, f) \in Nat
  BY <1>1, FieldTypes DEF Payable, Unexceeded, Net
<1>3. Owed(e) \in SUBSET Funder /\ IsFiniteSet(Owed(e))
  <2>1. FunderSet(e) \in SUBSET Funder
    BY <1>1, FunderSetType
  <2> QED BY <2>1, FunderAssumption, FS_Subset DEF Owed
<1>4. \A f \in Funder \ FunderSet(e) : Net(e, f) = 0
  BY <1>1, FieldTypes DEF Payable, Kept, Net
<1>5. \A f \in Funder : f \in Owed(e) <=> Net(e, f) > 0
  BY <1>4 DEF Owed
<1> QED BY <1>1, <1>2, <1>3, <1>5, FieldTypes

\* All that is owed is owed to the funders refund_all() pays.
LEMMA BackingOfOwed ==
  ASSUME NEW e, Payable(e)
  PROVE  /\ NetTotal(e) \in Nat \ {0} /\ e.balance <= NetTotal(e)
         /\ NetTotal(e) = Sum(Nets(e), Owed(e))
         /\ Owed(e) # {}
<1>1. /\ e \in Escrow /\ e.balance \in Nat /\ Owed(e) \in SUBSET Funder
      /\ \A f \in Funder : Nets(e)[f] = Net(e, f) /\ Net(e, f) \in Nat
      /\ \A f \in Funder : f \in Owed(e) <=> Net(e, f) > 0
  BY NetsArePositive DEF Nets
<1>2. NetTotal(e) = Backing(e) /\ Backing(e) \in Int /\ e.balance <= Backing(e) /\ e.balance > 0
  BY <1>1, NetTotalIsBacking, NetsType DEF Payable, Kept
<1>3. \A f \in Funder \ Owed(e) : Nets(e)[f] = 0
  BY <1>1
<1>4. Backing(e) = Sum(Nets(e), Owed(e))
  BY <1>1, <1>3, NetsType, SumRestrict DEF Backing
<1>5. Owed(e) # {}
  BY <1>1, <1>2, <1>4, SumEmpty
<1> QED BY <1>1, <1>2, <1>4, <1>5

LEMMA ShareBounds ==
  ASSUME NEW e, Payable(e), NEW f \in Owed(e)
  PROVE  LET N == NetTotal(e)
             exact == Net(e, f) * e.balance IN
         /\ Share(e, f) \in Nat /\ Share(e, f) <= Net(e, f) /\ exact \in Nat
         /\ N * Share(e, f) <= exact /\ exact < N * Share(e, f) + N
<1> DEFINE N == NetTotal(e)
           n == Net(e, f)
           b == e.balance
           s == Share(e, f)
<1>1. N \in Nat \ {0} /\ n \in Nat /\ b \in Nat /\ b <= N
  BY BackingOfOwed, NetsArePositive
<1>2. s = (n * b) \div N
  BY DEF Share
<1> HIDE DEF N, n, b, s
<1>3. n * b \in Nat
  BY <1>1, Product
<1>4. s \in Nat /\ N * s <= n * b /\ n * b < N * s + N
  BY <1>1, <1>2, <1>3, Division
<1>5. n * b <= N * n
  BY <1>1, ProductMonotone, Product
<1>6. s <= n
  <2>1. N * s <= N * n
    BY <1>1, <1>3, <1>4, <1>5
  <2> QED BY <1>1, <1>4, <2>1, ProductCancels
<1> QED BY <1>3, <1>4, <1>6 DEF N, n, b, s

\* The shares add up to the balance, but for less than one unit a funder.
LEMMA LeftBounds ==
  ASSUME NEW e, Payable(e)
  PROVE  /\ Summands(Shares(e), Owed(e)) /\ Sum(Shares(e), Owed(e)) \in Int
         /\ Left(e) \in Nat
         /\ Left(e) < Cardinality(Owed(e))
         /\ Cardinality(Owed(e)) \in Nat /\ Cardinality(Owed(e)) <= Cardinality(Funder)
<1> DEFINE O == Owed(e)
           N == NetTotal(e)
           b == e.balance
           m == Cardinality(O)
           F == Nets(e)
           G == Shares(e)
           low  == [f \in O |-> N * G[f]]
           one  == [f \in O |-> 1]
           k == N - 1
           high == [f \in O |-> N * G[f] + k * one[f]]
           exact == [f \in O |-> b * F[f]]
<1>1. /\ N \in Nat \ {0} /\ b \in Nat /\ N = Sum(F, O) /\ O # {}
      /\ O \in SUBSET Funder /\ IsFiniteSet(O)
  BY BackingOfOwed, NetsArePositive
<1>2. m \in Nat /\ m > 0 /\ m <= Cardinality(Funder)
  <2>1. m \in Nat /\ m # 0
    BY <1>1, FS_CardinalityType, FS_EmptySet
  <2>2. m <= Cardinality(Funder)
    BY <1>1, FunderAssumption, FS_Subset
  <2> QED BY <2>1, <2>2
<1>3. \A f \in O : /\ F[f] = Net(e, f) /\ G[f] = Share(e, f)
                  /\ F[f] \in Nat /\ G[f] \in Nat
                  /\ N * G[f] <= F[f] * b /\ F[f] * b < N * G[f] + N
  BY <1>1, ShareBounds, NetsArePositive DEF Nets, Shares
<1> HIDE DEF N, b, F, G, O, m
<1>4. \A f \in O : b * F[f] = F[f] * b /\ b * F[f] \in Nat /\ N * G[f] \in Nat
  BY <1>1, <1>3, Product
<1>5. Summands(F, O) /\ Summands(G, O) /\ Summands(one, O)
  BY <1>1, <1>3 DEF Summands
<1>6. Sum(F, O) \in Int /\ Sum(G, O) \in Int /\ Sum(one, O) = m
  <2>1. Sum(one, O) = 1 * Cardinality(O)
    BY <1>1, SumConstant
  <2> QED BY <1>2, <1>5, <2>1, SumType DEF m
<1>7. /\ \A f \in O : low[f] = N * G[f] /\ exact[f] = b * F[f]
      /\ \A f \in O : high[f] = N * G[f] + k * one[f] /\ one[f] = 1
  OBVIOUS
<1> HIDE DEF low, one, high, exact
<1>8. \A f \in O : /\ low[f] \in Int /\ exact[f] \in Int /\ high[f] \in Int
                  /\ low[f] <= exact[f] /\ exact[f] <= high[f]
  BY <1>1, <1>3, <1>4, <1>7 DEF k
<1> HIDE DEF k
<1>9. Summands(low, O) /\ Summands(exact, O) /\ Summands(high, O)
  BY <1>1, <1>8 DEF Summands
<1>10. Sum(low, O) <= Sum(exact, O) /\ Sum(exact, O) <= Sum(high, O)
  BY <1>8, <1>9, SumMonotone
<1>11. Sum(low, O) = N * Sum(G, O)
  <2>1. \A f \in O : low[f] = Linear(N, G[f], 0, one[f])
    BY <1>4, <1>7 DEF Linear
  <2>2. Sum(low, O) = Linear(N, Sum(G, O), 0, Sum(one, O))
    BY <1>1, <1>5, <2>1, SumScaled
  <2> QED BY <1>1, <1>2, <1>6, <2>2 DEF Linear
<1>12. Sum(exact, O) = b * N
  <2>1. \A f \in O : exact[f] = Linear(b, F[f], 0, one[f])
    BY <1>4, <1>7 DEF Linear
  <2>2. Sum(exact, O) = Linear(b, Sum(F, O), 0, Sum(one, O))
    BY <1>1, <1>5, <2>1, SumScaled
  <2> QED BY <1>1, <1>2, <1>6, <2>2 DEF Linear
<1>13. Sum(high, O) = N * Sum(G, O) + (N - 1) * m
  <2>1. N \in Int /\ k \in Int
    BY <1>1 DEF k
  <2>2. \A f \in O : high[f] = Linear(N, G[f], k, one[f])
    BY <1>7 DEF Linear
  <2>3. Sum(high, O) = Linear(N, Sum(G, O), k, Sum(one, O))
    BY <1>5, <2>1, <2>2, SumScaled
  <2> QED BY <1>6, <2>3 DEF Linear, k
<1> DEFINE sum == Sum(G, O)
<1>14. N * sum <= b * N /\ b * N <= N * sum + (N - 1) * m /\ sum \in Int
  <2>1. N * sum <= b * N
    BY <1>10, <1>11, <1>12
  <2>2. b * N <= N * sum + (N - 1) * m
    BY <1>10, <1>12, <1>13
  <2> QED BY <1>6, <2>1, <2>2
<1> HIDE DEF sum
<1>15. sum <= b
  <2>1. N * sum <= N * b
    BY <1>1, <1>14
  <2> QED BY <1>1, <1>14, <2>1, ProductCancels
<1>16. b - sum < m
  <2> DEFINE x == b - sum
  <2>1. x \in Int /\ N * x = b * N - N * sum
    BY <1>1, <1>14
  <2> HIDE DEF x
  <2>2. N * x <= (N - 1) * m
    <3>1. N * sum \in Int /\ b * N \in Int /\ (N - 1) * m \in Int
      BY <1>1, <1>2, <1>14
    <3> QED BY <1>14, <2>1, <3>1
  <2>3. x < m
    BY <1>1, <1>2, <2>1, <2>2
  <2> QED BY <2>3 DEF x
<1>17. Left(e) = b - sum
  BY DEF Left, b, sum, G, O
<1>18. Left(e) \in Nat /\ Left(e) < m
  BY <1>1, <1>14, <1>15, <1>16, <1>17
<1> QED BY <1>2, <1>5, <1>6, <1>18 DEF G, O, m

LEMMA PaymentIs ==
  ASSUME NEW e, Payable(e), NEW f \in Funder
  PROVE  Payment(e, f) = IF f \notin Owed(e) THEN 0
                         ELSE IF IsLast(e, f) THEN Share(e, f) + Left(e)
                         ELSE Share(e, f)
<1> DEFINE O == Owed(e)
           G == Shares(e)
           rest == [h \in O \ {f} |-> Share(e, h)]
<1>1. e.balance \in Nat /\ e.balance # 0 /\ O \in SUBSET Funder
  BY NetsArePositive DEF Payable
<1>2. ASSUME f \in O, IsLast(e, f) PROVE Payment(e, f) = Share(e, f) + Left(e)
  <2>1. Payment(e, f) = e.balance - SumFunction(rest)
    BY <1>1, <1>2 DEF Payment
  <2>2. SumFunction(rest) = Sum(rest, O \ {f})
    BY SumOfFunction
  <2>3. Summands(G, O) /\ Summands(G, O \ {f}) /\ Sum(G, O) \in Int
    BY LeftBounds, SummandsSubset
  <2>4. \A h \in O \ {f} : rest[h] = G[h]
    BY <1>1 DEF Shares
  <2> HIDE DEF rest
  <2>5. Sum(rest, O \ {f}) = Sum(G, O \ {f})
    BY <2>3, <2>4, SumSame
  <2>6. G[f] = Share(e, f)
    BY DEF Shares
  <2>7. Left(e) = e.balance - Sum(G, O)
    BY DEF Left
  <2>8. Sum(G, O \ {f}) \in Int /\ G[f] \in Int
    BY <1>2, <2>3, SumType DEF Summands
  <2> HIDE DEF G, O
  <2>9. Sum(G, O) = G[f] + Sum(G, O \ {f})
    BY <1>2, <2>3, SumRemove
  <2> QED BY <1>1, <2>1, <2>2, <2>5, <2>6, <2>7, <2>8, <2>9
<1>3. ASSUME f \in O, ~IsLast(e, f) PROVE Payment(e, f) = Share(e, f)
  BY <1>1, <1>3 DEF Payment
<1>4. ASSUME f \notin O PROVE Payment(e, f) = 0
  BY <1>4 DEF Payment
<1> QED BY <1>2, <1>3, <1>4

LEMMA PaymentType ==
  ASSUME NEW e, Payable(e)
  PROVE  /\ \A f \in Funder : Payment(e, f) \in Nat
         /\ Summands(Payments(e), Funder)
<1>1. ASSUME NEW f \in Funder PROVE Payment(e, f) \in Nat
  <2>1. f \in Owed(e) => Share(e, f) \in Nat
    BY ShareBounds
  <2>2. Left(e) \in Nat
    BY LeftBounds
  <2> QED BY <2>1, <2>2, PaymentIs
<1> QED BY <1>1, FunderAssumption DEF Payments, Summands

\* All of the balance is paid when the last of the list is owed something.
LEMMA TotalPaidBounds ==
  ASSUME NEW e, Payable(e)
  PROVE  /\ TotalPaid(e) = Sum(Payments(e), Funder)
         /\ TotalPaid(e) \in Nat /\ TotalPaid(e) <= e.balance
         /\ e.balance - TotalPaid(e) < Cardinality(Funder)
<1> DEFINE O == Owed(e)
           S == FunderSet(e)
           P == Payments(e)
           G == Shares(e)
           paid == [f \in S |-> Payment(e, f)]
<1>1. /\ e.balance \in Nat /\ O \in SUBSET Funder /\ S \in SUBSET Funder /\ O \in SUBSET S
  BY NetsArePositive, FunderSetType DEF Owed
<1>2. /\ Left(e) \in Nat /\ Left(e) < Cardinality(O) /\ Cardinality(O) \in Nat
      /\ Cardinality(O) <= Cardinality(Funder) /\ Summands(G, O) /\ Sum(G, O) \in Int
      /\ Cardinality(Funder) \in Nat
  BY LeftBounds, FunderAssumption, FS_CardinalityType
<1>3. /\ \A f \in Funder : P[f] = Payment(e, f) /\ G[f] = Share(e, f)
      /\ \A f \in S : paid[f] = P[f]
      /\ \A f \in Funder \ O : P[f] = 0
  BY <1>1, PaymentIs DEF Payments, Shares
<1>4. TotalPaid(e) = Sum(paid, S)
  <2>1. SumFunction(paid) = Sum(paid, S)
    BY SumOfFunction
  <2> QED BY <2>1 DEF TotalPaid
<1>5. Left(e) = e.balance - Sum(G, O)
  BY DEF Left
<1>6. Summands(P, Funder) /\ Summands(P, S) /\ Summands(P, O)
  BY <1>1, PaymentType, SummandsSubset
<1> HIDE DEF O, S, P, G, paid
<1>7. TotalPaid(e) = Sum(P, O) /\ Sum(P, Funder) = Sum(P, O)
  <2>1. Sum(paid, S) = Sum(P, S)
    BY <1>3, <1>6, SumSame
  <2>2. Sum(P, S) = Sum(P, O)
    BY <1>1, <1>3, <1>6, SumRestrict
  <2>3. Sum(P, Funder) = Sum(P, O)
    BY <1>1, <1>3, <1>6, SumRestrict
  <2> QED BY <1>4, <2>1, <2>2, <2>3
<1>8. CASE \A f \in O : ~IsLast(e, f)
  <2>1. \A f \in O : P[f] = G[f]
    BY <1>1, <1>3, <1>8, PaymentIs DEF O
  <2>2. Sum(P, O) = Sum(G, O)
    BY <1>2, <2>1, SumSame
  <2>3. TotalPaid(e) \in Int /\ e.balance - TotalPaid(e) = Left(e)
    BY <1>1, <1>2, <1>5, <1>7, <2>2
  <2>4. TotalPaid(e) >= 0
    <3>1. \A f \in O : 0 * G[f] <= G[f] /\ G[f] \in Nat
      BY <1>1, <1>3, ShareBounds DEF O
    <3> DEFINE none == [f \in O |-> 0]
    <3>2. Summands(none, O) /\ \A f \in O : none[f] <= G[f]
      BY <1>2, <3>1 DEF Summands
    <3>3. \A f \in O : none[f] = 0
      OBVIOUS
    <3> HIDE DEF none
    <3>4. Sum(none, O) <= Sum(G, O) /\ Sum(none, O) = 0 * Cardinality(O)
      BY <1>2, <3>2, <3>3, SumMonotone, SumConstant DEF Summands
    <3> QED BY <1>2, <1>7, <2>2, <3>4
  <2>5. TotalPaid(e) = Sum(Payments(e), Funder)
    BY <1>7 DEF P
  <2> QED BY <1>1, <1>2, <2>3, <2>4, <2>5
<1>9. CASE \E f \in O : IsLast(e, f)
  <2>1. PICK f \in O : IsLast(e, f)
    BY <1>9
  <2>2. P[f] = G[f] + Left(e) /\ \A h \in O : h # f => P[h] = G[h]
    BY <1>1, <1>3, <2>1, PaymentIs DEF O, IsLast
  <2>3. G[f] \in Int /\ P[f] \in Int
    BY <1>2, <1>6, <2>1 DEF Summands
  <2>4. Sum(P, O) = Sum(G, O) - G[f] + P[f]
    BY <1>2, <2>1, <2>2, <2>3, SumChange
  <2>5. TotalPaid(e) = e.balance
    BY <1>1, <1>2, <1>5, <1>7, <2>2, <2>3, <2>4
  <2>6. TotalPaid(e) = Sum(Payments(e), Funder)
    BY <1>7 DEF P
  <2> QED BY <1>1, <1>2, <2>5, <2>6
<1> QED BY <1>8, <1>9

\* What refund_all() leaves of Unexceeded: one funder at most got more than was
\* put in, and by less than one unit for each funder.
Rounded(e) ==
    /\ \A f \in Funder : e.refunded[f] < e.contributed[f] + Cardinality(Funder)
    /\ \A f, h \in Funder :
          e.refunded[f] > e.contributed[f] /\ e.refunded[h] > e.contributed[h] => f = h

LEMMA UnexceededIsRounded ==
  ASSUME NEW e \in Escrow, Unexceeded(e)
  PROVE  Rounded(e)
<1>1. Cardinality(Funder) \in Nat /\ Cardinality(Funder) # 0
  BY FunderAssumption, FS_CardinalityType, FS_EmptySet
<1> QED BY <1>1, FieldTypes DEF Unexceeded, Rounded

LEMMA RoundedStays ==
  ASSUME NEW e \in Escrow, NEW d \in Escrow, Rounded(e),
         \A f \in Funder :
            \/ d.refunded[f] = e.refunded[f] /\ d.contributed[f] >= e.contributed[f]
            \/ d.refunded[f] <= d.contributed[f]
  PROVE  Rounded(d)
<1>1. Cardinality(Funder) \in Nat /\ Cardinality(Funder) # 0
  BY FunderAssumption, FS_CardinalityType, FS_EmptySet
<1>2. \A f \in Funder : /\ e.refunded[f] \in Int /\ e.contributed[f] \in Int
                        /\ d.refunded[f] \in Int /\ d.contributed[f] \in Int
  BY FieldTypes
<1>3. \A f \in Funder : /\ d.refunded[f] < d.contributed[f] + Cardinality(Funder)
                        /\ d.refunded[f] > d.contributed[f] => e.refunded[f] > e.contributed[f]
  BY <1>1, <1>2 DEF Rounded
<1> QED BY <1>3 DEF Rounded

\* With nothing in the account nobody is paid, and refund_all() does nothing.
LEMMA RefundAllOfNothing ==
  ASSUME NEW e, Kept(e), e.balance = 0
  PROVE  /\ RefundAll(e) = e /\ TotalPaid(e) = 0
         /\ \A f \in Funder : Payment(e, f) = 0
<1> DEFINE S == FunderSet(e)
           paid == [f \in S |-> Payment(e, f)]
<1>1. \A f \in Funder : Payment(e, f) = 0
  BY DEF Payment
<1>2. S \in SUBSET Funder /\ IsFiniteSet(S)
  BY FunderSetType DEF Kept
<1>3. SumFunction(paid) = Sum(paid, S)
  BY SumOfFunction
<1>4. \A f \in S : paid[f] = 0
  BY <1>1, <1>2
<1>5. TotalPaid(e) = SumFunction(paid)
  BY DEF TotalPaid
<1> HIDE DEF S, paid
<1>6. Sum(paid, S) = 0 * Cardinality(S) /\ Cardinality(S) \in Nat
  BY <1>2, <1>4, SumConstant, FS_CardinalityType
<1>7. TotalPaid(e) = 0
  BY <1>3, <1>5, <1>6
<1>8. RefundAll(e) = e
  BY DEF RefundAll
<1> QED BY <1>1, <1>7, <1>8

LEMMA RefundAllFields ==
  ASSUME NEW e, Payable(e)
  PROVE  LET r == RefundAll(e) IN
         /\ r \in Escrow
         /\ r.balance = 0 /\ r.mirror = 0
         /\ r.deposited = e.deposited /\ r.released = e.released
         /\ r.locked = e.locked /\ r.funders = e.funders
         /\ r.contributed = e.contributed
         /\ \A f \in Funder : r.refunded[f] = e.refunded[f] + Payment(e, f)
<1> DEFINE r == RefundAll(e)
           back == [f \in Funder |-> e.refunded[f] + Payment(e, f)]
<1>1. e \in Escrow /\ e.balance # 0
  BY DEF Payable, Kept
<1>2. e.funders # <<>>
  <2>1. PICK f \in FunderSet(e) : TRUE
    BY BackingOfOwed DEF Owed
  <2>2. PICK k \in DOMAIN e.funders : e.funders[k] = f
    BY <2>1 DEF FunderSet
  <2> QED BY <2>2
<1>3. r = [e EXCEPT !.balance = 0, !.refunded = back, !.mirror = 0]
  BY <1>1, <1>2 DEF RefundAll
<1>4. back \in [Funder -> Int] /\ \A f \in Funder : back[f] = e.refunded[f] + Payment(e, f)
  BY <1>1, FieldTypes, PaymentType
<1> HIDE DEF r, back
<1>5. /\ r.balance = 0 /\ r.mirror = 0
      /\ r.deposited = e.deposited /\ r.released = e.released
      /\ r.locked = e.locked /\ r.funders = e.funders
      /\ r.contributed = e.contributed /\ r.refunded = back
  BY <1>1, <1>3, Fields
<1>6. r = [x \in {"balance", "deposited", "released", "locked",
                  "mirror", "funders", "contributed", "refunded"} |-> r[x]]
  BY <1>1, <1>3, Fields
<1>7. r \in Escrow
  <2>1. /\ r.balance \in Nat /\ r.deposited \in Nat /\ r.released \in Nat
        /\ r.locked \in BOOLEAN /\ r.mirror \in Nat /\ r.funders \in Seq(Funder)
        /\ r.contributed \in [Funder -> Int] /\ r.refunded \in [Funder -> Int]
    BY <1>1, <1>4, <1>5, FieldTypes
  <2> QED BY <1>6, <2>1, FromFields
<1>8. \A f \in Funder : r.refunded[f] = e.refunded[f] + Payment(e, f)
  BY <1>4, <1>5
<1> QED BY <1>5, <1>7, <1>8, Zenon DEF r

LEMMA RefundAllKept ==
  ASSUME NEW e, Kept(e), Unexceeded(e)
  PROVE  LET r == RefundAll(e) IN
         /\ Kept(r) /\ Rounded(r)
         /\ r.balance = 0 /\ r.mirror = IF e.balance = 0 THEN e.mirror ELSE 0
         /\ r.deposited = e.deposited /\ r.released = e.released
         /\ r.contributed = e.contributed
         /\ TotalPaid(e) \in Nat /\ TotalPaid(e) <= e.balance
         /\ e.balance - TotalPaid(e) < Cardinality(Funder)
<1> DEFINE r == RefundAll(e)
           card == Cardinality(Funder)
<1>1. e \in Escrow /\ card \in Nat /\ card > 0
  <2>1. card \in Nat /\ card # 0
    BY FunderAssumption, FS_CardinalityType, FS_EmptySet
  <2> QED BY <2>1 DEF Kept
<1>2. CASE e.balance = 0
  <2>1. r = e /\ TotalPaid(e) = 0
    BY <1>2, RefundAllOfNothing
  <2>2. Rounded(e)
    BY <1>1, UnexceededIsRounded
  <2> HIDE DEF r
  <2> QED BY <1>1, <1>2, <2>1, <2>2 DEF r
<1>3. CASE e.balance # 0
  <2>1. Payable(e)
    BY <1>1, <1>3, FieldTypes DEF Payable
  <2>2. /\ r \in Escrow /\ r.balance = 0 /\ r.mirror = 0
        /\ r.deposited = e.deposited /\ r.released = e.released
        /\ r.funders = e.funders /\ r.contributed = e.contributed
        /\ \A f \in Funder : r.refunded[f] = e.refunded[f] + Payment(e, f)
    BY <2>1, RefundAllFields
  <2> HIDE DEF r
  <2>3. /\ TotalPaid(e) = Sum(Payments(e), Funder) /\ TotalPaid(e) \in Nat
        /\ TotalPaid(e) <= e.balance /\ e.balance - TotalPaid(e) < card
    BY <2>1, TotalPaidBounds
  <2>4. \A f \in Funder : /\ e.refunded[f] \in Int /\ e.contributed[f] \in Int
                          /\ Payment(e, f) \in Nat /\ e.refunded[f] <= e.contributed[f]
    BY <1>1, <2>1, FieldTypes, PaymentType DEF Unexceeded
  <2>5. Backing(r) = Backing(e) - TotalPaid(e) /\ Backing(e) \in Int
    <3>1. ASSUME NEW f \in Funder
          PROVE  Nets(r)[f] = Linear(1, Nets(e)[f], -1, Payments(e)[f])
      <4>1. /\ Nets(r)[f] = e.contributed[f] - (e.refunded[f] + Payment(e, f))
            /\ Nets(e)[f] = e.contributed[f] - e.refunded[f]
            /\ Payments(e)[f] = Payment(e, f)
        BY <2>2, NetsAt DEF Payments
      <4> QED BY <2>4, <4>1 DEF Linear
    <3>2. Summands(Nets(e), Funder) /\ Summands(Payments(e), Funder) /\ Backing(e) \in Int
      BY <1>1, <2>1, NetsType, PaymentType
    <3>3. Backing(r) = Linear(1, Backing(e), -1, Sum(Payments(e), Funder))
      BY <3>1, <3>2, SumScaled DEF Backing
    <3> QED BY <2>3, <3>2, <3>3 DEF Linear
  <2>6. Kept(r)
    <3>1. FunderSet(r) = FunderSet(e)
      BY <2>2 DEF FunderSet
    <3>2. r.balance <= Backing(r)
      BY <1>1, <2>2, <2>3, <2>5, FieldTypes DEF Kept
    <3>3. \A f \in Funder \ FunderSet(e) : Payment(e, f) = 0
      BY DEF Payment, Owed
    <3>4. \A f \in Funder \ FunderSet(r) : r.contributed[f] = 0 /\ r.refunded[f] = 0
      BY <2>2, <3>1, <3>3 DEF Kept
    <3> QED BY <2>2, <3>2, <3>4 DEF Kept
  <2>7. ASSUME NEW f \in Funder
        PROVE  /\ r.refunded[f] < r.contributed[f] + card
               /\ ~IsLast(e, f) => r.refunded[f] <= r.contributed[f]
    <3>1. /\ r.refunded[f] = e.refunded[f] + Payment(e, f) /\ r.contributed[f] = e.contributed[f]
          /\ e.refunded[f] \in Int /\ e.contributed[f] \in Int
          /\ e.refunded[f] <= e.contributed[f]
      BY <2>2, <2>4
    <3>2. CASE f \notin Owed(e)
      <4>1. Payment(e, f) = 0
        BY <2>1, <3>2, PaymentIs
      <4> QED BY <1>1, <3>1, <4>1
    <3>3. CASE f \in Owed(e)
      <4>1. /\ Share(e, f) \in Nat
            /\ Share(e, f) <= e.contributed[f] - e.refunded[f]
        BY <2>1, <3>3, ShareBounds DEF Net
      <4>2. Left(e) \in Nat /\ Left(e) < card
        <5>1. /\ Left(e) \in Nat /\ Left(e) < Cardinality(Owed(e))
              /\ Cardinality(Owed(e)) \in Nat /\ Cardinality(Owed(e)) <= card
          BY <2>1, LeftBounds
        <5> QED BY <1>1, <5>1
      <4>3. /\ IsLast(e, f) => Payment(e, f) = Share(e, f) + Left(e)
            /\ ~IsLast(e, f) => Payment(e, f) = Share(e, f)
        BY <2>1, <3>3, PaymentIs
      <4> QED BY <1>1, <3>1, <4>1, <4>2, <4>3
    <3> QED BY <3>2, <3>3
  <2>8. Rounded(r)
    <3>1. \A f \in Funder : /\ r.refunded[f] \in Int /\ r.contributed[f] \in Int
                            /\ r.refunded[f] > r.contributed[f] => IsLast(e, f)
      BY <2>2, <2>4, <2>7
    <3> QED BY <2>7, <3>1 DEF Rounded, IsLast
  <2> QED BY <1>3, <2>2, <2>3, <2>6, <2>8 DEF r
<1> QED BY <1>2, <1>3

\* Nobody but the funders refund_all() would pay is owed anything, so what they
\* are owed covers the balance.
LEMMA OwedCoversBalance ==
  ASSUME NEW e, Kept(e)
  PROVE  e.balance <= SumFunction([f \in Owed(e) |-> Net(e, f)])
<1> DEFINE O == Owed(e)
           F == [f \in O |-> Net(e, f)]
           P == [f \in Funder |-> IF f \in O THEN Net(e, f) ELSE 0]
<1>1. e \in Escrow /\ O \in SUBSET Funder /\ O \in SUBSET FunderSet(e)
  BY FunderSetType DEF Kept, Owed
<1>2. \A f \in Funder : Net(e, f) \in Int /\ Nets(e)[f] = Net(e, f)
  BY <1>1, FieldTypes DEF Net, Nets
<1>3. ASSUME NEW f \in Funder PROVE P[f] \in Int /\ Nets(e)[f] <= P[f]
  <2>1. CASE f \in O
    BY <1>2, <2>1
  <2>2. CASE f \notin O
    <3>1. f \in FunderSet(e) => ~(Net(e, f) > 0)
      BY <2>2 DEF Owed
    <3>2. f \notin FunderSet(e) => Net(e, f) = 0
      BY DEF Kept, Net
    <3> QED BY <1>2, <2>2, <3>1, <3>2
  <2> QED BY <2>1, <2>2
<1>4. Summands(P, Funder) /\ Summands(P, O)
  <2>1. Summands(P, Funder)
    BY <1>3, FunderAssumption DEF Summands
  <2> HIDE DEF P
  <2> QED BY <1>1, <2>1, SummandsSubset
<1>5. SumFunction(F) = Sum(F, O)
  BY SumOfFunction
<1>6. /\ \A f \in Funder \ O : P[f] = 0
      /\ \A f \in O : F[f] = P[f]
  BY <1>1
<1> HIDE DEF O, F, P
<1>7. Backing(e) <= Sum(P, Funder)
  BY <1>1, <1>3, <1>4, NetsType, SumMonotone DEF Backing
<1>8. Sum(P, Funder) = Sum(P, O) /\ Sum(F, O) = Sum(P, O)
  BY <1>1, <1>4, <1>6, SumRestrict, SumSame
<1>9. Sum(P, O) \in Int /\ Backing(e) \in Int /\ e.balance \in Int
  BY <1>1, <1>4, NetsType, SumType, FieldTypes
<1>10. e.balance <= SumFunction(F)
  BY <1>5, <1>7, <1>8, <1>9 DEF Kept
<1> QED BY <1>10 DEF F, O
=============================================================================
