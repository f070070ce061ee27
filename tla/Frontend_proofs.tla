--------------------------- MODULE Frontend_proofs ---------------------------
(***************************************************************************)
(* Theorems about the pages of the frontend, for any wallets, milestones,  *)
(* files, gateways, tabs, preferences and bounds: what a user prepares is  *)
(* what is taken, what surrounds the pages agrees with what is stored and  *)
(* comes to an end, and a step changes what it is about.                   *)
(***************************************************************************)
EXTENDS MCFrontend, FiniteSums, SequenceTheorems

-----------------------------------------------------------------------------
(* Sequences.                                                              *)

\* Positions of a sequence.
Positions(S) == \A i \in S : i \in Nat

\* The first of some positions is one of them.
LEMMA MinIsMember ==
  ASSUME NEW S, Positions(S), IsFiniteSet(S), S # {}
  PROVE  Min(S) \in S
<1> DEFINE C == {U \in SUBSET S : \E i \in S : U = {j \in S : j <= i}}
<1>1. C \in SUBSET (SUBSET S) /\ C # {}
  <2>1. PICK i \in S : TRUE
    OBVIOUS
  <2>2. {j \in S : j <= i} \in C
    OBVIOUS
  <2> QED BY <2>2
<1>2. PICK T \in C : \A U \in C : U \subseteq T => U = T
  <2> HIDE DEF C
  <2> QED BY <1>1, MinimalSet
<1>3. PICK i \in S : T = {j \in S : j <= i}
  OBVIOUS
<1>4. ASSUME NEW j \in S, j < i PROVE FALSE
  <2> DEFINE U == {k \in S : k <= j}
  <2>1. i \in Nat /\ j \in Nat
    BY DEF Positions
  <2>2. U \in C
    OBVIOUS
  <2>3. \A k \in U : k <= i /\ k \in S
    BY <1>4, <2>1 DEF Positions
  <2> HIDE DEF C
  <2>4. U \subseteq T /\ i \in T
    <3>1. \A k \in S : k \in T <=> k <= i
      BY <1>3
    <3>2. i \in T
      BY <3>1, <2>1
    <3> HIDE DEF U
    <3> QED BY <3>1, <3>2, <2>3
  <2>5. i \notin U
    BY <1>4, <2>1
  <2> HIDE DEF U
  <2> QED BY <1>2, <2>2, <2>4, <2>5
<1>5. \A j \in S : i <= j
  BY <1>4 DEF Positions
<1> QED BY <1>5 DEF Min

\* What is left without the k-th member.
LEMMA Removed ==
  ASSUME NEW S, NEW s \in Seq(S), NEW k \in 1..Len(s)
  PROVE  /\ RemoveAt(s, k) \in Seq(S) /\ Len(RemoveAt(s, k)) = Len(s) - 1
         /\ \A i \in 1..(Len(s) - 1) :
               RemoveAt(s, k)[i] = IF i < k THEN s[i] ELSE s[i + 1]
<1> DEFINE a == SubSeq(s, 1, k - 1)
           b == SubSeq(s, k + 1, Len(s))
<1>1. Len(s) \in Nat /\ \A i \in 1..Len(s) : s[i] \in S
  BY LenProperties, ElementOfSeq
<1>2. a \in Seq(S) /\ Len(a) = k - 1 /\ \A i \in 1..(k - 1) : a[i] = s[i]
  BY <1>1, SubSeqProperties
<1>3. b \in Seq(S) /\ Len(b) = Len(s) - k /\ \A i \in 1..(Len(s) - k) : b[i] = s[k + i]
  BY <1>1, SubSeqProperties
<1>4. RemoveAt(s, k) = a \o b
  BY DEF RemoveAt
<1> HIDE DEF a, b
<1>a. a \in Seq(S) /\ b \in Seq(S)
  BY <1>2, <1>3
<1>b. /\ RemoveAt(s, k) \in Seq(S) /\ Len(RemoveAt(s, k)) = Len(a) + Len(b)
      /\ \A i \in 1..(Len(a) + Len(b)) :
            RemoveAt(s, k)[i] = IF i <= Len(a) THEN a[i] ELSE b[i - Len(a)]
  BY <1>4, <1>a, ConcatProperties
<1>5. /\ RemoveAt(s, k) \in Seq(S) /\ Len(RemoveAt(s, k)) = (k - 1) + (Len(s) - k)
      /\ \A i \in 1..((k - 1) + (Len(s) - k)) :
            RemoveAt(s, k)[i] = IF i <= k - 1 THEN a[i] ELSE b[i - (k - 1)]
  BY <1>b, <1>2, <1>3
<1>6. (k - 1) + (Len(s) - k) = Len(s) - 1
  BY <1>1
<1>7. ASSUME NEW i \in 1..(Len(s) - 1)
      PROVE  RemoveAt(s, k)[i] = IF i < k THEN s[i] ELSE s[i + 1]
  <2>1. CASE i < k
    <3>1. i \in 1..(k - 1) /\ i <= k - 1
      BY <1>1, <2>1
    <3>2. RemoveAt(s, k)[i] = a[i]
      BY <1>5, <1>6, <3>1
    <3> QED BY <1>2, <2>1, <3>1, <3>2
  <2>2. CASE ~(i < k)
    <3>1. i - (k - 1) \in 1..(Len(s) - k) /\ k + (i - (k - 1)) = i + 1
      BY <1>1, <2>2
    <3>2. RemoveAt(s, k)[i] = b[i - (k - 1)]
      BY <1>1, <1>5, <1>6, <2>2
    <3> QED BY <1>3, <2>2, <3>1, <3>2
  <2> QED BY <2>1, <2>2
<1> QED BY <1>5, <1>6, <1>7

\* Each member that is left was a member, at another place for each.
LEMMA RemovedPlaces ==
  ASSUME NEW S, NEW s \in Seq(S), NEW k \in 1..Len(s)
  PROVE  \E at \in [1..(Len(s) - 1) -> (1..Len(s)) \ {k}] :
            /\ \A i \in 1..(Len(s) - 1) : RemoveAt(s, k)[i] = s[at[i]]
            /\ \A i, j \in 1..(Len(s) - 1) : at[i] = at[j] => i = j
<1> DEFINE at == [i \in 1..(Len(s) - 1) |-> IF i < k THEN i ELSE i + 1]
<1>1. Len(s) \in Nat
  BY LenProperties
<1>2. at \in [1..(Len(s) - 1) -> (1..Len(s)) \ {k}]
  BY <1>1
<1>3. \A i \in 1..(Len(s) - 1) : RemoveAt(s, k)[i] = s[at[i]]
  BY <1>1, Removed
<1>4. \A i, j \in 1..(Len(s) - 1) : at[i] = at[j] => i = j
  BY <1>1
<1> HIDE DEF at
<1> QED BY <1>2, <1>3, <1>4

Others(s, e) == RemoveFirstMatch(s, LAMBDA x : x.id = e)
\* What is left of a sequence of records without the first with an id.
LEMMA FirstMatch ==
  ASSUME NEW S, NEW s \in Seq(S), NEW e
  PROVE  \/ Others(s, e) = s /\ \A i \in 1..Len(s) : s[i].id # e
         \/ \E k \in 1..Len(s) : s[k].id = e /\ Others(s, e) = RemoveAt(s, k)
<1> DEFINE I == {i \in 1..Len(s) : s[i].id = e}
<1>1. CASE I = {}
  BY <1>1 DEF Others, RemoveFirstMatch
<1>2. CASE I # {}
  <2>1. IsFiniteSet(1..Len(s)) /\ Len(s) \in Nat
    BY LenProperties, FS_Interval
  <2>a. I \subseteq 1..Len(s)
    OBVIOUS
  <2>b. Positions(I) /\ IsFiniteSet(I)
    <3> HIDE DEF I
    <3>1. I \in SUBSET (1..Len(s))
      BY <2>a
    <3>2. IsFiniteSet(I)
      BY <2>1, <3>1, FS_Subset
    <3> QED BY <2>1, <2>a, <3>2 DEF Positions
  <2>2. Min(I) \in I
    <3> HIDE DEF I
    <3> QED BY <1>2, <2>b, MinIsMember
  <2>3. SelectInSeq(s, LAMBDA x : x.id = e) = Min(I)
    BY <1>2 DEF SelectInSeq
  <2>4. Others(s, e) = RemoveAt(s, Min(I))
    BY <1>2, <2>3 DEF Others, RemoveFirstMatch
  <2> QED BY <2>2, <2>4
<1> QED BY <1>1, <1>2

\* What is left of a list without the first of what is equal to e.
LEMMA FirstOf ==
  ASSUME NEW S, NEW s \in Seq(S), NEW e
  PROVE  \/ RemoveFirst(s, e) = s /\ \A i \in 1..Len(s) : s[i] # e
         \/ \E k \in 1..Len(s) : s[k] = e /\ RemoveFirst(s, e) = RemoveAt(s, k)
<1> DEFINE I == {i \in 1..Len(s) : s[i] = e}
<1>1. CASE I = {}
  BY <1>1 DEF RemoveFirst
<1>2. CASE I # {}
  <2>1. IsFiniteSet(1..Len(s)) /\ Len(s) \in Nat
    BY LenProperties, FS_Interval
  <2>a. I \subseteq 1..Len(s)
    OBVIOUS
  <2>b. Positions(I) /\ IsFiniteSet(I)
    <3> HIDE DEF I
    <3>1. I \in SUBSET (1..Len(s))
      BY <2>a
    <3>2. IsFiniteSet(I)
      BY <2>1, <3>1, FS_Subset
    <3> QED BY <2>1, <2>a, <3>2 DEF Positions
  <2>2. Min(I) \in I
    <3> HIDE DEF I
    <3> QED BY <1>2, <2>b, MinIsMember
  <2>3. SelectInSeq(s, LAMBDA x : x = e) = Min(I)
    BY <1>2 DEF SelectInSeq
  <2>4. RemoveFirst(s, e) = RemoveAt(s, Min(I))
    BY <1>2, <2>3 DEF RemoveFirst
  <2> QED BY <2>2, <2>4
<1> QED BY <1>1, <1>2

-----------------------------------------------------------------------------
(* A reviewer's batch of votes.                                            *)

\* A finite set is listed once and whole.
LEMMA ListIsWhole ==
  ASSUME NEW S, IsFiniteSet(S)
  PROVE  /\ SetToSeq(S) \in Seq(S) /\ IsInjective(SetToSeq(S))
         /\ Len(SetToSeq(S)) = Cardinality(S) /\ ToSet(SetToSeq(S)) = S
         /\ DOMAIN SetToSeq(S) = 1..Cardinality(S)
<1> DEFINE n == Cardinality(S)
           f == SetToSeq(S)
<1>1. n \in Nat /\ ExistsBijection(1..n, S)
  BY FS_CardinalityType
<1>2. \E g \in [1..n -> S] : IsInjective(g)
  BY <1>1 DEF ExistsBijection, Bijection, Injection
<1>3. f \in [1..n -> S] /\ IsInjective(f)
  BY <1>2 DEF SetToSeq
<1> HIDE DEF f
<1>4. f \in Injection(1..n, S)
  BY <1>3 DEF Injection
<1>5. IsFiniteSet(1..n) /\ Cardinality(1..n) = n
  BY <1>1, FS_Interval
<1>6. f \in Surjection(1..n, S)
  BY <1>4, <1>5, FS_Injection
<1>7. ToSet(f) = S
  BY <1>3, <1>6 DEF Surjection, ToSet
<1>8. f \in Seq(S) /\ Len(f) = n
  BY <1>1, <1>3
<1> QED BY <1>3, <1>7, <1>8 DEF f

-----------------------------------------------------------------------------
Votes == {"approve", "reject"}
ListedType == [known : BOOLEAN, votes : [Wallets -> SUBSET Waiting]]
DeskType == [address : Wallets, list : ListedType, loading : BOOLEAN,
             filter : {"all", "pending", "voted"}, batch : BOOLEAN, dialog : BOOLEAN,
             executing : BOOLEAN, awaits : Nat]

BatchTypeOK ==
    /\ voted \in [Wallets -> SUBSET Waiting]
    /\ reviewDesk \in DeskType
    /\ chosenVotes \in [Waiting -> Votes \cup {NoVote}]
    /\ \A f \in fetches : f.answer \in ListedType
    /\ asked \in Nat
\* What was chosen is counted, and the page as it should be.
BatchInOrder == BatchTypeOK /\ IsFiniteSet(Selected) /\ BatchIsSound

\* A cleared selection selects nothing.
LEMMA NothingSelected ==
  ASSUME chosenVotes = Cleared PROVE Selected = {}
  BY DEF Cleared, Selected

\* What was chosen is run once each, and all of it succeeds.
LEMMA BatchIsRun ==
  ASSUME NEW votes \in [Waiting -> Votes \cup {NoVote}], chosenVotes = votes,
         IsFiniteSet(Selected)
  PROVE  LET queue == Execute(AddOperations(SetToSeq(Selected))) IN
         /\ {<<queue[i].milestone, queue[i].vote>> : i \in DOMAIN queue}
               = {<<m, votes[m]>> : m \in {n \in Waiting : votes[n] # NoVote}}
         /\ Len(queue) = Cardinality(Selected) /\ Succeeded(queue) = Len(queue)
<1> DEFINE S == Selected
           n == Cardinality(S)
           list == SetToSeq(S)
           queue == Execute(AddOperations(list))
<1>1. /\ DOMAIN list = 1..n /\ ToSet(list) = S /\ n \in Nat
  BY ListIsWhole, FS_CardinalityType
<1>2. S = {m \in Waiting : votes[m] # NoVote}
  BY DEF Selected
<1> HIDE DEF S, n, list
<1>3. queue = [i \in 1..n |-> [milestone |-> list[i], vote |-> votes[list[i]], status |-> "success"]]
  BY <1>1 DEF Execute, AddOperations, Executor
<1> HIDE DEF queue
<1>4. /\ DOMAIN queue = 1..n
      /\ \A i \in 1..n : /\ queue[i].milestone = list[i] /\ queue[i].vote = votes[list[i]]
                         /\ queue[i].status = "success"
  BY <1>3
<1>5. {<<queue[i].milestone, queue[i].vote>> : i \in DOMAIN queue} = {<<m, votes[m]>> : m \in S}
  <2>1. \A i \in 1..n : list[i] \in S
    BY <1>1 DEF ToSet
  <2>2. \A m \in S : \E i \in 1..n : list[i] = m
    BY <1>1 DEF ToSet
  <2> QED BY <1>4, <2>1, <2>2
<1>6. Len(queue) = n
  <2>1. queue \in Seq({queue[i] : i \in 1..n})
    BY <1>1, <1>3
  <2> QED BY <1>1, <1>4, <2>1, LenProperties
<1>7. {i \in DOMAIN queue : queue[i].status = "success"} = 1..n
  BY <1>4
<1>8. Succeeded(queue) = n
  <2>1. Cardinality(1..n) = n
    BY <1>1, FS_Interval
  <2> QED BY <1>7, <2>1 DEF Succeeded
<1> QED BY <1>2, <1>5, <1>6, <1>8 DEF queue, list, S, n

\* The reviewer's page as it is opened.
LEMMA BatchInitially == BatchInit => BatchInOrder
<1> SUFFICES ASSUME BatchInit PROVE BatchInOrder
  OBVIOUS
<1> USE DEF BatchInit
<1>1. Unknown \in ListedType
  BY DEF Unknown, ListedType
<1>2. PICK a \in Wallets :
        /\ reviewDesk = [address |-> a, list |-> Unknown, loading |-> TRUE, filter |-> "all",
                   batch |-> FALSE, dialog |-> FALSE, executing |-> FALSE, awaits |-> MaxFetches]
        /\ fetches = {[id |-> 0, of |-> a, answer |-> Unknown, read |-> FALSE]}
  OBVIOUS
<1>3. BatchTypeOK
  BY <1>1, <1>2, ReviewBatchAssumption DEF BatchTypeOK, DeskType, Cleared
<1>4. Selected = {} /\ IsFiniteSet(Selected)
  BY NothingSelected, FS_EmptySet
<1>5. PageStaysUsable
  BY <1>2, <1>4 DEF PageStaysUsable
<1> QED BY <1>3, <1>4, <1>5 DEF BatchInOrder, BatchIsSound, BatchIsWhatWasConfirmed

\* The dialog, the bar and what is executed, when the votes stay.
LEMMA DeskMoves ==
  ASSUME BatchInOrder, UNCHANGED <<voted, chosenVotes, batchQueue, toast>>,
         reviewDesk' \in DeskType, asked' \in Nat, \A f \in fetches' : f.answer \in ListedType,
         Selected # {} => reviewDesk'.batch,
         reviewDesk'.executing => \E f \in fetches' : f.id = reviewDesk'.awaits,
         reviewDesk'.dialog => reviewDesk'.executing \/ Selected # {}
  PROVE  BatchInOrder'
<1>1. Selected' = Selected
  BY DEF Selected
<1>2. BatchTypeOK'
  BY DEF BatchInOrder, BatchTypeOK
<1>3. BatchIsWhatWasConfirmed'
  BY DEF BatchInOrder, BatchIsSound, BatchIsWhatWasConfirmed
<1>4. PageStaysUsable'
  BY <1>1 DEF BatchInOrder, BatchIsSound, PageStaysUsable
<1> QED BY <1>1, <1>2, <1>3, <1>4 DEF BatchInOrder, BatchIsSound

\* Every handler of the page, and every list that is answered, however late.
LEMMA BatchStep == BatchInOrder /\ [BatchNext]_batchVars => BatchInOrder'
<1> SUFFICES ASSUME BatchInOrder, [BatchNext]_batchVars PROVE BatchInOrder'
  OBVIOUS
<1>0. /\ voted \in [Wallets -> SUBSET Waiting] /\ reviewDesk \in DeskType
      /\ chosenVotes \in [Waiting -> Votes \cup {NoVote}]
      /\ (\A f \in fetches : f.answer \in ListedType) /\ asked \in Nat
      /\ IsFiniteSet(Selected)
      /\ (Selected # {} => reviewDesk.batch /\ Cardinality(Selected) <= BatchMax)
      /\ (reviewDesk.executing => \E f \in fetches : f.id = reviewDesk.awaits)
      /\ (reviewDesk.dialog => reviewDesk.executing \/ Selected # {})
      /\ BatchIsWhatWasConfirmed
  BY DEF BatchInOrder, BatchTypeOK, BatchIsSound, PageStaysUsable
<1>a. Unknown \in ListedType /\ ListedReviews \in ListedType
  BY <1>0 DEF Unknown, ListedReviews, ListedType
<1>1. ASSUME NEW a \in Wallets, ChangeWallet(a) PROVE BatchInOrder'
  <2> USE <1>1 DEF ChangeWallet, Fetching
  <2>1. /\ reviewDesk' \in DeskType /\ reviewDesk'.batch = reviewDesk.batch
        /\ reviewDesk'.executing = reviewDesk.executing /\ reviewDesk'.awaits = reviewDesk.awaits
        /\ reviewDesk'.dialog = reviewDesk.dialog
    BY <1>0 DEF DeskType
  <2>2. asked' \in Nat /\ (\A f \in fetches' : f.answer \in ListedType) /\ fetches \subseteq fetches'
    BY <1>0, <1>a
  <2>3. UNCHANGED <<voted, chosenVotes, batchQueue, toast>>
    OBVIOUS
  <2> HIDE <1>1 DEF ChangeWallet, Fetching
  <2> QED BY <1>0, <2>1, <2>2, <2>3, DeskMoves
<1>2. ASSUME NEW a \in Wallets, NEW m \in Waiting, VoteElsewhere(a, m) PROVE BatchInOrder'
  <2>1. UNCHANGED <<reviewDesk, chosenVotes, fetches, batchQueue, toast, asked>>
        /\ voted' \in [Wallets -> SUBSET Waiting]
    BY <1>0, <1>2 DEF VoteElsewhere
  <2> QED BY <1>0, <2>1 DEF BatchInOrder, BatchTypeOK, BatchIsSound, PageStaysUsable, Selected,
        BatchIsWhatWasConfirmed
<1>3. ASSUME NEW f \in fetches, ReadList(f) PROVE BatchInOrder'
  <2> USE <1>3 DEF ReadList
  <2> DEFINE g == [f EXCEPT !.answer = ListedReviews, !.read = TRUE]
  <2>1. fetches' = (fetches \ {f}) \cup {g}
    OBVIOUS
  <2>2. UNCHANGED <<voted, reviewDesk, chosenVotes, batchQueue, toast, asked>>
    OBVIOUS
  <2> HIDE <1>3 DEF ReadList
  <2>3. g.id = f.id /\ g.answer \in ListedType
    BY <1>0, <1>a, <1>3 DEF BatchInOrder
  <2> HIDE DEF g
  <2>4. \A h \in fetches' : h.answer \in ListedType
    BY <1>0, <2>1, <2>3
  <2>5. ASSUME reviewDesk.executing PROVE \E h \in fetches' : h.id = reviewDesk.awaits
    <3>1. PICK h \in fetches : h.id = reviewDesk.awaits
      BY <1>0, <2>5
    <3> QED BY <2>1, <2>3, <3>1
  <2> QED BY <1>0, <2>2, <2>4, <2>5, DeskMoves
<1>4. ASSUME NEW f \in fetches, NEW ok \in BOOLEAN, AnswerList(f, ok) PROVE BatchInOrder'
  <2> USE <1>4 DEF AnswerList
  <2>1. /\ fetches' = fetches \ {f} /\ UNCHANGED <<voted, chosenVotes, batchQueue, toast, asked>>
        /\ reviewDesk' = [reviewDesk EXCEPT !.list = IF ok THEN f.answer ELSE Unknown,
                            !.loading = FALSE,
                            !.executing = @ /\ reviewDesk.awaits # f.id,
                            !.dialog = @ /\ reviewDesk.awaits # f.id,
                            !.awaits = IF @ = f.id THEN MaxFetches ELSE @]
    OBVIOUS
  <2> HIDE <1>4 DEF AnswerList
  <2>2. /\ reviewDesk' \in DeskType /\ reviewDesk'.batch = reviewDesk.batch
        /\ reviewDesk'.executing => reviewDesk.executing /\ reviewDesk.awaits # f.id
        /\ reviewDesk'.dialog => reviewDesk.dialog /\ reviewDesk.awaits # f.id
        /\ reviewDesk.awaits # f.id => /\ reviewDesk'.awaits = reviewDesk.awaits
                                       /\ reviewDesk'.executing = reviewDesk.executing
    BY <1>0, <1>a, <2>1, ReviewBatchAssumption DEF DeskType
  <2>3. reviewDesk'.executing => \E h \in fetches' : h.id = reviewDesk'.awaits
    BY <1>0, <2>1, <2>2
  <2> QED BY <1>0, <2>1, <2>2, <2>3, DeskMoves
<1>5. ASSUME NEW tab \in {"all", "pending", "voted"}, SetFilter(tab) PROVE BatchInOrder'
  <2>1. /\ reviewDesk' \in DeskType /\ reviewDesk'.batch = reviewDesk.batch
        /\ reviewDesk'.executing = reviewDesk.executing /\ reviewDesk'.awaits = reviewDesk.awaits
        /\ reviewDesk'.dialog = reviewDesk.dialog
        /\ UNCHANGED <<voted, chosenVotes, fetches, batchQueue, toast, asked>>
    BY <1>0, <1>5 DEF SetFilter, DeskType
  <2> QED BY <1>0, <2>1, DeskMoves
<1>6. CASE OpenBatchDialog \/ CancelDialog
  <2>1. /\ reviewDesk' \in DeskType /\ reviewDesk'.batch = reviewDesk.batch
        /\ reviewDesk'.executing = reviewDesk.executing /\ reviewDesk'.awaits = reviewDesk.awaits
        /\ reviewDesk'.dialog => Selected # {}
        /\ UNCHANGED <<voted, chosenVotes, fetches, batchQueue, toast, asked>>
    BY <1>0, <1>6 DEF OpenBatchDialog, CancelDialog, BatchBar, DeskType
  <2> QED BY <1>0, <2>1, DeskMoves
<1>7. CASE CloseToast
  <2>1. UNCHANGED <<voted, reviewDesk, chosenVotes, fetches, batchQueue, asked>> /\ toast' = NoToast
    BY <1>7 DEF CloseToast
  <2> QED BY <1>0, <2>1 DEF BatchInOrder, BatchTypeOK, BatchIsSound, PageStaysUsable, Selected,
        BatchIsWhatWasConfirmed, NoToast, Cleared
<1>8. ASSUME chosenVotes' \in [Waiting -> Votes \cup {NoVote}], IsFiniteSet(Selected'),
             Selected' # {} => reviewDesk'.batch /\ Cardinality(Selected') <= BatchMax,
             reviewDesk' \in DeskType, ~reviewDesk'.dialog,
             reviewDesk'.executing = reviewDesk.executing, reviewDesk'.awaits = reviewDesk.awaits,
             UNCHANGED <<voted, fetches, batchQueue, toast, asked>>
      PROVE  BatchInOrder'
  <2>1. BatchTypeOK'
    BY <1>0, <1>8 DEF BatchTypeOK
  <2>2. BatchIsWhatWasConfirmed'
    BY <1>0, <1>8 DEF BatchIsWhatWasConfirmed
  <2>3. PageStaysUsable'
    BY <1>0, <1>8 DEF PageStaysUsable
  <2> QED BY <1>8, <2>1, <2>2, <2>3 DEF BatchInOrder, BatchIsSound
<1>9. ASSUME chosenVotes' = Cleared PROVE Selected' = {} /\ chosenVotes' \in [Waiting -> Votes \cup {NoVote}]
  BY <1>9 DEF Cleared, Selected
<1>10. CASE ToggleBatchMode
  <2>1. /\ reviewDesk' \in DeskType /\ reviewDesk'.batch = ~reviewDesk.batch /\ ~reviewDesk'.dialog
        /\ reviewDesk'.executing = reviewDesk.executing /\ reviewDesk'.awaits = reviewDesk.awaits
        /\ UNCHANGED <<voted, fetches, batchQueue, toast, asked>>
    BY <1>0, <1>10 DEF ToggleBatchMode, DeskType
  <2>2. Selected' = {} /\ chosenVotes' \in [Waiting -> Votes \cup {NoVote}]
    <3>1. CASE reviewDesk.batch
      BY <1>9, <1>10, <3>1 DEF ToggleBatchMode
    <3>2. CASE ~reviewDesk.batch
      <4>1. chosenVotes' = chosenVotes /\ Selected = {}
        BY <1>0, <1>10, <3>2 DEF ToggleBatchMode
      <4> QED BY <1>0, <4>1 DEF Selected
    <3> QED BY <3>1, <3>2
  <2>3. IsFiniteSet(Selected')
    BY <2>2, FS_EmptySet
  <2> QED BY <1>8, <2>1, <2>2, <2>3
<1>11. CASE ClearBatch
  <2>1. chosenVotes' = Cleared /\ ~reviewDesk.dialog
        /\ UNCHANGED <<voted, reviewDesk, fetches, batchQueue, toast, asked>>
    BY <1>11 DEF ClearBatch
  <2>2. Selected' = {} /\ chosenVotes' \in [Waiting -> Votes \cup {NoVote}]
    BY <1>9, <2>1
  <2>3. IsFiniteSet(Selected')
    BY <2>2, FS_EmptySet
  <2> QED BY <1>0, <1>8, <2>1, <2>2, <2>3
<1>12. ASSUME NEW m \in Waiting, NEW vote \in {"approve", "reject"}, SetVote(m, vote)
       PROVE  BatchInOrder'
  <2>1. /\ chosenVotes' = [chosenVotes EXCEPT ![m] = IF @ = vote THEN NoVote ELSE vote]
        /\ chosenVotes[m] = NoVote => Cardinality(Selected) < BatchMax
        /\ UNCHANGED <<voted, reviewDesk, fetches, batchQueue, toast, asked>>
    BY <1>12 DEF SetVote
  <2>2. ~reviewDesk.dialog /\ CardOffers(m) = "buttons"
    BY <1>12 DEF SetVote, BatchOffered
  <2>3. reviewDesk.batch
    <3>1. CASE HasVoted(m)
      BY <2>2, <3>1 DEF CardOffers
    <3>2. CASE ~HasVoted(m) /\ ~reviewDesk.batch
      BY <2>2, <3>2 DEF CardOffers
    <3> QED BY <3>1, <3>2
  <2>4. chosenVotes' \in [Waiting -> Votes \cup {NoVote}]
    BY <1>0, <2>1 DEF Votes
  <2>5. IsFiniteSet(Selected') /\ Cardinality(Selected') <= BatchMax
    <3>0. Cardinality(Selected) \in Nat /\ BatchMax \in Nat
      BY <1>0, FS_CardinalityType, ReviewBatchAssumption
    <3>1. CASE chosenVotes[m] = NoVote
      <4>1. Selected' \in SUBSET (Selected \cup {m})
        BY <1>0, <2>1 DEF Selected
      <4>a. /\ IsFiniteSet(Selected \cup {m})
            /\ Cardinality(Selected \cup {m})
                  = IF m \in Selected THEN Cardinality(Selected) ELSE Cardinality(Selected) + 1
        BY <1>0, FS_AddElement
      <4>2. /\ IsFiniteSet(Selected \cup {m})
            /\ Cardinality(Selected \cup {m}) <= Cardinality(Selected) + 1
        BY <3>0, <4>a
      <4>3. IsFiniteSet(Selected') /\ Cardinality(Selected') <= Cardinality(Selected \cup {m})
        BY <4>1, <4>2, FS_Subset
      <4>4. Cardinality(Selected') \in Nat /\ Cardinality(Selected \cup {m}) \in Nat
        BY <4>2, <4>3, FS_CardinalityType
      <4> QED BY <2>1, <3>0, <3>1, <4>2, <4>3, <4>4
    <3>2. CASE chosenVotes[m] # NoVote
      <4>1. Selected' \in SUBSET Selected /\ Selected # {}
        BY <1>0, <2>1, <3>2 DEF Selected
      <4>2. IsFiniteSet(Selected') /\ Cardinality(Selected') <= Cardinality(Selected)
        BY <1>0, <4>1, FS_Subset
      <4>3. Cardinality(Selected') \in Nat
        BY <4>2, FS_CardinalityType
      <4> QED BY <1>0, <3>0, <4>1, <4>2, <4>3
    <3> QED BY <3>1, <3>2
  <2> QED BY <1>0, <1>8, <2>1, <2>2, <2>3, <2>4, <2>5
<1>13. CASE ExecuteBatch
  <2> USE <1>13 DEF ExecuteBatch, Fetching
  <2> DEFINE queue == Execute(AddOperations(SetToSeq(Selected)))
  <2>1. /\ batchQueue' = queue /\ chosenVotes' = Cleared /\ UNCHANGED voted
        /\ toast' = [n |-> Succeeded(batchQueue'), all |-> Succeeded(batchQueue') = Len(batchQueue'),
                     confirmed |-> chosenVotes]
        /\ reviewDesk' = [reviewDesk EXCEPT !.executing = TRUE, !.batch = FALSE, !.loading = TRUE,
                            !.awaits = asked]
        /\ asked' = asked + 1 /\ Selected # {}
        /\ fetches' = fetches \cup {[id |-> asked, of |-> reviewDesk.address, answer |-> Unknown, read |-> FALSE]}
    OBVIOUS
  <2> HIDE <1>13 DEF ExecuteBatch, Fetching, queue
  <2>2. /\ {<<queue[i].milestone, queue[i].vote>> : i \in DOMAIN queue}
              = {<<m, chosenVotes[m]>> : m \in {n \in Waiting : chosenVotes[n] # NoVote}}
        /\ Len(queue) = Cardinality(Selected) /\ Succeeded(queue) = Len(queue)
    BY <1>0, BatchIsRun DEF queue
  <2>3. Cardinality(Selected) <= BatchMax
    BY <1>0, <2>1
  <2>4. /\ toast'.n = Len(batchQueue') /\ toast'.all /\ toast'.confirmed = chosenVotes
    BY <2>1, <2>2
  <2>5. BatchIsWhatWasConfirmed'
    BY <2>1, <2>2, <2>3, <2>4 DEF BatchIsWhatWasConfirmed
  <2>6. Selected' = {} /\ chosenVotes' \in [Waiting -> Votes \cup {NoVote}]
    BY <1>9, <2>1
  <2>7. reviewDesk' \in DeskType /\ reviewDesk'.executing /\ reviewDesk'.awaits = asked
    BY <1>0, <2>1 DEF DeskType
  <2>8. asked' \in Nat /\ (\A f \in fetches' : f.answer \in ListedType)
        /\ \E f \in fetches' : f.id = reviewDesk'.awaits
    <3>1. asked' \in Nat
      BY <1>0, <2>1
    <3>2. \A f \in fetches' : f.answer \in ListedType
      BY <1>0, <1>a, <2>1
    <3>3. \E f \in fetches' : f.id = reviewDesk'.awaits
      <4> DEFINE g == [id |-> asked, of |-> reviewDesk.address, answer |-> Unknown, read |-> FALSE]
      <4>1. g \in fetches' /\ g.id = asked
        BY <2>1
      <4> QED BY <2>7, <4>1
    <3> QED BY <3>1, <3>2, <3>3
  <2>9. PageStaysUsable'
    BY <2>6, <2>7, <2>8 DEF PageStaysUsable
  <2>10. BatchTypeOK'
    BY <1>0, <2>1, <2>6, <2>7, <2>8 DEF BatchTypeOK
  <2>11. IsFiniteSet(Selected')
    BY <2>6, FS_EmptySet
  <2> QED BY <2>5, <2>9, <2>10, <2>11 DEF BatchInOrder, BatchIsSound
<1>14. CASE UNCHANGED batchVars
  BY <1>14 DEF batchVars, BatchInOrder, BatchTypeOK, BatchIsSound, PageStaysUsable, Selected,
        BatchIsWhatWasConfirmed
<1> QED BY <1>1, <1>2, <1>3, <1>4, <1>5, <1>6, <1>7, <1>10, <1>11, <1>12, <1>13, <1>14 DEF BatchNext

-----------------------------------------------------------------------------
(* The form of a new grant.                                                *)

(* Sequences whose members do not matter *)

IsSomeSeq(s) == \E S : s \in Seq(S)

\* A sequence is its length and its members.
LEMMA SeqFacts ==
  ASSUME NEW s, IsSomeSeq(s) PROVE Len(s) \in Nat /\ DOMAIN s = 1..Len(s) /\ Len(s) >= 0
<1>1. PICK S : s \in Seq(S)
  BY DEF IsSomeSeq
<1> QED BY <1>1, LenProperties

\* What is written for every position of a list is a list.
LEMMA FunctionIsSeq ==
  ASSUME NEW n \in Nat, NEW s, s = [i \in 1..n |-> s[i]]
  PROVE  IsSomeSeq(s) /\ Len(s) = n
<1> DEFINE S == {s[i] : i \in 1..n}
<1>1. \A i \in 1..n : s[i] \in S
  OBVIOUS
<1> HIDE DEF S
<1>2. s \in Seq(S) /\ Len(s) = n
  BY <1>1
<1> QED BY <1>2 DEF IsSomeSeq

\* A list with one member changed.
LEMMA ExceptIsSeq ==
  ASSUME NEW s, IsSomeSeq(s), NEW k, NEW e 
  PROVE  IsSomeSeq([s EXCEPT ![k] = e]) /\ Len([s EXCEPT ![k] = e]) = Len(s)
<1> DEFINE t == [s EXCEPT ![k] = e]
           n == Len(s)
<1>1. n \in Nat /\ DOMAIN s = 1..n
  BY SeqFacts
<1>2. DOMAIN t = 1..n /\ t = [i \in 1..n |-> t[i]]
  BY <1>1
<1> HIDE DEF t, n
<1>3. IsSomeSeq(t) /\ Len(t) = n
  BY <1>1, <1>2, FunctionIsSeq
<1> QED BY <1>3 DEF t, n

\* A list with one member more.
LEMMA AppendIsSeq ==
  ASSUME NEW s, IsSomeSeq(s), NEW e PROVE IsSomeSeq(Append(s, e))
<1>1. PICK S : s \in Seq(S)
  BY DEF IsSomeSeq
<1>2. s \in Seq(S \cup {e})
  BY <1>1
<1>3. Append(s, e) \in Seq(S \cup {e})
  BY <1>2, AppendProperties
<1> QED BY <1>3 DEF IsSomeSeq

\* A list with one member less.
LEMMA RemoveIsSeq ==
  ASSUME NEW s, IsSomeSeq(s), NEW k \in 1..Len(s) PROVE IsSomeSeq(RemoveAt(s, k))
<1>1. PICK S : s \in Seq(S)
  BY DEF IsSomeSeq
<1>2. RemoveAt(s, k) \in Seq(S)
  BY <1>1, Removed
<1> QED BY <1>2 DEF IsSomeSeq

\* A list with a member moved.
LEMMA MoveIsSeq ==
  ASSUME NEW s, IsSomeSeq(s), NEW k \in 1..Len(s), NEW j \in 1..Len(s), NEW e
  PROVE  /\ IsSomeSeq(InsertAt(RemoveAt(s, k), j, e))
         /\ Len(InsertAt(RemoveAt(s, k), j, e)) = Len(s)
<1>1. PICK S : s \in Seq(S)
  BY DEF IsSomeSeq
<1> DEFINE t == RemoveAt(s, k)
           T == S \cup {e}
           a == SubSeq(t, 1, j - 1)
           b == SubSeq(t, j, Len(t))
<1>2. t \in Seq(S) /\ Len(t) = Len(s) - 1 /\ Len(s) \in Nat
  BY <1>1, Removed, LenProperties
<1> HIDE DEF t
<1>3. t \in Seq(T) /\ \A i \in 1..Len(t) : t[i] \in T
  BY <1>2, ElementOfSeq
<1>4. a \in Seq(T) /\ Len(a) = j - 1
  <2>1. 1 \in Int /\ j - 1 \in Int /\ \A i \in 1..(j - 1) : t[i] \in T
    BY <1>2, <1>3
  <2> HIDE DEF T
  <2>2. a \in Seq(T) /\ Len(a) = IF 1 <= j - 1 THEN (j - 1) - 1 + 1 ELSE 0
    BY <2>1, SubSeqProperties
  <2> QED BY <2>2
<1>5. b \in Seq(T) /\ Len(b) = Len(t) - j + 1
  <2>1. j \in Int /\ Len(t) \in Int /\ \A i \in j..Len(t) : t[i] \in T
    BY <1>2, <1>3
  <2> HIDE DEF T
  <2>2. b \in Seq(T) /\ Len(b) = IF j <= Len(t) THEN Len(t) - j + 1 ELSE 0
    BY <2>1, SubSeqProperties
  <2> QED BY <1>2, <2>2
<1>6. <<e>> \in Seq(T) /\ Len(<<e>>) = 1
  OBVIOUS
<1> HIDE DEF T, a, b
<1> DEFINE u == a \o <<e>>
<1>7. (a \o <<e>>) \o b \in Seq(T) /\ Len((a \o <<e>>) \o b) = Len(s)
  <2>1. a \o <<e>> \in Seq(T) /\ Len(a \o <<e>>) = j
    BY <1>4, <1>6, ConcatProperties
  <2>2. u \in Seq(T) /\ Len(u) = j
    BY <2>1
  <2> HIDE DEF u
  <2>3. u \o b \in Seq(T) /\ Len(u \o b) = j + (Len(t) - j + 1)
    <3>1. u \o b \in Seq(T) /\ Len(u \o b) = Len(u) + Len(b)
      BY <1>5, <2>2, ConcatProperties
    <3> QED BY <1>5, <2>2, <3>1
  <2>4. u \o b \in Seq(T) /\ Len(u \o b) = Len(s)
    BY <1>2, <2>3
  <2> QED BY <2>4 DEF u
<1>8. InsertAt(t, j, e) = (a \o <<e>>) \o b
  BY DEF InsertAt, a, b
<1> QED BY <1>7, <1>8 DEF IsSomeSeq, t

-----------------------------------------------------------------------------
(* The form *)

\* A form, whatever its milestones are called.
FormType(f) ==
    /\ DOMAIN f = {"basics", "budget", "milestones", "seats", "seated", "quorum"}
    /\ f.budget \in Nat /\ IsSomeSeq(f.milestones)
\* A draft holds a form and the step it was at.
WorkDone(s, f) == s \in 1..4 /\ FormType(f) /\ Earned(s, f)
\* The calculator.
CalcType(c) ==
    /\ DOMAIN c = {"mode", "weights", "previous", "undo"}
    /\ IsSomeSeq(c.weights) /\ IsSomeSeq(c.previous)
\* The work before the step that is shown is done, in the form, in the draft and in the
\* draft that is stored.
FormInOrder ==
    /\ WorkDone(step, form)
    /\ draft # NoDraft => WorkDone(draft.step, draft.form)
    /\ storedDraft # NothingStored => WorkDone(storedDraft.draft.step, storedDraft.draft.form)
    /\ formRows \in 0..Len(form.milestones) /\ CalcType(calc)

\* A chart of every reward and nothing else.
ChartIsFull(f) == ChartSays(f) = "fully allocated" /\ Bar(f) = Rewards(f)

\* What the four steps need, one after the other.
LEMMA EarnedAt ==
  ASSUME NEW s \in 1..4, NEW f
  PROVE  Earned(s, f) <=> /\ s # 1 => BasicsDone(f)
                          /\ s \notin {1, 2} => MilestonesDone(f) /\ ChartIsFull(f)
                          /\ s = 4 => ReviewersDone(f)
<1>1. (s >= 2 <=> s # 1) /\ (s >= 3 <=> s \notin {1, 2})
  OBVIOUS
<1> QED BY <1>1, Zenon DEF Earned, ChartIsFull

\* A form begins with no milestones.
LEMMA EmptyIsSeq == IsSomeSeq(<<>>)
<1>1. <<>> \in Seq({})
  OBVIOUS
<1> QED BY <1>1 DEF IsSomeSeq

\* The greater of two.
LEMMA MaxOfTwo ==
  ASSUME NEW a \in Nat, NEW b \in Nat
  PROVE  Max({a, b}) = IF a >= b THEN a ELSE b
<1>1. CASE a >= b
  BY <1>1 DEF Max
<1>2. CASE ~(a >= b)
  BY <1>2 DEF Max
<1> QED BY <1>1, <1>2

\* A reward for each milestone.
LEMMA RewardsAreListed ==
  ASSUME NEW f, IsSomeSeq(f.milestones)
  PROVE  /\ IsSomeSeq(Rewards(f)) /\ Len(Rewards(f)) = Len(f.milestones)
         /\ DOMAIN Rewards(f) = DOMAIN f.milestones
         /\ \A i \in DOMAIN f.milestones : Rewards(f)[i] = f.milestones[i].reward
<1>1. Len(f.milestones) \in Nat /\ DOMAIN f.milestones = 1..Len(f.milestones)
  BY SeqFacts
<1>2. /\ DOMAIN Rewards(f) = DOMAIN f.milestones
      /\ \A i \in DOMAIN f.milestones : Rewards(f)[i] = f.milestones[i].reward
      /\ Rewards(f) = [i \in 1..Len(f.milestones) |-> Rewards(f)[i]]
  BY <1>1 DEF Rewards
<1>3. IsSomeSeq(Rewards(f)) /\ Len(Rewards(f)) = Len(f.milestones)
  BY <1>1, <1>2, FunctionIsSeq
<1> QED BY <1>2, <1>3

\* Milestones that can be continued with fill the bar: a segment each, and no other.
LEMMA BarIsFull ==
  ASSUME NEW f, FormType(f), BasicsDone(f), MilestonesDone(f)
  PROVE  ChartSays(f) = "fully allocated" /\ Bar(f) = Rewards(f)
<1>1. f.budget \in Nat /\ f.budget > 0 /\ SumOf(Rewards(f)) = f.budget
  BY DEF FormType, BasicsDone, MilestonesDone, Balanced
<1>2. Unallocated(f) = 0 /\ OverBy(f) = 0
  <2>1. f.budget - SumOf(Rewards(f)) = 0 /\ SumOf(Rewards(f)) - f.budget = 0
    BY <1>1
  <2>2. Max({0, 0}) = 0
    BY MaxOfTwo
  <2> QED BY <2>1, <2>2 DEF Unallocated, OverBy
<1>3. ChartSays(f) = "fully allocated"
  BY <1>1, <1>2 DEF ChartSays
<1> DEFINE r == Rewards(f)
           n == Len(r)
<1>4. /\ IsSomeSeq(r) /\ n \in Nat /\ DOMAIN r = 1..n /\ \A i \in 1..n : r[i] > 0
  BY RewardsAreListed, SeqFacts DEF FormType, MilestonesDone
<1> HIDE DEF n
<1>5. /\ DOMAIN Widths(f) = 1..(n + 2) /\ \A i \in 1..n : Widths(f)[i] = r[i]
      /\ Widths(f)[n + 1] = 0 /\ Widths(f)[n + 2] = 0
  <2>1. PICK S : r \in Seq(S)
    BY <1>4 DEF IsSomeSeq
  <2> DEFINE T == S \cup {0}
             z == <<0, 0>>
  <2>2. r \in Seq(T) /\ z \in Seq(T) /\ Len(z) = 2 /\ z[1] = 0 /\ z[2] = 0
    BY <2>1
  <2>3. Widths(f) = r \o z
    BY <1>2 DEF Widths
  <2> HIDE DEF r, z, T
  <2>4. /\ Widths(f) \in Seq(T) /\ Len(Widths(f)) = n + 2
        /\ \A i \in 1..(n + 2) : Widths(f)[i] = IF i <= n THEN r[i] ELSE z[i - n]
    <3>1. Len(r) = n
      BY DEF n, r
    <3>2. /\ r \o z \in Seq(T) /\ Len(r \o z) = Len(r) + Len(z)
          /\ \A i \in 1..(Len(r) + Len(z)) :
                (r \o z)[i] = IF i <= Len(r) THEN r[i] ELSE z[i - Len(r)]
      BY <2>2, ConcatProperties
    <3> QED BY <2>2, <2>3, <3>1, <3>2
  <2>5. DOMAIN Widths(f) = 1..(n + 2)
    BY <2>4, LenProperties
  <2>6. \A i \in 1..n : Widths(f)[i] = r[i]
    BY <1>4, <2>4
  <2>7. Widths(f)[n + 1] = z[1] /\ Widths(f)[n + 2] = z[2]
    <3>1. n + 1 \in 1..(n + 2) /\ n + 2 \in 1..(n + 2) /\ ~(n + 1 <= n) /\ ~(n + 2 <= n)
          /\ (n + 1) - n = 1 /\ (n + 2) - n = 2
      BY <1>4
    <3> QED BY <2>4, <3>1
  <2> QED BY <2>2, <2>5, <2>6, <2>7
<1>6. {k \in DOMAIN Widths(f) : Widths(f)[k] > 0} = 1..n
  <2>1. 1..(n + 2) = (1..n) \cup {n + 1, n + 2}
    BY <1>4
  <2>2. ~(0 > 0) /\ n + 1 \notin 1..n /\ n + 2 \notin 1..n
    BY <1>4
  <2> QED BY <1>4, <1>5, <2>1, <2>2
<1>7. Bar(f) = [i \in 1..n |-> Widths(f)[i]]
  <2>1. f.budget # 0
    BY <1>1
  <2>2. Bar(f) = [i \in {k \in DOMAIN Widths(f) : Widths(f)[k] > 0} |-> Widths(f)[i]]
    BY <2>1 DEF Bar
  <2> QED BY <1>6, <2>2
<1>8. [i \in 1..n |-> Widths(f)[i]] = [i \in 1..n |-> r[i]]
  BY <1>5
<1>9. r = [i \in DOMAIN r |-> r[i]]
  BY DEF Rewards
<1> QED BY <1>3, <1>4, <1>7, <1>8, <1>9

-----------------------------------------------------------------------------
(* The calculator *)

\* What is distributed is a reward for each row, or weight.
LEMMA DistributionIsSeq ==
  ASSUME NEW mode, NEW budget, NEW n \in Nat, NEW weights, IsSomeSeq(weights)
  PROVE  IsSomeSeq(Distribution(mode, budget, n, weights))
<1>1. ASSUME NEW r, IsSomeSeq(r) PROVE IsSomeSeq(SettledRewards(r, budget))
  <2>1. CASE Len(r) = 0
    BY <1>1, <2>1 DEF SettledRewards
  <2>2. CASE Len(r) # 0
    <3> DEFINE e == RoundCents(r[Len(r)] + RoundCents(budget - SumOf(r), 1), 1)
    <3>1. Len(r) \in DOMAIN r
      BY <1>1, <2>2, SeqFacts
    <3>2. SettledRewards(r, budget) = [r EXCEPT ![Len(r)] = e]
      BY <2>2, <3>1 DEF SettledRewards
    <3> HIDE DEF e
    <3>3. IsSomeSeq([r EXCEPT ![Len(r)] = e])
      BY <1>1, ExceptIsSeq
    <3> QED BY <3>2, <3>3
  <2> QED BY <2>1, <2>2
<1>2. IsSomeSeq(Equal(budget, n))
  <2>1. Equal(budget, n) = [i \in 1..n |-> Equal(budget, n)[i]]
    BY DEF Equal
  <2> QED BY <2>1, FunctionIsSeq
<1>3. IsSomeSeq(FrontLoad(budget, n))
  <2>1. CASE n = 1
    <3>1. FrontLoad(budget, n) = <<budget>>
      BY <2>1 DEF FrontLoad
    <3>2. <<budget>> \in Seq({budget})
      OBVIOUS
    <3> QED BY <3>1, <3>2 DEF IsSomeSeq
  <2>2. CASE n = 2
    <3> DEFINE a == RoundCents(budget * 6, 10)
               b == RoundCents(budget - a, 1)
    <3>1. FrontLoad(budget, n) = <<a, b>>
      BY <2>2 DEF FrontLoad
    <3> HIDE DEF a, b
    <3>2. <<a, b>> \in Seq({a, b})
      OBVIOUS
    <3> QED BY <3>1, <3>2 DEF IsSomeSeq
  <2>3. CASE n # 1 /\ n # 2
    <3> DEFINE first == RoundCents(budget * 5, 10)
               second == RoundCents(budget * 3, 10)
               rest == RoundCents(budget - first - second, n - 2)
    <3>1. FrontLoad(budget, n) = [i \in 1..n |-> IF i = 1 THEN first ELSE IF i = 2 THEN second ELSE rest]
      BY <2>3 DEF FrontLoad
    <3> HIDE DEF first, second, rest
    <3>2. FrontLoad(budget, n) = [i \in 1..n |-> FrontLoad(budget, n)[i]]
      BY <3>1
    <3> QED BY <3>2, FunctionIsSeq
  <2> QED BY <2>1, <2>2, <2>3
<1>4. IsSomeSeq(Weighted(budget, weights))
  <2>1. Len(weights) \in Nat /\ DOMAIN weights = 1..Len(weights)
    BY SeqFacts
  <2>2. Weighted(budget, weights) = [i \in 1..Len(weights) |-> Weighted(budget, weights)[i]]
    BY <2>1 DEF Weighted
  <2> QED BY <2>1, <2>2, FunctionIsSeq
<1> DEFINE shares == CASE mode = "equal" -> Equal(budget, n)
                       [] mode # "equal" /\ mode = "front" -> FrontLoad(budget, n)
                       [] OTHER -> Weighted(budget, weights)
<1>5. Distribution(mode, budget, n, weights) = SettledRewards(shares, budget)
  <2>1. CASE mode = "equal"
    BY <2>1 DEF Distribution
  <2>2. CASE mode = "front"
    BY <2>2 DEF Distribution
  <2>3. CASE mode \notin {"equal", "front"}
    BY <2>3 DEF Distribution
  <2> QED BY <2>1, <2>2, <2>3
<1>6. IsSomeSeq(shares)
  BY <1>2, <1>3, <1>4
<1> HIDE DEF shares
<1> QED BY <1>1, <1>5, <1>6

\* Milestones with other rewards are milestones.
LEMMA WithRewardsIsSeq ==
  ASSUME NEW milestones, IsSomeSeq(milestones), NEW rewards, IsSomeSeq(rewards)
  PROVE  /\ IsSomeSeq(WithRewards(milestones, rewards))
         /\ Len(WithRewards(milestones, rewards)) >= Len(milestones)
<1> DEFINE n == Max({Len(milestones), Len(rewards)})
<1>1. n \in Nat /\ n >= Len(milestones)
  BY SeqFacts, MaxOfTwo
<1>2. WithRewards(milestones, rewards) = [i \in 1..n |-> WithRewards(milestones, rewards)[i]]
  BY DEF WithRewards
<1> HIDE DEF n
<1> QED BY <1>1, <1>2, FunctionIsSeq

-----------------------------------------------------------------------------
(* The steps *)

\* Steps 2 and 3 keep what was earned, whatever they change of their own.
LEMMA FormChanged ==
  ASSUME FormInOrder, NEW m, form' = [form EXCEPT !.milestones = m], IsSomeSeq(m), step = 2,
         UNCHANGED <<step, draft, storedDraft>>, formRows' \in 0..Len(m), CalcType(calc')
  PROVE  FormInOrder'
<1>0. step \in 1..4 /\ step # 1 /\ step \in {1, 2} /\ step # 4
  OBVIOUS
<1>a. WorkDone(step, form) /\ FormType(form) /\ Earned(step, form)
  BY DEF FormInOrder, WorkDone
<1>1. WorkDone(step, form) /\ BasicsDone(form) /\ FormType(form)
  BY <1>0, <1>a, EarnedAt, Zenon
<1>2. FormType(form') /\ form'.basics = form.basics /\ form'.budget = form.budget
  BY <1>1 DEF FormType
<1>3. BasicsDone(form')
  BY <1>1, <1>2 DEF BasicsDone
<1>4. WorkDone(step', form') /\ form'.milestones = m
  <2>1. Earned(step, form')
    BY <1>0, <1>3, EarnedAt, Zenon
  <2>2. form'.milestones = m
    BY <1>1 DEF FormType
  <2> QED BY <1>0, <1>2, <2>1, <2>2 DEF WorkDone
<1> QED BY <1>4 DEF FormInOrder

\* The reviewers' step.
LEMMA SeatsChanged ==
  ASSUME FormInOrder, FormType(form'), form'.basics = form.basics, form'.budget = form.budget,
         form'.milestones = form.milestones, step = 3,
         UNCHANGED <<step, draft, storedDraft, formRows, calc>>
  PROVE  FormInOrder'
<1>0. step \in 1..4 /\ step # 1 /\ step \notin {1, 2} /\ step # 4
  OBVIOUS
<1>a. Earned(step, form)
  BY DEF FormInOrder, WorkDone
<1>1. BasicsDone(form) /\ MilestonesDone(form)
  BY <1>0, <1>a, EarnedAt, Zenon
<1>2. BasicsDone(form') /\ MilestonesDone(form')
  <2>1. Rewards(form') = Rewards(form)
    BY DEF Rewards
  <2> QED BY <1>1, <2>1 DEF BasicsDone, MilestonesDone, Balanced
<1>3. WorkDone(step', form')
  <2>1. ChartIsFull(form')
    BY <1>2, BarIsFull DEF ChartIsFull
  <2>2. Earned(step, form')
    BY <1>0, <1>2, <2>1, EarnedAt, Zenon
  <2> QED BY <1>0, <2>2 DEF WorkDone
<1> QED BY <1>3 DEF FormInOrder

\* The rest of the form changes, and the step and the form stay or are fresh.
LEMMA WorkStays ==
  ASSUME FormInOrder, WorkDone(step', form'), formRows' \in 0..Len(form'.milestones),
         CalcType(calc'),
         draft' # NoDraft => WorkDone(draft'.step, draft'.form),
         storedDraft' # NothingStored => WorkDone(storedDraft'.draft.step, storedDraft'.draft.form)
  PROVE  FormInOrder'
  BY DEF FormInOrder

\* The calculator as step 2 mounts it.
LEMMA FreshCalcType == CalcType(FreshCalc)
  BY EmptyIsSeq DEF FreshCalc, CalcType
\* The calculator after a change of the milestones.
LEMMA ResetType ==
  ASSUME CalcType(calc), NEW n \in Nat PROVE CalcType(Reset(n))
<1> DEFINE w == [i \in 1..n |-> 1]
<1>1. IsSomeSeq(w)
  <2>1. w = [i \in 1..n |-> w[i]]
    OBVIOUS
  <2> HIDE DEF w
  <2> QED BY <2>1, FunctionIsSeq
<1>2. Reset(n) = [calc EXCEPT !.weights = w]
  BY DEF Reset
<1> HIDE DEF w
<1> QED BY <1>1, <1>2 DEF CalcType

\* The first step needs no work.
LEMMA DefaultWork == WorkDone(1, DefaultForm)
<1>1. <<[reward |-> 200, named |-> FALSE]>> \in Seq({[reward |-> 200, named |-> FALSE]})
  OBVIOUS
<1>2. IsSomeSeq(DefaultForm.milestones)
  BY <1>1 DEF IsSomeSeq, DefaultForm
<1>3. FormType(DefaultForm)
  BY <1>2 DEF FormType, DefaultForm
<1>4. 1 \in 1..4 /\ 1 \in {1, 2} /\ 1 # 4
  OBVIOUS
<1>5. Earned(1, DefaultForm)
  BY <1>4, EarnedAt, Zenon
<1> QED BY <1>3, <1>4, <1>5 DEF WorkDone

\* The form as it is opened.
LEMMA FormInitially == FormInit => FormInOrder
<1>1. Len(DefaultForm.milestones) = 1
  BY DEF DefaultForm
<1> QED BY <1>1, DefaultWork, FreshCalcType DEF FormInit, FormInOrder

\* No edit, step, draft, restore or mount shows a step whose work is undone.
LEMMA FormStep == FormInOrder /\ [FormNext]_formVars => FormInOrder'
<1> SUFFICES ASSUME FormInOrder, [FormNext]_formVars PROVE FormInOrder'
  OBVIOUS
<1>0. /\ step \in 1..4 /\ FormType(form) /\ Earned(step, form)
      /\ formRows \in 0..Len(form.milestones) /\ CalcType(calc)
      /\ (draft # NoDraft => WorkDone(draft.step, draft.form))
      /\ (storedDraft # NothingStored =>
            WorkDone(storedDraft.draft.step, storedDraft.draft.form))
      /\ IsSomeSeq(form.milestones) /\ Len(form.milestones) \in Nat
  BY SeqFacts DEF FormInOrder, WorkDone, FormType
<1>1. CASE Continue
  <2>1. /\ step \in 1..3 /\ Done(step, form) /\ step' = step + 1 /\ calc' = FreshCalc
        /\ UNCHANGED <<form, formRows, draft, storedDraft>>
    BY <1>0, <1>1 DEF Continue
  <2>2. Earned(step + 1, form)
    <3>1. CASE step = 1
      <4>1. BasicsDone(form)
        BY <2>1, <3>1 DEF Done
      <4>2. Earned(2, form)
        <5>1. 2 \in 1..4 /\ 2 \in {1, 2} /\ 2 # 4
          OBVIOUS
        <5> QED BY <4>1, <5>1, EarnedAt, Zenon
      <4> QED BY <3>1, <4>2
    <3>2. CASE step = 2
      <4>1. BasicsDone(form)
        <5>1. step \in 1..4 /\ step # 1
          BY <3>2
        <5> QED BY <1>0, <5>1, EarnedAt, Zenon
      <4>2. MilestonesDone(form)
        <5>1. step # 1
          BY <3>2
        <5> QED BY <2>1, <3>2, <5>1 DEF Done
      <4>3. ChartIsFull(form)
        BY <1>0, <4>1, <4>2, BarIsFull DEF ChartIsFull
      <4>4. Earned(3, form)
        <5>1. 3 \in 1..4 /\ 3 # 4
          OBVIOUS
        <5> QED BY <4>1, <4>2, <4>3, <5>1, EarnedAt, Zenon
      <4> QED BY <3>2, <4>4
    <3>3. CASE step = 3
      <4>1. BasicsDone(form) /\ MilestonesDone(form) /\ ChartIsFull(form)
        <5>1. step \in 1..4 /\ step # 1 /\ step \notin {1, 2}
          BY <3>3
        <5> QED BY <1>0, <5>1, EarnedAt, Zenon
      <4>2. ReviewersDone(form)
        <5>1. step # 1 /\ step # 2
          BY <3>3
        <5> QED BY <2>1, <5>1 DEF Done
      <4>3. Earned(4, form)
        <5>1. 4 \in 1..4
          OBVIOUS
        <5> QED BY <4>1, <4>2, <5>1, EarnedAt, Zenon
      <4> QED BY <3>3, <4>3
    <3> QED BY <2>1, <3>1, <3>2, <3>3
  <2>3. WorkDone(step', form')
    BY <1>0, <2>1, <2>2 DEF WorkDone
  <2> QED BY <1>0, <2>1, <2>3, WorkStays, FreshCalcType
<1>2. ASSUME NEW to \in 1..3, GoBack(to) PROVE FormInOrder'
  <2>1. /\ to < step /\ step' = to /\ formRows' = Len(form.milestones) /\ calc' = FreshCalc
        /\ UNCHANGED <<form, draft, storedDraft>>
    BY <1>2 DEF GoBack, Completed
  <2>2. WorkDone(step', form')
    <3>1. /\ to \in 1..4 /\ (to # 1 => step # 1) /\ (to \notin {1, 2} => step \notin {1, 2})
          /\ to # 4
      BY <1>0, <2>1
    <3>2. Earned(to, form)
      BY <1>0, <3>1, EarnedAt, Zenon
    <3> QED BY <1>0, <2>1, <3>1, <3>2 DEF WorkDone
  <2> QED BY <1>0, <2>1, <2>2, WorkStays, FreshCalcType
<1>3. ASSUME NEW valid \in BOOLEAN, NEW budget \in Budgets, EditBasics(valid, budget)
      PROVE  FormInOrder'
  <2>1. /\ step = 1 /\ form' = [form EXCEPT !.basics = valid, !.budget = budget]
        /\ UNCHANGED <<step, formRows, calc, draft, storedDraft>>
    BY <1>3 DEF EditBasics
  <2>2. FormType(form')
    <3>1. budget \in Nat
      BY GrantFormAssumption
    <3> QED BY <1>0, <2>1, <3>1 DEF FormType
  <2>3. WorkDone(step', form') /\ form'.milestones = form.milestones
    <3>1. 1 \in 1..4 /\ 1 \in {1, 2} /\ 1 # 4
      OBVIOUS
    <3>2. Earned(1, form')
      BY <3>1, EarnedAt, Zenon
    <3> QED BY <1>0, <2>1, <2>2, <3>1, <3>2 DEF WorkDone, FormType
  <2> QED BY <1>0, <2>1, <2>3, WorkStays
<1>4. ASSUME NEW rewards, IsSomeSeq(rewards), OnDistribute(rewards), step = 2, CalcType(calc'),
             UNCHANGED <<step, formRows, draft, storedDraft>>
      PROVE  FormInOrder'
  <2> DEFINE m == WithRewards(form.milestones, rewards)
  <2>1. IsSomeSeq(m) /\ Len(m) >= Len(form.milestones) /\ Len(m) \in Nat
    BY <1>0, <1>4, WithRewardsIsSeq, SeqFacts
  <2>2. form' = [form EXCEPT !.milestones = m]
    BY <1>4 DEF OnDistribute
  <2> HIDE DEF m
  <2>3. formRows' \in 0..Len(m)
    BY <1>0, <1>4, <2>1
  <2> QED BY <1>0, <1>4, <2>1, <2>2, <2>3, FormChanged
\* The rows are those of the milestones, and the weights start anew.
<1>5. ASSUME NEW m, IsSomeSeq(m), form' = [form EXCEPT !.milestones = m], step = 2,
             formRows' = Len(form'.milestones), calc' = Reset(formRows'),
             UNCHANGED <<step, draft, storedDraft>>
      PROVE  FormInOrder'
  <2>1. form'.milestones = m
    BY <1>0, <1>5 DEF FormType
  <2>2. formRows' \in 0..Len(m) /\ formRows' \in Nat
    BY <1>0, <1>5, <2>1, SeqFacts
  <2>3. CalcType(calc')
    BY <1>0, <1>5, <2>2, ResetType
  <2> QED BY <1>0, <1>5, <2>2, <2>3, FormChanged
<1>6. CASE AddMilestone
  <2> DEFINE m == Append(form.milestones, [reward |-> 0, named |-> FALSE])
  <2>1. /\ form' = [form EXCEPT !.milestones = m] /\ step = 2
        /\ formRows' = Len(form'.milestones) /\ calc' = Reset(formRows')
        /\ UNCHANGED <<step, draft, storedDraft>>
    BY <1>0, <1>6 DEF AddMilestone, FormType
  <2>2. IsSomeSeq(m)
    BY <1>0, AppendIsSeq
  <2> HIDE DEF m
  <2> QED BY <1>5, <2>1, <2>2
<1>7. ASSUME NEW i \in 1..MaxMilestones, RemoveMilestone(i) PROVE FormInOrder'
  <2> DEFINE m == RemoveAt(form.milestones, i)
  <2>1. /\ form' = [form EXCEPT !.milestones = m] /\ step = 2 /\ i \in 1..formRows
        /\ formRows' = Len(form'.milestones) /\ calc' = Reset(formRows')
        /\ UNCHANGED <<step, draft, storedDraft>>
    BY <1>0, <1>7 DEF RemoveMilestone, FormType
  <2>2. IsSomeSeq(m)
    BY <1>0, <2>1, RemoveIsSeq
  <2> HIDE DEF m
  <2> QED BY <1>5, <2>1, <2>2
<1>8. ASSUME NEW m, IsSomeSeq(m), Len(m) = Len(form.milestones),
             form' = [form EXCEPT !.milestones = m], step = 2,
             UNCHANGED <<step, formRows, calc, draft, storedDraft>>
      PROVE  FormInOrder'
  BY <1>0, <1>8, FormChanged
<1>9. ASSUME NEW i \in 1..MaxMilestones, NEW j \in 1..MaxMilestones, MoveMilestone(i, j)
      PROVE  FormInOrder'
  <2> DEFINE m == InsertAt(RemoveAt(form.milestones, i), j, form.milestones[i])
  <2>1. /\ form' = [form EXCEPT !.milestones = m] /\ step = 2
        /\ i \in 1..formRows /\ j \in 1..formRows
        /\ UNCHANGED <<step, formRows, calc, draft, storedDraft>>
    BY <1>0, <1>9 DEF MoveMilestone, FormType
  <2>2. i \in 1..Len(form.milestones) /\ j \in 1..Len(form.milestones)
    BY <1>0, <2>1
  <2>3. IsSomeSeq(m) /\ Len(m) = Len(form.milestones)
    BY <1>0, <2>2, MoveIsSeq
  <2> HIDE DEF m
  <2> QED BY <1>8, <2>1, <2>3
<1>10. ASSUME NEW i \in 1..MaxMilestones, NEW reward \in Budgets, EditMilestone(i, reward)
       PROVE  FormInOrder'
  <2> DEFINE e == [reward |-> reward, named |-> TRUE]
             m == [form.milestones EXCEPT ![i] = e]
  <2>1. /\ form' = [form EXCEPT !.milestones = m] /\ step = 2
        /\ UNCHANGED <<step, formRows, calc, draft, storedDraft>>
    BY <1>0, <1>10 DEF EditMilestone, FormType
  <2> HIDE DEF e
  <2>3. IsSomeSeq(m) /\ Len(m) = Len(form.milestones)
    BY <1>0, ExceptIsSeq
  <2> HIDE DEF m
  <2> QED BY <1>8, <2>1, <2>3
<1>11. ASSUME NEW mode, NEW weights, IsSomeSeq(weights), DistributeBy(mode, weights)
       PROVE  FormInOrder'
  <2> DEFINE rewards == Distribution(mode, form.budget, formRows, weights)
  <2>1. /\ OnDistribute(rewards) /\ step = 2
        /\ calc' = [mode |-> mode, weights |-> weights, previous |-> Rewards(form), undo |-> TRUE]
        /\ UNCHANGED <<step, formRows, draft, storedDraft>>
    BY <1>11 DEF DistributeBy
  <2>2. IsSomeSeq(rewards)
    BY <1>0, <1>11, DistributionIsSeq
  <2>3. CalcType(calc')
    BY <1>0, <1>11, <2>1, RewardsAreListed DEF CalcType
  <2> HIDE DEF rewards
  <2> QED BY <1>4, <2>1, <2>2, <2>3
<1>12. ASSUME NEW mode \in {"equal", "front", "custom"}, Distribute(mode) PROVE FormInOrder'
  BY <1>0, <1>11, <1>12 DEF Distribute, CalcType
<1>13. ASSUME NEW i \in 1..MaxMilestones, NEW weight \in 1..2, UpdateWeight(i, weight)
       PROVE  FormInOrder'
  <2> DEFINE w == [calc.weights EXCEPT ![i] = weight]
  <2>1. DistributeBy("custom", w)
    BY <1>13 DEF UpdateWeight
  <2>2. IsSomeSeq(w)
    BY <1>0, ExceptIsSeq DEF CalcType
  <2> HIDE DEF w
  <2> QED BY <1>11, <2>1, <2>2
<1>14. CASE Undo
  <2>1. /\ OnDistribute(calc.previous) /\ step = 2
        /\ calc' = [calc EXCEPT !.previous = <<>>, !.undo = FALSE, !.mode = "none"]
        /\ UNCHANGED <<step, formRows, draft, storedDraft>>
    BY <1>14 DEF Undo
  <2>2. CalcType(calc') /\ IsSomeSeq(calc.previous)
    BY <1>0, <2>1, EmptyIsSeq DEF CalcType
  <2> QED BY <1>4, <2>1, <2>2
<1>15. CASE CloseCustom \/ HideUndo
  <2>1. UNCHANGED <<form, step, formRows, draft, storedDraft>>
    BY <1>15 DEF CloseCustom, HideUndo
  <2>2. CalcType(calc')
    BY <1>0, <1>15 DEF CloseCustom, HideUndo, CalcType
  <2> QED BY <1>0, <2>1, <2>2 DEF FormInOrder
<1>16. ASSUME NEW seats, NEW seated, EditSeats(seats, seated) PROVE FormInOrder'
  <2>1. /\ step = 3 /\ form' = [form EXCEPT !.seats = seats, !.seated = seated]
        /\ UNCHANGED <<step, formRows, calc, draft, storedDraft>>
    BY <1>16 DEF EditSeats
  <2>2. /\ FormType(form') /\ form'.basics = form.basics /\ form'.budget = form.budget
        /\ form'.milestones = form.milestones
    BY <1>0, <2>1 DEF FormType
  <2> QED BY <2>1, <2>2, SeatsChanged
<1>17. CASE AddReviewerSeat \/ \E seated \in BOOLEAN : RemoveReviewerSeat(seated) \/ EditReviewer(seated)
  BY <1>16, <1>17 DEF AddReviewerSeat, RemoveReviewerSeat, EditReviewer
<1>18. ASSUME NEW quorum, EditQuorum(quorum) PROVE FormInOrder'
  <2>1. /\ step = 3 /\ form' = [form EXCEPT !.quorum = quorum]
        /\ UNCHANGED <<step, formRows, calc, draft, storedDraft>>
    BY <1>18 DEF EditQuorum
  <2>2. /\ FormType(form') /\ form'.basics = form.basics /\ form'.budget = form.budget
        /\ form'.milestones = form.milestones
    BY <1>0, <2>1 DEF FormType
  <2> QED BY <2>1, <2>2, SeatsChanged
<1>19. CASE AutoSave
  <2>1. /\ draft' = [step |-> step, form |-> form] /\ storedDraft'.draft = draft'
        /\ UNCHANGED <<form, step, formRows, calc>>
    BY <1>19 DEF AutoSave, SaveDraft
  <2>2. WorkDone(draft'.step, draft'.form)
    BY <1>0, <2>1 DEF WorkDone
  <2> QED BY <1>0, <2>1, <2>2 DEF FormInOrder, WorkDone
<1>20. CASE Restore
  <2>1. /\ WorkDone(draft.step, draft.form) /\ form' = draft.form /\ step' = draft.step
        /\ formRows' = Len(form'.milestones) /\ UNCHANGED <<draft, storedDraft>>
        /\ calc' \in {calc, Reset(formRows'), FreshCalc}
    BY <1>0, <1>20 DEF Restore, BannerOffers
  <2>2. formRows' \in 0..Len(form'.milestones) /\ formRows' \in Nat
    BY <2>1, SeqFacts DEF WorkDone, FormType
  <2>3. CalcType(calc')
    BY <1>0, <2>1, <2>2, ResetType, FreshCalcType
  <2> QED BY <1>0, <2>1, <2>2, <2>3 DEF FormInOrder
<1>21. CASE Discard
  <2>1. /\ draft' = NoDraft /\ storedDraft' = NothingStored
        /\ UNCHANGED <<form, step, formRows, calc>>
    BY <1>21 DEF Discard
  <2> QED BY <1>0, <2>1 DEF FormInOrder, WorkDone
<1>22. ASSUME NEW later, Reopen(later) PROVE FormInOrder'
  <2>1. /\ form' = DefaultForm /\ step' = 1 /\ formRows' = 1 /\ calc' = FreshCalc
        /\ \/ storedDraft' = storedDraft /\ storedDraft # NothingStored /\ draft' = storedDraft.draft
           \/ storedDraft' = NothingStored /\ draft' = NoDraft
    BY <1>22 DEF Reopen
  <2>2. Len(DefaultForm.milestones) = 1
    BY DEF DefaultForm
  <2> QED BY <1>0, <2>1, <2>2, DefaultWork, FreshCalcType DEF FormInOrder
<1>23. CASE UNCHANGED formVars
  <2>1. UNCHANGED <<form, step, formRows, calc, draft, storedDraft>>
    BY <1>23 DEF formVars
  <2> QED BY <2>1 DEF FormInOrder
<1> QED BY <1>1, <1>2, <1>3, <1>6, <1>7, <1>9, <1>10, <1>12, <1>13, <1>14, <1>15, <1>17, <1>18,
        <1>19, <1>20, <1>21, <1>22, <1>23 DEF FormNext

\* A step that is shown is earned.
LEMMA FormSound == FormInOrder => StepIsEarned
  BY DEF FormInOrder, WorkDone, StepIsEarned

-----------------------------------------------------------------------------
(* The boxes an address is written in.                                     *)

\* What a box holds: an address is written with these, and misspelt with x.
Letter == {"a", "b", "x", " "}
BoxType == [text : Seq(Letter), mark : {"none", "valid", "invalid"}, skip : BOOLEAN]
\* The user is in one of the boxes or in none, and marks are what they say.
BoxesInOrder ==
    boxes \in Seq(BoxType) /\ Len(boxes) > 0 /\ focus \in 0..Len(boxes) /\ MarkIsTrue

\* What is typed or pasted.
LEMMA WordsOfLetters ==
  /\ \A t \in {<<"a">>, <<"b">>, <<"x">>, <<" ">>, <<"a", " ">>} : t \in Seq(Letter) /\ Len(t) > 0
  /\ <<>> \in Seq(Letter)
<1>1. <<>> \in Seq(Letter)
  OBVIOUS
<1>2. <<"a">> \in Seq(Letter) /\ Len(<<"a">>) > 0
  BY DEF Letter
<1>3. <<"b">> \in Seq(Letter) /\ Len(<<"b">>) > 0
  BY DEF Letter
<1>4. <<"x">> \in Seq(Letter) /\ Len(<<"x">>) > 0
  BY DEF Letter
<1>5. <<" ">> \in Seq(Letter) /\ Len(<<" ">>) > 0
  BY DEF Letter
<1>6. <<"a", " ">> \in Seq(Letter) /\ Len(<<"a", " ">>) > 0
  BY DEF Letter
<1> QED BY <1>1, <1>2, <1>3, <1>4, <1>5, <1>6

\* A text is judged in one of three ways.
LEMMA Judged == ASSUME NEW text PROVE ValidateValue(text) \in {"none", "valid", "invalid"}
  BY DEF ValidateValue

\* The box the cursor leaves has a true mark.
LEMMA LeftBox ==
  ASSUME BoxesInOrder
  PROVE  /\ Blurred \in Seq(BoxType) /\ Len(Blurred) = Len(boxes)
         /\ \A i \in 1..Len(boxes) :
               Blurred[i] = IF i = focus THEN [boxes[i] EXCEPT !.mark = ValidateValue(boxes[i].text)]
                            ELSE boxes[i]
<1>1. boxes \in Seq(BoxType) /\ focus \in 0..Len(boxes) /\ Len(boxes) \in Nat
      /\ DOMAIN boxes = 1..Len(boxes)
  BY LenProperties DEF BoxesInOrder
<1>2. CASE focus = 0
  <2>1. Blurred = boxes
    BY <1>2 DEF Blurred
  <2> QED BY <1>1, <1>2, <2>1
<1>3. CASE focus # 0
  <2> DEFINE b == [boxes[focus] EXCEPT !.mark = ValidateValue(boxes[focus].text)]
  <2>1. focus \in 1..Len(boxes) /\ boxes[focus] \in BoxType
    BY <1>1, <1>3, ElementOfSeq
  <2>2. b \in BoxType
    BY <2>1, Judged DEF BoxType
  <2>3. Blurred = [boxes EXCEPT ![focus] = b]
    BY <1>1, <1>3, <2>1 DEF Blurred
  <2> HIDE DEF b
  <2>4. /\ Blurred \in Seq(BoxType) /\ Len(Blurred) = Len(boxes)
        /\ \A i \in 1..Len(boxes) : Blurred[i] = IF i = focus THEN b ELSE boxes[i]
    BY <1>1, <2>1, <2>2, <2>3, ExceptSeq
  <2> QED BY <2>4 DEF b
<1> QED BY <1>2, <1>3

\* The boxes as they are mounted.
LEMMA BoxesInitially == BoxInit => BoxesInOrder
<1> SUFFICES ASSUME BoxInit PROVE BoxesInOrder
  OBVIOUS
<1> DEFINE n == IF boxesFor = "recipient" THEN 1 ELSE MinSeats
<1>1. n \in Nat \ {0} /\ boxes = [i \in 1..n |-> NoBox] /\ focus = 0
  BY AddressBoxAssumption DEF BoxInit
<1> HIDE DEF n
<1>2. NoBox \in BoxType /\ NoBox.mark = "none"
  BY DEF NoBox, BoxType
<1>3. boxes \in Seq(BoxType) /\ DOMAIN boxes = 1..n /\ \A i \in 1..n : boxes[i] = NoBox
  BY <1>1, <1>2
<1>4. Len(boxes) \in Nat /\ Len(boxes) > 0
  BY <1>1, <1>3, LenProperties
<1> QED BY <1>1, <1>2, <1>3, <1>4 DEF BoxesInOrder, MarkIsTrue

\* Typing, pasting, leaving a box, and the wallet's own address.
LEMMA BoxStep == BoxesInOrder /\ [BoxNext]_boxVars => BoxesInOrder'
<1> SUFFICES ASSUME BoxesInOrder, [BoxNext]_boxVars PROVE BoxesInOrder'
  OBVIOUS
<1>0. /\ boxes \in Seq(BoxType) /\ focus \in 0..Len(boxes) /\ Len(boxes) \in Nat
      /\ DOMAIN boxes = 1..Len(boxes) /\ Len(boxes) > 0
      /\ \A i \in 1..Len(boxes) : boxes[i] \in BoxType
      /\ \A i \in 1..Len(boxes) : i \notin misled =>
            boxes[i].mark \in {"none", ValidateValue(boxes[i].text)}
  BY LenProperties, ElementOfSeq DEF BoxesInOrder, MarkIsTrue
\* One box is another, the cursor stays, and what is said of the others as well.
<1>1. ASSUME focus # 0, UNCHANGED focus, NEW b \in BoxType, boxes' = [boxes EXCEPT ![focus] = b],
             \A i \in misled \ {focus} : i \in misled',
             focus \notin misled' => b.mark \in {"none", ValidateValue(b.text)}
      PROVE  BoxesInOrder'
  <2>1. /\ boxes' \in Seq(BoxType) /\ Len(boxes') = Len(boxes)
        /\ \A i \in 1..Len(boxes) : boxes'[i] = IF i = focus THEN b ELSE boxes[i]
    BY <1>0, <1>1, ExceptSeq
  <2>2. DOMAIN boxes' = 1..Len(boxes)
    BY <2>1, LenProperties
  <2>3. MarkIsTrue'
    BY <1>0, <1>1, <2>1, <2>2 DEF MarkIsTrue
  <2> QED BY <1>0, <1>1, <2>1, <2>3 DEF BoxesInOrder
<1>b. ASSUME NEW i \in 1..Len(boxes), i \notin misled \/ i = focus
      PROVE  Blurred[i].mark \in {"none", ValidateValue(Blurred[i].text)}
  <2>1. CASE i = focus
    <3>1. Blurred[i] = [boxes[i] EXCEPT !.mark = ValidateValue(boxes[i].text)]
      BY <1>b, <2>1, LeftBox
    <3>2. boxes[i] \in BoxType
      BY <1>0
    <3>3. Blurred[i].mark = ValidateValue(boxes[i].text) /\ Blurred[i].text = boxes[i].text
      BY <3>1, <3>2 DEF BoxType
    <3> QED BY <3>3
  <2>2. CASE i # focus
    BY <1>0, <1>b, <2>2, LeftBox
  <2> QED BY <2>1, <2>2
<1>2. ASSUME NEW i \in 0..MaxSeats, FocusOn(i) PROVE BoxesInOrder'
  <2>1. focus' = i /\ boxes' = Blurred /\ misled' = misled \ {focus} /\ i \in 0..Len(boxes)
    BY <1>2 DEF FocusOn
  <2>2. /\ boxes' \in Seq(BoxType) /\ Len(boxes') = Len(boxes)
    BY <2>1, LeftBox
  <2>3. DOMAIN boxes' = 1..Len(boxes)
    BY <2>2, LenProperties
  <2>4. MarkIsTrue'
    BY <1>b, <2>1, <2>3 DEF MarkIsTrue
  <2> QED BY <2>1, <2>2, <2>4 DEF BoxesInOrder
<1>3. ASSUME NEW text \in TypedTexts, TypeInBox(text) PROVE BoxesInOrder'
  <2> DEFINE b == HandleChange(boxes[focus], text)
  <2>1. /\ focus # 0 /\ boxes' = [boxes EXCEPT ![focus] = b] /\ UNCHANGED focus
        /\ misled' = IF boxes[focus].skip THEN misled \cup {focus} ELSE misled \ {focus}
    BY <1>0, <1>3 DEF TypeInBox
  <2>2. focus \in 1..Len(boxes) /\ boxes[focus] \in BoxType
    BY <1>0, <2>1
  <2>3. text \in Seq(Letter)
    BY WordsOfLetters DEF TypedTexts
  <2>4. b \in BoxType /\ (~boxes[focus].skip => b.mark = "none")
    BY <2>2, <2>3 DEF HandleChange, BoxType
  <2> HIDE DEF b
  <2> QED BY <1>1, <2>1, <2>4
<1>4. ASSUME NEW clip \in Pastes, focus # 0,
             NEW text \in {clip, boxes[focus].text \o clip}, PasteInBox(clip, text)
      PROVE  BoxesInOrder'
  <2> DEFINE bare == Trimmed(clip)
             old == boxes[focus]
             judged == CASE bare = <<>> -> old
                         [] bare # <<>> /\ IsAddress(bare) -> [old EXCEPT !.mark = "valid", !.skip = TRUE]
                         [] OTHER -> [old EXCEPT !.mark = "none"]
             b == IF text = judged.text THEN judged ELSE HandleChange(judged, text)
  <2>a. ~IsAddress(<<>>)
    BY DEF IsAddress
  <2>1. /\ boxes' = [boxes EXCEPT ![focus] = b] /\ UNCHANGED focus
        /\ misled' = IF boxes'[focus].mark # "none" /\ text # bare THEN misled \cup {focus}
                     ELSE misled \ {focus}
    BY <1>0, <1>4, <2>a DEF PasteInBox
  <2>2. focus \in 1..Len(boxes) /\ old \in BoxType
    BY <1>0, <1>4
  <2>3. clip \in Seq(Letter) /\ Len(clip) > 0
    BY WordsOfLetters DEF Pastes
  <2>4. text \in Seq(Letter) /\ text # <<>>
    <3>1. old.text \in Seq(Letter) /\ Len(old.text) \in Nat /\ Len(clip) \in Nat
      BY <2>2, <2>3, LenProperties DEF BoxType
    <3>2. old.text \o clip \in Seq(Letter) /\ Len(old.text \o clip) = Len(old.text) + Len(clip)
      BY <2>3, <3>1, ConcatProperties
    <3>3. Len(text) > 0 /\ text \in Seq(Letter)
      <4> DEFINE both == old.text \o clip
      <4>1. text \in {clip, both}
        OBVIOUS
      <4>2. Len(both) > 0 /\ both \in Seq(Letter)
        BY <2>3, <3>1, <3>2
      <4> HIDE DEF both
      <4> QED BY <2>3, <4>1, <4>2
    <3> QED BY <3>3
  <2> HIDE DEF bare, old
  <2>5. judged \in BoxType
    BY <2>2 DEF BoxType
  <2>6. judged.mark = "none" \/ bare = <<>> \/ (judged.mark = "valid" /\ IsAddress(bare))
    BY <2>2 DEF BoxType
  <2> HIDE DEF judged
  <2>7. b \in BoxType
    BY <2>4, <2>5 DEF HandleChange, BoxType
  <2>8. b.text = text /\ b.mark \in {"none", judged.mark}
    BY <2>5 DEF HandleChange, BoxType
  <2> HIDE DEF b
  <2>9. boxes'[focus] = b
    BY <1>0, <2>1, <2>2
  <2>10. ASSUME text = bare PROVE b.mark \in {"none", ValidateValue(b.text)}
    BY <2>4, <2>6, <2>8, <2>10 DEF ValidateValue
  <2> QED BY <1>1, <1>4, <2>1, <2>7, <2>9, <2>10
<1>5. CASE UseMyAddress
  <2> DEFINE b == [boxes[1] EXCEPT !.text = MineIs, !.mark = "valid"]
  <2>1. /\ boxes' = [boxes EXCEPT ![1].text = MineIs, ![1].mark = "valid"]
        /\ focus' = 0 /\ misled' = misled \ {1}
    BY <1>5 DEF UseMyAddress
  <2>a. 1 \in 1..Len(boxes) /\ boxes[1] \in BoxType
    BY <1>0
  <2>b. boxes' = [boxes EXCEPT ![1] = b]
    BY <1>0, <2>1, <2>a
  <2>c. MineIs \in Seq(Letter) /\ ValidateValue(MineIs) = "valid"
    BY DEF MineIs, Letter, ValidateValue, IsAddress
  <2>d. b \in BoxType /\ b.mark = "valid" /\ b.text = MineIs
    BY <2>a, <2>c DEF BoxType
  <2> HIDE DEF b
  <2>e. /\ boxes' \in Seq(BoxType) /\ Len(boxes') = Len(boxes)
        /\ \A i \in 1..Len(boxes) : boxes'[i] = IF i = 1 THEN b ELSE boxes[i]
    BY <1>0, <2>a, <2>b, <2>d, ExceptSeq
  <2>f. DOMAIN boxes' = 1..Len(boxes)
    BY <2>e, LenProperties
  <2>g. MarkIsTrue'
    BY <1>0, <2>1, <2>c, <2>d, <2>e, <2>f DEF MarkIsTrue
  <2> QED BY <1>0, <2>1, <2>e, <2>g DEF BoxesInOrder
<1>6. CASE AddBox
  <2>1. boxes' = Append(Blurred, NoBox) /\ focus' = 0 /\ misled' = misled \ {focus}
    BY <1>6 DEF AddBox
  <2>2. NoBox \in BoxType /\ NoBox.mark = "none"
    BY DEF NoBox, BoxType
  <2>3. /\ boxes' \in Seq(BoxType) /\ Len(boxes') = Len(boxes) + 1
        /\ \A i \in 1..Len(boxes) : boxes'[i] = Blurred[i]
        /\ boxes'[Len(boxes) + 1] = NoBox
    BY <2>1, <2>2, LeftBox, AppendProperties
  <2>4. DOMAIN boxes' = 1..(Len(boxes) + 1)
    BY <2>3, LenProperties
  <2>5. ASSUME NEW i \in 1..(Len(boxes) + 1), i \notin misled'
        PROVE  boxes'[i].mark \in {"none", ValidateValue(boxes'[i].text)}
    <3>1. CASE i = Len(boxes) + 1
      BY <2>2, <2>3, <3>1
    <3>2. CASE i # Len(boxes) + 1
      <4>1. i \in 1..Len(boxes)
        BY <1>0, <3>2
      <4> QED BY <1>b, <2>1, <2>3, <2>5, <4>1
    <3> QED BY <3>1, <3>2
  <2> QED BY <1>0, <2>1, <2>3, <2>4, <2>5 DEF BoxesInOrder, MarkIsTrue
<1>7. ASSUME NEW i \in 0..MaxSeats, RemoveBox(i) PROVE BoxesInOrder'
  <2> DEFINE n == Len(boxes) - 1
             b(j) == [Blurred[j] EXCEPT !.text = boxes[IF j < i THEN j ELSE j + 1].text]
  <2>1. /\ boxes' = [j \in 1..n |-> b(j)] /\ focus' = 0 /\ i \in 1..Len(boxes) /\ Len(boxes) > MinSeats
        /\ misled' = ((misled \ {focus}) \cup {j \in DOMAIN boxes : j >= i}) \cap DOMAIN boxes'
    BY <1>0, <1>7 DEF RemoveBox
  <2>2. n \in Nat /\ n > 0
    BY <1>0, <2>1, AddressBoxAssumption
  <2>3. ASSUME NEW j \in 1..n PROVE b(j) \in BoxType /\ b(j).mark = Blurred[j].mark
                                   /\ (j < i => b(j).text = Blurred[j].text)
    <3>1. j \in 1..Len(boxes) /\ (IF j < i THEN j ELSE j + 1) \in 1..Len(boxes)
      BY <1>0, <2>2
    <3>2. Blurred[j] \in BoxType /\ boxes[IF j < i THEN j ELSE j + 1].text \in Seq(Letter)
      <4>1. Blurred[j] \in BoxType
        BY <3>1, LeftBox, ElementOfSeq
      <4>2. boxes[IF j < i THEN j ELSE j + 1] \in BoxType
        BY <1>0, <3>1
      <4> QED BY <4>1, <4>2 DEF BoxType
    <3>3. Blurred[j].text = boxes[j].text
      BY <1>0, <3>1, LeftBox DEF BoxType
    <3> QED BY <3>2, <3>3 DEF BoxType
  <2> HIDE DEF b
  <2>4. boxes' \in Seq(BoxType) /\ DOMAIN boxes' = 1..n /\ \A j \in 1..n : boxes'[j] = b(j)
    BY <2>1, <2>2, <2>3
  <2>5. Len(boxes') \in Nat /\ Len(boxes') > 0
    BY <2>2, <2>4, LenProperties
  <2>6. ASSUME NEW j \in 1..n, j \notin misled'
        PROVE  boxes'[j].mark \in {"none", ValidateValue(boxes'[j].text)}
    <3>1. j \in 1..Len(boxes) /\ j < i /\ (j \notin misled \/ j = focus)
      BY <1>0, <2>1, <2>2, <2>4, <2>6
    <3> QED BY <1>b, <2>3, <2>4, <3>1
  <2> QED BY <2>1, <2>4, <2>5, <2>6 DEF BoxesInOrder, MarkIsTrue
<1>8. CASE UNCHANGED boxVars
  BY <1>8 DEF boxVars, BoxesInOrder, MarkIsTrue
<1> QED BY <1>2, <1>3, <1>4, <1>5, <1>6, <1>7, <1>8 DEF BoxNext

-----------------------------------------------------------------------------
(* Files: the zone that takes them, and what shows them.                   *)

(* The zone *)

\* The states of FileUpload.tsx.
ZoneStates == {"idle", "dragover", "selected", "uploading", "done", "error"}
UploadType == [at : {"idle", "sent", "done"}, file : {0} \cup Files]
ZoneType == [state : ZoneStates, file : {0} \cup Files, preview : Nat, cid : {0} \cup Files]
\* An upload outlives its zone; a zone that is gone is empty.
ZoneTypeOK ==
    /\ zone \in ZoneType /\ upload \in [Uploading -> UploadType]
    /\ options \in [autoUpload : BOOLEAN] /\ picks \in Nat
    /\ ~mounted => zone = EmptyZone
\* Object URLs are released, and the bar of an upload ends.
ZoneInOrder == ZoneTypeOK /\ UrlsAreReleased /\ BarEnds

\* The zone as it is mounted.
LEMMA ZoneInitially == ZoneInit => ZoneInOrder
<1> SUFFICES ASSUME ZoneInit PROVE ZoneInOrder
  OBVIOUS
<1>1. EmptyZone \in ZoneType /\ EmptyZone.state = "idle" /\ EmptyZone.preview = 0
  BY DEF EmptyZone, ZoneStates, ZoneType
<1>2. upload \in [Uploading -> UploadType] /\ options \in [autoUpload : BOOLEAN]
  BY DEF ZoneInit, UploadType
<1> QED BY <1>1, <1>2 DEF ZoneInit, ZoneInOrder, ZoneTypeOK, UrlsAreReleased, BarEnds

\* An upload begins for a file the zone was given.
LEMMA UploadBegins ==
  ASSUME upload \in [Uploading -> UploadType],
         NEW file \in Files, NEW z \in ZoneType, DoUpload(file, z)
  PROVE  /\ upload' \in [Uploading -> UploadType]
         /\ zone' \in ZoneType /\ zone'.state = "uploading" /\ zone'.preview = z.preview
         /\ ~cancelledUpload' /\ \E u \in Uploading : upload'[u].at = "sent"
<1>1. PICK u \in Uploading :
        /\ upload' = [upload EXCEPT ![u] = [at |-> "sent", file |-> file]]
        /\ cancelledUpload' = FALSE /\ zone' = [z EXCEPT !.state = "uploading"]
  BY DEF DoUpload, SendFile
<1>2. upload' \in [Uploading -> UploadType] /\ upload'[u].at = "sent"
  BY <1>1 DEF UploadType
<1>3. zone' \in ZoneType /\ zone'.state = "uploading" /\ zone'.preview = z.preview
  BY <1>1 DEF ZoneStates, ZoneType
<1> QED BY <1>1, <1>2, <1>3

\* Picks, uploads, cancellations and answers that come late.
LEMMA ZoneStep == ZoneInOrder /\ [ZoneNext]_zoneVars => ZoneInOrder'
<1> SUFFICES ASSUME ZoneInOrder, [ZoneNext]_zoneVars PROVE ZoneInOrder'
  OBVIOUS
<1>0. /\ zone \in ZoneType /\ upload \in [Uploading -> UploadType]
      /\ options \in [autoUpload : BOOLEAN] /\ picks \in Nat
      /\ (~mounted => zone = EmptyZone)
      /\ urls \subseteq {urlRef} /\ (mounted /\ zone.preview # 0 => zone.preview \in urls)
      /\ (~mounted => urls = {})
      /\ (zone.state = "uploading" =>
            ~cancelledUpload /\ \E u \in Uploading : upload[u].at = "sent")
  BY DEF ZoneInOrder, ZoneTypeOK, UrlsAreReleased, BarEnds
<1>a. EmptyZone \in ZoneType /\ EmptyZone.state = "idle" /\ EmptyZone.preview = 0
  BY DEF EmptyZone, ZoneStates, ZoneType
<1> USE DEF ZoneInOrder, ZoneTypeOK, UrlsAreReleased, BarEnds
\* What the zone shows, when its uploads and URLs stay.
<1>1. ASSUME UNCHANGED <<upload, cancelledUpload, urls, urlRef, options>>, picks' \in Nat,
             mounted' = mounted, mounted, zone' \in ZoneType, zone'.state # "uploading",
             zone'.preview \in {0, zone.preview}
      PROVE  ZoneInOrder'
  BY <1>0, <1>1
<1>2. CASE OpenPicker
  BY <1>0, <1>2 DEF OpenPicker
<1>3. CASE RejectFile
  <2>1. /\ UNCHANGED <<upload, cancelledUpload, urls, urlRef, options, mounted>>
        /\ picks' \in Nat /\ mounted
    BY <1>0, <1>3 DEF RejectFile, Picked
  <2>2. zone' \in ZoneType /\ zone'.state # "uploading" /\ zone'.preview = zone.preview
    BY <1>0, <1>3 DEF RejectFile, ZoneStates, ZoneType
  <2> QED BY <1>1, <2>1, <2>2
<1>4. CASE DragOver \/ DragLeave \/ TryAgain
  <2>1. /\ UNCHANGED <<upload, cancelledUpload, urls, urlRef, options, mounted, picks>> /\ mounted
    BY <1>4 DEF DragOver, DragLeave, TryAgain
  <2>2. zone' \in ZoneType /\ zone'.state # "uploading" /\ zone'.preview \in {0, zone.preview}
    <3>1. CASE DragOver
      BY <1>0, <3>1 DEF DragOver, ZoneStates, ZoneType
    <3>2. CASE DragLeave
      BY <1>0, <3>2 DEF DragLeave, ZoneStates, ZoneType
    <3>3. CASE TryAgain
      BY <1>0, <3>3 DEF TryAgain, ZoneStates, ZoneType
    <3> QED BY <1>4, <3>1, <3>2, <3>3
  <2> QED BY <1>0, <1>1, <2>1, <2>2
<1>5. ASSUME NEW file \in Files, HandleFile(file) PROVE ZoneInOrder'
  <2> USE <1>5 DEF HandleFile, Picked
  <2> DEFINE z == [zone EXCEPT !.file = file, !.preview = IF file \in Images THEN picks' ELSE 0]
  <2>1. /\ picks' = picks + 1 /\ UNCHANGED <<options, mounted>> /\ mounted
        /\ urls' = (urls \ {urlRef}) \cup (IF file \in Images THEN {picks'} ELSE {})
        /\ urlRef' = IF file \in Images THEN picks' ELSE urlRef
        /\ IF options.autoUpload THEN DoUpload(file, z)
           ELSE zone' = [z EXCEPT !.state = "selected"] /\ UNCHANGED <<upload, cancelledUpload>>
    OBVIOUS
  <2> HIDE <1>5 DEF HandleFile, Picked
  <2>2. /\ z \in ZoneType /\ z.preview = IF file \in Images THEN picks' ELSE 0
        /\ [z EXCEPT !.state = "selected"] \in ZoneType
        /\ [z EXCEPT !.state = "selected"].preview = z.preview
        /\ [z EXCEPT !.state = "selected"].state = "selected"
    <3> DEFINE p == IF file \in Images THEN picks' ELSE 0
    <3>1. p \in Nat
      BY <1>0, <2>1
    <3>2. z = [zone EXCEPT !.file = file, !.preview = p]
      OBVIOUS
    <3> HIDE DEF p, z
    <3>3. z \in ZoneType /\ z.preview = p
      BY <1>0, <3>1, <3>2 DEF ZoneType
    <3>4. /\ [z EXCEPT !.state = "selected"] \in ZoneType
          /\ [z EXCEPT !.state = "selected"].preview = z.preview
          /\ [z EXCEPT !.state = "selected"].state = "selected"
      BY <3>3 DEF ZoneStates, ZoneType
    <3> QED BY <3>3, <3>4 DEF p
  <2> HIDE DEF z
  <2>3. /\ zone' \in ZoneType /\ zone'.preview = z.preview
        /\ upload' \in [Uploading -> UploadType]
        /\ (zone'.state = "uploading" =>
              ~cancelledUpload' /\ \E u \in Uploading : upload'[u].at = "sent")
    <3>1. CASE options.autoUpload
      BY <1>0, <2>1, <2>2, <3>1, UploadBegins
    <3>2. CASE ~options.autoUpload
      BY <1>0, <2>1, <2>2, <3>2
    <3> QED BY <3>1, <3>2
  <2>4. urls' \subseteq {urlRef'} /\ (zone'.preview # 0 => zone'.preview \in urls')
    BY <1>0, <2>1, <2>2, <2>3
  <2> QED BY <1>0, <2>1, <2>3, <2>4
<1>6. CASE UploadToIPFS
  <2>1. /\ DoUpload(zone.file, zone) /\ zone.file \in Files /\ mounted
        /\ UNCHANGED <<urls, urlRef, picks, options, mounted>>
    BY <1>0, <1>6 DEF UploadToIPFS, ZoneStates, ZoneType
  <2> QED BY <1>0, <2>1, UploadBegins
<1>7. CASE HandleReset \/ LeaveZone
  <2>1. /\ zone' = EmptyZone /\ urls' = {} /\ UNCHANGED <<upload, picks, options>>
    BY <1>0, <1>7 DEF HandleReset, LeaveZone
  <2> QED BY <1>0, <1>a, <2>1
<1>8. ASSUME NEW u \in Uploading, UploadAnswers(u) \/ UploadFails(u) PROVE ZoneInOrder'
  <2> DEFINE answered == [zone EXCEPT !.cid = CidOf(upload[u].file), !.state = "done"]
             failed == [zone EXCEPT !.state = "error"]
  <2>1. PICK z \in {answered, failed} : UploadEnds(u, z)
    BY <1>8 DEF UploadAnswers, UploadFails
  <2>2. /\ z \in ZoneType /\ z.preview = zone.preview /\ z.state # "uploading"
    <3>1. upload[u].file \in {0} \cup Files
      BY <1>0 DEF UploadType
    <3>2. answered \in ZoneType /\ answered.preview = zone.preview /\ answered.state # "uploading"
      BY <1>0, <3>1 DEF ZoneStates, ZoneType, CidOf
    <3>3. failed \in ZoneType /\ failed.preview = zone.preview /\ failed.state # "uploading"
      BY <1>0 DEF ZoneStates, ZoneType
    <3> HIDE DEF answered, failed
    <3> QED BY <3>2, <3>3
  <2> HIDE DEF answered, failed
  <2>3. /\ upload' = [upload EXCEPT ![u].at = "done"]
        /\ zone' = IF cancelledUpload \/ ~mounted THEN zone ELSE z
        /\ UNCHANGED <<cancelledUpload, urls, urlRef, picks, options, mounted>>
    BY <2>1 DEF UploadEnds
  <2>4. upload' \in [Uploading -> UploadType]
    BY <1>0, <2>3 DEF UploadType
  <2>5. zone' \in ZoneType /\ zone'.preview = zone.preview
    BY <1>0, <2>2, <2>3
  <2>6. zone'.state # "uploading"
    <3>1. CASE cancelledUpload
      BY <1>0, <2>3, <3>1
    <3>2. CASE ~mounted
      BY <1>0, <1>a, <2>3, <3>2
    <3>3. CASE ~cancelledUpload /\ mounted
      BY <2>2, <2>3, <3>3
    <3> QED BY <3>1, <3>2, <3>3
  <2> QED BY <1>0, <2>2, <2>3, <2>4, <2>5, <2>6
<1>9. CASE UNCHANGED zoneVars
  BY <1>9 DEF zoneVars
<1> QED BY <1>2, <1>3, <1>4, <1>5, <1>6, <1>7, <1>8, <1>9 DEF ZoneNext

-----------------------------------------------------------------------------
(* The viewers *)

Known == {0} \cup DOMAIN Content
GatewaySet == ToSet(Gateways)
ViewerType == [cid : Known, shown : Known, loading : BOOLEAN, failed : BOOLEAN]
FetchStates == {"idle", "asking", "reading", "done", "refused", "broken"}
DownloadType == [at : FetchStates, viewer : {0} \cup Viewer, cid : Known,
                 left : Seq(GatewaySet), asked : Seq(GatewaySet)]

ViewTypeOK ==
    /\ viewer \in [Viewer -> ViewerType] /\ cancelledView \in [Viewer -> BOOLEAN]
    /\ DOMAIN cache \subseteq DOMAIN Content
    /\ download \in [Download -> DownloadType]
    /\ fastest \in {0} \cup GatewaySet
\* A fetch has an asked and a coming part of all gateways.
FetchInOrder(f) ==
    /\ f.viewer \in Viewer /\ f.cid \in DOMAIN Content
    /\ Len(f.asked) + Len(f.left) = Len(Gateways)
    /\ ToSet(f.asked) \cup ToSet(f.left) = GatewaySet
    /\ f.at = "refused" => f.left = <<>>
FetchesInOrder == \A d \in Download : download[d].at # "idle" => FetchInOrder(download[d])
\* A hook that is loading waits for a fetch of its own.
LoadingEnds ==
    \A v \in Viewer : viewer[v].cid # 0 /\ viewer[v].loading =>
        /\ ~cancelledView[v]
        /\ \E d \in Download : download[d].viewer = v /\ download[d].at \in {"asking", "reading"}
ViewsInOrder == ViewTypeOK /\ FetchesInOrder /\ CacheIsOwn /\ LoadingEnds

\* The gateways are listed.
LEMMA GatewayList ==
  /\ Gateways \in Seq(GatewaySet) /\ Len(Gateways) \in Nat /\ DOMAIN Gateways = 1..Len(Gateways)
  /\ GatewaySet \subseteq Nat \ {0}
<1>1. Gateways \in Seq(Nat \ {0}) /\ Len(Gateways) \in Nat /\ DOMAIN Gateways = 1..Len(Gateways)
  BY ProofFilesAssumption, LenProperties
<1>2. GatewaySet \subseteq Nat \ {0}
  BY <1>1, ElementOfSeq DEF GatewaySet, ToSet
<1>3. \A i \in 1..Len(Gateways) : Gateways[i] \in GatewaySet
  BY <1>1 DEF GatewaySet, ToSet
<1>4. Gateways = [i \in 1..Len(Gateways) |-> Gateways[i]]
  BY <1>1
<1>5. Gateways \in Seq(GatewaySet)
  BY <1>1, <1>3, <1>4
<1> QED BY <1>1, <1>2, <1>5

\* The fastest first, and then the others: every gateway once.
LEMMA EveryGatewayIsInLine ==
  ASSUME fastest \in {0} \cup GatewaySet
  PROVE  /\ OrderedGateways \in Seq(GatewaySet) /\ Len(OrderedGateways) = Len(Gateways)
         /\ ToSet(OrderedGateways) = GatewaySet
<1>1. CASE ~(fastest # 0 /\ fastest # Gateways[1])
  BY <1>1, GatewayList DEF OrderedGateways, GatewaySet
<1>2. CASE fastest # 0 /\ fastest # Gateways[1]
  <2> DEFINE rest == RemoveFirst(Gateways, fastest)
  <2>1. fastest \in GatewaySet
    BY <1>2
  <2>2. PICK n \in 1..Len(Gateways) : Gateways[n] = fastest
    BY <2>1, GatewayList DEF GatewaySet, ToSet
  <2>3. PICK k \in 1..Len(Gateways) : Gateways[k] = fastest /\ rest = RemoveAt(Gateways, k)
    BY <2>2, GatewayList, FirstOf
  <2>4. /\ rest \in Seq(GatewaySet) /\ Len(rest) = Len(Gateways) - 1
        /\ \A i \in 1..(Len(Gateways) - 1) :
              rest[i] = IF i < k THEN Gateways[i] ELSE Gateways[i + 1]
    BY <2>3, GatewayList, Removed
  <2> HIDE DEF rest
  <2>5. OrderedGateways = <<fastest>> \o rest
    BY <1>2 DEF OrderedGateways, rest
  <2>6. /\ OrderedGateways \in Seq(GatewaySet) /\ Len(OrderedGateways) = Len(Gateways)
        /\ OrderedGateways[1] = fastest
        /\ \A i \in 2..Len(Gateways) : OrderedGateways[i] = rest[i - 1]
    <3>1. <<fastest>> \in Seq(GatewaySet) /\ Len(<<fastest>>) = 1 /\ <<fastest>>[1] = fastest
      BY <2>1
    <3>2. /\ OrderedGateways \in Seq(GatewaySet) /\ Len(OrderedGateways) = 1 + Len(rest)
          /\ \A i \in 1..(1 + Len(rest)) : OrderedGateways[i] = IF i <= 1 THEN <<fastest>>[i] ELSE rest[i - 1]
      BY <2>4, <2>5, <3>1, ConcatProperties
    <3> QED BY <2>2, <2>4, <3>1, <3>2, GatewayList
  <2>7. DOMAIN OrderedGateways = 1..Len(Gateways)
    BY <2>6, LenProperties
  <2>8. ASSUME NEW g \in GatewaySet PROVE \E i \in 1..Len(Gateways) : OrderedGateways[i] = g
    <3>1. PICK i \in 1..Len(Gateways) : Gateways[i] = g
      BY GatewayList DEF GatewaySet, ToSet
    <3>2. CASE i = k
      BY <2>2, <2>3, <2>6, <3>1, <3>2, GatewayList
    <3>3. CASE i < k
      <4>1. i + 1 \in 2..Len(Gateways) /\ i \in 1..(Len(Gateways) - 1) /\ i + 1 \in 1..Len(Gateways)
        BY <3>3, GatewayList
      <4> QED BY <2>4, <2>6, <3>1, <3>3, <4>1
    <3>4. CASE i > k
      <4>1. i \in 2..Len(Gateways) /\ i - 1 \in 1..(Len(Gateways) - 1) /\ ~(i - 1 < k) /\ (i - 1) + 1 = i
        BY <3>4, GatewayList
      <4> QED BY <2>4, <2>6, <3>1, <4>1
    <3> QED BY <3>2, <3>3, <3>4, GatewayList
  <2>9. \A i \in 1..Len(Gateways) : OrderedGateways[i] \in GatewaySet
    BY <2>6, ElementOfSeq
  <2> QED BY <2>6, <2>7, <2>8, <2>9 DEF ToSet
<1> QED BY <1>1, <1>2

\* What is shown of a content is shown one way.
LEMMA OneRendering ==
  ASSUME NEW c \in DOMAIN Content PROVE Cardinality(ShownProof(c)) = 1
<1>1. \E r : ShownProof(c) = {r}
  <2> DEFINE type == Content[c].type
  <2>0. Content[c].marked \in BOOLEAN
    BY ProofFilesAssumption
  <2> USE DEF ShownProof, Renderings, TextIsMarked, Textual
  <2>1. CASE type = "markdown"
    <3>1. Renderings(c) = {"markdown"}
      BY <2>1
    <3> QED BY <3>1
  <2>2. CASE type = "plain" /\ Content[c].marked
    <3>1. Renderings(c) = {"markdown"}
      BY <2>2
    <3> QED BY <3>1
  <2>3. CASE type = "plain" /\ ~Content[c].marked
    <3>1. Renderings(c) = {"plain"}
      BY <2>3
    <3> QED BY <3>1
  <2>4. CASE type = "json" /\ Content[c].marked
    <3>1. Renderings(c) = {"markdown"}
      BY <2>4
    <3> QED BY <3>1
  <2>5. CASE type = "json" /\ ~Content[c].marked
    <3>1. Renderings(c) = {}
      BY <2>5
    <3> QED BY <3>1
  <2>6. CASE type \in {"image", "pdf"}
    <3>1. Renderings(c) = {type}
      BY <2>6
    <3> QED BY <3>1
  <2>7. CASE type \notin {"markdown", "plain", "json", "image", "pdf"}
    <3>1. Renderings(c) = {}
      BY <2>7
    <3> QED BY <3>1
  <2> QED BY <2>0, <2>1, <2>2, <2>3, <2>4, <2>5, <2>6, <2>7
<1> QED BY <1>1, FS_Singleton

\* The viewers as they are mounted.
LEMMA ViewInitially == ViewInit => ViewsInOrder
<1> SUFFICES ASSUME ViewInit PROVE ViewsInOrder
  OBVIOUS
<1> USE DEF ViewInit
<1>1. viewer \in [Viewer -> ViewerType] /\ \A v \in Viewer : viewer[v].cid = 0
  BY DEF ViewerType, Known
<1>2. <<>> \in Seq(GatewaySet)
  OBVIOUS
<1>3. download \in [Download -> DownloadType] /\ \A d \in Download : download[d].at = "idle"
  BY <1>2 DEF DownloadType, FetchStates, Known
<1>4. DOMAIN cache = {} /\ cancelledView \in [Viewer -> BOOLEAN] /\ fastest = 0
  OBVIOUS
<1> QED BY <1>1, <1>3, <1>4 DEF ViewsInOrder, ViewTypeOK, FetchesInOrder, CacheIsOwn, LoadingEnds

\* A hook looks at another CID, or again at its own.
LEMMA Looked ==
  ASSUME ViewsInOrder, NEW v \in Viewer, NEW c \in Known, Look(v, c),
         UNCHANGED <<cache, fastest>>
  PROVE  ViewsInOrder'
<1>0. /\ viewer \in [Viewer -> ViewerType] /\ cancelledView \in [Viewer -> BOOLEAN]
      /\ DOMAIN cache \subseteq DOMAIN Content
      /\ download \in [Download -> DownloadType] /\ fastest \in {0} \cup GatewaySet
      /\ FetchesInOrder /\ CacheIsOwn /\ LoadingEnds
  BY DEF ViewsInOrder, ViewTypeOK
<1>1. ASSUME NEW x, viewer' = [viewer EXCEPT ![v] = x], x \in ViewerType,
             x.cid = 0 \/ ~x.loading,
             cancelledView' = [cancelledView EXCEPT ![v] = TRUE], UNCHANGED download
      PROVE  ViewsInOrder'
  <2>1. ViewTypeOK'
    BY <1>0, <1>1 DEF ViewTypeOK
  <2>2. FetchesInOrder' /\ CacheIsOwn'
    BY <1>0, <1>1 DEF FetchesInOrder, CacheIsOwn
  <2>3. LoadingEnds'
    <3> SUFFICES ASSUME NEW w \in Viewer, viewer'[w].cid # 0, viewer'[w].loading
                 PROVE  /\ ~cancelledView'[w]
                        /\ \E d \in Download : download'[d].viewer = w
                                               /\ download'[d].at \in {"asking", "reading"}
      BY DEF LoadingEnds
    <3>1. w # v
      BY <1>0, <1>1
    <3>2. viewer'[w] = viewer[w] /\ cancelledView'[w] = cancelledView[w]
      BY <1>0, <1>1, <3>1
    <3> QED BY <1>0, <1>1, <3>2 DEF LoadingEnds
  <2> QED BY <2>1, <2>2, <2>3 DEF ViewsInOrder
<1>2. CASE c = 0
  <2> DEFINE x == [viewer[v] EXCEPT !.cid = 0]
  <2>1. x \in ViewerType /\ x.cid = 0
    BY <1>0 DEF ViewerType, Known
  <2>2. /\ viewer' = [viewer EXCEPT ![v] = x]
        /\ cancelledView' = [cancelledView EXCEPT ![v] = TRUE] /\ UNCHANGED download
    BY <1>0, <1>2 DEF Look
  <2> HIDE DEF x
  <2> QED BY <1>1, <2>1, <2>2
<1>3. CASE c # 0 /\ c \in DOMAIN cache
  <2> DEFINE x == [cid |-> c, shown |-> cache[c], loading |-> FALSE, failed |-> FALSE]
  <2>1. x \in ViewerType /\ ~x.loading
    BY <1>0, <1>3 DEF ViewerType, Known, CacheIsOwn
  <2>2. /\ viewer' = [viewer EXCEPT ![v] = x]
        /\ cancelledView' = [cancelledView EXCEPT ![v] = TRUE] /\ UNCHANGED download
    BY <1>3 DEF Look
  <2> HIDE DEF x
  <2> QED BY <1>1, <2>1, <2>2
<1>4. CASE c # 0 /\ c \notin DOMAIN cache
  <2> DEFINE x == [cid |-> c, shown |-> 0, loading |-> TRUE, failed |-> FALSE]
             f == [at |-> "asking", viewer |-> v, cid |-> c, left |-> OrderedGateways, asked |-> <<>>]
  <2>1. PICK d \in Download : download[d].at = "idle" /\ download' = [download EXCEPT ![d] = f]
    BY <1>4 DEF Look
  <2>2. /\ viewer' = [viewer EXCEPT ![v] = x] /\ cancelledView' = [cancelledView EXCEPT ![v] = FALSE]
    BY <1>4 DEF Look
  <2>3. x \in ViewerType
    BY <1>0 DEF ViewerType, Known
  <2>4. /\ OrderedGateways \in Seq(GatewaySet) /\ Len(OrderedGateways) = Len(Gateways)
        /\ ToSet(OrderedGateways) = GatewaySet
    BY <1>0, EveryGatewayIsInLine
  <2>5. <<>> \in Seq(GatewaySet) /\ Len(<<>>) = 0 /\ ToSet(<<>>) = {}
    BY DEF ToSet
  <2>6. f \in DownloadType /\ FetchInOrder(f) /\ f.viewer = v /\ f.at = "asking"
    <3>1. f \in DownloadType /\ f.viewer = v /\ f.at = "asking" /\ f.cid = c
          /\ f.left = OrderedGateways /\ f.asked = <<>>
      BY <1>4, <2>4, <2>5 DEF DownloadType, FetchStates, Known
    <3> HIDE DEF f
    <3>2. c \in DOMAIN Content
      BY <1>4 DEF Known
    <3>3. Len(f.asked) + Len(f.left) = Len(Gateways)
      BY <2>4, <2>5, <3>1, GatewayList
    <3>4. ToSet(f.asked) \cup ToSet(f.left) = GatewaySet
      BY <2>4, <2>5, <3>1
    <3> QED BY <3>1, <3>2, <3>3, <3>4 DEF FetchInOrder
  <2> HIDE DEF x, f
  <2>7. ViewTypeOK'
    BY <1>0, <2>1, <2>2, <2>3, <2>6 DEF ViewTypeOK
  <2>8. FetchesInOrder'
    <3> SUFFICES ASSUME NEW e \in Download, download'[e].at # "idle"
                 PROVE  FetchInOrder(download'[e])
      BY DEF FetchesInOrder
    <3>1. download'[e] = IF e = d THEN f ELSE download[e]
      BY <1>0, <2>1
    <3> QED BY <1>0, <2>6, <3>1 DEF FetchesInOrder
  <2>9. LoadingEnds'
    <3> SUFFICES ASSUME NEW w \in Viewer, viewer'[w].cid # 0, viewer'[w].loading
                 PROVE  /\ ~cancelledView'[w]
                        /\ \E e \in Download : download'[e].viewer = w
                                               /\ download'[e].at \in {"asking", "reading"}
      BY DEF LoadingEnds
    <3>1. CASE w = v
      BY <1>0, <2>1, <2>2, <2>6, <3>1
    <3>2. CASE w # v
      <4>1. viewer'[w] = viewer[w] /\ cancelledView'[w] = cancelledView[w]
        BY <1>0, <2>2, <3>2
      <4>2. PICK e \in Download : download[e].viewer = w /\ download[e].at \in {"asking", "reading"}
        BY <1>0, <4>1 DEF LoadingEnds
      <4>3. download'[e] = download[e]
        BY <1>0, <2>1, <4>2
      <4> QED BY <1>0, <4>1, <4>2, <4>3 DEF LoadingEnds
    <3> QED BY <3>1, <3>2
  <2>10. CacheIsOwn'
    BY <1>0 DEF CacheIsOwn
  <2> QED BY <2>7, <2>8, <2>9, <2>10 DEF ViewsInOrder
<1> QED BY <1>2, <1>3, <1>4

\* A fetch that goes on asking or reading.
LEMMA FetchGoesOn ==
  ASSUME ViewsInOrder, NEW d \in Download, NEW f \in DownloadType,
         download' = [download EXCEPT ![d] = f], FetchInOrder(f),
         f.viewer = download[d].viewer, f.at \in {"asking", "reading"},
         UNCHANGED <<viewer, cancelledView, cache, fastest>>
  PROVE  ViewsInOrder'
<1>0. /\ viewer \in [Viewer -> ViewerType] /\ cancelledView \in [Viewer -> BOOLEAN]
      /\ DOMAIN cache \subseteq DOMAIN Content
      /\ download \in [Download -> DownloadType] /\ fastest \in {0} \cup GatewaySet
      /\ FetchesInOrder /\ CacheIsOwn /\ LoadingEnds
  BY DEF ViewsInOrder, ViewTypeOK
<1>1. \A e \in Download : download'[e] = IF e = d THEN f ELSE download[e]
  BY <1>0
<1>2. ViewTypeOK'
  BY <1>0 DEF ViewTypeOK
<1>3. FetchesInOrder'
  BY <1>0, <1>1 DEF FetchesInOrder
<1>4. LoadingEnds'
  <2> SUFFICES ASSUME NEW w \in Viewer, viewer[w].cid # 0, viewer[w].loading
               PROVE  /\ ~cancelledView[w]
                      /\ \E e \in Download : download'[e].viewer = w
                                             /\ download'[e].at \in {"asking", "reading"}
    BY DEF LoadingEnds
  <2>1. PICK e \in Download : download[e].viewer = w /\ download[e].at \in {"asking", "reading"}
    BY <1>0 DEF LoadingEnds
  <2>2. download'[e].viewer = w /\ download'[e].at \in {"asking", "reading"}
    BY <1>1, <2>1
  <2> QED BY <1>0, <2>2 DEF LoadingEnds
<1>5. CacheIsOwn'
  BY <1>0 DEF CacheIsOwn
<1> QED BY <1>2, <1>3, <1>4, <1>5 DEF ViewsInOrder

\* A fetch that ends: its hook, unless it was cancelled, is loading no more.
LEMMA FetchEnds ==
  ASSUME ViewsInOrder, NEW d \in Download, download[d].at \in {"asking", "reading"},
         NEW at \in {"done", "refused", "broken"}, at = "refused" => download[d].left = <<>>,
         download' = [download EXCEPT ![d].at = at],
         NEW x \in ViewerType, ~x.loading,
         viewer' = IF cancelledView[download[d].viewer] THEN viewer
                   ELSE [viewer EXCEPT ![download[d].viewer] = x],
         DOMAIN cache' \subseteq DOMAIN Content, CacheIsOwn',
         UNCHANGED <<cancelledView, fastest>>
  PROVE  ViewsInOrder'
<1>0. /\ viewer \in [Viewer -> ViewerType] /\ cancelledView \in [Viewer -> BOOLEAN]
      /\ download \in [Download -> DownloadType] /\ fastest \in {0} \cup GatewaySet
      /\ FetchesInOrder /\ LoadingEnds
  BY DEF ViewsInOrder, ViewTypeOK
<1> DEFINE v == download[d].viewer
           f == [download[d] EXCEPT !.at = at]
<1>1. v \in Viewer /\ FetchInOrder(download[d])
  BY <1>0 DEF FetchesInOrder, FetchInOrder
<1>2. f \in DownloadType /\ FetchInOrder(f)
  <2>1. f \in DownloadType /\ f.viewer = v /\ f.cid = download[d].cid /\ f.left = download[d].left
        /\ f.asked = download[d].asked /\ f.at = at
    BY <1>0 DEF DownloadType, FetchStates
  <2> HIDE DEF f
  <2> QED BY <1>1, <2>1 DEF FetchInOrder
<1>3. download' = [download EXCEPT ![d] = f]
  BY <1>0
<1> HIDE DEF f
<1>4. \A e \in Download : download'[e] = IF e = d THEN f ELSE download[e]
  BY <1>0, <1>3
<1>5. viewer' \in [Viewer -> ViewerType]
      /\ \A w \in Viewer : viewer'[w] = IF w = v /\ ~cancelledView[v] THEN x ELSE viewer[w]
  BY <1>0, <1>1
<1>6. ViewTypeOK'
  BY <1>0, <1>2, <1>3, <1>5 DEF ViewTypeOK
<1>7. FetchesInOrder'
  BY <1>0, <1>2, <1>4 DEF FetchesInOrder
<1>8. LoadingEnds'
  <2> SUFFICES ASSUME NEW w \in Viewer, viewer'[w].cid # 0, viewer'[w].loading
               PROVE  /\ ~cancelledView[w]
                      /\ \E e \in Download : download'[e].viewer = w
                                             /\ download'[e].at \in {"asking", "reading"}
    BY DEF LoadingEnds
  <2>1. viewer'[w] = viewer[w]
    BY <1>5
  <2>2. PICK e \in Download : download[e].viewer = w /\ download[e].at \in {"asking", "reading"}
    BY <1>0, <2>1 DEF LoadingEnds
  <2>3. ~cancelledView[w]
    BY <1>0, <2>1 DEF LoadingEnds
  <2>4. w # v
    BY <1>5, <2>1, <2>3
  <2>5. e # d
    BY <2>2, <2>4
  <2> QED BY <1>4, <2>2, <2>3, <2>5
<1> QED BY <1>6, <1>7, <1>8 DEF ViewsInOrder

\* A sequence has the members of its tail, and its head.
LEMMA HeadAndTail ==
  ASSUME NEW S, NEW s \in Seq(S), s # <<>>
  PROVE  /\ Head(s) \in S /\ Tail(s) \in Seq(S) /\ Len(Tail(s)) = Len(s) - 1
         /\ ToSet(s) = {Head(s)} \cup ToSet(Tail(s))
<1>1. /\ Head(s) \in S /\ Tail(s) \in Seq(S)
      /\ Len(Tail(s)) = Len(s) - 1 /\ Len(s) \in Nat \ {0} /\ Head(s) = s[1]
      /\ \A i \in 1..(Len(s) - 1) : Tail(s)[i] = s[i + 1]
  BY HeadTailProperties, EmptySeq, LenProperties
<1>2. DOMAIN s = 1..Len(s) /\ DOMAIN Tail(s) = 1..(Len(s) - 1)
  BY <1>1, LenProperties
<1>3. ASSUME NEW x \in ToSet(s), x # Head(s) PROVE x \in ToSet(Tail(s))
  <2>1. PICK i \in 1..Len(s) : x = s[i]
    BY <1>2 DEF ToSet
  <2>2. i - 1 \in 1..(Len(s) - 1) /\ (i - 1) + 1 = i
    BY <1>1, <1>3, <2>1
  <2>3. Tail(s)[i - 1] = x
    BY <1>1, <2>1, <2>2
  <2> QED BY <1>2, <2>2, <2>3 DEF ToSet
<1>4. ASSUME NEW x \in ToSet(Tail(s)) PROVE x \in ToSet(s)
  <2>1. PICK i \in 1..(Len(s) - 1) : x = Tail(s)[i]
    BY <1>2 DEF ToSet
  <2>2. i + 1 \in 1..Len(s) /\ s[i + 1] = x
    BY <1>1, <2>1
  <2> QED BY <1>2, <2>2 DEF ToSet
<1>5. Head(s) \in ToSet(s)
  BY <1>1, <1>2 DEF ToSet
<1> QED BY <1>1, <1>3, <1>4, <1>5

\* Looks, answers, refusals, timeouts and cancellations, in any order.
LEMMA ViewStep == ViewsInOrder /\ [ViewNext]_viewVars => ViewsInOrder'
<1> SUFFICES ASSUME ViewsInOrder, [ViewNext]_viewVars PROVE ViewsInOrder'
  OBVIOUS
<1>0. /\ viewer \in [Viewer -> ViewerType] /\ cancelledView \in [Viewer -> BOOLEAN]
      /\ DOMAIN cache \subseteq DOMAIN Content
      /\ download \in [Download -> DownloadType] /\ fastest \in {0} \cup GatewaySet
      /\ FetchesInOrder /\ CacheIsOwn /\ LoadingEnds
  BY DEF ViewsInOrder, ViewTypeOK
<1>1. ASSUME NEW g \in ToSet(Gateways), DetectFastestGateway(g) PROVE ViewsInOrder'
  <2>1. fastest' = g /\ UNCHANGED <<viewer, cancelledView, cache, download>>
    BY <1>1 DEF DetectFastestGateway
  <2> QED BY <1>0, <2>1 DEF ViewsInOrder, ViewTypeOK, FetchesInOrder, CacheIsOwn, LoadingEnds, GatewaySet
<1>2. ASSUME NEW v \in Viewer, Retry(v) \/ \E c \in {0} \cup DOMAIN Content : ChangeCid(v, c)
      PROVE  ViewsInOrder'
  <2>1. PICK c \in Known : Look(v, c) /\ UNCHANGED <<cache, fastest>>
    <3>1. viewer[v].cid \in Known
      BY <1>0 DEF ViewerType
    <3> QED BY <1>2, <3>1 DEF Retry, ChangeCid, Known
  <2> QED BY <2>1, Looked
<1>3. ASSUME NEW d \in Download, AskGateway(d) PROVE ViewsInOrder'
  <2> DEFINE f0 == download[d]
  <2>1. PICK ok \in BOOLEAN :
          download' = [download EXCEPT ![d].asked = Append(@, Head(download[d].left)),
                                       ![d].left = Tail(@), ![d].at = IF ok THEN "reading" ELSE @]
    BY <1>3 DEF AskGateway
  <2>2. /\ f0.at = "asking" /\ f0.left # <<>> /\ UNCHANGED <<viewer, cancelledView, cache, fastest>>
        /\ FetchInOrder(f0) /\ f0 \in DownloadType
    BY <1>0, <1>3 DEF AskGateway, FetchesInOrder
  <2> DEFINE f == [f0 EXCEPT !.asked = Append(f0.asked, Head(f0.left)), !.left = Tail(f0.left),
                             !.at = IF ok THEN "reading" ELSE f0.at]
  <2>3. download' = [download EXCEPT ![d] = f]
    BY <1>0, <2>1
  <2>4. f0.left \in Seq(GatewaySet) /\ f0.asked \in Seq(GatewaySet)
    BY <2>2 DEF DownloadType
  <2>5. /\ Head(f0.left) \in GatewaySet /\ Tail(f0.left) \in Seq(GatewaySet)
        /\ Len(Tail(f0.left)) = Len(f0.left) - 1
        /\ ToSet(f0.left) = {Head(f0.left)} \cup ToSet(Tail(f0.left))
    BY <2>2, <2>4, HeadAndTail
  <2>6. /\ Append(f0.asked, Head(f0.left)) \in Seq(GatewaySet)
        /\ Len(Append(f0.asked, Head(f0.left))) = Len(f0.asked) + 1
        /\ ToSet(Append(f0.asked, Head(f0.left))) = ToSet(f0.asked) \cup {Head(f0.left)}
    <3> DEFINE a == Append(f0.asked, Head(f0.left))
    <3>1. /\ a \in Seq(GatewaySet) /\ Len(a) = Len(f0.asked) + 1 /\ Len(f0.asked) \in Nat
          /\ \A i \in 1..Len(f0.asked) : a[i] = f0.asked[i]
          /\ a[Len(f0.asked) + 1] = Head(f0.left)
      BY <2>4, <2>5, AppendProperties, LenProperties
    <3> HIDE DEF a
    <3>2. DOMAIN a = 1..(Len(f0.asked) + 1) /\ DOMAIN f0.asked = 1..Len(f0.asked)
      BY <2>4, <3>1, LenProperties
    <3>3. 1..(Len(f0.asked) + 1) = (1..Len(f0.asked)) \cup {Len(f0.asked) + 1}
      BY <3>1
    <3>4. ToSet(a) = ToSet(f0.asked) \cup {Head(f0.left)}
      BY <3>1, <3>2, <3>3 DEF ToSet
    <3> QED BY <3>1, <3>4 DEF a
  <2>7. /\ f \in DownloadType /\ f.viewer = f0.viewer /\ f.cid = f0.cid
        /\ f.at \in {"asking", "reading"} /\ f.left = Tail(f0.left)
        /\ f.asked = Append(f0.asked, Head(f0.left))
    BY <2>2, <2>5, <2>6 DEF DownloadType, FetchStates
  <2> HIDE DEF f
  <2>8. FetchInOrder(f)
    <3>1. Len(f0.asked) \in Nat /\ Len(f0.left) \in Nat /\ Len(Gateways) \in Nat
      BY <2>4, LenProperties, GatewayList
    <3>2. Len(f.asked) + Len(f.left) = Len(Gateways)
      <4>1. Len(f0.asked) + Len(f0.left) = Len(Gateways)
        BY <2>2 DEF FetchInOrder
      <4>2. Len(f.asked) = Len(f0.asked) + 1 /\ Len(f.left) = Len(f0.left) - 1
        BY <2>5, <2>6, <2>7
      <4> DEFINE a == Len(f0.asked)
                 l == Len(f0.left)
                 n == Len(Gateways)
      <4>3. a + l = n /\ a \in Nat /\ l \in Nat /\ n \in Nat
        BY <3>1, <4>1
      <4>4. Len(f.asked) = a + 1 /\ Len(f.left) = l - 1
        BY <4>2
      <4> HIDE DEF f0, a, l, n
      <4>5. (a + 1) + (l - 1) = n
        BY <4>3
      <4>6. Len(f.asked) + Len(f.left) = n
        BY <4>4, <4>5
      <4> QED BY <4>6 DEF n
    <3>3. ToSet(f.asked) \cup ToSet(f.left) = GatewaySet
      <4>1. ToSet(f0.asked) \cup ToSet(f0.left) = GatewaySet
        BY <2>2 DEF FetchInOrder
      <4> HIDE DEF f0
      <4> QED BY <2>5, <2>6, <2>7, <4>1
    <3>4. f.viewer \in Viewer /\ f.cid \in DOMAIN Content /\ f.at # "refused"
      BY <2>2, <2>7 DEF FetchInOrder
    <3> QED BY <3>2, <3>3, <3>4 DEF FetchInOrder
  <2> HIDE DEF f0
  <2> QED BY <2>2, <2>3, <2>7, <2>8, FetchGoesOn DEF f0
<1>4. ASSUME NEW d \in Download, ReadContent(d) PROVE ViewsInOrder'
  <2> DEFINE v == download[d].viewer
             c == download[d].cid
             x == [viewer[v] EXCEPT !.shown = c, !.loading = FALSE]
  <2>1. /\ download[d].at = "reading" /\ download' = [download EXCEPT ![d].at = "done"]
        /\ UNCHANGED <<cancelledView, fastest>>
    BY <1>4 DEF ReadContent
  <2>2. FetchInOrder(download[d])
    BY <1>0, <2>1 DEF FetchesInOrder
  <2>3. v \in Viewer /\ c \in DOMAIN Content
    BY <2>2 DEF FetchInOrder
  <2>4. x \in ViewerType /\ ~x.loading
    BY <1>0, <2>3 DEF ViewerType, Known
  <2>5. viewer' = IF cancelledView[v] THEN viewer ELSE [viewer EXCEPT ![v] = x]
    BY <1>0, <1>4, <2>3 DEF ReadContent
  <2>6. DOMAIN cache' \subseteq DOMAIN Content /\ CacheIsOwn'
    <3>1. CASE cancelledView[v]
      BY <1>0, <1>4, <3>1 DEF ReadContent, CacheIsOwn
    <3>2. CASE ~cancelledView[v]
      <4>1. cache' = [k \in DOMAIN cache \cup {c} |-> IF k = c THEN c ELSE cache[k]]
        BY <1>4, <3>2 DEF ReadContent
      <4> HIDE DEF c
      <4> QED BY <1>0, <2>3, <4>1 DEF CacheIsOwn
    <3> QED BY <3>1, <3>2
  <2> HIDE DEF x
  <2> QED BY <2>1, <2>4, <2>5, <2>6, FetchEnds
<1>5. ASSUME NEW d \in Download, DownloadFails(d) PROVE ViewsInOrder'
  <2> DEFINE v == download[d].viewer
             at == IF download[d].at = "asking" THEN "refused" ELSE "broken"
             x == [viewer[v] EXCEPT !.failed = TRUE, !.loading = FALSE]
  <2>1. /\ download[d].at \in {"asking", "reading"} /\ (at = "refused" => download[d].left = <<>>)
        /\ download' = [download EXCEPT ![d].at = at]
        /\ UNCHANGED <<cancelledView, fastest, cache>>
    BY <1>5 DEF DownloadFails
  <2>2. FetchInOrder(download[d])
    BY <1>0, <2>1 DEF FetchesInOrder
  <2>3. v \in Viewer
    BY <2>2 DEF FetchInOrder
  <2>4. x \in ViewerType /\ ~x.loading
    BY <1>0, <2>3 DEF ViewerType
  <2>5. viewer' = IF cancelledView[v] THEN viewer ELSE [viewer EXCEPT ![v] = x]
    BY <1>0, <1>5, <2>3 DEF DownloadFails
  <2>6. CacheIsOwn' /\ at \in {"refused", "broken"}
    BY <1>0, <2>1 DEF CacheIsOwn
  <2> HIDE DEF x, at
  <2> QED BY <1>0, <2>1, <2>4, <2>5, <2>6, FetchEnds
<1>6. CASE UNCHANGED viewVars
  BY <1>6 DEF viewVars, ViewsInOrder, ViewTypeOK, FetchesInOrder, CacheIsOwn, LoadingEnds
<1> QED BY <1>1, <1>2, <1>3, <1>4, <1>5, <1>6 DEF ViewNext

\* What the zone and the viewers show is what was picked and asked for.
LEMMA FilesSound == ZoneInOrder /\ ViewsInOrder => ProofFilesAreSound
<1> SUFFICES ASSUME ZoneInOrder, ViewsInOrder PROVE ProofFilesAreSound
  OBVIOUS
<1>0. /\ viewer \in [Viewer -> ViewerType] /\ download \in [Download -> DownloadType]
      /\ FetchesInOrder /\ CacheIsOwn /\ LoadingEnds
  BY DEF ViewsInOrder, ViewTypeOK
<1>1. SkeletonEnds
  <2>1. \A v \in Viewer : Display(v) = "skeleton" => viewer[v].loading
    BY <1>0 DEF Display, ViewerType
  <2> QED BY <1>0, <2>1 DEF SkeletonEnds, LoadingEnds
<1>2. EveryGatewayIsAsked
  <2> SUFFICES ASSUME NEW d \in Download, download[d].at = "refused"
               PROVE  /\ Len(download[d].asked) = Len(Gateways)
                      /\ ToSet(download[d].asked) = ToSet(Gateways)
    BY DEF EveryGatewayIsAsked
  <2>1. FetchInOrder(download[d]) /\ download[d].left = <<>> /\ download[d].asked \in Seq(GatewaySet)
    BY <1>0 DEF FetchesInOrder, FetchInOrder, DownloadType
  <2>2. Len(<<>>) = 0 /\ ToSet(<<>>) = {} /\ Len(download[d].asked) \in Nat
    BY <2>1, LenProperties DEF ToSet
  <2> DEFINE f == download[d]
  <2>3. Len(f.asked) + Len(f.left) = Len(Gateways) /\ ToSet(f.asked) \cup ToSet(f.left) = GatewaySet
    BY <2>1 DEF FetchInOrder
  <2>4. Len(f.asked) = Len(Gateways)
    BY <2>1, <2>2, <2>3
  <2>5. ToSet(f.asked) = GatewaySet
    BY <2>1, <2>2, <2>3
  <2> QED BY <2>4, <2>5 DEF GatewaySet
<1>3. ShownOneWay
  <2> SUFFICES ASSUME NEW v \in Viewer, Display(v) = "content"
               PROVE  Cardinality(ShownProof(viewer[v].shown)) = 1
    BY DEF ShownOneWay
  <2>1. viewer[v].shown # 0 /\ viewer[v].shown \in Known
    BY <1>0 DEF Display, ViewerType
  <2> QED BY <2>1, OneRendering DEF Known
<1> QED BY <1>0, <1>1, <1>2, <1>3 DEF ZoneInOrder, ProofFilesAreSound

-----------------------------------------------------------------------------
(* Notifications and toasts.                                               *)

\* The least and the greatest of two.
LEMMA MinOfTwo ==
  ASSUME NEW a \in Nat, NEW b \in Nat
  PROVE  Min({a, b}) = IF a <= b THEN a ELSE b
<1>1. CASE a <= b
  BY <1>1 DEF Min
<1>2. CASE ~(a <= b)
  BY <1>2 DEF Min
<1> QED BY <1>1, <1>2

-----------------------------------------------------------------------------
(* The list *)

Item == [id : Nat, read : BOOLEAN]
NoticeType == [id : Nat, actors : SUBSET Holder]
BellType == [pulse : BOOLEAN, start : BOOLEAN, stop : BOOLEAN, seen : Nat, drawer : BOOLEAN]

\* Each notification once, of those there have been.
OnceEach(list, n) ==
    /\ list \in Seq(Item)
    /\ \A i \in 1..Len(list) : list[i].id <= n
    /\ \A i, j \in 1..Len(list) : list[i].id = list[j].id => i = j
\* A list that may be shown and stored.
ListOf(list, n) == OnceEach(list, n) /\ Len(list) <= MaxKept

NoticesTypeOK ==
    /\ latest \in NoticeType /\ soon \in NoticeType /\ rendered \in BOOLEAN
    /\ bell \in BellType /\ sentEvents \in Nat
    /\ toasts \in Seq(Nat) /\ leaving \subseteq Nat

\* The list is the stored one, and the bell has counted it.
ListInOrder ==
    /\ ListOf(inbox, sentEvents) /\ ListOf(saved, sentEvents)
    /\ holder # NoHolder => inbox = saved
    /\ bell.seen = Unread(inbox)
\* A toast is on the screen once, and the next notification is not.
ToastsInOrder ==
    /\ Len(toasts) <= MaxToasts /\ ToSet(toasts) \subseteq leaving
    /\ \A i, j \in 1..Len(toasts) : toasts[i] = toasts[j] => i = j
    /\ \A i \in 1..Len(toasts) : toasts[i] <= sentEvents
    /\ ~rendered => \A i \in 1..Len(toasts) : toasts[i] # latest.id
    /\ latest.id <= sentEvents /\ soon.id <= sentEvents
NoticesInOrder == NoticesTypeOK /\ ListInOrder /\ ToastsInOrder

\* Unread notifications can be counted.
LEMMA UnreadType == ASSUME NEW list \in Seq(Item) PROVE Unread(list) \in Nat
<1>1. DOMAIN list = 1..Len(list) /\ Len(list) \in Nat
  BY LenProperties
<1>2. IsFiniteSet(1..Len(list))
  BY <1>1, FS_Interval
<1> DEFINE U == {i \in DOMAIN list : ~list[i].read}
<1>3. U \in SUBSET (1..Len(list))
  BY <1>1
<1> HIDE DEF U
<1>4. IsFiniteSet(U)
  BY <1>2, <1>3, FS_Subset
<1>5. Cardinality(U) \in Nat
  BY <1>4, FS_CardinalityType
<1> QED BY <1>5 DEF Unread, U

\* The bell has seen the list that is shown.
LEMMA BellRings ==
  ASSUME bell \in BellType, NEW list \in Seq(Item), Ring(list)
  PROVE  bell' \in BellType /\ bell'.seen = Unread(list)
<1> DEFINE more == Unread(list) > bell.seen
<1>1. Unread(list) \in Nat
  BY UnreadType
<1>2. CASE Unread(list) = bell.seen
  BY <1>2 DEF Ring
<1>3. CASE Unread(list) # bell.seen
  <2>1. bell' = [bell EXCEPT !.start = more, !.stop = more, !.seen = Unread(list)]
    BY <1>3 DEF Ring
  <2>2. more \in BOOLEAN
    OBVIOUS
  <2> HIDE DEF more
  <2> QED BY <1>1, <2>1, <2>2 DEF BellType
<1> QED BY <1>2, <1>3

\* What is cut off at MAX_NOTIFICATIONS is a list, and is stored for a wallet.
LEMMA ListUpdated ==
  ASSUME bell \in BellType, NEW n \in Nat, NEW next, OnceEach(next, n), ListOf(saved, n),
         UpdateList(next)
  PROVE  /\ ListOf(inbox', n) /\ ListOf(saved', n) /\ (holder # NoHolder => inbox' = saved')
         /\ bell' \in BellType /\ bell'.seen = Unread(inbox')
<1> DEFINE m == IF MaxKept <= Len(next) THEN MaxKept ELSE Len(next)
           list == SubSeq(next, 1, m)
<1>1. next \in Seq(Item) /\ Len(next) \in Nat /\ MaxKept \in Nat
  BY LenProperties, NoticesAssumption DEF OnceEach
<1>2. m \in Nat /\ m <= MaxKept /\ m <= Len(next) /\ Min({MaxKept, Len(next)}) = m
  BY <1>1, MinOfTwo
<1> HIDE DEF m
<1>3. \A i \in 1..m : next[i] \in Item
  BY <1>1, <1>2, ElementOfSeq
<1>4. list \in Seq(Item) /\ Len(list) = m /\ \A i \in 1..m : list[i] = next[i]
  BY <1>2, <1>3, SubSeqProperties
<1>5. inbox' = list /\ saved' = (IF holder # NoHolder THEN list ELSE saved) /\ Ring(list)
  BY <1>2 DEF UpdateList
<1> HIDE DEF list
<1>6. ListOf(list, n)
  <2>1. \A i \in 1..m : i \in 1..Len(next)
    BY <1>1, <1>2
  <2>2. \A i \in 1..Len(list) : list[i].id <= n
    BY <1>4, <2>1 DEF OnceEach
  <2>3. \A i, j \in 1..Len(list) : list[i].id = list[j].id => i = j
    BY <1>4, <2>1 DEF OnceEach
  <2> QED BY <1>2, <1>4, <2>2, <2>3 DEF ListOf, OnceEach
<1> QED BY <1>4, <1>5, <1>6, BellRings

\* A list with a new notification first.
LEMMA ListedNew ==
  ASSUME NEW n \in Nat, NEW list, OnceEach(list, n), NEW e \in Nat, e <= n,
         \A i \in 1..Len(list) : list[i].id # e
  PROVE  OnceEach(<<[id |-> e, read |-> FALSE]>> \o list, n)
<1> DEFINE one == <<[id |-> e, read |-> FALSE]>>
           both == one \o list
<1>1. list \in Seq(Item) /\ Len(list) \in Nat
  BY LenProperties DEF OnceEach
<1>2. one \in Seq(Item) /\ Len(one) = 1 /\ one[1].id = e
  BY DEF Item
<1> HIDE DEF one
<1>a. /\ both \in Seq(Item) /\ Len(both) = Len(one) + Len(list)
      /\ \A i \in 1..(Len(one) + Len(list)) :
            both[i] = IF i <= Len(one) THEN one[i] ELSE list[i - Len(one)]
  BY <1>1, <1>2, ConcatProperties
<1>3. /\ both \in Seq(Item) /\ Len(both) = 1 + Len(list)
      /\ \A i \in 1..(1 + Len(list)) : both[i] = IF i <= 1 THEN one[i] ELSE list[i - 1]
  BY <1>a, <1>2
<1> HIDE DEF both
<1>4. /\ 1 \in 1..Len(both) /\ both[1].id = e
      /\ \A i \in 2..Len(both) : i - 1 \in 1..Len(list) /\ both[i].id = list[i - 1].id
  BY <1>1, <1>2, <1>3
<1>5. \A i \in 1..Len(both) : both[i].id <= n
  <2> SUFFICES ASSUME NEW i \in 1..Len(both) PROVE both[i].id <= n
    OBVIOUS
  <2>1. CASE i = 1
    BY <1>4, <2>1
  <2>2. CASE i \in 2..Len(both)
    BY <1>4, <2>2 DEF OnceEach
  <2> QED BY <1>1, <1>3, <2>1, <2>2
<1>6. \A i, j \in 1..Len(both) : both[i].id = both[j].id => i = j
  <2> SUFFICES ASSUME NEW i \in 1..Len(both), NEW j \in 1..Len(both), both[i].id = both[j].id
               PROVE  i = j
    OBVIOUS
  <2>1. CASE i = 1 /\ j = 1
    BY <2>1
  <2>2. CASE i = 1 /\ j \in 2..Len(both)
    BY <1>4, <2>2
  <2>3. CASE i \in 2..Len(both) /\ j = 1
    BY <1>4, <2>3
  <2>4. CASE i \in 2..Len(both) /\ j \in 2..Len(both)
    <3>1. i - 1 = j - 1
      BY <1>4, <2>4 DEF OnceEach
    <3> QED BY <3>1, <2>4
  <2> QED BY <1>1, <1>3, <2>1, <2>2, <2>3, <2>4
<1> QED BY <1>3, <1>5, <1>6 DEF OnceEach, both, one

\* A list whose notification moves to its front.
LEMMA ListedAgain ==
  ASSUME NEW n \in Nat, OnceEach(inbox, n), NEW e \in Nat, e <= n
  PROVE  OnceEach(ListedFirst(e), n)
<1> DEFINE rest == Others(inbox, e)
<1>1. inbox \in Seq(Item) /\ Len(inbox) \in Nat
  BY LenProperties DEF OnceEach
<1>2. OnceEach(rest, n) /\ \A i \in 1..Len(rest) : rest[i].id # e
  <2>1. CASE rest = inbox /\ \A i \in 1..Len(inbox) : inbox[i].id # e
    BY <2>1
  <2>2. ASSUME NEW k \in 1..Len(inbox), inbox[k].id = e, rest = RemoveAt(inbox, k)
        PROVE  OnceEach(rest, n) /\ \A i \in 1..Len(rest) : rest[i].id # e
    <3>1. rest \in Seq(Item) /\ Len(rest) = Len(inbox) - 1
      BY <1>1, <2>2, Removed
    <3>2. PICK at \in [1..(Len(inbox) - 1) -> (1..Len(inbox)) \ {k}] :
             /\ \A i \in 1..(Len(inbox) - 1) : rest[i] = inbox[at[i]]
             /\ \A i, j \in 1..(Len(inbox) - 1) : at[i] = at[j] => i = j
      BY <1>1, <2>2, RemovedPlaces
    <3> HIDE DEF rest
    <3>3. \A i \in 1..Len(rest) :
             /\ at[i] \in 1..Len(inbox) /\ at[i] # k /\ rest[i] = inbox[at[i]]
             /\ \A j \in 1..Len(rest) : at[i] = at[j] => i = j
      BY <3>1, <3>2
    <3>a. \A i, j \in 1..Len(inbox) : inbox[i].id = inbox[j].id => i = j
      BY DEF OnceEach
    <3>b. \A i \in 1..Len(inbox) : inbox[i].id <= n
      BY DEF OnceEach
    <3>4. \A i \in 1..Len(rest) : rest[i].id <= n /\ rest[i].id # e
      <4> SUFFICES ASSUME NEW i \in 1..Len(rest) PROVE rest[i].id <= n /\ rest[i].id # e
        OBVIOUS
      <4>1. at[i] \in 1..Len(inbox) /\ at[i] # k /\ rest[i] = inbox[at[i]]
        BY <3>3
      <4>2. inbox[at[i]].id <= n /\ inbox[at[i]].id # inbox[k].id
        BY <4>1, <3>a, <3>b
      <4> QED BY <2>2, <4>1, <4>2
    <3>5. \A i, j \in 1..Len(rest) : rest[i].id = rest[j].id => i = j
      <4> SUFFICES ASSUME NEW i \in 1..Len(rest), NEW j \in 1..Len(rest),
                          rest[i].id = rest[j].id
                   PROVE  i = j
        OBVIOUS
      <4>1. /\ at[i] \in 1..Len(inbox) /\ rest[i] = inbox[at[i]]
            /\ at[j] \in 1..Len(inbox) /\ rest[j] = inbox[at[j]]
        BY <3>3
      <4>2. at[i] = at[j]
        BY <4>1, <3>a
      <4> QED BY <3>3, <4>2
    <3> QED BY <3>1, <3>4, <3>5 DEF OnceEach
  <2>3. \/ rest = inbox /\ \A i \in 1..Len(inbox) : inbox[i].id # e
        \/ \E k \in 1..Len(inbox) : inbox[k].id = e /\ rest = RemoveAt(inbox, k)
    BY <1>1, FirstMatch
  <2> HIDE DEF rest
  <2> QED BY <2>1, <2>2, <2>3
<1> QED BY <1>2, ListedNew DEF ListedFirst, Others

-----------------------------------------------------------------------------
(* Toasts *)

\* Each toast once, of those there have been, and each with its timer.
ToastsOf(list, timed, n) ==
    /\ list \in Seq(Nat) /\ timed \subseteq Nat
    /\ Len(list) <= MaxToasts /\ ToSet(list) \subseteq timed
    /\ \A i, j \in 1..Len(list) : list[i] = list[j] => i = j
    /\ \A i \in 1..Len(list) : list[i] <= n

\* A toast more, and the oldest gone when there is no room.
LEMMA ToastAdded ==
  ASSUME NEW n \in Nat, ToastsOf(toasts, leaving, n), NEW e \in Nat, e <= n,
         \A i \in 1..Len(toasts) : toasts[i] # e, AddToast(e)
  PROVE  /\ ToastsOf(toasts', leaving', n)
         /\ \A i \in 1..Len(toasts') : toasts'[i] \in ToSet(toasts) \cup {e}
<1> DEFINE next == Append(toasts, e)
           from == IF Len(next) > MaxToasts THEN Len(next) - MaxToasts + 1 ELSE 1
<1>1. toasts \in Seq(Nat) /\ Len(toasts) \in Nat /\ MaxToasts \in Nat \ {0}
  BY LenProperties, NoticesAssumption DEF ToastsOf
<1>2. /\ next \in Seq(Nat) /\ Len(next) = Len(toasts) + 1 /\ next[Len(toasts) + 1] = e
      /\ \A i \in 1..Len(toasts) : next[i] = toasts[i]
  BY <1>1
<1>3. toasts' = SubSeq(next, from, Len(next)) /\ leaving' = leaving \cup {e}
  BY DEF AddToast
<1> HIDE DEF next
<1>4. from \in 1..Len(next) /\ Len(next) - from + 1 <= MaxToasts
  BY <1>1, <1>2
<1> HIDE DEF from
<1>5. \A i \in from..Len(next) : next[i] \in Nat
  BY <1>1, <1>2, <1>4, ElementOfSeq
<1>6. /\ toasts' \in Seq(Nat) /\ Len(toasts') = Len(next) - from + 1
      /\ \A i \in 1..(Len(next) - from + 1) : toasts'[i] = next[from + i - 1]
  <2>1. from \in Int /\ Len(next) \in Int /\ from <= Len(next)
    BY <1>1, <1>2, <1>4
  <2>2. /\ SubSeq(next, from, Len(next)) \in Seq(Nat)
        /\ Len(SubSeq(next, from, Len(next)))
             = IF from <= Len(next) THEN Len(next) - from + 1 ELSE 0
        /\ \A i \in 1..(Len(next) - from + 1) :
              SubSeq(next, from, Len(next))[i] = next[from + i - 1]
    BY <1>5, <2>1, SubSeqProperties
  <2> QED BY <1>3, <2>1, <2>2
<1> DEFINE at(i) == from + i - 1
<1>7. \A i \in 1..Len(toasts') : at(i) \in 1..Len(next) /\ toasts'[i] = next[at(i)]
  BY <1>1, <1>2, <1>4, <1>6
<1>8. \A i, j \in 1..Len(toasts') : at(i) = at(j) => i = j
  BY <1>1, <1>2, <1>4, <1>6
<1> HIDE DEF at
<1>9. \A i, j \in 1..Len(next) : next[i] = next[j] => i = j
  <2> SUFFICES ASSUME NEW i \in 1..Len(next), NEW j \in 1..Len(next), next[i] = next[j]
               PROVE  i = j
    OBVIOUS
  <2>1. CASE i \in 1..Len(toasts) /\ j \in 1..Len(toasts)
    BY <1>2, <2>1 DEF ToastsOf
  <2>2. CASE i = Len(toasts) + 1 /\ j \in 1..Len(toasts)
    BY <1>2, <2>2
  <2>3. CASE i \in 1..Len(toasts) /\ j = Len(toasts) + 1
    BY <1>2, <2>3
  <2> QED BY <1>1, <1>2, <2>1, <2>2, <2>3
<1>10. \A i \in 1..Len(next) : next[i] \in ToSet(toasts) \cup {e} /\ next[i] <= n
  <2> SUFFICES ASSUME NEW i \in 1..Len(next) PROVE next[i] \in ToSet(toasts) \cup {e} /\ next[i] <= n
    OBVIOUS
  <2>1. CASE i \in 1..Len(toasts)
    <3>1. i \in DOMAIN toasts
      BY <1>1, <2>1, LenProperties
    <3> QED BY <1>2, <2>1, <3>1 DEF ToastsOf, ToSet
  <2>2. CASE i = Len(toasts) + 1
    BY <1>2, <2>2
  <2> QED BY <1>1, <1>2, <2>1, <2>2
<1>11. \A i \in 1..Len(toasts') : toasts'[i] \in ToSet(toasts) \cup {e} /\ toasts'[i] <= n
  BY <1>7, <1>10
<1>12. \A i, j \in 1..Len(toasts') : toasts'[i] = toasts'[j] => i = j
  BY <1>7, <1>8, <1>9
<1>13. ToSet(toasts') \subseteq leaving'
  <2>1. DOMAIN toasts' = 1..Len(toasts')
    BY <1>6, LenProperties
  <2>2. ToSet(toasts) \subseteq leaving
    BY DEF ToastsOf
  <2> QED BY <1>3, <1>11, <2>1, <2>2 DEF ToSet
<1>14. Len(toasts') <= MaxToasts /\ leaving' \subseteq Nat
  BY <1>3, <1>4, <1>6 DEF ToastsOf
<1> QED BY <1>6, <1>11, <1>12, <1>13, <1>14 DEF ToastsOf

\* A toast less.
LEMMA ToastRemoved ==
  ASSUME NEW n \in Nat, ToastsOf(toasts, leaving, n), NEW e \in Nat,
         toasts' = RemoveFirst(toasts, e), leaving' = leaving \ {e}
  PROVE  /\ ToastsOf(toasts', leaving', n)
         /\ \A i \in 1..Len(toasts') : toasts'[i] \in ToSet(toasts)
<1>1. toasts \in Seq(Nat) /\ Len(toasts) \in Nat /\ DOMAIN toasts = 1..Len(toasts)
  BY LenProperties DEF ToastsOf
<1>2. CASE toasts' = toasts /\ \A i \in 1..Len(toasts) : toasts[i] # e
  BY <1>1, <1>2 DEF ToastsOf, ToSet
<1>3. ASSUME NEW k \in 1..Len(toasts), toasts[k] = e, toasts' = RemoveAt(toasts, k)
      PROVE  /\ ToastsOf(toasts', leaving', n)
             /\ \A i \in 1..Len(toasts') : toasts'[i] \in ToSet(toasts)
  <2> DEFINE rest == RemoveAt(toasts, k)
  <2>1. rest \in Seq(Nat) /\ Len(rest) = Len(toasts) - 1
    BY <1>1, Removed
  <2>2. PICK at \in [1..(Len(toasts) - 1) -> (1..Len(toasts)) \ {k}] :
           /\ \A i \in 1..(Len(toasts) - 1) : rest[i] = toasts[at[i]]
           /\ \A i, j \in 1..(Len(toasts) - 1) : at[i] = at[j] => i = j
    BY <1>1, RemovedPlaces
  <2>a. toasts' = rest
    BY <1>3
  <2> HIDE DEF rest
  <2>3. \A i \in 1..Len(rest) :
           /\ at[i] \in 1..Len(toasts) /\ at[i] # k /\ rest[i] = toasts[at[i]]
           /\ \A j \in 1..Len(rest) : at[i] = at[j] => i = j
    BY <2>1, <2>2
  <2>b. \A i, j \in 1..Len(toasts) : toasts[i] = toasts[j] => i = j
    BY DEF ToastsOf
  <2>c. \A i \in 1..Len(toasts) : toasts[i] <= n /\ toasts[i] \in ToSet(toasts)
    BY <1>1 DEF ToastsOf, ToSet
  <2>4. ASSUME NEW i \in 1..Len(rest) PROVE rest[i] \in ToSet(toasts) \ {e} /\ rest[i] <= n
    <3>1. at[i] \in 1..Len(toasts) /\ at[i] # k /\ rest[i] = toasts[at[i]]
      BY <2>3
    <3>2. toasts[at[i]] # toasts[k]
      BY <2>b, <3>1
    <3> QED BY <1>3, <2>c, <3>1, <3>2
  <2>5. ASSUME NEW i \in 1..Len(rest), NEW j \in 1..Len(rest), rest[i] = rest[j]
        PROVE  i = j
    <3>1. /\ at[i] \in 1..Len(toasts) /\ rest[i] = toasts[at[i]]
          /\ at[j] \in 1..Len(toasts) /\ rest[j] = toasts[at[j]]
      BY <2>3
    <3>2. at[i] = at[j]
      BY <2>5, <2>b, <3>1
    <3> QED BY <2>3, <3>2
  <2>6. DOMAIN rest = 1..Len(rest)
    BY <2>1, LenProperties
  <2>7. ToSet(rest) \subseteq leaving'
    BY <2>4, <2>6 DEF ToSet, ToastsOf
  <2>8. Len(rest) <= MaxToasts /\ leaving' \subseteq Nat
    BY <1>1, <2>1, NoticesAssumption DEF ToastsOf
  <2> QED BY <2>1, <2>a, <2>4, <2>5, <2>7, <2>8 DEF ToastsOf
<1> QED BY <1>1, <1>2, <1>3, FirstOf

-----------------------------------------------------------------------------
(* The steps *)

\* The page as it is opened.
LEMMA NoticesInitially == NoticeInit => NoticesInOrder
<1> SUFFICES ASSUME NoticeInit PROVE NoticesInOrder
  OBVIOUS
<1> USE DEF NoticeInit
<1>1. ListOf(<<>>, 0)
  BY NoticesAssumption, EmptySeq DEF ListOf, OnceEach
<1>2. Unread(<<>>) = 0
  BY FS_EmptySet DEF Unread
<1>3. NoticesTypeOK
  BY EmptySeq DEF NoticesTypeOK, NoNotice, NoticeType, BellType
<1>4. ListInOrder
  BY <1>1, <1>2 DEF ListInOrder
<1>5. ToastsInOrder
  BY EmptySeq, NoticesAssumption DEF ToastsInOrder, NoNotice, ToSet
<1> QED BY <1>3, <1>4, <1>5 DEF NoticesInOrder

\* What the screen holds, as the lemmas about toasts have it.
LEMMA ScreenIsTimed ==
  ASSUME NoticesInOrder
  PROVE  ToastsOf(toasts, leaving, sentEvents)
  BY DEF NoticesInOrder, NoticesTypeOK, ToastsInOrder, ToastsOf

\* A bound on the notifications heard of grows.
LEMMA ListsGrow ==
  ASSUME NEW list, NEW n \in Nat, ListOf(list, n)
  PROVE  ListOf(list, n + 1)
<1>1. \A i \in 1..Len(list) : list[i].id \in Nat
  <2>1. \A i \in 1..Len(list) : list[i] \in Item
    BY ElementOfSeq DEF ListOf, OnceEach
  <2> QED BY <2>1 DEF Item
<1> QED BY <1>1 DEF ListOf, OnceEach

\* What neither the list nor the toasts are about.
LEMMA NoticesRest ==
  ASSUME NoticesInOrder, UNCHANGED <<holder, latest, rendered, soon, inbox, saved, toasts, leaving, sentEvents>>,
         bell' \in BellType, bell'.seen = bell.seen
  PROVE  NoticesInOrder'
<1>1. NoticesTypeOK'
  BY DEF NoticesInOrder, NoticesTypeOK
<1>2. ListInOrder'
  BY DEF NoticesInOrder, ListInOrder
<1>3. ToastsInOrder'
  BY DEF NoticesInOrder, ToastsInOrder
<1> QED BY <1>1, <1>2, <1>3 DEF NoticesInOrder

\* A toast that has just been added is on the screen.
LEMMA ToastComesFirst ==
  ASSUME NoticesInOrder, NEW copied \in BOOLEAN, OnToast(copied)
  PROVE  NoticesInOrder'
<1> USE DEF OnToast
<1>1. sentEvents \in Nat /\ sentEvents' = sentEvents + 1 /\ latest \in NoticeType /\ soon \in NoticeType
  BY DEF NoticesInOrder, NoticesTypeOK
<1>2. \A i \in 1..Len(toasts) : toasts[i] # sentEvents'
  <2> SUFFICES ASSUME NEW i \in 1..Len(toasts) PROVE toasts[i] # sentEvents'
    OBVIOUS
  <2>1. toasts[i] \in Nat
    BY ElementOfSeq DEF NoticesInOrder, NoticesTypeOK
  <2> QED BY <1>1, <2>1 DEF NoticesInOrder, ToastsInOrder
<1>3. ToastsOf(toasts, leaving, sentEvents')
  <2>1. \A i \in 1..Len(toasts) : toasts[i] \in Nat
    BY ElementOfSeq DEF NoticesInOrder, NoticesTypeOK
  <2> QED BY <1>1, <2>1, ScreenIsTimed DEF ToastsOf
<1>4. /\ ToastsOf(toasts', leaving', sentEvents')
      /\ \A i \in 1..Len(toasts') : toasts'[i] \in ToSet(toasts) \cup {sentEvents'}
  BY <1>1, <1>2, <1>3, ToastAdded
<1>5. ListOf(inbox, sentEvents') /\ ListOf(saved, sentEvents')
  BY <1>1, ListsGrow DEF NoticesInOrder, ListInOrder
<1>6. /\ ListOf(inbox', sentEvents') /\ ListOf(saved', sentEvents')
      /\ (holder # NoHolder => inbox' = saved')
      /\ bell' \in BellType /\ bell'.seen = Unread(inbox')
  <2>1. CASE copied \/ holder = NoHolder
    BY <1>5, <2>1 DEF NoticesInOrder, NoticesTypeOK, ListInOrder
  <2>2. CASE ~(copied \/ holder = NoHolder)
    <3>1. UpdateList(<<[id |-> sentEvents', read |-> FALSE]>> \o inbox)
      BY <2>2
    <3>2. \A i \in 1..Len(inbox) : inbox[i].id # sentEvents'
      <4> SUFFICES ASSUME NEW i \in 1..Len(inbox) PROVE inbox[i].id # sentEvents'
        OBVIOUS
      <4>1. inbox[i] \in Item /\ inbox[i].id <= sentEvents
        BY ElementOfSeq DEF NoticesInOrder, ListInOrder, ListOf, OnceEach
      <4> QED BY <1>1, <4>1 DEF Item
    <3>3. OnceEach(<<[id |-> sentEvents', read |-> FALSE]>> \o inbox, sentEvents')
      <4>1. OnceEach(inbox, sentEvents') /\ sentEvents' \in Nat /\ sentEvents' <= sentEvents'
        BY <1>1, <1>5 DEF ListOf
      <4> HIDE DEF OnToast
      <4> QED BY <3>2, <4>1, ListedNew
    <3> QED BY <1>1, <1>5, <3>1, <3>3, ListUpdated DEF NoticesInOrder, NoticesTypeOK
  <2> QED BY <2>1, <2>2
<1>7. ListInOrder'
  BY <1>6 DEF ListInOrder
<1>8. NoticesTypeOK'
  BY <1>1, <1>4, <1>6 DEF NoticesInOrder, NoticesTypeOK, ToastsOf
<1>9. latest.id <= sentEvents' /\ soon.id <= sentEvents'
  BY <1>1 DEF NoticesInOrder, ToastsInOrder, NoticeType
<1>10. ~rendered => \A i \in 1..Len(toasts') : toasts'[i] # latest.id
  <2> SUFFICES ASSUME ~rendered, NEW i \in 1..Len(toasts') PROVE toasts'[i] # latest.id
    OBVIOUS
  <2>1. toasts'[i] \in ToSet(toasts) \cup {sentEvents'}
    BY <1>4
  <2>2. CASE toasts'[i] = sentEvents'
    BY <1>1, <2>2 DEF NoticesInOrder, ToastsInOrder, NoticeType
  <2>3. CASE toasts'[i] \in ToSet(toasts)
    <3>1. DOMAIN toasts = 1..Len(toasts)
      BY LenProperties DEF NoticesInOrder, NoticesTypeOK
    <3> QED BY <2>3, <3>1 DEF NoticesInOrder, ToastsInOrder, ToSet
  <2> QED BY <2>1, <2>2, <2>3
<1>11. ToastsInOrder'
  BY <1>4, <1>9, <1>10 DEF ToastsInOrder, ToastsOf
<1> QED BY <1>7, <1>8, <1>11 DEF NoticesInOrder

\* What is heard, rendered, clicked and timed, in any order.
LEMMA NoticeStep == NoticesInOrder /\ [NoticeNext]_noticeVars => NoticesInOrder'
<1> SUFFICES ASSUME NoticesInOrder, [NoticeNext]_noticeVars PROVE NoticesInOrder'
  OBVIOUS
<1>0. /\ latest \in NoticeType /\ soon \in NoticeType /\ rendered \in BOOLEAN
      /\ bell \in BellType /\ sentEvents \in Nat
      /\ toasts \in Seq(Nat) /\ DOMAIN toasts = 1..Len(toasts)
      /\ inbox \in Seq(Item) /\ DOMAIN inbox = 1..Len(inbox) /\ Len(inbox) \in Nat
      /\ ListOf(inbox, sentEvents) /\ ListOf(saved, sentEvents) /\ bell.seen = Unread(inbox)
      /\ (holder # NoHolder => inbox = saved)
  BY LenProperties DEF NoticesInOrder, NoticesTypeOK, ListInOrder, ListOf, OnceEach
<1>1. CASE PulseStarts \/ PulseStops \/ ToggleDrawer
  <2>1. bell' \in BellType /\ bell'.seen = bell.seen
    BY <1>0, <1>1 DEF PulseStarts, PulseStops, ToggleDrawer, BellType
  <2> QED BY <1>1, <2>1, NoticesRest DEF PulseStarts, PulseStops, ToggleDrawer
<1>2. CASE SocketConnects \/ SocketDrops \/ ReconnectFails \/ UNCHANGED noticeVars
  BY <1>0, <1>2, NoticesRest DEF SocketConnects, SocketDrops, ReconnectFails, noticeVars
<1>3. ASSUME NEW copied \in BOOLEAN, OnToast(copied) PROVE NoticesInOrder'
  BY <1>3, ToastComesFirst
<1>4. ASSUME NEW e \in 1..MaxTold, RemoveToast(e) PROVE NoticesInOrder'
  <2> USE <1>4 DEF RemoveToast
  <2>1. e \in Nat
    OBVIOUS
  <2>2. /\ ToastsOf(toasts', leaving', sentEvents)
        /\ \A i \in 1..Len(toasts') : toasts'[i] \in ToSet(toasts)
    BY <1>0, <2>1, ScreenIsTimed, ToastRemoved
  <2>3. NoticesTypeOK'
    BY <2>2 DEF NoticesInOrder, NoticesTypeOK, ToastsOf
  <2>4. ListInOrder'
    BY DEF NoticesInOrder, ListInOrder
  <2>5. ~rendered => \A i \in 1..Len(toasts') : toasts'[i] # latest.id
    BY <1>0, <2>2 DEF NoticesInOrder, ToastsInOrder, ToSet
  <2>6. ToastsInOrder'
    BY <2>2, <2>5 DEF NoticesInOrder, ToastsInOrder, ToastsOf
  <2> QED BY <2>3, <2>4, <2>6 DEF NoticesInOrder
<1>5. ASSUME NEW actors \in Payloads, NoticeArrives(actors) PROVE NoticesInOrder'
  <2> USE <1>5 DEF NoticeArrives
  <2>1. actors \in SUBSET Holder /\ sentEvents' = sentEvents + 1
    BY NoticesAssumption
  <2>a. latest' \in NoticeType
    BY <1>0, <2>1 DEF NoticeType
  <2>2. NoticesTypeOK'
    <3>a. rendered' = FALSE
      OBVIOUS
    <3> HIDE <1>5 DEF NoticeArrives
    <3>b. rendered' \in BOOLEAN
      BY <3>a
    <3>c. sentEvents' \in Nat
      BY <1>0, <2>1
    <3>1. sentEvents' \in Nat /\ rendered' \in BOOLEAN
      BY <3>b, <3>c
    <3>2. UNCHANGED <<soon, bell, toasts, leaving>>
      BY <1>5 DEF NoticeArrives
    <3> QED BY <2>a, <3>1, <3>2 DEF NoticesInOrder, NoticesTypeOK
  <2>3. ListInOrder'
    BY <1>0, <2>1, ListsGrow DEF NoticesInOrder, ListInOrder
  <2>4. \A i \in 1..Len(toasts) : toasts[i] \in Nat /\ toasts[i] <= sentEvents
    BY <1>0, ElementOfSeq DEF NoticesInOrder, ToastsInOrder
  <2>5. latest'.id = sentEvents + 1
    BY <2>1
  <2>6. \A i \in 1..Len(toasts) : toasts[i] <= sentEvents' /\ toasts[i] # latest'.id
    BY <1>0, <2>1, <2>4, <2>5
  <2>7. latest'.id <= sentEvents' /\ soon.id <= sentEvents'
    BY <1>0, <2>1, <2>5 DEF NoticesInOrder, ToastsInOrder, NoticeType
  <2>8. ToastsInOrder'
    BY <2>6, <2>7 DEF NoticesInOrder, ToastsInOrder
  <2> QED BY <2>2, <2>3, <2>8 DEF NoticesInOrder
<1>6. CASE RenderNotice
  <2> USE <1>6 DEF RenderNotice
  <2>1. \A i \in 1..Len(toasts) : toasts[i] # latest.id
    BY DEF NoticesInOrder, ToastsInOrder
  <2>2. latest.id \in Nat /\ latest.id <= sentEvents
    BY <1>0 DEF NoticesInOrder, ToastsInOrder, NoticeType
  <2>3. ToastsOf(toasts', leaving', sentEvents)
    BY <1>0, <2>1, <2>2, ScreenIsTimed, ToastAdded
  <2>4. soon' \in NoticeType /\ soon'.id <= sentEvents
    BY <1>0, <2>2 DEF NoNotice, NoticeType
  <2>5. NoticesTypeOK'
    BY <2>3, <2>4 DEF NoticesInOrder, NoticesTypeOK, ToastsOf
  <2>6. ListInOrder'
    BY DEF NoticesInOrder, ListInOrder
  <2>7. ToastsInOrder'
    BY <2>2, <2>3, <2>4 DEF ToastsInOrder, ToastsOf
  <2> QED BY <2>5, <2>6, <2>7 DEF NoticesInOrder
<1>7. CASE ListNotice
  <2> USE <1>7 DEF ListNotice
  <2>1. soon.id \in Nat /\ soon.id <= sentEvents
    BY <1>0 DEF NoticesInOrder, ToastsInOrder, NoticeType
  <2>2. OnceEach(ListedFirst(soon.id), sentEvents)
    BY <1>0, <2>1, ListedAgain DEF ListOf
  <2>3. /\ ListOf(inbox', sentEvents) /\ ListOf(saved', sentEvents)
        /\ (holder # NoHolder => inbox' = saved')
        /\ bell' \in BellType /\ bell'.seen = Unread(inbox')
    BY <1>0, <2>2, ListUpdated
  <2>4. soon' \in NoticeType /\ soon'.id <= sentEvents
    BY <1>0 DEF NoNotice, NoticeType
  <2>5. NoticesTypeOK'
    BY <2>3, <2>4 DEF NoticesInOrder, NoticesTypeOK
  <2>6. ListInOrder'
    BY <2>3 DEF ListInOrder
  <2>7. ToastsInOrder'
    BY <2>4 DEF NoticesInOrder, ToastsInOrder
  <2> QED BY <2>5, <2>6, <2>7 DEF NoticesInOrder
<1>8. ASSUME NEW w \in Holder \cup {NoHolder}, ChangeHolder(w) PROVE NoticesInOrder'
  <2> USE <1>8 DEF ChangeHolder
  <2>1. ListOf(<<>>, sentEvents)
    BY <1>0, NoticesAssumption, EmptySeq DEF ListOf, OnceEach
  <2>2. ListOf(inbox', sentEvents) /\ (w # NoHolder => inbox' = saved)
    BY <1>0, <2>1
  <2>3. inbox' \in Seq(Item) /\ Ring(inbox')
    BY <2>2 DEF ListOf, OnceEach
  <2>4. bell' \in BellType /\ bell'.seen = Unread(inbox')
    BY <1>0, <2>3, BellRings
  <2>5. soon' \in NoticeType /\ soon'.id <= sentEvents
    BY <1>0 DEF NoticesInOrder, ToastsInOrder, NoNotice, NoticeType
  <2>6. NoticesTypeOK'
    BY <2>4, <2>5 DEF NoticesInOrder, NoticesTypeOK
  <2>7. ListInOrder'
    BY <1>0, <2>2, <2>4 DEF ListInOrder
  <2>8. ToastsInOrder'
    BY <2>5 DEF NoticesInOrder, ToastsInOrder
  <2> QED BY <2>6, <2>7, <2>8 DEF NoticesInOrder
<1>9. ASSUME ListOf(inbox', sentEvents), saved' = inbox',
             bell' \in BellType, bell'.seen = Unread(inbox'),
             UNCHANGED <<holder, latest, rendered, soon, toasts, leaving, sentEvents>>
      PROVE  NoticesInOrder'
  <2>1. NoticesTypeOK'
    BY <1>9 DEF NoticesInOrder, NoticesTypeOK
  <2>2. ListInOrder'
    BY <1>9 DEF ListInOrder
  <2>3. ToastsInOrder'
    BY <1>9 DEF NoticesInOrder, ToastsInOrder
  <2> QED BY <2>1, <2>2, <2>3 DEF NoticesInOrder
<1>10. ASSUME NEW i \in 1..MaxKept, Navigate(i) PROVE NoticesInOrder'
  <2> DEFINE list == [inbox EXCEPT ![i].read = TRUE]
  <2>1. i \in 1..Len(inbox) /\ inbox' = list /\ saved' = list
    BY <1>0, <1>10 DEF Navigate
  <2>2. inbox[i] \in Item
    BY <1>0, <2>1, ElementOfSeq
  <2>3. [inbox[i] EXCEPT !.read = TRUE] \in Item /\ [inbox[i] EXCEPT !.read = TRUE].id = inbox[i].id
    BY <2>2 DEF Item
  <2>4. /\ list \in Seq(Item) /\ Len(list) = Len(inbox)
        /\ \A j \in 1..Len(inbox) : list[j] = IF j = i THEN [inbox[i] EXCEPT !.read = TRUE] ELSE inbox[j]
    BY <1>0, <2>1, <2>3, ExceptSeq
  <2> HIDE DEF list
  <2>5. \A j \in 1..Len(inbox) : list[j].id = inbox[j].id
    BY <2>3, <2>4
  <2>6. ListOf(list, sentEvents)
    BY <1>0, <2>4, <2>5 DEF ListOf, OnceEach
  <2>7. Unread(list) \in Nat
    BY <2>4, UnreadType
  <2>8. bell' \in BellType /\ bell'.seen = Unread(list)
    BY <1>0, <1>10, <2>7 DEF Navigate, BellType, list
  <2> QED BY <1>9, <1>10, <2>1, <2>6, <2>8 DEF Navigate
<1>11. ASSUME NEW list, ListOf(list, sentEvents), MarkAsRead(list),
              UNCHANGED <<holder, latest, rendered, soon, toasts, leaving, sentEvents>>
       PROVE  NoticesInOrder'
  <2>1. Unread(list) \in Nat
    BY <1>11, UnreadType DEF ListOf, OnceEach
  <2>2. inbox' = list /\ saved' = list /\ bell' \in BellType /\ bell'.seen = Unread(list)
    BY <1>0, <1>11, <2>1 DEF MarkAsRead, BellType
  <2> QED BY <1>9, <1>11, <2>2
<1>12. CASE MarkAllAsRead
  <2> DEFINE list == [i \in DOMAIN inbox |-> [inbox[i] EXCEPT !.read = TRUE]]
  <2>1. \A i \in 1..Len(inbox) : inbox[i] \in Item
    BY <1>0, ElementOfSeq
  <2>2. \A i \in 1..Len(inbox) :
           [inbox[i] EXCEPT !.read = TRUE] \in Item /\ [inbox[i] EXCEPT !.read = TRUE].id = inbox[i].id
    BY <2>1 DEF Item
  <2>3. list \in [1..Len(inbox) -> Item]
    BY <1>0, <2>2
  <2>4. list \in Seq(Item) /\ Len(list) = Len(inbox)
    BY <1>0, <2>3
  <2>5. \A j \in 1..Len(inbox) : list[j].id = inbox[j].id
    BY <1>0, <2>2
  <2> HIDE DEF list
  <2>6. ListOf(list, sentEvents)
    BY <1>0, <2>4, <2>5 DEF ListOf, OnceEach
  <2> QED BY <1>11, <1>12, <2>6 DEF MarkAllAsRead, list
<1>13. CASE ClearAll
  <2>1. ListOf(<<>>, sentEvents)
    BY <1>0, NoticesAssumption, EmptySeq DEF ListOf, OnceEach
  <2> QED BY <1>11, <1>13, <2>1 DEF ClearAll
<1> QED BY <1>1, <1>2, <1>3, <1>4, <1>5, <1>6, <1>7, <1>8, <1>10, <1>12, <1>13 DEF NoticeNext

\* The list is the stored one, and what shows is about to end.
LEMMA NoticesSound == NoticesInOrder => NoticesAreSound
<1> SUFFICES ASSUME NoticesInOrder PROVE NoticesAreSound
  OBVIOUS
<1>1. DOMAIN inbox = 1..Len(inbox)
  BY LenProperties DEF NoticesInOrder, ListInOrder, ListOf, OnceEach
<1>2. ListIsKept
  BY <1>1 DEF NoticesInOrder, ListInOrder, ListOf, OnceEach, ListIsKept
<1> QED BY <1>2 DEF NoticesInOrder, ToastsInOrder, ToastsAreTimed, NoticesAreSound

-----------------------------------------------------------------------------
(* Tabs over one storage.                                                  *)

\* Preferences as they are stored, and as they are shown.
Stored == [Preference -> {Broken} \cup UNION {Options[p] : p \in Preference}]
Shown == {f \in Stored : \A p \in Preference : f[p] \in Options[p]}
SeenType == [prefs : Shown, ids : Seq(Watchable), asking : BOOLEAN]

\* A list that is watched: each grant once, and no more than the limit.
Watchlist(ids) == ids \in Seq(Watchable) /\ IsInjective(ids) /\ Len(ids) <= WatchMax

\* What is stored, and what every tab has seen of it.
StorageTypeOK ==
    /\ prefs \in {Unset} \cup Stored
    /\ tabSeen \in [Tab -> SeenType]
    /\ untold \in [Tab -> SUBSET {"prefs", "watching"}]
\* The watchlist has each grant once, and tabs that were told agree.
TabsInOrder == StorageTypeOK /\ Watchlist(watching) /\ TabsAgree

\* Whatever is stored, what is read of it can be shown.
LEMMA MergedIsShown ==
  ASSUME NEW raw PROVE MergePreferences(raw) \in Shown
  BY SharedStorageAssumption DEF MergePreferences, Shown, Stored, Preference

\* What can be shown is what is read of it.
LEMMA ShownIsMerged ==
  ASSUME NEW f \in Shown, NEW p \in Preference
  PROVE  MergePreferences(f) = f
<1>1. f \in [Preference -> {Broken} \cup UNION {Options[q] : q \in Preference}]
  BY DEF Shown, Stored
<1>2. DOMAIN f = Preference /\ f # Unset
  BY <1>1 DEF Unset
<1>3. \A q \in Preference : f[q] \in Options[q]
  BY DEF Shown
<1>4. MergePreferences(f) = [q \in Preference |-> f[q]]
  BY <1>2, <1>3 DEF MergePreferences
<1> QED BY <1>1, <1>4

\* The limit drops the grants watched longest.
LEMMA CappedIsWatchlist ==
  ASSUME NEW ids \in Seq(Watchable), IsInjective(ids)
  PROVE  Watchlist(CapWatchlist(ids))
<1> DEFINE from == IF Len(ids) > WatchMax THEN Len(ids) - WatchMax + 1 ELSE 1
           kept == SubSeq(ids, from, Len(ids))
<1>1. Len(ids) \in Nat /\ DOMAIN ids = 1..Len(ids) /\ WatchMax \in Nat \ {0}
  BY LenProperties, SharedStorageAssumption
<1>2. from \in Nat /\ from >= 1 /\ Len(ids) - from + 1 <= WatchMax /\ from <= Len(ids) + 1
  BY <1>1
<1> HIDE DEF from
<1>3. \A i \in from..Len(ids) : ids[i] \in Watchable
  BY <1>1, <1>2, ElementOfSeq
<1>4. /\ kept \in Seq(Watchable)
      /\ Len(kept) = IF from <= Len(ids) THEN Len(ids) - from + 1 ELSE 0
      /\ \A i \in 1..(Len(ids) - from + 1) : kept[i] = ids[from + i - 1]
  <2>1. from \in Int /\ Len(ids) \in Int
    BY <1>1, <1>2
  <2> QED BY <1>3, <2>1, SubSeqProperties
<1> HIDE DEF kept
<1>5. DOMAIN kept = 1..Len(kept) /\ Len(kept) \in Nat
  BY <1>4, LenProperties
<1>6. \A i, j \in DOMAIN kept : kept[i] = kept[j] => i = j
  <2> SUFFICES ASSUME NEW i \in 1..Len(kept), NEW j \in 1..Len(kept), kept[i] = kept[j]
               PROVE  i = j
    BY <1>5
  <2>1. /\ from + i - 1 \in 1..Len(ids) /\ kept[i] = ids[from + i - 1]
        /\ from + j - 1 \in 1..Len(ids) /\ kept[j] = ids[from + j - 1]
    BY <1>1, <1>2, <1>4
  <2>2. from + i - 1 = from + j - 1
    BY <1>1, <2>1 DEF IsInjective
  <2> QED BY <1>2, <2>2
<1>7. Len(kept) <= WatchMax
  BY <1>1, <1>2, <1>4
<1>8. CapWatchlist(ids) = kept
  BY DEF CapWatchlist, kept, from
<1> QED BY <1>4, <1>6, <1>7, <1>8 DEF Watchlist, IsInjective

\* A watchlist without a grant is a watchlist.
LEMMA WithoutOne ==
  ASSUME Watchlist(watching), NEW g
  PROVE  Without(g) \in Seq(Watchable) /\ IsInjective(Without(g))
<1>1. watching \in Seq(Watchable) /\ Len(watching) \in Nat /\ DOMAIN watching = 1..Len(watching)
  BY LenProperties DEF Watchlist
<1>2. CASE Without(g) = watching
  BY <1>2 DEF Watchlist
<1>3. ASSUME NEW k \in 1..Len(watching), Without(g) = RemoveAt(watching, k)
      PROVE  Without(g) \in Seq(Watchable) /\ IsInjective(Without(g))
  <2> DEFINE rest == RemoveAt(watching, k)
  <2>1. rest \in Seq(Watchable) /\ Len(rest) = Len(watching) - 1
    BY <1>1, Removed
  <2>2. PICK at \in [1..(Len(watching) - 1) -> (1..Len(watching)) \ {k}] :
           /\ \A i \in 1..(Len(watching) - 1) : rest[i] = watching[at[i]]
           /\ \A i, j \in 1..(Len(watching) - 1) : at[i] = at[j] => i = j
    BY <1>1, RemovedPlaces
  <2> HIDE DEF rest
  <2>3. DOMAIN rest = 1..(Len(watching) - 1)
    BY <2>1, LenProperties
  <2>4. \A i \in 1..(Len(watching) - 1) : at[i] \in DOMAIN watching
    BY <1>1, <2>2
  <2>5. \A i, j \in DOMAIN watching : watching[i] = watching[j] => i = j
    BY DEF Watchlist, IsInjective
  <2>6. IsInjective(rest)
    BY <2>2, <2>3, <2>4, <2>5 DEF IsInjective
  <2> QED BY <1>3, <2>1, <2>6 DEF rest
<1> QED BY <1>1, <1>2, <1>3, FirstOf DEF Without

\* What a tab writes, the others are told.
LEMMA WatchlistWritten ==
  ASSUME TabsInOrder, NEW t \in Tab, NEW ids \in Seq(Watchable), IsInjective(ids),
         WriteWatchlist(t, ids), UNCHANGED prefs
  PROVE  TabsInOrder'
<1> USE DEF WriteWatchlist
<1>1. Watchlist(watching')
  BY CappedIsWatchlist
<1>2. tabSeen' = [tabSeen EXCEPT ![t].ids = watching'] /\ untold' = Told(t, "watching")
  OBVIOUS
<1> HIDE DEF WriteWatchlist
<1>3. tabSeen \in [Tab -> SeenType] /\ untold \in [Tab -> SUBSET {"prefs", "watching"}]
  BY DEF TabsInOrder, StorageTypeOK
<1>4. tabSeen' \in [Tab -> SeenType]
  BY <1>1, <1>2, <1>3 DEF SeenType, Watchlist
<1>5. untold' \in [Tab -> SUBSET {"prefs", "watching"}]
  BY <1>2, <1>3 DEF Told
<1>6. \A u \in Tab : tabSeen'[u].prefs = tabSeen[u].prefs
  BY <1>2, <1>3 DEF SeenType
<1>7. \A u \in Tab : ("prefs" \in untold'[u] <=> "prefs" \in untold[u])
                     /\ (u # t => "watching" \in untold'[u])
  BY <1>2, <1>3 DEF Told
<1>8. tabSeen'[t].ids = watching'
  BY <1>2, <1>3 DEF SeenType
<1>9. ReadPreferences' = ReadPreferences
  BY DEF ReadPreferences, MergePreferences
<1>10. TabsAgree'
  BY <1>1, <1>6, <1>7, <1>8, <1>9 DEF TabsInOrder, TabsAgree, Watchlist
<1> QED BY <1>1, <1>4, <1>5, <1>10 DEF TabsInOrder, StorageTypeOK

\* A tab writes its preferences, and the others will be told.
LEMMA PreferencesWritten ==
  ASSUME TabsInOrder, NEW t \in Tab, prefs' \in {Unset} \cup Stored,
         NEW seen \in SeenType, tabSeen' = [tabSeen EXCEPT ![t] = seen],
         seen.prefs = ReadPreferences', seen.ids = tabSeen[t].ids,
         untold' = Told(t, "prefs"), UNCHANGED watching
  PROVE  TabsInOrder'
<1>3. tabSeen \in [Tab -> SeenType] /\ untold \in [Tab -> SUBSET {"prefs", "watching"}]
  BY DEF TabsInOrder, StorageTypeOK
<1>4. tabSeen' \in [Tab -> SeenType]
  BY <1>3
<1>5. untold' \in [Tab -> SUBSET {"prefs", "watching"}]
  BY <1>3 DEF Told
<1>6. \A u \in Tab : tabSeen'[u].ids = tabSeen[u].ids
  BY <1>3
<1>7. \A u \in Tab : ("watching" \in untold'[u] <=> "watching" \in untold[u])
                     /\ (u # t => "prefs" \in untold'[u])
  BY <1>3 DEF Told
<1>8. tabSeen'[t].prefs = ReadPreferences'
  BY <1>3
<1>10. TabsAgree'
  BY <1>6, <1>7, <1>8 DEF TabsInOrder, TabsAgree
<1> QED BY <1>4, <1>5, <1>10 DEF TabsInOrder, StorageTypeOK, Watchlist

\* Tabs as they are opened.
LEMMA StorageInitially == StorageInit => TabsInOrder
<1> SUFFICES ASSUME StorageInit PROVE TabsInOrder
  OBVIOUS
<1> USE DEF StorageInit
<1>1. Watchlist(<<>>) /\ <<>> \in Seq(Watchable)
  BY SharedStorageAssumption, EmptySeq DEF Watchlist, IsInjective
<1>2. ReadPreferences \in Shown
  BY MergedIsShown DEF ReadPreferences
<1>3. StorageTypeOK
  BY <1>1, <1>2 DEF StorageTypeOK, SeenType, Stored
<1>4. TabsAgree
  BY <1>1 DEF TabsAgree, Watchlist
<1> QED BY <1>1, <1>3, <1>4 DEF TabsInOrder

\* Every tab's settings, and every storage event, however late.
LEMMA StorageStep == TabsInOrder /\ [StorageNext]_storageVars => TabsInOrder'
<1> SUFFICES ASSUME TabsInOrder, [StorageNext]_storageVars PROVE TabsInOrder'
  OBVIOUS
<1>0. /\ tabSeen \in [Tab -> SeenType] /\ untold \in [Tab -> SUBSET {"prefs", "watching"}]
      /\ prefs \in {Unset} \cup Stored /\ Watchlist(watching)
  BY DEF TabsInOrder, StorageTypeOK
<1>1. ASSUME NEW t \in Tab, NEW p \in Preference, NEW v \in Options[p], SetPreferences(t, p, v)
      PROVE  TabsInOrder'
  <2> USE <1>1 DEF SetPreferences
  <2>1. ReadPreferences \in Shown
    BY MergedIsShown DEF ReadPreferences
  <2>2. prefs' \in Shown
    BY <2>1 DEF Shown, Stored
  <2>3. ReadPreferences' = prefs'
    BY <2>2, ShownIsMerged DEF ReadPreferences
  <2> DEFINE seen == [tabSeen[t] EXCEPT !.prefs = prefs']
  <2>4. seen \in SeenType /\ seen.prefs = prefs' /\ seen.ids = tabSeen[t].ids
    BY <1>0, <2>2 DEF SeenType
  <2>5. tabSeen' = [tabSeen EXCEPT ![t] = seen] /\ untold' = Told(t, "prefs") /\ UNCHANGED watching
    OBVIOUS
  <2>6. prefs' \in {Unset} \cup Stored
    BY <2>2 DEF Shown
  <2> HIDE DEF seen, SetPreferences
  <2> QED BY <2>3, <2>4, <2>5, <2>6, PreferencesWritten
<1>2. ASSUME NEW t \in Tab, ResetPreferences(t) PROVE TabsInOrder'
  <2> USE <1>2 DEF ResetPreferences
  <2> DEFINE seen == [tabSeen[t] EXCEPT !.prefs = MergePreferences(Unset), !.asking = FALSE]
  <2>1. MergePreferences(Unset) \in Shown /\ ReadPreferences' = MergePreferences(Unset)
    BY MergedIsShown DEF ReadPreferences, MergePreferences
  <2>2. seen \in SeenType /\ seen.prefs = MergePreferences(Unset) /\ seen.ids = tabSeen[t].ids
    BY <1>0, <2>1 DEF SeenType
  <2>3. tabSeen' = [tabSeen EXCEPT ![t] = seen] /\ untold' = Told(t, "prefs") /\ UNCHANGED watching
    BY <1>0 DEF SeenType
  <2>4. prefs' \in {Unset} \cup Stored
    OBVIOUS
  <2> HIDE DEF seen, ResetPreferences
  <2> QED BY <2>1, <2>2, <2>3, <2>4, PreferencesWritten
<1>3. ASSUME NEW t \in Tab, NEW g \in Watchable, Toggle(t, g) PROVE TabsInOrder'
  <2> DEFINE ids == IF Contains(watching, g) THEN Without(g) ELSE Append(watching, g)
  <2>1. CASE Contains(watching, g)
    BY <1>0, <1>3, <2>1, WithoutOne, WatchlistWritten DEF Toggle
  <2>2. CASE ~Contains(watching, g)
    <3> DEFINE more == Append(watching, g)
    <3>1. watching \in Seq(Watchable) /\ Len(watching) \in Nat /\ DOMAIN watching = 1..Len(watching)
      BY <1>0, LenProperties DEF Watchlist
    <3>2. /\ more \in Seq(Watchable) /\ DOMAIN more = 1..(Len(watching) + 1)
          /\ more[Len(watching) + 1] = g /\ \A i \in 1..Len(watching) : more[i] = watching[i]
      BY <3>1
    <3> HIDE DEF more
    <3>3. \A i \in 1..Len(watching) : more[i] # g
      BY <2>2, <3>2 DEF Contains
    <3>4. \A i, j \in 1..Len(watching) : more[i] = more[j] => i = j
      BY <1>0, <3>1, <3>2 DEF Watchlist, IsInjective
    <3>5. ASSUME NEW i \in DOMAIN more, NEW j \in DOMAIN more, more[i] = more[j] PROVE i = j
      <4>1. i \in 1..Len(watching) \/ i = Len(watching) + 1
        BY <3>1, <3>2
      <4>2. j \in 1..Len(watching) \/ j = Len(watching) + 1
        BY <3>1, <3>2
      <4> QED BY <3>2, <3>3, <3>4, <3>5, <4>1, <4>2
    <3>6. IsInjective(more)
      BY <3>5 DEF IsInjective
    <3>7. WriteWatchlist(t, more) /\ UNCHANGED prefs
      BY <1>3, <2>2 DEF Toggle, more
    <3> QED BY <3>2, <3>6, <3>7, WatchlistWritten
  <2> QED BY <2>1, <2>2
<1>4. ASSUME NEW t \in Tab, NEW g \in Watchable, RemoveWatched(t, g) PROVE TabsInOrder'
  BY <1>0, <1>4, WithoutOne, WatchlistWritten DEF RemoveWatched
<1>5. ASSUME NEW t \in Tab, NEW seen \in SeenType, tabSeen' = [tabSeen EXCEPT ![t] = seen],
             untold' \in [Tab -> SUBSET {"prefs", "watching"}],
             \A u \in Tab \ {t} : untold'[u] = untold[u],
             "prefs" \notin untold'[t] => seen.prefs = ReadPreferences,
             "watching" \notin untold'[t] => seen.ids = watching,
             UNCHANGED <<prefs, watching>>
      PROVE  TabsInOrder'
  <2>1. tabSeen' \in [Tab -> SeenType] /\ tabSeen'[t] = seen /\ \A u \in Tab \ {t} : tabSeen'[u] = tabSeen[u]
    BY <1>0, <1>5
  <2>2. StorageTypeOK' /\ Watchlist(watching')
    BY <1>0, <1>5, <2>1 DEF StorageTypeOK
  <2>3. ReadPreferences' = ReadPreferences
    BY <1>5 DEF ReadPreferences, MergePreferences
  <2>4. ASSUME NEW u \in Tab
        PROVE  /\ "prefs" \notin untold'[u] => tabSeen'[u].prefs = ReadPreferences'
               /\ "watching" \notin untold'[u] => tabSeen'[u].ids = watching'
    <3>1. CASE u = t
      BY <1>5, <2>1, <2>3, <3>1
    <3>2. CASE u # t
      BY <1>5, <2>1, <2>3, <3>2 DEF TabsInOrder, TabsAgree
    <3> QED BY <3>1, <3>2
  <2>5. TabsAgree'
    BY <2>2, <2>4 DEF TabsAgree, Watchlist
  <2> QED BY <2>2, <2>5 DEF TabsInOrder
<1>6. ASSUME NEW t \in Tab, NEW yes \in BOOLEAN, AskReset(t, yes) PROVE TabsInOrder'
  <2> DEFINE seen == [tabSeen[t] EXCEPT !.asking = yes]
  <2>1. seen \in SeenType /\ seen.prefs = tabSeen[t].prefs /\ seen.ids = tabSeen[t].ids
    BY <1>0 DEF SeenType
  <2>2. tabSeen' = [tabSeen EXCEPT ![t] = seen] /\ UNCHANGED <<prefs, watching, untold>>
    BY <1>6 DEF AskReset
  <2> HIDE DEF seen
  <2> QED BY <1>0, <1>5, <2>1, <2>2 DEF TabsInOrder, TabsAgree
<1>7. ASSUME NEW t \in Tab, NEW key \in {"prefs", "watching"}, StorageEvent(t, key)
      PROVE  TabsInOrder'
  <2> USE <1>7 DEF StorageEvent
  <2>1. /\ untold' \in [Tab -> SUBSET {"prefs", "watching"}] /\ untold'[t] = untold[t] \ {key}
        /\ \A u \in Tab \ {t} : untold'[u] = untold[u]
    BY <1>0
  <2>2. UNCHANGED <<prefs, watching>>
    OBVIOUS
  <2>3. /\ "prefs" \notin untold[t] => tabSeen[t].prefs = ReadPreferences
        /\ "watching" \notin untold[t] => tabSeen[t].ids = watching
    BY DEF TabsInOrder, TabsAgree
  <2>4. CASE key = "prefs"
    <3> DEFINE seen == [tabSeen[t] EXCEPT !.prefs = ReadPreferences]
    <3>1. seen \in SeenType /\ seen.prefs = ReadPreferences /\ seen.ids = tabSeen[t].ids
      BY <1>0, MergedIsShown DEF SeenType, ReadPreferences
    <3>2. tabSeen' = [tabSeen EXCEPT ![t] = seen]
      BY <2>4
    <3> HIDE DEF seen, StorageEvent
    <3> QED BY <1>5, <2>1, <2>2, <2>3, <2>4, <3>1, <3>2
  <2>5. CASE key = "watching"
    <3> DEFINE seen == [tabSeen[t] EXCEPT !.ids = watching]
    <3>1. seen \in SeenType /\ seen.prefs = tabSeen[t].prefs /\ seen.ids = watching
      BY <1>0 DEF SeenType, Watchlist
    <3>2. tabSeen' = [tabSeen EXCEPT ![t] = seen]
      BY <2>5
    <3> HIDE DEF seen, StorageEvent
    <3> QED BY <1>5, <2>1, <2>2, <2>3, <2>5, <3>1, <3>2
  <2> QED BY <2>4, <2>5
<1>8. CASE UNCHANGED storageVars
  BY <1>0, <1>8 DEF storageVars, TabsInOrder, StorageTypeOK, TabsAgree, ReadPreferences,
        MergePreferences, Watchlist
<1> QED BY <1>1, <1>2, <1>3, <1>4, <1>6, <1>7, <1>8 DEF StorageNext

-----------------------------------------------------------------------------
(* Keys and banners.                                                       *)

\* What a listener has of a shortcut is at most the key pressed last; what was done is
\* what the last keys are; an offline browser was offline.
KeysInOrder ==
    /\ pressed \in [Listeners -> {<<>>, <<recent[2]>>}]
    /\ recent = <<recent[1], recent[2]>>
    /\ \A l \in Listeners :
          /\ pressed[l] # <<>> => \E s \in Shortcuts[l] : IsStrictPrefix(pressed[l], s)
          /\ pressed[l] # <<>> => l \in Mounted(shellPage)
          /\ l \in expiringKeys => pressed[l] # <<>>
    /\ ActsAreAsked
\* The banner.
BannerInOrder ==
    /\ online \in BOOLEAN
    /\ ~online => wasOffline /\ ~restoring
    /\ RestoredIsBrief
ShellInOrder == KeysInOrder /\ BannerInOrder

\* Who listens for keys.
LEMMA FourListeners == Listeners = {"shell", "board", "grant", "votes"}
  BY DEF Listeners, Shortcuts

\* A shortcut is one or two keys, and is on the overlay.
LEMMA ShortcutsAreShort ==
  ASSUME NEW l \in Listeners, NEW s \in Shortcuts[l]
  PROVE  /\ s \in ShortcutRows
         /\ (\E k : s = <<k>>) \/ (\E k, m : s = <<k, m>>)
<1>1. CASE l = "shell"
  <2>1. Shortcuts[l] = {<<"g", "g">>, <<"g", "d">>, <<"g", "r">>, <<"g", "l">>, <<"g", "c">>,
                <<"g", "s">>, <<"?">>, <<"/">>}
    BY <1>1 DEF Shortcuts
  <2> QED BY <2>1 DEF ShortcutRows
<1>2. CASE l = "board"
  <2>1. Shortcuts[l] = {<<"f">>, <<"j">>, <<"k">>, <<"Enter">>}
    BY <1>2 DEF Shortcuts
  <2> QED BY <2>1 DEF ShortcutRows
<1>3. CASE l = "grant"
  <2>1. Shortcuts[l] = {<<"F">>, <<"h">>}
    BY <1>3 DEF Shortcuts
  <2> QED BY <2>1 DEF ShortcutRows
<1>4. CASE l = "votes"
  <2>1. Shortcuts[l] = {<<"a">>, <<"r">>}
    BY <1>4 DEF Shortcuts
  <2> QED BY <2>1 DEF ShortcutRows
<1> QED BY <1>1, <1>2, <1>3, <1>4, FourListeners

\* A key after none or one.
LEMMA OneOrTwo ==
  ASSUME NEW x, NEW y
  PROVE  /\ SubSeq(<<y>>, 1, 1) = <<y>> /\ SubSeq(<<x, y>>, 1, 1) = <<x>>
         /\ SubSeq(<<x, y>>, 1, 2) = <<x, y>>
         /\ Append(<<>>, y) = <<y>> /\ Append(<<x>>, y) = <<x, y>>
<1>1. <<x>> \in Seq({x, y}) /\ <<y>> \in Seq({x, y}) /\ <<x, y>> \in Seq({x, y})
  OBVIOUS
<1>2. Len(<<x>>) = 1 /\ Len(<<y>>) = 1 /\ Len(<<x, y>>) = 2
  OBVIOUS
<1>3. SubSeq(<<y>>, 1, 1) = <<y>> /\ SubSeq(<<x, y>>, 1, 2) = <<x, y>>
  BY <1>1, <1>2, SubSeqFull
<1>4. SubSeq(<<x, y>>, 1, 1) = <<x>>
  <2> DEFINE s == SubSeq(<<x, y>>, 1, 1)
  <2>1. \A i \in 1..1 : <<x, y>>[i] \in {x, y}
    OBVIOUS
  <2>2. /\ s \in Seq({x, y}) /\ Len(s) = IF 1 <= 1 THEN 1 - 1 + 1 ELSE 0
        /\ \A i \in 1..(1 - 1 + 1) : s[i] = <<x, y>>[1 + i - 1]
    BY <2>1, SubSeqProperties
  <2>3. Len(s) = 1 /\ \A i \in 1..1 : s[i] = <<x>>[i]
    BY <2>2
  <2> HIDE DEF s
  <2>4. s = <<x>>
    BY <1>1, <1>2, <2>2, <2>3, SeqEqual
  <2> QED BY <2>4 DEF s
<1>5. Append(<<>>, y) = <<y>>
  OBVIOUS
<1>6. Append(<<x>>, y) = <<x, y>>
  <2> DEFINE s == Append(<<x>>, y)
  <2>1. s \in Seq({x, y}) /\ Len(s) = 2 /\ s[1] = x /\ s[2] = y
    BY <1>1
  <2> HIDE DEF s
  <2>2. \A i \in 1..2 : s[i] = <<x, y>>[i]
    BY <2>1
  <2>3. s = <<x, y>>
    BY <1>1, <1>2, <2>1, <2>2, SeqEqual
  <2> QED BY <2>3 DEF s
<1> QED BY <1>3, <1>4, <1>5, <1>6

\* What two keys end with.
LEMMA EndsOfTwo ==
  ASSUME NEW x, NEW y
  PROVE  IsSuffix(<<y>>, <<x, y>>) /\ IsSuffix(<<x, y>>, <<x, y>>)
<1>1. Reverse(<<y>>) = <<y>> /\ Reverse(<<x, y>>) = <<y, x>>
  BY DEF Reverse
<1>2. SubSeq(<<y>>, 1, 1) = <<y>> /\ SubSeq(<<y, x>>, 1, 1) = <<y>>
        /\ SubSeq(<<y, x>>, 1, 2) = <<y, x>>
  BY OneOrTwo
<1> QED BY <1>1, <1>2 DEF IsSuffix, IsPrefix

\* What two keys begin has three.
LEMMA TwoBeginNothing ==
  ASSUME NEW x, NEW y, NEW l \in Listeners, NEW s \in Shortcuts[l]
  PROVE  ~IsStrictPrefix(<<x, y>>, s)
<1> SUFFICES ASSUME IsStrictPrefix(<<x, y>>, s) PROVE FALSE
  OBVIOUS
<1>1. IsPrefix(<<x, y>>, s) /\ <<x, y>> # s
  BY DEF IsStrictPrefix
<1>2. CASE \E k : s = <<k>>
  BY <1>1, <1>2 DEF IsPrefix
<1>3. ASSUME NEW k, NEW m, s = <<k, m>> PROVE FALSE
  <2>1. SubSeq(<<x, y>>, 1, 2) = SubSeq(<<k, m>>, 1, 2)
    BY <1>1, <1>3 DEF IsPrefix
  <2>2. SubSeq(<<x, y>>, 1, 2) = <<x, y>> /\ SubSeq(<<k, m>>, 1, 2) = <<k, m>>
    BY OneOrTwo
  <2> QED BY <1>1, <1>3, <2>1, <2>2
<1> QED BY <1>2, <1>3, ShortcutsAreShort

\* What a listener makes of a key.
LEMMA KeyHandled ==
  ASSUME KeysInOrder, NEW l \in Listeners, NEW key
  PROVE  LET new == HandleKeyDown(l, key) IN
         /\ new.seq \in {<<>>, <<key>>} /\ new.timer \in BOOLEAN
         /\ new.timer <=> new.seq # <<>>
         /\ new.seq # <<>> => \E s \in Shortcuts[l] : IsStrictPrefix(new.seq, s)
         /\ \A a \in new.act :
               /\ IsSuffix(a[2], <<recent[2], key>>) /\ a[2] \in ShortcutRows
               /\ Condition(a[2])
<1> DEFINE soFar == Append(pressed[l], key)
           does(k) == k \in Shortcuts[l] /\ Condition(k)
           new == HandleKeyDown(l, key)
<1>1. soFar = <<key>> \/ soFar = <<recent[2], key>>
  <2>1. pressed[l] = <<>> \/ pressed[l] = <<recent[2]>>
    BY DEF KeysInOrder
  <2> QED BY <2>1, OneOrTwo
<1>2. \A k : does(k) => k \in ShortcutRows /\ Condition(k)
  BY ShortcutsAreShort
<1>3. IsSuffix(soFar, <<recent[2], key>>) /\ IsSuffix(<<key>>, <<recent[2], key>>)
  BY <1>1, EndsOfTwo
<1>4. CASE does(soFar)
  <2>1. new = [seq |-> <<>>, timer |-> FALSE, act |-> {<<l, soFar>>}]
    BY <1>4 DEF HandleKeyDown
  <2> HIDE DEF soFar, does, new
  <2> QED BY <1>2, <1>3, <1>4, <2>1 DEF new
<1>5. CASE ~does(soFar) /\ \E s \in Shortcuts[l] : IsStrictPrefix(soFar, s)
  <2>1. new = [seq |-> soFar, timer |-> TRUE, act |-> {}]
    BY <1>5 DEF HandleKeyDown
  <2>2. soFar = <<key>>
    BY <1>1, <1>5, TwoBeginNothing
  <2> HIDE DEF soFar, does, new
  <2> QED BY <1>5, <2>1, <2>2 DEF new
<1>6. CASE ~does(soFar) /\ ~\E s \in Shortcuts[l] : IsStrictPrefix(soFar, s)
  <2>1. new = [seq |-> <<>>, timer |-> FALSE, act |-> IF does(<<key>>) THEN {<<l, <<key>>>>} ELSE {}]
    BY <1>6 DEF HandleKeyDown
  <2> HIDE DEF soFar, does, new
  <2> QED BY <1>2, <1>3, <2>1 DEF new
<1> QED BY <1>4, <1>5, <1>6

\* A key, heard by every listener that is mounted.
LEMMA KeyPressed ==
  ASSUME KeysInOrder, NEW key \in Keys, KeyDown(key)
  PROVE  KeysInOrder'
<1> DEFINE heard == Mounted(shellPage)
           new == [l \in heard |-> HandleKeyDown(l, key)]
           acts == UNION {new[l].act : l \in heard}
<1>1. heard \subseteq Listeners /\ Mounted(shellPage') \subseteq Listeners
  BY FourListeners DEF Mounted, ListenerOf
<1>2. /\ recent' = <<recent[2], key>> /\ acted' = acts
      /\ openedAt' = IF Does(acts, <<"Enter">>) THEN [at |-> grid.at, of |-> grid.size] ELSE openedAt
      /\ pressed' = [l \in Listeners |->
            IF l \in heard /\ l \in Mounted(shellPage') THEN new[l].seq
            ELSE IF l \in Mounted(shellPage') THEN pressed[l] ELSE <<>>]
      /\ expiringKeys' = {l \in heard \cap Mounted(shellPage') : new[l].timer /\ overlay' = overlay}
  BY DEF KeyDown
<1>3. \A l \in heard :
         /\ new[l].seq \in {<<>>, <<key>>} /\ new[l].timer \in BOOLEAN
         /\ new[l].timer <=> new[l].seq # <<>>
         /\ new[l].seq # <<>> => \E s \in Shortcuts[l] : IsStrictPrefix(new[l].seq, s)
         /\ \A a \in new[l].act :
               IsSuffix(a[2], <<recent[2], key>>) /\ a[2] \in ShortcutRows /\ Condition(a[2])
  BY <1>1, KeyHandled
<1> HIDE DEF new
<1>4. \A a \in acts :
         IsSuffix(a[2], <<recent[2], key>>) /\ a[2] \in ShortcutRows /\ Condition(a[2])
  BY <1>3
<1>5. \A a \in acted' : IsSuffix(a[2], recent') /\ a[2] \in ShortcutRows
  BY <1>2, <1>4
<1>6. openedAt'.at < openedAt'.of \/ openedAt'.at = -1
  <2>1. CASE Does(acts, <<"Enter">>)
    <3>1. Condition(<<"Enter">>)
      BY <1>4, <2>1 DEF Does
    <3>2. <<"Enter">> \notin {<<"j">>, <<"k">>}
      OBVIOUS
    <3>3. grid.at >= 0 /\ grid.at < grid.size
      BY <3>1, <3>2 DEF Condition
    <3> QED BY <1>2, <2>1, <3>3
  <2>2. CASE ~Does(acts, <<"Enter">>)
    BY <1>2, <2>2 DEF KeysInOrder, ActsAreAsked
  <2> QED BY <2>1, <2>2
<1>7. recent'[2] = key /\ recent'[1] = recent[2]
  BY <1>2
<1> HIDE DEF heard, acts
<1>8. ASSUME NEW l \in Listeners
      PROVE  /\ pressed'[l] \in {<<>>, <<recent'[2]>>}
             /\ pressed'[l] # <<>> => \E s \in Shortcuts[l] : IsStrictPrefix(pressed'[l], s)
             /\ pressed'[l] # <<>> => l \in Mounted(shellPage')
             /\ l \in expiringKeys' => pressed'[l] # <<>>
  <2>1. CASE l \in heard /\ l \in Mounted(shellPage')
    BY <1>2, <1>3, <1>7, <2>1
  <2>2. CASE l \notin heard
    <3>1. pressed[l] = <<>>
      BY <2>2 DEF KeysInOrder, heard
    <3> QED BY <1>2, <2>2, <3>1
  <2>3. CASE l \notin Mounted(shellPage')
    BY <1>2, <2>3
  <2> QED BY <2>1, <2>2, <2>3
<1>9. pressed' \in [Listeners -> {<<>>, <<recent'[2]>>}]
  BY <1>2, <1>8
<1> QED BY <1>2, <1>5, <1>6, <1>7, <1>8, <1>9 DEF KeysInOrder, ActsAreAsked

\* The shell as it is mounted.
LEMMA ShellInitially == ShellInit => ShellInOrder
<1> SUFFICES ASSUME ShellInit PROVE ShellInOrder
  OBVIOUS
<1> USE DEF ShellInit
<1>1. recent[1] = "none" /\ recent[2] = "none"
  OBVIOUS
<1>2. KeysInOrder
  BY <1>1 DEF KeysInOrder, ActsAreAsked
<1>3. BannerInOrder
  BY DEF BannerInOrder, RestoredIsBrief
<1> QED BY <1>2, <1>3 DEF ShellInOrder

\* Keys, timers, changes of the page and of the connection.
LEMMA ShellStep == ShellInOrder /\ [ShellNext]_shellVars => ShellInOrder'
<1> SUFFICES ASSUME ShellInOrder, [ShellNext]_shellVars PROVE ShellInOrder'
  OBVIOUS
<1>0. KeysInOrder /\ BannerInOrder
  BY DEF ShellInOrder
<1>1. ASSUME UNCHANGED keyVars PROVE KeysInOrder'
  BY <1>0, <1>1 DEF keyVars, KeysInOrder, ActsAreAsked
<1>2. ASSUME UNCHANGED bannerVars PROVE BannerInOrder'
  BY <1>0, <1>2 DEF bannerVars, BannerInOrder, RestoredIsBrief
<1>3. ASSUME NEW key \in Keys, KeyDown(key) PROVE ShellInOrder'
  BY <1>0, <1>2, <1>3, KeyPressed DEF KeyDown, ShellInOrder
<1>4. CASE Write
  <2>1. KeysInOrder'
    BY <1>0, <1>4 DEF Write, KeysInOrder, ActsAreAsked
  <2> QED BY <1>2, <1>4, <2>1 DEF Write, ShellInOrder
<1>5. CASE ChangeFocus
  <2>1. KeysInOrder'
    BY <1>0, <1>5 DEF ChangeFocus, KeysInOrder, ActsAreAsked
  <2> QED BY <1>2, <1>5, <2>1 DEF ChangeFocus, ShellInOrder
<1>6. CASE CloseOverlay
  <2>1. KeysInOrder'
    BY <1>0, <1>6 DEF CloseOverlay, KeysInOrder, ActsAreAsked
  <2> QED BY <1>2, <1>6, <2>1 DEF CloseOverlay, ShellInOrder
<1>7. ASSUME NEW k \in Listeners, ShortcutExpires(k) PROVE ShellInOrder'
  <2>1. KeysInOrder'
    BY <1>0, <1>7 DEF ShortcutExpires, KeysInOrder, ActsAreAsked
  <2> QED BY <1>2, <1>7, <2>1 DEF ShortcutExpires, ShellInOrder
<1>8. ASSUME NEW k \in Listeners, Rerender(k) PROVE ShellInOrder'
  <2>1. KeysInOrder'
    BY <1>0, <1>8 DEF Rerender, KeysInOrder, ActsAreAsked
  <2> QED BY <1>2, <1>8, <2>1 DEF Rerender, ShellInOrder
<1>9. ASSUME NEW to \in {"grants", "grant", "milestone", "other"}, FollowLink(to) PROVE ShellInOrder'
  <2>1. "shell" \in Mounted(shellPage')
    BY DEF Mounted
  <2>2. KeysInOrder'
    BY <1>0, <1>9, <2>1 DEF FollowLink, KeysInOrder, ActsAreAsked
  <2> QED BY <1>2, <1>9, <2>2 DEF FollowLink, ShellInOrder
<1>10. ASSUME NEW size \in 0..MaxGrid, GridChanges(size) PROVE ShellInOrder'
  <2>1. KeysInOrder'
    BY <1>0, <1>10 DEF GridChanges, KeysInOrder, ActsAreAsked
  <2> QED BY <1>2, <1>10, <2>1 DEF GridChanges, ShellInOrder
<1>11. CASE HandleOffline \/ HandleOnline \/ BannerTimer
  <2>1. BannerInOrder'
    BY <1>0, <1>11 DEF HandleOffline, HandleOnline, BannerTimer, BannerInOrder, RestoredIsBrief
  <2> QED BY <1>1, <1>11, <2>1 DEF HandleOffline, HandleOnline, BannerTimer, ShellInOrder
<1>12. CASE UNCHANGED shellVars
  BY <1>1, <1>2, <1>12 DEF shellVars, ShellInOrder
<1> QED BY <1>3, <1>4, <1>5, <1>6, <1>7, <1>8, <1>9, <1>10, <1>11, <1>12 DEF ShellNext

\* Keys do what was asked, and banners are brief.
LEMMA ShellSound == ShellInOrder => ShellIsSound
  BY DEF ShellInOrder, KeysInOrder, BannerInOrder, ShellIsSound, KeysCanGoOn

-----------------------------------------------------------------------------
(* What the calculator distributes.                                        *)

\* A sum along a list is the sum over its positions.
LEMMA SumOfIsSum == ASSUME NEW s PROVE SumOf(s) = Sum(s, DOMAIN s)
  BY DEF SumOf, FoldSeq, FoldFunction, Sum, SumFunctionOnSet, FoldFunctionOnSet, MapThenFoldSet

Even(x) == \E k \in Int : x = 2 * k

\* A fraction is rounded to a whole number of cents, which are two units each.
LEMMA RoundedIsEven ==
  ASSUME NEW x \in Int, NEW d \in Nat \ {0}
  PROVE  RoundCents(x, d) \in Int /\ Even(RoundCents(x, d))
<1> DEFINE k == (x + d) \div (2 * d)
<1>1. 2 * d \in Nat \ {0}
  OBVIOUS
<1>2. k \in Int
  <2> DEFINE e == 2 * d
  <2>1. e \in Nat \ {0} /\ x + d \in Int
    BY <1>1
  <2> HIDE DEF e
  <2>2. (x + d) \div e \in Int
    BY <2>1
  <2> QED BY <2>2 DEF e
<1>3. RoundCents(x, d) = 2 * k
  BY DEF RoundCents
<1> HIDE DEF k
<1> QED BY <1>2, <1>3 DEF Even

\* Half a cent is rounded up.
LEMMA RoundOfWhole ==
  ASSUME NEW x \in Int
  PROVE  RoundCents(x, 1) = x + (x % 2)
<1>1. RoundCents(x, 1) = 2 * ((x + 1) \div 2)
  BY DEF RoundCents
<1>2. 2 * ((x + 1) \div 2) = x + (x % 2)
  OBVIOUS
<1> QED BY <1>1, <1>2

\* What is left after a rounding is given to the last milestone, so that nothing is left,
\* or half a cent too much is given.
LEMMA SettledAddUp ==
  ASSUME NEW n \in Nat \ {0}, NEW r \in [1..n -> Int], NEW b \in Nat,
         Even(SumOf(r)), Even(r[n])
  PROVE  /\ SettledRewards(r, b) \in [1..n -> Int]
         /\ SumOf(SettledRewards(r, b)) = b + (b % 2)
<1> DEFINE diff == RoundCents(b - SumOf(r), 1)
           last == RoundCents(r[n] + diff, 1)
<1>1. DOMAIN r = 1..n /\ IsFiniteSet(1..n) /\ n \in 1..n /\ Len(r) = n
  BY FS_Interval
<1>2. PICK k \in Int : SumOf(r) = 2 * k
  BY DEF Even
<1>3. PICK j \in Int : r[n] = 2 * j
  BY DEF Even
<1>4. diff = b - 2 * k + (b % 2)
  <2>1. (b - 2 * k) % 2 = b % 2 /\ b - 2 * k \in Int
    OBVIOUS
  <2> QED BY <1>2, <2>1, RoundOfWhole
<1>5. last = 2 * j + diff
  <2>1. (b + (b % 2)) % 2 = 0 /\ b % 2 \in Int
    OBVIOUS
  <2>2. diff \in Int /\ r[n] + diff \in Int /\ (r[n] + diff) % 2 = 0
    BY <1>3, <1>4, <2>1
  <2> HIDE DEF diff
  <2>3. last = (r[n] + diff) + ((r[n] + diff) % 2)
    BY <2>2, RoundOfWhole
  <2> HIDE DEF last
  <2> QED BY <1>3, <2>2, <2>3
<1>6. SettledRewards(r, b) = [r EXCEPT ![n] = last]
  BY <1>1 DEF SettledRewards
<1>7. last \in Int /\ diff \in Int
  BY <1>4, <1>5
<1> HIDE DEF diff, last
<1> DEFINE s == [r EXCEPT ![n] = last]
<1>8. s \in [1..n -> Int] /\ s[n] = last /\ \A i \in 1..n : i # n => s[i] = r[i]
  BY <1>1, <1>7
<1> HIDE DEF s
<1>9. Summands(r, 1..n)
  BY <1>1 DEF Summands
<1>10. Sum(s, 1..n) = Sum(r, 1..n) - r[n] + s[n]
  BY <1>1, <1>7, <1>8, <1>9, SumChange
<1>11. SumOf(s) = Sum(s, 1..n) /\ SumOf(r) = Sum(r, 1..n)
  BY <1>1, <1>8, SumOfIsSum
<1>12. SumOf(s) = 2 * k - 2 * j + (2 * j + (b - 2 * k + (b % 2)))
  BY <1>2, <1>3, <1>4, <1>5, <1>8, <1>10, <1>11
<1>13. SumOf(s) = b + (b % 2)
  BY <1>12
<1> QED BY <1>6, <1>8, <1>13 DEF s

\* Rewards of whole cents add up to whole cents.
LEMMA EvenSum ==
  ASSUME NEW n \in Nat, NEW r \in [1..n -> Int], \A i \in 1..n : Even(r[i])
  PROVE  Even(SumOf(r))
<1> DEFINE S == 1..n
           half == [i \in S |-> CHOOSE k \in Int : r[i] = 2 * k]
<1>1. \A i \in S : half[i] \in Int /\ r[i] = 2 * half[i]
  BY DEF Even
<1>2. IsFiniteSet(S) /\ DOMAIN r = S
  BY FS_Interval
<1> HIDE DEF S, half
<1>3. Summands(half, S)
  BY <1>1, <1>2 DEF Summands
<1>4. \A i \in S : r[i] = Linear(2, half[i], 0, half[i])
  BY <1>1 DEF Linear
<1>5. 2 \in Int /\ 0 \in Int
  OBVIOUS
<1>6. Sum(r, S) = Linear(2, Sum(half, S), 0, Sum(half, S))
  BY <1>3, <1>4, <1>5, SumScaled
<1>7. Sum(half, S) \in Int
  BY <1>3, SumType
<1>8. SumOf(r) = 2 * Sum(half, S)
  BY <1>2, <1>6, <1>7, SumOfIsSum DEF Linear
<1> QED BY <1>7, <1>8 DEF Even

\* Rewards of whole cents are distributed whole.
LEMMA EvenAddUp ==
  ASSUME NEW n \in Nat \ {0}, NEW r \in [1..n -> Int], NEW b \in Nat,
         \A i \in 1..n : Even(r[i])
  PROVE  /\ SettledRewards(r, b) \in [1..n -> Int]
         /\ SumOf(SettledRewards(r, b)) = b + (b % 2)
<1>1. n \in Nat /\ n \in 1..n
  OBVIOUS
<1>2. Even(SumOf(r)) /\ Even(r[n])
  BY <1>1, EvenSum
<1> QED BY <1>2, SettledAddUp

\* Weights that are at least 1 add up to no less.
LEMMA WeightsAreSome ==
  ASSUME NEW n \in Nat \ {0}, NEW w \in [1..n -> Nat \ {0}]
  PROVE  SumOf(w) \in Nat \ {0}
<1> DEFINE S == 1..n
           one == [i \in S |-> 1]
<1>1. IsFiniteSet(S) /\ Cardinality(S) = n /\ DOMAIN w = S
  BY FS_Interval
<1>2. \A i \in S : one[i] = 1 /\ w[i] \in Int /\ one[i] <= w[i]
  OBVIOUS
<1> HIDE DEF S, one
<1>3. Summands(w, S) /\ Summands(one, S)
  BY <1>1, <1>2 DEF Summands
<1>4. Sum(one, S) <= Sum(w, S) /\ Sum(w, S) \in Int
  BY <1>2, <1>3, SumMonotone, SumType
<1>5. Sum(one, S) = 1 * Cardinality(S)
  <2>1. 1 \in Int
    OBVIOUS
  <2> QED BY <1>1, <1>2, <2>1, SumConstant
<1> QED BY <1>1, <1>4, <1>5, SumOfIsSum

\* The three modes give every milestone a reward, and the rewards add up to the budget,
\* or to half a cent more.
LEMMA DistributionAddsUp ==
  ASSUME NEW mode, NEW n \in Nat \ {0}, NEW budget \in Nat,
         NEW w, mode \notin {"equal", "front"} => w \in [1..n -> Nat \ {0}]
  PROVE  /\ Distribution(mode, budget, n, w) \in [1..n -> Int]
         /\ SumOf(Distribution(mode, budget, n, w)) = budget + (budget % 2)
<1>1. CASE mode = "equal"
  <2>1. Distribution(mode, budget, n, w) = SettledRewards(Equal(budget, n), budget)
    BY <1>1 DEF Distribution
  <2>2. RoundCents(budget, n) \in Int /\ Even(RoundCents(budget, n))
    BY RoundedIsEven
  <2> DEFINE r == Equal(budget, n)
  <2>3. r \in [1..n -> Int] /\ \A i \in 1..n : Even(r[i])
    BY <2>2 DEF Equal
  <2> HIDE DEF r
  <2>4. SettledRewards(r, budget) \in [1..n -> Int] /\ SumOf(SettledRewards(r, budget)) = budget + (budget % 2)
    BY <2>3, EvenAddUp
  <2> QED BY <2>1, <2>4 DEF r
<1>2. CASE mode = "front"
  <2>1. Distribution(mode, budget, n, w) = SettledRewards(FrontLoad(budget, n), budget)
    BY <1>2 DEF Distribution
  <2> DEFINE share == FrontLoad(budget, n)
  <2>a. ASSUME share \in [1..n -> Int], \A i \in 1..n : Even(share[i])
        PROVE  /\ SettledRewards(share, budget) \in [1..n -> Int]
               /\ SumOf(SettledRewards(share, budget)) = budget + (budget % 2)
    <3> HIDE DEF share
    <3> QED BY <2>a, EvenAddUp
  <2>2. CASE n = 1
    <3> DEFINE r == <<budget>>
    <3>1. FrontLoad(budget, n) = r
      BY <2>2 DEF FrontLoad
    <3>2. r \in [1..1 -> Int] /\ DOMAIN r = {1} /\ r[1] = budget /\ Len(r) = 1
      OBVIOUS
    <3> HIDE DEF r
    <3>3. SumOf(r) = budget
      <4>0. budget \in Int
        OBVIOUS
      <4>1. IsFiniteSet({1}) /\ Cardinality({1}) = 1
        BY FS_Singleton, Zenon
      <4>2. \A x \in {1} : r[x] = budget
        BY <3>2
      <4>3. Sum(r, {1}) = budget * Cardinality({1})
        BY <4>0, <4>1, <4>2, SumConstant
      <4> QED BY <3>2, <4>0, <4>1, <4>3, SumOfIsSum
    <3>4. RoundCents(budget - SumOf(r), 1) = 0
      <4>1. 0 \in Int /\ 0 % 2 = 0 /\ budget - SumOf(r) = 0
        BY <3>3
      <4> QED BY <4>1, RoundOfWhole
    <3> DEFINE last == budget + (budget % 2)
               s == [r EXCEPT ![1] = last]
    <3>5. RoundCents(r[1] + RoundCents(budget - SumOf(r), 1), 1) = last
      <4>1. r[1] + RoundCents(budget - SumOf(r), 1) = budget /\ budget \in Int
        BY <3>2, <3>4
      <4> QED BY <4>1, RoundOfWhole
    <3>6. SettledRewards(r, budget) = s
      <4> HIDE DEF last
      <4>1. Len(r) # 0 /\ 1 \in DOMAIN r
        BY <3>2
      <4> QED BY <3>2, <3>5, <4>1 DEF SettledRewards
    <3>7. last \in Int
      OBVIOUS
    <3> HIDE DEF last
    <3>8. s \in [1..1 -> Int] /\ DOMAIN s = {1} /\ s[1] = last
      BY <3>2, <3>7
    <3> HIDE DEF s
    <3>9. SumOf(s) = last
      <4>1. IsFiniteSet({1}) /\ Cardinality({1}) = 1
        BY FS_Singleton
      <4>2. \A x \in {1} : s[x] = last
        BY <3>8
      <4>3. Sum(s, {1}) = last * Cardinality({1})
        BY <3>7, <4>1, <4>2, SumConstant
      <4> QED BY <3>7, <3>8, <4>1, <4>3, SumOfIsSum
    <3> QED BY <2>1, <2>2, <3>1, <3>6, <3>8, <3>9 DEF last
  <2>3. CASE n = 2
    <3> DEFINE a == RoundCents(budget * 6, 10)
               b == RoundCents(budget - a, 1)
    <3>1. FrontLoad(budget, n) = <<a, b>>
      BY <2>3 DEF FrontLoad
    <3>2. a \in Int /\ Even(a)
      <4> DEFINE x == budget * 6
      <4>1. x \in Int /\ 10 \in Nat \ {0}
        OBVIOUS
      <4> HIDE DEF x
      <4>2. RoundCents(x, 10) \in Int /\ Even(RoundCents(x, 10))
        BY <4>1, RoundedIsEven
      <4> QED BY <4>2 DEF x
    <3>3. b \in Int /\ Even(b)
      <4> HIDE DEF a
      <4> DEFINE x == budget - a
      <4>1. x \in Int /\ 1 \in Nat \ {0}
        BY <3>2
      <4> HIDE DEF x
      <4>2. RoundCents(x, 1) \in Int /\ Even(RoundCents(x, 1))
        BY <4>1, RoundedIsEven
      <4> QED BY <4>2 DEF x
    <3> HIDE DEF a, b
    <3>4. FrontLoad(budget, n) \in [1..n -> Int] /\ \A i \in 1..n : Even(FrontLoad(budget, n)[i])
      <4>1. <<a, b>> \in [1..2 -> Int] /\ \A i \in 1..2 : <<a, b>>[i] \in {a, b}
        BY <3>2, <3>3
      <4> QED BY <2>3, <3>1, <3>2, <3>3, <4>1
    <3> QED BY <2>1, <2>a, <3>4
  <2>4. CASE n # 1 /\ n # 2
    <3> DEFINE first == RoundCents(budget * 5, 10)
               second == RoundCents(budget * 3, 10)
               rest == RoundCents(budget - first - second, n - 2)
    <3>1. FrontLoad(budget, n) = [i \in 1..n |-> IF i = 1 THEN first ELSE IF i = 2 THEN second ELSE rest]
      BY <2>4 DEF FrontLoad
    <3>2. first \in Int /\ second \in Int /\ Even(first) /\ Even(second)
      <4> DEFINE x == budget * 5
                 y == budget * 3
      <4>1. x \in Int /\ y \in Int /\ 10 \in Nat \ {0}
        OBVIOUS
      <4> HIDE DEF x, y
      <4>2. /\ RoundCents(x, 10) \in Int /\ Even(RoundCents(x, 10))
            /\ RoundCents(y, 10) \in Int /\ Even(RoundCents(y, 10))
        BY <4>1, RoundedIsEven
      <4> QED BY <4>2 DEF x, y
    <3>3. rest \in Int /\ Even(rest)
      <4> HIDE DEF first, second
      <4>1. n - 2 \in Nat \ {0} /\ budget - first - second \in Int
        BY <2>4, <3>2
      <4> QED BY <4>1, RoundedIsEven
    <3> HIDE DEF first, second, rest
    <3>4. FrontLoad(budget, n) \in [1..n -> Int] /\ \A i \in 1..n : Even(FrontLoad(budget, n)[i])
      BY <3>1, <3>2, <3>3
    <3> QED BY <2>1, <2>a, <3>4
  <2> QED BY <2>2, <2>3, <2>4
<1>3. CASE mode \notin {"equal", "front"}
  <2>1. Distribution(mode, budget, n, w) = SettledRewards(Weighted(budget, w), budget)
    BY <1>3 DEF Distribution
  <2>2. SumOf(w) \in Nat \ {0} /\ w \in [1..n -> Nat \ {0}]
    BY <1>3, WeightsAreSome
  <2>3. ASSUME NEW i \in 1..n
        PROVE  RoundCents(w[i] * budget, SumOf(w)) \in Int /\ Even(RoundCents(w[i] * budget, SumOf(w)))
    <3>1. w[i] \in Nat
      BY <2>2
    <3> DEFINE x == w[i] * budget
    <3>2. x \in Int
      BY <3>1
    <3> HIDE DEF x
    <3>3. RoundCents(x, SumOf(w)) \in Int /\ Even(RoundCents(x, SumOf(w)))
      BY <2>2, <3>2, RoundedIsEven
    <3> QED BY <3>3 DEF x
  <2>4. /\ DOMAIN w = 1..n
        /\ Weighted(budget, w) = [i \in 1..n |-> RoundCents(w[i] * budget, SumOf(w))]
    BY <2>2 DEF Weighted
  <2> DEFINE r == Weighted(budget, w)
  <2>5. r \in [1..n -> Int] /\ \A i \in 1..n : Even(r[i])
    BY <2>3, <2>4
  <2> HIDE DEF r
  <2>6. SettledRewards(r, budget) \in [1..n -> Int] /\ SumOf(SettledRewards(r, budget)) = budget + (budget % 2)
    BY <2>5, EvenAddUp
  <2> QED BY <2>1, <2>6 DEF r
<1> QED BY <1>1, <1>2, <1>3

\* Rewards for every milestone are the rewards.
LEMMA RewardsAreGiven ==
  ASSUME FormType(form), NEW n \in Nat \ {0}, n = Len(form.milestones),
         NEW r \in [1..n -> Int], OnDistribute(r)
  PROVE  Rewards(form') = r /\ form'.budget = form.budget
<1> DEFINE m == WithRewards(form.milestones, r)
<1>1. Len(r) = n /\ n \in Nat /\ DOMAIN r = 1..n
  OBVIOUS
<1>2. Max({Len(form.milestones), Len(r)}) = n
  BY <1>1, MaxOfTwo
<1>3. DOMAIN m = 1..n /\ \A i \in 1..n : m[i].reward = r[i]
  <2> DEFINE Name(i) == i <= Len(form.milestones) /\ form.milestones[i].named
             Reward(i) == IF i <= n THEN r[i] ELSE form.milestones[i].reward
  <2>1. m = [i \in 1..n |-> [reward |-> Reward(i), named |-> Name(i)]]
    BY <1>1, <1>2, Zenon DEF WithRewards
  <2> HIDE DEF m, Name
  <2>2. \A i \in 1..n : Reward(i) = r[i]
    BY <1>1
  <2> HIDE DEF Reward
  <2> QED BY <2>1, <2>2
<1>4. form' = [form EXCEPT !.milestones = m]
  BY DEF OnDistribute
<1> HIDE DEF m
<1>5. form'.milestones = m /\ form'.budget = form.budget
  BY <1>4 DEF FormType
<1>6. Rewards(form') = [i \in 1..n |-> r[i]]
  BY <1>3, <1>5 DEF Rewards
<1> QED BY <1>1, <1>5, <1>6

\* What the calculator divides by is there: rows, and a weight for each, or none.
WeightsFor(c, n) == c.weights = <<>> \/ c.weights \in [1..n -> Nat \ {0}]
CalcInOrder ==
    /\ formRows > 0 /\ WeightsFor(calc, formRows)
    /\ draft # NoDraft => Len(draft.form.milestones) > 0
    /\ storedDraft # NothingStored => Len(storedDraft.draft.form.milestones) > 0

\* The calculator before step 2 is opened.
LEMMA CalcInitially == FormInit => CalcInOrder
  BY DEF FormInit, CalcInOrder, WeightsFor, FreshCalc

\* Weights that start anew are one for each row.
LEMMA ResetWeights ==
  ASSUME CalcType(calc), NEW n \in Nat PROVE WeightsFor(Reset(n), n)
<1>1. Reset(n).weights = [i \in 1..n |-> 1]
  BY DEF Reset, CalcType
<1> QED BY <1>1 DEF WeightsFor

\* Every step of the form keeps the rows and the weights together.
LEMMA CalcStep == FormInOrder /\ CalcInOrder /\ [FormNext]_formVars => CalcInOrder'
<1> SUFFICES ASSUME FormInOrder, CalcInOrder, [FormNext]_formVars PROVE CalcInOrder'
  OBVIOUS
<1>0. /\ FormType(form) /\ CalcType(calc) /\ IsSomeSeq(form.milestones)
      /\ Len(form.milestones) \in Nat /\ formRows \in 1..Len(form.milestones)
  BY SeqFacts DEF FormInOrder, WorkDone, FormType, CalcInOrder
<1>a. WeightsFor(FreshCalc, formRows') /\ FreshCalc.weights = <<>>
  BY DEF WeightsFor, FreshCalc
<1>1. ASSUME UNCHANGED <<formRows, draft, storedDraft>>, calc'.weights = calc.weights \/ calc' = FreshCalc
      PROVE  CalcInOrder'
  BY <1>a, <1>1 DEF CalcInOrder, WeightsFor
<1>2. CASE Continue
  BY <1>1, <1>2 DEF Continue
<1>3. ASSUME NEW to \in 1..3, GoBack(to) PROVE CalcInOrder'
  BY <1>0, <1>3, <1>a DEF GoBack, CalcInOrder
<1>4. ASSUME NEW valid \in BOOLEAN, NEW budget \in Budgets, EditBasics(valid, budget)
      PROVE  CalcInOrder'
  BY <1>1, <1>4 DEF EditBasics
\* The rows are those of the milestones, and the weights start anew.
<1>5. ASSUME NEW n \in Nat \ {0}, formRows' = n, calc' = Reset(formRows'), UNCHANGED <<draft, storedDraft>>
      PROVE  CalcInOrder'
  <2>1. WeightsFor(Reset(n), n)
    BY <1>0, ResetWeights
  <2> QED BY <1>5, <2>1 DEF CalcInOrder, WeightsFor
<1>6. CASE AddMilestone
  <2> DEFINE m == Append(form.milestones, [reward |-> 0, named |-> FALSE])
  <2>1. /\ form'.milestones = m
        /\ formRows' = Len(form'.milestones) /\ calc' = Reset(formRows')
        /\ UNCHANGED <<draft, storedDraft>>
    BY <1>0, <1>6 DEF AddMilestone, FormType
  <2>2. Len(m) = Len(form.milestones) + 1
    <3>1. PICK S : form.milestones \in Seq(S)
      BY <1>0 DEF IsSomeSeq
    <3>2. form.milestones \in Seq(S \cup {[reward |-> 0, named |-> FALSE]})
      BY <3>1
    <3> QED BY <3>2, AppendProperties
  <2> HIDE DEF m
  <2> QED BY <1>0, <1>5, <2>1, <2>2
<1>7. ASSUME NEW i \in 1..MaxMilestones, RemoveMilestone(i) PROVE CalcInOrder'
  <2> DEFINE m == RemoveAt(form.milestones, i)
  <2>1. /\ form'.milestones = m /\ i \in 1..formRows /\ formRows > 1
        /\ formRows' = Len(form'.milestones) /\ calc' = Reset(formRows')
        /\ UNCHANGED <<draft, storedDraft>>
    BY <1>0, <1>7 DEF RemoveMilestone, FormType
  <2>2. Len(m) = Len(form.milestones) - 1
    <3>1. PICK S : form.milestones \in Seq(S)
      BY <1>0 DEF IsSomeSeq
    <3>2. i \in 1..Len(form.milestones)
      BY <1>0, <2>1
    <3> QED BY <3>1, <3>2, Removed
  <2> HIDE DEF m
  <2> QED BY <1>0, <1>5, <2>1, <2>2
<1>8. ASSUME NEW i \in 1..MaxMilestones, NEW j \in 1..MaxMilestones, MoveMilestone(i, j)
      PROVE  CalcInOrder'
  BY <1>1, <1>8 DEF MoveMilestone
<1>9. ASSUME NEW i \in 1..MaxMilestones, NEW reward \in Budgets, EditMilestone(i, reward)
      PROVE  CalcInOrder'
  BY <1>1, <1>9 DEF EditMilestone
<1>10. ASSUME NEW mode \in {"equal", "front", "custom"}, Distribute(mode) PROVE CalcInOrder'
  BY <1>1, <1>10 DEF Distribute, DistributeBy
<1>11. ASSUME NEW i \in 1..MaxMilestones, NEW weight \in 1..2, UpdateWeight(i, weight)
       PROVE  CalcInOrder'
  <2> DEFINE w == [calc.weights EXCEPT ![i] = weight]
  <2>1. calc'.weights = w /\ UNCHANGED <<formRows, draft, storedDraft>> /\ i \in DOMAIN calc.weights
    BY <1>11 DEF UpdateWeight, DistributeBy
  <2>2. calc.weights \in [1..formRows -> Nat \ {0}]
    BY <2>1 DEF CalcInOrder, WeightsFor
  <2>3. w \in [1..formRows -> Nat \ {0}]
    <3>1. weight \in Nat \ {0}
      OBVIOUS
    <3> DEFINE Some == Nat \ {0}
               old == calc.weights
    <3>2. old \in [1..formRows -> Some] /\ weight \in Some
      BY <2>2, <3>1
    <3> HIDE DEF Some, old
    <3>3. [old EXCEPT ![i] = weight] \in [1..formRows -> Some]
      BY <3>2
    <3> QED BY <3>3 DEF old, Some
  <2> HIDE DEF w
  <2> QED BY <2>1, <2>3 DEF CalcInOrder, WeightsFor
<1>12. CASE CloseCustom \/ HideUndo \/ Undo
  <2>1. UNCHANGED <<formRows, draft, storedDraft>> /\ calc'.weights = calc.weights
    BY <1>0, <1>12 DEF CloseCustom, HideUndo, Undo, CalcType
  <2> QED BY <1>1, <2>1
<1>13. CASE AddReviewerSeat \/ \E seated \in BOOLEAN : RemoveReviewerSeat(seated) \/ EditReviewer(seated)
  BY <1>1, <1>13 DEF AddReviewerSeat, RemoveReviewerSeat, EditReviewer, EditSeats
<1>14. ASSUME NEW quorum, EditQuorum(quorum) PROVE CalcInOrder'
  BY <1>1, <1>14 DEF EditQuorum
<1>15. CASE AutoSave
  <2>1. /\ draft'.form = form /\ storedDraft'.draft.form = form /\ UNCHANGED <<formRows, calc>>
    BY <1>15 DEF AutoSave, SaveDraft
  <2> QED BY <1>0, <2>1 DEF CalcInOrder, WeightsFor
<1>16. CASE Restore
  <2>1. /\ Len(draft.form.milestones) > 0 /\ IsSomeSeq(draft.form.milestones)
        /\ form' = draft.form /\ formRows' = Len(form'.milestones) /\ UNCHANGED <<draft, storedDraft>>
        /\ \/ calc' \in {Reset(formRows'), FreshCalc}
           \/ calc' = calc /\ formRows' = formRows
    BY <1>16 DEF Restore, BannerOffers, CalcInOrder, FormInOrder, WorkDone, FormType
  <2>2. formRows' \in Nat \ {0}
    BY <2>1, SeqFacts
  <2>3. CASE calc' = Reset(formRows')
    BY <1>5, <2>1, <2>2, <2>3
  <2>4. CASE calc' = FreshCalc
    BY <1>a, <2>1, <2>2, <2>4 DEF CalcInOrder
  <2>5. CASE calc' = calc /\ formRows' = formRows
    BY <1>1, <2>1, <2>5
  <2> QED BY <2>1, <2>3, <2>4, <2>5
<1>17. CASE Discard
  BY <1>17 DEF Discard, CalcInOrder, WeightsFor
<1>18. ASSUME NEW later, Reopen(later) PROVE CalcInOrder'
  <2>1. /\ formRows' = 1 /\ calc' = FreshCalc
        /\ \/ storedDraft' = storedDraft /\ storedDraft # NothingStored /\ draft' = storedDraft.draft
           \/ storedDraft' = NothingStored /\ draft' = NoDraft
    BY <1>18 DEF Reopen
  <2> QED BY <1>a, <2>1 DEF CalcInOrder
<1>19. CASE UNCHANGED formVars
  BY <1>1, <1>19 DEF formVars
<1> QED BY <1>2, <1>3, <1>4, <1>6, <1>7, <1>8, <1>9, <1>10, <1>11, <1>12, <1>13, <1>14, <1>15,
        <1>16, <1>17, <1>18, <1>19 DEF FormNext

\* A step of the calculator.
DistributesRight ==
    \A mode \in {"equal", "front", "custom"} :
         Distribute(mode) /\ formRows = Len(form.milestones) /\ (mode = "custom" => calc.weights # <<>>)
            => LET left == form.budget - SumOf(Rewards(form')) IN
               left \in {-1, 0, 1} /\ (form.budget % 2 = 0 => left = 0)

\* The rows are the milestones, and a weight for each is there: the rewards add up.
LEMMA DistributionStep == FormInOrder /\ CalcInOrder => DistributesRight
<1> SUFFICES ASSUME FormInOrder, CalcInOrder, NEW mode \in {"equal", "front", "custom"},
                    Distribute(mode), formRows = Len(form.milestones),
                    mode = "custom" => calc.weights # <<>>
             PROVE  LET left == form.budget - SumOf(Rewards(form')) IN
                    left \in {-1, 0, 1} /\ (form.budget % 2 = 0 => left = 0)
  BY DEF DistributesRight
<1> DEFINE r == Distribution(mode, form.budget, formRows, calc.weights)
<1>1. /\ FormType(form) /\ form.budget \in Nat /\ formRows \in Nat \ {0}
  BY SeqFacts DEF FormInOrder, WorkDone, FormType, CalcInOrder
<1>2. mode \notin {"equal", "front"} => calc.weights \in [1..formRows -> Nat \ {0}]
  BY DEF CalcInOrder, WeightsFor
<1>3. r \in [1..formRows -> Int] /\ SumOf(r) = form.budget + (form.budget % 2)
  BY <1>1, <1>2, DistributionAddsUp
<1>4. OnDistribute(r)
  BY DEF Distribute, DistributeBy
<1> HIDE DEF r
<1>5. Rewards(form') = r /\ form'.budget = form.budget
  BY <1>1, <1>3, <1>4, RewardsAreGiven
<1>6. form.budget - SumOf(r) = 0 - (form.budget % 2) /\ form.budget % 2 \in 0..1
  BY <1>1, <1>3
<1> QED BY <1>5, <1>6

-----------------------------------------------------------------------------
(* What enters the list of notifications.                                  *)

\* The timer runs for a wallet the notification concerns.
SoonConcerns == soon # NoNotice => holder # NoHolder /\ IsRelevant(soon, holder)

\* No timer runs at first.
LEMMA SoonInitially == NoticeInit => SoonConcerns
  BY DEF NoticeInit, SoonConcerns

\* A change of the wallet starts the timer again, or stops it.
LEMMA SoonStep == SoonConcerns /\ [NoticeNext]_noticeVars => SoonConcerns'
<1> SUFFICES ASSUME SoonConcerns, [NoticeNext]_noticeVars PROVE SoonConcerns'
  OBVIOUS
<1>1. ASSUME UNCHANGED <<soon, holder>> PROVE SoonConcerns'
  BY <1>1 DEF SoonConcerns, IsRelevant
<1>2. CASE \/ PulseStarts \/ PulseStops \/ SocketConnects \/ SocketDrops \/ ReconnectFails
           \/ ToggleDrawer \/ MarkAllAsRead \/ ClearAll \/ UNCHANGED noticeVars
  BY <1>1, <1>2 DEF PulseStarts, PulseStops, SocketConnects, SocketDrops, ReconnectFails,
     ToggleDrawer, MarkAllAsRead, ClearAll, noticeVars
<1>3. CASE \/ \E t \in 1..MaxTold : RemoveToast(t)
           \/ \E copied \in BOOLEAN : OnToast(copied)
           \/ \E actors \in Payloads : NoticeArrives(actors)
           \/ \E i \in 1..MaxKept : Navigate(i)
  BY <1>1, <1>3 DEF RemoveToast, OnToast, NoticeArrives, Navigate
<1>4. CASE RenderNotice
  BY <1>4 DEF RenderNotice, SoonConcerns, IsRelevant
<1>5. CASE ListNotice
  BY <1>5 DEF ListNotice, SoonConcerns
<1>6. ASSUME NEW w \in Holder \cup {NoHolder}, ChangeHolder(w) PROVE SoonConcerns'
  BY <1>6 DEF ChangeHolder, SoonConcerns, IsRelevant
<1> QED BY <1>2, <1>3, <1>4, <1>5, <1>6 DEF NoticeNext

\* A list whose first is new, cut off: of its members, only the new one was not listed.
LEMMA ListedOrNew ==
  ASSUME NEW list \in Seq(Item), NEW e \in Nat,
         UpdateList(<<[id |-> e, read |-> FALSE]>> \o list), NEW i \in DOMAIN inbox'
  PROVE  inbox'[i] \in ToSet(list) \/ inbox'[i].id = e
<1> DEFINE one == <<[id |-> e, read |-> FALSE]>>
           both == one \o list
           m == IF MaxKept <= Len(both) THEN MaxKept ELSE Len(both)
<1>1. one \in Seq(Item) /\ Len(one) = 1 /\ one[1].id = e
  BY DEF Item
<1>2. Len(list) \in Nat /\ DOMAIN list = 1..Len(list)
  BY LenProperties
<1> HIDE DEF one
<1>3. /\ both \in Seq(Item) /\ Len(both) = Len(one) + Len(list)
      /\ \A k \in 1..(Len(one) + Len(list)) :
            both[k] = IF k <= Len(one) THEN one[k] ELSE list[k - Len(one)]
  BY <1>1, ConcatProperties
<1>4. /\ both \in Seq(Item) /\ Len(both) = 1 + Len(list)
      /\ \A k \in 1..(1 + Len(list)) : both[k] = IF k <= 1 THEN one[k] ELSE list[k - 1]
  BY <1>1, <1>3
<1>5. inbox' = SubSeq(both, 1, Min({MaxKept, Len(both)}))
  BY DEF UpdateList, one
<1> HIDE DEF both
<1>6. m \in Nat /\ m <= Len(both) /\ Min({MaxKept, Len(both)}) = m
  BY <1>2, <1>4, MinOfTwo, NoticesAssumption
<1> HIDE DEF m
<1>7. \A k \in 1..m : both[k] \in Item
  BY <1>2, <1>4, <1>6, ElementOfSeq
<1>8. inbox' \in Seq(Item) /\ Len(inbox') = m /\ \A k \in 1..m : inbox'[k] = both[k]
  <2> DEFINE kept == SubSeq(both, 1, m)
  <2>1. kept \in Seq(Item) /\ Len(kept) = m /\ \A k \in 1..m : kept[k] = both[k]
    BY <1>6, <1>7, SubSeqProperties
  <2>2. inbox' = kept
    BY <1>5, <1>6
  <2> HIDE DEF kept
  <2> QED BY <2>1, <2>2
<1>9. i \in 1..m /\ i \in 1..(1 + Len(list))
  BY <1>2, <1>4, <1>6, <1>8, LenProperties
<1>10. CASE i = 1
  BY <1>1, <1>4, <1>8, <1>9, <1>10
<1>11. CASE i # 1
  <2>1. i - 1 \in DOMAIN list /\ inbox'[i] = list[i - 1]
    BY <1>2, <1>4, <1>8, <1>9, <1>11
  <2> QED BY <2>1 DEF ToSet
<1> QED BY <1>10, <1>11

\* A step of the notifications.
ListsForAReason ==
    \A i \in DOMAIN inbox' :
          LET item == inbox'[i] IN
          item \notin ToSet(inbox) \cup ToSet(saved) /\ ~item.read =>
              holder # NoHolder /\ item.id \in {sentEvents', soon.id}
              /\ (item.id = soon.id => IsRelevant(soon, holder))

\* What is new on the list is what just came, or what the timer was started for.
LEMMA ReasonStep == NoticesInOrder /\ SoonConcerns /\ [NoticeNext]_noticeVars => ListsForAReason
<1> SUFFICES ASSUME NoticesInOrder, SoonConcerns, [NoticeNext]_noticeVars PROVE ListsForAReason
  OBVIOUS
<1>0. /\ soon \in NoticeType /\ sentEvents \in Nat /\ soon.id <= sentEvents /\ soon.id \in Nat
      /\ inbox \in Seq(Item) /\ DOMAIN inbox = 1..Len(inbox) /\ Len(inbox) \in Nat
  BY LenProperties DEF NoticesInOrder, NoticesTypeOK, ListInOrder, ToastsInOrder, ListOf, OnceEach, NoticeType
<1>1. ASSUME \A i \in DOMAIN inbox' : inbox'[i] \in ToSet(inbox) \cup ToSet(saved) \/ inbox'[i].read
      PROVE  ListsForAReason
  BY <1>1 DEF ListsForAReason
<1>2. ASSUME inbox' \in {inbox, saved, <<>>} PROVE ListsForAReason
  BY <1>1, <1>2 DEF ToSet
<1>3. CASE \/ PulseStarts \/ PulseStops \/ SocketConnects \/ SocketDrops \/ ReconnectFails
           \/ ToggleDrawer \/ ClearAll \/ RenderNotice \/ UNCHANGED noticeVars
  BY <1>2, <1>3 DEF PulseStarts, PulseStops, SocketConnects, SocketDrops, ReconnectFails,
     ToggleDrawer, ClearAll, MarkAsRead, RenderNotice, noticeVars
<1>4. CASE \/ \E t \in 1..MaxTold : RemoveToast(t)
           \/ \E actors \in Payloads : NoticeArrives(actors)
           \/ \E w \in Holder \cup {NoHolder} : ChangeHolder(w)
  BY <1>2, <1>4 DEF RemoveToast, NoticeArrives, ChangeHolder
<1>5. CASE MarkAllAsRead
  <2>1. inbox' = [i \in DOMAIN inbox |-> [inbox[i] EXCEPT !.read = TRUE]]
    BY <1>5 DEF MarkAllAsRead, MarkAsRead
  <2>2. ASSUME NEW i \in DOMAIN inbox' PROVE inbox'[i].read
    <3>1. inbox[i] \in Item /\ inbox'[i] = [inbox[i] EXCEPT !.read = TRUE]
      BY <1>0, <2>1, <2>2, ElementOfSeq
    <3> QED BY <3>1 DEF Item
  <2> QED BY <1>1, <2>2
<1>6. ASSUME NEW k \in 1..MaxKept, Navigate(k) PROVE ListsForAReason
  <2>1. inbox' = [inbox EXCEPT ![k].read = TRUE] /\ k \in DOMAIN inbox
    BY <1>6 DEF Navigate
  <2>2. ASSUME NEW i \in DOMAIN inbox' PROVE inbox'[i] \in ToSet(inbox) \cup ToSet(saved) \/ inbox'[i].read
    <3>1. i \in DOMAIN inbox /\ inbox[i] \in Item
      BY <1>0, <2>1, <2>2, ElementOfSeq
    <3>2. CASE i = k
      <4>1. inbox'[i] = [inbox[i] EXCEPT !.read = TRUE]
        BY <2>1, <3>1, <3>2
      <4> QED BY <3>1, <4>1 DEF Item
    <3>3. CASE i # k
      <4>1. inbox'[i] = inbox[i]
        BY <2>1, <3>1, <3>3
      <4> QED BY <3>1, <4>1 DEF ToSet
    <3> QED BY <3>2, <3>3
  <2> QED BY <1>1, <2>2
<1>7. ASSUME NEW copied \in BOOLEAN, OnToast(copied) PROVE ListsForAReason
  <2>1. CASE copied \/ holder = NoHolder
    BY <1>2, <1>7, <2>1 DEF OnToast
  <2>2. CASE ~copied /\ holder # NoHolder
    <3>1. /\ sentEvents' = sentEvents + 1
          /\ UpdateList(<<[id |-> sentEvents', read |-> FALSE]>> \o inbox)
      BY <1>7, <2>2 DEF OnToast
    <3>2. sentEvents' \in Nat /\ sentEvents' # soon.id
      BY <1>0, <3>1
    <3>3. \A i \in DOMAIN inbox' : inbox'[i] \in ToSet(inbox) \/ inbox'[i].id = sentEvents'
      BY <1>0, <3>1, <3>2, ListedOrNew
    <3> QED BY <2>2, <3>2, <3>3 DEF ListsForAReason
  <2> QED BY <2>1, <2>2
<1>8. CASE ListNotice
  <2> DEFINE rest == Others(inbox, soon.id)
  <2>1. UpdateList(<<[id |-> soon.id, read |-> FALSE]>> \o rest)
    BY <1>8 DEF ListNotice, ListedFirst, Others
  <2>2. rest \in Seq(Item) /\ \A x \in ToSet(rest) : x \in ToSet(inbox)
    <3>1. CASE rest = inbox
      BY <1>0, <3>1
    <3>2. ASSUME NEW k \in 1..Len(inbox), rest = RemoveAt(inbox, k)
          PROVE  rest \in Seq(Item) /\ \A x \in ToSet(rest) : x \in ToSet(inbox)
      <4>1. /\ rest \in Seq(Item) /\ Len(rest) = Len(inbox) - 1
            /\ \A i \in 1..(Len(inbox) - 1) : rest[i] = IF i < k THEN inbox[i] ELSE inbox[i + 1]
        BY <1>0, <3>2, Removed
      <4> HIDE DEF rest
      <4>2. DOMAIN rest = 1..(Len(inbox) - 1)
        BY <4>1, LenProperties
      <4>3. ASSUME NEW i \in DOMAIN rest PROVE rest[i] \in ToSet(inbox)
        <5>1. i \in DOMAIN inbox /\ i + 1 \in DOMAIN inbox
          BY <1>0, <4>2
        <5> QED BY <4>1, <4>2, <5>1 DEF ToSet
      <4> QED BY <4>1, <4>3 DEF ToSet
    <3> QED BY <1>0, <3>1, <3>2, FirstMatch
  <2> HIDE DEF rest
  <2>3. \A i \in DOMAIN inbox' : inbox'[i] \in ToSet(rest) \/ inbox'[i].id = soon.id
    BY <1>0, <2>1, <2>2, ListedOrNew
  <2>4. holder # NoHolder /\ IsRelevant(soon, holder)
    BY <1>8 DEF ListNotice, SoonConcerns
  <2> QED BY <2>2, <2>3, <2>4 DEF ListsForAReason
<1> QED BY <1>3, <1>4, <1>5, <1>6, <1>7, <1>8 DEF NoticeNext

-----------------------------------------------------------------------------
(* What a tab changes.                                                     *)

\* What lies within one member has at most one.
LEMMA OneOrNone ==
  ASSUME NEW S, NEW a, S \subseteq {a} PROVE Cardinality(S) <= 1
<1>1. S = {} \/ S = {a}
  OBVIOUS
<1>2. Cardinality({}) = 0 /\ Cardinality({a}) = 1
  BY FS_EmptySet, FS_Singleton, Zenon
<1>3. CASE S = {}
  BY <1>2, <1>3
<1>4. CASE S = {a}
  BY <1>2, <1>4
<1> QED BY <1>1, <1>3, <1>4

\* The same for two.
LEMMA TwoOrLess ==
  ASSUME NEW S, NEW a, NEW b, S \subseteq {a, b} PROVE Cardinality(S) <= 2
<1>1. IsFiniteSet({b}) /\ Cardinality({b}) = 1 /\ {b} \cup {a} = {a, b}
  BY FS_Singleton, Zenon
<1>2. /\ IsFiniteSet({a, b})
      /\ Cardinality({b} \cup {a}) = IF a \in {b} THEN Cardinality({b}) ELSE Cardinality({b}) + 1
  BY <1>1, FS_AddElement
<1>3. Cardinality({a, b}) <= 2
  BY <1>1, <1>2
<1>4. Cardinality(S) \in Nat /\ Cardinality(S) <= Cardinality({a, b}) /\ Cardinality({a, b}) \in Nat
  BY <1>2, FS_Subset, FS_CardinalityType
<1> QED BY <1>3, <1>4

\* One more than the limit drops the first, and fewer drop none.
LEMMA CappedMembers ==
  ASSUME NEW ids \in Seq(Watchable), Len(ids) <= WatchMax + 1
  PROVE  /\ ToSet(CapWatchlist(ids)) \subseteq ToSet(ids)
         /\ Len(ids) <= WatchMax => CapWatchlist(ids) = ids
         /\ ToSet(ids) \ ToSet(CapWatchlist(ids)) \subseteq {ids[1]}
<1> DEFINE from == IF Len(ids) > WatchMax THEN Len(ids) - WatchMax + 1 ELSE 1
           kept == SubSeq(ids, from, Len(ids))
<1>1. Len(ids) \in Nat /\ DOMAIN ids = 1..Len(ids) /\ WatchMax \in Nat \ {0}
  BY LenProperties, SharedStorageAssumption
<1>2. from \in {1, 2} /\ from <= Len(ids) + 1 /\ (Len(ids) <= WatchMax => from = 1)
  BY <1>1
<1> HIDE DEF from
<1>3. \A i \in from..Len(ids) : ids[i] \in Watchable
  BY <1>1, <1>2, ElementOfSeq
<1>4. /\ kept \in Seq(Watchable) /\ Len(kept) = Len(ids) - from + 1
      /\ \A i \in 1..(Len(ids) - from + 1) : kept[i] = ids[from + i - 1]
  <2>1. from \in Int /\ Len(ids) \in Int
    BY <1>1, <1>2
  <2>2. /\ kept \in Seq(Watchable)
        /\ Len(kept) = IF from <= Len(ids) THEN Len(ids) - from + 1 ELSE 0
        /\ \A i \in 1..(Len(ids) - from + 1) : kept[i] = ids[from + i - 1]
    BY <1>3, <2>1, SubSeqProperties
  <2> QED BY <1>1, <1>2, <2>2
<1> HIDE DEF kept
<1>5. DOMAIN kept = 1..(Len(ids) - from + 1)
  BY <1>4, LenProperties
<1>6. CapWatchlist(ids) = kept
  BY DEF CapWatchlist, kept, from
<1>7. ASSUME NEW i \in DOMAIN kept PROVE kept[i] \in ToSet(ids)
  <2>1. from + i - 1 \in DOMAIN ids
    BY <1>1, <1>2, <1>5
  <2> QED BY <1>4, <1>5, <2>1 DEF ToSet
<1>8. ASSUME NEW i \in DOMAIN ids, ids[i] \notin ToSet(kept) PROVE i = 1
  <2>1. SUFFICES ASSUME i # 1 PROVE FALSE
    OBVIOUS
  <2>2. i - from + 1 \in 1..(Len(ids) - from + 1) /\ from + (i - from + 1) - 1 = i
    BY <1>1, <1>2, <2>1
  <2>3. kept[i - from + 1] = ids[i]
    BY <1>4, <2>2
  <2> QED BY <1>5, <1>8, <2>2, <2>3 DEF ToSet
<1>9. ASSUME Len(ids) <= WatchMax PROVE kept = ids
  <2>1. from = 1
    BY <1>2, <1>9
  <2>2. Len(kept) = Len(ids) /\ \A i \in 1..Len(ids) : kept[i] = ids[i]
    BY <1>1, <1>4, <2>1
  <2> QED BY <1>4, <2>2, SeqEqual
<1> QED BY <1>6, <1>7, <1>8, <1>9 DEF ToSet

\* A grant less.
LEMMA OneLess ==
  ASSUME Watchlist(watching), NEW g, watching' = CapWatchlist(Without(g))
  PROVE  \E h : SymDiff(ToSet(watching'), ToSet(watching)) \subseteq {h}
<1>1. /\ watching \in Seq(Watchable) /\ Len(watching) \in Nat /\ DOMAIN watching = 1..Len(watching)
      /\ Len(watching) <= WatchMax /\ WatchMax \in Nat
  BY LenProperties, SharedStorageAssumption DEF Watchlist
<1>2. CASE Without(g) = watching
  <2>1. watching' = watching
    BY <1>1, <1>2, CappedMembers
  <2> QED BY <2>1 DEF SymDiff
<1>3. ASSUME NEW k \in 1..Len(watching), Without(g) = RemoveAt(watching, k)
      PROVE  \E h : SymDiff(ToSet(watching'), ToSet(watching)) \subseteq {h}
  <2> DEFINE rest == RemoveAt(watching, k)
  <2>1. /\ rest \in Seq(Watchable) /\ Len(rest) = Len(watching) - 1
        /\ \A i \in 1..(Len(watching) - 1) : rest[i] = IF i < k THEN watching[i] ELSE watching[i + 1]
    BY <1>1, Removed
  <2> HIDE DEF rest
  <2>2. watching' = rest
    BY <1>1, <1>3, <2>1, CappedMembers DEF rest
  <2>3. DOMAIN rest = 1..(Len(watching) - 1)
    BY <2>1, LenProperties
  <2>4. ASSUME NEW i \in DOMAIN rest PROVE rest[i] \in ToSet(watching)
    <3>1. i \in DOMAIN watching /\ i + 1 \in DOMAIN watching
      BY <1>1, <2>3
    <3> QED BY <2>1, <2>3, <3>1 DEF ToSet
  <2>5. ASSUME NEW i \in DOMAIN watching, i # k PROVE watching[i] \in ToSet(rest)
    <3>1. CASE i < k
      <4>1. i \in DOMAIN rest
        BY <1>1, <2>3, <3>1
      <4> QED BY <2>1, <2>3, <3>1, <4>1 DEF ToSet
    <3>2. CASE i > k
      <4>1. i - 1 \in DOMAIN rest /\ ~(i - 1 < k) /\ (i - 1) + 1 = i
        BY <1>1, <2>3, <3>2
      <4>2. rest[i - 1] = watching[i]
        BY <2>1, <2>3, <4>1
      <4> QED BY <4>1, <4>2 DEF ToSet
    <3> QED BY <1>1, <2>5, <3>1, <3>2
  <2>6. SymDiff(ToSet(watching'), ToSet(watching)) \subseteq {watching[k]}
    BY <2>2, <2>4, <2>5 DEF SymDiff, ToSet
  <2> QED BY <2>6
<1> QED BY <1>1, <1>2, <1>3, FirstOf DEF Without

\* A grant more, and the one watched longest less if there are as many as may be.
LEMMA OneMore ==
  ASSUME Watchlist(watching), NEW g \in Watchable, watching' = CapWatchlist(Append(watching, g))
  PROVE  /\ SymDiff(ToSet(watching'), ToSet(watching)) \subseteq {g, watching[1]}
         /\ Len(watching) # WatchMax => SymDiff(ToSet(watching'), ToSet(watching)) \subseteq {g}
<1> DEFINE more == Append(watching, g)
<1>1. /\ watching \in Seq(Watchable) /\ Len(watching) \in Nat /\ DOMAIN watching = 1..Len(watching)
      /\ Len(watching) <= WatchMax /\ WatchMax \in Nat \ {0}
  BY LenProperties, SharedStorageAssumption DEF Watchlist
<1>2. /\ more \in Seq(Watchable) /\ Len(more) = Len(watching) + 1 /\ DOMAIN more = 1..(Len(watching) + 1)
      /\ more[Len(watching) + 1] = g /\ \A i \in 1..Len(watching) : more[i] = watching[i]
  BY <1>1
<1>3. watching' = CapWatchlist(more)
  OBVIOUS
<1> HIDE DEF more
<1>4. ToSet(more) = ToSet(watching) \cup {g}
  <2>1. \A i \in DOMAIN watching : i \in DOMAIN more
    BY <1>1, <1>2
  <2>2. \A i \in DOMAIN more : i \in DOMAIN watching \/ i = Len(watching) + 1
    BY <1>1, <1>2
  <2>3. Len(watching) + 1 \in DOMAIN more
    BY <1>1, <1>2
  <2> QED BY <1>1, <1>2, <2>1, <2>2, <2>3 DEF ToSet
<1>5. /\ ToSet(watching') \subseteq ToSet(more)
      /\ ToSet(more) \ ToSet(watching') \subseteq {more[1]}
      /\ Len(more) <= WatchMax => watching' = more
  BY <1>1, <1>2, <1>3, CappedMembers
<1>6. CASE Len(watching) = WatchMax
  <2>1. more[1] = watching[1]
    BY <1>1, <1>2, <1>6
  <2> QED BY <1>4, <1>5, <1>6, <2>1 DEF SymDiff
<1>7. CASE Len(watching) # WatchMax
  <2> DEFINE n == Len(watching)
  <2>a. n \in Nat /\ WatchMax \in Nat /\ n <= WatchMax /\ n # WatchMax /\ Len(more) = n + 1
    BY <1>1, <1>2, <1>7
  <2> HIDE DEF n
  <2>1. Len(more) <= WatchMax
    BY <2>a
  <2>2. watching' = more
    BY <1>5, <2>1
  <2> QED BY <1>4, <2>2 DEF SymDiff
<1> QED BY <1>6, <1>7

\* A step of a tab.
ChangesOneThing ==
    /\ prefs' # prefs /\ prefs' # Unset =>
          Cardinality({p \in Preference : prefs'[p] # ReadPreferences[p]}) <= 1
    /\ Cardinality(SymDiff(ToSet(watching'), ToSet(watching)))
          <= IF Len(watching) = WatchMax THEN 2 ELSE 1

\* Every change reads what is stored, and writes one thing into it.
LEMMA ChangeStep == TabsInOrder /\ [StorageNext]_storageVars => ChangesOneThing
<1> SUFFICES ASSUME TabsInOrder, [StorageNext]_storageVars PROVE ChangesOneThing
  OBVIOUS
<1> DEFINE changed == SymDiff(ToSet(watching'), ToSet(watching))
           set == {p \in Preference : prefs'[p] # ReadPreferences[p]}
<1>0. Watchlist(watching)
  BY DEF TabsInOrder
<1>1. ASSUME NEW h, changed \subseteq {h}
      PROVE  Cardinality(changed) <= IF Len(watching) = WatchMax THEN 2 ELSE 1
  <2> HIDE DEF changed
  <2>1. changed \subseteq {h, h}
    BY <1>1
  <2>2. Cardinality(changed) <= 1 /\ Cardinality(changed) <= 2
    BY <1>1, <2>1, OneOrNone, TwoOrLess
  <2> QED BY <2>2
<1>2. ASSUME UNCHANGED watching PROVE changed \subseteq {1}
  BY <1>2 DEF SymDiff
<1>3. ASSUME UNCHANGED <<prefs, watching>> PROVE ChangesOneThing
  BY <1>1, <1>2, <1>3 DEF ChangesOneThing
<1>4. ASSUME NEW t \in Tab, NEW p \in Preference, NEW v \in Options[p], SetPreferences(t, p, v)
      PROVE  ChangesOneThing
  <2>1. prefs' = [ReadPreferences EXCEPT ![p] = v] /\ UNCHANGED watching
    BY <1>4 DEF SetPreferences
  <2>2. set \subseteq {p}
    <3>1. DOMAIN ReadPreferences = Preference
      BY DEF ReadPreferences, MergePreferences
    <3> QED BY <2>1, <3>1
  <2>3. Cardinality(set) <= 1
    <3> HIDE DEF set
    <3> QED BY <2>2, OneOrNone
  <2> QED BY <1>1, <1>2, <2>1, <2>3 DEF ChangesOneThing
<1>5. ASSUME NEW t \in Tab, ResetPreferences(t) PROVE ChangesOneThing
  BY <1>1, <1>2, <1>5 DEF ResetPreferences, ChangesOneThing
<1>6. ASSUME NEW t \in Tab, NEW g \in Watchable, Toggle(t, g) PROVE ChangesOneThing
  <2>1. UNCHANGED prefs
    BY <1>6 DEF Toggle
  <2>2. CASE Contains(watching, g)
    <3>1. watching' = CapWatchlist(Without(g))
      BY <1>6, <2>2 DEF Toggle, WriteWatchlist
    <3>2. PICK h : changed \subseteq {h}
      BY <1>0, <3>1, OneLess
    <3> QED BY <1>1, <2>1, <3>2 DEF ChangesOneThing
  <2>3. CASE ~Contains(watching, g)
    <3>1. watching' = CapWatchlist(Append(watching, g))
      BY <1>6, <2>3 DEF Toggle, WriteWatchlist
    <3>2. changed \subseteq {g, watching[1]} /\ (Len(watching) # WatchMax => changed \subseteq {g})
      BY <1>0, <3>1, OneMore
    <3>3. CASE Len(watching) # WatchMax
      BY <1>1, <2>1, <3>2, <3>3 DEF ChangesOneThing
    <3>4. CASE Len(watching) = WatchMax
      <4>1. Cardinality(changed) <= 2
        <5> HIDE DEF changed
        <5> QED BY <3>2, TwoOrLess
      <4> QED BY <2>1, <3>4, <4>1 DEF ChangesOneThing
    <3> QED BY <3>3, <3>4
  <2> QED BY <2>2, <2>3
<1>7. ASSUME NEW t \in Tab, NEW g \in Watchable, RemoveWatched(t, g) PROVE ChangesOneThing
  <2>1. watching' = CapWatchlist(Without(g)) /\ UNCHANGED prefs
    BY <1>7 DEF RemoveWatched, WriteWatchlist
  <2>2. PICK h : changed \subseteq {h}
    BY <1>0, <2>1, OneLess
  <2> QED BY <1>1, <2>1, <2>2 DEF ChangesOneThing
<1>8. ASSUME NEW t \in Tab, NEW yes \in BOOLEAN, AskReset(t, yes) PROVE ChangesOneThing
  BY <1>3, <1>8 DEF AskReset
<1>9. ASSUME NEW t \in Tab, NEW key \in {"prefs", "watching"}, StorageEvent(t, key)
      PROVE  ChangesOneThing
  BY <1>3, <1>9 DEF StorageEvent
<1>10. CASE UNCHANGED storageVars
  BY <1>3, <1>10 DEF storageVars
<1> QED BY <1>4, <1>5, <1>6, <1>7, <1>8, <1>9, <1>10 DEF StorageNext

-----------------------------------------------------------------------------
(* The pages: one component runs, the others rest (Together).              *)

\* Whichever component runs, every component takes a step of its own or none.
LEMMA PageRuns ==
  ASSUME [FrontNext]_<<part, frontVars>>
  PROVE  /\ [BatchNext]_batchVars /\ [FormNext]_formVars /\ [BoxNext]_boxVars
         /\ [ZoneNext]_zoneVars /\ [ViewNext]_viewVars
         /\ [NoticeNext]_noticeVars /\ [StorageNext]_storageVars /\ [ShellNext]_shellVars
  BY DEF FrontNext, frontVars, fileVars

\* review/page.tsx: what is submitted or skipped of a batch is what was confirmed;
\* CreateGrantForm, useGrantDraft.ts: no step is shown whose work before it is undone, nor
\* brought back by a draft, and a full chart shows every reward; AddressInput.tsx: an
\* address is marked for what it is; FileUpload.tsx, useIPFSContent.ts: a file that is
\* shown, uploaded or cached is the one that was picked or asked for.
THEOREM WorkAlwaysAsGiven == FrontSpec => []WorkIsAsGiven
<1> DEFINE Inv == BatchInOrder /\ FormInOrder /\ BoxesInOrder /\ ZoneInOrder /\ ViewsInOrder
<1>1. FrontInit => Inv
  BY BatchInitially, FormInitially, BoxesInitially, ZoneInitially, ViewInitially DEF FrontInit
<1>2. Inv /\ [FrontNext]_<<part, frontVars>> => Inv'
  BY PageRuns, BatchStep, FormStep, BoxStep, ZoneStep, ViewStep
<1>3. Inv => WorkIsAsGiven
  BY FormSound, FilesSound DEF WorkIsAsGiven, BatchInOrder, BoxesInOrder
<1> QED BY <1>1, <1>2, <1>3, PTL DEF FrontSpec

\* useNotifications.ts, NotificationToast.tsx, NotificationBell.tsx: the list is the
\* stored one, names a notification once, and what shows or pulses is about to end;
\* useUserPreferences.ts, useWatchlist.ts: tabs that were told agree;
\* useKeyboardShortcuts.ts, OfflineBanner.tsx: keys do what was asked, no listener is
\* stuck in a sequence, and a banner is about to end.
THEOREM ShellAlwaysSound == FrontSpec => []ShellIsSoundOnAllPages
<1> DEFINE Inv == NoticesInOrder /\ TabsInOrder /\ ShellInOrder
<1>1. FrontInit => Inv
  BY NoticesInitially, StorageInitially, ShellInitially DEF FrontInit
<1>2. Inv /\ [FrontNext]_<<part, frontVars>> => Inv'
  BY PageRuns, NoticeStep, StorageStep, ShellStep
<1>3. Inv => ShellIsSoundOnAllPages
  BY NoticesSound, ShellSound DEF ShellIsSoundOnAllPages, TabsInOrder
<1> QED BY <1>1, <1>2, <1>3, PTL DEF FrontSpec

\* Step2Milestones.tsx: calculated rewards add up to a budget of whole cents, and miss
\* another one by half a cent; useNotifications.ts: a notification enters the list of a
\* wallet it concerns; useUserPreferences.ts, useWatchlist.ts: a tab changes one
\* preference or one grant, whatever the other tabs have written.
THEOREM StepsAlwaysAsMeant == FrontSpec => StepsAreAsMeant
<1> DEFINE Inv == /\ FormInOrder /\ CalcInOrder /\ NoticesInOrder /\ SoonConcerns /\ TabsInOrder
<1>1. FrontInit => Inv
  BY FormInitially, CalcInitially, NoticesInitially, SoonInitially, StorageInitially DEF FrontInit
<1>2. Inv /\ [FrontNext]_<<part, frontVars>> => Inv'
  BY PageRuns, FormStep, CalcStep, NoticeStep, SoonStep, StorageStep
<1>3. Inv /\ [FrontNext]_<<part, frontVars>>
        => /\ [DistributesRight]_formVars /\ [ListsForAReason]_noticeVars
           /\ [ChangesOneThing]_storageVars
  BY PageRuns, DistributionStep, ReasonStep, ChangeStep
<1>4. /\ DistributionBalances <=> [][DistributesRight]_formVars
      /\ ListedForAReason <=> [][ListsForAReason]_noticeVars
      /\ OneThingChanges <=> [][ChangesOneThing]_storageVars
  BY DEF DistributionBalances, ListedForAReason, OneThingChanges, DistributesRight,
     ListsForAReason, ChangesOneThing
<1> QED BY <1>1, <1>2, <1>3, <1>4, PTL DEF FrontSpec, StepsAreAsMeant
=============================================================================
