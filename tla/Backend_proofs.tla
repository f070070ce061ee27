---------------------------- MODULE Backend_proofs ----------------------------
(***************************************************************************)
(* Theorems about the components of the backend, for any requests, users,  *)
(* rows and bounds: the cases (appeals, disputes, roles), the answers (of  *)
(* saved entities, and from the cache) and the deliveries (webhooks, mails *)
(* and reminders).                                                         *)
(*                                                                         *)
(* Each component has an inductive invariant (...InOrder) that holds       *)
(* however its requests interleave, and where the code relies on requests  *)
(* that do not overlap a second one that holds as long as none did.  Both  *)
(* are about one component's steps; at the end they are put together for   *)
(* the backend, where one component runs and the others rest.              *)
(***************************************************************************)
EXTENDS MCBackend, FiniteSums, SequenceTheorems

-----------------------------------------------------------------------------
(* Appeals (milestone-appeals.ts). *)

AppealVote == [by : Reviewer, uphold : BOOLEAN]
AppealStatuses == {"none", "pending"} \cup Outcomes
AppealRow == [status : AppealStatuses, votes : SUBSET AppealVote]
VoteCall == [step : {"seat", "vote", "count", "resolve", "reactivate"},
             by : Reviewer, uphold : BOOLEAN, copy : AppealRow]

AppealTypeOK ==
    /\ seats \in [Reviewer -> Nat]
    /\ appeal \in AppealRow
    /\ call \in [AppealRequest -> {NoRequest, [step |-> "open"]} \cup VoteCall]
    /\ heard \in [votes : SUBSET AppealVote, outcomes : SUBSET AppealStatuses,
                  overlapped : BOOLEAN, changes : Nat, cut : BOOLEAN]

\* One vote of an address, and the outcome they have.
OneEach(a) == \A v, w \in a.votes : v.by = w.by => v = w
Rightful(a) == OneEach(a) /\ (a.status \in Outcomes => a.status = Outcome(a))

\* While the reviewers are those of the beginning, an outcome takes them all.
Complete(a, changes) ==
    changes = 0 /\ a.status \in Outcomes => {v.by : v \in a.votes} = Reviewer

\* What a request may do with the copy it holds.
CopyInOrder(c, changes) ==
    /\ Rightful(c.copy) /\ Complete(c.copy, changes)
    /\ c.copy.status = "pending" <=> c.step \in {"seat", "vote", "count"}
    /\ c.step = "reactivate" => c.copy.status = "denied"
    /\ c.copy.status # "none"

\* The inductive invariant, whatever interleaves.
AppealsInOrder ==
    /\ AppealTypeOK
    /\ Rightful(appeal) /\ Complete(appeal, heard.changes)
    /\ \A q \in AppealRequest : call[q] \in VoteCall => CopyInOrder(call[q], heard.changes)
    /\ heard.changes = 0 => seats = [r \in Reviewer |-> 1]
    /\ heard.outcomes \subseteq Outcomes

\* What a request knows when it is the only one: its copy is the row, but for the
\* vote or the outcome it is about to save.
CopyIsRow(c, line) ==
    /\ c.step \in {"seat", "count"} => c.copy = line
    /\ c.step = "vote" => /\ line.status = "pending"
                          /\ c.copy.votes = line.votes \cup {[by |-> c.by, uphold |-> c.uphold]}
    /\ c.step = "resolve" => line.status = "pending" /\ c.copy.votes = line.votes

\* The inductive invariant as long as no two requests overlapped.
OneAtATime ==
    ~heard.overlapped =>
        /\ \A p, q \in AppealRequest : call[p] # NoRequest /\ call[q] # NoRequest => p = q
        /\ \A q \in AppealRequest : call[q] \in VoteCall => CopyIsRow(call[q], appeal)
        /\ appeal.votes = heard.votes /\ heard.outcomes \subseteq {appeal.status}

-----------------------------------------------------------------------------

LEMMA NotVoteCall == NoRequest \notin VoteCall /\ [step |-> "open"] \notin VoteCall
  BY DEF NoRequest, VoteCall

LEMMA AppealsInitially == AppealInit => AppealsInOrder /\ OneAtATime
<1> SUFFICES ASSUME AppealInit PROVE AppealsInOrder /\ OneAtATime
  OBVIOUS
<1> USE DEF AppealInit
<1>1. AppealTypeOK
  BY DEF AppealTypeOK, AppealRow, NoAppeal, AppealStatuses, Outcomes
<1>2. Rightful(appeal) /\ Complete(appeal, heard.changes)
  BY DEF Rightful, OneEach, Complete, NoAppeal, Outcomes
<1> QED BY <1>1, <1>2, NotVoteCall DEF AppealsInOrder, OneAtATime, NoAppeal

\* Everybody has voted when there are as many votes as seats, each taken once.
LEMMA AllSeatsVoted ==
  ASSUME NEW a \in AppealRow, OneEach(a), EveryoneVoted(a),
         seats = [r \in Reviewer |-> 1]
  PROVE  {v.by : v \in a.votes} = Reviewer
<1> DEFINE f == [v \in a.votes |-> v.by]
<1>1. f \in Injection(a.votes, Reviewer)
  BY DEF Injection, IsInjective, AppealRow, AppealVote, OneEach
<1>2. Rows = Cardinality(Reviewer)
  <2>1. Rows = Sum(seats, Reviewer)
    BY SumOfFunction DEF Rows
  <2>2. Sum(seats, Reviewer) = 1 * Cardinality(Reviewer)
    BY SumConstant, AppealsAssumption
  <2>3. Cardinality(Reviewer) \in Nat
    BY AppealsAssumption, FS_CardinalityType
  <2> QED BY <2>1, <2>2, <2>3
<1>3. f \in Surjection(a.votes, Reviewer)
  BY <1>1, <1>2, AppealsAssumption, FS_Injection DEF EveryoneVoted
<1>4. \A r \in Reviewer : \E v \in a.votes : f[v] = r
  BY <1>3 DEF Surjection
<1>5. \A v \in a.votes : v.by \in Reviewer
  BY DEF AppealRow, AppealVote
<1> QED BY <1>4, <1>5


LEMMA VotingCalls ==
  ASSUME AppealTypeOK, NEW q \in AppealRequest,
         call[q].step \in {"seat", "vote", "count", "resolve", "reactivate"}
  PROVE  call[q] \in VoteCall
  BY DEF AppealTypeOK, NoRequest, VoteCall

\* A request that goes on holds a request's record.
LEMMA GoingOn ==
  ASSUME AppealTypeOK, NEW q \in AppealRequest, call[q] \in VoteCall,
         NEW s \in {"seat", "vote", "count", "resolve", "reactivate"}, NEW line \in AppealRow,
         GoOn(q, s, line)
  PROVE  /\ call' \in [AppealRequest -> {NoRequest, [step |-> "open"]} \cup VoteCall]
         /\ call'[q] \in VoteCall
         /\ call'[q].step = s /\ call'[q].copy = line
         /\ call'[q].by = call[q].by /\ call'[q].uphold = call[q].uphold
         /\ \A p \in AppealRequest : p # q => call'[p] = call[p]
<1> DEFINE next == [step |-> s, by |-> call[q].by, uphold |-> call[q].uphold, copy |-> line]
<1>1. next \in VoteCall
  BY DEF VoteCall
<1>2. call' = [call EXCEPT ![q] = next] /\ DOMAIN call = AppealRequest
  BY DEF GoOn, AppealTypeOK
<1>3. call'[q] = next /\ \A p \in AppealRequest : p # q => call'[p] = call[p]
  BY <1>2
<1>4. call' \in [AppealRequest -> {NoRequest, [step |-> "open"]} \cup VoteCall]
  <2> HIDE DEF next
  <2> QED BY <1>1, <1>2 DEF AppealTypeOK
<1> QED BY <1>1, <1>3, <1>4

LEMMA Ending ==
  ASSUME AppealTypeOK, NEW q \in AppealRequest, EndCall(q)
  PROVE  /\ call' \in [AppealRequest -> {NoRequest, [step |-> "open"]} \cup VoteCall]
         /\ call'[q] = NoRequest
         /\ \A p \in AppealRequest : p # q => call'[p] = call[p]
  BY DEF EndCall, AppealTypeOK

LEMMA Beginning ==
  ASSUME AppealTypeOK, NEW q \in AppealRequest,
         NEW c \in {[step |-> "open"]} \cup VoteCall, BeginCall(q, c)
  PROVE  /\ call' \in [AppealRequest -> {NoRequest, [step |-> "open"]} \cup VoteCall]
         /\ call[q] = NoRequest /\ call'[q] = c
         /\ \A p \in AppealRequest : p # q => call'[p] = call[p]
         /\ heard'.overlapped = (heard.overlapped \/ \E p \in AppealRequest : call[p] # NoRequest)
         /\ heard'.votes = heard.votes /\ heard'.outcomes = heard.outcomes
         /\ heard'.changes = heard.changes
         /\ heard' \in [votes : SUBSET AppealVote, outcomes : SUBSET AppealStatuses,
                        overlapped : BOOLEAN, changes : Nat, cut : BOOLEAN]
  BY DEF BeginCall, AppealTypeOK

\* One request's call moves on to a copy in order; the row stays or is in order.
LEMMA OrderKept ==
  ASSUME AppealsInOrder, AppealTypeOK', NEW q \in AppealRequest,
         \A p \in AppealRequest : p # q => call'[p] = call[p],
         seats' = seats, heard'.changes = heard.changes, heard'.outcomes \subseteq Outcomes,
         appeal' = appeal \/ (Rightful(appeal') /\ Complete(appeal', heard.changes)),
         call'[q] \in VoteCall => CopyInOrder(call'[q], heard.changes)
  PROVE  AppealsInOrder'
<1>1. \A p \in AppealRequest : call'[p] \in VoteCall => CopyInOrder(call'[p], heard'.changes)
  BY DEF AppealsInOrder
<1>2. Rightful(appeal') /\ Complete(appeal', heard'.changes)
  BY DEF AppealsInOrder
<1> QED BY <1>1, <1>2 DEF AppealsInOrder

LEMMA ReviewersChange ==
  ASSUME AppealsInOrder, NEW r \in Reviewer, AddReviewer(r) \/ RemoveReviewer(r)
  PROVE  AppealsInOrder'
<1>1. /\ seats' \in [Reviewer -> Nat]
      /\ heard' \in [votes : SUBSET AppealVote, outcomes : SUBSET AppealStatuses,
                     overlapped : BOOLEAN, changes : Nat, cut : BOOLEAN]
      /\ heard'.changes # 0 /\ heard'.outcomes = heard.outcomes
      /\ UNCHANGED <<appeal, call>>
  BY DEF AddReviewer, RemoveReviewer, AppealsInOrder, AppealTypeOK
<1>2. AppealTypeOK'
  BY <1>1 DEF AppealsInOrder, AppealTypeOK
<1>3. ASSUME NEW p \in AppealRequest, call'[p] \in VoteCall
      PROVE  CopyInOrder(call'[p], heard'.changes)
  BY <1>1, <1>3 DEF AppealsInOrder, CopyInOrder, Complete
<1> QED BY <1>1, <1>2, <1>3 DEF AppealsInOrder, Complete

LEMMA AppealStep == AppealsInOrder /\ [AppealNext]_appealVars => AppealsInOrder'
<1> SUFFICES ASSUME AppealsInOrder, [AppealNext]_appealVars PROVE AppealsInOrder'
  OBVIOUS
<1>0. /\ AppealTypeOK
      /\ seats \in [Reviewer -> Nat] /\ appeal \in AppealRow
      /\ call \in [AppealRequest -> {NoRequest, [step |-> "open"]} \cup VoteCall]
      /\ heard \in [votes : SUBSET AppealVote, outcomes : SUBSET AppealStatuses,
                    overlapped : BOOLEAN, changes : Nat, cut : BOOLEAN]
      /\ heard.outcomes \subseteq Outcomes
  BY DEF AppealsInOrder, AppealTypeOK
<1>1. CASE UNCHANGED appealVars
  BY <1>1 DEF appealVars, AppealTypeOK, AppealsInOrder
<1>2. ASSUME NEW r \in Reviewer, AddReviewer(r) \/ RemoveReviewer(r) PROVE AppealsInOrder'
  BY <1>2, ReviewersChange
<1>3. CASE RecordRejection \/ PostProof
  BY <1>3 DEF RecordRejection, PostProof, AppealTypeOK, AppealsInOrder
<1>4. ASSUME NEW q \in AppealRequest, BeginOpen(q) PROVE AppealsInOrder'
  <2>1. BeginCall(q, [step |-> "open"]) /\ UNCHANGED <<seats, appeal>>
    BY <1>4 DEF BeginOpen
  <2>2. AppealTypeOK'
    BY <1>0, <2>1, Beginning DEF AppealTypeOK
  <2> QED BY <1>0, <2>1, <2>2, Beginning, OrderKept, NotVoteCall
<1>5. ASSUME NEW q \in AppealRequest, NEW r \in Reviewer, NEW uphold \in BOOLEAN,
             BeginVote(q, r, uphold)
      PROVE  AppealsInOrder'
  <2> DEFINE c == [step |-> "seat", by |-> r, uphold |-> uphold, copy |-> appeal]
  <2>1. c \in VoteCall /\ c.step = "seat" /\ c.copy = appeal
    BY <1>0 DEF VoteCall
  <2>2. BeginCall(q, c) /\ UNCHANGED <<seats, appeal>> /\ appeal.status = "pending"
    BY <1>5 DEF BeginVote
  <2>3. CopyInOrder(c, heard.changes)
    BY <2>1, <2>2 DEF CopyInOrder, AppealsInOrder
  <2> HIDE DEF c
  <2>4. AppealTypeOK'
    BY <1>0, <2>1, <2>2, Beginning DEF AppealTypeOK
  <2> QED BY <1>0, <2>1, <2>2, <2>3, <2>4, Beginning, OrderKept
<1>6. ASSUME NEW q \in AppealRequest, InsertAppeal(q) PROVE AppealsInOrder'
  <2>1. EndCall(q) /\ UNCHANGED <<seats, heard>>
        /\ (appeal' = appeal \/ appeal' = [status |-> "pending", votes |-> {}])
    BY <1>6 DEF InsertAppeal
  <2>2. [status |-> "pending", votes |-> {}] \in AppealRow
        /\ Rightful([status |-> "pending", votes |-> {}])
        /\ Complete([status |-> "pending", votes |-> {}], heard.changes)
    BY DEF AppealRow, AppealStatuses, Outcomes, Rightful, OneEach, Complete
  <2>3. AppealTypeOK'
    BY <1>0, <2>1, <2>2, Ending DEF AppealTypeOK
  <2> QED BY <1>0, <2>1, <2>2, <2>3, Ending, OrderKept, NotVoteCall
<1>7. ASSUME NEW q \in AppealRequest, CheckSeat(q) PROVE AppealsInOrder'
  <2> DEFINE c == call[q]
             vote == [by |-> c.by, uphold |-> c.uphold]
             line == [c.copy EXCEPT !.votes = @ \cup {vote}]
  <2>1. c \in VoteCall /\ c.step = "seat" /\ UNCHANGED <<seats, appeal, heard>>
    BY <1>0, <1>7, VotingCalls DEF CheckSeat
  <2>2. CASE EndCall(q)
    <3>1. AppealTypeOK'
      BY <1>0, <2>1, <2>2, Ending DEF AppealTypeOK
    <3> QED BY <1>0, <2>1, <2>2, <3>1, Ending, OrderKept, NotVoteCall
  <2>3. CASE GoOn(q, "vote", line) /\ \A v \in c.copy.votes : v.by # c.by
    <3>1. line \in AppealRow /\ line.status = c.copy.status /\ line.votes = c.copy.votes \cup {vote}
      BY <2>1 DEF VoteCall, AppealRow, AppealVote
    <3>2. OneEach(line) /\ line.status = "pending"
      BY <2>1, <2>3, <3>1 DEF AppealsInOrder, CopyInOrder, Rightful, OneEach
    <3> HIDE DEF line
    <3>3. /\ call' \in [AppealRequest -> {NoRequest, [step |-> "open"]} \cup VoteCall]
          /\ call'[q].step = "vote" /\ call'[q].copy = line
          /\ \A p \in AppealRequest : p # q => call'[p] = call[p]
      BY <1>0, <2>1, <2>3, <3>1, GoingOn
    <3>4. CopyInOrder(call'[q], heard.changes)
      BY <3>2, <3>3 DEF CopyInOrder, Rightful, Complete, Outcomes
    <3>5. AppealTypeOK'
      BY <1>0, <2>1, <3>3 DEF AppealTypeOK
    <3> QED BY <1>0, <2>1, <3>3, <3>4, <3>5, OrderKept
  <2> QED BY <1>7, <2>2, <2>3 DEF CheckSeat
<1>8. ASSUME NEW q \in AppealRequest, SaveVote(q) PROVE AppealsInOrder'
  <2>1. call[q] \in VoteCall /\ call[q].step = "vote"
    BY <1>0, <1>8, VotingCalls DEF SaveVote
  <2>2. call[q].copy \in AppealRow /\ CopyInOrder(call[q], heard.changes)
    BY <2>1 DEF VoteCall, AppealsInOrder
  <2>3. /\ call' \in [AppealRequest -> {NoRequest, [step |-> "open"]} \cup VoteCall]
        /\ call'[q].step = "count" /\ call'[q].copy = call[q].copy
        /\ \A p \in AppealRequest : p # q => call'[p] = call[p]
    BY <1>0, <1>8, <2>1, <2>2, GoingOn DEF SaveVote
  <2>4. heard' \in [votes : SUBSET AppealVote, outcomes : SUBSET AppealStatuses,
                    overlapped : BOOLEAN, changes : Nat, cut : BOOLEAN]
        /\ heard'.changes = heard.changes /\ heard'.outcomes = heard.outcomes
    BY <1>0, <1>8, <2>1 DEF SaveVote, VoteCall, AppealVote
  <2>5. appeal' = call[q].copy /\ seats' = seats
    BY <1>8 DEF SaveVote
  <2>6. AppealTypeOK'
    BY <1>0, <2>2, <2>3, <2>4, <2>5 DEF AppealTypeOK
  <2>7. CopyInOrder(call'[q], heard.changes) /\ Rightful(appeal') /\ Complete(appeal', heard.changes)
    BY <2>1, <2>2, <2>3, <2>5 DEF CopyInOrder
  <2> QED BY <1>0, <2>3, <2>4, <2>5, <2>6, <2>7, OrderKept
<1>9. ASSUME NEW q \in AppealRequest, CountReviewers(q) PROVE AppealsInOrder'
  <2> DEFINE c == call[q]
             line == [c.copy EXCEPT !.status = Outcome(c.copy)]
  <2>1. c \in VoteCall /\ c.step = "count" /\ UNCHANGED <<seats, appeal, heard>>
    BY <1>0, <1>9, VotingCalls DEF CountReviewers
  <2>2. CASE EndCall(q)
    <3>1. AppealTypeOK'
      BY <1>0, <2>1, <2>2, Ending DEF AppealTypeOK
    <3> QED BY <1>0, <2>1, <2>2, <3>1, Ending, OrderKept, NotVoteCall
  <2>3. CASE GoOn(q, "resolve", line) /\ EveryoneVoted(c.copy)
    <3>1. c.copy \in AppealRow /\ OneEach(c.copy) /\ Outcome(c.copy) \in Outcomes
      BY <2>1 DEF AppealsInOrder, CopyInOrder, Rightful, VoteCall, Outcome, Outcomes
    <3>2. line \in AppealRow /\ line.status = Outcome(c.copy) /\ line.votes = c.copy.votes
      BY <3>1 DEF AppealRow, AppealStatuses
    <3>3. Rightful(line)
      BY <3>1, <3>2 DEF Rightful, OneEach, Outcome, Upholds
    <3>4. heard.changes = 0 => {v.by : v \in c.copy.votes} = Reviewer
      BY <2>3, <3>1, AllSeatsVoted DEF AppealsInOrder
    <3> HIDE DEF line
    <3>5. /\ call' \in [AppealRequest -> {NoRequest, [step |-> "open"]} \cup VoteCall]
          /\ call'[q].step = "resolve" /\ call'[q].copy = line
          /\ \A p \in AppealRequest : p # q => call'[p] = call[p]
      BY <1>0, <2>1, <2>3, <3>2, GoingOn
    <3>6. CopyInOrder(call'[q], heard.changes)
      BY <3>1, <3>2, <3>3, <3>4, <3>5 DEF CopyInOrder, Complete, Outcomes
    <3>7. AppealTypeOK'
      BY <1>0, <2>1, <3>5 DEF AppealTypeOK
    <3> QED BY <1>0, <2>1, <3>5, <3>6, <3>7, OrderKept
  <2> QED BY <1>9, <2>2, <2>3 DEF CountReviewers
<1>10. ASSUME NEW q \in AppealRequest, SaveOutcome(q) PROVE AppealsInOrder'
  <2>1. call[q] \in VoteCall /\ call[q].step = "resolve"
    BY <1>0, <1>10, VotingCalls DEF SaveOutcome
  <2>2. call[q].copy \in AppealRow /\ CopyInOrder(call[q], heard.changes)
    BY <2>1 DEF VoteCall, AppealsInOrder
  <2>3. heard' \in [votes : SUBSET AppealVote, outcomes : SUBSET AppealStatuses,
                    overlapped : BOOLEAN, changes : Nat, cut : BOOLEAN]
        /\ heard'.changes = heard.changes /\ heard'.outcomes \subseteq Outcomes
    BY <1>0, <1>10, <2>1, <2>2 DEF SaveOutcome, AppealRow, CopyInOrder, AppealStatuses
  <2>4. appeal' = call[q].copy /\ seats' = seats
    BY <1>10 DEF SaveOutcome
  <2>5. Rightful(appeal') /\ Complete(appeal', heard.changes)
    BY <2>2, <2>4 DEF CopyInOrder
  <2>6. CASE EndCall(q)
    <3>1. AppealTypeOK'
      BY <1>0, <2>2, <2>3, <2>4, <2>6, Ending DEF AppealTypeOK
    <3> QED BY <1>0, <2>3, <2>4, <2>5, <2>6, <3>1, Ending, OrderKept, NotVoteCall
  <2>7. CASE GoOn(q, "reactivate", call[q].copy) /\ call[q].copy.status = "denied"
    <3>1. /\ call' \in [AppealRequest -> {NoRequest, [step |-> "open"]} \cup VoteCall]
          /\ call'[q].step = "reactivate" /\ call'[q].copy = call[q].copy
          /\ \A p \in AppealRequest : p # q => call'[p] = call[p]
      BY <1>0, <2>1, <2>2, <2>7, GoingOn
    <3>2. AppealTypeOK'
      BY <1>0, <2>2, <2>3, <2>4, <3>1 DEF AppealTypeOK
    <3>3. CopyInOrder(call'[q], heard.changes)
      BY <2>2, <2>7, <3>1 DEF CopyInOrder
    <3> QED BY <2>3, <2>4, <2>5, <3>1, <3>2, <3>3, OrderKept
  <2> QED BY <1>10, <2>6, <2>7 DEF SaveOutcome
<1>11. ASSUME NEW q \in AppealRequest, Reactivate(q) \/ CutCall(q) PROVE AppealsInOrder'
  <2>1. EndCall(q) /\ UNCHANGED <<seats, appeal>> /\ heard'.changes = heard.changes
        /\ heard'.outcomes = heard.outcomes
        /\ heard' \in [votes : SUBSET AppealVote, outcomes : SUBSET AppealStatuses,
                       overlapped : BOOLEAN, changes : Nat, cut : BOOLEAN]
    BY <1>0, <1>11 DEF Reactivate, CutCall
  <2>2. AppealTypeOK'
    BY <1>0, <2>1, Ending DEF AppealTypeOK
  <2> QED BY <1>0, <2>1, <2>2, Ending, OrderKept, NotVoteCall
<1> QED BY <1>1, <1>2, <1>3, <1>4, <1>5, <1>6, <1>7, <1>8, <1>9, <1>10, <1>11
        DEF AppealNext, VoteStep

\* While requests do not overlap, the one under way moves and the others are idle.
LEMMA TurnKept ==
  ASSUME AppealsInOrder, NEW q \in AppealRequest,
         \A p \in AppealRequest : p # q => call'[p] = NoRequest,
         call'[q] \in VoteCall => CopyIsRow(call'[q], appeal'),
         appeal'.votes = heard'.votes, heard'.outcomes \subseteq {appeal'.status}
  PROVE  OneAtATime'
<1>1. \A p \in AppealRequest : call'[p] # NoRequest => p = q
  OBVIOUS
<1>2. \A p \in AppealRequest : call'[p] \in VoteCall => p = q
  BY NotVoteCall
<1> QED BY <1>1, <1>2 DEF OneAtATime

LEMMA TurnStep == AppealsInOrder /\ OneAtATime /\ [AppealNext]_appealVars => OneAtATime'
<1> SUFFICES ASSUME AppealsInOrder, OneAtATime, [AppealNext]_appealVars, ~heard'.overlapped
             PROVE  OneAtATime'
  BY DEF OneAtATime
<1>0. /\ AppealTypeOK
      /\ appeal \in AppealRow
      /\ call \in [AppealRequest -> {NoRequest, [step |-> "open"]} \cup VoteCall]
      /\ heard \in [votes : SUBSET AppealVote, outcomes : SUBSET AppealStatuses,
                    overlapped : BOOLEAN, changes : Nat, cut : BOOLEAN]
  BY DEF AppealsInOrder, AppealTypeOK
<1>a. ASSUME ~heard.overlapped
      PROVE  /\ \A p, q \in AppealRequest : call[p] # NoRequest /\ call[q] # NoRequest => p = q
             /\ \A q \in AppealRequest : call[q] \in VoteCall => CopyIsRow(call[q], appeal)
             /\ appeal.votes = heard.votes /\ heard.outcomes \subseteq {appeal.status}
  BY <1>a DEF OneAtATime
<1>1. CASE UNCHANGED appealVars
  BY <1>1 DEF appealVars, OneAtATime, CopyIsRow
<1>2. ASSUME NEW r \in Reviewer, AddReviewer(r) \/ RemoveReviewer(r) PROVE OneAtATime'
  <2>1. UNCHANGED <<appeal, call>> /\ heard'.overlapped = heard.overlapped
        /\ heard'.votes = heard.votes /\ heard'.outcomes = heard.outcomes
    BY <1>0, <1>2 DEF AddReviewer, RemoveReviewer
  <2> QED BY <2>1 DEF OneAtATime, CopyIsRow
<1>3. CASE RecordRejection \/ PostProof
  BY <1>3 DEF RecordRejection, PostProof, OneAtATime, CopyIsRow
<1>4. ASSUME NEW q \in AppealRequest, NEW c \in {[step |-> "open"]} \cup VoteCall,
             BeginCall(q, c), appeal' = appeal, c \in VoteCall => CopyIsRow(c, appeal)
      PROVE  OneAtATime'
  <2>1. /\ call[q] = NoRequest /\ call'[q] = c
        /\ \A p \in AppealRequest : p # q => call'[p] = call[p]
        /\ heard'.overlapped = (heard.overlapped \/ \E p \in AppealRequest : call[p] # NoRequest)
        /\ heard'.votes = heard.votes /\ heard'.outcomes = heard.outcomes
    BY <1>0, <1>4, Beginning
  <2>2. ~heard.overlapped /\ \A p \in AppealRequest : call[p] = NoRequest
    BY <1>0, <2>1
  <2> QED BY <1>4, <1>a, <2>1, <2>2, TurnKept
<1>5. ASSUME NEW q \in AppealRequest, BeginOpen(q) PROVE OneAtATime'
  BY <1>4, <1>5, NotVoteCall DEF BeginOpen
<1>6. ASSUME NEW q \in AppealRequest, NEW r \in Reviewer, NEW uphold \in BOOLEAN,
             BeginVote(q, r, uphold)
      PROVE  OneAtATime'
  <2> DEFINE c == [step |-> "seat", by |-> r, uphold |-> uphold, copy |-> appeal]
  <2>1. c \in VoteCall /\ CopyIsRow(c, appeal)
    BY <1>0 DEF VoteCall, CopyIsRow
  <2>2. BeginCall(q, c) /\ appeal' = appeal
    BY <1>6 DEF BeginVote
  <2> HIDE DEF c
  <2> QED BY <1>4, <2>1, <2>2
\* The steps of a request under way find the others idle.
<1>7. ASSUME NEW q \in AppealRequest, call[q] # NoRequest,
             \A p \in AppealRequest : p # q => call'[p] = call[p],
             heard'.overlapped = heard.overlapped,
             call'[q] \in VoteCall => CopyIsRow(call'[q], appeal'),
             ~heard.overlapped => /\ appeal'.votes = heard'.votes
                                  /\ heard'.outcomes \subseteq {appeal'.status}
      PROVE  OneAtATime'
  <2>1. \A p \in AppealRequest : p # q => call'[p] = NoRequest
    BY <1>7, <1>a
  <2> QED BY <1>7, <2>1, TurnKept
<1>8. ASSUME NEW q \in AppealRequest, InsertAppeal(q) PROVE OneAtATime'
  <2>1. EndCall(q) /\ UNCHANGED heard /\ call[q] # NoRequest
        /\ (appeal' = appeal \/ (appeal = NoAppeal /\ appeal' = [status |-> "pending", votes |-> {}]))
    BY <1>8 DEF InsertAppeal, NoRequest
  <2>2. call'[q] = NoRequest /\ \A p \in AppealRequest : p # q => call'[p] = call[p]
    BY <1>0, <2>1, Ending
  <2>3. ~heard.overlapped => appeal'.votes = heard'.votes
    BY <1>a, <2>1 DEF NoAppeal
  <2>4. ~heard.overlapped => heard'.outcomes \subseteq {appeal'.status}
    BY <1>a, <2>1 DEF NoAppeal, AppealsInOrder, Outcomes
  <2> QED BY <1>7, <2>1, <2>2, <2>3, <2>4, NotVoteCall
<1>9. ASSUME NEW q \in AppealRequest, call[q] # NoRequest, EndCall(q), UNCHANGED appeal,
             heard'.votes = heard.votes, heard'.outcomes = heard.outcomes,
             heard'.overlapped = heard.overlapped
      PROVE  OneAtATime'
  BY <1>0, <1>a, <1>7, <1>9, Ending, NotVoteCall
<1>10. ASSUME NEW q \in AppealRequest, CheckSeat(q) PROVE OneAtATime'
  <2> DEFINE c == call[q]
             vote == [by |-> c.by, uphold |-> c.uphold]
             line == [c.copy EXCEPT !.votes = @ \cup {vote}]
  <2>1. c \in VoteCall /\ c.step = "seat" /\ UNCHANGED <<seats, appeal, heard>> /\ c # NoRequest
    BY <1>0, <1>10, VotingCalls DEF CheckSeat, NoRequest
  <2>2. CASE GoOn(q, "vote", line)
    <3>1. line \in AppealRow /\ line.votes = c.copy.votes \cup {vote}
      BY <2>1 DEF VoteCall, AppealRow, AppealVote
    <3> HIDE DEF line
    <3>2. /\ call'[q].step = "vote" /\ call'[q].copy = line
          /\ call'[q].by = c.by /\ call'[q].uphold = c.uphold
          /\ \A p \in AppealRequest : p # q => call'[p] = call[p]
      BY <1>0, <2>1, <2>2, <3>1, GoingOn
    <3>3. ~heard.overlapped => c.copy = appeal
      BY <1>a, <2>1 DEF CopyIsRow
    <3>4. c.copy.status = "pending"
      BY <2>1 DEF AppealsInOrder, CopyInOrder
    <3>5. ~heard.overlapped => CopyIsRow(call'[q], appeal')
      BY <2>1, <3>1, <3>2, <3>3, <3>4 DEF CopyIsRow
    <3> QED BY <1>a, <1>7, <2>1, <3>2, <3>5
  <2> QED BY <1>9, <1>10, <2>1, <2>2 DEF CheckSeat
<1>11. ASSUME NEW q \in AppealRequest, SaveVote(q) PROVE OneAtATime'
  <2>1. call[q] \in VoteCall /\ call[q].step = "vote" /\ call[q] # NoRequest
        /\ call[q].copy \in AppealRow
    BY <1>0, <1>11, VotingCalls DEF SaveVote, NoRequest, VoteCall
  <2>2. /\ call'[q].step = "count" /\ call'[q].copy = call[q].copy
        /\ \A p \in AppealRequest : p # q => call'[p] = call[p]
    BY <1>0, <1>11, <2>1, GoingOn DEF SaveVote
  <2>3. appeal' = call[q].copy /\ heard'.overlapped = heard.overlapped
        /\ heard'.outcomes = heard.outcomes
        /\ heard'.votes = heard.votes \cup {[by |-> call[q].by, uphold |-> call[q].uphold]}
    BY <1>0, <1>11 DEF SaveVote
  <2>4. CopyIsRow(call'[q], appeal')
    BY <2>2, <2>3 DEF CopyIsRow
  <2>5. ~heard.overlapped => CopyIsRow(call[q], appeal)
    BY <1>a, <2>1
  <2>6. call[q].copy.status = "pending"
    BY <2>1 DEF AppealsInOrder, CopyInOrder
  <2>7. ~heard.overlapped => appeal'.votes = heard'.votes /\ heard'.outcomes \subseteq {appeal'.status}
    BY <1>a, <2>1, <2>3, <2>5, <2>6 DEF CopyIsRow
  <2> QED BY <1>7, <2>1, <2>2, <2>3, <2>4, <2>7
<1>12. ASSUME NEW q \in AppealRequest, CountReviewers(q) PROVE OneAtATime'
  <2> DEFINE c == call[q]
             line == [c.copy EXCEPT !.status = Outcome(c.copy)]
  <2>1. c \in VoteCall /\ c.step = "count" /\ UNCHANGED <<seats, appeal, heard>> /\ c # NoRequest
    BY <1>0, <1>12, VotingCalls DEF CountReviewers, NoRequest
  <2>2. CASE GoOn(q, "resolve", line)
    <3>1. line \in AppealRow /\ line.votes = c.copy.votes
      BY <2>1 DEF VoteCall, AppealRow, Outcome, AppealStatuses, Outcomes
    <3> HIDE DEF line
    <3>2. /\ call'[q].step = "resolve" /\ call'[q].copy = line
          /\ \A p \in AppealRequest : p # q => call'[p] = call[p]
      BY <1>0, <2>1, <2>2, <3>1, GoingOn
    <3>3. ~heard.overlapped => c.copy = appeal
      BY <1>a, <2>1 DEF CopyIsRow
    <3>4. c.copy.status = "pending"
      BY <2>1 DEF AppealsInOrder, CopyInOrder
    <3>5. ~heard.overlapped => CopyIsRow(call'[q], appeal')
      BY <2>1, <3>1, <3>2, <3>3, <3>4 DEF CopyIsRow
    <3> QED BY <1>a, <1>7, <2>1, <3>2, <3>5
  <2> QED BY <1>9, <1>12, <2>1, <2>2 DEF CountReviewers
<1>13. ASSUME NEW q \in AppealRequest, SaveOutcome(q) PROVE OneAtATime'
  <2>1. call[q] \in VoteCall /\ call[q].step = "resolve" /\ call[q] # NoRequest
        /\ call[q].copy \in AppealRow
    BY <1>0, <1>13, VotingCalls DEF SaveOutcome, NoRequest, VoteCall
  <2>2. appeal' = call[q].copy /\ heard'.overlapped = heard.overlapped
        /\ heard'.votes = heard.votes /\ heard'.outcomes = heard.outcomes \cup {call[q].copy.status}
    BY <1>0, <1>13 DEF SaveOutcome
  <2>3. ~heard.overlapped => CopyIsRow(call[q], appeal)
    BY <1>a, <2>1
  <2>4. ~heard.overlapped => appeal'.votes = heard'.votes /\ heard'.outcomes \subseteq {appeal'.status}
    <3>1. ~heard.overlapped => appeal.status = "pending" /\ call[q].copy.votes = appeal.votes
      BY <2>1, <2>3 DEF CopyIsRow
    <3> QED BY <1>a, <2>2, <3>1 DEF AppealsInOrder, Outcomes
  <2>5. CASE EndCall(q)
    BY <1>0, <1>7, <2>1, <2>2, <2>4, <2>5, Ending, NotVoteCall
  <2>6. CASE GoOn(q, "reactivate", call[q].copy)
    <3>1. /\ call'[q].step = "reactivate"
          /\ \A p \in AppealRequest : p # q => call'[p] = call[p]
      BY <1>0, <2>1, <2>6, GoingOn
    <3>2. CopyIsRow(call'[q], appeal')
      BY <3>1 DEF CopyIsRow
    <3> QED BY <1>7, <2>1, <2>2, <2>4, <3>1, <3>2
  <2> QED BY <1>13, <2>5, <2>6 DEF SaveOutcome
<1>14. ASSUME NEW q \in AppealRequest, Reactivate(q) \/ CutCall(q) PROVE OneAtATime'
  BY <1>0, <1>9, <1>14 DEF Reactivate, CutCall, NoRequest
<1> QED BY <1>1, <1>2, <1>3, <1>5, <1>6, <1>8, <1>10, <1>11, <1>12, <1>13, <1>14
        DEF AppealNext, VoteStep

LEMMA AppealsSound == AppealsInOrder /\ OneAtATime => AppealsAreSound
  BY DEF AppealsInOrder, OneAtATime, AppealsAreSound, OutcomeIsOfTheVotes,
         SequentialVotesCount, Rightful, OneEach, Complete

-----------------------------------------------------------------------------
DisputeRow == [status : {"open", "resolved_payout", "resolved_refund"},
               contributor : Nat, funder : Nat, by : {"nobody"} \cup Council]
SaveJob == [step : {"save"}, id : 1..MaxDisputes, copy : DisputeRow]
Jobs == {NoDesk, [step |-> "insert"]} \cup SaveJob

DisputeTypeOK ==
    /\ disputes \in Seq(DisputeRow) /\ Len(disputes) <= MaxDisputes
    /\ desk \in [DisputeRequest -> Jobs]
    /\ minutes \in [answered : [1..MaxDisputes -> Seq(DisputeRow)],
                    overlapped : BOOLEAN, calls : Nat]

\* Only the council closes a row, and says which of them did.
Signed(r) == r.status = "open" <=> r.by \notin Council

\* The inductive invariant, whatever interleaves: the rows, and the copies about to be
\* saved over them, are signed; of a row that is not there nothing was answered.
DisputesInOrder ==
    /\ DisputeTypeOK
    /\ \A i \in 1..Len(disputes) : Signed(disputes[i])
    /\ \A q \in DisputeRequest : desk[q].step = "save" =>
          Signed(desk[q].copy) /\ desk[q].id <= Len(disputes)
    /\ \A i \in 1..MaxDisputes : i > Len(disputes) => minutes.answered[i] = <<>>

\* A row is what was answered last of it, and what was answered before left it open,
\* with no later arguments.
AsAnswered(line, answers, calls) ==
    /\ \A role \in Sides : line[role] <= calls
    /\ answers # <<>> => line = answers[Len(answers)]
    /\ \A j, k \in 1..Len(answers) : j < k =>
          /\ answers[j].status = "open"
          /\ \A role \in Sides : answers[j][role] <= answers[k][role]

\* A copy that may replace the row: the row is open, and loses no argument.
MayReplace(copy, line, calls) ==
    /\ line.status = "open"
    /\ \A role \in Sides : line[role] <= copy[role] /\ copy[role] <= calls

\* The inductive invariant as long as no two requests overlapped: the one under way
\* inserts the only row or is about to save a later copy of an open one, and the rows
\* are what was answered last.
OneDesk ==
    ~minutes.overlapped =>
        /\ \A p, q \in DisputeRequest : desk[p] # NoDesk /\ desk[q] # NoDesk => p = q
        /\ Len(disputes) <= 1
        /\ \A q \in DisputeRequest :
              /\ desk[q].step = "insert" => disputes = <<>>
              /\ desk[q].step = "save" =>
                    MayReplace(desk[q].copy, disputes[desk[q].id], minutes.calls)
        /\ \A i \in 1..Len(disputes) : AsAnswered(disputes[i], minutes.answered[i], minutes.calls)

-----------------------------------------------------------------------------

LEMMA DisputesInitially == DisputeInit => DisputesInOrder /\ OneDesk
<1> SUFFICES ASSUME DisputeInit PROVE DisputesInOrder /\ OneDesk
  OBVIOUS
<1>1. /\ disputes = <<>> /\ desk = [q \in DisputeRequest |-> NoDesk]
      /\ minutes = [answered |-> [i \in 1..MaxDisputes |-> <<>>], overlapped |-> FALSE, calls |-> 0]
      /\ MaxDisputes \in Nat
  BY DisputesAssumption DEF DisputeInit
<1>2. DisputeTypeOK
  BY <1>1 DEF DisputeTypeOK, Jobs
<1> QED BY <1>1, <1>2 DEF DisputesInOrder, OneDesk, NoDesk

\* An argument changes the column of its side.
LEMMA Arguing ==
  ASSUME NEW r \in DisputeRow, NEW role \in Sides, NEW n \in Nat,
         NEW s, s = [r EXCEPT ![role] = n]
  PROVE  /\ s \in DisputeRow /\ s.status = r.status /\ s.by = r.by
         /\ s[role] = n /\ \A t \in Sides : t # role => s[t] = r[t]
  BY DEF DisputeRow, Sides

LEMMA OnlyOne == ASSUME NEW l \in Nat, l <= 1, NEW i \in 1..l PROVE l = 1 /\ i = 1
  OBVIOUS

LEMMA ArgumentsAreCounted == ASSUME NEW r \in DisputeRow, NEW t \in Sides PROVE r[t] \in Nat
  BY DEF DisputeRow, Sides

\* A row saved over an open one is what was answered.
LEMMA RowsAreAnswered ==
  ASSUME NEW line \in DisputeRow, NEW copy \in DisputeRow, NEW answers \in Seq(DisputeRow),
         NEW calls \in Nat, AsAnswered(line, answers, calls), MayReplace(copy, line, calls)
  PROVE  AsAnswered(copy, Append(answers, copy), calls)
<1> DEFINE now == Append(answers, copy)
<1>1. /\ now \in Seq(DisputeRow) /\ Len(now) = Len(answers) + 1 /\ now[Len(answers) + 1] = copy
      /\ Len(answers) \in Nat /\ \A j \in 1..Len(answers) : now[j] = answers[j] /\ answers[j] \in DisputeRow
  OBVIOUS
<1> HIDE DEF now
<1>2. ASSUME NEW j \in 1..Len(answers)
      PROVE  answers[j].status = "open" /\ \A role \in Sides : answers[j][role] <= copy[role]
  <2>1. line = answers[Len(answers)] /\ Len(answers) \in 1..Len(answers)
    BY <1>1, <1>2 DEF AsAnswered
  <2>2. answers[j].status = "open" /\ \A role \in Sides : answers[j][role] <= line[role]
    <3>1. CASE j = Len(answers)
      BY <2>1, <3>1, ArgumentsAreCounted DEF MayReplace
    <3>2. CASE j # Len(answers)
      <4>1. j < Len(answers)
        BY <1>1, <3>2
      <4> QED BY <2>1, <4>1 DEF AsAnswered
    <3> QED BY <3>1, <3>2
  <2>3. \A role \in Sides : line[role] \in Nat /\ answers[j][role] \in Nat /\ copy[role] \in Nat
    BY <1>1, ArgumentsAreCounted
  <2> QED BY <2>2, <2>3 DEF MayReplace
<1>3. ASSUME NEW j \in 1..Len(now), NEW k \in 1..Len(now), j < k
      PROVE  /\ now[j].status = "open"
             /\ \A role \in Sides : now[j][role] <= now[k][role]
  <2>1. j \in 1..Len(answers) /\ now[j] = answers[j]
    BY <1>1, <1>3
  <2>2. CASE k = Len(answers) + 1
    BY <1>1, <1>2, <2>1, <2>2
  <2>3. CASE k # Len(answers) + 1
    <3>1. k \in 1..Len(answers) /\ now[k] = answers[k]
      BY <1>1, <2>3
    <3> QED BY <1>3, <2>1, <3>1 DEF AsAnswered
  <2> QED BY <2>2, <2>3
<1>4. \A role \in Sides : copy[role] <= calls
  BY DEF MayReplace
<1>5. now # <<>> => copy = now[Len(now)]
  BY <1>1
<1>6. AsAnswered(copy, now, calls)
  BY <1>3, <1>4, <1>5 DEF AsAnswered
<1> QED BY <1>6 DEF now

\* Every request begins with a job in order.
LEMMA JobBegins ==
  ASSUME DisputesInOrder, OneDesk, NEW q \in DisputeRequest, NEW job \in Jobs, Begin(q, job),
         job.step = "save" =>
            /\ Signed(job.copy) /\ job.id <= Len(disputes)
            /\ (\A role \in Sides : disputes[job.id][role] <= minutes.calls)
                   => MayReplace(job.copy, disputes[job.id], minutes.calls + 1),
         job.step = "insert" => disputes = <<>>
  PROVE  DisputesInOrder' /\ OneDesk'
<1>1. /\ DisputeTypeOK /\ disputes \in Seq(DisputeRow)
      /\ desk \in [DisputeRequest -> Jobs] /\ Len(disputes) \in Nat
      /\ minutes \in [answered : [1..MaxDisputes -> Seq(DisputeRow)],
                      overlapped : BOOLEAN, calls : Nat]
  BY DEF DisputesInOrder, DisputeTypeOK
<1>2. /\ desk[q] = NoDesk /\ disputes' = disputes
      /\ desk' = [desk EXCEPT ![q] = job]
      /\ minutes' \in [answered : [1..MaxDisputes -> Seq(DisputeRow)],
                       overlapped : BOOLEAN, calls : Nat]
      /\ minutes'.calls = minutes.calls + 1 /\ minutes'.answered = minutes.answered
      /\ minutes'.overlapped = (minutes.overlapped \/ \E p \in DisputeRequest : desk[p] # NoDesk)
  <2> DEFINE crowded == minutes.overlapped \/ \E p \in DisputeRequest : desk[p] # NoDesk
             count == minutes.calls + 1
  <2>1. crowded \in BOOLEAN /\ count \in Nat
    BY <1>1
  <2>2. minutes' = [minutes EXCEPT !.calls = count, !.overlapped = crowded]
    BY DEF Begin
  <2> HIDE DEF crowded, count
  <2>3. /\ minutes' \in [answered : [1..MaxDisputes -> Seq(DisputeRow)],
                       overlapped : BOOLEAN, calls : Nat]
        /\ minutes'.calls = count /\ minutes'.answered = minutes.answered
        /\ minutes'.overlapped = crowded
    BY <1>1, <2>1, <2>2
  <2> QED BY <2>3 DEF Begin, crowded, count
<1>3. desk'[q] = job /\ (\A p \in DisputeRequest : p # q => desk'[p] = desk[p])
      /\ desk' \in [DisputeRequest -> Jobs]
  BY <1>1, <1>2
<1>4. DisputesInOrder'
  <2>1. DisputeTypeOK'
    BY <1>1, <1>2, <1>3 DEF DisputeTypeOK
  <2> QED BY <1>2, <1>3, <2>1 DEF DisputesInOrder
<1>5. ASSUME ~minutes'.overlapped PROVE OneDesk'
  <2>1. ~minutes.overlapped /\ \A p \in DisputeRequest : desk[p] = NoDesk
    BY <1>1, <1>2, <1>5
  <2>2. /\ Len(disputes) <= 1
        /\ \A i \in 1..Len(disputes) : AsAnswered(disputes[i], minutes.answered[i], minutes.calls)
    BY <2>1 DEF OneDesk
  <2>3. \A i \in 1..Len(disputes) : AsAnswered(disputes[i], minutes.answered[i], minutes'.calls)
    <3> SUFFICES ASSUME NEW i \in 1..Len(disputes)
                 PROVE AsAnswered(disputes[i], minutes.answered[i], minutes'.calls)
      OBVIOUS
    <3>1. disputes[i] \in DisputeRow
      BY <1>1
    <3>2. \A role \in Sides : disputes[i][role] \in Nat
      BY <3>1, ArgumentsAreCounted
    <3>3. minutes.calls \in Nat /\ minutes'.calls = minutes.calls + 1
      BY <1>1, <1>2
    <3>4. \A role \in Sides : disputes[i][role] <= minutes'.calls
      BY <2>2, <3>2, <3>3 DEF AsAnswered
    <3> QED BY <2>2, <3>4 DEF AsAnswered
  <2>4. \A p \in DisputeRequest : desk'[p] # NoDesk => p = q
    BY <1>3, <2>1
  <2>5. job.step = "save" => job.id \in 1..Len(disputes)
    BY <1>1 DEF Jobs, SaveJob, NoDesk
  <2>6. job.step = "save" => MayReplace(job.copy, disputes[job.id], minutes'.calls)
    BY <1>2, <2>2, <2>5 DEF AsAnswered
  <2>7. ASSUME NEW p \in DisputeRequest
        PROVE /\ desk'[p].step = "insert" => disputes' = <<>>
              /\ desk'[p].step = "save" =>
                    MayReplace(desk'[p].copy, disputes'[desk'[p].id], minutes'.calls)
    <3>1. CASE p # q
      BY <1>3, <2>1, <3>1 DEF NoDesk
    <3>2. CASE p = q
      BY <1>2, <1>3, <2>6, <3>2
    <3> QED BY <3>1, <3>2
  <2> QED BY <1>2, <2>2, <2>3, <2>4, <2>7 DEF OneDesk
<1> QED BY <1>4, <1>5 DEF OneDesk

LEMMA DisputeStep ==
  DisputesInOrder /\ OneDesk /\ [DisputeNext]_disputeVars => DisputesInOrder' /\ OneDesk'
<1> SUFFICES ASSUME DisputesInOrder, OneDesk, [DisputeNext]_disputeVars
             PROVE  DisputesInOrder' /\ OneDesk'
  OBVIOUS
<1>0. /\ DisputeTypeOK /\ disputes \in Seq(DisputeRow) /\ Len(disputes) \in Nat
      /\ Len(disputes) <= MaxDisputes /\ MaxDisputes \in Nat
      /\ desk \in [DisputeRequest -> Jobs]
      /\ minutes \in [answered : [1..MaxDisputes -> Seq(DisputeRow)],
                      overlapped : BOOLEAN, calls : Nat]
  BY DisputesAssumption DEF DisputesInOrder, DisputeTypeOK
<1>1. CASE UNCHANGED disputeVars
  BY <1>1 DEF disputeVars, DisputesInOrder, DisputeTypeOK, OneDesk
<1>2. ASSUME NEW q \in DisputeRequest, BeginDispute(q) PROVE DisputesInOrder' /\ OneDesk'
  <2>1. [step |-> "insert"] \in Jobs
    BY DEF Jobs
  <2> QED BY <1>2, <2>1, JobBegins DEF BeginDispute
<1>3. ASSUME NEW q \in DisputeRequest, NEW i \in 1..Len(disputes), NEW role \in Sides,
             BeginArgument(q, i, role)
      PROVE  DisputesInOrder' /\ OneDesk'
  <2> DEFINE copy == [disputes[i] EXCEPT ![role] = minutes.calls + 1]
             job == [step |-> "save", id |-> i, copy |-> copy]
  <2>1. disputes[i] \in DisputeRow /\ disputes[i].status = "open" /\ Signed(disputes[i])
        /\ minutes.calls \in Nat /\ minutes.calls + 1 \in Nat
    BY <1>0, <1>3 DEF BeginArgument, DisputesInOrder
  <2>2. copy \in DisputeRow /\ copy.status = disputes[i].status /\ copy.by = disputes[i].by
        /\ copy[role] = minutes.calls + 1 /\ \A t \in Sides : t # role => copy[t] = disputes[i][t]
    BY <2>1, Arguing
  <2>3. Begin(q, job)
    BY <1>3 DEF BeginArgument
  <2> HIDE DEF copy
  <2>4. job \in Jobs
    BY <1>0, <2>2 DEF Jobs, SaveJob
  <2>5. ASSUME \A t \in Sides : disputes[i][t] <= minutes.calls
        PROVE  MayReplace(copy, disputes[i], minutes.calls + 1)
    <3> SUFFICES ASSUME NEW t \in Sides
                 PROVE disputes[i][t] <= copy[t] /\ copy[t] <= minutes.calls + 1
      BY <2>1 DEF MayReplace
    <3>1. disputes[i][t] \in Nat /\ disputes[i][t] <= minutes.calls /\ minutes.calls \in Nat
      BY <2>1, <2>5, ArgumentsAreCounted
    <3>2. CASE t = role
      <4>1. copy[t] = minutes.calls + 1
        BY <2>2, <3>2
      <4> QED BY <3>1, <4>1
    <3>3. CASE t # role
      <4>1. copy[t] = disputes[i][t]
        BY <2>2, <3>3
      <4> QED BY <3>1, <4>1
    <3> QED BY <3>2, <3>3
  <2>6. Signed(copy)
    BY <2>1, <2>2 DEF Signed
  <2>7. job.step = "save" /\ job.id = i /\ job.copy = copy
    OBVIOUS
  <2> HIDE DEF job
  <2> QED BY <1>0, <2>3, <2>4, <2>5, <2>6, <2>7, JobBegins, SMTT(60)
<1>4. ASSUME NEW q \in DisputeRequest, NEW i \in 1..Len(disputes), NEW member \in Council,
             NEW payout \in BOOLEAN, BeginResolve(q, i, member, payout)
      PROVE  DisputesInOrder' /\ OneDesk'
  <2> DEFINE outcome == IF payout THEN "resolved_payout" ELSE "resolved_refund"
             copy == [disputes[i] EXCEPT !.by = member, !.status = outcome]
             job == [step |-> "save", id |-> i, copy |-> copy]
  <2>1. disputes[i] \in DisputeRow /\ disputes[i].status = "open"
    BY <1>0, <1>4 DEF BeginResolve
  <2>2. outcome \in {"resolved_payout", "resolved_refund"}
    OBVIOUS
  <2>3. Begin(q, job)
    BY <1>4 DEF BeginResolve
  <2>4. copy \in DisputeRow /\ copy.status = outcome /\ copy.by = member
        /\ \A t \in Sides : copy[t] = disputes[i][t]
    <3>1. copy = [disputes[i] EXCEPT !.by = member, !.status = outcome]
      OBVIOUS
    <3> HIDE DEF outcome, copy
    <3> QED BY <2>1, <2>2, <3>1 DEF DisputeRow, Sides
  <2>5. Signed(copy)
    BY <2>2, <2>4 DEF Signed
  <2> HIDE DEF copy
  <2>6. job \in Jobs
    BY <1>0, <2>4 DEF Jobs, SaveJob
  <2>7. ASSUME \A t \in Sides : disputes[i][t] <= minutes.calls
        PROVE  MayReplace(copy, disputes[i], minutes.calls + 1)
    <3>1. \A t \in Sides : disputes[i][t] \in Nat /\ minutes.calls \in Nat
      BY <1>0, <2>1, ArgumentsAreCounted
    <3> QED BY <2>1, <2>4, <2>7, <3>1 DEF MayReplace
  <2>8. job.step = "save" /\ job.id = i /\ job.copy = copy
    OBVIOUS
  <2> HIDE DEF job
  <2>9. job.id <= Len(disputes) /\ Begin(q, job)
    BY <1>0, <2>3, <2>8
  <2> QED BY <2>5, <2>6, <2>7, <2>8, <2>9, JobBegins
<1>5. ASSUME NEW q \in DisputeRequest, InsertDispute(q) PROVE DisputesInOrder' /\ OneDesk'
  <2>1. /\ desk[q].step = "insert" /\ Len(disputes) < MaxDisputes
        /\ disputes' = Append(disputes, Open) /\ desk' = [desk EXCEPT ![q] = NoDesk]
        /\ minutes' = minutes
    BY <1>5 DEF InsertDispute
  <2>2. Open \in DisputeRow /\ Signed(Open)
    BY DisputesAssumption DEF Open, DisputeRow, Signed
  <2>3. /\ disputes' \in Seq(DisputeRow) /\ Len(disputes') = Len(disputes) + 1
        /\ disputes'[Len(disputes) + 1] = Open
        /\ \A i \in 1..Len(disputes) : disputes'[i] = disputes[i]
    BY <1>0, <2>1, <2>2
  <2>4. /\ desk' \in [DisputeRequest -> Jobs] /\ desk'[q] = NoDesk
        /\ \A p \in DisputeRequest : p # q => desk'[p] = desk[p]
    BY <1>0, <2>1 DEF Jobs
  <2>5. \A i \in 1..Len(disputes') : Signed(disputes'[i])
    BY <1>0, <2>2, <2>3 DEF DisputesInOrder
  <2>6. ASSUME NEW p \in DisputeRequest, desk'[p].step = "save"
        PROVE  p # q /\ desk[p].step = "save" /\ desk[p].id \in 1..Len(disputes)
               /\ Signed(desk[p].copy)
    BY <1>0, <2>4, <2>6 DEF NoDesk, Jobs, SaveJob, DisputesInOrder
  <2>7. DisputesInOrder'
    <3>1. DisputeTypeOK'
      BY <1>0, <2>1, <2>3, <2>4 DEF DisputeTypeOK
    <3>2. \A p \in DisputeRequest : desk'[p].step = "save" =>
              Signed(desk'[p].copy) /\ desk'[p].id <= Len(disputes')
      BY <1>0, <2>3, <2>4, <2>6
    <3>3. \A i \in 1..MaxDisputes : i > Len(disputes') => minutes'.answered[i] = <<>>
      BY <1>0, <2>1, <2>3 DEF DisputesInOrder
    <3> QED BY <2>5, <3>1, <3>2, <3>3 DEF DisputesInOrder
  <2>8. ASSUME ~minutes'.overlapped PROVE OneDesk'
    <3>1. ~minutes.overlapped /\ disputes = <<>> /\ minutes.answered[1] = <<>>
      BY <1>0, <2>1, <2>8 DEF OneDesk, DisputesInOrder
    <3>2. \A p \in DisputeRequest : desk'[p] = NoDesk
      BY <2>1, <2>4, <3>1 DEF OneDesk, NoDesk
    <3>3. Len(disputes') = 1 /\ disputes'[1] = Open
      BY <2>3, <3>1
    <3>4. AsAnswered(Open, <<>>, minutes.calls)
      BY <1>0 DEF AsAnswered, Open, Sides
    <3> QED BY <2>1, <3>1, <3>2, <3>3, <3>4 DEF OneDesk, NoDesk
  <2> QED BY <2>7, <2>8 DEF OneDesk
<1>6. ASSUME NEW q \in DisputeRequest, SaveDispute(q) PROVE DisputesInOrder' /\ OneDesk'
  <2> DEFINE n == desk[q].id
             copy == desk[q].copy
  <2>1. /\ desk[q] \in SaveJob /\ copy \in DisputeRow /\ n \in 1..Len(disputes) /\ Signed(copy)
    BY <1>0, <1>6 DEF SaveDispute, Jobs, SaveJob, NoDesk, DisputesInOrder
  <2>2. /\ disputes' = [disputes EXCEPT ![n] = copy]
        /\ desk' = [desk EXCEPT ![q] = NoDesk]
        /\ minutes' = [minutes EXCEPT !.answered =
                          [minutes.answered EXCEPT ![n] = Append(minutes.answered[n], copy)]]
    BY <1>0, <1>6, <2>1 DEF SaveDispute
  <2> HIDE DEF copy, n
  <2>3. /\ disputes' \in Seq(DisputeRow) /\ Len(disputes') = Len(disputes) /\ disputes'[n] = copy
        /\ \A i \in 1..Len(disputes) : i # n => disputes'[i] = disputes[i]
    BY <1>0, <2>1, <2>2
  <2>4. /\ desk' \in [DisputeRequest -> Jobs] /\ desk'[q] = NoDesk
        /\ \A p \in DisputeRequest : p # q => desk'[p] = desk[p]
    BY <1>0, <2>2 DEF Jobs
  <2>5. /\ minutes'.answered \in [1..MaxDisputes -> Seq(DisputeRow)]
        /\ minutes' \in [answered : [1..MaxDisputes -> Seq(DisputeRow)],
                         overlapped : BOOLEAN, calls : Nat]
        /\ minutes'.answered[n] = Append(minutes.answered[n], copy)
        /\ \A i \in 1..MaxDisputes : i # n => minutes'.answered[i] = minutes.answered[i]
        /\ minutes'.overlapped = minutes.overlapped /\ minutes'.calls = minutes.calls
    <3>1. n \in 1..MaxDisputes /\ minutes.answered \in [1..MaxDisputes -> Seq(DisputeRow)]
      BY <1>0, <2>1
    <3> DEFINE now == [minutes.answered EXCEPT ![n] = Append(minutes.answered[n], copy)]
    <3>2. Append(minutes.answered[n], copy) \in Seq(DisputeRow)
      <4>1. minutes.answered[n] \in Seq(DisputeRow)
        BY <3>1
      <4> QED BY <2>1, <4>1
    <3>3. now \in [1..MaxDisputes -> Seq(DisputeRow)] /\ now[n] = Append(minutes.answered[n], copy)
          /\ \A i \in 1..MaxDisputes : i # n => now[i] = minutes.answered[i]
      BY <3>1, <3>2
    <3> HIDE DEF now
    <3>4. minutes' = [minutes EXCEPT !.answered = now]
      BY <2>2 DEF now
    <3> QED BY <1>0, <3>3, <3>4
  <2>6. \A i \in 1..Len(disputes') : Signed(disputes'[i])
    BY <1>0, <2>1, <2>3 DEF DisputesInOrder
  <2>7. DisputesInOrder'
    <3>1. DisputeTypeOK'
      BY <1>0, <2>3, <2>4, <2>5 DEF DisputeTypeOK
    <3>2. \A p \in DisputeRequest : desk'[p].step = "save" =>
              Signed(desk'[p].copy) /\ desk'[p].id <= Len(disputes')
      BY <2>3, <2>4 DEF NoDesk, DisputesInOrder
    <3>3. \A i \in 1..MaxDisputes : i > Len(disputes') => minutes'.answered[i] = <<>>
      BY <1>0, <2>1, <2>3, <2>5, SMTT(60) DEF DisputesInOrder
    <3> QED BY <2>6, <3>1, <3>2, <3>3 DEF DisputesInOrder
  <2>8. ASSUME ~minutes'.overlapped PROVE OneDesk'
    <3>1. ~minutes.overlapped
      BY <2>5, <2>8
    <3>2. Len(disputes) <= 1
      BY <3>1 DEF OneDesk
    <3>3. Len(disputes) = 1 /\ n = 1
      <4>1. n \in 1..Len(disputes)
        BY <2>1
      <4>2. Len(disputes) \in Nat
        BY <1>0
      <4> QED BY <3>2, <4>1, <4>2, OnlyOne
    <3>4. MayReplace(copy, disputes[1], minutes.calls)
      BY <1>6, <3>1, <3>3 DEF OneDesk, SaveDispute, n, copy
    <3>5. AsAnswered(disputes[1], minutes.answered[1], minutes.calls)
      BY <3>1, <3>3 DEF OneDesk
    <3>6. \A p \in DisputeRequest : desk'[p] = NoDesk
      <4>1. desk[q] # NoDesk
        BY <1>6 DEF NoDesk, SaveDispute
      <4>2. \A p \in DisputeRequest : desk[p] # NoDesk => p = q
        BY <3>1, <4>1 DEF OneDesk
      <4> QED BY <2>4, <4>2
    <3>7. disputes[1] \in DisputeRow /\ minutes.answered[1] \in Seq(DisputeRow) /\ minutes.calls \in Nat
      <4>1. 1 \in 1..Len(disputes) /\ 1 \in 1..MaxDisputes
        BY <1>0, <3>3
      <4>2. minutes.answered \in [1..MaxDisputes -> Seq(DisputeRow)] /\ minutes.calls \in Nat
        BY <1>0
      <4> QED BY <1>0, <4>1, <4>2
    <3>8. AsAnswered(copy, Append(minutes.answered[1], copy), minutes.calls)
      BY <2>1, <3>4, <3>5, <3>7, RowsAreAnswered
    <3>9. \A i \in 1..Len(disputes') : AsAnswered(disputes'[i], minutes'.answered[i], minutes'.calls)
      <4> SUFFICES ASSUME NEW i \in 1..Len(disputes')
                   PROVE AsAnswered(disputes'[i], minutes'.answered[i], minutes'.calls)
        OBVIOUS
      <4>1. i = 1
        BY <2>3, <3>3
      <4>2. disputes'[1] = copy /\ minutes'.answered[1] = Append(minutes.answered[1], copy)
            /\ minutes'.calls = minutes.calls
        BY <2>3, <2>5, <3>3
      <4> QED BY <3>8, <4>1, <4>2
    <3> QED BY <2>3, <3>3, <3>6, <3>9 DEF OneDesk, NoDesk
  <2> QED BY <2>7, <2>8 DEF OneDesk
<1>7. DOMAIN disputes = 1..Len(disputes)
  BY <1>0
<1> QED BY <1>7, <1>1, <1>2, <1>3, <1>4, <1>5, <1>6 DEF DisputeNext

LEMMA DisputesSound == DisputesInOrder /\ OneDesk => DisputesAreSound
  BY DEF DisputesInOrder, DisputeTypeOK, OneDesk, DisputesAreSound, ResolutionIsSigned,
         SequentialDisputesAreFinal, Signed, AsAnswered

-----------------------------------------------------------------------------
RoleJob == [step : {"assign", "revoke"}, account : Account, role : RoleNames]

\* The inductive invariant: no account has a role twice, and the roles it has are those
\* last answered.
RolesInOrder ==
    /\ userRoles \in [Account -> [RoleNames -> Nat]]
    /\ clerk \in [RoleRequest -> {NoClerk} \cup RoleJob]
    /\ told \in [last : [Account -> SUBSET RoleNames], calls : Nat]
    /\ HeldAsTold

-----------------------------------------------------------------------------

LEMMA GatesAlwaysAgree == GatesAgree
<1> SUFFICES ASSUME NEW a \in Account, NEW needed \in Requirements
             PROVE Passes(a, needed) <=> \E p \in needed : requirePermission(a, p)
  BY DEF GatesAgree
<1>1. RolesOf(a) \subseteq RoleNames
  BY DEF RolesOf
<1>2. \A p : p \in UserPermissions(a) <=> \E r \in RolesOf(a) : p \in ROLE_PERMISSIONS[r]
  BY DEF UserPermissions
<1>3. "admin:all" \in ROLE_PERMISSIONS["admin"]
  BY DEF ROLE_PERMISSIONS
<1>4. CASE \E p : needed = {p}
  <2>1. PICK p : needed = {p}
    BY <1>4
  <2>2. Cardinality(needed) = 1
    BY <2>1, FS_Singleton
  <2> QED BY <2>1, <2>2 DEF Passes
<1>5. CASE \E p : p # "admin:all" /\ needed = {p, "admin:all"}
  <2>1. PICK p : p # "admin:all" /\ needed = {p, "admin:all"}
    BY <1>5
  <2>2. Cardinality(needed) # 1
    <3>1. IsFiniteSet(needed)
      <4>1. IsFiniteSet({"admin:all"}) /\ needed = {"admin:all"} \cup {p}
        BY <2>1, FS_Singleton
      <4> QED BY <4>1, FS_AddElement
    <3>2. \A x : needed # {x}
      BY <2>1
    <3> QED BY <3>1, <3>2, FS_Singleton
  <2>3. Passes(a, needed) <=> needed \cap UserPermissions(a) # {}
    BY <2>2 DEF Passes, requireAnyPermission
  <2>4. ASSUME NEW o \in needed, o \in UserPermissions(a)
        PROVE \E w \in needed : requirePermission(a, w)
    <3>1. PICK r \in RolesOf(a) : o \in ROLE_PERMISSIONS[r]
      BY <1>2, <2>4
    <3>2. requirePermission(a, o)
      BY <3>1 DEF requirePermission, roleHasPermission
    <3> QED BY <3>2
  <2>5. ASSUME NEW o \in needed, requirePermission(a, o)
        PROVE \E w \in needed : w \in UserPermissions(a)
    <3>1. PICK r \in RolesOf(a) : r = "admin" \/ o \in ROLE_PERMISSIONS[r]
      BY <2>5 DEF requirePermission, roleHasPermission
    <3> QED BY <1>2, <1>3, <2>1, <3>1
  <2> QED BY <2>3, <2>4, <2>5
<1> QED BY <1>4, <1>5 DEF Requirements

LEMMA RolesInitially == RoleInit => RolesInOrder
<1> SUFFICES ASSUME RoleInit PROVE RolesInOrder
  OBVIOUS
<1>1. userRoles \in [Account -> [RoleNames -> Nat]]
  BY DEF RoleInit
<1>2. clerk \in [RoleRequest -> {NoClerk} \cup RoleJob]
  BY DEF RoleInit
<1>3. told \in [last : [Account -> SUBSET RoleNames], calls : Nat]
  BY DEF RoleInit, RoleNames
<1>4. ASSUME NEW a \in Account
      PROVE RolesOf(a) = told.last[a] /\ \A r \in RoleNames : userRoles[a][r] <= 1
  BY <1>4 DEF RoleInit, RolesOf, RoleNames
<1> QED BY <1>1, <1>2, <1>3, <1>4 DEF RolesInOrder, HeldAsTold

\* A row of one account and role comes or goes, and the answer says so.
LEMMA RoleIsTold ==
  ASSUME RolesInOrder, NEW a \in Account, NEW r \in RoleNames, NEW n \in {0, 1}, NEW roles,
         userRoles' = [userRoles EXCEPT ![a] = [userRoles[a] EXCEPT ![r] = n]],
         told' = [told EXCEPT !.last = [told.last EXCEPT ![a] = roles]],
         \/ n = 1 /\ roles = told.last[a] \cup {r}
         \/ n = 0 /\ roles = told.last[a] \ {r},
         clerk' \in [RoleRequest -> {NoClerk} \cup RoleJob]
  PROVE  RolesInOrder'
<1>1. /\ userRoles \in [Account -> [RoleNames -> Nat]]
      /\ told \in [last : [Account -> SUBSET RoleNames], calls : Nat]
      /\ told.last \in [Account -> SUBSET RoleNames] /\ HeldAsTold
  BY DEF RolesInOrder
<1>2. /\ userRoles' \in [Account -> [RoleNames -> Nat]]
      /\ \A b \in Account : b # a => userRoles'[b] = userRoles[b]
      /\ \A s \in RoleNames : userRoles'[a][s] = IF s = r THEN n ELSE userRoles[a][s]
  BY <1>1
<1>3. roles \in SUBSET RoleNames
  BY <1>1
<1>4. /\ told' \in [last : [Account -> SUBSET RoleNames], calls : Nat]
      /\ told'.last[a] = roles /\ \A b \in Account : b # a => told'.last[b] = told.last[b]
  <2> DEFINE held == [told.last EXCEPT ![a] = roles]
  <2>1. held \in [Account -> SUBSET RoleNames] /\ held[a] = roles
        /\ \A b \in Account : b # a => held[b] = told.last[b]
    BY <1>1, <1>3
  <2>2. told' = [told EXCEPT !.last = held]
    OBVIOUS
  <2> HIDE DEF held
  <2> QED BY <1>1, <2>1, <2>2
<1>5. ASSUME NEW b \in Account
      PROVE  /\ {s \in RoleNames : userRoles'[b][s] > 0} = told'.last[b]
             /\ \A s \in RoleNames : userRoles'[b][s] <= 1
  <2>1. /\ {s \in RoleNames : userRoles[b][s] > 0} = told.last[b]
        /\ \A s \in RoleNames : userRoles[b][s] <= 1
    BY <1>1 DEF HeldAsTold, RolesOf
  <2>2. CASE b # a
    BY <1>2, <1>4, <2>1, <2>2
  <2>3. CASE b = a
    BY <1>2, <1>4, <2>1, <2>3
  <2> QED BY <2>2, <2>3
<1> QED BY <1>2, <1>4, <1>5 DEF RolesInOrder, HeldAsTold, RolesOf

LEMMA RoleStep == RolesInOrder /\ [RoleNext]_roleVars => RolesInOrder'
<1> SUFFICES ASSUME RolesInOrder, [RoleNext]_roleVars PROVE RolesInOrder'
  OBVIOUS
<1>0. /\ userRoles \in [Account -> [RoleNames -> Nat]]
      /\ clerk \in [RoleRequest -> {NoClerk} \cup RoleJob]
      /\ told \in [last : [Account -> SUBSET RoleNames], calls : Nat]
      /\ told.last \in [Account -> SUBSET RoleNames] /\ HeldAsTold
  BY DEF RolesInOrder
<1>1. CASE UNCHANGED roleVars
  BY <1>1 DEF roleVars, RolesInOrder, HeldAsTold, RolesOf
<1>2. ASSUME NEW by \in Account, InitializeRoles(by) PROVE RolesInOrder'
  BY <1>2 DEF InitializeRoles, RolesInOrder, HeldAsTold, RolesOf
<1>3. ASSUME NEW q \in RoleRequest, NEW job \in RoleJob, BeginRoleCall(q, job)
      PROVE  RolesInOrder'
  <2>1. clerk' \in [RoleRequest -> {NoClerk} \cup RoleJob]
    BY <1>0, <1>3 DEF BeginRoleCall
  <2>2. told' \in [last : [Account -> SUBSET RoleNames], calls : Nat] /\ told'.last = told.last
        /\ userRoles' = userRoles
    BY <1>0, <1>3 DEF BeginRoleCall
  <2> QED BY <1>0, <2>1, <2>2 DEF RolesInOrder, HeldAsTold, RolesOf
<1>4. ASSUME NEW q \in RoleRequest, NEW by \in Account, NEW a \in Account, NEW r \in RoleNames,
             BeginAssign(q, by, a, r) \/ BeginRevoke(q, by, a, r)
      PROVE  RolesInOrder'
  <2>1. /\ [step |-> "assign", account |-> a, role |-> r] \in RoleJob
        /\ [step |-> "revoke", account |-> a, role |-> r] \in RoleJob
    BY DEF RoleJob
  <2> QED BY <1>3, <1>4, <2>1 DEF BeginAssign, BeginRevoke
<1>5. ASSUME NEW q \in RoleRequest, InsertUserRole(q) PROVE RolesInOrder'
  <2>1. clerk[q] \in RoleJob /\ clerk[q].account \in Account /\ clerk[q].role \in RoleNames
    BY <1>0, <1>5 DEF InsertUserRole, NoClerk, RoleJob
  <2>2. clerk' \in [RoleRequest -> {NoClerk} \cup RoleJob]
    BY <1>0, <1>5 DEF InsertUserRole
  <2>3. CASE UNCHANGED <<userRoles, told>>
    BY <1>0, <2>2, <2>3 DEF RolesInOrder, HeldAsTold, RolesOf
  <2>4. CASE ~ UNCHANGED <<userRoles, told>>
    <3> DEFINE a == clerk[q].account
               r == clerk[q].role
    <3>1. /\ ~(userRoles[a][r] > 0)
          /\ userRoles' = [userRoles EXCEPT ![a] = [userRoles[a] EXCEPT ![r] = userRoles[a][r] + 1]]
          /\ told' = [told EXCEPT !.last = [told.last EXCEPT ![a] = told.last[a] \cup {r}]]
      BY <1>5, <2>4 DEF InsertUserRole
    <3>2. userRoles[a][r] + 1 = 1
      <4>1. userRoles[a][r] \in Nat
        BY <1>0, <2>1
      <4> QED BY <3>1, <4>1
    <3> HIDE DEF a, r
    <3>3. a \in Account /\ r \in RoleNames
      BY <2>1 DEF a, r
    <3>4. /\ userRoles' = [userRoles EXCEPT ![a] = [userRoles[a] EXCEPT ![r] = 1]]
          /\ told' = [told EXCEPT !.last = [told.last EXCEPT ![a] = told.last[a] \cup {r}]]
      BY <3>1, <3>2
    <3> QED BY <2>2, <3>3, <3>4, RoleIsTold
  <2> QED BY <2>3, <2>4
<1>6. ASSUME NEW q \in RoleRequest, DeleteUserRole(q) PROVE RolesInOrder'
  <2> DEFINE a == clerk[q].account
             r == clerk[q].role
  <2>1. clerk[q] \in RoleJob /\ a \in Account /\ r \in RoleNames
    BY <1>0, <1>6 DEF DeleteUserRole, NoClerk, RoleJob
  <2>2. clerk' \in [RoleRequest -> {NoClerk} \cup RoleJob]
    BY <1>0, <1>6 DEF DeleteUserRole
  <2>3. /\ userRoles' = [userRoles EXCEPT ![a] = [userRoles[a] EXCEPT ![r] = 0]]
        /\ told' = [told EXCEPT !.last = [told.last EXCEPT ![a] = told.last[a] \ {r}]]
    BY <1>6 DEF DeleteUserRole
  <2> HIDE DEF a, r
  <2> QED BY <2>1, <2>2, <2>3, RoleIsTold
<1> QED BY <1>1, <1>2, <1>4, <1>5, <1>6 DEF RoleNext

-----------------------------------------------------------------------------
WordFields == {"of", "waits", "undone", "deleted", "calls"}

\* What the entity a request holds may still take back: its copy of a column is the one
\* last answered, unless a request answered since, or took the answer back.
EntityInOrder(p, c, said, which) ==
    /\ c.edit.sets \subseteq DOMAIN c.entity /\ DOMAIN c.entity \subseteq Columns[which]
    /\ ~c.made => DOMAIN c.entity = Columns[which]
    /\ which = "drafts" => ~c.made
    /\ said.deleted => p \in said.waits["row"] \/ "row" \in said.undone
    /\ \A col \in DOMAIN c.entity \ c.edit.sets : col \in DOMAIN said.of =>
          p \in said.waits[col] \/ col \in said.undone \/ c.entity[col] = said.of[col]

\* The inductive invariant: a row without a deletion was never answered about before it
\* was there, and the copies in flight are in order.
RecordsInOrder ==
    /\ about \in Tables
    /\ DOMAIN word = WordFields /\ DOMAIN word.waits = KnownColumns /\ DOMAIN editing = Editor
    /\ record = Absent \/ DOMAIN record = Columns[about]
    /\ DOMAIN word.of \subseteq Columns[about] \cup {"row"}
    /\ word.deleted \in BOOLEAN /\ (word.deleted => about = "drafts")
    /\ record = Absent /\ ~word.deleted => DOMAIN word.of \subseteq {"row"}
    /\ \A p \in InFlight : EntityInOrder(p, editing[p], word, about)
    /\ AnswersStand

-----------------------------------------------------------------------------

LEMMA ColumnsKnown ==
  ASSUME NEW t \in Tables
  PROVE  Columns[t] \subseteq KnownColumns /\ Columns[t] # {} /\ "row" \notin Columns[t]
         /\ "row" \in KnownColumns
<1>1. Tables = {"contributors", "users", "communities", "grants", "drafts", "config"}
  BY DEF Tables, Columns
<1>2. Columns[t] # {} /\ "row" \notin Columns[t]
  BY <1>1 DEF Columns
<1> DEFINE all == UNION {Columns[u] : u \in Tables}
<1>3. Columns[t] \subseteq all
  OBVIOUS
<1>4. KnownColumns = all \cup {"row"}
  BY DEF KnownColumns
<1> HIDE DEF all
<1> QED BY <1>2, <1>3, <1>4

LEMMA EditsSet ==
  ASSUME NEW e \in Edits
  PROVE  /\ e.table \in Tables /\ e.sets \subseteq Columns[e.table]
         /\ e.fills \subseteq Columns[e.table] /\ (e.table = "drafts" => e.refuses)
  BY DEF Edits, Edit, Tables, Columns, Blacklist, Preferences, PatchProfile, Award, Register,
         LinkGithub, LinkTwitter, EnsureUser, Describe, Feature, AssignCommunity, PatchTitle,
         PatchBudget, SetFeePercentage

LEMMA Merged ==
  ASSUME NEW f, NEW g
  PROVE  /\ DOMAIN Over(f, g) = DOMAIN f \cup DOMAIN g
         /\ \A x \in DOMAIN f : Over(f, g)[x] = f[x]
         /\ \A x \in DOMAIN g \ DOMAIN f : Over(f, g)[x] = g[x]
  BY DEF Over

LEMMA RecordsInitially == RecordInit => RecordsInOrder
<1> SUFFICES ASSUME RecordInit PROVE RecordsInOrder
  OBVIOUS
<1>1. /\ about \in Tables /\ DOMAIN word = WordFields /\ DOMAIN word.waits = KnownColumns
      /\ DOMAIN editing = Editor /\ DOMAIN word.of = {} /\ word.deleted = FALSE
  BY DEF RecordInit, WordFields, Absent
<1>2. record = Absent \/ DOMAIN record = Columns[about]
  BY DEF RecordInit, Defaults
<1>3. InFlight = {}
  BY DEF RecordInit, InFlight
<1> QED BY <1>1, <1>2, <1>3 DEF RecordsInOrder, AnswersStand

\* What an answer leaves of the history.
LEMMA Answering ==
  ASSUME RecordsInOrder, NEW q, NEW columns, NEW values, NEW now, now = Answered(q, columns, values)
  PROVE  /\ DOMAIN now = WordFields /\ DOMAIN now.waits = KnownColumns
         /\ DOMAIN now.of = columns \cup DOMAIN word.of
         /\ \A c \in columns : now.of[c] = values[c]
         /\ \A c \in DOMAIN word.of \ columns : now.of[c] = word.of[c]
         /\ \A c \in KnownColumns \cap columns : now.waits[c] = InFlight \ {q}
         /\ \A c \in KnownColumns \ columns : now.waits[c] = word.waits[c] \ {q}
         /\ now.undone = word.undone \ columns
         /\ now.deleted = word.deleted
<1> DEFINE set == [c \in columns |-> values[c]]
           of == Over(set, word.of)
           waits == [c \in KnownColumns |->
                        IF c \in columns THEN InFlight \ {q} ELSE word.waits[c] \ {q}]
           undone == word.undone \ columns
<1>1. now = [word EXCEPT !.of = of, !.waits = waits, !.undone = undone]
  BY DEF Answered
<1>2. /\ DOMAIN of = columns \cup DOMAIN word.of
      /\ \A c \in columns : of[c] = values[c]
      /\ \A c \in DOMAIN word.of \ columns : of[c] = word.of[c]
  <2>1. DOMAIN set = columns /\ \A c \in columns : set[c] = values[c]
    OBVIOUS
  <2> HIDE DEF set
  <2> QED BY <2>1, Merged, ZenonT(60)
<1>3. /\ DOMAIN waits = KnownColumns
      /\ \A c \in KnownColumns \cap columns : waits[c] = InFlight \ {q}
      /\ \A c \in KnownColumns \ columns : waits[c] = word.waits[c] \ {q}
  OBVIOUS
<1> HIDE DEF of, waits, undone
<1>4. /\ DOMAIN now = WordFields /\ now.of = of /\ now.waits = waits /\ now.undone = undone
      /\ now.deleted = word.deleted
  BY <1>1 DEF RecordsInOrder, WordFields
<1> QED BY <1>2, <1>3, <1>4 DEF undone

LEMMA Forgetting ==
  ASSUME RecordsInOrder, NEW q, NEW written, NEW now,
         Forget(q, written) = now
  PROVE  /\ DOMAIN now = WordFields /\ DOMAIN now.waits = KnownColumns
         /\ now.of = word.of /\ now.deleted = word.deleted
         /\ \A c \in KnownColumns : now.waits[c] = word.waits[c] \ {q}
         /\ \A c : c \in now.undone <=> c \in word.undone \/ (c \in written /\ q \in word.waits[c])
<1> DEFINE waits == [c \in KnownColumns |-> word.waits[c] \ {q}]
           undone == word.undone \cup {c \in written : q \in word.waits[c]}
<1>1. now = [word EXCEPT !.waits = waits, !.undone = undone]
  BY DEF Forget
<1>2. DOMAIN waits = KnownColumns /\ \A c \in KnownColumns : waits[c] = word.waits[c] \ {q}
  OBVIOUS
<1>4. \A c : c \in undone <=> c \in word.undone \/ (c \in written /\ q \in word.waits[c])
  OBVIOUS
<1> HIDE DEF waits, undone
<1>3. /\ DOMAIN now = WordFields /\ now.of = word.of /\ now.waits = waits
      /\ now.undone = undone /\ now.deleted = word.deleted
  BY <1>1 DEF RecordsInOrder, WordFields
<1> QED BY <1>2, <1>3, <1>4

\* A request that ends leaves the others in flight.
LEMMA RequestEnds ==
  ASSUME RecordsInOrder, NEW q \in Editor, editing' = [editing EXCEPT ![q] = Resting]
  PROVE  /\ DOMAIN editing' = Editor
         /\ \A p \in InFlight' : p # q /\ p \in InFlight /\ editing'[p] = editing[p]
<1>1. DOMAIN editing = Editor
  BY DEF RecordsInOrder
<1>2. DOMAIN editing' = Editor /\ editing'[q] = Resting
      /\ \A p \in Editor : p # q => editing'[p] = editing[p]
  BY <1>1
<1> QED BY <1>2 DEF InFlight

LEMMA DropKeepsOrder ==
  ASSUME RecordsInOrder, NEW q \in Editor, editing' = [editing EXCEPT ![q] = Resting],
         word' = Forget(q, {}), record' = record, about' = about
  PROVE  RecordsInOrder'
<1>1. /\ DOMAIN editing' = Editor
      /\ \A p \in InFlight' : p # q /\ p \in InFlight /\ editing'[p] = editing[p]
  BY RequestEnds
<1>2. /\ DOMAIN word' = WordFields /\ DOMAIN word'.waits = KnownColumns
      /\ word'.of = word.of /\ word'.deleted = word.deleted /\ (\A c : c \in word'.undone <=> c \in word.undone)
      /\ \A c \in KnownColumns : word'.waits[c] = word.waits[c] \ {q}
  BY Forgetting
<1>3. AnswersStand'
  BY <1>2 DEF RecordsInOrder, AnswersStand
<1>4. ASSUME NEW p \in InFlight' PROVE EntityInOrder(p, editing'[p], word', about')
  <2>1. EntityInOrder(p, editing[p], word, about) /\ p # q /\ editing'[p] = editing[p]
    BY <1>1, <1>4 DEF RecordsInOrder
  <2>2. "row" \in KnownColumns /\ DOMAIN editing[p].entity \subseteq KnownColumns
    BY <2>1, ColumnsKnown DEF RecordsInOrder, EntityInOrder
  <2>3. \A c \in KnownColumns : p \in word'.waits[c] <=> p \in word.waits[c]
    BY <1>2, <2>1
  <2>4. word.deleted => p \in word'.waits["row"] \/ "row" \in word.undone
    BY <2>1, <2>2, <2>3 DEF EntityInOrder
  <2>5. ASSUME NEW col \in DOMAIN editing[p].entity \ editing[p].edit.sets, col \in DOMAIN word.of
        PROVE  p \in word'.waits[col] \/ col \in word.undone \/ editing[p].entity[col] = word.of[col]
    BY <2>1, <2>2, <2>3, <2>5 DEF EntityInOrder
  <2> QED BY <1>2, <2>1, <2>4, <2>5 DEF EntityInOrder
<1> QED BY <1>1, <1>2, <1>3, <1>4 DEF RecordsInOrder

\* A history in which a request answered about some columns, and took back none of the
\* other answers.
Follows(now, q, columns) ==
    /\ DOMAIN now = WordFields /\ DOMAIN now.waits = KnownColumns
    /\ DOMAIN now.of = columns \cup DOMAIN word.of
    /\ \A c \in DOMAIN word.of \ columns : now.of[c] = word.of[c]
    /\ \A c \in KnownColumns \cap columns : now.waits[c] = InFlight \ {q}
    /\ \A c \in KnownColumns \ columns : now.waits[c] = word.waits[c] \ {q}
    /\ word.undone \ columns \subseteq now.undone
    /\ now.deleted => word.deleted \/ "row" \in columns

\* It leaves the copies of the other requests in order.
LEMMA OthersStayInOrder ==
  ASSUME RecordsInOrder, NEW q \in Editor, NEW columns, NEW now, Follows(now, q, columns),
         NEW p \in InFlight, p # q
  PROVE  EntityInOrder(p, editing[p], now, about)
<1> DEFINE c == editing[p]
<1>1. EntityInOrder(p, c, word, about) /\ about \in Tables
  BY DEF RecordsInOrder
<1>2. "row" \in KnownColumns /\ DOMAIN c.entity \subseteq KnownColumns
  BY <1>1, ColumnsKnown DEF EntityInOrder
<1> HIDE DEF c
<1>3. now.deleted => p \in now.waits["row"] \/ "row" \in now.undone
  BY <1>1, <1>2 DEF Follows, EntityInOrder
<1>4. ASSUME NEW col \in DOMAIN c.entity \ c.edit.sets, col \in DOMAIN now.of
      PROVE  p \in now.waits[col] \/ col \in now.undone \/ c.entity[col] = now.of[col]
  <2>1. CASE col \in columns
    BY <1>2, <2>1 DEF Follows
  <2>2. CASE col \notin columns
    <3>1. col \in DOMAIN word.of /\ now.of[col] = word.of[col]
          /\ now.waits[col] = word.waits[col] \ {q}
      BY <1>2, <1>4, <2>2 DEF Follows
    <3>2. p \in word.waits[col] \/ col \in word.undone \/ c.entity[col] = word.of[col]
      BY <1>1, <3>1 DEF EntityInOrder
    <3> QED BY <2>2, <3>1, <3>2 DEF Follows
  <2> QED BY <2>1, <2>2
<1> QED BY <1>1, <1>3, <1>4 DEF EntityInOrder, c

LEMMA BeginKeepsOrder ==
  ASSUME RecordsInOrder, NEW q \in Editor, NEW e \in Edits, NEW v, BeginEdit(q, e, v)
  PROVE  RecordsInOrder'
<1> DEFINE entity == EntityOf(e, v)
           read == IF record = Absent THEN [c \in e.fills |-> 0] ELSE record
           set == [c \in e.sets |-> IF e = Award /\ c \in DOMAIN read THEN read[c] + 1 ELSE v]
           job == [edit |-> e, made |-> record = Absent, entity |-> entity]
<1>1. /\ about \in Tables /\ DOMAIN word = WordFields /\ DOMAIN editing = Editor
      /\ (record = Absent \/ DOMAIN record = Columns[about])
      /\ word.deleted => about = "drafts"
      /\ record = Absent /\ ~word.deleted => DOMAIN word.of \subseteq {"row"}
  BY DEF RecordsInOrder
<1>2. /\ e.sets \subseteq Columns[about] /\ e.fills \subseteq Columns[about]
      /\ about = "drafts" => record # Absent
      /\ editing' = [editing EXCEPT ![q] = job]
      /\ word' = [word EXCEPT !.calls = @ + 1] /\ about' = about /\ record' = record
  BY EditsSet DEF BeginEdit
<1>3. /\ DOMAIN entity = e.sets \cup DOMAIN read
      /\ \A c \in DOMAIN read \ e.sets : entity[c] = read[c]
  <2>1. DOMAIN set = e.sets /\ entity = Over(set, read)
    BY DEF EntityOf
  <2> HIDE DEF set, entity, read
  <2>2. /\ DOMAIN Over(set, read) = DOMAIN set \cup DOMAIN read
        /\ \A c \in DOMAIN read \ DOMAIN set : Over(set, read)[c] = read[c]
    BY Merged
  <2> QED BY <2>1, <2>2
<1>4. /\ DOMAIN word' = WordFields /\ word'.of = word.of /\ word'.waits = word.waits
      /\ word'.undone = word.undone /\ word'.deleted = word.deleted
  BY <1>1, <1>2 DEF WordFields
<1> DEFINE j == job
<1>5. j.edit.sets = e.sets /\ j.entity = entity /\ j.made = (record = Absent)
  OBVIOUS
<1> HIDE DEF job, entity
<1>6. EntityInOrder(q, j, word, about)
  <2>1. DOMAIN entity \subseteq Columns[about]
    BY <1>1, <1>2, <1>3
  <2>2. ~j.made => DOMAIN entity = Columns[about]
    BY <1>1, <1>2, <1>3, <1>5
  <2>3. word.deleted => "row" \in word.undone
    BY <1>1, <1>2 DEF RecordsInOrder, AnswersStand
  <2>4. ASSUME NEW col \in DOMAIN entity \ e.sets, col \in DOMAIN word.of
        PROVE  col \in word.undone \/ entity[col] = word.of[col]
    <3>1. col # "row"
      BY <1>1, <2>1, ColumnsKnown
    <3>2. record # Absent
      BY <1>1, <1>2, <2>4, <3>1
    <3>3. entity[col] = record[col]
      BY <1>3, <2>4, <3>2
    <3> QED BY <2>4, <3>1, <3>2, <3>3 DEF RecordsInOrder, AnswersStand
  <2> QED BY <1>2, <1>3, <1>5, <2>1, <2>2, <2>3, <2>4 DEF EntityInOrder
<1>7. DOMAIN editing' = Editor /\ editing'[q] = j
      /\ \A p \in Editor : p # q => editing'[p] = editing[p]
  BY <1>1, <1>2
<1> HIDE DEF j
<1>8. ASSUME NEW p \in InFlight' PROVE EntityInOrder(p, editing'[p], word', about')
  <2>1. EntityInOrder(p, editing'[p], word, about)
    <3>1. CASE p = q
      BY <1>6, <1>7, <3>1
    <3>2. CASE p # q
      BY <1>7, <1>8, <3>2 DEF InFlight, RecordsInOrder
    <3> QED BY <3>1, <3>2
  <2> QED BY <1>2, <1>4, <2>1 DEF EntityInOrder
<1>9. AnswersStand'
  BY <1>2, <1>4 DEF AnswersStand, RecordsInOrder
<1> QED BY <1>2, <1>4, <1>7, <1>8, <1>9 DEF RecordsInOrder

LEMMA SaveKeepsOrder ==
  ASSUME RecordsInOrder, NEW q \in Editor, SaveEdited(q)
  PROVE  RecordsInOrder'
<1> DEFINE c == editing[q]
           sets == c.edit.sets
           stale == Forget(q, DOMAIN c.entity \cup {"row"})
           answer == Answered(q, sets, c.entity)
<1>1. /\ about \in Tables /\ DOMAIN word = WordFields /\ DOMAIN editing = Editor
      /\ (record = Absent \/ DOMAIN record = Columns[about])
      /\ DOMAIN word.of \subseteq Columns[about] \cup {"row"}
      /\ word.deleted \in BOOLEAN /\ (word.deleted => about = "drafts")
      /\ record = Absent /\ ~word.deleted => DOMAIN word.of \subseteq {"row"}
  BY DEF RecordsInOrder
<1>2. q \in InFlight /\ EntityInOrder(q, c, word, about)
      /\ editing' = [editing EXCEPT ![q] = Resting] /\ about' = about
  BY DEF SaveEdited, InFlight, RecordsInOrder
<1>3. CASE record' = record /\ word' = Forget(q, {})
  BY <1>2, <1>3, DropKeepsOrder
<1>4. CASE /\ record' = Over(c.entity, Over(record, Defaults(about)))
           /\ word' = [answer EXCEPT !.undone = stale.undone \ sets]
  <2>1. /\ sets \subseteq DOMAIN c.entity /\ DOMAIN c.entity \subseteq Columns[about]
        /\ sets \subseteq KnownColumns /\ "row" \notin sets /\ "row" \in KnownColumns
        /\ Columns[about] \subseteq KnownColumns
    BY <1>1, <1>2, ColumnsKnown DEF EntityInOrder
  <2>2. DOMAIN Absent = {}
    BY DEF Absent
  <2>3. DOMAIN record \subseteq Columns[about]
    BY <1>1, <2>2
  <2>4. /\ DOMAIN record' = Columns[about]
        /\ \A col \in DOMAIN c.entity : record'[col] = c.entity[col]
        /\ \A col \in DOMAIN record \ DOMAIN c.entity : record'[col] = record[col]
    <3> DEFINE rest == Over(record, Defaults(about))
    <3>1. DOMAIN rest = DOMAIN record \cup Columns[about]
          /\ \A col \in DOMAIN record : rest[col] = record[col]
      <4>1. DOMAIN Defaults(about) = Columns[about]
        BY DEF Defaults
      <4>2. /\ DOMAIN rest = DOMAIN record \cup DOMAIN Defaults(about)
            /\ \A col \in DOMAIN record : rest[col] = record[col]
        BY Merged
      <4> QED BY <4>1, <4>2
    <3> HIDE DEF rest
    <3>2. record' = Over(c.entity, rest)
      BY <1>4 DEF rest
    <3>3. /\ DOMAIN record' = DOMAIN c.entity \cup DOMAIN rest
          /\ \A col \in DOMAIN c.entity : record'[col] = c.entity[col]
          /\ \A col \in DOMAIN rest \ DOMAIN c.entity : record'[col] = rest[col]
      <4> DEFINE e == c.entity
      <4>1. /\ DOMAIN Over(e, rest) = DOMAIN e \cup DOMAIN rest
            /\ \A col \in DOMAIN e : Over(e, rest)[col] = e[col]
            /\ \A col \in DOMAIN rest \ DOMAIN e : Over(e, rest)[col] = rest[col]
        <5> HIDE DEF e
        <5> QED BY Merged
      <4> QED BY <3>2, <4>1
    <3>4. DOMAIN rest = Columns[about]
      BY <2>3, <3>1
    <3>5. DOMAIN record' = Columns[about]
      BY <2>1, <3>3, <3>4
    <3>6. ASSUME NEW col \in DOMAIN record \ DOMAIN c.entity PROVE record'[col] = record[col]
      BY <2>3, <3>1, <3>3, <3>4, <3>6
    <3> QED BY <3>3, <3>5, <3>6
  <2>5. record' # Absent
    BY <1>1, <2>2, <2>4, ColumnsKnown
  <2> HIDE DEF c
  <2>6. \A col : col \in stale.undone <=>
            col \in word.undone \/ (col \in DOMAIN c.entity \cup {"row"} /\ q \in word.waits[col])
    BY Forgetting
  <2>7. /\ DOMAIN answer = WordFields /\ DOMAIN answer.waits = KnownColumns
        /\ DOMAIN answer.of = sets \cup DOMAIN word.of
        /\ \A col \in sets : answer.of[col] = c.entity[col]
        /\ \A col \in DOMAIN word.of \ sets : answer.of[col] = word.of[col]
        /\ \A col \in KnownColumns \cap sets : answer.waits[col] = InFlight \ {q}
        /\ \A col \in KnownColumns \ sets : answer.waits[col] = word.waits[col] \ {q}
        /\ answer.deleted = word.deleted
    BY Answering
  <2> HIDE DEF answer, stale
  <2>8. /\ DOMAIN word' = WordFields /\ word'.of = answer.of /\ word'.waits = answer.waits
        /\ word'.undone = stale.undone \ sets /\ word'.deleted = answer.deleted
    BY <1>4, <2>7 DEF WordFields
  <2> HIDE DEF sets
  <2>9. Follows(word', q, sets)
    BY <2>6, <2>7, <2>8 DEF Follows
  <2>10. DOMAIN editing' = Editor
         /\ \A p \in InFlight' : p # q /\ p \in InFlight /\ editing'[p] = editing[p]
    BY <1>2, RequestEnds
  <2>11. \A p \in InFlight' : EntityInOrder(p, editing'[p], word', about')
    BY <1>2, <2>9, <2>10, OthersStayInOrder
  <2>12. AnswersStand'
    <3>1. word'.deleted => "row" \in word'.undone
      BY <1>2, <2>1, <2>6, <2>7, <2>8 DEF EntityInOrder
    <3>2. ASSUME NEW col \in DOMAIN word'.of, col # "row", col \notin word'.undone
          PROVE  record'[col] = word'.of[col]
      <4>1. CASE col \in sets
        BY <2>1, <2>4, <2>7, <2>8, <4>1
      <4>2. CASE col \notin sets
        <5>1. col \in DOMAIN word.of /\ word'.of[col] = word.of[col] /\ col \in Columns[about]
              /\ col \notin word.undone /\ ~(col \in DOMAIN c.entity /\ q \in word.waits[col])
          BY <1>1, <2>6, <2>7, <2>8, <3>2, <4>2
        <5>2. CASE col \in DOMAIN c.entity
          <6>1. c.entity[col] = word.of[col]
            BY <1>2, <4>2, <5>1, <5>2 DEF EntityInOrder, sets
          <6> QED BY <2>4, <5>1, <5>2, <6>1
        <5>3. CASE col \notin DOMAIN c.entity
          <6>1. about # "drafts"
            BY <1>2, <5>1, <5>3 DEF EntityInOrder
          <6>2. record # Absent
            BY <1>1, <3>2, <5>1, <6>1
          <6>3. record[col] = word.of[col] /\ col \in DOMAIN record
            BY <1>1, <3>2, <5>1, <6>2 DEF RecordsInOrder, AnswersStand
          <6> QED BY <2>4, <5>1, <5>3, <6>3
        <5> QED BY <5>2, <5>3
      <4> QED BY <4>1, <4>2
    <3> QED BY <2>5, <3>1, <3>2 DEF AnswersStand
  <2>13. DOMAIN word'.of \subseteq Columns[about] \cup {"row"}
    BY <1>1, <2>1, <2>7, <2>8
  <2> QED BY <1>1, <1>2, <2>4, <2>5, <2>7, <2>8, <2>10, <2>11, <2>12, <2>13 DEF RecordsInOrder
<1> QED BY <1>3, <1>4 DEF SaveEdited

\* One statement that writes and answers about some columns, without a request waiting.
LEMMA StatementKeepsOrder ==
  ASSUME RecordsInOrder, NEW q \in Editor, editing[q] = Resting, NEW columns, Follows(word', q, columns),
         about' = about, editing' = editing,
         columns \subseteq Columns[about] \cup {"row"},
         word'.deleted \in BOOLEAN, word'.deleted => about = "drafts",
         record' = Absent \/ DOMAIN record' = Columns[about],
         record' = Absent /\ ~word'.deleted => DOMAIN word'.of \subseteq {"row"},
         AnswersStand'
  PROVE  RecordsInOrder'
<1>1. InFlight' = InFlight /\ q \notin InFlight
  BY DEF InFlight
<1>2. \A p \in InFlight' : EntityInOrder(p, editing'[p], word', about')
  BY <1>1, OthersStayInOrder DEF InFlight
<1>3. DOMAIN word'.of \subseteq Columns[about] \cup {"row"}
  BY DEF Follows, RecordsInOrder
<1> QED BY <1>2, <1>3 DEF RecordsInOrder, Follows

LEMMA CreateKeepsOrder ==
  ASSUME RecordsInOrder, NEW q \in Editor, NEW v, CreateRecord(q, v)
  PROVE  RecordsInOrder'
<1> DEFINE answer == Answered(q, Columns[about], record')
<1>1. /\ DOMAIN answer = WordFields /\ DOMAIN answer.waits = KnownColumns
      /\ DOMAIN answer.of = Columns[about] \cup DOMAIN word.of
      /\ \A c \in Columns[about] : answer.of[c] = record'[c]
      /\ \A c \in DOMAIN word.of \ Columns[about] : answer.of[c] = word.of[c]
      /\ \A c \in KnownColumns \cap Columns[about] : answer.waits[c] = InFlight \ {q}
      /\ \A c \in KnownColumns \ Columns[about] : answer.waits[c] = word.waits[c] \ {q}
      /\ answer.undone = word.undone \ Columns[about]
      /\ answer.deleted = word.deleted
  BY Answering
<1>2. /\ word' = [answer EXCEPT !.calls = @ + 1] /\ ~word.deleted /\ record = Absent
      /\ about' = about /\ editing' = editing /\ editing[q] = Resting
      /\ DOMAIN record' = Columns[about]
  BY DEF CreateRecord
<1> HIDE DEF answer
<1>3. /\ DOMAIN word' = WordFields /\ word'.of = answer.of /\ word'.waits = answer.waits
      /\ word'.undone = answer.undone /\ word'.deleted = answer.deleted
  BY <1>1, <1>2 DEF WordFields
<1>4. Follows(word', q, Columns[about])
  BY <1>1, <1>3 DEF Follows
<1>5. DOMAIN word.of \subseteq {"row"} /\ word.deleted \in BOOLEAN /\ about \in Tables
  BY <1>2 DEF RecordsInOrder
<1>6. record' # Absent
  <2>1. DOMAIN Absent = {}
    BY DEF Absent
  <2> QED BY <1>2, <1>5, <2>1, ColumnsKnown
<1>7. AnswersStand'
  BY <1>1, <1>2, <1>3, <1>5, <1>6 DEF AnswersStand
<1> QED BY <1>1, <1>2, <1>3, <1>4, <1>5, <1>6, <1>7, StatementKeepsOrder

LEMMA WriteKeepsOrder ==
  ASSUME RecordsInOrder, NEW q \in Editor, NEW v, WriteStatus(q, v)
  PROVE  RecordsInOrder'
<1> DEFINE answer == Answered(q, {"status"}, record')
<1>1. /\ DOMAIN answer = WordFields /\ DOMAIN answer.waits = KnownColumns
      /\ DOMAIN answer.of = {"status"} \cup DOMAIN word.of
      /\ \A c \in {"status"} : answer.of[c] = record'[c]
      /\ \A c \in DOMAIN word.of \ {"status"} : answer.of[c] = word.of[c]
      /\ \A c \in KnownColumns \cap {"status"} : answer.waits[c] = InFlight \ {q}
      /\ \A c \in KnownColumns \ {"status"} : answer.waits[c] = word.waits[c] \ {q}
      /\ answer.undone = word.undone \ {"status"}
      /\ answer.deleted = word.deleted
  BY Answering
<1>2. /\ word' = [answer EXCEPT !.calls = @ + 1] /\ record # Absent /\ about = "grants"
      /\ about' = about /\ editing' = editing /\ editing[q] = Resting
      /\ record' = [record EXCEPT !.status = v]
  BY DEF WriteStatus
<1> HIDE DEF answer
<1>3. /\ DOMAIN word' = WordFields /\ word'.of = answer.of /\ word'.waits = answer.waits
      /\ word'.undone = answer.undone /\ word'.deleted = answer.deleted
  BY <1>1, <1>2 DEF WordFields
<1>4. Follows(word', q, {"status"})
  BY <1>1, <1>3 DEF Follows
<1>5. "status" \in Columns[about] /\ about \in Tables /\ DOMAIN record = Columns[about]
      /\ word.deleted = FALSE /\ DOMAIN word.of \subseteq Columns[about] \cup {"row"}
  BY <1>2 DEF RecordsInOrder, Columns
<1>6. DOMAIN record' = Columns[about] /\ \A c \in Columns[about] : c # "status" => record'[c] = record[c]
  BY <1>2, <1>5
<1>7. record' # Absent
  <2>1. DOMAIN Absent = {}
    BY DEF Absent
  <2> QED BY <1>5, <1>6, <2>1
<1>8. AnswersStand'
  <2>1. ASSUME NEW c \in DOMAIN word'.of, c # "row", c \notin word'.undone
        PROVE  record'[c] = word'.of[c]
    <3>1. CASE c = "status"
      BY <1>1, <1>3, <3>1
    <3>2. CASE c # "status"
      <4>1. c \in DOMAIN word.of /\ word'.of[c] = word.of[c] /\ c \notin word.undone /\ c \in Columns[about]
        BY <1>1, <1>3, <1>5, <2>1, <3>2
      <4>2. record[c] = word.of[c]
        BY <1>2, <2>1, <4>1 DEF RecordsInOrder, AnswersStand
      <4> QED BY <1>6, <3>2, <4>1, <4>2
    <3> QED BY <3>1, <3>2
  <2> QED BY <1>1, <1>3, <1>5, <2>1 DEF AnswersStand
<1> QED BY <1>1, <1>2, <1>3, <1>4, <1>5, <1>6, <1>7, <1>8, StatementKeepsOrder

LEMMA DeleteKeepsOrder ==
  ASSUME RecordsInOrder, NEW q \in Editor, DeleteRecord(q)
  PROVE  RecordsInOrder'
<1> DEFINE answer == Answered(q, {"row"}, [row |-> 0])
<1>1. /\ DOMAIN answer = WordFields /\ DOMAIN answer.waits = KnownColumns
      /\ DOMAIN answer.of = {"row"} \cup DOMAIN word.of
      /\ \A c \in DOMAIN word.of \ {"row"} : answer.of[c] = word.of[c]
      /\ \A c \in KnownColumns \cap {"row"} : answer.waits[c] = InFlight \ {q}
      /\ \A c \in KnownColumns \ {"row"} : answer.waits[c] = word.waits[c] \ {q}
      /\ answer.undone = word.undone \ {"row"}
  BY Answering
<1>2. /\ word' = [answer EXCEPT !.deleted = TRUE, !.calls = @ + 1] /\ about = "drafts"
      /\ about' = about /\ editing' = editing /\ editing[q] = Resting
      /\ record' = Absent
  BY DEF DeleteRecord
<1> HIDE DEF answer
<1>3. /\ DOMAIN word' = WordFields /\ word'.of = answer.of /\ word'.waits = answer.waits
      /\ word'.undone = answer.undone /\ word'.deleted = TRUE
  BY <1>1, <1>2 DEF WordFields
<1>4. Follows(word', q, {"row"})
  BY <1>1, <1>3 DEF Follows
<1>5. AnswersStand'
  BY <1>2 DEF AnswersStand
<1> QED BY <1>2, <1>3, <1>4, <1>5, StatementKeepsOrder

LEMMA RecordStep == RecordsInOrder /\ [RecordNext]_recordVars => RecordsInOrder'
<1> SUFFICES ASSUME RecordsInOrder, [RecordNext]_recordVars PROVE RecordsInOrder'
  OBVIOUS
<1>1. CASE UNCHANGED recordVars
  BY <1>1 DEF recordVars, RecordsInOrder, InFlight, AnswersStand
<1>2. ASSUME NEW q \in Editor, DropEdit(q) PROVE RecordsInOrder'
  BY <1>2, DropKeepsOrder DEF DropEdit
<1> QED BY <1>1, <1>2, BeginKeepsOrder, SaveKeepsOrder, CreateKeepsOrder, WriteKeepsOrder,
           DeleteKeepsOrder DEF RecordNext

-----------------------------------------------------------------------------
FillJob == [step : {"fill"}, of : SUBSET Author, read : Nat]
FeedbackJob == [step : {"insert", "drop"}, by : Author]
AnswerJobs == {NoCounter} \cup FillJob \cup FeedbackJob

AnswerTypeOK ==
    /\ given \in [Author -> Nat] /\ hour \in Nat
    /\ kept \in [of : SUBSET Author, read : Nat, until : Nat]
    /\ counter \in [AnswerRequest -> AnswerJobs]
    /\ lastHeard \in [answered : SUBSET (Author \X Nat),
                      served : [of : SUBSET Author, read : Nat, at : Nat],
                      behind : SUBSET Author, overlapped : BOOLEAN]

\* What was read at some time has every row that was answered before.
Reads(of, read, answered) == \A e \in answered : e[2] < read => e[1] \in of
\* It has every row that was answered at all.
ReadsAll(of, answered) == \A e \in answered : e[1] \in of

\* The inductive invariant, whatever interleaves.
AnswersInOrder ==
    /\ AnswerTypeOK
    /\ \A a \in Author : given[a] <= 1
    /\ \A e \in lastHeard.answered : given[e[1]] > 0 /\ e[2] <= hour
    /\ kept.read <= hour /\ Reads(kept.of, kept.read, lastHeard.answered)
    /\ lastHeard.served.read <= hour
    /\ Reads(lastHeard.served.of, lastHeard.served.read, lastHeard.answered)
    /\ \A q \in AnswerRequest :
          /\ counter[q].step = "fill" =>
                counter[q].read <= hour /\ Reads(counter[q].of, counter[q].read, lastHeard.answered)
          /\ counter[q].step = "drop" => given[counter[q].by] > 0

\* The inductive invariant of the feedback as long as no two requests overlapped.
OneReader ==
    key = "feedback" /\ ~lastHeard.overlapped =>
        /\ \A p, q \in AnswerRequest : counter[p] # NoCounter /\ counter[q] # NoCounter => p = q
        /\ kept = Nothing \/ ReadsAll(kept.of, lastHeard.answered)
        /\ \A q \in AnswerRequest :
              counter[q].step = "fill" => ReadsAll(counter[q].of, lastHeard.answered)
        /\ lastHeard.behind = {}

-----------------------------------------------------------------------------

LEMMA AnswersInitially == AnswerInit => AnswersInOrder /\ OneReader
<1> SUFFICES ASSUME AnswerInit PROVE AnswersInOrder /\ OneReader
  OBVIOUS
<1> USE DEF AnswerInit
<1>1. AnswerTypeOK
  BY DEF AnswerTypeOK, Nothing, AnswerJobs
<1> QED BY <1>1 DEF AnswersInOrder, OneReader, Nothing, NoCounter, Reads

\* A request begins with a job in order.
LEMMA AnswerBegins ==
  ASSUME AnswersInOrder, OneReader, NEW q \in AnswerRequest, NEW job \in FillJob \cup FeedbackJob,
         Start(q, job), UNCHANGED <<key, given, hour>>, kept' = kept \/ kept' = Nothing,
         job.step # "drop",
         job.step = "fill" => job.read = hour /\ job.of = Given
  PROVE  AnswersInOrder' /\ OneReader'
<1>1. /\ AnswerTypeOK
      /\ given \in [Author -> Nat] /\ hour \in Nat
      /\ counter \in [AnswerRequest -> AnswerJobs]
      /\ lastHeard \in [answered : SUBSET (Author \X Nat),
                      served : [of : SUBSET Author, read : Nat, at : Nat],
                      behind : SUBSET Author, overlapped : BOOLEAN]
      /\ lastHeard.answered \in SUBSET (Author \X Nat)
  BY DEF AnswersInOrder, AnswerTypeOK
<1>2. /\ counter[q] = NoCounter /\ counter' = [counter EXCEPT ![q] = job]
      /\ lastHeard' \in [answered : SUBSET (Author \X Nat),
                      served : [of : SUBSET Author, read : Nat, at : Nat],
                      behind : SUBSET Author, overlapped : BOOLEAN]
      /\ lastHeard'.answered = lastHeard.answered /\ lastHeard'.served = lastHeard.served
      /\ lastHeard'.behind = lastHeard.behind
      /\ lastHeard'.overlapped =
             (lastHeard.overlapped \/ \E p \in AnswerRequest : counter[p] # NoCounter)
  <2> DEFINE crowded == lastHeard.overlapped \/ \E p \in AnswerRequest : counter[p] # NoCounter
  <2>1. crowded \in BOOLEAN
    BY <1>1
  <2>2. lastHeard' = [lastHeard EXCEPT !.overlapped = crowded]
    BY DEF Start
  <2> HIDE DEF crowded
  <2>3. /\ lastHeard' \in [answered : SUBSET (Author \X Nat),
                      served : [of : SUBSET Author, read : Nat, at : Nat],
                      behind : SUBSET Author, overlapped : BOOLEAN]
      /\ lastHeard'.answered = lastHeard.answered /\ lastHeard'.served = lastHeard.served
      /\ lastHeard'.behind = lastHeard.behind /\ lastHeard'.overlapped = crowded
    BY <1>1, <2>1, <2>2
  <2> QED BY <2>3 DEF Start, crowded
<1>3. counter'[q] = job /\ (\A p \in AnswerRequest : p # q => counter'[p] = counter[p])
      /\ counter' \in [AnswerRequest -> AnswerJobs]
  BY <1>1, <1>2 DEF AnswerJobs
<1>4. kept' \in [of : SUBSET Author, read : Nat, until : Nat] /\ kept'.read <= hour
      /\ Reads(kept'.of, kept'.read, lastHeard.answered)
  <2>1. CASE kept' = kept
    BY <2>1 DEF AnswersInOrder, AnswerTypeOK
  <2>2. CASE kept' = Nothing
    <3>1. \A e \in lastHeard.answered : ~(e[2] < 0)
      BY <1>1
    <3> QED BY <1>1, <2>2, <3>1 DEF Nothing, Reads
  <2> QED BY <2>1, <2>2
<1>5. \A a \in Author : given[a] > 0 <=> a \in Given
  BY DEF Given
<1>6. job.step = "fill" => ReadsAll(job.of, lastHeard.answered)
                           /\ Reads(job.of, job.read, lastHeard.answered)
  BY <1>1, <1>5 DEF ReadsAll, Reads, AnswersInOrder
<1>7. AnswersInOrder'
  <2>1. AnswerTypeOK'
    BY <1>1, <1>2, <1>3, <1>4 DEF AnswerTypeOK
  <2>2. ASSUME NEW p \in AnswerRequest
        PROVE  /\ counter'[p].step = "fill" =>
                     counter'[p].read <= hour /\ Reads(counter'[p].of, counter'[p].read, lastHeard.answered)
               /\ counter'[p].step = "drop" => given[counter'[p].by] > 0
    <3>1. CASE p = q
      BY <1>1, <1>3, <1>6, <3>1
    <3>2. CASE p # q
      BY <1>3, <3>2 DEF AnswersInOrder
    <3> QED BY <3>1, <3>2
  <2> QED BY <1>2, <1>4, <2>1, <2>2 DEF AnswersInOrder
<1>8. ASSUME key = "feedback", ~lastHeard'.overlapped PROVE OneReader'
  <2>1. ~lastHeard.overlapped /\ \A p \in AnswerRequest : counter[p] = NoCounter
    BY <1>1, <1>2, <1>8
  <2>2. kept' = Nothing \/ ReadsAll(kept'.of, lastHeard.answered)
    BY <1>8, <2>1 DEF OneReader
  <2>3. \A p \in AnswerRequest : counter'[p] # NoCounter => p = q
    BY <1>3, <2>1
  <2>4. \A p \in AnswerRequest : counter'[p].step = "fill" => ReadsAll(counter'[p].of, lastHeard.answered)
    BY <1>3, <1>6, <2>1 DEF NoCounter
  <2>5. lastHeard.behind = {}
    BY <1>8, <2>1 DEF OneReader
  <2>6. Nothing' = Nothing
    BY DEF Nothing
  <2> QED BY <1>2, <2>2, <2>3, <2>4, <2>5, <2>6 DEF OneReader
<1> QED BY <1>7, <1>8 DEF OneReader

LEMMA AnswerStep ==
  AnswersInOrder /\ OneReader /\ [AnswerNext]_answerVars => AnswersInOrder' /\ OneReader'
<1> SUFFICES ASSUME AnswersInOrder, OneReader, [AnswerNext]_answerVars
             PROVE  AnswersInOrder' /\ OneReader'
  OBVIOUS
<1>0. /\ AnswerTypeOK
      /\ given \in [Author -> Nat] /\ hour \in Nat
      /\ kept \in [of : SUBSET Author, read : Nat, until : Nat]
      /\ counter \in [AnswerRequest -> AnswerJobs]
      /\ lastHeard \in [answered : SUBSET (Author \X Nat),
                      served : [of : SUBSET Author, read : Nat, at : Nat],
                      behind : SUBSET Author, overlapped : BOOLEAN]
      /\ lastHeard.answered \in SUBSET (Author \X Nat)
      /\ lastHeard.served \in [of : SUBSET Author, read : Nat, at : Nat]
  BY DEF AnswersInOrder, AnswerTypeOK
<1>1. CASE UNCHANGED answerVars
  BY <1>1 DEF answerVars, AnswersInOrder, AnswerTypeOK, OneReader, Nothing
<1>2. CASE PassHour
  <2>1. UNCHANGED <<key, given, kept, counter, lastHeard>> /\ hour' = hour + 1
    BY <1>2 DEF PassHour
  <2>2. AnswerTypeOK'
    BY <1>0, <2>1 DEF AnswerTypeOK
  <2>3. \A e \in lastHeard.answered : e[2] <= hour => e[2] <= hour'
    BY <1>0, <2>1
  <2>4. kept.read <= hour' /\ lastHeard.served.read <= hour'
    BY <1>0, <2>1 DEF AnswersInOrder
  <2>5. ASSUME NEW q \in AnswerRequest, counter[q].step = "fill" PROVE counter[q].read <= hour'
    <3>1. counter[q].read \in Nat
      BY <1>0, <2>5 DEF AnswerJobs, FillJob, FeedbackJob, NoCounter
    <3> QED BY <1>0, <2>1, <2>5, <3>1 DEF AnswersInOrder
  <2>6. AnswersInOrder'
    BY <2>1, <2>2, <2>3, <2>4, <2>5 DEF AnswersInOrder
  <2> QED BY <2>1, <2>6 DEF OneReader, Nothing
<1>3. ASSUME NEW q \in AnswerRequest, GetHit(q) PROVE AnswersInOrder' /\ OneReader'
  <2> DEFINE served == [of |-> kept.of, read |-> kept.read, at |-> hour]
             behind == {e[1] : e \in lastHeard.answered} \ kept.of
  <2>1. /\ UNCHANGED <<key, given, kept, hour, counter>> /\ kept # Nothing
        /\ lastHeard' = [lastHeard EXCEPT !.served = served, !.behind = behind]
    BY <1>3 DEF GetHit
  <2>2. served \in [of : SUBSET Author, read : Nat, at : Nat] /\ behind \in SUBSET Author
        /\ served.of = kept.of /\ served.read = kept.read
    BY <1>0
  <2>3. ReadsAll(kept.of, lastHeard.answered) => behind = {}
    BY DEF ReadsAll
  <2> HIDE DEF served, behind
  <2>4. /\ lastHeard' \in [answered : SUBSET (Author \X Nat),
                      served : [of : SUBSET Author, read : Nat, at : Nat],
                      behind : SUBSET Author, overlapped : BOOLEAN]
        /\ lastHeard'.served = served /\ lastHeard'.behind = behind
        /\ lastHeard'.answered = lastHeard.answered /\ lastHeard'.overlapped = lastHeard.overlapped
    BY <1>0, <2>1, <2>2
  <2>5. AnswerTypeOK'
    BY <1>0, <2>1, <2>4 DEF AnswerTypeOK
  <2>6. AnswersInOrder'
    BY <2>1, <2>2, <2>4, <2>5 DEF AnswersInOrder
  <2>7. OneReader'
    BY <2>1, <2>3, <2>4 DEF OneReader, Nothing
  <2> QED BY <2>6, <2>7
<1>4. ASSUME NEW q \in AnswerRequest, GetMiss(q) PROVE AnswersInOrder' /\ OneReader'
  <2> DEFINE job == [step |-> "fill", of |-> Given, read |-> hour]
  <2>1. job \in FillJob /\ job.step = "fill" /\ job.of = Given /\ job.read = hour
    BY <1>0 DEF FillJob, Given
  <2>2. Start(q, job) /\ UNCHANGED <<key, given, hour>> /\ kept' = Nothing
    BY <1>4 DEF GetMiss
  <2> HIDE DEF job
  <2> QED BY <2>1, <2>2, AnswerBegins
<1>5. ASSUME NEW q \in AnswerRequest, NEW a \in Author, BeginFeedback(q, a)
      PROVE  AnswersInOrder' /\ OneReader'
  <2> DEFINE job == [step |-> "insert", by |-> a]
  <2>1. job \in FeedbackJob /\ job.step = "insert"
    BY DEF FeedbackJob
  <2>2. Start(q, job) /\ UNCHANGED <<key, given, hour>> /\ kept' = kept
    BY <1>5 DEF BeginFeedback
  <2> HIDE DEF job
  <2> QED BY <2>1, <2>2, AnswerBegins
<1>6. ASSUME NEW q \in AnswerRequest, FillAnswer(q) PROVE AnswersInOrder' /\ OneReader'
  <2> DEFINE c == counter[q]
             now == [of |-> c.of, read |-> c.read, until |-> hour + Ttl]
  <2>1. c \in FillJob /\ c.step = "fill" /\ c # NoCounter
    BY <1>0, <1>6 DEF FillAnswer, AnswerJobs, FeedbackJob, NoCounter
  <2>2. UNCHANGED <<key, given, hour, lastHeard>> /\ kept' = now
        /\ counter' = [counter EXCEPT ![q] = NoCounter]
    BY <1>6 DEF FillAnswer
  <2>3. now \in [of : SUBSET Author, read : Nat, until : Nat] /\ now.of = c.of /\ now.read = c.read
    BY <1>0, <2>1, AnswersAssumption DEF FillJob
  <2> HIDE DEF now
  <2>4. counter' \in [AnswerRequest -> AnswerJobs] /\ counter'[q] = NoCounter
        /\ \A p \in AnswerRequest : p # q => counter'[p] = counter[p]
    BY <1>0, <2>2 DEF AnswerJobs
  <2>5. AnswerTypeOK'
    BY <1>0, <2>2, <2>3, <2>4 DEF AnswerTypeOK
  <2>6. AnswersInOrder'
    BY <2>1, <2>2, <2>3, <2>4, <2>5 DEF AnswersInOrder, NoCounter
  <2>7. OneReader'
    BY <2>1, <2>2, <2>3, <2>4 DEF OneReader, NoCounter, Nothing
  <2> QED BY <2>6, <2>7
<1>7. ASSUME NEW q \in AnswerRequest, InsertFeedback(q) PROVE AnswersInOrder' /\ OneReader'
  <2> DEFINE c == counter[q]
             a == c.by
  <2>1. c \in FeedbackJob /\ c.step = "insert" /\ c # NoCounter /\ a \in Author
        /\ UNCHANGED <<key, kept, hour, lastHeard>>
    BY <1>0, <1>7 DEF InsertFeedback, AnswerJobs, FeedbackJob, FillJob, NoCounter
  <2>2. CASE UNCHANGED given /\ counter' = [counter EXCEPT ![q] = NoCounter]
    <3>1. counter' \in [AnswerRequest -> AnswerJobs] /\ counter'[q] = NoCounter
          /\ \A p \in AnswerRequest : p # q => counter'[p] = counter[p]
      BY <1>0, <2>2 DEF AnswerJobs
    <3>2. AnswersInOrder'
      BY <1>0, <2>1, <2>2, <3>1 DEF AnswersInOrder, AnswerTypeOK, NoCounter
    <3> QED BY <2>1, <2>2, <3>1, <3>2 DEF OneReader, NoCounter, Nothing
  <2>3. CASE /\ ~(given[a] > 0) /\ given' = [given EXCEPT ![a] = given[a] + 1]
             /\ counter' = [counter EXCEPT ![q] = [c EXCEPT !.step = "drop"]]
    <3>1. [c EXCEPT !.step = "drop"] \in FeedbackJob /\ [c EXCEPT !.step = "drop"].step = "drop"
          /\ [c EXCEPT !.step = "drop"].by = a
      BY <2>1 DEF FeedbackJob
    <3>2. given[a] \in Nat /\ given[a] + 1 = 1
      BY <1>0, <2>1, <2>3
    <3> DEFINE now == [c EXCEPT !.step = "drop"]
    <3> HIDE DEF a, now
    <3>3. counter' \in [AnswerRequest -> AnswerJobs] /\ counter'[q] = now
          /\ \A p \in AnswerRequest : p # q => counter'[p] = counter[p]
      BY <1>0, <2>3, <3>1 DEF AnswerJobs, now
    <3>4. given' \in [Author -> Nat] /\ given'[a] = 1 /\ \A b \in Author : b # a => given'[b] = given[b]
      BY <1>0, <2>1, <2>3, <3>2
    <3>5. AnswerTypeOK'
      BY <1>0, <2>1, <3>3, <3>4 DEF AnswerTypeOK
    <3>6. \A e \in lastHeard.answered : e[1] \in Author
      BY <1>0
    <3>7. ASSUME NEW p \in AnswerRequest, counter'[p].step = "drop"
          PROVE  given'[counter'[p].by] > 0
      <4>1. CASE p = q
        <5>1. now.by = a
          BY <3>1 DEF now
        <5>2. counter'[p].by = a
          BY <3>3, <4>1, <5>1
        <5> QED BY <3>4, <5>2
      <4>2. CASE p # q
        <5>1. counter[p].by \in Author /\ given[counter[p].by] > 0
          BY <1>0, <3>3, <3>7, <4>2 DEF AnswersInOrder, AnswerJobs, FillJob, FeedbackJob, NoCounter
        <5> QED BY <3>3, <3>4, <4>2, <5>1
      <4> QED BY <4>1, <4>2
    <3>8. now.step # "fill" /\ now.step = "drop"
      BY <3>1 DEF now
    <3>9. \A p \in AnswerRequest : counter'[p].step = "fill" =>
                counter'[p].read <= hour /\ Reads(counter'[p].of, counter'[p].read, lastHeard.answered)
      BY <3>3, <3>8 DEF AnswersInOrder
    <3>10. \A b \in Author : given'[b] <= 1
      BY <3>4 DEF AnswersInOrder
    <3>11. \A e \in lastHeard.answered : given'[e[1]] > 0 /\ e[2] <= hour
      BY <3>4, <3>6 DEF AnswersInOrder
    <3>12. AnswersInOrder'
      BY <2>1, <3>5, <3>7, <3>9, <3>10, <3>11 DEF AnswersInOrder
    <3>13. OneReader'
      BY <2>1, <3>3, <3>8 DEF OneReader, Nothing
    <3> QED BY <3>12, <3>13
  <2> QED BY <1>7, <2>2, <2>3 DEF InsertFeedback
<1>8. ASSUME NEW q \in AnswerRequest, DropAnswer(q) PROVE AnswersInOrder' /\ OneReader'
  <2> DEFINE c == counter[q]
             a == c.by
             answered == lastHeard.answered \cup {<<a, hour>>}
  <2>1. c \in FeedbackJob /\ c.step = "drop" /\ c # NoCounter /\ a \in Author /\ given[a] > 0
    BY <1>0, <1>8 DEF DropAnswer, AnswerJobs, FeedbackJob, FillJob, NoCounter, AnswersInOrder
  <2>2. /\ UNCHANGED <<key, given, hour>> /\ kept' = AfterDrop
        /\ counter' = [counter EXCEPT ![q] = NoCounter]
        /\ lastHeard' = [lastHeard EXCEPT !.answered = answered]
    BY <1>8 DEF DropAnswer
  <2>3. answered \in SUBSET (Author \X Nat)
    BY <1>0, <2>1
  <2>4. \A e \in answered : given[e[1]] > 0 /\ e[2] <= hour
    <3>1. <<a, hour>>[1] = a /\ <<a, hour>>[2] = hour
      OBVIOUS
    <3> QED BY <1>0, <2>1, <3>1 DEF AnswersInOrder
  <2>5. \A of : \A read \in Nat : read <= hour /\ Reads(of, read, lastHeard.answered)
                   => Reads(of, read, answered)
    <3>1. <<a, hour>>[2] = hour
      OBVIOUS
    <3> QED BY <1>0, <3>1 DEF Reads
  <2> HIDE DEF answered
  <2>6. /\ lastHeard' \in [answered : SUBSET (Author \X Nat),
                      served : [of : SUBSET Author, read : Nat, at : Nat],
                      behind : SUBSET Author, overlapped : BOOLEAN]
        /\ lastHeard'.answered = answered /\ lastHeard'.served = lastHeard.served
        /\ lastHeard'.behind = lastHeard.behind /\ lastHeard'.overlapped = lastHeard.overlapped
    BY <1>0, <2>2, <2>3
  <2>7. counter' \in [AnswerRequest -> AnswerJobs] /\ counter'[q] = NoCounter
        /\ \A p \in AnswerRequest : p # q => counter'[p] = counter[p]
    BY <1>0, <2>2 DEF AnswerJobs
  <2>8. kept' = kept \/ kept' = Nothing
    BY <2>2 DEF AfterDrop
  <2>9. kept' \in [of : SUBSET Author, read : Nat, until : Nat] /\ kept'.read <= hour
        /\ Reads(kept'.of, kept'.read, answered)
    <3>1. CASE kept' = kept
      BY <1>0, <2>5, <3>1 DEF AnswersInOrder
    <3>2. CASE kept' = Nothing
      <4>1. Nothing \in [of : SUBSET Author, read : Nat, until : Nat] /\ Nothing.read = 0
        BY DEF Nothing
      <4>2. \A e \in answered : ~(e[2] < 0)
        BY <2>3
      <4> QED BY <1>0, <3>2, <4>1, <4>2 DEF Reads
    <3> QED BY <2>8, <3>1, <3>2
  <2>10. AnswerTypeOK'
    BY <1>0, <2>2, <2>6, <2>7, <2>9 DEF AnswerTypeOK
  <2>11. ASSUME NEW p \in AnswerRequest
         PROVE  /\ counter'[p].step = "fill" =>
                     counter'[p].read <= hour /\ Reads(counter'[p].of, counter'[p].read, answered)
                /\ counter'[p].step = "drop" => given[counter'[p].by] > 0
    <3>1. CASE p = q
      BY <2>7, <3>1 DEF NoCounter
    <3>2. CASE p # q
      <4>1. counter'[p] = counter[p]
        BY <2>7, <3>2
      <4>2. counter[p].step = "fill" => counter[p].read \in Nat
        BY <1>0 DEF AnswerJobs, FillJob, FeedbackJob, NoCounter
      <4> QED BY <2>5, <4>1, <4>2 DEF AnswersInOrder
    <3> QED BY <3>1, <3>2
  <2>12. lastHeard.served.read <= hour /\ Reads(lastHeard.served.of, lastHeard.served.read, answered)
    BY <1>0, <2>5 DEF AnswersInOrder
  <2>13. AnswersInOrder'
    BY <2>2, <2>4, <2>6, <2>9, <2>10, <2>11, <2>12 DEF AnswersInOrder
  <2>14. ASSUME key = "feedback", ~lastHeard.overlapped PROVE OneReader'
    <3>1. kept' = Nothing
      BY <2>2, <2>14 DEF AfterDrop
    <3>2. \A p \in AnswerRequest : counter'[p] = NoCounter
      BY <2>1, <2>7, <2>14 DEF OneReader
    <3>3. lastHeard'.behind = {}
      BY <2>6, <2>14 DEF OneReader
    <3> QED BY <3>1, <3>2, <3>3 DEF OneReader, NoCounter, Nothing
  <2> QED BY <2>2, <2>6, <2>13, <2>14 DEF OneReader
<1> QED BY <1>1, <1>2, <1>3, <1>4, <1>5, <1>6, <1>7, <1>8 DEF AnswerNext

LEMMA AnswersHonest == AnswersInOrder /\ OneReader => ServedAnswersAreHonest
  BY DEF AnswersInOrder, OneReader, ServedAnswersAreHonest, Reads

-----------------------------------------------------------------------------
(* Webhooks (webhook-dispatcher.ts).                                       *)

SubRow == [status : {"row"}, active : BOOLEAN, failures : Nat, url : {1, 2}]
LogRow == [status : {"pending", "retrying", "delivered", "exhausted"}, attempts : Nat, due : BOOLEAN]
WorkItem == [d : Delivery, log : LogRow, sub : SubRow, tried : BOOLEAN]
TaskSteps == {"idle", "create", "post", "take", "saveSub", "saveLog"}
TaskJob == [step : TaskSteps, items : Seq(WorkItem)]
SeenRecord == [sent : SUBSET Delivery, received : SUBSET Delivery, closed : SUBSET Delivery,
               exhausted : Nat, overlapped : BOOLEAN, raced : BOOLEAN, url : {0, 1, 2},
               edits : Nat, faults : Nat]

WebhookTypeOK ==
    /\ sub \in {NoRow} \cup SubRow /\ edit \in {NoRow} \cup SubRow
    /\ logs \in [Delivery -> {NoRow} \cup LogRow]
    /\ task \in [Task -> TaskJob]
    /\ seen \in SeenRecord

\* A log is within its limit, and given up at the limit or when switched off.
Limited(l, d, closed) ==
    /\ l.attempts <= MaxAttempts
    /\ l.status = "retrying" => l.attempts \in 1..MaxAttempts - 1
    /\ l.status = "exhausted" => l.attempts = MaxAttempts \/ d \in closed

\* The items of a task that were not attempted yet: all but the first, and that one too
\* before it is posted.
Ahead(j, i) == i > 1 \/ j.step \in {"create", "take", "post"}

JobInOrder(j, closed) ==
    /\ j.step = "idle" <=> j.items = <<>>
    /\ \A i \in 1..Len(j.items) :
          /\ Limited(j.items[i].log, j.items[i].d, closed)
          /\ Ahead(j, i) => /\ j.items[i].log.status \in {"pending", "retrying"}
                            /\ j.items[i].log.attempts < MaxAttempts
          /\ j.step = "saveSub" /\ i = 1 => /\ j.items[i].log.status \in {"delivered", "exhausted"}
                                            /\ j.items[i].log.attempts >= 1

\* The inductive invariant of the logs, whatever interleaves.
LogsInOrder ==
    /\ WebhookTypeOK
    /\ sub = NoRow => \A d \in Delivery : logs[d] = NoRow
    /\ \A d \in Delivery : logs[d] # NoRow => Limited(logs[d], d, seen.closed)
    /\ \A t \in Task : JobInOrder(task[t], seen.closed)

\* The inductive invariant of the outcomes, while no two rounds worked on a log and
\* nothing failed: a delivery has one holder, which knows what became of it.
Quiet == ~seen.overlapped /\ seen.faults = 0
Held(d) == \E t \in Task : \E i \in 1..Len(task[t].items) : task[t].items[i].d = d
OneHolder ==
    \A t, u \in Task : \A i \in 1..Len(task[t].items), j \in 1..Len(task[u].items) :
        task[t].items[i].d = task[u].items[j].d => t = u /\ i = j
OutcomesKnown ==
    Quiet =>
        /\ OneHolder
        /\ \A d \in Delivery \ seen.sent : logs[d] = NoRow /\ d \notin seen.received
        /\ \A t \in Task : \A i \in 1..Len(task[t].items) :
              LET item == task[t].items[i] IN
              /\ item.d \in seen.sent
              /\ IF Ahead(task[t], i) THEN item.d \notin seen.received
                 ELSE item.log.status = "delivered" <=> item.d \in seen.received
        /\ \A d \in Delivery : logs[d] # NoRow /\ ~Held(d) =>
              (logs[d].status = "delivered" <=> d \in seen.received)

\* The inductive invariant of the failures counted, while no save failed.
FailuresCounted ==
    seen.faults = 0 =>
        /\ sub # NoRow => sub.failures <= seen.exhausted
        /\ edit # NoRow => edit.failures <= seen.exhausted
        /\ \A t \in Task : \A i \in 1..Len(task[t].items) :
              task[t].items[i].sub.failures <= seen.exhausted

\* The inductive invariant of the target, while no change of the owner met a task or
\* another change.
TargetKept ==
    ~seen.raced =>
        /\ sub = NoRow => /\ seen.url = 0 /\ edit = NoRow
                          /\ \A t \in Task : task[t] = NoTask
        /\ sub # NoRow => sub.url = seen.url
        /\ \A t \in Task : \A i \in 1..Len(task[t].items) : task[t].items[i].sub.url = seen.url

-----------------------------------------------------------------------------

LEMMA RowsAreRows == NoRow \notin SubRow /\ NoRow \notin LogRow
  BY DEF NoRow, SubRow, LogRow

LEMMA WebhookInitially ==
  WebhookInit => LogsInOrder /\ OutcomesKnown /\ FailuresCounted /\ TargetKept
<1> SUFFICES ASSUME WebhookInit
             PROVE  LogsInOrder /\ OutcomesKnown /\ FailuresCounted /\ TargetKept
  OBVIOUS
<1> USE DEF SeenRecord
<1>1. /\ sub = [status |-> "row", active |-> TRUE, failures |-> 0, url |-> 1]
      /\ sub \in SubRow /\ edit = NoRow /\ logs = [d \in Delivery |-> NoRow]
      /\ sub.failures = 0 /\ sub.url = 1 /\ sub # NoRow
  BY DEF WebhookInit, SubRow, NoRow
<1>2. NoTask \in TaskJob /\ NoTask.items = <<>> /\ NoTask.step = "idle"
  BY DEF NoTask, TaskJob, TaskSteps
<1>3. task \in [Task -> TaskJob] /\ \A t \in Task : task[t] = NoTask
  BY <1>2 DEF WebhookInit
<1>4. \A t \in Task : 1..Len(task[t].items) = {}
  BY <1>2, <1>3
<1>5. WebhookTypeOK
  BY <1>1, <1>3 DEF WebhookInit, WebhookTypeOK
<1>6. LogsInOrder
  BY <1>1, <1>2, <1>3, <1>4, <1>5 DEF LogsInOrder, JobInOrder
<1>7. seen.exhausted = 0 /\ seen.url = 1 /\ seen.received = {} /\ seen.sent = {}
  BY DEF WebhookInit
<1>8. OutcomesKnown
  BY <1>1, <1>4, <1>7 DEF OutcomesKnown, OneHolder, Held
<1>9. FailuresCounted
  BY <1>1, <1>4, <1>7 DEF FailuresCounted
<1>10. TargetKept
  BY <1>1, <1>4, <1>7 DEF TargetKept
<1> QED BY <1>6, <1>8, <1>9, <1>10

\* A set is listed once each.
LEMMA Listed ==
  ASSUME NEW S, IsFiniteSet(S)
  PROVE  LET s == SetToSeq(S) IN
         /\ s \in Seq(S) /\ DOMAIN s = 1..Len(s) /\ (S # {} => Len(s) # 0)
         /\ \A i, j \in 1..Len(s) : s[i] = s[j] => i = j
<1>1. PICK f : f \in Bijection(1..Cardinality(S), S) /\ Cardinality(S) \in Nat
  BY FS_CardinalityType DEF ExistsBijection
<1>2. f \in [1..Cardinality(S) -> S] /\ IsInjective(f)
  BY <1>1 DEF Bijection, Injection
<1>3. SetToSeq(S) \in [1..Cardinality(S) -> S] /\ IsInjective(SetToSeq(S))
  BY <1>2 DEF SetToSeq
<1> DEFINE s == SetToSeq(S)
<1> HIDE DEF s
<1>4. s \in Seq(S) /\ DOMAIN s = 1..Cardinality(S) /\ Len(s) = Cardinality(S)
  BY <1>1, <1>3 DEF s
<1>5. S # {} => Len(s) # 0
  BY <1>4, FS_EmptySet
<1> QED BY <1>3, <1>4, <1>5 DEF s, IsInjective

\* A task goes on with its first item changed ...
LEMMA TaskGoes ==
  ASSUME WebhookTypeOK, NEW t \in Task, task[t].items # <<>>, NEW step \in TaskSteps,
         NEW item \in WorkItem, With(t, step, item)
  PROVE  /\ task' \in [Task -> TaskJob] /\ \A u \in Task : u # t => task'[u] = task[u]
         /\ task'[t].step = step /\ task'[t].items # <<>>
         /\ Len(task'[t].items) = Len(task[t].items) /\ Len(task[t].items) \in Nat \ {0}
         /\ task'[t].items[1] = item
         /\ \A i \in 1..Len(task[t].items) : i # 1 => task'[t].items[i] = task[t].items[i]
<1> DEFINE old == task[t].items
           new == <<item>> \o Tail(old)
           job == [step |-> step, items |-> new]
<1>1. old \in Seq(WorkItem) /\ old # <<>> /\ Len(old) \in Nat \ {0}
  BY DEF WebhookTypeOK, TaskJob
<1>2. /\ Tail(old) \in Seq(WorkItem) /\ Len(Tail(old)) = Len(old) - 1
      /\ \A i \in 1..Len(Tail(old)) : Tail(old)[i] = old[i + 1]
  BY <1>1, HeadTailProperties
<1>3. <<item>> \in Seq(WorkItem) /\ Len(<<item>>) = 1 /\ <<item>>[1] = item
  OBVIOUS
<1> HIDE DEF old
<1>4. /\ new \in Seq(WorkItem) /\ Len(new) = Len(old)
      /\ \A i \in 1..Len(old) : new[i] = IF i <= 1 THEN item ELSE Tail(old)[i - 1]
  BY <1>1, <1>2, <1>3, ConcatProperties
<1>5. new # <<>> /\ new[1] = item /\ \A i \in 1..Len(old) : i # 1 => new[i] = old[i]
  <2>1. new # <<>>
    BY <1>1, <1>4
  <2>2. new[1] = item
    BY <1>1, <1>4
  <2>3. ASSUME NEW i \in 1..Len(old), i # 1 PROVE new[i] = old[i]
    <3>1. i - 1 \in 1..Len(Tail(old)) /\ (i - 1) + 1 = i
      BY <1>1, <1>2, <2>3
    <3>2. Tail(old)[i - 1] = old[i]
      BY <1>2, <3>1
    <3> QED BY <1>1, <1>4, <2>3, <3>2
  <2> QED BY <2>1, <2>2, <2>3
<1> HIDE DEF new
<1>6. job \in TaskJob
  BY <1>4 DEF TaskJob
<1>7. task' = [task EXCEPT ![t] = job]
  BY DEF With, job, new, old
<1> HIDE DEF job
<1>8. task' \in [Task -> TaskJob] /\ task'[t] = job /\ \A u \in Task : u # t => task'[u] = task[u]
  BY <1>6, <1>7 DEF WebhookTypeOK
<1> QED BY <1>1, <1>4, <1>5, <1>8 DEF job, old

\* ... or with the items after it.
LEMMA TaskEnds ==
  ASSUME WebhookTypeOK, NEW t \in Task, task[t].items # <<>>, NextItem(t)
  PROVE  /\ task' \in [Task -> TaskJob] /\ \A u \in Task : u # t => task'[u] = task[u]
         /\ Len(task[t].items) \in Nat \ {0}
         /\ Len(task'[t].items) = Len(task[t].items) - 1
         /\ \/ task'[t] = NoTask /\ task'[t].items = <<>> /\ task'[t].step = "idle"
            \/ task'[t].step = "take" /\ task'[t].items # <<>>
         /\ \A i \in 1..Len(task'[t].items) : task'[t].items[i] = task[t].items[i + 1]
<1> DEFINE old == task[t].items
           new == Tail(old)
           job == IF Len(old) = 1 THEN NoTask ELSE [step |-> "take", items |-> new]
<1>1. old \in Seq(WorkItem) /\ old # <<>> /\ Len(old) \in Nat \ {0}
  BY DEF WebhookTypeOK, TaskJob
<1>2. /\ new \in Seq(WorkItem) /\ Len(new) = Len(old) - 1
      /\ \A i \in 1..Len(new) : new[i] = old[i + 1]
  BY <1>1, HeadTailProperties
<1>3. NoTask \in TaskJob /\ NoTask.items = <<>> /\ NoTask.step = "idle" /\ Len(NoTask.items) = 0
  BY DEF NoTask, TaskJob, TaskSteps
<1> HIDE DEF new
<1>4. [step |-> "take", items |-> new] \in TaskJob
  BY <1>2 DEF TaskJob, TaskSteps
<1>5. job \in TaskJob
  BY <1>3, <1>4
<1>6. task' = [task EXCEPT ![t] = job]
  BY DEF NextItem, job, new, old
<1>7. (Len(old) = 1 /\ job = NoTask) \/ (Len(old) # 1 /\ job = [step |-> "take", items |-> new])
  OBVIOUS
<1> HIDE DEF job
<1>9. /\ Len(job.items) = Len(old) - 1
      /\ \/ job = NoTask
         \/ job.step = "take" /\ job.items # <<>>
      /\ \A i \in 1..Len(job.items) : job.items[i] = old[i + 1]
  <2>1. CASE Len(old) = 1 /\ job = NoTask
    BY <1>3, <2>1
  <2>2. CASE Len(old) # 1 /\ job = [step |-> "take", items |-> new]
    <3>1. job.step = "take" /\ job.items = new
      BY <2>2
    <3>2. Len(new) # 0
      BY <1>1, <1>2, <2>2
    <3>3. new # <<>>
      BY <3>2
    <3> QED BY <1>1, <1>2, <3>1, <3>3
  <2> QED BY <1>7, <2>1, <2>2
<1>8. task' \in [Task -> TaskJob] /\ task'[t] = job /\ \A u \in Task : u # t => task'[u] = task[u]
  BY <1>5, <1>6 DEF WebhookTypeOK
<1> QED BY <1>1, <1>3, <1>8, <1>9

\* What a task holds stays in order: as it is, with its first item changed, without it.
LEMMA JobKept ==
  ASSUME NEW j, NEW closed, JobInOrder(j, closed), NEW more, closed \subseteq more
  PROVE  JobInOrder(j, more)
  BY DEF JobInOrder, Limited

LEMMA JobGoes ==
  ASSUME WebhookTypeOK, NEW t \in Task, NEW closed, JobInOrder(task[t], closed),
         NEW step \in TaskSteps \ {"idle", "take"}, NEW item \in WorkItem, With(t, step, item),
         task[t].items # <<>>, NEW more, closed \subseteq more, Limited(item.log, item.d, more),
         step \in {"create", "post"} => /\ item.log.status \in {"pending", "retrying"}
                                        /\ item.log.attempts < MaxAttempts,
         step = "saveSub" => item.log.status \in {"delivered", "exhausted"} /\ item.log.attempts >= 1
  PROVE  JobInOrder(task'[t], more)
<1> DEFINE new == task'[t]
<1>1. /\ new.step = step /\ new.items # <<>> /\ Len(new.items) = Len(task[t].items)
      /\ new.items[1] = item
      /\ \A i \in 1..Len(task[t].items) : i # 1 => new.items[i] = task[t].items[i]
      /\ Len(task[t].items) \in Nat \ {0}
  BY TaskGoes
<1>2. JobInOrder(task[t], more)
  BY JobKept
<1> HIDE DEF new
<1>3. ASSUME NEW i \in 1..Len(new.items)
      PROVE  /\ Limited(new.items[i].log, new.items[i].d, more)
             /\ Ahead(new, i) => /\ new.items[i].log.status \in {"pending", "retrying"}
                                 /\ new.items[i].log.attempts < MaxAttempts
             /\ new.step = "saveSub" /\ i = 1 =>
                   new.items[i].log.status \in {"delivered", "exhausted"} /\ new.items[i].log.attempts >= 1
  <2>1. CASE i = 1
    BY <1>1, <2>1 DEF Ahead
  <2>2. CASE i # 1
    <3>1. i \in 1..Len(task[t].items) /\ i > 1 /\ new.items[i] = task[t].items[i]
      BY <1>1, <2>2
    <3>2. Ahead(task[t], i)
      BY <3>1 DEF Ahead
    <3> QED BY <1>2, <2>2, <3>1, <3>2 DEF JobInOrder
  <2> QED BY <2>1, <2>2
<1> QED BY <1>1, <1>3 DEF JobInOrder, new

LEMMA JobEnds ==
  ASSUME WebhookTypeOK, NEW t \in Task, NEW closed, JobInOrder(task[t], closed),
         task[t].items # <<>>, NextItem(t)
  PROVE  JobInOrder(task'[t], closed)
<1> DEFINE new == task'[t]
           n == Len(task[t].items)
<1>1. /\ n \in Nat \ {0} /\ Len(new.items) = n - 1
      /\ \/ new.items = <<>> /\ new.step = "idle"
         \/ new.step = "take" /\ new.items # <<>>
      /\ \A i \in 1..Len(new.items) : new.items[i] = task[t].items[i + 1]
  BY TaskEnds
<1>2. ASSUME NEW i \in 1..Len(new.items)
      PROVE  /\ i + 1 \in 1..n /\ Ahead(task[t], i + 1) /\ new.items[i] = task[t].items[i + 1]
             /\ new.step = "take"
  <2> HIDE DEF new, n
  <2>1. n - 1 # 0 /\ i + 1 > 1 /\ i + 1 \in 1..n
    BY <1>1, <1>2
  <2>2. new.step = "take"
    BY <1>1, <2>1, Len(<<>>) = 0
  <2> QED BY <1>1, <2>1, <2>2 DEF Ahead
<1> HIDE DEF new
<1> QED BY <1>1, <1>2 DEF JobInOrder, Ahead, new

\* What becomes of a copy: attempted once more, delivered, given up, to be tried again.
LEMMA Copies ==
  ASSUME NEW item \in WorkItem
  PROVE  /\ LET now == [item EXCEPT !.log.attempts = @ + 1] IN
            /\ now \in WorkItem /\ now.d = item.d /\ now.sub = item.sub
            /\ now.log.attempts = item.log.attempts + 1 /\ now.log.status = item.log.status
         /\ \A status \in {"delivered", "exhausted"} :
               LET now == [item EXCEPT !.log.status = status] IN
               /\ now \in WorkItem /\ now.d = item.d /\ now.sub = item.sub
               /\ now.log.attempts = item.log.attempts /\ now.log.status = status
         /\ \A tried \in BOOLEAN : LET now == [item EXCEPT !.tried = tried] IN
               now \in WorkItem /\ now.d = item.d /\ now.sub = item.sub /\ now.log = item.log
         /\ LET now == [item EXCEPT !.sub.failures = 0] IN
            /\ now \in WorkItem /\ now.d = item.d /\ now.log = item.log
            /\ now.sub.url = item.sub.url /\ now.sub.failures = 0
         /\ LET now == Exhausted(item) IN
            /\ now \in WorkItem /\ now.d = item.d /\ now.sub.url = item.sub.url
            /\ now.sub.failures = item.sub.failures + 1
            /\ now.log.attempts = item.log.attempts /\ now.log.status = "exhausted"
         /\ LET now == Retrying(item) IN
            /\ now \in WorkItem /\ now.d = item.d /\ now.sub = item.sub
            /\ now.log.attempts = item.log.attempts /\ now.log.status = "retrying"
<1>1. /\ item.log \in LogRow /\ item.sub \in SubRow /\ item.d \in Delivery /\ item.tried \in BOOLEAN
      /\ item = [d |-> item.d, log |-> item.log, sub |-> item.sub, tried |-> item.tried]
  BY DEF WorkItem
<1>2. ASSUME NEW entry \in LogRow
      PROVE LET now == [item EXCEPT !.log = entry] IN
            now \in WorkItem /\ now.d = item.d /\ now.sub = item.sub /\ now.log = entry
  BY DEF WorkItem
<1>4. ASSUME NEW status \in {"delivered", "exhausted", "retrying"}
      PROVE  LET entry == [item.log EXCEPT !.status = status] IN
             entry \in LogRow /\ entry.attempts = item.log.attempts /\ entry.status = status
  BY <1>1 DEF LogRow
<1>5. LET entry == [item.log EXCEPT !.attempts = item.log.attempts + 1] IN
      entry \in LogRow /\ entry.attempts = item.log.attempts + 1 /\ entry.status = item.log.status
  BY <1>1 DEF LogRow
<1>6. LET now == [item EXCEPT !.log.attempts = @ + 1] IN
      /\ now \in WorkItem /\ now.d = item.d /\ now.sub = item.sub
      /\ now.log.attempts = item.log.attempts + 1 /\ now.log.status = item.log.status
  <2> DEFINE entry == [item.log EXCEPT !.attempts = item.log.attempts + 1]
  <2>1. [item EXCEPT !.log.attempts = @ + 1] = [item EXCEPT !.log = entry]
    BY <1>1
  <2> HIDE DEF entry
  <2> QED BY <1>2, <1>5, <2>1 DEF entry
<1>7. ASSUME NEW status \in {"delivered", "exhausted"}
      PROVE  LET now == [item EXCEPT !.log.status = status] IN
             /\ now \in WorkItem /\ now.d = item.d /\ now.sub = item.sub
             /\ now.log.attempts = item.log.attempts /\ now.log.status = status
  <2> DEFINE entry == [item.log EXCEPT !.status = status]
  <2>1. [item EXCEPT !.log.status = status] = [item EXCEPT !.log = entry]
    BY <1>1
  <2> HIDE DEF entry
  <2> QED BY <1>2, <1>4, <2>1 DEF entry
<1>8. \A tried \in BOOLEAN : LET now == [item EXCEPT !.tried = tried] IN
         now \in WorkItem /\ now.d = item.d /\ now.sub = item.sub /\ now.log = item.log
  BY DEF WorkItem
<1>9. LET now == [item EXCEPT !.sub.failures = 0] IN
      /\ now \in WorkItem /\ now.d = item.d /\ now.log = item.log
      /\ now.sub.url = item.sub.url /\ now.sub.failures = 0
  <2> DEFINE to == [item.sub EXCEPT !.failures = 0]
  <2>1. to \in SubRow /\ to.failures = 0 /\ to.url = item.sub.url
    BY <1>1 DEF SubRow
  <2>2. [item EXCEPT !.sub.failures = 0] = [item EXCEPT !.sub = to]
    BY <1>1
  <2> HIDE DEF to
  <2>3. LET now == [item EXCEPT !.sub = to] IN
        now \in WorkItem /\ now.d = item.d /\ now.log = item.log /\ now.sub = to
    BY <2>1 DEF WorkItem
  <2> QED BY <2>1, <2>2, <2>3
<1>10. LET now == Exhausted(item) IN
       /\ now \in WorkItem /\ now.d = item.d /\ now.sub.url = item.sub.url
       /\ now.sub.failures = item.sub.failures + 1
       /\ now.log.attempts = item.log.attempts /\ now.log.status = "exhausted"
  <2> DEFINE entry == [item.log EXCEPT !.status = "exhausted"]
             active == item.sub.active /\ item.sub.failures + 1 < DisableAfter
             one == [item.sub EXCEPT !.failures = item.sub.failures + 1]
             to == [one EXCEPT !.active = active]
             half == [item EXCEPT !.log = entry]
  <2>1. active \in BOOLEAN /\ item.sub.failures + 1 \in Nat
    BY <1>1 DEF SubRow
  <2>2. one \in SubRow /\ one.failures = item.sub.failures + 1 /\ one.url = item.sub.url
        /\ one.active = item.sub.active
    BY <1>1, <2>1 DEF SubRow
  <2>3. Exhausted(item) = [half EXCEPT !.sub = to]
    BY <1>1 DEF Exhausted
  <2> HIDE DEF active, one
  <2>4. to \in SubRow /\ to.failures = item.sub.failures + 1 /\ to.url = item.sub.url
    BY <2>1, <2>2 DEF SubRow
  <2>5. entry \in LogRow /\ entry.attempts = item.log.attempts /\ entry.status = "exhausted"
    BY <1>4
  <2> HIDE DEF to, entry
  <2>6. half \in WorkItem /\ half.d = item.d /\ half.log = entry
    BY <1>2, <2>5
  <2> HIDE DEF half
  <2>7. LET now == [half EXCEPT !.sub = to] IN
        now \in WorkItem /\ now.d = half.d /\ now.log = half.log /\ now.sub = to
    BY <2>4, <2>6 DEF WorkItem
  <2> QED BY <2>3, <2>4, <2>5, <2>6, <2>7
<1>11. LET now == Retrying(item) IN
       /\ now \in WorkItem /\ now.d = item.d /\ now.sub = item.sub
       /\ now.log.attempts = item.log.attempts /\ now.log.status = "retrying"
  <2> DEFINE entry == [[item.log EXCEPT !.status = "retrying"] EXCEPT !.due = FALSE]
  <2>1. entry \in LogRow /\ entry.attempts = item.log.attempts /\ entry.status = "retrying"
    BY <1>1 DEF LogRow
  <2>2. Retrying(item) = [item EXCEPT !.log = entry]
    BY <1>1 DEF Retrying
  <2> HIDE DEF entry
  <2> QED BY <1>2, <2>1, <2>2
<1> QED BY <1>6, <1>7, <1>8, <1>9, <1>10, <1>11

\* The rows of a store without the subscription.
LEMMA LogsOfNoRow ==
  ASSUME LogsInOrder, NEW d \in Delivery, logs[d] # NoRow
  PROVE  sub # NoRow /\ logs[d] \in LogRow /\ sub \in SubRow
  BY DEF LogsInOrder, WebhookTypeOK

\* A step of a task that leaves the rows alone, or writes one in order.
LEMMA LogsStayInOrder ==
  ASSUME LogsInOrder, NEW t \in Task, task' \in [Task -> TaskJob],
         \A u \in Task : u # t => task'[u] = task[u], JobInOrder(task'[t], seen'.closed),
         seen.closed \subseteq seen'.closed, WebhookTypeOK', sub' # NoRow \/ (sub' = sub /\ logs' = logs),
         \/ logs' = logs
         \/ \E d \in Delivery : /\ Limited(logs'[d], d, seen'.closed)
                                /\ \A e \in Delivery : e # d => logs'[e] = logs[e]
  PROVE  LogsInOrder'
<1>1. \A u \in Task : JobInOrder(task'[u], seen'.closed)
  BY JobKept DEF LogsInOrder
<1>2. \A e \in Delivery : logs[e] # NoRow => Limited(logs[e], e, seen'.closed)
  BY DEF LogsInOrder, Limited
<1>3. \A e \in Delivery : logs'[e] # NoRow => Limited(logs'[e], e, seen'.closed)
  BY <1>2
<1>4. sub' = NoRow => \A e \in Delivery : logs'[e] = NoRow
  BY DEF LogsInOrder
<1> QED BY <1>1, <1>3, <1>4 DEF LogsInOrder

LEMMA LogStep == LogsInOrder /\ [WebhookNext]_webhookVars => LogsInOrder'
<1> SUFFICES ASSUME LogsInOrder, [WebhookNext]_webhookVars PROVE LogsInOrder'
  OBVIOUS
<1> USE DEF SeenRecord
<1>0. /\ WebhookTypeOK
      /\ sub \in {NoRow} \cup SubRow /\ edit \in {NoRow} \cup SubRow
      /\ logs \in [Delivery -> {NoRow} \cup LogRow]
      /\ task \in [Task -> TaskJob]
      /\ seen \in SeenRecord
      /\ MaxAttempts \in Nat \ {0} /\ NoTask \in TaskJob /\ NoTask.items = <<>>
      /\ Pending \in LogRow /\ NoTask.step = "idle" /\ \A d, closed : Limited(Pending, d, closed)
  BY WebhookAssumption
     DEF LogsInOrder, WebhookTypeOK, NoTask, TaskJob, TaskSteps, Pending, LogRow, Limited
<1>a. ASSUME NEW t \in Task, task[t].step # "idle"
      PROVE  /\ task[t].items # <<>> /\ Item(t) = task[t].items[1] /\ Item(t) \in WorkItem
             /\ Limited(Item(t).log, Item(t).d, seen.closed) /\ JobInOrder(task[t], seen.closed)
             /\ task[t].step \in {"create", "take", "post"} =>
                   /\ Item(t).log.status \in {"pending", "retrying"}
                   /\ Item(t).log.attempts < MaxAttempts
             /\ task[t].step = "saveSub" => /\ Item(t).log.status \in {"delivered", "exhausted"}
                                            /\ Item(t).log.attempts >= 1
             /\ Item(t).d \in Delivery /\ Item(t).log \in LogRow /\ Item(t).sub \in SubRow
             /\ Item(t).log.attempts \in Nat
  <2> DEFINE s == task[t].items
  <2>1. JobInOrder(task[t], seen.closed) /\ s # <<>> /\ s \in Seq(WorkItem)
    BY <1>0, <1>a DEF LogsInOrder, JobInOrder, TaskJob
  <2>2. Len(s) \in Nat \ {0} /\ Head(s) = s[1] /\ s[1] \in WorkItem
    BY <2>1
  <2> HIDE DEF s
  <2>3. Item(t) = s[1]
    BY <2>2 DEF Item, s
  <2>4. 1 \in 1..Len(s)
    BY <2>2
  <2> QED BY <2>1, <2>2, <2>3, <2>4 DEF JobInOrder, Ahead, s, WorkItem, LogRow
<1>1. CASE UNCHANGED webhookVars
  BY <1>1 DEF webhookVars, LogsInOrder, WebhookTypeOK
<1>2. ASSUME NEW t \in Task, NEW d \in Delivery, Dispatch(t, d) PROVE LogsInOrder'
  <2> DEFINE item == [d |-> d, log |-> Pending, sub |-> sub, tried |-> FALSE]
             job == [step |-> "create", items |-> <<item>>]
  <2>1. item \in WorkItem /\ item.d = d /\ item.log = Pending
    BY <1>0, <1>2 DEF Dispatch, WorkItem
  <2> HIDE DEF item
  <2>2. <<item>> \in Seq(WorkItem) /\ Len(<<item>>) = 1 /\ <<item>>[1] = item /\ <<item>> # <<>>
    BY <2>1
  <2>3. job \in TaskJob /\ job.step = "create" /\ job.items = <<item>>
    BY <2>2 DEF TaskJob, TaskSteps
  <2> HIDE DEF job
  <2>4. JobInOrder(job, seen.closed)
    BY <1>0, <2>1, <2>2, <2>3 DEF JobInOrder, Ahead, Pending
  <2>5. task' = [task EXCEPT ![t] = job] /\ UNCHANGED <<sub, logs, edit>> /\ seen'.closed = seen.closed
        /\ seen' = [seen EXCEPT !.sent = @ \cup {d}]
    BY <1>0, <1>2 DEF Dispatch, job, item
  <2>6. task' \in [Task -> TaskJob] /\ task'[t] = job /\ \A u \in Task : u # t => task'[u] = task[u]
    BY <1>0, <2>3, <2>5
  <2>7. seen' \in SeenRecord
    BY <1>0, <2>5
  <2>8. WebhookTypeOK'
    BY <1>0, <2>5, <2>6, <2>7 DEF WebhookTypeOK
  <2> QED BY <2>4, <2>5, <2>6, <2>8, LogsStayInOrder
<1>3. ASSUME NEW t \in Task, CreateLog(t) PROVE LogsInOrder'
  <2>1. task[t].step = "create" /\ UNCHANGED <<sub, edit, seen>>
    BY <1>3 DEF CreateLog
  <2>2. CASE sub = NoRow /\ NextItem(t) /\ UNCHANGED logs
    <3>1. JobInOrder(task'[t], seen.closed) /\ task' \in [Task -> TaskJob]
          /\ \A u \in Task : u # t => task'[u] = task[u]
      BY <1>0, <1>a, <2>1, <2>2, JobEnds, TaskEnds
    <3>2. WebhookTypeOK'
      BY <1>0, <2>1, <2>2, <3>1 DEF WebhookTypeOK
    <3>3. seen'.closed = seen.closed
      BY <2>1
    <3>4. JobInOrder(task'[t], seen'.closed) /\ sub' = sub /\ logs' = logs
      BY <2>1, <2>2, <3>1, <3>3
    <3> QED BY <3>1, <3>2, <3>3, <3>4, LogsStayInOrder
  <2>3. CASE sub # NoRow /\ logs' = [logs EXCEPT ![Item(t).d] = Pending] /\ With(t, "post", Item(t))
    <3>1. "post" \in TaskSteps \ {"idle", "take"}
      BY DEF TaskSteps
    <3>0. /\ task[t].items # <<>> /\ Item(t) \in WorkItem /\ JobInOrder(task[t], seen.closed)
          /\ Limited(Item(t).log, Item(t).d, seen.closed)
          /\ Item(t).log.status \in {"pending", "retrying"} /\ Item(t).log.attempts < MaxAttempts
      BY <1>a, <2>1
    <3>2. JobInOrder(task'[t], seen.closed)
      BY <1>0, <2>3, <3>0, <3>1, JobGoes, ZenonT(60)
    <3>3. task' \in [Task -> TaskJob] /\ \A u \in Task : u # t => task'[u] = task[u]
      BY <1>0, <1>a, <2>1, <2>3, <3>1, TaskGoes
    <3>4. /\ logs' \in [Delivery -> {NoRow} \cup LogRow] /\ logs'[Item(t).d] = Pending
          /\ \A e \in Delivery : e # Item(t).d => logs'[e] = logs[e]
      BY <1>0, <1>a, <2>1, <2>3
    <3>5. WebhookTypeOK'
      BY <1>0, <2>1, <3>3, <3>4 DEF WebhookTypeOK
    <3>6. Limited(logs'[Item(t).d], Item(t).d, seen'.closed) /\ Item(t).d \in Delivery
      BY <1>0, <1>a, <2>1, <3>4
    <3> QED BY <2>1, <2>3, <3>2, <3>3, <3>4, <3>5, <3>6, LogsStayInOrder
  <2> QED BY <1>3, <2>2, <2>3 DEF CreateLog
<1>b. ASSUME NEW t \in Task, task[t].step # "idle", NEW step \in TaskSteps \ {"idle", "take"},
             NEW item \in WorkItem, With(t, step, item), Limited(item.log, item.d, seen'.closed),
             seen.closed \subseteq seen'.closed, UNCHANGED <<logs, edit>>,
             sub' = sub \/ sub' \in SubRow,
             seen' \in SeenRecord,
             step \in {"create", "post"} => /\ item.log.status \in {"pending", "retrying"}
                                            /\ item.log.attempts < MaxAttempts,
             step = "saveSub" => /\ item.log.status \in {"delivered", "exhausted"}
                                 /\ item.log.attempts >= 1
      PROVE  LogsInOrder'
  <2>1. task[t].items # <<>> /\ JobInOrder(task[t], seen.closed)
    BY <1>a, <1>b
  <2>2. JobInOrder(task'[t], seen'.closed)
    BY <1>0, <1>b, <2>1, JobGoes
  <2>3. step \in TaskSteps /\ step # "idle"
    BY <1>b
  <2>4. task' \in [Task -> TaskJob] /\ \A u \in Task : u # t => task'[u] = task[u]
    BY <1>0, <1>b, <2>1, <2>3, TaskGoes
  <2>5. WebhookTypeOK'
    BY <1>0, <1>b, <2>4 DEF WebhookTypeOK
  <2>6. sub' # NoRow \/ (sub' = sub /\ logs' = logs)
    BY <1>b, RowsAreRows
  <2> QED BY <1>b, <2>2, <2>4, <2>5, <2>6, LogsStayInOrder
<1>4. ASSUME NEW t \in Task, PostOk(t) PROVE LogsInOrder'
  <2> DEFINE once == Attempted(t)
             item == [once EXCEPT !.log.status = "delivered"]
             zero == [item EXCEPT !.sub.failures = 0]
  <2>1. task[t].step = "post" /\ Item(t) \in WorkItem /\ Item(t).log.attempts \in Nat
        /\ Item(t).log.attempts < MaxAttempts
    BY <1>4, <1>a DEF PostOk
  <2>2. once \in WorkItem /\ once.log.attempts = Item(t).log.attempts + 1 /\ once.d = Item(t).d
    BY <2>1, Copies DEF Attempted
  <2>3. /\ seen' = [seen EXCEPT !.received = @ \cup {item.d}]
        /\ UNCHANGED <<sub, logs, edit>>
        /\ With(t, "saveSub", zero) \/ With(t, "saveLog", item)
    BY <1>4 DEF PostOk
  <2> HIDE DEF once
  <2>4. item \in WorkItem /\ item.log.attempts = once.log.attempts /\ item.log.status = "delivered"
    BY <2>2, Copies
  <2> HIDE DEF item
  <2>5. zero \in WorkItem /\ zero.log = item.log /\ zero.d = item.d
    BY <2>4, Copies
  <2> HIDE DEF zero
  <2>6. item.d \in Delivery
    BY <2>4 DEF WorkItem
  <2>7. seen' \in SeenRecord /\ seen'.closed = seen.closed
    BY <1>0, <2>3, <2>6
  <2>8. Limited(item.log, item.d, seen'.closed) /\ Limited(zero.log, zero.d, seen'.closed)
        /\ item.log.attempts >= 1 /\ zero.log.attempts >= 1 /\ zero.log.status = "delivered"
    BY <1>0, <2>1, <2>2, <2>4, <2>5 DEF Limited
  <2>9. {"saveSub", "saveLog"} \subseteq TaskSteps \ {"idle", "take"}
    BY DEF TaskSteps
  <2>10. CASE With(t, "saveSub", zero)
    BY <1>b, <2>1, <2>3, <2>5, <2>7, <2>8, <2>9, <2>10
  <2>11. CASE With(t, "saveLog", item)
    BY <1>b, <2>1, <2>3, <2>4, <2>7, <2>8, <2>9, <2>11
  <2> QED BY <2>3, <2>10, <2>11
<1>5. ASSUME NEW t \in Task, NEW answered \in BOOLEAN, PostFails(t, answered) PROVE LogsInOrder'
  <2> DEFINE once == Attempted(t)
             item == [once EXCEPT !.tried = ~answered]
  <2>1. task[t].step = "post" /\ Item(t) \in WorkItem /\ Item(t).log.attempts \in Nat
        /\ Item(t).log.attempts < MaxAttempts
    BY <1>5, <1>a DEF PostFails
  <2>2. once \in WorkItem /\ once.log.attempts = Item(t).log.attempts + 1 /\ once.d = Item(t).d
    BY <2>1, Copies DEF Attempted
  <2>3. ScheduleRetry(t, item)
    BY <1>5, Zenon DEF PostFails
  <2>4. UNCHANGED <<sub, logs, edit>> /\ ScheduleRetry(t, item)
    <3> HIDE DEF item
    <3> QED BY <1>5, <2>3 DEF PostFails
  <2> HIDE DEF once
  <2>5. item \in WorkItem /\ item.log = once.log /\ item.d = once.d
    <3> DEFINE tried == ~answered
    <3>1. tried \in BOOLEAN
      OBVIOUS
    <3> HIDE DEF tried
    <3>2. LET now == [once EXCEPT !.tried = tried] IN
          now \in WorkItem /\ now.log = once.log /\ now.d = once.d
      BY <2>2, <3>1 DEF WorkItem
    <3>3. item = [once EXCEPT !.tried = tried]
      BY DEF tried
    <3> HIDE DEF item
    <3> QED BY <3>2, <3>3
  <2> HIDE DEF item
  <2>6. {"saveSub", "saveLog"} \subseteq TaskSteps \ {"idle", "take"}
    BY DEF TaskSteps
  <2>7. CASE OutOfAttempts(item)
    <3> DEFINE now == Exhausted(item)
    <3>1. With(t, "saveSub", now) /\ seen' = [seen EXCEPT !.exhausted = @ + 1]
      BY <2>4, <2>7 DEF ScheduleRetry
    <3>2. now \in WorkItem /\ now.d = item.d /\ now.log.attempts = item.log.attempts
          /\ now.log.status = "exhausted"
      BY <2>5, Copies
    <3> HIDE DEF now
    <3>3. now.log.attempts = MaxAttempts
      BY <1>0, <2>1, <2>2, <2>5, <2>7, <3>2 DEF OutOfAttempts
    <3>4. Limited(now.log, now.d, seen'.closed) /\ now.log.attempts >= 1
      BY <1>0, <3>2, <3>3 DEF Limited
    <3>5. seen' \in SeenRecord /\ seen'.closed = seen.closed
      BY <1>0, <3>1
    <3> QED BY <1>b, <2>1, <2>4, <2>6, <3>1, <3>2, <3>4, <3>5
  <2>8. CASE ~OutOfAttempts(item)
    <3> DEFINE now == Retrying(item)
    <3>1. With(t, "saveLog", now) /\ seen' = seen
      BY <2>4, <2>8 DEF ScheduleRetry
    <3>2. now \in WorkItem /\ now.d = item.d /\ now.log.attempts = item.log.attempts
          /\ now.log.status = "retrying"
      BY <2>5, Copies
    <3> HIDE DEF now
    <3>3. Limited(now.log, now.d, seen'.closed)
      BY <1>0, <2>1, <2>2, <2>5, <2>8, <3>2 DEF Limited, OutOfAttempts
    <3>4. seen'.closed = seen.closed /\ sub' = sub
      BY <2>4, <3>1
    <3> QED BY <1>0, <1>b, <2>1, <2>4, <2>6, <3>1, <3>2, <3>3, <3>4
  <2> QED BY <2>7, <2>8
<1>6. ASSUME NEW t \in Task, SaveSub(t) PROVE LogsInOrder'
  <2>1. /\ task[t].step = "saveSub" /\ UNCHANGED <<logs, edit, seen>> /\ sub' = Item(t).sub
        /\ With(t, "saveLog", Item(t)) /\ "saveLog" \in TaskSteps \ {"idle", "take"}
    BY <1>6 DEF SaveSub, TaskSteps
  <2>2. /\ Item(t) \in WorkItem /\ Limited(Item(t).log, Item(t).d, seen'.closed)
        /\ sub' \in SubRow /\ seen' = seen
    BY <1>a, <2>1
  <2> QED BY <1>0, <1>b, <2>1, <2>2
<1>7. ASSUME NEW t \in Task, NextItem(t), task[t].step # "idle", UNCHANGED <<sub, logs, edit>>,
             seen' \in SeenRecord,
             seen'.closed = seen.closed
      PROVE  LogsInOrder'
  <2>1. task[t].items # <<>> /\ JobInOrder(task[t], seen.closed)
    BY <1>a, <1>7
  <2>2. JobInOrder(task'[t], seen'.closed) /\ task' \in [Task -> TaskJob]
        /\ \A u \in Task : u # t => task'[u] = task[u]
    BY <1>0, <1>7, <2>1, JobEnds, TaskEnds
  <2>3. WebhookTypeOK'
    BY <1>0, <1>7, <2>2 DEF WebhookTypeOK
  <2>4. seen.closed \subseteq seen'.closed /\ sub' = sub /\ logs' = logs
    BY <1>7
  <2> QED BY <2>2, <2>3, <2>4, LogsStayInOrder
<1>8. ASSUME NEW t \in Task, SaveSubFails(t) PROVE LogsInOrder'
  <2> DEFINE item == [Item(t) EXCEPT !.tried = TRUE]
  <2>1. /\ task[t].step = "saveSub" /\ UNCHANGED <<sub, logs, edit>>
        /\ seen' = [seen EXCEPT !.faults = @ + 1]
        /\ \/ NextItem(t)
           \/ OutOfAttempts(item) /\ With(t, "saveSub", Exhausted(item))
           \/ ~OutOfAttempts(item) /\ With(t, "saveLog", Retrying(item))
    BY <1>8 DEF SaveSubFails
  <2>2. /\ Item(t) \in WorkItem /\ Item(t).log.attempts \in Nat /\ Item(t).log.attempts >= 1
        /\ Limited(Item(t).log, Item(t).d, seen.closed)
    BY <1>a, <2>1
  <2>3. item \in WorkItem /\ item.log = Item(t).log /\ item.d = Item(t).d
    BY <2>2, Copies
  <2> HIDE DEF item
  <2>4. seen' \in SeenRecord /\ seen'.closed = seen.closed
    BY <1>0, <2>1
  <2>5. {"saveSub", "saveLog"} \subseteq TaskSteps \ {"idle", "take"} /\ sub' = sub
    BY <2>1 DEF TaskSteps
  <2>6. CASE NextItem(t)
    BY <1>7, <2>1, <2>4, <2>6
  <2>7. CASE OutOfAttempts(item) /\ With(t, "saveSub", Exhausted(item))
    <3> DEFINE now == Exhausted(item)
    <3>1. now \in WorkItem /\ now.d = item.d /\ now.log.attempts = item.log.attempts
          /\ now.log.status = "exhausted" /\ With(t, "saveSub", now)
      BY <2>3, <2>7, Copies
    <3> HIDE DEF now
    <3>2. now.log.attempts = MaxAttempts
      BY <1>0, <2>2, <2>3, <2>7, <3>1 DEF OutOfAttempts, Limited
    <3>3. Limited(now.log, now.d, seen'.closed) /\ now.log.attempts >= 1
      BY <1>0, <3>1, <3>2 DEF Limited
    <3> QED BY <1>b, <2>1, <2>4, <2>5, <3>1, <3>3
  <2>8. CASE ~OutOfAttempts(item) /\ With(t, "saveLog", Retrying(item))
    <3> DEFINE now == Retrying(item)
    <3>1. now \in WorkItem /\ now.d = item.d /\ now.log.attempts = item.log.attempts
          /\ now.log.status = "retrying" /\ With(t, "saveLog", now)
      BY <2>3, <2>8, Copies
    <3> HIDE DEF now
    <3>2. Limited(now.log, now.d, seen'.closed)
      BY <1>0, <2>2, <2>3, <2>8, <3>1 DEF Limited, OutOfAttempts
    <3> QED BY <1>b, <2>1, <2>4, <2>5, <3>1, <3>2
  <2> QED BY <2>1, <2>6, <2>7, <2>8
<1>9. ASSUME NEW t \in Task, SaveDeliveryLog(t) PROVE LogsInOrder'
  <2> DEFINE item == Item(t)
  <2>1. /\ task[t].step = "saveLog" /\ UNCHANGED <<sub, edit, seen>> /\ NextItem(t)
        /\ logs' = IF sub = NoRow THEN logs ELSE [logs EXCEPT ![item.d] = item.log]
    BY <1>9 DEF SaveDeliveryLog
  <2>2. /\ item \in WorkItem /\ item.d \in Delivery /\ item.log \in LogRow
        /\ Limited(item.log, item.d, seen.closed) /\ seen' = seen /\ seen'.closed = seen.closed
    BY <1>a, <2>1
  <2> HIDE DEF item
  <2>3. CASE sub = NoRow
    <3>1. logs' = logs /\ sub' = sub
      BY <2>1, <2>3
    <3> QED BY <1>0, <1>7, <2>1, <2>2, <3>1
  <2>4. CASE sub # NoRow
    <3>1. logs' \in [Delivery -> {NoRow} \cup LogRow] /\ logs'[item.d] = item.log
          /\ \A e \in Delivery : e # item.d => logs'[e] = logs[e]
      BY <1>0, <2>1, <2>2, <2>4
    <3>2. task[t].items # <<>> /\ JobInOrder(task[t], seen.closed)
      BY <1>a, <2>1
    <3>3. JobInOrder(task'[t], seen'.closed) /\ task' \in [Task -> TaskJob]
          /\ \A u \in Task : u # t => task'[u] = task[u]
      BY <1>0, <2>1, <2>2, <3>2, JobEnds, TaskEnds
    <3>4. WebhookTypeOK'
      BY <1>0, <2>1, <3>1, <3>3 DEF WebhookTypeOK
    <3>5. sub' # NoRow /\ Limited(logs'[item.d], item.d, seen'.closed)
      BY <2>1, <2>2, <2>4, <3>1
    <3> QED BY <2>2, <3>1, <3>3, <3>4, <3>5, LogsStayInOrder
  <2> QED BY <2>3, <2>4
<1>10. ASSUME NEW t \in Task, BeginRetry(t) PROVE LogsInOrder'
  <2>1. /\ task[t].step = "take" /\ UNCHANGED <<sub, logs, edit>> /\ sub' = sub
        /\ {"post", "saveLog"} \subseteq TaskSteps \ {"idle", "take"}
    BY <1>10 DEF BeginRetry, TaskSteps
  <2>2. /\ Item(t) \in WorkItem /\ Item(t).d \in Delivery /\ Item(t).log.attempts \in Nat
        /\ Limited(Item(t).log, Item(t).d, seen.closed)
        /\ Item(t).log.status \in {"pending", "retrying"} /\ Item(t).log.attempts < MaxAttempts
    BY <1>a, <2>1
  <2>3. CASE With(t, "post", Item(t)) /\ UNCHANGED seen
    BY <1>0, <1>b, <2>1, <2>2, <2>3
  <2>4. CASE /\ With(t, "saveLog", [Item(t) EXCEPT !.log.status = "exhausted"])
             /\ seen' = [seen EXCEPT !.closed = @ \cup {Item(t).d}]
    <3> DEFINE item == [Item(t) EXCEPT !.log.status = "exhausted"]
    <3>1. item \in WorkItem /\ item.d = Item(t).d /\ item.log.attempts = Item(t).log.attempts
          /\ item.log.status = "exhausted" /\ With(t, "saveLog", item)
      BY <2>2, <2>4, Copies
    <3> HIDE DEF item
    <3>2. seen' \in SeenRecord /\ seen'.closed = seen.closed \cup {Item(t).d}
      BY <1>0, <2>2, <2>4
    <3>3. Limited(item.log, item.d, seen'.closed)
      BY <1>0, <2>2, <3>1, <3>2 DEF Limited
    <3>4. seen.closed \subseteq seen'.closed
      BY <3>2
    <3> QED BY <1>b, <2>1, <3>1, <3>2, <3>3, <3>4
  <2> QED BY <1>10, <2>3, <2>4 DEF BeginRetry
<1>11. ASSUME NEW t \in Task, WebhookRound(t) PROVE LogsInOrder'
  <2> DEFINE due == SetToSeq(DueRetries)
             items == [i \in DOMAIN due |-> [d |-> due[i], log |-> logs[due[i]], sub |-> sub,
                                            tried |-> FALSE]]
             job == [step |-> "take", items |-> items]
  <2>1. IsFiniteSet(DueRetries) /\ DueRetries \subseteq Delivery /\ DueRetries # {}
    BY <1>11, FS_Subset, WebhookAssumption DEF DueRetries, WebhookRound
  <2>2. due \in Seq(DueRetries) /\ DOMAIN due = 1..Len(due) /\ Len(due) \in Nat
    BY <2>1, Listed
  <2>3. \A i \in 1..Len(due) : due[i] \in DueRetries
    BY <2>2
  <2>4. task' = [task EXCEPT ![t] = job] /\ UNCHANGED <<sub, logs, edit>>
        /\ seen' = [seen EXCEPT !.overlapped = @ \/ \E d \in DueRetries : Holders(d) # {}]
    BY <1>11 DEF WebhookRound
  <2> HIDE DEF due
  <2>5. \A d \in DueRetries : logs[d] # NoRow /\ logs[d].status = "retrying" /\ d \in Delivery
    BY <2>1 DEF DueRetries, NoRow
  <2>6. \A d \in DueRetries : logs[d] \in LogRow /\ Limited(logs[d], d, seen.closed) /\ sub \in SubRow
    BY <2>5, LogsOfNoRow DEF LogsInOrder
  <2>7. /\ items \in Seq(WorkItem) /\ Len(items) = Len(due)
        /\ \A i \in 1..Len(items) : items[i].d = due[i] /\ items[i].log = logs[due[i]]
    BY <2>2, <2>3, <2>5, <2>6 DEF WorkItem
  <2>8. Len(due) # 0
    BY <2>1, Listed DEF due
  <2> HIDE DEF items
  <2>9. items # <<>>
    BY <2>7, <2>8
  <2>10. job \in TaskJob /\ job.step = "take" /\ job.items = items
    BY <2>7 DEF TaskJob, TaskSteps
  <2> HIDE DEF job
  <2>11. ASSUME NEW i \in 1..Len(items)
         PROVE  /\ Limited(items[i].log, items[i].d, seen.closed)
                /\ items[i].log.status = "retrying" /\ items[i].log.attempts < MaxAttempts
    <3>1. /\ due[i] \in DueRetries /\ items[i].d = due[i] /\ items[i].log = logs[due[i]]
          /\ logs[due[i]].status = "retrying" /\ logs[due[i]].attempts \in Nat
      BY <2>3, <2>5, <2>6, <2>7 DEF LogRow
    <3> QED BY <1>0, <2>6, <3>1 DEF Limited
  <2>12. JobInOrder(job, seen.closed)
    BY <2>9, <2>10, <2>11 DEF JobInOrder
  <2>13. task' \in [Task -> TaskJob] /\ task'[t] = job /\ \A u \in Task : u # t => task'[u] = task[u]
    BY <1>0, <2>4, <2>10
  <2>14. seen' \in SeenRecord /\ seen'.closed = seen.closed
    <3> DEFINE met == \E d \in DueRetries : Holders(d) # {}
    <3>1. seen' = [seen EXCEPT !.overlapped = seen.overlapped \/ met]
      BY <2>4
    <3> HIDE DEF met
    <3> QED BY <1>0, <3>1
  <2>15. WebhookTypeOK' /\ sub' = sub /\ logs' = logs
    BY <1>0, <2>4, <2>13, <2>14 DEF WebhookTypeOK
  <2> QED BY <2>12, <2>13, <2>14, <2>15, LogsStayInOrder
<1>12. ASSUME NEW d \in Delivery, Elapse(d) PROVE LogsInOrder'
  <2>1. /\ logs[d].status = "retrying" /\ UNCHANGED <<sub, task, edit, seen>>
        /\ logs' = [logs EXCEPT ![d].due = TRUE]
    BY <1>12 DEF Elapse
  <2>2. logs[d] # NoRow
    BY <2>1 DEF NoRow
  <2>3. logs[d] \in LogRow /\ sub # NoRow
    BY <2>2, LogsOfNoRow
  <2> DEFINE now == [logs[d] EXCEPT !.due = TRUE]
  <2>4. now \in LogRow /\ now.attempts = logs[d].attempts /\ now.status = logs[d].status
    BY <2>3 DEF LogRow
  <2>5. logs' = [logs EXCEPT ![d] = now]
    BY <1>0, <2>1
  <2> HIDE DEF now
  <2>6. logs' \in [Delivery -> {NoRow} \cup LogRow] /\ logs'[d] = now
        /\ \A e \in Delivery : e # d => logs'[e] = logs[e]
    BY <1>0, <2>4, <2>5
  <2>7. \A e \in Delivery : logs'[e] # NoRow => Limited(logs'[e], e, seen.closed)
    BY <2>2, <2>4, <2>6 DEF LogsInOrder, Limited
  <2>8. WebhookTypeOK'
    BY <1>0, <2>1, <2>6 DEF WebhookTypeOK
  <2> QED BY <2>1, <2>3, <2>7, <2>8 DEF LogsInOrder
<1>13. ASSUME UNCHANGED <<logs, task>>, WebhookTypeOK', seen'.closed = seen.closed,
              sub' # NoRow \/ sub' = sub
       PROVE  LogsInOrder'
  BY <1>13 DEF LogsInOrder
<1>14. ASSUME NEW url \in {1, 2}, NEW active \in BOOLEAN, ReadForEdit(url, active) PROVE LogsInOrder'
  <2> DEFINE now == [[sub EXCEPT !.url = url] EXCEPT !.active = active]
  <2>1. /\ UNCHANGED <<sub, logs, task>> /\ edit' = now /\ sub # NoRow
        /\ seen' = [seen EXCEPT !.edits = @ + 1, !.raced = Races]
    BY <1>14 DEF ReadForEdit
  <2>2. now \in SubRow
    BY <1>0, <2>1 DEF SubRow
  <2>3. Races \in BOOLEAN /\ seen.edits + 1 \in Nat
    BY <1>0 DEF Races
  <2>4. seen' \in SeenRecord /\ seen'.closed = seen.closed
    <3> DEFINE edits == seen.edits + 1
               raced == Races
               half == [seen EXCEPT !.edits = edits]
    <3>1. edits \in Nat /\ raced \in BOOLEAN /\ seen' = [half EXCEPT !.raced = raced]
      BY <2>1, <2>3
    <3> HIDE DEF edits, raced
    <3>2. half \in SeenRecord /\ half.closed = seen.closed
      BY <1>0, <3>1
    <3> HIDE DEF half
    <3> QED BY <3>1, <3>2
  <2> HIDE DEF now
  <2>5. WebhookTypeOK'
    BY <1>0, <2>1, <2>2, <2>4 DEF WebhookTypeOK
  <2> QED BY <1>13, <2>1, <2>4, <2>5
<1>15. CASE SaveEdit
  <2>1. /\ UNCHANGED <<logs, task>> /\ edit' = NoRow /\ edit # NoRow /\ sub' = edit
        /\ seen' = [seen EXCEPT !.raced = Races, !.url = edit.url]
    BY <1>15 DEF SaveEdit
  <2>2. Races \in BOOLEAN /\ edit \in SubRow /\ edit.url \in {1, 2}
    BY <1>0, <2>1 DEF Races, SubRow
  <2>3. seen' \in SeenRecord /\ seen'.closed = seen.closed
    BY <1>0, <2>1, <2>2
  <2>4. WebhookTypeOK'
    BY <1>0, <2>1, <2>2, <2>3 DEF WebhookTypeOK
  <2> QED BY <1>13, <2>1, <2>3, <2>4
<1>16. CASE Delete
  <2> DEFINE raced == Races \/ edit # NoRow
  <2>1. /\ UNCHANGED <<task, edit>> /\ sub' = NoRow /\ logs' = [d \in Delivery |-> NoRow]
        /\ seen' = [seen EXCEPT !.edits = @ + 1, !.raced = raced, !.url = 0]
    BY <1>16 DEF Delete
  <2>2. raced \in BOOLEAN /\ seen.edits + 1 \in Nat
    BY <1>0 DEF Races
  <2> HIDE DEF raced
  <2>3. seen' \in SeenRecord /\ seen'.closed = seen.closed
    <3> DEFINE edits == seen.edits + 1
               half == [seen EXCEPT !.edits = edits]
    <3>1. edits \in Nat /\ seen' = [[half EXCEPT !.raced = raced] EXCEPT !.url = 0]
      BY <2>1, <2>2
    <3> HIDE DEF edits
    <3>2. half \in SeenRecord /\ half.closed = seen.closed
      BY <1>0, <3>1
    <3> HIDE DEF half
    <3> QED BY <2>2, <3>1, <3>2
  <2>4. WebhookTypeOK'
    BY <1>0, <2>1, <2>3 DEF WebhookTypeOK
  <2> QED BY <2>1, <2>3, <2>4 DEF LogsInOrder
<1>17. CASE RestartDispatcher
  <2>1. /\ UNCHANGED <<sub, logs>> /\ task' = [t \in Task |-> NoTask] /\ edit' = NoRow
        /\ seen' = [seen EXCEPT !.faults = @ + 1]
    BY <1>17 DEF RestartDispatcher
  <2>2. seen' \in SeenRecord /\ seen'.closed = seen.closed
    BY <1>0, <2>1
  <2>3. \A t \in Task : task'[t] = NoTask
    BY <2>1
  <2>4. WebhookTypeOK'
    BY <1>0, <2>1, <2>2 DEF WebhookTypeOK
  <2>5. JobInOrder(NoTask, seen.closed)
    BY <1>0 DEF JobInOrder
  <2> QED BY <2>1, <2>2, <2>3, <2>4, <2>5 DEF LogsInOrder
<1> QED BY <1>1, <1>2, <1>3, <1>4, <1>5, <1>6, <1>8, <1>9, <1>10, <1>11, <1>12, <1>14, <1>15,
           <1>16, <1>17 DEF WebhookNext, TaskStep

\* The items a task holds then are those it held, but for the one it changed.
LEMMA GoesCopies ==
  ASSUME WebhookTypeOK, NEW t \in Task, task[t].items # <<>>, NEW step \in TaskSteps,
         NEW item \in WorkItem, With(t, step, item),
         NEW u \in Task, NEW i \in 1..Len(task'[u].items)
  PROVE  \/ task'[u].items[i] = item
         \/ \E k \in 1..Len(task[u].items) : task'[u].items[i] = task[u].items[k]
  BY TaskGoes

LEMMA EndsCopies ==
  ASSUME WebhookTypeOK, NEW t \in Task, task[t].items # <<>>, NextItem(t),
         NEW u \in Task, NEW i \in 1..Len(task'[u].items)
  PROVE  \E k \in 1..Len(task[u].items) : task'[u].items[i] = task[u].items[k]
<1>1. /\ \A v \in Task : v # t => task'[v] = task[v]
      /\ Len(task[t].items) \in Nat \ {0} /\ Len(task'[t].items) = Len(task[t].items) - 1
      /\ \A k \in 1..Len(task'[t].items) : task'[t].items[k] = task[t].items[k + 1]
  BY TaskEnds
<1>2. CASE u = t
  <2>1. i + 1 \in 1..Len(task[t].items) /\ task'[t].items[i] = task[t].items[i + 1]
    BY <1>1, <1>2
  <2> QED BY <1>2, <2>1
<1>3. CASE u # t
  BY <1>1, <1>3
<1> QED BY <1>2, <1>3

\* Failures and targets, as one task goes on.
LEMMA CopiesStayFair ==
  ASSUME LogsInOrder, FailuresCounted, TargetKept, NEW t \in Task, task[t].step # "idle",
         NEW item \in WorkItem, \/ \E step \in TaskSteps : With(t, step, item)
                                \/ NextItem(t),
         seen' \in SeenRecord, edit' = edit, seen'.raced = seen.raced, seen'.url = seen.url,
         item.sub.url = Item(t).sub.url, sub' = sub \/ sub' = Item(t).sub,
         seen'.faults = 0 => /\ seen.faults = 0 /\ seen.exhausted <= seen'.exhausted
                             /\ item.sub.failures <= seen'.exhausted
  PROVE  FailuresCounted' /\ TargetKept'
<1>0. /\ WebhookTypeOK /\ task[t].items # <<>> /\ Item(t) = task[t].items[1] /\ Item(t) \in WorkItem
      /\ 1 \in 1..Len(task[t].items) /\ Item(t).sub \in SubRow /\ Item(t).sub.failures \in Nat
      /\ seen.exhausted \in Nat /\ seen'.exhausted \in Nat /\ task[t] # NoTask
      /\ item.sub.failures \in Nat /\ Item(t).sub # NoRow
  <2> DEFINE s == task[t].items
  <2>1. s # <<>> /\ s \in Seq(WorkItem) /\ WebhookTypeOK
    BY DEF LogsInOrder, JobInOrder, WebhookTypeOK, TaskJob
  <2>2. Len(s) \in Nat \ {0} /\ Head(s) = s[1] /\ s[1] \in WorkItem
    BY <2>1
  <2> HIDE DEF s
  <2>3. Item(t) = s[1] /\ 1 \in 1..Len(s) /\ Item(t).sub \in SubRow
    BY <2>2 DEF Item, s, WorkItem
  <2>4. seen.exhausted \in Nat /\ seen'.exhausted \in Nat
    BY <2>1 DEF WebhookTypeOK, SeenRecord
  <2>5. Item(t).sub.failures \in Nat /\ item.sub.failures \in Nat /\ Item(t).sub # NoRow
    BY <2>3, RowsAreRows DEF SubRow, WorkItem
  <2> QED BY <2>1, <2>2, <2>3, <2>4, <2>5 DEF s, NoTask
<1>1. ASSUME NEW u \in Task, NEW i \in 1..Len(task'[u].items)
      PROVE  \/ task'[u].items[i] = item
             \/ \E k \in 1..Len(task[u].items) : task'[u].items[i] = task[u].items[k]
  BY <1>0, <1>1, GoesCopies, EndsCopies
<1>2. ASSUME seen'.faults = 0 PROVE FailuresCounted'
  <2>1. seen.faults = 0 /\ seen.exhausted <= seen'.exhausted /\ item.sub.failures <= seen'.exhausted
    BY <1>2
  <2>2. ASSUME NEW u \in Task, NEW i \in 1..Len(task'[u].items)
        PROVE  task'[u].items[i].sub.failures <= seen'.exhausted
    <3>1. CASE task'[u].items[i] = item
      BY <2>1, <3>1
    <3>2. ASSUME NEW k \in 1..Len(task[u].items), task'[u].items[i] = task[u].items[k]
          PROVE  task'[u].items[i].sub.failures <= seen'.exhausted
      <4>1. task[u].items[k] \in WorkItem
        BY <1>0 DEF WebhookTypeOK, TaskJob
      <4>2. task[u].items[k].sub.failures \in Nat
        BY <4>1 DEF WorkItem, SubRow
      <4> QED BY <1>0, <2>1, <3>2, <4>2, SMTT(60) DEF FailuresCounted
    <3> QED BY <1>1, <2>2, <3>1, <3>2
  <2>3. sub' # NoRow => sub'.failures <= seen'.exhausted
    <3>1. CASE sub' = sub
      BY <1>0, <2>1, <3>1 DEF FailuresCounted, WebhookTypeOK, SubRow
    <3>2. CASE sub' = Item(t).sub
      BY <1>0, <2>1, <3>2 DEF FailuresCounted
    <3> QED BY <3>1, <3>2
  <2>4. edit' # NoRow => edit'.failures <= seen'.exhausted
    BY <1>0, <2>1 DEF FailuresCounted, WebhookTypeOK, SubRow
  <2> QED BY <2>2, <2>3, <2>4 DEF FailuresCounted
<1>3. ASSUME ~seen'.raced PROVE TargetKept'
  <2>1. ~seen.raced /\ sub # NoRow /\ sub.url = seen.url
    BY <1>0, <1>3 DEF TargetKept
  <2>2. \A u \in Task : \A i \in 1..Len(task[u].items) : task[u].items[i].sub.url = seen.url
    BY <2>1 DEF TargetKept
  <2>3. Item(t).sub.url = seen.url
    BY <1>0, <2>2
  <2>4. \A u \in Task : \A i \in 1..Len(task'[u].items) : task'[u].items[i].sub.url = seen'.url
    BY <1>1, <2>2, <2>3
  <2>5. sub' # NoRow /\ sub'.url = seen'.url
    BY <1>0, <2>1, <2>3
  <2> QED BY <2>4, <2>5 DEF TargetKept
<1> QED BY <1>2, <1>3 DEF FailuresCounted, TargetKept

LEMMA FairStep ==
  LogsInOrder /\ FailuresCounted /\ TargetKept /\ [WebhookNext]_webhookVars
    => FailuresCounted' /\ TargetKept'
<1> SUFFICES ASSUME LogsInOrder, FailuresCounted, TargetKept, [WebhookNext]_webhookVars
             PROVE  FailuresCounted' /\ TargetKept'
  OBVIOUS
<1>0. /\ WebhookTypeOK /\ seen \in SeenRecord /\ seen' \in SeenRecord
      /\ task \in [Task -> TaskJob] /\ seen.exhausted \in Nat /\ seen.faults \in Nat
      /\ sub \in {NoRow} \cup SubRow /\ edit \in {NoRow} \cup SubRow
      /\ NoTask \in TaskJob /\ 1..Len(NoTask.items) = {}
  <2>1. WebhookTypeOK /\ WebhookTypeOK'
    BY LogStep DEF LogsInOrder
  <2>2. NoTask \in TaskJob /\ NoTask.items = <<>>
    BY DEF NoTask, TaskJob, TaskSteps
  <2> QED BY <2>1, <2>2 DEF WebhookTypeOK, SeenRecord
<1>a. ASSUME NEW t \in Task, task[t].step # "idle"
      PROVE  /\ Item(t) \in WorkItem /\ Item(t).sub.failures \in Nat /\ task[t] # NoTask
             /\ seen.faults = 0 => Item(t).sub.failures <= seen.exhausted
  <2> DEFINE s == task[t].items
  <2>1. s # <<>> /\ s \in Seq(WorkItem)
    BY <1>0, <1>a DEF LogsInOrder, JobInOrder, TaskJob
  <2>2. Len(s) \in Nat \ {0} /\ Head(s) = s[1] /\ s[1] \in WorkItem /\ 1 \in 1..Len(s)
    BY <2>1
  <2> HIDE DEF s
  <2>3. Item(t) = s[1]
    BY <2>2 DEF Item, s
  <2> QED BY <1>a, <2>2, <2>3 DEF FailuresCounted, s, WorkItem, SubRow, NoTask
<1>1. CASE UNCHANGED webhookVars
  BY <1>1 DEF webhookVars, FailuresCounted, TargetKept
<1>2. ASSUME NEW t \in Task, NEW d \in Delivery, Dispatch(t, d) PROVE FailuresCounted' /\ TargetKept'
  <2> DEFINE item == [d |-> d, log |-> Pending, sub |-> sub, tried |-> FALSE]
             job == [step |-> "create", items |-> <<item>>]
  <2>1. /\ task' = [task EXCEPT ![t] = job] /\ UNCHANGED <<sub, edit>> /\ sub # NoRow
        /\ seen' = [seen EXCEPT !.sent = @ \cup {d}]
    BY <1>2 DEF Dispatch
  <2>2. item.sub = sub /\ Len(<<item>>) = 1 /\ <<item>>[1] = item /\ job.items = <<item>>
    OBVIOUS
  <2> HIDE DEF item
  <2>3. <<item>> \in Seq({item})
    OBVIOUS
  <2>4. \A i \in 1..Len(job.items) : job.items[i] = item
    BY <2>2
  <2> HIDE DEF job
  <2>5. \A u \in Task : task'[u] = job \/ task'[u] = task[u]
    BY <1>0, <2>1
  <2>6. seen'.exhausted = seen.exhausted /\ seen'.faults = seen.faults /\ seen'.raced = seen.raced
        /\ seen'.url = seen.url
    BY <1>0, <2>1 DEF SeenRecord
  <2>7. FailuresCounted'
    BY <2>1, <2>2, <2>4, <2>5, <2>6 DEF FailuresCounted
  <2>8. TargetKept'
    BY <2>1, <2>2, <2>4, <2>5, <2>6 DEF TargetKept
  <2> QED BY <2>7, <2>8
<1>3. ASSUME NEW t \in Task, CreateLog(t) \/ SaveSub(t) \/ SaveDeliveryLog(t) \/ BeginRetry(t)
      PROVE  FailuresCounted' /\ TargetKept'
  <2> DEFINE closing == [Item(t) EXCEPT !.log.status = "exhausted"]
  <2>1. task[t].step # "idle"
    BY <1>3 DEF CreateLog, SaveSub, SaveDeliveryLog, BeginRetry
  <2>2. closing \in WorkItem /\ closing.sub = Item(t).sub
    BY <1>a, <2>1, Copies
  <2>3. {"post", "saveLog"} \subseteq TaskSteps
    BY DEF TaskSteps
  <2>4. /\ NextItem(t) \/ With(t, "post", Item(t)) \/ With(t, "saveLog", Item(t))
           \/ With(t, "saveLog", closing)
        /\ edit' = edit /\ (sub' = sub \/ sub' = Item(t).sub)
        /\ seen' = seen \/ seen' = [seen EXCEPT !.closed = @ \cup {Item(t).d}]
    BY <1>3 DEF CreateLog, SaveSub, SaveDeliveryLog, BeginRetry
  <2> HIDE DEF closing
  <2>5. seen'.exhausted = seen.exhausted /\ seen'.faults = seen.faults /\ seen'.raced = seen.raced
        /\ seen'.url = seen.url
    BY <1>0, <2>4 DEF SeenRecord
  <2>6. /\ Item(t) \in WorkItem /\ Item(t).sub.failures \in Nat /\ seen.exhausted <= seen'.exhausted
        /\ seen'.faults = 0 => Item(t).sub.failures <= seen'.exhausted
    BY <1>0, <1>a, <2>1, <2>5
  <2>7. CASE With(t, "saveLog", closing)
    BY <1>0, <2>1, <2>2, <2>3, <2>4, <2>5, <2>6, <2>7, CopiesStayFair
  <2>8. CASE NextItem(t) \/ With(t, "post", Item(t)) \/ With(t, "saveLog", Item(t))
    BY <1>0, <2>1, <2>3, <2>4, <2>5, <2>6, <2>8, CopiesStayFair
  <2> QED BY <2>4, <2>7, <2>8
<1>4. ASSUME NEW t \in Task, PostOk(t) PROVE FailuresCounted' /\ TargetKept'
  <2> DEFINE once == Attempted(t)
             item == [once EXCEPT !.log.status = "delivered"]
             zero == [item EXCEPT !.sub.failures = 0]
  <2>1. task[t].step # "idle"
    BY <1>4 DEF PostOk
  <2>2. Item(t) \in WorkItem /\ Item(t).sub.failures \in Nat
        /\ (seen.faults = 0 => Item(t).sub.failures <= seen.exhausted)
    BY <1>a, <2>1
  <2>3. once \in WorkItem /\ once.sub = Item(t).sub
    BY <2>2, Copies DEF Attempted
  <2>4. /\ seen' = [seen EXCEPT !.received = @ \cup {item.d}]
        /\ edit' = edit /\ sub' = sub
        /\ With(t, "saveSub", zero) \/ With(t, "saveLog", item)
    BY <1>4 DEF PostOk
  <2> HIDE DEF once
  <2>5. item \in WorkItem /\ item.sub = once.sub
    BY <2>3, Copies
  <2> HIDE DEF item
  <2>6. zero \in WorkItem /\ zero.sub.failures = 0 /\ zero.sub.url = item.sub.url
    BY <2>5, Copies
  <2> HIDE DEF zero
  <2>7. seen'.exhausted = seen.exhausted /\ seen'.faults = seen.faults /\ seen'.raced = seen.raced
        /\ seen'.url = seen.url
    BY <1>0, <2>4 DEF SeenRecord
  <2>8. {"saveSub", "saveLog"} \subseteq TaskSteps
    BY DEF TaskSteps
  <2>9. CASE With(t, "saveSub", zero)
    <3>1. zero.sub.url = Item(t).sub.url /\ zero.sub.failures <= seen'.exhausted
          /\ seen.exhausted <= seen'.exhausted
      BY <1>0, <2>3, <2>5, <2>6, <2>7
    <3> QED BY <1>0, <2>1, <2>4, <2>6, <2>7, <2>8, <2>9, <3>1, CopiesStayFair
  <2>10. CASE With(t, "saveLog", item)
    <3>1. item.sub.url = Item(t).sub.url /\ (seen'.faults = 0 => item.sub.failures <= seen'.exhausted)
          /\ seen.exhausted <= seen'.exhausted
      BY <1>0, <2>2, <2>3, <2>5, <2>7
    <3> QED BY <1>0, <2>1, <2>4, <2>5, <2>7, <2>8, <2>10, <3>1, CopiesStayFair
  <2> QED BY <2>4, <2>9, <2>10
<1>5. ASSUME NEW t \in Task, NEW answered \in BOOLEAN, PostFails(t, answered)
      PROVE  FailuresCounted' /\ TargetKept'
  <2> DEFINE once == Attempted(t)
             item == [once EXCEPT !.tried = ~answered]
  <2>1. task[t].step # "idle"
    BY <1>5 DEF PostFails
  <2>2. Item(t) \in WorkItem /\ Item(t).sub.failures \in Nat
        /\ (seen.faults = 0 => Item(t).sub.failures <= seen.exhausted)
    BY <1>a, <2>1
  <2>3. once \in WorkItem /\ once.sub = Item(t).sub
    BY <2>2, Copies DEF Attempted
  <2>4. /\ edit' = edit /\ sub' = sub
        /\ \/ With(t, "saveSub", Exhausted(item)) /\ seen' = [seen EXCEPT !.exhausted = @ + 1]
           \/ With(t, "saveLog", Retrying(item)) /\ seen' = seen
    BY <1>5 DEF PostFails, ScheduleRetry
  <2> HIDE DEF once
  <2>5. item \in WorkItem /\ item.sub = once.sub
    BY <2>3 DEF WorkItem
  <2> HIDE DEF item
  <2>6. /\ Exhausted(item) \in WorkItem /\ Exhausted(item).sub.url = item.sub.url
        /\ Exhausted(item).sub.failures = item.sub.failures + 1
        /\ Retrying(item) \in WorkItem /\ Retrying(item).sub = item.sub
    BY <2>5, Copies
  <2>7. {"saveSub", "saveLog"} \subseteq TaskSteps
    BY DEF TaskSteps
  <2>8. CASE With(t, "saveSub", Exhausted(item)) /\ seen' = [seen EXCEPT !.exhausted = @ + 1]
    <3>1. seen'.exhausted = seen.exhausted + 1 /\ seen'.faults = seen.faults
          /\ seen'.raced = seen.raced /\ seen'.url = seen.url
      BY <1>0, <2>8 DEF SeenRecord
    <3>2. Exhausted(item).sub.url = Item(t).sub.url /\ seen.exhausted <= seen'.exhausted
          /\ (seen'.faults = 0 => Exhausted(item).sub.failures <= seen'.exhausted)
      BY <1>0, <2>2, <2>3, <2>5, <2>6, <3>1
    <3> QED BY <1>0, <2>1, <2>4, <2>6, <2>7, <2>8, <3>1, <3>2, CopiesStayFair
  <2>9. CASE With(t, "saveLog", Retrying(item)) /\ seen' = seen
    <3>1. Retrying(item).sub.url = Item(t).sub.url /\ seen.exhausted <= seen'.exhausted
          /\ (seen'.faults = 0 => Retrying(item).sub.failures <= seen'.exhausted)
      BY <1>0, <2>2, <2>3, <2>5, <2>6, <2>9
    <3> QED BY <1>0, <2>1, <2>4, <2>6, <2>7, <2>9, <3>1, CopiesStayFair
  <2> QED BY <2>4, <2>8, <2>9
<1>6. ASSUME NEW t \in Task, SaveSubFails(t) PROVE FailuresCounted' /\ TargetKept'
  <2> DEFINE item == [Item(t) EXCEPT !.tried = TRUE]
  <2>1. task[t].step # "idle"
    BY <1>6 DEF SaveSubFails
  <2>2. Item(t) \in WorkItem
    BY <1>a, <2>1
  <2>3. item \in WorkItem /\ item.sub = Item(t).sub
    BY <2>2 DEF WorkItem
  <2>4. /\ edit' = edit /\ sub' = sub /\ seen' = [seen EXCEPT !.faults = @ + 1]
        /\ \/ NextItem(t)
           \/ With(t, "saveSub", Exhausted(item))
           \/ With(t, "saveLog", Retrying(item))
    BY <1>6 DEF SaveSubFails
  <2> HIDE DEF item
  <2>5. /\ Exhausted(item) \in WorkItem /\ Exhausted(item).sub.url = item.sub.url
        /\ Retrying(item) \in WorkItem /\ Retrying(item).sub = item.sub
    BY <2>3, Copies
  <2>6. seen'.faults = seen.faults + 1 /\ seen'.raced = seen.raced /\ seen'.url = seen.url
    BY <1>0, <2>4 DEF SeenRecord
  <2>7. seen'.faults # 0 /\ {"saveSub", "saveLog"} \subseteq TaskSteps
    BY <1>0, <2>6 DEF TaskSteps
  <2>8. CASE NextItem(t)
    BY <1>0, <2>1, <2>2, <2>4, <2>6, <2>7, <2>8, CopiesStayFair
  <2>9. CASE With(t, "saveSub", Exhausted(item))
    <3>1. Exhausted(item).sub.url = Item(t).sub.url
      BY <2>3, <2>5
    <3> QED BY <1>0, <2>1, <2>4, <2>5, <2>6, <2>7, <2>9, <3>1, CopiesStayFair
  <2>10. CASE With(t, "saveLog", Retrying(item))
    <3>1. Retrying(item).sub.url = Item(t).sub.url
      BY <2>3, <2>5
    <3> QED BY <1>0, <2>1, <2>4, <2>5, <2>6, <2>7, <2>10, <3>1, CopiesStayFair
  <2> QED BY <2>4, <2>8, <2>9, <2>10
<1>7. ASSUME NEW t \in Task, WebhookRound(t) PROVE FailuresCounted' /\ TargetKept'
  <2> DEFINE due == SetToSeq(DueRetries)
             items == [i \in DOMAIN due |-> [d |-> due[i], log |-> logs[due[i]], sub |-> sub,
                                             tried |-> FALSE]]
             job == [step |-> "take", items |-> items]
  <2>1. /\ task' = [task EXCEPT ![t] = job] /\ UNCHANGED <<sub, edit>> /\ DueRetries # {}
        /\ seen' = [seen EXCEPT !.overlapped = @ \/ \E d \in DueRetries : Holders(d) # {}]
    BY <1>7 DEF WebhookRound
  <2>2. IsFiniteSet(DueRetries)
    BY WebhookAssumption, FS_Subset DEF DueRetries
  <2>3. due \in Seq(DueRetries) /\ DOMAIN due = 1..Len(due)
    BY <2>2, Listed
  <2> HIDE DEF due
  <2>4. DOMAIN items = 1..Len(due) /\ Len(due) \in Nat /\ \A i \in 1..Len(due) : items[i].sub = sub
    BY <2>3
  <2>5. Len(items) = Len(due)
    BY <2>3, <2>4, LenProperties
  <2> HIDE DEF items
  <2>6. job.items = items
    OBVIOUS
  <2> HIDE DEF job
  <2>7. \A i \in 1..Len(job.items) : job.items[i].sub = sub
    BY <2>4, <2>5, <2>6
  <2>8. sub # NoRow
    <3>1. PICK d \in Delivery : logs[d].status = "retrying"
      BY <2>1 DEF DueRetries
    <3> QED BY <3>1, LogsOfNoRow DEF NoRow
  <2>9. \A u \in Task : task'[u] = job \/ task'[u] = task[u]
    BY <1>0, <2>1
  <2>10. seen'.exhausted = seen.exhausted /\ seen'.faults = seen.faults /\ seen'.raced = seen.raced
         /\ seen'.url = seen.url
    BY <1>0, <2>1 DEF SeenRecord
  <2>11. FailuresCounted'
    BY <2>1, <2>7, <2>8, <2>9, <2>10 DEF FailuresCounted
  <2>12. TargetKept'
    BY <2>1, <2>7, <2>8, <2>9, <2>10 DEF TargetKept
  <2> QED BY <2>11, <2>12
<1>8. ASSUME NEW d \in Delivery, Elapse(d) PROVE FailuresCounted' /\ TargetKept'
  BY <1>8 DEF Elapse, FailuresCounted, TargetKept
\* A step of the owner: unless it raced, nobody holds a copy.
<1>b. ASSUME task' = task, ~seen'.raced => ~Races
      PROVE  ~seen'.raced => /\ ~seen.raced
                             /\ \A u \in Task : task'[u] = NoTask /\ 1..Len(task'[u].items) = {}
  BY <1>0, <1>b DEF Races
<1>9. ASSUME NEW url \in {1, 2}, NEW active \in BOOLEAN, ReadForEdit(url, active)
      PROVE  FailuresCounted' /\ TargetKept'
  <2> DEFINE now == [[sub EXCEPT !.url = url] EXCEPT !.active = active]
  <2>1. /\ task' = task /\ sub' = sub /\ edit' = now /\ sub # NoRow
        /\ seen' = [seen EXCEPT !.edits = @ + 1, !.raced = Races]
    BY <1>9 DEF ReadForEdit
  <2>2. now.failures = sub.failures
    BY <1>0, <2>1 DEF SubRow
  <2> HIDE DEF now
  <2>3. seen'.exhausted = seen.exhausted /\ seen'.faults = seen.faults /\ seen'.raced = Races
        /\ seen'.url = seen.url
    BY <1>0, <2>1 DEF SeenRecord
  <2>4. FailuresCounted'
    BY <2>1, <2>2, <2>3 DEF FailuresCounted
  <2>5. TargetKept'
    BY <1>b, <2>1, <2>3 DEF TargetKept
  <2> QED BY <2>4, <2>5
<1>10. CASE SaveEdit
  <2>1. /\ task' = task /\ sub' = edit /\ edit' = NoRow /\ edit # NoRow
        /\ seen' = [seen EXCEPT !.raced = Races, !.url = edit.url]
    BY <1>10 DEF SaveEdit
  <2>2. seen'.exhausted = seen.exhausted /\ seen'.faults = seen.faults /\ seen'.raced = Races
        /\ seen'.url = edit.url
    BY <1>0, <2>1 DEF SeenRecord
  <2>3. FailuresCounted'
    BY <2>1, <2>2 DEF FailuresCounted
  <2>4. TargetKept'
    BY <1>b, <2>1, <2>2 DEF TargetKept
  <2> QED BY <2>3, <2>4
<1>11. CASE Delete
  <2> DEFINE raced == Races \/ edit # NoRow
  <2>1. /\ task' = task /\ sub' = NoRow /\ edit' = edit
        /\ seen' = [seen EXCEPT !.edits = @ + 1, !.raced = raced, !.url = 0]
    BY <1>11 DEF Delete
  <2>2. seen'.exhausted = seen.exhausted /\ seen'.faults = seen.faults /\ seen'.raced = raced
        /\ seen'.url = 0
    BY <1>0, <2>1 DEF SeenRecord
  <2>3. FailuresCounted'
    BY <2>1, <2>2 DEF FailuresCounted
  <2>4. TargetKept'
    BY <1>b, <2>1, <2>2 DEF TargetKept
  <2> QED BY <2>3, <2>4
<1>12. CASE RestartDispatcher
  <2>1. /\ sub' = sub /\ edit' = NoRow /\ \A u \in Task : task'[u] = NoTask
        /\ seen' = [seen EXCEPT !.faults = @ + 1]
    BY <1>12 DEF RestartDispatcher
  <2>2. seen'.faults = seen.faults + 1 /\ seen'.raced = seen.raced /\ seen'.url = seen.url
    BY <1>0, <2>1 DEF SeenRecord
  <2>3. seen'.faults # 0
    BY <1>0, <2>2
  <2>4. \A u \in Task : 1..Len(task'[u].items) = {}
    BY <1>0, <2>1
  <2> QED BY <2>1, <2>2, <2>3, <2>4 DEF FailuresCounted, TargetKept
<1> QED BY <1>1, <1>2, <1>3, <1>4, <1>5, <1>6, <1>7, <1>8, <1>9, <1>10, <1>11, <1>12
        DEF WebhookNext, TaskStep

\* What is known of outcomes, as one task goes on with its first item ...
LEMMA OutcomeGoes ==
  ASSUME LogsInOrder, OutcomesKnown, NEW t \in Task, task[t].step # "idle",
         NEW step \in TaskSteps, NEW item \in WorkItem, With(t, step, item), item.d = Item(t).d,
         Quiet' => Quiet, seen'.sent = seen.sent,
         \A e \in Delivery : e # item.d =>
            logs'[e] = logs[e] /\ (e \in seen'.received <=> e \in seen.received),
         IF step \in {"create", "take", "post"} THEN Quiet => item.d \notin seen'.received
         ELSE Quiet => (item.log.status = "delivered" <=> item.d \in seen'.received)
  PROVE  OutcomesKnown'
<1> SUFFICES ASSUME Quiet' PROVE OutcomesKnown'
  BY DEF OutcomesKnown
<1>0. /\ WebhookTypeOK /\ task[t].items # <<>> /\ Item(t) = task[t].items[1]
      /\ 1 \in 1..Len(task[t].items) /\ item.d \in Delivery
  <2> DEFINE s == task[t].items
  <2>1. s # <<>> /\ s \in Seq(WorkItem) /\ WebhookTypeOK
    BY DEF LogsInOrder, JobInOrder, WebhookTypeOK, TaskJob
  <2>2. Len(s) \in Nat \ {0} /\ Head(s) = s[1]
    BY <2>1
  <2> HIDE DEF s
  <2>3. Item(t) = s[1] /\ 1 \in 1..Len(s)
    BY <2>2 DEF Item, s
  <2>4. item.d \in Delivery
    BY DEF WorkItem
  <2> QED BY <2>1, <2>3, <2>4 DEF s
<1>1. /\ OneHolder
      /\ \A d \in Delivery \ seen.sent : logs[d] = NoRow /\ d \notin seen.received
      /\ \A u \in Task : \A i \in 1..Len(task[u].items) :
            /\ task[u].items[i].d \in seen.sent
            /\ IF Ahead(task[u], i) THEN task[u].items[i].d \notin seen.received
               ELSE task[u].items[i].log.status = "delivered" <=> task[u].items[i].d \in seen.received
      /\ \A d \in Delivery : logs[d] # NoRow /\ ~Held(d) =>
            (logs[d].status = "delivered" <=> d \in seen.received)
  BY DEF OutcomesKnown
<1>2. /\ \A u \in Task : u # t => task'[u] = task[u]
      /\ task'[t].step = step /\ Len(task'[t].items) = Len(task[t].items)
      /\ task'[t].items[1] = item
      /\ \A i \in 1..Len(task[t].items) : i # 1 => task'[t].items[i] = task[t].items[i]
  BY <1>0, TaskGoes
<1>3. \A u \in Task : /\ Len(task'[u].items) = Len(task[u].items)
                      /\ \A i \in 1..Len(task[u].items) : task'[u].items[i].d = task[u].items[i].d
  BY <1>0, <1>2
<1>4. OneHolder'
  BY <1>1, <1>3 DEF OneHolder
<1>5. \A d \in Delivery : Held(d)' <=> Held(d)
  BY <1>3, SMTT(60) DEF Held
<1>6. Held(item.d) /\ item.d \in seen.sent
  BY <1>0, <1>1 DEF Held
<1>7. \A d \in Delivery \ seen'.sent : logs'[d] = NoRow /\ d \notin seen'.received
  BY <1>1, <1>6
<1>8. \A d \in Delivery : logs'[d] # NoRow /\ ~Held(d)' =>
         (logs'[d].status = "delivered" <=> d \in seen'.received)
  BY <1>1, <1>5, <1>6
<1>9. ASSUME NEW u \in Task, NEW i \in 1..Len(task'[u].items)
      PROVE  /\ task'[u].items[i].d \in seen'.sent
             /\ IF Ahead(task'[u], i) THEN task'[u].items[i].d \notin seen'.received
                ELSE task'[u].items[i].log.status = "delivered" <=> task'[u].items[i].d \in seen'.received
  <2>1. CASE u = t /\ i = 1
    BY <1>2, <1>6, <2>1 DEF Ahead
  <2>2. CASE u # t \/ i # 1
    <3>1. i \in 1..Len(task[u].items) /\ task'[u].items[i] = task[u].items[i]
      BY <1>2, <2>2
    <3>2. task[u].items[i].d # item.d
      BY <1>0, <1>1, <2>2, <3>1 DEF OneHolder
    <3>3. task[u].items[i].d \in Delivery
      <4>1. task[u].items \in Seq(WorkItem)
        BY <1>0 DEF WebhookTypeOK, TaskJob
      <4>2. task[u].items[i] \in WorkItem
        BY <3>1, <4>1
      <4> QED BY <4>2 DEF WorkItem
    <3>4. Ahead(task'[u], i) <=> Ahead(task[u], i)
      BY <1>2, <2>2 DEF Ahead
    <3> DEFINE c == task[u].items[i]
    <3>5. /\ c.d \in seen.sent
          /\ IF Ahead(task[u], i) THEN c.d \notin seen.received
             ELSE c.log.status = "delivered" <=> c.d \in seen.received
      BY <1>1, <3>1
    <3>6. c.d \in seen'.received <=> c.d \in seen.received
      BY <3>2, <3>3
    <3>7. task'[u].items[i] = c
      BY <3>1
    <3> HIDE DEF c
    <3> QED BY <3>4, <3>5, <3>6, <3>7
  <2> QED BY <2>1, <2>2
<1> QED BY <1>4, <1>7, <1>8, <1>9 DEF OutcomesKnown

\* ... and as it lets go of it.
LEMMA OutcomeEnds ==
  ASSUME LogsInOrder, OutcomesKnown, NEW t \in Task, task[t].step # "idle", NextItem(t),
         seen'.overlapped = seen.overlapped, seen'.faults = seen.faults,
         seen'.sent = seen.sent, seen'.received = seen.received,
         \A e \in Delivery : e # Item(t).d => logs'[e] = logs[e],
         Quiet /\ logs'[Item(t).d] # NoRow =>
            (logs'[Item(t).d].status = "delivered" <=> Item(t).d \in seen.received)
  PROVE  OutcomesKnown'
<1> SUFFICES ASSUME Quiet' PROVE OutcomesKnown'
  BY DEF OutcomesKnown
<1>0. /\ WebhookTypeOK /\ task[t].items # <<>> /\ Item(t) = task[t].items[1]
      /\ 1 \in 1..Len(task[t].items) /\ Item(t).d \in Delivery
  <2> DEFINE s == task[t].items
  <2>1. s # <<>> /\ s \in Seq(WorkItem) /\ WebhookTypeOK
    BY DEF LogsInOrder, JobInOrder, WebhookTypeOK, TaskJob
  <2>2. Len(s) \in Nat \ {0} /\ Head(s) = s[1] /\ s[1] \in WorkItem
    BY <2>1
  <2> HIDE DEF s
  <2>3. Item(t) = s[1] /\ 1 \in 1..Len(s)
    BY <2>2 DEF Item, s
  <2>4. Item(t).d \in Delivery
    BY <2>2, <2>3 DEF WorkItem
  <2> QED BY <2>1, <2>3, <2>4 DEF s
<1>q. Quiet
  BY DEF Quiet
<1>1. /\ OneHolder
      /\ \A d \in Delivery \ seen.sent : logs[d] = NoRow /\ d \notin seen.received
      /\ \A u \in Task : \A i \in 1..Len(task[u].items) :
            /\ task[u].items[i].d \in seen.sent
            /\ IF Ahead(task[u], i) THEN task[u].items[i].d \notin seen.received
               ELSE task[u].items[i].log.status = "delivered" <=> task[u].items[i].d \in seen.received
      /\ \A d \in Delivery : logs[d] # NoRow /\ ~Held(d) =>
            (logs[d].status = "delivered" <=> d \in seen.received)
  BY <1>q DEF OutcomesKnown
<1>2. /\ \A u \in Task : u # t => task'[u] = task[u]
      /\ Len(task[t].items) \in Nat \ {0}
      /\ Len(task'[t].items) = Len(task[t].items) - 1
      /\ task'[t].items = <<>> \/ task'[t].step = "take"
      /\ \A i \in 1..Len(task'[t].items) : task'[t].items[i] = task[t].items[i + 1]
  BY <1>0, TaskEnds
<1> DEFINE was(u, i) == IF u = t THEN i + 1 ELSE i
<1>3. ASSUME NEW u \in Task, NEW i \in 1..Len(task'[u].items)
      PROVE  /\ was(u, i) \in 1..Len(task[u].items) /\ task'[u].items[i] = task[u].items[was(u, i)]
             /\ u = t => was(u, i) # 1
             /\ Ahead(task'[u], i) <=> Ahead(task[u], was(u, i))
  <2>1. CASE u = t
    <3>1. i + 1 \in 1..Len(task[t].items) /\ i + 1 > 1 /\ Len(task'[t].items) # 0
      BY <1>2, <2>1
    <3>2. task'[t].step = "take"
      BY <1>2, <3>1, Len(<<>>) = 0
    <3> QED BY <1>2, <2>1, <3>1, <3>2 DEF Ahead
  <2>2. CASE u # t
    BY <1>2, <2>2
  <2> QED BY <2>1, <2>2
<1>4. OneHolder'
  <2> SUFFICES ASSUME NEW u \in Task, NEW v \in Task,
                      NEW i \in 1..Len(task'[u].items), NEW j \in 1..Len(task'[v].items),
                      task'[u].items[i].d = task'[v].items[j].d
               PROVE  u = v /\ i = j
    BY DEF OneHolder
  <2>1. u = v /\ was(u, i) = was(v, j)
    <3>1. was(u, i) \in 1..Len(task[u].items) /\ was(v, j) \in 1..Len(task[v].items)
          /\ task[u].items[was(u, i)].d = task[v].items[was(v, j)].d
      BY <1>3
    <3> HIDE DEF was
    <3> QED BY <1>1, <3>1 DEF OneHolder
  <2> QED BY <2>1
<1>5. ASSUME NEW d \in Delivery, ~Held(d)', d # Item(t).d PROVE ~Held(d)
  <2> SUFFICES ASSUME NEW u \in Task, NEW i \in 1..Len(task[u].items), task[u].items[i].d = d
               PROVE  FALSE
    BY DEF Held
  <2>1. CASE u # t
    BY <1>2, <1>5, <2>1 DEF Held
  <2>2. CASE u = t
    <3>1. i # 1
      BY <1>0, <1>5, <2>2
    <3>2. i - 1 \in 1..Len(task'[t].items) /\ (i - 1) + 1 = i
      BY <1>2, <2>2, <3>1
    <3>3. task'[t].items[i - 1] = task[t].items[i]
      BY <1>2, <3>2
    <3> QED BY <1>5, <2>2, <3>2, <3>3 DEF Held
  <2> QED BY <2>1, <2>2
<1>6. \A d \in Delivery : logs'[d] # NoRow /\ ~Held(d)' =>
         (logs'[d].status = "delivered" <=> d \in seen'.received)
  BY <1>q, <1>1, <1>5
<1>7. \A d \in Delivery \ seen'.sent : logs'[d] = NoRow /\ d \notin seen'.received
  <2>1. Item(t).d \in seen.sent
    BY <1>0, <1>1
  <2> QED BY <1>1, <2>1
<1>8. ASSUME NEW u \in Task, NEW i \in 1..Len(task'[u].items)
      PROVE  /\ task'[u].items[i].d \in seen'.sent
             /\ IF Ahead(task'[u], i) THEN task'[u].items[i].d \notin seen'.received
                ELSE task'[u].items[i].log.status = "delivered" <=> task'[u].items[i].d \in seen'.received
  <2>1. was(u, i) \in 1..Len(task[u].items) /\ task'[u].items[i] = task[u].items[was(u, i)]
        /\ (Ahead(task'[u], i) <=> Ahead(task[u], was(u, i)))
    BY <1>3
  <2> HIDE DEF was
  <2> QED BY <1>1, <2>1
<1> QED BY <1>4, <1>6, <1>7, <1>8 DEF OutcomesKnown

LEMMA OutcomeStep == LogsInOrder /\ OutcomesKnown /\ [WebhookNext]_webhookVars => OutcomesKnown'
<1> SUFFICES ASSUME LogsInOrder, OutcomesKnown, [WebhookNext]_webhookVars PROVE OutcomesKnown'
  OBVIOUS
<1>0. /\ WebhookTypeOK /\ seen \in SeenRecord /\ seen' \in SeenRecord
      /\ task \in [Task -> TaskJob] /\ logs \in [Delivery -> {NoRow} \cup LogRow]
      /\ seen.faults \in Nat /\ NoTask.items = <<>> /\ 1..Len(NoTask.items) = {}
  <2>1. WebhookTypeOK /\ WebhookTypeOK'
    BY LogStep DEF LogsInOrder
  <2> QED BY <2>1 DEF WebhookTypeOK, SeenRecord, NoTask
<1>a. ASSUME NEW t \in Task, task[t].step # "idle"
      PROVE  /\ Item(t) \in WorkItem /\ Item(t).d \in Delivery /\ task[t].items # <<>>
             /\ Quiet => IF task[t].step \in {"create", "take", "post"} THEN Item(t).d \notin seen.received
                         ELSE Item(t).log.status = "delivered" <=> Item(t).d \in seen.received
  <2> DEFINE s == task[t].items
  <2>1. s # <<>> /\ s \in Seq(WorkItem)
    BY <1>0, <1>a DEF LogsInOrder, JobInOrder, TaskJob
  <2>2. Len(s) \in Nat \ {0} /\ Head(s) = s[1] /\ s[1] \in WorkItem /\ 1 \in 1..Len(s)
    BY <2>1
  <2> HIDE DEF s
  <2>3. Item(t) = s[1] /\ Item(t).d \in Delivery
    BY <2>2 DEF Item, s, WorkItem
  <2>4. Quiet => IF Ahead(task[t], 1) THEN s[1].d \notin seen.received
                 ELSE s[1].log.status = "delivered" <=> s[1].d \in seen.received
    BY <2>2 DEF OutcomesKnown, s
  <2> QED BY <2>1, <2>2, <2>3, <2>4 DEF Ahead, s
<1>1. CASE UNCHANGED webhookVars
  BY <1>1 DEF webhookVars, OutcomesKnown, Quiet, OneHolder, Held
<1>2. ASSUME NEW t \in Task, NEW d \in Delivery, Dispatch(t, d) PROVE OutcomesKnown'
  <2> SUFFICES ASSUME Quiet' PROVE OutcomesKnown'
    BY DEF OutcomesKnown
  <2> DEFINE item == [d |-> d, log |-> Pending, sub |-> sub, tried |-> FALSE]
             job == [step |-> "create", items |-> <<item>>]
  <2>1. /\ task[t] = NoTask /\ d \notin seen.sent
        /\ task' = [task EXCEPT ![t] = job] /\ logs' = logs
        /\ seen' = [seen EXCEPT !.sent = @ \cup {d}]
    BY <1>2 DEF Dispatch
  <2>2. /\ item.d = d /\ Len(<<item>>) = 1 /\ <<item>>[1] = item
        /\ job.items = <<item>> /\ job.step = "create"
    OBVIOUS
  <2> HIDE DEF item
  <2>3. Len(job.items) = 1 /\ job.items[1].d = d
    BY <2>2
  <2> HIDE DEF job
  <2>4. task'[t] = job /\ (\A u \in Task : u # t => task'[u] = task[u]) /\ 1..Len(task[t].items) = {}
    BY <1>0, <2>1
  <2>5. /\ seen'.overlapped = seen.overlapped /\ seen'.faults = seen.faults
        /\ seen'.received = seen.received /\ seen'.sent = seen.sent \cup {d}
    BY <1>0, <2>1 DEF SeenRecord
  <2>6. Quiet
    BY <2>5 DEF Quiet
  <2>7. /\ OneHolder
        /\ \A e \in Delivery \ seen.sent : logs[e] = NoRow /\ e \notin seen.received
        /\ \A u \in Task : \A i \in 1..Len(task[u].items) :
              /\ task[u].items[i].d \in seen.sent
              /\ IF Ahead(task[u], i) THEN task[u].items[i].d \notin seen.received
                 ELSE task[u].items[i].log.status = "delivered" <=> task[u].items[i].d \in seen.received
        /\ \A e \in Delivery : logs[e] # NoRow /\ ~Held(e) =>
              (logs[e].status = "delivered" <=> e \in seen.received)
    BY <2>6 DEF OutcomesKnown
  <2>8. OneHolder'
    BY <2>1, <2>3, <2>4, <2>7, SMTT(60) DEF OneHolder
  <2>9. \A e \in Delivery : Held(e) => Held(e)'
    BY <2>4 DEF Held
  <2>10. \A u \in Task : \A i \in 1..Len(task'[u].items) :
            /\ task'[u].items[i].d \in seen'.sent
            /\ IF Ahead(task'[u], i) THEN task'[u].items[i].d \notin seen'.received
               ELSE task'[u].items[i].log.status = "delivered" <=> task'[u].items[i].d \in seen'.received
    <3> SUFFICES ASSUME NEW u \in Task, NEW i \in 1..Len(task'[u].items)
        PROVE  /\ task'[u].items[i].d \in seen'.sent
               /\ IF Ahead(task'[u], i) THEN task'[u].items[i].d \notin seen'.received
                  ELSE task'[u].items[i].log.status = "delivered" <=> task'[u].items[i].d \in seen'.received
      OBVIOUS
    <3>1. CASE u = t
      <4>1. task'[u].items[i].d = d /\ Ahead(task'[u], i)
        BY <2>2, <2>3, <2>4, <3>1 DEF Ahead, job
      <4> QED BY <2>1, <2>5, <2>7, <4>1
    <3>2. CASE u # t
      BY <2>4, <2>5, <2>7, <3>2
    <3> QED BY <3>1, <3>2
  <2>11. \A e \in Delivery \ seen'.sent : logs'[e] = NoRow /\ e \notin seen'.received
    BY <2>1, <2>5, <2>7
  <2>12. \A e \in Delivery : logs'[e] # NoRow /\ ~Held(e)' =>
            (logs'[e].status = "delivered" <=> e \in seen'.received)
    BY <2>1, <2>5, <2>7, <2>9
  <2> QED BY <2>8, <2>10, <2>11, <2>12 DEF OutcomesKnown
<1>3. ASSUME NEW t \in Task, CreateLog(t) PROVE OutcomesKnown'
  <2>1. task[t].step = "create" /\ seen' = seen
    BY <1>3 DEF CreateLog
  <2>2. CASE sub = NoRow /\ NextItem(t) /\ logs' = logs
    <3>1. logs'[Item(t).d] = NoRow
      BY <1>a, <2>1, <2>2 DEF LogsInOrder
    <3>2. task[t].step # "idle"
      BY <2>1
    <3> QED BY <2>1, <2>2, <3>1, <3>2, OutcomeEnds
  <2>3. CASE logs' = [logs EXCEPT ![Item(t).d] = Pending] /\ With(t, "post", Item(t))
    <3>1. /\ task[t].step # "idle" /\ "post" \in TaskSteps /\ (Quiet' => Quiet)
          /\ Item(t) \in WorkItem /\ (Quiet => Item(t).d \notin seen'.received)
          /\ \A e \in Delivery : e # Item(t).d => logs'[e] = logs[e]
      BY <1>0, <1>a, <2>1, <2>3 DEF TaskSteps, Quiet
    <3> QED BY <2>1, <2>3, <3>1, OutcomeGoes
  <2> QED BY <1>3, <2>2, <2>3 DEF CreateLog
<1>4. ASSUME NEW t \in Task, PostOk(t) PROVE OutcomesKnown'
  <2> DEFINE once == Attempted(t)
             item == [once EXCEPT !.log.status = "delivered"]
             zero == [item EXCEPT !.sub.failures = 0]
  <2>1. task[t].step # "idle"
    BY <1>4 DEF PostOk
  <2>2. Item(t) \in WorkItem
    BY <1>a, <2>1
  <2>3. once \in WorkItem /\ once.d = Item(t).d
    BY <2>2, Copies DEF Attempted
  <2>4. /\ seen' = [seen EXCEPT !.received = @ \cup {item.d}] /\ logs' = logs
        /\ With(t, "saveSub", zero) \/ With(t, "saveLog", item)
    BY <1>4 DEF PostOk
  <2> HIDE DEF once
  <2>5. item \in WorkItem /\ item.d = once.d /\ item.log.status = "delivered"
    BY <2>3, Copies
  <2> HIDE DEF item
  <2>6. zero \in WorkItem /\ zero.d = item.d /\ zero.log = item.log
    BY <2>5, Copies
  <2> HIDE DEF zero
  <2>7. /\ seen'.overlapped = seen.overlapped /\ seen'.faults = seen.faults /\ seen'.sent = seen.sent
        /\ seen'.received = seen.received \cup {item.d}
    BY <1>0, <2>4 DEF SeenRecord
  <2>8. /\ {"saveSub", "saveLog"} \subseteq TaskSteps
        /\ Quiet' => Quiet
        /\ item.d \in seen'.received
        /\ \A e \in Delivery : e # item.d =>
              logs'[e] = logs[e] /\ (e \in seen'.received <=> e \in seen.received)
    BY <2>4, <2>7 DEF TaskSteps, Quiet
  <2>9. CASE With(t, "saveSub", zero)
    <3>1. /\ "saveSub" \in TaskSteps /\ zero.d = Item(t).d /\ zero.log.status = "delivered"
          /\ zero.d \in seen'.received
          /\ \A e \in Delivery : e # zero.d =>
                logs'[e] = logs[e] /\ (e \in seen'.received <=> e \in seen.received)
      BY <2>3, <2>5, <2>6, <2>8
    <3> QED BY <2>1, <2>6, <2>7, <2>8, <2>9, <3>1, OutcomeGoes
  <2>10. CASE With(t, "saveLog", item)
    <3>1. "saveLog" \in TaskSteps /\ item.d = Item(t).d
      BY <2>3, <2>5, <2>8
    <3> QED BY <2>1, <2>5, <2>7, <2>8, <2>10, <3>1, OutcomeGoes
  <2> QED BY <2>4, <2>9, <2>10
\* An attempt that failed.
<1>b. ASSUME NEW t \in Task, task[t].step = "post", NEW step \in {"saveSub", "saveLog"},
             NEW item \in WorkItem, With(t, step, item), item.d = Item(t).d, logs' = logs,
             item.log.status # "delivered", seen'.overlapped = seen.overlapped,
             seen'.faults = seen.faults, seen'.sent = seen.sent, seen'.received = seen.received
      PROVE  OutcomesKnown'
  <2>1. /\ task[t].step # "idle" /\ step \in TaskSteps /\ step \notin {"create", "take", "post"}
        /\ Quiet' => Quiet
        /\ Quiet => item.d \notin seen'.received
    BY <1>a, <1>b DEF TaskSteps, Quiet
  <2> QED BY <1>b, <2>1, OutcomeGoes
<1>5. ASSUME NEW t \in Task, NEW answered \in BOOLEAN, PostFails(t, answered) PROVE OutcomesKnown'
  <2> DEFINE once == Attempted(t)
             item == [once EXCEPT !.tried = ~answered]
  <2>1. task[t].step = "post"
    BY <1>5 DEF PostFails
  <2>2. Item(t) \in WorkItem
    BY <1>a, <2>1
  <2>3. once \in WorkItem /\ once.d = Item(t).d
    BY <2>2, Copies DEF Attempted
  <2>4. /\ logs' = logs
        /\ \/ With(t, "saveSub", Exhausted(item)) /\ seen' = [seen EXCEPT !.exhausted = @ + 1]
           \/ With(t, "saveLog", Retrying(item)) /\ seen' = seen
    BY <1>5 DEF PostFails, ScheduleRetry
  <2> HIDE DEF once
  <2>5. item \in WorkItem /\ item.d = once.d
    BY <2>3 DEF WorkItem
  <2> HIDE DEF item
  <2>6. /\ Exhausted(item) \in WorkItem /\ Exhausted(item).d = item.d
        /\ Exhausted(item).log.status # "delivered"
        /\ Retrying(item) \in WorkItem /\ Retrying(item).d = item.d
        /\ Retrying(item).log.status # "delivered"
    BY <2>5, Copies
  <2>7. /\ seen'.overlapped = seen.overlapped /\ seen'.faults = seen.faults
        /\ seen'.sent = seen.sent /\ seen'.received = seen.received
    BY <1>0, <2>4 DEF SeenRecord
  <2>8. CASE With(t, "saveSub", Exhausted(item))
    <3>1. "saveSub" \in {"saveSub", "saveLog"} /\ Exhausted(item).d = Item(t).d
      BY <2>3, <2>5, <2>6
    <3> QED BY <1>b, <2>1, <2>4, <2>6, <2>7, <2>8, <3>1
  <2>9. CASE With(t, "saveLog", Retrying(item))
    <3>1. "saveLog" \in {"saveSub", "saveLog"} /\ Retrying(item).d = Item(t).d
      BY <2>3, <2>5, <2>6
    <3> QED BY <1>b, <2>1, <2>4, <2>6, <2>7, <2>9, <3>1
  <2> QED BY <2>4, <2>8, <2>9
<1>6. ASSUME seen' = [seen EXCEPT !.faults = @ + 1] PROVE OutcomesKnown'
  <2>1. seen'.faults # 0
    BY <1>0, <1>6 DEF SeenRecord
  <2> QED BY <2>1 DEF OutcomesKnown, Quiet
<1>7. ASSUME NEW t \in Task, SaveSub(t) PROVE OutcomesKnown'
  <2>1. /\ task[t].step = "saveSub" /\ With(t, "saveLog", Item(t)) /\ logs' = logs /\ seen' = seen
    BY <1>7 DEF SaveSub
  <2>2. /\ task[t].step # "idle" /\ "saveLog" \in TaskSteps /\ Item(t) \in WorkItem
        /\ Quiet' => Quiet
        /\ Quiet => (Item(t).log.status = "delivered" <=> Item(t).d \in seen'.received)
    BY <1>a, <2>1 DEF TaskSteps, Quiet
  <2> QED BY <2>1, <2>2, OutcomeGoes
<1>8. ASSUME NEW t \in Task, SaveDeliveryLog(t) PROVE OutcomesKnown'
  <2>1. /\ task[t].step = "saveLog" /\ NextItem(t) /\ seen' = seen
        /\ logs' = IF sub = NoRow THEN logs ELSE [logs EXCEPT ![Item(t).d] = Item(t).log]
    BY <1>8 DEF SaveDeliveryLog
  <2>2. task[t].step # "idle" /\ task[t].step \notin {"create", "take", "post"}
    BY <2>1
  <2>3. Item(t).d \in Delivery
        /\ (Quiet => (Item(t).log.status = "delivered" <=> Item(t).d \in seen.received))
    BY <1>a, <2>2
  <2>4. \A e \in Delivery : e # Item(t).d => logs'[e] = logs[e]
    BY <1>0, <2>1
  <2>5. logs'[Item(t).d] # NoRow => logs'[Item(t).d] = Item(t).log
    BY <1>0, <2>1, <2>3 DEF LogsInOrder
  <2> QED BY <2>1, <2>2, <2>3, <2>4, <2>5, OutcomeEnds
<1>9. ASSUME NEW t \in Task, BeginRetry(t) PROVE OutcomesKnown'
  <2> DEFINE closing == [Item(t) EXCEPT !.log.status = "exhausted"]
  <2>1. /\ task[t].step = "take" /\ logs' = logs
        /\ \/ With(t, "post", Item(t)) /\ seen' = seen
           \/ With(t, "saveLog", closing) /\ seen' = [seen EXCEPT !.closed = @ \cup {Item(t).d}]
    BY <1>9 DEF BeginRetry
  <2>2. task[t].step # "idle" /\ Item(t) \in WorkItem /\ (Quiet => Item(t).d \notin seen.received)
    BY <1>a, <2>1
  <2>3. closing \in WorkItem /\ closing.d = Item(t).d /\ closing.log.status = "exhausted"
    BY <2>2, Copies
  <2> HIDE DEF closing
  <2>4. /\ seen'.overlapped = seen.overlapped /\ seen'.faults = seen.faults
        /\ seen'.sent = seen.sent /\ seen'.received = seen.received
    BY <1>0, <2>1 DEF SeenRecord
  <2>5. {"post", "saveLog"} \subseteq TaskSteps /\ (Quiet' => Quiet)
    BY <2>4 DEF TaskSteps, Quiet
  <2>6. CASE With(t, "post", Item(t))
    <3>1. "post" \in TaskSteps /\ (Quiet => Item(t).d \notin seen'.received)
      BY <2>2, <2>4, <2>5
    <3> QED BY <2>1, <2>2, <2>4, <2>5, <2>6, <3>1, OutcomeGoes
  <2>7. CASE With(t, "saveLog", closing)
    <3>1. /\ "saveLog" \in TaskSteps
          /\ Quiet => (closing.log.status = "delivered" <=> closing.d \in seen'.received)
      BY <2>2, <2>3, <2>4, <2>5
    <3> QED BY <2>1, <2>2, <2>3, <2>4, <2>5, <2>7, <3>1, OutcomeGoes
  <2> QED BY <2>1, <2>6, <2>7
<1>10. ASSUME NEW t \in Task, WebhookRound(t) PROVE OutcomesKnown'
  <2> SUFFICES ASSUME Quiet' PROVE OutcomesKnown'
    BY DEF OutcomesKnown
  <2> DEFINE due == SetToSeq(DueRetries)
             items == [i \in DOMAIN due |-> [d |-> due[i], log |-> logs[due[i]], sub |-> sub,
                                             tried |-> FALSE]]
             job == [step |-> "take", items |-> items]
             met == \E d \in DueRetries : Holders(d) # {}
  <2>1. /\ task' = [task EXCEPT ![t] = job] /\ logs' = logs /\ task[t] = NoTask
        /\ seen' = [seen EXCEPT !.overlapped = seen.overlapped \/ met]
    BY <1>10 DEF WebhookRound
  <2>2. /\ seen'.overlapped = (seen.overlapped \/ met) /\ seen'.faults = seen.faults
        /\ seen'.received = seen.received /\ seen'.sent = seen.sent
    <3> HIDE DEF met
    <3> QED BY <1>0, <2>1 DEF SeenRecord
  <2>3. Quiet /\ ~met
    BY <2>2 DEF Quiet
  <2>4. \A d \in DueRetries : ~Held(d)
    <3> SUFFICES ASSUME NEW d \in DueRetries, NEW u \in Task, NEW i \in 1..Len(task[u].items),
                        task[u].items[i].d = d
                 PROVE  FALSE
      BY DEF Held
    <3>1. task[u].items \in Seq(WorkItem)
      BY <1>0 DEF TaskJob
    <3>2. i \in DOMAIN task[u].items
      BY <3>1
    <3>3. u \in Holders(d)
      BY <3>2 DEF Holders
    <3> QED BY <2>3, <3>3
  <2>5. /\ OneHolder
        /\ \A e \in Delivery \ seen.sent : logs[e] = NoRow /\ e \notin seen.received
        /\ \A u \in Task : \A i \in 1..Len(task[u].items) :
              /\ task[u].items[i].d \in seen.sent
              /\ IF Ahead(task[u], i) THEN task[u].items[i].d \notin seen.received
                 ELSE task[u].items[i].log.status = "delivered" <=> task[u].items[i].d \in seen.received
        /\ \A e \in Delivery : logs[e] # NoRow /\ ~Held(e) =>
              (logs[e].status = "delivered" <=> e \in seen.received)
    BY <2>3 DEF OutcomesKnown
  <2>6. ASSUME NEW d \in DueRetries
        PROVE  d \in Delivery /\ d \in seen.sent /\ d \notin seen.received
    <3>1. d \in Delivery /\ logs[d].status = "retrying" /\ logs[d] # NoRow
      BY DEF DueRetries, NoRow
    <3> QED BY <2>4, <2>5, <3>1
  <2>7. IsFiniteSet(DueRetries)
    BY WebhookAssumption, FS_Subset DEF DueRetries
  <2>8. /\ due \in Seq(DueRetries) /\ DOMAIN due = 1..Len(due)
        /\ \A i, j \in 1..Len(due) : due[i] = due[j] => i = j
    BY <2>7, Listed
  <2> HIDE DEF due
  <2>9. DOMAIN items = 1..Len(due) /\ Len(due) \in Nat /\ \A i \in 1..Len(due) : items[i].d = due[i]
    BY <2>8
  <2>10. Len(items) = Len(due)
    BY <2>8, <2>9, LenProperties
  <2> HIDE DEF items
  <2>11. job.items = items /\ job.step = "take"
    OBVIOUS
  <2> HIDE DEF job
  <2>12. Len(job.items) = Len(due) /\ \A i \in 1..Len(due) : job.items[i].d = due[i] /\ due[i] \in DueRetries
    BY <2>8, <2>9, <2>10, <2>11
  <2>13. task'[t] = job /\ (\A u \in Task : u # t => task'[u] = task[u]) /\ 1..Len(task[t].items) = {}
    BY <1>0, <2>1
  <2>14. OneHolder'
    <3> SUFFICES ASSUME NEW u \in Task, NEW v \in Task,
                        NEW i \in 1..Len(task'[u].items), NEW j \in 1..Len(task'[v].items),
                        task'[u].items[i].d = task'[v].items[j].d
                 PROVE  u = v /\ i = j
      BY DEF OneHolder
    <3>1. CASE u = t /\ v = t
      BY <2>8, <2>12, <2>13, <3>1
    <3>2. CASE u # t /\ v # t
      <4>1. /\ i \in 1..Len(task[u].items) /\ j \in 1..Len(task[v].items)
            /\ task[u].items[i].d = task[v].items[j].d
        BY <2>13, <3>2
      <4> QED BY <2>5, <4>1, SMTT(60) DEF OneHolder
    <3>3. CASE u = t /\ v # t
      BY <2>4, <2>12, <2>13, <3>3 DEF Held
    <3>4. CASE u # t /\ v = t
      BY <2>4, <2>12, <2>13, <3>4 DEF Held
    <3> QED BY <3>1, <3>2, <3>3, <3>4
  <2>15. \A e \in Delivery : Held(e) => Held(e)'
    BY <2>13 DEF Held
  <2>16. \A u \in Task : \A i \in 1..Len(task'[u].items) :
            /\ task'[u].items[i].d \in seen'.sent
            /\ IF Ahead(task'[u], i) THEN task'[u].items[i].d \notin seen'.received
               ELSE task'[u].items[i].log.status = "delivered" <=> task'[u].items[i].d \in seen'.received
    <3> SUFFICES ASSUME NEW u \in Task, NEW i \in 1..Len(task'[u].items)
        PROVE  /\ task'[u].items[i].d \in seen'.sent
               /\ IF Ahead(task'[u], i) THEN task'[u].items[i].d \notin seen'.received
                  ELSE task'[u].items[i].log.status = "delivered" <=> task'[u].items[i].d \in seen'.received
      OBVIOUS
    <3>1. CASE u = t
      <4>1. task'[u].items[i].d \in DueRetries /\ Ahead(task'[u], i)
        BY <2>11, <2>12, <2>13, <3>1 DEF Ahead
      <4> QED BY <2>2, <2>6, <4>1
    <3>2. CASE u # t
      BY <2>2, <2>5, <2>13, <3>2
    <3> QED BY <3>1, <3>2
  <2>17. \A e \in Delivery \ seen'.sent : logs'[e] = NoRow /\ e \notin seen'.received
    BY <2>1, <2>2, <2>5
  <2>18. \A e \in Delivery : logs'[e] # NoRow /\ ~Held(e)' =>
            (logs'[e].status = "delivered" <=> e \in seen'.received)
    BY <2>1, <2>2, <2>5, <2>15
  <2> QED BY <2>14, <2>16, <2>17, <2>18 DEF OutcomesKnown
\* The tasks go on as they are: only marks of rows change, or the rows go.
<1>c. ASSUME task' = task, \A e \in Delivery : logs'[e] # NoRow =>
                              logs[e] # NoRow /\ logs'[e].status = logs[e].status,
             seen'.overlapped = seen.overlapped, seen'.faults = seen.faults,
             seen'.sent = seen.sent, seen'.received = seen.received
      PROVE  OutcomesKnown'
  BY <1>c DEF OutcomesKnown, Quiet, OneHolder, Held
<1>11. ASSUME NEW d \in Delivery, Elapse(d) PROVE OutcomesKnown'
  <2>1. /\ logs[d].status = "retrying" /\ task' = task /\ seen' = seen
        /\ logs' = [logs EXCEPT ![d].due = TRUE]
    BY <1>11 DEF Elapse
  <2>2. logs[d] # NoRow
    BY <2>1 DEF NoRow
  <2>3. logs[d] \in LogRow
    BY <2>2, LogsOfNoRow
  <2> DEFINE now == [logs[d] EXCEPT !.due = TRUE]
  <2>4. now.status = logs[d].status
    BY <2>3 DEF LogRow
  <2>5. logs' = [logs EXCEPT ![d] = now]
    BY <1>0, <2>1
  <2> HIDE DEF now
  <2>6. \A e \in Delivery : logs'[e] # NoRow => logs[e] # NoRow /\ logs'[e].status = logs[e].status
    BY <1>0, <2>2, <2>4, <2>5
  <2> QED BY <1>c, <2>1, <2>6
<1>12. ASSUME NEW url \in {1, 2}, NEW active \in BOOLEAN, ReadForEdit(url, active)
       PROVE  OutcomesKnown'
  <2>1. task' = task /\ logs' = logs /\ seen' = [seen EXCEPT !.edits = @ + 1, !.raced = Races]
    BY <1>12 DEF ReadForEdit
  <2>2. /\ seen'.overlapped = seen.overlapped /\ seen'.faults = seen.faults
        /\ seen'.sent = seen.sent /\ seen'.received = seen.received
    BY <1>0, <2>1 DEF SeenRecord
  <2> QED BY <1>c, <2>1, <2>2
<1>13. CASE SaveEdit
  <2>1. task' = task /\ logs' = logs /\ seen' = [seen EXCEPT !.raced = Races, !.url = edit.url]
    BY <1>13 DEF SaveEdit
  <2>2. /\ seen'.overlapped = seen.overlapped /\ seen'.faults = seen.faults
        /\ seen'.sent = seen.sent /\ seen'.received = seen.received
    BY <1>0, <2>1 DEF SeenRecord
  <2> QED BY <1>c, <2>1, <2>2
<1>14. CASE Delete
  <2> DEFINE raced == Races \/ edit # NoRow
  <2>1. /\ task' = task /\ logs' = [d \in Delivery |-> NoRow]
        /\ seen' = [seen EXCEPT !.edits = @ + 1, !.raced = raced, !.url = 0]
    BY <1>14 DEF Delete
  <2>2. /\ seen'.overlapped = seen.overlapped /\ seen'.faults = seen.faults
        /\ seen'.sent = seen.sent /\ seen'.received = seen.received
    BY <1>0, <2>1 DEF SeenRecord
  <2>3. \A e \in Delivery : logs'[e] = NoRow
    BY <2>1
  <2> QED BY <1>c, <2>1, <2>2, <2>3
<1>15. ASSUME NEW t \in Task, SaveSubFails(t) PROVE OutcomesKnown'
  BY <1>6, <1>15 DEF SaveSubFails
<1>16. CASE RestartDispatcher
  BY <1>6, <1>16 DEF RestartDispatcher
<1> QED BY <1>1, <1>2, <1>3, <1>4, <1>5, <1>7, <1>8, <1>9, <1>10, <1>11, <1>12, <1>13, <1>14,
           <1>15, <1>16 DEF WebhookNext, TaskStep

LEMMA WebhooksSound ==
  LogsInOrder /\ OutcomesKnown /\ FailuresCounted /\ TargetKept
    => AttemptsAreLimited /\ StatusTellsOutcome /\ FailuresHappened /\ OwnersWordStands
<1> SUFFICES ASSUME LogsInOrder, OutcomesKnown, FailuresCounted, TargetKept
             PROVE  AttemptsAreLimited /\ StatusTellsOutcome /\ FailuresHappened /\ OwnersWordStands
  OBVIOUS
<1>1. AttemptsAreLimited
  BY DEF LogsInOrder, AttemptsAreLimited, Limited
<1>2. StatusTellsOutcome
  <2>1. ASSUME NEW d \in Delivery, Holders(d) = {} PROVE ~Held(d)
    BY <2>1 DEF Holders, Held, LogsInOrder, WebhookTypeOK, TaskJob
  <2> QED BY <2>1 DEF OutcomesKnown, StatusTellsOutcome, Quiet
<1>3. FailuresHappened
  BY DEF FailuresCounted, FailuresHappened
<1>4. OwnersWordStands
  BY DEF TargetKept, OwnersWordStands
<1> QED BY <1>1, <1>2, <1>3, <1>4

-----------------------------------------------------------------------------
(* Mails (notification-queue.ts).                                          *)

MailItem == [mail : Mail, attempts : Nat]
MailTypeOK ==
    /\ queue \in Seq(MailItem) /\ batch \in Seq(MailItem) /\ mailed \in Seq(Mail)
    /\ processing \in BOOLEAN /\ dropped \subseteq Mail

\* The inductive invariant of the queue: a mail is in one place only, once, and has
\* tries left; nothing is out of the queue but during a flush.
MailsInOrder ==
    /\ MailTypeOK
    /\ ~processing => batch = <<>>
    /\ \A i, j \in 1..Len(queue) : queue[i].mail = queue[j].mail => i = j
    /\ \A i, j \in 1..Len(batch) : batch[i].mail = batch[j].mail => i = j
    /\ \A i, j \in 1..Len(mailed) : mailed[i] = mailed[j] => i = j
    /\ \A i \in 1..Len(queue), j \in 1..Len(batch) : queue[i].mail # batch[j].mail
    /\ \A i \in 1..Len(queue), j \in 1..Len(mailed) : queue[i].mail # mailed[j]
    /\ \A i \in 1..Len(batch), j \in 1..Len(mailed) : batch[i].mail # mailed[j]
    /\ \A i \in 1..Len(queue) : queue[i].mail \notin dropped /\ queue[i].attempts < MaxTries
    /\ \A i \in 1..Len(batch) : batch[i].mail \notin dropped /\ batch[i].attempts < MaxTries
    /\ \A i \in 1..Len(mailed) : mailed[i] \notin dropped

-----------------------------------------------------------------------------

\* What a sequence holds with one element more.
LEMMA Appended ==
  ASSUME NEW S, NEW s \in Seq(S), NEW e \in S
  PROVE  /\ Append(s, e) \in Seq(S) /\ Len(Append(s, e)) = Len(s) + 1 /\ Len(s) \in Nat
         /\ \A i \in 1..Len(s) + 1 : Append(s, e)[i] = IF i <= Len(s) THEN s[i] ELSE e
  BY AppendProperties, LenProperties

LEMMA MailsInitially == NotifyInit => MailsInOrder
<1> SUFFICES ASSUME NotifyInit PROVE MailsInOrder
  OBVIOUS
<1>1. /\ queue = <<>> /\ batch = <<>> /\ processing = FALSE /\ mailed = <<>> /\ dropped = {}
  BY DEF NotifyInit
<1>2. 1..Len(queue) = {} /\ 1..Len(batch) = {} /\ 1..Len(mailed) = {}
  BY <1>1
<1>3. MailTypeOK
  <2>1. queue \in Seq(MailItem) /\ batch \in Seq(MailItem) /\ mailed \in Seq(Mail) /\ dropped \subseteq Mail
    BY <1>1
  <2>2. processing \in BOOLEAN
    BY <1>1
  <2> QED BY <2>1, <2>2 DEF MailTypeOK
<1> QED BY <1>1, <1>2, <1>3 DEF MailsInOrder

LEMMA MailStep == MailsInOrder /\ [MailNext \/ SweepNext]_notifyVars => MailsInOrder'
<1> SUFFICES ASSUME MailsInOrder, [MailNext \/ SweepNext]_notifyVars PROVE MailsInOrder'
  OBVIOUS
<1>0. /\ queue \in Seq(MailItem) /\ batch \in Seq(MailItem) /\ mailed \in Seq(Mail)
      /\ processing \in BOOLEAN /\ dropped \subseteq Mail
      /\ MaxTries \in Nat \ {0} /\ BatchSize \in Nat \ {0}
      /\ Len(queue) \in Nat /\ Len(batch) \in Nat /\ Len(mailed) \in Nat
  BY NotificationsAssumption DEF MailsInOrder, MailTypeOK
<1>1. CASE UNCHANGED mailVars
  BY <1>1 DEF mailVars, MailsInOrder, MailTypeOK
<1>2. ASSUME NEW m \in Mail, Enqueue(m) PROVE MailsInOrder'
  <2> DEFINE item == [mail |-> m, attempts |-> 0]
  <2>1. /\ queue' = Append(queue, item) /\ UNCHANGED <<batch, processing, mailed, dropped>>
        /\ ~Known(m)
    BY <1>2 DEF Enqueue
  <2>2. /\ \A i \in 1..Len(queue) : queue[i].mail # m
        /\ \A i \in 1..Len(batch) : batch[i].mail # m
        /\ \A i \in 1..Len(mailed) : mailed[i] # m
        /\ m \notin dropped
    BY <1>0, <2>1 DEF Known, ToSet
  <2>3. item \in MailItem /\ item.mail = m /\ item.attempts = 0
    BY DEF MailItem
  <2> HIDE DEF item
  <2>4. /\ queue' \in Seq(MailItem) /\ Len(queue') = Len(queue) + 1
        /\ \A i \in 1..Len(queue) + 1 : queue'[i] = IF i <= Len(queue) THEN queue[i] ELSE item
    BY <1>0, <2>1, <2>3, Appended
  <2>5. \A i \in 1..Len(queue') : \/ i \in 1..Len(queue) /\ queue'[i] = queue[i]
                                  \/ i = Len(queue) + 1 /\ queue'[i] = item
    BY <1>0, <2>4
  <2> QED BY <1>0, <2>1, <2>2, <2>3, <2>4, <2>5, SMTT(60) DEF MailsInOrder, MailTypeOK
<1>3. CASE Flush
  <2> DEFINE n == IF Len(queue) < BatchSize THEN Len(queue) ELSE BatchSize
  <2>1. /\ batch' = SubSeq(queue, 1, n) /\ queue' = SubSeq(queue, n + 1, Len(queue))
        /\ processing' = TRUE /\ UNCHANGED <<mailed, dropped>>
    BY <1>3 DEF Flush
  <2>2. n \in Nat /\ n <= Len(queue)
    BY <1>0
  <2> HIDE DEF n
  <2>3. \A i \in 1..Len(queue) : queue[i] \in MailItem
    BY <1>0
  <2>4. /\ batch' \in Seq(MailItem) /\ Len(batch') = n
        /\ \A i \in 1..n : batch'[i] = queue[i]
    <3>1. \A i \in 1..n : queue[i] \in MailItem
      BY <2>2, <2>3
    <3>2. /\ batch' \in Seq(MailItem) /\ Len(batch') = (IF 1 <= n THEN n - 1 + 1 ELSE 0)
          /\ \A i \in 1..n - 1 + 1 : batch'[i] = queue[1 + i - 1]
      BY <2>1, <2>2, <3>1, SubSeqProperties
    <3> QED BY <2>2, <3>2
  <2>5. /\ queue' \in Seq(MailItem) /\ Len(queue') = Len(queue) - n
        /\ \A i \in 1..Len(queue) - n : queue'[i] = queue[n + i]
    <3>1. \A i \in n + 1..Len(queue) : queue[i] \in MailItem
      BY <2>2, <2>3
    <3>2. n + 1 \in Int /\ Len(queue) \in Int
      BY <1>0, <2>2
    <3>3. /\ queue' \in Seq(MailItem)
          /\ Len(queue') = (IF n + 1 <= Len(queue) THEN Len(queue) - (n + 1) + 1 ELSE 0)
          /\ \A i \in 1..Len(queue) - (n + 1) + 1 : queue'[i] = queue[(n + 1) + i - 1]
      BY <2>1, <3>1, <3>2, SubSeqProperties
    <3> QED BY <1>0, <2>2, <3>3
  <2>6. \A i \in 1..Len(batch') : i \in 1..Len(queue) /\ i <= n /\ batch'[i] = queue[i]
    BY <1>0, <2>2, <2>4
  <2>7. \A i \in 1..Len(queue') : n + i \in 1..Len(queue) /\ n + i > n /\ queue'[i] = queue[n + i]
    BY <1>0, <2>2, <2>5
  <2>8. /\ \A i, j \in 1..Len(queue') : queue'[i].mail = queue'[j].mail => i = j
        /\ \A i, j \in 1..Len(batch') : batch'[i].mail = batch'[j].mail => i = j
        /\ \A i \in 1..Len(queue'), j \in 1..Len(batch') : queue'[i].mail # batch'[j].mail
    <3>1. ASSUME NEW i \in 1..Len(queue'), NEW j \in 1..Len(queue'), queue'[i].mail = queue'[j].mail
          PROVE  i = j
      <4>1. n + i = n + j
        BY <2>7, <3>1 DEF MailsInOrder
      <4> QED BY <2>2, <4>1
    <3>2. ASSUME NEW i \in 1..Len(queue'), NEW j \in 1..Len(batch'), queue'[i].mail = batch'[j].mail
          PROVE  FALSE
      <4>1. n + i = j
        BY <2>6, <2>7, <3>2 DEF MailsInOrder
      <4> QED BY <2>2, <2>6, <4>1
    <3> QED BY <2>6, <3>1, <3>2 DEF MailsInOrder
  <2>9. /\ \A i \in 1..Len(queue'), j \in 1..Len(mailed) : queue'[i].mail # mailed[j]
        /\ \A i \in 1..Len(batch'), j \in 1..Len(mailed) : batch'[i].mail # mailed[j]
    BY <2>6, <2>7 DEF MailsInOrder
  <2>10. /\ \A i \in 1..Len(queue') : queue'[i].mail \notin dropped /\ queue'[i].attempts < MaxTries
         /\ \A i \in 1..Len(batch') : batch'[i].mail \notin dropped /\ batch'[i].attempts < MaxTries
    BY <2>6, <2>7 DEF MailsInOrder
  <2>11. MailTypeOK'
    BY <1>0, <2>1, <2>4, <2>5 DEF MailTypeOK
  <2>12. /\ \A i, j \in 1..Len(mailed) : mailed[i] = mailed[j] => i = j
         /\ \A i \in 1..Len(mailed) : mailed[i] \notin dropped
    BY DEF MailsInOrder
  <2> QED BY <2>1, <2>8, <2>9, <2>10, <2>11, <2>12, ZenonT(60) DEF MailsInOrder
\* A mail is taken off the batch.
<1>a. ASSUME batch # <<>>, batch' = Tail(batch)
      PROVE  /\ Head(batch) \in MailItem /\ Head(batch) = batch[1] /\ 1 \in 1..Len(batch)
             /\ batch' \in Seq(MailItem) /\ processing
             /\ \A i \in 1..Len(batch') : /\ i + 1 \in 1..Len(batch) /\ batch'[i] = batch[i + 1]
                                          /\ batch'[i].mail # batch[1].mail
             /\ \A i, j \in 1..Len(batch') : batch'[i].mail = batch'[j].mail => i = j
  <2>1. /\ Head(batch) \in MailItem /\ Head(batch) = batch[1] /\ Len(batch) \in Nat \ {0}
        /\ batch' \in Seq(MailItem) /\ Len(batch') = Len(batch) - 1
        /\ \A i \in 1..Len(batch') : batch'[i] = batch[i + 1]
    BY <1>0, <1>a, HeadTailProperties
  <2>2. \A i \in 1..Len(batch') : i + 1 \in 1..Len(batch) /\ i + 1 # 1 /\ batch'[i] = batch[i + 1]
    BY <2>1
  <2>3. 1 \in 1..Len(batch) /\ processing
    BY <1>a, <2>1 DEF MailsInOrder
  <2>4. \A i, j \in 1..Len(batch') : batch'[i].mail = batch'[j].mail => i + 1 = j + 1
    BY <2>2 DEF MailsInOrder
  <2>5. \A i \in 1..Len(batch') : batch'[i].mail # batch[1].mail
    BY <2>2, <2>3 DEF MailsInOrder
  <2>6. \A i, j \in 1..Len(batch') : batch'[i].mail = batch'[j].mail => i = j
    BY <2>4
  <2> QED BY <2>1, <2>2, <2>3, <2>5, <2>6
<1>4. CASE SendOk
  <2>1. /\ batch # <<>> /\ batch' = Tail(batch) /\ UNCHANGED <<queue, processing, dropped>>
        /\ mailed' = Append(mailed, Head(batch).mail)
    BY <1>4 DEF SendOk
  <2>2. Head(batch).mail \in Mail /\ Head(batch).mail = batch[1].mail /\ 1 \in 1..Len(batch)
    BY <1>a, <2>1 DEF MailItem
  <2>3. /\ mailed' \in Seq(Mail) /\ Len(mailed') = Len(mailed) + 1
        /\ \A i \in 1..Len(mailed) + 1 :
              mailed'[i] = IF i <= Len(mailed) THEN mailed[i] ELSE batch[1].mail
    BY <1>0, <2>1, <2>2, Appended
  <2>4. \A i \in 1..Len(mailed') : \/ i \in 1..Len(mailed) /\ mailed'[i] = mailed[i]
                                   \/ i = Len(mailed) + 1 /\ mailed'[i] = batch[1].mail
    BY <1>0, <2>3
  <2>5. \A i, j \in 1..Len(mailed') : mailed'[i] = mailed'[j] => i = j
    <3>1. \A i \in 1..Len(mailed) : mailed[i] # batch[1].mail
      BY <2>2 DEF MailsInOrder
    <3>2. \A i, j \in 1..Len(mailed) : mailed[i] = mailed[j] => i = j
      BY DEF MailsInOrder
    <3> QED BY <2>4, <3>1, <3>2
  <2>6. \A i \in 1..Len(batch'), j \in 1..Len(mailed') : batch'[i].mail # mailed'[j]
    <3>1. \A i \in 1..Len(batch') : batch'[i].mail # batch[1].mail
      BY <1>a, <2>1
    <3>2. \A i \in 1..Len(batch'), j \in 1..Len(mailed) : batch'[i].mail # mailed[j]
      BY <1>a, <2>1 DEF MailsInOrder
    <3> QED BY <2>4, <3>1, <3>2
  <2>7. \A i \in 1..Len(queue), j \in 1..Len(mailed') : queue[i].mail # mailed'[j]
    <3>1. \A i \in 1..Len(queue) : queue[i].mail # batch[1].mail
      BY <2>2 DEF MailsInOrder
    <3>2. \A i \in 1..Len(queue), j \in 1..Len(mailed) : queue[i].mail # mailed[j]
      BY DEF MailsInOrder
    <3> QED BY <2>4, <3>1, <3>2
  <2>8. \A i \in 1..Len(mailed') : mailed'[i] \notin dropped
    <3>1. batch[1].mail \notin dropped /\ \A i \in 1..Len(mailed) : mailed[i] \notin dropped
      BY <2>2 DEF MailsInOrder
    <3> QED BY <2>4, <3>1
  <2>9. \A i \in 1..Len(queue), j \in 1..Len(batch') : queue[i].mail # batch'[j].mail
    BY <1>a, <2>1 DEF MailsInOrder
  <2>10. \A i \in 1..Len(batch') : batch'[i].mail \notin dropped /\ batch'[i].attempts < MaxTries
    BY <1>a, <2>1 DEF MailsInOrder
  <2>11. batch' \in Seq(MailItem) /\ processing
    BY <1>a, <2>1
  <2>12. \A i, j \in 1..Len(batch') : batch'[i].mail = batch'[j].mail => i = j
    BY <1>a, <2>1
  <2> QED BY <1>0, <2>1, <2>3, <2>5, <2>6, <2>7, <2>8, <2>9, <2>10, <2>11, <2>12
          DEF MailsInOrder, MailTypeOK
<1>5. CASE SendFails
  <2> DEFINE item == [Head(batch) EXCEPT !.attempts = @ + 1]
  <2>1. /\ batch # <<>> /\ batch' = Tail(batch) /\ UNCHANGED <<processing, mailed>>
        /\ \/ item.attempts < MaxTries /\ queue' = Append(queue, item) /\ dropped' = dropped
           \/ dropped' = dropped \cup {item.mail} /\ queue' = queue
    BY <1>5 DEF SendFails
  <2>2. item \in MailItem /\ item.mail = batch[1].mail /\ 1 \in 1..Len(batch)
    <3>1. Head(batch) \in MailItem /\ Head(batch) = batch[1] /\ 1 \in 1..Len(batch)
      BY <1>a, <2>1
    <3> QED BY <3>1 DEF MailItem
  <2> HIDE DEF item
  <2>3. /\ \A i \in 1..Len(queue) : queue[i].mail # item.mail
        /\ \A i \in 1..Len(mailed) : mailed[i] # item.mail
        /\ item.mail \notin dropped /\ item.mail \in Mail
    BY <2>2 DEF MailsInOrder, MailItem
  <2>4. /\ batch' \in Seq(MailItem) /\ processing
        /\ \A i, j \in 1..Len(batch') : batch'[i].mail = batch'[j].mail => i = j
        /\ \A i \in 1..Len(batch') : batch'[i].mail # item.mail
    BY <1>a, <2>1, <2>2
  <2>5. /\ \A i \in 1..Len(batch') : batch'[i].mail \notin dropped /\ batch'[i].attempts < MaxTries
        /\ \A i \in 1..Len(queue), j \in 1..Len(batch') : queue[i].mail # batch'[j].mail
        /\ \A i \in 1..Len(batch'), j \in 1..Len(mailed) : batch'[i].mail # mailed[j]
    BY <1>a, <2>1 DEF MailsInOrder
  <2>6. CASE item.attempts < MaxTries /\ queue' = Append(queue, item) /\ dropped' = dropped
    <3>1. /\ queue' \in Seq(MailItem) /\ Len(queue') = Len(queue) + 1
          /\ \A i \in 1..Len(queue) + 1 : queue'[i] = IF i <= Len(queue) THEN queue[i] ELSE item
      BY <1>0, <2>2, <2>6, Appended
    <3>2. \A i \in 1..Len(queue') : \/ i \in 1..Len(queue) /\ queue'[i] = queue[i]
                                    \/ i = Len(queue) + 1 /\ queue'[i] = item
      BY <1>0, <3>1
    <3>3. \A i, j \in 1..Len(queue') : queue'[i].mail = queue'[j].mail => i = j
      BY <2>3, <3>2 DEF MailsInOrder
    <3>4. \A i \in 1..Len(queue'), j \in 1..Len(batch') : queue'[i].mail # batch'[j].mail
      BY <2>4, <2>5, <3>2
    <3>5. \A i \in 1..Len(queue'), j \in 1..Len(mailed) : queue'[i].mail # mailed[j]
      BY <2>3, <3>2 DEF MailsInOrder
    <3>6. \A i \in 1..Len(queue') : queue'[i].mail \notin dropped /\ queue'[i].attempts < MaxTries
      BY <2>3, <2>6, <3>2 DEF MailsInOrder
    <3>7. MailTypeOK'
      BY <1>0, <2>1, <2>4, <2>6, <3>1 DEF MailTypeOK
    <3>8. /\ \A i, j \in 1..Len(mailed) : mailed[i] = mailed[j] => i = j
          /\ \A i \in 1..Len(mailed) : mailed[i] \notin dropped
      BY DEF MailsInOrder
    <3> QED BY <2>1, <2>4, <2>5, <2>6, <3>3, <3>4, <3>5, <3>6, <3>7, <3>8 DEF MailsInOrder
  <2>7. CASE dropped' = dropped \cup {item.mail} /\ queue' = queue
    BY <1>0, <2>1, <2>3, <2>4, <2>5, <2>7 DEF MailsInOrder, MailTypeOK
  <2> QED BY <2>1, <2>6, <2>7
<1>6. CASE EndFlush
  <2>1. processing' = FALSE /\ batch = <<>> /\ UNCHANGED <<queue, batch, mailed, dropped>>
    BY <1>6 DEF EndFlush
  <2>2. processing' \in BOOLEAN
    BY <2>1
  <2>3. MailTypeOK'
    BY <1>0, <2>1, <2>2 DEF MailTypeOK
  <2> QED BY <2>1, <2>3 DEF MailsInOrder
<1>7. CASE SweepNext
  <2>1. UNCHANGED mailVars
    BY <1>7 DEF SweepNext, RunCheck, Skip, SendAlert, SaveAlert, SweepCut, NextDay, ProofArrives,
                MoveDeadline
  <2> QED BY <1>1, <2>1
<1>8. CASE UNCHANGED notifyVars
  BY <1>1, <1>8 DEF notifyVars, mailVars
<1> QED BY <1>2, <1>3, <1>4, <1>5, <1>6, <1>7, <1>8 DEF MailNext, FlushStep

LEMMA MailsSound == MailsInOrder => NoMailLostOrDoubled
<1> SUFFICES ASSUME MailsInOrder PROVE NoMailLostOrDoubled
  OBVIOUS
<1> DEFINE pending == queue \o batch
           first == [i \in DOMAIN pending |-> pending[i].mail]
           ids == first \o mailed
           q == Len(queue)
           p == Len(queue) + Len(batch)
           n == Len(queue) + Len(batch) + Len(mailed)
<1>0. /\ queue \in Seq(MailItem) /\ batch \in Seq(MailItem) /\ mailed \in Seq(Mail)
      /\ q \in Nat /\ Len(batch) \in Nat /\ Len(mailed) \in Nat /\ p \in Nat /\ n \in Nat
  BY DEF MailsInOrder, MailTypeOK
<1>1. /\ pending \in Seq(MailItem) /\ Len(pending) = p
      /\ \A i \in 1..p : pending[i] = IF i <= q THEN queue[i] ELSE batch[i - q]
  BY <1>0, ConcatProperties
<1> HIDE DEF pending
<1>2. DOMAIN pending = 1..p
  BY <1>1, LenProperties
<1>3. \A i \in 1..p : pending[i].mail \in Mail
  <2>1. \A i \in 1..p : pending[i] \in MailItem
    BY <1>1
  <2> QED BY <2>1 DEF MailItem
<1>4. first \in Seq(Mail) /\ Len(first) = p /\ \A i \in 1..p : first[i] = pending[i].mail
  BY <1>0, <1>2, <1>3
<1> HIDE DEF first
<1>5. /\ ids \in Seq(Mail) /\ Len(ids) = n
      /\ \A i \in 1..n : ids[i] = IF i <= p THEN first[i] ELSE mailed[i - p]
  <2>1. first \in Seq(Mail) /\ mailed \in Seq(Mail)
    BY <1>0, <1>4
  <2> HIDE DEF p, n
  <2>2. /\ ids \in Seq(Mail) /\ Len(ids) = Len(first) + Len(mailed)
        /\ \A i \in 1..Len(first) + Len(mailed) :
              ids[i] = IF i <= Len(first) THEN first[i] ELSE mailed[i - Len(first)]
    BY <2>1, ConcatProperties
  <2>3. Len(first) = p /\ n = p + Len(mailed)
    BY <1>4 DEF n, p
  <2> QED BY <2>2, <2>3
<1> HIDE DEF ids
<1>6. DOMAIN ids = 1..n
  BY <1>5, LenProperties
<1>7. ASSUME NEW i \in 1..n
      PROVE  \/ i \in 1..Len(queue) /\ ids[i] = queue[i].mail
             \/ i - q \in 1..Len(batch) /\ i > q /\ ids[i] = batch[i - q].mail
             \/ i - p \in 1..Len(mailed) /\ i > p /\ ids[i] = mailed[i - p]
  <2>1. CASE i <= p
    <3>1. i \in 1..p /\ ids[i] = pending[i].mail
      BY <1>0, <1>4, <1>5, <2>1
    <3> QED BY <1>0, <1>1, <3>1
  <2>2. CASE i > p
    <3>1. i - p \in 1..Len(mailed)
      BY <1>0, <2>2
    <3>2. ids[i] = mailed[i - p]
      <4> HIDE DEF p, n
      <4> QED BY <1>0, <1>5, <2>2
    <3> QED BY <2>2, <3>1, <3>2
  <2> QED BY <1>0, <2>1, <2>2
<1>8. ASSUME NEW i \in 1..n, NEW j \in 1..n, ids[i] = ids[j] PROVE i = j
  <2>1. \/ i \in 1..Len(queue) /\ j \in 1..Len(queue) /\ i = j
        \/ i - q \in 1..Len(batch) /\ j - q \in 1..Len(batch) /\ i - q = j - q
        \/ i - p \in 1..Len(mailed) /\ j - p \in 1..Len(mailed) /\ i - p = j - p
    <3> HIDE DEF q, p, n
    <3> QED BY <1>7, <1>8 DEF MailsInOrder
  <2> QED BY <1>0, <2>1
<1>9. ASSUME NEW i \in 1..n PROVE ids[i] \notin dropped
  <2> HIDE DEF q, p, n
  <2> QED BY <1>7 DEF MailsInOrder
<1>10. ASSUME NEW i \in 1..p PROVE pending[i].attempts < MaxTries
  <2>1. \/ i \in 1..Len(queue) /\ pending[i] = queue[i]
        \/ i - q \in 1..Len(batch) /\ pending[i] = batch[i - q]
    <3>1. pending[i] = IF i <= q THEN queue[i] ELSE batch[i - q]
      BY <1>1
    <3>2. i <= q => i \in 1..Len(queue)
      BY <1>0
    <3>3. ~(i <= q) => i - q \in 1..Len(batch)
      BY <1>0
    <3> HIDE DEF q, p
    <3> QED BY <3>1, <3>2, <3>3
  <2> QED BY <2>1 DEF MailsInOrder
<1>11. IsInjective(ids) /\ dropped \cap ToSet(ids) = {}
       /\ \A i \in DOMAIN pending : pending[i].attempts < MaxTries
  BY <1>2, <1>6, <1>8, <1>9, <1>10 DEF IsInjective, ToSet
<1> QED BY <1>11 DEF NoMailLostOrDoubled, ids, first, pending

-----------------------------------------------------------------------------
(* The sweep of deadlines (milestone-deadline-service.ts).                  *)

MilestoneRow == [deadline : Nat, window : Int, overdue : BOOLEAN]
SweptCopy == [id : Milestone, row : MilestoneRow, day : Nat]
SentAlert == [id : Milestone, move : Nat, kind : Int]
AlertHistory == [sent : Seq(SentAlert), stale : SUBSET Milestone, cut : BOOLEAN,
                 moves : [Milestone -> Nat], wanted : [Milestone -> Nat]]
SweepTypeOK ==
    /\ day \in Nat
    /\ milestones \in [Milestone -> MilestoneRow]
    /\ proven \subseteq Milestone
    /\ sweep \in [left : Seq(SweptCopy), mailing : BOOLEAN]
    /\ alerts \in AlertHistory

\* The inductive invariant of the copies: one each, of an earlier day at most, and equal
\* to its row until the deadline moves under it.
CopiesInOrder ==
    /\ SweepTypeOK
    /\ sweep.mailing => sweep.left # <<>> /\ Alert(Current) # "none"
    /\ \A i, j \in 1..Len(sweep.left) : sweep.left[i].id = sweep.left[j].id => i = j
    /\ \A i \in 1..Len(sweep.left) :
          /\ sweep.left[i].day <= day
          /\ sweep.left[i].id \notin alerts.stale =>
                sweep.left[i].row = milestones[sweep.left[i].id]
    /\ \A id \in Milestone \ alerts.stale : milestones[id].deadline = alerts.wanted[id]

\* The inductive invariant of the alerts, while no sweep was cut off: one sent since the
\* deadline last moved is either being mailed, or its row carries its mark or that of a
\* nearer window, set on a day not after that of any copy of the row.
KindOf(c) == IF Alert(c) = "overdue" THEN NoWindow ELSE Reminder(c)
Mailing(a) == sweep.mailing /\ sweep.left[1].id = a.id /\ KindOf(sweep.left[1]) = a.kind
Marked(a) ==
    LET line == milestones[a.id] IN
    IF a.kind = NoWindow THEN line.overdue
    ELSE /\ line.window # NoWindow /\ line.window <= a.kind /\ line.deadline - line.window <= day
         /\ \A i \in 1..Len(sweep.left) :
               sweep.left[i].id = a.id => line.deadline - line.window <= sweep.left[i].day
Announced(a) == \E i \in 1..Len(alerts.sent) : alerts.sent[i] = a
RemindersMarked ==
    ~alerts.cut =>
        /\ \A a \in SentAlert : Announced(a) =>
              /\ a.move <= alerts.moves[a.id]
              /\ a.id \notin alerts.stale /\ a.move = alerts.moves[a.id] => Mailing(a) \/ Marked(a)
        /\ \A i, j \in 1..Len(alerts.sent) :
              alerts.sent[i] = alerts.sent[j] /\ alerts.sent[i].id \notin alerts.stale => i = j

-----------------------------------------------------------------------------

LEMMA SweepInitially == NotifyInit => CopiesInOrder /\ RemindersMarked
<1> SUFFICES ASSUME NotifyInit PROVE CopiesInOrder /\ RemindersMarked
  OBVIOUS
<1>1. PICK d \in Deadlines :
         milestones = [id \in Milestone |-> [deadline |-> d, window |-> NoWindow, overdue |-> FALSE]]
  BY DEF NotifyInit
<1>2. /\ day = 0 /\ proven = {} /\ sweep = Swept
      /\ alerts = [sent |-> <<>>, stale |-> {}, cut |-> FALSE, moves |-> [id \in Milestone |-> 0],
                   wanted |-> [id \in Milestone |-> milestones[id].deadline]]
  BY DEF NotifyInit
<1>3. [deadline |-> d, window |-> NoWindow, overdue |-> FALSE] \in MilestoneRow
  BY NotificationsAssumption DEF NoWindow, MilestoneRow
<1>4. milestones \in [Milestone -> MilestoneRow] /\ \A id \in Milestone : milestones[id].deadline = d /\ d \in Nat
  BY <1>1, <1>3, NotificationsAssumption
<1>5. /\ sweep.left = <<>> /\ sweep.mailing = FALSE
      /\ sweep \in [left : Seq(SweptCopy), mailing : BOOLEAN]
  BY <1>2 DEF Swept
<1>6. /\ [id \in Milestone |-> 0] \in [Milestone -> Nat]
      /\ [id \in Milestone |-> milestones[id].deadline] \in [Milestone -> Nat]
      /\ <<>> \in Seq(SentAlert)
  BY <1>4
<1>7. /\ alerts \in AlertHistory /\ alerts.sent = <<>> /\ alerts.stale = {}
      /\ alerts.wanted = [id \in Milestone |-> milestones[id].deadline]
  BY <1>2, <1>6 DEF AlertHistory
<1>8. SweepTypeOK
  BY <1>2, <1>4, <1>5, <1>7 DEF SweepTypeOK
<1>9. 1..Len(sweep.left) = {} /\ 1..Len(alerts.sent) = {}
  BY <1>5, <1>7
<1>10. \A id \in Milestone : milestones[id].deadline = alerts.wanted[id]
  BY <1>4, <1>7
<1>11. CopiesInOrder
  BY <1>5, <1>8, <1>9, <1>10 DEF CopiesInOrder
<1>12. RemindersMarked
  BY <1>9 DEF RemindersMarked, Announced
<1> QED BY <1>11, <1>12

\* The copy at hand, and those after it.
LEMMA CopyAtHand ==
  ASSUME SweepTypeOK, sweep.left # <<>>
  PROVE  /\ Current = sweep.left[1] /\ Current \in SweptCopy /\ 1 \in 1..Len(sweep.left)
         /\ Tail(sweep.left) \in Seq(SweptCopy) /\ Len(Tail(sweep.left)) = Len(sweep.left) - 1
         /\ \A i \in 1..Len(Tail(sweep.left)) :
               /\ i + 1 \in 1..Len(sweep.left) /\ i + 1 # 1
               /\ Tail(sweep.left)[i] = sweep.left[i + 1]
<1> DEFINE s == sweep.left
<1>1. s \in Seq(SweptCopy) /\ s # <<>>
  BY DEF SweepTypeOK
<1> HIDE DEF s
<1>2. Len(s) \in Nat \ {0} /\ Head(s) = s[1]
  BY <1>1
<1>3. /\ Head(s) \in SweptCopy /\ Tail(s) \in Seq(SweptCopy) /\ Len(Tail(s)) = Len(s) - 1
      /\ \A i \in 1..Len(Tail(s)) : Tail(s)[i] = s[i + 1]
  BY <1>1, HeadTailProperties
<1>4. \A i \in 1..Len(Tail(s)) : i + 1 \in 1..Len(s) /\ i + 1 # 1
  BY <1>2, <1>3
<1>5. Current = Head(s)
  BY DEF Current, s
<1> QED BY <1>2, <1>3, <1>4, <1>5 DEF s

\* What a copy announces: nothing its row is marked with.
LEMMA KindsOfAlert ==
  ASSUME NEW c \in SweptCopy
  PROVE  /\ c.id \in Milestone /\ c.row \in MilestoneRow /\ c.day \in Nat
         /\ c.row.deadline \in Nat /\ c.row.window \in Int
         /\ KindOf(c) \in Int /\ Reminder(c) \in Int
         /\ Alert(c) = "overdue" => KindOf(c) = NoWindow /\ ~c.row.overdue
         /\ Alert(c) \notin {"none", "overdue"} =>
               /\ KindOf(c) = Reminder(c) /\ Reminder(c) # NoWindow
               /\ Reminder(c) = c.row.deadline - c.day /\ c.row.window # Reminder(c)
<1>1. c.id \in Milestone /\ c.row \in MilestoneRow /\ c.day \in Nat
  BY DEF SweptCopy
<1>2. c.row.deadline \in Nat /\ c.row.window \in Int
  BY <1>1 DEF MilestoneRow
<1>3. Reminder(c) \in Int /\ (Reminder(c) # NoWindow => Reminder(c) = c.row.deadline - c.day)
  BY <1>1, <1>2 DEF Reminder, NoWindow
<1> QED BY <1>1, <1>2, <1>3 DEF KindOf, Alert, NoWindow

\* The row a finished alert leaves.
LEMMA MarkedRow ==
  ASSUME NEW c \in SweptCopy
  PROVE  LET now == IF Alert(c) = "overdue" THEN [c.row EXCEPT !.overdue = TRUE]
                    ELSE [c.row EXCEPT !.window = Reminder(c)] IN
         /\ now \in MilestoneRow /\ now.deadline = c.row.deadline
         /\ Alert(c) = "overdue" => now.overdue /\ now.window = c.row.window
         /\ Alert(c) # "overdue" => now.window = Reminder(c) /\ now.overdue = c.row.overdue
<1>1. c.row \in MilestoneRow /\ Reminder(c) \in Int
  BY KindsOfAlert
<1>2. CASE Alert(c) = "overdue"
  BY <1>1, <1>2 DEF MilestoneRow
<1>3. CASE Alert(c) # "overdue"
  BY <1>1, <1>3 DEF MilestoneRow
<1> QED BY <1>2, <1>3

LEMMA CopiesStep == CopiesInOrder /\ [MailNext \/ SweepNext]_notifyVars => CopiesInOrder'
<1> SUFFICES ASSUME CopiesInOrder, [MailNext \/ SweepNext]_notifyVars PROVE CopiesInOrder'
  OBVIOUS
<1>0. /\ SweepTypeOK /\ day \in Nat /\ proven \subseteq Milestone
      /\ milestones \in [Milestone -> MilestoneRow]
      /\ sweep \in [left : Seq(SweptCopy), mailing : BOOLEAN]
      /\ alerts \in AlertHistory
      /\ Swept \in [left : Seq(SweptCopy), mailing : BOOLEAN]
      /\ Swept.left = <<>> /\ ~Swept.mailing /\ 1..Len(Swept.left) = {}
  BY DEF CopiesInOrder, SweepTypeOK, Swept
<1>s. sweep'.left = sweep.left => Alert(Current)' = Alert(Current)
  BY DEF Alert, Reminder, IsOverdue, Current
<1>1. CASE UNCHANGED sweepVars
  BY <1>s, <1>1 DEF sweepVars, CopiesInOrder, SweepTypeOK
\* The copies left are those it had, the rows are the same, or the copy at hand is saved.
<1>a. ASSUME sweep.left # <<>>, sweep' = [left |-> Tail(sweep.left), mailing |-> FALSE]
      PROVE  /\ sweep' \in [left : Seq(SweptCopy), mailing : BOOLEAN] /\ ~sweep'.mailing
             /\ \A i, j \in 1..Len(sweep'.left) : sweep'.left[i].id = sweep'.left[j].id => i = j
             /\ \A i \in 1..Len(sweep'.left) :
                   /\ i + 1 \in 1..Len(sweep.left) /\ sweep'.left[i] = sweep.left[i + 1]
                   /\ sweep'.left[i].id # Current.id
  <2>1. /\ Current = sweep.left[1] /\ 1 \in 1..Len(sweep.left)
        /\ Tail(sweep.left) \in Seq(SweptCopy)
        /\ \A i \in 1..Len(Tail(sweep.left)) : /\ i + 1 \in 1..Len(sweep.left) /\ i + 1 # 1
                                               /\ Tail(sweep.left)[i] = sweep.left[i + 1]
    BY <1>0, <1>a, CopyAtHand
  <2>2. sweep'.left = Tail(sweep.left) /\ ~sweep'.mailing
        /\ sweep' \in [left : Seq(SweptCopy), mailing : BOOLEAN]
    BY <1>a, <2>1
  <2>3. \A i, j \in 1..Len(sweep'.left) : sweep'.left[i].id = sweep'.left[j].id => i + 1 = j + 1
    BY <2>1, <2>2 DEF CopiesInOrder
  <2>4. \A i, j \in 1..Len(sweep'.left) : sweep'.left[i].id = sweep'.left[j].id => i = j
    BY <2>3
  <2>5. \A i \in 1..Len(sweep'.left) : sweep'.left[i].id # Current.id
    BY <2>1, <2>2 DEF CopiesInOrder
  <2> QED BY <2>1, <2>2, <2>4, <2>5
<1>2. CASE RunCheck
  <2> DEFINE due == SetToSeq(Milestone \ proven)
             left == [i \in DOMAIN due |-> [id |-> due[i], row |-> milestones[due[i]], day |-> day]]
  <2>1. /\ sweep' = [Swept EXCEPT !.left = left] /\ UNCHANGED <<day, milestones, proven, alerts>>
        /\ due # <<>>
    BY <1>2 DEF RunCheck
  <2>2. IsFiniteSet(Milestone \ proven)
    BY NotificationsAssumption, FS_Subset
  <2>3. /\ due \in Seq(Milestone \ proven) /\ DOMAIN due = 1..Len(due)
        /\ \A i, j \in 1..Len(due) : due[i] = due[j] => i = j
    BY <2>2, Listed
  <2> HIDE DEF due
  <2>4. \A i \in 1..Len(due) : due[i] \in Milestone
    BY <2>3
  <2>5. Len(due) \in Nat /\ \A i \in 1..Len(due) :
           [id |-> due[i], row |-> milestones[due[i]], day |-> day] \in SweptCopy
    BY <1>0, <2>3, <2>4 DEF SweptCopy
  <2>6. /\ left \in Seq(SweptCopy) /\ Len(left) = Len(due)
        /\ \A i \in 1..Len(left) : /\ left[i].id = due[i] /\ left[i].day = day
                                   /\ left[i].row = milestones[due[i]]
    BY <2>3, <2>5
  <2> HIDE DEF left
  <2>7. sweep' \in [left : Seq(SweptCopy), mailing : BOOLEAN] /\ sweep'.left = left /\ ~sweep'.mailing
    BY <2>1, <2>6 DEF Swept
  <2>8. SweepTypeOK'
    BY <1>0, <2>1, <2>7 DEF SweepTypeOK
  <2> QED BY <1>0, <2>1, <2>3, <2>6, <2>7, <2>8, SMTT(60) DEF CopiesInOrder
<1>3. CASE Skip
  <2>1. /\ sweep.left # <<>> /\ ~sweep.mailing /\ UNCHANGED <<day, milestones, proven, alerts>>
        /\ sweep' = [sweep EXCEPT !.left = Tail(@)]
    BY <1>3 DEF Skip
  <2>2. sweep' = [left |-> Tail(sweep.left), mailing |-> FALSE]
    BY <1>0, <2>1
  <2>3. SweepTypeOK'
    BY <1>0, <1>a, <2>1, <2>2 DEF SweepTypeOK
  <2>4. /\ \A i \in 1..Len(sweep'.left) :
              /\ sweep'.left[i].day <= day
              /\ sweep'.left[i].id \notin alerts.stale =>
                    sweep'.left[i].row = milestones[sweep'.left[i].id]
        /\ \A id \in Milestone \ alerts.stale : milestones[id].deadline = alerts.wanted[id]
    BY <1>a, <2>1, <2>2 DEF CopiesInOrder
  <2> QED BY <1>a, <2>1, <2>2, <2>3, <2>4 DEF CopiesInOrder
<1>4. CASE SendAlert
  <2> DEFINE a == [id |-> Current.id, move |-> alerts.moves[Current.id],
                   kind |-> IF Alert(Current) = "overdue" THEN NoWindow ELSE Reminder(Current)]
  <2>1. /\ sweep.left # <<>> /\ Alert(Current) # "none" /\ UNCHANGED <<day, milestones, proven>>
        /\ sweep' = [sweep EXCEPT !.mailing = TRUE]
        /\ alerts' = [alerts EXCEPT !.sent = Append(@, a)]
    BY <1>4 DEF SendAlert
  <2>2. Current \in SweptCopy
    BY <1>0, <2>1, CopyAtHand
  <2>3. Current.id \in Milestone /\ KindOf(Current) \in Int
    BY <2>2, KindsOfAlert
  <2>4. a \in SentAlert
    BY <1>0, <2>3 DEF SentAlert, AlertHistory, KindOf
  <2> HIDE DEF a
  <2>5. Append(alerts.sent, a) \in Seq(SentAlert)
    BY <1>0, <2>4, AppendProperties DEF AlertHistory
  <2>6. alerts' \in AlertHistory /\ alerts'.stale = alerts.stale /\ alerts'.wanted = alerts.wanted
    <3> DEFINE more == Append(alerts.sent, a)
    <3>1. more \in Seq(SentAlert) /\ alerts' = [alerts EXCEPT !.sent = more]
      BY <2>1, <2>5
    <3> HIDE DEF more
    <3> QED BY <1>0, <3>1 DEF AlertHistory
  <2>7. sweep' \in [left : Seq(SweptCopy), mailing : BOOLEAN] /\ sweep'.left = sweep.left
    BY <1>0, <2>1
  <2>8. SweepTypeOK'
    BY <1>0, <2>1, <2>6, <2>7 DEF SweepTypeOK
  <2> QED BY <1>s, <2>1, <2>6, <2>7, <2>8 DEF CopiesInOrder
<1>5. CASE SaveAlert
  <2> DEFINE now == IF Alert(Current) = "overdue" THEN [Current.row EXCEPT !.overdue = TRUE]
                    ELSE [Current.row EXCEPT !.window = Reminder(Current)]
  <2>1. /\ sweep.mailing /\ UNCHANGED <<day, proven, alerts>>
        /\ milestones' = [milestones EXCEPT ![Current.id] = now]
        /\ sweep' = [left |-> Tail(sweep.left), mailing |-> FALSE]
    BY <1>5 DEF SaveAlert
  <2>2. sweep.left # <<>>
    BY <2>1 DEF CopiesInOrder
  <2>3. Current \in SweptCopy /\ Current = sweep.left[1] /\ 1 \in 1..Len(sweep.left)
    BY <1>0, <2>2, CopyAtHand
  <2>4. now \in MilestoneRow /\ now.deadline = Current.row.deadline /\ Current.id \in Milestone
    BY <2>3, MarkedRow, KindsOfAlert
  <2> HIDE DEF now
  <2>5. /\ milestones' \in [Milestone -> MilestoneRow] /\ milestones'[Current.id] = now
        /\ \A id \in Milestone : id # Current.id => milestones'[id] = milestones[id]
    BY <1>0, <2>1, <2>4
  <2>6. SweepTypeOK'
    BY <1>0, <1>a, <2>1, <2>2, <2>5 DEF SweepTypeOK
  <2>7. \A i \in 1..Len(sweep'.left) :
           /\ sweep'.left[i].day <= day
           /\ sweep'.left[i].id \notin alerts.stale =>
                 sweep'.left[i].row = milestones'[sweep'.left[i].id]
    <3> SUFFICES ASSUME NEW i \in 1..Len(sweep'.left)
                 PROVE  /\ sweep'.left[i].day <= day
                        /\ sweep'.left[i].id \notin alerts.stale =>
                              sweep'.left[i].row = milestones'[sweep'.left[i].id]
      OBVIOUS
    <3> DEFINE c == sweep.left[i + 1]
    <3>1. i + 1 \in 1..Len(sweep.left) /\ sweep'.left[i] = c /\ c.id # Current.id
      BY <1>a, <2>1, <2>2
    <3>2. c.day <= day /\ (c.id \notin alerts.stale => c.row = milestones[c.id])
      BY <3>1 DEF CopiesInOrder
    <3>3. c \in SweptCopy
      BY <1>0, <3>1
    <3>4. c.id \in Milestone
      BY <3>3 DEF SweptCopy
    <3> HIDE DEF c
    <3> QED BY <2>5, <3>1, <3>2, <3>4
  <2>8. \A id \in Milestone \ alerts.stale : milestones'[id].deadline = alerts.wanted[id]
    <3>1. Current.id \notin alerts.stale => now.deadline = milestones[Current.id].deadline
      BY <2>3, <2>4 DEF CopiesInOrder
    <3> QED BY <2>4, <2>5, <3>1 DEF CopiesInOrder
  <2> QED BY <1>a, <2>1, <2>2, <2>6, <2>7, <2>8 DEF CopiesInOrder
<1>6. CASE SweepCut
  <2>1. /\ UNCHANGED <<day, milestones, proven>> /\ sweep' = Swept
        /\ alerts' = [alerts EXCEPT !.cut = TRUE]
    BY <1>6 DEF SweepCut
  <2>2. alerts' \in AlertHistory /\ alerts'.stale = alerts.stale /\ alerts'.wanted = alerts.wanted
    BY <1>0, <2>1 DEF AlertHistory
  <2>3. SweepTypeOK'
    BY <1>0, <2>1, <2>2 DEF SweepTypeOK
  <2> QED BY <1>0, <2>1, <2>2, <2>3 DEF CopiesInOrder
<1>7. CASE NextDay
  <2>1. UNCHANGED <<milestones, proven, sweep, alerts>> /\ day' = day + 1
    BY <1>7 DEF NextDay
  <2>2. SweepTypeOK'
    BY <1>0, <2>1 DEF SweepTypeOK
  <2>3. \A i \in 1..Len(sweep.left) : sweep.left[i].day <= day + 1
    <3> SUFFICES ASSUME NEW i \in 1..Len(sweep.left) PROVE sweep.left[i].day <= day + 1
      OBVIOUS
    <3>1. sweep.left[i] \in SweptCopy
      BY <1>0
    <3> QED BY <1>0, <3>1 DEF SweptCopy, CopiesInOrder
  <2> QED BY <1>s, <2>1, <2>2, <2>3 DEF CopiesInOrder
<1>8. ASSUME NEW id \in Milestone, ProofArrives(id) PROVE CopiesInOrder'
  BY <1>s, <1>8 DEF ProofArrives, CopiesInOrder, SweepTypeOK
<1>9. ASSUME NEW id \in Milestone, NEW deadline \in Deadlines, MoveDeadline(id, deadline)
      PROVE  CopiesInOrder'
  <2> DEFINE now == [milestones[id] EXCEPT !.deadline = deadline]
             met == {c.id : c \in {c \in ToSet(sweep.left) : c.id = id}}
             moves == [alerts.moves EXCEPT ![id] = @ + 1]
             wanted == [alerts.wanted EXCEPT ![id] = deadline]
             stale == alerts.stale \cup met
  <2>1. /\ UNCHANGED <<day, proven, sweep>>
        /\ milestones' = [milestones EXCEPT ![id] = now]
        /\ alerts' = [[[alerts EXCEPT !.moves = moves] EXCEPT !.wanted = wanted] EXCEPT !.stale = stale]
    BY <1>0, <1>9 DEF MoveDeadline, AlertHistory
  <2>2. now \in MilestoneRow /\ now.deadline = deadline
    BY <1>0, NotificationsAssumption DEF MilestoneRow
  <2>3. met \subseteq {id} /\ \A i \in 1..Len(sweep.left) : sweep.left[i].id = id => id \in met
    <3>1. \A i \in 1..Len(sweep.left) : sweep.left[i] \in ToSet(sweep.left)
      BY <1>0 DEF ToSet
    <3> QED BY <3>1
  <2>4. moves \in [Milestone -> Nat] /\ wanted \in [Milestone -> Nat] /\ wanted[id] = deadline
        /\ \A m \in Milestone : m # id => wanted[m] = alerts.wanted[m]
    BY <1>0, NotificationsAssumption DEF AlertHistory
  <2>5. stale \subseteq Milestone /\ alerts.stale \subseteq stale
    BY <1>0, <2>3 DEF AlertHistory
  <2> HIDE DEF now, met, moves, wanted
  <2>6. alerts' \in AlertHistory /\ alerts'.stale = stale /\ alerts'.wanted = wanted
    <3> HIDE DEF stale
    <3>1. [alerts EXCEPT !.moves = moves] \in AlertHistory
      BY <1>0, <2>4 DEF AlertHistory
    <3> DEFINE one == [alerts EXCEPT !.moves = moves]
               two == [one EXCEPT !.wanted = wanted]
    <3> HIDE DEF one
    <3>2. two \in AlertHistory /\ two.wanted = wanted
      BY <2>4, <3>1 DEF AlertHistory, one
    <3>3. alerts' = [two EXCEPT !.stale = stale]
      BY <2>1 DEF one
    <3> HIDE DEF two
    <3> QED BY <2>5, <3>2, <3>3 DEF AlertHistory
  <2>7. /\ milestones' \in [Milestone -> MilestoneRow] /\ milestones'[id] = now
        /\ \A m \in Milestone : m # id => milestones'[m] = milestones[m]
    BY <1>0, <2>1, <2>2
  <2>8. SweepTypeOK'
    BY <1>0, <2>1, <2>6, <2>7 DEF SweepTypeOK
  <2>9. \A i \in 1..Len(sweep.left) : sweep.left[i].id \notin stale =>
           sweep.left[i].row = milestones'[sweep.left[i].id]
    <3> SUFFICES ASSUME NEW i \in 1..Len(sweep.left), sweep.left[i].id \notin stale
                 PROVE  sweep.left[i].row = milestones'[sweep.left[i].id]
      OBVIOUS
    <3>1. sweep.left[i] \in SweptCopy
      BY <1>0
    <3>2. sweep.left[i].id \in Milestone /\ sweep.left[i].id # id
      BY <2>3, <3>1 DEF SweptCopy
    <3>3. sweep.left[i].row = milestones[sweep.left[i].id]
      BY <2>5 DEF CopiesInOrder
    <3> QED BY <2>7, <3>2, <3>3
  <2>10. \A m \in Milestone \ stale : milestones'[m].deadline = wanted[m]
    BY <2>2, <2>4, <2>5, <2>7 DEF CopiesInOrder
  <2> QED BY <1>s, <2>1, <2>6, <2>8, <2>9, <2>10 DEF CopiesInOrder
<1>10. CASE MailNext
  <2>1. UNCHANGED sweepVars
    BY <1>10 DEF MailNext, FlushStep, Enqueue, Flush, SendOk, SendFails, EndFlush
  <2> QED BY <1>1, <2>1
<1>11. CASE UNCHANGED notifyVars
  BY <1>1, <1>11 DEF notifyVars, sweepVars
<1> QED BY <1>2, <1>3, <1>4, <1>5, <1>6, <1>7, <1>8, <1>9, <1>10, <1>11 DEF SweepNext

\* A mark stays while its row does: days go by, copies go or are made today.
LEMMA MarkStays ==
  ASSUME CopiesInOrder, NEW a \in SentAlert, Marked(a), milestones'[a.id] = milestones[a.id],
         day' \in Nat, day <= day',
         \A i \in 1..Len(sweep'.left) :
            sweep'.left[i].day = day \/ \E k \in 1..Len(sweep.left) : sweep'.left[i] = sweep.left[k]
  PROVE  Marked(a)'
<1> DEFINE line == milestones[a.id]
<1>1. /\ day \in Nat /\ line \in MilestoneRow /\ line.deadline \in Nat /\ line.window \in Int
      /\ a.kind \in Int /\ milestones'[a.id] = line
  BY DEF CopiesInOrder, SweepTypeOK, SentAlert, MilestoneRow
<1> HIDE DEF line
<1>2. IF a.kind = NoWindow THEN line.overdue
      ELSE /\ line.window # NoWindow /\ line.window <= a.kind /\ line.deadline - line.window <= day
           /\ \A i \in 1..Len(sweep.left) :
                 sweep.left[i].id = a.id => line.deadline - line.window <= sweep.left[i].day
  BY DEF Marked, line
<1>3. CASE a.kind = NoWindow
  BY <1>1, <1>2, <1>3 DEF Marked
<1>4. CASE a.kind # NoWindow
  <2>1. \A i \in 1..Len(sweep'.left) :
           sweep'.left[i].id = a.id => line.deadline - line.window <= sweep'.left[i].day
    BY <1>2, <1>4
  <2>2. line.deadline - line.window <= day'
    BY <1>1, <1>2, <1>4
  <2> QED BY <1>1, <1>2, <1>4, <2>1, <2>2 DEF Marked
<1> QED BY <1>3, <1>4

\* What an alert announces is marked when its row is saved, and what was marked stays so.
LEMMA SavedMarks ==
  ASSUME CopiesInOrder, NEW a \in SentAlert, a.id \notin alerts.stale, Mailing(a) \/ Marked(a),
         SaveAlert
  PROVE  Marked(a)'
<1> DEFINE c == Current
           now == IF Alert(c) = "overdue" THEN [c.row EXCEPT !.overdue = TRUE]
                  ELSE [c.row EXCEPT !.window = Reminder(c)]
<1>0. /\ SweepTypeOK /\ day \in Nat /\ milestones \in [Milestone -> MilestoneRow]
      /\ a.kind \in Int /\ a.id \in Milestone
  BY DEF CopiesInOrder, SweepTypeOK, SentAlert
<1>1. /\ sweep.mailing /\ UNCHANGED <<day, proven, alerts>>
      /\ milestones' = [milestones EXCEPT ![c.id] = now]
      /\ sweep' = [left |-> Tail(sweep.left), mailing |-> FALSE]
  BY DEF SaveAlert
<1>2. sweep.left # <<>> /\ Alert(c) # "none"
  BY <1>1 DEF CopiesInOrder
<1>3. /\ c \in SweptCopy /\ c = sweep.left[1] /\ 1 \in 1..Len(sweep.left)
      /\ sweep'.left = Tail(sweep.left)
      /\ \A i \in 1..Len(sweep'.left) : /\ i + 1 \in 1..Len(sweep.left) /\ i + 1 # 1
                                        /\ sweep'.left[i] = sweep.left[i + 1]
  BY <1>0, <1>1, <1>2, CopyAtHand
<1>4. \A i \in 1..Len(sweep'.left) : sweep'.left[i].id # c.id
  BY <1>3 DEF CopiesInOrder
<1> HIDE DEF c
<1>5. /\ c.id \in Milestone /\ c.row \in MilestoneRow /\ c.day \in Nat /\ c.day <= day
      /\ c.row.deadline \in Nat /\ c.row.window \in Int /\ Reminder(c) \in Int
      /\ Alert(c) = "overdue" => KindOf(c) = NoWindow
      /\ Alert(c) # "overdue" => /\ KindOf(c) = Reminder(c) /\ Reminder(c) # NoWindow
                                 /\ Reminder(c) = c.row.deadline - c.day
  BY <1>2, <1>3, KindsOfAlert DEF CopiesInOrder
<1>6. /\ now.deadline = c.row.deadline /\ now \in MilestoneRow
      /\ Alert(c) = "overdue" => now.overdue /\ now.window = c.row.window
      /\ Alert(c) # "overdue" => now.window = Reminder(c) /\ now.overdue = c.row.overdue
  BY <1>3, MarkedRow
<1> HIDE DEF now
<1>7. /\ milestones'[c.id] = now
      /\ \A id \in Milestone : id # c.id => milestones'[id] = milestones[id]
  BY <1>0, <1>1, <1>5
<1>8. CASE a.id # c.id
  <2>1. Marked(a) /\ milestones'[a.id] = milestones[a.id]
    BY <1>0, <1>3, <1>7, <1>8 DEF Mailing
  <2>2. \A i \in 1..Len(sweep'.left) : \E k \in 1..Len(sweep.left) : sweep'.left[i] = sweep.left[k]
    BY <1>3
  <2>3. day' \in Nat /\ day <= day'
    BY <1>0, <1>1
  <2> QED BY <2>1, <2>2, <2>3, MarkStays
<1>9. CASE a.id = c.id
  <2>1. milestones[a.id] = c.row /\ milestones'[a.id] = now
    BY <1>3, <1>7, <1>9 DEF CopiesInOrder
  <2>2. \A i \in 1..Len(sweep'.left) : sweep'.left[i].id # a.id
    BY <1>4, <1>9
  <2>3. SUFFICES IF a.kind = NoWindow THEN now.overdue
                 ELSE /\ now.window # NoWindow /\ now.window <= a.kind
                      /\ now.deadline - now.window <= day
    BY <1>1, <2>1, <2>2 DEF Marked
  <2>4. CASE Mailing(a)
    <3>1. KindOf(c) = a.kind
      BY <1>3, <2>4 DEF Mailing
    <3>2. CASE Alert(c) = "overdue"
      BY <1>5, <1>6, <3>1, <3>2
    <3>3. CASE Alert(c) # "overdue"
      <4>1. a.kind # NoWindow /\ now.window = a.kind /\ now.window # NoWindow
        BY <1>5, <1>6, <3>1, <3>3
      <4>2. now.deadline - now.window <= day
        BY <1>0, <1>5, <1>6, <3>3
      <4> QED BY <1>0, <4>1, <4>2
    <3> QED BY <3>2, <3>3
  <2>5. CASE Marked(a)
    <3>1. IF a.kind = NoWindow THEN c.row.overdue
          ELSE /\ c.row.window # NoWindow /\ c.row.window <= a.kind
               /\ c.row.deadline - c.row.window <= day
               /\ \A i \in 1..Len(sweep.left) :
                     sweep.left[i].id = a.id => c.row.deadline - c.row.window <= sweep.left[i].day
      BY <2>1, <2>5 DEF Marked
    <3>2. a.kind # NoWindow => c.row.deadline - c.row.window <= c.day
      BY <1>3, <1>9, <3>1
    <3>3. CASE Alert(c) = "overdue"
      BY <1>6, <3>1, <3>3
    <3>4. CASE Alert(c) # "overdue" /\ a.kind = NoWindow
      BY <1>6, <3>1, <3>4
    <3>5. CASE Alert(c) # "overdue" /\ a.kind # NoWindow
      <4>1. now.window = c.row.deadline - c.day /\ now.window # NoWindow /\ now.deadline = c.row.deadline
        BY <1>5, <1>6, <3>5
      <4>2. now.window <= a.kind /\ now.deadline - now.window <= day
        BY <1>0, <1>5, <3>1, <3>2, <3>5, <4>1
      <4> QED BY <3>5, <4>1, <4>2
    <3> QED BY <3>3, <3>4, <3>5
  <2> QED BY <2>4, <2>5
<1> QED BY <1>8, <1>9

LEMMA RemindStep ==
  CopiesInOrder /\ RemindersMarked /\ [MailNext \/ SweepNext]_notifyVars => RemindersMarked'
<1> SUFFICES ASSUME CopiesInOrder, RemindersMarked, [MailNext \/ SweepNext]_notifyVars
             PROVE  RemindersMarked'
  OBVIOUS
<1>0. /\ SweepTypeOK /\ SweepTypeOK' /\ day \in Nat
      /\ milestones \in [Milestone -> MilestoneRow]
      /\ sweep \in [left : Seq(SweptCopy), mailing : BOOLEAN]
      /\ alerts \in AlertHistory /\ alerts' \in AlertHistory
      /\ alerts.sent \in Seq(SentAlert) /\ Len(alerts.sent) \in Nat
      /\ alerts.moves \in [Milestone -> Nat]
      /\ \A i \in 1..Len(alerts.sent) : alerts.sent[i] \in SentAlert
  <2>1. SweepTypeOK /\ SweepTypeOK'
    BY CopiesStep DEF CopiesInOrder
  <2>2. alerts.sent \in Seq(SentAlert) /\ alerts.moves \in [Milestone -> Nat]
    BY <2>1 DEF SweepTypeOK, AlertHistory
  <2> QED BY <2>1, <2>2 DEF SweepTypeOK
<1>1. CASE UNCHANGED sweepVars
  BY <1>1 DEF sweepVars, RemindersMarked, Announced, Mailing, Marked
\* Nothing is sent: it is enough that an alert mailed or marked is so afterwards.
<1>b. ASSUME ~alerts.cut, alerts'.sent = alerts.sent, alerts.stale \subseteq alerts'.stale,
             \A id \in Milestone : alerts.moves[id] <= alerts'.moves[id],
             \A a \in SentAlert :
                /\ a.id \notin alerts'.stale /\ a.move <= alerts.moves[a.id]
                /\ a.move = alerts'.moves[a.id] /\ a.move = alerts.moves[a.id]
                /\ Mailing(a) \/ Marked(a)
                => Mailing(a)' \/ Marked(a)'
      PROVE  RemindersMarked'
  <2>1. ASSUME NEW a \in SentAlert, a.move <= alerts.moves[a.id],
               a.id \notin alerts.stale /\ a.move = alerts.moves[a.id] => Mailing(a) \/ Marked(a)
        PROVE  /\ a.move <= alerts'.moves[a.id]
               /\ a.id \notin alerts'.stale /\ a.move = alerts'.moves[a.id]
                     => Mailing(a)' \/ Marked(a)'
    <3>1. /\ a.id \in Milestone /\ a.move \in Nat /\ alerts.moves[a.id] \in Nat
          /\ alerts'.moves[a.id] \in Nat /\ alerts.moves[a.id] <= alerts'.moves[a.id]
      BY <1>0, <1>b DEF SentAlert, AlertHistory
    <3>2. a.move <= alerts'.moves[a.id]
      BY <2>1, <3>1
    <3>3. a.move = alerts'.moves[a.id] => a.move = alerts.moves[a.id]
      BY <2>1, <3>1
    <3> QED BY <1>b, <2>1, <3>2, <3>3
  <2>2. \A a \in SentAlert : Announced(a)' => Announced(a)
    BY <1>b DEF Announced
  <2>3. \A a \in SentAlert : Announced(a)' =>
           /\ a.move <= alerts'.moves[a.id]
           /\ a.id \notin alerts'.stale /\ a.move = alerts'.moves[a.id]
                 => Mailing(a)' \/ Marked(a)'
    BY <1>b, <2>1, <2>2 DEF RemindersMarked
  <2> QED BY <1>b, <2>3 DEF RemindersMarked
<1>c. ASSUME alerts' = alerts PROVE \A id \in Milestone : alerts.moves[id] <= alerts'.moves[id]
  BY <1>0, <1>c
<1>2. CASE RunCheck
  <2> SUFFICES ASSUME ~alerts.cut PROVE RemindersMarked'
    BY <1>2 DEF RunCheck, RemindersMarked
  <2> DEFINE due == SetToSeq(Milestone \ proven)
             left == [i \in DOMAIN due |-> [id |-> due[i], row |-> milestones[due[i]], day |-> day]]
  <2>1. /\ sweep' = [Swept EXCEPT !.left = left] /\ UNCHANGED <<day, milestones, proven, alerts>>
        /\ sweep = Swept
    BY <1>2 DEF RunCheck
  <2>2. IsFiniteSet(Milestone \ proven)
    BY NotificationsAssumption, FS_Subset
  <2>3. DOMAIN due = 1..Len(due) /\ due \in Seq(Milestone \ proven)
    BY <2>2, Listed
  <2> HIDE DEF due
  <2>4. Len(due) \in Nat /\ DOMAIN left = 1..Len(due) /\ \A i \in 1..Len(due) : left[i].day = day
    BY <2>3
  <2>5. Len(left) = Len(due)
    BY <2>3, <2>4, LenProperties
  <2> HIDE DEF left
  <2>6. sweep'.left = left /\ ~sweep.mailing
    BY <2>1 DEF Swept
  <2>7. ASSUME NEW a \in SentAlert, Mailing(a) \/ Marked(a) PROVE Marked(a)'
    <3>1. Marked(a) /\ milestones'[a.id] = milestones[a.id] /\ day' \in Nat /\ day <= day'
      BY <1>0, <2>1, <2>6, <2>7 DEF Mailing
    <3>2. \A i \in 1..Len(sweep'.left) : sweep'.left[i].day = day
      BY <2>4, <2>5, <2>6
    <3> QED BY <3>1, <3>2, MarkStays
  <2> QED BY <1>b, <1>c, <2>1, <2>7
<1>3. CASE Skip
  <2> SUFFICES ASSUME ~alerts.cut PROVE RemindersMarked'
    BY <1>3 DEF Skip, RemindersMarked
  <2>1. /\ sweep.left # <<>> /\ ~sweep.mailing /\ UNCHANGED <<day, milestones, proven, alerts>>
        /\ sweep'.left = Tail(sweep.left)
    BY <1>0, <1>3 DEF Skip
  <2>2. \A i \in 1..Len(sweep'.left) : \E k \in 1..Len(sweep.left) : sweep'.left[i] = sweep.left[k]
    BY <1>0, <2>1, CopyAtHand
  <2>3. ASSUME NEW a \in SentAlert, Mailing(a) \/ Marked(a) PROVE Marked(a)'
    <3>1. Marked(a) /\ milestones'[a.id] = milestones[a.id] /\ day' \in Nat /\ day <= day'
      BY <1>0, <2>1, <2>3 DEF Mailing
    <3> QED BY <2>2, <3>1, MarkStays
  <2> QED BY <1>b, <1>c, <2>1, <2>3
<1>4. CASE SendAlert
  <2> DEFINE c == Current
             new == [id |-> c.id, move |-> alerts.moves[c.id], kind |-> KindOf(c)]
             n == Len(alerts.sent)
  <2>1. /\ sweep.left # <<>> /\ ~sweep.mailing /\ Alert(c) # "none"
        /\ UNCHANGED <<day, milestones, proven>>
        /\ sweep' = [sweep EXCEPT !.mailing = TRUE]
        /\ alerts' = [alerts EXCEPT !.sent = Append(@, new)]
    BY <1>4 DEF SendAlert, KindOf
  <2>2. c \in SweptCopy /\ c = sweep.left[1] /\ 1 \in 1..Len(sweep.left)
    BY <1>0, <2>1, CopyAtHand
  <2> HIDE DEF c
  <2>3. /\ c.id \in Milestone /\ c.row \in MilestoneRow /\ c.day \in Nat
        /\ c.row.deadline \in Nat /\ c.row.window \in Int /\ KindOf(c) \in Int
        /\ Alert(c) = "overdue" => KindOf(c) = NoWindow /\ ~c.row.overdue
        /\ Alert(c) # "overdue" => /\ KindOf(c) # NoWindow /\ KindOf(c) = c.row.deadline - c.day
                                   /\ c.row.window # KindOf(c)
    BY <2>1, <2>2, KindsOfAlert
  <2>4. new \in SentAlert /\ new.id = c.id /\ new.move = alerts.moves[c.id] /\ new.kind = KindOf(c)
    BY <1>0, <2>3 DEF SentAlert
  <2> HIDE DEF new
  <2>5. /\ Append(alerts.sent, new) \in Seq(SentAlert) /\ Len(Append(alerts.sent, new)) = n + 1
        /\ \A i \in 1..n + 1 : Append(alerts.sent, new)[i] = IF i <= n THEN alerts.sent[i] ELSE new
    BY <1>0, <2>4, Appended
  <2>6. /\ alerts'.sent = Append(alerts.sent, new) /\ alerts'.stale = alerts.stale
        /\ alerts'.moves = alerts.moves /\ alerts'.cut = alerts.cut
        /\ sweep'.left = sweep.left /\ sweep'.mailing
    <3> DEFINE more == Append(alerts.sent, new)
    <3>1. alerts' = [alerts EXCEPT !.sent = more]
      BY <2>1
    <3> HIDE DEF more
    <3>2. /\ alerts'.sent = more /\ alerts'.stale = alerts.stale
          /\ alerts'.moves = alerts.moves /\ alerts'.cut = alerts.cut
      BY <1>0, <3>1 DEF AlertHistory
    <3> QED BY <1>0, <2>1, <3>2 DEF more
  <2>7. \A i \in 1..Len(alerts'.sent) : \/ i \in 1..n /\ alerts'.sent[i] = alerts.sent[i]
                                        \/ i = n + 1 /\ alerts'.sent[i] = new
    BY <1>0, <2>5, <2>6
  <2> SUFFICES ASSUME ~alerts.cut PROVE RemindersMarked'
    BY <2>6 DEF RemindersMarked
  <2>8. ASSUME NEW a \in SentAlert, Announced(a), a.id \notin alerts.stale,
               a.move = alerts.moves[a.id]
        PROVE  Marked(a)
    BY <2>1, <2>8 DEF RemindersMarked, Mailing
  <2>9. ASSUME Announced(new), new.id \notin alerts.stale PROVE FALSE
    <3>1. Marked(new)
      BY <2>4, <2>8, <2>9
    <3>2. milestones[new.id] = c.row
      BY <2>2, <2>4, <2>9 DEF CopiesInOrder
    <3>3. IF KindOf(c) = NoWindow THEN c.row.overdue
          ELSE /\ c.row.window <= KindOf(c)
               /\ \A i \in 1..Len(sweep.left) :
                     sweep.left[i].id = c.id => c.row.deadline - c.row.window <= sweep.left[i].day
      BY <2>4, <3>1, <3>2 DEF Marked
    <3>4. KindOf(c) # NoWindow => c.row.deadline - c.row.window <= c.day
      BY <2>2, <3>3
    <3>5. CASE Alert(c) = "overdue"
      BY <2>3, <3>3, <3>5
    <3>6. CASE Alert(c) # "overdue"
      BY <2>3, <3>3, <3>4, <3>6
    <3> QED BY <3>5, <3>6
  <2>10. \A i, j \in 1..Len(alerts'.sent) :
            alerts'.sent[i] = alerts'.sent[j] /\ alerts'.sent[i].id \notin alerts'.stale => i = j
    <3> SUFFICES ASSUME NEW i \in 1..Len(alerts'.sent), NEW j \in 1..Len(alerts'.sent),
                        alerts'.sent[i] = alerts'.sent[j], alerts'.sent[i].id \notin alerts.stale
                 PROVE  i = j
      BY <2>6
    <3> HIDE DEF n
    <3>1. CASE i \in 1..n /\ j \in 1..n
      BY <2>7, <3>1, <1>0, SMTT(60) DEF RemindersMarked, n
    <3>2. CASE i \in 1..n /\ j = n + 1
      <4>1. n \in Nat /\ j \notin 1..n
        BY <1>0, <3>2 DEF n
      <4>2. i \in 1..n /\ alerts.sent[i] = new /\ new.id \notin alerts.stale
        BY <2>7, <3>2, <4>1
      <4>3. Announced(new)
        BY <4>2 DEF Announced, n
      <4> QED BY <2>9, <4>2, <4>3
    <3>3. CASE i = n + 1 /\ j \in 1..n
      <4>1. n \in Nat /\ i \notin 1..n
        BY <1>0, <3>3 DEF n
      <4>2. j \in 1..n /\ alerts.sent[j] = new /\ new.id \notin alerts.stale
        BY <2>7, <3>3, <4>1
      <4>3. Announced(new)
        BY <4>2 DEF Announced, n
      <4> QED BY <2>9, <4>2, <4>3
    <3> QED BY <2>7, <3>1, <3>2, <3>3
  <2>11. ASSUME NEW a \in SentAlert, Announced(a)'
         PROVE  /\ a.move <= alerts'.moves[a.id]
                /\ a.id \notin alerts'.stale /\ a.move = alerts'.moves[a.id]
                      => Mailing(a)' \/ Marked(a)'
    <3>1. CASE a = new
      <4>1. a.move = alerts.moves[a.id] /\ a.move \in Nat
        BY <1>0, <2>3, <2>4, <3>1
      <4>2. a.move <= alerts'.moves[a.id]
        BY <2>6, <4>1
      <4>3. Mailing(a)'
        BY <2>2, <2>4, <2>6, <3>1 DEF Mailing, KindOf, Alert, Reminder, IsOverdue
      <4> QED BY <4>2, <4>3
    <3>2. CASE Announced(a)
      <4>1. a.move <= alerts'.moves[a.id]
        BY <2>6, <3>2 DEF RemindersMarked
      <4>2. ASSUME a.id \notin alerts'.stale, a.move = alerts'.moves[a.id] PROVE Marked(a)'
        <5>1. Marked(a)
          BY <2>6, <2>8, <3>2, <4>2
        <5>2. milestones' = milestones /\ day' \in Nat /\ day <= day'
          BY <1>0, <2>1
        <5> QED BY <2>6, <5>1, <5>2, MarkStays
      <4> QED BY <4>1, <4>2
    <3> QED BY <2>7, <2>11, <3>1, <3>2 DEF Announced
  <2> QED BY <2>10, <2>11 DEF RemindersMarked
<1>5. CASE SaveAlert
  <2> SUFFICES ASSUME ~alerts.cut PROVE RemindersMarked'
    BY <1>5 DEF SaveAlert, RemindersMarked
  <2>1. alerts' = alerts
    BY <1>5 DEF SaveAlert
  <2>2. \A a \in SentAlert : a.id \notin alerts'.stale /\ (Mailing(a) \/ Marked(a)) => Marked(a)'
    BY <1>5, <2>1, SavedMarks
  <2> QED BY <1>b, <1>c, <2>1, <2>2
<1>6. CASE SweepCut
  <2>1. alerts'.cut
    BY <1>0, <1>6 DEF SweepCut, AlertHistory
  <2> QED BY <2>1 DEF RemindersMarked
<1>7. CASE NextDay
  <2> SUFFICES ASSUME ~alerts.cut PROVE RemindersMarked'
    BY <1>7 DEF NextDay, RemindersMarked
  <2>1. UNCHANGED <<milestones, proven, sweep, alerts>> /\ day' = day + 1
    BY <1>7 DEF NextDay
  <2>2. ASSUME NEW a \in SentAlert, Mailing(a) \/ Marked(a) PROVE Mailing(a)' \/ Marked(a)'
    <3>1. CASE Mailing(a)
      BY <2>1, <3>1 DEF Mailing, KindOf, Alert, Reminder, IsOverdue
    <3>2. CASE Marked(a)
      <4>1. milestones'[a.id] = milestones[a.id] /\ day' \in Nat /\ day <= day' /\ sweep' = sweep
        BY <1>0, <2>1
      <4> QED BY <3>2, <4>1, MarkStays
    <3> QED BY <2>2, <3>1, <3>2
  <2> QED BY <1>b, <1>c, <2>1, <2>2
<1>8. ASSUME NEW id \in Milestone, ProofArrives(id) PROVE RemindersMarked'
  BY <1>8 DEF ProofArrives, RemindersMarked, Announced, Mailing, Marked
<1>9. ASSUME NEW id \in Milestone, NEW deadline \in Deadlines, MoveDeadline(id, deadline)
      PROVE  RemindersMarked'
  <2> DEFINE now == [milestones[id] EXCEPT !.deadline = deadline]
             met == {c.id : c \in {c \in ToSet(sweep.left) : c.id = id}}
             moves == [alerts.moves EXCEPT ![id] = @ + 1]
             wanted == [alerts.wanted EXCEPT ![id] = deadline]
             stale == alerts.stale \cup met
  <2>1. /\ UNCHANGED <<day, proven, sweep>>
        /\ milestones' = [milestones EXCEPT ![id] = now]
        /\ alerts' = [[[alerts EXCEPT !.moves = moves] EXCEPT !.wanted = wanted] EXCEPT !.stale = stale]
    BY <1>0, <1>9 DEF MoveDeadline, AlertHistory
  <2>2. moves[id] = alerts.moves[id] + 1 /\ \A m \in Milestone : m # id => moves[m] = alerts.moves[m]
    BY <1>0
  <2>3. alerts.stale \subseteq stale
    OBVIOUS
  <2> HIDE DEF moves, wanted, stale, now
  <2>4. /\ alerts'.moves = moves /\ alerts'.stale = stale
        /\ alerts'.sent = alerts.sent /\ alerts'.cut = alerts.cut
    BY <1>0, <2>1 DEF AlertHistory
  <2> SUFFICES ASSUME ~alerts.cut PROVE RemindersMarked'
    BY <2>4 DEF RemindersMarked
  <2>5. \A m \in Milestone : alerts.moves[m] <= alerts'.moves[m]
    BY <1>0, <2>2, <2>4, SMTT(60)
  <2>6. ASSUME NEW a \in SentAlert, a.move <= alerts.moves[a.id], a.move = alerts'.moves[a.id],
               Mailing(a) \/ Marked(a)
        PROVE  Mailing(a)' \/ Marked(a)'
    <3>1. a.id \in Milestone /\ a.move \in Nat
      BY DEF SentAlert
    <3>2. a.id # id
      BY <1>0, <2>2, <2>4, <2>6, <3>1
    <3>3. milestones'[a.id] = milestones[a.id] /\ day' \in Nat /\ day <= day' /\ sweep' = sweep
      BY <1>0, <2>1, <3>1, <3>2
    <3>4. CASE Mailing(a)
      BY <3>3, <3>4 DEF Mailing, KindOf, Alert, Reminder, IsOverdue
    <3>5. CASE Marked(a)
      BY <3>3, <3>5, MarkStays
    <3> QED BY <2>6, <3>4, <3>5
  <2> QED BY <1>b, <2>3, <2>4, <2>5, <2>6
<1>10. CASE MailNext
  <2>1. UNCHANGED sweepVars
    BY <1>10 DEF MailNext, FlushStep, Enqueue, Flush, SendOk, SendFails, EndFlush
  <2> QED BY <1>1, <2>1
<1>11. CASE UNCHANGED notifyVars
  BY <1>1, <1>11 DEF notifyVars, sweepVars
<1> QED BY <1>2, <1>3, <1>4, <1>5, <1>6, <1>7, <1>8, <1>9, <1>10, <1>11 DEF SweepNext

LEMMA SweepSound == CopiesInOrder /\ RemindersMarked => RemindedOnce /\ DeadlineStands
<1> SUFFICES ASSUME CopiesInOrder, RemindersMarked PROVE RemindedOnce /\ DeadlineStands
  OBVIOUS
<1>1. DOMAIN alerts.sent = 1..Len(alerts.sent)
  BY DEF CopiesInOrder, SweepTypeOK, AlertHistory
<1>2. RemindedOnce
  BY <1>1 DEF RemindersMarked, RemindedOnce
<1>3. DeadlineStands
  BY DEF CopiesInOrder, DeadlineStands
<1> QED BY <1>2, <1>3

-----------------------------------------------------------------------------
(* The backend: one component runs, the others rest (Together).             *)

\* Whichever component runs, every component takes a step of its own or none.
LEMMA BackendRuns ==
  ASSUME [BackendNext]_<<part, backendVars>>
  PROVE  /\ [AppealNext]_appealVars /\ [DisputeNext]_disputeVars
         /\ [RecordNext]_recordVars /\ [RoleNext]_roleVars /\ [AnswerNext]_answerVars
         /\ [WebhookNext]_webhookVars /\ [MailNext \/ SweepNext]_notifyVars
  BY DEF BackendNext, backendVars

\* milestone-appeals.ts: the outcome stored for an appeal is the majority of the votes
\* stored, one of an address, however the calls interleave; where no calls overlapped,
\* every vote answered is stored, an outcome is final, and if no reviewer row changed, an
\* appeal is closed only by as many addresses as there are reviewers.
THEOREM AppealsAlwaysSound == BackendSpec => []AppealsAreSound
<1>1. BackendInit => AppealsInOrder /\ OneAtATime
  BY AppealsInitially DEF BackendInit
<1>2. AppealsInOrder /\ OneAtATime /\ [BackendNext]_<<part, backendVars>>
        => AppealsInOrder' /\ OneAtATime'
  BY BackendRuns, AppealStep, TurnStep
<1> QED BY <1>1, <1>2, AppealsSound, PTL DEF BackendSpec

\* disputes.ts: a dispute that says it is resolved is signed by a member of the
\* council; and where requests did not overlap, a milestone has one dispute, no
\* argument is lost and a resolution is final.
THEOREM DisputesAlwaysSound == BackendSpec => []DisputesAreSound
<1>1. BackendInit => DisputesInOrder /\ OneDesk
  BY DisputesInitially DEF BackendInit
<1>2. DisputesInOrder /\ OneDesk /\ [BackendNext]_<<part, backendVars>>
        => DisputesInOrder' /\ OneDesk'
  BY BackendRuns, DisputeStep
<1> QED BY <1>1, <1>2, DisputesSound, PTL DEF BackendSpec

\* rbac-service.ts, rbac.ts: both gates of the routes let the same users pass, and
\* the roles of a user are those last answered, once each, however assignments and
\* revocations interleave.
THEOREM RolesAlwaysSound == BackendSpec => []RolesAreSound
<1>1. BackendInit => RolesInOrder
  BY RolesInitially DEF BackendInit
<1>2. RolesInOrder /\ [BackendNext]_<<part, backendVars>> => RolesInOrder'
  BY BackendRuns, RoleStep
<1>3. RolesInOrder => RolesAreSound
  BY GatesAlwaysAgree DEF RolesInOrder, RolesAreSound
<1> QED BY <1>1, <1>2, <1>3, PTL DEF BackendSpec

\* The three together: what the backend decides about people's cases.
THEOREM CasesAlwaysSound == BackendSpec => []CasesAreSound
  BY AppealsAlwaysSound, DisputesAlwaysSound, RolesAlwaysSound, PTL DEF CasesAreSound

\* What a request answered stays true: of the columns it wrote, unless a request that
\* read the row before that answer saves after it (entity routes); and of the answers
\* that are served from the cache, which have every row answered before they were read
\* (response-cache.ts, grants.ts).
THEOREM AnswersAlwaysKept == BackendSpec => []AnswersAreKept
<1>1. BackendInit => RecordsInOrder /\ AnswersInOrder /\ OneReader
  BY RecordsInitially, AnswersInitially DEF BackendInit
<1>2. RecordsInOrder /\ AnswersInOrder /\ OneReader /\ [BackendNext]_<<part, backendVars>>
        => RecordsInOrder' /\ AnswersInOrder' /\ OneReader'
  BY BackendRuns, RecordStep, AnswerStep
<1>3. RecordsInOrder /\ AnswersInOrder /\ OneReader => AnswersAreKept
  BY AnswersHonest DEF RecordsInOrder, AnswersAreKept
<1> QED BY <1>1, <1>2, <1>3, PTL DEF BackendSpec

\* Whatever is sent has its limit and its record: a webhook is tried as often as allowed,
\* its log tells what became of it where rounds did not overlap and nothing failed,
\* failures counted happened and the owner's last word stands unless it raced
\* (webhook-dispatcher.ts); a mail is in one place, once, with tries left
\* (notification-queue.ts); and a reminder is sent once for each window of a deadline
\* unless a sweep was cut off or the deadline moved under it
\* (milestone-deadline-service.ts).
THEOREM DeliveriesAlwaysSound == BackendSpec => []DeliveriesAreSound
<1> DEFINE Webhooks == LogsInOrder /\ OutcomesKnown /\ FailuresCounted /\ TargetKept
           Mails == MailsInOrder /\ CopiesInOrder /\ RemindersMarked
<1>1. BackendInit => Webhooks /\ Mails
  BY WebhookInitially, MailsInitially, SweepInitially DEF BackendInit
<1>2. Webhooks /\ Mails /\ [BackendNext]_<<part, backendVars>> => Webhooks' /\ Mails'
  BY BackendRuns, LogStep, OutcomeStep, FairStep, MailStep, CopiesStep, RemindStep
<1>3. Webhooks /\ Mails => DeliveriesAreSound
  BY WebhooksSound, MailsSound, SweepSound DEF DeliveriesAreSound
<1> QED BY <1>1, <1>2, <1>3, PTL DEF BackendSpec
=============================================================================
