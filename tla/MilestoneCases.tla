--------------------------- MODULE MilestoneCases ---------------------------
(***************************************************************************)
(* Appeals and disputes of one milestone in the backend.  Requests read    *)
(* rows, wait, and save copies, so that they overtake one another.         *)
(***************************************************************************)
EXTENDS Naturals, Functions, FiniteSets, Sequences

(***************************************************************************)
(* A rejected milestone in the backend: its proof, the approvals and       *)
(* rejections recorded for it, the reviewers of the grant, and the appeal  *)
(* its recipient opens (routes/milestone-proof.ts, milestone-approvals.ts, *)
(* grant-reviewers.ts, milestone-appeals.ts), for one milestone.  A vote   *)
(* is several awaits of one request; the appeal it read at first is the    *)
(* copy it changes and saves, every column of it.                          *)
(***************************************************************************)

CONSTANTS Reviewer,       \* addresses that may review the grant
          AppealRequest,  \* requests that may be under way at once
          MaxSeatRows,    \* bound: reviewer rows of one address (there is no unique key)
          MaxRejections,  \* bound: rejections recorded
          MaxSeatChanges  \* bound: changes of the reviewers

ASSUME AppealsAssumption ==
    IsFiniteSet(Reviewer) /\ {MaxSeatRows, MaxRejections, MaxSeatChanges} \subseteq Nat

NoAppeal == [status |-> "none", votes |-> {}]
NoRequest == [step |-> "idle"]
Outcomes == {"upheld", "denied"}

VARIABLES
    seats,       \* rows of grant_reviewers of each address
    rejections,  \* rows of milestone_approvals with approved = false
    proof,       \* the milestone has a proof
    appeal,      \* its row: status and votes, with the address of each
    call,        \* what each request is doing, and its copy of the appeal
    heard        \* history: votes answered, outcomes saved, overlaps, changes of seats

appealVars == <<seats, rejections, proof, appeal, call, heard>>

Rows == SumFunction(seats)

\* What a voting request goes on with: its next await and its copy of the appeal.
GoOn(q, step, copy) ==
    call' = [call EXCEPT ![q] =
                [step |-> step, by |-> call[q].by, uphold |-> call[q].uphold, copy |-> copy]]
EndCall(q) == call' = [call EXCEPT ![q] = NoRequest]
BeginCall(q, c) ==
    /\ call[q] = NoRequest
    /\ call' = [call EXCEPT ![q] = c]
    /\ heard' = [heard EXCEPT !.overlapped = @ \/ \E p \in AppealRequest : call[p] # NoRequest]

-----------------------------------------------------------------------------
(* The rows an appeal depends on *)

AddReviewer(r) ==
    /\ heard.changes < MaxSeatChanges /\ seats[r] < MaxSeatRows
    /\ seats' = [seats EXCEPT ![r] = @ + 1]
    /\ heard' = [heard EXCEPT !.changes = @ + 1]
    /\ UNCHANGED <<rejections, proof, appeal, call>>
RemoveReviewer(r) ==
    /\ heard.changes < MaxSeatChanges /\ seats[r] > 0
    /\ seats' = [seats EXCEPT ![r] = @ - 1]
    /\ heard' = [heard EXCEPT !.changes = @ + 1]
    /\ UNCHANGED <<rejections, proof, appeal, call>>

\* Both routes that record an approval insert a row; only rejections count here.
RecordRejection ==
    /\ rejections < MaxRejections
    /\ rejections' = rejections + 1
    /\ UNCHANGED <<seats, proof, appeal, call, heard>>

\* The row stays, whether the mails that follow are sent or fail; a second
\* proof is refused by the unique key.
PostProof ==
    /\ ~proof
    /\ proof' = TRUE
    /\ UNCHANGED <<seats, rejections, appeal, call, heard>>

-----------------------------------------------------------------------------
(* POST .../appeal *)

\* The recipient of a rejected milestone without an appeal.
BeginOpen(q) ==
    /\ rejections > 0 /\ appeal = NoAppeal
    /\ BeginCall(q, [step |-> "open"])
    /\ UNCHANGED <<seats, rejections, proof, appeal>>

\* The unique key refuses a second row; the request then answers 500.
InsertAppeal(q) ==
    /\ call[q].step = "open"
    /\ appeal' = IF appeal = NoAppeal THEN [status |-> "pending", votes |-> {}] ELSE appeal
    /\ EndCall(q)
    /\ UNCHANGED <<seats, rejections, proof, heard>>

-----------------------------------------------------------------------------
(* POST .../appeal/vote *)

BeginVote(q, r, uphold) ==
    /\ appeal.status = "pending"
    /\ BeginCall(q, [step |-> "seat", by |-> r, uphold |-> uphold, copy |-> appeal])
    /\ UNCHANGED <<seats, rejections, proof, appeal>>

\* The voter needs a reviewer row, and no vote in the copy.
CheckSeat(q) ==
    LET c == call[q] IN
    /\ c.step = "seat"
    /\ IF seats[c.by] > 0 /\ \A v \in c.copy.votes : v.by # c.by
       THEN GoOn(q, "vote",
                 [c.copy EXCEPT !.votes = @ \cup {[by |-> c.by, uphold |-> c.uphold]}])
       ELSE EndCall(q)
    /\ UNCHANGED <<seats, rejections, proof, appeal, heard>>

SaveVote(q) ==
    /\ call[q].step = "vote"
    /\ appeal' = call[q].copy
    /\ GoOn(q, "count", call[q].copy)
    /\ heard' = [heard EXCEPT !.votes = @ \cup {[by |-> call[q].by, uphold |-> call[q].uphold]}]
    /\ UNCHANGED <<seats, rejections, proof>>

\* A resolution when there are as many votes in the copy as reviewer rows.
Upholds(a) == Cardinality({v \in a.votes : v.uphold})
Outcome(a) == IF 2 * Upholds(a) > Cardinality(a.votes) THEN "upheld" ELSE "denied"
\* Mutation: half of the seats decide.
HalfVoted(a) == 2 * Cardinality(a.votes) >= Rows
\* Every reviewer row has been counted for.
EveryoneVoted(a) == Cardinality(a.votes) = Rows
CountReviewers(q) ==
    /\ call[q].step = "count"
    /\ LET copy == call[q].copy IN
       IF EveryoneVoted(copy)
       THEN GoOn(q, "resolve", [copy EXCEPT !.status = Outcome(copy)])
       ELSE EndCall(q)
    /\ UNCHANGED <<seats, rejections, proof, appeal, heard>>

SaveOutcome(q) ==
    /\ call[q].step = "resolve"
    /\ appeal' = call[q].copy
    /\ heard' = [heard EXCEPT !.outcomes = @ \cup {call[q].copy.status}]
    /\ IF call[q].copy.status = "denied" THEN GoOn(q, "reactivate", call[q].copy) ELSE EndCall(q)
    /\ UNCHANGED <<seats, rejections, proof>>

\* A denied rejection: with a proof, the rejections are deleted and the
\* milestone is under review again.
Reactivate(q) ==
    /\ call[q].step = "reactivate"
    /\ IF proof THEN rejections' = 0 ELSE UNCHANGED rejections
    /\ EndCall(q)
    /\ UNCHANGED <<seats, proof, appeal, heard>>

\* The process stops, or an await rejects, once at most.
CutCall(q) ==
    /\ call[q] # NoRequest /\ ~heard.cut
    /\ heard' = [heard EXCEPT !.cut = TRUE]
    /\ EndCall(q)
    /\ UNCHANGED <<seats, rejections, proof, appeal>>

-----------------------------------------------------------------------------

AppealInit ==
    /\ seats = [r \in Reviewer |-> 1]
    /\ rejections = 0 /\ proof = FALSE /\ appeal = NoAppeal
    /\ call = [q \in AppealRequest |-> NoRequest]
    /\ heard = [votes |-> {}, outcomes |-> {}, overlapped |-> FALSE, changes |-> 0, cut |-> FALSE]

VoteStep(q) ==
    CheckSeat(q) \/ SaveVote(q) \/ CountReviewers(q) \/ SaveOutcome(q) \/ Reactivate(q)

AppealNext ==
    \/ \E r \in Reviewer : AddReviewer(r) \/ RemoveReviewer(r)
    \/ RecordRejection \/ PostProof
    \/ \E q \in AppealRequest :
          \/ BeginOpen(q) \/ InsertAppeal(q) \/ VoteStep(q) \/ CutCall(q)
          \/ \E r \in Reviewer, uphold \in BOOLEAN : BeginVote(q, r, uphold)

-----------------------------------------------------------------------------

\* Whatever interleaves, the outcome that is stored is the majority of the
\* votes stored with it, one of an address (milestone-appeals.ts:286-300).
OutcomeIsOfTheVotes ==
    /\ appeal.status \in Outcomes => appeal.status = Outcome(appeal)
    /\ \A v, w \in appeal.votes : v.by = w.by => v = w

\* Requests one after the other: every vote answered is stored, an outcome is
\* final, and nobody decides alone: an appeal is closed only by as many
\* addresses as there were reviewer rows (milestone-appeals.ts:264-300).
SequentialVotesCount ==
    ~heard.overlapped =>
        /\ appeal.votes = heard.votes
        /\ heard.outcomes \subseteq {appeal.status}
        /\ heard.changes = 0 /\ appeal.status \in Outcomes =>
              {v.by : v \in appeal.votes} = Reviewer

\* Appeals end as their votes say, and no vote that was answered is lost (milestone-appeals.ts).
AppealsAreSound == OutcomeIsOfTheVotes /\ SequentialVotesCount

-----------------------------------------------------------------------------
(***************************************************************************)
(* Dispute rows of one milestone (routes/disputes.ts).  Nothing but a read *)
(* before the insert keeps a milestone to one row.  Arguments and the      *)
(* council's resolution read the row and save their copy of it, every      *)
(* column of it.                                                           *)
(***************************************************************************)

CONSTANTS Council,         \* addresses with the permission admin:all
          DisputeRequest,  \* requests that may be under way at once
          MaxDisputes,     \* bound: rows
          MaxCalls         \* bound: requests

ASSUME DisputesAssumption ==
    {MaxDisputes, MaxCalls} \subseteq Nat /\ "nobody" \notin Council

NoDesk == [step |-> "idle"]
Sides == {"contributor", "funder"}
Open == [status |-> "open", contributor |-> 0, funder |-> 0, by |-> "nobody"]

VARIABLES
    disputes,  \* rows: status, the argument of each role (0: none), who resolved it
    desk,      \* what each request is doing, the row it is about and its copy
    minutes    \* history: arguments and resolutions answered, overlaps, requests

disputeVars == <<disputes, desk, minutes>>

Begin(q, job) ==
    /\ desk[q] = NoDesk /\ minutes.calls < MaxCalls
    /\ desk' = [desk EXCEPT ![q] = job]
    /\ minutes' = [minutes EXCEPT !.calls = @ + 1, !.overlapped =
                      @ \/ \E p \in DisputeRequest : desk[p] # NoDesk]
    /\ UNCHANGED disputes

\* POST .../dispute: any row of the milestone, resolved or not, refuses it.
BeginDispute(q) ==
    /\ disputes = <<>>
    /\ Begin(q, [step |-> "insert"])
InsertDispute(q) ==
    /\ desk[q].step = "insert" /\ Len(disputes) < MaxDisputes
    /\ disputes' = Append(disputes, Open)
    /\ desk' = [desk EXCEPT ![q] = NoDesk]
    /\ UNCHANGED minutes

\* POST /:id/argument by either side, again and again while the row is open.
BeginArgument(q, i, role) ==
    /\ disputes[i].status = "open"
    /\ Begin(q, [step |-> "save", id |-> i,
                 copy |-> [disputes[i] EXCEPT ![role] = minutes.calls + 1]])

\* POST /:id/resolve by a member of the council.
BeginResolve(q, i, member, payout) ==
    /\ disputes[i].status = "open"
    /\ Begin(q, [step |-> "save", id |-> i,
                 copy |-> [disputes[i] EXCEPT !.by = member, !.status =
                              IF payout THEN "resolved_payout" ELSE "resolved_refund"]])

SaveDispute(q) ==
    LET c == desk[q] IN
    /\ c.step = "save"
    /\ disputes' = [disputes EXCEPT ![c.id] = c.copy]
    /\ desk' = [desk EXCEPT ![q] = NoDesk]
    /\ minutes' = [minutes EXCEPT !.answered[c.id] = Append(@, c.copy)]

DisputeInit ==
    /\ disputes = <<>>
    /\ desk = [q \in DisputeRequest |-> NoDesk]
    /\ minutes = [answered |-> [i \in 1..MaxDisputes |-> <<>>], overlapped |-> FALSE, calls |-> 0]

DisputeNext == \E q \in DisputeRequest :
    \/ BeginDispute(q) \/ InsertDispute(q) \/ SaveDispute(q)
    \/ \E i \in DOMAIN disputes :
          \/ \E role \in Sides : BeginArgument(q, i, role)
          \/ \E member \in Council, payout \in BOOLEAN : BeginResolve(q, i, member, payout)

-----------------------------------------------------------------------------

\* Whatever interleaves, a row that says it is resolved names the member of the
\* council who resolved it, and no other row does (disputes.ts:183-188).
ResolutionIsSigned ==
    \A i \in DOMAIN disputes :
        disputes[i].status = "open" <=> disputes[i].by \notin Council

\* Requests one after the other: a milestone has one row, a resolution is
\* final, and no argument answered before it is lost (disputes.ts:108-128,
\* 172-188, 275-291).
SequentialDisputesAreFinal ==
    ~minutes.overlapped =>
        /\ Len(disputes) <= 1
        /\ \A i \in DOMAIN disputes :
           LET told == minutes.answered[i] IN
              /\ told # <<>> => disputes[i] = told[Len(told)]
              /\ \A j, k \in DOMAIN told : j < k =>
                    /\ told[j].status = "open"
                    /\ \A role \in Sides : told[j][role] <= told[k][role]

\* Disputes are resolved by the council, once (disputes.ts).
DisputesAreSound == ResolutionIsSigned /\ SequentialDisputesAreFinal
=============================================================================
