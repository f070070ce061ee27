------------------------------- MODULE ReviewBatch -------------------------------
(***************************************************************************)
(* The reviewer's page: the milestones that wait for a vote, their filter, *)
(* and the batch mode, which collects votes, asks once and runs them with  *)
(* the page's BatchBuilder.  The executor is a stub of the page: it sends  *)
(* nothing and never fails.  The list is the one the page expects of the    *)
(* API: no service of the repository has that route.                       *)
(***************************************************************************)
EXTENDS Naturals, SequencesExt, FiniteSetsExt

CONSTANTS Waiting,    \* milestones that can be listed
          Wallets,    \* addresses of the wallet
          BatchMax,   \* BATCH_MAX
          MaxFetches  \* bound: requests for the list

ASSUME ReviewBatchAssumption == BatchMax \in Nat \ {0} /\ MaxFetches \in Nat

VARIABLES
    voted,        \* milestones each wallet voted for elsewhere, as the API knows them
    reviewDesk,   \* address, list shown, loading, filter, batch mode, dialog, executing
    chosenVotes,  \* batchSelection: milestone -> approve, reject or none
    fetches,      \* requests for a list: whose, and what was answered
    batchQueue,   \* operations of the BatchBuilder
    toast,        \* the message, with what was asked when it was confirmed
    asked         \* requests so far

batchVars == <<voted, reviewDesk, chosenVotes, fetches, batchQueue, toast, asked>>

NoVote == "none"
Cleared == [m \in Waiting |-> NoVote]
Selected == {m \in Waiting : chosenVotes[m] # NoVote}
NoToast == [n |-> 0, all |-> FALSE, confirmed |-> Cleared]

\* The API lists each waiting milestone with the votes it has, of every reviewer.
ListedReviews == [known |-> TRUE, votes |-> voted]
Unknown == [known |-> FALSE, votes |-> [a \in Wallets |-> {}]]
HasVoted(m) == m \in reviewDesk.list.votes[reviewDesk.address]
ShownReviews == IF ~reviewDesk.list.known THEN {}
         ELSE {m \in Waiting : CASE reviewDesk.filter = "all" -> TRUE
                                 [] reviewDesk.filter = "pending" -> ~HasVoted(m)
                                 [] OTHER -> HasVoted(m)}
PendingReviews == IF reviewDesk.list.known THEN {m \in Waiting : ~HasVoted(m)} ELSE {}

-----------------------------------------------------------------------------

\* fetchMilestones(): the page is loading until any answer comes.
Fetching(a) ==
    /\ asked < MaxFetches /\ asked' = asked + 1
    /\ fetches' = fetches \union {[id |-> asked, of |-> a, answer |-> Unknown, read |-> FALSE]}

\* The wallet's address, at first or another one; the list stays, and so do the
\* votes that were chosen.
ChangeWallet(a) ==
    /\ a # reviewDesk.address
    /\ reviewDesk' = [reviewDesk EXCEPT !.address = a, !.loading = TRUE]
    /\ Fetching(a)
    /\ UNCHANGED <<voted, chosenVotes, batchQueue, toast>>

ReadList(f) ==
    /\ f \in fetches /\ ~f.read
    /\ fetches' = (fetches \ {f}) \union {[f EXCEPT !.answer = ListedReviews, !.read = TRUE]}
    /\ UNCHANGED <<voted, reviewDesk, chosenVotes, batchQueue, toast, asked>>

\* Whatever was asked last, the list is the one answered last; a failed request
\* empties it.  executeBatch() waits for its own.
AnswerList(f, ok) ==
    /\ f \in fetches /\ f.read
    /\ fetches' = fetches \ {f}
    /\ reviewDesk' = [reviewDesk EXCEPT !.list = IF ok THEN f.answer ELSE Unknown,
                            !.loading = FALSE,
                            !.executing = @ /\ reviewDesk.awaits # f.id,
                            !.dialog = @ /\ reviewDesk.awaits # f.id,
                            !.awaits = IF @ = f.id THEN MaxFetches ELSE @]
    /\ UNCHANGED <<voted, chosenVotes, batchQueue, toast, asked>>

\* A vote on the milestone's own page, or in another browser, that the API knows.
VoteElsewhere(a, m) ==
    /\ m \notin voted[a]
    /\ voted' = [voted EXCEPT ![a] = @ \union {m}]
    /\ UNCHANGED <<reviewDesk, chosenVotes, fetches, batchQueue, toast, asked>>

SetFilter(tab) ==
    /\ tab # reviewDesk.filter /\ ~reviewDesk.dialog
    /\ reviewDesk' = [reviewDesk EXCEPT !.filter = tab]
    /\ UNCHANGED <<voted, chosenVotes, fetches, batchQueue, toast, asked>>

\* The bar below the page.
BatchBar == reviewDesk.batch /\ Selected # {}

\* In the pending tab, or from the bar, which every tab has.
ToggleBatchMode ==
    /\ ~reviewDesk.dialog
    /\ (reviewDesk.filter = "pending" /\ PendingReviews # {}) \/ BatchBar
    /\ reviewDesk' = [reviewDesk EXCEPT !.batch = ~@]
    /\ chosenVotes' = IF reviewDesk.batch THEN Cleared ELSE chosenVotes
    /\ UNCHANGED <<voted, fetches, batchQueue, toast, asked>>

\* The list: a spinner, a message, or a card for each milestone, with the two buttons
\* of the batch, my vote, or a link to its own page.
ListStatus == IF reviewDesk.loading THEN "spinner" ELSE IF ShownReviews = {} THEN "none" ELSE "cards"
CardOffers(m) == CASE HasVoted(m) -> "my vote" [] reviewDesk.batch -> "buttons" [] OTHER -> "link"
\* At the cap only the buttons of what has a vote are enabled.
IsAtCap(m) == Cardinality(Selected) >= BatchMax /\ chosenVotes[m] = NoVote
BatchOffered(m) ==
    /\ ~reviewDesk.dialog /\ ListStatus = "cards" /\ m \in ShownReviews
    /\ CardOffers(m) = "buttons" /\ ~IsAtCap(m)

\* The same vote again takes it back.
SetVote(m, vote) ==
    /\ BatchOffered(m)
    /\ chosenVotes[m] = NoVote => Cardinality(Selected) < BatchMax
    /\ chosenVotes' = [chosenVotes EXCEPT ![m] = IF @ = vote THEN NoVote ELSE vote]
    /\ UNCHANGED <<voted, reviewDesk, fetches, batchQueue, toast, asked>>

ClearBatch ==
    /\ ~reviewDesk.dialog /\ BatchBar
    /\ chosenVotes' = Cleared
    /\ UNCHANGED <<voted, reviewDesk, fetches, batchQueue, toast, asked>>

OpenBatchDialog ==
    /\ BatchBar /\ ~reviewDesk.executing /\ ~reviewDesk.dialog
    /\ reviewDesk' = [reviewDesk EXCEPT !.dialog = TRUE]
    /\ UNCHANGED <<voted, chosenVotes, fetches, batchQueue, toast, asked>>
CancelDialog ==
    /\ reviewDesk.dialog /\ ~reviewDesk.executing
    /\ reviewDesk' = [reviewDesk EXCEPT !.dialog = FALSE]
    /\ UNCHANGED <<voted, chosenVotes, fetches, batchQueue, toast, asked>>

-----------------------------------------------------------------------------
(* BatchBuilder *)

\* An operation for each milestone that has a vote.
AddOperations(ms) ==
    [i \in DOMAIN ms |-> [milestone |-> ms[i], vote |-> chosenVotes[ms[i]], status |-> "pending"]]
Executor == "success"
\* One after the other; the operations stay in the builder.
Execute(ops) == [i \in DOMAIN ops |-> [ops[i] EXCEPT !.status = Executor]]
Succeeded(ops) == Cardinality({i \in DOMAIN ops : ops[i].status = "success"})

\* executeBatch(): the builder is emptied, filled with what was chosen and run;
\* then the list is asked for again.
ExecuteBatch ==
    /\ reviewDesk.dialog /\ ~reviewDesk.executing /\ Selected # {}
    /\ batchQueue' = Execute(AddOperations(SetToSeq(Selected)))
    /\ toast' = [n |-> Succeeded(batchQueue'), all |-> Succeeded(batchQueue') = Len(batchQueue'),
                 confirmed |-> chosenVotes]
    /\ chosenVotes' = Cleared
    /\ reviewDesk' = [reviewDesk EXCEPT !.executing = TRUE, !.batch = FALSE, !.loading = TRUE,
                            !.awaits = asked]
    /\ Fetching(reviewDesk.address)
    /\ UNCHANGED voted

CloseToast ==
    /\ toast # NoToast
    /\ toast' = NoToast
    /\ UNCHANGED <<voted, reviewDesk, chosenVotes, fetches, batchQueue, asked>>

-----------------------------------------------------------------------------

BatchInit ==
    /\ voted = [a \in Wallets |-> {}]
    /\ \E a \in Wallets :
        /\ reviewDesk = [address |-> a, list |-> Unknown, loading |-> TRUE, filter |-> "all",
                   batch |-> FALSE, dialog |-> FALSE, executing |-> FALSE, awaits |-> MaxFetches]
        /\ fetches = {[id |-> 0, of |-> a, answer |-> Unknown, read |-> FALSE]}
    /\ chosenVotes = Cleared /\ batchQueue = <<>> /\ toast = NoToast /\ asked = 1

BatchNext ==
    \/ \E a \in Wallets : ChangeWallet(a) \/ \E m \in Waiting : VoteElsewhere(a, m)
    \/ \E f \in fetches : ReadList(f) \/ \E ok \in BOOLEAN : AnswerList(f, ok)
    \/ \E tab \in {"all", "pending", "voted"} : SetFilter(tab)
    \/ \E m \in Waiting, vote \in {"approve", "reject"} : SetVote(m, vote)
    \/ ToggleBatchMode \/ ClearBatch \/ OpenBatchDialog \/ CancelDialog \/ ExecuteBatch \/ CloseToast

-----------------------------------------------------------------------------

\* What the builder ran is what stood in the dialog, each vote once and at most
\* BATCH_MAX, and the message counts it; nothing of an earlier batch is left in it.
BatchIsWhatWasConfirmed ==
    toast # NoToast =>
        /\ {<<batchQueue[i].milestone, batchQueue[i].vote>> : i \in DOMAIN batchQueue} =
               {<<m, toast.confirmed[m]>> : m \in {n \in Waiting : toast.confirmed[n] # NoVote}}
        /\ Len(batchQueue) <= BatchMax /\ toast.n = Len(batchQueue) /\ toast.all

\* Votes are chosen in batch mode only and never more than the cap, whatever
\* lists and wallets come in between; and a batch that was run lets the page go.
PageStaysUsable ==
    /\ Selected # {} => reviewDesk.batch /\ Cardinality(Selected) <= BatchMax
    /\ reviewDesk.executing => \E f \in fetches : f.id = reviewDesk.awaits
    /\ reviewDesk.dialog => reviewDesk.executing \/ Selected # {}

\* A batch is what was confirmed, and the page is usable after it (review/page.tsx).
BatchIsSound == BatchIsWhatWasConfirmed /\ PageStaysUsable
=============================================================================
