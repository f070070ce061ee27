------------------------------ MODULE GrantPage -----------------------------
(***************************************************************************)
(* A grant as the web frontend shows it, and its contract's balances.      *)
(***************************************************************************)
EXTENDS Naturals, FiniteSets

(***************************************************************************)
(* A grant in the web frontend: the pages that read it through one entry   *)
(* of the query cache (the grant's page, the pages of its milestones, the  *)
(* panel of watched grants), the page that fetches it for itself and asks  *)
(* for a contribution, and the dialog that does so over the grant's page.  *)
(* Amounts are small numbers; the grant is funded by others meanwhile.     *)
(***************************************************************************)

CONSTANTS
    Budget,      \* the budget of the grant
    AutoClose,   \* AUTO_CLOSE_MS, in steps of the time an answer of the API takes
    MaxReaders,  \* bound: requests of the funders' list at a time
    MaxOffers    \* bound: contributions the visitor makes

ASSUME GrantPageAssumption ==
    {Budget, AutoClose, MaxReaders, MaxOffers} \subseteq Nat

VARIABLES
    place,       \* the page that is open
    entry,       \* the cache's ["grant", id]: its shape and how much is funded
    query,       \* the request for it: the shape it will have, and what was read
    own,         \* FundGrantClient's own grant: state and how much is funded
    funded,      \* what the server answers
    fundDialog,  \* closed, form, pending or success; on the two pages that have one
    readers,     \* requests of useFunders() under way: new and old ones
    timer,       \* steps until the dialog closes itself
    offers,      \* contributions made: amount, and what the page knew was funded
    least        \* history: the most the entry showed while it was kept

grantPageVars ==
    <<place, entry, query, own, funded, fundDialog, readers, timer, offers, least>>

NoData == [shape |-> "none", funded |-> 0]
NoQuery == [shape |-> "none", got |-> 0, read |-> FALSE]
NotFetched == [state |-> "none", funded |-> 0]
NoReaders == [new |-> 0, old |-> 0]

\* Who reads the entry, and what its query function leaves in it: useGrant()
\* turns amounts into BigInt, WatchedGrantsPanel keeps them as the API's strings.
ShapeAt == [detail |-> "parsed", milestone |-> "parsed", dashboard |-> "raw"]
Reads(p) == p \in DOMAIN ShapeAt

\* GrantDetailClient computes with the amounts before it looks whether they are
\* there; only an entry of useGrant() survives that.
Renders(e) == e.shape = "parsed"

-----------------------------------------------------------------------------
(* Navigation and the cache *)

\* Leaving a page drops its dialog and what it fetched for itself, and keeps the
\* cache and its request.
Go(p) ==
    /\ place # p
    /\ place' = IF p = "detail" /\ ~Renders(entry) THEN "crashed" ELSE p
    /\ own' = IF p = "fund" THEN [NotFetched EXCEPT !.state = "asked"] ELSE NotFetched
    /\ fundDialog' = "closed" /\ timer' = 0
    /\ readers' = IF place' = "detail" THEN [NoReaders EXCEPT !.new = 1] ELSE NoReaders
    /\ UNCHANGED <<entry, query, funded, offers, least>>

\* An entry nobody reads is dropped after a while.
CacheExpires ==
    /\ ~Reads(place) /\ entry # NoData /\ query = NoQuery
    /\ entry' = NoData /\ least' = 0
    /\ UNCHANGED <<place, query, own, funded, fundDialog, readers, timer, offers>>

\* A page that reads the entry asks for it when it opens and every 15 seconds;
\* requests of one entry are not doubled.
AskGrant ==
    /\ Reads(place) /\ query = NoQuery
    /\ query' = [NoQuery EXCEPT !.shape = ShapeAt[place]]
    /\ UNCHANGED <<place, entry, own, funded, fundDialog, readers, timer, offers, least>>

\* The route and fetchGrantById(): funded is the sum of the funders, and nothing
\* when their request fails.
FundersSum == {funded, 0}
ReadGrant ==
    /\ query # NoQuery /\ ~query.read
    /\ \E got \in FundersSum : query' = [query EXCEPT !.got = got, !.read = TRUE]
    /\ UNCHANGED <<place, entry, own, funded, fundDialog, readers, timer, offers, least>>

\* A page that is rendered again while the dialog says "success" runs the effect
\* that closes it: the timer starts anew, and the funders are asked for again,
\* which marks them as loading and renders the page once more.
Rerendered(base) ==
    IF fundDialog = "success" /\ place = "detail"
    THEN /\ timer' = AutoClose
         /\ readers' = [base EXCEPT !.new = IF @ + 2 > MaxReaders THEN MaxReaders ELSE @ + 2]
    ELSE readers' = base /\ UNCHANGED timer

AnswerGrant ==
    /\ query.read
    /\ entry' = [shape |-> query.shape, funded |-> query.got]
    /\ least' = IF query.got > least THEN query.got ELSE least
    /\ query' = NoQuery
    /\ IF place = "detail" /\ ~Renders(entry')
       THEN place' = "crashed" /\ fundDialog' = "closed" /\ timer' = 0 /\ readers' = NoReaders
       ELSE /\ IF entry' # entry THEN Rerendered(readers) ELSE UNCHANGED <<readers, timer>>
            /\ UNCHANGED <<place, fundDialog>>
    /\ UNCHANGED <<own, funded, offers>>

\* useFunders(): an answer renders the page again.
AnswerFunders(age) ==
    /\ readers[age] > 0
    /\ Rerendered([readers EXCEPT ![age] = @ - 1])
    /\ UNCHANGED <<place, entry, query, own, funded, fundDialog, offers, least>>

\* FundGrantClient fetches once; an answer after it was left is ignored.
AnswerOwn ==
    /\ own.state = "asked"
    /\ \/ \E got \in FundersSum : own' = [state |-> "shown", funded |-> got]
       \/ own' = [NotFetched EXCEPT !.state = "missing"]
    /\ UNCHANGED <<place, entry, query, funded, fundDialog, readers, timer, offers, least>>

-----------------------------------------------------------------------------
(* A contribution *)

Knows == IF place = "fund" THEN own.funded ELSE entry.funded
\* Mutation: what was funded already is not taken off.
UnfundedInAll == Budget
\* What is left to fund, as the page knows it.
Unfunded == Budget - Knows

CanFund == (place = "fund" /\ own.state = "shown") \/ place = "detail"

\* The button of the page or the key F; the page of its own needs neither.
OpenDialog ==
    /\ CanFund /\ fundDialog = "closed"
    /\ fundDialog' = "form"
    /\ UNCHANGED <<place, entry, query, own, funded, readers, timer, offers, least>>

\* The form is valid for an amount of at least one stroop and at most what is
\* left; what the wallet holds is not asked.
ValidAmount(amount) == amount >= 1 /\ amount <= Unfunded

SubmitFunding(amount) ==
    /\ fundDialog = "form" /\ Cardinality(offers) < MaxOffers
    /\ ValidAmount(amount)
    /\ fundDialog' = "pending"
    /\ offers' = offers \cup {[amount |-> amount, knew |-> Knows, n |-> Cardinality(offers)]}
    /\ UNCHANGED <<place, entry, query, own, funded, readers, timer, least>>

\* fund() answers with a made up hash, and has the entry asked for again: a
\* request that is under way is dropped.  The dialog of the grant's page starts
\* its timer; the other page leaves.
Funded ==
    /\ fundDialog = "pending"
    /\ fundDialog' = "success"
    /\ query' = IF Reads(place) THEN [NoQuery EXCEPT !.shape = ShapeAt[place]] ELSE NoQuery
    /\ IF place = "detail" THEN timer' = AutoClose /\ readers' = [readers EXCEPT !.new = MaxReaders]
       ELSE UNCHANGED <<timer, readers>>
    /\ UNCHANGED <<place, entry, own, funded, offers, least>>

CloseDialog ==
    /\ fundDialog \in {"form", "success"} /\ place = "detail"
    /\ fundDialog' = "closed" /\ timer' = 0
    /\ UNCHANGED <<place, entry, query, own, funded, readers, offers, least>>

\* AUTO_CLOSE_MS are over.
ClosesItself ==
    /\ fundDialog = "success" /\ place = "detail" /\ timer = 0
    /\ fundDialog' = "closed"
    /\ UNCHANGED <<place, entry, query, own, funded, readers, timer, offers, least>>

\* A step of time: requests that were under way during the last one have been
\* answered.
TickPage ==
    /\ timer > 0 /\ readers.old = 0
    /\ timer' = timer - 1
    /\ readers' = [new |-> 0, old |-> readers.new]
    /\ UNCHANGED <<place, entry, query, own, funded, fundDialog, offers, least>>

\* Somebody else's contribution reaches the server (external).
OthersFund ==
    /\ funded < Budget
    /\ funded' = funded + 1
    /\ UNCHANGED <<place, entry, query, own, fundDialog, readers, timer, offers, least>>

-----------------------------------------------------------------------------

Places == {"home", "detail", "milestone", "dashboard", "fund"}

GrantPageInit ==
    /\ place = "home" /\ entry = NoData /\ query = NoQuery /\ own = NotFetched
    /\ funded = 0 /\ fundDialog = "closed" /\ readers = NoReaders /\ timer = 0
    /\ offers = {} /\ least = 0

GrantPageNext ==
    \/ \E p \in Places : Go(p)
    \/ CacheExpires \/ AskGrant \/ ReadGrant \/ AnswerGrant \/ AnswerOwn
    \/ \E age \in {"new", "old"} : AnswerFunders(age)
    \/ OpenDialog \/ Funded \/ CloseDialog \/ ClosesItself \/ TickPage
    \/ \E amount \in 1..Budget : SubmitFunding(amount)
    \/ OthersFund

-----------------------------------------------------------------------------

\* A contribution never exceeds what was left when the page last heard of the
\* grant, from whatever source, and what the page knew was true once.
FundsWithinLeft ==
    \A o \in offers : o.amount + o.knew <= Budget /\ o.knew <= funded

\* The amount an entry shows never goes back, except to nothing when the funders
\* cannot be read: pages that ask for it with different functions share one
\* request, and an answer to a request that was dropped is ignored.
EntryNeverGoesBack == entry # NoData => entry.funded \in {least, 0}

\* A page in use shows amounts it can compute with, and asks for no more than
\* the pages in use do.
OpenPageCanCompute ==
    /\ place = "detail" => Renders(entry)
    /\ place # "detail" => readers = NoReaders /\ timer = 0
    /\ fundDialog # "closed" => CanFund

\* The grant's page never goes back behind a funding it has shown (useFundGrant.ts, useGrant.ts).
GrantPageIsHonest == FundsWithinLeft /\ EntryNeverGoesBack /\ OpenPageCanCompute

-----------------------------------------------------------------------------
(***************************************************************************)
(* The form of a contribution, in the dialog or on the page of its own:    *)
(* what it knows of the connected wallet, what is typed or filled in, and  *)
(* what becomes of it.  What is left to fund changes meanwhile.            *)
(***************************************************************************)

CONSTANTS
    Donor,        \* wallets that may be connected
    HeldBy,       \* [Donor -> what the wallet holds]
    Thousand,     \* amounts from here on are printed with a separator
    MaxDonations  \* bound: contributions; wallets that are connected

ASSUME FundFormAssumption ==
    HeldBy \in [Donor -> Nat] /\ Thousand \in Nat \ {0} /\ MaxDonations \in Nat

VARIABLES
    formOn,      \* "dialog" or "page"
    donor,       \* the connected wallet, if any
    purse,       \* useFundGrant(): walletBalance.xlm, isBalanceLoading
    lateLoads,   \* wallets whose balance was asked for and is no longer wanted
    fundForm,        \* closed, open or thanks; the amount, an error, whether submitted once
    left,        \* what is left to fund, as the page knows it
    filled,      \* history: the last amount "Max" filled in, what was held and left then
    donated,     \* history: contributions of this form since it was opened
    connected    \* wallets connected so far

fundFormVars == <<formOn, donor, purse, lateLoads, fundForm, left, filled, donated, connected>>

NoDonor == "none"
NoFill == [amount |-> 0, held |-> 0, left |-> 0]
EmptyForm == [at |-> "open", amount |-> 0, error |-> FALSE, tried |-> FALSE]

\* What "Max" fills in is printed with separators, and read up to the first.
XlmToStroops(amount) == IF amount >= Thousand THEN amount \div Thousand ELSE amount

\* The wallet changes: the request for the old one's balance is aborted, what it held
\* is shown until the new one's is there.
ConnectDonor(w) ==
    /\ w # donor /\ connected < MaxDonations
    /\ connected' = connected + 1
    /\ donor' = w
    /\ purse' = IF w = NoDonor THEN [purse EXCEPT !.xlm = 0] ELSE [purse EXCEPT !.loading = TRUE]
    /\ lateLoads' = IF purse.loading /\ donor # NoDonor THEN lateLoads \cup {donor} ELSE lateLoads
    /\ UNCHANGED <<formOn, fundForm, left, filled, donated>>
BalanceLoaded ==
    /\ purse.loading /\ donor # NoDonor
    /\ \E xlm \in {HeldBy[donor], 0} : purse' = [xlm |-> xlm, loading |-> FALSE]
    /\ UNCHANGED <<formOn, donor, lateLoads, fundForm, left, filled, donated, connected>>
\* The answer to a request that was aborted is ignored.
LateBalance(w) ==
    /\ w \in lateLoads
    /\ lateLoads' = lateLoads \ {w}
    /\ UNCHANGED <<formOn, donor, purse, fundForm, left, filled, donated, connected>>

OpenForm ==
    /\ formOn = "dialog" /\ fundForm.at = "closed"
    /\ fundForm' = EmptyForm
    /\ donated' = 0 /\ filled' = NoFill
    /\ UNCHANGED <<formOn, donor, purse, lateLoads, left, connected>>
\* Closing resets the form and what fund() answered.
CloseForm ==
    /\ formOn = "dialog" /\ fundForm.at # "closed"
    /\ fundForm' = [EmptyForm EXCEPT !.at = "closed"]
    /\ UNCHANGED <<formOn, donor, purse, lateLoads, left, filled, donated, connected>>

\* Without a wallet both show a prompt in place of the form.
Prompted == donor = NoDonor
FormShown == fundForm.at = "open" /\ ~Prompted
\* The page's button waits for an amount.
SubmitOffered == FormShown /\ (formOn = "page" => fundForm.amount > 0)
Acceptable(amount) == amount >= 1 /\ amount <= left

\* The dialog's form checks what is typed once it was submitted; the page forgets its
\* error.
TypeAmount(amount) ==
    /\ FormShown /\ amount # fundForm.amount
    /\ fundForm' = [fundForm EXCEPT !.amount = amount,
                            !.error = formOn = "dialog" /\ fundForm.tried /\ ~Acceptable(amount)]
    /\ filled' = NoFill
    /\ UNCHANGED <<formOn, donor, purse, lateLoads, left, donated, connected>>
\* The button is there while the balance is known and something can be given.
MaxFundable == IF purse.xlm < left THEN purse.xlm ELSE left
ClickMax ==
    /\ FormShown /\ formOn = "dialog"
    /\ MaxFundable > 0 /\ ~purse.loading
    /\ LET amount == XlmToStroops(MaxFundable) IN
       /\ fundForm' = [fundForm EXCEPT !.amount = amount, !.error = ~Acceptable(amount)]
       /\ filled' = [amount |-> amount, held |-> HeldBy[donor], left |-> left]
    /\ UNCHANGED <<formOn, donor, purse, lateLoads, left, donated, connected>>
\* An amount that is not acceptable is refused.  fund() succeeds at once and the thanks
\* take the form's place.
SubmitForm ==
    /\ SubmitOffered /\ donated < MaxDonations
    /\ IF Acceptable(fundForm.amount)
       THEN fundForm' = [fundForm EXCEPT !.at = "thanks", !.error = FALSE] /\ donated' = donated + 1
       ELSE fundForm' = [fundForm EXCEPT !.error = TRUE, !.tried = TRUE] /\ UNCHANGED donated
    /\ UNCHANGED <<formOn, donor, purse, lateLoads, left, filled, connected>>
\* The grant is read again; the page of its own reads it once.
LeftChanges ==
    /\ formOn = "dialog" /\ left > 0
    /\ left' = left - 1
    /\ UNCHANGED <<formOn, donor, purse, lateLoads, fundForm, filled, donated, connected>>

FundFormInit ==
    /\ formOn \in {"dialog", "page"}
    /\ donor = NoDonor /\ purse = [xlm |-> 0, loading |-> FALSE] /\ lateLoads = {}
    /\ fundForm = [EmptyForm EXCEPT !.at = IF formOn = "page" THEN "open" ELSE "closed"]
    /\ left = Budget /\ filled = NoFill /\ donated = 0 /\ connected = 0
FundFormNext ==
    \/ \E w \in Donor \cup {NoDonor} : ConnectDonor(w)
    \/ \E w \in Donor : LateBalance(w)
    \/ \E amount \in 0..(Budget + 1) : TypeAmount(amount)
    \/ BalanceLoaded \/ OpenForm \/ CloseForm \/ ClickMax \/ SubmitForm \/ LeftChanges

\* What is shown as the wallet's balance is its own once it has been loaded, whatever
\* earlier wallet's answer comes late.
BalanceIsOwn == donor # NoDonor /\ ~purse.loading => purse.xlm \in {0, HeldBy[donor]}
\* "Max" fills in no more than the wallet that pressed it holds and than was left, and
\* all of it when it is printed without a separator.
MaxIsWithin ==
    filled # NoFill =>
        LET most == IF filled.held < filled.left THEN filled.held ELSE filled.left IN
        /\ filled.amount <= most
        /\ most < Thousand => filled.amount = most
\* A form that was opened gives once, and thanks for what it gave.
GivesOnce == donated <= 1 /\ (fundForm.at = "thanks" => donated = 1)

\* The form gives once, from the balance of the wallet it shows (FundGrantModal.tsx).
FormIsHonest == BalanceIsOwn /\ MaxIsWithin /\ GivesOnce

-----------------------------------------------------------------------------
(***************************************************************************)
(* Watching the balances of the contract account by polling Horizon: the   *)
(* listener of the SDK and its copy in the web frontend, and the composable *)
(* useGrantBalances(), which runs the listener and fetches on its own.      *)
(* A snapshot of the balances is a number that deposits and payouts change. *)
(***************************************************************************)

CONSTANTS
    Fetch,              \* calls of refetch(); the first one starts with the listener
    MaxBalanceChanges,  \* bound: changes of the balances
    MaxHorizonErrors    \* bound: requests that fail

ASSUME BalanceWatchAssumption == {MaxBalanceChanges, MaxHorizonErrors} \subseteq Nat

VARIABLES
    balance,      \* the balances on the ledger
    changes,      \* changes so far: names each value the balances had
    poll,         \* the listener's request: timer, asked, read or off, and its answer
    fetch,        \* each refetch(): idle, asked, read or done, and its answer
    previous,     \* the listener's last snapshot, 0 when it has none
    data,         \* what the component shows, 0 when nothing
    stopped,      \* the cleanup function was called
    balanceTold,  \* history: calls of onChange, those after the stop, the last value
    failures,     \* history: requests that failed
    overtaken     \* history: a refetch() answered with less than the listener knew

balanceVars ==
    <<balance, changes, poll, fetch, previous, data, stopped, balanceTold, failures, overtaken>>

\* getGrantBalances(): the account as Horizon has it when the request arrives.
Snapshot == balance

-----------------------------------------------------------------------------
(* listenToGrantBalanceChanges() *)

Ask ==
    /\ poll.at = "timer"
    /\ poll' = [poll EXCEPT !.at = "asked"]
    /\ UNCHANGED <<balance, changes, fetch, previous, data, stopped, balanceTold, failures, overtaken>>

ReadPoll ==
    /\ poll.at = "asked"
    /\ poll' = [at |-> "read", got |-> Snapshot]
    /\ UNCHANGED <<balance, changes, fetch, previous, data, stopped, balanceTold, failures, overtaken>>

\* The next timer is set unless the listener was stopped meanwhile.
NextPoll == poll' = [at |-> IF stopped THEN "off" ELSE "timer", got |-> 0]

HasBalanceChanged == previous = 0 \/ previous # poll.got

AnswerBalance ==
    /\ poll.at = "read"
    /\ previous' = poll.got
    /\ IF HasBalanceChanged
       THEN /\ data' = poll.got
            /\ balanceTold' = [balanceTold EXCEPT !.last = poll.got,
                                    !.late = IF stopped THEN @ + 1 ELSE @]
       ELSE UNCHANGED <<data, balanceTold>>
    /\ NextPoll
    /\ UNCHANGED <<balance, changes, fetch, stopped, failures, overtaken>>

PollBalanceFails ==
    /\ poll.at = "asked" /\ failures < MaxHorizonErrors
    /\ failures' = failures + 1
    /\ NextPoll
    /\ UNCHANGED <<balance, changes, fetch, previous, data, stopped, balanceTold, overtaken>>

\* The function that was returned; the composable calls it when it is unmounted.
StopListening ==
    /\ ~stopped
    /\ stopped' = TRUE
    /\ poll' = IF poll.at = "timer" THEN [poll EXCEPT !.at = "off"] ELSE poll
    /\ UNCHANGED <<balance, changes, fetch, previous, data, balanceTold, failures, overtaken>>

-----------------------------------------------------------------------------
(* refetch() of the composable *)

Refetch(f) ==
    /\ fetch[f].at = "idle" /\ ~stopped
    /\ fetch' = [fetch EXCEPT ![f].at = "asked"]
    /\ UNCHANGED <<balance, changes, poll, previous, data, stopped, balanceTold, failures, overtaken>>
ReadFetch(f) ==
    /\ fetch[f].at = "asked"
    /\ fetch' = [fetch EXCEPT ![f] = [at |-> "read", got |-> Snapshot]]
    /\ UNCHANGED <<balance, changes, poll, previous, data, stopped, balanceTold, failures, overtaken>>
AnswerFetch(f) ==
    /\ fetch[f].at = "read"
    /\ fetch' = [fetch EXCEPT ![f].at = "done"]
    /\ data' = fetch[f].got
    /\ overtaken' = (overtaken \/ fetch[f].got < data)
    /\ UNCHANGED <<balance, changes, poll, previous, stopped, balanceTold, failures>>
FetchBalanceFails(f) ==
    /\ fetch[f].at = "asked" /\ failures < MaxHorizonErrors
    /\ failures' = failures + 1
    /\ fetch' = [fetch EXCEPT ![f].at = "done"]
    /\ UNCHANGED <<balance, changes, poll, previous, data, stopped, balanceTold, overtaken>>

\* A deposit or a payout (external).
BalanceChanges ==
    /\ changes < MaxBalanceChanges
    /\ changes' = changes + 1 /\ balance' = balance + 1
    /\ UNCHANGED <<poll, fetch, previous, data, stopped, balanceTold, failures, overtaken>>

-----------------------------------------------------------------------------

\* start(): the first fetch and the listener begin together.
BalanceInit ==
    /\ balance = 1 /\ changes = 0
    /\ poll = [at |-> "asked", got |-> 0]
    /\ fetch = [f \in Fetch |-> [at |-> "idle", got |-> 0]]
    /\ previous = 0 /\ data = 0
    /\ stopped = FALSE /\ failures = 0 /\ overtaken = FALSE
    /\ balanceTold = [last |-> 0, late |-> 0]

BalanceNext ==
    \/ Ask \/ ReadPoll \/ AnswerBalance \/ PollBalanceFails \/ StopListening
    \/ \E f \in Fetch : Refetch(f) \/ ReadFetch(f) \/ AnswerFetch(f) \/ FetchBalanceFails(f)
    \/ BalanceChanges

-----------------------------------------------------------------------------

\* The component never shows a balance older than the last one the listener
\* told it of, unless a refetch() was answered out of order; and never one the
\* account did not have.
DataKeepsUp ==
    /\ data <= balance
    /\ ~overtaken => data >= balanceTold.last

\* After the cleanup function: onChange is called at most once more, for the
\* request that was under way, and no timer is left behind.
StopEnds ==
    stopped => balanceTold.late <= 1 /\ poll.at # "timer" /\ (balanceTold.late = 1 => poll.at = "off")

\* The listener tells the newest balance it read, and ends when stopped (useGrantBalances.ts).
BalancesAreTold == DataKeepsUp /\ StopEnds

BalanceFairness ==
    /\ WF_balanceVars(Ask) /\ WF_balanceVars(ReadPoll) /\ WF_balanceVars(AnswerBalance)
    /\ \A f \in Fetch : WF_balanceVars(ReadFetch(f)) /\ WF_balanceVars(AnswerFetch(f))

\* A listener that is not stopped reports the balances the account came to have;
\* the component shows them if no refetch() was answered out of order (the
\* listener does not report again what it has reported).
BalanceIsReported ==
    <>[](stopped \/ (balanceTold.last = balance /\ (overtaken \/ data = balance)))
=============================================================================
