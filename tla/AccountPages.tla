---------------------------- MODULE AccountPages ----------------------------
(***************************************************************************)
(* Two pages that list what concerns the connected wallet: the disputes a  *)
(* council member may resolve, and a wallet's own grants.                  *)
(***************************************************************************)
EXTENDS Naturals, FiniteSetsExt

(***************************************************************************)
(* The council's page: it asks whether the wallet is the council's, loads  *)
(* the open disputes, or what looks like one in the grants if that fails,  *)
(* then the arguments of each, then the history, and loads again when a    *)
(* dispute has been resolved. A load that was overtaken is given up.       *)
(***************************************************************************)

CONSTANTS CouncilWallets, OtherWallets,
          Case,           \* milestones of grants that are disputed
          Loader,         \* loads that can be under way together
          MaxTurns,       \* bound: wallets, retries and resolutions
          MaxPanelFaults  \* bound: requests that fail

NoMember == "nobody"

VARIABLES
    member,      \* the wallet
    isCouncil,   \* what the page thinks of it: null, true, false
    cases,       \* what the server has: each milestone is submitted, disputed or resolved
    argued,      \* the cases whose arguments the server knows
    loaders,     \* each load: idle, open, grants, arguments or history; cancelled; what it has
    loadingNow,  \* the load that has not been overtaken
    panel,       \* disputes, with or without arguments; history; loading; error
    settledBy,   \* history: the cases this page has resolved, and is to show no more
    turns, panelFaults

panelVars == <<member, isCouncil, cases, argued, loaders, loadingNow, panel, settledBy, turns, panelFaults>>

NoLoader == [at |-> "idle", cancelled |-> FALSE, open |-> {}, told |-> {}, resolved |-> {}]
Of(state) == {c \in Case : cases[c] = state}

-----------------------------------------------------------------------------
(* A load *)

\* The effect: the load under way, if any, is cancelled.
FetchData ==
    \E l \in Loader :
        /\ loaders[l].at = "idle"
        /\ loaders' = [m \in Loader |->
              IF m = l THEN [NoLoader EXCEPT !.at = "open"]
              ELSE [loaders[m] EXCEPT !.cancelled = loaders[m].at # "idle"]]
        /\ loadingNow' = {l}
        /\ panel' = [panel EXCEPT !.loading = TRUE, !.error = FALSE]
StopLoading ==
    /\ loaders' = [m \in Loader |-> [loaders[m] EXCEPT !.cancelled = loaders[m].at # "idle"]]
    /\ loadingNow' = {}
    /\ UNCHANGED panel

Step(l, load) ==
    /\ loaders' = [loaders EXCEPT ![l] = load]
    /\ UNCHANGED <<member, isCouncil, cases, argued, loadingNow, settledBy, turns>>
Failing == panelFaults < MaxPanelFaults /\ panelFaults' = panelFaults + 1
AnswersFine == UNCHANGED panelFaults

ReadOpen(l) ==
    /\ loaders[l].at = "open"
    /\ \/ AnswersFine /\ Step(l, [loaders[l] EXCEPT !.open = Of("disputed"), !.at = "arguments"])
       \/ Failing /\ Step(l, [loaders[l] EXCEPT !.at = "grants"])
    /\ UNCHANGED panel
\* In a grant that has a dispute a milestone that waits for votes looks like one too;
\* a grant whose milestones cannot be read is left out.
ReadGrants(l) ==
    /\ loaders[l].at = "grants" /\ AnswersFine
    /\ LET found == IF Of("disputed") = {} THEN {} ELSE Of("disputed") \cup Of("submitted") IN
       \/ Step(l, [loaders[l] EXCEPT !.open = found, !.at = "arguments"])
       \/ Step(l, [loaders[l] EXCEPT !.open = {}, !.at = "arguments"])
    /\ UNCHANGED panel
\* One request for each dispute; one that fails leaves that dispute as it is.
ReadArguments(l) ==
    /\ loaders[l].at = "arguments"
    /\ \/ AnswersFine /\ Step(l, [loaders[l] EXCEPT !.told = argued \cap loaders[l].open, !.at = "history"])
       \/ Failing /\ Step(l, [loaders[l] EXCEPT !.at = "history"])
    /\ UNCHANGED panel
ReadHistory(l) ==
    /\ loaders[l].at = "history"
    /\ LET show(resolved) ==
             panel' = IF loaders[l].cancelled THEN panel
                      ELSE [panel EXCEPT !.disputes = loaders[l].open, !.told = loaders[l].told,
                                         !.history = resolved, !.loading = FALSE]
       IN \/ AnswersFine /\ show(Of("resolved"))
          \/ Failing /\ show({})
    /\ loaders' = [loaders EXCEPT ![l] = NoLoader]
    /\ loadingNow' = loadingNow \ {l}
    /\ UNCHANGED <<member, isCouncil, cases, argued, settledBy, turns>>
\* The list of grants cannot be read either.
LoadingFails(l) ==
    /\ loaders[l].at = "grants" /\ Failing
    /\ panel' = IF loaders[l].cancelled THEN panel ELSE [panel EXCEPT !.error = TRUE, !.loading = FALSE]
    /\ loaders' = [loaders EXCEPT ![l] = NoLoader]
    /\ loadingNow' = loadingNow \ {l}
    /\ UNCHANGED <<member, isCouncil, cases, argued, settledBy, turns>>

-----------------------------------------------------------------------------
(* The wallet *)

Turn == turns < MaxTurns /\ turns' = turns + 1

IsCouncilMember(wallet) == wallet \in CouncilWallets
\* Membership is looked up in what the environment lists; the effect runs when the
\* answer changes.
ChangeMember(wallet) ==
    /\ Turn /\ wallet # member
    /\ member' = wallet
    /\ isCouncil' = IF wallet = NoMember THEN "null"
                    ELSE IF IsCouncilMember(wallet) THEN "true" ELSE "false"
    /\ IF isCouncil' = isCouncil THEN UNCHANGED <<loaders, loadingNow, panel>>
       ELSE IF isCouncil' = "true" THEN FetchData ELSE StopLoading
    /\ UNCHANGED <<cases, argued, settledBy, panelFaults>>

\* What the page shows.
Screen ==
    IF isCouncil = "false" THEN "restricted"
    ELSE IF member = NoMember THEN "connect"
    ELSE IF panel.loading THEN "shimmer"
    ELSE IF panel.error THEN "error"
    ELSE IF panel.disputes = {} THEN "quiet" ELSE "disputes"

-----------------------------------------------------------------------------
(* Its cases *)

RetryPanel ==
    /\ Turn /\ Screen = "error"
    /\ FetchData
    /\ UNCHANGED <<member, isCouncil, cases, argued, settledBy, panelFaults>>
\* A dispute's card has resolved it, and the backend knows.
OnResolved(c) ==
    /\ Turn /\ Screen = "disputes" /\ c \in panel.disputes /\ cases[c] = "disputed"
    /\ cases' = [cases EXCEPT ![c] = "resolved"]
    /\ settledBy' = settledBy \cup {c}
    /\ FetchData
    /\ UNCHANGED <<member, isCouncil, argued, panelFaults>>
\* The others: a milestone is disputed, arguments are given, another member resolves.
OthersAct(c) ==
    /\ Turn
    /\ \/ cases[c] = "submitted" /\ cases' = [cases EXCEPT ![c] = "disputed"] /\ UNCHANGED argued
       \/ cases[c] = "disputed" /\ cases' = [cases EXCEPT ![c] = "resolved"] /\ UNCHANGED argued
       \/ cases[c] = "disputed" /\ c \notin argued /\ argued' = argued \cup {c} /\ UNCHANGED cases
    /\ UNCHANGED <<member, isCouncil, loaders, loadingNow, panel, settledBy, panelFaults>>

-----------------------------------------------------------------------------

PanelInit ==
    /\ member = NoMember /\ isCouncil = "null"
    /\ cases \in [Case -> {"submitted", "disputed"}] /\ argued = {}
    /\ loaders = [l \in Loader |-> NoLoader] /\ loadingNow = {}
    /\ panel = [disputes |-> {}, told |-> {}, history |-> {}, loading |-> FALSE, error |-> FALSE]
    /\ settledBy = {} /\ turns = 0 /\ panelFaults = 0

PanelNext ==
    \/ RetryPanel
    \/ \E w \in CouncilWallets \cup OtherWallets \cup {NoMember} : ChangeMember(w)
    \/ \E c \in Case : OnResolved(c) \/ OthersAct(c)
    \/ \E l \in Loader : \/ ReadOpen(l) \/ ReadGrants(l) \/ ReadArguments(l)
                         \/ ReadHistory(l) \/ LoadingFails(l)

\* Requests end.
PanelFairness ==
    \A l \in Loader : WF_panelVars(ReadOpen(l) \/ ReadGrants(l) \/ ReadArguments(l)
                                   \/ ReadHistory(l) \/ LoadingFails(l))

-----------------------------------------------------------------------------
(* Properties *)

\* Once the loads have ended the page shows no dispute it has itself resolved, however
\* late the answers of an older load came; and only the council sees disputes.
ResolvedLeaves ==
    /\ Screen \in {"disputes", "quiet"} => panel.disputes \cap settledBy = {}
    /\ Screen \in {"disputes", "quiet", "error"} => IsCouncilMember(member)
    /\ panel.told \subseteq panel.disputes
\* The shimmer belongs to a load that will end.
ShimmerEnds == Screen = "shimmer" => loadingNow # {}

\* A dispute that was resolved leaves the list, and waiting ends (DisputePanelClient.tsx).
PanelIsSound == ResolvedLeaves /\ ShimmerEnds

\* Every council member sees a list, an error, or that all is quiet.
PanelShows == <>[](Screen # "shimmer")

-----------------------------------------------------------------------------
(***************************************************************************)
(* A wallet's dashboard. The tab is in the URL; the wallet's balance and   *)
(* reputation are read for each wallet, and given up with it; the grants   *)
(* of the tab are read for each tab and wallet, and are not given up, so   *)
(* that the answers of two tabs may come in either order.                  *)
(***************************************************************************)

CONSTANTS DashWallet,
          DashAsk,       \* requests that can be under way together
          MaxDashTurns,  \* bound: what the user does
          MaxDashFaults  \* bound: requests that fail

ASSUME DashboardAssumption == {MaxDashTurns, MaxDashFaults} \subseteq Nat

NoOne == "no one"
NoTab == "none"
GrantTabs == {"my-grants", "funding", "reviewing"}
DashTabs == GrantTabs \cup {"watching"}
NoneListed == [tab |-> NoTab, of |-> NoOne]
NoDashAsk == [what |-> "idle", tab |-> NoTab, of |-> NoOne]

VARIABLES
    dashAccount,   \* the wallet that is connected
    activeTab,     \* the URL's tab
    nextTab,       \* the tab of the URL the router has to commit
    info,          \* whose balance and reputation are shown
    listing,       \* whose grants are shown, by which tab; whether it is loading
    dashAsks,      \* each request: what it asks for, for which tab and wallet
    qr,            \* whether the QR code was asked for
    listsCrossed,  \* history: two lists have been under way together
    dashTurns, dashFaults

dashVars == <<dashAccount, activeTab, nextTab, info, listing, dashAsks, qr, listsCrossed, dashTurns, dashFaults>>

Turned == dashTurns < MaxDashTurns /\ dashTurns' = dashTurns + 1
ListAsks == {a \in DashAsk : dashAsks[a].what = "list"}

-----------------------------------------------------------------------------
(* Requests *)

\* Mutation: the information of the old wallet is not aborted.
NeverAborted(a, newWallet) == dashAsks[a]
\* The abort controller of the old information; a list is never aborted.
StillAsked(a, newWallet) ==
    IF newWallet /\ dashAsks[a].what = "info" THEN NoDashAsk ELSE dashAsks[a]
\* The requests after the wallet or the tab has changed: the list is asked for, by an
\* effect, unless the tab has none; with a new wallet the old information is aborted,
\* and new asked for.
FetchGrants(tab, who, newWallet) ==
    \E free \in DashAsk \X DashAsk :
        LET asksList == who # NoOne /\ tab # "watching"
            asksInfo == who # NoOne /\ newWallet
            left == [a \in DashAsk |-> StillAsked(a, newWallet)]
        IN
        /\ free[1] # free[2] /\ left[free[1]] = NoDashAsk /\ left[free[2]] = NoDashAsk
        /\ dashAsks' = [a \in DashAsk |->
              IF a = free[1] /\ asksList THEN [what |-> "list", tab |-> tab, of |-> who]
              ELSE IF a = free[2] /\ asksInfo THEN [what |-> "info", tab |-> NoTab, of |-> who]
              ELSE left[a]]
        /\ listing' = IF asksList THEN [shows |-> NoneListed, loading |-> TRUE] ELSE listing
        /\ listsCrossed' = (listsCrossed \/ (asksList /\ ListAsks # {}))

ListArrives(a) ==
    /\ dashAsks[a].what = "list"
    /\ listing' = [shows |-> [tab |-> dashAsks[a].tab, of |-> dashAsks[a].of], loading |-> FALSE]
    /\ dashAsks' = [dashAsks EXCEPT ![a] = NoDashAsk]
    /\ UNCHANGED <<dashAccount, activeTab, nextTab, info, qr, listsCrossed, dashTurns, dashFaults>>
\* An error is shown as an empty list.
ListFails(a) ==
    /\ dashAsks[a].what = "list" /\ dashFaults < MaxDashFaults
    /\ dashFaults' = dashFaults + 1
    /\ listing' = [listing EXCEPT !.loading = FALSE]
    /\ dashAsks' = [dashAsks EXCEPT ![a] = NoDashAsk]
    /\ UNCHANGED <<dashAccount, activeTab, nextTab, info, qr, listsCrossed, dashTurns>>
LoadWalletInfo(a) ==
    /\ dashAsks[a].what = "info"
    /\ info' = dashAsks[a].of
    /\ dashAsks' = [dashAsks EXCEPT ![a] = NoDashAsk]
    /\ UNCHANGED <<dashAccount, activeTab, nextTab, listing, qr, listsCrossed, dashTurns, dashFaults>>
InfoFails(a) ==
    /\ dashAsks[a].what = "info" /\ dashFaults < MaxDashFaults
    /\ dashFaults' = dashFaults + 1
    /\ dashAsks' = [dashAsks EXCEPT ![a] = NoDashAsk]
    /\ UNCHANGED <<dashAccount, activeTab, nextTab, info, listing, qr, listsCrossed, dashTurns>>

-----------------------------------------------------------------------------
(* The wallet and the tab *)

ChangeAccount(who) ==
    /\ Turned /\ who # dashAccount
    /\ dashAccount' = who /\ info' = NoOne
    /\ FetchGrants(activeTab, who, TRUE)
    /\ UNCHANGED <<activeTab, nextTab, qr, dashFaults>>
TabsShown == dashAccount # NoOne \/ activeTab = "watching"
SetDashTab(tab) ==
    /\ Turned /\ (TabsShown \/ tab = "watching")
    /\ nextTab' = tab
    /\ UNCHANGED <<dashAccount, activeTab, info, listing, dashAsks, qr, listsCrossed, dashFaults>>
CommitTab ==
    /\ nextTab # NoTab /\ nextTab' = NoTab
    /\ activeTab' = nextTab
    /\ IF nextTab = activeTab THEN UNCHANGED <<listing, dashAsks, listsCrossed>>
       ELSE FetchGrants(nextTab, dashAccount, FALSE)
    /\ UNCHANGED <<dashAccount, info, qr, dashTurns, dashFaults>>
ShowQR(on) ==
    /\ dashAccount # NoOne /\ qr' = on /\ qr # on
    /\ UNCHANGED <<dashAccount, activeTab, nextTab, info, listing, dashAsks, listsCrossed, dashTurns, dashFaults>>

\* What is shown under the tabs.
DashScreen ==
    IF ~TabsShown THEN "connect"
    ELSE IF activeTab = "watching" THEN "watching"
    ELSE IF listing.loading THEN "loading"
    ELSE IF listing.shows = NoneListed THEN "empty" ELSE "list"

-----------------------------------------------------------------------------

DashInit ==
    /\ dashAccount = NoOne /\ activeTab \in DashTabs /\ nextTab = NoTab
    /\ info = NoOne /\ listing = [shows |-> NoneListed, loading |-> FALSE]
    /\ dashAsks = [a \in DashAsk |-> NoDashAsk] /\ qr = FALSE
    /\ listsCrossed = FALSE /\ dashTurns = 0 /\ dashFaults = 0

DashNext ==
    \/ CommitTab
    \/ \E who \in DashWallet \cup {NoOne} : ChangeAccount(who)
    \/ \E tab \in DashTabs : SetDashTab(tab)
    \/ \E on \in BOOLEAN : ShowQR(on)
    \/ \E a \in DashAsk : ListArrives(a) \/ ListFails(a) \/ LoadWalletInfo(a) \/ InfoFails(a)

\* The router commits, and requests end.
DashFairness ==
    /\ WF_dashVars(CommitTab)
    /\ \A a \in DashAsk :
          WF_dashVars(ListArrives(a) \/ ListFails(a) \/ LoadWalletInfo(a) \/ InfoFails(a))

-----------------------------------------------------------------------------
(* Properties *)

\* No wallet's balance is shown as another's, however late its answer comes.
InfoIsOwn == info \in {NoOne, dashAccount} /\ \A a \in DashAsk : dashAsks[a].what = "info" => dashAsks[a].of = dashAccount
\* The grants listed under a tab are the tab's and the wallet's, and a list is loading
\* as long as its request is under way; unless requests of two tabs have overlapped.
ListIsTheTabs ==
    ~listsCrossed => /\ DashScreen = "list" => listing.shows = [tab |-> activeTab, of |-> dashAccount]
                     /\ DashScreen = "loading" => ListAsks # {}
                     /\ DashScreen \in {"list", "empty"} => ListAsks = {}
\* Loading ends, also after an overlap.
LoadingIsReal == listing.loading => ListAsks # {}

\* The dashboard shows its wallet's data and its tab's list (dashboard/page.tsx).
DashboardIsSound == InfoIsOwn /\ ListIsTheTabs /\ LoadingIsReal

\* Every tab ends with its list, or an empty one.
DashboardShows == <>[](DashScreen # "loading")
=============================================================================
