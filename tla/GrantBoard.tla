------------------------------- MODULE GrantBoard -------------------------------
(***************************************************************************)
(* The list of grants. What is asked for is in the URL: a status, the      *)
(* words searched, a page. Filters and pages push a URL, which the router  *)
(* commits later; the search box pushes its words after a pause in typing; *)
(* a committed URL is written back into the box. The list is a query keyed *)
(* by the URL, which shows the previous list until its own has come.       *)
(***************************************************************************)
EXTENDS Integers, FiniteSetsExt, SequencesExt

CONSTANTS Status,        \* what the status pills choose
          Words,         \* what is typed
          FoundFor,      \* FoundFor[status][words]: pages of grants there are
          MaxClicks,     \* bound: what the user does
          MaxListFaults  \* bound: requests that fail

NoStatus == "any"
NoWords == "none"
Statuses == Status \cup {NoStatus}
Texts == Words \cup {NoWords}

ASSUME GrantBoardAssumption ==
    /\ NoStatus \notin Status /\ NoWords \notin Words
    /\ FoundFor \in [Statuses -> [Texts -> Nat]]
    /\ {MaxClicks, MaxListFaults} \subseteq Nat

VARIABLES
    url,             \* status, q, page: what is committed
    pushed,          \* the URL the router has to commit, if any
    box,             \* what the search box says
    pause,           \* whether the box's timer is running
    lists,           \* each URL's query: none, asked (and once more after a failure), here, failed
    placed,          \* the URL whose list was shown last
    boardOvertaken,  \* history: the URL that was shown already was pushed over one under way
    clicks, listFaults

boardVars == <<url, pushed, box, pause, lists, placed, boardOvertaken, clicks, listFaults>>

Home == [status |-> NoStatus, q |-> NoWords, page |-> 1]
NoUrl == [status |-> NoStatus, q |-> NoWords, page |-> 0]
BoardPages == 1..Max({FoundFor[s][t] : s \in Statuses, t \in Texts} \cup {1})
Urls == [status : Statuses, q : Texts, page : BoardPages]
PagesOf(u) == FoundFor[u.status][u.q]

-----------------------------------------------------------------------------
(* The pages that are offered *)

\* Numbers, and 0 for an ellipsis.
BuildPageWindow(page, totalPages) ==
    IF totalPages <= 7 THEN [i \in 1..totalPages |-> i]
    ELSE LET from == Max({2, page - 2})
             to == Min({totalPages - 1, page + 2})
             range == [i \in 1..(to - from + 1) |-> from + i - 1]
         IN <<1>> \o (IF from > 2 THEN <<0>> ELSE <<>>) \o range
                  \o (IF to < totalPages - 1 THEN <<0>> ELSE <<>>) \o <<totalPages>>

\* Every page is offered or hidden behind an ellipsis, and an ellipsis hides one.
Faithful(window, totalPages) ==
    \A i \in 1..Len(window) :
        LET before == IF i = 1 THEN 0 ELSE window[i - 1] IN
        /\ window[i] \in 0..totalPages
        /\ window[i] # 0 /\ before # 0 => window[i] = before + 1
        /\ window[i] = 0 => window[i + 1] > before + 1 /\ before > 0
        /\ i = 1 => window[i] = 1
        /\ i = Len(window) => window[i] = totalPages
WindowsAreFaithful == \A n \in 0..12 : \A p \in 1..n : Faithful(BuildPageWindow(p, n), n)

-----------------------------------------------------------------------------
(* The query *)

ListedGrants(u) == PagesOf(u) >= u.page
IsLoading == lists[url] \in {"none", "asked", "again"} /\ placed = NoUrl
ListFailed == lists[url] = "failed"
\* What the page shows: the list of the URL, or else the one that was shown.
ShownBoard == IF lists[url] = "here" THEN url ELSE placed
HasGrants == ~IsLoading /\ ~ListFailed /\ ListedGrants(ShownBoard)
HasFilters == url.status # NoStatus \/ url.q # NoWords

\* A mounted URL asks for its list unless it is fresh.
BoardAsks(u) == [lists EXCEPT ![u] = IF @ \in {"none", "failed"} THEN "asked" ELSE @]
FetchGrantsPage(u) ==
    /\ lists[u] \in {"asked", "again"}
    /\ lists' = [lists EXCEPT ![u] = "here"]
    /\ placed' = IF u = url THEN u ELSE placed
    /\ UNCHANGED <<url, pushed, box, pause, boardOvertaken, clicks, listFaults>>
FetchFails(u) ==
    /\ lists[u] \in {"asked", "again"} /\ listFaults < MaxListFaults
    /\ lists' = [lists EXCEPT ![u] = IF @ = "asked" THEN "again" ELSE "failed"]
    /\ listFaults' = listFaults + 1
    /\ UNCHANGED <<url, pushed, box, pause, placed, boardOvertaken, clicks>>
RefetchBoard ==
    /\ ListFailed
    /\ lists' = BoardAsks(url)
    /\ UNCHANGED <<url, pushed, box, pause, placed, boardOvertaken, clicks, listFaults>>

-----------------------------------------------------------------------------
(* The URL *)

SetParam(key, value) ==
    CASE key = "page" -> [url EXCEPT !.page = value]
      [] key = "q" -> [url EXCEPT !.q = value, !.page = 1]
      [] OTHER -> [url EXCEPT !.status = value, !.page = 1]
\* The router gives up the URL under way for the one pushed now.
Push(u) ==
    /\ pushed' = u
    /\ boardOvertaken' = (boardOvertaken \/ (pushed # NoUrl /\ u = url /\ box # url.q))

DebounceFires ==
    /\ pause /\ pause' = FALSE
    /\ Push(SetParam("q", box))
    /\ UNCHANGED <<url, box, lists, placed, clicks, listFaults>>

\* The router commits; a changed URL makes a new setParam(), and so arms the timer;
\* changed words go to the box.
CommitUrl ==
    /\ pushed # NoUrl
    /\ url' = pushed /\ pushed' = NoUrl
    /\ pause' = (pause \/ pushed # url)
    /\ box' = IF pushed.q # url.q THEN pushed.q ELSE box
    /\ lists' = BoardAsks(pushed)
    /\ placed' = IF lists[pushed] = "here" THEN pushed ELSE placed
    /\ UNCHANGED <<boardOvertaken, clicks, listFaults>>

-----------------------------------------------------------------------------
(* The user *)

Click == clicks < MaxClicks /\ clicks' = clicks + 1

Type(text) ==
    /\ Click /\ text # box
    /\ box' = text /\ pause' = TRUE
    /\ boardOvertaken' = FALSE
    /\ UNCHANGED <<url, pushed, lists, placed, listFaults>>
ChooseStatus(status) ==
    /\ Click /\ ~IsLoading
    /\ Push(SetParam("status", status))
    /\ UNCHANGED <<url, box, pause, lists, placed, listFaults>>
\* Previous, a number of the window, or next.
OfferedClicks == LET n == PagesOf(ShownBoard) IN
    IF n <= 1 THEN {}
    ELSE (ToSet(BuildPageWindow(url.page, n)) \cup {url.page - 1}
            \cup (IF url.page = n THEN {} ELSE {url.page + 1})) \ {0}
HandlePageChange(page) ==
    /\ Click /\ HasGrants /\ page \in OfferedClicks
    /\ Push(SetParam("page", page))
    /\ UNCHANGED <<url, box, pause, lists, placed, listFaults>>
ClearFilters ==
    /\ Click /\ ~IsLoading /\ ~ListFailed /\ ~HasGrants /\ HasFilters
    /\ Push(Home)
    /\ UNCHANGED <<url, box, pause, lists, placed, listFaults>>

-----------------------------------------------------------------------------

BoardInit ==
    /\ url \in {u \in Urls : u.page <= Max({PagesOf(u), 1})}
    /\ pushed = NoUrl /\ box = url.q /\ pause = TRUE
    /\ lists = [u \in Urls |-> IF u = url THEN "asked" ELSE "none"] /\ placed = NoUrl
    /\ boardOvertaken = FALSE
    /\ clicks = 0 /\ listFaults = 0

BoardNext ==
    \/ DebounceFires \/ CommitUrl \/ RefetchBoard \/ ClearFilters
    \/ \E u \in Urls : FetchGrantsPage(u) \/ FetchFails(u)
    \/ \E text \in Texts : Type(text)
    \/ \E status \in Statuses : ChooseStatus(status)
    \/ \E page \in BoardPages : HandlePageChange(page)

\* Timers fire, the router commits and requests end.
BoardFairness ==
    /\ WF_boardVars(DebounceFires) /\ WF_boardVars(CommitUrl)
    /\ \A u \in Urls : WF_boardVars(FetchGrantsPage(u) \/ FetchFails(u))

-----------------------------------------------------------------------------
(* Properties *)

Rests == ~pause /\ pushed = NoUrl

\* Words that were typed are searched for: once the page rests the box and the URL
\* say the same, unless a click on the filter already chosen threw the push away.
BoxIsSearched == Rests /\ ~boardOvertaken => box = url.q

\* A page button leads to a page there is, and every page can be reached, whatever
\* the number of pages; the list shown is the URL's as soon as that has come.
BoardIsWhole ==
    /\ WindowsAreFaithful
    /\ HasGrants /\ ShownBoard = url => \A p \in OfferedClicks : ListedGrants([url EXCEPT !.page = p])
    /\ HasGrants /\ lists[url] = "here" => ShownBoard = url

\* The page comes to rest, with a list or an error.
BoardSettles == <>[](Rests /\ lists[url] \in {"here", "failed"})
=============================================================================
