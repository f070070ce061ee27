------------------------------- MODULE SearchPage -------------------------------
(***************************************************************************)
(* The search page: the words and the tab are in the URL, the box follows  *)
(* the URL and the URL follows the box after a pause; each new words load  *)
(* the catalogue of grants and then contributors and milestones, or, when  *)
(* there are none, what is recent. A load that is under way is given up    *)
(* only half: the answers of its second half are shown whenever they come. *)
(* Grants are found by the pure functions of lib/stellar/search.ts, which   *)
(* the frontend's StellarGrantsSDK also offers over a list that its caller *)
(* hydrates, page by page.                                                 *)
(***************************************************************************)
EXTENDS Naturals, FiniteSetsExt, SequencesExt

CONSTANTS Queries,         \* what is searched
          Catalogue,       \* the grants: id, words of the title, created
          WordsOf,         \* [Queries -> words]
          ApiHits,         \* [Queries -> what the backend's search answers: type, id]
          Leaders,         \* the leaderboard's addresses, best first
          StartsWith,      \* [Queries -> addresses that start so]
          MilestonesOf,    \* [grant ids -> milestones: id, about (queries), submitted, approved, paid]
          Loading,         \* loads that can be under way together
          MaxKeys,         \* bound: what the user does
          MaxSearchFaults, \* bound: loads that fail
          PageCap,         \* the most grants a page of the list may have
          PageSizes,       \* what a caller asks a page to have
          MaxHydrates      \* bound: what happens to the grants of the hydrated list

\* What can be in the box: nothing, a query, or a query and a space.
BoxTexts == {<<>>} \cup {<<q>> : q \in Queries} \cup {<<q, "space">> : q \in Queries}
EmptyQuery == <<>>
Trim(text) == IF text = EmptyQuery THEN EmptyQuery ELSE <<text[1]>>

VARIABLES
    addr,        \* q and type of the URL
    replaced,    \* the URL the router has to commit, if any
    typed,       \* what the box says
    debounced,   \* what it said a pause ago
    waiting,     \* whether the pause is running
    loads,       \* each load: idle, catalogue or rest; what it searches; cancelled
    queryNow,    \* the load of the URL's words, if it has not ended
    shows,       \* isLoading, error, allGrants, recent, and whose contributors and milestones
    overlapped,  \* history: a load began while another was under way
    thrown,      \* history: words on their way to the URL were thrown away by a tab, a
                 \* visit or Escape, and the URL has taken no words since
    keys, searchFaults

searchVars == <<addr, replaced, typed, debounced, waiting, loads, queryNow, shows, overlapped,
                thrown, keys, searchFaults>>

VARIABLES
    progress,    \* how many grants of the catalogue there are, and of each, what is funded
                 \* and how many milestones are approved
    hydrated,    \* the SDK's _grants, and _milestones: the approvals of those it knows
    listWalk,        \* a caller of grantListAll(): the size it asks, the page it is at, the
                 \* ids it has, the total it was told, whether there is more
    happened     \* how much has happened to the list

listVars == <<progress, hydrated, listWalk, happened>>

Tabs == {"all", "grants", "contributors", "milestones"}
NoAddr == [q |-> EmptyQuery, type |-> "none"]
NoLoad == [at |-> "idle", q |-> EmptyQuery, cancelled |-> FALSE]
UnderTab(l) == loads[l].at # "idle"

-----------------------------------------------------------------------------
(* What is found *)

\* Grants whose title has every word, and grants about a category.
GrantSearchByTitle(list, words) == SelectSeq(list, LAMBDA g : words \subseteq g.words)
GrantFilterByCategory(list, category) ==
    SelectSeq(list, LAMBDA g : category \subseteq g.words \cup g.about)

\* What has been approved of a grant, as a fraction; what has been funded, to four
\* digits, while the milestones are not known.
MilestoneProgress(g, approvedOf) ==
    IF g.milestones = 0 THEN [of |-> 0, in |-> 1]
    ELSE IF g.id \in DOMAIN approvedOf THEN [of |-> approvedOf[g.id], in |-> g.milestones]
    ELSE [of |-> IF g.budget > 0 THEN (g.funded * 10000) \div g.budget ELSE 0, in |-> 10000]
Less(by, approvedOf, g, h) ==
    CASE by = "createdAt" -> g.created < h.created
      [] by = "budget" -> g.budget < h.budget
      [] by = "milestoneProgress" ->
            LET p == MilestoneProgress(g, approvedOf)  q == MilestoneProgress(h, approvedOf)
            IN p.of * q.in < q.of * p.in
\* Grants that tie stay in the order they had.
SortGrants(list, by, direction, approvedOf) ==
    LET less(i, j) == IF direction = "asc" THEN Less(by, approvedOf, list[i], list[j])
                      ELSE Less(by, approvedOf, list[j], list[i])
        order == SortSeq([i \in 1..Len(list) |-> i],
                         LAMBDA i, j : less(i, j) \/ (~less(j, i) /\ i < j))
    IN [i \in 1..Len(list) |-> list[order[i]]]
\* Without words or without a category that filter is left out.
QueryGrants(list, words, category, by, direction, approvedOf) ==
    LET titled == IF words = {} THEN list ELSE GrantSearchByTitle(list, words)
        about == IF category = {} THEN titled ELSE GrantFilterByCategory(titled, category)
    IN SortGrants(about, by, direction, approvedOf)
\* What the page asks: the words, newest first.
GrantsTitled(q) == QueryGrants(Catalogue, WordsOf[q], {}, "createdAt", "desc", <<>>)

\* The backend's hits first, then the leaders whose address starts so; the first few
\* leaders when nothing is asked.
Distinct(seq) == FoldLeft(LAMBDA found, x : IF Contains(found, x) THEN found ELSE Append(found, x),
                          <<>>, seq)
IdsOf(hits, type) == LET of == SelectSeq(hits, LAMBDA h : h.type = type) IN
                     [i \in 1..Len(of) |-> of[i].id]
ContributorsFor(q) ==
    Distinct(IdsOf(ApiHits[q], "contributor") \o SelectSeq(Leaders, LAMBDA a : a \in StartsWith[q]))
TopContributors == SubSeq(Leaders, 1, Min({6, Len(Leaders)}))

\* Proofs that were hit, then milestones of the grants that were hit, or, when none
\* was, of those whose title matches.
MilestoneStatus(m) == CASE m.paid -> "Paid" [] m.approved /\ ~m.paid -> "Approved"
                        [] m.submitted /\ ~m.approved /\ ~m.paid -> "Submitted" [] OTHER -> "Pending"
FetchGrantMilestones(g, q) ==
    LET of == SelectSeq(MilestonesOf[g], LAMBDA m : q \in m.about) IN
    [i \in 1..Len(of) |-> [id |-> <<g, of[i].id>>, status |-> MilestoneStatus(of[i])]]
GrantsHit(q) ==
    LET hit == Distinct(IdsOf(ApiHits[q], "grant"))
        titled == GrantSearchByTitle(Catalogue, WordsOf[q])
    IN IF hit # <<>> THEN hit ELSE [i \in 1..Len(titled) |-> titled[i].id]
MilestonesFor(q) ==
    LET proofs == Distinct(IdsOf(ApiHits[q], "milestone"))
        ofGrants == FlattenSeq([i \in 1..Len(GrantsHit(q)) |->
                                   FetchGrantMilestones(GrantsHit(q)[i], q)])
    IN [i \in 1..Len(proofs) |-> [id |-> <<proofs[i]>>, status |-> "Submitted"]] \o ofGrants

-----------------------------------------------------------------------------
(* The URL and the box *)

UpdateUrl(text, tab) == [q |-> Trim(text), type |-> tab]

\* The effect of the debounced words, which runs when they or the URL change.
FollowBox(text, at, otherwise) == IF text = at.q THEN otherwise ELSE UpdateUrl(text, at.type)

\* The words of the URL changed: the old load is cancelled and a new one begins.
BeginLoad(at) ==
    \E l \in Loading :
        /\ ~UnderTab(l)
        /\ loads' = [m \in Loading |->
              IF m = l THEN [at |-> IF at.q = EmptyQuery THEN "recent" ELSE "catalogue",
                             q |-> at.q, cancelled |-> FALSE]
              ELSE IF UnderTab(m) THEN [loads[m] EXCEPT !.cancelled = TRUE] ELSE NoLoad]
        /\ queryNow' = {l}
        /\ overlapped' = (overlapped \/ \E m \in Loading : UnderTab(m))
        /\ shows' = [shows EXCEPT !.loading = TRUE, !.error = FALSE]

CommitAddr(at, then) ==
    /\ addr' = at
    /\ IF at.q = addr.q
       THEN /\ replaced' = then
            /\ UNCHANGED <<typed, waiting, loads, queryNow, shows, overlapped>>
            /\ thrown' = (thrown \/ replaced \notin {at, NoAddr})
       ELSE /\ thrown' = FALSE
            /\ typed' = at.q /\ waiting' = (at.q # debounced)
            /\ replaced' = FollowBox(debounced, at, then)
            /\ BeginLoad(at)
Replace ==
    /\ replaced # NoAddr
    /\ CommitAddr(replaced, NoAddr)
    /\ UNCHANGED <<debounced, keys, searchFaults>>
DebounceEnds ==
    /\ waiting /\ waiting' = FALSE
    /\ debounced' = typed
    /\ replaced' = FollowBox(typed, addr, replaced)
    /\ UNCHANGED <<addr, typed, loads, queryNow, shows, overlapped, thrown, keys, searchFaults>>

TypeKey == keys < MaxKeys /\ keys' = keys + 1
TypeSearch(text) ==
    /\ TypeKey /\ text # typed
    /\ typed' = text /\ waiting' = (text # debounced)
    /\ UNCHANGED <<addr, replaced, debounced, loads, queryNow, shows, overlapped, thrown, searchFaults>>
Escape ==
    /\ TypeKey
    /\ typed' = EmptyQuery /\ waiting' = (EmptyQuery # debounced)
    /\ replaced' = UpdateUrl(EmptyQuery, addr.type)
    /\ thrown' = (thrown \/ (replaced # NoAddr /\ replaced.q # EmptyQuery))
    /\ UNCHANGED <<addr, debounced, loads, queryNow, shows, overlapped, searchFaults>>
SetTab(tab) ==
    /\ TypeKey /\ addr.q # EmptyQuery
    /\ replaced' = UpdateUrl(addr.q, tab)
    /\ thrown' = (thrown \/ (replaced # NoAddr /\ replaced.q # addr.q))
    /\ UNCHANGED <<addr, typed, debounced, waiting, loads, queryNow, shows, overlapped, searchFaults>>
\* The browser's back, or a link, to other words.
Visit(at) ==
    /\ TypeKey /\ at # addr
    /\ CommitAddr(at, NoAddr)
    /\ UNCHANGED <<debounced, searchFaults>>

-----------------------------------------------------------------------------
(* The loads *)

Ended(l) == [loads EXCEPT ![l] = NoLoad]

\* loadDiscovery() does not look whether it was cancelled.
LoadDiscovery(l) ==
    /\ loads[l].at = "recent"
    /\ shows' = [shows EXCEPT !.catalogue = TRUE, !.recent = TRUE, !.of = EmptyQuery, !.loading = FALSE]
    /\ loads' = Ended(l) /\ queryNow' = queryNow \ {l}
    /\ UNCHANGED <<addr, replaced, typed, debounced, waiting, overlapped, thrown, keys, searchFaults>>
LoadGrantsCatalog(l) ==
    /\ loads[l].at = "catalogue"
    /\ IF loads[l].cancelled
       THEN loads' = Ended(l) /\ UNCHANGED <<queryNow, shows>>
       ELSE /\ loads' = [loads EXCEPT ![l].at = "rest"]
            /\ shows' = [shows EXCEPT !.catalogue = TRUE, !.loading = TRUE, !.error = FALSE]
            /\ UNCHANGED queryNow
    /\ UNCHANGED <<addr, replaced, typed, debounced, waiting, overlapped, thrown, keys, searchFaults>>
\* Nor does runSearch().
RunSearch(l) ==
    /\ loads[l].at = "rest"
    /\ shows' = [shows EXCEPT !.of = loads[l].q, !.loading = FALSE]
    /\ loads' = Ended(l) /\ queryNow' = queryNow \ {l}
    /\ UNCHANGED <<addr, replaced, typed, debounced, waiting, overlapped, thrown, keys, searchFaults>>
LoadFails(l) ==
    /\ UnderTab(l) /\ searchFaults < MaxSearchFaults
    /\ searchFaults' = searchFaults + 1
    /\ shows' = IF loads[l].at = "catalogue" /\ loads[l].cancelled THEN shows
                ELSE [shows EXCEPT !.error = TRUE, !.loading = FALSE,
                                   !.of = IF loads[l].at = "rest" THEN EmptyQuery ELSE @]
    /\ loads' = Ended(l) /\ queryNow' = queryNow \ {l}
    /\ UNCHANGED <<addr, replaced, typed, debounced, waiting, overlapped, thrown, keys>>

-----------------------------------------------------------------------------
(* What is on the page *)

HasQuery == addr.q # EmptyQuery
GrantResults == IF HasQuery /\ shows.catalogue THEN GrantsTitled(addr.q[1]) ELSE <<>>
FoundIn == IF shows.of = EmptyQuery THEN <<>> ELSE ContributorsFor(shows.of[1]) \o MilestonesFor(shows.of[1])
\* The sections of the tab, in order; six grants at most among the others.
Sections ==
    IF ~HasQuery THEN {"recent", "leaders"}
    ELSE IF shows.loading THEN {"shimmer"}
    ELSE IF GrantResults = <<>> /\ FoundIn = <<>> THEN {"none"}
    ELSE {s \in {"grants", "contributors", "milestones"} : addr.type \in {"all", s}}
GrantPreview == IF addr.type = "all" THEN SubSeq(GrantResults, 1, Min({6, Len(GrantResults)}))
                ELSE GrantResults
PeopleListed ==
    IF ~HasQuery THEN IF shows.recent THEN TopContributors ELSE <<>>
    ELSE IF "contributors" \in Sections /\ shows.of # EmptyQuery THEN ContributorsFor(shows.of[1])
    ELSE <<>>

-----------------------------------------------------------------------------

SearchInit ==
    /\ addr \in [q : {EmptyQuery} \cup {<<q>> : q \in Queries}, type : {"all"}]
    /\ replaced = NoAddr /\ typed = addr.q /\ debounced = addr.q /\ waiting = FALSE
    /\ \E l \in Loading :
          /\ loads = [m \in Loading |->
                IF m = l THEN [at |-> IF addr.q = EmptyQuery THEN "recent" ELSE "catalogue",
                               q |-> addr.q, cancelled |-> FALSE] ELSE NoLoad]
          /\ queryNow = {l}
    /\ shows = [loading |-> TRUE, error |-> FALSE, catalogue |-> FALSE, recent |-> FALSE, of |-> EmptyQuery]
    /\ overlapped = FALSE /\ thrown = FALSE /\ keys = 0 /\ searchFaults = 0

SearchNext ==
    \/ Replace \/ DebounceEnds \/ Escape
    \/ \E text \in BoxTexts : TypeSearch(text)
    \/ \E tab \in Tabs : SetTab(tab)
    \/ \E q \in {EmptyQuery} \cup {<<q>> : q \in Queries} : Visit([q |-> q, type |-> "all"])
    \/ \E l \in Loading : LoadDiscovery(l) \/ LoadGrantsCatalog(l) \/ RunSearch(l) \/ LoadFails(l)

\* Loads end, and so do pauses.
SearchFairness ==
    /\ WF_searchVars(DebounceEnds) /\ WF_searchVars(Replace)
    /\ \A l \in Loading :
          WF_searchVars(LoadDiscovery(l) \/ LoadGrantsCatalog(l) \/ RunSearch(l) \/ LoadFails(l))

-----------------------------------------------------------------------------
(* The SDK's list *)

\* A page of the ids, whatever page and size are asked, and whether more are left.
GrantListAll(list, page, size) ==
    LET wide == Min({PageCap, Max({1, size})})
        first == (Max({1, page}) - 1) * wide
        to == Min({first + wide, Len(list)})
    IN [ids |-> [i \in 1..(IF to > first THEN to - first ELSE 0) |-> list[first + i].id],
        total |-> Len(list), hasMore |-> first + wide < Len(list)]

\* The grants that exist, oldest first, as the caller fetches them.
Existing == SubSeq(Catalogue, 1, progress.grants)
ExistingIds == {g.id : g \in ToSet(Existing)}
\* hydrate() keeps the milestones it has when it is given none.
Hydrate(withMilestones) ==
    /\ hydrated' =
          [grants |-> [i \in 1..progress.grants |->
                          [Catalogue[i] EXCEPT !.funded = progress.funded[Catalogue[i].id]]],
           approved |-> IF withMilestones THEN Restrict(progress.approved, ExistingIds)
                        ELSE hydrated.approved]
    /\ UNCHANGED <<progress, listWalk, happened>>
\* A grant is created, funded, or a milestone of it approved.
Happens == happened < MaxHydrates /\ happened' = happened + 1 /\ UNCHANGED <<hydrated, listWalk>>
GrantCreated ==
    /\ progress.grants < Len(Catalogue)
    /\ progress' = [progress EXCEPT !.grants = @ + 1]
    /\ Happens
GrantFunded(g) ==
    /\ progress.funded[g.id] < g.budget
    /\ progress' = [progress EXCEPT !.funded[g.id] = @ + 1]
    /\ Happens
MilestoneApproved(g) ==
    /\ progress.approved[g.id] < g.milestones
    /\ progress' = [progress EXCEPT !.approved[g.id] = @ + 1]
    /\ Happens
\* A caller begins, or goes on to the next page.
WalkFrom(size) ==
    /\ listWalk' = [size |-> size, page |-> 1, ids |-> <<>>, total |-> 0, more |-> TRUE]
    /\ UNCHANGED <<progress, hydrated, happened>>
WalkOn ==
    LET page == GrantListAll(hydrated.grants, listWalk.page, listWalk.size) IN
    /\ listWalk.more
    /\ listWalk' = [listWalk EXCEPT !.page = @ + 1, !.ids = @ \o page.ids, !.total = page.total,
                            !.more = page.hasMore]
    /\ UNCHANGED <<progress, hydrated, happened>>

ListInit ==
    /\ progress = [grants |-> 1, funded |-> [id \in {g.id : g \in ToSet(Catalogue)} |-> 0],
                   approved |-> [id \in {g.id : g \in ToSet(Catalogue)} |-> 0]]
    /\ hydrated = [grants |-> <<>>, approved |-> <<>>]
    /\ listWalk = [size |-> 1, page |-> 1, ids |-> <<>>, total |-> 0, more |-> FALSE]
    /\ happened = 0
ListNext ==
    \/ \E withMilestones \in BOOLEAN : Hydrate(withMilestones)
    \/ GrantCreated \/ WalkOn
    \/ \E g \in ToSet(Existing) : GrantFunded(g) \/ MilestoneApproved(g)
    \/ \E size \in PageSizes : WalkFrom(size)

-----------------------------------------------------------------------------
(* Properties *)

\* A caller that walks the pages has the ids of the list in order, none twice, and all
\* that the last page counted once there is no more, though the list grows meanwhile
\* and whatever size was asked.
WalkIsWhole ==
    LET ids == [i \in DOMAIN hydrated.grants |-> hydrated.grants[i].id] IN
    /\ IsPrefix(listWalk.ids, ids)
    /\ ~listWalk.more => Len(listWalk.ids) = listWalk.total
\* A query returns the grants that match, each once, in the order asked, and those that
\* tie in the order of the list; a grant whose milestones are all approved is not
\* ranked below one that has some to go, once the milestones were given.
QueryIsRanked ==
    \A by \in {"createdAt", "budget", "milestoneProgress"}, direction \in {"asc", "desc"},
       words \in {{}} \cup {WordsOf[q] : q \in Queries}, category \in {{}} \cup {g.about : g \in ToSet(Catalogue)} :
       LET found == QueryGrants(hydrated.grants, words, category, by, direction, hydrated.approved)
           at(g) == CHOOSE i \in DOMAIN hydrated.grants : hydrated.grants[i] = g
           finished(g) == g.milestones > 0 /\ g.id \in DOMAIN hydrated.approved /\ hydrated.approved[g.id] = g.milestones
           begun(g) == g.id \in DOMAIN hydrated.approved /\ hydrated.approved[g.id] < g.milestones
       IN /\ ToSet(found) = {g \in ToSet(hydrated.grants) :
                               words \subseteq g.words /\ category \subseteq g.words \cup g.about}
          /\ IsInjective(found)
          /\ \A i, j \in DOMAIN found : i < j =>
                LET first == IF direction = "asc" THEN found[i] ELSE found[j]
                    second == IF direction = "asc" THEN found[j] ELSE found[i]
                IN /\ ~Less(by, hydrated.approved, second, first)
                   /\ ~Less(by, hydrated.approved, first, second) => at(found[i]) < at(found[j])
                   /\ by = "milestoneProgress" => ~(finished(first) /\ begun(second))

\* The SDK's list is walked page by page, in the order asked for (search.ts).
ListIsServed == WalkIsWhole /\ QueryIsRanked

SearchRests == ~waiting /\ replaced = NoAddr

\* Nothing is found twice, whatever finds it, and the newest grant is listed first.
NothingListedTwice ==
    \A q \in Queries :
        /\ IsInjective(GrantsTitled(q)) /\ IsInjective(ContributorsFor(q))
        /\ \A i, j \in DOMAIN MilestonesFor(q) :
              MilestonesFor(q)[i].id = MilestonesFor(q)[j].id => i = j
        /\ \A i, j \in DOMAIN GrantsTitled(q) : i < j => GrantsTitled(q)[i].created >= GrantsTitled(q)[j].created

\* Once the page rests, the URL has the box's words, unless a tab, a visit or
\* Escape threw them away on their way.
BoxIsUrl == SearchRests /\ ~thrown => Trim(typed) = addr.q
\* Once the load of the words has ended, what is listed is about them, unless loads
\* overlapped: only then can a late half of an older load overwrite it.  "No results"
\* is said of words that find none.
FoundIsAsked ==
    queryNow = {} /\ ~overlapped /\ ~shows.error =>
        /\ shows.of = addr.q
        /\ PeopleListed = IF ~HasQuery THEN TopContributors
                          ELSE IF addr.type \in {"all", "contributors"} THEN ContributorsFor(addr.q[1])
                          ELSE <<>>
        /\ "grants" \in Sections => Len(GrantPreview) = Min({6, Len(GrantsTitled(addr.q[1]))})
        /\ "none" \in Sections => GrantsTitled(addr.q[1]) = <<>> /\ MilestonesFor(addr.q[1]) = <<>>
\* The spinner turns as long as the words' load, unless loads overlapped.
SpinnerIsTrue == ~overlapped => (shows.loading <=> queryNow # {})

\* The search page shows what was found for the words of its URL (SearchPageClient.tsx).
SearchIsSound == NothingListedTwice /\ BoxIsUrl /\ FoundIsAsked /\ SpinnerIsTrue

\* A page whose URL comes to rest stops its spinner.
SpinnerStops == <>[]SearchRests => <>[](~shows.loading)
=============================================================================
