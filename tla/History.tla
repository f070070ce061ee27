-------------------------------- MODULE History --------------------------------
(***************************************************************************)
(* The history of a grant: Horizon's transactions of the contract account, *)
(* newest first and page by page, of which those are kept whose memo names *)
(* the grant; and what shows them, the hook of the web frontend, which     *)
(* polls the first page too, or the composable of the SDK.                 *)
(***************************************************************************)
EXTENDS Naturals, SequencesExt, FiniteSetsExt

CONSTANTS HistoryPage,  \* records of a page
          Asking,       \* requests that can be under way together
          MaxTxs,       \* bound: transactions of the contract
          MaxAsks       \* bound: requests

ASSUME HistoryAssumption == HistoryPage \in Nat \ {0} /\ {MaxTxs, MaxAsks} \subseteq Nat

VARIABLES
    memos,    \* the contract's transactions, oldest first, by what their memo says
    shownBy,  \* "web": useGrantHistory() of the frontend, "sdk": the composable,
              \* "account": useTransactionHistory(), which keeps all of an account
    reader,   \* records, cursor (0 when none), hasMore, loading, failed, moreInFlight
    asks,     \* each request: idle, asked or read; kind, cursor, answer, whether it was
              \* alone so far
    begun,    \* requests so far
    untidy,   \* history: requests overlapped, or one failed, since the last first page
              \* that was asked and answered alone
    cut       \* history: a page had transactions, and none of the grant's

historyVars == <<memos, shownBy, reader, asks, begun, untidy, cut>>

NoPageAsk == [at |-> "idle", kind |-> "first", cursor |-> 0, records |-> <<>>, next |-> 0, alone |-> FALSE]
UnderPage == {a \in Asking : asks[a].at # "idle"}
Newest == Len(memos) + 1

-----------------------------------------------------------------------------
(* getGrantHistory() of the SDK, and its copy in the frontend *)

\* A page: the ids below the cursor, newest first.
PageBelow(cursor) ==
    LET top == (IF cursor = 0 THEN Newest ELSE cursor) - 1 IN
    [i \in 1..Min({HistoryPage, top}) |-> top + 1 - i]
LastToken(page) == IF page = <<>> THEN 0 ELSE Last(page)
\* The number in a memo; the code compares it, and also looks whether the memo
\* contains "grant:" and the grant's digits, whatever digits follow.
GrantIdOf(memo) == CASE memo = "this" -> 1 [] memo = "longer" -> 12 [] OTHER -> 0
OfGrant(id) == GrantIdOf(memos[id]) = 1 \/ memos[id] \in {"this", "longer"}
Kept(id) == shownBy = "account" \/ OfGrant(id)
AnswerOf(cursor) ==
    LET page == PageBelow(cursor) kept == SelectSeq(page, Kept) IN
    [records |-> kept, next |-> IF kept = <<>> THEN 0 ELSE LastToken(page)]

\* Records that are shown already are left out.
MergeRecords(existing, incoming, append) ==
    LET unique == SelectSeq(incoming, LAMBDA r : ~Contains(existing, r)) IN
    IF append THEN existing \o unique ELSE unique \o existing

-----------------------------------------------------------------------------
(* What asks *)

BeginAsk(kind, cursor) ==
    /\ begun < MaxAsks /\ begun' = begun + 1
    /\ \E a \in Asking :
          /\ asks[a].at = "idle"
          /\ asks' = [b \in Asking |->
                IF b = a THEN [NoPageAsk EXCEPT !.at = "asked", !.kind = kind, !.cursor = cursor,
                                            !.alone = UnderPage = {}]
                ELSE [asks[b] EXCEPT !.alone = FALSE]]
    /\ untidy' = (untidy \/ UnderPage # {})

\* The page is opened, or Refresh is clicked, which is disabled while isLoading.
FetchFirstPage ==
    /\ shownBy = "web" /\ ~reader.loading
    /\ reader' = [reader EXCEPT !.loading = TRUE, !.failed = FALSE, !.cursor = 0]
    /\ BeginAsk("first", 0)
    /\ UNCHANGED <<memos, shownBy, cut>>
PollFirstPage ==
    /\ shownBy = "web"
    /\ reader' = [reader EXCEPT !.failed = FALSE]
    /\ BeginAsk("poll", 0)
    /\ UNCHANGED <<memos, shownBy, cut>>
LoadMoreOffered == reader.hasMore /\ ~reader.loading
LoadMore ==
    /\ shownBy = "web" /\ LoadMoreOffered
    /\ reader.cursor # 0 /\ ~reader.moreInFlight
    /\ reader' = [reader EXCEPT !.moreInFlight = TRUE, !.failed = FALSE]
    /\ BeginAsk("more", reader.cursor)
    /\ UNCHANGED <<memos, shownBy, cut>>

\* fetch() of the composable: fetchMore() is called by those who see a cursor.
SdkRefetch ==
    /\ shownBy # "web"
    /\ reader' = [reader EXCEPT !.cursor = 0, !.loading = TRUE, !.failed = FALSE]
    /\ BeginAsk("first", 0)
    /\ UNCHANGED <<memos, shownBy, cut>>
SdkFetchMore ==
    /\ shownBy # "web" /\ reader.cursor # 0
    /\ reader' = [reader EXCEPT !.loading = TRUE, !.failed = FALSE]
    /\ BeginAsk("more", reader.cursor)
    /\ UNCHANGED <<memos, shownBy, cut>>

-----------------------------------------------------------------------------
(* Horizon and its answers *)

NewTransaction(memo) ==
    /\ Len(memos) < MaxTxs
    /\ memos' = Append(memos, memo)
    /\ UNCHANGED <<shownBy, reader, asks, begun, untidy, cut>>

ReadPage(a) ==
    /\ asks[a].at = "asked"
    /\ LET answer == AnswerOf(asks[a].cursor) IN
       /\ asks' = [asks EXCEPT ![a].at = "read", ![a].records = answer.records,
                               ![a].next = answer.next]
       /\ cut' = (cut \/ (answer.records = <<>> /\ PageBelow(asks[a].cursor) # <<>>))
    /\ UNCHANGED <<memos, shownBy, reader, begun, untidy>>

Recorded(a) ==
    LET ask == asks[a] IN
    CASE ask.kind = "first" -> ask.records
      [] ask.kind = "poll" -> MergeRecords(reader.records, ask.records, FALSE)
      [] ask.kind = "more" /\ shownBy = "web" -> MergeRecords(reader.records, ask.records, TRUE)
      [] OTHER -> reader.records \o ask.records
\* finally: isLoading of those that show it, or the flag of loadMore().
Finally(a, r) ==
    [r EXCEPT !.loading = @ /\ shownBy = "web" /\ asks[a].kind # "first",
              !.moreInFlight = @ /\ asks[a].kind # "more"]
AnswerPage(a) ==
    /\ asks[a].at = "read"
    /\ reader' = Finally(a, [reader EXCEPT !.records = Recorded(a), !.cursor = asks[a].next,
                                           !.hasMore = asks[a].next # 0])
    /\ untidy' = (untidy /\ ~(asks[a].alone /\ asks[a].kind # "more"))
    /\ asks' = [asks EXCEPT ![a] = NoPageAsk]
    /\ UNCHANGED <<memos, shownBy, begun, cut>>
HistoryFails(a) ==
    /\ asks[a].at = "asked"
    /\ reader' = LET r == [reader EXCEPT !.failed = TRUE] IN
          Finally(a, IF shownBy = "web" /\ asks[a].kind = "first"
                     THEN [r EXCEPT !.records = <<>>, !.hasMore = FALSE, !.cursor = 0] ELSE r)
    /\ untidy' = (untidy \/ (shownBy # "web" /\ asks[a].kind = "first"))
    /\ asks' = [asks EXCEPT ![a] = NoPageAsk]
    /\ UNCHANGED <<memos, shownBy, begun, cut>>

-----------------------------------------------------------------------------

HistoryInit ==
    /\ memos = <<>> /\ shownBy \in {"web", "sdk", "account"}
    /\ reader = [records |-> <<>>, cursor |-> 0, hasMore |-> FALSE, loading |-> FALSE,
                 failed |-> FALSE, moreInFlight |-> FALSE]
    /\ asks = [a \in Asking |-> NoPageAsk]
    /\ begun = 0 /\ untidy = FALSE /\ cut = FALSE

HistoryNext ==
    \/ FetchFirstPage \/ PollFirstPage \/ LoadMore \/ SdkRefetch \/ SdkFetchMore
    \/ \E memo \in {"this", "longer", "other"} : NewTransaction(memo)
    \/ \E a \in Asking : ReadPage(a) \/ AnswerPage(a) \/ HistoryFails(a)

-----------------------------------------------------------------------------

InHistory == ToSet(reader.records)
\* Each transaction of the grant up to the newest that is shown is shown or can
\* still be loaded.
NothingBetween ==
    \A id \in 1..Len(memos) :
        Kept(id) /\ (\E r \in InHistory : id <= r) => id \in InHistory \/ id < reader.cursor
ShownOnce == IsInjective(reader.records)

\* Transactions arrive while pages are loaded and polled, pages are asked again and
\* fail: whatever happened before it, one first page that was asked and answered
\* alone leaves no gap, and requests made in turn after it leave none either.
HistoryIsWhole == UnderPage = {} /\ ~untidy /\ ~cut => NothingBetween /\ ShownOnce
\* The web page lists no transaction twice, even when requests overlap.
WebListsOnce == shownBy = "web" => ShownOnce
\* The spinner and the flag that refuses a second "load more" are those of a request
\* that is under way.
WaitsEnd ==
    /\ reader.loading => \E a \in UnderPage : shownBy # "web" \/ asks[a].kind = "first"
    /\ reader.moreInFlight => \E a \in UnderPage : asks[a].kind = "more"

\* A history is whole and listed once, and its spinners wait for something (history.ts).
HistoryIsSound == HistoryIsWhole /\ WebListsOnce /\ WaitsEnd
=============================================================================
