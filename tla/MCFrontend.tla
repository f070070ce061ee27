------------------------------ MODULE MCFrontend ------------------------------
(* The pages of the frontend, for TLC. *)
EXTENDS Together, ReviewBatch, GrantForm, ProofFiles, History, GrantBoard, SearchPage,
        SharedStorage, AccountPages, AppShell

CONSTANTS tab1, tab2

frontVars ==
    <<batchVars, formVars, fileVars, historyVars, boardVars, searchVars, noticeVars,
      storageVars, panelVars, shellVars, dashVars, listVars, boxVars>>

FirstUrl == [status |-> "any", q |-> "none", page |-> 1]

\* What is found on the grants page, by the search, and in the files.
TwoPages ==
    [s \in Statuses |-> [t \in Texts |-> IF t = "none" THEN 2 ELSE IF s = "any" THEN 1 ELSE 0]]
ThreeGrants ==
    <<[id |-> 1, words |-> {"bridge"}, about |-> {"works"}, created |-> 1,
       budget |-> 2, funded |-> 0, milestones |-> 2],
      [id |-> 2, words |-> {"bridge", "road"}, about |-> {}, created |-> 2,
       budget |-> 2, funded |-> 0, milestones |-> 1],
      [id |-> 3, words |-> {"road"}, about |-> {"works"}, created |-> 2,
       budget |-> 1, funded |-> 0, milestones |-> 0]>>
WordsAsked == [q \in Queries |-> IF q = "b" THEN {"bridge"} ELSE {"bridge", "road"}]
Indexed ==
    [q \in Queries |->
        IF q = "b" THEN <<[type |-> "contributor", id |-> "y"], [type |-> "grant", id |-> 1],
                          [type |-> "milestone", id |-> 9], [type |-> "grant", id |-> 1]>>
        ELSE <<>>]
Ranked == <<"x", "y">>
Starting == [q \in Queries |-> IF q = "b" THEN {"x", "y"} ELSE {}]
TwoMilestones ==
    [g \in {1, 2, 3} |->
        <<[id |-> 0, about |-> Queries, submitted |-> TRUE, approved |-> TRUE, paid |-> FALSE],
          [id |-> 1, about |-> {"b"}, submitted |-> FALSE, approved |-> FALSE, paid |-> FALSE]>>]
PlainAndImage == <<[type |-> "plain", marked |-> TRUE], [type |-> "image", marked |-> TRUE]>>
TwoGateways == <<1, 2>>
TwoPreferences == [format |-> {"short", "full"}, debug |-> {"on", "off"}]
AtFirst == [format |-> "short", debug |-> "off"]

\* Tabs are alike.
TabSymmetry == Permutations(Tab)

\* A component that does not run rests in one of its initial states.
FrontInit ==
    /\ part \in Parts
    /\ FormInit /\ ZoneInit /\ ViewInit /\ NoticeInit
    /\ BatchInit /\ (Runs("batch") \/ reviewDesk.address = CHOOSE a \in Wallets : TRUE)
    /\ Runs("zone") \/ ~options.autoUpload
    /\ HistoryInit /\ (Runs("history") \/ shownBy = "web")
    /\ BoardInit /\ (Runs("board") \/ url = FirstUrl)
    /\ SearchInit /\ (Runs("search") \/ (addr.q = EmptyQuery /\ queryNow = {Min(Loading)}))
    /\ StorageInit /\ (Runs("storage") \/ prefs = Unset)
    /\ PanelInit /\ (Runs("council") \/ \A c \in Case : cases[c] = "submitted")
    /\ ShellInit /\ (Runs("shell") \/ (shellPage = "grants" /\ online))
    /\ ListInit /\ BoxInit /\ (Runs("boxes") \/ boxesFor = "recipient")
    /\ DashInit /\ (Runs("dashboard") \/ activeTab = "watching")

FrontNext ==
    /\ UNCHANGED part
    /\ \/ /\ Runs("batch") /\ BatchNext
          /\ UNCHANGED <<formVars, fileVars, historyVars, boardVars, searchVars, noticeVars,
                       storageVars, panelVars, shellVars, dashVars, listVars, boxVars>>
       \/ /\ Runs("form") /\ FormNext
          /\ UNCHANGED <<batchVars, fileVars, historyVars, boardVars, searchVars,
                       noticeVars, storageVars, panelVars, shellVars, dashVars, listVars, boxVars>>
       \/ /\ \/ Runs("zone") /\ ZoneNext /\ UNCHANGED viewVars
             \/ Runs("viewer") /\ ViewNext /\ UNCHANGED zoneVars
          /\ UNCHANGED <<batchVars, formVars, historyVars, boardVars, searchVars,
                       noticeVars, storageVars, panelVars, shellVars, dashVars, listVars, boxVars>>
       \/ /\ Runs("history") /\ HistoryNext
          /\ UNCHANGED <<batchVars, formVars, fileVars, boardVars, searchVars, noticeVars,
                       storageVars, panelVars, shellVars, dashVars, listVars, boxVars>>
       \/ /\ Runs("board") /\ BoardNext
          /\ UNCHANGED <<batchVars, formVars, fileVars, historyVars, searchVars, noticeVars,
                       storageVars, panelVars, shellVars, dashVars, listVars, boxVars>>
       \/ /\ Runs("search") /\ SearchNext
          /\ UNCHANGED <<batchVars, formVars, fileVars, historyVars, boardVars, noticeVars,
                       storageVars, panelVars, shellVars, dashVars, listVars, boxVars>>
       \/ /\ Runs("notices") /\ NoticeNext
          /\ UNCHANGED <<batchVars, formVars, fileVars, historyVars, boardVars, searchVars,
                       storageVars, panelVars, shellVars, dashVars, listVars, boxVars>>
       \/ /\ Runs("storage") /\ StorageNext
          /\ UNCHANGED <<batchVars, formVars, fileVars, historyVars, boardVars, searchVars,
                       noticeVars, panelVars, shellVars, dashVars, listVars, boxVars>>
       \/ /\ Runs("council") /\ PanelNext
          /\ UNCHANGED <<batchVars, formVars, fileVars, historyVars, boardVars, searchVars,
                       noticeVars, storageVars, shellVars, dashVars, listVars, boxVars>>
       \/ /\ Runs("shell") /\ ShellNext
          /\ UNCHANGED <<batchVars, formVars, fileVars, historyVars, boardVars, searchVars,
                       noticeVars, storageVars, panelVars, dashVars, listVars, boxVars>>
       \/ /\ Runs("dashboard") /\ DashNext
          /\ UNCHANGED <<batchVars, formVars, fileVars, historyVars, boardVars, searchVars,
                       noticeVars, storageVars, panelVars, shellVars, listVars, boxVars>>
       \/ /\ Runs("list") /\ ListNext
          /\ UNCHANGED <<batchVars, formVars, fileVars, historyVars, boardVars, searchVars,
                       noticeVars, storageVars, panelVars, shellVars, dashVars, boxVars>>
       \/ /\ Runs("boxes") /\ BoxNext
          /\ UNCHANGED <<batchVars, formVars, fileVars, historyVars, boardVars, searchVars,
                       noticeVars, storageVars, panelVars, shellVars, dashVars, listVars>>

FrontSpec == FrontInit /\ [][FrontNext]_<<part, frontVars>>

-----------------------------------------------------------------------------

\* A list is what was asked for: a history is whole up to its cursor, the grants of the
\* page in the URL and of the words in the box, the search of the words in the URL, the
\* pages and queries of the SDK's list, the open disputes, the grants of the tab; and
\* what says it is loading waits for an answer (useTransactionHistory.ts,
\* grants/page.tsx, SearchPageClient.tsx, search.ts, DisputePanelClient.tsx,
\* dashboard/page.tsx).
ListsAreAsAsked ==
    /\ HistoryIsSound /\ BoxIsSearched /\ BoardIsWhole /\ SearchIsSound /\ ListIsServed
    /\ PanelIsSound /\ DashboardIsSound

\* What a user prepares is what is taken: a batch is what was confirmed, a step of the
\* form or of a draft has been earned, an address is marked for what it is, and a file
\* that is shown, uploaded or cached is the one that was picked or asked for
\* (review/page.tsx, CreateGrantForm/index.tsx, AddressInput.tsx, FileUpload.tsx,
\* useIPFSContent.ts).
WorkIsAsGiven == BatchIsSound /\ StepIsEarned /\ MarkIsTrue /\ ProofFilesAreSound

\* What surrounds the pages: the list of notifications is the stored one, tabs that were
\* told agree, and keys, toasts and banners come to an end (useNotifications.ts,
\* useUserPreferences.ts, useWatchlist.ts, useKeyboardShortcuts.ts, OfflineBanner.tsx).
ShellIsSoundOnAllPages == NoticesAreSound /\ TabsAgree /\ ShellIsSound

\* A step changes what it is about: calculated rewards add up to the budget, a
\* notification enters the list of one it concerns, and a tab changes one preference or
\* one grant, whatever the other has set (Step2Milestones.tsx, useNotifications.ts,
\* useUserPreferences.ts, useWatchlist.ts).
StepsAreAsMeant == DistributionBalances /\ ListedForAReason /\ OneThingChanges
=============================================================================
