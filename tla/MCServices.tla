------------------------------ MODULE MCServices ------------------------------
(* The backend, the SDK and the frontend, for TLC: that what was begun ends. *)
EXTENDS MCBackend, MCClients, MCFrontend

serviceVars == <<part, backendVars, clientVars, frontVars>>

ServiceInit == BackendInit /\ ClientInit /\ FrontInit

ServiceNext ==
    \/ BackendNext /\ UNCHANGED <<clientVars, frontVars>>
    \/ ClientNext /\ UNCHANGED <<backendVars, frontVars>>
    \/ FrontNext /\ UNCHANGED <<backendVars, clientVars>>

\* A component goes on as long as it can; each promise below names, as a premise, what
\* the code's timers, requests and jobs go on doing (a component that does not run
\* rests, whatever it could do).
LiveSpec == ServiceInit /\ [][ServiceNext]_serviceVars /\ WF_serviceVars(ServiceNext)

-----------------------------------------------------------------------------

\* What reaches the backend leaves it: an event of the chain reaches the feed, a row of
\* the feed the client that keeps connecting, a webhook that failed is taken up again,
\* and a mail is sent or given up (reconciliation-service.ts, routes/events.ts,
\* webhook-dispatcher.ts, notification-queue.ts).
BackendDelivers ==
    /\ Stays("sync") /\ PassFairness => EventsReachFeed
    /\ Stays("stream") /\ StreamFairness => RowsAreStreamed
    /\ Stays("webhook") /\ WebhookFairness => RetriesAreTakenUp
    /\ Stays("mail") /\ MailFairness => MailIsSettled

\* What a caller waits for comes: a write is settled, a handler ends, a page shows what
\* the network applied, a listener reports the balances, and a subscription hears of
\* every event (TransactionTracker.ts, useContractTransaction.ts, OptimisticStateManager.ts,
\* useGrantBalances.ts, StellarGrantsSDK.ts, subscription.ts).
CallsAndEventsEnd ==
    /\ Stays("sdkTransactions") /\ TransactionFairness => WritesSettle
    /\ Stays("webTransactions") /\ WebTxFairness => HandlersEnd
    /\ Stays("optimistic") /\ OptimisticFairness => PageCatchesUp
    /\ Stays("balances") /\ BalanceFairness => BalanceIsReported
    /\ Stays("sdkEvents") /\ EventFairness => EventsAreHeard
    /\ Stays("webEvents") /\ WebEventFairness => FeedIsHeard

\* The pages come to rest: with a list or an error, no spinner, no toast, no banner,
\* and every tab with what the others stored (grants/page.tsx, SearchPageClient.tsx,
\* NotificationToast.tsx, useUserPreferences.ts, DisputePanelClient.tsx,
\* OfflineBanner.tsx, dashboard/page.tsx).
PagesSettle ==
    /\ Stays("board") /\ BoardFairness => BoardSettles
    /\ Stays("search") /\ SearchFairness => SpinnerStops
    /\ Stays("notices") /\ NoticeFairness => ToastsLeave
    /\ Stays("storage") /\ StorageFairness => TabsCatchUp
    /\ Stays("council") /\ PanelFairness => PanelShows
    /\ Stays("shell") /\ ShellFairness => BannersLeave
    /\ Stays("dashboard") /\ DashFairness => DashboardShows
=============================================================================
