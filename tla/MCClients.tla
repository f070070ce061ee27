------------------------------ MODULE MCClients ------------------------------
(* The SDK, and what the frontend shares with it: transactions, events, balances and
   wallets, for TLC. *)
EXTENDS Together, SdkTransactions, SdkEvents, WebTransactions, OptimisticGrant,
        GrantPage, WebEvents, Signatures, Wallet, ContractReads

CONSTANTS call1, call2

clientVars ==
    <<transactionVars, eventVars, webTxVars, optimisticVars, balanceVars, grantPageVars, fundFormVars,
      webEventVars, liveVars, sigVars, signerVars, walletVars, readsVars>>

TwoPurses == [d \in Donor |-> IF d = "a" THEN 1 ELSE 3]
SameKey == [k \in Key |-> k]
EqualWeights == [k \in Key |-> 1]

\* Calls and subscriptions are alike (the same two model values stand for both).
ClientSymmetry == Permutations(Call)

\* A component that does not run rests in one of its initial states.
ClientInit ==
    /\ part \in Parts
    /\ TransactionInit /\ EventInit /\ OptimisticInit /\ BalanceInit /\ GrantPageInit
    /\ SigInit /\ ReadsInit
    /\ SignerInit /\ LiveInit
    /\ FundFormInit /\ (Runs("fundForm") \/ formOn = "page")
    /\ Runs("signers") \/ (signer.expected = "testnet" /\ signer.adapter = "none")
    /\ WebTxInit /\ (Runs("webTransactions") \/ kind = "vote")
    /\ WebEventInit /\ (Runs("webEvents") \/ closure.sockets)
    /\ WalletInit /\ (Runs("wallet") \/ freighter = CHOOSE a \in ReviewerWallet : TRUE)

ClientNext ==
    /\ UNCHANGED part
    /\ \/ /\ Runs("sdkTransactions") /\ TransactionNext
          /\ UNCHANGED <<eventVars, webTxVars, optimisticVars, balanceVars, grantPageVars, fundFormVars,
                       webEventVars, liveVars, sigVars, signerVars, walletVars, readsVars>>
       \/ /\ Runs("sdkEvents") /\ EventNext
          /\ UNCHANGED <<transactionVars, webTxVars, optimisticVars, balanceVars, grantPageVars, fundFormVars,
                       webEventVars, liveVars, sigVars, signerVars, walletVars, readsVars>>
       \/ /\ Runs("webTransactions") /\ WebTxNext
          /\ UNCHANGED <<transactionVars, eventVars, optimisticVars, balanceVars, grantPageVars, fundFormVars,
                       webEventVars, liveVars, sigVars, signerVars, walletVars, readsVars>>
       \/ /\ Runs("optimistic") /\ OptimisticNext
          /\ UNCHANGED <<transactionVars, eventVars, webTxVars, balanceVars, grantPageVars, fundFormVars,
                       webEventVars, liveVars, sigVars, signerVars, walletVars, readsVars>>
       \/ /\ Runs("balances") /\ BalanceNext
          /\ UNCHANGED <<transactionVars, eventVars, webTxVars, optimisticVars, grantPageVars, fundFormVars,
                       webEventVars, liveVars, sigVars, signerVars, walletVars, readsVars>>
       \/ /\ \/ Runs("grantPage") /\ GrantPageNext /\ UNCHANGED fundFormVars
             \/ Runs("fundForm") /\ FundFormNext /\ UNCHANGED grantPageVars
          /\ UNCHANGED <<transactionVars, eventVars, webTxVars, optimisticVars, balanceVars,
                       webEventVars, liveVars, sigVars, signerVars, walletVars, readsVars>>
       \/ /\ Runs("webEvents") /\ WebEventNext
          /\ UNCHANGED <<transactionVars, eventVars, webTxVars, optimisticVars, balanceVars,
                       grantPageVars, fundFormVars, liveVars, sigVars, signerVars, walletVars, readsVars>>
       \/ /\ Runs("liveHook") /\ LiveNext
          /\ UNCHANGED <<transactionVars, eventVars, webTxVars, optimisticVars, balanceVars,
                       grantPageVars, fundFormVars, webEventVars, sigVars, signerVars, walletVars, readsVars>>
       \/ /\ Runs("signatures") /\ SigNext
          /\ UNCHANGED <<transactionVars, eventVars, webTxVars, optimisticVars, balanceVars,
                       grantPageVars, fundFormVars, webEventVars, liveVars, signerVars, walletVars, readsVars>>
       \/ /\ Runs("signers") /\ SignerNext
          /\ UNCHANGED <<transactionVars, eventVars, webTxVars, optimisticVars, balanceVars,
                       grantPageVars, fundFormVars, webEventVars, liveVars, sigVars, walletVars, readsVars>>
       \/ /\ Runs("wallet") /\ WalletNext
          /\ UNCHANGED <<transactionVars, eventVars, webTxVars, optimisticVars, balanceVars,
                       grantPageVars, fundFormVars, webEventVars, liveVars, sigVars, signerVars, readsVars>>
       \/ /\ (Runs("views") /\ ReadViewNext) \/ (Runs("funding") /\ FundNext)
          /\ UNCHANGED <<transactionVars, eventVars, webTxVars, optimisticVars, balanceVars,
                       grantPageVars, fundFormVars, webEventVars, liveVars, sigVars, signerVars, walletVars>>

ClientSpec == ClientInit /\ [][ClientNext]_<<part, clientVars>>

-----------------------------------------------------------------------------

\* A transaction does what its caller is told: it is applied once at most, a failure
\* that is final was not applied, a page shows a vote or a status only if it exists or
\* is on its way, a submission has the signatures it needs, and a funding that runs
\* alone has the allowance it needs (StellarGrantsSDK.ts, useContractTransaction.ts, optimistic.ts,
\* multisig.ts, contract.ts).
TransactionsAreHonest ==
    /\ WritesAreSound /\ PagesAreHonest /\ PredictionsAreHonest
    /\ SignaturesAreSound /\ ReadsAreSound

\* The money shown is the account's: a listener reports every change once, the grant's
\* page shows what a funding did, the form gives once what the wallet holds, and no
\* wallet is shown with the session of another (useGrantBalances.ts, useFundGrant.ts,
\* FundGrantModal.tsx, useWallet.ts).
MoneyIsTrue == BalancesAreTold /\ GrantPageIsHonest /\ FormIsHonest /\ WalletIsSound

\* Events are heard once and in order, also when sockets fail over to polls and back
\* and restarts leave loose timers (the SDK's subscriptions, subscription.ts).
EventsAreHeardOnce == HeardInOrder /\ FeedIsWhole

\* A write that is settled keeps its outcome, and a subscription that was closed is
\* silent (StellarGrantsSDK.ts).
TheSettledStaySettled == PromisesAreKept /\ ClosedIsSilent
=============================================================================
