--------------------------------- MODULE Wallet ---------------------------------
(***************************************************************************)
(* The connection to a wallet in the web frontend: the store all components *)
(* share, of which localStorage keeps the address and the type, the hook   *)
(* useWallet(), the connect button with its modal, and the guard around    *)
(* pages.  Every component that uses the hook restores the session when it *)
(* is mounted: the button in the header, the button of the guard's card,   *)
(* and the page behind the guard.                                          *)
(***************************************************************************)
EXTENDS Naturals, FiniteSets

CONSTANTS Address,         \* accounts in the wallets
          ReviewerWallet,  \* those the guarded page is for
          MaxConnects,     \* bound: calls of connect()
          MaxWalletFaults  \* bound: calls of a wallet that fail

ASSUME WalletAssumption ==
    /\ ReviewerWallet \subseteq Address /\ "none" \notin Address
    /\ {MaxConnects, MaxWalletFaults} \subseteq Nat

VARIABLES
    walletStore,  \* address, walletType, activeAdapter
    freighter,    \* the extension's current account
    inst,         \* each component with the hook: mounted, and its isConnecting
    restore,      \* its restoreSession(): the step that is awaited, and the address
    conn,         \* its connect(): the step that is awaited, the type, the address
    card,         \* the header: its modal, whose balance it shows, requests for one
    mixed,        \* history: calls of the hooks that overlapped
    walletUse     \* calls and faults so far

walletVars == <<walletStore, freighter, inst, restore, conn, card, mixed, walletUse>>

Component == {"header", "card", "page"}
NoWallet == "none"
Disconnected == [address |-> NoWallet, type |-> NoWallet, adapter |-> NoWallet]
Still == [at |-> "no", address |-> NoWallet]
NoConn == [at |-> "no", type |-> NoWallet, address |-> NoWallet]

Connected == walletStore.address # NoWallet
RestoresUnderWay == \E c \in Component : restore[c].at # "no" \/ conn[c].at # "no"
Crossing == mixed' = (mixed \/ RestoresUnderWay)
WalletFault == /\ walletUse.faults < MaxWalletFaults
               /\ walletUse' = [walletUse EXCEPT !.faults = @ + 1]

\* WalletGuard with the role of a reviewer.
Admits == Connected /\ walletStore.address \in ReviewerWallet

-----------------------------------------------------------------------------
(* restoreSession(), when a component is mounted *)

\* The session of Freighter is looked at again; one of Albedo is dropped.
Restoring(c) ==
    /\ restore[c].at = "no"   \* bound: one restoreSession() of each component
    /\ inst' = [inst EXCEPT ![c].mounted = TRUE]
    /\ Crossing
    /\ restore' = [restore EXCEPT ![c].at = IF walletStore.type = "freighter" THEN "check" ELSE "no"]
    /\ walletStore' = IF walletStore.type = "albedo" THEN Disconnected ELSE walletStore

\* What the guard renders: its card, or the page.
MountCard ==
    /\ inst["header"].mounted /\ ~Connected /\ ~inst["card"].mounted
    /\ Restoring("card")
    /\ UNCHANGED <<freighter, conn, card, walletUse>>
MountPage ==
    /\ inst["header"].mounted /\ Admits /\ ~inst["page"].mounted
    /\ Restoring("page")
    /\ UNCHANGED <<freighter, conn, card, walletUse>>
MountHeader ==
    /\ ~inst["header"].mounted
    /\ Restoring("header")
    /\ UNCHANGED <<freighter, conn, card, walletUse>>
Unmount(c) ==
    /\ inst[c].mounted
    /\ \/ c = "card" /\ Connected
       \/ c = "page" /\ ~Admits
    /\ inst' = [inst EXCEPT ![c] = [mounted |-> FALSE, connecting |-> FALSE]]
    /\ UNCHANGED <<walletStore, freighter, restore, conn, card, mixed, walletUse>>

RestoreEnds(c) == restore' = [restore EXCEPT ![c] = Still]

\* isConnected() and getAddress(): each may say no, which resets the store, or
\* reject, which is left at that.
RestoreStep(c) ==
    /\ restore[c].at \in {"check", "address", "network"}
    /\ \/ /\ restore[c].at = "check"
          /\ restore' = [restore EXCEPT ![c].at = "address"]
          /\ UNCHANGED walletStore
       \/ /\ restore[c].at = "address"
          /\ restore' = [restore EXCEPT ![c] = [at |-> "network", address |-> freighter]]
          /\ UNCHANGED walletStore
       \/ /\ restore[c].at = "network"
          /\ restore' = [restore EXCEPT ![c].at = "adapter"]
          /\ walletStore' = [walletStore EXCEPT !.address = restore[c].address]
    /\ UNCHANGED <<freighter, inst, conn, card, mixed, walletUse>>
RestoreAdapter(c) ==
    /\ restore[c].at = "adapter"
    /\ walletStore' = [walletStore EXCEPT !.adapter = "freighter"]
    /\ RestoreEnds(c)
    /\ UNCHANGED <<freighter, inst, conn, card, mixed, walletUse>>
RestoreRefused(c) ==
    /\ restore[c].at \in {"check", "address"} /\ WalletFault
    /\ walletStore' = Disconnected
    /\ RestoreEnds(c)
    /\ UNCHANGED <<freighter, inst, conn, card, mixed>>
RestoreFails(c) ==
    /\ restore[c].at \in {"check", "address", "network"} /\ WalletFault
    /\ RestoreEnds(c)
    /\ UNCHANGED <<walletStore, freighter, inst, conn, card, mixed>>

-----------------------------------------------------------------------------
(* connect(), from the modal of one of the two buttons *)

OpenModal ==
    /\ ~Connected /\ inst["header"].mounted /\ ~card.modal
    /\ card' = [card EXCEPT !.modal = TRUE]
    /\ UNCHANGED <<walletStore, freighter, inst, restore, conn, mixed, walletUse>>
\* By the user, or because there is a connection.
CloseModal ==
    /\ card.modal
    /\ card' = [card EXCEPT !.modal = FALSE]
    /\ UNCHANGED <<walletStore, freighter, inst, restore, conn, mixed, walletUse>>

\* The options are not there while the modal's own hook connects.
Offers(c) == inst[c].mounted /\ ~inst[c].connecting /\ (c = "header" => card.modal)

ConnectWallet(c, type) ==
    /\ Offers(c) /\ walletUse.connects < MaxConnects
    /\ walletUse' = [walletUse EXCEPT !.connects = @ + 1]
    /\ inst' = [inst EXCEPT ![c].connecting = TRUE]
    /\ conn' = [conn EXCEPT ![c] = [at |-> "key", type |-> type, address |-> NoWallet]]
    /\ Crossing
    /\ UNCHANGED <<walletStore, freighter, restore, card>>

ConnectEnds(c) ==
    /\ conn' = [conn EXCEPT ![c] = NoConn]
    /\ inst' = [inst EXCEPT ![c].connecting = FALSE]

\* getPublicKey(): Freighter's current account, or the one picked in the window
\* of Albedo.
FreighterKey(c) ==
    /\ conn[c].at = "key" /\ conn[c].type = "freighter"
    /\ conn' = [conn EXCEPT ![c].at = "network", ![c].address = freighter]
    /\ UNCHANGED <<walletStore, freighter, inst, restore, card, mixed, walletUse>>
AlbedoKey(c, key) ==
    /\ conn[c].at = "key" /\ conn[c].type = "albedo"
    /\ walletStore' = [address |-> key, type |-> "albedo", adapter |-> "albedo"]
    /\ ConnectEnds(c)
    /\ UNCHANGED <<freighter, restore, card, mixed, walletUse>>
GetNetwork(c) ==
    /\ conn[c].at = "network"
    /\ walletStore' = [address |-> conn[c].address, type |-> "freighter", adapter |-> "freighter"]
    /\ ConnectEnds(c)
    /\ UNCHANGED <<freighter, restore, card, mixed, walletUse>>
ConnectFails(c) ==
    /\ conn[c].at # "no" /\ WalletFault
    /\ ConnectEnds(c)
    /\ UNCHANGED <<walletStore, freighter, restore, card, mixed>>

Disconnect ==
    /\ Connected /\ inst["header"].mounted
    /\ walletStore' = Disconnected
    /\ Crossing
    /\ UNCHANGED <<freighter, inst, restore, conn, card, walletUse>>

\* The page is loaded again: localStorage keeps the address and the type.
Reload ==
    /\ inst["header"].mounted /\ walletUse.reloads = 0
    /\ walletUse' = [walletUse EXCEPT !.reloads = 1]
    /\ walletStore' = [walletStore EXCEPT !.adapter = NoWallet]
    /\ inst' = [c \in Component |-> [mounted |-> FALSE, connecting |-> FALSE]]
    /\ restore' = [c \in Component |-> Still] /\ conn' = [c \in Component |-> NoConn]
    /\ card' = [modal |-> FALSE, balance |-> NoWallet, for |-> NoWallet, asks |-> {}]
    /\ UNCHANGED <<freighter, mixed>>

\* The user switches the account in the extension (external).
SwitchAccount ==
    /\ \E a \in Address \ {freighter} : freighter' = a
    /\ walletUse.switches = 0 /\ walletUse' = [walletUse EXCEPT !.switches = 1]
    /\ UNCHANGED <<walletStore, inst, restore, conn, card, mixed>>

-----------------------------------------------------------------------------
(* The balance in the header *)

\* The effect of the address: the request under way is cancelled, and there is a
\* new one if there is an address.
AskBalance ==
    /\ inst["header"].mounted /\ card.for # walletStore.address
    /\ LET cancelled == {[of |-> ask.of, live |-> FALSE] : ask \in card.asks}
           new == IF Connected THEN {[of |-> walletStore.address, live |-> TRUE]} ELSE {} IN
       card' = [card EXCEPT !.for = walletStore.address, !.asks = cancelled \cup new]
    /\ UNCHANGED <<walletStore, freighter, inst, restore, conn, mixed, walletUse>>

\* Horizon answers, or fails, which is shown as no balance.
ShowBalance(ask, ok) ==
    /\ ask \in card.asks
    /\ card' = [card EXCEPT !.asks = @ \ {ask},
                            !.balance = IF ~ask.live THEN @ ELSE IF ok THEN ask.of ELSE NoWallet]
    /\ IF ok THEN UNCHANGED walletUse ELSE WalletFault
    /\ UNCHANGED <<walletStore, freighter, inst, restore, conn, mixed>>

-----------------------------------------------------------------------------

WalletInit ==
    /\ walletStore = Disconnected
    /\ freighter \in ReviewerWallet
    /\ inst = [c \in Component |-> [mounted |-> FALSE, connecting |-> FALSE]]
    /\ restore = [c \in Component |-> Still] /\ conn = [c \in Component |-> NoConn]
    /\ card = [modal |-> FALSE, balance |-> NoWallet, for |-> NoWallet, asks |-> {}]
    /\ mixed = FALSE
    /\ walletUse = [connects |-> 0, faults |-> 0, reloads |-> 0, switches |-> 0]

ComponentStep(c) ==
    \/ RestoreStep(c) \/ RestoreAdapter(c) \/ FreighterKey(c) \/ GetNetwork(c)
    \/ \E key \in Address : AlbedoKey(c, key)

WalletNext ==
    \/ MountHeader \/ MountCard \/ MountPage \/ OpenModal \/ CloseModal \/ Disconnect \/ Reload
    \/ SwitchAccount \/ AskBalance
    \/ \E c \in Component :
        \/ Unmount(c) \/ ComponentStep(c) \/ RestoreRefused(c) \/ RestoreFails(c)
        \/ ConnectFails(c) \/ \E type \in {"freighter", "albedo"} : ConnectWallet(c, type)
    \/ \E ask \in [of : Address, live : BOOLEAN], ok \in BOOLEAN : ShowBalance(ask, ok)

-----------------------------------------------------------------------------

\* Address, type and adapter belong to one wallet, as long as no two calls of the
\* hooks overlapped; and whatever they do, there is no type without an address.
StoreIsOneWallet ==
    /\ ~mixed =>
        /\ walletStore.address = NoWallet <=> walletStore.type = NoWallet
        /\ walletStore.adapter \in {NoWallet, walletStore.type}
    /\ walletStore.type # NoWallet => walletStore.address # NoWallet

\* A late answer for an earlier address never replaces the balance of this one.
LateBalanceIsDropped ==
    Connected /\ card.for = walletStore.address /\ (\A ask \in card.asks : ~ask.live)
        => card.balance \in {walletStore.address, NoWallet}

\* A modal that connects comes back: nothing stays "connecting" after the call.
ModalComesBack ==
    \A c \in Component : inst[c].connecting => conn[c].at # "no"

\* The store is of one wallet, and what was asked for another is dropped (useWallet.ts).
WalletIsSound == StoreIsOneWallet /\ LateBalanceIsDropped /\ ModalComesBack
=============================================================================
