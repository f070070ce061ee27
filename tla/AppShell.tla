-------------------------------- MODULE AppShell --------------------------------
(***************************************************************************)
(* What surrounds every page of the frontend.  The keyboard shortcuts, of  *)
(* the shell and of the page shown, each with its own record of the keys   *)
(* pressed, and the banner that says whether the browser is offline.  What *)
(* the user is told: the socket of the connected wallet hears              *)
(* notifications, which show as toasts and, when they concern the wallet,  *)
(* are put on a list the browser keeps; toasts of the application do the   *)
(* same. The bell counts what is unread and pulses when it grows.          *)
(***************************************************************************)
EXTENDS Integers, FiniteSetsExt, SequencesExt

CONSTANTS Keys,        \* the keys that are pressed
          MaxGrid,     \* grants a page of the list has
          MaxPresses,  \* bound: what the user does
          MaxOutages   \* bound: times the browser goes offline

ASSUME AppShellAssumption == {MaxGrid, MaxPresses, MaxOutages} \subseteq Nat

-----------------------------------------------------------------------------
(* Shortcuts *)

\* Who listens for which keys: the shell, the list of grants, a grant, its votes.
Shortcuts ==
    [shell |-> {<<"g", "g">>, <<"g", "d">>, <<"g", "r">>, <<"g", "l">>, <<"g", "c">>,
                <<"g", "s">>, <<"?">>, <<"/">>},
     board |-> {<<"f">>, <<"j">>, <<"k">>, <<"Enter">>},
     grant |-> {<<"F">>, <<"h">>},
     votes |-> {<<"a">>, <<"r">>}]
Listeners == DOMAIN Shortcuts
ListenerOf == [grants |-> "board", grant |-> "grant", milestone |-> "votes"]
Mounted(shellPage) == {"shell"} \cup (IF shellPage \in DOMAIN ListenerOf THEN {ListenerOf[shellPage]} ELSE {})

\* What the overlay says can be pressed.
ShortcutRows ==
    {<<"g", to>> : to \in {"g", "d", "r", "l", "c", "s"}}
        \cup {<<key>> : key \in {"/", "?", "f", "j", "k", "Enter", "F", "h", "a", "r"}}

VARIABLES
    shellPage,     \* grants, grant, milestone, or another
    writing,       \* whether an input has the focus
    pressed,       \* each listener's sequence of keys
    expiringKeys,  \* the listeners whose timer runs
    recent,        \* history: the last two keys pressed outside inputs
    acted,         \* what the last key did: listener, keys
    overlay,       \* whether the overlay is open
    grid,          \* grants that are listed, and the index that is highlighted
    openedAt,      \* history: the index Enter opened last, and the one then highlighted
    online, wasOffline, restored,
    restoring,     \* the timer that ends "Connection restored"
    presses, outages

keyVars == <<shellPage, writing, pressed, expiringKeys, recent, acted, overlay, grid, openedAt>>
bannerVars == <<online, wasOffline, restored, restoring>>
shellVars == <<keyVars, bannerVars, presses, outages>>

Press == presses < MaxPresses /\ presses' = presses + 1

\* Some shortcuts have a condition; the votes' is met by a reviewer who has not voted.
Condition(keys) ==
    CASE keys \in {<<"j">>, <<"k">>} -> grid.size > 0
      [] keys = <<"Enter">> -> grid.at >= 0 /\ grid.at < grid.size
      [] OTHER -> TRUE
\* A listener's new sequence, whether its timer runs, and what it does: the keys
\* are a shortcut, or the beginning of one, or end with one that is a single key.
HandleKeyDown(l, key) ==
    LET keys == Append(pressed[l], key)
        does(k) == k \in Shortcuts[l] /\ Condition(k)
    IN  IF does(keys) THEN [seq |-> <<>>, timer |-> FALSE, act |-> {<<l, keys>>}]
        ELSE IF \E s \in Shortcuts[l] : IsStrictPrefix(keys, s)
        THEN [seq |-> keys, timer |-> TRUE, act |-> {}]
        ELSE [seq |-> <<>>, timer |-> FALSE,
              act |-> IF does(<<key>>) THEN {<<l, <<key>>>>} ELSE {}]

Does(acts, keys) == \E a \in acts : a[2] = keys
\* The page the router goes to.
GoesTo(acts) ==
    CASE Does(acts, <<"g", "g">>) -> "grants"
      [] \E k \in {"d", "r", "l", "c", "s"} : Does(acts, <<"g", k>>) -> "other"
      [] Does(acts, <<"/">>) -> IF shellPage = "grants" THEN shellPage ELSE "other"
      [] Does(acts, <<"h">>) -> "other"
      [] Does(acts, <<"Enter">>) -> "grant"
      [] OTHER -> shellPage
Highlights(acts) ==
    CASE Does(acts, <<"j">>) -> Min({grid.at + 1, grid.size - 1})
      [] Does(acts, <<"k">>) -> Max({grid.at - 1, 0})
      [] OTHER -> grid.at

KeyDown(key) ==
    LET heard == Mounted(shellPage)
        new == [l \in heard |-> HandleKeyDown(l, key)]
        acts == UNION {new[l].act : l \in heard}
    IN
    /\ Press /\ ~writing
    /\ acted' = acts
    /\ recent' = <<recent[2], key>>
    /\ shellPage' = GoesTo(acts)
    /\ writing' = (Does(acts, <<"f">>) \/ (Does(acts, <<"/">>) /\ shellPage = "grants"))
    /\ overlay' = IF Does(acts, <<"?">>) THEN ~overlay ELSE overlay /\ key # "Escape"
    /\ grid' = IF shellPage' = shellPage THEN [grid EXCEPT !.at = Highlights(acts)] ELSE [grid EXCEPT !.at = -1]
    /\ openedAt' = IF Does(acts, <<"Enter">>) THEN [at |-> grid.at, of |-> grid.size] ELSE openedAt
    /\ pressed' = [l \in Listeners |->
          IF l \in heard /\ l \in Mounted(shellPage') THEN new[l].seq
          ELSE IF l \in Mounted(shellPage') THEN pressed[l] ELSE <<>>]
    /\ expiringKeys' = {l \in heard \cap Mounted(shellPage') : new[l].timer /\ overlay' = overlay}
    /\ UNCHANGED <<bannerVars, outages>>
\* Keys pressed in an input are not shortcuts.
Write ==
    /\ Press /\ writing
    /\ acted' = {}
    /\ grid' = [grid EXCEPT !.at = -1]
    /\ UNCHANGED <<shellPage, writing, pressed, expiringKeys, recent, overlay, openedAt, bannerVars, outages>>
\* An input gets the focus, or loses it.
ChangeFocus ==
    /\ writing' = ~writing
    /\ UNCHANGED <<shellPage, pressed, expiringKeys, recent, acted, overlay, grid, openedAt, bannerVars,
                   presses, outages>>
ShortcutExpires(l) ==
    /\ l \in expiringKeys /\ expiringKeys' = expiringKeys \ {l}
    /\ pressed' = [pressed EXCEPT ![l] = <<>>]
    /\ UNCHANGED <<shellPage, writing, recent, acted, overlay, grid, openedAt, bannerVars, presses, outages>>
\* A rendering has new shortcuts: the effect's cleanup stops the timer, and leaves the
\* sequence.
Rerender(l) ==
    /\ l \in expiringKeys /\ expiringKeys' = expiringKeys \ {l}
    /\ UNCHANGED <<shellPage, writing, pressed, recent, acted, overlay, grid, openedAt, bannerVars,
                   presses, outages>>
CloseOverlay ==
    /\ overlay /\ overlay' = FALSE
    /\ expiringKeys' = expiringKeys \ {"shell"}
    /\ UNCHANGED <<shellPage, writing, pressed, recent, acted, grid, openedAt, bannerVars, presses, outages>>
\* The user follows a link.
FollowLink(to) ==
    /\ Press /\ to # shellPage
    /\ shellPage' = to /\ writing' = FALSE /\ acted' = {}
    /\ pressed' = [l \in Listeners |-> IF l = "shell" THEN pressed[l] ELSE <<>>]
    /\ expiringKeys' = expiringKeys \cap {"shell"}
    /\ grid' = [grid EXCEPT !.at = -1]
    /\ UNCHANGED <<recent, overlay, openedAt, bannerVars, outages>>
\* The list changes under the highlight.
GridChanges(size) ==
    /\ shellPage = "grants" /\ size # grid.size
    /\ grid' = [grid EXCEPT !.size = size]
    /\ UNCHANGED <<shellPage, writing, pressed, expiringKeys, recent, acted, overlay, openedAt, bannerVars,
                   presses, outages>>

-----------------------------------------------------------------------------
(* The banner: an effect runs when online or wasOffline has changed *)

HandleOffline ==
    /\ online /\ outages < MaxOutages
    /\ outages' = outages + 1
    /\ online' = FALSE /\ wasOffline' = TRUE /\ restoring' = FALSE
    /\ UNCHANGED <<restored, keyVars, presses>>
HandleOnline ==
    /\ ~online
    /\ online' = TRUE
    /\ restored' = (restored \/ wasOffline) /\ restoring' = wasOffline
    /\ UNCHANGED <<wasOffline, keyVars, presses, outages>>
BannerTimer ==
    /\ restoring /\ restoring' = FALSE
    /\ restored' = FALSE /\ wasOffline' = FALSE
    /\ UNCHANGED <<online, keyVars, presses, outages>>

-----------------------------------------------------------------------------

ShellInit ==
    /\ shellPage \in {"grants", "milestone"} /\ writing = FALSE
    /\ pressed = [l \in Listeners |-> <<>>] /\ expiringKeys = {}
    /\ recent = <<"none", "none">> /\ acted = {}
    /\ overlay = FALSE /\ grid = [size |-> 0, at |-> -1] /\ openedAt = [at |-> -1, of |-> 0]
    /\ online \in BOOLEAN /\ wasOffline = ~online /\ restored = FALSE /\ restoring = FALSE
    /\ presses = 0 /\ outages = 0

ShellNext ==
    \/ Write \/ ChangeFocus \/ CloseOverlay \/ HandleOffline \/ HandleOnline \/ BannerTimer
    \/ \E key \in Keys : KeyDown(key)
    \/ \E l \in Listeners : ShortcutExpires(l) \/ Rerender(l)
    \/ \E to \in {"grants", "grant", "milestone", "other"} : FollowLink(to)
    \/ \E size \in 0..MaxGrid : GridChanges(size)

\* Timers fire.
ShellFairness ==
    /\ WF_shellVars(BannerTimer)
    /\ \A l \in Listeners : WF_shellVars(ShortcutExpires(l))

-----------------------------------------------------------------------------
(* Properties *)

\* What a key does was asked for by the keys pressed last, as the overlay lists them;
\* Enter opens the grant that was highlighted, which is on the list.
ActsAreAsked ==
    /\ \A a \in acted : IsSuffix(a[2], recent) /\ a[2] \in ShortcutRows
    /\ openedAt.at < openedAt.of \/ openedAt.at = -1
\* No listener waits for a key that can never complete a shortcut, so none is stuck.
KeysCanGoOn ==
    \A l \in Listeners :
        /\ pressed[l] # <<>> => \E s \in Shortcuts[l] : IsStrictPrefix(pressed[l], s)
        /\ pressed[l] # <<>> => l \in Mounted(shellPage)
        /\ l \in expiringKeys => pressed[l] # <<>>
\* "Connection restored" is about to end, or the browser is offline once more.
RestoredIsBrief == restored => restoring \/ ~online

\* Keys do what was asked, and banners are brief (useKeyboardShortcuts.ts, OfflineBanner.tsx).
ShellIsSound == ActsAreAsked /\ KeysCanGoOn /\ RestoredIsBrief

\* A browser that stays online ends with no banner.
BannersLeave == <>[]online => <>[](~restored)

-----------------------------------------------------------------------------
(* Notifications and toasts *)

CONSTANTS Holder,              \* wallets
          CouncilHolder,       \* those the environment lists, who are told everything
          Payloads,            \* whom a notification can name
          MaxKept, MaxToasts,  \* MAX_NOTIFICATIONS, MAX_TOASTS
          MaxReconnects,       \* reconnectionAttempts
          MaxTold,             \* bound: notifications and toasts
          MaxBellClicks        \* bound: what the user does

ASSUME NoticesAssumption ==
    /\ CouncilHolder \subseteq Holder /\ Payloads \subseteq SUBSET Holder
    /\ {MaxKept, MaxToasts} \subseteq Nat \ {0}

NoHolder == "nobody"
NoNotice == [id |-> 0, actors |-> {}]

VARIABLES
    holder,    \* the connected wallet
    wire,      \* the socket: up, and the reconnections it has left
    latest,    \* lastNotification, and the wallets it names
    rendered,  \* whether latest has been shown and its effects have run
    soon,      \* the notification whose setTimeout is pending
    inbox,     \* the list: id, read
    saved,     \* the list localStorage has, whatever the wallet
    toasts,    \* the toasts shown, oldest first
    leaving,   \* the toasts whose timer runs
    bell,      \* pulse; its two timers; the unread count it saw last; drawer open
    sentEvents, bellClicks

noticeVars == <<holder, wire, latest, rendered, soon, inbox, saved, toasts, leaving, bell, sentEvents,
                bellClicks>>

NoWire == [up |-> FALSE, left |-> 0]
Unread(list) == Cardinality({i \in DOMAIN list : ~list[i].read})

-----------------------------------------------------------------------------
(* The list and the bell *)

IsRelevant(n, wallet) == wallet \in CouncilHolder \cup n.actors

Ring(list) ==
    bell' = IF Unread(list) = bell.seen THEN bell
            ELSE LET more == Unread(list) > bell.seen IN
                 [bell EXCEPT !.start = more, !.stop = more, !.seen = Unread(list)]
UpdateList(next) ==
    LET list == SubSeq(next, 1, Min({MaxKept, Len(next)})) IN
    /\ inbox' = list
    /\ saved' = IF holder # NoHolder THEN list ELSE saved
    /\ Ring(list)
PulseStarts == /\ bell.start /\ bell' = [bell EXCEPT !.start = FALSE, !.pulse = TRUE]
               /\ UNCHANGED <<holder, wire, latest, rendered, soon, inbox, saved, toasts, leaving,
                              sentEvents, bellClicks>>
PulseStops == /\ bell.stop /\ ~bell.start
              /\ bell' = [bell EXCEPT !.stop = FALSE, !.pulse = FALSE]
              /\ UNCHANGED <<holder, wire, latest, rendered, soon, inbox, saved, toasts, leaving,
                             sentEvents, bellClicks>>

-----------------------------------------------------------------------------
(* Toasts *)

\* The oldest toasts make room; their timers run on.
AddToast(id) ==
    LET next == Append(toasts, id) IN
    /\ toasts' = SubSeq(next, IF Len(next) > MaxToasts THEN Len(next) - MaxToasts + 1 ELSE 1,
                        Len(next))
    /\ leaving' = leaving \cup {id}
RemoveToast(id) ==
    /\ id \in ToSet(toasts) \/ id \in leaving
    /\ toasts' = RemoveFirst(toasts, id)
    /\ leaving' = leaving \ {id}
    /\ UNCHANGED <<holder, wire, latest, rendered, soon, inbox, saved, bell, sentEvents, bellClicks>>
ToastExpires(id) == id \in leaving /\ RemoveToast(id)

\* An event of the application; a copied address is shown and not put on the list.
OnToast(copied) ==
    /\ sentEvents < MaxTold /\ sentEvents' = sentEvents + 1
    /\ AddToast(sentEvents')
    /\ IF copied \/ holder = NoHolder THEN UNCHANGED <<inbox, saved, bell>>
       ELSE UpdateList(<<[id |-> sentEvents', read |-> FALSE]>> \o inbox)
    /\ UNCHANGED <<holder, wire, latest, rendered, soon, bellClicks>>

-----------------------------------------------------------------------------
(* The socket and its notifications *)

SocketConnects ==
    /\ holder # NoHolder /\ ~wire.up
    /\ wire' = [up |-> TRUE, left |-> MaxReconnects]
    /\ wire.left > 0
    /\ UNCHANGED <<holder, latest, rendered, soon, inbox, saved, toasts, leaving, bell, sentEvents,
                   bellClicks>>
SocketDrops ==
    /\ wire.up /\ wire' = [wire EXCEPT !.up = FALSE]
    /\ UNCHANGED <<holder, latest, rendered, soon, inbox, saved, toasts, leaving, bell, sentEvents,
                   bellClicks>>
ReconnectFails ==
    /\ holder # NoHolder /\ ~wire.up /\ wire.left > 0
    /\ wire' = [wire EXCEPT !.left = @ - 1]
    /\ UNCHANGED <<holder, latest, rendered, soon, inbox, saved, toasts, leaving, bell, sentEvents,
                   bellClicks>>
\* A second one in the same rendering takes the place of the first.
NoticeArrives(actors) ==
    /\ wire.up /\ sentEvents < MaxTold
    /\ sentEvents' = sentEvents + 1
    /\ latest' = [id |-> sentEvents', actors |-> actors] /\ rendered' = FALSE
    /\ UNCHANGED <<holder, wire, soon, inbox, saved, toasts, leaving, bell, bellClicks>>
\* The effects: a toast, and a timer for the list, which replaces the one pending.
RenderNotice ==
    /\ ~rendered /\ rendered' = TRUE
    /\ AddToast(latest.id)
    /\ soon' = IF holder # NoHolder /\ IsRelevant(latest, holder) THEN latest ELSE NoNotice
    /\ UNCHANGED <<holder, wire, latest, inbox, saved, bell, sentEvents, bellClicks>>
\* Mutation: an item of the same id stays.
Prepended(id) == <<[id |-> id, read |-> FALSE]>> \o inbox
ListedFirst(id) == <<[id |-> id, read |-> FALSE]>> \o RemoveFirstMatch(inbox, LAMBDA i : i.id = id)
ListNotice ==
    /\ soon # NoNotice /\ soon' = NoNotice
    /\ UpdateList(ListedFirst(soon.id))
    /\ UNCHANGED <<holder, wire, latest, rendered, toasts, leaving, sentEvents, bellClicks>>

\* The wallet connects, changes or disconnects: a new socket, the list read again
\* from the browser, and the effects of the last notification run again for it.
BellClick == bellClicks < MaxBellClicks /\ bellClicks' = bellClicks + 1
ChangeHolder(w) ==
    /\ BellClick /\ w # holder
    /\ holder' = w
    /\ wire' = IF w = NoHolder THEN NoWire ELSE [up |-> FALSE, left |-> MaxReconnects]
    /\ inbox' = IF w = NoHolder THEN <<>> ELSE saved
    /\ Ring(inbox')
    /\ soon' = IF w # NoHolder /\ rendered /\ latest # NoNotice /\ IsRelevant(latest, w)
               THEN latest ELSE NoNotice
    /\ UNCHANGED <<latest, rendered, saved, toasts, leaving, sentEvents>>

-----------------------------------------------------------------------------
(* The drawer *)

OpenDrawer == holder # NoHolder /\ bell.drawer
ToggleDrawer ==
    /\ BellClick /\ holder # NoHolder
    /\ bell' = [bell EXCEPT !.drawer = ~@]
    /\ UNCHANGED <<holder, wire, latest, rendered, soon, inbox, saved, toasts, leaving, sentEvents>>
MarkAsRead(list) ==
    LET seen == Unread(list) IN
    /\ inbox' = list /\ saved' = list
    /\ bell' = [bell EXCEPT !.start = @ /\ seen = bell.seen, !.stop = @ /\ seen = bell.seen,
                            !.seen = seen]
\* A row is followed: it is read, and the drawer closes.
Navigate(i) ==
    /\ BellClick /\ OpenDrawer /\ i \in DOMAIN inbox
    /\ LET list == [inbox EXCEPT ![i].read = TRUE]
           same == Unread(list) = bell.seen
       IN /\ inbox' = list /\ saved' = list
          /\ bell' = [bell EXCEPT !.drawer = FALSE, !.start = @ /\ same, !.stop = @ /\ same,
                                  !.seen = Unread(list)]
    /\ UNCHANGED <<holder, wire, latest, rendered, soon, toasts, leaving, sentEvents>>
MarkAllAsRead ==
    /\ BellClick /\ OpenDrawer
    /\ MarkAsRead([i \in DOMAIN inbox |-> [inbox[i] EXCEPT !.read = TRUE]])
    /\ UNCHANGED <<holder, wire, latest, rendered, soon, toasts, leaving, sentEvents>>
ClearAll ==
    /\ BellClick /\ OpenDrawer
    /\ MarkAsRead(<<>>)
    /\ UNCHANGED <<holder, wire, latest, rendered, soon, toasts, leaving, sentEvents>>

-----------------------------------------------------------------------------

NoticeInit ==
    /\ holder = NoHolder /\ wire = NoWire
    /\ latest = NoNotice /\ rendered = TRUE /\ soon = NoNotice
    /\ inbox = <<>> /\ saved = <<>>
    /\ toasts = <<>> /\ leaving = {}
    /\ bell = [pulse |-> FALSE, start |-> FALSE, stop |-> FALSE, seen |-> 0, drawer |-> FALSE]
    /\ sentEvents = 0 /\ bellClicks = 0

NoticeNext ==
    \/ PulseStarts \/ PulseStops \/ SocketConnects \/ SocketDrops \/ ReconnectFails
    \/ RenderNotice \/ ListNotice \/ ToggleDrawer \/ MarkAllAsRead \/ ClearAll
    \/ \E t \in 1..MaxTold : RemoveToast(t)
    \/ \E copied \in BOOLEAN : OnToast(copied)
    \/ \E actors \in Payloads : NoticeArrives(actors)
    \/ \E w \in Holder \cup {NoHolder} : ChangeHolder(w)
    \/ \E i \in 1..MaxKept : Navigate(i)

\* React renders, and timers fire.
NoticeFairness ==
    /\ WF_noticeVars(RenderNotice) /\ WF_noticeVars(ListNotice)
    /\ \A t \in 1..MaxTold : WF_noticeVars(ToastExpires(t))

-----------------------------------------------------------------------------
(* Properties *)

\* What is on the list is what the browser keeps, each notification once, and what
\* the bell says is unread is unread on the list.
ListIsKept ==
    /\ holder # NoHolder => inbox = saved
    /\ Len(inbox) <= MaxKept
    /\ \A i, j \in DOMAIN inbox : inbox[i].id = inbox[j].id => i = j
    /\ bell.seen = Unread(inbox)
\* Every toast on the screen has the timer that removes it, also one that came while
\* others were pushed out; never more than MaxToasts at a time.
ToastsAreTimed == ToSet(toasts) \subseteq leaving /\ Len(toasts) <= MaxToasts

\* The list shown is the one stored, and toasts leave in time (useNotifications.ts).
NoticesAreSound == ListIsKept /\ ToastsAreTimed

\* A notification enters the list of a wallet it concerns, or comes with the list the
\* browser kept; one that was read is unread again only if it came again.
ListedForAReason ==
    [][\A i \in DOMAIN inbox' :
          LET item == inbox'[i] IN
          item \notin ToSet(inbox) \cup ToSet(saved) /\ ~item.read =>
              holder # NoHolder /\ item.id \in {sentEvents', soon.id}
              /\ (item.id = soon.id => IsRelevant(soon, holder))]_noticeVars

\* The screen empties.
ToastsLeave == <>[](toasts = <<>>)
=============================================================================
