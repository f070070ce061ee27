----------------------------- MODULE SharedStorage -----------------------------
(***************************************************************************)
(* What the tabs of a browser share in its local storage: the user's       *)
(* preferences and the list of watched grants. Each change reads what is   *)
(* stored, changes it and writes it all back; the tab that writes sees it  *)
(* at once, the others when the browser tells them.                        *)
(***************************************************************************)
EXTENDS Naturals, FiniteSetsExt, SequencesExt

CONSTANTS Tab,
          Options,     \* [preference -> what it can be set to]
          Default,     \* [preference -> what it is before]
          Watchable,   \* grants
          WatchMax,    \* WATCHLIST_MAX_ITEMS
          MaxSettings  \* bound: what the user does

ASSUME SharedStorageAssumption ==
    /\ \A p \in DOMAIN Options : Default[p] \in Options[p]
    /\ WatchMax \in Nat \ {0} /\ MaxSettings \in Nat

Preference == DOMAIN Options
Unset == <<>>
Broken == "broken"

VARIABLES
    prefs,     \* what is stored: Unset, or a record, of which parts can be what an older
               \* version, or someone else, wrote
    watching,  \* the ids that are stored, the longest watched first
    tabSeen,   \* each tab: the preferences and the ids it shows, the dialog of Reset
    untold,    \* each tab: what others have written since it read
    settingsMade

storageVars == <<prefs, watching, tabSeen, untold, settingsMade>>

-----------------------------------------------------------------------------
(* Preferences *)

\* What is not one of the choices falls back to the default.
MergePreferences(raw) ==
    [p \in Preference |-> IF raw # Unset /\ raw[p] \in Options[p] THEN raw[p] ELSE Default[p]]
ReadPreferences == MergePreferences(prefs)

Change == settingsMade < MaxSettings /\ settingsMade' = settingsMade + 1
\* Mutation: a change of the watchlist is told to no other tab.
ToldOfPreferences(t, key) ==
    IF key = "watching" THEN [untold EXCEPT ![t] = @ \ {key}]
    ELSE [u \in Tab |-> IF u = t THEN untold[u] \ {key} ELSE untold[u] \cup {key}]
Told(t, key) == [u \in Tab |-> IF u = t THEN untold[u] \ {key} ELSE untold[u] \cup {key}]

SetPreferences(t, p, v) ==
    /\ Change
    /\ prefs' = [ReadPreferences EXCEPT ![p] = v]
    /\ tabSeen' = [tabSeen EXCEPT ![t].prefs = prefs']
    /\ untold' = Told(t, "prefs")
    /\ UNCHANGED watching
\* Reset asks first.
AskReset(t, yes) ==
    /\ tabSeen' = [tabSeen EXCEPT ![t].asking = yes]
    /\ tabSeen[t].asking # yes
    /\ UNCHANGED <<prefs, watching, untold, settingsMade>>
ResetPreferences(t) ==
    /\ Change /\ tabSeen[t].asking
    /\ prefs' = Unset
    /\ tabSeen' = [tabSeen EXCEPT ![t].prefs = MergePreferences(Unset), ![t].asking = FALSE]
    /\ untold' = Told(t, "prefs")
    /\ UNCHANGED watching

-----------------------------------------------------------------------------
(* Watched grants *)

CapWatchlist(ids) == SubSeq(ids, IF Len(ids) > WatchMax THEN Len(ids) - WatchMax + 1 ELSE 1, Len(ids))
Without(g) == RemoveFirst(watching, g)
WriteWatchlist(t, ids) ==
    /\ watching' = CapWatchlist(ids)
    /\ tabSeen' = [tabSeen EXCEPT ![t].ids = watching']
    /\ untold' = Told(t, "watching")

\* The button says what the tab has seen; what it does depends on what is stored.
Watched(t, g) == Contains(tabSeen[t].ids, g)
Toggle(t, g) ==
    /\ Change
    /\ WriteWatchlist(t, IF Contains(watching, g) THEN Without(g) ELSE Append(watching, g))
    /\ UNCHANGED prefs
\* The panel lists what the tab has seen, a card for each grant that loads.
RemoveWatched(t, g) ==
    /\ Change /\ Watched(t, g)
    /\ WriteWatchlist(t, Without(g))
    /\ UNCHANGED prefs

-----------------------------------------------------------------------------

\* The browser tells a tab that others have written.
StorageEvent(t, key) ==
    /\ key \in untold[t]
    /\ untold' = [untold EXCEPT ![t] = @ \ {key}]
    /\ tabSeen' = IF key = "prefs" THEN [tabSeen EXCEPT ![t].prefs = ReadPreferences]
               ELSE [tabSeen EXCEPT ![t].ids = watching]
    /\ UNCHANGED <<prefs, watching, settingsMade>>

StorageInit ==
    /\ prefs \in {Unset} \cup [Preference -> {Broken} \cup UNION {Options[p] : p \in Preference}]
    /\ watching = <<>>
    /\ tabSeen = [t \in Tab |-> [prefs |-> ReadPreferences, ids |-> <<>>, asking |-> FALSE]]
    /\ untold = [t \in Tab |-> {}]
    /\ settingsMade = 0

StorageNext ==
    \E t \in Tab :
        \/ \E p \in Preference : \E v \in Options[p] : SetPreferences(t, p, v)
        \/ \E yes \in BOOLEAN : AskReset(t, yes)
        \/ ResetPreferences(t)
        \/ \E g \in Watchable : Toggle(t, g) \/ RemoveWatched(t, g)
        \/ \E key \in {"prefs", "watching"} : StorageEvent(t, key)

StorageFairness == \A t \in Tab : \A key \in {"prefs", "watching"} : WF_storageVars(StorageEvent(t, key))

-----------------------------------------------------------------------------
(* Properties *)

\* A tab that has been told of everything shows what is stored; no grant is watched
\* twice, and no more than the limit.
TabsAgree ==
    /\ \A t \in Tab :
          /\ "prefs" \notin untold[t] => tabSeen[t].prefs = ReadPreferences
          /\ "watching" \notin untold[t] => tabSeen[t].ids = watching
    /\ IsInjective(watching) /\ Len(watching) <= WatchMax
\* A change touches what it is about: one preference, whatever the other tab has set
\* since, and one grant, but for the one the limit drops.
OneThingChanges ==
    [][ /\ prefs' # prefs /\ prefs' # Unset =>
              Cardinality({p \in Preference : prefs'[p] # ReadPreferences[p]}) <= 1
        /\ Cardinality(SymDiff(ToSet(watching'), ToSet(watching)))
              <= IF Len(watching) = WatchMax THEN 2 ELSE 1 ]_storageVars
\* Every tab learns what the others wrote.
TabsCatchUp == <>[](\A t \in Tab : tabSeen[t].prefs = ReadPreferences /\ tabSeen[t].ids = watching)
=============================================================================
