------------------------------- MODULE AdminTabs -------------------------------
(***************************************************************************)
(* The frame page of the admin site (home.html with home.js, menu.js and    *)
(* admin.js): the menu that arrives late and in parts, the strip of tabs,   *)
(* what sessionStorage remembers of it, and the popup on a tab's title.     *)
(* A tab is named by the position its menu entry had when it was opened.    *)
(* An event handler runs to its end before the next one starts.             *)
(***************************************************************************)
EXTENDS Naturals, FiniteSets, Sequences

CONSTANTS
    Items,    \* entries of the menu; each stands for its url, too
    NoItem,   \* the parent of a top-level entry
    Parent,   \* Parent[i]: the entry whose sub-menu holds i
    Order     \* Order[i]: place of i in the complete menu, in document order

ASSUME MenuAssumption ==
    /\ IsFiniteSet(Items) /\ NoItem \notin Items
    /\ Parent \in [Items -> Items \cup {NoItem}]
    \* MenuService answers entries and their children, no deeper.
    /\ \A i \in Items : Parent[i] # NoItem => Parent[Parent[i]] = NoItem
    /\ Order \in [Items -> Nat]
    /\ \A i, j \in Items : Order[i] = Order[j] => i = j

VARIABLES
    menu,      \* "loading", "listed", "failed" with the alert on screen, or "none"
    appended,  \* entries whose sub-menu has been appended
    open,      \* entries that are folded out
    strip,     \* the tabs, left to right
    active,    \* id of the tab that is shown, or NoTab
    bits,      \* ids of the tabs whose title carries data-bit
    stored,    \* sessionStorage "menu"; empty also stands for absent
    cur,       \* id in sessionStorage "curMenu"
    popup,     \* data-id of the popup while it is shown, or NoTab
    restored,  \* the delayed restore has run
    early      \* history: a page was opened while part of the menu was missing

menuVars == <<menu, appended, open>>
tabVars == <<strip, active, bits, stored, cur, popup, restored, early>>
vars == <<menuVars, tabVars>>

NoTab == 0
Top == {i \in Items : Parent[i] = NoItem}
Parents == {i \in Items : \E j \in Items : Parent[j] = i}

Tabs == [id : Nat \ {NoTab}, page : Items]
Elements(s) == {s[n] : n \in DOMAIN s}
Ids(s) == {s[n].id : n \in DOMAIN s}
Index(s, id) == CHOOSE n \in DOMAIN s : s[n].id = id

TypeOK ==
    /\ menu \in {"loading", "listed", "failed", "none"}
    /\ appended \subseteq Parents /\ open \subseteq appended
    /\ strip \in Seq(Tabs) /\ stored \in Seq(Tabs)
    /\ active \in Nat /\ cur \in Nat /\ popup \in Nat
    /\ bits \subseteq Nat
    /\ restored \in BOOLEAN /\ early \in BOOLEAN

Init ==
    /\ menu = "loading" /\ appended = {} /\ open = {}
    /\ strip = <<>> /\ active = NoTab /\ bits = {}
    /\ stored = <<>> /\ cur = NoTab
    /\ popup = NoTab
    /\ restored = FALSE /\ early = FALSE

--------------------------------------------------------------------------------
(* The menu *)

Listed == IF menu = "listed" THEN {i \in Items : Parent[i] \in appended \cup {NoItem}} ELSE {}

\* Mutant: the position is counted from 0.
IdOfZeroBased(i) == Cardinality({j \in Listed : Order[j] < Order[i]})

\* Mutant: only the entries that are not folded away are counted.
IdOfVisible(i) ==
    Cardinality({j \in Listed : Order[j] <= Order[i] /\ Parent[j] \in open \cup {NoItem}})

\* Position of i among all li elements of the menu, counted from 1.
IdOf(i) == Cardinality({j \in Listed : Order[j] <= Order[i]})

\* An entry can be clicked when it is in the menu and not folded away.
Clickable(i) == i \in Listed /\ Parent[i] \in open \cup {NoItem}

Pending == Parents \ appended

MenuArrives ==
    /\ menu = "loading"
    /\ menu' = "listed"
    /\ UNCHANGED <<appended, open, tabVars>>

MenuFails ==
    /\ menu = "loading"
    /\ menu' = "failed"
    /\ UNCHANGED <<appended, open, tabVars>>

\* The alert is closed by its cross, which skips its callback, the logout.
AlertDismissed ==
    /\ menu = "failed"
    /\ menu' = "none"
    /\ UNCHANGED <<appended, open, tabVars>>

\* One timer per entry with children; they were started in document order.
SubMenuAppended(i) ==
    /\ menu = "listed"
    /\ i \in Pending /\ \A j \in Pending : Order[i] <= Order[j]
    /\ appended' = appended \cup {i}
    /\ UNCHANGED <<menu, open, tabVars>>

\* A click on an entry with a sub-menu folds it in, or out and the others in.
Toggle(i) ==
    /\ Clickable(i) /\ i \in appended
    /\ open' = IF i \in open THEN open \ {i} ELSE {i}
    /\ UNCHANGED <<menu, appended, tabVars>>

--------------------------------------------------------------------------------
(* layui's tab element and the stored copy of the strip *)

\* setStorageCurMenu, which every change of the active tab calls.
Activate(id) == active' = id /\ cur' = id

\* element.tabChange does nothing when there is no tab with that id.
TabChange(id) == IF id \in Ids(strip) THEN Activate(id) ELSE UNCHANGED <<active, cur>>

\* Mutant: the entry is added without a look at what is stored.
SetStorageMenuPushing(s, tab) == Append(s, tab)

SetStorageMenu(s, tab) ==
    IF tab.id \in Ids(s) THEN [n \in DOMAIN s |-> IF s[n].id = tab.id THEN tab ELSE s[n]]
                         ELSE Append(s, tab)

\* s without its n-th element.
Removed(s, n) == [k \in 1..(Len(s) - 1) |-> IF k < n THEN s[k] ELSE s[k + 1]]

\* Mutant: the spliced list is not written back.
RemoveStorageMenuForgotten(s, id) == s

RemoveStorageMenu(s, id) == IF id \in Ids(s) THEN Removed(s, Index(s, id)) ELSE s

\* The places in K, a set of numbers, from the least to the greatest.
Ascending(K) ==
    CHOOSE f \in [1..Cardinality(K) -> K] : \A m, n \in DOMAIN f : m < n => f[m] < f[n]

\* s without the tabs that have an id in ids.
Without(s, ids) ==
    LET kept == {n \in DOMAIN s : s[n].id \notin ids}
    IN  [k \in 1..Cardinality(kept) |-> s[Ascending(kept)[k]]]

\* The tab layui shows when the n-th, which is active, goes.
Neighbour(n) ==
    IF n < Len(strip) THEN strip[n + 1].id
    ELSE IF n > 1 THEN strip[n - 1].id ELSE NoTab

\* Mutant: the neighbour is shown but not remembered.
TabDeleteUnremembered(id) ==
    /\ id \in Ids(strip)
    /\ strip' = Removed(strip, Index(strip, id))
    /\ bits' = bits \ {id}
    /\ active' = IF id = active THEN Neighbour(Index(strip, id)) ELSE active
    /\ cur' = cur

TabDelete(id) ==
    /\ id \in Ids(strip)
    /\ strip' = Removed(strip, Index(strip, id))
    /\ bits' = bits \ {id}
    /\ active' = IF id = active THEN Neighbour(Index(strip, id)) ELSE active
    /\ cur' = IF id = active /\ active' # NoTab THEN active' ELSE cur

--------------------------------------------------------------------------------
(* Clicks in the menu and on the strip *)

\* A click on an entry without a sub-menu: its tab is opened, or shown when a
\* tab with its id is there.
OpenPage(i) ==
    LET tab == [id |-> IdOf(i), page |-> i] IN
    /\ Clickable(i) /\ i \notin appended
    /\ Activate(tab.id)
    /\ IF tab.id \in Ids(strip)
         THEN UNCHANGED <<strip, stored>>
         ELSE strip' = Append(strip, tab) /\ stored' = SetStorageMenu(stored, tab)
    /\ early' = (early \/ Pending # {})
    /\ UNCHANGED <<menuVars, bits, popup, restored>>

\* reloadTab reloads the frame at the first click on a title; the popup goes.
ClickTitle(id) ==
    /\ id \in Ids(strip)
    /\ bits' = bits \cup {id}
    /\ Activate(id)
    /\ popup' = NoTab
    /\ UNCHANGED <<menuVars, strip, stored, restored, early>>

\* The close icon: layui removes the tab, the listener its stored copy.
ClickClose(id) ==
    /\ TabDelete(id)
    /\ stored' = RemoveStorageMenu(stored, id)
    /\ popup' = NoTab
    /\ UNCHANGED <<menuVars, restored, early>>

--------------------------------------------------------------------------------
(* The popup on a title *)

RightClick(id) ==
    /\ id \in Ids(strip)
    /\ popup' = id
    /\ UNCHANGED <<menuVars, strip, active, bits, stored, cur, restored, early>>

PopupFresh ==
    /\ popup # NoTab
    /\ TabChange(popup)
    /\ popup' = NoTab
    /\ UNCHANGED <<menuVars, strip, bits, stored, restored, early>>

\* Mutant: the popup stays after its command.
PopupCurrentStaying ==
    /\ popup # NoTab
    /\ TabDelete(popup)
    /\ stored' = RemoveStorageMenu(stored, popup)
    /\ UNCHANGED <<menuVars, popup, restored, early>>

PopupCurrent ==
    /\ popup # NoTab
    /\ TabDelete(popup)
    /\ stored' = RemoveStorageMenu(stored, popup)
    /\ popup' = NoTab
    /\ UNCHANGED <<menuVars, restored, early>>

\* The tabs are deleted one by one from the left; when the active one goes, its
\* neighbour takes over, and in the end the one that stays.
PopupOther ==
    LET kept == Index(strip, popup)
        gone == Ids(strip) \ {popup}
    IN /\ popup # NoTab
       /\ strip' = <<strip[kept]>>
       /\ bits' = bits \cap {popup}
       /\ IF active \in gone THEN Activate(popup) ELSE UNCHANGED <<active, cur>>
       /\ stored' = Without(stored, gone)
       /\ popup' = NoTab
       /\ UNCHANGED <<menuVars, restored, early>>

\* As above down to the last tab, with which the active one disappears; then
\* the key "menu" is removed, and curMenu is not.
PopupAll ==
    /\ popup # NoTab
    /\ strip' = <<>> /\ bits' = {} /\ active' = NoTab
    /\ cur' = IF active = NoTab THEN cur ELSE strip[Len(strip)].id
    /\ stored' = <<>>
    /\ popup' = NoTab
    /\ UNCHANGED <<menuVars, restored, early>>

--------------------------------------------------------------------------------
(* Loading the page *)

\* The tab that is current after the loop of the restore: for a tab the user has
\* opened meanwhile, tabAdd only changes to it, and the listener remembers it.
LastReopened ==
    LET there == {n \in DOMAIN stored : stored[n].id \in Ids(strip)} IN
    IF there = {} THEN cur
    ELSE stored[CHOOSE n \in there : \A k \in there : k <= n].id

\* 100 ms after the page is ready: reopen what is stored, show what was shown.
\* curMenu is never absent when a tab is stored.
Restore ==
    LET reopened == strip \o Without(stored, Ids(strip)) IN
    /\ ~restored /\ restored' = TRUE
    /\ strip' = reopened
    /\ cur' = LastReopened
    /\ active' = IF LastReopened \in Ids(reopened) THEN LastReopened ELSE active
    /\ UNCHANGED <<menuVars, bits, stored, popup, early>>

\* The page is left and loaded again, also by way of /logout and a login; only
\* sessionStorage lives on.
Load ==
    /\ menu' = "loading" /\ appended' = {} /\ open' = {}
    /\ strip' = <<>> /\ active' = NoTab /\ bits' = {}
    /\ popup' = NoTab
    /\ restored' = FALSE
    /\ UNCHANGED <<stored, cur, early>>

================================================================================
