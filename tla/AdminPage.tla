------------------------------- MODULE AdminPage -------------------------------
(***************************************************************************)
(* The frame page as a whole: the navigation that has to be on screen for   *)
(* its entries to be clicked, the tabs, and the reload that resets both.    *)
(***************************************************************************)
EXTENDS AdminTabs, LeftNav

pageVars == <<vars, navVars>>

PageInit == Init /\ NavInit

Background ==
    \/ MenuArrives \/ MenuFails
    \/ \E i \in Items : SubMenuAppended(i)
    \/ Restore

Strip ==
    \/ \E id \in Ids(strip) : ClickTitle(id) \/ ClickClose(id) \/ RightClick(id)
    \/ PopupFresh \/ PopupCurrent \/ PopupOther \/ PopupAll

MenuClick == navAt # "hidden" /\ \E i \in Items : Toggle(i) \/ OpenPage(i)

\* The alert on a menu that failed is modal.
PageNext ==
    \/ Background /\ UNCHANGED navVars
    \/ menu # "failed" /\ (Strip \/ MenuClick) /\ UNCHANGED navVars
    \/ AlertDismissed /\ UNCHANGED navVars
    \/ menu # "failed" /\ NavNext /\ UNCHANGED vars
    \/ Load /\ navAt' = "shown" /\ queue' = <<>> /\ mask' = FALSE

PageSpec == PageInit /\ [][PageNext]_pageVars

--------------------------------------------------------------------------------
(* Properties *)

PageTypeOK == TypeOK /\ NavTypeOK

\* What is on the strip is what sessionStorage holds, once the restore has run,
\* and never more than that before: closing, closing others, restoring and opening
\* in the 100 ms before the restore all keep the two lists together, so no tab
\* comes back after a reload that was closed, and none is lost or shows another page.
OpenTabsAreStored ==
    /\ Elements(strip) \subseteq Elements(stored)
    /\ restored => Elements(stored) \subseteq Elements(strip)

\* The remembered tab is the active one whenever there is one, also after a tab is
\* closed and layui moves on to its neighbour by itself; when none is active, the
\* remembered tab is not on the strip.
ActiveRemembered ==
    IF active = NoTab THEN cur \notin Ids(strip) ELSE active = cur /\ active \in Ids(strip)

\* A tab's id names it: the strip and the stored list hold an id once.
IdsAreUnique ==
    /\ \A m, n \in DOMAIN strip : strip[m].id = strip[n].id => m = n
    /\ \A m, n \in DOMAIN stored : stored[m].id = stored[n].id => m = n

\* The popup is never left on screen for a tab that has gone, whose commands
\* would do nothing or close every other tab.
PopupNamesTab == popup # NoTab => popup \in Ids(strip)

Shown == IF active \in Ids(strip) THEN strip[Index(strip, active)].page ELSE NoItem

\* A click on a menu entry shows that entry's page, over reloads too, as long as
\* no page was ever opened while a sub-menu was still to be appended: the ids are
\* positions, and those of the later entries move when a sub-menu arrives.
ClickShowsPage ==
    [][\A i \in Items : OpenPage(i) /\ ~early' => Shown' = i]_pageVars

================================================================================
