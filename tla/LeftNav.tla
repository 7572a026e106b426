-------------------------------- MODULE LeftNav --------------------------------
(***************************************************************************)
(* The left navigation of the admin site, which slides out of the page and  *)
(* back (admin.js).  jQuery queues the animations of an element; a click    *)
(* reads where the navigation is at that moment, possibly half way.         *)
(***************************************************************************)
EXTENDS Naturals, Sequences

CONSTANT MaxQueue  \* bound: animations that wait for each other

ASSUME QueueAssumption == MaxQueue \in Nat

VARIABLES
    navAt,  \* where the navigation is: "shown" only at left 0px
    queue,  \* the ends the queued animations move it to
    mask    \* the dark background that covers the page is shown

navVars == <<navAt, queue, mask>>

Ends == {"shown", "hidden"}

NavTypeOK ==
    /\ navAt \in Ends \cup {"between"}
    /\ queue \in Seq(Ends) /\ Len(queue) <= MaxQueue
    /\ mask \in BOOLEAN

NavInit == navAt = "shown" /\ queue = <<>> /\ mask = FALSE

Animate(end) == Len(queue) < MaxQueue /\ queue' = Append(queue, end)

\* Mutant: the mask is left alone when the navigation is hidden.
ToggleHideUnmasked == navAt = "shown" /\ Animate("hidden") /\ UNCHANGED <<navAt, mask>>

\* A click on the icon while the navigation is fully shown.
ToggleHide == navAt = "shown" /\ Animate("hidden") /\ mask' = FALSE /\ UNCHANGED navAt

\* A click on it otherwise; a narrow window gets the mask.
ToggleShow(narrow) ==
    /\ navAt # "shown"
    /\ Animate("shown")
    /\ mask' = (mask \/ narrow)
    /\ UNCHANGED navAt

ClickMask == mask /\ Animate("hidden") /\ mask' = FALSE /\ UNCHANGED navAt

\* A frame of the running animation, which may be its last one.
Frame ==
    /\ queue # <<>>
    /\ \/ navAt # Head(queue) /\ navAt' = "between" /\ queue' = queue
       \/ navAt' = Head(queue) /\ queue' = Tail(queue)
    /\ UNCHANGED mask

NavNext == ToggleHide \/ (\E narrow \in BOOLEAN : ToggleShow(narrow)) \/ ClickMask \/ Frame

\* Where the navigation comes to rest.
Bound == IF queue = <<>> THEN navAt ELSE queue[Len(queue)]

\* The mask covers the page only while the navigation is there or comes back,
\* however clicks on the icon and on the mask fall into the animations: the page
\* is never left dark with nothing in front of it.
MaskMeansNav == mask => Bound = "shown"

================================================================================
