-------------------------------- MODULE PushList --------------------------------
(***************************************************************************)
(* The page of push rules (push/list.html with push-list.js): a table that  *)
(* is loaded by requests that can overtake each other, one form that serves *)
(* for adding and editing, and the question or alert above it: layer closes *)
(* the one on screen when it opens another.  The user reaches the topmost   *)
(* dialog only, or the page when there is none.                             *)
(* The server is whatever may answer such requests: it does what it is told *)
(* or not, and its answer reads as success, as refusal, or as an error.     *)
(***************************************************************************)
EXTENDS Naturals, FiniteSets, Sequences, SequencesExt

CONSTANTS
    Recs,      \* ids a rule may have
    NoRec,     \* the empty hidden id
    Order,     \* the order of the ids, in which searches find rules
    PageSize,  \* rules on a page
    Queries,   \* contents of the search form
    Options,   \* bound: options of the selects that are tried, the blank one apart
    Radios,    \* bound: settings of the radio that are tried
    MaxVer,    \* bound: changes of the rules
    MaxLists,  \* bound: list requests under way together
    MaxPosts   \* bound: delete requests for a rule under way together

ASSUME PageAssumption ==
    /\ NoRec \notin Recs /\ IsFiniteSet(Recs) /\ Queries # {}
    /\ Order \in [Recs -> Nat] /\ PageSize \in Nat \ {0}
    /\ \A r, s \in Recs : Order[r] = Order[s] => r = s
    /\ Radios \subseteq BOOLEAN
    /\ MaxVer \in Nat /\ MaxLists \in Nat \ {0} /\ MaxPosts \in Nat

VARIABLES
    found,      \* rules in the database that each search finds
    ver,        \* number of changes made to them
    where,      \* the search that reloads repeat
    page,       \* the page the pager is on
    pageCurr,   \* the page reloads ask for, that of the last answer
    pages,      \* the pages the pager offers, none while there is no pager
    table,      \* what the table shows: rows and their version
    lists,      \* list requests under way, oldest first
    posts,      \* delete requests under way
    form,       \* fields of the form: hidden id, name, selects, radio
    locked,     \* the selects carry the attribute disabled
    wired,      \* layui has rendered the selects with handlers
    formDialog, \* the dialog that shows the form
    dialog,     \* the question or the alert above it or above the page
    blame,      \* history: a known cause for a wrong table since it was last right
    dropped,    \* history: an edit dialog was closed without being sent
    off         \* history: the radio was moved to "disabled" in some dialog

formVars == <<form, locked, wired>>
serverVars == <<found, ver>>
tableVars == <<where, page, pageCurr, pages, table, lists>>
dialogVars == <<formDialog, dialog>>
vars == <<serverVars, tableVars, posts, formVars, dialogVars, blame, dropped, off>>

Blank == "blank"
PageNumbers == Nat \ {0}

Form == [id : Recs \cup {NoRec}, named : BOOLEAN, types : Recs \cup Options \cup {Blank}, enable : BOOLEAN]
Requests == [query : Queries, page : PageNumbers, served : BOOLEAN, stale : BOOLEAN, found : SUBSET Recs, ver : 0..MaxVer]
Request(q, p) == [query |-> q, page |-> p, served |-> FALSE, stale |-> FALSE, found |-> {}, ver |-> 0]
Empty == [rows |-> {}, ver |-> 0]

NoForm == [open |-> FALSE, rec |-> NoRec, sent |-> FALSE, fresh |-> FALSE]
FormFor(r) == [open |-> TRUE, rec |-> r, sent |-> FALSE, fresh |-> TRUE]
None == [what |-> "none", rec |-> NoRec, reload |-> FALSE]
Confirm(r) == [what |-> "confirm", rec |-> r, reload |-> FALSE]
Alert(reload) == [what |-> "alert", rec |-> NoRec, reload |-> reload]

TypeOK ==
    /\ found \in [Queries -> SUBSET Recs] /\ ver \in 0..MaxVer
    /\ where \in Queries /\ table \in [rows : SUBSET Recs, ver : 0..MaxVer]
    /\ page \in PageNumbers /\ pageCurr \in PageNumbers /\ pages \subseteq PageNumbers
    /\ lists \in Seq(Requests) /\ Len(lists) <= MaxLists
    /\ posts \in [Recs -> 0..MaxPosts]
    /\ form \in Form /\ locked \in BOOLEAN /\ wired \in BOOLEAN
    /\ formDialog \in [open : BOOLEAN, rec : Recs \cup {NoRec}, sent : BOOLEAN, fresh : BOOLEAN]
    /\ dialog \in {None} \cup {Confirm(r) : r \in Recs} \cup {Alert(b) : b \in BOOLEAN}
    /\ blame \in BOOLEAN /\ dropped \in BOOLEAN /\ off \in BOOLEAN

\* What the user can reach.
Bare == ~formDialog.open /\ dialog = None
FormOnTop == formDialog.open /\ dialog = None

--------------------------------------------------------------------------------
(* Pages *)

\* The page a rule of S is on when the rules of S are listed.
PageNumber(S, r) == Cardinality({s \in S : Order[s] < Order[r]}) \div PageSize + 1

PageOf(S, p) == {r \in S : PageNumber(S, r) = p}
Pages(S) == {PageNumber(S, r) : r \in S}
LastPage(S) == CHOOSE p \in Pages(S) : \A q \in Pages(S) : q <= p

\* PageHelper, told to be reasonable, and the pager take a page beyond the last
\* one for the last one.
Reasonable(S, p) == IF p \in Pages(S) \/ S = {} THEN p ELSE LastPage(S)

--------------------------------------------------------------------------------
(* Whether the table shows what it should *)

\* The rows are those of the page the pager is on, and there are some if there can be.
Right ==
    /\ table.rows = PageOf(found[where], page) /\ table.ver = ver
    /\ table.rows = {} => found[where] = {}

\* A cause is forgotten once the table is right and no answer is to come.
Blame(cause) == blame' = IF lists' = <<>> /\ Right' THEN FALSE ELSE blame \/ cause

Init ==
    /\ found \in [Queries -> SUBSET Recs] /\ ver = 0
    /\ where \in Queries
    /\ page = 1 /\ pageCurr = 1 /\ pages = {}
    /\ table = Empty
    /\ lists = <<Request(where, 1)>>
    /\ posts = [r \in Recs |-> 0]
    /\ form = [id |-> NoRec, named |-> FALSE, types |-> Blank, enable |-> TRUE]
    /\ locked = FALSE /\ wired = TRUE
    /\ formDialog = NoForm /\ dialog = None
    /\ blame = FALSE /\ dropped = FALSE /\ off = FALSE

--------------------------------------------------------------------------------
(* The table *)

\* A request for page p; until it is answered no row can be clicked.
Ask(q, p) ==
    /\ Len(lists) < MaxLists
    /\ page' = p
    /\ table' = Empty
    /\ lists' = Append(lists, Request(q, p))

\* tableIns.reload with the search as it was or a new one: layui renders the table
\* anew, without rows and pager, and asks for the page of the last answer.
Load(q) ==
    /\ where' = q
    /\ pages' = {}
    /\ Ask(q, pageCurr)
    /\ UNCHANGED pageCurr

Search(q) ==
    /\ Bare
    /\ Load(q)
    /\ UNCHANGED <<serverVars, posts, formVars, dialogVars, dropped, off>>
    /\ Blame(FALSE)

ClickPage(p) ==
    /\ Bare /\ p \in pages
    /\ Ask(where, p)
    /\ UNCHANGED <<serverVars, where, pageCurr, pages, posts, formVars, dialogVars, dropped, off>>
    /\ Blame(FALSE)

ListServed(n) ==
    /\ n \in DOMAIN lists /\ ~lists[n].served
    /\ lists' = [lists EXCEPT ![n].served = TRUE, ![n].found = found[lists[n].query], ![n].ver = ver]
    /\ UNCHANGED <<serverVars, where, page, pageCurr, pages, table>>
    /\ UNCHANGED <<posts, formVars, dialogVars, blame, dropped, off>>

\* The settings cache may hold a page it read before the last change (SettingCache);
\* bound: one that had a rule more, or the same rules.
ListServedFromCache(n, rules) ==
    /\ n \in DOMAIN lists /\ ~lists[n].served /\ ver > 0
    /\ lists' = [lists EXCEPT ![n].served = TRUE, ![n].stale = TRUE, ![n].found = rules, ![n].ver = ver - 1]
    /\ UNCHANGED <<serverVars, where, page, pageCurr, pages, table>>
    /\ UNCHANGED <<posts, formVars, dialogVars, blame, dropped, off>>

\* The n-th request is over; those sent before it have been overtaken.
Over(n) == RemoveAt([k \in DOMAIN lists |-> [lists[k] EXCEPT !.stale = @ \/ k < n]], n)

\* The rows of an answer replace those of the table, whatever request it is for, and
\* the pager, drawn for the count of the answer, moves to the last page at most.
ListArrives(n) ==
    /\ n \in DOMAIN lists /\ lists[n].served
    /\ LET rules == lists[n].found
       IN  /\ table' = [rows |-> PageOf(rules, Reasonable(rules, lists[n].page)), ver |-> lists[n].ver]
           /\ page' = Reasonable(rules, page)
           /\ pages' = Pages(rules)
    /\ pageCurr' = lists[n].page
    /\ lists' = Over(n)
    /\ UNCHANGED <<serverVars, where, posts, formVars, dialogVars, dropped, off>>
    /\ Blame(lists[n].stale \/ (n # Len(lists) /\ page' # page))

\* No answer, a refusal, or an answer that parseData throws on, which leaves the
\* table as it is.
ListFails(n) ==
    /\ n \in DOMAIN lists
    /\ \/ UNCHANGED <<table, pageCurr>>
       \/ table' = [table EXCEPT !.rows = {}] /\ pageCurr' \in {pageCurr, lists[n].page}
    /\ lists' = Over(n)
    /\ UNCHANGED <<serverVars, where, page, pages, posts, formVars, dialogVars, dropped, off>>
    /\ Blame(TRUE)

--------------------------------------------------------------------------------
(* The form *)

\* A click on the empty option of the selects, which a disabled select ignores.
BlankSelects == IF wired THEN Blank ELSE form.types

\* Mutant: the hidden id is not among the fields that are cleaned.
CleanUserKeepingId ==
    /\ form' = [form EXCEPT !.named = FALSE, !.types = BlankSelects]
    /\ wired' = ~locked'

\* Mutant: the hidden id is set to the value of the empty option.
CleanUserBlankId ==
    /\ form' = [form EXCEPT !.id = Blank, !.named = FALSE, !.types = BlankSelects]
    /\ wired' = ~locked'

\* Mutant: the form is not rendered again.
CleanUserUnrendered ==
    /\ form' = [form EXCEPT !.id = NoRec, !.named = FALSE, !.types = BlankSelects]
    /\ wired' = wired

\* The attribute set on the radio moves nothing once the radio was moved.
CleanUser ==
    /\ form' = [form EXCEPT !.id = NoRec, !.named = FALSE, !.types = BlankSelects]
    /\ wired' = ~locked'

\* addRecord(null): the dialog to add a rule.
ClickAdd ==
    /\ Bare
    /\ form' = [form EXCEPT !.id = NoRec, !.types = BlankSelects]
    /\ locked' = FALSE /\ wired' = TRUE
    /\ formDialog' = FormFor(NoRec)
    /\ UNCHANGED <<serverVars, tableVars, posts, dialog, blame, dropped, off>>

\* addRecord(data): the dialog to edit the rule of a row.
ClickEdit(r, enable) ==
    /\ Bare /\ r \in table.rows
    /\ form' = [id |-> r, named |-> TRUE, types |-> r, enable |-> enable]
    /\ locked' = TRUE /\ wired' = FALSE
    /\ formDialog' = FormFor(r)
    /\ off' = (off \/ ~enable)
    /\ UNCHANGED <<serverVars, tableVars, posts, dialog, blame, dropped>>

\* The user fills in the form: the name, the radio, the selects unless disabled.
FillIn(types, enable) ==
    /\ FormOnTop
    /\ types = form.types \/ (wired /\ types \in Options)
    /\ form' = [form EXCEPT !.named = TRUE, !.types = types, !.enable = enable]
    /\ formDialog' = [formDialog EXCEPT !.fresh = FALSE]
    /\ off' = (off \/ ~enable)
    /\ UNCHANGED <<serverVars, tableVars, posts, locked, wired, dialog, blame, dropped>>

\* The reset button: everything but the hidden id.
ClickReset ==
    /\ FormOnTop
    /\ form' = [form EXCEPT !.named = FALSE, !.types = Blank, !.enable = TRUE]
    /\ wired' = ~locked
    /\ formDialog' = [formDialog EXCEPT !.fresh = FALSE]
    /\ UNCHANGED <<serverVars, tableVars, posts, locked, dialog, blame, dropped, off>>

\* Closed by its cross or by a click beside it: end cleans the form.
CloseForm ==
    /\ FormOnTop
    /\ formDialog' = NoForm
    /\ locked' = locked
    /\ CleanUser
    /\ dropped' = (dropped \/ locked)
    /\ UNCHANGED <<serverVars, tableVars, posts, dialog, blame, off>>

--------------------------------------------------------------------------------
(* What the server may make of a request that changes rules *)

\* Rule r is found by the searches in Q from now on; a rule that is gone by none.
Place(r, Q) ==
    /\ ver < MaxVer /\ ver' = ver + 1
    /\ found' = [q \in Queries |-> IF q \in Q THEN found[q] \cup {r} ELSE found[q] \ {r}]

Exists(r) == \E q \in Queries : r \in found[q]

\* Without an id a rule is inserted, with one it is updated.
Write(id) ==
    \/ \E r \in Recs, Q \in (SUBSET Queries) \ {{}} :
        /\ IF id = NoRec THEN ~Exists(r) ELSE Exists(r) /\ r = id
        /\ Place(r, Q)
    \/ UNCHANGED serverVars

Delete(r) == (Exists(r) /\ Place(r, {})) \/ UNCHANGED serverVars

Written == ver' # ver

--------------------------------------------------------------------------------
(* Sending the form, which the page waits for *)

\* getFormData: the field that decides between an insert and an update.
FormData == form.id

\* The answer opens an alert above the form.
Answered(alert) == dialog' = alert /\ formDialog' = [formDialog EXCEPT !.sent = TRUE]

\* The selects are enabled so that they are sent.
SubmitDone ==
    /\ FormOnTop /\ form.named
    /\ Write(FormData)
    /\ locked' = FALSE
    /\ CleanUser
    /\ Answered(Alert(TRUE))
    /\ UNCHANGED <<tableVars, posts, dropped, off>>
    /\ Blame(FALSE)

\* A code other than 0, or an answer that has none.
SubmitRefused ==
    /\ FormOnTop /\ form.named
    /\ Write(FormData)
    /\ locked' = FALSE
    /\ CleanUser
    /\ Answered(Alert(FALSE))
    /\ UNCHANGED <<tableVars, posts, dropped, off>>
    /\ Blame(Written)

SubmitError ==
    /\ FormOnTop /\ form.named
    /\ Write(FormData)
    /\ locked' = FALSE /\ UNCHANGED <<form, wired>>
    /\ Answered(Alert(TRUE))
    /\ UNCHANGED <<tableVars, posts, dropped, off>>
    /\ Blame(FALSE)

--------------------------------------------------------------------------------
(* Deleting a rule *)

ClickDelete(r) ==
    /\ Bare /\ r \in table.rows
    /\ dialog' = Confirm(r)
    /\ UNCHANGED <<serverVars, tableVars, posts, formVars, formDialog, blame, dropped, off>>

\* The first button sends the request and leaves the question on screen.
ConfirmDelete ==
    /\ dialog.what = "confirm" /\ posts[dialog.rec] < MaxPosts
    /\ posts' = [posts EXCEPT ![dialog.rec] = @ + 1]
    /\ UNCHANGED <<serverVars, tableVars, formVars, dialogVars, blame, dropped, off>>

\* The second button, or the cross.
CancelDelete ==
    /\ dialog.what = "confirm"
    /\ dialog' = None
    /\ UNCHANGED <<serverVars, tableVars, posts, formVars, formDialog, blame, dropped, off>>

\* The answer comes at any time.  An alert closes the question or the alert on
\* screen without running its callback; without an answer there is no alert.
DeleteAnswered(r) ==
    /\ posts[r] > 0
    /\ posts' = [posts EXCEPT ![r] = @ - 1]
    /\ Delete(r)
    /\ UNCHANGED <<tableVars, formVars, formDialog, dropped, off>>
    /\ \/ dialog' = Alert(TRUE) /\ Blame(FALSE)
       \/ dialog' = Alert(FALSE) /\ Blame(Written \/ dialog.reload)
       \/ UNCHANGED dialog /\ Blame(Written)

--------------------------------------------------------------------------------
(* Alerts *)

\* Mutant: the dialogs are closed and the table is left.
AlertOKUnloaded ==
    /\ dialog = Alert(TRUE)
    /\ formDialog' = NoForm /\ dialog' = None
    /\ locked' = locked
    /\ IF formDialog.open THEN CleanUser ELSE UNCHANGED <<form, wired>>
    /\ dropped' = (dropped \/ (formDialog.open /\ locked))
    /\ UNCHANGED <<serverVars, tableVars, posts, off>>
    /\ Blame(FALSE)

\* The callback: layer.closeAll, which ends the form dialog too, and load.
AlertOK ==
    /\ dialog = Alert(TRUE)
    /\ formDialog' = NoForm /\ dialog' = None
    /\ locked' = locked
    /\ IF formDialog.open THEN CleanUser ELSE UNCHANGED <<form, wired>>
    /\ dropped' = (dropped \/ (formDialog.open /\ locked))
    /\ Load(where)
    /\ UNCHANGED <<serverVars, posts, off>>
    /\ Blame(FALSE)

\* The cross, or an alert without a callback.
AlertClosed ==
    /\ dialog.what = "alert"
    /\ dialog' = None
    /\ UNCHANGED <<serverVars, tableVars, posts, formVars, formDialog, dropped, off>>
    /\ Blame(dialog.reload)

\* Another administrator, or another window.
Elsewhere ==
    /\ Write(NoRec) \/ \E r \in Recs : Write(r) \/ Delete(r)
    /\ Written
    /\ UNCHANGED <<tableVars, posts, formVars, dialogVars, dropped, off>>
    /\ Blame(TRUE)

--------------------------------------------------------------------------------
User ==
    \/ \E q \in Queries : Search(q)
    \/ \E p \in pages : ClickPage(p)
    \/ ClickAdd
    \/ \E r \in Recs, enable \in Radios : ClickEdit(r, enable)
    \/ \E types \in Options \cup {form.types}, enable \in Radios : FillIn(types, enable)
    \/ ClickReset \/ CloseForm
    \/ \E r \in Recs : ClickDelete(r)
    \/ ConfirmDelete \/ CancelDelete
    \/ AlertOK \/ AlertClosed

Server ==
    \/ SubmitDone \/ SubmitRefused \/ SubmitError
    \/ \E n \in DOMAIN lists : ListServed(n) \/ ListArrives(n) \/ ListFails(n)
    \/ \E n \in DOMAIN lists : \E rules \in {found[lists[n].query], Recs} : ListServedFromCache(n, rules)
    \/ \E r \in Recs : DeleteAnswered(r)
    \/ Elsewhere

Next == User \/ Server

Spec == Init /\ [][Next]_vars

--------------------------------------------------------------------------------
(* Properties *)

\* The hidden id, which decides between insert and update, is that of the rule
\* whose edit dialog is on screen until the dialog is sent, and never outlives the
\* dialog: no sequence of dialogs, alerts and late answers makes a submit overwrite
\* a rule the user has not opened.  Once sent and refused the same dialog inserts.
IdNamesDialog ==
    /\ form.id # NoRec => formDialog.open /\ formDialog.rec = form.id
    /\ formDialog.open /\ ~formDialog.sent => form.id = formDialog.rec

\* The dialog to add a rule opens blank, unless an edit dialog was closed unsent
\* before, whose selects were still disabled when they were to be cleaned, or the
\* radio was moved, which no code moves back.
AddStartsBlank ==
    FormOnTop /\ formDialog.fresh /\ formDialog.rec = NoRec =>
        /\ form.types = Blank \/ dropped
        /\ form.enable \/ off

AtRest == Bare /\ lists = <<>> /\ \A r \in Recs : posts[r] = 0

\* When nothing is under way the table shows the page the pager is on of the rules
\* that the search given last finds, and a page with rules if there are any, although
\* searches and reloads ask for the page of the last answer and any answer moves the
\* pager.  The causes that make it wrong: an answer was overtaken, came from a stale
\* cache or failed; one that was overtaken moved the pager; a change read as a refusal;
\* an alert was closed, or replaced by that of a refused request, before the user
\* confirmed it; or someone else changed the rules.
TableIsFresh == AtRest => Right \/ blame

================================================================================
