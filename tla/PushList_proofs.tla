----------------------------- MODULE PushList_proofs -----------------------------
(***************************************************************************)
(* Proofs about the page of push rules, for any finite set of rules in any  *)
(* order, any searches and page size, and any number of requests under way. *)
(***************************************************************************)
EXTENDS PushList, FiniteSetTheorems, SequenceTheorems, WellFoundedInduction, TLAPS

\* What the dialogs on screen say about the form.  The radio is moved by the user
\* alone; the selects are cleaned with the form unless it was closed unsent.
Radio == form.enable \/ off
Cleaned == ~formDialog.open => wired \/ dropped
FreshBlank ==
    formDialog.open /\ formDialog.fresh /\ formDialog.rec = NoRec => form.types = Blank \/ dropped

FormInv == IdNamesDialog /\ Radio /\ Cleaned /\ FreshBlank

\* The newest request will make the table right, or is known not to: it is for the
\* search and the page that are current, and holds the rules of this moment.
NewestGood ==
    /\ lists # <<>>
    /\ LET newest == lists[Len(lists)]
       IN  \/ newest.stale
           \/ /\ newest.query = where /\ newest.page = page
              /\ newest.served => newest.found = found[where] /\ newest.ver = ver

\* The table is right, and what is still under way has been overtaken.
Settled == Right /\ \A n \in DOMAIN lists : lists[n].stale

\* The table is or will be right, unless a cause is known or the user has still to
\* confirm a reload.
TableInv == blame \/ dialog.reload \/ NewestGood \/ Settled

--------------------------------------------------------------------------------
(* Pages *)

LEMMA PageNumberType ==
    ASSUME NEW S \in SUBSET Recs, NEW r \in S
    PROVE  PageNumber(S, r) \in PageNumbers
<1> DEFINE n == Cardinality({s \in S : Order[s] < Order[r]})
<1>1. n \in Nat
  <2>1. IsFiniteSet(S)
    BY PageAssumption, FS_Subset
  <2>2. {s \in S : Order[s] < Order[r]} \in SUBSET S
    OBVIOUS
  <2>3. QED
    BY <2>1, <2>2, FS_Subset, FS_CardinalityType
<1>2. PageSize \in Nat /\ PageSize > 0
  BY PageAssumption
<1> HIDE DEF n
<1>3. n \div PageSize \in Nat
  BY <1>1, <1>2
<1>4. n \div PageSize + 1 \in PageNumbers
  BY <1>3 DEF PageNumbers
<1>5. QED
  BY <1>4 DEF PageNumber, n

\* A nonempty set of rules has a last page: follow the rules on later pages down to
\* a rule that has none.
LEMMA LastPageIsAPage ==
    ASSUME NEW S \in SUBSET Recs, S # {}
    PROVE  LastPage(S) \in Pages(S)
<1> DEFINE beyond(r) == {s \in S : PageNumber(S, s) > PageNumber(S, r)}
           T == {beyond(r) : r \in S}
<1>1. T \subseteq FiniteSubsetsOf(S) /\ T # {}
  <2>1. IsFiniteSet(S)
    BY PageAssumption, FS_Subset
  <2>2. ASSUME NEW r \in S
        PROVE  beyond(r) \in FiniteSubsetsOf(S)
    BY <2>1, FS_Subset DEF FiniteSubsetsOf
  <2>3. QED
    BY <2>2
<1>2. PICK B \in T : \A C \in T : ~(<<C, B>> \in StrictSubsetOrdering(S))
  BY <1>1, FS_StrictSubsetOrderingWellFounded, WFMin
<1>3. PICK r \in S : B = beyond(r)
  BY <1>2
<1>4. beyond(r) = {}
  <2> SUFFICES ASSUME NEW s \in beyond(r) PROVE FALSE
    OBVIOUS
  <2>1. s \in S /\ PageNumber(S, s) > PageNumber(S, r)
    OBVIOUS
  <2>2. \A t \in S : PageNumber(S, t) \in Nat
    BY PageNumberType DEF PageNumbers
  <2>3. s \notin beyond(s) /\ beyond(s) \subseteq beyond(r)
    BY <2>1, <2>2
  <2>4. beyond(s) # beyond(r)
    BY <2>3
  <2>5. <<beyond(s), beyond(r)>> \in StrictSubsetOrdering(S)
    <3> HIDE DEF beyond
    <3>1. beyond(s) \subseteq S /\ beyond(r) \subseteq S
      BY DEF beyond
    <3>2. QED
      BY <2>3, <2>4, <3>1 DEF StrictSubsetOrdering
  <2>6. QED
    BY <1>2, <1>3, <2>1, <2>5
<1>5. \A q \in Pages(S) : q <= PageNumber(S, r)
  <2> SUFFICES ASSUME NEW s \in S PROVE PageNumber(S, s) <= PageNumber(S, r)
    BY DEF Pages
  <2>1. PageNumber(S, s) \in Nat /\ PageNumber(S, r) \in Nat
    BY PageNumberType DEF PageNumbers
  <2>2. ~(PageNumber(S, s) > PageNumber(S, r))
    BY <1>4
  <2>3. QED
    BY <2>1, <2>2
<1>6. PageNumber(S, r) \in Pages(S)
  BY DEF Pages
<1>7. QED
  BY <1>5, <1>6 DEF LastPage

\* The page answered has rules when there are any, and is its own reasonable page.
LEMMA ReasonablePage ==
    ASSUME NEW S \in SUBSET Recs, NEW p \in PageNumbers
    PROVE  /\ Reasonable(S, p) \in PageNumbers
           /\ S # {} => PageOf(S, Reasonable(S, p)) # {}
<1>1. CASE S = {}
  BY <1>1 DEF Reasonable
<1>2. CASE S # {}
  <2>1. Reasonable(S, p) \in Pages(S)
    BY <1>2, LastPageIsAPage DEF Reasonable
  <2>2. PICK r \in S : Reasonable(S, p) = PageNumber(S, r)
    BY <2>1 DEF Pages
  <2>3. r \in PageOf(S, Reasonable(S, p))
    BY <2>2 DEF PageOf
  <2>4. QED
    BY <2>2, <2>3, PageNumberType
<1>3. QED
  BY <1>1, <1>2

LEMMA PagesType ==
    ASSUME NEW S \in SUBSET Recs
    PROVE  Pages(S) \subseteq PageNumbers
BY PageNumberType DEF Pages

--------------------------------------------------------------------------------
(* Requests under way *)

LEMMA ListsDomain ==
    ASSUME TypeOK
    PROVE  /\ Len(lists) \in Nat /\ DOMAIN lists = 1..Len(lists)
           /\ \A n \in 1..Len(lists) : lists[n] \in Requests
           /\ lists # <<>> <=> Len(lists) > 0
<1>1. lists \in Seq(Requests)
  BY DEF TypeOK
<1>2. QED
  BY <1>1, LenProperties, ElementOfSeq, EmptySeq

\* A new request comes last.
LEMMA AskLists ==
    ASSUME TypeOK, NEW q \in Queries, NEW p \in PageNumbers, Ask(q, p)
    PROVE  /\ lists' \in Seq(Requests) /\ Len(lists') = Len(lists) + 1
           /\ lists'[Len(lists')] = Request(q, p)
           /\ lists' # <<>> /\ Len(lists') <= MaxLists
<1>1. Request(q, p) \in Requests
  <2>1. 0 \in 0..MaxVer
    BY PageAssumption
  <2>2. QED
    BY <2>1 DEF Request, Requests
<1>2. lists \in Seq(Requests) /\ Len(lists) \in Nat /\ MaxLists \in Nat
  BY ListsDomain, PageAssumption DEF TypeOK
<1>3. /\ lists' \in Seq(Requests) /\ Len(lists') = Len(lists) + 1
      /\ lists'[Len(lists')] = Request(q, p)
  BY <1>1, <1>2, AppendProperties DEF Ask
<1>4. lists' # <<>>
  BY <1>2, <1>3, EmptySeq
<1>5. Len(lists') <= MaxLists
  <2>1. Len(lists) < MaxLists
    BY DEF Ask
  <2>2. QED
    BY <1>2, <1>3, <2>1
<1>6. QED
  BY <1>3, <1>4, <1>5

\* One request changes in place.
LEMMA ServedLists ==
    ASSUME TypeOK, NEW n \in DOMAIN lists, NEW request \in Requests,
           lists' = [lists EXCEPT ![n] = request]
    PROVE  /\ lists' \in Seq(Requests) /\ Len(lists') = Len(lists)
           /\ lists'[n] = request
           /\ \A k \in 1..Len(lists) : k # n => lists'[k] = lists[k]
BY ListsDomain, ExceptSeq DEF TypeOK

\* An answer that was read from the database carries the rules the search finds.
LEMMA ListServedRequest ==
    ASSUME TypeOK, NEW n \in DOMAIN lists, ListServed(n)
    PROVE  /\ lists' \in Seq(Requests) /\ Len(lists') = Len(lists)
           /\ lists'[n].query = lists[n].query /\ lists'[n].page = lists[n].page
           /\ lists'[n].stale = lists[n].stale
           /\ lists'[n].found = found[lists[n].query] /\ lists'[n].ver = ver
           /\ \A k \in 1..Len(lists) : k # n => lists'[k] = lists[k]
<1>1. lists[n] \in Requests /\ n \in 1..Len(lists)
  BY ListsDomain
<1>2. found[lists[n].query] \in SUBSET Recs /\ ver \in 0..MaxVer
  BY <1>1 DEF TypeOK, Requests
<1> DEFINE request == [lists[n] EXCEPT !.served = TRUE, !.found = found[lists[n].query], !.ver = ver]
<1>3. /\ request \in Requests
      /\ request.query = lists[n].query /\ request.page = lists[n].page
      /\ request.stale = lists[n].stale
      /\ request.found = found[lists[n].query] /\ request.ver = ver
  BY <1>1, <1>2 DEF Requests
<1>4. lists' = [lists EXCEPT ![n] = request]
  BY DEF ListServed
<1> HIDE DEF request
<1>5. lists'[n] = request
  BY <1>3, <1>4, ServedLists
<1>6. QED
  BY <1>3, <1>4, <1>5, ServedLists

\* An answer from the cache is known to be stale.
LEMMA ListCachedRequest ==
    ASSUME TypeOK, NEW n \in DOMAIN lists, NEW rules \in SUBSET Recs, ListServedFromCache(n, rules)
    PROVE  /\ lists' \in Seq(Requests) /\ Len(lists') = Len(lists)
           /\ lists'[n].stale
           /\ \A k \in 1..Len(lists) : k # n => lists'[k] = lists[k]
<1>1. lists[n] \in Requests /\ n \in 1..Len(lists)
  BY ListsDomain
<1>2. ver - 1 \in 0..MaxVer
  <2>1. ver \in 0..MaxVer /\ MaxVer \in Nat /\ ver > 0
    BY PageAssumption DEF ListServedFromCache, TypeOK
  <2>2. QED
    BY <2>1
<1> DEFINE request == [lists[n] EXCEPT !.served = TRUE, !.stale = TRUE, !.found = rules, !.ver = ver - 1]
<1>3. request \in Requests /\ request.stale
  BY <1>1, <1>2 DEF Requests
<1>4. lists' = [lists EXCEPT ![n] = request]
  BY DEF ListServedFromCache
<1> HIDE DEF request
<1>5. lists'[n] = request
  BY <1>3, <1>4, ServedLists
<1>6. QED
  BY <1>3, <1>4, <1>5, ServedLists

\* What is left when the n-th request is over.
LEMMA OverLists ==
    ASSUME TypeOK, NEW n \in DOMAIN lists
    PROVE  /\ Over(n) \in Seq(Requests) /\ Len(Over(n)) = Len(lists) - 1
           /\ \A k \in 1..(Len(lists) - 1) :
               Over(n)[k] = IF k < n THEN [lists[k] EXCEPT !.stale = TRUE] ELSE lists[k + 1]
<1> DEFINE marked == [k \in DOMAIN lists |-> [lists[k] EXCEPT !.stale = @ \/ k < n]]
           below == SubSeq(marked, 1, n - 1)
           above == SubSeq(marked, n + 1, Len(marked))
<1>1. /\ Len(lists) \in Nat /\ DOMAIN lists = 1..Len(lists) /\ n \in 1..Len(lists)
      /\ \A k \in 1..Len(lists) : lists[k] \in Requests
  BY ListsDomain
<1>2. \A k \in 1..Len(lists) : [lists[k] EXCEPT !.stale = @ \/ k < n] \in Requests
  BY <1>1 DEF Requests
<1>3. marked \in [1..Len(lists) -> Requests]
  BY <1>1, <1>2
<1>4. marked \in Seq(Requests) /\ Len(marked) = Len(lists)
  <2>1. marked \in UNION {[1..m -> Requests] : m \in Nat}
    BY <1>1, <1>3
  <2>2. marked \in Seq(Requests)
    BY <2>1, SeqDef
  <2>3. QED
    BY <1>1, <1>3, <2>2, LenProperties
<1>5. \A k \in 1..Len(lists) : marked[k] = IF k < n THEN [lists[k] EXCEPT !.stale = TRUE] ELSE lists[k]
  <2>1. TAKE k \in 1..Len(lists)
  <2>2. marked[k] = [lists[k] EXCEPT !.stale = @ \/ k < n] /\ lists[k] \in Requests
    BY <1>1
  <2>3. QED
    BY <2>2 DEF Requests
<1>6. \A k \in 1..Len(lists) : marked[k] \in Requests
  BY <1>3
<1> HIDE DEF marked
<1>7. /\ below \in Seq(Requests) /\ Len(below) = n - 1
      /\ \A k \in 1..(n - 1) : below[k] = marked[k]
  <2>1. 1 \in Int /\ n - 1 \in Int /\ \A k \in 1..(n - 1) : marked[k] \in Requests
    BY <1>1, <1>6
  <2>2. /\ below \in Seq(Requests) /\ Len(below) = IF 1 <= n - 1 THEN (n - 1) - 1 + 1 ELSE 0
        /\ \A k \in 1..((n - 1) - 1 + 1) : below[k] = marked[1 + k - 1]
    BY <2>1, SubSeqProperties
  <2>3. QED
    BY <1>1, <2>2
<1>8. /\ above \in Seq(Requests) /\ Len(above) = Len(lists) - n
      /\ \A k \in 1..(Len(lists) - n) : above[k] = marked[n + k]
  <2>1. n + 1 \in Int /\ Len(marked) \in Int /\ \A k \in (n + 1)..Len(marked) : marked[k] \in Requests
    BY <1>1, <1>4, <1>6
  <2>2. /\ above \in Seq(Requests)
        /\ Len(above) = IF n + 1 <= Len(marked) THEN Len(marked) - (n + 1) + 1 ELSE 0
        /\ \A k \in 1..(Len(marked) - (n + 1) + 1) : above[k] = marked[(n + 1) + k - 1]
    BY <2>1, SubSeqProperties
  <2>3. QED
    BY <1>1, <1>4, <2>2
<1>9. Over(n) = below \o above
  BY DEF Over, RemoveAt, marked
<1> HIDE DEF below, above
<1>10. /\ Over(n) \in Seq(Requests) /\ Len(Over(n)) = Len(lists) - 1
       /\ \A k \in 1..(Len(lists) - 1) : Over(n)[k] = IF k <= n - 1 THEN below[k] ELSE above[k - (n - 1)]
  <2>1. /\ Over(n) \in Seq(Requests) /\ Len(Over(n)) = Len(below) + Len(above)
        /\ \A k \in 1..(Len(below) + Len(above)) :
            Over(n)[k] = IF k <= Len(below) THEN below[k] ELSE above[k - Len(below)]
    <3>1. /\ below \o above \in Seq(Requests)
          /\ Len(below \o above) = Len(below) + Len(above)
          /\ \A k \in 1..(Len(below) + Len(above)) :
              (below \o above)[k] = IF k <= Len(below) THEN below[k] ELSE above[k - Len(below)]
      BY <1>7, <1>8, ConcatProperties
    <3>2. QED
      BY <1>9, <3>1
  <2>2. QED
    BY <1>1, <1>7, <1>8, <2>1
<1>11. \A k \in 1..(Len(lists) - 1) :
           Over(n)[k] = IF k < n THEN [lists[k] EXCEPT !.stale = TRUE] ELSE lists[k + 1]
  <2>1. TAKE k \in 1..(Len(lists) - 1)
  <2>2. CASE k < n
    <3>1. Over(n)[k] = marked[k]
      BY <1>1, <1>7, <1>10, <2>2
    <3>2. k \in 1..Len(lists)
      BY <1>1
    <3>3. QED
      BY <1>5, <2>2, <3>1, <3>2
  <2>3. CASE ~(k < n)
    <3>1. Over(n)[k] = above[k - (n - 1)]
      BY <1>1, <1>10, <2>3
    <3>2. k - (n - 1) \in 1..(Len(lists) - n) /\ n + (k - (n - 1)) = k + 1
      BY <1>1, <2>3
    <3>3. Over(n)[k] = marked[k + 1]
      BY <1>8, <3>1, <3>2
    <3>4. k + 1 \in 1..Len(lists) /\ ~(k + 1 < n)
      BY <1>1, <2>3
    <3>5. QED
      BY <1>5, <2>3, <3>3, <3>4
  <2>4. QED
    BY <2>2, <2>3
<1>12. QED
  BY <1>10, <1>11

--------------------------------------------------------------------------------
(* Types *)

\* The parts of the type invariant, of which a step leaves most alone.
ServerTypeOK == found \in [Queries -> SUBSET Recs] /\ ver \in 0..MaxVer
TableTypeOK ==
    /\ where \in Queries /\ table \in [rows : SUBSET Recs, ver : 0..MaxVer]
    /\ page \in PageNumbers /\ pageCurr \in PageNumbers /\ pages \subseteq PageNumbers
    /\ lists \in Seq(Requests) /\ Len(lists) <= MaxLists
FormTypeOK == form \in Form /\ locked \in BOOLEAN /\ wired \in BOOLEAN
DialogTypeOK ==
    /\ formDialog \in [open : BOOLEAN, rec : Recs \cup {NoRec}, sent : BOOLEAN, fresh : BOOLEAN]
    /\ dialog \in {None} \cup {Confirm(r) : r \in Recs} \cup {Alert(b) : b \in BOOLEAN}
RestTypeOK ==
    /\ posts \in [Recs -> 0..MaxPosts]
    /\ blame \in BOOLEAN /\ dropped \in BOOLEAN /\ off \in BOOLEAN

LEMMA TypeParts ==
    TypeOK <=> ServerTypeOK /\ TableTypeOK /\ FormTypeOK /\ DialogTypeOK /\ RestTypeOK
BY DEF TypeOK, ServerTypeOK, TableTypeOK, FormTypeOK, DialogTypeOK, RestTypeOK

LEMMA TypePartsNext ==
    TypeOK' <=> ServerTypeOK' /\ TableTypeOK' /\ FormTypeOK' /\ DialogTypeOK' /\ RestTypeOK'
BY DEF TypeOK, ServerTypeOK, TableTypeOK, FormTypeOK, DialogTypeOK, RestTypeOK

LEMMA PartsKept ==
    ASSUME TypeOK
    PROVE  /\ UNCHANGED serverVars => ServerTypeOK'
           /\ UNCHANGED tableVars => TableTypeOK'
           /\ UNCHANGED formVars => FormTypeOK'
           /\ UNCHANGED dialogVars => DialogTypeOK'
<1>1. ServerTypeOK /\ TableTypeOK /\ FormTypeOK /\ DialogTypeOK
  BY TypeParts
<1>2. UNCHANGED serverVars => ServerTypeOK'
  BY <1>1 DEF ServerTypeOK, serverVars
<1>3. UNCHANGED tableVars => TableTypeOK'
  BY <1>1 DEF TableTypeOK, tableVars
<1>4. UNCHANGED formVars => FormTypeOK'
  BY <1>1 DEF FormTypeOK, formVars
<1>5. UNCHANGED dialogVars => DialogTypeOK'
  BY <1>1 DEF DialogTypeOK, dialogVars
<1>6. QED
  BY <1>2, <1>3, <1>4, <1>5

\* The histories, which every step keeps Boolean.
LEMMA RestKept ==
    ASSUME TypeOK, posts' \in [Recs -> 0..MaxPosts],
           blame' = blame \/ \E cause \in BOOLEAN : Blame(cause),
           dropped' \in BOOLEAN, off' \in BOOLEAN
    PROVE  RestTypeOK'
<1>1. blame' \in BOOLEAN
  BY DEF Blame, TypeOK
<1>2. QED
  BY <1>1 DEF RestTypeOK

\* Only an alert may ask for a reload, and only a question is about a rule.
LEMMA DialogTypes ==
    /\ ~None.reload /\ \A r \in Recs : ~Confirm(r).reload
    /\ \A b \in BOOLEAN : Alert(b).reload = b
    /\ \A dlg \in {None} \cup {Confirm(r) : r \in Recs} \cup {Alert(b) : b \in BOOLEAN} :
        dlg.reload \in BOOLEAN /\ (dlg.what = "confirm" => dlg.rec \in Recs /\ ~dlg.reload)
    /\ \A r \in Recs \cup {NoRec} :
        FormFor(r) \in [open : BOOLEAN, rec : Recs \cup {NoRec}, sent : BOOLEAN, fresh : BOOLEAN]
    /\ NoForm \in [open : BOOLEAN, rec : Recs \cup {NoRec}, sent : BOOLEAN, fresh : BOOLEAN]
<1>1. ~None.reload /\ None.what # "confirm" /\ None.reload \in BOOLEAN
  BY DEF None
<1>2. \A r \in Recs : ~Confirm(r).reload /\ Confirm(r).reload \in BOOLEAN /\ Confirm(r).rec = r
  BY DEF Confirm
<1>3. \A b \in BOOLEAN : Alert(b).reload = b /\ Alert(b).what # "confirm"
  BY DEF Alert
<1>4. \A r \in Recs \cup {NoRec} :
          FormFor(r) \in [open : BOOLEAN, rec : Recs \cup {NoRec}, sent : BOOLEAN, fresh : BOOLEAN]
  BY DEF FormFor
<1>5. NoForm \in [open : BOOLEAN, rec : Recs \cup {NoRec}, sent : BOOLEAN, fresh : BOOLEAN]
  BY DEF NoForm
<1>6. \A dlg \in {None} \cup {Confirm(r) : r \in Recs} \cup {Alert(b) : b \in BOOLEAN} :
          dlg.reload \in BOOLEAN /\ (dlg.what = "confirm" => dlg.rec \in Recs /\ ~dlg.reload)
  BY <1>1, <1>2, <1>3
<1>7. QED
  BY <1>1, <1>2, <1>3, <1>4, <1>5, <1>6

LEMMA CleanUserType ==
    ASSUME TypeOK, CleanUser, locked' \in BOOLEAN
    PROVE  FormTypeOK'
BY DEF CleanUser, BlankSelects, FormTypeOK, TypeOK, Form

LEMMA PlaceType ==
    ASSUME TypeOK, NEW r \in Recs, NEW Q, Place(r, Q)
    PROVE  ServerTypeOK'
<1>1. ver' \in 0..MaxVer
  <2>1. ver \in Nat /\ MaxVer \in Nat /\ ver < MaxVer /\ ver' = ver + 1
    BY PageAssumption DEF TypeOK, Place
  <2>2. QED
    BY <2>1
<1>2. found' \in [Queries -> SUBSET Recs]
  BY DEF TypeOK, Place
<1>3. QED
  BY <1>1, <1>2 DEF ServerTypeOK

LEMMA WriteType ==
    ASSUME TypeOK,
           \/ \E id \in Recs \cup {NoRec} : Write(id)
           \/ \E r \in Recs : Delete(r)
    PROVE  ServerTypeOK'
BY PlaceType, PartsKept DEF Write, Delete

\* A request for a page.
LEMMA AskType ==
    ASSUME TypeOK, NEW q \in Queries, NEW p \in PageNumbers, Ask(q, p),
           where' \in Queries, pageCurr' \in PageNumbers, pages' \subseteq PageNumbers
    PROVE  TableTypeOK'
<1>1. lists' \in Seq(Requests) /\ Len(lists') <= MaxLists
  BY AskLists
<1>2. table' \in [rows : SUBSET Recs, ver : 0..MaxVer]
  <2>1. 0 \in 0..MaxVer
    BY PageAssumption
  <2>2. QED
    BY <2>1 DEF Ask, Empty
<1>3. QED
  BY <1>1, <1>2 DEF TableTypeOK, Ask

LEMMA LoadType ==
    ASSUME TypeOK, NEW q \in Queries, Load(q)
    PROVE  TableTypeOK'
<1>1. pageCurr \in PageNumbers
  BY DEF TypeOK
<1>2. QED
  BY <1>1, AskType DEF Load

LEMMA TypeInit ==
    ASSUME Init
    PROVE  TypeOK
<1>1. 0 \in 0..MaxVer /\ 0 \in 0..MaxPosts /\ 1 \in PageNumbers
  BY PageAssumption DEF PageNumbers
<1>2. Request(where, 1) \in Requests
  BY <1>1 DEF Init, Request, Requests
<1>3. lists \in Seq(Requests) /\ Len(lists) = 1
  BY <1>2 DEF Init
<1>4. Len(lists) <= MaxLists
  BY <1>3, PageAssumption
<1>5. ServerTypeOK /\ TableTypeOK
  BY <1>1, <1>3, <1>4 DEF Init, ServerTypeOK, TableTypeOK, Empty
<1>6. FormTypeOK /\ RestTypeOK
  BY <1>1 DEF Init, FormTypeOK, RestTypeOK, Form
<1>7. DialogTypeOK
  BY DialogTypes DEF Init, DialogTypeOK
<1>8. QED
  BY <1>5, <1>6, <1>7, TypeParts

LEMMA TypeLists ==
    ASSUME TypeOK,
           \/ \E q \in Queries : Search(q)
           \/ \E p \in pages : ClickPage(p)
           \/ \E n \in DOMAIN lists : ListServed(n) \/ ListArrives(n) \/ ListFails(n)
           \/ \E n \in DOMAIN lists : \E rules \in {found[lists[n].query], Recs} : ListServedFromCache(n, rules)
    PROVE  TypeOK'
<1>1. ASSUME TableTypeOK', UNCHANGED <<serverVars, posts, formVars, dialogVars, dropped, off>>,
             blame' = blame \/ \E cause \in BOOLEAN : Blame(cause)
      PROVE  TypeOK'
  <2>1. ServerTypeOK' /\ FormTypeOK' /\ DialogTypeOK'
    BY <1>1, PartsKept
  <2>2. posts' \in [Recs -> 0..MaxPosts] /\ dropped' \in BOOLEAN /\ off' \in BOOLEAN
    BY <1>1 DEF TypeOK
  <2>3. RestTypeOK'
    BY <1>1, <2>2, RestKept
  <2>4. QED
    BY <1>1, <2>1, <2>3, TypePartsNext
<1>2. ASSUME NEW q \in Queries, Search(q)
      PROVE  TypeOK'
  BY <1>1, <1>2, LoadType DEF Search
<1>3. ASSUME NEW p \in pages, ClickPage(p)
      PROVE  TypeOK'
  <2>1. p \in PageNumbers /\ where \in Queries /\ pageCurr \in PageNumbers /\ pages \subseteq PageNumbers
    BY DEF TypeOK
  <2>2. TableTypeOK'
    BY <1>3, <2>1, AskType DEF ClickPage
  <2>3. QED
    BY <1>1, <1>3, <2>2 DEF ClickPage
<1>4. ASSUME lists' \in Seq(Requests), Len(lists') = Len(lists),
             UNCHANGED <<where, page, pageCurr, pages, table>>
      PROVE  TableTypeOK'
  BY <1>4 DEF TypeOK, TableTypeOK
<1>5. ASSUME NEW n \in DOMAIN lists, ListServed(n)
      PROVE  TypeOK'
  <2>1. TableTypeOK'
    BY <1>4, <1>5, ListServedRequest DEF ListServed
  <2>2. QED
    BY <1>1, <1>5, <2>1 DEF ListServed
<1>6. ASSUME NEW n \in DOMAIN lists, NEW rules \in {found[lists[n].query], Recs}, ListServedFromCache(n, rules)
      PROVE  TypeOK'
  <2>1. rules \in SUBSET Recs
    BY ListsDomain DEF TypeOK, Requests
  <2>2. TableTypeOK'
    BY <1>4, <1>6, <2>1, ListCachedRequest DEF ListServedFromCache
  <2>3. QED
    BY <1>1, <1>6, <2>2 DEF ListServedFromCache
<1>7. ASSUME NEW n \in DOMAIN lists, lists' = Over(n)
      PROVE  lists' \in Seq(Requests) /\ Len(lists') <= MaxLists
  <2>1. Len(lists) \in Nat /\ Len(lists) <= MaxLists /\ MaxLists \in Nat
    BY ListsDomain, PageAssumption DEF TypeOK
  <2>2. lists' \in Seq(Requests) /\ Len(lists') = Len(lists) - 1
    BY <1>7, OverLists
  <2>3. QED
    BY <2>1, <2>2
<1>8. ASSUME NEW n \in DOMAIN lists, ListArrives(n)
      PROVE  TypeOK'
  <2>1. lists[n] \in Requests /\ page \in PageNumbers
    BY ListsDomain DEF TypeOK
  <2>2. /\ lists[n].found \in SUBSET Recs /\ lists[n].page \in PageNumbers
        /\ lists[n].ver \in 0..MaxVer /\ lists[n].stale \in BOOLEAN
    BY <2>1 DEF Requests
  <2>3. page' \in PageNumbers /\ pages' \subseteq PageNumbers
    BY <1>8, <2>1, <2>2, ReasonablePage, PagesType DEF ListArrives
  <2>4. table' \in [rows : SUBSET Recs, ver : 0..MaxVer] /\ pageCurr' \in PageNumbers
    BY <1>8, <2>2 DEF ListArrives, PageOf
  <2>5. TableTypeOK'
    BY <1>7, <1>8, <2>3, <2>4 DEF ListArrives, TableTypeOK, TypeOK
  <2>6. \E cause \in BOOLEAN : Blame(cause)
    BY <1>8, <2>2 DEF ListArrives
  <2>7. QED
    BY <1>1, <1>8, <2>5, <2>6 DEF ListArrives
<1>9. ASSUME NEW n \in DOMAIN lists, ListFails(n)
      PROVE  TypeOK'
  <2>1. lists[n].page \in PageNumbers
    BY ListsDomain DEF Requests
  <2>2. table' \in [rows : SUBSET Recs, ver : 0..MaxVer] /\ pageCurr' \in PageNumbers
    BY <1>9, <2>1 DEF ListFails, TypeOK
  <2>3. TableTypeOK'
    BY <1>7, <1>9, <2>2 DEF ListFails, TableTypeOK, TypeOK
  <2>4. QED
    BY <1>1, <1>9, <2>3 DEF ListFails
<1>10. QED
  BY <1>2, <1>3, <1>5, <1>6, <1>8, <1>9

LEMMA TypeForm ==
    ASSUME TypeOK,
           \/ ClickAdd
           \/ \E r \in Recs, enable \in Radios : ClickEdit(r, enable)
           \/ \E types \in Options \cup {form.types}, enable \in Radios : FillIn(types, enable)
           \/ ClickReset \/ CloseForm
    PROVE  TypeOK'
<1>1. ASSUME FormTypeOK', formDialog' \in [open : BOOLEAN, rec : Recs \cup {NoRec}, sent : BOOLEAN, fresh : BOOLEAN],
             UNCHANGED <<serverVars, tableVars, posts, dialog, blame>>,
             dropped' \in BOOLEAN, off' \in BOOLEAN
      PROVE  TypeOK'
  <2>1. ServerTypeOK' /\ TableTypeOK'
    BY <1>1, PartsKept
  <2>2. DialogTypeOK'
    BY <1>1 DEF DialogTypeOK, TypeOK
  <2>3. RestTypeOK'
    BY <1>1 DEF RestTypeOK, TypeOK
  <2>4. QED
    BY <1>1, <2>1, <2>2, <2>3, TypePartsNext
<1>r. \A enable \in Radios : enable \in BOOLEAN
  BY PageAssumption
<1>2. CASE ClickAdd
  <2>1. FormTypeOK'
    BY <1>2 DEF ClickAdd, BlankSelects, TypeOK, FormTypeOK, Form
  <2>2. QED
    BY <1>1, <1>2, <2>1, DialogTypes DEF ClickAdd, TypeOK
<1>3. ASSUME NEW r \in Recs, NEW enable \in Radios, ClickEdit(r, enable)
      PROVE  TypeOK'
  <2>1. FormTypeOK'
    BY <1>3, <1>r DEF ClickEdit, FormTypeOK, Form
  <2>2. QED
    BY <1>1, <1>3, <1>r, <2>1, DialogTypes DEF ClickEdit, TypeOK
<1>4. ASSUME NEW types \in Options \cup {form.types}, NEW enable \in Radios, FillIn(types, enable)
      PROVE  TypeOK'
  <2>1. FormTypeOK'
    BY <1>4, <1>r DEF FillIn, TypeOK, FormTypeOK, Form
  <2>2. formDialog' \in [open : BOOLEAN, rec : Recs \cup {NoRec}, sent : BOOLEAN, fresh : BOOLEAN]
    BY <1>4 DEF FillIn, TypeOK
  <2>3. QED
    BY <1>1, <1>4, <1>r, <2>1, <2>2 DEF FillIn, TypeOK
<1>5. CASE ClickReset
  <2>1. FormTypeOK'
    BY <1>5 DEF ClickReset, TypeOK, FormTypeOK, Form
  <2>2. formDialog' \in [open : BOOLEAN, rec : Recs \cup {NoRec}, sent : BOOLEAN, fresh : BOOLEAN]
    BY <1>5 DEF ClickReset, TypeOK
  <2>3. QED
    BY <1>1, <1>5, <2>1, <2>2 DEF ClickReset, TypeOK
<1>6. CASE CloseForm
  <2>1. FormTypeOK'
    BY <1>6, CleanUserType DEF CloseForm, TypeOK
  <2>2. QED
    BY <1>1, <1>6, <2>1, DialogTypes DEF CloseForm, TypeOK
<1>7. QED
  BY <1>2, <1>3, <1>4, <1>5, <1>6

LEMMA TypeSubmit ==
    ASSUME TypeOK, SubmitDone \/ SubmitRefused \/ SubmitError
    PROVE  TypeOK'
<1>1. FormData \in Recs \cup {NoRec}
  BY DEF FormData, TypeOK, Form
<1>2. ASSUME NEW b \in BOOLEAN, NEW cause \in BOOLEAN,
             Write(FormData), Answered(Alert(b)), FormTypeOK', Blame(cause),
             UNCHANGED <<tableVars, posts, dropped, off>>
      PROVE  TypeOK'
  <2>1. ServerTypeOK' /\ TableTypeOK'
    BY <1>1, <1>2, WriteType, PartsKept
  <2>2. DialogTypeOK'
    BY <1>2 DEF Answered, DialogTypeOK, TypeOK
  <2>3. posts' \in [Recs -> 0..MaxPosts] /\ dropped' \in BOOLEAN /\ off' \in BOOLEAN
    BY <1>2 DEF TypeOK
  <2>4. RestTypeOK'
    BY <1>2, <2>3, RestKept
  <2>5. QED
    BY <1>2, <2>1, <2>2, <2>4, TypePartsNext
<1>3. CASE SubmitDone
  <2>1. FormTypeOK'
    BY <1>3, CleanUserType DEF SubmitDone
  <2>2. QED
    BY <1>2, <1>3, <2>1 DEF SubmitDone
<1>4. CASE SubmitRefused
  <2>1. FormTypeOK'
    BY <1>4, CleanUserType DEF SubmitRefused
  <2>2. Written \in BOOLEAN
    BY DEF Written
  <2>3. QED
    BY <1>2, <1>4, <2>1, <2>2 DEF SubmitRefused
<1>5. CASE SubmitError
  <2>1. FormTypeOK'
    BY <1>5 DEF SubmitError, FormTypeOK, TypeOK
  <2>2. QED
    BY <1>2, <1>5, <2>1 DEF SubmitError
<1>6. QED
  BY <1>3, <1>4, <1>5

LEMMA TypeDelete ==
    ASSUME TypeOK,
           \/ \E r \in Recs : ClickDelete(r)
           \/ ConfirmDelete \/ CancelDelete
           \/ \E r \in Recs : DeleteAnswered(r)
    PROVE  TypeOK'
<1>1. ASSUME dialog' \in {None} \cup {Confirm(r) : r \in Recs} \cup {Alert(b) : b \in BOOLEAN},
             UNCHANGED <<serverVars, tableVars, posts, formVars, formDialog, blame, dropped, off>>
      PROVE  TypeOK'
  <2>1. ServerTypeOK' /\ TableTypeOK' /\ FormTypeOK'
    BY <1>1, PartsKept
  <2>2. DialogTypeOK' /\ RestTypeOK'
    BY <1>1 DEF DialogTypeOK, RestTypeOK, TypeOK
  <2>3. QED
    BY <2>1, <2>2, TypePartsNext
<1>2. ASSUME NEW r \in Recs, ClickDelete(r)
      PROVE  TypeOK'
  BY <1>1, <1>2 DEF ClickDelete
<1>3. CASE CancelDelete
  BY <1>1, <1>3 DEF CancelDelete
<1>4. CASE ConfirmDelete
  <2>1. dialog.rec \in Recs
    BY <1>4, DialogTypes DEF ConfirmDelete, TypeOK
  <2>2. posts' \in [Recs -> 0..MaxPosts]
    <3>1. posts[dialog.rec] \in 0..MaxPosts /\ MaxPosts \in Nat /\ posts[dialog.rec] < MaxPosts
      BY <1>4, <2>1, PageAssumption DEF ConfirmDelete, TypeOK
    <3>2. posts[dialog.rec] + 1 \in 0..MaxPosts
      BY <3>1
    <3>3. QED
      BY <1>4, <3>2 DEF ConfirmDelete, TypeOK
  <2>3. RestTypeOK'
    BY <1>4, <2>2 DEF ConfirmDelete, RestTypeOK, TypeOK
  <2>4. ServerTypeOK' /\ TableTypeOK' /\ FormTypeOK' /\ DialogTypeOK'
    BY <1>4, PartsKept DEF ConfirmDelete
  <2>5. QED
    BY <2>3, <2>4, TypePartsNext
<1>5. ASSUME NEW r \in Recs, DeleteAnswered(r)
      PROVE  TypeOK'
  <2>1. ServerTypeOK'
    BY <1>5, WriteType DEF DeleteAnswered
  <2>2. TableTypeOK' /\ FormTypeOK'
    BY <1>5, PartsKept DEF DeleteAnswered
  <2>3. DialogTypeOK'
    BY <1>5 DEF DeleteAnswered, DialogTypeOK, TypeOK
  <2>4. posts' \in [Recs -> 0..MaxPosts]
    <3>1. posts[r] \in 0..MaxPosts /\ MaxPosts \in Nat /\ posts[r] > 0
      BY <1>5, PageAssumption DEF DeleteAnswered, TypeOK
    <3>2. posts[r] - 1 \in 0..MaxPosts
      BY <3>1
    <3>3. QED
      BY <1>5, <3>2 DEF DeleteAnswered, TypeOK
  <2>5. \E cause \in BOOLEAN : Blame(cause)
    <3>1. Written \in BOOLEAN /\ (Written \/ dialog.reload) \in BOOLEAN
      BY DEF Written
    <3>2. QED
      BY <1>5, <3>1 DEF DeleteAnswered
  <2>6. dropped' \in BOOLEAN /\ off' \in BOOLEAN
    BY <1>5 DEF DeleteAnswered, TypeOK
  <2>7. RestTypeOK'
    BY <2>4, <2>5, <2>6, RestKept
  <2>8. QED
    BY <2>1, <2>2, <2>3, <2>7, TypePartsNext
<1>6. QED
  BY <1>2, <1>3, <1>4, <1>5

LEMMA TypeAlert ==
    ASSUME TypeOK, AlertOK \/ AlertClosed \/ Elsewhere
    PROVE  TypeOK'
<1>1. CASE AlertOK
  <2>1. TableTypeOK'
    <3>1. where \in Queries
      BY DEF TypeOK
    <3>2. QED
      BY <1>1, <3>1, LoadType DEF AlertOK
  <2>2. ServerTypeOK'
    BY <1>1, PartsKept DEF AlertOK
  <2>3. FormTypeOK'
    <3>1. CASE formDialog.open
      BY <1>1, <3>1, CleanUserType DEF AlertOK, TypeOK
    <3>2. CASE ~formDialog.open
      BY <1>1, <3>2 DEF AlertOK, TypeOK, FormTypeOK
    <3>3. QED
      BY <3>1, <3>2
  <2>4. DialogTypeOK'
    BY <1>1, DialogTypes DEF AlertOK, DialogTypeOK
  <2>5. posts' \in [Recs -> 0..MaxPosts] /\ dropped' \in BOOLEAN /\ off' \in BOOLEAN
    BY <1>1 DEF AlertOK, TypeOK
  <2>6. RestTypeOK'
    BY <1>1, <2>5, RestKept DEF AlertOK
  <2>7. QED
    BY <2>1, <2>2, <2>3, <2>4, <2>6, TypePartsNext
<1>2. CASE AlertClosed
  <2>1. ServerTypeOK' /\ TableTypeOK' /\ FormTypeOK'
    BY <1>2, PartsKept DEF AlertClosed
  <2>2. DialogTypeOK'
    BY <1>2 DEF AlertClosed, DialogTypeOK, TypeOK
  <2>3. dialog.reload \in BOOLEAN
    BY DialogTypes DEF TypeOK
  <2>4. posts' \in [Recs -> 0..MaxPosts] /\ dropped' \in BOOLEAN /\ off' \in BOOLEAN
    BY <1>2 DEF AlertClosed, TypeOK
  <2>5. RestTypeOK'
    BY <1>2, <2>3, <2>4, RestKept DEF AlertClosed
  <2>6. QED
    BY <2>1, <2>2, <2>5, TypePartsNext
<1>3. CASE Elsewhere
  <2>1. ServerTypeOK'
    BY <1>3, WriteType DEF Elsewhere
  <2>2. TableTypeOK' /\ FormTypeOK' /\ DialogTypeOK'
    BY <1>3, PartsKept DEF Elsewhere
  <2>3. posts' \in [Recs -> 0..MaxPosts] /\ dropped' \in BOOLEAN /\ off' \in BOOLEAN
    BY <1>3 DEF Elsewhere, TypeOK
  <2>4. RestTypeOK'
    BY <1>3, <2>3, RestKept DEF Elsewhere
  <2>5. QED
    BY <2>1, <2>2, <2>4, TypePartsNext
<1>4. QED
  BY <1>1, <1>2, <1>3

\* The page keeps its types for any sets of rules and searches and any bounds.
THEOREM PageTypeCorrect == Spec => []TypeOK
<1>1. Init => TypeOK
  BY TypeInit
<1>2. TypeOK /\ [Next]_vars => TypeOK'
  <2> SUFFICES ASSUME TypeOK, [Next]_vars PROVE TypeOK'
    OBVIOUS
  <2>1. CASE UNCHANGED vars
    BY <2>1 DEF vars, TypeOK, serverVars, tableVars, formVars, dialogVars
  <2>2. CASE User
    BY <2>2, TypeLists, TypeForm, TypeDelete, TypeAlert DEF User
  <2>3. CASE Server
    BY <2>3, TypeLists, TypeSubmit, TypeDelete, TypeAlert DEF Server
  <2>4. QED
    BY <2>1, <2>2, <2>3 DEF Next
<1>3. QED
  BY <1>1, <1>2, PTL DEF Spec

--------------------------------------------------------------------------------
(* The form *)

LEMMA FormInit ==
    ASSUME Init
    PROVE  FormInv
<1>1. ~NoForm.open
  BY DEF NoForm
<1>2. QED
  BY <1>1 DEF Init, FormInv, IdNamesDialog, Radio, Cleaned, FreshBlank

LEMMA FormKept ==
    ASSUME FormInv, UNCHANGED <<formVars, formDialog, dropped, off>>
    PROVE  FormInv'
BY DEF FormInv, IdNamesDialog, Radio, Cleaned, FreshBlank, formVars

\* A form that is cleaned names no rule, as does one that is no longer on screen or
\* has been sent; its selects are blank if they were, or had handlers.
LEMMA FormCleaned ==
    ASSUME TypeOK, FormInv, CleanUser, off' = off, dropped \/ locked' => dropped',
           \/ formDialog' = NoForm
           \/ formDialog' = [formDialog EXCEPT !.sent = TRUE] /\ formDialog.open
    PROVE  FormInv'
<1>1. form.types = Blank => form'.types = Blank
  BY DEF CleanUser, BlankSelects, TypeOK, Form
<1>2. form'.id = NoRec /\ form'.enable = form.enable /\ wired' = ~locked'
  BY DEF CleanUser, TypeOK, Form
<1>3. /\ ~NoForm.open
      /\ formDialog' = NoForm \/ (/\ formDialog'.open /\ formDialog'.sent
                                  /\ formDialog'.fresh = formDialog.fresh
                                  /\ formDialog'.rec = formDialog.rec /\ formDialog.open)
  BY DEF NoForm, TypeOK
<1>4. IdNamesDialog'
  BY <1>2, <1>3 DEF IdNamesDialog
<1>5. Radio'
  BY <1>2 DEF FormInv, Radio
<1>6. Cleaned'
  BY <1>2, <1>3 DEF Cleaned
<1>7. FreshBlank'
  BY <1>1, <1>3 DEF FormInv, FreshBlank
<1>8. QED
  BY <1>4, <1>5, <1>6, <1>7 DEF FormInv

LEMMA FormUser ==
    ASSUME TypeOK, FormInv, User
    PROVE  FormInv'
<1>1. ASSUME NEW q \in Queries, Search(q)
      PROVE  FormInv'
  BY <1>1, FormKept DEF Search, dialogVars
<1>2. ASSUME NEW p \in pages, ClickPage(p)
      PROVE  FormInv'
  BY <1>2, FormKept DEF ClickPage, dialogVars
<1>3. CASE ClickAdd
  <2>1. /\ form'.id = NoRec /\ form'.enable = form.enable
        /\ form'.types = IF wired THEN Blank ELSE form.types
    BY <1>3 DEF ClickAdd, BlankSelects, TypeOK, Form
  <2>2. formDialog'.open /\ formDialog'.rec = NoRec
    BY <1>3 DEF ClickAdd, FormFor
  <2>3. IdNamesDialog' /\ Cleaned' /\ Radio'
    BY <1>3, <2>1, <2>2 DEF IdNamesDialog, Cleaned, Radio, FormInv, ClickAdd
  <2>4. wired \/ dropped
    BY <1>3 DEF ClickAdd, Bare, FormInv, Cleaned
  <2>5. form'.types = Blank \/ dropped'
    <3>1. dropped' = dropped
      BY <1>3 DEF ClickAdd
    <3>2. QED
      BY <2>1, <2>4, <3>1
  <2>6. FreshBlank'
    BY <2>5 DEF FreshBlank
  <2>7. QED
    BY <2>3, <2>6 DEF FormInv
<1>4. ASSUME NEW r \in Recs, NEW enable \in Radios, ClickEdit(r, enable)
      PROVE  FormInv'
  <2>1. form'.id = r /\ form'.enable = enable /\ r # NoRec /\ enable \in BOOLEAN
    BY <1>4, PageAssumption DEF ClickEdit
  <2>2. formDialog'.open /\ formDialog'.rec = r
    BY <1>4 DEF ClickEdit, FormFor
  <2>3. off' = (off \/ ~enable)
    BY <1>4 DEF ClickEdit
  <2>4. QED
    BY <2>1, <2>2, <2>3 DEF IdNamesDialog, Cleaned, Radio, FreshBlank, FormInv
<1>5. ASSUME UNCHANGED dropped, form'.id = form.id, FormOnTop, form'.enable \/ off',
             formDialog' = [formDialog EXCEPT !.fresh = FALSE]
      PROVE  FormInv'
  <2>1. /\ formDialog'.open /\ ~formDialog'.fresh
        /\ formDialog'.rec = formDialog.rec /\ formDialog'.sent = formDialog.sent
    BY <1>5 DEF FormOnTop, TypeOK
  <2>2. QED
    BY <1>5, <2>1 DEF FormOnTop, IdNamesDialog, Cleaned, Radio, FreshBlank, FormInv
<1>6. ASSUME NEW types \in Options \cup {form.types}, NEW enable \in Radios, FillIn(types, enable)
      PROVE  FormInv'
  <2>1. form'.id = form.id /\ form'.enable = enable /\ off' = (off \/ ~enable) /\ enable \in BOOLEAN
    BY <1>6, PageAssumption DEF FillIn, TypeOK, Form
  <2>2. form'.enable \/ off'
    BY <2>1
  <2>3. QED
    BY <1>5, <1>6, <2>1, <2>2 DEF FillIn
<1>7. CASE ClickReset
  <2>1. form'.id = form.id /\ form'.enable
    BY <1>7 DEF ClickReset, TypeOK, Form
  <2>2. QED
    BY <1>5, <1>7, <2>1 DEF ClickReset
<1>8. CASE CloseForm
  BY <1>8, FormCleaned DEF CloseForm
<1>9. ASSUME NEW r \in Recs, ClickDelete(r)
      PROVE  FormInv'
  BY <1>9, FormKept DEF ClickDelete
<1>10. CASE ConfirmDelete \/ CancelDelete \/ AlertClosed
  BY <1>10, FormKept DEF ConfirmDelete, CancelDelete, AlertClosed, dialogVars
<1>11. CASE AlertOK
  <2>1. CASE formDialog.open
    BY <1>11, <2>1, FormCleaned DEF AlertOK
  <2>2. CASE ~formDialog.open
    <3>1. UNCHANGED <<form, wired, off>> /\ dropped' = dropped /\ ~formDialog'.open
      BY <1>11, <2>2 DEF AlertOK, NoForm, TypeOK
    <3>2. QED
      BY <2>2, <3>1 DEF FormInv, IdNamesDialog, Radio, Cleaned, FreshBlank
  <2>3. QED
    BY <2>1, <2>2
<1>12. QED
  BY <1>1, <1>2, <1>3, <1>4, <1>6, <1>7, <1>8, <1>9, <1>10, <1>11 DEF User

LEMMA FormServer ==
    ASSUME TypeOK, FormInv, Server
    PROVE  FormInv'
<1>1. CASE SubmitDone
  BY <1>1, FormCleaned DEF SubmitDone, Answered, FormOnTop
<1>2. CASE SubmitRefused
  BY <1>2, FormCleaned DEF SubmitRefused, Answered, FormOnTop
<1>3. CASE SubmitError
  <2>1. /\ formDialog'.open /\ formDialog'.sent /\ formDialog'.fresh = formDialog.fresh
        /\ formDialog'.rec = formDialog.rec /\ formDialog.open
    BY <1>3 DEF SubmitError, Answered, FormOnTop, TypeOK
  <2>2. UNCHANGED <<form, dropped, off>>
    BY <1>3 DEF SubmitError
  <2>3. QED
    BY <2>1, <2>2 DEF FormInv, IdNamesDialog, Radio, Cleaned, FreshBlank
<1>4. ASSUME NEW n \in DOMAIN lists, ListServed(n) \/ ListArrives(n) \/ ListFails(n)
      PROVE  FormInv'
  BY <1>4, FormKept DEF ListServed, ListArrives, ListFails, dialogVars
<1>5. ASSUME NEW n \in DOMAIN lists, NEW rules \in {found[lists[n].query], Recs}, ListServedFromCache(n, rules)
      PROVE  FormInv'
  BY <1>5, FormKept DEF ListServedFromCache, dialogVars
<1>6. ASSUME NEW r \in Recs, DeleteAnswered(r)
      PROVE  FormInv'
  BY <1>6, FormKept DEF DeleteAnswered
<1>7. CASE Elsewhere
  BY <1>7, FormKept DEF Elsewhere, dialogVars
<1>8. QED
  BY <1>1, <1>2, <1>3, <1>4, <1>5, <1>6, <1>7 DEF Server

LEMMA FormNext ==
    ASSUME TypeOK, FormInv, [Next]_vars
    PROVE  FormInv'
<1>1. CASE UNCHANGED vars
  BY <1>1, FormKept DEF vars, dialogVars
<1>2. QED
  BY <1>1, FormUser, FormServer DEF Next

\* A submit is about the rule whose edit dialog is on screen: the hidden id that
\* decides between insert and update never outlives its dialog.
THEOREM IdNamesDialogCorrect == Spec => []IdNamesDialog
<1>1. Init => FormInv
  BY FormInit
<1>2. TypeOK /\ FormInv /\ [Next]_vars => FormInv'
  BY FormNext
<1>3. FormInv => IdNamesDialog
  BY DEF FormInv
<1>4. QED
  BY <1>1, <1>2, <1>3, PageTypeCorrect, PTL DEF Spec

\* An add dialog opens blank, but for what an edit dialog closed unsent leaves in the
\* selects and for a radio button that was moved.
THEOREM AddStartsBlankCorrect == Spec => []AddStartsBlank
<1>1. Init => FormInv
  BY FormInit
<1>2. TypeOK /\ FormInv /\ [Next]_vars => FormInv'
  BY FormNext
<1>3. FormInv => AddStartsBlank
  BY DEF FormInv, AddStartsBlank, FreshBlank, Radio, FormOnTop
<1>4. QED
  BY <1>1, <1>2, <1>3, PageTypeCorrect, PTL DEF Spec

--------------------------------------------------------------------------------
(* The table *)

\* With a known cause the table need not be right, and a cause is only forgotten
\* when it is right.
LEMMA Blamed ==
    ASSUME NEW cause, Blame(cause), blame \/ cause
    PROVE  TableInv'
<1>1. CASE lists' = <<>> /\ Right'
  <2>1. DOMAIN lists' = {}
    BY <1>1
  <2>2. Settled'
    BY <1>1, <2>1 DEF Settled
  <2>3. QED
    BY <2>2 DEF TableInv
<1>2. CASE ~(lists' = <<>> /\ Right')
  <2>1. blame'
    BY <1>2 DEF Blame
  <2>2. QED
    BY <2>1 DEF TableInv
<1>3. QED
  BY <1>1, <1>2

\* Neither the rules nor the table change, and no reload is forgotten.
LEMMA TableKept ==
    ASSUME TableInv, UNCHANGED <<serverVars, tableVars>>, dialog.reload => dialog'.reload,
           blame' = blame \/ \E cause \in BOOLEAN : Blame(cause)
    PROVE  TableInv'
<1>1. /\ found' = found /\ ver' = ver /\ where' = where /\ page' = page
      /\ table' = table /\ lists' = lists
  BY DEF serverVars, tableVars
<1>2. CASE blame
  BY <1>2, Blamed DEF TableInv
<1>3. CASE dialog.reload
  BY <1>3 DEF TableInv
<1>4. CASE NewestGood
  <2>1. NewestGood'
    BY <1>1, <1>4 DEF NewestGood
  <2>2. QED
    BY <2>1 DEF TableInv
<1>5. CASE Settled
  <2>1. Settled'
    BY <1>1, <1>5 DEF Settled, Right
  <2>2. QED
    BY <2>1 DEF TableInv
<1>6. QED
  BY <1>2, <1>3, <1>4, <1>5 DEF TableInv

\* A new request is for the search and the page that are current and reads the rules
\* later.
LEMMA TableAsked ==
    ASSUME TypeOK, NEW q \in Queries, NEW p \in PageNumbers, Ask(q, p), where' = q
    PROVE  TableInv'
<1>1. lists'[Len(lists')] = Request(q, p) /\ lists' # <<>>
  BY AskLists
<1>2. page' = p /\ Request(q, p).query = q /\ Request(q, p).page = p /\ ~Request(q, p).served
  BY DEF Ask, Request
<1>3. NewestGood'
  BY <1>1, <1>2 DEF NewestGood
<1>4. QED
  BY <1>3 DEF TableInv

LEMMA TableLoaded ==
    ASSUME TypeOK, NEW q \in Queries, Load(q)
    PROVE  TableInv'
BY TableAsked DEF Load, TypeOK

\* A reload is due while its alert is on screen.
LEMMA TableReload ==
    ASSUME dialog' = Alert(TRUE)
    PROVE  TableInv'
BY DialogTypes DEF TableInv

\* A write that does not happen leaves the rules as they are.
LEMMA Unwritten ==
    ASSUME TypeOK, ~Written,
           \/ \E id \in Recs \cup {NoRec} : Write(id)
           \/ \E r \in Recs : Delete(r)
    PROVE  UNCHANGED serverVars
<1>1. ver \in Nat
  BY PageAssumption DEF TypeOK
<1>2. ver + 1 # ver
  BY <1>1
<1>3. QED
  BY <1>2 DEF Written, Write, Delete, Place

\* While the page, a form or a question can be reached no reload is due.
LEMMA NoReloadDue ==
    ASSUME TypeOK, Bare \/ FormOnTop \/ dialog.what = "confirm"
    PROVE  ~dialog.reload
BY DialogTypes DEF Bare, FormOnTop, TypeOK

\* A request is answered: it holds the rules of this moment, or is known to be stale.
LEMMA TableServed ==
    ASSUME TypeOK, TableInv, NEW n \in DOMAIN lists,
           UNCHANGED <<serverVars, where, page, table, dialog, blame>>,
           lists' \in Seq(Requests), Len(lists') = Len(lists),
           \/ lists'[n].stale
           \/ /\ lists'[n].stale = lists[n].stale
              /\ lists'[n].query = lists[n].query /\ lists'[n].page = lists[n].page
              /\ lists'[n].found = found[lists[n].query] /\ lists'[n].ver = ver,
           \A k \in 1..Len(lists) : k # n => lists'[k] = lists[k]
    PROVE  TableInv'
<1>1. DOMAIN lists = 1..Len(lists) /\ DOMAIN lists' = 1..Len(lists) /\ Len(lists) \in Nat
  BY ListsDomain, LenProperties
<1>2. /\ found' = found /\ ver' = ver /\ where' = where /\ page' = page
      /\ table' = table /\ dialog' = dialog /\ blame' = blame
  BY DEF serverVars
<1>3. CASE blame \/ dialog.reload
  BY <1>2, <1>3 DEF TableInv
<1>4. CASE NewestGood
  <2>1. lists' # <<>> /\ Len(lists) \in 1..Len(lists)
    <3>1. Len(lists) > 0
      BY <1>4, ListsDomain DEF NewestGood
    <3>2. QED
      BY <1>1, <3>1, EmptySeq
  <2>2. NewestGood'
    <3>1. CASE n = Len(lists)
      BY <1>2, <1>4, <2>1, <3>1 DEF NewestGood
    <3>2. CASE n # Len(lists)
      BY <1>2, <1>4, <2>1, <3>2 DEF NewestGood
    <3>3. QED
      BY <3>1, <3>2
  <2>3. QED
    BY <2>2 DEF TableInv
<1>5. CASE Settled
  <2>1. \A k \in DOMAIN lists' : lists'[k].stale
    BY <1>1, <1>5 DEF Settled
  <2>2. Settled'
    BY <1>2, <1>5, <2>1 DEF Settled, Right
  <2>3. QED
    BY <2>2 DEF TableInv
<1>6. QED
  BY <1>3, <1>4, <1>5 DEF TableInv

\* The answer to the newest request makes the table right: the server and the pager
\* agree on the last page.  An older one was overtaken, or leaves the newest under way
\* and the pager where that is to find it.
LEMMA TableArrives ==
    ASSUME TypeOK, TableInv, NEW n \in DOMAIN lists, ListArrives(n)
    PROVE  TableInv'
<1>1. /\ DOMAIN lists = 1..Len(lists) /\ Len(lists) \in Nat /\ n \in 1..Len(lists)
      /\ \A k \in 1..Len(lists) : lists[k] \in Requests
  BY ListsDomain
<1>2. /\ lists' \in Seq(Requests) /\ Len(lists') = Len(lists) - 1
      /\ \A k \in 1..(Len(lists) - 1) :
          lists'[k] = IF k < n THEN [lists[k] EXCEPT !.stale = TRUE] ELSE lists[k + 1]
  BY OverLists DEF ListArrives
<1>3. /\ found' = found /\ ver' = ver /\ where' = where /\ dialog' = dialog
      /\ table'.rows = PageOf(lists[n].found, Reasonable(lists[n].found, lists[n].page))
      /\ table'.ver = lists[n].ver
      /\ page' = Reasonable(lists[n].found, page)
      /\ lists[n].served
  BY DEF ListArrives, serverVars, dialogVars
<1>4. CASE blame \/ lists[n].stale \/ (n # Len(lists) /\ page' # page)
  BY <1>4, Blamed DEF ListArrives
<1>5. CASE dialog.reload
  BY <1>3, <1>5 DEF TableInv
<1>6. CASE NewestGood /\ ~lists[n].stale /\ ~(n # Len(lists) /\ page' # page)
  <2>1. CASE n = Len(lists)
    <3>1. lists[n].page = page /\ lists[n].found = found[where] /\ lists[n].ver = ver
      BY <1>3, <1>6, <2>1 DEF NewestGood
    <3>2. found[where] \in SUBSET Recs /\ page \in PageNumbers
      BY DEF TypeOK
    <3>3. PageOf(found[where], page') = {} => found[where] = {}
      BY <1>3, <3>1, <3>2, ReasonablePage
    <3>4. Right'
      BY <1>3, <3>1, <3>3 DEF Right
    <3>5. ASSUME NEW k \in DOMAIN lists'
          PROVE  lists'[k].stale
      <4>1. k \in 1..(Len(lists) - 1)
        BY <1>2, LenProperties
      <4>2. k \in 1..Len(lists) /\ k < n
        BY <1>1, <2>1, <4>1
      <4>3. lists'[k] = [lists[k] EXCEPT !.stale = TRUE] /\ lists[k] \in Requests
        BY <1>1, <1>2, <4>1, <4>2
      <4>4. QED
        BY <4>3 DEF Requests
    <3>6. Settled'
      BY <3>4, <3>5 DEF Settled
    <3>7. QED
      BY <3>6 DEF TableInv
  <2>2. CASE n # Len(lists)
    <3>1. Len(lists) - 1 \in 1..(Len(lists) - 1) /\ ~(Len(lists) - 1 < n)
      BY <1>1, <2>2
    <3>2. lists'[Len(lists')] = lists[Len(lists)]
      <4>1. (Len(lists) - 1) + 1 = Len(lists)
        BY <1>1
      <4>2. QED
        BY <1>2, <3>1, <4>1
    <3>3. lists' # <<>>
      BY <1>2, <3>1, EmptySeq
    <3>4. page' = page
      BY <1>6, <2>2
    <3>5. NewestGood'
      BY <1>3, <1>6, <3>2, <3>3, <3>4 DEF NewestGood
    <3>6. QED
      BY <3>5 DEF TableInv
  <2>3. QED
    BY <2>1, <2>2
<1>7. CASE Settled
  BY <1>4, <1>7 DEF Settled
<1>8. QED
  BY <1>4, <1>5, <1>6, <1>7 DEF TableInv

LEMMA TableUser ==
    ASSUME TypeOK, TableInv, User
    PROVE  TableInv'
<1>1. ASSUME NEW q \in Queries, Search(q)
      PROVE  TableInv'
  BY <1>1, TableLoaded DEF Search
<1>2. ASSUME NEW p \in pages, ClickPage(p)
      PROVE  TableInv'
  <2>1. p \in PageNumbers /\ where \in Queries
    BY DEF TypeOK
  <2>2. QED
    BY <1>2, <2>1, TableAsked DEF ClickPage
<1>3. ASSUME UNCHANGED <<serverVars, tableVars, blame>>,
             Bare \/ FormOnTop \/ dialog.what = "confirm"
      PROVE  TableInv'
  BY <1>3, NoReloadDue, TableKept
<1>4. ASSUME ClickAdd \/ (\E r \in Recs, enable \in Radios : ClickEdit(r, enable))
                      \/ \E r \in Recs : ClickDelete(r)
      PROVE  TableInv'
  BY <1>3, <1>4 DEF ClickAdd, ClickEdit, ClickDelete
<1>5. ASSUME (\E types \in Options \cup {form.types}, enable \in Radios : FillIn(types, enable))
                      \/ ClickReset \/ CloseForm
      PROVE  TableInv'
  BY <1>3, <1>5 DEF FillIn, ClickReset, CloseForm
<1>6. CASE ConfirmDelete \/ CancelDelete
  BY <1>3, <1>6 DEF ConfirmDelete, CancelDelete
<1>7. CASE AlertOK
  <2>1. where \in Queries
    BY DEF TypeOK
  <2>2. QED
    BY <1>7, <2>1, TableLoaded DEF AlertOK
<1>8. CASE AlertClosed
  <2>1. dialog.reload \in BOOLEAN
    BY DialogTypes DEF TypeOK
  <2>2. CASE dialog.reload
    BY <1>8, <2>2, Blamed DEF AlertClosed
  <2>3. CASE ~dialog.reload
    BY <1>8, <2>1, <2>3, TableKept DEF AlertClosed
  <2>4. QED
    BY <2>2, <2>3
<1>9. QED
  BY <1>1, <1>2, <1>4, <1>5, <1>6, <1>7, <1>8 DEF User

LEMMA TableServer ==
    ASSUME TypeOK, TableInv, Server
    PROVE  TableInv'
<1>f. FormData \in Recs \cup {NoRec} /\ Written \in BOOLEAN /\ dialog.reload \in BOOLEAN
  BY DialogTypes DEF FormData, Written, TypeOK, Form
<1>1. CASE SubmitDone \/ SubmitError
  BY <1>1, TableReload DEF SubmitDone, SubmitError, Answered
<1>2. CASE SubmitRefused
  <2>1. CASE Written
    BY <1>2, <2>1, Blamed DEF SubmitRefused
  <2>2. CASE ~Written
    <3>1. UNCHANGED <<serverVars, tableVars>>
      BY <1>2, <1>f, <2>2, Unwritten DEF SubmitRefused
    <3>2. ~dialog.reload
      BY <1>2, NoReloadDue DEF SubmitRefused
    <3>3. \E cause \in BOOLEAN : Blame(cause)
      BY <1>2, <1>f DEF SubmitRefused
    <3>4. QED
      BY <3>1, <3>2, <3>3, TableKept
  <2>3. QED
    BY <2>1, <2>2
<1>3. ASSUME NEW n \in DOMAIN lists, ListServed(n)
      PROVE  TableInv'
  BY <1>3, ListServedRequest, TableServed DEF ListServed, dialogVars
<1>4. ASSUME NEW n \in DOMAIN lists, NEW rules \in {found[lists[n].query], Recs}, ListServedFromCache(n, rules)
      PROVE  TableInv'
  <2>1. rules \in SUBSET Recs
    BY ListsDomain DEF TypeOK, Requests
  <2>2. QED
    BY <1>4, <2>1, ListCachedRequest, TableServed DEF ListServedFromCache, dialogVars
<1>5. ASSUME NEW n \in DOMAIN lists, ListFails(n)
      PROVE  TableInv'
  BY <1>5, Blamed DEF ListFails
<1>6. ASSUME NEW r \in Recs, DeleteAnswered(r)
      PROVE  TableInv'
  <2>1. Delete(r) /\ UNCHANGED tableVars
    BY <1>6 DEF DeleteAnswered
  <2>2. CASE dialog' = Alert(TRUE)
    BY <2>2, TableReload
  <2>3. CASE dialog' = Alert(FALSE) /\ Blame(Written \/ dialog.reload)
    <3>1. CASE Written \/ dialog.reload
      BY <2>3, <3>1, Blamed
    <3>2. CASE ~Written /\ ~dialog.reload
      <4>1. UNCHANGED serverVars
        BY <2>1, <3>2, Unwritten
      <4>2. \E cause \in BOOLEAN : Blame(cause)
        BY <1>f, <2>3
      <4>3. QED
        BY <2>1, <3>2, <4>1, <4>2, TableKept
    <3>3. QED
      BY <3>1, <3>2
  <2>4. CASE UNCHANGED dialog /\ Blame(Written)
    <3>1. CASE Written
      BY <2>4, <3>1, Blamed
    <3>2. CASE ~Written
      <4>1. UNCHANGED serverVars
        BY <2>1, <3>2, Unwritten
      <4>2. \E cause \in BOOLEAN : Blame(cause)
        BY <1>f, <2>4
      <4>3. QED
        BY <2>1, <2>4, <4>1, <4>2, TableKept
    <3>3. QED
      BY <3>1, <3>2
  <2>5. QED
    BY <1>6, <2>2, <2>3, <2>4 DEF DeleteAnswered
<1>7. CASE Elsewhere
  BY <1>7, Blamed DEF Elsewhere
<1>8. QED
  BY <1>1, <1>2, <1>3, <1>4, <1>5, <1>6, <1>7, TableArrives DEF Server

LEMMA TableInit ==
    ASSUME Init
    PROVE  TableInv
<1>1. lists # <<>> /\ Len(lists) = 1 /\ lists[1] = Request(where, 1) /\ page = 1
  BY DEF Init
<1>2. Request(where, 1).query = where /\ Request(where, 1).page = 1 /\ ~Request(where, 1).served
  BY DEF Request
<1>3. NewestGood
  BY <1>1, <1>2 DEF NewestGood
<1>4. QED
  BY <1>3 DEF TableInv

\* The table at rest shows the page the pager is on of what the last search finds, and
\* rules if there are any, although every answer replaces the rows and moves the pager,
\* whatever request it is for, and an alert closes the one on screen with the reload it
\* was to start: what can make the table wrong is one of the causes TableIsFresh names.
THEOREM TableIsFreshCorrect == Spec => []TableIsFresh
<1>1. Init => TableInv
  BY TableInit
<1>2. TypeOK /\ TableInv /\ [Next]_vars => TableInv'
  <2> SUFFICES ASSUME TypeOK, TableInv, [Next]_vars PROVE TableInv'
    OBVIOUS
  <2>1. CASE UNCHANGED vars
    BY <2>1, TableKept DEF vars, dialogVars
  <2>2. QED
    BY <2>1, TableUser, TableServer DEF Next
<1>3. TypeOK /\ TableInv => TableIsFresh
  <2> SUFFICES ASSUME TypeOK, TableInv, AtRest PROVE Right \/ blame
    BY DEF TableIsFresh
  <2>1. ~dialog.reload /\ lists = <<>>
    BY NoReloadDue DEF AtRest
  <2>2. QED
    BY <2>1 DEF TableInv, NewestGood, Settled
<1>4. QED
  BY <1>1, <1>2, <1>3, PageTypeCorrect, PTL DEF Spec

================================================================================
