---------------------------- MODULE AdminPage_proofs -----------------------------
(***************************************************************************)
(* Proofs about the frame page, for any menu: what the strip of tabs shows, *)
(* what sessionStorage remembers of it, and where the navigation rests.     *)
(***************************************************************************)
EXTENDS AdminPage, SequenceTheorems, FiniteSetTheorems, TLAPS

\* A list in which an id names a tab.
Unique(s) == \A m, n \in DOMAIN s : s[m].id = s[n].id => m = n

\* The id of i once the menu is complete.
FullId(i) == Cardinality({j \in Items : Order[j] <= Order[i]})

\* Unless a page was opened too early, the ids are those of the complete menu.
StoredIds == early \/ \A tab \in Elements(stored) : tab.id = FullId(tab.page)

TabsInv ==
    /\ IdsAreUnique /\ OpenTabsAreStored
    /\ ActiveRemembered /\ PopupNamesTab
    /\ StoredIds

--------------------------------------------------------------------------------
(* Sets of numbers *)

LEMMA LeastElement ==
    ASSUME NEW K \in SUBSET Nat, K # {}
    PROVE  \E m \in K : \A n \in K : m <= n
<1>1. \E m \in K : \A n \in K : ~(<<n, m>> \in OpToRel(<, Nat))
  BY WFMin, NatLessThanWellFounded
<1>2. PICK m \in K : \A n \in K : ~(<<n, m>> \in OpToRel(<, Nat))
  BY <1>1
<1>3. ASSUME NEW n \in K
      PROVE  m <= n
  <2>1. ~(n < m)
    BY <1>2 DEF OpToRel
  <2>2. m \in Nat /\ n \in Nat
    OBVIOUS
  <2>3. QED
    BY <2>1, <2>2
<1>4. QED
  BY <1>3

LEMMA GreatestElement ==
    ASSUME NEW l \in Nat, NEW K \in SUBSET (1..l), K # {}
    PROVE  \E m \in K : \A n \in K : n <= m
<1> DEFINE Down == {l - n : n \in K}
<1>1. Down \in SUBSET Nat /\ Down # {}
  <2>1. \A n \in 1..l : l - n \in Nat
    OBVIOUS
  <2>2. QED
    BY <2>1
<1>2. PICK d \in Down : \A e \in Down : d <= e
  BY <1>1, LeastElement
<1>3. PICK m \in K : d = l - m
  OBVIOUS
<1>4. ASSUME NEW n \in K
      PROVE  n <= m
  <2>1. l - m <= l - n
    BY <1>2, <1>3
  <2>2. QED
    BY <2>1
<1>5. QED
  BY <1>4

Increasing(f) == \A m, n \in DOMAIN f : m < n => f[m] < f[n]

\* A finite set of numbers can be listed in ascending order: were there one that
\* cannot, one of the least size would still be listed after its least element.
LEMMA AscendingExists ==
    ASSUME NEW K \in SUBSET Nat, IsFiniteSet(K)
    PROVE  \E f \in [1..Cardinality(K) -> K] : Increasing(f)
<1> DEFINE Listable(J) == \E f \in [1..Cardinality(J) -> J] : Increasing(f)
           Bad == {c \in Nat : \E J \in SUBSET Nat : IsFiniteSet(J) /\ Cardinality(J) = c /\ ~Listable(J)}
<1>1. SUFFICES ASSUME Bad # {} PROVE FALSE
  <2>1. Cardinality(K) \in Nat
    BY FS_CardinalityType
  <2>2. QED
    BY <1>1, <2>1
<1>2. PICK c \in Bad : \A b \in Bad : c <= b
  <2>1. Bad \in SUBSET Nat
    OBVIOUS
  <2> HIDE DEF Bad
  <2>2. QED
    BY <1>1, <2>1, LeastElement
<1>3. PICK J \in SUBSET Nat : IsFiniteSet(J) /\ Cardinality(J) = c /\ ~Listable(J)
  OBVIOUS
<1>4. J # {}
  <2>1. SUFFICES ASSUME J = {} PROVE FALSE
    OBVIOUS
  <2>2. Cardinality(J) = 0 /\ 1..0 = {}
    BY <2>1, FS_EmptySet
  <2> DEFINE f == [k \in 1..0 |-> 0]
  <2>3. f \in [1..Cardinality(J) -> J] /\ Increasing(f)
    BY <2>2 DEF Increasing
  <2>4. QED
    BY <1>3, <2>3
<1>5. PICK m \in J : \A n \in J : m <= n
  BY <1>4, LeastElement
<1> DEFINE R == J \ {m}
<1>6. IsFiniteSet(R) /\ Cardinality(R) = c - 1 /\ R \in SUBSET Nat /\ c \in Nat
  BY <1>3, FS_RemoveElement
<1>7. Cardinality(R) \in Nat
  BY <1>6, FS_CardinalityType
<1>8. Listable(R)
  <2>1. SUFFICES ASSUME ~Listable(R) PROVE FALSE
    OBVIOUS
  <2>2. c - 1 \in Bad
    BY <1>6, <1>7, <2>1
  <2>3. c <= c - 1
    BY <1>2, <2>2
  <2>4. QED
    BY <1>6, <2>3
<1>9. PICK g \in [1..(c - 1) -> R] : Increasing(g)
  BY <1>6, <1>8
<1> DEFINE f == [k \in 1..c |-> IF k = 1 THEN m ELSE g[k - 1]]
<1>10. c - 1 \in Nat /\ \A k \in 1..c : k # 1 => k - 1 \in 1..(c - 1)
  BY <1>6, <1>7
<1>11. f \in [1..c -> J]
  BY <1>9, <1>10
<1>12. Increasing(f)
  <2>1. SUFFICES ASSUME NEW a \in 1..c, NEW b \in 1..c, a < b
                 PROVE  f[a] < f[b]
    BY DEF Increasing
  <2>2. b # 1 /\ b - 1 \in 1..(c - 1) /\ f[b] = g[b - 1]
    BY <1>6, <1>10, <2>1
  <2>3. g[b - 1] \in R
    BY <1>9, <2>2
  <2>4. CASE a = 1
    <3>1. f[a] = m /\ m <= g[b - 1] /\ m # g[b - 1] /\ m \in Nat /\ g[b - 1] \in Nat
      BY <1>5, <2>3, <2>4
    <3>2. QED
      BY <2>2, <3>1
  <2>5. CASE a # 1
    <3>1. a - 1 \in 1..(c - 1) /\ f[a] = g[a - 1] /\ a - 1 < b - 1
      BY <1>6, <1>10, <2>1, <2>5
    <3>2. g[a - 1] < g[b - 1]
      BY <1>9, <2>2, <3>1 DEF Increasing
    <3>3. QED
      BY <2>2, <3>1, <3>2
  <2>6. QED
    BY <2>4, <2>5
<1>13. Listable(J)
  BY <1>3, <1>11, <1>12
<1>14. QED
  BY <1>3, <1>13

LEMMA AscendingProperties ==
    ASSUME NEW K \in SUBSET Nat, IsFiniteSet(K)
    PROVE  /\ Cardinality(K) \in Nat
           /\ Ascending(K) \in [1..Cardinality(K) -> K]
           /\ \A m, n \in 1..Cardinality(K) : Ascending(K)[m] = Ascending(K)[n] => m = n
           /\ \A p \in K : \E m \in 1..Cardinality(K) : Ascending(K)[m] = p
<1> DEFINE c == Cardinality(K)
           f == Ascending(K)
<1>1. c \in Nat
  BY FS_CardinalityType
<1>2. f \in [1..c -> K] /\ Increasing(f)
  BY AscendingExists DEF Ascending, Increasing
<1> HIDE DEF f
<1>3. \A m, n \in 1..c : f[m] = f[n] => m = n
  <2>1. SUFFICES ASSUME NEW m \in 1..c, NEW n \in 1..c, f[m] = f[n], m # n
                 PROVE  FALSE
    OBVIOUS
  <2>2. m \in Nat /\ n \in Nat /\ f[m] \in Nat
    <3>1. f[m] \in K /\ 1..c \subseteq Nat
      BY <1>1, <1>2
    <3>2. QED
      BY <3>1
  <2>3. m < n \/ n < m
    BY <2>1, <2>2
  <2>4. f[m] < f[n] \/ f[n] < f[m]
    BY <1>2, <2>3 DEF Increasing
  <2>5. QED
    BY <2>1, <2>2, <2>4
<1>4. IsFiniteSet(1..c) /\ Cardinality(1..c) = c
  BY <1>1, FS_Interval
<1>5. f \in Injection(1..c, K)
  BY <1>2, <1>3 DEF Injection, IsInjective
<1>6. f \in Surjection(1..c, K)
  BY <1>4, <1>5, FS_Injection
<1>7. \A p \in K : \E m \in 1..c : f[m] = p
  BY <1>6 DEF Surjection
<1>8. QED
  BY <1>1, <1>2, <1>3, <1>7 DEF f

--------------------------------------------------------------------------------
(* Lists of tabs *)

LEMMA TabsDomain ==
    ASSUME NEW s \in Seq(Tabs)
    PROVE  /\ Len(s) \in Nat /\ DOMAIN s = 1..Len(s)
           /\ \A n \in 1..Len(s) : s[n] \in Tabs
           /\ \A tab \in Elements(s) : tab \in Tabs /\ tab.id \in Nat \ {NoTab} /\ tab.page \in Items
<1>1. Len(s) \in Nat /\ DOMAIN s = 1..Len(s) /\ \A n \in 1..Len(s) : s[n] \in Tabs
  BY LenProperties, ElementOfSeq
<1>2. QED
  BY <1>1 DEF Elements, Tabs

LEMMA IdsOfElements ==
    ASSUME NEW s
    PROVE  Ids(s) = {tab.id : tab \in Elements(s)}
BY DEF Ids, Elements

\* Two tabs with an id are one.
LEMMA SameTab ==
    ASSUME NEW s, Unique(s), NEW t \in Elements(s), NEW u \in Elements(s), t.id = u.id
    PROVE  t = u
BY DEF Unique, Elements

LEMMA IndexIn ==
    ASSUME NEW s, NEW id \in Ids(s)
    PROVE  Index(s, id) \in DOMAIN s /\ s[Index(s, id)].id = id
BY DEF Ids, Index

LEMMA EmptyTabs ==
    /\ <<>> \in Seq(Tabs) /\ Unique(<<>>) /\ Elements(<<>>) = {} /\ Ids(<<>>) = {}
BY DEF Unique, Elements, Ids

LEMMA OneTab ==
    ASSUME NEW tab \in Tabs
    PROVE  <<tab>> \in Seq(Tabs) /\ Unique(<<tab>>) /\ Elements(<<tab>>) = {tab}
<1>1. <<tab>> \in Seq(Tabs) /\ DOMAIN <<tab>> = 1..1 /\ <<tab>>[1] = tab
  OBVIOUS
<1>2. \A n \in 1..1 : n = 1
  OBVIOUS
<1>3. 1 \in 1..1
  OBVIOUS
<1>4. QED
  BY <1>1, <1>2, <1>3 DEF Unique, Elements

\* A list given place by place.
LEMMA ListedTabs ==
    ASSUME NEW l \in Nat, NEW f \in [1..l -> Tabs]
    PROVE  f \in Seq(Tabs) /\ Len(f) = l
<1>1. f \in UNION {[1..n -> Tabs] : n \in Nat}
  OBVIOUS
<1>2. f \in Seq(Tabs)
  BY <1>1, SeqDef
<1>3. QED
  BY <1>2, LenProperties

LEMMA AppendTab ==
    ASSUME NEW s \in Seq(Tabs), Unique(s), NEW tab \in Tabs, tab.id \notin Ids(s)
    PROVE  /\ Append(s, tab) \in Seq(Tabs) /\ Unique(Append(s, tab))
           /\ Elements(Append(s, tab)) = Elements(s) \cup {tab}
<1> DEFINE t == Append(s, tab)
<1>1. /\ t \in Seq(Tabs) /\ Len(t) = Len(s) + 1
      /\ \A n \in 1..Len(s) : t[n] = s[n]
      /\ t[Len(s) + 1] = tab
  BY AppendProperties
<1> HIDE DEF t
<1>2. DOMAIN s = 1..Len(s) /\ DOMAIN t = 1..(Len(s) + 1) /\ Len(s) \in Nat
  BY <1>1, TabsDomain
<1>3. DOMAIN t = DOMAIN s \cup {Len(s) + 1} /\ Len(s) + 1 \notin DOMAIN s
  BY <1>2
<1>4. \A n \in DOMAIN s : s[n].id # tab.id
  BY DEF Ids
<1>5. Unique(t)
  BY <1>1, <1>2, <1>3, <1>4 DEF Unique
<1>6. Elements(t) = Elements(s) \cup {tab}
  BY <1>1, <1>2, <1>3 DEF Elements
<1>7. QED
  BY <1>1, <1>5, <1>6 DEF t

\* Lists without a common id.
LEMMA ConcatTabs ==
    ASSUME NEW s \in Seq(Tabs), Unique(s), NEW t \in Seq(Tabs), Unique(t),
           Ids(s) \cap Ids(t) = {}
    PROVE  s \o t \in Seq(Tabs) /\ Unique(s \o t) /\ Elements(s \o t) = Elements(s) \cup Elements(t)
<1> DEFINE u == s \o t
<1>1. /\ u \in Seq(Tabs) /\ Len(u) = Len(s) + Len(t)
      /\ \A n \in 1..(Len(s) + Len(t)) : u[n] = IF n <= Len(s) THEN s[n] ELSE t[n - Len(s)]
  BY ConcatProperties
<1> HIDE DEF u
<1>2. /\ DOMAIN s = 1..Len(s) /\ DOMAIN t = 1..Len(t) /\ DOMAIN u = 1..(Len(s) + Len(t))
      /\ Len(s) \in Nat /\ Len(t) \in Nat
  BY <1>1, TabsDomain
<1>3. ASSUME NEW n \in DOMAIN u
      PROVE  \/ n <= Len(s) /\ n \in DOMAIN s /\ u[n] = s[n]
             \/ n > Len(s) /\ n - Len(s) \in DOMAIN t /\ u[n] = t[n - Len(s)]
  BY <1>1, <1>2
<1>4. \A n \in DOMAIN s : n \in DOMAIN u /\ u[n] = s[n]
  BY <1>1, <1>2
<1>5. ASSUME NEW n \in DOMAIN t
      PROVE  n + Len(s) \in DOMAIN u /\ u[n + Len(s)] = t[n]
  <2>1. n + Len(s) \in 1..(Len(s) + Len(t)) /\ ~(n + Len(s) <= Len(s)) /\ (n + Len(s)) - Len(s) = n
    BY <1>2
  <2>2. QED
    BY <1>1, <1>2, <2>1
<1>6. Elements(u) = Elements(s) \cup Elements(t)
  <2>1. Elements(u) \subseteq Elements(s) \cup Elements(t)
    BY <1>3 DEF Elements
  <2>2. Elements(s) \subseteq Elements(u)
    BY <1>4 DEF Elements
  <2>3. Elements(t) \subseteq Elements(u)
    BY <1>5 DEF Elements
  <2>4. QED
    BY <2>1, <2>2, <2>3
<1>7. Unique(u)
  <2>1. SUFFICES ASSUME NEW m \in DOMAIN u, NEW n \in DOMAIN u, u[m].id = u[n].id
                 PROVE  m = n
    BY DEF Unique
  <2>2. \A k \in DOMAIN s, l \in DOMAIN t : s[k].id # t[l].id
    BY DEF Ids
  <2>3. m \in Nat /\ n \in Nat
    BY <1>2
  <2>4. CASE m <= Len(s) /\ n <= Len(s)
    <3>1. m \in DOMAIN s /\ n \in DOMAIN s /\ s[m].id = s[n].id
      BY <1>2, <1>3, <2>1, <2>3, <2>4
    <3>2. QED
      BY <3>1 DEF Unique
  <2>5. CASE m > Len(s) /\ n > Len(s)
    <3>1. /\ m - Len(s) \in DOMAIN t /\ n - Len(s) \in DOMAIN t
          /\ t[m - Len(s)].id = t[n - Len(s)].id
      BY <1>2, <1>3, <2>1, <2>3, <2>5
    <3>2. m - Len(s) = n - Len(s)
      BY <3>1 DEF Unique
    <3>3. QED
      BY <1>2, <2>3, <3>2
  <2>6. CASE m <= Len(s) /\ n > Len(s)
    BY <1>2, <1>3, <2>1, <2>2, <2>3, <2>6
  <2>7. CASE m > Len(s) /\ n <= Len(s)
    BY <1>2, <1>3, <2>1, <2>2, <2>3, <2>7
  <2>8. QED
    BY <1>2, <2>3, <2>4, <2>5, <2>6, <2>7
<1>8. QED
  BY <1>1, <1>6, <1>7 DEF u

\* A list without one of its places.
LEMMA RemovedTabs ==
    ASSUME NEW s \in Seq(Tabs), Unique(s), NEW id \in Ids(s)
    PROVE  LET t == Removed(s, Index(s, id))
           IN  /\ t \in Seq(Tabs) /\ Unique(t) /\ Len(t) = Len(s) - 1
               /\ Elements(t) = {tab \in Elements(s) : tab.id # id}
<1> DEFINE p == Index(s, id)
           t == Removed(s, p)
<1>1. DOMAIN s = 1..Len(s) /\ Len(s) \in Nat /\ \A n \in 1..Len(s) : s[n] \in Tabs
  BY TabsDomain
<1>2. p \in 1..Len(s) /\ s[p].id = id
  BY <1>1, IndexIn
<1> HIDE DEF p
<1>3. Len(s) - 1 \in Nat
  BY <1>1, <1>2
<1>4. \A k \in 1..(Len(s) - 1) : t[k] = IF k < p THEN s[k] ELSE s[k + 1]
  BY DEF Removed
<1>5. \A k \in 1..(Len(s) - 1) : k \in 1..Len(s) /\ k + 1 \in 1..Len(s) /\ k \in Nat
  BY <1>1
<1>6. t \in [1..(Len(s) - 1) -> Tabs]
  BY <1>1, <1>5 DEF Removed
<1>7. t \in Seq(Tabs) /\ Len(t) = Len(s) - 1
  BY <1>3, <1>6, ListedTabs
<1>8. DOMAIN t = 1..(Len(s) - 1)
  BY <1>6
<1> HIDE DEF t
<1> DEFINE old(k) == IF k < p THEN k ELSE k + 1
<1>9. \A k \in 1..(Len(s) - 1) : old(k) \in 1..Len(s) /\ old(k) # p /\ t[k] = s[old(k)]
  BY <1>2, <1>4, <1>5
<1>10. \A j, k \in 1..(Len(s) - 1) : old(j) = old(k) => j = k
  BY <1>2, <1>5
<1>11. ASSUME NEW n \in 1..Len(s), n # p
       PROVE  \E k \in 1..(Len(s) - 1) : old(k) = n
  <2>1. n < p \/ n > p
    BY <1>1, <1>2, <1>11
  <2>2. CASE n < p
    <3>1. n \in 1..(Len(s) - 1) /\ old(n) = n
      BY <1>1, <1>2, <2>2
    <3>2. QED
      BY <3>1
  <2>3. CASE n > p
    <3>1. n - 1 \in 1..(Len(s) - 1) /\ old(n - 1) = n
      BY <1>1, <1>2, <2>3
    <3>2. QED
      BY <3>1
  <2>4. QED
    BY <2>1, <2>2, <2>3
<1> HIDE DEF old
<1>12. Unique(t)
  <2>1. SUFFICES ASSUME NEW j \in 1..(Len(s) - 1), NEW k \in 1..(Len(s) - 1), t[j].id = t[k].id
                 PROVE  j = k
    BY <1>8 DEF Unique
  <2>2. old(j) = old(k)
    BY <1>1, <1>9, <2>1 DEF Unique
  <2>3. QED
    BY <1>10, <2>2
<1>13. Elements(t) = {tab \in Elements(s) : tab.id # id}
  <2>1. \A n \in 1..Len(s) : s[n].id = id => n = p
    BY <1>1, <1>2 DEF Unique
  <2>2. Elements(t) \subseteq {tab \in Elements(s) : tab.id # id}
    BY <1>1, <1>8, <1>9, <2>1 DEF Elements
  <2>3. {tab \in Elements(s) : tab.id # id} \subseteq Elements(t)
    <3>1. SUFFICES ASSUME NEW n \in 1..Len(s), s[n].id # id
                   PROVE  s[n] \in Elements(t)
      BY <1>1 DEF Elements
    <3>2. PICK k \in 1..(Len(s) - 1) : old(k) = n
      BY <1>2, <1>11, <3>1
    <3>3. QED
      BY <1>8, <1>9, <3>2 DEF Elements
  <2>4. QED
    BY <2>2, <2>3
<1>14. QED
  BY <1>7, <1>12, <1>13 DEF t, p

\* A list without some of its ids.
LEMMA WithoutTabs ==
    ASSUME NEW s \in Seq(Tabs), Unique(s), NEW ids
    PROVE  /\ Without(s, ids) \in Seq(Tabs) /\ Unique(Without(s, ids))
           /\ Elements(Without(s, ids)) = {tab \in Elements(s) : tab.id \notin ids}
<1> DEFINE K == {n \in DOMAIN s : s[n].id \notin ids}
           c == Cardinality(K)
           f == Ascending(K)
           t == Without(s, ids)
<1>1. DOMAIN s = 1..Len(s) /\ Len(s) \in Nat /\ \A n \in 1..Len(s) : s[n] \in Tabs
  BY TabsDomain
<1>2. K \in SUBSET Nat /\ IsFiniteSet(K)
  <2>1. IsFiniteSet(1..Len(s)) /\ K \in SUBSET (1..Len(s))
    BY <1>1, FS_Interval
  <2>2. QED
    BY <1>1, <2>1, FS_Subset
<1>3. /\ c \in Nat /\ f \in [1..c -> K]
      /\ \A m, n \in 1..c : f[m] = f[n] => m = n
      /\ \A p \in K : \E m \in 1..c : f[m] = p
  <2> HIDE DEF K
  <2>1. QED
    BY <1>2, AscendingProperties
<1>4. t = [k \in 1..c |-> s[f[k]]]
  BY DEF Without
<1> HIDE DEF t, f, c
<1>5. \A k \in 1..c : f[k] \in DOMAIN s /\ s[f[k]].id \notin ids /\ t[k] = s[f[k]] /\ t[k] \in Tabs
  BY <1>1, <1>3, <1>4
<1>6. t \in [1..c -> Tabs] /\ DOMAIN t = 1..c
  BY <1>4, <1>5
<1>7. t \in Seq(Tabs)
  BY <1>3, <1>6, ListedTabs
<1>8. Unique(t)
  BY <1>3, <1>5, <1>6 DEF Unique
<1>9. Elements(t) = {tab \in Elements(s) : tab.id \notin ids}
  <2>1. Elements(t) \subseteq {tab \in Elements(s) : tab.id \notin ids}
    BY <1>5, <1>6 DEF Elements
  <2>2. ASSUME NEW n \in DOMAIN s, s[n].id \notin ids
        PROVE  s[n] \in Elements(t)
    <3>1. PICK m \in 1..c : f[m] = n
      BY <1>3, <2>2
    <3>2. QED
      BY <1>5, <1>6, <3>1 DEF Elements
  <2>3. QED
    BY <2>1, <2>2 DEF Elements
<1>10. QED
  BY <1>7, <1>8, <1>9 DEF t

LEMMA RemoveStorageTabs ==
    ASSUME NEW s \in Seq(Tabs), Unique(s), NEW id
    PROVE  /\ RemoveStorageMenu(s, id) \in Seq(Tabs) /\ Unique(RemoveStorageMenu(s, id))
           /\ Elements(RemoveStorageMenu(s, id)) = {tab \in Elements(s) : tab.id # id}
<1>1. CASE id \in Ids(s)
  BY <1>1, RemovedTabs DEF RemoveStorageMenu
<1>2. CASE id \notin Ids(s)
  BY <1>2, IdsOfElements DEF RemoveStorageMenu
<1>3. QED
  BY <1>1, <1>2

LEMMA SetStorageTabs ==
    ASSUME NEW s \in Seq(Tabs), Unique(s), NEW tab \in Tabs
    PROVE  /\ SetStorageMenu(s, tab) \in Seq(Tabs) /\ Unique(SetStorageMenu(s, tab))
           /\ Elements(SetStorageMenu(s, tab)) = {t \in Elements(s) : t.id # tab.id} \cup {tab}
<1>1. CASE tab.id \notin Ids(s)
  <2>1. {t \in Elements(s) : t.id # tab.id} = Elements(s)
    BY <1>1, IdsOfElements
  <2>2. QED
    BY <1>1, <2>1, AppendTab DEF SetStorageMenu
<1>2. CASE tab.id \in Ids(s)
  <2> DEFINE u == [n \in DOMAIN s |-> IF s[n].id = tab.id THEN tab ELSE s[n]]
  <2>1. DOMAIN s = 1..Len(s) /\ Len(s) \in Nat /\ \A n \in 1..Len(s) : s[n] \in Tabs
    BY TabsDomain
  <2>2. u \in [1..Len(s) -> Tabs]
    BY <2>1
  <2>3. u \in Seq(Tabs)
    BY <2>1, <2>2, ListedTabs
  <2>4. \A n \in DOMAIN s : n \in DOMAIN u /\ u[n] = (IF s[n].id = tab.id THEN tab ELSE s[n]) /\ u[n].id = s[n].id
    OBVIOUS
  <2>5. DOMAIN u = DOMAIN s
    OBVIOUS
  <2>6. SetStorageMenu(s, tab) = u
    BY <1>2 DEF SetStorageMenu
  <2> HIDE DEF u
  <2>7. Unique(u)
    BY <2>4, <2>5 DEF Unique
  <2>8. Elements(u) = {t \in Elements(s) : t.id # tab.id} \cup {tab}
    <3>1. Elements(u) \subseteq {t \in Elements(s) : t.id # tab.id} \cup {tab}
      BY <2>4, <2>5 DEF Elements
    <3>2. {t \in Elements(s) : t.id # tab.id} \subseteq Elements(u)
      BY <2>4, <2>5 DEF Elements
    <3>3. tab \in Elements(u)
      BY <1>2, <2>4, <2>5 DEF Elements, Ids
    <3>4. QED
      BY <3>1, <3>2, <3>3
  <2>9. QED
    BY <2>3, <2>6, <2>7, <2>8
<1>3. QED
  BY <1>1, <1>2

--------------------------------------------------------------------------------
(* Ids of menu entries *)

\* Entries of a menu and their places in it.
LEMMA CountedItems ==
    ASSUME NEW Present \in SUBSET Items, NEW i \in Present
    PROVE  LET before == {j \in Present : Order[j] <= Order[i]}
           IN  IsFiniteSet(before) /\ Cardinality(before) \in Nat \ {0}
<1> DEFINE before == {j \in Present : Order[j] <= Order[i]}
<1>1. IsFiniteSet(before)
  BY MenuAssumption, FS_Subset
<1>2. i \in before
  <2>1. Order[i] \in Nat
    BY MenuAssumption
  <2>2. QED
    BY <2>1
<1>3. Cardinality(before) \in Nat /\ Cardinality(before) # 0
  BY <1>1, <1>2, FS_CardinalityType, FS_EmptySet
<1>4. QED
  BY <1>1, <1>3

LEMMA IdOfType ==
    ASSUME NEW i \in Listed
    PROVE  i \in Items /\ IdOf(i) \in Nat \ {0}
<1>1. Listed \in SUBSET Items
  BY DEF Listed
<1>2. QED
  BY <1>1, CountedItems DEF IdOf

\* When every sub-menu has been appended, the place counted is the one in the
\* complete menu.
LEMMA FullMenu ==
    ASSUME TypeOK, menu = "listed", Pending = {}, NEW i
    PROVE  IdOf(i) = FullId(i)
<1>1. appended = Parents
  BY DEF TypeOK, Pending
<1>2. \A j \in Items : Parent[j] \in Parents \cup {NoItem}
  BY MenuAssumption DEF Parents
<1>3. Listed = Items
  BY <1>1, <1>2 DEF Listed
<1>4. QED
  BY <1>3 DEF IdOf, FullId

LEMMA FullIdOrder ==
    ASSUME NEW i \in Items, NEW j \in Items, Order[i] < Order[j]
    PROVE  FullId(i) # FullId(j)
<1> DEFINE upTo(k) == {l \in Items : Order[l] <= Order[k]}
<1>1. IsFiniteSet(upTo(j))
  BY MenuAssumption, FS_Subset
<1>2. \A k \in Items : Order[k] \in Nat
  BY MenuAssumption
<1>3. upTo(i) \in SUBSET upTo(j)
  BY <1>2
<1>4. j \in upTo(j) /\ j \notin upTo(i)
  BY <1>2
<1> HIDE DEF upTo
<1>5. Cardinality(upTo(j)) # Cardinality(upTo(i))
  BY <1>1, <1>3, <1>4, FS_Subset
<1>6. QED
  BY <1>5 DEF FullId, upTo

LEMMA FullIdInjective ==
    ASSUME NEW i \in Items, NEW j \in Items, FullId(i) = FullId(j)
    PROVE  i = j
<1>1. Order[i] \in Nat /\ Order[j] \in Nat
  BY MenuAssumption
<1>2. Order[i] = Order[j]
  BY <1>1, FullIdOrder
<1>3. QED
  BY <1>2, MenuAssumption

--------------------------------------------------------------------------------
(* Parts of the invariant *)

MenuTypeOK ==
    /\ menu \in {"loading", "listed", "failed", "none"}
    /\ appended \subseteq Parents /\ open \subseteq appended
MarkTypeOK ==
    /\ active \in Nat /\ cur \in Nat /\ popup \in Nat /\ bits \subseteq Nat
    /\ restored \in BOOLEAN /\ early \in BOOLEAN
ListsInv ==
    /\ strip \in Seq(Tabs) /\ Unique(strip)
    /\ stored \in Seq(Tabs) /\ Unique(stored)
    /\ OpenTabsAreStored
MarksInv == ActiveRemembered /\ PopupNamesTab

LEMMA InvParts ==
    TypeOK /\ TabsInv <=> MenuTypeOK /\ MarkTypeOK /\ ListsInv /\ MarksInv /\ StoredIds
BY DEF TypeOK, TabsInv, IdsAreUnique, Unique, MenuTypeOK, MarkTypeOK, ListsInv, MarksInv

LEMMA InvPartsNext ==
    TypeOK' /\ TabsInv' <=> MenuTypeOK' /\ MarkTypeOK' /\ ListsInv' /\ MarksInv' /\ StoredIds'
BY DEF TypeOK, TabsInv, IdsAreUnique, Unique, MenuTypeOK, MarkTypeOK, ListsInv, MarksInv

LEMMA MenuTypeKept ==
    ASSUME MenuTypeOK, UNCHANGED menuVars
    PROVE  MenuTypeOK'
BY DEF MenuTypeOK, menuVars

\* The ids on the strip are numbers other than NoTab.
LEMMA IdsType ==
    ASSUME NEW s \in Seq(Tabs), NEW id \in Ids(s)
    PROVE  id \in Nat /\ id # NoTab
BY IdsOfElements, TabsDomain

LEMMA TabsInit ==
    ASSUME Init
    PROVE  TypeOK /\ TabsInv
<1>1. strip = <<>> /\ stored = <<>>
  BY DEF Init
<1>2. ListsInv /\ StoredIds
  BY <1>1, EmptyTabs DEF ListsInv, OpenTabsAreStored, StoredIds
<1>3. MarksInv
  BY <1>1, EmptyTabs DEF Init, MarksInv, ActiveRemembered, PopupNamesTab
<1>4. MenuTypeOK /\ MarkTypeOK
  BY DEF Init, MenuTypeOK, MarkTypeOK, NoTab
<1>5. QED
  BY <1>2, <1>3, <1>4, InvParts

--------------------------------------------------------------------------------
(* Steps *)

LEMMA TabsMenu ==
    ASSUME TypeOK, TabsInv,
           \/ MenuArrives \/ MenuFails \/ AlertDismissed
           \/ \E i \in Items : SubMenuAppended(i) \/ Toggle(i)
    PROVE  TypeOK' /\ TabsInv'
<1>1. UNCHANGED tabVars
  BY DEF MenuArrives, MenuFails, AlertDismissed, SubMenuAppended, Toggle
<1>2. MenuTypeOK'
  BY DEF MenuArrives, MenuFails, AlertDismissed, SubMenuAppended, Toggle, Pending, TypeOK, MenuTypeOK
<1>3. MarkTypeOK' /\ ListsInv' /\ MarksInv' /\ StoredIds'
  <2>1. /\ strip' = strip /\ stored' = stored /\ active' = active /\ cur' = cur /\ bits' = bits
        /\ popup' = popup /\ restored' = restored /\ early' = early
    BY <1>1 DEF tabVars
  <2>2. MarkTypeOK /\ ListsInv /\ MarksInv /\ StoredIds
    BY InvParts
  <2>3. MarkTypeOK' /\ ListsInv'
    BY <2>1, <2>2 DEF MarkTypeOK, ListsInv, OpenTabsAreStored
  <2>4. MarksInv' /\ StoredIds'
    BY <2>1, <2>2 DEF MarksInv, ActiveRemembered, PopupNamesTab, StoredIds
  <2>5. QED
    BY <2>3, <2>4
<1>4. QED
  BY <1>2, <1>3, InvPartsNext

\* The lists stay as they are.
LEMMA TabsShown ==
    ASSUME TypeOK, TabsInv,
           \/ \E id \in Ids(strip) : ClickTitle(id) \/ RightClick(id)
           \/ PopupFresh
    PROVE  TypeOK' /\ TabsInv'
<1>1. /\ strip' = strip /\ stored' = stored /\ restored' = restored /\ early' = early
      /\ UNCHANGED menuVars
  BY DEF ClickTitle, RightClick, PopupFresh
<1>2. MenuTypeOK' /\ ListsInv' /\ StoredIds'
  <2>1. MenuTypeOK'
    BY <1>1, InvParts, MenuTypeKept
  <2>2. ListsInv'
    BY <1>1, InvParts DEF ListsInv, OpenTabsAreStored
  <2>3. StoredIds'
    BY <1>1, InvParts DEF StoredIds
  <2>4. QED
    BY <2>1, <2>2, <2>3
<1>3. strip \in Seq(Tabs) /\ MarkTypeOK /\ ActiveRemembered /\ PopupNamesTab
  BY InvParts DEF ListsInv, MarksInv
<1>4. ASSUME NEW id \in Ids(strip), ClickTitle(id)
      PROVE  MarkTypeOK' /\ MarksInv'
  <2>1. id \in Nat /\ id # NoTab
    BY <1>3, IdsType
  <2>2. active' = id /\ cur' = id /\ bits' = bits \cup {id} /\ popup' = NoTab
    BY <1>4 DEF ClickTitle, Activate
  <2>3. MarksInv'
    BY <1>1, <2>1, <2>2 DEF MarksInv, ActiveRemembered, PopupNamesTab
  <2>4. QED
    BY <1>1, <1>3, <2>1, <2>2, <2>3 DEF MarkTypeOK, NoTab
<1>5. ASSUME NEW id \in Ids(strip), RightClick(id)
      PROVE  MarkTypeOK' /\ MarksInv'
  <2>1. id \in Nat
    BY <1>3, IdsType
  <2>2. active' = active /\ cur' = cur /\ bits' = bits /\ popup' = id
    BY <1>5 DEF RightClick
  <2>3. MarksInv'
    BY <1>1, <1>3, <2>2 DEF MarksInv, ActiveRemembered, PopupNamesTab
  <2>4. QED
    BY <1>1, <1>3, <2>1, <2>2, <2>3 DEF MarkTypeOK
<1>6. ASSUME PopupFresh
      PROVE  MarkTypeOK' /\ MarksInv'
  <2>1. popup \in Ids(strip)
    BY <1>3, <1>6 DEF PopupFresh, PopupNamesTab
  <2>2. popup \in Nat /\ popup # NoTab
    BY <1>3, <2>1, IdsType
  <2>3. active' = popup /\ cur' = popup /\ bits' = bits /\ popup' = NoTab
    BY <1>6, <2>1 DEF PopupFresh, TabChange, Activate
  <2>4. MarksInv'
    BY <1>1, <2>1, <2>2, <2>3 DEF MarksInv, ActiveRemembered, PopupNamesTab
  <2>5. QED
    BY <1>1, <1>3, <2>2, <2>3, <2>4 DEF MarkTypeOK, NoTab
<1>7. MarkTypeOK' /\ MarksInv'
  BY <1>4, <1>5, <1>6
<1>8. QED
  BY <1>2, <1>7, InvPartsNext

LEMMA TabsOpened ==
    ASSUME TypeOK, TabsInv, NEW i \in Items, OpenPage(i)
    PROVE  TypeOK' /\ TabsInv'
<1> DEFINE tab == [id |-> IdOf(i), page |-> i]
<1>1. i \in Listed /\ menu = "listed"
  BY DEF OpenPage, Clickable, Listed
<1>2. tab \in Tabs /\ tab.id = IdOf(i) /\ tab.page = i /\ tab.id # NoTab
  BY <1>1, IdOfType DEF Tabs, NoTab
<1>3. /\ UNCHANGED menuVars /\ bits' = bits /\ popup' = popup /\ restored' = restored
      /\ active' = tab.id /\ cur' = tab.id
      /\ early' = (early \/ Pending # {})
      /\ IF tab.id \in Ids(strip)
           THEN UNCHANGED <<strip, stored>>
           ELSE strip' = Append(strip, tab) /\ stored' = SetStorageMenu(stored, tab)
  BY DEF OpenPage, Activate
<1>4. ~early' => tab.id = FullId(tab.page)
  BY <1>1, <1>2, <1>3, FullMenu
<1> HIDE DEF tab
<1>5. MenuTypeOK' /\ MarkTypeOK'
  BY <1>2, <1>3, InvParts, MenuTypeKept DEF MarkTypeOK, Tabs
<1>6. ListsInv /\ MarksInv /\ StoredIds
  BY InvParts
<1>7. CASE tab.id \in Ids(strip)
  <2>1. strip' = strip /\ stored' = stored
    BY <1>3, <1>7
  <2>2. ListsInv'
    BY <1>3, <1>6, <2>1 DEF ListsInv, OpenTabsAreStored
  <2>3. MarksInv'
    BY <1>2, <1>3, <1>6, <1>7, <2>1 DEF MarksInv, ActiveRemembered, PopupNamesTab
  <2>4. StoredIds'
    BY <1>3, <1>6, <2>1 DEF StoredIds
  <2>5. QED
    BY <1>5, <2>2, <2>3, <2>4, InvPartsNext
<1>8. CASE tab.id \notin Ids(strip)
  <2>1. /\ strip' \in Seq(Tabs) /\ Unique(strip')
        /\ Elements(strip') = Elements(strip) \cup {tab}
    BY <1>2, <1>3, <1>6, <1>8, AppendTab DEF ListsInv
  <2>2. /\ stored' \in Seq(Tabs) /\ Unique(stored')
        /\ Elements(stored') = {t \in Elements(stored) : t.id # tab.id} \cup {tab}
    BY <1>2, <1>3, <1>6, <1>8, SetStorageTabs DEF ListsInv
  <2>3. \A t \in Elements(strip) : t.id # tab.id
    BY <1>8, IdsOfElements
  <2>4. OpenTabsAreStored'
    <3>1. Elements(strip') \subseteq Elements(stored')
      BY <1>6, <2>1, <2>2, <2>3 DEF ListsInv, OpenTabsAreStored
    <3>2. restored' => Elements(stored') \subseteq Elements(strip')
      BY <1>3, <1>6, <2>1, <2>2 DEF ListsInv, OpenTabsAreStored
    <3>3. QED
      BY <3>1, <3>2 DEF OpenTabsAreStored
  <2>5. Ids(strip') = Ids(strip) \cup {tab.id}
    BY <2>1, IdsOfElements
  <2>6. MarksInv'
    BY <1>2, <1>3, <1>6, <2>5 DEF MarksInv, ActiveRemembered, PopupNamesTab
  <2>7. StoredIds'
    BY <1>3, <1>4, <1>6, <2>2 DEF StoredIds
  <2>8. QED
    BY <1>5, <2>1, <2>2, <2>4, <2>6, <2>7, InvPartsNext DEF ListsInv
<1>9. QED
  BY <1>7, <1>8

\* layui shows a tab that stays, if there is one.
LEMMA NeighbourTab ==
    ASSUME NEW id \in Ids(strip), strip \in Seq(Tabs), Unique(strip)
    PROVE  LET next == Neighbour(Index(strip, id))
           IN  \/ next = NoTab /\ Ids(strip) = {id}
               \/ next # NoTab /\ next \in Ids(strip) \ {id}
<1> DEFINE p == Index(strip, id)
<1>1. DOMAIN strip = 1..Len(strip) /\ Len(strip) \in Nat
  BY TabsDomain
<1>2. p \in 1..Len(strip) /\ strip[p].id = id
  BY <1>1, IndexIn
<1> HIDE DEF p
<1>3. ASSUME NEW n \in 1..Len(strip), n # p
      PROVE  strip[n].id # NoTab /\ strip[n].id \in Ids(strip) \ {id}
  <2>1. strip[n].id \in Ids(strip)
    BY <1>1 DEF Ids
  <2>2. strip[n].id # id
    BY <1>1, <1>2, <1>3 DEF Unique
  <2>3. QED
    BY <2>1, <2>2, IdsType
<1>4. CASE p < Len(strip)
  <2>1. p + 1 \in 1..Len(strip) /\ p + 1 # p /\ Neighbour(p) = strip[p + 1].id
    BY <1>1, <1>2, <1>4 DEF Neighbour
  <2>2. QED
    BY <1>3, <2>1 DEF p
<1>5. CASE ~(p < Len(strip)) /\ p > 1
  <2>1. p - 1 \in 1..Len(strip) /\ p - 1 # p /\ Neighbour(p) = strip[p - 1].id
    BY <1>1, <1>2, <1>5 DEF Neighbour
  <2>2. QED
    BY <1>3, <2>1 DEF p
<1>6. CASE ~(p < Len(strip)) /\ ~(p > 1)
  <2>1. Neighbour(p) = NoTab
    BY <1>6 DEF Neighbour
  <2>2. \A n \in DOMAIN strip : n = p
    BY <1>1, <1>2, <1>6
  <2>3. Ids(strip) = {id}
    BY <1>1, <1>2, <2>2 DEF Ids
  <2>4. QED
    BY <2>1, <2>3 DEF p
<1>7. QED
  BY <1>4, <1>5, <1>6

\* A tab is closed, by its icon or by the popup.
LEMMA TabsClosed ==
    ASSUME TypeOK, TabsInv,
           NEW id, TabDelete(id), stored' = RemoveStorageMenu(stored, id), popup' = NoTab,
           UNCHANGED <<menuVars, restored, early>>
    PROVE  TypeOK' /\ TabsInv'
<1>1. ListsInv /\ MarksInv /\ StoredIds /\ MarkTypeOK /\ MenuTypeOK
  BY InvParts
<1>2. /\ id \in Ids(strip) /\ strip \in Seq(Tabs) /\ Unique(strip)
      /\ stored \in Seq(Tabs) /\ Unique(stored)
  BY <1>1 DEF TabDelete, ListsInv
<1>3. /\ strip' \in Seq(Tabs) /\ Unique(strip')
      /\ Elements(strip') = {tab \in Elements(strip) : tab.id # id}
  BY <1>2, RemovedTabs DEF TabDelete
<1>4. /\ stored' \in Seq(Tabs) /\ Unique(stored')
      /\ Elements(stored') = {tab \in Elements(stored) : tab.id # id}
  BY <1>2, RemoveStorageTabs
<1>5. OpenTabsAreStored'
  BY <1>1, <1>3, <1>4 DEF ListsInv, OpenTabsAreStored
<1>6. Ids(strip') = Ids(strip) \ {id}
  BY <1>3, IdsOfElements
<1> DEFINE next == Neighbour(Index(strip, id))
<1>7. \/ next = NoTab /\ Ids(strip) = {id}
      \/ next # NoTab /\ next \in Ids(strip) \ {id}
  BY <1>2, NeighbourTab
<1>8. /\ active' = IF id = active THEN next ELSE active
      /\ cur' = IF id = active /\ active' # NoTab THEN active' ELSE cur
      /\ bits' = bits \ {id}
  BY DEF TabDelete
<1> HIDE DEF next
<1>9. id # NoTab /\ next \in Nat
  BY <1>2, <1>7, IdsType DEF NoTab
<1>10. ActiveRemembered'
  <2>1. CASE id = active
    BY <1>6, <1>7, <1>8, <2>1 DEF ActiveRemembered
  <2>2. CASE id # active
    BY <1>1, <1>6, <1>8, <2>2 DEF MarksInv, ActiveRemembered
  <2>3. QED
    BY <2>1, <2>2
<1>11. MarksInv'
  BY <1>10 DEF MarksInv, PopupNamesTab
<1>12. MarkTypeOK'
  BY <1>1, <1>8, <1>9 DEF MarkTypeOK, NoTab
<1>13. StoredIds'
  BY <1>1, <1>4 DEF StoredIds
<1>14. MenuTypeOK'
  BY <1>1, MenuTypeKept
<1>15. QED
  BY <1>3, <1>4, <1>5, <1>11, <1>12, <1>13, <1>14, InvPartsNext DEF ListsInv

LEMMA TabsOther ==
    ASSUME TypeOK, TabsInv, PopupOther
    PROVE  TypeOK' /\ TabsInv'
<1> DEFINE kept == strip[Index(strip, popup)]
           gone == Ids(strip) \ {popup}
<1>1. ListsInv /\ MarksInv /\ StoredIds /\ MarkTypeOK /\ MenuTypeOK
  BY InvParts
<1>2. /\ popup \in Ids(strip) /\ strip \in Seq(Tabs) /\ Unique(strip)
      /\ stored \in Seq(Tabs) /\ Unique(stored)
  BY <1>1 DEF PopupOther, ListsInv, MarksInv, PopupNamesTab
<1>3. /\ strip' = <<kept>> /\ stored' = Without(stored, gone)
      /\ bits' = bits \cap {popup} /\ popup' = NoTab
      /\ IF active \in gone THEN active' = popup /\ cur' = popup ELSE UNCHANGED <<active, cur>>
      /\ UNCHANGED <<menuVars, restored, early>>
  BY DEF PopupOther, Activate
<1>4. kept \in Elements(strip) /\ kept \in Tabs /\ kept.id = popup
  <2>1. Index(strip, popup) \in DOMAIN strip /\ kept.id = popup
    BY <1>2, IndexIn
  <2>2. QED
    BY <1>2, <2>1, TabsDomain DEF Elements
<1> HIDE DEF kept
<1>5. strip' \in Seq(Tabs) /\ Unique(strip') /\ Elements(strip') = {kept}
  BY <1>3, <1>4, OneTab
<1>6. /\ stored' \in Seq(Tabs) /\ Unique(stored')
      /\ Elements(stored') = {tab \in Elements(stored) : tab.id \notin gone}
  BY <1>2, <1>3, WithoutTabs
<1>7. OpenTabsAreStored'
  <2>1. kept \in Elements(stored')
    BY <1>1, <1>4, <1>6 DEF ListsInv, OpenTabsAreStored
  <2>2. ASSUME restored', NEW tab \in Elements(stored')
        PROVE  tab = kept
    <3>1. tab \in Elements(strip) /\ tab.id \notin gone
      BY <1>1, <1>3, <1>6, <2>2 DEF ListsInv, OpenTabsAreStored
    <3>2. tab.id = popup
      BY <3>1, IdsOfElements
    <3>3. QED
      BY <1>2, <1>4, <3>1, <3>2, SameTab
  <2>3. QED
    BY <1>5, <2>1, <2>2 DEF OpenTabsAreStored
<1>8. Ids(strip') = {popup}
  BY <1>4, <1>5, IdsOfElements
<1>9. popup # NoTab /\ popup \in Nat
  BY <1>2, IdsType
<1>10. MarksInv'
  <2>1. ActiveRemembered'
    BY <1>1, <1>2, <1>3, <1>8, <1>9 DEF MarksInv, ActiveRemembered
  <2>2. QED
    BY <1>3, <2>1 DEF MarksInv, PopupNamesTab
<1>11. MarkTypeOK'
  BY <1>1, <1>3, <1>9 DEF MarkTypeOK, NoTab
<1>12. StoredIds'
  BY <1>1, <1>3, <1>6 DEF StoredIds
<1>13. MenuTypeOK'
  BY <1>1, <1>3, MenuTypeKept
<1>14. QED
  BY <1>5, <1>6, <1>7, <1>10, <1>11, <1>12, <1>13, InvPartsNext DEF ListsInv

LEMMA TabsAll ==
    ASSUME TypeOK, TabsInv, PopupAll
    PROVE  TypeOK' /\ TabsInv'
<1>1. ListsInv /\ MarksInv /\ MarkTypeOK /\ MenuTypeOK
  BY InvParts
<1>2. /\ strip' = <<>> /\ stored' = <<>> /\ bits' = {} /\ active' = NoTab /\ popup' = NoTab
      /\ cur' = IF active = NoTab THEN cur ELSE strip[Len(strip)].id
      /\ UNCHANGED <<menuVars, restored, early>>
  BY DEF PopupAll
<1>3. cur' \in Nat
  <2>1. CASE active = NoTab
    BY <1>1, <1>2, <2>1 DEF MarkTypeOK
  <2>2. CASE active # NoTab
    <3>1. active \in Ids(strip) /\ strip \in Seq(Tabs)
      BY <1>1, <2>2 DEF MarksInv, ActiveRemembered, ListsInv
    <3>2. DOMAIN strip = 1..Len(strip) /\ Len(strip) \in Nat
      BY <3>1, TabsDomain
    <3>3. Len(strip) \in DOMAIN strip
      BY <3>1, <3>2 DEF Ids
    <3>4. strip[Len(strip)].id \in Ids(strip)
      BY <3>3 DEF Ids
    <3>5. QED
      BY <1>2, <2>2, <3>1, <3>4, IdsType
  <2>3. QED
    BY <2>1, <2>2
<1>4. ListsInv' /\ StoredIds'
  BY <1>2, EmptyTabs DEF ListsInv, OpenTabsAreStored, StoredIds
<1>5. MarksInv'
  BY <1>2, EmptyTabs DEF MarksInv, ActiveRemembered, PopupNamesTab
<1>6. MarkTypeOK' /\ MenuTypeOK'
  BY <1>1, <1>2, <1>3, MenuTypeKept DEF MarkTypeOK, NoTab
<1>7. QED
  BY <1>4, <1>5, <1>6, InvPartsNext

\* The tab that is remembered when the loop is over.
LEMMA LastReopenedTab ==
    ASSUME strip \in Seq(Tabs), stored \in Seq(Tabs)
    PROVE  LastReopened = cur \/ LastReopened \in Ids(strip)
<1> DEFINE there == {n \in DOMAIN stored : stored[n].id \in Ids(strip)}
<1>1. CASE there = {}
  BY <1>1 DEF LastReopened
<1>2. CASE there # {}
  <2>1. there \in SUBSET (1..Len(stored)) /\ Len(stored) \in Nat
    BY TabsDomain
  <2>2. \E n \in there : \A k \in there : k <= n
    <3> HIDE DEF there
    <3>1. QED
      BY <1>2, <2>1, GreatestElement
  <2>3. LastReopened = stored[CHOOSE n \in there : \A k \in there : k <= n].id
    BY <1>2 DEF LastReopened
  <2>4. QED
    BY <2>2, <2>3
<1>3. QED
  BY <1>1, <1>2

LEMMA TabsRestored ==
    ASSUME TypeOK, TabsInv, Restore
    PROVE  TypeOK' /\ TabsInv'
<1> DEFINE more == Without(stored, Ids(strip))
<1>1. ListsInv /\ MarksInv /\ StoredIds /\ MarkTypeOK /\ MenuTypeOK
  BY InvParts
<1>2. /\ strip \in Seq(Tabs) /\ Unique(strip) /\ stored \in Seq(Tabs) /\ Unique(stored)
      /\ Elements(strip) \subseteq Elements(stored)
  BY <1>1 DEF ListsInv, OpenTabsAreStored
<1>3. /\ strip' = strip \o more /\ cur' = LastReopened
      /\ active' = IF LastReopened \in Ids(strip') THEN LastReopened ELSE active
      /\ stored' = stored /\ bits' = bits /\ popup' = popup /\ early' = early /\ restored' = TRUE
      /\ UNCHANGED menuVars
  BY DEF Restore
<1>4. /\ more \in Seq(Tabs) /\ Unique(more)
      /\ Elements(more) = {tab \in Elements(stored) : tab.id \notin Ids(strip)}
  BY <1>2, WithoutTabs
<1> HIDE DEF more
<1>5. Ids(strip) \cap Ids(more) = {}
  BY <1>4, IdsOfElements
<1>6. strip' \in Seq(Tabs) /\ Unique(strip') /\ Elements(strip') = Elements(strip) \cup Elements(more)
  BY <1>2, <1>3, <1>4, <1>5, ConcatTabs
<1>7. Elements(strip') = Elements(stored)
  <2>1. ASSUME NEW tab \in Elements(stored), tab.id \in Ids(strip)
        PROVE  tab \in Elements(strip)
    <3>1. PICK t \in Elements(strip) : t.id = tab.id
      BY <2>1, IdsOfElements
    <3>2. QED
      BY <1>2, <3>1, SameTab
  <2>2. QED
    BY <1>2, <1>4, <1>6, <2>1
<1>8. ListsInv'
  BY <1>2, <1>3, <1>6, <1>7 DEF ListsInv, OpenTabsAreStored
<1>9. Ids(strip) \subseteq Ids(strip')
  BY <1>6, IdsOfElements
<1>10. LastReopened = cur \/ LastReopened \in Ids(strip)
  BY <1>2, LastReopenedTab
<1>11. ActiveRemembered'
  <2>1. CASE LastReopened \in Ids(strip')
    <3>1. LastReopened # NoTab
      BY <1>6, <2>1, IdsType
    <3>2. QED
      BY <1>3, <2>1, <3>1 DEF ActiveRemembered
  <2>2. CASE LastReopened \notin Ids(strip')
    <3>1. cur' = cur /\ cur \notin Ids(strip) /\ cur \notin Ids(strip') /\ active' = active
      BY <1>3, <1>9, <1>10, <2>2
    <3>2. active = NoTab
      BY <1>1, <3>1 DEF MarksInv, ActiveRemembered
    <3>3. QED
      BY <3>1, <3>2 DEF ActiveRemembered
  <2>3. QED
    BY <2>1, <2>2
<1>12. MarksInv'
  BY <1>1, <1>3, <1>9, <1>11 DEF MarksInv, PopupNamesTab
<1>13. MarkTypeOK'
  <2>1. LastReopened \in Nat
    BY <1>1, <1>2, <1>10, IdsType DEF MarkTypeOK
  <2>2. QED
    BY <1>1, <1>3, <2>1 DEF MarkTypeOK
<1>14. StoredIds' /\ MenuTypeOK'
  BY <1>1, <1>3, MenuTypeKept DEF StoredIds
<1>15. QED
  BY <1>8, <1>12, <1>13, <1>14, InvPartsNext

LEMMA TabsLoaded ==
    ASSUME TypeOK, TabsInv, Load
    PROVE  TypeOK' /\ TabsInv'
<1>1. ListsInv /\ StoredIds /\ MarkTypeOK
  BY InvParts
<1>2. /\ menu' = "loading" /\ appended' = {} /\ open' = {}
      /\ strip' = <<>> /\ active' = NoTab /\ bits' = {} /\ popup' = NoTab /\ restored' = FALSE
      /\ stored' = stored /\ cur' = cur /\ early' = early
  BY DEF Load
<1>3. ListsInv' /\ StoredIds'
  BY <1>1, <1>2, EmptyTabs DEF ListsInv, OpenTabsAreStored, StoredIds
<1>4. MarksInv'
  BY <1>2, EmptyTabs DEF MarksInv, ActiveRemembered, PopupNamesTab
<1>5. MarkTypeOK' /\ MenuTypeOK'
  BY <1>1, <1>2 DEF MarkTypeOK, MenuTypeOK, NoTab
<1>6. QED
  BY <1>3, <1>4, <1>5, InvPartsNext

LEMMA TabsNext ==
    ASSUME TypeOK, TabsInv, [PageNext]_pageVars
    PROVE  TypeOK' /\ TabsInv'
<1>1. CASE Background \/ AlertDismissed
  BY <1>1, TabsMenu, TabsRestored DEF Background
<1>2. CASE Strip
  <2>1. ASSUME NEW id \in Ids(strip), ClickClose(id)
        PROVE  TypeOK' /\ TabsInv'
    BY <2>1, TabsClosed DEF ClickClose
  <2>2. CASE PopupCurrent
    BY <2>2, TabsClosed DEF PopupCurrent
  <2>3. QED
    BY <1>2, <2>1, <2>2, TabsShown, TabsOther, TabsAll DEF Strip
<1>3. CASE MenuClick
  BY <1>3, TabsMenu, TabsOpened DEF MenuClick
<1>4. CASE Load
  BY <1>4, TabsLoaded
<1>5. CASE UNCHANGED vars
  BY <1>5 DEF vars, menuVars, tabVars, TypeOK, TabsInv, IdsAreUnique, OpenTabsAreStored,
              ActiveRemembered, PopupNamesTab, StoredIds
<1>6. QED
  BY <1>1, <1>2, <1>3, <1>4, <1>5 DEF PageNext, pageVars

--------------------------------------------------------------------------------
(* The navigation *)

LEMMA NavQueue ==
    ASSUME NavTypeOK
    PROVE  /\ Len(queue) \in Nat /\ DOMAIN queue = 1..Len(queue)
           /\ queue # <<>> => Len(queue) > 0 /\ Head(queue) = queue[1] /\ Head(queue) \in Ends
           /\ MaxQueue \in Nat
<1>1. queue \in Seq(Ends)
  BY DEF NavTypeOK
<1>2. Len(queue) \in Nat /\ DOMAIN queue = 1..Len(queue)
  BY <1>1, LenProperties
<1>3. queue # <<>> => Len(queue) > 0 /\ Head(queue) = queue[1] /\ Head(queue) \in Ends
  BY <1>1, HeadTailProperties, EmptySeq
<1>4. QED
  BY <1>2, <1>3, QueueAssumption

LEMMA AnimateQueue ==
    ASSUME NavTypeOK, NEW end \in Ends, Animate(end)
    PROVE  queue' \in Seq(Ends) /\ Len(queue') <= MaxQueue /\ Bound' = end
<1>1. queue \in Seq(Ends)
  BY DEF NavTypeOK
<1>2. /\ queue' \in Seq(Ends) /\ queue' # <<>> /\ Len(queue') = Len(queue) + 1
      /\ queue'[Len(queue) + 1] = end
  BY <1>1, AppendProperties DEF Animate
<1>3. Len(queue') <= MaxQueue
  BY <1>2, NavQueue DEF Animate
<1>4. Bound' = end
  BY <1>2 DEF Bound
<1>5. QED
  BY <1>2, <1>3, <1>4

\* The frames of an animation do not change where the navigation comes to rest.
LEMMA FrameBound ==
    ASSUME NavTypeOK, Frame
    PROVE  NavTypeOK' /\ Bound' = Bound
<1>1. /\ queue # <<>> /\ queue \in Seq(Ends) /\ Len(queue) <= MaxQueue /\ mask \in BOOLEAN
      /\ mask' = mask
  BY DEF Frame, NavTypeOK
<1>2. CASE navAt # Head(queue) /\ navAt' = "between" /\ queue' = queue
  BY <1>1, <1>2 DEF NavTypeOK, Bound
<1>3. CASE navAt' = Head(queue) /\ queue' = Tail(queue)
  <2>1. /\ Head(queue) \in Ends /\ queue' \in Seq(Ends) /\ Len(queue') = Len(queue) - 1
        /\ \A n \in 1..Len(queue') : queue'[n] = queue[n + 1]
    BY <1>1, <1>3, HeadTailProperties
  <2>2. Len(queue) \in Nat /\ Len(queue) > 0 /\ MaxQueue \in Nat /\ Head(queue) = queue[1]
    BY <1>1, NavQueue
  <2>3. Len(queue') <= MaxQueue
    BY <1>1, <2>1, <2>2
  <2>4. CASE queue' = <<>>
    <3>1. Len(queue') = 0
      BY <2>4
    <3>2. Len(queue) = 1
      BY <2>1, <2>2, <3>1
    <3>3. QED
      BY <1>1, <1>3, <2>1, <2>2, <2>3, <2>4, <3>2 DEF NavTypeOK, Bound
  <2>5. CASE queue' # <<>>
    <3>1. Len(queue') > 0
      BY <2>1, <2>5, EmptySeq
    <3>2. Len(queue') \in 1..Len(queue') /\ Len(queue') + 1 = Len(queue)
      BY <2>1, <2>2, <3>1
    <3>3. queue'[Len(queue')] = queue[Len(queue)]
      BY <2>1, <3>2
    <3>4. QED
      BY <1>1, <1>3, <2>1, <2>3, <2>5, <3>3 DEF NavTypeOK, Bound
  <2>6. QED
    BY <2>4, <2>5
<1>4. QED
  BY <1>2, <1>3 DEF Frame

NavInv == NavTypeOK /\ MaskMeansNav

LEMMA NavStep ==
    ASSUME NavInv, NavNext
    PROVE  NavInv'
<1>0. "shown" \in Ends /\ "hidden" \in Ends
  BY DEF Ends
<1>1. CASE ToggleHide
  BY <1>0, <1>1, AnimateQueue DEF ToggleHide, NavInv, NavTypeOK, MaskMeansNav
<1>2. ASSUME NEW narrow \in BOOLEAN, ToggleShow(narrow)
      PROVE  NavInv'
  BY <1>0, <1>2, AnimateQueue DEF ToggleShow, NavInv, NavTypeOK, MaskMeansNav
<1>3. CASE ClickMask
  BY <1>0, <1>3, AnimateQueue DEF ClickMask, NavInv, NavTypeOK, MaskMeansNav
<1>4. CASE Frame
  <2>1. mask' = mask
    BY <1>4 DEF Frame
  <2>2. QED
    BY <1>4, <2>1, FrameBound DEF NavInv, MaskMeansNav
<1>5. QED
  BY <1>1, <1>2, <1>3, <1>4 DEF NavNext

LEMMA NavPage ==
    ASSUME NavInv, [PageNext]_pageVars
    PROVE  NavInv'
<1>1. CASE UNCHANGED navVars
  BY <1>1 DEF navVars, NavInv, NavTypeOK, MaskMeansNav, Bound
<1>2. CASE NavNext
  BY <1>2, NavStep
<1>3. CASE navAt' = "shown" /\ queue' = <<>> /\ mask' = FALSE
  <2>1. queue' \in Seq(Ends) /\ Len(queue') = 0
    BY <1>3
  <2>2. Len(queue') <= MaxQueue
    BY <2>1, QueueAssumption
  <2>3. QED
    BY <1>3, <2>1, <2>2 DEF NavInv, NavTypeOK, MaskMeansNav, Ends
<1>4. QED
  BY <1>1, <1>2, <1>3 DEF PageNext, pageVars

--------------------------------------------------------------------------------
(* Results *)

PageInv == TypeOK /\ TabsInv /\ NavInv

LEMMA PageInitial ==
    ASSUME PageInit
    PROVE  PageInv
<1>1. queue = <<>> /\ queue \in Seq(Ends) /\ Len(queue) = 0 /\ navAt = "shown" /\ mask = FALSE
  BY DEF PageInit, NavInit
<1>2. Len(queue) <= MaxQueue
  BY <1>1, QueueAssumption
<1>3. NavInv
  BY <1>1, <1>2 DEF NavInv, NavTypeOK, MaskMeansNav, Ends
<1>4. QED
  BY <1>3, TabsInit DEF PageInit, PageInv

LEMMA PageStep ==
    ASSUME PageInv, [PageNext]_pageVars
    PROVE  PageInv'
BY TabsNext, NavPage DEF PageInv

LEMMA PageInvariant == PageSpec => []PageInv
<1>1. PageInit => PageInv
  BY PageInitial
<1>2. PageInv /\ [PageNext]_pageVars => PageInv'
  BY PageStep
<1>3. QED
  BY <1>1, <1>2, PTL DEF PageSpec

\* The state of the frame page keeps its types, for every menu: the ids of the tabs
\* that admin.js writes to the strip and to sessionStorage are never the NoTab that
\* stands for none.
THEOREM PageTypeOKCorrect == PageSpec => []PageTypeOK
<1>1. PageInv => PageTypeOK
  BY DEF PageInv, PageTypeOK, NavInv
<1>2. QED
  BY <1>1, PageInvariant, PTL

\* tabAdd, tabDelete, the popup's commands and the delayed restore keep what is on
\* the strip in sessionStorage, and nothing else once the restore has run.
THEOREM OpenTabsCorrect == PageSpec => []OpenTabsAreStored
<1>1. PageInv => OpenTabsAreStored
  BY DEF PageInv, TabsInv
<1>2. QED
  BY <1>1, PageInvariant, PTL

\* The listener of layui's tab event remembers the active tab, also the neighbour
\* layui chooses when a tab is closed and the one the restore ends with.
THEOREM ActiveCorrect == PageSpec => []ActiveRemembered
<1>1. PageInv => ActiveRemembered
  BY DEF PageInv, TabsInv
<1>2. QED
  BY <1>1, PageInvariant, PTL

\* setStorageMenu and tabAdd look an id up before they add it, and the restore meets
\* tabs opened before it: no id is ever on the strip, or in the store, twice.
THEOREM IdsUniqueCorrect == PageSpec => []IdsAreUnique
<1>1. PageInv => IdsAreUnique
  BY DEF PageInv, TabsInv
<1>2. QED
  BY <1>1, PageInvariant, PTL

\* Every way a tab can go, a load of the page included, hides the popup that
\* CustomRightClick has shown for it.
THEOREM PopupCorrect == PageSpec => []PopupNamesTab
<1>1. PageInv => PopupNamesTab
  BY DEF PageInv, TabsInv
<1>2. QED
  BY <1>1, PageInvariant, PTL

\* However the clicks on left_open and on the mask fall into the queued animations,
\* the mask is only shown while the navigation comes to rest on screen.
THEOREM MaskCorrect == PageSpec => []MaskMeansNav
<1>1. PageInv => MaskMeansNav
  BY DEF PageInv, NavInv
<1>2. QED
  BY <1>1, PageInvariant, PTL

LEMMA ClickedShown ==
    ASSUME PageInv, PageInv', NEW i \in Items, OpenPage(i), ~early'
    PROVE  Shown' = i
<1>1. menu = "listed" /\ i \in Listed
  BY DEF OpenPage, Clickable, Listed
<1>2. active' = IdOf(i) /\ Pending = {}
  BY DEF OpenPage, Activate
<1>3. active' = FullId(i)
  BY <1>1, <1>2, FullMenu DEF PageInv
<1>4. active' # NoTab
  BY <1>1, <1>2, IdOfType DEF NoTab
<1>5. active' \in Ids(strip')
  BY <1>4 DEF PageInv, TabsInv, ActiveRemembered
<1> DEFINE p == Index(strip', active')
<1>6. p \in DOMAIN strip' /\ strip'[p].id = active'
  BY <1>5, IndexIn
<1> HIDE DEF p
<1>7. strip'[p] \in Elements(stored')
  BY <1>6 DEF PageInv, TabsInv, OpenTabsAreStored, Elements
<1>8. strip'[p].id = FullId(strip'[p].page)
  BY <1>7 DEF PageInv, TabsInv, StoredIds
<1>9. strip'[p].page \in Items
  <2>1. stored' \in Seq(Tabs)
    BY DEF PageInv, TypeOK
  <2>2. QED
    BY <1>7, <2>1, TabsDomain
<1>10. strip'[p].page = i
  BY <1>3, <1>6, <1>8, <1>9, FullIdInjective
<1>11. QED
  BY <1>5, <1>10 DEF Shown, p

\* A click on a menu entry shows its page, over closings, restores and loads of the
\* page, for every menu: while no page was opened before the menu was complete, the
\* ids on the strip and in sessionStorage are the places in the complete menu.
THEOREM ClickCorrect == PageSpec => ClickShowsPage
<1>1. PageInv /\ PageInv' /\ [PageNext]_pageVars
        => [\A i \in Items : OpenPage(i) /\ ~early' => Shown' = i]_pageVars
  BY ClickedShown
<1>2. QED
  BY <1>1, PageInvariant, PTL DEF PageSpec, ClickShowsPage

================================================================================
