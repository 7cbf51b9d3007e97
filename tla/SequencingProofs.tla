--------------------------- MODULE SequencingProofs ---------------------------
(***************************************************************************)
(* What sortedWith and filter make of the rows of a course, for any number *)
(* of rows, and from it the two promises of SequencingService.compose: the *)
(* manifest is exact, and an edit moves nothing but what it touches.       *)
(*                                                                         *)
(* No induction over the rows is needed: the place of an asset is the      *)
(* number of those that come before it, and that is injective into, hence  *)
(* onto, the places there are.                                             *)
(***************************************************************************)
EXTENDS Sequencing, FiniteSetTheorems, TLAPS

-----------------------------------------------------------------------------
(* Sorted.                                                                 *)

Sortable(S, order) ==
    /\ IsFiniteSet(S)
    /\ S \subseteq Int
    /\ \A a \in S : order[a] \in Int

\* Those that come before a.
Below(S, order, a) == {b \in S : Before(order, b, a)}

\* Before is a strict total order, as a comparator has to be.
LEMMA BeforeIsOrder ==
    ASSUME NEW S, NEW order, Sortable(S, order)
    PROVE  /\ \A a \in S : ~Before(order, a, a)
           /\ \A a, b, c \in S : Before(order, a, b) /\ Before(order, b, c) => Before(order, a, c)
           /\ \A a, b \in S : a # b => Before(order, a, b) \/ Before(order, b, a)
           /\ \A a, b \in S : ~(Before(order, a, b) /\ Before(order, b, a))
BY DEF Sortable, Before

LEMMA BelowIsFinite ==
    ASSUME NEW S, NEW order, Sortable(S, order), NEW a \in S
    PROVE  /\ IsFiniteSet(Below(S, order, a))
           /\ Cardinality(Below(S, order, a)) \in 0..(Cardinality(S) - 1)
<1>1. Below(S, order, a) \subseteq S \ {a}
  BY BeforeIsOrder DEF Below
<1>2. /\ IsFiniteSet(S \ {a})
      /\ Cardinality(S \ {a}) = Cardinality(S) - 1
  BY FS_RemoveElement DEF Sortable
<1>3. /\ IsFiniteSet(Below(S, order, a))
      /\ Cardinality(Below(S, order, a)) <= Cardinality(S) - 1
  BY <1>1, <1>2, FS_Subset
<1> QED
  BY <1>3, FS_CardinalityType DEF Sortable

LEMMA BelowGrows ==
    ASSUME NEW S, NEW order, Sortable(S, order),
           NEW a \in S, NEW b \in S, Before(order, a, b)
    PROVE  Cardinality(Below(S, order, a)) < Cardinality(Below(S, order, b))
<1>1. Below(S, order, a) \subseteq Below(S, order, b)
  BY BeforeIsOrder DEF Below
<1>2. a \in Below(S, order, b) /\ a \notin Below(S, order, a)
  BY BeforeIsOrder DEF Below
<1>3. /\ IsFiniteSet(Below(S, order, b))
      /\ Cardinality(Below(S, order, a)) \in Nat
      /\ Cardinality(Below(S, order, b)) \in Nat
  BY BelowIsFinite
<1>4. /\ Cardinality(Below(S, order, a)) <= Cardinality(Below(S, order, b))
      /\ Cardinality(Below(S, order, a)) # Cardinality(Below(S, order, b))
  BY <1>1, <1>2, <1>3, FS_Subset
<1> QED
  BY <1>3, <1>4

\* Every place is taken, by one.
LEMMA OneForEachPlace ==
    ASSUME NEW S, NEW order, Sortable(S, order), NEW i \in 1..Cardinality(S)
    PROVE  /\ \E a \in S : Cardinality(Below(S, order, a)) = i - 1
           /\ \A a, b \in S : /\ Cardinality(Below(S, order, a)) = i - 1
                              /\ Cardinality(Below(S, order, b)) = i - 1
                              => a = b
<1> DEFINE n == Cardinality(S)
           place == [a \in S |-> Cardinality(Below(S, order, a)) + 1]
<1>1. n \in Nat /\ IsFiniteSet(1..n) /\ Cardinality(1..n) = n
  BY FS_CardinalityType, FS_Interval DEF Sortable
<1>2. place \in [S -> 1..n]
  BY <1>1, BelowIsFinite
<1>3. ASSUME NEW a \in S, NEW b \in S, place[a] = place[b]
      PROVE  a = b
  <2>1. /\ Cardinality(Below(S, order, a)) \in Int
        /\ Cardinality(Below(S, order, b)) \in Int
    BY <1>1, BelowIsFinite
  <2>2. Cardinality(Below(S, order, a)) = Cardinality(Below(S, order, b))
    BY <1>3, <2>1
  <2>3. ~Before(order, a, b) /\ ~Before(order, b, a)
    BY <2>1, <2>2, BelowGrows
  <2> QED
    BY <2>3, BeforeIsOrder
<1>4. place \in Injection(S, 1..n)
  BY <1>2, <1>3 DEF Injection, IsInjective
<1>5. place \in Surjection(S, 1..n)
  BY <1>1, <1>4, FS_Injection
<1>6. PICK a \in S : place[a] = i
  BY <1>5 DEF Surjection
<1>7. Cardinality(Below(S, order, a)) = i - 1
  BY <1>1, <1>6, BelowIsFinite
<1>8. \A b, c \in S : Cardinality(Below(S, order, b)) = Cardinality(Below(S, order, c)) => b = c
  BY <1>3
<1> QED
  BY <1>7, <1>8

LEMMA SortedPlaces ==
    ASSUME NEW S, NEW order, Sortable(S, order)
    PROVE  /\ Sorted(S, order) \in [1..Cardinality(S) -> S]
           /\ \A i \in 1..Cardinality(S) :
                 Cardinality(Below(S, order, Sorted(S, order)[i])) = i - 1
<1> SUFFICES ASSUME NEW i \in 1..Cardinality(S)
             PROVE  LET a == CHOOSE a \in S : Cardinality(Below(S, order, a)) = i - 1
                    IN a \in S /\ Cardinality(Below(S, order, a)) = i - 1
  BY DEF Sorted, Below
<1> QED
  BY OneForEachPlace

\* Sorted lists each element of S once, each before the next ones.
LEMMA SortedIsSorted ==
    ASSUME NEW S, NEW order, Sortable(S, order)
    PROVE  /\ Cardinality(S) \in Nat
           /\ Sorted(S, order) \in [1..Cardinality(S) -> S]
           /\ \A a \in S : \E i \in 1..Cardinality(S) : Sorted(S, order)[i] = a
           /\ \A i, j \in 1..Cardinality(S) :
                 i < j => Before(order, Sorted(S, order)[i], Sorted(S, order)[j])
<1> DEFINE n == Cardinality(S)
           s == Sorted(S, order)
<1>1. /\ n \in Nat
      /\ s \in [1..n -> S]
      /\ \A i \in 1..n : Cardinality(Below(S, order, s[i])) = i - 1
  BY SortedPlaces, FS_CardinalityType DEF Sortable
<1> HIDE DEF s
<1>2. ASSUME NEW a \in S
      PROVE  \E i \in 1..n : s[i] = a
  <2> DEFINE i == Cardinality(Below(S, order, a)) + 1
  <2>1. i \in 1..n /\ Cardinality(Below(S, order, a)) = i - 1
    BY <1>1, BelowIsFinite
  <2>2. s[i] \in S /\ Cardinality(Below(S, order, s[i])) = i - 1
    BY <1>1, <2>1
  <2> QED
    BY <2>1, <2>2, OneForEachPlace
<1>3. ASSUME NEW i \in 1..n, NEW j \in 1..n, i < j
      PROVE  Before(order, s[i], s[j])
  <2>1. s[i] \in S /\ s[j] \in S
    BY <1>1
  <2>2. Cardinality(Below(S, order, s[i])) < Cardinality(Below(S, order, s[j]))
    BY <1>1, <1>3
  <2>3. s[i] # s[j]
    BY <1>1, <1>3
  <2>4. ~Before(order, s[j], s[i])
    <3>1. Before(order, s[j], s[i]) =>
             Cardinality(Below(S, order, s[j])) < Cardinality(Below(S, order, s[i]))
      BY <2>1, BelowGrows
    <3> QED
      BY <3>1, <1>1, <1>3
  <2> QED
    BY <2>1, <2>3, <2>4, BeforeIsOrder
<1> QED
  BY <1>1, <1>2, <1>3 DEF s

\* There is no other such list.
LEMMA SortedIsUnique ==
    ASSUME NEW S, NEW order, Sortable(S, order),
           NEW n \in Nat, NEW t \in [1..n -> S],
           \A a \in S : \E i \in 1..n : t[i] = a,
           \A i, j \in 1..n : i < j => Before(order, t[i], t[j])
    PROVE  t = Sorted(S, order)
<1>1. ASSUME NEW i \in 1..n, NEW j \in 1..n, t[i] = t[j]
      PROVE  i = j
  <2>1. ~(i < j) /\ ~(j < i)
    BY <1>1, BeforeIsOrder
  <2> QED
    BY <2>1
<1>2. Cardinality(S) = n
  <2>1. t \in Bijection(1..n, S)
    BY <1>1 DEF Bijection, Injection, Surjection, IsInjective
  <2> QED
    BY <2>1, FS_CountingElements DEF ExistsBijection
<1>3. ASSUME NEW i \in 1..n
      PROVE  Cardinality(Below(S, order, t[i])) = i - 1
  <2> DEFINE u == [j \in 1..(i - 1) |-> t[j]]
             B == Below(S, order, t[i])
  <2>1. \A j \in 1..(i - 1) : j \in 1..n /\ j < i
    OBVIOUS
  <2>2. u \in [1..(i - 1) -> B]
    BY <2>1 DEF Below
  <2>3. ASSUME NEW b \in B
        PROVE  \E j \in 1..(i - 1) : u[j] = b
    <3>1. b \in S /\ Before(order, b, t[i])
      BY <2>3 DEF Below
    <3>2. PICK j \in 1..n : t[j] = b
      BY <3>1
    <3>3. j # i /\ ~(i < j)
      BY <3>1, <3>2, BeforeIsOrder
    <3>4. j \in 1..(i - 1)
      BY <3>3
    <3> QED
      BY <3>2, <3>4
  <2>4. \A j, k \in 1..(i - 1) : u[j] = u[k] => j = k
    BY <1>1, <2>1
  <2>5. u \in Bijection(1..(i - 1), B)
    BY <2>2, <2>3, <2>4 DEF Bijection, Injection, Surjection, IsInjective
  <2>6. i - 1 \in Nat
    OBVIOUS
  <2> QED
    BY <2>5, <2>6, FS_CountingElements DEF ExistsBijection
<1>4. ASSUME NEW i \in 1..n
      PROVE  t[i] = Sorted(S, order)[i]
  <2>1. Cardinality(Below(S, order, Sorted(S, order)[i])) = i - 1 /\ Sorted(S, order)[i] \in S
    BY <1>2, SortedPlaces
  <2> QED
    BY <1>2, <1>3, <2>1, OneForEachPlace
<1> QED
  BY <1>2, <1>4, SortedPlaces

\* The order of what is not in S does not matter.
LEMMA SortedAgrees ==
    ASSUME NEW S, NEW f, NEW g, Sortable(S, f), \A a \in S : f[a] = g[a]
    PROVE  Sorted(S, f) = Sorted(S, g)
<1>1. Sortable(S, g)
  BY DEF Sortable
<1>2. \A a, b \in S : Before(f, a, b) = Before(g, a, b)
  BY DEF Before
<1>3. /\ Cardinality(S) \in Nat
      /\ Sorted(S, f) \in [1..Cardinality(S) -> S]
      /\ \A a \in S : \E i \in 1..Cardinality(S) : Sorted(S, f)[i] = a
      /\ \A i, j \in 1..Cardinality(S) :
            i < j => Before(f, Sorted(S, f)[i], Sorted(S, f)[j])
  BY SortedIsSorted
<1>4. \A i, j \in 1..Cardinality(S) :
         i < j => Before(g, Sorted(S, f)[i], Sorted(S, f)[j])
  BY <1>2, <1>3
<1> QED
  BY <1>1, <1>3, <1>4, SortedIsUnique

-----------------------------------------------------------------------------
(* Filter.                                                                 *)

\* Filtering a sorted list sorts what is left.
LEMMA FilterSorted ==
    ASSUME NEW S, NEW order, Sortable(S, order), NEW T
    PROVE  Filter(Sorted(S, order), T) = Sorted(S \cap T, order)
<1> DEFINE s == Sorted(S, order)
           n == Cardinality(S)
           places == {i \in DOMAIN s : s[i] \in T}
           ident == [i \in places |-> i]
           kept == Sorted(places, ident)
           m == Cardinality(places)
           f == Filter(s, T)
<1>1. /\ n \in Nat
      /\ s \in [1..n -> S]
      /\ \A a \in S : \E i \in 1..n : s[i] = a
      /\ \A i, j \in 1..n : i < j => Before(order, s[i], s[j])
  BY SortedIsSorted
<1> HIDE DEF s
<1>2. places \subseteq 1..n
  BY <1>1
<1>3. Sortable(places, ident)
  <2>1. IsFiniteSet(1..n)
    BY <1>1, FS_Interval
  <2> QED
    BY <1>1, <1>2, <2>1, FS_Subset DEF Sortable
<1>4. \A i, j \in places : Before(ident, i, j) => i < j
  BY <1>2 DEF Before
<1>5. /\ m \in Nat
      /\ kept \in [1..m -> places]
      /\ \A i \in places : \E k \in 1..m : kept[k] = i
      /\ \A k, l \in 1..m : k < l => Before(ident, kept[k], kept[l])
  <2> HIDE DEF places, ident
  <2> QED
    BY <1>3, SortedIsSorted
<1>6. f = [k \in 1..m |-> s[kept[k]]]
  BY <1>5 DEF Filter
<1> HIDE DEF kept, m, f
<1>7. f \in [1..m -> S \cap T]
  BY <1>1, <1>5, <1>6
<1>8. ASSUME NEW a \in S \cap T
      PROVE  \E k \in 1..m : f[k] = a
  <2>1. PICK i \in 1..n : s[i] = a
    BY <1>1
  <2>2. i \in places
    BY <1>1, <2>1
  <2>3. PICK k \in 1..m : kept[k] = i
    BY <1>5, <2>2
  <2> QED
    BY <1>6, <2>1, <2>3
<1>9. ASSUME NEW k \in 1..m, NEW l \in 1..m, k < l
      PROVE  Before(order, f[k], f[l])
  <2>1. kept[k] \in 1..n /\ kept[l] \in 1..n /\ kept[k] < kept[l]
    BY <1>2, <1>4, <1>5, <1>9
  <2> QED
    BY <1>1, <1>6, <2>1
<1>10. Sortable(S \cap T, order)
  BY FS_Subset DEF Sortable
<1>11. f = Sorted(S \cap T, order)
  <2> DEFINE U == S \cap T
  <2>1. /\ m \in Nat /\ f \in [1..m -> U]
        /\ \A a \in U : \E k \in 1..m : f[k] = a
        /\ \A k, l \in 1..m : k < l => Before(order, f[k], f[l])
        /\ Sortable(U, order)
    BY <1>5, <1>7, <1>8, <1>9, <1>10
  <2> HIDE DEF U
  <2>2. f = Sorted(U, order)
    BY <2>1, SortedIsUnique
  <2> QED
    BY <2>2 DEF U
<1> QED
  BY <1>11 DEF f, s

-----------------------------------------------------------------------------
(* The tables.                                                             *)

\* A course is created without rows, and an edit adds one at most.
TablesInv == TablesOK /\ \A c \in DOMAIN rows : IsFiniteSet(DOMAIN rows[c])

LEMMA TablesInit == InitTables => TablesInv
BY FS_EmptySet DEF InitTables, TablesInv, TablesOK

LEMMA EditOfCourse ==
    ASSUME TablesInv, NEW c \in Course, EditCourse(c)
    PROVE  TablesInv'
<1> USE DEF TablesInv, TablesOK, Exists
<1>1. CASE CreateCourse(c)
  BY <1>1, FS_EmptySet DEF CreateCourse, With
<1>2. CASE DeleteCourse(c)
  BY <1>2 DEF DeleteCourse, Restrict
<1>3. ASSUME NEW a \in Asset, NEW o \in SortOrder, Link(c, a, o)
      PROVE  TablesInv'
  <2>1. /\ DOMAIN rows' = DOMAIN rows /\ license' = license
        /\ rows'[c] = With(rows[c], a, o) /\ c \in DOMAIN rows
        /\ \A d \in DOMAIN rows \ {c} : rows'[d] = rows[d]
    BY <1>3 DEF Link
  <2>2. IsFiniteSet(DOMAIN rows'[c])
    <3>1. DOMAIN rows'[c] = DOMAIN rows[c] \cup {a}
      BY <2>1 DEF With
    <3> QED
      BY <2>1, <3>1, FS_AddElement
  <2>3. DOMAIN rows'[c] \subseteq Asset /\ \A b \in DOMAIN rows'[c] : rows'[c][b] \in SortOrder
    BY <2>1 DEF With
  <2> QED
    BY <2>1, <2>2, <2>3
<1>4. ASSUME NEW a \in Asset, Unlink(c, a)
      PROVE  TablesInv'
  <2>1. /\ DOMAIN rows' = DOMAIN rows /\ license' = license
        /\ rows'[c] = Restrict(rows[c], DOMAIN rows[c] \ {a}) /\ c \in DOMAIN rows
        /\ \A d \in DOMAIN rows \ {c} : rows'[d] = rows[d]
    BY <1>4 DEF Unlink
  <2>2. IsFiniteSet(DOMAIN rows'[c])
    BY <2>1, FS_RemoveElement DEF Restrict
  <2> QED
    BY <2>1, <2>2 DEF Restrict
<1> QED
  BY <1>1, <1>2, <1>3, <1>4 DEF EditCourse

LEMMA EditOfTables ==
    ASSUME TablesInv, Edit
    PROVE  TablesInv'
<1>1. CASE EditAsset
  BY <1>1 DEF EditAsset, SetLicense, TablesInv, TablesOK
<1> QED
  BY <1>1, EditOfCourse DEF Edit

-----------------------------------------------------------------------------
(* What compose makes of them.                                             *)

\* The assets of a list of the manifest.
Wanted(order, lic, kind) ==
    {a \in DOMAIN order : lic[a] \notin {"null", "blank"} /\ a \in Asset /\ Kind[a] = kind}

Rows(order) ==
    /\ IsFiniteSet(DOMAIN order)
    /\ DOMAIN order \subseteq Asset
    /\ \A a \in DOMAIN order : order[a] \in SortOrder

LEMMA RowsAreSortable ==
    ASSUME NEW order, Rows(order), NEW S, S \subseteq DOMAIN order
    PROVE  Sortable(S, order)
BY TablesAssumption, FS_Subset DEF Rows, Sortable

LEMMA ListIsSorted ==
    ASSUME NEW order, Rows(order), NEW lic, NEW kind
    PROVE  /\ Filter(Sorted({a \in DOMAIN order : lic[a] \notin {"null", "blank"}}, order),
                     {a \in Asset : Kind[a] = kind})
                = Sorted(Wanted(order, lic, kind), order)
           /\ Sortable(Wanted(order, lic, kind), order)
<1> DEFINE S == {a \in DOMAIN order : lic[a] \notin {"null", "blank"}}
           T == {a \in Asset : Kind[a] = kind}
<1>1. Sortable(S, order) /\ Sortable(Wanted(order, lic, kind), order)
  BY RowsAreSortable DEF Wanted
<1>2. S \cap T = Wanted(order, lic, kind)
  BY DEF Wanted
<1> HIDE DEF S, T
<1>3. Filter(Sorted(S, order), T) = Sorted(S \cap T, order)
  BY <1>1, FilterSorted
<1> QED
  BY <1>1, <1>2, <1>3 DEF S, T

LEMMA TablesHoldRows ==
    ASSUME TablesInv, NEW c \in DOMAIN rows
    PROVE  Rows(rows[c])
BY DEF TablesInv, TablesOK, Rows

LEMMA LayersAreSorted ==
    ASSUME TablesInv, NEW c \in DOMAIN rows, NEW kind
    PROVE  /\ Layers(rows[c], kind) = Sorted(Wanted(rows[c], license, kind), rows[c])
           /\ Sortable(Wanted(rows[c], license, kind), rows[c])
BY TablesHoldRows, ListIsSorted DEF Layers, Licensed, HasLicense

\* The manifest of every course is exact, however many rows and assets there are
\* (SequencingService.kt:37-52).
LEMMA ManifestsAreExact == TablesInv => ManifestIsExact
<1> SUFFICES ASSUME TablesInv PROVE ManifestIsExact
  OBVIOUS
<1>1. ASSUME NEW c \in DOMAIN rows, NEW kind \in KnownKinds
      PROVE  LET list == Layers(rows[c], kind)
                 wanted == {a \in DOMAIN rows[c] :
                              Kind[a] = kind /\ license[a] \notin {"null", "blank"}}
             IN /\ ToSet(list) = wanted
                /\ \A i, j \in 1..Len(list) : i < j => Before(rows[c], list[i], list[j])
  <2> DEFINE list == Layers(rows[c], kind)
             S == Wanted(rows[c], license, kind)
  <2>1. S = {a \in DOMAIN rows[c] : Kind[a] = kind /\ license[a] \notin {"null", "blank"}}
    BY DEF Wanted, TablesInv, TablesOK
  <2>2. list = Sorted(S, rows[c]) /\ Sortable(S, rows[c])
    BY LayersAreSorted
  <2> HIDE DEF list, S
  <2>3. /\ Cardinality(S) \in Nat
        /\ list \in [1..Cardinality(S) -> S]
        /\ \A a \in S : \E i \in 1..Cardinality(S) : list[i] = a
        /\ \A i, j \in 1..Cardinality(S) : i < j => Before(rows[c], list[i], list[j])
    BY <2>2, SortedIsSorted
  <2>4. Len(list) = Cardinality(S) /\ ToSet(list) = S
    BY <2>3 DEF ToSet
  <2> QED
    BY <2>1, <2>3, <2>4 DEF list
<1> QED
  BY <1>1 DEF ManifestIsExact, Compose, Exists, KnownKinds, Before

\* What two states of the tables agree on is listed alike by both.
LEMMA UntouchedListedAlike ==
    ASSUME NEW f, NEW g, Rows(f), Rows(g), NEW before, NEW after, NEW kind, NEW U,
           \A a \in U : /\ a \in DOMAIN f <=> a \in DOMAIN g
                        /\ a \in DOMAIN f => f[a] = g[a]
                        /\ before[a] = after[a]
    PROVE  Filter(Sorted(Wanted(f, before, kind), f), U)
              = Filter(Sorted(Wanted(g, after, kind), g), U)
<1> DEFINE V == Wanted(f, before, kind)
           W == Wanted(g, after, kind)
<1>1. Sortable(V, f) /\ Sortable(W, g)
  BY RowsAreSortable DEF Wanted
<1>2. V \cap U = W \cap U /\ \A a \in V \cap U : f[a] = g[a]
  BY DEF Wanted
<1>3. Sortable(V \cap U, f)
  BY RowsAreSortable DEF Wanted
<1> HIDE DEF V, W
<1>4. Filter(Sorted(V, f), U) = Sorted(V \cap U, f)
  BY <1>1, FilterSorted
<1>5. Filter(Sorted(W, g), U) = Sorted(W \cap U, g)
  BY <1>1, FilterSorted
<1>6. Sorted(V \cap U, f) = Sorted(V \cap U, g)
  BY <1>2, <1>3, SortedAgrees
<1> QED
  BY <1>2, <1>4, <1>5, <1>6 DEF V, W

\* Whatever becomes of the tables in a step, the layers of what the step does
\* not touch stay in the manifest, in their order (SequencingService.kt:12).
LEMMA EditsMoveNothingElse == TablesInv /\ TablesInv' => UntouchedKeepTheirOrder
<1> SUFFICES ASSUME TablesInv, TablesInv'
             PROVE  UntouchedKeepTheirOrder
  OBVIOUS
<1>1. ASSUME NEW c \in DOMAIN rows \cap DOMAIN rows', NEW kind
      PROVE  Filter(Layers(rows[c], kind), Asset \ Touched(c))
                = Filter(Layers(rows[c], kind)', Asset \ Touched(c))
  <2> DEFINE U == Asset \ Touched(c)
  <2>1. /\ Rows(rows[c])
        /\ Layers(rows[c], kind) = Sorted(Wanted(rows[c], license, kind), rows[c])
    BY TablesHoldRows, LayersAreSorted
  <2>2. /\ Rows(rows'[c])
        /\ Layers(rows[c], kind)' = Sorted(Wanted(rows'[c], license', kind), rows'[c])
    <3>1. Rows(rows'[c])
      BY DEF TablesInv, TablesOK, Rows
    <3> QED
      BY <3>1, ListIsSorted DEF Layers, Licensed, HasLicense
  <2>3. \A a \in U : /\ a \in DOMAIN rows[c] <=> a \in DOMAIN rows'[c]
                     /\ a \in DOMAIN rows[c] => rows[c][a] = rows'[c][a]
                     /\ license[a] = license'[a]
    BY DEF Touched
  <2> HIDE DEF U
  <2>4. Filter(Sorted(Wanted(rows[c], license, kind), rows[c]), U)
           = Filter(Sorted(Wanted(rows'[c], license', kind), rows'[c]), U)
    BY <2>1, <2>2, <2>3, UntouchedListedAlike
  <2> QED
    BY <2>1, <2>2, <2>4 DEF U
<1>2. ASSUME NEW c \in DOMAIN rows \cap DOMAIN rows', NEW i \in 1..3
      PROVE  Filter(LayersOf(Compose(c))[i], Asset \ Touched(c))
                = Filter(LayersOf(Compose(c)')[i], Asset \ Touched(c))
  <2>1. /\ LayersOf(Compose(c)) = <<Layers(rows[c], "video_loop"),
                                    Layers(rows[c], "music"),
                                    Layers(rows[c], "ambient")>>
        /\ LayersOf(Compose(c)') = <<Layers(rows[c], "video_loop")',
                                     Layers(rows[c], "music")',
                                     Layers(rows[c], "ambient")'>>
    BY DEF LayersOf, Compose, Exists
  <2>2. i = 1 \/ i = 2 \/ i = 3
    OBVIOUS
  <2> QED
    BY <1>1, <2>1, <2>2
<1> QED
  BY <1>2 DEF UntouchedKeepTheirOrder

=============================================================================
