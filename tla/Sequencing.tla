----------------------------- MODULE Sequencing -----------------------------
(***************************************************************************)
(* How SequencingService.compose turns the rows of a course into a session *)
(* manifest, and edits of the tables that change its input.  There is no   *)
(* editor in the program yet.  The edits are those of the rows, the sort   *)
(* orders and the licenses, which decide what is in a manifest and where;  *)
(* changes of an asset's kind or of a row's gain or curve, and new or      *)
(* deleted assets, are left out.                                           *)
(*                                                                         *)
(* A layer is reduced to its asset; url, gain and curve are functions of   *)
(* the row and the asset, and are carried along unchanged.                 *)
(***************************************************************************)
EXTENDS Integers, Sequences, FiniteSets, SequencesExt

CONSTANTS Course,      \* ids that are asked for, whether they exist or not
          Asset,       \* asset ids
          Kind,        \* the kind column of each asset
          License,     \* values of the license column that an editor uses
          SortOrder,   \* values of the sort_order column
          NotFound     \* not a manifest: CourseNotFoundException

KnownKinds == {"video_loop", "music", "ambient"}

ASSUME TablesAssumption ==
    /\ Asset \subseteq Int
    /\ SortOrder \subseteq Int
    /\ Kind \in [Asset -> KnownKinds \cup {"other"}]
    /\ License \subseteq {"null", "blank", "approved", "unapproved"}

VARIABLES rows,      \* course_assets: for each course that exists, the sort
                     \* order of the assets it links (a partial function)
          license    \* assets.license

tables == <<rows, license>>

\* The partial function f with v at x.
With(f, x, v) == [y \in DOMAIN f \cup {x} |-> IF y = x THEN v ELSE f[y]]

-----------------------------------------------------------------------------
\* Mutant of HasLicense: isNull instead of isNullOrBlank.
HasLicense_NullOnly(a) == license[a] # "null"

\* it.asset.license.isNullOrBlank()
HasLicense(a) == license[a] \notin {"null", "blank"}

\* compareBy({ it.sortOrder }, { it.id.assetId })
Before(order, a, b) ==
    \/ order[a] < order[b]
    \/ order[a] = order[b] /\ a < b

\* sortedWith: at place i stands the one that i - 1 of the others come before.
Sorted(S, order) ==
    [i \in 1..Cardinality(S) |->
        CHOOSE a \in S : Cardinality({b \in S : Before(order, b, a)}) = i - 1]

\* filter: the members of s that are in T, still in the order of s.
Filter(s, T) ==
    LET places == {i \in DOMAIN s : s[i] \in T}
        kept   == Sorted(places, [i \in places |-> i])
    IN [k \in DOMAIN kept |-> s[kept[k]]]

\* Mutant of Licensed: one unlicensed asset empties the manifest.
Licensed_AllOrNothing(order) ==
    Sorted(IF \A a \in DOMAIN order : HasLicense(a) THEN DOMAIN order ELSE {}, order)

Licensed(order) == Sorted({a \in DOMAIN order : HasLicense(a)}, order)

Layers(order, kind) == Filter(Licensed(order), {a \in Asset : Kind[a] = kind})

Exists(c) == c \in DOMAIN rows

\* What compose(c) returns, or throws, if it reads the tables now.
Compose(c) ==
    IF Exists(c)
      THEN [courseId |-> c,
            video    |-> Layers(rows[c], "video_loop"),
            music    |-> Layers(rows[c], "music"),
            ambient  |-> Layers(rows[c], "ambient")]
      ELSE NotFound

-----------------------------------------------------------------------------
InitTables ==
    /\ rows = [c \in {} |-> <<>>]
    /\ license \in [Asset -> License]

CreateCourse(c) ==
    /\ ~Exists(c)
    /\ rows' = With(rows, c, [a \in {} |-> 0])
    /\ UNCHANGED license

\* ON DELETE CASCADE takes the course's rows along.
DeleteCourse(c) ==
    /\ Exists(c)
    /\ rows' = Restrict(rows, DOMAIN rows \ {c})
    /\ UNCHANGED license

\* INSERT, or UPDATE of sort_order: (course_id, asset_id) is the primary key.
Link(c, a, o) ==
    /\ Exists(c)
    /\ rows' = [rows EXCEPT ![c] = With(@, a, o)]
    /\ UNCHANGED license

Unlink(c, a) ==
    /\ Exists(c)
    /\ a \in DOMAIN rows[c]
    /\ rows' = [rows EXCEPT ![c] = Restrict(@, DOMAIN @ \ {a})]
    /\ UNCHANGED license

SetLicense(a, l) ==
    /\ license' = [license EXCEPT ![a] = l]
    /\ UNCHANGED rows

EditCourse(c) ==
    \/ CreateCourse(c)
    \/ DeleteCourse(c)
    \/ \E a \in Asset, o \in SortOrder : Link(c, a, o)
    \/ \E a \in Asset : Unlink(c, a)

EditAsset == \E a \in Asset, l \in License : SetLicense(a, l)

Edit == (\E c \in Course : EditCourse(c)) \/ EditAsset

-----------------------------------------------------------------------------
TablesOK ==
    /\ DOMAIN rows \subseteq Course
    /\ \A c \in DOMAIN rows :
          /\ DOMAIN rows[c] \subseteq Asset
          /\ \A a \in DOMAIN rows[c] : rows[c][a] \in SortOrder
    /\ license \in [Asset -> License]

LayersOf(m) == <<m.video, m.music, m.ambient>>

\* Of a course that exists the manifest holds every linked, licensed asset of
\* a known kind exactly once, in the list of its kind, and no other asset, and
\* each list is strictly ordered by sort order and then asset id
\* (SequencingService.kt:37-52; "deterministic ordering, ties by assetId").
ManifestIsExact ==
    \A c \in DOMAIN rows :
        LET m == Compose(c)
            listOf == [video_loop |-> m.video, music |-> m.music, ambient |-> m.ambient]
            wanted(k) == {a \in DOMAIN rows[c] :
                            Kind[a] = k /\ license[a] \notin {"null", "blank"}}
        IN \A k \in KnownKinds :
              /\ ToSet(listOf[k]) = wanted(k)
              /\ \A i, j \in 1..Len(listOf[k]) : i < j =>
                    LET a == listOf[k][i]
                        b == listOf[k][j]
                    IN \/ rows[c][a] < rows[c][b]
                       \/ rows[c][a] = rows[c][b] /\ a < b

\* The assets whose row or license an edit of a course changed.
Touched(c) ==
    {a \in Asset : \/ (a \in DOMAIN rows[c]) # (a \in DOMAIN rows'[c])
                   \/ /\ a \in DOMAIN rows[c] \cap DOMAIN rows'[c]
                      /\ rows[c][a] # rows'[c][a]
                   \/ license[a] # license'[a]}

\* An edit of one row or of one license moves nothing else: the layers of the
\* assets it does not touch stay in the manifest, in their order
\* (SequencingService.kt:12, 37-52; SequencingIntegrationTest.kt:126-158).  (The
\* premise in EditsAreLocal changes nothing, it spares TLC the other steps.)
UntouchedKeepTheirOrder ==
    \A c \in DOMAIN rows \cap DOMAIN rows' :
        LET kept(s) == Filter(s, Asset \ Touched(c))
            before == LayersOf(Compose(c))
            after  == LayersOf(Compose(c)')
        IN \A i \in 1..3 : kept(before[i]) = kept(after[i])
EditsAreLocal == [][tables' # tables => UntouchedKeepTheirOrder]_tables

=============================================================================
