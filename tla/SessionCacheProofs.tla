------------------------- MODULE SessionCacheProofs -------------------------
(***************************************************************************)
(* Proofs about SessionCache, for every set of courses, assets and         *)
(* requests, every TTL and any number of edits and failures.  What Compose *)
(* computes plays no part in them beyond the courseId of its result.       *)
(***************************************************************************)
EXTENDS SessionCache, TLAPS

-----------------------------------------------------------------------------
(* The tables keep their shape under every edit.                           *)

LEMMA RestrictTables ==
    ASSUME NEW f, NEW S
    PROVE  /\ DOMAIN Restrict(f, S) = S
           /\ \A x \in S : Restrict(f, S)[x] = f[x]
BY DEF Restrict

LEMMA EditCourseKeepsTables ==
    ASSUME TablesOK, NEW c \in Course, EditCourse(c)
    PROVE  TablesOK'
<1>1. CASE CreateCourse(c)
  <2>1. /\ DOMAIN rows' = DOMAIN rows \cup {c}
        /\ rows'[c] = [a \in {} |-> 0]
        /\ \A d \in DOMAIN rows : d # c => rows'[d] = rows[d]
    BY <1>1 DEF CreateCourse, With
  <2>2. QED
    BY <1>1, <2>1 DEF CreateCourse, TablesOK
<1>2. CASE DeleteCourse(c)
  BY <1>2, RestrictTables DEF DeleteCourse, TablesOK
<1>3. ASSUME NEW a \in Asset, NEW o \in SortOrder, Link(c, a, o)
      PROVE  TablesOK'
  <2>1. /\ DOMAIN rows' = DOMAIN rows
        /\ rows'[c] = With(rows[c], a, o)
        /\ \A d \in DOMAIN rows : d # c => rows'[d] = rows[d]
    BY <1>3 DEF Link, Exists
  <2>2. /\ DOMAIN rows'[c] = DOMAIN rows[c] \cup {a}
        /\ \A b \in DOMAIN rows'[c] : rows'[c][b] = IF b = a THEN o ELSE rows[c][b]
    BY <2>1 DEF With
  <2>3. QED
    BY <1>3, <2>1, <2>2 DEF Link, TablesOK
<1>4. ASSUME NEW a \in Asset, Unlink(c, a)
      PROVE  TablesOK'
  <2>1. /\ DOMAIN rows' = DOMAIN rows
        /\ rows'[c] = Restrict(rows[c], DOMAIN rows[c] \ {a})
        /\ \A d \in DOMAIN rows : d # c => rows'[d] = rows[d]
    BY <1>4 DEF Unlink, Exists
  <2>2. /\ DOMAIN rows'[c] = DOMAIN rows[c] \ {a}
        /\ \A b \in DOMAIN rows'[c] : rows'[c][b] = rows[c][b]
    BY <2>1, RestrictTables
  <2>3. QED
    BY <1>4, <2>1, <2>2 DEF Unlink, TablesOK
<1>5. QED
  BY <1>1, <1>2, <1>3, <1>4 DEF EditCourse

LEMMA EditAssetKeepsTables ==
    ASSUME TablesOK, EditAsset
    PROVE  TablesOK'
BY DEF EditAsset, SetLicense, TablesOK

-----------------------------------------------------------------------------
(* The cached call.                                                        *)

\* What an entry and a result may have aged: an entry by the ticks it has lived
\* and those its manifest took to be stored, a result by the ticks since its
\* database read.
AgeBudget ==
    /\ \A c \in DOMAIN cache : cache[c].stale + cache[c].ttl <= CacheTTL + MaxLoad
    /\ \A r \in Req :
          /\ phase[r] \in {"idle", "missed"} => stale[r] = 0
          /\ phase[r] # "composed" => load[r] = 0
          /\ phase[r] = "composed" => stale[r] <= load[r]
          /\ phase[r] = "ok" => stale[r] < CacheTTL + MaxLoad

LEMMA TypeInit == Init => TypeOK
BY TimesAssumption DEF Init, InitTables, TypeOK, TablesOK

LEMMA StoredEntries ==
    ASSUME NEW r \in Req, NEW c \in Course, TypeOK, Store(r, c)
    PROVE  /\ DOMAIN cache' = DOMAIN cache \cup {c}
           /\ cache'[c].manifest = result[r]
           /\ cache'[c].ttl = CacheTTL
           /\ cache'[c].stale = stale[r]
           /\ \A d \in DOMAIN cache : d # c => cache'[d] = cache[d]
<1> DEFINE entry == [manifest |-> result[r], ttl |-> CacheTTL, stale |-> stale[r]]
<1>1. cache' = With(cache, c, entry)
  BY DEF Store
<1>2. /\ DOMAIN cache' = DOMAIN cache \cup {c}
      /\ cache'[c] = entry
      /\ \A d \in DOMAIN cache : d # c => cache'[d] = cache[d]
  BY <1>1 DEF With
<1>3. QED
  BY <1>2

LEMMA EvictedEntries ==
    ASSUME NEW c \in Course, Evict(c)
    PROVE  /\ DOMAIN cache' \subseteq DOMAIN cache
           /\ \A d \in DOMAIN cache' : cache'[d] = cache[d]
BY RestrictTables DEF Evict

LEMMA AgedEntries ==
    ASSUME TypeOK, Tick
    PROVE  /\ DOMAIN cache' \subseteq DOMAIN cache
           /\ \A c \in DOMAIN cache' :
                 /\ cache'[c].manifest = cache[c].manifest
                 /\ cache[c].ttl \in 2..CacheTTL
                 /\ cache'[c].ttl = cache[c].ttl - 1
                 /\ cache[c].stale \in Nat
                 /\ cache'[c].stale \in {0, cache[c].stale + 1}
BY TimesAssumption DEF TypeOK, Tick, Survivors, Aged

LEMMA TypeStep == TypeOK /\ [Next]_vars => TypeOK'
<1> SUFFICES ASSUME TypeOK, [Next]_vars PROVE TypeOK'
  OBVIOUS
<1> USE TimesAssumption
<1>1. CASE UNCHANGED vars
  BY <1>1 DEF TypeOK, TablesOK, vars, tables, requestVars, bounds
<1>2. ASSUME NEW r \in Req, NEW c \in Course, Lookup(r, c)
      PROVE  TypeOK'
  <2>1. TablesOK'
    BY <1>2 DEF Lookup, tables, TypeOK, TablesOK
  <2>2. Cached(c) => cache[c].stale \in Nat
    BY DEF TypeOK, Cached
  <2>3. QED
    BY <1>2, <2>1, <2>2 DEF Lookup, Hit, Miss, Unreachable, tables, bounds, TypeOK
<1>3. ASSUME NEW r \in Req, Read(r) \/ ReadNothing(r) \/ ReadFails(r)
      PROVE  TypeOK'
  BY <1>3 DEF Read, ReadNothing, ReadFails, tables, bounds, TypeOK, TablesOK
<1>4. ASSUME NEW r \in Req, Put(r)
      PROVE  TypeOK'
  <2>1. TablesOK'
    BY <1>4 DEF Put, tables, TypeOK, TablesOK
  <2>2. asked[r] \in Course /\ stale[r] \in Nat
    BY <1>4 DEF Put, TypeOK
  <2>3. /\ DOMAIN cache' \subseteq Course
        /\ \A d \in DOMAIN cache' : cache'[d].ttl \in 1..CacheTTL /\ cache'[d].stale \in Nat
    <3>1. CASE Store(r, asked[r])
      <4>1. /\ DOMAIN cache' = DOMAIN cache \cup {asked[r]}
            /\ cache'[asked[r]].ttl = CacheTTL
            /\ cache'[asked[r]].stale = stale[r]
            /\ \A d \in DOMAIN cache : d # asked[r] => cache'[d] = cache[d]
        BY <2>2, <3>1, StoredEntries
      <4>2. QED
        BY <2>2, <4>1 DEF TypeOK
    <3>2. CASE UNCHANGED cache
      BY <3>2 DEF TypeOK
    <3>3. QED
      BY <1>4, <3>1, <3>2 DEF Put
  <2>4. QED
    BY <1>4, <2>1, <2>3 DEF Put, Store, Unreachable, bounds, TypeOK
<1>5. ASSUME NEW r \in Req, Respond(r)
      PROVE  TypeOK'
  BY <1>5 DEF Respond, tables, bounds, TypeOK, TablesOK
<1>6. ASSUME NEW c \in Course, WriteCourse(c)
      PROVE  TypeOK'
  <2>1. TablesOK'
    BY <1>6, EditCourseKeepsTables DEF WriteCourse, TypeOK
  <2>2. QED
    BY <1>6, <2>1 DEF WriteCourse, requestVars, TypeOK
<1>7. CASE WriteAsset
  <2>1. TablesOK'
    BY <1>7, EditAssetKeepsTables DEF WriteAsset, TypeOK
  <2>2. QED
    BY <1>7, <2>1 DEF WriteAsset, requestVars, TypeOK
<1>8. ASSUME NEW c \in Course, Evict(c)
      PROVE  TypeOK'
  <2>1. /\ DOMAIN cache' \subseteq Course
        /\ \A d \in DOMAIN cache' : cache'[d].ttl \in 1..CacheTTL /\ cache'[d].stale \in Nat
    BY <1>8, EvictedEntries DEF TypeOK
  <2>2. /\ evicting' \subseteq Course
        /\ UNCHANGED <<rows, license, redisUp, phase, asked, result, load, stale,
                       edits, failures>>
    BY <1>8 DEF Evict, tables, requestVars, bounds, TypeOK
  <2>3. QED
    BY <2>1, <2>2 DEF TypeOK, TablesOK
<1>9. CASE RedisFails \/ RedisRecovers
  <2>1. redisUp' \in BOOLEAN
    BY <1>9, Zenon DEF RedisFails, RedisRecovers
  <2>2. failures \in 0..MaxFailures
    BY DEF TypeOK
  <2>3. failures' = failures \/ (failures < MaxFailures /\ failures' = failures + 1)
    BY <1>9 DEF RedisFails, RedisRecovers, bounds
  <2>4. failures' \in 0..MaxFailures
    BY <2>2, <2>3
  <2>5. UNCHANGED <<rows, license, cache, phase, asked, result, load, stale,
                    evicting, edits>>
    BY <1>9 DEF RedisFails, RedisRecovers, tables, requestVars, bounds
  <2>6. QED
    BY <2>1, <2>4, <2>5 DEF TypeOK, TablesOK
<1>10. CASE Restart
  BY <1>10 DEF Restart, tables, TypeOK, TablesOK
<1>11. CASE Tick
  <2>1. /\ load' \in [Req -> 0..MaxLoad]
        /\ stale' \in [Req -> Nat]
    BY <1>11 DEF Tick, Aged, TypeOK
  <2>2. /\ DOMAIN cache' \subseteq Course
        /\ \A c \in DOMAIN cache' : cache'[c].ttl \in 1..CacheTTL /\ cache'[c].stale \in Nat
    BY <1>11, AgedEntries DEF TypeOK
  <2>3. QED
    BY <1>11, <2>1, <2>2 DEF Tick, tables, bounds, TypeOK, TablesOK
<1>12. QED
  BY <1>1, <1>2, <1>3, <1>4, <1>5, <1>6, <1>7, <1>8, <1>9, <1>10, <1>11 DEF Next

\* Type correctness (SequencingService.kt:31-62, CacheConfig.kt:28-43).
THEOREM TypeCorrect == Spec => []TypeOK
BY TypeInit, TypeStep, PTL DEF Spec

-----------------------------------------------------------------------------
LEMMA AgeInit == Init => AgeBudget
BY TimesAssumption DEF Init, AgeBudget

LEMMA AgeStep == TypeOK /\ AgeBudget /\ [Next]_vars => AgeBudget'
<1> SUFFICES ASSUME TypeOK, AgeBudget, [Next]_vars PROVE AgeBudget'
  OBVIOUS
<1> USE TimesAssumption
<1>1. CASE UNCHANGED vars
  BY <1>1 DEF AgeBudget, vars, requestVars
<1>2. ASSUME NEW r \in Req, NEW c \in Course, Lookup(r, c)
      PROVE  AgeBudget'
  <2>1. Cached(c) => /\ cache[c].stale \in Nat
                     /\ cache[c].ttl \in 1..CacheTTL
                     /\ cache[c].stale + cache[c].ttl <= CacheTTL + MaxLoad
    BY DEF TypeOK, AgeBudget, Cached
  <2>2. Cached(c) => cache[c].stale < CacheTTL + MaxLoad
    BY <2>1
  <2>3. QED
    BY <1>2, <2>2 DEF Lookup, Hit, Miss, Unreachable, TypeOK, AgeBudget
<1>3. ASSUME NEW r \in Req, Read(r) \/ ReadNothing(r) \/ ReadFails(r)
      PROVE  AgeBudget'
  BY <1>3 DEF Read, ReadNothing, ReadFails, TypeOK, AgeBudget
<1>4. ASSUME NEW r \in Req, Put(r)
      PROVE  AgeBudget'
  <2>1. /\ asked[r] \in Course /\ stale[r] \in Nat /\ load[r] \in 0..MaxLoad
        /\ stale[r] <= load[r]
    BY <1>4 DEF Put, TypeOK, AgeBudget
  <2>2. \A c \in DOMAIN cache' : cache'[c].stale + cache'[c].ttl <= CacheTTL + MaxLoad
    <3>1. CASE Store(r, asked[r])
      <4>1. /\ DOMAIN cache' = DOMAIN cache \cup {asked[r]}
            /\ cache'[asked[r]].ttl = CacheTTL
            /\ cache'[asked[r]].stale = stale[r]
            /\ \A d \in DOMAIN cache : d # asked[r] => cache'[d] = cache[d]
        BY <2>1, <3>1, StoredEntries
      <4>2. QED
        BY <2>1, <4>1 DEF AgeBudget
    <3>2. CASE UNCHANGED cache
      BY <3>2 DEF AgeBudget
    <3>3. QED
      BY <1>4, <3>1, <3>2 DEF Put
  <2>3. QED
    BY <1>4, <2>1, <2>2 DEF Put, Store, Unreachable, TypeOK, AgeBudget
<1>5. ASSUME NEW r \in Req, Respond(r)
      PROVE  AgeBudget'
  BY <1>5 DEF Respond, TypeOK, AgeBudget
<1>6. CASE WriteAsset \/ \E c \in Course : WriteCourse(c)
  BY <1>6 DEF WriteCourse, WriteAsset, requestVars, AgeBudget
<1>7. ASSUME NEW c \in Course, Evict(c)
      PROVE  AgeBudget'
  <2>1. \A d \in DOMAIN cache' : d \in DOMAIN cache /\ cache'[d] = cache[d]
    BY <1>7, EvictedEntries
  <2>2. QED
    BY <1>7, <2>1 DEF Evict, requestVars, AgeBudget
<1>8. CASE RedisFails \/ RedisRecovers
  BY <1>8 DEF RedisFails, RedisRecovers, requestVars, AgeBudget
<1>9. CASE Restart
  BY <1>9 DEF Restart, AgeBudget
<1>10. CASE Tick
  <2>1. \A c \in DOMAIN cache' : cache'[c].stale + cache'[c].ttl <= CacheTTL + MaxLoad
    BY <1>10, AgedEntries DEF AgeBudget
  <2>2. ASSUME NEW s \in Req
        PROVE  /\ phase'[s] = phase[s]
               /\ phase[s] # "composed" => stale'[s] = stale[s] /\ load'[s] = 0
               /\ phase[s] = "composed" => /\ stale'[s] \in {0, stale[s] + 1}
                                           /\ load'[s] = load[s] + 1
                                           /\ stale[s] \in Nat /\ load[s] \in Nat
    BY <1>10 DEF Tick, Aged, TypeOK
  <2>3. QED
    BY <2>1, <2>2 DEF AgeBudget
<1>11. QED
  BY <1>1, <1>2, <1>3, <1>4, <1>5, <1>6, <1>7, <1>8, <1>9, <1>10 DEF Next

\* No answer is out of date for CacheTTL + MaxLoad ticks (CacheConfig.kt:22),
\* with any number of edits, lost evictions, outages, restarts and racing
\* loads.
THEOREM StalenessIsBounded == Spec => []BoundedStaleness
<1>1. Init => TypeOK /\ AgeBudget
  BY TypeInit, AgeInit
<1>2. TypeOK /\ AgeBudget /\ [Next]_vars => (TypeOK /\ AgeBudget)'
  BY TypeStep, AgeStep
<1>3. AgeBudget => BoundedStaleness
  BY DEF AgeBudget, BoundedStaleness
<1>4. QED
  BY <1>1, <1>2, <1>3, PTL DEF Spec

-----------------------------------------------------------------------------
LEMMA MatchInit == Init => ManifestMatchesCourse
BY DEF Init, ManifestMatchesCourse

LEMMA MatchStep ==
    TypeOK /\ ManifestMatchesCourse /\ [Next]_vars => ManifestMatchesCourse'
<1> SUFFICES ASSUME TypeOK, ManifestMatchesCourse, [Next]_vars
             PROVE  ManifestMatchesCourse'
  OBVIOUS
<1>1. CASE UNCHANGED vars
  BY <1>1 DEF ManifestMatchesCourse, vars, requestVars
<1>2. ASSUME NEW r \in Req, NEW c \in Course, Lookup(r, c)
      PROVE  ManifestMatchesCourse'
  <2>1. \A s \in Req : s # r => /\ phase'[s] = phase[s]
                                /\ asked'[s] = asked[s]
                                /\ result'[s] = result[s]
    BY <1>2 DEF Lookup, Hit, Miss, Unreachable, TypeOK
  <2>2. /\ UNCHANGED cache
        /\ phase'[r] \in {"composed", "ok"} => Hit(r, c)
        /\ asked'[r] = c
    BY <1>2 DEF Lookup, Miss, Unreachable, TypeOK
  <2>3. Hit(r, c) => result'[r].courseId = c
    BY DEF Hit, Cached, TypeOK, ManifestMatchesCourse
  <2>4. QED
    BY <2>1, <2>2, <2>3 DEF ManifestMatchesCourse
<1>3. ASSUME NEW r \in Req, Read(r) \/ ReadNothing(r) \/ ReadFails(r)
      PROVE  ManifestMatchesCourse'
  <2>1. Exists(asked[r]) => Compose(asked[r]).courseId = asked[r]
    BY DEF Compose
  <2>2. QED
    BY <1>3, <2>1 DEF Read, ReadNothing, ReadFails, TypeOK, ManifestMatchesCourse
<1>4. ASSUME NEW r \in Req, Put(r)
      PROVE  ManifestMatchesCourse'
  <2>1. asked[r] \in Course /\ result[r].courseId = asked[r]
    BY <1>4 DEF Put, TypeOK, ManifestMatchesCourse
  <2>2. \A c \in DOMAIN cache' : cache'[c].manifest.courseId = c
    <3>1. CASE Store(r, asked[r])
      <4>1. /\ DOMAIN cache' = DOMAIN cache \cup {asked[r]}
            /\ cache'[asked[r]].manifest = result[r]
            /\ \A d \in DOMAIN cache : d # asked[r] => cache'[d] = cache[d]
        BY <2>1, <3>1, StoredEntries
      <4>2. QED
        BY <2>1, <4>1 DEF ManifestMatchesCourse
    <3>2. CASE UNCHANGED cache
      BY <3>2 DEF ManifestMatchesCourse
    <3>3. QED
      BY <1>4, <3>1, <3>2 DEF Put
  <2>3. QED
    BY <1>4, <2>1, <2>2 DEF Put, Store, Unreachable, TypeOK, ManifestMatchesCourse
<1>5. ASSUME NEW r \in Req, Respond(r)
      PROVE  ManifestMatchesCourse'
  BY <1>5 DEF Respond, TypeOK, ManifestMatchesCourse
<1>6. CASE WriteAsset \/ \E c \in Course : WriteCourse(c)
  BY <1>6 DEF WriteCourse, WriteAsset, requestVars, ManifestMatchesCourse
<1>7. ASSUME NEW c \in Course, Evict(c)
      PROVE  ManifestMatchesCourse'
  <2>1. \A d \in DOMAIN cache' : d \in DOMAIN cache /\ cache'[d] = cache[d]
    BY <1>7, EvictedEntries
  <2>2. QED
    BY <1>7, <2>1 DEF Evict, requestVars, ManifestMatchesCourse
<1>8. CASE RedisFails \/ RedisRecovers
  BY <1>8 DEF RedisFails, RedisRecovers, requestVars, ManifestMatchesCourse
<1>9. CASE Restart
  BY <1>9 DEF Restart, ManifestMatchesCourse
<1>10. CASE Tick
  <2>1. \A d \in DOMAIN cache' : d \in DOMAIN cache /\ cache'[d].manifest = cache[d].manifest
    BY <1>10, AgedEntries
  <2>2. QED
    BY <1>10, <2>1 DEF Tick, ManifestMatchesCourse
<1>11. QED
  BY <1>1, <1>2, <1>3, <1>4, <1>5, <1>6, <1>7, <1>8, <1>9, <1>10 DEF Next

\* A request is answered with the manifest of the course it asked for
\* (SequencingService.kt:32, 55), however requests for other courses, edits and
\* evictions are interleaved.
THEOREM AnswersMatchCourse == Spec => []ManifestMatchesCourse
<1>1. Init => TypeOK /\ ManifestMatchesCourse
  BY TypeInit, MatchInit
<1>2. TypeOK /\ ManifestMatchesCourse /\ [Next]_vars
         => (TypeOK /\ ManifestMatchesCourse)'
  BY TypeStep, MatchStep
<1>3. QED
  BY <1>1, <1>2, PTL DEF Spec
=============================================================================
