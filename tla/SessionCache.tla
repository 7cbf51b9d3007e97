---------------------------- MODULE SessionCache ----------------------------
(***************************************************************************)
(* GET /api/v1/courses/{id}/session: SequencingService.compose behind      *)
(* @Cacheable("course-session") on Redis.  The cache advisor is outside    *)
(* the transaction, and nothing locks a key: a miss, the database read     *)
(* (one query in a read-only transaction) and the put of the result are    *)
(* three steps of a request, and other requests and edits run between      *)
(* them.  Entries live for CacheTTL ticks; they survive a restart of the   *)
(* application, its requests do not.  An editor evicts the course it       *)
(* changed after its transaction; a license it changes evicts nothing.     *)
(***************************************************************************)
EXTENDS Sequencing

CONSTANTS Req,            \* request slots
          None,           \* not a course
          CacheTTL,       \* entryTtl, in ticks
          MaxLoad,        \* longest time from database read to put, in ticks
          MaxEdits,       \* bound on the edits of a behaviour
          MaxFailures     \* bound on Redis outages and application restarts

ASSUME TimesAssumption ==
    /\ None \notin Course
    /\ CacheTTL \in Nat \ {0}
    /\ MaxLoad \in Nat
    /\ MaxEdits \in Nat
    /\ MaxFailures \in Nat

VARIABLES cache,       \* Redis: a partial function from course ids to entries
                       \* [manifest, ttl, stale]: what is stored, the ticks it
                       \* has left, and (history) for how many ticks it has
                       \* been out of date
          redisUp,
          phase,       \* where each request is in the cached call
          asked,       \* its course id
          result,      \* what it composed or answers
          load,        \* ticks since its database read
          stale,       \* history: ticks its result has been out of date
          evicting,    \* courses whose edit has committed but not evicted yet
          edits,       \* counters of the bounds
          failures

requestVars == <<phase, asked, result, load, stale>>
bounds      == <<edits, failures>>
vars == <<tables, cache, redisUp, requestVars, evicting, bounds>>

Cached(c) == c \in DOMAIN cache

Init ==
    /\ InitTables
    /\ cache = [c \in {} |-> 0]
    /\ redisUp = TRUE
    /\ phase = [r \in Req |-> "idle"]
    /\ asked = [r \in Req |-> None]
    /\ result = [r \in Req |-> None]
    /\ load = [r \in Req |-> 0]
    /\ stale = [r \in Req |-> 0]
    /\ evicting = {}
    /\ edits = 0
    /\ failures = 0

-----------------------------------------------------------------------------
Hit(r, c) ==
    /\ redisUp
    /\ Cached(c)
    /\ phase' = [phase EXCEPT ![r] = "ok"]
    /\ result' = [result EXCEPT ![r] = cache[c].manifest]
    /\ stale' = [stale EXCEPT ![r] = cache[c].stale]

Miss(r, c) ==
    /\ redisUp
    /\ ~Cached(c)
    /\ phase' = [phase EXCEPT ![r] = "missed"]
    /\ UNCHANGED <<result, stale>>

\* No CacheErrorHandler: a request that cannot reach Redis fails with a 500.
Unreachable(r) ==
    /\ ~redisUp
    /\ phase' = [phase EXCEPT ![r] = "failed"]
    /\ UNCHANGED <<result, stale>>

\* Mutant of Lookup: time-to-idle, a hit renews the entry.
Lookup_TimeToIdle(r, c) ==
    /\ phase[r] = "idle"
    /\ asked' = [asked EXCEPT ![r] = c]
    /\ \/ Hit(r, c) /\ cache' = [cache EXCEPT ![c].ttl = CacheTTL]
       \/ (Miss(r, c) \/ Unreachable(r)) /\ UNCHANGED cache
    /\ UNCHANGED <<tables, redisUp, load, evicting, bounds>>

Lookup(r, c) ==
    /\ phase[r] = "idle"
    /\ asked' = [asked EXCEPT ![r] = c]
    /\ Hit(r, c) \/ Miss(r, c) \/ Unreachable(r)
    /\ UNCHANGED <<tables, cache, redisUp, load, evicting, bounds>>

\* findWithAssetsById and the composition.
Read(r) ==
    /\ phase[r] = "missed"
    /\ Exists(asked[r])
    /\ phase' = [phase EXCEPT ![r] = "composed"]
    /\ result' = [result EXCEPT ![r] = Compose(asked[r])]
    /\ UNCHANGED <<tables, cache, redisUp, asked, load, stale, evicting, bounds>>

\* CourseNotFoundException: a 404, and nothing is cached.
ReadNothing(r) ==
    /\ phase[r] = "missed"
    /\ ~Exists(asked[r])
    /\ phase' = [phase EXCEPT ![r] = "notFound"]
    /\ UNCHANGED <<tables, cache, redisUp, asked, result, load, stale, evicting, bounds>>

\* The database cannot be reached, or the query fails: a 500.
ReadFails(r) ==
    /\ phase[r] = "missed"
    /\ phase' = [phase EXCEPT ![r] = "failed"]
    /\ UNCHANGED <<tables, cache, redisUp, asked, result, load, stale, evicting, bounds>>

\* Mutant of Store: the key of the entry is not the course id.
Store_FixedKey(r, c) ==
    /\ redisUp
    /\ cache' = With(cache, CHOOSE d \in Course : TRUE,
                     [manifest |-> result[r], ttl |-> CacheTTL, stale |-> stale[r]])
    /\ phase' = [phase EXCEPT ![r] = "ok"]

Store(r, c) ==
    /\ redisUp
    /\ cache' = With(cache, c, [manifest |-> result[r],
                                ttl      |-> CacheTTL,
                                stale    |-> stale[r]])
    /\ phase' = [phase EXCEPT ![r] = "ok"]

Put(r) ==
    /\ phase[r] = "composed"
    /\ Store(r, asked[r]) \/ (Unreachable(r) /\ UNCHANGED cache)
    /\ load' = [load EXCEPT ![r] = 0]
    /\ UNCHANGED <<tables, redisUp, asked, result, stale, evicting, bounds>>

Respond(r) ==
    /\ phase[r] \in {"ok", "notFound", "failed"}
    /\ phase' = [phase EXCEPT ![r] = "idle"]
    /\ asked' = [asked EXCEPT ![r] = None]
    /\ result' = [result EXCEPT ![r] = None]
    /\ stale' = [stale EXCEPT ![r] = 0]
    /\ UNCHANGED <<tables, cache, redisUp, load, evicting, bounds>>

-----------------------------------------------------------------------------
\* The editor's transaction commits; the eviction comes after it.
WriteCourse(c) ==
    /\ edits < MaxEdits
    /\ EditCourse(c)
    /\ evicting' = evicting \cup {c}
    /\ edits' = edits + 1
    /\ UNCHANGED <<cache, redisUp, requestVars, failures>>

WriteAsset ==
    /\ edits < MaxEdits
    /\ EditAsset
    /\ edits' = edits + 1
    /\ UNCHANGED <<cache, redisUp, requestVars, evicting, failures>>

\* With Redis down the editor's request fails, and the eviction is lost.
Evict(c) ==
    /\ c \in evicting
    /\ evicting' = evicting \ {c}
    /\ cache' = IF redisUp THEN Restrict(cache, DOMAIN cache \ {c}) ELSE cache
    /\ UNCHANGED <<tables, redisUp, requestVars, bounds>>

\* Redis is persistent (appendonly): an outage loses no entry.
RedisFails ==
    /\ redisUp
    /\ failures < MaxFailures
    /\ redisUp' = FALSE
    /\ failures' = failures + 1
    /\ UNCHANGED <<tables, cache, requestVars, evicting, edits>>

RedisRecovers ==
    /\ ~redisUp
    /\ redisUp' = TRUE
    /\ UNCHANGED <<tables, cache, requestVars, evicting, bounds>>

\* A restart of the application loses its requests and pending evictions.
Restart ==
    /\ failures < MaxFailures
    /\ phase' = [r \in Req |-> "idle"]
    /\ asked' = [r \in Req |-> None]
    /\ result' = [r \in Req |-> None]
    /\ load' = [r \in Req |-> 0]
    /\ stale' = [r \in Req |-> 0]
    /\ evicting' = {}
    /\ failures' = failures + 1
    /\ UNCHANGED <<tables, cache, redisUp, edits>>

\* One tick more out of date, or not out of date.
Aged(staleness, m, c) == IF m = Compose(c) THEN 0 ELSE staleness + 1

\* Mutant of Survivors: an entry outlives its TTL by a tick.
Survivors_OffByOne == {c \in DOMAIN cache : cache[c].ttl > 0}

Survivors == {c \in DOMAIN cache : cache[c].ttl > 1}

\* Mutant of Tick: no TTL is configured, entries stay for ever.
Tick_NoExpiry ==
    /\ \A r \in Req : phase[r] = "composed" => load[r] < MaxLoad
    /\ load' = [r \in Req |-> IF phase[r] = "composed" THEN load[r] + 1 ELSE 0]
    /\ UNCHANGED <<tables, cache, redisUp, phase, asked, result, stale, evicting, bounds>>

Tick ==
    /\ \A r \in Req : phase[r] = "composed" => load[r] < MaxLoad
    /\ load' = [r \in Req |-> IF phase[r] = "composed" THEN load[r] + 1 ELSE 0]
    /\ stale' = [r \in Req |->
          IF phase[r] = "composed" THEN Aged(stale[r], result[r], asked[r])
                                   ELSE stale[r]]
    /\ cache' = [c \in Survivors |->
          [manifest |-> cache[c].manifest,
           ttl      |-> cache[c].ttl - 1,
           stale    |-> Aged(cache[c].stale, cache[c].manifest, c)]]
    /\ UNCHANGED <<tables, redisUp, phase, asked, result, evicting, bounds>>

Next ==
    \/ \E r \in Req, c \in Course : Lookup(r, c)
    \/ \E r \in Req : Read(r) \/ ReadNothing(r) \/ ReadFails(r) \/ Put(r) \/ Respond(r)
    \/ \E c \in Course : WriteCourse(c) \/ Evict(c)
    \/ WriteAsset
    \/ RedisFails \/ RedisRecovers \/ Restart
    \/ Tick

Spec == Init /\ [][Next]_vars

\* Threads run on, pending evictions are carried out, Redis comes back, and
\* time passes.
Fairness ==
    /\ \A r \in Req : /\ WF_vars(Read(r) \/ ReadNothing(r))
                      /\ WF_vars(Put(r))
                      /\ WF_vars(Respond(r))
    /\ \A c \in Course : WF_vars(Evict(c))
    /\ WF_vars(RedisRecovers)
    /\ WF_vars(Tick)

FairSpec == Spec /\ Fairness

-----------------------------------------------------------------------------
\* Every variable keeps to its range, and a request has a course exactly while
\* it is in the call (SequencingService.kt:31-62, CacheConfig.kt:28-43).
TypeOK ==
    /\ TablesOK
    /\ DOMAIN cache \subseteq Course
    /\ \A c \in DOMAIN cache : cache[c].ttl \in 1..CacheTTL /\ cache[c].stale \in Nat
    /\ redisUp \in BOOLEAN
    /\ phase \in [Req -> {"idle", "missed", "composed", "ok", "notFound", "failed"}]
    /\ asked \in [Req -> Course \cup {None}]
    /\ \A r \in Req : (phase[r] = "idle") <=> (asked[r] = None)
    /\ DOMAIN result = Req
    /\ load \in [Req -> 0..MaxLoad]
    /\ stale \in [Req -> Nat]
    /\ evicting \subseteq Course
    /\ edits \in 0..MaxEdits
    /\ failures \in 0..MaxFailures

\* TTL is the safety net of CacheConfig.kt:22: whatever edits, lost evictions,
\* outages, restarts and loads of other requests happened, no answer has been
\* out of date for CacheTTL + MaxLoad ticks or more.
BoundedStaleness ==
    \A r \in Req : phase[r] = "ok" => stale[r] < CacheTTL + MaxLoad

\* A request is answered with the manifest of the course it asked for, and an
\* entry holds the manifest of its key (SequencingService.kt:32, 55).
ManifestMatchesCourse ==
    /\ \A r \in Req : phase[r] \in {"composed", "ok"} => result[r].courseId = asked[r]
    /\ \A c \in DOMAIN cache : cache[c].manifest.courseId = c

\* Once the edits are over, the cache ends up with nothing but manifests of
\* the tables as they are, and so do the requests (CacheConfig.kt:22).
EventuallyFresh ==
    <>[] /\ \A c \in DOMAIN cache : cache[c].manifest = Compose(c)
         /\ \A r \in Req : phase[r] = "ok" => result[r] = Compose(asked[r])

\* CacheConfig.kt:22: "eviction on the write path is the primary guarantee, the
\* TTL a safety net": a course whose edit has been evicted is not cached, or is
\* cached as it is now.
EvictionIsTheGuarantee ==
    \A c \in DOMAIN cache \ evicting : cache[c].manifest = Compose(c)
=============================================================================
