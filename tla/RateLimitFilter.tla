-------------------------- MODULE RateLimitFilter --------------------------
(***************************************************************************)
(* The servlet filter of backend/.../ratelimit/RateLimitFilter.kt.  Each   *)
(* request runs on a thread of its own: it looks its bucket up in the      *)
(* Caffeine cache (one atomic get-or-create per key), and in a later step  *)
(* takes one token from the bucket object it holds.  Between the two the   *)
(* entry may expire or be evicted, and other threads may use the bucket.   *)
(*                                                                         *)
(* Time is a Tick action, TicksPerSecond ticks to a second.  The credit is *)
(* the unit of the greedy refill: a token is the number of ticks of the    *)
(* refill period, and every tick adds RefillTokens credits.                *)
(***************************************************************************)
EXTENDS Integers, FiniteSets

CONSTANTS Ip,                   \* cache keys: addresses and "unknown"
          Unknown,              \* the key of a request with no address
          Absent,               \* no header, no address
          Req,                  \* request slots (worker threads)
          BucketId,             \* identities of Bucket objects
          NoBucket,             \* not a bucket
          Capacity,
          RefillTokens,
          RefillPeriodSeconds,
          TicksPerSecond,
          IdleTTL,              \* expireAfterAccess, in ticks
          MaxSize,              \* maximumSize of the cache
          MaxStall,             \* longest pause of a thread between its lookup
                                \* and its consume, in ticks
          TrustForwardedFor

ASSUME SizesAssumption ==
    /\ Capacity \in Nat \ {0}
    /\ RefillTokens \in Nat \ {0}
    /\ RefillPeriodSeconds \in Nat \ {0}
    /\ TicksPerSecond \in Nat \ {0}
    /\ IdleTTL \in Nat \ {0}
    /\ MaxSize \in Nat
    /\ MaxStall \in Nat

ASSUME NamesAssumption ==
    /\ Unknown \in Ip
    /\ Absent \notin Ip
    /\ NoBucket \notin BucketId
    /\ TrustForwardedFor \in BOOLEAN

VARIABLES phase,       \* where each request is in doFilterInternal
          client,      \* the local variable ip
          held,        \* the local variable bucket
          waited,      \* ticks since the lookup
          cached,      \* bucketCache
          idle,        \* ticks since the last access of an entry
          level,       \* credits in each Bucket object
          retryAfter   \* the Retry-After header of a rejection

vars == <<phase, client, held, waited, cached, idle, level, retryAfter>>

Token == RefillPeriodSeconds * TicksPerSecond
Full  == Capacity * Token

AtMost(n, bound)  == IF n > bound THEN bound ELSE n
AtLeast(n, bound) == IF n < bound THEN bound ELSE n

Request == [api : BOOLEAN, peer : Ip \cup {Absent}, xff : Ip \cup {Absent}]

ClientIp(q) ==
    IF TrustForwardedFor /\ q.xff # Absent THEN q.xff
    ELSE IF q.peer # Absent THEN q.peer ELSE Unknown

Live == {ip \in Ip : cached[ip] # NoBucket}

\* Mutant of InUse: the object of an evicted entry is handed out again although
\* a thread still holds it.
InUse_CacheOnly == {cached[ip] : ip \in Live}

\* Objects that the cache or a thread can still reach; the others are garbage.
InUse == {cached[ip] : ip \in Live} \cup {held[r] : r \in Req}

Init ==
    /\ phase = [r \in Req |-> "idle"]
    /\ client = [r \in Req |-> Absent]
    /\ held = [r \in Req |-> NoBucket]
    /\ waited = [r \in Req |-> 0]
    /\ cached = [ip \in Ip |-> NoBucket]
    /\ idle = [ip \in Ip |-> 0]
    /\ level = [b \in BucketId |-> Full]
    /\ retryAfter = [r \in Req |-> 0]

-----------------------------------------------------------------------------
\* shouldNotFilter: everything outside /api/v1/ goes straight to the chain.
Bypass(r, q) ==
    /\ phase[r] = "idle"
    /\ ~q.api
    /\ phase' = [phase EXCEPT ![r] = "unfiltered"]
    /\ UNCHANGED <<client, held, waited, cached, idle, level, retryAfter>>

\* bucketCache.get(ip) { newBucket() } finds a live entry.
Hit(ip, b) ==
    /\ cached[ip] = b
    /\ UNCHANGED <<cached, level>>

\* Mutants of Create.  The lookup is a get and then a put, so that two threads
\* of one address may each store a bucket:
Create_Overwrites(ip, b) ==
    /\ b \notin InUse
    /\ cached' = [cached EXCEPT ![ip] = b]
    /\ level' = [level EXCEPT ![b] = Full]
\* the bucket starts empty:
Create_Empty(ip, b) ==
    /\ cached[ip] = NoBucket
    /\ b \notin InUse
    /\ cached' = [cached EXCEPT ![ip] = b]
    /\ level' = [level EXCEPT ![b] = 0]
\* one bucket for everybody, the key forgotten:
Create_Global(ip, b) ==
    /\ cached[ip] = NoBucket
    /\ b \notin InUse
    /\ cached' = [i \in Ip |-> b]
    /\ level' = [level EXCEPT ![b] = Full]

\* ... or creates a full bucket and stores it, in the same atomic step.
Create(ip, b) ==
    /\ cached[ip] = NoBucket
    /\ b \notin InUse
    /\ cached' = [cached EXCEPT ![ip] = b]
    /\ level' = [level EXCEPT ![b] = Full]

\* Mutant of Lookup: expireAfterWrite, the age of an entry is not reset by a hit.
Lookup_ExpireAfterWrite(r, q, b) ==
    /\ phase[r] = "idle"
    /\ q.api
    /\ Hit(ClientIp(q), b) \/ Create(ClientIp(q), b)
    /\ phase' = [phase EXCEPT ![r] = "looked"]
    /\ client' = [client EXCEPT ![r] = ClientIp(q)]
    /\ held' = [held EXCEPT ![r] = b]
    /\ waited' = [waited EXCEPT ![r] = 0]
    /\ UNCHANGED <<idle, retryAfter>>

Lookup(r, q, b) ==
    /\ phase[r] = "idle"
    /\ q.api
    /\ Hit(ClientIp(q), b) \/ Create(ClientIp(q), b)
    /\ idle' = [idle EXCEPT ![ClientIp(q)] = 0]
    /\ phase' = [phase EXCEPT ![r] = "looked"]
    /\ client' = [client EXCEPT ![r] = ClientIp(q)]
    /\ held' = [held EXCEPT ![r] = b]
    /\ waited' = [waited EXCEPT ![r] = 0]
    /\ UNCHANGED retryAfter

\* Mutant of RetryAfter: the minimum of one second is left out.
RetryAfter_NoMinimum(credits) ==
    (Token - credits) \div (RefillTokens * TicksPerSecond)

\* Whole seconds until the bucket holds one token again, and never 0.
RetryAfter(credits) ==
    AtLeast((Token - credits) \div (RefillTokens * TicksPerSecond), 1)

\* Mutant of Admit: consumes whatever is there.
Admit_Unchecked(r) ==
    /\ level' = [level EXCEPT ![held[r]] = @ - Token]
    /\ phase' = [phase EXCEPT ![r] = "admitted"]
    /\ UNCHANGED retryAfter

Admit(r) ==
    /\ level[held[r]] >= Token
    /\ level' = [level EXCEPT ![held[r]] = @ - Token]
    /\ phase' = [phase EXCEPT ![r] = "admitted"]
    /\ UNCHANGED retryAfter

Reject(r) ==
    /\ level[held[r]] < Token
    /\ phase' = [phase EXCEPT ![r] = "rejected"]
    /\ retryAfter' = [retryAfter EXCEPT ![r] = RetryAfter(level[held[r]])]
    /\ UNCHANGED level

\* bucket.tryConsumeAndReturnRemaining(1), atomic in the bucket.
Consume(r) ==
    /\ phase[r] = "looked"
    /\ Admit(r) \/ Reject(r)
    /\ held' = [held EXCEPT ![r] = NoBucket]
    /\ waited' = [waited EXCEPT ![r] = 0]
    /\ UNCHANGED <<client, cached, idle>>

\* The chain has answered, or the 429 has been written.
Respond(r) ==
    /\ phase[r] \in {"admitted", "rejected", "unfiltered"}
    /\ phase' = [phase EXCEPT ![r] = "idle"]
    /\ client' = [client EXCEPT ![r] = Absent]
    /\ retryAfter' = [retryAfter EXCEPT ![r] = 0]
    /\ UNCHANGED <<held, waited, cached, idle, level>>

\* Caffeine drops some entry, whichever it likes, while it is over its size.
Evict(ip) ==
    /\ ip \in Live
    /\ Cardinality(Live) > MaxSize
    /\ cached' = [cached EXCEPT ![ip] = NoBucket]
    /\ idle' = [idle EXCEPT ![ip] = 0]
    /\ UNCHANGED <<phase, client, held, waited, level, retryAfter>>

Expires(ip) == cached[ip] # NoBucket /\ idle[ip] + 1 >= IdleTTL

Tick ==
    /\ \A r \in Req : phase[r] = "looked" => waited[r] < MaxStall
    /\ waited' = [r \in Req |->
                    IF phase[r] = "looked" THEN waited[r] + 1 ELSE 0]
    /\ cached' = [ip \in Ip |->
                    IF Expires(ip) THEN NoBucket ELSE cached[ip]]
    /\ idle' = [ip \in Ip |->
                    IF cached[ip] = NoBucket \/ Expires(ip)
                      THEN 0 ELSE idle[ip] + 1]
    /\ level' = [b \in BucketId |-> AtMost(level[b] + RefillTokens, Full)]
    /\ UNCHANGED <<phase, client, held, retryAfter>>

Next ==
    \/ \E r \in Req, q \in Request : Bypass(r, q)
    \/ \E r \in Req, q \in Request, b \in BucketId : Lookup(r, q, b)
    \/ \E r \in Req : Consume(r) \/ Respond(r)
    \/ \E ip \in Ip : Evict(ip)
    \/ Tick

Spec == Init /\ [][Next]_vars

-----------------------------------------------------------------------------
\* Every variable of the filter keeps to its range: in particular a thread
\* holds a bucket exactly between its lookup and its consume, a level stays
\* between 0 and the capacity (RateLimitFilter.kt:49-61, 80-89).
TypeOK ==
    /\ phase \in [Req -> {"idle", "unfiltered", "looked", "admitted", "rejected"}]
    /\ client \in [Req -> Ip \cup {Absent}]
    /\ held \in [Req -> BucketId \cup {NoBucket}]
    /\ \A r \in Req : held[r] # NoBucket <=> phase[r] = "looked"
    /\ \A r \in Req : phase[r] = "looked" => client[r] \in Ip
    /\ waited \in [Req -> 0..MaxStall]
    /\ cached \in [Ip -> BucketId \cup {NoBucket}]
    /\ idle \in [Ip -> 0..IdleTTL]
    /\ level \in [BucketId -> 0..Full]
    /\ retryAfter \in [Req -> Nat]

\* The credits a client has: an address without an entry has a full bucket.
TokensOf(ip) == IF cached[ip] = NoBucket THEN Full ELSE level[cached[ip]]

\* Bucket objects are never shared: not by two entries of the cache, not by
\* threads that serve different addresses, and not by an entry and a thread of
\* another address, even when the entry the thread found has been evicted since
\* (RateLimitFilter.kt:49-52).
BucketsArePrivate ==
    /\ \A i, j \in Live : cached[i] = cached[j] => i = j
    /\ \A r \in Req, j \in Live :
          phase[r] = "looked" /\ held[r] = cached[j] => client[r] = j
    /\ \A r, s \in Req :
          phase[r] = "looked" /\ phase[s] = "looked" /\ held[r] = held[s]
             => client[r] = client[s]

\* A client's tokens go down only by a request of that client that is admitted
\* in that very step, whatever requests of others, evictions and expiries are
\* interleaved with it (RateLimitFilter.kt:49-58; RateLimitIntegrationTest's
\* "different IPs are limited independently").
OnlyOwnRequestsCost ==
    \A ip \in Ip : TokensOf(ip)' < TokensOf(ip) =>
        \E r \in Req : /\ phase[r] = "looked"
                       /\ phase'[r] = "admitted"
                       /\ client[r] = ip
Isolation == [][OnlyOwnRequestsCost]_vars

\* A thread between lookup and consume holds the bucket the cache still has
\* for its address, so that no two live buckets serve one client
\* (RateLimitFilter.kt:36-39, 50-52).
Attached ==
    \A r \in Req : phase[r] = "looked" =>
        /\ cached[client[r]] = held[r]
        /\ idle[client[r]] <= waited[r]

\* An entry that has not been used for n ticks past the longest stall has
\* refilled for n ticks; an expired one was full, so dropping it is invisible
\* (RateLimitFilter.kt:36-38).
Replenished ==
    \A ip \in Live :
        level[cached[ip]] >= AtMost(RefillTokens * (idle[ip] - MaxStall), Full)

\* What the last two need of the constants.  The first holds of the code's 10
\* minutes and of every configuration that refills a bucket in less than that;
\* the second says that the cache is large enough for the clients there are.
ExpiryIsInvisible ==
    /\ MaxStall < IdleTTL
    /\ RefillTokens * (IdleTTL - MaxStall) >= Full
CacheFitsClients == IsFiniteSet(Ip) /\ Cardinality(Ip) <= MaxSize

\* The filter implements one token bucket per client address.
Verdicts == [r \in Req |-> IF phase[r] \in {"admitted", "rejected"}
                            THEN phase[r] ELSE "none"]
TB == INSTANCE TokenBucket WITH
        Client <- Ip, Refill <- RefillTokens,
        tokens <- [ip \in Ip |-> TokensOf(ip)], verdict <- Verdicts

\* Seen from outside the cache does not exist: every step of the filter is a
\* step of one token bucket per address or changes nothing (RateLimitFilter.kt
\* 36-78).
ImplementsTokenBucket == TB!Spec
=============================================================================
