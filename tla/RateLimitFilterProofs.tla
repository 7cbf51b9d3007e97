----------------------- MODULE RateLimitFilterProofs -----------------------
(***************************************************************************)
(* Proofs about RateLimitFilter, for every set of addresses, requests and  *)
(* buckets and every configuration of the limiter, and at the end about    *)
(* the client that obeys Retry-After (PoliteClient) and the observer who   *)
(* counts what is admitted (AdmissionRate).                                *)
(***************************************************************************)
EXTENDS PoliteClient, AdmissionRate, FiniteSetTheorems, TLAPS

-----------------------------------------------------------------------------
(* The arithmetic of credits.                                              *)

\* A token is worth at least one credit, a full bucket at least one token.
LEMMA CreditSizes ==
    /\ Token \in Nat \ {0}
    /\ Full \in Nat
    /\ Full >= Token
<1>1. \A m, n \in Nat \ {0} : m * n \in Nat \ {0} /\ m * n >= n
  OBVIOUS
<1>2. Token \in Nat \ {0}
  BY <1>1, SizesAssumption DEF Token
<1>3. QED
  BY <1>1, <1>2, SizesAssumption DEF Full

\* The Retry-After header is a whole number of seconds and at least one.
LEMMA RetryAfterRange ==
    ASSUME NEW credits \in Nat
    PROVE  RetryAfter(credits) \in Nat \ {0}
<1>1. RefillTokens * TicksPerSecond \in Nat \ {0}
  BY SizesAssumption
<1>2. (Token - credits) \div (RefillTokens * TicksPerSecond) \in Int
  <2>1. \A m \in Int, n \in Nat \ {0} : m \div n \in Int
    OBVIOUS
  <2>2. QED
    BY <1>1, <2>1, CreditSizes
<1>3. QED
  BY <1>2 DEF RetryAfter, AtLeast

\* Every request is accounted to one of the cache's keys.
LEMMA ClientIsKey ==
    ASSUME NEW q \in Request
    PROVE  ClientIp(q) \in Ip
BY NamesAssumption DEF ClientIp, Request

-----------------------------------------------------------------------------
LEMMA TypeInit == Init => TypeOK
BY SizesAssumption, NamesAssumption, CreditSizes DEF Init, TypeOK

LEMMA TypeBypass ==
    ASSUME TypeOK, NEW r \in Req, NEW q \in Request, Bypass(r, q)
    PROVE  TypeOK'
BY DEF TypeOK, Bypass

LEMMA TypeLookup ==
    ASSUME TypeOK, NEW r \in Req, NEW q \in Request, NEW b \in BucketId,
           Lookup(r, q, b)
    PROVE  TypeOK'
<1>1. ClientIp(q) \in Ip
  BY ClientIsKey
<1>2. cached' \in [Ip -> BucketId \cup {NoBucket}] /\ level' \in [BucketId -> 0..Full]
  BY <1>1, CreditSizes DEF TypeOK, Lookup, Hit, Create
<1>3. idle' \in [Ip -> 0..IdleTTL]
  BY <1>1, SizesAssumption DEF TypeOK, Lookup
<1>4. /\ held' \in [Req -> BucketId \cup {NoBucket}]
      /\ \A s \in Req : held'[s] # NoBucket <=> phase'[s] = "looked"
      /\ \A s \in Req : phase'[s] = "looked" => client'[s] \in Ip
  BY <1>1, NamesAssumption DEF TypeOK, Lookup
<1>5. QED
  BY <1>1, <1>2, <1>3, <1>4, SizesAssumption DEF TypeOK, Lookup

LEMMA TypeConsume ==
    ASSUME TypeOK, NEW r \in Req, Consume(r)
    PROVE  TypeOK'
<1>1. held[r] \in BucketId /\ level[held[r]] \in 0..Full
  BY DEF TypeOK, Consume
<1>2. /\ phase' \in [Req -> {"idle", "unfiltered", "looked", "admitted", "rejected"}]
      /\ phase'[r] # "looked"
      /\ \A s \in Req : s # r => phase'[s] = phase[s]
  BY DEF TypeOK, Consume, Admit, Reject
<1>3. level' \in [BucketId -> 0..Full]
  BY <1>1, CreditSizes DEF TypeOK, Consume, Admit, Reject
<1>4. retryAfter' \in [Req -> Nat]
  <2>1. RetryAfter(level[held[r]]) \in Nat
    BY <1>1, RetryAfterRange
  <2>2. QED
    BY <2>1 DEF TypeOK, Consume, Admit, Reject
<1>5. /\ held' \in [Req -> BucketId \cup {NoBucket}]
      /\ \A s \in Req : held'[s] # NoBucket <=> phase'[s] = "looked"
      /\ \A s \in Req : phase'[s] = "looked" => client'[s] \in Ip
  BY <1>2 DEF TypeOK, Consume
<1>6. waited' \in [Req -> 0..MaxStall]
  BY SizesAssumption DEF TypeOK, Consume
<1>7. QED
  BY <1>2, <1>3, <1>4, <1>5, <1>6 DEF TypeOK, Consume

LEMMA TypeRespond ==
    ASSUME TypeOK, NEW r \in Req, Respond(r)
    PROVE  TypeOK'
BY DEF TypeOK, Respond

LEMMA TypeEvict ==
    ASSUME TypeOK, NEW ip \in Ip, Evict(ip)
    PROVE  TypeOK'
BY SizesAssumption DEF TypeOK, Evict

LEMMA TypeTick ==
    ASSUME TypeOK, Tick
    PROVE  TypeOK'
<1>1. waited' \in [Req -> 0..MaxStall]
  BY SizesAssumption DEF TypeOK, Tick
<1>2. idle' \in [Ip -> 0..IdleTTL]
  BY SizesAssumption DEF TypeOK, Tick, Expires
<1>3. level' \in [BucketId -> 0..Full]
  BY SizesAssumption, CreditSizes DEF TypeOK, Tick, AtMost
<1>4. QED
  BY <1>1, <1>2, <1>3 DEF TypeOK, Tick

LEMMA TypeStep == TypeOK /\ [Next]_vars => TypeOK'
<1> SUFFICES ASSUME TypeOK, [Next]_vars PROVE TypeOK'
  OBVIOUS
<1>1. CASE UNCHANGED vars
  BY <1>1 DEF TypeOK, vars
<1>2. CASE Next
  BY <1>2, TypeBypass, TypeLookup, TypeConsume, TypeRespond, TypeEvict, TypeTick
     DEF Next
<1>3. QED
  BY <1>1, <1>2

\* Type correctness (RateLimitFilter.kt:36-99): for any configuration and any
\* number of clients and threads every variable keeps to its range.
THEOREM TypeCorrect == Spec => []TypeOK
BY TypeInit, TypeStep, PTL DEF Spec

-----------------------------------------------------------------------------
(* Bucket objects are private.                                             *)

LEMMA PrivateInit == Init => BucketsArePrivate
BY DEF Init, BucketsArePrivate, Live

\* A bucket a lookup creates is reachable from nowhere else, one it finds is
\* reachable only from the entry and the threads of its own address.
LEMMA PrivateLookup ==
    ASSUME TypeOK, BucketsArePrivate,
           NEW r \in Req, NEW q \in Request, NEW b \in BucketId, Lookup(r, q, b)
    PROVE  BucketsArePrivate'
<1> DEFINE me == ClientIp(q)
<1>1. /\ me \in Ip
      /\ cached'[me] = b
      /\ \A j \in Ip : j # me => cached'[j] = cached[j]
  BY ClientIsKey DEF TypeOK, Lookup, Hit, Create
<1>2. \A j \in Live : cached[j] = b => j = me
  BY <1>1 DEF TypeOK, BucketsArePrivate, Lookup, Hit, Create, InUse, Live
<1>3. \A s \in Req : phase[s] = "looked" /\ held[s] = b => client[s] = me
  BY <1>1, NamesAssumption
     DEF TypeOK, BucketsArePrivate, Lookup, Hit, Create, InUse, Live
<1>4. /\ phase'[r] = "looked" /\ held'[r] = b /\ client'[r] = me
      /\ \A s \in Req : s # r => /\ phase'[s] = phase[s]
                                 /\ held'[s] = held[s]
                                 /\ client'[s] = client[s]
  BY DEF TypeOK, Lookup
<1>5. \A i, j \in Live' : cached'[i] = cached'[j] => i = j
  BY <1>1, <1>2 DEF BucketsArePrivate, Live
<1>6. \A s \in Req, j \in Live' :
         phase'[s] = "looked" /\ held'[s] = cached'[j] => client'[s] = j
  BY <1>1, <1>2, <1>3, <1>4 DEF BucketsArePrivate, Live
<1>7. \A s, t \in Req : phase'[s] = "looked" /\ phase'[t] = "looked"
                          /\ held'[s] = held'[t] => client'[s] = client'[t]
  BY <1>3, <1>4 DEF BucketsArePrivate
<1>8. QED
  BY <1>5, <1>6, <1>7 DEF BucketsArePrivate

LEMMA PrivateStep == TypeOK /\ BucketsArePrivate /\ [Next]_vars => BucketsArePrivate'
<1> SUFFICES ASSUME TypeOK, BucketsArePrivate, [Next]_vars
             PROVE  BucketsArePrivate'
  OBVIOUS
<1>1. CASE UNCHANGED vars
  BY <1>1 DEF BucketsArePrivate, Live, vars
<1>2. ASSUME NEW r \in Req, NEW q \in Request, Bypass(r, q)
      PROVE  BucketsArePrivate'
  BY <1>2 DEF TypeOK, BucketsArePrivate, Live, Bypass
<1>3. ASSUME NEW r \in Req, NEW q \in Request, NEW b \in BucketId, Lookup(r, q, b)
      PROVE  BucketsArePrivate'
  BY <1>3, PrivateLookup
<1>4. ASSUME NEW r \in Req, Consume(r)
      PROVE  BucketsArePrivate'
  <2>1. /\ Live' = Live /\ cached' = cached /\ client' = client
        /\ \A s \in Req : phase'[s] = "looked" => /\ phase[s] = "looked"
                                                  /\ held'[s] = held[s]
    BY <1>4 DEF TypeOK, Consume, Admit, Reject, Live
  <2>2. QED
    BY <2>1 DEF BucketsArePrivate
<1>5. ASSUME NEW r \in Req, Respond(r)
      PROVE  BucketsArePrivate'
  <2>1. /\ Live' = Live /\ cached' = cached /\ held' = held
        /\ \A s \in Req : phase'[s] = "looked" => /\ phase[s] = "looked"
                                                  /\ client'[s] = client[s]
    BY <1>5 DEF TypeOK, Respond, Live
  <2>2. QED
    BY <2>1 DEF BucketsArePrivate
<1>6. ASSUME NEW ip \in Ip, Evict(ip)
      PROVE  BucketsArePrivate'
  <2>1. \A j \in Live' : j \in Live /\ cached'[j] = cached[j]
    BY <1>6 DEF TypeOK, Evict, Live
  <2>2. QED
    BY <1>6, <2>1 DEF Evict, BucketsArePrivate
<1>7. CASE Tick
  <2>1. \A j \in Live' : j \in Live /\ cached'[j] = cached[j]
    BY <1>7 DEF TypeOK, Tick, Live
  <2>2. QED
    BY <1>7, <2>1 DEF Tick, BucketsArePrivate
<1>8. QED
  BY <1>1, <1>2, <1>3, <1>4, <1>5, <1>6, <1>7 DEF Next

\* No bucket object ever serves two addresses (RateLimitFilter.kt:49-52), with
\* any number of entries evicted under the threads that use them.
THEOREM BucketsStayPrivate == Spec => []BucketsArePrivate
<1>1. Init => TypeOK /\ BucketsArePrivate
  BY TypeInit, PrivateInit
<1>2. TypeOK /\ BucketsArePrivate /\ [Next]_vars => (TypeOK /\ BucketsArePrivate)'
  BY TypeStep, PrivateStep
<1>3. QED
  BY <1>1, <1>2, PTL DEF Spec

\* Only an admitted request of the client itself lowers its tokens.
LEMMA IsolationStep ==
    TypeOK /\ BucketsArePrivate /\ [Next]_vars => OnlyOwnRequestsCost
<1> SUFFICES ASSUME TypeOK, BucketsArePrivate, [Next]_vars, NEW ip \in Ip,
                    TokensOf(ip)' < TokensOf(ip)
             PROVE  \E r \in Req : /\ phase[r] = "looked"
                                   /\ phase'[r] = "admitted"
                                   /\ client[r] = ip
  BY DEF OnlyOwnRequestsCost
<1> USE CreditSizes
<1>1. cached[ip] \in BucketId => level[cached[ip]] \in 0..Full
  BY DEF TypeOK
<1>2. CASE UNCHANGED vars
  BY <1>1, <1>2 DEF vars, TokensOf, TypeOK
<1>3. ASSUME NEW r \in Req, NEW q \in Request, Bypass(r, q)
      PROVE  FALSE
  BY <1>1, <1>3 DEF Bypass, TokensOf, TypeOK
<1>4. ASSUME NEW r \in Req, NEW q \in Request, NEW b \in BucketId, Lookup(r, q, b)
      PROVE  FALSE
  <2>1. CASE Hit(ClientIp(q), b)
    BY <1>1, <2>1 DEF Hit, TokensOf, TypeOK
  <2>2. CASE Create(ClientIp(q), b)
    <3>1. cached[ip] # b
      BY <2>2, NamesAssumption DEF Create, InUse, Live
    <3>2. TokensOf(ip)' = TokensOf(ip)
      BY <1>1, <2>2, <3>1, NamesAssumption DEF Create, TokensOf, TypeOK
    <3>3. QED
      BY <1>1, <3>2 DEF TokensOf, TypeOK
  <2>3. QED
    BY <1>4, <2>1, <2>2 DEF Lookup
<1>5. ASSUME NEW r \in Req, Consume(r)
      PROVE  /\ phase[r] = "looked"
             /\ phase'[r] = "admitted"
             /\ client[r] = ip
  <2>1. phase[r] = "looked" /\ cached' = cached
    BY <1>5 DEF Consume
  <2>2. CASE Reject(r)
    BY <1>1, <2>1, <2>2 DEF Reject, TokensOf, TypeOK
  <2>3. CASE Admit(r)
    <3>1. cached[ip] = held[r] /\ cached[ip] # NoBucket
      BY <1>1, <2>1, <2>3 DEF Admit, TokensOf, TypeOK
    <3>2. client[r] = ip
      BY <2>1, <3>1 DEF BucketsArePrivate, Live
    <3>3. QED
      BY <2>1, <2>3, <3>2 DEF Admit, TypeOK
  <2>4. QED
    BY <1>5, <2>2, <2>3 DEF Consume
<1>6. ASSUME NEW r \in Req, Respond(r)
      PROVE  FALSE
  BY <1>1, <1>6 DEF Respond, TokensOf, TypeOK
<1>7. ASSUME NEW j \in Ip, Evict(j)
      PROVE  FALSE
  BY <1>1, <1>7 DEF Evict, TokensOf, TypeOK
<1>8. CASE Tick
  BY <1>1, <1>8, SizesAssumption DEF Tick, TokensOf, TypeOK, AtMost
<1>9. QED
  BY <1>2, <1>3, <1>4, <1>5, <1>6, <1>7, <1>8 DEF Next

\* Clients are limited independently (RateLimitIntegrationTest.kt, "different
\* IPs"): no interleaving of other clients' requests, evictions and expiries
\* ever costs a client a token.
THEOREM ClientsAreIsolated == Spec => Isolation
<1>1. Init => TypeOK /\ BucketsArePrivate
  BY TypeInit, PrivateInit
<1>2. TypeOK /\ BucketsArePrivate /\ [Next]_vars => (TypeOK /\ BucketsArePrivate)'
  BY TypeStep, PrivateStep
<1>3. TypeOK /\ BucketsArePrivate /\ [Next]_vars => [OnlyOwnRequestsCost]_vars
  BY IsolationStep
<1>4. QED
  BY <1>1, <1>2, <1>3, PTL DEF Spec, Isolation

-----------------------------------------------------------------------------
(* The filter implements one token bucket per address, as long as no entry *)
(* is dropped for size and an expired bucket has had the time to refill.   *)

\* The inductive invariant.  Privacy of buckets is what makes a consume touch
\* one client only; Attached is what makes it touch the bucket the cache shows;
\* Replenished is what makes an expiry invisible.
IInv == TypeOK /\ BucketsArePrivate /\ Attached /\ Replenished

\* Every address fits in the cache, so nothing is ever dropped for size.
LEMMA NoEviction ==
    ASSUME CacheFitsClients, NEW ip \in Ip
    PROVE  ~Evict(ip)
<1>1. Cardinality(Live) <= Cardinality(Ip)
  BY FS_Subset DEF CacheFitsClients, Live
<1>2. IsFiniteSet(Live)
  BY FS_Subset DEF CacheFitsClients, Live
<1>3. Cardinality(Live) \in Nat /\ Cardinality(Ip) \in Nat
  BY <1>2, FS_CardinalityType DEF CacheFitsClients
<1>4. QED
  BY <1>1, <1>3, SizesAssumption DEF CacheFitsClients, Evict

\* The entry of a thread between lookup and consume does not expire.
LEMMA AttachedDoesNotExpire ==
    ASSUME TypeOK, Attached, ExpiryIsInvisible, Tick,
           NEW r \in Req, phase[r] = "looked"
    PROVE  /\ client[r] \in Ip
           /\ ~Expires(client[r])
           /\ idle[client[r]] + 1 <= waited[r] + 1
<1>1. waited[r] < MaxStall /\ waited[r] \in Nat /\ client[r] \in Ip
  BY DEF Tick, TypeOK
<1>2. idle[client[r]] \in Nat /\ idle[client[r]] <= waited[r]
  BY <1>1 DEF TypeOK, Attached
<1>3. QED
  BY <1>1, <1>2, SizesAssumption DEF Expires, ExpiryIsInvisible

LEMMA AttachedStep ==
    ASSUME ExpiryIsInvisible, CacheFitsClients
    PROVE  TypeOK /\ Attached /\ [Next]_vars => Attached'
<1> SUFFICES ASSUME TypeOK, Attached, [Next]_vars, NEW s \in Req, phase'[s] = "looked"
             PROVE  /\ cached'[client'[s]] = held'[s]
                    /\ idle'[client'[s]] <= waited'[s]
  BY DEF Attached
<1>0. phase[s] = "looked" => /\ client[s] \in Ip
                             /\ held[s] \in BucketId
                             /\ cached[client[s]] = held[s]
                             /\ idle[client[s]] \in Nat
                             /\ waited[s] \in Nat
                             /\ idle[client[s]] <= waited[s]
  BY DEF TypeOK, Attached
<1>1. CASE UNCHANGED vars
  BY <1>0, <1>1 DEF vars
<1>2. ASSUME NEW r \in Req, NEW q \in Request, Bypass(r, q)
      PROVE  phase[s] = "looked" /\ UNCHANGED <<client, cached, held, idle, waited>>
  BY <1>2 DEF Bypass, TypeOK
<1>3. ASSUME NEW r \in Req, NEW q \in Request, NEW b \in BucketId, Lookup(r, q, b)
      PROVE  /\ cached'[client'[s]] = held'[s]
             /\ idle'[client'[s]] <= waited'[s]
  <2>1. /\ ClientIp(q) \in Ip /\ cached'[ClientIp(q)] = b /\ idle'[ClientIp(q)] = 0
        /\ \A j \in Ip : j # ClientIp(q) => cached'[j] = cached[j] /\ idle'[j] = idle[j]
    BY <1>3, ClientIsKey DEF Lookup, Hit, Create, TypeOK
  <2>2. CASE s = r
    BY <1>3, <2>1, <2>2 DEF Lookup, TypeOK
  <2>3. CASE s # r
    <3>1. /\ phase[s] = "looked" /\ client'[s] = client[s]
          /\ held'[s] = held[s] /\ waited'[s] = waited[s]
      BY <1>3, <2>3 DEF Lookup, TypeOK
    <3>2. client[s] = ClientIp(q) => b = held[s]
      BY <1>0, <1>3, <3>1, NamesAssumption DEF Lookup, Hit, Create
    <3>3. QED
      BY <1>0, <2>1, <3>1, <3>2
  <2>4. QED
    BY <2>2, <2>3
<1>4. ASSUME NEW r \in Req, Consume(r)
      PROVE  /\ phase[s] = "looked" /\ UNCHANGED <<client, cached, idle>>
             /\ held'[s] = held[s] /\ waited'[s] = waited[s]
  BY <1>4 DEF Consume, Admit, Reject, TypeOK
<1>5. ASSUME NEW r \in Req, Respond(r)
      PROVE  /\ phase[s] = "looked" /\ UNCHANGED <<cached, held, idle, waited>>
             /\ client'[s] = client[s]
  BY <1>5 DEF Respond, TypeOK
<1>6. CASE Tick
  <2>1. phase[s] = "looked" /\ UNCHANGED <<client, held>>
    BY <1>6 DEF Tick
  <2>2. /\ ~Expires(client[s])
        /\ idle[client[s]] + 1 <= waited[s] + 1
    BY <1>6, <2>1, AttachedDoesNotExpire
  <2>3. /\ cached'[client[s]] = cached[client[s]]
        /\ idle'[client[s]] = idle[client[s]] + 1
        /\ waited'[s] = waited[s] + 1
    BY <1>0, <1>6, <2>1, <2>2, NamesAssumption DEF Tick
  <2>4. QED
    BY <1>0, <2>1, <2>2, <2>3
<1>7. QED
  BY <1>0, <1>1, <1>2, <1>3, <1>4, <1>5, <1>6, NoEviction DEF Next

\* What n ticks past the longest stall must have refilled, in credits.
Owed(n) == AtMost(RefillTokens * (n - MaxStall), Full)

LEMMA OwedFacts ==
    /\ \A n \in Nat : Owed(n) \in Int /\ Owed(n) <= Full
    /\ \A n \in Nat : n <= MaxStall => Owed(n) <= 0
    /\ \A n \in Nat, l \in 0..Full :
          l >= Owed(n) => AtMost(l + RefillTokens, Full) >= Owed(n + 1)
    /\ ExpiryIsInvisible =>
          \A n \in Nat : n >= IdleTTL => Owed(n) = Full
<1> USE SizesAssumption, CreditSizes DEF Owed, AtMost
<1>1. \A n \in Nat : RefillTokens * (n - MaxStall) \in Int
  OBVIOUS
<1>2. \A n \in Nat : n <= MaxStall => RefillTokens * (n - MaxStall) <= 0
  <2>1. \A k \in Nat, m \in Int : m <= 0 => k * m <= 0
    OBVIOUS
  <2>2. QED
    BY <2>1
<1>3. \A n \in Nat :
         RefillTokens * (n + 1 - MaxStall) = RefillTokens * (n - MaxStall) + RefillTokens
  OBVIOUS
<1>4. ASSUME ExpiryIsInvisible, NEW n \in Nat, n >= IdleTTL
      PROVE  RefillTokens * (n - MaxStall) >= Full
  <2>1. \A k \in Nat, i, j \in Int : i <= j => k * i <= k * j
    OBVIOUS
  <2>2. RefillTokens * (IdleTTL - MaxStall) <= RefillTokens * (n - MaxStall)
    BY <1>4, <2>1
  <2>3. QED
    BY <1>1, <1>4, <2>2 DEF ExpiryIsInvisible
<1>5. QED
  BY <1>1, <1>2, <1>3, <1>4

LEMMA ReplenishedStep ==
    ASSUME ExpiryIsInvisible, CacheFitsClients
    PROVE  IInv /\ [Next]_vars => Replenished'
<1> SUFFICES ASSUME IInv, [Next]_vars, NEW ip \in Live'
             PROVE  level'[cached'[ip]] >= Owed(idle'[ip])
  BY DEF Replenished, Owed, Live
<1>0. /\ ip \in Ip /\ idle[ip] \in Nat
      /\ cached[ip] # NoBucket => /\ cached[ip] \in BucketId
                                  /\ level[cached[ip]] \in 0..Full
                                  /\ level[cached[ip]] >= Owed(idle[ip])
  BY DEF IInv, TypeOK, Live, Replenished, Owed
<1>1. CASE UNCHANGED vars
  BY <1>0, <1>1 DEF vars, Live
<1>2. ASSUME NEW r \in Req, NEW q \in Request, Bypass(r, q)
      PROVE  cached[ip] # NoBucket /\ UNCHANGED <<cached, idle, level>>
  BY <1>2 DEF Bypass, Live
<1>3. ASSUME NEW r \in Req, NEW q \in Request, NEW b \in BucketId, Lookup(r, q, b)
      PROVE  level'[cached'[ip]] >= Owed(idle'[ip])
  <2>1. /\ ClientIp(q) \in Ip /\ cached'[ClientIp(q)] = b /\ idle'[ClientIp(q)] = 0
        /\ \A j \in Ip : j # ClientIp(q) => cached'[j] = cached[j] /\ idle'[j] = idle[j]
    BY <1>3, ClientIsKey DEF IInv, Lookup, Hit, Create, TypeOK
  <2>2. level' \in [BucketId -> 0..Full]
    BY <1>3, TypeLookup DEF IInv, TypeOK
  <2>3. CASE ip = ClientIp(q)
    BY <2>1, <2>2, <2>3, OwedFacts, CreditSizes, SizesAssumption
  <2>4. CASE ip # ClientIp(q)
    <3>1. cached'[ip] = cached[ip] /\ cached[ip] # NoBucket /\ idle'[ip] = idle[ip]
      BY <1>0, <2>1, <2>4 DEF Live
    <3>2. level'[cached[ip]] = level[cached[ip]]
      BY <1>0, <1>3, <3>1 DEF IInv, Lookup, Hit, Create, InUse, Live, TypeOK
    <3>3. QED
      BY <1>0, <3>1, <3>2
  <2>5. QED
    BY <2>3, <2>4
<1>4. ASSUME NEW r \in Req, Consume(r)
      PROVE  level'[cached'[ip]] >= Owed(idle'[ip])
  <2>1. cached' = cached /\ idle' = idle /\ cached[ip] # NoBucket /\ phase[r] = "looked"
    BY <1>4 DEF Consume, Live
  <2>2. level' \in [BucketId -> 0..Full]
    BY <1>4, TypeConsume DEF IInv, TypeOK
  <2>3. CASE cached[ip] = held[r]
    <3>1. client[r] = ip
      BY <1>0, <2>1, <2>3 DEF IInv, BucketsArePrivate, Live
    <3>2. idle[ip] <= MaxStall
      BY <1>0, <2>1, <3>1, SizesAssumption DEF IInv, TypeOK, Attached
    <3>3. QED
      BY <1>0, <2>1, <2>2, <3>2, OwedFacts, CreditSizes
  <2>4. CASE cached[ip] # held[r]
    <3>1. level'[cached[ip]] = level[cached[ip]]
      BY <1>0, <1>4, <2>1, <2>4 DEF IInv, TypeOK, Consume, Admit, Reject
    <3>2. QED
      BY <1>0, <2>1, <3>1
  <2>5. QED
    BY <2>3, <2>4
<1>5. ASSUME NEW r \in Req, Respond(r)
      PROVE  cached[ip] # NoBucket /\ UNCHANGED <<cached, idle, level>>
  BY <1>5 DEF Respond, Live
<1>6. CASE Tick
  <2>1. cached[ip] # NoBucket /\ cached'[ip] = cached[ip] /\ idle'[ip] = idle[ip] + 1
    BY <1>0, <1>6 DEF Tick, Live
  <2>2. level'[cached[ip]] = AtMost(level[cached[ip]] + RefillTokens, Full)
    BY <1>0, <1>6, <2>1 DEF Tick
  <2>3. QED
    BY <1>0, <2>1, <2>2, OwedFacts
<1>7. QED
  BY <1>0, <1>1, <1>2, <1>3, <1>4, <1>5, <1>6, NoEviction DEF Next

LEMMA InductiveInit == Init => IInv
<1> SUFFICES ASSUME Init PROVE IInv
  OBVIOUS
<1>1. Attached /\ Replenished
  BY DEF Init, Attached, Replenished, Live
<1>2. QED
  BY <1>1, TypeInit, PrivateInit DEF IInv

LEMMA InductiveStep ==
    ASSUME ExpiryIsInvisible, CacheFitsClients
    PROVE  IInv /\ [Next]_vars => IInv'
BY TypeStep, PrivateStep, AttachedStep, ReplenishedStep DEF IInv

\* A thread consumes from the bucket the cache shows for its address: no two
\* live buckets ever serve one client (RateLimitFilter.kt:49-52).
THEOREM ThreadsStayAttached ==
    ASSUME ExpiryIsInvisible, CacheFitsClients
    PROVE  Spec => []Attached
<1>1. IInv /\ [Next]_vars => IInv'
  BY InductiveStep
<1>2. IInv => Attached
  BY DEF IInv
<1>3. QED
  BY <1>1, <1>2, InductiveInit, PTL DEF Spec

\* A bucket that has been idle has refilled accordingly, and is full by the
\* time its entry expires (RateLimitFilter.kt:36-39).
THEOREM IdleBucketsRefill ==
    ASSUME ExpiryIsInvisible, CacheFitsClients
    PROVE  Spec => []Replenished
<1>1. IInv /\ [Next]_vars => IInv'
  BY InductiveStep
<1>2. IInv => Replenished
  BY DEF IInv
<1>3. QED
  BY <1>1, <1>2, InductiveInit, PTL DEF Spec

-----------------------------------------------------------------------------
LEMMA InitRefines == Init => TB!Init
BY DEF Init, TB!Init, TokensOf, Verdicts

\* A lookup, whether it finds or creates the bucket, is invisible.
LEMMA LookupRefines ==
    ASSUME IInv, NEW r \in Req, NEW q \in Request, NEW b \in BucketId, Lookup(r, q, b)
    PROVE  UNCHANGED TB!vars
<1>1. Verdicts' = Verdicts
  BY DEF IInv, TypeOK, Lookup, Verdicts
<1>2. ASSUME NEW ip \in Ip
      PROVE  TokensOf(ip)' = TokensOf(ip)
  <2>1. CASE Hit(ClientIp(q), b)
    BY <2>1 DEF Hit, TokensOf
  <2>2. CASE Create(ClientIp(q), b)
    <3>1. cached[ip] # b
      BY <2>2, NamesAssumption DEF Create, InUse, Live
    <3>2. QED
      BY <2>2, <3>1, NamesAssumption DEF Create, TokensOf, IInv, TypeOK
  <2>3. QED
    BY <2>1, <2>2 DEF Lookup
<1>3. QED
  BY <1>1, <1>2 DEF TB!vars

\* A consume is the abstract decision for the address of the request.
LEMMA ConsumeRefines ==
    ASSUME IInv, NEW r \in Req, Consume(r)
    PROVE  TB!Admit(r, client[r]) \/ TB!Reject(r, client[r])
<1>1. /\ phase[r] = "looked" /\ client[r] \in Ip /\ held[r] \in BucketId
      /\ cached' = cached /\ cached[client[r]] = held[r]
      /\ level[held[r]] \in 0..Full
  BY DEF Consume, IInv, TypeOK, Attached
<1>2. TokensOf(client[r]) = level[held[r]]
  BY <1>1, NamesAssumption DEF TokensOf
<1>3. \A ip \in Ip : ip # client[r] => cached[ip] # held[r]
  BY <1>1, NamesAssumption DEF IInv, BucketsArePrivate, Live
<1>4. Verdicts[r] = "none"
  BY <1>1 DEF Verdicts
<1>5. CASE Admit(r)
  <2>1. Verdicts' = [Verdicts EXCEPT ![r] = "admitted"]
    BY <1>5 DEF Admit, Verdicts, IInv, TypeOK
  <2>2. ASSUME NEW ip \in Ip
        PROVE  TokensOf(ip)' = IF ip = client[r] THEN TokensOf(ip) - Token ELSE TokensOf(ip)
    BY <1>1, <1>3, <1>5, NamesAssumption DEF Admit, TokensOf, IInv, TypeOK
  <2>3. QED
    BY <1>1, <1>2, <1>4, <1>5, <2>1, <2>2 DEF Admit, TB!Admit
<1>6. CASE Reject(r)
  <2>1. Verdicts' = [Verdicts EXCEPT ![r] = "rejected"]
    BY <1>6 DEF Reject, Verdicts, IInv, TypeOK
  <2>2. \A ip \in Ip : TokensOf(ip)' = TokensOf(ip)
    BY <1>1, <1>6 DEF Reject, TokensOf
  <2>3. QED
    BY <1>1, <1>2, <1>4, <1>6, <2>1, <2>2 DEF Reject, TB!Reject
<1>7. QED
  BY <1>5, <1>6 DEF Consume

\* Time passes equally for both: what an expiry forgets was a full bucket.
LEMMA TickRefines ==
    ASSUME IInv, ExpiryIsInvisible, Tick
    PROVE  TB!Tick
<1>1. Verdicts' = Verdicts
  BY DEF Tick, Verdicts
<1>2. ASSUME NEW ip \in Ip
      PROVE  TokensOf(ip)' = AtMost(TokensOf(ip) + RefillTokens, Full)
  <2>1. CASE cached[ip] = NoBucket
    <3>1. TokensOf(ip)' = Full /\ TokensOf(ip) = Full
      BY <2>1 DEF Tick, TokensOf
    <3>2. QED
      BY <3>1, SizesAssumption, CreditSizes DEF AtMost
  <2>2. CASE cached[ip] # NoBucket /\ Expires(ip)
    <3>1. TokensOf(ip)' = Full
      BY <2>2 DEF Tick, TokensOf
    <3>2. /\ idle[ip] \in Nat /\ idle[ip] + 1 >= IdleTTL
          /\ level[cached[ip]] \in 0..Full
          /\ level[cached[ip]] >= Owed(idle[ip])
      BY <2>2, SizesAssumption
         DEF Expires, IInv, TypeOK, Replenished, Owed, Live
    <3>3. AtMost(level[cached[ip]] + RefillTokens, Full) >= Full
      BY <3>2, OwedFacts
    <3>4. AtMost(level[cached[ip]] + RefillTokens, Full) = Full
      BY <3>2, <3>3, CreditSizes, SizesAssumption DEF AtMost
    <3>5. QED
      BY <2>2, <3>1, <3>4 DEF TokensOf
  <2>3. CASE cached[ip] # NoBucket /\ ~Expires(ip)
    BY <2>3 DEF Tick, TokensOf, IInv, TypeOK
  <2>4. QED
    BY <2>1, <2>2, <2>3
<1>3. QED
  BY <1>1, <1>2 DEF TB!Tick, AtMost

LEMMA StepRefines ==
    ASSUME ExpiryIsInvisible, CacheFitsClients
    PROVE  IInv /\ [Next]_vars => [TB!Next]_(TB!vars)
<1> SUFFICES ASSUME IInv, [Next]_vars
             PROVE  TB!Next \/ UNCHANGED TB!vars
  OBVIOUS
<1>1. CASE UNCHANGED vars
  BY <1>1 DEF vars, TB!vars, TokensOf, Verdicts
<1>2. ASSUME NEW r \in Req, NEW q \in Request, Bypass(r, q)
      PROVE  UNCHANGED TB!vars
  BY <1>2 DEF Bypass, TB!vars, TokensOf, Verdicts, IInv, TypeOK
<1>3. ASSUME NEW r \in Req, NEW q \in Request, NEW b \in BucketId, Lookup(r, q, b)
      PROVE  UNCHANGED TB!vars
  BY <1>3, LookupRefines
<1>4. ASSUME NEW r \in Req, Consume(r)
      PROVE  TB!Next
  <2>1. client[r] \in Ip
    BY <1>4 DEF Consume, IInv, TypeOK
  <2>2. QED
    BY <1>4, <2>1, ConsumeRefines DEF TB!Next
<1>5. ASSUME NEW r \in Req, Respond(r)
      PROVE  TB!Next \/ UNCHANGED TB!vars
  <2>1. \A ip \in Ip : TokensOf(ip)' = TokensOf(ip)
    BY <1>5 DEF Respond, TokensOf
  <2>2. CASE phase[r] = "unfiltered"
    <3>1. Verdicts' = Verdicts
      BY <1>5, <2>2 DEF Respond, Verdicts, IInv, TypeOK
    <3>2. QED
      BY <2>1, <3>1 DEF TB!vars
  <2>3. CASE phase[r] # "unfiltered"
    <3>1. Verdicts[r] # "none" /\ Verdicts' = [Verdicts EXCEPT ![r] = "none"]
      BY <1>5, <2>3 DEF Respond, Verdicts, IInv, TypeOK
    <3>2. TB!Finish(r)
      BY <2>1, <3>1 DEF TB!Finish
    <3>3. QED
      BY <3>2 DEF TB!Next
  <2>4. QED
    BY <2>2, <2>3
<1>6. CASE Tick
  BY <1>6, TickRefines DEF TB!Next
<1>7. QED
  BY <1>1, <1>2, <1>3, <1>4, <1>5, <1>6, NoEviction DEF Next

\* The filter with its cache, its bucket objects and its threads implements one
\* token bucket per address (RateLimitFilter.kt:36-78), for every number of
\* clients that fits in the cache and every rate that refills a bucket within
\* the idle time.
THEOREM FilterImplementsTokenBucket ==
    ASSUME ExpiryIsInvisible, CacheFitsClients
    PROVE  Spec => ImplementsTokenBucket
<1>1. IInv /\ [Next]_vars => IInv'
  BY InductiveStep
<1>2. IInv /\ [Next]_vars => [TB!Next]_(TB!vars)
  BY StepRefines
<1>3. QED
  BY <1>1, <1>2, InductiveInit, InitRefines, PTL
     DEF Spec, ImplementsTokenBucket, TB!Spec

-----------------------------------------------------------------------------
(* The client that waits for as long as it is told to.                     *)

\* After a rejection the seconds that are left to wait will bring every bucket
\* one token at least, and until they are over no request is under way.
PoliteInv ==
    /\ TypeOK
    /\ patience \in Nat
    /\ refusals \in {0, 1}
    /\ \A r, s \in Req : phase[r] # "idle" /\ phase[s] # "idle" => r = s
    /\ \A r \in Req : phase[r] # "idle" => patience = 0
    /\ \A r \in Req : phase[r] = "rejected" => retryAfter[r] >= 1 /\ refusals = 0
    /\ refusals = 1 /\ (\A r \in Req : phase[r] # "admitted") =>
          \A b \in BucketId : level[b] + patience * RefillTokens >= Token

LEMMA PoliteStart == PoliteInit => PoliteInv
BY TypeInit DEF PoliteInit, PoliteInv, Init

\* One second or more brings a token.
LEMMA SecondsBringAToken ==
    ASSUME OneTokenASecond, NEW seconds \in Nat, seconds >= 1
    PROVE  /\ seconds * TicksPerSecond \in Nat
           /\ (seconds * TicksPerSecond) * RefillTokens >= Token
<1>1. \A k, m, n \in Nat : k >= 1 => k * m \in Nat /\ (k * m) * n >= m * n
  <2> SUFFICES ASSUME NEW k \in Nat, NEW m \in Nat, NEW n \in Nat, k >= 1
               PROVE  k * m \in Nat /\ (k * m) * n >= m * n
    OBVIOUS
  <2>1. k * m \in Nat /\ k * m >= m
    OBVIOUS
  <2> QED
    BY <2>1
<1>2. \A m, n, p \in Nat : n >= p => m * n >= p * m
  OBVIOUS
<1>3. (seconds * TicksPerSecond) * RefillTokens >= TicksPerSecond * RefillTokens
  BY <1>1, SizesAssumption
<1>4. TicksPerSecond * RefillTokens >= Token
  BY <1>2, SizesAssumption DEF OneTokenASecond, Token
<1>5. /\ seconds * TicksPerSecond \in Nat
      /\ (seconds * TicksPerSecond) * RefillTokens \in Nat
      /\ TicksPerSecond * RefillTokens \in Nat
  BY SizesAssumption
<1> QED
  BY <1>3, <1>4, <1>5, CreditSizes

LEMMA PoliteSend ==
    ASSUME PoliteInv, NEW r \in Req, Send(r)
    PROVE  PoliteInv'
<1>1. PICK q \in Request, b \in BucketId : Lookup(r, q, b)
  BY DEF Send
<1>2. TypeOK'
  BY <1>1, TypeLookup DEF PoliteInv
<1>3. /\ patience = 0 /\ patience' = 0 /\ refusals' = refusals
      /\ \A s \in Req : phase[s] = "idle"
  BY DEF Send, clientVars
<1>4. \A s \in Req : phase'[s] = IF s = r THEN "looked" ELSE "idle"
  BY <1>1, <1>3 DEF Lookup, PoliteInv, TypeOK
<1>5. ASSUME refusals = 1, NEW c \in BucketId
      PROVE  level'[c] + 0 * RefillTokens >= Token
  <2>1. level[c] + patience * RefillTokens >= Token
    BY <1>3, <1>5 DEF PoliteInv
  <2>2. level[c] >= Token
    BY <2>1, <1>3, SizesAssumption DEF PoliteInv, TypeOK
  <2>3. level'[c] = level[c] \/ level'[c] = Full
    BY <1>1 DEF Lookup, Hit, Create, PoliteInv, TypeOK
  <2>4. level'[c] >= Token /\ level'[c] \in Nat
    BY <2>2, <2>3, <1>2, CreditSizes DEF TypeOK
  <2> QED
    BY <2>4, SizesAssumption
<1> QED
  BY <1>2, <1>3, <1>4, <1>5 DEF PoliteInv

\* A request that was rejected before is admitted now.
LEMMA PoliteServe ==
    ASSUME PoliteInv, NEW r \in Req, Serve(r)
    PROVE  PoliteInv'
<1>1. Consume(r) /\ patience' = patience /\ refusals' = refusals
  BY DEF Serve, clientVars
<1>2. TypeOK'
  BY <1>1, TypeConsume DEF PoliteInv
<1>3. /\ phase[r] = "looked" /\ held[r] \in BucketId
      /\ level[held[r]] \in 0..Full /\ patience = 0
  BY <1>1 DEF Consume, PoliteInv, TypeOK
<1>4. \A s \in Req : s # r => phase'[s] = "idle" /\ phase[s] = "idle"
  BY <1>1, <1>3 DEF Consume, Admit, Reject, PoliteInv, TypeOK
<1>5. CASE Admit(r)
  <2>1. phase'[r] = "admitted"
    BY <1>5 DEF Admit, PoliteInv, TypeOK
  <2> QED
    BY <1>1, <1>2, <1>3, <1>4, <2>1 DEF PoliteInv
<1>6. CASE Reject(r)
  <2>1. phase'[r] = "rejected" /\ retryAfter'[r] = RetryAfter(level[held[r]])
    BY <1>6 DEF Reject, PoliteInv, TypeOK
  <2>2. retryAfter'[r] >= 1
    BY <2>1, <1>3, CreditSizes, RetryAfterRange
  <2>3. refusals = 0
    <3>1. CASE refusals = 1
      <4>1. \A s \in Req : phase[s] # "admitted"
        BY <1>3, <1>4
      <4>2. level[held[r]] + patience * RefillTokens >= Token
        BY <3>1, <4>1, <1>3 DEF PoliteInv
      <4>3. level[held[r]] >= Token
        BY <4>2, <1>3, CreditSizes, SizesAssumption
      <4> QED
        BY <4>3, <1>3, <1>6, CreditSizes DEF Reject
    <3> QED
      BY <3>1 DEF PoliteInv
  <2> QED
    BY <1>1, <1>2, <1>3, <1>4, <2>1, <2>2, <2>3 DEF PoliteInv
<1> QED
  BY <1>1, <1>5, <1>6 DEF Consume

LEMMA PoliteReceive ==
    ASSUME OneTokenASecond, PoliteInv, NEW r \in Req, Receive(r)
    PROVE  PoliteInv'
<1>1. TypeOK'
  BY TypeRespond DEF Receive, PoliteInv
<1>2. /\ phase[r] # "idle" /\ patience = 0 /\ retryAfter[r] \in Nat
      /\ level' = level
      /\ patience' = retryAfter[r] * TicksPerSecond
      /\ refusals' = IF phase[r] = "rejected" THEN refusals + 1 ELSE 0
  BY DEF Receive, Respond, PoliteInv, TypeOK
<1>3. \A s \in Req : phase'[s] = "idle"
  BY <1>2 DEF Receive, Respond, PoliteInv, TypeOK
<1>4. patience' \in Nat
  BY <1>2, SizesAssumption
<1>5. CASE phase[r] = "rejected"
  <2>1. retryAfter[r] >= 1 /\ refusals' = 1
    BY <1>2, <1>5 DEF PoliteInv
  <2>2. patience' * RefillTokens >= Token
    BY <1>2, <2>1, SecondsBringAToken
  <2>3. patience' * RefillTokens \in Nat
    <3>1. \A m, n \in Nat : m * n \in Nat
      OBVIOUS
    <3> QED
      BY <1>4, <3>1, SizesAssumption
  <2>4. \A b \in BucketId : level'[b] + patience' * RefillTokens >= Token
    BY <1>2, <2>2, <2>3, CreditSizes DEF PoliteInv, TypeOK
  <2> QED
    BY <1>1, <1>3, <1>4, <2>1, <2>4 DEF PoliteInv
<1>6. CASE phase[r] # "rejected"
  BY <1>1, <1>2, <1>3, <1>4, <1>6 DEF PoliteInv
<1> QED
  BY <1>5, <1>6

\* What a tick takes from the patience it adds to the buckets.
LEMMA PoliteWait ==
    ASSUME PoliteInv, Wait
    PROVE  PoliteInv'
<1>1. TypeOK'
  BY TypeTick DEF Wait, PoliteInv
<1>2. /\ phase' = phase /\ retryAfter' = retryAfter /\ refusals' = refusals
      /\ patience' = AtLeast(patience - 1, 0)
      /\ patience \in Nat
  BY DEF Wait, Tick, PoliteInv
<1>3. patience' \in Nat /\ (patience = 0 => patience' = 0)
  BY <1>2 DEF AtLeast
<1>4. ASSUME NEW b \in BucketId, level[b] + patience * RefillTokens >= Token
      PROVE  level'[b] + patience' * RefillTokens >= Token
  <2>1. level[b] \in Nat /\ level'[b] = AtMost(level[b] + RefillTokens, Full)
    BY CreditSizes DEF Wait, Tick, PoliteInv, TypeOK
  <2>2. patience * RefillTokens \in Nat /\ patience' * RefillTokens \in Nat
    BY <1>2, <1>3, SizesAssumption
  <2>3. patience # 0 => patience * RefillTokens = patience' * RefillTokens + RefillTokens
    BY <1>2, SizesAssumption DEF AtLeast
  <2>4. patience = 0 => patience * RefillTokens = 0
    BY SizesAssumption
  <2> HIDE <1>2
  <2> QED
    BY <1>4, <2>1, <2>2, <2>3, <2>4, CreditSizes, SizesAssumption DEF AtMost
<1> QED
  BY <1>1, <1>2, <1>3, <1>4 DEF PoliteInv

\* A client that waits for the announced seconds is not rejected twice running
\* (RateLimitFilter.kt:60-61, 69), whatever the capacity, as long as the rate is
\* one token a second or more, as configured.
THEOREM WaitingSuffices ==
    ASSUME OneTokenASecond
    PROVE  PoliteSpec => []WaitingIsEnough
<1>1. PoliteInv /\ [PoliteNext]_allVars => PoliteInv'
  <2> SUFFICES ASSUME PoliteInv, [PoliteNext]_allVars PROVE PoliteInv'
    OBVIOUS
  <2>1. CASE UNCHANGED allVars
    BY <2>1 DEF PoliteInv, TypeOK, allVars, clientVars, vars
  <2> QED
    BY <2>1, PoliteSend, PoliteServe, PoliteReceive, PoliteWait DEF PoliteNext
<1>2. PoliteInv => WaitingIsEnough
  BY DEF PoliteInv, WaitingIsEnough
<1> QED
  BY <1>1, <1>2, PoliteStart, PTL DEF PoliteSpec
-----------------------------------------------------------------------------
(* The rate at which the requests of one address are admitted.             *)

\* What was admitted since the window was opened and what could still be, now,
\* was there when it was opened or came with the time that has passed.
RateInv ==
    /\ IInv
    /\ elapsed \in Nat
    /\ admitted \in Nat
    /\ admitted * Token + TokensOf(Watched) <= Full + elapsed * RefillTokens

LEMMA TokensRange ==
    ASSUME TypeOK
    PROVE  TokensOf(Watched) \in 0..Full
BY CreditSizes, ObserverAssumption DEF TypeOK, TokensOf

LEMMA OneMore ==
    ASSUME NEW m \in Nat, NEW n \in Nat
    PROVE  m * n \in Nat /\ (m + 1) * n = m * n + n
OBVIOUS

LEMMA RateStart == RateInit => RateInv
<1> SUFFICES ASSUME RateInit PROVE RateInv
  OBVIOUS
<1>1. IInv
  BY InductiveInit DEF RateInit
<1>2. TokensOf(Watched) \in 0..Full
  BY <1>1, TokensRange DEF IInv
<1> QED
  BY <1>1, <1>2, CreditSizes, SizesAssumption DEF RateInit, RateInv

\* The step of the filter that every step of the two together is.
LEMMA ObserverChangesNothing == [RateNext]_rateVars => [Next]_vars
BY DEF RateNext, rateVars, Open, Handle, Decide, Pass, Next

LEMMA HandleCostsNothing ==
    ASSUME CacheFitsClients, IInv, Handle
    PROVE  TokensOf(Watched)' = TokensOf(Watched)
<1>1. ASSUME NEW r \in Req, NEW q \in Request, Bypass(r, q)
      PROVE  TokensOf(Watched)' = TokensOf(Watched)
  BY <1>1 DEF Bypass, TokensOf
<1>2. ASSUME NEW r \in Req, NEW q \in Request, NEW b \in BucketId, Lookup(r, q, b)
      PROVE  TokensOf(Watched)' = TokensOf(Watched)
  BY <1>2, LookupRefines, ObserverAssumption DEF TB!vars
<1>3. ASSUME NEW r \in Req, Respond(r)
      PROVE  TokensOf(Watched)' = TokensOf(Watched)
  BY <1>3 DEF Respond, TokensOf
<1> QED
  BY <1>1, <1>2, <1>3, NoEviction DEF Handle

LEMMA DecideCosts ==
    ASSUME IInv, NEW r \in Req, Decide(r)
    PROVE  \/ /\ admitted' = admitted
              /\ TokensOf(Watched)' <= TokensOf(Watched)
           \/ /\ admitted' = admitted + 1
              /\ TokensOf(Watched)' = TokensOf(Watched) - Token
<1>1. client[r] \in Ip /\ Verdicts[r] = "none"
  BY DEF Decide, Consume, Verdicts, IInv, TypeOK
<1>2. TokensOf(Watched) \in Nat /\ Token \in Nat
  BY TokensRange, CreditSizes, SizesAssumption DEF IInv
<1>3. CASE TB!Admit(r, client[r])
  <2>1. Verdicts'[r] = "admitted"
    BY <1>3 DEF TB!Admit, Verdicts
  <2>2. phase'[r] = "admitted"
    BY <2>1 DEF Verdicts
  <2>3. TokensOf(Watched)' = IF client[r] = Watched THEN TokensOf(Watched) - Token
                                                    ELSE TokensOf(Watched)
    BY <1>1, <1>3, ObserverAssumption DEF TB!Admit
  <2> QED
    BY <1>2, <2>2, <2>3 DEF Decide
<1>4. CASE TB!Reject(r, client[r])
  <2>1. Verdicts'[r] = "rejected"
    BY <1>4 DEF TB!Reject, Verdicts
  <2>2. phase'[r] # "admitted"
    BY <2>1 DEF Verdicts
  <2>3. TokensOf(Watched)' = TokensOf(Watched)
    BY <1>4, ObserverAssumption DEF TB!Reject
  <2> QED
    BY <1>2, <2>2, <2>3 DEF Decide
<1> QED
  BY <1>3, <1>4, ConsumeRefines DEF Decide

LEMMA PassBrings ==
    ASSUME IInv, ExpiryIsInvisible, Pass
    PROVE  TokensOf(Watched)' <= TokensOf(Watched) + RefillTokens
<1>1. TB!Tick
  BY TickRefines DEF Pass
<1>2. TokensOf(Watched)' = IF TokensOf(Watched) + RefillTokens > Full
                             THEN Full ELSE TokensOf(Watched) + RefillTokens
  BY <1>1, ObserverAssumption DEF TB!Tick
<1>3. TokensOf(Watched) \in 0..Full
  BY TokensRange DEF IInv
<1> QED
  BY <1>2, <1>3, CreditSizes, SizesAssumption

LEMMA RateStep ==
    ASSUME ExpiryIsInvisible, CacheFitsClients
    PROVE  RateInv /\ [RateNext]_rateVars => RateInv'
<1> SUFFICES ASSUME RateInv, [RateNext]_rateVars PROVE RateInv'
  OBVIOUS
<1>1. IInv /\ IInv'
  BY ObserverChangesNothing, InductiveStep DEF RateInv
<1>2. /\ TokensOf(Watched) \in 0..Full /\ TokensOf(Watched)' \in 0..Full
      /\ Token \in Nat /\ Full \in Nat /\ RefillTokens \in Nat
  <2>1. TypeOK' => TokensOf(Watched)' \in 0..Full
    BY CreditSizes, ObserverAssumption DEF TypeOK, TokensOf
  <2> QED
    BY <1>1, <2>1, TokensRange, CreditSizes, SizesAssumption DEF IInv
<1>3. /\ elapsed \in Nat /\ admitted \in Nat
      /\ admitted * Token \in Nat /\ elapsed * RefillTokens \in Nat
      /\ (admitted + 1) * Token = admitted * Token + Token
      /\ (elapsed + 1) * RefillTokens = elapsed * RefillTokens + RefillTokens
      /\ admitted * Token + TokensOf(Watched) <= Full + elapsed * RefillTokens
  BY <1>2, OneMore DEF RateInv
<1>4. CASE Open
  BY <1>1, <1>2, <1>4 DEF Open, RateInv
<1>5. CASE Handle
  <2>1. TokensOf(Watched)' = TokensOf(Watched)
    BY <1>1, <1>5, HandleCostsNothing
  <2> QED
    BY <1>1, <1>3, <1>5, <2>1 DEF Handle, observed, RateInv
<1>6. ASSUME NEW r \in Req, Decide(r) PROVE RateInv'
  <2>1. elapsed' = elapsed
    BY <1>6 DEF Decide
  <2>2. CASE admitted' = admitted /\ TokensOf(Watched)' <= TokensOf(Watched)
    BY <1>1, <1>2, <1>3, <2>1, <2>2 DEF RateInv
  <2>3. CASE admitted' = admitted + 1 /\ TokensOf(Watched)' = TokensOf(Watched) - Token
    BY <1>1, <1>2, <1>3, <2>1, <2>3 DEF RateInv
  <2> QED
    BY <1>1, <1>6, <2>2, <2>3, DecideCosts
<1>7. CASE Pass
  <2>1. TokensOf(Watched)' <= TokensOf(Watched) + RefillTokens
    BY <1>1, <1>7, PassBrings
  <2>2. elapsed' = elapsed + 1 /\ admitted' = admitted
    BY <1>7 DEF Pass
  <2> QED
    BY <1>1, <1>2, <1>3, <2>1, <2>2 DEF RateInv
<1>8. CASE UNCHANGED rateVars
  <2>1. TokensOf(Watched)' = TokensOf(Watched)
    BY <1>8 DEF rateVars, vars, TokensOf
  <2> QED
    BY <1>1, <1>3, <1>8, <2>1 DEF rateVars, observed, RateInv
<1> QED
  BY <1>4, <1>5, <1>6, <1>7, <1>8 DEF RateNext

\* In any window, of any length and opened at any moment, an address is admitted
\* no more often than a full bucket and the refill of that time can pay for, if
\* the clients fit in the cache and an expired bucket has had the time to refill
\* (RateLimitProperties.kt:7-8, RateLimitFilter.kt:36-39).
THEOREM AdmissionsAreBounded ==
    ASSUME ExpiryIsInvisible, CacheFitsClients
    PROVE  RateSpec => []RateIsBounded
<1>1. RateInv /\ [RateNext]_rateVars => RateInv'
  BY RateStep
<1>2. RateInv => RateIsBounded
  <2> SUFFICES ASSUME RateInv PROVE RateIsBounded
    OBVIOUS
  <2>1. TokensOf(Watched) \in 0..Full
    BY TokensRange DEF RateInv, IInv
  <2>2. admitted * Token \in Nat /\ elapsed * RefillTokens \in Nat /\ Full \in Nat
    BY OneMore, CreditSizes, SizesAssumption DEF RateInv
  <2> QED
    BY <2>1, <2>2 DEF RateInv, RateIsBounded
<1> QED
  BY <1>1, <1>2, RateStart, PTL DEF RateSpec

=============================================================================
