---------------------------- MODULE AdmissionRate ----------------------------
(***************************************************************************)
(* RateLimitFilter together with an observer who counts the requests of    *)
(* one address that are admitted, over a window of time that he opens      *)
(* whenever he likes.  The observer changes nothing in the filter.         *)
(***************************************************************************)
EXTENDS RateLimitFilter

CONSTANTS Watched,     \* the address
          MaxWindow    \* bound: the longest window, in ticks

ASSUME ObserverAssumption == Watched \in Ip /\ MaxWindow \in Nat

VARIABLES elapsed,    \* ticks since the window was opened
          admitted    \* requests of Watched admitted since then

observed == <<elapsed, admitted>>
rateVars == <<vars, observed>>

RateInit == Init /\ elapsed = 0 /\ admitted = 0

Open ==
    /\ elapsed' = 0
    /\ admitted' = 0
    /\ UNCHANGED vars

\* The steps of the filter in which no token changes hands.
Handle ==
    /\ \/ \E r \in Req, q \in Request : Bypass(r, q)
       \/ \E r \in Req, q \in Request, b \in BucketId : Lookup(r, q, b)
       \/ \E r \in Req : Respond(r)
       \/ \E ip \in Ip : Evict(ip)
    /\ UNCHANGED observed

Decide(r) ==
    /\ Consume(r)
    /\ admitted' = IF client[r] = Watched /\ phase'[r] = "admitted"
                     THEN admitted + 1 ELSE admitted
    /\ UNCHANGED elapsed

Pass ==
    /\ elapsed < MaxWindow
    /\ Tick
    /\ elapsed' = elapsed + 1
    /\ UNCHANGED admitted

RateNext == Open \/ Handle \/ (\E r \in Req : Decide(r)) \/ Pass

RateSpec == RateInit /\ [][RateNext]_rateVars

-----------------------------------------------------------------------------
\* In no window of time is more admitted from one address than a full bucket and
\* what is refilled meanwhile can pay for, although its bucket may expire and
\* be created anew, full, within the window (RateLimitProperties.kt:7-8,
\* RateLimitFilter.kt:36-39, 50-52).
RateIsBounded == admitted * Token <= Full + elapsed * RefillTokens
=============================================================================
