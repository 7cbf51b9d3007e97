---------------------------- MODULE PoliteClient ----------------------------
(***************************************************************************)
(* RateLimitFilter together with a client that does what a 429 tells it:   *)
(* it sends one request at a time and, after a rejection, nothing for the  *)
(* Retry-After seconds of the response (possibly for longer).              *)
(***************************************************************************)
EXTENDS RateLimitFilter

VARIABLES patience,   \* ticks the client still has to wait
          refusals    \* rejections since its last admitted request

clientVars == <<patience, refusals>>
allVars == <<vars, clientVars>>

PoliteInit == Init /\ patience = 0 /\ refusals = 0

Send(r) ==
    /\ patience = 0
    /\ \A s \in Req : phase[s] = "idle"
    /\ \E q \in Request, b \in BucketId : Lookup(r, q, b)
    /\ UNCHANGED clientVars

Serve(r) == Consume(r) /\ UNCHANGED clientVars

Receive(r) ==
    /\ Respond(r)
    /\ patience' = retryAfter[r] * TicksPerSecond
    /\ refusals' = IF phase[r] = "rejected" THEN refusals + 1 ELSE 0

Wait ==
    /\ Tick
    /\ patience' = AtLeast(patience - 1, 0)
    /\ UNCHANGED refusals

PoliteNext == (\E r \in Req : Send(r) \/ Serve(r) \/ Receive(r)) \/ Wait

PoliteSpec == PoliteInit /\ [][PoliteNext]_allVars

\* A client that is alone on its address and waits for the announced seconds
\* is admitted: it is never rejected twice running (RateLimitFilter.kt:60-61,
\* 69 "Retry after $retryAfterSeconds seconds.").
WaitingIsEnough == refusals <= 1

\* What that needs of the constants: a token a second, or more.  Retry-After is
\* rounded down to whole seconds, and only the minimum of one second can make
\* up for it.
OneTokenASecond == RefillTokens >= RefillPeriodSeconds
=============================================================================
