---------------------------- MODULE TokenBucket ----------------------------
(***************************************************************************)
(* What the rate limiter promises, with no cache, bucket object or thread  *)
(* in sight: every client owns one token bucket that starts full, refills  *)
(* at a constant rate up to its capacity, and pays one token for every     *)
(* admitted request.  A request is rejected only when less than one token  *)
(* is left.  RateLimitFilter implements this specification.                *)
(*                                                                         *)
(* Tokens are counted in credits so that a greedy refill stays integral:   *)
(* Token credits buy one request and every tick brings Refill credits.     *)
(***************************************************************************)
EXTENDS Integers

CONSTANTS Client,   \* the keys that requests are accounted to
          Req,      \* request slots
          Token,    \* credits that one request costs
          Full,     \* credits in a full bucket
          Refill    \* credits that one tick brings

VARIABLES tokens,   \* credits left, per client
          verdict   \* the decision on a request, "none" until it is taken

vars == <<tokens, verdict>>

Init ==
    /\ tokens = [c \in Client |-> Full]
    /\ verdict = [r \in Req |-> "none"]

Admit(r, c) ==
    /\ verdict[r] = "none"
    /\ tokens[c] >= Token
    /\ tokens' = [tokens EXCEPT ![c] = @ - Token]
    /\ verdict' = [verdict EXCEPT ![r] = "admitted"]

Reject(r, c) ==
    /\ verdict[r] = "none"
    /\ tokens[c] < Token
    /\ verdict' = [verdict EXCEPT ![r] = "rejected"]
    /\ UNCHANGED tokens

Finish(r) ==
    /\ verdict[r] # "none"
    /\ verdict' = [verdict EXCEPT ![r] = "none"]
    /\ UNCHANGED tokens

Tick ==
    /\ tokens' = [c \in Client |->
                    IF tokens[c] + Refill > Full THEN Full
                                                 ELSE tokens[c] + Refill]
    /\ UNCHANGED verdict

Next ==
    \/ \E r \in Req, c \in Client : Admit(r, c) \/ Reject(r, c)
    \/ \E r \in Req : Finish(r)
    \/ Tick

Spec == Init /\ [][Next]_vars
=============================================================================
