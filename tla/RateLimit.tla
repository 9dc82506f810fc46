------------------------------ MODULE RateLimit ------------------------------
(***************************************************************************)
(* The request-level RateLimiter middleware (middlewares/rate_limiter.rs): *)
(* a token bucket behind a mutex, refilled lazily by try_acquire, and the  *)
(* Retry-After header of a rejected request, computed under a second,      *)
(* separate lock.                                                          *)
(*                                                                         *)
(* The f64 token count is kept exactly, in units: a token is Unit units    *)
(* and one unit accrues per tick, so that any rate is a choice of Unit and *)
(* Second (rate = Second / Unit tokens per second).                        *)
(***************************************************************************)
EXTENDS Integers

CONSTANTS
    Req,        \* requests
    Capacity,   \* RateLimiter.capacity
    Unit,       \* units per token
    Second,     \* ticks per second
    MaxTime     \* bound: the clock

ASSUME RateLimitAssumption ==
    /\ Capacity \in Nat \ {0}
    /\ Unit \in Nat \ {0} /\ Second \in Nat \ {0}
    /\ MaxTime \in Nat

VARIABLES
    now,            \* Instant::now()
    tokens,         \* BucketState.tokens, in units
    last_refill,    \* BucketState.last_refill
    req,            \* where each request is
    promise,        \* when its Retry-After says to come back
    quiet,          \* no request was admitted since the header was computed
    admitted,       \* requests admitted so far
    from, before    \* start of the observed window, requests admitted before

limiterVars == <<now, tokens, last_refill, req, promise, quiet, admitted, from,
          before>>

Full == Capacity * Unit

Lesser(a, b) == IF a <= b THEN a ELSE b

\* (x + y - 1) div y
Ceil(x, y) == (x + y - 1) \div y

LimiterTypeOK ==
    /\ now \in 0..MaxTime /\ last_refill \in 0..now
    /\ tokens \in 0..Full
    /\ req \in [Req -> {"new", "rejected", "answered", "admitted"}]
    /\ promise \in [Req -> Nat] /\ quiet \in [Req -> BOOLEAN]
    /\ admitted \in Nat
    /\ from \in 0..now /\ before \in 0..admitted

LimiterInit ==
    /\ now = 0 /\ tokens = Full /\ last_refill = 0
    /\ req = [r \in Req |-> "new"]
    /\ promise = [r \in Req |-> 0] /\ quiet = [r \in Req |-> FALSE]
    /\ admitted = 0 /\ from = 0 /\ before = 0

\* Mutant: the refill is not capped.
RefilledUncapped == tokens + (now - last_refill)

\* (tokens + elapsed * rate).min(capacity)
Refilled == Lesser(tokens + (now - last_refill), Full)

\* try_acquire, one critical section: refill, then take a token if there is
\* one; the request goes on to next.call or is rejected.
TryAcquire(r) ==
    /\ req[r] = "new"
    /\ last_refill' = now
    /\ \/ /\ Refilled >= Unit
          /\ tokens' = Refilled - Unit
          /\ req' = [req EXCEPT ![r] = "admitted"]
          /\ admitted' = admitted + 1
          /\ quiet' = [q \in Req |-> FALSE]
       \/ /\ Refilled < Unit
          /\ tokens' = Refilled
          /\ req' = [req EXCEPT ![r] = "rejected"]
          /\ UNCHANGED <<admitted, quiet>>
    /\ UNCHANGED <<now, promise, from, before>>

\* Mutant: the wait is rounded down.
RetryAfterSecsFloor ==
    LET secs == IF tokens >= Unit THEN 0 ELSE (Unit - tokens) \div Second
    IN  IF secs = 0 THEN 1 ELSE secs

\* retry_after_secs().max(1): from the token count as the second lock finds
\* it, without a refill of its own.
RetryAfterSecs ==
    LET secs == IF tokens >= Unit THEN 0 ELSE Ceil(Unit - tokens, Second)
    IN  IF secs = 0 THEN 1 ELSE secs

\* The 429 response with its Retry-After header.
TooManyRequests(r) ==
    /\ req[r] = "rejected"
    /\ req' = [req EXCEPT ![r] = "answered"]
    /\ promise' = [promise EXCEPT ![r] = now + RetryAfterSecs * Second]
    /\ quiet' = [quiet EXCEPT ![r] = TRUE]
    /\ UNCHANGED <<now, tokens, last_refill, admitted, from, before>>

Tick ==
    /\ now < MaxTime
    /\ now' = now + 1
    /\ UNCHANGED <<tokens, last_refill, req, promise, quiet, admitted, from,
                   before>>

\* An observer starts to count admissions here.
Observe ==
    /\ from' = now
    /\ before' = admitted
    /\ UNCHANGED <<now, tokens, last_refill, req, promise, quiet, admitted>>

LimiterNext ==
    \/ \E r \in Req : TryAcquire(r) \/ TooManyRequests(r)
    \/ Tick
    \/ Observe

LimiterSpec == LimiterInit /\ [][LimiterNext]_limiterVars

-----------------------------------------------------------------------------
(* Properties                                                              *)

\* In any stretch of time at most capacity requests, plus what the rate
\* allows for its length, are admitted; what is in the bucket counts against
\* the same budget.
WindowBound ==
    (admitted - before) * Unit + Refilled <= Full + (now - from)

\* A client that waits as long as Retry-After says finds a token, unless some
\* other request took it in the meantime.
RetryAfterHonest ==
    \A r \in Req :
        req[r] = "answered" /\ quiet[r] /\ now >= promise[r] => Refilled >= Unit

=============================================================================
