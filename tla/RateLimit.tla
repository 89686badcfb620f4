----------------------------- MODULE RateLimit -----------------------------
(***************************************************************************)
(* auth/rate_limit.py: one fixed window per API key, kept in Redis and     *)
(* consumed by a script that Redis runs as one step.  The unit of time is  *)
(* a quarter of a second: Redis expires keys to the millisecond, but TTL   *)
(* answers whole seconds, rounded half up.                                 *)
(***************************************************************************)
EXTENDS Integers, Sequences, FiniteSets

CONSTANTS
    Keys,      \* the API keys
    Limit,     \* settings.rate_limit_requests
    Window,    \* settings.rate_limit_window_seconds
    MaxTime,   \* bound on the clock
    None       \* no such key in Redis, SQL NULL

ASSUME RateLimitAssumption == Limit \in Nat \ {0} /\ Window \in Nat \ {0} /\ MaxTime \in Nat

VARIABLES
    clock,     \* quarters of a second
    bucket     \* key -> [count, expires], or None

bucketVars == <<clock, bucket>>

Second == 4

\* The type of the clock and of the buckets.
BucketTypeOK ==
    /\ clock \in 0..MaxTime
    /\ bucket \in [Keys -> [count : Nat, expires : Nat] \cup {None}]

BucketInit ==
    /\ clock = 0
    /\ bucket = [k \in Keys |-> None]

\* Mutant: every call moves the end of the window.
Sliding(k) ==
    [count |-> IF bucket[k] = None THEN 1 ELSE bucket[k].count + 1,
     expires |-> clock + Second * Window]

\* RATE_LIMIT_SCRIPT: INCR, and EXPIRE for the first call of a window.
Incremented(k) ==
    IF bucket[k] = None THEN [count |-> 1, expires |-> clock + Second * Window]
    ELSE [bucket[k] EXCEPT !.count = @ + 1]

\* TTL: the seconds that are left, rounded half up.
Ttl(b) == (b.expires - clock + Second \div 2) \div Second

\* Mutant: one call too many.
AllowedToo(b) == b.count <= Limit + 1
Allowed(b) == b.count <= Limit

\* Mutant: without max(1, ...) a client may be told to wait for nothing.
TtlOnly(b) == Ttl(b)

\* retry_after of the result.
RetryAfter(b) == IF Ttl(b) < 1 THEN 1 ELSE Ttl(b)

\* Time passes, and Redis forgets the buckets whose time is over.
Elapse ==
    /\ clock < MaxTime
    /\ clock' = clock + 1
    /\ bucket' = [k \in Keys |-> IF bucket[k] # None /\ bucket[k].expires <= clock'
                                 THEN None ELSE bucket[k]]
=============================================================================
