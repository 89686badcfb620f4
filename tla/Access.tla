------------------------------- MODULE Access -------------------------------
(***************************************************************************)
(* API keys from their issue to their revocation, and the calls that they  *)
(* authenticate: get_api_key_principal, then enforce_ingestion_rate_limit. *)
(* A call that is refused because its key is unknown, revoked or wrong     *)
(* changes nothing and is no step.                                         *)
(***************************************************************************)
EXTENDS RateLimit

CONSTANTS
    Calls,       \* slots for calls in progress
    Admins,      \* slots for DELETE requests in progress
    MaxCalls     \* bound on the runs of the script

ASSUME AccessAssumption == MaxCalls \in Nat

VARIABLES
    keys,       \* key -> its api_keys row, or None
    call,       \* slot -> [key, row]: the call in it, or None
    revoking,   \* admin -> [key, row]: the key it revokes, or None
    granted,    \* history: key -> when the script counted a call within the limit
    refused     \* history: the answers 429, in order

accessVars == <<keys, call, revoking, granted, refused>>
vars == <<bucketVars, accessVars>>

\* Of the two timestamps of a row only whether they are set matters.
KeyRows == [revoked_at : {None, "set"}, last_used_at : {None, "set"}]
Refusals == [key : Keys, at : Nat, retry_after : Nat \ {0}, granted : Nat]

ASSUME NoneAssumption ==
    None \notin {"set"} \cup KeyRows \cup [count : Nat, expires : Nat]
                \cup [key : Keys, row : KeyRows \cup {None}]

\* Every variable keeps its type; a client is never told to wait for nothing.
TypeOK ==
    /\ BucketTypeOK
    /\ keys \in [Keys -> KeyRows \cup {None}]
    /\ call \in [Calls -> [key : Keys, row : KeyRows \cup {None}] \cup {None}]
    /\ revoking \in [Admins -> [key : Keys, row : KeyRows] \cup {None}]
    /\ granted \in [Keys -> Seq(0..MaxTime)]
    /\ refused \in Seq(Refusals)

Init ==
    /\ BucketInit
    /\ keys = [k \in Keys |-> None]
    /\ call = [c \in Calls |-> None]
    /\ revoking = [u \in Admins |-> None]
    /\ granted = [k \in Keys |-> << >>]
    /\ refused = << >>

\* Mutant: the whole object is written back.
Overwritten(row, loaded, object) == object

\* An ORM flush writes the attributes that differ from the loaded row.
Flushed(row, loaded, object) ==
    [f \in DOMAIN row |-> IF object[f] # loaded[f] THEN object[f] ELSE row[f]]

IssueKey(k) ==
    /\ keys[k] = None
    /\ keys' = [keys EXCEPT ![k] = [revoked_at |-> None, last_used_at |-> None]]
    /\ UNCHANGED <<call, revoking, granted, refused, bucketVars>>

-----------------------------------------------------------------------------
(* revoke_api_key                                                          *)

\* SELECT; a key that is revoked already needs no second statement.
LoadForRevocation(u, k) ==
    /\ revoking[u] = None
    /\ keys[k] # None /\ keys[k].revoked_at = None
    /\ revoking' = [revoking EXCEPT ![u] = [key |-> k, row |-> keys[k]]]
    /\ UNCHANGED <<keys, call, granted, refused, bucketVars>>

Revoke(u) ==
    /\ revoking[u] # None
    /\ LET k == revoking[u].key
           loaded == revoking[u].row
       IN  keys' = [keys EXCEPT ![k] =
                        Flushed(@, loaded, [loaded EXCEPT !.revoked_at = "set"])]
    /\ revoking' = [revoking EXCEPT ![u] = None]
    /\ UNCHANGED <<call, granted, refused, bucketVars>>

-----------------------------------------------------------------------------
(* A call that presents a key.                                             *)

\* SELECT by prefix, then the checks on the row that was read.
Authenticate(c, k) ==
    /\ call[c] = None
    /\ keys[k] # None /\ keys[k].revoked_at = None
    /\ call' = [call EXCEPT ![c] = [key |-> k, row |-> keys[k]]]
    /\ UNCHANGED <<keys, revoking, granted, refused, bucketVars>>

\* UPDATE last_used_at and COMMIT; the row is not read again.
TouchKey(c) ==
    /\ call[c] # None /\ call[c].row # None
    /\ LET k == call[c].key
           loaded == call[c].row
       IN  keys' = [keys EXCEPT ![k] =
                        Flushed(@, loaded, [loaded EXCEPT !.last_used_at = "set"])]
    /\ call' = [call EXCEPT ![c].row = None]
    /\ UNCHANGED <<revoking, granted, refused, bucketVars>>

\* The script runs in Redis, for a call that is within the limit or not.
Script(k, b) ==
    /\ Len(granted[k]) + Len(refused) < MaxCalls /\ b.count <= MaxCalls
    /\ bucket' = [bucket EXCEPT ![k] = b]
    /\ granted' = IF Allowed(b) THEN [granted EXCEPT ![k] = Append(@, clock)] ELSE granted

\* enforce_ingestion_rate_limit: the script, then the handler or a 429.
Consume(c) ==
    /\ call[c] # None /\ call[c].row = None
    /\ LET k == call[c].key
           b == Incremented(k)
       IN  /\ Script(k, b)
           /\ \/ Allowed(b) /\ UNCHANGED refused
              \/ /\ ~Allowed(b)
                 /\ refused' = Append(refused,
                        [key |-> k, at |-> clock, retry_after |-> RetryAfter(b),
                         granted |-> Len(granted[k])])
    /\ call' = [call EXCEPT ![c] = None]
    /\ UNCHANGED <<keys, revoking, clock>>

\* The script runs but its reply is lost: the client library sends it again,
\* or the call is given up (AbortCall).
LoseReply(c) ==
    /\ call[c] # None /\ call[c].row = None
    /\ LET k == call[c].key
       IN  Script(k, Incremented(k))
    /\ UNCHANGED <<keys, call, revoking, refused, clock>>

\* The API process dies, or the database or Redis fails for good: 500, or
\* nobody to answer.  What the script has counted stays counted.
AbortCall(c) ==
    /\ call[c] # None
    /\ call' = [call EXCEPT ![c] = None]
    /\ UNCHANGED <<keys, revoking, granted, refused, bucketVars>>

Next ==
    \/ Elapse /\ UNCHANGED accessVars
    \/ \E k \in Keys :
        \/ IssueKey(k)
        \/ \E u \in Admins : LoadForRevocation(u, k)
        \/ \E c \in Calls : Authenticate(c, k)
    \/ \E u \in Admins : Revoke(u)
    \/ \E c \in Calls : TouchKey(c) \/ Consume(c) \/ LoseReply(c) \/ AbortCall(c)

Spec == Init /\ [][Next]_vars

-----------------------------------------------------------------------------
(* Properties                                                              *)

\* A revoked key is never valid again, whatever calls were under way.
RevocationIsFinal ==
    [][\A k \in Keys : keys[k] # None /\ keys[k].revoked_at # None
          => keys'[k] # None /\ keys'[k].revoked_at # None]_vars

\* The fixed window's worst case: a span shorter than the window sees almost
\* two allowances of a key, but never both, because the call that opened the
\* first window lies before it.
WindowLimit ==
    \A k \in Keys : \A i, j \in DOMAIN granted[k] :
        i <= j /\ granted[k][j] - granted[k][i] < Second * Window
        => j - i + 1 < 2 * Limit

\* A client that waits for retry_after, and half a second more for the
\* rounding of TTL, is refused only if a whole allowance was granted since,
\* if not to calls that were answered then to calls whose reply was lost.
WaitedIsServed ==
    \A i, j \in DOMAIN refused :
        LET f == refused[i]
            g == refused[j]
        IN  f.key = g.key /\ g.at >= f.at + Second * f.retry_after + Second \div 2
            => g.granted - f.granted >= Limit
=============================================================================
