---------------------------- MODULE Access_proofs ----------------------------
(***************************************************************************)
(* Proofs about Access, for any keys, limits, windows and numbers of calls *)
(* and administrators.                                                     *)
(***************************************************************************)
EXTENDS Access, SequenceTheorems, TLAPS

-----------------------------------------------------------------------------
(* The inductive invariant.                                                *)

Span == Second * Window

\* How much of the allowance is used of the window that the next call of a
\* key falls into, and when that window began or would begin.
Counted(k) ==
    IF bucket[k] = None THEN 0
    ELSE IF bucket[k].count <= Limit THEN bucket[k].count ELSE Limit
Start(k) == IF bucket[k] = None THEN clock ELSE bucket[k].expires - Span

\* Calls under way present keys that have been issued.
Issued ==
    /\ \A c \in Calls : call[c] # None => keys[call[c].key] # None
    /\ \A u \in Admins : revoking[u] # None => keys[revoking[u].key] # None

\* Redis holds no bucket whose time is over.
Fresh ==
    \A k \in Keys : bucket[k] # None =>
        /\ clock < bucket[k].expires /\ bucket[k].expires <= clock + Span
        /\ bucket[k].count > 0

\* Calls are granted in the order of time.
Ordered(k) ==
    /\ \A i \in 1..Len(granted[k]) : granted[k][i] <= clock
    /\ \A i, j \in 1..Len(granted[k]) : i <= j => granted[k][i] <= granted[k][j]

\* The first call that the present window counted, and those before it, came no
\* later than its begin; the first of the window before, and those before that,
\* a window's length before its begin.
Behind(k) ==
    /\ \A i \in 1..Len(granted[k]) :
        i <= Len(granted[k]) - Counted(k) + 1 => granted[k][i] <= Start(k)
    /\ \A i \in 1..Len(granted[k]) :
        i <= Len(granted[k]) - Counted(k) - Limit + 1 => granted[k][i] + Span <= Start(k)

\* Twice the allowance, the first call included, takes a window's length.
Spread(k) ==
    \A i, j \in 1..Len(granted[k]) :
        j + 1 = i + 2 * Limit => granted[k][i] + Span <= granted[k][j]

\* When a client comes back that waits for retry_after and the rounding of TTL.
Back(f) == f.at + Second * f.retry_after + Second \div 2

\* A refusal lies behind, and either its window is over when the client
\* comes back, or all that the present window counts was granted later.
Outlived(i) ==
    LET f == refused[i]
        k == f.key
    IN  /\ f.at <= clock /\ f.granted <= Len(granted[k])
        /\ \/ bucket[k] = None
           \/ bucket[k].expires <= Back(f)
           \/ Len(granted[k]) - f.granted >= Counted(k)

IInv ==
    /\ TypeOK
    /\ Issued
    /\ Fresh
    /\ \A k \in Keys : Ordered(k) /\ Behind(k) /\ Spread(k)
    /\ \A i \in DOMAIN refused : Outlived(i)
    /\ WaitedIsServed

-----------------------------------------------------------------------------
(* The data types.                                                         *)

\* None is no row, no call and no bucket.
LEMMA NoneIsNoRow ==
    /\ None # "set" /\ None \notin KeyRows /\ None \notin [count : Nat, expires : Nat]
    /\ None \notin [key : Keys, row : KeyRows \cup {None}]
    /\ None \notin [key : Keys, row : KeyRows]
<1>1. [key : Keys, row : KeyRows] \subseteq [key : Keys, row : KeyRows \cup {None}]
  OBVIOUS
<1> QED  BY <1>1, NoneAssumption

\* A flush that changes one of the two timestamps keeps the other as it is.
LEMMA FlushedRow ==
    ASSUME NEW row \in KeyRows, NEW loaded \in KeyRows
    PROVE  /\ Flushed(row, loaded, [loaded EXCEPT !.last_used_at = "set"]) \in KeyRows
           /\ Flushed(row, loaded, [loaded EXCEPT !.last_used_at = "set"]).revoked_at
                = row.revoked_at
           /\ Flushed(row, loaded, [loaded EXCEPT !.revoked_at = "set"]) \in KeyRows
           /\ loaded.revoked_at = None \/ row.revoked_at # None
                => Flushed(row, loaded, [loaded EXCEPT !.revoked_at = "set"]).revoked_at # None
<1> DEFINE touched == [loaded EXCEPT !.last_used_at = "set"]
           revoked == [loaded EXCEPT !.revoked_at = "set"]
<1>1. DOMAIN row = {"revoked_at", "last_used_at"}
  BY DEF KeyRows
<1>2. touched.revoked_at = loaded.revoked_at /\ touched.last_used_at = "set"
  BY DEF KeyRows
<1>3. revoked.revoked_at = "set" /\ revoked.last_used_at = loaded.last_used_at
  BY DEF KeyRows
<1>4. ASSUME NEW object,
             object.revoked_at \in {None, "set"}, object.last_used_at \in {None, "set"}
      PROVE  /\ Flushed(row, loaded, object) \in KeyRows
             /\ Flushed(row, loaded, object).revoked_at
                  = IF object.revoked_at # loaded.revoked_at THEN object.revoked_at
                    ELSE row.revoked_at
  <2> DEFINE new == Flushed(row, loaded, object)
  <2>1. new = [f \in {"revoked_at", "last_used_at"} |->
                  IF object[f] # loaded[f] THEN object[f] ELSE row[f]]
    BY <1>1 DEF Flushed
  <2>2. new = [revoked_at |-> IF object.revoked_at # loaded.revoked_at
                              THEN object.revoked_at ELSE row.revoked_at,
               last_used_at |-> IF object.last_used_at # loaded.last_used_at
                                THEN object.last_used_at ELSE row.last_used_at]
    BY <2>1
  <2>3. row.revoked_at \in {None, "set"} /\ row.last_used_at \in {None, "set"}
    BY DEF KeyRows
  <2> HIDE DEF new
  <2>4. new \in KeyRows
    BY <1>4, <2>2, <2>3 DEF KeyRows
  <2> QED  BY <2>2, <2>4 DEF new
<1>5. loaded.revoked_at \in {None, "set"} /\ loaded.last_used_at \in {None, "set"}
  BY DEF KeyRows
<1>6. row.revoked_at \in {None, "set"}
  BY DEF KeyRows
<1> HIDE DEF touched, revoked
<1>7. Flushed(row, loaded, touched) \in KeyRows
      /\ Flushed(row, loaded, touched).revoked_at = row.revoked_at
  BY <1>2, <1>4, <1>5
<1>8. Flushed(row, loaded, revoked) \in KeyRows
      /\ (loaded.revoked_at = None \/ row.revoked_at # None
            => Flushed(row, loaded, revoked).revoked_at # None)
  BY <1>3, <1>4, <1>5, NoneIsNoRow
<1> QED  BY <1>7, <1>8 DEF touched, revoked

\* What TTL, rounded to seconds, says of the end of a window.
LEMMA RetryAfterCovers ==
    ASSUME NEW b \in [count : Nat, expires : Nat], clock \in Nat, clock < b.expires
    PROVE  /\ RetryAfter(b) \in Nat \ {0}
           /\ b.expires <= clock + Second * RetryAfter(b) + Second \div 2
<1>1. b.expires \in Nat
  OBVIOUS
<1>2. (b.expires - clock + 2) \div 4 \in Int
      /\ 4 * ((b.expires - clock + 2) \div 4) >= b.expires - clock - 1
  BY <1>1
<1>3. 4 \div 2 = 2
  OBVIOUS
<1> QED  BY <1>1, <1>2, <1>3 DEF RetryAfter, Ttl, Second

\* Numbers.
LEMMA Numbers ==
    /\ Span \in Nat /\ Span > 0 /\ Limit \in Nat /\ Limit > 0
    /\ Second = 4 /\ Second \div 2 = 2
<1>1. 4 \div 2 = 2
  OBVIOUS
<1> QED  BY <1>1, RateLimitAssumption DEF Span, Second

\* The types that arithmetic needs.
LEMMA BucketNumbers ==
    ASSUME TypeOK, Fresh, NEW k \in Keys
    PROVE  /\ clock \in Nat /\ Start(k) \in Int /\ Start(k) <= clock /\ clock < Start(k) + Span
           /\ Counted(k) \in 0..Limit
           /\ bucket[k] # None =>
                /\ bucket[k] \in [count : Nat, expires : Nat]
                /\ bucket[k].count \in Nat /\ bucket[k].expires \in Nat
           /\ granted[k] \in Seq(0..MaxTime) /\ Len(granted[k]) \in Nat
           /\ \A i \in 1..Len(granted[k]) : granted[k][i] \in Nat
<1>1. clock \in Nat
  BY RateLimitAssumption DEF TypeOK, BucketTypeOK
<1>2. bucket[k] # None => bucket[k] \in [count : Nat, expires : Nat]
  BY DEF TypeOK, BucketTypeOK
<1>3. bucket[k] # None => bucket[k].count \in Nat /\ bucket[k].expires \in Nat
  BY <1>2
<1>4. Counted(k) \in 0..Limit
  BY <1>3, Numbers DEF Counted
<1>5. Start(k) \in Int /\ Start(k) <= clock /\ clock < Start(k) + Span
  BY <1>1, <1>3, Numbers DEF Start, Fresh
<1>6. granted[k] \in Seq(0..MaxTime)
  BY DEF TypeOK
<1>7. Len(granted[k]) \in Nat /\ \A i \in 1..Len(granted[k]) : granted[k][i] \in Nat
  BY <1>6, RateLimitAssumption
<1> QED  BY <1>1, <1>2, <1>3, <1>4, <1>5, <1>6, <1>7

LEMMA RefusalNumbers ==
    ASSUME TypeOK, NEW i \in DOMAIN refused
    PROVE  /\ refused[i] \in Refusals /\ refused[i].key \in Keys
           /\ refused[i].at \in Nat /\ refused[i].granted \in Nat
           /\ refused[i].retry_after \in Nat /\ refused[i].retry_after > 0
           /\ Back(refused[i]) = refused[i].at + 4 * refused[i].retry_after + 2
           /\ Back(refused[i]) \in Nat
<1>1. refused[i] \in Refusals
  BY DEF TypeOK
<1>2. /\ refused[i].key \in Keys /\ refused[i].at \in Nat /\ refused[i].granted \in Nat
      /\ refused[i].retry_after \in Nat /\ refused[i].retry_after > 0
  BY <1>1 DEF Refusals
<1> QED  BY <1>1, <1>2, Numbers DEF Back

-----------------------------------------------------------------------------
(* Steps.                                                                  *)

LEMMA InitHolds == Init => IInv
<1> SUFFICES ASSUME Init PROVE IInv
  OBVIOUS
<1> USE DEF Init, BucketInit
<1>1. TypeOK
  <2>1. << >> \in Seq(0..MaxTime) /\ << >> \in Seq(Refusals)
    OBVIOUS
  <2> QED  BY <2>1, RateLimitAssumption DEF TypeOK, BucketTypeOK
<1>2. Issued /\ Fresh
  BY DEF Issued, Fresh
<1>3. \A k \in Keys : Ordered(k) /\ Behind(k) /\ Spread(k)
  BY DEF Ordered, Behind, Spread
<1>4. (\A i \in DOMAIN refused : Outlived(i)) /\ WaitedIsServed
  BY DEF WaitedIsServed
<1> QED  BY <1>1, <1>2, <1>3, <1>4 DEF IInv

\* A step that touches neither time nor buckets keeps what is said of them.
LEMMA HistoryKept ==
    ASSUME IInv, UNCHANGED <<clock, bucket, granted, refused>>, TypeOK', Issued'
    PROVE  IInv'
<1>1. \A k \in Keys : Ordered(k)' /\ Behind(k)' /\ Spread(k)'
  BY DEF IInv, Ordered, Behind, Spread, Counted, Start
<1>2. Fresh'
  BY DEF IInv, Fresh
<1>3. (\A i \in DOMAIN refused : Outlived(i))'
  BY DEF IInv, Outlived, Counted, Back
<1>4. WaitedIsServed'
  BY DEF IInv, WaitedIsServed
<1> QED  BY <1>1, <1>2, <1>3, <1>4 DEF IInv

\* The calls of administrators, and a call up to its allowance.
Statement ==
    \/ \E k \in Keys :
        \/ IssueKey(k)
        \/ \E u \in Admins : LoadForRevocation(u, k)
        \/ \E c \in Calls : Authenticate(c, k)
    \/ \E u \in Admins : Revoke(u)
    \/ \E c \in Calls : TouchKey(c) \/ AbortCall(c)

\* What a statement does to the row of a key.
LEMMA KeyWritten ==
    ASSUME TypeOK, Issued, Statement, NEW k \in Keys
    PROVE  /\ keys'[k] \in KeyRows \cup {None}
           /\ keys[k] # None => keys'[k] # None
           /\ keys[k] # None /\ keys[k].revoked_at # None => keys'[k].revoked_at # None
<1>1. keys[k] \in KeyRows \cup {None} /\ keys \in [Keys -> KeyRows \cup {None}]
  BY DEF TypeOK
<1>2. ASSUME NEW q \in Keys, IssueKey(q)
      PROVE  keys'[k] \in KeyRows \cup {None} /\ (keys[k] # None => keys'[k] = keys[k])
  <2>1. [revoked_at |-> None, last_used_at |-> None] \in KeyRows
    BY DEF KeyRows
  <2> QED  BY <1>1, <1>2, <2>1 DEF IssueKey
<1>3. ASSUME NEW u \in Admins, Revoke(u)
      PROVE  /\ keys'[k] \in KeyRows \cup {None}
             /\ keys[k] # None => keys'[k] # None
             /\ keys[k] # None /\ keys[k].revoked_at # None => keys'[k].revoked_at # None
  <2> DEFINE loaded == revoking[u].row
  <2>1. revoking[u] # None /\ revoking[u].key \in Keys /\ loaded \in KeyRows
    BY <1>3 DEF Revoke, TypeOK
  <2>2. keys[revoking[u].key] \in KeyRows
    BY <2>1, <1>1 DEF Issued, TypeOK
  <2>3. keys' = [keys EXCEPT ![revoking[u].key] =
                   Flushed(keys[revoking[u].key], loaded, [loaded EXCEPT !.revoked_at = "set"])]
    BY <1>1, <1>3, <2>1 DEF Revoke
  <2> HIDE DEF loaded
  <2>4. CASE k = revoking[u].key
    <3> DEFINE row == Flushed(keys[k], loaded, [loaded EXCEPT !.revoked_at = "set"])
    <3>1. row \in KeyRows /\ (keys[k].revoked_at # None => row.revoked_at # None)
      BY <2>1, <2>2, <2>4, FlushedRow
    <3>2. keys'[k] = row
      BY <1>1, <2>3, <2>4
    <3> HIDE DEF row
    <3> QED  BY <3>1, <3>2, NoneIsNoRow
  <2>5. CASE k # revoking[u].key
    BY <1>1, <2>3, <2>5
  <2> QED  BY <2>4, <2>5
<1>4. ASSUME NEW c \in Calls, TouchKey(c)
      PROVE  /\ keys'[k] \in KeyRows \cup {None}
             /\ keys[k] # None => keys'[k] # None
             /\ keys[k] # None /\ keys[k].revoked_at # None => keys'[k].revoked_at # None
  <2> DEFINE loaded == call[c].row
  <2>1. call[c] # None /\ call[c].key \in Keys /\ loaded \in KeyRows
    BY <1>4 DEF TouchKey, TypeOK
  <2>2. keys[call[c].key] \in KeyRows
    BY <2>1, <1>1 DEF Issued, TypeOK
  <2>3. keys' = [keys EXCEPT ![call[c].key] =
                   Flushed(keys[call[c].key], loaded, [loaded EXCEPT !.last_used_at = "set"])]
    BY <1>1, <1>4, <2>1 DEF TouchKey
  <2> HIDE DEF loaded
  <2> QED  BY <1>1, <2>1, <2>2, <2>3, FlushedRow, NoneIsNoRow, ZenonT(30)
<1> QED
  BY <1>1, <1>2, <1>3, <1>4 DEF Statement, LoadForRevocation, Authenticate, AbortCall

LEMMA StatementStep ==
    ASSUME IInv, Statement
    PROVE  IInv'
<1>1. TypeOK /\ Issued
  BY DEF IInv
<1>2. UNCHANGED <<clock, bucket, granted, refused>>
  BY DEF Statement, IssueKey, LoadForRevocation, Authenticate, Revoke, TouchKey, AbortCall,
         bucketVars
<1>3. keys' \in [Keys -> KeyRows \cup {None}]
  <2>1. DOMAIN keys' = Keys /\ keys' = [k \in Keys |-> keys'[k]]
    BY <1>1 DEF Statement, IssueKey, LoadForRevocation, Authenticate, Revoke, TouchKey,
                AbortCall, TypeOK
  <2> QED  BY <1>1, <2>1, KeyWritten
<1> DEFINE CallsFine ==
        /\ call' \in [Calls -> [key : Keys, row : KeyRows \cup {None}] \cup {None}]
        /\ \A c \in Calls : call'[c] # None => keys[call'[c].key] # None
           RevocationsFine ==
        /\ revoking' \in [Admins -> [key : Keys, row : KeyRows] \cup {None}]
        /\ \A u \in Admins : revoking'[u] # None => keys[revoking'[u].key] # None
<1>4. CallsFine
  <2>1. ASSUME NEW c \in Calls, NEW k \in Keys, Authenticate(c, k)
        PROVE  CallsFine
    <3>1. keys[k] \in KeyRows
      BY <1>1, <2>1 DEF Authenticate, TypeOK
    <3>2. [key |-> k, row |-> keys[k]] \in [key : Keys, row : KeyRows \cup {None}]
      BY <3>1
    <3> QED  BY <1>1, <2>1, <3>2 DEF Authenticate, TypeOK, Issued
  <2>2. ASSUME NEW c \in Calls, TouchKey(c)
        PROVE  CallsFine
    <3>1. call[c] \in [key : Keys, row : KeyRows \cup {None}]
      BY <1>1, <2>2 DEF TouchKey, TypeOK
    <3>2. call' = [call EXCEPT ![c] = [call[c] EXCEPT !.row = None]]
      BY <1>1, <2>2 DEF TouchKey, TypeOK
    <3>3. [call[c] EXCEPT !.row = None] \in [key : Keys, row : KeyRows \cup {None}]
          /\ [call[c] EXCEPT !.row = None].key = call[c].key
      BY <3>1
    <3> QED  BY <1>1, <2>2, <3>2, <3>3 DEF TouchKey, TypeOK, Issued
  <2>3. ASSUME NEW c \in Calls, AbortCall(c)
        PROVE  CallsFine
    BY <1>1, <2>3 DEF AbortCall, TypeOK, Issued
  <2>4. CASE UNCHANGED call
    BY <1>1, <2>4 DEF TypeOK, Issued
  <2> QED  BY <2>1, <2>2, <2>3, <2>4 DEF Statement, IssueKey, LoadForRevocation, Revoke
<1>5. RevocationsFine
  <2>1. ASSUME NEW u \in Admins, NEW k \in Keys, LoadForRevocation(u, k)
        PROVE  RevocationsFine
    <3>1. keys[k] \in KeyRows
      BY <1>1, <2>1 DEF LoadForRevocation, TypeOK
    <3>2. [key |-> k, row |-> keys[k]] \in [key : Keys, row : KeyRows]
      BY <3>1
    <3> QED  BY <1>1, <2>1, <3>2 DEF LoadForRevocation, TypeOK, Issued
  <2>2. ASSUME NEW u \in Admins, Revoke(u)
        PROVE  RevocationsFine
    BY <1>1, <2>2 DEF Revoke, TypeOK, Issued
  <2>3. CASE UNCHANGED revoking
    BY <1>1, <2>3 DEF TypeOK, Issued
  <2> QED  BY <2>1, <2>2, <2>3 DEF Statement, IssueKey, Authenticate, TouchKey, AbortCall
<1>6. TypeOK'
  BY <1>1, <1>2, <1>3, <1>4, <1>5 DEF TypeOK, BucketTypeOK
<1>7. Issued'
  <2>1. \A k \in Keys : keys[k] # None => keys'[k] # None
    BY <1>1, KeyWritten
  <2> QED  BY <1>4, <1>5, <2>1 DEF Issued
<1> QED  BY <1>2, <1>6, <1>7, HistoryKept

-----------------------------------------------------------------------------
(* Time passes.                                                            *)

\* A window goes on, or it is over and the next one is empty.
LEMMA WindowEnds ==
    ASSUME TypeOK, Fresh, Elapse, NEW k \in Keys
    PROVE  /\ bucket'[k] # None =>
                /\ bucket'[k] = bucket[k] /\ bucket[k] # None
                /\ clock' < bucket'[k].expires
           /\ Start(k)' \in Int /\ Start(k) <= Start(k)'
           /\ \/ Counted(k)' = Counted(k)
              \/ Counted(k)' = 0 /\ Start(k)' = clock' /\ Start(k) + Span <= clock'
<1>1. clock' = clock + 1 /\ clock \in Nat
  BY BucketNumbers DEF Elapse
<1>2. bucket'[k] = IF bucket[k] # None /\ bucket[k].expires <= clock' THEN None ELSE bucket[k]
  BY DEF Elapse
<1>3. CASE bucket[k] = None
  BY <1>1, <1>2, <1>3 DEF Start, Counted
<1>4. CASE bucket[k] # None /\ bucket[k].expires <= clock'
  BY <1>1, <1>2, <1>4, BucketNumbers, Numbers DEF Start, Counted
<1>5. CASE bucket[k] # None /\ ~(bucket[k].expires <= clock')
  BY <1>1, <1>2, <1>5, BucketNumbers, Numbers DEF Start, Counted
<1> QED  BY <1>3, <1>4, <1>5

LEMMA ElapseStep ==
    ASSUME IInv, Elapse, UNCHANGED accessVars
    PROVE  IInv'
<1> USE DEF accessVars
<1>1. TypeOK /\ Fresh /\ clock' = clock + 1 /\ clock \in 0..MaxTime /\ MaxTime \in Nat
  BY RateLimitAssumption DEF IInv, Elapse, TypeOK, BucketTypeOK
<1>2. TypeOK'
  <2>1. bucket' \in [Keys -> [count : Nat, expires : Nat] \cup {None}]
    BY <1>1 DEF Elapse, TypeOK, BucketTypeOK
  <2>2. clock' \in 0..MaxTime
    BY <1>1 DEF Elapse
  <2> QED  BY <1>1, <2>1, <2>2 DEF TypeOK, BucketTypeOK
<1>3. Issued'
  BY DEF IInv, Issued
<1>4. Fresh'
  <2> SUFFICES ASSUME NEW k \in Keys, bucket'[k] # None
               PROVE  /\ clock' < bucket'[k].expires /\ bucket'[k].expires <= clock' + Span
                      /\ bucket'[k].count > 0
    BY DEF Fresh
  <2>1. bucket'[k] = bucket[k] /\ bucket[k] # None /\ clock' < bucket'[k].expires
    BY <1>1, WindowEnds
  <2>2. bucket[k].expires \in Nat /\ bucket[k].expires <= clock + Span /\ bucket[k].count > 0
    BY <1>1, <2>1, BucketNumbers DEF Fresh
  <2> QED  BY <1>1, <2>1, <2>2, Numbers
<1>5. ASSUME NEW k \in Keys
      PROVE  Ordered(k)' /\ Behind(k)' /\ Spread(k)'
  <2> DEFINE n == Len(granted[k])
  <2>1. Ordered(k) /\ Behind(k) /\ Spread(k)
    BY DEF IInv
  <2>2. /\ n \in Nat /\ \A i \in 1..n : granted[k][i] \in Nat
        /\ Counted(k) \in 0..Limit /\ Start(k) \in Int
    BY <1>1, BucketNumbers
  <2>3. Ordered(k)'
    BY <1>1, <2>1, <2>2 DEF Ordered
  <2>4. ASSUME NEW i \in 1..n
        PROVE  /\ i <= n - Counted(k)' + 1 => granted[k][i] <= Start(k)'
               /\ i <= n - Counted(k)' - Limit + 1 => granted[k][i] + Span <= Start(k)'
    <3>1. /\ i <= n - Counted(k) + 1 => granted[k][i] <= Start(k)
          /\ i <= n - Counted(k) - Limit + 1 => granted[k][i] + Span <= Start(k)
          /\ granted[k][i] <= clock
      BY <2>1 DEF Behind, Ordered
    <3>2. /\ Start(k)' \in Int /\ Start(k) <= Start(k)'
          /\ \/ Counted(k)' = Counted(k)
             \/ Counted(k)' = 0 /\ Start(k)' = clock' /\ Start(k) + Span <= clock'
      BY <1>1, WindowEnds
    <3>3. granted[k][i] \in Nat
      BY <2>2
    <3> HIDE DEF n
    <3>4. CASE Counted(k)' = Counted(k)
      BY <2>2, <3>1, <3>2, <3>3, <3>4, Numbers
    <3>5. CASE Counted(k)' = 0 /\ Start(k)' = clock' /\ Start(k) + Span <= clock'
      BY <1>1, <2>2, <3>1, <3>3, <3>5, Numbers
    <3> QED  BY <3>2, <3>4, <3>5
  <2>5. Behind(k)'
    BY <2>4 DEF Behind
  <2>6. Spread(k)'
    BY <2>1 DEF Spread
  <2> QED  BY <2>3, <2>5, <2>6
<1>6. ASSUME NEW i \in DOMAIN refused
      PROVE  Outlived(i)'
  <2> DEFINE f == refused[i]
             k == f.key
  <2>1. Outlived(i) /\ k \in Keys /\ f.at \in Nat
    BY <1>1, RefusalNumbers DEF IInv
  <2>2. f.at <= clock'
    BY <1>1, <2>1 DEF Outlived
  <2>3. bucket'[k] # None => bucket'[k] = bucket[k] /\ bucket[k] # None
    BY <1>1, <2>1, WindowEnds
  <2>4. bucket'[k] # None => Counted(k)' = Counted(k)
    BY <2>3 DEF Counted
  <2> QED  BY <2>1, <2>2, <2>3, <2>4 DEF Outlived, Back
<1>7. WaitedIsServed'
  BY DEF IInv, WaitedIsServed
<1> QED  BY <1>2, <1>3, <1>4, <1>5, <1>6, <1>7 DEF IInv

-----------------------------------------------------------------------------
(* A call consumes its allowance.                                          *)

\* What the script makes of the bucket.
LEMMA ScriptEffect ==
    ASSUME TypeOK, Fresh, NEW k \in Keys
    PROVE  LET b == Incremented(k)
           IN  /\ b \in [count : Nat, expires : Nat] /\ b # None /\ b.count > 0
               /\ b.expires = Start(k) + Span
               /\ clock < b.expires /\ b.expires <= clock + Span
               /\ Allowed(b) => b.count = Counted(k) + 1
               /\ ~Allowed(b) =>
                    b.count > Limit /\ Counted(k) = Limit /\ bucket[k] # None
<1> DEFINE b == Incremented(k)
<1>1. clock \in Nat /\ Span \in Nat /\ Span > 0 /\ Limit \in Nat /\ Limit > 0
  BY BucketNumbers, Numbers
<1>2. CASE bucket[k] = None
  <2>1. b = [count |-> 1, expires |-> clock + Span]
    BY <1>2 DEF Incremented, Span
  <2>2. b \in [count : Nat, expires : Nat] /\ b.count = 1 /\ b.expires = clock + Span
    BY <1>1, <2>1
  <2>3. Start(k) = clock /\ Counted(k) = 0
    BY <1>2 DEF Start, Counted
  <2> HIDE DEF b
  <2>4. b # None
    BY <2>2, NoneIsNoRow
  <2> QED  BY <1>1, <2>2, <2>3, <2>4 DEF Allowed, b
<1>3. CASE bucket[k] # None
  <2>1. /\ bucket[k] \in [count : Nat, expires : Nat]
        /\ bucket[k].count \in Nat /\ bucket[k].expires \in Nat
    BY <1>3, BucketNumbers
  <2>2. b = [bucket[k] EXCEPT !.count = bucket[k].count + 1]
    BY <1>3 DEF Incremented
  <2>3. /\ b \in [count : Nat, expires : Nat]
        /\ b.count = bucket[k].count + 1 /\ b.expires = bucket[k].expires
    BY <2>1, <2>2
  <2>4. clock < bucket[k].expires /\ bucket[k].expires <= clock + Span
    BY <1>3 DEF Fresh
  <2>5. Start(k) = bucket[k].expires - Span
    BY <1>3 DEF Start
  <2>6. Counted(k) = IF bucket[k].count <= Limit THEN bucket[k].count ELSE Limit
    BY <1>3 DEF Counted
  <2> HIDE DEF b
  <2>7. b # None
    BY <2>3, NoneIsNoRow
  <2> QED  BY <1>1, <1>3, <2>1, <2>3, <2>4, <2>5, <2>6, <2>7 DEF Allowed, b
<1> QED  BY <1>2, <1>3

\* A call that the script counts, whether or not its reply arrives.
Counts(c) == Consume(c) \/ LoseReply(c)

\* What it does to the histories: the window stays what it is, and a grant
\* counts in it.
LEMMA CountsEffect ==
    ASSUME TypeOK, Fresh, NEW c \in Calls, Counts(c), NEW k \in Keys, k = call[c].key
    PROVE  /\ bucket' = [bucket EXCEPT ![k] = Incremented(k)] /\ clock' = clock
           /\ Start(k)' = Start(k)
           /\ \/ /\ granted' = [granted EXCEPT ![k] = Append(granted[k], clock)]
                 /\ refused' = refused
                 /\ Counted(k)' = Counted(k) + 1 /\ Counted(k) + 1 <= Limit
              \/ /\ granted' = granted
                 /\ \/ refused' = refused
                    \/ refused' = Append(refused,
                          [key |-> k, at |-> clock, retry_after |-> RetryAfter(Incremented(k)),
                           granted |-> Len(granted[k])])
                 /\ Counted(k)' = Counted(k) /\ Counted(k) = Limit /\ bucket[k] # None
<1> DEFINE b == Incremented(k)
<1>1. bucket' = [bucket EXCEPT ![k] = b] /\ clock' = clock
  BY DEF Counts, Consume, LoseReply, Script
<1>2. bucket'[k] = b
  BY <1>1 DEF TypeOK, BucketTypeOK
<1>3. /\ b # None /\ b.expires = Start(k) + Span
      /\ b.count \in Nat /\ Start(k) \in Int /\ Counted(k) \in Nat /\ Span \in Nat /\ Limit \in Nat
  BY ScriptEffect, BucketNumbers, Numbers
<1>4. Start(k)' = Start(k)
  <2> HIDE DEF b
  <2> QED  BY <1>2, <1>3 DEF Start, Span
<1>5. CASE Allowed(b)
  <2>1. b.count = Counted(k) + 1 /\ b.count <= Limit
    BY <1>5, ScriptEffect DEF Allowed
  <2>2. Counted(k)' = Counted(k) + 1
    <3> HIDE DEF b
    <3> QED  BY <1>2, <1>3, <2>1 DEF Counted
  <2>3. /\ granted' = [granted EXCEPT ![k] = Append(granted[k], clock)]
        /\ refused' = refused
    BY <1>5 DEF Counts, Consume, LoseReply, Script, TypeOK
  <2> QED  BY <1>1, <1>4, <2>1, <2>2, <2>3
<1>6. CASE ~Allowed(b)
  <2>1. b.count > Limit /\ Counted(k) = Limit /\ bucket[k] # None
    BY <1>6, ScriptEffect
  <2>2. Counted(k)' = Limit
    <3> HIDE DEF b
    <3> QED  BY <1>2, <1>3, <2>1 DEF Counted
  <2>3. /\ granted' = granted
        /\ \/ refused' = refused
           \/ refused' = Append(refused,
                 [key |-> k, at |-> clock, retry_after |-> RetryAfter(b),
                  granted |-> Len(granted[k])])
    BY <1>6 DEF Counts, Consume, LoseReply, Script
  <2> QED  BY <1>1, <1>4, <2>1, <2>2, <2>3
<1> QED  BY <1>5, <1>6

LEMMA CountsType ==
    ASSUME IInv, NEW c \in Calls, Counts(c)
    PROVE  TypeOK' /\ Issued' /\ Fresh'
<1> DEFINE k == call[c].key
           b == Incremented(k)
<1>1. TypeOK /\ Issued /\ Fresh
  BY DEF IInv
<1>2. k \in Keys
  BY <1>1 DEF Counts, Consume, LoseReply, Script, TypeOK
<1>3. /\ b \in [count : Nat, expires : Nat] /\ b # None /\ b.count > 0
      /\ clock < b.expires /\ b.expires <= clock + Span
  BY <1>1, <1>2, ScriptEffect
<1>4. bucket' = [bucket EXCEPT ![k] = b] /\ clock' = clock
  BY DEF Counts, Consume, LoseReply, Script
<1>5. (call' = [call EXCEPT ![c] = None] \/ call' = call) /\ UNCHANGED <<keys, revoking>>
  BY DEF Counts, Consume, LoseReply, Script
<1>6. BucketTypeOK'
  <2> HIDE DEF b, k
  <2> QED  BY <1>1, <1>2, <1>3, <1>4 DEF TypeOK, BucketTypeOK
<1>7. granted' \in [Keys -> Seq(0..MaxTime)] /\ refused' \in Seq(Refusals)
  <2>1. granted[k] \in Seq(0..MaxTime) /\ refused \in Seq(Refusals) /\ clock \in 0..MaxTime
    BY <1>1, <1>2 DEF TypeOK, BucketTypeOK
  <2>2. Append(granted[k], clock) \in Seq(0..MaxTime)
    BY <2>1
  <2> DEFINE f == [key |-> k, at |-> clock, retry_after |-> RetryAfter(b),
                   granted |-> Len(granted[k])]
  <2>3. f \in Refusals
    <3>1. RetryAfter(b) \in Nat \ {0} /\ clock \in Nat /\ Len(granted[k]) \in Nat
      BY <1>1, <1>2, <1>3, RetryAfterCovers, BucketNumbers
    <3> HIDE DEF b, k
    <3> QED  BY <1>2, <3>1 DEF Refusals
  <2>4. Append(refused, f) \in Seq(Refusals)
    <3> HIDE DEF f
    <3> QED  BY <2>1, <2>3
  <2>5. \/ granted' = [granted EXCEPT ![k] = Append(granted[k], clock)] /\ refused' = refused
        \/ granted' = granted /\ (refused' = refused \/ refused' = Append(refused, f))
    BY <1>1, <1>2, CountsEffect
  <2> HIDE DEF k, f
  <2> QED  BY <1>1, <1>2, <2>2, <2>4, <2>5 DEF TypeOK
<1>8. TypeOK'
  BY <1>1, <1>5, <1>6, <1>7 DEF TypeOK
<1>9. Issued'
  BY <1>1, <1>5 DEF Issued, TypeOK
<1>10. Fresh'
  <2> HIDE DEF b, k
  <2> QED  BY <1>1, <1>2, <1>3, <1>4 DEF Fresh, TypeOK, BucketTypeOK, Span
<1> QED  BY <1>8, <1>9, <1>10

\* The histories of a key: those of another key stay as they are.
LEMMA CountsHistory ==
    ASSUME IInv, NEW c \in Calls, Counts(c), NEW q \in Keys
    PROVE  Ordered(q)' /\ Behind(q)' /\ Spread(q)'
<1> DEFINE k == call[c].key
           n == Len(granted[q])
<1>1. TypeOK /\ Fresh /\ Ordered(q) /\ Behind(q) /\ Spread(q)
  BY DEF IInv
<1>2. k \in Keys /\ clock' = clock
  BY <1>1 DEF Counts, Consume, LoseReply, Script, TypeOK
<1>3. /\ clock \in Nat /\ Start(q) \in Int /\ Start(q) <= clock /\ clock < Start(q) + Span
      /\ Counted(q) \in 0..Limit /\ n \in Nat /\ \A i \in 1..n : granted[q][i] \in Nat
      /\ Limit \in Nat /\ Limit > 0 /\ Span \in Nat
  BY <1>1, BucketNumbers, Numbers
<1>4. CASE q # k
  <2>1. bucket'[q] = bucket[q] /\ granted'[q] = granted[q]
    BY <1>1, <1>2, <1>4, CountsEffect, ZenonT(30) DEF TypeOK, BucketTypeOK
  <2>2. Start(q)' = Start(q) /\ Counted(q)' = Counted(q)
    BY <1>2, <2>1 DEF Start, Counted, Span
  <2> QED  BY <1>1, <1>2, <2>1, <2>2 DEF Ordered, Behind, Spread
<1>5. CASE q = k /\ granted' = granted
  <2>1. Start(q)' = Start(q)
    BY <1>1, <1>2, <1>5, CountsEffect
  <2>2. Counted(q)' = Counted(q)
    <3>1. granted[q] # Append(granted[q], clock)
      BY <1>1 DEF TypeOK
    <3> QED  BY <1>1, <1>2, <1>5, <3>1, CountsEffect DEF TypeOK
  <2> QED  BY <1>1, <1>2, <1>5, <2>1, <2>2 DEF Ordered, Behind, Spread
<1>6. CASE q = k /\ granted' = [granted EXCEPT ![q] = Append(granted[q], clock)]
           /\ Counted(q)' = Counted(q) + 1 /\ Counted(q) + 1 <= Limit /\ Start(q)' = Start(q)
  <2> DEFINE t == granted'[q]
  <2>1. t = Append(granted[q], clock)
    BY <1>1, <1>6 DEF TypeOK
  <2>2. granted[q] \in Seq(0..MaxTime)
    BY <1>1 DEF TypeOK
  <2>3. Len(t) = n + 1 /\ t[n + 1] = clock /\ \A i \in 1..n : t[i] = granted[q][i]
    BY <2>1, <2>2
  <2> HIDE DEF t, n
  <2>4. \A i \in 1..n : /\ granted[q][i] <= clock
                        /\ i <= n - Counted(q) + 1 => granted[q][i] <= Start(q)
                        /\ i <= n - Counted(q) - Limit + 1 => granted[q][i] + Span <= Start(q)
    BY <1>1 DEF Ordered, Behind, n
  <2>5. \A i \in 1..Len(t) : t[i] \in Nat /\ t[i] <= clock
    <3> SUFFICES ASSUME NEW i \in 1..Len(t) PROVE t[i] \in Nat /\ t[i] <= clock
      OBVIOUS
    <3>1. i \in 1..n \/ i = n + 1
      BY <1>3, <2>3
    <3> QED  BY <1>3, <2>3, <2>4, <3>1
  <2>6. \A i, j \in 1..Len(t) : i <= j => t[i] <= t[j]
    <3> SUFFICES ASSUME NEW i \in 1..Len(t), NEW j \in 1..Len(t), i <= j PROVE t[i] <= t[j]
      OBVIOUS
    <3>1. CASE j = n + 1
      BY <2>3, <2>5, <3>1
    <3>2. CASE j # n + 1
      <4>1. i \in 1..n /\ j \in 1..n
        BY <1>3, <2>3, <3>2
      <4> QED  BY <1>1, <2>3, <4>1 DEF Ordered, n
    <3> QED  BY <3>1, <3>2
  <2>7. Ordered(q)'
    BY <1>2, <2>5, <2>6 DEF Ordered, t
  <2>8. ASSUME NEW i \in 1..Len(t)
        PROVE  /\ i <= Len(t) - Counted(q)' + 1 => t[i] <= Start(q)'
               /\ i <= Len(t) - Counted(q)' - Limit + 1 => t[i] + Span <= Start(q)'
    <3>1. Len(t) - Counted(q)' = n - Counted(q)
      BY <1>3, <1>6, <2>3
    <3>2. i \in 1..n \/ (i = n + 1 /\ Counted(q) = 0)
          \/ (i = n + 1 /\ ~(i <= n - Counted(q) + 1))
      BY <1>3, <2>3
    <3>3. ~(n + 1 <= n - Counted(q) - Limit + 1)
      BY <1>3
    <3>4. CASE i \in 1..n
      BY <1>6, <2>3, <2>4, <3>1, <3>4
    <3>5. CASE i = n + 1 /\ Counted(q) = 0
      <4>1. bucket[q] = None => Start(q) = clock
        BY DEF Start
      <4>2. bucket[q] # None => Counted(q) > 0
        BY <1>1, <1>3, BucketNumbers DEF Counted, Fresh
      <4> QED  BY <1>3, <1>6, <2>3, <3>1, <3>3, <3>5, <4>1, <4>2, SMTT(20)
    <3>6. CASE i = n + 1 /\ ~(i <= n - Counted(q) + 1)
      BY <1>6, <3>1, <3>3, <3>6
    <3> QED  BY <3>2, <3>4, <3>5, <3>6
  <2>9. Behind(q)'
    BY <2>8 DEF Behind, t, Span
  <2>10. ASSUME NEW i \in 1..Len(t), NEW j \in 1..Len(t), j + 1 = i + 2 * Limit
         PROVE  t[i] + Span <= t[j]
    <3>1. CASE i = n + 1
      BY <1>3, <2>3, <2>10, <3>1
    <3>2. CASE j = n + 1 /\ i \in 1..n
      <4>1. i <= n - Counted(q) - Limit + 1
        BY <1>3, <1>6, <2>3, <2>10, <3>2
      <4>2. granted[q][i] + Span <= Start(q)
        BY <2>4, <3>2, <4>1
      <4> QED  BY <1>3, <2>3, <3>2, <4>2, SMTT(20) DEF n
    <3>3. CASE j # n + 1 /\ i \in 1..n
      <4>1. j \in 1..n
        BY <1>3, <2>3, <3>3
      <4> QED  BY <1>1, <2>3, <2>10, <3>3, <4>1 DEF Spread, n
    <3> QED  BY <1>3, <2>3, <3>1, <3>2, <3>3
  <2>11. Spread(q)'
    BY <2>10 DEF Spread, t, Span
  <2> QED  BY <2>7, <2>9, <2>11
<1> QED  BY <1>1, <1>2, <1>4, <1>5, <1>6, CountsEffect

\* A refusal that was on record stays true of the window that follows it.
LEMMA CountsOutlived ==
    ASSUME IInv, NEW c \in Calls, Counts(c), NEW i \in DOMAIN refused, refused'[i] = refused[i]
    PROVE  Outlived(i)'
<1> DEFINE k == call[c].key
           f == refused[i]
           q == f.key
           n == Len(granted[q])
<1>1. TypeOK /\ Fresh /\ Outlived(i)
  BY DEF IInv
<1>2. k \in Keys /\ clock' = clock
  BY <1>1 DEF Counts, Consume, LoseReply, Script, TypeOK
<1>3. /\ q \in Keys /\ f.granted \in Nat /\ f.at \in Nat /\ Back(f) \in Nat
      /\ n \in Nat /\ Counted(q) \in Nat /\ Start(q) \in Int
  BY <1>1, RefusalNumbers, BucketNumbers
<1>4. Back(f)' = Back(f)
  BY <1>2 DEF Back
<1>5. CASE q # k
  <2>1. bucket'[q] = bucket[q] /\ granted'[q] = granted[q]
    BY <1>1, <1>2, <1>3, <1>5, CountsEffect, ZenonT(30) DEF TypeOK, BucketTypeOK
  <2>2. Counted(q)' = Counted(q)
    BY <2>1 DEF Counted
  <2> QED  BY <1>1, <1>2, <2>1, <2>2 DEF Outlived, Back
<1>6. CASE q = k
  <2>1. bucket'[q] = Incremented(q)
    <3>1. bucket' = [bucket EXCEPT ![q] = Incremented(q)]
      BY <1>6 DEF Counts, Consume, LoseReply, Script
    <3> QED  BY <1>1, <1>3, <3>1 DEF TypeOK, BucketTypeOK
  <2>2. bucket'[q].expires = Start(q) + Span
    BY <1>1, <1>3, <2>1, ScriptEffect
  <2>3. bucket[q] # None => bucket'[q].expires = bucket[q].expires
    BY <1>1, <1>3, <2>2, BucketNumbers, Numbers DEF Start
  <2>4. bucket[q] = None => Counted(q) = 0
    BY DEF Counted
  <2>5. CASE granted' = granted /\ Counted(q)' = Counted(q) /\ bucket[q] # None
    BY <1>1, <1>2, <2>3, <2>5 DEF Outlived, Back
  <2>6. CASE granted' = [granted EXCEPT ![q] = Append(granted[q], clock)]
             /\ Counted(q)' = Counted(q) + 1
    <3>1. Len(granted'[q]) = n + 1
      BY <1>1, <1>3, <2>6 DEF TypeOK
    <3>2. f.at <= clock' /\ f.granted <= Len(granted'[q])
      BY <1>1, <1>2, <1>3, <3>1 DEF Outlived
    <3>3. CASE n - f.granted >= Counted(q)
      <4>1. Len(granted'[q]) - f.granted >= Counted(q)'
        BY <1>3, <2>6, <3>1, <3>3
      <4> QED  BY <3>2, <4>1 DEF Outlived
    <3>4. CASE ~(n - f.granted >= Counted(q))
      <4>1. bucket[q] # None
        BY <1>1, <1>3, <2>4, <3>4 DEF Outlived
      <4>2. bucket'[q].expires <= Back(f)
        BY <1>1, <2>3, <3>4, <4>1 DEF Outlived
      <4> QED  BY <3>2, <4>2 DEF Outlived, Back
    <3> QED  BY <3>3, <3>4
  <2> QED  BY <1>1, <1>2, <1>6, <2>5, <2>6, CountsEffect, ZenonT(30)
<1> QED  BY <1>5, <1>6

LEMMA CountsRefusals ==
    ASSUME IInv, NEW c \in Calls, Counts(c)
    PROVE  (\A i \in DOMAIN refused : Outlived(i))' /\ WaitedIsServed'
<1>1. TypeOK /\ Fresh /\ clock' = clock
  BY DEF IInv, Counts, Consume, LoseReply
<1>2. PICK k \in Keys : k = call[c].key
  BY <1>1 DEF Counts, Consume, LoseReply, Script, TypeOK
<1>3. refused \in Seq(Refusals) /\ Len(refused) \in Nat /\ DOMAIN refused = 1..Len(refused)
  BY <1>1 DEF TypeOK
<1> PICK last \in Nat : last = Len(refused) + 1
  BY <1>3
<1> DEFINE b == Incremented(k)
           n == Len(granted[k])
           g == [key |-> k, at |-> clock, retry_after |-> RetryAfter(b), granted |-> n]
<1>4. CASE refused' = refused
  <2>1. (\A i \in DOMAIN refused : Outlived(i))'
    BY <1>4, CountsOutlived
  <2>2. WaitedIsServed'
    BY <1>4 DEF IInv, WaitedIsServed
  <2> QED  BY <2>1, <2>2
<1>5. CASE granted' = granted /\ refused' = Append(refused, g)
           /\ Counted(k)' = Counted(k) /\ Counted(k) = Limit /\ bucket[k] # None
  <2>1. /\ DOMAIN refused' = 1..last /\ refused'[last] = g
        /\ \A i \in DOMAIN refused : refused'[i] = refused[i]
    <3> HIDE DEF g
    <3> QED  BY <1>3, <1>5
  <2>2. /\ clock \in Nat /\ n \in Nat /\ Limit \in Nat /\ Counted(k) \in Nat
        /\ b.expires \in Nat /\ clock < b.expires
        /\ RetryAfter(b) \in Nat \ {0} /\ b.expires <= clock + Second * RetryAfter(b) + Second \div 2
    <3>1. b \in [count : Nat, expires : Nat] /\ clock < b.expires /\ clock \in Nat
      BY <1>1, <1>2, ScriptEffect, BucketNumbers
    <3>2. b.expires \in Nat
      BY <3>1
    <3>3. n \in Nat /\ Limit \in Nat /\ Counted(k) \in Nat
      BY <1>1, BucketNumbers, Numbers
    <3> HIDE DEF b, n
    <3>4. RetryAfter(b) \in Nat \ {0} /\ b.expires <= clock + Second * RetryAfter(b) + Second \div 2
      BY <3>1, RetryAfterCovers
    <3> QED  BY <3>1, <3>2, <3>3, <3>4
  <2>3. /\ g.key = k /\ g.at = clock /\ g.granted = n
        /\ g.retry_after = RetryAfter(b)
    OBVIOUS
  <2>4. bucket'[k] = b
    BY <1>1, <1>2, CountsEffect, ZenonT(30) DEF TypeOK, BucketTypeOK
  <2> HIDE DEF g, b
  <2>5. Outlived(last)'
    <3>1. refused'[last].at <= clock'
      BY <1>1, <2>1, <2>2, <2>3
    <3>2. refused'[last].granted <= Len(granted'[refused'[last].key])
      BY <1>5, <2>1, <2>2, <2>3
    <3>3. bucket'[refused'[last].key].expires
            <= refused'[last].at + Second * refused'[last].retry_after + Second \div 2
      BY <2>1, <2>2, <2>3, <2>4
    <3> QED  BY <3>1, <3>2, <3>3 DEF Outlived, Back
  <2>6. ASSUME NEW i \in DOMAIN refused
        PROVE  Outlived(i)'
    BY <2>1, <2>6, CountsOutlived
  <2>7. (\A i \in DOMAIN refused : Outlived(i))'
    <3>1. \A i \in DOMAIN refused' : i \in DOMAIN refused \/ i = last
      BY <1>3, <2>1
    <3>2. \A i \in DOMAIN refused' : Outlived(i)'
      BY <2>5, <2>6, <3>1
    <3> QED  BY <3>2
  <2>8. ASSUME NEW i \in DOMAIN refused, refused[i].key = k, clock >= Back(refused[i])
        PROVE  n - refused[i].granted >= Limit
    <3>1. Outlived(i)
      BY DEF IInv
    <3>2. /\ refused[i].granted \in Nat /\ Back(refused[i]) \in Nat
          /\ bucket[k].expires \in Nat /\ clock < bucket[k].expires
      BY <1>1, <1>2, <1>5, RefusalNumbers, BucketNumbers DEF Fresh
    <3>3. ~(bucket[k].expires <= Back(refused[i]))
      BY <2>2, <2>8, <3>2
    <3> QED  BY <1>5, <2>8, <3>1, <3>3 DEF Outlived
  <2>9. \A j \in DOMAIN refused' : refused'[j].at <= clock
    <3>1. \A j \in DOMAIN refused : refused[j].at <= clock
      BY DEF IInv, Outlived
    <3> QED  BY <1>3, <2>1, <2>2, <2>3, <3>1
  <2>10. ASSUME NEW i \in DOMAIN refused', NEW j \in DOMAIN refused',
                refused'[i].key = refused'[j].key,
                refused'[j].at >= refused'[i].at + Second * refused'[i].retry_after
                                    + Second \div 2
         PROVE  refused'[j].granted - refused'[i].granted >= Limit
    <3>1. CASE i = last
      <4>1. refused'[j].at <= clock /\ refused'[j].at \in Nat
        <5>1. j \in DOMAIN refused \/ j = last
          BY <1>3, <2>1
        <5> QED  BY <1>1, <2>1, <2>2, <2>3, <2>9, <5>1, RefusalNumbers
      <4>2. refused'[i] = g
        BY <2>1, <3>1
      <4> QED  BY <2>2, <2>3, <2>10, <4>1, <4>2, Numbers
    <3>2. CASE i \in DOMAIN refused /\ j = last
      <4>1. refused'[i] = refused[i] /\ refused'[j] = g
        BY <2>1, <3>2
      <4> QED  BY <2>3, <2>8, <2>10, <3>2, <4>1 DEF Back
    <3>3. CASE i \in DOMAIN refused /\ j \in DOMAIN refused
      BY <2>1, <2>10, <3>3 DEF IInv, WaitedIsServed
    <3> QED  BY <1>3, <2>1, <3>1, <3>2, <3>3
  <2> QED  BY <2>7, <2>10 DEF WaitedIsServed
<1>6. \/ refused' = refused
      \/ /\ granted' = granted /\ refused' = Append(refused, g)
         /\ Counted(k)' = Counted(k) /\ Counted(k) = Limit /\ bucket[k] # None
  BY <1>1, <1>2, CountsEffect
<1> QED  BY <1>4, <1>5, <1>6

-----------------------------------------------------------------------------
(* The invariant, and what it is for.                                      *)

LEMMA Invariance == Spec => []IInv
<1>1. IInv /\ [Next]_vars => IInv'
  <2> SUFFICES ASSUME IInv, [Next]_vars PROVE IInv'
    OBVIOUS
  <2>1. CASE Elapse /\ UNCHANGED accessVars
    BY <2>1, ElapseStep
  <2>2. CASE Statement
    BY <2>2, StatementStep
  <2>3. ASSUME NEW c \in Calls, Counts(c)
        PROVE  IInv'
    BY <2>3, CountsType, CountsHistory, CountsRefusals DEF IInv
  <2>4. CASE UNCHANGED vars
    <3>1. TypeOK' /\ Issued'
      BY <2>4 DEF IInv, TypeOK, BucketTypeOK, Issued, vars, bucketVars, accessVars
    <3> QED  BY <2>4, <3>1, HistoryKept DEF vars, bucketVars, accessVars
  <2> QED  BY <2>1, <2>2, <2>3, <2>4 DEF Next, Statement, Counts
<1> QED  BY <1>1, InitHolds, PTL DEF Spec

\* Types; in them, every 429 names a positive wait.
THEOREM TypeCorrect == Spec => []TypeOK
<1>1. IInv => TypeOK
  BY DEF IInv
<1> QED  BY <1>1, Invariance, PTL

\* get_api_key_principal writes last_used_at from an old row and revoke_api_key
\* revoked_at: neither flush brings a revoked key back.
THEOREM RevocationFinal == Spec => RevocationIsFinal
<1>1. IInv /\ [Next]_vars
        => [\A k \in Keys : keys[k] # None /\ keys[k].revoked_at # None
              => keys'[k] # None /\ keys'[k].revoked_at # None]_vars
  <2> SUFFICES ASSUME IInv, Next, NEW k \in Keys, keys[k] # None, keys[k].revoked_at # None
               PROVE  keys'[k] # None /\ keys'[k].revoked_at # None
    OBVIOUS
  <2>1. CASE Statement
    BY <2>1, KeyWritten DEF IInv
  <2>2. CASE UNCHANGED keys
    BY <2>2
  <2> QED  BY <2>1, <2>2 DEF Next, Statement, Consume, LoseReply, accessVars
<1> QED  BY <1>1, Invariance, PTL DEF Spec, RevocationIsFinal

\* RATE_LIMIT_SCRIPT, for every limit and window: less than a window's length
\* never sees twice the allowance.
THEOREM NeverTwice == Spec => []WindowLimit
<1>1. IInv => WindowLimit
  <2> SUFFICES ASSUME IInv, NEW k \in Keys, NEW i \in DOMAIN granted[k],
                      NEW j \in DOMAIN granted[k], i <= j,
                      granted[k][j] - granted[k][i] < Second * Window
               PROVE  j - i + 1 < 2 * Limit
    BY DEF WindowLimit
  <2> DEFINE n == Len(granted[k])
  <2>1. TypeOK /\ Fresh /\ Ordered(k) /\ Spread(k)
    BY DEF IInv
  <2>2. n \in Nat /\ (\A m \in 1..n : granted[k][m] \in Nat) /\ Limit \in Nat /\ Span \in Nat
    BY <2>1, BucketNumbers, Numbers
  <2>3. i \in 1..n /\ j \in 1..n
    BY <2>1 DEF TypeOK
  <2>4. ASSUME j + 1 >= i + 2 * Limit
        PROVE  FALSE
    <3> DEFINE m == i + 2 * Limit - 1
    <3> HIDE DEF n
    <3>0. i \in Nat /\ j \in Nat /\ n \in Nat /\ 1 <= i /\ j <= n
      BY <2>2, <2>3
    <3>1. m \in 1..n /\ i <= m /\ m <= j /\ m + 1 = i + 2 * Limit
      <4>1. Limit \in Nat /\ Limit >= 1
        BY Numbers
      <4> QED  BY <2>4, <3>0, <4>1, SMTT(20)
    <3> HIDE DEF m
    <3>2. granted[k][i] + Span <= granted[k][m]
      BY <2>1, <2>3, <3>1 DEF Spread, n
    <3>3. granted[k][m] <= granted[k][j]
      BY <2>1, <2>3, <2>4, <3>1 DEF Ordered, n
    <3>4. granted[k][i] \in Nat /\ granted[k][m] \in Nat /\ granted[k][j] \in Nat
      BY <2>2, <2>3, <3>1
    <3> QED  BY <2>2, <3>2, <3>3, <3>4 DEF Span
  <2> QED  BY <2>2, <2>3, <2>4
<1> QED  BY <1>1, Invariance, PTL

\* retry_after of the 429, for every limit and window: a client that waits
\* for it and half a second more, since TTL is rounded, is refused again only if
\* the script granted a whole allowance since.
THEOREM WaitingHelps == Spec => []WaitedIsServed
<1>1. IInv => WaitedIsServed
  BY DEF IInv
<1> QED  BY <1>1, Invariance, PTL
=============================================================================
