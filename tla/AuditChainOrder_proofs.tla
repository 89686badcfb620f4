----------------------- MODULE AuditChainOrder_proofs -----------------------
(***************************************************************************)
(* The order of the trail, the refinement of the ledger and the verdicts   *)
(* of verification.  Replicas whose clocks agree, MaxSkew = 0, are an      *)
(* assumption of every theorem but the last two: the run chain_skew shows  *)
(* how the chain forks without it, and they bound what then happens.       *)
(***************************************************************************)
EXTENDS AuditChainSafety_proofs, SequenceTheorems

-----------------------------------------------------------------------------
(* The order of the rows is the order of their commits.                    *)

\* The lock of the application orders the timestamps of its rows.
ClockOrder ==
    \A a \in Apps :
        /\ \A i \in DOMAIN log[a] : log[a][i].received_at < now
        /\ \A i, j \in DOMAIN log[a] :
              i < j => log[a][i].received_at < log[a][j].received_at

LEMMA OrderIsPosition ==
    ASSUME TypeInv, ClockOrder, NEW a \in Apps, NEW i \in DOMAIN log[a], NEW j \in DOMAIN log[a]
    PROVE  Precedes(a, i, j) <=> i < j
<1>1. log[a] \in Seq(Events)
  BY DEF TypeInv, TypeOK, StoreTypeOK
<1>2. i \in Nat /\ j \in Nat /\ log[a][i].received_at \in Nat /\ log[a][j].received_at \in Nat
  BY <1>1 DEF TypeInv, StampsBounded
<1>3. i < j \/ i = j \/ j < i
  BY <1>2
<1>4. /\ i < j => log[a][i].received_at < log[a][j].received_at
      /\ j < i => log[a][j].received_at < log[a][i].received_at
  BY DEF ClockOrder
<1> QED  BY <1>2, <1>3, <1>4 DEF Precedes

LEMMA ClockStep ==
    ASSUME MaxSkew = 0, TypeInv, ClockOrder, [Next]_vars
    PROVE  ClockOrder'
<1>1. now \in Nat
  BY DEF TypeInv, TypeOK, StoreTypeOK
<1>2. SUFFICES ASSUME NEW b \in Apps
               PROVE  /\ \A i \in DOMAIN log'[b] : log'[b][i].received_at < now'
                      /\ \A i, j \in DOMAIN log'[b] :
                            i < j => log'[b][i].received_at < log'[b][j].received_at
  BY DEF ClockOrder
<1>3. \A i \in DOMAIN log[b] : log[b][i].received_at \in Nat /\ log[b][i].received_at < now
  BY DEF TypeInv, StampsBounded, ClockOrder
<1>4. CASE UNCHANGED log
  <2>1. now' \in Nat /\ now <= now'
    BY TimePasses
  <2> QED  BY <1>1, <1>3, <1>4, <2>1 DEF ClockOrder
<1>5. CASE \E r \in Requests : InsertEvent(r)
  <2>1. PICK r \in Requests : InsertEvent(r)
    BY <1>5
  <2> DEFINE a == App(r)
             n == Len(log[a])
  <2>2. /\ n \in Nat /\ DOMAIN log[a] = 1..n /\ DOMAIN log'[a] = 1..(n + 1)
        /\ \A c \in Apps \ {a} : log'[c] = log[c]
        /\ \A i \in DOMAIN log[a] : log'[a][i] = log[a][i]
        /\ now <= log'[a][n + 1].received_at
        /\ log'[a][n + 1].received_at <= now + MaxSkew
        /\ now' = now + 1
    BY <2>1, InsertRows
  <2>3. log'[a][n + 1].received_at \in Nat
    <3>1. TypeInv' => log'[a][n + 1].received_at \in Nat
      BY <2>1, <2>2, InsertRows DEF TypeInv, StampsBounded
    <3> QED  BY <3>1, TypeStep
  <2>4. log'[a][n + 1].received_at = now
    BY <1>1, <2>2, <2>3
  <2> HIDE DEF a, n
  <2>5. CASE b # a
    BY <1>1, <1>3, <2>2, <2>5 DEF ClockOrder
  <2>6. CASE b = a
    <3>1. \A i \in DOMAIN log'[a] : i \in DOMAIN log[a] \/ i = n + 1
      BY <2>2
    <3>2. \A i \in DOMAIN log'[a] : log'[a][i].received_at < now'
      BY <1>1, <1>3, <2>2, <2>4, <2>6, <3>1
    <3>3. ASSUME NEW i \in DOMAIN log'[a], NEW j \in DOMAIN log'[a], i < j
          PROVE  log'[a][i].received_at < log'[a][j].received_at
      <4>1. i \in DOMAIN log[a]
        BY <2>2, <3>3
      <4>2. CASE j = n + 1
        BY <1>3, <2>2, <2>4, <2>6, <4>1, <4>2
      <4>3. CASE j \in DOMAIN log[a]
        BY <2>2, <2>6, <3>3, <4>1, <4>3 DEF ClockOrder
      <4> QED  BY <3>1, <4>2, <4>3
    <3> QED  BY <2>6, <3>2, <3>3
  <2> QED  BY <2>5, <2>6
<1> QED  BY <1>4, <1>5, RowsStep DEF CommitRun

-----------------------------------------------------------------------------
(* What retention removes is the old end.                                  *)

\* With a row, a plan removes every retained row before it.
PlanDownClosed ==
    \A k \in Runs, a \in Apps :
        plan[k][a] # None =>
            \A i \in plan[k][a].ids, j \in live[a] : j < i => j \in plan[k][a].ids

\* So does what a run has pending.
WriteDownClosed ==
    \A a \in Apps :
        uncommitted[a] # None =>
            /\ uncommitted[a].ids \subseteq DOMAIN log[a]
            /\ \A i \in uncommitted[a].ids, j \in live[a] : j < i => j \in uncommitted[a].ids

SuffixInv == ClockOrder /\ PlanDownClosed /\ WriteDownClosed /\ RetainedIsSuffix

\* A retained row that is new was appended behind all others.
LEMMA NewRowsLast ==
    ASSUME TypeInv, [Next]_vars, NEW a \in Apps, NEW j \in live'[a], j \notin live[a],
           NEW i \in DOMAIN log[a]
    PROVE  i < j
<1>1. CASE \E r \in Requests : InsertEvent(r)
  <2>1. PICK r \in Requests : InsertEvent(r)
    BY <1>1
  <2> DEFINE b == App(r)
             n == Len(log[b])
  <2>2. /\ n \in Nat /\ DOMAIN log[b] = 1..n
        /\ \A c \in Apps \ {b} : live'[c] = live[c]
        /\ live'[b] = live[b] \cup {n + 1}
    BY <2>1, InsertRows
  <2> HIDE DEF b, n
  <2> QED  BY <2>2
<1> QED  BY <1>1, RowsStep, CommitRows

LEMMA PlanDownStep ==
    ASSUME TypeInv, SuffixInv, [Next]_vars
    PROVE  PlanDownClosed'
<1> SUFFICES ASSUME NEW k \in Runs, NEW a \in Apps, plan'[k][a] # None,
                    NEW i \in plan'[k][a].ids, NEW j \in live'[a], j < i
             PROVE  j \in plan'[k][a].ids
  BY DEF PlanDownClosed
<1>1. CASE plan'[k][a] = plan[k][a]
  <2>1. i \in DOMAIN log[a]
    BY <1>1 DEF TypeInv, PlansNamed
  <2>2. i \in Nat /\ j \in Nat
    <3>1. log[a] \in Seq(Events) /\ TypeInv'
      BY TypeStep DEF TypeInv, TypeOK, StoreTypeOK
    <3> QED  BY <2>1, <3>1 DEF TypeInv, TypeOK, StoreTypeOK
  <2>3. j \in live[a]
    BY <2>1, <2>2, NewRowsLast
  <2> QED  BY <1>1, <2>3 DEF SuffixInv, PlanDownClosed
<1>2. CASE plan'[k][a] = PlanFor(a, live[a], cutoff[k]) /\ UNCHANGED live
  <2> DEFINE expired == contiguous_expired_prefix(a, live[a], cutoff[k])
  <2>1. plan'[k][a].ids = expired
    BY <1>2 DEF PlanFor, PlanOf
  <2>2. expired \subseteq live[a] /\ live[a] \subseteq DOMAIN log[a] /\ live[a] \subseteq Nat
    BY DEF contiguous_expired_prefix, TypeInv, TypeOK, StoreTypeOK
  <2>3. \A x, y \in live[a] : Precedes(a, x, y) <=> x < y
    BY <2>2, OrderIsPosition DEF SuffixInv
  <2>4. ASSUME NEW x \in live[a], x = j \/ Precedes(a, x, j)
        PROVE  log[a][x].occurred_at < cutoff[k]
    <3>1. i \in live[a] /\ i \in expired /\ j \in live[a]
      BY <1>2, <2>1, <2>2
    <3>2. Precedes(a, x, i)
      BY <2>2, <2>3, <2>4, <3>1
    <3> QED  BY <3>1, <3>2 DEF contiguous_expired_prefix
  <2> QED  BY <1>2, <2>1, <2>4 DEF contiguous_expired_prefix
<1> QED  BY <1>1, <1>2, PlanStep

LEMMA WriteDownStep ==
    ASSUME TypeInv, SuffixInv, [Next]_vars
    PROVE  WriteDownClosed'
<1> SUFFICES ASSUME NEW a \in Apps, uncommitted'[a] # None
             PROVE  /\ uncommitted'[a].ids \subseteq DOMAIN log'[a]
                    /\ \A i \in uncommitted'[a].ids, j \in live'[a] :
                          j < i => j \in uncommitted'[a].ids
  BY DEF WriteDownClosed
<1>1. CASE uncommitted'[a] = uncommitted[a]
  <2>1. uncommitted[a].ids \subseteq DOMAIN log[a]
    BY <1>1 DEF SuffixInv, WriteDownClosed
  <2>2. uncommitted'[a].ids \subseteq DOMAIN log'[a]
    BY <1>1, <2>1, RowsKept
  <2>3. ASSUME NEW i \in uncommitted[a].ids, NEW j \in live'[a], j < i
        PROVE  j \in uncommitted[a].ids
    <3>1. i \in Nat /\ j \in Nat
      <4>1. log[a] \in Seq(Events) /\ TypeInv'
        BY TypeStep DEF TypeInv, TypeOK, StoreTypeOK
      <4> QED  BY <2>1, <4>1 DEF TypeInv, TypeOK, StoreTypeOK
    <3>2. j \in live[a]
      BY <2>1, <2>3, <3>1, NewRowsLast
    <3> QED  BY <1>1, <2>3, <3>2 DEF SuffixInv, WriteDownClosed
  <2> QED  BY <1>1, <2>2, <2>3
<1>2. ASSUME NEW k \in Runs, loaded[k] # None, loaded[k].app = a,
             uncommitted'[a].ids = Deleted(k, a), UNCHANGED <<log, live>>
      PROVE  /\ uncommitted'[a].ids \subseteq DOMAIN log'[a]
             /\ \A i \in uncommitted'[a].ids, j \in live'[a] :
                   j < i => j \in uncommitted'[a].ids
  <2>1. plan[k][a] # None
    BY <1>2 DEF TypeInv, LoadedPlanned
  <2>2. plan[k][a].ids \subseteq DOMAIN log[a]
    BY <2>1 DEF TypeInv, PlansNamed
  <2> QED  BY <1>2, <2>1, <2>2 DEF Deleted, SuffixInv, PlanDownClosed
<1> QED  BY <1>1, <1>2, WriteStep

LEMMA SuffixStep ==
    ASSUME TypeInv, SuffixInv, [Next]_vars
    PROVE  RetainedIsSuffix'
<1> SUFFICES ASSUME NEW a \in Apps, NEW i \in live'[a], NEW j \in DOMAIN log'[a], i <= j
             PROVE  j \in live'[a]
  BY DEF RetainedIsSuffix
<1>1. CASE UNCHANGED <<log, live>>
  BY <1>1 DEF SuffixInv, RetainedIsSuffix
<1>2. CASE \E r \in Requests : InsertEvent(r)
  <2>1. PICK r \in Requests : InsertEvent(r)
    BY <1>2
  <2> DEFINE b == App(r)
             n == Len(log[b])
  <2>2. /\ n \in Nat /\ DOMAIN log[b] = 1..n /\ DOMAIN log'[b] = 1..(n + 1)
        /\ \A c \in Apps \ {b} : log'[c] = log[c] /\ live'[c] = live[c]
        /\ live'[b] = live[b] \cup {n + 1}
    BY <2>1, InsertRows
  <2> HIDE DEF b, n
  <2>3. CASE a # b
    BY <2>2, <2>3 DEF SuffixInv, RetainedIsSuffix
  <2>4. CASE a = b
    <3>1. (j = n + 1) \/ (j \in DOMAIN log[a] /\ j # n + 1)
      BY <2>2, <2>4
    <3>2. j \in DOMAIN log[a] => i \in live[a]
      BY <2>2, <2>4
    <3> QED  BY <2>2, <2>4, <3>1, <3>2 DEF SuffixInv, RetainedIsSuffix
  <2> QED  BY <2>3, <2>4
<1>3. CASE \E k \in Runs : CommitRun(k)
  <2>1. UNCHANGED log
    BY <1>3 DEF CommitRun
  <2>2. CASE live'[a] = live[a]
    BY <2>1, <2>2 DEF SuffixInv, RetainedIsSuffix
  <2>3. CASE uncommitted[a] # None /\ live'[a] = live[a] \ uncommitted[a].ids
    <3>1. i \in live[a] /\ i \notin uncommitted[a].ids /\ j \in live[a]
      BY <2>1, <2>3 DEF SuffixInv, RetainedIsSuffix
    <3>2. i \in Nat /\ j \in Nat
      BY <3>1 DEF TypeInv, TypeOK, StoreTypeOK
    <3>3. i = j \/ i < j
      BY <3>2
    <3> QED  BY <2>3, <3>1, <3>3 DEF SuffixInv, WriteDownClosed
  <2> QED  BY <1>3, <2>2, <2>3, CommitRows
<1> QED  BY <1>1, <1>2, <1>3, RowsStep

LEMMA SuffixInit == Init => SuffixInv
BY DEF Init, StoreInit, RetentionInit, Unplanned, SuffixInv, ClockOrder, PlanDownClosed,
       WriteDownClosed, RetainedIsSuffix

THEOREM SuffixInvariance ==
    ASSUME MaxSkew = 0
    PROVE  Spec => []SuffixInv
<1>1. Init => SuffixInv
  BY SuffixInit
<1>2. TypeInv /\ SuffixInv /\ [Next]_vars => SuffixInv'
  BY ClockStep, PlanDownStep, WriteDownStep, SuffixStep DEF SuffixInv
<1> QED  BY <1>1, <1>2, TypeInvariance, PTL DEF Spec

\* If the clocks of the replicas agree, retention removes a prefix of the
\* trail and nothing else, however its runs overlap with each other and with
\* writers (contiguous_expired_prefix and the DELETE of execute_retention).
THEOREM SuffixCorrect ==
    ASSUME MaxSkew = 0
    PROVE  Spec => []RetainedIsSuffix
<1>1. SuffixInv => RetainedIsSuffix
  BY DEF SuffixInv
<1> QED  BY <1>1, SuffixInvariance, PTL

-----------------------------------------------------------------------------
(* The writers of an application take turns.                               *)

\* A request that reads the latest row or inserts holds the row lock of its
\* application.
LockHeld ==
    \A r \in Requests : phase[r] \in {"latest", "insert"} => exclusive[App(r)] = r

\* What it read is still the hash of the last row, if that row is retained.
LatestIsLast ==
    \A r \in Requests :
        LET a == App(r)
        IN  phase[r] = "insert" /\ Len(log[a]) \in live[a] =>
                latest[r] = log[a][Len(log[a])].event_hash

LEMMA HolderApp ==
    ASSUME TypeInv, NEW r \in Requests, phase[r] \in {"latest", "insert", "lock"}
    PROVE  App(r) \in Apps
BY DEF TypeInv, InFlight, App, RequestsReceived

LEMMA LockHeldStep ==
    ASSUME TypeInv, LockHeld, [Next]_vars
    PROVE  LockHeld'
<1> USE DEF storeVars, ingestionVars
<1>1. CASE UNCHANGED <<phase, request, exclusive>>
  BY <1>1 DEF LockHeld, App
<1>2. CASE \E q \in Requests :
              \/ RequestNext(q)
              \/ AbortRequest(q, "lost")
  <2>1. PICK q \in Requests : RequestNext(q) \/ AbortRequest(q, "lost")
    BY <1>2
  <2>2. SUFFICES ASSUME NEW r \in Requests, phase'[r] \in {"latest", "insert"}
                 PROVE  exclusive'[App(r)'] = r
    BY DEF LockHeld
  <2>3. /\ phase \in [Requests -> Phases]
        /\ request \in [Requests -> RequestsReceived \cup {None}]
        /\ exclusive \in [Apps -> Requests \cup {None}]
    BY DEF TypeInv, TypeOK, IngestionTypeOK
  <2>4. CASE \E a \in Apps, post \in Posts : Receive(q, a, post)
    BY <2>2, <2>3, <2>4 DEF Receive, LockHeld, App
  <2>5. CASE LookupExisting(q)
    BY <2>2, <2>3, <2>5 DEF LookupExisting, Report, Answer, LockHeld, App
  <2>6. CASE LockApplication(q)
    <3>1. App(q) \in Apps /\ exclusive[App(q)] = None
          /\ exclusive' = [exclusive EXCEPT ![App(q)] = q]
          /\ phase' = [phase EXCEPT ![q] = "latest"] /\ request' = request
      BY <2>6, HolderApp DEF LockApplication
    <3>2. CASE r = q
      BY <2>3, <3>1, <3>2 DEF App
    <3>3. CASE r # q
      <4>1. App(r) \in Apps /\ exclusive[App(r)] = r
        BY <2>2, <2>3, <3>1, <3>3, HolderApp DEF LockHeld
      <4> QED  BY <2>3, <3>1, <4>1, NoRequestAssumption DEF App
    <3> QED  BY <3>2, <3>3
  <2>7. CASE ReadLatest(q)
    BY <2>2, <2>3, <2>7 DEF ReadLatest, LockHeld, App
  <2>8. CASE InsertEvent(q) \/ InsertViolatesUnique(q)
    <3>1. /\ App(q) \in Apps /\ exclusive[App(q)] = q
          /\ exclusive' = [exclusive EXCEPT ![App(q)] = None]
          /\ phase'[q] \in {"refresh", "answered"} /\ request' = request
          /\ \A x \in Requests \ {q} : phase'[x] = phase[x]
      BY <2>3, <2>8, HolderApp
      DEF InsertEvent, InsertViolatesUnique, Release, Answer, LockHeld
    <3>2. App(r) \in Apps /\ exclusive[App(r)] = r /\ r # q
      BY <2>2, <2>3, <3>1, HolderApp DEF LockHeld
    <3> QED  BY <2>3, <3>1, <3>2 DEF App
  <2>9. CASE RefreshEvent(q)
    BY <2>2, <2>3, <2>9 DEF RefreshEvent, Report, Answer, LockHeld, App
  <2>10. CASE AbortRequest(q, "lost")
    <3>1. phase'[q] = "answered" /\ request' = request
          /\ \A x \in Requests \ {q} : phase'[x] = phase[x]
      BY <2>3, <2>10 DEF AbortRequest, Answer
    <3>2. App(r) \in Apps /\ exclusive[App(r)] = r /\ r # q
      BY <2>2, <2>3, <3>1, HolderApp DEF LockHeld
    <3> QED  BY <2>3, <2>10, <3>1, <3>2 DEF AbortRequest, ReleaseOwned, App
  <2> QED
    BY <2>1, <2>4, <2>5, <2>6, <2>7, <2>8, <2>9, <2>10 DEF RequestNext, RequestStep
<1>3. CASE \E k \in Runs : RunNext(k)
  BY <1>1, <1>3
  DEF RunNext, RunStep, RequestRun, HoldStopsRun, ExecuteRetention, PlanApplication,
      ReadCheckpoint, WriteCheckpoint, CheckpointExists, DeadlockVictim, AbortRun,
      CommitRun, Acknowledge
<1>4. CASE Crash
  BY <1>1, <1>2, <1>4 DEF Crash, CrashRun, AbortRun
<1> QED
  BY <1>1, <1>2, <1>3, <1>4
  DEF Next, AdminNext, PutLoad, PutCommit, VerifierNext, ReadEvents, ReadCheckpointAndAnswer,
      Tick, vars

\* A request that is about to insert was so before, or has just read.
LEMMA InsertPhaseStep ==
    ASSUME TypeInv, [Next]_vars, NEW r \in Requests, phase'[r] = "insert"
    PROVE  \/ /\ phase[r] = "insert" /\ latest'[r] = latest[r] /\ App(r)' = App(r)
              /\ ~InsertEvent(r)
           \/ ReadLatest(r)
<1> USE DEF storeVars, ingestionVars
<1>1. CASE UNCHANGED ingestionVars /\ ~InsertEvent(r)
  BY <1>1 DEF App
<1>2. /\ phase \in [Requests -> Phases]
      /\ request \in [Requests -> RequestsReceived \cup {None}]
      /\ latest \in [Requests -> Hashes \cup {None}]
  BY DEF TypeInv, TypeOK, IngestionTypeOK
<1>3. ~InsertEvent(r)
  BY <1>2 DEF InsertEvent
<1>4. CASE \E q \in Requests : RequestNext(q)
  <2>1. PICK q \in Requests : RequestNext(q)
    BY <1>4
  <2>2. CASE ReadLatest(q)
    BY <1>2, <1>3, <2>2 DEF ReadLatest, App
  <2>3. CASE \E a \in Apps, post \in Posts : Receive(q, a, post)
    BY <1>2, <1>3, <2>3 DEF Receive, App
  <2>4. CASE LookupExisting(q) \/ RefreshEvent(q)
    BY <1>2, <1>3, <2>4 DEF LookupExisting, RefreshEvent, Report, Answer, App
  <2>5. CASE LockApplication(q) \/ InsertEvent(q) \/ InsertViolatesUnique(q)
    BY <1>2, <1>3, <2>5 DEF LockApplication, InsertEvent, InsertViolatesUnique, Answer, App
  <2> QED  BY <2>1, <2>2, <2>3, <2>4, <2>5 DEF RequestNext, RequestStep
<1>5. CASE Crash
  BY <1>1, <1>2, <1>3, <1>5 DEF Crash, AbortRequest, Answer, App
<1> QED
  BY <1>1, <1>3, <1>4, <1>5 DEF Next, RunNext, AdminNext, VerifierNext, vars

LEMMA LatestStep ==
    ASSUME TypeInv, ClockOrder, LockHeld, LatestIsLast, [Next]_vars
    PROVE  LatestIsLast'
<1> SUFFICES ASSUME NEW r \in Requests, phase'[r] = "insert",
                    Len(log'[App(r)']) \in live'[App(r)']
             PROVE  latest'[r] = log'[App(r)'][Len(log'[App(r)'])].event_hash
  BY DEF LatestIsLast
<1> DEFINE a == App(r)
<1>1. CASE phase[r] = "insert" /\ latest'[r] = latest[r] /\ App(r)' = App(r) /\ ~InsertEvent(r)
  <2>1. a \in Apps /\ exclusive[a] = r
    BY <1>1, HolderApp DEF LockHeld
  <2>2. log'[a] = log[a] /\ live'[a] \subseteq live[a]
    <3>1. CASE \E q \in Requests : InsertEvent(q)
      <4>1. PICK q \in Requests : InsertEvent(q)
        BY <3>1
      <4>2. exclusive[App(q)] = q /\ q # r
        BY <1>1, <4>1 DEF LockHeld, InsertEvent
      <4>3. a # App(q)
        BY <2>1, <4>2
      <4> HIDE DEF a
      <4> QED  BY <2>1, <4>1, <4>3, InsertRows
    <3>2. CASE \E k \in Runs : CommitRun(k)
      BY <2>1, <3>2, CommitRows DEF CommitRun
    <3> QED  BY <3>1, <3>2, RowsStep
  <2> QED  BY <1>1, <2>2 DEF LatestIsLast
<1>2. CASE ReadLatest(r)
  <2>1. /\ UNCHANGED <<log, live, request>>
        /\ latest' = [latest EXCEPT ![r] = IF live[a] = {} THEN None
                        ELSE log[a][LastOf(a, live[a])].event_hash]
    BY <1>2 DEF ReadLatest, storeVars
  <2>2. App(r)' = a /\ Len(log[a]) \in live[a] /\ a \in Apps
    BY <1>2, <2>1, HolderApp DEF App, ReadLatest
  <2>3. latest'[r] = log[a][LastOf(a, live[a])].event_hash
    BY <2>1, <2>2 DEF TypeInv, TypeOK, IngestionTypeOK
  <2> HIDE DEF a
  <2>4. log[a] \in Seq(Events) /\ live[a] \subseteq DOMAIN log[a]
    BY <2>2 DEF TypeInv, TypeOK, StoreTypeOK
  <2>5. /\ LastOf(a, live[a]) \in live[a]
        /\ \A j \in live[a] \ {LastOf(a, live[a])} : Precedes(a, j, LastOf(a, live[a]))
    BY <2>2, <2>4, LastOfIsLast DEF TypeInv, TypeOK
  <2>6. LastOf(a, live[a]) = Len(log[a])
    <3>1. SUFFICES ASSUME LastOf(a, live[a]) # Len(log[a])
                   PROVE  FALSE
      OBVIOUS
    <3>2. Len(log[a]) < LastOf(a, live[a])
      BY <2>2, <2>4, <2>5, <3>1, OrderIsPosition
    <3> QED  BY <2>4, <2>5, <3>2
  <2> QED  BY <2>1, <2>2, <2>3, <2>6
<1> QED  BY <1>1, <1>2, InsertPhaseStep

LinkInv == ClockOrder /\ LockHeld /\ LatestIsLast /\ ChainLinked

LEMMA LinkedStep ==
    ASSUME TypeInv, LinkInv, [Next]_vars
    PROVE  ChainLinked'
<1> SUFFICES ASSUME NEW b \in Apps, NEW i \in live'[b], i + 1 \in live'[b]
             PROVE  log'[b][i + 1].previous_hash = log'[b][i].event_hash
  BY DEF ChainLinked
<1>1. CASE log' = log /\ live'[b] \subseteq live[b]
  BY <1>1 DEF LinkInv, ChainLinked
<1>2. CASE \E r \in Requests : InsertEvent(r)
  <2>1. PICK r \in Requests : InsertEvent(r)
    BY <1>2
  <2> DEFINE a == App(r)
             n == Len(log[a])
  <2>2. /\ a \in Apps /\ n \in Nat /\ DOMAIN log[a] = 1..n
        /\ \A c \in Apps \ {a} : log'[c] = log[c] /\ live'[c] = live[c]
        /\ \A j \in DOMAIN log[a] : log'[a][j] = log[a][j]
        /\ live'[a] = live[a] \cup {n + 1}
        /\ log'[a][n + 1].previous_hash = latest[r]
    BY <2>1, InsertRows
  <2>3. n \in live[a] => latest[r] = log[a][n].event_hash
    BY <2>1 DEF LinkInv, LatestIsLast, InsertEvent
  <2>4. live[a] \subseteq 1..n
    BY <2>2 DEF TypeInv, TypeOK, StoreTypeOK
  <2> HIDE DEF a, n
  <2>5. CASE b # a
    BY <2>2, <2>5 DEF LinkInv, ChainLinked
  <2>6. CASE b = a /\ i = n
    BY <2>2, <2>3, <2>4, <2>6
  <2>7. CASE b = a /\ i # n
    <3>1. i \in live[a] /\ i + 1 \in live[a]
      BY <2>2, <2>4, <2>7
    <3> QED  BY <2>2, <2>4, <2>7, <3>1 DEF LinkInv, ChainLinked
  <2> QED  BY <2>5, <2>6, <2>7
<1>3. CASE \E k \in Runs : CommitRun(k)
  BY <1>1, <1>3, CommitRows DEF CommitRun
<1> QED  BY <1>1, <1>2, <1>3, RowsStep

LEMMA LinkInit == Init => LinkInv
<1> SUFFICES ASSUME Init
             PROVE  LinkInv
  OBVIOUS
<1>1. ClockOrder /\ ChainLinked
  BY DEF Init, StoreInit, ClockOrder, ChainLinked
<1>2. LockHeld /\ LatestIsLast
  BY DEF Init, IngestionInit, LockHeld, LatestIsLast
<1> QED  BY <1>1, <1>2 DEF LinkInv

\* If the clocks of the replicas agree, concurrent writers and runs never
\* break the chain: a retained event that was committed right after another
\* retained event is linked to it (the FOR UPDATE lock of ingest_event).
THEOREM LinkedCorrect ==
    ASSUME MaxSkew = 0
    PROVE  Spec => []ChainLinked
<1>1. Init => LinkInv
  BY LinkInit
<1>2. TypeInv /\ LinkInv /\ [Next]_vars => LinkInv'
  BY ClockStep, LockHeldStep, LatestStep, LinkedStep DEF LinkInv
<1>3. LinkInv => ChainLinked
  BY DEF LinkInv
<1> QED  BY <1>1, <1>2, <1>3, TypeInvariance, PTL DEF Spec

-----------------------------------------------------------------------------
(* The trail implements the ledger: the refinement mapping.                *)

\* The ledger of an application, and how much of it is gone.
Rows(a) == [i \in DOMAIN log[a] |-> log[a][i].content_hash]
Gone(a) == Len(log[a]) - Cardinality(live[a])

\* A set that holds, with a position, every later one up to n is a suffix.
LEMMA SuffixCount ==
    ASSUME NEW n \in Nat, NEW l, l \subseteq 1..n,
           \A i \in l, j \in 1..n : i <= j => j \in l
    PROVE  n - Cardinality(l) \in 0..n /\ l = (n - Cardinality(l) + 1)..n
<1>1. CASE l = {}
  BY <1>1, FS_EmptySet
<1>2. CASE l # {}
  <2>0. l \subseteq Nat
    OBVIOUS
  <2>1. PICK x \in l : \A y \in l : x <= y
    BY <1>2, <2>0, LeastNat
  <2>2. x \in 1..n
    BY <2>1
  <2>3. x..n \subseteq l
    BY <2>1, <2>2
  <2>4. l \subseteq x..n
    BY <2>1, <2>2
  <2>5. l = x..n
    BY <2>3, <2>4
  <2>6. Cardinality(l) = n - x + 1
    BY <2>2, <2>5, FS_Interval
  <2>7. n - Cardinality(l) = x - 1
    BY <2>2, <2>6
  <2> QED  BY <2>2, <2>5, <2>7
<1> QED  BY <1>1, <1>2

LEMMA ContentsType ==
    ASSUME NEW s \in Seq(Events)
    PROVE  LET c == [i \in DOMAIN s |-> s[i].content_hash]
           IN  c \in Seq(Digests) /\ Len(c) = Len(s)
<1> DEFINE n == Len(s)
           c == [i \in DOMAIN s |-> s[i].content_hash]
<1>1. n \in Nat /\ DOMAIN s = 1..n
  OBVIOUS
<1>2. \A i \in 1..n : s[i].content_hash \in Digests
  <2> SUFFICES ASSUME NEW i \in 1..n
               PROVE  s[i].content_hash \in Digests
    OBVIOUS
  <2>1. s[i] \in Events
    OBVIOUS
  <2> QED  BY <2>1 DEF Events
<1> HIDE DEF n
<1>3. c \in [1..n -> Digests]
  BY <1>1, <1>2
<1>4. c \in Seq(Digests)
  BY <1>1, <1>3, SeqDef
<1> HIDE DEF c
<1>5. Len(c) = n
  BY <1>1, <1>3, <1>4
<1> QED  BY <1>4, <1>5 DEF c, n

\* What is retained is what is not gone.
LEMMA SuffixOfRows ==
    ASSUME TypeInv, RetainedIsSuffix, NEW a \in Apps
    PROVE  /\ Len(log[a]) \in Nat /\ DOMAIN log[a] = 1..Len(log[a])
           /\ Gone(a) \in 0..Len(log[a])
           /\ live[a] = (Gone(a) + 1)..Len(log[a])
<1>1. log[a] \in Seq(Events) /\ live[a] \subseteq DOMAIN log[a]
  BY DEF TypeInv, TypeOK, StoreTypeOK
<1>2. Len(log[a]) \in Nat /\ DOMAIN log[a] = 1..Len(log[a])
  BY <1>1
<1>3. \A i \in live[a], j \in 1..Len(log[a]) : i <= j => j \in live[a]
  BY <1>2 DEF RetainedIsSuffix
<1> QED  BY <1>1, <1>2, <1>3, SuffixCount DEF Gone

\* The same after a step.
LEMMA SuffixOfRowsNext ==
    ASSUME TypeInv, RetainedIsSuffix, TypeInv', RetainedIsSuffix', NEW a \in Apps
    PROVE  /\ Len(log'[a]) \in Nat /\ DOMAIN log'[a] = 1..Len(log'[a])
           /\ Gone(a)' \in 0..Len(log'[a])
           /\ live'[a] = (Gone(a)' + 1)..Len(log'[a])
<1>1. log'[a] \in Seq(Events) /\ live'[a] \subseteq DOMAIN log'[a]
  BY DEF TypeInv, TypeOK, StoreTypeOK
<1>2. Len(log'[a]) \in Nat /\ DOMAIN log'[a] = 1..Len(log'[a])
  BY <1>1
<1>3. \A i \in live'[a], j \in 1..Len(log'[a]) : i <= j => j \in live'[a]
  BY <1>2 DEF RetainedIsSuffix
<1> QED  BY <1>1, <1>2, <1>3, SuffixCount DEF Gone

RefInv == SuffixInv /\ RowsFaithful /\ AgeInv

\* An INSERT records its content.
LEMMA InsertRecords ==
    ASSUME TypeInv, TypeInv', RefInv, RefInv', NEW r \in Requests, InsertEvent(r)
    PROVE  \E a \in Apps, d \in Digests : Ledger!Record(a, d)
<1>0. PICK a \in Apps, d \in Digests : a = App(r) /\ d = content_digest(Item(r))
  BY InsertedContent
<1> DEFINE n == Len(log[a])
           e == log'[a][n + 1]
<1>1. /\ n \in Nat /\ DOMAIN log[a] = 1..n
      /\ \A b \in Apps \ {a} : log'[b] = log[b] /\ live'[b] = live[b]
      /\ live'[a] = live[a] \cup {n + 1} /\ now' = now + 1
  BY <1>0, InsertRows
<1>2. /\ e \in Events /\ e.content_hash = d /\ log'[a] = Append(log[a], e)
      /\ d.external_id = Item(r).event_id
  BY <1>0, InsertedContent DEF content_digest
<1>3. \A i \in live[a] : log[a][i].external_id # d.external_id
  BY <1>0, <1>2 DEF InsertEvent, NameTaken, RowsNamed
<1>4. \A i \in live[a] : i \in DOMAIN log[a] /\ log[a][i].external_id = Rows(a)[i].external_id
  BY <1>1 DEF RefInv, RowsFaithful, Rows, TypeInv, TypeOK, StoreTypeOK
<1>5. Gone(a) \in 0..n /\ live[a] = (Gone(a) + 1)..n
  BY <1>1, SuffixOfRows DEF RefInv, SuffixInv
<1>6. log[a] \in Seq(Events)
  BY <1>1 DEF TypeInv, TypeOK, StoreTypeOK
<1> HIDE DEF e
<1>7. Rows(a) \in Seq(Digests) /\ Len(Rows(a)) = n
  BY <1>6, ContentsType DEF Rows
<1>8. \A i \in Ledger!Retained(a) : Rows(a)[i].external_id # d.external_id
  <2>1. Ledger!Retained(a) = (Gone(a) + 1)..n
    BY <1>1, <1>7 DEF Ledger!Retained, Rows, Gone
  <2> QED  BY <1>3, <1>4, <1>5, <2>1
<1>9. Rows(a)' = Append(Rows(a), d)
  <2>1. /\ log'[a] \in Seq(Events) /\ Len(log'[a]) = n + 1 /\ log'[a][n + 1] = e
        /\ \A i \in 1..n : log'[a][i] = log[a][i]
    BY <1>1, <1>2, <1>6
  <2>2. Rows(a)' \in Seq(Digests) /\ Len(Rows(a)') = n + 1
    BY <2>1, ContentsType DEF Rows
  <2>3. Append(Rows(a), d) \in Seq(Digests) /\ Len(Append(Rows(a), d)) = n + 1
    BY <1>2, <1>7
  <2>4. ASSUME NEW i \in 1..(n + 1)
        PROVE  Rows(a)'[i] = Append(Rows(a), d)[i]
    <3>1. i \in DOMAIN log'[a] /\ Rows(a)'[i] = log'[a][i].content_hash
      BY <1>1, <2>1 DEF Rows
    <3>2. CASE i = n + 1
      BY <1>1, <1>2, <1>7, <2>1, <3>1, <3>2
    <3>3. CASE i \in 1..n
      <4>1. Rows(a)[i] = log[a][i].content_hash
        BY <1>1, <3>3 DEF Rows
      <4> QED  BY <1>1, <1>2, <1>7, <2>1, <3>1, <3>3, <4>1
    <3>4. i = n + 1 \/ i \in 1..n
      BY <1>1
    <3> QED  BY <3>2, <3>3, <3>4
  <2> QED  BY <2>2, <2>3, <2>4, SeqEqual
<1>10. Gone(a)' = Gone(a)
  <2>1. IsFiniteSet(live[a]) /\ n + 1 \notin live[a]
    <3>1. Gone(a) + 1 \in Int /\ n \in Int
      BY <1>1, <1>5
    <3>2. IsFiniteSet(live[a])
      BY <1>5, <3>1, FS_Interval
    <3>3. n + 1 \notin (Gone(a) + 1)..n
      BY <3>1
    <3> QED  BY <1>5, <3>2, <3>3
  <2>2. Cardinality(live'[a]) = Cardinality(live[a]) + 1 /\ Cardinality(live[a]) \in Nat
    BY <1>1, <2>1, FS_AddElement, FS_CardinalityType
  <2>3. Len(log'[a]) = n + 1
    BY <1>1, <1>2, <1>6
  <2> QED  BY <1>1, <2>2, <2>3 DEF Gone
<1>11. \A b \in Apps \ {a} : Rows(b)' = Rows(b) /\ Gone(b)' = Gone(b)
  BY <1>1 DEF Rows, Gone
<1>12. [b \in Apps |-> Rows(b)'] = [[b \in Apps |-> Rows(b)] EXCEPT ![a] = Append(@, d)]
  BY <1>1, <1>9, <1>11
<1>13. [b \in Apps |-> Gone(b)'] = [b \in Apps |-> Gone(b)]
  BY <1>10, <1>11
<1>14. now' > now
  BY <1>1 DEF TypeInv, TypeOK, StoreTypeOK
<1>15. [b \in Apps |-> Rows(b)][a] = Rows(a)
  BY <1>1
<1>16. Ledger!Record(a, d)
  BY <1>8, <1>12, <1>13, <1>14, <1>15 DEF Ledger!Record, Rows, Gone
<1> QED  BY <1>16

\* The commit of a run trims what is old.
LEMMA CommitTrims ==
    ASSUME TypeInv, TypeInv', RefInv, RefInv', NEW k \in Runs, CommitRun(k)
    PROVE  Ledger!Trim
<1>1. UNCHANGED <<log, now>>
  BY DEF CommitRun
<1>2. ASSUME NEW a \in Apps
      PROVE  /\ Gone(a) <= Gone(a)' /\ Gone(a)' <= Len(Rows(a)) /\ Gone(a)' \in Nat
             /\ \A i \in (Gone(a) + 1)..Gone(a)' : Rows(a)[i].occurred_at < now - MinAge
  <2> DEFINE n == Len(log[a])
  <2>1. /\ n \in Nat /\ DOMAIN log[a] = 1..n
        /\ Gone(a) \in 0..n /\ live[a] = (Gone(a) + 1)..n
    BY SuffixOfRows DEF RefInv, SuffixInv
  <2>2. Gone(a)' \in 0..n /\ live'[a] = (Gone(a)' + 1)..n
    BY <1>1, SuffixOfRowsNext DEF RefInv, SuffixInv
  <2>3. live'[a] \subseteq live[a]
    BY CommitRows
  <2>4. Gone(a) <= Gone(a)'
    <3>1. IsFiniteSet(live[a])
      <4>1. Gone(a) + 1 \in Int /\ n \in Int
        BY <2>1
      <4> QED  BY <2>1, <4>1, FS_Interval
    <3>2. /\ Cardinality(live'[a]) \in Nat /\ Cardinality(live[a]) \in Nat
          /\ Cardinality(live'[a]) <= Cardinality(live[a])
      BY <2>3, <3>1, FS_Subset, FS_CardinalityType
    <3> QED  BY <1>1, <2>1, <3>2 DEF Gone
  <2>5. Len(Rows(a)) = n
    BY <2>1, ContentsType DEF Rows, TypeInv, TypeOK, StoreTypeOK
  <2>6. ASSUME NEW i \in (Gone(a) + 1)..Gone(a)'
        PROVE  Rows(a)[i].occurred_at < now - MinAge
    <3>1. i \in 1..n /\ i \in live[a] /\ i \notin live'[a]
      BY <2>1, <2>2, <2>6
    <3>2. uncommitted[a] # None /\ i \in uncommitted[a].ids
      BY <3>1, CommitRows
    <3>3. PICK day \in Days : log[a][i].occurred_at < now + MaxSkew - day
      BY <3>2 DEF RefInv, AgeInv, Old
    <3>4. log[a][i].occurred_at \in Int /\ now \in Nat /\ MaxSkew \in Nat
      BY <2>1, <3>1, RowTime, ClockAssumption
    <3>5. MinRetention \in Nat /\ MinRetention <= day /\ day \in Nat
      BY Shortest, DaysType
    <3>6. log[a][i].occurred_at < now - MinAge
      BY <3>3, <3>4, <3>5 DEF MinAge
    <3>7. Rows(a)[i].occurred_at = log[a][i].occurred_at
      BY <2>1, <3>1 DEF Rows, RefInv, RowsFaithful
    <3> QED  BY <3>6, <3>7
  <2> QED  BY <2>1, <2>2, <2>4, <2>5, <2>6
<1>3. [a \in Apps |-> Gone(a)'] \in [Apps -> Nat]
  BY <1>2
<1>4. \A a \in Apps : /\ [b \in Apps |-> Gone(b)][a] = Gone(a)
                      /\ [b \in Apps |-> Gone(b)'][a] = Gone(a)'
                      /\ [b \in Apps |-> Rows(b)][a] = Rows(a)
  OBVIOUS
<1>5. [b \in Apps |-> Rows(b)'] = [b \in Apps |-> Rows(b)]
  BY <1>1 DEF Rows
<1> QED
  BY <1>1, <1>2, <1>3, <1>4, <1>5 DEF Ledger!Trim, Rows, Gone

LEMMA StepImplements ==
    ASSUME TypeInv, TypeInv', RefInv, RefInv', [Next]_vars
    PROVE  [Ledger!Next]_(Ledger!vars)
<1>1. CASE \E r \in Requests : InsertEvent(r)
  <2>1. PICK r \in Requests : InsertEvent(r)
    BY <1>1
  <2> QED  BY <2>1, InsertRecords DEF Ledger!Next
<1>2. CASE \E k \in Runs : CommitRun(k)
  BY <1>2, CommitTrims DEF Ledger!Next
<1>3. CASE UNCHANGED <<log, live>>
  <2>1. now \in Nat /\ now' \in Nat /\ now <= now'
    BY TimePasses DEF TypeInv, TypeOK, StoreTypeOK
  <2>2. CASE now' = now
    BY <1>3, <2>2 DEF Ledger!vars
  <2>3. CASE now' > now
    BY <1>3, <2>3 DEF Ledger!Next, Ledger!Wait
  <2> QED  BY <2>1, <2>2, <2>3
<1> QED  BY <1>1, <1>2, <1>3, RowsStep

LEMMA InitImplements ==
    ASSUME Init
    PROVE  Ledger!Init /\ RefInv
<1>1. log = [a \in Apps |-> << >>] /\ live = [a \in Apps |-> {}] /\ now = 0
  BY DEF Init, StoreInit
<1>2. [i \in DOMAIN << >> |-> << >>[i].content_hash] = << >>
  BY EmptySeq
<1>3. \A a \in Apps : Rows(a) = << >> /\ Gone(a) = 0
  BY <1>1, <1>2, FS_EmptySet, EmptySeq DEF Rows, Gone
<1>4. Ledger!Init
  BY <1>1, <1>3 DEF Ledger!Init, Rows, Gone
<1>5. RowsFaithful
  BY <1>1 DEF RowsFaithful
<1> QED  BY <1>4, <1>5, SuffixInit, AgeInit DEF RefInv

\* If the clocks of the replicas agree, every behaviour of writers, runs,
\* administrators and crashes is one of the abstract ledger: what ingest_event
\* commits is appended once and stays as it is, its id is not taken twice
\* among what is retained, and execute_retention only ever removes a prefix
\* that is older than the shortest retention period (PolicyRead, cutoff_at).
THEOREM LedgerImplemented ==
    ASSUME MaxSkew = 0
    PROVE  Spec => ImplementsAuditLog
<1>1. Init => Ledger!Init /\ RefInv
  BY InitImplements
<1>2. TypeInv /\ RefInv /\ [Next]_vars => RefInv'
  BY ClockStep, PlanDownStep, WriteDownStep, SuffixStep, FaithfulStep, AgeStep
  DEF RefInv, SuffixInv
<1>3. TypeInv /\ TypeInv' /\ RefInv /\ RefInv' /\ [Next]_vars => [Ledger!Next]_(Ledger!vars)
  BY StepImplements
<1> QED
  BY <1>1, <1>2, <1>3, TypeInvariance, PTL DEF Spec, ImplementsAuditLog, Ledger!Spec

-----------------------------------------------------------------------------
(* What verification says, if runs do not overlap either.                  *)

\* A row was built on the row before it, or on none, and hashed accordingly.
RowsBuilt ==
    \A a \in Apps : \A i \in DOMAIN log[a] :
        /\ log[a][i].event_hash = chained_digest(log[a][i].content_hash, log[a][i].previous_hash)
        /\ log[a][i].previous_hash # None =>
              i > 1 /\ log[a][i].previous_hash = log[a][i - 1].event_hash

\* A request that inserts has read the hash of the last row, or none.
LatestOrNone ==
    \A r \in Requests :
        phase[r] = "insert" /\ latest[r] # None =>
            Len(log[App(r)]) > 0 /\ latest[r] = log[App(r)][Len(log[App(r)])].event_hash

\* The rows a verifier has read are the oldest of what is retained.
ReadsClosed ==
    \A v \in Verifiers :
        check[v] # None =>
            /\ check[v].rows \subseteq DOMAIN log[check[v].app]
            /\ \A i \in check[v].rows, j \in live[check[v].app] : j < i => j \in check[v].rows

\* The last of some ids, and the hash that names it.
AnchoredInLast(a, ids, hash) ==
    \E m \in ids : m \in DOMAIN log[a] /\ hash = log[a][m].event_hash /\ \A j \in ids : j <= m

\* The anchor of a plan, of a pending checkpoint and of a checkpoint is the
\* hash of the last row that the plan, the run and all runs remove.
AnchorsLast ==
    /\ \A k \in Runs, a \in Apps :
          plan[k][a] # None /\ plan[k][a].ids # {} =>
              AnchoredInLast(a, plan[k][a].ids, plan[k][a].anchor_hash)
    /\ \A a \in Apps :
          uncommitted[a] # None =>
              AnchoredInLast(a, uncommitted[a].ids, uncommitted[a].checkpoint.anchor_hash)
    /\ \A a \in Apps : checkpoint[a] # None =>
          AnchoredInLast(a, Removed(a), checkpoint[a].anchor_hash)

\* What follows a step of the rows.
LEMMA AnchoredStays ==
    ASSUME TypeInv, [Next]_vars, NEW a \in Apps, NEW ids, NEW hash, AnchoredInLast(a, ids, hash)
    PROVE  AnchoredInLast(a, ids, hash)'
BY RowsKept DEF AnchoredInLast

LEMMA PlanAnchoredInLast ==
    ASSUME TypeInv, SuffixInv, NEW k \in Runs, NEW a \in Apps, NEW p,
           p = PlanFor(a, live[a], cutoff[k]), p.ids # {}
    PROVE  AnchoredInLast(a, p.ids, p.anchor_hash)
<1>1. /\ StoreTypeOK /\ StampsBounded /\ cutoff[k] \in Int
      /\ live[a] \subseteq DOMAIN log[a] /\ live[a] \subseteq Nat
  BY DEF TypeInv, TypeOK, StoreTypeOK, RetentionTypeOK
<1> DEFINE m == LastOf(a, p.ids)
<1>2. p.ids \subseteq live[a] /\ m \in p.ids /\ p.anchor_hash = log[a][m].event_hash
  BY <1>1, PlanType
<1>3. p.ids \subseteq DOMAIN log[a]
  BY <1>1, <1>2
<1>4. \A j \in p.ids \ {m} : Precedes(a, j, m)
  BY <1>1, <1>3, LastOfIsLast
<1> HIDE DEF m
<1>5. ASSUME NEW j \in p.ids
      PROVE  j <= m
  <2>1. j \in DOMAIN log[a] /\ m \in DOMAIN log[a] /\ j \in Nat /\ m \in Nat
    BY <1>1, <1>2
  <2>2. j # m => j < m
    BY <1>4, <2>1, OrderIsPosition DEF SuffixInv
  <2> QED  BY <2>1, <2>2
<1> QED  BY <1>2, <1>3, <1>5 DEF AnchoredInLast

LEMMA BuiltStep ==
    ASSUME TypeInv, RowsBuilt, LatestOrNone, [Next]_vars
    PROVE  RowsBuilt'
<1> SUFFICES ASSUME NEW a \in Apps, NEW i \in DOMAIN log'[a]
             PROVE  /\ log'[a][i].event_hash =
                         chained_digest(log'[a][i].content_hash, log'[a][i].previous_hash)
                    /\ log'[a][i].previous_hash # None =>
                         i > 1 /\ log'[a][i].previous_hash = log'[a][i - 1].event_hash
  BY DEF RowsBuilt
<1>0. log[a] \in Seq(Events) /\ Len(log[a]) \in Nat /\ DOMAIN log[a] = 1..Len(log[a])
  BY DEF TypeInv, TypeOK, StoreTypeOK
<1>1. CASE i \in DOMAIN log[a]
  <2>1. log'[a][i] = log[a][i] /\ (i > 1 => log'[a][i - 1] = log[a][i - 1])
    BY <1>0, <1>1, RowsKept
  <2> QED  BY <1>1, <2>1 DEF RowsBuilt
<1>2. CASE i \notin DOMAIN log[a]
  <2>1. PICK r \in Requests : InsertEvent(r)
    BY <1>2, RowsStep DEF CommitRun
  <2>2. PICK b \in Apps : b = App(r)
    BY <2>1, InsertRows
  <2>3. /\ Len(log[b]) \in Nat /\ DOMAIN log[b] = 1..Len(log[b])
        /\ DOMAIN log'[b] = 1..(Len(log[b]) + 1)
        /\ \A c \in Apps \ {b} : log'[c] = log[c]
        /\ \A j \in DOMAIN log[b] : log'[b][j] = log[b][j]
    BY <2>1, <2>2, InsertRows
  <2>4. a = b /\ i = Len(log[a]) + 1
    BY <1>2, <2>3
  <2>5. LET e == log'[b][Len(log[b]) + 1]
        IN  /\ e.previous_hash = latest[r]
            /\ e.event_hash = chained_digest(e.content_hash, latest[r])
    BY <2>1, <2>2, InsertedContent
  <2>6. latest[r] # None =>
          Len(log[b]) > 0 /\ latest[r] = log[b][Len(log[b])].event_hash
    BY <2>1, <2>2 DEF LatestOrNone, InsertEvent
  <2>7. Len(log[b]) > 0 => log'[b][Len(log[b])] = log[b][Len(log[b])]
    BY <2>3
  <2>8. i - 1 = Len(log[b]) /\ (Len(log[b]) > 0 => i > 1)
    BY <2>3, <2>4
  <2> QED  BY <2>4, <2>5, <2>6, <2>7, <2>8
<1> QED  BY <1>1, <1>2

LEMMA LatestOrNoneStep ==
    ASSUME TypeInv, ClockOrder, LockHeld, LatestIsLast, RetainedIsSuffix, LatestOrNone, [Next]_vars
    PROVE  LatestOrNone'
<1> SUFFICES ASSUME NEW r \in Requests, phase'[r] = "insert", latest'[r] # None
             PROVE  /\ Len(log'[App(r)']) > 0
                    /\ latest'[r] = log'[App(r)'][Len(log'[App(r)'])].event_hash
  BY DEF LatestOrNone
<1>1. CASE phase[r] = "insert" /\ latest'[r] = latest[r] /\ App(r)' = App(r) /\ ~InsertEvent(r)
  <2>1. PICK a \in Apps : a = App(r) /\ exclusive[a] = r
    BY <1>1, HolderApp DEF LockHeld
  <2>2. log'[a] = log[a]
    <3>1. CASE \E q \in Requests : InsertEvent(q)
      <4>1. PICK q \in Requests : InsertEvent(q)
        BY <3>1
      <4>2. exclusive[App(q)] = q /\ q # r
        BY <1>1, <4>1 DEF LockHeld, InsertEvent
      <4>3. a # App(q)
        BY <2>1, <4>2
      <4> QED  BY <4>1, <4>3, InsertRows
    <3> QED  BY <3>1, RowsStep DEF CommitRun
  <2> QED  BY <1>1, <2>1, <2>2 DEF LatestOrNone
<1>2. CASE ReadLatest(r)
  <2>1. UNCHANGED <<log, live, request>>
    BY <1>2 DEF ReadLatest, storeVars
  <2>2. PICK a \in Apps : a = App(r)
    BY <1>2, HolderApp DEF ReadLatest
  <2>3. App(r)' = a
    BY <2>1, <2>2 DEF App
  <2>4. live[a] # {}
    BY <1>2, <2>2 DEF ReadLatest, TypeInv, TypeOK, IngestionTypeOK
  <2>5. Len(log[a]) \in live[a] /\ Len(log[a]) > 0
    <3>1. log[a] \in Seq(Events) /\ live[a] \subseteq DOMAIN log[a]
      BY DEF TypeInv, TypeOK, StoreTypeOK
    <3>2. Len(log[a]) \in Nat /\ DOMAIN log[a] = 1..Len(log[a])
      BY <3>1
    <3>3. PICK i \in live[a] : i \in 1..Len(log[a])
      BY <2>4, <3>1, <3>2
    <3> QED  BY <3>2, <3>3 DEF RetainedIsSuffix
  <2>6. latest'[r] = log'[a][Len(log'[a])].event_hash
    BY <2>1, <2>3, <2>5, LatestStep DEF LatestIsLast
  <2> QED  BY <2>1, <2>3, <2>5, <2>6
<1> QED  BY <1>1, <1>2, InsertPhaseStep

LEMMA ReadsClosedStep ==
    ASSUME TypeInv, ReadsClosed, [Next]_vars
    PROVE  ReadsClosed'
<1> SUFFICES ASSUME NEW v \in Verifiers, check'[v] # None
             PROVE  /\ check'[v].rows \subseteq DOMAIN log'[check'[v].app]
                    /\ \A i \in check'[v].rows, j \in live'[check'[v].app] :
                          j < i => j \in check'[v].rows
  BY DEF ReadsClosed
<1>1. check \in [Verifiers -> [app : Apps, rows : SUBSET Nat] \cup {None}]
  BY DEF TypeInv, TypeOK
<1>2. CASE check'[v] = check[v]
  <2>1. PICK a \in Apps : a = check[v].app
    BY <1>1, <1>2
  <2>2. check[v].rows \subseteq DOMAIN log[a]
    BY <1>2, <2>1 DEF ReadsClosed
  <2>3. ASSUME NEW i \in check[v].rows, NEW j \in live'[a], j < i
        PROVE  j \in check[v].rows
    <3>1. i \in Nat /\ j \in Nat
      <4>1. log[a] \in Seq(Events) /\ TypeInv'
        BY TypeStep DEF TypeInv, TypeOK, StoreTypeOK
      <4> QED  BY <2>2, <4>1 DEF TypeInv, TypeOK, StoreTypeOK
    <3>2. j \in live[a]
      BY <2>2, <2>3, <3>1, NewRowsLast
    <3> QED  BY <1>2, <2>1, <2>3, <3>2 DEF ReadsClosed
  <2> QED  BY <1>2, <2>1, <2>2, <2>3, RowsKept
<1>3. CASE \E a \in Apps : ReadEvents(v, a)
  <2>1. PICK a \in Apps : ReadEvents(v, a)
    BY <1>3
  <2>2. check'[v] = [app |-> a, rows |-> live[a]] /\ UNCHANGED <<log, live>>
    BY <1>1, <2>1 DEF ReadEvents, storeVars
  <2>3. live[a] \subseteq DOMAIN log[a]
    BY DEF TypeInv, TypeOK, StoreTypeOK
  <2> QED  BY <2>2, <2>3
<1>4. check'[v] = check[v] \/ \E a \in Apps : ReadEvents(v, a)
  <2>1. CASE \E u \in Verifiers : VerifierNext(u)
    BY <1>1, <2>1 DEF VerifierNext, ReadEvents, ReadCheckpointAndAnswer
  <2>2. CASE UNCHANGED check
    BY <2>2
  <2> QED
    BY <2>1, <2>2 DEF Next, RequestNext, RunNext, AdminNext, Crash, vars
<1> QED  BY <1>2, <1>3, <1>4

LEMMA AnchorsLastStep ==
    ASSUME OneRun, TypeInv, SuffixInv, SerialCounts, AnchorsLast, [Next]_vars
    PROVE  AnchorsLast'
<1>0. overtaken' = {} /\ \A a \in Apps : CountsOf(a)
  BY OvertakenGrows DEF OneRun, PlannedElsewhere, SerialCounts, CountInv
<1>1. ASSUME NEW k \in Runs, NEW a \in Apps, plan'[k][a] # None, plan'[k][a].ids # {}
      PROVE  AnchoredInLast(a, plan[k][a].ids, plan[k][a].anchor_hash)'
  <2>1. CASE plan'[k][a] = plan[k][a]
    BY <1>1, <2>1, RowsKept DEF AnchorsLast, AnchoredInLast
  <2>2. CASE plan'[k][a] = PlanFor(a, live[a], cutoff[k]) /\ UNCHANGED <<log, live>>
    <3>1. AnchoredInLast(a, plan'[k][a].ids, plan'[k][a].anchor_hash)
      BY <1>1, <2>2, PlanAnchoredInLast
    <3> QED  BY <2>2, <3>1 DEF AnchoredInLast
  <2> QED  BY <1>1, <2>1, <2>2, PlanStep
<1>2. ASSUME NEW a \in Apps, uncommitted'[a] # None
      PROVE  AnchoredInLast(a, uncommitted[a].ids, uncommitted[a].checkpoint.anchor_hash)'
  <2>1. CASE uncommitted'[a] = uncommitted[a]
    BY <1>2, <2>1, RowsKept DEF AnchorsLast, AnchoredInLast
  <2>2. ASSUME NEW k \in Runs, loaded[k] # None, loaded[k].app = a,
               uncommitted'[a].ids = Deleted(k, a),
               uncommitted'[a].checkpoint =
                  IF loaded[k].row = None THEN NewCheckpoint(k)
                  ELSE Flushed(checkpoint[a], loaded[k].row, NewCheckpoint(k)),
               UNCHANGED <<log, live, checkpoint>>
        PROVE  AnchoredInLast(a, uncommitted[a].ids, uncommitted[a].checkpoint.anchor_hash)'
    <3>1. /\ plan[k][a] # None /\ plan[k][a].ids # {} /\ loaded[k].row = checkpoint[a]
          /\ AnchoredInLast(a, plan[k][a].ids, plan[k][a].anchor_hash)
      BY <1>0, <2>2 DEF TypeInv, LoadedPlanned, CountsOf, AnchorsLast
    <3>2. NewCheckpoint(k).anchor_hash = plan[k][a].anchor_hash
      BY <2>2 DEF NewCheckpoint
    <3>3. uncommitted'[a].checkpoint.anchor_hash = plan[k][a].anchor_hash
      <4>1. checkpoint[a] \in Checkpoints \cup {None}
        BY DEF TypeInv, TypeOK, StoreTypeOK
      <4> QED  BY <2>2, <3>1, <3>2, <4>1 DEF Flushed, Checkpoints
    <3> QED  BY <2>2, <3>1, <3>3 DEF AnchoredInLast, Deleted
  <2> QED  BY <1>2, <2>1, <2>2, WriteStep
<1>3. ASSUME NEW a \in Apps, checkpoint'[a] # None
      PROVE  AnchoredInLast(a, Removed(a), checkpoint[a].anchor_hash)'
  <2>1. CASE Removed(a)' = Removed(a) /\ checkpoint'[a] = checkpoint[a]
    BY <1>3, <2>1, RowsKept DEF AnchorsLast, AnchoredInLast
  <2>2. CASE /\ log' = log /\ uncommitted[a] # None
             /\ live'[a] = live[a] \ uncommitted[a].ids
             /\ checkpoint'[a] = uncommitted[a].checkpoint
    <3> DEFINE ids == uncommitted[a].ids
    <3>1. PICK m \in ids :
            /\ m \in DOMAIN log[a]
            /\ checkpoint'[a].anchor_hash = log[a][m].event_hash
            /\ \A j \in ids : j <= m
      BY <2>2 DEF AnchorsLast, AnchoredInLast
    <3>2. ids \subseteq live[a] /\ live[a] \subseteq DOMAIN log[a]
      BY <1>0, <2>2, RemovedFinite DEF CountsOf
    <3>3. DOMAIN log[a] \subseteq Nat
      <4>1. log[a] \in Seq(Events)
        BY DEF TypeInv, TypeOK, StoreTypeOK
      <4> QED  BY <4>1
    <3> HIDE DEF ids
    <3>4. Removed(a)' = DOMAIN log[a] \ (live[a] \ ids)
      BY <2>2 DEF Removed, ids
    <3>5. m \in Removed(a)'
      BY <3>1, <3>4
    <3>6. ASSUME NEW x \in Removed(a)'
          PROVE  x <= m
      <4>1. x \in DOMAIN log[a] /\ x \in Nat /\ m \in Nat /\ m \in live[a]
        BY <3>1, <3>2, <3>3, <3>4
      <4>2. CASE x \in ids
        BY <3>1, <4>2
      <4>3. CASE x \notin ids
        <5>1. x \notin live[a]
          BY <3>4, <4>3
        <5>2. ~(m <= x)
          BY <4>1, <5>1 DEF SuffixInv, RetainedIsSuffix
        <5> QED  BY <4>1, <5>2
      <4> QED  BY <4>2, <4>3
    <3> QED  BY <2>2, <3>1, <3>5, <3>6 DEF AnchoredInLast
  <2> QED  BY <1>0, <2>1, <2>2, RemovalStep
<1> QED  BY <1>1, <1>2, <1>3 DEF AnchorsLast

\* The row before a retained one is the last of those before it, if any of
\* what the verifier has read is before it.
LEMMA EarlierIsLast ==
    ASSUME TypeInv, SuffixInv, ReadsClosed, NEW v \in Verifiers, check[v] # None,
           NEW a \in Apps, a = check[v].app, check[v].rows \subseteq live[a],
           NEW i \in check[v].rows, {j \in check[v].rows : Precedes(a, j, i)} # {}
    PROVE  /\ i > 1 /\ i - 1 \in live[a]
           /\ LastOf(a, {j \in check[v].rows : Precedes(a, j, i)}) = i - 1
<1> DEFINE rows == check[v].rows
           earlier == {j \in rows : Precedes(a, j, i)}
           m == LastOf(a, earlier)
<1>1. /\ StoreTypeOK /\ StampsBounded /\ log[a] \in Seq(Events)
      /\ live[a] \subseteq DOMAIN log[a]
  BY DEF TypeInv, TypeOK, StoreTypeOK
<1>2. Len(log[a]) \in Nat /\ DOMAIN log[a] = 1..Len(log[a])
  BY <1>1
<1>3. ASSUME NEW x \in rows, NEW y \in rows
      PROVE  x \in Nat /\ y \in Nat /\ (Precedes(a, x, y) <=> x < y)
  <2>1. x \in DOMAIN log[a] /\ y \in DOMAIN log[a]
    BY <1>1
  <2>2. ClockOrder
    BY DEF SuffixInv
  <2>3. Precedes(a, x, y) <=> x < y
    BY <2>1, <2>2, OrderIsPosition
  <2>4. x \in Nat /\ y \in Nat
    BY <1>2, <2>1
  <2> QED  BY <2>3, <2>4
<1>4. earlier \subseteq DOMAIN log[a] /\ earlier # {}
  BY <1>1
<1>5. m \in earlier /\ \A j \in earlier \ {m} : Precedes(a, j, m)
  BY <1>1, <1>4, LastOfIsLast
<1> HIDE DEF m, earlier
<1>6. m \in rows /\ m < i /\ m \in Nat /\ i \in Nat
  BY <1>3, <1>5 DEF earlier
<1>7. m \in live[a] /\ i \in DOMAIN log[a] /\ 1 <= m
  BY <1>1, <1>2, <1>6
<1>8. i - 1 \in live[a]
  <2>1. i - 1 \in DOMAIN log[a] /\ m <= i - 1
    BY <1>2, <1>6, <1>7
  <2> QED  BY <1>7, <2>1 DEF SuffixInv, RetainedIsSuffix
<1>9. i - 1 \in earlier
  <2>1. i - 1 < i
    BY <1>6
  <2>2. i - 1 \in rows
    BY <1>8, <2>1 DEF ReadsClosed
  <2> QED  BY <1>3, <2>1, <2>2 DEF earlier
<1>10. m = i - 1
  <2>1. SUFFICES ASSUME m # i - 1
                 PROVE  FALSE
    OBVIOUS
  <2>2. i - 1 < m
    BY <1>3, <1>5, <1>6, <1>9, <2>1 DEF earlier
  <2> QED  BY <1>6, <2>2
<1> QED  BY <1>6, <1>7, <1>8, <1>10 DEF m, earlier

\* Otherwise it is the first of what is retained, and the anchor is the hash
\* of the row before it.
LEMMA FirstIsAnchored ==
    ASSUME TypeInv, SuffixInv, ReadsClosed, RowsBuilt, AnchorsLast, AnchorNamesRemovedEvent,
           NEW v \in Verifiers, check[v] # None,
           NEW a \in Apps, a = check[v].app, check[v].rows \subseteq live[a], ~Restarted(a),
           NEW i \in check[v].rows, {j \in check[v].rows : Precedes(a, j, i)} = {}
    PROVE  log[a][i].previous_hash = AnchorOf(checkpoint[a])
<1>1. log[a] \in Seq(Events) /\ live[a] \subseteq DOMAIN log[a]
  BY DEF TypeInv, TypeOK, StoreTypeOK
<1>2. Len(log[a]) \in Nat /\ DOMAIN log[a] = 1..Len(log[a])
  BY <1>1
<1>3. i \in live[a] /\ i \in 1..Len(log[a])
  BY <1>1, <1>2
<1>4. \A j \in live[a] : ~(j < i)
  <2> SUFFICES ASSUME NEW j \in live[a], j < i
               PROVE  FALSE
    OBVIOUS
  <2>1. j \in check[v].rows
    BY DEF ReadsClosed
  <2>2. Precedes(a, j, i)
    BY <1>1, <1>3, OrderIsPosition DEF SuffixInv
  <2> QED  BY <2>1, <2>2
<1>5. CASE checkpoint[a] = None
  <2>1. live[a] = DOMAIN log[a]
    BY <1>5 DEF AnchorNamesRemovedEvent
  <2>2. 1 \in live[a]
    BY <1>2, <1>3, <2>1
  <2>3. ~(i > 1)
    BY <1>3, <1>4, <2>2
  <2> QED  BY <1>2, <1>3, <1>5, <2>3 DEF RowsBuilt, AnchorOf
<1>6. CASE checkpoint[a] # None
  <2>1. PICK m \in Removed(a) :
          /\ checkpoint[a].anchor_hash = log[a][m].event_hash
          /\ \A j \in Removed(a) : j <= m
    BY <1>6 DEF AnchorsLast, AnchoredInLast
  <2>2. m \in 1..Len(log[a]) /\ m \notin live[a]
    BY <1>2, <2>1 DEF Removed
  <2>3. m < i
    <3>1. ~(i <= m)
      BY <1>2, <1>3, <2>2 DEF SuffixInv, RetainedIsSuffix
    <3> QED  BY <1>3, <2>2, <3>1
  <2>4. m + 1 \in live[a]
    <3>1. m + 1 \in DOMAIN log[a] /\ ~(m + 1 <= m)
      BY <1>2, <1>3, <2>2, <2>3
    <3> QED  BY <2>1, <3>1 DEF Removed
  <2>5. m = i - 1 /\ i > 1
    BY <1>3, <1>4, <2>2, <2>3, <2>4
  <2>6. log[a][i].previous_hash # None
    BY <1>3, <2>5 DEF Restarted
  <2> QED  BY <1>2, <1>3, <1>6, <2>1, <2>5, <2>6 DEF RowsBuilt, AnchorOf
<1> QED  BY <1>5, <1>6

VerdictInv == SuffixInv /\ LinkInv /\ SerialCounts /\ RowsBuilt /\ LatestOrNone /\ ReadsClosed /\ AnchorsLast

LEMMA VerdictTrue ==
    ASSUME TypeInv, AnchorNamesRemovedEvent, VerdictInv
    PROVE  InvalidVerdictExplained
<1> SUFFICES ASSUME NEW v \in Verifiers, check[v] # None, ~Restarted(check[v].app),
                    check[v].rows \subseteq live[check[v].app]
             PROVE  Verdict(v)
  BY DEF InvalidVerdictExplained
<1>1. PICK a \in Apps : a = check[v].app
  BY DEF TypeInv, TypeOK
<1> DEFINE rows == check[v].rows
           anchor == AnchorOf(checkpoint[a])
<1>2. ASSUME NEW i \in rows
      PROVE  /\ log[a][i].previous_hash = HashBefore(a, rows, i, anchor)
             /\ log[a][i].event_hash =
                  chained_digest(log[a][i].content_hash, HashBefore(a, rows, i, anchor))
  <2>1. log[a][i].previous_hash = HashBefore(a, rows, i, anchor)
    <3>1. CASE {j \in rows : Precedes(a, j, i)} = {}
      BY <1>1, <3>1, FirstIsAnchored DEF HashBefore, VerdictInv
    <3>2. CASE {j \in rows : Precedes(a, j, i)} # {}
      <4>1. /\ i > 1 /\ i - 1 \in live[a]
            /\ LastOf(a, {j \in rows : Precedes(a, j, i)}) = i - 1
        BY <1>1, <3>2, EarlierIsLast DEF VerdictInv
      <4>2. i \in DOMAIN log[a] /\ log[a][i].previous_hash # None
        BY <1>1, <4>1 DEF Restarted, TypeInv, TypeOK, StoreTypeOK
      <4>3. log[a][i].previous_hash = log[a][i - 1].event_hash
        BY <4>2 DEF VerdictInv, RowsBuilt
      <4> QED  BY <3>2, <4>1, <4>3 DEF HashBefore
    <3> QED  BY <3>1, <3>2
  <2>2. i \in DOMAIN log[a]
    BY <1>1 DEF TypeInv, TypeOK, StoreTypeOK
  <2> QED  BY <2>1, <2>2 DEF VerdictInv, RowsBuilt
<1> QED  BY <1>1, <1>2 DEF Verdict, verify_chain

LEMMA VerdictInit == Init => VerdictInv
<1> SUFFICES ASSUME Init
             PROVE  VerdictInv
  OBVIOUS
<1>1. SerialCounts
  BY SerialCountsInit
<1>2. RowsBuilt /\ LatestOrNone /\ ReadsClosed
  BY DEF Init, StoreInit, IngestionInit, VerificationInit, RowsBuilt, LatestOrNone, ReadsClosed
<1>3. AnchorsLast
  BY DEF Init, StoreInit, RetentionInit, Unplanned, AnchorsLast
<1> QED  BY <1>1, <1>2, <1>3, SuffixInit, LinkInit DEF VerdictInv

\* If the clocks agree and runs do not overlap, verify-chain answers FALSE
\* only when a run committed between its two reads, or when the chain had been
\* emptied and was started anew (verify_chain of events/service.py): it never
\* accuses an intact trail, whatever writers, retries and crashes do.
THEOREM VerdictsExplained ==
    ASSUME MaxSkew = 0, OneRun
    PROVE  Spec => []InvalidVerdictExplained
<1>1. Init => VerdictInv
  BY VerdictInit
<1>2. TypeInv /\ TypeInv' /\ AnchorNamesRemovedEvent /\ VerdictInv /\ [Next]_vars => VerdictInv'
  <2> SUFFICES ASSUME TypeInv, TypeInv', AnchorNamesRemovedEvent, VerdictInv, [Next]_vars
               PROVE  VerdictInv'
    OBVIOUS
  <2> USE DEF VerdictInv
  <2>1. SuffixInv'
    BY ClockStep, PlanDownStep, WriteDownStep, SuffixStep DEF SuffixInv
  <2>2. LinkInv'
    BY ClockStep, LockHeldStep, LatestStep, LinkedStep DEF LinkInv
  <2>3. SerialCounts'
    BY SerialCountsStep
  <2>4. RowsBuilt' /\ ReadsClosed' /\ AnchorsLast'
    BY BuiltStep, ReadsClosedStep, AnchorsLastStep
  <2>5. LatestOrNone'
    BY LatestOrNoneStep DEF SuffixInv, LinkInv
  <2> QED  BY <2>1, <2>2, <2>3, <2>4, <2>5
<1>3. TypeInv /\ AnchorNamesRemovedEvent /\ VerdictInv => InvalidVerdictExplained
  BY VerdictTrue
<1> QED  BY <1>1, <1>2, <1>3, TypeInvariance, AnchorCorrect, PTL DEF Spec

-----------------------------------------------------------------------------
(* The order of the trail when clocks differ.                              *)

\* No row is stamped more than MaxSkew before a row that was committed earlier.
StampOrder ==
    \A a \in Apps : \A i, j \in DOMAIN log[a] :
        i < j => log[a][i].received_at - MaxSkew <= log[a][j].received_at

\* With a row, a plan removes every retained row that was committed earlier and
\* precedes it.
PlanOrdered ==
    \A k \in Runs, a \in Apps :
        plan[k][a] # None =>
            \A i \in plan[k][a].ids, j \in live[a] :
                j < i /\ Precedes(a, j, i) => j \in plan[k][a].ids

\* So does what a run has pending.
WriteOrdered ==
    \A a \in Apps :
        uncommitted[a] # None =>
            /\ uncommitted[a].ids \subseteq DOMAIN log[a]
            /\ \A i \in uncommitted[a].ids, j \in live[a] :
                  j < i /\ Precedes(a, j, i) => j \in uncommitted[a].ids

RemovalInv == StampOrder /\ PlanOrdered /\ WriteOrdered /\ RemovedAreOldest

LEMMA StampOrderStep ==
    ASSUME TypeInv, StampOrder, [Next]_vars
    PROVE  StampOrder'
<1>1. CASE UNCHANGED log
  BY <1>1 DEF StampOrder
<1>2. CASE \E r \in Requests : InsertEvent(r)
  <2>1. PICK r \in Requests : InsertEvent(r)
    BY <1>2
  <2> DEFINE b == App(r)
             n == Len(log[b])
  <2>2. /\ n \in Nat /\ DOMAIN log[b] = 1..n /\ DOMAIN log'[b] = 1..(n + 1)
        /\ \A c \in Apps \ {b} : log'[c] = log[c]
        /\ \A i \in DOMAIN log[b] : log'[b][i] = log[b][i]
        /\ now <= log'[b][n + 1].received_at
    BY <2>1, InsertRows
  <2> HIDE DEF b, n
  <2>3. SUFFICES ASSUME NEW a \in Apps, NEW i \in DOMAIN log'[a], NEW j \in DOMAIN log'[a], i < j
                 PROVE  log'[a][i].received_at - MaxSkew <= log'[a][j].received_at
    BY DEF StampOrder
  <2>4. CASE a # b
    BY <2>2, <2>3, <2>4 DEF StampOrder
  <2>5. CASE a = b /\ j # n + 1
    BY <2>2, <2>3, <2>5 DEF StampOrder
  <2>6. CASE a = b /\ j = n + 1
    <3>1. i \in DOMAIN log[a] /\ log'[a][i] = log[a][i]
      BY <2>2, <2>3, <2>6
    <3>2. log[a][i].received_at \in Nat /\ log[a][i].received_at <= now + MaxSkew /\ now \in Nat
      BY <3>1 DEF TypeInv, TypeOK, StoreTypeOK, StampsBounded
    <3>3. log'[a][j].received_at \in Nat
      BY TypeStep DEF TypeInv, StampsBounded
    <3> QED  BY <2>2, <2>6, <3>1, <3>2, <3>3, ClockAssumption
  <2> QED  BY <2>4, <2>5, <2>6
<1> QED  BY <1>1, <1>2, RowsStep DEF CommitRun

\* Rows that exist keep their order.
LEMMA OrderKept ==
    ASSUME TypeInv, [Next]_vars, NEW a \in Apps, NEW i \in DOMAIN log[a], NEW j \in DOMAIN log[a]
    PROVE  /\ Precedes(a, i, j)' <=> Precedes(a, i, j)
           /\ Behind(a, i, j)' <=> Behind(a, i, j)
BY RowsKept DEF Precedes, Behind

\* Of two rows that are not in the order of their commits, the later is behind.
LEMMA LaterIsBehind ==
    ASSUME TypeInv, StampOrder, NEW a \in Apps, NEW i \in DOMAIN log[a], NEW j \in DOMAIN log[a],
           i < j, ~Precedes(a, i, j) \/ Precedes(a, j, i)
    PROVE  Behind(a, j, i)
<1>1. log[a] \in Seq(Events)
  BY DEF TypeInv, TypeOK, StoreTypeOK
<1>2. i \in Nat /\ j \in Nat /\ log[a][i].received_at \in Nat /\ log[a][j].received_at \in Nat
  BY <1>1 DEF TypeInv, StampsBounded
<1>3. log[a][j].received_at <= log[a][i].received_at
  BY <1>2 DEF Precedes
<1>4. log[a][i].received_at - MaxSkew <= log[a][j].received_at
  BY DEF StampOrder
<1> QED  BY <1>2, <1>3, <1>4, ClockAssumption DEF Behind

LEMMA PrecedesOn ==
    ASSUME TypeInv, NEW a \in Apps, NEW i \in DOMAIN log[a], NEW j \in DOMAIN log[a],
           NEW k \in DOMAIN log[a], i = j \/ Precedes(a, i, j), Precedes(a, j, k)
    PROVE  Precedes(a, i, k)
<1>1. log[a] \in Seq(Events)
  BY DEF TypeInv, TypeOK, StoreTypeOK
<1>2. /\ i \in Nat /\ j \in Nat /\ k \in Nat
      /\ log[a][i].received_at \in Nat /\ log[a][j].received_at \in Nat
      /\ log[a][k].received_at \in Nat
  BY <1>1 DEF TypeInv, StampsBounded
<1> QED  BY <1>2 DEF Precedes

LEMMA PlanOrderedStep ==
    ASSUME TypeInv, PlanOrdered, [Next]_vars
    PROVE  PlanOrdered'
<1> SUFFICES ASSUME NEW k \in Runs, NEW a \in Apps, plan'[k][a] # None,
                    NEW i \in plan'[k][a].ids, NEW j \in live'[a], j < i, Precedes(a, j, i)'
             PROVE  j \in plan'[k][a].ids
  BY DEF PlanOrdered
<1>1. CASE plan'[k][a] = plan[k][a]
  <2>1. i \in DOMAIN log[a]
    BY <1>1 DEF TypeInv, PlansNamed
  <2>2. i \in Nat /\ j \in Nat
    <3>1. log[a] \in Seq(Events) /\ TypeInv'
      BY TypeStep DEF TypeInv, TypeOK, StoreTypeOK
    <3> QED  BY <2>1, <3>1 DEF TypeInv, TypeOK, StoreTypeOK
  <2>3. j \in live[a]
    BY <2>1, <2>2, NewRowsLast
  <2>4. Precedes(a, j, i)
    <3>1. j \in DOMAIN log[a]
      BY <2>3 DEF TypeInv, TypeOK, StoreTypeOK
    <3> QED  BY <2>1, <3>1, OrderKept
  <2> QED  BY <1>1, <2>3, <2>4 DEF PlanOrdered
<1>2. CASE plan'[k][a] = PlanFor(a, live[a], cutoff[k]) /\ UNCHANGED <<log, live>>
  <2> DEFINE expired == contiguous_expired_prefix(a, live[a], cutoff[k])
  <2>1. plan'[k][a].ids = expired
    BY <1>2 DEF PlanFor, PlanOf
  <2>2. expired \subseteq live[a] /\ live[a] \subseteq DOMAIN log[a]
    BY DEF contiguous_expired_prefix, TypeInv, TypeOK, StoreTypeOK
  <2>3. i \in expired /\ i \in DOMAIN log[a] /\ j \in live[a] /\ j \in DOMAIN log[a]
    BY <1>2, <2>1, <2>2
  <2>4. Precedes(a, j, i)
    BY <2>3, OrderKept
  <2>5. ASSUME NEW x \in live[a], x = j \/ Precedes(a, x, j)
        PROVE  log[a][x].occurred_at < cutoff[k]
    <3>1. x \in DOMAIN log[a]
      BY <2>2
    <3>2. Precedes(a, x, i)
      BY <2>3, <2>4, <2>5, <3>1, PrecedesOn
    <3> QED  BY <2>3, <3>2 DEF contiguous_expired_prefix
  <2> QED  BY <2>1, <2>3, <2>5 DEF contiguous_expired_prefix
<1> QED  BY <1>1, <1>2, PlanStep

LEMMA WriteOrderedStep ==
    ASSUME TypeInv, PlanOrdered, WriteOrdered, [Next]_vars
    PROVE  WriteOrdered'
<1> SUFFICES ASSUME NEW a \in Apps, uncommitted'[a] # None
             PROVE  /\ uncommitted'[a].ids \subseteq DOMAIN log'[a]
                    /\ \A i \in uncommitted'[a].ids, j \in live'[a] :
                          j < i /\ Precedes(a, j, i)' => j \in uncommitted'[a].ids
  BY DEF WriteOrdered
<1>1. CASE uncommitted'[a] = uncommitted[a]
  <2>1. uncommitted[a].ids \subseteq DOMAIN log[a]
    BY <1>1 DEF WriteOrdered
  <2>2. uncommitted'[a].ids \subseteq DOMAIN log'[a]
    BY <1>1, <2>1, RowsKept
  <2>3. ASSUME NEW i \in uncommitted[a].ids, NEW j \in live'[a], j < i, Precedes(a, j, i)'
        PROVE  j \in uncommitted[a].ids
    <3>1. i \in Nat /\ j \in Nat
      <4>1. log[a] \in Seq(Events) /\ TypeInv'
        BY TypeStep DEF TypeInv, TypeOK, StoreTypeOK
      <4> QED  BY <2>1, <4>1 DEF TypeInv, TypeOK, StoreTypeOK
    <3>2. j \in live[a]
      BY <2>1, <2>3, <3>1, NewRowsLast
    <3>3. i \in DOMAIN log[a] /\ j \in DOMAIN log[a]
      BY <2>1, <3>2 DEF TypeInv, TypeOK, StoreTypeOK
    <3>4. Precedes(a, j, i)
      BY <2>3, <3>3, OrderKept
    <3> QED  BY <1>1, <2>3, <3>2, <3>4 DEF WriteOrdered
  <2> QED  BY <1>1, <2>2, <2>3
<1>2. ASSUME NEW k \in Runs, loaded[k] # None, loaded[k].app = a,
             uncommitted'[a].ids = Deleted(k, a), UNCHANGED <<log, live>>
      PROVE  /\ uncommitted'[a].ids \subseteq DOMAIN log'[a]
             /\ \A i \in uncommitted'[a].ids, j \in live'[a] :
                   j < i /\ Precedes(a, j, i)' => j \in uncommitted'[a].ids
  <2>1. plan[k][a] # None
    BY <1>2 DEF TypeInv, LoadedPlanned
  <2>2. plan[k][a].ids \subseteq DOMAIN log[a] /\ live[a] \subseteq DOMAIN log[a]
    BY <2>1 DEF TypeInv, PlansNamed, TypeOK, StoreTypeOK
  <2>3. ASSUME NEW i \in plan[k][a].ids, NEW j \in live[a], j < i, Precedes(a, j, i)'
        PROVE  j \in plan[k][a].ids
    <3>1. Precedes(a, j, i)
      BY <2>2, <2>3, OrderKept
    <3> QED  BY <2>1, <2>3, <3>1 DEF PlanOrdered
  <2> QED  BY <1>2, <2>1, <2>2, <2>3 DEF Deleted
<1> QED  BY <1>1, <1>2, WriteStep

LEMMA RemovedOldestStep ==
    ASSUME TypeInv, RemovalInv, [Next]_vars
    PROVE  RemovedAreOldest'
<1> SUFFICES ASSUME NEW a \in Apps, NEW i \in live'[a], NEW j \in DOMAIN log'[a],
                    j \notin live'[a], i < j
             PROVE  Behind(a, j, i)'
  BY DEF RemovedAreOldest
<1>1. live[a] \subseteq DOMAIN log[a]
  BY DEF TypeInv, TypeOK, StoreTypeOK
<1>2. ASSUME i \in live[a], j \in DOMAIN log[a], Behind(a, j, i)
      PROVE  Behind(a, j, i)'
  BY <1>1, <1>2, OrderKept
<1>3. CASE UNCHANGED <<log, live>>
  BY <1>2, <1>3 DEF RemovalInv, RemovedAreOldest
<1>4. CASE \E r \in Requests : InsertEvent(r)
  <2>1. PICK r \in Requests : InsertEvent(r)
    BY <1>4
  <2> DEFINE b == App(r)
             n == Len(log[b])
  <2>2. /\ n \in Nat /\ DOMAIN log[b] = 1..n /\ DOMAIN log'[b] = 1..(n + 1)
        /\ \A c \in Apps \ {b} : log'[c] = log[c] /\ live'[c] = live[c]
        /\ live'[b] = live[b] \cup {n + 1}
    BY <2>1, InsertRows
  <2> HIDE DEF b, n
  <2>3. i \in live[a] /\ j \in DOMAIN log[a] /\ j \notin live[a]
    BY <2>2
  <2> QED  BY <1>2, <2>3 DEF RemovalInv, RemovedAreOldest
<1>5. CASE \E k \in Runs : CommitRun(k)
  <2>1. UNCHANGED log
    BY <1>5 DEF CommitRun
  <2>2. CASE live'[a] = live[a]
    BY <1>2, <2>1, <2>2 DEF RemovalInv, RemovedAreOldest
  <2>3. CASE uncommitted[a] # None /\ live'[a] = live[a] \ uncommitted[a].ids
    <3>1. i \in live[a] /\ i \notin uncommitted[a].ids /\ i \in DOMAIN log[a] /\ j \in DOMAIN log[a]
      BY <1>1, <2>1, <2>3
    <3>2. CASE j \in live[a]
      <4>1. j \in uncommitted[a].ids
        BY <2>3, <3>2
      <4>2. ~Precedes(a, i, j)
        BY <2>3, <3>1, <4>1 DEF RemovalInv, WriteOrdered
      <4> QED  BY <1>2, <3>1, <4>2, LaterIsBehind DEF RemovalInv
    <3>3. CASE j \notin live[a]
      BY <1>2, <3>1, <3>3 DEF RemovalInv, RemovedAreOldest
    <3> QED  BY <3>2, <3>3
  <2> QED  BY <1>5, <2>2, <2>3, CommitRows
<1> QED  BY <1>3, <1>4, <1>5, RowsStep

LEMMA RemovalInit == Init => RemovalInv
BY DEF Init, StoreInit, RetentionInit, Unplanned, RemovalInv, StampOrder, PlanOrdered,
       WriteOrdered, RemovedAreOldest

LEMMA RemovalInvStep == TypeInv /\ RemovalInv /\ [Next]_vars => RemovalInv'
<1> SUFFICES ASSUME TypeInv, RemovalInv, [Next]_vars
             PROVE  RemovalInv'
  OBVIOUS
<1>1. StampOrder /\ PlanOrdered /\ WriteOrdered
  BY DEF RemovalInv
<1>2. StampOrder' /\ PlanOrdered' /\ WriteOrdered'
  BY <1>1, StampOrderStep, PlanOrderedStep, WriteOrderedStep
<1>3. RemovedAreOldest'
  BY RemovedOldestStep
<1> QED  BY <1>2, <1>3 DEF RemovalInv

\* However far the clocks of the replicas differ and however runs overlap with
\* each other and with writers, no event disappears that was committed after a
\* retained one and is stamped later, or more than MaxSkew earlier: what
\* contiguous_expired_prefix calls the oldest is the oldest but for the skew.
THEOREM RemovalsCorrect == Spec => []RemovedAreOldest
<1>1. Init => RemovalInv
  BY RemovalInit
<1>2. TypeInv /\ RemovalInv /\ [Next]_vars => RemovalInv'
  BY RemovalInvStep
<1>3. RemovalInv => RemovedAreOldest
  BY DEF RemovalInv
<1> QED  BY <1>1, <1>2, <1>3, TypeInvariance, PTL DEF Spec

\* What a request builds on while it holds the lock: nothing, if nothing is
\* retained, and otherwise a row that no row committed later outranks.
ChosenLatest ==
    \A r \in Requests :
        phase[r] = "insert" =>
            \/ latest[r] = None /\ live[App(r)] = {}
            \/ \E p \in DOMAIN log[App(r)] :
                  /\ latest[r] = log[App(r)][p].event_hash
                  /\ \A i \in DOMAIN log[App(r)] : p < i => Behind(App(r), i, p)

ForkInv == RemovalInv /\ LockHeld /\ ChosenLatest /\ ForksAreRecent

LEMMA ChosenStep ==
    ASSUME TypeInv, ForkInv, [Next]_vars
    PROVE  ChosenLatest'
<1> SUFFICES ASSUME NEW r \in Requests, phase'[r] = "insert"
             PROVE  \E a \in Apps :
                       /\ a = App(r)'
                       /\ \/ latest'[r] = None /\ live'[a] = {}
                          \/ \E p \in DOMAIN log'[a] :
                                /\ latest'[r] = log'[a][p].event_hash
                                /\ \A i \in DOMAIN log'[a] : p < i => Behind(a, i, p)'
  BY DEF ChosenLatest, Behind
<1>1. CASE phase[r] = "insert" /\ latest'[r] = latest[r] /\ App(r)' = App(r) /\ ~InsertEvent(r)
  <2>1. PICK a \in Apps : a = App(r) /\ exclusive[a] = r
    BY <1>1, HolderApp DEF ForkInv, LockHeld
  <2>2. log'[a] = log[a] /\ live'[a] \subseteq live[a]
    <3>1. CASE \E q \in Requests : InsertEvent(q)
      <4>1. PICK q \in Requests : InsertEvent(q)
        BY <3>1
      <4>2. exclusive[App(q)] = q /\ q # r
        BY <1>1, <4>1 DEF ForkInv, LockHeld, InsertEvent
      <4>3. a # App(q)
        BY <2>1, <4>2
      <4> QED  BY <4>1, <4>3, InsertRows
    <3>2. CASE \E k \in Runs : CommitRun(k)
      BY <3>2, CommitRows DEF CommitRun
    <3> QED  BY <3>1, <3>2, RowsStep
  <2>3. \/ latest[r] = None /\ live[a] = {}
        \/ \E p \in DOMAIN log[a] :
              /\ latest[r] = log[a][p].event_hash
              /\ \A i \in DOMAIN log[a] : p < i => Behind(a, i, p)
    BY <1>1, <2>1 DEF ForkInv, ChosenLatest
  <2>4. \A i, p \in DOMAIN log[a] : Behind(a, i, p)' <=> Behind(a, i, p)
    BY OrderKept
  <2> QED  BY <1>1, <2>1, <2>2, <2>3, <2>4
<1>2. CASE ReadLatest(r)
  <2>1. UNCHANGED <<log, live, request>>
    BY <1>2 DEF ReadLatest, storeVars
  <2>2. PICK a \in Apps : a = App(r)
    BY <1>2, HolderApp DEF ReadLatest
  <2>3. App(r)' = a
    BY <2>1, <2>2 DEF App
  <2>4. latest'[r] = IF live[a] = {} THEN None ELSE log[a][LastOf(a, live[a])].event_hash
    BY <1>2, <2>2 DEF ReadLatest, TypeInv, TypeOK, IngestionTypeOK
  <2>5. CASE live[a] = {}
    BY <2>1, <2>2, <2>3, <2>4, <2>5
  <2>6. CASE live[a] # {}
    <3>1. live[a] \subseteq DOMAIN log[a]
      BY DEF TypeInv, TypeOK, StoreTypeOK
    <3>2. PICK p \in live[a] : p = LastOf(a, live[a]) /\ \A j \in live[a] \ {p} : Precedes(a, j, p)
      BY <2>6, <3>1, LastOfIsLast DEF TypeInv, TypeOK
    <3>3. ASSUME NEW i \in DOMAIN log[a], p < i
          PROVE  Behind(a, i, p)
      <4>1. p \in DOMAIN log[a] /\ i # p
        <5>1. log[a] \in Seq(Events)
          BY DEF TypeInv, TypeOK, StoreTypeOK
        <5> QED  BY <3>1, <3>3, <5>1
      <4>2. CASE i \in live[a]
        BY <3>2, <3>3, <4>1, <4>2, LaterIsBehind DEF ForkInv, RemovalInv
      <4>3. CASE i \notin live[a]
        BY <3>3, <4>3 DEF ForkInv, RemovalInv, RemovedAreOldest
      <4> QED  BY <4>2, <4>3
    <3>4. \A i \in DOMAIN log[a] : Behind(a, i, p)' <=> Behind(a, i, p)
      BY <3>1, OrderKept
    <3>5. /\ p \in DOMAIN log'[a]
          /\ latest'[r] = log'[a][p].event_hash
          /\ \A i \in DOMAIN log'[a] : p < i => Behind(a, i, p)'
      BY <2>1, <2>4, <2>6, <3>1, <3>2, <3>3, <3>4
    <3> QED  BY <2>2, <2>3, <3>5
  <2> QED  BY <2>5, <2>6
<1> QED  BY <1>1, <1>2, InsertPhaseStep

LEMMA ForksStep ==
    ASSUME TypeInv, ForkInv, [Next]_vars
    PROVE  ForksAreRecent'
<1> SUFFICES ASSUME NEW a \in Apps, NEW n \in DOMAIN log'[a]
             PROVE  \/ log'[a][n].previous_hash = None /\ live'[a] \cap 1..(n - 1) = {}
                    \/ \E p \in 1..(n - 1) :
                          /\ log'[a][n].previous_hash = log'[a][p].event_hash
                          /\ \A i \in (p + 1)..(n - 1) : Behind(a, i, p)'
  BY DEF ForksAreRecent, BuiltOn
<1>1. log[a] \in Seq(Events)
  BY DEF TypeInv, TypeOK, StoreTypeOK
<1>2. CASE n \in DOMAIN log[a]
  <2>1. n \in Nat /\ 1..n \subseteq DOMAIN log[a]
    BY <1>1, <1>2
  <2>2. log'[a][n] = log[a][n] /\ \A i \in 1..n : log'[a][i] = log[a][i]
    BY <2>1, <1>2, RowsKept
  <2>3. CASE log[a][n].previous_hash = None /\ live[a] \cap 1..(n - 1) = {}
    <3>1. live'[a] \cap 1..(n - 1) = {}
      BY <2>1, <2>3, RowsKept
    <3> QED  BY <2>2, <2>3, <3>1
  <2>4. CASE \E p \in 1..(n - 1) : BuiltOn(a, n, p)
    <3>1. PICK p \in 1..(n - 1) : BuiltOn(a, n, p)
      BY <2>4
    <3>2. \A i \in (p + 1)..(n - 1) : Behind(a, i, p)'
      BY <2>1, <3>1, OrderKept DEF BuiltOn
    <3> QED  BY <2>1, <2>2, <3>1, <3>2 DEF BuiltOn
  <2> QED  BY <1>2, <2>3, <2>4 DEF ForkInv, ForksAreRecent
<1>3. CASE n \notin DOMAIN log[a]
  <2>1. PICK r \in Requests : InsertEvent(r)
    BY <1>3, RowsStep DEF CommitRun
  <2> DEFINE b == App(r)
             m == Len(log[b])
  <2>2. /\ b \in Apps /\ m \in Nat /\ DOMAIN log[b] = 1..m /\ DOMAIN log'[b] = 1..(m + 1)
        /\ \A c \in Apps \ {b} : log'[c] = log[c]
        /\ \A i \in DOMAIN log[b] : log'[b][i] = log[b][i]
        /\ live'[b] = live[b] \cup {m + 1}
        /\ log'[b][m + 1].previous_hash = latest[r]
    BY <2>1, InsertRows
  <2>3. \/ latest[r] = None /\ live[b] = {}
        \/ \E p \in DOMAIN log[b] :
              /\ latest[r] = log[b][p].event_hash
              /\ \A i \in DOMAIN log[b] : p < i => Behind(b, i, p)
    BY <2>1 DEF ForkInv, ChosenLatest, InsertEvent
  <2> HIDE DEF b, m
  <2>4. a = b /\ n = m + 1
    BY <1>3, <2>2
  <2>5. CASE latest[r] = None /\ live[a] = {}
    BY <2>2, <2>4, <2>5
  <2>6. ASSUME NEW p \in DOMAIN log[a], latest[r] = log[a][p].event_hash,
               \A i \in DOMAIN log[a] : p < i => Behind(a, i, p)
        PROVE  /\ p \in 1..(n - 1)
               /\ log'[a][n].previous_hash = log'[a][p].event_hash
               /\ \A i \in (p + 1)..(n - 1) : Behind(a, i, p)'
    <3>1. p \in 1..(n - 1) /\ DOMAIN log[a] = 1..(n - 1) /\ n - 1 \in Nat
      BY <2>2, <2>4
    <3>2. ASSUME NEW i \in (p + 1)..(n - 1)
          PROVE  Behind(a, i, p)'
      <4>1. i \in DOMAIN log[a] /\ p < i
        BY <3>1
      <4> QED  BY <2>6, <4>1, OrderKept
    <3> QED  BY <2>2, <2>4, <2>6, <3>1, <3>2
  <2> QED  BY <2>3, <2>4, <2>5, <2>6
<1> QED  BY <1>2, <1>3

\* However far the clocks of the replicas differ, concurrent writers fork the
\* chain only locally: every event is built on the one that the clocks call the
\* latest, and passes over nothing but events stamped within MaxSkew before it
\* (the FOR UPDATE lock of ingest_event).
THEOREM ForksBounded == Spec => []ForksAreRecent
<1>1. Init => ForkInv
  <2>1. ASSUME Init
        PROVE  LockHeld /\ ChosenLatest /\ ForksAreRecent
    BY <2>1 DEF Init, StoreInit, IngestionInit, LockHeld, ChosenLatest, ForksAreRecent
  <2> QED  BY <2>1, RemovalInit DEF ForkInv
<1>2. TypeInv /\ ForkInv /\ [Next]_vars => ForkInv'
  <2> SUFFICES ASSUME TypeInv, ForkInv, [Next]_vars
               PROVE  ForkInv'
    OBVIOUS
  <2>1. RemovalInv' /\ LockHeld'
    BY RemovalInvStep, LockHeldStep DEF ForkInv
  <2>2. ChosenLatest' /\ ForksAreRecent'
    BY ChosenStep, ForksStep
  <2> QED  BY <2>1, <2>2 DEF ForkInv
<1>3. ForkInv => ForksAreRecent
  BY DEF ForkInv
<1> QED  BY <1>1, <1>2, <1>3, TypeInvariance, PTL DEF Spec
=============================================================================
