---------------------- MODULE AuditChainSafety_proofs ----------------------
(***************************************************************************)
(* The safety of the audit trail, proved for every value of the constants, *)
(* whatever the clocks of the replicas say: unique rows, anchors, what     *)
(* clients are told, what checkpoints and runs count, and the refinement   *)
(* of the service that ingestion and retention promise.                    *)
(***************************************************************************)
EXTENDS AuditChain_proofs

-----------------------------------------------------------------------------
(* What a step can change: the rows, a plan, a pending write.              *)

\* Only an insert and the commit of a run change the rows.
LEMMA RowsStep ==
    ASSUME [Next]_vars
    PROVE  \/ UNCHANGED <<log, live, checkpoint>>
           \/ \E r \in Requests : InsertEvent(r) /\ UNCHANGED <<retentionVars, checkpoint, uncommitted>>
           \/ \E k \in Runs : CommitRun(k) /\ UNCHANGED ingestionVars
<1> USE DEF storeVars
<1>1. CASE \E r \in Requests : RequestNext(r)
  BY <1>1 DEF RequestNext, RequestStep, Receive, LookupExisting, LockApplication, ReadLatest,
              InsertEvent, InsertViolatesUnique, RefreshEvent
<1>2. CASE \E k \in Runs : RunNext(k)
  BY <1>2 DEF RunNext, RunStep, RequestRun, HoldStopsRun, ExecuteRetention, PlanApplication,
              ReadCheckpoint, WriteCheckpoint, CheckpointExists, DeadlockVictim, AbortRun,
              Acknowledge
<1>3. CASE \E u \in Admins : AdminNext(u)
  BY <1>3 DEF AdminNext, PutLoad, PutCommit
<1>4. CASE Crash
  BY <1>4 DEF Crash, AbortRequest, CrashRun, AbortRun
<1>5. CASE \/ Tick /\ UNCHANGED <<ingestionVars, retentionVars, check, crashes>>
           \/ \E v \in Verifiers : VerifierNext(v)
           \/ UNCHANGED vars
  BY <1>5 DEF Tick, VerifierNext, ReadEvents, ReadCheckpointAndAnswer, vars
<1> QED  BY <1>1, <1>2, <1>3, <1>4, <1>5 DEF Next

\* A plan stays, is dropped, or is built from the rows the run sees.
LEMMA PlanStep ==
    ASSUME TypeInv, [Next]_vars, NEW k \in Runs, NEW a \in Apps, plan'[k][a] # None
    PROVE  \/ plan'[k][a] = plan[k][a]
           \/ /\ step[k] = "plan"
              /\ plan'[k][a] = PlanFor(a, live[a], cutoff[k])
              /\ UNCHANGED <<log, live>>
<1> USE DEF storeVars, retentionVars, runVars
<1>1. plan \in [Runs -> [Apps -> Plans \cup {None}]]
  BY DEF TypeInv, TypeOK, RetentionTypeOK
<1>2. ASSUME NEW j \in Runs, NEW next, Reset(j, next)
      PROVE  plan'[k][a] = plan[k][a]
  BY <1>1, <1>2 DEF Reset, Unplanned
<1>3. CASE \E j \in Runs : RunNext(j)
  <2>1. PICK j \in Runs : RunNext(j)
    BY <1>3
  <2>2. CASE \E b \in Apps : PlanApplication(j, b)
    BY <1>1, <2>2 DEF PlanApplication
  <2>3. CASE UNCHANGED plan
    BY <2>3
  <2>4. CASE \E next : Reset(j, next)
    BY <1>2, <2>4
  <2> QED
    BY <2>1, <2>2, <2>3, <2>4
    DEF RunNext, RunStep, RequestRun, HoldStopsRun, ExecuteRetention, ReadCheckpoint,
        WriteCheckpoint, CheckpointExists, DeadlockVictim, AbortRun, CommitRun, Acknowledge
<1>4. CASE Crash
  BY <1>2, <1>4 DEF Crash, CrashRun, AbortRun
<1>5. CASE UNCHANGED plan
  BY <1>5
<1> QED
  BY <1>3, <1>4, <1>5 DEF Next, RequestNext, AdminNext, PutLoad, PutCommit, VerifierNext, vars

\* A pending write stays, ends, or is the one a run makes for its plan.
LEMMA WriteStep ==
    ASSUME TypeInv, [Next]_vars, NEW a \in Apps, uncommitted'[a] # None
    PROVE  \/ uncommitted'[a] = uncommitted[a]
           \/ \E k \in Runs :
                /\ loaded[k] # None /\ loaded[k].app = a
                /\ uncommitted'[a].ids = Deleted(k, a)
                /\ uncommitted'[a].checkpoint =
                     IF loaded[k].row = None THEN NewCheckpoint(k)
                     ELSE Flushed(checkpoint[a], loaded[k].row, NewCheckpoint(k))
                /\ UNCHANGED <<log, live, checkpoint>>
<1> USE DEF storeVars, retentionVars, runVars
<1>1. uncommitted \in [Apps -> Writes \cup {None}]
  BY DEF TypeInv, TypeOK, RetentionTypeOK
<1>2. ASSUME NEW j \in Runs, Rollback(j)
      PROVE  uncommitted'[a] = uncommitted[a]
  BY <1>2 DEF Rollback
<1>3. CASE \E j \in Runs : RunNext(j)
  <2>1. PICK j \in Runs : RunNext(j)
    BY <1>3
  <2>2. CASE WriteCheckpoint(j)
    BY <1>1, <2>2 DEF WriteCheckpoint
  <2>3. CASE UNCHANGED uncommitted
    BY <2>3
  <2>4. CASE Rollback(j)
    BY <1>2, <2>4
  <2> QED
    BY <2>1, <2>2, <2>3, <2>4
    DEF RunNext, RunStep, RequestRun, HoldStopsRun, ExecuteRetention, PlanApplication,
        ReadCheckpoint, CheckpointExists, DeadlockVictim, AbortRun, CommitRun, Acknowledge
<1>4. CASE Crash
  BY <1>2, <1>4 DEF Crash, CrashRun, AbortRun, AbortRequest
<1>5. CASE UNCHANGED uncommitted
  BY <1>5
<1>6. CASE \E r \in Requests : RequestNext(r)
  BY <1>5, <1>6
  DEF RequestNext, RequestStep, Receive, LookupExisting, LockApplication, ReadLatest,
      InsertEvent, InsertViolatesUnique, RefreshEvent
<1> QED
  BY <1>3, <1>4, <1>5, <1>6
  DEF Next, AdminNext, PutLoad, PutCommit, VerifierNext, ReadEvents, ReadCheckpointAndAnswer,
      Tick, vars

\* An insert appends one row to one application and keeps every other row.
LEMMA InsertRows ==
    ASSUME TypeInv, NEW r \in Requests, InsertEvent(r)
    PROVE  LET a == App(r)
               n == Len(log[a])
           IN  /\ a \in Apps /\ n \in Nat
               /\ DOMAIN log[a] = 1..n /\ DOMAIN log'[a] = 1..(n + 1)
               /\ \A b \in Apps \ {a} : log'[b] = log[b] /\ live'[b] = live[b]
               /\ \A i \in DOMAIN log[a] : log'[a][i] = log[a][i]
               /\ live'[a] = live[a] \cup {n + 1}
               /\ log'[a][n + 1].previous_hash = latest[r]
               /\ log'[a][n + 1].external_id = Item(r).event_id
               /\ now <= log'[a][n + 1].received_at
               /\ log'[a][n + 1].received_at <= now + MaxSkew
               /\ now' = now + 1
<1> DEFINE a == App(r)
           n == Len(log[a])
<1>1. PICK t \in Nat :
        /\ now <= t /\ t <= now + MaxSkew
        /\ NewEvent(Item(r), latest[r], t) \in Events
        /\ log' = [log EXCEPT ![a] = Append(@, NewEvent(Item(r), latest[r], t))]
  BY InsertEffect
<1> DEFINE e == NewEvent(Item(r), latest[r], t)
<1>2. a \in Apps /\ live' = [live EXCEPT ![a] = @ \cup {Len(log[a]) + 1}] /\ now' = now + 1
  BY InsertEffect
<1>3. e.received_at = t /\ e.previous_hash = latest[r] /\ e.external_id = Item(r).event_id
  BY DEF NewEvent
<1>4. log \in [Apps -> Seq(Events)] /\ live \in [Apps -> SUBSET Nat]
  BY DEF TypeInv, TypeOK, StoreTypeOK
<1>5. log'[a] = Append(log[a], e) /\ \A b \in Apps \ {a} : log'[b] = log[b]
  BY <1>1, <1>2, <1>4 DEF e
<1>6. \A b \in Apps \ {a} : live'[b] = live[b]
  BY <1>2, <1>4
<1>7. live'[a] = live[a] \cup {n + 1}
  BY <1>2, <1>4
<1>8. e \in Events
  BY <1>1
<1> HIDE DEF e, a
<1>9. /\ n \in Nat /\ DOMAIN log[a] = 1..n /\ DOMAIN log'[a] = 1..(n + 1)
      /\ \A i \in DOMAIN log[a] : log'[a][i] = log[a][i]
      /\ log'[a][n + 1] = e
  BY <1>2, <1>4, <1>5, <1>8
<1> QED  BY <1>1, <1>2, <1>3, <1>5, <1>6, <1>7, <1>9 DEF a

\* The commit of a run removes the ids it has pending, and nothing else.
LEMMA CommitRows ==
    ASSUME TypeInv, NEW k \in Runs, CommitRun(k), NEW a \in Apps
    PROVE  \/ live'[a] = live[a] /\ checkpoint'[a] = checkpoint[a]
           \/ /\ uncommitted[a] # None
              /\ live'[a] = live[a] \ uncommitted[a].ids
              /\ checkpoint'[a] = uncommitted[a].checkpoint
              /\ checkpoint'[a] # None
              /\ uncommitted'[a] = None
<1>1. CASE ~Wrote(k, a)
  BY <1>1 DEF CommitRun
<1>2. CASE Wrote(k, a)
  <2>1. uncommitted[a] # None /\ uncommitted[a].checkpoint \in Checkpoints
    BY <1>2 DEF Wrote, TypeInv, TypeOK, RetentionTypeOK, Writes
  <2> QED  BY <1>2, <2>1, NoneAssumption DEF CommitRun, Rollback
<1> QED  BY <1>1, <1>2

-----------------------------------------------------------------------------
(* One row per external id.                                                *)

LEMMA OneRowStep ==
    ASSUME TypeInv, OneRowPerExternalId, [Next]_vars
    PROVE  OneRowPerExternalId'
<1> SUFFICES ASSUME NEW b \in Apps, NEW i \in live'[b], NEW j \in live'[b],
                    log'[b][i].external_id = log'[b][j].external_id
             PROVE  i = j
  BY DEF OneRowPerExternalId
<1>1. CASE UNCHANGED <<log, live>>
  BY <1>1 DEF OneRowPerExternalId
<1>2. CASE \E r \in Requests : InsertEvent(r)
  <2>1. PICK r \in Requests : InsertEvent(r)
    BY <1>2
  <2> DEFINE a == App(r)
             n == Len(log[a])
  <2>2. CASE b # a
    BY <2>1, <2>2, InsertRows DEF OneRowPerExternalId
  <2>3. CASE b = a
    <3>1. /\ live[a] \subseteq DOMAIN log[a] /\ n + 1 \notin DOMAIN log[a]
          /\ \A x \in DOMAIN log[a] : log'[a][x] = log[a][x]
          /\ live'[a] = live[a] \cup {n + 1}
          /\ log'[a][n + 1].external_id = Item(r).event_id
      BY <2>1, InsertRows DEF TypeInv, TypeOK, StoreTypeOK
    <3>2. \A x \in live[a] : log[a][x].external_id # Item(r).event_id
      BY <2>1 DEF InsertEvent, NameTaken, RowsNamed
    <3> HIDE DEF a, n
    <3> QED  BY <2>3, <3>1, <3>2 DEF OneRowPerExternalId
  <2> QED  BY <2>2, <2>3
<1>3. CASE \E k \in Runs : CommitRun(k)
  <2>1. live'[b] \subseteq live[b] /\ log' = log
    BY <1>3, CommitRows DEF CommitRun
  <2> QED  BY <2>1 DEF OneRowPerExternalId
<1> QED  BY <1>1, <1>2, <1>3, RowsStep

\* No application ever holds two events with one external id, whatever the
\* interleaving of lookups, locks and inserts (ingest_event).
THEOREM OneRow == Spec => []OneRowPerExternalId
<1>1. Init => OneRowPerExternalId
  BY DEF Init, StoreInit, OneRowPerExternalId
<1>2. TypeInv /\ OneRowPerExternalId /\ [Next]_vars => OneRowPerExternalId'
  BY OneRowStep
<1> QED  BY <1>1, <1>2, TypeInvariance, PTL DEF Spec

-----------------------------------------------------------------------------
(* The anchor names a removed event.                                       *)

\* The anchor of a plan is the hash of a row the plan removes.
PlanAnchored ==
    \A k \in Runs, a \in Apps :
        plan[k][a] # None /\ plan[k][a].ids # {} =>
            \E i \in plan[k][a].ids : log[a][i].event_hash = plan[k][a].anchor_hash

\* The anchor of a pending checkpoint is the hash of a row that is gone, or
\* that goes with the same commit.
WriteAnchored ==
    \A a \in Apps :
        uncommitted[a] # None =>
            \E i \in DOMAIN log[a] :
                /\ i \in uncommitted[a].ids \/ i \notin live[a]
                /\ log[a][i].event_hash = uncommitted[a].checkpoint.anchor_hash

AnchorInv == AnchorNamesRemovedEvent /\ PlanAnchored /\ WriteAnchored

LEMMA PlanForAnchored ==
    ASSUME TypeInv, NEW a \in Apps, NEW c, PlanFor(a, live[a], c).ids # {}
    PROVE  \E i \in PlanFor(a, live[a], c).ids : log[a][i].event_hash = PlanFor(a, live[a], c).anchor_hash
<1> DEFINE expired == contiguous_expired_prefix(a, live[a], c)
<1>1. PlanFor(a, live[a], c) = PlanOf(a, expired, LastOf(a, expired))
  BY DEF PlanFor
<1>2. expired \subseteq DOMAIN log[a]
  BY DEF contiguous_expired_prefix, TypeInv, TypeOK, StoreTypeOK
<1> HIDE DEF expired
<1>3. PlanFor(a, live[a], c).ids = expired
  BY <1>1 DEF PlanOf
<1>4. LastOf(a, expired) \in expired
  BY <1>2, <1>3, LastOfIsLast DEF TypeInv, TypeOK
<1> QED  BY <1>1, <1>3, <1>4 DEF PlanOf

\* A row that exists keeps its content, and a row that is gone stays gone.
LEMMA RowsKept ==
    ASSUME TypeInv, [Next]_vars, NEW a \in Apps, NEW i \in DOMAIN log[a]
    PROVE  /\ i \in DOMAIN log'[a] /\ log'[a][i] = log[a][i]
           /\ i \notin live[a] => i \notin live'[a]
<1>1. CASE UNCHANGED <<log, live>>
  BY <1>1
<1>2. CASE \E r \in Requests : InsertEvent(r)
  <2>1. PICK r \in Requests : InsertEvent(r)
    BY <1>2
  <2> DEFINE b == App(r)
             n == Len(log[b])
  <2>2. /\ n \in Nat /\ DOMAIN log[b] = 1..n /\ DOMAIN log'[b] = 1..(n + 1)
        /\ \A c \in Apps \ {b} : log'[c] = log[c] /\ live'[c] = live[c]
        /\ \A j \in DOMAIN log[b] : log'[b][j] = log[b][j]
        /\ live'[b] = live[b] \cup {n + 1}
    BY <2>1, InsertRows
  <2> HIDE DEF b, n
  <2> QED  BY <2>2
<1>3. CASE \E k \in Runs : CommitRun(k)
  BY <1>3, CommitRows DEF CommitRun
<1> QED  BY <1>1, <1>2, <1>3, RowsStep

LEMMA PlanAnchoredStep ==
    ASSUME TypeInv, PlanAnchored, [Next]_vars
    PROVE  PlanAnchored'
<1> SUFFICES ASSUME NEW k \in Runs, NEW a \in Apps, plan'[k][a] # None, plan'[k][a].ids # {}
             PROVE  \E i \in plan'[k][a].ids : log'[a][i].event_hash = plan'[k][a].anchor_hash
  BY DEF PlanAnchored
<1>1. CASE plan'[k][a] = plan[k][a]
  <2>1. PICK i \in plan[k][a].ids : log[a][i].event_hash = plan[k][a].anchor_hash
    BY <1>1 DEF PlanAnchored
  <2>2. i \in DOMAIN log[a]
    BY <1>1 DEF TypeInv, PlansNamed
  <2> QED  BY <1>1, <2>1, <2>2, RowsKept
<1>2. CASE plan'[k][a] = PlanFor(a, live[a], cutoff[k]) /\ UNCHANGED log
  BY <1>2, PlanForAnchored
<1> QED  BY <1>1, <1>2, PlanStep

LEMMA WriteAnchoredStep ==
    ASSUME TypeInv, AnchorInv, [Next]_vars
    PROVE  WriteAnchored'
<1> SUFFICES ASSUME NEW a \in Apps, uncommitted'[a] # None
             PROVE  \E i \in DOMAIN log'[a] :
                       /\ i \in uncommitted'[a].ids \/ i \notin live'[a]
                       /\ log'[a][i].event_hash = uncommitted'[a].checkpoint.anchor_hash
  BY DEF WriteAnchored
<1>1. CASE uncommitted'[a] = uncommitted[a]
  <2>1. PICK i \in DOMAIN log[a] :
           /\ i \in uncommitted[a].ids \/ i \notin live[a]
           /\ log[a][i].event_hash = uncommitted[a].checkpoint.anchor_hash
    BY <1>1 DEF AnchorInv, WriteAnchored
  <2> QED  BY <1>1, <2>1, RowsKept
<1>2. ASSUME NEW k \in Runs,
             loaded[k] # None, loaded[k].app = a,
             uncommitted'[a].ids = Deleted(k, a),
             uncommitted'[a].checkpoint =
                     IF loaded[k].row = None THEN NewCheckpoint(k)
                     ELSE Flushed(checkpoint[a], loaded[k].row, NewCheckpoint(k)),
             UNCHANGED <<log, live, checkpoint>>
      PROVE  \E i \in DOMAIN log'[a] :
                       /\ i \in uncommitted'[a].ids \/ i \notin live'[a]
                       /\ log'[a][i].event_hash = uncommitted'[a].checkpoint.anchor_hash
  <2>1. /\ plan[k][a] # None /\ plan[k][a].ids # {}
        /\ loaded[k].row # None => checkpoint[a] # None
    BY <1>2 DEF TypeInv, LoadedPlanned
  <2>2. PICK i \in plan[k][a].ids : log[a][i].event_hash = plan[k][a].anchor_hash
    BY <2>1 DEF AnchorInv, PlanAnchored
  <2>3. i \in DOMAIN log[a] /\ i \in uncommitted'[a].ids
    BY <1>2, <2>1, <2>2 DEF TypeInv, PlansNamed, Deleted
  <2>4. NewCheckpoint(k).anchor_hash = plan[k][a].anchor_hash
    BY <1>2 DEF NewCheckpoint
  <2>5. CASE uncommitted'[a].checkpoint.anchor_hash = plan[k][a].anchor_hash
    BY <1>2, <2>2, <2>3, <2>5
  <2>6. CASE /\ loaded[k].row # None
             /\ uncommitted'[a].checkpoint.anchor_hash = checkpoint[a].anchor_hash
    <3>1. PICK j \in DOMAIN log[a] \ live[a] : log[a][j].event_hash = checkpoint[a].anchor_hash
      BY <2>1, <2>6 DEF AnchorInv, AnchorNamesRemovedEvent
    <3> QED  BY <1>2, <2>6, <3>1
  <2>7. checkpoint[a] # None => "anchor_hash" \in DOMAIN checkpoint[a]
    BY DEF TypeInv, TypeOK, StoreTypeOK, Checkpoints
  <2>8. CASE loaded[k].row # None
    BY <1>2, <2>1, <2>4, <2>5, <2>6, <2>7, <2>8 DEF Flushed
  <2> QED  BY <1>2, <2>4, <2>5, <2>8
<1> QED  BY <1>1, <1>2, WriteStep

LEMMA AnchorStep ==
    ASSUME TypeInv, AnchorInv, [Next]_vars
    PROVE  AnchorNamesRemovedEvent'
<1> SUFFICES ASSUME NEW a \in Apps
             PROVE  IF checkpoint'[a] = None THEN live'[a] = DOMAIN log'[a]
                    ELSE \E i \in DOMAIN log'[a] \ live'[a] :
                            log'[a][i].event_hash = checkpoint'[a].anchor_hash
  BY DEF AnchorNamesRemovedEvent
<1>1. CASE checkpoint'[a] = checkpoint[a] /\ checkpoint[a] # None
  BY <1>1, RowsKept DEF AnchorInv, AnchorNamesRemovedEvent
<1>2. CASE checkpoint'[a] = checkpoint[a] /\ checkpoint[a] = None
  <2>1. live[a] = DOMAIN log[a]
    BY <1>2 DEF AnchorInv, AnchorNamesRemovedEvent
  <2>2. CASE UNCHANGED <<log, live>>
    BY <1>2, <2>1, <2>2
  <2>3. CASE \E r \in Requests : InsertEvent(r)
    <3>1. PICK r \in Requests : InsertEvent(r)
      BY <2>3
    <3> DEFINE b == App(r)
               n == Len(log[b])
    <3>2. /\ n \in Nat /\ DOMAIN log[b] = 1..n /\ DOMAIN log'[b] = 1..(n + 1)
          /\ \A c \in Apps \ {b} : log'[c] = log[c] /\ live'[c] = live[c]
          /\ live'[b] = live[b] \cup {n + 1}
      BY <3>1, InsertRows
    <3> HIDE DEF b, n
    <3>3. (1..n) \cup {n + 1} = 1..(n + 1)
      BY <3>2
    <3> QED  BY <1>2, <2>1, <3>2, <3>3
  <2>4. CASE \E k \in Runs : CommitRun(k)
    BY <1>2, <2>1, <2>4, CommitRows DEF CommitRun
  <2> QED  BY <2>2, <2>3, <2>4, RowsStep
<1>3. CASE checkpoint'[a] # checkpoint[a]
  <2>1. PICK k \in Runs : CommitRun(k)
    BY <1>3, RowsStep
  <2>2. /\ uncommitted[a] # None /\ live'[a] = live[a] \ uncommitted[a].ids
        /\ checkpoint'[a] = uncommitted[a].checkpoint /\ checkpoint'[a] # None /\ log' = log
    BY <1>3, <2>1, CommitRows DEF CommitRun
  <2>3. PICK i \in DOMAIN log[a] :
           /\ i \in uncommitted[a].ids \/ i \notin live[a]
           /\ log[a][i].event_hash = uncommitted[a].checkpoint.anchor_hash
    BY <2>2 DEF AnchorInv, WriteAnchored
  <2> QED  BY <2>2, <2>3
<1> QED  BY <1>1, <1>2, <1>3

\* However runs overlap, whatever the clocks, crashes and deadlocks: an
\* application has a checkpoint as soon as something was removed, and its
\* anchor is the hash of a removed event (execute_retention).
THEOREM AnchorCorrect == Spec => []AnchorNamesRemovedEvent
<1>1. Init => AnchorInv
  BY DEF Init, StoreInit, RetentionInit, Unplanned, AnchorInv, AnchorNamesRemovedEvent,
         PlanAnchored, WriteAnchored
<1>2. TypeInv /\ AnchorInv /\ [Next]_vars => AnchorInv'
  BY AnchorStep, PlanAnchoredStep, WriteAnchoredStep DEF AnchorInv
<1>3. AnchorInv => AnchorNamesRemovedEvent
  BY DEF AnchorInv
<1> QED  BY <1>1, <1>2, <1>3, TypeInvariance, PTL DEF Spec


-----------------------------------------------------------------------------
(* What clients are told.                                                  *)

\* The part of OutcomesAreTrue that speaks of one request.
ToldTruth(r) ==
    /\ \A n \in AnsweredItems(r) :
        LET outcome == results[r][n]
        IN  IF outcome.status = "rejected" THEN Contradicted(r, n)
            ELSE /\ outcome.stored \in DOMAIN log[App(r)]
                 /\ log[App(r)][outcome.stored].content_hash = content_digest(ItemOf(r, n))
    /\ response[r] = "conflict" => Contradicted(r, Len(results[r]) + 1)

\* A request that has committed a row and not reported it yet knows a row
\* with the content of its item.
Created(r) ==
    /\ stored[r] \in DOMAIN log[App(r)]
    /\ log[App(r)][stored[r]].content_hash = content_digest(Item(r))

TruthOf(r) ==
    /\ phase[r] # "idle" => request[r] \in RequestsReceived
    /\ phase[r] # "answered" => response[r] = "none"
    /\ phase[r] = "refresh" => Created(r)
    /\ ToldTruth(r)

\* Whose request a step advances, and how.
LEMMA RequestMoves ==
    ASSUME TypeInv, [Next]_vars, NEW r \in Requests
    PROVE  \/ /\ phase'[r] = phase[r] /\ request'[r] = request[r] /\ stored'[r] = stored[r]
              /\ results'[r] = results[r] /\ response'[r] = response[r]
           \/ \E a \in Apps, post \in Posts : Receive(r, a, post)
           \/ RequestStep(r)
           \/ AbortRequest(r, "lost")
<1>1. /\ phase \in [Requests -> Phases] /\ results \in [Requests -> Seq(Outcomes)]
      /\ response \in [Requests -> Responses] /\ stored \in [Requests -> Nat]
      /\ request \in [Requests -> RequestsReceived \cup {None}]
  BY DEF TypeInv, TypeOK, IngestionTypeOK
<1> DEFINE Same ==
        /\ phase'[r] = phase[r] /\ request'[r] = request[r] /\ stored'[r] = stored[r]
        /\ results'[r] = results[r] /\ response'[r] = response[r]
<1>2. CASE UNCHANGED ingestionVars
  BY <1>2 DEF ingestionVars
<1>3. ASSUME NEW q \in Requests, q # r,
             \/ \E a \in Apps, post \in Posts : Receive(q, a, post)
             \/ RequestStep(q)
             \/ AbortRequest(q, "lost")
      PROVE  Same
  BY <1>1, <1>3
  DEF RequestStep, Receive, LookupExisting, LockApplication, ReadLatest, InsertEvent,
      InsertViolatesUnique, RefreshEvent, AbortRequest, Report, Answer
<1>4. CASE \E q \in Requests : RequestNext(q)
  BY <1>3, <1>4 DEF RequestNext
<1>5. CASE Crash
  BY <1>2, <1>3, <1>5 DEF Crash
<1> QED
  BY <1>2, <1>4, <1>5 DEF Next, RunNext, AdminNext, VerifierNext, vars

\* What was true of the rows stays true: rows are never altered.
LEMMA TruthKept ==
    ASSUME TypeInv, [Next]_vars, NEW r \in Requests, TruthOf(r), phase[r] # "idle",
           request'[r] = request[r], results'[r] = results[r],
           response'[r] = "conflict" => response[r] = "conflict"
    PROVE  /\ ToldTruth(r)'
           /\ Created(r) /\ stored'[r] = stored[r] => Created(r)'
<1>1. App(r) \in Apps /\ App(r)' = App(r)
  BY DEF TruthOf, App, RequestsReceived
<1>2. \A i \in DOMAIN log[App(r)] :
        i \in DOMAIN log'[App(r)] /\ log'[App(r)][i] = log[App(r)][i]
  BY <1>1, RowsKept
<1>3. \A n : Contradicted(r, n) => Contradicted(r, n)'
  BY <1>1, <1>2 DEF Contradicted, ItemOf
<1>4. ToldTruth(r)'
  BY <1>1, <1>2, <1>3 DEF TruthOf, ToldTruth, AnsweredItems, ItemOf
<1>5. Created(r) /\ stored'[r] = stored[r] => Created(r)'
  BY <1>1, <1>2 DEF Created, Item
<1> QED  BY <1>4, <1>5

\* A report adds one outcome; it is true if it is true of the rows.
LEMMA TruthReported ==
    ASSUME TypeInv, [Next]_vars, NEW r \in Requests, TruthOf(r),
           phase[r] \notin {"idle", "answered"},
           NEW status \in {"accepted", "duplicate", "rejected"}, NEW position \in Nat,
           Report(r, status, position), request'[r] = request[r], UNCHANGED log,
           IF status = "rejected" THEN Contradicted(r, Len(results[r]) + 1)
           ELSE /\ position \in DOMAIN log[App(r)]
                /\ log[App(r)][position].content_hash = content_digest(Item(r))
    PROVE  TruthOf(r)'
<1> DEFINE m == Len(results[r]) + 1
           o == [status |-> status, stored |-> position]
<1>1. /\ results \in [Requests -> Seq(Outcomes)] /\ response \in [Requests -> Responses]
      /\ phase \in [Requests -> Phases]
  BY DEF TypeInv, TypeOK, IngestionTypeOK
<1>2. o \in Outcomes
  BY DEF Outcomes
<1>3. results'[r] = Append(results[r], o)
  BY <1>1 DEF Report
<1>4. /\ DOMAIN results'[r] = DOMAIN results[r] \cup {m} /\ results'[r][m] = o
      /\ \A n \in DOMAIN results[r] : results'[r][n] = results[r][n]
  <2> HIDE DEF o
  <2>1. results[r] \in Seq(Outcomes)
    BY <1>1
  <2> QED  BY <1>2, <1>3, <2>1
<1>5. response'[r] \in {"ok", response[r]} /\ phase'[r] \in {"answered", "lookup"}
  BY <1>1 DEF Report
<1>6. \A n : Contradicted(r, n)' = Contradicted(r, n)
  BY DEF Contradicted, ItemOf, App
<1>7. ASSUME NEW n \in DOMAIN results'[r]
      PROVE  IF results'[r][n].status = "rejected" THEN Contradicted(r, n)'
             ELSE /\ results'[r][n].stored \in DOMAIN log'[App(r)']
                  /\ log'[App(r)'][results'[r][n].stored].content_hash = content_digest(ItemOf(r, n)')
  <2>1. CASE n = m
    BY <1>4, <1>6, <2>1 DEF ItemOf, Item, App
  <2>2. CASE n \in DOMAIN results[r]
    BY <1>4, <1>6, <2>2 DEF TruthOf, ToldTruth, AnsweredItems, ItemOf, App
  <2> QED  BY <1>4, <2>1, <2>2
<1>8. response[r] = "none"
  BY DEF TruthOf
<1>9. phase'[r] # "answered" => response'[r] = "none"
  BY <1>1, <1>8 DEF Report
<1> QED  BY <1>5, <1>7, <1>8, <1>9 DEF TruthOf, ToldTruth, AnsweredItems

LEMMA TruthStep ==
    ASSUME TypeInv, [Next]_vars, NEW r \in Requests, TruthOf(r)
    PROVE  TruthOf(r)'
<1> USE DEF storeVars
<1>1. /\ phase \in [Requests -> Phases] /\ results \in [Requests -> Seq(Outcomes)]
      /\ response \in [Requests -> Responses] /\ stored \in [Requests -> Nat]
      /\ request \in [Requests -> RequestsReceived \cup {None}]
  BY DEF TypeInv, TypeOK, IngestionTypeOK
<1>2. CASE /\ phase'[r] = phase[r] /\ request'[r] = request[r] /\ stored'[r] = stored[r]
           /\ results'[r] = results[r] /\ response'[r] = response[r]
  <2>1. CASE phase[r] = "idle"
    <3>1. results[r] = << >> /\ response[r] = "none"
      BY <2>1 DEF TypeInv, InFlight, TruthOf
    <3> QED  BY <1>2, <2>1, <3>1 DEF TruthOf, ToldTruth, AnsweredItems
  <2>2. CASE phase[r] # "idle"
    BY <1>2, <2>2, TruthKept DEF TruthOf
  <2> QED  BY <2>1, <2>2
<1>3. ASSUME NEW a \in Apps, NEW post \in Posts, Receive(r, a, post)
      PROVE  TruthOf(r)'
  <2>1. phase'[r] = "lookup" /\ results'[r] = << >> /\ response'[r] = "none"
    BY <1>1, <1>3 DEF Receive, TypeInv, InFlight, TruthOf
  <2>2. request'[r] \in RequestsReceived
    <3>1. request'[r] = [app |-> a, batch |-> post.batch, items |-> post.items]
      BY <1>1, <1>3 DEF Receive
    <3> QED  BY <3>1, PostsAssumption DEF RequestsReceived
  <2> QED  BY <2>1, <2>2 DEF TruthOf, ToldTruth, AnsweredItems
<1>4. ASSUME phase[r] \notin {"idle", "answered"}, request'[r] = request[r],
             results'[r] = results[r], phase'[r] \notin {"idle", "refresh"},
             \/ response'[r] = response[r] /\ phase'[r] # "answered"
             \/ response'[r] # "conflict" /\ phase'[r] = "answered"
      PROVE  TruthOf(r)'
  BY <1>4, TruthKept DEF TruthOf
<1>5. ASSUME NEW reply \in Responses, Answer(r, reply), reply # "conflict",
             phase[r] \notin {"idle", "answered"}, request'[r] = request[r]
      PROVE  TruthOf(r)'
  BY <1>1, <1>4, <1>5 DEF Answer
<1>6. CASE LookupExisting(r)
  <2> DEFINE existing == RowsNamed(App(r), Item(r).event_id)
  <2>1. phase[r] = "lookup" /\ request' = request /\ UNCHANGED log
    BY <1>6 DEF LookupExisting
  <2>2. App(r) \in Apps
    BY <2>1, ItemType
  <2>3. \A i \in existing : /\ i \in DOMAIN log[App(r)] /\ i \in Nat
                            /\ log[App(r)][i].external_id = Item(r).event_id
    BY <2>2 DEF RowsNamed, TypeInv, TypeOK, StoreTypeOK
  <2>4. ASSUME NEW i \in existing, ~SameContent(log[App(r)][i], Item(r))
        PROVE  Contradicted(r, Len(results[r]) + 1)
    BY <2>3, <2>4 DEF Contradicted, SameContent, ItemOf, Item
  <2>5. CASE phase' = [phase EXCEPT ![r] = "lock"] /\ UNCHANGED <<results, response>>
    BY <1>1, <1>4, <2>1, <2>5
  <2>6. ASSUME NEW i \in existing, SameContent(log[App(r)][i], Item(r)), Report(r, "duplicate", i)
        PROVE  TruthOf(r)'
    BY <2>1, <2>3, <2>6, TruthReported DEF SameContent
  <2>7. ASSUME NEW i \in existing, ~SameContent(log[App(r)][i], Item(r)), Report(r, "rejected", 0)
        PROVE  TruthOf(r)'
    BY <2>1, <2>4, <2>7, TruthReported
  <2>8. ASSUME NEW i \in existing, ~SameContent(log[App(r)][i], Item(r)), Answer(r, "conflict")
        PROVE  TruthOf(r)'
    <3>1. Contradicted(r, Len(results[r]) + 1)
      BY <2>4, <2>8
    <3>2. results' = results /\ phase'[r] = "answered"
      BY <1>1, <2>8 DEF Answer
    <3>3. \A n : Contradicted(r, n)' = Contradicted(r, n)
      BY <2>1 DEF Contradicted, ItemOf, App
    <3>4. ToldTruth(r)'
      BY <2>1, <3>1, <3>2, <3>3 DEF TruthOf, ToldTruth, AnsweredItems, ItemOf, App
    <3> QED  BY <2>1, <3>2, <3>4 DEF TruthOf
  <2> QED  BY <1>6, <2>5, <2>6, <2>7, <2>8 DEF LookupExisting
<1>7. CASE LockApplication(r) \/ ReadLatest(r)
  BY <1>1, <1>4, <1>7 DEF LockApplication, ReadLatest
<1>8. CASE InsertEvent(r)
  <2> DEFINE n == Len(log[App(r)])
  <2>1. /\ phase[r] = "insert" /\ phase'[r] = "refresh" /\ stored'[r] = n + 1
        /\ request' = request /\ results' = results /\ response' = response
    BY <1>1, <1>8 DEF InsertEvent
  <2>2. PICK t \in Nat :
          /\ NewEvent(Item(r), latest[r], t) \in Events
          /\ log' = [log EXCEPT ![App(r)] = Append(@, NewEvent(Item(r), latest[r], t))]
    BY <1>8, InsertEffect
  <2>3. App(r) \in Apps /\ log[App(r)] \in Seq(Events)
    BY <1>8, InsertEffect DEF TypeInv, TypeOK, StoreTypeOK
  <2> DEFINE e == NewEvent(Item(r), latest[r], t)
  <2>4. log'[App(r)] = Append(log[App(r)], e)
    BY <2>2, <2>3 DEF TypeInv, TypeOK, StoreTypeOK
  <2>5. e.content_hash = content_digest(Item(r)) /\ e \in Events
    BY <2>2 DEF NewEvent
  <2>6. n + 1 \in DOMAIN log'[App(r)] /\ log'[App(r)][n + 1] = e
    <3> HIDE DEF e
    <3> QED  BY <2>3, <2>4, <2>5
  <2> HIDE DEF e, n
  <2>7. Created(r)'
    BY <2>1, <2>5, <2>6 DEF Created, App, Item
  <2>8. ToldTruth(r)'
    BY <2>1, TruthKept
  <2> QED  BY <2>1, <2>7, <2>8 DEF TruthOf
<1>9. CASE InsertViolatesUnique(r)
  BY <1>5, <1>9 DEF InsertViolatesUnique, Responses
<1>10. CASE RefreshEvent(r)
  <2>1. phase[r] = "refresh" /\ request' = request /\ UNCHANGED log
    BY <1>10 DEF RefreshEvent
  <2>2. CASE Report(r, "accepted", stored[r])
    BY <1>1, <2>1, <2>2, TruthReported DEF TruthOf, Created
  <2>3. CASE Answer(r, "error")
    BY <1>5, <2>1, <2>3 DEF Responses
  <2> QED  BY <1>10, <2>2, <2>3 DEF RefreshEvent
<1>11. CASE AbortRequest(r, "lost")
  BY <1>5, <1>11 DEF AbortRequest, Responses
<1> QED
  BY <1>2, <1>3, <1>6, <1>7, <1>8, <1>9, <1>10, <1>11, RequestMoves DEF RequestStep

LEMMA TruthInvariance == Spec => [](\A r \in Requests : TruthOf(r))
<1>1. Init => \A r \in Requests : TruthOf(r)
  BY DEF Init, IngestionInit, TruthOf, ToldTruth, AnsweredItems
<1>2. TypeInv /\ (\A r \in Requests : TruthOf(r)) /\ [Next]_vars
        => (\A r \in Requests : TruthOf(r))'
  BY TruthStep
<1> QED  BY <1>1, <1>2, TypeInvariance, PTL DEF Spec

\* What create_event and create_event_batch tell a client is true of the
\* trail, whatever else happens to it: rows are matched, rejected and created
\* by content, and no committed row is altered.
THEOREM OutcomesCorrect == Spec => []OutcomesAreTrue
<1>1. (\A r \in Requests : TruthOf(r)) => OutcomesAreTrue
  BY DEF TruthOf, ToldTruth, OutcomesAreTrue
<1> QED  BY <1>1, TruthInvariance, PTL

-----------------------------------------------------------------------------
(* Who created a row.                                                      *)

\* Item n of r has created the row at p, and has been told so or will be.
Claims(r, n, p) ==
    \/ /\ n \in AnsweredItems(r) /\ results[r][n].status = "accepted"
       /\ p = results[r][n].stored
    \/ phase[r] = "refresh" /\ n = Len(results[r]) + 1 /\ p = stored[r]

ClaimsDiffer ==
    \A r, q \in Requests : \A n, m, p \in Nat :
        App(r) = App(q) /\ Claims(r, n, p) /\ Claims(q, m, p) => r = q /\ n = m

\* A claim is about a committed row.
LEMMA ClaimedRow ==
    ASSUME TypeInv, NEW r \in Requests, TruthOf(r), NEW n, NEW p, Claims(r, n, p)
    PROVE  p \in DOMAIN log[App(r)] /\ phase[r] # "idle" /\ App(r) \in Apps
<1>1. phase[r] # "idle"
  BY DEF Claims, AnsweredItems, TypeInv, InFlight
<1> QED  BY <1>1 DEF Claims, TruthOf, ToldTruth, Created, App, RequestsReceived

\* Only an INSERT makes a new claim: its report claims what it claimed.
LEMMA ClaimStep ==
    ASSUME TypeInv, [Next]_vars, NEW r \in Requests, TruthOf(r),
           NEW n, NEW p, Claims(r, n, p)'
    PROVE  /\ App(r)' = App(r)
           /\ \/ Claims(r, n, p)
              \/ InsertEvent(r) /\ n = Len(results[r]) + 1 /\ p = Len(log[App(r)]) + 1
<1>1. /\ phase \in [Requests -> Phases] /\ results \in [Requests -> Seq(Outcomes)]
      /\ stored \in [Requests -> Nat] /\ request \in [Requests -> RequestsReceived \cup {None}]
  BY DEF TypeInv, TypeOK, IngestionTypeOK
<1>2. CASE /\ phase'[r] = phase[r] /\ request'[r] = request[r] /\ stored'[r] = stored[r]
           /\ results'[r] = results[r]
  BY <1>2 DEF Claims, AnsweredItems, App
<1>3. ASSUME NEW a \in Apps, NEW post \in Posts, Receive(r, a, post)
      PROVE  FALSE
  <2>1. phase'[r] = "lookup" /\ results'[r] = << >>
    BY <1>1, <1>3 DEF Receive, TypeInv, InFlight
  <2> QED  BY <2>1 DEF Claims, AnsweredItems
<1>4. ASSUME phase'[r] # "refresh", results' = results, request' = request
      PROVE  App(r)' = App(r) /\ Claims(r, n, p)
  BY <1>4 DEF Claims, AnsweredItems, App
<1>5. ASSUME NEW status \in {"accepted", "duplicate", "rejected"}, NEW position \in Nat,
             Report(r, status, position), request' = request,
             status = "accepted" => phase[r] = "refresh" /\ position = stored[r]
      PROVE  App(r)' = App(r) /\ Claims(r, n, p)
  <2> DEFINE o == [status |-> status, stored |-> position]
  <2>1. o \in Outcomes /\ results'[r] = Append(results[r], o)
    BY <1>1, <1>5 DEF Outcomes, Report
  <2>2. /\ DOMAIN results'[r] = DOMAIN results[r] \cup {Len(results[r]) + 1}
        /\ results'[r][Len(results[r]) + 1] = o
        /\ \A i \in DOMAIN results[r] : results'[r][i] = results[r][i]
    <3> HIDE DEF o
    <3>1. results[r] \in Seq(Outcomes)
      BY <1>1
    <3> QED  BY <2>1, <3>1
  <2>3. phase'[r] # "refresh"
    BY <1>1, <1>5 DEF Report
  <2>4. n \in DOMAIN results'[r] /\ results'[r][n].status = "accepted" /\ p = results'[r][n].stored
    BY <2>3 DEF Claims, AnsweredItems
  <2>5. CASE n \in DOMAIN results[r]
    BY <1>5, <2>2, <2>4, <2>5 DEF Claims, AnsweredItems, App
  <2>6. CASE n = Len(results[r]) + 1
    BY <1>5, <2>2, <2>4, <2>6 DEF Claims, App
  <2> QED  BY <2>2, <2>4, <2>5, <2>6
<1>6. CASE LookupExisting(r)
  <2>1. \A i \in RowsNamed(App(r), Item(r).event_id) : i \in Nat
    <3>1. App(r) \in Apps
      BY <1>6, ItemType DEF LookupExisting
    <3> QED  BY <3>1 DEF RowsNamed, TypeInv, TypeOK, StoreTypeOK
  <2>2. request' = request
    BY <1>6 DEF LookupExisting
  <2>3. CASE phase'[r] = "lock" /\ results' = results
    BY <1>4, <2>2, <2>3
  <2>4. ASSUME NEW i \in RowsNamed(App(r), Item(r).event_id), Report(r, "duplicate", i)
        PROVE  App(r)' = App(r) /\ Claims(r, n, p)
    BY <1>5, <2>1, <2>2, <2>4
  <2>5. CASE Report(r, "rejected", 0)
    BY <1>5, <2>2, <2>5
  <2>6. CASE Answer(r, "conflict")
    BY <1>1, <1>4, <2>2, <2>6 DEF Answer
  <2> QED  BY <1>1, <1>6, <2>3, <2>4, <2>5, <2>6 DEF LookupExisting
<1>7. CASE InsertEvent(r)
  <2>1. /\ phase'[r] = "refresh" /\ stored'[r] = Len(log[App(r)]) + 1
        /\ results' = results /\ request' = request
    BY <1>1, <1>7 DEF InsertEvent
  <2> QED  BY <1>7, <2>1 DEF Claims, AnsweredItems, App
<1>8. CASE RefreshEvent(r)
  <2>1. phase[r] = "refresh" /\ request' = request
    BY <1>8 DEF RefreshEvent
  <2>2. CASE Report(r, "accepted", stored[r])
    BY <1>1, <1>5, <2>1, <2>2
  <2>3. CASE Answer(r, "error")
    BY <1>1, <1>4, <2>1, <2>3 DEF Answer
  <2> QED  BY <1>8, <2>2, <2>3 DEF RefreshEvent
<1>9. CASE LockApplication(r) \/ ReadLatest(r) \/ InsertViolatesUnique(r) \/ AbortRequest(r, "lost")
  BY <1>1, <1>4, <1>9 DEF LockApplication, ReadLatest, InsertViolatesUnique, AbortRequest, Answer
<1> QED  BY <1>2, <1>3, <1>6, <1>7, <1>8, <1>9, RequestMoves DEF RequestStep

LEMMA ClaimsStep ==
    ASSUME TypeInv, \A r \in Requests : TruthOf(r), ClaimsDiffer, [Next]_vars
    PROVE  ClaimsDiffer'
<1> SUFFICES ASSUME NEW r \in Requests, NEW q \in Requests, NEW n \in Nat, NEW m \in Nat,
                    NEW p \in Nat, App(r)' = App(q)', Claims(r, n, p)', Claims(q, m, p)'
             PROVE  r = q /\ n = m
  BY DEF ClaimsDiffer
<1>1. /\ App(r)' = App(r)
      /\ \/ Claims(r, n, p)
         \/ InsertEvent(r) /\ n = Len(results[r]) + 1 /\ p = Len(log[App(r)]) + 1
  BY ClaimStep
<1>2. /\ App(q)' = App(q)
      /\ \/ Claims(q, m, p)
         \/ InsertEvent(q) /\ m = Len(results[q]) + 1 /\ p = Len(log[App(q)]) + 1
  BY ClaimStep
<1>3. ASSUME NEW x \in Requests, NEW i, Claims(x, i, p), App(x) = App(r)
      PROVE  p # Len(log[App(r)]) + 1
  <2>1. p \in DOMAIN log[App(r)] /\ App(r) \in Apps
    BY <1>3, ClaimedRow
  <2> QED  BY <2>1 DEF TypeInv, TypeOK, StoreTypeOK
<1>4. ASSUME InsertEvent(r), InsertEvent(q)
      PROVE  r = q
  BY <1>4 DEF InsertEvent, TypeInv, TypeOK, IngestionTypeOK
<1> QED  BY <1>1, <1>2, <1>3, <1>4 DEF ClaimsDiffer

\* No two items are told that they created one row: the row is claimed by
\* the INSERT, and a retry finds it by its id or meets the unique constraint.
THEOREM AcceptedByOne == Spec => []AcceptedOnce
<1> DEFINE Truth == \A r \in Requests : TruthOf(r)
<1>1. Init => ClaimsDiffer
  BY DEF Init, IngestionInit, ClaimsDiffer, Claims, AnsweredItems
<1>2. TypeInv /\ Truth /\ ClaimsDiffer /\ [Next]_vars => ClaimsDiffer'
  BY ClaimsStep
<1>3. TypeInv /\ ClaimsDiffer => AcceptedOnce
  <2> SUFFICES ASSUME TypeInv, ClaimsDiffer, NEW r \in Requests, NEW q \in Requests,
                      NEW n \in AnsweredItems(r), NEW m \in AnsweredItems(q),
                      App(r) = App(q),
                      results[r][n].status = "accepted", results[q][m].status = "accepted",
                      results[r][n].stored = results[q][m].stored
               PROVE  r = q /\ n = m
    BY DEF AcceptedOnce
  <2>1. results \in [Requests -> Seq(Outcomes)]
    BY DEF TypeInv, TypeOK, IngestionTypeOK
  <2>2. n \in Nat /\ m \in Nat /\ results[r][n] \in Outcomes
    BY <2>1 DEF AnsweredItems
  <2>3. results[r][n].stored \in Nat
    BY <2>2 DEF Outcomes
  <2> QED  BY <2>2, <2>3 DEF ClaimsDiffer, Claims
<1> HIDE DEF Truth
<1>4. Spec => []Truth
  BY TruthInvariance DEF Truth
<1> QED  BY <1>1, <1>2, <1>3, <1>4, TypeInvariance, PTL DEF Spec

-----------------------------------------------------------------------------
(* The counts of checkpoints.                                              *)

Removed(a) == DOMAIN log[a] \ live[a]

\* What runs have planned for the application and loaded of its checkpoint is
\* still there, and the count one has pending is right once its rows are gone.
CountsOf(a) ==
    /\ \A k \in Runs : plan[k][a] # None => plan[k][a].ids \subseteq live[a]
    /\ \A k \in Runs : loaded[k] # None /\ loaded[k].app = a => loaded[k].row = checkpoint[a]
    /\ uncommitted[a] # None =>
         /\ uncommitted[a].ids \subseteq live[a]
         /\ uncommitted[a].checkpoint.removed_event_count =
              Cardinality(Removed(a)) + Cardinality(uncommitted[a].ids)
    /\ checkpoint[a] # None => checkpoint[a].removed_event_count = Cardinality(Removed(a))

CountInv == \A a \in Apps \ overtaken : CountsOf(a)

LEMMA RemovedFinite ==
    ASSUME TypeInv, NEW a \in Apps
    PROVE  /\ IsFiniteSet(DOMAIN log[a]) /\ live[a] \subseteq DOMAIN log[a]
           /\ Cardinality(Removed(a)) \in Nat /\ IsFiniteSet(Removed(a))
           /\ \A s \in SUBSET live[a] : IsFiniteSet(s) /\ Cardinality(s) \in Nat
<1>1. log[a] \in Seq(Events) /\ live[a] \subseteq DOMAIN log[a]
  BY DEF TypeInv, TypeOK, StoreTypeOK
<1>2. Len(log[a]) \in Nat /\ DOMAIN log[a] = 1..Len(log[a])
  BY <1>1
<1>3. IsFiniteSet(DOMAIN log[a])
  BY <1>2, FS_Interval
<1>4. \A s \in SUBSET DOMAIN log[a] : IsFiniteSet(s) /\ Cardinality(s) \in Nat
  BY <1>3, FS_Subset, FS_CardinalityType
<1>5. Removed(a) \in SUBSET DOMAIN log[a]
  BY DEF Removed
<1> QED  BY <1>1, <1>3, <1>4, <1>5

\* The history only grows, and only by the commit of a run.
LEMMA OvertakenGrows ==
    ASSUME [Next]_vars
    PROVE  \/ overtaken' = overtaken
           \/ \E k \in Runs :
                /\ CommitRun(k)
                /\ overtaken' = overtaken \cup {a \in Apps : Wrote(k, a) /\ PlannedElsewhere(k, a)}
<1> USE DEF retentionVars
<1>1. CASE \E k \in Runs : RunNext(k)
  BY <1>1 DEF RunNext, RunStep, RequestRun, HoldStopsRun, ExecuteRetention, PlanApplication,
              ReadCheckpoint, WriteCheckpoint, CheckpointExists, DeadlockVictim, AbortRun,
              CommitRun, Acknowledge
<1>2. CASE Crash
  BY <1>2 DEF Crash, CrashRun, AbortRun
<1> QED
  BY <1>1, <1>2 DEF Next, RequestNext, AdminNext, PutLoad, PutCommit, VerifierNext, vars

\* Unless the application is overtaken, nothing of it is removed except by the
\* commit of a run that leaves it no plan to remove more, no checkpoint loaded
\* and nothing pending.
LEMMA RemovalStep ==
    ASSUME TypeInv, [Next]_vars, NEW a \in Apps, a \notin overtaken'
    PROVE  \/ /\ Removed(a)' = Removed(a) /\ live[a] \subseteq live'[a]
              /\ checkpoint'[a] = checkpoint[a]
           \/ /\ \A k \in Runs : /\ plan'[k][a] # None => plan'[k][a].ids = {}
                                 /\ loaded'[k] # None => loaded'[k].app # a
              /\ uncommitted'[a] = None
              /\ log' = log
              /\ uncommitted[a] # None
              /\ live'[a] = live[a] \ uncommitted[a].ids
              /\ checkpoint'[a] = uncommitted[a].checkpoint
<1>1. CASE UNCHANGED <<log, live, checkpoint>>
  BY <1>1 DEF Removed
<1>2. CASE \E r \in Requests : InsertEvent(r) /\ UNCHANGED checkpoint
  <2>1. PICK r \in Requests : InsertEvent(r) /\ UNCHANGED checkpoint
    BY <1>2
  <2>2. PICK b \in Apps : b = App(r)
    BY <2>1, InsertRows
  <2>3. PICK n \in Nat :
          /\ DOMAIN log[b] = 1..n /\ DOMAIN log'[b] = 1..(n + 1)
          /\ \A c \in Apps \ {b} : log'[c] = log[c] /\ live'[c] = live[c]
          /\ live'[b] = live[b] \cup {n + 1}
    BY <2>1, <2>2, InsertRows
  <2>4. CASE a # b
    BY <2>1, <2>3, <2>4 DEF Removed
  <2>5. CASE a = b
    <3>1. live[a] \subseteq 1..n
      BY <2>3, <2>5, RemovedFinite
    <3>2. (1..(n + 1)) \ (live[a] \cup {n + 1}) = (1..n) \ live[a]
      BY <3>1
    <3> QED  BY <2>1, <2>3, <2>5, <3>2 DEF Removed
  <2> QED  BY <2>4, <2>5
<1>3. CASE \E k \in Runs : CommitRun(k)
  <2>1. PICK k \in Runs : /\ CommitRun(k)
                          /\ overtaken' = overtaken \cup {b \in Apps : Wrote(k, b) /\ PlannedElsewhere(k, b)}
    BY <1>3 DEF CommitRun
  <2>2. log' = log
    BY <2>1 DEF CommitRun
  <2>3. CASE ~Wrote(k, a)
    BY <2>1, <2>2, <2>3 DEF CommitRun, Removed
  <2>4. CASE Wrote(k, a)
    <3>1. /\ plan \in [Runs -> [Apps -> Plans \cup {None}]]
          /\ loaded \in [Runs -> [app : Apps, row : Checkpoints \cup {None}] \cup {None}]
      BY DEF TypeInv, TypeOK, RetentionTypeOK
    <3>2. \A x \in Runs \ {k} : plan[x][a] # None => plan[x][a].ids = {}
      BY <2>1, <2>4 DEF PlannedElsewhere
    <3>3. /\ plan'[k] = Unplanned /\ loaded'[k] = None
          /\ \A x \in Runs \ {k} : plan'[x] = plan[x] /\ loaded'[x] = loaded[x]
      BY <2>1, <3>1 DEF CommitRun, Reset
    <3>4. \A x \in Runs \ {k} : loaded[x] # None => loaded[x].app # a
      BY <3>2 DEF TypeInv, LoadedPlanned
    <3>5. plan'[k][a] = None
      BY <3>3 DEF Unplanned
    <3>6. uncommitted'[a] = None /\ uncommitted[a] # None
          /\ live'[a] = live[a] \ uncommitted[a].ids /\ checkpoint'[a] = uncommitted[a].checkpoint
      BY <2>1, <2>4 DEF CommitRun, Rollback, Wrote
    <3> QED  BY <2>2, <3>2, <3>3, <3>4, <3>5, <3>6
  <2> QED  BY <2>3, <2>4
<1> QED  BY <1>1, <1>2, <1>3, RowsStep

\* The checkpoint a run has loaded stays, is dropped, or is read.
LEMMA LoadedStep ==
    ASSUME TypeInv, [Next]_vars, NEW k \in Runs, loaded'[k] # None
    PROVE  \/ loaded'[k] = loaded[k]
           \/ loaded'[k].row = checkpoint[loaded'[k].app] /\ UNCHANGED checkpoint
<1> USE DEF storeVars, retentionVars, runVars
<1>1. loaded \in [Runs -> [app : Apps, row : Checkpoints \cup {None}] \cup {None}]
  BY DEF TypeInv, TypeOK, RetentionTypeOK
<1>2. ASSUME NEW j \in Runs, NEW next, Reset(j, next)
      PROVE  loaded'[k] = loaded[k]
  BY <1>1, <1>2 DEF Reset
<1>3. CASE \E j \in Runs : RunNext(j)
  <2>1. PICK j \in Runs : RunNext(j)
    BY <1>3
  <2>2. CASE \E a \in Apps : ReadCheckpoint(j, a)
    BY <1>1, <2>2 DEF ReadCheckpoint
  <2>3. CASE WriteCheckpoint(j)
    BY <1>1, <2>3 DEF WriteCheckpoint
  <2>4. CASE \E next : Reset(j, next)
    BY <1>2, <2>4
  <2> QED
    BY <2>1, <2>2, <2>3, <2>4
    DEF RunNext, RunStep, RequestRun, HoldStopsRun, ExecuteRetention, PlanApplication,
        CheckpointExists, DeadlockVictim, AbortRun, CommitRun, Acknowledge
<1>4. CASE Crash
  BY <1>2, <1>4 DEF Crash, CrashRun, AbortRun
<1> QED
  BY <1>3, <1>4
  DEF Next, RequestNext, AdminNext, PutLoad, PutCommit, VerifierNext, vars

\* The count of a run's checkpoint is that of the row it has loaded plus what
\* it plans to remove.
LEMMA NewCount ==
    ASSUME TypeInv, AnchorNamesRemovedEvent, NEW k \in Runs, loaded[k] # None,
           CountsOf(loaded[k].app)
    PROVE  LET a == loaded[k].app
               new == NewCheckpoint(k)
           IN  /\ a \in Apps
               /\ plan[k][a].ids \subseteq live[a]
               /\ new.removed_event_count = Cardinality(Removed(a)) + Cardinality(plan[k][a].ids)
               /\ loaded[k].row # None =>
                    Flushed(checkpoint[a], loaded[k].row, new).removed_event_count
                      = new.removed_event_count
<1>1. PICK a \in Apps : a = loaded[k].app
  BY WriteType
<1> DEFINE new == NewCheckpoint(k)
<1>2. loaded[k].row = checkpoint[a] /\ plan[k][a] # None /\ plan[k][a].ids \subseteq live[a]
  BY <1>1 DEF CountsOf, TypeInv, LoadedPlanned
<1>3. new.removed_event_count =
        (IF loaded[k].row = None THEN 0 ELSE loaded[k].row.removed_event_count)
          + Cardinality(plan[k][a].ids)
  BY <1>1 DEF NewCheckpoint
<1>4. CASE loaded[k].row = None
  <2>1. Removed(a) = {}
    BY <1>2, <1>4 DEF AnchorNamesRemovedEvent, Removed
  <2> QED  BY <1>1, <1>2, <1>3, <1>4, <2>1, FS_EmptySet
<1>5. CASE loaded[k].row # None
  <2>1. loaded[k].row.removed_event_count = Cardinality(Removed(a))
    BY <1>1, <1>2, <1>5 DEF CountsOf
  <2>2. checkpoint[a] \in Checkpoints
    BY <1>2, <1>5 DEF TypeInv, TypeOK, StoreTypeOK
  <2> HIDE DEF new
  <2>3. Flushed(checkpoint[a], loaded[k].row, new).removed_event_count = new.removed_event_count
    BY <1>2, <2>2 DEF Flushed, Checkpoints
  <2> QED  BY <1>1, <1>2, <1>3, <1>5, <2>1, <2>3 DEF new
<1> QED  BY <1>4, <1>5

\* The size of a union of two sets without a common element.
LEMMA DisjointSize ==
    ASSUME NEW S, NEW T, IsFiniteSet(S), IsFiniteSet(T), S \cap T = {}
    PROVE  /\ IsFiniteSet(S \cup T)
           /\ Cardinality(S \cup T) = Cardinality(S) + Cardinality(T)
<1>1. /\ IsFiniteSet(S \cup T)
      /\ Cardinality(S \cup T) = Cardinality(S) + Cardinality(T) - Cardinality(S \cap T)
  BY FS_Union, Zenon
<1>2. Cardinality(S \cap T) = 0
  BY FS_EmptySet
<1>3. Cardinality(S) \in Nat /\ Cardinality(T) \in Nat
  BY FS_CardinalityType, Zenon
<1> QED  BY <1>1, <1>2, <1>3

LEMMA CountStep ==
    ASSUME TypeInv, TypeInv', AnchorNamesRemovedEvent, CountInv, [Next]_vars
    PROVE  CountInv'
<1> SUFFICES ASSUME NEW a \in Apps, a \notin overtaken'
             PROVE  CountsOf(a)'
  BY DEF CountInv
<1>0. CountsOf(a)
  BY OvertakenGrows DEF CountInv
<1>1. ASSUME NEW k \in Runs, plan'[k][a] # None
      PROVE  plan'[k][a].ids \subseteq live'[a]
  <2>1. live[a] \subseteq live'[a] \/ plan'[k][a].ids = {}
    BY <1>1, RemovalStep
  <2>2. CASE plan'[k][a] = plan[k][a]
    BY <1>0, <1>1, <2>1, <2>2 DEF CountsOf
  <2>3. CASE plan'[k][a] = PlanFor(a, live[a], cutoff[k])
    BY <2>1, <2>3 DEF PlanFor, PlanOf, contiguous_expired_prefix
  <2> QED  BY <1>1, <2>2, <2>3, PlanStep
<1>2. ASSUME uncommitted'[a] # None
      PROVE  /\ uncommitted'[a].ids \subseteq live'[a]
             /\ uncommitted'[a].checkpoint.removed_event_count =
                  Cardinality(Removed(a)') + Cardinality(uncommitted'[a].ids)
  <2>1. live[a] \subseteq live'[a] /\ Removed(a)' = Removed(a)
    BY <1>2, RemovalStep
  <2>2. CASE uncommitted'[a] = uncommitted[a]
    BY <1>0, <1>2, <2>1, <2>2 DEF CountsOf
  <2>3. ASSUME NEW k \in Runs, loaded[k] # None, loaded[k].app = a,
               uncommitted'[a].ids = Deleted(k, a),
               uncommitted'[a].checkpoint =
                  IF loaded[k].row = None THEN NewCheckpoint(k)
                  ELSE Flushed(checkpoint[a], loaded[k].row, NewCheckpoint(k))
        PROVE  /\ uncommitted'[a].ids \subseteq live'[a]
               /\ uncommitted'[a].checkpoint.removed_event_count =
                    Cardinality(Removed(a)') + Cardinality(uncommitted'[a].ids)
    BY <1>0, <2>1, <2>3, NewCount DEF Deleted
  <2> QED  BY <1>2, <2>2, <2>3, WriteStep
<1>3. ASSUME checkpoint'[a] # None
      PROVE  checkpoint'[a].removed_event_count = Cardinality(Removed(a)')
  <2>1. CASE Removed(a)' = Removed(a) /\ checkpoint'[a] = checkpoint[a]
    BY <1>0, <1>3, <2>1 DEF CountsOf
  <2>2. CASE /\ log' = log /\ uncommitted[a] # None
             /\ live'[a] = live[a] \ uncommitted[a].ids
             /\ checkpoint'[a] = uncommitted[a].checkpoint
    <3> DEFINE ids == uncommitted[a].ids
    <3>1. ids \subseteq live[a] /\ live[a] \subseteq DOMAIN log[a]
          /\ checkpoint'[a].removed_event_count = Cardinality(Removed(a)) + Cardinality(ids)
      BY <1>0, <2>2, RemovedFinite DEF CountsOf
    <3>2. Removed(a)' = Removed(a) \cup ids /\ Removed(a) \cap ids = {}
      BY <2>2, <3>1 DEF Removed
    <3>3. /\ IsFiniteSet(Removed(a)) /\ Cardinality(Removed(a)) \in Nat
          /\ IsFiniteSet(ids) /\ Cardinality(ids) \in Nat
      BY <3>1, RemovedFinite
    <3> HIDE DEF ids
    <3>4. Cardinality(Removed(a) \cup ids) = Cardinality(Removed(a)) + Cardinality(ids)
      BY <3>2, <3>3, DisjointSize, Zenon
    <3> QED  BY <3>1, <3>2, <3>4
  <2> QED  BY <2>1, <2>2, RemovalStep
<1>4. ASSUME NEW k \in Runs, loaded'[k] # None, loaded'[k].app = a
      PROVE  loaded'[k].row = checkpoint'[a]
  <2>1. CASE loaded'[k] = loaded[k]
    <3>1. checkpoint'[a] = checkpoint[a]
      BY <1>4, RemovalStep
    <3> QED  BY <1>0, <1>4, <2>1, <3>1 DEF CountsOf
  <2> QED  BY <1>4, <2>1, LoadedStep
<1> QED  BY <1>1, <1>2, <1>3, <1>4 DEF CountsOf, Removed

LEMMA CountInit == Init => CountInv
BY DEF Init, StoreInit, RetentionInit, Unplanned, CountInv, CountsOf

\* Whatever runs overlap, fail, crash or are delivered again, and whatever is
\* inserted meanwhile: the count of a checkpoint is the number of events that
\* are gone, unless a run committed a removal from an application while another
\* had one planned (checkpoint.removed_event_count += len(event_ids) in
\* execute_retention, of a value read before the flush waits for its lock).
THEOREM CountsCorrect == Spec => []CheckpointCountsRemovals
<1>1. TypeInv /\ TypeInv' /\ AnchorNamesRemovedEvent /\ CountInv /\ [Next]_vars => CountInv'
  BY CountStep
<1>2. CountInv => CheckpointCountsRemovals
  BY DEF CountInv, CountsOf, CheckpointCountsRemovals, Removed
<1> QED  BY <1>1, <1>2, CountInit, TypeInvariance, AnchorCorrect, PTL DEF Spec

-----------------------------------------------------------------------------
(* If runs do not overlap, no application is overtaken.                    *)

OneRun == \A j, k \in Runs : j = k

SerialCounts == overtaken = {} /\ CountInv

LEMMA SerialCountsInit == Init => SerialCounts
BY CountInit DEF Init, RetentionInit, SerialCounts

LEMMA SerialCountsStep ==
    ASSUME OneRun, TypeInv, TypeInv', AnchorNamesRemovedEvent, SerialCounts, [Next]_vars
    PROVE  SerialCounts'
<1>1. overtaken' = {}
  BY OvertakenGrows DEF OneRun, PlannedElsewhere, SerialCounts
<1> QED  BY <1>1, CountStep DEF SerialCounts

-----------------------------------------------------------------------------
(* The count of a run's row, if runs do not overlap.                       *)

\* The rows that the plans of some applications name.
PlannedRows(p, s) == UNION {{a} \X p[a].ids : a \in s}

\* Leaving one application out leaves out the rows of its plan.
LEMMA UnionSplit ==
    ASSUME NEW p, NEW s, NEW x \in s, IsFiniteSet(p[x].ids), IsFiniteSet(PlannedRows(p, s \ {x}))
    PROVE  /\ IsFiniteSet(PlannedRows(p, s))
           /\ Cardinality(PlannedRows(p, s)) =
                Cardinality(p[x].ids) + Cardinality(PlannedRows(p, s \ {x}))
<1> DEFINE column == {x} \X p[x].ids
           rest == PlannedRows(p, s \ {x})
<1>1. IsFiniteSet({x}) /\ Cardinality({x}) = 1 /\ Cardinality(p[x].ids) \in Nat
  BY FS_Singleton, FS_CardinalityType
<1>2. IsFiniteSet(column) /\ Cardinality(column) = Cardinality(p[x].ids)
  BY <1>1, FS_Product, SMTT(20)
<1>3. PlannedRows(p, s) = column \cup rest
  BY Zenon DEF PlannedRows
<1>4. column \cap rest = {}
  BY SMT DEF PlannedRows
<1> HIDE DEF column
<1>5. Cardinality(rest) \in Nat
  BY FS_CardinalityType
<1> HIDE DEF rest
<1>6. IsFiniteSet(rest)
  BY DEF rest
<1>7. /\ IsFiniteSet(column \cup rest)
      /\ Cardinality(column \cup rest) = Cardinality(column) + Cardinality(rest)
  BY <1>2, <1>4, <1>6, DisjointSize, Zenon
<1> QED  BY <1>2, <1>3, <1>5, <1>7 DEF rest

\* Finitely many plans name finitely many rows.
LEMMA UnionFinite ==
    ASSUME NEW p, NEW S, IsFiniteSet(S), \A a \in S : IsFiniteSet(p[a].ids)
    PROVE  \A s \in SUBSET S : IsFiniteSet(PlannedRows(p, s))
<1> DEFINE T == {Cardinality(s) : s \in {t \in SUBSET S : ~IsFiniteSet(PlannedRows(p, t))}}
<1> SUFFICES ASSUME T # {}
             PROVE  FALSE
  OBVIOUS
<1>1. T \subseteq Nat
  BY FS_Subset, FS_CardinalityType
<1>2. PICK n \in T : \A m \in T : n <= m
  BY <1>1, LeastNat
<1>3. PICK s \in SUBSET S : n = Cardinality(s) /\ ~IsFiniteSet(PlannedRows(p, s))
  BY <1>2
<1>4. s # {}
  BY <1>3, FS_EmptySet DEF PlannedRows
<1>5. PICK x : x \in s
  BY <1>4
<1>6. IsFiniteSet(s) /\ Cardinality(s) \in Nat
  BY FS_Subset, FS_CardinalityType
<1>7. Cardinality(s \ {x}) = Cardinality(s) - 1
  BY <1>5, <1>6, FS_RemoveElement
<1>8. IsFiniteSet(PlannedRows(p, s \ {x}))
  <2>1. SUFFICES ASSUME ~IsFiniteSet(PlannedRows(p, s \ {x}))
                 PROVE  FALSE
    OBVIOUS
  <2>2. Cardinality(s \ {x}) \in T
    BY <2>1
  <2> HIDE DEF T
  <2>3. n <= Cardinality(s \ {x})
    BY <1>2, <2>2
  <2> QED  BY <1>3, <1>6, <1>7, <2>3
<1> QED  BY <1>3, <1>5, <1>8, UnionSplit

\* The sum of the plans' sizes is the number of rows they name: a least set
\* of applications for which it is not would leave a smaller one.
LEMMA SumOfSizes ==
    ASSUME NEW p, NEW S, IsFiniteSet(S), \A a \in S : IsFiniteSet(p[a].ids)
    PROVE  MapThenSumSet(LAMBDA a : Cardinality(p[a].ids), S) = Cardinality(PlannedRows(p, S))
<1> DEFINE first(s) == CHOOSE x \in s : TRUE
           Sums(it) == it = [s \in SUBSET S |-> IF s = {} THEN 0
                               ELSE Cardinality(p[first(s)].ids) + it[s \ {first(s)}]]
           sizes == [s \in SUBSET S |-> Cardinality(PlannedRows(p, s))]
           sum == CHOOSE it : Sums(it)
<1>1. MapThenSumSet(LAMBDA a : Cardinality(p[a].ids), S) = sum[S]
  BY Zenon DEF MapThenSumSet, MapThenFoldSet
<1>2. \A s \in SUBSET S : s # {} => first(s) \in s
  BY Zenon
<1> HIDE DEF first
<1>3. \A s \in SUBSET S : s # {} =>
        Cardinality(PlannedRows(p, s)) =
            Cardinality(p[first(s)].ids) + Cardinality(PlannedRows(p, s \ {first(s)}))
  BY <1>2, UnionSplit, UnionFinite
<1>4. Cardinality(PlannedRows(p, {})) = 0
  BY FS_EmptySet DEF PlannedRows
<1>5. Sums(sizes)
  BY <1>3, <1>4
<1>6. Sums(sum)
  BY <1>5, Zenon
<1> HIDE DEF sum
<1>7. \A s \in SUBSET S : sum[s] = Cardinality(PlannedRows(p, s))
  <2> DEFINE T == {Cardinality(s) : s \in {t \in SUBSET S : sum[t] # Cardinality(PlannedRows(p, t))}}
  <2> SUFFICES ASSUME T # {}
               PROVE  FALSE
    OBVIOUS
  <2>1. T \subseteq Nat
    BY FS_Subset, FS_CardinalityType
  <2>2. PICK n \in T : \A m \in T : n <= m
    BY <2>1, LeastNat
  <2>3. PICK s \in SUBSET S : n = Cardinality(s) /\ sum[s] # Cardinality(PlannedRows(p, s))
    BY <2>2
  <2>4. s # {}
    BY <1>4, <1>6, <2>3
  <2>5. first(s) \in s
    BY <1>2, <2>4
  <2>6. IsFiniteSet(s) /\ Cardinality(s) \in Nat
    BY FS_Subset, FS_CardinalityType
  <2>7. Cardinality(s \ {first(s)}) = Cardinality(s) - 1
    BY <2>5, <2>6, FS_RemoveElement
  <2>8. sum[s \ {first(s)}] = Cardinality(PlannedRows(p, s \ {first(s)}))
    <3> SUFFICES ASSUME sum[s \ {first(s)}] # Cardinality(PlannedRows(p, s \ {first(s)}))
                 PROVE  FALSE
      OBVIOUS
    <3>1. Cardinality(s \ {first(s)}) \in T
      OBVIOUS
    <3> HIDE DEF T
    <3>2. n <= Cardinality(s \ {first(s)})
      BY <2>2, <3>1
    <3> QED  BY <2>3, <2>6, <2>7, <3>2
  <2>9. sum[s] = Cardinality(p[first(s)].ids) + sum[s \ {first(s)}]
    BY <1>6, <2>4
  <2> QED  BY <1>3, <2>3, <2>4, <2>8, <2>9
<1> QED  BY <1>1, <1>7

\* What a run has pending is what it planned for the application, and the
\* plan is kept until the run's transaction ends.
WritesPlanned ==
    \A k \in Runs, a \in Apps :
        Wrote(k, a) => /\ step[k] = "plan" /\ plan[k][a] # None
                       /\ uncommitted[a].ids = plan[k][a].ids

LEMMA WritesPlannedStep == TypeInv /\ WritesPlanned /\ [Next]_vars => WritesPlanned'
<1> SUFFICES ASSUME TypeInv, WritesPlanned, [Next]_vars, NEW k \in Runs, NEW a \in Apps,
                    Wrote(k, a)'
             PROVE  /\ step'[k] = "plan" /\ plan'[k][a] # None
                    /\ uncommitted'[a].ids = plan'[k][a].ids
  BY DEF WritesPlanned
<1> USE DEF storeVars, retentionVars, runVars
<1>1. /\ uncommitted \in [Apps -> Writes \cup {None}]
      /\ plan \in [Runs -> [Apps -> Plans \cup {None}]]
      /\ step \in [Runs -> Steps]
  BY DEF TypeInv, TypeOK, RetentionTypeOK
<1>2. ASSUME uncommitted'[a] = uncommitted[a]
      PROVE  Wrote(k, a) /\ step[k] = "plan" /\ plan[k][a] # None
             /\ uncommitted'[a].ids = plan[k][a].ids
  BY <1>2 DEF Wrote, WritesPlanned
<1>3. CASE UNCHANGED <<uncommitted, step, plan>>
  BY <1>2, <1>3
<1>4. ASSUME NEW j \in Runs, NEW next, Reset(j, next), Rollback(j)
      PROVE  /\ step'[k] = "plan" /\ plan'[k][a] # None
             /\ uncommitted'[a].ids = plan'[k][a].ids
  <2>1. ~Wrote(j, a) /\ uncommitted'[a] = uncommitted[a]
    BY <1>4 DEF Rollback, Wrote
  <2>2. j # k
    BY <1>2, <2>1
  <2> QED  BY <1>1, <1>2, <1>4, <2>1, <2>2 DEF Reset
<1>5. ASSUME NEW j \in Runs, UNCHANGED uncommitted, step[j] # "plan",
             \A l \in Runs \ {j} : step'[l] = step[l] /\ plan'[l] = plan[l]
      PROVE  /\ step'[k] = "plan" /\ plan'[k][a] # None
             /\ uncommitted'[a].ids = plan'[k][a].ids
  BY <1>2, <1>5
<1>6. CASE \E j \in Runs : RunNext(j)
  <2>1. PICK j \in Runs : RunNext(j)
    BY <1>6
  <2>2. CASE HoldStopsRun(j) \/ ExecuteRetention(j) \/ Acknowledge(j)
             \/ \E mode \in DispatchModes : RequestRun(j, mode)
    <3>1. UNCHANGED uncommitted /\ step[j] # "plan"
      BY <2>2 DEF HoldStopsRun, ExecuteRetention, Acknowledge, RequestRun
    <3>2. \A l \in Runs \ {j} : step'[l] = step[l] /\ plan'[l] = plan[l]
      BY <1>1, <2>2 DEF HoldStopsRun, ExecuteRetention, Acknowledge, RequestRun, Reset
    <3> QED  BY <1>5, <3>1, <3>2
  <2>3. CASE \E b \in Apps : PlanApplication(j, b)
    <3>1. plan[k][a] # None => plan'[k][a] = plan[k][a]
      BY <1>1, <2>3 DEF PlanApplication
    <3> QED  BY <1>2, <2>3, <3>1 DEF PlanApplication
  <2>4. CASE WriteCheckpoint(j)
    <3>1. PICK b \in Apps : b = loaded[j].app /\ step[j] = "plan" /\ plan[j][b] # None
      BY <2>4, WriteType DEF WriteCheckpoint, TypeInv, LoadedPlanned
    <3>2. CASE a = b
      BY <1>1, <2>4, <3>1, <3>2 DEF WriteCheckpoint, Wrote, Deleted
    <3>3. CASE a # b
      BY <1>1, <1>2, <2>4, <3>1, <3>3 DEF WriteCheckpoint
    <3> QED  BY <3>2, <3>3
  <2>5. CASE \E b \in Apps : ReadCheckpoint(j, b)
    BY <1>3, <2>5 DEF ReadCheckpoint
  <2>6. CASE \E next : Reset(j, next) /\ Rollback(j)
    BY <1>4, <2>6
  <2> QED
    BY <2>1, <2>2, <2>3, <2>4, <2>5, <2>6
    DEF RunNext, RunStep, CheckpointExists, DeadlockVictim, AbortRun, CommitRun
<1>7. CASE Crash
  BY <1>3, <1>4, <1>7 DEF Crash, CrashRun, AbortRun, AbortRequest
<1>8. CASE \E r \in Requests : RequestNext(r)
  BY <1>3, <1>8
  DEF RequestNext, RequestStep, Receive, LookupExisting, LockApplication, ReadLatest,
      InsertEvent, InsertViolatesUnique, RefreshEvent
<1> QED
  BY <1>3, <1>6, <1>7, <1>8
  DEF Next, AdminNext, PutLoad, PutCommit, VerifierNext, ReadEvents, ReadCheckpointAndAnswer,
      Tick, vars

\* A commit takes away exactly what the run planned.
LEMMA CommitTakesPlan ==
    ASSUME TypeInv, SerialCounts, WritesPlanned, NEW k \in Runs, CommitRun(k), NEW a \in Apps
    PROVE  live[a] \ live'[a] = plan[k][a].ids /\ IsFiniteSet(plan[k][a].ids)
<1>1. plan[k][a] # None /\ (plan[k][a].ids # {} => Wrote(k, a))
  BY DEF CommitRun, Planned, Remaining
<1>2. plan[k][a].ids \subseteq live[a]
  BY <1>1 DEF SerialCounts, CountInv, CountsOf
<1>3. IsFiniteSet(plan[k][a].ids)
  BY <1>2, RemovedFinite
<1>4. CASE Wrote(k, a)
  <2>1. live'[a] = live[a] \ plan[k][a].ids
    BY <1>4 DEF CommitRun, WritesPlanned
  <2> QED  BY <1>2, <1>3, <2>1
<1>5. CASE ~Wrote(k, a)
  BY <1>1, <1>3, <1>5 DEF CommitRun
<1> QED  BY <1>4, <1>5

\* If runs do not overlap, the row that a run leaves in retention_runs counts
\* the events that are gone with its commit: nothing it planned disappeared
\* or was added before (sum(len(plan.event_ids) ...) in execute_retention).
THEOREM DeletedCountCorrect ==
    ASSUME OneRun, IsFiniteSet(Apps)
    PROVE  Spec => DeletedCountIsTrue
<1> DEFINE gone == UNION {{a} \X (live[a] \ live'[a]) : a \in Apps}
           Counted == \A k \in Runs : CommitRun(k) => RunRow(k).deleted_count = Cardinality(gone)
<1>1. Init => SerialCounts /\ WritesPlanned
  BY SerialCountsInit DEF Init, StoreInit, WritesPlanned, Wrote
<1>2. TypeInv /\ TypeInv' /\ AnchorNamesRemovedEvent /\ SerialCounts /\ WritesPlanned /\ [Next]_vars
        => SerialCounts' /\ WritesPlanned'
  BY SerialCountsStep, WritesPlannedStep
<1>3. ASSUME TypeInv, SerialCounts, WritesPlanned
      PROVE  Counted
  <2> SUFFICES ASSUME NEW k \in Runs, CommitRun(k)
               PROVE  RunRow(k).deleted_count = Cardinality(gone)
    OBVIOUS
  <2>1. \A a \in Apps : live[a] \ live'[a] = plan[k][a].ids /\ IsFiniteSet(plan[k][a].ids)
    BY <1>3, CommitTakesPlan
  <2>2. gone = PlannedRows(plan[k], Apps)
    BY <2>1, Zenon DEF PlannedRows
  <2>3. MapThenSumSet(LAMBDA a : Cardinality(plan[k][a].ids), Apps)
          = Cardinality(PlannedRows(plan[k], Apps))
    BY <2>1, SumOfSizes
  <2>4. RunRow(k).deleted_count = MapThenSumSet(LAMBDA a : Cardinality(plan[k][a].ids), Apps)
    BY Zenon DEF RunRow
  <2> QED  BY <2>2, <2>3, <2>4
<1>4. TypeInv /\ SerialCounts /\ WritesPlanned => [Counted]_vars
  BY <1>3
<1> HIDE DEF Counted
<1>5. Spec => [][Counted]_vars
  BY <1>1, <1>2, <1>4, TypeInvariance, AnchorCorrect, PTL DEF Spec
<1> QED  BY <1>5 DEF DeletedCountIsTrue, Counted

-----------------------------------------------------------------------------
(* What is removed is old.                                                 *)

\* No step sets the clock back.
LEMMA TimePasses ==
    ASSUME TypeInv, [Next]_vars
    PROVE  now' \in Nat /\ now <= now'
<1>1. now \in Nat
  BY DEF TypeInv, TypeOK, StoreTypeOK
<1>2. CASE Tick \/ UNCHANGED now
  BY <1>1, <1>2 DEF Tick
<1>3. CASE \E r \in Requests : InsertEvent(r)
  BY <1>1, <1>3 DEF InsertEvent
<1>4. CASE \E r \in Requests : RequestNext(r)
  BY <1>2, <1>3, <1>4
  DEF RequestNext, RequestStep, Receive, LookupExisting, LockApplication, ReadLatest,
      InsertViolatesUnique, RefreshEvent, storeVars
<1>5. CASE \E k \in Runs : RunNext(k)
  BY <1>2, <1>5
  DEF RunNext, RunStep, RequestRun, HoldStopsRun, ExecuteRetention, PlanApplication,
      ReadCheckpoint, WriteCheckpoint, CheckpointExists, DeadlockVictim, AbortRun,
      CommitRun, Acknowledge, storeVars
<1>6. CASE Crash
  BY <1>2, <1>6 DEF Crash, AbortRequest, CrashRun, AbortRun
<1> QED
  BY <1>2, <1>4, <1>5, <1>6
  DEF Next, AdminNext, PutLoad, PutCommit, VerifierNext, ReadEvents,
      ReadCheckpointAndAnswer, vars, storeVars

Days == {p.retention_days : p \in Policies}

\* Older than some retention period that an administrator may set, by a clock
\* that may be fast.
Old(a, i) == \E d \in Days : log[a][i].occurred_at < now + MaxSkew - d

AgeInv ==
    /\ policy # None => policy.retention_days \in Days
    /\ \A u \in Admins : put[u] # None => put[u].new.retention_days \in Days
    /\ \A k \in Runs :
          /\ seen[k] # None => seen[k].retention_days \in Days
          /\ step[k] = "plan" => \E d \in Days : cutoff[k] <= now + MaxSkew - d
    /\ \A k \in Runs, a \in Apps : plan[k][a] # None => \A i \in plan[k][a].ids : Old(a, i)
    /\ \A a \in Apps :
          uncommitted[a] # None =>
             \A i \in uncommitted[a].ids : i \in DOMAIN log[a] /\ Old(a, i)

LEMMA DaysType == Days \subseteq Nat
BY RetentionAssumption DEF Days

LEMMA RowTime ==
    ASSUME TypeInv, NEW a \in Apps, NEW i \in DOMAIN log[a]
    PROVE  log[a][i].occurred_at \in Int /\ now \in Nat
<1>1. log[a] \in Seq(Events) /\ now \in Nat
  BY DEF TypeInv, TypeOK, StoreTypeOK
<1>2. log[a][i] \in Events
  BY <1>1
<1> QED  BY <1>1, <1>2 DEF Events

\* What is old stays old.
LEMMA OldStays ==
    ASSUME TypeInv, [Next]_vars, NEW a \in Apps, NEW i \in DOMAIN log[a], Old(a, i)
    PROVE  Old(a, i)'
<1>1. now \in Nat /\ now' \in Nat /\ now <= now'
  BY TimePasses DEF TypeInv, TypeOK, StoreTypeOK
<1>2. log'[a][i] = log[a][i]
  BY RowsKept
<1>3. log[a][i].occurred_at \in Int /\ MaxSkew \in Nat
  BY RowTime, ClockAssumption
<1> QED  BY <1>1, <1>2, <1>3, DaysType DEF Old

\* The policy in force, and what a PUT is about to write.
LEMMA PolicyAgeStep ==
    ASSUME TypeInv, AgeInv, [Next]_vars
    PROVE  /\ policy' # None => policy'.retention_days \in Days
           /\ \A u \in Admins : put'[u] # None => put'[u].new.retention_days \in Days
<1> USE DEF storeVars, retentionVars, runVars
<1>1. CASE UNCHANGED <<policy, put>>
  BY <1>1 DEF AgeInv
<1>2. put \in [Admins -> [loaded : PolicyRows \cup {None}, new : PolicyRows] \cup {None}]
  BY DEF TypeInv, TypeOK, RetentionTypeOK
<1>3. CASE \E u \in Admins, new \in Policies : PutLoad(u, new)
  <2>1. PICK u \in Admins, new \in Policies : PutLoad(u, new)
    BY <1>3
  <2>2. new.retention_days \in Days
    BY DEF Days
  <2> QED  BY <1>2, <2>1, <2>2 DEF PutLoad, AgeInv
<1>4. CASE \E u \in Admins : PutCommit(u)
  <2>1. PICK u \in Admins : PutCommit(u)
    BY <1>4
  <2>2. \A x \in Admins : put'[x] # None => put'[x] = put[x]
    BY <1>2, <2>1 DEF PutCommit
  <2>3. CASE policy' \in {policy, put[u].new}
    BY <2>1, <2>2, <2>3 DEF PutCommit, AgeInv
  <2>4. CASE policy' = Flushed(policy, put[u].loaded, put[u].new) /\ put[u].loaded # None
    <3>1. policy # None /\ policy \in PolicyRows
      BY <2>1, <2>4 DEF PutCommit, TypeInv, TypeOK, RetentionTypeOK, PolicyStays
    <3>2. policy'.retention_days \in {policy.retention_days, put[u].new.retention_days}
      BY <2>4, <3>1 DEF Flushed, PolicyRows
    <3> QED  BY <2>1, <2>2, <3>1, <3>2 DEF PutCommit, AgeInv
  <2> QED  BY <2>1, <2>3, <2>4 DEF PutCommit
<1>5. CASE \E k \in Runs : RunNext(k)
  BY <1>1, <1>5
  DEF RunNext, RunStep, RequestRun, HoldStopsRun, ExecuteRetention, PlanApplication,
      ReadCheckpoint, WriteCheckpoint, CheckpointExists, DeadlockVictim, AbortRun,
      CommitRun, Acknowledge
<1>6. CASE Crash
  BY <1>1, <1>6 DEF Crash, AbortRequest, CrashRun, AbortRun
<1> QED
  BY <1>1, <1>3, <1>4, <1>5, <1>6
  DEF Next, RequestNext, AdminNext, VerifierNext, ReadEvents, ReadCheckpointAndAnswer, vars

\* The policy a run has seen, and its cutoff.
LEMMA CutoffStep ==
    ASSUME TypeInv, AgeInv, [Next]_vars, NEW k \in Runs
    PROVE  /\ seen'[k] # None => seen'[k].retention_days \in Days
           /\ step'[k] = "plan" => \E d \in Days : cutoff'[k] <= now' + MaxSkew - d
<1> USE DEF storeVars, retentionVars, runVars
<1>0. /\ seen \in [Runs -> PolicyRows \cup {None}] /\ step \in [Runs -> Steps]
      /\ cutoff \in [Runs -> Int] /\ now \in Nat
  BY DEF TypeInv, TypeOK, RetentionTypeOK, StoreTypeOK
<1>1. CASE seen'[k] = seen[k] /\ (step'[k] = "plan" => step[k] = "plan" /\ cutoff'[k] = cutoff[k])
  <2>1. now' \in Nat /\ now <= now' /\ cutoff[k] \in Int /\ MaxSkew \in Nat
    BY <1>0, TimePasses, ClockAssumption
  <2> QED  BY <1>0, <1>1, <2>1, DaysType DEF AgeInv
<1>2. ASSUME NEW j \in Runs, NEW next \in Steps \ {"plan"}, Reset(j, next)
      PROVE  /\ seen'[k] # None => seen'[k].retention_days \in Days
             /\ step'[k] = "plan" => \E d \in Days : cutoff'[k] <= now' + MaxSkew - d
  <2>1. CASE k = j
    BY <1>0, <1>2, <2>1 DEF Reset
  <2>2. CASE k # j
    BY <1>0, <1>1, <1>2, <2>2 DEF Reset
  <2> QED  BY <2>1, <2>2
<1>3. ASSUME NEW next, next = "start" \/ next = "idle" \/ next = "acknowledge"
      PROVE  next \in Steps \ {"plan"}
  BY <1>3 DEF Steps
<1>4. ASSUME NEW j \in Runs, RunNext(j)
      PROVE  /\ seen'[k] # None => seen'[k].retention_days \in Days
             /\ step'[k] = "plan" => \E d \in Days : cutoff'[k] <= now' + MaxSkew - d
  <2>1. CASE \E mode \in DispatchModes : RequestRun(j, mode)
    <3>1. CASE k = j
      BY <1>0, <2>1, <3>1 DEF RequestRun, AgeInv
    <3>2. CASE k # j
      BY <1>0, <1>1, <2>1, <3>2 DEF RequestRun
    <3> QED  BY <3>1, <3>2
  <2>2. CASE ExecuteRetention(j)
    <3>1. CASE k = j
      <4>1. PICK skew \in 0..MaxSkew : /\ cutoff'[k] = now + skew - PolicyRead(k).retention_days
                                       /\ seen' = seen /\ now' = now
        BY <1>0, <2>2, <3>1 DEF ExecuteRetention
      <4>2. PolicyRead(k).retention_days \in Days
        BY <2>2, <3>1 DEF ExecuteRetention, PolicyRead, AgeInv, TypeInv, PolicyStays
      <4>3. PICK d \in Days : d = PolicyRead(k).retention_days
        BY <4>2
      <4>4. d \in Nat /\ skew \in Nat /\ skew <= MaxSkew /\ MaxSkew \in Nat
            /\ cutoff'[k] = now' + skew - d
        BY <4>1, <4>3, DaysType, ClockAssumption
      <4>5. cutoff'[k] <= now' + MaxSkew - d
        BY <1>0, <4>1, <4>4
      <4> QED  BY <4>1, <4>5 DEF AgeInv
    <3>2. CASE k # j
      BY <1>0, <1>1, <2>2, <3>2 DEF ExecuteRetention
    <3> QED  BY <3>1, <3>2
  <2>3. CASE UNCHANGED <<seen, step, cutoff>>
    BY <1>1, <2>3
  <2>4. CASE Reset(j, "idle")
    BY <1>2, <1>3, <2>4
  <2>5. CASE CommitRun(j)
    <3>1. Reset(j, IF seen[j] = None THEN "acknowledge" ELSE "idle")
      BY <2>5 DEF CommitRun
    <3> QED  BY <1>2, <1>3, <3>1
  <2> QED
    BY <1>4, <2>1, <2>2, <2>3, <2>4, <2>5
    DEF RunNext, RunStep, HoldStopsRun, PlanApplication, ReadCheckpoint, WriteCheckpoint,
        CheckpointExists, DeadlockVictim, AbortRun, Acknowledge
<1>5. CASE UNCHANGED <<seen, step, cutoff>>
  BY <1>1, <1>5
<1>6. CASE \E j \in Runs : CrashRun(j)
  <2>1. PICK j \in Runs : CrashRun(j)
    BY <1>6
  <2>2. Reset(j, IF seen[j] = None THEN "start" ELSE "idle")
    BY <2>1 DEF CrashRun, AbortRun
  <2> QED  BY <1>2, <1>3, <2>2
<1> QED
  BY <1>4, <1>5, <1>6
  DEF Next, RequestNext, AdminNext, PutLoad, PutCommit, VerifierNext, Crash, vars

\* What is planned or pending.
LEMMA RemovalAgeStep ==
    ASSUME TypeInv, AgeInv, [Next]_vars, NEW a \in Apps
    PROVE  /\ \A k \in Runs : plan'[k][a] # None => \A i \in plan'[k][a].ids : Old(a, i)'
           /\ uncommitted'[a] # None =>
                \A i \in uncommitted'[a].ids : i \in DOMAIN log'[a] /\ Old(a, i)'
<1>1. ASSUME NEW k \in Runs, plan'[k][a] # None, NEW i \in plan'[k][a].ids
      PROVE  Old(a, i)'
  <2>1. CASE plan'[k][a] = plan[k][a]
    BY <1>1, <2>1, OldStays DEF AgeInv, TypeInv, PlansNamed
  <2>2. CASE step[k] = "plan" /\ plan'[k][a] = PlanFor(a, live[a], cutoff[k])
    <3>1. i \in live[a] /\ log[a][i].occurred_at < cutoff[k]
      <4>1. PlanFor(a, live[a], cutoff[k]).ids = contiguous_expired_prefix(a, live[a], cutoff[k])
        BY DEF PlanFor, PlanOf
      <4>2. i \in contiguous_expired_prefix(a, live[a], cutoff[k])
        BY <1>1, <2>2, <4>1
      <4> QED  BY <4>2 DEF contiguous_expired_prefix
    <3>2. PICK d \in Days : cutoff[k] <= now + MaxSkew - d
      BY <2>2 DEF AgeInv
    <3>3. i \in DOMAIN log[a] /\ cutoff[k] \in Int
      BY <3>1 DEF TypeInv, TypeOK, StoreTypeOK, RetentionTypeOK
    <3>4. log[a][i].occurred_at \in Int /\ now \in Nat
      BY <3>3, RowTime
    <3>5. log[a][i].occurred_at < now + MaxSkew - d
      BY <3>1, <3>2, <3>3, <3>4, DaysType, ClockAssumption
    <3> QED  BY <3>2, <3>3, <3>5, OldStays DEF Old
  <2> QED  BY <1>1, <2>1, <2>2, PlanStep
<1>2. ASSUME uncommitted'[a] # None, NEW i \in uncommitted'[a].ids
      PROVE  i \in DOMAIN log'[a] /\ Old(a, i)'
  <2>1. CASE uncommitted'[a] = uncommitted[a]
    BY <1>2, <2>1, OldStays, RowsKept DEF AgeInv
  <2>2. ASSUME NEW k \in Runs, loaded[k] # None, loaded[k].app = a,
               uncommitted'[a].ids = Deleted(k, a)
        PROVE  i \in DOMAIN log'[a] /\ Old(a, i)'
    <3>1. plan[k][a] # None /\ i \in plan[k][a].ids
      BY <1>2, <2>2 DEF TypeInv, LoadedPlanned, Deleted
    <3>2. i \in DOMAIN log[a] /\ Old(a, i)
      BY <3>1 DEF TypeInv, PlansNamed, AgeInv
    <3> QED  BY <3>2, OldStays, RowsKept
  <2> QED  BY <1>2, <2>1, <2>2, WriteStep
<1> QED  BY <1>1, <1>2

LEMMA AgeInit == Init => AgeInv
BY NoPolicyAssumption DEF Init, StoreInit, RetentionInit, Unplanned, AgeInv, Days

LEMMA AgeStep == TypeInv /\ AgeInv /\ [Next]_vars => AgeInv'
BY PolicyAgeStep, CutoffStep, RemovalAgeStep DEF AgeInv

\* The shortest retention period an administrator may set.
LEMMA Shortest ==
    ASSUME NEW d \in Days
    PROVE  MinRetention \in Nat /\ MinRetention <= d
<1>1. PICK m \in Days : \A x \in Days : m <= x
  BY DaysType, LeastNat
<1>2. \A p \in Policies : m <= p.retention_days
  BY <1>1 DEF Days
<1>3. MinRetention \in Days /\ \A p \in Policies : MinRetention <= p.retention_days
  BY <1>1, <1>2 DEF MinRetention, Days
<1> QED  BY <1>3, DaysType DEF Days

-----------------------------------------------------------------------------
(* Ingestion is linearizable.: what the columns of a row say.              *)

\* The columns of a row repeat what its content hash commits to.
RowsFaithful ==
    \A a \in Apps : \A i \in DOMAIN log[a] :
        /\ log[a][i].external_id = log[a][i].content_hash.external_id
        /\ log[a][i].occurred_at = log[a][i].content_hash.occurred_at

LEMMA InsertedContent ==
    ASSUME TypeInv, NEW r \in Requests, InsertEvent(r)
    PROVE  LET a == App(r)
               e == log'[a][Len(log[a]) + 1]
           IN  /\ a \in Apps /\ content_digest(Item(r)) \in Digests
               /\ e \in Events
               /\ e.content_hash = content_digest(Item(r))
               /\ e.external_id = Item(r).event_id
               /\ e.occurred_at = UtcTime(Item(r))
               /\ e.previous_hash = latest[r]
               /\ e.event_hash = chained_digest(e.content_hash, latest[r])
               /\ log'[a] = Append(log[a], e)
<1> DEFINE a == App(r)
<1>1. PICK t \in Nat :
        /\ NewEvent(Item(r), latest[r], t) \in Events
        /\ log' = [log EXCEPT ![a] = Append(@, NewEvent(Item(r), latest[r], t))]
  BY InsertEffect
<1> DEFINE e == NewEvent(Item(r), latest[r], t)
<1>2. a \in Apps /\ content_digest(Item(r)) \in Digests
  BY ItemType, DigestType DEF InsertEvent
<1>3. /\ e.content_hash = content_digest(Item(r)) /\ e.external_id = Item(r).event_id
      /\ e.occurred_at = UtcTime(Item(r)) /\ e.previous_hash = latest[r]
      /\ e.event_hash = chained_digest(e.content_hash, latest[r])
  BY DEF NewEvent
<1>4. log[a] \in Seq(Events) /\ log \in [Apps -> Seq(Events)] /\ e \in Events
  BY <1>1, <1>2 DEF TypeInv, TypeOK, StoreTypeOK
<1>5. log'[a] = Append(log[a], e)
  BY <1>1, <1>2, <1>4
<1> HIDE DEF e, a
<1>6. log'[a][Len(log[a]) + 1] = e
  BY <1>4, <1>5
<1> QED  BY <1>2, <1>3, <1>4, <1>5, <1>6 DEF a

LEMMA FaithfulStep ==
    ASSUME TypeInv, RowsFaithful, [Next]_vars
    PROVE  RowsFaithful'
<1> SUFFICES ASSUME NEW a \in Apps, NEW i \in DOMAIN log'[a]
             PROVE  /\ log'[a][i].external_id = log'[a][i].content_hash.external_id
                    /\ log'[a][i].occurred_at = log'[a][i].content_hash.occurred_at
  BY DEF RowsFaithful
<1>1. CASE i \in DOMAIN log[a]
  BY <1>1, RowsKept DEF RowsFaithful
<1>2. CASE i \notin DOMAIN log[a]
  <2>1. PICK r \in Requests : InsertEvent(r)
    BY <1>2, RowsStep DEF CommitRun
  <2>2. a = App(r) /\ i = Len(log[a]) + 1
    <3> DEFINE b == App(r)
    <3>1. /\ Len(log[b]) \in Nat /\ DOMAIN log[b] = 1..Len(log[b])
          /\ DOMAIN log'[b] = 1..(Len(log[b]) + 1)
          /\ \A c \in Apps \ {b} : log'[c] = log[c]
      BY <2>1, InsertRows
    <3> HIDE DEF b
    <3>2. a = b
      BY <1>2, <3>1
    <3> QED  BY <1>2, <3>1, <3>2 DEF b
  <2>3. LET e == log'[App(r)][Len(log[App(r)]) + 1]
        IN  /\ e.content_hash = content_digest(Item(r))
            /\ e.external_id = Item(r).event_id
            /\ e.occurred_at = UtcTime(Item(r))
    BY <2>1, InsertedContent
  <2>4. /\ content_digest(Item(r)).external_id = Item(r).event_id
        /\ content_digest(Item(r)).occurred_at = UtcTime(Item(r))
    BY DEF content_digest
  <2> QED  BY <2>2, <2>3, <2>4
<1> QED  BY <1>1, <1>2

-----------------------------------------------------------------------------
(* Every action of ingestion is one of the service, or a stutter.          *)

\* A request has a row it has not reported only while it reads it again.
Unstored == \A r \in Requests : phase[r] # "refresh" => stored[r] = 0

LEMMA UnstoredStep == TypeInv /\ Unstored /\ [Next]_vars => Unstored'
<1> SUFFICES ASSUME TypeInv, Unstored, [Next]_vars, NEW r \in Requests, phase'[r] # "refresh"
             PROVE  stored'[r] = 0
  BY DEF Unstored
<1>1. /\ phase \in [Requests -> Phases] /\ stored \in [Requests -> Nat]
  BY DEF TypeInv, TypeOK, IngestionTypeOK
<1> QED
  BY <1>1, RequestMoves
  DEF Unstored, RequestStep, Receive, LookupExisting, LockApplication, ReadLatest, InsertEvent,
      InsertViolatesUnique, RefreshEvent, AbortRequest

ServiceInv == RowsFaithful /\ Unstored /\ AgeInv /\ \A r \in Requests : TruthOf(r)

\* The call that a request at work is, as the service sees it.
LEMMA OpenCall ==
    ASSUME TypeInv, ServiceInv, NEW r \in Requests, phase[r] \notin {"idle", "answered"}
    PROVE  /\ App(r) \in Apps /\ content_digest(Item(r)) \in Digests
           /\ Service!Open(r)
           /\ Service!App(r) = App(r)
           /\ Service!Item(r) = content_digest(Item(r))
           /\ CallOf(r).batch = request[r].batch
           /\ Len(CallOf(r).items) = Len(request[r].items)
<1>1. /\ request[r] \in RequestsReceived /\ App(r) \in Apps /\ Item(r) \in Payloads
      /\ Len(results[r]) \in Nat /\ Len(request[r].items) \in Nat
      /\ Len(results[r]) < Len(request[r].items)
  BY ItemType
<1>2. content_digest(Item(r)) \in Digests
  BY <1>1, DigestType
<1>3. Service!Open(r)
  BY DEF Service!Open, AnswerOf, ServiceInv, TruthOf
<1>4. /\ CallOf(r).app = request[r].app /\ CallOf(r).batch = request[r].batch
      /\ CallOf(r).items =
            [n \in DOMAIN request[r].items |-> content_digest(request[r].items[n])]
  BY DEF CallOf
<1>5. Service!App(r) = App(r)
  BY <1>4 DEF Service!App, App
<1> DEFINE items == request[r].items
           m == Len(results[r]) + 1
<1>6. items \in Seq(Payloads)
  BY <1>1 DEF RequestsReceived
<1>7. DOMAIN items = 1..Len(items) /\ m \in DOMAIN items
  BY <1>1, <1>6
<1>8. CallOf(r).items[m] = content_digest(items[m])
  BY <1>4, <1>7
<1>9. Service!Item(r) = content_digest(Item(r))
  BY <1>8 DEF Service!Item, Item
<1>10. Len(CallOf(r).items) = Len(items)
  <2>1. \A n \in DOMAIN items : content_digest(items[n]) \in Digests
    BY <1>6, DigestType
  <2> DEFINE digests == [n \in 1..Len(items) |-> content_digest(items[n])]
  <2>2. digests \in Seq(Digests) /\ Len(digests) = Len(items)
    BY <1>1, <1>7, <2>1
  <2> QED  BY <1>4, <1>7, <2>2
<1> QED  BY <1>1, <1>2, <1>3, <1>4, <1>5, <1>9, <1>10

\* The retained rows with the id of the item, as the service sees them.
LEMMA NamedRows ==
    ASSUME TypeInv, ServiceInv, NEW r \in Requests, phase[r] \notin {"idle", "answered"}
    PROVE  /\ \A i \in RowsNamed(App(r), Item(r).event_id) :
                 [place |-> i, entry |-> log[App(r)][i].content_hash] \in Service!Namesakes(r)
           /\ RowsNamed(App(r), Item(r).event_id) = {} => Service!Namesakes(r) = {}
<1> DEFINE a == App(r)
<1>1. a \in Apps /\ Service!App(r) = a /\ Service!Item(r).external_id = Item(r).event_id
  <2>1. content_digest(Item(r)).external_id = Item(r).event_id
    BY DEF content_digest
  <2> QED  BY <2>1, OpenCall
<1>2. \A i \in live[a] : log[a][i].external_id = log[a][i].content_hash.external_id
  BY <1>1 DEF ServiceInv, RowsFaithful, TypeInv, TypeOK, StoreTypeOK
<1>3. Service!Namesakes(r) =
        {e \in RetainedRows(a) : e.entry.external_id = Item(r).event_id}
  BY <1>1 DEF Service!Namesakes
<1> HIDE DEF a
<1>4. \A e \in RetainedRows(a) :
        \E i \in live[a] : e = [place |-> i, entry |-> log[a][i].content_hash]
  BY DEF RetainedRows
<1>5. \A i \in live[a] : [place |-> i, entry |-> log[a][i].content_hash] \in RetainedRows(a)
  BY DEF RetainedRows
<1> QED  BY <1>2, <1>3, <1>4, <1>5 DEF RowsNamed, a

\* The rows and the calls of others stay when a request moves on by itself.
LEMMA OtherCalls ==
    ASSUME TypeInv, NEW r \in Requests, phase[r] # "idle", UNCHANGED request,
           phase'[r] # "idle", \A q \in Requests \ {r} : phase'[q] = phase[q]
    PROVE  UNCHANGED [q \in Requests |-> CallOf(q)]
<1>1. \A q \in Requests : CallOf(q)' = CallOf(q)
  BY DEF CallOf
<1> QED  BY <1>1

\* Report settles the item, Answer ends the call.
LEMMA ReportSettles ==
    ASSUME TypeInv, ServiceInv, NEW r \in Requests, phase[r] \notin {"idle", "answered"},
           NEW status, NEW position, Report(r, status, position), UNCHANGED request,
           stored' = [stored EXCEPT ![r] = 0]
    PROVE  Service!Settle(r, status, position) /\ UNCHANGED [q \in Requests |-> CallOf(q)]
<1>1. /\ phase \in [Requests -> Phases] /\ response \in [Requests -> Responses]
  BY DEF TypeInv, TypeOK, IngestionTypeOK
<1>2. phase'[r] \in {"answered", "lookup"} /\ \A q \in Requests \ {r} : phase'[q] = phase[q]
  BY <1>1 DEF Report
<1>3. UNCHANGED [q \in Requests |-> CallOf(q)]
  BY <1>2, OtherCalls
<1> DEFINE last == Len(results[r]) + 1 = Len(request[r].items)
<1>4. /\ \A q \in Requests \ {r} : AnswerOf(q)' = AnswerOf(q)
      /\ AnswerOf(r)' = IF last THEN "ok" ELSE AnswerOf(r)
  BY <1>1, <1>2 DEF Report, AnswerOf
<1>5. Len(CallOf(r).items) = Len(request[r].items)
  BY OpenCall
<1>6. [q \in Requests |-> AnswerOf(q)'] =
        [[q \in Requests |-> AnswerOf(q)] EXCEPT ![r] =
            IF Len(results[r]) + 1 = Len(CallOf(r).items) THEN "ok" ELSE @]
  BY <1>4, <1>5
<1> QED  BY <1>3, <1>6 DEF Report, Service!Settle

LEMMA AnswerEnds ==
    ASSUME TypeInv, NEW r \in Requests, phase[r] \notin {"idle", "answered"},
           NEW reply, Answer(r, reply), UNCHANGED request, stored' = [stored EXCEPT ![r] = 0]
    PROVE  Service!End(r, reply) /\ UNCHANGED [q \in Requests |-> CallOf(q)]
<1>1. /\ phase \in [Requests -> Phases] /\ response \in [Requests -> Responses]
  BY DEF TypeInv, TypeOK, IngestionTypeOK
<1>2. phase'[r] = "answered" /\ \A q \in Requests \ {r} : phase'[q] = phase[q]
  BY <1>1 DEF Answer
<1>3. UNCHANGED [q \in Requests |-> CallOf(q)]
  BY <1>2, OtherCalls
<1>4. /\ \A q \in Requests \ {r} : AnswerOf(q)' = AnswerOf(q)
      /\ AnswerOf(r)' = reply
  BY <1>1, <1>2 DEF Answer, AnswerOf
<1>5. [q \in Requests |-> AnswerOf(q)'] =
        [[q \in Requests |-> AnswerOf(q)] EXCEPT ![r] = reply]
  BY <1>4
<1> QED  BY <1>3, <1>5 DEF Answer, Service!End

-----------------------------------------------------------------------------
LEMMA ReceiveCalls ==
    ASSUME TypeInv, ServiceInv, NEW r \in Requests, NEW a \in Apps, NEW post \in Posts,
           Receive(r, a, post)
    PROVE  Service!Call(r)
<1>1. /\ phase \in [Requests -> Phases] /\ request \in [Requests -> RequestsReceived \cup {None}]
  BY DEF TypeInv, TypeOK, IngestionTypeOK
<1>2. phase[r] = "idle" /\ phase'[r] = "lookup" /\ \A q \in Requests \ {r} : phase'[q] = phase[q]
  BY <1>1 DEF Receive
<1>3. /\ request'[r] = [app |-> a, batch |-> post.batch, items |-> post.items]
      /\ \A q \in Requests \ {r} : request'[q] = request[q]
  BY <1>1 DEF Receive
<1>4. post.items \in Seq(Payloads) /\ post.batch \in BOOLEAN
  BY PostsAssumption
<1> DEFINE digests == [n \in DOMAIN post.items |-> content_digest(post.items[n])]
<1>5. digests \in Seq(Digests)
  <2>1. DOMAIN post.items = 1..Len(post.items) /\ Len(post.items) \in Nat
    BY <1>4
  <2>2. \A n \in DOMAIN post.items : content_digest(post.items[n]) \in Digests
    BY <1>4, DigestType
  <2> QED  BY <2>1, <2>2
<1>6. CallOf(r)' = [app |-> a, batch |-> post.batch, items |-> digests]
  BY <1>2, <1>3 DEF CallOf
<1> HIDE DEF digests
<1>7. CallOf(r)' \in Service!Calls
  BY <1>4, <1>5, <1>6 DEF Service!Calls
<1>8. \A q \in Requests \ {r} : CallOf(q)' = CallOf(q) /\ AnswerOf(q)' = AnswerOf(q)
  BY <1>2, <1>3 DEF CallOf, AnswerOf, Receive
<1>9. AnswerOf(r) = "uncalled" /\ AnswerOf(r)' = "none"
  BY <1>2 DEF AnswerOf, Receive, ServiceInv, TruthOf
<1>10. /\ [q \in Requests |-> CallOf(q)'] =
            [[q \in Requests |-> CallOf(q)] EXCEPT ![r] = [q \in Requests |-> CallOf(q)'][r]]
       /\ [q \in Requests |-> AnswerOf(q)'] = [[q \in Requests |-> AnswerOf(q)] EXCEPT ![r] = "none"]
  BY <1>8, <1>9
<1>11. UNCHANGED [a2 \in Apps |-> RetainedRows(a2)] /\ UNCHANGED [a2 \in Apps |-> Len(log[a2])]
  BY DEF Receive, storeVars, RetainedRows
<1> QED  BY <1>7, <1>9, <1>10, <1>11 DEF Service!Call, Receive

\* A request that leaves the rows, its outcomes and its answer alone.
LEMMA QuietStep ==
    ASSUME UNCHANGED <<log, live, request, stored, results, response, now>>,
           \A r \in Requests : phase[r] = "idle" <=> phase'[r] = "idle"
    PROVE  UNCHANGED Service!vars
<1>1. \A r \in Requests : CallOf(r)' = CallOf(r) /\ AnswerOf(r)' = AnswerOf(r)
  BY DEF CallOf, AnswerOf
<1>2. \A a \in Apps : RetainedRows(a)' = RetainedRows(a)
  BY DEF RetainedRows
<1> QED  BY <1>1, <1>2 DEF Service!vars, Service!callVars

LEMMA LookupDecides ==
    ASSUME TypeInv, ServiceInv, NEW r \in Requests, LookupExisting(r)
    PROVE  Service!Recognize(r) \/ Service!Refuse(r) \/ UNCHANGED Service!vars
<1> USE DEF storeVars
<1> DEFINE a == App(r)
           existing == RowsNamed(a, Item(r).event_id)
           seenAs(i) == [place |-> i, entry |-> log[a][i].content_hash]
<1>1. /\ phase[r] = "lookup" /\ stored[r] = 0
      /\ UNCHANGED <<request, stored, log, live, now>>
      /\ stored' = [stored EXCEPT ![r] = 0]
  BY DEF LookupExisting, ServiceInv, Unstored, TypeInv, TypeOK, IngestionTypeOK
<1>2. /\ Service!Open(r) /\ Service!Item(r) = content_digest(Item(r))
      /\ CallOf(r).batch = request[r].batch
  BY <1>1, OpenCall
<1>3. \A i \in existing : seenAs(i) \in Service!Namesakes(r)
  BY <1>1, NamedRows
<1>4. /\ UNCHANGED [b \in Apps |-> RetainedRows(b)] /\ UNCHANGED [b \in Apps |-> Len(log[b])]
  BY <1>1 DEF RetainedRows
<1>5. CASE existing = {} /\ phase' = [phase EXCEPT ![r] = "lock"] /\ UNCHANGED <<results, response>>
  <2>1. \A q \in Requests : phase[q] = "idle" <=> phase'[q] = "idle"
    BY <1>1, <1>5 DEF TypeInv, TypeOK, IngestionTypeOK
  <2> QED  BY <1>1, <1>5, <2>1, QuietStep
<1>6. ASSUME NEW i \in existing, SameContent(log[a][i], Item(r)), Report(r, "duplicate", i)
      PROVE  Service!Recognize(r)
  <2>1. seenAs(i).entry = Service!Item(r) /\ seenAs(i).place = i
    BY <1>2, <1>6 DEF SameContent
  <2>2. Service!Settle(r, "duplicate", seenAs(i).place) /\ UNCHANGED [q \in Requests |-> CallOf(q)]
    BY <1>1, <1>6, <2>1, ReportSettles
  <2> HIDE DEF seenAs
  <2> QED  BY <1>1, <1>2, <1>3, <1>4, <1>6, <2>1, <2>2 DEF Service!Recognize
<1>7. ASSUME NEW i \in existing, ~SameContent(log[a][i], Item(r)),
             IF request[r].batch THEN Report(r, "rejected", 0) ELSE Answer(r, "conflict")
      PROVE  Service!Refuse(r)
  <2>1. seenAs(i).entry # Service!Item(r)
    BY <1>2, <1>7 DEF SameContent
  <2>2. /\ IF request[r].batch THEN Service!Settle(r, "rejected", 0)
                               ELSE Service!End(r, "conflict")
        /\ UNCHANGED [q \in Requests |-> CallOf(q)]
    BY <1>1, <1>7, ReportSettles, AnswerEnds
  <2> HIDE DEF seenAs
  <2> QED  BY <1>1, <1>2, <1>3, <1>4, <1>7, <2>1, <2>2 DEF Service!Refuse
<1> QED  BY <1>5, <1>6, <1>7 DEF LookupExisting

LEMMA InsertCreates ==
    ASSUME TypeInv, ServiceInv, NEW r \in Requests, InsertEvent(r)
    PROVE  Service!Create(r)
<1>1. /\ phase[r] = "insert" /\ stored[r] = 0
      /\ phase' = [phase EXCEPT ![r] = "refresh"]
      /\ stored' = [stored EXCEPT ![r] = Len(log[App(r)]) + 1]
      /\ UNCHANGED <<request, results, response>>
  BY DEF InsertEvent, ServiceInv, Unstored
<1>2. PICK a \in Apps : a = App(r) /\ Service!App(r) = a
  BY <1>1, OpenCall
<1>3. PICK d \in Digests : d = content_digest(Item(r)) /\ Service!Item(r) = d
  BY <1>1, OpenCall
<1>4. PICK n \in Nat : /\ n = Len(log[a]) /\ DOMAIN log[a] = 1..n
                       /\ \A b \in Apps \ {a} : log'[b] = log[b] /\ live'[b] = live[b]
                       /\ \A i \in DOMAIN log[a] : log'[a][i] = log[a][i]
                       /\ live'[a] = live[a] \cup {n + 1}
  BY <1>2, InsertRows
<1>5. log'[a][n + 1].content_hash = d /\ Len(log'[a]) = n + 1
  <2>1. /\ log'[a] = Append(log[a], log'[a][n + 1]) /\ log'[a][n + 1] \in Events
        /\ log'[a][n + 1].content_hash = d
    BY <1>2, <1>3, <1>4, InsertedContent
  <2>2. log[a] \in Seq(Events)
    BY DEF TypeInv, TypeOK, StoreTypeOK
  <2> QED  BY <1>4, <2>1, <2>2
<1>6. live[a] \subseteq DOMAIN log[a]
  BY DEF TypeInv, TypeOK, StoreTypeOK
<1> DEFINE row == [place |-> n + 1, entry |-> d]
<1>7. RetainedRows(a)' = RetainedRows(a) \cup {row}
  <2>1. \A i \in live[a] : log'[a][i].content_hash = log[a][i].content_hash
    BY <1>4, <1>6
  <2>2. RetainedRows(a)' = {[place |-> i, entry |-> log'[a][i].content_hash] :
                                i \in live[a] \cup {n + 1}}
    BY <1>4 DEF RetainedRows
  <2>3. {[place |-> i, entry |-> log'[a][i].content_hash] : i \in live[a]} = RetainedRows(a)
    BY <2>1 DEF RetainedRows
  <2>4. [place |-> n + 1, entry |-> log'[a][n + 1].content_hash] = row
    BY <1>5
  <2> HIDE DEF row
  <2> QED  BY <2>2, <2>3, <2>4
<1> HIDE DEF row
<1>8. \A b \in Apps \ {a} : RetainedRows(b)' = RetainedRows(b)
  BY <1>4 DEF RetainedRows
<1>9. [b \in Apps |-> RetainedRows(b)'] =
        [[b \in Apps |-> RetainedRows(b)] EXCEPT ![a] = @ \cup {row}]
  BY <1>7, <1>8
<1>10. [b \in Apps |-> Len(log'[b])] = [[b \in Apps |-> Len(log[b])] EXCEPT ![a] = @ + 1]
  BY <1>4, <1>5
<1>11. \A q \in Requests : phase[q] = "idle" <=> phase'[q] = "idle"
  BY <1>1 DEF TypeInv, TypeOK, IngestionTypeOK
<1>12. \A q \in Requests : CallOf(q)' = CallOf(q) /\ AnswerOf(q)' = AnswerOf(q)
  BY <1>1, <1>11 DEF CallOf, AnswerOf
<1>13. Service!Namesakes(r) = {} /\ Service!Open(r)
  BY <1>1, OpenCall, NamedRows DEF InsertEvent, NameTaken
<1>14. [b \in Apps |-> Len(log[b])][a] = n
  BY <1>4
<1> QED
  BY <1>1, <1>2, <1>3, <1>4, <1>9, <1>10, <1>12, <1>13, <1>14 DEF Service!Create, row

\* The second look at the row: it is reported if it is still there.
LEMMA RefreshAnswers ==
    ASSUME TypeInv, ServiceInv, NEW r \in Requests, RefreshEvent(r)
    PROVE  Service!Accept(r) \/ Service!Fail(r)
<1> USE DEF storeVars
<1> DEFINE a == App(r)
<1>1. /\ phase[r] = "refresh" /\ UNCHANGED <<request, log, live>>
      /\ stored' = [stored EXCEPT ![r] = 0]
  BY DEF RefreshEvent
<1>2. a \in Apps /\ Service!Open(r) /\ Service!App(r) = a
  BY <1>1, OpenCall
<1>3. stored[r] # 0
  <2>1. stored[r] \in DOMAIN log[a]
    BY <1>1 DEF ServiceInv, TruthOf, Created
  <2>2. log[a] \in Seq(Events)
    BY <1>2 DEF TypeInv, TypeOK, StoreTypeOK
  <2> QED  BY <2>1, <2>2
<1>4. Service!Exists(r) <=> stored[r] \in live[a]
  <2>1. Service!Exists(r) <=> \E e \in RetainedRows(a) : e.place = stored[r]
    BY <1>2 DEF Service!Exists
  <2> DEFINE seenAs(i) == [place |-> i, entry |-> log[a][i].content_hash]
  <2>2. \A i \in live[a] : seenAs(i) \in RetainedRows(a) /\ seenAs(i).place = i
    BY DEF RetainedRows
  <2>3. \A e \in RetainedRows(a) : \E i \in live[a] : e = seenAs(i)
    BY DEF RetainedRows
  <2> HIDE DEF seenAs
  <2> QED  BY <2>1, <2>2, <2>3
<1>5. /\ UNCHANGED [b \in Apps |-> RetainedRows(b)] /\ UNCHANGED [b \in Apps |-> Len(log[b])]
  BY <1>1 DEF RetainedRows
<1>6. CASE stored[r] \in live[a] /\ Report(r, "accepted", stored[r])
  BY <1>1, <1>2, <1>3, <1>4, <1>5, <1>6, ReportSettles DEF Service!Accept
<1>7. CASE stored[r] \notin live[a] /\ Answer(r, "error")
  BY <1>1, <1>2, <1>3, <1>4, <1>5, <1>7, AnswerEnds DEF Service!Fail
<1> QED  BY <1>6, <1>7 DEF RefreshEvent

\* An integrity error and a crash end the call.
LEMMA AbortEnds ==
    ASSUME TypeInv, ServiceInv, NEW r \in Requests,
           InsertViolatesUnique(r) \/ AbortRequest(r, "lost")
    PROVE  Service!Fail(r) \/ Service!Lose(r)
<1>1. /\ phase[r] \notin {"idle", "answered"}
      /\ UNCHANGED <<request, log, live>>
  BY DEF InsertViolatesUnique, AbortRequest
<1>2. Service!Open(r)
  BY <1>1, OpenCall
<1>3. /\ UNCHANGED [b \in Apps |-> RetainedRows(b)] /\ UNCHANGED [b \in Apps |-> Len(log[b])]
  BY <1>1 DEF RetainedRows
<1>4. CASE InsertViolatesUnique(r)
  <2>1. stored[r] = 0 /\ stored' = [stored EXCEPT ![r] = 0]
    BY <1>4 DEF InsertViolatesUnique, ServiceInv, Unstored, TypeInv, TypeOK, IngestionTypeOK
  <2>2. Service!Namesakes(r) # {}
    BY <1>1, <1>4, NamedRows DEF InsertViolatesUnique, NameTaken
  <2>3. Answer(r, "error")
    BY <1>4 DEF InsertViolatesUnique
  <2> QED  BY <1>1, <1>2, <1>3, <2>1, <2>2, <2>3, AnswerEnds DEF Service!Fail
<1>5. CASE AbortRequest(r, "lost")
  BY <1>1, <1>2, <1>3, <1>5, AnswerEnds DEF AbortRequest, Service!Lose
<1> QED  BY <1>4, <1>5

LEMMA CommitExpires ==
    ASSUME TypeInv, ServiceInv, NEW k \in Runs, CommitRun(k), UNCHANGED ingestionVars
    PROVE  Service!Expire
<1>1. log' = log
  BY DEF CommitRun
<1>2. \A a \in Apps : live'[a] \subseteq live[a]
  BY CommitRows
<1>3. \A a \in Apps : RetainedRows(a)' \subseteq RetainedRows(a)
  BY <1>1, <1>2 DEF RetainedRows
<1>4. ASSUME NEW a \in Apps, NEW e \in RetainedRows(a) \ RetainedRows(a)'
      PROVE  e.entry.occurred_at < now - MinAge
  <2>1. PICK i \in live[a] : e = [place |-> i, entry |-> log[a][i].content_hash]
    BY DEF RetainedRows
  <2>2. i \notin live'[a]
    BY <1>1, <1>4, <2>1 DEF RetainedRows
  <2>3. uncommitted[a] # None /\ i \in uncommitted[a].ids
    BY <2>1, <2>2, CommitRows
  <2>4. i \in DOMAIN log[a] /\ \E day \in Days : log[a][i].occurred_at < now + MaxSkew - day
    BY <2>3 DEF ServiceInv, AgeInv, Old
  <2>5. PICK day \in Days : log[a][i].occurred_at < now + MaxSkew - day
    BY <2>4
  <2>6. log[a][i].occurred_at \in Int /\ now \in Nat /\ MaxSkew \in Nat
    BY <2>4, RowTime, ClockAssumption
  <2>7. MinRetention \in Nat /\ MinRetention <= day /\ day \in Nat
    BY Shortest, DaysType
  <2>8. log[a][i].occurred_at < now - MinAge
    BY <2>5, <2>6, <2>7 DEF MinAge
  <2>9. e.entry.occurred_at = log[a][i].occurred_at
    BY <2>1, <2>4 DEF ServiceInv, RowsFaithful
  <2> QED  BY <2>8, <2>9
<1>5. \A r \in Requests : CallOf(r)' = CallOf(r) /\ AnswerOf(r)' = AnswerOf(r)
  BY DEF ingestionVars, CallOf, AnswerOf
<1> QED  BY <1>1, <1>3, <1>4, <1>5 DEF Service!Expire, Service!callVars, ingestionVars

LEMMA ServiceStep ==
    ASSUME TypeInv, ServiceInv, [Next]_vars
    PROVE  [Service!Next]_(Service!vars)
<1> USE DEF storeVars
<1>1. CASE UNCHANGED <<log, live, ingestionVars, now>>
  BY <1>1, QuietStep DEF ingestionVars
<1>2. CASE \E k \in Runs : CommitRun(k) /\ UNCHANGED ingestionVars
  <2>1. now' = now
    BY <1>2 DEF CommitRun
  <2> QED  BY <1>2, <2>1, CommitExpires DEF Service!Next
<1>3. CASE \E r \in Requests : RequestNext(r)
  <2>1. PICK r \in Requests : RequestNext(r)
    BY <1>3
  <2>2. CASE LockApplication(r) \/ ReadLatest(r)
    <3>1. UNCHANGED <<log, live, request, stored, results, response, now>>
      BY <2>2 DEF LockApplication, ReadLatest
    <3>2. \A q \in Requests : phase[q] = "idle" <=> phase'[q] = "idle"
      BY <2>2 DEF LockApplication, ReadLatest, TypeInv, TypeOK, IngestionTypeOK
    <3> QED  BY <3>1, <3>2, QuietStep
  <2>3. CASE \E a \in Apps, post \in Posts : Receive(r, a, post)
    <3>1. now' = now
      BY <2>3 DEF Receive
    <3> QED  BY <2>3, <3>1, ReceiveCalls DEF Service!Next
  <2>4. CASE LookupExisting(r)
    <3>1. now' = now
      BY <2>4 DEF LookupExisting
    <3> QED  BY <2>4, <3>1, LookupDecides DEF Service!Next
  <2>5. CASE InsertEvent(r)
    <3>1. now' > now
      BY <2>5 DEF InsertEvent, TypeInv, TypeOK, StoreTypeOK
    <3> QED  BY <2>5, <3>1, InsertCreates DEF Service!Next
  <2>6. CASE RefreshEvent(r)
    <3>1. now' = now
      BY <2>6 DEF RefreshEvent
    <3> QED  BY <2>6, <3>1, RefreshAnswers DEF Service!Next
  <2>7. CASE InsertViolatesUnique(r)
    <3>1. now' = now
      BY <2>7 DEF InsertViolatesUnique
    <3> QED  BY <2>7, <3>1, AbortEnds DEF Service!Next
  <2> QED
    BY <2>1, <2>2, <2>3, <2>4, <2>5, <2>6, <2>7 DEF RequestNext, RequestStep
<1>4. CASE Crash
  <2>1. CASE \E r \in Requests : AbortRequest(r, "lost")
    <3>1. now' = now
      BY <2>1 DEF AbortRequest
    <3> QED  BY <2>1, <3>1, AbortEnds DEF Service!Next
  <2>2. CASE \E k \in Runs : CrashRun(k) /\ UNCHANGED ingestionVars
    BY <1>1, <2>2 DEF CrashRun, AbortRun
  <2> QED  BY <1>4, <2>1, <2>2 DEF Crash
<1>5. CASE \/ \E v \in Verifiers : VerifierNext(v)
           \/ \E u \in Admins : AdminNext(u)
           \/ UNCHANGED vars
  BY <1>1, <1>5
  DEF VerifierNext, ReadEvents, ReadCheckpointAndAnswer, AdminNext, PutLoad, PutCommit, vars
<1>6. CASE \E k \in Runs : RunNext(k)
  <2>1. UNCHANGED ingestionVars
    BY <1>6 DEF RunNext
  <2>2. CASE UNCHANGED <<log, live, now>>
    BY <1>1, <2>1, <2>2
  <2>3. CASE \E k \in Runs : CommitRun(k)
    BY <1>2, <2>1, <2>3
  <2> QED
    BY <1>6, <2>2, <2>3
    DEF RunNext, RunStep, RequestRun, HoldStopsRun, ExecuteRetention, PlanApplication,
        ReadCheckpoint, WriteCheckpoint, CheckpointExists, DeadlockVictim, AbortRun, Acknowledge
<1>7. CASE Tick /\ UNCHANGED <<ingestionVars, retentionVars, check, crashes>>
  <2>1. now' > now /\ UNCHANGED <<log, live>>
    BY <1>7 DEF Tick, TypeInv, TypeOK, StoreTypeOK
  <2>2. \A r \in Requests : CallOf(r)' = CallOf(r) /\ AnswerOf(r)' = AnswerOf(r)
    BY <1>7 DEF ingestionVars, CallOf, AnswerOf
  <2>3. \A a \in Apps : RetainedRows(a)' = RetainedRows(a)
    BY <2>1 DEF RetainedRows
  <2> QED  BY <1>7, <2>1, <2>2, <2>3 DEF Service!Next, Service!callVars, ingestionVars
<1> QED  BY <1>1, <1>2, <1>3, <1>4, <1>5, <1>6, <1>7 DEF Next

\* POST /events and POST /events/batch are linearizable, whatever the clocks
\* of the replicas say, whatever crashes and however retention runs overlap:
\* create_event settles an item where its lookup finds the id, and otherwise
\* where its INSERT commits, which the unique index lets only one do; and what
\* execute_retention takes away has outlived the shortest policy by a clock at
\* most MaxSkew fast: no event younger than MinRetention - MaxSkew ever goes.
THEOREM ServiceImplemented == Spec => ImplementsEventService
<1>1. ASSUME Init
      PROVE  Service!Init /\ RowsFaithful /\ Unstored /\ AgeInv
  <2>1. log = [a \in Apps |-> << >>] /\ live = [a \in Apps |-> {}] /\ now = 0
    BY <1>1 DEF Init, StoreInit
  <2>2. \A a \in Apps : RetainedRows(a) = {} /\ Len(log[a]) = 0
    BY <2>1 DEF RetainedRows
  <2>3. /\ phase = [r \in Requests |-> "idle"] /\ stored = [r \in Requests |-> 0]
        /\ results = [r \in Requests |-> << >>]
    BY <1>1 DEF Init, IngestionInit
  <2>4. \A r \in Requests : CallOf(r) = None /\ AnswerOf(r) = "uncalled"
    BY <2>3 DEF CallOf, AnswerOf
  <2> QED  BY <1>1, <2>1, <2>2, <2>3, <2>4, AgeInit DEF Service!Init, RowsFaithful, Unstored
<1>2. TypeInv /\ RowsFaithful /\ Unstored /\ AgeInv /\ [Next]_vars
        => RowsFaithful' /\ Unstored' /\ AgeInv'
  BY FaithfulStep, UnstoredStep, AgeStep
<1> DEFINE Truth == \A r \in Requests : TruthOf(r)
<1>3. TypeInv /\ RowsFaithful /\ Unstored /\ AgeInv /\ Truth /\ [Next]_vars
        => [Service!Next]_(Service!vars)
  BY ServiceStep DEF ServiceInv
<1> HIDE DEF Truth
<1>4. Spec => []Truth
  BY TruthInvariance DEF Truth
<1> QED
  BY <1>1, <1>2, <1>3, <1>4, TypeInvariance, PTL
  DEF Spec, ImplementsEventService, Service!Spec
=============================================================================
