------------------------- MODULE AuditChain_proofs -------------------------
(***************************************************************************)
(* Proofs about AuditChain, for every value of its constants.              *)
(***************************************************************************)
EXTENDS AuditChain, NaturalSets, FiniteSetTheorems, TLAPS

-----------------------------------------------------------------------------
(* Order.                                                                  *)

\* The clocks: every row was stamped at most MaxSkew ahead of the true time.
StampsBounded ==
    \A a \in Apps : \A i \in DOMAIN log[a] :
        log[a][i].received_at \in Nat /\ log[a][i].received_at <= now + MaxSkew

\* ORDER BY received_at DESC, id DESC LIMIT 1 finds a row if there is one,
\* and every other row precedes it.
LEMMA LastOfIsLast ==
    ASSUME StoreTypeOK, StampsBounded, NEW a \in Apps,
           NEW rows, rows \subseteq DOMAIN log[a], rows # {}
    PROVE  /\ LastOf(a, rows) \in rows
           /\ \A j \in rows \ {LastOf(a, rows)} : Precedes(a, j, LastOf(a, rows))
<1> DEFINE T == {log[a][i].received_at : i \in rows}
<1>0. now + MaxSkew \in Nat
  BY ClockAssumption DEF StoreTypeOK
<1>1. T \subseteq Nat /\ T # {} /\ \A y \in T : y <= now + MaxSkew
  BY DEF StampsBounded
<1>2. PICK t \in T : \A y \in T : y <= t
  <2> HIDE DEF T
  <2> QED  BY <1>0, <1>1, GreatestNat
<1> DEFINE L == {i \in rows : log[a][i].received_at = t}
<1>3. log[a] \in Seq(Events)
  BY DEF StoreTypeOK
<1>4. L \subseteq Nat /\ L # {} /\ Len(log[a]) \in Nat /\ \A i \in L : i <= Len(log[a])
  BY <1>2, <1>3
<1>5. PICK m \in L : \A i \in L : i <= m
  <2> HIDE DEF L
  <2> QED  BY <1>4, GreatestNat
<1>6. \A j \in rows \ {m} : Precedes(a, j, m)
  <2> SUFFICES ASSUME NEW j \in rows, j # m
               PROVE  Precedes(a, j, m)
    OBVIOUS
  <2>1. log[a][j].received_at \in Nat /\ log[a][m].received_at \in Nat /\ j \in Nat /\ m \in Nat
    BY <1>3, <1>5 DEF StampsBounded
  <2>2. log[a][j].received_at <= log[a][m].received_at
    BY <1>2, <1>5
  <2>3. log[a][j].received_at = log[a][m].received_at => j <= m
    BY <1>2, <1>5
  <2> QED  BY <2>1, <2>2, <2>3 DEF Precedes
<1> QED  BY <1>5, <1>6 DEF LastOf

-----------------------------------------------------------------------------
(* The types of the rows that are built.                                   *)

LEMMA DigestType ==
    ASSUME NEW p \in Payloads
    PROVE  /\ content_digest(p) \in Digests
           /\ content_digest(p).external_id = p.event_id
           /\ UtcTime(p) \in Int
BY PayloadsAssumption DEF content_digest, Digests, UtcTime

LEMMA ChainedType ==
    ASSUME NEW d \in Digests, NEW h \in Hashes \cup {None}
    PROVE  chained_digest(d, h) \in Hashes
<1>1. CASE h = None
  <2>1. GENESIS_HASH \in Hashes
    BY DEF GENESIS_HASH, Hashes
  <2> QED  BY <1>1, <2>1 DEF chained_digest, Hashes
<1>2. CASE h # None
  BY <1>2 DEF chained_digest, Hashes
<1> QED  BY <1>1, <1>2

LEMMA NewEventType ==
    ASSUME NEW p \in Payloads, NEW h \in Hashes \cup {None}, NEW t \in Nat
    PROVE  NewEvent(p, h, t) \in Events
<1>1. content_digest(p) \in Digests /\ content_digest(p).external_id = p.event_id
      /\ UtcTime(p) \in Int
  BY DigestType
<1>2. chained_digest(content_digest(p), h) \in Hashes
  BY <1>1, ChainedType
<1>3. p.event_id \in {d.external_id : d \in Digests}
  BY <1>1
<1> QED  BY <1>1, <1>2, <1>3 DEF NewEvent, Events

LEMMA FlushedCheckpoint ==
    ASSUME NEW row \in Checkpoints, NEW old \in Checkpoints, NEW new \in Checkpoints
    PROVE  Flushed(row, old, new) \in Checkpoints
BY DEF Flushed, Checkpoints

LEMMA FlushedPolicy ==
    ASSUME NEW row \in PolicyRows, NEW old \in PolicyRows, NEW new \in PolicyRows
    PROVE  Flushed(row, old, new) \in PolicyRows
BY DEF Flushed, PolicyRows

-----------------------------------------------------------------------------
(* The inductive strengthening of TypeOK.                                  *)

\* A request that is being worked on has an item to work on.
InFlight ==
    \A r \in Requests :
        /\ phase[r] \notin {"idle", "answered"} =>
              request[r] \in RequestsReceived /\ Len(results[r]) < Len(request[r].items)
        /\ phase[r] = "idle" => results[r] = << >>

\* A plan names rows, and has an anchor if it names any.
PlansNamed ==
    \A k \in Runs, a \in Apps :
        plan[k][a] # None =>
            /\ plan[k][a].ids \subseteq DOMAIN log[a]
            /\ plan[k][a].ids # {} => plan[k][a].anchor_hash \in Hashes

\* A checkpoint is loaded by a run at work, for a plan that removes
\* something, and a checkpoint row that was found once stays.
LoadedPlanned ==
    \A k \in Runs :
        loaded[k] # None =>
            /\ step[k] = "plan"
            /\ plan[k][loaded[k].app] # None
            /\ plan[k][loaded[k].app].ids # {}
            /\ loaded[k].row # None => checkpoint[loaded[k].app] # None

\* A run is only started under a policy, a PUT updates a row it has found,
\* and a policy is never deleted.
PolicyStays ==
    /\ \A k \in Runs : step[k] # "idle" => policy # None
    /\ \A u \in Admins : put[u] # None /\ put[u].loaded # None => policy # None

TypeInv ==
    /\ TypeOK
    /\ StampsBounded
    /\ InFlight
    /\ PlansNamed
    /\ LoadedPlanned
    /\ PolicyStays

LEMMA TypeInit == Init => TypeInv
<1> SUFFICES ASSUME Init
             PROVE  TypeInv
  OBVIOUS
<1> USE DEF Init
<1>1. StoreTypeOK
  BY DEF StoreInit, StoreTypeOK
<1>2. IngestionTypeOK
  BY DEF StoreInit, IngestionInit, IngestionTypeOK, Phases, Responses
<1>3. RetentionTypeOK
  BY RetentionAssumption
  DEF StoreInit, RetentionInit, RetentionTypeOK, Steps, Unplanned, PolicyRows
<1>4. TypeOK
  BY <1>1, <1>2, <1>3 DEF TypeOK, VerificationInit
<1>5. StampsBounded
  BY DEF StoreInit, StampsBounded
<1>6. InFlight
  BY DEF IngestionInit, InFlight
<1>7. PlansNamed /\ LoadedPlanned /\ PolicyStays
  BY DEF RetentionInit, PlansNamed, LoadedPlanned, PolicyStays, Unplanned
<1> QED  BY <1>4, <1>5, <1>6, <1>7 DEF TypeInv

-----------------------------------------------------------------------------
(* Ingestion preserves the types.                                          *)

\* Statements that only read, and locks, leave the tables alone.
LEMMA IngestionFrame ==
    ASSUME TypeInv, UNCHANGED <<log, live, checkpoint, now, uncommitted, retentionVars, check, crashes>>,
           IngestionTypeOK', InFlight'
    PROVE  TypeInv'
<1> USE DEF TypeInv, TypeOK, retentionVars, runVars
<1>1. StoreTypeOK'
  BY DEF StoreTypeOK
<1>2. RetentionTypeOK'
  BY DEF RetentionTypeOK
<1>3. StampsBounded' /\ PlansNamed' /\ LoadedPlanned' /\ PolicyStays'
  BY DEF StampsBounded, PlansNamed, LoadedPlanned, PolicyStays
<1> QED  BY <1>1, <1>2, <1>3

LEMMA ReceiveType ==
    ASSUME TypeInv, NEW r \in Requests, NEW a \in Apps, NEW post \in Posts,
           Receive(r, a, post), UNCHANGED <<retentionVars, check, crashes>>
    PROVE  TypeInv'
<1> USE DEF TypeInv, TypeOK, Receive, storeVars
<1>1. request'[r] \in RequestsReceived /\ Len(request'[r].items) >= 1
  BY PostsAssumption DEF IngestionTypeOK, RequestsReceived
<1>2. IngestionTypeOK'
  BY <1>1 DEF IngestionTypeOK, Phases
<1>3. InFlight'
  BY <1>1 DEF InFlight, IngestionTypeOK
<1> QED  BY <1>2, <1>3, IngestionFrame

\* The item a request works on, and its application.
LEMMA ItemType ==
    ASSUME TypeInv, NEW r \in Requests, phase[r] \notin {"idle", "answered"}
    PROVE  /\ request[r] \in RequestsReceived
           /\ App(r) \in Apps
           /\ Item(r) \in Payloads
           /\ Len(results[r]) \in Nat /\ Len(request[r].items) \in Nat
           /\ Len(results[r]) < Len(request[r].items)
<1>1. request[r] \in RequestsReceived /\ Len(results[r]) < Len(request[r].items)
  BY DEF TypeInv, InFlight
<1>2. results[r] \in Seq(Outcomes)
  BY DEF TypeInv, TypeOK, IngestionTypeOK
<1>3. request[r].items \in Seq(Payloads)
  BY <1>1 DEF RequestsReceived
<1> QED  BY <1>1, <1>2, <1>3 DEF App, Item, RequestsReceived

LEMMA ReportType ==
    ASSUME TypeInv, NEW r \in Requests, phase[r] \notin {"idle", "answered"},
           NEW status \in {"accepted", "duplicate", "rejected"}, NEW position \in Nat,
           Report(r, status, position), UNCHANGED request
    PROVE  /\ results' \in [Requests -> Seq(Outcomes)]
           /\ phase' \in [Requests -> Phases]
           /\ response' \in [Requests -> Responses]
           /\ InFlight'
<1>0. [status |-> status, stored |-> position] \in Outcomes
  BY DEF Outcomes
<1>1. results' \in [Requests -> Seq(Outcomes)] /\ Len(results'[r]) = Len(results[r]) + 1
  BY <1>0 DEF TypeInv, TypeOK, IngestionTypeOK, Report
<1>2. phase' \in [Requests -> Phases] /\ response' \in [Requests -> Responses]
  BY DEF TypeInv, TypeOK, IngestionTypeOK, Report, Phases, Responses
<1>3. InFlight'
  <2> SUFFICES ASSUME NEW q \in Requests
               PROVE  /\ phase'[q] \notin {"idle", "answered"} =>
                           request[q] \in RequestsReceived /\ Len(results'[q]) < Len(request[q].items)
                      /\ phase'[q] = "idle" => results'[q] = << >>
    BY DEF InFlight
  <2>1. CASE q = r
    BY <1>1, <2>1, ItemType DEF Report, TypeInv, TypeOK, IngestionTypeOK
  <2>2. CASE q # r
    BY <2>2 DEF Report, TypeInv, TypeOK, IngestionTypeOK, InFlight
  <2> QED  BY <2>1, <2>2
<1> QED  BY <1>1, <1>2, <1>3

LEMMA AnswerType ==
    ASSUME TypeInv, NEW r \in Requests, NEW reply \in Responses,
           Answer(r, reply), UNCHANGED request
    PROVE  /\ results' \in [Requests -> Seq(Outcomes)]
           /\ phase' \in [Requests -> Phases]
           /\ response' \in [Requests -> Responses]
           /\ InFlight'
BY DEF TypeInv, TypeOK, IngestionTypeOK, Answer, Phases, InFlight

LEMMA LookupType ==
    ASSUME TypeInv, NEW r \in Requests, LookupExisting(r),
           UNCHANGED <<retentionVars, check, crashes>>
    PROVE  TypeInv'
<1> USE DEF storeVars
<1>0. phase[r] \notin {"idle", "answered"} /\ UNCHANGED <<request, latest, stored, storeVars>>
  BY DEF LookupExisting
<1>1. App(r) \in Apps
  BY <1>0, ItemType
<1>2. \A i \in RowsNamed(App(r), Item(r).event_id) : i \in Nat
  BY <1>1 DEF RowsNamed, TypeInv, TypeOK, StoreTypeOK
<1>3. /\ results' \in [Requests -> Seq(Outcomes)]
      /\ phase' \in [Requests -> Phases]
      /\ response' \in [Requests -> Responses]
      /\ InFlight'
  <2>1. CASE phase' = [phase EXCEPT ![r] = "lock"] /\ UNCHANGED <<results, response>>
    BY <1>0, <2>1 DEF TypeInv, TypeOK, IngestionTypeOK, Phases, InFlight
  <2>2. CASE \E i \in RowsNamed(App(r), Item(r).event_id) : Report(r, "duplicate", i)
    BY <1>0, <1>2, <2>2, ReportType
  <2>3. CASE Report(r, "rejected", 0)
    BY <1>0, <2>3, ReportType
  <2>4. CASE Answer(r, "conflict")
    BY <1>0, <2>4, AnswerType DEF Responses
  <2> QED  BY <2>1, <2>2, <2>3, <2>4 DEF LookupExisting
<1>4. IngestionTypeOK'
  BY <1>0, <1>3 DEF TypeInv, TypeOK, IngestionTypeOK
<1> QED  BY <1>0, <1>3, <1>4, IngestionFrame

LEMMA LockType ==
    ASSUME TypeInv, NEW r \in Requests, LockApplication(r),
           UNCHANGED <<retentionVars, check, crashes>>
    PROVE  TypeInv'
<1>1. IngestionTypeOK'
  BY DEF TypeInv, TypeOK, IngestionTypeOK, LockApplication, Phases
<1>2. InFlight'
  BY DEF TypeInv, TypeOK, IngestionTypeOK, LockApplication, InFlight
<1> QED  BY <1>1, <1>2, IngestionFrame DEF LockApplication

LEMMA LatestType ==
    ASSUME TypeInv, NEW r \in Requests, ReadLatest(r),
           UNCHANGED <<retentionVars, check, crashes>>
    PROVE  TypeInv'
<1> DEFINE a == App(r)
<1>0. a \in Apps
  BY ItemType DEF ReadLatest
<1>1. live[a] # {} => log[a][LastOf(a, live[a])].event_hash \in Hashes
  <2> SUFFICES ASSUME live[a] # {}
               PROVE  log[a][LastOf(a, live[a])].event_hash \in Hashes
    OBVIOUS
  <2>1. StoreTypeOK /\ StampsBounded /\ live[a] \subseteq DOMAIN log[a]
    BY <1>0 DEF TypeInv, TypeOK, StoreTypeOK
  <2>2. LastOf(a, live[a]) \in DOMAIN log[a]
    BY <1>0, <2>1, LastOfIsLast
  <2>3. log[a][LastOf(a, live[a])] \in Events
    BY <1>0, <2>1, <2>2 DEF StoreTypeOK
  <2> QED  BY <2>3 DEF Events
<1>2. IngestionTypeOK'
  BY <1>1 DEF TypeInv, TypeOK, IngestionTypeOK, ReadLatest, storeVars, Phases
<1>3. InFlight'
  BY DEF TypeInv, TypeOK, IngestionTypeOK, ReadLatest, InFlight
<1> QED  BY <1>2, <1>3, IngestionFrame DEF ReadLatest, storeVars

LEMMA ViolatesUniqueType ==
    ASSUME TypeInv, NEW r \in Requests, InsertViolatesUnique(r),
           UNCHANGED <<retentionVars, check, crashes>>
    PROVE  TypeInv'
<1>1. /\ results' \in [Requests -> Seq(Outcomes)]
      /\ phase' \in [Requests -> Phases]
      /\ response' \in [Requests -> Responses]
      /\ InFlight'
  BY AnswerType DEF InsertViolatesUnique, Responses
<1>2. IngestionTypeOK'
  BY <1>1 DEF TypeInv, TypeOK, IngestionTypeOK, InsertViolatesUnique, Release
<1> QED  BY <1>1, <1>2, IngestionFrame DEF InsertViolatesUnique

LEMMA RefreshType ==
    ASSUME TypeInv, NEW r \in Requests, RefreshEvent(r),
           UNCHANGED <<retentionVars, check, crashes>>
    PROVE  TypeInv'
<1>1. /\ results' \in [Requests -> Seq(Outcomes)]
      /\ phase' \in [Requests -> Phases]
      /\ response' \in [Requests -> Responses]
      /\ InFlight'
  <2>1. stored[r] \in Nat
    BY DEF TypeInv, TypeOK, IngestionTypeOK
  <2>2. CASE Report(r, "accepted", stored[r])
    BY <2>1, <2>2, ReportType DEF RefreshEvent
  <2>3. CASE Answer(r, "error")
    BY <2>3, AnswerType DEF RefreshEvent, Responses
  <2> QED  BY <2>2, <2>3 DEF RefreshEvent
<1>2. IngestionTypeOK'
  BY <1>1 DEF TypeInv, TypeOK, IngestionTypeOK, RefreshEvent, storeVars
<1> QED  BY <1>1, <1>2, IngestionFrame DEF RefreshEvent, storeVars

LEMMA AbortRequestType ==
    ASSUME TypeInv, NEW r \in Requests, NEW reply \in Responses, AbortRequest(r, reply),
           UNCHANGED <<retentionVars, check>>, crashes' \in Nat
    PROVE  TypeInv'
<1>1. /\ results' \in [Requests -> Seq(Outcomes)]
      /\ phase' \in [Requests -> Phases]
      /\ response' \in [Requests -> Responses]
      /\ InFlight'
  BY AnswerType DEF AbortRequest
<1>2. IngestionTypeOK'
  BY <1>1 DEF TypeInv, TypeOK, IngestionTypeOK, AbortRequest, ReleaseOwned
<1>3. StoreTypeOK' /\ RetentionTypeOK'
  BY DEF TypeInv, TypeOK, StoreTypeOK, RetentionTypeOK, AbortRequest, retentionVars, runVars
<1>4. StampsBounded' /\ PlansNamed' /\ LoadedPlanned' /\ PolicyStays'
  BY DEF TypeInv, StampsBounded, PlansNamed, LoadedPlanned, PolicyStays,
         AbortRequest, retentionVars, runVars
<1> QED  BY <1>1, <1>2, <1>3, <1>4 DEF TypeInv, TypeOK

\* What an insert does to the tables.
LEMMA InsertEffect ==
    ASSUME TypeInv, NEW r \in Requests, InsertEvent(r)
    PROVE  /\ App(r) \in Apps
           /\ \E t \in Nat :
                /\ now <= t /\ t <= now + MaxSkew
                /\ NewEvent(Item(r), latest[r], t) \in Events
                /\ log' = [log EXCEPT ![App(r)] = Append(@, NewEvent(Item(r), latest[r], t))]
           /\ live' = [live EXCEPT ![App(r)] = @ \cup {Len(log[App(r)]) + 1}]
           /\ now' = now + 1
<1>1. App(r) \in Apps /\ Item(r) \in Payloads
  BY ItemType DEF InsertEvent
<1>2. latest[r] \in Hashes \cup {None} /\ now \in Nat
  BY DEF TypeInv, TypeOK, IngestionTypeOK, StoreTypeOK
<1>3. PICK skew \in 0..MaxSkew :
        log' = [log EXCEPT ![App(r)] = Append(@, NewEvent(Item(r), latest[r], now + skew))]
  BY DEF InsertEvent
<1>4. now + skew \in Nat /\ now <= now + skew /\ now + skew <= now + MaxSkew
  BY <1>2, ClockAssumption
<1>5. NewEvent(Item(r), latest[r], now + skew) \in Events
  BY <1>1, <1>2, <1>4, NewEventType
<1> QED  BY <1>1, <1>3, <1>4, <1>5 DEF InsertEvent

LEMMA InsertType ==
    ASSUME TypeInv, NEW r \in Requests, InsertEvent(r),
           UNCHANGED <<retentionVars, check, crashes>>
    PROVE  TypeInv'
<1> DEFINE a == App(r)
<1>1. PICK t \in Nat :
        /\ now <= t /\ t <= now + MaxSkew
        /\ NewEvent(Item(r), latest[r], t) \in Events
        /\ log' = [log EXCEPT ![a] = Append(@, NewEvent(Item(r), latest[r], t))]
  BY InsertEffect
<1> DEFINE e == NewEvent(Item(r), latest[r], t)
<1>2. a \in Apps /\ live' = [live EXCEPT ![a] = @ \cup {Len(log[a]) + 1}] /\ now' = now + 1
  BY InsertEffect
<1>3. e.received_at = t
  BY DEF NewEvent
<1>4. UNCHANGED <<checkpoint, uncommitted, request, results, response>>
  BY DEF InsertEvent
<1> HIDE DEF a, e
<1>5. log' \in [Apps -> Seq(Events)]
  BY <1>1, <1>2 DEF TypeInv, TypeOK, StoreTypeOK, e
<1>6. \A b \in Apps : /\ Len(log[b]) \in Nat /\ DOMAIN log[b] = 1..Len(log[b])
                      /\ DOMAIN log[b] \subseteq DOMAIN log'[b]
                      /\ \A i \in DOMAIN log[b] : log'[b][i] = log[b][i]
  <2> SUFFICES ASSUME NEW b \in Apps
               PROVE  /\ Len(log[b]) \in Nat /\ DOMAIN log[b] = 1..Len(log[b])
                      /\ DOMAIN log[b] \subseteq DOMAIN log'[b]
                      /\ \A i \in DOMAIN log[b] : log'[b][i] = log[b][i]
    OBVIOUS
  <2>1. log[b] \in Seq(Events)
    BY DEF TypeInv, TypeOK, StoreTypeOK
  <2>2. log'[b] = IF b = a THEN Append(log[b], e) ELSE log[b]
    BY <1>1, <1>2 DEF TypeInv, TypeOK, StoreTypeOK, e
  <2> QED  BY <1>1, <2>1, <2>2 DEF e
<1>7. /\ DOMAIN log'[a] = DOMAIN log[a] \cup {Len(log[a]) + 1}
      /\ log'[a][Len(log[a]) + 1] = e
      /\ \A b \in Apps \ {a} : log'[b] = log[b]
  <2>1. log[a] \in Seq(Events)
    BY <1>2 DEF TypeInv, TypeOK, StoreTypeOK
  <2>2. log'[a] = Append(log[a], e) /\ \A b \in Apps \ {a} : log'[b] = log[b]
    BY <1>1, <1>2 DEF TypeInv, TypeOK, StoreTypeOK, e
  <2> QED  BY <1>1, <2>1, <2>2 DEF e
<1>8. StoreTypeOK'
  <2>1. live' \in [Apps -> SUBSET Nat]
    BY <1>2, <1>6 DEF TypeInv, TypeOK, StoreTypeOK
  <2>2. \A b \in Apps : live'[b] \subseteq DOMAIN log'[b]
    BY <1>2, <1>6, <1>7 DEF TypeInv, TypeOK, StoreTypeOK
  <2> QED  BY <1>2, <1>4, <1>5, <2>1, <2>2 DEF TypeInv, TypeOK, StoreTypeOK
<1>9. IngestionTypeOK'
  BY <1>2, <1>4, <1>6
  DEF TypeInv, TypeOK, IngestionTypeOK, InsertEvent, Release, Phases, a
<1>10. StampsBounded'
  <2>1. now \in Nat /\ MaxSkew \in Nat
    BY ClockAssumption DEF TypeInv, TypeOK, StoreTypeOK
  <2>2. SUFFICES ASSUME NEW b \in Apps, NEW i \in DOMAIN log'[b]
                 PROVE  log'[b][i].received_at \in Nat /\ log'[b][i].received_at <= now' + MaxSkew
    BY DEF StampsBounded
  <2>3. CASE i \in DOMAIN log[b]
    BY <1>2, <1>6, <2>1, <2>3 DEF TypeInv, StampsBounded
  <2>4. CASE i \notin DOMAIN log[b]
    BY <1>1, <1>2, <1>3, <1>7, <2>1, <2>4
  <2> QED  BY <2>3, <2>4
<1>11. InFlight'
  BY <1>4 DEF TypeInv, TypeOK, IngestionTypeOK, InsertEvent, InFlight
<1>12. RetentionTypeOK'
  BY <1>4 DEF TypeInv, TypeOK, RetentionTypeOK, retentionVars, runVars
<1>13. PlansNamed'
  BY <1>6 DEF TypeInv, PlansNamed, retentionVars, runVars
<1>14. LoadedPlanned' /\ PolicyStays'
  BY <1>4 DEF TypeInv, LoadedPlanned, PolicyStays, retentionVars, runVars
<1> QED  BY <1>8, <1>9, <1>10, <1>11, <1>12, <1>13, <1>14 DEF TypeInv, TypeOK

-----------------------------------------------------------------------------
(* Retention preserves the types.                                          *)

\* Everything a run or a PUT does before a commit leaves the tables alone.
LEMMA RetentionFrame ==
    ASSUME TypeInv, UNCHANGED <<log, live, checkpoint, now, exclusive, ingestionVars, check>>,
           crashes' \in Nat, RetentionTypeOK', PlansNamed', LoadedPlanned', PolicyStays'
    PROVE  TypeInv'
<1> USE DEF TypeInv, TypeOK, ingestionVars
<1>1. StoreTypeOK'
  BY DEF StoreTypeOK
<1>2. IngestionTypeOK'
  BY DEF IngestionTypeOK
<1>3. StampsBounded' /\ InFlight'
  BY DEF StampsBounded, InFlight
<1> QED  BY <1>1, <1>2, <1>3

LEMMA PutLoadType ==
    ASSUME TypeInv, NEW u \in Admins, NEW new \in Policies, PutLoad(u, new),
           UNCHANGED <<ingestionVars, check, crashes>>
    PROVE  TypeInv'
<1> USE DEF TypeInv, TypeOK, PutLoad, runVars, storeVars
<1>1. new \in PolicyRows
  BY RetentionAssumption DEF PolicyRows
<1>2. RetentionTypeOK'
  BY <1>1 DEF RetentionTypeOK
<1>3. PlansNamed' /\ LoadedPlanned' /\ PolicyStays'
  BY DEF RetentionTypeOK, PlansNamed, LoadedPlanned, PolicyStays
<1> QED  BY <1>2, <1>3, RetentionFrame

LEMMA PutCommitType ==
    ASSUME TypeInv, NEW u \in Admins, PutCommit(u),
           UNCHANGED <<ingestionVars, check, crashes>>
    PROVE  TypeInv'
<1> USE DEF TypeInv, TypeOK, runVars, storeVars
<1>1. put[u] \in [loaded : PolicyRows \cup {None}, new : PolicyRows] /\ put[u] # None
  BY DEF RetentionTypeOK, PutCommit
<1>2. policy \in PolicyRows \cup {None} /\ (put[u].loaded # None => policy # None)
  BY <1>1 DEF RetentionTypeOK, PolicyStays
<1>3. policy' \in PolicyRows
  <2>1. CASE put[u].loaded # None
    BY <1>1, <1>2, <2>1, FlushedPolicy DEF PutCommit
  <2>2. CASE put[u].loaded = None
    BY <1>1, <1>2, <2>2 DEF PutCommit
  <2> QED  BY <2>1, <2>2
<1>4. policy' # None
  BY <1>3, NoPolicyAssumption
<1>5. RetentionTypeOK'
  BY <1>3 DEF RetentionTypeOK, PutCommit
<1>6. PlansNamed' /\ LoadedPlanned' /\ PolicyStays'
  BY <1>4 DEF RetentionTypeOK, PlansNamed, LoadedPlanned, PolicyStays, PutCommit
<1> QED  BY <1>5, <1>6, RetentionFrame DEF PutCommit

LEMMA RequestRunType ==
    ASSUME TypeInv, NEW k \in Runs, NEW mode \in DispatchModes, RequestRun(k, mode),
           UNCHANGED <<ingestionVars, check, crashes>>
    PROVE  TypeInv'
<1> USE DEF TypeInv, TypeOK, RequestRun, storeVars
<1>1. RetentionTypeOK'
  BY DEF RetentionTypeOK, Steps
<1>2. PlansNamed' /\ LoadedPlanned' /\ PolicyStays'
  BY DEF RetentionTypeOK, PlansNamed, LoadedPlanned, PolicyStays
<1> QED  BY <1>1, <1>2, RetentionFrame

\* A slot whose session was closed has nothing planned and nothing loaded.
LEMMA ResetType ==
    ASSUME TypeInv, NEW k \in Runs, NEW next \in Steps, Reset(k, next),
           step[k] # "idle", UNCHANGED <<policy, put>>
    PROVE  /\ step' \in [Runs -> Steps]
           /\ seen' \in [Runs -> PolicyRows \cup {None}]
           /\ cutoff' \in [Runs -> Int]
           /\ plan' \in [Runs -> [Apps -> Plans \cup {None}]]
           /\ loaded' \in [Runs -> [app : Apps, row : Checkpoints \cup {None}] \cup {None}]
           /\ retries' \in [Runs -> Nat]
           /\ PolicyStays'
           /\ plan' = [plan EXCEPT ![k] = Unplanned]
           /\ loaded' = [loaded EXCEPT ![k] = None]
           /\ step' = [step EXCEPT ![k] = next]
<1> USE DEF TypeInv, TypeOK, RetentionTypeOK, Reset
<1>1. Unplanned \in [Apps -> Plans \cup {None}]
  BY DEF Unplanned
<1>2. PolicyStays'
  BY DEF PolicyStays
<1>3. plan' \in [Runs -> [Apps -> Plans \cup {None}]]
  BY <1>1
<1>4. /\ step' \in [Runs -> Steps]
      /\ seen' \in [Runs -> PolicyRows \cup {None}]
      /\ cutoff' \in [Runs -> Int]
  OBVIOUS
<1>5. /\ loaded' \in [Runs -> [app : Apps, row : Checkpoints \cup {None}] \cup {None}]
      /\ retries' \in [Runs -> Nat]
  OBVIOUS
<1> QED  BY <1>2, <1>3, <1>4, <1>5

LEMMA ResetPlans ==
    ASSUME TypeInv, NEW k \in Runs, plan' = [plan EXCEPT ![k] = Unplanned],
           loaded' = [loaded EXCEPT ![k] = None], UNCHANGED log,
           NEW next \in Steps, step' = [step EXCEPT ![k] = next],
           \A a \in Apps : checkpoint[a] # None => checkpoint'[a] # None
    PROVE  PlansNamed' /\ LoadedPlanned'
<1> USE DEF TypeInv, TypeOK, RetentionTypeOK
<1>1. PlansNamed'
  BY DEF PlansNamed, Unplanned
<1>2. LoadedPlanned'
  <2> SUFFICES ASSUME NEW j \in Runs, loaded'[j] # None
               PROVE  /\ step'[j] = "plan"
                      /\ plan'[j][loaded'[j].app] # None
                      /\ plan'[j][loaded'[j].app].ids # {}
                      /\ loaded'[j].row # None => checkpoint'[loaded'[j].app] # None
    BY DEF LoadedPlanned
  <2>1. j # k /\ loaded'[j] = loaded[j] /\ plan'[j] = plan[j] /\ step'[j] = step[j]
    OBVIOUS
  <2>2. loaded[j].app \in Apps
    BY <2>1
  <2> QED  BY <2>1, <2>2 DEF LoadedPlanned
<1> QED  BY <1>1, <1>2

LEMMA HoldStopsType ==
    ASSUME TypeInv, NEW k \in Runs, HoldStopsRun(k), UNCHANGED <<ingestionVars, check, crashes>>
    PROVE  TypeInv'
<1>1. CASE retries' = [retries EXCEPT ![k] = @ + 1] /\ UNCHANGED <<step, seen, cutoff, plan, loaded>>
  <2>1. RetentionTypeOK'
    BY <1>1 DEF TypeInv, TypeOK, RetentionTypeOK, HoldStopsRun, storeVars
  <2>2. PlansNamed' /\ LoadedPlanned' /\ PolicyStays'
    BY <1>1 DEF TypeInv, PlansNamed, LoadedPlanned, PolicyStays, HoldStopsRun, storeVars
  <2> QED  BY <2>1, <2>2, RetentionFrame DEF HoldStopsRun, storeVars, TypeInv, TypeOK
<1>2. CASE Reset(k, "idle")
  <2>1. "idle" \in Steps /\ step[k] # "idle" /\ UNCHANGED <<policy, put, started, overtaken, storeVars>>
    BY DEF HoldStopsRun, Steps
  <2>2. RetentionTypeOK' /\ PolicyStays'
    BY <1>2, <2>1, ResetType DEF TypeInv, TypeOK, RetentionTypeOK, storeVars
  <2>3. PlansNamed' /\ LoadedPlanned'
    BY <1>2, <2>1, ResetType, ResetPlans DEF storeVars
  <2> QED  BY <2>1, <2>2, <2>3, RetentionFrame DEF storeVars, TypeInv, TypeOK
<1> QED  BY <1>1, <1>2 DEF HoldStopsRun

LEMMA ExecuteType ==
    ASSUME TypeInv, NEW k \in Runs, ExecuteRetention(k), UNCHANGED <<ingestionVars, check, crashes>>
    PROVE  TypeInv'
<1> USE DEF TypeInv, TypeOK, storeVars
<1>1. PolicyRead(k) \in PolicyRows
  BY DEF RetentionTypeOK, ExecuteRetention, PolicyStays, PolicyRead
<1>2. \A skew \in 0..MaxSkew : now + skew - PolicyRead(k).retention_days \in Int
  BY <1>1 DEF PolicyRows, StoreTypeOK
<1>3. RetentionTypeOK'
  <2>1. PICK at \in Int : cutoff' = [cutoff EXCEPT ![k] = at]
    BY <1>2 DEF ExecuteRetention
  <2> QED  BY <2>1 DEF RetentionTypeOK, ExecuteRetention, Steps
<1>4. PlansNamed' /\ LoadedPlanned' /\ PolicyStays'
  BY DEF RetentionTypeOK, PlansNamed, LoadedPlanned, PolicyStays, ExecuteRetention
<1> QED  BY <1>3, <1>4, RetentionFrame DEF ExecuteRetention

\* A plan removes rows the application has, and is anchored in one of them.
LEMMA PlanType ==
    ASSUME StoreTypeOK, StampsBounded, NEW a \in Apps, NEW cutoff_at \in Int
    PROVE  LET p == PlanFor(a, live[a], cutoff_at)
           IN  /\ p \in Plans
               /\ p.ids \subseteq live[a]
               /\ p.ids # {} => /\ LastOf(a, p.ids) \in p.ids
                                /\ p.anchor_hash = log[a][LastOf(a, p.ids)].event_hash
                                /\ p.anchor_hash \in Hashes
<1> DEFINE expired == contiguous_expired_prefix(a, live[a], cutoff_at)
           p == PlanFor(a, live[a], cutoff_at)
<1>1. expired \subseteq live[a] /\ expired \subseteq DOMAIN log[a] /\ expired \in SUBSET Nat
  BY DEF contiguous_expired_prefix, StoreTypeOK
<1>2. p.ids = expired
  BY DEF PlanFor, PlanOf
<1>3. CASE expired = {}
  BY <1>1, <1>3 DEF PlanFor, PlanOf, Plans
<1>4. CASE expired # {}
  <2> HIDE DEF expired
  <2>1. LastOf(a, expired) \in expired
    BY <1>1, <1>4, LastOfIsLast
  <2>2. log[a][LastOf(a, expired)] \in Events
    <3>1. log[a] \in Seq(Events) /\ LastOf(a, expired) \in DOMAIN log[a]
      BY <1>1, <2>1 DEF StoreTypeOK
    <3> HIDE DEF p
    <3> QED  BY <3>1
  <2>3. p = [ids |-> expired, anchor_hash |-> log[a][LastOf(a, expired)].event_hash,
             removed_through_at |-> log[a][LastOf(a, expired)].occurred_at]
    BY <1>4 DEF PlanFor, PlanOf, expired
  <2> QED  BY <1>1, <1>4, <2>1, <2>2, <2>3 DEF Events, Plans
<1> QED  BY <1>1, <1>2, <1>3, <1>4

LEMMA PlanApplicationType ==
    ASSUME TypeInv, NEW k \in Runs, NEW a \in Apps, PlanApplication(k, a),
           UNCHANGED <<ingestionVars, check, crashes>>
    PROVE  TypeInv'
<1> DEFINE p == PlanFor(a, live[a], cutoff[k])
<1>1. StoreTypeOK /\ StampsBounded /\ cutoff[k] \in Int /\ live[a] \subseteq DOMAIN log[a]
  BY DEF TypeInv, TypeOK, RetentionTypeOK, StoreTypeOK
<1>2. p \in Plans /\ p.ids \subseteq DOMAIN log[a] /\ (p.ids # {} => p.anchor_hash \in Hashes)
  BY <1>1, PlanType
<1>3. plan' = [plan EXCEPT ![k][a] = p] /\ plan[k][a] = None
  BY DEF PlanApplication
<1> HIDE DEF p
<1>4. RetentionTypeOK'
  BY <1>2, <1>3 DEF TypeInv, TypeOK, RetentionTypeOK, PlanApplication, storeVars
<1>5. PlansNamed'
  BY <1>2, <1>3 DEF TypeInv, TypeOK, RetentionTypeOK, PlansNamed, PlanApplication, storeVars
<1>6. LoadedPlanned'
  <2> SUFFICES ASSUME NEW j \in Runs, loaded[j] # None
               PROVE  /\ step'[j] = "plan"
                      /\ plan'[j][loaded[j].app] # None
                      /\ plan'[j][loaded[j].app].ids # {}
                      /\ loaded[j].row # None => checkpoint[loaded[j].app] # None
    BY DEF LoadedPlanned, PlanApplication, storeVars
  <2>1. /\ step'[j] = "plan"
        /\ plan[j][loaded[j].app] # None
        /\ plan[j][loaded[j].app].ids # {}
        /\ loaded[j].row # None => checkpoint[loaded[j].app] # None
        /\ loaded[j].app \in Apps
    BY DEF TypeInv, TypeOK, RetentionTypeOK, LoadedPlanned, PlanApplication
  <2>2. plan'[j][loaded[j].app] = plan[j][loaded[j].app]
    BY <1>3, <2>1 DEF TypeInv, TypeOK, RetentionTypeOK
  <2> QED  BY <2>1, <2>2
<1>7. PolicyStays'
  BY DEF TypeInv, PolicyStays, PlanApplication
<1> QED
  BY <1>4, <1>5, <1>6, <1>7, RetentionFrame DEF PlanApplication, storeVars, TypeInv, TypeOK

LEMMA ReadCheckpointType ==
    ASSUME TypeInv, NEW k \in Runs, NEW a \in Apps, ReadCheckpoint(k, a),
           UNCHANGED <<ingestionVars, check, crashes>>
    PROVE  TypeInv'
<1> USE DEF TypeInv, TypeOK, ReadCheckpoint, storeVars
<1>1. plan[k][a] # None /\ plan[k][a].ids # {}
  BY DEF Planned, Remaining
<1>2. checkpoint[a] \in Checkpoints \cup {None}
  BY DEF StoreTypeOK
<1>3. RetentionTypeOK'
  BY <1>2 DEF RetentionTypeOK
<1>4. PlansNamed' /\ PolicyStays'
  BY DEF PlansNamed, PolicyStays
<1>5. LoadedPlanned'
  BY <1>1 DEF RetentionTypeOK, LoadedPlanned
<1> QED  BY <1>3, <1>4, <1>5, RetentionFrame

\* The checkpoint a run is about to write, and the write it makes.
LEMMA WriteType ==
    ASSUME TypeInv, NEW k \in Runs, loaded[k] # None
    PROVE  LET a == loaded[k].app
               row == loaded[k].row
           IN  /\ a \in Apps
               /\ plan[k][a] \in Plans
               /\ NewCheckpoint(k) \in Checkpoints
               /\ row # None => Flushed(checkpoint[a], row, NewCheckpoint(k)) \in Checkpoints
<1> DEFINE a == loaded[k].app
           row == loaded[k].row
           p == plan[k][a]
<1>1. a \in Apps /\ row \in Checkpoints \cup {None}
  BY DEF TypeInv, TypeOK, RetentionTypeOK
<1>2. p \in Plans /\ p.ids # {} /\ p.ids \subseteq DOMAIN log[a] /\ p.anchor_hash \in Hashes
  BY <1>1 DEF TypeInv, TypeOK, RetentionTypeOK, LoadedPlanned, PlansNamed
<1>3. Cardinality(p.ids) \in Nat
  <2>1. log[a] \in Seq(Events)
    BY <1>1 DEF TypeInv, TypeOK, StoreTypeOK
  <2>2. Len(log[a]) \in Nat /\ DOMAIN log[a] = 1..Len(log[a])
    BY <2>1
  <2>3. IsFiniteSet(DOMAIN log[a])
    BY <2>2, FS_Interval
  <2> QED  BY <1>2, <2>3, FS_Subset, FS_CardinalityType
<1>4. (IF row = None THEN 0 ELSE row.removed_event_count) \in Nat
  BY <1>1 DEF Checkpoints
<1>5. (IF row = None THEN 0 ELSE row.removed_event_count) + Cardinality(p.ids) \in Nat
  BY <1>3, <1>4
<1>6. p.removed_through_at \in Int
  BY <1>2 DEF Plans
<1>7. NewCheckpoint(k) \in Checkpoints
  BY <1>2, <1>5, <1>6 DEF NewCheckpoint, Checkpoints
<1>8. row # None => checkpoint[a] \in Checkpoints
  BY <1>1 DEF TypeInv, TypeOK, StoreTypeOK, LoadedPlanned
<1>9. row # None => Flushed(checkpoint[a], row, NewCheckpoint(k)) \in Checkpoints
  BY <1>1, <1>7, <1>8, FlushedCheckpoint
<1> QED  BY <1>1, <1>2, <1>7, <1>9

LEMMA WriteCheckpointType ==
    ASSUME TypeInv, NEW k \in Runs, WriteCheckpoint(k), UNCHANGED <<ingestionVars, check, crashes>>
    PROVE  TypeInv'
<1> DEFINE a == loaded[k].app
           row == loaded[k].row
           w == [run |-> k, inserted |-> row = None, ids |-> Deleted(k, a),
                 checkpoint |-> IF row = None THEN NewCheckpoint(k)
                                ELSE Flushed(checkpoint[a], row, NewCheckpoint(k))]
<1>1. /\ a \in Apps /\ plan[k][a] \in Plans
      /\ NewCheckpoint(k) \in Checkpoints
      /\ row # None => Flushed(checkpoint[a], row, NewCheckpoint(k)) \in Checkpoints
  BY WriteType DEF WriteCheckpoint
<1>2. w \in Writes
  BY <1>1 DEF Writes, Plans, Deleted
<1>3. uncommitted' = [uncommitted EXCEPT ![a] = w] /\ loaded' = [loaded EXCEPT ![k] = None]
  BY DEF WriteCheckpoint
<1> HIDE DEF w, a, row
<1>4. RetentionTypeOK'
  BY <1>1, <1>2, <1>3 DEF TypeInv, TypeOK, RetentionTypeOK, WriteCheckpoint
<1>5. PlansNamed' /\ PolicyStays'
  BY DEF TypeInv, PlansNamed, PolicyStays, WriteCheckpoint
<1>6. LoadedPlanned'
  BY <1>3 DEF TypeInv, TypeOK, RetentionTypeOK, LoadedPlanned, WriteCheckpoint
<1> QED  BY <1>4, <1>5, <1>6, RetentionFrame DEF WriteCheckpoint, TypeInv, TypeOK

LEMMA AbortRunType ==
    ASSUME TypeInv, NEW k \in Runs, NEW next \in Steps, AbortRun(k, next), step[k] # "idle",
           UNCHANGED <<ingestionVars, check>>, crashes' \in Nat
    PROVE  TypeInv'
<1> USE DEF AbortRun
<1>1. uncommitted' \in [Apps -> Writes \cup {None}]
  BY DEF TypeInv, TypeOK, RetentionTypeOK, Rollback
<1>2. RetentionTypeOK' /\ PolicyStays'
  BY <1>1, ResetType DEF TypeInv, TypeOK, RetentionTypeOK
<1>3. PlansNamed' /\ LoadedPlanned'
  BY ResetType, ResetPlans
<1> QED  BY <1>2, <1>3, RetentionFrame

LEMMA CommitRunType ==
    ASSUME TypeInv, NEW k \in Runs, CommitRun(k), UNCHANGED <<ingestionVars, check, crashes>>
    PROVE  TypeInv'
<1> DEFINE next == IF seen[k] = None THEN "acknowledge" ELSE "idle"
<1>1. next \in Steps /\ Reset(k, next) /\ step[k] # "idle"
      /\ UNCHANGED <<policy, put, started, log, now, exclusive>>
  BY DEF CommitRun, Steps
<1>2. uncommitted' \in [Apps -> Writes \cup {None}]
  BY DEF TypeInv, TypeOK, RetentionTypeOK, CommitRun, Rollback
<1>3. \A a \in Apps : Wrote(k, a) => uncommitted[a].checkpoint \in Checkpoints
  BY DEF TypeInv, TypeOK, RetentionTypeOK, Wrote, Writes
<1>4. \A a \in Apps : checkpoint'[a] = IF Wrote(k, a) THEN uncommitted[a].checkpoint ELSE checkpoint[a]
  BY DEF CommitRun
<1>5. RetentionTypeOK' /\ PolicyStays'
  <2>1. overtaken' \in SUBSET Apps
    BY DEF TypeInv, TypeOK, RetentionTypeOK, CommitRun
  <2> QED  BY <1>1, <1>2, <2>1, ResetType DEF TypeInv, TypeOK, RetentionTypeOK
<1>6. \A a \in Apps : checkpoint[a] # None => checkpoint'[a] # None
  BY <1>3, <1>4, NoneAssumption
<1>7. PlansNamed' /\ LoadedPlanned'
  BY <1>1, <1>6, ResetType, ResetPlans
<1>8. StoreTypeOK'
  <2>1. live' \in [Apps -> SUBSET Nat] /\ \A a \in Apps : live'[a] \subseteq live[a]
    BY DEF TypeInv, TypeOK, StoreTypeOK, CommitRun
  <2>2. checkpoint' \in [Apps -> Checkpoints \cup {None}]
    BY <1>3 DEF TypeInv, TypeOK, StoreTypeOK, CommitRun
  <2> QED  BY <1>1, <2>1, <2>2 DEF TypeInv, TypeOK, StoreTypeOK
<1>9. IngestionTypeOK' /\ StampsBounded' /\ InFlight'
  BY <1>1 DEF TypeInv, TypeOK, IngestionTypeOK, StampsBounded, InFlight, ingestionVars
<1> QED  BY <1>5, <1>7, <1>8, <1>9 DEF TypeInv, TypeOK

LEMMA AcknowledgeType ==
    ASSUME TypeInv, NEW k \in Runs, Acknowledge(k), UNCHANGED <<ingestionVars, check, crashes>>
    PROVE  TypeInv'
<1>1. /\ "idle" \in Steps /\ Reset(k, "idle") /\ step[k] # "idle"
      /\ UNCHANGED <<policy, put, started, overtaken, storeVars>>
  BY DEF Acknowledge, Steps
<1>2. RetentionTypeOK' /\ PolicyStays'
  BY <1>1, ResetType DEF TypeInv, TypeOK, RetentionTypeOK, storeVars
<1>3. PlansNamed' /\ LoadedPlanned'
  BY <1>1, ResetType, ResetPlans DEF storeVars
<1> QED  BY <1>1, <1>2, <1>3, RetentionFrame DEF storeVars, TypeInv, TypeOK

-----------------------------------------------------------------------------
(* Every step preserves the types.                                         *)

LEMMA RequestNextType ==
    ASSUME TypeInv, NEW r \in Requests, RequestNext(r)
    PROVE  TypeInv'
<1>1. CASE \E a \in Apps, post \in Posts : Receive(r, a, post)
  BY <1>1, ReceiveType DEF RequestNext
<1>2. CASE LookupExisting(r)
  BY <1>2, LookupType DEF RequestNext
<1>3. CASE LockApplication(r)
  BY <1>3, LockType DEF RequestNext
<1>4. CASE ReadLatest(r)
  BY <1>4, LatestType DEF RequestNext
<1>5. CASE InsertEvent(r)
  BY <1>5, InsertType DEF RequestNext
<1>6. CASE InsertViolatesUnique(r)
  BY <1>6, ViolatesUniqueType DEF RequestNext
<1>7. CASE RefreshEvent(r)
  BY <1>7, RefreshType DEF RequestNext
<1> QED
  BY <1>1, <1>2, <1>3, <1>4, <1>5, <1>6, <1>7 DEF RequestNext, RequestStep

LEMMA RunNextType ==
    ASSUME TypeInv, NEW k \in Runs, RunNext(k)
    PROVE  TypeInv'
<1>0. UNCHANGED <<ingestionVars, check, crashes>> /\ crashes' \in Nat /\ "idle" \in Steps
  BY DEF RunNext, TypeInv, TypeOK, Steps
<1>1. CASE \E mode \in DispatchModes : RequestRun(k, mode)
  BY <1>0, <1>1, RequestRunType
<1>2. CASE HoldStopsRun(k)
  BY <1>0, <1>2, HoldStopsType
<1>3. CASE ExecuteRetention(k)
  BY <1>0, <1>3, ExecuteType
<1>4. CASE \E a \in Apps : PlanApplication(k, a) \/ ReadCheckpoint(k, a)
  BY <1>0, <1>4, PlanApplicationType, ReadCheckpointType
<1>5. CASE WriteCheckpoint(k)
  BY <1>0, <1>5, WriteCheckpointType
<1>6. CASE AbortRun(k, "idle") /\ loaded[k] # None
  <2>1. step[k] # "idle"
    BY <1>6 DEF TypeInv, LoadedPlanned
  <2> QED  BY <1>0, <1>6, <2>1, AbortRunType
<1>7. CASE CommitRun(k)
  BY <1>0, <1>7, CommitRunType
<1>8. CASE Acknowledge(k)
  BY <1>0, <1>8, AcknowledgeType
<1> QED
  BY <1>1, <1>2, <1>3, <1>4, <1>5, <1>6, <1>7, <1>8
  DEF RunNext, RunStep, CheckpointExists, DeadlockVictim, Waits

LEMMA OtherNextType ==
    ASSUME TypeInv,
           \/ Tick /\ UNCHANGED <<ingestionVars, retentionVars, check, crashes>>
           \/ \E v \in Verifiers : VerifierNext(v)
           \/ UNCHANGED vars
    PROVE  TypeInv'
<1> USE DEF TypeInv, TypeOK, storeVars, ingestionVars, retentionVars, runVars
<1>1. /\ UNCHANGED <<log, live, checkpoint, exclusive, uncommitted,
                     ingestionVars, retentionVars, crashes>>
      /\ now' \in Nat /\ now <= now'
  BY DEF Tick, VerifierNext, ReadEvents, ReadCheckpointAndAnswer, vars, StoreTypeOK
<1>2. StoreTypeOK' /\ IngestionTypeOK' /\ RetentionTypeOK'
  BY <1>1 DEF StoreTypeOK, IngestionTypeOK, RetentionTypeOK
<1>3. StampsBounded'
  BY <1>1, ClockAssumption DEF StampsBounded, StoreTypeOK
<1>4. InFlight' /\ PlansNamed' /\ LoadedPlanned' /\ PolicyStays'
  BY <1>1 DEF InFlight, PlansNamed, LoadedPlanned, PolicyStays
<1> DEFINE Reads == [app : Apps, rows : SUBSET Nat]
<1>5. check' \in [Verifiers -> Reads \cup {None}]
  <2>1. CASE UNCHANGED check
    BY <2>1
  <2>2. CASE \E v \in Verifiers, a \in Apps : ReadEvents(v, a)
    <3>1. PICK v \in Verifiers, a \in Apps : ReadEvents(v, a)
      BY <2>2
    <3>2. [app |-> a, rows |-> live[a]] \in Reads
      BY DEF StoreTypeOK
    <3> HIDE DEF Reads
    <3> QED  BY <3>1, <3>2 DEF ReadEvents, Reads
  <2>3. CASE \E v \in Verifiers : ReadCheckpointAndAnswer(v)
    <3> HIDE DEF Reads
    <3> QED  BY <2>3 DEF ReadCheckpointAndAnswer, Reads
  <2> QED  BY <2>1, <2>2, <2>3 DEF VerifierNext, Tick, vars
<1> QED  BY <1>1, <1>2, <1>3, <1>4, <1>5

LEMMA CrashType == TypeInv /\ Crash => TypeInv'
<1> SUFFICES ASSUME TypeInv, Crash
             PROVE  TypeInv'
  OBVIOUS
<1>1. UNCHANGED check /\ crashes' \in Nat
  BY DEF Crash, TypeInv, TypeOK
<1>2. CASE (\E r \in Requests : AbortRequest(r, "lost")) /\ UNCHANGED retentionVars
  BY <1>1, <1>2, AbortRequestType DEF Responses
<1>3. CASE (\E k \in Runs : CrashRun(k)) /\ UNCHANGED ingestionVars
  <2>1. PICK k \in Runs : CrashRun(k)
    BY <1>3
  <2>2. (IF seen[k] = None THEN "start" ELSE "idle") \in Steps
    BY DEF Steps
  <2> QED  BY <1>1, <1>3, <2>1, <2>2, AbortRunType DEF CrashRun
<1> QED  BY <1>2, <1>3 DEF Crash

LEMMA TypeStep == TypeInv /\ [Next]_vars => TypeInv'
<1> SUFFICES ASSUME TypeInv, [Next]_vars
             PROVE  TypeInv'
  OBVIOUS
<1>1. CASE \E r \in Requests : RequestNext(r)
  BY <1>1, RequestNextType
<1>2. CASE \E k \in Runs : RunNext(k)
  BY <1>2, RunNextType
<1>3. CASE \E u \in Admins : AdminNext(u)
  BY <1>3, PutLoadType, PutCommitType DEF AdminNext
<1>4. CASE Crash
  BY <1>4, CrashType
<1>5. CASE \/ Tick /\ UNCHANGED <<ingestionVars, retentionVars, check, crashes>>
           \/ \E v \in Verifiers : VerifierNext(v)
           \/ UNCHANGED vars
  BY <1>5, OtherNextType
<1> QED  BY <1>1, <1>2, <1>3, <1>4, <1>5 DEF Next

THEOREM TypeInvariance == Spec => []TypeInv
<1>1. Init => TypeInv
  BY TypeInit
<1>2. TypeInv /\ [Next]_vars => TypeInv'
  BY TypeStep
<1> QED  BY <1>1, <1>2, PTL DEF Spec

\* Type correctness, for any number of applications, requests, runs and
\* administrators, any clock skew, and any crashes.
THEOREM TypeCorrect == Spec => []TypeOK
<1>1. TypeInv => TypeOK
  BY DEF TypeInv
<1> QED  BY <1>1, TypeInvariance, PTL
=============================================================================
