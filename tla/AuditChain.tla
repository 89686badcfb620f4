----------------------------- MODULE AuditChain -----------------------------
(***************************************************************************)
(* Ingestion, retention and verification over the same tables: API         *)
(* replicas answering writers and verifiers, and retention runs inline or  *)
(* in Celery workers, interleaved statement by statement.                  *)
(***************************************************************************)
EXTENDS Ingestion, Retention, Verification

CONSTANT MaxCrashes   \* bound on process crashes

ASSUME CrashAssumption == MaxCrashes \in Nat

VARIABLE crashes

vars == <<storeVars, ingestionVars, retentionVars, check, crashes>>

Init == /\ StoreInit /\ IngestionInit /\ RetentionInit /\ VerificationInit
        /\ crashes = 0

-----------------------------------------------------------------------------
RequestNext(r) ==
    /\ \/ \E a \in Apps, post \in Posts : Receive(r, a, post)
       \/ RequestStep(r)
    /\ UNCHANGED <<retentionVars, check, crashes>>

RunNext(k) ==
    /\ \/ \E mode \in DispatchModes : RequestRun(k, mode)
       \/ RunStep(k)
    /\ UNCHANGED <<ingestionVars, check, crashes>>

AdminNext(u) ==
    /\ \/ \E new \in Policies : PutLoad(u, new)
       \/ PutCommit(u)
    /\ UNCHANGED <<ingestionVars, check, crashes>>

VerifierNext(v) ==
    /\ \/ \E a \in Apps : ReadEvents(v, a)
       \/ ReadCheckpointAndAnswer(v)
    /\ UNCHANGED <<ingestionVars, retentionVars, crashes>>

Crash ==
    /\ crashes < MaxCrashes
    /\ crashes' = crashes + 1
    /\ \/ (\E r \in Requests : AbortRequest(r, "lost")) /\ UNCHANGED retentionVars
       \/ (\E k \in Runs : CrashRun(k)) /\ UNCHANGED ingestionVars
    /\ UNCHANGED check

Next ==
    \/ Tick /\ UNCHANGED <<ingestionVars, retentionVars, check, crashes>>
    \/ \E r \in Requests : RequestNext(r)
    \/ \E k \in Runs : RunNext(k)
    \/ \E u \in Admins : AdminNext(u)
    \/ \E v \in Verifiers : VerifierNext(v)
    \/ Crash

Spec == Init /\ [][Next]_vars

-----------------------------------------------------------------------------
(* Properties.                                                             *)

\* Every variable has its type; rows and locks are named by things that exist.
TypeOK ==
    /\ StoreTypeOK
    /\ IngestionTypeOK
    /\ RetentionTypeOK
    /\ check \in [Verifiers -> [app : Apps, rows : SUBSET Nat] \cup {None}]
    /\ crashes \in Nat

\* Retention removes from the old end only: whatever the interleaving of
\* writers and runs, no retained event follows a removed one
\* (contiguous_expired_prefix and the DELETE of the ids it planned).
RetainedIsSuffix ==
    \A a \in Apps : \A i \in live[a], j \in DOMAIN log[a] : i <= j => j \in live[a]

\* Two retained events that were committed one after the other are linked:
\* writers and runs never fork or cut the chain (FOR UPDATE, then latest).
ChainLinked ==
    \A a \in Apps : \A i \in live[a] :
        i + 1 \in live[a] => log[a][i + 1].previous_hash = log[a][i].event_hash

\* Row i, committed after row p, precedes it in the order of received_at: the
\* clock of its replica was behind, by no more than two clocks may differ.
Behind(a, i, p) ==
    log[a][i].received_at \in (log[a][p].received_at - MaxSkew)..log[a][p].received_at

\* However far the clocks of the replicas differ and runs overlap, retention
\* removes the old end of an application's trail but for clock skew: a removed
\* event that was committed after a retained one is stamped at most MaxSkew
\* before it (ORDER BY received_at in contiguous_expired_prefix).
RemovedAreOldest ==
    \A a \in Apps : \A i \in live[a], j \in DOMAIN log[a] \ live[a] :
        i < j => Behind(a, j, i)

\* Row n was built on row p, and every row committed between them is behind p.
BuiltOn(a, n, p) ==
    /\ log[a][n].previous_hash = log[a][p].event_hash
    /\ \A i \in (p + 1)..(n - 1) : Behind(a, i, p)

\* However far the clocks of the replicas differ, a fork of the chain is local:
\* a new event passes over no event but those stamped within MaxSkew before the
\* one it builds on, and it starts from genesis only when retention has removed
\* every earlier event (FOR UPDATE, then ORDER BY received_at DESC).
ForksAreRecent ==
    \A a \in Apps : \A n \in DOMAIN log[a] :
        \/ log[a][n].previous_hash = None /\ live[a] \cap 1..(n - 1) = {}
        \/ \E p \in 1..(n - 1) : BuiltOn(a, n, p)

\* An application never holds two events with one external id, although
\* the lookup of ingest_event runs before its lock.
OneRowPerExternalId ==
    \A a \in Apps : \A i, j \in live[a] :
        log[a][i].external_id = log[a][j].external_id => i = j

ItemOf(r, n) == request[r].items[n]
AnsweredItems(r) == DOMAIN results[r]

\* Some committed row has the id of the item and other content.
Contradicted(r, n) ==
    \E i \in DOMAIN log[App(r)] :
        /\ log[App(r)][i].external_id = ItemOf(r, n).event_id
        /\ log[App(r)][i].content_hash # content_digest(ItemOf(r, n))

\* What a client is told is true of the trail: an accepted or duplicate item
\* is a committed row with exactly its content, and one rejected in a batch or
\* answered with 409 met a row with its id and other content.
OutcomesAreTrue ==
    \A r \in Requests :
        /\ \A n \in AnsweredItems(r) :
            LET outcome == results[r][n]
            IN  IF outcome.status = "rejected" THEN Contradicted(r, n)
                ELSE /\ outcome.stored \in DOMAIN log[App(r)]
                     /\ log[App(r)][outcome.stored].content_hash = content_digest(ItemOf(r, n))
        /\ response[r] = "conflict" => Contradicted(r, Len(results[r]) + 1)

\* No two items are told that they created the same row: a retry of an
\* event that is already stored is never reported as new.
AcceptedOnce ==
    \A r, q \in Requests : \A n \in AnsweredItems(r), m \in AnsweredItems(q) :
        /\ App(r) = App(q)
        /\ results[r][n].status = "accepted" /\ results[q][m].status = "accepted"
        /\ results[r][n].stored = results[q][m].stored
        => r = q /\ n = m

\* A checkpoint exists as soon as something was removed, and its anchor is
\* the hash of a removed event, however runs overlap.
AnchorNamesRemovedEvent ==
    \A a \in Apps :
        IF checkpoint[a] = None THEN live[a] = DOMAIN log[a]
        ELSE \E i \in DOMAIN log[a] \ live[a] : log[a][i].event_hash = checkpoint[a].anchor_hash
\* What remains of a chain that had been emptied: a retained row, not the
\* first of its application, that was built on no predecessor.
Restarted(a) == \E i \in live[a] : i > 1 /\ log[a][i].previous_hash = None

\* If runs do not overlap, verify-chain answers valid = FALSE for two reasons
\* only: a run committed between its two reads, or the chain had been emptied
\* by retention and restarted from genesis behind a checkpoint.
InvalidVerdictExplained ==
    \A v \in Verifiers :
        check[v] # None /\ ~Verdict(v)
        => Restarted(check[v].app) \/ ~(check[v].rows \subseteq live[check[v].app])

\* removed_event_count, which a run reads in one statement and writes in
\* another, is the number of events gone, unless a run of the application has
\* committed while another had planned, but not committed, a removal from it:
\* nothing else loses or repeats an increment, neither the writers, nor runs that
\* overlap otherwise, nor a crash after which a run is delivered again.
CheckpointCountsRemovals ==
    \A a \in Apps : checkpoint[a] # None /\ a \notin overtaken =>
        checkpoint[a].removed_event_count = Cardinality(DOMAIN log[a] \ live[a])

\* If runs do not overlap, the retention_runs row that a run commits states
\* the number of events that disappear with its commit.
DeletedCountIsTrue ==
    [][\A k \in Runs : CommitRun(k) =>
         RunRow(k).deleted_count =
            Cardinality(UNION {{a} \X (live[a] \ live'[a]) : a \in Apps})]_vars

-----------------------------------------------------------------------------
(* The trail implements the ledger of AuditLog: hashes, locks, statements  *)
(* and transactions forgotten, the rows are its entries and retention its  *)
(* trimming.                                                               *)

MinRetention == CHOOSE d \in {p.retention_days : p \in Policies} :
                    \A p \in Policies : d <= p.retention_days

\* What retention guarantees when the clock of a worker may be fast.
MinAge == MinRetention - MaxSkew

Ledger == INSTANCE AuditLog WITH
    Entries <- Digests,
    ledger <- [a \in Apps |-> [i \in DOMAIN log[a] |-> log[a][i].content_hash]],
    trimmed <- [a \in Apps |-> Len(log[a]) - Cardinality(live[a])],
    clock <- now

\* Every behaviour of ingestion and retention is one of the abstract ledger:
\* entries are appended once and unaltered, and only an expired prefix goes.
ImplementsAuditLog == Ledger!Spec

\* The retained rows and the calls as a client sees them.
RetainedRows(a) == {[place |-> i, entry |-> log[a][i].content_hash] : i \in live[a]}

CallOf(r) ==
    IF phase[r] = "idle" THEN None
    ELSE [app |-> request[r].app, batch |-> request[r].batch,
          items |-> [n \in DOMAIN request[r].items |-> content_digest(request[r].items[n])]]

AnswerOf(r) == IF phase[r] = "idle" THEN "uncalled" ELSE response[r]

Service == INSTANCE EventService WITH
    Entries <- Digests,
    clock <- now,
    retained <- [a \in Apps |-> RetainedRows(a)],
    count <- [a \in Apps |-> Len(log[a])],
    call <- [r \in Requests |-> CallOf(r)],
    created <- stored,
    outcomes <- results,
    answer <- [r \in Requests |-> AnswerOf(r)]

\* Ingestion is linearizable, whatever the clocks of the replicas say and
\* however runs overlap: every item takes effect at one moment of its call,
\* although ingest_event looks its id up in one statement, inserts it in
\* another, and reads the row again in another transaction; and only events
\* disappear that had expired by a clock at most MaxSkew fast (MinAge).
ImplementsEventService == Service!Spec

\* Legal holds block deletion: while the policy in force holds, no step
\* removes an event (docs/operations.md, Retention execution).
HoldBlocksDeletion ==
    [][policy # None /\ policy.legal_hold => \A a \in Apps : live[a] \subseteq live'[a]]_vars

\* After retention, integrity checks verify the surviving chain against its
\* prior anchor (docs/operations.md, Retention execution).
SurvivingChainVerifies ==
    \A a \in Apps : verify_chain(a, live[a], AnchorOf(checkpoint[a]))

\* Concurrent writers cannot fork the hash chain (the comment in ingest_event):
\* no two retained events were built on the same predecessor.
NoFork ==
    \A a \in Apps : \A i, j \in live[a] :
        log[a][i].previous_hash = log[a][j].previous_hash => i = j

-----------------------------------------------------------------------------
(* Fairness: a process that is not killed runs its next statement, and a   *)
(* worker takes the next message.  PostgreSQL queues the waiters of a lock, *)
(* so one that finds it free again and again gets it in the end: strong     *)
(* fairness for the two statements that wait.  Nobody is obliged to send a  *)
(* request, change the policy, start a run or crash.                        *)
FairSpec ==
    /\ Spec
    /\ \A r \in Requests :
        /\ WF_vars(RequestStep(r) /\ UNCHANGED <<retentionVars, check, crashes>>)
        /\ SF_vars(LockApplication(r) /\ UNCHANGED <<retentionVars, check, crashes>>)
    /\ \A k \in Runs :
        /\ WF_vars(RunStep(k) /\ UNCHANGED <<ingestionVars, check, crashes>>)
        /\ SF_vars(WriteCheckpoint(k) /\ UNCHANGED <<ingestionVars, check, crashes>>)

\* Every request that was received is answered, whatever it waits for.
RequestsAnswered ==
    \A r \in Requests : phase[r] = "lookup" ~> phase[r] = "answered"

\* Every run that was started ends, by committing or by failing.
RunsFinish == \A k \in Runs : step[k] = "start" ~> step[k] = "idle"
=============================================================================
