----------------------------- MODULE Ingestion -----------------------------
(***************************************************************************)
(* POST /events and POST /events/batch: create_event, create_event_batch   *)
(* and the ingest_event transaction they share.  One action is one         *)
(* statement of the session; between two of them any other transaction may *)
(* run.  A request is one HTTP request, answered at most once.             *)
(***************************************************************************)
EXTENDS ChainStore

CONSTANTS
    Requests,   \* the HTTP requests
    Posts       \* what a request may carry: [batch, items]

ASSUME PostsAssumption ==
    \A p \in Posts : /\ DOMAIN p = {"batch", "items"} /\ p.batch \in BOOLEAN
                     /\ p.items \in Seq(Payloads) /\ Len(p.items) >= 1
                     /\ ~p.batch => Len(p.items) = 1

ASSUME NoRequestAssumption == None \notin Requests

VARIABLES
    phase,      \* request -> its next statement
    request,    \* request -> [app, batch, items], once received
    latest,     \* request -> the event_hash it read from the latest row, or None
    stored,     \* request -> position of the row it committed last, or None
    results,    \* request -> outcome of every item it has finished
    response    \* request -> what the client was told

ingestionVars == <<phase, request, latest, stored, results, response>>

RequestsReceived == [app : Apps, batch : BOOLEAN, items : Seq(Payloads)]
Phases == {"idle", "lookup", "lock", "latest", "insert", "refresh", "answered"}
Outcomes == [status : {"accepted", "duplicate", "rejected"}, stored : Nat]
Responses == {"none", "ok", "conflict", "error", "lost"}

\* The type of the request variables and of the application row locks.
IngestionTypeOK ==
    /\ exclusive \in [Apps -> Requests \cup {None}]
    /\ phase \in [Requests -> Phases]
    /\ request \in [Requests -> RequestsReceived \cup {None}]
    /\ latest \in [Requests -> Hashes \cup {None}]
    /\ stored \in [Requests -> Nat]
    /\ results \in [Requests -> Seq(Outcomes)]
    /\ response \in [Requests -> Responses]

IngestionInit ==
    /\ phase = [r \in Requests |-> "idle"]
    /\ request = [r \in Requests |-> None]
    /\ latest = [r \in Requests |-> None]
    /\ stored = [r \in Requests |-> 0]
    /\ results = [r \in Requests |-> << >>]
    /\ response = [r \in Requests |-> "none"]

App(r) == request[r].app
Item(r) == request[r].items[Len(results[r]) + 1]

\* The API key names the application; app and body arrive together.
Receive(r, a, post) ==
    /\ phase[r] = "idle"
    /\ phase' = [phase EXCEPT ![r] = "lookup"]
    /\ request' = [request EXCEPT ![r] = [app |-> a, batch |-> post.batch, items |-> post.items]]
    /\ UNCHANGED <<latest, stored, results, response, storeVars>>

\* Mutant: every stored item is reported as created.
ReportCreated(r, status, position) ==
    LET last == Len(results[r]) + 1 = Len(request[r].items)
        told == IF status = "duplicate" THEN "accepted" ELSE status
    IN  /\ results' = [results EXCEPT ![r] = Append(@, [status |-> told, stored |-> position])]
        /\ phase' = [phase EXCEPT ![r] = IF last THEN "answered" ELSE "lookup"]
        /\ response' = [response EXCEPT ![r] = IF last THEN "ok" ELSE @]

\* The item is finished: go on with the next one, or answer 200/201.
Report(r, status, position) ==
    LET last == Len(results[r]) + 1 = Len(request[r].items)
    IN  /\ results' = [results EXCEPT ![r] = Append(@, [status |-> status, stored |-> position])]
        /\ phase' = [phase EXCEPT ![r] = IF last THEN "answered" ELSE "lookup"]
        /\ response' = [response EXCEPT ![r] = IF last THEN "ok" ELSE @]

\* The request ends without reporting the item: 409, 500 or a lost answer.
Answer(r, reply) ==
    /\ phase' = [phase EXCEPT ![r] = "answered"]
    /\ response' = [response EXCEPT ![r] = reply]
    /\ UNCHANGED results

\* Mutant: the row lock outlives its transaction.
Leak(a) == UNCHANGED exclusive

\* The transaction ends: the row lock goes.
Release(a) == exclusive' = [exclusive EXCEPT ![a] = None]

\* Rollback: the row lock of the open transaction goes with it.
ReleaseOwned(r) ==
    exclusive' = [a \in Apps |-> IF exclusive[a] = r THEN None ELSE exclusive[a]]

\* SELECT the row with this external id (visible even while an open
\* retention transaction is deleting it).
LookupExisting(r) ==
    /\ phase[r] = "lookup"
    /\ LET existing == RowsNamed(App(r), Item(r).event_id)
       IN  \/ /\ existing = {}
              /\ phase' = [phase EXCEPT ![r] = "lock"]
              /\ UNCHANGED <<results, response>>
           \/ \E i \in existing :
                /\ SameContent(log[App(r)][i], Item(r))
                /\ Report(r, "duplicate", i)
           \/ \E i \in existing :
                /\ ~SameContent(log[App(r)][i], Item(r))
                /\ IF request[r].batch THEN Report(r, "rejected", 0) ELSE Answer(r, "conflict")
    /\ UNCHANGED <<request, latest, stored, storeVars>>

\* The FOR KEY SHARE lock that the foreign key of an uncommitted
\* retention_checkpoints INSERT holds on the application's row.
KeyShared(a) == uncommitted[a] # None /\ uncommitted[a].inserted

\* Mutant: FOR UPDATE is ignored, as SQLite does.
SelectApplication(r) ==
    /\ phase[r] = "lock"
    /\ exclusive' = [exclusive EXCEPT ![App(r)] = r]
    /\ phase' = [phase EXCEPT ![r] = "latest"]
    /\ UNCHANGED <<request, latest, stored, results, response,
                   log, live, checkpoint, now, uncommitted>>

\* SELECT ... FOR UPDATE of the application's row.
LockApplication(r) ==
    /\ phase[r] = "lock"
    /\ exclusive[App(r)] = None /\ ~KeyShared(App(r))
    /\ exclusive' = [exclusive EXCEPT ![App(r)] = r]
    /\ phase' = [phase EXCEPT ![r] = "latest"]
    /\ UNCHANGED <<request, latest, stored, results, response,
                   log, live, checkpoint, now, uncommitted>>

ReadLatest(r) ==
    /\ phase[r] = "latest"
    /\ latest' = [latest EXCEPT ![r] = IF live[App(r)] = {} THEN None
                    ELSE log[App(r)][LastOf(App(r), live[App(r)])].event_hash]
    /\ phase' = [phase EXCEPT ![r] = "insert"]
    /\ UNCHANGED <<request, stored, results, response, storeVars>>

\* The unique index makes an INSERT wait for an open transaction that
\* deletes the row with the same external id.
IndexBusy(a, external_id) ==
    /\ uncommitted[a] # None
    /\ RowsNamed(a, external_id) \cap uncommitted[a].ids # {}

\* INSERT and COMMIT.  The replica's clock stamps the row; two inserts of an
\* application, serialized by its lock, never see the same true time.
InsertEvent(r) ==
    /\ phase[r] = "insert"
    /\ ~NameTaken(App(r), Item(r).event_id)
    /\ \E skew \in 0..MaxSkew :
         log' = [log EXCEPT ![App(r)] = Append(@, NewEvent(Item(r), latest[r], now + skew))]
    /\ live' = [live EXCEPT ![App(r)] = @ \cup {Len(log[App(r)]) + 1}]
    /\ stored' = [stored EXCEPT ![r] = Len(log[App(r)]) + 1]
    /\ now' = now + 1
    /\ Release(App(r))
    /\ latest' = [latest EXCEPT ![r] = None]
    /\ phase' = [phase EXCEPT ![r] = "refresh"]
    /\ UNCHANGED <<request, results, response, checkpoint, uncommitted>>

\* Mutant: the IntegrityError is caught and answered with a 409.
InsertConflicts(r) ==
    /\ phase[r] = "insert"
    /\ NameTaken(App(r), Item(r).event_id)
    /\ ~IndexBusy(App(r), Item(r).event_id)
    /\ Answer(r, "conflict")
    /\ Release(App(r))
    /\ latest' = [latest EXCEPT ![r] = None]
    /\ UNCHANGED <<request, stored, log, live, checkpoint, now, uncommitted>>

\* uq_event_application_external: nobody catches the IntegrityError, so the
\* whole request, a batch too, ends with a 500.
InsertViolatesUnique(r) ==
    /\ phase[r] = "insert"
    /\ NameTaken(App(r), Item(r).event_id)
    /\ ~IndexBusy(App(r), Item(r).event_id)
    /\ Answer(r, "error")
    /\ Release(App(r))
    /\ latest' = [latest EXCEPT ![r] = None]
    /\ UNCHANGED <<request, stored, log, live, checkpoint, now, uncommitted>>

\* session.refresh(event) raises if retention has deleted the row meanwhile.
RefreshEvent(r) ==
    /\ phase[r] = "refresh"
    /\ IF stored[r] \in live[App(r)] THEN Report(r, "accepted", stored[r])
                                     ELSE Answer(r, "error")
    /\ stored' = [stored EXCEPT ![r] = 0]
    /\ UNCHANGED <<request, latest, storeVars>>

\* The API process dies, or PostgreSQL aborts the transaction: rollback.
AbortRequest(r, reply) ==
    /\ phase[r] \notin {"idle", "answered"}
    /\ Answer(r, reply)
    /\ ReleaseOwned(r)
    /\ latest' = [latest EXCEPT ![r] = None]
    /\ stored' = [stored EXCEPT ![r] = 0]
    /\ UNCHANGED <<request, log, live, checkpoint, now, uncommitted>>

RequestStep(r) ==
    \/ LookupExisting(r)
    \/ LockApplication(r)
    \/ ReadLatest(r)
    \/ InsertEvent(r)
    \/ InsertViolatesUnique(r)
    \/ RefreshEvent(r)
=============================================================================
