# Verification of the AuditTrail API

TLA+ models of the AuditTrail API (`src/src/audittrail_api`), the TLC runs that
check them on small instances, and TLAPS proofs that hold for every value of the
constants. Paths below are relative to `src/`, and to `src/src/audittrail_api/`
when they end in `.py`.

The service records audit events of many applications in PostgreSQL, links the
events of an application in a hash chain, deletes the expired old end of a chain
on request, exports events to files in Celery workers, and keeps the tasks that
fail for good as dead letters. Tenants, their applications and the members of a
tenant with their roles are kept in the same database. Two API replicas and two
worker replicas with four processes each (`deploy/kubernetes/`) run the same code
over one database and one Redis. Almost every step is one
statement of an `AsyncSession` at READ COMMITTED, so the interesting behaviour
is what happens between two statements.

## 1. The system

| Component | State it keeps | Operations | Hard behaviour | What makes it correct |
|---|---|---|---|---|
| Event ingestion (`events/service.py`, `events/router.py`) | `audit_events`; row lock on `applications` | `create_event`, `create_event_batch`, `ingest_event`: lookup, lock, read latest, insert and commit, refresh | the lookup precedes the lock; the clock of a replica decides which row is latest; a batch commits item by item; retention may delete the row before the refresh | chain linked, an external id stored once, every answer true |
| Hash chain (`events/integrity.py`) and verification (`verify-chain`) | none of its own | digests, `verify_chain`, `check_event_chain` | two reads without a common snapshot; an anchor instead of genesis after retention | a FALSE verdict has a known reason |
| Retention (`retention/*.py`, `workers/tasks.py`) | `retention_policies`, `retention_checkpoints`, `retention_runs` | PUT policy, request a run, plan, checkpoint, delete, commit | runs overlap, are redelivered, deadlock; the hold is read once; writers append meanwhile | only an expired prefix goes; anchors name removed events; counts are exact, overlaps apart |
| Exports (`exports/*.py`, `workers/tasks.py`) | `export_jobs`, files on a shared volume | create, dispatch or run inline, generate | a task runs twice; the worker dies half-way; the disk or the database fails | no dispatched job is lost; a download is whole and final, overlaps apart |
| Celery queue (`workers/celery_app.py`, Redis) | messages, deliveries, retries | send, deliver, acknowledge late, redeliver, retry | lost workers, visibility timeout, bounded retries | at least one execution or a recorded failure |
| Dead letters (`dead_letters/*.py`) | `dead_letter_records` | record a terminal failure, replay | recording races replaying; two administrators; the handler itself fails | "retried" means sent; one replay per failure |
| API keys and rate limit (`auth/*.py`) | `api_keys`, Redis buckets | issue, revoke, authenticate and touch, consume | object read before a revocation, written after it; fixed window; rounded TTL; a reply of Redis that is lost | revocation is final; the window's worst case; waiting helps |
| Identity and memberships (`identity/*.py`) | `users`, `memberships`; tokens are with their holders | register, log in, make a member, change a role | the caller's role and activity are read once; a session does not refresh what it has loaded; two role changes at once may leave no owner; a login writes an account that is deactivated meanwhile | roles are changed by owners of the tenant only; the last owner stays unless role changes overlap; deactivation holds |
| Organizations, applications (`organizations/*.py`) | rows under unique constraints | create, list | duplicate creation | a slug names one row |
| Event search (`events/router.py`) | none; the cursor is with the client | cursor pages (`get_event` only reads) | events with random ids inserted or deleted between two pages | nothing that stays is skipped, nothing is shown twice |
| Database access, HTTP shell, configuration | sessions; counters | management token, routing, errors, logging, metrics, health | none of their own | the token is the guard of the management actions; the rest is I/O and wiring |
| Deployment, migrations (`migrations/`, `deploy/`) | the schema and its version | `alembic upgrade head` in every init container; `create_all` for development | replicas migrate at once; a schema of `create_all` has no version | not modelled, see section 6 |

How they interact. Ingestion, retention and verification share the tables of the
chain: writers hold `FOR UPDATE` on the application's row, a retention run that
inserts the first checkpoint of an application needs `FOR KEY SHARE` on it for
its foreign key, and runs meet each other on checkpoint rows and in the unique
index. Retention and exports are started by a request and executed inline or by
a Celery task. The worker's `task_failure` signal writes the dead letter before
the message is acknowledged, and the replay endpoint sends a new task with the
recorded arguments. An ingestion call is authenticated and consumes an allowance
before `create_event` begins. A role change is authorised by the caller's token,
account and membership, three rows that other requests may change meanwhile.

## 2. Modules

| Module | Models | Extends |
|---|---|---|
| `ChainStore` | the tables of the chain, the hash algebra, the read queries | |
| `Ingestion` | POST events and batches, `ingest_event` | `ChainStore` |
| `Retention` | policy PUT, runs inline and in Celery | `ChainStore` |
| `Verification` | `verify-chain` | `ChainStore` |
| `AuditChain` | the three composed, properties, fairness | those three |
| `AuditLog` | abstract: an append-only ledger whose expired prefix may be trimmed | |
| `EventService` | abstract: POST events as calls whose items take effect at one moment each | |
| `TaskQueue` | Celery over Redis, as `celery_app.py` configures it (external code, from its use) | |
| `ExportJobs` | `create_export`, `generate_export` and its task | `TaskQueue` |
| `DeadLetters` | `task_failure` handler, replay endpoint | `TaskQueue` |
| `Jobs` | the three composed, properties, fairness | those two |
| `ExportService` | abstract: tasks that are tried until they are explained | |
| `RateLimit` | the Redis script and TTL | |
| `Access` | key issue, revocation, authenticated calls | `RateLimit` |
| `Search` | `search_events` over a table that ingestion and retention change | |
| `Organizations` | tenants and applications under their unique constraints | |
| `Identity` | registration, login, tokens and the account behind a token | `Organizations` |
| `MembershipRoles` | memberships and the PATCH of a role, one action per statement | `Identity` |
| `Tenancy` | the three composed, properties | `MembershipRoles` |
| `MCAuditChain`, `MCJobs`, `MCAccess`, `MCSearch`, `MCTenancy` | instances for TLC | |
| `NaturalSets` | lemmas: least and greatest elements | |
| `AuditChain_proofs`, `AuditChainSafety_proofs`, `AuditChainOrder_proofs`, `Jobs_proofs`, `Search_proofs`, `Tenancy_proofs`, `Access_proofs` | proofs | |

### How state and actions correspond to the code

*Chain.* `log[app]` is every row ever committed for an application, in commit
order, and `live[app]` the positions that still exist: a row is never updated,
so the pair is the table. A digest is what it commits to (`content_digest` the
canonical content, `chained_digest` the sequence of contents back to
`GENESIS_HASH`), which is collision resistance. `phase[r]` is the program
counter of a request, one value per statement: `LookupExisting`,
`LockApplication`, `ReadLatest`, `InsertEvent` or `InsertViolatesUnique`, and
`RefreshEvent`, the last in a new transaction. `step`, `plan` and `loaded` are
those of a run; `uncommitted[app]` is what its open transaction wrote, which is
visible to others only as a lock. `PutCommit` and `WriteCheckpoint` write the
columns that differ from the loaded object, as the ORM does. The cutoff of a run
is taken from the clock of its own process, which may be up to `MaxSkew` fast like
any other. `started` bounds the runs, `Runs` those in progress at once, and
`overtaken` is a history: the applications from which a run committed a removal
while another run had one planned (`PlannedElsewhere`). `RunRow` is the row
of `retention_runs`, which the program only writes: its `checkpoint_hashes` stay
empty because filling the dict in place is no change that the ORM flushes.

*Jobs.* A task is a position of `sent`; a message is a task and its retry count;
`ready` is the bag of messages in Redis. `at[x]` is the program counter of an
executor: a worker process, or the request itself when the dispatch is inline.
`object[x]` is the row as the session of the executor knows it, so that `Update`
writes only what that session changed. `OpenFile` truncates, `WriteFile` writes;
a file is "mixed" when another execution had it open as well. After the commit of
"completed" the refresh may fail (`RefreshFails`): a dead letter, or a 500, for a
job that is done. Two histories: `unrecorded`, the tasks whose failure the handler
could not store, and `contended`, the jobs whose latest executions overlapped; an
execution that begins alone takes its job out of it again.

*Access.* `call[c].row` is the row that `get_api_key_principal` read; `TouchKey`
flushes `last_used_at` through it. `Consume` is the Redis script, one step. The
clock counts quarters of a second, because TTL answers rounded seconds while
Redis expires to the millisecond. The script may have run although its reply
never arrives (`LoseReply`): the client library sends it again, or the call ends
(`AbortCall`), and the allowance is used up either way. `granted` and `refused`
are histories: when the script counted a call within the limit, lost replies
included, and the answers 429.

*Search.* A request is one SELECT, hence one action. `rows` holds ids, which are
random UUIDs: a new row may fall before or behind any cursor. A filter is the
set of ids it admits, since no column of an event changes. The walk of a client
is what it got (`pages`) and the cursor it sends back; `present` and `owed` are
histories: what matched when the walk began, and what lay behind the page when
its cursor was handed out.

*Tenancy.* A row that may exist is a function value other than `None`. `call[c]`
is a PATCH at work and its session: `own_role` is the role that
`get_current_membership` read, `loaded` the role of the target's object. They are
one object when a caller changes its own membership, because a SELECT does not
refresh an object the session holds (`LoadedRole`); the UPDATE is skipped when the
object's role does not change (`UpdateRole`). `was_active`, `was_owner`,
`in_force` and `alone` are histories of the call, the last one whether no other
PATCH of the organization has been in progress with it. `login[l]` is the row that
`authenticate_user` read; its commit is a flush of the columns that the session
changed (`Flushed`), of which `last_login_at` stands for all. `tokens` are the
users with a token that has not expired; its contents are the user, which is what
a signature guarantees. An address is a name and the letters it was typed with.
The code forgets the letters in three places, each with a definition of its own:
the schema of a registration (`normalize_email`), `create_user` (`StoredEmail`)
and `authenticate_user` (`SoughtEmail`). No endpoint sets `is_active` to false,
but two places read it, so `Deactivate` stands for an operator with SQL.

## 3. Runs

| Run | Question | Bounds | Distinct states |
|---|---|---|---|
| `chain_writers` | do concurrent writers keep one linked chain, tell the truth and implement `EventService`, does a run count what it removes, and are FALSE verdicts explained? | 2 requests, single or batches of two, equal, altered and expired events, 2 retention runs one after the other, inline or in Celery, 1 administrator with holds, 1 verifier | 591,480 |
| `chain_runs` | do overlapping runs remove only the expired end, count it unless one overtakes another, and does the trail implement `AuditLog`? | 2 requests, one event in two time zones, 3 runs of which 2 overlap, 1 crash, deadlock, redelivery, unique violation | 1,454,650 |
| `chain_liveness` | is every request answered and does every run end, also when they wait for each other? | 2 applications, 2 requests, events that have expired when they arrive, 2 runs | 81,271 |
| `jobs` | can a dispatched job be lost, are downloads whole and final, and do tasks and records implement `ExportService`? | 2 workers, 2 administrators, 3 tasks, 1 retry, 3 faults of any kind | 999,838 |
| `jobs_serial` | does every job settle, and is `ExportService` implemented with inline exports too? | 1 executor (worker or request), 2 administrators, 3 faults | 35,259 |
| `access` | what do the fixed window, Retry-After and revocation promise? | 1 key, 2 calls at once, 6 runs of the script, 10 quarters of a second, limit 2 per 2 s | 1,747,406 |
| `search` | what may a client rely on that follows `next_cursor` to the end? | 1 client, 5 ids, 2 filters, pages of 1 or 2 | 211,357 |
| `tenancy` | who may change roles, when is the last owner lost, what do deactivation and names withstand? | 2 organizations, 2 users, 2 members, 2 PATCH requests, 1 login, 1 application | 427,596 |
| `chain_emptied` | finding | 2 requests, 1 run | violation |
| `chain_hold` | finding | 1 administrator, 1 run | violation |
| `chain_skew` | finding | 3 requests, skew 2 | violation |
| `jobs_replay` | finding | 1 worker, 2 administrators | violation |

What the passing runs show.

* `ChainLinked`, `OneRowPerExternalId`, `AcceptedOnce`, `OutcomesAreTrue`: the
  lookup outside the lock is harmless because the unique index decides; an item
  reported as accepted or duplicate is a committed row with exactly its content,
  and a conflict met other content under its id,
  even when a crash, a conflicting twin or a retention run comes between.
* `ImplementsEventService`: ingestion is linearizable. Every item of a call is
  created, recognized or refused at one moment between the receipt of the call
  and its answer, by what is retained at that moment: the lookup, if it finds the
  id, otherwise the commit of the INSERT. A call answers 500 of itself only when
  another call took the id of its item after the lookup, or when the event it
  created is gone before the refresh. That this ends a batch whose other items
  are stored is allowed by the abstract service, as the code does it. An id is
  free again once its event has outlived the shortest retention period, never
  before.
* `RetainedIsSuffix`, `AnchorNamesRemovedEvent`, `ImplementsAuditLog`: whatever
  runs overlap, rows go from the old end only, none younger than the shortest
  retention period, and nothing retained is altered. `ImplementsAuditLog` is the
  refinement: the ledger is the content of `log`, and `trimmed` the number of
  rows gone.
* `CheckpointCountsRemovals`: the count of a checkpoint is read in one statement
  and written in another, without a lock between. It is exact whatever is inserted,
  fails, deadlocks, crashes or is delivered again, and for runs that overlap as long
  as none commits a removal from an application while another has one planned.
  That case is left out by name (`overtaken`) because there the code does miscount:
  both runs count the events both planned, and the deployment of two replicas with
  four processes lets it happen. The run `chain_runs` reaches it.
* `DeletedCountIsTrue` and `InvalidVerdictExplained` (in `chain_writers`, where one
  run begins when the other is over) hold for one run at a time. Two overlapping
  runs break them: `retention_runs` sums what was planned, and the later commit may
  move the anchor back to an earlier removed event. Nothing in the code or in the
  deployment serializes runs; no document promises anything of runs that overlap,
  so this is a stated precondition, not a finding.
* `NoSilentLoss`: once no message of a dispatched job is left, an execution has
  generated it, a pending dead letter exists, or the database was out of reach
  at the moment the failure was recorded. "Generated" is `row_count` being set,
  not the status: after a visibility timeout a slower execution may put the
  status of a completed job back.
* `ImplementsExportService`: the row of a job is written only by its own request
  or by a task of it that is not closed; a count of rows, once there, stays; a
  task is closed once, and then its job is generated, its failure has a record, or
  recording it has failed; a record is marked only after its replacement was sent.
  The one way to abandon a job is to lose its request before the dispatch.
* `DownloadIsWhole`, `CompletedIsFinal`: a completed job and its file are whole and
  stay, whatever is retried, delivered again or replayed by any number of workers,
  unless executions of the job overlapped. When they do (two replicas with
  concurrency 4, and a message that Redis delivers again after its visibility
  timeout, or a replay) nothing keeps them apart: they truncate and write one file,
  and the slower one sets the completed row back. Without the exemption both
  properties fail in `jobs`. The next execution that runs alone makes both true
  again. `docs/architecture.md` speaks of one worker process; the manifests
  deploy more, so nothing here relies on it.
* `WindowLimit`: a span shorter than the window sees up to `2 * Limit - 1` calls of
  a key, which the run reaches, and never both allowances, because the call that
  opened the first window lies before the span.
* `WaitedIsServed`: a client that waits for `Retry-After` plus half a second (TTL
  rounds half up, so with 1.25 s left it says 1) is refused only if the script
  has granted a whole allowance since: to calls that were answered, or to calls
  that never saw the reply.
* `RevocationIsFinal`: a call under way, which writes the row through an object
  it read before the revocation, does not bring the key back.
* `WalkComplete`, `PagesInOrder`: what matched when a walk began and is stored
  still has been shown when it ends, and nothing is shown twice, whatever
  arrives and goes between the pages and however the page size changes.
  `EmptyPageExplained`: a page behind a cursor is empty only if retention took
  all it was handed out for. That a walk ends is not claimed: events stored
  ahead of the cursor faster than pages are asked for keep it going.

* `RoleChangesAreAuthorized`: a role changes only by the commit of a PATCH whose
  caller was, at some moment of the call, active and an owner of that same
  organization. Not at the commit: all three checks are made once, before.
* `LastOwnerExplained`: the program does not count owners. As long as no two PATCHes
  of an organization are in progress at once, it keeps an owner nevertheless,
  because the caller is one, until the last one gives the role up himself. With an
  overlap two owners who demote each other both succeed, each authorised by the
  role it read before.
* `PatchTookEffect`: a caller who changes its own role back while another request
  changes it is answered 200 although the UPDATE was skipped; still, the role it
  asked for was in force at some moment of the call.
* `DeactivationHolds`: a login that read the account before it was deactivated
  commits and is answered with a token; its flush writes the columns that the
  session changed, so it does not write `is_active` back.
* `NamesIdentifyRows`: however an address is typed, at registration and at login,
  it finds the one account registered for it; slugs and memberships are unique.

### Bounds and why they are enough

`MaxNow`, `MaxRuns`, `MaxCrashes`, `MaxTasks`, `MaxFaults`, `MaxTime`, `MaxCalls`
and `MaxRows` bound the models only. Two events per chain suffice to fork it, to
cut it, to empty it and to restart it, and the batch gives a third. Old events
occur at time 0, a young one at time 9, and a policy of one day expires the old
ones one tick later, so prefixes of every kind arise (empty, proper, the whole
chain). Expired events occur at time -5: a run may remove them at once, while
their writer has yet to refresh the row or still works on its batch, and while a
twin waits for the unique index. `chain_writers` reaches the wait of an INSERT for
a deleting run (`IndexBusy`), `chain_liveness` the wait of a request for the
foreign key of a run's first checkpoint (`KeyShared`), the row that is gone at the
refresh, a duplicate, and the deadlock of two runs. Races here are between two
parties over one row; the instances have two of each party that can race. Two
applications are needed for the deadlock of two runs only (`chain_liveness`).
Three runs in two slots let one begin while another is redelivered. With a limit
of two calls a window is not over with its first call, and two windows meet within
a span shorter than one. Three faults and three tasks let a retry be lost, fail
for good, be recorded, be replayed and fail again. `MaxRetries` is 1 instead of 3:
the last retry and the one before it are what the guard tells apart. Five ids make
room for a page read ahead, a page shown, and rows that come and go before,
between and behind them; walks do not interact, so one client is enough. Two
tenants are needed for a role change across them, two calls and two members for
owners who demote each other and for a role changed behind a session's back; only
"owner" is told from other roles by the code, so the instance has one other. With
one application the uniqueness of application slugs is left to the proof. Symmetry
is used only in runs without liveness properties.

### Fairness

`AuditChain!FairSpec`: a process that is not killed runs its next statement
(weak fairness of the steps of a request and of a run). `LockApplication` and
`WriteCheckpoint` wait for locks that others take and release again and again;
PostgreSQL queues the waiters of a lock, hence strong fairness for these two and
for nothing else. `Jobs!FairSpec`: an executor goes on, and a free one takes a
message that waits (weak fairness). Nobody is obliged to send a request, to ask
for a run, a replay or a policy, and no fault or crash ever has to happen.

## 4. Proofs

For every value of the constants that satisfies the named assumptions of the
modules (natural bounds, `None` outside the data types, posts made of payloads):

| Theorem | Module | States |
|---|---|---|
| `TypeCorrect` | `AuditChain_proofs` | `Spec => []TypeOK` |
| `OneRow` | `AuditChainSafety_proofs` | `Spec => []OneRowPerExternalId` |
| `AnchorCorrect` | `AuditChainSafety_proofs` | `Spec => []AnchorNamesRemovedEvent` |
| `OutcomesCorrect` | `AuditChainSafety_proofs` | `Spec => []OutcomesAreTrue` |
| `AcceptedByOne` | `AuditChainSafety_proofs` | `Spec => []AcceptedOnce` |
| `CountsCorrect` | `AuditChainSafety_proofs` | `Spec => []CheckpointCountsRemovals` |
| `DeletedCountCorrect` | `AuditChainSafety_proofs` | one run at a time and finitely many applications imply `Spec => DeletedCountIsTrue` |
| `ServiceImplemented` | `AuditChainSafety_proofs` | `Spec => ImplementsEventService` |
| `SuffixCorrect` | `AuditChainOrder_proofs` | `MaxSkew = 0` implies `Spec => []RetainedIsSuffix` |
| `LinkedCorrect` | `AuditChainOrder_proofs` | `MaxSkew = 0` implies `Spec => []ChainLinked` |
| `LedgerImplemented` | `AuditChainOrder_proofs` | `MaxSkew = 0` implies `Spec => ImplementsAuditLog` |
| `VerdictsExplained` | `AuditChainOrder_proofs` | `MaxSkew = 0` and one run at a time imply `Spec => []InvalidVerdictExplained` |
| `RemovalsCorrect` | `AuditChainOrder_proofs` | `Spec => []RemovedAreOldest` |
| `ForksBounded` | `AuditChainOrder_proofs` | `Spec => []ForksAreRecent` |
| `TypeCorrect` | `Jobs_proofs` | `Spec => []TypeOK` |
| `NothingLost` | `Jobs_proofs` | `Spec => []NoSilentLoss` |
| `RetriedMeansSent` | `Jobs_proofs` | `Spec => []RetriedWasSent` |
| `DownloadsWhole` | `Jobs_proofs` | `Spec => []DownloadIsWhole` |
| `CompletedStays` | `Jobs_proofs` | `Spec => CompletedIsFinal` |
| `ExportsImplemented` | `Jobs_proofs` | `Spec => ImplementsExportService` |
| `NothingSkipped` | `Search_proofs` | `Spec => []WalkComplete` |
| `NothingRepeated` | `Search_proofs` | `Spec => []PagesInOrder` |
| `EmptyPageIsRetention` | `Search_proofs` | `Spec => EmptyPageExplained` |
| `TypeCorrect` | `Tenancy_proofs` | `Spec => []TypeOK` |
| `NamesUnique` | `Tenancy_proofs` | `Spec => []NamesIdentifyRows` |
| `PatchEffective` | `Tenancy_proofs` | `Spec => []PatchTookEffect` |
| `DeactivationFinal` | `Tenancy_proofs` | `Spec => DeactivationHolds` |
| `RoleChangesOwned` | `Tenancy_proofs` | `Spec => RoleChangesAreAuthorized` |
| `LastOwner` | `Tenancy_proofs` | `Spec => LastOwnerExplained` |
| `TypeCorrect` | `Access_proofs` | `Spec => []TypeOK` |
| `RevocationFinal` | `Access_proofs` | `Spec => RevocationIsFinal` |
| `NeverTwice` | `Access_proofs` | `Spec => []WindowLimit` |
| `WaitingHelps` | `Access_proofs` | `Spec => []WaitedIsServed` |

*Chain.* The inductive `TypeInv` adds to `TypeOK` that timestamps lie within
`MaxSkew` of the true time (so that "the last of some rows" exists), that a
request at work has an item left, that plans name committed rows and have an
anchor when they name any, that a checkpoint is loaded only for such a plan, and
that a policy is never deleted. `AnchorInv` adds that the anchor of a plan is
the hash of a row the plan removes, and that of a pending checkpoint the hash of
a row that is gone or goes with the same commit: without them the commit of a
run says nothing about its anchor. `SuffixInv` adds that plans and pending
deletions are closed downwards among the retained rows; rows inserted later come
behind, so every commit leaves a suffix. `LinkInv` adds that a request holds the
row lock from its read of the latest row to its commit, and that what it read is
still the hash of the last row if that row is retained. The last two need the
order of the timestamps to be the order of the commits (`ClockOrder`), which is
what skewed clocks destroy: `MaxSkew = 0` is a stated hypothesis of these
theorems, and `chain_skew` shows what happens without it.

*The chain when clocks differ.* `chain_skew` shows that there are forks then;
`RemovalsCorrect` and `ForksBounded` bound them for every `MaxSkew`. `StampOrder`
is what remains of the order of the commits: a row is stamped at most `MaxSkew`
before any row that was committed earlier. `PlanOrdered` and `WriteOrdered` say
that with a row, a plan and a pending deletion take every retained row that was
committed earlier and precedes it; so a commit leaves behind it no earlier row
that outranks a removed one, which is `RemovedAreOldest`. With that,
`ChosenLatest` says of a request that holds the lock that every row committed
after the one it will build on is behind it, retained or removed, and that it
builds on none only if none is retained. `ForksAreRecent` follows when it
commits: the price of skewed clocks is that an event passes over events stamped
within `MaxSkew` before its predecessor, and over no others. With `MaxSkew = 0`
the two are the exact order of the theorems above. They need no run of their own
beside `chain_skew`: to see them on an instance, name them as the INVARIANTS of
`chain_skew.cfg` in place of `NoFork` and set `Runs = {k1}`, `MaxNow = 1` and
`SYMMETRY Symmetry` (766,150 distinct states, in which events are passed over and
the removed ones are no prefix).

*What clients are told.* `TruthOf(r)` says it of one request: its answers so far
are true, and the row it is about to refresh has the content of its item. The
request does not change while it is worked on and committed rows are never
altered, so the steps of others cannot undo it. For `AcceptedOnce`, `Claims` is
an answer "accepted" or an INSERT not yet reported, with its row. Only an INSERT
makes a new one, at a position that did not exist, and the report keeps it.

*The service.* `ImplementsEventService` needs no hypothesis on clocks or runs. The
LookupExisting that finds the id is `Recognize` or `Refuse`, the INSERT is
`Create`, the refresh `Accept`, a 500 `Fail`, the commit of a run `Expire`; locks
and the read of the latest row stutter. `ServiceInv` collects what the steps rest
on. `RowsFaithful` says that the columns of a row repeat what its content hash
commits to, so the unique index compares what the service compares. `Unstored`
says that a request remembers a row only between its INSERT and its refresh.
`TruthOf` names the content of that row. `AgeInv` follows the retention period
from the PUT through the policy, the object a run has seen and its cutoff into the
plan and the pending DELETE: every id on that way is older than some period an
administrator may set by a clock at most `MaxSkew` fast, hence older than the
shortest period less the skew (`MinAge`), and stays so. With `MaxSkew = 0` that is
the period itself.

*Refinement of the ledger.* The INSERT of an event is `Record`, the commit of a run is `Trim`,
the clock alone is `Wait`, and every other step stutters. `RetainedIsSuffix` turns
the number of rows gone into the position where the retained part begins
(`SuffixOfRows`). `RowsFaithful` and `AgeInv` give the
ledger what they give the service.

*Counts.* `CountsOf(a)` says that what any run has planned to remove from `a` is
still there, that a checkpoint which a run has loaded is the one in force, and that
the count of a checkpoint, and of one that is pending, is or will be right.
`CountInv` claims it of every application that was not overtaken. A commit that
removes something from an application either finds no other plan for it, and then
leaves nobody with a stale plan or a stale checkpoint, or puts the application
among the overtaken, where it stays (`OvertakenGrows`).

*Serial runs.* The hypothesis `OneRun` is at most one element in `Runs`, slots
that are used again and again. No application is ever overtaken then, so
`CountsOf` holds of all (`SerialCounts`).
`DeletedCountIsTrue` compares one number with the rows of all applications.
`SumOfSizes` says that the sum which the row records is the size of a disjoint
union: a least set of applications for which it were not so would have a smaller
one, so no induction scheme is needed, only finitely many applications.
`WritesPlanned` says that the run at work deletes from every application what it
planned there.
For the verdict, `RowsBuilt` says of every row ever committed that it was built on
the row before it or on none, `AnchorsLast` that an anchor names the last row
removed, and `ReadsClosed` that what a verifier has read is the oldest part of
what is retained. The first row read is then the one behind the anchor, and every
other one follows the row before it.

*Jobs.* `NoSilentLoss` is not inductive: it speaks of jobs without a message.
`IInv` strengthens it task by task. `AllServed`: every task sent is active (a
message waits, or an executor that still holds its delivery has not come to the
acknowledgement), or its job is generated, or it is unrecorded, or it has a
record. `Replacements`: a record marked "retried", and a replay that has sent
its task, have a later task of the same job. `LastTasks`: the tasks of a job
have a last one. The last task of a job without messages is not active; if it
has a record, the record is pending, since a retried one would have a later
task. One lemma per action shows that it keeps `IInv`, with one step per
conjunct; TLC checked `IInv` first.

*The export service.* The mapping keeps the rows without their counts, the tasks,
and which of them are in flight; sessions, messages and deliveries are hidden. An
acknowledgement or a lost worker is `Close` when nothing of the task is in flight
afterwards: it is then not active either, and `AllServed`, which holds after the
step, is the explanation that `Close` asks for. A write of a session is `Work`,
because its job is that of its message (`SessionsOK`) or of the request itself;
for the latter `RequestsOver` says that the request has not been dispatched as
well. `UPDATE` writes only what the session changed, hence a slow execution that
loaded the row before it was completed does not take the count back.

*Executions apart.* `ApartInv` says that a job whose request still holds it has no
task and no session (`WaitingApart`), and of a session whose job is not contended
that it is the only one on it, that the job is not completed, that it knows its row
count, and finds in the file what it left there (`OwnFile`). An execution that
begins beside another one makes the job contended and claims nothing; one that
begins alone finds no other session, whose leftovers it overwrites (`BeginApart`).
Most steps touch no row and no file (`FrameApart`); a step of a session changes
those of its own job only (`SessionApart`). Executors, requests, administrators,
jobs and faults are arbitrary.

*Search.* The lemmas on `FirstOf` say what ORDER BY with LIMIT reads: a part that
is closed downwards, all of it if the limit is not exhausted, not all of it if
the limit is exceeded, something if there is something. The invariant `IInv`
says of a walk that goes on that whatever was present and is stored still is
shown or lies behind the cursor, that all that was shown lies at or before the
cursor, and that what the cursor was handed out for lies behind it. None of the
three properties is inductive without the cursor. The proofs allow any finite
set of ids, any filters, any limit and any number of clients.

*Tenancy.* `UniqueNames` states the unique constraints over the stored rows and
that addresses are stored in lower case; `NamesIdentifyRows` follows because two
normalized addresses of one name are equal. `CallOK` says what the phase of a
PATCH knows. Past its checks it was let in (`LetIn`): its own membership exists,
in its organization, and its role was "owner" when it was read. Past the SELECT of
the target it is aimed (`Aimed`): the target exists and belongs to the same
organization. If the role the session has loaded is the one asked for, it was in
force. For the last owner, no two calls on one organization are both `alone`
(`Apart`), and a call that is alone is authorised by a membership that is an
owner's still (`InCharge`): only another call could have changed it, and would
have ended its being alone. So an organization without a present owner lost the
last one to himself or to overlapping calls. Memberships that exist stay, with
their organization (`MembersStay`), so none of this is undone by other calls; what
other calls do undo, the present role of the caller, is exactly what the three
action properties do not claim.

*Access.* `Start(k)` is the begin of the window that the next call of a key falls
into, and `Counted(k)` what it has used of the allowance. `Behind`: the first call
that this window counted, and those before it, came no later than its begin, and
the first of the window before a whole window's length earlier. A call that is
granted therefore comes a window's length after the one `2 * Limit - 1` places
earlier (`Spread`), so a shorter span never holds `2 * Limit`, which is
`WindowLimit`. `Outlived`: a refusal's
window is over when its client comes back, because TTL, rounded half up to
seconds and raised to one, is short by half a second at most; or everything the
present window counts was granted after the refusal. A second refusal needs a
full window, hence `WaitedIsServed`. A lost reply is a call like any other to the
invariant, because it counts what the script granted and not what the client saw.
`Issued` says that calls under way name
keys that exist, so that a flush meets a row.

Only model-checked: liveness (`RequestsAnswered`, `RunsFinish`, `JobsSettle`),
which is out of the prover's reach. Every other property of a passing run is a
theorem; `RemovedAreOldest` and `ForksAreRecent` are theorems only.

## 5. Disagreements between the code and its documents

Each is a run whose one property quotes the document and is violated.

1. `chain_emptied`: after retention has removed every event, the next one is
   stored without a predecessor, but verification starts from the checkpoint's
   anchor (`events/service.py:54`, `docs/operations.md:78`).
2. `chain_hold`: the hold is read once, long before the deletion commits
   (`retention/service.py:83`, `docs/operations.md:78`).
3. `chain_skew`: the latest row is found by the wall clock of whichever replica
   stored it, so the lock does not prevent a fork when clocks differ
   (`events/service.py:51` against the comment in line 44). `ForksBounded` says
   how far a fork can reach.
4. `jobs_replay`: two administrators, or one after a crash, replay one record
   twice (`dead_letters/router.py:46`, `docs/operations.md:73`).

Seen while modelling and not given a run: the checkpoint hashes of a run are
never persisted (`tests/unit/test_retention_execution.py:58` expects them in the
object only); an `IntegrityError` on one item of a batch ends the request with a
500 and loses the outcomes of the items already committed (`events/router.py:65`
catches only `HTTPException`, while the docstring in line 51 promises
independent outcomes); `verify-chain` may answer FALSE when a run commits between its two
reads; an export is left pending if the process dies before the dispatch; a
retried export may stay "processing" after a database error; a failure during a
database outage leaves no dead letter; an external id may be used again once
retention has removed its row; two PUTs of a policy may store a mixture.

## 6. Not modelled, and why

* Reads that change nothing: listings, `get_event`, downloads, previews, GET of
  the policy. Search is modelled, because its pages relate several moments.
* Replaying retention tasks, and the queue of retention runs beyond redelivery
  and retries: `Jobs` carries export tasks only, `Retention` keeps run slots.
* `asyncio.run` around an engine shared between tasks, connection pools, and a
  restart of the Redis that holds the rate limit buckets (replies that are lost and
  calls that fail are modelled).
* What overlapping executions of one job, or runs that overtake each other, do to
  files and counts is modelled, and the properties that they break except them by
  name (`contended`, `overtaken`).
* An acknowledgement that comes after the visibility timeout has no effect.
* HTTP, serialization, logging, metrics, health and configuration: no state that
  a property here depends on.
* Migrations and manifests. `alembic upgrade head` is one transaction of DDL per
  replica, which commits or leaves nothing; of two replicas that start on an old
  schema one fails and its init container starts again
  (`docs/operations.md:42`). A schema made by `create_all` carries no version and
  cannot be upgraded, which the docs keep to development. Both are listed as
  hazards; the effects of DDL are PostgreSQL's and Alembic's.
* Passwords and their hashes: the right one, or the login changes nothing. That
  `authenticate_user` spends the same time on an unknown address is no property
  of states.

## 7. Plan

A rollout module, if the deployment comes to rely on more than the restart of an
init container: replicas that migrate at once over the chain of revisions, and a
schema that is there without a version.
