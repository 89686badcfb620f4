----------------------------- MODULE ChainStore -----------------------------
(***************************************************************************)
(* The PostgreSQL tables behind one organization's audit trail, and the    *)
(* hash-chain algebra of events/integrity.py that every component uses.    *)
(*                                                                         *)
(* A row of audit_events is named by its application and by its place in   *)
(* log[app], the sequence of every row ever committed for the application; *)
(* live[app] says which of those rows still exist.  A SHA-256 digest is    *)
(* modelled by what it commits to: content_digest by the canonical         *)
(* content, chained_digest by the sequence of content digests back to      *)
(* GENESIS_HASH.  Both are injective, as collision resistance makes them.  *)
(* Statements run at READ COMMITTED, one statement per action.             *)
(***************************************************************************)
EXTENDS Integers, Sequences, FiniteSets

CONSTANTS
    Apps,        \* the applications of the organization
    Payloads,    \* the EventCreate bodies clients may send
    MaxSkew,     \* how far the clocks of two API replicas may differ
    MaxNow,      \* bound on the time that passes by itself (Tick)
    None         \* SQL NULL and Python None

(* An EventCreate: occurred_at is the wall clock the client wrote and      *)
(* utcoffset the offset it wrote it with; body stands for the remaining    *)
(* fields (actor, action, resource, correlation id, metadata).             *)
ASSUME PayloadsAssumption ==
    \A p \in Payloads : /\ DOMAIN p = {"event_id", "occurred_at", "utcoffset", "body"}
                        /\ p.occurred_at \in Int /\ p.utcoffset \in Int
ASSUME ClockAssumption == MaxSkew \in Nat /\ MaxNow \in Nat

VARIABLES
    log,          \* app -> sequence of all rows ever committed
    live,         \* app -> the positions of log[app] that still exist
    checkpoint,   \* app -> its retention_checkpoints row, or None
    now,          \* the true time
    exclusive,    \* app -> the transaction with SELECT ... FOR UPDATE on the row
    uncommitted   \* app -> what an open retention transaction wrote, or None

storeVars == <<log, live, checkpoint, now, exclusive, uncommitted>>

-----------------------------------------------------------------------------
(* events/schemas.py and events/integrity.py                               *)

\* value.astimezone(UTC): the instant, whatever offset it was written with.
UtcTime(payload) == payload.occurred_at - payload.utcoffset

\* What canonical_payload serializes; equal exactly when the digests are.
content_digest(payload) ==
    [external_id |-> payload.event_id, occurred_at |-> UtcTime(payload), body |-> payload.body]

Digests == {content_digest(p) : p \in Payloads}
Hashes == Seq(Digests)

GENESIS_HASH == << >>

chained_digest(digest, previous_hash) ==
    Append(IF previous_hash = None THEN GENESIS_HASH ELSE previous_hash, digest)

Events == [external_id : {d.external_id : d \in Digests}, occurred_at : Int,
           content_hash : Digests, previous_hash : Hashes \cup {None},
           event_hash : Hashes, received_at : Int]

\* The row ingest_event builds, stamped by the replica's clock at the flush.
NewEvent(payload, previous_hash, received_at) ==
    [external_id |-> payload.event_id,
     occurred_at |-> UtcTime(payload),
     content_hash |-> content_digest(payload),
     previous_hash |-> previous_hash,
     event_hash |-> chained_digest(content_digest(payload), previous_hash),
     received_at |-> received_at]

-----------------------------------------------------------------------------
(* Reading the events of an application.                                   *)

\* ORDER BY received_at, id; equal timestamps (skewed clocks only) are
\* ordered by insertion here, by the random id in the table.
Precedes(a, i, j) ==
    \/ log[a][i].received_at < log[a][j].received_at
    \/ log[a][i].received_at = log[a][j].received_at /\ i < j

\* The last of some rows in that order: ORDER BY ... DESC LIMIT 1.
LastOf(a, rows) == CHOOSE i \in rows : \A j \in rows \ {i} : Precedes(a, j, i)

\* The hash of the row before i among rows, initial_hash for the first row.
HashBefore(a, rows, i, initial_hash) ==
    LET earlier == {j \in rows : Precedes(a, j, i)}
    IN  IF earlier = {} THEN initial_hash ELSE log[a][LastOf(a, earlier)].event_hash

\* The loop of verify_chain over the rows, from genesis or from an anchor.
verify_chain(a, rows, initial_hash) ==
    \A i \in rows :
        LET previous_hash == HashBefore(a, rows, i, initial_hash)
            event == log[a][i]
        IN  /\ event.previous_hash = previous_hash
            /\ event.event_hash = chained_digest(event.content_hash, previous_hash)

\* Mutant: the anchor of the checkpoint is not used.
AnchorIgnored(chk) == None

\* initial_hash of check_event_chain.
AnchorOf(chk) == IF chk = None THEN None ELSE chk.anchor_hash

\* The rows with an external id; the unique constraint allows one.
RowsNamed(a, external_id) == {i \in live[a] : log[a][i].external_id = external_id}

\* Mutant: no unique constraint.
NameNeverTaken(a, external_id) == FALSE

\* uq_event_application_external refuses another row with this id.
NameTaken(a, external_id) == RowsNamed(a, external_id) # {}

\* Mutants: only the id is compared; times are compared as they are written.
SameId(event, payload) == event.external_id = payload.event_id
SameText(event, payload) ==
    event.occurred_at = payload.occurred_at /\ event.content_hash.body = payload.body

SameContent(event, payload) == event.content_hash = content_digest(payload)

\* Mutants: no break at the first young event; an event at the cutoff goes.
all_expired(a, rows, cutoff_at) == {i \in rows : log[a][i].occurred_at < cutoff_at}
expired_at_cutoff(a, rows, cutoff_at) ==
    {i \in rows : \A j \in rows : (j = i \/ Precedes(a, j, i)) => log[a][j].occurred_at <= cutoff_at}

\* The loop of contiguous_expired_prefix: it stops at the first row that
\* is not older than the cutoff.
contiguous_expired_prefix(a, rows, cutoff_at) ==
    {i \in rows : \A j \in rows : (j = i \/ Precedes(a, j, i)) => log[a][j].occurred_at < cutoff_at}

-----------------------------------------------------------------------------
(* An ORM flush writes the attributes that differ from the loaded row.     *)
Flushed(row, loaded, object) ==
    [f \in DOMAIN row |-> IF object[f] # loaded[f] THEN object[f] ELSE row[f]]

Checkpoints == [anchor_hash : Hashes, removed_through_at : Int, removed_event_count : Nat]

ASSUME NoneAssumption == None \notin Checkpoints

\* The type of the tables; the lock tables name the transactions of the
\* components and are typed there.
StoreTypeOK ==
    /\ log \in [Apps -> Seq(Events)]
    /\ live \in [Apps -> SUBSET Nat]
    /\ \A a \in Apps : live[a] \subseteq DOMAIN log[a]
    /\ checkpoint \in [Apps -> Checkpoints \cup {None}]
    /\ now \in Nat

StoreInit ==
    /\ log = [a \in Apps |-> << >>]
    /\ live = [a \in Apps |-> {}]
    /\ checkpoint = [a \in Apps |-> None]
    /\ now = 0
    /\ exclusive = [a \in Apps |-> None]
    /\ uncommitted = [a \in Apps |-> None]

\* Time passes.  MaxNow bounds the model only.
Tick == /\ now < MaxNow
        /\ now' = now + 1
        /\ UNCHANGED <<log, live, checkpoint, exclusive, uncommitted>>
=============================================================================
