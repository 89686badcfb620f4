----------------------------- MODULE DeadLetters -----------------------------
(***************************************************************************)
(* The dead letters: the task_failure signal handler, which runs in the    *)
(* worker before the message is acknowledged, and the replay endpoint of   *)
(* the administrators.  A record is named by its task id, which is unique. *)
(***************************************************************************)
EXTENDS TaskQueue

CONSTANT Admins       \* requests of administrators

VARIABLES
    records,   \* task -> its dead_letter_records row, or None
    found,     \* executor -> the row its handler has read, or None
    replay,    \* admin -> [task, sent]: the replay it works on, or None
    unrecorded \* history: tasks whose failure the database could not take

deadLetterVars == <<records, found, replay, unrecorded>>

Tasks == 1..MaxTasks
Records == [status : {"pending", "retried"}, attempts : Nat]

\* The type of the records and of those who work on them.
DeadLetterTypeOK ==
    /\ records \in [Tasks -> Records \cup {None}]
    /\ found \in [Executors -> Records \cup {None}]
    /\ replay \in [Admins -> [task : Tasks, sent : BOOLEAN] \cup {None}]
    /\ unrecorded \subseteq Tasks

DeadLetterInit ==
    /\ records = [t \in Tasks |-> None]
    /\ found = [x \in Executors |-> None]
    /\ replay = [u \in Admins |-> None]
    /\ unrecorded = {}

-----------------------------------------------------------------------------
(* persist_terminal_failure and record_terminal_failure                    *)

ReadRecord(x) ==
    /\ at[x] = "record"
    /\ found' = [found EXCEPT ![x] = records[delivered[x].task]]
    /\ Go(x, "persist")
    /\ UNCHANGED <<records, replay, unrecorded, sent, ready, delivered, held, faults>>

\* UPDATE: attempts, and the status if the record read was not pending.
Refreshed(row, read) ==
    [status |-> IF read.status # "pending" THEN "pending" ELSE row.status,
     attempts |-> read.attempts + 1]

\* COMMIT.  An INSERT that finds the task id taken raises IntegrityError,
\* which Celery's Signal.send logs and drops.
WriteRecord(x) ==
    /\ at[x] = "persist"
    /\ LET task == delivered[x].task
       IN  records' = [records EXCEPT ![task] =
                IF found[x] # None THEN Refreshed(@, found[x])
                ELSE IF @ = None THEN [status |-> "pending", attempts |-> 1]
                ELSE @]
    /\ found' = [found EXCEPT ![x] = None]
    /\ Go(x, "ack")
    /\ UNCHANGED <<replay, unrecorded, sent, ready, delivered, held, faults>>

\* The handler raises, the database being out of reach: Signal.send drops
\* that too, and the message is acknowledged without a record.
RecordLost(x) ==
    /\ at[x] \in {"record", "persist"}
    /\ Fault("outage")
    /\ found' = [found EXCEPT ![x] = None]
    /\ unrecorded' = unrecorded \cup {delivered[x].task}
    /\ Go(x, "ack")
    /\ UNCHANGED <<records, replay, sent, ready, delivered, held>>

-----------------------------------------------------------------------------
(* retry_dead_letter                                                       *)

Replayable(record) == record # None /\ record.status = "pending"

\* session.get and the 404 and 409 answers, which change nothing; both
\* tasks of the repository are in REPLAYABLE_TASKS.
LoadRecord(u, t) ==
    /\ replay[u] = None
    /\ Replayable(records[t])
    /\ replay' = [replay EXCEPT ![u] = [task |-> t, sent |-> FALSE]]
    /\ UNCHANGED <<records, found, unrecorded, queueVars>>

\* send_task, with the arguments of the record.
SendReplacement(u) ==
    /\ replay[u] # None /\ ~replay[u].sent
    /\ Send(sent[replay[u].task].job, replay[u].task)
    /\ replay' = [replay EXCEPT ![u].sent = TRUE]
    /\ UNCHANGED <<records, found, unrecorded, at, delivered, held, faults>>

\* Mutant: the record is marked before the task is sent.
MarkFirst(u) == ~replay[u].sent
MarkLast(u) == replay[u].sent

\* COMMIT: the object was loaded as pending, so the status is always written.
MarkRetried(u) ==
    /\ replay[u] # None /\ MarkLast(u)
    /\ records' = [records EXCEPT ![replay[u].task].status = "retried"]
    /\ replay' = [replay EXCEPT ![u] = None]
    /\ UNCHANGED <<found, unrecorded, queueVars>>

\* The API process dies, or the broker or the database refuses: 500.
AbandonReplay(u) ==
    /\ replay[u] # None
    /\ Fault("process")
    /\ replay' = [replay EXCEPT ![u] = None]
    /\ UNCHANGED <<records, found, unrecorded, sent, ready, at, delivered, held>>
=============================================================================
