----------------------------- MODULE TaskQueue -----------------------------
(***************************************************************************)
(* The Celery queue in Redis and its worker processes, as                  *)
(* workers/celery_app.py configures them: messages are acknowledged late,  *)
(* a message whose process is lost is queued again, a task that raises     *)
(* RuntimeError is published again at most max_retries times, and Redis    *)
(* queues a message again that stays unacknowledged for too long.  A       *)
(* retry's delay is any delay: the queue has no order.                     *)
(***************************************************************************)
EXTENDS Integers, Sequences, FiniteSets, Bags

CONSTANTS
    Executors,    \* worker processes and API requests that run a job inline
    Jobs,         \* the export jobs
    MaxTasks,     \* bound on the tasks that are sent
    MaxRetries,   \* max_retries of generate_export_task
    FaultKinds,   \* the faults of a run of the model
    MaxFaults,    \* bound on their number
    None          \* SQL NULL and Python None

ASSUME QueueAssumption ==
    /\ MaxTasks \in Nat /\ MaxRetries \in Nat /\ MaxFaults \in Nat
    /\ FaultKinds \subseteq {"process", "timeout", "disk", "database", "outage"}

VARIABLES
    sent,        \* sequence of the tasks sent: its positions are the task ids
    ready,       \* bag of the messages that wait for a worker
    at,          \* executor -> what it does next
    delivered,   \* executor -> the message it works on, or None
    held,        \* executor -> Redis still counts its message as delivered
    faults       \* number of faults so far

queueVars == <<sent, ready, at, delivered, held, faults>>

Messages == [task : Nat, retries : 0..MaxRetries]
Places == {"idle", "get", "start", "query", "open", "write", "complete", "fail",
           "raised", "record", "persist", "ack"}

\* The type of the queue and of its executors.
QueueTypeOK ==
    /\ sent \in Seq([job : Jobs, replays : Nat])
    /\ IsABag(ready) /\ BagToSet(ready) \subseteq Messages
    /\ at \in [Executors -> Places]
    /\ delivered \in [Executors -> Messages \cup {None}]
    /\ held \in [Executors -> BOOLEAN]
    /\ faults \in 0..MaxFaults

QueueInit ==
    /\ sent = << >>
    /\ ready = EmptyBag
    /\ at = [x \in Executors |-> "idle"]
    /\ delivered = [x \in Executors |-> None]
    /\ held = [x \in Executors |-> FALSE]
    /\ faults = 0

Message(task, retries) == SetToBag({[task |-> task, retries |-> retries]})
JobOf(x) == sent[delivered[x].task].job

Go(x, place) == at' = [at EXCEPT ![x] = place]

Fault(kind) ==
    /\ kind \in FaultKinds /\ faults < MaxFaults
    /\ faults' = faults + 1

\* delay and send_task: a new task id; replays is the task whose dead letter
\* asked for it, 0 for a task an export request dispatched.
Send(job, replays) ==
    /\ Len(sent) < MaxTasks
    /\ sent' = Append(sent, [job |-> job, replays |-> replays])
    /\ ready' = ready (+) Message(Len(sent) + 1, 0)

\* A free worker process takes a message.
Deliver(x) ==
    /\ at[x] = "idle"
    /\ \E m \in BagToSet(ready) :
        /\ ready' = ready (-) SetToBag({m})
        /\ delivered' = [delivered EXCEPT ![x] = m]
    /\ held' = [held EXCEPT ![x] = TRUE]
    /\ Go(x, "get")
    /\ UNCHANGED <<sent, faults>>

\* The executor is done with its message.
Drop(x) ==
    /\ Go(x, "idle")
    /\ delivered' = [delivered EXCEPT ![x] = None]
    /\ held' = [held EXCEPT ![x] = FALSE]

Requeued(x) == IF held[x] THEN ready (+) SetToBag({delivered[x]}) ELSE ready

\* task_acks_late: only after the task returned, or its failure was handled.
Ack(x) ==
    /\ at[x] = "ack"
    /\ Drop(x)
    /\ UNCHANGED <<sent, ready, faults>>

\* Mutant: without task_reject_on_worker_lost the message is acknowledged.
WorkerLostAcked(x) ==
    /\ delivered[x] # None
    /\ Fault("process")
    /\ Drop(x)
    /\ UNCHANGED <<sent, ready>>

\* The worker process dies: task_reject_on_worker_lost.
WorkerLost(x) ==
    /\ delivered[x] # None
    /\ Fault("process")
    /\ ready' = Requeued(x)
    /\ Drop(x)
    /\ UNCHANGED sent

\* Redis gives the message of a slow task to another worker.
VisibilityTimeout(x) ==
    /\ held[x]
    /\ Fault("timeout")
    /\ ready' = Requeued(x)
    /\ held' = [held EXCEPT ![x] = FALSE]
    /\ UNCHANGED <<sent, at, delivered>>

\* Mutant: one retry too many.
RetryUpTo(retries) == retries <= MaxRetries
RetriesLeft(retries) == retries < MaxRetries

\* Mutant: the retry is not published.
RetryForgotten(x) ==
    /\ at[x] = "raised" /\ RetriesLeft(delivered[x].retries)
    /\ Go(x, "ack")
    /\ UNCHANGED <<sent, ready, delivered, held, faults>>

\* autoretry_for: the task is published again, then this message is
\* acknowledged; a crash between the two leaves both.
PublishRetry(x) ==
    /\ at[x] = "raised" /\ RetriesLeft(delivered[x].retries)
    /\ ready' = ready (+) Message(delivered[x].task, delivered[x].retries + 1)
    /\ Go(x, "ack")
    /\ UNCHANGED <<sent, delivered, held, faults>>

\* No retries left: the failure is terminal.
ExhaustRetries(x) ==
    /\ at[x] = "raised" /\ ~RetriesLeft(delivered[x].retries)
    /\ Go(x, "record")
    /\ UNCHANGED <<sent, ready, delivered, held, faults>>
=============================================================================
