-------------------------------- MODULE Jobs --------------------------------
(***************************************************************************)
(* Exports, the queue that carries them and the dead letters, composed.    *)
(***************************************************************************)
EXTENDS ExportJobs, DeadLetters

ASSUME NoneAssumption ==
    /\ None \notin Jobs /\ None \notin Nat /\ None \notin Messages
    /\ None \notin Rows /\ None \notin Records
    /\ None \notin [task : Tasks, sent : BOOLEAN]

vars == <<queueVars, exportVars, deadLetterVars>>

Init == QueueInit /\ ExportInit /\ DeadLetterInit

RequestExport(j) == CreateExport(j) /\ UNCHANGED deadLetterVars
Dispatch(j) == DispatchExport(j) /\ UNCHANGED deadLetterVars
InlineExport(x, j) == GenerateInline(x, j) /\ UNCHANGED deadLetterVars
Generate(x) == GenerateStep(x) /\ UNCHANGED deadLetterVars
Record(x) == (ReadRecord(x) \/ WriteRecord(x)) /\ UNCHANGED exportVars

TakeMessage(x) == Deliver(x) /\ UNCHANGED <<exportVars, deadLetterVars>>

\* Celery's side of a task that has returned or raised.
Conclude(x) ==
    /\ PublishRetry(x) \/ ExhaustRetries(x) \/ Ack(x)
    /\ UNCHANGED <<exportVars, deadLetterVars>>

Replay(u) ==
    /\ (\E t \in Tasks : LoadRecord(u, t)) \/ SendReplacement(u) \/ MarkRetried(u)
    /\ UNCHANGED exportVars

\* A worker that dies takes its session and its handler with it.
LoseWorker(x) ==
    /\ WorkerLost(x)
    /\ EndSession(x)
    /\ found' = [found EXCEPT ![x] = None]
    /\ UNCHANGED <<jobs, creating, file, contended, records, replay, unrecorded>>

Misfortune(x) ==
    \/ LoseWorker(x)
    \/ (VisibilityTimeout(x) /\ UNCHANGED <<exportVars, deadLetterVars>>)
    \/ /\ WriteFails(x) \/ RefreshFails(x) \/ OtherError(x) \/ CrashInline(x)
       /\ UNCHANGED deadLetterVars
    \/ (RecordLost(x) /\ UNCHANGED exportVars)

Next ==
    \/ \E j \in Jobs :
        \/ RequestExport(j)
        \/ ("celery" \in DispatchModes /\ Dispatch(j))
        \/ ("inline" \in DispatchModes /\ \E x \in Executors : InlineExport(x, j))
        \/ (CrashRequest(j) /\ UNCHANGED deadLetterVars)
    \/ \E x \in Executors :
        TakeMessage(x) \/ Generate(x) \/ Conclude(x) \/ Record(x) \/ Misfortune(x)
    \/ \E u \in Admins : Replay(u) \/ (AbandonReplay(u) /\ UNCHANGED exportVars)

Spec == Init /\ [][Next]_vars

-----------------------------------------------------------------------------
(* Properties                                                              *)

\* Every variable keeps its type; a message never carries more than
\* max_retries retries.
TypeOK == QueueTypeOK /\ ExportTypeOK /\ DeadLetterTypeOK

\* The tasks that were sent for a job, and those somebody still has to run.
TasksOf(j) == {t \in DOMAIN sent : sent[t].job = j}
InFlight(t) ==
    \/ \E m \in BagToSet(ready) : m.task = t
    \/ \E x \in Executors : delivered[x] # None /\ delivered[x].task = t

Completed(j) == jobs[j] # None /\ jobs[j].status = "completed"
Unrecorded(j) == TasksOf(j) \cap unrecorded # {}
Recorded(j) == \E t \in TasksOf(j) : records[t] # None /\ records[t].status = "pending"

\* A dispatched job never falls through the cracks: when no message of it is
\* left, an execution has completed it (a slower one may have put its status
\* back since) or an administrator finds a pending dead letter.
Produced(j) == jobs[j].row_count # None
NoSilentLoss ==
    \A j \in Jobs :
        TasksOf(j) # {} /\ (\A t \in TasksOf(j) : ~InFlight(t)) 
            => Produced(j) \/ Recorded(j) \/ Unrecorded(j)

\* A record says "retried" only if a replacement of its task was sent.
RetriedWasSent ==
    \A t \in Tasks :
        records[t] # None /\ records[t].status = "retried"
        => \E s \in DOMAIN sent : sent[s].replays = t

\* A download is the complete output of one execution, with as many rows as
\* the job says, unless executions of the job overlapped: a timeout or a replay
\* that makes two of them write one file is the only thing that spoils it.
DownloadIsWhole ==
    \A j \in Jobs : Completed(j) /\ j \notin contended =>
        file[j] = [rows |-> jobs[j].row_count, content |-> "whole"]

\* A completed job stays as it is, and so does its file, whatever is retried,
\* delivered again or replayed afterwards, unless executions of it overlapped:
\* only one that had begun before can set it back.
CompletedIsFinal ==
    [][\A j \in Jobs : Completed(j) /\ j \notin contended =>
         jobs'[j] = jobs[j] /\ file'[j] = file[j]]_vars

\* The jobs, their requests and the tasks as clients and administrators see them.
StatusOf(j) == IF jobs[j] = None THEN "none" ELSE jobs[j].status
RequestOf(j) ==
    IF jobs[j] = None THEN "none"
    ELSE IF creating[j] THEN "open"
    ELSE IF \E x \in Executors : at[x] # "idle" /\ Inline(x) /\ target[x] = j THEN "inline"
    ELSE "over"
RecordsThatAre(status) == {t \in Tasks : records[t] # None /\ records[t].status = status}

Service == INSTANCE ExportService WITH
    status <- [j \in Jobs |-> StatusOf(j)],
    generated <- {j \in Jobs : jobs[j] # None /\ Produced(j)},
    request <- [j \in Jobs |-> RequestOf(j)],
    tasks <- sent,
    open <- {t \in DOMAIN sent : InFlight(t)},
    pending <- RecordsThatAre("pending"),
    retried <- RecordsThatAre("retried"),
    lost <- unrecorded

\* Exports are an at-least-once service with recorded failures, although a
\* message may be delivered twice, retried, requeued by a dying worker or
\* acknowledged by one that Redis no longer waits for: only tasks at work
\* touch a job, nothing generated is undone, and a task ends once, explained.
ImplementsExportService == Service!Spec

\* A record is replayed once per failure it counts: the second replay
\* answers 409 (docs/operations.md, Dead-letter recovery).
ReplayedOnce ==
    \A t \in Tasks : records[t] # None =>
        Cardinality({s \in DOMAIN sent : sent[s].replays = t}) <= records[t].attempts

-----------------------------------------------------------------------------
(* Fairness: an executor that is not killed goes on, and a free worker     *)
(* takes a message that waits.  Nobody is obliged to ask for an export or  *)
(* a replay, and no fault has to happen.                                   *)
FairSpec ==
    /\ Spec
    /\ \A x \in Executors : WF_vars(TakeMessage(x) \/ Generate(x) \/ Conclude(x) \/ Record(x))

\* A dispatched job is completed, or recorded for an administrator, in the
\* end, unless the database was out of reach when it was to be recorded.
JobsSettle == \A j \in Jobs : TasksOf(j) # {} ~> Completed(j) \/ Recorded(j) \/ Unrecorded(j)
=============================================================================
