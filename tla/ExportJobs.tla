----------------------------- MODULE ExportJobs -----------------------------
(***************************************************************************)
(* POST /exports and generate_export, run inline by the request or by the  *)
(* task generate_export_task.  One action is one committed statement or    *)
(* one file operation; nothing locks the export_jobs row or the file, so   *)
(* two deliveries of one task may interleave.  download_export only reads. *)
(***************************************************************************)
EXTENDS TaskQueue

CONSTANTS
    MaxRows,          \* the most events an export finds
    DispatchModes     \* what settings.export_dispatch_mode may be

ASSUME ExportAssumption ==
    MaxRows \in Nat /\ DispatchModes \subseteq {"inline", "celery"}

VARIABLES
    jobs,      \* job -> its export_jobs row, or None
    creating,  \* job -> its request has committed the row and goes on
    file,      \* job -> the file named after it, or None
    target,    \* executor -> the job it generates, or None
    object,    \* executor -> the row as its session knows it, or None
    rows,      \* executor -> number of events it found
    contended  \* history: the jobs whose latest executions overlapped

exportVars == <<jobs, creating, file, target, object, rows, contended>>

Rows == [status : {"pending", "processing", "failed", "completed"}, row_count : Nat \cup {None}]
Files == [rows : Nat, content : {"empty", "whole", "mixed"}]

\* The type of the jobs, their files and the sessions that generate them.
ExportTypeOK ==
    /\ jobs \in [Jobs -> Rows \cup {None}]
    /\ creating \in [Jobs -> BOOLEAN]
    /\ file \in [Jobs -> Files \cup {None}]
    /\ target \in [Executors -> Jobs \cup {None}]
    /\ object \in [Executors -> Rows \cup {None}]
    /\ rows \in [Executors -> 0..MaxRows]
    /\ contended \in SUBSET Jobs

ExportInit ==
    /\ jobs = [j \in Jobs |-> None]
    /\ creating = [j \in Jobs |-> FALSE]
    /\ file = [j \in Jobs |-> None]
    /\ target = [x \in Executors |-> None]
    /\ object = [x \in Executors |-> None]
    /\ rows = [x \in Executors |-> 0]
    /\ contended = {}

-----------------------------------------------------------------------------
(* create_export                                                           *)

CreateExport(j) ==
    /\ jobs[j] = None
    /\ jobs' = [jobs EXCEPT ![j] = [status |-> "pending", row_count |-> None]]
    /\ creating' = [creating EXCEPT ![j] = TRUE]
    /\ UNCHANGED <<contended, file, target, object, rows, queueVars>>

\* Mutant: after the inline export the request goes on to the dispatch.
RequestGoesOn(j) == creating[j] /\ UNCHANGED creating
EndRequest(j) == creating[j] /\ creating' = [creating EXCEPT ![j] = FALSE]

DispatchExport(j) ==
    /\ EndRequest(j)
    /\ Send(j, 0)
    /\ UNCHANGED <<contended, jobs, file, target, object, rows, at, delivered, held, faults>>

\* An execution of j starts, alone or beside another one.
Contend(x, j) ==
    contended' = IF \E y \in Executors \ {x} : target[y] = j THEN contended \cup {j}
                 ELSE contended \ {j}

\* The request itself generates the export, in its own session.
GenerateInline(x, j) ==
    /\ EndRequest(j)
    /\ at[x] = "idle" /\ Go(x, "start")
    /\ target' = [target EXCEPT ![x] = j]
    /\ object' = [object EXCEPT ![x] = jobs[j]]
    /\ Contend(x, j)
    /\ UNCHANGED <<jobs, file, rows, sent, ready, delivered, held, faults>>

\* The API process dies between the commit and the dispatch: the job stays
\* pending, and nothing ever looks for such jobs.
CrashRequest(j) ==
    /\ EndRequest(j)
    /\ Fault("process")
    /\ UNCHANGED <<contended, jobs, file, target, object, rows, sent, ready, at, delivered, held>>

-----------------------------------------------------------------------------
(* _generate_export and generate_export                                    *)

Inline(x) == delivered[x] = None

\* The session and its object are gone.
EndSession(x) ==
    /\ target' = [target EXCEPT ![x] = None]
    /\ object' = [object EXCEPT ![x] = None]
    /\ rows' = [rows EXCEPT ![x] = 0]

\* Mutant: a completed job is generated again.
AlreadyDone(job) == job = None
Finished(job) == job = None \/ job.status = "completed"

\* session.get in the task.
GetJob(x) ==
    /\ at[x] = "get"
    /\ LET job == jobs[JobOf(x)]
       IN  IF Finished(job)
           THEN Go(x, "ack") /\ UNCHANGED <<target, object, contended>>
           ELSE /\ Go(x, "start")
                /\ target' = [target EXCEPT ![x] = JobOf(x)]
                /\ object' = [object EXCEPT ![x] = job]
                /\ Contend(x, JobOf(x))
    /\ UNCHANGED <<jobs, creating, file, rows, sent, ready, delivered, held, faults>>

\* Mutant: every column is written, as the session knows it.
UpdateAll(x, new) ==
    /\ jobs' = [jobs EXCEPT ![target[x]] = new]
    /\ object' = [object EXCEPT ![x] = new]

\* UPDATE of the columns in which the new object differs from the old one.
Update(x, new) ==
    /\ jobs' = [jobs EXCEPT ![target[x]] = [c \in DOMAIN @ |->
                    IF new[c] # object[x][c] THEN new[c] ELSE @[c]]]
    /\ object' = [object EXCEPT ![x] = new]

StartJob(x) ==
    /\ at[x] = "start"
    /\ Update(x, [object[x] EXCEPT !.status = "processing"])
    /\ Go(x, "query")
    /\ UNCHANGED <<contended, creating, file, target, rows, sent, ready, delivered, held, faults>>

\* SELECT of the matching events; the trail goes on changing under it.
QueryEvents(x) ==
    /\ at[x] = "query"
    /\ \E n \in 0..MaxRows : rows' = [rows EXCEPT ![x] = n]
    /\ Go(x, "open")
    /\ UNCHANGED <<contended, jobs, creating, file, target, object,
                   sent, ready, delivered, held, faults>>

\* Mutant: a file that is already there is taken for the export.
OpenMissing(x) ==
    /\ at[x] = "open"
    /\ IF file[target[x]] = None
       THEN /\ file' = [file EXCEPT ![target[x]] = [rows |-> 0, content |-> "empty"]]
            /\ Go(x, "write")
       ELSE Go(x, "complete") /\ UNCHANGED file
    /\ UNCHANGED <<contended, jobs, creating, target, object, rows,
                   sent, ready, delivered, held, faults>>

\* Opening for writing truncates what another delivery has written.
OpenFile(x) ==
    /\ at[x] = "open"
    /\ file' = [file EXCEPT ![target[x]] = [rows |-> 0, content |-> "empty"]]
    /\ Go(x, "write")
    /\ UNCHANGED <<contended, jobs, creating, target, object, rows,
                   sent, ready, delivered, held, faults>>

\* Somebody else has the file open, or wrote to it since x opened it.
Overlapped(x) ==
    \/ file[target[x]].content # "empty"
    \/ \E y \in Executors \ {x} : at[y] = "write" /\ target[y] = target[x]

WriteFile(x) ==
    /\ at[x] = "write"
    /\ \E content \in {"whole"} \cup (IF Overlapped(x) THEN {"mixed"} ELSE {}) :
         file' = [file EXCEPT ![target[x]] = [rows |-> rows[x], content |-> content]]
    /\ Go(x, "complete")
    /\ UNCHANGED <<contended, jobs, creating, target, object, rows,
                   sent, ready, delivered, held, faults>>

\* OSError from the writer: the disk is full, the volume is gone.
WriteFails(x) ==
    /\ at[x] \in {"open", "write"}
    /\ Fault("disk")
    /\ Go(x, "fail")
    /\ UNCHANGED <<exportVars, sent, ready, delivered, held>>

\* status "failed", then RuntimeError: a task may retry, a request answers 500.
MarkFailed(x) ==
    /\ at[x] = "fail"
    /\ jobs' = [jobs EXCEPT ![target[x]].status = "failed"]
    /\ EndSession(x)
    /\ Go(x, IF Inline(x) THEN "idle" ELSE "raised")
    /\ UNCHANGED <<contended, creating, file, sent, ready, delivered, held, faults>>

CommitCompleted(x) ==
    /\ at[x] = "complete"
    /\ jobs' = [jobs EXCEPT ![target[x]] =
                    [status |-> "completed",
                     row_count |-> IF rows[x] # object[x].row_count THEN rows[x]
                                   ELSE @.row_count]]
    /\ EndSession(x)
    /\ UNCHANGED <<contended, creating, file, sent, ready, delivered, held>>

MarkCompleted(x) ==
    /\ CommitCompleted(x)
    /\ Go(x, IF Inline(x) THEN "idle" ELSE "ack")
    /\ UNCHANGED faults

\* session.refresh fails after that commit: a dead letter, or 500, for a job
\* that is completed.
RefreshFails(x) ==
    /\ CommitCompleted(x)
    /\ Fault("database")
    /\ Go(x, IF Inline(x) THEN "idle" ELSE "record")

\* A statement fails, or mkdir does: no RuntimeError, so no retry, and the
\* row keeps the status it has.
OtherError(x) ==
    /\ at[x] \in {"get", "start", "query", "fail", "complete"}
    /\ Fault("database")
    /\ EndSession(x)
    /\ Go(x, IF Inline(x) THEN "idle" ELSE "record")
    /\ UNCHANGED <<contended, jobs, creating, file, sent, ready, delivered, held>>

\* The API process dies while it generates an export inline.
CrashInline(x) ==
    /\ at[x] # "idle" /\ Inline(x)
    /\ Fault("process")
    /\ EndSession(x)
    /\ Go(x, "idle")
    /\ UNCHANGED <<contended, jobs, creating, file, sent, ready, delivered, held>>

GenerateStep(x) ==
    \/ GetJob(x)
    \/ StartJob(x)
    \/ QueryEvents(x)
    \/ OpenFile(x)
    \/ WriteFile(x)
    \/ MarkFailed(x)
    \/ MarkCompleted(x)
=============================================================================
