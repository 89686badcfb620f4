---------------------------- MODULE ExportService ----------------------------
(***************************************************************************)
(* What POST /exports and the replay of dead letters promise, without      *)
(* workers, messages or sessions.  A request generates its job itself or   *)
(* sends one task for it, or is lost before either.  A task may be tried   *)
(* any number of times while it is open, and only an open task of a job,   *)
(* or its own request, touches the row of the job.  What was generated     *)
(* stays so.  A task is closed for good, and only when its job has been    *)
(* generated, its failure has a record, or recording it has failed.        *)
(***************************************************************************)
EXTENDS Integers, Sequences

CONSTANT Jobs

VARIABLES
    status,     \* job -> "none" before it is asked for, then what its row says
    generated,  \* the jobs with a count of rows
    request,    \* job -> "none", "open", "inline" or "over"
    tasks,      \* the tasks sent, each [job, replays]
    open,       \* those that may still be tried
    pending,    \* those with a record of their failure
    retried,    \* those with a record that says it was replayed
    lost        \* those whose failure could not be recorded

jobVars == <<status, generated>>
taskVars == <<tasks, open>>
letterVars == <<pending, retried, lost>>
vars == <<jobVars, request, taskVars, letterVars>>

Init == /\ status = [j \in Jobs |-> "none"]
        /\ generated = {}
        /\ request = [j \in Jobs |-> "none"]
        /\ tasks = << >>
        /\ open = {} /\ pending = {} /\ retried = {} /\ lost = {}

Recorded(t) == t \in pending \cup retried
Busy(j) == request[j] = "inline" \/ \E t \in open : tasks[t].job = j

Post(j) ==
    /\ status[j] = "none"
    /\ status' = [status EXCEPT ![j] = "pending"]
    /\ request' = [request EXCEPT ![j] = "open"]
    /\ UNCHANGED <<generated, taskVars, letterVars>>

Proceed(j, step) == request[j] = "open" /\ request' = [request EXCEPT ![j] = step]

Send(j, t) ==
    /\ tasks' = Append(tasks, [job |-> j, replays |-> t])
    /\ open' = open \cup {Len(tasks) + 1}
    /\ UNCHANGED <<jobVars, letterVars>>

Dispatch(j) == Proceed(j, "over") /\ Send(j, 0)

\* The request generates its job itself, or is lost.
Begin(j) ==
    /\ Proceed(j, "inline") \/ Proceed(j, "over")
    /\ UNCHANGED <<jobVars, taskVars, letterVars>>

Finish(j) ==
    /\ request[j] = "inline"
    /\ request' = [request EXCEPT ![j] = "over"]

Work(j) ==
    /\ Busy(j)
    /\ \/ /\ \E s \in {"processing", "failed"} : status' = [status EXCEPT ![j] = s]
          /\ UNCHANGED generated
       \/ /\ status' = [status EXCEPT ![j] = "completed"]
          /\ generated' = generated \cup {j}
       \/ UNCHANGED jobVars
    /\ Finish(j) \/ UNCHANGED request
    /\ UNCHANGED <<taskVars, letterVars>>

\* The failure of a task is recorded, or the attempt to record it fails.
Fail(t) ==
    /\ t \in open
    /\ \/ pending' = pending \cup {t} /\ retried' = retried \ {t} /\ UNCHANGED lost
       \/ lost' = lost \cup {t} /\ UNCHANGED <<pending, retried>>
    /\ UNCHANGED <<jobVars, request, taskVars>>

Close(t) ==
    /\ t \in open
    /\ tasks[t].job \in generated \/ Recorded(t) \/ t \in lost
    /\ open' = open \ {t}
    /\ UNCHANGED <<jobVars, request, tasks, letterVars>>

Replay(t) ==
    /\ Recorded(t)
    /\ Send(tasks[t].job, t)
    /\ UNCHANGED request

Mark(t) ==
    /\ t \in pending
    /\ \E s \in DOMAIN tasks : tasks[s].replays = t /\ tasks[s].job = tasks[t].job
    /\ pending' = pending \ {t} /\ retried' = retried \cup {t}
    /\ UNCHANGED <<jobVars, request, taskVars, lost>>

Next ==
    \/ \E j \in Jobs : Post(j) \/ Dispatch(j) \/ Begin(j) \/ Work(j)
    \/ \E t \in DOMAIN tasks : Fail(t) \/ Close(t) \/ Replay(t) \/ Mark(t)

Spec == Init /\ [][Next]_vars
=============================================================================
