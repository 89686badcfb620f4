----------------------------- MODULE Retention -----------------------------
(***************************************************************************)
(* The retention policy endpoints and execute_retention: read the policy,  *)
(* plan every application, then checkpoint and delete one application      *)
(* after the other in a transaction that commits at the end.  A run lives  *)
(* in a slot of Runs that is used again once it is idle.                   *)
(***************************************************************************)
EXTENDS ChainStore, FiniteSetsExt

CONSTANTS
    Runs,            \* slots for retention runs in progress
    Admins,          \* slots for PUT requests in progress
    DispatchModes,   \* what settings.retention_dispatch_mode may be
    Policies,        \* the policies an administrator may set
    MaxRetries,      \* max_retries of execute_retention_task
    MaxRuns          \* bound on the runs that are started

ASSUME RetentionAssumption ==
    /\ \A p \in Policies : p \in [retention_days : Nat, legal_hold : BOOLEAN]
    /\ DispatchModes \subseteq {"inline", "celery"}
    /\ MaxRetries \in Nat /\ MaxRuns \in Nat

VARIABLES
    policy,     \* the retention_policies row, or None
    put,        \* admin -> the PUT it has loaded the row for, or None
    step,       \* run -> what it does next
    seen,       \* run -> the policy object the router loaded, or None (celery)
    cutoff,     \* run -> cutoff_at
    plan,       \* run -> app -> its ApplicationRetentionPlan, once built
    loaded,     \* run -> the checkpoint row it has read and is about to write
    retries,    \* run -> task retries so far
    started,    \* number of runs started so far
    overtaken   \* history: the applications whose trail a run cut under another's plan

runVars == <<step, seen, cutoff, plan, loaded, retries>>
retentionVars == <<policy, put, runVars, started, overtaken>>

Steps == {"idle", "start", "plan", "acknowledge"}

PolicyRows == [retention_days : Nat, legal_hold : BOOLEAN]
ASSUME NoPolicyAssumption == None \notin PolicyRows

Plans == [ids : SUBSET Nat, anchor_hash : Hashes \cup {None}, removed_through_at : Int]
Writes == [run : Runs, inserted : BOOLEAN, ids : SUBSET Nat, checkpoint : Checkpoints]

\* The type of the policy, the runs and what their transactions wrote.
RetentionTypeOK ==
    /\ uncommitted \in [Apps -> Writes \cup {None}]
    /\ policy \in PolicyRows \cup {None}
    /\ put \in [Admins -> [loaded : PolicyRows \cup {None}, new : PolicyRows] \cup {None}]
    /\ step \in [Runs -> Steps]
    /\ seen \in [Runs -> PolicyRows \cup {None}]
    /\ cutoff \in [Runs -> Int]
    /\ plan \in [Runs -> [Apps -> Plans \cup {None}]]
    /\ loaded \in [Runs -> [app : Apps, row : Checkpoints \cup {None}] \cup {None}]
    /\ retries \in [Runs -> Nat]
    /\ started \in Nat
    /\ overtaken \in SUBSET Apps

Unplanned == [a \in Apps |-> None]

\* The policy may have been set before the first event arrives.
RetentionInit ==
    /\ policy \in Policies \cup {None}
    /\ put = [u \in Admins |-> None]
    /\ step = [k \in Runs |-> "idle"]
    /\ seen = [k \in Runs |-> None]
    /\ cutoff = [k \in Runs |-> 0]
    /\ plan = [k \in Runs |-> Unplanned]
    /\ loaded = [k \in Runs |-> None]
    /\ retries = [k \in Runs |-> 0]
    /\ started = 0
    /\ overtaken = {}

-----------------------------------------------------------------------------
(* update_retention_policy                                                 *)

PutLoad(u, new) ==
    /\ put[u] = None
    /\ put' = [put EXCEPT ![u] = [loaded |-> policy, new |-> new]]
    /\ UNCHANGED <<policy, runVars, started, overtaken, storeVars>>

\* COMMIT: an INSERT, which fails if another PUT inserted the row first
\* (500), or an UPDATE of the columns that differ from the loaded row.
PutCommit(u) ==
    /\ put[u] # None
    /\ put' = [put EXCEPT ![u] = None]
    /\ policy' = IF put[u].loaded # None THEN Flushed(policy, put[u].loaded, put[u].new)
                 ELSE IF policy = None THEN put[u].new ELSE policy
    /\ UNCHANGED <<runVars, started, overtaken, storeVars>>

-----------------------------------------------------------------------------
(* run_retention and execute_retention                                     *)

\* The session is closed; next is what is left to do.
Reset(k, next) ==
    /\ step' = [step EXCEPT ![k] = next]
    /\ seen' = [seen EXCEPT ![k] = None]
    /\ retries' = [retries EXCEPT ![k] = IF next = "idle" THEN 0 ELSE @]
    /\ cutoff' = [cutoff EXCEPT ![k] = 0]
    /\ plan' = [plan EXCEPT ![k] = Unplanned]
    /\ loaded' = [loaded EXCEPT ![k] = None]

\* run_retention: 404 without a policy and 409 under a hold change nothing.
RequestRun(k, mode) ==
    /\ step[k] = "idle"
    /\ started < MaxRuns /\ started' = started + 1
    /\ policy # None /\ ~policy.legal_hold
    /\ step' = [step EXCEPT ![k] = "start"]
    /\ seen' = [seen EXCEPT ![k] = IF mode = "celery" THEN None ELSE policy]
    /\ UNCHANGED <<policy, put, overtaken, cutoff, plan, loaded, retries, storeVars>>

\* The policy execute_retention works with: inline, its SELECT returns the
\* object the router already holds in the same session, unrefreshed.
PolicyRead(k) == IF seen[k] = None THEN policy ELSE seen[k]

\* LegalHoldError is a RuntimeError: autoretry, then a terminal failure.
HoldStopsRun(k) ==
    /\ step[k] = "start"
    /\ PolicyRead(k).legal_hold
    /\ \/ /\ retries[k] < MaxRetries
          /\ retries' = [retries EXCEPT ![k] = @ + 1]
          /\ UNCHANGED <<step, seen, cutoff, plan, loaded>>
       \/ /\ retries[k] = MaxRetries
          /\ Reset(k, "idle")
    /\ UNCHANGED <<policy, put, started, overtaken, storeVars>>

\* The clock is that of the process that executes the run.
ExecuteRetention(k) ==
    /\ step[k] = "start"
    /\ ~PolicyRead(k).legal_hold
    /\ \E skew \in 0..MaxSkew :
         cutoff' = [cutoff EXCEPT ![k] = now + skew - PolicyRead(k).retention_days]
    /\ step' = [step EXCEPT ![k] = "plan"]
    /\ UNCHANGED <<policy, put, started, overtaken, seen, plan, loaded, retries, storeVars>>

\* An ApplicationRetentionPlan: the ids and, unless there are none, the hash
\* and the time of the event named last.
PlanOf(a, expired, last) ==
    [ids |-> expired,
     anchor_hash |-> IF expired = {} THEN None ELSE log[a][last].event_hash,
     removed_through_at |-> IF expired = {} THEN 0 ELSE log[a][last].occurred_at]

\* Mutant: the anchor is taken from the latest event of the application.
PlanThroughLatest(a, rows, cutoff_at) ==
    PlanOf(a, contiguous_expired_prefix(a, rows, cutoff_at), LastOf(a, rows))

PlanFor(a, rows, cutoff_at) ==
    LET expired == contiguous_expired_prefix(a, rows, cutoff_at)
    IN  PlanOf(a, expired, LastOf(a, expired))

\* build_retention_plan, one SELECT per application in no particular order.
PlanApplication(k, a) ==
    /\ step[k] = "plan" /\ plan[k][a] = None
    /\ plan' = [plan EXCEPT ![k][a] = PlanFor(a, live[a], cutoff[k])]
    /\ UNCHANGED <<policy, put, started, overtaken, step, seen, cutoff, loaded, retries, storeVars>>

Planned(k) == \A a \in Apps : plan[k][a] # None
Wrote(k, a) == uncommitted[a] # None /\ uncommitted[a].run = k

\* Mutant: applications with nothing to remove are not skipped.
Unwritten(k) == {a \in Apps : ~Wrote(k, a)}

Remaining(k) == {a \in Apps : plan[k][a].ids # {} /\ ~Wrote(k, a)}

ReadCheckpoint(k, a) ==
    /\ step[k] = "plan" /\ Planned(k) /\ loaded[k] = None
    /\ a \in Remaining(k)
    /\ loaded' = [loaded EXCEPT ![k] = [app |-> a, row |-> checkpoint[a]]]
    /\ UNCHANGED <<policy, put, started, overtaken, step, seen, cutoff, plan, retries, storeVars>>

\* Mutant: the count of earlier runs is overwritten.
CheckpointOfRun(k) ==
    LET p == plan[k][loaded[k].app]
    IN  [anchor_hash |-> p.anchor_hash,
         removed_through_at |-> p.removed_through_at,
         removed_event_count |-> Cardinality(p.ids)]

\* The checkpoint object the run flushes.
NewCheckpoint(k) ==
    LET p == plan[k][loaded[k].app]
        row == loaded[k].row
    IN  [anchor_hash |-> p.anchor_hash,
         removed_through_at |-> p.removed_through_at,
         removed_event_count |->
            (IF row = None THEN 0 ELSE row.removed_event_count) + Cardinality(p.ids)]

\* Mutant: the DELETE names a time instead of the planned ids.
DeletedThrough(k, a) ==
    {i \in live[a] : log[a][i].occurred_at <= plan[k][a].removed_through_at}

\* The rows the DELETE names.
Deleted(k, a) == plan[k][a].ids

\* The flush of the checkpoint and the DELETE.  Both wait for another open
\* retention transaction of the application; an INSERT also waits for the
\* FOR UPDATE lock of a writer, its foreign key asking for FOR KEY SHARE.
WriteCheckpoint(k) ==
    /\ loaded[k] # None
    /\ LET a == loaded[k].app
           row == loaded[k].row
       IN  /\ uncommitted[a] = None
           /\ row = None => exclusive[a] = None /\ checkpoint[a] = None
           /\ uncommitted' = [uncommitted EXCEPT ![a] =
                [run |-> k, inserted |-> row = None, ids |-> Deleted(k, a),
                 checkpoint |-> IF row = None THEN NewCheckpoint(k)
                                ELSE Flushed(checkpoint[a], row, NewCheckpoint(k))]]
    /\ loaded' = [loaded EXCEPT ![k] = None]
    /\ UNCHANGED <<policy, put, started, overtaken, step, seen, cutoff, plan, retries,
                   log, live, checkpoint, now, exclusive>>

\* Mutant: the transaction is left open.
LeftOpen(k) == UNCHANGED uncommitted

\* The end of the run's transaction: nothing it wrote is pending any more.
Rollback(k) == uncommitted' = [a \in Apps |-> IF Wrote(k, a) THEN None ELSE uncommitted[a]]

AbortRun(k, next) ==
    /\ Reset(k, next)
    /\ Rollback(k)
    /\ UNCHANGED <<policy, put, started, overtaken, log, live, checkpoint, now, exclusive>>

\* Another run inserted the application's checkpoint first: IntegrityError,
\* which is not a RuntimeError, so the task is not retried.
CheckpointExists(k) ==
    /\ loaded[k] # None /\ loaded[k].row = None
    /\ uncommitted[loaded[k].app] = None /\ checkpoint[loaded[k].app] # None
    /\ AbortRun(k, "idle")

\* Two runs may take the checkpoints of two applications in opposite orders;
\* PostgreSQL then aborts one of the cycle, and nobody catches the error.
\* Requests are on no such cycle: one that holds an application's lock waits
\* only for a run that updates, and no longer inserts, its checkpoint.
Waits(k, x) ==
    loaded[k] # None /\ uncommitted[loaded[k].app] # None /\ uncommitted[loaded[k].app].run = x

DeadlockVictim(k) ==
    /\ \E S \in SUBSET Runs :
         k \in S /\ \A y \in S : (\E z \in S : Waits(y, z)) /\ (\E z \in S : Waits(z, y))
    /\ AbortRun(k, "idle")

\* The retention_runs row CommitRun commits; nothing ever reads these rows,
\* so no variable keeps them.  deleted_count sums the plans, not what the
\* DELETEs found.  checkpoint_hashes is inserted empty before the loop, and
\* filling the dict in place is no change the ORM flushes.
RunRow(k) ==
    LET planned == MapThenSumSet(LAMBDA a : Cardinality(plan[k][a].ids), Apps)
    IN  [cutoff_at |-> cutoff[k], candidate_count |-> planned, deleted_count |-> planned,
         checkpoint_hashes |-> {}]

\* Another run is about to remove events of the application, too.
PlannedElsewhere(k, a) == \E x \in Runs \ {k} : plan[x][a] # None /\ plan[x][a].ids # {}

CommitRun(k) ==
    /\ step[k] = "plan" /\ Planned(k) /\ loaded[k] = None /\ Remaining(k) = {}
    /\ live' = [a \in Apps |-> IF Wrote(k, a) THEN live[a] \ uncommitted[a].ids ELSE live[a]]
    /\ checkpoint' = [a \in Apps |-> IF Wrote(k, a) THEN uncommitted[a].checkpoint
                                     ELSE checkpoint[a]]
    /\ overtaken' = overtaken \cup {a \in Apps : Wrote(k, a) /\ PlannedElsewhere(k, a)}
    /\ Rollback(k)
    /\ Reset(k, IF seen[k] = None THEN "acknowledge" ELSE "idle")
    /\ UNCHANGED <<policy, put, started, log, now, exclusive>>

\* The worker acknowledges the message only now (task_acks_late).
Acknowledge(k) ==
    /\ step[k] = "acknowledge"
    /\ Reset(k, "idle")
    /\ UNCHANGED <<policy, put, started, overtaken, storeVars>>

\* The process dies.  A task's message is not acknowledged and is delivered
\* again (task_reject_on_worker_lost); an inline run dies with its request.
CrashRun(k) ==
    /\ step[k] # "idle"
    /\ AbortRun(k, IF seen[k] = None THEN "start" ELSE "idle")

RunStep(k) ==
    \/ HoldStopsRun(k)
    \/ ExecuteRetention(k)
    \/ \E a \in Apps : PlanApplication(k, a) \/ ReadCheckpoint(k, a)
    \/ WriteCheckpoint(k)
    \/ CheckpointExists(k)
    \/ DeadlockVictim(k)
    \/ CommitRun(k)
    \/ Acknowledge(k)
=============================================================================
