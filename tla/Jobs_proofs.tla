----------------------------- MODULE Jobs_proofs -----------------------------
(***************************************************************************)
(* Proofs about Jobs, for every value of its constants: the types, that no *)
(* dispatched job is lost, what executions make of a job and its file, and *)
(* that the jobs implement the abstract ExportService.                     *)
(***************************************************************************)
EXTENDS Jobs, SequenceTheorems, TLAPS

-----------------------------------------------------------------------------
(* The inductive invariant.                                                *)

Working == {"start", "query", "open", "write", "complete", "fail"}
Handling == {"get", "raised", "record", "persist", "ack"}

\* The messages and the executors name tasks that were sent, for jobs that
\* exist, and a session works on the job of its message.
MessagesOK ==
    /\ Len(sent) <= MaxTasks
    /\ \A m \in BagToSet(ready) : m.task \in DOMAIN sent
    /\ \A x \in Executors :
        /\ delivered[x] # None => delivered[x].task \in DOMAIN sent
        /\ held[x] => delivered[x] # None
        /\ at[x] = "idle" => delivered[x] = None
        /\ at[x] \in Handling => delivered[x] # None

SessionsOK ==
    \A x \in Executors : at[x] \in Working =>
        /\ target[x] # None /\ object[x] # None /\ jobs[target[x]] # None
        /\ delivered[x] # None => target[x] = JobOf(x)
        /\ object[x].row_count # None => jobs[target[x]].row_count # None

\* A row exists before its task is sent, and has a count once completed.
JobsOK ==
    /\ \A t \in DOMAIN sent : jobs[sent[t].job] # None
    /\ \A j \in Jobs : creating[j] => jobs[j] # None
    /\ \A j \in Jobs : Completed(j) => Produced(j)

\* A handler that has read a record found one that stays.
FoundOK ==
    \A x \in Executors : found[x] # None =>
        at[x] = "persist" /\ records[delivered[x].task] # None

RecordsOK ==
    /\ \A t \in Tasks : records[t] # None => t \in DOMAIN sent
    /\ \A u \in Admins : replay[u] # None =>
        replay[u].task \in DOMAIN sent /\ records[replay[u].task] # None

TypeInv == TypeOK /\ MessagesOK /\ SessionsOK /\ JobsOK /\ FoundOK /\ RecordsOK

\* Somebody still has to run the task: a message of it waits, or an executor
\* that Redis waits for has not come to its acknowledgement.
Active(t) ==
    \/ \E m \in BagToSet(ready) : m.task = t
    \/ \E x \in Executors :
        held[x] /\ at[x] # "ack" /\ delivered[x].task = t

Served(t) == Active(t) \/ Produced(sent[t].job) \/ t \in unrecorded \/ records[t] # None

AllServed == \A t \in DOMAIN sent : Served(t)

\* A later task of the same job replaces t.
Replaced(t) ==
    \E s \in DOMAIN sent : s > t /\ sent[s].job = sent[t].job /\ sent[s].replays = t

Replacements ==
    /\ \A t \in Tasks : records[t] # None /\ records[t].status = "retried" => Replaced(t)
    /\ \A u \in Admins : replay[u] # None /\ replay[u].sent => Replaced(replay[u].task)

\* The tasks of a job have a last one.
LastTasks ==
    \A j \in Jobs : TasksOf(j) # {} => \E t \in TasksOf(j) : \A s \in TasksOf(j) : s <= t

IInv == TypeInv /\ AllServed /\ Replacements /\ LastTasks

-----------------------------------------------------------------------------
(* Bags, and the steps that put a message into one.                        *)

LEMMA BagAdd ==
    ASSUME NEW B, IsABag(B), NEW m
    PROVE  /\ IsABag(B (+) SetToBag({m}))
           /\ BagToSet(B (+) SetToBag({m})) = BagToSet(B) \cup {m}
BY DEF IsABag, BagToSet, SetToBag, (+)

LEMMA BagRemove ==
    ASSUME NEW B, IsABag(B), NEW m \in BagToSet(B)
    PROVE  /\ IsABag(B (-) SetToBag({m}))
           /\ BagToSet(B (-) SetToBag({m})) \subseteq BagToSet(B)
           /\ BagToSet(B) \ {m} \subseteq BagToSet(B (-) SetToBag({m}))
BY DEF IsABag, BagToSet, SetToBag, (-)

\* Sending adds one task and one message, and alters none.
LEMMA SendFacts ==
    ASSUME QueueTypeOK, NEW job \in Jobs, NEW r \in Nat, Send(job, r)
    PROVE  /\ sent' \in Seq([job : Jobs, replays : Nat])
           /\ Len(sent') = Len(sent) + 1 /\ Len(sent') <= MaxTasks
           /\ DOMAIN sent' = DOMAIN sent \cup {Len(sent) + 1}
           /\ \A t \in DOMAIN sent : sent'[t] = sent[t] /\ t \in Nat /\ t < Len(sent) + 1
           /\ sent'[Len(sent) + 1] = [job |-> job, replays |-> r]
           /\ IsABag(ready')
           /\ BagToSet(ready') = BagToSet(ready) \cup {[task |-> Len(sent) + 1, retries |-> 0]}
           /\ BagToSet(ready') \subseteq Messages
<1>1. sent \in Seq([job : Jobs, replays : Nat]) /\ Len(sent) \in Nat
  BY DEF QueueTypeOK
<1>2. sent' = Append(sent, [job |-> job, replays |-> r]) /\ Len(sent) < MaxTasks
  BY DEF Send
<1>3. ready' = ready (+) SetToBag({[task |-> Len(sent) + 1, retries |-> 0]})
  BY DEF Send, Message
<1>4. /\ IsABag(ready')
      /\ BagToSet(ready') = BagToSet(ready) \cup {[task |-> Len(sent) + 1, retries |-> 0]}
  BY <1>3, BagAdd DEF QueueTypeOK
<1>5. BagToSet(ready') \subseteq Messages
  BY <1>1, <1>4, QueueAssumption DEF QueueTypeOK, Messages
<1> QED  BY <1>1, <1>2, <1>4, <1>5, QueueAssumption

\* A message that is queued again is the one the executor had.
LEMMA RequeueFacts ==
    ASSUME QueueTypeOK, NEW x \in Executors, ready' = Requeued(x),
           held[x] => delivered[x] # None
    PROVE  /\ IsABag(ready')
           /\ BagToSet(ready') =
                BagToSet(ready) \cup (IF held[x] THEN {delivered[x]} ELSE {})
           /\ BagToSet(ready') \subseteq Messages
<1>1. CASE held[x]
  <2>1. delivered[x] \in Messages /\ ready' = ready (+) SetToBag({delivered[x]})
    BY <1>1 DEF QueueTypeOK, Requeued
  <2>2. IsABag(ready) /\ BagToSet(ready) \subseteq Messages
    BY DEF QueueTypeOK
  <2> DEFINE B == ready (+) SetToBag({delivered[x]})
  <2>a. IsABag(B) /\ BagToSet(B) = BagToSet(ready) \cup {delivered[x]}
    BY <2>2, BagAdd, Zenon
  <2>3. IsABag(ready') /\ BagToSet(ready') = BagToSet(ready) \cup {delivered[x]}
    BY <2>1, <2>a, Zenon
  <2> QED  BY <1>1, <2>1, <2>2, <2>3
<1>2. CASE ~held[x]
  BY <1>2 DEF QueueTypeOK, Requeued
<1> QED  BY <1>1, <1>2

LEMMA LastTasksKept ==
    ASSUME LastTasks, UNCHANGED sent
    PROVE  LastTasks'
BY DEF LastTasks, TasksOf

LEMMA LastTasksSent ==
    ASSUME QueueTypeOK, LastTasks, NEW job \in Jobs, NEW r \in Nat, Send(job, r)
    PROVE  LastTasks'
<1> SUFFICES ASSUME NEW j \in Jobs, TasksOf(j)' # {}
             PROVE  \E t \in TasksOf(j)' : \A s \in TasksOf(j)' : s <= t
  BY DEF LastTasks
<1>0. /\ DOMAIN sent' = DOMAIN sent \cup {Len(sent) + 1}
      /\ \A t \in DOMAIN sent : sent'[t] = sent[t] /\ t \in Nat /\ t < Len(sent) + 1
      /\ sent'[Len(sent) + 1] = [job |-> job, replays |-> r]
  BY SendFacts
<1>n. Len(sent) \in Nat
  BY DEF QueueTypeOK
<1>1. CASE j = job
  <2>1. Len(sent) + 1 \in TasksOf(j)'
    BY <1>0, <1>1 DEF TasksOf
  <2>2. \A s \in TasksOf(j)' : s <= Len(sent) + 1
    BY <1>0, <1>n DEF TasksOf
  <2> QED  BY <2>1, <2>2
<1>2. CASE j # job
  <2>1. TasksOf(j)' = TasksOf(j)
    BY <1>0, <1>2 DEF TasksOf
  <2> QED  BY <2>1 DEF LastTasks
<1> QED  BY <1>1, <1>2

\* Task ids are the positions of sent.
LEMMA SentTasks ==
    ASSUME QueueTypeOK, MessagesOK
    PROVE  DOMAIN sent \subseteq Tasks /\ \A t \in DOMAIN sent : sent[t].job \in Jobs
<1>1. sent \in Seq([job : Jobs, replays : Nat])
  BY DEF QueueTypeOK
<1>2. Len(sent) \in Nat /\ Len(sent) <= MaxTasks /\ DOMAIN sent = 1..Len(sent)
  BY <1>1 DEF MessagesOK
<1>3. DOMAIN sent \subseteq Tasks
  BY <1>2, QueueAssumption DEF Tasks
<1>4. \A t \in DOMAIN sent : sent[t] \in [job : Jobs, replays : Nat]
  BY <1>1, <1>2, ElementOfSeq
<1> QED  BY <1>3, <1>4

-----------------------------------------------------------------------------
(* Every action keeps the invariant.                                       *)

LEMMA CreateExportKeeps ==
    ASSUME IInv, NEW j \in Jobs, CreateExport(j), UNCHANGED deadLetterVars
    PROVE  IInv'
<1> USE DEF IInv, TypeInv, TypeOK,
            queueVars, exportVars, deadLetterVars, CreateExport
<1>a. \A k \in Jobs : jobs[k] # None => jobs'[k] # None /\ jobs'[k] = jobs[k]
  BY DEF ExportTypeOK
<1>b. /\ \A k \in Jobs : Completed(k)' => Produced(k)'
      /\ \A k \in Jobs : creating'[k] => jobs'[k] # None
  BY NoneAssumption DEF JobsOK, Completed, Produced, ExportTypeOK, Rows
<1>1. QueueTypeOK'
  BY DEF QueueTypeOK
<1>2. ExportTypeOK'
  BY DEF ExportTypeOK, Rows, Files
<1>3. DeadLetterTypeOK'
  BY DEF DeadLetterTypeOK
<1>4. MessagesOK'
  BY DEF MessagesOK
<1>5. SessionsOK'
  BY DEF SessionsOK, Working, JobOf, MessagesOK, QueueTypeOK
<1>6. JobsOK'
  <2>1. \A t \in DOMAIN sent : sent[t].job \in Jobs
    BY SentTasks
  <2>2. \A t \in DOMAIN sent : jobs[sent[t].job] # None
    BY DEF JobsOK
  <2>3. \A t \in DOMAIN sent' : jobs'[sent'[t].job] # None
    BY <1>a, <2>1, <2>2
  <2> QED  BY <1>b, <2>3 DEF JobsOK
<1>7. RecordsOK'
  BY DEF RecordsOK
<1>8. AllServed'
  <2>1. \A t \in DOMAIN sent : Produced(sent[t].job) => Produced(sent[t].job)'
    BY <1>a, SentTasks DEF JobsOK, Produced
  <2> QED  BY <2>1 DEF AllServed, Served, Active
<1>9. Replacements'
  BY DEF Replacements, Replaced
<1>10. LastTasks'
  BY LastTasksKept
<1>11. FoundOK'
  BY DEF FoundOK
<1> QED  BY <1>1, <1>2, <1>3, <1>4, <1>5, <1>6, <1>7, <1>8, <1>9, <1>10, <1>11

LEMMA DispatchExportKeeps ==
    ASSUME IInv, NEW j \in Jobs, DispatchExport(j), UNCHANGED deadLetterVars
    PROVE  IInv'
<1> USE DEF IInv, TypeInv, TypeOK,
            queueVars, exportVars, deadLetterVars, DispatchExport, EndRequest
<1>t. QueueTypeOK /\ MessagesOK /\ DOMAIN sent \subseteq Tasks
  BY SentTasks
<1>a. j \in Jobs /\ 0 \in Nat /\ Send(j, 0)
  BY DEF DispatchExport
<1>b. /\ Len(sent') = Len(sent) + 1 /\ Len(sent') <= MaxTasks
      /\ DOMAIN sent' = DOMAIN sent \cup {Len(sent) + 1}
      /\ \A t \in DOMAIN sent : sent'[t] = sent[t] /\ t \in Nat /\ t < Len(sent) + 1
      /\ sent'[Len(sent) + 1] = [job |-> j, replays |-> 0]
  BY <1>a, <1>t, SendFacts
<1>c. /\ sent' \in Seq([job : Jobs, replays : Nat])
      /\ IsABag(ready') /\ BagToSet(ready') \subseteq Messages
      /\ BagToSet(ready') = BagToSet(ready) \cup {[task |-> Len(sent) + 1, retries |-> 0]}
  BY <1>a, <1>t, SendFacts
<1>1. QueueTypeOK'
  BY <1>c DEF QueueTypeOK
<1>2. ExportTypeOK'
  BY DEF ExportTypeOK
<1>3. DeadLetterTypeOK'
  BY DEF DeadLetterTypeOK
<1>4. MessagesOK'
  BY <1>b, <1>c DEF MessagesOK
<1>5. SessionsOK'
  BY <1>b DEF SessionsOK, JobOf, MessagesOK
<1>6. JobsOK'
  BY <1>b DEF JobsOK, Completed, Produced
<1>7. RecordsOK'
  BY <1>b DEF RecordsOK
<1>8. AllServed'
  <2> SUFFICES ASSUME NEW t \in DOMAIN sent'
               PROVE  Served(t)'
    BY DEF AllServed
  <2>1. CASE t = Len(sent) + 1
    <3> DEFINE m == [task |-> Len(sent) + 1, retries |-> 0]
    <3>1. m \in BagToSet(ready') /\ m.task = t
      BY <1>c, <2>1
    <3> QED  BY <3>1, Zenon DEF Served, Active
  <2>2. CASE t \in DOMAIN sent
    <3>1. Served(t) /\ sent'[t] = sent[t]
      BY <1>b, <2>2 DEF AllServed
    <3>2. Active(t) => Active(t)'
      BY <1>c DEF Active
    <3> QED  BY <3>1, <3>2 DEF Served, Produced
  <2> QED  BY <1>b, <2>1, <2>2
<1>9. Replacements'
  BY <1>b, <1>t DEF Replacements, Replaced, RecordsOK
<1>10. LastTasks'
  BY <1>a, <1>t, LastTasksSent
<1>11. FoundOK'
  BY DEF FoundOK
<1> QED  BY <1>1, <1>2, <1>3, <1>4, <1>5, <1>6, <1>7, <1>8, <1>9, <1>10, <1>11

LEMMA GenerateInlineKeeps ==
    ASSUME IInv, NEW j \in Jobs, NEW x \in Executors, GenerateInline(x, j), UNCHANGED deadLetterVars
    PROVE  IInv'
<1> USE DEF IInv, TypeInv, TypeOK,
            queueVars, exportVars, deadLetterVars, GenerateInline, EndRequest, Contend, Go
<1>1. QueueTypeOK'
  BY DEF QueueTypeOK, Messages, Places
<1>2. ExportTypeOK'
  BY DEF ExportTypeOK
<1>3. DeadLetterTypeOK'
  BY DEF DeadLetterTypeOK
<1>4. MessagesOK'
  BY DEF MessagesOK, Handling, QueueTypeOK
<1>5. SessionsOK'
  BY NoneAssumption DEF SessionsOK, Working, JobOf, MessagesOK, JobsOK, QueueTypeOK, ExportTypeOK
<1>6. JobsOK'
  BY DEF JobsOK, Completed, Produced
<1>7. RecordsOK'
  BY DEF RecordsOK
<1>8. AllServed'
  BY DEF AllServed, Served, Active, Produced
<1>9. Replacements'
  BY DEF Replacements, Replaced
<1>10. LastTasks'
  BY LastTasksKept
<1>11. FoundOK'
  BY DEF FoundOK
<1> QED  BY <1>1, <1>2, <1>3, <1>4, <1>5, <1>6, <1>7, <1>8, <1>9, <1>10, <1>11

LEMMA CrashRequestKeeps ==
    ASSUME IInv, NEW j \in Jobs, CrashRequest(j), UNCHANGED deadLetterVars
    PROVE  IInv'
<1> USE DEF IInv, TypeInv, TypeOK,
            queueVars, exportVars, deadLetterVars, CrashRequest, EndRequest, Fault
<1>1. QueueTypeOK'
  BY QueueAssumption DEF QueueTypeOK, Messages, Places
<1>2. ExportTypeOK'
  BY DEF ExportTypeOK
<1>3. DeadLetterTypeOK'
  BY DEF DeadLetterTypeOK
<1>4. MessagesOK'
  BY DEF MessagesOK
<1>5. SessionsOK'
  BY DEF SessionsOK, Working, JobOf, MessagesOK, QueueTypeOK
<1>6. JobsOK'
  BY DEF JobsOK, Completed, Produced
<1>7. RecordsOK'
  BY DEF RecordsOK
<1>8. AllServed'
  BY DEF AllServed, Served, Active, Produced
<1>9. Replacements'
  BY DEF Replacements, Replaced
<1>10. LastTasks'
  BY LastTasksKept
<1>11. FoundOK'
  BY DEF FoundOK
<1> QED  BY <1>1, <1>2, <1>3, <1>4, <1>5, <1>6, <1>7, <1>8, <1>9, <1>10, <1>11

LEMMA DeliverKeeps ==
    ASSUME IInv, NEW x \in Executors, Deliver(x), UNCHANGED <<exportVars, deadLetterVars>>
    PROVE  IInv'
<1> USE DEF IInv, TypeInv, TypeOK,
            queueVars, exportVars, deadLetterVars, Deliver, Go
<1> PICK m \in BagToSet(ready) :
        /\ ready' = ready (-) SetToBag({m})
        /\ delivered' = [delivered EXCEPT ![x] = m]
  OBVIOUS
<1>a. m \in Messages /\ delivered'[x] = m /\ held'[x] /\ at'[x] = "get" /\ delivered[x] = None
  BY DEF QueueTypeOK, MessagesOK
<1>b. /\ IsABag(ready') /\ BagToSet(ready') \subseteq BagToSet(ready)
      /\ BagToSet(ready) \ {m} \subseteq BagToSet(ready')
  BY BagRemove DEF QueueTypeOK
<1>1. QueueTypeOK'
  BY <1>a, <1>b DEF QueueTypeOK, Places
<1>2. ExportTypeOK'
  BY DEF ExportTypeOK
<1>3. DeadLetterTypeOK'
  BY DEF DeadLetterTypeOK
<1>4. MessagesOK'
  BY NoneAssumption, <1>a, <1>b DEF MessagesOK, Handling, QueueTypeOK
<1>5. SessionsOK'
  BY <1>a DEF SessionsOK, Working, JobOf, MessagesOK, QueueTypeOK
<1>6. JobsOK'
  BY DEF JobsOK, Completed, Produced
<1>7. RecordsOK'
  BY DEF RecordsOK
<1>8. AllServed'
  <2>1. \A t \in DOMAIN sent : Active(t) => Active(t)'
    BY <1>a, <1>b DEF Active, MessagesOK, QueueTypeOK
  <2> QED  BY <2>1 DEF AllServed, Served, Produced
<1>9. Replacements'
  BY DEF Replacements, Replaced
<1>10. LastTasks'
  BY LastTasksKept
<1>11. FoundOK'
  BY DEF FoundOK
<1> QED  BY <1>1, <1>2, <1>3, <1>4, <1>5, <1>6, <1>7, <1>8, <1>9, <1>10, <1>11

LEMMA GetJobKeeps ==
    ASSUME IInv, NEW x \in Executors, GetJob(x), UNCHANGED deadLetterVars
    PROVE  IInv'
<1> USE DEF IInv, TypeInv, TypeOK,
            queueVars, exportVars, deadLetterVars, GetJob, Go
<1>a. JobOf(x) \in Jobs /\ jobs[JobOf(x)] # None /\ delivered[x].task \in DOMAIN sent
  BY SentTasks DEF JobsOK, JobOf, MessagesOK, Handling
<1>1. QueueTypeOK'
  BY DEF QueueTypeOK, Places, Finished
<1>2. ExportTypeOK'
  BY <1>a, NoneAssumption DEF ExportTypeOK, Finished, Contend
<1>3. DeadLetterTypeOK'
  BY DEF DeadLetterTypeOK
<1>4. MessagesOK'
  BY DEF MessagesOK, Handling, QueueTypeOK, Finished
<1>5. SessionsOK'
  BY <1>a, NoneAssumption
  DEF SessionsOK, Working, JobOf, MessagesOK, JobsOK, Finished, QueueTypeOK, ExportTypeOK
<1>6. JobsOK'
  BY DEF JobsOK, Completed, Produced
<1>7. RecordsOK'
  BY DEF RecordsOK
<1>8. AllServed'
  <2>1. \A t \in DOMAIN sent : Active(t) => Served(t)'
    <3> SUFFICES ASSUME NEW t \in DOMAIN sent, Active(t)
                 PROVE  Served(t)'
      OBVIOUS
    <3>1. CASE delivered[x].task = t /\ Finished(jobs[sent[t].job])
      BY <1>a, <3>1 DEF Served, JobsOK, Completed, Produced, JobOf, Finished
    <3>2. CASE delivered[x].task # t \/ ~Finished(jobs[sent[t].job])
      <4>1. at' = [at EXCEPT ![x] = "start"] \/ delivered[x].task # t
        BY <3>2 DEF JobOf
      <4>2. Active(t)'
        BY <4>1 DEF Active, QueueTypeOK
      <4> QED  BY <4>2 DEF Served
    <3> QED  BY <3>1, <3>2
  <2> QED  BY <2>1 DEF AllServed, Served, Produced
<1>9. Replacements'
  BY DEF Replacements, Replaced
<1>10. LastTasks'
  BY LastTasksKept
<1>11. FoundOK'
  BY DEF FoundOK, MessagesOK, QueueTypeOK, DeadLetterTypeOK, Handling
<1> QED  BY <1>1, <1>2, <1>3, <1>4, <1>5, <1>6, <1>7, <1>8, <1>9, <1>10, <1>11

LEMMA StartJobKeeps ==
    ASSUME IInv, NEW x \in Executors, StartJob(x), UNCHANGED deadLetterVars
    PROVE  IInv'
<1> USE DEF IInv, TypeInv, TypeOK,
            queueVars, exportVars, deadLetterVars, StartJob, Go
<1>a. /\ target[x] \in Jobs /\ jobs[target[x]] \in Rows /\ object[x] \in Rows
      /\ object[x].row_count # None => jobs[target[x]].row_count # None
  BY NoneAssumption DEF SessionsOK, Working, ExportTypeOK
<1>c. /\ object' = [object EXCEPT ![x] = [object[x] EXCEPT !.status = "processing"]]
      /\ jobs' = [jobs EXCEPT ![target[x]] = jobs'[target[x]]]
      /\ jobs'[target[x]] \in Rows /\ jobs'[target[x]].row_count = jobs[target[x]].row_count
      /\ jobs'[target[x]].status \in {"processing", jobs[target[x]].status}
  BY <1>a DEF Update, Rows, ExportTypeOK
<1>b. \A j \in Jobs : jobs[j] # None => jobs'[j] # None /\ (Produced(j) => Produced(j)')
  BY <1>a, <1>c, NoneAssumption DEF Produced, ExportTypeOK
<1>d. \A j \in Jobs : Completed(j)' => Produced(j)'
  BY <1>a, <1>c, NoneAssumption DEF JobsOK, Completed, Produced, ExportTypeOK
<1>1. QueueTypeOK'
  BY DEF QueueTypeOK, Messages, Places
<1>2. ExportTypeOK'
  BY <1>a, <1>c DEF ExportTypeOK, Rows
<1>3. DeadLetterTypeOK'
  BY DEF DeadLetterTypeOK
<1>4. MessagesOK'
  BY DEF MessagesOK, Handling, QueueTypeOK
<1>5. SessionsOK'
  <2> SUFFICES ASSUME NEW y \in Executors, at'[y] \in Working
               PROVE  /\ target[y] # None /\ object'[y] # None /\ jobs'[target[y]] # None
                      /\ delivered[y] # None => target[y] = JobOf(y)
                      /\ object'[y].row_count # None => jobs'[target[y]].row_count # None
    BY DEF SessionsOK, JobOf
  <2>1. at[y] \in Working
    BY DEF Working, QueueTypeOK
  <2>2. /\ target[y] \in Jobs /\ object[y] # None /\ jobs[target[y]] # None
        /\ delivered[y] # None => target[y] = JobOf(y)
        /\ object[y].row_count # None => jobs[target[y]].row_count # None
    BY <2>1 DEF SessionsOK, ExportTypeOK
  <2>3. jobs'[target[y]] # None /\ (Produced(target[y]) => Produced(target[y])')
    BY <1>b, <2>2
  <2>4. object'[y] # None /\ object'[y].row_count = object[y].row_count
    BY <1>a, <1>c, <2>2, NoneAssumption DEF ExportTypeOK, Rows
  <2> QED  BY <2>2, <2>3, <2>4, NoneAssumption DEF Produced
<1>6. JobsOK'
  BY <1>b, <1>d, SentTasks DEF JobsOK
<1>7. RecordsOK'
  BY DEF RecordsOK
<1>8. AllServed'
  <2>1. \A t \in DOMAIN sent : Active(t) => Active(t)'
    BY DEF Active, QueueTypeOK
  <2>2. \A t \in DOMAIN sent : Produced(sent[t].job) => Produced(sent[t].job)'
    BY <1>b, SentTasks DEF JobsOK
  <2> QED  BY <2>1, <2>2 DEF AllServed, Served
<1>9. Replacements'
  BY DEF Replacements, Replaced
<1>10. LastTasks'
  BY LastTasksKept
<1>11. FoundOK'
  BY DEF FoundOK
<1> QED  BY <1>1, <1>2, <1>3, <1>4, <1>5, <1>6, <1>7, <1>8, <1>9, <1>10, <1>11

LEMMA QueryEventsKeeps ==
    ASSUME IInv, NEW x \in Executors, QueryEvents(x), UNCHANGED deadLetterVars
    PROVE  IInv'
<1> USE DEF IInv, TypeInv, TypeOK,
            queueVars, exportVars, deadLetterVars, QueryEvents, Go
<1>1. QueueTypeOK'
  BY DEF QueueTypeOK, Messages, Places
<1>2. ExportTypeOK'
  BY DEF ExportTypeOK
<1>3. DeadLetterTypeOK'
  BY DEF DeadLetterTypeOK
<1>4. MessagesOK'
  BY DEF MessagesOK, Handling, QueueTypeOK
<1>5. SessionsOK'
  BY DEF SessionsOK, Working, JobOf, MessagesOK, QueueTypeOK
<1>6. JobsOK'
  BY DEF JobsOK, Completed, Produced
<1>7. RecordsOK'
  BY DEF RecordsOK
<1>8. AllServed'
  BY DEF AllServed, Served, Active, Produced
<1>9. Replacements'
  BY DEF Replacements, Replaced
<1>10. LastTasks'
  BY LastTasksKept
<1>11. FoundOK'
  BY DEF FoundOK
<1> QED  BY <1>1, <1>2, <1>3, <1>4, <1>5, <1>6, <1>7, <1>8, <1>9, <1>10, <1>11

LEMMA OpenFileKeeps ==
    ASSUME IInv, NEW x \in Executors, OpenFile(x), UNCHANGED deadLetterVars
    PROVE  IInv'
<1> USE DEF IInv, TypeInv, TypeOK,
            queueVars, exportVars, deadLetterVars, OpenFile, Go
<1>1. QueueTypeOK'
  BY DEF QueueTypeOK, Messages, Places
<1>2. ExportTypeOK'
  BY DEF ExportTypeOK, Rows, Files
<1>3. DeadLetterTypeOK'
  BY DEF DeadLetterTypeOK
<1>4. MessagesOK'
  BY DEF MessagesOK, Handling, QueueTypeOK
<1>5. SessionsOK'
  BY DEF SessionsOK, Working, JobOf, MessagesOK, QueueTypeOK
<1>6. JobsOK'
  BY DEF JobsOK, Completed, Produced
<1>7. RecordsOK'
  BY DEF RecordsOK
<1>8. AllServed'
  BY DEF AllServed, Served, Active, Produced
<1>9. Replacements'
  BY DEF Replacements, Replaced
<1>10. LastTasks'
  BY LastTasksKept
<1>11. FoundOK'
  BY DEF FoundOK
<1> QED  BY <1>1, <1>2, <1>3, <1>4, <1>5, <1>6, <1>7, <1>8, <1>9, <1>10, <1>11

LEMMA WriteFileKeeps ==
    ASSUME IInv, NEW x \in Executors, WriteFile(x), UNCHANGED deadLetterVars
    PROVE  IInv'
<1> USE DEF IInv, TypeInv, TypeOK,
            queueVars, exportVars, deadLetterVars, WriteFile, Go
<1>a. rows[x] \in Nat /\ target[x] \in Jobs
  BY ExportAssumption DEF ExportTypeOK, SessionsOK, Working
<1>b. PICK content \in {"whole", "mixed"} :
        file' = [file EXCEPT ![target[x]] = [rows |-> rows[x], content |-> content]]
  OBVIOUS
<1>1. QueueTypeOK'
  BY DEF QueueTypeOK, Messages, Places
<1>2. ExportTypeOK'
  <2>1. file'[target[x]] \in Files /\ file' = [file EXCEPT ![target[x]] = file'[target[x]]]
    BY <1>a, <1>b DEF ExportTypeOK, Files
  <2> QED  BY <2>1 DEF ExportTypeOK
<1>3. DeadLetterTypeOK'
  BY DEF DeadLetterTypeOK
<1>4. MessagesOK'
  BY DEF MessagesOK, Handling, QueueTypeOK
<1>5. SessionsOK'
  BY DEF SessionsOK, Working, JobOf, MessagesOK, QueueTypeOK
<1>6. JobsOK'
  BY DEF JobsOK, Completed, Produced
<1>7. RecordsOK'
  BY DEF RecordsOK
<1>8. AllServed'
  BY DEF AllServed, Served, Active, Produced
<1>9. Replacements'
  BY DEF Replacements, Replaced
<1>10. LastTasks'
  BY LastTasksKept
<1>11. FoundOK'
  BY DEF FoundOK
<1> QED  BY <1>1, <1>2, <1>3, <1>4, <1>5, <1>6, <1>7, <1>8, <1>9, <1>10, <1>11

LEMMA MarkFailedKeeps ==
    ASSUME IInv, NEW x \in Executors, MarkFailed(x), UNCHANGED deadLetterVars
    PROVE  IInv'
<1> USE DEF IInv, TypeInv, TypeOK,
            queueVars, exportVars, deadLetterVars, MarkFailed, EndSession, Go, Inline
<1>a. /\ target[x] \in Jobs /\ jobs[target[x]] \in Rows /\ object[x] \in Rows
      /\ object[x].row_count # None => jobs[target[x]].row_count # None
  BY NoneAssumption DEF SessionsOK, Working, ExportTypeOK
<1>c. /\ jobs' = [jobs EXCEPT ![target[x]] = jobs'[target[x]]]
      /\ jobs'[target[x]] \in Rows /\ jobs'[target[x]].row_count = jobs[target[x]].row_count
      /\ jobs'[target[x]].status = "failed"
  BY <1>a DEF Rows, ExportTypeOK
<1>b. \A j \in Jobs : jobs[j] # None => jobs'[j] # None /\ (Produced(j) => Produced(j)')
  BY <1>a, <1>c, NoneAssumption DEF Produced, ExportTypeOK
<1>d. \A j \in Jobs : Completed(j)' => Produced(j)'
  BY <1>a, <1>c, NoneAssumption DEF JobsOK, Completed, Produced, ExportTypeOK
<1>1. QueueTypeOK'
  BY DEF QueueTypeOK, Messages, Places
<1>2. ExportTypeOK'
  BY <1>a, <1>c, ExportAssumption DEF ExportTypeOK
<1>3. DeadLetterTypeOK'
  BY DEF DeadLetterTypeOK
<1>4. MessagesOK'
  BY DEF MessagesOK, Handling, QueueTypeOK
<1>5. SessionsOK'
  BY <1>a, <1>b, <1>c, NoneAssumption
  DEF SessionsOK, Working, JobOf, MessagesOK, QueueTypeOK, ExportTypeOK, Produced
<1>6. JobsOK'
  BY <1>b, <1>d, SentTasks DEF JobsOK
<1>7. RecordsOK'
  BY DEF RecordsOK
<1>8. AllServed'
  <2>1. \A t \in DOMAIN sent : Active(t) => Active(t)'
    BY DEF Active, QueueTypeOK
  <2>2. \A t \in DOMAIN sent : Produced(sent[t].job) => Produced(sent[t].job)'
    BY <1>b, SentTasks DEF JobsOK
  <2> QED  BY <2>1, <2>2 DEF AllServed, Served
<1>9. Replacements'
  BY DEF Replacements, Replaced
<1>10. LastTasks'
  BY LastTasksKept
<1>11. FoundOK'
  BY DEF FoundOK
<1> QED  BY <1>1, <1>2, <1>3, <1>4, <1>5, <1>6, <1>7, <1>8, <1>9, <1>10, <1>11

LEMMA CompletedKeeps ==
    ASSUME IInv, NEW x \in Executors, MarkCompleted(x) \/ RefreshFails(x), UNCHANGED deadLetterVars
    PROVE  IInv'
<1> USE DEF IInv, TypeInv, TypeOK,
            queueVars, exportVars, deadLetterVars, CommitCompleted, MarkCompleted, RefreshFails, EndSession,
            Go, Fault, Inline
<1>a. /\ target[x] \in Jobs /\ jobs[target[x]] \in Rows /\ object[x] \in Rows
      /\ object[x].row_count # None => jobs[target[x]].row_count # None
  BY NoneAssumption DEF SessionsOK, Working, ExportTypeOK
<1>r. rows[x] \in Nat
  BY ExportAssumption DEF ExportTypeOK
<1>c. /\ jobs' = [jobs EXCEPT ![target[x]] = jobs'[target[x]]]
      /\ jobs'[target[x]] \in Rows /\ jobs'[target[x]].row_count # None
  BY <1>a, <1>r, NoneAssumption DEF Rows, ExportTypeOK
<1>b. \A j \in Jobs : jobs[j] # None => jobs'[j] # None /\ (Produced(j) => Produced(j)')
  BY <1>a, <1>c, NoneAssumption DEF Produced, ExportTypeOK
<1>d. \A j \in Jobs : Completed(j)' => Produced(j)'
  BY <1>a, <1>c, NoneAssumption DEF JobsOK, Completed, Produced, ExportTypeOK
<1>1. QueueTypeOK'
  BY QueueAssumption DEF QueueTypeOK, Messages, Places
<1>2. ExportTypeOK'
  BY <1>a, <1>c, ExportAssumption DEF ExportTypeOK
<1>3. DeadLetterTypeOK'
  BY DEF DeadLetterTypeOK
<1>4. MessagesOK'
  BY DEF MessagesOK, Handling, QueueTypeOK
<1>w. /\ at[x] = "complete" /\ at'[x] \in {"idle", "ack", "record"}
      /\ \A y \in Executors : y # x =>
           at'[y] = at[y] /\ target'[y] = target[y] /\ object'[y] = object[y]
  BY DEF QueueTypeOK, ExportTypeOK
<1>5. SessionsOK'
  <2> SUFFICES ASSUME NEW y \in Executors, y # x, at[y] \in Working
               PROVE  /\ target[y] # None /\ object[y] # None /\ jobs'[target[y]] # None
                      /\ delivered[y] # None => target[y] = JobOf(y)
                      /\ object[y].row_count # None => jobs'[target[y]].row_count # None
    <3> HIDE DEF IInv, MarkCompleted, RefreshFails
    <3>1. UNCHANGED <<sent, delivered>>
      BY DEF MarkCompleted, RefreshFails
    <3> HIDE DEF CommitCompleted
    <3> QED  BY <1>w, <3>1 DEF SessionsOK, Working, JobOf
  <2>1. /\ target[y] # None /\ object[y] # None /\ jobs[target[y]] # None
        /\ delivered[y] # None => target[y] = JobOf(y)
        /\ object[y].row_count # None => jobs[target[y]].row_count # None
    BY DEF SessionsOK
  <2>2. target[y] \in Jobs
    BY <2>1 DEF ExportTypeOK
  <2> QED  BY <1>b, <2>1, <2>2 DEF Produced
<1>6. JobsOK'
  BY <1>b, <1>d, SentTasks DEF JobsOK
<1>7. RecordsOK'
  BY DEF RecordsOK
<1>8. AllServed'
  <2>1. \A t \in DOMAIN sent : Active(t) => Served(t)'
    <3> SUFFICES ASSUME NEW t \in DOMAIN sent, Active(t)
                 PROVE  Served(t)'
      OBVIOUS
    <3>1. CASE held[x] /\ delivered[x].task = t
      <4>1. target[x] = sent[t].job
        BY <3>1 DEF SessionsOK, Working, JobOf, MessagesOK
      <4> QED  BY <1>c, <4>1 DEF Served, Produced
    <3>2. CASE ~held[x] \/ delivered[x].task # t
      BY <3>2 DEF Served, Active, QueueTypeOK
    <3> QED  BY <3>1, <3>2
  <2>2. \A t \in DOMAIN sent : Produced(sent[t].job) => Produced(sent[t].job)'
    BY <1>b, SentTasks DEF JobsOK
  <2> QED  BY <2>1, <2>2 DEF AllServed, Served
<1>9. Replacements'
  BY DEF Replacements, Replaced
<1>10. LastTasks'
  BY LastTasksKept
<1>11. FoundOK'
  <2>1. UNCHANGED <<found, records, delivered>>
    OBVIOUS
  <2>2. found[x] = None
    BY <1>w DEF FoundOK
  <2> HIDE DEF MarkCompleted, RefreshFails, CommitCompleted
  <2> QED  BY <1>w, <2>1, <2>2 DEF FoundOK
<1> QED  BY <1>1, <1>2, <1>3, <1>4, <1>5, <1>6, <1>7, <1>8, <1>9, <1>10, <1>11

LEMMA WriteFailsKeeps ==
    ASSUME IInv, NEW x \in Executors, WriteFails(x), UNCHANGED deadLetterVars
    PROVE  IInv'
<1> USE DEF IInv, TypeInv, TypeOK,
            queueVars, exportVars, deadLetterVars, WriteFails, Go, Fault
<1>1. QueueTypeOK'
  BY QueueAssumption DEF QueueTypeOK, Messages, Places
<1>2. ExportTypeOK'
  BY DEF ExportTypeOK
<1>3. DeadLetterTypeOK'
  BY DEF DeadLetterTypeOK
<1>4. MessagesOK'
  BY DEF MessagesOK, Handling, QueueTypeOK
<1>5. SessionsOK'
  BY DEF SessionsOK, Working, JobOf, MessagesOK, QueueTypeOK
<1>6. JobsOK'
  BY DEF JobsOK, Completed, Produced
<1>7. RecordsOK'
  BY DEF RecordsOK
<1>8. AllServed'
  BY DEF AllServed, Served, Active, Produced
<1>9. Replacements'
  BY DEF Replacements, Replaced
<1>10. LastTasks'
  BY LastTasksKept
<1>11. FoundOK'
  BY DEF FoundOK
<1> QED  BY <1>1, <1>2, <1>3, <1>4, <1>5, <1>6, <1>7, <1>8, <1>9, <1>10, <1>11

LEMMA OtherErrorKeeps ==
    ASSUME IInv, NEW x \in Executors, OtherError(x), UNCHANGED deadLetterVars
    PROVE  IInv'
<1> USE DEF IInv, TypeInv, TypeOK,
            queueVars, exportVars, deadLetterVars, OtherError, EndSession, Go, Fault, Inline
<1>1. QueueTypeOK'
  BY QueueAssumption DEF QueueTypeOK, Messages, Places
<1>2. ExportTypeOK'
  BY ExportAssumption DEF ExportTypeOK
<1>3. DeadLetterTypeOK'
  BY DEF DeadLetterTypeOK
<1>4. MessagesOK'
  BY DEF MessagesOK, Handling, QueueTypeOK
<1>5. SessionsOK'
  BY DEF SessionsOK, Working, JobOf, MessagesOK, QueueTypeOK
<1>6. JobsOK'
  BY DEF JobsOK, Completed, Produced
<1>7. RecordsOK'
  BY DEF RecordsOK
<1>8. AllServed'
  BY DEF AllServed, Served, Active, Produced
<1>9. Replacements'
  BY DEF Replacements, Replaced
<1>10. LastTasks'
  BY LastTasksKept
<1>11. FoundOK'
  BY DEF FoundOK
<1> QED  BY <1>1, <1>2, <1>3, <1>4, <1>5, <1>6, <1>7, <1>8, <1>9, <1>10, <1>11

LEMMA CrashInlineKeeps ==
    ASSUME IInv, NEW x \in Executors, CrashInline(x), UNCHANGED deadLetterVars
    PROVE  IInv'
<1> USE DEF IInv, TypeInv, TypeOK,
            queueVars, exportVars, deadLetterVars, CrashInline, EndSession, Go, Fault, Inline
<1>1. QueueTypeOK'
  BY QueueAssumption DEF QueueTypeOK, Messages, Places
<1>2. ExportTypeOK'
  BY ExportAssumption DEF ExportTypeOK
<1>3. DeadLetterTypeOK'
  BY DEF DeadLetterTypeOK
<1>4. MessagesOK'
  BY DEF MessagesOK, Handling, QueueTypeOK
<1>5. SessionsOK'
  BY DEF SessionsOK, Working, JobOf, MessagesOK, QueueTypeOK
<1>6. JobsOK'
  BY DEF JobsOK, Completed, Produced
<1>7. RecordsOK'
  BY DEF RecordsOK
<1>8. AllServed'
  BY DEF AllServed, Served, Active, Produced
<1>9. Replacements'
  BY DEF Replacements, Replaced
<1>10. LastTasks'
  BY LastTasksKept
<1>11. FoundOK'
  BY DEF FoundOK, MessagesOK, QueueTypeOK, DeadLetterTypeOK, Handling
<1> QED  BY <1>1, <1>2, <1>3, <1>4, <1>5, <1>6, <1>7, <1>8, <1>9, <1>10, <1>11

LEMMA PublishRetryKeeps ==
    ASSUME IInv, NEW x \in Executors, PublishRetry(x), UNCHANGED <<exportVars, deadLetterVars>>
    PROVE  IInv'
<1> USE DEF IInv, TypeInv, TypeOK,
            queueVars, exportVars, deadLetterVars, PublishRetry, Go
<1> DEFINE m == [task |-> delivered[x].task, retries |-> delivered[x].retries + 1]
<1>a. delivered[x] \in Messages /\ delivered[x].task \in DOMAIN sent /\ m \in Messages
  BY QueueAssumption DEF QueueTypeOK, MessagesOK, Handling, Messages, RetriesLeft
<1>r. IsABag(ready) /\ BagToSet(ready) \subseteq Messages /\ ready' = ready (+) SetToBag({m})
  BY DEF QueueTypeOK, Message
<1> DEFINE B == ready (+) SetToBag({m})
<1>B. IsABag(B) /\ BagToSet(B) = BagToSet(ready) \cup {m}
  BY <1>r, BagAdd, Zenon
<1>1b. IsABag(ready') /\ BagToSet(ready') = BagToSet(ready) \cup {m}
  BY <1>r, <1>B, Zenon
<1>b. /\ IsABag(ready') /\ BagToSet(ready') \subseteq Messages
      /\ BagToSet(ready') = BagToSet(ready) \cup {m}
  BY <1>a, <1>r, <1>1b
<1>1. QueueTypeOK'
  BY <1>b DEF QueueTypeOK, Places
<1>2. ExportTypeOK'
  BY DEF ExportTypeOK
<1>3. DeadLetterTypeOK'
  BY DEF DeadLetterTypeOK
<1>4. MessagesOK'
  BY <1>a, <1>b DEF MessagesOK, Handling, QueueTypeOK
<1>5. SessionsOK'
  BY DEF SessionsOK, Working, JobOf, MessagesOK, QueueTypeOK
<1>6. JobsOK'
  BY DEF JobsOK, Completed, Produced
<1>7. RecordsOK'
  BY DEF RecordsOK
<1>8. AllServed'
  <2>1. \A t \in DOMAIN sent : Active(t) => Active(t)'
    BY <1>a, <1>b DEF Active, QueueTypeOK
  <2> QED  BY <2>1 DEF AllServed, Served, Produced
<1>9. Replacements'
  BY DEF Replacements, Replaced
<1>10. LastTasks'
  BY LastTasksKept
<1>11. FoundOK'
  BY DEF FoundOK
<1> QED  BY <1>1, <1>2, <1>3, <1>4, <1>5, <1>6, <1>7, <1>8, <1>9, <1>10, <1>11

LEMMA ExhaustRetriesKeeps ==
    ASSUME IInv, NEW x \in Executors, ExhaustRetries(x), UNCHANGED <<exportVars, deadLetterVars>>
    PROVE  IInv'
<1> USE DEF IInv, TypeInv, TypeOK,
            queueVars, exportVars, deadLetterVars, ExhaustRetries, Go
<1>1. QueueTypeOK'
  BY DEF QueueTypeOK, Messages, Places
<1>2. ExportTypeOK'
  BY DEF ExportTypeOK
<1>3. DeadLetterTypeOK'
  BY DEF DeadLetterTypeOK
<1>4. MessagesOK'
  BY DEF MessagesOK, Handling, QueueTypeOK
<1>5. SessionsOK'
  BY DEF SessionsOK, Working, JobOf, MessagesOK, QueueTypeOK
<1>6. JobsOK'
  BY DEF JobsOK, Completed, Produced
<1>7. RecordsOK'
  BY DEF RecordsOK
<1>8. AllServed'
  BY DEF AllServed, Served, Active, Produced
<1>9. Replacements'
  BY DEF Replacements, Replaced
<1>10. LastTasks'
  BY LastTasksKept
<1>11. FoundOK'
  BY DEF FoundOK
<1> QED  BY <1>1, <1>2, <1>3, <1>4, <1>5, <1>6, <1>7, <1>8, <1>9, <1>10, <1>11

LEMMA AckKeeps ==
    ASSUME IInv, NEW x \in Executors, Ack(x), UNCHANGED <<exportVars, deadLetterVars>>
    PROVE  IInv'
<1> USE DEF IInv, TypeInv, TypeOK,
            queueVars, exportVars, deadLetterVars, Ack, Drop, Go
<1>1. QueueTypeOK'
  BY DEF QueueTypeOK, Messages, Places
<1>2. ExportTypeOK'
  BY DEF ExportTypeOK
<1>3. DeadLetterTypeOK'
  BY DEF DeadLetterTypeOK
<1>4. MessagesOK'
  BY DEF MessagesOK, Handling, QueueTypeOK
<1>5. SessionsOK'
  BY DEF SessionsOK, Working, JobOf, MessagesOK, QueueTypeOK
<1>6. JobsOK'
  BY DEF JobsOK, Completed, Produced
<1>7. RecordsOK'
  BY DEF RecordsOK
<1>8. AllServed'
  BY DEF AllServed, Served, Active, Produced
<1>9. Replacements'
  BY DEF Replacements, Replaced
<1>10. LastTasks'
  BY LastTasksKept
<1>11. FoundOK'
  BY DEF FoundOK
<1> QED  BY <1>1, <1>2, <1>3, <1>4, <1>5, <1>6, <1>7, <1>8, <1>9, <1>10, <1>11

LEMMA LoseWorkerKeeps ==
    ASSUME IInv, NEW x \in Executors, LoseWorker(x)
    PROVE  IInv'
<1> USE DEF IInv, TypeInv, TypeOK,
            queueVars, exportVars, deadLetterVars,
            LoseWorker, WorkerLost, Drop, Go, Fault, EndSession
<1>a. held[x] => delivered[x] # None /\ delivered[x].task \in DOMAIN sent
  BY DEF MessagesOK
<1>b. /\ IsABag(ready') /\ BagToSet(ready') \subseteq Messages
      /\ BagToSet(ready') = BagToSet(ready) \cup (IF held[x] THEN {delivered[x]} ELSE {})
  BY <1>a, RequeueFacts
<1>1. QueueTypeOK'
  BY <1>b, QueueAssumption DEF QueueTypeOK, Places
<1>2. ExportTypeOK'
  BY ExportAssumption DEF ExportTypeOK
<1>3. DeadLetterTypeOK'
  BY DEF DeadLetterTypeOK
<1>4. MessagesOK'
  BY <1>a, <1>b DEF MessagesOK, Handling, QueueTypeOK
<1>5. SessionsOK'
  BY DEF SessionsOK, Working, JobOf, MessagesOK, QueueTypeOK
<1>6. JobsOK'
  BY DEF JobsOK, Completed, Produced
<1>7. RecordsOK'
  BY DEF RecordsOK
<1>8. AllServed'
  <2>1. \A t \in DOMAIN sent : Active(t) => Active(t)'
    BY <1>a, <1>b DEF Active, QueueTypeOK
  <2> QED  BY <2>1 DEF AllServed, Served, Produced
<1>9. Replacements'
  BY DEF Replacements, Replaced
<1>10. LastTasks'
  BY LastTasksKept
<1>11. FoundOK'
  BY DEF FoundOK, MessagesOK, QueueTypeOK, DeadLetterTypeOK, Handling
<1> QED  BY <1>1, <1>2, <1>3, <1>4, <1>5, <1>6, <1>7, <1>8, <1>9, <1>10, <1>11

LEMMA VisibilityTimeoutKeeps ==
    ASSUME IInv, NEW x \in Executors, VisibilityTimeout(x), UNCHANGED <<exportVars, deadLetterVars>>
    PROVE  IInv'
<1> USE DEF IInv, TypeInv, TypeOK,
            queueVars, exportVars, deadLetterVars, VisibilityTimeout, Fault
<1>a. held[x] => delivered[x] # None /\ delivered[x].task \in DOMAIN sent
  BY DEF MessagesOK
<1>b. /\ IsABag(ready') /\ BagToSet(ready') \subseteq Messages
      /\ BagToSet(ready') = BagToSet(ready) \cup (IF held[x] THEN {delivered[x]} ELSE {})
  BY <1>a, RequeueFacts
<1>1. QueueTypeOK'
  BY <1>b, QueueAssumption DEF QueueTypeOK, Places
<1>2. ExportTypeOK'
  BY DEF ExportTypeOK
<1>3. DeadLetterTypeOK'
  BY DEF DeadLetterTypeOK
<1>4. MessagesOK'
  BY <1>a, <1>b DEF MessagesOK, Handling, QueueTypeOK
<1>5. SessionsOK'
  BY DEF SessionsOK, Working, JobOf, MessagesOK, QueueTypeOK
<1>6. JobsOK'
  BY DEF JobsOK, Completed, Produced
<1>7. RecordsOK'
  BY DEF RecordsOK
<1>8. AllServed'
  <2>1. \A t \in DOMAIN sent : Active(t) => Active(t)'
    BY <1>a, <1>b DEF Active, QueueTypeOK
  <2> QED  BY <2>1 DEF AllServed, Served, Produced
<1>9. Replacements'
  BY DEF Replacements, Replaced
<1>10. LastTasks'
  BY LastTasksKept
<1>11. FoundOK'
  BY DEF FoundOK
<1> QED  BY <1>1, <1>2, <1>3, <1>4, <1>5, <1>6, <1>7, <1>8, <1>9, <1>10, <1>11

LEMMA ReadRecordKeeps ==
    ASSUME IInv, NEW x \in Executors, ReadRecord(x), UNCHANGED exportVars
    PROVE  IInv'
<1> USE DEF IInv, TypeInv, TypeOK,
            queueVars, exportVars, deadLetterVars, ReadRecord, Go
<1>a. delivered[x].task \in Tasks
  BY SentTasks DEF MessagesOK, Handling
<1>1. QueueTypeOK'
  BY DEF QueueTypeOK, Messages, Places
<1>2. ExportTypeOK'
  BY DEF ExportTypeOK
<1>3. DeadLetterTypeOK'
  BY <1>a DEF DeadLetterTypeOK
<1>4. MessagesOK'
  BY DEF MessagesOK, Handling, QueueTypeOK
<1>5. SessionsOK'
  BY DEF SessionsOK, Working, JobOf, MessagesOK, QueueTypeOK
<1>6. JobsOK'
  BY DEF JobsOK, Completed, Produced
<1>7. RecordsOK'
  BY DEF RecordsOK
<1>8. AllServed'
  BY DEF AllServed, Served, Active, Produced
<1>9. Replacements'
  BY DEF Replacements, Replaced
<1>10. LastTasks'
  BY LastTasksKept
<1>11. FoundOK'
  BY DEF FoundOK, MessagesOK, QueueTypeOK, DeadLetterTypeOK, Handling
<1> QED  BY <1>1, <1>2, <1>3, <1>4, <1>5, <1>6, <1>7, <1>8, <1>9, <1>10, <1>11

LEMMA WriteRecordKeeps ==
    ASSUME IInv, NEW x \in Executors, WriteRecord(x), UNCHANGED exportVars
    PROVE  IInv'
<1> USE DEF IInv, TypeInv, TypeOK,
            queueVars, exportVars, deadLetterVars, Go
<1>a. delivered[x].task \in DOMAIN sent /\ delivered[x].task \in Tasks
  BY SentTasks DEF MessagesOK, Handling, WriteRecord, RecordLost
<1> DEFINE task == delivered[x].task
           new == IF found[x] # None THEN Refreshed(records[task], found[x])
                  ELSE IF records[task] = None THEN [status |-> "pending", attempts |-> 1]
                  ELSE records[task]
<1>1a. found[x] # None => found[x] \in Records /\ records[task] \in Records
  BY <1>a DEF DeadLetterTypeOK, FoundOK
<1>b. /\ records' = [records EXCEPT ![task] = new] /\ new \in Records
      /\ found' = [found EXCEPT ![x] = None] /\ UNCHANGED <<replay, unrecorded>>
  BY <1>a, <1>1a DEF WriteRecord, DeadLetterTypeOK, Records, Refreshed
<1>c. new.status = "retried" => records[task] # None /\ records[task].status = "retried"
  BY <1>1a, NoneAssumption DEF Refreshed
<1>1. QueueTypeOK'
  BY DEF WriteRecord, QueueTypeOK, Places
<1>2. ExportTypeOK'
  BY DEF WriteRecord, ExportTypeOK
<1>3. DeadLetterTypeOK'
  BY <1>a, <1>b DEF DeadLetterTypeOK
<1>4. MessagesOK'
  BY DEF WriteRecord, MessagesOK, Handling, QueueTypeOK
<1>5. SessionsOK'
  BY DEF WriteRecord, SessionsOK, Working, JobOf, MessagesOK, QueueTypeOK
<1>6. JobsOK'
  BY DEF WriteRecord, JobsOK, Completed, Produced
<1>7. RecordsOK'
  BY <1>a, <1>b, NoneAssumption DEF RecordsOK, DeadLetterTypeOK, WriteRecord
<1>8. AllServed'
  <2>1. \A t \in DOMAIN sent : Active(t) => Served(t)'
    <3> SUFFICES ASSUME NEW t \in DOMAIN sent, Active(t)
                 PROVE  Served(t)'
      OBVIOUS
    <3>1. CASE delivered[x].task = t
      BY <1>a, <1>b, <3>1, NoneAssumption DEF Served, DeadLetterTypeOK
    <3>2. CASE delivered[x].task # t
      BY <3>2 DEF WriteRecord, Served, Active, QueueTypeOK
    <3> QED  BY <3>1, <3>2
  <2>2. \A t \in DOMAIN sent : records[t] # None => records'[t] # None
    BY <1>a, <1>b, NoneAssumption, SentTasks DEF DeadLetterTypeOK
  <2>3. UNCHANGED <<sent, jobs, unrecorded>>
    BY DEF WriteRecord
  <2> QED  BY <2>1, <2>2, <2>3 DEF AllServed, Served, Produced
<1>9. Replacements'
  <2>1. UNCHANGED <<sent, replay>>
    BY DEF WriteRecord
  <2>2. \A t \in Tasks : records'[t] # None /\ records'[t].status = "retried" =>
            records[t] # None /\ records[t].status = "retried"
    BY <1>a, <1>b, <1>c, NoneAssumption DEF DeadLetterTypeOK
  <2> QED  BY <2>1, <2>2 DEF Replacements, Replaced
<1>10. LastTasks'
  BY LastTasksKept DEF WriteRecord
<1>11. FoundOK'
  BY <1>a, <1>b, NoneAssumption DEF WriteRecord, FoundOK, MessagesOK, DeadLetterTypeOK, QueueTypeOK
<1> QED  BY <1>1, <1>2, <1>3, <1>4, <1>5, <1>6, <1>7, <1>8, <1>9, <1>10, <1>11

LEMMA RecordLostKeeps ==
    ASSUME IInv, NEW x \in Executors, RecordLost(x), UNCHANGED exportVars
    PROVE  IInv'
<1> USE DEF IInv, TypeInv, TypeOK,
            queueVars, exportVars, deadLetterVars, RecordLost, Go, Fault
<1>a. delivered[x].task \in DOMAIN sent /\ delivered[x].task \in Tasks
  BY SentTasks DEF MessagesOK, Handling, WriteRecord, RecordLost
<1>1. QueueTypeOK'
  BY QueueAssumption DEF QueueTypeOK, Messages, Places
<1>2. ExportTypeOK'
  BY DEF ExportTypeOK
<1>3. DeadLetterTypeOK'
  BY <1>a, NoneAssumption DEF DeadLetterTypeOK
<1>4. MessagesOK'
  BY DEF MessagesOK, Handling, QueueTypeOK
<1>5. SessionsOK'
  BY DEF SessionsOK, Working, JobOf, MessagesOK, QueueTypeOK
<1>6. JobsOK'
  BY DEF JobsOK, Completed, Produced
<1>7. RecordsOK'
  BY DEF RecordsOK
<1>8. AllServed'
  BY DEF AllServed, Served, Active, Produced
<1>9. Replacements'
  BY DEF Replacements, Replaced
<1>10. LastTasks'
  BY LastTasksKept
<1>11. FoundOK'
  BY DEF FoundOK, MessagesOK, QueueTypeOK, DeadLetterTypeOK, Handling
<1> QED  BY <1>1, <1>2, <1>3, <1>4, <1>5, <1>6, <1>7, <1>8, <1>9, <1>10, <1>11

LEMMA LoadRecordKeeps ==
    ASSUME IInv, NEW u \in Admins, NEW t \in Tasks, LoadRecord(u, t), UNCHANGED exportVars
    PROVE  IInv'
<1> USE DEF IInv, TypeInv, TypeOK,
            queueVars, exportVars, deadLetterVars, LoadRecord, Replayable
<1>1. QueueTypeOK'
  BY DEF QueueTypeOK
<1>2. ExportTypeOK'
  BY DEF ExportTypeOK
<1>3. DeadLetterTypeOK'
  BY DEF DeadLetterTypeOK
<1>4. MessagesOK'
  BY DEF MessagesOK
<1>5. SessionsOK'
  BY DEF SessionsOK, Working, JobOf, MessagesOK, QueueTypeOK
<1>6. JobsOK'
  BY DEF JobsOK, Completed, Produced
<1>7. RecordsOK'
  BY DEF RecordsOK
<1>8. AllServed'
  BY DEF AllServed, Served, Active, Produced
<1>9. Replacements'
  BY DEF Replacements, Replaced
<1>10. LastTasks'
  BY LastTasksKept
<1>11. FoundOK'
  BY DEF FoundOK
<1> QED  BY <1>1, <1>2, <1>3, <1>4, <1>5, <1>6, <1>7, <1>8, <1>9, <1>10, <1>11

LEMMA SendReplacementKeeps ==
    ASSUME IInv, NEW u \in Admins, SendReplacement(u), UNCHANGED exportVars
    PROVE  IInv'
<1> USE DEF IInv, TypeInv, TypeOK,
            queueVars, exportVars, deadLetterVars, SendReplacement
<1>r. /\ replay[u] \in [task : Tasks, sent : BOOLEAN] /\ replay[u].task \in DOMAIN sent
      /\ replay' = [replay EXCEPT ![u].sent = TRUE]
  BY DEF DeadLetterTypeOK, RecordsOK
<1>j. jobs[sent[replay[u].task].job] # None
  BY <1>r DEF JobsOK
<1>t. QueueTypeOK /\ MessagesOK /\ DOMAIN sent \subseteq Tasks
  BY SentTasks
<1>a. /\ sent[replay[u].task].job \in Jobs /\ replay[u].task \in Nat
      /\ Send(sent[replay[u].task].job, replay[u].task)
  BY <1>r, SentTasks DEF Tasks
<1>b. /\ Len(sent') = Len(sent) + 1 /\ Len(sent') <= MaxTasks
      /\ DOMAIN sent' = DOMAIN sent \cup {Len(sent) + 1}
      /\ \A t \in DOMAIN sent : sent'[t] = sent[t] /\ t \in Nat /\ t < Len(sent) + 1
      /\ sent'[Len(sent) + 1] = [job |-> sent[replay[u].task].job, replays |-> replay[u].task]
  BY <1>a, <1>t, SendFacts
<1>c. /\ sent' \in Seq([job : Jobs, replays : Nat])
      /\ IsABag(ready') /\ BagToSet(ready') \subseteq Messages
      /\ BagToSet(ready') = BagToSet(ready) \cup {[task |-> Len(sent) + 1, retries |-> 0]}
  BY <1>a, <1>t, SendFacts
<1>1. QueueTypeOK'
  BY <1>c DEF QueueTypeOK
<1>2. ExportTypeOK'
  BY DEF ExportTypeOK
<1>3. DeadLetterTypeOK'
  BY <1>r DEF DeadLetterTypeOK
<1>4. MessagesOK'
  BY <1>b, <1>c DEF MessagesOK
<1>5. SessionsOK'
  BY <1>b DEF SessionsOK, JobOf, MessagesOK
<1>6. JobsOK'
  BY <1>b, <1>j DEF JobsOK, Completed, Produced
<1>7. RecordsOK'
  BY <1>b, <1>r DEF RecordsOK, DeadLetterTypeOK
<1>8. AllServed'
  <2> SUFFICES ASSUME NEW t \in DOMAIN sent'
               PROVE  Served(t)'
    BY DEF AllServed
  <2>1. CASE t = Len(sent) + 1
    <3> DEFINE m == [task |-> Len(sent) + 1, retries |-> 0]
    <3>1. m \in BagToSet(ready') /\ m.task = t
      BY <1>c, <2>1
    <3> QED  BY <3>1, Zenon DEF Served, Active
  <2>2. CASE t \in DOMAIN sent
    <3>1. Served(t) /\ sent'[t] = sent[t]
      BY <1>b, <2>2 DEF AllServed
    <3>2. Active(t) => Active(t)'
      BY <1>c DEF Active
    <3> QED  BY <3>1, <3>2 DEF Served, Produced
  <2> QED  BY <1>b, <2>1, <2>2
<1>9. Replacements'
  <2> DEFINE Later(t) == \E s \in DOMAIN sent' :
                      s > t /\ sent'[s].job = sent'[t].job /\ sent'[s].replays = t
  <2>1. \A t \in DOMAIN sent : Replaced(t) => Later(t)
    BY <1>b DEF Replaced
  <2>2. Later(replay[u].task)
    BY <1>b, <1>r
  <2>3. \A v \in Admins : replay'[v] # None =>
            replay[v] # None /\ replay'[v].task = replay[v].task /\ replay[v].task \in DOMAIN sent
            /\ (v # u => replay'[v] = replay[v])
    BY <1>r DEF RecordsOK, DeadLetterTypeOK
  <2> HIDE DEF Later
  <2>4. \A v \in Admins : replay'[v] # None /\ replay'[v].sent => Later(replay'[v].task)
    BY <2>1, <2>2, <2>3 DEF Replacements
  <2>5. \A t \in Tasks : records[t] # None /\ records[t].status = "retried" => Later(t)
    BY <2>1 DEF Replacements, RecordsOK
  <2> QED  BY <2>4, <2>5 DEF Later, Replacements, Replaced
<1>10. LastTasks'
  BY <1>a, <1>t, LastTasksSent
<1>11. FoundOK'
  BY DEF FoundOK
<1> QED  BY <1>1, <1>2, <1>3, <1>4, <1>5, <1>6, <1>7, <1>8, <1>9, <1>10, <1>11

LEMMA MarkRetriedKeeps ==
    ASSUME IInv, NEW u \in Admins, MarkRetried(u), UNCHANGED exportVars
    PROVE  IInv'
<1> USE DEF IInv, TypeInv, TypeOK,
            queueVars, exportVars, deadLetterVars, MarkRetried, MarkLast
<1>r. replay[u].task \in Tasks /\ records[replay[u].task] \in Records
  BY NoneAssumption DEF DeadLetterTypeOK, RecordsOK
<1>s. /\ records' = [records EXCEPT
            ![replay[u].task] = [records[replay[u].task] EXCEPT !.status = "retried"]]
      /\ [records[replay[u].task] EXCEPT !.status = "retried"] \in Records
      /\ [records[replay[u].task] EXCEPT !.status = "retried"].status = "retried"
      /\ replay' = [replay EXCEPT ![u] = None]
  BY <1>r DEF Records
<1>1. QueueTypeOK'
  BY DEF QueueTypeOK
<1>2. ExportTypeOK'
  BY DEF ExportTypeOK
<1>3. DeadLetterTypeOK'
  BY <1>r, <1>s DEF DeadLetterTypeOK
<1>4. MessagesOK'
  BY DEF MessagesOK
<1>5. SessionsOK'
  BY DEF SessionsOK, Working, JobOf, MessagesOK, QueueTypeOK
<1>6. JobsOK'
  BY DEF JobsOK, Completed, Produced
<1>7. RecordsOK'
  BY <1>r, <1>s, NoneAssumption DEF RecordsOK, DeadLetterTypeOK
<1>8. AllServed'
  <2>1. \A t \in DOMAIN sent : records[t] # None => records'[t] # None
    BY <1>r, <1>s, NoneAssumption, SentTasks DEF DeadLetterTypeOK
  <2> QED  BY <2>1 DEF AllServed, Served, Active, Produced
<1>9. Replacements'
  <2>1. Replaced(replay[u].task)
    BY DEF Replacements
  <2>2. \A t \in Tasks : records'[t] # None /\ records'[t].status = "retried" => Replaced(t)
    BY <1>r, <1>s, <2>1, NoneAssumption DEF Replacements, DeadLetterTypeOK
  <2> QED  BY <1>s, <2>2, NoneAssumption DEF Replacements, Replaced, DeadLetterTypeOK
<1>10. LastTasks'
  BY LastTasksKept
<1>11. FoundOK'
  BY <1>r, <1>s, NoneAssumption DEF FoundOK, MessagesOK, DeadLetterTypeOK
<1> QED  BY <1>1, <1>2, <1>3, <1>4, <1>5, <1>6, <1>7, <1>8, <1>9, <1>10, <1>11

LEMMA AbandonReplayKeeps ==
    ASSUME IInv, NEW u \in Admins, AbandonReplay(u), UNCHANGED exportVars
    PROVE  IInv'
<1> USE DEF IInv, TypeInv, TypeOK,
            queueVars, exportVars, deadLetterVars, AbandonReplay, Fault
<1>1. QueueTypeOK'
  BY QueueAssumption DEF QueueTypeOK, Messages, Places
<1>2. ExportTypeOK'
  BY DEF ExportTypeOK
<1>3. DeadLetterTypeOK'
  BY DEF DeadLetterTypeOK
<1>4. MessagesOK'
  BY DEF MessagesOK
<1>5. SessionsOK'
  BY DEF SessionsOK, Working, JobOf, MessagesOK, QueueTypeOK
<1>6. JobsOK'
  BY DEF JobsOK, Completed, Produced
<1>7. RecordsOK'
  BY DEF RecordsOK
<1>8. AllServed'
  BY DEF AllServed, Served, Active, Produced
<1>9. Replacements'
  BY DEF Replacements, Replaced
<1>10. LastTasks'
  BY LastTasksKept
<1>11. FoundOK'
  BY DEF FoundOK
<1> QED  BY <1>1, <1>2, <1>3, <1>4, <1>5, <1>6, <1>7, <1>8, <1>9, <1>10, <1>11

-----------------------------------------------------------------------------
(* The initial states, all the steps, and the theorems.                    *)

LEMMA InitIInv == Init => IInv
<1> SUFFICES ASSUME Init PROVE IInv
  OBVIOUS
<1> USE DEF Init, QueueInit, ExportInit, DeadLetterInit
<1>0. IsABag(ready) /\ BagToSet(ready) = {} /\ DOMAIN sent = {} /\ Len(sent) = 0
      /\ sent \in Seq([job : Jobs, replays : Nat])
  BY DEF EmptyBag, SetToBag, IsABag, BagToSet
<1>1. QueueTypeOK
  BY <1>0, QueueAssumption DEF QueueTypeOK, Places
<1>2. ExportTypeOK
  BY ExportAssumption DEF ExportTypeOK
<1>3. DeadLetterTypeOK
  BY DEF DeadLetterTypeOK
<1>4. MessagesOK
  BY <1>0, QueueAssumption DEF MessagesOK, Handling
<1>5. SessionsOK
  BY DEF SessionsOK, Working
<1>6. JobsOK
  BY <1>0 DEF JobsOK, Completed
<1>7. FoundOK /\ RecordsOK
  BY <1>0 DEF FoundOK, RecordsOK
<1>8. AllServed
  BY <1>0 DEF AllServed
<1>9. Replacements
  BY DEF Replacements
<1>10. LastTasks
  BY <1>0 DEF LastTasks, TasksOf
<1> QED
  BY <1>1, <1>2, <1>3, <1>4, <1>5, <1>6, <1>7, <1>8, <1>9, <1>10 DEF IInv, TypeInv, TypeOK

LEMMA StutterKeeps ==
    ASSUME IInv, UNCHANGED vars
    PROVE  IInv'
<1> USE DEF IInv, TypeInv, TypeOK, vars, queueVars, exportVars, deadLetterVars
<1>1. TypeOK'
  BY DEF QueueTypeOK, ExportTypeOK, DeadLetterTypeOK
<1>2. MessagesOK' /\ SessionsOK' /\ JobsOK' /\ FoundOK' /\ RecordsOK'
  BY DEF MessagesOK, SessionsOK, JobsOK, FoundOK, RecordsOK, Completed, Produced, JobOf
<1>3. AllServed' /\ Replacements' /\ LastTasks'
  BY DEF AllServed, Served, Active, Produced, Replacements, Replaced, LastTasks, TasksOf
<1> QED  BY <1>1, <1>2, <1>3

LEMMA NextKeeps == IInv /\ [Next]_vars => IInv'
<1> SUFFICES ASSUME IInv, [Next]_vars PROVE IInv'
  OBVIOUS
<1>1. CASE \E j \in Jobs : RequestExport(j)
  BY <1>1, CreateExportKeeps DEF RequestExport
<1>2. CASE \E j \in Jobs : Dispatch(j)
  BY <1>2, DispatchExportKeeps DEF Dispatch
<1>3. CASE \E x \in Executors, j \in Jobs : InlineExport(x, j)
  BY <1>3, GenerateInlineKeeps DEF InlineExport
<1>4. CASE \E j \in Jobs : CrashRequest(j) /\ UNCHANGED deadLetterVars
  BY <1>4, CrashRequestKeeps
<1>5. CASE \E x \in Executors : TakeMessage(x)
  BY <1>5, DeliverKeeps DEF TakeMessage
<1>6. CASE \E x \in Executors : Generate(x)
  BY <1>6, GetJobKeeps, StartJobKeeps, QueryEventsKeeps, OpenFileKeeps, WriteFileKeeps,
     MarkFailedKeeps, CompletedKeeps DEF Generate, GenerateStep
<1>7. CASE \E x \in Executors : Conclude(x)
  BY <1>7, PublishRetryKeeps, ExhaustRetriesKeeps, AckKeeps DEF Conclude
<1>8. CASE \E x \in Executors : Record(x)
  BY <1>8, ReadRecordKeeps, WriteRecordKeeps DEF Record
<1>9. CASE \E x \in Executors : Misfortune(x)
  BY <1>9, LoseWorkerKeeps, VisibilityTimeoutKeeps, WriteFailsKeeps, CompletedKeeps, OtherErrorKeeps,
     CrashInlineKeeps, RecordLostKeeps DEF Misfortune
<1>10. CASE \E u \in Admins : Replay(u)
  BY <1>10, LoadRecordKeeps, SendReplacementKeeps, MarkRetriedKeeps DEF Replay
<1>11. CASE \E u \in Admins : AbandonReplay(u) /\ UNCHANGED exportVars
  BY <1>11, AbandonReplayKeeps
<1>12. CASE UNCHANGED vars
  BY <1>12, StutterKeeps
<1> QED
  BY <1>1, <1>2, <1>3, <1>4, <1>5, <1>6, <1>7, <1>8, <1>9, <1>10, <1>11, <1>12 DEF Next

LEMMA Invariance == Spec => []IInv
BY InitIInv, NextKeeps, PTL DEF Spec

\* Every variable keeps its type, whatever the number of jobs, workers,
\* administrators, tasks and faults: no message outlives max_retries.
THEOREM TypeCorrect == Spec => []TypeOK
<1>1. IInv => TypeOK
  BY DEF IInv, TypeInv
<1> QED  BY <1>1, Invariance, PTL

\* A task with no message left has been acknowledged or taken by nobody.
LEMMA NotInFlight ==
    ASSUME MessagesOK, NEW t \in DOMAIN sent, ~InFlight(t)
    PROVE  ~Active(t)
BY DEF MessagesOK, InFlight, Active

LEMMA NothingIsLost ==
    ASSUME IInv
    PROVE  NoSilentLoss
<1> USE DEF IInv, TypeInv, TypeOK
<1> SUFFICES ASSUME NEW j \in Jobs, TasksOf(j) # {}, \A t \in TasksOf(j) : ~InFlight(t)
             PROVE  Produced(j) \/ Recorded(j) \/ Unrecorded(j)
  BY DEF NoSilentLoss
<1>1. PICK t \in TasksOf(j) : \A s \in TasksOf(j) : s <= t
  BY DEF LastTasks
<1>2. t \in DOMAIN sent /\ sent[t].job = j /\ t \in Tasks
  BY SentTasks DEF TasksOf
<1>3. ~Active(t)
  BY <1>1, <1>2, NotInFlight
<1>4. Produced(j) \/ t \in unrecorded \/ records[t] # None
  BY <1>2, <1>3 DEF AllServed, Served
<1>5. ~Replaced(t)
  <2> SUFFICES ASSUME NEW s \in DOMAIN sent, s > t, sent[s].job = sent[t].job
               PROVE  FALSE
    BY DEF Replaced
  <2>1. s \in TasksOf(j) /\ s \in Nat /\ t \in Nat
    BY <1>2, SentTasks DEF TasksOf, Tasks
  <2> QED  BY <1>1, <2>1
<1>6. ASSUME records[t] # None
      PROVE  Recorded(j)
  <2>1. records[t].status = "pending"
    BY <1>2, <1>5, <1>6 DEF Replacements, DeadLetterTypeOK, Records
  <2> QED  BY <1>1, <1>6, <2>1 DEF Recorded
<1>7. ASSUME t \in unrecorded
      PROVE  Unrecorded(j)
  BY <1>1, <1>7 DEF Unrecorded
<1> QED  BY <1>4, <1>6, <1>7

\* A dispatched job never falls through the cracks of retries, redeliveries,
\* lost workers and replays: it is in flight, generated, or on record as a
\* pending dead letter, unless the database was out when it was to be recorded.
THEOREM NothingLost == Spec => []NoSilentLoss
BY NothingIsLost, Invariance, PTL

\* A dead letter says "retried" only if a replacement of its task was sent,
\* whoever replays it at the same time and whatever crashes.
THEOREM RetriedMeansSent == Spec => []RetriedWasSent
<1>1. IInv => RetriedWasSent
  BY DEF IInv, Replacements, Replaced, RetriedWasSent
<1> QED  BY <1>1, Invariance, PTL

-----------------------------------------------------------------------------
(* Executions that do not overlap: nothing locks the row or the file, so   *)
(* what is proved is about jobs whose latest executions were apart.        *)

\* A job whose request has not dispatched it yet is nobody else's business.
WaitingApart ==
    \A j \in Jobs : creating[j] =>
        /\ ~Completed(j) /\ TasksOf(j) = {}
        /\ \A x \in Executors : at[x] \in Working => target[x] # j

\* Unless executions of the job overlap, a session is the only one on it, the
\* job is not completed and the session knows its row count; the file is empty
\* before it writes it, and its own output afterwards.
OwnFile ==
    \A x \in Executors : at[x] \in Working /\ target[x] \notin contended =>
        /\ \A y \in Executors \ {x} : at[y] \in Working => target[y] # target[x]
        /\ ~Completed(target[x])
        /\ object[x].row_count = jobs[target[x]].row_count
        /\ at[x] = "write" => file[target[x]].content = "empty"
        /\ at[x] = "complete" => file[target[x]] = [rows |-> rows[x], content |-> "whole"]

ApartInv == WaitingApart /\ OwnFile /\ DownloadIsWhole

\* What a step does to the jobs that are completed.
FinalKept ==
    \A j \in Jobs : Completed(j) /\ j \notin contended => jobs'[j] = jobs[j] /\ file'[j] = file[j]

\* Most steps touch no row and no file, and start or resume no session.
LEMMA FrameApart ==
    ASSUME ApartInv, UNCHANGED <<jobs, file, sent, contended>>,
           \A j \in Jobs : creating'[j] => creating[j],
           \A x \in Executors : at'[x] \in Working =>
                /\ at[x] \in Working
                /\ target'[x] = target[x] /\ object'[x] = object[x]
                /\ at'[x] \in {"write", "complete"} => at'[x] = at[x] /\ rows'[x] = rows[x]
    PROVE  ApartInv' /\ FinalKept
<1>1. WaitingApart'
  BY DEF ApartInv, WaitingApart, Completed, TasksOf
<1>2. OwnFile'
  <2> SUFFICES ASSUME NEW x \in Executors, at'[x] \in Working, target[x] \notin contended
               PROVE  /\ \A y \in Executors \ {x} : at'[y] \in Working => target'[y] # target[x]
                      /\ ~Completed(target[x])
                      /\ object[x].row_count = jobs[target[x]].row_count
                      /\ at'[x] = "write" => file[target[x]].content = "empty"
                      /\ at'[x] = "complete" =>
                            file[target[x]] = [rows |-> rows'[x], content |-> "whole"]
    BY DEF OwnFile, Completed
  <2>1. /\ \A y \in Executors \ {x} : at[y] \in Working => target[y] # target[x]
        /\ ~Completed(target[x])
        /\ object[x].row_count = jobs[target[x]].row_count
        /\ at[x] = "write" => file[target[x]].content = "empty"
        /\ at[x] = "complete" => file[target[x]] = [rows |-> rows[x], content |-> "whole"]
    BY DEF ApartInv, OwnFile
  <2>2. \A y \in Executors \ {x} : at'[y] \in Working => target'[y] # target[x]
    BY <2>1
  <2>3. at'[x] \in {"write", "complete"} => at'[x] = at[x] /\ rows'[x] = rows[x]
    OBVIOUS
  <2> QED  BY <2>1, <2>2, <2>3
<1>3. DownloadIsWhole'
  BY DEF ApartInv, DownloadIsWhole, Completed
<1> QED  BY <1>1, <1>2, <1>3 DEF ApartInv, FinalKept

LEMMA CreateApart ==
    ASSUME IInv, ApartInv, NEW j \in Jobs, CreateExport(j)
    PROVE  ApartInv' /\ FinalKept
<1> USE DEF IInv, TypeInv, TypeOK, CreateExport, queueVars
<1>1. /\ \A k \in Jobs : k # j => jobs'[k] = jobs[k] /\ (creating'[k] => creating[k])
      /\ jobs'[j].status = "pending"
  BY DEF ExportTypeOK
<1>2. /\ TasksOf(j) = {}
      /\ \A x \in Executors : at[x] \in Working => target[x] # j /\ target[x] \in Jobs
  BY DEF JobsOK, SessionsOK, TasksOf, ExportTypeOK
<1>3. \A k \in Jobs : Completed(k)' => k # j /\ Completed(k)
  BY <1>1 DEF Completed
<1>4. WaitingApart'
  BY <1>1, <1>2, <1>3 DEF ApartInv, WaitingApart, TasksOf
<1>5. OwnFile'
  BY <1>1, <1>2, <1>3 DEF ApartInv, OwnFile
<1>6. DownloadIsWhole'
  BY <1>1, <1>3 DEF ApartInv, DownloadIsWhole
<1>7. FinalKept
  BY <1>1 DEF FinalKept, Completed
<1> QED  BY <1>4, <1>5, <1>6, <1>7 DEF ApartInv

\* A task is sent for a job that no request holds back any longer.
LEMMA SendApart ==
    ASSUME IInv, ApartInv, NEW job \in Jobs, NEW r \in Nat, Send(job, r),
           ~creating'[job], UNCHANGED <<jobs, file, target, object, rows, contended, at>>,
           \A j \in Jobs : creating'[j] => creating[j]
    PROVE  ApartInv' /\ FinalKept
<1> USE DEF IInv, TypeInv, TypeOK
<1>0. /\ DOMAIN sent' = DOMAIN sent \cup {Len(sent) + 1}
      /\ \A t \in DOMAIN sent : sent'[t] = sent[t]
      /\ sent'[Len(sent) + 1] = [job |-> job, replays |-> r]
  BY SendFacts
<1>1. \A j \in Jobs : j # job /\ TasksOf(j) = {} => TasksOf(j)' = {}
  BY <1>0 DEF TasksOf
<1>2. WaitingApart'
  BY <1>1 DEF ApartInv, WaitingApart, Completed
<1>3. OwnFile' /\ DownloadIsWhole' /\ FinalKept
  BY DEF ApartInv, OwnFile, DownloadIsWhole, FinalKept, Completed
<1> QED  BY <1>2, <1>3 DEF ApartInv

LEMMA DispatchApart ==
    ASSUME IInv, ApartInv, NEW j \in Jobs, DispatchExport(j)
    PROVE  ApartInv' /\ FinalKept
<1>1. Send(j, 0) /\ ~creating'[j] /\ \A k \in Jobs : creating'[k] => creating[k]
  BY DEF DispatchExport, EndRequest, IInv, TypeInv, TypeOK, ExportTypeOK
<1>2. UNCHANGED <<jobs, file, target, object, rows, contended, at>> /\ 0 \in Nat
  BY DEF DispatchExport
<1> QED  BY <1>1, <1>2, SendApart

\* The task of a replayed record, and so the job of its request, was sent.
LEMMA ReplacementApart ==
    ASSUME IInv, ApartInv, NEW u \in Admins, SendReplacement(u), UNCHANGED exportVars
    PROVE  ApartInv' /\ FinalKept
<1> DEFINE t == replay[u].task
<1>1. t \in DOMAIN sent /\ t \in Nat /\ sent[t].job \in Jobs
  BY SentTasks DEF SendReplacement, IInv, TypeInv, TypeOK, RecordsOK, Tasks
<1>2. ~creating[sent[t].job]
  BY <1>1 DEF ApartInv, WaitingApart, TasksOf
<1>3. Send(sent[t].job, t)
  BY DEF SendReplacement
<1>4. UNCHANGED <<jobs, creating, file, target, object, rows, contended, at>>
  BY DEF SendReplacement, exportVars
<1> HIDE DEF t
<1> QED  BY <1>1, <1>2, <1>3, <1>4, SendApart

\* An execution starts: beside another one, or as the only one.
LEMMA BeginApart ==
    ASSUME IInv, ApartInv, NEW x \in Executors, NEW j \in Jobs, Contend(x, j),
           at'[x] = "start", target'[x] = j, object'[x] = jobs[j], at[x] \notin Working,
           \A y \in Executors \ {x} : at'[y] = at[y] /\ target'[y] = target[y]
                                      /\ object'[y] = object[y],
           UNCHANGED <<jobs, file, sent, rows>>, ~Completed(j), ~creating'[j],
           \A k \in Jobs : creating'[k] => creating[k]
    PROVE  ApartInv' /\ FinalKept
<1>1. WaitingApart'
  BY DEF ApartInv, WaitingApart, TasksOf, Completed
<1>2. /\ \A k \in Jobs : k # j => (k \in contended' <=> k \in contended)
      /\ j \notin contended' => \A y \in Executors \ {x} : target[y] # j
  BY DEF Contend
<1>3. \A y \in Executors : at[y] \in Working => target[y] \in Jobs
  BY DEF IInv, TypeInv, TypeOK, SessionsOK, ExportTypeOK
<1>4. OwnFile'
  <2> SUFFICES ASSUME NEW y \in Executors, at'[y] \in Working, target'[y] \notin contended'
               PROVE  /\ \A z \in Executors \ {y} : at'[z] \in Working => target'[z] # target'[y]
                      /\ ~Completed(target'[y])
                      /\ object'[y].row_count = jobs[target'[y]].row_count
                      /\ at'[y] = "write" => file[target'[y]].content = "empty"
                      /\ at'[y] = "complete" =>
                            file[target'[y]] = [rows |-> rows[y], content |-> "whole"]
    BY DEF OwnFile, Completed
  <2>1. CASE y = x
    BY <1>2, <2>1
  <2>2. CASE y # x
    <3>1. at[y] \in Working /\ target'[y] = target[y] /\ target[y] \in Jobs
      BY <1>3, <2>2
    <3>2. target[y] # j
      BY <1>2, <2>2, <3>1
    <3>3. target[y] \notin contended
      BY <1>2, <3>1, <3>2
    <3> QED  BY <2>2, <3>1, <3>2, <3>3 DEF ApartInv, OwnFile
  <2> QED  BY <2>1, <2>2
<1>5. DownloadIsWhole'
  BY <1>2 DEF ApartInv, DownloadIsWhole, Completed
<1>6. FinalKept
  BY DEF FinalKept
<1> QED  BY <1>1, <1>4, <1>5, <1>6 DEF ApartInv

LEMMA InlineApart ==
    ASSUME IInv, ApartInv, NEW j \in Jobs, NEW x \in Executors, GenerateInline(x, j)
    PROVE  ApartInv' /\ FinalKept
<1> USE DEF IInv, TypeInv, TypeOK, GenerateInline, EndRequest, Go
<1>1. /\ at'[x] = "start" /\ target'[x] = j /\ object'[x] = jobs[j] /\ ~creating'[j]
      /\ at[x] \notin Working
      /\ \A k \in Jobs : creating'[k] => creating[k]
      /\ \A y \in Executors \ {x} : at'[y] = at[y] /\ target'[y] = target[y]
                                    /\ object'[y] = object[y]
  BY DEF QueueTypeOK, ExportTypeOK, Working
<1>2. ~Completed(j)
  BY DEF ApartInv, WaitingApart
<1>3. Contend(x, j) /\ UNCHANGED <<jobs, file, sent, rows>>
  OBVIOUS
<1> QED  BY <1>1, <1>2, <1>3, BeginApart

\* The task begins only if the job is not completed, and its request is over.
LEMMA GetApart ==
    ASSUME IInv, ApartInv, NEW x \in Executors, GetJob(x)
    PROVE  ApartInv' /\ FinalKept
<1> USE DEF IInv, TypeInv, TypeOK, GetJob, Go
<1>0. /\ JobOf(x) \in Jobs /\ delivered[x].task \in DOMAIN sent
      /\ ~creating[JobOf(x)]
  BY SentTasks DEF JobOf, MessagesOK, Handling, ApartInv, WaitingApart, TasksOf
<1>1. CASE Finished(jobs[JobOf(x)])
  <2>1. \A y \in Executors : at'[y] \in Working => at'[y] = at[y] /\ at[y] \in Working
    BY <1>1 DEF Working, QueueTypeOK
  <2> QED  BY <1>1, <2>1, FrameApart
<1>2. CASE ~Finished(jobs[JobOf(x)])
  <2> PICK j \in Jobs : j = JobOf(x)
    BY <1>0
  <2>1. /\ at'[x] = "start" /\ target'[x] = j /\ object'[x] = jobs[j]
        /\ at[x] \notin Working /\ Contend(x, j)
        /\ \A y \in Executors \ {x} : at'[y] = at[y] /\ target'[y] = target[y]
                                      /\ object'[y] = object[y]
    BY <1>2 DEF QueueTypeOK, ExportTypeOK, Working
  <2>2. ~Completed(j)
    BY <1>2 DEF Finished, Completed
  <2>3. UNCHANGED <<jobs, file, sent, rows, creating>>
    OBVIOUS
  <2> QED  BY <1>0, <2>1, <2>2, <2>3, BeginApart
<1> QED  BY <1>1, <1>2

\* A step of a session changes the row and the file of its own job only; that
\* keeps the invariant if it does so when no other execution is in its way.
LEMMA SessionApart ==
    ASSUME IInv, ApartInv, NEW x \in Executors, at[x] \in Working,
           UNCHANGED <<creating, sent, contended>>,
           \A k \in Jobs : k # target[x] => jobs'[k] = jobs[k] /\ file'[k] = file[k],
           \A y \in Executors \ {x} : /\ at'[y] = at[y] /\ target'[y] = target[y]
                                      /\ object'[y] = object[y] /\ rows'[y] = rows[y],
           at'[x] \in Working => target'[x] = target[x],
           target[x] \notin contended =>
             /\ at'[x] \in Working =>
                  /\ jobs'[target[x]] # None => jobs'[target[x]].status # "completed"
                  /\ object'[x].row_count = jobs'[target[x]].row_count
                  /\ at'[x] = "write" => file'[target[x]].content = "empty"
                  /\ at'[x] = "complete" =>
                        file'[target[x]] = [rows |-> rows'[x], content |-> "whole"]
             /\ jobs'[target[x]] # None /\ jobs'[target[x]].status = "completed" =>
                  file'[target[x]] = [rows |-> jobs'[target[x]].row_count, content |-> "whole"]
    PROVE  ApartInv' /\ FinalKept
<1> DEFINE j == target[x]
<1>1. j \in Jobs /\ ~creating[j] /\ (j \notin contended => ~Completed(j))
  <2>1. j \in Jobs
    BY DEF IInv, TypeInv, TypeOK, ExportTypeOK, SessionsOK
  <2>2. ~creating[j]
    <3> SUFFICES ASSUME creating[j]  PROVE FALSE
      OBVIOUS
    <3>1. \A y \in Executors : at[y] \in Working => target[y] # j
      BY <2>1 DEF ApartInv, WaitingApart
    <3> QED  BY <3>1
  <2>3. j \notin contended => ~Completed(j)
    BY DEF ApartInv, OwnFile
  <2> QED  BY <2>1, <2>2, <2>3
<1>2. WaitingApart'
  BY <1>1 DEF ApartInv, WaitingApart, TasksOf, Completed
<1>3. OwnFile'
  <2> SUFFICES ASSUME NEW y \in Executors, at'[y] \in Working, target'[y] \notin contended
               PROVE  /\ \A z \in Executors \ {y} : at'[z] \in Working => target'[z] # target'[y]
                      /\ ~(jobs'[target'[y]] # None /\ jobs'[target'[y]].status = "completed")
                      /\ object'[y].row_count = jobs'[target'[y]].row_count
                      /\ at'[y] = "write" => file'[target'[y]].content = "empty"
                      /\ at'[y] = "complete" =>
                            file'[target'[y]] = [rows |-> rows'[y], content |-> "whole"]
    BY DEF OwnFile, Completed
  <2>1. at[y] \in Working /\ target'[y] = target[y] /\ target[y] \in Jobs
    BY <1>1 DEF IInv, TypeInv, TypeOK, ExportTypeOK, SessionsOK
  <2>2. \A z \in Executors \ {y} : at'[z] \in Working => target'[z] # target[y]
    <3>1. \A z \in Executors \ {y} : at[z] \in Working => target[z] # target[y]
      BY <2>1 DEF ApartInv, OwnFile
    <3>2. \A z \in Executors : at'[z] \in Working =>
            at[z] \in Working /\ target'[z] = target[z]
      OBVIOUS
    <3> QED  BY <3>1, <3>2
  <2>3. CASE y = x
    BY <2>1, <2>2, <2>3
  <2>4. CASE y # x
    <3>1. /\ target[y] \notin contended
          /\ at'[y] = at[y] /\ object'[y] = object[y] /\ rows'[y] = rows[y]
      BY <2>1, <2>4
    <3>2. /\ \A z \in Executors \ {y} : at[z] \in Working => target[z] # target[y]
          /\ ~Completed(target[y])
          /\ object[y].row_count = jobs[target[y]].row_count
          /\ at[y] = "write" => file[target[y]].content = "empty"
          /\ at[y] = "complete" => file[target[y]] = [rows |-> rows[y], content |-> "whole"]
      BY <2>1, <3>1 DEF ApartInv, OwnFile
    <3>3. target[y] # j
      BY <2>4, <3>2
    <3>4. jobs'[target[y]] = jobs[target[y]] /\ file'[target[y]] = file[target[y]]
      BY <2>1, <3>3
    <3> HIDE DEF j
    <3> QED  BY <2>1, <2>2, <3>1, <3>2, <3>4 DEF Completed
  <2> QED  BY <2>3, <2>4
<1>4. DownloadIsWhole'
  <2> SUFFICES ASSUME NEW k \in Jobs, jobs'[k] # None, jobs'[k].status = "completed",
                      k \notin contended
               PROVE  file'[k] = [rows |-> jobs'[k].row_count, content |-> "whole"]
    BY DEF DownloadIsWhole, Completed
  <2>1. CASE k = j
    BY <2>1
  <2>2. CASE k # j
    BY <2>2 DEF ApartInv, DownloadIsWhole, Completed
  <2> QED  BY <2>1, <2>2
<1>5. FinalKept
  BY <1>1 DEF FinalKept
<1> QED  BY <1>2, <1>3, <1>4, <1>5 DEF ApartInv

\* What a session may rely on.
LEMMA SessionFacts ==
    ASSUME IInv, ApartInv, NEW x \in Executors, at[x] \in Working
    PROVE  /\ target[x] \in Jobs /\ jobs[target[x]] \in Rows /\ object[x] \in Rows
           /\ target[x] \notin contended =>
                /\ ~Completed(target[x]) /\ jobs[target[x]].status # "completed"
                /\ object[x].row_count = jobs[target[x]].row_count
                /\ \A y \in Executors \ {x} : at[y] \in Working => target[y] # target[x]
                /\ at[x] = "write" => file[target[x]].content = "empty"
                /\ at[x] = "complete" => file[target[x]] = [rows |-> rows[x], content |-> "whole"]
<1>1. target[x] \in Jobs /\ jobs[target[x]] \in Rows /\ object[x] \in Rows
  BY DEF IInv, TypeInv, TypeOK, ExportTypeOK, SessionsOK
<1> QED  BY <1>1, NoneAssumption DEF ApartInv, OwnFile, Completed

LEMMA StartApart ==
    ASSUME IInv, ApartInv, NEW x \in Executors, StartJob(x)
    PROVE  ApartInv' /\ FinalKept
<1> USE DEF IInv, TypeInv, TypeOK, StartJob, Go
<1> DEFINE j == target[x]
<1>0. /\ at[x] \in Working
      /\ j \in Jobs /\ jobs[j] \in Rows /\ object[x] \in Rows
      /\ j \notin contended =>
           jobs[j].status # "completed" /\ object[x].row_count = jobs[j].row_count
  BY SessionFacts DEF Working
<1>1. /\ jobs' = [jobs EXCEPT ![j] = jobs'[j]]
      /\ jobs'[j].row_count = jobs[j].row_count
      /\ jobs'[j].status \in {"processing", jobs[j].status}
      /\ object'[x] = [object[x] EXCEPT !.status = "processing"]
      /\ object'[x].row_count = object[x].row_count
      /\ at'[x] = "query"
  BY <1>0 DEF Update, Rows, ExportTypeOK, QueueTypeOK
<1>2. /\ \A k \in Jobs : k # j => jobs'[k] = jobs[k] /\ file'[k] = file[k]
      /\ \A y \in Executors \ {x} : /\ at'[y] = at[y] /\ target'[y] = target[y]
                                    /\ object'[y] = object[y] /\ rows'[y] = rows[y]
      /\ UNCHANGED <<creating, sent, contended, target>>
  BY <1>1 DEF Update, ExportTypeOK, QueueTypeOK
<1>3. j \notin contended => jobs'[j].status # "completed"
  BY <1>0, <1>1
<1> HIDE DEF StartJob
<1> QED  BY <1>0, <1>1, <1>2, <1>3, SessionApart

LEMMA FileApart ==
    ASSUME IInv, ApartInv, NEW x \in Executors, OpenFile(x) \/ WriteFile(x)
    PROVE  ApartInv' /\ FinalKept
<1> USE DEF IInv, TypeInv, TypeOK, Go
<1> DEFINE j == target[x]
<1>0. /\ at[x] \in Working /\ j \in Jobs
      /\ j \notin contended =>
           /\ jobs[j].status # "completed" /\ object[x].row_count = jobs[j].row_count
           /\ \A y \in Executors \ {x} : at[y] \in Working => target[y] # j
           /\ at[x] = "write" => file[j].content = "empty"
  <2>1. at[x] \in Working
    BY DEF OpenFile, WriteFile, Working
  <2> QED  BY <2>1, SessionFacts
<1>1. /\ UNCHANGED <<jobs, creating, target, object, rows, sent, contended>>
      /\ \A y \in Executors \ {x} : at'[y] = at[y]
  BY DEF OpenFile, WriteFile, QueueTypeOK
<1>2. \A k \in Jobs : k # j => file'[k] = file[k]
  BY DEF OpenFile, WriteFile, ExportTypeOK
<1>3. j \notin contended =>
        /\ at'[x] = "write" => file'[j].content = "empty"
        /\ at'[x] = "complete" => file'[j] = [rows |-> rows[x], content |-> "whole"]
  <2>1. CASE OpenFile(x)
    BY <1>0, <2>1 DEF OpenFile, ExportTypeOK, QueueTypeOK
  <2>2. CASE WriteFile(x)
    <3>1. j \notin contended => ~Overlapped(x)
      BY <1>0, <2>2 DEF WriteFile, Overlapped, Working
    <3> QED  BY <1>0, <2>2, <3>1 DEF WriteFile, ExportTypeOK, QueueTypeOK
  <2> QED  BY <2>1, <2>2
<1> QED  BY <1>0, <1>1, <1>2, <1>3, SessionApart

LEMMA MarkApart ==
    ASSUME IInv, ApartInv, NEW x \in Executors, MarkFailed(x) \/ MarkCompleted(x) \/ RefreshFails(x)
    PROVE  ApartInv' /\ FinalKept
<1> USE DEF IInv, TypeInv, TypeOK, Go, MarkFailed, CommitCompleted, MarkCompleted, RefreshFails
<1> DEFINE j == target[x]
<1>0. /\ at[x] \in Working /\ j \in Jobs /\ jobs[j] \in Rows
      /\ j \notin contended =>
           /\ object[x].row_count = jobs[j].row_count
           /\ at[x] = "complete" => file[j] = [rows |-> rows[x], content |-> "whole"]
  <2>1. at[x] \in Working
    BY DEF Working
  <2> QED  BY <2>1, SessionFacts
<1>1. /\ UNCHANGED <<creating, file, sent, contended>> /\ at'[x] \notin Working
      /\ \A y \in Executors \ {x} : /\ at'[y] = at[y] /\ target'[y] = target[y]
                                    /\ object'[y] = object[y] /\ rows'[y] = rows[y]
  BY DEF QueueTypeOK, ExportTypeOK, EndSession, Working
<1>2. \A k \in Jobs : k # j => jobs'[k] = jobs[k]
  BY DEF ExportTypeOK
<1>3. j \notin contended /\ jobs'[j].status = "completed" =>
        file[j] = [rows |-> jobs'[j].row_count, content |-> "whole"]
  <2>1. CASE MarkFailed(x)
    <3>1. jobs'[j].status = "failed"
      BY <1>0, <2>1 DEF ExportTypeOK, Rows
    <3> QED  BY <3>1
  <2>2. CASE CommitCompleted(x)
    <3>1. j \notin contended => jobs'[j].row_count = rows[x]
      BY <1>0, <2>2 DEF ExportTypeOK
    <3> QED  BY <1>0, <2>2, <3>1
  <2> QED  BY <2>1, <2>2
<1> HIDE DEF MarkFailed, CommitCompleted, MarkCompleted, RefreshFails
<1> QED  BY <1>0, <1>1, <1>2, <1>3, SessionApart

LEMMA GenerateApart ==
    ASSUME IInv, ApartInv, NEW x \in Executors, GenerateStep(x)
    PROVE  ApartInv' /\ FinalKept
<1>1. CASE QueryEvents(x)
  BY <1>1, FrameApart
  DEF QueryEvents, Go, IInv, TypeInv, TypeOK, QueueTypeOK, ExportTypeOK, Working
<1>2. CASE ~QueryEvents(x)
  BY <1>2, GetApart, StartApart, FileApart, MarkApart DEF GenerateStep
<1> QED  BY <1>1, <1>2

\* Faults only end sessions, or send them to mark the job as failed; only the
\* failed refresh follows a commit.
LEMMA MisfortuneApart ==
    ASSUME IInv, ApartInv, NEW x \in Executors, Misfortune(x)
    PROVE  ApartInv' /\ FinalKept
<1> USE DEF IInv, TypeInv, TypeOK
<1>0. CASE RefreshFails(x)
  BY <1>0, MarkApart
<1>1. CASE ~RefreshFails(x)
  <2>1. UNCHANGED <<jobs, creating, file, sent, contended>>
    BY <1>1 DEF Misfortune, LoseWorker, WorkerLost, VisibilityTimeout, WriteFails, OtherError,
                CrashInline, RecordLost, exportVars
  <2>2. \A y \in Executors : at'[y] \in Working =>
          /\ at[y] \in Working
          /\ target'[y] = target[y] /\ object'[y] = object[y]
          /\ at'[y] \in {"write", "complete"} => at'[y] = at[y] /\ rows'[y] = rows[y]
    <3>1. CASE LoseWorker(x)
      BY <3>1 DEF LoseWorker, WorkerLost, Drop, Go, EndSession, Working, QueueTypeOK, ExportTypeOK
    <3>2. CASE VisibilityTimeout(x) /\ UNCHANGED <<exportVars, deadLetterVars>>
      BY <3>2 DEF VisibilityTimeout, exportVars
    <3>3. CASE WriteFails(x)
      BY <3>3 DEF WriteFails, Go, Working, QueueTypeOK, exportVars
    <3>4. CASE OtherError(x)
      BY <3>4 DEF OtherError, Go, EndSession, Working, QueueTypeOK, ExportTypeOK
    <3>5. CASE CrashInline(x)
      BY <3>5 DEF CrashInline, Go, EndSession, Working, QueueTypeOK, ExportTypeOK
    <3>6. CASE RecordLost(x) /\ UNCHANGED exportVars
      BY <3>6 DEF RecordLost, Go, Working, QueueTypeOK, exportVars
    <3> QED  BY <1>1, <3>1, <3>2, <3>3, <3>4, <3>5, <3>6 DEF Misfortune
  <2> QED  BY <2>1, <2>2, FrameApart
<1> QED  BY <1>0, <1>1

\* The steps of Celery and of the failure handler open no session.
LEMMA HandlingApart ==
    ASSUME IInv, ApartInv, NEW x \in Executors, TakeMessage(x) \/ Conclude(x) \/ Record(x)
    PROVE  ApartInv' /\ FinalKept
<1>1. UNCHANGED <<jobs, creating, file, target, object, rows, contended, sent>>
  BY DEF TakeMessage, Conclude, Record, Deliver, PublishRetry, ExhaustRetries, Ack,
         ReadRecord, WriteRecord, exportVars
<1>2. \A y \in Executors : at'[y] \in Working => at'[y] = at[y]
  BY DEF TakeMessage, Conclude, Record, Deliver, PublishRetry, ExhaustRetries, Ack,
         ReadRecord, WriteRecord, Drop, Go, Working, IInv, TypeInv, TypeOK, QueueTypeOK
<1> QED  BY <1>1, <1>2, FrameApart

LEMMA NextApart ==
    ASSUME IInv, ApartInv, [Next]_vars
    PROVE  ApartInv' /\ FinalKept
<1>1. CASE \E j \in Jobs : RequestExport(j)
  BY <1>1, CreateApart DEF RequestExport
<1>2. CASE \E j \in Jobs : Dispatch(j)
  BY <1>2, DispatchApart DEF Dispatch
<1>3. CASE \E x \in Executors, j \in Jobs : InlineExport(x, j)
  BY <1>3, InlineApart DEF InlineExport
<1>4. CASE \E j \in Jobs : CrashRequest(j) /\ UNCHANGED deadLetterVars
  BY <1>4, FrameApart
  DEF CrashRequest, EndRequest, IInv, TypeInv, TypeOK, ExportTypeOK
<1>5. CASE \E x \in Executors : TakeMessage(x) \/ Conclude(x) \/ Record(x)
  BY <1>5, HandlingApart
<1>6. CASE \E x \in Executors : Generate(x)
  BY <1>6, GenerateApart DEF Generate
<1>7. CASE \E x \in Executors : Misfortune(x)
  BY <1>7, MisfortuneApart
<1>8. CASE \E u \in Admins : SendReplacement(u) /\ UNCHANGED exportVars
  BY <1>8, ReplacementApart
<1>9. CASE UNCHANGED <<queueVars, exportVars>>
  BY <1>9, FrameApart DEF queueVars, exportVars
<1>10. \A u \in Admins : Replay(u) \/ (AbandonReplay(u) /\ UNCHANGED exportVars) =>
          (SendReplacement(u) /\ UNCHANGED exportVars) \/ UNCHANGED <<sent, at, exportVars>>
  BY DEF Replay, LoadRecord, MarkRetried, AbandonReplay, queueVars
<1>11. CASE UNCHANGED <<sent, at, exportVars>>
  BY <1>11, FrameApart DEF exportVars
<1> QED
  BY <1>1, <1>2, <1>3, <1>4, <1>5, <1>6, <1>7, <1>8, <1>9, <1>10, <1>11 DEF Next, vars

LEMMA InitApart == Init => ApartInv
BY DEF Init, QueueInit, ExportInit, ApartInv, WaitingApart, OwnFile, DownloadIsWhole,
       Completed, Working

LEMMA ApartInvariance == Spec => []ApartInv
<1>1. IInv /\ ApartInv /\ [Next]_vars => ApartInv'
  BY NextApart
<1> QED  BY <1>1, InitApart, Invariance, PTL DEF Spec

\* Whatever fails, is retried, delivered again or replayed, with any number of
\* executors: unless executions of the job overlapped, a download is the complete
\* output of one of them and has as many rows as the job says (generate_export
\* opens the file anew and sets row_count when it is done).
THEOREM DownloadsWhole == Spec => []DownloadIsWhole
<1>1. ApartInv => DownloadIsWhole
  BY DEF ApartInv
<1> QED  BY <1>1, ApartInvariance, PTL

\* With any number of executors nothing touches a completed job or its file
\* again unless executions of it overlapped: for a task that begins later, the
\* early return of _generate_export is enough.
THEOREM CompletedStays == Spec => CompletedIsFinal
<1>1. IInv /\ ApartInv /\ [Next]_vars => [FinalKept]_vars
  BY NextApart
<1>2. [][FinalKept]_vars => CompletedIsFinal
  BY PTL DEF CompletedIsFinal, FinalKept
<1> QED  BY <1>1, <1>2, ApartInvariance, Invariance, PTL DEF Spec
-----------------------------------------------------------------------------
(* Exports implement the at-least-once service of ExportService, for any   *)
(* number of executors and either way of dispatching.                      *)

\* A request that generates its job itself has not dispatched it as well.
RequestsOver ==
    \A x \in Executors : at[x] \in Working /\ Inline(x) => ~creating[target[x]]

\* A step that opens no inline session and takes no new request.
LEMMA FrameOver ==
    ASSUME IInv, RequestsOver,
           \A j \in Jobs : creating'[j] => creating[j] \/ jobs[j] = None,
           \A x \in Executors : at'[x] \in Working /\ Inline(x)' =>
                at[x] \in Working /\ Inline(x) /\ target'[x] = target[x]
    PROVE  RequestsOver'
<1> SUFFICES ASSUME NEW x \in Executors, at'[x] \in Working, Inline(x)'
             PROVE  ~creating'[target'[x]]
  BY DEF RequestsOver
<1>1. at[x] \in Working /\ Inline(x) /\ target'[x] = target[x]
  OBVIOUS
<1>2. target[x] \in Jobs /\ jobs[target[x]] # None /\ ~creating[target[x]]
  BY <1>1 DEF RequestsOver, IInv, TypeInv, TypeOK, SessionsOK, ExportTypeOK
<1> QED  BY <1>1, <1>2

LEMMA OverStep ==
    ASSUME IInv, RequestsOver, [Next]_vars
    PROVE  RequestsOver'
<1> USE DEF IInv, TypeInv, TypeOK
<1>1. CASE \E j \in Jobs : RequestExport(j) \/ Dispatch(j)
                           \/ (CrashRequest(j) /\ UNCHANGED deadLetterVars)
  <2>1. UNCHANGED <<at, delivered, target>>
    BY <1>1 DEF RequestExport, CreateExport, Dispatch, DispatchExport, CrashRequest, queueVars
  <2>2. \A j \in Jobs : creating'[j] => creating[j] \/ jobs[j] = None
    BY <1>1 DEF RequestExport, CreateExport, Dispatch, DispatchExport, CrashRequest,
                EndRequest, ExportTypeOK
  <2> QED  BY <2>1, <2>2, FrameOver DEF Inline
<1>2. CASE \E x \in Executors, j \in Jobs : InlineExport(x, j)
  <2>1. PICK x \in Executors, j \in Jobs : GenerateInline(x, j)
    BY <1>2 DEF InlineExport
  <2>2. /\ target'[x] = j /\ ~creating'[j] /\ UNCHANGED delivered
        /\ \A k \in Jobs : creating'[k] => creating[k]
        /\ \A y \in Executors \ {x} : at'[y] = at[y] /\ target'[y] = target[y]
    BY <2>1 DEF GenerateInline, EndRequest, Go, QueueTypeOK, ExportTypeOK
  <2>3. \A y \in Executors \ {x} : at[y] \in Working => target[y] \in Jobs
    BY DEF SessionsOK, ExportTypeOK
  <2> QED  BY <2>2, <2>3 DEF RequestsOver, Inline
<1>3. CASE \E x \in Executors : Generate(x) \/ Misfortune(x)
  <2>1. PICK x \in Executors : Generate(x) \/ Misfortune(x)
    BY <1>3
  <2>2. UNCHANGED creating
    BY <2>1
    DEF Generate, GenerateStep, GetJob, StartJob, QueryEvents, OpenFile, WriteFile, MarkFailed,
        CommitCompleted, MarkCompleted, RefreshFails, Misfortune, LoseWorker, VisibilityTimeout, WriteFails, OtherError,
        CrashInline, RecordLost, exportVars
  <2>3. \A y \in Executors : at'[y] \in Working /\ Inline(y)' =>
            at[y] \in Working /\ Inline(y) /\ target'[y] = target[y]
    <3>1. CASE GetJob(x)
      <4>1. delivered[x] # None /\ UNCHANGED delivered
        BY <3>1 DEF GetJob, MessagesOK, Handling
      <4>2. \A y \in Executors \ {x} : at'[y] = at[y] /\ target'[y] = target[y]
        BY <3>1 DEF GetJob, Go, QueueTypeOK, ExportTypeOK
      <4> QED  BY <4>1, <4>2 DEF Inline
    <3>2. CASE StartJob(x) \/ QueryEvents(x) \/ OpenFile(x) \/ WriteFile(x)
      BY <3>2 DEF StartJob, QueryEvents, OpenFile, WriteFile, Go, Working, Inline, QueueTypeOK
    <3>3. CASE MarkFailed(x) \/ MarkCompleted(x) \/ RefreshFails(x)
      BY <3>3 DEF MarkFailed, CommitCompleted, MarkCompleted, RefreshFails, EndSession, Go,
                  Working, Inline, QueueTypeOK, ExportTypeOK
    <3>4. CASE LoseWorker(x)
      BY <3>4 DEF LoseWorker, WorkerLost, Drop, Go, EndSession, Working, Inline, QueueTypeOK,
                  ExportTypeOK
    <3>5. CASE VisibilityTimeout(x) /\ UNCHANGED <<exportVars, deadLetterVars>>
      BY <3>5 DEF VisibilityTimeout, exportVars, Inline
    <3>6. CASE WriteFails(x)
      BY <3>6 DEF WriteFails, Go, Working, Inline, QueueTypeOK, exportVars
    <3>7. CASE OtherError(x) \/ CrashInline(x)
      BY <3>7 DEF OtherError, CrashInline, Go, EndSession, Working, Inline, QueueTypeOK,
                  ExportTypeOK
    <3>8. CASE RecordLost(x) /\ UNCHANGED exportVars
      BY <3>8 DEF RecordLost, Go, Working, Inline, QueueTypeOK, exportVars
    <3> QED
      BY <2>1, <3>1, <3>2, <3>3, <3>4, <3>5, <3>6, <3>7, <3>8
      DEF Generate, GenerateStep, Misfortune
  <2> QED  BY <2>2, <2>3, FrameOver
<1>4. CASE \E x \in Executors : TakeMessage(x) \/ Conclude(x) \/ Record(x)
  <2>1. UNCHANGED <<creating, target>>
    BY <1>4 DEF TakeMessage, Conclude, Record, exportVars
  <2>2. \A y \in Executors : at'[y] \in Working =>
            at'[y] = at[y] /\ delivered'[y] = delivered[y]
    BY <1>4, ZenonT(30) DEF TakeMessage, Conclude, Record, Deliver, PublishRetry, ExhaustRetries, Ack,
                ReadRecord, WriteRecord, Drop, Go, Working, QueueTypeOK
  <2> QED  BY <2>1, <2>2, FrameOver DEF Inline
<1>5. CASE UNCHANGED <<at, delivered, exportVars>>
  BY <1>5, FrameOver DEF Inline, exportVars
<1>6. CASE \E u \in Admins : Replay(u) \/ (AbandonReplay(u) /\ UNCHANGED exportVars)
  BY <1>5, <1>6 DEF Replay, LoadRecord, SendReplacement, MarkRetried, AbandonReplay, queueVars
<1> QED
  BY <1>1, <1>2, <1>3, <1>4, <1>5, <1>6 DEF Next, vars, queueVars

-----------------------------------------------------------------------------
(* The steps, as the service sees them.                                    *)

\* An executor that is neither idle nor at a message works on a job of its
\* own request.
LEMMA InlineWorks ==
    ASSUME IInv, NEW x \in Executors, at[x] # "idle", Inline(x)
    PROVE  at[x] \in Working
BY DEF IInv, TypeInv, TypeOK, QueueTypeOK, Places, MessagesOK, Handling, Working, Inline

\* Rows and tasks stay, and nobody takes up or leaves a request.
LEMMA JobsStay ==
    ASSUME UNCHANGED <<jobs, creating, sent>>,
           \A t \in DOMAIN sent : InFlight(t)' <=> InFlight(t),
           \A x \in Executors : (at[x] # "idle" /\ Inline(x)) <=> (at'[x] # "idle" /\ Inline(x)'),
           \A x \in Executors : at[x] # "idle" /\ Inline(x) => target'[x] = target[x]
    PROVE  UNCHANGED <<Service!jobVars, [j \in Jobs |-> RequestOf(j)], Service!taskVars>>
<1>1. \A j \in Jobs : RequestOf(j)' = RequestOf(j) /\ StatusOf(j)' = StatusOf(j)
  BY DEF RequestOf, StatusOf
<1>2. \A j \in Jobs : Produced(j)' <=> Produced(j)
  BY DEF Produced
<1> QED  BY <1>1, <1>2 DEF Service!jobVars, Service!taskVars

LEMMA QuietStep ==
    ASSUME UNCHANGED <<jobs, creating, sent, records, unrecorded>>,
           \A t \in DOMAIN sent : InFlight(t)' <=> InFlight(t),
           \A x \in Executors : (at[x] # "idle" /\ Inline(x)) <=> (at'[x] # "idle" /\ Inline(x)'),
           \A x \in Executors : at[x] # "idle" /\ Inline(x) => target'[x] = target[x]
    PROVE  UNCHANGED Service!vars
<1>1. \A status : RecordsThatAre(status)' = RecordsThatAre(status)
  BY DEF RecordsThatAre
<1>2. UNCHANGED <<Service!jobVars, [j \in Jobs |-> RequestOf(j)], Service!taskVars>>
  BY JobsStay
<1> QED  BY <1>1, <1>2 DEF Service!vars, Service!letterVars

\* The same, when the messages stay where they are as well.
LEMMA QuietSession ==
    ASSUME UNCHANGED <<jobs, creating, sent, records, unrecorded, ready, delivered>>,
           \A x \in Executors : Inline(x) => (at[x] # "idle" <=> at'[x] # "idle"),
           \A x \in Executors : at[x] # "idle" /\ Inline(x) => target'[x] = target[x]
    PROVE  UNCHANGED Service!vars
BY QuietStep DEF InFlight, Inline

\* A session writes the row of its job, or ends, or both.
LEMMA WorkStep ==
    ASSUME IInv, RequestsOver, NEW x \in Executors, at[x] \in Working,
           NEW j \in Jobs, target[x] = j,
           UNCHANGED <<creating, sent, ready, delivered, records, unrecorded>>,
           \A y \in Executors \ {x} : at'[y] = at[y] /\ target'[y] = target[y],
           Inline(x) => at'[x] = "idle" \/ (at'[x] # "idle" /\ target'[x] = j),
           \A k \in Jobs : k # j => jobs'[k] = jobs[k],
           jobs'[j] # None,
           \/ /\ jobs'[j].status \in {"processing", "failed"}
              /\ jobs'[j].row_count = jobs[j].row_count
           \/ /\ jobs'[j].status = "completed"
              /\ jobs'[j].row_count # None
           \/ jobs'[j] = jobs[j]
    PROVE  Service!Work(j)
<1>1. j \in Jobs /\ jobs[j] # None
  BY DEF IInv, TypeInv, TypeOK, SessionsOK, ExportTypeOK
<1>2. \A k \in Jobs : (Inline(x) /\ k = j) \/ RequestOf(k)' = RequestOf(k)
  <2> SUFFICES ASSUME NEW k \in Jobs, ~(Inline(x) /\ k = j)
               PROVE  RequestOf(k)' = RequestOf(k)
    OBVIOUS
  <2>1. jobs'[k] = None <=> jobs[k] = None
    BY <1>1
  <2>2. \A y \in Executors : (at[y] # "idle" /\ Inline(y) /\ target[y] = k)
                             <=> (at'[y] # "idle" /\ Inline(y)' /\ target'[y] = k)
    <3>1. CASE Inline(x)
      BY <3>1 DEF Inline, Working
    <3>2. CASE ~Inline(x)
      BY <3>2 DEF Inline
    <3> QED  BY <3>1, <3>2
  <2> QED  BY <2>1, <2>2 DEF RequestOf
<1>3. Inline(x) => RequestOf(j) = "inline" /\ RequestOf(j)' \in {"inline", "over"}
  <2> SUFFICES ASSUME Inline(x)
               PROVE  RequestOf(j) = "inline" /\ RequestOf(j)' \in {"inline", "over"}
    OBVIOUS
  <2>1. ~creating[j] /\ at[x] # "idle" /\ jobs'[j] # None
    BY DEF RequestsOver, Working
  <2>2. (\E y \in Executors : at[y] # "idle" /\ Inline(y) /\ target[y] = j)
    BY <2>1
  <2> QED  BY <1>1, <2>1, <2>2 DEF RequestOf
<1>4. Service!Busy(j)
  <2>1. CASE Inline(x)
    BY <1>1, <1>3, <2>1 DEF Service!Busy
  <2>2. CASE ~Inline(x)
    <3>1. delivered[x].task \in DOMAIN sent /\ sent[delivered[x].task].job = j
      BY <2>2 DEF IInv, TypeInv, MessagesOK, SessionsOK, JobOf, Inline
    <3>2. InFlight(delivered[x].task)
      BY <2>2 DEF InFlight, Inline
    <3> QED  BY <3>1, <3>2 DEF Service!Busy
  <2> QED  BY <2>1, <2>2
<1>5. Service!Finish(j) \/ UNCHANGED [k \in Jobs |-> RequestOf(k)]
  <2>1. CASE \A k \in Jobs : RequestOf(k)' = RequestOf(k)
    BY <2>1
  <2>2. CASE ~(\A k \in Jobs : RequestOf(k)' = RequestOf(k))
    <3>1. RequestOf(j) = "inline" /\ RequestOf(j)' = "over"
      BY <1>2, <1>3, <2>2
    <3>2. \A k \in Jobs : k # j => RequestOf(k)' = RequestOf(k)
      BY <1>2
    <3>3. [k \in Jobs |-> RequestOf(k)'] = [[k \in Jobs |-> RequestOf(k)] EXCEPT ![j] = "over"]
      BY <1>1, <3>1, <3>2
    <3> QED  BY <1>1, <3>1, <3>3 DEF Service!Finish
  <2> QED  BY <2>1, <2>2
<1> DEFINE statuses == [k \in Jobs |-> StatusOf(k)]
           produced == {k \in Jobs : jobs[k] # None /\ Produced(k)}
<1>6. \A k \in Jobs : k # j => StatusOf(k)' = StatusOf(k) /\ (Produced(k)' <=> Produced(k))
  BY DEF StatusOf, Produced
<1>7. StatusOf(j)' = jobs'[j].status
  BY DEF StatusOf
<1>8. \/ /\ \E s \in {"processing", "failed"} : statuses' = [statuses EXCEPT ![j] = s]
         /\ produced' = produced
      \/ /\ statuses' = [statuses EXCEPT ![j] = "completed"]
         /\ produced' = produced \cup {j}
      \/ statuses' = statuses /\ produced' = produced
  <2>1. CASE /\ jobs'[j].status \in {"processing", "failed"}
             /\ jobs'[j].row_count = jobs[j].row_count
    <3>1. statuses' = [statuses EXCEPT ![j] = jobs'[j].status]
      BY <1>1, <1>6, <1>7
    <3>2. produced' = produced
      BY <1>1, <1>6, <2>1 DEF Produced
    <3> QED  BY <2>1, <3>1, <3>2
  <2>2. CASE jobs'[j].status = "completed" /\ jobs'[j].row_count # None
    <3>1. statuses' = [statuses EXCEPT ![j] = "completed"]
      BY <1>1, <1>6, <1>7, <2>2
    <3>2. produced' = produced \cup {j}
      BY <1>1, <1>6, <2>2 DEF Produced
    <3> QED  BY <3>1, <3>2
  <2>3. CASE jobs'[j] = jobs[j]
    <3>1. statuses' = statuses /\ produced' = produced
      BY <1>1, <1>6, <2>3 DEF Produced, StatusOf
    <3> QED  BY <3>1
  <2> QED  BY <2>1, <2>2, <2>3
<1>9. /\ \A t \in DOMAIN sent : InFlight(t)' <=> InFlight(t)
      /\ \A status : RecordsThatAre(status)' = RecordsThatAre(status)
  BY DEF InFlight, RecordsThatAre
<1> QED
  BY <1>4, <1>5, <1>8, <1>9
  DEF Service!Work, Service!jobVars, Service!taskVars, Service!letterVars

\* A new task is open, and the others are as open as they were.
LEMMA SentByService ==
    ASSUME IInv, NEW j \in Jobs, NEW t \in Nat, Send(j, t),
           UNCHANGED <<jobs, delivered, records, unrecorded>>
    PROVE  Service!Send(j, t)
<1>0. Len(sent) \in Nat
  BY DEF IInv, TypeInv, TypeOK, QueueTypeOK
<1> PICK n \in Nat : n = Len(sent) + 1
  BY <1>0
<1>a. /\ DOMAIN sent' = DOMAIN sent \cup {Len(sent) + 1}
      /\ \A s \in DOMAIN sent : s \in Nat /\ s < Len(sent) + 1
      /\ BagToSet(ready') = BagToSet(ready) \cup {[task |-> Len(sent) + 1, retries |-> 0]}
  BY SendFacts DEF IInv, TypeInv, TypeOK
<1>1. /\ DOMAIN sent' = DOMAIN sent \cup {n}
      /\ \A s \in DOMAIN sent : s # n
      /\ BagToSet(ready') = BagToSet(ready) \cup {[task |-> n, retries |-> 0]}
  BY <1>0, <1>a
<1>2. \A s \in DOMAIN sent : InFlight(s)' <=> InFlight(s)
  BY <1>1 DEF InFlight
<1>3. InFlight(n)'
  <2> DEFINE m == [task |-> n, retries |-> 0]
  <2>1. m \in BagToSet(ready') /\ m.task = n
    BY <1>1
  <2>2. \E k \in BagToSet(ready') : k.task = n
    BY <2>1, Zenon
  <2> QED  BY <2>2 DEF InFlight
<1>4. {s \in DOMAIN sent : InFlight(s)}' = {s \in DOMAIN sent : InFlight(s)} \cup {n}
  BY <1>1, <1>2, <1>3
<1>5. /\ \A status : RecordsThatAre(status)' = RecordsThatAre(status)
      /\ \A k \in Jobs : StatusOf(k)' = StatusOf(k) /\ (Produced(k)' <=> Produced(k))
  BY DEF RecordsThatAre, StatusOf, Produced
<1>6. sent' = Append(sent, [job |-> j, replays |-> t])
  BY DEF Send
<1> QED
  BY <1>4, <1>5, <1>6 DEF Service!Send, Service!jobVars, Service!letterVars

\* POST /exports, and what its request does next.
LEMMA RequestSteps ==
    ASSUME IInv, RequestsOver, NEW j \in Jobs, UNCHANGED deadLetterVars
    PROVE  /\ CreateExport(j) => Service!Post(j)
           /\ DispatchExport(j) => Service!Dispatch(j)
           /\ CrashRequest(j) => Service!Begin(j)
           /\ \A x \in Executors : GenerateInline(x, j) => Service!Begin(j)
<1> USE DEF IInv, TypeInv, TypeOK
<1> DEFINE requests == [k \in Jobs |-> RequestOf(k)]
<1>0. \A status : RecordsThatAre(status)' = RecordsThatAre(status)
  BY DEF RecordsThatAre, deadLetterVars
<1>l. unrecorded' = unrecorded
  BY DEF deadLetterVars
<1>f. /\ jobs \in [Jobs -> Rows \cup {None}] /\ creating \in [Jobs -> BOOLEAN]
      /\ target \in [Executors -> Jobs \cup {None}] /\ at \in [Executors -> Places]
  BY DEF ExportTypeOK, QueueTypeOK
<1>1. ASSUME CreateExport(j)
      PROVE  Service!Post(j)
  <2>1. /\ jobs[j] = None /\ jobs'[j] = [status |-> "pending", row_count |-> None]
        /\ creating'[j]
        /\ \A k \in Jobs : k # j => jobs'[k] = jobs[k] /\ creating'[k] = creating[k]
        /\ UNCHANGED <<target, sent, ready, at, delivered>>
    BY <1>1, <1>f DEF CreateExport, queueVars
  <2>2. jobs'[j] # None
    BY <2>1, NoneAssumption DEF Rows
  <2>3. \A k \in Jobs : k # j =>
            StatusOf(k)' = StatusOf(k) /\ RequestOf(k)' = RequestOf(k) /\ (Produced(k)' <=> Produced(k))
    BY <2>1 DEF StatusOf, RequestOf, Produced, Inline
  <2>4. /\ StatusOf(j) = "none" /\ StatusOf(j)' = "pending" /\ RequestOf(j)' = "open"
        /\ ~Produced(j)'
    BY <2>1, <2>2 DEF StatusOf, RequestOf, Produced
  <2>5. [k \in Jobs |-> StatusOf(k)'] = [[k \in Jobs |-> StatusOf(k)] EXCEPT ![j] = "pending"]
    BY <2>3, <2>4
  <2>6. [k \in Jobs |-> RequestOf(k)'] = [requests EXCEPT ![j] = "open"]
    BY <2>3, <2>4
  <2>7. {k \in Jobs : jobs[k] # None /\ Produced(k)}' = {k \in Jobs : jobs[k] # None /\ Produced(k)}
    BY <2>1, <2>3, <2>4
  <2>8. \A t \in DOMAIN sent : InFlight(t)' <=> InFlight(t)
    BY <2>1 DEF InFlight
  <2> QED
    BY <1>0, <1>l, <2>1, <2>4, <2>5, <2>6, <2>7, <2>8
    DEF Service!Post, Service!taskVars, Service!letterVars
<1>2. ASSUME EndRequest(j), UNCHANGED jobs
      PROVE  /\ RequestOf(j) = "open"
             /\ \A k \in Jobs : StatusOf(k)' = StatusOf(k) /\ (Produced(k)' <=> Produced(k))
             /\ jobs[j] # None /\ ~creating'[j]
             /\ \A k \in Jobs : k # j => creating'[k] = creating[k]
             /\ \A x \in Executors : at[x] # "idle" /\ Inline(x) => target[x] # j
  <2>1. creating[j] /\ jobs[j] # None /\ ~creating'[j]
        /\ \A k \in Jobs : k # j => creating'[k] = creating[k]
    BY <1>2, <1>f DEF EndRequest, JobsOK
  <2>2. \A x \in Executors : at[x] # "idle" /\ Inline(x) => target[x] # j
    BY <2>1, InlineWorks DEF RequestsOver
  <2> QED  BY <1>2, <2>1, <2>2 DEF RequestOf, StatusOf, Produced
<1>3. ASSUME EndRequest(j), UNCHANGED <<jobs, at, delivered, target>>
      PROVE  Service!Proceed(j, "over") /\ UNCHANGED Service!jobVars
  <2>1. RequestOf(j)' = "over" /\ \A k \in Jobs : k # j => RequestOf(k)' = RequestOf(k)
    BY <1>2, <1>3 DEF RequestOf, Inline
  <2>2. [k \in Jobs |-> RequestOf(k)'] = [requests EXCEPT ![j] = "over"]
    BY <2>1
  <2> QED  BY <1>2, <1>3, <2>2 DEF Service!Proceed, Service!jobVars
<1>4. ASSUME DispatchExport(j)
      PROVE  Service!Dispatch(j)
  <2>1. EndRequest(j) /\ UNCHANGED <<jobs, at, delivered, target>> /\ Send(j, 0)
    BY <1>4 DEF DispatchExport
  <2>2. Service!Send(j, 0)
    BY <2>1, SentByService DEF deadLetterVars
  <2> QED  BY <1>3, <2>1, <2>2 DEF Service!Dispatch
<1>5. ASSUME CrashRequest(j)
      PROVE  Service!Begin(j)
  <2>1. EndRequest(j) /\ UNCHANGED <<jobs, at, delivered, target, sent, ready>>
    BY <1>5 DEF CrashRequest
  <2>2. \A t \in DOMAIN sent : InFlight(t)' <=> InFlight(t)
    BY <2>1 DEF InFlight
  <2> QED
    BY <1>0, <1>l, <1>3, <2>1, <2>2 DEF Service!Begin, Service!taskVars, Service!letterVars
<1>6. ASSUME NEW x \in Executors, GenerateInline(x, j)
      PROVE  Service!Begin(j)
  <2>1. /\ EndRequest(j) /\ UNCHANGED <<jobs, delivered, sent, ready>>
        /\ at[x] = "idle" /\ at'[x] = "start" /\ target'[x] = j
        /\ \A y \in Executors \ {x} : at'[y] = at[y] /\ target'[y] = target[y]
    BY <1>6, <1>f DEF GenerateInline, Go
  <2>2. Inline(x) /\ Inline(x)'
    BY <2>1 DEF MessagesOK, Inline
  <2>3. RequestOf(j)' = "inline"
    BY <1>2, <2>1, <2>2 DEF RequestOf
  <2>4. \A k \in Jobs : k # j => RequestOf(k)' = RequestOf(k)
    <3> SUFFICES ASSUME NEW k \in Jobs, k # j
                 PROVE  RequestOf(k)' = RequestOf(k)
      OBVIOUS
    <3>1. \A y \in Executors : (at[y] # "idle" /\ Inline(y) /\ target[y] = k)
                               <=> (at'[y] # "idle" /\ Inline(y)' /\ target'[y] = k)
      BY <2>1 DEF Inline
    <3> QED  BY <1>2, <2>1, <3>1 DEF RequestOf
  <2>5. [k \in Jobs |-> RequestOf(k)'] = [requests EXCEPT ![j] = "inline"]
    BY <2>3, <2>4
  <2>6. \A t \in DOMAIN sent : InFlight(t)' <=> InFlight(t)
    BY <2>1 DEF InFlight
  <2> QED
    BY <1>0, <1>2, <1>l, <2>1, <2>5, <2>6
    DEF Service!Begin, Service!Proceed, Service!jobVars, Service!taskVars, Service!letterVars
<1> QED  BY <1>1, <1>4, <1>5, <1>6

\* A session goes on, writes the row of its job, or ends.
LEMMA SessionSteps ==
    ASSUME IInv, RequestsOver, NEW x \in Executors, UNCHANGED deadLetterVars,
           GenerateStep(x) \/ WriteFails(x) \/ RefreshFails(x) \/ OtherError(x) \/ CrashInline(x)
    PROVE  (\E j \in Jobs : Service!Work(j)) \/ UNCHANGED Service!vars
<1> USE DEF IInv, TypeInv, TypeOK
<1>f. /\ at \in [Executors -> Places] /\ target \in [Executors -> Jobs \cup {None}]
      /\ jobs \in [Jobs -> Rows \cup {None}]
  BY DEF QueueTypeOK, ExportTypeOK
<1>d. UNCHANGED <<records, unrecorded>>
  BY DEF deadLetterVars
<1>1. CASE at[x] \in Working /\ (StartJob(x) \/ MarkFailed(x) \/ MarkCompleted(x) \/ RefreshFails(x))
  <2> PICK j \in Jobs : target[x] = j
    BY <1>1, <1>f DEF SessionsOK
  <2>1. jobs[j] \in Rows /\ object[x] \in Rows
        /\ (object[x].row_count # None => jobs[j].row_count # None)
    BY <1>1, <1>f DEF SessionsOK, ExportTypeOK
  <2>2. /\ UNCHANGED <<creating, sent, ready, delivered>>
        /\ \A y \in Executors \ {x} : at'[y] = at[y] /\ target'[y] = target[y]
    BY <1>1, <1>f
       DEF StartJob, MarkFailed, CommitCompleted, MarkCompleted, RefreshFails, Update, EndSession, Go
  <2>3. Inline(x) => at'[x] = "idle" \/ (at'[x] # "idle" /\ target'[x] = j)
    BY <1>1, <1>f
       DEF StartJob, MarkFailed, CommitCompleted, MarkCompleted, RefreshFails, EndSession, Go
  <2>4. \A k \in Jobs : k # j => jobs'[k] = jobs[k]
    BY <1>1, <1>f DEF StartJob, MarkFailed, CommitCompleted, MarkCompleted, RefreshFails, Update
  <2>5. CASE StartJob(x)
    <3>1. jobs'[j] = [c \in DOMAIN jobs[j] |->
                IF [object[x] EXCEPT !.status = "processing"][c] # object[x][c]
                THEN [object[x] EXCEPT !.status = "processing"][c] ELSE jobs[j][c]]
      BY <1>f, <2>5 DEF StartJob, Update
    <3>2. /\ jobs'[j] \in Rows /\ jobs'[j].row_count = jobs[j].row_count
          /\ jobs'[j].status = "processing" \/ jobs'[j] = jobs[j]
      BY <2>1, <3>1 DEF Rows
    <3> QED  BY <1>1, <1>d, <2>2, <2>3, <2>4, <3>2, WorkStep, NoneAssumption
  <2>6. CASE MarkFailed(x)
    <3>1. jobs'[j] = [jobs[j] EXCEPT !.status = "failed"]
      BY <1>f, <2>6 DEF MarkFailed
    <3>2. jobs'[j] \in Rows /\ jobs'[j].row_count = jobs[j].row_count /\ jobs'[j].status = "failed"
      BY <2>1, <3>1 DEF Rows
    <3> QED  BY <1>1, <1>d, <2>2, <2>3, <2>4, <3>2, WorkStep, NoneAssumption
  <2>7. CASE MarkCompleted(x) \/ RefreshFails(x)
    <3>1. rows[x] \in Nat
      BY ExportAssumption DEF ExportTypeOK
    <3>2. jobs'[j] = [status |-> "completed",
                      row_count |-> IF rows[x] # object[x].row_count THEN rows[x]
                                    ELSE jobs[j].row_count]
      BY <1>f, <2>7 DEF CommitCompleted, MarkCompleted, RefreshFails
    <3>3. jobs'[j] \in Rows /\ jobs'[j].row_count # None /\ jobs'[j].status = "completed"
      BY <2>1, <3>1, <3>2, NoneAssumption DEF Rows
    <3> QED  BY <1>1, <1>d, <2>2, <2>3, <2>4, <3>3, WorkStep, NoneAssumption
  <2> QED  BY <1>1, <2>5, <2>6, <2>7
<1>2. CASE GetJob(x)
  <2>1. ~Inline(x)
    BY <1>2 DEF GetJob, MessagesOK, Handling, Inline
  <2>2. \A y \in Executors \ {x} : at'[y] = at[y] /\ target'[y] = target[y]
    BY <1>2, <1>f DEF GetJob, Go
  <2> QED  BY <1>2, <1>d, <2>1, <2>2, QuietSession DEF GetJob
<1>3. CASE QueryEvents(x) \/ OpenFile(x) \/ WriteFile(x) \/ WriteFails(x)
  <2>1. /\ UNCHANGED <<jobs, creating, target, sent, ready, delivered>>
        /\ at[x] # "idle" /\ at'[x] # "idle"
        /\ \A y \in Executors \ {x} : at'[y] = at[y]
    BY <1>3, <1>f DEF QueryEvents, OpenFile, WriteFile, WriteFails, Go, exportVars
  <2> QED  BY <1>d, <2>1, QuietSession
<1>4. CASE OtherError(x) \/ CrashInline(x)
  <2>1. /\ UNCHANGED <<jobs, creating, sent, ready, delivered>>
        /\ \A y \in Executors \ {x} : at'[y] = at[y] /\ target'[y] = target[y]
        /\ at[x] # "idle" /\ (Inline(x) => at'[x] = "idle")
    BY <1>4, <1>f DEF OtherError, CrashInline, EndSession, Go
  <2>2. CASE Inline(x)
    <3>1. at[x] \in Working
      BY <2>1, <2>2, InlineWorks
    <3> PICK j \in Jobs : target[x] = j
      BY <3>1, <1>f DEF SessionsOK
    <3>2. jobs'[j] # None
      BY <2>1, <3>1 DEF SessionsOK
    <3> QED  BY <1>d, <2>1, <2>2, <3>1, <3>2, WorkStep
  <2>3. CASE ~Inline(x)
    BY <1>d, <2>1, <2>3, QuietSession
  <2> QED  BY <2>2, <2>3
<1> QED
  BY <1>1, <1>2, <1>3, <1>4
  DEF GenerateStep, StartJob, MarkFailed, CommitCompleted, MarkCompleted, RefreshFails, Working

\* A message that is no longer in flight is one whose task is explained.
LEMMA DropCloses ==
    ASSUME IInv, IInv', NEW x \in Executors, delivered[x] # None, Drop(x),
           ready' = ready \/ ready' = Requeued(x),
           UNCHANGED <<jobs, creating, sent, records, unrecorded>>,
           \A y \in Executors \ {x} : target'[y] = target[y]
    PROVE  (\E t \in DOMAIN sent : Service!Close(t)) \/ UNCHANGED Service!vars
<1> USE DEF IInv, TypeInv, TypeOK
<1>1. /\ at'[x] = "idle" /\ delivered'[x] = None
      /\ \A y \in Executors \ {x} : at'[y] = at[y] /\ delivered'[y] = delivered[y]
  BY DEF Drop, Go, QueueTypeOK
<1>2. PICK t \in DOMAIN sent : delivered[x].task = t
  BY DEF MessagesOK
<1>3. \/ BagToSet(ready') = BagToSet(ready)
      \/ BagToSet(ready') = BagToSet(ready) \cup {delivered[x]}
  BY RequeueFacts DEF MessagesOK
<1>4. InFlight(t) /\ \A s \in DOMAIN sent : s # t => (InFlight(s)' <=> InFlight(s))
  BY <1>1, <1>2, <1>3 DEF InFlight
<1>5. \A y \in Executors : /\ (at[y] # "idle" /\ Inline(y)) <=> (at'[y] # "idle" /\ Inline(y)')
                           /\ at[y] # "idle" /\ Inline(y) => target'[y] = target[y]
  BY <1>1 DEF Inline
<1>6. CASE InFlight(t)'
  BY <1>4, <1>5, <1>6, QuietStep
<1>7. CASE ~InFlight(t)'
  <2>1. {s \in DOMAIN sent : InFlight(s)}' = {s \in DOMAIN sent : InFlight(s)} \ {t}
    BY <1>4, <1>7
  <2>2. ~Active(t)'
    BY <1>7 DEF MessagesOK, InFlight, Active
  <2>3. Produced(sent[t].job) \/ t \in unrecorded \/ records[t] # None
    BY <2>2 DEF AllServed, Served, Produced
  <2>4. sent[t].job \in Jobs /\ t \in Tasks /\ jobs[sent[t].job] # None
    BY SentTasks DEF JobsOK
  <2>5. records[t] # None => t \in RecordsThatAre("pending") \cup RecordsThatAre("retried")
    BY <2>4 DEF RecordsThatAre, DeadLetterTypeOK, Records
  <2>6. /\ \A k \in Jobs : RequestOf(k)' = RequestOf(k) /\ StatusOf(k)' = StatusOf(k)
                           /\ (Produced(k)' <=> Produced(k))
        /\ \A status : RecordsThatAre(status)' = RecordsThatAre(status)
    BY <1>5 DEF RequestOf, StatusOf, Produced, RecordsThatAre
  <2>7. Service!Close(t)
    BY <1>4, <2>1, <2>3, <2>4, <2>5, <2>6
    DEF Service!Close, Service!Recorded, Service!jobVars, Service!letterVars
  <2> QED  BY <2>7
<1> QED  BY <1>6, <1>7

\* What Celery does with a message.
LEMMA QueueSteps ==
    ASSUME IInv, IInv', NEW x \in Executors, UNCHANGED deadLetterVars,
           \/ Deliver(x) \/ PublishRetry(x) \/ ExhaustRetries(x) \/ Ack(x) \/ VisibilityTimeout(x),
           UNCHANGED exportVars
    PROVE  (\E t \in DOMAIN sent : Service!Close(t)) \/ UNCHANGED Service!vars
<1> USE DEF IInv, TypeInv, TypeOK
<1>f. /\ at \in [Executors -> Places] /\ delivered \in [Executors -> Messages \cup {None}]
      /\ IsABag(ready) /\ BagToSet(ready) \subseteq Messages
  BY DEF QueueTypeOK
<1>d. UNCHANGED <<jobs, creating, target, records, unrecorded>>
  BY DEF deadLetterVars, exportVars
<1>1. CASE Deliver(x)
  <2> PICK m \in BagToSet(ready) :
        ready' = ready (-) SetToBag({m}) /\ delivered' = [delivered EXCEPT ![x] = m]
    BY <1>1 DEF Deliver
  <2>1. /\ m # None /\ delivered[x] = None /\ delivered'[x] = m /\ at[x] = "idle"
        /\ \A y \in Executors \ {x} : at'[y] = at[y] /\ delivered'[y] = delivered[y]
    BY <1>1, <1>f, NoneAssumption DEF Deliver, Go, MessagesOK
  <2>2. /\ BagToSet(ready') \subseteq BagToSet(ready)
        /\ BagToSet(ready) \ {m} \subseteq BagToSet(ready')
    BY <1>f, BagRemove
  <2>3. \A t \in DOMAIN sent : InFlight(t)' <=> InFlight(t)
    BY <2>1, <2>2 DEF InFlight
  <2>4. UNCHANGED sent
    BY <1>1 DEF Deliver
  <2> QED  BY <1>d, <2>1, <2>3, <2>4, QuietStep DEF Inline
<1>2. CASE PublishRetry(x)
  <2>1. delivered[x] # None /\ UNCHANGED <<sent, delivered>>
    BY <1>2 DEF PublishRetry, MessagesOK, Handling
  <2> DEFINE m == [task |-> delivered[x].task, retries |-> delivered[x].retries + 1]
  <2>2. m.task = delivered[x].task
    OBVIOUS
  <2> HIDE DEF m
  <2>3. BagToSet(ready') = BagToSet(ready) \cup {m}
    <3>1. ready' = ready (+) SetToBag({m})
      BY <1>2 DEF PublishRetry, Message, m
    <3> QED  BY <1>f, <3>1, BagAdd, Zenon
  <2>4. \A t \in DOMAIN sent : InFlight(t)' <=> InFlight(t)
    BY <2>1, <2>2, <2>3 DEF InFlight
  <2>5. \A y \in Executors : Inline(y) => at'[y] = at[y]
    BY <1>2, <1>f, <2>1 DEF PublishRetry, Go, Inline
  <2> QED  BY <1>d, <2>1, <2>4, <2>5, QuietStep DEF Inline
<1>3. CASE ExhaustRetries(x)
  <2>1. delivered[x] # None /\ UNCHANGED <<sent, ready, delivered>>
    BY <1>3 DEF ExhaustRetries, MessagesOK, Handling
  <2>2. \A y \in Executors : Inline(y) => at'[y] = at[y]
    BY <1>3, <1>f, <2>1 DEF ExhaustRetries, Go, Inline
  <2> QED  BY <1>d, <2>1, <2>2, QuietSession
<1>4. CASE Ack(x)
  <2>1. delivered[x] # None /\ Drop(x) /\ UNCHANGED <<sent, ready>>
    BY <1>4 DEF Ack, MessagesOK, Handling
  <2> QED  BY <1>d, <2>1, DropCloses
<1>5. CASE VisibilityTimeout(x)
  <2>1. delivered[x] # None /\ UNCHANGED <<sent, at, delivered>>
    BY <1>5 DEF VisibilityTimeout, MessagesOK
  <2>2. BagToSet(ready') = BagToSet(ready) \cup {delivered[x]}
    BY <1>5, <2>1, RequeueFacts DEF VisibilityTimeout
  <2>3. \A t \in DOMAIN sent : InFlight(t)' <=> InFlight(t)
    BY <2>1, <2>2 DEF InFlight
  <2> QED  BY <1>d, <2>1, <2>3, QuietStep DEF Inline
<1> QED  BY <1>1, <1>2, <1>3, <1>4, <1>5

\* The failure of a task is recorded, or the attempt fails.
LEMMA RecordSteps ==
    ASSUME IInv, NEW x \in Executors, UNCHANGED exportVars,
           ReadRecord(x) \/ WriteRecord(x) \/ RecordLost(x)
    PROVE  (\E t \in DOMAIN sent : Service!Fail(t)) \/ UNCHANGED Service!vars
<1> USE DEF IInv, TypeInv, TypeOK
<1>1. /\ delivered[x] # None /\ delivered[x].task \in DOMAIN sent
      /\ at[x] \in {"record", "persist"} /\ at'[x] \in {"persist", "ack"}
      /\ UNCHANGED <<sent, ready, delivered, jobs, creating, target>>
      /\ \A y \in Executors \ {x} : at'[y] = at[y]
  BY DEF ReadRecord, WriteRecord, RecordLost, Go, MessagesOK, Handling, QueueTypeOK, exportVars
<1>2. PICK t \in DOMAIN sent : delivered[x].task = t
  BY <1>1
<1>3. t \in Tasks /\ InFlight(t)
  BY <1>1, <1>2, SentTasks DEF InFlight
<1>4. UNCHANGED <<Service!jobVars, [j \in Jobs |-> RequestOf(j)], Service!taskVars>>
  BY <1>1, JobsStay DEF InFlight, Inline
<1>5. CASE ReadRecord(x)
  BY <1>1, <1>5, QuietSession DEF ReadRecord, Inline
<1>6. CASE WriteRecord(x)
  <2>1. /\ records \in [Tasks -> Records \cup {None}] /\ None \notin Records
        /\ unrecorded' = unrecorded
    BY <1>6, NoneAssumption DEF DeadLetterTypeOK, WriteRecord
  <2>2. \A s \in Tasks : s # t => records'[s] = records[s]
    BY <1>2, <1>6, <2>1 DEF WriteRecord
  <2>3. /\ records'[t] # None
        /\ \/ records'[t].status = "pending"
           \/ records[t] # None /\ records'[t].status = records[t].status
    <3>1. found[x] # None => records[t] # None
      BY <1>2 DEF FoundOK
    <3>2. records'[t] = IF found[x] # None THEN Refreshed(records[t], found[x])
                        ELSE IF records[t] = None THEN [status |-> "pending", attempts |-> 1]
                        ELSE records[t]
      BY <1>2, <1>3, <1>6, <2>1 DEF WriteRecord
    <3>3. found[x] # None => found[x].attempts \in Nat
      BY DEF DeadLetterTypeOK, Records
    <3>4. records'[t] \in Records
      BY <1>3, <2>1, <3>1, <3>2, <3>3 DEF Refreshed, Records
    <3> QED  BY <2>1, <3>1, <3>2, <3>4 DEF Refreshed
  <2>4. CASE records'[t].status = "pending"
    <3>1. /\ RecordsThatAre("pending")' = RecordsThatAre("pending") \cup {t}
          /\ RecordsThatAre("retried")' = RecordsThatAre("retried") \ {t}
      BY <1>3, <2>2, <2>3, <2>4 DEF RecordsThatAre
    <3>2. Service!Fail(t)
      BY <1>3, <1>4, <2>1, <3>1 DEF Service!Fail
    <3> QED  BY <3>2
  <2>5. CASE records[t] # None /\ records'[t].status = records[t].status
    <3>1. \A status : RecordsThatAre(status)' = RecordsThatAre(status)
      BY <1>3, <2>2, <2>3, <2>5 DEF RecordsThatAre
    <3> QED  BY <1>4, <2>1, <3>1 DEF Service!vars, Service!letterVars
  <2> QED  BY <2>3, <2>4, <2>5
<1>7. CASE RecordLost(x)
  <2>1. unrecorded' = unrecorded \cup {t} /\ UNCHANGED records
    BY <1>2, <1>7 DEF RecordLost
  <2>2. \A status : RecordsThatAre(status)' = RecordsThatAre(status)
    BY <2>1 DEF RecordsThatAre
  <2>3. Service!Fail(t)
    BY <1>3, <1>4, <2>1, <2>2 DEF Service!Fail
  <2> QED  BY <2>3
<1> QED  BY <1>5, <1>6, <1>7

\* An administrator replays a task that has a record, and marks the record
\* when the replacement has been sent.
LEMMA ReplaySteps ==
    ASSUME IInv, NEW u \in Admins, UNCHANGED exportVars,
           (\E t \in Tasks : LoadRecord(u, t)) \/ SendReplacement(u) \/ MarkRetried(u)
              \/ AbandonReplay(u)
    PROVE  (\E t \in DOMAIN sent : Service!Replay(t) \/ Service!Mark(t))
              \/ UNCHANGED Service!vars
<1> USE DEF IInv, TypeInv, TypeOK
<1>e. UNCHANGED <<jobs, creating, target>>
  BY DEF exportVars
<1>1. CASE (\E t \in Tasks : LoadRecord(u, t)) \/ AbandonReplay(u)
  <2>1. UNCHANGED <<sent, ready, at, delivered, records, unrecorded>>
    BY <1>1 DEF LoadRecord, AbandonReplay, queueVars
  <2> QED  BY <1>e, <2>1, QuietSession DEF Inline
<1>2. ASSUME replay[u] # None
      PROVE  /\ replay[u].task \in DOMAIN sent /\ replay[u].task \in Tasks
             /\ records[replay[u].task] \in Records
  BY <1>2, SentTasks DEF RecordsOK, DeadLetterTypeOK
<1>3. CASE SendReplacement(u)
  <2>1. PICK t \in DOMAIN sent : replay[u].task = t
    BY <1>2, <1>3 DEF SendReplacement
  <2>2. /\ t \in Tasks /\ t \in Nat /\ records[t] \in Records /\ records[t] # None
        /\ sent[t].job \in Jobs
    BY <1>2, <1>3, <2>1, SentTasks, NoneAssumption DEF SendReplacement, Tasks
  <2>3. Send(sent[t].job, t) /\ UNCHANGED <<at, delivered, records, unrecorded>>
    BY <1>3, <2>1 DEF SendReplacement
  <2>4. Service!Send(sent[t].job, t)
    <3> PICK j \in Jobs : j = sent[t].job
      BY <2>2
    <3>1. Service!Send(j, t)
      BY <1>e, <2>2, <2>3, SentByService
    <3> QED  BY <3>1
  <2>5. Service!Recorded(t)
    BY <2>2 DEF Service!Recorded, RecordsThatAre, Records
  <2>6. \A j \in Jobs : RequestOf(j)' = RequestOf(j)
    BY <1>e, <2>3 DEF RequestOf, Inline
  <2> QED  BY <2>4, <2>5, <2>6 DEF Service!Replay
<1>4. CASE MarkRetried(u)
  <2>1. PICK t \in DOMAIN sent : replay[u].task = t
    BY <1>2, <1>4 DEF MarkRetried
  <2>2. t \in Tasks /\ records[t] \in Records /\ records[t] # None /\ Replaced(t)
    BY <1>2, <1>4, <2>1, NoneAssumption DEF MarkRetried, MarkLast, Replacements
  <2>3. /\ records'[t] = [records[t] EXCEPT !.status = "retried"]
        /\ \A s \in Tasks : s # t => records'[s] = records[s]
        /\ UNCHANGED <<sent, ready, at, delivered, unrecorded>>
    BY <1>4, <2>1, <2>2 DEF MarkRetried, queueVars, DeadLetterTypeOK
  <2>4. records'[t] # None /\ records'[t].status = "retried"
    BY <2>2, <2>3, NoneAssumption DEF Records
  <2>5. UNCHANGED <<Service!jobVars, [j \in Jobs |-> RequestOf(j)], Service!taskVars>>
    BY <1>e, <2>3, JobsStay DEF InFlight, Inline
  <2>6. CASE records[t].status = "retried"
    <3>1. \A status : RecordsThatAre(status)' = RecordsThatAre(status)
      BY <2>2, <2>3, <2>4, <2>6 DEF RecordsThatAre
    <3> QED  BY <2>3, <2>5, <3>1 DEF Service!vars, Service!letterVars
  <2>7. CASE records[t].status = "pending"
    <3>1. /\ RecordsThatAre("pending")' = RecordsThatAre("pending") \ {t}
          /\ RecordsThatAre("retried")' = RecordsThatAre("retried") \cup {t}
      BY <2>2, <2>3, <2>4, <2>7 DEF RecordsThatAre
    <3>2. t \in RecordsThatAre("pending")
      BY <2>2, <2>7 DEF RecordsThatAre
    <3>3. \E s \in DOMAIN sent : sent[s].replays = t /\ sent[s].job = sent[t].job
      BY <2>2 DEF Replaced
    <3>4. Service!Mark(t)
      BY <2>3, <2>5, <3>1, <3>2, <3>3 DEF Service!Mark
    <3> QED  BY <3>4
  <2> QED  BY <2>2, <2>6, <2>7 DEF Records
<1> QED  BY <1>1, <1>3, <1>4

LEMMA ServiceStep ==
    ASSUME IInv, IInv', RequestsOver, [Next]_vars
    PROVE  [Service!Next]_(Service!vars)
<1>1. CASE \E j \in Jobs :
              \/ RequestExport(j) \/ Dispatch(j)
              \/ CrashRequest(j) /\ UNCHANGED deadLetterVars
              \/ \E x \in Executors : InlineExport(x, j)
  BY <1>1, RequestSteps DEF RequestExport, Dispatch, InlineExport, Service!Next
<1>2. CASE \E x \in Executors :
              \/ Generate(x)
              \/ /\ WriteFails(x) \/ RefreshFails(x) \/ OtherError(x) \/ CrashInline(x)
                 /\ UNCHANGED deadLetterVars
  BY <1>2, SessionSteps DEF Generate, Service!Next
<1>3. CASE \E x \in Executors :
              \/ TakeMessage(x) \/ Conclude(x)
              \/ VisibilityTimeout(x) /\ UNCHANGED <<exportVars, deadLetterVars>>
  BY <1>3, QueueSteps DEF TakeMessage, Conclude, Service!Next
<1>4. CASE \E x \in Executors : Record(x) \/ (RecordLost(x) /\ UNCHANGED exportVars)
  BY <1>4, RecordSteps DEF Record, Service!Next
<1>5. CASE \E x \in Executors : LoseWorker(x)
  <2>1. PICK x \in Executors : LoseWorker(x)
    BY <1>5
  <2>2. /\ delivered[x] # None /\ Drop(x) /\ ready' = Requeued(x)
        /\ UNCHANGED <<jobs, creating, sent, records, unrecorded>>
        /\ \A y \in Executors \ {x} : target'[y] = target[y]
    BY <2>1 DEF LoseWorker, WorkerLost, EndSession, IInv, TypeInv, TypeOK, ExportTypeOK
  <2> QED  BY <2>2, DropCloses DEF Service!Next
<1>6. CASE \E u \in Admins : Replay(u) \/ (AbandonReplay(u) /\ UNCHANGED exportVars)
  BY <1>6, ReplaySteps DEF Replay, Service!Next
<1>7. CASE UNCHANGED vars
  BY <1>7, QuietSession DEF vars, queueVars, exportVars, deadLetterVars, Inline
<1> QED
  BY <1>1, <1>2, <1>3, <1>4, <1>5, <1>6, <1>7 DEF Next, Misfortune

\* Whatever is delivered twice, retried, requeued, replayed or lost, exports
\* are an at-least-once service that explains every task it gives up: with
\* late acknowledgement (celery_app.py) a task leaves the queue only when
\* generate_export has set row_count or persist_terminal_failure has come to
\* its end, and the row of a job is written by its own executions only.
THEOREM ExportsImplemented == Spec => ImplementsExportService
<1>1. ASSUME Init
      PROVE  Service!Init /\ RequestsOver
  <2>1. /\ \A j \in Jobs : jobs[j] = None
        /\ \A x \in Executors : at[x] = "idle"
        /\ \A t \in Tasks : records[t] = None
        /\ sent = << >> /\ unrecorded = {}
    BY <1>1 DEF Init, QueueInit, ExportInit, DeadLetterInit
  <2>2. \A status : RecordsThatAre(status) = {}
    BY <2>1 DEF RecordsThatAre
  <2>3. \A j \in Jobs : StatusOf(j) = "none" /\ RequestOf(j) = "none"
    BY <2>1 DEF StatusOf, RequestOf
  <2>4. {t \in DOMAIN sent : InFlight(t)} = {}
    BY <2>1
  <2>5. RequestsOver
    BY <2>1 DEF RequestsOver, Working
  <2> QED  BY <2>1, <2>2, <2>3, <2>4, <2>5 DEF Service!Init
<1>2. IInv /\ RequestsOver /\ [Next]_vars => RequestsOver'
  BY OverStep
<1>3. IInv /\ IInv' /\ RequestsOver /\ [Next]_vars => [Service!Next]_(Service!vars)
  BY ServiceStep
<1> QED
  BY <1>1, <1>2, <1>3, Invariance, PTL
  DEF Spec, ImplementsExportService, Service!Spec

=============================================================================
