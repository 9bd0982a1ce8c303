-------------------------- MODULE AnalysisPipeline --------------------------
(***************************************************************************)
(* Analysis jobs from the HTTP request to the committed report.            *)
(*                                                                         *)
(* The backend inserts the job row, publishes a Celery message and commits *)
(* when the request ends.  A worker slot takes the message, marks the job  *)
(* RUNNING, runs the pipeline steps over the artifacts of the capture      *)
(* session and commits result, report, recommendation and COMPLETED in one *)
(* transaction.  The message is acknowledged after the task (acks_late),   *)
(* so that a crash delivers it again.                                      *)
(*                                                                         *)
(* The rows of status, errorMessage, result and report are the committed   *)
(* ones: what a slot inserted and has not committed is in source[w] while  *)
(* pc[w] = "finish".                                                       *)
(***************************************************************************)
EXTENDS Naturals

CONSTANTS
    Jobs,               \* the job rows that requests try to create
    Sessions,           \* capture sessions
    SessionOf,          \* the capture session each job analyses
    Slots,              \* task slots of the worker container
    PlainSteps,         \* pipeline steps before particle_volumes (5)
    Faults,             \* the kinds of fault the environment shows
    FaultBudget,        \* bound: number of faults in a behaviour
    StatusWrapperBinds, \* the ORM accepts a _JobStatus object as a status
    NoJob,              \* "no row", "no artifact", "no task"
    Synthetic           \* the fallback particle list of granulometry

FaultKinds ==
    {"request_abort", "s3_error", "container_crash", "child_lost", "redelivery"}

ASSUME ConstantsAssumption ==
    /\ SessionOf \in [Jobs -> Sessions]
    /\ PlainSteps \in Nat
    /\ Faults \subseteq FaultKinds
    /\ FaultBudget \in Nat
    /\ StatusWrapperBinds \in BOOLEAN
    /\ NoJob \notin Jobs
    /\ Synthetic \notin Jobs
    /\ Synthetic # NoJob

VARIABLES
    request,      \* the HTTP request that creates job j
    message,      \* the broker's message for job j
    status,       \* analysis_job.status, "absent" while there is no row
    errorMessage, \* analysis_job.error_message is set
    result,       \* whose particles analysis_result was computed from
    report,       \* the report row, as the status of its recommendation
    artifacts,    \* the job that last wrote the object of a session's step
    pc,           \* where the task of a slot is
    task,         \* the job of the slot's task
    loaded,       \* the status the slot's session read
    step,         \* the slot's pipeline step
    owns,         \* acknowledging the slot's delivery reaches the broker
    source,       \* the particle list the slot computed its result from
    faults        \* faults so far

dbVars == <<status, errorMessage, result, report>>
slotVars == <<pc, task, loaded, step, owns, source>>
vars == <<request, message, dbVars, artifacts, slotVars, faults>>

ParticleStep == PlainSteps + 1
GranulometryStep == PlainSteps + 2
StepNumbers == 1..GranulometryStep

-----------------------------------------------------------------------------
Init ==
    /\ request = [j \in Jobs |-> "none"]
    /\ message = [j \in Jobs |-> "unpublished"]
    /\ status = [j \in Jobs |-> "absent"]
    /\ errorMessage = [j \in Jobs |-> FALSE]
    /\ result = [j \in Jobs |-> NoJob]
    /\ report = [j \in Jobs |-> "none"]
    /\ artifacts = [s \in Sessions |-> [k \in StepNumbers |-> NoJob]]
    /\ pc = [w \in Slots |-> "idle"]
    /\ task = [w \in Slots |-> NoJob]
    /\ loaded = [w \in Slots |-> "absent"]
    /\ step = [w \in Slots |-> 0]
    /\ owns = [w \in Slots |-> FALSE]
    /\ source = [w \in Slots |-> NoJob]
    /\ faults = 0

Fault(kind) ==
    /\ kind \in Faults
    /\ faults < FaultBudget
    /\ faults' = faults + 1

-----------------------------------------------------------------------------
(* The backend's request. *)

\* enqueue_job: the row is flushed, so only its own transaction sees it, and
\* the message is published before the transaction commits.
EnqueueJob(j) ==
    /\ request[j] = "none"
    /\ request' = [request EXCEPT ![j] = "open"]
    /\ message' = [message EXCEPT ![j] = "ready"]
    /\ UNCHANGED <<dbVars, artifacts, slotVars, faults>>

\* get_db commits after the handler has returned.
CommitRequest(j) ==
    /\ request[j] = "open"
    /\ request' = [request EXCEPT ![j] = "committed"]
    /\ status' = [status EXCEPT ![j] = "queued"]
    /\ UNCHANGED <<message, errorMessage, result, report, artifacts, slotVars,
                   faults>>

\* The commit fails or the process dies first: no row, the message stays.
AbortRequest(j) ==
    /\ request[j] = "open"
    /\ Fault("request_abort")
    /\ request' = [request EXCEPT ![j] = "aborted"]
    /\ UNCHANGED <<message, dbVars, artifacts, slotVars>>

-----------------------------------------------------------------------------
(* A task in a worker slot. *)

Goto(w, label) == pc' = [pc EXCEPT ![w] = label]

\* The slots of S end their tasks; nothing uncommitted survives.
Release(S) ==
    /\ pc' = [w \in Slots |-> IF w \in S THEN "idle" ELSE pc[w]]
    /\ task' = [w \in Slots |-> IF w \in S THEN NoJob ELSE task[w]]
    /\ loaded' = [w \in Slots |-> IF w \in S THEN "absent" ELSE loaded[w]]
    /\ step' = [w \in Slots |-> IF w \in S THEN 0 ELSE step[w]]
    /\ owns' = [w \in Slots |-> IF w \in S THEN FALSE ELSE owns[w]]
    /\ source' = [w \in Slots |-> IF w \in S THEN NoJob ELSE source[w]]

\* Mutant of Receive: the message is read and not reserved.
ReceiveKeepingMessage(w, j) ==
    /\ pc[w] = "idle"
    /\ message[j] = "ready"
    /\ Goto(w, "load")
    /\ task' = [task EXCEPT ![w] = j]
    /\ owns' = [owns EXCEPT ![w] = TRUE]
    /\ UNCHANGED <<request, message, dbVars, artifacts, loaded, step, source,
                   faults>>

\* Mutant of Receive: acknowledged on receipt (task_acks_late off).
ReceiveAcksEarly(w, j) ==
    /\ pc[w] = "idle"
    /\ message[j] = "ready"
    /\ message' = [message EXCEPT ![j] = "acked"]
    /\ Goto(w, "load")
    /\ task' = [task EXCEPT ![w] = j]
    /\ UNCHANGED <<request, dbVars, artifacts, loaded, step, owns, source,
                   faults>>

Receive(w, j) ==
    /\ pc[w] = "idle"
    /\ message[j] = "ready"
    /\ message' = [message EXCEPT ![j] = "unacked"]
    /\ Goto(w, "load")
    /\ task' = [task EXCEPT ![w] = j]
    /\ owns' = [owns EXCEPT ![w] = TRUE]
    /\ UNCHANGED <<request, dbVars, artifacts, loaded, step, source, faults>>

\* Mutant of ReturnEarly: a missing row is not handled.
ReturnWhenCompleted(w) ==
    /\ pc[w] = "load"
    /\ status[task[w]] = "completed"
    /\ Goto(w, "ack")
    /\ UNCHANGED <<request, message, dbVars, artifacts, task, loaded, step,
                   owns, source, faults>>

\* No row, or a completed one: the task returns.
ReturnEarly(w) ==
    /\ pc[w] = "load"
    /\ status[task[w]] \in {"absent", "completed"}
    /\ Goto(w, "ack")
    /\ UNCHANGED <<request, message, dbVars, artifacts, task, loaded, step,
                   owns, source, faults>>

\* Mutant of LoadJob: no early return for a completed job.
LoadAnyJob(w) ==
    /\ pc[w] = "load"
    /\ status[task[w]] # "absent"
    /\ Goto(w, "mark")
    /\ loaded' = [loaded EXCEPT ![w] = status[task[w]]]
    /\ UNCHANGED <<request, message, dbVars, artifacts, task, step, owns,
                   source, faults>>

LoadJob(w) ==
    /\ pc[w] = "load"
    /\ status[task[w]] \notin {"absent", "completed"}
    /\ Goto(w, "mark")
    /\ loaded' = [loaded EXCEPT ![w] = status[task[w]]]
    /\ UNCHANGED <<request, message, dbVars, artifacts, task, step, owns,
                   source, faults>>

\* Mutant of MarkRunning: the steps are counted from zero.
MarkRunningAtZero(w) ==
    /\ pc[w] = "mark"
    /\ status' = [status EXCEPT ![task[w]] = "running"]
    /\ Goto(w, "step")
    /\ UNCHANGED <<request, message, errorMessage, result, report, artifacts,
                   task, loaded, step, owns, source, faults>>

\* The UPDATE names the status column only when the new value differs from the
\* loaded one.  A value the ORM cannot bind raises outside the try block: the
\* task ends and the row keeps its status.
MarkRunning(w) ==
    LET written == loaded[w] # "running"
        raises == written /\ ~StatusWrapperBinds
    IN  /\ pc[w] = "mark"
        /\ status' = IF written /\ ~raises
                       THEN [status EXCEPT ![task[w]] = "running"]
                       ELSE status
        /\ Goto(w, IF raises THEN "ack" ELSE "step")
        /\ step' = [step EXCEPT ![w] = IF raises THEN 0 ELSE 1]
        /\ UNCHANGED <<request, message, errorMessage, result, report,
                       artifacts, task, loaded, owns, source, faults>>

\* The step's object under the session's key now holds this job's data.
WriteArtifact(w) ==
    artifacts' = [artifacts EXCEPT ![SessionOf[task[w]]][step[w]] = task[w]]

\* A step that reads nothing of the pipeline; particle_volumes is the last.
RunStep(w) ==
    /\ pc[w] = "step"
    /\ step[w] # GranulometryStep
    /\ WriteArtifact(w)
    /\ step' = [step EXCEPT ![w] = @ + 1]
    /\ UNCHANGED <<request, message, dbVars, pc, task, loaded, owns, source,
                   faults>>

\* What granulometry can get for the particle list of session s: any error of
\* the read is answered by synthetic data.
ReadParticles(s) ==
    LET stored == artifacts[s][ParticleStep]
    IN  {IF stored = NoJob THEN Synthetic ELSE stored}
          \cup (IF "s3_error" \in Faults THEN {Synthetic} ELSE {})

Granulometry(w) ==
    /\ pc[w] = "step"
    /\ step[w] = GranulometryStep
    /\ \E p \in ReadParticles(SessionOf[task[w]]) :
         source' = [source EXCEPT ![w] = p]
    /\ WriteArtifact(w)
    /\ Goto(w, "insert")
    /\ UNCHANGED <<request, message, dbVars, task, loaded, step, owns, faults>>

\* Mutant of InsertResult: analysis_result.job_id is not unique.
InsertWithoutUnique(w) ==
    /\ pc[w] = "insert"
    /\ Goto(w, "finish")
    /\ UNCHANGED <<request, message, dbVars, artifacts, task, loaded, step,
                   owns, source, faults>>

\* INSERT INTO analysis_result waits while another transaction has inserted
\* the same job_id, and fails when a row with it is committed.  The handler's
\* own commit then fails too, in the session the flush has invalidated: the
\* task raises and the row is left as it is.
InsertResult(w) ==
    /\ pc[w] = "insert"
    /\ \A v \in Slots : pc[v] = "finish" => task[v] # task[w]
    /\ Goto(w, IF result[task[w]] = NoJob THEN "finish" ELSE "ack")
    /\ UNCHANGED <<request, message, dbVars, artifacts, task, loaded, step,
                   owns, source, faults>>

\* Mutant of Finish: report and recommendation are left to a later commit.
FinishWithoutReport(w) ==
    /\ pc[w] = "finish"
    /\ status' = [status EXCEPT ![task[w]] = "completed"]
    /\ result' = [result EXCEPT ![task[w]] = source[w]]
    /\ Goto(w, "ack")
    /\ UNCHANGED <<request, message, errorMessage, report, artifacts, task,
                   loaded, step, owns, source, faults>>

\* The report of a job and its recommendation.  The result row was flushed by
\* this transaction and the session row is referred to by the job, so neither
\* early return of _create_report_and_recommendation can happen here.
PublishReport(j) ==
    report' = [report EXCEPT ![j] = "requires_human_review"]

\* COMPLETED, the result, its report and the recommendation become visible in
\* one commit.  error_message of an earlier attempt is not cleared.
Finish(w) ==
    /\ pc[w] = "finish"
    /\ status' = [status EXCEPT ![task[w]] = "completed"]
    /\ result' = [result EXCEPT ![task[w]] = source[w]]
    /\ PublishReport(task[w])
    /\ Goto(w, "ack")
    /\ UNCHANGED <<request, message, errorMessage, artifacts, task, loaded,
                   step, owns, source, faults>>

\* Mutant of StepRaises: the handler does not commit.
StepRaisesUnrecorded(w) ==
    /\ pc[w] = "step"
    /\ Fault("s3_error")
    /\ WriteArtifact(w) \/ UNCHANGED artifacts
    /\ Goto(w, "ack")
    /\ UNCHANGED <<request, message, dbVars, task, loaded, step, owns, source>>

\* An S3 error leaves the step, before or after its object was written; the
\* handler commits FAILED.
StepRaises(w) ==
    /\ pc[w] = "step"
    /\ Fault("s3_error")
    /\ WriteArtifact(w) \/ UNCHANGED artifacts
    /\ status' = [status EXCEPT ![task[w]] = "failed"]
    /\ errorMessage' = [errorMessage EXCEPT ![task[w]] = TRUE]
    /\ Goto(w, "ack")
    /\ UNCHANGED <<request, message, result, report, task, loaded, step, owns,
                   source>>

\* The task returned or raised: either way its delivery is acknowledged.
Ack(w) ==
    /\ pc[w] = "ack"
    /\ message' = IF owns[w] THEN [message EXCEPT ![task[w]] = "acked"]
                             ELSE message
    /\ Release({w})
    /\ UNCHANGED <<request, dbVars, artifacts, faults>>

-----------------------------------------------------------------------------
(* Faults of the worker. *)

\* The container dies: open transactions roll back, unacknowledged messages
\* return to the queue after the visibility timeout.
ContainerCrash ==
    /\ \E w \in Slots : pc[w] # "idle"
    /\ Fault("container_crash")
    /\ message' = [j \in Jobs |->
                     IF \E w \in Slots : owns[w] /\ task[w] = j
                       THEN "ready" ELSE message[j]]
    /\ Release(Slots)
    /\ UNCHANGED <<request, dbVars, artifacts>>

\* One child process is killed: the parent acknowledges the lost task
\* (task_reject_on_worker_lost keeps its default).
ChildLost(w) ==
    /\ pc[w] # "idle"
    /\ Fault("child_lost")
    /\ message' = IF owns[w] THEN [message EXCEPT ![task[w]] = "acked"]
                             ELSE message
    /\ Release({w})
    /\ UNCHANGED <<request, dbVars, artifacts>>

\* The broker connection is lost or the visibility timeout passes: the
\* message is queued again while the task goes on.
Redeliver(w) ==
    /\ owns[w]
    /\ Fault("redelivery")
    /\ message' = [message EXCEPT ![task[w]] = "ready"]
    /\ owns' = [owns EXCEPT ![w] = FALSE]
    /\ UNCHANGED <<request, dbVars, artifacts, pc, task, loaded, step, source>>

-----------------------------------------------------------------------------
\* Every request has ended and every message is processed.
Quiescent ==
    /\ \A j \in Jobs : /\ request[j] \in {"committed", "aborted"}
                       /\ message[j] = "acked"
    /\ \A w \in Slots : pc[w] = "idle"
    /\ UNCHANGED vars

TaskStep(w) ==
    \/ ReturnEarly(w)
    \/ LoadJob(w)
    \/ MarkRunning(w)
    \/ RunStep(w)
    \/ Granulometry(w)
    \/ InsertResult(w)
    \/ Finish(w)
    \/ Ack(w)

Next ==
    \/ \E j \in Jobs : EnqueueJob(j) \/ CommitRequest(j) \/ AbortRequest(j)
    \/ \E w \in Slots, j \in Jobs : Receive(w, j)
    \/ \E w \in Slots :
         TaskStep(w) \/ StepRaises(w) \/ ChildLost(w) \/ Redeliver(w)
    \/ ContainerCrash
    \/ Quiescent

Spec == Init /\ [][Next]_vars

\* A running worker consumes its queue and an unblocked task goes on; requests
\* end.  Nothing makes a client send one, and no fault is ever obliged.
Fairness ==
    /\ \A j \in Jobs : /\ WF_vars(CommitRequest(j))
                       /\ WF_vars(\E w \in Slots : Receive(w, j))
    /\ \A w \in Slots : WF_vars(TaskStep(w))

FairSpec == Spec /\ Fairness

-----------------------------------------------------------------------------
(* Properties. *)

TypeOK ==
    /\ request \in [Jobs -> {"none", "open", "committed", "aborted"}]
    /\ message \in [Jobs -> {"unpublished", "ready", "unacked", "acked"}]
    /\ status \in
         [Jobs -> {"absent", "queued", "running", "completed", "failed"}]
    /\ errorMessage \in [Jobs -> BOOLEAN]
    /\ result \in [Jobs -> Jobs \cup {NoJob, Synthetic}]
    /\ report \in [Jobs -> {"none", "requires_human_review"}]
    /\ artifacts \in [Sessions -> [StepNumbers -> Jobs \cup {NoJob}]]
    /\ pc \in
         [Slots -> {"idle", "load", "mark", "step", "insert", "finish", "ack"}]
    /\ task \in [Slots -> Jobs \cup {NoJob}]
    /\ \A w \in Slots : pc[w] # "idle" => task[w] \in Jobs
    /\ loaded \in [Slots -> {"absent", "queued", "running", "failed"}]
    /\ step \in [Slots -> 0..GranulometryStep]
    /\ \A w \in Slots : pc[w] = "step" => step[w] # 0
    /\ owns \in [Slots -> BOOLEAN]
    /\ source \in [Slots -> Jobs \cup {NoJob, Synthetic}]
    /\ \A w \in Slots : pc[w] \in {"insert", "finish"} => source[w] # NoJob
    /\ faults \in Nat

\* A client that sees COMPLETED finds the report, and a result never shows
\* without the report and the recommendation made from it, however often the
\* job was delivered and executed at the same time.
CompletedHasReport ==
    \A j \in Jobs :
        /\ status[j] = "completed" => report[j] = "requires_human_review"
        /\ report[j] = "requires_human_review" <=> result[j] # NoJob

\* A published result is never replaced or withdrawn: a second execution of
\* the job, or one of another job of the session, leaves it alone.
ResultWrittenOnce ==
    [][\A j \in Jobs : result[j] # NoJob =>
           result'[j] = result[j] /\ report'[j] = report[j]]_vars

\* As long as the broker does not deliver a message whose task still runs, no
\* job is executed by two slots at once.
SingleExecution ==
    "redelivery" \notin Faults =>
        \A v, w \in Slots :
            v # w /\ pc[v] # "idle" /\ pc[w] # "idle" => task[v] # task[w]

\* Then the report also exists for no other status: a failed, queued or
\* running job has none, and a finished job is never reopened.
ReportIffCompleted ==
    "redelivery" \notin Faults =>
        \A j \in Jobs :
            report[j] = "requires_human_review" <=> status[j] = "completed"

\* A RUNNING job still has a delivery that will end it, unless its process was
\* killed alone (the message is acknowledged) or delivered twice.
RunningIsAttended ==
    Faults \cap {"redelivery", "child_lost"} = {} =>
        \A j \in Jobs :
            status[j] = "running" => message[j] \in {"ready", "unacked"}

Lifecycle == INSTANCE JobLifecycle WITH
    Jobs <- Jobs, status <- status, report <- report

\* What clients read of jobs and reports behaves as JobLifecycle says.
ImplementsLifecycle == Lifecycle!Spec

\* A job that was started ends: crashes and storage errors delay the outcome
\* and cannot take it away.
RunningSettles ==
    \A j \in Jobs :
        status[j] = "running" ~> status[j] \in {"completed", "failed"}

\* Every published message is consumed and acknowledged in the end.
DeliveriesSettle ==
    \A j \in Jobs : message[j] = "ready" ~> message[j] = "acked"

\* What the docs say of the program and the code does otherwise.

\* docs/product_scope.md: the triggered job is processed by the worker.  Once
\* its message is gone, a committed job is no longer QUEUED.
TriggeredJobIsProcessed ==
    \A j \in Jobs :
        request[j] = "committed" /\ message[j] = "acked" => status[j] # "queued"

-----------------------------------------------------------------------------
(* What keeps that property, whose particles a result is made of, and what  *)
(* holds of deliveries.                                                     *)

\* The particle list of a result is the one that its own job made.  The docs
\* key the objects by capture session and have its jobs share them, so this is
\* no promise of the program; OwnParticlesWhenApart says when it holds.
ResultFromOwnParticles ==
    \A j \in Jobs : result[j] \in {NoJob, j}

\* Tasks that run pipeline steps at the same time for different jobs run them on
\* different capture sessions.
SessionsApart ==
    \A v, w \in Slots :
        pc[v] = "step" /\ pc[w] = "step" /\ task[v] # task[w] =>
            SessionOf[task[v]] # SessionOf[task[w]]

\* No worker looks for the row of a job before the request that inserts it has
\* committed or failed.
RowBeforeTask ==
    \A w \in Slots : pc[w] = "load" => request[task[w]] # "open"

\* The results a job may get when no other job's objects reach it.
OwnResults(j) ==
    {NoJob, j} \cup (IF "s3_error" \in Faults THEN {Synthetic} ELSE {})

\* An unacknowledged message is in the hands of exactly one running task, whose
\* end acknowledges it or returns it, whatever was lost or repeated before.
DeliveryOwned ==
    \A j \in Jobs :
        /\ message[j] = "unacked" <=> \E w \in Slots : owns[w] /\ task[w] = j
        /\ \A v, w \in Slots :
              owns[v] /\ owns[w] /\ task[v] = j /\ task[w] = j => v = w

\* No job starts, and nothing is published.
NothingStarts ==
    \A j \in Jobs : /\ status[j] \in {"absent", "queued"}
                    /\ result[j] = NoJob /\ report[j] = "none"

-----------------------------------------------------------------------------
(* Inductive invariants, for the proofs. *)

\* Until its commit, a slot that has inserted the result of a job is the only
\* one, and no result of the job is committed.
PublishInv ==
    /\ CompletedHasReport
    /\ \A w \in Slots : pc[w] = "finish" => result[task[w]] = NoJob
    /\ \A v, w \in Slots :
         pc[v] = "finish" /\ pc[w] = "finish" /\ task[v] = task[w] => v = w

\* Without redelivery a task is the only execution of its job, so what it
\* read of the job is still true.
ExclusiveInv ==
    /\ \A w \in Slots : pc[w] # "idle" => owns[w]
    /\ \A w \in Slots : owns[w] => pc[w] # "idle" /\ message[task[w]] = "unacked"
    /\ \A v, w \in Slots : owns[v] /\ owns[w] /\ task[v] = task[w] => v = w
    /\ \A j \in Jobs :
         /\ request[j] = "none" => message[j] = "unpublished"
         /\ request[j] # "committed" => status[j] = "absent"
    /\ \A w \in Slots :
         /\ pc[w] = "mark" => loaded[w] = status[task[w]] /\ loaded[w] # "absent"
         /\ pc[w] \in {"step", "insert", "finish"} => status[task[w]] = "running"
         /\ pc[w] = "ack" => status[task[w]] # "running"
    /\ \A j \in Jobs :
         report[j] = "requires_human_review" <=> status[j] = "completed"
    /\ "child_lost" \notin Faults =>
         \A j \in Jobs :
            status[j] = "running" => message[j] \in {"ready", "unacked"}

\* DeliveryOwned with what keeps it: a request publishes once, and a slot
\* without a task owns nothing.
DeliveryInv ==
    /\ DeliveryOwned
    /\ \A j \in Jobs : request[j] = "none" => message[j] = "unpublished"
    /\ \A w \in Slots : owns[w] => pc[w] # "idle"

\* The objects below a task's current step are its own, so the particles it
\* reads are, as long as SessionsApart holds.
ArtifactInv ==
    /\ \A w \in Slots :
         pc[w] = "step" =>
            \A k \in StepNumbers :
               k < step[w] => artifacts[SessionOf[task[w]]][k] = task[w]
    /\ \A w \in Slots :
         pc[w] \in {"insert", "finish"} => source[w] \in OwnResults(task[w])
    /\ \A j \in Jobs : result[j] \in OwnResults(j)

\* What a task that is past its first read knows of the job, as long as
\* RowBeforeTask holds: its row was never written, or it is no longer QUEUED
\* once the task has marked it.
TriggerInv ==
    /\ \A j \in Jobs :
         /\ request[j] = "none" => message[j] = "unpublished"
         /\ request[j] = "committed" <=> status[j] # "absent"
         /\ message[j] = "acked" =>
              request[j] # "open" /\ status[j] # "queued"
    /\ \A w \in Slots :
         /\ pc[w] # "idle" => request[task[w]] # "none"
         /\ pc[w] = "mark" =>
              /\ request[task[w]] = "committed"
              /\ loaded[w] = "running" => status[task[w]] # "queued"
         /\ pc[w] \in {"step", "insert", "finish"} =>
              request[task[w]] = "committed" /\ status[task[w]] # "queued"
         /\ pc[w] = "ack" =>
              request[task[w]] # "open" /\ status[task[w]] # "queued"

=============================================================================
