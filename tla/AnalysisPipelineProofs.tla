----------------------- MODULE AnalysisPipelineProofs -----------------------
(***************************************************************************)
(* Theorems about AnalysisPipeline for every set of jobs, sessions and     *)
(* slots, every set of faults and every number of them.                    *)
(***************************************************************************)
EXTENDS AnalysisPipeline, TLAPS

-----------------------------------------------------------------------------
(* Type correctness. *)

LEMMA InitTypeOK == Init => TypeOK
  BY ConstantsAssumption DEF Init, TypeOK, StepNumbers, GranulometryStep

LEMMA RequestTypeOK ==
  ASSUME TypeOK, NEW j \in Jobs,
         EnqueueJob(j) \/ CommitRequest(j) \/ AbortRequest(j)
  PROVE  TypeOK'
  <1> USE DEF TypeOK, dbVars, slotVars
  <1>1. CASE EnqueueJob(j)
    BY <1>1 DEF EnqueueJob
  <1>2. CASE CommitRequest(j)
    BY <1>2 DEF CommitRequest
  <1>3. CASE AbortRequest(j)
    BY <1>3 DEF AbortRequest, Fault
  <1> QED
    BY <1>1, <1>2, <1>3

LEMMA WriteArtifactType ==
  ASSUME TypeOK, NEW w \in Slots, pc[w] = "step",
         WriteArtifact(w) \/ UNCHANGED artifacts
  PROVE  artifacts' \in [Sessions -> [StepNumbers -> Jobs \cup {NoJob}]]
  <1>1. task[w] \in Jobs /\ SessionOf[task[w]] \in Sessions
    BY ConstantsAssumption DEF TypeOK
  <1>2. step[w] \in StepNumbers
    BY ConstantsAssumption DEF TypeOK, StepNumbers, GranulometryStep
  <1>3. CASE WriteArtifact(w)
    <2> DEFINE s == SessionOf[task[w]]
               k == step[w]
               row == [artifacts[s] EXCEPT ![k] = task[w]]
    <2>1. artifacts[s] \in [StepNumbers -> Jobs \cup {NoJob}]
      BY <1>1 DEF TypeOK
    <2>2. row \in [StepNumbers -> Jobs \cup {NoJob}]
      BY <1>1, <1>2, <2>1
    <2>3. artifacts' = [artifacts EXCEPT ![s] = row]
      BY <1>3 DEF WriteArtifact
    <2> QED
      BY <1>1, <2>2, <2>3 DEF TypeOK
  <1> QED
    BY <1>3 DEF TypeOK

LEMMA ReleaseType ==
  ASSUME TypeOK, NEW S, Release(S)
  PROVE  /\ pc' \in [Slots -> {"idle", "load", "mark", "step", "insert",
                               "finish", "ack"}]
         /\ task' \in [Slots -> Jobs \cup {NoJob}]
         /\ \A w \in Slots : pc'[w] # "idle" => task'[w] \in Jobs
         /\ loaded' \in [Slots -> {"absent", "queued", "running", "failed"}]
         /\ step' \in [Slots -> 0..GranulometryStep]
         /\ \A w \in Slots : pc'[w] = "step" => step'[w] # 0
         /\ owns' \in [Slots -> BOOLEAN]
         /\ source' \in [Slots -> Jobs \cup {NoJob, Synthetic}]
         /\ \A w \in Slots :
              pc'[w] \in {"insert", "finish"} => source'[w] # NoJob
  <1> USE DEF TypeOK, Release
  <1>1. 0 \in 0..GranulometryStep
    BY ConstantsAssumption DEF GranulometryStep
  <1>2. /\ pc' \in [Slots -> {"idle", "load", "mark", "step", "insert",
                              "finish", "ack"}]
        /\ task' \in [Slots -> Jobs \cup {NoJob}]
        /\ loaded' \in [Slots -> {"absent", "queued", "running", "failed"}]
        /\ owns' \in [Slots -> BOOLEAN]
        /\ source' \in [Slots -> Jobs \cup {NoJob, Synthetic}]
    OBVIOUS
  <1>3. step' \in [Slots -> 0..GranulometryStep]
    BY <1>1
  <1>4. \A w \in Slots :
          /\ pc'[w] # "idle" => task'[w] \in Jobs
          /\ pc'[w] = "step" => step'[w] # 0
          /\ pc'[w] \in {"insert", "finish"} => source'[w] # NoJob
    OBVIOUS
  <1> QED
    BY <1>2, <1>3, <1>4

LEMMA StepAfter ==
  ASSUME NEW n \in Nat, NEW k \in 0..n, k # n
  PROVE  k + 1 \in 0..n /\ k + 1 # 0
  OBVIOUS

LEMMA TaskTypeOK ==
  ASSUME TypeOK, NEW w \in Slots,
         \/ \E j \in Jobs : Receive(w, j)
         \/ TaskStep(w)
         \/ StepRaises(w)
  PROVE  TypeOK'
  <1> USE DEF TypeOK, dbVars, slotVars, Goto
  <1>1. ASSUME NEW j \in Jobs, Receive(w, j) PROVE TypeOK'
    BY <1>1 DEF Receive
  <1>2. CASE ReturnEarly(w)
    BY <1>2 DEF ReturnEarly
  <1>3. CASE LoadJob(w)
    BY <1>3 DEF LoadJob
  <1>4. CASE MarkRunning(w)
    BY <1>4, ConstantsAssumption DEF MarkRunning, GranulometryStep
  <1>5. CASE RunStep(w)
    <2>1. step[w] \in 0..GranulometryStep /\ step[w] # GranulometryStep
      BY <1>5 DEF RunStep
    <2>2. GranulometryStep \in Nat
      BY ConstantsAssumption DEF GranulometryStep
    <2>3. step[w] + 1 \in 0..GranulometryStep /\ step[w] + 1 # 0
      BY <2>1, <2>2, StepAfter
    <2>4. step' \in [Slots -> 0..GranulometryStep] /\ step'[w] # 0
      BY <1>5, <2>3 DEF RunStep
    <2>5. artifacts' \in [Sessions -> [StepNumbers -> Jobs \cup {NoJob}]]
      BY <1>5, WriteArtifactType DEF RunStep
    <2> QED
      BY <1>5, <2>4, <2>5 DEF RunStep
  <1>6. CASE Granulometry(w)
    <2>1. artifacts' \in [Sessions -> [StepNumbers -> Jobs \cup {NoJob}]]
      BY <1>6, WriteArtifactType DEF Granulometry
    <2>2. PICK p \in ReadParticles(SessionOf[task[w]]) :
            source' = [source EXCEPT ![w] = p]
      BY <1>6 DEF Granulometry
    <2>3. artifacts[SessionOf[task[w]]][ParticleStep] \in Jobs \cup {NoJob}
      BY <1>6, ConstantsAssumption
      DEF Granulometry, ParticleStep, StepNumbers, GranulometryStep
    <2>4. p \in Jobs \cup {Synthetic} /\ p # NoJob
      BY <2>2, <2>3, ConstantsAssumption DEF ReadParticles
    <2> QED
      BY <1>6, <2>1, <2>2, <2>4 DEF Granulometry
  <1>7. CASE InsertResult(w)
    BY <1>7 DEF InsertResult
  <1>8. CASE Finish(w)
    BY <1>8 DEF Finish, PublishReport
  <1>9. CASE Ack(w)
    <2>1. Release({w})
      BY <1>9 DEF Ack
    <2> QED
      BY <1>9, <2>1, ReleaseType DEF Ack
  <1>10. CASE StepRaises(w)
    <2>1. artifacts' \in [Sessions -> [StepNumbers -> Jobs \cup {NoJob}]]
      BY <1>10, WriteArtifactType DEF StepRaises
    <2> QED
      BY <1>10, <2>1 DEF StepRaises, Fault
  <1> QED
    BY <1>1, <1>2, <1>3, <1>4, <1>5, <1>6, <1>7, <1>8, <1>9, <1>10 DEF TaskStep

LEMMA FaultTypeOK ==
  ASSUME TypeOK,
         \/ ContainerCrash
         \/ \E w \in Slots : ChildLost(w) \/ Redeliver(w)
  PROVE  TypeOK'
  <1> USE DEF TypeOK, dbVars, slotVars, Fault
  <1>1. CASE ContainerCrash
    <2>1. Release(Slots)
      BY <1>1 DEF ContainerCrash
    <2> QED
      BY <1>1, <2>1, ReleaseType DEF ContainerCrash
  <1>2. ASSUME NEW w \in Slots, ChildLost(w) PROVE TypeOK'
    <2>1. Release({w})
      BY <1>2 DEF ChildLost
    <2> QED
      BY <1>2, <2>1, ReleaseType DEF ChildLost
  <1>3. ASSUME NEW w \in Slots, Redeliver(w) PROVE TypeOK'
    <2>1. message' \in [Jobs -> {"unpublished", "ready", "unacked", "acked"}]
      BY <1>3 DEF Redeliver
    <2>2. owns' \in [Slots -> BOOLEAN]
      BY <1>3 DEF Redeliver
    <2> QED
      BY <1>3, <2>1, <2>2 DEF Redeliver
  <1> QED
    BY <1>1, <1>2, <1>3

LEMMA NextTypeOK == TypeOK /\ [Next]_vars => TypeOK'
  <1> SUFFICES ASSUME TypeOK, [Next]_vars PROVE TypeOK'
    OBVIOUS
  <1>1. CASE UNCHANGED vars
    BY <1>1 DEF vars, dbVars, slotVars, TypeOK
  <1>2. CASE Quiescent
    BY <1>1, <1>2 DEF Quiescent
  <1> QED
    BY <1>1, <1>2, RequestTypeOK, TaskTypeOK, FaultTypeOK DEF Next

\* Every reachable state has the declared types: in particular a task that runs
\* a step counts from one and never past granulometry, and a result waiting to
\* be inserted has a particle list.
THEOREM TypeCorrect == Spec => []TypeOK
  BY InitTypeOK, NextTypeOK, PTL DEF Spec

-----------------------------------------------------------------------------
(* A published result is complete and final, whatever the faults. *)

LEMMA InitPublish == Init => PublishInv
  BY ConstantsAssumption DEF Init, PublishInv, CompletedHasReport

\* Actions that leave the rows alone, except for statuses that are not
\* COMPLETED, and let no slot reach "finish".
LEMMA FrameKeepsPublish ==
  ASSUME TypeOK, PublishInv, UNCHANGED <<result, report>>,
         \A j \in Jobs : status'[j] = "completed" => status[j] = "completed",
         \A w \in Slots :
           pc'[w] = "finish" => pc[w] = "finish" /\ task'[w] = task[w]
  PROVE  PublishInv'
  <1> USE DEF PublishInv, CompletedHasReport
  <1>1. CompletedHasReport'
    OBVIOUS
  <1>2. \A w \in Slots : pc'[w] = "finish" => result'[task'[w]] = NoJob
    OBVIOUS
  <1>3. \A v, w \in Slots :
          pc'[v] = "finish" /\ pc'[w] = "finish" /\ task'[v] = task'[w]
            => v = w
    OBVIOUS
  <1> QED
    BY <1>1, <1>2, <1>3

LEMMA RequestPublish ==
  ASSUME TypeOK, PublishInv, NEW j \in Jobs,
         EnqueueJob(j) \/ CommitRequest(j) \/ AbortRequest(j)
  PROVE  PublishInv'
  <1>1. UNCHANGED <<result, report, pc, task>>
    BY DEF EnqueueJob, CommitRequest, AbortRequest, dbVars, slotVars
  <1>2. \A i \in Jobs : status'[i] = "completed" => status[i] = "completed"
    BY DEF EnqueueJob, CommitRequest, AbortRequest, dbVars, TypeOK
  <1> QED
    BY <1>1, <1>2, FrameKeepsPublish

\* A step of a task before it inserts its result.
LEMMA TaskPublish ==
  ASSUME TypeOK, PublishInv, NEW w \in Slots,
         \/ \E j \in Jobs : Receive(w, j)
         \/ ReturnEarly(w) \/ LoadJob(w) \/ MarkRunning(w) \/ RunStep(w)
         \/ Granulometry(w) \/ StepRaises(w)
  PROVE  PublishInv'
  <1> USE DEF Goto, dbVars, slotVars, TypeOK
  <1>1. UNCHANGED <<result, report>>
    BY DEF Receive, ReturnEarly, LoadJob, MarkRunning, RunStep, Granulometry,
           StepRaises
  <1>2. \A i \in Jobs : status'[i] = "completed" => status[i] = "completed"
    BY DEF Receive, ReturnEarly, LoadJob, MarkRunning, RunStep, Granulometry,
           StepRaises
  <1>3. \A v \in Slots :
          pc'[v] = "finish" => pc[v] = "finish" /\ task'[v] = task[v]
    BY DEF Receive, ReturnEarly, LoadJob, MarkRunning, RunStep, Granulometry,
           StepRaises
  <1> QED
    BY <1>1, <1>2, <1>3, FrameKeepsPublish

LEMMA ReleasePublish ==
  ASSUME TypeOK, PublishInv, NEW S, Release(S), UNCHANGED dbVars
  PROVE  PublishInv'
  <1>1. \A v \in Slots :
          pc'[v] = "finish" => pc[v] = "finish" /\ task'[v] = task[v]
    BY DEF Release, TypeOK
  <1> QED
    BY <1>1, FrameKeepsPublish DEF dbVars

LEMMA InsertPublish ==
  ASSUME TypeOK, PublishInv, NEW w \in Slots, InsertResult(w)
  PROVE  PublishInv'
  <1> USE DEF InsertResult, Goto, dbVars, TypeOK, PublishInv
  <1>1. CompletedHasReport'
    BY DEF CompletedHasReport
  <1>2. \A v \in Slots : pc'[v] = "finish" => result'[task'[v]] = NoJob
    OBVIOUS
  <1>3. \A u, v \in Slots :
          pc'[u] = "finish" /\ pc'[v] = "finish" /\ task'[u] = task'[v]
            => u = v
    OBVIOUS
  <1> QED
    BY <1>1, <1>2, <1>3

LEMMA FinishPublish ==
  ASSUME TypeOK, PublishInv, NEW w \in Slots, Finish(w)
  PROVE  PublishInv'
  <1> USE DEF Finish, PublishReport, Goto, TypeOK, PublishInv
  <1>1. task[w] \in Jobs /\ source[w] # NoJob
    OBVIOUS
  <1>2. CompletedHasReport'
    BY <1>1 DEF CompletedHasReport
  <1>3. \A v \in Slots : pc'[v] = "finish" => task[v] # task[w]
    BY <1>1
  <1>4. \A v \in Slots : pc'[v] = "finish" => result'[task'[v]] = NoJob
    BY <1>1, <1>3
  <1>5. \A u, v \in Slots :
          pc'[u] = "finish" /\ pc'[v] = "finish" /\ task'[u] = task'[v]
            => u = v
    OBVIOUS
  <1> QED
    BY <1>2, <1>4, <1>5

LEMMA NextPublish == TypeOK /\ PublishInv /\ [Next]_vars => PublishInv'
  <1> SUFFICES ASSUME TypeOK, PublishInv, [Next]_vars PROVE PublishInv'
    OBVIOUS
  <1>1. CASE UNCHANGED vars
    BY <1>1 DEF vars, dbVars, slotVars, PublishInv, CompletedHasReport
  <1>2. CASE Quiescent
    BY <1>1, <1>2 DEF Quiescent
  <1>3. ASSUME NEW w \in Slots, Ack(w) \/ ChildLost(w) PROVE PublishInv'
    BY <1>3, ReleasePublish DEF Ack, ChildLost
  <1>4. CASE ContainerCrash
    BY <1>4, ReleasePublish DEF ContainerCrash
  <1>5. ASSUME NEW w \in Slots, Redeliver(w) PROVE PublishInv'
    BY <1>5, FrameKeepsPublish DEF Redeliver, dbVars, TypeOK
  <1> QED
    BY <1>1, <1>2, <1>3, <1>4, <1>5, RequestPublish, TaskPublish,
       InsertPublish, FinishPublish DEF Next, TaskStep

\* Whatever is lost, repeated or executed twice at once: a client that sees
\* COMPLETED finds the report, and results come with their reports.
THEOREM CompletedHasReportAlways == Spec => []CompletedHasReport
  <1>1. Spec => []PublishInv
    BY InitPublish, NextPublish, TypeCorrect, PTL DEF Spec
  <1>2. PublishInv => CompletedHasReport
    BY DEF PublishInv
  <1> QED
    BY <1>1, <1>2, PTL

LEMMA StepWritesOnce ==
  ASSUME TypeOK, PublishInv, [Next]_vars, NEW j \in Jobs, result[j] # NoJob
  PROVE  result'[j] = result[j] /\ report'[j] = report[j]
  <1>1. CASE UNCHANGED <<result, report>>
    BY <1>1
  <1>2. ASSUME NEW w \in Slots, Finish(w)
        PROVE  result'[j] = result[j] /\ report'[j] = report[j]
    BY <1>2 DEF Finish, PublishReport, PublishInv, TypeOK
  <1> QED
    BY <1>1, <1>2
    DEF Next, TaskStep, vars, dbVars, slotVars, EnqueueJob, CommitRequest,
        AbortRequest, Receive, ReturnEarly, LoadJob, MarkRunning, RunStep,
        Granulometry, InsertResult, StepRaises, Ack, ContainerCrash,
        ChildLost, Redeliver, Quiescent

\* A committed result and its report are never replaced or removed, also when
\* several slots execute the job at the same time.
THEOREM ResultIsFinal == Spec => ResultWrittenOnce
  <1>1. TypeOK /\ PublishInv /\ [Next]_vars =>
          [\A j \in Jobs : result[j] # NoJob =>
              result'[j] = result[j] /\ report'[j] = report[j]]_vars
    BY StepWritesOnce
  <1>2. Spec => []PublishInv
    BY InitPublish, NextPublish, TypeCorrect, PTL DEF Spec
  <1> QED
    BY <1>1, <1>2, TypeCorrect, PTL DEF Spec, ResultWrittenOnce

-----------------------------------------------------------------------------
(* Deliveries that are never repeated while their task runs: one execution *)
(* at a time, whose view of the job is the committed one.                  *)

LEMMA InitExclusive == Init => ExclusiveInv
  BY ConstantsAssumption DEF Init, ExclusiveInv

LEMMA RequestExclusive ==
  ASSUME TypeOK, ExclusiveInv, NEW j \in Jobs,
         EnqueueJob(j) \/ CommitRequest(j) \/ AbortRequest(j)
  PROVE  ExclusiveInv'
  <1> USE DEF TypeOK, ExclusiveInv, dbVars, slotVars
  <1>1. CASE EnqueueJob(j)
    BY <1>1 DEF EnqueueJob
  <1>2. CASE CommitRequest(j)
    BY <1>2 DEF CommitRequest
  <1>3. CASE AbortRequest(j)
    BY <1>3 DEF AbortRequest
  <1> QED
    BY <1>1, <1>2, <1>3

\* A slot that executes a job is the only one.
LEMMA OneSlotPerJob ==
  ASSUME ExclusiveInv, NEW v \in Slots, NEW w \in Slots, v # w,
         pc[v] # "idle", pc[w] # "idle"
  PROVE  task[v] # task[w]
  BY DEF ExclusiveInv

LEMMA TaskExclusive ==
  ASSUME TypeOK, PublishInv, ExclusiveInv, NEW w \in Slots,
         \/ \E j \in Jobs : Receive(w, j)
         \/ TaskStep(w)
         \/ StepRaises(w)
  PROVE  ExclusiveInv'
  <1> USE DEF TypeOK, ExclusiveInv, dbVars, slotVars, Goto
  <1>1. ASSUME NEW j \in Jobs, Receive(w, j) PROVE ExclusiveInv'
    BY <1>1 DEF Receive
  <1>2. CASE ReturnEarly(w)
    BY <1>2 DEF ReturnEarly
  <1>3. CASE LoadJob(w)
    BY <1>3 DEF LoadJob
  <1>4. CASE MarkRunning(w)
    BY <1>4 DEF MarkRunning
  <1>5. CASE RunStep(w)
    BY <1>5 DEF RunStep
  <1>6. CASE Granulometry(w)
    BY <1>6 DEF Granulometry
  <1>7. CASE InsertResult(w)
    BY <1>7 DEF InsertResult, PublishInv, CompletedHasReport
  <1>8. CASE Finish(w)
    BY <1>8 DEF Finish, PublishReport
  <1>9. CASE Ack(w)
    BY <1>9 DEF Ack, Release
  <1>10. CASE StepRaises(w)
    BY <1>10 DEF StepRaises
  <1> QED
    BY <1>1, <1>2, <1>3, <1>4, <1>5, <1>6, <1>7, <1>8, <1>9, <1>10 DEF TaskStep

LEMMA FaultExclusive ==
  ASSUME "redelivery" \notin Faults, TypeOK, ExclusiveInv,
         \/ ContainerCrash
         \/ \E w \in Slots : ChildLost(w) \/ Redeliver(w)
  PROVE  ExclusiveInv'
  <1> USE DEF TypeOK, ExclusiveInv, dbVars, slotVars, Fault
  <1>1. CASE ContainerCrash
    BY <1>1 DEF ContainerCrash, Release
  <1>2. ASSUME NEW w \in Slots, ChildLost(w) PROVE ExclusiveInv'
    BY <1>2 DEF ChildLost, Release
  <1>3. ASSUME NEW w \in Slots, Redeliver(w) PROVE FALSE
    BY <1>3 DEF Redeliver
  <1> QED
    BY <1>1, <1>2, <1>3

LEMMA NextExclusive ==
  ASSUME "redelivery" \notin Faults
  PROVE  TypeOK /\ PublishInv /\ ExclusiveInv /\ [Next]_vars => ExclusiveInv'
  <1> SUFFICES ASSUME TypeOK, PublishInv, ExclusiveInv, [Next]_vars
               PROVE  ExclusiveInv'
    OBVIOUS
  <1>1. CASE UNCHANGED vars
    BY <1>1 DEF vars, dbVars, slotVars, ExclusiveInv
  <1>2. CASE Quiescent
    BY <1>1, <1>2 DEF Quiescent
  <1> QED
    BY <1>1, <1>2, RequestExclusive, TaskExclusive, FaultExclusive DEF Next

LEMMA ExclusiveAlways ==
  ASSUME "redelivery" \notin Faults
  PROVE  Spec => [](TypeOK /\ PublishInv /\ ExclusiveInv)
  <1>1. Init => TypeOK /\ PublishInv /\ ExclusiveInv
    BY InitTypeOK, InitPublish, InitExclusive
  <1>2. TypeOK /\ PublishInv /\ ExclusiveInv /\ [Next]_vars
          => (TypeOK /\ PublishInv /\ ExclusiveInv)'
    BY NextTypeOK, NextPublish, NextExclusive
  <1> QED
    BY <1>1, <1>2, PTL DEF Spec

\* No job is executed by two slots at once, unless the broker may deliver a
\* message whose task still runs.
THEOREM SingleExecutionAlways == Spec => []SingleExecution
  <1>1. CASE "redelivery" \in Faults
    <2>1. SingleExecution
      BY <1>1 DEF SingleExecution
    <2> QED
      BY <2>1, PTL
  <1>2. CASE "redelivery" \notin Faults
    <2>1. ExclusiveInv => SingleExecution
      BY DEF ExclusiveInv, SingleExecution
    <2> QED
      BY <1>2, <2>1, ExclusiveAlways, PTL
  <1> QED
    BY <1>1, <1>2

\* Under the same condition a report exists exactly for COMPLETED jobs.
THEOREM ReportIffCompletedAlways == Spec => []ReportIffCompleted
  <1>1. CASE "redelivery" \in Faults
    <2>1. ReportIffCompleted
      BY <1>1 DEF ReportIffCompleted
    <2> QED
      BY <2>1, PTL
  <1>2. CASE "redelivery" \notin Faults
    <2>1. ExclusiveInv => ReportIffCompleted
      BY DEF ExclusiveInv, ReportIffCompleted
    <2> QED
      BY <1>2, <2>1, ExclusiveAlways, PTL
  <1> QED
    BY <1>1, <1>2

\* A RUNNING job keeps a delivery that will end it, as long as no process is
\* killed alone and no running task's message is delivered again.
THEOREM RunningIsAttendedAlways == Spec => []RunningIsAttended
  <1>1. CASE Faults \cap {"redelivery", "child_lost"} # {}
    <2>1. RunningIsAttended
      BY <1>1 DEF RunningIsAttended
    <2> QED
      BY <2>1, PTL
  <1>2. CASE Faults \cap {"redelivery", "child_lost"} = {}
    <2>1. ExclusiveInv => RunningIsAttended
      BY <1>2 DEF ExclusiveInv, RunningIsAttended
    <2>2. "redelivery" \notin Faults
      BY <1>2
    <2> QED
      BY <2>1, <2>2, ExclusiveAlways, PTL
  <1> QED
    BY <1>1, <1>2

-----------------------------------------------------------------------------
(* Refinement. *)

LEMMA InitLifecycle == Init => Lifecycle!Init
  BY DEF Init, Lifecycle!Init

LEMMA StepLifecycle ==
  ASSUME "redelivery" \notin Faults
  PROVE  TypeOK /\ PublishInv /\ ExclusiveInv /\ [Next]_vars
           => [Lifecycle!Next]_Lifecycle!vars
  <1> SUFFICES ASSUME TypeOK, PublishInv, ExclusiveInv, [Next]_vars
               PROVE  [Lifecycle!Next]_Lifecycle!vars
    OBVIOUS
  <1> USE DEF Lifecycle!vars, TypeOK
  <1>1. CASE UNCHANGED <<status, report>>
    BY <1>1
  <1>2. ASSUME NEW j \in Jobs, CommitRequest(j)
        PROVE  Lifecycle!Submit(j)
    BY <1>2 DEF CommitRequest, Lifecycle!Submit, ExclusiveInv
  <1>3. ASSUME NEW w \in Slots, MarkRunning(w)
        PROVE  Lifecycle!Start(task[w]) \/ UNCHANGED <<status, report>>
    BY <1>3 DEF MarkRunning, Lifecycle!Start, ExclusiveInv
  <1>4. ASSUME NEW w \in Slots, StepRaises(w)
        PROVE  Lifecycle!Fail(task[w])
    BY <1>4 DEF StepRaises, Lifecycle!Fail, ExclusiveInv
  <1>5. ASSUME NEW w \in Slots, Finish(w)
        PROVE  Lifecycle!Complete(task[w])
    BY <1>5 DEF Finish, PublishReport, Lifecycle!Complete, ExclusiveInv
  <1>6. \A w \in Slots : MarkRunning(w) \/ StepRaises(w) \/ Finish(w)
          => task[w] \in Jobs
    BY DEF MarkRunning, StepRaises, Finish, PublishReport
  <1>7. ASSUME Next,
               ~ \E j \in Jobs : CommitRequest(j),
               ~ \E w \in Slots : MarkRunning(w) \/ StepRaises(w) \/ Finish(w)
        PROVE  UNCHANGED <<status, report>>
    BY <1>7
    DEF Next, TaskStep, vars, dbVars, EnqueueJob, AbortRequest, Receive,
        ReturnEarly, LoadJob, RunStep, Granulometry, InsertResult, Ack,
        ContainerCrash, ChildLost, Redeliver, Quiescent
  <1>8. CASE UNCHANGED vars
    BY <1>8, <1>1 DEF vars, dbVars
  <1> QED
    BY <1>1, <1>2, <1>3, <1>4, <1>5, <1>6, <1>7, <1>8 DEF Lifecycle!Next

\* Jobs and reports behave as JobLifecycle promises in every system whose broker
\* repeats a delivery only after its task ended: one report per job, published
\* in the step that completes it, and no way back.
THEOREM PipelineImplementsLifecycle ==
  ASSUME "redelivery" \notin Faults
  PROVE  Spec => ImplementsLifecycle
  <1>1. Spec => [](TypeOK /\ PublishInv /\ ExclusiveInv)
    BY ExclusiveAlways
  <1> QED
    BY <1>1, InitLifecycle, StepLifecycle, PTL
    DEF Spec, ImplementsLifecycle, Lifecycle!Spec

-----------------------------------------------------------------------------
(* Deliveries, under every fault.                                          *)

\* Steps that touch no message and no task.
LEMMA FrameKeepsDelivery ==
  ASSUME DeliveryInv, UNCHANGED <<message, task, owns>>,
         \A j \in Jobs : request'[j] = "none" => request[j] = "none",
         \A w \in Slots : pc[w] # "idle" => pc'[w] # "idle"
  PROVE  DeliveryInv'
  BY DEF DeliveryInv, DeliveryOwned

\* The tasks of S end and what becomes of the messages they held.
LEMMA ReleaseKeepsDelivery ==
  ASSUME TypeOK, DeliveryInv, NEW S \in SUBSET Slots, Release(S),
         UNCHANGED request, NEW m \in {"acked", "ready"},
         \A j \in Jobs :
            message'[j] = IF \E w \in S : owns[w] /\ task[w] = j
                            THEN m ELSE message[j]
  PROVE  DeliveryInv'
  <1>1. \A w \in Slots : /\ owns'[w] <=> owns[w] /\ w \notin S
                         /\ w \notin S => task'[w] = task[w] /\ pc'[w] = pc[w]
    BY DEF Release, TypeOK
  <1>2. ASSUME NEW j \in Jobs
        PROVE  /\ message'[j] = "unacked" <=>
                    \E w \in Slots : owns'[w] /\ task'[w] = j
               /\ request'[j] = "none" => message'[j] = "unpublished"
    <2>1. CASE \E w \in S : owns[w] /\ task[w] = j
      <3>1. message[j] = "unacked" /\ message'[j] = m
        BY <2>1 DEF DeliveryInv, DeliveryOwned
      <3>2. ~ \E w \in Slots : owns'[w] /\ task'[w] = j
        BY <1>1, <2>1 DEF DeliveryInv, DeliveryOwned
      <3> QED BY <3>1, <3>2 DEF DeliveryInv
    <2>2. CASE ~ \E w \in S : owns[w] /\ task[w] = j
      <3>1. (\E w \in Slots : owns'[w] /\ task'[w] = j) <=>
            (\E w \in Slots : owns[w] /\ task[w] = j)
        BY <1>1, <2>2
      <3> QED BY <2>2, <3>1 DEF DeliveryInv, DeliveryOwned
    <2> QED BY <2>1, <2>2
  <1> QED BY <1>1, <1>2 DEF DeliveryInv, DeliveryOwned

LEMMA NextDelivery == TypeOK /\ DeliveryInv /\ [Next]_vars => DeliveryInv'
  <1> SUFFICES ASSUME TypeOK, DeliveryInv, [Next]_vars PROVE DeliveryInv'
    OBVIOUS
  <1> USE DEF dbVars, slotVars, Goto
  <1>1. CASE UNCHANGED vars \/ Quiescent
    BY <1>1, FrameKeepsDelivery DEF vars, Quiescent
  <1>2. ASSUME NEW j \in Jobs, EnqueueJob(j) PROVE DeliveryInv'
    BY <1>2 DEF EnqueueJob, DeliveryInv, DeliveryOwned, TypeOK
  <1>3. ASSUME NEW j \in Jobs, CommitRequest(j) \/ AbortRequest(j)
        PROVE  DeliveryInv'
    BY <1>3, FrameKeepsDelivery DEF CommitRequest, AbortRequest, TypeOK
  <1>4. ASSUME NEW w \in Slots, NEW j \in Jobs, Receive(w, j)
        PROVE  DeliveryInv'
    BY <1>4 DEF Receive, DeliveryInv, DeliveryOwned, TypeOK
  <1>5. ASSUME NEW w \in Slots,
               \/ ReturnEarly(w) \/ LoadJob(w) \/ MarkRunning(w) \/ RunStep(w)
               \/ Granulometry(w) \/ InsertResult(w) \/ Finish(w)
               \/ StepRaises(w)
        PROVE  DeliveryInv'
    <2>1. UNCHANGED <<request, message, task, owns>>
      BY <1>5 DEF ReturnEarly, LoadJob, MarkRunning, RunStep, Granulometry,
                  InsertResult, Finish, StepRaises
    <2>2. \A v \in Slots : pc[v] # "idle" => pc'[v] # "idle"
      BY <1>5 DEF ReturnEarly, LoadJob, MarkRunning, RunStep, Granulometry,
                  InsertResult, Finish, StepRaises, TypeOK
    <2> QED BY <2>1, <2>2, FrameKeepsDelivery
  <1>6. ASSUME NEW w \in Slots, Ack(w) \/ ChildLost(w)
        PROVE  DeliveryInv'
    <2>1. /\ Release({w}) /\ UNCHANGED request
          /\ message' = IF owns[w] THEN [message EXCEPT ![task[w]] = "acked"]
                                   ELSE message
      BY <1>6 DEF Ack, ChildLost
    <2>2. \A j \in Jobs :
            message'[j] = IF \E v \in {w} : owns[v] /\ task[v] = j
                            THEN "acked" ELSE message[j]
      BY <2>1 DEF TypeOK
    <2> QED BY <2>1, <2>2, ReleaseKeepsDelivery
  <1>7. CASE ContainerCrash
    BY <1>7, ReleaseKeepsDelivery DEF ContainerCrash
  <1>8. ASSUME NEW w \in Slots, Redeliver(w) PROVE DeliveryInv'
    <2>1. task[w] \in Jobs /\ message[task[w]] = "unacked"
      BY <1>8 DEF Redeliver, DeliveryInv, DeliveryOwned, TypeOK
    <2> QED
      BY <1>8, <2>1 DEF Redeliver, DeliveryInv, DeliveryOwned, TypeOK
  <1> QED
    BY <1>1, <1>2, <1>3, <1>4, <1>5, <1>6, <1>7, <1>8 DEF Next, TaskStep

LEMMA DeliveryAlways == Spec => []DeliveryInv
  <1>1. Init => DeliveryInv
    BY DEF Init, DeliveryInv, DeliveryOwned
  <1> QED BY <1>1, NextDelivery, TypeCorrect, PTL DEF Spec

\* No message is ever stuck: one that is out with a worker belongs to exactly
\* one running task, after any sequence of crashes, lost children and repeated
\* deliveries.
THEOREM DeliveriesAreOwned == Spec => []DeliveryOwned
  <1>1. DeliveryInv => DeliveryOwned
    BY DEF DeliveryInv
  <1> QED BY <1>1, DeliveryAlways, PTL

-----------------------------------------------------------------------------
(* The particles of a result, when running tasks share no session's objects. *)

\* A step that writes no object, takes no task further, and may publish what a
\* task has computed.
LEMMA FrameKeepsArtifacts ==
  ASSUME TypeOK, ArtifactInv, artifacts' = artifacts,
         \A w \in Slots :
            /\ pc'[w] = "step" => /\ pc[w] = "step" \/ step'[w] = 1
                                  /\ pc[w] = "step" => step'[w] = step[w]
                                  /\ task'[w] = task[w]
            /\ pc'[w] \in {"insert", "finish"} =>
                 /\ pc[w] \in {"insert", "finish"}
                 /\ source'[w] = source[w] /\ task'[w] = task[w],
         \A j \in Jobs : result'[j] \in OwnResults(j)
  PROVE  ArtifactInv'
  <1>1. ASSUME NEW w \in Slots, pc'[w] = "step", NEW k \in StepNumbers,
               k < step'[w]
        PROVE  artifacts'[SessionOf[task'[w]]][k] = task'[w]
    <2>1. pc[w] = "step" /\ step'[w] = step[w]
      BY <1>1 DEF StepNumbers
    <2> QED BY <1>1, <2>1 DEF ArtifactInv
  <1>2. \A w \in Slots : pc'[w] \in {"insert", "finish"} =>
           source'[w] \in OwnResults(task'[w])
    BY DEF ArtifactInv
  <1> QED BY <1>1, <1>2 DEF ArtifactInv, OwnResults

\* What an object holds after a task has written its own.
LEMMA WriteEffect ==
  ASSUME TypeOK, NEW w \in Slots, pc[w] = "step",
         WriteArtifact(w) \/ UNCHANGED artifacts, SessionsApart, ArtifactInv
  PROVE  /\ \A v \in Slots : pc[v] = "step" =>
              \A k \in StepNumbers :
                 k < step[v] => artifacts'[SessionOf[task[v]]][k] = task[v]
         /\ WriteArtifact(w) =>
              artifacts'[SessionOf[task[w]]][step[w]] = task[w]
  <1> DEFINE s == SessionOf[task[w]]
  <1>1. task[w] \in Jobs /\ s \in Sessions
    BY ConstantsAssumption DEF TypeOK
  <1>2. step[w] \in StepNumbers
    BY ConstantsAssumption DEF TypeOK, StepNumbers, GranulometryStep
  <1>3. CASE UNCHANGED artifacts /\ ~WriteArtifact(w)
    BY <1>3 DEF ArtifactInv
  <1>4. CASE WriteArtifact(w)
    <2>1. artifacts' = [artifacts EXCEPT ![s][step[w]] = task[w]]
      BY <1>4 DEF WriteArtifact
    <2>2. artifacts[s] \in [StepNumbers -> Jobs \cup {NoJob}]
      BY <1>1 DEF TypeOK
    <2>3. artifacts'[s][step[w]] = task[w]
      BY <1>1, <1>2, <2>1, <2>2 DEF TypeOK
    <2>4. \A t \in Sessions, k \in StepNumbers :
            t # s \/ k # step[w] => artifacts'[t][k] = artifacts[t][k]
      BY <1>1, <1>2, <2>1, <2>2 DEF TypeOK
    <2>5. ASSUME NEW v \in Slots, pc[v] = "step", NEW k \in StepNumbers,
                 k < step[v]
          PROVE  artifacts'[SessionOf[task[v]]][k] = task[v]
      <3>1. SessionOf[task[v]] \in Sessions
        BY <2>5, ConstantsAssumption DEF TypeOK
      <3>2. artifacts[SessionOf[task[v]]][k] = task[v]
        BY <2>5 DEF ArtifactInv
      <3>3. SessionOf[task[v]] = s => task[v] = task[w]
        BY <2>5 DEF SessionsApart
      <3> QED BY <2>3, <2>4, <3>1, <3>2, <3>3
    <2> QED BY <2>3, <2>5
  <1> QED BY <1>3, <1>4

\* A task that runs a step, with or without writing its object, and stays in its
\* steps or leaves them for a commit.
LEMMA StepKeepsArtifacts ==
  ASSUME TypeOK, ArtifactInv, SessionsApart, NEW w \in Slots,
         RunStep(w) \/ Granulometry(w) \/ StepRaises(w)
  PROVE  ArtifactInv'
  <1> USE DEF Goto, dbVars, slotVars
  <1>1. pc[w] = "step" /\ (WriteArtifact(w) \/ UNCHANGED artifacts)
    BY DEF RunStep, Granulometry, StepRaises
  <1>2. UNCHANGED <<task, result>>
    BY DEF RunStep, Granulometry, StepRaises
  <1>3. step[w] \in 0..GranulometryStep /\ GranulometryStep \in Nat
    BY ConstantsAssumption DEF TypeOK, GranulometryStep
  <1>4. ASSUME NEW v \in Slots, pc'[v] = "step", NEW k \in StepNumbers,
               k < step'[v]
        PROVE  artifacts'[SessionOf[task[v]]][k] = task[v]
    <2>1. pc[v] = "step"
      BY <1>4 DEF RunStep, Granulometry, StepRaises, TypeOK
    <2>2. CASE k < step[v]
      BY <1>1, <2>1, <2>2, WriteEffect
    <2>3. CASE ~(k < step[v])
      <3>1. RunStep(w) /\ v = w
        BY <1>4, <2>3 DEF RunStep, Granulometry, StepRaises, TypeOK
      <3>2. k = step[w]
        BY <1>3, <1>4, <2>3, <3>1 DEF RunStep, TypeOK, StepNumbers
      <3> QED BY <1>1, <3>1, <3>2, WriteEffect DEF RunStep
    <2> QED BY <2>2, <2>3
  <1>5. ASSUME NEW v \in Slots, pc'[v] \in {"insert", "finish"}
        PROVE  source'[v] \in OwnResults(task[v])
    <2>1. CASE v = w
      <3>1. Granulometry(w)
        BY <1>5, <2>1 DEF RunStep, Granulometry, StepRaises, TypeOK
      <3>2. PICK p \in ReadParticles(SessionOf[task[w]]) :
               source' = [source EXCEPT ![w] = p]
        BY <3>1 DEF Granulometry
      <3>3. artifacts[SessionOf[task[w]]][ParticleStep] = task[w]
        <4>1. ParticleStep \in StepNumbers /\ ParticleStep < step[w]
          BY <3>1, ConstantsAssumption
             DEF Granulometry, ParticleStep, GranulometryStep, StepNumbers
        <4> QED BY <1>1, <4>1 DEF ArtifactInv
      <3>4. task[w] # NoJob
        BY <1>1, ConstantsAssumption DEF TypeOK
      <3> QED
        BY <2>1, <3>2, <3>3, <3>4 DEF ReadParticles, OwnResults, TypeOK
    <2>2. CASE v # w
      <3>1. pc'[v] = pc[v] /\ source'[v] = source[v]
        BY <2>2 DEF RunStep, Granulometry, StepRaises, TypeOK
      <3> QED BY <1>5, <3>1 DEF ArtifactInv
    <2> QED BY <2>1, <2>2
  <1> QED BY <1>2, <1>4, <1>5 DEF ArtifactInv, OwnResults

LEMMA NextArtifacts ==
  TypeOK /\ ArtifactInv /\ SessionsApart /\ [Next]_vars => ArtifactInv'
  <1> SUFFICES ASSUME TypeOK, ArtifactInv, SessionsApart, [Next]_vars
               PROVE  ArtifactInv'
    OBVIOUS
  <1> USE DEF dbVars, slotVars, Goto
  <1>1. \A j \in Jobs : result[j] \in OwnResults(j)
    BY DEF ArtifactInv
  <1>2. CASE UNCHANGED vars \/ Quiescent
    BY <1>1, <1>2, FrameKeepsArtifacts DEF vars, Quiescent
  <1>3. ASSUME NEW j \in Jobs,
               EnqueueJob(j) \/ CommitRequest(j) \/ AbortRequest(j)
        PROVE  ArtifactInv'
    <2>1. UNCHANGED <<artifacts, result, pc, task, step, source>>
      BY <1>3 DEF EnqueueJob, CommitRequest, AbortRequest
    <2> QED BY <1>1, <2>1, FrameKeepsArtifacts
  <1>4. ASSUME NEW w \in Slots,
               \/ \E j \in Jobs : Receive(w, j)
               \/ ReturnEarly(w) \/ LoadJob(w)
        PROVE  ArtifactInv'
    <2>1. UNCHANGED <<artifacts, result, step, source>>
      BY <1>4 DEF Receive, ReturnEarly, LoadJob
    <2>2. \A v \in Slots :
             pc'[v] \in {"step", "insert", "finish"} =>
                pc'[v] = pc[v] /\ task'[v] = task[v]
      BY <1>4 DEF Receive, ReturnEarly, LoadJob, TypeOK
    <2> QED BY <1>1, <2>1, <2>2, FrameKeepsArtifacts
  <1>5. ASSUME NEW w \in Slots, MarkRunning(w) PROVE ArtifactInv'
    <2>1. UNCHANGED <<artifacts, result, task, source>>
      BY <1>5 DEF MarkRunning
    <2>2. \A v \in Slots :
             /\ pc'[v] = "step" =>
                  \/ pc[v] = "step" /\ step'[v] = step[v]
                  \/ pc[v] # "step" /\ step'[v] = 1
             /\ pc'[v] \in {"insert", "finish"} => pc'[v] = pc[v]
      BY <1>5 DEF MarkRunning, TypeOK
    <2> QED BY <1>1, <2>1, <2>2, FrameKeepsArtifacts
  <1>6. ASSUME NEW w \in Slots, RunStep(w) \/ Granulometry(w) \/ StepRaises(w)
        PROVE  ArtifactInv'
    BY <1>6, StepKeepsArtifacts
  <1>7. ASSUME NEW w \in Slots, InsertResult(w) PROVE ArtifactInv'
    <2>1. UNCHANGED <<artifacts, result, task, step, source>>
      BY <1>7 DEF InsertResult
    <2>2. \A v \in Slots :
             /\ pc'[v] = "step" => pc[v] = "step"
             /\ pc'[v] \in {"insert", "finish"} =>
                  pc[v] \in {"insert", "finish"}
      BY <1>7 DEF InsertResult, TypeOK
    <2> QED BY <1>1, <2>1, <2>2, FrameKeepsArtifacts
  <1>8. ASSUME NEW w \in Slots, Finish(w) PROVE ArtifactInv'
    <2>1. UNCHANGED <<artifacts, task, step, source>>
      BY <1>8 DEF Finish
    <2>2. \A j \in Jobs : result'[j] \in OwnResults(j)
      BY <1>1, <1>8 DEF Finish, ArtifactInv, TypeOK
    <2>3. \A v \in Slots :
             pc'[v] \in {"step", "insert", "finish"} => pc'[v] = pc[v]
      BY <1>8 DEF Finish, TypeOK
    <2> QED BY <2>1, <2>2, <2>3, FrameKeepsArtifacts
  <1>9. ASSUME NEW S, Release(S), UNCHANGED <<artifacts, result>>
        PROVE  ArtifactInv'
    <2>1. \A v \in Slots :
             pc'[v] # "idle" => /\ pc'[v] = pc[v] /\ task'[v] = task[v]
                                /\ step'[v] = step[v] /\ source'[v] = source[v]
      BY <1>9 DEF Release, TypeOK
    <2> QED BY <1>1, <1>9, <2>1, FrameKeepsArtifacts
  <1>10. ASSUME NEW w \in Slots, Redeliver(w) PROVE ArtifactInv'
    <2>1. UNCHANGED <<artifacts, result, pc, task, step, source>>
      BY <1>10 DEF Redeliver
    <2> QED BY <1>1, <2>1, FrameKeepsArtifacts
  <1>11. \A w \in Slots : Ack(w) \/ ChildLost(w) => ArtifactInv'
    BY <1>9 DEF Ack, ChildLost
  <1>12. ContainerCrash => ArtifactInv'
    BY <1>9 DEF ContainerCrash
  <1> QED
    BY <1>2, <1>3, <1>4, <1>5, <1>6, <1>7, <1>8, <1>10, <1>11, <1>12
       DEF Next, TaskStep

LEMMA ArtifactsAlways == Spec /\ []SessionsApart => []ArtifactInv
  <1>1. Init => ArtifactInv
    BY DEF Init, ArtifactInv, OwnResults
  <1> QED BY <1>1, NextArtifacts, TypeCorrect, PTL DEF Spec

\* A result never shows another job's particles unless two jobs of one session
\* run their steps at the same time.  Leftovers of a crashed, failed or
\* repeated execution, of this job or of another, cannot do it.
THEOREM ResultsAreOwnWhenApart ==
  Spec /\ []SessionsApart => [](\A j \in Jobs : result[j] \in OwnResults(j))
  <1>1. ArtifactInv => \A j \in Jobs : result[j] \in OwnResults(j)
    BY DEF ArtifactInv
  <1> QED BY <1>1, ArtifactsAlways, PTL

\* With a store that answers, the result is the job's own.
THEOREM OwnParticlesWhenApart ==
  ASSUME "s3_error" \notin Faults
  PROVE  Spec /\ []SessionsApart => []ResultFromOwnParticles
  <1>1. ArtifactInv => ResultFromOwnParticles
    BY DEF ArtifactInv, OwnResults, ResultFromOwnParticles
  <1> QED BY <1>1, ArtifactsAlways, PTL

-----------------------------------------------------------------------------
(* The triggered job is processed when its row is there before its task.   *)

\* Steps that leave the requests alone, take no task to its first read or its
\* mark, acknowledge only what is processed and give no row the status QUEUED.
LEMMA FrameKeepsTrigger ==
  ASSUME TypeOK, TriggerInv, request' = request,
         \A j \in Jobs :
            /\ \/ status'[j] = status[j]
               \/ /\ request[j] = "committed"
                  /\ status'[j] \notin {"absent", "queued"}
            /\ message[j] = "unpublished" => message'[j] = "unpublished"
            /\ message'[j] = "acked" =>
                 \/ message[j] = "acked"
                 \/ request[j] # "open" /\ status[j] # "queued",
         \A w \in Slots :
            /\ pc'[w] # "idle" => pc[w] # "idle" /\ task'[w] = task[w]
            /\ pc'[w] = "mark" => pc[w] = "mark" /\ loaded'[w] = loaded[w]
            /\ pc'[w] \in {"step", "insert", "finish"} =>
                 pc[w] \in {"step", "insert", "finish"}
            /\ pc'[w] = "ack" => pc[w] \in {"step", "insert", "finish", "ack"}
  PROVE  TriggerInv'
  <1>1. \A j \in Jobs : status[j] # "queued" => status'[j] # "queued"
    OBVIOUS
  <1>2. ASSUME NEW j \in Jobs
        PROVE  /\ request'[j] = "none" => message'[j] = "unpublished"
               /\ request'[j] = "committed" <=> status'[j] # "absent"
               /\ message'[j] = "acked" =>
                    request'[j] # "open" /\ status'[j] # "queued"
    BY <1>1 DEF TriggerInv
  <1>3. ASSUME NEW w \in Slots, pc'[w] # "idle"
        PROVE  /\ request'[task'[w]] # "none"
               /\ pc'[w] = "mark" =>
                    /\ request'[task'[w]] = "committed"
                    /\ loaded'[w] = "running" => status'[task'[w]] # "queued"
               /\ pc'[w] \in {"step", "insert", "finish"} =>
                    /\ request'[task'[w]] = "committed"
                    /\ status'[task'[w]] # "queued"
               /\ pc'[w] = "ack" =>
                    /\ request'[task'[w]] # "open"
                    /\ status'[task'[w]] # "queued"
    <2>1. /\ pc[w] # "idle" /\ task'[w] = task[w] /\ task[w] \in Jobs
      BY <1>3 DEF TypeOK
    <2>2. CASE pc'[w] = "mark"
      BY <1>1, <2>1, <2>2 DEF TriggerInv
    <2>3. CASE pc'[w] \in {"step", "insert", "finish"}
      BY <1>1, <2>1, <2>3 DEF TriggerInv
    <2>4. CASE pc'[w] = "ack"
      BY <1>1, <2>1, <2>4 DEF TriggerInv
    <2>5. request'[task'[w]] # "none"
      BY <2>1 DEF TriggerInv
    <2> QED BY <2>2, <2>3, <2>4, <2>5
  <1> QED BY <1>2, <1>3 DEF TriggerInv

LEMMA NextTrigger ==
  ASSUME StatusWrapperBinds, "child_lost" \notin Faults
  PROVE  TypeOK /\ DeliveryInv /\ TriggerInv /\ RowBeforeTask /\ [Next]_vars
           => TriggerInv'
  <1> SUFFICES ASSUME TypeOK, DeliveryInv, TriggerInv, RowBeforeTask,
                      [Next]_vars
               PROVE  TriggerInv'
    OBVIOUS
  <1> USE DEF dbVars, slotVars, Goto
  <1>1. CASE UNCHANGED vars \/ Quiescent
    BY <1>1, FrameKeepsTrigger DEF vars, Quiescent
  <1>2. ASSUME NEW j \in Jobs, EnqueueJob(j) PROVE TriggerInv'
    BY <1>2 DEF EnqueueJob, TriggerInv, TypeOK
  <1>3. ASSUME NEW j \in Jobs, CommitRequest(j) PROVE TriggerInv'
    BY <1>3 DEF CommitRequest, TriggerInv, TypeOK
  <1>4. ASSUME NEW j \in Jobs, AbortRequest(j) PROVE TriggerInv'
    BY <1>4 DEF AbortRequest, TriggerInv, TypeOK
  <1>5. ASSUME NEW w \in Slots, NEW j \in Jobs, Receive(w, j)
        PROVE  TriggerInv'
    BY <1>5 DEF Receive, TriggerInv, TypeOK
  <1>6. ASSUME NEW w \in Slots, ReturnEarly(w) PROVE TriggerInv'
    BY <1>6 DEF ReturnEarly, RowBeforeTask, TriggerInv, TypeOK
  <1>7. ASSUME NEW w \in Slots, LoadJob(w) PROVE TriggerInv'
    BY <1>7 DEF LoadJob, RowBeforeTask, TriggerInv, TypeOK
  <1>8. ASSUME NEW w \in Slots, MarkRunning(w) PROVE TriggerInv'
    <2>1. /\ pc[w] = "mark" /\ pc' = [pc EXCEPT ![w] = "step"]
          /\ UNCHANGED <<request, message, task, loaded>>
          /\ status' = IF loaded[w] # "running"
                         THEN [status EXCEPT ![task[w]] = "running"]
                         ELSE status
      BY <1>8 DEF MarkRunning
    <2> QED BY <2>1 DEF TriggerInv, TypeOK
  <1>9. ASSUME NEW w \in Slots, RunStep(w) \/ Granulometry(w) \/ InsertResult(w)
        PROVE  TriggerInv'
    <2>1. UNCHANGED <<request, message, status, task, loaded>>
      BY <1>9 DEF RunStep, Granulometry, InsertResult
    <2>2. \A v \in Slots :
            /\ pc'[v] # "idle" => pc[v] # "idle"
            /\ pc'[v] = "mark" => pc[v] = "mark"
            /\ pc'[v] \in {"step", "insert", "finish"} =>
                 pc[v] \in {"step", "insert", "finish"}
            /\ pc'[v] = "ack" => pc[v] \in {"step", "insert", "finish", "ack"}
      BY <1>9 DEF RunStep, Granulometry, InsertResult, TypeOK
    <2> QED BY <2>1, <2>2, FrameKeepsTrigger
  <1>10. ASSUME NEW w \in Slots, Finish(w) \/ StepRaises(w)
        PROVE  TriggerInv'
    <2>1. UNCHANGED <<request, message, task, loaded>>
      BY <1>10 DEF Finish, StepRaises
    <2>2. /\ pc[w] \in {"step", "finish"} /\ request[task[w]] = "committed"
          /\ task[w] \in Jobs
      BY <1>10 DEF Finish, StepRaises, TriggerInv, TypeOK
    <2>3. \A j \in Jobs :
            \/ status'[j] = status[j]
            \/ j = task[w] /\ status'[j] \in {"completed", "failed"}
      BY <1>10 DEF Finish, StepRaises, TypeOK
    <2>4. \A v \in Slots :
            pc'[v] = pc[v] \/ (pc[v] \in {"step", "finish"} /\ pc'[v] = "ack")
      BY <1>10, <2>2 DEF Finish, StepRaises, TypeOK
    <2> QED BY <2>1, <2>2, <2>3, <2>4, FrameKeepsTrigger
  <1>11. ASSUME NEW w \in Slots, Ack(w) PROVE TriggerInv'
    <2>1. /\ request[task[w]] # "open" /\ status[task[w]] # "queued"
          /\ request[task[w]] # "none" /\ task[w] \in Jobs
      BY <1>11 DEF Ack, TriggerInv, TypeOK
    <2>2. UNCHANGED <<request, status>> /\ Release({w})
      BY <1>11 DEF Ack
    <2>3. \A j \in Jobs :
            message'[j] = message[j] \/ (message'[j] = "acked" /\ j = task[w]
                                         /\ owns[w])
      BY <1>11 DEF Ack, TypeOK
    <2>4. \A j \in Jobs : request[j] = "none" => message'[j] = "unpublished"
      BY <2>1, <2>3 DEF TriggerInv
    <2>5. \A v \in Slots : pc'[v] # "idle" =>
            pc'[v] = pc[v] /\ task'[v] = task[v] /\ loaded'[v] = loaded[v]
      BY <2>2 DEF Release, TypeOK
    <2> QED BY <2>1, <2>2, <2>3, <2>4, <2>5 DEF TriggerInv, TypeOK
  <1>12. CASE ContainerCrash
    <2>1. UNCHANGED <<request, status>> /\ \A v \in Slots : pc'[v] = "idle"
      BY <1>12 DEF ContainerCrash, Release
    <2>2. \A j \in Jobs :
            \/ message'[j] = message[j]
            \/ message'[j] = "ready" /\ \E w \in Slots : owns[w] /\ task[w] = j
      BY <1>12 DEF ContainerCrash
    <2>3. \A j \in Jobs : request[j] = "none" => message'[j] = "unpublished"
      BY <1>12, <2>2 DEF TriggerInv, DeliveryInv, DeliveryOwned
    <2> QED BY <2>1, <2>2, <2>3 DEF TriggerInv
  <1>13. ASSUME NEW w \in Slots, ChildLost(w) PROVE FALSE
    BY <1>13 DEF ChildLost, Fault
  <1>14. ASSUME NEW w \in Slots, Redeliver(w) PROVE TriggerInv'
    <2>1. UNCHANGED <<request, status, pc, task, loaded>>
      BY <1>14 DEF Redeliver
    <2>2. owns[w] /\ task[w] \in Jobs /\ message[task[w]] = "unacked"
      BY <1>14 DEF Redeliver, DeliveryInv, DeliveryOwned, TypeOK
    <2>3. message' = [message EXCEPT ![task[w]] = "ready"]
      BY <1>14 DEF Redeliver
    <2>4. \A j \in Jobs :
            /\ message[j] = "unpublished" => message'[j] = "unpublished"
            /\ message'[j] = "acked" => message[j] = "acked"
      BY <2>2, <2>3 DEF TypeOK
    <2> QED BY <2>1, <2>4, FrameKeepsTrigger
  <1> QED
    BY <1>1, <1>2, <1>3, <1>4, <1>5, <1>6, <1>7, <1>8, <1>9, <1>10, <1>11,
       <1>12, <1>13, <1>14 DEF Next, TaskStep

\* The only way for a committed job to stay QUEUED after its message is gone is
\* a worker that looks for the row before the request has committed, or a
\* killed child: no crash, storage error or repeated delivery leaves it behind.
THEOREM TriggeredJobsAreProcessed ==
  ASSUME StatusWrapperBinds, "child_lost" \notin Faults
  PROVE  Spec /\ []RowBeforeTask => []TriggeredJobIsProcessed
  <1>1. Init => TriggerInv
    BY DEF Init, TriggerInv
  <1>2. TriggerInv => TriggeredJobIsProcessed
    BY DEF TriggerInv, TriggeredJobIsProcessed
  <1> QED BY <1>1, <1>2, NextTrigger, DeliveryAlways, TypeCorrect, PTL DEF Spec

-----------------------------------------------------------------------------
(* The code as it stands: the status object cannot be bound.               *)

\* No task gets past the commit that should mark its job RUNNING.
UnboundInv ==
    /\ NothingStarts
    /\ \A w \in Slots : /\ pc[w] \in {"idle", "load", "mark", "ack"}
                        /\ pc[w] = "mark" => loaded[w] = "queued"

LEMMA NextUnbound ==
  ASSUME ~StatusWrapperBinds
  PROVE  TypeOK /\ UnboundInv /\ [Next]_vars => UnboundInv'
  <1> SUFFICES ASSUME TypeOK, UnboundInv, [Next]_vars PROVE UnboundInv'
    OBVIOUS
  <1> USE DEF dbVars, slotVars, Goto, TypeOK, UnboundInv, NothingStarts
  <1>1. CASE UNCHANGED vars \/ Quiescent
    BY <1>1 DEF vars, Quiescent
  <1>2. ASSUME NEW j \in Jobs,
               EnqueueJob(j) \/ CommitRequest(j) \/ AbortRequest(j)
        PROVE  UnboundInv'
    BY <1>2 DEF EnqueueJob, CommitRequest, AbortRequest
  <1>3. ASSUME NEW w \in Slots,
               \/ \E j \in Jobs : Receive(w, j)
               \/ ReturnEarly(w) \/ LoadJob(w) \/ MarkRunning(w)
        PROVE  UnboundInv'
    BY <1>3 DEF Receive, ReturnEarly, LoadJob, MarkRunning
  <1>4. ASSUME NEW w \in Slots,
               \/ RunStep(w) \/ Granulometry(w) \/ InsertResult(w) \/ Finish(w)
               \/ StepRaises(w)
        PROVE  FALSE
    BY <1>4 DEF RunStep, Granulometry, InsertResult, Finish, StepRaises
  <1>5. ASSUME NEW w \in Slots, Ack(w) \/ ChildLost(w) \/ Redeliver(w)
        PROVE  UnboundInv'
    <2>1. UNCHANGED dbVars
      BY <1>5 DEF Ack, ChildLost, Redeliver
    <2>2. Release({w}) \/ UNCHANGED <<pc, loaded>>
      BY <1>5 DEF Ack, ChildLost, Redeliver
    <2>3. \A v \in Slots :
            pc'[v] = "idle" \/ (pc'[v] = pc[v] /\ loaded'[v] = loaded[v])
      <3>1. CASE Release({w})
        BY <3>1 DEF Release
      <3>2. CASE UNCHANGED <<pc, loaded>>
        BY <3>2
      <3> QED BY <2>2, <3>1, <3>2
    <2> QED BY <2>1, <2>3
  <1>6. CASE ContainerCrash
    BY <1>6 DEF ContainerCrash, Release
  <1> QED
    BY <1>1, <1>2, <1>3, <1>4, <1>5, <1>6 DEF Next, TaskStep

\* While the ORM cannot bind a _JobStatus object no job ever leaves QUEUED and
\* no report is made, in any behaviour of the system.
THEOREM UnboundStatusStartsNothing ==
  ASSUME ~StatusWrapperBinds
  PROVE  Spec => []NothingStarts
  <1>1. Init => UnboundInv
    BY DEF Init, UnboundInv, NothingStarts
  <1>2. UnboundInv => NothingStarts
    BY DEF UnboundInv
  <1> QED BY <1>1, <1>2, NextUnbound, TypeCorrect, PTL DEF Spec

=============================================================================
