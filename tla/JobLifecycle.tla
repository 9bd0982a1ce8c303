---------------------------- MODULE JobLifecycle ----------------------------
(***************************************************************************)
(* What the analysis subsystem promises a client that polls a job and its  *)
(* report: a job is queued, runs (again, when an attempt failed or was     *)
(* interrupted), and is finished exactly once, in the step that publishes  *)
(* its report and recommendation.                                          *)
(***************************************************************************)
CONSTANT Jobs

VARIABLES
    status,   \* the status a client reads, "absent" before the job exists
    report    \* "requires_human_review" once the report can be read

vars == <<status, report>>

Init ==
    /\ status = [j \in Jobs |-> "absent"]
    /\ report = [j \in Jobs |-> "none"]

Submit(j) ==
    /\ status[j] = "absent"
    /\ status' = [status EXCEPT ![j] = "queued"]
    /\ UNCHANGED report

Start(j) ==
    /\ status[j] \in {"queued", "failed"}
    /\ status' = [status EXCEPT ![j] = "running"]
    /\ UNCHANGED report

Fail(j) ==
    /\ status[j] = "running"
    /\ status' = [status EXCEPT ![j] = "failed"]
    /\ UNCHANGED report

Complete(j) ==
    /\ status[j] = "running"
    /\ status' = [status EXCEPT ![j] = "completed"]
    /\ report' = [report EXCEPT ![j] = "requires_human_review"]

Next == \E j \in Jobs : Submit(j) \/ Start(j) \/ Fail(j) \/ Complete(j)

Spec == Init /\ [][Next]_vars
=============================================================================
