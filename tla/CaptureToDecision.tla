------------------------- MODULE CaptureToDecision -------------------------
(***************************************************************************)
(* Requests that validate their token and then upload an artifact, or      *)
(* review or comment on the recommendation that the analysis of the        *)
(* capture session has led to.  The analysis is the abstract one,          *)
(* JobLifecycle, which AnalysisPipeline implements.                        *)
(***************************************************************************)
EXTENDS CaptureUpload, RecommendationReview

VARIABLES
    status,   \* analysis_job.status, as in JobLifecycle
    report    \* the report of a job, as in JobLifecycle

Analysis == INSTANCE JobLifecycle WITH
    Jobs <- Jobs, status <- status, report <- report

jobVars == <<status, report>>
vars == <<keyVars, uploadVars, reviewVars, jobVars>>

Init ==
    /\ KeysInit
    /\ UploadInit
    /\ ReviewInit
    /\ Analysis!Init

\* The step that completes a job inserts its recommendation.
Analyse ==
    \E j \in Jobs :
        \/ /\ Analysis!Submit(j) \/ Analysis!Start(j) \/ Analysis!Fail(j)
           /\ UNCHANGED reviewVars
        \/ Analysis!Complete(j) /\ Recommend(j)

\* The endpoint of a request: an upload, a review, a comment; or the handler
\* refuses it (404, 415, 403 or 400) and changes nothing.
CallHandler(r) ==
    /\ Handle(r)
    /\ \/ StartUpload(r) /\ UNCHANGED reviewVars
       \/ /\ StartReview(r) \/ \E j, k \in Jobs : AddComment(r, j, k)
          /\ UNCHANGED uploadVars
       \/ UNCHANGED <<uploadVars, reviewVars>>
    /\ UNCHANGED jobVars

Validate ==
    /\ KeysStep
    /\ UNCHANGED <<uploadVars, reviewVars, jobVars>>

FinishHandler(r) ==
    /\ \/ FinishUpload(r) /\ UNCHANGED reviewVars
       \/ FinishReview(r) /\ UNCHANGED uploadVars
    /\ UNCHANGED <<keyVars, jobVars>>

Next ==
    \/ Validate
    \/ \E r \in Requests : CallHandler(r) \/ FinishHandler(r)
    \/ Analyse /\ UNCHANGED <<keyVars, uploadVars>>

\* What the event loop owes a request: nobody has to send one, and keys need
\* not expire.
Progress ==
    \/ KeysProgress /\ UNCHANGED <<uploadVars, reviewVars, jobVars>>
    \/ \E r \in Requests : CallHandler(r) \/ FinishHandler(r)

Spec == Init /\ [][Next]_vars /\ WF_vars(Progress)

-----------------------------------------------------------------------------
(* Properties. *)

TypeOK ==
    /\ KeysType
    /\ UploadType
    /\ ReviewType
    /\ status \in [Jobs -> {"absent", "queued", "running", "failed",
                            "completed"}]
    /\ report \in [Jobs -> {"none", "requires_human_review"}]

Over(r) ==
    \/ auth[r] = "failed"
    \/ /\ auth[r] = "handled"
       /\ upload[r].at \in {"idle", "done", "failed"}
       /\ review[r].at \in {"idle", "done", "failed"}

\* Every request ends, also when Keycloak is down and requests wait behind one
\* that goes through all its attempts with the lock held.
RequestsEnd == \A r \in Requests : auth[r] # "new" ~> Over(r)

=============================================================================
