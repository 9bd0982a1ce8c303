------------------------ MODULE RecommendationReview ------------------------
(***************************************************************************)
(* review_recommendation and add_comment: concurrent decisions about the   *)
(* recommendation of a report.                                             *)
(*                                                                         *)
(* A review selects the recommendation in whatever status it is, sets      *)
(* status, reviewer and time, and commits with an audit row.  The UPDATE   *)
(* names the columns that differ from what was selected, so the committed  *)
(* row can be made of two reviews that overlapped.                         *)
(***************************************************************************)
EXTENDS TokenKeys

CONSTANTS
    Jobs,        \* analysis jobs; the report and recommendation of a job
    Reviewers,   \* users with the role BLASTER
    Nobody,      \* "no user, no request"
    Decisions    \* the statuses that reviews of the instance ask for

ASSUME ReviewAssumption ==
    /\ Decisions \subseteq {"reviewed", "accepted", "rejected"}
    /\ Nobody \notin Reviewers \cup Requests

VARIABLES
    decision,   \* recommendation rows
    reviews,    \* their audit_log rows
    comments,   \* comment rows: request and recommendation
    review      \* review[r]: what the request works on

reviewVars == <<decision, reviews, comments, review>>

\* Not reviewing, or over.
At(place) == [at |-> place]
NoReview == At("idle")

\* A row: its status, reviewed_by_id, and reviewed_at as the request that set it.
Row(status, by, time) == [status |-> status, by |-> by, time |-> time]
Rows == [status : Decisions \cup {"absent", "requires_human_review"},
         by : Reviewers \cup {Nobody}, time : Requests \cup {Nobody}]

Reviews == [at : {"read"}, job : Jobs, status : Decisions, by : Reviewers,
            seen : Rows]

-----------------------------------------------------------------------------
ReviewInit ==
    /\ decision = [j \in Jobs |-> Row("absent", Nobody, Nobody)]
    /\ reviews = {}
    /\ comments = {}
    /\ review = [r \in Requests |-> NoReview]

\* The worker inserts the recommendation with the report.
Recommend(j) ==
    /\ decision' = [decision EXCEPT
                      ![j] = Row("requires_human_review", Nobody, Nobody)]
    /\ UNCHANGED <<reviews, comments, review>>

\* The report leads to its quarry, where the caller has the role, and the
\* status that is asked for is a decision; otherwise 404, 403 or 400.
ReadRecommendation(r, j, s, u) ==
    /\ review[r] = NoReview
    /\ decision[j].status # "absent"
    /\ review' = [review EXCEPT ![r] =
         [at |-> "read", job |-> j, status |-> s, by |-> u,
          seen |-> decision[j]]]
    /\ UNCHANGED <<decision, reviews, comments>>

\* Mutant of CommitReview: the audit row is written for final decisions only.
CommitReviewUnaudited(r) ==
    LET v == review[r]
    IN  /\ v.at = "read"
        /\ review' = [review EXCEPT ![r] = At("done")]
        /\ decision' = [decision EXCEPT ![v.job] = Row(v.status, v.by, r)]
        /\ reviews' = IF v.status = "reviewed" THEN reviews
                      ELSE reviews \cup
                        {[job |-> v.job, by |-> v.by, status |-> v.status]}
        /\ UNCHANGED comments

\* Mutant of CommitReview: the first reviewer of a recommendation is kept.
CommitKeepingReviewer(r) ==
    LET v == review[r]
    IN  /\ v.at = "read"
        /\ review' = [review EXCEPT ![r] = At("done")]
        /\ decision' = [decision EXCEPT ![v.job] =
             Row(v.status, IF @.by = Nobody THEN v.by ELSE @.by, r)]
        /\ reviews' = reviews \cup
             {[job |-> v.job, by |-> v.by, status |-> v.status]}
        /\ UNCHANGED comments

\* Only the columns that differ from the selected row are written.
CommitReview(r) ==
    LET v == review[r]
        Written(new, seen, now) == IF new = seen THEN now ELSE new
    IN  /\ v.at = "read"
        /\ review' = [review EXCEPT ![r] = At("done")]
        /\ decision' = [decision EXCEPT ![v.job] =
             Row(Written(v.status, v.seen.status, @.status),
                 Written(v.by, v.seen.by, @.by), r)]
        /\ reviews' = reviews \cup
             {[job |-> v.job, by |-> v.by, status |-> v.status]}
        /\ UNCHANGED comments

ReviewFails(r) ==
    /\ review[r].at = "read"
    /\ review' = [review EXCEPT ![r] = At("failed")]
    /\ UNCHANGED <<decision, reviews, comments>>

\* add_comment inserts and commits.  It has looked at a report; that the
\* recommendation is one of that report is not checked.
AddComment(r, j, k) ==
    /\ review[r] = NoReview
    /\ decision[j].status # "absent" /\ decision[k].status # "absent"
    /\ comments' = comments \cup {<<r, k>>}
    /\ review' = [review EXCEPT ![r] = At("done")]
    /\ UNCHANGED <<decision, reviews>>

StartReview(r) ==
    \E j \in Jobs, s \in Decisions, u \in Reviewers :
        ReadRecommendation(r, j, s, u)

FinishReview(r) == CommitReview(r) \/ ReviewFails(r)

ReviewNext ==
    \/ \E j \in Jobs : Recommend(j)
    \/ \E r \in Requests :
         \/ StartReview(r)
         \/ FinishReview(r)
         \/ \E j, k \in Jobs : AddComment(r, j, k)

-----------------------------------------------------------------------------
(* Properties. *)

ReviewType ==
    /\ decision \in [Jobs -> Rows]
    /\ reviews \subseteq [job : Jobs, by : Reviewers, status : Decisions]
    /\ comments \subseteq Requests \X Jobs
    /\ review \in [Requests ->
                     Reviews \cup [at : {"idle", "done", "failed"}]]

\* A recommendation that waits for a human has no review in the audit log; a
\* decided one has its status from an audited review, and its reviewer too,
\* though perhaps from another one when reviews overlapped.
DecisionAudited ==
    \A j \in Jobs :
        LET log == {v \in reviews : v.job = j}
        IN  IF decision[j].status \in Decisions
            THEN /\ \E v \in log : v.status = decision[j].status
                 /\ \E v \in log : v.by = decision[j].by
            ELSE log = {}

\* A review that nobody overtook between its read and its commit is recorded
\* as it was given: status and reviewer belong together.
UncontestedReviewRecorded ==
    [][\A r \in Requests :
         LET v == review[r]
         IN  v.at = "read" /\ review'[r].at = "done" /\ v.seen = decision[v.job]
               => decision'[v.job] = Row(v.status, v.by, r)]_reviewVars

\* No two reviews of one recommendation overlap.
ReviewsApart ==
    \A q, r \in Requests :
        q # r /\ review[q].at = "read" /\ review[r].at = "read"
            => review[q].job # review[r].job

\* A decided recommendation is one review: who is named as its reviewer gave it
\* the status it has.
DecisionIsReview ==
    \A j \in Jobs :
        decision[j].status \in Decisions =>
            [job |-> j, by |-> decision[j].by, status |-> decision[j].status]
                \in reviews

=============================================================================
