---------------------- MODULE CaptureToDecisionProofs ----------------------
(***************************************************************************)
(* Uploads keep their counter below the frames and rows behind their       *)
(* objects; decisions are audited and follow the analysis.                 *)
(*                                                                         *)
(* Each of the three parts has an invariant of its own, which the steps of *)
(* that part keep: KeysInv (TokenKeysProofs), UploadInv and DecisionInv.   *)
(***************************************************************************)
EXTENDS CaptureToDecision, TokenKeysProofs, FiniteSetTheorems

USE ReviewAssumption, SessionsAssumption

-----------------------------------------------------------------------------
(* Uploads. *)

Busy(r) == upload[r].at \in {"read", "stored"}

\* A request adds a row once, at its end, and the object is there before.
RowsLast ==
    /\ \A a \in artifacts : upload[a.key].at = "done"
    /\ \A r \in Requests : upload[r].at = "stored" => r \in objects

\* What a request read of the counter is never too much later on, and what the
\* session was inserted with is always in it.
SeenBounded ==
    \A r \in Requests :
        LET s == upload[r].session
        IN  Busy(r) => /\ upload[r].seen <= Inserted(s) + Cardinality(Frames(s))
                       /\ upload[r].seen >= Inserted(s)

UploadInv ==
    /\ UploadType
    /\ IsFiniteSet(artifacts)
    /\ RowsLast
    /\ ArtifactHasObject
    /\ SeenBounded
    /\ FrameCountBounded

LEMMA InsertedNat == ASSUME NEW s PROVE Inserted(s) \in Nat
BY DEF Inserted

\* No uploads: UploadInv holds.
LEMMA UploadInitInv == UploadInit => UploadInv
<1> SUFFICES ASSUME UploadInit PROVE UploadInv
  OBVIOUS
<1>1. UploadType /\ RowsLast /\ ArtifactHasObject
  BY InsertedNat
     DEF UploadInit, UploadType, RowsLast, ArtifactHasObject, NoUpload, UploadAt
<1>2. SeenBounded
  BY DEF UploadInit, SeenBounded, Busy, NoUpload, UploadAt
<1>3. IsFiniteSet(artifacts) /\ \A s \in Sessions : Frames(s) = {}
  BY FS_EmptySet DEF UploadInit, Frames
<1>4. FrameCountBounded
  BY <1>3, FS_EmptySet, InsertedNat DEF UploadInit, FrameCountBounded
<1> QED BY <1>1, <1>2, <1>3, <1>4 DEF UploadInv

\* The frames of a session can be counted.
LEMMA FramesFinite ==
  ASSUME IsFiniteSet(artifacts), NEW s
  PROVE  IsFiniteSet(Frames(s)) /\ Cardinality(Frames(s)) \in Nat
<1>1. Frames(s) \in SUBSET artifacts
  BY DEF Frames
<1>2. IsFiniteSet(Frames(s))
  BY <1>1, FS_Subset
<1> QED BY <1>2, FS_CardinalityType

\* A request that works on a session has read all of it.
LEMMA BusyTyped ==
  ASSUME UploadType, NEW r \in Requests, Busy(r)
  PROVE  /\ upload[r] \in Uploads
         /\ upload[r].session \in Sessions /\ upload[r].frame \in BOOLEAN
         /\ upload[r].seen \in Nat
<1>1. upload[r] \in Uploads
  BY DEF UploadType, Busy
<1> QED BY <1>1 DEF Uploads

\* Steps that change the place of one request and no row.
LEMMA UploadMoves ==
  ASSUME UploadInv, NEW r \in Requests, upload[r].at # "done",
         UNCHANGED <<frameCount, artifacts>>,
         objects \subseteq objects', objects' \subseteq Requests,
         upload' \in [Requests ->
                        Uploads \cup [at : {"idle", "done", "failed"}]],
         \A q \in Requests : q # r => upload'[q] = upload[q],
         upload'[r].at = "stored" => r \in objects',
         upload'[r].at \in {"read", "stored"} =>
           LET s == upload'[r].session
           IN  /\ upload'[r].seen <= Inserted(s) + Cardinality(Frames(s))
               /\ upload'[r].seen >= Inserted(s)
  PROVE  UploadInv'
<1>1. UploadType'
  BY DEF UploadInv, UploadType
<1>2. RowsLast'
  BY DEF UploadInv, UploadType, RowsLast, Artifacts
<1>3. IsFiniteSet(artifacts)' /\ ArtifactHasObject'
  BY DEF UploadInv, ArtifactHasObject
<1>4. \A s : Frames(s)' = Frames(s)
  BY DEF Frames
<1>5. FrameCountBounded'
  BY <1>4 DEF UploadInv, FrameCountBounded, Inserted
<1>6. SeenBounded'
  <2> SUFFICES ASSUME NEW q \in Requests, Busy(q)'
               PROVE  LET s == upload'[q].session
                      IN  /\ upload'[q].seen <=
                                Inserted(s) + Cardinality(Frames(s))
                          /\ upload'[q].seen >= Inserted(s)
    BY <1>4 DEF SeenBounded, Inserted
  <2>1. CASE q = r
    BY <2>1 DEF Busy
  <2>2. CASE q # r
    BY <2>2 DEF UploadInv, SeenBounded, Busy
  <2> QED BY <2>1, <2>2
<1> QED BY <1>1, <1>2, <1>3, <1>5, <1>6 DEF UploadInv

\* A request reads a counter that its frames bound.
LEMMA StartUploadInv ==
  ASSUME UploadInv, NEW r \in Requests, NEW s \in Sessions,
         NEW frame \in BOOLEAN, ReadSession(r, s, frame)
  PROVE  UploadInv'
<1>1. /\ upload[r].at = "idle"
      /\ upload' = [upload EXCEPT ![r] =
           [at |-> "read", session |-> s, frame |-> frame,
            seen |-> frameCount[s]]]
      /\ UNCHANGED <<frameCount, artifacts, objects>>
  BY DEF ReadSession, NoUpload, UploadAt
<1>2. upload'[r] = [at |-> "read", session |-> s, frame |-> frame,
                    seen |-> frameCount[s]]
  BY <1>1 DEF UploadInv, UploadType
<1>3. upload'[r] \in Uploads
  BY <1>2 DEF Uploads, UploadInv, UploadType
<1>4. /\ upload'[r].seen <= Inserted(s) + Cardinality(Frames(s))
      /\ upload'[r].seen >= Inserted(s)
      /\ upload'[r].session = s
  BY <1>2 DEF UploadInv, FrameCountBounded
<1>5. /\ objects \subseteq Requests
      /\ upload' \in [Requests ->
                        Uploads \cup [at : {"idle", "done", "failed"}]]
  BY <1>1, <1>3 DEF UploadInv, UploadType
<1>6. \A q \in Requests : q # r => upload'[q] = upload[q]
  BY <1>1 DEF UploadInv, UploadType
<1> QED BY <1>1, <1>2, <1>4, <1>5, <1>6, UploadMoves

\* An object is stored before any row names it.
LEMMA StoreObjectInv ==
  ASSUME UploadInv, NEW r \in Requests, StoreObject(r)
  PROVE  UploadInv'
<1>1. /\ upload[r].at = "read"
      /\ upload' = [upload EXCEPT ![r].at = "stored"]
      /\ objects' = objects \cup {r}
      /\ UNCHANGED <<frameCount, artifacts>>
  BY DEF StoreObject
<1>2. upload[r] \in Uploads
  BY <1>1, BusyTyped DEF UploadInv, Busy
<1>3. upload'[r] = [upload[r] EXCEPT !.at = "stored"]
  BY <1>1 DEF UploadInv, UploadType
<1>4. /\ upload'[r] \in Uploads /\ upload'[r].seen = upload[r].seen
      /\ upload'[r].session = upload[r].session
  BY <1>2, <1>3 DEF Uploads
<1>5. LET s == upload[r].session
      IN  /\ upload[r].seen <= Inserted(s) + Cardinality(Frames(s))
          /\ upload[r].seen >= Inserted(s)
  BY <1>1 DEF UploadInv, SeenBounded, Busy
<1>6. /\ objects' \subseteq Requests /\ objects \subseteq objects'
      /\ r \in objects'
      /\ upload' \in [Requests ->
                        Uploads \cup [at : {"idle", "done", "failed"}]]
  BY <1>1, <1>4 DEF UploadInv, UploadType
<1>7. \A q \in Requests : q # r => upload'[q] = upload[q]
  BY <1>1 DEF UploadInv, UploadType
<1> QED BY <1>1, <1>4, <1>5, <1>6, <1>7, UploadMoves

\* A rollback touches no row and no object.
LEMMA UploadFailsInv ==
  ASSUME UploadInv, NEW r \in Requests, UploadFails(r)
  PROVE  UploadInv'
<1>1. /\ upload[r].at # "done"
      /\ upload' = [upload EXCEPT ![r] = [at |-> "failed"]]
      /\ UNCHANGED <<frameCount, artifacts, objects>>
  BY DEF UploadFails, UploadAt
<1>2. upload'[r] = [at |-> "failed"]
  BY <1>1 DEF UploadInv, UploadType
<1>3. /\ objects' \subseteq Requests
      /\ upload' \in [Requests ->
                        Uploads \cup [at : {"idle", "done", "failed"}]]
  BY <1>1 DEF UploadInv, UploadType
<1>4. \A q \in Requests : q # r => upload'[q] = upload[q]
  BY <1>1 DEF UploadInv, UploadType
<1> QED BY <1>1, <1>2, <1>3, <1>4, UploadMoves

\* A commit adds one frame to one session, or none.
LEMMA CommitAddsFrame ==
  ASSUME UploadInv, NEW r \in Requests, CommitUpload(r)
  PROVE  \A t : Cardinality(Frames(t)') =
                  IF t = upload[r].session /\ upload[r].frame
                  THEN Cardinality(Frames(t)) + 1 ELSE Cardinality(Frames(t))
<1> DEFINE a == Artifact(r)
           s == upload[r].session
<1>1. upload[r].at = "stored" /\ artifacts' = artifacts \cup {a}
  BY DEF CommitUpload
<1>2. a.session = s /\ a.frame = upload[r].frame /\ a \notin artifacts
  BY <1>1 DEF Artifact, UploadInv, RowsLast
<1>3. \A t : IsFiniteSet(Frames(t)) /\ Cardinality(Frames(t)) \in Nat
  BY FramesFinite DEF UploadInv
<1>4. upload[r].frame \in BOOLEAN
  BY <1>1, BusyTyped DEF UploadInv, Busy
<1> HIDE DEF a, s
<1> SUFFICES ASSUME NEW t
             PROVE  Cardinality(Frames(t)') =
                      IF t = s /\ upload[r].frame
                      THEN Cardinality(Frames(t)) + 1
                      ELSE Cardinality(Frames(t))
  BY DEF s
<1>5. /\ Frames(t)' = IF t = s /\ upload[r].frame THEN Frames(t) \cup {a}
                      ELSE Frames(t)
      /\ a \notin Frames(t)
  BY <1>1, <1>2, <1>4 DEF Frames
<1>6. Cardinality(Frames(t) \cup {a}) = Cardinality(Frames(t)) + 1
  BY <1>3, <1>5, FS_AddElement
<1> QED BY <1>5, <1>6

\* The row is a new one, so a frame that was seen to be missing is counted.
LEMMA CommitUploadInv ==
  ASSUME UploadInv, NEW r \in Requests, CommitUpload(r)
  PROVE  UploadInv'
<1> DEFINE a == Artifact(r)
           s == upload[r].session
<1>1. /\ upload[r].at = "stored"
      /\ upload' = [upload EXCEPT ![r] = [at |-> "done"]]
      /\ artifacts' = artifacts \cup {a}
      /\ objects' = objects
  BY DEF CommitUpload, UploadAt
<1>2. /\ s \in Sessions /\ upload[r].frame \in BOOLEAN
      /\ upload[r].seen \in Nat
  BY <1>1, BusyTyped DEF UploadInv, Busy
<1>3. /\ a.key = r /\ a.session = s /\ a.frame = upload[r].frame
      /\ a \in Artifacts /\ a \notin artifacts
  BY <1>1, <1>2 DEF Artifact, Artifacts, UploadInv, RowsLast
<1>4. /\ upload'[r] = [at |-> "done"]
      /\ \A q \in Requests : q # r => upload'[q] = upload[q]
  BY <1>1 DEF UploadInv, UploadType
<1> HIDE DEF a, s
<1>5. /\ IsFiniteSet(artifacts')
      /\ \A t : IsFiniteSet(Frames(t)) /\ Cardinality(Frames(t)) \in Nat
  BY <1>1, FS_AddElement, FramesFinite DEF UploadInv
<1>6. \A t : /\ Frames(t)' = IF t = s /\ upload[r].frame THEN Frames(t) \cup {a}
                             ELSE Frames(t)
             /\ a \notin Frames(t)
  BY <1>1, <1>2, <1>3 DEF Frames
<1>7. \A t : Cardinality(Frames(t)') = IF t = s /\ upload[r].frame
                                       THEN Cardinality(Frames(t)) + 1
                                       ELSE Cardinality(Frames(t))
  BY CommitAddsFrame DEF s
<1>8. UploadType'
  <2>1. /\ frameCount \in [Sessions -> Nat]
        /\ artifacts \subseteq Artifacts /\ objects \subseteq Requests
        /\ upload \in [Requests ->
                         Uploads \cup [at : {"idle", "done", "failed"}]]
    BY DEF UploadInv, UploadType
  <2>2. \/ frameCount' = frameCount
        \/ frameCount' = [frameCount EXCEPT ![s] = upload[r].seen + 1]
    BY DEF CommitUpload, s
  <2>3. upload[r].seen + 1 \in Nat
    BY <1>2
  <2>4. frameCount' \in [Sessions -> Nat]
    BY <1>2, <2>1, <2>2, <2>3
  <2>5. upload' \in [Requests ->
                        Uploads \cup [at : {"idle", "done", "failed"}]]
    BY <1>1, <2>1
  <2> QED BY <1>1, <1>3, <2>1, <2>4, <2>5 DEF UploadType
<1>9. RowsLast' /\ ArtifactHasObject'
  <2>1. \A b \in artifacts' : upload'[b.key].at = "done" /\ b.key \in objects'
    <3> SUFFICES ASSUME NEW b \in artifacts'
                 PROVE  upload'[b.key].at = "done" /\ b.key \in objects'
      OBVIOUS
    <3>1. CASE b = a
      BY <1>1, <1>3, <1>4, <3>1 DEF UploadInv, RowsLast
    <3>2. CASE b \in artifacts
      <4>1. /\ upload[b.key].at = "done" /\ b.key \in objects
            /\ b.key \in Requests
        BY <3>2 DEF UploadInv, RowsLast, ArtifactHasObject, UploadType
      <4> QED BY <1>1, <1>4, <4>1
    <3> QED BY <1>1, <3>1, <3>2
  <2>2. \A q \in Requests : upload'[q].at = "stored" => q \in objects'
    BY <1>1, <1>4 DEF UploadInv, RowsLast
  <2> QED BY <2>1, <2>2 DEF RowsLast, ArtifactHasObject
<1>10. SeenBounded'
  <2> SUFFICES ASSUME NEW q \in Requests, Busy(q)'
               PROVE  (/\ upload[q].seen <= Inserted(upload[q].session)
                             + Cardinality(Frames(upload[q].session))
                       /\ upload[q].seen >= Inserted(upload[q].session))'
    BY DEF SeenBounded
  <2>1. q # r /\ upload'[q] = upload[q] /\ Busy(q)
    BY <1>4 DEF Busy
  <2>2. PICK t : t = upload[q].session
    OBVIOUS
  <2>3. /\ upload[q].seen <= Inserted(t) + Cardinality(Frames(t))
        /\ upload[q].seen >= Inserted(t)
        /\ upload[q].seen \in Nat /\ Inserted(t) \in Nat
    BY <2>1, <2>2, BusyTyped, InsertedNat DEF UploadInv, SeenBounded
  <2>4. upload[q].seen <= Inserted(t) + Cardinality(Frames(t)')
    <3>1. \/ Cardinality(Frames(t)') = Cardinality(Frames(t)) + 1
          \/ Cardinality(Frames(t)') = Cardinality(Frames(t))
      BY <1>7
    <3> QED BY <1>5, <2>3, <3>1
  <2> QED BY <2>1, <2>2, <2>3, <2>4 DEF Frames, Inserted
<1>11. FrameCountBounded'
  <2> SUFFICES ASSUME NEW t \in Sessions
               PROVE  /\ frameCount'[t] <= Inserted(t) + Cardinality(Frames(t)')
                      /\ frameCount'[t] >= Inserted(t)
                      /\ Frames(t)' # {} => frameCount'[t] > Inserted(t)
    BY DEF FrameCountBounded, Inserted
  <2>0. /\ frameCount \in [Sessions -> Nat] /\ Inserted(t) \in Nat
        /\ frameCount[t] <= Inserted(t) + Cardinality(Frames(t))
        /\ frameCount[t] >= Inserted(t)
        /\ Frames(t) # {} => frameCount[t] > Inserted(t)
    BY InsertedNat DEF UploadInv, FrameCountBounded, UploadType
  <2>1. CASE t = s /\ upload[r].frame
    <3>1. frameCount'[t] = upload[r].seen + 1
      BY <1>2, <2>0, <2>1 DEF CommitUpload, s
    <3>2. /\ upload[r].seen <= Inserted(t) + Cardinality(Frames(t))
          /\ upload[r].seen >= Inserted(t)
      BY <1>1, <2>1 DEF UploadInv, SeenBounded, Busy, s
    <3>3. Cardinality(Frames(t)') = Cardinality(Frames(t)) + 1
      BY <1>7, <2>1
    <3> QED BY <1>2, <1>5, <2>0, <3>1, <3>2, <3>3
  <2>2. CASE ~(t = s /\ upload[r].frame)
    <3>1. frameCount'[t] = frameCount[t]
      BY <1>2, <2>0, <2>2 DEF CommitUpload, s
    <3>2. /\ Frames(t)' = Frames(t)
          /\ Cardinality(Frames(t)') = Cardinality(Frames(t))
      BY <1>6, <1>7, <2>2
    <3> QED BY <2>0, <3>1, <3>2
  <2> QED BY <2>1, <2>2
<1> QED BY <1>5, <1>8, <1>9, <1>10, <1>11 DEF UploadInv

\* Every step of an upload keeps UploadInv.
LEMMA UploadStepInv == UploadInv /\ [UploadNext]_uploadVars => UploadInv'
<1> SUFFICES ASSUME UploadInv, [UploadNext]_uploadVars PROVE UploadInv'
  OBVIOUS
<1>1. CASE UNCHANGED uploadVars
  <2>1. \A s : Frames(s)' = Frames(s)
    BY <1>1 DEF uploadVars, Frames
  <2> QED BY <1>1, <2>1 DEF uploadVars, UploadInv, UploadType, RowsLast,
               ArtifactHasObject, SeenBounded, FrameCountBounded, Busy, Inserted
<1> QED BY <1>1, StartUploadInv, StoreObjectInv, UploadFailsInv, CommitUploadInv
        DEF UploadNext, StartUpload, FinishUpload

-----------------------------------------------------------------------------
(* Decisions. *)

StatusType ==
    /\ status \in [Jobs -> {"absent", "queued", "running", "failed",
                            "completed"}]
    /\ report \in [Jobs -> {"none", "requires_human_review"}]

\* A row has a reviewer when it is decided.  A review works on a row that is
\* there and stays decided once it was read as decided.
ReviewsFollow ==
    /\ \A j \in Jobs : decision[j].by # Nobody => decision[j].status \in Decisions
    /\ \A r \in Requests :
         LET v == review[r]
         IN  v.at = "read" =>
               /\ decision[v.job].status # "absent"
               /\ v.seen.by # Nobody => v.seen.status \in Decisions
               /\ v.seen.status \in Decisions =>
                    decision[v.job].status \in Decisions

\* A recommendation is there from the completion of its job on.
DecidedAfterAnalysis ==
    \A j \in Jobs : decision[j].status # "absent" <=> status[j] = "completed"

DecisionInv ==
    /\ ReviewType
    /\ StatusType
    /\ DecidedAfterAnalysis
    /\ ReviewsFollow
    /\ DecisionAudited

\* No recommendations: DecisionInv holds.
LEMMA DecisionInitInv == ReviewInit /\ Analysis!Init => DecisionInv
<1> SUFFICES ASSUME ReviewInit, Analysis!Init PROVE DecisionInv
  OBVIOUS
<1>1. Row("absent", Nobody, Nobody) \in Rows
  BY DEF Row, Rows
<1>2. \A j \in Jobs : /\ decision[j] \in Rows
                      /\ decision[j].status = "absent" /\ decision[j].by = Nobody
  BY <1>1 DEF ReviewInit, Row
<1>3. ReviewType
  BY <1>2 DEF ReviewInit, ReviewType, NoReview, At
<1>4. StatusType /\ DecidedAfterAnalysis
  BY <1>2 DEF Analysis!Init, StatusType, DecidedAfterAnalysis
<1>5. ReviewsFollow
  BY <1>2 DEF ReviewInit, ReviewsFollow, NoReview, At
<1>6. DecisionAudited
  BY <1>2 DEF ReviewInit, DecisionAudited
<1> QED BY <1>3, <1>4, <1>5, <1>6 DEF DecisionInv

\* The parts of a recommendation row.
LEMMA RowsTyped ==
  ASSUME NEW d \in Rows
  PROVE  /\ d.status \in Decisions \cup {"absent", "requires_human_review"}
         /\ d.by \in Reviewers \cup {Nobody}
         /\ d.time \in Requests \cup {Nobody}
  BY DEF Rows

\* The parts of what a review has read.
LEMMA ReadTyped ==
  ASSUME ReviewType, NEW r \in Requests, review[r].at = "read"
  PROVE  /\ review[r] \in Reviews
         /\ review[r].job \in Jobs /\ review[r].status \in Decisions
         /\ review[r].by \in Reviewers /\ review[r].seen \in Rows
<1>1. review[r] \in Reviews
  BY DEF ReviewType
<1> QED BY <1>1 DEF Reviews

\* Steps that change the place of one request and neither rows nor log.
LEMMA ReviewMoves ==
  ASSUME DecisionInv, NEW r \in Requests,
         UNCHANGED <<decision, reviews, jobVars>>,
         comments' \subseteq Requests \X Jobs,
         review' \in [Requests ->
                        Reviews \cup [at : {"idle", "done", "failed"}]],
         \A q \in Requests : q # r => review'[q] = review[q],
         review'[r].at = "read" =>
           /\ review'[r].job \in Jobs
           /\ decision[review'[r].job].status # "absent"
           /\ review'[r].seen = decision[review'[r].job]
  PROVE  DecisionInv'
<1>1. ReviewType'
  BY DEF DecisionInv, ReviewType
<1>2. StatusType' /\ DecidedAfterAnalysis' /\ DecisionAudited'
  BY DEF DecisionInv, StatusType, DecidedAfterAnalysis, DecisionAudited, jobVars
<1>3. ReviewsFollow'
  <2> SUFFICES ASSUME NEW q \in Requests, review'[q].at = "read"
               PROVE  LET v == review'[q]
                      IN  /\ decision[v.job].status # "absent"
                          /\ v.seen.by # Nobody => v.seen.status \in Decisions
                          /\ v.seen.status \in Decisions =>
                               decision[v.job].status \in Decisions
    BY DEF DecisionInv, ReviewsFollow
  <2>1. CASE q = r
    BY <2>1 DEF DecisionInv, ReviewsFollow
  <2>2. CASE q # r
    BY <2>2 DEF DecisionInv, ReviewsFollow
  <2> QED BY <2>1, <2>2
<1> QED BY <1>1, <1>2, <1>3 DEF DecisionInv

\* A review reads a row that is audited, or still waits for a human.
LEMMA StartReviewInv ==
  ASSUME DecisionInv, NEW r \in Requests, NEW j \in Jobs, NEW s \in Decisions,
         NEW u \in Reviewers, ReadRecommendation(r, j, s, u), UNCHANGED jobVars
  PROVE  DecisionInv'
<1> DEFINE v == [at |-> "read", job |-> j, status |-> s, by |-> u,
                 seen |-> decision[j]]
<1>1. /\ decision[j].status # "absent"
      /\ review' = [review EXCEPT ![r] = v]
      /\ UNCHANGED <<decision, reviews, comments>>
  BY DEF ReadRecommendation
<1>2. v \in Reviews
  BY DEF Reviews, DecisionInv, ReviewType
<1>3. /\ review'[r] = v
      /\ \A q \in Requests : q # r => review'[q] = review[q]
      /\ review' \in [Requests ->
                        Reviews \cup [at : {"idle", "done", "failed"}]]
      /\ comments' \subseteq Requests \X Jobs
  BY <1>1, <1>2 DEF DecisionInv, ReviewType
<1> QED BY <1>1, <1>3, ReviewMoves

\* A comment decides nothing.
LEMMA AddCommentInv ==
  ASSUME DecisionInv, NEW r \in Requests, NEW j \in Jobs, NEW k \in Jobs,
         AddComment(r, j, k), UNCHANGED jobVars
  PROVE  DecisionInv'
<1>1. /\ comments' = comments \cup {<<r, k>>}
      /\ review' = [review EXCEPT ![r] = [at |-> "done"]]
      /\ UNCHANGED <<decision, reviews>>
  BY DEF AddComment, At
<1>2. /\ review'[r].at = "done"
      /\ \A q \in Requests : q # r => review'[q] = review[q]
      /\ review' \in [Requests ->
                        Reviews \cup [at : {"idle", "done", "failed"}]]
      /\ comments' \subseteq Requests \X Jobs
  BY <1>1 DEF DecisionInv, ReviewType
<1> QED BY <1>1, <1>2, ReviewMoves

\* A rollback leaves the row and the log as they were.
LEMMA ReviewFailsInv ==
  ASSUME DecisionInv, NEW r \in Requests, ReviewFails(r), UNCHANGED jobVars
  PROVE  DecisionInv'
<1>1. /\ review' = [review EXCEPT ![r] = [at |-> "failed"]]
      /\ UNCHANGED <<decision, reviews, comments>>
  BY DEF ReviewFails, At
<1>2. /\ review'[r].at = "failed"
      /\ \A q \in Requests : q # r => review'[q] = review[q]
      /\ review' \in [Requests ->
                        Reviews \cup [at : {"idle", "done", "failed"}]]
      /\ comments' \subseteq Requests \X Jobs
  BY <1>1 DEF DecisionInv, ReviewType
<1> QED BY <1>1, <1>2, ReviewMoves

\* The row that a review commits: its status is the one that was asked for, and
\* its reviewer the one who asked or the one who decided before.
LEMMA CommittedRow ==
  ASSUME DecisionInv, NEW r \in Requests, CommitReview(r)
  PROVE  LET v == review[r]
             d == decision[v.job]
         IN  /\ v.at = "read"
             /\ \E row \in Rows :
                  /\ decision' = [decision EXCEPT ![v.job] = row]
                  /\ \/ row.status = v.status
                     \/ row.status = d.status /\ d.status \in Decisions
                  /\ \/ row.by = v.by
                     \/ row.by = d.by /\ d.status \in Decisions
                  /\ v.seen = d => row = Row(v.status, v.by, r)
<1> DEFINE v == review[r]
           d == decision[v.job]
           new == IF v.status = v.seen.status THEN d.status ELSE v.status
           who == IF v.by = v.seen.by THEN d.by ELSE v.by
           row == Row(new, who, r)
<1>1. /\ v.at = "read" /\ v.job \in Jobs /\ v.status \in Decisions
      /\ v.by \in Reviewers /\ v.seen \in Rows /\ d \in Rows
  BY ReadTyped DEF CommitReview, DecisionInv, ReviewType
<1>2. decision' = [decision EXCEPT ![v.job] = row]
  BY DEF CommitReview
<1>3. \/ new = v.status
      \/ new = d.status /\ d.status \in Decisions
  BY <1>1 DEF DecisionInv, ReviewsFollow
<1>4. \/ who = v.by
      \/ who = d.by /\ d.status \in Decisions
  BY <1>1 DEF DecisionInv, ReviewsFollow
<1>5. new \in Decisions /\ who \in Reviewers \cup {Nobody}
  BY <1>1, <1>3, RowsTyped
<1> HIDE DEF new, who
<1>6. row \in Rows /\ row.status = new /\ row.by = who
  BY <1>5 DEF Row, Rows
<1>7. v.seen = d => new = v.status /\ who = v.by
  BY DEF new, who
<1> QED BY <1>1, <1>2, <1>3, <1>4, <1>6, <1>7

\* Each column of the merged row comes from a review in the log.
LEMMA CommitReviewInv ==
  ASSUME DecisionInv, NEW r \in Requests, CommitReview(r), UNCHANGED jobVars
  PROVE  DecisionInv'
<1> DEFINE v == review[r]
           d == decision[v.job]
           entry == [job |-> v.job, by |-> v.by, status |-> v.status]
<1>1. PICK row \in Rows :
        /\ decision' = [decision EXCEPT ![v.job] = row]
        /\ \/ row.status = v.status
           \/ row.status = d.status /\ d.status \in Decisions
        /\ \/ row.by = v.by
           \/ row.by = d.by /\ d.status \in Decisions
  BY CommittedRow
<1>2. /\ v.at = "read" /\ v.job \in Jobs /\ v.status \in Decisions
      /\ v.by \in Reviewers
  BY CommittedRow, ReadTyped DEF DecisionInv
<1>3. /\ review' = [review EXCEPT ![r] = [at |-> "done"]]
      /\ reviews' = reviews \cup {entry}
      /\ comments' = comments
      /\ status' = status /\ report' = report
  BY DEF CommitReview, At, jobVars
<1>4. /\ decision \in [Jobs -> Rows]
      /\ reviews \subseteq [job : Jobs, by : Reviewers, status : Decisions]
      /\ review \in [Requests -> Reviews \cup [at : {"idle", "done", "failed"}]]
  BY DEF DecisionInv, ReviewType
<1>5. /\ decision'[v.job] = row
      /\ \A j \in Jobs : j # v.job => decision'[j] = decision[j]
      /\ row.status \in Decisions /\ row.status # "absent"
  BY <1>1, <1>2, <1>4
<1>6. /\ review'[r] = [at |-> "done"]
      /\ \A q \in Requests : q # r => review'[q] = review[q]
  BY <1>3, <1>4
<1>7. entry \in [job : Jobs, by : Reviewers, status : Decisions]
  BY <1>2
<1>8. ReviewType'
  <2>1. decision' \in [Jobs -> Rows]
    BY <1>1, <1>4
  <2>2. reviews' \subseteq [job : Jobs, by : Reviewers, status : Decisions]
    BY <1>3, <1>4, <1>7
  <2>3. review' \in [Requests ->
                        Reviews \cup [at : {"idle", "done", "failed"}]]
    BY <1>3, <1>4
  <2> QED BY <1>3, <2>1, <2>2, <2>3 DEF DecisionInv, ReviewType
<1>9. StatusType' /\ DecidedAfterAnalysis'
  <2>1. d.status # "absent"
    BY <1>2 DEF DecisionInv, ReviewsFollow
  <2> QED BY <1>2, <1>3, <1>5, <2>1
          DEF DecisionInv, StatusType, DecidedAfterAnalysis
<1>10. ReviewsFollow'
  <2>1. \A j \in Jobs :
          decision'[j].by # Nobody => decision'[j].status \in Decisions
    BY <1>5 DEF DecisionInv, ReviewsFollow
  <2>2. ASSUME NEW q \in Requests, review'[q].at = "read"
        PROVE  LET w == review[q]
               IN  /\ review'[q] = w /\ w.at = "read" /\ w.job \in Jobs
                   /\ decision'[w.job].status # "absent"
                   /\ w.seen.by # Nobody => w.seen.status \in Decisions
                   /\ w.seen.status \in Decisions =>
                        decision'[w.job].status \in Decisions
    <3>1. q # r /\ review'[q] = review[q]
      BY <1>6, <2>2
    <3>2. review[q].at = "read" /\ review[q].job \in Jobs
      BY <2>2, <3>1, ReadTyped DEF DecisionInv
    <3> QED BY <1>5, <3>1, <3>2 DEF DecisionInv, ReviewsFollow
  <2> QED BY <2>1, <2>2 DEF ReviewsFollow
<1>11. DecisionAudited'
  <2> SUFFICES ASSUME NEW j \in Jobs
               PROVE  LET log == {e \in reviews' : e.job = j}
                      IN  IF decision'[j].status \in Decisions
                          THEN /\ \E e \in log : e.status = decision'[j].status
                               /\ \E e \in log : e.by = decision'[j].by
                          ELSE log = {}
    BY DEF DecisionAudited
  <2>1. entry.job = v.job /\ entry.by = v.by /\ entry.status = v.status
    OBVIOUS
  <2>2. CASE j = v.job
    <3>0. d.status \in Decisions =>
            /\ \E e \in reviews : e.job = j /\ e.status = d.status
            /\ \E e \in reviews : e.job = j /\ e.by = d.by
      BY <1>2, <2>2 DEF DecisionInv, DecisionAudited
    <3> HIDE DEF entry, d
    <3>1. \E e \in reviews' : e.job = j /\ e.status = row.status
      BY <1>1, <1>3, <2>1, <2>2, <3>0
    <3>2. \E e \in reviews' : e.job = j /\ e.by = row.by
      BY <1>1, <1>3, <2>1, <2>2, <3>0
    <3> QED BY <1>5, <2>2, <3>1, <3>2
  <2>3. CASE j # v.job
    <3>1. {e \in reviews' : e.job = j} = {e \in reviews : e.job = j}
      BY <1>3, <2>1, <2>3
    <3> QED BY <1>5, <2>3, <3>1 DEF DecisionInv, DecisionAudited
  <2> QED BY <2>2, <2>3
<1> QED BY <1>8, <1>9, <1>10, <1>11 DEF DecisionInv

\* The job moves before its recommendation is there; its completion brings it.
LEMMA AnalyseInv ==
  ASSUME DecisionInv, Analyse
  PROVE  DecisionInv'
<1>0. /\ decision \in [Jobs -> Rows]
      /\ status \in [Jobs -> {"absent", "queued", "running", "failed",
                              "completed"}]
      /\ report \in [Jobs -> {"none", "requires_human_review"}]
  BY DEF DecisionInv, ReviewType, StatusType
<1>1. ASSUME NEW j \in Jobs,
             Analysis!Submit(j) \/ Analysis!Start(j) \/ Analysis!Fail(j),
             UNCHANGED reviewVars
      PROVE  DecisionInv'
  <2>1. PICK to \in {"queued", "running", "failed"} :
          /\ status[j] # "completed" /\ status' = [status EXCEPT ![j] = to]
          /\ report' = report
    BY <1>1 DEF Analysis!Submit, Analysis!Start, Analysis!Fail
  <2>2. StatusType' /\ DecidedAfterAnalysis'
    BY <1>0, <1>1, <2>1
       DEF DecisionInv, StatusType, DecidedAfterAnalysis, reviewVars
  <2>3. ReviewType' /\ ReviewsFollow' /\ DecisionAudited'
    BY <1>1
       DEF DecisionInv, ReviewType, ReviewsFollow, DecisionAudited, reviewVars
  <2> QED BY <2>2, <2>3 DEF DecisionInv
<1>2. ASSUME NEW j \in Jobs, Analysis!Complete(j), Recommend(j)
      PROVE  DecisionInv'
  <2> DEFINE row == Row("requires_human_review", Nobody, Nobody)
  <2>1. /\ status[j] = "running"
        /\ status' = [status EXCEPT ![j] = "completed"]
        /\ report' = [report EXCEPT ![j] = "requires_human_review"]
        /\ decision' = [decision EXCEPT ![j] = row]
        /\ UNCHANGED <<reviews, comments, review>>
    BY <1>2 DEF Analysis!Complete, Recommend
  <2>2. /\ row \in Rows /\ row.status = "requires_human_review"
        /\ row.by = Nobody
    BY DEF Row, Rows
  <2>3. decision[j].status = "absent"
    BY <2>1 DEF DecisionInv, DecidedAfterAnalysis
  <2>4. /\ decision'[j] = row
        /\ \A k \in Jobs : k # j => decision'[k] = decision[k]
        /\ decision' \in [Jobs -> Rows]
    BY <1>0, <2>1, <2>2
  <2>5. ReviewType' /\ StatusType'
    BY <1>0, <2>1, <2>4 DEF DecisionInv, ReviewType, StatusType
  <2>6. DecidedAfterAnalysis'
    BY <1>0, <2>1, <2>2, <2>4 DEF DecisionInv, DecidedAfterAnalysis
  <2>7. ReviewsFollow'
    <3>1. \A k \in Jobs :
            decision'[k].by # Nobody => decision'[k].status \in Decisions
      BY <2>2, <2>4 DEF DecisionInv, ReviewsFollow
    <3>2. ASSUME NEW r \in Requests, review[r].at = "read"
          PROVE  decision'[review[r].job] = decision[review[r].job]
      BY <2>3, <2>4, <3>2, ReadTyped DEF DecisionInv, ReviewsFollow
    <3> QED BY <2>1, <3>1, <3>2 DEF DecisionInv, ReviewsFollow
  <2>8. DecisionAudited'
    <3>1. {e \in reviews : e.job = j} = {}
      BY <2>3 DEF DecisionInv, DecisionAudited
    <3> QED BY <2>1, <2>2, <2>4, <3>1 DEF DecisionInv, DecisionAudited
  <2> QED BY <2>5, <2>6, <2>7, <2>8 DEF DecisionInv
<1> QED BY <1>1, <1>2 DEF Analyse

\* A step of the whole is a step of each part, or leaves the part alone.
LEMMA NextParts ==
  [Next]_vars =>
    /\ [KeysNext]_keyVars
    /\ [UploadNext]_uploadVars
    /\ \/ UNCHANGED <<reviewVars, jobVars>>
       \/ Analyse
       \/ /\ UNCHANGED jobVars
          /\ \E r \in Requests :
               \/ StartReview(r)
               \/ FinishReview(r)
               \/ \E j, k \in Jobs : AddComment(r, j, k)
<1> SUFFICES ASSUME [Next]_vars
             PROVE  /\ [KeysNext]_keyVars
                    /\ [UploadNext]_uploadVars
                    /\ \/ UNCHANGED <<reviewVars, jobVars>>
                       \/ Analyse
                       \/ /\ UNCHANGED jobVars
                          /\ \E r \in Requests :
                               \/ StartReview(r)
                               \/ FinishReview(r)
                               \/ \E j, k \in Jobs : AddComment(r, j, k)
  OBVIOUS
<1>1. CASE UNCHANGED vars
  BY <1>1 DEF vars
<1>2. CASE Validate
  BY <1>2 DEF Validate, KeysNext
<1>3. ASSUME NEW r \in Requests, CallHandler(r)
      PROVE  /\ KeysNext /\ [UploadNext]_uploadVars /\ UNCHANGED jobVars
             /\ \/ UNCHANGED reviewVars
                \/ StartReview(r)
                \/ \E j, k \in Jobs : AddComment(r, j, k)
  BY <1>3 DEF CallHandler, KeysNext, UploadNext
<1>4. ASSUME NEW r \in Requests, FinishHandler(r)
      PROVE  /\ UNCHANGED keyVars /\ [UploadNext]_uploadVars
             /\ UNCHANGED jobVars
             /\ UNCHANGED reviewVars \/ FinishReview(r)
  BY <1>4 DEF FinishHandler, UploadNext
<1>5. CASE Analyse /\ UNCHANGED <<keyVars, uploadVars>>
  BY <1>5
<1> QED BY <1>1, <1>2, <1>3, <1>4, <1>5 DEF Next

\* Every step of the composition keeps DecisionInv.
LEMMA DecisionStepInv == DecisionInv /\ [Next]_vars => DecisionInv'
<1> SUFFICES ASSUME DecisionInv, [Next]_vars PROVE DecisionInv'
  OBVIOUS
<1>1. CASE UNCHANGED <<reviewVars, jobVars>>
  BY <1>1 DEF reviewVars, jobVars, DecisionInv, ReviewType, StatusType,
              DecidedAfterAnalysis, ReviewsFollow, DecisionAudited
<1>2. CASE Analyse
  BY <1>2, AnalyseInv
<1>3. ASSUME NEW r \in Requests, UNCHANGED jobVars,
             \/ StartReview(r) \/ FinishReview(r)
             \/ \E j, k \in Jobs : AddComment(r, j, k)
      PROVE  DecisionInv'
  BY <1>3, StartReviewInv, CommitReviewInv, ReviewFailsInv, AddCommentInv
     DEF StartReview, FinishReview
<1> QED BY <1>1, <1>2, <1>3, NextParts

-----------------------------------------------------------------------------
(* What the specification promises. *)

Inv == KeysInv /\ UploadInv /\ DecisionInv

\* The invariant of the keys, of the uploads and of the decisions, for any
\* number of requests, sessions, jobs and reviewers.
THEOREM Invariant == Spec => []Inv
<1>1. Init => Inv
  BY KeysInitInv, UploadInitInv, DecisionInitInv DEF Init, Inv
<1>2. Inv /\ [Next]_vars => Inv'
  BY KeysStepInv, UploadStepInv, DecisionStepInv, NextParts DEF Inv
<1> QED BY <1>1, <1>2, PTL DEF Spec

\* Every variable keeps its type.
THEOREM TypeCorrect == Spec => []TypeOK
<1>1. Inv => TypeOK
  BY DEF Inv, TypeOK, KeysInv, UploadInv, DecisionInv, StatusType
<1> QED BY <1>1, Invariant, PTL

\* jwt.py: keys are fetched once, and once more each time they got too old.
THEOREM FetchesAreShared == Spec => []KeysFetchedOnce
<1>1. Inv => KeysFetchedOnce
  BY DEF Inv, KeysInv
<1> QED BY <1>1, Invariant, PTL

\* jwt.py: whoever holds the lock of the key cache is still in its block, and
\* who is in the block holds it or waits for it.
THEOREM LockKept == Spec => []LockIsHandedOn
<1>1. Inv => LockIsHandedOn
  BY DEF Inv, KeysInv
<1> QED BY <1>1, Invariant, PTL

\* upload_artifact: however uploads overlap, the counter is between what the
\* session was inserted with and that many more than there are frames, and above
\* it when there is a frame.
THEOREM FramesBoundCount == Spec => []FrameCountBounded
<1>1. Inv => FrameCountBounded
  BY DEF Inv, UploadInv
<1> QED BY <1>1, Invariant, PTL

\* upload_artifact: a row is never without its object.
THEOREM RowsHaveObjects == Spec => []ArtifactHasObject
<1>1. Inv => ArtifactHasObject
  BY DEF Inv, UploadInv
<1> QED BY <1>1, Invariant, PTL

\* review_recommendation: status and reviewer of a decided recommendation are
\* those of audited reviews, whatever overlapped.
THEOREM DecisionsAreAudited == Spec => []DecisionAudited
<1>1. Inv => DecisionAudited
  BY DEF Inv, DecisionInv
<1> QED BY <1>1, Invariant, PTL

\* review_recommendation: a review that was not overtaken is recorded as given.
THEOREM UncontestedReviewsStand == Spec => UncontestedReviewRecorded
<1> DEFINE Recorded ==
             \A r \in Requests :
               LET v == review[r]
               IN  v.at = "read" /\ review'[r].at = "done"
                     /\ v.seen = decision[v.job]
                   => decision'[v.job] = Row(v.status, v.by, r)
<1>1. Inv /\ [Next]_vars => [Recorded]_reviewVars
  <2> SUFFICES ASSUME Inv, [Next]_vars, NEW r \in Requests,
                      review[r].at = "read", review'[r].at = "done",
                      review[r].seen = decision[review[r].job]
               PROVE  decision'[review[r].job] =
                        Row(review[r].status, review[r].by, r)
    OBVIOUS
  <2>0. /\ DecisionInv
        /\ review \in [Requests -> Reviews \cup [at : {"idle", "done", "failed"}]]
        /\ decision \in [Jobs -> Rows]
    BY DEF Inv, DecisionInv, ReviewType
  <2>1. CommitReview(r)
    <3>1. review' # review
      OBVIOUS
    <3>2. ASSUME NEW q \in Requests, NEW to,
                 review' = [review EXCEPT ![q] = to]
          PROVE  q = r /\ to.at = "done"
      BY <2>0, <3>2
    <3>3. ~Analyse /\ ~UNCHANGED <<reviewVars, jobVars>>
      BY <3>1 DEF Analyse, Recommend, reviewVars
    <3>4. PICK q \in Requests :
            \/ StartReview(q)
            \/ FinishReview(q)
            \/ \E j, k \in Jobs : AddComment(q, j, k)
      BY <3>3, NextParts
    <3>5. ~StartReview(q)
      BY <3>2 DEF StartReview, ReadRecommendation
    <3>6. ~\E j, k \in Jobs : AddComment(q, j, k)
      BY <3>2 DEF AddComment, NoReview, At
    <3>7. ~ReviewFails(q)
      BY <3>2 DEF ReviewFails, At
    <3>8. CommitReview(q) /\ q = r
      BY <3>2, <3>4, <3>5, <3>6, <3>7 DEF FinishReview, CommitReview
    <3> QED BY <3>8
  <2>2. review[r].job \in Jobs
    BY <2>0, ReadTyped DEF DecisionInv
  <2> QED BY <2>0, <2>1, <2>2, CommittedRow
<1> QED BY <1>1, Invariant, PTL DEF Spec, UncontestedReviewRecorded

-----------------------------------------------------------------------------
(* Uploads that keep apart are all counted. *)

\* The counter is right, and so is what the requests under way have read of it.
CountInv ==
    /\ FramesCounted
    /\ \A r \in Requests :
         Counting(r) => upload[r].seen = frameCount[upload[r].session]

LEMMA CountInitInv == UploadInit => CountInv
<1> SUFFICES ASSUME UploadInit PROVE CountInv
  OBVIOUS
<1>1. \A s \in Sessions : Frames(s) = {}
  BY DEF UploadInit, Frames
<1>2. FramesCounted
  BY <1>1, FS_EmptySet, InsertedNat DEF UploadInit, FramesCounted
<1> QED BY <1>2 DEF UploadInit, CountInv, Counting, NoUpload, UploadAt

LEMMA CountStepInv ==
  ASSUME UploadInv, CountInv, UploadsApart, [UploadNext]_uploadVars
  PROVE  CountInv'
<1>0. /\ frameCount \in [Sessions -> Nat]
      /\ upload \in [Requests ->
                       Uploads \cup [at : {"idle", "done", "failed"}]]
  BY DEF UploadInv, UploadType
<1>1. CASE UNCHANGED uploadVars
  <2>1. \A s : Frames(s)' = Frames(s)
    BY <1>1 DEF uploadVars, Frames
  <2> QED BY <1>1, <2>1 DEF uploadVars, CountInv, FramesCounted, Counting
<1>2. ASSUME NEW r \in Requests,
             StartUpload(r) \/ StoreObject(r) \/ UploadFails(r)
      PROVE  CountInv'
  <2>1. /\ UNCHANGED <<frameCount, artifacts>>
        /\ \A q \in Requests : q # r => upload'[q] = upload[q]
        /\ Counting(r)' => upload'[r].seen = frameCount[upload'[r].session]
    <3>1. ASSUME NEW s \in Sessions, NEW frame \in BOOLEAN,
                 ReadSession(r, s, frame)
          PROVE  /\ UNCHANGED <<frameCount, artifacts>>
                 /\ \A q \in Requests : q # r => upload'[q] = upload[q]
                 /\ upload'[r].seen = frameCount[upload'[r].session]
      BY <1>0, <3>1 DEF ReadSession
    <3>2. CASE StoreObject(r)
      <4>1. /\ upload[r].at = "read" /\ upload[r] \in Uploads
            /\ upload' = [upload EXCEPT ![r].at = "stored"]
            /\ UNCHANGED <<frameCount, artifacts>>
        BY <1>0, <3>2, BusyTyped DEF StoreObject, Busy, UploadInv
      <4>2. /\ upload'[r].seen = upload[r].seen
            /\ upload'[r].frame = upload[r].frame
            /\ upload'[r].session = upload[r].session
        BY <1>0, <4>1 DEF Uploads
      <4> QED BY <1>0, <4>1, <4>2 DEF CountInv, Counting
    <3>3. CASE UploadFails(r)
      BY <1>0, <3>3 DEF UploadFails, UploadAt, Counting
    <3> QED BY <1>2, <3>1, <3>2, <3>3 DEF StartUpload
  <2>2. \A s : Frames(s)' = Frames(s)
    BY <2>1 DEF Frames
  <2> QED BY <2>1, <2>2 DEF CountInv, FramesCounted, Counting
<1>3. ASSUME NEW r \in Requests, CommitUpload(r) PROVE CountInv'
  <2> DEFINE s == upload[r].session
  <2>1. /\ s \in Sessions /\ upload[r].frame \in BOOLEAN
        /\ upload[r].seen \in Nat
        /\ upload[r].at = "stored"
        /\ upload' = [upload EXCEPT ![r] = [at |-> "done"]]
        /\ frameCount' = IF upload[r].frame
                         THEN [frameCount EXCEPT ![s] = upload[r].seen + 1]
                         ELSE frameCount
    BY <1>3, BusyTyped DEF CommitUpload, UploadAt, UploadInv, Busy
  <2>2. upload[r].frame =>
          upload[r].seen = Inserted(s) + Cardinality(Frames(s))
    BY <2>1 DEF CountInv, FramesCounted, Counting
  <2>3. \A q \in Requests :
          /\ Counting(q)' => q # r /\ Counting(q) /\ upload'[q] = upload[q]
          /\ Counting(q) => upload[q].session \in Sessions
    BY <1>0, <2>1, BusyTyped DEF Counting, UploadInv, Busy
  <2>4. ASSUME NEW q \in Requests, Counting(q)'
        PROVE  upload'[q].seen = frameCount'[upload'[q].session]
    <3>1. upload[r].frame => upload[q].session # s
      BY <2>1, <2>3, <2>4 DEF UploadsApart, Counting
    <3>2. frameCount'[upload[q].session] = frameCount[upload[q].session]
      BY <1>0, <2>1, <2>3, <2>4, <3>1
    <3> QED BY <2>3, <2>4, <3>2 DEF CountInv
  <2>5. ASSUME NEW t \in Sessions
        PROVE  frameCount'[t] = Inserted(t) + Cardinality(Frames(t)')
    <3>1. frameCount[t] = Inserted(t) + Cardinality(Frames(t))
      BY DEF CountInv, FramesCounted
    <3>2. Cardinality(Frames(t)') = IF t = s /\ upload[r].frame
                                    THEN Cardinality(Frames(t)) + 1
                                    ELSE Cardinality(Frames(t))
      BY <1>3, CommitAddsFrame
    <3>3. /\ Inserted(t) \in Nat
          /\ IsFiniteSet(Frames(t)) /\ Cardinality(Frames(t)) \in Nat
      BY InsertedNat, FramesFinite DEF UploadInv
    <3> QED BY <1>0, <2>1, <2>2, <3>1, <3>2, <3>3
  <2> QED BY <2>4, <2>5 DEF CountInv, FramesCounted, Inserted
<1> QED BY <1>1, <1>2, <1>3 DEF UploadNext, FinishUpload

\* upload_artifact: only frames that are on their way to one session at the same
\* time make frame_count wrong; failed uploads and other artifacts do not.
THEOREM FramesAreCountedWhenApart == Spec /\ []UploadsApart => []FramesCounted
<1>1. Init => CountInv
  BY CountInitInv DEF Init
<1>2. Inv /\ CountInv /\ UploadsApart /\ [Next]_vars => CountInv'
  BY CountStepInv, NextParts DEF Inv
<1>3. CountInv => FramesCounted
  BY DEF CountInv
<1> QED BY <1>1, <1>2, <1>3, Invariant, PTL DEF Spec

-----------------------------------------------------------------------------
(* Reviews that keep apart are recorded as they were given. *)

\* What a review has read is what is there.
StandInv ==
    /\ DecisionIsReview
    /\ \A r \in Requests :
         review[r].at = "read" => review[r].seen = decision[review[r].job]

LEMMA StandStepInv ==
  ASSUME Inv, StandInv, ReviewsApart, [Next]_vars
  PROVE  StandInv'
<1>0. /\ DecisionInv
      /\ review \in [Requests -> Reviews \cup [at : {"idle", "done", "failed"}]]
      /\ decision \in [Jobs -> Rows]
  BY DEF Inv, DecisionInv, ReviewType
<1>1. CASE UNCHANGED reviewVars
  BY <1>1 DEF reviewVars, StandInv, DecisionIsReview
<1>2. ASSUME NEW j \in Jobs, Analysis!Complete(j), Recommend(j)
      PROVE  StandInv'
  <2>1. /\ decision' = [decision EXCEPT ![j] =
                          Row("requires_human_review", Nobody, Nobody)]
        /\ UNCHANGED <<reviews, review>>
    BY <1>2 DEF Recommend
  <2>2. decision'[j].status \notin Decisions
    BY <1>0, <2>1 DEF Row
  <2>3. decision[j].status = "absent"
    BY <1>2 DEF Analysis!Complete, Inv, DecisionInv, DecidedAfterAnalysis
  <2>4. ASSUME NEW r \in Requests, review[r].at = "read"
        PROVE  decision'[review[r].job] = decision[review[r].job]
    BY <1>0, <2>1, <2>3, <2>4, ReadTyped DEF DecisionInv, ReviewsFollow
  <2> QED BY <1>0, <2>1, <2>2, <2>4 DEF StandInv, DecisionIsReview
<1>3. ASSUME NEW r \in Requests,
             \/ StartReview(r) \/ ReviewFails(r)
             \/ \E j, k \in Jobs : AddComment(r, j, k)
      PROVE  StandInv'
  <2>1. /\ UNCHANGED <<decision, reviews>>
        /\ \A q \in Requests : q # r => review'[q] = review[q]
        /\ review'[r].at = "read" =>
             review'[r].seen = decision[review'[r].job]
    BY <1>0, <1>3
       DEF StartReview, ReadRecommendation, ReviewFails, AddComment, At
  <2> QED BY <2>1 DEF StandInv, DecisionIsReview
<1>4. ASSUME NEW r \in Requests, CommitReview(r) PROVE StandInv'
  <2> DEFINE v == review[r]
  <2>1. /\ v.at = "read" /\ v.job \in Jobs /\ v.seen = decision[v.job]
        /\ review' = [review EXCEPT ![r] = [at |-> "done"]]
        /\ reviews' = reviews \cup
             {[job |-> v.job, by |-> v.by, status |-> v.status]}
    BY <1>0, <1>4, ReadTyped DEF CommitReview, At, StandInv, DecisionInv
  <2>2. /\ decision'[v.job] = Row(v.status, v.by, r)
        /\ \A k \in Jobs : k # v.job => decision'[k] = decision[k]
    BY <1>0, <1>4, <2>1, CommittedRow DEF CommitReview
  <2>3. ASSUME NEW q \in Requests, review'[q].at = "read"
        PROVE  review'[q].seen = decision'[review'[q].job]
    <3>1. q # r /\ review'[q] = review[q]
      BY <1>0, <2>1, <2>3
    <3>2. review[q].job \in Jobs /\ review[q].job # v.job
      BY <1>0, <2>1, <2>3, <3>1, ReadTyped DEF ReviewsApart, DecisionInv
    <3> QED BY <2>2, <2>3, <3>1, <3>2 DEF StandInv
  <2>4. DecisionIsReview'
    BY <2>1, <2>2 DEF StandInv, DecisionIsReview, Row
  <2> QED BY <2>3, <2>4 DEF StandInv
<1> QED BY <1>1, <1>2, <1>3, <1>4, NextParts DEF Analyse, FinishReview

\* review_recommendation: only reviews that overlap can put the status of one
\* reviewer beside the name of another.
THEOREM DecisionsAreReviewsWhenApart ==
  Spec /\ []ReviewsApart => []DecisionIsReview
<1>1. Init => StandInv
  BY DEF Init, ReviewInit, StandInv, DecisionIsReview, Row, NoReview, At
<1>2. Inv /\ StandInv /\ ReviewsApart /\ [Next]_vars => StandInv'
  BY StandStepInv
<1>3. StandInv => DecisionIsReview
  BY DEF StandInv
<1> QED BY <1>1, <1>2, <1>3, Invariant, PTL DEF Spec

=============================================================================
