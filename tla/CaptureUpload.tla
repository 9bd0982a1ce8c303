--------------------------- MODULE CaptureUpload ---------------------------
(***************************************************************************)
(* upload_artifact: concurrent uploads to capture sessions.                *)
(*                                                                         *)
(* The handler selects the session (and with it frame_count), reads the    *)
(* file, stores the object and then flushes and commits the artifact's row *)
(* with the counter it computed from what it had read.  The UPDATE waits   *)
(* for the one of another upload and then writes its value all the same.   *)
(***************************************************************************)
EXTENDS TokenKeys, FiniteSets

CONSTANTS
    Sessions,        \* capture sessions
    SeededSessions,  \* those that dev_seed inserted
    SeededFrames     \* the frame_count it gives them, 12, without any frame

ASSUME SessionsAssumption ==
    SeededSessions \subseteq Sessions /\ SeededFrames \in Nat

\* The frame_count a session is inserted with.
Inserted(s) == IF s \in SeededSessions THEN SeededFrames ELSE 0

VARIABLES
    frameCount,  \* capture_session.frame_count
    artifacts,   \* artifact rows, with the request that inserted them
    objects,     \* objects in the buckets, by the request that stored them
    upload       \* upload[r]: what the request works on

uploadVars == <<frameCount, artifacts, objects, upload>>

\* Not uploading, or over.
UploadAt(place) == [at |-> place]
NoUpload == UploadAt("idle")

\* The kind of artifact, and what was read of the session.
Uploads == [at : {"read", "stored"}, session : Sessions, frame : BOOLEAN,
            seen : Nat]
Artifacts == [key : Requests, session : Sessions, frame : BOOLEAN]

\* The row of a request's artifact; storage_key is its own.
Artifact(r) ==
    [key |-> r, session |-> upload[r].session, frame |-> upload[r].frame]

Frames(s) == {a \in artifacts : a.session = s /\ a.frame}

-----------------------------------------------------------------------------
\* A session is inserted in one step, by create_capture_session or dev_seed, and
\* no upload finds it before.
UploadInit ==
    /\ frameCount = [s \in Sessions |-> Inserted(s)]
    /\ artifacts = {}
    /\ objects = {}
    /\ upload = [r \in Requests |-> NoUpload]

\* The session exists and a frame is JPEG or PNG; otherwise 404 or 415, and
\* nothing has been stored.
ReadSession(r, s, frame) ==
    /\ upload[r] = NoUpload
    /\ upload' = [upload EXCEPT ![r] =
         [at |-> "read", session |-> s, frame |-> frame,
          seen |-> frameCount[s]]]
    /\ UNCHANGED <<frameCount, artifacts, objects>>

\* Mutant of StoreObject: an upload to the store that fails is not noticed.
StoreUnchecked(r) ==
    /\ upload[r].at = "read"
    /\ upload' = [upload EXCEPT ![r].at = "stored"]
    /\ objects' \in {objects, objects \cup {r}}
    /\ UNCHANGED <<frameCount, artifacts>>

\* StorageService.upload_file, under a new key for each upload.
StoreObject(r) ==
    /\ upload[r].at = "read"
    /\ upload' = [upload EXCEPT ![r].at = "stored"]
    /\ objects' = objects \cup {r}
    /\ UNCHANGED <<frameCount, artifacts>>

\* Mutant of CommitUpload: every artifact is counted.
CommitCountingAll(r) ==
    /\ upload[r].at = "stored"
    /\ upload' = [upload EXCEPT ![r] = UploadAt("done")]
    /\ artifacts' = artifacts \cup {Artifact(r)}
    /\ frameCount' = [frameCount EXCEPT
                        ![upload[r].session] = upload[r].seen + 1]
    /\ UNCHANGED objects

CommitUpload(r) ==
    /\ upload[r].at = "stored"
    /\ upload' = [upload EXCEPT ![r] = UploadAt("done")]
    /\ artifacts' = artifacts \cup {Artifact(r)}
    /\ frameCount' = IF upload[r].frame
                     THEN [frameCount EXCEPT
                             ![upload[r].session] = upload[r].seen + 1]
                     ELSE frameCount
    /\ UNCHANGED objects

\* The store or the database fails, or the client has gone: the rows are
\* rolled back, and an object that was stored stays.
UploadFails(r) ==
    /\ upload[r].at \in {"read", "stored"}
    /\ upload' = [upload EXCEPT ![r] = UploadAt("failed")]
    /\ UNCHANGED <<frameCount, artifacts, objects>>

StartUpload(r) ==
    \E s \in Sessions, frame \in BOOLEAN : ReadSession(r, s, frame)

\* The rest of the handler.
FinishUpload(r) == StoreObject(r) \/ CommitUpload(r) \/ UploadFails(r)

UploadNext == \E r \in Requests : StartUpload(r) \/ FinishUpload(r)

-----------------------------------------------------------------------------
(* Properties. *)

UploadType ==
    /\ frameCount \in [Sessions -> Nat]
    /\ artifacts \subseteq Artifacts
    /\ objects \subseteq Requests
    /\ upload \in [Requests ->
                     Uploads \cup [at : {"idle", "done", "failed"}]]

\* frame_count can miss frames when uploads overlap, and can fall.  On top of
\* what the session was inserted with it never counts more frames than were
\* uploaded, and it counts one as soon as there is one.
FrameCountBounded ==
    \A s \in Sessions :
        /\ frameCount[s] <= Inserted(s) + Cardinality(Frames(s))
        /\ frameCount[s] >= Inserted(s)
        /\ Frames(s) # {} => frameCount[s] > Inserted(s)

\* The object comes first: a row that can be read has its object, whatever
\* failed in between.
ArtifactHasObject == \A a \in artifacts : a.key \in objects

\* A frame is on its way: its request has read a counter it will write.
Counting(r) == upload[r].at \in {"read", "stored"} /\ upload[r].frame

\* No two frames are on their way to one session.
UploadsApart ==
    \A q, r \in Requests :
        q # r /\ Counting(q) /\ Counting(r)
            => upload[q].session # upload[r].session

\* capture_session.frame_count has gone up by one for each uploaded frame.
FramesCounted ==
    \A s \in Sessions : frameCount[s] = Inserted(s) + Cardinality(Frames(s))

=============================================================================
