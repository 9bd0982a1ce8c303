# Verification of zmetrics

TLA+ models of the parts of zmetrics that carry its own logic, with TLC runs on
small instances and TLAPS proofs for every instance. `PROJECT.json` lists the
runs, the lines each definition translates, the mutants that show that each
property can fail, the hazards and the findings.

## The system

A quarry records a *blast passport* (the design of a blast), gets it approved,
blasts, photographs the muck pile with a stereo camera and has the pictures
analysed into a size distribution, a report and a recommendation.

| Component | State it keeps | Operations | Hard because |
|---|---|---|---|
| Analysis jobs (`backend/app/services/analysis.py`, `routers/analysis.py`) | `analysis_job` rows, Celery messages | enqueue, read | message and row are committed by different systems |
| Worker pipeline (`worker/app`) | task in a slot; `analysis_result`, `report`, `recommendation` rows; objects in MinIO | run the seven steps, publish, record failure | late acknowledgement, redelivery, crashes, objects shared by the jobs of a session |
| Passports (`routers/passports.py`, `services/passport.py`, `routers/blast_events.py`) | `blast_passport`, `blast_event`, `audit_log` rows | create, update, submit, approve, activate, complete, revise, record a blast | read-check-write without locks at READ COMMITTED |
| Offline queue (`mobile/lib/shared/offline`, `offline_banner.dart`) | SQLite table `pending_uploads`, what the banner shows | enqueue, drain, count a retry, delete, refresh the counts | overlapping drains, failing deletions, app restarts, retry limit, drains that only events start |
| Reports (`routers/reports.py`) | status, reviewer and time of a recommendation, comments | review, comment | two reviewers, UPDATEs that name only changed columns |
| Captures (`routers/capture_sessions.py`, `services/storage.py`) | `artifact` rows, `frame_count`, objects | upload | counter without lock, object before row |
| Access (`auth/roles.py`, `dependencies.py`, `routers/admin.py`, `routers/quarries.py`) | profiles, access rows, quarries, audit rows | provision, grant, revoke, update, deactivate, create and rename a quarry | check and commit apart, inserts that wait on unique keys, queries that expect one row |
| Demo data (`dev_seed`) | one chain of demo rows | seed | concurrent first calls; claims to be idempotent |
| Token validation (`auth/jwt.py`) | JWKS cache, its lock | fetch, decode | lock held through retries, many requests behind it |
| Mobile session (`core/auth`, `core/network`) | tokens, roles shown, queued requests | sign in and out, refresh, retry | queue of the interceptor, answers after sign-out |
| The rest | - | sections, devices, health, screens, generated code, migrations, compose file | no protocol of their own |

The app talks HTTP to the backend. The backend keeps rows in PostgreSQL and
sends the worker one Celery message per job through Redis. The worker reads and
writes the same database and the MinIO buckets. A request is one database
session that commits after its handler (`db/session.py`, `get_db`).

What makes each component correct:

- Jobs and pipeline: a triggered job runs and ends; it is finished once; status,
  result, report and recommendation agree at every moment; a crash delays the
  outcome and cannot lose it.
- Passports: nothing is blasted without approval; the design that was approved is
  the one that stays; revisions form a numbered chain; a superseded passport stays
  superseded; the audit log explains every move.
- Offline queue: a row stays until its handler has returned; order is kept; retries are
  bounded; everything queued is tried; the banner shows what waits.
- Mobile session: tokens are renewed one request at a time; every request is
  answered; who cannot be renewed is signed out; a session that is shown has tokens.
- Token validation: requests that come together share one fetch; the lock is handed
  on whatever happens to its holder; every request ends.
- Captures: the counter never counts more frames than were uploaded; a row that can be
  read has its object, whatever failed.
- Reports: every decision is in the audit log; a review that nobody overtook is recorded
  whole.
- Access: a user has one right or none in a quarry; a disabled account stays disabled
  until somebody asks otherwise; access changes are audited.
- Demo data: concurrent first calls leave one complete chain.

## Modules

| Module | Models | Checked by | Proofs |
|---|---|---|---|
| `JobLifecycle` | abstract: what a client of jobs and reports sees | as `ImplementsLifecycle` | `AnalysisPipelineProofs` |
| `AnalysisPipeline` | request, message, worker slot, steps, publication, faults | `MCAnalysisPipeline` | `AnalysisPipelineProofs` |
| `PassportRules` | abstract: the operations on passports as single steps | proved only, as `Rules` | `PassportLifecycleProofs` |
| `PassportLifecycle` | passports, revisions, blast events, audit rows, the passport of `dev_seed` | `MCPassportLifecycle` | `PassportLifecycleProofs` |
| `OfflineSync` | queue, drains, retries, failing SQLite calls, restarts, the cubit and its banner | itself | `OfflineSyncProofs` |
| `AuthSession` | requests, interceptors, token refresh, sign-in and sign-out | itself | `AuthSessionProofs` |
| `TokenKeys` | the cache of Keycloak's keys, its lock, attempts and pauses | in `CaptureToDecision` | `TokenKeysProofs` |
| `CaptureUpload` | concurrent uploads: object, row, counter | in `CaptureToDecision` | `CaptureToDecisionProofs` |
| `RecommendationReview` | concurrent reviews and comments | in `CaptureToDecision` | `CaptureToDecisionProofs` |
| `CaptureToDecision` | requests through token validation to an upload or a review, with `JobLifecycle` in between | itself | `CaptureToDecisionProofs` |
| `AccessRights` | abstract: one right or none per user and quarry | as `ImplementsRights` | `QuarryAccessProofs` |
| `QuarryAccess` | profiles, access rows, quarries, `dev_seed`, the audit log | `MCQuarryAccess` | `QuarryAccessProofs` |

`JobLifecycle` is used twice: `AnalysisPipeline` implements it, and
`CaptureToDecision` builds on it. What is decided about a report is so checked against
every analysis that the pipeline can produce, without the steps of the worker.

### AnalysisPipeline

Rows are the committed ones. `EnqueueJob` is the handler: it publishes the message
while its transaction is open; `CommitRequest` is `get_db` after the `yield`, and
`AbortRequest` its `rollback`. A slot of the worker is a process with a program
counter `pc`: `Receive`, `ReturnEarly` (no row, or completed), `LoadJob`,
`MarkRunning` (the first commit), one `RunStep` per step, `Granulometry` (reads the
particle list, writes its object), `InsertResult` (the flush that waits for or fails
on the unique `job_id`), `Finish` (one commit for COMPLETED, result, report and
recommendation; `PublishReport` is `_create_report_and_recommendation`),
`StepRaises` (the handler that commits FAILED) and `Ack`. A step's object belongs to
the capture session, as in the code, and remembers only which job wrote it.

The docs have it so: the jobs of a session share the objects
(`docs/processing_pipeline.md:91-96`). They also say that a step returns early when its
object exists, which no step of the code does; `WriteArtifact` overwrites, as the code.

The five steps before `particle_volumes` touch nothing the properties see but their
own object: `PlainSteps` is their number (5 in the code, 1 in the runs). Numbers,
logs and the pipeline log are left out.

Faults, each spending one unit of `FaultBudget`: a request whose commit fails, an
error of the object store, the death of the container (`restart: unless-stopped`; the
unacknowledged messages return), the death of one child (Celery acknowledges a lost
task unless `task_reject_on_worker_lost` is set), and a delivery while the task still
runs (visibility timeout, broken connection).

`StatusWrapperBinds` says whether the ORM accepts the `_JobStatus` objects the task
assigns. They are unhashable and the Enum column looks its value up in a dict, so FALSE
is the code as written: no task gets past its first commit. The runs set TRUE: they
check the protocol around that defect, the intended behaviour and what the task does
once the wrapper is repaired. The proofs hold for both values, except
`PipelineImplementsLifecycle`, which says what it needs.

### PassportLifecycle

A request holds in `seen[r]` what its SELECT returned after the guards (`_assert_status`,
or the comparison in `update_passport`), and a `Commit...` action is the handler's rest
and `get_db`'s commit. In between any other request may commit. The UPDATE names only the
columns that changed with respect to what was loaded: that is why `CommitUpdate` may leave
the design alone and `CommitRevise` may leave `status`. The unique key on
`blast_event.passport_id` is the guard of `CommitBlastEvent`. `SeedPassport` is what
`dev_seed` inserts: a passport that starts in ACTIVE, approved by the caller, with its
blast event and without an audit row. `docs/STATUS.md:51` says that passport changes are
in the audit log; `AuditTrail` is therefore about moves, from the status a passport was
inserted with, and exempts the approval of `Seeded` passports. It asks that a superseding
is in the log and not with which old status: the code writes "active" whatever the status
was, and a passport in any status can be revised. The roles a request needs are not
modelled: they are checked before the SELECT and restrict who calls, not what happens. The
design fields are one value out of `Designs`.

`PassportRules` is the life of a passport as its users are told: check and change in one
step. The requests do not implement it, since they read and commit apart; they do when
no two open ones work on one passport (`RowsApart`).

### OfflineSync

One step is what the isolate runs between two awaits. `phase[d]` is what drain `d` awaits:
`ReadBatch` is `getPendingUploads` and the choice of rows whose `retry_count` in the
snapshot is below the limit; `HandlerReturns` / `HandlerThrows`, `MarkCompleted` /
`MarkThrows` and `IncrementRetry` are the loop body, with the DELETE inside the `try`:
when it throws, a failed attempt is counted for an upload whose handler has returned, and
the row is sent again. `Recount` is the count that a drain ends with. Any SQLite call may
throw (`DrainThrows`, `RefreshThrows`), which spends one unit of `FaultBudget`, as a
restart does. Ids are given in the order of `created_at` (the clock of the phone is
assumed not to jump back).

`cubit` is how far `SyncCubit.start` has come. It awaits its first refresh and its first
drain before it listens to connectivity, so an exception in either leaves the app "deaf"
until it is opened again. A drain begins at the start, on a connectivity event and by a
tap on the banner, which is possible only while the banner is shown (`BannerShown`).
Queueing an upload begins none and changes no count.

The handler is a parameter, as it is of `SyncProcessor`. `core/di.dart:64-66` registers one
that sends nothing and never throws (`HandlerMayThrow = FALSE`): with it a queued upload
is deleted and nothing reaches the backend. The one that is written for later
(`RemoteCaptureRepository.postQueuedCaptureSession`) posts to `/api/v1/capture-sessions`,
where the backend has no POST. So nothing is said here about what the backend gets:
`handled[u]` counts handler calls that returned, and that is all `NothingDropped` and
`HandledOnce` are about.

### AuthSession

`phase[r]` is where a request is: on the network (`sent`, or `resent` by
`AuthInterceptor`), in the error queue (`queued`, `handling`), in `refreshAccessToken`
(`reading`, `refreshing`, `storing`), in the delay of `RetryInterceptor` (`backoff`), or
over. `holder` and `waiting` are the error queue of dio's `QueuedInterceptor`
(`NextInQueue` and `Leave` are external: they model how dio serves the queue): the next
error is handled when a handler is called, and an error that arrives before is queued,
also that of the request `AuthInterceptor` is awaiting itself. `RefreshFailed` emits the
event on `AuthEventBus`; `SessionExpired` is `handleSessionExpired`, which can overlap
with a sign-in or another sign-out. `op` is where each call of `AuthCubit` is. The model
is one run of the app that starts with nothing stored: `restore()` is left out.
`RefreshIssued` says whether the answer of Keycloak holds a refresh token, which the code
writes as it comes after a sign-in and only when it is there after a refresh; the realm of
`infra/keycloak` always sends one ({TRUE}). `ShownSessionHasToken` needs that, and would
not survive a kill between the two writes of a sign-in followed by `restore()`. The two
tokens are written and deleted one after the other, as separate steps, though only the
refresh token is a variable: a request goes out with or without an access token, and its
answer is free.

`AccountDisabled` is what the backend says of a deactivated user and `AccountInactive`
what the app compares it with. They differ, so the branch that signs a deactivated user
out is there in `Handle` and never taken.

### TokenKeys, CaptureUpload, RecommendationReview and CaptureToDecision

`auth[r]` is where a request is in `get_current_user`. `waiting` is the `asyncio.Lock`
with its waiters in order, its head holding the lock. `StartFetch`, `FetchFails`,
`FetchAgain`, `FetchSucceeds` and `GiveUp` are the loop of `_fetch_jwks`; `Fresh`
compares two counters, as the age of the keys matters only as younger or older than the
lifetime, and `Expire` lets it run out. `GiveUp` raises `RuntimeError`, which nobody
turns into 401. Signatures are left out: `Decode` accepts or refuses.

`CaptureUpload` has one action per await of `upload_artifact`: the select, the object,
the commit. The counter is computed from what was selected, so overlapping uploads lose
frames and the counter can even fall: `FrameCountBounded` says what is left, and no
document promises more. `Inserted(s)` is what the session's row was inserted with: 0, or
12 for the demo session of `dev_seed`, which has no frames; the property counts from
there. A failure can hit before or after the object is stored; a
storage key is new for each upload and is therefore the request.

`RecommendationReview` keeps of a row the status, the reviewer and the time, the last as
the request that set it; notes are left out. `CommitReview` writes the columns that
differ from what was selected. A row that says ACCEPTED with the reviewer who REJECTED
can be reached: `DecisionAudited` therefore explains status and reviewer by an audit row
each and not by the same one. The endpoint takes its three statuses in any order,
so a rejected recommendation can be accepted; the order that `docs/domain_model.md:50-60`
draws is enforced nowhere. `AddComment` does not check that the recommendation is one
of the report, as the code does not.

`CaptureToDecision` lets every request validate its token and then call one of the
handlers, while the jobs go their way: the step that completes a job also inserts its
recommendation. The roles in front of the handlers decide who calls and are in the
choice of `CallHandler` to refuse. In the modules it composes, the keys, the
uploads and the reviews share no variable: the requests relate them.

### QuarryAccess and AccessRights

A request is one transaction. `Authenticate` finds or inserts the profile; `Administrate`
and `Seed` are the handlers up to their first write, with the role checks; `Flush` is the
INSERT under a unique key, which waits for another open one with that key (no action is
enabled for the request) and fails when it commits; `Finish` commits or rolls back.
`access` holds the rows in the order of their commit, so an index is an id.

Abstractions: the role check and the select of the handler are one step, as nothing
between them is written by that request; roles are "admin" and "user", because the
checks of this component only ask whether a role is at least administrator; a quarry's
name is the demo name or another; a quarry's reports are none, one or many, which is
what `scalar_one_or_none` tells apart; of a profile only `is_active` is kept, so an
update of its other fields is `"unset"`. `PublishReport` is the worker's part.

`dev_seed` calls itself idempotent and safe to call many times. In the model it is not: after
a second report in the demo quarry, or when a second quarry gets the name, `SeedBreaks`
answers every call with an error, and after the demo quarry was renamed
`FlushBuildFails` does, as the serial number of the device is taken. Likewise, an
administrator of two quarries passes no check of `require_any_admin` (`NotAdmin` with
two rows, 500) until one of the rows is revoked. Both are reachable states and no
property: `OneDemoChain` and `AccessAudited` state what holds in spite of them.

`AccessRights` is the view of a client: the right of a user in a quarry is the role of
his active row. That the rows implement it rests on `ActiveGrantUnique`: with two active
rows, revoking one would leave another right behind.

## Runs

| Run | Instance | Shows |
|---|---|---|
| `pipeline_crashes` | 2 jobs of one session, 2 slots, 1 plain step, 2 faults of 3 kinds | a started job settles; single execution; report iff completed; RUNNING is attended; implements `JobLifecycle`; every message is acknowledged |
| `pipeline_at_least_once` | the same, all 5 kinds of fault, symmetry | published rows agree and are final under duplicate execution |
| `pipeline_dispatch` | 1 job, 1 slot, no fault | violation: a committed job stays QUEUED |
| `passports` | 1 original, 1 seeded passport, 2 revisions, 2 requests, symmetry | numbering, approval before blast, audit trail |
| `passports_update_race` | 1 passport, 2 designs, 2 requests | violation: a submitted design changes |
| `passports_superseded` | 1 passport, 1 revision, 2 requests | violation: a superseded passport moves again |
| `offline_sync` | 3 uploads, 2 drains, batches of 2, 1 retry, 1 restart or failing SQLite call, a handler that may throw | rows stay until handled, bounded retries, order, what a hidden banner hides, every upload tried |
| `offline_banner` | 1 upload, 1 drain, the registered handler, no fault | violation: a queued upload waits with the banner hidden |
| `auth_session` | 2 requests, 1 retry, 2 calls of AuthCubit | one refresh at a time, bounded sending, shown sessions have tokens, requests answered unless the queue is blocked, failed refresh signs out |
| `auth_retry_deadlock` | 1 request, 1 retry, 1 call of AuthCubit | violation: a request that is sent again never ends |
| `captures_reviews` | 3 requests, 2 attempts, 1 expiry, 1 new and 1 seeded session, 1 job, 2 reviewers, 2 decisions | one fetch for all, the lock handed on, counter and objects, audited decisions, whole reviews, every request ends |
| `quarry_access` | 4 requests, 2 users, 3 quarries, symmetry | one right per user and quarry, one demo chain, audit, deactivations stick, implements `AccessRights`, no deadlock on unique keys |

Bounds. Two jobs of one session and two slots (the worker's concurrency) give every
collision the code can have: two executions of one job, two jobs on one set of objects, a
waiting insert. Two faults are enough for a crash during the recovery from a crash, and
for a redelivery whose second execution fails. Two requests at a time give every lost
update, as a third one can only repeat what one of the two does; an original and two
revisions give a chain of two and a fork, the seeded passport a revision of an active one.
`TwoLeaveDraft` in `MCPassportLifecycle` leaves out the states in which three or four
passports have left DRAFT: it cuts states, never steps between the others. Batches of 2
under 3 uploads make the queue longer than a batch, so that starvation by exhausted rows
occurs, and 1 retry stands for the 5 of the code: an exhausted row needs one failure. Two
drains are every overlap of a drain with another one's handler; one fault is a restart or
a throwing call at any point, and the proofs hold for any number. In `auth_session` one
request can be handled while the other waits, and a blocked request waits behind both; one
retry stands for 3, and the proofs hold for any number of either. `auth_retry_deadlock`
needs no second request.

In `captures_reviews` three requests make the shortest run in which the counter falls, a
waiter passes the lock to another waiter, and two overlapping reviews of a decided row
mix; 2 attempts stand for the 5 of the code (a pause between two and a last one), and one
expiry makes a second fetch possible. Two of the three decisions are in `Decisions`, which
are treated alike. In `quarry_access` everything has to be reached from the empty
database, where only `dev_seed` makes an administrator: one request seeds, three more
deactivate, re-enable and overtake each other, and seeds, grants and revocations of one
right overlap. Every request is sent once; a client that repeats one is another request.
Three quarries are as many as requests can create beside one another (`IdsLeft` keeps the
later ones from starting), and reports are counted up to two, which is "many".

Deadlock is checked in the pipeline runs and in `quarry_access`, where `Quiescent` is
the only way to stop: requests that wait for each other's unique keys would show. The
passports may end with every passport superseded, the queue may be empty, and the
requests of `auth_session` and `captures_reviews` are each sent once and then over:
these runs do not check it.

Fairness. `AnalysisPipeline`: a handler that has returned commits or fails; a running
worker consumes its queue (`WF` of `Receive` for each job) and a task that is not blocked
goes on (`WF` of `TaskStep`). No client has to send a request, and no fault has to happen.
The lock wait of `InsertResult` ends when the other transaction commits or its process
dies, which are steps of that slot. `OfflineSync`: the event loop goes on and what is
awaited ends (`WF` of `DrainStep` and `StartStep`). Nothing makes a connectivity event, a
tap or a restart happen: the code has no timer. `QueuedIsAttempted` therefore has its
condition in the formula (if drains read their batches again and again, then every queued
upload is tried), and `QueuedIsShown` shows what happens when none is started.
`AuthSession`: a request on the network is answered or times out (`api_client.dart` sets
both timeouts) and the interceptors go on (`WF` of `Progress`); a call of AuthCubit that
waits is completed and an event on the bus is delivered. That Keycloak's answer to a
refresh or a sign-in arrives or fails is an assumption: that client has no timeouts of its
own. `CaptureToDecision`: the event loop goes on with a request that can go on (`WF` of
`Progress`); a fetch of keys ends because its client has a timeout of 10 seconds. No
request has to be sent, no job to run and no key to expire. Users owe nothing.

## Proofs

All proof modules argue in the same way: type correctness first, then the
invariant below is shown to hold initially and to be kept by every action.

- `PublishInv` for `CompletedHasReport` and `ResultWrittenOnce`: a slot that has flushed
  the result of a job is the only one to have done so, and none is committed.
  `CompletedHasReport` alone is not inductive: two slots could be about to commit.
- `ExclusiveInv`, under the assumption that no message is redelivered, for
  `SingleExecution`, `ReportIffCompleted`, `RunningIsAttended` and the refinement: an
  acknowledgement is owned by one slot, so what the slot has read of its job is still true
  when it writes. The refinement maps `status` and `report` to themselves; the steps that
  write neither stutter.
- `RequestInv` with the properties of `PassportLifecycle`: revision number, approval and
  audit rows that a request has seen are still there at its commit, for they are never
  taken back; only the status and the design may have changed.
- `HandledInv`, `OrderInv`, `BoundInv` and `CountInv` for `OfflineSync`: what a drain is
  about to delete was handled; what precedes a drain's next row was tried or is in its
  batch; each drain that holds a row may still count one attempt on it; when no row was
  counted, all that is queued came later.
- `KeysInv` for `KeysFetchedOnce` and `LockIsHandedOn`: `FetchJustified` says that whoever
  fetches holds the lock and that the cache is still stale; without it the bound on the
  fetches is lost at the moment a fetch succeeds. The steps of the keys are always part of
  a larger step, so `TokenKeysProofs` proves lemmas about steps.
- `UploadInv` for the captures: `RowsLast` (a request adds a row once, at its end, and its
  object is there before) and `SeenBounded` (what a request has read of the counter is
  bounded by the frames there are, for rows are never taken back). The counter itself is
  no bound on what was read, since it may fall.
- `DecisionInv` for the reviews: `ReviewsFollow` says that a row read as decided stays
  decided, so each column of the merged row is explained by some audit row.
- `IInv` for `QuarryAccess`: `Sound` is what an open transaction may rely on (its key is
  free, the profile it patches is there), and `Apart` that no two open ones hold one key.
  Both are needed together: a commit breaks `Sound` of whoever holds the same key. The
  refinement maps `right` to the role of the active row; a commit of a grant is `Give`
  because its key was free until then, a revocation is `Take` because the row was the only
  one.
- `SendsCounted` with `SingleRefresh` for `AuthSession`: what a request has sent is
  explained by its retries and its one refresh. `SendsBounded` alone is not inductive, as
  it does not know that a request that waits for its next attempt has one left.

### When the violated properties hold

Each violation below has a theorem that names its causes: the property holds in
every behaviour in which they do not occur. A team that repairs the code knows from it
what has to be ruled out, and that nothing else has to be.

| Property | Holds if | Theorem | Inductive invariant |
|---|---|---|---|
| `DesignFrozenAfterDraft` | no update overlaps with a submission or revision of its passport (`UpdatesApart`) | `DesignFrozenWhenApart` | `DraftInv`: the passport an update has open is still a draft |
| `TriggeredJobIsProcessed` | no task looks for a row before its request has ended (`RowBeforeTask`), no child is killed, the status wrapper binds | `TriggeredJobsAreProcessed` | `TriggerInv`: what a task past its first read knows of the row |
| `SupersededIsFinal` | no two open requests work on one passport (`RowsApart`) | `SupersededIsFinalWhenApart` | `ReadIsCurrent`: what a request has read of its passport is there |
| no deadlock of the error queue (`~Blocked`; `RetriedRequestEnds` fails by it) | no request fails after it was sent again (`ResentSucceed`) | `NotBlockedWhileResentSucceed` | `HolderInv`: whose error is handled is in the interceptor's hands |

The hypotheses are about behaviours and not about constants; each is satisfied by every
behaviour in which requests, tasks or drains come one after the other. `TriggerInv` needs
the conjunct about committed rows from the first commit on: without it a task could be in
the middle of a job whose request aborts.

`QueuedIsShown` is a liveness property and has no such theorem; what is proved beside it is
what a hidden banner can hide (`HiddenAreUncountedAlways`).

More conditions of this kind are about what no document promises and a user might expect.
A result is computed from its own job's particles unless tasks of one session overlap or
the store fails (`OwnParticlesWhenApart`, with `ArtifactInv`: the objects below a task's
step are its own); an upload is given to its handler successfully once unless drains share
its row (`DrainsApart`), a deletion throws (`MarksSucceed`) or the app is killed before it
(`MarksSurvive`) (`HandledOnceWhenApart`, with `OnceInv`: an upload that was handled is
gone or about to be deleted); `frame_count` goes up by the number of frames unless frames
to one session overlap (`FramesAreCountedWhenApart`); status and reviewer belong to one
review unless reviews of one recommendation overlap (`DecisionsAreReviewsWhenApart`, with
`StandInv`: what a review has read is what is there); a sign-out leaves no refresh token
behind unless it overlaps with another call of AuthCubit or a refresh
(`SignedOutForgetsWhenApart`).

Some theorems say that a defect is as bad as it looks. `BlockedForever`: nothing, not even a
sign-out, frees the blocked error queue, and all requests in it are lost.
`ExhaustedIsFinalAlways`: a row with its retries used up is never given to the handler again,
whatever the banner's "tap to retry" says.
`UnboundStatusStartsNothing`: with the wrapper as it is written no job ever runs.

### Further results

- `DeliveriesAreOwned`: under all five kinds of fault an unacknowledged message is with exactly
  one task that owns its acknowledgement (`DeliveryInv`). Duplicate executions exist, but
  only one of them acknowledges.
- `SerialRequestsFollowRules`: under `RowsApart` the requests implement `PassportRules`. The
  invariant is `ReadIsCurrent`: what an open request has read of its passport still
  holds. A commit maps to one step of the rules, a read and a rollback stutter.
- `RequestsNearTheirEnd`: `Rank` adds the retries and the refresh a request has left, eight
  places each, to its place in the current attempt. Every step of a request lowers it and
  no step of another one raises it. This is the part of `RequestsAnswered` that needs
  no fairness: a request makes a bounded number of steps, and can only stop by waiting.
- `WaitsEnd`: whoever is waited for at a unique key waits at most for one that waits for
  nobody. A request that waits for its caller's profile holds nothing (`EmptyHanded`), and
  a transaction asks for one more key and then commits.

### What is assumed, and what is not proved

Assumptions are the named ones of the modules' CONSTANTS, and the hypotheses a theorem
states. All results hold for any number of jobs, slots, requests, users, drains, faults
and restarts.

Every safety property and every refinement of the passing runs is proved. The
definitions that only theorems use (the conditions, the abstract module `PassportRules`,
`Rank`, the inductive invariants) are in no run.

Only model-checked are the liveness properties (`RunningSettles`, `DeliveriesSettle`,
`QueuedIsAttempted`, `RequestsAnswered`, `RefreshRenewsOrSignsOut`, `RequestsEnd`), which
rest on fairness and ENABLED, out of the prover's reach, and that some step is always
possible (deadlock), which is ENABLED too. `RetriedRequestEnds` is violated and is a
liveness property: what is proved of it is that the deadlock behind the violation is
permanent and has one cause.

## What the runs found

1. A worker that is faster than the commit drops the job (`pipeline_dispatch`).
2. An update can change a passport after its submission (`passports_update_race`).
3. A submission or approval takes a passport back that a revision has superseded in the
   meantime (`passports_superseded`).
4. An upload queued online waits unseen and unsent (`offline_banner`).
5. A request that fails after its token was refreshed blocks the app's error queue
   (`auth_retry_deadlock`). `RequestsAnswered` holds only with that case excepted.

The theorems above show that the causes of 1, 2, 3 and of the deadlock of 5 are all there
are.

Beside the runs, modelling showed the following, described with their modules:

- the unhashable `_JobStatus`, and that no step looks for its object before it recomputes
  it (`docs/processing_pipeline.md:93-95`); the engine of a task is never disposed, as
  every path leaves `_run_pipeline_async` before that line;
- the limits of `dev_seed` and of `require_any_admin`;
- inserts and a grant of `dev_seed` that are in no audit log, and audit rows that give
  "active" as the old status of any superseded passport (`docs/STATUS.md:51` says the log
  is written on these changes);
- rows mixed of two reviews, and reviews in an order that the state machine of
  `docs/domain_model.md:50-60` does not have;
- the registered handler of queued uploads, which deletes them and sends nothing, and the
  POST of the one written for later, which has no route;
- the sign-out branch for deactivated users that is never taken.

## Not modelled, and why

- The roles shown by `AccessCubit`: `load` may answer after `clear` and show the roles of
  the user who signed out. `AuthSession` ends at the tokens; the backend checks every
  request again, so a stale role shows buttons and grants nothing.
- Restoring a session at start and restarts of the app in `AuthSession`, `OidcService` (an
  SDK does the protocol) and the access token's own storage. After a kill between the two
  token writes `restore()` shows a session that cannot be renewed; its first 401 ends it.
- What the backend does with a queued upload: there is no route for it. The in-memory
  queue of the web build, which loses its rows with the page, and operations with no
  handler, which count as failed attempts.
- The completed job, report and recommendation that `dev_seed` inserts: in the models of
  the jobs every job is submitted and every report comes from a run of the pipeline.
- The numerics of the granulometry (interpolation, regression): statements about real
  numbers, which TLC cannot enumerate. What the protocol sees of them, whose particles a
  result was computed from, is in `AnalysisPipeline`.
- Sections, devices, calibrations and health: single inserts and reads without a check
  that another request could invalidate.
- A chain of proof from a report back to an approved passport: a blast event needs an
  approved passport (`ApprovalPrecedesBlast`), and foreign keys that are never changed
  join the rest; a composition would restate these keys.
- Screens and navigation, generated `*.freezed.dart` and `*.g.dart` code, mock
  repositories, migrations apart from the constraints the modules use, compose files and
  scripts.
