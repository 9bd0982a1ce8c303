----------------------------- MODULE OfflineSync -----------------------------
(***************************************************************************)
(* The mobile app's offline upload queue: a SQLite table that survives a   *)
(* restart of the app, the drains that hand its rows to a handler, and the *)
(* cubit that starts them and feeds the banner.                            *)
(*                                                                         *)
(* The app is one isolate, so a step is what runs between two awaits.  A   *)
(* drain is started when the app opens, by a connectivity event and by a   *)
(* tap on the banner, and nobody asks whether one is running: they         *)
(* overlap.  Queueing an upload starts none.                               *)
(*                                                                         *)
(* The handler is a parameter of SyncProcessor.  The one that di.dart      *)
(* registers sends nothing and never throws (HandlerMayThrow = FALSE).     *)
(***************************************************************************)
EXTENDS Naturals, FiniteSets

CONSTANTS
    UploadCount,      \* bound: uploads ever queued
    Drains,           \* calls of SyncCubit.drain that can overlap
    BatchLimit,       \* rows a drain takes (20)
    MaxRetries,       \* SyncManager.maxRetries (5)
    HandlerMayThrow,  \* the registered handler can signal a failure
    FaultBudget       \* bound: restarts of the app and SQLite calls that throw

ASSUME ConstantsAssumption ==
    /\ UploadCount \in Nat
    /\ IsFiniteSet(Drains)
    /\ Drains # {}
    /\ BatchLimit \in Nat \ {0}
    /\ MaxRetries \in Nat \ {0}
    /\ HandlerMayThrow \in BOOLEAN
    /\ FaultBudget \in Nat

Uploads == 1..UploadCount

VARIABLES
    enqueued,        \* number of uploads queued so far; the n-th has id n
    queued,          \* ids of the rows of pending_uploads
    retryCount,      \* their retry_count
    batch,           \* the rows each drain has yet to finish
    phase,           \* what each drain awaits
    sawExhausted,    \* a drain has passed over exhausted rows
    cubit,           \* how far SyncCubit.start has come
    starter,         \* the drain that start awaits, if any
    online,          \* SyncState.online
    pendingShown,    \* SyncState.pendingCount is not 0
    exhaustedShown,  \* SyncState.exhaustedCount is not 0
    attempted,       \* history: uploads whose handler was called
    handled,         \* history: handler calls that returned, 2 = many
    counted,         \* history: uploads queued when rows were last counted
    faults           \* restarts and failed SQLite calls so far

queueVars == <<enqueued, queued, retryCount>>
drainVars == <<batch, phase, sawExhausted>>
cubitVars == <<cubit, starter, online, pendingShown, exhaustedShown>>
historyVars == <<attempted, handled, counted>>
vars == <<queueVars, drainVars, cubitVars, historyVars, faults>>

Init ==
    /\ enqueued = 0
    /\ queued = {}
    /\ retryCount = [u \in Uploads |-> 0]
    /\ batch = [d \in Drains |-> {}]
    /\ phase = [d \in Drains |-> "idle"]
    /\ sawExhausted = [d \in Drains |-> FALSE]
    /\ cubit = "opened"
    /\ starter = {}
    /\ online = TRUE
    /\ pendingShown = FALSE
    /\ exhaustedShown = FALSE
    /\ attempted = {}
    /\ handled = [u \in Uploads |-> 0]
    /\ counted = 0
    /\ faults = 0

-----------------------------------------------------------------------------
\* createCaptureSession: a new row with a fresh idempotency key.  Neither the
\* cubit nor the processor hears of it.
Enqueue ==
    /\ enqueued < UploadCount
    /\ enqueued' = enqueued + 1
    /\ queued' = queued \cup {enqueued + 1}
    /\ UNCHANGED <<retryCount, drainVars, cubitVars, historyVars, faults>>

\* The app is killed or a SQLite call throws.
Fault ==
    /\ faults < FaultBudget
    /\ faults' = faults + 1

-----------------------------------------------------------------------------
(* SyncCubit. *)

\* The banner is hidden only when the state says online and nothing to do.
BannerShown == ~online \/ pendingShown \/ exhaustedShown

Begin(d) ==
    /\ phase[d] = "idle"
    /\ phase' = [phase EXCEPT ![d] = "read"]

\* start: refreshPending.
RefreshPending ==
    /\ cubit = "opened"
    /\ cubit' = "ready"
    /\ pendingShown' = (queued # {})
    /\ counted' = enqueued
    /\ UNCHANGED <<queueVars, drainVars, starter, online, exhaustedShown,
                   attempted, handled, faults>>

\* start ends with the exception: it never listens to connectivity events.
RefreshThrows ==
    /\ cubit = "opened"
    /\ Fault
    /\ cubit' = "deaf"
    /\ UNCHANGED <<queueVars, drainVars, starter, online, pendingShown,
                   exhaustedShown, historyVars>>

\* start: checkConnectivity and, when online, the drain that it awaits before
\* it listens.
CheckConnectivity(on) ==
    /\ cubit = "ready"
    /\ online' = on
    /\ \/ /\ on
          /\ \E d \in Drains : Begin(d) /\ starter' = {d}
          /\ cubit' = "draining"
       \/ /\ ~on
          /\ cubit' = "listening"
          /\ UNCHANGED <<phase, starter>>
    /\ UNCHANGED <<queueVars, batch, sawExhausted, pendingShown, exhaustedShown,
                   historyVars, faults>>

Connectivity(on) ==
    /\ cubit = "listening"
    /\ online' = on
    /\ IF on THEN \E d \in Drains : Begin(d)
             ELSE UNCHANGED phase
    /\ UNCHANGED <<queueVars, batch, sawExhausted, cubit, starter, pendingShown,
                   exhaustedShown, historyVars, faults>>

Tap(d) ==
    /\ BannerShown
    /\ Begin(d)
    /\ UNCHANGED <<queueVars, batch, sawExhausted, cubitVars, historyVars,
                   faults>>

\* The app is killed and opened again.
Restart ==
    /\ Fault
    /\ batch' = [d \in Drains |-> {}]
    /\ phase' = [d \in Drains |-> "idle"]
    /\ sawExhausted' = [d \in Drains |-> FALSE]
    /\ cubit' = "opened"
    /\ starter' = {}
    /\ online' = TRUE
    /\ pendingShown' = FALSE
    /\ exhaustedShown' = FALSE
    /\ counted' = 0
    /\ UNCHANGED <<queueVars, attempted, handled>>

-----------------------------------------------------------------------------
(* A drain: SyncProcessor.process, then the count of the rows. *)

\* Mutant of Oldest: ORDER BY created_at DESC.
Newest == {u \in queued : Cardinality({v \in queued : v >= u}) <= BatchLimit}

\* ORDER BY created_at ASC LIMIT: ids are given in the order of created_at.
Oldest == {u \in queued : Cardinality({v \in queued : v <= u}) <= BatchLimit}

\* Mutant of Exhausted: no retry limit.
NoneExhausted == {}

Exhausted == {u \in queued : retryCount[u] >= MaxRetries}

First(rows) == {u \in rows : \A v \in rows : u <= v}

\* Mutant of GoOn: the state of the finished upload is left behind.
GoOnInPhase(d, rest) ==
    /\ batch' = [batch EXCEPT ![d] = rest]
    /\ phase' = [phase EXCEPT ![d] = IF @ = "read" THEN "handler" ELSE @]
    /\ attempted' = attempted \cup First(rest)

\* The loop calls the handler of the next row, or ends and counts the rows.
GoOn(d, rest) ==
    /\ batch' = [batch EXCEPT ![d] = rest]
    /\ phase' = [phase EXCEPT ![d] = IF rest = {} THEN "recount" ELSE "handler"]
    /\ attempted' = attempted \cup First(rest)

\* Rows that are exhausted in the snapshot are passed over without an await.
ReadBatch(d) ==
    /\ phase[d] = "read"
    /\ GoOn(d, Oldest \ Exhausted)
    /\ sawExhausted' = [sawExhausted EXCEPT ![d] = (Oldest \cap Exhausted # {})]
    /\ UNCHANGED <<queueVars, cubitVars, handled, counted, faults>>

HandlerReturns(d) ==
    /\ phase[d] = "handler"
    /\ phase' = [phase EXCEPT ![d] = "mark"]
    /\ handled' = [u \in Uploads |->
         IF u \in First(batch[d]) THEN IF handled[u] = 0 THEN 1 ELSE 2
                                  ELSE handled[u]]
    /\ UNCHANGED <<queueVars, batch, sawExhausted, cubitVars, attempted,
                   counted, faults>>

HandlerThrows(d) ==
    /\ HandlerMayThrow
    /\ phase[d] = "handler"
    /\ phase' = [phase EXCEPT ![d] = "count"]
    /\ UNCHANGED <<queueVars, batch, sawExhausted, cubitVars, historyVars,
                   faults>>

\* Deletes the row; a row another drain has deleted is no error.
MarkCompleted(d) ==
    /\ phase[d] = "mark"
    /\ queued' = queued \ First(batch[d])
    /\ GoOn(d, batch[d] \ First(batch[d]))
    /\ UNCHANGED <<enqueued, retryCount, sawExhausted, cubitVars, handled,
                   counted, faults>>

\* The catch is around both awaits: a DELETE that throws is counted as a failed
\* attempt of an upload whose handler returned.
MarkThrows(d) ==
    /\ phase[d] = "mark"
    /\ Fault
    /\ phase' = [phase EXCEPT ![d] = "count"]
    /\ UNCHANGED <<queueVars, batch, sawExhausted, cubitVars, historyVars>>

\* Mutant of IncrementRetry: a row that has used its retries is dropped.
IncrementRetryOrDrop(d) ==
    /\ phase[d] = "count"
    /\ retryCount' = [u \in Uploads |->
         IF u \in First(batch[d]) THEN retryCount[u] + 1 ELSE retryCount[u]]
    /\ queued' = queued \ {u \in First(batch[d]) : retryCount'[u] = MaxRetries}
    /\ GoOn(d, batch[d] \ First(batch[d]))
    /\ UNCHANGED <<enqueued, sawExhausted, cubitVars, handled, counted,
                   faults>>

\* Mutant of IncrementRetry: the drain gives up its batch and counts nothing.
StopAtFailure(d) ==
    /\ phase[d] = "count"
    /\ GoOn(d, {})
    /\ UNCHANGED <<queueVars, sawExhausted, cubitVars, handled, counted,
                   faults>>

\* The UPDATE finds no row when another drain has deleted it.
IncrementRetry(d) ==
    /\ phase[d] = "count"
    /\ retryCount' = [u \in Uploads |->
         IF u \in First(batch[d]) \cap queued THEN retryCount[u] + 1
                                              ELSE retryCount[u]]
    /\ GoOn(d, batch[d] \ First(batch[d]))
    /\ UNCHANGED <<enqueued, queued, sawExhausted, cubitVars, handled, counted,
                   faults>>

\* start goes on once the drain it awaits has ended.
Return(d, next) ==
    /\ phase' = [phase EXCEPT ![d] = "idle"]
    /\ sawExhausted' = [sawExhausted EXCEPT ![d] = FALSE]
    /\ starter' = starter \ {d}
    /\ cubit' = IF d \in starter THEN next ELSE cubit

\* Mutant of Recount: the banner shows what failed in this drain.
RecountExhausted(d) ==
    /\ phase[d] = "recount"
    /\ Return(d, "listening")
    /\ pendingShown' = sawExhausted[d]
    /\ exhaustedShown' = sawExhausted[d]
    /\ counted' = enqueued
    /\ UNCHANGED <<queueVars, batch, online, attempted, handled, faults>>

Recount(d) ==
    /\ phase[d] = "recount"
    /\ Return(d, "listening")
    /\ pendingShown' = (queued # {})
    /\ exhaustedShown' = sawExhausted[d]
    /\ counted' = enqueued
    /\ UNCHANGED <<queueVars, batch, online, attempted, handled, faults>>

\* The SELECT, the UPDATE in the catch or the count throws: the drain ends with
\* the exception, and start with it when it awaits this drain.
DrainThrows(d) ==
    /\ phase[d] \in {"read", "count", "recount"}
    /\ Fault
    /\ Return(d, "deaf")
    /\ batch' = [batch EXCEPT ![d] = {}]
    /\ UNCHANGED <<queueVars, online, pendingShown, exhaustedShown,
                   historyVars>>

DrainStep(d) ==
    \/ ReadBatch(d)
    \/ HandlerReturns(d)
    \/ HandlerThrows(d)
    \/ MarkCompleted(d)
    \/ MarkThrows(d)
    \/ IncrementRetry(d)
    \/ Recount(d)
    \/ DrainThrows(d)

StartStep ==
    \/ RefreshPending
    \/ RefreshThrows
    \/ \E on \in BOOLEAN : CheckConnectivity(on)

Next ==
    \/ Enqueue
    \/ StartStep
    \/ \E on \in BOOLEAN : Connectivity(on)
    \/ \E d \in Drains : Tap(d) \/ DrainStep(d)
    \/ Restart

Spec == Init /\ [][Next]_vars

\* The event loop goes on and what is awaited ends.  Nothing makes a
\* connectivity event, a tap or a restart happen.
Fairness ==
    /\ WF_vars(StartStep)
    /\ \A d \in Drains : WF_vars(DrainStep(d))

FairSpec == Spec /\ Fairness

-----------------------------------------------------------------------------
(* Properties. *)

TypeOK ==
    /\ enqueued \in 0..UploadCount
    /\ queued \subseteq 1..enqueued
    /\ retryCount \in [Uploads -> Nat]
    /\ batch \in [Drains -> SUBSET (1..enqueued)]
    /\ phase \in [Drains ->
         {"idle", "read", "handler", "mark", "count", "recount"}]
    /\ \A d \in Drains :
         phase[d] \in {"handler", "mark", "count"} <=> batch[d] # {}
    /\ sawExhausted \in [Drains -> BOOLEAN]
    /\ cubit \in {"opened", "ready", "draining", "listening", "deaf"}
    /\ starter \subseteq Drains
    /\ online \in BOOLEAN
    /\ pendingShown \in BOOLEAN
    /\ exhaustedShown \in BOOLEAN
    /\ attempted \subseteq 1..enqueued
    /\ handled \in [Uploads -> 0..2]
    /\ counted \in 0..enqueued
    /\ faults \in 0..FaultBudget

\* sync_processor.dart removes an item on success and keeps it on failure: a row
\* leaves the queue only after a handler call for it has returned, through
\* overlapping drains, failed deletions, exhaustion and restarts.
NothingDropped ==
    \A u \in 1..enqueued : u \in queued \/ handled[u] > 0

\* Overlapping drains work from snapshots, so a row can be tried after its last
\* retry: at most once by each other drain that was running then.
RetriesBounded ==
    \A u \in Uploads : retryCount[u] <= MaxRetries + Cardinality(Drains) - 1

\* No upload overtakes an older one: nothing is tried for the first time while
\* an older upload was never tried.
FirstAttemptsInOrder ==
    \A v \in attempted : \A u \in 1..v : u \in attempted

\* As long as drains keep being started, a queued upload is tried in the end,
\* unless as many older ones as a drain reads are exhausted and stay in the
\* queue: those starve it.
QueuedIsAttempted ==
    []<><<\E d \in Drains : ReadBatch(d)>>_vars =>
       \A u \in Uploads :
          u \in queued ~>
             \/ u \in attempted
             \/ Cardinality({v \in Exhausted : v < u}) >= BatchLimit

\* The banner that is hidden hides only uploads queued after the rows were last
\* counted, whichever of the overlapping drains counted last: a failed upload
\* stays visible.
HiddenAreUncounted ==
    ~BannerShown => \A u \in queued : u > counted

\* offline_banner.dart: "shown under the app bar when the device is offline or
\* there are queued uploads waiting to sync".
QueuedIsShown ==
    \A u \in Uploads : u \in queued ~> u \notin queued \/ BannerShown

-----------------------------------------------------------------------------
(* What keeps an upload from being handled twice.                          *)

\* No two drains work on one row.
DrainsApart ==
    \A d, e \in Drains : d # e => batch[d] \cap batch[e] = {}

\* The deletion of a row does not throw.
MarksSucceed ==
    [][\A d \in Drains : ~MarkThrows(d)]_vars

\* The app is not killed between a handler's return and the deletion.
MarksSurvive ==
    [][Restart => \A d \in Drains : phase[d] # "mark"]_vars

HandledOnce == \A u \in Uploads : handled[u] <= 1

\* The drains that have an upload in their batch.
Holders(u) == {d \in Drains : u \in batch[d]}

\* An upload that has used its retries is given up for good: no drain takes it
\* again, whatever the banner's "tap to retry" says.
ExhaustedIsFinal ==
    [][\A u \in Uploads :
         u \in Exhausted /\ Holders(u) = {} =>
            /\ u \in Exhausted' /\ Holders(u)' = {}
            /\ handled'[u] = handled[u]]_vars

-----------------------------------------------------------------------------
(* Inductive invariants, for the proofs. *)

\* As long as the three conditions hold, a drain works on rows of the queue, and
\* an upload that was handled is gone or about to be deleted.
OnceInv ==
    /\ HandledOnce
    /\ \A d \in Drains : batch[d] \subseteq queued
    /\ \A u \in Uploads :
         handled[u] > 0 /\ u \in queued =>
            \E d \in Drains : phase[d] = "mark" /\ u \in First(batch[d])

\* Nothing was handled that was not queued.
OnlyRecorded == \A u \in Uploads : handled[u] > 0 => u \in 1..enqueued

\* A row that is gone was marked completed, and a drain marks what its handler
\* has returned for.
HandledInv ==
    /\ NothingDropped
    /\ \A d \in Drains : \A u \in First(batch[d]) :
         phase[d] = "mark" => handled[u] > 0

\* An upload was tried if it is gone, was counted or is first in a batch; a
\* drain still has or has tried all that is older than what it has.
OrderInv ==
    /\ FirstAttemptsInOrder
    /\ \A u \in 1..enqueued : u \notin queued => u \in attempted
    /\ \A u \in Uploads : retryCount[u] > 0 => u \in attempted
    /\ \A d \in Drains : First(batch[d]) \subseteq attempted
    /\ \A d \in Drains : \A u \in batch[d] : \A v \in 1..(u - 1) :
         v \in batch[d] \/ v \in attempted

\* Each drain that holds an upload may still count one attempt.
BoundInv ==
    \A u \in Uploads :
        retryCount[u] + Cardinality(Holders(u))
            <= MaxRetries + Cardinality(Drains) - 1

=============================================================================
