---------------------------- MODULE AuthSession ----------------------------
(***************************************************************************)
(* The mobile app's session: what AuthCubit shows, the refresh token in    *)
(* secure storage, HTTP requests that pass AuthInterceptor and             *)
(* RetryInterceptor, token refresh on 401, sign-in and sign-out.           *)
(*                                                                         *)
(* AuthInterceptor is a QueuedInterceptor: its onError handles one error   *)
(* at a time and the next one when the handler of the last was called.     *)
(* Both interceptors send a request again with fetch on the same client,   *)
(* so that the new attempt passes both once more.  An error of such an     *)
(* attempt is passed on unchanged by the callback that awaits it, so an    *)
(* attempt made by RetryInterceptor needs no record of the outer one.      *)
(*                                                                         *)
(* A step is what the isolate runs between two awaits.  The access token   *)
(* is left out: with or without it a request goes out, and its answer is   *)
(* any that the backend or the network may give.  A behaviour is one run   *)
(* of the app that starts with nothing stored: restore() is left out.      *)
(***************************************************************************)
EXTENDS Naturals, Sequences, Functions

CONSTANTS
    Requests,     \* requests the screens send
    NoRequest,    \* "no error is being handled"
    MaxRetries,   \* RetryInterceptor.maxRetries (3)
    RefreshIssued,  \* whether Keycloak's answers may, or may not, hold a
                    \* refresh_token: {TRUE} for the client of realm-export.json
    Ops           \* bound: calls of AuthCubit that overlap

ASSUME ConstantsAssumption ==
    /\ NoRequest \notin Requests
    /\ MaxRetries \in Nat
    /\ RefreshIssued \subseteq BOOLEAN

VARIABLES
    auth,         \* the state AuthCubit has emitted last
    refresh,      \* storage holds a refresh_token
    op,           \* where a call of AuthCubit is
    expired,      \* events on AuthEventBus that were not delivered yet
    phase,        \* where a request is
    error,        \* the error it last ended with
    authRetried,  \* extra['__auth_retried']
    attempt,      \* extra['__retry_attempt']
    sends,        \* times the request went to the network
    holder,       \* the request whose error AuthInterceptor handles
    waiting       \* the requests whose errors are queued behind it

cubitVars == <<auth, op>>
requestVars == <<phase, error, authRetried, attempt, sends>>
queueVars == <<holder, waiting>>
vars == <<cubitVars, refresh, expired, requestVars, queueVars>>

AuthStates == {"Unauthenticated", "AuthInProgress", "Authenticated"}
OpSteps == {"idle", "posting", "storing", "deleting"}
Phases == {"new", "sent", "handling", "queued", "reading", "refreshing",
           "storing", "resent", "backoff", "done", "failed"}
Ended == {"done", "failed"}

\* What the backend says of a disabled user, and what the app looks for.
AccountDisabled == "User account is disabled"
AccountInactive == "Account is inactive"

\* A 401, a 503, the 403 of a disabled user, any other answer or no answer.
Errors == {"unauthorized", "unavailable", AccountDisabled, "other"}

\* The app's first start: nothing is stored.
Init ==
    /\ auth = "Unauthenticated"
    /\ refresh = FALSE
    /\ op = [o \in Ops |-> "idle"]
    /\ expired = 0
    /\ phase = [r \in Requests |-> "new"]
    /\ error = [r \in Requests |-> "none"]
    /\ authRetried = [r \in Requests |-> FALSE]
    /\ attempt = [r \in Requests |-> 0]
    /\ sends = [r \in Requests |-> 0]
    /\ holder = NoRequest
    /\ waiting = <<>>

-----------------------------------------------------------------------------
(* Requests. *)

Goes(r, label) == phase' = [phase EXCEPT ![r] = label]

\* onRequest adds the stored access token and the request goes out.
Transmit(r, label) ==
    /\ Goes(r, label)
    /\ sends' = [sends EXCEPT ![r] = @ + 1]

\* A screen behind the login sends a request.
Send(r) ==
    /\ phase[r] = "new"
    /\ auth = "Authenticated"
    /\ Transmit(r, "sent")
    /\ UNCHANGED <<cubitVars, refresh, expired, error, authRetried, attempt,
                   queueVars>>

\* Mutant of Retry: the attempts are not counted.
RetryUncounted(r) ==
    /\ phase[r] = "backoff"
    /\ Transmit(r, "sent")
    /\ UNCHANGED <<cubitVars, refresh, expired, error, authRetried, attempt,
                   queueVars>>

\* RetryInterceptor fetches the request again after its delay.
Retry(r) ==
    /\ phase[r] = "backoff"
    /\ attempt' = [attempt EXCEPT ![r] = @ + 1]
    /\ Transmit(r, "sent")
    /\ UNCHANGED <<cubitVars, refresh, expired, error, authRetried, queueVars>>

\* The handler was called: the next queued error is handled.
NextInQueue ==
    /\ holder' = IF waiting = <<>> THEN NoRequest ELSE Head(waiting)
    /\ waiting' = IF waiting = <<>> THEN <<>> ELSE Tail(waiting)

\* r goes to label as its handler is called; the next queued error is handled.
Leave(r, label) ==
    /\ phase' = [q \in Requests |->
                   IF q = r THEN label
                   ELSE IF waiting # <<>> /\ q = Head(waiting) THEN "handling"
                   ELSE phase[q]]
    /\ NextInQueue

\* A 2xx answer.  What AuthInterceptor has sent again is resolved by it.
Succeed(r) ==
    /\ \/ /\ phase[r] = "sent"
          /\ Goes(r, "done")
          /\ UNCHANGED queueVars
       \/ /\ phase[r] = "resent"
          /\ Leave(r, "done")
    /\ UNCHANGED <<cubitVars, refresh, expired, error, authRetried, attempt,
                   sends>>

\* Mutant of Fail: the interceptor handles its errors side by side.
FailUnqueued(r, e) ==
    /\ phase[r] \in {"sent", "resent"}
    /\ error' = [error EXCEPT ![r] = e]
    /\ Goes(r, "handling")
    /\ holder' = r
    /\ UNCHANGED <<cubitVars, refresh, expired, authRetried, attempt, sends,
                   waiting>>

\* Any other outcome: onError is called, or queued when it has not finished
\* with an earlier error.  For a request that it has sent again itself, that
\* earlier error is the request's own.
Fail(r, e) ==
    /\ phase[r] \in {"sent", "resent"}
    /\ error' = [error EXCEPT ![r] = e]
    /\ \/ /\ holder = NoRequest
          /\ holder' = r
          /\ Goes(r, "handling")
          /\ UNCHANGED waiting
       \/ /\ holder # NoRequest
          /\ waiting' = Append(waiting, r)
          /\ Goes(r, "queued")
          /\ UNCHANGED holder
    /\ UNCHANGED <<cubitVars, refresh, expired, authRetried, attempt, sends>>

\* Mutant of PassOn: one attempt too many.
PassOnOffByOne(r) ==
    Leave(r, IF error[r] = "unavailable" /\ attempt[r] <= MaxRetries
               THEN "backoff" ELSE "failed")

\* handler.next: RetryInterceptor is the next to see the error.  It retries a
\* 503 a bounded number of times and passes on everything else.
PassOn(r) ==
    Leave(r, IF error[r] = "unavailable" /\ attempt[r] < MaxRetries
               THEN "backoff" ELSE "failed")

\* AuthInterceptor.onError up to its first await.
Handle(r) ==
    /\ phase[r] = "handling"
    /\ \/ /\ error[r] = "unauthorized"
          /\ ~authRetried[r]
          /\ Goes(r, "reading")
          /\ UNCHANGED <<expired, queueVars>>
       \/ /\ error[r] # "unauthorized" \/ authRetried[r]
          /\ PassOn(r)
          /\ expired' = IF error[r] = AccountInactive THEN expired + 1
                                                       ELSE expired
    /\ UNCHANGED <<cubitVars, refresh, error, authRetried, attempt, sends>>

\* No new token: the app is told and the 401 goes on.
RefreshFailed(r) ==
    /\ expired' = expired + 1
    /\ PassOn(r)

\* Mutant of ReadRefreshToken: without a token onError returns and calls no
\* handler.
ReadRefreshTokenOnly(r) ==
    /\ phase[r] = "reading"
    /\ refresh
    /\ Goes(r, "refreshing")
    /\ UNCHANGED <<cubitVars, refresh, expired, error, authRetried, attempt,
                   sends, queueVars>>

\* refreshAccessToken reads the refresh token and posts it, if there is one.
ReadRefreshToken(r) ==
    /\ phase[r] = "reading"
    /\ \/ /\ refresh
          /\ Goes(r, "refreshing")
          /\ UNCHANGED <<expired, queueVars>>
       \/ /\ ~refresh
          /\ RefreshFailed(r)
    /\ UNCHANGED <<cubitVars, refresh, error, authRetried, attempt, sends>>

\* Keycloak answers with new tokens, and the access token is written first.
RefreshAnswered(r) ==
    /\ phase[r] = "refreshing"
    /\ Goes(r, "storing")
    /\ UNCHANGED <<cubitVars, refresh, expired, error, authRetried, attempt,
                   sends, queueVars>>

\* Mutant of RefreshRejected: the app is not told.
RefreshRejectedSilently(r) ==
    /\ phase[r] = "refreshing"
    /\ PassOn(r)
    /\ UNCHANGED <<cubitVars, refresh, expired, error, authRetried, attempt,
                   sends>>

\* Keycloak refuses or cannot be reached: any exception is answered by null.
RefreshRejected(r) ==
    /\ phase[r] = "refreshing"
    /\ RefreshFailed(r)
    /\ UNCHANGED <<cubitVars, refresh, error, authRetried, attempt, sends>>

\* A refresh token that came with the answer is written, whatever happened
\* meanwhile, and the request is marked and fetched again.
Resend(r) ==
    /\ phase[r] = "storing"
    /\ \E issued \in RefreshIssued : refresh' = (refresh \/ issued)
    /\ authRetried' = [authRetried EXCEPT ![r] = TRUE]
    /\ Transmit(r, "resent")
    /\ UNCHANGED <<cubitVars, expired, error, attempt, queueVars>>

-----------------------------------------------------------------------------
(* AuthCubit. *)

OpGoes(o, step) == op' = [op EXCEPT ![o] = step]

\* signIn on the login screen; it posts the password to Keycloak.
StartSignIn(o) ==
    /\ op[o] = "idle"
    /\ auth = "Unauthenticated"
    /\ OpGoes(o, "posting")
    /\ auth' = "AuthInProgress"
    /\ UNCHANGED <<refresh, expired, requestVars, queueVars>>

\* Keycloak answers; the access token is written.
SignInAnswered(o) ==
    /\ op[o] = "posting"
    /\ OpGoes(o, "storing")
    /\ UNCHANGED <<auth, refresh, expired, requestVars, queueVars>>

SignInRejected(o) ==
    /\ op[o] = "posting"
    /\ OpGoes(o, "idle")
    /\ auth' = "Unauthenticated"
    /\ UNCHANGED <<refresh, expired, requestVars, queueVars>>

\* The refresh token is written, which deletes it if the answer holds none, and
\* the new state emitted.
FinishSignIn(o) ==
    /\ op[o] = "storing"
    /\ OpGoes(o, "idle")
    /\ refresh' \in RefreshIssued
    /\ auth' = "Authenticated"
    /\ UNCHANGED <<expired, requestVars, queueVars>>

\* signOut on a screen behind the login deletes the access token first.
StartSignOut(o) ==
    /\ op[o] = "idle"
    /\ auth = "Authenticated"
    /\ OpGoes(o, "deleting")
    /\ UNCHANGED <<auth, refresh, expired, requestVars, queueVars>>

\* An event of AuthEventBus calls handleSessionExpired, in any state.
SessionExpired(o) ==
    /\ op[o] = "idle"
    /\ expired > 0
    /\ expired' = expired - 1
    /\ OpGoes(o, "deleting")
    /\ UNCHANGED <<auth, refresh, requestVars, queueVars>>

\* Mutant of FinishSignOut: the state is not emitted.
FinishSignOutUnseen(o) ==
    /\ op[o] = "deleting"
    /\ OpGoes(o, "idle")
    /\ refresh' = FALSE
    /\ UNCHANGED <<auth, expired, requestVars, queueVars>>

\* The refresh token is deleted and the new state emitted.
FinishSignOut(o) ==
    /\ op[o] = "deleting"
    /\ OpGoes(o, "idle")
    /\ refresh' = FALSE
    /\ auth' = "Unauthenticated"
    /\ UNCHANGED <<expired, requestVars, queueVars>>

-----------------------------------------------------------------------------
RequestStep(r) ==
    \/ Send(r) \/ Retry(r) \/ Succeed(r) \/ \E e \in Errors : Fail(r, e)
    \/ Handle(r) \/ ReadRefreshToken(r) \/ RefreshAnswered(r)
    \/ RefreshRejected(r) \/ Resend(r)

CubitStep(o) ==
    \/ StartSignIn(o) \/ SignInAnswered(o) \/ SignInRejected(o)
    \/ FinishSignIn(o) \/ StartSignOut(o) \/ SessionExpired(o)
    \/ FinishSignOut(o)

Next == (\E r \in Requests : RequestStep(r)) \/ (\E o \in Ops : CubitStep(o))

Spec == Init /\ [][Next]_vars

\* The steps that the event loop, the delays, the client's timeouts and
\* Keycloak's answers bring about for a request that is under way.
Progress(r) ==
    \/ Retry(r) \/ Succeed(r) \/ \E e \in Errors : Fail(r, e)
    \/ Handle(r) \/ ReadRefreshToken(r) \/ RefreshAnswered(r)
    \/ RefreshRejected(r) \/ Resend(r)

\* ... and for a call of AuthCubit that is under way.
Completion(o) ==
    SignInAnswered(o) \/ SignInRejected(o) \/ FinishSignIn(o) \/ FinishSignOut(o)

\* The user owes nothing: no fairness on Send, StartSignIn and StartSignOut.
FairSpec ==
    /\ Spec
    /\ \A r \in Requests : WF_vars(Progress(r))
    /\ \A o \in Ops : WF_vars(Completion(o))
    /\ WF_vars(\E o \in Ops : SessionExpired(o))

-----------------------------------------------------------------------------
(* Properties. *)

\* Every variable has its type; a request is not retried more than
\* RetryInterceptor.maxRetries times.
TypeOK ==
    /\ auth \in AuthStates
    /\ refresh \in BOOLEAN
    /\ op \in [Ops -> OpSteps]
    /\ expired \in Nat
    /\ phase \in [Requests -> Phases]
    /\ error \in [Requests -> Errors \cup {"none"}]
    /\ authRetried \in [Requests -> BOOLEAN]
    /\ attempt \in [Requests -> 0..MaxRetries]
    /\ sends \in [Requests -> Nat]
    /\ holder \in Requests \cup {NoRequest}
    /\ waiting \in Seq(Requests)

\* The phases in which AuthInterceptor renews the tokens for a request.
Renewing == {"reading", "refreshing", "storing"}

\* However many requests are answered 401 together, at most one renews the
\* tokens or is on its second way at a time, the one whose error
\* AuthInterceptor handles: the refresh tokens are used one after the other.
SingleRefresh ==
    \A r \in Requests :
        phase[r] \in Renewing \cup {"handling", "resent"} => holder = r

\* A request goes to the network at most once for itself, once after a
\* refresh and maxRetries times after a 503, however the two interceptors
\* that send it through each other again are interleaved.
SendsBounded == \A r \in Requests : sends[r] <= MaxRetries + 2

\* A session that is shown can be renewed: no interleaving of sign-in, sign-out,
\* expiry and refresh leaves Authenticated without a stored refresh token, if
\* Keycloak issues one with every sign-in.
ShownSessionHasToken == auth = "Authenticated" => refresh

\* AuthInterceptor waits for a request it has sent again and whose own error
\* waits for AuthInterceptor.
Blocked == \E r \in Requests : holder = r /\ phase[r] = "queued"

\* Unless the interceptor is blocked, every request that was sent is answered,
\* through queueing, refresh and retries.
RequestsAnswered ==
    \A r \in Requests :
        phase[r] = "sent" ~> (phase[r] \in Ended \/ Blocked)

\* A refresh either gets its request sent again or the user is signed out
\* (onAuthFailure, the event bus and handleSessionExpired): nobody stays on a
\* screen whose requests are refused for want of a token.
RefreshRenewsOrSignsOut ==
    \A r \in Requests :
        phase[r] = "reading"
            ~> (phase[r] = "resent" \/ auth = "Unauthenticated")

\* The comment of AuthInterceptor: it refreshes the token on a 401 and retries
\* the original request, which then ends, well or not.
RetriedRequestEnds ==
    \A r \in Requests : phase[r] = "resent" ~> phase[r] \in Ended

-----------------------------------------------------------------------------
(* What is behind the liveness properties.                                 *)

\* Once blocked, AuthInterceptor is blocked for good, and with it every request
\* whose error waits in its queue.
BlockedIsFinal ==
    [][Blocked => /\ Blocked' /\ holder' = holder
                  /\ \A r \in Requests :
                       phase[r] = "queued" => phase'[r] = "queued"]_vars

\* What was sent again after a refresh is answered well.
ResentSucceed ==
    [][\A r \in Requests, e \in Errors :
         phase[r] = "resent" => ~Fail(r, e)]_vars

\* What a request still has before it in one attempt.
Place == [new |-> 8, sent |-> 7, resent |-> 7, queued |-> 6, handling |-> 5,
          reading |-> 4, refreshing |-> 3, storing |-> 2, backoff |-> 1,
          done |-> 0, failed |-> 0]

\* ... and before it ends: the retries and the refresh that are left count more
\* than any place.
Rank(r) == 8 * ((MaxRetries - attempt[r]) + (IF authRetried[r] THEN 0 ELSE 1))
             + Place[phase[r]]

\* Every step of a request brings it nearer to its end, and no step of another
\* one or of AuthCubit puts it back.
StepsLeadToTheEnd ==
    [][\A r \in Requests :
         /\ Rank(r)' <= Rank(r)
         /\ RequestStep(r) => Rank(r)' < Rank(r)]_vars

\* One call of AuthCubit at a time, and none beside a refresh.
CallsApart ==
    /\ \A o, p \in Ops : op[o] # "idle" /\ op[p] # "idle" => o = p
    /\ \A r \in Requests, o \in Ops :
         phase[r] \in {"refreshing", "storing"} => op[o] = "idle"

\* Who is signed out has left no refresh token in the storage.
SignedOutForgets == auth = "Unauthenticated" => ~refresh
=============================================================================
