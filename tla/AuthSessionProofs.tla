------------------------- MODULE AuthSessionProofs -------------------------
(***************************************************************************)
(* Theorems about AuthSession, for any number of requests, overlapping     *)
(* calls and retries.                                                      *)
(***************************************************************************)
EXTENDS AuthSession, TLAPS

\* What was counted explains what was sent: one attempt for the request
\* itself, one per 503 and one for the refresh, which is done once.
SendsCounted ==
    \A r \in Requests :
        /\ sends[r] <= attempt[r] + (IF phase[r] = "new" THEN 0 ELSE 1)
                                  + (IF authRetried[r] THEN 1 ELSE 0)
        /\ phase[r] \in Renewing => ~authRetried[r]
        /\ phase[r] = "backoff" => attempt[r] < MaxRetries

\* ShownSessionHasToken, where Keycloak issues refresh tokens.
ShownIfIssued == RefreshIssued = {TRUE} => ShownSessionHasToken

IInv == TypeOK /\ SingleRefresh /\ SendsCounted /\ ShownIfIssued

\* Taking the next error from the queue keeps its types.
LEMMA QueueTyped ==
    ASSUME TypeOK, NextInQueue
    PROVE  /\ holder' \in Requests \cup {NoRequest}
           /\ waiting' \in Seq(Requests)
           /\ waiting # <<>> => Head(waiting) \in Requests
BY DEF TypeOK, NextInQueue

\* The error handled next is the head of the queue, so that leaving keeps at
\* most one request in the interceptor's hands.
LEMMA LeaveKeepsSingle ==
    ASSUME TypeOK, SingleRefresh, NEW r \in Requests, holder = r,
           NEW label \in {"done", "failed", "backoff"}, Leave(r, label)
    PROVE  /\ phase' \in [Requests -> Phases]
           /\ phase'[r] = label
           /\ \A q \in Requests : q # r =>
                phase'[q] = phase[q] \/ phase'[q] = "handling"
           /\ SingleRefresh'
<1>1. NextInQueue
  BY DEF Leave
<1>2. waiting # <<>> => Head(waiting) \in Requests
  BY <1>1, QueueTyped
<1>3. /\ phase' \in [Requests -> Phases]
      /\ phase'[r] = label
      /\ \A q \in Requests : q # r =>
           phase'[q] = phase[q] \/ phase'[q] = "handling"
  BY DEF Leave, TypeOK, Phases
<1>4. ASSUME NEW q \in Requests,
             phase'[q] \in Renewing \cup {"handling", "resent"}
      PROVE  holder' = q
  <2>1. q # r
    BY <1>3, <1>4 DEF Renewing
  <2>2. CASE waiting # <<>> /\ q = Head(waiting)
    BY <1>1, <2>2 DEF NextInQueue
  <2>3. CASE ~(waiting # <<>> /\ q = Head(waiting))
    <3>1. phase'[q] = phase[q]
      BY <2>1, <2>3 DEF Leave
    <3> QED
      BY <1>4, <2>1, <3>1 DEF SingleRefresh
  <2> QED
    BY <2>2, <2>3
<1> QED
  BY <1>3, <1>4 DEF SingleRefresh

LEMMA InitIInv == ASSUME Init PROVE IInv
<1>1. auth \in AuthStates /\ refresh \in BOOLEAN /\ expired \in Nat
  BY DEF Init, AuthStates
<1>2. op \in [Ops -> OpSteps] /\ phase \in [Requests -> Phases]
  BY DEF Init, OpSteps, Phases
<1>3. /\ error \in [Requests -> Errors \cup {"none"}]
      /\ authRetried \in [Requests -> BOOLEAN]
  BY Zenon DEF Init
<1>4. attempt \in [Requests -> 0..MaxRetries] /\ sends \in [Requests -> Nat]
  BY ConstantsAssumption DEF Init
<1>5. holder \in Requests \cup {NoRequest} /\ waiting \in Seq(Requests)
  BY DEF Init
<1>6. SingleRefresh /\ ShownIfIssued
  BY DEF Init, SingleRefresh, ShownIfIssued, ShownSessionHasToken, Renewing
<1>7. SendsCounted
  BY DEF Init, SendsCounted, Renewing
<1> QED
  BY <1>1, <1>2, <1>3, <1>4, <1>5, <1>6, <1>7 DEF IInv, TypeOK

\* The steps of AuthCubit leave the requests alone.
LEMMA CubitKeepsIInv ==
    ASSUME IInv, NEW o \in Ops, CubitStep(o)
    PROVE  IInv'
<1> USE DEF IInv
<1>1. UNCHANGED <<requestVars, queueVars>>
  BY DEF CubitStep, StartSignIn, SignInAnswered, SignInRejected, FinishSignIn,
         StartSignOut, SessionExpired, FinishSignOut
<1>2. SingleRefresh' /\ SendsCounted'
  BY <1>1 DEF requestVars, queueVars, SingleRefresh, SendsCounted
<1>3. auth' \in AuthStates /\ expired' \in Nat
  BY DEF TypeOK, AuthStates, CubitStep, StartSignIn, SignInAnswered,
         SignInRejected, FinishSignIn, StartSignOut, SessionExpired,
         FinishSignOut
<1>4. refresh' \in BOOLEAN
  BY Zenon, ConstantsAssumption DEF TypeOK, CubitStep, StartSignIn, SignInAnswered, SignInRejected,
         FinishSignIn, StartSignOut, SessionExpired, FinishSignOut
<1>5. op' \in [Ops -> OpSteps]
  BY DEF TypeOK, OpSteps, OpGoes, CubitStep, StartSignIn, SignInAnswered,
         SignInRejected, FinishSignIn, StartSignOut, SessionExpired,
         FinishSignOut
<1>6. TypeOK'
  BY <1>1, <1>3, <1>4, <1>5 DEF TypeOK, requestVars, queueVars
<1>7. ShownIfIssued'
  BY DEF ShownIfIssued, ShownSessionHasToken, CubitStep, StartSignIn,
         SignInAnswered,
         SignInRejected, FinishSignIn, StartSignOut, SessionExpired,
         FinishSignOut
<1> QED
  BY <1>2, <1>6, <1>7

\* A request that ends, or waits for RetryInterceptor, keeps what is counted.
LEMMA LeaveKeepsIInv ==
    ASSUME IInv, NEW r \in Requests, holder = r, phase[r] # "new",
           NEW label \in {"done", "failed", "backoff"}, Leave(r, label),
           label = "backoff" => attempt[r] < MaxRetries,
           expired' \in Nat,
           UNCHANGED <<cubitVars, refresh, error, authRetried, attempt, sends>>
    PROVE  IInv'
<1> USE DEF IInv
<1>1. /\ phase' \in [Requests -> Phases]
      /\ phase'[r] = label
      /\ \A q \in Requests : q # r =>
           phase'[q] = phase[q] \/ phase'[q] = "handling"
      /\ SingleRefresh'
  BY LeaveKeepsSingle
<1>2. TypeOK'
  BY <1>1, QueueTyped DEF TypeOK, cubitVars, Leave
<1>3. SendsCounted'
  <2> SUFFICES ASSUME NEW q \in Requests
               PROVE  /\ sends[q] <= attempt[q]
                           + (IF phase'[q] = "new" THEN 0 ELSE 1)
                           + (IF authRetried[q] THEN 1 ELSE 0)
                      /\ phase'[q] \in Renewing => ~authRetried[q]
                      /\ phase'[q] = "backoff" => attempt[q] < MaxRetries
    BY DEF SendsCounted
  <2>1. sends[q] \in Nat /\ attempt[q] \in Nat
    BY ConstantsAssumption DEF TypeOK
  <2>2. CASE q = r
    BY <1>1, <2>1, <2>2 DEF SendsCounted, Renewing
  <2>3. CASE q # r
    BY <1>1, <2>1, <2>3 DEF SendsCounted, Renewing
  <2> QED
    BY <2>2, <2>3
<1>4. ShownIfIssued'
  BY DEF ShownIfIssued, ShownSessionHasToken, cubitVars
<1> QED
  BY <1>1, <1>2, <1>3, <1>4

\* ... which is what handler.next does.
LEMMA PassOnKeepsIInv ==
    ASSUME IInv, NEW r \in Requests, holder = r, phase[r] # "new", PassOn(r),
           expired' \in Nat,
           UNCHANGED <<cubitVars, refresh, error, authRetried, attempt, sends>>
    PROVE  IInv'
<1> DEFINE label == IF error[r] = "unavailable" /\ attempt[r] < MaxRetries
                      THEN "backoff" ELSE "failed"
<1>1. label \in {"done", "failed", "backoff"} /\ Leave(r, label)
  BY DEF PassOn
<1>2. label = "backoff" => attempt[r] < MaxRetries
  OBVIOUS
<1> HIDE DEF label
<1> QED
  BY <1>1, <1>2, LeaveKeepsIInv

LEMMA RequestKeepsIInv ==
    ASSUME IInv, NEW r \in Requests, RequestStep(r)
    PROVE  IInv'
<1> USE ConstantsAssumption DEF IInv
<1>1. CASE Send(r)
  <2>1. TypeOK'
    BY <1>1 DEF TypeOK, Phases, Send, Transmit, Goes, cubitVars, queueVars
  <2>2. SingleRefresh' /\ ShownIfIssued'
    BY <1>1 DEF TypeOK, SingleRefresh, ShownIfIssued,
                ShownSessionHasToken, Renewing, Send,
                Transmit, Goes, cubitVars, queueVars
  <2>3. SendsCounted'
    BY <1>1 DEF TypeOK, SendsCounted, Renewing, Send, Transmit, Goes
  <2> QED
    BY <2>1, <2>2, <2>3
<1>2. CASE Retry(r)
  <2>1. TypeOK'
    BY <1>2 DEF TypeOK, SendsCounted, Phases, Retry, Transmit, Goes, cubitVars,
                queueVars
  <2>2. SingleRefresh' /\ ShownIfIssued'
    BY <1>2 DEF TypeOK, SingleRefresh, ShownIfIssued,
                ShownSessionHasToken, Renewing, Retry,
                Transmit, Goes, cubitVars, queueVars
  <2>3. SendsCounted'
    BY <1>2 DEF TypeOK, SendsCounted, Renewing, Retry, Transmit, Goes
  <2> QED
    BY <2>1, <2>2, <2>3
<1>3. CASE Succeed(r)
  <2>1. CASE phase[r] = "sent"
    <3>1. TypeOK'
      BY <1>3, <2>1 DEF TypeOK, Phases, Succeed, Goes, cubitVars, queueVars
    <3>2. SingleRefresh' /\ ShownIfIssued'
      BY <1>3, <2>1 DEF TypeOK, SingleRefresh, ShownIfIssued,
                        ShownSessionHasToken, Renewing,
                        Succeed, Goes, cubitVars, queueVars
    <3>3. SendsCounted'
      BY <1>3, <2>1 DEF TypeOK, SendsCounted, Renewing, Succeed, Goes
    <3> QED
      BY <3>1, <3>2, <3>3
  <2>2. CASE phase[r] = "resent"
    <3>1. holder = r
      BY <2>2 DEF SingleRefresh
    <3>2. /\ Leave(r, "done")
          /\ UNCHANGED <<cubitVars, refresh, expired, error, authRetried,
                         attempt, sends>>
      BY <1>3, <2>2 DEF Succeed
    <3> QED
      BY <2>2, <3>1, <3>2, LeaveKeepsIInv DEF TypeOK
  <2> QED
    BY <1>3, <2>1, <2>2 DEF Succeed
<1>4. ASSUME NEW e \in Errors, Fail(r, e)
      PROVE  IInv'
  <2>1. TypeOK'
    <3>1. phase' \in [Requests -> Phases] /\ error' \in [Requests -> Errors \cup {"none"}]
      BY <1>4 DEF TypeOK, Phases, Fail, Goes
    <3>2. holder' \in Requests \cup {NoRequest} /\ waiting' \in Seq(Requests)
      <4>1. CASE holder = NoRequest
        BY <1>4, <4>1 DEF TypeOK, Fail
      <4>2. CASE holder # NoRequest
        <5>1. waiting' = Append(waiting, r) /\ holder' = holder
          BY <1>4, <4>2 DEF Fail
        <5> QED
          BY <5>1 DEF TypeOK
      <4> QED
        BY <4>1, <4>2
    <3> QED
      BY <1>4, <3>1, <3>2 DEF TypeOK, Fail, cubitVars
  <2>2. SingleRefresh' /\ ShownIfIssued'
    BY <1>4 DEF TypeOK, SingleRefresh, ShownIfIssued,
                ShownSessionHasToken, Renewing, Fail,
                Goes, cubitVars
  <2>3. SendsCounted'
    BY <1>4 DEF TypeOK, SendsCounted, Renewing, Fail, Goes
  <2> QED
    BY <2>1, <2>2, <2>3
<1>5. CASE Handle(r)
  <2>1. holder = r
    BY <1>5 DEF Handle, SingleRefresh
  <2>2. CASE error[r] = "unauthorized" /\ ~authRetried[r]
    <3>1. TypeOK'
      BY <1>5, <2>2 DEF TypeOK, Phases, Handle, Goes, cubitVars, queueVars
    <3>2. SingleRefresh' /\ ShownIfIssued'
      BY <1>5, <2>1, <2>2 DEF TypeOK, SingleRefresh, ShownIfIssued,
                ShownSessionHasToken,
                Renewing, Handle, Goes, cubitVars, queueVars
    <3>3. SendsCounted'
      BY <1>5, <2>2 DEF TypeOK, SendsCounted, Renewing, Handle, Goes
    <3> QED
      BY <3>1, <3>2, <3>3
  <2>3. CASE ~(error[r] = "unauthorized" /\ ~authRetried[r])
    BY <1>5, <2>1, <2>3, PassOnKeepsIInv DEF Handle, TypeOK
  <2> QED
    BY <2>2, <2>3
<1>6. CASE ReadRefreshToken(r)
  <2>1. holder = r
    BY <1>6 DEF ReadRefreshToken, SingleRefresh, Renewing
  <2>2. CASE refresh
    <3>1. TypeOK'
      BY <1>6, <2>2 DEF TypeOK, Phases, ReadRefreshToken, Goes, cubitVars,
                        queueVars
    <3>2. SingleRefresh' /\ ShownIfIssued'
      BY <1>6, <2>1, <2>2 DEF TypeOK, SingleRefresh, ShownIfIssued,
                ShownSessionHasToken,
                Renewing, ReadRefreshToken, Goes, cubitVars, queueVars
    <3>3. SendsCounted'
      BY <1>6, <2>2 DEF TypeOK, SendsCounted, Renewing, ReadRefreshToken, Goes
    <3> QED
      BY <3>1, <3>2, <3>3
  <2>3. CASE ~refresh
    BY <1>6, <2>1, <2>3, PassOnKeepsIInv
       DEF ReadRefreshToken, RefreshFailed, TypeOK
  <2> QED
    BY <2>2, <2>3
<1>7. CASE RefreshAnswered(r)
  <2>1. TypeOK'
    BY <1>7 DEF TypeOK, Phases, RefreshAnswered, Goes, cubitVars, queueVars
  <2>2. SingleRefresh' /\ ShownIfIssued'
    BY <1>7 DEF TypeOK, SingleRefresh, ShownIfIssued,
                ShownSessionHasToken, Renewing,
                RefreshAnswered, Goes, cubitVars, queueVars
  <2>3. SendsCounted'
    BY <1>7 DEF TypeOK, SendsCounted, Renewing, RefreshAnswered, Goes
  <2> QED
    BY <2>1, <2>2, <2>3
<1>8. CASE RefreshRejected(r)
  <2>1. holder = r
    BY <1>8 DEF RefreshRejected, SingleRefresh, Renewing
  <2> QED
    BY <1>8, <2>1, PassOnKeepsIInv DEF RefreshRejected, RefreshFailed, TypeOK
<1>9. CASE Resend(r)
  <2>1. TypeOK'
    BY <1>9 DEF TypeOK, Phases, Resend, Transmit, Goes, cubitVars, queueVars
  <2>2. SingleRefresh' /\ ShownIfIssued'
    BY <1>9 DEF TypeOK, SingleRefresh, ShownIfIssued,
                ShownSessionHasToken, Renewing, Resend,
                Transmit, Goes, cubitVars, queueVars
  <2>3. SendsCounted'
    BY <1>9 DEF TypeOK, SendsCounted, Renewing, Resend, Transmit, Goes
  <2> QED
    BY <2>1, <2>2, <2>3
<1> QED
  BY <1>1, <1>2, <1>3, <1>4, <1>5, <1>6, <1>7, <1>8, <1>9 DEF RequestStep

\* The inductive invariant holds in every behaviour.
THEOREM IInvHolds == Spec => []IInv
<1>1. Init => IInv
  BY InitIInv
<1>2. IInv /\ [Next]_vars => IInv'
  <2> SUFFICES ASSUME IInv, [Next]_vars PROVE IInv'
    OBVIOUS
  <2>1. CASE \E r \in Requests : RequestStep(r)
    BY <2>1, RequestKeepsIInv
  <2>2. CASE \E o \in Ops : CubitStep(o)
    BY <2>2, CubitKeepsIInv
  <2>3. CASE UNCHANGED vars
    BY <2>3 DEF vars, cubitVars, requestVars, queueVars, IInv, TypeOK,
                SingleRefresh, SendsCounted, ShownIfIssued,
                ShownSessionHasToken
  <2> QED
    BY <2>1, <2>2, <2>3 DEF Next
<1> QED
  BY <1>1, <1>2, PTL DEF Spec

\* Types, and the bound of RetryInterceptor for any maxRetries.
THEOREM TypeCorrect == Spec => []TypeOK
<1>1. IInv => TypeOK
  BY DEF IInv
<1> QED
  BY <1>1, IInvHolds, PTL

\* Any number of requests answered 401 together renew the tokens in turn.
THEOREM RefreshesAreSerial == Spec => []SingleRefresh
<1>1. IInv => SingleRefresh
  BY DEF IInv
<1> QED
  BY <1>1, IInvHolds, PTL

\* The two interceptors together send a request maxRetries + 2 times at most.
THEOREM RequestsSentBounded == Spec => []SendsBounded
<1>1. IInv => SendsBounded
  <2> SUFFICES ASSUME IInv, NEW r \in Requests PROVE sends[r] <= MaxRetries + 2
    BY DEF SendsBounded
  <2>1. sends[r] \in Nat /\ attempt[r] \in 0..MaxRetries
    BY DEF IInv, TypeOK
  <2> QED
    BY <2>1, ConstantsAssumption DEF IInv, SendsCounted
<1> QED
  BY <1>1, IInvHolds, PTL

\* No interleaving shows a session whose refresh token is gone, where Keycloak
\* issues one with every sign-in.
THEOREM ShownSessionsRenewable ==
    ASSUME RefreshIssued = {TRUE}
    PROVE  Spec => []ShownSessionHasToken
<1>1. IInv => ShownSessionHasToken
  BY DEF IInv, ShownIfIssued
<1> QED
  BY <1>1, IInvHolds, PTL

-----------------------------------------------------------------------------
(* The error queue. *)

\* The requests that wait are the queued ones, each once, and none waits when no
\* error is handled.
QueueKeepsErrors ==
    /\ {r \in Requests : phase[r] = "queued"} = Range(waiting)
    /\ \A i, j \in DOMAIN waiting : waiting[i] = waiting[j] => i = j
    /\ holder = NoRequest => waiting = <<>>

\* Steps that neither queue nor take out an error.
LEMMA QueueUntouched ==
    ASSUME QueueKeepsErrors, UNCHANGED queueVars,
           \A q \in Requests : phase'[q] = "queued" <=> phase[q] = "queued"
    PROVE  QueueKeepsErrors'
<1>1. /\ holder' = holder /\ waiting' = waiting
      /\ Range(waiting)' = Range(waiting)
  BY DEF queueVars, Range
<1>2. {q \in Requests : phase'[q] = "queued"} =
        {q \in Requests : phase[q] = "queued"}
  OBVIOUS
<1> QED
  BY <1>1, <1>2 DEF QueueKeepsErrors

\* The head of the queue, and nobody else, stops waiting.
LEMMA LeaveKeepsQueue ==
    ASSUME TypeOK, QueueKeepsErrors, ConstantsAssumption, NEW r \in Requests,
           phase[r] # "queued", NEW label, label # "queued", Leave(r, label)
    PROVE  QueueKeepsErrors'
<1>0. /\ waiting \in Seq(Requests) /\ phase \in [Requests -> Phases]
      /\ {q \in Requests : phase[q] = "queued"} = Range(waiting)
      /\ \A i, j \in DOMAIN waiting : waiting[i] = waiting[j] => i = j
  BY DEF TypeOK, QueueKeepsErrors
<1>1. CASE waiting = <<>>
  <2>1. waiting' = <<>>
    BY <1>1 DEF Leave, NextInQueue
  <2>2. \A q \in Requests : phase[q] # "queued"
    BY <1>0, <1>1 DEF Range
  <2>3. \A q \in Requests : phase'[q] # "queued"
    BY <1>1, <2>2 DEF Leave
  <2>4. Range(waiting)' = {}
    BY <2>1 DEF Range
  <2>5. \A i, j \in DOMAIN waiting' : waiting'[i] = waiting'[j] => i = j
    BY <2>1
  <2>6. {q \in Requests : phase'[q] = "queued"} = {}
    BY <2>3
  <2> QED
    BY <2>1, <2>4, <2>5, <2>6 DEF QueueKeepsErrors
<1>2. CASE waiting # <<>>
  <2> DEFINE h == Head(waiting)
             w == Tail(waiting)
  <2>1. /\ h \in Requests /\ h = waiting[1] /\ 1 \in DOMAIN waiting
        /\ w \in Seq(Requests)
        /\ DOMAIN w = 1..(Len(waiting) - 1) /\ Len(waiting) \in Nat
        /\ DOMAIN waiting = 1..Len(waiting)
        /\ \A i \in DOMAIN w : w[i] = waiting[i + 1]
    BY <1>0, <1>2
  <2>2. holder' = h /\ waiting' = w
    BY <1>2 DEF Leave, NextInQueue
  <2> HIDE DEF h, w
  <2>3. holder' # NoRequest
    BY <2>1, <2>2, ConstantsAssumption DEF ConstantsAssumption
  <2>4. \A i, j \in DOMAIN w : w[i] = w[j] => i = j
    <3> SUFFICES ASSUME NEW i \in DOMAIN w, NEW j \in DOMAIN w, w[i] = w[j]
                 PROVE  i = j
      OBVIOUS
    <3>1. i + 1 \in DOMAIN waiting /\ j + 1 \in DOMAIN waiting
      BY <2>1
    <3>2. i + 1 = j + 1
      BY <1>0, <2>1, <3>1
    <3> QED
      BY <2>1, <3>2
  <2>5. Range(w) = Range(waiting) \ {h}
    <3>1. ASSUME NEW i \in DOMAIN w
          PROVE  w[i] \in Range(waiting) /\ w[i] # h
      <4>1. i + 1 \in DOMAIN waiting /\ i + 1 # 1
        BY <2>1
      <4> QED
        BY <1>0, <2>1, <4>1 DEF Range
    <3>2. ASSUME NEW i \in DOMAIN waiting, waiting[i] # h
          PROVE  waiting[i] \in Range(w)
      <4>1. i # 1
        BY <2>1, <3>2
      <4>2. i - 1 \in DOMAIN w /\ w[i - 1] = waiting[i]
        BY <2>1, <4>1
      <4> QED
        BY <4>2 DEF Range
    <3> QED
      BY <3>1, <3>2 DEF Range
  <2>6. phase[h] = "queued"
    BY <1>0, <2>1 DEF Range
  <2>7. \A q \in Requests : phase'[q] = "queued" <=> phase[q] = "queued" /\ q # h
    BY <1>2, <2>6 DEF Leave, h
  <2>8. {q \in Requests : phase'[q] = "queued"} = Range(w)
    BY <1>0, <2>5, <2>7
  <2>9. Range(waiting)' = Range(w)
    BY <2>2 DEF Range
  <2> QED
    BY <2>2, <2>3, <2>4, <2>8, <2>9 DEF QueueKeepsErrors
<1> QED
  BY <1>1, <1>2

\* An error waits behind the one that is handled.
LEMMA FailKeepsQueue ==
    ASSUME TypeOK, QueueKeepsErrors, ConstantsAssumption, NEW r \in Requests,
           NEW e \in Errors, Fail(r, e)
    PROVE  QueueKeepsErrors'
<1>0. /\ waiting \in Seq(Requests) /\ phase \in [Requests -> Phases]
      /\ {q \in Requests : phase[q] = "queued"} = Range(waiting)
      /\ \A i, j \in DOMAIN waiting : waiting[i] = waiting[j] => i = j
      /\ phase[r] # "queued"
  BY DEF TypeOK, QueueKeepsErrors, Fail
<1>1. CASE holder = NoRequest
  <2>1. /\ holder' = r /\ waiting' = waiting
        /\ \A q \in Requests : phase'[q] = "queued" <=> phase[q] = "queued"
    BY <1>0, <1>1 DEF Fail, Goes
  <2>2. r # NoRequest
    BY ConstantsAssumption DEF ConstantsAssumption
  <2>3. {q \in Requests : phase'[q] = "queued"} = Range(waiting)
    BY <1>0, <2>1
  <2>4. Range(waiting)' = Range(waiting)
    BY <2>1 DEF Range
  <2> QED
    BY <1>0, <2>1, <2>2, <2>3, <2>4 DEF QueueKeepsErrors
<1>2. CASE holder # NoRequest
  <2>1. /\ holder' = holder /\ waiting' = Append(waiting, r)
        /\ \A q \in Requests :
             phase'[q] = "queued" <=> phase[q] = "queued" \/ q = r
    BY <1>0, <1>2 DEF Fail, Goes
  <2>2. /\ DOMAIN waiting' = DOMAIN waiting \cup {Len(waiting) + 1}
        /\ waiting'[Len(waiting) + 1] = r
        /\ \A i \in DOMAIN waiting : waiting'[i] = waiting[i]
    BY <1>0, <2>1
  <2>3. \A i \in DOMAIN waiting : waiting[i] # r
    BY <1>0 DEF Range
  <2>4. \A i, j \in DOMAIN waiting' : waiting'[i] = waiting'[j] => i = j
    BY <1>0, <2>2, <2>3
  <2>5. Range(waiting)' = Range(waiting) \cup {r}
    BY <2>2 DEF Range
  <2>6. {q \in Requests : phase'[q] = "queued"} = Range(waiting) \cup {r}
    BY <1>0, <2>1
  <2> QED
    BY <1>2, <2>1, <2>4, <2>5, <2>6 DEF QueueKeepsErrors
<1> QED
  BY <1>1, <1>2

\* Every step of a request keeps QueueKeepsErrors.
LEMMA RequestKeepsQueue ==
    ASSUME IInv, QueueKeepsErrors, NEW r \in Requests, RequestStep(r)
    PROVE  QueueKeepsErrors'
<1>0. TypeOK /\ ConstantsAssumption /\ phase \in [Requests -> Phases]
  BY ConstantsAssumption DEF IInv, TypeOK
<1>1. ASSUME NEW label, label # "queued", phase[r] # "queued", Goes(r, label),
             UNCHANGED queueVars
      PROVE  QueueKeepsErrors'
  <2>1. \A q \in Requests : phase'[q] = "queued" <=> phase[q] = "queued"
    BY <1>0, <1>1 DEF Goes
  <2> QED
    BY <1>1, <2>1, QueueUntouched
<1>2. ASSUME phase[r] # "queued", PassOn(r) PROVE QueueKeepsErrors'
  <2> DEFINE label == IF error[r] = "unavailable" /\ attempt[r] < MaxRetries
                        THEN "backoff" ELSE "failed"
  <2>1. Leave(r, label) /\ label # "queued"
    BY <1>2 DEF PassOn
  <2> HIDE DEF label
  <2> QED
    BY <1>0, <1>2, <2>1, LeaveKeepsQueue
<1>3. CASE Send(r) \/ Retry(r) \/ RefreshAnswered(r) \/ Resend(r)
  BY <1>1, <1>3 DEF Send, Retry, RefreshAnswered, Resend, Transmit
<1>4. CASE Succeed(r)
  BY <1>0, <1>1, <1>4, LeaveKeepsQueue DEF Succeed
<1>5. CASE Handle(r)
  BY <1>1, <1>2, <1>5 DEF Handle
<1>6. CASE ReadRefreshToken(r)
  BY <1>1, <1>2, <1>6 DEF ReadRefreshToken, RefreshFailed
<1>7. CASE RefreshRejected(r)
  BY <1>2, <1>7 DEF RefreshRejected, RefreshFailed
<1>8. CASE \E e \in Errors : Fail(r, e)
  BY <1>0, <1>8, FailKeepsQueue
<1> QED
  BY <1>3, <1>4, <1>5, <1>6, <1>7, <1>8 DEF RequestStep

LEMMA QueueLosesNothing == Spec => []QueueKeepsErrors
<1>1. Init => QueueKeepsErrors
  BY DEF Init, QueueKeepsErrors, Range
<1>2. IInv /\ QueueKeepsErrors /\ [Next]_vars => QueueKeepsErrors'
  <2> SUFFICES ASSUME IInv, QueueKeepsErrors, [Next]_vars
               PROVE  QueueKeepsErrors'
    OBVIOUS
  <2>1. CASE \E r \in Requests : RequestStep(r)
    BY <2>1, RequestKeepsQueue
  <2>2. ASSUME NEW o \in Ops, CubitStep(o)
        PROVE  QueueKeepsErrors'
    <3>1. UNCHANGED <<phase, queueVars>>
      BY <2>2 DEF CubitStep, StartSignIn, SignInAnswered, SignInRejected,
             FinishSignIn, StartSignOut, SessionExpired, FinishSignOut,
             requestVars
    <3> QED
      BY <3>1, QueueUntouched
  <2>3. CASE UNCHANGED vars
    BY <2>3, QueueUntouched DEF vars, requestVars
  <2> QED
    BY <2>1, <2>2, <2>3 DEF Next
<1> QED
  BY <1>1, <1>2, IInvHolds, PTL DEF Spec

-----------------------------------------------------------------------------
(* Blocking. *)

\* A step of a request moves it alone, or hands the interceptor on, or ends
\* with an error.
LEMMA RequestMoves ==
    ASSUME IInv, NEW r \in Requests, RequestStep(r)
    PROVE  /\ phase[r] # "queued"
           /\ \/ /\ UNCHANGED queueVars
                 /\ \E label \in Phases \ {"queued"} : Goes(r, label)
              \/ /\ holder = r
                 /\ UNCHANGED <<authRetried, attempt>>
                 /\ phase[r] \in Renewing \cup {"handling", "resent"}
                 /\ \E label \in {"done", "failed", "backoff"} : Leave(r, label)
              \/ \E e \in Errors : Fail(r, e)
<1>1. CASE Send(r) \/ Retry(r) \/ RefreshAnswered(r) \/ Resend(r)
  BY <1>1 DEF Send, Retry, RefreshAnswered, Resend, Transmit, Phases
<1>2. ASSUME phase[r] \in Renewing \cup {"handling", "resent"}
      PROVE  holder = r
  BY <1>2 DEF IInv, SingleRefresh
<1>3. PassOn(r) => \E label \in {"done", "failed", "backoff"} : Leave(r, label)
  BY DEF PassOn
<1>4. CASE Succeed(r)
  BY <1>2, <1>4 DEF Succeed, Phases
<1>5. CASE Handle(r)
  BY <1>2, <1>3, <1>5 DEF Handle, Phases
<1>6. CASE ReadRefreshToken(r)
  BY <1>2, <1>3, <1>6 DEF ReadRefreshToken, RefreshFailed, Renewing, Phases
<1>7. CASE RefreshRejected(r)
  BY <1>2, <1>3, <1>7 DEF RefreshRejected, RefreshFailed, Renewing
<1>8. CASE \E e \in Errors : Fail(r, e)
  BY <1>8 DEF Fail
<1> QED
  BY <1>1, <1>4, <1>5, <1>6, <1>7, <1>8 DEF RequestStep

\* A call of AuthCubit moves no request.
LEMMA CubitMoves ==
    ASSUME NEW o \in Ops, CubitStep(o)
    PROVE  UNCHANGED <<requestVars, queueVars>>
BY DEF CubitStep, StartSignIn, SignInAnswered, SignInRejected, FinishSignIn,
       StartSignOut, SessionExpired, FinishSignOut

\* Only the request whose error is handled could free the interceptor, and it
\* waits for the interceptor.
THEOREM BlockedForever == Spec => BlockedIsFinal
<1> DEFINE Final == Blocked =>
                      /\ Blocked' /\ holder' = holder
                      /\ \A r \in Requests :
                           phase[r] = "queued" => phase'[r] = "queued"
<1>1. IInv /\ [Next]_vars => [Final]_vars
  <2> SUFFICES ASSUME IInv, Next, NEW q \in Requests,
                      holder = q, phase[q] = "queued"
               PROVE  /\ holder' = q
                      /\ \A r \in Requests :
                           phase[r] = "queued" => phase'[r] = "queued"
    BY DEF Blocked
  <2>0. phase \in [Requests -> Phases] /\ q # NoRequest
    BY ConstantsAssumption DEF IInv, TypeOK
  <2>1. ASSUME NEW r \in Requests, RequestStep(r)
        PROVE  /\ holder' = q
               /\ \A p \in Requests :
                    phase[p] = "queued" => phase'[p] = "queued"
    <3>1. phase[r] # "queued" /\ r # q
      BY <2>1, RequestMoves
    <3>2. CASE UNCHANGED queueVars /\ \E label \in Phases : Goes(r, label)
      BY <2>0, <3>1, <3>2 DEF queueVars, Goes
    <3>3. CASE \E e \in Errors : Fail(r, e)
      BY <2>0, <3>1, <3>3 DEF Fail, Goes
    <3> QED
      BY <2>1, <3>1, <3>2, <3>3, RequestMoves
  <2>2. ASSUME NEW o \in Ops, CubitStep(o)
        PROVE  UNCHANGED <<holder, phase>>
    BY <2>2, CubitMoves DEF requestVars, queueVars
  <2> QED
    BY <2>1, <2>2 DEF Next
<1> QED
  BY <1>1, IInvHolds, PTL DEF Spec, BlockedIsFinal

\* Who holds the interceptor is in its hands.  It can only have come to wait for
\* it when it was sent again and failed.
HolderInv ==
    /\ holder # NoRequest =>
         phase[holder] \in Renewing \cup {"handling", "resent", "queued"}
    /\ \A r \in Requests : phase[r] = "resent" => authRetried[r]
    /\ Blocked => authRetried[holder]

LEMMA LeaveKeepsHolder ==
    ASSUME IInv, QueueKeepsErrors, HolderInv, NEW r \in Requests, holder = r,
           phase[r] \in Renewing \cup {"handling", "resent"},
           NEW label \in {"done", "failed", "backoff"}, Leave(r, label),
           UNCHANGED authRetried
    PROVE  HolderInv' /\ ~Blocked'
<1>0. /\ waiting \in Seq(Requests) /\ phase \in [Requests -> Phases]
      /\ {q \in Requests : phase[q] = "queued"} = Range(waiting)
      /\ NoRequest \notin Requests
  BY ConstantsAssumption DEF IInv, TypeOK, QueueKeepsErrors
<1>1. CASE waiting = <<>>
  <2>1. holder' = NoRequest /\ ~Blocked'
    BY <1>0, <1>1 DEF Leave, NextInQueue, Blocked
  <2>2. \A q \in Requests : phase'[q] = "resent" => phase[q] = "resent"
    BY <1>1 DEF Leave
  <2> QED
    BY <2>1, <2>2 DEF HolderInv
<1>2. CASE waiting # <<>>
  <2>1. /\ Head(waiting) \in Requests /\ phase[Head(waiting)] = "queued"
        /\ Head(waiting) # r
    <3>1. 1 \in DOMAIN waiting /\ Head(waiting) = waiting[1]
      BY <1>0, <1>2
    <3>2. Head(waiting) \in Range(waiting)
      BY <3>1 DEF Range
    <3> QED
      BY <1>0, <3>2 DEF Renewing
  <2>2. holder' = Head(waiting) /\ phase'[Head(waiting)] = "handling"
    BY <1>2, <2>1 DEF Leave, NextInQueue
  <2>3. \A q \in Requests : phase'[q] = "resent" => phase[q] = "resent"
    BY DEF Leave
  <2> QED
    BY <2>2, <2>3 DEF HolderInv, Blocked
<1> QED
  BY <1>1, <1>2

LEMMA RequestKeepsHolder ==
    ASSUME IInv, QueueKeepsErrors, HolderInv, NEW r \in Requests, RequestStep(r)
    PROVE  /\ HolderInv'
           /\ Blocked' => \/ Blocked
                          \/ phase[r] = "resent" /\ \E e \in Errors : Fail(r, e)
<1>0. /\ phase \in [Requests -> Phases] /\ r # NoRequest
      /\ authRetried \in [Requests -> BOOLEAN]
      /\ holder = r =>
           phase[r] \in Renewing \cup {"handling", "resent", "queued"}
  BY ConstantsAssumption DEF IInv, TypeOK, HolderInv
<1>1. ASSUME NEW label \in Phases \ {"queued"}, Goes(r, label),
             UNCHANGED queueVars, phase[r] # "queued",
             holder = r => label \in Renewing \cup {"handling", "resent"},
             label = "resent" => authRetried'[r],
             \A q \in Requests \ {r} : authRetried'[q] = authRetried[q]
      PROVE  HolderInv' /\ (Blocked' => Blocked)
  <2>1. /\ phase'[r] = label /\ holder' = holder
        /\ \A q \in Requests \ {r} : phase'[q] = phase[q]
    BY <1>0, <1>1 DEF Goes, queueVars
  <2>2. holder \in Requests \cup {NoRequest}
    BY DEF IInv, TypeOK
  <2>3. holder # r \/ ~Blocked'
    BY <1>1, <2>1 DEF Blocked
  <2> QED
    BY <1>1, <2>1, <2>2, <2>3 DEF HolderInv, Blocked
<1>2. CASE Send(r) \/ Retry(r)
  BY <1>0, <1>1, <1>2 DEF Send, Retry, Transmit, Phases, Renewing
<1>3. CASE RefreshAnswered(r)
  BY <1>0, <1>1, <1>3 DEF RefreshAnswered, Phases, Renewing
<1>4. CASE Resend(r)
  BY <1>0, <1>1, <1>4 DEF Resend, Transmit, Phases, Renewing
<1>5. CASE phase[r] = "sent" /\ Succeed(r)
  BY <1>0, <1>1, <1>5 DEF Succeed, Phases, Renewing
<1>6. CASE Goes(r, "reading") /\ Handle(r) /\ UNCHANGED queueVars
  BY <1>0, <1>1, <1>6 DEF Handle, Phases, Renewing
<1>7. CASE Goes(r, "refreshing") /\ ReadRefreshToken(r) /\ UNCHANGED queueVars
  BY <1>0, <1>1, <1>7 DEF ReadRefreshToken, Phases, Renewing
<1>8. ASSUME NEW e \in Errors, Fail(r, e)
      PROVE  /\ HolderInv'
             /\ Blocked' => Blocked \/ phase[r] = "resent"
  <2>1. phase[r] \in {"sent", "resent"} /\ authRetried' = authRetried
    BY <1>8 DEF Fail
  <2>2. CASE holder = NoRequest
    <3>1. holder' = r /\ phase' = [phase EXCEPT ![r] = "handling"]
      BY <1>8, <2>2 DEF Fail, Goes
    <3> QED
      BY <1>0, <2>1, <3>1 DEF HolderInv, Blocked
  <2>3. CASE holder # NoRequest
    <3>1. holder' = holder /\ phase' = [phase EXCEPT ![r] = "queued"]
      BY <1>8, <2>3 DEF Fail, Goes
    <3>2. holder \in Requests
      BY <2>3 DEF IInv, TypeOK
    <3>3. CASE holder = r
      <4>1. phase[r] = "resent" /\ authRetried[r]
        BY <1>0, <2>1, <3>3 DEF HolderInv, Renewing
      <4> QED
        BY <1>0, <2>1, <3>1, <3>3, <4>1 DEF HolderInv
    <3>4. CASE holder # r
      BY <1>0, <2>1, <2>3, <3>1, <3>2, <3>4 DEF HolderInv, Blocked
    <3> QED
      BY <3>3, <3>4
  <2> QED
    BY <2>2, <2>3
<1>9. CASE /\ holder = r /\ UNCHANGED authRetried
           /\ phase[r] \in Renewing \cup {"handling", "resent"}
           /\ \E label \in {"done", "failed", "backoff"} : Leave(r, label)
  BY <1>9, LeaveKeepsHolder
<1>10. CASE Succeed(r) \/ Handle(r) \/ ReadRefreshToken(r) \/ RefreshRejected(r)
  <2>1. \/ Goes(r, "reading") /\ Handle(r) /\ UNCHANGED queueVars
        \/ Goes(r, "refreshing") /\ ReadRefreshToken(r) /\ UNCHANGED queueVars
        \/ phase[r] = "sent" /\ Succeed(r)
        \/ /\ UNCHANGED authRetried
           /\ phase[r] \in Renewing \cup {"handling", "resent"}
           /\ \E label \in {"done", "failed", "backoff"} : Leave(r, label)
    BY <1>10 DEF Succeed, Handle, ReadRefreshToken, RefreshRejected,
                 RefreshFailed, PassOn, Renewing
  <2> QED
    BY <1>5, <1>6, <1>7, <1>9, <2>1 DEF IInv, SingleRefresh
<1> QED
  BY <1>2, <1>3, <1>4, <1>8, <1>10 DEF RequestStep

LEMMA HolderStep ==
    ASSUME IInv, QueueKeepsErrors, HolderInv, [Next]_vars
    PROVE  /\ HolderInv'
           /\ Blocked' => \/ Blocked
                          \/ \E r \in Requests, e \in Errors :
                               phase[r] = "resent" /\ Fail(r, e)
<1>1. ASSUME UNCHANGED <<requestVars, queueVars>>
      PROVE  HolderInv' /\ (Blocked' => Blocked)
  BY <1>1 DEF requestVars, queueVars, HolderInv, Blocked
<1> QED
  BY <1>1, RequestKeepsHolder, CubitMoves DEF Next, vars

LEMMA HolderHolds == Spec => []HolderInv
<1>1. Init => HolderInv
  BY DEF Init, HolderInv, Blocked
<1> QED
  BY <1>1, HolderStep, IInvHolds, QueueLosesNothing, PTL DEF Spec

\* The one way into the deadlock: a request that was sent again after a refresh
\* fails too.  No other order of errors, refreshes, sign-ins and sign-outs
\* blocks the interceptor.
THEOREM NotBlockedWhileResentSucceed == Spec /\ ResentSucceed => []~Blocked
<1>1. Init => ~Blocked
  BY DEF Init, Blocked
<1>2. /\ IInv /\ QueueKeepsErrors /\ HolderInv /\ ~Blocked /\ [Next]_vars
      /\ [\A r \in Requests, e \in Errors :
            phase[r] = "resent" => ~Fail(r, e)]_vars
      => ~Blocked'
  <2>1. UNCHANGED vars => (Blocked' <=> Blocked)
    BY DEF vars, requestVars, queueVars, Blocked
  <2> QED
    BY <2>1, HolderStep
<1> QED
  BY <1>1, <1>2, IInvHolds, QueueLosesNothing, HolderHolds, PTL
     DEF Spec, ResentSucceed

-----------------------------------------------------------------------------
(* Every request step leads to the end. *)

LEMMA PlaceTyped == \A p \in Phases : Place[p] \in Int
<1>1. /\ Place["new"] = 8 /\ Place["sent"] = 7 /\ Place["resent"] = 7
      /\ Place["queued"] = 6 /\ Place["handling"] = 5 /\ Place["reading"] = 4
      /\ Place["refreshing"] = 3 /\ Place["storing"] = 2
      /\ Place["backoff"] = 1 /\ Place["done"] = 0 /\ Place["failed"] = 0
  BY DEF Place
<1> QED
  BY <1>1 DEF Phases

LEMMA RankTyped == ASSUME TypeOK, NEW r \in Requests PROVE Rank(r) \in Int
<1>1. Place[phase[r]] \in Int
  BY PlaceTyped DEF TypeOK
<1>2. attempt[r] \in 0..MaxRetries
  BY DEF TypeOK
<1> QED
  BY <1>1, <1>2, ConstantsAssumption DEF Rank

\* A request whose counters are as they were moves down with its place.
LEMMA LowerPlace ==
    ASSUME TypeOK, TypeOK', NEW r \in Requests,
           attempt'[r] = attempt[r], authRetried'[r] = authRetried[r]
    PROVE  /\ phase'[r] = phase[r] => Rank(r)' = Rank(r)
           /\ Place[phase'[r]] < Place[phase[r]] => Rank(r)' < Rank(r)
<1>1. /\ MaxRetries - attempt[r] \in Int
      /\ Place[phase[r]] \in Int /\ Place[phase'[r]] \in Int
  BY PlaceTyped, ConstantsAssumption DEF TypeOK
<1>2. Rank(r) = 8 * ((MaxRetries - attempt[r])
                       + (IF authRetried[r] THEN 0 ELSE 1)) + Place[phase[r]]
  BY DEF Rank
<1>3. Rank(r)' = 8 * ((MaxRetries - attempt[r])
                       + (IF authRetried[r] THEN 0 ELSE 1)) + Place[phase'[r]]
  BY DEF Rank
<1> HIDE DEF Place
<1> QED
  BY <1>1, <1>2, <1>3

\* The head of the queue comes nearer when another request leaves.
LEMMA LeaveLowersOthers ==
    ASSUME TypeOK, TypeOK', QueueKeepsErrors, NEW r \in Requests, NEW label,
           Leave(r, label), UNCHANGED <<attempt, authRetried>>,
           NEW q \in Requests \ {r}
    PROVE  Rank(q)' <= Rank(q)
<1>0. waiting \in Seq(Requests) /\ phase \in [Requests -> Phases]
  BY DEF TypeOK
<1>1. Rank(q) \in Int /\ Rank(q)' \in Int
  <2>1. Rank(q) \in Int
    BY RankTyped
  <2>2. Place[phase'[q]] \in Int /\ attempt'[q] \in 0..MaxRetries
    BY PlaceTyped DEF TypeOK
  <2> QED
    BY <2>1, <2>2, ConstantsAssumption DEF Rank
<1>2. CASE waiting # <<>> /\ q = Head(waiting)
  <2>1. phase[q] = "queued"
    <3>1. 1 \in DOMAIN waiting /\ q = waiting[1]
      BY <1>0, <1>2
    <3>2. q \in Range(waiting)
      BY <3>1 DEF Range
    <3> QED
      BY <3>2 DEF QueueKeepsErrors
  <2>2. phase'[q] = "handling"
    BY <1>2 DEF Leave
  <2>3. Place[phase'[q]] < Place[phase[q]]
    BY <2>1, <2>2 DEF Place
  <2> QED
    BY <1>1, <2>3, LowerPlace
<1>3. CASE ~(waiting # <<>> /\ q = Head(waiting))
  <2>1. phase'[q] = phase[q]
    BY <1>3 DEF Leave
  <2> QED
    BY <1>1, <2>1, LowerPlace
<1> QED
  BY <1>2, <1>3

\* A retry and a resending cost more than they put back.
LEMMA OwnStepLowers ==
    ASSUME IInv, TypeOK', QueueKeepsErrors, NEW r \in Requests, RequestStep(r)
    PROVE  Rank(r)' < Rank(r)
<1>0. /\ phase \in [Requests -> Phases]
      /\ authRetried \in [Requests -> BOOLEAN]
      /\ attempt \in [Requests -> 0..MaxRetries]
      /\ TypeOK /\ MaxRetries \in Nat
  BY ConstantsAssumption DEF IInv, TypeOK
<1>1. CASE Retry(r)
  <2>1. /\ phase[r] = "backoff" /\ phase'[r] = "sent"
        /\ attempt'[r] = attempt[r] + 1 /\ authRetried'[r] = authRetried[r]
    BY <1>0, <1>1 DEF Retry, Transmit, Goes
  <2>2. Rank(r) = 8 * ((MaxRetries - attempt[r])
                         + (IF authRetried[r] THEN 0 ELSE 1)) + 1
    BY <2>1 DEF Rank, Place
  <2>3. Rank(r)' = 8 * ((MaxRetries - (attempt[r] + 1))
                          + (IF authRetried[r] THEN 0 ELSE 1)) + 7
    BY <2>1 DEF Rank, Place
  <2> QED
    BY <1>0, <2>2, <2>3
<1>2. CASE Resend(r)
  <2>1. /\ phase[r] = "storing" /\ phase'[r] = "resent"
        /\ attempt'[r] = attempt[r]
        /\ ~authRetried[r] /\ authRetried'[r]
    BY <1>0, <1>2 DEF Resend, Transmit, Goes, IInv, SendsCounted, Renewing
  <2>2. Rank(r) = 8 * ((MaxRetries - attempt[r]) + 1) + 2
    BY <2>1 DEF Rank, Place
  <2>3. Rank(r)' = 8 * ((MaxRetries - attempt[r]) + 0) + 7
    BY <2>1 DEF Rank, Place
  <2> QED
    BY <1>0, <2>2, <2>3
<1>3. ASSUME ~Retry(r), ~Resend(r) PROVE Rank(r)' < Rank(r)
  <2>1. attempt'[r] = attempt[r] /\ authRetried'[r] = authRetried[r]
    BY <1>3 DEF RequestStep, Send, Succeed, Fail, Handle, ReadRefreshToken,
                RefreshAnswered, RefreshRejected
  <2>2. Place[phase'[r]] < Place[phase[r]]
    <3>1. CASE Send(r) \/ RefreshAnswered(r)
      BY <1>0, <3>1 DEF Send, RefreshAnswered, Transmit, Goes, Place
    <3>2. CASE \E e \in Errors : Fail(r, e)
      BY <1>0, <3>2 DEF Fail, Goes, Place
    <3>3. PassOn(r) => phase'[r] \in {"backoff", "failed"}
      BY <1>0 DEF PassOn, Leave
    <3>4. CASE Succeed(r)
      BY <1>0, <3>4 DEF Succeed, Goes, Leave, Place
    <3>5. CASE Handle(r) \/ ReadRefreshToken(r) \/ RefreshRejected(r)
      BY <1>0, <3>3, <3>5
         DEF Handle, ReadRefreshToken, RefreshRejected, RefreshFailed, Goes,
             Place
    <3> QED
      BY <1>3, <3>1, <3>2, <3>4, <3>5 DEF RequestStep
  <2> QED
    BY <1>0, <2>1, <2>2, LowerPlace
<1> QED
  BY <1>1, <1>2, <1>3

\* The two interceptors cannot send a request back and forth for ever: a request
\* makes at most as many steps as its first rank, 8 * (maxRetries + 1) + 8.
THEOREM RequestsNearTheirEnd == Spec => StepsLeadToTheEnd
<1> DEFINE Lower == \A r \in Requests :
                      /\ Rank(r)' <= Rank(r)
                      /\ RequestStep(r) => Rank(r)' < Rank(r)
<1>1. IInv /\ IInv' /\ QueueKeepsErrors /\ [Next]_vars => [Lower]_vars
  <2> SUFFICES ASSUME IInv, IInv', QueueKeepsErrors, Next, NEW q \in Requests
               PROVE  /\ Rank(q)' <= Rank(q)
                      /\ RequestStep(q) => Rank(q)' < Rank(q)
    OBVIOUS
  <2>0. /\ TypeOK /\ TypeOK'
        /\ phase \in [Requests -> Phases]
        /\ Rank(q) \in Int /\ Rank(q)' \in Int
    <3>1. TypeOK /\ TypeOK' /\ phase \in [Requests -> Phases]
      BY DEF IInv, TypeOK
    <3>2. Place[phase'[q]] \in Int /\ attempt'[q] \in 0..MaxRetries
      BY <3>1, PlaceTyped DEF TypeOK
    <3> QED
      BY <3>1, <3>2, RankTyped, ConstantsAssumption DEF Rank
  <2>1. RequestStep(q) => Rank(q)' < Rank(q)
    BY <2>0, OwnStepLowers
  <2>2. ASSUME UNCHANGED requestVars PROVE Rank(q)' <= Rank(q)
    BY <2>0, <2>2, LowerPlace DEF requestVars
  <2>3. ASSUME NEW r \in Requests \ {q}, RequestStep(r)
        PROVE  Rank(q)' <= Rank(q)
    <3>1. attempt'[q] = attempt[q] /\ authRetried'[q] = authRetried[q]
      BY <2>0, <2>3 DEF TypeOK, RequestStep, Send, Retry, Succeed, Fail, Handle,
                ReadRefreshToken, RefreshAnswered, RefreshRejected, Resend
    <3>2. CASE \E label : Leave(r, label) /\ UNCHANGED <<authRetried, attempt>>
      BY <2>0, <2>3, <3>2, LeaveLowersOthers
    <3>3. CASE \E label : Goes(r, label)
      BY <2>0, <2>3, <3>1, <3>3, LowerPlace DEF Goes
    <3>4. CASE \E e \in Errors : Fail(r, e)
      BY <3>3, <3>4 DEF Fail
    <3> QED
      BY <2>3, <3>2, <3>3, <3>4, RequestMoves
  <2>4. ASSUME NEW o \in Ops, CubitStep(o) PROVE Rank(q)' <= Rank(q)
    BY <2>2, <2>4, CubitMoves
  <2>5. CASE RequestStep(q)
    BY <2>0, <2>1, <2>5
  <2> QED
    BY <2>1, <2>3, <2>4, <2>5 DEF Next
<1> QED
  BY <1>1, IInvHolds, QueueLosesNothing, PTL DEF Spec, StepsLeadToTheEnd

-----------------------------------------------------------------------------
(* What sign-out leaves behind. *)

\* As long as the calls keep apart, only a shown session has a token or renews
\* it.
ForgetInv ==
    /\ auth # "Authenticated" => ~refresh
    /\ \A r \in Requests :
         phase[r] \in {"refreshing", "storing"} => auth = "Authenticated"
    /\ \A o \in Ops : op[o] \in {"posting", "storing"} => auth = "AuthInProgress"

LEMMA RequestKeepsForget ==
    ASSUME TypeOK, ForgetInv, NEW r \in Requests, RequestStep(r)
    PROVE  ForgetInv'
<1>0. phase \in [Requests -> Phases] /\ UNCHANGED cubitVars
  BY DEF TypeOK, RequestStep, Send, Retry, Succeed, Fail, Handle,
         ReadRefreshToken, RefreshAnswered, RefreshRejected, Resend
<1>1. /\ refresh' = refresh \/ phase[r] = "storing"
      /\ \A q \in Requests :
           phase'[q] \in {"refreshing", "storing"} =>
             \/ phase[q] \in {"refreshing", "storing"}
             \/ refresh
  <2>1. PassOn(r) => \A q \in Requests :
          phase'[q] \in {"refreshing", "storing"} => phase'[q] = phase[q]
    BY DEF PassOn, Leave
  <2>2. CASE Send(r) \/ Retry(r) \/ RefreshAnswered(r) \/ Resend(r)
    BY <1>0, <2>2 DEF Send, Retry, RefreshAnswered, Resend, Transmit, Goes
  <2>3. CASE Succeed(r)
    BY <1>0, <2>3 DEF Succeed, Leave, Goes
  <2>4. CASE \E e \in Errors : Fail(r, e)
    BY <1>0, <2>4 DEF Fail, Goes
  <2>5. CASE Handle(r)
    BY <1>0, <2>1, <2>5 DEF Handle, Goes
  <2>6. CASE ReadRefreshToken(r)
    BY <1>0, <2>1, <2>6 DEF ReadRefreshToken, RefreshFailed, Goes
  <2>7. CASE RefreshRejected(r)
    BY <1>0, <2>1, <2>7 DEF RefreshRejected, RefreshFailed
  <2> QED
    BY <2>2, <2>3, <2>4, <2>5, <2>6, <2>7 DEF RequestStep
<1> QED
  BY <1>0, <1>1 DEF ForgetInv, cubitVars

LEMMA CubitKeepsForget ==
    ASSUME TypeOK, ForgetInv, CallsApart, CallsApart', NEW o \in Ops, CubitStep(o)
    PROVE  ForgetInv'
<1>0. op \in [Ops -> OpSteps] /\ UNCHANGED requestVars
  BY CubitMoves DEF TypeOK
<1>1. \A p \in Ops \ {o} : op'[p] = op[p]
  BY <1>0 DEF CubitStep, OpGoes, StartSignIn, SignInAnswered, SignInRejected,
              FinishSignIn, StartSignOut, SessionExpired, FinishSignOut
<1>2. ASSUME NEW p \in Ops \ {o} PROVE op[p] = "idle"
  <2>1. op[o] # "idle" \/ op'[o] # "idle"
    BY <1>0 DEF CubitStep, OpGoes, StartSignIn, SignInAnswered, SignInRejected,
                FinishSignIn, StartSignOut, SessionExpired, FinishSignOut
  <2> QED
    BY <1>1, <2>1 DEF CallsApart
<1>3. \A r \in Requests : phase[r] \notin {"refreshing", "storing"}
  <2>1. op[o] # "idle" \/ op'[o] # "idle"
    BY <1>0 DEF CubitStep, OpGoes, StartSignIn, SignInAnswered, SignInRejected,
                FinishSignIn, StartSignOut, SessionExpired, FinishSignOut
  <2> QED
    BY <1>0, <2>1 DEF CallsApart, requestVars
<1>4. /\ auth' # "Authenticated" => ~refresh'
      /\ op'[o] \in {"posting", "storing"} => auth' = "AuthInProgress"
  <2>1. CASE StartSignIn(o) \/ SignInAnswered(o) \/ StartSignOut(o)
             \/ SessionExpired(o)
    BY <1>0, <2>1 DEF ForgetInv, OpGoes, StartSignIn, SignInAnswered,
                      StartSignOut, SessionExpired
  <2>2. CASE SignInRejected(o) \/ FinishSignIn(o) \/ FinishSignOut(o)
    BY <1>0, <2>2 DEF ForgetInv, OpGoes, SignInRejected, FinishSignIn,
                      FinishSignOut
  <2> QED
    BY <2>1, <2>2 DEF CubitStep
<1> QED
  BY <1>0, <1>1, <1>2, <1>3, <1>4 DEF ForgetInv, requestVars

\* signOut and handleSessionExpired leave a token behind only when they overlap
\* with each other, with a sign-in or with a refresh, which writes its tokens
\* after they have deleted theirs.
THEOREM SignedOutForgetsWhenApart ==
    Spec /\ []CallsApart => []SignedOutForgets
<1>1. Init => ForgetInv
  BY DEF Init, ForgetInv
<1>2. /\ TypeOK /\ ForgetInv /\ CallsApart /\ CallsApart' /\ [Next]_vars
      => ForgetInv'
  <2>1. UNCHANGED vars /\ ForgetInv => ForgetInv'
    BY DEF vars, cubitVars, requestVars, ForgetInv
  <2> QED
    BY <2>1, RequestKeepsForget, CubitKeepsForget DEF Next
<1>3. ForgetInv => SignedOutForgets
  BY DEF ForgetInv, SignedOutForgets
<1> QED
  BY <1>1, <1>2, <1>3, TypeCorrect, PTL DEF Spec

=============================================================================
