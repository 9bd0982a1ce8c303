----------------------------- MODULE TokenKeys -----------------------------
(***************************************************************************)
(* How a request of the backend gets past the validation of its token.     *)
(*                                                                         *)
(* The keys of Keycloak are cached in the process.  A request takes one    *)
(* asyncio.Lock, looks at the cache and, when the keys are missing or too  *)
(* old, fetches them with the lock held: through every attempt and every   *)
(* pause between two attempts.  The others wait in the order they came.    *)
(***************************************************************************)
EXTENDS Naturals, Sequences

CONSTANTS
    Requests,      \* HTTP requests, each sent once
    MaxAttempts,   \* retries of _fetch_jwks
    MaxExpiries    \* bound: how often the keys get too old

ASSUME KeysAssumption == MaxAttempts \in Nat \ {0} /\ MaxExpiries \in Nat

VARIABLES
    auth,      \* auth[r]: where the request is in get_current_user
    waiting,   \* the lock and its waiters; the head holds the lock
    attempt,   \* number of the holder's attempt, 0 when it makes none
    fetched,   \* how often keys were fetched ...
    expired    \* ... and got too old since

keyVars == <<auth, waiting, attempt, fetched, expired>>

\* The cache holds keys that are younger than _JWKS_TTL_SECONDS.
Fresh == fetched > expired

Holds(r) == waiting # <<>> /\ Head(waiting) = r

-----------------------------------------------------------------------------
KeysInit ==
    /\ auth = [r \in Requests |-> "new"]
    /\ waiting = <<>>
    /\ attempt = 0
    /\ fetched = 0
    /\ expired = 0

Ask(r) ==
    /\ auth[r] = "new"
    /\ auth' = [auth EXCEPT ![r] = "lock"]
    /\ waiting' = Append(waiting, r)
    /\ UNCHANGED <<attempt, fetched, expired>>

\* The request leaves the block that holds the lock.
Release(r, to) ==
    /\ auth' = [auth EXCEPT ![r] = to]
    /\ waiting' = Tail(waiting)
    /\ attempt' = 0

UseCache(r) ==
    /\ auth[r] = "lock" /\ Holds(r) /\ Fresh
    /\ Release(r, "decode")
    /\ UNCHANGED <<fetched, expired>>

\* Mutant of StartFetch: the age of the keys is looked at before the lock is
\* taken, so a request that waited for a fetch makes one of its own.
FetchUnchecked(r) ==
    /\ auth[r] = "lock" /\ Holds(r)
    /\ auth' = [auth EXCEPT ![r] = "fetch"]
    /\ attempt' = 1
    /\ UNCHANGED <<waiting, fetched, expired>>

StartFetch(r) ==
    /\ auth[r] = "lock" /\ Holds(r) /\ ~Fresh
    /\ auth' = [auth EXCEPT ![r] = "fetch"]
    /\ attempt' = 1
    /\ UNCHANGED <<waiting, fetched, expired>>

FetchSucceeds(r) ==
    /\ auth[r] = "fetch"
    /\ Release(r, "decode")
    /\ fetched' = fetched + 1
    /\ UNCHANGED expired

\* Mutant of FetchFails: the number of attempts is compared after the pause.
FetchFailsOnceMore(r) ==
    /\ auth[r] = "fetch" /\ attempt <= MaxAttempts
    /\ auth' = [auth EXCEPT ![r] = "backoff"]
    /\ UNCHANGED <<waiting, attempt, fetched, expired>>

\* Every attempt but the last is followed by a pause.
FetchFails(r) ==
    /\ auth[r] = "fetch" /\ attempt < MaxAttempts
    /\ auth' = [auth EXCEPT ![r] = "backoff"]
    /\ UNCHANGED <<waiting, attempt, fetched, expired>>

\* Mutant of FetchAgain: the attempt is not counted, so the loop never ends.
FetchAgainUncounted(r) ==
    /\ auth[r] = "backoff"
    /\ auth' = [auth EXCEPT ![r] = "fetch"]
    /\ UNCHANGED <<waiting, attempt, fetched, expired>>

FetchAgain(r) ==
    /\ auth[r] = "backoff"
    /\ auth' = [auth EXCEPT ![r] = "fetch"]
    /\ attempt' = attempt + 1
    /\ UNCHANGED <<waiting, fetched, expired>>

\* Mutant of GiveUp: the lock is taken and released by hand, and the release
\* is not reached when the error is raised.
GiveUpHolding(r) ==
    /\ auth[r] = "fetch" /\ attempt = MaxAttempts
    /\ auth' = [auth EXCEPT ![r] = "failed"]
    /\ attempt' = 0
    /\ UNCHANGED <<waiting, fetched, expired>>

\* RuntimeError: not one of the errors that become 401, so the answer is 500.
GiveUp(r) ==
    /\ auth[r] = "fetch" /\ attempt = MaxAttempts
    /\ Release(r, "failed")
    /\ UNCHANGED <<fetched, expired>>

\* jwt.decode and the subject: the token is accepted, or the answer is 401.
Decode(r) ==
    /\ auth[r] = "decode"
    /\ \E to \in {"accepted", "failed"} : auth' = [auth EXCEPT ![r] = to]
    /\ UNCHANGED <<waiting, attempt, fetched, expired>>

\* FastAPI calls the endpoint with the user of the token.
Handle(r) ==
    /\ auth[r] = "accepted"
    /\ auth' = [auth EXCEPT ![r] = "handled"]
    /\ UNCHANGED <<waiting, attempt, fetched, expired>>

\* Five minutes go by.
Expire ==
    /\ Fresh /\ expired < MaxExpiries
    /\ expired' = fetched
    /\ UNCHANGED <<auth, waiting, attempt, fetched>>

\* What the event loop goes on with.
KeysProgress ==
    \E r \in Requests :
        \/ UseCache(r)
        \/ StartFetch(r)
        \/ FetchSucceeds(r)
        \/ FetchFails(r)
        \/ FetchAgain(r)
        \/ GiveUp(r)
        \/ Decode(r)

\* All steps but the call of the endpoint.
KeysStep == KeysProgress \/ Expire \/ \E r \in Requests : Ask(r)

KeysNext == KeysStep \/ \E r \in Requests : Handle(r)

-----------------------------------------------------------------------------
(* Properties. *)

InLock == {"lock", "fetch", "backoff"}

KeysType ==
    /\ auth \in [Requests ->
                   InLock \cup {"new", "decode", "accepted", "handled",
                                "failed"}]
    /\ waiting \in Seq(Requests)
    /\ attempt \in 0..MaxAttempts
    /\ fetched \in Nat
    /\ expired \in Nat

\* Requests that come while keys are being fetched share them: keys are fetched
\* once, and once more for each time they got too old, whatever the number of
\* requests that waited.
KeysFetchedOnce == fetched <= expired + 1

\* The lock is with a request that is in the block, and a request in the block
\* has the lock or a place in the queue for it: nobody leaves with the lock,
\* also when the attempts are used up.
LockIsHandedOn ==
    /\ \A i \in DOMAIN waiting : auth[waiting[i]] \in InLock
    /\ \A i, j \in DOMAIN waiting : waiting[i] = waiting[j] => i = j
    /\ \A r \in Requests : auth[r] \in {"fetch", "backoff"} => Holds(r)

=============================================================================
