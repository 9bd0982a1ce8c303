------------------------- MODULE TokenKeysProofs -------------------------
(***************************************************************************)
(* The lock around the key cache is handed on, and keys are fetched once.  *)
(*                                                                         *)
(* A step of TokenKeys is always part of a step of a larger specification, *)
(* so this module proves what the initial states and [KeysNext]_keyVars    *)
(* say; CaptureToDecisionProofs concludes for its specification.           *)
(***************************************************************************)
EXTENDS TokenKeys, TLAPS

\* Who fetches holds the lock and found the cache stale: nobody else can have
\* filled it since, and only a fresh cache expires.
FetchJustified ==
    \A r \in Requests :
        /\ auth[r] \in {"fetch", "backoff"} => fetched <= expired
        /\ auth[r] = "backoff" => attempt < MaxAttempts

KeysInv == KeysType /\ LockIsHandedOn /\ FetchJustified /\ KeysFetchedOnce

USE KeysAssumption

\* No keys and nobody in the lock: KeysInv holds.
LEMMA KeysInitInv == KeysInit => KeysInv
  BY DEF KeysInit, KeysInv, KeysType, LockIsHandedOn, FetchJustified,
         KeysFetchedOnce, InLock

\* Taking the head off the queue keeps the others in it, one place further.
LEMMA TailTyped ==
  ASSUME NEW s \in Seq(Requests), s # <<>>
  PROVE  /\ Tail(s) \in Seq(Requests)
         /\ Len(Tail(s)) = Len(s) - 1
         /\ \A i \in DOMAIN Tail(s) : i + 1 \in DOMAIN s /\ Tail(s)[i] = s[i + 1]
         /\ \A i \in DOMAIN Tail(s) : i \in Nat /\ i # 0
         /\ 1 \in DOMAIN s /\ Head(s) = s[1]
  OBVIOUS

\* The holder leaves: whoever is next in the queue holds the lock, and the one
\* who left is neither in the queue nor in the block.
LEMMA ReleaseHandsOn ==
  ASSUME KeysInv, NEW r \in Requests, NEW to \in {"decode", "failed"},
         Holds(r), Release(r, to)
  PROVE  /\ LockIsHandedOn'
         /\ waiting' \in Seq(Requests)
         /\ attempt' = 0
         /\ \A q \in Requests : auth'[q] \notin {"fetch", "backoff"}
<1> DEFINE w == Tail(waiting)
<1>1. /\ waiting \in Seq(Requests) /\ waiting # <<>>
      /\ auth \in [Requests -> InLock \cup
                     {"new", "decode", "accepted", "handled", "failed"}]
  BY DEF KeysInv, KeysType, Holds
<1>2. /\ waiting' = w /\ attempt' = 0
      /\ auth' = [auth EXCEPT ![r] = to]
  BY DEF Release
<1>3. /\ w \in Seq(Requests)
      /\ \A i \in DOMAIN w : i + 1 \in DOMAIN waiting /\ w[i] = waiting[i + 1]
      /\ \A i \in DOMAIN w : i \in Nat /\ i # 0
      /\ 1 \in DOMAIN waiting /\ waiting[1] = r
  BY <1>1, TailTyped DEF Holds
<1>4. \A i, j \in DOMAIN waiting : waiting[i] = waiting[j] => i = j
  BY DEF KeysInv, LockIsHandedOn
<1>5. \A i \in DOMAIN w : w[i] # r
  <2> SUFFICES ASSUME NEW i \in DOMAIN w, w[i] = r PROVE FALSE
    OBVIOUS
  <2>1. i + 1 \in DOMAIN waiting /\ waiting[i + 1] = waiting[1]
    BY <1>3
  <2>2. i + 1 = 1
    BY <1>3, <1>4, <2>1
  <2> QED BY <1>3, <2>2
<1>6. \A i \in DOMAIN w : auth'[w[i]] \in InLock
  <2> SUFFICES ASSUME NEW i \in DOMAIN w PROVE auth'[w[i]] \in InLock
    OBVIOUS
  <2>1. auth[waiting[i + 1]] \in InLock
    BY <1>3 DEF KeysInv, LockIsHandedOn
  <2>2. w[i] \in Requests /\ w[i] # r
    BY <1>3, <1>5
  <2> QED BY <1>1, <1>2, <1>3, <2>1, <2>2
<1>7. \A i, j \in DOMAIN w : w[i] = w[j] => i = j
  <2> SUFFICES ASSUME NEW i \in DOMAIN w, NEW j \in DOMAIN w, w[i] = w[j]
               PROVE  i = j
    OBVIOUS
  <2>1. i + 1 = j + 1
    BY <1>3, <1>4
  <2> QED BY <1>3, <2>1
<1>8. \A q \in Requests : auth'[q] \notin {"fetch", "backoff"}
  <2> SUFFICES ASSUME NEW q \in Requests, auth'[q] \in {"fetch", "backoff"}
               PROVE  FALSE
    OBVIOUS
  <2>1. CASE q = r
    BY <1>1, <1>2, <2>1
  <2>2. CASE q # r
    <3>1. auth[q] \in {"fetch", "backoff"}
      BY <1>1, <1>2, <2>2
    <3>2. Head(waiting) = q
      BY <3>1 DEF KeysInv, LockIsHandedOn, Holds
    <3> QED BY <2>2, <3>2 DEF Holds
  <2> QED BY <2>1, <2>2
<1> QED BY <1>2, <1>3, <1>6, <1>7, <1>8 DEF LockIsHandedOn

\* No step of a request or of the clock breaks the invariant.
LEMMA KeysStepInv == KeysInv /\ [KeysNext]_keyVars => KeysInv'
<1> SUFFICES ASSUME KeysInv, [KeysNext]_keyVars PROVE KeysInv'
  OBVIOUS
<1> DEFINE Places == InLock \cup
                       {"new", "decode", "accepted", "handled", "failed"}
<1>0. /\ auth \in [Requests -> Places] /\ waiting \in Seq(Requests)
      /\ attempt \in 0..MaxAttempts /\ fetched \in Nat /\ expired \in Nat
  BY DEF KeysInv, KeysType
<1>1. ASSUME NEW r \in Requests, Ask(r) PROVE KeysInv'
  <2>1. /\ auth[r] = "new" /\ auth' = [auth EXCEPT ![r] = "lock"]
        /\ waiting' = Append(waiting, r)
        /\ attempt' = attempt /\ fetched' = fetched /\ expired' = expired
    BY <1>1 DEF Ask
  <2>2. KeysType'
    BY <1>0, <2>1 DEF KeysType, InLock
  <2>3. \A i \in DOMAIN waiting : waiting[i] # r /\ auth[waiting[i]] \in InLock
    BY <2>1 DEF KeysInv, LockIsHandedOn, InLock
  <2>4. \A i \in DOMAIN waiting' :
          \/ i \in DOMAIN waiting /\ waiting'[i] = waiting[i]
          \/ i = Len(waiting) + 1 /\ waiting'[i] = r
    BY <1>0, <2>1
  <2>5. \A i \in DOMAIN waiting' : auth'[waiting'[i]] \in InLock
    BY <1>0, <2>1, <2>3, <2>4 DEF InLock
  <2>6. \A i, j \in DOMAIN waiting' : waiting'[i] = waiting'[j] => i = j
    BY <2>3, <2>4 DEF KeysInv, LockIsHandedOn
  <2>7. \A q \in Requests :
          auth'[q] \in {"fetch", "backoff"} =>
            auth[q] = auth'[q] /\ waiting # <<>> /\ Head(waiting) = q
    BY <1>0, <2>1 DEF KeysInv, LockIsHandedOn, Holds
  <2>8. waiting # <<>> => waiting' # <<>> /\ Head(waiting') = Head(waiting)
    BY <1>0, <2>1
  <2>9. LockIsHandedOn'
    BY <2>5, <2>6, <2>7, <2>8 DEF LockIsHandedOn, Holds
  <2>10. FetchJustified' /\ KeysFetchedOnce'
    BY <2>1, <2>7 DEF KeysInv, FetchJustified, KeysFetchedOnce
  <2> QED BY <2>2, <2>9, <2>10 DEF KeysInv
<1>2. ASSUME NEW r \in Requests, UseCache(r) PROVE KeysInv'
  <2>1. /\ Holds(r) /\ Release(r, "decode")
        /\ fetched' = fetched /\ expired' = expired
    BY <1>2 DEF UseCache
  <2>2. /\ LockIsHandedOn' /\ waiting' \in Seq(Requests) /\ attempt' = 0
        /\ \A q \in Requests : auth'[q] \notin {"fetch", "backoff"}
    BY <2>1, ReleaseHandsOn
  <2>3. auth' \in [Requests -> Places]
    BY <1>0, <2>1 DEF Release
  <2>4. KeysType'
    BY <1>0, <2>1, <2>2, <2>3 DEF KeysType
  <2> QED BY <2>1, <2>2, <2>4 DEF KeysInv, FetchJustified, KeysFetchedOnce
<1>3. ASSUME NEW r \in Requests, StartFetch(r) PROVE KeysInv'
  <2>1. /\ Holds(r) /\ fetched <= expired
        /\ auth' = [auth EXCEPT ![r] = "fetch"] /\ attempt' = 1
        /\ UNCHANGED <<waiting, fetched, expired>>
    BY <1>0, <1>3 DEF StartFetch, Fresh
  <2>2. KeysType'
    BY <1>0, <2>1 DEF KeysType, InLock
  <2>3. \A q \in Requests :
          auth'[q] \in {"fetch", "backoff"} => Holds(q) /\ auth'[q] = "fetch"
    BY <1>0, <2>1 DEF KeysInv, LockIsHandedOn, Holds
  <2>4. \A i \in DOMAIN waiting : auth'[waiting[i]] \in InLock
    BY <1>0, <2>1 DEF KeysInv, LockIsHandedOn, InLock
  <2>5. LockIsHandedOn'
    BY <2>1, <2>3, <2>4 DEF KeysInv, LockIsHandedOn, Holds
  <2>6. FetchJustified' /\ KeysFetchedOnce'
    BY <2>1, <2>3 DEF KeysInv, FetchJustified, KeysFetchedOnce
  <2> QED BY <2>2, <2>5, <2>6 DEF KeysInv
<1>4. ASSUME NEW r \in Requests, FetchSucceeds(r) PROVE KeysInv'
  <2>1. /\ Holds(r) /\ Release(r, "decode") /\ fetched <= expired
        /\ fetched' = fetched + 1 /\ expired' = expired
    BY <1>4 DEF FetchSucceeds, KeysInv, LockIsHandedOn, FetchJustified
  <2>2. /\ LockIsHandedOn' /\ waiting' \in Seq(Requests) /\ attempt' = 0
        /\ \A q \in Requests : auth'[q] \notin {"fetch", "backoff"}
    BY <2>1, ReleaseHandsOn
  <2>3. auth' \in [Requests -> Places]
    BY <1>0, <2>1 DEF Release
  <2>4. KeysType'
    BY <1>0, <2>1, <2>2, <2>3 DEF KeysType
  <2>5. KeysFetchedOnce'
    BY <1>0, <2>1 DEF KeysFetchedOnce
  <2> QED BY <2>2, <2>4, <2>5 DEF KeysInv, FetchJustified
<1>5. ASSUME NEW r \in Requests, FetchFails(r) \/ FetchAgain(r) PROVE KeysInv'
  <2>1. PICK to \in {"fetch", "backoff"} :
          /\ auth[r] \in {"fetch", "backoff"} /\ auth' = [auth EXCEPT ![r] = to]
          /\ UNCHANGED <<waiting, fetched, expired>>
    BY <1>5 DEF FetchFails, FetchAgain
  <2>2. /\ attempt' \in 0..MaxAttempts
        /\ auth'[r] = "backoff" => attempt' < MaxAttempts
    BY <1>0, <1>5 DEF FetchFails, FetchAgain, KeysInv, FetchJustified
  <2>3. KeysType'
    BY <1>0, <2>1, <2>2 DEF KeysType, InLock
  <2>4. Holds(r) /\ fetched <= expired
    BY <2>1 DEF KeysInv, LockIsHandedOn, FetchJustified
  <2>5. \A q \in Requests : auth'[q] \in {"fetch", "backoff"} => q = r
    BY <1>0, <2>1, <2>4 DEF KeysInv, LockIsHandedOn, Holds
  <2>6. \A i \in DOMAIN waiting : auth'[waiting[i]] \in InLock
    BY <1>0, <2>1 DEF KeysInv, LockIsHandedOn, InLock
  <2>7. LockIsHandedOn'
    BY <2>1, <2>4, <2>5, <2>6 DEF KeysInv, LockIsHandedOn, Holds
  <2>8. FetchJustified' /\ KeysFetchedOnce'
    BY <2>1, <2>2, <2>4, <2>5 DEF KeysInv, FetchJustified, KeysFetchedOnce
  <2> QED BY <2>3, <2>7, <2>8 DEF KeysInv
<1>6. ASSUME NEW r \in Requests, GiveUp(r) PROVE KeysInv'
  <2>1. /\ Holds(r) /\ Release(r, "failed")
        /\ fetched' = fetched /\ expired' = expired
    BY <1>6 DEF GiveUp, KeysInv, LockIsHandedOn
  <2>2. /\ LockIsHandedOn' /\ waiting' \in Seq(Requests) /\ attempt' = 0
        /\ \A q \in Requests : auth'[q] \notin {"fetch", "backoff"}
    BY <2>1, ReleaseHandsOn
  <2>3. auth' \in [Requests -> Places]
    BY <1>0, <2>1 DEF Release
  <2>4. KeysType'
    BY <1>0, <2>1, <2>2, <2>3 DEF KeysType
  <2> QED BY <2>1, <2>2, <2>4 DEF KeysInv, FetchJustified, KeysFetchedOnce
<1>7. ASSUME NEW r \in Requests, Decode(r) \/ Handle(r) PROVE KeysInv'
  <2>1. PICK to \in {"accepted", "failed", "handled"} :
          /\ auth[r] \in {"decode", "accepted"}
          /\ auth' = [auth EXCEPT ![r] = to]
          /\ UNCHANGED <<waiting, attempt, fetched, expired>>
    BY <1>7 DEF Decode, Handle
  <2>2. KeysType'
    BY <1>0, <2>1 DEF KeysType, InLock
  <2>3. \A q \in Requests :
          auth'[q] \in {"fetch", "backoff"} => auth'[q] = auth[q]
    BY <1>0, <2>1
  <2>4. \A i \in DOMAIN waiting : auth'[waiting[i]] \in InLock
    BY <1>0, <2>1 DEF KeysInv, LockIsHandedOn, InLock
  <2>5. LockIsHandedOn'
    BY <2>1, <2>3, <2>4 DEF KeysInv, LockIsHandedOn, Holds
  <2>6. FetchJustified' /\ KeysFetchedOnce'
    BY <2>1, <2>3 DEF KeysInv, FetchJustified, KeysFetchedOnce
  <2> QED BY <2>2, <2>5, <2>6 DEF KeysInv
<1>8. CASE Expire
  <2>1. /\ fetched > expired /\ expired' = fetched /\ fetched' = fetched
        /\ auth' = auth /\ waiting' = waiting /\ attempt' = attempt
    BY <1>8 DEF Expire, Fresh
  <2>2. KeysType' /\ KeysFetchedOnce'
    BY <1>0, <2>1 DEF KeysType, KeysFetchedOnce
  <2>3. LockIsHandedOn'
    BY <2>1 DEF KeysInv, LockIsHandedOn, Holds
  <2>4. FetchJustified'
    BY <1>0, <2>1 DEF KeysInv, FetchJustified
  <2> QED BY <2>2, <2>3, <2>4 DEF KeysInv
<1>9. CASE UNCHANGED keyVars
  BY <1>9 DEF keyVars, KeysInv, KeysType, LockIsHandedOn, FetchJustified,
              KeysFetchedOnce, Holds
<1> QED BY <1>1, <1>2, <1>3, <1>4, <1>5, <1>6, <1>7, <1>8, <1>9
        DEF KeysNext, KeysStep, KeysProgress

=============================================================================
