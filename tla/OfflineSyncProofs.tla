-------------------------- MODULE OfflineSyncProofs --------------------------
(***************************************************************************)
(* No row is dropped, retries are bounded, first attempts keep their order *)
(* and the banner hides only new uploads, for any number of uploads, of    *)
(* overlapping drains and of faults, for any batch and retry limit, and    *)
(* for handlers that throw as well as for the one that never does.         *)
(*                                                                         *)
(* The invariants speak about different state and are proved one by one,   *)
(* each on top of the type invariant.                                      *)
(***************************************************************************)
EXTENDS OfflineSync, FiniteSetTheorems, TLAPS

-----------------------------------------------------------------------------
(* Types. *)

LEMMA InitType == Init => TypeOK
  <1> SUFFICES ASSUME Init PROVE TypeOK
    OBVIOUS
  <1>1. /\ 0 \in 0..UploadCount /\ 0 \in 0..0 /\ 0 \in 0..2
        /\ 0 \in 0..FaultBudget
    BY ConstantsAssumption
  <1>2. \A d \in Drains :
          phase[d] \in {"handler", "mark", "count"} <=> batch[d] # {}
    BY DEF Init
  <1> QED BY <1>1, <1>2 DEF Init, TypeOK, Uploads

LEMMA NextType == TypeOK /\ [Next]_vars => TypeOK'
  <1> SUFFICES ASSUME TypeOK, [Next]_vars PROVE TypeOK'
    OBVIOUS
  <1> USE ConstantsAssumption
          DEF Uploads, queueVars, drainVars, cubitVars, historyVars
  <1>1. CASE UNCHANGED vars
    BY <1>1 DEF TypeOK, vars
  <1>2. CASE Enqueue
    <2>1. /\ enqueued' = enqueued + 1 /\ enqueued' \in 0..UploadCount
          /\ 1..enqueued \subseteq 1..enqueued' /\ 0..enqueued \subseteq 0..enqueued'
      BY <1>2 DEF Enqueue, TypeOK
    <2> QED BY <1>2, <2>1 DEF TypeOK, Enqueue
  <1>3. CASE RefreshPending
    BY <1>3 DEF TypeOK, RefreshPending
  <1>4. CASE RefreshThrows
    BY <1>4 DEF TypeOK, RefreshThrows, Fault
  <1>5. ASSUME NEW on \in BOOLEAN, CheckConnectivity(on) PROVE TypeOK'
    BY <1>5 DEF TypeOK, CheckConnectivity, Begin
  <1>6. ASSUME NEW on \in BOOLEAN, Connectivity(on) PROVE TypeOK'
    BY <1>6 DEF TypeOK, Connectivity, Begin
  <1>7. ASSUME NEW d \in Drains, Tap(d) PROVE TypeOK'
    BY <1>7 DEF TypeOK, Tap, Begin
  <1>8. ASSUME NEW d \in Drains, ReadBatch(d) PROVE TypeOK'
    <2>1. /\ Oldest \ Exhausted \in SUBSET (1..enqueued)
          /\ First(Oldest \ Exhausted) \subseteq 1..enqueued
      BY DEF TypeOK, Oldest, First
    <2> QED BY <1>8, <2>1 DEF TypeOK, ReadBatch, GoOn
  <1>9. ASSUME NEW d \in Drains, HandlerReturns(d) PROVE TypeOK'
    <2>1. handled' \in [Uploads -> 0..2]
      BY <1>9 DEF HandlerReturns, TypeOK
    <2> QED BY <1>9, <2>1 DEF TypeOK, HandlerReturns
  <1>10. ASSUME NEW d \in Drains, HandlerThrows(d) \/ MarkThrows(d)
         PROVE  TypeOK'
    <2>1. phase[d] \in {"handler", "mark"} /\ phase' = [phase EXCEPT ![d] = "count"]
      BY <1>10 DEF HandlerThrows, MarkThrows
    <2>2. faults' \in 0..FaultBudget
      BY <1>10 DEF HandlerThrows, MarkThrows, Fault, TypeOK
    <2>3. UNCHANGED <<queueVars, batch, sawExhausted, cubitVars, historyVars>>
      BY <1>10 DEF HandlerThrows, MarkThrows
    <2> QED BY <2>1, <2>2, <2>3 DEF TypeOK
  <1>11. ASSUME NEW d \in Drains, MarkCompleted(d) PROVE TypeOK'
    <2>1. /\ batch[d] \ First(batch[d]) \in SUBSET (1..enqueued)
          /\ First(batch[d] \ First(batch[d])) \subseteq 1..enqueued
      BY DEF TypeOK, First
    <2> QED BY <1>11, <2>1 DEF TypeOK, MarkCompleted, GoOn
  <1>12. ASSUME NEW d \in Drains, IncrementRetry(d) PROVE TypeOK'
    <2>1. retryCount' \in [Uploads -> Nat]
      BY <1>12 DEF TypeOK, IncrementRetry
    <2>2. /\ batch[d] \ First(batch[d]) \in SUBSET (1..enqueued)
          /\ First(batch[d] \ First(batch[d])) \subseteq 1..enqueued
      BY DEF TypeOK, First
    <2> QED BY <1>12, <2>1, <2>2 DEF TypeOK, IncrementRetry, GoOn
  <1>13. ASSUME NEW d \in Drains, Recount(d) PROVE TypeOK'
    BY <1>13 DEF TypeOK, Recount, Return
  <1>14. ASSUME NEW d \in Drains, DrainThrows(d) PROVE TypeOK'
    BY <1>14 DEF TypeOK, DrainThrows, Return, Fault
  <1>15. CASE Restart
    <2>1. faults' \in 0..FaultBudget /\ 0 \in 0..enqueued
      BY <1>15 DEF Restart, Fault, TypeOK
    <2>2. \A d \in Drains : phase'[d] = "idle" /\ batch'[d] = {}
      BY <1>15 DEF Restart
    <2> QED BY <1>15, <2>1, <2>2 DEF TypeOK, Restart
  <1> QED BY <1>1, <1>2, <1>3, <1>4, <1>5, <1>6, <1>7, <1>8, <1>9, <1>10,
             <1>11, <1>12, <1>13, <1>14, <1>15
        DEF Next, StartStep, DrainStep

\* The queue's rows, the drains and the cubit keep their types.
THEOREM OfflineTypeCorrect == Spec => []TypeOK
  BY InitType, NextType, PTL DEF Spec

-----------------------------------------------------------------------------
(* The steps that touch no row and no batch. *)

Quiet ==
    \/ UNCHANGED vars
    \/ RefreshPending \/ RefreshThrows
    \/ \E on \in BOOLEAN : CheckConnectivity(on) \/ Connectivity(on)
    \/ \E d \in Drains :
         Tap(d) \/ HandlerThrows(d) \/ MarkThrows(d) \/ Recount(d)

LEMMA NextSplit ==
  ASSUME [Next]_vars
  PROVE  \/ Quiet \/ Enqueue \/ Restart
         \/ \E d \in Drains :
              \/ ReadBatch(d) \/ HandlerReturns(d) \/ MarkCompleted(d)
              \/ IncrementRetry(d) \/ DrainThrows(d)
  BY DEF Next, StartStep, DrainStep, Quiet

LEMMA QuietStep ==
  ASSUME TypeOK, Quiet
  PROVE  /\ UNCHANGED <<enqueued, queued, retryCount, batch, attempted, handled>>
         /\ \A d \in Drains : phase'[d] = "mark" => phase[d] = "mark"
  <1> DEFINE Kept ==
        /\ UNCHANGED <<enqueued, queued, retryCount, batch, attempted, handled>>
        /\ \A d \in Drains : phase'[d] = "mark" => phase[d] = "mark"
  <1> SUFFICES Kept
    OBVIOUS
  <1> USE DEF queueVars, drainVars, cubitVars, historyVars, TypeOK
  <1>1. CASE UNCHANGED vars \/ RefreshPending \/ RefreshThrows
    BY <1>1 DEF vars, RefreshPending, RefreshThrows
  <1>2. ASSUME NEW on \in BOOLEAN, CheckConnectivity(on) \/ Connectivity(on)
        PROVE  Kept
    BY <1>2 DEF CheckConnectivity, Connectivity, Begin
  <1>3. ASSUME NEW d \in Drains,
               Tap(d) \/ HandlerThrows(d) \/ MarkThrows(d) \/ Recount(d)
        PROVE  Kept
    BY <1>3 DEF Tap, Begin, HandlerThrows, MarkThrows, Recount, Return
  <1> QED BY <1>1, <1>2, <1>3 DEF Quiet

-----------------------------------------------------------------------------
(* Nothing is dropped. *)

LEMMA InitHandled == Init => HandledInv
  BY ConstantsAssumption DEF Init, HandledInv, NothingDropped, Uploads, First

LEMMA NextHandled == TypeOK /\ HandledInv /\ [Next]_vars => HandledInv'
  <1> SUFFICES ASSUME TypeOK, HandledInv, [Next]_vars PROVE HandledInv'
    OBVIOUS
  <1> USE ConstantsAssumption
          DEF Uploads, First, queueVars, drainVars, cubitVars, historyVars
  <1>1. CASE Quiet
    <2>1. UNCHANGED <<enqueued, queued, batch, handled>>
      BY <1>1, QuietStep
    <2>2. \A d \in Drains : phase'[d] = "mark" => phase[d] = "mark"
      BY <1>1, QuietStep
    <2> QED BY <2>1, <2>2 DEF HandledInv, NothingDropped
  <1>2. CASE Enqueue
    BY <1>2 DEF TypeOK, HandledInv, NothingDropped, Enqueue
  <1>3. CASE Restart
    BY <1>3 DEF HandledInv, NothingDropped, Restart
  <1>4. ASSUME NEW d \in Drains, ReadBatch(d) PROVE HandledInv'
    BY <1>4 DEF TypeOK, HandledInv, NothingDropped, ReadBatch, GoOn
  <1>5. ASSUME NEW d \in Drains, HandlerReturns(d) PROVE HandledInv'
    <2>1. /\ UNCHANGED <<enqueued, queued, batch>>
          /\ phase' = [phase EXCEPT ![d] = "mark"]
      BY <1>5 DEF HandlerReturns
    <2>2. \A u \in Uploads :
            handled[u] > 0 \/ u \in First(batch[d]) => handled'[u] > 0
      BY <1>5 DEF HandlerReturns, TypeOK
    <2>3. NothingDropped'
      BY <2>1, <2>2 DEF TypeOK, HandledInv, NothingDropped
    <2>4. ASSUME NEW e \in Drains, NEW u \in First(batch[e]), phase'[e] = "mark"
          PROVE  handled'[u] > 0
      <3>1. u \in Uploads
        BY DEF TypeOK
      <3> QED BY <2>1, <2>2, <2>4, <3>1 DEF TypeOK, HandledInv
    <2> QED BY <2>1, <2>3, <2>4 DEF HandledInv
  <1>6. ASSUME NEW d \in Drains, MarkCompleted(d) PROVE HandledInv'
    <2>1. NothingDropped'
      BY <1>6 DEF TypeOK, HandledInv, NothingDropped, MarkCompleted
    <2>2. /\ UNCHANGED handled
          /\ \A e \in Drains : phase'[e] = "mark" =>
               phase[e] = "mark" /\ batch'[e] = batch[e]
      BY <1>6 DEF TypeOK, MarkCompleted, GoOn
    <2> QED BY <2>1, <2>2 DEF HandledInv
  <1>7. ASSUME NEW d \in Drains, IncrementRetry(d) PROVE HandledInv'
    <2>1. /\ UNCHANGED <<enqueued, queued, handled>>
          /\ \A e \in Drains : phase'[e] = "mark" =>
               phase[e] = "mark" /\ batch'[e] = batch[e]
      BY <1>7 DEF TypeOK, IncrementRetry, GoOn
    <2> QED BY <2>1 DEF HandledInv, NothingDropped
  <1>8. ASSUME NEW d \in Drains, DrainThrows(d) PROVE HandledInv'
    BY <1>8 DEF TypeOK, HandledInv, NothingDropped, DrainThrows, Return
  <1> QED BY <1>1, <1>2, <1>3, <1>4, <1>5, <1>6, <1>7, <1>8, NextSplit

\* A row of pending_uploads is deleted only after a handler call for it has
\* returned, whatever drains overlap and whatever fails.
THEOREM NothingDroppedAlways == Spec => []NothingDropped
  <1>1. HandledInv => NothingDropped
    BY DEF HandledInv
  <1> QED BY <1>1, OfflineTypeCorrect, InitHandled, NextHandled, PTL DEF Spec

-----------------------------------------------------------------------------
(* The order of first attempts. *)

LEMMA InitOrder == Init => OrderInv
  BY ConstantsAssumption DEF Init, OrderInv, FirstAttemptsInOrder, Uploads, First

\* A drain's batch is closed downwards but for the uploads already tried.
LEMMA OldestIsPrefix ==
  ASSUME TypeOK, OrderInv,
         NEW u \in Oldest \ Exhausted, NEW v \in 1..(u - 1)
  PROVE  v \in Oldest \ Exhausted \/ v \in attempted
  <1> USE ConstantsAssumption DEF Uploads
  <1>1. /\ queued \subseteq 1..enqueued /\ enqueued \in Nat
        /\ enqueued <= UploadCount
    BY DEF TypeOK
  <1>2. u \in 1..enqueued /\ v \in 1..enqueued /\ v < u
    BY <1>1 DEF Oldest
  <1>3. CASE v \notin queued
    BY <1>2, <1>3 DEF OrderInv
  <1>4. CASE v \in queued
    <2> DEFINE older(x) == {w \in queued : w <= x}
    <2>1. IsFiniteSet(1..enqueued)
      BY <1>1, FS_Interval
    <2>2. IsFiniteSet(older(u)) /\ older(v) \in SUBSET older(u)
      <3>1. older(u) \in SUBSET (1..enqueued)
        BY <1>1
      <3>2. ASSUME NEW w \in queued, w <= v PROVE w <= u
        <4>1. w \in Nat /\ v \in Nat /\ u \in Nat
          BY <1>1, <1>2
        <4> QED BY <1>2, <3>2, <4>1
      <3> QED BY <2>1, <3>1, <3>2, FS_Subset
    <2>3. /\ Cardinality(older(v)) <= Cardinality(older(u))
          /\ Cardinality(older(v)) \in Nat /\ Cardinality(older(u)) \in Nat
      BY <2>2, FS_Subset, FS_CardinalityType
    <2>4. Cardinality(older(u)) <= BatchLimit
      BY DEF Oldest
    <2>5. v \in Oldest
      BY <1>4, <2>3, <2>4 DEF Oldest
    <2>6. v \in Exhausted => v \in attempted
      BY <1>1, <1>2 DEF Exhausted, OrderInv, TypeOK
    <2> QED BY <2>5, <2>6
  <1> QED BY <1>3, <1>4

\* What a step of the loop asks of the rest of the batch.
Closed(rest) == \A u \in rest : \A v \in 1..(u - 1) : v \in rest \/ v \in attempted

\* Calling the handler of the first row of such a rest keeps the order.
LEMMA GoOnKeepsOrder ==
  ASSUME TypeOK, OrderInv, NEW d \in Drains,
         NEW rest \in SUBSET (1..enqueued), Closed(rest), GoOn(d, rest),
         UNCHANGED enqueued,
         \A u \in 1..enqueued : u \notin queued' => u \in attempted,
         \A u \in Uploads : retryCount'[u] > 0 => u \in attempted
  PROVE  OrderInv'
  <1> USE ConstantsAssumption DEF Uploads
  <1>1. /\ batch' = [batch EXCEPT ![d] = rest]
        /\ attempted' = attempted \cup First(rest)
    BY DEF GoOn
  <1>2. FirstAttemptsInOrder'
    <2> SUFFICES ASSUME NEW v \in First(rest), NEW u \in 1..v
                 PROVE  u \in attempted \/ u \in First(rest)
      BY <1>1 DEF OrderInv, FirstAttemptsInOrder
    <2>1. v \in rest /\ v \in Nat /\ u \in Nat
      BY DEF First, TypeOK
    <2>2. CASE u = v
      BY <2>2
    <2>3. CASE u # v
      <3>1. u \in 1..(v - 1)
        BY <2>1, <2>3
      <3>2. u \notin rest
        BY <2>1, <3>1 DEF First, TypeOK
      <3> QED BY <2>1, <3>1, <3>2 DEF Closed
    <2> QED BY <2>2, <2>3
  <1>3. ASSUME NEW e \in Drains
        PROVE  /\ First(batch'[e]) \subseteq attempted'
               /\ \A u \in batch'[e] : \A v \in 1..(u - 1) :
                    v \in batch'[e] \/ v \in attempted'
    <2>1. CASE e = d
      BY <1>1, <2>1 DEF Closed, TypeOK
    <2>2. CASE e # d
      <3>1. batch'[e] = batch[e]
        BY <1>1, <2>2 DEF TypeOK
      <3> QED BY <1>1, <3>1 DEF OrderInv
    <2> QED BY <2>1, <2>2
  <1>4. (\A e \in Drains : First(batch[e]) \subseteq attempted)'
    BY <1>3 DEF First
  <1> QED BY <1>1, <1>2, <1>3, <1>4 DEF OrderInv

\* The rest of a batch behind its first row.
LEMMA RestIsClosed ==
  ASSUME TypeOK, OrderInv, NEW d \in Drains
  PROVE  /\ batch[d] \ First(batch[d]) \in SUBSET (1..enqueued)
         /\ Closed(batch[d] \ First(batch[d]))
         /\ First(batch[d]) \subseteq attempted
  BY DEF TypeOK, OrderInv, Closed

LEMMA NextOrder == TypeOK /\ OrderInv /\ [Next]_vars => OrderInv'
  <1> SUFFICES ASSUME TypeOK, OrderInv, [Next]_vars PROVE OrderInv'
    OBVIOUS
  <1> USE ConstantsAssumption
          DEF Uploads, queueVars, drainVars, cubitVars, historyVars
  <1>1. CASE Quiet
    <2>1. UNCHANGED <<enqueued, queued, retryCount, batch, attempted>>
      BY <1>1, QuietStep
    <2> QED BY <2>1 DEF OrderInv, FirstAttemptsInOrder, First
  <1>2. CASE Enqueue
    BY <1>2 DEF TypeOK, OrderInv, FirstAttemptsInOrder, First, Enqueue
  <1>3. CASE Restart
    BY <1>3 DEF OrderInv, FirstAttemptsInOrder, First, Restart
  <1>4. ASSUME NEW d \in Drains, ReadBatch(d) PROVE OrderInv'
    <2> DEFINE rest == Oldest \ Exhausted
    <2>1. rest \in SUBSET (1..enqueued) /\ Closed(rest)
      BY OldestIsPrefix DEF Closed, Oldest, TypeOK
    <2>2. GoOn(d, rest) /\ UNCHANGED <<enqueued, queued, retryCount>>
      BY <1>4 DEF ReadBatch
    <2> HIDE DEF rest
    <2> QED BY <2>1, <2>2, GoOnKeepsOrder DEF OrderInv
  <1>5. ASSUME NEW d \in Drains, HandlerReturns(d) PROVE OrderInv'
    BY <1>5 DEF HandlerReturns, OrderInv, FirstAttemptsInOrder, First
  <1>6. ASSUME NEW d \in Drains, MarkCompleted(d) PROVE OrderInv'
    <2>1. /\ GoOn(d, batch[d] \ First(batch[d]))
          /\ queued' = queued \ First(batch[d])
          /\ UNCHANGED <<enqueued, retryCount>>
      BY <1>6 DEF MarkCompleted
    <2>2. \A u \in 1..enqueued : u \notin queued' => u \in attempted
      BY <2>1, RestIsClosed DEF OrderInv
    <2> QED BY <2>1, <2>2, RestIsClosed, GoOnKeepsOrder DEF OrderInv
  <1>7. ASSUME NEW d \in Drains, IncrementRetry(d) PROVE OrderInv'
    <2>1. /\ GoOn(d, batch[d] \ First(batch[d]))
          /\ UNCHANGED <<enqueued, queued>>
      BY <1>7 DEF IncrementRetry
    <2>2. \A u \in Uploads : retryCount'[u] > 0 => u \in attempted
      BY <1>7, RestIsClosed DEF IncrementRetry, OrderInv
    <2> QED BY <2>1, <2>2, RestIsClosed, GoOnKeepsOrder DEF OrderInv
  <1>8. ASSUME NEW d \in Drains, DrainThrows(d) PROVE OrderInv'
    BY <1>8 DEF TypeOK, OrderInv, FirstAttemptsInOrder, First, DrainThrows
  <1> QED BY <1>1, <1>2, <1>3, <1>4, <1>5, <1>6, <1>7, <1>8, NextSplit

\* Overlapping drains, failures and restarts never let an upload be tried
\* before an older one.
THEOREM FirstAttemptsInOrderAlways == Spec => []FirstAttemptsInOrder
  <1>1. OrderInv => FirstAttemptsInOrder
    BY DEF OrderInv
  <1> QED BY <1>1, OfflineTypeCorrect, InitOrder, NextOrder, PTL DEF Spec

-----------------------------------------------------------------------------
(* The number of retries. *)

LEMMA HoldersFinite ==
  ASSUME NEW u
  PROVE  /\ IsFiniteSet(Holders(u)) /\ Cardinality(Holders(u)) \in Nat
         /\ Cardinality(Holders(u)) <= Cardinality(Drains)
         /\ Cardinality(Drains) \in Nat /\ Cardinality(Drains) # 0
  <1>1. Holders(u) \in SUBSET Drains
    BY DEF Holders
  <1> QED BY <1>1, ConstantsAssumption, FS_Subset, FS_CardinalityType,
             FS_EmptySet

LEMMA InitBound == Init => BoundInv
  <1> SUFFICES ASSUME Init, NEW u \in Uploads
               PROVE  retryCount[u] + Cardinality(Holders(u))
                        <= MaxRetries + Cardinality(Drains) - 1
    BY DEF BoundInv
  <1> QED BY HoldersFinite, ConstantsAssumption DEF Init

\* A step after which no more drains hold an upload and whose count is the same
\* keeps the bound.
LEMMA BoundHolds ==
  ASSUME TypeOK, BoundInv, NEW u \in Uploads, retryCount'[u] = retryCount[u],
         \A d \in Drains : u \in batch'[d] => u \in batch[d]
  PROVE  retryCount'[u] + Cardinality(Holders(u)')
           <= MaxRetries + Cardinality(Drains) - 1
  <1>1. Holders(u)' \in SUBSET Holders(u)
    BY DEF Holders
  <1>2. /\ Cardinality(Holders(u)') <= Cardinality(Holders(u))
        /\ Cardinality(Holders(u)') \in Nat /\ Cardinality(Holders(u)) \in Nat
    BY <1>1, HoldersFinite, FS_Subset, FS_CardinalityType
  <1>3. retryCount[u] + Cardinality(Holders(u))
          <= MaxRetries + Cardinality(Drains) - 1
    BY DEF BoundInv
  <1> QED BY <1>2, <1>3, HoldersFinite, ConstantsAssumption DEF TypeOK

LEMMA NextBound == TypeOK /\ BoundInv /\ [Next]_vars => BoundInv'
  <1> SUFFICES ASSUME TypeOK, BoundInv, [Next]_vars, NEW u \in Uploads
               PROVE  retryCount'[u] + Cardinality(Holders(u)')
                        <= MaxRetries + Cardinality(Drains) - 1
    BY DEF BoundInv, Holders, Uploads
  <1> USE DEF queueVars, drainVars, cubitVars, historyVars
  <1>1. CASE UNCHANGED <<retryCount, batch>>
    BY <1>1, BoundHolds
  <1>2. ASSUME NEW d \in Drains, ReadBatch(d)
        PROVE  retryCount'[u] + Cardinality(Holders(u)')
                 <= MaxRetries + Cardinality(Drains) - 1
    <2>1. /\ batch' = [batch EXCEPT ![d] = Oldest \ Exhausted]
          /\ UNCHANGED retryCount
      BY <1>2 DEF ReadBatch, GoOn
    <2>2. CASE u \in Oldest \ Exhausted
      <3>1. retryCount[u] \in Nat /\ retryCount[u] <= MaxRetries - 1
        BY <2>2, ConstantsAssumption DEF Oldest, Exhausted, TypeOK
      <3>2. Holders(u)' \in SUBSET Drains
        BY DEF Holders
      <3>3. /\ Cardinality(Holders(u)') <= Cardinality(Drains)
            /\ Cardinality(Holders(u)') \in Nat /\ Cardinality(Drains) \in Nat
        BY <3>2, ConstantsAssumption, FS_Subset, FS_CardinalityType
      <3> QED BY <2>1, <3>1, <3>3, ConstantsAssumption
    <2>3. CASE u \notin Oldest \ Exhausted
      BY <2>1, <2>3, BoundHolds DEF TypeOK
    <2> QED BY <2>2, <2>3
  <1>3. ASSUME NEW d \in Drains, MarkCompleted(d) \/ DrainThrows(d)
        PROVE  retryCount'[u] + Cardinality(Holders(u)')
                 <= MaxRetries + Cardinality(Drains) - 1
    BY <1>3, BoundHolds DEF TypeOK, MarkCompleted, DrainThrows, GoOn
  <1>4. ASSUME NEW d \in Drains, IncrementRetry(d)
        PROVE  retryCount'[u] + Cardinality(Holders(u)')
                 <= MaxRetries + Cardinality(Drains) - 1
    <2>1. /\ batch' = [batch EXCEPT ![d] = batch[d] \ First(batch[d])]
          /\ retryCount'[u] = IF u \in First(batch[d]) \cap queued
                                THEN retryCount[u] + 1 ELSE retryCount[u]
      BY <1>4 DEF IncrementRetry, GoOn
    <2>2. CASE u \notin First(batch[d]) \cap queued
      BY <2>1, <2>2, BoundHolds DEF TypeOK
    <2>3. CASE u \in First(batch[d]) \cap queued
      <3>1. retryCount'[u] = retryCount[u] + 1
        BY <2>1, <2>3
      <3>2. d \in Holders(u) /\ Holders(u)' = Holders(u) \ {d}
        BY <2>1, <2>3 DEF Holders, First, TypeOK
      <3>3. Cardinality(Holders(u)') = Cardinality(Holders(u)) - 1
        BY <3>2, HoldersFinite, FS_RemoveElement
      <3>4. retryCount[u] + Cardinality(Holders(u))
              <= MaxRetries + Cardinality(Drains) - 1
        BY DEF BoundInv
      <3> QED BY <3>1, <3>3, <3>4, HoldersFinite, ConstantsAssumption DEF TypeOK
    <2> QED BY <2>2, <2>3
  <1>5. CASE Restart
    BY <1>5, BoundHolds DEF Restart
  <1>6. CASE Quiet
    BY <1>1, <1>6, QuietStep
  <1> QED BY <1>1, <1>2, <1>3, <1>4, <1>5, <1>6, NextSplit
        DEF Enqueue, HandlerReturns

\* A row is tried at most MaxRetries times, and once more for each other drain
\* that can overlap.
THEOREM RetriesBoundedAlways == Spec => []RetriesBounded
  <1>1. TypeOK /\ BoundInv => RetriesBounded
    <2> SUFFICES ASSUME TypeOK, BoundInv, NEW u \in Uploads
                 PROVE  retryCount[u] <= MaxRetries + Cardinality(Drains) - 1
      BY DEF RetriesBounded
    <2>1. retryCount[u] + Cardinality(Holders(u))
            <= MaxRetries + Cardinality(Drains) - 1
      BY DEF BoundInv
    <2> QED BY <2>1, HoldersFinite, ConstantsAssumption DEF TypeOK
  <1> QED BY <1>1, OfflineTypeCorrect, InitBound, NextBound, PTL DEF Spec

-----------------------------------------------------------------------------
(* The banner. *)

\* What the count of the rows said is still true of the rows it counted.
CountInv == ~pendingShown => \A u \in queued : u > counted

LEMMA InitCount == Init => CountInv
  BY DEF Init, CountInv

LEMMA NextCount == TypeOK /\ CountInv /\ [Next]_vars => CountInv'
  <1> SUFFICES ASSUME TypeOK, CountInv, [Next]_vars PROVE CountInv'
    OBVIOUS
  <1> USE ConstantsAssumption
          DEF queueVars, drainVars, cubitVars, historyVars, CountInv
  <1>1. CASE UNCHANGED vars
    BY <1>1 DEF vars
  <1>2. CASE Enqueue
    <2>1. counted \in Nat /\ enqueued \in Nat /\ counted <= enqueued
      BY DEF TypeOK
    <2> QED BY <1>2, <2>1 DEF Enqueue
  <1>3. CASE StartStep
    BY <1>3 DEF StartStep, RefreshPending, RefreshThrows, CheckConnectivity
  <1>4. ASSUME NEW on \in BOOLEAN, Connectivity(on) PROVE CountInv'
    BY <1>4 DEF Connectivity
  <1>5. ASSUME NEW d \in Drains, Recount(d) PROVE CountInv'
    BY <1>5 DEF Recount
  <1>6. ASSUME NEW d \in Drains, Tap(d) \/ (DrainStep(d) /\ ~Recount(d))
        PROVE  queued' \subseteq queued /\ UNCHANGED <<pendingShown, counted>>
    BY <1>6 DEF Tap, DrainStep, ReadBatch, HandlerReturns, HandlerThrows,
                MarkCompleted, MarkThrows, IncrementRetry, DrainThrows, GoOn
  <1>7. CASE Restart
    BY <1>7 DEF Restart, TypeOK
  <1> QED BY <1>1, <1>2, <1>3, <1>4, <1>5, <1>6, <1>7 DEF Next

\* A hidden banner never hides an upload that was there when the rows were last
\* counted, with any number of overlapping drains that fail and count.
THEOREM HiddenAreUncountedAlways == Spec => []HiddenAreUncounted
  <1>1. CountInv => HiddenAreUncounted
    BY DEF CountInv, HiddenAreUncounted, BannerShown
  <1> QED BY <1>1, OfflineTypeCorrect, InitCount, NextCount, PTL DEF Spec

-----------------------------------------------------------------------------
(* An upload is handled once when drains keep apart, deletions do not      *)
(* throw and the app is not killed before one.                             *)

LEMMA InitRecorded == Init => OnlyRecorded
  BY DEF Init, OnlyRecorded

LEMMA NextRecorded == TypeOK /\ OnlyRecorded /\ [Next]_vars => OnlyRecorded'
  <1> SUFFICES ASSUME TypeOK, OnlyRecorded, [Next]_vars PROVE OnlyRecorded'
    OBVIOUS
  <1> USE ConstantsAssumption
          DEF Uploads, queueVars, drainVars, cubitVars, historyVars, OnlyRecorded
  <1>1. CASE Quiet
    BY <1>1, QuietStep
  <1>2. CASE Enqueue
    BY <1>2 DEF Enqueue, TypeOK
  <1>3. ASSUME NEW d \in Drains, HandlerReturns(d) PROVE OnlyRecorded'
    <2>1. \A u \in Uploads : handled'[u] = handled[u] \/ u \in batch[d]
      BY <1>3 DEF HandlerReturns, First
    <2>2. enqueued' = enqueued
      BY <1>3 DEF HandlerReturns
    <2> QED BY <2>1, <2>2 DEF TypeOK
  <1> QED BY <1>1, <1>2, <1>3, NextSplit
        DEF Restart, ReadBatch, MarkCompleted, IncrementRetry, DrainThrows

LEMMA NextOnce ==
  ASSUME TypeOK, OnceInv, DrainsApart, [Next]_vars,
         \A d \in Drains : ~MarkThrows(d),
         Restart => \A d \in Drains : phase[d] # "mark",
         OnlyRecorded
  PROVE  OnceInv'
  <1> USE ConstantsAssumption
          DEF Uploads, queueVars, drainVars, cubitVars, historyVars
  <1>1. CASE Quiet
    <2>1. UNCHANGED <<queued, batch, handled>>
      BY <1>1, QuietStep
    <2>2. \A d \in Drains : phase[d] = "mark" => phase'[d] = "mark"
      BY <1>1 DEF Quiet, vars, RefreshPending, RefreshThrows, CheckConnectivity,
                  Connectivity, Begin, Tap, HandlerThrows, Recount, Return,
                  TypeOK
    <2> QED BY <2>1, <2>2 DEF OnceInv, HandledOnce, First
  <1>2. CASE Enqueue
    <2>1. /\ queued' = queued \cup {enqueued + 1}
          /\ UNCHANGED <<batch, phase, handled>>
      BY <1>2 DEF Enqueue
    <2>2. enqueued + 1 \in Uploads => handled[enqueued + 1] = 0
      BY DEF OnlyRecorded, TypeOK
    <2> QED BY <2>1, <2>2 DEF OnceInv, HandledOnce, First
  <1>3. CASE Restart
    <2>1. /\ batch' = [d \in Drains |-> {}] /\ UNCHANGED <<queued, handled>>
          /\ \A d \in Drains : phase[d] # "mark"
      BY <1>3 DEF Restart
    <2> QED BY <2>1 DEF OnceInv, HandledOnce
  <1>4. ASSUME NEW d \in Drains,
               ReadBatch(d) \/ IncrementRetry(d) \/ DrainThrows(d)
        PROVE  OnceInv'
    <2>1. phase[d] # "mark" /\ UNCHANGED <<queued, handled>>
      BY <1>4 DEF ReadBatch, IncrementRetry, DrainThrows
    <2>2. /\ batch'[d] \subseteq queued
          /\ \A e \in Drains \ {d} : batch'[e] = batch[e] /\ phase'[e] = phase[e]
      <3>1. CASE ReadBatch(d)
        BY <3>1 DEF ReadBatch, GoOn, Oldest, TypeOK
      <3>2. CASE IncrementRetry(d)
        BY <3>2 DEF IncrementRetry, GoOn, OnceInv, TypeOK
      <3>3. CASE DrainThrows(d)
        BY <3>3 DEF DrainThrows, Return, TypeOK
      <3> QED BY <1>4, <3>1, <3>2, <3>3
    <2>3. \A e \in Drains : batch'[e] \subseteq queued
      BY <2>2 DEF OnceInv
    <2> QED BY <2>1, <2>2, <2>3 DEF OnceInv, HandledOnce, First
  <1>5. ASSUME NEW d \in Drains, HandlerReturns(d) PROVE OnceInv'
    <2>1. /\ phase[d] = "handler" /\ phase' = [phase EXCEPT ![d] = "mark"]
          /\ UNCHANGED <<queued, batch>>
      BY <1>5 DEF HandlerReturns
    <2>2. ASSUME NEW u \in First(batch[d])
          PROVE  u \in Uploads /\ handled[u] = 0
      <3>1. u \in queued /\ u \in Uploads
        BY DEF OnceInv, First, TypeOK
      <3> SUFFICES ASSUME handled[u] > 0 PROVE FALSE
        BY <3>1 DEF TypeOK
      <3>2. PICK e \in Drains : phase[e] = "mark" /\ u \in First(batch[e])
        BY <3>1 DEF OnceInv
      <3>3. e = d
        BY <3>2 DEF DrainsApart, First
      <3> QED BY <2>1, <3>2, <3>3
    <2>3. \A u \in Uploads :
            handled'[u] = IF u \in First(batch[d]) THEN 1 ELSE handled[u]
      BY <1>5, <2>2 DEF HandlerReturns
    <2>4. ASSUME NEW u \in Uploads, handled'[u] > 0, u \in queued
          PROVE  \E e \in Drains : phase'[e] = "mark" /\ u \in First(batch[e])
      <3>1. CASE u \in First(batch[d])
        BY <2>1, <3>1 DEF TypeOK
      <3>2. CASE u \notin First(batch[d])
        BY <2>1, <2>3, <2>4, <3>2 DEF OnceInv, TypeOK
      <3> QED BY <3>1, <3>2
    <2> QED BY <2>1, <2>3, <2>4 DEF OnceInv, HandledOnce, First
  <1>6. ASSUME NEW d \in Drains, MarkCompleted(d) PROVE OnceInv'
    <2>1. /\ phase[d] = "mark" /\ queued' = queued \ First(batch[d])
          /\ batch' = [batch EXCEPT ![d] = batch[d] \ First(batch[d])]
          /\ \A e \in Drains \ {d} : phase'[e] = phase[e]
          /\ UNCHANGED handled
      BY <1>6 DEF MarkCompleted, GoOn, TypeOK
    <2>2. ASSUME NEW e \in Drains PROVE batch'[e] \subseteq queued'
      <3>1. CASE e = d
        BY <2>1, <3>1 DEF OnceInv, TypeOK
      <3>2. CASE e # d
        <4>1. batch'[e] = batch[e] /\ batch[e] \cap First(batch[d]) = {}
          BY <2>1, <3>2 DEF TypeOK, DrainsApart, First
        <4> QED BY <2>1, <4>1 DEF OnceInv
      <3> QED BY <3>1, <3>2
    <2>3. ASSUME NEW u \in Uploads, handled[u] > 0, u \in queued'
          PROVE  \E e \in Drains : phase'[e] = "mark" /\ u \in First(batch'[e])
      <3>1. PICK e \in Drains : phase[e] = "mark" /\ u \in First(batch[e])
        BY <2>1, <2>3 DEF OnceInv
      <3>2. e # d
        BY <2>1, <2>3, <3>1
      <3>3. phase'[e] = "mark" /\ batch'[e] = batch[e]
        BY <2>1, <3>1, <3>2 DEF TypeOK
      <3> QED BY <3>1, <3>3
    <2> QED BY <2>1, <2>2, <2>3 DEF OnceInv, HandledOnce, First
  <1> QED BY <1>1, <1>2, <1>3, <1>4, <1>5, <1>6, NextSplit

\* A handler returns twice for one upload in three ways and no other: two drains
\* work on its row, its deletion throws, or the app is killed between the return
\* and the deletion.  Only in these does a handler that sends need the
\* idempotency key.
THEOREM HandledOnceWhenApart ==
  Spec /\ []DrainsApart /\ MarksSucceed /\ MarksSurvive => []HandledOnce
  <1>1. Init => OnceInv
    BY DEF Init, OnceInv, HandledOnce
  <1>2. /\ TypeOK /\ OnlyRecorded /\ OnceInv /\ DrainsApart /\ [Next]_vars
        /\ [\A d \in Drains : ~MarkThrows(d)]_vars
        /\ [Restart => \A d \in Drains : phase[d] # "mark"]_vars
        => OnceInv'
    <2>1. ASSUME OnceInv, UNCHANGED vars PROVE OnceInv'
      BY <2>1 DEF OnceInv, HandledOnce, First, vars, queueVars, drainVars,
                  historyVars
    <2> QED BY <2>1, NextOnce
  <1>3. OnceInv => HandledOnce
    BY DEF OnceInv
  <1> QED BY <1>1, <1>2, <1>3, OfflineTypeCorrect, InitRecorded, NextRecorded,
             PTL DEF Spec, MarksSucceed, MarksSurvive

-----------------------------------------------------------------------------
(* Exhausted rows. *)

LEMMA ExhaustedStep ==
  ASSUME TypeOK, [Next]_vars, NEW u \in Uploads,
         u \in Exhausted, Holders(u) = {}
  PROVE  u \in Exhausted' /\ Holders(u)' = {} /\ handled'[u] = handled[u]
  <1> USE ConstantsAssumption
          DEF Uploads, First, queueVars, drainVars, cubitVars, historyVars
  <1>1. /\ u \in queued /\ retryCount[u] >= MaxRetries
        /\ \A d \in Drains : u \notin batch[d]
    BY DEF Exhausted, Holders
  <1> SUFFICES /\ u \in queued' /\ retryCount'[u] = retryCount[u]
               /\ \A d \in Drains : u \notin batch'[d]
               /\ handled'[u] = handled[u]
    BY <1>1 DEF Exhausted, Holders
  <1> DEFINE Kept == /\ u \in queued' /\ retryCount'[u] = retryCount[u]
                     /\ \A d \in Drains : u \notin batch'[d]
                     /\ handled'[u] = handled[u]
  <1>2. CASE Quiet
    BY <1>1, <1>2, QuietStep
  <1>3. CASE Enqueue \/ Restart
    BY <1>1, <1>3 DEF Enqueue, Restart
  <1>4. ASSUME NEW d \in Drains, ReadBatch(d) PROVE Kept
    BY <1>1, <1>4 DEF ReadBatch, GoOn, TypeOK
  <1>5. ASSUME NEW d \in Drains, HandlerReturns(d) PROVE Kept
    BY <1>1, <1>5 DEF HandlerReturns
  <1>6. ASSUME NEW d \in Drains,
               MarkCompleted(d) \/ IncrementRetry(d) \/ DrainThrows(d)
        PROVE  Kept
    <2>1. /\ queued \ First(batch[d]) \subseteq queued'
          /\ u \notin First(batch[d]) => retryCount'[u] = retryCount[u]
          /\ \A e \in Drains : batch'[e] \subseteq batch[e]
          /\ UNCHANGED handled
      <3>1. CASE MarkCompleted(d)
        BY <3>1 DEF MarkCompleted, GoOn, TypeOK
      <3>2. CASE IncrementRetry(d)
        BY <3>2 DEF IncrementRetry, GoOn, TypeOK
      <3>3. CASE DrainThrows(d)
        BY <3>3 DEF DrainThrows, TypeOK
      <3> QED BY <1>6, <3>1, <3>2, <3>3
    <2> QED BY <1>1, <2>1
  <1> QED BY <1>2, <1>3, <1>4, <1>5, <1>6, NextSplit

\* A row that has used its retries is never tried again, for as long as the app
\* is installed: the queue has no way back for it, a tap on the banner is none,
\* and it starves the younger ones when it is one of a whole batch.
THEOREM ExhaustedIsFinalAlways == Spec => ExhaustedIsFinal
  <1>1. TypeOK /\ [Next]_vars =>
          [\A u \in Uploads :
             u \in Exhausted /\ Holders(u) = {} =>
                /\ u \in Exhausted' /\ Holders(u)' = {}
                /\ handled'[u] = handled[u]]_vars
    BY ExhaustedStep
  <1> QED BY <1>1, OfflineTypeCorrect, PTL DEF Spec, ExhaustedIsFinal

=============================================================================
