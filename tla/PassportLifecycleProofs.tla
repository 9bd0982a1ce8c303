----------------------- MODULE PassportLifecycleProofs -----------------------
(***************************************************************************)
(* The safety properties of PassportLifecycle hold for any number of       *)
(* passports and of concurrent requests.                                   *)
(*                                                                         *)
(* IInv adds to the properties what an open request remembers: the row it  *)
(* read still exists with the same revision number, and the approval and   *)
(* the audit rows its guard relied on are still there.  Each commit turns  *)
(* that memory into the new status.                                        *)
(***************************************************************************)
EXTENDS PassportLifecycle, TLAPS

IInv ==
    /\ TypeOK
    /\ RevisionChain
    /\ ApprovalPrecedesBlast
    /\ AuditTrail
    /\ RequestInv

-----------------------------------------------------------------------------
\* The initial states satisfy the invariant.
LEMMA InitEstablishes == Init => IInv
  <1> SUFFICES ASSUME Init PROVE IInv
    OBVIOUS
  <1>1. TypeOK
    BY DEF Init, TypeOK, SeenType, Closed
  <1>2. RevisionChain /\ ApprovalPrecedesBlast
    BY DEF Init, RevisionChain, ApprovalPrecedesBlast
  <1>3. AuditTrail
    BY DEF Init, AuditTrail, Trail
  <1>4. RequestInv
    BY DEF Init, RequestInv, Closed
  <1> QED BY <1>1, <1>2, <1>3, <1>4 DEF IInv

\* What a request remembers survives every step that takes back no revision
\* number, no successor, no approval and no audit row.
LEMMA MemoryHolds ==
  ASSUME TypeOK, RequestInv,
         \A r \in Requests : seen'[r] = seen[r] \/ seen'[r].op = "none",
         audit \subseteq audit',
         \A p \in Passports : revision[p] # 0 => revision'[p] = revision[p],
         \A p \in Passports : approvedBy[p] => approvedBy'[p],
         \A p \in Passports : supersededBy[p] # None => supersededBy'[p] # None
  PROVE  RequestInv'
  <1> SUFFICES ASSUME NEW r \in Requests, seen'[r].op # "none"
               PROVE  LET p == seen'[r].passport
                      IN  /\ revision'[p] # 0
                          /\ revision'[p] = seen'[r].revision
                          /\ seen'[r].status \in Allowed(seen'[r].op)
                          /\ seen'[r].status \in
                               {"approved", "active", "completed"} =>
                                 approvedBy'[p]
                          /\ seen'[r].status = "superseded" =>
                               supersededBy'[p] # None
                          /\ Trail(p, seen'[r].status) \subseteq audit'
    BY Zenon DEF RequestInv
  <1>1. seen'[r] = seen[r] /\ seen[r].op # "none"
    OBVIOUS
  <1>2. seen[r].passport \in Passports
    BY <1>1 DEF TypeOK
  <1>3. LET p == seen[r].passport
        IN  /\ revision[p] # 0
            /\ revision[p] = seen[r].revision
            /\ seen[r].status \in Allowed(seen[r].op)
            /\ seen[r].status \in {"approved", "active", "completed"} =>
                 approvedBy[p]
            /\ seen[r].status = "superseded" => supersededBy[p] # None
            /\ Trail(p, seen[r].status) \subseteq audit
    BY <1>1 DEF RequestInv
  <1> QED BY <1>1, <1>2, <1>3

\* Closing a request leaves the others as they are.
LEMMA CloseEffect ==
  ASSUME TypeOK, NEW r \in Requests, Close(r)
  PROVE  /\ \A x \in Requests : seen'[x] = seen[x] \/ seen'[x].op = "none"
         /\ seen' \in [Requests -> SeenType]
         /\ \A x \in Requests :
              seen'[x].op # "none" => seen'[x].passport \in Passports
  <1>1. Closed \in SeenType /\ Closed.op = "none"
    BY DEF Closed, SeenType
  <1> QED BY <1>1 DEF TypeOK, Close

\* A step that takes no audit row back explains the status, the approval and
\* the superseding of every passport, if it explains those it gives.
LEMMA AuditHolds ==
  ASSUME AuditTrail, audit \subseteq audit',
         \A x \in Passports : Trail(x, status'[x]) \subseteq audit',
         \A x \in Passports :
            approvedBy'[x] => \/ approvedBy[x]
                              \/ x \in Seeded
                              \/ Trail(x, "approved") \subseteq audit',
         \A x \in Passports :
            supersededBy'[x] # None =>
              \/ supersededBy[x] # None
              \/ \E old \in Statuses : AuditRow(x, old, "superseded") \in audit'
  PROVE  AuditTrail'
  <1> SUFFICES ASSUME NEW x \in Passports
               PROVE  /\ Trail(x, status'[x]) \subseteq audit'
                      /\ approvedBy'[x] /\ x \notin Seeded =>
                           Trail(x, "approved") \subseteq audit'
                      /\ supersededBy'[x] # None =>
                           \E old \in Statuses :
                              AuditRow(x, old, "superseded") \in audit'
    BY DEF AuditTrail, Trail, AuditRow
  <1>1. approvedBy[x] /\ x \notin Seeded => Trail(x, "approved") \subseteq audit
    BY DEF AuditTrail
  <1>2. supersededBy[x] # None =>
          \E old \in Statuses : AuditRow(x, old, "superseded") \in audit
    BY DEF AuditTrail
  <1> QED BY <1>1, <1>2

-----------------------------------------------------------------------------
(* One lemma per action. *)

LEMMA CreateStep ==
  ASSUME IInv, NEW p \in Originals, NEW d \in Designs, CreatePassport(p, d)
  PROVE  IInv'
  <1> USE ConstantsAssumption
  <1>1. TypeOK'
    BY DEF IInv, TypeOK, CreatePassport, Statuses
  <1>2. p \in Passports /\ revision[p] = 0 /\ supersededBy[p] = None
    BY DEF IInv, TypeOK, RevisionChain, CreatePassport
  <1>3. RevisionChain'
    <2>1. \A x \in Passports : revision[x] # 0 => x # p
      BY <1>2
    <2>2. \A x \in Passports : supersededBy[x] # None =>
             /\ x # p /\ supersededBy[x] # p /\ supersededBy[x] \in Passports
             /\ revision[x] \in Nat /\ revision[supersededBy[x]] \in Nat
      BY <1>2 DEF IInv, TypeOK, RevisionChain
    <2>3. \A x \in Passports : x # p =>
             revision'[x] = revision[x] /\ status'[x] = status[x]
      BY DEF IInv, TypeOK, CreatePassport
    <2>4. revision'[p] = 1 /\ status'[p] = "draft"
      BY <1>2 DEF IInv, TypeOK, CreatePassport
    <2>5. UNCHANGED supersededBy
      BY DEF CreatePassport
    <2>6. ASSUME NEW x \in Passports, supersededBy[x] # None
          PROVE  /\ status'[x] # "absent"
                 /\ revision'[supersededBy[x]] = revision'[x] + 1
      BY <2>2, <2>3, <2>6 DEF IInv, RevisionChain
    <2>7. ASSUME NEW x \in Passports, status'[x] = "superseded"
          PROVE  supersededBy[x] # None
      BY <2>3, <2>4, <2>7 DEF IInv, RevisionChain
    <2>8. ASSUME NEW x \in Passports, revision'[x] > 1
          PROVE  \E o \in Passports :
                    /\ revision'[x] = revision'[o] + 1
                    /\ supersededBy[o] # None
      <3>1. x # p /\ revision[x] > 1
        BY <2>3, <2>4, <2>8
      <3>2. PICK o \in Passports :
                    /\ revision[x] = revision[o] + 1
                    /\ supersededBy[o] # None
        BY <3>1 DEF IInv, RevisionChain
      <3> QED BY <2>2, <2>3, <3>1, <3>2
    <2> QED BY <2>5, <2>6, <2>7, <2>8 DEF RevisionChain, AuditRow
  <1>4. ApprovalPrecedesBlast'
    BY <1>2 DEF IInv, TypeOK, ApprovalPrecedesBlast, CreatePassport
  <1>5. AuditTrail'
    BY <1>2 DEF IInv, TypeOK, AuditTrail, Trail, AuditRow, CreatePassport
  <1>6. RequestInv'
    BY <1>2, MemoryHolds DEF IInv, TypeOK, CreatePassport
  <1> QED BY <1>1, <1>3, <1>4, <1>5, <1>6 DEF IInv

LEMMA SeedStep ==
  ASSUME IInv, NEW p \in Seeded, NEW d \in Designs, SeedPassport(p, d)
  PROVE  IInv'
  <1> USE ConstantsAssumption
  <1>1. TypeOK'
    BY DEF IInv, TypeOK, SeedPassport, Statuses
  <1>2. p \in Passports /\ revision[p] = 0 /\ supersededBy[p] = None
    BY DEF IInv, TypeOK, RevisionChain, SeedPassport
  <1>3. /\ status'[p] = "active" /\ revision'[p] = 1 /\ approvedBy'[p]
        /\ UNCHANGED <<supersededBy, audit, seen>>
        /\ \A x \in Passports \ {p} :
             /\ status'[x] = status[x] /\ revision'[x] = revision[x]
             /\ approvedBy'[x] = approvedBy[x] /\ blastEvent'[x] = blastEvent[x]
    BY <1>2 DEF IInv, TypeOK, SeedPassport
  <1>4. RevisionChain'
    <2>1. ASSUME NEW x \in Passports, supersededBy[x] # None
          PROVE  /\ status'[x] # "absent"
                 /\ revision'[supersededBy[x]] = revision'[x] + 1
      <3>1. /\ x # p /\ supersededBy[x] \in Passports
            /\ status[x] # "absent"
            /\ revision[supersededBy[x]] = revision[x] + 1
            /\ revision[x] \in Nat
        BY <1>2, <2>1 DEF IInv, TypeOK, RevisionChain
      <3>2. supersededBy[x] # p
        BY <1>2, <3>1
      <3> QED BY <1>3, <3>1, <3>2
    <2>2. ASSUME NEW x \in Passports, status'[x] = "superseded"
          PROVE  supersededBy[x] # None
      BY <1>3, <2>2 DEF IInv, RevisionChain
    <2>3. ASSUME NEW x \in Passports, revision'[x] > 1
          PROVE  \E o \in Passports :
                    /\ revision'[x] = revision'[o] + 1
                    /\ supersededBy[o] # None
      <3>1. x # p /\ revision[x] > 1
        BY <1>3, <2>3
      <3>2. PICK o \in Passports :
                    revision[x] = revision[o] + 1 /\ supersededBy[o] # None
        BY <3>1 DEF IInv, RevisionChain
      <3> QED BY <1>2, <1>3, <3>1, <3>2
    <2> QED BY <1>3, <2>1, <2>2, <2>3 DEF RevisionChain
  <1>5. ApprovalPrecedesBlast'
    BY <1>3 DEF IInv, ApprovalPrecedesBlast
  <1>6. AuditTrail'
    <2>1. ASSUME NEW x \in Passports
          PROVE  Trail(x, status'[x]) \subseteq audit'
      <3>1. CASE x = p
        BY <1>3, <3>1 DEF Trail
      <3>2. CASE x # p
        BY <1>3, <3>2 DEF IInv, AuditTrail
      <3> QED BY <3>1, <3>2
    <2> QED BY <1>3, <2>1, AuditHolds DEF IInv
  <1>7. RequestInv'
    BY <1>2, <1>3, MemoryHolds DEF IInv
  <1> QED BY <1>1, <1>4, <1>5, <1>6, <1>7 DEF IInv

LEMMA LoadStep ==
  ASSUME IInv, NEW r \in Requests, NEW op \in Operations,
         NEW p \in Passports, Load(r, op, p)
  PROVE  IInv'
  <1>1. status[p] \in Statuses /\ revision[p] # 0
    BY DEF IInv, TypeOK, Load, Allowed, Operations, Statuses
  <1>2. UNCHANGED <<rowVars, blastEvent, audit>>
    BY DEF Load
  <1>3. TypeOK'
    BY <1>1, <1>2 DEF IInv, TypeOK, SeenType, Load, rowVars
  <1>4. RevisionChain' /\ ApprovalPrecedesBlast'
    BY <1>2 DEF IInv, RevisionChain, ApprovalPrecedesBlast, rowVars, AuditRow
  <1>5. AuditTrail'
    BY <1>2 DEF IInv, AuditTrail, Trail, AuditRow, rowVars
  <1>6. RequestInv'
    <2> SUFFICES ASSUME NEW x \in Requests, seen'[x].op # "none"
                 PROVE  LET q == seen'[x].passport
                        IN  /\ revision[q] # 0
                            /\ revision[q] = seen'[x].revision
                            /\ seen'[x].status \in Allowed(seen'[x].op)
                            /\ seen'[x].status \in
                                 {"approved", "active", "completed"} =>
                                   approvedBy[q]
                            /\ seen'[x].status = "superseded" =>
                                 supersededBy[q] # None
                            /\ Trail(q, seen'[x].status) \subseteq audit
      BY <1>2 DEF RequestInv, rowVars, Trail, AuditRow
    <2>1. CASE x # r
      <3>1. seen'[x] = seen[x]
        BY <2>1 DEF IInv, TypeOK, Load
      <3> QED BY <3>1 DEF IInv, RequestInv
    <2>2. CASE x = r
      <3>1. seen'[x] = [op |-> op, passport |-> p, status |-> status[p],
                        design |-> design[p], revision |-> revision[p]]
        BY <2>2 DEF IInv, TypeOK, Load
      <3>2. seen'[x].op = op /\ seen'[x].passport = p
            /\ seen'[x].status = status[p] /\ seen'[x].revision = revision[p]
        BY <3>1
      <3>3. status[p] \in Allowed(op)
        BY DEF Load
      <3>4. /\ status[p] \in {"approved", "active", "completed"} =>
                 approvedBy[p]
            /\ status[p] = "superseded" => supersededBy[p] # None
            /\ Trail(p, status[p]) \subseteq audit
        BY DEF IInv, ApprovalPrecedesBlast, RevisionChain, AuditTrail
      <3> QED BY <1>1, <3>2, <3>3, <3>4
    <2> QED BY <2>1, <2>2
  <1> QED BY <1>3, <1>4, <1>5, <1>6 DEF IInv

\* A commit that leaves the revisions alone and gives no passport the status
\* "superseded" keeps the chain.
LEMMA ChainHolds ==
  ASSUME TypeOK, RevisionChain, UNCHANGED <<revision, supersededBy>>,
         audit \subseteq audit',
         \A p \in Passports :
            /\ status'[p] = "superseded" => status[p] = "superseded"
            /\ status[p] # "absent" => status'[p] # "absent"
  PROVE  RevisionChain'
  BY DEF TypeOK, RevisionChain, AuditRow

LEMMA QuietCommit ==
  ASSUME IInv, NEW r \in Requests, Close(r), design' \in [Passports -> Designs],
         UNCHANGED <<status, revision, supersededBy, approvedBy, blastEvent,
                     audit>>
  PROVE  IInv'
  <1>1. TypeOK'
    BY CloseEffect DEF IInv, TypeOK
  <1>2. RevisionChain' /\ ApprovalPrecedesBlast'
    BY ChainHolds DEF IInv, ApprovalPrecedesBlast
  <1>3. AuditTrail'
    BY DEF IInv, AuditTrail, Trail, AuditRow
  <1>4. RequestInv'
    BY CloseEffect, MemoryHolds DEF IInv
  <1> QED BY <1>1, <1>2, <1>3, <1>4 DEF IInv

LEMMA RollbackStep ==
  ASSUME IInv, NEW r \in Requests, Rollback(r)
  PROVE  IInv'
  BY QuietCommit DEF Rollback, rowVars, IInv, TypeOK

LEMMA UpdateStep ==
  ASSUME IInv, NEW r \in Requests, NEW d \in Designs, CommitUpdate(r, d)
  PROVE  IInv'
  <1>1. design' \in [Passports -> Designs]
    BY DEF IInv, TypeOK, CommitUpdate
  <1> QED BY <1>1, QuietCommit DEF CommitUpdate

\* A move of a passport whose approval, if the new status needs one, and whose
\* trail are there.
LEMMA MoveStep ==
  ASSUME IInv, NEW r \in Requests, NEW op \in Operations,
         NEW old \in Statuses, NEW new \in Statuses, Move(r, op, old, new),
         new # "superseded",
         UNCHANGED <<design, revision, supersededBy, blastEvent>>,
         approvedBy' \in [Passports -> BOOLEAN],
         \A p \in Passports : approvedBy[p] => approvedBy'[p],
         new \in {"approved", "active", "completed"} =>
            approvedBy'[seen[r].passport],
         Trail(seen[r].passport, new) \subseteq audit',
         \A p \in Passports :
            approvedBy'[p] =>
              \/ approvedBy[p]
              \/ /\ p = seen[r].passport
                 /\ Trail(p, "approved") \subseteq audit'
  PROVE  IInv'
  <1> DEFINE p == seen[r].passport
  <1>1. op # "none" /\ seen[r].op = op
    BY DEF Operations, Move
  <1>2. p \in Passports
    BY <1>1 DEF IInv, TypeOK
  <1>3. status[p] # "absent"
    BY <1>1, <1>2 DEF IInv, RequestInv, TypeOK
  <1>4. status' = [status EXCEPT ![p] = new] /\ Close(r)
        /\ audit' = audit \cup {AuditRow(p, old, new)}
    BY DEF Move
  <1>5. TypeOK'
    <2>1. /\ status' \in [Passports -> Statuses \cup {"absent"}]
          /\ \A x \in Passports : status'[x] = "absent" <=> status[x] = "absent"
      BY <1>2, <1>3, <1>4 DEF IInv, TypeOK, Statuses
    <2>2. audit' \subseteq [passport : Passports, old : Statuses, new : Statuses]
      BY <1>2, <1>4 DEF IInv, TypeOK, AuditRow
    <2>3. /\ seen' \in [Requests -> SeenType]
          /\ \A x \in Requests :
               seen'[x].op # "none" => seen'[x].passport \in Passports
      BY <1>4, CloseEffect DEF IInv
    <2> QED BY <2>1, <2>2, <2>3 DEF IInv, TypeOK
  <1>6. RevisionChain'
    <2>1. \A x \in Passports :
            /\ status'[x] = "superseded" => status[x] = "superseded"
            /\ status[x] # "absent" => status'[x] # "absent"
      BY <1>2, <1>4 DEF IInv, TypeOK, Statuses
    <2> QED BY <1>4, <2>1, ChainHolds DEF IInv
  <1>7. ApprovalPrecedesBlast'
    BY <1>2, <1>4 DEF IInv, TypeOK, ApprovalPrecedesBlast
  <1>8. AuditTrail'
    <2>1. ASSUME NEW x \in Passports
          PROVE  Trail(x, status'[x]) \subseteq audit'
      <3>1. CASE x = p
        BY <1>2, <1>4, <3>1 DEF IInv, TypeOK
      <3>2. CASE x # p
        <4>1. status'[x] = status[x]
          BY <1>4, <3>2 DEF IInv, TypeOK
        <4>2. Trail(x, status[x]) \subseteq audit
          BY DEF IInv, AuditTrail
        <4> QED BY <1>4, <4>1, <4>2
      <3> QED BY <3>1, <3>2
    <2>2. audit \subseteq audit' /\ supersededBy' = supersededBy
      BY <1>4
    <2> QED BY <2>1, <2>2, AuditHolds DEF IInv
  <1>9. RequestInv'
    BY <1>4, CloseEffect, MemoryHolds DEF IInv
  <1> QED BY <1>5, <1>6, <1>7, <1>8, <1>9 DEF IInv

LEMMA MovesPreserve ==
  ASSUME IInv, NEW r \in Requests,
         \/ CommitSubmit(r)
         \/ CommitApprove(r)
         \/ CommitActivate(r)
         \/ CommitComplete(r)
  PROVE  IInv'
  <1> DEFINE p == seen[r].passport
  <1>1. p \in Passports /\ approvedBy \in [Passports -> BOOLEAN]
    BY DEF IInv, TypeOK, CommitSubmit, CommitApprove, CommitActivate,
           CommitComplete, Move
  <1>2. seen[r].op # "none" => /\ seen[r].status \in Allowed(seen[r].op)
                               /\ Trail(p, seen[r].status) \subseteq audit
                               /\ seen[r].status \in
                                    {"approved", "active", "completed"} =>
                                      approvedBy[p]
    BY DEF IInv, RequestInv
  <1>3. CASE CommitSubmit(r)
    <2>1. Move(r, "submit", "draft", "submitted")
      BY <1>3 DEF CommitSubmit
    <2>2. Trail(p, "submitted") \subseteq audit'
      BY <2>1 DEF Move, Trail
    <2> QED BY <1>1, <1>3, <2>1, <2>2, MoveStep
          DEF CommitSubmit, Operations, Statuses
  <1>4. CASE CommitApprove(r)
    <2>1. Move(r, "approve", "submitted", "approved")
      BY <1>4 DEF CommitApprove
    <2>2. seen[r].status = "submitted"
      BY <1>2, <2>1 DEF Move, Allowed
    <2>3. Trail(p, "approved") \subseteq audit'
      BY <1>2, <2>1, <2>2 DEF Move, Trail
    <2>4. /\ approvedBy' \in [Passports -> BOOLEAN]
          /\ \A x \in Passports : approvedBy[x] => approvedBy'[x]
          /\ approvedBy'[p]
          /\ \A x \in Passports : approvedBy'[x] => approvedBy[x] \/ x = p
      BY <1>1, <1>4 DEF CommitApprove
    <2> QED BY <1>4, <2>1, <2>3, <2>4, MoveStep
          DEF CommitApprove, Operations, Statuses
  <1>5. CASE CommitActivate(r)
    <2>1. Move(r, "activate", "approved", "active")
      BY <1>5 DEF CommitActivate
    <2>2. seen[r].status = "approved" /\ approvedBy[p]
      BY <1>2, <2>1 DEF Move, Allowed
    <2>3. Trail(p, "active") \subseteq audit'
      BY <1>2, <2>1, <2>2 DEF Move, Trail
    <2> QED BY <1>1, <1>5, <2>1, <2>2, <2>3, MoveStep
          DEF CommitActivate, Operations, Statuses
  <1>6. CASE CommitComplete(r)
    <2>1. Move(r, "complete", "active", "completed")
      BY <1>6 DEF CommitComplete
    <2>2. seen[r].status = "active" /\ approvedBy[p]
      BY <1>2, <2>1 DEF Move, Allowed
    <2>3. Trail(p, "completed") \subseteq audit'
      BY <1>2, <2>1, <2>2 DEF Move, Trail
    <2> QED BY <1>1, <1>6, <2>1, <2>2, <2>3, MoveStep
          DEF CommitComplete, Operations, Statuses
  <1> QED BY <1>3, <1>4, <1>5, <1>6

LEMMA ReviseStep ==
  ASSUME IInv, NEW r \in Requests, NEW q \in Revisions,
         NEW d \in Designs, CommitRevise(r, q, d)
  PROVE  IInv'
  <1> DEFINE p == seen[r].passport
             row == AuditRow(p, "active", "superseded")
  <1> USE ConstantsAssumption DEF Revisions
  <1>1. /\ p \in Passports /\ revision[p] # 0 /\ revision[p] = seen[r].revision
        /\ seen[r].status = "superseded" => supersededBy[p] # None
    BY DEF IInv, TypeOK, RequestInv, CommitRevise
  <1>2. q \in Passports /\ revision[q] = 0 /\ supersededBy[q] = None /\ p # q
    BY <1>1 DEF IInv, TypeOK, RevisionChain, CommitRevise
  <1>3. /\ status' = [status EXCEPT
             ![q] = "draft",
             ![p] = IF seen[r].status # "superseded" THEN "superseded" ELSE @]
        /\ supersededBy' = [supersededBy EXCEPT ![p] = q]
        /\ audit' = audit \cup {row}
        /\ design' = [design EXCEPT ![q] = d]
        /\ revision' = [revision EXCEPT ![q] = seen[r].revision + 1]
        /\ Close(r)
        /\ UNCHANGED <<approvedBy, blastEvent>>
    BY DEF CommitRevise
  <1>4. /\ status'[q] = "draft" /\ status'[p] \in {status[p], "superseded"}
        /\ \A x \in Passports \ {p, q} : status'[x] = status[x]
    BY <1>1, <1>2, <1>3 DEF IInv, TypeOK
  <1>5. /\ revision'[q] = revision[p] + 1
        /\ \A x \in Passports \ {q} : revision'[x] = revision[x]
    BY <1>1, <1>2, <1>3 DEF IInv, TypeOK
  <1>6. /\ supersededBy'[p] = q
        /\ \A x \in Passports \ {p} : supersededBy'[x] = supersededBy[x]
    BY <1>1, <1>3 DEF IInv, TypeOK
  <1>7. revision \in [Passports -> Nat]
    BY DEF IInv, TypeOK
  <1>8. TypeOK'
    <2>1. status' \in [Passports -> Statuses \cup {"absent"}]
      BY <1>1, <1>3 DEF IInv, TypeOK, Statuses
    <2>2. design' \in [Passports -> Designs] /\ revision' \in [Passports -> Nat]
      BY <1>1, <1>3, <1>7 DEF IInv, TypeOK
    <2>3. \A x \in Passports : status'[x] = "absent" <=> revision'[x] = 0
      <3>1. status[p] # "absent"
        BY <1>1 DEF IInv, TypeOK
      <3> QED BY <1>1, <1>2, <1>4, <1>5, <1>7, <3>1 DEF IInv, TypeOK
    <2>4. supersededBy' \in [Passports -> Passports \cup {None}]
      BY <1>2, <1>3 DEF IInv, TypeOK
    <2>5. audit' \subseteq [passport : Passports, old : Statuses, new : Statuses]
      BY <1>1, <1>3 DEF IInv, TypeOK, AuditRow, Statuses
    <2>6. /\ seen' \in [Requests -> SeenType]
          /\ \A x \in Requests :
               seen'[x].op # "none" => seen'[x].passport \in Passports
      BY <1>3, CloseEffect DEF IInv
    <2> QED BY <1>3, <2>1, <2>2, <2>3, <2>4, <2>5, <2>6 DEF IInv, TypeOK
  <1>9. RevisionChain'
    <2>1. ASSUME NEW x \in Passports, supersededBy'[x] # None
          PROVE  /\ status'[x] # "absent"
                 /\ revision'[supersededBy'[x]] = revision'[x] + 1
      <3>1. CASE x = p
        BY <1>1, <1>2, <1>4, <1>5, <1>6, <1>7, <3>1 DEF IInv, TypeOK
      <3>2. CASE x # p
        <4>1. /\ supersededBy'[x] = supersededBy[x] /\ supersededBy[x] # None
              /\ x # q
          BY <1>2, <1>6, <2>1, <3>2
        <4>2. /\ status[x] # "absent" /\ supersededBy[x] \in Passports
              /\ revision[supersededBy[x]] = revision[x] + 1
          BY <4>1 DEF IInv, RevisionChain, TypeOK
        <4>3. supersededBy[x] # q
          BY <1>2, <1>7, <4>2
        <4> QED BY <1>4, <1>5, <3>2, <4>1, <4>2, <4>3
      <3> QED BY <3>1, <3>2
    <2>2. ASSUME NEW x \in Passports, status'[x] = "superseded"
          PROVE  supersededBy'[x] # None
      BY <1>2, <1>4, <1>6, <2>2 DEF IInv, RevisionChain
    <2>3. ASSUME NEW x \in Passports, revision'[x] > 1
          PROVE  \E o \in Passports :
                    /\ revision'[x] = revision'[o] + 1
                    /\ supersededBy'[o] # None
      <3>1. CASE x = q
        <4>1. revision'[x] = revision'[p] + 1
          BY <1>1, <1>2, <1>5, <3>1
        <4>2. supersededBy'[p] # None
          BY <1>2, <1>6
        <4> QED BY <1>1, <4>1, <4>2
      <3>2. CASE x # q
        <4>1. revision'[x] = revision[x] /\ revision[x] > 1
          BY <1>5, <2>3, <3>2
        <4>2. PICK o \in Passports :
                    /\ revision[x] = revision[o] + 1
                    /\ supersededBy[o] # None
          BY <4>1 DEF IInv, RevisionChain
        <4>3. revision'[o] = revision[o]
          BY <1>2, <1>5, <4>2
        <4>4. supersededBy'[o] # None
          BY <1>2, <1>6, <4>2
        <4> QED BY <1>3, <4>1, <4>2, <4>3, <4>4
      <3> QED BY <3>1, <3>2
    <2> QED BY <2>1, <2>2, <2>3 DEF RevisionChain, AuditRow
  <1>10. ApprovalPrecedesBlast'
    BY <1>2, <1>3, <1>4 DEF IInv, ApprovalPrecedesBlast
  <1>11. AuditTrail'
    <2>1. ASSUME NEW x \in Passports
          PROVE  Trail(x, status'[x]) \subseteq audit'
      <3>1. Trail(x, status[x]) \subseteq audit
        BY DEF IInv, AuditTrail
      <3>2. CASE status'[x] \in {"draft", "superseded"}
        BY <3>2 DEF Trail
      <3>3. CASE status'[x] = status[x]
        BY <1>3, <3>1, <3>3
      <3> QED BY <1>4, <3>2, <3>3
    <2>2. \A x \in Passports :
             supersededBy'[x] # None => supersededBy[x] # None \/ x = p
      BY <1>6
    <2>3. AuditRow(p, "active", "superseded") \in audit'
          /\ "active" \in Statuses
      BY <1>3 DEF Statuses
    <2> QED BY <1>3, <2>1, <2>2, <2>3, AuditHolds DEF IInv
  <1>12. RequestInv'
    <2>1. \A x \in Passports : revision[x] # 0 => revision'[x] = revision[x]
      BY <1>2, <1>5
    <2>2. \A x \in Passports : supersededBy[x] # None => supersededBy'[x] # None
      BY <1>2, <1>6
    <2> QED BY <1>3, <2>1, <2>2, CloseEffect, MemoryHolds DEF IInv
  <1> QED BY <1>8, <1>9, <1>10, <1>11, <1>12 DEF IInv

LEMMA BlastEventStep ==
  ASSUME IInv, NEW r \in Requests, CommitBlastEvent(r)
  PROVE  IInv'
  <1> DEFINE p == seen[r].passport
  <1>1. p \in Passports /\ approvedBy[p]
    BY DEF IInv, TypeOK, RequestInv, Allowed, CommitBlastEvent
  <1>2. UNCHANGED <<rowVars, audit>> /\ Close(r)
    BY DEF CommitBlastEvent
  <1>3. TypeOK'
    BY <1>1, <1>2, CloseEffect DEF IInv, TypeOK, CommitBlastEvent, rowVars
  <1>4. RevisionChain'
    BY <1>2, ChainHolds DEF IInv, rowVars
  <1>5. ApprovalPrecedesBlast'
    BY <1>1, <1>2
       DEF IInv, TypeOK, ApprovalPrecedesBlast, CommitBlastEvent, rowVars
  <1>6. AuditTrail'
    BY <1>2 DEF IInv, AuditTrail, Trail, AuditRow, rowVars
  <1>7. RequestInv'
    BY <1>2, CloseEffect, MemoryHolds DEF IInv, rowVars
  <1> QED BY <1>3, <1>4, <1>5, <1>6, <1>7 DEF IInv

-----------------------------------------------------------------------------
\* Every step of the specification keeps the invariant.
LEMMA NextPreserves == IInv /\ [Next]_vars => IInv'
  <1> SUFFICES ASSUME IInv, [Next]_vars PROVE IInv'
    OBVIOUS
  <1>1. CASE UNCHANGED vars
    <2>1. UNCHANGED <<status, design, revision, supersededBy, approvedBy,
                      blastEvent, audit, seen>>
      BY <1>1 DEF vars, rowVars
    <2>2. TypeOK' /\ RevisionChain' /\ ApprovalPrecedesBlast'
      BY <2>1 DEF IInv, TypeOK, RevisionChain, ApprovalPrecedesBlast, AuditRow
    <2>3. AuditTrail'
      BY <2>1 DEF IInv, AuditTrail, Trail, AuditRow
    <2>4. RequestInv'
      BY <2>1, MemoryHolds DEF IInv
    <2> QED BY <2>2, <2>3, <2>4 DEF IInv
  <1>2. CASE \E p \in Originals, d \in Designs : CreatePassport(p, d)
    BY <1>2, CreateStep
  <1>3. CASE \E r \in Requests, op \in Operations, p \in Passports :
               Load(r, op, p)
    BY <1>3, LoadStep
  <1>4. CASE \E r \in Requests : Rollback(r)
    BY <1>4, RollbackStep
  <1>5. CASE \E r \in Requests, d \in Designs : CommitUpdate(r, d)
    BY <1>5, UpdateStep
  <1>6. CASE \E r \in Requests :
               \/ CommitSubmit(r)
               \/ CommitApprove(r)
               \/ CommitActivate(r)
               \/ CommitComplete(r)
    BY <1>6, MovesPreserve
  <1>7. CASE \E r \in Requests, q \in Revisions, d \in Designs :
               CommitRevise(r, q, d)
    BY <1>7, ReviseStep
  <1>8. CASE \E r \in Requests : CommitBlastEvent(r)
    BY <1>8, BlastEventStep
  <1>9. CASE \E p \in Seeded, d \in Designs : SeedPassport(p, d)
    BY <1>9, SeedStep
  <1> QED BY <1>1, <1>2, <1>3, <1>4, <1>5, <1>6, <1>7, <1>8, <1>9 DEF Next

\* The inductive invariant holds in every reachable state.
THEOREM InvariantHolds == Spec => []IInv
  <1> QED BY InitEstablishes, NextPreserves, PTL DEF Spec

\* Rows, requests and audit log keep their types.
THEOREM PassportTypeCorrect == Spec => []TypeOK
  <1>1. IInv => TypeOK
    BY DEF IInv
  <1> QED BY <1>1, InvariantHolds, PTL

\* create_revision numbers the revisions along superseded_by_id, however many
\* requests revise or move the same passport at once.
THEOREM RevisionChainAlways == Spec => []RevisionChain
  <1>1. IInv => RevisionChain
    BY DEF IInv
  <1> QED BY <1>1, InvariantHolds, PTL

\* No interleaving of requests records a blast for, or activates, a passport
\* that no administrator approved.
THEOREM ApprovalPrecedesBlastAlways == Spec => []ApprovalPrecedesBlast
  <1>1. IInv => ApprovalPrecedesBlast
    BY DEF IInv
  <1> QED BY <1>1, InvariantHolds, PTL

\* The audit log explains the status, the approval and the superseding of every
\* passport, but for what dev_seed inserted.
THEOREM AuditTrailAlways == Spec => []AuditTrail
  <1>1. IInv => AuditTrail
    BY DEF IInv
  <1> QED BY <1>1, InvariantHolds, PTL

-----------------------------------------------------------------------------
(* The design of a passport, when no update overlaps a submission or a     *)
(* revision of the same passport.                                          *)

\* A step that moves no passport back to DRAFT, and out of DRAFT none that is
\* being updated, keeps what the open requests know.
LEMMA DraftHolds ==
  ASSUME DraftInv,
         \A r \in Requests : seen'[r] = seen[r] \/ seen'[r].op = "none",
         \A r \in Requests :
            seen'[r].op # "none" =>
              LET p == seen[r].passport
              IN  /\ status'[p] = "draft" => status[p] = "draft"
                  /\ seen[r].op = "update" => status'[p] = status[p]
  PROVE  DraftInv'
  <1> SUFFICES ASSUME NEW r \in Requests, seen'[r].op # "none"
               PROVE  LET p == seen'[r].passport
                      IN  /\ seen'[r].status # "draft" => status'[p] # "draft"
                          /\ seen'[r].op = "update" => status'[p] = "draft"
    BY DEF DraftInv
  <1>1. seen'[r] = seen[r]
    OBVIOUS
  <1> QED BY <1>1 DEF DraftInv

\* A commit that gives the passport of request x a status after DRAFT.
LEMMA DraftLeft ==
  ASSUME IInv, DraftInv, UpdatesApart, NEW x \in Requests, Close(x),
         seen[x].op # "none",
         seen[x].status = "draft" => seen[x].op \in {"submit", "revise"},
         NEW new \in Statuses \ {"draft"},
         status' = [status EXCEPT ![seen[x].passport] = new]
  PROVE  DraftInv'
  <1> DEFINE px == seen[x].passport
  <1>1. px \in Passports
    BY DEF IInv, TypeOK
  <1>2. ASSUME NEW r \in Requests, seen'[r].op # "none"
        PROVE  LET p == seen[r].passport
               IN  /\ status'[p] = "draft" => status[p] = "draft"
                   /\ seen[r].op = "update" => status'[p] = status[p]
    <2>1. seen[r].op # "none" /\ seen[r].passport \in Passports
      BY <1>2, CloseEffect DEF IInv, TypeOK
    <2>2. CASE seen[r].passport # px
      <3>1. status'[seen[r].passport] = status[seen[r].passport]
        BY <2>1, <2>2 DEF IInv, TypeOK
      <3> QED BY <3>1
    <2>3. CASE seen[r].passport = px
      <3>1. status'[px] = new /\ new # "draft"
        BY <1>1 DEF IInv, TypeOK
      <3>2. seen[r].op # "update"
        <4>1. CASE seen[x].status = "draft"
          BY <2>3, <4>1 DEF UpdatesApart
        <4>2. CASE seen[x].status # "draft"
          BY <2>3, <4>2 DEF DraftInv
        <4> QED BY <4>1, <4>2
      <3> QED BY <2>3, <3>1, <3>2
    <2> QED BY <2>2, <2>3
  <1> QED BY <1>2, CloseEffect, DraftHolds DEF IInv

\* What a request may have read, by its operation.
LEMMA ReadStatus ==
  ASSUME IInv, NEW r \in Requests, seen[r].op # "none"
  PROVE  /\ seen[r].passport \in Passports
         /\ status[seen[r].passport] \in Statuses
         /\ seen[r].op \in {"update", "submit"} => seen[r].status = "draft"
         /\ seen[r].op = "approve" => seen[r].status = "submitted"
         /\ seen[r].op = "activate" => seen[r].status = "approved"
         /\ seen[r].op = "complete" => seen[r].status = "active"
         /\ seen[r].op = "blast_event" =>
              seen[r].status \in {"approved", "active"}
         /\ seen[r].op = "revise" => seen[r].status \in Statuses
  <1>1. seen[r].status \in Allowed(seen[r].op)
    BY DEF IInv, RequestInv
  <1>2. seen[r].passport \in Passports /\ revision[seen[r].passport] # 0
    BY DEF IInv, TypeOK, RequestInv
  <1>3. status[seen[r].passport] \in Statuses
    BY <1>2 DEF IInv, TypeOK
  <1> QED BY <1>1, <1>2, <1>3 DEF Allowed

\* The status and design after a revision, column by column.
LEMMA ReviseEffect ==
  ASSUME IInv, NEW r \in Requests, NEW q \in Revisions,
         NEW d \in Designs, CommitRevise(r, q, d)
  PROVE  LET p == seen[r].passport
         IN  /\ p \in Passports /\ p # q
             /\ status[p] # "absent" /\ status[q] = "absent"
             /\ status' = [status EXCEPT
                  ![q] = "draft",
                  ![p] = IF seen[r].status # "superseded"
                           THEN "superseded" ELSE @]
             /\ design' = [design EXCEPT ![q] = d]
  <1>1. seen[r].op = "revise" /\ status[q] = "absent"
    BY DEF CommitRevise
  <1>2. /\ seen[r].passport \in Passports
        /\ status[seen[r].passport] \in Statuses
    BY <1>1, ReadStatus
  <1>3. seen[r].passport # q
    BY <1>1, <1>2 DEF Statuses
  <1> QED BY <1>1, <1>2, <1>3 DEF CommitRevise, Statuses

LEMMA DraftInvStep ==
  ASSUME IInv, DraftInv, UpdatesApart, [Next]_vars
  PROVE  DraftInv'
  <1>1. CASE UNCHANGED vars
    BY <1>1, DraftHolds DEF vars, rowVars
  <1>2. ASSUME NEW p \in Originals, NEW d \in Designs, CreatePassport(p, d)
        PROVE  DraftInv'
    <2>1. p \in Passports /\ status[p] = "absent"
          /\ status' = [status EXCEPT ![p] = "draft"] /\ seen' = seen
      BY <1>2, ConstantsAssumption DEF CreatePassport
    <2>2. \A r \in Requests : seen[r].op # "none" =>
            status'[seen[r].passport] = status[seen[r].passport]
      BY <2>1, ReadStatus DEF IInv, TypeOK, Statuses
    <2> QED BY <2>1, <2>2, DraftHolds
  <1>3. ASSUME NEW r \in Requests, NEW op \in Operations,
               NEW p \in Passports, Load(r, op, p)
        PROVE  DraftInv'
    <2>1. status' = status /\ status[p] \in Allowed(op)
      BY <1>3 DEF Load, rowVars
    <2>2. /\ seen'[r].op = op /\ seen'[r].passport = p
          /\ seen'[r].status = status[p]
      BY <1>3 DEF IInv, TypeOK, Load
    <2>3. \A x \in Requests : x # r => seen'[x] = seen[x]
      BY <1>3 DEF IInv, TypeOK, Load
    <2>4. op = "update" => status[p] = "draft"
      BY <2>1 DEF Allowed
    <2> SUFFICES ASSUME NEW x \in Requests
                 PROVE  LET y == seen'[x].passport
                        IN  /\ seen'[x].op # "none" /\ seen'[x].status # "draft"
                                 => status[y] # "draft"
                            /\ seen'[x].op = "update" => status[y] = "draft"
      BY <2>1 DEF DraftInv
    <2>5. CASE x = r
      BY <2>2, <2>4, <2>5
    <2>6. CASE x # r
      BY <2>3, <2>6 DEF DraftInv
    <2> QED BY <2>5, <2>6
  <1>4. ASSUME NEW r \in Requests, NEW d \in Designs,
               Rollback(r) \/ CommitUpdate(r, d) \/ CommitBlastEvent(r)
        PROVE  DraftInv'
    <2>1. status' = status /\ Close(r)
      BY <1>4 DEF Rollback, CommitUpdate, CommitBlastEvent, rowVars
    <2> QED BY <2>1, CloseEffect, DraftHolds DEF IInv
  <1>5. ASSUME NEW r \in Requests,
               \/ CommitSubmit(r)
               \/ CommitApprove(r)
               \/ CommitActivate(r)
               \/ CommitComplete(r)
        PROVE  DraftInv'
    <2>1. PICK new \in {"submitted", "approved", "active", "completed"} :
             status' = [status EXCEPT ![seen[r].passport] = new]
      BY <1>5 DEF CommitSubmit, CommitApprove, CommitActivate, CommitComplete,
                  Move
    <2>2. /\ seen[r].op \in {"submit", "approve", "activate", "complete"}
          /\ Close(r)
      BY <1>5 DEF CommitSubmit, CommitApprove, CommitActivate, CommitComplete,
                  Move
    <2>3. seen[r].status = "draft" => seen[r].op \in {"submit", "revise"}
      BY <2>2, ReadStatus
    <2> QED BY <2>1, <2>2, <2>3, DraftLeft DEF Statuses
  <1>6. ASSUME NEW r \in Requests, NEW q \in Revisions,
               NEW d \in Designs, CommitRevise(r, q, d)
        PROVE  DraftInv'
    <2> DEFINE p == seen[r].passport
    <2>1. /\ p \in Passports /\ p # q
          /\ status[p] # "absent" /\ status[q] = "absent"
          /\ status' = [status EXCEPT
               ![q] = "draft",
               ![p] = IF seen[r].status # "superseded"
                        THEN "superseded" ELSE @]
      BY <1>6, ReviseEffect
    <2>2. seen[r].op = "revise" /\ Close(r)
      BY <1>6 DEF CommitRevise
    <2>3. ASSUME NEW x \in Requests, seen'[x].op # "none"
          PROVE  LET y == seen[x].passport
                 IN  /\ status'[y] = "draft" => status[y] = "draft"
                     /\ seen[x].op = "update" => status'[y] = status[y]
      <3>1. seen[x].op # "none" /\ seen[x].passport \in Passports
            /\ status[seen[x].passport] \in Statuses
        BY <2>2, <2>3, CloseEffect, ReadStatus DEF IInv
      <3>2. seen[x].passport # q
        BY <2>1, <3>1 DEF Statuses
      <3>3. CASE seen[x].passport # p
        BY <2>1, <3>1, <3>2, <3>3 DEF IInv, TypeOK
      <3>4. CASE seen[x].passport = p
        <4>1. seen[x].op # "update"
          BY <2>2, <3>4 DEF UpdatesApart
        <4>2. status'[p] = status[p] \/ status'[p] = "superseded"
          BY <2>1 DEF IInv, TypeOK
        <4> QED BY <3>4, <4>1, <4>2
      <3> QED BY <3>3, <3>4
    <2> QED BY <2>2, <2>3, CloseEffect, DraftHolds DEF IInv
  <1>7. Designs # {}
    BY ConstantsAssumption
  <1>8. ASSUME NEW p \in Seeded, NEW d \in Designs, SeedPassport(p, d)
        PROVE  DraftInv'
    <2>1. p \in Passports /\ status[p] = "absent"
          /\ status' = [status EXCEPT ![p] = "active"] /\ seen' = seen
      BY <1>8, ConstantsAssumption DEF SeedPassport
    <2>2. \A r \in Requests : seen[r].op # "none" =>
            status'[seen[r].passport] = status[seen[r].passport]
      BY <2>1, ReadStatus DEF IInv, TypeOK, Statuses
    <2> QED BY <2>1, <2>2, DraftHolds
  <1> QED BY <1>1, <1>2, <1>3, <1>4, <1>5, <1>6, <1>7, <1>8 DEF Next

\* Only an update writes the design of a passport that exists, and it finds the
\* passport in DRAFT.
LEMMA DesignFrozenStep ==
  ASSUME IInv, DraftInv, [Next]_vars
  PROVE  \A p \in Passports :
            status[p] \notin {"absent", "draft"} => design'[p] = design[p]
  <1> SUFFICES ASSUME NEW y \in Passports, status[y] \notin {"absent", "draft"}
               PROVE  design'[y] = design[y]
    OBVIOUS
  <1>1. ASSUME NEW p \in Originals, NEW d \in Designs, CreatePassport(p, d)
        PROVE  design'[y] = design[y]
    BY <1>1 DEF CreatePassport, IInv, TypeOK
  <1>2. ASSUME NEW r \in Requests, NEW d \in Designs, CommitUpdate(r, d)
        PROVE  design'[y] = design[y]
    <2>1. status[seen[r].passport] = "draft"
      BY <1>2 DEF CommitUpdate, DraftInv
    <2> QED BY <1>2, <2>1 DEF CommitUpdate, IInv, TypeOK
  <1>3. ASSUME NEW r \in Requests, NEW q \in Revisions,
               NEW d \in Designs, CommitRevise(r, q, d)
        PROVE  design'[y] = design[y]
    BY <1>3, ReviseEffect DEF IInv, TypeOK
  <1>4. CASE \/ UNCHANGED vars
             \/ \E r \in Requests :
                  \/ \E op \in Operations, p \in Passports : Load(r, op, p)
                  \/ Rollback(r)
                  \/ CommitSubmit(r)
                  \/ CommitApprove(r)
                  \/ CommitActivate(r)
                  \/ CommitComplete(r)
                  \/ CommitBlastEvent(r)
    BY <1>4 DEF vars, rowVars, Load, Rollback, CommitSubmit, CommitApprove,
                CommitActivate, CommitComplete, CommitBlastEvent
  <1>5. ASSUME NEW p \in Seeded, NEW d \in Designs, SeedPassport(p, d)
        PROVE  design'[y] = design[y]
    BY <1>5 DEF SeedPassport, IInv, TypeOK
  <1> QED BY <1>1, <1>2, <1>3, <1>4, <1>5 DEF Next

\* A design is only ever changed in DRAFT unless an update overlaps a submission
\* or a revision of the same passport: no other interleaving does it.
THEOREM DesignFrozenWhenApart ==
  Spec /\ []UpdatesApart => DesignFrozenAfterDraft
  <1>1. Init => DraftInv
    BY DEF Init, DraftInv, Closed
  <1>2. IInv /\ DraftInv /\ UpdatesApart /\ [Next]_vars => DraftInv'
    BY DraftInvStep
  <1>3. IInv /\ DraftInv /\ [Next]_vars =>
          [\A p \in Passports :
             status[p] \notin {"absent", "draft"} => design'[p] = design[p]]_vars
    BY DesignFrozenStep
  <1> QED BY <1>1, <1>2, <1>3, InvariantHolds, PTL
          DEF Spec, DesignFrozenAfterDraft

-----------------------------------------------------------------------------
(* The handlers as single steps, when no two open requests work on one     *)
(* passport.                                                               *)

\* A step that closes request x and writes only its passport, or a passport
\* that did not exist, leaves what the others have read current.
LEMMA ReadHolds ==
  ASSUME IInv, ReadIsCurrent, RowsApart, NEW x \in Requests, Close(x),
         seen[x].op # "none",
         \A p \in Passports :
            p # seen[x].passport /\ status[p] # "absent" =>
               status'[p] = status[p] /\ design'[p] = design[p]
  PROVE  ReadIsCurrent'
  <1> SUFFICES ASSUME NEW r \in Requests, seen'[r].op # "none"
               PROVE  LET p == seen'[r].passport
                      IN  /\ status'[p] = seen'[r].status
                          /\ design'[p] = seen'[r].design
    BY DEF ReadIsCurrent
  <1>1. seen'[r] = seen[r] /\ r # x
    BY DEF Close, Closed, IInv, TypeOK
  <1>2. /\ seen[r].passport \in Passports
        /\ status[seen[r].passport] # "absent"
    BY <1>1, ReadStatus DEF Statuses
  <1>3. seen[r].passport # seen[x].passport
    BY <1>1 DEF RowsApart
  <1> QED BY <1>1, <1>2, <1>3 DEF ReadIsCurrent

\* The status and design after a move along the diagram.
LEMMA MoveEffect ==
  ASSUME IInv, NEW r \in Requests,
         \/ CommitSubmit(r)
         \/ CommitApprove(r)
         \/ CommitActivate(r)
         \/ CommitComplete(r)
  PROVE  \E new \in {"submitted", "approved", "active", "completed"} :
            /\ seen[r].passport \in Passports
            /\ <<seen[r].status, new>> \in Rules!Diagram
            /\ status' = [status EXCEPT ![seen[r].passport] = new]
            /\ UNCHANGED <<design, blastEvent>>
            /\ seen[r].op # "none" /\ Close(r)
  <1>1. CASE CommitSubmit(r)
    <2>1. seen[r].op = "submit"
      BY <1>1 DEF CommitSubmit, Move
    <2>2. seen[r].passport \in Passports /\ seen[r].status = "draft"
      BY <2>1, ReadStatus
    <2> QED BY <1>1, <2>1, <2>2 DEF CommitSubmit, Move, Rules!Diagram
  <1>2. CASE CommitApprove(r)
    <2>1. seen[r].op = "approve"
      BY <1>2 DEF CommitApprove, Move
    <2>2. seen[r].passport \in Passports /\ seen[r].status = "submitted"
      BY <2>1, ReadStatus
    <2> QED BY <1>2, <2>1, <2>2 DEF CommitApprove, Move, Rules!Diagram
  <1>3. CASE CommitActivate(r)
    <2>1. seen[r].op = "activate"
      BY <1>3 DEF CommitActivate, Move
    <2>2. seen[r].passport \in Passports /\ seen[r].status = "approved"
      BY <2>1, ReadStatus
    <2> QED BY <1>3, <2>1, <2>2 DEF CommitActivate, Move, Rules!Diagram
  <1>4. CASE CommitComplete(r)
    <2>1. seen[r].op = "complete"
      BY <1>4 DEF CommitComplete, Move
    <2>2. seen[r].passport \in Passports /\ seen[r].status = "active"
      BY <2>1, ReadStatus
    <2> QED BY <1>4, <2>1, <2>2 DEF CommitComplete, Move, Rules!Diagram
  <1> QED BY <1>1, <1>2, <1>3, <1>4

LEMMA ReadCurrentStep ==
  ASSUME IInv, ReadIsCurrent, RowsApart, [Next]_vars
  PROVE  ReadIsCurrent'
  <1>1. CASE UNCHANGED vars
    BY <1>1 DEF vars, rowVars, ReadIsCurrent
  <1>2. ASSUME NEW p \in Originals, NEW d \in Designs, CreatePassport(p, d)
        PROVE  ReadIsCurrent'
    <2>1. p \in Passports /\ status[p] = "absent" /\ seen' = seen
          /\ status' = [status EXCEPT ![p] = "draft"]
          /\ design' = [design EXCEPT ![p] = d]
      BY <1>2, ConstantsAssumption DEF CreatePassport
    <2>2. \A r \in Requests : seen[r].op # "none" =>
            /\ status'[seen[r].passport] = status[seen[r].passport]
            /\ design'[seen[r].passport] = design[seen[r].passport]
      BY <2>1, ReadStatus DEF IInv, TypeOK, Statuses
    <2> QED BY <2>1, <2>2 DEF ReadIsCurrent
  <1>3. ASSUME NEW r \in Requests, NEW op \in Operations,
               NEW p \in Passports, Load(r, op, p)
        PROVE  ReadIsCurrent'
    <2>1. UNCHANGED <<status, design>>
      BY <1>3 DEF Load, rowVars
    <2>2. /\ seen'[r].passport = p
          /\ seen'[r].status = status[p] /\ seen'[r].design = design[p]
      BY <1>3 DEF IInv, TypeOK, Load
    <2>3. \A x \in Requests : x # r => seen'[x] = seen[x]
      BY <1>3 DEF IInv, TypeOK, Load
    <2> QED BY <2>1, <2>2, <2>3 DEF ReadIsCurrent
  <1>4. ASSUME NEW r \in Requests, NEW d \in Designs,
               Rollback(r) \/ CommitUpdate(r, d) \/ CommitBlastEvent(r)
        PROVE  ReadIsCurrent'
    <2>1. status' = status /\ Close(r) /\ seen[r].op # "none"
      BY <1>4 DEF Rollback, CommitUpdate, CommitBlastEvent, rowVars
    <2>2. \A p \in Passports : p # seen[r].passport => design'[p] = design[p]
      BY <1>4 DEF Rollback, CommitUpdate, CommitBlastEvent, rowVars, IInv,
                  TypeOK
    <2> QED BY <2>1, <2>2, ReadHolds
  <1>5. ASSUME NEW r \in Requests,
               \/ CommitSubmit(r)
               \/ CommitApprove(r)
               \/ CommitActivate(r)
               \/ CommitComplete(r)
        PROVE  ReadIsCurrent'
    <2>1. PICK new \in {"submitted", "approved", "active", "completed"} :
            /\ status' = [status EXCEPT ![seen[r].passport] = new]
            /\ design' = design
            /\ seen[r].op # "none" /\ Close(r)
      BY <1>5, MoveEffect
    <2>2. \A p \in Passports : p # seen[r].passport => status'[p] = status[p]
      BY <2>1 DEF IInv, TypeOK
    <2> QED BY <2>1, <2>2, ReadHolds
  <1>6. ASSUME NEW r \in Requests, NEW q \in Revisions,
               NEW d \in Designs, CommitRevise(r, q, d)
        PROVE  ReadIsCurrent'
    <2>1. seen[r].op # "none" /\ Close(r)
      BY <1>6 DEF CommitRevise
    <2>2. \A p \in Passports : p # seen[r].passport /\ status[p] # "absent" =>
             status'[p] = status[p] /\ design'[p] = design[p]
      BY <1>6, ReviseEffect DEF IInv, TypeOK
    <2> QED BY <2>1, <2>2, ReadHolds
  <1>7. Designs # {}
    BY ConstantsAssumption
  <1>8. ASSUME NEW p \in Seeded, NEW d \in Designs, SeedPassport(p, d)
        PROVE  ReadIsCurrent'
    <2>1. p \in Passports /\ status[p] = "absent" /\ seen' = seen
          /\ status' = [status EXCEPT ![p] = "active"]
          /\ design' = [design EXCEPT ![p] = d]
      BY <1>8, ConstantsAssumption DEF SeedPassport
    <2>2. \A r \in Requests : seen[r].op # "none" =>
            /\ status'[seen[r].passport] = status[seen[r].passport]
            /\ design'[seen[r].passport] = design[seen[r].passport]
      BY <2>1, ReadStatus DEF IInv, TypeOK, Statuses
    <2> QED BY <2>1, <2>2 DEF ReadIsCurrent
  <1> QED BY <1>1, <1>2, <1>3, <1>4, <1>5, <1>6, <1>7, <1>8 DEF Next

\* A commit is the operation, the steps before it change nothing.
LEMMA RulesStep ==
  ASSUME IInv, ReadIsCurrent, [Next]_vars
  PROVE  [Rules!Next]_(Rules!vars)
  <1> USE DEF Rules!vars
  <1>1. CASE UNCHANGED vars
    BY <1>1 DEF vars, rowVars
  <1>2. ASSUME NEW p \in Originals, NEW d \in Designs, CreatePassport(p, d)
        PROVE  Rules!Next
    <2>1. p \in Passports /\ Rules!Create(p, d)
      BY <1>2, ConstantsAssumption DEF CreatePassport, Rules!Create
    <2> QED BY <2>1 DEF Rules!Next
  <1>3. ASSUME NEW r \in Requests, NEW op \in Operations,
               NEW p \in Passports, Load(r, op, p)
        PROVE  UNCHANGED Rules!vars
    BY <1>3 DEF Load, rowVars
  <1>4. ASSUME NEW r \in Requests, Rollback(r)
        PROVE  UNCHANGED Rules!vars
    BY <1>4 DEF Rollback, rowVars
  <1>5. ASSUME NEW r \in Requests, NEW d \in Designs, CommitUpdate(r, d)
        PROVE  Rules!Next \/ UNCHANGED Rules!vars
    <2>1. seen[r].op = "update" /\ UNCHANGED <<status, blastEvent>>
      BY <1>5 DEF CommitUpdate
    <2>2. seen[r].passport \in Passports /\ status[seen[r].passport] = "draft"
      BY <2>1, ReadStatus DEF ReadIsCurrent
    <2>3. CASE d = seen[r].design
      BY <1>5, <2>1, <2>3 DEF CommitUpdate
    <2>4. CASE d # seen[r].design
      <3>1. Rules!Edit(seen[r].passport, d)
        BY <1>5, <2>1, <2>2, <2>4 DEF CommitUpdate, Rules!Edit
      <3> QED BY <2>2, <3>1 DEF Rules!Next
    <2> QED BY <2>3, <2>4
  <1>6. ASSUME NEW r \in Requests,
               \/ CommitSubmit(r)
               \/ CommitApprove(r)
               \/ CommitActivate(r)
               \/ CommitComplete(r)
        PROVE  Rules!Next
    <2>1. PICK new \in {"submitted", "approved", "active", "completed"} :
            /\ seen[r].passport \in Passports
            /\ <<seen[r].status, new>> \in Rules!Diagram
            /\ status' = [status EXCEPT ![seen[r].passport] = new]
            /\ UNCHANGED <<design, blastEvent>>
            /\ seen[r].op # "none"
      BY <1>6, MoveEffect
    <2>2. Rules!Advance(seen[r].passport, new)
      BY <2>1 DEF ReadIsCurrent, Rules!Advance
    <2> QED BY <2>1, <2>2 DEF Rules!Next
  <1>7. ASSUME NEW r \in Requests, NEW q \in Revisions,
               NEW d \in Designs, CommitRevise(r, q, d)
        PROVE  Rules!Next
    <2> DEFINE p == seen[r].passport
    <2>1. /\ p \in Passports /\ p # q
          /\ status[p] # "absent" /\ status[q] = "absent"
          /\ status' = [status EXCEPT
               ![q] = "draft",
               ![p] = IF seen[r].status # "superseded"
                        THEN "superseded" ELSE @]
          /\ design' = [design EXCEPT ![q] = d]
      BY <1>7, ReviseEffect
    <2>2. status[p] = seen[r].status /\ blastEvent' = blastEvent
      BY <1>7 DEF CommitRevise, ReadIsCurrent
    <2>3. status \in [Passports -> Statuses \cup {"absent"}]
      BY DEF IInv, TypeOK
    <2>4. status' = [status EXCEPT ![p] = "superseded", ![q] = "draft"]
      BY <2>1, <2>2, <2>3
    <2>5. Rules!Revise(p, q, d)
      BY <2>1, <2>2, <2>4 DEF Rules!Revise
    <2> QED BY <2>1, <2>5 DEF Rules!Next, Revisions
  <1>8. ASSUME NEW r \in Requests, CommitBlastEvent(r)
        PROVE  Rules!Next
    <2>1. seen[r].op = "blast_event"
      BY <1>8 DEF CommitBlastEvent
    <2>2. /\ seen[r].passport \in Passports
          /\ status[seen[r].passport] \in {"approved", "active"}
      BY <2>1, ReadStatus DEF ReadIsCurrent
    <2>3. Rules!RecordBlast(seen[r].passport)
      BY <1>8, <2>2 DEF CommitBlastEvent, rowVars, Rules!RecordBlast
    <2> QED BY <2>2, <2>3 DEF Rules!Next
  <1>9. ASSUME NEW p \in Seeded, NEW d \in Designs, SeedPassport(p, d)
        PROVE  Rules!Next
    <2>1. p \in Passports /\ Rules!CreateBlasted(p, d)
      BY <1>9, ConstantsAssumption DEF SeedPassport, Rules!CreateBlasted
    <2> QED BY <2>1 DEF Rules!Next
  <1> QED BY <1>1, <1>2, <1>3, <1>4, <1>5, <1>6, <1>7, <1>8, <1>9 DEF Next

\* The handlers of routers/passports.py and routers/blast_events.py behave like
\* single steps that check and change the passport at once, in every behaviour
\* in which no two open requests work on one passport.
THEOREM SerialRequestsFollowRules == Spec /\ []RowsApart => Rules!Spec
  <1>1. Init => ReadIsCurrent
    BY DEF Init, ReadIsCurrent, Closed
  <1>2. IInv /\ ReadIsCurrent /\ RowsApart /\ [Next]_vars => ReadIsCurrent'
    BY ReadCurrentStep
  <1>3. IInv /\ ReadIsCurrent /\ [Next]_vars => [Rules!Next]_(Rules!vars)
    BY RulesStep
  <1>4. Init => Rules!Init
    BY DEF Init, Rules!Init
  <1> QED BY <1>1, <1>2, <1>3, <1>4, InvariantHolds, PTL DEF Spec, Rules!Spec

\* When what the requests have read is current, none of them gives a superseded
\* passport another status.
LEMMA SupersededStep ==
  ASSUME IInv, ReadIsCurrent, [Next]_vars
  PROVE  \A p \in Passports :
            status[p] = "superseded" => status'[p] = "superseded"
  <1> SUFFICES ASSUME NEW y \in Passports, status[y] = "superseded"
               PROVE  status'[y] = "superseded"
    OBVIOUS
  <1>1. ASSUME NEW p \in Passports, NEW d \in Designs,
               CreatePassport(p, d) \/ SeedPassport(p, d)
        PROVE  status'[y] = "superseded"
    BY <1>1 DEF CreatePassport, SeedPassport, IInv, TypeOK
  <1>2. ASSUME NEW r \in Requests,
               \/ CommitSubmit(r)
               \/ CommitApprove(r)
               \/ CommitActivate(r)
               \/ CommitComplete(r)
        PROVE  status'[y] = "superseded"
    <2>1. PICK new \in {"submitted", "approved", "active", "completed"} :
            /\ seen[r].passport \in Passports
            /\ <<seen[r].status, new>> \in Rules!Diagram
            /\ status' = [status EXCEPT ![seen[r].passport] = new]
            /\ seen[r].op # "none"
      BY <1>2, MoveEffect
    <2>2. status[seen[r].passport] # "superseded"
      BY <2>1 DEF ReadIsCurrent, Rules!Diagram
    <2> QED BY <2>1, <2>2 DEF IInv, TypeOK
  <1>3. ASSUME NEW r \in Requests, NEW q \in Revisions, NEW d \in Designs,
               CommitRevise(r, q, d)
        PROVE  status'[y] = "superseded"
    BY <1>3, ReviseEffect DEF IInv, TypeOK
  <1>4. CASE \/ UNCHANGED vars
             \/ \E r \in Requests :
                  \/ \E op \in Operations, p \in Passports : Load(r, op, p)
                  \/ Rollback(r)
                  \/ \E d \in Designs : CommitUpdate(r, d)
                  \/ CommitBlastEvent(r)
    BY <1>4 DEF vars, rowVars, Load, Rollback, CommitUpdate, CommitBlastEvent
  <1> QED BY <1>1, <1>2, <1>3, <1>4, ConstantsAssumption DEF Next

\* No passport comes back from SUPERSEDED unless two open requests work on it:
\* the overlap is the only way against the state machine of the documents.
THEOREM SupersededIsFinalWhenApart ==
  Spec /\ []RowsApart => SupersededIsFinal
  <1>1. Init => ReadIsCurrent
    BY DEF Init, ReadIsCurrent, Closed
  <1>2. IInv /\ ReadIsCurrent /\ RowsApart /\ [Next]_vars => ReadIsCurrent'
    BY ReadCurrentStep
  <1>3. IInv /\ ReadIsCurrent /\ [Next]_vars =>
          [\A p \in Passports :
             status[p] = "superseded" => status'[p] = "superseded"]_vars
    BY SupersededStep
  <1> QED BY <1>1, <1>2, <1>3, InvariantHolds, PTL DEF Spec, SupersededIsFinal

=============================================================================
