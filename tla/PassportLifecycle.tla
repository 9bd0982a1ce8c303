-------------------------- MODULE PassportLifecycle --------------------------
(***************************************************************************)
(* Blast passports, their revisions, blast events and audit rows, under    *)
(* concurrent HTTP requests.                                               *)
(*                                                                         *)
(* A request has one database session: it selects the passport, checks the *)
(* status it read, changes the object and commits when the handler has     *)
(* returned.  The isolation level is READ COMMITTED and no row is locked   *)
(* by the SELECT, so another request may commit in between.  The UPDATE    *)
(* names the columns whose new value differs from the one that was read.   *)
(***************************************************************************)
EXTENDS Naturals

CONSTANTS
    Passports,   \* ids of passport rows: bounds how many are ever inserted
    Originals,   \* the ids that create_passport inserts
    Seeded,      \* the ids that dev_seed inserts; the rest are revisions
    Requests,    \* requests that can be open at the same time
    Designs,     \* contents of the blast design fields
    None         \* "no passport"

ASSUME ConstantsAssumption ==
    /\ None \notin Passports
    /\ Originals \subseteq Passports
    /\ Seeded \subseteq Passports \ Originals
    /\ Designs # {}

Revisions == Passports \ (Originals \cup Seeded)

Statuses == {"draft", "submitted", "approved", "active", "completed",
             "superseded"}

VARIABLES
    status,        \* blast_passport.status, "absent" while there is no row
    design,        \* the design fields of the row
    revision,      \* revision_number
    supersededBy,  \* superseded_by_id
    approvedBy,    \* approved_by_id is set
    blastEvent,    \* a blast_event row refers to the passport
    audit,         \* audit_log rows
    seen           \* what each open request has read and wants to do

rowVars == <<status, design, revision, supersededBy, approvedBy>>
vars == <<rowVars, blastEvent, audit, seen>>

\* A request that has loaded nothing.
Closed == [op |-> "none", passport |-> None, status |-> "absent",
           design |-> None, revision |-> 0]

\* Mutant of Allowed: a blast event may be recorded before the approval.
AllowedOnceSubmitted(op) ==
    CASE op \in {"update", "submit"} -> {"draft"}
      [] op = "approve"              -> {"submitted"}
      [] op = "activate"             -> {"approved"}
      [] op = "complete"             -> {"active"}
      [] op = "blast_event"          -> {"submitted", "approved", "active"}
      [] op = "revise"               -> Statuses

\* The status an operation insists on in the row it has loaded.  A revision is
\* created from a passport in any status.
Allowed(op) ==
    CASE op \in {"update", "submit"} -> {"draft"}
      [] op = "approve"              -> {"submitted"}
      [] op = "activate"             -> {"approved"}
      [] op = "complete"             -> {"active"}
      [] op = "blast_event"          -> {"approved", "active"}
      [] op = "revise"               -> Statuses

Operations == {"update", "submit", "approve", "activate", "complete",
               "blast_event", "revise"}

AuditRow(p, old, new) == [passport |-> p, old |-> old, new |-> new]

-----------------------------------------------------------------------------
Init ==
    /\ status = [p \in Passports |-> "absent"]
    /\ design \in [Passports -> Designs]
    /\ \A p, q \in Passports : design[p] = design[q]
    /\ revision = [p \in Passports |-> 0]
    /\ supersededBy = [p \in Passports |-> None]
    /\ approvedBy = [p \in Passports |-> FALSE]
    /\ blastEvent = [p \in Passports |-> FALSE]
    /\ audit = {}
    /\ seen = [r \in Requests |-> Closed]

\* Mutant of CreatePassport: revision_number has no default.
CreateUnnumbered(p, d) ==
    /\ status[p] = "absent"
    /\ status' = [status EXCEPT ![p] = "draft"]
    /\ design' = [design EXCEPT ![p] = d]
    /\ UNCHANGED <<revision, supersededBy, approvedBy, blastEvent, audit, seen>>

\* create_passport reads no passport: its insert commits as one step.
CreatePassport(p, d) ==
    /\ status[p] = "absent"
    /\ status' = [status EXCEPT ![p] = "draft"]
    /\ design' = [design EXCEPT ![p] = d]
    /\ revision' = [revision EXCEPT ![p] = 1]
    /\ UNCHANGED <<supersededBy, approvedBy, blastEvent, audit, seen>>

\* dev_seed, the first time it is called in a database: an ACTIVE passport with
\* its blast event, approved by the caller, in one transaction.  No audit row.
SeedPassport(p, d) ==
    /\ status[p] = "absent"
    /\ status' = [status EXCEPT ![p] = "active"]
    /\ design' = [design EXCEPT ![p] = d]
    /\ revision' = [revision EXCEPT ![p] = 1]
    /\ approvedBy' = [approvedBy EXCEPT ![p] = TRUE]
    /\ blastEvent' = [blastEvent EXCEPT ![p] = TRUE]
    /\ UNCHANGED <<supersededBy, audit, seen>>

\* The handler selects the passport and passes its guard; a request that does
\* not gets 409 and changes nothing.
Load(r, op, p) ==
    /\ seen[r].op = "none"
    /\ status[p] \in Allowed(op)
    /\ op = "blast_event" => ~blastEvent[p]
    /\ seen' = [seen EXCEPT ![r] =
         [op |-> op, passport |-> p, status |-> status[p],
          design |-> design[p], revision |-> revision[p]]]
    /\ UNCHANGED <<rowVars, blastEvent, audit>>

Close(r) == seen' = [seen EXCEPT ![r] = Closed]

\* Client gone, database error, process restart: the session rolls back.
Rollback(r) ==
    /\ seen[r].op # "none"
    /\ Close(r)
    /\ UNCHANGED <<rowVars, blastEvent, audit>>

\* Only the fields that differ from the loaded row are written.
CommitUpdate(r, d) ==
    /\ seen[r].op = "update"
    /\ LET p == seen[r].passport
       IN  design' = IF d = seen[r].design THEN design
                                           ELSE [design EXCEPT ![p] = d]
    /\ Close(r)
    /\ UNCHANGED <<status, revision, supersededBy, approvedBy, blastEvent,
                   audit>>

\* The status column of a request's passport and its audit row.  The guard makes
\* the new status differ from the loaded one, so the column is written.
Move(r, op, old, new) ==
    /\ seen[r].op = op
    /\ status' = [status EXCEPT ![seen[r].passport] = new]
    /\ audit' = audit \cup {AuditRow(seen[r].passport, old, new)}
    /\ Close(r)

\* Mutant of CommitSubmit: the row is written after the status was set and
\* takes the old value from the object.
SubmitAuditedLate(r) ==
    /\ Move(r, "submit", "submitted", "submitted")
    /\ UNCHANGED <<design, revision, supersededBy, approvedBy, blastEvent>>

CommitSubmit(r) ==
    /\ Move(r, "submit", "draft", "submitted")
    /\ UNCHANGED <<design, revision, supersededBy, approvedBy, blastEvent>>

CommitApprove(r) ==
    /\ Move(r, "approve", "submitted", "approved")
    /\ approvedBy' = [approvedBy EXCEPT ![seen[r].passport] = TRUE]
    /\ UNCHANGED <<design, revision, supersededBy, blastEvent>>

CommitActivate(r) ==
    /\ Move(r, "activate", "approved", "active")
    /\ UNCHANGED <<design, revision, supersededBy, approvedBy, blastEvent>>

CommitComplete(r) ==
    /\ Move(r, "complete", "active", "completed")
    /\ UNCHANGED <<design, revision, supersededBy, approvedBy, blastEvent>>

\* Mutant of CommitRevise: the copied revision_number is not incremented.
ReviseWithSameNumber(r, q, d) ==
    /\ seen[r].op = "revise"
    /\ status[q] = "absent"
    /\ status' = [status EXCEPT ![q] = "draft",
                                ![seen[r].passport] = "superseded"]
    /\ supersededBy' = [supersededBy EXCEPT ![seen[r].passport] = q]
    /\ audit' = audit \cup
         {AuditRow(seen[r].passport, "active", "superseded")}
    /\ design' = [design EXCEPT ![q] = d]
    /\ revision' = [revision EXCEPT ![q] = seen[r].revision]
    /\ Close(r)
    /\ UNCHANGED <<approvedBy, blastEvent>>

\* create_revision: a new DRAFT with the loaded design (or the changes the
\* client sent) and the next revision number; the original is superseded.  The
\* audit row calls the old status "active" whatever it was.
CommitRevise(r, q, d) ==
    /\ seen[r].op = "revise"
    /\ status[q] = "absent"
    /\ LET p == seen[r].passport
           written == seen[r].status # "superseded"
       IN  /\ status' = [status EXCEPT
                ![q] = "draft",
                ![p] = IF written THEN "superseded" ELSE @]
           /\ supersededBy' = [supersededBy EXCEPT ![p] = q]
           /\ audit' = audit \cup {AuditRow(p, "active", "superseded")}
    /\ design' = [design EXCEPT ![q] = d]
    /\ revision' = [revision EXCEPT ![q] = seen[r].revision + 1]
    /\ Close(r)
    /\ UNCHANGED <<approvedBy, blastEvent>>

\* UNIQUE(passport_id): the second of two inserts fails and rolls back.
CommitBlastEvent(r) ==
    /\ seen[r].op = "blast_event"
    /\ ~blastEvent[seen[r].passport]
    /\ blastEvent' = [blastEvent EXCEPT ![seen[r].passport] = TRUE]
    /\ Close(r)
    /\ UNCHANGED <<rowVars, audit>>

Next ==
    \/ \E p \in Originals, d \in Designs : CreatePassport(p, d)
    \/ \E p \in Seeded, d \in Designs : SeedPassport(p, d)
    \/ \E r \in Requests :
         \/ \E op \in Operations, p \in Passports : Load(r, op, p)
         \/ Rollback(r)
         \/ \E d \in Designs : CommitUpdate(r, d)
         \/ CommitSubmit(r)
         \/ CommitApprove(r)
         \/ CommitActivate(r)
         \/ CommitComplete(r)
         \/ \E q \in Revisions, d \in Designs : CommitRevise(r, q, d)
         \/ CommitBlastEvent(r)

Spec == Init /\ [][Next]_vars

-----------------------------------------------------------------------------
(* Properties. *)

SeenType ==
    [op : Operations \cup {"none"}, passport : Passports \cup {None},
     status : Statuses \cup {"absent"}, design : Designs \cup {None},
     revision : Nat]

TypeOK ==
    /\ status \in [Passports -> Statuses \cup {"absent"}]
    /\ design \in [Passports -> Designs]
    /\ revision \in [Passports -> Nat]
    /\ \A p \in Passports : status[p] = "absent" <=> revision[p] = 0
    /\ supersededBy \in [Passports -> Passports \cup {None}]
    /\ approvedBy \in [Passports -> BOOLEAN]
    /\ blastEvent \in [Passports -> BOOLEAN]
    /\ audit \subseteq [passport : Passports, old : Statuses, new : Statuses]
    /\ seen \in [Requests -> SeenType]
    /\ \A r \in Requests :
         seen[r].op # "none" => seen[r].passport \in Passports

\* The revisions of a passport are numbered along superseded_by_id: a successor
\* has the next number, a superseded passport has a successor, and a revision
\* has an original that was superseded, also when one passport is revised by
\* two requests at once.
RevisionChain ==
    \A p \in Passports :
        /\ supersededBy[p] # None =>
             /\ status[p] # "absent"
             /\ revision[supersededBy[p]] = revision[p] + 1
        /\ status[p] = "superseded" => supersededBy[p] # None
        /\ revision[p] > 1 =>
             \E o \in Passports :
                 /\ revision[p] = revision[o] + 1
                 /\ supersededBy[o] # None

\* A blast is only ever recorded for a passport that has been approved, and
\* only such a passport is approved, active or completed, whatever requests
\* committed between a request's read and its commit.  dev_seed names its
\* caller as the one who approved.
ApprovalPrecedesBlast ==
    \A p \in Passports :
        /\ status[p] \in {"approved", "active", "completed"} => approvedBy[p]
        /\ blastEvent[p] => approvedBy[p]

\* The audit rows of the moves that lead a passport to a status from the one it
\* was inserted with.
Trail(p, s) ==
    LET Submitted == {AuditRow(p, "draft", "submitted")}
        Approved == Submitted \cup {AuditRow(p, "submitted", "approved")}
        Active == IF p \in Seeded THEN {}
                  ELSE Approved \cup {AuditRow(p, "approved", "active")}
    IN  CASE s = "submitted" -> Submitted
          [] s = "approved"  -> Approved
          [] s = "active"    -> Active
          [] s = "completed" -> Active \cup {AuditRow(p, "active", "completed")}
          [] OTHER           -> {}

\* The audit log explains every passport: the moves from the status it was
\* inserted with to the one it has, its approval also after it was superseded or
\* moved back, and its superseding, although the handlers log fixed texts and
\* not what they read.  What dev_seed inserts is not a move: its passport starts
\* in ACTIVE and its approval is in no log.
AuditTrail ==
    \A p \in Passports :
        /\ Trail(p, status[p]) \subseteq audit
        /\ approvedBy[p] /\ p \notin Seeded =>
             Trail(p, "approved") \subseteq audit
        /\ supersededBy[p] # None =>
             \E old \in Statuses : AuditRow(p, old, "superseded") \in audit

\* routers/passports.py:84: "Only DRAFT passports can be updated".
DesignFrozenAfterDraft ==
    [][\A p \in Passports :
         status[p] \notin {"absent", "draft"} => design'[p] = design[p]]_vars

\* docs/domain_model.md:36-48, the state machine of a passport: SUPERSEDED is
\* reached by a new revision and no move leaves it.
SupersededIsFinal ==
    [][\A p \in Passports :
         status[p] = "superseded" => status'[p] = "superseded"]_vars

-----------------------------------------------------------------------------
(* What the handlers guarantee when requests are kept apart, as a lock on  *)
(* the row, or clients that wait for one another, would do.                *)

\* No submission and no revision of a passport is open while an update of it is.
UpdatesApart ==
    \A q, r \in Requests :
        seen[q].op = "update" /\ seen[r].op \in {"submit", "revise"} =>
            seen[q].passport # seen[r].passport

\* No two open requests work on one passport.
RowsApart ==
    \A q, r \in Requests :
        q # r /\ seen[q].op # "none" /\ seen[r].op # "none" =>
            seen[q].passport # seen[r].passport

\* The operations as single steps: what the requests amount to when no two
\* open ones work on one passport.
Rules == INSTANCE PassportRules

-----------------------------------------------------------------------------
(* Inductive invariants, for the proofs. *)

\* What a request read of the revision number and of the approval is still
\* true at its commit: neither is ever taken back.
RequestInv ==
    \A r \in Requests :
        LET p == seen[r].passport
        IN  seen[r].op # "none" =>
              /\ revision[p] # 0
              /\ revision[p] = seen[r].revision
              /\ seen[r].status \in Allowed(seen[r].op)
              /\ seen[r].status \in {"approved", "active", "completed"} =>
                   approvedBy[p]
              /\ seen[r].status = "superseded" => supersededBy[p] # None
              /\ Trail(p, seen[r].status) \subseteq audit

\* A passport that was read outside DRAFT never returns to it, and one that is
\* being updated is still there, as long as UpdatesApart holds.
DraftInv ==
    \A r \in Requests :
        LET p == seen[r].passport
        IN  /\ seen[r].op # "none" /\ seen[r].status # "draft" =>
                 status[p] # "draft"
            /\ seen[r].op = "update" => status[p] = "draft"

\* What a request has read of a passport is what is there, as long as RowsApart
\* holds.
ReadIsCurrent ==
    \A r \in Requests :
        LET p == seen[r].passport
        IN  seen[r].op # "none" => /\ status[p] = seen[r].status
                                   /\ design[p] = seen[r].design

=============================================================================
