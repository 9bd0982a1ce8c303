---------------------------- MODULE QuarryAccess ----------------------------
(***************************************************************************)
(* Profiles, quarries, access rows and the demo data, under concurrent     *)
(* HTTP requests.                                                          *)
(*                                                                         *)
(* A request is one transaction at READ COMMITTED: it finds or inserts the *)
(* profile of its caller, checks his rights, selects what it works on, and *)
(* commits when the handler has returned.  An INSERT under a unique key    *)
(* waits for another open one with the same key, and fails when that one   *)
(* commits.  An UPDATE names only the columns that differ from what was    *)
(* selected.                                                               *)
(***************************************************************************)
EXTENDS Naturals, Sequences, FiniteSets

CONSTANTS
    Requests,   \* HTTP requests, each sent once
    Users,      \* subjects of tokens
    Quarries,   \* ids of quarry rows: bounds how many are ever inserted
    Nobody      \* "no user"

ASSUME AccessAssumption == Nobody \notin Users

Roles == {"admin", "user"}
Names == {"demo", "other"}     \* "Demo Quarry", and any other name

VARIABLES
    profile,   \* user_profile: "absent", "active" or "inactive"
    access,    \* quarry_user_access rows, in the order of their commit
    name,      \* quarry.name, "absent" while there is no row
    reports,   \* reports that a chain of rows joins to the quarry: 2 is many
    seeded,    \* quarries that dev_seed made, each with the demo device
    audit,     \* audit_log rows: action and entity
    request    \* request[r]: what the transaction of r has done so far

dataVars == <<access, name, reports, seeded, audit>>
vars == <<profile, dataVars, request>>

\* at: where the request is; new: it has inserted the profile of its caller;
\* op: what the handler is going to write.
Request(at, user, new, op) ==
    [at |-> at, user |-> user, new |-> new, op |-> op]
NoOp == [do |-> "nothing"]
Fresh == Request("new", Nobody, FALSE, NoOp)
Over == Request("over", Nobody, FALSE, NoOp)

AccessRow(user, quarry, role, by) ==
    [user |-> user, quarry |-> quarry, role |-> role, by |-> by,
     active |-> TRUE]
Grant(row, logged) == [do |-> "grant", row |-> row, logged |-> logged]
Patch(user, to, action) ==
    [do |-> "patch", user |-> user, seen |-> profile[user], to |-> to,
     action |-> action]

Caller(r) == request[r].user
Doing(r, at, do) == request[r].at = at /\ request[r].op.do = do

\* The active rows of a user for a quarry: the partial unique index.
ActiveRows(u, q) ==
    {i \in DOMAIN access :
       access[i].active /\ access[i].user = u /\ access[i].quarry = q}
AdminRows(u) ==
    {i \in DOMAIN access :
       access[i].active /\ access[i].user = u /\ access[i].role = "admin"}

\* require_any_admin: no row is 403, and two rows are an error, 500.
AnyAdmin(r) == \E i \in DOMAIN access : AdminRows(Caller(r)) = {i}

-----------------------------------------------------------------------------
Init ==
    /\ profile = [u \in Users |-> "absent"]
    /\ access = <<>>
    /\ name = [q \in Quarries |-> "absent"]
    /\ reports = [q \in Quarries |-> 0]
    /\ seeded = {}
    /\ audit = {}
    /\ request = [r \in Requests |-> Fresh]

Goes(r, to) == request' = [request EXCEPT ![r] = to]

\* The answer is an error, and the transaction is rolled back.
End(r) ==
    /\ Goes(r, Over)
    /\ UNCHANGED <<profile, dataVars>>

-----------------------------------------------------------------------------
(* get_current_user. *)

\* The profile is found, or not; or it is disabled, 403.
SelectProfile(r, u) ==
    /\ request[r] = Fresh
    /\ CASE profile[u] = "active"   -> Goes(r, Request("ready", u, FALSE, NoOp))
         [] profile[u] = "inactive" -> Goes(r, Over)
         [] profile[u] = "absent"   -> Goes(r, Request("insert", u, FALSE, NoOp))
    /\ UNCHANGED <<profile, dataVars>>

\* First login: the INSERT holds the unique key of the subject.
InsertProfile(r) ==
    /\ request[r].at = "insert"
    /\ profile[Caller(r)] = "absent"
    /\ \A q \in Requests : request[q].new => Caller(q) # Caller(r)
    /\ Goes(r, Request("ready", Caller(r), TRUE, NoOp))
    /\ UNCHANGED <<profile, dataVars>>

InsertProfileFails(r) ==
    /\ request[r].at = "insert"
    /\ profile[Caller(r)] # "absent"
    /\ End(r)

-----------------------------------------------------------------------------
(* The handlers up to their first write. *)

Load(r, op) ==
    /\ Goes(r, [request[r] EXCEPT !.at = "loaded", !.op = op])
    /\ UNCHANGED <<profile, dataVars>>

NotAdmin(r) ==
    /\ request[r].at = "ready" /\ ~AnyAdmin(r)
    /\ End(r)

LoadGrant(r, u, q, role) ==
    /\ request[r].at = "ready" /\ AnyAdmin(r)
    /\ Load(r, Grant(AccessRow(u, q, role, Caller(r)), TRUE))

LoadRevoke(r, i) ==
    /\ request[r].at = "ready" /\ AnyAdmin(r)
    /\ Load(r, [do |-> "revoke", id |-> i])

\* Mutant of LoadUpdateUser: a user who is not there is not a 404.
LoadUnknownUser(r, u, to) ==
    /\ request[r].at = "ready" /\ AnyAdmin(r)
    /\ Load(r, Patch(u, to, "user_updated"))

\* update_user: is_active is set, or left out of the body.
LoadUpdateUser(r, u, to) ==
    /\ request[r].at = "ready" /\ AnyAdmin(r)
    /\ profile[u] # "absent"
    /\ Load(r, Patch(u, to, "user_updated"))

LoadDeactivateUser(r, u) ==
    /\ request[r].at = "ready" /\ AnyAdmin(r)
    /\ profile[u] # "absent" /\ u # Caller(r)
    /\ Load(r, Patch(u, "inactive", "user_deactivated"))

\* Bound: every request that may insert a quarry has an id left for it.
IdsLeft ==
    Cardinality({r \in Requests : request[r].op.do \in {"create", "build"}})
      < Cardinality({q \in Quarries : name[q] = "absent"})

LoadCreateQuarry(r, n) ==
    /\ request[r].at = "ready" /\ AnyAdmin(r) /\ IdsLeft
    /\ Load(r, [do |-> "create", to |-> n])

\* update_quarry: the caller is administrator of this quarry.
LoadUpdateQuarry(r, q, n) ==
    /\ request[r].at = "ready"
    /\ ActiveRows(Caller(r), q) \cap AdminRows(Caller(r)) # {}
    /\ Load(r, [do |-> "rename", quarry |-> q, seen |-> name[q], to |-> n])

Demo == {q \in Quarries : name[q] = "demo"}

\* dev_seed expects one quarry of the name and one report: 500.
SeedBreaks(r) ==
    /\ request[r].at = "ready"
    /\ \/ \E p, q \in Demo : p # q
       \/ \E q \in Demo : reports[q] > 1
    /\ End(r)

\* dev_seed with the chain in place: the caller's access is all it may add.
SeedAgain(r) ==
    /\ request[r].at = "ready"
    /\ \E q \in Quarries :
         /\ Demo = {q} /\ reports[q] = 1
         /\ Load(r, IF ActiveRows(Caller(r), q) # {} THEN NoOp
                    ELSE Grant(AccessRow(Caller(r), q, "admin", Caller(r)),
                               FALSE))

\* Otherwise it builds one, with a quarry of its own.
SeedFirst(r) ==
    /\ request[r].at = "ready" /\ IdsLeft
    /\ \/ Demo = {}
       \/ \E q \in Demo : Demo = {q} /\ reports[q] = 0
    /\ Load(r, [do |-> "build"])

-----------------------------------------------------------------------------
(* The inserts under a unique key, which keep it until the commit. *)

SameKey(row, other) == row.user = other.user /\ row.quarry = other.quarry

\* The rows that the new one refers to exist.
Referenced(r, row) ==
    /\ profile[row.user] # "absent" \/ row.user = Caller(r)
    /\ name[row.quarry] # "absent"

\* Mutant of FlushGrant: there is no unique index.
FlushGrantAnyway(r) ==
    /\ Doing(r, "loaded", "grant")
    /\ Referenced(r, request[r].op.row)
    /\ Goes(r, [request[r] EXCEPT !.at = "flushed"])
    /\ UNCHANGED <<profile, dataVars>>

FlushGrant(r) ==
    /\ Doing(r, "loaded", "grant")
    /\ LET row == request[r].op.row
       IN  /\ Referenced(r, row)
           /\ ActiveRows(row.user, row.quarry) = {}
           /\ \A q \in Requests :
                Doing(q, "flushed", "grant") => ~SameKey(row, request[q].op.row)
    /\ Goes(r, [request[r] EXCEPT !.at = "flushed"])
    /\ UNCHANGED <<profile, dataVars>>

FlushGrantFails(r) ==
    /\ Doing(r, "loaded", "grant")
    /\ LET row == request[r].op.row
       IN  ~Referenced(r, row) \/ ActiveRows(row.user, row.quarry) # {}
    /\ End(r)

\* Mutant of FlushBuild: the serial number of the demo device is not unique.
FlushBuildAnyway(r) ==
    /\ Doing(r, "loaded", "build")
    /\ Goes(r, [request[r] EXCEPT !.at = "flushed"])
    /\ UNCHANGED <<profile, dataVars>>

\* The demo device, in the middle of the chain.
FlushBuild(r) ==
    /\ Doing(r, "loaded", "build")
    /\ seeded = {}
    /\ \A q \in Requests : ~Doing(q, "flushed", "build")
    /\ Goes(r, [request[r] EXCEPT !.at = "flushed"])
    /\ UNCHANGED <<profile, dataVars>>

FlushBuildFails(r) ==
    /\ Doing(r, "loaded", "build")
    /\ seeded # {}
    /\ End(r)

-----------------------------------------------------------------------------
(* The commits. *)

\* A profile that was inserted by the request becomes visible with the rest.
Commit(r) ==
    /\ Goes(r, Over)
    /\ profile' = IF request[r].new
                  THEN [profile EXCEPT ![Caller(r)] = "active"] ELSE profile

CommitGrant(r) ==
    /\ Doing(r, "flushed", "grant")
    /\ access' = Append(access, request[r].op.row)
    /\ audit' = IF request[r].op.logged
                THEN audit \cup {<<"role_assigned", Len(access) + 1>>}
                ELSE audit
    /\ Commit(r)
    /\ UNCHANGED <<name, reports, seeded>>

CommitBuild(r, q) ==
    /\ Doing(r, "flushed", "build")
    /\ name[q] = "absent"
    /\ name' = [name EXCEPT ![q] = "demo"]
    /\ reports' = [reports EXCEPT ![q] = 1]
    /\ seeded' = seeded \cup {q}
    /\ access' = Append(access, AccessRow(Caller(r), q, "admin", Caller(r)))
    /\ Commit(r)
    /\ UNCHANGED audit

\* Mutant of CommitRevoke: only the first revocation of a user is logged.
CommitRevokeUnlogged(r) ==
    /\ Doing(r, "loaded", "revoke")
    /\ LET i == request[r].op.id
       IN  /\ access' = [access EXCEPT ![i].active = FALSE]
           /\ audit' = IF access[i].user = Caller(r) THEN audit
                       ELSE audit \cup {<<"role_revoked", i>>}
    /\ Commit(r)
    /\ UNCHANGED <<name, reports, seeded>>

\* Mutant of CommitRevoke: the UPDATE names the user and not the row, and takes
\* his access to every quarry.
CommitRevokeAll(r) ==
    /\ Doing(r, "loaded", "revoke")
    /\ LET i == request[r].op.id
       IN  /\ access' = [k \in DOMAIN access |->
                           IF access[k].user = access[i].user
                           THEN [access[k] EXCEPT !.active = FALSE]
                           ELSE access[k]]
           /\ audit' = audit \cup {<<"role_revoked", i>>}
    /\ Commit(r)
    /\ UNCHANGED <<name, reports, seeded>>

CommitRevoke(r) ==
    /\ Doing(r, "loaded", "revoke")
    /\ LET i == request[r].op.id
       IN  /\ access' = [access EXCEPT ![i].active = FALSE]
           /\ audit' = audit \cup {<<"role_revoked", i>>}
    /\ Commit(r)
    /\ UNCHANGED <<name, reports, seeded>>

\* Mutant of CommitPatch: the UPDATE names all columns of the selected row.
CommitWholeRow(r) ==
    /\ Doing(r, "loaded", "patch")
    /\ LET op == request[r].op
       IN  /\ profile' = [profile EXCEPT ![op.user] =
                            IF op.to = "unset" THEN op.seen ELSE op.to]
           /\ audit' = audit \cup {<<op.action, op.user>>}
    /\ Goes(r, Over)
    /\ UNCHANGED <<access, name, reports, seeded>>

\* is_active is written when the body has it and it differs from what was read.
\* The caller is an administrator, so the request has inserted no profile.
CommitPatch(r) ==
    /\ Doing(r, "loaded", "patch")
    /\ LET op == request[r].op
       IN  /\ profile' = IF op.to \in {"unset", op.seen} THEN profile
                         ELSE [profile EXCEPT ![op.user] = op.to]
           /\ audit' = audit \cup {<<op.action, op.user>>}
    /\ Goes(r, Over)
    /\ UNCHANGED <<access, name, reports, seeded>>

CommitCreateQuarry(r, q) ==
    /\ Doing(r, "loaded", "create")
    /\ name[q] = "absent"
    /\ name' = [name EXCEPT ![q] = request[r].op.to]
    /\ Commit(r)
    /\ UNCHANGED <<access, reports, seeded, audit>>

CommitUpdateQuarry(r) ==
    /\ Doing(r, "loaded", "rename")
    /\ LET op == request[r].op
       IN  name' = IF op.to = op.seen THEN name
                   ELSE [name EXCEPT ![op.quarry] = op.to]
    /\ Commit(r)
    /\ UNCHANGED <<access, reports, seeded, audit>>

CommitNothing(r) ==
    /\ Doing(r, "loaded", "nothing")
    /\ Commit(r)
    /\ UNCHANGED dataVars

\* The handler refuses (400, 404), or the database or the client has gone.
Rollback(r) ==
    /\ request[r].at \in {"ready", "flushed"}
    /\ End(r)

\* An analysis of a blast in the quarry is completed.
PublishReport(q) ==
    /\ name[q] # "absent" /\ reports[q] < 2
    /\ reports' = [reports EXCEPT ![q] = @ + 1]
    /\ UNCHANGED <<profile, access, name, seeded, audit, request>>

\* Every request is over: the only way to stop.
Quiescent ==
    /\ \A r \in Requests : request[r] = Over
    /\ UNCHANGED vars

Authenticate(r) ==
    \/ \E u \in Users : SelectProfile(r, u)
    \/ InsertProfile(r)
    \/ InsertProfileFails(r)

Administrate(r) ==
    \/ \E u \in Users, q \in Quarries, role \in Roles : LoadGrant(r, u, q, role)
    \/ \E i \in DOMAIN access : LoadRevoke(r, i)
    \/ \E u \in Users, to \in {"active", "inactive", "unset"} :
         LoadUpdateUser(r, u, to)
    \/ \E u \in Users : LoadDeactivateUser(r, u)
    \/ \E n \in Names : LoadCreateQuarry(r, n)
    \/ \E q \in Quarries, n \in Names : LoadUpdateQuarry(r, q, n)
    \/ NotAdmin(r)

Seed(r) == SeedBreaks(r) \/ SeedAgain(r) \/ SeedFirst(r)

Flush(r) ==
    \/ FlushGrant(r) \/ FlushGrantFails(r)
    \/ FlushBuild(r) \/ FlushBuildFails(r)

Finish(r) ==
    \/ CommitGrant(r)
    \/ \E q \in Quarries : CommitBuild(r, q) \/ CommitCreateQuarry(r, q)
    \/ CommitRevoke(r)
    \/ CommitPatch(r)
    \/ CommitUpdateQuarry(r)
    \/ CommitNothing(r)
    \/ Rollback(r)

Next ==
    \/ \E r \in Requests :
         Authenticate(r) \/ Administrate(r) \/ Seed(r) \/ Flush(r) \/ Finish(r)
    \/ \E q \in Quarries : PublishReport(q)
    \/ Quiescent

Spec == Init /\ [][Next]_vars

-----------------------------------------------------------------------------
(* Properties. *)

AccessRows ==
    [user : Users, quarry : Quarries, role : Roles, by : Users,
     active : BOOLEAN]

Ops ==
    {NoOp, [do |-> "build"]}
    \cup [do : {"grant"}, row : AccessRows, logged : BOOLEAN]
    \cup [do : {"revoke"}, id : DOMAIN access]
    \cup [do : {"patch"}, user : Users, seen : {"active", "inactive"},
          to : {"active", "inactive", "unset"},
          action : {"user_updated", "user_deactivated"}]
    \cup [do : {"create"}, to : Names]
    \cup [do : {"rename"}, quarry : Quarries, seen : Names, to : Names]

TypeOK ==
    /\ profile \in [Users -> {"absent", "active", "inactive"}]
    /\ access \in Seq(AccessRows)
    /\ name \in [Quarries -> Names \cup {"absent"}]
    /\ reports \in [Quarries -> 0..2]
    /\ seeded \subseteq Quarries
    /\ \A r \in Requests :
         /\ request[r].op \in Ops
         /\ \/ request[r] \in {Fresh, Over}
            \/ request[r] \in
                 [at : {"insert", "ready", "loaded", "flushed"}, user : Users,
                  new : BOOLEAN, op : Ops]

\* uq_quarry_user_active: a user has one active row for a quarry, however grants,
\* revocations and seeds overlap.  check_role and check_quarry_access raise an
\* error for a user who has two.
ActiveGrantUnique ==
    \A i, j \in DOMAIN access :
        /\ access[i].active /\ access[j].active
        /\ SameKey(access[i], access[j])
        => i = j

RightOf(u, q) ==
    IF ActiveRows(u, q) = {} THEN "none"
    ELSE access[CHOOSE i \in ActiveRows(u, q) : TRUE].role

Rights == INSTANCE AccessRights WITH
    Users <- Users, Quarries <- Quarries, Roles <- Roles,
    right <- [u \in Users |-> [q \in Quarries |-> RightOf(u, q)]]

\* Seen from outside, the rows are one right per user and quarry, as AccessRights
\* says: one commit changes one right, and a right that is taken does not leave
\* another one behind.
ImplementsRights == Rights!Spec

\* Two first seeds at once leave one chain: the other is undone altogether.  The
\* chain comes with its report and with a row for the user who asked for it.
OneDemoChain ==
    /\ \A p, q \in seeded : p = q
    /\ \A q \in seeded :
         /\ name[q] # "absent" /\ reports[q] > 0
         /\ \E i \in DOMAIN access :
              /\ access[i].quarry = q /\ access[i].role = "admin"
              /\ access[i].by = access[i].user

\* docs/STATUS.md: the audit log is written on role and access changes.  Every
\* revocation and every disabled account is in it, an assignment in it is that
\* of a row, and a row that is not in it is one dev_seed gave its caller.
AccessAudited ==
    /\ \A i \in DOMAIN access :
         /\ access[i].active \/ <<"role_revoked", i>> \in audit
         /\ \/ <<"role_assigned", i>> \in audit
            \/ access[i].by = access[i].user /\ access[i].role = "admin"
    /\ \A i \in 1..Len(access) + 1 :
         <<"role_assigned", i>> \in audit => i \in DOMAIN access
    /\ \A u \in Users :
         profile[u] = "inactive" =>
           \/ <<"user_deactivated", u>> \in audit
           \/ <<"user_updated", u>> \in audit

\* A disabled account comes back only when an administrator saw it disabled and
\* asked for it: an update of something else, or one that was overtaken by the
\* deactivation, does not undo it.
DeactivationSticks ==
    [][\A u \in Users :
         profile[u] = "inactive" /\ profile'[u] = "active" =>
           \E r \in Requests :
             /\ request'[r] = Over
             /\ request[r].op = [do |-> "patch", user |-> u,
                                 seen |-> "inactive", to |-> "active",
                                 action |-> "user_updated"]]_vars

\* r cannot go on before q has ended: q holds a unique key that r inserts.
WaitsFor(r, q) ==
    \/ /\ request[r].at = "insert"
       /\ request[q].new /\ Caller(q) = Caller(r)
    \/ /\ Doing(r, "loaded", "grant") /\ Doing(q, "flushed", "grant")
       /\ SameKey(request[r].op.row, request[q].op.row)
    \/ Doing(r, "loaded", "build") /\ Doing(q, "flushed", "build")

\* The profile is inserted before any other key is asked for, and no transaction
\* asks for a second one of those: whoever is waited for waits at most for one
\* that waits for nobody, so PostgreSQL never finds a deadlock here.
NoCircularWait ==
    \A o, p, q, r \in Requests :
        ~(WaitsFor(o, p) /\ WaitsFor(p, q) /\ WaitsFor(q, r))

=============================================================================
