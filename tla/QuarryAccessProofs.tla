------------------------- MODULE QuarryAccessProofs -------------------------
(***************************************************************************)
(* The access rows, the demo chain and the audit log under any number of   *)
(* concurrent requests.                                                    *)
(*                                                                         *)
(* IInv adds to the properties what an open transaction may rely on: the   *)
(* keys it holds by an INSERT are taken by nobody else, committed or open, *)
(* and the rows it has selected are still there.                           *)
(***************************************************************************)
EXTENDS QuarryAccess, SequenceTheorems, TLAPS

-----------------------------------------------------------------------------
(* The invariant. *)

Placed == [at : {"insert", "ready", "loaded", "flushed"}, user : Users,
           new : BOOLEAN, op : Ops]

DataType ==
    /\ profile \in [Users -> {"absent", "active", "inactive"}]
    /\ access \in Seq(AccessRows)
    /\ name \in [Quarries -> Names \cup {"absent"}]
    /\ reports \in [Quarries -> 0..2]
    /\ seeded \subseteq Quarries

RequestsTyped == request \in [Requests -> {Fresh, Over} \cup Placed]

\* A row belongs to a quarry that is there.
RowsRefer == \A i \in DOMAIN access : name[access[i].quarry] # "absent"

\* AccessAudited, with the entries of the log about assignments for all ids.
RowsLogged ==
    \A i \in DOMAIN access :
        /\ access[i].active \/ <<"role_revoked", i>> \in audit
        /\ \/ <<"role_assigned", i>> \in audit
           \/ access[i].by = access[i].user /\ access[i].role = "admin"
LogRefers ==
    \A i \in Nat : <<"role_assigned", i>> \in audit => i \in DOMAIN access
DisabledLogged ==
    \A u \in Users :
        profile[u] = "inactive" =>
          \/ <<"user_deactivated", u>> \in audit
          \/ <<"user_updated", u>> \in audit

DataInv ==
    /\ DataType
    /\ RowsRefer
    /\ ActiveGrantUnique
    /\ OneDemoChain
    /\ RowsLogged /\ LogRefers /\ DisabledLogged

\* What a handler has decided to write.
SoundOp(op) ==
    /\ op.do = "grant" =>
         /\ op.row.active
         /\ op.logged \/ (op.row.by = op.row.user /\ op.row.role = "admin")
    /\ op.do = "patch" =>
         /\ profile[op.user] # "absent"
         /\ op.action = "user_deactivated" => op.to = "inactive"

\* What a transaction holds.
Sound(x) ==
    /\ SoundOp(x.op)
    /\ x.new => profile[x.user] = "absent"
    /\ x.at = "flushed" /\ x.op.do = "grant" =>
         /\ ActiveRows(x.op.row.user, x.op.row.quarry) = {}
         /\ name[x.op.row.quarry] # "absent"
    /\ x.at = "flushed" /\ x.op.do = "build" => seeded = {}

AllSound == \A r \in Requests : Sound(request[r])

\* Two open transactions hold different keys.
Compatible(x, y) ==
    /\ x.new /\ y.new => x.user # y.user
    /\ x.at = "flushed" /\ x.op.do = "grant"
         /\ y.at = "flushed" /\ y.op.do = "grant"
       => ~SameKey(x.op.row, y.op.row)
    /\ ~(x.at = "flushed" /\ x.op.do = "build"
           /\ y.at = "flushed" /\ y.op.do = "build")

Apart ==
    \A q, r \in Requests : q # r => Compatible(request[q], request[r])

IInv == DataInv /\ RequestsTyped /\ AllSound /\ Apart

-----------------------------------------------------------------------------
(* Shapes. *)

\* A handler that writes nothing.
LEMMA NoOpIn == NoOp \in Ops /\ NoOp.do = "nothing" /\ SoundOp(NoOp)
  BY DEF NoOp, Ops, SoundOp

\* A transaction that is over holds nothing.
LEMMA OverFacts ==
  /\ Over.at = "over" /\ Over.new = FALSE /\ Over.op = NoOp
  /\ Sound(Over)
  /\ \A x : Compatible(Over, x) /\ Compatible(x, Over)
<1>1. Over.at = "over" /\ Over.new = FALSE /\ Over.op = NoOp
  BY DEF Over, Request
<1>2. Sound(Over)
  BY <1>1, NoOpIn DEF Sound
<1>3. \A x : Compatible(Over, x) /\ Compatible(x, Over)
  BY <1>1 DEF Compatible
<1> QED BY <1>1, <1>2, <1>3

\* A request that has got past its token is one of Placed.
LEMMA PlacedTyped ==
  ASSUME RequestsTyped, NEW r \in Requests,
         request[r].at \in {"insert", "ready", "loaded", "flushed"}
  PROVE  /\ request[r] \in Placed
         /\ request[r].user \in Users /\ request[r].new \in BOOLEAN
         /\ request[r].op \in Ops
<1>1. request[r] \in Placed
  BY DEF RequestsTyped, Fresh, Over, Request
<1> QED BY <1>1 DEF Placed

\* The parts of what a handler is going to write.
LEMMA OpsTyped ==
  ASSUME NEW op \in Ops
  PROVE  /\ op.do = "grant" => op.row \in AccessRows /\ op.logged \in BOOLEAN
         /\ op.do = "revoke" => op.id \in DOMAIN access
         /\ op.do = "patch" =>
              /\ op \in [do : {"patch"}, user : Users,
                         seen : {"active", "inactive"},
                         to : {"active", "inactive", "unset"},
                         action : {"user_updated", "user_deactivated"}]
              /\ op.user \in Users /\ op.seen \in {"active", "inactive"}
              /\ op.to \in {"active", "inactive", "unset"}
              /\ op.action \in {"user_updated", "user_deactivated"}
         /\ op.do = "create" => op.to \in Names
         /\ op.do = "rename" =>
              op.quarry \in Quarries /\ op.seen \in Names /\ op.to \in Names
  BY DEF Ops, NoOp

\* The parts of an access row.
LEMMA RowsTyped ==
  ASSUME NEW row \in AccessRows
  PROVE  /\ row.user \in Users /\ row.quarry \in Quarries /\ row.role \in Roles
         /\ row.by \in Users /\ row.active \in BOOLEAN
  BY DEF AccessRows

\* A grant writes an active row of its caller.
LEMMA NewRowTyped ==
  ASSUME NEW u \in Users, NEW q \in Quarries, NEW role \in Roles, NEW by \in Users
  PROVE  LET row == AccessRow(u, q, role, by)
         IN  /\ row \in AccessRows /\ row.user = u /\ row.quarry = q
             /\ row.role = role /\ row.by = by /\ row.active = TRUE
  BY DEF AccessRow, AccessRows

-----------------------------------------------------------------------------
(* Steps of a request that commit nothing. *)

\* A request that moves without a commit keeps IInv when its new state is
\* sound and holds no key of another one.
LEMMA Moves ==
  ASSUME IInv, NEW r \in Requests, NEW to \in {Fresh, Over} \cup Placed,
         Goes(r, to), UNCHANGED <<profile, dataVars>>, Sound(to),
         \A q \in Requests : q # r =>
           Compatible(request[q], to) /\ Compatible(to, request[q])
  PROVE  IInv'
<1>1. /\ profile' = profile /\ access' = access /\ name' = name
      /\ reports' = reports /\ seeded' = seeded /\ audit' = audit
  BY DEF dataVars
<1>2. DataInv'
  BY <1>1 DEF IInv, DataInv, DataType, RowsRefer, ActiveGrantUnique, OneDemoChain,
              RowsLogged, LogRefers, DisabledLogged
<1>3. Ops' = Ops
  BY <1>1 DEF Ops
<1>4. Placed' = Placed
  BY <1>3 DEF Placed
<1>5. /\ request'[r] = to
      /\ \A q \in Requests : q # r => request'[q] = request[q]
      /\ request' \in [Requests -> {Fresh, Over} \cup Placed]
  BY DEF Goes, IInv, RequestsTyped
<1>6. RequestsTyped'
  BY <1>4, <1>5 DEF RequestsTyped
<1>7. \A u, q : ActiveRows(u, q)' = ActiveRows(u, q)
  BY <1>1 DEF ActiveRows
<1>8. AllSound'
  <2> SUFFICES ASSUME NEW q \in Requests PROVE Sound(request[q])'
    BY DEF AllSound
  <2>1. PICK x : x = request'[q] /\ Sound(x)
    BY <1>5 DEF IInv, AllSound
  <2>2. Sound(x)'
    BY <1>1, <1>7, <2>1 DEF Sound, SoundOp
  <2> QED BY <2>1, <2>2 DEF Sound, SoundOp, ActiveRows
<1>9. Apart'
  BY <1>5 DEF IInv, Apart, Compatible, SameKey
<1> QED BY <1>2, <1>6, <1>8, <1>9 DEF IInv

\* An error answer keeps IInv.
LEMMA EndInv ==
  ASSUME IInv, NEW r \in Requests, End(r)
  PROVE  IInv'
  BY OverFacts, Moves DEF End

\* Deciding what to write takes no key.
LEMMA LoadInv ==
  ASSUME IInv, NEW r \in Requests, NEW op \in Ops, request[r].at = "ready",
         Load(r, op), SoundOp(op)
  PROVE  IInv'
<1> DEFINE to == [request[r] EXCEPT !.at = "loaded", !.op = op]
<1>1. request[r] \in Placed
  BY PlacedTyped DEF IInv
<1>2. /\ to \in Placed /\ to.at = "loaded" /\ to.op = op
      /\ to.new = request[r].new /\ to.user = request[r].user
  BY <1>1 DEF Placed
<1>3. Goes(r, to) /\ UNCHANGED <<profile, dataVars>>
  BY DEF Load
<1> HIDE DEF to
<1>4. Sound(to)
  BY <1>2 DEF IInv, AllSound, Sound
<1>5. \A q \in Requests : q # r =>
        Compatible(request[q], to) /\ Compatible(to, request[q])
  BY <1>2 DEF IInv, Apart, Compatible
<1> QED BY <1>2, <1>3, <1>4, <1>5, Moves

\* First logins: the profile of a subject is inserted by one transaction.
LEMMA AuthenticateInv ==
  ASSUME IInv, NEW r \in Requests, Authenticate(r)
  PROVE  IInv'
<1>1. ASSUME NEW u \in Users, SelectProfile(r, u) PROVE IInv'
  <2>1. /\ \/ Goes(r, Request("ready", u, FALSE, NoOp))
           \/ Goes(r, Over)
           \/ Goes(r, Request("insert", u, FALSE, NoOp))
        /\ UNCHANGED <<profile, dataVars>>
    BY <1>1 DEF SelectProfile, IInv, DataInv, DataType
  <2>2. ASSUME NEW at \in {"ready", "insert"}, Goes(r, Request(at, u, FALSE, NoOp))
        PROVE  IInv'
    <3> DEFINE to == Request(at, u, FALSE, NoOp)
    <3>1. /\ to \in Placed /\ to.new = FALSE /\ to.op = NoOp
          /\ to.at # "flushed"
      BY NoOpIn DEF Request, Placed
    <3> HIDE DEF to
    <3>2. Sound(to)
      BY <3>1, NoOpIn DEF Sound
    <3>3. \A x : Compatible(x, to) /\ Compatible(to, x)
      BY <3>1 DEF Compatible
    <3> QED BY <2>1, <2>2, <3>1, <3>2, <3>3, Moves DEF to
  <2>3. CASE Goes(r, Over)
    BY <2>1, <2>3, EndInv DEF End
  <2> QED BY <2>1, <2>2, <2>3
<1>2. CASE InsertProfile(r)
  <2> DEFINE to == Request("ready", Caller(r), TRUE, NoOp)
  <2>1. /\ request[r].at = "insert" /\ profile[Caller(r)] = "absent"
        /\ \A q \in Requests : request[q].new => request[q].user # Caller(r)
        /\ Goes(r, to) /\ UNCHANGED <<profile, dataVars>>
    BY <1>2 DEF InsertProfile, Caller
  <2>2. Caller(r) \in Users
    BY <2>1, PlacedTyped DEF IInv, Caller
  <2>3. /\ to \in Placed /\ to.new = TRUE /\ to.op = NoOp /\ to.at = "ready"
        /\ to.user = Caller(r)
    BY <2>2, NoOpIn DEF Request, Placed
  <2> HIDE DEF to
  <2>4. Sound(to)
    BY <2>1, <2>3, NoOpIn DEF Sound
  <2>5. \A q \in Requests : q # r =>
          Compatible(request[q], to) /\ Compatible(to, request[q])
    BY <2>1, <2>3 DEF Compatible
  <2> QED BY <2>1, <2>3, <2>4, <2>5, Moves
<1>3. CASE InsertProfileFails(r)
  BY <1>3, EndInv DEF InsertProfileFails
<1> QED BY <1>1, <1>2, <1>3 DEF Authenticate

\* The administration handlers up to their first write.
LEMMA AdministrateInv ==
  ASSUME IInv, NEW r \in Requests, Administrate(r)
  PROVE  IInv'
<1>0. request[r].at = "ready" => Caller(r) \in Users
  BY PlacedTyped DEF IInv, Caller
<1>1. ASSUME NEW u \in Users, NEW q \in Quarries, NEW role \in Roles,
             LoadGrant(r, u, q, role)
      PROVE  IInv'
  <2> DEFINE row == AccessRow(u, q, role, Caller(r))
             op == Grant(row, TRUE)
  <2>1. request[r].at = "ready" /\ Load(r, op)
    BY <1>1 DEF LoadGrant
  <2>2. row \in AccessRows /\ row.active = TRUE
    BY <1>0, <2>1, NewRowTyped
  <2> HIDE DEF row
  <2>3. op \in Ops /\ op.do = "grant" /\ op.row = row /\ op.logged = TRUE
    BY <2>2 DEF Grant, Ops
  <2> HIDE DEF op
  <2>4. SoundOp(op)
    BY <2>2, <2>3 DEF SoundOp
  <2> QED BY <2>1, <2>3, <2>4, LoadInv
<1>2. ASSUME NEW i \in DOMAIN access, LoadRevoke(r, i) PROVE IInv'
  <2> DEFINE op == [do |-> "revoke", id |-> i]
  <2>1. request[r].at = "ready" /\ Load(r, op) /\ op \in Ops
    BY <1>2 DEF LoadRevoke, Ops
  <2>2. SoundOp(op)
    BY DEF SoundOp
  <2> QED BY <2>1, <2>2, LoadInv
<1>3. ASSUME NEW u \in Users, NEW to \in {"active", "inactive", "unset"},
             LoadUpdateUser(r, u, to)
      PROVE  IInv'
  <2> DEFINE op == Patch(u, to, "user_updated")
  <2>1. request[r].at = "ready" /\ Load(r, op) /\ profile[u] # "absent"
    BY <1>3 DEF LoadUpdateUser
  <2>2. profile[u] \in {"active", "inactive"}
    BY <2>1 DEF IInv, DataInv, DataType
  <2>3. /\ op \in Ops /\ op.do = "patch" /\ op.user = u
        /\ op.action = "user_updated"
    BY <2>2 DEF Patch, Ops
  <2>4. SoundOp(op)
    BY <2>1, <2>3 DEF SoundOp
  <2> QED BY <2>1, <2>3, <2>4, LoadInv
<1>4. ASSUME NEW u \in Users, LoadDeactivateUser(r, u) PROVE IInv'
  <2> DEFINE op == Patch(u, "inactive", "user_deactivated")
  <2>1. request[r].at = "ready" /\ Load(r, op) /\ profile[u] # "absent"
    BY <1>4 DEF LoadDeactivateUser
  <2>2. profile[u] \in {"active", "inactive"}
    BY <2>1 DEF IInv, DataInv, DataType
  <2>3. op \in Ops /\ op.do = "patch" /\ op.user = u /\ op.to = "inactive"
    BY <2>2 DEF Patch, Ops
  <2>4. SoundOp(op)
    BY <2>1, <2>3 DEF SoundOp
  <2> QED BY <2>1, <2>3, <2>4, LoadInv
<1>5. ASSUME NEW n \in Names, LoadCreateQuarry(r, n) PROVE IInv'
  <2> DEFINE op == [do |-> "create", to |-> n]
  <2>1. request[r].at = "ready" /\ Load(r, op) /\ op \in Ops
    BY <1>5 DEF LoadCreateQuarry, Ops
  <2>2. SoundOp(op)
    BY DEF SoundOp
  <2> QED BY <2>1, <2>2, LoadInv
<1>6. ASSUME NEW q \in Quarries, NEW n \in Names, LoadUpdateQuarry(r, q, n)
      PROVE  IInv'
  <2> DEFINE op == [do |-> "rename", quarry |-> q, seen |-> name[q], to |-> n]
  <2>1. /\ request[r].at = "ready" /\ Load(r, op)
        /\ ActiveRows(Caller(r), q) # {}
    BY <1>6 DEF LoadUpdateQuarry
  <2>2. name[q] # "absent"
    BY <2>1 DEF ActiveRows, IInv, DataInv, RowsRefer
  <2>3. name[q] \in Names
    BY <2>2 DEF IInv, DataInv, DataType
  <2>4. op \in Ops
    BY <2>3 DEF Ops
  <2>5. SoundOp(op)
    BY DEF SoundOp
  <2> QED BY <2>1, <2>4, <2>5, LoadInv
<1>7. CASE NotAdmin(r)
  BY <1>7, EndInv DEF NotAdmin
<1> QED BY <1>1, <1>2, <1>3, <1>4, <1>5, <1>6, <1>7 DEF Administrate

\* dev_seed up to its first write.
LEMMA SeedInv ==
  ASSUME IInv, NEW r \in Requests, Seed(r)
  PROVE  IInv'
<1>1. CASE SeedBreaks(r)
  BY <1>1, EndInv DEF SeedBreaks
<1>2. CASE SeedAgain(r)
  <2>1. PICK q \in Quarries :
          Load(r, IF ActiveRows(Caller(r), q) # {} THEN NoOp
                  ELSE Grant(AccessRow(Caller(r), q, "admin", Caller(r)), FALSE))
    BY <1>2 DEF SeedAgain
  <2>2. request[r].at = "ready" /\ Caller(r) \in Users
    BY <1>2, PlacedTyped DEF SeedAgain, IInv, Caller
  <2>3. CASE Load(r, NoOp)
    BY <2>2, <2>3, NoOpIn, LoadInv
  <2>4. ASSUME Load(r, Grant(AccessRow(Caller(r), q, "admin", Caller(r)), FALSE))
        PROVE  IInv'
    <3> DEFINE row == AccessRow(Caller(r), q, "admin", Caller(r))
               op == Grant(row, FALSE)
    <3>1. /\ row \in AccessRows /\ row.active = TRUE
          /\ row.by = row.user /\ row.role = "admin"
      <4>1. "admin" \in Roles
        BY DEF Roles
      <4>2. PICK u : u = Caller(r) /\ u \in Users
        BY <2>2
      <4> HIDE DEF row
      <4>3. row = AccessRow(u, q, "admin", u)
        BY <4>2 DEF row
      <4> QED BY <4>1, <4>2, <4>3 DEF AccessRow, AccessRows
    <3> HIDE DEF row
    <3>2. op \in Ops /\ op.do = "grant" /\ op.row = row
      BY <3>1 DEF Grant, Ops
    <3> HIDE DEF op
    <3>3. SoundOp(op)
      BY <3>1, <3>2 DEF SoundOp
    <3> QED BY <2>2, <2>4, <3>2, <3>3, LoadInv DEF op, row
  <2> QED BY <2>1, <2>3, <2>4
<1>3. CASE SeedFirst(r)
  <2> DEFINE op == [do |-> "build"]
  <2>1. request[r].at = "ready" /\ Load(r, op) /\ op \in Ops
    BY <1>3 DEF SeedFirst, Ops
  <2>2. SoundOp(op)
    BY DEF SoundOp
  <2> QED BY <2>1, <2>2, LoadInv
<1> QED BY <1>1, <1>2, <1>3 DEF Seed

\* The INSERT under a unique key gives the key to one transaction.
LEMMA FlushInv ==
  ASSUME IInv, NEW r \in Requests, Flush(r)
  PROVE  IInv'
<1> DEFINE to == [request[r] EXCEPT !.at = "flushed"]
<1>1. ASSUME request[r].at = "loaded"
      PROVE  /\ to \in Placed /\ to.at = "flushed" /\ to.op = request[r].op
             /\ to.new = request[r].new /\ to.user = request[r].user
  <2>1. request[r] \in Placed
    BY <1>1, PlacedTyped DEF IInv
  <2> QED BY <2>1 DEF Placed
<1> HIDE DEF to
<1>2. CASE FlushGrant(r)
  <2>1. /\ request[r].at = "loaded" /\ request[r].op.do = "grant"
        /\ LET row == request[r].op.row
           IN  /\ ActiveRows(row.user, row.quarry) = {}
               /\ name[row.quarry] # "absent"
               /\ \A q \in Requests :
                    request[q].at = "flushed" /\ request[q].op.do = "grant" =>
                      ~SameKey(row, request[q].op.row)
        /\ Goes(r, to) /\ UNCHANGED <<profile, dataVars>>
    BY <1>2 DEF FlushGrant, Doing, Referenced, to
  <2>2. Sound(to)
    BY <1>1, <2>1 DEF IInv, AllSound, Sound
  <2>3. \A q \in Requests : q # r =>
          Compatible(request[q], to) /\ Compatible(to, request[q])
    BY <1>1, <2>1 DEF IInv, Apart, Compatible, SameKey
  <2> QED BY <1>1, <2>1, <2>2, <2>3, Moves
<1>3. CASE FlushBuild(r)
  <2>1. /\ request[r].at = "loaded" /\ request[r].op.do = "build"
        /\ seeded = {}
        /\ \A q \in Requests :
             ~(request[q].at = "flushed" /\ request[q].op.do = "build")
        /\ Goes(r, to) /\ UNCHANGED <<profile, dataVars>>
    BY <1>3 DEF FlushBuild, Doing, to
  <2>2. Sound(to)
    BY <1>1, <2>1 DEF IInv, AllSound, Sound
  <2>3. \A q \in Requests : q # r =>
          Compatible(request[q], to) /\ Compatible(to, request[q])
    BY <1>1, <2>1 DEF IInv, Apart, Compatible
  <2> QED BY <1>1, <2>1, <2>2, <2>3, Moves
<1>4. CASE FlushGrantFails(r) \/ FlushBuildFails(r)
  BY <1>4, EndInv DEF FlushGrantFails, FlushBuildFails
<1> QED BY <1>2, <1>3, <1>4 DEF Flush

-----------------------------------------------------------------------------
(* What a commit does to the data. *)

\* The rows after one more is committed.
LEMMA AppendedRow ==
  ASSUME access \in Seq(AccessRows), NEW row \in AccessRows,
         access' = Append(access, row)
  PROVE  /\ access' \in Seq(AccessRows)
         /\ Len(access) \in Nat
         /\ DOMAIN access' = DOMAIN access \cup {Len(access) + 1}
         /\ Len(access) + 1 \notin DOMAIN access
         /\ access'[Len(access) + 1] = row
         /\ \A i \in DOMAIN access : access'[i] = access[i]
  OBVIOUS

\* An appended row is active for its own user and quarry only.
LEMMA AppendedActive ==
  ASSUME access \in Seq(AccessRows), NEW row \in AccessRows, row.active,
         access' = Append(access, row), NEW u, NEW q
  PROVE  ActiveRows(u, q)' =
           IF row.user = u /\ row.quarry = q
           THEN ActiveRows(u, q) \cup {Len(access) + 1} ELSE ActiveRows(u, q)
<1>1. /\ DOMAIN access' = DOMAIN access \cup {Len(access) + 1}
      /\ Len(access) + 1 \notin DOMAIN access
      /\ access'[Len(access) + 1] = row
      /\ \A i \in DOMAIN access : access'[i] = access[i]
  BY AppendedRow
<1> QED BY <1>1 DEF ActiveRows

\* A sequence with one element replaced keeps its type.
LEMMA ReplacedIn ==
  ASSUME NEW S, NEW s \in Seq(S), NEW i \in DOMAIN s, NEW e \in S,
         NEW t, t = [s EXCEPT ![i] = e]
  PROVE  t \in Seq(S) /\ DOMAIN t = DOMAIN s
<1>1. s \in [1..Len(s) -> S] /\ Len(s) \in Nat
  BY LenProperties
<1>2. t \in [1..Len(s) -> S]
  BY <1>1
<1> QED BY <1>1, <1>2, SeqDef

\* The rows after one is revoked.
LEMMA RevokedRow ==
  ASSUME access \in Seq(AccessRows), NEW i \in DOMAIN access,
         access' = [access EXCEPT ![i].active = FALSE]
  PROVE  /\ access' \in Seq(AccessRows)
         /\ DOMAIN access' = DOMAIN access
         /\ access'[i].active = FALSE
         /\ \A j \in DOMAIN access :
              /\ j # i => access'[j] = access[j]
              /\ access'[j].user = access[j].user
              /\ access'[j].quarry = access[j].quarry
              /\ access'[j].role = access[j].role
              /\ access'[j].by = access[j].by
<1> DEFINE row == [access[i] EXCEPT !.active = FALSE]
<1>1. access[i] \in AccessRows
  OBVIOUS
<1>2. /\ row \in AccessRows /\ row.active = FALSE
      /\ row.user = access[i].user /\ row.quarry = access[i].quarry
      /\ row.role = access[i].role /\ row.by = access[i].by
  BY <1>1 DEF AccessRows
<1>3. access' = [access EXCEPT ![i] = row]
  OBVIOUS
<1> HIDE DEF row
<1>4. access' \in Seq(AccessRows) /\ DOMAIN access' = DOMAIN access
  <2>1. \A S, s, j, e, t :
          s \in Seq(S) /\ j \in DOMAIN s /\ e \in S /\ t = [s EXCEPT ![j] = e] =>
            t \in Seq(S) /\ DOMAIN t = DOMAIN s
    BY ReplacedIn
  <2> QED BY <1>2, <1>3, <2>1, Zenon
<1>5. access'[i] = row /\ \A j \in DOMAIN access : j # i => access'[j] = access[j]
  BY <1>3
<1> QED BY <1>2, <1>4, <1>5

\* A revocation takes one row out of the active ones.
LEMMA RevokedActive ==
  ASSUME access \in Seq(AccessRows), NEW i \in DOMAIN access,
         access' = [access EXCEPT ![i].active = FALSE], NEW u, NEW q
  PROVE  ActiveRows(u, q)' = ActiveRows(u, q) \ {i}
<1>1. /\ DOMAIN access' = DOMAIN access /\ access'[i].active = FALSE
      /\ \A j \in DOMAIN access :
           /\ j # i => access'[j] = access[j]
           /\ access'[j].user = access[j].user
           /\ access'[j].quarry = access[j].quarry
  BY RevokedRow
<1> QED BY <1>1, Zenon DEF ActiveRows

\* A commit makes a profile of the caller's, if the request has inserted it.
LEMMA CommitProfile ==
  ASSUME IInv, NEW r \in Requests,
         request[r].at \in {"ready", "loaded", "flushed"}, Commit(r)
  PROVE  /\ Goes(r, Over)
         /\ profile' \in [Users -> {"absent", "active", "inactive"}]
         /\ \A u \in Users :
              profile[u] # "absent" => profile'[u] = profile[u]
         /\ \A u \in Users :
              profile'[u] # profile[u] =>
                request[r].new /\ request[r].user = u /\ profile'[u] = "active"
<1>1. profile \in [Users -> {"absent", "active", "inactive"}]
  BY DEF IInv, DataInv, DataType
<1>2. request[r].user \in Users
  BY PlacedTyped DEF IInv
<1>3. CASE request[r].new
  <2>1. profile[request[r].user] = "absent"
    BY <1>3 DEF IInv, AllSound, Sound
  <2>2. profile' = [profile EXCEPT ![request[r].user] = "active"]
    BY <1>3 DEF Commit, Caller
  <2> QED BY <1>1, <1>2, <1>3, <2>1, <2>2 DEF Commit
<1>4. CASE ~request[r].new
  <2>1. profile' = profile
    BY <1>4 DEF Commit
  <2> QED BY <1>1, <2>1 DEF Commit
<1> QED BY <1>3, <1>4

\* The other transactions keep what they hold when one commits.
LEMMA OthersKeep ==
  ASSUME IInv, NEW r \in Requests, Goes(r, Over),
         DOMAIN access \subseteq DOMAIN access',
         \A u \in Users : profile[u] # "absent" => profile'[u] # "absent",
         \A u \in Users :
           profile[u] = "absent" /\ profile'[u] # "absent" =>
             request[r].new /\ request[r].user = u,
         \A q \in Quarries : name[q] # "absent" => name'[q] # "absent",
         \A q \in Requests :
           q # r /\ Doing(q, "flushed", "grant") =>
             ActiveRows(request[q].op.row.user, request[q].op.row.quarry)' = {},
         \A q \in Requests :
           q # r /\ Doing(q, "flushed", "build") => seeded' = {}
  PROVE  RequestsTyped' /\ AllSound' /\ Apart'
<1>1. /\ request'[r] = Over
      /\ \A q \in Requests : q # r => request'[q] = request[q]
      /\ request' \in [Requests -> {Fresh, Over} \cup Placed]
  BY DEF Goes, IInv, RequestsTyped
<1>2. Ops \subseteq Ops'
  BY DEF Ops
<1>3. Placed \subseteq Placed'
  BY <1>2 DEF Placed
<1>4. RequestsTyped'
  BY <1>1, <1>3 DEF RequestsTyped
<1>5. Apart'
  BY <1>1, OverFacts DEF IInv, Apart, Compatible, SameKey
<1>6. AllSound'
  <2> SUFFICES ASSUME NEW q \in Requests PROVE Sound(request[q])'
    BY DEF AllSound
  <2>1. CASE q = r
    <3>1. /\ request'[q].at = "over" /\ request'[q].new = FALSE
          /\ request'[q].op.do = "nothing"
      BY <1>1, <2>1, OverFacts, NoOpIn
    <3> QED BY <3>1 DEF Sound, SoundOp
  <2>2. CASE q # r
    <3>0. PICK x : x = request[q] /\ x = request'[q] /\ Sound(x)
      BY <1>1, <2>2 DEF IInv, AllSound
    <3>1. x = Fresh \/ x = Over \/ x \in Placed
      BY <3>0 DEF IInv, RequestsTyped
    <3>2. CASE x = Fresh \/ x = Over
      <4>1. x.at \in {"new", "over"} /\ x.new = FALSE /\ x.op.do = "nothing"
        BY <3>2, NoOpIn DEF Fresh, Over, Request
      <4> QED BY <3>0, <4>1 DEF Sound, SoundOp
    <3>3. CASE x \in Placed
      <4>1. x.user \in Users /\ x.op \in Ops
        BY <3>3 DEF Placed
      <4>2. x.op.do = "patch" => profile'[x.op.user] # "absent"
        BY <3>0, <4>1, OpsTyped DEF Sound, SoundOp
      <4>3. x.new => profile'[x.user] = "absent"
        <5> SUFFICES ASSUME x.new, profile'[x.user] # "absent" PROVE FALSE
          OBVIOUS
        <5>1. profile[x.user] = "absent"
          BY <3>0 DEF Sound
        <5>2. request[r].new /\ request[r].user = x.user
          BY <4>1, <5>1
        <5> QED BY <2>2, <3>0, <5>2 DEF IInv, Apart, Compatible
      <4>4. SoundOp(x.op)'
        BY <3>0, <4>2 DEF Sound, SoundOp
      <4>5. x.at = "flushed" /\ x.op.do = "grant" =>
              /\ ActiveRows(x.op.row.user, x.op.row.quarry)' = {}
              /\ name'[x.op.row.quarry] # "absent"
        <5> SUFFICES ASSUME x.at = "flushed", x.op.do = "grant"
                     PROVE  /\ ActiveRows(x.op.row.user, x.op.row.quarry)' = {}
                            /\ name'[x.op.row.quarry] # "absent"
          OBVIOUS
        <5>1. x.op.row.quarry \in Quarries
          BY <4>1, OpsTyped, RowsTyped
        <5>2. name[x.op.row.quarry] # "absent"
          BY <3>0 DEF Sound
        <5> QED BY <2>2, <3>0, <5>1, <5>2 DEF Doing, ActiveRows
      <4>6. x.at = "flushed" /\ x.op.do = "build" => seeded' = {}
        BY <2>2, <3>0 DEF Doing
      <4> QED BY <3>0, <4>3, <4>4, <4>5, <4>6 DEF Sound, SoundOp, ActiveRows
    <3> QED BY <3>1, <3>2, <3>3
  <2> QED BY <2>1, <2>2
<1> QED BY <1>4, <1>5, <1>6

\* A row under a key that nobody has, logged or of the caller's own.
LEMMA RowAdded ==
  ASSUME DataInv, NEW row \in AccessRows, row.active,
         access' = Append(access, row),
         \A q \in Quarries : name[q] # "absent" => name'[q] # "absent",
         name'[row.quarry] # "absent",
         ActiveRows(row.user, row.quarry) = {},
         audit \subseteq audit',
         \A i \in Nat : <<"role_assigned", i>> \in audit' =>
           <<"role_assigned", i>> \in audit \/ i = Len(access) + 1,
         \/ <<"role_assigned", Len(access) + 1>> \in audit'
         \/ row.by = row.user /\ row.role = "admin"
  PROVE  RowsRefer' /\ ActiveGrantUnique' /\ RowsLogged' /\ LogRefers'
<1>0. access \in Seq(AccessRows)
  BY DEF DataInv, DataType
<1>1. /\ DOMAIN access' = DOMAIN access \cup {Len(access) + 1}
      /\ Len(access) + 1 \notin DOMAIN access
      /\ access'[Len(access) + 1] = row
      /\ \A i \in DOMAIN access : access'[i] = access[i]
  BY <1>0, AppendedRow
<1>2. \A i \in DOMAIN access : access[i].quarry \in Quarries
  BY <1>0, RowsTyped
<1>3. RowsRefer'
  BY <1>1, <1>2 DEF DataInv, RowsRefer
<1>4. ActiveGrantUnique'
  <2> SUFFICES ASSUME NEW i \in DOMAIN access', NEW j \in DOMAIN access',
                      access'[i].active, access'[j].active,
                      SameKey(access'[i], access'[j])
               PROVE  i = j
    BY DEF ActiveGrantUnique, SameKey
  <2>1. \A k \in DOMAIN access : access[k].active => ~SameKey(access[k], row)
    BY DEF ActiveRows, SameKey
  <2>2. CASE i \in DOMAIN access /\ j \in DOMAIN access
    BY <1>1, <2>2 DEF DataInv, ActiveGrantUnique
  <2>3. CASE i \in DOMAIN access /\ j = Len(access) + 1
    BY <1>1, <2>1, <2>3
  <2>4. CASE i = Len(access) + 1 /\ j \in DOMAIN access
    BY <1>1, <2>1, <2>4 DEF SameKey
  <2> QED BY <1>1, <2>2, <2>3, <2>4
<1>5. RowsLogged'
  BY <1>1 DEF DataInv, RowsLogged
<1>6. LogRefers'
  BY <1>1 DEF DataInv, LogRefers
<1> QED BY <1>3, <1>4, <1>5, <1>6

\* The chain stays when rows and reports only become more.
LEMMA ChainKept ==
  ASSUME DataInv, seeded' = seeded,
         DOMAIN access \subseteq DOMAIN access',
         \A i \in DOMAIN access :
           /\ access'[i].quarry = access[i].quarry
           /\ access'[i].role = access[i].role
           /\ access'[i].by = access[i].by
           /\ access'[i].user = access[i].user,
         \A q \in Quarries : name[q] # "absent" => name'[q] # "absent",
         \A q \in Quarries : reports[q] > 0 => reports'[q] > 0
  PROVE  OneDemoChain'
<1>1. seeded \subseteq Quarries
  BY DEF DataInv, DataType
<1>2. \A p, q \in seeded' : p = q
  BY DEF DataInv, OneDemoChain
<1>3. ASSUME NEW q \in seeded
      PROVE  /\ name'[q] # "absent" /\ reports'[q] > 0
             /\ \E i \in DOMAIN access' :
                  /\ access'[i].quarry = q /\ access'[i].role = "admin"
                  /\ access'[i].by = access'[i].user
  <2>1. PICK i \in DOMAIN access :
          /\ access[i].quarry = q /\ access[i].role = "admin"
          /\ access[i].by = access[i].user
    BY DEF DataInv, OneDemoChain
  <2>2. name'[q] # "absent" /\ reports'[q] > 0
    BY <1>1 DEF DataInv, OneDemoChain
  <2> QED BY <2>1, <2>2
<1> QED BY <1>2, <1>3 DEF OneDemoChain

\* grant_access and the grant of dev_seed: the key was held until now.
LEMMA CommitGrantInv ==
  ASSUME IInv, NEW r \in Requests, CommitGrant(r)
  PROVE  IInv'
<1> DEFINE row == request[r].op.row
           id == Len(access) + 1
<1>1. /\ request[r].at = "flushed" /\ request[r].op.do = "grant"
      /\ access' = Append(access, row) /\ Commit(r)
      /\ audit' = IF request[r].op.logged
                  THEN audit \cup {<<"role_assigned", id>>} ELSE audit
      /\ name' = name /\ reports' = reports /\ seeded' = seeded
  BY DEF CommitGrant, Doing
<1>2. row \in AccessRows
  BY <1>1, PlacedTyped, OpsTyped DEF IInv
<1>3. /\ row.active /\ ActiveRows(row.user, row.quarry) = {}
      /\ name[row.quarry] # "absent"
      /\ request[r].op.logged \/ (row.by = row.user /\ row.role = "admin")
  BY <1>1 DEF IInv, AllSound, Sound, SoundOp
<1> HIDE DEF row
<1>4. /\ audit \subseteq audit'
      /\ \A i \in Nat : <<"role_assigned", i>> \in audit' =>
           <<"role_assigned", i>> \in audit \/ i = id
      /\ \/ <<"role_assigned", id>> \in audit'
         \/ row.by = row.user /\ row.role = "admin"
  BY <1>1, <1>3
<1>5. /\ Goes(r, Over)
      /\ profile' \in [Users -> {"absent", "active", "inactive"}]
      /\ \A u \in Users : profile[u] # "absent" => profile'[u] = profile[u]
      /\ \A u \in Users :
           profile'[u] # profile[u] =>
             request[r].new /\ request[r].user = u /\ profile'[u] = "active"
  BY <1>1, CommitProfile
<1>6. access \in Seq(AccessRows)
  BY DEF IInv, DataInv, DataType
<1>7. /\ access' \in Seq(AccessRows)
      /\ DOMAIN access \subseteq DOMAIN access'
      /\ \A i \in DOMAIN access : access'[i] = access[i]
  BY <1>1, <1>2, <1>6, AppendedRow
<1>8. RowsRefer' /\ ActiveGrantUnique' /\ RowsLogged' /\ LogRefers'
  BY <1>1, <1>2, <1>3, <1>4, RowAdded DEF IInv
<1>9. OneDemoChain'
  BY <1>1, <1>7, ChainKept DEF IInv
<1>10. DataType' /\ DisabledLogged'
  BY <1>1, <1>4, <1>5, <1>7 DEF IInv, DataInv, DataType, DisabledLogged
<1>11. ASSUME NEW q \in Requests, q # r, Doing(q, "flushed", "grant")
       PROVE  ActiveRows(request[q].op.row.user, request[q].op.row.quarry)' = {}
  <2>1. PICK other : other = request[q].op.row /\ other = request'[q].op.row
    BY <1>5, <1>11 DEF Goes, IInv, RequestsTyped
  <2>2. ActiveRows(other.user, other.quarry) = {}
    BY <1>11, <2>1 DEF Doing, IInv, AllSound, Sound
  <2>3. ~SameKey(row, other)
    BY <1>1, <1>11, <2>1 DEF Doing, IInv, Apart, Compatible, row
  <2>4. ActiveRows(other.user, other.quarry)' = {}
    BY <1>1, <1>2, <1>3, <1>6, <2>2, <2>3, AppendedActive DEF SameKey
  <2> QED BY <2>1, <2>4 DEF ActiveRows
<1>12. \A q \in Requests :
         q # r /\ Doing(q, "flushed", "build") => seeded' = {}
  BY <1>1 DEF Doing, IInv, AllSound, Sound
<1>13. RequestsTyped' /\ AllSound' /\ Apart'
  BY <1>1, <1>5, <1>7, <1>11, <1>12, OthersKeep
<1> QED BY <1>8, <1>9, <1>10, <1>13 DEF IInv, DataInv

\* The commit of the demo chain: its device was inserted by no other.
LEMMA CommitBuildInv ==
  ASSUME IInv, NEW r \in Requests, NEW q \in Quarries, CommitBuild(r, q)
  PROVE  IInv'
<1> DEFINE row == AccessRow(Caller(r), q, "admin", Caller(r))
           id == Len(access) + 1
<1>1. /\ request[r].at = "flushed" /\ request[r].op.do = "build"
      /\ name[q] = "absent" /\ name' = [name EXCEPT ![q] = "demo"]
      /\ reports' = [reports EXCEPT ![q] = 1]
      /\ seeded' = seeded \cup {q}
      /\ access' = Append(access, row) /\ Commit(r) /\ audit' = audit
  BY DEF CommitBuild, Doing
<1>2. Caller(r) \in Users
  BY <1>1, PlacedTyped DEF IInv, Caller
<1>3. /\ row \in AccessRows /\ row.active = TRUE /\ row.quarry = q
      /\ row.by = row.user /\ row.role = "admin"
  BY <1>2 DEF AccessRow, AccessRows, Roles
<1> HIDE DEF row
<1>4. /\ name \in [Quarries -> Names \cup {"absent"}]
      /\ reports \in [Quarries -> 0..2] /\ seeded \subseteq Quarries
      /\ access \in Seq(AccessRows)
  BY DEF IInv, DataInv, DataType
<1>5. seeded = {}
  BY <1>1 DEF IInv, AllSound, Sound
<1>6. \A u : ActiveRows(u, q) = {}
  BY <1>1 DEF ActiveRows, IInv, DataInv, RowsRefer
<1>7. /\ name' \in [Quarries -> Names \cup {"absent"}] /\ name'[q] = "demo"
      /\ \A p \in Quarries : name[p] # "absent" => name'[p] # "absent"
  BY <1>1, <1>4 DEF Names
<1>8. /\ Goes(r, Over)
      /\ profile' \in [Users -> {"absent", "active", "inactive"}]
      /\ \A u \in Users : profile[u] # "absent" => profile'[u] = profile[u]
      /\ \A u \in Users :
           profile'[u] # profile[u] =>
             request[r].new /\ request[r].user = u /\ profile'[u] = "active"
  BY <1>1, CommitProfile
<1>9. /\ access' \in Seq(AccessRows)
      /\ DOMAIN access' = DOMAIN access \cup {id}
      /\ access'[id] = row
  BY <1>1, <1>3, <1>4, AppendedRow
<1>10. RowsRefer' /\ ActiveGrantUnique' /\ RowsLogged' /\ LogRefers'
  BY <1>1, <1>3, <1>6, <1>7, RowAdded DEF IInv
<1>11. reports' \in [Quarries -> 0..2] /\ reports'[q] = 1
  BY <1>1, <1>4
<1>12. OneDemoChain'
  <2>1. \A p \in seeded' : p = q
    BY <1>1, <1>5
  <2>2. id \in DOMAIN access'
    BY <1>9
  <2> QED BY <1>3, <1>7, <1>9, <1>11, <2>1, <2>2 DEF OneDemoChain
<1>13. DataType' /\ DisabledLogged'
  BY <1>1, <1>4, <1>7, <1>8, <1>9, <1>11
     DEF IInv, DataInv, DataType, DisabledLogged
<1>14. ASSUME NEW p \in Requests, p # r, Doing(p, "flushed", "grant")
       PROVE  ActiveRows(request[p].op.row.user, request[p].op.row.quarry)' = {}
  <2>1. PICK other : other = request[p].op.row /\ other = request'[p].op.row
    BY <1>8, <1>14 DEF Goes, IInv, RequestsTyped
  <2>2. /\ ActiveRows(other.user, other.quarry) = {}
        /\ name[other.quarry] # "absent"
    BY <1>14, <2>1 DEF Doing, IInv, AllSound, Sound
  <2>3. other.quarry # q
    BY <1>1, <2>2
  <2>4. ActiveRows(other.user, other.quarry)' = {}
    BY <1>1, <1>3, <1>4, <2>2, <2>3, AppendedActive
  <2> QED BY <2>1, <2>4 DEF ActiveRows
<1>15. \A p \in Requests : p # r => ~Doing(p, "flushed", "build")
  BY <1>1 DEF Doing, IInv, Apart, Compatible
<1>16. RequestsTyped' /\ AllSound' /\ Apart'
  <2>1. /\ DOMAIN access \subseteq DOMAIN access'
        /\ \A u \in Users : profile[u] # "absent" => profile'[u] # "absent"
        /\ \A u \in Users :
             profile[u] = "absent" /\ profile'[u] # "absent" =>
               request[r].new /\ request[r].user = u
    BY <1>8, <1>9
  <2> QED BY <1>7, <1>8, <1>14, <1>15, <2>1, OthersKeep
<1> QED BY <1>10, <1>12, <1>13, <1>16 DEF IInv, DataInv

\* A revocation is logged with the row it ends.
LEMMA CommitRevokeInv ==
  ASSUME IInv, NEW r \in Requests, CommitRevoke(r)
  PROVE  IInv'
<1> DEFINE i == request[r].op.id
<1>1. /\ request[r].at = "loaded" /\ request[r].op.do = "revoke"
      /\ access' = [access EXCEPT ![i].active = FALSE] /\ Commit(r)
      /\ audit' = audit \cup {<<"role_revoked", i>>}
      /\ name' = name /\ reports' = reports /\ seeded' = seeded
  BY DEF CommitRevoke, Doing
<1>2. i \in DOMAIN access
  BY <1>1, PlacedTyped, OpsTyped DEF IInv
<1> HIDE DEF i
<1>3. access \in Seq(AccessRows)
  BY DEF IInv, DataInv, DataType
<1>4. /\ access' \in Seq(AccessRows)
      /\ DOMAIN access' = DOMAIN access
      /\ access'[i].active = FALSE
      /\ \A j \in DOMAIN access :
           /\ j # i => access'[j] = access[j]
           /\ access'[j].user = access[j].user
           /\ access'[j].quarry = access[j].quarry
           /\ access'[j].role = access[j].role
           /\ access'[j].by = access[j].by
  BY <1>1, <1>2, <1>3, RevokedRow
<1>5. /\ Goes(r, Over)
      /\ profile' \in [Users -> {"absent", "active", "inactive"}]
      /\ \A u \in Users : profile[u] # "absent" => profile'[u] = profile[u]
      /\ \A u \in Users :
           profile'[u] # profile[u] =>
             request[r].new /\ request[r].user = u /\ profile'[u] = "active"
  BY <1>1, CommitProfile
<1>6. RowsRefer'
  BY <1>1, <1>4 DEF IInv, DataInv, RowsRefer
<1>7. ActiveGrantUnique'
  <2>1. \A j \in DOMAIN access' : access'[j].active => access'[j] = access[j]
    BY <1>4
  <2> QED BY <1>4, <2>1 DEF IInv, DataInv, ActiveGrantUnique, SameKey
<1>8. RowsLogged'
  <2> SUFFICES ASSUME NEW j \in DOMAIN access
               PROVE  /\ access'[j].active \/ <<"role_revoked", j>> \in audit'
                      /\ \/ <<"role_assigned", j>> \in audit'
                         \/ /\ access'[j].by = access'[j].user
                            /\ access'[j].role = "admin"
    BY <1>4 DEF RowsLogged
  <2>1. access'[j].active \/ <<"role_revoked", j>> \in audit'
    <3>1. CASE j = i
      BY <1>1, <3>1
    <3>2. CASE j # i
      BY <1>1, <1>4, <3>2 DEF IInv, DataInv, RowsLogged
    <3> QED BY <3>1, <3>2
  <2>2. \/ <<"role_assigned", j>> \in audit
        \/ access[j].by = access[j].user /\ access[j].role = "admin"
    BY DEF IInv, DataInv, RowsLogged
  <2> QED BY <1>1, <1>4, <2>1, <2>2
<1>9. LogRefers'
  BY <1>1, <1>4 DEF IInv, DataInv, LogRefers
<1>10. OneDemoChain'
  BY <1>1, <1>4, ChainKept DEF IInv
<1>11. DataType' /\ DisabledLogged'
  BY <1>1, <1>4, <1>5 DEF IInv, DataInv, DataType, DisabledLogged
<1>12. ASSUME NEW q \in Requests, q # r, Doing(q, "flushed", "grant")
       PROVE  ActiveRows(request[q].op.row.user, request[q].op.row.quarry)' = {}
  <2>1. PICK other : other = request[q].op.row /\ other = request'[q].op.row
    BY <1>5, <1>12 DEF Goes, IInv, RequestsTyped
  <2>2. ActiveRows(other.user, other.quarry) = {}
    BY <1>12, <2>1 DEF Doing, IInv, AllSound, Sound
  <2>3. PICK u, k : u = other.user /\ k = other.quarry
    OBVIOUS
  <2>4. ActiveRows(u, k)' = ActiveRows(u, k) \ {i}
    BY <1>1, <1>2, <1>3, RevokedActive
  <2>5. ActiveRows(u, k)' = {}
    BY <2>2, <2>3, <2>4
  <2> QED BY <2>1, <2>3, <2>5 DEF ActiveRows
<1>13. \A q \in Requests :
         q # r /\ Doing(q, "flushed", "build") => seeded' = {}
  BY <1>1 DEF Doing, IInv, AllSound, Sound
<1>14. RequestsTyped' /\ AllSound' /\ Apart'
  <2>1. /\ \A u \in Users : profile[u] # "absent" => profile'[u] # "absent"
        /\ \A u \in Users :
             profile[u] = "absent" /\ profile'[u] # "absent" =>
               request[r].new /\ request[r].user = u
    BY <1>5
  <2> QED BY <1>1, <1>4, <1>5, <1>12, <1>13, <2>1, OthersKeep
<1> QED BY <1>6, <1>7, <1>8, <1>9, <1>10, <1>11, <1>14 DEF IInv, DataInv

\* Commits that leave the access rows and the chain alone.
LEMMA QuietCommit ==
  ASSUME IInv, NEW r \in Requests, Goes(r, Over),
         access' = access, reports' = reports, seeded' = seeded,
         audit \subseteq audit',
         \A i \in Nat :
           <<"role_assigned", i>> \in audit' => <<"role_assigned", i>> \in audit,
         name' \in [Quarries -> Names \cup {"absent"}],
         \A q \in Quarries : name[q] # "absent" => name'[q] # "absent",
         profile' \in [Users -> {"absent", "active", "inactive"}],
         \A u \in Users : profile[u] # "absent" => profile'[u] # "absent",
         \A u \in Users :
           profile[u] = "absent" /\ profile'[u] # "absent" =>
             request[r].new /\ request[r].user = u,
         DisabledLogged'
  PROVE  IInv'
<1>0. access \in Seq(AccessRows)
  BY DEF IInv, DataInv, DataType
<1>1. \A u, q : ActiveRows(u, q)' = ActiveRows(u, q)
  BY DEF ActiveRows
<1>2. \A i \in DOMAIN access : access[i].quarry \in Quarries
  BY <1>0, RowsTyped
<1>3. DataType' /\ RowsRefer'
  BY <1>2 DEF IInv, DataInv, DataType, RowsRefer
<1>4. ActiveGrantUnique' /\ RowsLogged' /\ LogRefers'
  BY DEF IInv, DataInv, ActiveGrantUnique, RowsLogged, LogRefers
<1>5. OneDemoChain'
  BY ChainKept DEF IInv
<1>6. ASSUME NEW q \in Requests, q # r, Doing(q, "flushed", "grant")
      PROVE  ActiveRows(request[q].op.row.user, request[q].op.row.quarry)' = {}
  <2>1. request'[q] = request[q]
    BY <1>6 DEF Goes, IInv, RequestsTyped
  <2>2. ActiveRows(request[q].op.row.user, request[q].op.row.quarry) = {}
    BY <1>6 DEF Doing, IInv, AllSound, Sound
  <2> QED BY <2>1, <2>2 DEF ActiveRows
<1>7. \A q \in Requests :
        q # r /\ Doing(q, "flushed", "build") => seeded' = {}
  BY DEF Doing, IInv, AllSound, Sound
<1>8. RequestsTyped' /\ AllSound' /\ Apart'
  BY <1>6, <1>7, OthersKeep
<1> QED BY <1>3, <1>4, <1>5, <1>8 DEF IInv, DataInv

\* update_user and deactivate_user log what they disable.
LEMMA CommitPatchInv ==
  ASSUME IInv, NEW r \in Requests, CommitPatch(r)
  PROVE  IInv'
<1> DEFINE op == request[r].op
<1>1. /\ request[r].at = "loaded" /\ op.do = "patch" /\ Goes(r, Over)
      /\ profile' = IF op.to \in {"unset", op.seen} THEN profile
                    ELSE [profile EXCEPT ![op.user] = op.to]
      /\ audit' = audit \cup {<<op.action, op.user>>}
      /\ access' = access /\ name' = name /\ reports' = reports
      /\ seeded' = seeded
  BY DEF CommitPatch, Doing
<1>2. /\ op.user \in Users /\ op.to \in {"active", "inactive", "unset"}
      /\ op.action \in {"user_updated", "user_deactivated"}
  BY <1>1, PlacedTyped, OpsTyped DEF IInv
<1>3. profile[op.user] # "absent"
  BY <1>1 DEF IInv, AllSound, Sound, SoundOp
<1> HIDE DEF op
<1>4. /\ profile \in [Users -> {"absent", "active", "inactive"}]
      /\ name \in [Quarries -> Names \cup {"absent"}]
  BY DEF IInv, DataInv, DataType
<1>5. /\ profile' \in [Users -> {"absent", "active", "inactive"}]
      /\ \A u \in Users : profile'[u] # profile[u] => u = op.user
      /\ profile'[op.user] # "absent"
  <2>1. CASE op.to \in {"unset", op.seen}
    BY <1>1, <1>3, <1>4, <2>1
  <2>2. CASE op.to \notin {"unset", op.seen}
    BY <1>1, <1>2, <1>4, <2>2
  <2> QED BY <2>1, <2>2
<1>6. /\ audit \subseteq audit'
      /\ \A i \in Nat :
           <<"role_assigned", i>> \in audit' => <<"role_assigned", i>> \in audit
  BY <1>1, <1>2
<1>7. \/ <<"user_deactivated", op.user>> \in audit'
      \/ <<"user_updated", op.user>> \in audit'
  BY <1>1, <1>2
<1>8. DisabledLogged'
  BY <1>5, <1>6, <1>7 DEF IInv, DataInv, DisabledLogged
<1>9. /\ \A u \in Users : profile[u] # "absent" => profile'[u] # "absent"
      /\ \A u \in Users :
           profile[u] = "absent" => profile'[u] = "absent"
  BY <1>3, <1>5
<1> QED BY <1>1, <1>4, <1>5, <1>6, <1>8, <1>9, QuietCommit

\* Quarries are created and renamed beside the access rows.
LEMMA CommitQuietInv ==
  ASSUME IInv, NEW r \in Requests,
         \/ \E q \in Quarries : CommitCreateQuarry(r, q)
         \/ CommitUpdateQuarry(r)
         \/ CommitNothing(r)
  PROVE  IInv'
<1>0. name \in [Quarries -> Names \cup {"absent"}]
  BY DEF IInv, DataInv, DataType
<1>1. /\ request[r].at = "loaded" /\ Commit(r)
      /\ access' = access /\ reports' = reports /\ seeded' = seeded
      /\ audit' = audit
  BY DEF CommitCreateQuarry, CommitUpdateQuarry, CommitNothing, Doing, dataVars
<1>2. /\ name' \in [Quarries -> Names \cup {"absent"}]
      /\ \A q \in Quarries : name[q] # "absent" => name'[q] # "absent"
  <2>1. ASSUME NEW q \in Quarries, CommitCreateQuarry(r, q)
        PROVE  /\ name' \in [Quarries -> Names \cup {"absent"}]
               /\ \A p \in Quarries : name[p] # "absent" => name'[p] # "absent"
    <3>1. /\ request[r].op.do = "create" /\ name[q] = "absent"
          /\ name' = [name EXCEPT ![q] = request[r].op.to]
      BY <2>1 DEF CommitCreateQuarry, Doing
    <3>2. request[r].op.to \in Names
      BY <1>1, <3>1, PlacedTyped, OpsTyped DEF IInv
    <3> QED BY <1>0, <3>1, <3>2
  <2>2. CASE CommitUpdateQuarry(r)
    <3>1. /\ request[r].op.do = "rename"
          /\ \/ name' = name
             \/ name' = [name EXCEPT ![request[r].op.quarry] = request[r].op.to]
      BY <2>2 DEF CommitUpdateQuarry, Doing
    <3>2. request[r].op.to \in Names /\ request[r].op.quarry \in Quarries
      BY <1>1, <3>1, PlacedTyped, OpsTyped DEF IInv
    <3>3. request[r].op.to # "absent"
      BY <3>2 DEF Names
    <3> QED BY <1>0, <3>1, <3>2, <3>3
  <2>3. CASE CommitNothing(r)
    BY <1>0, <2>3 DEF CommitNothing, dataVars
  <2> QED BY <2>1, <2>2, <2>3
<1>3. /\ Goes(r, Over)
      /\ profile' \in [Users -> {"absent", "active", "inactive"}]
      /\ \A u \in Users : profile[u] # "absent" => profile'[u] = profile[u]
      /\ \A u \in Users :
           profile'[u] # profile[u] =>
             request[r].new /\ request[r].user = u /\ profile'[u] = "active"
  BY <1>1, CommitProfile
<1>4. DisabledLogged'
  BY <1>1, <1>3 DEF IInv, DataInv, DisabledLogged
<1>5. /\ \A u \in Users : profile[u] # "absent" => profile'[u] # "absent"
      /\ \A u \in Users :
           profile[u] = "absent" /\ profile'[u] # "absent" =>
             request[r].new /\ request[r].user = u
  BY <1>3
<1> QED BY <1>1, <1>2, <1>3, <1>4, <1>5, QuietCommit

\* Every way a transaction ends keeps IInv.
LEMMA FinishInv ==
  ASSUME IInv, NEW r \in Requests, Finish(r)
  PROVE  IInv'
<1>1. CASE Rollback(r)
  BY <1>1, EndInv DEF Rollback
<1> QED BY <1>1, CommitGrantInv, CommitBuildInv, CommitRevokeInv, CommitPatchInv,
           CommitQuietInv DEF Finish

\* Reports of a quarry only become more.
LEMMA PublishReportInv ==
  ASSUME IInv, NEW q \in Quarries, PublishReport(q)
  PROVE  IInv'
<1>1. /\ reports' = [reports EXCEPT ![q] = @ + 1] /\ reports[q] < 2
      /\ profile' = profile /\ access' = access /\ name' = name
      /\ seeded' = seeded /\ audit' = audit /\ request' = request
  BY DEF PublishReport
<1>2. reports \in [Quarries -> 0..2]
  BY DEF IInv, DataInv, DataType
<1>3. /\ reports' \in [Quarries -> 0..2]
      /\ \A p \in Quarries : reports[p] > 0 => reports'[p] > 0
  BY <1>1, <1>2
<1>4. OneDemoChain'
  BY <1>1, <1>3, ChainKept DEF IInv
<1>5. DataInv'
  BY <1>1, <1>3, <1>4 DEF IInv, DataInv, DataType, RowsRefer, ActiveGrantUnique,
                          RowsLogged, LogRefers, DisabledLogged
<1>6. RequestsTyped' /\ AllSound' /\ Apart'
  BY <1>1 DEF IInv, RequestsTyped, Placed, Ops, AllSound, Sound, SoundOp,
              ActiveRows, Apart, Compatible, SameKey
<1> QED BY <1>5, <1>6 DEF IInv

\* Steps that change nothing.
LEMMA StutterInv ==
  ASSUME IInv, UNCHANGED vars
  PROVE  IInv'
<1>1. /\ reports' = reports
      /\ profile' = profile /\ access' = access /\ name' = name
      /\ seeded' = seeded /\ audit' = audit /\ request' = request
  BY DEF vars, dataVars
<1>2. DataInv'
  BY <1>1 DEF IInv, DataInv, DataType, RowsRefer, ActiveGrantUnique, OneDemoChain,
              RowsLogged, LogRefers, DisabledLogged
<1>3. RequestsTyped' /\ AllSound' /\ Apart'
  BY <1>1 DEF IInv, RequestsTyped, Placed, Ops, AllSound, Sound, SoundOp,
              ActiveRows, Apart, Compatible, SameKey
<1> QED BY <1>2, <1>3 DEF IInv

-----------------------------------------------------------------------------
(* The theorems. *)

\* The empty database satisfies IInv.
LEMMA InitInv == Init => IInv
<1> SUFFICES ASSUME Init PROVE IInv
  OBVIOUS
<1>1. DataType
  BY DEF Init, DataType, Names
<1>2. RowsRefer /\ ActiveGrantUnique /\ OneDemoChain /\ RowsLogged /\ LogRefers
  BY DEF Init, RowsRefer, ActiveGrantUnique, OneDemoChain, RowsLogged, LogRefers
<1>3. DisabledLogged
  BY DEF Init, DisabledLogged
<1>4. /\ RequestsTyped
      /\ \A r \in Requests : request[r] = Fresh
  BY DEF Init, RequestsTyped
<1>5. Fresh.at = "new" /\ Fresh.new = FALSE /\ Fresh.op = NoOp
  BY DEF Fresh, Request
<1>6. AllSound
  BY <1>4, <1>5, NoOpIn DEF AllSound, Sound
<1>7. Apart
  BY <1>4, <1>5 DEF Apart, Compatible
<1> QED BY <1>1, <1>2, <1>3, <1>4, <1>6, <1>7 DEF IInv, DataInv

\* The invariant, for any number of requests, users and quarries.
THEOREM Invariant == Spec => []IInv
<1>1. IInv /\ [Next]_vars => IInv'
  BY AuthenticateInv, AdministrateInv, SeedInv, FlushInv, FinishInv,
     PublishReportInv, StutterInv DEF Next, Quiescent
<1> QED BY <1>1, InitInv, PTL DEF Spec

\* Every variable keeps its type.
THEOREM TypeCorrect == Spec => []TypeOK
<1>1. IInv => TypeOK
  <2> SUFFICES ASSUME IInv PROVE TypeOK
    OBVIOUS
  <2>1. ASSUME NEW r \in Requests
        PROVE  /\ request[r].op \in Ops
               /\ request[r] \in {Fresh, Over} \/ request[r] \in Placed
    <3>1. request[r] \in {Fresh, Over} \cup Placed
      BY DEF IInv, RequestsTyped
    <3>2. Fresh.op \in Ops /\ Over.op \in Ops
      BY NoOpIn DEF Fresh, Over, Request
    <3>3. request[r] \in Placed => request[r].op \in Ops
      BY DEF Placed
    <3> QED BY <3>1, <3>2, <3>3
  <2> QED BY <2>1 DEF IInv, DataInv, DataType, TypeOK, Placed
<1> QED BY <1>1, Invariant, PTL

\* uq_quarry_user_active holds whatever requests overlap.
THEOREM ActiveGrantsUnique == Spec => []ActiveGrantUnique
<1>1. IInv => ActiveGrantUnique
  BY DEF IInv, DataInv
<1> QED BY <1>1, Invariant, PTL

\* dev_seed: concurrent first seeds leave one chain, with its report and access.
THEOREM SeedsLeaveOneChain == Spec => []OneDemoChain
<1>1. IInv => OneDemoChain
  BY DEF IInv, DataInv
<1> QED BY <1>1, Invariant, PTL

\* The audit log has every revocation, every disabled account and every
\* assignment but those of dev_seed.
THEOREM AccessIsAudited == Spec => []AccessAudited
<1>1. IInv => AccessAudited
  <2> SUFFICES ASSUME IInv PROVE AccessAudited
    OBVIOUS
  <2>1. Len(access) \in Nat
    BY DEF IInv, DataInv, DataType
  <2>2. \A i \in 1..Len(access) + 1 :
          <<"role_assigned", i>> \in audit => i \in DOMAIN access
    BY <2>1 DEF IInv, DataInv, LogRefers
  <2> QED BY <2>2
          DEF IInv, DataInv, RowsLogged, DisabledLogged, AccessAudited
<1> QED BY <1>1, Invariant, PTL

\* update_user, deactivate_user: a disabled account is enabled by nothing but a
\* request that saw it disabled and was asked to enable it.
THEOREM DeactivationsStick == Spec => DeactivationSticks
<1> DEFINE Sticks ==
             \A u \in Users :
               profile[u] = "inactive" /\ profile'[u] = "active" =>
                 \E r \in Requests :
                   /\ request'[r] = Over
                   /\ request[r].op = [do |-> "patch", user |-> u,
                                       seen |-> "inactive", to |-> "active",
                                       action |-> "user_updated"]
<1>1. IInv /\ [Next]_vars => [Sticks]_vars
  <2> SUFFICES ASSUME IInv, [Next]_vars, NEW u \in Users,
                      profile[u] = "inactive", profile'[u] = "active"
               PROVE  \E r \in Requests :
                        /\ request'[r] = Over
                        /\ request[r].op = [do |-> "patch", user |-> u,
                                            seen |-> "inactive",
                                            to |-> "active",
                                            action |-> "user_updated"]
    OBVIOUS
  <2>1. profile' # profile
    OBVIOUS
  <2>2. ASSUME NEW r \in Requests,
               request[r].at \in {"ready", "loaded", "flushed"}, Commit(r)
        PROVE  FALSE
    BY <2>2, CommitProfile
  <2>3. ASSUME NEW r \in Requests, Authenticate(r) \/ Administrate(r)
        PROVE  FALSE
    BY <2>1, <2>3
       DEF Authenticate, SelectProfile, InsertProfile, InsertProfileFails, End,
           Administrate, LoadGrant, LoadRevoke, LoadUpdateUser, LoadCreateQuarry,
           LoadDeactivateUser, LoadUpdateQuarry, NotAdmin, Load
  <2>4. ASSUME NEW r \in Requests, Seed(r) \/ Flush(r) PROVE FALSE
    BY <2>1, <2>4
       DEF Seed, SeedBreaks, SeedAgain, SeedFirst, Flush, FlushGrant,
           FlushGrantFails, FlushBuild, FlushBuildFails, Load, End
  <2>5. ASSUME NEW r \in Requests, Finish(r) PROVE CommitPatch(r)
    BY <2>1, <2>2, <2>5
       DEF Finish, CommitGrant, CommitBuild, CommitCreateQuarry, CommitRevoke,
           CommitUpdateQuarry, CommitNothing, Rollback, End, Doing
  <2>6. PICK r \in Requests : CommitPatch(r)
    BY <2>1, <2>3, <2>4, <2>5 DEF Next, PublishReport, Quiescent, vars
  <2> DEFINE op == request[r].op
  <2>7. /\ request[r].at = "loaded" /\ op.do = "patch" /\ Goes(r, Over)
        /\ profile' = IF op.to \in {"unset", op.seen} THEN profile
                      ELSE [profile EXCEPT ![op.user] = op.to]
    BY <2>6 DEF CommitPatch, Doing
  <2>8. op \in [do : {"patch"}, user : Users, seen : {"active", "inactive"},
                to : {"active", "inactive", "unset"},
                action : {"user_updated", "user_deactivated"}]
    BY <2>7, PlacedTyped, OpsTyped DEF IInv
  <2>9. op.action = "user_deactivated" => op.to = "inactive"
    BY <2>7 DEF IInv, AllSound, Sound, SoundOp
  <2> HIDE DEF op
  <2>10. profile \in [Users -> {"absent", "active", "inactive"}]
    BY DEF IInv, DataInv, DataType
  <2>11. op.to \notin {"unset", op.seen} /\ op.user = u /\ op.to = "active"
    BY <2>1, <2>7, <2>8, <2>10
  <2>12. op.seen = "inactive" /\ op.action = "user_updated"
    BY <2>8, <2>9, <2>11
  <2>13. op = [do |-> "patch", user |-> u, seen |-> "inactive",
               to |-> "active", action |-> "user_updated"]
    BY <2>8, <2>11, <2>12
  <2>14. request'[r] = Over
    BY <2>7 DEF Goes, IInv, RequestsTyped
  <2> QED BY <2>13, <2>14 DEF op
<1> QED BY <1>1, Invariant, PTL DEF Spec, DeactivationSticks

-----------------------------------------------------------------------------
(* Rows are rights. *)

\* Under the unique key the right of a user is the role of his active row.
LEMMA RightOfRow ==
  ASSUME ActiveGrantUnique, NEW u, NEW q, NEW i \in ActiveRows(u, q)
  PROVE  ActiveRows(u, q) = {i} /\ RightOf(u, q) = access[i].role
<1>1. \A j \in ActiveRows(u, q) : j = i
  BY DEF ActiveRows, ActiveGrantUnique, SameKey
<1>2. ActiveRows(u, q) = {i}
  BY <1>1
<1>3. (CHOOSE j \in ActiveRows(u, q) : TRUE) = i
  BY <1>1
<1> QED BY <1>2, <1>3 DEF RightOf

\* A right that no commit touches stays.
LEMMA RightKept ==
  ASSUME ActiveGrantUnique, ActiveGrantUnique', NEW u, NEW q,
         ActiveRows(u, q)' = ActiveRows(u, q),
         \A i \in ActiveRows(u, q) : access'[i].role = access[i].role
  PROVE  RightOf(u, q)' = RightOf(u, q)
<1>1. CASE ActiveRows(u, q) = {}
  BY <1>1 DEF RightOf
<1>2. ASSUME NEW i \in ActiveRows(u, q)
      PROVE  RightOf(u, q)' = RightOf(u, q)
  <2>1. RightOf(u, q) = access[i].role
    BY RightOfRow
  <2>2. \A j \in ActiveRows(u, q)' : j = i
    BY RightOfRow
  <2>3. (CHOOSE j \in ActiveRows(u, q)' : TRUE) = i
    BY <2>2
  <2>4. RightOf(u, q)' = access'[i].role
    BY <2>2, <2>3 DEF RightOf
  <2> QED BY <2>1, <2>4
<1> QED BY <1>1, <1>2

RightsNow == [u \in Users |-> [q \in Quarries |-> RightOf(u, q)]]

\* A committed grant gives its right and no other.
LEMMA AddedRowGives ==
  ASSUME DataInv, ActiveGrantUnique', NEW row \in AccessRows, row.active,
         access' = Append(access, row), ActiveRows(row.user, row.quarry) = {}
  PROVE  Rights!Next
<1> DEFINE id == Len(access) + 1
<1>0. /\ access \in Seq(AccessRows) /\ ActiveGrantUnique
      /\ row.user \in Users /\ row.quarry \in Quarries /\ row.role \in Roles
  BY RowsTyped DEF DataInv, DataType
<1>1. /\ access'[id] = row
      /\ \A i \in DOMAIN access : access'[i] = access[i]
  BY <1>0, AppendedRow
<1>2. \A u, q : ActiveRows(u, q)' =
                  IF row.user = u /\ row.quarry = q
                  THEN ActiveRows(u, q) \cup {id} ELSE ActiveRows(u, q)
  BY <1>0, AppendedActive
<1>3. PICK v, k : v = row.user /\ k = row.quarry
  OBVIOUS
<1>4. RightOf(v, k) = "none" /\ RightOf(v, k)' = row.role
  <2>1. ActiveRows(v, k) = {} /\ ActiveRows(v, k)' = {id}
    BY <1>2, <1>3
  <2>2. (CHOOSE j \in ActiveRows(v, k)' : TRUE) = id
    BY <2>1
  <2> QED BY <1>1, <2>1, <2>2 DEF RightOf
<1>5. ASSUME NEW u \in Users, NEW q \in Quarries, ~(u = v /\ q = k)
      PROVE  RightOf(u, q)' = RightOf(u, q)
  <2>1. ActiveRows(u, q)' = ActiveRows(u, q)
    BY <1>2, <1>3, <1>5
  <2>2. \A i \in ActiveRows(u, q) : access'[i].role = access[i].role
    BY <1>1 DEF ActiveRows
  <2> QED BY <1>0, <2>1, <2>2, RightKept
<1>6. RightsNow' = [RightsNow EXCEPT ![v][k] = row.role]
  <2>1. \A u \in Users, q \in Quarries :
          RightOf(u, q)' = IF u = v /\ q = k THEN row.role ELSE RightOf(u, q)
    BY <1>4, <1>5
  <2>2. v \in Users /\ k \in Quarries
    BY <1>0, <1>3
  <2> QED BY <2>1, <2>2 DEF RightsNow
<1>7. Rights!Give(v, k, row.role)
  BY <1>0, <1>3, <1>4, <1>6 DEF Rights!Give, RightsNow
<1> QED BY <1>0, <1>3, <1>7 DEF Rights!Next

\* A revocation takes the right of its row, or none if it was revoked before.
LEMMA RevokedRowTakes ==
  ASSUME DataInv, ActiveGrantUnique', NEW i \in DOMAIN access,
         access' = [access EXCEPT ![i].active = FALSE]
  PROVE  [Rights!Next]_RightsNow
<1>0. access \in Seq(AccessRows) /\ ActiveGrantUnique
  BY DEF DataInv, DataType
<1>1. \A j \in DOMAIN access : access'[j].role = access[j].role
  BY <1>0, RevokedRow
<1>2. \A u, q : ActiveRows(u, q)' = ActiveRows(u, q) \ {i}
  BY <1>0, RevokedActive
<1>3. ASSUME NEW u \in Users, NEW q \in Quarries, i \notin ActiveRows(u, q)
      PROVE  RightOf(u, q)' = RightOf(u, q)
  <2>1. ActiveRows(u, q)' = ActiveRows(u, q)
    BY <1>2, <1>3
  <2>2. \A j \in ActiveRows(u, q) : access'[j].role = access[j].role
    BY <1>1 DEF ActiveRows
  <2> QED BY <1>0, <2>1, <2>2, RightKept
<1>4. PICK v, k : v = access[i].user /\ k = access[i].quarry
  OBVIOUS
<1>5. v \in Users /\ k \in Quarries
  BY <1>0, <1>4, RowsTyped
<1>6. CASE access[i].active
  <2>1. i \in ActiveRows(v, k)
    BY <1>4, <1>6 DEF ActiveRows
  <2>2. ActiveRows(v, k) = {i}
    BY <1>0, <2>1, RightOfRow
  <2>3. ActiveRows(v, k)' = {}
    BY <1>2, <2>2
  <2>4. RightOf(v, k)' = "none"
    BY <2>3 DEF RightOf
  <2>5. ASSUME NEW u \in Users, NEW q \in Quarries, ~(u = v /\ q = k)
        PROVE  RightOf(u, q)' = RightOf(u, q)
    BY <1>3, <1>4, <2>5 DEF ActiveRows
  <2>6. RightsNow' = [RightsNow EXCEPT ![v][k] = "none"]
    <3>1. \A u \in Users, q \in Quarries :
            RightOf(u, q)' = IF u = v /\ q = k THEN "none" ELSE RightOf(u, q)
      BY <2>4, <2>5
    <3> QED BY <1>5, <3>1 DEF RightsNow
  <2>7. Rights!Take(v, k)
    BY <2>6 DEF Rights!Take, RightsNow
  <2> QED BY <1>5, <2>7 DEF Rights!Next
<1>7. CASE ~access[i].active
  <2>1. \A u \in Users, q \in Quarries : RightOf(u, q)' = RightOf(u, q)
    BY <1>3, <1>7 DEF ActiveRows
  <2>2. RightsNow' = RightsNow
    BY <2>1 DEF RightsNow
  <2> QED BY <2>2
<1> QED BY <1>6, <1>7

\* The rows implement AccessRights: every commit gives one right to a user who
\* has none, takes one, or changes none.
THEOREM RowsImplementRights == Spec => ImplementsRights
<1>1. Init => Rights!Init
  <2> SUFFICES ASSUME Init PROVE Rights!Init
    OBVIOUS
  <2>1. \A u \in Users, q \in Quarries : RightOf(u, q) = "none"
    BY DEF Init, RightOf, ActiveRows
  <2> QED BY <2>1 DEF Rights!Init
<1>2. IInv /\ IInv' /\ [Next]_vars => [Rights!Next]_RightsNow
  <2> SUFFICES ASSUME IInv, IInv', [Next]_vars PROVE [Rights!Next]_RightsNow
    OBVIOUS
  <2>0. DataInv /\ ActiveGrantUnique'
    BY DEF IInv, DataInv
  <2>1. ASSUME access' = access PROVE RightsNow' = RightsNow
    BY <2>1 DEF RightsNow, RightOf, ActiveRows
  <2>2. ASSUME NEW r \in Requests, CommitGrant(r) PROVE Rights!Next
    <3> DEFINE row == request[r].op.row
    <3>1. /\ request[r].at = "flushed" /\ request[r].op.do = "grant"
          /\ access' = Append(access, row)
      BY <2>2 DEF CommitGrant, Doing
    <3>2. row \in AccessRows
      BY <3>1, PlacedTyped, OpsTyped DEF IInv
    <3>3. row.active /\ ActiveRows(row.user, row.quarry) = {}
      BY <3>1 DEF IInv, AllSound, Sound, SoundOp
    <3> HIDE DEF row
    <3> QED BY <2>0, <3>1, <3>2, <3>3, AddedRowGives
  <2>3. ASSUME NEW r \in Requests, NEW q \in Quarries, CommitBuild(r, q)
        PROVE  Rights!Next
    <3> DEFINE row == AccessRow(Caller(r), q, "admin", Caller(r))
    <3>1. /\ request[r].at = "flushed" /\ name[q] = "absent"
          /\ access' = Append(access, row)
      BY <2>3 DEF CommitBuild, Doing
    <3>2. Caller(r) \in Users
      BY <3>1, PlacedTyped DEF IInv, Caller
    <3>3. row \in AccessRows /\ row.active = TRUE /\ row.quarry = q
      BY <3>2 DEF AccessRow, AccessRows, Roles
    <3>4. \A u : ActiveRows(u, q) = {}
      BY <3>1 DEF ActiveRows, IInv, DataInv, RowsRefer
    <3> HIDE DEF row
    <3> QED BY <2>0, <3>1, <3>3, <3>4, AddedRowGives
  <2>4. ASSUME NEW r \in Requests, CommitRevoke(r)
        PROVE  [Rights!Next]_RightsNow
    <3> DEFINE i == request[r].op.id
    <3>1. /\ request[r].at = "loaded" /\ request[r].op.do = "revoke"
          /\ access' = [access EXCEPT ![i].active = FALSE]
      BY <2>4 DEF CommitRevoke, Doing
    <3>2. i \in DOMAIN access
      BY <3>1, PlacedTyped, OpsTyped DEF IInv
    <3> HIDE DEF i
    <3> QED BY <2>0, <3>1, <3>2, RevokedRowTakes
  <2>5. ASSUME NEW r \in Requests, Authenticate(r) \/ Administrate(r)
        PROVE  access' = access
    BY <2>5
       DEF Authenticate, SelectProfile, InsertProfile, InsertProfileFails, End,
           Administrate, LoadGrant, LoadRevoke, LoadUpdateUser, LoadCreateQuarry,
           LoadDeactivateUser, LoadUpdateQuarry, NotAdmin, Load, dataVars
  <2>6. ASSUME NEW r \in Requests, Seed(r) \/ Flush(r) PROVE access' = access
    BY <2>6
       DEF Seed, SeedBreaks, SeedAgain, SeedFirst, Flush, FlushGrant,
           FlushGrantFails, FlushBuild, FlushBuildFails, Load, End, dataVars
  <2>7. ASSUME NEW r \in Requests,
               \/ \E q \in Quarries : CommitCreateQuarry(r, q)
               \/ CommitPatch(r) \/ CommitUpdateQuarry(r) \/ CommitNothing(r)
               \/ Rollback(r)
        PROVE  access' = access
    BY <2>7 DEF CommitCreateQuarry, CommitPatch, CommitUpdateQuarry,
                CommitNothing, Rollback, End, dataVars
  <2>8. CASE UNCHANGED vars \/ \E q \in Quarries : PublishReport(q)
    BY <2>1, <2>8 DEF vars, dataVars, PublishReport
  <2> QED BY <2>1, <2>2, <2>3, <2>4, <2>5, <2>6, <2>7, <2>8
          DEF Next, Finish, Quiescent
<1> QED BY <1>1, <1>2, Invariant, PTL
        DEF Spec, ImplementsRights, Rights!Spec, RightsNow

-----------------------------------------------------------------------------
(* Nobody waits in a circle. *)

\* A request that waits for the key of its caller's profile holds nothing.
EmptyHanded ==
    \A r \in Requests : request[r].at = "insert" => request[r].new = FALSE

LEMMA EmptyHandedInit == Init => EmptyHanded
  BY DEF Init, EmptyHanded, Fresh, Request

LEMMA EmptyHandedStep ==
  ASSUME DataType, RequestsTyped, EmptyHanded, [Next]_vars
  PROVE  EmptyHanded'
<1>1. ASSUME UNCHANGED request PROVE EmptyHanded'
  BY <1>1 DEF EmptyHanded
<1>2. ASSUME NEW r \in Requests, NEW to, Goes(r, to),
             to.at = "insert" => to.new = FALSE
      PROVE  EmptyHanded'
  BY <1>2 DEF EmptyHanded, Goes, RequestsTyped
<1>3. /\ Over.at # "insert"
      /\ \A u, op : /\ Request("insert", u, FALSE, op).new = FALSE
                    /\ Request("ready", u, FALSE, op).at # "insert"
                    /\ Request("ready", u, TRUE, op).at # "insert"
  BY DEF Over, Request
<1>4. ASSUME NEW r \in Requests, Goes(r, Over) PROVE EmptyHanded'
  BY <1>2, <1>3, <1>4
<1>5. ASSUME NEW r \in Requests, Authenticate(r) PROVE EmptyHanded'
  <2>1. ASSUME NEW u \in Users, SelectProfile(r, u) PROVE EmptyHanded'
    <3>1. \/ Goes(r, Request("ready", u, FALSE, NoOp)) \/ Goes(r, Over)
          \/ Goes(r, Request("insert", u, FALSE, NoOp))
          \/ profile[u] \notin {"absent", "active", "inactive"}
      BY <2>1 DEF SelectProfile
    <3>2. profile[u] \in {"absent", "active", "inactive"}
      BY DEF DataType
    <3>3. ASSUME Goes(r, Request("insert", u, FALSE, NoOp)) PROVE EmptyHanded'
      BY <1>2, <1>3, <3>3
    <3>4. ASSUME Goes(r, Request("ready", u, FALSE, NoOp)) PROVE EmptyHanded'
      BY <1>2, <1>3, <3>4
    <3> QED BY <1>4, <3>1, <3>2, <3>3, <3>4
  <2>2. InsertProfile(r) => EmptyHanded'
    BY <1>2, <1>3 DEF InsertProfile
  <2>3. InsertProfileFails(r) => EmptyHanded'
    BY <1>4 DEF InsertProfileFails, End
  <2> QED BY <1>5, <2>1, <2>2, <2>3 DEF Authenticate
<1>6. ASSUME NEW r \in Requests, NEW op,
             request[r].at = "ready", Load(r, op)
      PROVE  EmptyHanded'
  <2> DEFINE to == [request[r] EXCEPT !.at = "loaded", !.op = op]
  <2>1. to.at = "loaded"
    BY <1>6, PlacedTyped DEF Placed
  <2> QED BY <1>2, <1>6, <2>1 DEF Load
<1>7. ASSUME NEW r \in Requests, Administrate(r) \/ Seed(r)
      PROVE  EmptyHanded'
  <2>1. \/ request[r].at = "ready" /\ \E op : Load(r, op)
        \/ Goes(r, Over)
    BY <1>7 DEF Administrate, Seed, NotAdmin, End, LoadGrant, LoadRevoke,
                LoadUpdateUser, LoadDeactivateUser, LoadCreateQuarry,
                LoadUpdateQuarry, SeedBreaks, SeedAgain, SeedFirst
  <2> QED BY <1>4, <1>6, <2>1
<1>8. ASSUME NEW r \in Requests, Flush(r) PROVE EmptyHanded'
  <2> DEFINE to == [request[r] EXCEPT !.at = "flushed"]
  <2>1. \/ request[r].at = "loaded" /\ Goes(r, to)
        \/ Goes(r, Over)
    BY <1>8 DEF Flush, FlushGrant, FlushGrantFails, FlushBuild,
                FlushBuildFails, Doing, End
  <2>2. request[r].at = "loaded" => to.at = "flushed"
    BY PlacedTyped DEF Placed
  <2> QED BY <1>2, <1>4, <2>1, <2>2
<1>9. ASSUME NEW r \in Requests, Finish(r) PROVE EmptyHanded'
  BY <1>4, <1>9 DEF Finish, CommitGrant, CommitBuild, CommitCreateQuarry,
                    CommitRevoke, CommitPatch, CommitUpdateQuarry,
                    CommitNothing, Rollback, Commit, End
<1> QED BY <1>1, <1>5, <1>7, <1>8, <1>9
        DEF Next, Quiescent, PublishReport, vars

\* Grants, seeds and first logins that meet at unique keys wait in line: a
\* deadlock of the database is out of the question for any number of requests.
THEOREM WaitsEnd == Spec => []NoCircularWait
<1>1. EmptyHanded => NoCircularWait
  <2> SUFFICES ASSUME EmptyHanded,
                      NEW o \in Requests, NEW p \in Requests,
                      NEW q \in Requests, NEW r \in Requests,
                      WaitsFor(o, p), WaitsFor(p, q), WaitsFor(q, r)
               PROVE  FALSE
    BY DEF NoCircularWait
  <2>1. request[p].at # "flushed" /\ request[q].at # "flushed"
    BY DEF WaitsFor, Doing
  <2>2. request[p].new /\ request[q].new
    BY <2>1 DEF WaitsFor, Doing
  <2>3. request[p].at = "insert"
    BY <2>1 DEF WaitsFor, Doing
  <2> QED BY <2>2, <2>3 DEF EmptyHanded
<1>2. IInv /\ EmptyHanded /\ [Next]_vars => EmptyHanded'
  BY EmptyHandedStep DEF IInv, DataInv
<1> QED BY <1>1, <1>2, EmptyHandedInit, Invariant, PTL DEF Spec

=============================================================================
