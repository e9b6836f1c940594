------------------------------ MODULE Profiles ------------------------------
(***************************************************************************)
(* User profiles and their roles: POST /profiles by a user for herself, and *)
(* adding and deleting roles by admins.  Every operation reads a row of the *)
(* profiles table and writes it back whole, without an ETag; a request is a *)
(* goroutine that takes one step per call to the table.  Any call may fail, *)
(* and a failed write may have been applied.  Only the roles of a profile   *)
(* are kept here: name, photo and object id decide nothing.                 *)
(***************************************************************************)
EXTENDS FiniteSets

CONSTANTS
    Users,       \* user principals
    Nobody,      \* the empty user principal
    Roles,       \* "user", "admin" and the other roles there are
    NoRole,      \* the empty string Split makes of an empty list of roles
    FirstAdmins, \* profiles made by hand before the hub is used
    Requests,    \* request goroutines that may be in flight together
    Absent,      \* no row
    NoJob        \* a request slot that is idle

\* A row is its roles, which are stored in one string with commas between them.
\* The names admins give roles are taken to have no comma, so that Split gives
\* back what Join was given.  Then the order of the list decides nothing, and no
\* role is in it twice: AddRole looks first, the others only take roles away.
RoleSets == SUBSET (Roles \cup {NoRole})

Keys == Users \cup {Nobody}

Jobs == [op: {"create", "add", "remove"}, caller: Users, user: Users,
         role: Roles, key: Keys, roles: RoleSets,
         was: {Absent} \cup RoleSets]  \* history: the row that was read

\* Nobody is never a user, and Split's empty string never a role.
ASSUME ProfilesAssumption ==
    /\ Nobody \notin Users
    /\ NoRole \notin Roles
    /\ {"user", "admin"} \subseteq Roles
    /\ FirstAdmins \subseteq Users
    /\ IsFiniteSet(Roles)
    /\ \A R \in SUBSET (Roles \cup {NoRole}) : Absent # R
    /\ NoJob \notin Jobs

VARIABLES
    rows,     \* the profiles table, by row key
    pc,       \* the next call a request makes
    job,      \* what is asked, and the row to be written
    granted,  \* history: roles beside "user" an admin has asked to add
    stale,    \* history: requests whose row was changed since they read it
    blind     \* history: requests that could not read the row they write

vars == <<rows, pc, job, granted, stale, blind>>

\* What the call at a pc needs of the request's variables: only adding a role
\* takes the row key from what was read.
Suits(at, j) ==
    /\ at = "idle" <=> j = NoJob
    /\ at = "idle" \/ j.key = j.user \/ (at = "upsert" /\ j.op = "add")

TypeOK ==
    /\ rows \in [Keys -> {Absent} \cup RoleSets]
    /\ pc \in [Requests -> {"idle", "admin", "read", "upsert", "delete"}]
    /\ job \in [Requests -> {NoJob} \cup Jobs]
    /\ \A r \in Requests : Suits(pc[r], job[r])
    /\ granted \in [Users -> SUBSET Roles]
    /\ stale \subseteq Requests
    /\ blind \subseteq Requests

Init ==
    /\ rows = [u \in Keys |-> IF u \in FirstAdmins THEN {"user", "admin"} ELSE Absent]
    /\ pc = [r \in Requests |-> "idle"]
    /\ job = [r \in Requests |-> NoJob]
    /\ granted = [u \in Users |-> IF u \in FirstAdmins THEN {"admin"} ELSE {}]
    /\ stale = {}
    /\ blind = {}

-----------------------------------------------------------------------------

At(r, at, j) ==
    /\ pc' = [pc EXCEPT ![r] = at]
    /\ job' = [job EXCEPT ![r] = j]

Done(r) == At(r, "idle", NoJob)

Begin(r, at, op, c, u, role) ==
    /\ pc[r] = "idle"
    /\ At(r, at, [op |-> op, caller |-> c, user |-> u, role |-> role,
                  key |-> u, roles |-> {}, was |-> Absent])
    /\ stale' = stale \ {r}
    /\ blind' = blind \ {r}
    /\ UNCHANGED <<rows, granted>>

\* POST /profiles: the handler refuses anybody's profile but the caller's own.
CreateProfile(r, u) == Begin(r, "read", "create", u, u, "user")

\* POST and DELETE /profiles/:userPrincipal/:role
AddRole(r, c, u, role) == Begin(r, "admin", "add", c, u, role)
DeleteRole(r, c, u, role) == Begin(r, "admin", "remove", c, u, role)

\* The middleware reads the caller's profile; any error ends the request.
AdminRequired(r) ==
    LET j == job[r] IN
    /\ pc[r] = "admin"
    /\ \/ /\ rows[j.caller] # Absent
          /\ "admin" \in rows[j.caller]
          /\ At(r, "read", [j EXCEPT !.caller = j.user])   \* not needed any more
          /\ granted' = IF j.op = "add"
                        THEN [granted EXCEPT ![j.user] = @ \cup ({j.role} \ {"user"})]
                        ELSE granted
       \/ Done(r) /\ UNCHANGED granted
    /\ UNCHANGED <<rows, stale, blind>>

\* GetProfile of a user without a row answers an empty profile: no principal,
\* and one role, the empty string.
Principal(u) == IF rows[u] = Absent THEN Nobody ELSE u
ProfileRoles(u) == IF rows[u] = Absent THEN {NoRole} ELSE rows[u]

\* A request that has read a row, or none, writes roles to the row of a key.
Upsert(r, was, key, roles) ==
    At(r, "upsert", [job[r] EXCEPT !.key = key, !.roles = roles, !.was = was])

\* Mutant: a new profile keeps the roles the client has sent.
ReadForCreateTrustsBody(r) ==
    LET u == job[r].user IN
    /\ pc[r] = "read" /\ job[r].op = "create"
    /\ \E sent \in SUBSET Roles :
        Upsert(r, rows[u], u,
               IF Principal(u) = Nobody THEN sent \cup {"user"} ELSE ProfileRoles(u))
    /\ UNCHANGED <<rows, granted, stale, blind>>

\* CreateProfile goes on when the read has failed, as if there were no profile.
ReadForCreate(r) ==
    LET u == job[r].user IN
    /\ pc[r] = "read" /\ job[r].op = "create"
    /\ \/ /\ Upsert(r, rows[u], u, IF Principal(u) = Nobody THEN {"user"} ELSE ProfileRoles(u))
          /\ UNCHANGED blind
       \/ /\ Upsert(r, Absent, u, {"user"})
          /\ blind' = blind \cup {r}
       \/ Done(r) /\ UNCHANGED blind   \* no display name: refused
    /\ UNCHANGED <<rows, granted, stale>>

\* Mutant: the role is written in place of the roles there are.
ReadForAddReplaces(r) ==
    LET u == job[r].user
        role == job[r].role
    IN
    /\ pc[r] = "read" /\ job[r].op = "add"
    /\ \/ role \in ProfileRoles(u) /\ Done(r)
       \/ role \notin ProfileRoles(u) /\ Upsert(r, rows[u], Principal(u), {role})
       \/ Done(r)
    /\ UNCHANGED <<rows, granted, stale, blind>>

ReadForAdd(r) ==
    LET u == job[r].user
        role == job[r].role
    IN
    /\ pc[r] = "read" /\ job[r].op = "add"
    /\ \/ role \in ProfileRoles(u) /\ Done(r)
       \/ /\ role \notin ProfileRoles(u)
          /\ Upsert(r, rows[u], Principal(u), ProfileRoles(u) \cup {role})
       \/ Done(r)
    /\ UNCHANGED <<rows, granted, stale, blind>>

\* Mutant: a profile with one role is written like any other.
ReadForDeleteAlwaysUpserts(r) ==
    LET u == job[r].user IN
    /\ pc[r] = "read" /\ job[r].op = "remove"
    /\ \/ Upsert(r, rows[u], u, ProfileRoles(u) \ {job[r].role})
       \/ Done(r)
    /\ UNCHANGED <<rows, granted, stale, blind>>

\* Mutant: the error of the read is not returned, and the empty profile that
\* comes with it is written.
ReadForDeleteDropsError(r) ==
    LET u == job[r].user IN
    /\ pc[r] = "read" /\ job[r].op = "remove"
    /\ \/ /\ Cardinality(ProfileRoles(u)) = 1
          /\ At(r, "delete", [job[r] EXCEPT !.was = rows[u]])
       \/ /\ Cardinality(ProfileRoles(u)) # 1
          /\ Upsert(r, rows[u], u, ProfileRoles(u) \ {job[r].role})
       \/ Upsert(r, Absent, Nobody, {})
    /\ UNCHANGED <<rows, granted, stale, blind>>

ReadForDelete(r) ==
    LET u == job[r].user IN
    /\ pc[r] = "read" /\ job[r].op = "remove"
    /\ \/ /\ Cardinality(ProfileRoles(u)) = 1
          /\ At(r, "delete", [job[r] EXCEPT !.was = rows[u]])
       \/ /\ Cardinality(ProfileRoles(u)) # 1
          /\ Upsert(r, rows[u], u, ProfileRoles(u) \ {job[r].role})
       \/ Done(r)
    /\ UNCHANGED <<rows, granted, stale, blind>>

\* Requests that have read row k and are going to write it.
Writing(k) == {q \in Requests : pc[q] \in {"upsert", "delete"} /\ job[q].key = k}

Store(r, roles) ==
    LET k == job[r].key IN
    /\ rows' = [rows EXCEPT ![k] = roles]
    /\ stale' = (stale \cup Writing(k)) \ {r}

\* A failed write is answered 500, and may have been applied: to the table both
\* outcomes are those of a write that succeeds and of one that is not made.
UpsertProfile(r) ==
    /\ pc[r] = "upsert"
    /\ Store(r, job[r].roles) \/ UNCHANGED <<rows, stale>>
    /\ Done(r)
    /\ UNCHANGED <<granted, blind>>

DeleteProfile(r) ==
    /\ pc[r] = "delete"
    /\ \/ rows[job[r].key] # Absent /\ Store(r, Absent)
       \/ UNCHANGED <<rows, stale>>
    /\ Done(r)
    /\ UNCHANGED <<granted, blind>>

\* The process ends and is started again.
Restart ==
    /\ pc' = [r \in Requests |-> "idle"]
    /\ job' = [r \in Requests |-> NoJob]
    /\ stale' = {}
    /\ blind' = {}
    /\ UNCHANGED <<rows, granted>>

-----------------------------------------------------------------------------

Next ==
    \/ \E r \in Requests :
        \/ \E u \in Users : CreateProfile(r, u)
        \/ \E c, u \in Users, role \in Roles : AddRole(r, c, u, role) \/ DeleteRole(r, c, u, role)
        \/ AdminRequired(r)
        \/ ReadForCreate(r) \/ ReadForAdd(r) \/ ReadForDelete(r)
        \/ UpsertProfile(r) \/ DeleteProfile(r)
    \/ Restart

Spec == Init /\ [][Next]_vars

-----------------------------------------------------------------------------

\* Beside "user", nobody has a role that was not asked for him by somebody who
\* was an admin then, whatever reads and writes overlap or fail.
\* (internal/service/auth.go:43-49, 128-156; middleware/auth.go:73-98)
RolesWereGranted ==
    \A u \in Users : rows[u] # Absent => rows[u] \subseteq granted[u] \cup {"user"}

\* A profile without any role does not exist: the last one goes with the row.
\* (internal/service/auth.go:98-126)
EveryProfileHasARole == \A u \in Users : rows[u] # {}

\* What a request makes of a row that nobody else changes.
Alone(j, was, is) ==
    CASE j.op = "create" -> is = IF was = Absent THEN {"user"} ELSE was
      [] j.op = "add" -> was # Absent /\ is = was \cup {j.role}
      [] j.op = "remove" -> is = IF was = Absent \/ Cardinality(was) = 1
                                THEN Absent ELSE was \ {j.role}

\* A request changes a profile as if it had been alone: a new one has the role
\* "user", an added role is added, a deleted role is taken away and with it the
\* profile if it had one role only.  One that was overtaken since it read the row
\* does the same to the row it has read, and the first also to a row it could not
\* read, as to one that is absent: an update that is lost is lost in this way.
\* (internal/service/auth.go:21-60, 98-156)
ChangesAreAccountedFor ==
    [][\A u \in Users : rows'[u] # rows[u] =>
        \E r \in Writing(u) :
            /\ pc'[r] = "idle"
            /\ Alone(job[r], IF r \in stale \cup blind THEN job[r].was ELSE rows[u], rows'[u])]_vars

\* "if the user already exists, then update the profile with existing roles":
\* nobody loses a role by posting his profile again.
\* (comment at internal/service/auth.go:43)
CreateKeepsRoles ==
    [][\A u \in Users : rows[u] # Absent /\ rows'[u] # rows[u] =>
        \E r \in Writing(u) : pc'[r] = "idle" /\ job[r].op # "create"]_vars

\* "if the user has no roles left, then the user is deleted.": a profile is
\* deleted only with the role that was asked to be deleted.
\* (comment at internal/entity/auth.go:54)
DeletedWithLastRole ==
    [][\A u \in Users : rows[u] # Absent /\ rows'[u] = Absent =>
        \E r \in Writing(u) : job[r].op = "remove" /\ rows[u] \subseteq {job[r].role}]_vars

\* Why roles are granted and never empty: so are those about to be written.
WritesWereGranted ==
    \A r \in Requests :
        LET j == job[r] IN
        /\ pc[r] = "read" /\ j.op = "add" => j.role \in granted[j.user] \cup {"user"}
        /\ pc[r] = "upsert" /\ j.key \in Users =>
            j.roles # {} /\ j.roles \subseteq granted[j.key] \cup {"user"}

IInv == TypeOK /\ RolesWereGranted /\ EveryProfileHasARole /\ WritesWereGranted

\* Why changes are accounted for: what is about to be written is what the request
\* makes of the row it read, which is the row there is unless it was overtaken.
Written(r) == IF pc[r] = "upsert" THEN job[r].roles ELSE Absent

WritesAreAlone ==
    \A u \in Users : \A r \in Writing(u) :
        /\ Alone(job[r], job[r].was, Written(r))
        /\ r \in stale \cup blind \/ rows[u] = job[r].was
=============================================================================
