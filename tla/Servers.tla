------------------------------- MODULE Servers -------------------------------
(***************************************************************************)
(* The registration of a user's server and subscription: registering,      *)
(* unregistering and the reports of activity.  A server is a row of the    *)
(* servers table; an activity report reads it and writes it back whole,    *)
(* without an ETag.  A request is a goroutine that takes one step per call *)
(* to the table or to Azure's role assignments, any call may fail, and a   *)
(* failed write may have been applied.  The hub is one that checks role    *)
(* assignments (ACTLABS_ENVIRONMENT_NAME is not "local").                  *)
(***************************************************************************)

CONSTANTS
    Users,          \* user principal names, the row keys
    Principals,     \* object ids of users in Azure
    NoPrincipal,    \* an empty object id
    Subscriptions,  \* subscription ids
    Requests,       \* request goroutines that may be in flight together
    Absent,         \* no row
    NoJob           \* a request slot that is idle

Ids == Principals \cup {NoPrincipal}

\* What a client sends: the ids as they are in the body, and whether the
\* tenant is the FDPO tenant and a time of activity is given.
Bodies == [sub: Subscriptions, principal: Ids, fdpoPrincipal: Ids,
           fdpo: BOOLEAN, active: BOOLEAN]

\* A row; log level, resource group and the other defaults decide nothing.
Servers == [sub: Subscriptions, principal: Ids, fdpoPrincipal: Ids,
            version: {"V2", "V3"}, active: BOOLEAN]

Jobs == [op: {"register", "unregister", "activity"}, user: Users,
         server: Servers \cup {Absent},
         was: Servers \cup {Absent}]  \* history: the row that was read

ASSUME ServersAssumption ==
    /\ NoPrincipal \notin Principals
    /\ Absent \notin Servers
    /\ NoJob \notin Jobs

VARIABLES
    rows,      \* the servers table
    azure,     \* role assignments: what a principal is to a subscription
    pc,        \* the next call a request makes
    job,       \* what is asked, and the row read or to be written
    vouched,   \* history: servers whose principal has been looked up
    stale      \* history: requests whose row was changed since they read it

vars == <<rows, azure, pc, job, vouched, stale>>

\* Who the server acts as: the object id in the tenant of its version.
Acting(s) == IF s.version = "V3" THEN s.fdpoPrincipal ELSE s.principal

Vouch(s) == <<Acting(s), s.sub, s.version>>

TypeOK ==
    /\ rows \in [Users -> Servers \cup {Absent}]
    /\ azure \in [Ids \X Subscriptions -> {"owner", "contributor", "none"}]
    /\ pc \in [Requests -> {"idle", "authorize", "read", "upsert", "delete"}]
    /\ job \in [Requests -> Jobs \cup {NoJob}]
    /\ \A r \in Requests :
        /\ pc[r] = "idle" <=> job[r] = NoJob
        /\ pc[r] \in {"authorize", "upsert"} => job[r].server \in Servers
    /\ vouched \subseteq Ids \X Subscriptions \X {"V2", "V3"}
    /\ stale \subseteq Requests

Init ==
    /\ rows = [u \in Users |-> Absent]
    /\ azure \in [Ids \X Subscriptions -> {"owner", "contributor", "none"}]
    /\ \A s \in Subscriptions : azure[NoPrincipal, s] = "none"
    /\ pc = [r \in Requests |-> "idle"]
    /\ job = [r \in Requests |-> NoJob]
    /\ vouched = {}
    /\ stale = {}

-----------------------------------------------------------------------------

At(r, at, j) ==
    /\ pc' = [pc EXCEPT ![r] = at]
    /\ job' = [job EXCEPT ![r] = j]

Done(r) == At(r, "idle", NoJob)

Begin(r, at, op, u, s) ==
    /\ pc[r] = "idle"
    /\ At(r, at, [op |-> op, user |-> u, server |-> s, was |-> Absent])
    /\ stale' = stale \ {r}
    /\ UNCHANGED <<rows, azure, vouched>>

\* In the FDPO tenant the object id sent is moved to the other field.
Registration(b) ==
    [sub |-> b.sub,
     principal |-> IF b.fdpo THEN NoPrincipal ELSE b.principal,
     fdpoPrincipal |-> IF b.fdpo THEN b.principal ELSE b.fdpoPrincipal,
     version |-> IF b.fdpo THEN "V3" ELSE "V2",
     active |-> b.active]

\* Validate refuses a body without any object id before it asks Azure.
RegisterSubscription(r, u, b) ==
    LET s == Registration(b) IN
    /\ {s.principal, s.fdpoPrincipal} # {NoPrincipal}
    /\ Begin(r, "authorize", "register", u, s)

\* By the user or by an admin.  The handler goes on without a principal when it
\* cannot read the token: that ends with the read, as no row has an empty key.
Unregister(r, u) == Begin(r, "read", "unregister", u, Absent)

UpdateActivityStatus(r, u) == Begin(r, "read", "activity", u, Absent)

Entitled(s) ==
    \/ azure[Acting(s), s.sub] = "owner"
    \/ azure[Acting(s), s.sub] = "contributor" /\ s.version = "V2"

\* Mutant: the row's first object id is looked up, whatever its version.
IsUserAuthorizedByEither(r) ==
    LET s == job[r].server IN
    /\ pc[r] = "authorize"
    /\ \/ /\ \E p \in {s.principal, s.fdpoPrincipal} : azure[p, s.sub] # "none"
          /\ At(r, "upsert", job[r])
          /\ vouched' = IF Entitled(s) THEN vouched \cup {Vouch(s)} ELSE vouched
       \/ Done(r) /\ UNCHANGED vouched
    /\ UNCHANGED <<rows, azure, stale>>

IsUserAuthorized(r) ==
    LET s == job[r].server IN
    /\ pc[r] = "authorize"
    /\ \/ /\ Entitled(s)
          /\ At(r, "upsert", job[r])
          /\ vouched' = vouched \cup {Vouch(s)}
       \/ Done(r) /\ UNCHANGED vouched
    /\ UNCHANGED <<rows, azure, stale>>

\* Mutant: the error of a read is not returned.
ReadForActivityDropsError(r) ==
    LET j == job[r] IN
    /\ pc[r] = "read" /\ j.op = "activity"
    /\ At(r, "upsert", [j EXCEPT !.server = rows[j.user], !.was = rows[j.user]])
    /\ UNCHANGED <<rows, azure, vouched, stale>>

ReadForActivity(r) ==
    LET j == job[r] IN
    /\ pc[r] = "read" /\ j.op = "activity"
    /\ \/ /\ rows[j.user] # Absent
          /\ At(r, "upsert", [j EXCEPT !.server = [rows[j.user] EXCEPT !.active = TRUE],
                                       !.was = rows[j.user]])
       \/ Done(r)
    /\ UNCHANGED <<rows, azure, vouched, stale>>

ReadForUnregister(r) ==
    LET j == job[r] IN
    /\ pc[r] = "read" /\ j.op = "unregister"
    /\ \/ /\ rows[j.user] # Absent
          /\ At(r, "delete", [j EXCEPT !.was = rows[j.user]])
       \/ Done(r)
    /\ UNCHANGED <<rows, azure, vouched, stale>>

\* Requests that have read the row of user u and are going to change it.
Writing(u) == {q \in Requests : pc[q] \in {"upsert", "delete"} /\ job[q].user = u}

Store(r, s) ==
    LET u == job[r].user IN
    /\ rows' = [rows EXCEPT ![u] = s]
    /\ stale' = (stale \cup Writing(u)) \ {r}

\* Mutant: the row is stored under defaults again, without its activity.
UpsertServerForgetsActivity(r) ==
    /\ pc[r] = "upsert"
    /\ Store(r, [job[r].server EXCEPT !.active = FALSE]) \/ UNCHANGED <<rows, stale>>
    /\ Done(r)
    /\ UNCHANGED <<azure, vouched>>

\* A write that is answered with an error has been applied or has not.
UpsertServerInDatabase(r) ==
    /\ pc[r] = "upsert"
    /\ Store(r, job[r].server) \/ UNCHANGED <<rows, stale>>
    /\ Done(r)
    /\ UNCHANGED <<azure, vouched>>

DeleteServerFromDatabase(r) ==
    /\ pc[r] = "delete"
    /\ \/ rows[job[r].user] # Absent /\ Store(r, Absent)
       \/ UNCHANGED <<rows, stale>>
    /\ Done(r)
    /\ UNCHANGED <<azure, vouched>>

\* Somebody changes a role assignment in Azure.
ChangeRole(p, s, role) ==
    /\ azure[p, s] # role
    /\ azure' = [azure EXCEPT ![<<p, s>>] = role]
    /\ UNCHANGED <<rows, pc, job, vouched, stale>>

\* The process ends and is started again.
Restart ==
    /\ pc' = [r \in Requests |-> "idle"]
    /\ job' = [r \in Requests |-> NoJob]
    /\ stale' = {}
    /\ UNCHANGED <<rows, azure, vouched>>

-----------------------------------------------------------------------------

Next ==
    \/ \E r \in Requests :
        \/ \E u \in Users, b \in Bodies : RegisterSubscription(r, u, b)
        \/ \E u \in Users : Unregister(r, u) \/ UpdateActivityStatus(r, u)
        \/ IsUserAuthorized(r)
        \/ ReadForActivity(r) \/ ReadForUnregister(r)
        \/ UpsertServerInDatabase(r) \/ DeleteServerFromDatabase(r)
    \/ \E p \in Principals, s \in Subscriptions, role \in {"owner", "contributor", "none"} :
        ChangeRole(p, s, role)
    \/ Restart

Spec == Init /\ [][Next]_vars

-----------------------------------------------------------------------------

\* Whatever registrations, activity reports and deletions overlap or fail, the
\* principal a stored server acts as has been found to be owner of its
\* subscription, or contributor for a server of version V2.
\* (internal/service/server.go:34-61, 119-132; repository/server.go:37-92)
RegisteredWereAuthorized ==
    \A u \in Users : rows[u] # Absent => Vouch(rows[u]) \in vouched

Reported(row) == [row EXCEPT !.active = TRUE]

\* What a request makes of a row that nobody else changes.
Alone(j, was, is) ==
    CASE j.op = "register" -> is = j.server
      [] j.op = "unregister" -> was # Absent /\ is = Absent
      [] j.op = "activity" -> was # Absent /\ is = Reported(was)

\* A request changes a server as if it had been alone: a registration replaces
\* it, an activity report changes only its time, a deletion removes it.  One that
\* was overtaken since it read the row does the same to the row it has read: so
\* an activity report may bring back an earlier registration or an unregistered
\* server, but none that never was.
\* (internal/service/server.go:34-83, 119-132)
ChangesAreAccountedFor ==
    [][\A u \in Users : rows'[u] # rows[u] =>
        \E r \in Writing(u) :
            /\ pc'[r] = "idle"
            /\ Alone(job[r], IF r \in stale THEN job[r].was ELSE rows[u], rows'[u])]_vars

\* Why servers are vouched for: so are those about to be written.
WritesAreVouched ==
    \A r \in Requests : pc[r] = "upsert" => Vouch(job[r].server) \in vouched

IInv == TypeOK /\ RegisteredWereAuthorized /\ WritesAreVouched

\* Why changes are accounted for: what a report is about to write is made of the
\* row that was read, and unless it was overtaken that is the row there is.
WritesFollowReads ==
    \A r \in Requests :
        LET j == job[r] IN
        /\ pc[r] = "authorize" => j.op = "register"
        /\ pc[r] = "upsert" => j.op # "unregister"
        /\ pc[r] = "delete" => j.op = "unregister" /\ j.was # Absent
        /\ pc[r] = "upsert" /\ j.op = "activity" =>
               /\ j.was # Absent /\ j.server = Reported(j.was)
               /\ r \in stale \/ rows[j.user] = j.was
=============================================================================
