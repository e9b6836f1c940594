---------------------------- MODULE Deployments ----------------------------
(***************************************************************************)
(* The deployments of actlabs-hub: PUT, DELETE and GET /deployments, from  *)
(* the gin handler through the service to the repository, which keeps the  *)
(* rows in Azure Table Storage and copies of them in Redis.                *)
(*                                                                         *)
(* Every HTTP request is a goroutine of its own and takes one step per     *)
(* call to the table or to Redis.  Nothing orders the calls of different   *)
(* requests: there is no lock, no ETag and no Redis transaction.  Every    *)
(* call may fail, also because the client went away and net/http cancelled *)
(* the request's context; a failed table write may have been applied.      *)
(***************************************************************************)
EXTENDS FiniteSets

CONSTANTS
    Users,          \* user principals, the partition keys of the table
    Workspaces,     \* terraform workspace names
    Subscriptions,  \* subscription ids
    Default,        \* the name "default"
    Bodies,         \* deployments beside workspace and subscription: records
                    \* with lab, any one field or element of deploymentLab
    Requests,       \* request goroutines that may be in flight together
    Absent,         \* no row, or no Redis key for a deployment
    NoList,         \* no Redis key for a user's list
    NoArg           \* the argument of a request slot that is idle

ASSUME DeploymentsAssumption ==
    /\ Absent \notin Bodies
    /\ NoList \notin [Workspaces \X Subscriptions -> Bodies \cup {Absent}]

\* A row key is userId-workspace-subscriptionId.  Subscription ids are GUIDs of
\* one length, so the joined string determines its parts: a slot is the pair.
Slots == Workspaces \X Subscriptions

\* The rows of one partition: what the table holds for a user, and what a
\* list of that user's deployments says.
Lists == [Slots -> Bodies \cup {Absent}]

EmptyList == [s \in Slots |-> Absent]

\* What json.Unmarshal makes of the rows l, as it fills one variable again for
\* each and copies of that variable are kept: every row has the fields of
\* entity.Deployment itself, for none of them is ever left out, but copies share
\* the arrays under the lists of their labs, and a field a lab leaves out keeps
\* the value of the row before.  Which do depends on the lengths of the lists and
\* on a type outside this repository, so what a row shows of a lab may be any
\* row's.
Decoded ==
    [l \in Lists |-> {m \in Lists : \A s \in Slots :
        IF l[s] = Absent THEN m[s] = Absent
        ELSE \E t \in Slots : l[t] # Absent /\ m[s] = [l[s] EXCEPT !.lab = l[t].lab]}]

\* The Redis keys of single deployments, userId-subscriptionId-workspace.
EntryKeys == Users \X Subscriptions \X Workspaces

EntryKey(u, s) == <<u, s[2], s[1]>>

Reasons == {"DeploymentUpdated", "DeploymentUpdateFailed",
            "DeploymentDeleted", "DeploymentDeleteFailed"}

ListArgs == [op: {"list"}, user: Users, slot: {NoArg}, body: {Absent}]
UpsertArgs == [op: {"upsert"}, user: Users, slot: Slots, body: Bodies]
DeleteArgs == [op: {"delete"}, user: Users, slot: Slots, body: {Absent}]

\* The calls of a GET, of a PUT alone, of a DELETE alone, and of both.
ListPCs == {"redisGet", "tableList", "redisSetList"}
UpsertPCs == {"tableUpsert", "redisSetEntry"}
DeletePCs == {"tableDelete"}
WritePCs == {"redisDelEntry", "redisDelList", "eventDone", "eventFailed"}

VARIABLES
    table,       \* Azure Table Storage: the rows of every partition
    listCache,   \* Redis: key userId-deployments, set without expiry
    entryCache,  \* Redis: key userId-subscriptionId-workspace, no expiry
    pc,          \* the next call a request makes
    arg,         \* what the request was asked
    got,         \* the rows a GET has read from the table
    reply,       \* the status and list a request was last answered with
    event,       \* the row a request's last operation added to the events
    entryRun,    \* DeploymentOperationEntry goroutines still to write
    opLog,       \* the deployment operations table
    unswept,     \* history: users with a table change and no DEL after it
    overtaken    \* history: fills whose key was deleted since they read

vars == <<table, listCache, entryCache, pc, arg, got, reply, event,
          entryRun, opLog, unswept, overtaken>>

LogRows == [user: Users, slot: Slots, body: Bodies]

Replies == [code: {"none", "200", "204", "500"}, list: Lists \cup {NoList}]

Code(c) == [code |-> c, list |-> NoList]

ListReply(l) == [code |-> "200", list |-> l]

TypeOK ==
    /\ table \in [Users -> Lists]
    /\ listCache \in [Users -> Lists \cup {NoList}]
    /\ entryCache \in [EntryKeys -> Bodies \cup {Absent}]
    /\ pc \in [Requests -> {"idle"} \cup ListPCs \cup UpsertPCs \cup DeletePCs \cup WritePCs]
    /\ arg \in [Requests -> ListArgs \cup UpsertArgs \cup DeleteArgs \cup {NoArg}]
    /\ \A r \in Requests :
        /\ pc[r] \in ListPCs => arg[r] \in ListArgs
        /\ pc[r] \in UpsertPCs => arg[r] \in UpsertArgs
        /\ pc[r] \in DeletePCs => arg[r] \in DeleteArgs
        /\ pc[r] \in WritePCs => arg[r] \in UpsertArgs \cup DeleteArgs
    /\ got \in [Requests -> Lists \cup {NoList}]
    /\ \A r \in Requests : pc[r] = "redisSetList" => got[r] \in Lists
    /\ reply \in [Requests -> Replies]
    /\ event \in [Requests -> Reasons \cup {"none"}]
    /\ entryRun \in [Requests -> LogRows \cup {NoArg}]
    /\ opLog \subseteq LogRows
    /\ unswept \subseteq Users
    /\ overtaken \subseteq Requests

Init ==
    /\ table = [u \in Users |-> EmptyList]
    /\ listCache = [u \in Users |-> NoList]
    /\ entryCache = [k \in EntryKeys |-> Absent]
    /\ pc = [r \in Requests |-> "idle"]
    /\ arg = [r \in Requests |-> NoArg]
    /\ got = [r \in Requests |-> NoList]
    /\ reply = [r \in Requests |-> Code("none")]
    /\ event = [r \in Requests |-> "none"]
    /\ entryRun = [r \in Requests |-> NoArg]
    /\ opLog = {}
    /\ unswept = {}
    /\ overtaken = {}

-----------------------------------------------------------------------------
(* Bookkeeping shared by the handlers' steps.                               *)

stores == <<table, listCache, entryCache>>
logs == <<event, entryRun, opLog>>
history == <<unswept, overtaken>>

Begin(r, a, at) ==
    /\ pc[r] = "idle"
    /\ pc' = [pc EXCEPT ![r] = at]
    /\ arg' = [arg EXCEPT ![r] = a]
    /\ reply' = [reply EXCEPT ![r] = Code("none")]
    /\ event' = [event EXCEPT ![r] = "none"]
    /\ UNCHANGED <<got, entryRun, opLog>>

Refuse(r, answer) ==
    /\ pc[r] = "idle"
    /\ reply' = [reply EXCEPT ![r] = answer]
    /\ event' = [event EXCEPT ![r] = "none"]
    /\ UNCHANGED <<stores, history, entryRun, opLog, pc, arg, got>>

GoTo(r, at) ==
    /\ pc' = [pc EXCEPT ![r] = at]
    /\ UNCHANGED <<arg, got, reply>>

\* The handler writes the response and the goroutine ends.
Respond(r, answer) ==
    /\ pc' = [pc EXCEPT ![r] = "idle"]
    /\ arg' = [arg EXCEPT ![r] = NoArg]
    /\ got' = [got EXCEPT ![r] = NoList]
    /\ reply' = [reply EXCEPT ![r] = answer]

\* Requests that changed the table and have yet to delete the list from Redis.
Sweeping(u) ==
    \E r \in Requests :
        /\ pc[r] \in {"redisSetEntry", "redisDelEntry", "redisDelList"}
        /\ arg[r].user = u

-----------------------------------------------------------------------------
(* GET /deployments                                                         *)

GetUserDeployments(r, u) ==
    /\ Begin(r, [op |-> "list", user |-> u, slot |-> NoArg, body |-> Absent],
             "redisGet")
    /\ UNCHANGED <<stores, history>>

\* A hit is answered at once.  A Redis error is treated like a miss.
RedisGetList(r) ==
    LET u == arg[r].user IN
    /\ pc[r] = "redisGet"
    /\ \/ listCache[u] # NoList /\ Respond(r, ListReply(listCache[u]))
       \/ GoTo(r, "tableList")
    /\ UNCHANGED <<stores, logs, history>>

\* Mutant: the error of the table listing is not returned.
TableListDropsError(r) ==
    /\ pc[r] = "tableList"
    /\ \/ GoTo(r, "redisSetList")
       \/ /\ pc' = [pc EXCEPT ![r] = "redisSetList"]
          /\ \E m \in Decoded[table[arg[r].user]] : got' = [got EXCEPT ![r] = m]
          /\ UNCHANGED <<arg, reply>>
    /\ UNCHANGED <<stores, logs, history>>

\* Mutant: the listing is not filtered by the user's partition.
TableListUnfiltered(r) ==
    /\ pc[r] = "tableList"
    /\ \/ /\ pc' = [pc EXCEPT ![r] = "redisSetList"]
          /\ \E v \in Users : \E m \in Decoded[table[v]] : got' = [got EXCEPT ![r] = m]
          /\ UNCHANGED <<arg, reply>>
       \/ Respond(r, Code("500"))
    /\ UNCHANGED <<stores, logs, history>>

\* The rows of a user come in one page.
TableList(r) ==
    /\ pc[r] = "tableList"
    /\ \/ /\ pc' = [pc EXCEPT ![r] = "redisSetList"]
          /\ \E m \in Decoded[table[arg[r].user]] : got' = [got EXCEPT ![r] = m]
          /\ UNCHANGED <<arg, reply>>
       \/ Respond(r, Code("500"))
    /\ UNCHANGED <<stores, logs, history>>

\* The rows read are stored and answered, however old they have become.
RedisSetList(r) ==
    LET u == arg[r].user IN
    /\ pc[r] = "redisSetList"
    /\ \/ /\ listCache' = [listCache EXCEPT ![u] = got[r]]
          /\ unswept' = IF r \in overtaken THEN unswept \cup {u} ELSE unswept
       \/ UNCHANGED <<listCache, unswept>>
    /\ Respond(r, ListReply(got[r]))
    /\ overtaken' = overtaken \ {r}
    /\ UNCHANGED <<table, entryCache, logs>>

-----------------------------------------------------------------------------
(* PUT /deployments                                                         *)

\* entryRun[r] = NoArg bounds the goroutines: a request slot is not used
\* again before the operation entry its last request started is finished.
UpsertDeployment(r, u, s, b) ==
    /\ entryRun[r] = NoArg
    /\ Begin(r, [op |-> "upsert", user |-> u, slot |-> s, body |-> b],
             "tableUpsert")
    /\ UNCHANGED <<stores, history>>

\* An empty workspace or subscription id is refused before any call.
RefuseEmptyUpsert(r) == Refuse(r, Code("500"))

\* Mutant: the error of the table write is swallowed.
TableUpsertSwallowsError(r) ==
    /\ pc[r] = "tableUpsert"
    /\ GoTo(r, "redisSetEntry")
    /\ \/ table' = [table EXCEPT ![arg[r].user][arg[r].slot] = arg[r].body]
       \/ UNCHANGED table
    /\ UNCHANGED <<unswept, listCache, entryCache, logs, overtaken>>

TableUpsert(r) ==
    LET a == arg[r]
        Written == [table EXCEPT ![a.user][a.slot] = a.body]
    IN
    /\ pc[r] = "tableUpsert"
    /\ \/ GoTo(r, "redisSetEntry") /\ table' = Written /\ UNCHANGED unswept
       \/ GoTo(r, "eventFailed") /\ UNCHANGED <<table, unswept>>
       \/ /\ GoTo(r, "eventFailed")
          /\ table' = Written
          /\ unswept' = unswept \cup {a.user}
    /\ UNCHANGED <<listCache, entryCache, logs, overtaken>>

\* Mutant: the PUT that has cached its entry does not delete the list.
RedisSetEntryKeepsList(r) ==
    LET a == arg[r] IN
    /\ pc[r] = "redisSetEntry"
    /\ \/ /\ entryCache' = [entryCache EXCEPT ![EntryKey(a.user, a.slot)] = a.body]
          /\ GoTo(r, "eventDone")
       \/ UNCHANGED entryCache /\ GoTo(r, "redisDelEntry")
    /\ UNCHANGED <<table, listCache, logs, history>>

\* The new value is cached; if that fails the old one is to be deleted.
RedisSetEntry(r) ==
    LET a == arg[r] IN
    /\ pc[r] = "redisSetEntry"
    /\ \/ /\ entryCache' = [entryCache EXCEPT ![EntryKey(a.user, a.slot)] = a.body]
          /\ GoTo(r, "redisDelList")
       \/ UNCHANGED entryCache /\ GoTo(r, "redisDelEntry")
    /\ UNCHANGED <<table, listCache, logs, history>>

-----------------------------------------------------------------------------
(* DELETE /deployments/:subscriptionId/:workspace                           *)

\* The handler passes (user, workspace, subscriptionId) to a service whose
\* parameters are (user, subscriptionId, workspace), and the service passes
\* its own two on to a repository that takes them the other way round again.
\* The right row is deleted, and the guard on "default" sees the subscription.
DeleteDeployment(r, u, s) ==
    LET workspace == s[2] IN
    /\ workspace # Default
    /\ Begin(r, [op |-> "delete", user |-> u, slot |-> s, body |-> Absent],
             "tableDelete")
    /\ UNCHANGED <<stores, history>>

\* A path whose subscription id is "default": answered 204, nothing done.
RefuseDefaultDelete(r) == Refuse(r, Code("204"))

\* DeleteEntity fails when the row does not exist.
TableDelete(r) ==
    LET a == arg[r]
        Removed == [table EXCEPT ![a.user][a.slot] = Absent]
    IN
    /\ pc[r] = "tableDelete"
    /\ \/ /\ table[a.user][a.slot] # Absent
          /\ GoTo(r, "redisDelEntry")
          /\ table' = Removed
          /\ UNCHANGED unswept
       \/ GoTo(r, "eventFailed") /\ UNCHANGED <<table, unswept>>
       \/ /\ table[a.user][a.slot] # Absent
          /\ GoTo(r, "eventFailed")
          /\ table' = Removed
          /\ unswept' = unswept \cup {a.user}
    /\ UNCHANGED <<listCache, entryCache, logs, overtaken>>

-----------------------------------------------------------------------------
(* The tail PUT and DELETE share.                                           *)

\* Mutant: when deleting the entry fails the list is not deleted either.
RedisDelEntryGivesUp(r) ==
    LET k == EntryKey(arg[r].user, arg[r].slot) IN
    /\ pc[r] = "redisDelEntry"
    /\ \/ /\ entryCache' = [entryCache EXCEPT ![k] = Absent]
          /\ GoTo(r, "redisDelList")
       \/ UNCHANGED entryCache /\ GoTo(r, "eventDone")
    /\ UNCHANGED <<table, listCache, logs, history>>

RedisDelEntry(r) ==
    LET k == EntryKey(arg[r].user, arg[r].slot) IN
    /\ pc[r] = "redisDelEntry"
    /\ \/ entryCache' = [entryCache EXCEPT ![k] = Absent]
       \/ UNCHANGED entryCache
    /\ GoTo(r, "redisDelList")
    /\ UNCHANGED <<table, listCache, logs, history>>

\* Fills of user u that have read the table and not yet stored what they read.
Filling(u) == {q \in Requests : pc[q] = "redisSetList" /\ arg[q].user = u}

RedisDelList(r) ==
    LET u == arg[r].user IN
    /\ pc[r] = "redisDelList"
    /\ \/ /\ listCache' = [listCache EXCEPT ![u] = NoList]
          /\ unswept' = unswept \ {u}
          /\ overtaken' = overtaken \cup Filling(u)
       \/ /\ unswept' = unswept \cup {u}
          /\ UNCHANGED <<listCache, overtaken>>
    /\ GoTo(r, "eventDone")
    /\ UNCHANGED <<table, entryCache, logs>>

\* CreateEvent; an error is logged and ignored.
Record(r, reason) ==
    \/ event' = [event EXCEPT ![r] = reason]
    \/ UNCHANGED event

\* The success event, then for a PUT the goroutine that writes the operation
\* entry under a context of its own, then the answer.
EventDone(r) ==
    LET a == arg[r] IN
    /\ pc[r] = "eventDone"
    /\ \/ /\ a.op = "upsert"
          /\ Record(r, "DeploymentUpdated")
          /\ entryRun' = [entryRun EXCEPT
                ![r] = [user |-> a.user, slot |-> a.slot, body |-> a.body]]
          /\ Respond(r, Code("200"))
       \/ /\ a.op = "delete"
          /\ Record(r, "DeploymentDeleted")
          /\ UNCHANGED entryRun
          /\ Respond(r, Code("204"))
    /\ UNCHANGED <<stores, opLog, history>>

\* The warning event.  The DELETE handler goes on to set 204 after it has
\* written 500, which no longer changes the status.
EventFailed(r) ==
    LET a == arg[r] IN
    /\ pc[r] = "eventFailed"
    /\ Record(r, IF a.op = "upsert" THEN "DeploymentUpdateFailed"
                                    ELSE "DeploymentDeleteFailed")
    /\ Respond(r, Code("500"))
    /\ UNCHANGED <<stores, entryRun, opLog, history>>

DeploymentOperationEntry(r) ==
    /\ entryRun[r] # NoArg
    /\ entryRun' = [entryRun EXCEPT ![r] = NoArg]
    /\ \/ opLog' = opLog \cup {entryRun[r]}
       \/ UNCHANGED opLog   \* the write failed: logged and ignored
    /\ UNCHANGED <<stores, event, history, pc, arg, got, reply>>

\* The hub process ends (os.Exit after SIGTERM, a kill, a panic outside gin's
\* recovery) and is started again: requests and goroutines are gone, the
\* table and Redis are not.
Restart ==
    /\ unswept' = unswept \cup {u \in Users : Sweeping(u)}
    /\ overtaken' = {}
    /\ pc' = [r \in Requests |-> "idle"]
    /\ arg' = [r \in Requests |-> NoArg]
    /\ got' = [r \in Requests |-> NoList]
    /\ reply' = [r \in Requests |-> Code("none")]
    /\ entryRun' = [r \in Requests |-> NoArg]
    /\ event' = [r \in Requests |-> "none"]
    /\ UNCHANGED <<stores, opLog>>

-----------------------------------------------------------------------------

RequestStep(r) ==
    \/ RedisGetList(r) \/ TableList(r) \/ RedisSetList(r)
    \/ TableUpsert(r) \/ RedisSetEntry(r)
    \/ TableDelete(r)
    \/ RedisDelEntry(r) \/ RedisDelList(r)
    \/ EventDone(r) \/ EventFailed(r)

NewRequest(r) ==
    \/ \E u \in Users : GetUserDeployments(r, u)
    \/ \E u \in Users, s \in Slots, b \in Bodies : UpsertDeployment(r, u, s, b)
    \/ RefuseEmptyUpsert(r)
    \/ \E u \in Users, s \in Slots : DeleteDeployment(r, u, s)
    \/ RefuseDefaultDelete(r)

Next ==
    \/ \E r \in Requests :
        NewRequest(r) \/ RequestStep(r) \/ DeploymentOperationEntry(r)
    \/ Restart

Spec == Init /\ [][Next]_vars

-----------------------------------------------------------------------------

\* A list in Redis differs from what a listing of the table makes now only while a request that
\* changed the table is still to delete it, or when the deletion after the
\* last change was lost: the DEL failed, the table reported an error for a
\* write it had applied, the process ended in between, or a GET stored rows
\* it had read before a DEL that did not find them.
\* (internal/repository/deployment.go:134-143, 243-267, 323-342)
StaleListIsExplained ==
    \A u \in Users :
        listCache[u] \notin {NoList} \cup Decoded[table[u]] => u \in unswept \/ Sweeping(u)

\* The same of a list that a GET has read and is about to store, unless a DEL
\* has come in between: what makes StaleListIsExplained inductive.
StaleFillIsExplained ==
    \A r \in Requests \ overtaken :
        LET u == arg[r].user IN
        pc[r] = "redisSetList" /\ got[r] \notin Decoded[table[u]] =>
            u \in unswept \/ Sweeping(u)

\* "default deployment cant be deleted.": no step takes the row of a user's
\* workspace "default" out of the table.
\* (comment at internal/service/deployment.go:135)
DefaultIsKept ==
    [][\A u \in Users, s \in Slots :
        s[1] = Default /\ table[u][s] # Absent => table'[u][s] # Absent]_vars

IInv == TypeOK /\ StaleListIsExplained /\ StaleFillIsExplained
=============================================================================
