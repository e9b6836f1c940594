------------------------ MODULE DeploymentsHistory ------------------------
(***************************************************************************)
(* Deployments with a history variable: the states each user's partition   *)
(* of the table has been in.  With it the endpoints are shown to implement *)
(* DeploymentRegistry.                                                     *)
(***************************************************************************)
EXTENDS Deployments

VARIABLE past

historyVars == <<vars, past>>

HInit == Init /\ past = [u \in Users |-> {table[u]}]

HNext == Next /\ past' = [u \in Users |-> past[u] \cup {table'[u]}]

HSpec == HInit /\ [][HNext]_historyVars

\* The blank for no request and for no slot is neither.
ASSUME HistoryAssumption ==
    /\ NoArg \notin Slots
    /\ NoArg \notin [phase: {"asked", "applied", "failed"}, user: Users,
                     slot: Slots \cup {NoArg}, body: Bodies \cup {Absent}]

\* How far a request is, seen from outside.
Phase(at) ==
    CASE at \in ListPCs \cup {"tableUpsert", "tableDelete"} -> "asked"
      [] at = "eventFailed" -> "failed"
      [] OTHER -> "applied"

CallAs(at, a) ==
    IF at = "idle" THEN NoArg
    ELSE [phase |-> Phase(at), user |-> a.user, slot |-> a.slot, body |-> a.body]

Calls == [r \in Requests |-> CallAs(pc[r], arg[r])]

ResultAs(answer) ==
    [code |-> CASE answer.code = "none" -> "none"
                [] answer.code = "500" -> "error"
                [] OTHER -> "ok",
     list |-> IF answer.list = NoList THEN NoArg ELSE answer.list]

Results == [r \in Requests |-> ResultAs(reply[r])]

NoteAs(reason) ==
    CASE reason = "none" -> "none"
      [] reason \in {"DeploymentUpdated", "DeploymentDeleted"} -> "ok"
      [] OTHER -> "error"

Notes == [r \in Requests |-> NoteAs(event[r])]

Registry == INSTANCE DeploymentRegistry WITH
    None <- NoArg,
    rows <- table,
    call <- Calls,
    result <- Results,
    noted <- Notes,
    log <- opLog

\* The endpoints implement the registry: cached, raced and failing as the
\* calls are, a request changes its own row once and in its own time, success
\* follows the change, the event says what the answer says, every list answered,
\* from Redis or from the table, has the rows of one whole past state of the user,
\* with the labs of that state's rows if not each its own, and operations are
\* logged only for rows that were written.
\* (internal/repository/deployment.go:76-146, 212-345; service/deployment.go:75-191)
ImplementsRegistry == Registry!Spec

\* What listings of rows that have been in these states can have looked like.
Listings(states) == UNION {Decoded[l] : l \in states}

\* Lists in Redis, and lists read and about to be stored there, are listings of
\* one past state of the right user's rows, never of another user's and never of
\* rows that were not there together; operation entries are of rows written.
\* (internal/repository/deployment.go:76-146, service/deployment.go:129)
CopiesAreOfPastRows ==
    /\ \A u \in Users : listCache[u] \in Listings(past[u]) \cup {NoList}
    /\ \A r \in Requests : pc[r] = "redisSetList" => got[r] \in Listings(past[arg[r].user])
    /\ \A r \in Requests : entryRun[r] # NoArg =>
        \E l \in past[entryRun[r].user] : l[entryRun[r].slot] = entryRun[r].body

\* Why operation entries are: a PUT that is past the table has written its row.
WritesAreOfPastRows ==
    \A r \in Requests :
        /\ pc[r] \in {"redisSetEntry", "redisDelEntry", "redisDelList", "eventDone"}
        /\ arg[r].op = "upsert"
        => \E l \in past[arg[r].user] : l[arg[r].slot] = arg[r].body

\* The history is one of lists and ends with the present one.
PastIsOfRows ==
    /\ past \in [Users -> SUBSET Lists]
    /\ \A u \in Users : table[u] \in past[u]

HIInv == IInv /\ PastIsOfRows /\ CopiesAreOfPastRows /\ WritesAreOfPastRows
=============================================================================
