---------------------------------- MODULE Hub ----------------------------------
(***************************************************************************)
(* The deployment endpoints and the monitor in one process, on one table.  *)
(* A step of the hub is a step of a request or a step of the monitor; the  *)
(* end of the process is a step of both.  The two share the table and      *)
(* nothing else: the monitor does not read through Redis.                  *)
(*                                                                         *)
(* actlabs-server is one of the clients: what it reports of a deployment   *)
(* it is destroying comes as a PUT.                                        *)
(***************************************************************************)
EXTENDS Deployments, Naturals

CONSTANTS NoCall, MaxTime, MaxRetries

ASSUME HubAssumption ==
    /\ \A b \in Bodies : b.deadline \in Nat
    /\ \A b, c \in Bodies : b.lab = c.lab   \* labs decide nothing here
    /\ NoCall \notin [user: Users, slot: Slots, body: Bodies]
    /\ MaxTime \in Nat
    /\ MaxRetries \in Nat

VARIABLES
    now, mon, unread, batch, calling, retries, cancelled, seen,
    alone,     \* history: writes no other write of the same row overlaps
    settled,   \* history: deployments clients were told are not to be destroyed
    exempt     \* history: those settled before the poll began, and untouched since

Monitor == INSTANCE DeploymentMonitor

monitorVars == <<now, mon, unread, batch, calling, retries, cancelled>>
endpointVars == <<listCache, entryCache, pc, arg, got, reply, event,
                  entryRun, opLog, unswept, overtaken>>
ghosts == <<alone, settled, exempt>>
hubVars == <<vars, monitorVars, seen, ghosts>>

-----------------------------------------------------------------------------
(* What clients know.  A client that has been answered that its deployment  *)
(* is gone, or is one the monitor leaves alone, relies on that until the    *)
(* deployment is written again.                                             *)

Writes(r, u, s) == pc[r] # "idle" /\ arg[r].op # "list" /\ arg[r].user = u /\ arg[r].slot = s

Writing(u, s) == \E r \in Requests : Writes(r, u, s)

\* A body that does not fall due, or no row.
LeftAlone(b) ==
    \/ b = Absent
    \/ ~b.autoDelete
    \/ b.deadline = 0
    \/ b.status \notin {"Deployment Completed", "Deployment Failed"}

\* The answer of a write that met no other, with success.
Settles(r, u, s) ==
    /\ Writes(r, u, s) /\ pc'[r] = "idle"
    /\ reply'[r].code \in {"200", "204"}
    /\ r \in alone
    /\ LeftAlone(arg[r].body)

Remember ==
    LET Keys == Users \X Slots
        touched == {k \in Keys : Writing(k[1], k[2])'}
        told == {k \in Keys : \E r \in Requests : Settles(r, k[1], k[2])}
    IN
    /\ alone' = {r \in Requests :
            /\ pc'[r] # "idle"
            /\ r \in alone \/ pc[r] = "idle"
            /\ \A q \in Requests \ {r} : pc'[q] = "idle" \/ arg'[q].op = "list"
                    \/ <<arg'[q].user, arg'[q].slot>> # <<arg'[r].user, arg'[r].slot>>}
    /\ settled' = (settled \cup told) \ touched
    /\ exempt' = IF mon = "waiting" /\ mon' = "reading" THEN settled'
                 ELSE IF mon' \in {"waiting", "stopped"} THEN {}
                 ELSE exempt \ touched

-----------------------------------------------------------------------------

HubInit ==
    /\ Init
    /\ Monitor!Init
    /\ alone = {} /\ settled = {} /\ exempt = {}

\* Rows may change under the monitor at any point of a poll.
EndpointStep ==
    /\ \E r \in Requests : NewRequest(r) \/ RequestStep(r) \/ DeploymentOperationEntry(r)
    /\ seen' = IF Monitor!Polling THEN seen \cup Monitor!AllRows' ELSE seen
    /\ UNCHANGED monitorVars

\* Mutant: the poll takes a user's rows from Redis when they are there.
ReadPageThroughRedis(u) ==
    LET list == IF listCache[u] = NoList THEN table[u] ELSE listCache[u] IN
    /\ mon = "reading"
    /\ u \in unread
    /\ ~cancelled
    /\ unread' = unread \ {u}
    /\ batch' = batch \cup {d \in Monitor!Rows : d.user = u /\ list[d.slot] = d.body}
    /\ mon' = IF unread' = {} THEN "acting" ELSE "reading"
    /\ UNCHANGED <<table, now, calling, retries, cancelled, seen>>

\* "don't implement redis caching unless all updates to deployments are done
\* through the api": GetAllDeployments reads the table.
ReadPage(u) == Monitor!ReadPage(u)

MonitorStep ==
    /\ \/ Monitor!Clock \/ Monitor!Signal
       \/ Monitor!Tick \/ Monitor!Stop
       \/ \E u \in Users : ReadPage(u)
       \/ Monitor!ReadFails
       \/ retries > 0 /\ Monitor!Panic
       \/ \E d \in Monitor!Rows : Monitor!PassOver(d) \/ Monitor!AutoDestroyDeployment(d)
       \/ Monitor!Deliver \/ Monitor!CallFails \/ Monitor!ServerAnswers
       \/ Monitor!PollEnds
    /\ UNCHANGED endpointVars

\* The process ends, for whatever reason or because the Recoverer panics.
HubRestart == Restart /\ Monitor!Restart

HubNext == (EndpointStep \/ MonitorStep \/ HubRestart) /\ Remember

HubSpec == HubInit /\ [][HubNext]_hubVars

-----------------------------------------------------------------------------

\* What the endpoints do to the table is what DeploymentMonitor takes its
\* environment to do: single rows change, one at a time, and every row there
\* is while a poll goes on is one the poll may have seen.
\* (internal/repository/deployment.go:212-345, service/deployment.go:193-242)
EndpointsAreRowChanges == Monitor!Spec

\* A deployment whose client was answered that it is deleted, or is not to be
\* destroyed automatically, or is being destroyed already, before a poll began
\* is not destroyed by that poll unless it is written again: however stale the
\* list in Redis has become by failed and overtaken calls, and whatever was
\* restarted meanwhile.
\* (internal/service/deployment.go:75-191, 215-242; repository/deployment.go:36)
SettledIsNotDestroyed ==
    calling # NoCall => <<calling.user, calling.slot>> \notin exempt

\* Why that holds.  The row of a settled deployment is left alone and nobody is
\* writing it.
SettledRows ==
    \A k \in settled : ~Writing(k[1], k[2]) /\ LeftAlone(table[k[1]][k[2]])

\* The calls of a write after that to the table.
Tail == {"redisSetEntry", "redisDelEntry", "redisDelList", "eventDone"}

\* Past its table call, a write that met no other finds in the table what it
\* has written.
AloneWrites ==
    \A r \in alone :
        /\ pc[r] # "idle"
        /\ arg[r].op # "list" =>
               \A q \in Requests \ {r} : ~Writes(q, arg[r].user, arg[r].slot)
        /\ pc[r] \in Tail =>
               table[arg[r].user][arg[r].slot] = arg[r].body

\* All that a poll can have seen of an exempt deployment is left alone.
ExemptRows ==
    /\ exempt \subseteq settled
    /\ exempt # {} => Monitor!Polling
    /\ \A k \in exempt, d \in seen : k = <<d.user, d.slot>> => LeftAlone(d.body)

Ledger ==
    /\ settled \subseteq Users \X Slots
    /\ alone \subseteq Requests
    /\ SettledRows /\ AloneWrites /\ ExemptRows

HubIInv == IInv /\ Monitor!IInv /\ Ledger
=============================================================================
