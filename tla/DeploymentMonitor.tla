------------------------- MODULE DeploymentMonitor -------------------------
(***************************************************************************)
(* The background goroutine that asks actlabs-server to destroy expired    *)
(* deployments, the Recoverer it runs under, and the hub's shutdown.       *)
(*                                                                         *)
(* A poll reads the whole deployments table page by page, without Redis,   *)
(* and then works through what it has read.  Meanwhile PUT and DELETE      *)
(* change the table; as DeploymentsHistory shows, to others they look like *)
(* single changes of one row, and that is how they appear here.            *)
(***************************************************************************)
EXTENDS Naturals

CONSTANTS
    Users,       \* partitions of the table; a page holds whole partitions
    Slots,       \* workspace and subscription: the rows of a partition
    Bodies,      \* deployments: status, autoDelete, deadline, which decide
                 \* what becomes of a row; what a POST says of a lab is left out
    Absent,      \* no row
    NoCall,      \* no request to actlabs-server under way
    MaxTime,     \* bound of the clock
    MaxRetries   \* how often Recoverer starts the monitor again: 100

Rows == [user: Users, slot: Slots, body: Bodies]

ASSUME MonitorAssumption ==
    /\ \A b \in Bodies : b.deadline \in Nat
    /\ Absent \notin Bodies
    /\ NoCall \notin Rows
    /\ MaxTime \in Nat
    /\ MaxRetries \in Nat

VARIABLES
    table,      \* the deployments table
    now,        \* the time in Unix seconds
    mon,        \* where the monitor goroutine is
    unread,     \* partitions the listing has not reached
    batch,      \* rows read and not yet looked at
    calling,    \* the row of the destroy request under way
    retries,    \* what Recoverer has left
    cancelled,  \* the root context: SIGTERM has come
    seen        \* history: rows the table has held since the poll began

vars == <<table, now, mon, unread, batch, calling, retries, cancelled, seen>>

RowsOf(u) == {d \in Rows : d.user = u /\ table[u][d.slot] = d.body}

AllRows == {d \in Rows : table[d.user][d.slot] = d.body}

TypeOK ==
    /\ table \in [Users -> [Slots -> Bodies \cup {Absent}]]
    /\ now \in 0..MaxTime
    /\ mon \in {"waiting", "reading", "acting", "calling", "delivered", "stopped"}
    /\ unread \subseteq Users
    /\ batch \subseteq Rows
    /\ calling \in Rows \cup {NoCall}
    /\ retries \in 0..MaxRetries
    /\ cancelled \in BOOLEAN
    /\ seen \subseteq Rows

Init ==
    /\ table = [u \in Users |-> [s \in Slots |-> Absent]]
    /\ now = 0
    /\ mon = "waiting"
    /\ unread = {}
    /\ batch = {}
    /\ calling = NoCall
    /\ retries = MaxRetries
    /\ cancelled = FALSE
    /\ seen = {}

\* Mutant: the rows read are kept for the next poll.
RestKeepsBatch ==
    /\ unread' = {}
    /\ UNCHANGED batch
    /\ calling' = NoCall
    /\ seen' = {}

\* What the monitor keeps between two polls: nothing.
Rest ==
    /\ unread' = {}
    /\ batch' = {}
    /\ calling' = NoCall
    /\ seen' = {}

-----------------------------------------------------------------------------
(* Around the monitor                                                       *)

ChangeRow(u, s, b) ==
    /\ table[u][s] # b
    /\ table' = [table EXCEPT ![u][s] = b]
    /\ seen' = IF mon \in {"waiting", "stopped"} THEN seen ELSE seen \cup AllRows'
    /\ UNCHANGED <<now, mon, unread, batch, calling, retries, cancelled>>

Clock ==
    /\ now < MaxTime
    /\ now' = now + 1
    /\ UNCHANGED <<table, mon, unread, batch, calling, retries, cancelled, seen>>

\* SIGTERM or SIGINT cancels the root context and nothing else.
Signal ==
    /\ ~cancelled
    /\ cancelled' = TRUE
    /\ UNCHANGED <<table, now, mon, unread, batch, calling, retries, seen>>

\* The process ends, five seconds after the signal or for any other reason,
\* and the container is started again.
Restart ==
    /\ mon' = "waiting"
    /\ retries' = MaxRetries
    /\ cancelled' = FALSE
    /\ Rest
    /\ UNCHANGED <<table, now>>

-----------------------------------------------------------------------------
(* The loop of MonitorAndAutoDestroyDeployments                             *)

\* With the context cancelled and a tick pending, select takes either.
Tick ==
    /\ mon = "waiting"
    /\ mon' = "reading"
    /\ unread' = Users
    /\ seen' = AllRows
    /\ UNCHANGED <<table, now, batch, calling, retries, cancelled>>

Stop ==
    /\ mon = "waiting"
    /\ cancelled
    /\ mon' = "stopped"
    /\ UNCHANGED <<table, now, unread, batch, calling, retries, cancelled, seen>>

\* Mutant: a page that came back incomplete is asked for again.
ReadPageAgain(u) ==
    /\ mon = "reading"
    /\ u \in unread
    /\ ~cancelled
    /\ unread' \in {unread, unread \ {u}}
    /\ batch' = batch \cup RowsOf(u)
    /\ mon' = IF unread' = {} THEN "acting" ELSE "reading"
    /\ UNCHANGED <<table, now, calling, retries, cancelled, seen>>

\* GetAllDeployments: the pager's calls carry the root context.
ReadPage(u) ==
    /\ mon = "reading"
    /\ u \in unread
    /\ ~cancelled
    /\ unread' = unread \ {u}
    /\ batch' = batch \cup RowsOf(u)
    /\ mon' = IF unread' = {} THEN "acting" ELSE "reading"
    /\ UNCHANGED <<table, now, calling, retries, cancelled, seen>>

\* Mutant: a page that cannot be read ends the monitor.
ReadFailsForGood ==
    /\ mon = "reading"
    /\ mon' = "stopped"
    /\ Rest
    /\ UNCHANGED <<table, now, retries, cancelled>>

\* A page that cannot be read ends the poll: logged, until the next tick.
ReadFails ==
    /\ mon = "reading"
    /\ mon' = "waiting"
    /\ Rest
    /\ UNCHANGED <<table, now, retries, cancelled>>

\* Mutant: the number of retries left is not looked at.
PanicForEver ==
    /\ mon = "reading"
    /\ mon' = "waiting"
    /\ retries' = IF retries = 0 THEN MaxRetries + 1 ELSE retries - 1
    /\ Rest
    /\ UNCHANGED <<table, now, cancelled>>

\* Mutant: out of retries the goroutine ends and the process goes on.
PanicGivesUp ==
    /\ mon = "reading"
    /\ mon' = IF retries > 0 THEN "waiting" ELSE "stopped"
    /\ retries' = IF retries > 0 THEN retries - 1 ELSE retries
    /\ Rest
    /\ UNCHANGED <<table, now, cancelled>>

\* A row without its Deployment property makes the type assertion panic.
\* Recoverer starts the loop again in a new goroutine; when it has no retries
\* left it panics itself, which ends the process.
Panic ==
    /\ mon = "reading"
    /\ \/ /\ retries > 0
          /\ retries' = retries - 1
          /\ mon' = "waiting"
          /\ Rest
          /\ UNCHANGED <<table, now, cancelled>>
       \/ retries = 0 /\ Restart

Due(b) ==
    /\ b.autoDelete
    /\ b.deadline < now
    /\ b.deadline # 0
    /\ b.status \in {"Deployment Completed", "Deployment Failed"}

\* The next deployment of the batch: passed over, or to be destroyed.
PassOver(d) ==
    /\ mon = "acting"
    /\ d \in batch
    /\ ~Due(d.body)
    /\ batch' = batch \ {d}
    /\ UNCHANGED <<table, now, mon, unread, calling, retries, cancelled, seen>>

AutoDestroyDeployment(d) ==
    /\ mon = "acting"
    /\ d \in batch
    /\ Due(d.body)
    /\ batch' = batch \ {d}
    /\ calling' = d
    /\ mon' = "calling"
    /\ UNCHANGED <<table, now, unread, retries, cancelled, seen>>

\* The POST reaches actlabs-server, whatever has become of the context.
Deliver ==
    /\ mon = "calling"
    /\ mon' = "delivered"
    /\ UNCHANGED <<table, now, unread, batch, calling, retries, cancelled, seen>>

NextRow ==
    /\ mon' = "acting"
    /\ calling' = NoCall
    /\ UNCHANGED <<table, now, unread, batch, retries, cancelled, seen>>

\* The POST fails before or after it has reached the server: ignored.
CallFails == mon \in {"calling", "delivered"} /\ NextRow

\* Any status: the poll ignores it.  The client has no timeout.
ServerAnswers == mon = "delivered" /\ NextRow

PollEnds ==
    /\ mon = "acting"
    /\ batch = {}
    /\ mon' = "waiting"
    /\ Rest
    /\ UNCHANGED <<table, now, retries, cancelled>>

-----------------------------------------------------------------------------

Next ==
    \/ \E u \in Users, s \in Slots, b \in Bodies \cup {Absent} : ChangeRow(u, s, b)
    \/ Clock
    \/ Signal
    \/ Restart
    \/ Tick
    \/ Stop
    \/ \E u \in Users : ReadPage(u)
    \/ ReadFails
    \/ Panic
    \/ \E d \in Rows : PassOver(d) \/ AutoDestroyDeployment(d)
    \/ Deliver
    \/ CallFails
    \/ ServerAnswers
    \/ PollEnds

Spec == Init /\ [][Next]_vars

-----------------------------------------------------------------------------
(* Fairness.  The goroutine is scheduled and the ticker ticks.  Calls may   *)
(* fail and the process may be restarted any number of times, but neither   *)
(* happens at the same point for ever: a listing that is begun again and    *)
(* again is some time read to its end, a destroy request that is made again *)
(* and again some time arrives.  After a signal the process does end.       *)

ListingGoesOn(left) == unread = left /\ \E u \in Users : ReadPage(u)

\* The deployment of user u in slot s is the next the poll looks at.
LookedAt(u, s) == \E b \in Bodies :
    LET d == [user |-> u, slot |-> s, body |-> b]
    IN  PassOver(d) \/ AutoDestroyDeployment(d)

Posting(u, s) == calling # NoCall /\ calling.user = u /\ calling.slot = s

HubFairness ==
    /\ WF_vars(Tick)
    /\ WF_vars(PollEnds)
    /\ WF_vars(cancelled /\ Restart)
    /\ \A left \in SUBSET Users : SF_vars(ListingGoesOn(left))
    /\ \A u \in Users, s \in Slots :
        /\ SF_vars(LookedAt(u, s))
        /\ SF_vars(Posting(u, s) /\ Deliver)

\* Nothing is assumed of the answer to a request that actlabs-server has taken.
FairSpec == Spec /\ HubFairness

-----------------------------------------------------------------------------

\* The deployment a destroy request is made for need not be in the table any
\* more, but it has been since the poll began: never one deleted, replaced or
\* opted out of auto-deletion before that.  And it is due by its own fields.
\* (internal/service/deployment.go:215-242)
DestroysWhatThePollSaw ==
    mon \in {"calling", "delivered"} => calling \in seen /\ Due(calling.body)

Polling == mon \in {"reading", "acting", "calling", "delivered"}

\* Why that holds: while a poll is on, all rows of the table and all rows of
\* the batch have been seen; between polls nothing is kept.
PollIsRecent ==
    /\ Polling => AllRows \subseteq seen /\ batch \subseteq seen
    /\ ~Polling => batch = {}

\* A poll asks at most once for the destruction of a user's workspace, also when
\* its row is replaced while the poll goes on: what the poll has still to look
\* at is never another version of the deployment it is posting.
\* (internal/service/deployment.go:215-242, repository/deployment.go:41-71)
OnePostPerPoll ==
    calling # NoCall =>
        \A d \in batch : <<d.user, d.slot>> # <<calling.user, calling.slot>>

\* Why that holds: a partition is read once, so no two rows of the batch have
\* one key, and a row is taken out of the batch before it is posted.
RowsReadOnce ==
    /\ \A d, e \in batch : d.user = e.user /\ d.slot = e.slot => d = e
    /\ \A d \in batch : d.user \notin unread
    /\ unread # {} => mon = "reading"
    /\ calling # NoCall <=> mon \in {"calling", "delivered"}

RecentInv == TypeOK /\ PollIsRecent /\ DestroysWhatThePollSaw

IInv == RecentInv /\ RowsReadOnce /\ OnePostPerPoll

\* The client of the destroy request has no timeout: one that is never answered
\* holds the monitor for ever.
NeverAnswered == <>[](mon = "delivered")

\* A deployment that stays due and unchanged is posted to actlabs-server, and
\* again on later polls: a failed call, a failed listing, a panic, a restart
\* or another deployment before it in the batch only delay it, as long as
\* nobody goes on stopping the hub and no request is left without an answer.
\* (internal/service/deployment.go:193-242; helper/recoverer.go:9-41)
DueRowIsPosted ==
    \A d \in Rows :
        <>[](table[d.user][d.slot] = d.body /\ Due(d.body) /\ ~cancelled)
            => []<>(mon = "delivered" /\ calling = d) \/ NeverAnswered

\* Nothing but a request without an answer holds the monitor: from every poll,
\* panic and shutdown it comes back to waiting for its ticker.
\* (internal/repository/deployment.go:365-389; helper/recoverer.go:26-35)
MonitorComesBack == []<>(mon = "waiting") \/ NeverAnswered
=============================================================================
