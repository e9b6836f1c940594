----------------------------- MODULE Challenges -----------------------------
(***************************************************************************)
(* Challenges: a user challenges others to a lab, actlabs-server reports   *)
(* their progress, and those the lab allows may delete a challenge.  A     *)
(* challenge is a row of a table, written whole and without an ETag; its   *)
(* deletion is allowed by a row and a lab that are read before, the lab    *)
(* perhaps from a cached copy.  A request is a goroutine that takes one    *)
(* step per call, any call may fail, and a failed write may have been      *)
(* applied.  CreateChallenges is behind no route.                          *)
(***************************************************************************)
EXTENDS Naturals, Sequences

CONSTANTS
    Users,       \* user ids
    Labs,        \* lab ids
    Nobody,      \* no user
    Bodies,      \* bound: the rows clients send
    Reports,     \* bound: the statuses actlabs-server reports
    Challenged,  \* bound: the users that are challenged
    Versions,    \* bound: the versions labs are saved in
    MaxList,     \* bound: the length of a list a client sends
    Requests,    \* request goroutines that may be in flight together
    Absent,      \* no row
    NoJob        \* a request slot that is idle

Slots == Challenged \X Labs

\* The statuses applyStatusTransition knows, each with a time of that name.
Statuses == {"created", "accepted", "completed"}

Rows == [by: Users, status: Statuses \cup {"failed"}, times: SUBSET Statuses]

\* Of a lab: its owners and editors, and its two controls of deletion.
LabVersions == [staff: SUBSET Users, challengerMay: BOOLEAN, userMay: BOOLEAN]

Items == [slot: Slots, body: Rows \cup {Absent}]

Jobs == [op: {"upsert", "update", "delete"},
         caller: Users \cup {Nobody},  \* who deletes
         status: Statuses,
         todo: Seq(Items),         \* the items the loop has not finished
         row: Rows \cup {Absent},  \* what was read, or is to be written
         was: Rows \cup {Absent},  \* history: the row a report is made of
         code: {"none", "200", "500"},
         asked: SUBSET Slots,      \* history: all items
         applied: SUBSET Slots]    \* history: items this request has written

ASSUME ChallengesAssumption ==
    /\ MaxList \in Nat
    /\ Challenged \subseteq Users
    /\ Nobody \notin Users
    /\ Bodies \subseteq Rows
    /\ Reports \subseteq Statuses
    /\ Versions \subseteq LabVersions
    /\ Absent \notin Rows
    /\ NoJob \notin Jobs

VARIABLES
    rows,      \* the challenges table
    versions,  \* the versions each lab has had: a copy of any may be cached
    pc,        \* the next call a request makes
    job,       \* what is asked and how far it is
    stale      \* history: requests whose row was changed since they read it

vars == <<rows, versions, pc, job, stale>>

TypeOK ==
    /\ rows \in [Slots -> Rows \cup {Absent}]
    /\ versions \in [Labs -> SUBSET LabVersions]
    /\ pc \in [Requests -> {"idle", "read", "readRow", "readLab", "upsert", "delete", "answer"}]
    /\ job \in [Requests -> Jobs \cup {NoJob}]
    /\ \A r \in Requests :
        /\ pc[r] = "idle" <=> job[r] = NoJob
        /\ pc[r] \in {"upsert", "read", "readRow", "readLab", "delete"} => job[r].todo # <<>>
        /\ pc[r] = "upsert" /\ job[r].op = "upsert" => Head(job[r].todo).body # Absent
        /\ pc[r] = "upsert" /\ job[r].op = "update" => job[r].row # Absent
        /\ pc[r] = "readLab" => job[r].row # Absent
    /\ stale \subseteq Requests

Init ==
    /\ rows = [k \in Slots |-> Absent]
    /\ versions = [l \in Labs |-> {}]
    /\ pc = [r \in Requests |-> "idle"]
    /\ job = [r \in Requests |-> NoJob]
    /\ stale = {}

-----------------------------------------------------------------------------

Lists(S) == UNION {[1..n -> S] : n \in 0..MaxList}

SlotsOf(items) == {items[i].slot : i \in DOMAIN items}

\* Mutant: only the time of the new status is kept.
ApplyStatusTransitionAnew(row, status) ==
    [by |-> row.by, status |-> status, times |-> {status}]

ApplyStatusTransition(row, status) ==
    [row EXCEPT !.status = status, !.times = @ \cup {status}]

At(r, at, j) ==
    /\ pc' = [pc EXCEPT ![r] = at]
    /\ job' = [job EXCEPT ![r] = j]

Reply(r, j, code) == At(r, "answer", [j EXCEPT !.code = code])

\* The first call of an operation, for each of its items.
Start(op) ==
    CASE op = "upsert" -> "upsert"
      [] op = "update" -> "read"
      [] op = "delete" -> "readRow"

Begin(r, op, caller, items, status) ==
    /\ pc[r] = "idle"
    /\ LET j == [op |-> op, caller |-> caller, status |-> status, todo |-> items,
                 row |-> Absent, was |-> Absent, code |-> "none",
                 asked |-> SlotsOf(items), applied |-> {}]
       IN IF items = <<>> THEN Reply(r, j, "200") ELSE At(r, Start(op), j)
    /\ stale' = stale \ {r}
    /\ UNCHANGED <<rows, versions>>

\* POST /challenge, by any user.  What the client has sent is the row, but a
\* body without a challenge id has the transition to its status applied: both
\* are the same set of rows.  A status the transition does not know ends the
\* loop, as an item that cannot be written does.
UpsertChallenges(r, items) == Begin(r, "upsert", Nobody, items, "created")

\* PUT /challenge/:userId/:labId/:status; another status is answered 500, which
\* is the case of a read that fails.
UpdateChallenge(r, k, status) ==
    Begin(r, "update", Nobody, <<[slot |-> k, body |-> Absent]>>, status)

\* DELETE /challenge/:challengeId; an id that is not made of a user and a lab
\* is answered 500, which is the case of a read that fails.
DeleteChallenges(r, c, k) ==
    Begin(r, "delete", c, <<[slot |-> k, body |-> Absent]>>, "created")

\* The challenge a request is at.
Current(j) == Head(j.todo).slot

\* Mutant: a challenge that is not found is not an error.
GetChallengesByUserIdUnchecked(r) ==
    LET j == job[r]
        row == rows[Current(j)]
    IN
    /\ pc[r] = "read"
    /\ \/ At(r, "upsert", [j EXCEPT !.was = row, !.row =
               IF row = Absent THEN Absent ELSE ApplyStatusTransition(row, j.status)])
       \/ Reply(r, j, "500")
    /\ stale' = stale \ {r}
    /\ UNCHANGED <<rows, versions>>

GetChallengesByUserId(r) ==
    LET j == job[r]
        row == rows[Current(j)]
    IN
    /\ pc[r] = "read"
    /\ \/ /\ row # Absent
          /\ At(r, "upsert", [j EXCEPT !.row = ApplyStatusTransition(row, j.status), !.was = row])
       \/ Reply(r, j, "500")
    /\ stale' = stale \ {r}
    /\ UNCHANGED <<rows, versions>>

GetChallengeByUserIdAndLabId(r) ==
    LET j == job[r]
        row == rows[Current(j)]
    IN
    /\ pc[r] = "readRow"
    /\ \/ row # Absent /\ At(r, "readLab", [j EXCEPT !.row = row])
       \/ Reply(r, j, "500")
    /\ stale' = stale \ {r}
    /\ UNCHANGED <<rows, versions>>

\* Mutant: the two controls have changed places.
MayDeleteSwapped(user, caller, row, lab) ==
    \/ caller \in lab.staff
    \/ caller = row.by /\ lab.userMay
    \/ caller = user /\ lab.challengerMay

\* isDeleteAllowed: owners and editors, and the challenger and the challenged
\* user if the lab lets them.
MayDelete(user, caller, row, lab) ==
    \/ caller \in lab.staff
    \/ caller = row.by /\ lab.challengerMay
    \/ caller = user /\ lab.userMay

IsDeleteAllowed(r) ==
    LET j == job[r]
        k == Current(j)
    IN
    /\ pc[r] = "readLab"
    /\ \/ \E lab \in versions[k[2]] :
            MayDelete(k[1], j.caller, j.row, lab) /\ At(r, "delete", j)
       \/ Reply(r, j, "500")
    /\ UNCHANGED <<rows, versions, stale>>

\* Requests that are going to change row k by what they have read of it.
Writing(k) ==
    {q \in Requests : pc[q] \in {"upsert", "readLab", "delete"} /\ Current(job[q]) = k}

Store(r, k, row) ==
    /\ rows' = [rows EXCEPT ![k] = row]
    /\ stale' = (stale \cup Writing(k)) \ {r}

\* The loop's next item, or the answer.
Continue(r, j) ==
    LET rest == [j EXCEPT !.todo = Tail(@), !.row = Absent, !.was = Absent] IN
    IF rest.todo # <<>> THEN At(r, Start(j.op), rest) ELSE Reply(r, rest, "200")

\* Mutant: a failed write is logged and the next item taken.
UpsertChallengeGoesOn(r) ==
    LET j == job[r]
        k == Current(j)
        row == IF j.op = "upsert" THEN Head(j.todo).body ELSE j.row
    IN
    /\ pc[r] = "upsert"
    /\ \/ Store(r, k, row) /\ Continue(r, [j EXCEPT !.applied = @ \cup {k}])
       \/ UNCHANGED <<rows, stale>> /\ Continue(r, j)
    /\ UNCHANGED versions

UpsertChallenge(r) ==
    LET j == job[r]
        k == Current(j)
        row == IF j.op = "upsert" THEN Head(j.todo).body ELSE j.row
        written == [j EXCEPT !.applied = @ \cup {k}]
    IN
    /\ pc[r] = "upsert"
    /\ \/ Store(r, k, row) /\ (Continue(r, written) \/ Reply(r, written, "500"))
       \/ UNCHANGED <<rows, stale>> /\ Reply(r, j, "500")
    /\ UNCHANGED versions

DeleteChallenge(r) ==
    LET j == job[r]
        k == Current(j)
        written == [j EXCEPT !.applied = @ \cup {k}]
    IN
    /\ pc[r] = "delete"
    /\ \/ rows[k] # Absent /\ Store(r, k, Absent) /\ (Continue(r, written) \/ Reply(r, written, "500"))
       \/ UNCHANGED <<rows, stale>> /\ Reply(r, j, "500")
    /\ UNCHANGED versions

Answer(r) ==
    /\ pc[r] = "answer"
    /\ At(r, "idle", NoJob)
    /\ UNCHANGED <<rows, versions, stale>>

\* Somebody saves a lab.  That a deleted lab cannot be read any more is the case
\* of a read that fails.
SaveLab(l, v) ==
    /\ versions' = [versions EXCEPT ![l] = @ \cup {v}]
    /\ UNCHANGED <<rows, pc, job, stale>>

\* The process ends and is started again.
Restart ==
    /\ pc' = [r \in Requests |-> "idle"]
    /\ job' = [r \in Requests |-> NoJob]
    /\ stale' = {}
    /\ UNCHANGED <<rows, versions>>

-----------------------------------------------------------------------------

Next ==
    \/ \E r \in Requests :
        \/ \E items \in Lists([slot: Slots, body: Bodies]) : UpsertChallenges(r, items)
        \/ \E k \in Slots, status \in Reports : UpdateChallenge(r, k, status)
        \/ \E k \in Slots, c \in Users : DeleteChallenges(r, c, k)
        \/ GetChallengesByUserId(r) \/ GetChallengeByUserIdAndLabId(r) \/ IsDeleteAllowed(r)
        \/ UpsertChallenge(r) \/ DeleteChallenge(r) \/ Answer(r)
    \/ \E l \in Labs, v \in Versions : SaveLab(l, v)
    \/ Restart

Spec == Init /\ [][Next]_vars

-----------------------------------------------------------------------------

\* A list of challenges answered with success has been written as a whole; one
\* that stops half way says so.
\* (internal/service/challenge.go:138-169; handler/challenge.go:135-140)
AnsweredMeansAll ==
    \A r \in Requests : pc[r] = "answer" /\ job[r].code = "200" => job[r].asked \subseteq job[r].applied

\* A challenge is only deleted by somebody a version of the lab allowed it to,
\* by the challenge that is deleted or, when that was replaced after the check,
\* by the one that was checked.
\* (internal/service/challenge.go:313-389)
DeletedByThoseAllowed ==
    [][\A k \in Slots : rows[k] # Absent /\ rows'[k] = Absent =>
        \E r \in Writing(k) :
            /\ pc[r] = "delete" /\ pc'[r] # "delete"
            /\ \E lab \in versions[k[2]], row \in {rows[k]} \cup (IF r \in stale THEN {job[r].row} ELSE {}) :
                \/ job[r].caller \in lab.staff
                \/ job[r].caller = row.by /\ lab.challengerMay
                \/ job[r].caller = k[1] /\ lab.userMay]_vars

\* A row changes as one request alone would change it: a post replaces it, a
\* deletion removes it, a report sets its status and one time and keeps the others
\* and its author.  A report that has been overtaken since its read does this to
\* the row it read, and so loses the updates made meanwhile, such as a deletion;
\* nothing else is ever written.
\* (internal/service/challenge.go:210-257, 282-295)
Alone(j, was, is) ==
    \/ j.op = "upsert" /\ is = Head(j.todo).body
    \/ j.op = "delete" /\ is = Absent
    \/ /\ j.op = "update" /\ was # Absent
       /\ is = [by |-> was.by, status |-> j.status, times |-> was.times \cup {j.status}]

ChangesAreAccountedFor ==
    [][\A k \in Slots : rows'[k] # rows[k] =>
        \E r \in Writing(k) :
            /\ job'[r] # job[r]
            /\ Alone(job[r], IF r \in stale THEN job[r].was ELSE rows[k], rows'[k])]_vars

\* Why deletions are allowed: what is about to be deleted has been checked.
Checked ==
    \A r \in Requests : pc[r] \in {"readLab", "delete"} =>
        LET j == job[r]
            k == Current(job[r])
        IN  /\ j.op = "delete" /\ j.row # Absent /\ j.caller \in Users
            /\ r \in stale \/ rows[k] = j.row
            /\ pc[r] = "delete" => \E lab \in versions[k[2]] : MayDelete(k[1], j.caller, j.row, lab)

\* Only deletions remove a row: all others have one to write.
RowsToWrite ==
    \A r \in Requests : pc[r] # "idle" =>
        /\ pc[r] = "upsert" => job[r].op \in {"upsert", "update"}
        /\ pc[r] = "read" => job[r].op = "update"
        /\ pc[r] = "readRow" => job[r].op = "delete"
        /\ job[r].op = "delete" => job[r].caller \in Users
        /\ job[r].op = "upsert" => \A i \in DOMAIN job[r].todo : job[r].todo[i].body # Absent

\* Why success means all: what is not yet written is still to do.
ItemsAreAskedFor ==
    \A r \in Requests : pc[r] \notin {"idle", "answer"} =>
        job[r].asked \subseteq job[r].applied \cup SlotsOf(job[r].todo)

IInv == TypeOK /\ AnsweredMeansAll /\ Checked /\ RowsToWrite /\ ItemsAreAskedFor

\* Why changes are accounted for: a report is about to write what it makes of the
\* row it has read, which is the row there is unless it has been overtaken.
WritesFollowReads ==
    \A r \in Requests :
        LET j == job[r] IN
        /\ pc[r] \notin {"idle", "answer"} => j.code = "none"
        /\ pc[r] = "upsert" /\ j.op = "update" =>
               /\ j.was # Absent /\ j.row = ApplyStatusTransition(j.was, j.status)
               /\ r \in stale \/ rows[Current(j)] = j.was
=============================================================================
