----------------------------- MODULE Assignments -----------------------------
(***************************************************************************)
(* Assignments of labs to users: creating and deleting them in bulk, and   *)
(* the progress actlabs-server reports of them.  A bulk request is a loop  *)
(* of writes, each of which may fail with the others done; every change    *)
(* but a creation reads a row of the table and writes it back whole,       *)
(* without an ETag.  A deletion is a status: no row is ever removed.  A    *)
(* request is a goroutine that takes one step per call to the table, and a *)
(* failed write may have been applied.                                     *)
(***************************************************************************)
EXTENDS Naturals, Sequences

CONSTANTS
    Users,     \* user ids, with the domain CreateAssignments adds to an alias
    Labs,      \* lab ids
    MaxList,   \* bound: the length of a list a client sends
    Requests,  \* request goroutines that may be in flight together
    Absent,    \* no row
    NoJob      \* a request slot that is idle

Slots == Users \X Labs

\* The status a caller may set, with the time that is noted with it.
MarkOf == [InProgress |-> "started", Completed |-> "completed", Deleted |-> "deleted"]

\* A row: its status, and which of its times have been set.
Rows == [status: {"Created"} \cup DOMAIN MarkOf,
         marks: SUBSET {"started", "completed", "deleted"}]

Created == [status |-> "Created", marks |-> {}]

\* Mutant: the row is built anew, with the last time only.
MarkedAnew(row, status) == [status |-> status, marks |-> {MarkOf[status]}]

Marked(row, status) == [status |-> status, marks |-> row.marks \cup {MarkOf[status]}]

Jobs == [op: {"create", "update", "delete"}, status: DOMAIN MarkOf,
         todo: Seq(Slots),         \* the items the loop has not finished
         row: Rows \cup {Absent},  \* what is to be written for the first of them
         was: Rows \cup {Absent},  \* history: the row it was made of
         code: {"none", "201", "200", "204", "500"},
         asked: SUBSET Slots,      \* history: all items
         applied: SUBSET Slots]    \* history: items this request has written

ASSUME AssignmentsAssumption ==
    /\ MaxList \in Nat
    /\ Absent \notin Rows
    /\ NoJob \notin Jobs

VARIABLES
    rows,   \* the readiness table
    pc,     \* the next call a request makes
    job,    \* what is asked and how far it is
    stale   \* history: requests whose row was changed since they read it

vars == <<rows, pc, job, stale>>

TypeOK ==
    /\ rows \in [Slots -> Rows \cup {Absent}]
    /\ pc \in [Requests -> {"idle", "read", "upsert", "answer"}]
    /\ job \in [Requests -> Jobs \cup {NoJob}]
    /\ \A r \in Requests :
        /\ pc[r] = "idle" <=> job[r] = NoJob
        /\ pc[r] \in {"read", "upsert"} => job[r].todo # <<>>
        /\ pc[r] = "upsert" => job[r].row # Absent
    /\ stale \subseteq Requests

Init ==
    /\ rows = [k \in Slots |-> Absent]
    /\ pc = [r \in Requests |-> "idle"]
    /\ job = [r \in Requests |-> NoJob]
    /\ stale = {}

-----------------------------------------------------------------------------

Lists(S) == UNION {[1..n -> S] : n \in 0..MaxList}

ItemsOf(list) == {list[i] : i \in DOMAIN list}

\* The loop over the users, and in it the loop over the labs.
Pairs(us, ls) ==
    [i \in 1..(Len(us) * Len(ls)) |->
        <<us[1 + ((i - 1) \div Len(ls))], ls[1 + ((i - 1) % Len(ls))]>>]

At(r, at, j) ==
    /\ pc' = [pc EXCEPT ![r] = at]
    /\ job' = [job EXCEPT ![r] = j]

Reply(r, j, code) == At(r, "answer", [j EXCEPT !.code = code])

\* What a request does with the items that are left.  A deletion whose next id
\* has no "+" in it panics, which is answered 500.
Continue(r, j) ==
    IF j.todo # <<>>
    THEN At(r, IF j.op = "create" THEN "upsert" ELSE "read", j)
    ELSE \/ Reply(r, j, CASE j.op = "create" -> "201"
                          [] j.op = "update" -> "200"
                          [] j.op = "delete" -> "204")
         \/ j.op = "delete" /\ Reply(r, j, "500")

Begin(r, op, items, status) ==
    /\ pc[r] = "idle"
    /\ Continue(r, [op |-> op, status |-> status, todo |-> items,
                    row |-> IF op = "create" THEN Created ELSE Absent, was |-> Absent,
                    code |-> "none", asked |-> ItemsOf(items), applied |-> {}])
    /\ stale' = stale \ {r}
    /\ UNCHANGED rows

\* POST /assignment by a mentor; POST /assignment/my, which refuses a list with
\* anybody but the caller in it, is the case of one user.
CreateAssignments(r, us, ls) == Begin(r, "create", Pairs(us, ls), "InProgress")

\* PUT /assignment/:userId/:labId/:status; another status is answered 500, which
\* is the case of a read that fails.
UpdateAssignment(r, k, status) == Begin(r, "update", <<k>>, status)

\* DELETE /assignment by a mentor, DELETE /assignment/my for one's own.
DeleteAssignments(r, ids) == Begin(r, "delete", ids, "Deleted")

Rest(j) ==
    [j EXCEPT !.todo = Tail(@), !.row = IF j.op = "create" THEN @ ELSE Absent, !.was = Absent]

\* An update answers an error; a deletion logs it and goes on with the next.
GiveUp(r, j) ==
    \/ j.op # "delete" /\ Reply(r, j, "500")
    \/ j.op = "delete" /\ Continue(r, Rest(j))

\* Mutant: an assignment that is not found is not an error.
GetAssignmentUnchecked(r) ==
    LET j == job[r]
        row == rows[Head(j.todo)]
    IN
    /\ pc[r] = "read"
    /\ \/ At(r, "upsert", [j EXCEPT !.row = IF row = Absent THEN Absent ELSE Marked(row, j.status),
                                !.was = row])
       \/ GiveUp(r, j)
    /\ stale' = stale \ {r}
    /\ UNCHANGED rows

\* Deleted assignments are found like the others.
GetAssignment(r) ==
    LET j == job[r]
        row == rows[Head(j.todo)]
    IN
    /\ pc[r] = "read"
    /\ \/ row # Absent /\ At(r, "upsert", [j EXCEPT !.row = Marked(row, j.status), !.was = row])
       \/ GiveUp(r, j)
    /\ stale' = stale \ {r}
    /\ UNCHANGED rows

\* Requests that are going to write row k.
Writing(k) == {q \in Requests : pc[q] = "upsert" /\ Head(job[q].todo) = k}

Store(r, k, row) ==
    /\ rows' = [rows EXCEPT ![k] = row]
    /\ stale' = (stale \cup Writing(k)) \ {r}

\* Mutant: a creation logs the error and goes on, as a deletion does.
UpsertAssignmentGoesOn(r) ==
    LET j == job[r]
        k == Head(j.todo)
    IN
    /\ pc[r] = "upsert"
    /\ \/ Store(r, k, j.row) /\ Continue(r, Rest([j EXCEPT !.applied = @ \cup {k}]))
       \/ UNCHANGED <<rows, stale>> /\ Continue(r, Rest(j))

UpsertAssignment(r) ==
    LET j == job[r]
        k == Head(j.todo)
        written == [j EXCEPT !.applied = @ \cup {k}]
    IN
    /\ pc[r] = "upsert"
    /\ \/ Store(r, k, j.row) /\ (Continue(r, Rest(written)) \/ GiveUp(r, written))
       \/ UNCHANGED <<rows, stale>> /\ GiveUp(r, j)

Answer(r) ==
    /\ pc[r] = "answer"
    /\ At(r, "idle", NoJob)
    /\ UNCHANGED <<rows, stale>>

\* The process ends and is started again.
Restart ==
    /\ pc' = [r \in Requests |-> "idle"]
    /\ job' = [r \in Requests |-> NoJob]
    /\ stale' = {}
    /\ UNCHANGED rows

-----------------------------------------------------------------------------

Next ==
    \/ \E r \in Requests :
        \/ \E us \in Lists(Users), ls \in Lists(Labs) : CreateAssignments(r, us, ls)
        \/ \E k \in Slots, status \in DOMAIN MarkOf : UpdateAssignment(r, k, status)
        \/ \E ids \in Lists(Slots) : DeleteAssignments(r, ids)
        \/ GetAssignment(r) \/ UpsertAssignment(r) \/ Answer(r)
    \/ Restart

Spec == Init /\ [][Next]_vars

-----------------------------------------------------------------------------

\* A bulk creation answered with success has written an assignment for every
\* user and lab of its lists; one that stops half way says so.
\* (internal/service/assignment.go:185-254; handler/assignment.go:206-211)
CreatedMeansAll ==
    \A r \in Requests : pc[r] = "answer" /\ job[r].code = "201" => job[r].asked \subseteq job[r].applied

\* A row changes as one request alone would change it: a creation starts it
\* afresh, an update or a deletion sets its status and one time and keeps the
\* other times.  A request that has been overtaken since its read does this to the
\* row it read, and so loses the updates made meanwhile, such as a deletion taken
\* back by a late report; nothing else is ever written.
\* (internal/service/assignment.go:224-235, 264-302, 323-337)
Alone(j, was, is) ==
    \/ j.op = "create" /\ is = Created
    \/ /\ j.op # "create" /\ was # Absent
       /\ is = [status |-> j.status, marks |-> was.marks \cup {MarkOf[j.status]}]

ChangesAreAccountedFor ==
    [][\A k \in Slots : rows'[k] # rows[k] =>
        \E r \in Writing(k) :
            /\ job'[r] # job[r]
            /\ Alone(job[r], IF r \in stale THEN job[r].was ELSE rows[k], rows'[k])]_vars

\* Why a creation that is answered with success is complete.
ItemsAreAskedFor ==
    \A r \in Requests : pc[r] \in {"read", "upsert"} /\ job[r].op = "create" =>
        job[r].asked \subseteq job[r].applied \cup ItemsOf(job[r].todo)

IInv == TypeOK /\ CreatedMeansAll /\ ItemsAreAskedFor

\* Why changes are accounted for: a creation writes the row it was given, the
\* others what they make of the row they have read, which is the row there is
\* unless they have been overtaken.
WritesFollowReads ==
    \A r \in Requests :
        LET j == job[r] IN
        /\ pc[r] = "read" => j.op # "create"
        /\ pc[r] \in {"read", "upsert"} => j.code = "none"
        /\ pc[r] = "upsert" /\ j.op = "create" => j.row = Created
        /\ pc[r] = "upsert" /\ j.op # "create" =>
               /\ j.was # Absent /\ j.row = Marked(j.was, j.status)
               /\ r \in stale \/ rows[Head(j.todo)] = j.was
=============================================================================
