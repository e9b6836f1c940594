-------------------------- MODULE AssignmentsProofs --------------------------
(***************************************************************************)
(* Proofs about Assignments for any users, labs, lists and number of       *)
(* requests: its types, that a bulk creation answered with success has     *)
(* written all it was asked for, and that every change is one that a       *)
(* request alone makes of the row there is, or of the row it read if it    *)
(* was overtaken. The inductive invariant adds that what is not yet        *)
(* written is still to do; the last theorem adds that what a request is    *)
(* about to write is made of the row it read.                              *)
(***************************************************************************)
EXTENDS Assignments, Integers, TLAPS

\* The first item and the others are all items.
LEMMA ItemsOfTail ==
    ASSUME NEW s \in Seq(Slots), s # <<>>
    PROVE  /\ Tail(s) \in Seq(Slots)
           /\ Head(s) \in Slots
           /\ ItemsOf(s) = {Head(s)} \cup ItemsOf(Tail(s))
<1>1. /\ Len(s) \in Nat /\ Len(s) # 0 /\ DOMAIN s = 1..Len(s)
      /\ Tail(s) \in Seq(Slots) /\ Len(Tail(s)) = Len(s) - 1
      /\ DOMAIN Tail(s) = 1..(Len(s) - 1)
      /\ \A i \in 1..(Len(s) - 1) : Tail(s)[i] = s[i + 1]
      /\ Head(s) = s[1]
  OBVIOUS
<1>2. Head(s) \in Slots
  BY <1>1
<1>3. ASSUME NEW x \in ItemsOf(s) PROVE x \in {Head(s)} \cup ItemsOf(Tail(s))
  <2>1. PICK i \in 1..Len(s) : x = s[i]
    BY <1>1 DEF ItemsOf
  <2>2. CASE i = 1
    BY <1>1, <2>1, <2>2
  <2>3. CASE i # 1
    <3>1. i - 1 \in 1..(Len(s) - 1) /\ (i - 1) + 1 = i
      BY <1>1, <2>1, <2>3
    <3>2. x = Tail(s)[i - 1]
      BY <1>1, <2>1, <3>1
    <3> QED
      BY <1>1, <3>1, <3>2 DEF ItemsOf
  <2> QED
    BY <2>2, <2>3
<1>4. ASSUME NEW x \in ItemsOf(Tail(s)) PROVE x \in ItemsOf(s)
  <2>1. PICK i \in 1..(Len(s) - 1) : x = s[i + 1]
    BY <1>1, <1>4 DEF ItemsOf
  <2>2. i + 1 \in 1..Len(s)
    BY <1>1, <2>1
  <2> QED
    BY <1>1, <2>1, <2>2 DEF ItemsOf
<1>5. Head(s) \in ItemsOf(s)
  BY <1>1 DEF ItemsOf
<1> QED
  BY <1>1, <1>2, <1>3, <1>4, <1>5

\* The loops visit pairs of a user and a lab.
LEMMA PairsAreSlots ==
    ASSUME NEW us \in Lists(Users), NEW ls \in Lists(Labs)
    PROVE  Pairs(us, ls) \in Seq(Slots)
<1>1. /\ Len(us) \in Nat /\ us \in [1..Len(us) -> Users]
      /\ Len(ls) \in Nat /\ ls \in [1..Len(ls) -> Labs]
  <2>1. ASSUME NEW S, NEW l \in Lists(S) PROVE l \in Seq(S)
    BY <2>1, AssignmentsAssumption DEF Lists
  <2>2. us \in Seq(Users) /\ ls \in Seq(Labs)
    BY <2>1
  <2> QED
    BY <2>2
<1> DEFINE a == Len(us)
           b == Len(ls)
<1>2. ASSUME NEW i \in 1..(a * b)
      PROVE  /\ 1 + ((i - 1) \div b) \in 1..a
             /\ 1 + ((i - 1) % b) \in 1..b
  <2>1. b > 0
    <3>1. a * b >= 1
      BY <1>1, <1>2
    <3> QED
      BY <1>1, <3>1
  <2> DEFINE q == (i - 1) \div b
             m == (i - 1) % b
  <2>2. i - 1 \in Nat /\ i - 1 < a * b
    BY <1>1, <1>2
  <2>3. q \in Int /\ m \in 0..(b - 1) /\ i - 1 = b * q + m
    BY <1>1, <2>1, <2>2
  <2>4. q >= 0
    BY <1>1, <2>1, <2>2
  <2>5. q < a
    <3>1. SUFFICES ASSUME q >= a PROVE FALSE
      BY <1>1, <2>3
    <3> HIDE DEF q, m
    <3>2. b * q >= b * a
      BY <1>1, <2>1, <2>3, <3>1
    <3>3. b * a = a * b
      BY <1>1
    <3>4. i - 1 >= b * q
      BY <1>1, <2>3
    <3> QED
      BY <1>1, <2>2, <2>3, <3>2, <3>3, <3>4
  <2> HIDE DEF q, m
  <2>6. 1 + q \in 1..a /\ 1 + m \in 1..b
    BY <1>1, <2>3, <2>4, <2>5
  <2> QED
    BY <2>6 DEF q, m
<1>3. a * b \in Nat
  BY <1>1
<1>4. Pairs(us, ls) \in [1..(a * b) -> Slots]
  <2>1. ASSUME NEW i \in 1..(a * b)
        PROVE  <<us[1 + ((i - 1) \div b)], ls[1 + ((i - 1) % b)]>> \in Slots
    BY <1>1, <1>2 DEF Slots
  <2> QED
    BY <2>1 DEF Pairs
<1> QED
  BY <1>3, <1>4

LEMMA InitInv == Init => IInv
BY DEF Init, IInv, TypeOK, CreatedMeansAll, ItemsAreAskedFor

\* What a request's record is made of.
LEMMA JobParts ==
    ASSUME NEW j \in Jobs
    PROVE  /\ j # NoJob /\ j.op \in {"create", "update", "delete"}
           /\ j.status \in DOMAIN MarkOf /\ j.todo \in Seq(Slots)
           /\ j.row \in Rows \cup {Absent} /\ j.was \in Rows \cup {Absent}
           /\ j.asked \in SUBSET Slots /\ j.applied \in SUBSET Slots
BY AssignmentsAssumption DEF Jobs

\* A step of one request to j.
LEMMA AtStep ==
    ASSUME IInv, NEW r \in Requests, NEW at, NEW j, At(r, at, j),
           stale' \subseteq Requests, rows' \in [Slots -> Rows \cup {Absent}],
           at \in {"idle", "read", "upsert", "answer"},
           j \in Jobs \cup {NoJob}, at = "idle" <=> j = NoJob,
           at \in {"read", "upsert"} => j.todo # <<>>,
           at = "upsert" => j.row # Absent,
           at = "answer" /\ j.code = "201" => j.asked \subseteq j.applied,
           at \in {"read", "upsert"} /\ j.op = "create" =>
               j.asked \subseteq j.applied \cup ItemsOf(j.todo)
    PROVE  IInv'
<1>1. \A q \in Requests :
        /\ q = r => pc'[q] = at /\ job'[q] = j
        /\ q # r => pc'[q] = pc[q] /\ job'[q] = job[q]
  BY DEF At, IInv, TypeOK
<1>2. TypeOK'
  BY <1>1 DEF IInv, TypeOK, At
<1>3. CreatedMeansAll' /\ ItemsAreAskedFor'
  BY <1>1 DEF IInv, CreatedMeansAll, ItemsAreAskedFor, ItemsOf
<1> QED
  BY <1>2, <1>3 DEF IInv

\* The answer of a request, with a code that is not that of a creation or of a
\* creation that has written all.
LEMMA ReplyStep ==
    ASSUME IInv, NEW r \in Requests, NEW j \in Jobs,
           NEW code \in {"201", "200", "204", "500"}, Reply(r, j, code),
           stale' \subseteq Requests, rows' \in [Slots -> Rows \cup {Absent}],
           code = "201" => j.asked \subseteq j.applied
    PROVE  IInv'
<1> DEFINE k == [j EXCEPT !.code = code]
<1>1. k \in Jobs /\ k.asked = j.asked /\ k.applied = j.applied /\ k.code = code
  BY DEF Jobs
<1>2. k # NoJob
  BY <1>1, JobParts
<1>3. At(r, "answer", k)
  BY DEF Reply
<1> HIDE DEF k
<1> QED
  BY <1>1, <1>2, <1>3, AtStep

\* A request that goes on with the items left of j.
LEMMA ContinueStep ==
    ASSUME IInv, NEW r \in Requests, NEW j \in Jobs, Continue(r, j),
           stale' \subseteq Requests, rows' \in [Slots -> Rows \cup {Absent}],
           j.op = "create" => /\ j.row # Absent
                              /\ j.asked \subseteq j.applied \cup ItemsOf(j.todo)
    PROVE  IInv'
<1>1. j # NoJob /\ j.op \in {"create", "update", "delete"}
  BY JobParts
<1>2. CASE j.todo # <<>>
  <2>1. At(r, IF j.op = "create" THEN "upsert" ELSE "read", j)
    BY <1>2 DEF Continue
  <2>2. CASE j.op = "create"
    BY <1>1, <1>2, <2>1, <2>2, AtStep
  <2>3. CASE j.op # "create"
    BY <1>1, <1>2, <2>1, <2>3, AtStep
  <2> QED
    BY <2>2, <2>3
<1>3. CASE j.todo = <<>>
  <2>1. ItemsOf(j.todo) = {}
    BY <1>3 DEF ItemsOf
  <2>2. PICK code \in {"201", "200", "204", "500"} :
            Reply(r, j, code) /\ (code = "201" => j.op = "create")
    BY <1>1, <1>3 DEF Continue
  <2> QED
    BY <2>1, <2>2, ReplyStep
<1> QED
  BY <1>2, <1>3

\* Taking the first item off a request's list, after it was written or not.
LEMMA RestOfJob ==
    ASSUME NEW j \in Jobs, j.todo # <<>>, j.op = "create" => j.row # Absent
    PROVE  /\ Rest(j) \in Jobs
           /\ Rest(j).op = j.op
           /\ Rest(j).asked = j.asked /\ Rest(j).applied = j.applied
           /\ Rest(j).todo = Tail(j.todo)
           /\ j.op = "create" => Rest(j).row # Absent
<1>1. Tail(j.todo) \in Seq(Slots)
  BY JobParts, ItemsOfTail
<1> QED
  BY <1>1 DEF Rest, Jobs

\* An item that could not be done.
LEMMA GiveUpStep ==
    ASSUME IInv, NEW r \in Requests, NEW j \in Jobs, j.todo # <<>>, GiveUp(r, j),
           stale' \subseteq Requests, rows' \in [Slots -> Rows \cup {Absent}]
    PROVE  IInv'
<1>1. CASE Reply(r, j, "500")
  BY <1>1, ReplyStep
<1>2. CASE j.op = "delete" /\ Continue(r, Rest(j))
  <2>1. Rest(j) \in Jobs /\ Rest(j).op = "delete"
    BY <1>2, RestOfJob
  <2> QED
    BY <1>2, <2>1, ContinueStep
<1> QED
  BY <1>1, <1>2 DEF GiveUp

LEMMA MarkedIsRow ==
    ASSUME NEW row \in Rows, NEW status \in DOMAIN MarkOf
    PROVE  Marked(row, status) \in Rows
BY DEF Marked, Rows, MarkOf

LEMMA NextInv == IInv /\ [Next]_vars => IInv'
<1> SUFFICES ASSUME IInv, [Next]_vars PROVE IInv'
  OBVIOUS
<1>1. CASE UNCHANGED vars
  BY <1>1 DEF vars, IInv, TypeOK, CreatedMeansAll, ItemsAreAskedFor, ItemsOf
<1>2. CASE Restart
  BY <1>2 DEF Restart, IInv, TypeOK, CreatedMeansAll, ItemsAreAskedFor
<1>3. ASSUME NEW r \in Requests, NEW op \in {"create", "update", "delete"},
             NEW items \in Seq(Slots), NEW status \in DOMAIN MarkOf,
             Begin(r, op, items, status)
      PROVE  IInv'
  <2> DEFINE j == [op |-> op, status |-> status, todo |-> items,
                   row |-> IF op = "create" THEN Created ELSE Absent, was |-> Absent,
                   code |-> "none", asked |-> ItemsOf(items), applied |-> {}]
  <2>1. ItemsOf(items) \subseteq Slots
    BY DEF ItemsOf
  <2>2. Created \in Rows /\ Created # Absent
    BY AssignmentsAssumption DEF Created, Rows
  <2>3. j \in Jobs
    BY <2>1, <2>2 DEF Jobs
  <2>4. j.op = "create" => j.row # Absent /\ j.asked \subseteq j.applied \cup ItemsOf(j.todo)
    BY <2>2
  <2>5. Continue(r, j) /\ stale' \subseteq Requests /\ rows' \in [Slots -> Rows \cup {Absent}]
    BY <1>3 DEF Begin, IInv, TypeOK
  <2> HIDE DEF j
  <2> QED
    BY <2>3, <2>4, <2>5, ContinueStep
<1>4. ASSUME NEW r \in Requests, NEW us \in Lists(Users), NEW ls \in Lists(Labs),
             CreateAssignments(r, us, ls)
      PROVE  IInv'
  BY <1>3, <1>4, PairsAreSlots DEF CreateAssignments, MarkOf
<1>5. ASSUME NEW r \in Requests, NEW k \in Slots, NEW status \in DOMAIN MarkOf,
             UpdateAssignment(r, k, status)
      PROVE  IInv'
  <2>1. <<k>> \in Seq(Slots)
    OBVIOUS
  <2> QED
    BY <1>3, <1>5, <2>1 DEF UpdateAssignment
<1>6. ASSUME NEW r \in Requests, NEW ids \in Lists(Slots), DeleteAssignments(r, ids)
      PROVE  IInv'
  <2>1. ids \in Seq(Slots)
    BY AssignmentsAssumption DEF Lists
  <2> QED
    BY <1>3, <1>6, <2>1 DEF DeleteAssignments, MarkOf
<1>7. ASSUME NEW r \in Requests, pc[r] \in {"read", "upsert"}
      PROVE  /\ job[r] \in Jobs /\ job[r].todo # <<>>
             /\ job[r].todo \in Seq(Slots) /\ Head(job[r].todo) \in Slots
             /\ ItemsOf(job[r].todo) = {Head(job[r].todo)} \cup ItemsOf(Tail(job[r].todo))
             /\ rows[Head(job[r].todo)] \in Rows \cup {Absent}
             /\ job[r].op = "create" => job[r].asked \subseteq job[r].applied \cup ItemsOf(job[r].todo)
  <2>1. job[r] \in Jobs /\ job[r].todo # <<>>
    BY <1>7 DEF IInv, TypeOK
  <2>2. /\ job[r].todo \in Seq(Slots) /\ Head(job[r].todo) \in Slots
        /\ ItemsOf(job[r].todo) = {Head(job[r].todo)} \cup ItemsOf(Tail(job[r].todo))
    BY <2>1, JobParts, ItemsOfTail
  <2> QED
    BY <1>7, <2>1, <2>2 DEF IInv, TypeOK, ItemsAreAskedFor
<1>8. ASSUME NEW r \in Requests, GetAssignment(r) PROVE IInv'
  <2> DEFINE row == rows[Head(job[r].todo)]
             j == [job[r] EXCEPT !.row = Marked(row, job[r].status), !.was = row]
  <2>1. /\ pc[r] = "read" /\ stale' \subseteq Requests
        /\ rows' \in [Slots -> Rows \cup {Absent}]
    BY <1>8 DEF GetAssignment, IInv, TypeOK
  <2>2. CASE row # Absent /\ At(r, "upsert", j)
    <3>1. row \in Rows /\ job[r].status \in DOMAIN MarkOf
      BY <1>7, <2>1, <2>2, JobParts
    <3>2. Marked(row, job[r].status) \in Rows /\ Marked(row, job[r].status) # Absent
      BY <3>1, MarkedIsRow, AssignmentsAssumption
    <3>3. /\ j \in Jobs /\ j.row # Absent /\ j.op = job[r].op /\ j.todo = job[r].todo
          /\ j.asked = job[r].asked /\ j.applied = job[r].applied
      BY <1>7, <2>1, <3>2 DEF Jobs
    <3>4. j # NoJob
      BY <3>3, JobParts
    <3> HIDE DEF j
    <3> QED
      BY <1>7, <2>1, <2>2, <3>3, <3>4, AtStep
  <2>3. CASE GiveUp(r, job[r])
    BY <1>7, <2>1, <2>3, GiveUpStep
  <2> QED
    BY <1>8, <2>2, <2>3 DEF GetAssignment
<1>9. ASSUME NEW r \in Requests, UpsertAssignment(r) PROVE IInv'
  <2> DEFINE k == Head(job[r].todo)
             written == [job[r] EXCEPT !.applied = @ \cup {k}]
  <2>1. pc[r] = "upsert" /\ job[r].row # Absent /\ job[r].row \in Rows
    BY <1>7, <1>9, JobParts DEF UpsertAssignment, IInv, TypeOK
  <2>2. /\ stale' \subseteq Requests
        /\ rows' \in [Slots -> Rows \cup {Absent}]
    BY <1>7, <1>9, <2>1 DEF UpsertAssignment, Store, Writing, IInv, TypeOK
  <2>3. /\ written \in Jobs /\ written.todo = job[r].todo /\ written.row = job[r].row
        /\ written.op = job[r].op /\ written.asked = job[r].asked
        /\ written.applied = job[r].applied \cup {k}
    BY <1>7, <2>1 DEF Jobs
  <2> HIDE DEF written
  <2>4. CASE Continue(r, Rest(written))
    <3>1. /\ Rest(written) \in Jobs
          /\ Rest(written).op = job[r].op /\ Rest(written).asked = job[r].asked
          /\ Rest(written).applied = job[r].applied \cup {k}
          /\ Rest(written).todo = Tail(job[r].todo)
          /\ Rest(written).op = "create" => Rest(written).row # Absent
      BY <1>7, <2>1, <2>3, RestOfJob
    <3>2. Rest(written).op = "create" =>
              Rest(written).asked \subseteq Rest(written).applied \cup ItemsOf(Rest(written).todo)
      BY <1>7, <2>1, <3>1
    <3> QED
      BY <2>2, <2>4, <3>1, <3>2, ContinueStep
  <2>5. CASE GiveUp(r, written)
    BY <1>7, <2>1, <2>2, <2>3, <2>5, GiveUpStep
  <2>6. CASE GiveUp(r, job[r])
    BY <1>7, <2>1, <2>2, <2>6, GiveUpStep
  <2> QED
    BY <1>9, <2>4, <2>5, <2>6 DEF UpsertAssignment, written
<1>10. ASSUME NEW r \in Requests, Answer(r) PROVE IInv'
  <2>1. /\ At(r, "idle", NoJob) /\ stale' \subseteq Requests
        /\ rows' \in [Slots -> Rows \cup {Absent}]
    BY <1>10 DEF Answer, IInv, TypeOK
  <2> QED
    BY <2>1, AtStep
<1> QED
  BY <1>1, <1>2, <1>4, <1>5, <1>6, <1>8, <1>9, <1>10 DEF Next

LEMMA Invariance == Spec => []IInv
BY InitInv, NextInv, PTL DEF Spec

\* The rows, and what the requests have still to do, keep their types.
THEOREM AssignmentsTypeCorrect == Spec => []TypeOK
<1>1. IInv => TypeOK
  BY DEF IInv
<1> QED
  BY <1>1, Invariance, PTL

\* For lists of any length, whatever else happens to the rows meanwhile: a bulk
\* creation answered 201 has written every pair of its lists.
THEOREM CreationsAreComplete == Spec => []CreatedMeansAll
<1>1. IInv => CreatedMeansAll
  BY DEF IInv
<1> QED
  BY <1>1, Invariance, PTL

-----------------------------------------------------------------------------
(* Changes are accounted for: by what those about to write have read.        *)

\* What WritesFollowReads says of one request, at a call and with a job, when the
\* table is t and the request has been overtaken or not.
Follows(at, j, t, overtaken) ==
    /\ at = "read" => j.op # "create"
    /\ at \in {"read", "upsert"} => j.code = "none"
    /\ at = "upsert" /\ j.op = "create" => j.row = Created
    /\ at = "upsert" /\ j.op # "create" =>
           /\ j.was # Absent /\ j.row = Marked(j.was, j.status)
           /\ overtaken \/ t[Head(j.todo)] = j.was

LEMMA AllFollow ==
    WritesFollowReads <=> \A r \in Requests : Follows(pc[r], job[r], rows, r \in stale)
  BY DEF WritesFollowReads, Follows

\* A step of r after which the others have the rows they have read, or are
\* marked as overtaken.
Bystanders(r) ==
    \A q \in Requests \ {r} :
        /\ q \in stale => q \in stale'
        /\ pc[q] = "upsert" /\ q \notin stale' =>
               rows'[Head(job[q].todo)] = rows[Head(job[q].todo)]

LEMMA StepFollows ==
    ASSUME TypeOK, WritesFollowReads, NEW r \in Requests, NEW at, NEW j, At(r, at, j),
           Bystanders(r), Follows(at, j, rows', r \in stale')
    PROVE  WritesFollowReads'
<1>1. ASSUME NEW q \in Requests PROVE Follows(pc'[q], job'[q], rows', q \in stale')
  <2>1. CASE q = r
    BY <2>1 DEF At, TypeOK
  <2>2. CASE q # r
    <3>1. pc'[q] = pc[q] /\ job'[q] = job[q]
      BY <2>2 DEF At, TypeOK
    <3>2. Follows(pc[q], job[q], rows, q \in stale)
      BY AllFollow
    <3> QED
      BY <2>2, <3>1, <3>2 DEF Follows, Bystanders
  <2> QED
    BY <2>1, <2>2
<1> QED
  BY <1>1 DEF WritesFollowReads, Follows

\* A request that answers has nothing to write.
LEMMA ReplyFollows ==
    ASSUME TypeOK, WritesFollowReads, NEW r \in Requests, NEW j, NEW code, Reply(r, j, code),
           Bystanders(r)
    PROVE  WritesFollowReads'
<1> DEFINE k == [j EXCEPT !.code = code]
<1>1. At(r, "answer", k)
  BY DEF Reply
<1> HIDE DEF k
<1>2. Follows("answer", k, rows', r \in stale')
  BY DEF Follows
<1> QED
  BY <1>1, <1>2, StepFollows

LEMMA ContinueFollows ==
    ASSUME TypeOK, WritesFollowReads, NEW r \in Requests, NEW j \in Jobs, Continue(r, j),
           Bystanders(r), j.code = "none", j.op = "create" => j.row = Created
    PROVE  WritesFollowReads'
<1>1. CASE At(r, IF j.op = "create" THEN "upsert" ELSE "read", j)
  <2> DEFINE at == IF j.op = "create" THEN "upsert" ELSE "read"
  <2>1. Follows(at, j, rows', r \in stale')
    BY DEF Follows
  <2> HIDE DEF at
  <2> QED
    BY <1>1, <2>1, StepFollows DEF at
<1>2. ASSUME NEW code, Reply(r, j, code) PROVE WritesFollowReads'
  BY <1>2, ReplyFollows
<1> QED
  BY <1>1, <1>2 DEF Continue

LEMMA GiveUpFollows ==
    ASSUME TypeOK, WritesFollowReads, NEW r \in Requests, NEW j \in Jobs, GiveUp(r, j),
           Bystanders(r), j.todo # <<>>, j.code = "none"
    PROVE  WritesFollowReads'
<1>1. CASE Reply(r, j, "500")
  BY <1>1, ReplyFollows
<1>2. CASE j.op = "delete" /\ Continue(r, Rest(j))
  <2>1. Rest(j) \in Jobs /\ Rest(j).op = "delete"
    BY <1>2, RestOfJob
  <2>2. Rest(j).code = "none"
    BY DEF Rest, Jobs
  <2> QED
    BY <1>2, <2>1, <2>2, ContinueFollows
<1> QED
  BY <1>1, <1>2 DEF GiveUp

\* What the next write needs of a request.
LEMMA JobAtWork ==
    ASSUME IInv, WritesFollowReads, NEW r \in Requests, pc[r] \in {"read", "upsert"}
    PROVE  /\ job[r] \in Jobs /\ job[r].todo # <<>> /\ job[r].todo \in Seq(Slots)
           /\ Head(job[r].todo) \in Slots /\ Tail(job[r].todo) # job[r].todo
           /\ job[r].code = "none"
<1>1. job[r] \in Jobs /\ job[r].todo # <<>> /\ job[r].todo \in Seq(Slots) /\ job[r].code = "none"
  BY JobParts DEF IInv, TypeOK, WritesFollowReads
<1>2. Len(Tail(job[r].todo)) # Len(job[r].todo)
  BY <1>1
<1> QED
  BY <1>1, <1>2, ItemsOfTail

LEMMA NextFollows == IInv /\ WritesFollowReads /\ [Next]_vars => WritesFollowReads'
<1> SUFFICES ASSUME IInv, WritesFollowReads, [Next]_vars PROVE WritesFollowReads'
  OBVIOUS
<1>1. TypeOK /\ \A r \in Requests : Follows(pc[r], job[r], rows, r \in stale)
  BY AllFollow DEF IInv
<1>2. CASE UNCHANGED vars
  BY <1>2 DEF vars, WritesFollowReads
<1>3. CASE Restart
  BY <1>3 DEF Restart, WritesFollowReads
<1>4. ASSUME NEW r \in Requests, rows' = rows, stale \ {r} \subseteq stale' PROVE Bystanders(r)
  BY <1>4 DEF Bystanders
<1>5. ASSUME NEW r \in Requests, NEW op \in {"create", "update", "delete"},
             NEW items \in Seq(Slots), NEW status \in DOMAIN MarkOf, Begin(r, op, items, status)
      PROVE  WritesFollowReads'
  <2> DEFINE j == [op |-> op, status |-> status, todo |-> items,
                   row |-> IF op = "create" THEN Created ELSE Absent, was |-> Absent,
                   code |-> "none", asked |-> ItemsOf(items), applied |-> {}]
  <2>1. ItemsOf(items) \subseteq Slots
    BY DEF ItemsOf
  <2>2. Created \in Rows
    BY DEF Created, Rows
  <2>3. j \in Jobs /\ j.code = "none" /\ (j.op = "create" => j.row = Created)
    BY <2>1, <2>2 DEF Jobs
  <2>4. Continue(r, j) /\ rows' = rows /\ stale \ {r} \subseteq stale'
    BY <1>5 DEF Begin
  <2> HIDE DEF j
  <2> QED
    BY <1>1, <1>4, <2>3, <2>4, ContinueFollows
<1>6. ASSUME NEW r \in Requests, NEW us \in Lists(Users), NEW ls \in Lists(Labs),
             CreateAssignments(r, us, ls)
      PROVE  WritesFollowReads'
  BY <1>5, <1>6, PairsAreSlots DEF CreateAssignments, MarkOf
<1>7. ASSUME NEW r \in Requests, NEW k \in Slots, NEW status \in DOMAIN MarkOf,
             UpdateAssignment(r, k, status)
      PROVE  WritesFollowReads'
  <2>1. <<k>> \in Seq(Slots)
    OBVIOUS
  <2> QED
    BY <1>5, <1>7, <2>1 DEF UpdateAssignment
<1>8. ASSUME NEW r \in Requests, NEW ids \in Lists(Slots), DeleteAssignments(r, ids)
      PROVE  WritesFollowReads'
  <2>1. ids \in Seq(Slots)
    BY AssignmentsAssumption DEF Lists
  <2> QED
    BY <1>5, <1>8, <2>1 DEF DeleteAssignments, MarkOf
<1>9. ASSUME NEW r \in Requests, GetAssignment(r) PROVE WritesFollowReads'
  <2> DEFINE row == rows[Head(job[r].todo)]
             j == [job[r] EXCEPT !.row = Marked(row, job[r].status), !.was = row]
  <2>1. pc[r] = "read" /\ rows' = rows /\ stale' = stale \ {r}
    BY <1>9 DEF GetAssignment
  <2>2. Bystanders(r)
    BY <1>4, <2>1
  <2>3. job[r] \in Jobs /\ job[r].todo # <<>> /\ job[r].code = "none" /\ job[r].op # "create"
    BY <1>1, <2>1, JobAtWork DEF Follows
  <2>4. CASE row # Absent /\ At(r, "upsert", j)
    <3>1. /\ j.op = job[r].op /\ j.code = job[r].code /\ j.status = job[r].status
          /\ j.todo = job[r].todo /\ j.row = Marked(row, job[r].status) /\ j.was = row
      BY <2>3 DEF Jobs
    <3> HIDE DEF j
    <3>2. Follows("upsert", j, rows', r \in stale')
      BY <2>1, <2>3, <2>4, <3>1 DEF Follows
    <3> QED
      BY <1>1, <2>2, <2>4, <3>2, StepFollows
  <2>5. CASE GiveUp(r, job[r])
    BY <1>1, <2>2, <2>3, <2>5, GiveUpFollows
  <2> QED
    BY <1>9, <2>4, <2>5 DEF GetAssignment
<1>10. ASSUME NEW r \in Requests, UpsertAssignment(r) PROVE WritesFollowReads'
  <2> DEFINE k == Head(job[r].todo)
             written == [job[r] EXCEPT !.applied = @ \cup {k}]
  <2>1. /\ pc[r] = "upsert"
        /\ job[r] \in Jobs /\ job[r].todo # <<>> /\ k \in Slots /\ job[r].code = "none"
        /\ job[r].op = "create" => job[r].row = Created
    BY <1>1, <1>10, JobAtWork DEF UpsertAssignment, Follows
  <2>2. Bystanders(r)
    <3>1. CASE UNCHANGED <<rows, stale>>
      BY <1>4, <3>1
    <3>2. CASE Store(r, k, job[r].row)
      <4> SUFFICES ASSUME NEW q \in Requests \ {r}
                   PROVE  /\ q \in stale => q \in stale'
                          /\ pc[q] = "upsert" /\ q \notin stale' =>
                                 rows'[Head(job[q].todo)] = rows[Head(job[q].todo)]
        BY DEF Bystanders
      <4>1. pc[q] = "upsert" => Head(job[q].todo) \in Slots
        BY JobAtWork
      <4> QED
        BY <1>1, <2>1, <3>2, <4>1 DEF Store, Writing, TypeOK
    <3> QED
      BY <1>10, <3>1, <3>2 DEF UpsertAssignment
  <2>3. /\ written \in Jobs /\ written.todo = job[r].todo /\ written.row = job[r].row
        /\ written.op = job[r].op /\ written.code = job[r].code
    BY <2>1 DEF Jobs
  <2> HIDE DEF written
  <2>4. CASE Continue(r, Rest(written))
    <3>1. written.op = "create" => written.row # Absent
      BY <2>1, <2>3, AssignmentsAssumption DEF Created, Rows
    <3>2. Rest(written) \in Jobs /\ Rest(written).op = job[r].op
      BY <2>1, <2>3, <3>1, RestOfJob
    <3>3. /\ Rest(written).code = "none"
          /\ job[r].op = "create" => Rest(written).row = Created
      BY <2>1, <2>3 DEF Rest, Jobs
    <3> QED
      BY <1>1, <2>2, <2>4, <3>2, <3>3, ContinueFollows
  <2>5. CASE GiveUp(r, written)
    BY <1>1, <2>1, <2>2, <2>3, <2>5, GiveUpFollows
  <2>6. CASE GiveUp(r, job[r])
    BY <1>1, <2>1, <2>2, <2>6, GiveUpFollows
  <2> QED
    BY <1>10, <2>4, <2>5, <2>6 DEF UpsertAssignment, written
<1>11. ASSUME NEW r \in Requests, Answer(r) PROVE WritesFollowReads'
  <2>1. At(r, "idle", NoJob) /\ Bystanders(r)
    BY <1>4, <1>11 DEF Answer
  <2>2. Follows("idle", NoJob, rows', r \in stale')
    BY DEF Follows
  <2> QED
    BY <1>1, <2>1, <2>2, StepFollows
<1> QED
  BY <1>2, <1>3, <1>6, <1>7, <1>8, <1>9, <1>10, <1>11 DEF Next

\* A change of a row is the write of a request, which has then something else to do.
LEMMA StepAccounts ==
    ASSUME IInv, WritesFollowReads, [Next]_vars, NEW k \in Slots, rows'[k] # rows[k]
    PROVE  \E r \in Writing(k) :
               /\ job'[r] # job[r]
               /\ Alone(job[r], IF r \in stale THEN job[r].was ELSE rows[k], rows'[k])
<1>1. PICK r \in Requests : UpsertAssignment(r)
  <2>1. \A r \in Requests : GetAssignment(r) => rows' = rows
    BY DEF GetAssignment
  <2> QED
    BY <2>1 DEF Next, vars, CreateAssignments, UpdateAssignment, DeleteAssignments, Begin,
        Answer, Restart
<1> DEFINE i == Head(job[r].todo)
           written == [job[r] EXCEPT !.applied = @ \cup {i}]
<1>2. /\ pc[r] = "upsert" /\ job[r] \in Jobs /\ i \in Slots
      /\ Tail(job[r].todo) # job[r].todo /\ job[r].code = "none"
  BY <1>1, JobAtWork DEF UpsertAssignment
<1>3. Store(r, i, job[r].row) /\ (Continue(r, Rest(written)) \/ GiveUp(r, written))
  BY <1>1 DEF UpsertAssignment
<1>4. k = i /\ rows'[k] = job[r].row
  BY <1>2, <1>3 DEF Store, IInv, TypeOK
<1>5. /\ written \in Jobs /\ written.todo = job[r].todo /\ written.code = "none"
      /\ written.op = job[r].op
  BY <1>2 DEF Jobs
<1> HIDE DEF written
<1>6. Rest(written).todo = Tail(job[r].todo)
  BY <1>5 DEF Rest, Jobs
<1>7. ASSUME Continue(r, Rest(written)) PROVE job'[r] # job[r]
  <2>1. Rest(written).todo # job[r].todo
    BY <1>2, <1>6
  <2>2. \A code : [Rest(written) EXCEPT !.code = code].todo = Rest(written).todo
    BY <1>5 DEF Rest, Jobs
  <2>3. job'[r] = Rest(written) \/ \E code : job'[r] = [Rest(written) EXCEPT !.code = code]
    <3> DEFINE w == Rest(written)
    <3>1. Continue(r, w)
      BY <1>7
    <3> HIDE DEF w
    <3>2. job'[r] = w \/ \E code : job'[r] = [w EXCEPT !.code = code]
      BY <3>1 DEF Continue, Reply, At, IInv, TypeOK
    <3> QED
      BY <3>2 DEF w
  <2> QED
    BY <2>1, <2>2, <2>3
<1>8. ASSUME Reply(r, written, "500") PROVE job'[r] # job[r]
  <2>1. job'[r].code = "500"
    BY <1>5, <1>8 DEF Reply, At, IInv, TypeOK, Jobs
  <2> QED
    BY <1>2, <2>1
<1>9. job'[r] # job[r]
  BY <1>3, <1>7, <1>8 DEF GiveUp
<1>10. Alone(job[r], IF r \in stale THEN job[r].was ELSE rows[k], rows'[k])
  <2>1. Follows(pc[r], job[r], rows, r \in stale)
    BY AllFollow
  <2> QED
    BY <1>2, <1>4, <2>1 DEF Follows, Alone, Marked
<1> QED
  BY <1>2, <1>4, <1>9, <1>10 DEF Writing

\* However many requests, bulk or not, overlap or fail: an assignment changes as
\* one request alone would have changed it, or would have changed the row it read
\* when that was written again since.
\* (internal/service/assignment.go:224-235, 264-302, 323-337)
THEOREM AssignmentChangesAreAccountedFor == Spec => ChangesAreAccountedFor
<1>1. Init => WritesFollowReads
  BY DEF Init, WritesFollowReads
<1>2. IInv /\ WritesFollowReads /\ [Next]_vars =>
        [\A k \in Slots : rows'[k] # rows[k] =>
            \E r \in Writing(k) :
                /\ job'[r] # job[r]
                /\ Alone(job[r], IF r \in stale THEN job[r].was ELSE rows[k], rows'[k])]_vars
  BY StepAccounts
<1> QED
  BY <1>1, <1>2, Invariance, NextFollows, PTL DEF Spec, ChangesAreAccountedFor
=============================================================================
