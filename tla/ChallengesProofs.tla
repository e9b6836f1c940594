-------------------------- MODULE ChallengesProofs --------------------------
(***************************************************************************)
(* Proofs about Challenges for any users, labs, versions of labs, lists    *)
(* and number of requests: its types, that success means the whole list,   *)
(* that a challenge is only deleted by somebody the lab allowed to, and    *)
(* that every change is one that a request alone makes of the row there    *)
(* is, or of the row it read if it was overtaken. The inductive invariant  *)
(* adds what a request has checked before it deletes, that all other       *)
(* requests have a row to write, and that what is not yet written is still *)
(* to do; the last theorem adds that what a report is about to write is    *)
(* made of the row it read.                                                *)
(***************************************************************************)
EXTENDS Challenges, TLAPS

\* The first item and the others are all items.
LEMMA ItemsTail ==
    ASSUME NEW s \in Seq(Items), s # <<>>
    PROVE  /\ Tail(s) \in Seq(Items)
           /\ Head(s) \in Items /\ Head(s) = s[1] /\ 1 \in DOMAIN s
           /\ SlotsOf(s) = {Head(s).slot} \cup SlotsOf(Tail(s))
           /\ \A i \in DOMAIN Tail(s) : i + 1 \in DOMAIN s /\ Tail(s)[i] = s[i + 1]
<1>1. /\ Len(s) \in Nat /\ Len(s) # 0 /\ DOMAIN s = 1..Len(s)
      /\ Tail(s) \in Seq(Items) /\ Len(Tail(s)) = Len(s) - 1
      /\ DOMAIN Tail(s) = 1..(Len(s) - 1)
      /\ \A i \in 1..(Len(s) - 1) : Tail(s)[i] = s[i + 1]
      /\ Head(s) = s[1]
  OBVIOUS
<1>2. Head(s) \in Items /\ 1 \in DOMAIN s
  BY <1>1
<1>3. \A i \in DOMAIN Tail(s) : i + 1 \in DOMAIN s /\ Tail(s)[i] = s[i + 1]
  BY <1>1
<1>4. ASSUME NEW x \in SlotsOf(s) PROVE x \in {Head(s).slot} \cup SlotsOf(Tail(s))
  <2>1. PICK i \in 1..Len(s) : x = s[i].slot
    BY <1>1 DEF SlotsOf
  <2>2. CASE i = 1
    BY <1>1, <2>1, <2>2
  <2>3. CASE i # 1
    <3>1. i - 1 \in DOMAIN Tail(s) /\ (i - 1) + 1 = i
      BY <1>1, <2>1, <2>3
    <3>2. x = Tail(s)[i - 1].slot
      BY <1>3, <2>1, <3>1
    <3> QED
      BY <3>1, <3>2 DEF SlotsOf
  <2> QED
    BY <2>2, <2>3
<1>5. ASSUME NEW x \in SlotsOf(Tail(s)) PROVE x \in SlotsOf(s)
  BY <1>3, <1>5 DEF SlotsOf
<1>6. Head(s).slot \in SlotsOf(s)
  BY <1>1, <1>2 DEF SlotsOf
<1> QED
  BY <1>1, <1>2, <1>3, <1>4, <1>5, <1>6

LEMMA InitInv == Init => IInv
BY DEF Init, IInv, TypeOK, AnsweredMeansAll, Checked, RowsToWrite, ItemsAreAskedFor

\* What a request's record is made of.
LEMMA JobParts ==
    ASSUME NEW j \in Jobs
    PROVE  /\ j # NoJob /\ j.op \in {"upsert", "update", "delete"}
           /\ j.status \in Statuses /\ j.todo \in Seq(Items)
           /\ j.caller \in Users \cup {Nobody}
           /\ j.row \in Rows \cup {Absent} /\ j.was \in Rows \cup {Absent}
           /\ j.asked \in SUBSET Slots /\ j.applied \in SUBSET Slots
BY ChallengesAssumption DEF Jobs

\* What holds of a request that is under way.
LEMMA JobFacts ==
    ASSUME IInv, NEW r \in Requests, pc[r] \notin {"idle", "answer"}
    PROVE  /\ job[r] \in Jobs /\ job[r] # NoJob /\ job[r].todo # <<>>
           /\ job[r].todo \in Seq(Items) /\ Current(job[r]) \in Slots
           /\ rows[Current(job[r])] \in Rows \cup {Absent}
           /\ SlotsOf(job[r].todo) = {Current(job[r])} \cup SlotsOf(Tail(job[r].todo))
           /\ job[r].asked \subseteq job[r].applied \cup SlotsOf(job[r].todo)
           /\ job[r].op = "delete" => job[r].caller \in Users
           /\ job[r].op = "upsert" => \A i \in DOMAIN job[r].todo : job[r].todo[i].body # Absent
<1>1. job[r] \in Jobs /\ job[r].todo # <<>> /\ job[r] # NoJob
  BY DEF IInv, TypeOK
<1>2. job[r].todo \in Seq(Items)
  BY <1>1, JobParts
<1>3. Current(job[r]) \in Slots
  BY <1>1, <1>2, ItemsTail DEF Current, Items
<1>4. SlotsOf(job[r].todo) = {Current(job[r])} \cup SlotsOf(Tail(job[r].todo))
  BY <1>1, <1>2, ItemsTail DEF Current
<1> QED
  BY <1>1, <1>2, <1>3, <1>4 DEF IInv, TypeOK, ItemsAreAskedFor, RowsToWrite

\* A step of request r to j.  Of the rows, only the one r is at may change, and
\* then the requests that have read it are noted.
LEMMA AtStep ==
    ASSUME IInv, NEW r \in Requests, NEW at, NEW j, At(r, at, j), versions' = versions,
           stale' \subseteq Requests, rows' \in [Slots -> Rows \cup {Absent}],
           \A q \in Requests \ {r} : q \in stale => q \in stale',
           \A q \in Requests \ {r} : pc[q] \in {"readLab", "delete"} =>
               q \in stale' \/ rows'[Current(job[q])] = rows[Current(job[q])],
           at \in {"idle", "read", "readRow", "readLab", "upsert", "delete", "answer"},
           j \in Jobs \cup {NoJob}, at = "idle" <=> j = NoJob,
           at \notin {"idle", "answer"} => j.todo # <<>>,
           at \notin {"idle", "answer"} => j.asked \subseteq j.applied \cup SlotsOf(j.todo),
           at = "answer" /\ j.code = "200" => j.asked \subseteq j.applied,
           at = "upsert" => j.op \in {"upsert", "update"},
           at = "upsert" /\ j.op = "update" => j.row # Absent,
           at = "read" => j.op = "update",
           at \in {"readRow", "readLab", "delete"} => j.op = "delete",
           at # "idle" /\ j.op = "delete" => j.caller \in Users,
           at # "idle" /\ j.op = "upsert" => \A i \in DOMAIN j.todo : j.todo[i].body # Absent,
           at \in {"readLab", "delete"} =>
               j.row # Absent /\ (r \in stale' \/ rows'[Current(j)] = j.row),
           at = "delete" => \E lab \in versions[Current(j)[2]] :
               MayDelete(Current(j)[1], j.caller, j.row, lab)
    PROVE  IInv'
<1>1. \A q \in Requests :
        /\ q = r => pc'[q] = at /\ job'[q] = j
        /\ q # r => pc'[q] = pc[q] /\ job'[q] = job[q]
  BY DEF At, IInv, TypeOK
<1>2. at = "upsert" /\ j.op = "upsert" => Head(j.todo).body # Absent
  BY JobParts, ItemsTail
<1>3. TypeOK'
  BY <1>1, <1>2 DEF IInv, TypeOK, At
<1>4. AnsweredMeansAll' /\ ItemsAreAskedFor'
  BY <1>1 DEF IInv, AnsweredMeansAll, ItemsAreAskedFor, SlotsOf
<1>5. RowsToWrite'
  BY <1>1 DEF IInv, RowsToWrite
<1>6. Checked'
  <2> SUFFICES ASSUME NEW q \in Requests, pc'[q] \in {"readLab", "delete"}
               PROVE  LET i == job'[q]
                          k == Current(job'[q])
                      IN  /\ i.op = "delete" /\ i.row # Absent /\ i.caller \in Users
                          /\ q \in stale' \/ rows'[k] = i.row
                          /\ pc'[q] = "delete" =>
                              \E lab \in versions'[k[2]] : MayDelete(k[1], i.caller, i.row, lab)
    BY DEF Checked, Current, MayDelete
  <2>1. CASE q = r
    BY <1>1, <2>1
  <2>2. CASE q # r
    BY <1>1, <2>2 DEF IInv, Checked
  <2> QED
    BY <2>1, <2>2
<1> QED
  BY <1>3, <1>4, <1>5, <1>6 DEF IInv

\* What a step may do to the rows: nothing, or change the one request r is at.
RowStep(r) ==
    /\ versions' = versions
    /\ \/ UNCHANGED rows /\ stale' \in {stale, stale \ {r}}
       \/ pc[r] \notin {"idle", "answer"} /\ \E row \in Rows \cup {Absent} : Store(r, Current(job[r]), row)

LEMMA RowStepFacts ==
    ASSUME IInv, NEW r \in Requests, RowStep(r)
    PROVE  /\ versions' = versions /\ stale' \subseteq Requests
           /\ rows' \in [Slots -> Rows \cup {Absent}]
           /\ \A q \in Requests \ {r} : q \in stale => q \in stale'
           /\ \A q \in Requests \ {r} : pc[q] \in {"readLab", "delete"} =>
                  q \in stale' \/ rows'[Current(job[q])] = rows[Current(job[q])]
<1>1. CASE UNCHANGED rows /\ stale' \in {stale, stale \ {r}}
  BY <1>1 DEF RowStep, IInv, TypeOK
<1>2. ASSUME pc[r] \notin {"idle", "answer"},
             NEW row \in Rows \cup {Absent}, Store(r, Current(job[r]), row)
      PROVE  /\ stale' \subseteq Requests
             /\ rows' \in [Slots -> Rows \cup {Absent}]
             /\ \A q \in Requests \ {r} : q \in stale => q \in stale'
             /\ \A q \in Requests \ {r} : pc[q] \in {"readLab", "delete"} =>
                    q \in stale' \/ rows'[Current(job[q])] = rows[Current(job[q])]
  <2>1. Current(job[r]) \in Slots
    BY <1>2, JobFacts
  <2> QED
    BY <1>2, <2>1 DEF Store, Writing, IInv, TypeOK
<1> QED
  BY <1>1, <1>2 DEF RowStep

LEMMA ReplyStep ==
    ASSUME IInv, NEW r \in Requests, NEW j \in Jobs,
           NEW code \in {"200", "500"}, Reply(r, j, code), RowStep(r),
           j.op = "delete" => j.caller \in Users,
           j.op = "upsert" => \A i \in DOMAIN j.todo : j.todo[i].body # Absent,
           code = "200" => j.asked \subseteq j.applied
    PROVE  IInv'
<1> DEFINE k == [j EXCEPT !.code = code]
<1>1. /\ k \in Jobs /\ k.asked = j.asked /\ k.applied = j.applied /\ k.code = code
      /\ k.op = j.op /\ k.caller = j.caller /\ k.todo = j.todo
  BY DEF Jobs
<1>2. k # NoJob
  BY <1>1, JobParts
<1>3. At(r, "answer", k)
  BY DEF Reply
<1> HIDE DEF k
<1> QED
  BY <1>1, <1>2, <1>3, RowStepFacts, AtStep

\* A request at the start of an item.
LEMMA StartStep ==
    ASSUME IInv, NEW r \in Requests, NEW j \in Jobs, j.todo # <<>>,
           At(r, Start(j.op), j), RowStep(r),
           j.asked \subseteq j.applied \cup SlotsOf(j.todo),
           j.op = "delete" => j.caller \in Users,
           j.op = "upsert" => \A i \in DOMAIN j.todo : j.todo[i].body # Absent
    PROVE  IInv'
<1>1. j # NoJob /\ j.op \in {"upsert", "update", "delete"}
  BY JobParts
<1>2. PICK at : /\ at = Start(j.op)
                /\ at \in {"upsert", "read", "readRow"}
                /\ at = "upsert" => j.op = "upsert"
                /\ at = "read" => j.op = "update"
                /\ at = "readRow" => j.op = "delete"
  BY <1>1 DEF Start
<1>3. At(r, at, j)
  BY <1>2
<1> QED
  BY <1>1, <1>2, <1>3, RowStepFacts, AtStep

\* An item is done, and the request goes on with the next.
LEMMA ContinueStep ==
    ASSUME IInv, NEW r \in Requests, NEW j \in Jobs, j.todo # <<>>, Continue(r, j), RowStep(r),
           j.asked \subseteq j.applied \cup SlotsOf(Tail(j.todo)),
           j.op = "delete" => j.caller \in Users,
           j.op = "upsert" => \A i \in DOMAIN j.todo : j.todo[i].body # Absent
    PROVE  IInv'
<1> DEFINE rest == [j EXCEPT !.todo = Tail(@), !.row = Absent, !.was = Absent]
<1>1. j.todo \in Seq(Items)
  BY JobParts
<1>2. Tail(j.todo) \in Seq(Items)
  BY <1>1, ItemsTail
<1>3. /\ rest \in Jobs /\ rest.op = j.op /\ rest.caller = j.caller
      /\ rest.todo = Tail(j.todo) /\ rest.asked = j.asked /\ rest.applied = j.applied
  BY <1>2 DEF Jobs
<1>4. rest.op = "upsert" => \A i \in DOMAIN rest.todo : rest.todo[i].body # Absent
  BY <1>1, <1>3, ItemsTail
<1>5. IF rest.todo # <<>> THEN At(r, Start(j.op), rest) ELSE Reply(r, rest, "200")
  BY DEF Continue
<1> HIDE DEF rest
<1>6. CASE rest.todo # <<>>
  <2>1. At(r, Start(rest.op), rest)
    BY <1>3, <1>5, <1>6
  <2> QED
    BY <1>3, <1>4, <1>6, <2>1, StartStep
<1>7. CASE rest.todo = <<>>
  <2>1. SlotsOf(rest.todo) = {}
    BY <1>7 DEF SlotsOf
  <2> QED
    BY <1>3, <1>4, <1>5, <1>7, <2>1, ReplyStep
<1> QED
  BY <1>6, <1>7

\* A request begins.
LEMMA BeginStep ==
    ASSUME IInv, NEW r \in Requests, NEW op \in {"upsert", "update", "delete"},
           NEW caller \in Users \cup {Nobody}, NEW items \in Seq(Items), NEW status \in Statuses,
           Begin(r, op, caller, items, status),
           op = "delete" => caller \in Users,
           op = "upsert" => \A i \in DOMAIN items : items[i].body # Absent
    PROVE  IInv'
<1> DEFINE j == [op |-> op, caller |-> caller, status |-> status, todo |-> items,
                 row |-> Absent, was |-> Absent, code |-> "none",
                 asked |-> SlotsOf(items), applied |-> {}]
<1>1. SlotsOf(items) \subseteq Slots
  <2>1. \A i \in DOMAIN items : items[i] \in Items
    OBVIOUS
  <2> QED
    BY <2>1 DEF SlotsOf, Items
<1>2. /\ j \in Jobs /\ j.op = op /\ j.caller = caller /\ j.todo = items
      /\ j.asked = SlotsOf(items) /\ j.applied = {}
  BY <1>1 DEF Jobs
<1>3. RowStep(r) /\ IF items = <<>> THEN Reply(r, j, "200") ELSE At(r, Start(op), j)
  BY DEF Begin, RowStep
<1> HIDE DEF j
<1>4. CASE items = <<>>
  <2>1. SlotsOf(items) = {}
    BY <1>4 DEF SlotsOf
  <2> QED
    BY <1>2, <1>3, <1>4, <2>1, ReplyStep
<1>5. CASE items # <<>>
  <2>1. At(r, Start(j.op), j)
    BY <1>2, <1>3, <1>5
  <2> QED
    BY <1>2, <1>3, <1>5, <2>1, StartStep
<1> QED
  BY <1>4, <1>5

LEMMA TransitionIsRow ==
    ASSUME NEW row \in Rows, NEW status \in Statuses
    PROVE  ApplyStatusTransition(row, status) \in Rows
BY DEF ApplyStatusTransition, Rows, Statuses

LEMMA NextInv == IInv /\ [Next]_vars => IInv'
<1> SUFFICES ASSUME IInv, [Next]_vars PROVE IInv'
  OBVIOUS
<1>1. CASE UNCHANGED vars
  BY <1>1 DEF vars, IInv, TypeOK, AnsweredMeansAll, Checked, RowsToWrite, ItemsAreAskedFor,
              SlotsOf, Current, MayDelete
<1>2. CASE Restart
  BY <1>2 DEF Restart, IInv, TypeOK, AnsweredMeansAll, Checked, RowsToWrite, ItemsAreAskedFor
<1>3. ASSUME NEW l \in Labs, NEW v \in Versions, SaveLab(l, v) PROVE IInv'
  <2>1. /\ UNCHANGED <<rows, pc, job, stale>>
        /\ versions' \in [Labs -> SUBSET LabVersions]
        /\ \A m \in Labs : versions[m] \subseteq versions'[m]
    BY <1>3, ChallengesAssumption DEF SaveLab, IInv, TypeOK
  <2>2. TypeOK' /\ AnsweredMeansAll' /\ RowsToWrite' /\ ItemsAreAskedFor'
    BY <2>1 DEF IInv, TypeOK, AnsweredMeansAll, RowsToWrite, ItemsAreAskedFor, SlotsOf
  <2>3. \A r \in Requests : pc[r] = "delete" => Current(job[r])[2] \in Labs
    BY JobFacts DEF Slots
  <2>4. Checked'
    BY <2>1, <2>3 DEF IInv, Checked, Current, MayDelete
  <2> QED
    BY <2>2, <2>4 DEF IInv
<1>4. ASSUME NEW r \in Requests, NEW items \in Lists([slot: Slots, body: Bodies]),
             UpsertChallenges(r, items)
      PROVE  IInv'
  <2>1. PICK n \in 0..MaxList : items \in [1..n -> [slot: Slots, body: Bodies]]
    BY <1>4 DEF Lists
  <2>2. \A i \in 1..n : items[i] \in Items /\ items[i].body # Absent
    BY <2>1, ChallengesAssumption DEF Items
  <2>3. n \in Nat /\ items \in [1..n -> Items]
    BY <2>1, <2>2, ChallengesAssumption
  <2>4. items \in Seq(Items) /\ \A i \in DOMAIN items : items[i].body # Absent
    BY <2>2, <2>3
  <2> QED
    BY <1>4, <2>4, BeginStep DEF UpsertChallenges, Statuses
<1>5. ASSUME NEW k \in Slots
      PROVE  <<[slot |-> k, body |-> Absent]>> \in Seq(Items)
  BY DEF Items
<1>6. ASSUME NEW r \in Requests, NEW k \in Slots, NEW status \in Reports,
             UpdateChallenge(r, k, status)
      PROVE  IInv'
  BY <1>5, <1>6, BeginStep, ChallengesAssumption DEF UpdateChallenge
<1>7. ASSUME NEW r \in Requests, NEW k \in Slots, NEW c \in Users, DeleteChallenges(r, c, k)
      PROVE  IInv'
  BY <1>5, <1>7, BeginStep DEF DeleteChallenges, Statuses
<1>8. ASSUME NEW r \in Requests, GetChallengesByUserId(r) PROVE IInv'
  <2> DEFINE row == rows[Current(job[r])]
             j == [job[r] EXCEPT !.row = ApplyStatusTransition(row, job[r].status), !.was = row]
  <2>1. pc[r] = "read" /\ RowStep(r)
    BY <1>8 DEF GetChallengesByUserId, RowStep
  <2>2. job[r].op = "update"
    BY <2>1 DEF IInv, RowsToWrite
  <2>3. CASE row # Absent /\ At(r, "upsert", j)
    <3>1. ApplyStatusTransition(row, job[r].status) \in Rows
      BY <2>1, <2>3, JobFacts, JobParts, TransitionIsRow
    <3>2. /\ j \in Jobs /\ j.row # Absent /\ j.op = job[r].op /\ j.todo = job[r].todo
          /\ j.asked = job[r].asked /\ j.applied = job[r].applied
      <4> DEFINE new == ApplyStatusTransition(row, job[r].status)
      <4>1. job[r] \in Jobs /\ row \in Rows /\ new \in Rows /\ new # Absent
        BY <2>1, <2>3, <3>1, JobFacts, ChallengesAssumption
      <4> HIDE DEF row, new
      <4> QED
        BY <4>1 DEF Jobs, new
    <3>3. j # NoJob
      BY <3>2, JobParts
    <3> HIDE DEF j
    <3> QED
      BY <2>1, <2>2, <2>3, <3>2, <3>3, JobFacts, RowStepFacts, AtStep
  <2>4. CASE Reply(r, job[r], "500")
    BY <2>1, <2>4, JobFacts, ReplyStep
  <2> QED
    BY <1>8, <2>3, <2>4 DEF GetChallengesByUserId
<1>9. ASSUME NEW r \in Requests, GetChallengeByUserIdAndLabId(r) PROVE IInv'
  <2> DEFINE row == rows[Current(job[r])]
             j == [job[r] EXCEPT !.row = row]
  <2>1. pc[r] = "readRow" /\ RowStep(r) /\ UNCHANGED rows
    BY <1>9 DEF GetChallengeByUserIdAndLabId, RowStep
  <2>2. job[r].op = "delete"
    BY <2>1 DEF IInv, RowsToWrite
  <2>3. CASE row # Absent /\ At(r, "readLab", j)
    <3>1. /\ j \in Jobs /\ j.row = row /\ j.op = job[r].op /\ j.todo = job[r].todo
          /\ j.asked = job[r].asked /\ j.applied = job[r].applied /\ j.caller = job[r].caller
      BY <2>1, JobFacts DEF Jobs
    <3>2. j # NoJob /\ Current(j) = Current(job[r])
      BY <3>1, JobParts DEF Current
    <3>3. rows'[Current(j)] = j.row
      BY <2>1, <3>1, <3>2
    <3> HIDE DEF j
    <3> QED
      BY <2>1, <2>2, <2>3, <3>1, <3>2, <3>3, JobFacts, RowStepFacts, AtStep
  <2>4. CASE Reply(r, job[r], "500")
    BY <2>1, <2>4, JobFacts, ReplyStep
  <2> QED
    BY <1>9, <2>3, <2>4 DEF GetChallengeByUserIdAndLabId
<1>10. ASSUME NEW r \in Requests, IsDeleteAllowed(r) PROVE IInv'
  <2>1. pc[r] = "readLab" /\ RowStep(r) /\ UNCHANGED <<rows, stale>>
    BY <1>10 DEF IsDeleteAllowed, RowStep
  <2>2. /\ job[r].op = "delete" /\ job[r].row # Absent
        /\ r \in stale \/ rows[Current(job[r])] = job[r].row
    BY <2>1 DEF IInv, Checked
  <2>3. CASE /\ At(r, "delete", job[r])
             /\ \E lab \in versions[Current(job[r])[2]] :
                   MayDelete(Current(job[r])[1], job[r].caller, job[r].row, lab)
    BY <2>1, <2>2, <2>3, JobFacts, RowStepFacts, AtStep
  <2>4. CASE Reply(r, job[r], "500")
    BY <2>1, <2>4, JobFacts, ReplyStep
  <2> QED
    BY <1>10, <2>3, <2>4 DEF IsDeleteAllowed
<1>11. ASSUME NEW r \in Requests, pc[r] \in {"upsert", "delete"},
              NEW row \in Rows \cup {Absent},
              LET written == [job[r] EXCEPT !.applied = @ \cup {Current(job[r])}] IN
              \/ /\ Store(r, Current(job[r]), row)
                 /\ Continue(r, written) \/ Reply(r, written, "500")
              \/ UNCHANGED <<rows, stale>> /\ Reply(r, job[r], "500"),
              UNCHANGED versions
       PROVE  IInv'
  <2> DEFINE written == [job[r] EXCEPT !.applied = @ \cup {Current(job[r])}]
  <2>1. RowStep(r)
    BY <1>11 DEF RowStep
  <2>2. /\ written \in Jobs /\ written.op = job[r].op /\ written.todo = job[r].todo
        /\ written.caller = job[r].caller /\ written.asked = job[r].asked
        /\ written.applied = job[r].applied \cup {Current(job[r])}
    BY <1>11, JobFacts DEF Jobs
  <2>3. \/ Continue(r, written) \/ Reply(r, written, "500") \/ Reply(r, job[r], "500")
    BY <1>11
  <2> HIDE DEF written
  <2>4. CASE Continue(r, written)
    BY <1>11, <2>1, <2>2, <2>4, JobFacts, ContinueStep
  <2>5. CASE Reply(r, written, "500")
    BY <1>11, <2>1, <2>2, <2>5, JobFacts, ReplyStep
  <2>6. CASE Reply(r, job[r], "500")
    BY <1>11, <2>1, <2>6, JobFacts, ReplyStep
  <2> QED
    BY <2>3, <2>4, <2>5, <2>6
<1>12. ASSUME NEW r \in Requests, UpsertChallenge(r) PROVE IInv'
  <2> DEFINE row == IF job[r].op = "upsert" THEN Head(job[r].todo).body ELSE job[r].row
  <2>1. pc[r] = "upsert" /\ row \in Rows \cup {Absent}
    BY <1>12, JobFacts, JobParts, ItemsTail DEF UpsertChallenge, Items
  <2> QED
    BY <1>11, <1>12, <2>1 DEF UpsertChallenge
<1>13. ASSUME NEW r \in Requests, DeleteChallenge(r) PROVE IInv'
  BY <1>11, <1>13 DEF DeleteChallenge
<1>14. ASSUME NEW r \in Requests, Answer(r) PROVE IInv'
  <2>1. At(r, "idle", NoJob) /\ RowStep(r)
    BY <1>14 DEF Answer, RowStep
  <2> QED
    BY <2>1, RowStepFacts, AtStep
<1> QED
  BY <1>1, <1>2, <1>3, <1>4, <1>6, <1>7, <1>8, <1>9, <1>10, <1>12, <1>13, <1>14 DEF Next

LEMMA Invariance == Spec => []IInv
BY InitInv, NextInv, PTL DEF Spec

\* The rows, and what the requests have still to do, keep their types.
THEOREM ChallengesTypeCorrect == Spec => []TypeOK
<1>1. IInv => TypeOK
  BY DEF IInv
<1> QED
  BY <1>1, Invariance, PTL

\* For lists of any length, whatever else happens to the rows meanwhile: a list
\* of challenges answered with success has been written as a whole.
THEOREM AnswersAreComplete == Spec => []AnsweredMeansAll
<1>1. IInv => AnsweredMeansAll
  BY DEF IInv
<1> QED
  BY <1>1, Invariance, PTL

LEMMA ReadKeepsRows == \A r \in Requests : GetChallengesByUserId(r) => rows' = rows
BY DEF GetChallengesByUserId

\* Only a request that was let through removes a row.
LEMMA RemovalsAreLetThrough ==
    ASSUME IInv, Next, NEW k \in Slots, rows[k] # Absent, rows'[k] = Absent
    PROVE  \E r \in Requests : pc[r] = "delete" /\ Current(job[r]) = k /\ DeleteChallenge(r)
<1>1. ASSUME NEW r \in Requests, UpsertChallenge(r) PROVE FALSE
  <2> DEFINE row == IF job[r].op = "upsert" THEN Head(job[r].todo).body ELSE job[r].row
  <2>1. pc[r] = "upsert" /\ rows' = [rows EXCEPT ![Current(job[r])] = row]
    BY <1>1 DEF UpsertChallenge, Store, IInv, TypeOK
  <2>2. row # Absent
    BY <2>1 DEF IInv, TypeOK, RowsToWrite
  <2> QED
    BY <2>1, <2>2 DEF IInv, TypeOK
<1>2. PICK r \in Requests : DeleteChallenge(r)
  BY <1>1, ReadKeepsRows DEF Next, UpsertChallenges, UpdateChallenge, DeleteChallenges, Begin,
              GetChallengeByUserIdAndLabId, IsDeleteAllowed, Answer,
              SaveLab, Restart
<1>3. pc[r] = "delete" /\ Current(job[r]) = k
  BY <1>2 DEF DeleteChallenge, Store, IInv, TypeOK
<1> QED
  BY <1>2, <1>3

\* A request leaves the deletion with the row.
LEMMA DeletionEnds ==
    ASSUME IInv, NEW r \in Requests, DeleteChallenge(r)
    PROVE  pc'[r] # "delete"
<1>1. \A at, j : At(r, at, j) => pc'[r] = at
  BY DEF At, IInv, TypeOK
<1>2. \A j, code : Reply(r, j, code) => pc'[r] = "answer"
  BY <1>1 DEF Reply
<1>3. ASSUME NEW j \in Jobs, Continue(r, j) PROVE pc'[r] # "delete"
  <2>1. Start(j.op) # "delete"
    BY JobParts DEF Start
  <2> QED
    BY <1>1, <1>2, <1>3, <2>1 DEF Continue
<1>4. [job[r] EXCEPT !.applied = @ \cup {Current(job[r])}] \in Jobs
  BY JobFacts DEF DeleteChallenge, Jobs
<1> QED
  BY <1>2, <1>3, <1>4 DEF DeleteChallenge

\* A challenge is only deleted by somebody a version of the lab allowed to, by
\* the row that is deleted, or by the one that was checked if that was replaced.
THEOREM DeletionsAreAllowed == Spec => DeletedByThoseAllowed
<1> DEFINE Allowed(r, k) ==
        /\ pc[r] = "delete" /\ pc'[r] # "delete"
        /\ \E lab \in versions[k[2]], row \in {rows[k]} \cup (IF r \in stale THEN {job[r].row} ELSE {}) :
            \/ job[r].caller \in lab.staff
            \/ job[r].caller = row.by /\ lab.challengerMay
            \/ job[r].caller = k[1] /\ lab.userMay
<1>1. ASSUME IInv, [Next]_vars, NEW k \in Slots, rows[k] # Absent, rows'[k] = Absent
      PROVE  \E r \in Writing(k) : Allowed(r, k)
  <2>1. Next
    BY <1>1 DEF vars
  <2>2. PICK r \in Requests : pc[r] = "delete" /\ Current(job[r]) = k /\ DeleteChallenge(r)
    BY <1>1, <2>1, RemovalsAreLetThrough
  <2>3. r \in Writing(k)
    BY <2>2 DEF Writing
  <2>4. pc'[r] # "delete"
    BY <1>1, <2>2, DeletionEnds
  <2>5. /\ \E lab \in versions[k[2]] : MayDelete(k[1], job[r].caller, job[r].row, lab)
        /\ r \in stale \/ rows[k] = job[r].row
    BY <1>1, <2>2 DEF IInv, Checked
  <2>6. job[r].row \in {rows[k]} \cup (IF r \in stale THEN {job[r].row} ELSE {})
    BY <2>5
  <2>7. Allowed(r, k)
    BY <2>2, <2>4, <2>5, <2>6 DEF MayDelete
  <2> QED
    BY <2>3, <2>7
<1>2. IInv /\ [Next]_vars =>
        [\A k \in Slots : rows[k] # Absent /\ rows'[k] = Absent =>
            \E r \in Writing(k) : Allowed(r, k)]_vars
  BY <1>1
<1> QED
  BY <1>2, Invariance, PTL DEF Spec, DeletedByThoseAllowed

-----------------------------------------------------------------------------
(* Changes are accounted for: by what those about to write have read.        *)

\* What WritesFollowReads says of one request, at a call and with a job, when the
\* table is t and the request has been overtaken or not.
Follows(at, j, t, overtaken) ==
    /\ at \notin {"idle", "answer"} => j.code = "none"
    /\ at = "upsert" /\ j.op = "update" =>
           /\ j.was # Absent /\ j.row = ApplyStatusTransition(j.was, j.status)
           /\ overtaken \/ t[Current(j)] = j.was

LEMMA AllFollow ==
    WritesFollowReads <=> \A r \in Requests : Follows(pc[r], job[r], rows, r \in stale)
  BY DEF WritesFollowReads, Follows

\* A step of r after which the others have the rows they have read, or are
\* marked as overtaken.
Bystanders(r) ==
    \A q \in Requests \ {r} :
        /\ q \in stale => q \in stale'
        /\ pc[q] = "upsert" /\ q \notin stale' =>
               rows'[Current(job[q])] = rows[Current(job[q])]

LEMMA StepFollows ==
    ASSUME TypeOK, WritesFollowReads, NEW r \in Requests, NEW at, NEW j, At(r, at, j),
           Bystanders(r), Follows(at, j, rows', r \in stale')
    PROVE  WritesFollowReads'
<1>1. ASSUME NEW q \in Requests PROVE Follows(pc'[q], job'[q], rows', q \in stale')
  <2>1. CASE q = r
    BY <2>1 DEF At, TypeOK
  <2>2. CASE q # r
    <3>1. pc'[q] = pc[q] /\ job'[q] = job[q]
      BY <2>2 DEF At, TypeOK
    <3>2. Follows(pc[q], job[q], rows, q \in stale)
      BY AllFollow
    <3> QED
      BY <2>2, <3>1, <3>2 DEF Follows, Bystanders
  <2> QED
    BY <2>1, <2>2
<1> QED
  BY <1>1 DEF WritesFollowReads, Follows, Current

\* A request that answers has nothing to write.
LEMMA ReplyFollows ==
    ASSUME TypeOK, WritesFollowReads, NEW r \in Requests, NEW j, NEW code, Reply(r, j, code),
           Bystanders(r)
    PROVE  WritesFollowReads'
<1> DEFINE k == [j EXCEPT !.code = code]
<1>1. At(r, "answer", k)
  BY DEF Reply
<1> HIDE DEF k
<1>2. Follows("answer", k, rows', r \in stale')
  BY DEF Follows
<1> QED
  BY <1>1, <1>2, StepFollows

\* Neither has a request at the start of an item read anything yet.
LEMMA StartFollows ==
    ASSUME TypeOK, WritesFollowReads, NEW r \in Requests, NEW j \in Jobs, At(r, Start(j.op), j),
           Bystanders(r), j.code = "none"
    PROVE  WritesFollowReads'
<1>1. j.op = "update" => Start(j.op) # "upsert"
  BY DEF Start
<1> DEFINE at == Start(j.op)
<1>2. Follows(at, j, rows', r \in stale')
  BY <1>1 DEF Follows
<1> HIDE DEF at
<1> QED
  BY <1>2, StepFollows DEF at

LEMMA ContinueFollows ==
    ASSUME TypeOK, WritesFollowReads, NEW r \in Requests, NEW j \in Jobs, j.todo # <<>>,
           Continue(r, j), Bystanders(r), j.code = "none"
    PROVE  WritesFollowReads'
<1> DEFINE rest == [j EXCEPT !.todo = Tail(@), !.row = Absent, !.was = Absent]
<1>1. Tail(j.todo) \in Seq(Items)
  BY JobParts, ItemsTail
<1>2. rest \in Jobs /\ rest.op = j.op /\ rest.code = j.code
  BY <1>1 DEF Jobs
<1>3. At(r, Start(j.op), rest) \/ Reply(r, rest, "200")
  BY DEF Continue
<1> HIDE DEF rest
<1>4. At(r, Start(rest.op), rest) \/ Reply(r, rest, "200")
  BY <1>2, <1>3
<1> QED
  BY <1>2, <1>4, StartFollows, ReplyFollows

\* What the next write needs of a request.
LEMMA JobAtWork ==
    ASSUME IInv, WritesFollowReads, NEW r \in Requests, pc[r] \notin {"idle", "answer"}
    PROVE  /\ job[r] \in Jobs /\ job[r].todo # <<>> /\ Current(job[r]) \in Slots
           /\ Tail(job[r].todo) # job[r].todo
           /\ job[r].code = "none"
<1>1. /\ job[r] \in Jobs /\ job[r].todo # <<>> /\ job[r].todo \in Seq(Items)
      /\ Current(job[r]) \in Slots /\ job[r].code = "none"
  BY JobFacts DEF WritesFollowReads
<1>2. Len(Tail(job[r].todo)) # Len(job[r].todo)
  BY <1>1
<1> QED
  BY <1>1, <1>2

\* A step that leaves the rows alone, and marks nobody but r afresh.
LEMMA QuietStep ==
    ASSUME NEW r \in Requests, rows' = rows, stale \ {r} \subseteq stale'
    PROVE  Bystanders(r)
  BY DEF Bystanders

\* A write marks those that have read the row.
LEMMA StoreStep ==
    ASSUME IInv, WritesFollowReads, NEW r \in Requests, NEW k \in Slots, NEW row, Store(r, k, row)
    PROVE  Bystanders(r)
<1> SUFFICES ASSUME NEW q \in Requests \ {r}
             PROVE  /\ q \in stale => q \in stale'
                    /\ pc[q] = "upsert" /\ q \notin stale' =>
                           rows'[Current(job[q])] = rows[Current(job[q])]
  BY DEF Bystanders
<1>1. pc[q] = "upsert" => Current(job[q]) \in Slots
  BY JobAtWork
<1> QED
  BY <1>1 DEF Store, Writing, IInv, TypeOK

LEMMA NextFollows == IInv /\ WritesFollowReads /\ [Next]_vars => WritesFollowReads'
<1> SUFFICES ASSUME IInv, WritesFollowReads, [Next]_vars PROVE WritesFollowReads'
  OBVIOUS
<1>1. TypeOK /\ \A r \in Requests : Follows(pc[r], job[r], rows, r \in stale)
  BY AllFollow DEF IInv
<1>2. CASE UNCHANGED vars
  BY <1>2 DEF vars, WritesFollowReads, Current
<1>3. CASE Restart
  BY <1>3 DEF Restart, WritesFollowReads
<1>4. ASSUME NEW l \in Labs, NEW v \in Versions, SaveLab(l, v) PROVE WritesFollowReads'
  BY <1>4 DEF SaveLab, WritesFollowReads, Current
<1>5. ASSUME NEW r \in Requests, NEW op \in {"upsert", "update", "delete"},
             NEW caller \in Users \cup {Nobody}, NEW items \in Seq(Items), NEW status \in Statuses,
             Begin(r, op, caller, items, status)
      PROVE  WritesFollowReads'
  <2> DEFINE j == [op |-> op, caller |-> caller, status |-> status, todo |-> items,
                   row |-> Absent, was |-> Absent, code |-> "none",
                   asked |-> SlotsOf(items), applied |-> {}]
  <2>1. SlotsOf(items) \subseteq Slots
    <3>1. \A i \in DOMAIN items : items[i] \in Items
      OBVIOUS
    <3> QED
      BY <3>1 DEF SlotsOf, Items
  <2>2. j \in Jobs /\ j.op = op /\ j.code = "none"
    BY <2>1 DEF Jobs
  <2>3. /\ Reply(r, j, "200") \/ At(r, Start(op), j)
        /\ rows' = rows /\ stale \ {r} \subseteq stale'
    BY <1>5 DEF Begin
  <2> HIDE DEF j
  <2>4. Reply(r, j, "200") \/ At(r, Start(j.op), j)
    BY <2>2, <2>3
  <2>5. Bystanders(r)
    BY <2>3, QuietStep
  <2> QED
    BY <1>1, <2>2, <2>4, <2>5, StartFollows, ReplyFollows
<1>6. ASSUME NEW r \in Requests, NEW items \in Lists([slot: Slots, body: Bodies]),
             UpsertChallenges(r, items)
      PROVE  WritesFollowReads'
  <2>1. items \in Seq(Items)
    <3>1. PICK n \in 0..MaxList : items \in [1..n -> [slot: Slots, body: Bodies]]
      BY <1>6 DEF Lists
    <3>2. n \in Nat /\ items \in [1..n -> Items]
      BY <3>1, ChallengesAssumption DEF Items
    <3> QED
      BY <3>2
  <2> QED
    BY <1>5, <1>6, <2>1 DEF UpsertChallenges, Statuses
<1>7. ASSUME NEW k \in Slots
      PROVE  <<[slot |-> k, body |-> Absent]>> \in Seq(Items)
  BY DEF Items
<1>8. ASSUME NEW r \in Requests, NEW k \in Slots, NEW status \in Reports,
             UpdateChallenge(r, k, status)
      PROVE  WritesFollowReads'
  BY <1>5, <1>7, <1>8, ChallengesAssumption DEF UpdateChallenge
<1>9. ASSUME NEW r \in Requests, NEW k \in Slots, NEW c \in Users, DeleteChallenges(r, c, k)
      PROVE  WritesFollowReads'
  BY <1>5, <1>7, <1>9 DEF DeleteChallenges, Statuses
<1>10. ASSUME NEW r \in Requests, GetChallengesByUserId(r) PROVE WritesFollowReads'
  <2> DEFINE row == rows[Current(job[r])]
             j == [job[r] EXCEPT !.row = ApplyStatusTransition(row, job[r].status), !.was = row]
  <2>1. pc[r] = "read" /\ rows' = rows /\ stale \ {r} \subseteq stale'
    BY <1>10 DEF GetChallengesByUserId
  <2>2. Bystanders(r)
    BY <2>1, QuietStep
  <2>3. CASE row # Absent /\ At(r, "upsert", j)
    <3>1. job[r] \in Jobs /\ job[r].code = "none"
      BY <2>1, JobAtWork
    <3>2. /\ j.code = "none" /\ j.status = job[r].status /\ j.todo = job[r].todo
          /\ j.row = ApplyStatusTransition(row, job[r].status) /\ j.was = row
      BY <3>1 DEF Jobs
    <3> HIDE DEF j
    <3>3. Follows("upsert", j, rows', r \in stale')
      BY <2>1, <2>3, <3>2 DEF Follows, Current
    <3> QED
      BY <1>1, <2>2, <2>3, <3>3, StepFollows
  <2>4. CASE Reply(r, job[r], "500")
    BY <1>1, <2>2, <2>4, ReplyFollows
  <2> QED
    BY <1>10, <2>3, <2>4 DEF GetChallengesByUserId
<1>11. ASSUME NEW r \in Requests, GetChallengeByUserIdAndLabId(r) PROVE WritesFollowReads'
  <2> DEFINE row == rows[Current(job[r])]
             j == [job[r] EXCEPT !.row = row]
  <2>1. pc[r] = "readRow" /\ rows' = rows /\ stale \ {r} \subseteq stale'
    BY <1>11 DEF GetChallengeByUserIdAndLabId
  <2>2. Bystanders(r)
    BY <2>1, QuietStep
  <2>3. CASE At(r, "readLab", j)
    <3>1. job[r] \in Jobs /\ job[r].code = "none"
      BY <2>1, JobAtWork
    <3>2. j.code = "none"
      BY <3>1 DEF Jobs
    <3> HIDE DEF j
    <3>3. Follows("readLab", j, rows', r \in stale')
      BY <3>2 DEF Follows
    <3> QED
      BY <1>1, <2>2, <2>3, <3>3, StepFollows
  <2>4. CASE Reply(r, job[r], "500")
    BY <1>1, <2>2, <2>4, ReplyFollows
  <2> QED
    BY <1>11, <2>3, <2>4 DEF GetChallengeByUserIdAndLabId
<1>12. ASSUME NEW r \in Requests, IsDeleteAllowed(r) PROVE WritesFollowReads'
  <2>1. pc[r] = "readLab" /\ rows' = rows /\ stale \ {r} \subseteq stale'
    BY <1>12 DEF IsDeleteAllowed
  <2>2. Bystanders(r)
    BY <2>1, QuietStep
  <2>3. Follows("delete", job[r], rows', r \in stale')
    BY <2>1, JobAtWork DEF Follows
  <2> QED
    BY <1>1, <1>12, <2>2, <2>3, StepFollows, ReplyFollows DEF IsDeleteAllowed
<1>13. ASSUME NEW r \in Requests, pc[r] \in {"upsert", "delete"}, NEW row,
              LET written == [job[r] EXCEPT !.applied = @ \cup {Current(job[r])}] IN
              \/ /\ Store(r, Current(job[r]), row)
                 /\ Continue(r, written) \/ Reply(r, written, "500")
              \/ UNCHANGED <<rows, stale>> /\ Reply(r, job[r], "500")
       PROVE  WritesFollowReads'
  <2> DEFINE written == [job[r] EXCEPT !.applied = @ \cup {Current(job[r])}]
  <2>1. job[r] \in Jobs /\ job[r].todo # <<>> /\ Current(job[r]) \in Slots /\ job[r].code = "none"
    BY <1>13, JobAtWork
  <2>2. written \in Jobs /\ written.todo = job[r].todo /\ written.code = "none"
    BY <2>1 DEF Jobs
  <2>3. Bystanders(r)
    BY <1>13, <2>1, QuietStep, StoreStep
  <2>4. Continue(r, written) \/ Reply(r, written, "500") \/ Reply(r, job[r], "500")
    BY <1>13
  <2> HIDE DEF written
  <2> QED
    BY <1>1, <2>1, <2>2, <2>3, <2>4, ContinueFollows, ReplyFollows
<1>14. ASSUME NEW r \in Requests, UpsertChallenge(r) PROVE WritesFollowReads'
  BY <1>13, <1>14 DEF UpsertChallenge
<1>15. ASSUME NEW r \in Requests, DeleteChallenge(r) PROVE WritesFollowReads'
  BY <1>13, <1>15 DEF DeleteChallenge
<1>16. ASSUME NEW r \in Requests, Answer(r) PROVE WritesFollowReads'
  <2>1. At(r, "idle", NoJob) /\ Bystanders(r)
    BY <1>16, QuietStep DEF Answer
  <2>2. Follows("idle", NoJob, rows', r \in stale')
    BY DEF Follows
  <2> QED
    BY <1>1, <2>1, <2>2, StepFollows
<1> QED
  BY <1>2, <1>3, <1>4, <1>6, <1>8, <1>9, <1>10, <1>11, <1>12, <1>14, <1>15, <1>16 DEF Next

\* A request that has written has one item less to do, or a code to answer.
LEMMA WriteMovesOn ==
    ASSUME IInv, WritesFollowReads, NEW r \in Requests, pc[r] \in {"upsert", "delete"},
           LET written == [job[r] EXCEPT !.applied = @ \cup {Current(job[r])}] IN
           Continue(r, written) \/ Reply(r, written, "500")
    PROVE  job'[r] # job[r]
<1> DEFINE written == [job[r] EXCEPT !.applied = @ \cup {Current(job[r])}]
<1>1. /\ job[r] \in Jobs /\ Current(job[r]) \in Slots
      /\ Tail(job[r].todo) # job[r].todo /\ job[r].code = "none"
  BY JobAtWork
<1>2. job[r].todo \in Seq(Items) /\ job[r].todo # <<>>
  BY <1>1, JobParts, JobFacts
<1>3. written \in Jobs /\ written.todo = job[r].todo
  BY <1>1 DEF Jobs
<1>4. Continue(r, written) \/ Reply(r, written, "500")
  OBVIOUS
<1> HIDE DEF written
<1>5. ASSUME NEW at, NEW j, At(r, at, j) PROVE job'[r] = j
  BY <1>5 DEF At, IInv, TypeOK
<1>6. CASE Reply(r, written, "500")
  <2>1. [written EXCEPT !.code = "500"].code = "500"
    BY <1>3 DEF Jobs
  <2> QED
    BY <1>1, <1>5, <1>6, <2>1 DEF Reply
<1>7. CASE Continue(r, written)
  <2> DEFINE rest == [written EXCEPT !.todo = Tail(@), !.row = Absent, !.was = Absent]
  <2>1. rest \in Jobs /\ rest.todo = Tail(job[r].todo)
    BY <1>2, <1>3, ItemsTail DEF Jobs
  <2>2. At(r, Start(written.op), rest) \/ Reply(r, rest, "200")
    BY <1>7 DEF Continue
  <2> HIDE DEF rest
  <2>3. [rest EXCEPT !.code = "200"].todo = Tail(job[r].todo)
    BY <2>1 DEF Jobs
  <2>4. job'[r] = rest \/ job'[r] = [rest EXCEPT !.code = "200"]
    BY <1>5, <2>2 DEF Reply
  <2> QED
    BY <1>1, <2>1, <2>3, <2>4
<1> QED
  BY <1>4, <1>6, <1>7

\* A report sets the status and one time, and keeps the others and the author.
LEMMA TransitionFields ==
    ASSUME NEW row \in Rows, NEW status \in Statuses
    PROVE  ApplyStatusTransition(row, status) =
               [by |-> row.by, status |-> status, times |-> row.times \cup {status}]
<1> DEFINE new == ApplyStatusTransition(row, status)
<1>1. new.by = row.by /\ new.status = status /\ new.times = row.times \cup {status}
  BY DEF ApplyStatusTransition, Rows
<1>2. new \in Rows
  BY TransitionIsRow
<1> HIDE DEF new
<1>3. new = [by |-> new.by, status |-> new.status, times |-> new.times]
  BY <1>2 DEF Rows
<1> QED
  BY <1>1, <1>3 DEF new

\* A change of a row is the write of a request, which has then something else to do.
LEMMA StepAccounts ==
    ASSUME IInv, WritesFollowReads, [Next]_vars, NEW k \in Slots, rows'[k] # rows[k]
    PROVE  \E r \in Writing(k) :
               /\ job'[r] # job[r]
               /\ Alone(job[r], IF r \in stale THEN job[r].was ELSE rows[k], rows'[k])
<1>1. PICK r \in Requests : UpsertChallenge(r) \/ DeleteChallenge(r)
  BY ReadKeepsRows DEF Next, vars, UpsertChallenges, UpdateChallenge, DeleteChallenges, Begin,
      GetChallengeByUserIdAndLabId, IsDeleteAllowed, Answer,
      SaveLab, Restart
<1> DEFINE written == [job[r] EXCEPT !.applied = @ \cup {Current(job[r])}]
           row == IF pc[r] = "delete" THEN Absent
                  ELSE IF job[r].op = "upsert" THEN Head(job[r].todo).body ELSE job[r].row
<1>2. /\ pc[r] \in {"upsert", "delete"}
      /\ Store(r, Current(job[r]), row)
      /\ Continue(r, written) \/ Reply(r, written, "500")
  BY <1>1 DEF UpsertChallenge, DeleteChallenge
<1>3. /\ job[r] \in Jobs /\ Current(job[r]) \in Slots
      /\ rows[Current(job[r])] \in Rows \cup {Absent}
  BY <1>2, JobAtWork, JobFacts
<1>4. k = Current(job[r]) /\ rows'[k] = row
  BY <1>2, <1>3 DEF Store, IInv, TypeOK
<1>5. job'[r] # job[r]
  BY <1>2, WriteMovesOn
<1> DEFINE was == IF r \in stale THEN job[r].was ELSE rows[k]
<1>6. Alone(job[r], was, rows'[k])
  <2>1. CASE pc[r] = "delete"
    BY <1>4, <2>1 DEF Alone, IInv, Checked
  <2>2. CASE pc[r] = "upsert" /\ job[r].op = "upsert"
    BY <1>4, <2>2 DEF Alone
  <2>3. ASSUME pc[r] = "upsert", job[r].op = "update"
        PROVE  Alone(job[r], was, rows'[k])
    <3>1. was = job[r].was /\ was # Absent /\ rows'[k] = ApplyStatusTransition(was, job[r].status)
      BY <1>4, <2>3 DEF WritesFollowReads
    <3>2. was \in Rows /\ job[r].status \in Statuses
      BY <1>3, <3>1, JobParts
    <3> HIDE DEF was
    <3>3. rows'[k] = [by |-> was.by, status |-> job[r].status,
                      times |-> was.times \cup {job[r].status}]
      BY <3>1, <3>2, TransitionFields
    <3> QED
      BY <2>3, <3>1, <3>3 DEF Alone
  <2> QED
    BY <1>2, <2>1, <2>2, <2>3 DEF IInv, RowsToWrite
<1> QED
  BY <1>2, <1>4, <1>5, <1>6 DEF Writing

\* However many requests overlap or fail: a challenge changes as one request alone
\* would have changed it, or would have changed the row it read when that was
\* written again since.
\* (internal/service/challenge.go:210-257, 282-295)
THEOREM ChallengeChangesAreAccountedFor == Spec => ChangesAreAccountedFor
<1>1. Init => WritesFollowReads
  BY DEF Init, WritesFollowReads
<1>2. IInv /\ WritesFollowReads /\ [Next]_vars =>
        [\A k \in Slots : rows'[k] # rows[k] =>
            \E r \in Writing(k) :
                /\ job'[r] # job[r]
                /\ Alone(job[r], IF r \in stale THEN job[r].was ELSE rows[k], rows'[k])]_vars
  BY StepAccounts
<1> QED
  BY <1>1, <1>2, Invariance, NextFollows, PTL DEF Spec, ChangesAreAccountedFor
=============================================================================
