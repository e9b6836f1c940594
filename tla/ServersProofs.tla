---------------------------- MODULE ServersProofs ----------------------------
(***************************************************************************)
(* Proofs about Servers for any users, principals, subscriptions and       *)
(* number of requests: its types, that a stored server acts as a principal *)
(* that was found entitled, and that every change is one that a request    *)
(* alone makes of the row there is, or of the row it read if it was        *)
(* overtaken. The inductive invariant adds that a server about to be       *)
(* written has been vouched for; the last theorem adds that what a report  *)
(* is about to write is made of the row it read.                           *)
(***************************************************************************)
EXTENDS Servers, TLAPS

LEMMA InitInv == Init => IInv
<1> SUFFICES ASSUME Init PROVE IInv
  OBVIOUS
<1>1. TypeOK
  BY DEF Init, TypeOK
<1>2. RegisteredWereAuthorized /\ WritesAreVouched
  BY DEF Init, RegisteredWereAuthorized, WritesAreVouched
<1> QED
  BY <1>1, <1>2 DEF IInv

\* A step of one request that leaves the rows alone.
LEMMA JobStep ==
    ASSUME IInv, NEW r \in Requests, NEW at, NEW j,
           At(r, at, j), rows' = rows, azure' = azure, stale' \subseteq Requests,
           vouched' \subseteq Ids \X Subscriptions \X {"V2", "V3"}, vouched \subseteq vouched',
           at \in {"idle", "authorize", "read", "upsert", "delete"},
           j \in Jobs \cup {NoJob}, at = "idle" <=> j = NoJob,
           at \in {"authorize", "upsert"} => j.server \in Servers,
           at = "upsert" => Vouch(j.server) \in vouched'
    PROVE  IInv'
<1>1. \A q \in Requests :
        /\ q = r => pc'[q] = at /\ job'[q] = j
        /\ q # r => pc'[q] = pc[q] /\ job'[q] = job[q]
  BY DEF At, IInv, TypeOK
<1>2. TypeOK'
  BY <1>1 DEF IInv, TypeOK, At
<1>3. RegisteredWereAuthorized'
  BY DEF IInv, RegisteredWereAuthorized, Vouch, Acting
<1>4. WritesAreVouched'
  BY <1>1 DEF IInv, WritesAreVouched, Vouch, Acting
<1> QED
  BY <1>2, <1>3, <1>4 DEF IInv

\* The end of a request that has written its row, or tried to.
LEMMA WriteStep ==
    ASSUME IInv, NEW r \in Requests, NEW s \in Servers \cup {Absent},
           job[r] \in Jobs, Done(r), UNCHANGED <<azure, vouched>>,
           Store(r, s) \/ UNCHANGED <<rows, stale>>,
           s # Absent => Vouch(s) \in vouched
    PROVE  IInv'
<1>1. job[r].user \in Users
  BY DEF Jobs
<1>2. \A q \in Requests :
        /\ q = r => pc'[q] = "idle" /\ job'[q] = NoJob
        /\ q # r => pc'[q] = pc[q] /\ job'[q] = job[q]
  BY DEF Done, At, IInv, TypeOK
<1>3. \A u \in Users : rows'[u] = rows[u] \/ rows'[u] = s
  BY <1>1 DEF Store, IInv, TypeOK
<1>4. TypeOK'
  BY <1>1, <1>2 DEF IInv, TypeOK, Done, At, Store, Writing
<1>5. RegisteredWereAuthorized'
  BY <1>3 DEF IInv, RegisteredWereAuthorized, Vouch, Acting
<1>6. WritesAreVouched'
  BY <1>2 DEF IInv, WritesAreVouched, Vouch, Acting
<1> QED
  BY <1>4, <1>5, <1>6 DEF IInv

LEMMA NextInv == IInv /\ [Next]_vars => IInv'
<1> SUFFICES ASSUME IInv, [Next]_vars PROVE IInv'
  OBVIOUS
<1>1. CASE UNCHANGED vars
  BY <1>1 DEF vars, IInv, TypeOK, RegisteredWereAuthorized, WritesAreVouched, Vouch, Acting
<1>2. CASE Restart
  BY <1>2 DEF Restart, IInv, TypeOK, RegisteredWereAuthorized, WritesAreVouched, Vouch, Acting
<1>3. ASSUME NEW p \in Principals, NEW s \in Subscriptions,
             NEW role \in {"owner", "contributor", "none"}, ChangeRole(p, s, role)
      PROVE  IInv'
  BY <1>3 DEF ChangeRole, Ids, IInv, TypeOK, RegisteredWereAuthorized, WritesAreVouched, Vouch, Acting
<1>4. ASSUME NEW r \in Requests, NEW u \in Users,
             NEW at \in {"authorize", "read"}, NEW op \in {"register", "unregister", "activity"},
             NEW s \in Servers \cup {Absent}, at = "authorize" => s \in Servers,
             Begin(r, at, op, u, s)
      PROVE  IInv'
  <2> DEFINE j == [op |-> op, user |-> u, server |-> s, was |-> Absent]
  <2>1. j \in Jobs /\ j # NoJob
    BY ServersAssumption DEF Jobs
  <2>2. /\ At(r, at, j) /\ UNCHANGED <<rows, azure, vouched>>
        /\ stale' \subseteq Requests
    BY <1>4 DEF Begin, IInv, TypeOK
  <2>3. vouched' \subseteq Ids \X Subscriptions \X {"V2", "V3"}
    BY <2>2 DEF IInv, TypeOK
  <2> QED
    BY <1>4, <2>1, <2>2, <2>3, JobStep
<1>5. ASSUME NEW r \in Requests, NEW u \in Users, NEW b \in Bodies, RegisterSubscription(r, u, b)
      PROVE  IInv'
  <2>1. Registration(b) \in Servers
    BY DEF Registration, Bodies, Servers, Ids
  <2> QED
    BY <1>4, <1>5, <2>1 DEF RegisterSubscription
<1>6. ASSUME NEW r \in Requests, NEW u \in Users, Unregister(r, u) \/ UpdateActivityStatus(r, u)
      PROVE  IInv'
  BY <1>4, <1>6 DEF Unregister, UpdateActivityStatus
<1>7. ASSUME NEW r \in Requests, pc[r] # "idle"
      PROVE  /\ job[r] \in Jobs /\ job[r] # NoJob /\ job[r].user \in Users
             /\ rows[job[r].user] \in Servers \cup {Absent}
  BY <1>7 DEF IInv, TypeOK, Jobs
<1>8. ASSUME NEW r \in Requests, pc[r] # "idle", Done(r), UNCHANGED <<rows, azure, vouched, stale>>
      PROVE  IInv'
  <2>1. stale' \subseteq Requests /\ vouched' \subseteq Ids \X Subscriptions \X {"V2", "V3"}
    BY <1>8 DEF IInv, TypeOK
  <2> QED
    BY <1>8, <2>1, JobStep DEF Done
<1>9. ASSUME NEW r \in Requests, IsUserAuthorized(r) PROVE IInv'
  <2> DEFINE s == job[r].server
  <2>1. pc[r] = "authorize" /\ UNCHANGED <<rows, azure, stale>>
    BY <1>9 DEF IsUserAuthorized
  <2>2. CASE At(r, "upsert", job[r]) /\ vouched' = vouched \cup {Vouch(s)}
    <3>1. s \in Servers
      BY <2>1 DEF IInv, TypeOK
    <3>2. Vouch(s) \in Ids \X Subscriptions \X {"V2", "V3"}
      BY <3>1 DEF Vouch, Acting, Servers
    <3>3. /\ stale' \subseteq Requests
          /\ vouched' \subseteq Ids \X Subscriptions \X {"V2", "V3"}
      BY <2>1, <2>2, <3>2 DEF IInv, TypeOK
    <3> QED
      BY <1>7, <2>1, <2>2, <3>1, <3>3, JobStep
  <2>3. CASE Done(r) /\ UNCHANGED vouched
    BY <1>8, <2>1, <2>3
  <2> QED
    BY <1>9, <2>2, <2>3 DEF IsUserAuthorized
<1>10. ASSUME NEW r \in Requests, ReadForActivity(r) PROVE IInv'
  <2>1. pc[r] = "read" /\ UNCHANGED <<rows, azure, vouched, stale>>
    BY <1>10 DEF ReadForActivity
  <2> DEFINE row == rows[job[r].user]
             s == [row EXCEPT !.active = TRUE]
             j == [job[r] EXCEPT !.server = s, !.was = row]
  <2>2. CASE row # Absent /\ At(r, "upsert", j)
    <3>1. row \in Servers
      BY <1>7, <2>1, <2>2
    <3>2. s \in Servers /\ Vouch(s) = Vouch(row)
      BY <3>1 DEF Servers, Vouch, Acting
    <3>3. Vouch(row) \in vouched
      BY <1>7, <2>1, <2>2 DEF IInv, RegisteredWereAuthorized
    <3>4. j \in Jobs /\ j.server = s
      BY <1>7, <2>1, <3>2 DEF Jobs
    <3>5. j # NoJob
      BY <3>4, ServersAssumption
    <3>6. /\ stale' \subseteq Requests
          /\ vouched' \subseteq Ids \X Subscriptions \X {"V2", "V3"}
      BY <2>1 DEF IInv, TypeOK
    <3> HIDE DEF j, s
    <3> QED
      BY <2>1, <2>2, <3>2, <3>3, <3>4, <3>5, <3>6, JobStep
  <2>3. CASE Done(r)
    BY <1>8, <2>1, <2>3
  <2> QED
    BY <1>10, <2>2, <2>3 DEF ReadForActivity
<1>11. ASSUME NEW r \in Requests, ReadForUnregister(r) PROVE IInv'
  <2>1. pc[r] = "read" /\ UNCHANGED <<rows, azure, vouched, stale>>
    BY <1>11 DEF ReadForUnregister
  <2> DEFINE j == [job[r] EXCEPT !.was = rows[job[r].user]]
  <2>2. CASE At(r, "delete", j)
    <3>1. /\ stale' \subseteq Requests
          /\ vouched' \subseteq Ids \X Subscriptions \X {"V2", "V3"}
      BY <2>1 DEF IInv, TypeOK
    <3>2. j \in Jobs
      BY <1>7, <2>1 DEF Jobs
    <3>3. j # NoJob
      BY <3>2, ServersAssumption
    <3> HIDE DEF j
    <3> QED
      BY <2>1, <2>2, <3>1, <3>2, <3>3, JobStep
  <2>3. CASE Done(r)
    BY <1>8, <2>1, <2>3
  <2> QED
    BY <1>11, <2>2, <2>3 DEF ReadForUnregister
<1>12. ASSUME NEW r \in Requests, UpsertServerInDatabase(r) PROVE IInv'
  <2>1. pc[r] = "upsert" /\ job[r].server \in Servers /\ Vouch(job[r].server) \in vouched
    BY <1>12 DEF UpsertServerInDatabase, IInv, TypeOK, WritesAreVouched
  <2> QED
    BY <1>7, <1>12, <2>1, WriteStep DEF UpsertServerInDatabase
<1>13. ASSUME NEW r \in Requests, DeleteServerFromDatabase(r) PROVE IInv'
  BY <1>7, <1>13, WriteStep DEF DeleteServerFromDatabase
<1> QED
  BY <1>1, <1>2, <1>3, <1>5, <1>6, <1>9, <1>10, <1>11, <1>12, <1>13 DEF Next

LEMMA Invariance == Spec => []IInv
BY InitInv, NextInv, PTL DEF Spec

\* The rows, the role assignments, the requests and the history keep their types.
THEOREM ServersTypeCorrect == Spec => []TypeOK
<1>1. IInv => TypeOK
  BY DEF IInv
<1> QED
  BY <1>1, Invariance, PTL

\* However registrations, reports of activity, deletions and changes of roles
\* overlap or fail: a stored server acts as a principal that was found entitled.
THEOREM ServersWereAuthorized == Spec => []RegisteredWereAuthorized
<1>1. IInv => RegisteredWereAuthorized
  BY DEF IInv
<1> QED
  BY <1>1, Invariance, PTL

-----------------------------------------------------------------------------
(* Changes are accounted for: by what those about to write have read.        *)

\* What WritesFollowReads says of one request, at a call and with a job, when the
\* table is t and the request has been overtaken or not.
Follows(at, j, t, overtaken) ==
    /\ at = "authorize" => j.op = "register"
    /\ at = "upsert" => j.op # "unregister"
    /\ at = "delete" => j.op = "unregister" /\ j.was # Absent
    /\ at = "upsert" /\ j.op = "activity" =>
           /\ j.was # Absent /\ j.server = Reported(j.was)
           /\ overtaken \/ t[j.user] = j.was

LEMMA AllFollow ==
    WritesFollowReads <=> \A r \in Requests : Follows(pc[r], job[r], rows, r \in stale)
  BY DEF WritesFollowReads, Follows

\* A step of one request that leaves the rows alone.
LEMMA JobStepFollows ==
    ASSUME TypeOK, WritesFollowReads, NEW r \in Requests, NEW at, NEW j,
           At(r, at, j), rows' = rows, stale \ {r} \subseteq stale',
           Follows(at, j, rows, r \in stale')
    PROVE  WritesFollowReads'
<1>1. ASSUME NEW q \in Requests PROVE Follows(pc'[q], job'[q], rows, q \in stale')
  <2>1. CASE q = r
    BY <2>1 DEF At, TypeOK
  <2>2. CASE q # r
    <3>1. pc'[q] = pc[q] /\ job'[q] = job[q] /\ (q \in stale => q \in stale')
      BY <2>2 DEF At, TypeOK
    <3>2. Follows(pc[q], job[q], rows, q \in stale)
      BY AllFollow
    <3> QED
      BY <3>1, <3>2 DEF Follows
  <2> QED
    BY <2>1, <2>2
<1> QED
  BY <1>1 DEF WritesFollowReads, Follows

\* A request ends having written the row or not: whoever was about to write the
\* same row has been overtaken.
LEMMA WriteStepFollows ==
    ASSUME TypeOK, WritesFollowReads, NEW r \in Requests, job[r] \in Jobs, Done(r),
           NEW s, Store(r, s) \/ UNCHANGED <<rows, stale>>
    PROVE  WritesFollowReads'
<1> SUFFICES ASSUME NEW q \in Requests PROVE Follows(pc'[q], job'[q], rows', q \in stale')
  BY DEF WritesFollowReads, Follows
<1>1. CASE q = r
  BY <1>1 DEF Done, At, TypeOK, Follows
<1>2. CASE q # r
  <2>1. pc'[q] = pc[q] /\ job'[q] = job[q]
    BY <1>2 DEF Done, At, TypeOK
  <2>2. Follows(pc[q], job[q], rows, q \in stale)
    BY AllFollow
  <2>3. q \in stale => q \in stale'
    BY <1>2 DEF Store
  <2>4. pc[q] = "upsert" /\ q \notin stale' => rows'[job[q].user] = rows[job[q].user]
    <3>1. pc[q] = "upsert" => job[q].user \in Users
      BY DEF TypeOK, Jobs
    <3>2. CASE UNCHANGED <<rows, stale>>
      BY <3>2
    <3>3. CASE Store(r, s)
      BY <1>2, <3>1, <3>3 DEF Store, Writing, TypeOK
    <3> QED
      BY <3>2, <3>3
  <2> QED
    BY <2>1, <2>2, <2>3, <2>4 DEF Follows
<1> QED
  BY <1>1, <1>2

LEMMA NextFollows == IInv /\ WritesFollowReads /\ [Next]_vars => WritesFollowReads'
<1> SUFFICES ASSUME IInv, WritesFollowReads, [Next]_vars PROVE WritesFollowReads'
  OBVIOUS
<1>1. TypeOK /\ \A r \in Requests : Follows(pc[r], job[r], rows, r \in stale)
  BY AllFollow DEF IInv
<1>2. CASE UNCHANGED vars
  BY <1>2 DEF vars, WritesFollowReads
<1>3. CASE Restart
  BY <1>3 DEF Restart, WritesFollowReads
<1>4. ASSUME NEW p \in Principals, NEW s \in Subscriptions,
             NEW role \in {"owner", "contributor", "none"}, ChangeRole(p, s, role)
      PROVE  WritesFollowReads'
  <2>1. rows' = rows /\ pc' = pc /\ job' = job /\ stale' = stale
    BY <1>4, Zenon DEF ChangeRole
  <2> QED
    BY <2>1 DEF WritesFollowReads
<1>5. ASSUME NEW r \in Requests, pc[r] # "idle" PROVE job[r] \in Jobs
  BY <1>1, <1>5 DEF TypeOK
<1>6. ASSUME NEW r \in Requests, Done(r), rows' = rows, stale' = stale PROVE WritesFollowReads'
  <2>1. Follows("idle", NoJob, rows, r \in stale')
    BY DEF Follows
  <2> QED
    BY <1>1, <1>6, <2>1, JobStepFollows DEF Done
<1>7. ASSUME NEW r \in Requests, NEW u, NEW s, NEW at \in {"authorize", "read"}, NEW op,
             at = "authorize" => op = "register", Begin(r, at, op, u, s)
      PROVE  WritesFollowReads'
  <2> DEFINE j == [op |-> op, user |-> u, server |-> s, was |-> Absent]
  <2>1. Follows(at, j, rows, r \in stale')
    BY <1>7 DEF Follows
  <2>2. At(r, at, j) /\ rows' = rows /\ stale \ {r} \subseteq stale'
    BY <1>7 DEF Begin
  <2> HIDE DEF j
  <2> QED
    BY <1>1, <2>1, <2>2, JobStepFollows
<1>8. ASSUME NEW r \in Requests, IsUserAuthorized(r) PROVE WritesFollowReads'
  <2>1. pc[r] = "authorize" /\ rows' = rows /\ stale' = stale
    BY <1>8 DEF IsUserAuthorized
  <2>2. Follows("upsert", job[r], rows, r \in stale')
    BY <1>1, <2>1 DEF Follows
  <2>3. At(r, "upsert", job[r]) \/ Done(r)
    BY <1>8 DEF IsUserAuthorized
  <2> QED
    BY <1>1, <1>6, <2>1, <2>2, <2>3, JobStepFollows
<1>9. ASSUME NEW r \in Requests, ReadForActivity(r) PROVE WritesFollowReads'
  <2> DEFINE row == rows[job[r].user]
             j == [job[r] EXCEPT !.server = Reported(row), !.was = row]
  <2>1. pc[r] = "read" /\ job[r].op = "activity" /\ rows' = rows /\ stale' = stale
    BY <1>9 DEF ReadForActivity
  <2>2. j.op = "activity" /\ j.user = job[r].user /\ j.server = Reported(row) /\ j.was = row
    BY <1>5, <2>1 DEF Jobs
  <2>3. (row # Absent /\ At(r, "upsert", j)) \/ Done(r)
    BY <1>9 DEF ReadForActivity, Reported
  <2> HIDE DEF j
  <2>4. row # Absent => Follows("upsert", j, rows, r \in stale')
    BY <2>2 DEF Follows
  <2> QED
    BY <1>1, <1>6, <2>1, <2>3, <2>4, JobStepFollows
<1>10. ASSUME NEW r \in Requests, ReadForUnregister(r) PROVE WritesFollowReads'
  <2> DEFINE row == rows[job[r].user]
             j == [job[r] EXCEPT !.was = row]
  <2>1. pc[r] = "read" /\ job[r].op = "unregister" /\ rows' = rows /\ stale' = stale
    BY <1>10 DEF ReadForUnregister
  <2>2. j.op = "unregister" /\ j.was = row
    BY <1>5, <2>1 DEF Jobs
  <2>3. (row # Absent /\ At(r, "delete", j)) \/ Done(r)
    BY <1>10 DEF ReadForUnregister
  <2> HIDE DEF j
  <2>4. row # Absent => Follows("delete", j, rows, r \in stale')
    BY <2>2 DEF Follows
  <2> QED
    BY <1>1, <1>6, <2>1, <2>3, <2>4, JobStepFollows
<1>11. ASSUME NEW r \in Requests, UpsertServerInDatabase(r) \/ DeleteServerFromDatabase(r)
       PROVE  WritesFollowReads'
  BY <1>1, <1>5, <1>11, WriteStepFollows DEF UpsertServerInDatabase, DeleteServerFromDatabase
<1>12. ASSUME NEW r \in Requests, NEW u \in Users, NEW b \in Bodies, RegisterSubscription(r, u, b)
       PROVE  WritesFollowReads'
  BY <1>7, <1>12 DEF RegisterSubscription
<1>13. ASSUME NEW r \in Requests, NEW u \in Users, Unregister(r, u) \/ UpdateActivityStatus(r, u)
       PROVE  WritesFollowReads'
  BY <1>7, <1>13 DEF Unregister, UpdateActivityStatus
<1> QED
  BY <1>2, <1>3, <1>4, <1>8, <1>9, <1>10, <1>11, <1>12, <1>13 DEF Next

\* A change of a row is one of the two writes, by the request that ends with it.
LEMMA StepAccounts ==
    ASSUME IInv, WritesFollowReads, [Next]_vars, NEW u \in Users, rows'[u] # rows[u]
    PROVE  \E r \in Writing(u) :
               /\ pc'[r] = "idle"
               /\ Alone(job[r], IF r \in stale THEN job[r].was ELSE rows[u], rows'[u])
<1>1. PICK r \in Requests : UpsertServerInDatabase(r) \/ DeleteServerFromDatabase(r)
  <2>1. \A r \in Requests : ReadForActivity(r) \/ ReadForUnregister(r) => rows' = rows
    BY Zenon DEF ReadForActivity, ReadForUnregister
  <2>2. \A r \in Requests : IsUserAuthorized(r) => rows' = rows
    BY Zenon DEF IsUserAuthorized
  <2>3. \A r \in Requests, v \in Users :
            /\ \A b \in Bodies : RegisterSubscription(r, v, b) => rows' = rows
            /\ Unregister(r, v) \/ UpdateActivityStatus(r, v) => rows' = rows
    BY Zenon DEF RegisterSubscription, Unregister, UpdateActivityStatus, Begin
  <2>4. \A p, s, role : ChangeRole(p, s, role) => rows' = rows
    BY Zenon DEF ChangeRole
  <2> QED
    BY <2>1, <2>2, <2>3, <2>4 DEF Next, vars, Restart
<1>2. /\ pc[r] \in {"upsert", "delete"} /\ job[r] \in Jobs /\ job[r].user \in Users
      /\ pc'[r] = "idle"
  BY <1>1 DEF UpsertServerInDatabase, DeleteServerFromDatabase, Done, At, IInv, TypeOK, Jobs
<1>3. Follows(pc[r], job[r], rows, r \in stale)
  BY AllFollow
<1>4. CASE UpsertServerInDatabase(r)
  <2>1. pc[r] = "upsert" /\ u = job[r].user /\ rows'[u] = job[r].server
    BY <1>2, <1>4 DEF UpsertServerInDatabase, Store, IInv, TypeOK
  <2>2. Alone(job[r], IF r \in stale THEN job[r].was ELSE rows[u], rows'[u])
    BY <1>2, <1>3, <2>1 DEF Follows, Alone, Jobs
  <2> QED
    BY <1>2, <2>1, <2>2 DEF Writing
<1>5. CASE DeleteServerFromDatabase(r)
  <2>1. pc[r] = "delete" /\ u = job[r].user /\ rows[u] # Absent /\ rows'[u] = Absent
    BY <1>2, <1>5 DEF DeleteServerFromDatabase, Store, IInv, TypeOK
  <2>2. Alone(job[r], IF r \in stale THEN job[r].was ELSE rows[u], rows'[u])
    BY <1>3, <2>1 DEF Follows, Alone
  <2> QED
    BY <1>2, <2>1, <2>2 DEF Writing
<1> QED
  BY <1>1, <1>4, <1>5

\* However many requests overlap or fail: a registration is changed as one request
\* alone would have changed it, or, when the row has been written again since that
\* request read it, as the request would have changed the row it read.
\* (internal/service/server.go:34-83, 119-132)
THEOREM ServerChangesAreAccountedFor == Spec => ChangesAreAccountedFor
<1>1. ASSUME Init PROVE WritesFollowReads
  <2>1. pc = [r \in Requests |-> "idle"]
    BY <1>1, Zenon DEF Init
  <2> QED
    BY <2>1 DEF WritesFollowReads
<1>2. IInv /\ WritesFollowReads /\ [Next]_vars =>
        [\A u \in Users : rows'[u] # rows[u] =>
            \E r \in Writing(u) :
                /\ pc'[r] = "idle"
                /\ Alone(job[r], IF r \in stale THEN job[r].was ELSE rows[u], rows'[u])]_vars
  BY StepAccounts
<1> QED
  BY <1>1, <1>2, Invariance, NextFollows, PTL DEF Spec, ChangesAreAccountedFor
=============================================================================
